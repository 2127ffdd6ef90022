----------------------------- MODULE PresentingProofs -----------------------------
(***************************************************************************)
(* Proofs about Presenting.  What the device will find is what the world   *)
(* becomes when it executes all that is queued and recorded, so the proofs *)
(* follow Final, the images after the last command recorded so far: a      *)
(* target remembers the layouts of Final, and every step that records a    *)
(* command records one that Final is ready for.                            *)
(***************************************************************************)
EXTENDS Presenting, SequenceTheorems, WellFoundedInduction, TLAPS

-----------------------------------------------------------------------------
(***************************************************************************)
(* Induction over the natural numbers, from the library's theorem that     *)
(* their order is well founded.                                            *)
(***************************************************************************)

\* A set of natural numbers that is not empty has a least element.
LEMMA Least == ASSUME NEW T \in SUBSET Nat, T # {} PROVE \E n \in T : \A m \in T : n <= m
<1>1. \E x \in T : \A y \in T : ~ (<< y, x >> \in OpToRel(<, Nat))
  BY NatLessThanWellFounded, WFMin, Zenon
<1>2. PICK x \in T : \A y \in T : ~ (<< y, x >> \in OpToRel(<, Nat))
  BY <1>1
<1>3. ASSUME NEW y \in T, y < x PROVE FALSE
  <2>1. << y, x >> \in Nat \X Nat /\ << y, x >>[1] < << y, x >>[2]
    BY <1>3
  <2>2. << y, x >> \in OpToRel(<, Nat)
    BY <2>1, Zenon DEF OpToRel
  <2> QED
    BY <1>2, <2>2
<1> QED
  BY <1>3

\* A set of natural numbers with zero and with every successor has them all.
LEMMA Induct ==
  ASSUME NEW T \in SUBSET Nat, 0 \in T, \A n \in T : n + 1 \in T
  PROVE  T = Nat
<1> SUFFICES ASSUME Nat \ T # {} PROVE FALSE
  OBVIOUS
<1>1. PICK n \in Nat \ T : \A m \in Nat \ T : n <= m
  BY Least
<1>2. n - 1 \in T
  BY <1>1
<1> QED
  BY <1>1, <1>2

-----------------------------------------------------------------------------
(***************************************************************************)
(* Sequences whose elements have no type of their own.                     *)
(***************************************************************************)

IsSeq(s) == s \in Seq({s[n] : n \in DOMAIN s})

LEMMA SeqIs == ASSUME NEW S, NEW s \in Seq(S) PROVE IsSeq(s)
<1>1. /\ Len(s) \in Nat
      /\ s \in [1 .. Len(s) -> S]
  BY LenProperties
<1>2. s \in [1 .. Len(s) -> {s[n] : n \in DOMAIN s}]
  BY <1>1
<1>3. s \in UNION {[1 .. n -> {s[m] : m \in DOMAIN s}] : n \in Nat}
  BY <1>1, <1>2
<1> QED
  BY <1>3, SeqDef DEF IsSeq

LEMMA SeqLen ==
  ASSUME NEW s, IsSeq(s)
  PROVE  Len(s) \in Nat /\ DOMAIN s = 1 .. Len(s)
BY LenProperties DEF IsSeq

LEMMA SeqAppend ==
  ASSUME NEW s, IsSeq(s), NEW x
  PROVE  /\ IsSeq(Append(s, x))
         /\ Len(Append(s, x)) = Len(s) + 1
         /\ \A n \in 1 .. Len(s) : Append(s, x)[n] = s[n]
         /\ Append(s, x)[Len(s) + 1] = x
<1> DEFINE S == {s[n] : n \in DOMAIN s} \cup {x}
<1>1. s \in Seq(S)
  BY SeqMonotonic DEF IsSeq
<1>2. x \in S
  OBVIOUS
<1> HIDE DEF S
<1>3. /\ Append(s, x) \in Seq(S)
      /\ Len(Append(s, x)) = Len(s) + 1
      /\ \A n \in 1 .. Len(s) : Append(s, x)[n] = s[n]
      /\ Append(s, x)[Len(s) + 1] = x
  BY <1>1, <1>2, AppendProperties
<1>4. IsSeq(Append(s, x))
  BY <1>3, SeqIs
<1> QED
  BY <1>3, <1>4

LEMMA SeqTail ==
  ASSUME NEW s, IsSeq(s), s # << >>
  PROVE  /\ IsSeq(Tail(s))
         /\ Len(s) \in Nat \ {0}
         /\ Len(Tail(s)) = Len(s) - 1
         /\ Head(s) = s[1]
         /\ \A n \in 1 .. Len(s) - 1 : Tail(s)[n] = s[n + 1]
<1> DEFINE S == {s[n] : n \in DOMAIN s}
<1>1. s \in Seq(S)
  BY DEF IsSeq
<1> HIDE DEF S
<1>2. /\ Tail(s) \in Seq(S)
      /\ Len(Tail(s)) = Len(s) - 1
      /\ \A n \in 1 .. Len(Tail(s)) : Tail(s)[n] = s[n + 1]
  BY <1>1, HeadTailProperties
<1>3. Len(s) \in Nat \ {0}
  BY <1>1, EmptySeq
<1>4. Head(s) = s[1]
  BY <1>1, <1>3
<1> QED
  BY <1>2, <1>3, <1>4, SeqIs

LEMMA SeqEmpty == IsSeq(<< >>) /\ Len(<< >>) = 0
BY EmptySeq DEF IsSeq

LEMMA SeqExcept ==
  ASSUME NEW s, IsSeq(s), NEW k \in 1 .. Len(s), NEW x
  PROVE  /\ IsSeq([s EXCEPT ![k] = x])
         /\ Len([s EXCEPT ![k] = x]) = Len(s)
         /\ \A n \in 1 .. Len(s) : [s EXCEPT ![k] = x][n] = IF n = k THEN x ELSE s[n]
<1> DEFINE S == {s[n] : n \in DOMAIN s} \cup {x}
<1>1. s \in Seq(S)
  BY SeqMonotonic DEF IsSeq
<1>2. x \in S
  OBVIOUS
<1> HIDE DEF S
<1>3. /\ [s EXCEPT ![k] = x] \in Seq(S)
      /\ Len([s EXCEPT ![k] = x]) = Len(s)
      /\ \A n \in 1 .. Len(s) : [s EXCEPT ![k] = x][n] = IF n = k THEN x ELSE s[n]
  BY <1>1, <1>2, ExceptSeq
<1>4. IsSeq([s EXCEPT ![k] = x])
  BY <1>3, SeqIs
<1> QED
  BY <1>3, <1>4

LEMMA SeqConcat ==
  ASSUME NEW s, IsSeq(s), NEW t, IsSeq(t)
  PROVE  /\ IsSeq(s \o t)
         /\ Len(s \o t) = Len(s) + Len(t)
         /\ \A n \in 1 .. Len(s) + Len(t) :
              (s \o t)[n] = IF n <= Len(s) THEN s[n] ELSE t[n - Len(s)]
<1> DEFINE S == {s[n] : n \in DOMAIN s} \cup {t[n] : n \in DOMAIN t}
<1>1. s \in Seq(S) /\ t \in Seq(S)
  BY SeqMonotonic DEF IsSeq
<1> HIDE DEF S
<1>2. /\ s \o t \in Seq(S)
      /\ Len(s \o t) = Len(s) + Len(t)
      /\ \A n \in 1 .. Len(s) + Len(t) :
           (s \o t)[n] = IF n <= Len(s) THEN s[n] ELSE t[n - Len(s)]
  BY <1>1, ConcatProperties
<1>3. IsSeq(s \o t)
  BY <1>2, SeqIs
<1> QED
  BY <1>2, <1>3

-----------------------------------------------------------------------------
(***************************************************************************)
(* What Worlds computes: a function with the recursive equation exists for *)
(* every length, so the function that it chooses has the equation.         *)
(***************************************************************************)

StepsThrough(w, c, n, g) ==
  g = [k \in 0 .. n |-> IF k = 0 THEN w ELSE Effect(g[k - 1], c[k])]

LEMMA WorldsExist == ASSUME NEW w, NEW c PROVE \A n \in Nat : \E g : StepsThrough(w, c, n, g)
<1> DEFINE T == {n \in Nat : \E g : StepsThrough(w, c, n, g)}
<1>1. 0 \in T
  <2>1. StepsThrough(w, c, 0, [k \in 0 .. 0 |-> w])
    BY DEF StepsThrough
  <2> QED
    BY <2>1
<1>2. ASSUME NEW n \in T PROVE n + 1 \in T
  <2>1. PICK g : StepsThrough(w, c, n, g)
    OBVIOUS
  <2> DEFINE h == [k \in 0 .. n + 1 |-> IF k = n + 1 THEN Effect(g[n], c[n + 1]) ELSE g[k]]
  <2>2. \A k \in 0 .. n : h[k] = g[k] /\ g[k] = IF k = 0 THEN w ELSE Effect(g[k - 1], c[k])
    BY <2>1 DEF StepsThrough
  <2>3. \A k \in 0 .. n + 1 : h[k] = IF k = 0 THEN w ELSE Effect(h[k - 1], c[k])
    BY <2>2
  <2>4. h = [k \in 0 .. n + 1 |-> IF k = 0 THEN w ELSE Effect(h[k - 1], c[k])]
    BY <2>3
  <2>5. StepsThrough(w, c, n + 1, h)
    BY <2>4, Zenon DEF StepsThrough
  <2> QED
    BY <2>5
<1> HIDE DEF T
<1>3. T = Nat
  <2>1. T \in SUBSET Nat
    BY DEF T
  <2> QED
    BY <1>1, <1>2, <2>1, Induct
<1> QED
  BY <1>3 DEF T

\* The first world is w, and each command makes the next.
LEMMA WorldsDef ==
  ASSUME NEW w, NEW c, Len(c) \in Nat
  PROVE  /\ Worlds(w, c)[0] = w
         /\ \A n \in 1 .. Len(c) : Worlds(w, c)[n] = Effect(Worlds(w, c)[n - 1], c[n])
<1>1. \E g : StepsThrough(w, c, Len(c), g)
  BY WorldsExist
<1>2. Worlds(w, c) = CHOOSE g : StepsThrough(w, c, Len(c), g)
  BY DEF Worlds, StepsThrough
<1>3. StepsThrough(w, c, Len(c), Worlds(w, c))
  BY <1>1, <1>2
<1> DEFINE g == Worlds(w, c)
<1>4. g = [k \in 0 .. Len(c) |-> IF k = 0 THEN w ELSE Effect(g[k - 1], c[k])]
  BY <1>3 DEF StepsThrough
<1> HIDE DEF g
<1>5. \A k \in 0 .. Len(c) : g[k] = IF k = 0 THEN w ELSE Effect(g[k - 1], c[k])
  BY <1>4
<1>6. g[0] = w /\ \A n \in 1 .. Len(c) : g[n] = Effect(g[n - 1], c[n])
  BY <1>5
<1> QED
  BY <1>6 DEF g

\* A command that is recorded later does not change what comes before it.
LEMMA WorldsAppend ==
  ASSUME NEW w, NEW c, IsSeq(c), NEW m
  PROVE  \A n \in 0 .. Len(c) : Worlds(w, Append(c, m))[n] = Worlds(w, c)[n]
<1> DEFINE d == Append(c, m)
<1>1. /\ Len(c) \in Nat
      /\ Len(d) = Len(c) + 1
      /\ \A n \in 1 .. Len(c) : d[n] = c[n]
  BY SeqAppend, SeqLen
<1> HIDE DEF d
<1>2. /\ Worlds(w, c)[0] = w
      /\ \A n \in 1 .. Len(c) : Worlds(w, c)[n] = Effect(Worlds(w, c)[n - 1], c[n])
  BY <1>1, WorldsDef
<1>3. /\ Worlds(w, d)[0] = w
      /\ \A n \in 1 .. Len(d) : Worlds(w, d)[n] = Effect(Worlds(w, d)[n - 1], d[n])
  BY <1>1, WorldsDef
<1> DEFINE T == {n \in Nat : n <= Len(c) => Worlds(w, d)[n] = Worlds(w, c)[n]}
<1>4. 0 \in T
  BY <1>2, <1>3
<1>5. ASSUME NEW n \in T PROVE n + 1 \in T
  <2>1. ASSUME n + 1 <= Len(c) PROVE Worlds(w, d)[n + 1] = Worlds(w, c)[n + 1]
    <3>1. n + 1 \in 1 .. Len(c) /\ n + 1 \in 1 .. Len(d) /\ n + 1 - 1 = n
      BY <1>1, <2>1
    <3>2. Worlds(w, d)[n] = Worlds(w, c)[n]
      BY <1>1, <2>1
    <3>3. /\ Worlds(w, d)[n + 1] = Effect(Worlds(w, d)[n], d[n + 1])
          /\ Worlds(w, c)[n + 1] = Effect(Worlds(w, c)[n], c[n + 1])
      BY <1>2, <1>3, <3>1
    <3> QED
      BY <1>1, <3>1, <3>2, <3>3
  <2> QED
    BY <2>1
<1> HIDE DEF T
<1>6. T = Nat
  <2>1. T \in SUBSET Nat
    BY DEF T
  <2> QED
    BY <1>4, <1>5, <2>1, Induct
<1>7. ASSUME NEW n \in 0 .. Len(c) PROVE Worlds(w, d)[n] = Worlds(w, c)[n]
  <2>1. n \in T /\ n <= Len(c)
    BY <1>1, <1>6
  <2> QED
    BY <2>1 DEF T
<1> QED
  BY <1>7 DEF d

LEMMA ExecuteNothing == ASSUME NEW w PROVE ExecuteAll(w, << >>) = w
<1>1. Len(<< >>) = 0
  OBVIOUS
<1>2. Worlds(w, << >>)[0] = w
  BY <1>1, WorldsDef
<1> QED
  BY <1>1, <1>2 DEF ExecuteAll

LEMMA ExecuteAppend ==
  ASSUME NEW w, NEW c, IsSeq(c), NEW m
  PROVE  ExecuteAll(w, Append(c, m)) = Effect(ExecuteAll(w, c), m)
<1> DEFINE d == Append(c, m)
<1>1. /\ Len(c) \in Nat
      /\ Len(d) = Len(c) + 1
      /\ d[Len(c) + 1] = m
  BY SeqAppend, SeqLen
<1>2. Worlds(w, d)[Len(c)] = Worlds(w, c)[Len(c)]
  BY <1>1, WorldsAppend
<1> HIDE DEF d
<1>3. Worlds(w, d)[Len(c) + 1] = Effect(Worlds(w, d)[Len(c) + 1 - 1], d[Len(c) + 1])
  BY <1>1, WorldsDef
<1>4. Len(c) + 1 - 1 = Len(c)
  BY <1>1
<1>5. Worlds(w, d)[Len(d)] = Effect(Worlds(w, c)[Len(c)], m)
  BY <1>1, <1>2, <1>3, <1>4
<1>6. ExecuteAll(w, d) = Effect(ExecuteAll(w, c), m)
  BY <1>5 DEF ExecuteAll
<1> QED
  BY <1>6 DEF d

-----------------------------------------------------------------------------
(***************************************************************************)
(* What a command is told and finds, all of it together.                   *)
(***************************************************************************)

AsTold(w, m) ==
  /\ FindsLayouts(w, m)
  /\ NamesImages(w, m)
  /\ DrawnAsRecorded(w, m)
  /\ Fits(w, m)

AllAsTold(w, c) == AllMeet(w, c, AsTold)

LEMMA NothingAsTold == ASSUME NEW w PROVE AllAsTold(w, << >>)
BY DEF AllAsTold, AllMeet

LEMMA AppendAsTold ==
  ASSUME NEW w, NEW c, IsSeq(c), NEW m, AllAsTold(w, c), AsTold(ExecuteAll(w, c), m)
  PROVE  AllAsTold(w, Append(c, m))
<1> DEFINE d == Append(c, m)
<1>1. /\ Len(c) \in Nat
      /\ Len(d) = Len(c) + 1
      /\ \A n \in 1 .. Len(c) : d[n] = c[n]
      /\ d[Len(c) + 1] = m
  BY SeqAppend, SeqLen
<1>2. \A n \in 0 .. Len(c) : Worlds(w, d)[n] = Worlds(w, c)[n]
  BY WorldsAppend
<1>3. \A n \in 1 .. Len(c) : AsTold(Worlds(w, c)[n - 1], c[n])
  BY Zenon DEF AllAsTold, AllMeet
<1> HIDE DEF d
<1>4. ASSUME NEW n \in 1 .. Len(d) PROVE AsTold(Worlds(w, d)[n - 1], d[n])
  <2>1. CASE n = Len(c) + 1
    <3>1. n - 1 = Len(c) /\ Len(c) \in 0 .. Len(c)
      BY <1>1, <2>1
    <3>2. Worlds(w, d)[n - 1] = ExecuteAll(w, c)
      BY <1>2, <3>1 DEF ExecuteAll
    <3>3. d[n] = m
      BY <1>1, <2>1
    <3> QED
      BY <3>2, <3>3
  <2>2. CASE n # Len(c) + 1
    <3>1. n \in 1 .. Len(c) /\ n - 1 \in 0 .. Len(c)
      BY <1>1, <2>2
    <3>2. Worlds(w, d)[n - 1] = Worlds(w, c)[n - 1] /\ d[n] = c[n]
      BY <1>1, <1>2, <3>1
    <3> QED
      BY <1>3, <3>1, <3>2
  <2> QED
    BY <2>1, <2>2
<1>5. AllAsTold(w, d)
  BY <1>4, Zenon DEF AllAsTold, AllMeet
<1> QED
  BY <1>5 DEF d

-----------------------------------------------------------------------------
(***************************************************************************)
(* The same for Ahead, which goes from batch to batch.                     *)
(***************************************************************************)

StepsBefore(w, q, n, g) ==
  g = [k \in 1 .. n + 1 |-> IF k = 1 THEN w ELSE ExecuteAll(g[k - 1], q[k - 1].cmds)]

LEMMA AheadExists == ASSUME NEW w, NEW q PROVE \A n \in Nat : \E g : StepsBefore(w, q, n, g)
<1> DEFINE T == {n \in Nat : \E g : StepsBefore(w, q, n, g)}
<1>1. 0 \in T
  <2>1. [k \in 1 .. 0 + 1 |-> w]
          = [k \in 1 .. 0 + 1 |->
               IF k = 1 THEN w ELSE ExecuteAll([j \in 1 .. 0 + 1 |-> w][k - 1], q[k - 1].cmds)]
    OBVIOUS
  <2>2. StepsBefore(w, q, 0, [k \in 1 .. 0 + 1 |-> w])
    BY <2>1, Zenon DEF StepsBefore
  <2> QED
    BY <2>2
<1>2. ASSUME NEW n \in T PROVE n + 1 \in T
  <2>1. PICK g : StepsBefore(w, q, n, g)
    OBVIOUS
  <2> DEFINE h == [k \in 1 .. (n + 1) + 1 |->
                     IF k = n + 2 THEN ExecuteAll(g[n + 1], q[n + 1].cmds) ELSE g[k]]
  <2>2. \A k \in 1 .. n + 1 :
          h[k] = g[k] /\ g[k] = IF k = 1 THEN w ELSE ExecuteAll(g[k - 1], q[k - 1].cmds)
    BY <2>1 DEF StepsBefore
  <2>3. \A k \in 1 .. (n + 1) + 1 :
          h[k] = IF k = 1 THEN w ELSE ExecuteAll(h[k - 1], q[k - 1].cmds)
    <3> TAKE k \in 1 .. (n + 1) + 1
    <3>1. CASE k = n + 2
      <4>1. n \in Nat /\ k # 1 /\ k - 1 = n + 1 /\ n + 1 \in 1 .. n + 1
        BY <3>1
      <4>2. h[n + 1] = g[n + 1] /\ h[k] = ExecuteAll(g[n + 1], q[n + 1].cmds)
        BY <2>2, <3>1, <4>1
      <4> QED
        BY <4>1, <4>2
    <3>2. CASE k # n + 2
      <4>1. k \in 1 .. n + 1 /\ (k # 1 => k - 1 \in 1 .. n + 1)
        BY <3>2
      <4> HIDE DEF h
      <4> QED
        BY <2>2, <4>1
    <3> QED
      BY <3>1, <3>2
  <2>4. h = [k \in 1 .. (n + 1) + 1 |->
               IF k = 1 THEN w ELSE ExecuteAll(h[k - 1], q[k - 1].cmds)]
    BY <2>3
  <2>5. StepsBefore(w, q, n + 1, h)
    BY <2>4, Zenon DEF StepsBefore
  <2> QED
    BY <2>5
<1> HIDE DEF T
<1>3. T = Nat
  <2>1. T \in SUBSET Nat
    BY DEF T
  <2> QED
    BY <1>1, <1>2, <2>1, Induct
<1> QED
  BY <1>3 DEF T

LEMMA AheadDef ==
  ASSUME NEW w, NEW q, Len(q) \in Nat
  PROVE  /\ Ahead(w, q)[1] = w
         /\ \A n \in 1 .. Len(q) : Ahead(w, q)[n + 1] = ExecuteAll(Ahead(w, q)[n], q[n].cmds)
<1>1. \E g : StepsBefore(w, q, Len(q), g)
  BY AheadExists
<1>2. Ahead(w, q) = CHOOSE g : StepsBefore(w, q, Len(q), g)
  BY DEF Ahead, StepsBefore
<1>3. StepsBefore(w, q, Len(q), Ahead(w, q))
  BY <1>1, <1>2
<1> DEFINE g == Ahead(w, q)
<1>4. g = [k \in 1 .. Len(q) + 1 |-> IF k = 1 THEN w ELSE ExecuteAll(g[k - 1], q[k - 1].cmds)]
  BY <1>3 DEF StepsBefore
<1> HIDE DEF g
<1>5. \A k \in 1 .. Len(q) + 1 :
        g[k] = IF k = 1 THEN w ELSE ExecuteAll(g[k - 1], q[k - 1].cmds)
  BY <1>4
<1>6. g[1] = w
  BY <1>5
<1>7. ASSUME NEW n \in 1 .. Len(q) PROVE g[n + 1] = ExecuteAll(g[n], q[n].cmds)
  <2>1. n + 1 \in 1 .. Len(q) + 1 /\ n + 1 # 1 /\ n + 1 - 1 = n
    OBVIOUS
  <2> QED
    BY <1>5, <2>1
<1> QED
  BY <1>6, <1>7 DEF g

\* A batch that is submitted later does not change what comes before it.
LEMMA AheadAppend ==
  ASSUME NEW w, NEW q, IsSeq(q), NEW b
  PROVE  \A n \in 1 .. Len(q) + 1 : Ahead(w, Append(q, b))[n] = Ahead(w, q)[n]
<1> DEFINE r == Append(q, b)
<1>1. /\ Len(q) \in Nat
      /\ Len(r) = Len(q) + 1
      /\ \A n \in 1 .. Len(q) : r[n] = q[n]
  BY SeqAppend, SeqLen
<1> HIDE DEF r
<1>2. /\ Ahead(w, q)[1] = w
      /\ \A n \in 1 .. Len(q) : Ahead(w, q)[n + 1] = ExecuteAll(Ahead(w, q)[n], q[n].cmds)
  BY <1>1, AheadDef
<1>3. /\ Ahead(w, r)[1] = w
      /\ \A n \in 1 .. Len(r) : Ahead(w, r)[n + 1] = ExecuteAll(Ahead(w, r)[n], r[n].cmds)
  BY <1>1, AheadDef
<1> DEFINE T == {n \in Nat : n <= Len(q) => Ahead(w, r)[n + 1] = Ahead(w, q)[n + 1]}
<1>4. 0 \in T
  BY <1>2, <1>3
<1>5. ASSUME NEW n \in T PROVE n + 1 \in T
  <2>1. ASSUME n + 1 <= Len(q) PROVE Ahead(w, r)[(n + 1) + 1] = Ahead(w, q)[(n + 1) + 1]
    <3>1. n + 1 \in 1 .. Len(q) /\ n + 1 \in 1 .. Len(r)
      BY <1>1, <2>1
    <3>2. Ahead(w, r)[n + 1] = Ahead(w, q)[n + 1]
      BY <1>1, <2>1
    <3>3. /\ Ahead(w, r)[(n + 1) + 1] = ExecuteAll(Ahead(w, r)[n + 1], r[n + 1].cmds)
          /\ Ahead(w, q)[(n + 1) + 1] = ExecuteAll(Ahead(w, q)[n + 1], q[n + 1].cmds)
      BY <1>2, <1>3, <3>1
    <3>4. r[n + 1] = q[n + 1]
      BY <1>1, <3>1
    <3> QED
      BY <3>2, <3>3, <3>4
  <2> QED
    BY <2>1
<1> HIDE DEF T
<1>6. T = Nat
  <2>1. T \in SUBSET Nat
    BY DEF T
  <2> QED
    BY <1>4, <1>5, <2>1, Induct
<1>7. ASSUME NEW n \in 1 .. Len(q) + 1 PROVE Ahead(w, r)[n] = Ahead(w, q)[n]
  <2>1. n - 1 \in T /\ n - 1 <= Len(q) /\ (n - 1) + 1 = n
    BY <1>1, <1>6
  <2> QED
    BY <2>1 DEF T
<1> QED
  BY <1>7 DEF r

\* When the first batch is executed, the others find what they were to find.
LEMMA AheadTail ==
  ASSUME NEW w, NEW q, IsSeq(q), q # << >>
  PROVE  \A n \in 1 .. Len(q) :
           Ahead(ExecuteAll(w, Head(q).cmds), Tail(q))[n] = Ahead(w, q)[n + 1]
<1> DEFINE r == Tail(q)
           v == ExecuteAll(w, Head(q).cmds)
<1>1. /\ Len(q) \in Nat \ {0}
      /\ Len(r) = Len(q) - 1
      /\ \A n \in 1 .. Len(q) - 1 : r[n] = q[n + 1]
      /\ v = ExecuteAll(w, q[1].cmds)
  BY SeqTail
<1> HIDE DEF r, v
<1>2. /\ Ahead(w, q)[1] = w
      /\ \A n \in 1 .. Len(q) : Ahead(w, q)[n + 1] = ExecuteAll(Ahead(w, q)[n], q[n].cmds)
  BY <1>1, AheadDef
<1>3. /\ Ahead(v, r)[1] = v
      /\ \A n \in 1 .. Len(r) : Ahead(v, r)[n + 1] = ExecuteAll(Ahead(v, r)[n], r[n].cmds)
  <2>1. Len(r) \in Nat
    BY <1>1
  <2> QED
    BY <2>1, AheadDef
<1> DEFINE T == {n \in Nat : n + 1 <= Len(q) => Ahead(v, r)[n + 1] = Ahead(w, q)[(n + 1) + 1]}
<1>4. 0 \in T
  BY <1>1, <1>2, <1>3
<1>5. ASSUME NEW n \in T PROVE n + 1 \in T
  <2>1. ASSUME (n + 1) + 1 <= Len(q)
        PROVE  Ahead(v, r)[(n + 1) + 1] = Ahead(w, q)[((n + 1) + 1) + 1]
    <3>1. /\ (n + 1) + 1 \in 1 .. Len(q)
          /\ n + 1 \in 1 .. Len(r)
          /\ n + 1 \in 1 .. Len(q) - 1
      BY <1>1, <2>1
    <3>2. Ahead(v, r)[n + 1] = Ahead(w, q)[(n + 1) + 1]
      BY <1>1, <2>1
    <3>3. /\ Ahead(v, r)[(n + 1) + 1] = ExecuteAll(Ahead(v, r)[n + 1], r[n + 1].cmds)
          /\ Ahead(w, q)[((n + 1) + 1) + 1]
               = ExecuteAll(Ahead(w, q)[(n + 1) + 1], q[(n + 1) + 1].cmds)
      BY <1>2, <1>3, <3>1
    <3>4. r[n + 1] = q[(n + 1) + 1]
      BY <1>1, <3>1
    <3> QED
      BY <3>2, <3>3, <3>4
  <2> QED
    BY <2>1
<1> HIDE DEF T
<1>6. T = Nat
  <2>1. T \in SUBSET Nat
    BY DEF T
  <2> QED
    BY <1>4, <1>5, <2>1, Induct
<1>7. ASSUME NEW n \in 1 .. Len(q) PROVE Ahead(v, r)[n] = Ahead(w, q)[n + 1]
  <2>1. n - 1 \in T /\ (n - 1) + 1 = n /\ n <= Len(q)
    BY <1>1, <1>6
  <2> QED
    BY <2>1 DEF T
<1> QED
  BY <1>7 DEF r, v

-----------------------------------------------------------------------------
(***************************************************************************)
(* What each command does to the images, and when it finds what it is      *)
(* told.                                                                   *)
(***************************************************************************)

\* The images D, each with its layout and what is drawn on it.
IsWorld(w, D) == w = [i \in D |-> [layout |-> w[i].layout, drawn |-> w[i].drawn]]

LEMMA WorldDomain == ASSUME NEW w, NEW D, IsWorld(w, D) PROVE DOMAIN w = D
BY DEF IsWorld

\* The cases of Effect and of Images.
LEMMA EffectOther ==
  ASSUME NEW w, NEW m, m.op \notin {"barrier", "render", "dispatch"}
  PROVE  Effect(w, m) = w
BY Zenon DEF Effect

LEMMA ImagesCases ==
  ASSUME NEW m
  PROVE  /\ m.op = "barrier" => Images(m) = {m.image}
         /\ m.op = "render" => Images(m) = {m.infos[a].image : a \in DOMAIN m.infos}
         /\ m.op = "dispatch" => Images(m) = {m.read, m.write}
         /\ m.op = "present" => Images(m) = {m.image}
         /\ m.op \notin {"barrier", "render", "dispatch", "present"} => Images(m) = {}
BY Zenon DEF Images

LEMMA BarrierEffect ==
  ASSUME NEW w, NEW D, IsWorld(w, D), NEW i \in D, NEW from, NEW to,
         from \in {"undefined", w[i].layout}
  PROVE  LET m == [op |-> "barrier", image |-> i, from |-> from, to |-> to]
         IN /\ AsTold(w, m)
            /\ IsWorld(Effect(w, m), D)
            /\ Effect(w, m)[i].layout = to
            /\ from # "undefined" => Effect(w, m)[i].drawn = w[i].drawn
            /\ \A j \in D \ {i} : Effect(w, m)[j] = w[j]
<1> DEFINE m == [op |-> "barrier", image |-> i, from |-> from, to |-> to]
           new == [layout |-> to, drawn |-> IF from = "undefined" THEN {} ELSE w[i].drawn]
           v == Effect(w, m)
<1>1. DOMAIN w = D
  BY WorldDomain
<1>2. m.op = "barrier" /\ m.image = i /\ m.from = from /\ m.to = to
  OBVIOUS
<1> HIDE DEF m
<1>3. v = [w EXCEPT ![i] = new]
  <2>1. v = [w EXCEPT ![m.image] =
               [layout |-> m.to, drawn |-> IF m.from = "undefined" THEN {} ELSE @.drawn]]
    BY <1>2, Zenon DEF Effect
  <2> QED
    BY <1>2, <2>1
<1>4. FindsLayouts(w, m) /\ NamesImages(w, m) /\ DrawnAsRecorded(w, m) /\ Fits(w, m)
  <2>1. Images(m) = {i}
    BY <1>2, ImagesCases
  <2> QED
    BY <1>1, <1>2, <2>1 DEF FindsLayouts, NamesImages, DrawnAsRecorded, Fits
<1>5. v[i] = new /\ \A j \in D \ {i} : v[j] = w[j]
  BY <1>1, <1>3
<1>6. IsWorld(v, D)
  BY <1>3 DEF IsWorld
<1> QED
  BY <1>4, <1>5, <1>6 DEF m, AsTold

Uses(infos, j) == {a \in DOMAIN infos : infos[a].image = j}

Kept(w, infos, j) ==
  IF \A a \in Uses(infos, j) : infos[a].loadOp = "load" THEN w[j].drawn ELSE {}

\* A rendering leaves every layout as it is.
LEMMA RenderEffect ==
  ASSUME NEW w, NEW D, IsWorld(w, D), NEW infos, NEW draw,
         \A a \in DOMAIN infos : infos[a].image \in D /\ infos[a].layout = w[infos[a].image].layout
  PROVE  LET m == [op |-> "render", infos |-> infos, draw |-> draw]
         IN /\ AsTold(w, m)
            /\ IsWorld(Effect(w, m), D)
            /\ \A j \in D : Effect(w, m)[j].layout = w[j].layout
            /\ \A j \in D : (\A a \in DOMAIN infos : infos[a].image # j) => Effect(w, m)[j] = w[j]
            /\ \A a \in DOMAIN infos : draw \in Effect(w, m)[infos[a].image].drawn
            /\ \A j \in D : (\A a \in DOMAIN infos : infos[a].image = j => infos[a].loadOp = "load")
                            => w[j].drawn \subseteq Effect(w, m)[j].drawn
<1> DEFINE m == [op |-> "render", infos |-> infos, draw |-> draw]
           v == Effect(w, m)
<1>1. DOMAIN w = D
  BY WorldDomain
<1>2. \A j \in D : w[j] = [layout |-> w[j].layout, drawn |-> w[j].drawn]
  BY DEF IsWorld
<1>3. m.op = "render" /\ m.infos = infos /\ m.draw = draw
  OBVIOUS
<1> HIDE DEF m
<1>4. v = [j \in D |-> IF Uses(infos, j) = {} THEN w[j]
                       ELSE [layout |-> w[j].layout, drawn |-> {draw} \cup Kept(w, infos, j)]]
  <2>1. v = [j \in DOMAIN w |->
               LET used == {a \in DOMAIN m.infos : m.infos[a].image = j}
                   kept == IF \A a \in used : m.infos[a].loadOp = "load"
                           THEN w[j].drawn ELSE {}
               IN IF used = {} THEN w[j]
                  ELSE [layout |-> w[j].layout, drawn |-> {m.draw} \cup kept]]
    BY <1>3, Zenon DEF Effect
  <2> QED
    BY <1>1, <1>3, <2>1 DEF Uses, Kept
<1>5. FindsLayouts(w, m) /\ NamesImages(w, m) /\ DrawnAsRecorded(w, m) /\ Fits(w, m)
  <2>1. Images(m) = {infos[a].image : a \in DOMAIN infos}
    BY <1>3, ImagesCases
  <2> QED
    BY <1>1, <1>3, <2>1 DEF FindsLayouts, NamesImages, DrawnAsRecorded, Fits
<1> HIDE DEF v
<1>6. ASSUME NEW j \in D, Uses(infos, j) = {} PROVE v[j] = w[j]
  BY <1>4, <1>6
<1>7. ASSUME NEW j \in D, Uses(infos, j) # {}
      PROVE  /\ v[j] = [layout |-> v[j].layout, drawn |-> v[j].drawn]
             /\ v[j].layout = w[j].layout
             /\ v[j].drawn = {draw} \cup Kept(w, infos, j)
  <2>1. v[j] = [layout |-> w[j].layout, drawn |-> {draw} \cup Kept(w, infos, j)]
    BY <1>4, <1>7
  <2> QED
    BY <2>1
<1>8. ASSUME NEW j \in D
      PROVE  /\ v[j] = [layout |-> v[j].layout, drawn |-> v[j].drawn]
             /\ v[j].layout = w[j].layout
  <2>1. CASE Uses(infos, j) = {}
    BY <1>2, <1>6, <2>1
  <2>2. CASE Uses(infos, j) # {}
    BY <1>7, <2>2, Zenon
  <2> QED
    BY <2>1, <2>2
<1>9. IsWorld(v, D)
  <2>1. DOMAIN v = D /\ v = [j \in DOMAIN v |-> v[j]]
    BY <1>4
  <2> QED
    BY <1>8, <2>1 DEF IsWorld
<1>10. ASSUME NEW a \in DOMAIN infos PROVE draw \in v[infos[a].image].drawn
  <2>1. Uses(infos, infos[a].image) # {} /\ infos[a].image \in D
    BY DEF Uses
  <2>2. v[infos[a].image].drawn = {draw} \cup Kept(w, infos, infos[a].image)
    BY <1>7, <2>1, Zenon
  <2> QED
    BY <2>2
<1>11. ASSUME NEW j \in D, \A a \in DOMAIN infos : infos[a].image = j => infos[a].loadOp = "load"
      PROVE  w[j].drawn \subseteq v[j].drawn
  <2>1. Kept(w, infos, j) = w[j].drawn
    BY <1>11 DEF Kept, Uses
  <2>2. CASE Uses(infos, j) = {}
    BY <1>6, <2>2
  <2>3. CASE Uses(infos, j) # {}
    <3>1. v[j].drawn = {draw} \cup w[j].drawn
      BY <1>7, <2>1, <2>3, Zenon
    <3> QED
      BY <3>1
  <2> QED
    BY <2>2, <2>3
<1>12. \A j \in D : (\A a \in DOMAIN infos : infos[a].image # j) => v[j] = w[j]
  BY <1>6 DEF Uses
<1> QED
  BY <1>5, <1>8, <1>9, <1>10, <1>11, <1>12 DEF m, v, AsTold

LEMMA DispatchEffect ==
  ASSUME NEW w, NEW D, IsWorld(w, D), NEW read \in D, NEW write \in D,
         NEW draw, NEW source, source \in w[read].drawn
  PROVE  LET m == [op |-> "dispatch", draw |-> draw, source |-> source,
                   read |-> read, readLayout |-> w[read].layout,
                   write |-> write, writeLayout |-> w[write].layout]
         IN /\ AsTold(w, m)
            /\ IsWorld(Effect(w, m), D)
            /\ \A j \in D : Effect(w, m)[j].layout = w[j].layout
            /\ draw \in Effect(w, m)[write].drawn
<1> DEFINE m == [op |-> "dispatch", draw |-> draw, source |-> source,
                 read |-> read, readLayout |-> w[read].layout,
                 write |-> write, writeLayout |-> w[write].layout]
           v == Effect(w, m)
           new == [layout |-> w[write].layout, drawn |-> w[write].drawn \cup {draw}]
<1>1. DOMAIN w = D
  BY WorldDomain
<1>2. /\ m.op = "dispatch" /\ m.draw = draw /\ m.source = source
      /\ m.read = read /\ m.readLayout = w[read].layout
      /\ m.write = write /\ m.writeLayout = w[write].layout
  OBVIOUS
<1> HIDE DEF m
<1>3. v = [w EXCEPT ![write] = new]
  <2>1. v = [w EXCEPT ![m.write] = [layout |-> @.layout, drawn |-> @.drawn \cup {m.draw}]]
    BY <1>2, Zenon DEF Effect
  <2> QED
    BY <1>2, <2>1
<1>4. FindsLayouts(w, m) /\ NamesImages(w, m) /\ DrawnAsRecorded(w, m) /\ Fits(w, m)
  <2>1. Images(m) = {read, write}
    BY <1>2, ImagesCases
  <2> QED
    BY <1>1, <1>2, <2>1 DEF FindsLayouts, NamesImages, DrawnAsRecorded, Fits
<1> HIDE DEF v
<1>5. IsWorld(v, D)
  BY <1>3 DEF IsWorld
<1>6. v[write] = new /\ \A j \in D \ {write} : v[j] = w[j]
  BY <1>1, <1>3
<1> QED
  BY <1>4, <1>5, <1>6 DEF m, v, AsTold

LEMMA BindEffect ==
  ASSUME NEW w, NEW point, NEW for, NEW made, NEW alike, made.target = for.target,
         alike => made.vertexInput = for.vertexInput
  PROVE  LET m == Bind(point, for, made, alike) IN AsTold(w, m) /\ Effect(w, m) = w
BY EffectOther, ImagesCases DEF AsTold, FindsLayouts, NamesImages, DrawnAsRecorded, Fits, Bind

LEMMA PresentEffect ==
  ASSUME NEW w, NEW i \in DOMAIN w, NEW id, w[i].layout = "present",
         {<< "compute", id >>, << "imgui", id >>} \subseteq w[i].drawn
  PROVE  LET m == [op |-> "present", image |-> i, id |-> id]
         IN AsTold(w, m) /\ Effect(w, m) = w
<1> DEFINE m == [op |-> "present", image |-> i, id |-> id]
<1>1. m.op = "present" /\ m.image = i /\ m.id = id
  OBVIOUS
<1> HIDE DEF m
<1>2. Effect(w, m) = w /\ Images(m) = {i}
  BY <1>1, EffectOther, ImagesCases
<1>3. FindsLayouts(w, m) /\ NamesImages(w, m) /\ DrawnAsRecorded(w, m) /\ Fits(w, m)
  BY <1>1, <1>2 DEF FindsLayouts, NamesImages, DrawnAsRecorded, Fits
<1> QED
  BY <1>2, <1>3 DEF m, AsTold

-----------------------------------------------------------------------------
(***************************************************************************)
(* Passes.  w is what the device makes of all that is queued before the    *)
(* command buffer of the pass, D the images there are.                     *)
(***************************************************************************)

Target(im, layout, loadOp, reference, view, infos) ==
  [images |-> im, layout |-> layout, loadOp |-> loadOp, reference |-> reference,
   view |-> view, infos |-> infos]

\* A target with an image of its own for each attachment.
IsTarget(t, im) ==
  /\ t = Target(im, t.layout, t.loadOp, t.reference, t.view, t.infos)
  /\ t.layout \in [DOMAIN im -> Layouts]
  /\ t.loadOp \in [DOMAIN im -> LoadOps]

\* What the pass leaves behind when its commands are executed.
After(w, pass) == ExecuteAll(w, pass.cmds)

\* The target remembers the layouts its images then have, and every command
\* of the pass finds what it is told.
Sound(w, D, pass, im) ==
  /\ pass = Record(pass.target, pass.cmds)
  /\ IsTarget(pass.target, im)
  /\ IsSeq(pass.cmds)
  /\ AllAsTold(w, pass.cmds)
  /\ IsWorld(After(w, pass), D)
  /\ \A a \in DOMAIN im :
       im[a] \in D /\ After(w, pass)[im[a]].layout = pass.target.layout[a]

\* The images of a target, each attachment with one of its own.
Own(im) ==
  /\ DOMAIN im \subseteq {Color, Depth}
  /\ \A a, b \in DOMAIN im : a # b => im[a] # im[b]

LEMMA RecordFields == ASSUME NEW t, NEW c PROVE Record(t, c).target = t /\ Record(t, c).cmds = c
BY DEF Record

LEMMA TargetFields ==
  ASSUME NEW im, NEW l, NEW o, NEW r, NEW v, NEW f
  PROVE  LET t == Target(im, l, o, r, v, f)
         IN /\ t.images = im /\ t.layout = l /\ t.loadOp = o
            /\ t.reference = r /\ t.view = v /\ t.infos = f
BY DEF Target

LEMMA SetLoadOpSound ==
  ASSUME NEW w, NEW D, NEW pass, NEW im, Sound(w, D, pass, im),
         NEW a \in DOMAIN im, NEW op \in LoadOps
  PROVE  /\ Sound(w, D, SetLoadOp(pass, a, op), im)
         /\ SetLoadOp(pass, a, op).cmds = pass.cmds
         /\ SetLoadOp(pass, a, op).target.layout = pass.target.layout
         /\ SetLoadOp(pass, a, op).target.loadOp[a] = op
<1> DEFINE t == pass.target
           o == [t.loadOp EXCEPT ![a] = op]
           u == Target(im, t.layout, o, t.reference, t.view, t.infos)
<1>1. pass = Record(t, pass.cmds) /\ t = Target(im, t.layout, t.loadOp, t.reference, t.view, t.infos)
  BY DEF Sound, IsTarget
<1>2. SetLoadOp(pass, a, op) = Record(u, pass.cmds)
  <2>1. ASSUME NEW c, NEW l, NEW oo, NEW r, NEW v, NEW f
        PROVE  SetLoadOp(Record(Target(im, l, oo, r, v, f), c), a, op)
                 = Record(Target(im, l, [oo EXCEPT ![a] = op], r, v, f), c)
    BY DEF SetLoadOp, Record, Target
  <2> HIDE DEF t
  <2>2. SetLoadOp(Record(Target(im, t.layout, t.loadOp, t.reference, t.view, t.infos), pass.cmds), a, op)
          = Record(Target(im, t.layout, [t.loadOp EXCEPT ![a] = op], t.reference, t.view, t.infos), pass.cmds)
    BY <2>1
  <2> QED
    BY <1>1, <2>2
<1>3. t.layout \in [DOMAIN im -> Layouts] /\ t.loadOp \in [DOMAIN im -> LoadOps]
  BY DEF Sound, IsTarget
<1>4. o \in [DOMAIN im -> LoadOps] /\ o[a] = op
  BY <1>3
<1> HIDE DEF o, t
<1>5. u.layout = t.layout /\ u.loadOp = o /\ IsTarget(u, im)
  BY <1>3, <1>4, TargetFields DEF IsTarget
<1> HIDE DEF u
<1>6. Sound(w, D, Record(u, pass.cmds), im)
  BY <1>5, RecordFields DEF Sound, After, t
<1> QED
  BY <1>2, <1>4, <1>5, <1>6, RecordFields DEF t

\* What Begin is to hand the device.
Infos(im, layout, loadOp, view) ==
  [a \in DOMAIN im |-> [image |-> im[a], view |-> view[a],
                        layout |-> layout[a], loadOp |-> loadOp[a]]]

LEMMA UpdateIs ==
  ASSUME NEW im, NEW l, NEW o, NEW r, NEW v, NEW f
  PROVE  \E rr, vv :
           InternalUpdateAttachments(Target(im, l, o, r, v, f))
             = Target(im, l, o, rr, vv, Infos(im, l, o, vv))
<1> DEFINE t == Target(im, l, o, r, v, f)
           renewed == {a \in DOMAIN im : Aspects(a) # r[a]}
           vv == [a \in DOMAIN im |-> IF a \in renewed THEN v[a] + 1 ELSE v[a]]
           rr == [a \in DOMAIN im |-> IF a \in renewed THEN ViewAspects(Aspects(a)) ELSE r[a]]
<1>1. /\ t.images = im /\ t.layout = l /\ t.loadOp = o
      /\ t.reference = r /\ t.view = v /\ t.infos = f
  BY TargetFields
<1> HIDE DEF t
<1>2. InternalUpdateAttachments(t) = Target(im, l, o, rr, vv, Infos(im, l, o, vv))
  BY <1>1 DEF InternalUpdateAttachments, Target, Infos
<1> QED
  BY <1>2 DEF t

\* Begin will hand the device what the target remembers.
Told(pass, im) ==
  /\ DOMAIN pass.target.infos = DOMAIN im
  /\ \A a \in DOMAIN im : /\ pass.target.infos[a].image = im[a]
                          /\ pass.target.infos[a].layout = pass.target.layout[a]
                          /\ pass.target.infos[a].loadOp = pass.target.loadOp[a]

LEMMA SetRenderTargetSound ==
  ASSUME NEW w, NEW D, NEW pass, NEW im, Sound(w, D, pass, im)
  PROVE  LET q == SetRenderTarget(pass)
         IN /\ Sound(w, D, q, im)
            /\ q.cmds = pass.cmds
            /\ q.target.layout = pass.target.layout
            /\ q.target.loadOp = pass.target.loadOp
            /\ Told(q, im)
<1> DEFINE t == pass.target
<1>1. pass = Record(t, pass.cmds) /\ t = Target(im, t.layout, t.loadOp, t.reference, t.view, t.infos)
  BY DEF Sound, IsTarget
<1>2. t.layout \in [DOMAIN im -> Layouts] /\ t.loadOp \in [DOMAIN im -> LoadOps]
  BY DEF Sound, IsTarget
<1> HIDE DEF t
<1>3. PICK rr, vv :
        InternalUpdateAttachments(t)
          = Target(im, t.layout, t.loadOp, rr, vv, Infos(im, t.layout, t.loadOp, vv))
  BY <1>1, UpdateIs
<1> DEFINE f == Infos(im, t.layout, t.loadOp, vv)
           u == Target(im, t.layout, t.loadOp, rr, vv, f)
<1>4. SetRenderTarget(pass) = Record(u, pass.cmds)
  <2>1. ASSUME NEW c, NEW s
        PROVE  SetRenderTarget(Record(s, c)) = Record(InternalUpdateAttachments(s), c)
    BY DEF SetRenderTarget, Record
  <2> HIDE DEF u
  <2>2. SetRenderTarget(Record(t, pass.cmds)) = Record(InternalUpdateAttachments(t), pass.cmds)
    BY <2>1
  <2>3. InternalUpdateAttachments(t) = u
    BY <1>3 DEF u
  <2> QED
    BY <1>1, <2>2, <2>3, Zenon
<1>5. DOMAIN f = DOMAIN im /\ \A a \in DOMAIN im : /\ f[a].image = im[a]
                                                   /\ f[a].layout = t.layout[a]
                                                   /\ f[a].loadOp = t.loadOp[a]
  BY DEF Infos
<1> HIDE DEF f
<1>6. u.layout = t.layout /\ u.loadOp = t.loadOp /\ u.infos = f /\ IsTarget(u, im)
  BY <1>2, TargetFields DEF IsTarget
<1> HIDE DEF u
<1>7. Sound(w, D, Record(u, pass.cmds), im)
  BY <1>6, RecordFields DEF Sound, After, t
<1> QED
  BY <1>4, <1>5, <1>6, <1>7, RecordFields DEF Told, t

Relaid(t, a, layout) == [t EXCEPT !.layout[a] = layout]

LEMMA RelaidIs ==
  ASSUME NEW im, NEW l, NEW o, NEW r, NEW v, NEW f, NEW a, NEW to
  PROVE  Relaid(Target(im, l, o, r, v, f), a, to) = Target(im, [l EXCEPT ![a] = to], o, r, v, f)
BY DEF Relaid, Target

\* A transition records a barrier that finds the layout it was told.
LEMMA TransitionSound ==
  ASSUME NEW w, NEW D, NEW pass, NEW im, Sound(w, D, pass, im), Own(im),
         NEW a \in DOMAIN im, NEW to \in Layouts
  PROVE  LET q == Transition(pass, a, to)
         IN /\ Sound(w, D, q, im)
            /\ q.target.loadOp = pass.target.loadOp
            /\ q.target.layout = [pass.target.layout EXCEPT ![a] = to]
            /\ \A j \in D : j # im[a] => After(w, q)[j] = After(w, pass)[j]
            /\ pass.target.layout[a] # "undefined"
                 => After(w, q)[im[a]].drawn = After(w, pass)[im[a]].drawn
<1> DEFINE t == pass.target
           l == [t.layout EXCEPT ![a] = to]
           u == Target(im, l, t.loadOp, t.reference, t.view, t.infos)
           b == Barrier(t, a, to)
           c == Append(pass.cmds, b)
<1>1. pass = Record(t, pass.cmds) /\ t = Target(im, t.layout, t.loadOp, t.reference, t.view, t.infos)
  BY DEF Sound, IsTarget
<1>2. t.layout \in [DOMAIN im -> Layouts] /\ t.loadOp \in [DOMAIN im -> LoadOps] /\ t.images = im
  BY <1>1, TargetFields DEF Sound, IsTarget
<1>3. IsSeq(pass.cmds) /\ AllAsTold(w, pass.cmds) /\ IsWorld(ExecuteAll(w, pass.cmds), D)
  BY DEF Sound, After
<1>4. \A x \in DOMAIN im : im[x] \in D /\ ExecuteAll(w, pass.cmds)[im[x]].layout = t.layout[x]
  BY DEF Sound, After
<1> HIDE DEF t
<1>5. CASE t.layout[a] = to
  <2>1. Transition(pass, a, to) = pass
    BY <1>5 DEF Transition, t
  <2>2. t.layout = [t.layout EXCEPT ![a] = to]
    BY <1>2, <1>5
  <2> QED
    BY <2>1, <2>2, Zenon DEF t
<1>6. CASE t.layout[a] # to
  <2>1. Transition(pass, a, to) = Record([t EXCEPT !.layout[a] = to], c)
    BY <1>6 DEF Transition, t, Record
  <2>2. [t EXCEPT !.layout[a] = to] = u
    <3>1. Relaid(Target(im, t.layout, t.loadOp, t.reference, t.view, t.infos), a, to) = u
      BY RelaidIs
    <3> QED
      BY <1>1, <3>1, Zenon DEF Relaid
  <2>3. Transition(pass, a, to) = Record(u, c)
    BY <2>1, <2>2
  <2>4. b = [op |-> "barrier", image |-> im[a], from |-> t.layout[a], to |-> to]
    BY <1>2 DEF Barrier
  <2>5. /\ AsTold(ExecuteAll(w, pass.cmds), b)
        /\ IsWorld(Effect(ExecuteAll(w, pass.cmds), b), D)
        /\ Effect(ExecuteAll(w, pass.cmds), b)[im[a]].layout = to
        /\ t.layout[a] # "undefined"
             => Effect(ExecuteAll(w, pass.cmds), b)[im[a]].drawn
                  = ExecuteAll(w, pass.cmds)[im[a]].drawn
        /\ \A j \in D \ {im[a]} :
             Effect(ExecuteAll(w, pass.cmds), b)[j] = ExecuteAll(w, pass.cmds)[j]
    <3> DEFINE v == ExecuteAll(w, pass.cmds)
               i == im[a]
               from == t.layout[a]
    <3>1. IsWorld(v, D) /\ i \in D /\ from \in {"undefined", v[i].layout}
      BY <1>3, <1>4
    <3> HIDE DEF v, i, from, b
    <3>2. b = [op |-> "barrier", image |-> i, from |-> from, to |-> to]
      BY <2>4 DEF i, from
    <3>3. /\ AsTold(v, b)
          /\ IsWorld(Effect(v, b), D)
          /\ Effect(v, b)[i].layout = to
          /\ from # "undefined" => Effect(v, b)[i].drawn = v[i].drawn
          /\ \A j \in D \ {i} : Effect(v, b)[j] = v[j]
      BY <3>1, <3>2, BarrierEffect
    <3> QED
      BY <3>3 DEF v, i, from
  <2> HIDE DEF b, l
  <2>6. IsSeq(c) /\ AllAsTold(w, c) /\ ExecuteAll(w, c) = Effect(ExecuteAll(w, pass.cmds), b)
    BY <1>3, <2>5, SeqAppend, AppendAsTold, ExecuteAppend
  <2> HIDE DEF c
  <2>7. u.layout = l /\ u.loadOp = t.loadOp /\ l \in [DOMAIN im -> Layouts]
    BY <1>2, TargetFields DEF l
  <2>8. IsTarget(u, im)
    BY <1>2, <2>7, TargetFields DEF IsTarget
  <2>9. \A x \in DOMAIN im : im[x] \in D /\ ExecuteAll(w, c)[im[x]].layout = l[x]
    <3> TAKE x \in DOMAIN im
    <3>1. CASE x = a
      BY <1>2, <1>4, <2>5, <2>6, <3>1 DEF l
    <3>2. CASE x # a
      <4>1. im[x] # im[a] /\ l[x] = t.layout[x]
        BY <1>2, <3>2 DEF Own, l
      <4> QED
        BY <1>4, <2>5, <2>6, <4>1
    <3> QED
      BY <3>1, <3>2
  <2> HIDE DEF u
  <2>10. Sound(w, D, Record(u, c), im)
    BY <2>5, <2>6, <2>7, <2>8, <2>9, RecordFields DEF Sound, After
  <2> QED
    BY <2>3, <2>5, <2>6, <2>7, <2>10, RecordFields DEF After, t, l
<1> QED
  BY <1>5, <1>6

\* Nothing happens to the images that are not those of the pass.
Elsewhere(w, D, from, to, im) ==
  \A j \in D : (\A a \in DOMAIN im : im[a] # j) => After(w, to)[j] = After(w, from)[j]

LEMMA ElsewhereTwice ==
  ASSUME NEW w, NEW D, NEW p, NEW q, NEW r, NEW im,
         Elsewhere(w, D, p, q, im), Elsewhere(w, D, q, r, im)
  PROVE  Elsewhere(w, D, p, r, im)
BY DEF Elsewhere

LEMMA SetTransitionSound ==
  ASSUME NEW w, NEW D, NEW pass, NEW im, Sound(w, D, pass, im), Own(im),
         NEW a \in DOMAIN im, NEW to \in Layouts
  PROVE  LET q == SetTransition(pass, a, to)
         IN /\ Sound(w, D, q, im)
            /\ q.target.loadOp = pass.target.loadOp
            /\ q.target.layout = [pass.target.layout EXCEPT ![a] = to]
            /\ Elsewhere(w, D, pass, q, im)
            /\ \A j \in D : j # im[a] => After(w, q)[j] = After(w, pass)[j]
            /\ pass.target.layout[a] # "undefined"
                 => After(w, q)[im[a]].drawn = After(w, pass)[im[a]].drawn
<1> DEFINE p == Transition(pass, a, to)
           q == SetRenderTarget(p)
<1>1. SetTransition(pass, a, to) = q
  BY DEF SetTransition, SetRenderTarget
<1>2. /\ Sound(w, D, p, im)
      /\ p.target.loadOp = pass.target.loadOp
      /\ p.target.layout = [pass.target.layout EXCEPT ![a] = to]
      /\ \A j \in D : j # im[a] => After(w, p)[j] = After(w, pass)[j]
      /\ pass.target.layout[a] # "undefined"
           => After(w, p)[im[a]].drawn = After(w, pass)[im[a]].drawn
  BY TransitionSound
<1> HIDE DEF p
<1>3. /\ Sound(w, D, q, im)
      /\ q.cmds = p.cmds
      /\ q.target.layout = p.target.layout
      /\ q.target.loadOp = p.target.loadOp
  <2>1. Sound(w, D, p, im)
    BY <1>2
  <2> QED
    BY <2>1, SetRenderTargetSound
<1> HIDE DEF q
<1>4. After(w, q) = After(w, p)
  BY <1>3 DEF After
<1>5. Elsewhere(w, D, pass, q, im)
  BY <1>2, <1>4 DEF Elsewhere
<1> QED
  BY <1>1, <1>2, <1>3, <1>4, <1>5

\* The layouts are those that End takes them to have.
InFinal(pass, im) == \A a \in DOMAIN im : pass.target.layout[a] = FinalLayout(a)

Loads(pass, im) == \A a \in DOMAIN im : pass.target.loadOp[a] = "load"

DrawnOn(w, pass, im, draw) == \A a \in DOMAIN im : draw \in After(w, pass)[im[a]].drawn

DrawnOver(w, from, to, im) ==
  \A a \in DOMAIN im : After(w, from)[im[a]].drawn \subseteq After(w, to)[im[a]].drawn

\* A rendering with what Begin was to be handed, in the final layouts.
LEMMA BeginEndSound ==
  ASSUME NEW w, NEW D, NEW pass, NEW im, Sound(w, D, pass, im), NEW draw,
         Told(pass, im), InFinal(pass, im)
  PROVE  LET q == BeginEnd(pass, draw)
         IN /\ Sound(w, D, q, im)
            /\ q.target.loadOp = pass.target.loadOp
            /\ q.target.layout = pass.target.layout
            /\ Elsewhere(w, D, pass, q, im)
            /\ DrawnOn(w, q, im, draw)
            /\ Loads(pass, im) => DrawnOver(w, pass, q, im)
<1> DEFINE t == pass.target
           b == [op |-> "render", infos |-> t.infos, draw |-> draw]
           c == Append(pass.cmds, b)
           v == ExecuteAll(w, pass.cmds)
<1>1. t = Target(im, t.layout, t.loadOp, t.reference, t.view, t.infos)
  BY DEF Sound, IsTarget
<1>2. t.layout \in [DOMAIN im -> Layouts] /\ t.loadOp \in [DOMAIN im -> LoadOps]
  BY DEF Sound, IsTarget
<1>3. IsSeq(pass.cmds) /\ AllAsTold(w, pass.cmds) /\ IsWorld(v, D)
  BY DEF Sound, After
<1>4. \A a \in DOMAIN im : im[a] \in D /\ v[im[a]].layout = t.layout[a]
  BY DEF Sound, After
<1>5. BeginEnd(pass, draw) = Record(t, c)
  <2>1. [a \in DOMAIN t.layout |-> FinalLayout(a)] = t.layout
    BY <1>2 DEF InFinal
  <2>2. [t EXCEPT !.layout = [a \in DOMAIN @ |-> FinalLayout(a)]]
          = [t EXCEPT !.layout = t.layout]
    BY <2>1
  <2> HIDE DEF t
  <2>3. [t EXCEPT !.layout = t.layout] = t
    BY <1>1 DEF Target
  <2> QED
    BY <2>2, <2>3 DEF BeginEnd, Record, t
<1> HIDE DEF v
<1>6. \A a \in DOMAIN t.infos :
        t.infos[a].image \in D /\ t.infos[a].layout = v[t.infos[a].image].layout
  BY <1>4 DEF Told
<1>7. /\ AsTold(v, b)
      /\ IsWorld(Effect(v, b), D)
      /\ \A j \in D : Effect(v, b)[j].layout = v[j].layout
      /\ \A j \in D : (\A a \in DOMAIN t.infos : t.infos[a].image # j) => Effect(v, b)[j] = v[j]
      /\ \A a \in DOMAIN t.infos : draw \in Effect(v, b)[t.infos[a].image].drawn
      /\ \A j \in D : (\A a \in DOMAIN t.infos : t.infos[a].image = j => t.infos[a].loadOp = "load")
                      => v[j].drawn \subseteq Effect(v, b)[j].drawn
  BY <1>3, <1>6, RenderEffect
<1> HIDE DEF b
<1>8. IsSeq(c) /\ AllAsTold(w, c) /\ ExecuteAll(w, c) = Effect(v, b)
  BY <1>3, <1>7, SeqAppend, AppendAsTold, ExecuteAppend DEF v
<1> HIDE DEF c
<1>9. Sound(w, D, Record(t, c), im)
  BY <1>4, <1>7, <1>8, RecordFields DEF Sound, After
<1>10. After(w, Record(t, c)) = Effect(v, b) /\ After(w, pass) = v
  BY <1>8, RecordFields DEF After, v
<1>11. Elsewhere(w, D, pass, Record(t, c), im)
  BY <1>7, <1>10 DEF Elsewhere, Told
<1>12. \A a \in DOMAIN im : draw \in Effect(v, b)[im[a]].drawn
  BY <1>7 DEF Told
<1>13. ASSUME Loads(pass, im), NEW a \in DOMAIN im
       PROVE  v[im[a]].drawn \subseteq Effect(v, b)[im[a]].drawn
  BY <1>4, <1>7, <1>13 DEF Told, Loads
<1>14. /\ DrawnOn(w, Record(t, c), im, draw)
       /\ Loads(pass, im) => DrawnOver(w, pass, Record(t, c), im)
  BY <1>10, <1>12, <1>13 DEF DrawnOn, DrawnOver
<1> HIDE DEF t
<1> QED
  BY <1>5, <1>9, <1>11, <1>14, RecordFields DEF t

-----------------------------------------------------------------------------
(***************************************************************************)
(* The passes of ConstructWindowDependentObjects and Draw.                 *)
(***************************************************************************)

LEMMA FrameToGeneralSound ==
  ASSUME NEW w, NEW D, NEW pass, NEW im, Sound(w, D, pass, im), Own(im), DOMAIN im = {Color}
  PROVE  LET q == FrameToGeneral(pass)
         IN /\ Sound(w, D, q, im)
            /\ q.target.layout[Color] = "general"
            /\ Elsewhere(w, D, pass, q, im)
<1> DEFINE p == SetLoadOp(pass, Color, "clear")
           q == Transition(p, Color, "general")
<1>1. Color \in DOMAIN im /\ "clear" \in LoadOps /\ "general" \in Layouts
  BY DEF LoadOps, Layouts
<1>2. Sound(w, D, p, im) /\ p.cmds = pass.cmds
  BY <1>1, SetLoadOpSound
<1>3. After(w, p) = After(w, pass)
  BY <1>2 DEF After
<1> HIDE DEF p
<1>4. p.target.layout \in [DOMAIN im -> Layouts]
  BY <1>2 DEF Sound, IsTarget
<1>5. /\ Sound(w, D, q, im)
      /\ q.target.layout = [p.target.layout EXCEPT ![Color] = "general"]
      /\ \A j \in D : j # im[Color] => After(w, q)[j] = After(w, p)[j]
  BY <1>1, <1>2, TransitionSound
<1> HIDE DEF q
<1>6. q.target.layout[Color] = "general" /\ Elsewhere(w, D, pass, q, im)
  BY <1>1, <1>3, <1>4, <1>5 DEF Elsewhere
<1> QED
  BY <1>5, <1>6 DEF FrameToGeneral, FrameTransition, p, q

\* Two transitions of a set after the load operations are chosen.
LEMMA SetPassSound ==
  ASSUME NEW w, NEW D, NEW pass, NEW im, Sound(w, D, pass, im), Own(im),
         DOMAIN im = {Color, Depth}, NEW load \in LoadOps,
         NEW color \in Layouts, NEW depth \in Layouts
  PROVE  LET q == SetTransition(
                    SetTransition(SetLoadOp(SetLoadOp(pass, Color, load), Depth, "clear"),
                                  Color, color),
                    Depth, depth)
         IN /\ Sound(w, D, q, im)
            /\ q.target.layout[Color] = color
            /\ q.target.layout[Depth] = depth
            /\ Elsewhere(w, D, pass, q, im)
            /\ pass.target.layout[Color] # "undefined"
                 => After(w, q)[im[Color]].drawn = After(w, pass)[im[Color]].drawn
<1> DEFINE p1 == SetLoadOp(pass, Color, load)
           p2 == SetLoadOp(p1, Depth, "clear")
           p3 == SetTransition(p2, Color, color)
           p4 == SetTransition(p3, Depth, depth)
<1>1. /\ Color \in DOMAIN im /\ Depth \in DOMAIN im /\ Color # Depth /\ "clear" \in LoadOps
      /\ im[Color] # im[Depth]
  BY DEF LoadOps, Own, Color, Depth
<1>2. Sound(w, D, p1, im) /\ p1.cmds = pass.cmds /\ p1.target.layout = pass.target.layout
  <2>1. Color \in DOMAIN im
    BY <1>1
  <2> QED
    BY <2>1, SetLoadOpSound
<1> HIDE DEF p1
<1>3. Sound(w, D, p2, im) /\ p2.cmds = p1.cmds /\ p2.target.layout = p1.target.layout
  <2>1. Depth \in DOMAIN im /\ "clear" \in LoadOps
    BY <1>1
  <2>2. Sound(w, D, p1, im)
    BY <1>2
  <2> QED
    BY <2>1, <2>2, SetLoadOpSound
<1> HIDE DEF p2
<1>4. After(w, p2) = After(w, pass) /\ p2.target.layout = pass.target.layout
  BY <1>2, <1>3 DEF After
<1>5. p2.target.layout \in [DOMAIN im -> Layouts]
  BY <1>3 DEF Sound, IsTarget
<1>6. /\ Sound(w, D, p3, im)
      /\ p3.target.layout = [p2.target.layout EXCEPT ![Color] = color]
      /\ Elsewhere(w, D, p2, p3, im)
      /\ p2.target.layout[Color] # "undefined"
           => After(w, p3)[im[Color]].drawn = After(w, p2)[im[Color]].drawn
  BY <1>1, <1>3, SetTransitionSound
<1> HIDE DEF p3
<1>7. /\ Sound(w, D, p4, im)
      /\ p4.target.layout = [p3.target.layout EXCEPT ![Depth] = depth]
      /\ Elsewhere(w, D, p3, p4, im)
      /\ \A j \in D : j # im[Depth] => After(w, p4)[j] = After(w, p3)[j]
  <2>1. Sound(w, D, p3, im)
    BY <1>6
  <2> QED
    BY <1>1, <2>1, SetTransitionSound
<1> HIDE DEF p4
<1>8. p4.target.layout[Color] = color /\ p4.target.layout[Depth] = depth
  BY <1>1, <1>5, <1>6, <1>7
<1>9. After(w, p4)[im[Color]] = After(w, p3)[im[Color]]
  <2>1. im[Color] \in D
    BY <1>1 DEF Sound
  <2> QED
    BY <1>1, <1>7, <2>1
<1>10. Elsewhere(w, D, pass, p4, im)
  BY <1>4, <1>6, <1>7 DEF Elsewhere
<1> QED
  BY <1>4, <1>6, <1>7, <1>8, <1>9, <1>10 DEF p1, p2, p3, p4

LEMMA SetToGeneralSound ==
  ASSUME NEW w, NEW D, NEW pass, NEW im, Sound(w, D, pass, im), Own(im),
         DOMAIN im = {Color, Depth}
  PROVE  LET q == SetToGeneral(pass)
         IN Sound(w, D, q, im) /\ Elsewhere(w, D, pass, q, im)
<1>1. "clear" \in LoadOps /\ "general" \in Layouts
  BY DEF LoadOps, Layouts
<1> QED
  BY <1>1, SetPassSound DEF SetToGeneral

LEMMA SetToReadSound ==
  ASSUME NEW w, NEW D, NEW pass, NEW im, Sound(w, D, pass, im), Own(im),
         DOMAIN im = {Color, Depth}, pass.target.layout[Color] # "undefined"
  PROVE  LET q == SetToRead(pass)
         IN /\ Sound(w, D, q, im)
            /\ Elsewhere(w, D, pass, q, im)
            /\ After(w, q)[im[Color]].drawn = After(w, pass)[im[Color]].drawn
<1>1. "load" \in LoadOps /\ "read" \in Layouts
  BY DEF LoadOps, Layouts
<1> QED
  BY <1>1, SetPassSound DEF SetToRead

\* The main pass draws over what was there.
LEMMA MainPassSound ==
  ASSUME NEW w, NEW D, NEW pass, NEW im, Sound(w, D, pass, im), Own(im),
         DOMAIN im = {Color, Depth}, NEW id
  PROVE  LET q == MainPass(pass, id)
         IN /\ Sound(w, D, q, im)
            /\ q.target.layout[Color] = "color"
            /\ Elsewhere(w, D, pass, q, im)
            /\ << "main", id >> \in After(w, q)[im[Color]].drawn
<1> DEFINE attached == SetTransition(
                         SetTransition(SetLoadOp(SetLoadOp(pass, Color, "clear"), Depth, "clear"),
                                       Color, "color"),
                         Depth, "depth")
           given == SetRenderTarget(attached)
           q == BeginEnd(given, << "main", id >>)
<1>1. /\ "clear" \in LoadOps /\ "color" \in Layouts /\ "depth" \in Layouts
      /\ FinalLayout(Color) = "color" /\ FinalLayout(Depth) = "depth"
  BY DEF LoadOps, Layouts, FinalLayout, Color, Depth
<1>2. /\ Sound(w, D, attached, im)
      /\ attached.target.layout[Color] = "color"
      /\ attached.target.layout[Depth] = "depth"
      /\ Elsewhere(w, D, pass, attached, im)
  BY <1>1, SetPassSound
<1> HIDE DEF attached
<1>3. /\ Sound(w, D, given, im)
      /\ given.cmds = attached.cmds
      /\ given.target.layout = attached.target.layout
      /\ given.target.loadOp = attached.target.loadOp
      /\ Told(given, im)
  BY <1>2, SetRenderTargetSound
<1> HIDE DEF given
<1>4. InFinal(given, im)
  BY <1>1, <1>2, <1>3 DEF InFinal
<1>5. /\ Sound(w, D, q, im)
      /\ q.target.layout = given.target.layout
      /\ Elsewhere(w, D, given, q, im)
      /\ DrawnOn(w, q, im, << "main", id >>)
  BY <1>3, <1>4, BeginEndSound
<1> HIDE DEF q
<1>6. After(w, given) = After(w, attached)
  BY <1>3 DEF After
<1>7. Elsewhere(w, D, pass, q, im)
  BY <1>2, <1>5, <1>6 DEF Elsewhere
<1> QED
  BY <1>2, <1>3, <1>5, <1>7 DEF MainPass, DrawnOn, attached, given, q

\* The user interface is drawn over what the frame's image shows.
LEMMA ImguiPassSound ==
  ASSUME NEW w, NEW D, NEW pass, NEW im, Sound(w, D, pass, im), Own(im), DOMAIN im = {Color},
         pass.target.layout[Color] # "undefined", NEW id
  PROVE  LET q == ImguiPass(pass, id)
         IN /\ Sound(w, D, q, im)
            /\ q.target.layout[Color] = "present"
            /\ Elsewhere(w, D, pass, q, im)
            /\ After(w, pass)[im[Color]].drawn \cup {<< "imgui", id >>}
                 \subseteq After(w, q)[im[Color]].drawn
<1> DEFINE loads == SetLoadOp(pass, Color, "load")
           attached == Transition(loads, Color, "color")
           given == SetRenderTarget(attached)
           over == BeginEnd(given, << "imgui", id >>)
           q == Transition(over, Color, "present")
<1>1. /\ "load" \in LoadOps /\ "color" \in Layouts /\ "present" \in Layouts
      /\ FinalLayout(Color) = "color" /\ Color \in DOMAIN im
  BY DEF LoadOps, Layouts, FinalLayout, Color
<1>2. /\ Sound(w, D, loads, im)
      /\ loads.cmds = pass.cmds
      /\ loads.target.layout = pass.target.layout
      /\ loads.target.loadOp[Color] = "load"
  BY <1>1, SetLoadOpSound
<1> HIDE DEF loads
<1>3. loads.target.layout \in [DOMAIN im -> Layouts]
  BY <1>2 DEF Sound, IsTarget
<1>4. After(w, loads) = After(w, pass)
  BY <1>2 DEF After
<1>5. /\ Sound(w, D, attached, im)
      /\ attached.target.loadOp = loads.target.loadOp
      /\ attached.target.layout = [loads.target.layout EXCEPT ![Color] = "color"]
      /\ \A j \in D : j # im[Color] => After(w, attached)[j] = After(w, loads)[j]
      /\ loads.target.layout[Color] # "undefined"
           => After(w, attached)[im[Color]].drawn = After(w, loads)[im[Color]].drawn
  <2>1. Sound(w, D, loads, im)
    BY <1>2
  <2> QED
    BY <1>1, <2>1, TransitionSound
<1> HIDE DEF attached
<1>6. attached.target.layout[Color] = "color" /\ attached.target.loadOp[Color] = "load"
  BY <1>1, <1>2, <1>3, <1>5
<1>7. /\ Sound(w, D, given, im)
      /\ given.cmds = attached.cmds
      /\ given.target.layout = attached.target.layout
      /\ given.target.loadOp = attached.target.loadOp
      /\ Told(given, im)
  <2>1. Sound(w, D, attached, im)
    BY <1>5
  <2> QED
    BY <2>1, SetRenderTargetSound
<1> HIDE DEF given
<1>8. After(w, given) = After(w, attached)
  BY <1>7 DEF After
<1>9. InFinal(given, im) /\ Loads(given, im)
  BY <1>1, <1>6, <1>7 DEF InFinal, Loads
<1>10. /\ Sound(w, D, over, im)
       /\ over.target.layout = given.target.layout
       /\ Elsewhere(w, D, given, over, im)
       /\ DrawnOn(w, over, im, << "imgui", id >>)
       /\ Loads(given, im) => DrawnOver(w, given, over, im)
  BY <1>7, <1>9, BeginEndSound
<1> HIDE DEF over
<1>11. over.target.layout[Color] = "color" /\ over.target.layout \in [DOMAIN im -> Layouts]
  BY <1>6, <1>7, <1>10 DEF Sound, IsTarget
<1>12. /\ Sound(w, D, q, im)
       /\ q.target.layout = [over.target.layout EXCEPT ![Color] = "present"]
       /\ \A j \in D : j # im[Color] => After(w, q)[j] = After(w, over)[j]
       /\ over.target.layout[Color] # "undefined"
            => After(w, q)[im[Color]].drawn = After(w, over)[im[Color]].drawn
  <2>1. Sound(w, D, over, im)
    BY <1>10
  <2> QED
    BY <1>1, <2>1, TransitionSound
<1> HIDE DEF q
<1>13. After(w, q)[im[Color]].drawn = After(w, over)[im[Color]].drawn
  BY <1>11, <1>12
<1>14. After(w, attached)[im[Color]].drawn = After(w, pass)[im[Color]].drawn
  BY <1>2, <1>4, <1>5
<1>15. After(w, attached)[im[Color]].drawn \subseteq After(w, over)[im[Color]].drawn
  BY <1>1, <1>8, <1>9, <1>10 DEF DrawnOver
<1>16. << "imgui", id >> \in After(w, over)[im[Color]].drawn
  BY <1>1, <1>10 DEF DrawnOn
<1>17. Elsewhere(w, D, pass, q, im)
  BY <1>1, <1>4, <1>5, <1>8, <1>10, <1>12 DEF Elsewhere
<1>18. q.target.layout[Color] = "present"
  BY <1>1, <1>11, <1>12
<1> QED
  BY <1>12, <1>13, <1>14, <1>15, <1>16, <1>17, <1>18
     DEF ImguiPass, FrameTransition, loads, attached, given, over, q

-----------------------------------------------------------------------------
(***************************************************************************)
(* All the targets of the window.                                          *)
(***************************************************************************)

\* The images of the device when swapchain s and n sets are there.
ImagesOf(s, n) ==
  {<< "frame", i, s >> : i \in Frames}
    \cup {ColorImage(k) : k \in 0 .. n - 1} \cup {DepthImage(k) : k \in 0 .. n - 1}

FrameImages(i, s) == [color |-> << "frame", i, s >>]

SetImages(k) == [color |-> ColorImage(k), depth |-> DepthImage(k)]

LEMMA FrameImagesAre ==
  ASSUME NEW i, NEW s
  PROVE  /\ DOMAIN FrameImages(i, s) = {Color}
         /\ FrameImages(i, s)[Color] = << "frame", i, s >>
         /\ Own(FrameImages(i, s))
BY DEF FrameImages, Own, Color, Depth

LEMMA SetImagesAre ==
  ASSUME NEW k
  PROVE  /\ DOMAIN SetImages(k) = {Color, Depth}
         /\ SetImages(k)[Color] = ColorImage(k)
         /\ SetImages(k)[Depth] = DepthImage(k)
         /\ Own(SetImages(k))
<1>1. Color # Depth
  BY DEF Color, Depth
<1>2. /\ DOMAIN SetImages(k) = {Color, Depth}
      /\ SetImages(k)[Color] = ColorImage(k)
      /\ SetImages(k)[Depth] = DepthImage(k)
  BY <1>1 DEF SetImages, Color, Depth
<1>3. ColorImage(k) # DepthImage(k)
  BY DEF ColorImage, DepthImage
<1> QED
  BY <1>1, <1>2, <1>3 DEF Own

\* No two targets have an image in common.
LEMMA ImagesDiffer ==
  ASSUME NEW s, NEW i, NEW j, NEW k, NEW l
  PROVE  /\ i # j => << "frame", i, s >> # << "frame", j, s >>
         /\ k # l => ColorImage(k) # ColorImage(l) /\ DepthImage(k) # DepthImage(l)
         /\ ColorImage(k) # DepthImage(l)
         /\ << "frame", i, s >> # ColorImage(k)
         /\ << "frame", i, s >> # DepthImage(k)
BY DEF ColorImage, DepthImage

\* F has the images of t in the layouts t remembers.
Remembers(F, t, im) == IsTarget(t, im) /\ \A a \in DOMAIN im : F[im[a]].layout = t.layout[a]

Remembered(F, s, fr, se) ==
  /\ IsWorld(F, ImagesOf(s, Len(se)))
  /\ fr = [i \in Frames |-> fr[i]]
  /\ IsSeq(se)
  /\ \A i \in Frames : Remembers(F, fr[i], FrameImages(i, s))
  /\ \A k \in 1 .. Len(se) : Remembers(F, se[k], SetImages(k - 1))

\* A command buffer so far.
Recorded(w, c) == IsSeq(c) /\ AllAsTold(w, c)

LEMMA SoundStart ==
  ASSUME NEW w, NEW D, NEW c, NEW t, NEW im, Recorded(w, c), IsWorld(ExecuteAll(w, c), D),
         Remembers(ExecuteAll(w, c), t, im), \A a \in DOMAIN im : im[a] \in D
  PROVE  Sound(w, D, Record(t, c), im) /\ After(w, Record(t, c)) = ExecuteAll(w, c)
BY RecordFields DEF Sound, After, Recorded, Remembers

LEMMA SoundEnd ==
  ASSUME NEW w, NEW D, NEW pass, NEW im, Sound(w, D, pass, im)
  PROVE  /\ Recorded(w, pass.cmds)
         /\ IsWorld(ExecuteAll(w, pass.cmds), D)
         /\ Remembers(ExecuteAll(w, pass.cmds), pass.target, im)
BY DEF Sound, After, Recorded, Remembers

LEMMA FrameStart ==
  ASSUME NEW w, NEW c, NEW s, NEW fr, NEW se, Recorded(w, c),
         Remembered(ExecuteAll(w, c), s, fr, se), NEW i \in Frames
  PROVE  /\ Sound(w, ImagesOf(s, Len(se)), Record(fr[i], c), FrameImages(i, s))
         /\ After(w, Record(fr[i], c)) = ExecuteAll(w, c)
<1>1. \A a \in DOMAIN FrameImages(i, s) : FrameImages(i, s)[a] \in ImagesOf(s, Len(se))
  BY FrameImagesAre DEF ImagesOf
<1> QED
  BY <1>1, SoundStart DEF Remembered

LEMMA SetStart ==
  ASSUME NEW w, NEW c, NEW s, NEW fr, NEW se, Recorded(w, c),
         Remembered(ExecuteAll(w, c), s, fr, se), NEW k \in 1 .. Len(se)
  PROVE  /\ Sound(w, ImagesOf(s, Len(se)), Record(se[k], c), SetImages(k - 1))
         /\ After(w, Record(se[k], c)) = ExecuteAll(w, c)
<1>1. k - 1 \in 0 .. Len(se) - 1
  BY SeqLen DEF Remembered
<1>2. \A a \in DOMAIN SetImages(k - 1) : SetImages(k - 1)[a] \in ImagesOf(s, Len(se))
  BY <1>1, SetImagesAre DEF ImagesOf
<1> QED
  BY <1>2, SoundStart DEF Remembered

\* A pass on a frame leaves the other targets what they remember.
LEMMA FramePass ==
  ASSUME NEW w, NEW s, NEW fr, NEW se, NEW i \in Frames, NEW from, NEW pass,
         Remembered(After(w, from), s, fr, se),
         Sound(w, ImagesOf(s, Len(se)), pass, FrameImages(i, s)),
         Elsewhere(w, ImagesOf(s, Len(se)), from, pass, FrameImages(i, s))
  PROVE  Remembered(ExecuteAll(w, pass.cmds), s, [fr EXCEPT ![i] = pass.target], se)
<1> DEFINE D == ImagesOf(s, Len(se))
           F == ExecuteAll(w, pass.cmds)
           E == After(w, from)
           gr == [fr EXCEPT ![i] = pass.target]
<1>1. IsWorld(F, D) /\ Remembers(F, pass.target, FrameImages(i, s))
  BY SoundEnd
<1>2. ASSUME NEW j \in D, j # << "frame", i, s >> PROVE F[j] = E[j]
  <2>1. \A a \in DOMAIN FrameImages(i, s) : FrameImages(i, s)[a] # j
    BY <1>2, FrameImagesAre
  <2> HIDE DEF D
  <2> QED
    BY <2>1 DEF Elsewhere, After, D
<1>3. /\ fr = [j \in Frames |-> fr[j]]
      /\ IsSeq(se)
      /\ \A j \in Frames : Remembers(E, fr[j], FrameImages(j, s))
      /\ \A k \in 1 .. Len(se) : Remembers(E, se[k], SetImages(k - 1))
  BY DEF Remembered
<1> HIDE DEF F, E
<1>4. \A j \in Frames : gr[j] = IF j = i THEN pass.target ELSE fr[j]
  BY <1>3
<1>5. gr = [j \in Frames |-> gr[j]]
  BY <1>3
<1> HIDE DEF gr
<1>6. ASSUME NEW j \in Frames PROVE Remembers(F, gr[j], FrameImages(j, s))
  <2>1. CASE j = i
    BY <1>1, <1>4, <2>1
  <2>2. CASE j # i
    <3>1. << "frame", j, s >> \in D /\ << "frame", j, s >> # << "frame", i, s >>
      BY <2>2 DEF ImagesOf
    <3>2. F[<< "frame", j, s >>] = E[<< "frame", j, s >>]
      BY <1>2, <3>1
    <3>3. gr[j] = fr[j] /\ Remembers(E, fr[j], FrameImages(j, s))
      BY <1>3, <1>4, <2>2
    <3> QED
      BY <3>2, <3>3, FrameImagesAre DEF Remembers
  <2> QED
    BY <2>1, <2>2
<1>7. ASSUME NEW k \in 1 .. Len(se) PROVE Remembers(F, se[k], SetImages(k - 1))
  <2>1. k - 1 \in 0 .. Len(se) - 1
    BY <1>3, SeqLen
  <2>2. ColorImage(k - 1) \in D /\ DepthImage(k - 1) \in D
    BY <2>1 DEF ImagesOf
  <2>3. << "frame", i, s >> # ColorImage(k - 1) /\ << "frame", i, s >> # DepthImage(k - 1)
    BY ImagesDiffer
  <2>4. F[ColorImage(k - 1)] = E[ColorImage(k - 1)] /\ F[DepthImage(k - 1)] = E[DepthImage(k - 1)]
    BY <1>2, <2>2, <2>3
  <2>5. Remembers(E, se[k], SetImages(k - 1))
    BY <1>3
  <2> QED
    BY <2>4, <2>5, SetImagesAre DEF Remembers
<1> QED
  BY <1>1, <1>3, <1>5, <1>6, <1>7 DEF Remembered, F, gr

\* And so does a pass on a set.
LEMMA SetPass ==
  ASSUME NEW w, NEW s, NEW fr, NEW se, NEW k \in 1 .. Len(se), NEW from, NEW pass,
         Remembered(After(w, from), s, fr, se),
         Sound(w, ImagesOf(s, Len(se)), pass, SetImages(k - 1)),
         Elsewhere(w, ImagesOf(s, Len(se)), from, pass, SetImages(k - 1))
  PROVE  /\ Len([se EXCEPT ![k] = pass.target]) = Len(se)
         /\ Remembered(ExecuteAll(w, pass.cmds), s, fr, [se EXCEPT ![k] = pass.target])
<1> DEFINE D == ImagesOf(s, Len(se))
           F == ExecuteAll(w, pass.cmds)
           E == After(w, from)
           te == [se EXCEPT ![k] = pass.target]
<1>1. IsWorld(F, D) /\ Remembers(F, pass.target, SetImages(k - 1))
  BY SoundEnd
<1>2. ASSUME NEW j \in D, j # ColorImage(k - 1), j # DepthImage(k - 1) PROVE F[j] = E[j]
  <2>1. \A a \in DOMAIN SetImages(k - 1) : SetImages(k - 1)[a] # j
    BY <1>2, SetImagesAre
  <2> HIDE DEF D
  <2> QED
    BY <2>1 DEF Elsewhere, After, D
<1>3. /\ fr = [j \in Frames |-> fr[j]]
      /\ IsSeq(se)
      /\ \A j \in Frames : Remembers(E, fr[j], FrameImages(j, s))
      /\ \A l \in 1 .. Len(se) : Remembers(E, se[l], SetImages(l - 1))
  BY DEF Remembered
<1>4. IsSeq(te) /\ Len(te) = Len(se) /\ \A l \in 1 .. Len(se) : te[l] = IF l = k THEN pass.target ELSE se[l]
  <2>1. IsSeq(se)
    BY <1>3
  <2> QED
    BY <2>1, SeqExcept
<1> HIDE DEF F, E, te
<1>5. ASSUME NEW j \in Frames PROVE Remembers(F, fr[j], FrameImages(j, s))
  <2>1. << "frame", j, s >> \in D
    BY DEF ImagesOf
  <2>2. << "frame", j, s >> # ColorImage(k - 1) /\ << "frame", j, s >> # DepthImage(k - 1)
    BY ImagesDiffer
  <2>3. F[<< "frame", j, s >>] = E[<< "frame", j, s >>]
    BY <1>2, <2>1, <2>2
  <2>4. Remembers(E, fr[j], FrameImages(j, s))
    BY <1>3
  <2> QED
    BY <2>3, <2>4, FrameImagesAre DEF Remembers
<1>6. ASSUME NEW l \in 1 .. Len(se) PROVE Remembers(F, te[l], SetImages(l - 1))
  <2>1. CASE l = k
    BY <1>1, <1>4, <2>1
  <2>2. CASE l # k
    <3>1. l - 1 \in 0 .. Len(se) - 1 /\ l - 1 # k - 1
      BY <1>3, <2>2, SeqLen
    <3>2. ColorImage(l - 1) \in D /\ DepthImage(l - 1) \in D
      BY <3>1 DEF ImagesOf
    <3>3. /\ ColorImage(l - 1) # ColorImage(k - 1) /\ ColorImage(l - 1) # DepthImage(k - 1)
          /\ DepthImage(l - 1) # ColorImage(k - 1) /\ DepthImage(l - 1) # DepthImage(k - 1)
      BY <3>1, ImagesDiffer
    <3>4. /\ F[ColorImage(l - 1)] = E[ColorImage(l - 1)]
          /\ F[DepthImage(l - 1)] = E[DepthImage(l - 1)]
      BY <1>2, <3>2, <3>3
    <3>5. te[l] = se[l] /\ Remembers(E, se[l], SetImages(l - 1))
      BY <1>3, <1>4, <2>2
    <3> QED
      BY <3>4, <3>5, SetImagesAre DEF Remembers
  <2> QED
    BY <2>1, <2>2
<1>7. Remembered(F, s, fr, te)
  BY <1>1, <1>3, <1>4, <1>5, <1>6 DEF Remembered
<1> QED
  BY <1>4, <1>7 DEF F, te

-----------------------------------------------------------------------------
(***************************************************************************)
(* The queue.                                                              *)
(***************************************************************************)

QueueAsTold(w, q) == \A n \in 1 .. Len(q) : AllAsTold(Ahead(w, q)[n], q[n].cmds)

AfterQueue(w, q) == Ahead(w, q)[Len(q) + 1]

LEMMA QueueEmpty == ASSUME NEW w PROVE QueueAsTold(w, << >>) /\ AfterQueue(w, << >>) = w
<1>1. Len(<< >>) = 0
  OBVIOUS
<1>2. Ahead(w, << >>)[1] = w
  BY <1>1, AheadDef
<1> QED
  BY <1>1, <1>2 DEF QueueAsTold, AfterQueue

LEMMA QueueAppend ==
  ASSUME NEW w, NEW q, IsSeq(q), QueueAsTold(w, q), NEW b, AllAsTold(AfterQueue(w, q), b.cmds)
  PROVE  /\ IsSeq(Append(q, b))
         /\ QueueAsTold(w, Append(q, b))
         /\ AfterQueue(w, Append(q, b)) = ExecuteAll(AfterQueue(w, q), b.cmds)
<1> DEFINE r == Append(q, b)
<1>1. /\ IsSeq(r)
      /\ Len(q) \in Nat
      /\ Len(r) = Len(q) + 1
      /\ \A n \in 1 .. Len(q) : r[n] = q[n]
      /\ r[Len(q) + 1] = b
  BY SeqAppend, SeqLen
<1>2. \A n \in 1 .. Len(q) + 1 : Ahead(w, r)[n] = Ahead(w, q)[n]
  BY AheadAppend
<1> HIDE DEF r
<1>3. Len(q) + 1 \in 1 .. Len(r) /\ Len(q) + 1 \in 1 .. Len(q) + 1
  BY <1>1
<1>4. Ahead(w, r)[(Len(q) + 1) + 1] = ExecuteAll(Ahead(w, r)[Len(q) + 1], r[Len(q) + 1].cmds)
  BY <1>1, <1>3, AheadDef
<1>5. AfterQueue(w, r) = ExecuteAll(AfterQueue(w, q), b.cmds)
  BY <1>1, <1>2, <1>3, <1>4 DEF AfterQueue
<1>6. ASSUME NEW n \in 1 .. Len(r) PROVE AllAsTold(Ahead(w, r)[n], r[n].cmds)
  <2>1. CASE n = Len(q) + 1
    BY <1>1, <1>2, <1>3, <2>1 DEF AfterQueue
  <2>2. CASE n # Len(q) + 1
    <3>1. n \in 1 .. Len(q) /\ n \in 1 .. Len(q) + 1
      BY <1>1, <2>2
    <3>2. AllAsTold(Ahead(w, q)[n], q[n].cmds)
      BY <3>1 DEF QueueAsTold
    <3> QED
      BY <1>1, <1>2, <3>1, <3>2
  <2> QED
    BY <2>1, <2>2
<1> QED
  BY <1>1, <1>5, <1>6 DEF QueueAsTold, r

LEMMA QueueTail ==
  ASSUME NEW w, NEW q, IsSeq(q), q # << >>, QueueAsTold(w, q)
  PROVE  LET v == ExecuteAll(w, Head(q).cmds)
         IN /\ IsSeq(Tail(q))
            /\ QueueAsTold(v, Tail(q))
            /\ AfterQueue(v, Tail(q)) = AfterQueue(w, q)
<1> DEFINE v == ExecuteAll(w, Head(q).cmds)
           r == Tail(q)
<1>1. /\ IsSeq(r)
      /\ Len(q) \in Nat \ {0}
      /\ Len(r) = Len(q) - 1
      /\ \A n \in 1 .. Len(q) - 1 : r[n] = q[n + 1]
  BY SeqTail
<1>2. \A n \in 1 .. Len(q) : Ahead(v, r)[n] = Ahead(w, q)[n + 1]
  BY AheadTail
<1> HIDE DEF v, r
<1>3. AfterQueue(v, r) = AfterQueue(w, q)
  <2>1. Len(r) + 1 = Len(q) /\ Len(q) \in 1 .. Len(q)
    BY <1>1
  <2> QED
    BY <1>2, <2>1 DEF AfterQueue
<1>4. ASSUME NEW n \in 1 .. Len(r) PROVE AllAsTold(Ahead(v, r)[n], r[n].cmds)
  <2>1. n \in 1 .. Len(q) - 1 /\ n \in 1 .. Len(q) /\ n + 1 \in 1 .. Len(q)
    BY <1>1
  <2>2. AllAsTold(Ahead(w, q)[n + 1], q[n + 1].cmds)
    BY <2>1 DEF QueueAsTold
  <2> QED
    BY <1>1, <1>2, <2>1, <2>2
<1> QED
  BY <1>1, <1>3, <1>4 DEF QueueAsTold, v, r

-----------------------------------------------------------------------------
(***************************************************************************)
(* The inductive invariant.                                                *)
(***************************************************************************)

\* The images when the device comes to the command buffer being recorded, and
\* when it has executed what is recorded so far.
Before == AfterQueue(world, queue)

Final == ExecuteAll(Before, cmds)

TypeInv ==
  /\ swapchain \in Nat
  /\ frameIndex \in Frames
  /\ presentId \in Nat
  /\ prepared \in Nat
  /\ pc \in {"construct", "idle", "flip", "reset", "main", "views", "compute", "imgui",
             "submit", "present", "resize"}
  /\ IsSeq(queue)
  /\ Len(sets) \in Nat /\ Len(sets) >= FrameCount

\* The command buffer is empty outside Construct and the passes of Draw.
BufferInv == pc \notin {"construct", "views", "compute", "imgui", "submit"} => cmds = << >>

\* What the passes of Draw have recorded so far will have drawn.
DrawnInv ==
  /\ pc \in {"views", "compute"} =>
       /\ sets[SetOf(frameIndex)].layout[Color] = "color"
       /\ << "main", presentId >> \in Final[ColorImage(frameIndex)].drawn
  /\ pc = "imgui" =>
       /\ frames[frameIndex].layout[Color] = "general"
       /\ << "compute", presentId >> \in Final[FrameImage(frameIndex)].drawn
  /\ pc = "submit" =>
       /\ frames[frameIndex].layout[Color] = "present"
       /\ {<< "compute", presentId >>, << "imgui", presentId >>}
             \subseteq Final[FrameImage(frameIndex)].drawn
  /\ pc = "present" =>
       /\ frames[frameIndex].layout[Color] = "present"
       /\ {<< "compute", presentId - 1 >>, << "imgui", presentId - 1 >>}
             \subseteq Final[FrameImage(frameIndex)].drawn

DrawInv ==
  /\ TypeInv
  /\ BufferInv
  /\ QueueAsTold(world, queue)
  /\ Recorded(Before, cmds)
  /\ Remembered(Final, swapchain, frames, sets)
  /\ DrawnInv

-----------------------------------------------------------------------------
(***************************************************************************)
(* New targets, at the start and when the window changes its size.         *)
(***************************************************************************)

LEMMA NewTargetIs ==
  ASSUME NEW im
  PROVE  /\ IsTarget(NewTarget(im), im)
         /\ \A a \in DOMAIN im : NewTarget(im).layout[a] = "undefined"
<1> DEFINE l == [a \in DOMAIN im |-> "undefined"]
           o == [a \in DOMAIN im |-> "dontcare"]
           r == [a \in DOMAIN im |-> ViewAspects(Aspects(a))]
           v == [a \in DOMAIN im |-> 0]
<1>1. NewTarget(im) = Target(im, l, o, r, v, << >>)
  BY DEF NewTarget, Target
<1>2. l \in [DOMAIN im -> Layouts] /\ o \in [DOMAIN im -> LoadOps]
  BY DEF Layouts, LoadOps
<1>3. \A a \in DOMAIN im : l[a] = "undefined"
  OBVIOUS
<1> HIDE DEF l, o, r, v
<1> QED
  BY <1>1, <1>2, <1>3, TargetFields DEF IsTarget

LEMMA MoreSetsAre ==
  ASSUME NEW old, IsSeq(old)
  PROVE  /\ IsSeq(MoreSets(old))
         /\ Len(MoreSets(old)) = Len(old) + FrameCount
         /\ \A k \in 1 .. Len(old) : MoreSets(old)[k] = old[k]
         /\ \A k \in Len(old) + 1 .. Len(old) + FrameCount : MoreSets(old)[k] = NewSet(k - 1)
<1> DEFINE new == [k \in 1 .. FrameCount |-> NewSet(Len(old) + k - 1)]
<1>1. FrameCount \in Nat /\ Len(old) \in Nat
  BY BoundsAssumption, SeqLen
<1>2. IsSeq(new) /\ Len(new) = FrameCount
  <2> DEFINE S == {new[k] : k \in 1 .. FrameCount}
  <2>1. new \in [1 .. FrameCount -> S]
    OBVIOUS
  <2> HIDE DEF S, new
  <2>2. new \in UNION {[1 .. n -> S] : n \in Nat}
    BY <1>1, <2>1
  <2>3. new \in Seq(S)
    BY <2>2, SeqDef
  <2>4. DOMAIN new = 1 .. FrameCount /\ DOMAIN new = 1 .. Len(new) /\ Len(new) \in Nat
    BY <2>1, <2>3, LenProperties
  <2> QED
    BY <1>1, <2>3, <2>4, SeqIs
<1>3. /\ IsSeq(old \o new)
      /\ Len(old \o new) = Len(old) + Len(new)
      /\ \A n \in 1 .. Len(old) + Len(new) :
           (old \o new)[n] = IF n <= Len(old) THEN old[n] ELSE new[n - Len(old)]
  BY <1>2, SeqConcat
<1>4. ASSUME NEW k \in Len(old) + 1 .. Len(old) + FrameCount
      PROVE  (old \o new)[k] = NewSet(k - 1)
  <2>1. /\ k \in 1 .. Len(old) + Len(new)
        /\ ~ (k <= Len(old))
        /\ k - Len(old) \in 1 .. FrameCount
        /\ Len(old) + (k - Len(old)) - 1 = k - 1
    BY <1>1, <1>2
  <2>2. (old \o new)[k] = new[k - Len(old)]
    BY <1>3, <2>1
  <2>3. new[k - Len(old)] = NewSet(Len(old) + (k - Len(old)) - 1)
    BY <2>1
  <2> QED
    BY <2>1, <2>2, <2>3
<1> HIDE DEF new
<1>5. \A k \in 1 .. Len(old) : (old \o new)[k] = old[k]
  BY <1>1, <1>2, <1>3
<1> QED
  BY <1>2, <1>3, <1>4, <1>5 DEF MoreSets, new

\* New frames and sets remember that their images are undefined.
LEMMA RenewedRemember ==
  ASSUME NEW F, NEW s, NEW old, IsSeq(old),
         IsWorld(F, ImagesOf(s, Len(old) + FrameCount)),
         \A i \in Frames : F[<< "frame", i, s >>].layout = "undefined",
         \A k \in 1 .. Len(old) : Remembers(F, old[k], SetImages(k - 1)),
         \A k \in Len(old) .. Len(old) + FrameCount - 1 :
           F[ColorImage(k)].layout = "undefined" /\ F[DepthImage(k)].layout = "undefined"
  PROVE  Remembered(F, s, NewFrames(s), MoreSets(old))
<1> DEFINE se == MoreSets(old)
<1>1. /\ IsSeq(se)
      /\ Len(se) = Len(old) + FrameCount
      /\ \A k \in 1 .. Len(old) : se[k] = old[k]
      /\ \A k \in Len(old) + 1 .. Len(old) + FrameCount : se[k] = NewSet(k - 1)
      /\ FrameCount \in Nat /\ Len(old) \in Nat
  BY MoreSetsAre, BoundsAssumption, SeqLen
<1> HIDE DEF se
<1>2. NewFrames(s) = [i \in Frames |-> NewFrames(s)[i]]
  BY DEF NewFrames
<1>3. ASSUME NEW i \in Frames PROVE Remembers(F, NewFrames(s)[i], FrameImages(i, s))
  <2>1. NewFrames(s)[i] = NewTarget(FrameImages(i, s))
    BY DEF NewFrames, FrameImages
  <2>2. F[<< "frame", i, s >>].layout = "undefined"
    OBVIOUS
  <2> QED
    BY <2>1, <2>2, NewTargetIs, FrameImagesAre DEF Remembers
<1>4. ASSUME NEW k \in 1 .. Len(se) PROVE Remembers(F, se[k], SetImages(k - 1))
  <2>1. CASE k <= Len(old)
    BY <1>1, <2>1
  <2>2. CASE k > Len(old)
    <3>1. /\ k \in Len(old) + 1 .. Len(old) + FrameCount
          /\ k - 1 \in Len(old) .. Len(old) + FrameCount - 1
      BY <1>1, <2>2
    <3>2. se[k] = NewTarget(SetImages(k - 1))
      BY <1>1, <3>1 DEF NewSet, SetImages
    <3>3. F[ColorImage(k - 1)].layout = "undefined" /\ F[DepthImage(k - 1)].layout = "undefined"
      BY <3>1
    <3>4. \A a \in DOMAIN SetImages(k - 1) :
            F[SetImages(k - 1)[a]].layout = NewTarget(SetImages(k - 1)).layout[a]
      BY <3>3, NewTargetIs, SetImagesAre
    <3> QED
      BY <3>2, <3>4, NewTargetIs DEF Remembers
  <2> QED
    BY <1>1, <2>1, <2>2
<1> QED
  BY <1>1, <1>2, <1>3, <1>4 DEF Remembered, se

LEMMA NewImagesAre ==
  ASSUME NEW s, NEW n
  PROVE  /\ DOMAIN NewImages(s, n) = ImagesOf(s, n)
         /\ IsWorld(NewImages(s, n), ImagesOf(s, n))
         /\ \A i \in ImagesOf(s, n) : NewImages(s, n)[i].layout = "undefined"
<1> DEFINE D == ImagesOf(s, n)
           N == NewImages(s, n)
<1>1. N = [i \in D |-> [layout |-> "undefined", drawn |-> {}]]
  BY DEF NewImages, ImagesOf
<1> HIDE DEF D, N
<1>2. DOMAIN N = D /\ \A i \in D : N[i] = [layout |-> "undefined", drawn |-> {}]
  BY <1>1
<1>3. \A i \in D : N[i].layout = "undefined" /\ N[i].drawn = {}
  BY <1>2
<1>4. IsWorld(N, D)
  BY <1>1, <1>3 DEF IsWorld
<1> QED
  BY <1>2, <1>3, <1>4 DEF D, N

LEMMA InitDrawInv == Init => DrawInv
<1> SUFFICES ASSUME Init PROVE DrawInv
  OBVIOUS
<1>1. FrameCount \in Nat /\ FrameCount >= 2
  BY BoundsAssumption
<1>2. Len(<< >>) = 0 /\ IsSeq(<< >>)
  BY SeqEmpty
<1>3. /\ QueueAsTold(world, queue)
      /\ Before = world /\ Final = world
      /\ Recorded(Before, cmds)
  BY <1>2, QueueEmpty, ExecuteNothing, NothingAsTold DEF Init, Before, Final, Recorded
<1>4. Len(sets) = FrameCount
  BY <1>1, <1>2, MoreSetsAre DEF Init
<1>5. TypeInv
  BY <1>1, <1>2, <1>4 DEF Init, TypeInv, Frames
<1>6. BufferInv /\ DrawnInv
  BY DEF Init, BufferInv, DrawnInv
<1>7. Remembered(world, 0, NewFrames(0), MoreSets(<< >>))
  <2>1. world = NewImages(0, FrameCount) /\ Len(<< >>) + FrameCount = FrameCount
    BY <1>1, <1>2 DEF Init
  <2>2. IsWorld(world, ImagesOf(0, Len(<< >>) + FrameCount))
    BY <2>1, NewImagesAre
  <2>6. \A i \in ImagesOf(0, FrameCount) : world[i].layout = "undefined"
    BY <2>1, NewImagesAre
  <2>3. \A i \in Frames : world[<< "frame", i, 0 >>].layout = "undefined"
    BY <2>6 DEF ImagesOf
  <2>4. \A k \in Len(<< >>) .. Len(<< >>) + FrameCount - 1 :
          world[ColorImage(k)].layout = "undefined" /\ world[DepthImage(k)].layout = "undefined"
    BY <1>1, <1>2, <2>6 DEF ImagesOf
  <2>5. \A k \in 1 .. Len(<< >>) : Remembers(world, << >>[k], SetImages(k - 1))
    BY <1>2
  <2> QED
    BY <1>2, <2>2, <2>3, <2>4, <2>5, RenewedRemember
<1> QED
  BY <1>3, <1>5, <1>6, <1>7 DEF DrawInv, Init

-----------------------------------------------------------------------------
(***************************************************************************)
(* The pipelines and the models.  While all models so far had the same     *)
(* attributes, those that vertexInput holds from the first model on, and   *)
(* those of the graphics pipeline, are theirs.                             *)
(***************************************************************************)

ComputePipeline == [target |-> "compute", vertexInput |-> "none"]

PipelineInv ==
  /\ pipelines = [p \in {"graphics", "compute"} |-> pipelines[p]]
  /\ \/ pipelines["graphics"] = NoPipeline
     \/ /\ pipelines["graphics"].target = "set"
        /\ Alike => pipelines["graphics"].vertexInput \in kinds
  /\ pipelines["compute"] \in {NoPipeline, ComputePipeline}

ModelInv ==
  /\ {model, drawn, loading} \subseteq kinds \cup {"none"}
  /\ Alike /\ model # "none" => vertexInput \in kinds
  /\ pc = "views" => renderTarget = "set" /\ model # "none"

BindInv == PipelineInv /\ ModelInv

LEMMA InitBindInv == Init => BindInv
BY DEF Init, BindInv, PipelineInv, ModelInv

\* A step that neither binds nor loads.
LEMMA UnboundStep ==
  ASSUME BindInv, UNCHANGED << models, pipelines >>, drawn' \in {drawn, model},
         pc' = "views" => renderTarget' = "set" /\ model # "none"
  PROVE  BindInv'
<1>1. UNCHANGED << model, vertexInput, loading, kinds, pipelines >> /\ Alike' = Alike
  BY DEF models, Alike
<1>2. PipelineInv'
  BY <1>1 DEF BindInv, PipelineInv
<1>3. ModelInv'
  BY <1>1 DEF BindInv, ModelInv
<1> QED
  BY <1>2, <1>3 DEF BindInv

\* What BindModel binds.
LEMMA ModelFits ==
  ASSUME BindInv, pc = "views", drawn # "none"
  PROVE  LET pipeline == InternalGetPipeline("graphics", pipelines, renderTarget, vertexInput)
         IN  /\ pipeline.target = "set"
             /\ Alike => pipeline.vertexInput \in kinds
             /\ Alike => pipeline.vertexInput = drawn
<1> DEFINE pipeline == InternalGetPipeline("graphics", pipelines, renderTarget, vertexInput)
<1>1. drawn \in kinds /\ renderTarget = "set" /\ (Alike => vertexInput \in kinds)
  BY DEF BindInv, ModelInv
<1>2. pipeline.target = "set" /\ (Alike => pipeline.vertexInput \in kinds)
  <2>1. CASE pipelines["graphics"] = NoPipeline
    <3>1. pipeline = [target |-> renderTarget, vertexInput |-> vertexInput]
      BY <2>1 DEF InternalGetPipeline, PipelineKey, CreatePipeline
    <3> QED
      BY <1>1, <3>1
  <2>2. CASE pipelines["graphics"] # NoPipeline
    <3>1. pipeline = pipelines["graphics"]
      BY <2>2 DEF InternalGetPipeline, PipelineKey
    <3> HIDE DEF pipeline
    <3> QED
      BY <2>2, <3>1 DEF BindInv, PipelineInv
  <2> QED
    BY <2>1, <2>2
<1> HIDE DEF pipeline
<1>3. Alike => pipeline.vertexInput = drawn
  BY <1>1, <1>2 DEF Alike
<1> QED
  BY <1>2, <1>3 DEF pipeline

LEMMA ComputeFits ==
  ASSUME BindInv
  PROVE  InternalGetPipeline("compute", pipelines, renderTarget, vertexInput) = ComputePipeline
BY DEF BindInv, PipelineInv, InternalGetPipeline, PipelineKey, CreatePipeline, ComputePipeline

LEMMA BindModelBindInv == BindInv /\ BindModel => BindInv'
<1> SUFFICES ASSUME BindInv, BindModel PROVE BindInv'
  OBVIOUS
<1> DEFINE pipeline == InternalGetPipeline("graphics", pipelines, renderTarget, vertexInput)
<1>1. /\ pc = "views" /\ drawn # "none" /\ drawn' = "none"
      /\ pipelines' = [pipelines EXCEPT !["graphics"] = pipeline]
      /\ UNCHANGED << model, vertexInput, loading, kinds, renderTarget >>
  BY DEF BindModel, models, PipelineKey
<1>2. pipeline.target = "set" /\ (Alike => pipeline.vertexInput \in kinds)
  BY <1>1, ModelFits
<1> HIDE DEF pipeline
<1>3. Alike' = Alike
  BY <1>1 DEF Alike
<1>4. pipelines'["graphics"] = pipeline /\ pipelines'["compute"] = pipelines["compute"]
  BY <1>1 DEF BindInv, PipelineInv
<1>5. pipelines' = [p \in {"graphics", "compute"} |-> pipelines'[p]]
  BY <1>1 DEF BindInv, PipelineInv
<1>6. PipelineInv'
  BY <1>1, <1>2, <1>3, <1>4, <1>5 DEF BindInv, PipelineInv
<1>7. ModelInv'
  BY <1>1, <1>3 DEF BindInv, ModelInv
<1> QED
  BY <1>6, <1>7 DEF BindInv

LEMMA DrawComputeBindInv == BindInv /\ DrawCompute => BindInv'
<1> SUFFICES ASSUME BindInv, DrawCompute PROVE BindInv'
  OBVIOUS
<1>1. /\ pc' = "imgui" /\ pipelines' = [pipelines EXCEPT !["compute"] = ComputePipeline]
      /\ UNCHANGED << model, vertexInput, loading, kinds, drawn, renderTarget >>
  BY ComputeFits DEF DrawCompute, models, views, PipelineKey
<1>2. Alike' = Alike
  BY <1>1 DEF Alike
<1>3. pipelines'["compute"] = ComputePipeline /\ pipelines'["graphics"] = pipelines["graphics"]
  BY <1>1 DEF BindInv, PipelineInv
<1>4. pipelines' = [p \in {"graphics", "compute"} |-> pipelines'[p]]
  BY <1>1 DEF BindInv, PipelineInv
<1>5. PipelineInv'
  BY <1>1, <1>2, <1>3, <1>4 DEF BindInv, PipelineInv
<1>6. ModelInv'
  BY <1>1, <1>2 DEF BindInv, ModelInv
<1> QED
  BY <1>5, <1>6 DEF BindInv

\* A model like those before it leaves vertexInput as it is.
LEMMA BeginLoadBindInv == ASSUME BindInv, NEW a, BeginLoad(a) PROVE BindInv'
<1>1. /\ loading' = a /\ kinds' = kinds \cup {a}
      /\ vertexInput' = IF vertexInput = a THEN a ELSE "torn"
      /\ UNCHANGED << model, drawn, pc, renderTarget, pipelines >>
  BY DEF BeginLoad, views
<1>2. Alike' => Alike
  BY <1>1 DEF Alike
<1>3. PipelineInv'
  BY <1>1, <1>2 DEF BindInv, PipelineInv
<1>4. ASSUME Alike', model # "none" PROVE vertexInput' \in kinds'
  <2>1. model \in kinds /\ vertexInput \in kinds
    BY <1>2, <1>4 DEF BindInv, ModelInv
  <2>2. vertexInput \in kinds' /\ a \in kinds'
    BY <1>1, <2>1
  <2>3. vertexInput = a
    BY <1>4, <2>2 DEF Alike
  <2> QED
    BY <1>1, <2>2, <2>3
<1>5. ModelInv'
  BY <1>1, <1>4 DEF BindInv, ModelInv
<1> QED
  BY <1>3, <1>5 DEF BindInv

LEMMA StoreBindInv == BindInv /\ (SetVertexInputState \/ StoreModel) => BindInv'
<1> SUFFICES ASSUME BindInv, SetVertexInputState \/ StoreModel PROVE BindInv'
  OBVIOUS
<1>1. /\ loading # "none" /\ vertexInput' = loading
      /\ model' \in {model, loading} /\ loading' \in {loading, "none"}
      /\ UNCHANGED << kinds, drawn, pc, renderTarget, pipelines >>
  BY DEF SetVertexInputState, StoreModel, views
<1>2. Alike' = Alike
  BY <1>1 DEF Alike
<1>3. PipelineInv'
  BY <1>1, <1>2 DEF BindInv, PipelineInv
<1>4. ModelInv'
  BY <1>1, <1>2 DEF BindInv, ModelInv
<1> QED
  BY <1>3, <1>4 DEF BindInv

LEMMA NextBindInv == BindInv /\ [Next]_vars => BindInv'
<1> SUFFICES ASSUME BindInv, [Next]_vars PROVE BindInv'
  OBVIOUS
<1> USE DEF drawing, views
<1>1. CASE Construct
  BY <1>1, UnboundStep DEF Construct, PrepareFrame, PrepareSet, SubmitPrepared
<1>2. CASE LockDraw \/ Acquire \/ Refuse \/ WaitForContext
  BY <1>2, UnboundStep DEF LockDraw, Acquire, Refuse, WaitForContext
<1>3. CASE DrawMainPass
  BY <1>3, UnboundStep DEF DrawMainPass
<1>4. CASE ReadModel
  BY <1>4, UnboundStep DEF ReadModel, BindInv, ModelInv
<1>5. CASE BindModel
  BY <1>5, BindModelBindInv
<1>6. CASE DrawCompute
  BY <1>6, DrawComputeBindInv
<1>7. CASE DrawImgui \/ SubmitDraw \/ PresentDraw
  BY <1>7, UnboundStep DEF DrawImgui, SubmitDraw, PresentDraw
<1>8. CASE LoadModel
  BY <1>8, BeginLoadBindInv, StoreBindInv DEF LoadModel
<1>9. CASE LockResize \/ Resize
  BY <1>9, UnboundStep DEF LockResize, Resize
<1>10. CASE Execute \/ Show
  BY <1>10, UnboundStep DEF Execute, Show, BindInv, ModelInv
<1>11. CASE \E id \in Ids : WaitPresent(id)
  BY <1>11, UnboundStep DEF WaitPresent, BindInv, ModelInv
<1>12. CASE \E w \in waits : PresentWaited(w)
  BY <1>12, UnboundStep DEF PresentWaited, BindInv, ModelInv
<1>13. CASE UNCHANGED vars
  BY <1>13, UnboundStep DEF vars, BindInv, ModelInv
<1> QED
  BY <1>1, <1>2, <1>3, <1>4, <1>5, <1>6, <1>7, <1>8, <1>9, <1>10, <1>11, <1>12, <1>13
  DEF Next, Draw

-----------------------------------------------------------------------------
(***************************************************************************)
(* The steps.                                                              *)
(***************************************************************************)

\* A step that records nothing, submits nothing and executes nothing.
LEMMA QuietStep ==
  ASSUME DrawInv, TypeInv', BufferInv', DrawnInv',
         UNCHANGED << swapchain, frames, sets, cmds, queue, world >>
  PROVE  DrawInv'
BY DEF DrawInv, Before, Final

\* The step of a caller between the locks and the passes.
LEMMA CallerStep ==
  ASSUME DrawInv, UNCHANGED << swapchain, frames, sets, presentId, cmds, prepared, queue,
                               world >>,
         frameIndex' \in Frames, pc \in {"idle", "flip", "reset", "resize"},
         pc' \in {"idle", "flip", "reset", "main", "resize"}
  PROVE  DrawInv'
<1>1. TypeInv' /\ BufferInv' /\ DrawnInv'
  BY DEF DrawInv, TypeInv, BufferInv, DrawnInv
<1> QED
  BY <1>1, QuietStep

\* A step of others.
LEMMA OtherStep ==
  ASSUME DrawInv, UNCHANGED << swapchain, frameIndex, frames, sets, presentId, pc, cmds, prepared,
                               queue, world >>
  PROVE  DrawInv'
<1>1. Final' = Final
  BY DEF Final, Before
<1>2. FrameImage(frameIndex)' = FrameImage(frameIndex)
  BY DEF FrameImage
<1>3. TypeInv' /\ BufferInv' /\ DrawnInv'
  BY <1>1, <1>2 DEF DrawInv, TypeInv, BufferInv, DrawnInv
<1> QED
  BY <1>3, QuietStep

LEMMA PrepareFrameInv == DrawInv /\ PrepareFrame => DrawInv'
<1> SUFFICES ASSUME DrawInv, PrepareFrame PROVE DrawInv'
  OBVIOUS
<1> DEFINE i == prepared
           w == Before
           D == ImagesOf(swapchain, Len(sets))
           im == FrameImages(i, swapchain)
           from == Record(frames[i], cmds)
           pass == FrameToGeneral(from)
<1>1. i \in Frames /\ i \in Nat
  BY BoundsAssumption DEF PrepareFrame, DrawInv, TypeInv, Frames
<1>2. /\ frames' = [frames EXCEPT ![i] = pass.target]
      /\ cmds' = pass.cmds
      /\ prepared' = i + 1
      /\ UNCHANGED << swapchain, frameIndex, sets, presentId, pc, queue, world >>
      /\ pc = "construct"
  BY DEF PrepareFrame, device
<1>3. Recorded(w, cmds) /\ Remembered(ExecuteAll(w, cmds), swapchain, frames, sets)
  BY DEF DrawInv, Final
<1>4. Sound(w, D, from, im) /\ After(w, from) = ExecuteAll(w, cmds)
  BY <1>1, <1>3, FrameStart
<1>5. Own(im) /\ DOMAIN im = {Color}
  BY FrameImagesAre
<1> HIDE DEF from, w, im, D
<1>6. Sound(w, D, pass, im) /\ Elsewhere(w, D, from, pass, im)
  BY <1>4, <1>5, FrameToGeneralSound
<1> HIDE DEF pass
<1>7. Remembered(ExecuteAll(w, pass.cmds), swapchain, [frames EXCEPT ![i] = pass.target], sets)
  BY <1>1, <1>3, <1>4, <1>6, FramePass DEF D, im
<1>8. Recorded(w, pass.cmds)
  BY <1>6, SoundEnd
<1>9. Before' = w /\ Final' = ExecuteAll(w, pass.cmds)
  BY <1>2 DEF Before, Final, w
<1>10. TypeInv' /\ BufferInv' /\ DrawnInv' /\ QueueAsTold(world, queue)'
  BY <1>1, <1>2 DEF DrawInv, TypeInv, BufferInv, DrawnInv
<1> QED
  BY <1>2, <1>7, <1>8, <1>9, <1>10 DEF DrawInv

LEMMA PrepareSetInv == DrawInv /\ PrepareSet => DrawInv'
<1> SUFFICES ASSUME DrawInv, PrepareSet PROVE DrawInv'
  OBVIOUS
<1> DEFINE k == prepared - FrameCount + 1
           w == Before
           D == ImagesOf(swapchain, Len(sets))
           im == SetImages(k - 1)
           from == Record(sets[k], cmds)
           pass == SetToGeneral(from)
<1>1. k \in 1 .. Len(sets)
  BY BoundsAssumption DEF PrepareSet, DrawInv, TypeInv, Frames
<1>2. /\ sets' = [sets EXCEPT ![k] = pass.target]
      /\ cmds' = pass.cmds
      /\ prepared' = prepared + 1
      /\ UNCHANGED << swapchain, frameIndex, frames, presentId, pc, queue, world >>
      /\ pc = "construct"
  BY DEF PrepareSet, device
<1>3. Recorded(w, cmds) /\ Remembered(ExecuteAll(w, cmds), swapchain, frames, sets)
  BY DEF DrawInv, Final
<1> HIDE DEF k
<1>4. Sound(w, D, from, im) /\ After(w, from) = ExecuteAll(w, cmds)
  BY <1>1, <1>3, SetStart
<1>5. Own(im) /\ DOMAIN im = {Color, Depth}
  BY SetImagesAre
<1> HIDE DEF from, w, im, D
<1>6. Sound(w, D, pass, im) /\ Elsewhere(w, D, from, pass, im)
  BY <1>4, <1>5, SetToGeneralSound
<1> HIDE DEF pass
<1>7. /\ Remembered(ExecuteAll(w, pass.cmds), swapchain, frames, [sets EXCEPT ![k] = pass.target])
      /\ Len([sets EXCEPT ![k] = pass.target]) = Len(sets)
  BY <1>1, <1>3, <1>4, <1>6, SetPass DEF D, im
<1>8. Recorded(w, pass.cmds)
  BY <1>6, SoundEnd
<1>9. Before' = w /\ Final' = ExecuteAll(w, pass.cmds)
  BY <1>2 DEF Before, Final, w
<1>10. TypeInv' /\ BufferInv' /\ DrawnInv' /\ QueueAsTold(world, queue)'
  BY <1>2, <1>7 DEF DrawInv, TypeInv, BufferInv, DrawnInv
<1> QED
  BY <1>2, <1>7, <1>8, <1>9, <1>10 DEF DrawInv

\* What is submitted comes behind the queue, where it was recorded for.
LEMMA Submission ==
  ASSUME DrawInv, NEW id, queue' = Append(queue, [cmds |-> cmds, id |-> id, index |-> None]),
         cmds' = << >>, UNCHANGED world
  PROVE  /\ IsSeq(queue')
         /\ QueueAsTold(world, queue)'
         /\ Before' = Final
         /\ Final' = Final
         /\ Recorded(Before, cmds)'
<1> DEFINE b == [cmds |-> cmds, id |-> id, index |-> None]
<1>1. b.cmds = cmds
  OBVIOUS
<1>2. IsSeq(queue) /\ QueueAsTold(world, queue) /\ AllAsTold(AfterQueue(world, queue), b.cmds)
  BY <1>1 DEF DrawInv, TypeInv, Recorded, Before
<1> HIDE DEF b
<1>3. /\ IsSeq(Append(queue, b))
      /\ QueueAsTold(world, Append(queue, b))
      /\ AfterQueue(world, Append(queue, b)) = ExecuteAll(AfterQueue(world, queue), b.cmds)
  BY <1>2, QueueAppend
<1>4. queue' = Append(queue, b) /\ world' = world
  BY DEF b
<1>5. Before' = Final
  BY <1>1, <1>3, <1>4 DEF Before, Final
<1>6. Final' = Final
  BY <1>5, ExecuteNothing DEF Final
<1> QED
  BY <1>3, <1>4, <1>5, <1>6, SeqEmpty, NothingAsTold DEF Recorded

LEMMA SubmitPreparedInv == DrawInv /\ SubmitPrepared => DrawInv'
<1> SUFFICES ASSUME DrawInv, SubmitPrepared PROVE DrawInv'
  OBVIOUS
<1>1. /\ IsSeq(queue')
      /\ QueueAsTold(world, queue)'
      /\ Final' = Final
      /\ Recorded(Before, cmds)'
  BY Submission DEF SubmitPrepared
<1>2. TypeInv' /\ BufferInv' /\ DrawnInv'
  BY <1>1 DEF DrawInv, SubmitPrepared, TypeInv, BufferInv, DrawnInv
<1>3. Remembered(Final, swapchain, frames, sets)'
  BY <1>1 DEF DrawInv, SubmitPrepared
<1> QED
  BY <1>1, <1>2, <1>3 DEF DrawInv

LEMMA SubmitDrawInv == DrawInv /\ SubmitDraw => DrawInv'
<1> SUFFICES ASSUME DrawInv, SubmitDraw PROVE DrawInv'
  OBVIOUS
<1>1. /\ IsSeq(queue')
      /\ QueueAsTold(world, queue)'
      /\ Final' = Final
      /\ Recorded(Before, cmds)'
  BY Submission DEF SubmitDraw
<1>2. /\ pc = "submit" /\ pc' = "present"
      /\ presentId' = presentId + 1 /\ presentId \in Nat /\ presentId' - 1 = presentId
      /\ cmds' = << >>
      /\ UNCHANGED << swapchain, frameIndex, frames, sets, prepared >>
  BY DEF SubmitDraw, DrawInv, TypeInv, PreparePresent
<1>3. TypeInv' /\ BufferInv'
  BY <1>1, <1>2 DEF DrawInv, TypeInv, BufferInv
<1>4. FrameImage(frameIndex)' = FrameImage(frameIndex)
  BY <1>2 DEF FrameImage
<1>5. DrawnInv'
  BY <1>1, <1>2, <1>4 DEF DrawInv, DrawnInv
<1>6. Remembered(Final, swapchain, frames, sets)'
  BY <1>1, <1>2 DEF DrawInv
<1> QED
  BY <1>1, <1>3, <1>5, <1>6 DEF DrawInv

\* Binding a pipeline that fits changes no image.
LEMMA RecordBind ==
  ASSUME NEW w, NEW c, Recorded(w, c), NEW point, NEW for, NEW made, NEW alike,
         made.target = for.target, alike => made.vertexInput = for.vertexInput
  PROVE  LET d == Append(c, Bind(point, for, made, alike))
         IN Recorded(w, d) /\ ExecuteAll(w, d) = ExecuteAll(w, c)
<1> DEFINE b == Bind(point, for, made, alike)
<1>1. AsTold(ExecuteAll(w, c), b) /\ Effect(ExecuteAll(w, c), b) = ExecuteAll(w, c)
  BY BindEffect
<1> HIDE DEF b
<1>2. IsSeq(c) /\ AllAsTold(w, c)
  BY DEF Recorded
<1>3. IsSeq(Append(c, b)) /\ AllAsTold(w, Append(c, b))
  BY <1>1, <1>2, SeqAppend, AppendAsTold
<1>4. ExecuteAll(w, Append(c, b)) = ExecuteAll(w, c)
  BY <1>1, <1>2, ExecuteAppend
<1> QED
  BY <1>3, <1>4 DEF Recorded, b

\* What changes no layout is nothing a target has to remember.
LEMMA SameLayouts ==
  ASSUME NEW F, NEW G, NEW s, NEW fr, NEW se, Remembered(F, s, fr, se),
         IsWorld(G, ImagesOf(s, Len(se))),
         \A j \in ImagesOf(s, Len(se)) : G[j].layout = F[j].layout
  PROVE  Remembered(G, s, fr, se)
<1> DEFINE D == ImagesOf(s, Len(se))
<1>1. /\ fr = [i \in Frames |-> fr[i]]
      /\ IsSeq(se)
      /\ \A i \in Frames : Remembers(F, fr[i], FrameImages(i, s))
      /\ \A k \in 1 .. Len(se) : Remembers(F, se[k], SetImages(k - 1))
  BY DEF Remembered
<1>2. \A i \in Frames : << "frame", i, s >> \in D
  BY DEF ImagesOf
<1>3. ASSUME NEW k \in 1 .. Len(se) PROVE ColorImage(k - 1) \in D /\ DepthImage(k - 1) \in D
  BY <1>1, SeqLen DEF ImagesOf
<1>4. \A j \in D : G[j].layout = F[j].layout
  OBVIOUS
<1> HIDE DEF D
<1>5. ASSUME NEW i \in Frames PROVE Remembers(G, fr[i], FrameImages(i, s))
  <2>1. Remembers(F, fr[i], FrameImages(i, s))
    BY <1>1
  <2>2. << "frame", i, s >> \in D
    BY <1>2
  <2> QED
    BY <1>4, <2>1, <2>2, FrameImagesAre DEF Remembers
<1>6. ASSUME NEW k \in 1 .. Len(se) PROVE Remembers(G, se[k], SetImages(k - 1))
  <2>1. Remembers(F, se[k], SetImages(k - 1))
    BY <1>1
  <2> QED
    BY <1>3, <1>4, <2>1, SetImagesAre DEF Remembers
<1> QED
  BY <1>1, <1>5, <1>6 DEF Remembered

LEMMA DrawMainPassInv == DrawInv /\ DrawMainPass => DrawInv'
<1> SUFFICES ASSUME DrawInv, DrawMainPass PROVE DrawInv'
  OBVIOUS
<1> DEFINE k == SetOf(frameIndex)
           w == Before
           D == ImagesOf(swapchain, Len(sets))
           im == SetImages(k - 1)
           from == Record(sets[k], cmds)
           pass == MainPass(from, presentId)
<1>1. /\ k \in 1 .. Len(sets) /\ k - 1 = frameIndex
  BY BoundsAssumption DEF DrawInv, TypeInv, Frames, SetOf
<1>2. /\ sets' = [sets EXCEPT ![k] = pass.target]
      /\ cmds' = pass.cmds
      /\ pc = "main" /\ pc' \in {"views", "compute"}
      /\ UNCHANGED << swapchain, frameIndex, frames, presentId, prepared, queue, world >>
  BY DEF DrawMainPass, device
<1>5. Recorded(w, cmds) /\ Remembered(ExecuteAll(w, cmds), swapchain, frames, sets)
  BY DEF DrawInv, Final
<1> HIDE DEF k
<1>6. Sound(w, D, from, im) /\ After(w, from) = ExecuteAll(w, cmds)
  BY <1>1, <1>5, SetStart
<1>7. Own(im) /\ DOMAIN im = {Color, Depth} /\ im[Color] = ColorImage(k - 1)
  BY SetImagesAre
<1> HIDE DEF from, w, im, D
<1>8. /\ Sound(w, D, pass, im)
      /\ pass.target.layout[Color] = "color"
      /\ Elsewhere(w, D, from, pass, im)
      /\ << "main", presentId >> \in After(w, pass)[im[Color]].drawn
  BY <1>6, <1>7, MainPassSound
<1> HIDE DEF pass
<1>9. /\ Remembered(ExecuteAll(w, pass.cmds), swapchain, frames, [sets EXCEPT ![k] = pass.target])
      /\ Len([sets EXCEPT ![k] = pass.target]) = Len(sets)
  BY <1>1, <1>5, <1>6, <1>8, SetPass DEF D, im
<1>10. Recorded(w, pass.cmds)
  BY <1>8, SoundEnd
<1>11. Recorded(w, cmds') /\ ExecuteAll(w, cmds') = ExecuteAll(w, pass.cmds)
  BY <1>2, <1>10
<1>12. Before' = w /\ Final' = ExecuteAll(w, pass.cmds)
  BY <1>2, <1>11 DEF Before, Final, w
<1>14. sets'[k] = pass.target
  <2>1. DOMAIN sets = 1 .. Len(sets)
    BY <1>5, SeqLen DEF Remembered
  <2> QED
    BY <1>1, <1>2, <2>1
<1>15. DrawnInv'
  <2>1. SetOf(frameIndex)' = k
    BY <1>2 DEF k, SetOf
  <2>2. ColorImage(frameIndex)' = im[Color]
    BY <1>1, <1>2, <1>7 DEF ColorImage
  <2>3. << "main", presentId' >> \in ExecuteAll(w, pass.cmds)[im[Color]].drawn
    BY <1>2, <1>8 DEF After
  <2> QED
    BY <1>2, <1>8, <1>12, <1>14, <2>1, <2>2, <2>3 DEF DrawnInv
<1>16. TypeInv' /\ BufferInv' /\ QueueAsTold(world, queue)'
  BY <1>2, <1>9 DEF DrawInv, TypeInv, BufferInv
<1> QED
  BY <1>2, <1>9, <1>11, <1>12, <1>15, <1>16 DEF DrawInv

LEMMA ReadModelInv == DrawInv /\ ReadModel => DrawInv'
BY OtherStep DEF ReadModel, device

LEMMA BindModelInv == DrawInv /\ BindInv /\ BindModel => DrawInv'
<1> SUFFICES ASSUME DrawInv, BindInv, BindModel PROVE DrawInv'
  OBVIOUS
<1> DEFINE pipeline == InternalGetPipeline("graphics", pipelines, renderTarget, vertexInput)
           for == [target |-> "set", vertexInput |-> drawn]
           bound == Append(cmds, Bind("graphics", for, pipeline, Alike))
<1>1. /\ cmds' = bound
      /\ pc = "views" /\ drawn # "none" /\ pc' \in {"views", "compute"}
      /\ UNCHANGED << swapchain, frameIndex, frames, sets, presentId, prepared, queue, world >>
  BY DEF BindModel, device
<1>2. pipeline.target = for.target /\ (Alike => pipeline.vertexInput = for.vertexInput)
  BY <1>1, ModelFits
<1>3. Recorded(Before, cmds)
  BY DEF DrawInv
<1> HIDE DEF pipeline, for
<1>4. Recorded(Before, bound) /\ ExecuteAll(Before, bound) = Final
  BY <1>2, <1>3, RecordBind DEF Final
<1> HIDE DEF bound
<1>5. Before' = Before /\ Final' = Final
  BY <1>1, <1>4 DEF Before, Final
<1>6. SetOf(frameIndex)' = SetOf(frameIndex) /\ ColorImage(frameIndex)' = ColorImage(frameIndex)
  BY <1>1 DEF SetOf, ColorImage
<1>7. TypeInv' /\ BufferInv' /\ DrawnInv'
  BY <1>1, <1>5, <1>6 DEF DrawInv, TypeInv, BufferInv, DrawnInv
<1> QED
  BY <1>1, <1>4, <1>5, <1>7 DEF DrawInv

LEMMA DrawImguiInv == DrawInv /\ DrawImgui => DrawInv'
<1> SUFFICES ASSUME DrawInv, DrawImgui PROVE DrawInv'
  OBVIOUS
<1> DEFINE i == frameIndex
           w == Before
           D == ImagesOf(swapchain, Len(sets))
           im == FrameImages(i, swapchain)
           from == Record(frames[i], cmds)
           pass == ImguiPass(from, presentId)
<1>1. i \in Frames
  BY DEF DrawInv, TypeInv
<1>2. /\ frames' = [frames EXCEPT ![i] = pass.target]
      /\ cmds' = pass.cmds
      /\ UNCHANGED << swapchain, frameIndex, sets, presentId, prepared, queue, world >>
      /\ pc = "imgui" /\ pc' = "submit"
  BY DEF DrawImgui, device
<1>3. Recorded(w, cmds) /\ Remembered(ExecuteAll(w, cmds), swapchain, frames, sets)
  BY DEF DrawInv, Final
<1>4. /\ frames[i].layout[Color] = "general"
      /\ << "compute", presentId >> \in ExecuteAll(w, cmds)[FrameImage(i)].drawn
  BY <1>2 DEF DrawInv, DrawnInv, Final
<1>5. Sound(w, D, from, im) /\ After(w, from) = ExecuteAll(w, cmds)
  BY <1>1, <1>3, FrameStart
<1>6. Own(im) /\ DOMAIN im = {Color} /\ im[Color] = FrameImage(i)
  BY FrameImagesAre DEF FrameImage
<1>7. from.target.layout[Color] # "undefined"
  BY <1>4, RecordFields
<1> HIDE DEF from, w, im, D
<1>8. /\ Sound(w, D, pass, im)
      /\ pass.target.layout[Color] = "present"
      /\ Elsewhere(w, D, from, pass, im)
      /\ After(w, from)[im[Color]].drawn \cup {<< "imgui", presentId >>}
           \subseteq After(w, pass)[im[Color]].drawn
  BY <1>5, <1>6, <1>7, ImguiPassSound
<1> HIDE DEF pass
<1>9. Remembered(ExecuteAll(w, pass.cmds), swapchain, [frames EXCEPT ![i] = pass.target], sets)
  BY <1>1, <1>3, <1>5, <1>8, FramePass DEF D, im
<1>10. Recorded(w, pass.cmds)
  BY <1>8, SoundEnd
<1>11. Before' = w /\ Final' = ExecuteAll(w, pass.cmds)
  BY <1>2 DEF Before, Final, w
<1>12. TypeInv' /\ BufferInv' /\ QueueAsTold(world, queue)'
  BY <1>2 DEF DrawInv, TypeInv, BufferInv
<1>13. DrawnInv'
  <2>1. FrameImage(frameIndex)' = im[Color]
    BY <1>2, <1>6 DEF FrameImage
  <2>2. frames'[frameIndex'].layout[Color] = "present"
    <3>1. frames = [j \in Frames |-> frames[j]]
      BY <1>3 DEF Remembered
    <3>2. frames'[i] = pass.target
      BY <1>1, <1>2, <3>1
    <3> QED
      BY <1>2, <1>8, <3>2
  <2>3. {<< "compute", presentId >>, << "imgui", presentId >>}
          \subseteq ExecuteAll(w, pass.cmds)[im[Color]].drawn
    BY <1>4, <1>5, <1>6, <1>8 DEF After
  <2> QED
    BY <1>2, <1>11, <2>1, <2>2, <2>3 DEF DrawnInv
<1> QED
  BY <1>2, <1>9, <1>10, <1>11, <1>12, <1>13 DEF DrawInv

LEMMA DrawComputeInv == DrawInv /\ BindInv /\ DrawCompute => DrawInv'
<1> SUFFICES ASSUME DrawInv, BindInv, DrawCompute PROVE DrawInv'
  OBVIOUS
<1> DEFINE i == frameIndex
           k == SetOf(i)
           w == Before
           D == ImagesOf(swapchain, Len(sets))
           sim == SetImages(k - 1)
           fim == FrameImages(i, swapchain)
           sfrom == Record(sets[k], cmds)
           set == SetToRead(sfrom)
           ffrom == Record(frames[i], set.cmds)
           frame == FrameToGeneral(ffrom)
           te == [sets EXCEPT ![k] = set.target]
           gr == [frames EXCEPT ![i] = frame.target]
           pipeline == InternalGetPipeline("compute", pipelines, renderTarget, vertexInput)
           for == [target |-> "compute", vertexInput |-> "none"]
           bound == Append(frame.cmds, Bind("compute", for, pipeline, Alike))
           dispatch == Dispatch(set.target, frame.target, presentId)
<1>1. i \in Frames /\ k \in 1 .. Len(sets) /\ k - 1 = i
  BY BoundsAssumption DEF DrawInv, TypeInv, Frames, SetOf
<1>2. /\ sets' = te
      /\ frames' = gr
      /\ cmds' = Append(bound, dispatch)
      /\ pc = "compute" /\ pc' = "imgui"
      /\ UNCHANGED << swapchain, frameIndex, presentId, prepared, queue, world >>
  BY DEF DrawCompute, device
<1>3. pipeline.target = for.target /\ pipeline.vertexInput = for.vertexInput
  BY ComputeFits DEF ComputePipeline
<1>4. Recorded(w, cmds) /\ Remembered(ExecuteAll(w, cmds), swapchain, frames, sets)
  BY DEF DrawInv, Final
<1>5. /\ sets[k].layout[Color] = "color"
      /\ << "main", presentId >> \in ExecuteAll(w, cmds)[ColorImage(i)].drawn
  BY <1>2 DEF DrawInv, DrawnInv, Final
<1> HIDE DEF pipeline, for, k
<1>6. Sound(w, D, sfrom, sim) /\ After(w, sfrom) = ExecuteAll(w, cmds)
  BY <1>1, <1>4, SetStart
<1>7. Own(sim) /\ DOMAIN sim = {Color, Depth} /\ sim[Color] = ColorImage(i)
  BY <1>1, SetImagesAre
<1>8. sfrom.target.layout[Color] # "undefined"
  BY <1>5, RecordFields
<1>9. Own(fim) /\ DOMAIN fim = {Color} /\ fim[Color] = FrameImage(i)
  BY FrameImagesAre DEF FrameImage
<1> HIDE DEF sfrom, w, D, sim
<1>10. /\ Sound(w, D, set, sim)
       /\ Elsewhere(w, D, sfrom, set, sim)
       /\ After(w, set)[sim[Color]].drawn = After(w, sfrom)[sim[Color]].drawn
  BY <1>6, <1>7, <1>8, SetToReadSound
<1> HIDE DEF set
<1>11. Remembered(ExecuteAll(w, set.cmds), swapchain, frames, te) /\ Len(te) = Len(sets)
  BY <1>1, <1>4, <1>6, <1>10, SetPass DEF D, sim
<1> HIDE DEF te
<1>12. Recorded(w, set.cmds) /\ D = ImagesOf(swapchain, Len(te))
  BY <1>10, <1>11, SoundEnd DEF D
<1>13. Sound(w, D, ffrom, fim) /\ After(w, ffrom) = ExecuteAll(w, set.cmds)
  BY <1>1, <1>11, <1>12, FrameStart
<1> HIDE DEF ffrom, fim
<1>14. /\ Sound(w, D, frame, fim)
       /\ frame.target.layout[Color] = "general"
       /\ Elsewhere(w, D, ffrom, frame, fim)
  BY <1>9, <1>13, FrameToGeneralSound
<1> HIDE DEF frame
<1>15. Remembered(ExecuteAll(w, frame.cmds), swapchain, gr, te)
  BY <1>1, <1>11, <1>12, <1>13, <1>14, FramePass DEF fim
<1>16. Recorded(w, frame.cmds)
  BY <1>14, SoundEnd
<1>17. Recorded(w, bound) /\ ExecuteAll(w, bound) = ExecuteAll(w, frame.cmds)
  BY <1>3, <1>16, RecordBind
<1> HIDE DEF bound
<1> DEFINE F == ExecuteAll(w, bound)
           read == ColorImage(i)
           write == FrameImage(i)
<1>18. read \in D /\ write \in D /\ read # write
  BY <1>1, ImagesDiffer DEF D, ImagesOf, FrameImage
<1>19. IsWorld(F, D)
  BY <1>12, <1>15, <1>17 DEF Remembered
<1>20. F[read] = After(w, set)[read]
  <2>1. \A a \in DOMAIN fim : fim[a] # read
    BY <1>9, <1>18
  <2>2. After(w, frame)[read] = After(w, ffrom)[read]
    BY <1>14, <1>18, <2>1 DEF Elsewhere
  <2> QED
    BY <1>13, <1>17, <2>2 DEF After
<1>21. /\ << "main", presentId >> \in F[read].drawn
       /\ set.target.layout[Color] = F[read].layout
       /\ frame.target.layout[Color] = F[write].layout
  <2>1. set.target.layout[Color] = After(w, set)[read].layout
    BY <1>7, <1>10 DEF Sound
  <2>2. frame.target.layout[Color] = F[write].layout
    BY <1>9, <1>14, <1>17 DEF Sound, After
  <2>3. << "main", presentId >> \in After(w, set)[read].drawn
    BY <1>5, <1>6, <1>7, <1>10
  <2> QED
    BY <1>20, <2>1, <2>2, <2>3
<1>22. set.target.images = sim /\ frame.target.images = fim
  BY <1>10, <1>14, TargetFields DEF Sound, IsTarget
<1>23. dispatch = [op |-> "dispatch", draw |-> << "compute", presentId >>,
                   source |-> << "main", presentId >>,
                   read |-> read, readLayout |-> F[read].layout,
                   write |-> write, writeLayout |-> F[write].layout]
  BY <1>7, <1>9, <1>21, <1>22 DEF Dispatch
<1> HIDE DEF F, read, write, dispatch
<1>24. /\ AsTold(F, dispatch)
       /\ IsWorld(Effect(F, dispatch), D)
       /\ \A j \in D : Effect(F, dispatch)[j].layout = F[j].layout
       /\ << "compute", presentId >> \in Effect(F, dispatch)[write].drawn
  BY <1>18, <1>19, <1>21, <1>23, DispatchEffect
<1>25. IsSeq(bound) /\ AllAsTold(w, bound) /\ AsTold(ExecuteAll(w, bound), dispatch)
  BY <1>17, <1>24 DEF Recorded, F
<1>26. Recorded(w, cmds') /\ ExecuteAll(w, cmds') = Effect(F, dispatch)
  BY <1>2, <1>25, SeqAppend, AppendAsTold, ExecuteAppend DEF Recorded, F
<1>27. Before' = w /\ Final' = Effect(F, dispatch)
  BY <1>2, <1>26 DEF Before, Final, w
<1>28. Remembered(Effect(F, dispatch), swapchain, gr, te)
  <2>1. Remembered(F, swapchain, gr, te)
    BY <1>15, <1>17 DEF F
  <2> QED
    BY <1>12, <1>24, <2>1, SameLayouts
<1>29. frames'[i] = frame.target
  <2>1. frames = [j \in Frames |-> frames[j]]
    BY <1>4 DEF Remembered
  <2> QED
    BY <1>1, <1>2, <2>1
<1>30. DrawnInv'
  <2>1. FrameImage(frameIndex)' = write
    BY <1>2 DEF write, FrameImage
  <2>2. frames'[frameIndex'].layout[Color] = "general"
    BY <1>2, <1>14, <1>29
  <2> QED
    BY <1>2, <1>24, <1>27, <2>1, <2>2 DEF DrawnInv
<1>31. TypeInv' /\ BufferInv' /\ QueueAsTold(world, queue)'
  BY <1>2, <1>11 DEF DrawInv, TypeInv, BufferInv
<1> QED
  BY <1>2, <1>26, <1>27, <1>28, <1>30, <1>31 DEF DrawInv

LEMMA PresentDrawInv == DrawInv /\ PresentDraw => DrawInv'
<1> SUFFICES ASSUME DrawInv, PresentDraw PROVE DrawInv'
  OBVIOUS
<1> DEFINE i == FrameImage(frameIndex)
           m == [op |-> "present", image |-> i, id |-> presentId - 1]
           b == PresentOf(frameIndex, presentId - 1)
<1>1. /\ queue' = Append(queue, b)
      /\ pc = "present" /\ pc' = "idle"
      /\ UNCHANGED << swapchain, frameIndex, frames, sets, presentId, cmds, prepared, world >>
  BY DEF PresentDraw
<1>2. cmds = << >> /\ Final = Before
  BY <1>1, ExecuteNothing DEF DrawInv, BufferInv, Final
<1>3. b.cmds = Append(<< >>, m)
  BY DEF PresentOf
<1>4. /\ Final[i].layout = "present"
      /\ {<< "compute", presentId - 1 >>, << "imgui", presentId - 1 >>} \subseteq Final[i].drawn
      /\ i \in DOMAIN Final
  <2>1. frameIndex \in Frames /\ Remembered(Final, swapchain, frames, sets)
    BY DEF DrawInv, TypeInv
  <2>2. Remembers(Final, frames[frameIndex], FrameImages(frameIndex, swapchain))
    BY <2>1 DEF Remembered
  <2>3. Final[i].layout = frames[frameIndex].layout[Color]
    BY <2>2, FrameImagesAre DEF Remembers, FrameImage
  <2>4. DOMAIN Final = ImagesOf(swapchain, Len(sets))
    BY <2>1, WorldDomain DEF Remembered
  <2> QED
    BY <1>1, <2>1, <2>3, <2>4 DEF DrawInv, DrawnInv, ImagesOf, FrameImage
<1> HIDE DEF i
<1>5. AsTold(Before, m) /\ Effect(Before, m) = Before
  BY <1>2, <1>4, PresentEffect
<1> HIDE DEF m, b
<1>6. AllAsTold(Before, b.cmds) /\ ExecuteAll(Before, b.cmds) = Before
  <2>1. IsSeq(<< >>) /\ AllAsTold(Before, << >>) /\ ExecuteAll(Before, << >>) = Before
    BY SeqEmpty, NothingAsTold, ExecuteNothing
  <2>2. AllAsTold(Before, Append(<< >>, m))
    BY <1>5, <2>1, AppendAsTold
  <2> HIDE DEF m, b
  <2>4. IsSeq(<< >>)
    BY <2>1
  <2>5. ExecuteAll(Before, Append(<< >>, m)) = Effect(ExecuteAll(Before, << >>), m)
    BY ONLY <2>4, ExecuteAppend
  <2>3. ExecuteAll(Before, Append(<< >>, m)) = Before
    BY ONLY <1>5, <2>1, <2>5
  <2> QED
    BY <1>3, <2>2, <2>3
<1>7. IsSeq(queue) /\ QueueAsTold(world, queue) /\ AllAsTold(AfterQueue(world, queue), b.cmds)
  BY <1>6 DEF DrawInv, TypeInv, Before
<1>8. /\ IsSeq(queue')
      /\ QueueAsTold(world, queue)'
      /\ Before' = Before
  BY <1>1, <1>6, <1>7, QueueAppend DEF Before
<1>9. Final' = Final
  BY <1>1, <1>8 DEF Final
<1>10. TypeInv' /\ BufferInv' /\ DrawnInv'
  BY <1>1, <1>2, <1>8 DEF DrawInv, TypeInv, BufferInv, DrawnInv
<1> QED
  BY <1>1, <1>8, <1>9, <1>10 DEF DrawInv

\* The device gets no further than what was foreseen.
LEMMA ExecuteInv == DrawInv /\ Execute => DrawInv'
<1> SUFFICES ASSUME DrawInv, Execute PROVE DrawInv'
  OBVIOUS
<1>1. /\ queue # << >>
      /\ queue' = Tail(queue)
      /\ world' = ExecuteAll(world, Head(queue).cmds)
      /\ UNCHANGED << swapchain, frameIndex, frames, sets, presentId, pc, cmds, prepared,
                      pipelines >>
  BY DEF Execute, drawing
<1>2. IsSeq(queue) /\ QueueAsTold(world, queue)
  BY DEF DrawInv, TypeInv
<1>3. IsSeq(queue') /\ QueueAsTold(world, queue)' /\ Before' = Before
  BY <1>1, <1>2, QueueTail DEF Before
<1>4. Final' = Final
  BY <1>1, <1>3 DEF Final
<1>5. FrameImage(frameIndex)' = FrameImage(frameIndex)
  BY <1>1 DEF FrameImage
<1>6. TypeInv' /\ BufferInv'
  BY <1>1, <1>3 DEF DrawInv, TypeInv, BufferInv
<1>7. DrawnInv'
  BY <1>1, <1>4, <1>5 DEF DrawInv, DrawnInv
<1> QED
  BY <1>1, <1>3, <1>4, <1>6, <1>7 DEF DrawInv

\* A resize finds nothing queued; it makes the frames' images anew and keeps
\* those of the sets there are.
LEMMA ResizeInv == DrawInv /\ Resize => DrawInv'
<1> SUFFICES ASSUME DrawInv, Resize PROVE DrawInv'
  OBVIOUS
<1> DEFINE s == swapchain + 1
           n == Len(sets) + FrameCount
           D == ImagesOf(swapchain, Len(sets))
           E == ImagesOf(s, n)
<1>1. /\ pc = "resize" /\ pc' = "construct"
      /\ queue = << >>
      /\ swapchain' = s
      /\ frameIndex' = FrameCount - 1
      /\ frames' = NewFrames(s)
      /\ sets' = MoreSets(sets)
      /\ LET images == NewImages(s, Len(sets'))
         IN world' = [i \in DOMAIN images |-> IF i \in DOMAIN world THEN world[i] ELSE images[i]]
      /\ UNCHANGED << presentId, cmds, prepared, queue >>
  BY DEF Resize, Idle
<1>2. cmds = << >>
  BY <1>1 DEF DrawInv, BufferInv
<1>3. Before = world /\ Final = world /\ Before' = world' /\ Final' = world'
  BY <1>1, <1>2, QueueEmpty, ExecuteNothing DEF Before, Final
<1>4. QueueAsTold(world, queue)' /\ Recorded(Before, cmds)'
  BY <1>1, <1>2, QueueEmpty, SeqEmpty, NothingAsTold DEF Recorded
<1>5. Remembered(world, swapchain, frames, sets)
  BY <1>3 DEF DrawInv
<1>6. /\ IsSeq(sets) /\ Len(sets) \in Nat
      /\ \A k \in 1 .. Len(sets) : Remembers(world, sets[k], SetImages(k - 1))
      /\ IsWorld(world, D)
  BY <1>5, SeqLen DEF Remembered
<1>7. FrameCount \in Nat /\ FrameCount >= 2 /\ swapchain \in Nat
  BY BoundsAssumption DEF DrawInv, TypeInv
<1>8. Len(sets') = n
  BY <1>1, <1>6, MoreSetsAre
<1>9. DOMAIN world = D
  BY <1>6, WorldDomain
<1> HIDE DEF D
<1>10. /\ DOMAIN world' = E
       /\ world' = [i \in E |-> IF i \in D THEN world[i] ELSE NewImages(s, n)[i]]
  BY <1>1, <1>8, <1>9, NewImagesAre
<1> HIDE DEF E
<1>11. \A i \in E : world'[i] = IF i \in D THEN world[i] ELSE NewImages(s, n)[i]
  BY <1>10
<1>12. IsWorld(world', E)
  <2>1. ASSUME NEW i \in E PROVE world'[i] = [layout |-> world'[i].layout, drawn |-> world'[i].drawn]
    <3>1. CASE i \in D
      <4>1. world = [j \in D |-> [layout |-> world[j].layout, drawn |-> world[j].drawn]]
        BY <1>6 DEF IsWorld
      <4>2. world[i] = [layout |-> world[i].layout, drawn |-> world[i].drawn]
        BY <3>1, <4>1
      <4> QED
        BY <1>11, <3>1, <4>2
    <3>2. CASE i \notin D
      <4>1. IsWorld(NewImages(s, n), E)
        BY NewImagesAre DEF E
      <4>2. NewImages(s, n)[i]
              = [layout |-> NewImages(s, n)[i].layout, drawn |-> NewImages(s, n)[i].drawn]
        BY <4>1 DEF IsWorld
      <4> QED
        BY <1>11, <3>2, <4>2
    <3> QED
      BY <3>1, <3>2
  <2> QED
    BY <1>10, <2>1 DEF IsWorld
<1>13. \A i \in E \ D : world'[i].layout = "undefined"
  BY <1>11, NewImagesAre DEF E
<1>14. \A i \in Frames : << "frame", i, s >> \in E \ D
  BY <1>7 DEF D, E, ImagesOf, ColorImage, DepthImage
<1>15. ASSUME NEW k \in Len(sets) .. Len(sets) + FrameCount - 1
       PROVE  ColorImage(k) \in E \ D /\ DepthImage(k) \in E \ D
  BY <1>6, <1>7 DEF D, E, ImagesOf, ColorImage, DepthImage
<1>16. ASSUME NEW k \in 1 .. Len(sets) PROVE Remembers(world', sets[k], SetImages(k - 1))
  <2>1. k - 1 \in 0 .. Len(sets) - 1 /\ k - 1 \in 0 .. n - 1
    BY <1>6, <1>7
  <2>2. ColorImage(k - 1) \in E \cap D /\ DepthImage(k - 1) \in E \cap D
    BY <2>1 DEF D, E, ImagesOf
  <2>3. /\ world'[ColorImage(k - 1)] = world[ColorImage(k - 1)]
        /\ world'[DepthImage(k - 1)] = world[DepthImage(k - 1)]
    BY <1>11, <2>2
  <2>4. Remembers(world, sets[k], SetImages(k - 1))
    BY <1>6
  <2> QED
    BY <2>3, <2>4, SetImagesAre DEF Remembers
<1>17. Remembered(world', s, NewFrames(s), MoreSets(sets))
  <2>1. IsWorld(world', ImagesOf(s, Len(sets) + FrameCount))
    BY <1>12 DEF E
  <2>2. \A i \in Frames : world'[<< "frame", i, s >>].layout = "undefined"
    BY <1>13, <1>14
  <2>3. ASSUME NEW k \in Len(sets) .. Len(sets) + FrameCount - 1
        PROVE  world'[ColorImage(k)].layout = "undefined" /\ world'[DepthImage(k)].layout = "undefined"
    <3>1. ColorImage(k) \in E \ D /\ DepthImage(k) \in E \ D
      BY <1>15
    <3> HIDE DEF s, n
    <3> QED
      BY <1>13, <3>1
  <2> QED
    BY <1>6, <1>16, <2>1, <2>2, <2>3, RenewedRemember
<1>18. TypeInv'
  BY <1>1, <1>6, <1>7, <1>8 DEF DrawInv, TypeInv, Frames
<1>19. BufferInv' /\ DrawnInv'
  BY <1>1 DEF DrawInv, BufferInv, DrawnInv
<1> QED
  BY <1>1, <1>3, <1>4, <1>17, <1>18, <1>19 DEF DrawInv

LEMMA NextDrawInv == DrawInv /\ BindInv /\ [Next]_vars => DrawInv'
<1> SUFFICES ASSUME DrawInv, BindInv, [Next]_vars PROVE DrawInv'
  OBVIOUS
<1> USE DEF drawing, device, waiting
<1>1. CASE Construct
  BY <1>1, PrepareFrameInv, PrepareSetInv, SubmitPreparedInv DEF Construct
<1>2. CASE LockDraw
  BY <1>2, CallerStep DEF LockDraw, DrawInv, TypeInv
<1>3. CASE Acquire
  <2>1. frameIndex' \in Frames
    BY <1>3 DEF Acquire, Available
  <2>2. pc' \in {"reset", "idle"}
    BY <1>3 DEF Acquire
  <2> QED
    BY <1>3, <2>1, <2>2, CallerStep DEF Acquire
<1>4. CASE Refuse
  BY <1>4, CallerStep DEF Refuse, DrawInv, TypeInv
<1>5. CASE WaitForContext
  BY <1>5, CallerStep DEF WaitForContext, DrawInv, TypeInv
<1>6. CASE DrawMainPass
  BY <1>6, DrawMainPassInv
<1>7. CASE DrawCompute
  BY <1>7, DrawComputeInv
<1>8. CASE DrawImgui
  BY <1>8, DrawImguiInv
<1>9. CASE SubmitDraw
  BY <1>9, SubmitDrawInv
<1>10. CASE PresentDraw
  BY <1>10, PresentDrawInv
<1>11. CASE LoadModel
  BY <1>11, OtherStep DEF LoadModel, BeginLoad, SetVertexInputState, StoreModel
<1>12. CASE LockResize
  BY <1>12, CallerStep DEF LockResize, DrawInv, TypeInv
<1>13. CASE Resize
  BY <1>13, ResizeInv
<1>14. CASE Execute
  BY <1>14, ExecuteInv
<1>15. CASE Show
  BY <1>15, OtherStep DEF Show
<1>16. CASE \E id \in Ids : WaitPresent(id)
  BY <1>16, OtherStep DEF WaitPresent
<1>17. CASE \E w \in waits : PresentWaited(w)
  BY <1>17, OtherStep DEF PresentWaited
<1>18. CASE UNCHANGED vars
  BY <1>18, OtherStep DEF vars
<1>19. CASE ReadModel
  BY <1>19, ReadModelInv
<1>20. CASE BindModel
  BY <1>20, BindModelInv
<1> QED
  BY <1>1, <1>2, <1>3, <1>4, <1>5, <1>6, <1>7, <1>8, <1>9, <1>10, <1>11, <1>12, <1>13, <1>14,
     <1>15, <1>16, <1>17, <1>18, <1>19, <1>20 DEF Next, Draw

\* What every command is told is what each of the four properties asks of it.
LEMMA DrawInvMeans ==
  DrawInv => LayoutsAgree /\ ImagesExist /\ PresentsThisFrame /\ PipelinesFit
<1> SUFFICES ASSUME DrawInv PROVE LayoutsAgree /\ ImagesExist /\ PresentsThisFrame /\ PipelinesFit
  OBVIOUS
<1>1. \A n \in 1 .. Len(queue) : AllAsTold(Ahead(world, queue)[n], queue[n].cmds)
  BY DEF DrawInv, QueueAsTold
<1>2. AllAsTold(Ahead(world, queue)[Len(queue) + 1], cmds)
  BY DEF DrawInv, Recorded, Before, AfterQueue
<1>3. ASSUME NEW w, NEW c, AllAsTold(w, c)
      PROVE  /\ AllMeet(w, c, FindsLayouts)
             /\ AllMeet(w, c, NamesImages)
             /\ AllMeet(w, c, DrawnAsRecorded)
             /\ AllMeet(w, c, Fits)
  BY <1>3 DEF AllAsTold, AllMeet, AsTold
<1> HIDE DEF AllAsTold
<1>4. LayoutsAgree
  BY <1>1, <1>2, <1>3, Zenon DEF LayoutsAgree, EachMeets
<1>5. ImagesExist
  BY <1>1, <1>2, <1>3, Zenon DEF ImagesExist, EachMeets
<1>6. PresentsThisFrame
  BY <1>1, <1>2, <1>3, Zenon DEF PresentsThisFrame, EachMeets
<1>7. PipelinesFit
  BY <1>1, <1>2, <1>3, Zenon DEF PipelinesFit, EachMeets
<1> QED
  BY <1>4, <1>5, <1>6, <1>7

LEMMA DrawInvHolds == Spec => []DrawInv
BY InitBindInv, NextBindInv, InitDrawInv, NextDrawInv, PTL DEF Spec

\* Every barrier, rendering, descriptor and present names the layout that the
\* device finds the image in: whatever is queued, however often the window is
\* resized, and however many frames and draws there are.
THEOREM LayoutsAlwaysAgree == Spec => []LayoutsAgree
BY DrawInvHolds, DrawInvMeans, PTL

\* Nothing that is queued or being recorded names an image of a swapchain that
\* is gone.
THEOREM ImagesAlwaysExist == Spec => []ImagesExist
BY DrawInvHolds, DrawInvMeans, PTL

\* What is presented shows the compute pass and the user interface of its own
\* frame, and the compute pass has read the main pass of that frame.
THEOREM AlwaysPresentsThisFrame == Spec => []PresentsThisFrame
BY DrawInvHolds, DrawInvMeans, PTL

\* Every pipeline that is bound was made for the kind of target it draws into;
\* and for the attributes of the model whose buffers are bound with it, as long
\* as all models so far had the same: whatever the main thread loads while the
\* threads of Draw record.
THEOREM PipelinesAlwaysFit == Spec => []PipelinesFit
BY DrawInvHolds, DrawInvMeans, PTL

-----------------------------------------------------------------------------
(***************************************************************************)
(* The identifiers of the presents.  Those that are shown, those that the  *)
(* engine holds and those that are queued follow one another, and a wait   *)
(* is only begun for one that Draw has already queued: so a wait that ends *)
(* because its identifier was shown ends after the device has come past    *)
(* that present, and one that ends because its swapchain is gone ends      *)
(* after the queue was empty.                                              *)
(***************************************************************************)

\* The identifier of the next present that Draw queues.
Upcoming == IF pc = "present" THEN presentId - 1 ELSE presentId

QueueInOrder ==
  /\ IsSeq(queue)
  /\ \A n \in 1 .. Len(queue) : queue[n].id \in {None} \cup (0 .. presentId - 1)
  /\ \A n \in 1 .. Len(queue) :
       queue[n].index # None => queue[n].id \in 0 .. Upcoming - 1 /\ shown < queue[n].id
  /\ \A m, n \in 1 .. Len(queue) :
       queue[m].index # None /\ queue[n].index # None /\ m < n => queue[m].id < queue[n].id

EngineInOrder ==
  /\ IsSeq(engine)
  /\ \A m \in 1 .. Len(engine) : engine[m].id \in 0 .. Upcoming - 1
  /\ \A m \in 1 .. Len(engine), n \in 1 .. Len(queue) :
       queue[n].index # None => engine[m].id < queue[n].id

WaitsInOrder ==
  /\ callbacks \subseteq 0 .. presentId - 1
  /\ \A w \in waits :
       /\ w.id \in 0 .. Upcoming - 1
       /\ \A n \in 1 .. Len(queue) :
            queue[n].index # None /\ queue[n].id = w.id => w.swapchain = swapchain
  /\ waited \subseteq 0 .. Upcoming - 1
  /\ \A n \in 1 .. Len(queue) :
       queue[n].index # None /\ queue[n].id # 0 => queue[n].id \notin waited

PresentInv ==
  /\ presentId \in Nat
  /\ pc = "present" => presentId > 0
  /\ shown \in {None} \cup (0 .. Upcoming - 1)
  /\ QueueInOrder
  /\ EngineInOrder
  /\ WaitsInOrder

LEMMA InitPresentInv == Init => PresentInv
<1> SUFFICES ASSUME Init PROVE PresentInv
  OBVIOUS
<1>1. /\ presentId = 0 /\ pc = "construct" /\ shown = None
      /\ queue = << >> /\ engine = << >>
      /\ callbacks = {} /\ waits = {} /\ waited = {}
  BY DEF Init
<1>2. IsSeq(queue) /\ Len(queue) = 0 /\ IsSeq(engine) /\ Len(engine) = 0
  BY <1>1, SeqEmpty
<1> QED
  BY <1>1, <1>2 DEF PresentInv, QueueInOrder, EngineInOrder, WaitsInOrder

\* A step that touches none of it, and does not leave the present to come.
LEMMA QuietPresentInv ==
  ASSUME PresentInv, pc # "present", pc' # "present",
         UNCHANGED << swapchain, presentId, queue, engine, shown, waiting >>
  PROVE  PresentInv'
<1>1. Upcoming' = Upcoming
  BY DEF Upcoming
<1> QED
  BY <1>1 DEF PresentInv, QueueInOrder, EngineInOrder, WaitsInOrder, waiting

\* A batch goes behind what is queued.
LEMMA BatchPresentInv ==
  ASSUME PresentInv, NEW b, queue' = Append(queue, b), b.index = None,
         NEW next \in Nat, presentId' = next, presentId <= next,
         b.id \in {None} \cup (0 .. next - 1), Upcoming' = Upcoming,
         pc' = "present" => next > 0,
         UNCHANGED << swapchain, engine, shown, waiting >>
  PROVE  PresentInv'
<1>1. IsSeq(queue) /\ Len(queue) \in Nat
  BY SeqLen DEF PresentInv, QueueInOrder
<1>2. /\ IsSeq(queue')
      /\ Len(queue') = Len(queue) + 1
      /\ \A n \in 1 .. Len(queue) : queue'[n] = queue[n]
      /\ queue'[Len(queue) + 1] = b
  BY <1>1, SeqAppend
<1>3. \A n \in 1 .. Len(queue') : n \in 1 .. Len(queue) \/ n = Len(queue) + 1
  BY <1>1, <1>2
<1>4. \A n \in 1 .. Len(queue') :
        queue'[n].index # None => n \in 1 .. Len(queue) /\ queue'[n] = queue[n]
  BY <1>2, <1>3
<1>5. presentId \in Nat
  BY DEF PresentInv
<1>6. QueueInOrder'
  <2>1. \A n \in 1 .. Len(queue') : queue'[n].id \in {None} \cup (0 .. presentId' - 1)
    BY <1>2, <1>3, <1>5 DEF PresentInv, QueueInOrder
  <2>2. \A n \in 1 .. Len(queue') :
          queue'[n].index # None => queue'[n].id \in 0 .. Upcoming' - 1 /\ shown' < queue'[n].id
    BY <1>4 DEF PresentInv, QueueInOrder
  <2>3. ASSUME NEW m \in 1 .. Len(queue'), NEW n \in 1 .. Len(queue'),
               queue'[m].index # None, queue'[n].index # None, m < n
        PROVE  queue'[m].id < queue'[n].id
    <3>1. /\ m \in 1 .. Len(queue) /\ queue'[m] = queue[m]
          /\ n \in 1 .. Len(queue) /\ queue'[n] = queue[n]
      BY <1>4, <2>3
    <3> QED
      BY <2>3, <3>1 DEF PresentInv, QueueInOrder
  <2> QED
    BY <1>2, <2>1, <2>2, <2>3 DEF QueueInOrder
<1>7. EngineInOrder'
  BY <1>4 DEF PresentInv, EngineInOrder
<1>8. WaitsInOrder'
  <2>1. UNCHANGED << swapchain, callbacks, waits, waited >>
    BY DEF waiting
  <2>2. ASSUME NEW c \in callbacks PROVE c \in 0 .. next - 1
    <3>1. c \in 0 .. presentId - 1
      BY DEF PresentInv, WaitsInOrder
    <3> QED
      BY <1>5, <3>1
  <2>3. ASSUME NEW w \in waits
        PROVE  /\ w.id \in 0 .. Upcoming' - 1
               /\ \A n \in 1 .. Len(queue') :
                    queue'[n].index # None /\ queue'[n].id = w.id => w.swapchain = swapchain
    BY <1>4 DEF PresentInv, WaitsInOrder
  <2>4. waited \subseteq 0 .. Upcoming' - 1
    BY DEF PresentInv, WaitsInOrder
  <2>5. \A n \in 1 .. Len(queue') :
          queue'[n].index # None /\ queue'[n].id # 0 => queue'[n].id \notin waited
    BY <1>4 DEF PresentInv, WaitsInOrder
  <2> QED
    BY <2>1, <2>2, <2>3, <2>4, <2>5 DEF WaitsInOrder
<1> QED
  BY <1>6, <1>7, <1>8 DEF PresentInv

LEMMA PresentDrawPresentInv == PresentInv /\ PresentDraw => PresentInv'
<1> SUFFICES ASSUME PresentInv, PresentDraw PROVE PresentInv'
  OBVIOUS
<1> DEFINE b == PresentOf(frameIndex, presentId - 1)
<1>1. /\ pc = "present" /\ pc' = "idle"
      /\ queue' = Append(queue, b)
      /\ UNCHANGED << swapchain, presentId, engine, shown, callbacks, waits, waited >>
  BY DEF PresentDraw, waiting
<1>2. presentId \in Nat /\ presentId > 0
  BY <1>1 DEF PresentInv
<1>3. Upcoming = presentId - 1 /\ Upcoming' = presentId
  BY <1>1 DEF Upcoming
<1>4. b.id = presentId - 1
  BY DEF PresentOf
<1> HIDE DEF b
<1>5. IsSeq(queue) /\ Len(queue) \in Nat
  BY SeqLen DEF PresentInv, QueueInOrder
<1>6. /\ IsSeq(queue')
      /\ Len(queue') = Len(queue) + 1
      /\ \A n \in 1 .. Len(queue) : queue'[n] = queue[n]
      /\ queue'[Len(queue) + 1] = b
  BY <1>1, <1>5, SeqAppend
<1>7. \A n \in 1 .. Len(queue') :
        \/ n \in 1 .. Len(queue) /\ queue'[n] = queue[n]
        \/ n = Len(queue) + 1 /\ queue'[n].id = presentId - 1
  BY <1>4, <1>5, <1>6
<1>8. QueueInOrder'
  <2>1. \A n \in 1 .. Len(queue') : queue'[n].id \in {None} \cup (0 .. presentId' - 1)
    BY <1>1, <1>2, <1>7 DEF PresentInv, QueueInOrder
  <2>2. shown \in {None} \cup (0 .. presentId - 2)
    BY <1>3 DEF PresentInv
  <2>3. \A n \in 1 .. Len(queue') :
          queue'[n].index # None => queue'[n].id \in 0 .. Upcoming' - 1 /\ shown' < queue'[n].id
    BY <1>1, <1>2, <1>3, <1>7, <2>2 DEF PresentInv, QueueInOrder, None
  <2>4. \A m, n \in 1 .. Len(queue') :
          queue'[m].index # None /\ queue'[n].index # None /\ m < n => queue'[m].id < queue'[n].id
    <3> SUFFICES ASSUME NEW m \in 1 .. Len(queue'), NEW n \in 1 .. Len(queue'),
                        queue'[m].index # None, queue'[n].index # None, m < n
                 PROVE  queue'[m].id < queue'[n].id
      OBVIOUS
    <3>1. m \in 1 .. Len(queue) /\ queue'[m] = queue[m]
      BY <1>5, <1>6, <1>7
    <3>2. queue[m].id \in 0 .. presentId - 2
      BY <1>3, <3>1 DEF PresentInv, QueueInOrder
    <3>3. CASE n \in 1 .. Len(queue) /\ queue'[n] = queue[n]
      BY <3>1, <3>3 DEF PresentInv, QueueInOrder
    <3>4. CASE queue'[n].id = presentId - 1
      BY <1>2, <3>1, <3>2, <3>4
    <3> QED
      BY <1>7, <3>3, <3>4
  <2> QED
    BY <1>6, <2>1, <2>3, <2>4 DEF QueueInOrder
<1>9. EngineInOrder'
  <2>1. \A m \in 1 .. Len(engine) : engine[m].id \in 0 .. presentId - 2
    BY <1>3 DEF PresentInv, EngineInOrder
  <2>2. \A m \in 1 .. Len(engine'), n \in 1 .. Len(queue') :
          queue'[n].index # None => engine'[m].id < queue'[n].id
    BY <1>1, <1>2, <1>7, <2>1 DEF PresentInv, EngineInOrder
  <2>3. \A m \in 1 .. Len(engine') : engine'[m].id \in 0 .. Upcoming' - 1
    BY <1>1, <1>2, <1>3, <2>1
  <2>4. IsSeq(engine')
    BY <1>1 DEF PresentInv, EngineInOrder
  <2> QED
    BY <2>2, <2>3, <2>4 DEF EngineInOrder
<1>10. WaitsInOrder'
  <2>1. \A w \in waits : w.id \in 0 .. presentId - 2
    BY <1>3 DEF PresentInv, WaitsInOrder
  <2>2. waited \subseteq 0 .. presentId - 2
    BY <1>3 DEF PresentInv, WaitsInOrder
  <2>3. ASSUME NEW w \in waits, NEW n \in 1 .. Len(queue'), queue'[n].index # None,
               queue'[n].id = w.id
        PROVE  w.swapchain = swapchain
    <3>1. queue'[n].id # presentId - 1
      BY <1>2, <2>1, <2>3
    <3> QED
      BY <1>7, <2>3, <3>1 DEF PresentInv, WaitsInOrder
  <2>4. ASSUME NEW n \in 1 .. Len(queue'), queue'[n].index # None, queue'[n].id # 0
        PROVE  queue'[n].id \notin waited
    <3>1. CASE queue'[n].id = presentId - 1
      BY <1>2, <2>2, <3>1
    <3>2. CASE n \in 1 .. Len(queue) /\ queue'[n] = queue[n]
      BY <2>4, <3>2 DEF PresentInv, WaitsInOrder
    <3> QED
      BY <1>7, <3>1, <3>2
  <2> QED
    BY <1>1, <1>2, <1>3, <2>1, <2>2, <2>3, <2>4 DEF PresentInv, WaitsInOrder
<1>11. shown' \in {None} \cup (0 .. Upcoming' - 1)
  BY <1>1, <1>2, <1>3 DEF PresentInv
<1> QED
  BY <1>1, <1>2, <1>8, <1>9, <1>10, <1>11 DEF PresentInv

\* A new swapchain begins with an empty queue.
LEMMA ResizePresentInv == PresentInv /\ Resize => PresentInv'
<1> SUFFICES ASSUME PresentInv, Resize PROVE PresentInv'
  OBVIOUS
<1>1. /\ pc = "resize" /\ pc' = "construct"
      /\ queue = << >> /\ queue' = queue
      /\ engine' = << >> /\ shown' = None
      /\ UNCHANGED << presentId, callbacks, waits, waited >>
  BY DEF Resize, Idle, waiting
<1>2. IsSeq(queue') /\ Len(queue') = 0 /\ IsSeq(engine') /\ Len(engine') = 0
  BY <1>1, SeqEmpty
<1>3. Upcoming' = Upcoming
  BY <1>1 DEF Upcoming
<1> QED
  BY <1>1, <1>2, <1>3 DEF PresentInv, QueueInOrder, EngineInOrder, WaitsInOrder

\* The first entry of the queue goes to the engine, or leaves its callback.
LEMMA ExecutePresentInv == PresentInv /\ Execute => PresentInv'
<1> SUFFICES ASSUME PresentInv, Execute PROVE PresentInv'
  OBVIOUS
<1>1. /\ queue # << >> /\ queue' = Tail(queue)
      /\ UNCHANGED << swapchain, presentId, pc, shown, waits, waited >>
  BY DEF Execute, drawing
<1>2. IsSeq(queue) /\ IsSeq(engine) /\ Len(engine) \in Nat
  BY SeqLen DEF PresentInv, QueueInOrder, EngineInOrder
<1>3. /\ IsSeq(queue')
      /\ Len(queue) \in Nat \ {0}
      /\ Len(queue') = Len(queue) - 1
      /\ \A n \in 1 .. Len(queue') : queue'[n] = queue[n + 1]
  BY <1>1, <1>2, SeqTail
<1>4. Head(queue) = queue[1]
  BY <1>1
<1>5. \A n \in 1 .. Len(queue') :
        n + 1 \in 1 .. Len(queue) /\ 1 < n + 1 /\ queue'[n] = queue[n + 1]
  BY <1>3
<1>6. 1 \in 1 .. Len(queue)
  BY <1>3
<1>7. Upcoming' = Upcoming
  BY <1>1 DEF Upcoming
<1>8. QueueInOrder'
  <2>1. \A n \in 1 .. Len(queue') : queue'[n].id \in {None} \cup (0 .. presentId' - 1)
    BY <1>1, <1>5 DEF PresentInv, QueueInOrder
  <2>2. \A n \in 1 .. Len(queue') :
          queue'[n].index # None => queue'[n].id \in 0 .. Upcoming' - 1 /\ shown' < queue'[n].id
    BY <1>1, <1>5, <1>7 DEF PresentInv, QueueInOrder
  <2>3. ASSUME NEW m \in 1 .. Len(queue'), NEW n \in 1 .. Len(queue'),
               queue'[m].index # None, queue'[n].index # None, m < n
        PROVE  queue'[m].id < queue'[n].id
    <3>1. m + 1 < n + 1
      BY <2>3
    <3> QED
      BY <1>5, <2>3, <3>1 DEF PresentInv, QueueInOrder
  <2> QED
    BY <1>3, <2>1, <2>2, <2>3 DEF QueueInOrder
<1>9. EngineInOrder' /\ callbacks' \subseteq 0 .. presentId - 1
  <2>1. CASE queue[1].index # None
    <3> DEFINE e == [index |-> queue[1].index, id |-> queue[1].id]
    <3>1. engine' = Append(engine, e) /\ callbacks' = callbacks
      BY <1>4, <2>1 DEF Execute
    <3>2. e.id = queue[1].id
      OBVIOUS
    <3> HIDE DEF e
    <3>3. /\ IsSeq(engine')
          /\ Len(engine') = Len(engine) + 1
          /\ \A m \in 1 .. Len(engine) : engine'[m] = engine[m]
          /\ engine'[Len(engine) + 1] = e
      BY <1>2, <3>1, SeqAppend
    <3>4. \A m \in 1 .. Len(engine') :
            \/ m \in 1 .. Len(engine) /\ engine'[m] = engine[m]
            \/ engine'[m].id = queue[1].id
      BY <1>2, <3>2, <3>3
    <3>5. queue[1].id \in 0 .. Upcoming - 1
      BY <1>6, <2>1 DEF PresentInv, QueueInOrder
    <3>6. \A m \in 1 .. Len(engine') : engine'[m].id \in 0 .. Upcoming' - 1
      BY <1>7, <3>4, <3>5 DEF PresentInv, EngineInOrder
    <3>7. ASSUME NEW m \in 1 .. Len(engine'), NEW n \in 1 .. Len(queue'), queue'[n].index # None
          PROVE  engine'[m].id < queue'[n].id
      <4>1. queue[1].id < queue'[n].id
        BY <1>5, <1>6, <2>1, <3>7 DEF PresentInv, QueueInOrder
      <4>2. \A k \in 1 .. Len(engine) : engine[k].id < queue'[n].id
        BY <1>5, <3>7 DEF PresentInv, EngineInOrder
      <4> QED
        BY <3>4, <4>1, <4>2
    <3> QED
      BY <3>1, <3>3, <3>6, <3>7 DEF PresentInv, EngineInOrder, WaitsInOrder
  <2>2. CASE queue[1].index = None
    <3>1. engine' = engine /\ callbacks' = callbacks \cup ({queue[1].id} \ {None})
      BY <1>4, <2>2 DEF Execute
    <3>2. queue[1].id \in {None} \cup (0 .. presentId - 1)
      BY <1>6 DEF PresentInv, QueueInOrder
    <3>3. callbacks' \subseteq 0 .. presentId - 1
      BY <3>1, <3>2 DEF PresentInv, WaitsInOrder
    <3>4. EngineInOrder'
      BY <1>5, <1>7, <3>1 DEF PresentInv, EngineInOrder
    <3> QED
      BY <3>3, <3>4
  <2> QED
    BY <2>1, <2>2
<1>10. WaitsInOrder'
  BY <1>1, <1>5, <1>7, <1>9 DEF PresentInv, WaitsInOrder
<1> QED
  BY <1>1, <1>7, <1>8, <1>9, <1>10 DEF PresentInv

LEMMA ShowPresentInv == PresentInv /\ Show => PresentInv'
<1> SUFFICES ASSUME PresentInv, Show PROVE PresentInv'
  OBVIOUS
<1>1. /\ engine # << >> /\ engine' = Tail(engine)
      /\ shown' = Head(engine).id
      /\ UNCHANGED << swapchain, presentId, pc, queue, callbacks, waits, waited >>
  BY DEF Show, drawing, waiting
<1>2. IsSeq(engine)
  BY DEF PresentInv, EngineInOrder
<1>3. /\ IsSeq(engine')
      /\ Len(engine) \in Nat \ {0}
      /\ Len(engine') = Len(engine) - 1
      /\ \A m \in 1 .. Len(engine') : engine'[m] = engine[m + 1]
  BY <1>1, <1>2, SeqTail
<1>4. 1 \in 1 .. Len(engine) /\ shown' = engine[1].id
  BY <1>1, <1>3
<1>5. \A m \in 1 .. Len(engine') : m + 1 \in 1 .. Len(engine) /\ engine'[m] = engine[m + 1]
  BY <1>3
<1>6. Upcoming' = Upcoming
  BY <1>1 DEF Upcoming
<1>7. EngineInOrder'
  BY <1>1, <1>3, <1>5, <1>6 DEF PresentInv, EngineInOrder
<1>8. shown' \in 0 .. Upcoming' - 1
  BY <1>4, <1>6 DEF PresentInv, EngineInOrder
<1>9. \A n \in 1 .. Len(queue) : queue[n].index # None => shown' < queue[n].id
  BY <1>4 DEF PresentInv, EngineInOrder
<1>10. QueueInOrder'
  BY <1>1, <1>6, <1>9 DEF PresentInv, QueueInOrder
<1>11. WaitsInOrder'
  BY <1>1, <1>6 DEF PresentInv, WaitsInOrder
<1> QED
  BY <1>1, <1>7, <1>8, <1>10, <1>11 DEF PresentInv

\* A wait begins for a present that is already in the queue.
LEMMA WaitPresentInv == PresentInv /\ (\E id \in Ids : WaitPresent(id)) => PresentInv'
<1> SUFFICES ASSUME PresentInv, NEW id \in Ids, WaitPresent(id) PROVE PresentInv'
  OBVIOUS
<1>1. /\ id \in callbacks
      /\ ~ (pc = "present" /\ id = presentId - 1)
      /\ callbacks' = callbacks \ {id}
      /\ waits' = waits \cup {[id |-> id, swapchain |-> swapchain]}
      /\ UNCHANGED << swapchain, presentId, pc, queue, engine, shown, waited >>
  BY DEF WaitPresent, drawing, device
<1>2. Upcoming' = Upcoming
  BY <1>1 DEF Upcoming
<1>3. id \in 0 .. Upcoming - 1
  BY <1>1 DEF PresentInv, WaitsInOrder, Upcoming
<1>4. WaitsInOrder'
  BY <1>1, <1>2, <1>3 DEF PresentInv, WaitsInOrder
<1> QED
  BY <1>1, <1>2, <1>4 DEF PresentInv, QueueInOrder, EngineInOrder

\* A wait ends: its present has been shown, its swapchain is gone, or it is
\* the first.
LEMMA PresentWaitedInv == PresentInv /\ (\E w \in waits : PresentWaited(w)) => PresentInv'
<1> SUFFICES ASSUME PresentInv, NEW w \in waits, PresentWaited(w) PROVE PresentInv'
  OBVIOUS
<1>1. /\ w.id = 0 \/ w.id <= shown \/ w.swapchain # swapchain
      /\ waits' = waits \ {w}
      /\ waited' = waited \cup {w.id}
      /\ UNCHANGED << swapchain, presentId, pc, queue, engine, shown, callbacks >>
  BY DEF PresentWaited, PresentKnown, drawing, device
<1>2. Upcoming' = Upcoming
  BY <1>1 DEF Upcoming
<1>3. w.id \in 0 .. Upcoming - 1
  BY DEF PresentInv, WaitsInOrder
<1>4. ASSUME NEW n \in 1 .. Len(queue), queue[n].index # None, queue[n].id # 0,
             queue[n].id = w.id
      PROVE  FALSE
  <2>1. w.swapchain = swapchain
    BY <1>4 DEF PresentInv, WaitsInOrder
  <2>2. shown < w.id /\ shown \in {None} \cup (0 .. Upcoming - 1)
    BY <1>4 DEF PresentInv, QueueInOrder
  <2> QED
    BY <1>1, <1>3, <1>4, <2>1, <2>2 DEF None
<1>5. \A n \in 1 .. Len(queue) :
        queue[n].index # None /\ queue[n].id # 0 => queue[n].id \notin waited'
  BY <1>1, <1>4 DEF PresentInv, WaitsInOrder
<1>6. WaitsInOrder'
  BY <1>1, <1>2, <1>3, <1>5 DEF PresentInv, WaitsInOrder
<1> QED
  BY <1>1, <1>2, <1>6 DEF PresentInv, QueueInOrder, EngineInOrder

LEMMA NextPresentInv == PresentInv /\ [Next]_vars => PresentInv'
<1> SUFFICES ASSUME PresentInv, [Next]_vars PROVE PresentInv'
  OBVIOUS
<1> USE DEF drawing, device
<1>1. CASE PrepareFrame \/ PrepareSet
  BY <1>1, QuietPresentInv DEF PrepareFrame, PrepareSet
<1>2. CASE SubmitPrepared
  <2> DEFINE b == [cmds |-> cmds, id |-> None, index |-> None]
  <2>1. /\ pc = "construct" /\ pc' = "idle" /\ queue' = Append(queue, b)
        /\ UNCHANGED << swapchain, presentId, engine, shown, waiting >>
    BY <1>2 DEF SubmitPrepared
  <2>2. b.index = None /\ b.id = None
    OBVIOUS
  <2>3. Upcoming' = Upcoming /\ presentId \in Nat
    BY <2>1 DEF Upcoming, PresentInv
  <2>4. presentId' = presentId /\ presentId <= presentId /\ b.id \in {None} \cup (0 .. presentId - 1)
    BY <2>1, <2>2, <2>3
  <2> HIDE DEF b
  <2> QED
    BY <2>1, <2>2, <2>3, <2>4, BatchPresentInv
<1>3. CASE SubmitDraw
  <2> DEFINE b == [cmds |-> cmds, id |-> PreparePresent.id, index |-> None]
  <2>1. /\ pc = "submit" /\ pc' = "present" /\ queue' = Append(queue, b)
        /\ presentId' = presentId + 1
        /\ UNCHANGED << swapchain, engine, shown, waiting >>
    BY <1>3 DEF SubmitDraw, PreparePresent
  <2>2. b.index = None /\ b.id = presentId
    BY DEF PreparePresent
  <2>3. presentId \in Nat
    BY DEF PresentInv
  <2>4. Upcoming' = Upcoming
    BY <2>1, <2>3 DEF Upcoming
  <2>5. b.id \in {None} \cup (0 .. (presentId + 1) - 1)
    BY <2>2, <2>3
  <2> HIDE DEF b
  <2>6. presentId + 1 \in Nat /\ presentId <= presentId + 1 /\ presentId + 1 > 0
    BY <2>3
  <2> QED
    BY <2>1, <2>2, <2>4, <2>5, <2>6, BatchPresentInv
<1>4. CASE \/ LockDraw \/ Acquire \/ Refuse \/ WaitForContext \/ DrawMainPass \/ ReadModel
           \/ BindModel \/ DrawCompute \/ DrawImgui \/ LockResize
  <2>1. /\ pc # "present" /\ pc' # "present"
        /\ UNCHANGED << swapchain, presentId, queue, engine, shown, waiting >>
    BY <1>4
    DEF LockDraw, Acquire, Refuse, WaitForContext, DrawMainPass, ReadModel, BindModel, DrawCompute,
        DrawImgui, LockResize
  <2> QED
    BY <2>1, QuietPresentInv
<1>5. CASE PresentDraw
  BY <1>5, PresentDrawPresentInv
<1>6. CASE LoadModel \/ UNCHANGED vars
  <2>1. UNCHANGED << swapchain, pc, presentId, queue, engine, shown, waiting >>
    BY <1>6 DEF LoadModel, BeginLoad, SetVertexInputState, StoreModel, vars
  <2>2. Upcoming' = Upcoming
    BY <2>1 DEF Upcoming
  <2> QED
    BY <2>1, <2>2 DEF PresentInv, QueueInOrder, EngineInOrder, WaitsInOrder, waiting
<1>7. CASE Resize
  BY <1>7, ResizePresentInv
<1>8. CASE Execute
  BY <1>8, ExecutePresentInv
<1>9. CASE Show
  BY <1>9, ShowPresentInv
<1>10. CASE \E id \in Ids : WaitPresent(id)
  BY <1>10, WaitPresentInv
<1>11. CASE \E w \in waits : PresentWaited(w)
  BY <1>11, PresentWaitedInv
<1> QED
  BY <1>1, <1>2, <1>3, <1>4, <1>5, <1>6, <1>7, <1>8, <1>9, <1>10, <1>11 DEF Next, Draw, Construct

LEMMA PresentInvMeans == PresentInv => SemaphoreOutlivesPresent
<1> SUFFICES ASSUME PresentInv PROVE SemaphoreOutlivesPresent
  OBVIOUS
<1>1. DOMAIN queue = 1 .. Len(queue)
  BY SeqLen DEF PresentInv, QueueInOrder
<1> QED
  BY <1>1 DEF PresentInv, WaitsInOrder, SemaphoreOutlivesPresent

\* No wait for a present is over, and no graphicsDoneSemaphore destroyed, while
\* the device has yet to execute that present: with any number of frames,
\* draws, resizes and callbacks under way.
THEOREM SemaphoreAlwaysOutlivesPresent == Spec => []SemaphoreOutlivesPresent
<1>1. PresentInv /\ [Next]_vars => PresentInv'
  BY NextPresentInv
<1> QED
  BY InitPresentInv, <1>1, PresentInvMeans, PTL DEF Spec
=============================================================================
