---------------------------- MODULE RecordingProofs ----------------------------
(***************************************************************************)
(* Proofs about what command buffers are recorded with: DescriptorSets,    *)
(* for any number of recording threads, loaders, bindings, elements and    *)
(* calls, and CommandPool, for any number of levels, arrays, buffers and   *)
(* submits.                                                                *)
(*                                                                         *)
(* A descriptor set in front does not move while a thread is about to bind *)
(* it, and one that command buffers may refer to is never written again.   *)
(* The data of bindings stay where their map entries say, and when the     *)
(* state is ready the front set has what was last asked for.               *)
(*                                                                         *)
(* Each array of command buffers is in one list of one pool; what records  *)
(* is somebody's; what waits for the device or is with it stays as it was  *)
(* recorded, and is executed in the order in which it was begun.           *)
(***************************************************************************)
EXTENDS DescriptorSets, CommandPool, SequenceTheorems, FiniteSetTheorems, WellFoundedInduction,
        TLAPS

------------------------------------------------------------------------------
(***************************************************************************)
(* DescriptorSets.                                                         *)
(***************************************************************************)

\* The permission a thread has at each place.
Permission ==
  [idle |-> "none", set |-> "writer", check |-> "upgrader", promote |-> "upgrader",
   update |-> "writer", bind |-> "reader"]

Places == DOMAIN Permission

PlaceTellsPermission ==
  /\ at \in [Users -> Places]
  /\ holds = [u \in Users |-> Permission[at[u]]]

\* A writer is alone, and an upgrader has readers beside it at most.
Exclusive ==
  \A u, v \in Users : u # v =>
    /\ holds[u] = "writer" => holds[v] = "none"
    /\ holds[u] = "upgrader" => holds[v] \in {"none", "reader"}

\* The order in which sets come to the front.
UpTo(s, t) == s[1] < t[1] \/ (s[1] = t[1] /\ s[2] <= t[2])

Fronts == (Nat \ {0}) \X (0 .. Capacity - 1)

BoundBehindFront ==
  /\ front \in Fronts
  /\ bound \subseteq Fronts
  /\ \A s \in bound : UpTo(s, front)

ContentsOfSets == contents = [s \in DescriptorSet |-> contents[s]]

Inv == PlaceTellsPermission /\ Exclusive /\ BoundBehindFront /\ ContentsOfSets

------------------------------------------------------------------------------
\* The actions of a recording thread and of one that sets data, on the lock and
\* the place only.
Moves(u, from, to) ==
  /\ at[u] = from
  /\ at' = [at EXCEPT ![u] = to]
  /\ holds' = [holds EXCEPT ![u] = Permission[to]]

LEMMA Permissions == \A p \in Places : Permission[p] \in {"none", "reader", "upgrader", "writer"}
BY DEF Places, Permission

\* A thread that moves in a way the lock allows leaves everyone with the
\* permission of their place, and the lock exclusive.
LEMMA MovesKeepLock ==
  ASSUME PlaceTellsPermission, Exclusive,
         NEW u \in Users, NEW from \in Places, NEW to \in Places, Moves(u, from, to),
         Permission[to] = "writer" =>
           \/ Permission[from] = "writer"
           \/ \A v \in Users \ {u} : holds[v] = "none",
         Permission[to] = "upgrader" =>
           \/ Permission[from] = "upgrader"
           \/ \A v \in Users \ {u} : holds[v] \in {"none", "reader"},
         Permission[to] = "reader" => Permission[from] \in {"upgrader", "writer", "reader"}
  PROVE  PlaceTellsPermission' /\ Exclusive'
<1>1. at' \in [Users -> Places]
  BY DEF Moves, PlaceTellsPermission
<1>2. holds' = [v \in Users |-> Permission[at'[v]]]
  BY DEF Moves, PlaceTellsPermission
<1>3. ASSUME NEW v \in Users, NEW w \in Users, v # w
      PROVE  /\ holds'[v] = "writer" => holds'[w] = "none"
             /\ holds'[v] = "upgrader" => holds'[w] \in {"none", "reader"}
  <2>1. /\ v # u => holds'[v] = holds[v]
        /\ w # u => holds'[w] = holds[w]
        /\ holds'[u] = Permission[to]
        /\ holds[u] = Permission[from]
    BY DEF Moves, PlaceTellsPermission
  <2>2. CASE v = u
    BY <2>1, <2>2, <1>3 DEF Exclusive
  <2>3. CASE w = u
    BY <2>1, <2>3, <1>3, Permissions DEF Exclusive
  <2>4. CASE v # u /\ w # u
    BY <2>1, <2>4, <1>3 DEF Exclusive
  <2> QED
    BY <2>2, <2>3, <2>4
<1> QED
  BY <1>1, <1>2, <1>3 DEF PlaceTellsPermission, Exclusive

\* The next set comes behind every set that was in front so far.
LEMMA NextSetIsNew ==
  ASSUME BoundBehindFront
  PROVE  /\ NextSet \in Fronts
         /\ UpTo(front, NextSet)
         /\ \A s \in bound : s # NextSet /\ UpTo(s, NextSet)
<1>1. PICK a \in Nat \ {0}, i \in 0 .. Capacity - 1 : front = <<a, i>>
  BY DEF BoundBehindFront, Fronts
<1>2. NextSet = IF i = Capacity - 1 THEN <<a + 1, 0>> ELSE <<a, i + 1>>
  BY <1>1 DEF NextSet
<1>3. NextSet \in Fronts
  BY <1>2, SizesAssumption DEF Fronts
<1>4. UpTo(front, NextSet)
  BY <1>1, <1>2, SizesAssumption DEF UpTo
<1>5. ASSUME NEW s \in bound PROVE s # NextSet /\ UpTo(s, NextSet)
  <2>1. PICK b \in Nat \ {0}, j \in 0 .. Capacity - 1 : s = <<b, j>>
    BY DEF BoundBehindFront, Fronts
  <2>2. b < a \/ (b = a /\ j <= i)
    BY <1>1, <2>1 DEF BoundBehindFront, UpTo
  <2> QED
    BY <1>2, <2>1, <2>2, SizesAssumption DEF UpTo
<1> QED
  BY <1>3, <1>4, <1>5

------------------------------------------------------------------------------
LEMMA InitInv == Init => Inv
<1> SUFFICES ASSUME Init PROVE Inv
  OBVIOUS
<1>1. PlaceTellsPermission
  BY DEF Init, Lock!Init, PlaceTellsPermission, Places, Permission
<1>2. Exclusive
  BY DEF Init, Lock!Init, Exclusive
<1>3. BoundBehindFront
  BY SizesAssumption DEF Init, BoundBehindFront, Fronts
<1>4. ContentsOfSets
  BY DEF Init, ContentsOfSets
<1> QED
  BY <1>1, <1>2, <1>3, <1>4 DEF Inv

\* A step that leaves front, bound and contents alone keeps what is known of them.
LEMMA SetsUnchanged ==
  ASSUME BoundBehindFront, ContentsOfSets, UNCHANGED <<setVars, bound>>
  PROVE  BoundBehindFront' /\ ContentsOfSets'
BY DEF BoundBehindFront, ContentsOfSets, setVars

\* Every action moves one thread from a place to the next in a way the lock
\* allows, and what it does to the sets is nothing, an update, or a bind.
LEMMA NextInv == Inv /\ [Next]_vars => Inv'
<1> SUFFICES ASSUME Inv, [Next]_vars PROVE Inv'
  OBVIOUS
<1> USE DEF Inv
<1>1. Recorders \subseteq Users
  BY DEF Users
<1>2. ASSUME NEW u \in Users, LockSet(u) PROVE Inv'
  <2>1. Moves(u, "idle", "set")
    BY <1>2 DEF LockSet, Go, Moves, Permission, Lock!AcquireExclusive, Lock!Grant
  <2>2. \A v \in Users \ {u} : holds[v] = "none"
    BY <1>2 DEF LockSet, Lock!AcquireExclusive, Lock!Others
  <2>3. PlaceTellsPermission' /\ Exclusive'
    BY <2>1, <2>2, MovesKeepLock DEF Places, Permission
  <2> QED
    BY <2>3, <1>2, SetsUnchanged DEF LockSet
<1>3. ASSUME NEW u \in Users, SetDescriptorData(u) PROVE Inv'
  <2>1. Moves(u, "set", "idle")
    BY <1>3 DEF SetDescriptorData, Go, Moves, Permission, Lock!Release, Lock!Grant
  <2>2. PlaceTellsPermission' /\ Exclusive'
    BY <2>1, MovesKeepLock DEF Places, Permission
  <2> QED
    BY <2>2, <1>3, SetsUnchanged DEF SetDescriptorData
<1>4. ASSUME NEW u \in Users, LockBind(u) PROVE Inv'
  <2>1. Moves(u, "idle", "check")
    BY <1>4 DEF LockBind, Go, Moves, Permission, Lock!AcquireUpgrade, Lock!Grant
  <2>2. \A v \in Users \ {u} : holds[v] \in {"none", "reader"}
    BY <1>4 DEF LockBind, Lock!AcquireUpgrade, Lock!Others
  <2>3. PlaceTellsPermission' /\ Exclusive'
    BY <2>1, <2>2, MovesKeepLock DEF Places, Permission
  <2> QED
    BY <2>3, <1>4, SetsUnchanged DEF LockBind
<1>5. ASSUME NEW u \in Users, TakeDirty(u) PROVE Inv'
  <2>1. holds[u] = "upgrader"
    BY <1>5 DEF TakeDirty, Go, PlaceTellsPermission, Permission
  <2>2. Moves(u, "check", "promote")
    BY <2>1, <1>5 DEF TakeDirty, Go, Moves, Permission, PlaceTellsPermission
  <2>3. PlaceTellsPermission' /\ Exclusive'
    BY <2>2, MovesKeepLock DEF Places, Permission
  <2> QED
    BY <2>3, <1>5, SetsUnchanged DEF TakeDirty
<1>6. ASSUME NEW u \in Users, SkipUpdate(u) PROVE Inv'
  <2>1. holds[u] = "upgrader"
    BY <1>6 DEF SkipUpdate, Go, PlaceTellsPermission, Permission
  <2>2. Moves(u, "check", "bind")
    BY <2>1, <1>6 DEF SkipUpdate, Go, Moves, Permission, Lock!Downgrade, Lock!Grant
  <2>3. PlaceTellsPermission' /\ Exclusive'
    BY <2>2, MovesKeepLock DEF Places, Permission
  <2> QED
    BY <2>3, <1>6, SetsUnchanged DEF SkipUpdate
<1>7. ASSUME NEW u \in Users, Promote(u) PROVE Inv'
  <2>1. Moves(u, "promote", "update")
    BY <1>7 DEF Promote, Go, Moves, Permission, Lock!AcquireExclusive, Lock!Grant
  <2>2. \A v \in Users \ {u} : holds[v] = "none"
    BY <1>7 DEF Promote, Lock!AcquireExclusive, Lock!Others
  <2>3. PlaceTellsPermission' /\ Exclusive'
    BY <2>1, <2>2, MovesKeepLock DEF Places, Permission
  <2> QED
    BY <2>3, <1>7, SetsUnchanged DEF Promote
<1>8. ASSUME NEW u \in Users, Update(u) PROVE Inv'
  <2>1. Moves(u, "update", "bind")
    BY <1>8 DEF Update, Go, Moves, Permission, Lock!Grant
  <2>2. PlaceTellsPermission' /\ Exclusive'
    BY <2>1, MovesKeepLock DEF Places, Permission
  <2>3. BoundBehindFront'
    BY <1>8, NextSetIsNew DEF Update, BoundBehindFront
  <2>4. ContentsOfSets'
    BY <1>8 DEF Update, ContentsOfSets
  <2> QED
    BY <2>2, <2>3, <2>4
<1>9. ASSUME NEW u \in Users, Bind(u) PROVE Inv'
  <2>1. Moves(u, "bind", "idle")
    BY <1>9 DEF Bind, Go, Moves, Permission, Lock!Release, Lock!Grant
  <2>2. PlaceTellsPermission' /\ Exclusive'
    BY <2>1, MovesKeepLock DEF Places, Permission
  <2>3. UpTo(front, front)
    BY DEF BoundBehindFront, Fronts, UpTo
  <2>4. BoundBehindFront'
    BY <1>9, <2>3 DEF Bind, BoundBehindFront, setVars
  <2>5. ContentsOfSets'
    BY <1>9 DEF Bind, ContentsOfSets, setVars
  <2> QED
    BY <2>2, <2>4, <2>5
<1>10. CASE UNCHANGED vars
  BY <1>10 DEF vars, setVars, PlaceTellsPermission, Exclusive, BoundBehindFront, ContentsOfSets
<1> QED
  BY <1>1, <1>2, <1>3, <1>4, <1>5, <1>6, <1>7, <1>8, <1>9, <1>10 DEF Next

------------------------------------------------------------------------------
\* Whatever is called and however the threads take turns, a thread's place says
\* which permission it has, the lock is exclusive, and no set that is bound has
\* been in front of the one in front.
THEOREM Invariance == Spec => []Inv
<1>1. Inv /\ [Next]_vars => Inv'
  BY NextInv
<1> QED
  BY <1>1, InitInv, PTL DEF Spec

\* The set a thread is about to bind stays in front until it has: only an update
\* moves the front, and it takes a writer, who has no reader beside him.
THEOREM FrontHeld == Spec => FrontStaysWhileBound
<1>1. ASSUME Inv, [Next]_vars PROVE (\E u \in Users : at[u] = "bind") => front' = front
  <2> SUFFICES ASSUME NEW u \in Users, at[u] = "bind", front' # front PROVE FALSE
    OBVIOUS
  <2>1. PICK v \in Recorders : Update(v)
    BY <1>1 DEF Next, vars, setVars, LockSet, SetDescriptorData, LockBind, TakeDirty, SkipUpdate,
                Promote, Bind
  <2>2. v \in Users /\ at[v] = "update"
    BY <2>1 DEF Update, Go, Users
  <2>3. holds[v] = "writer" /\ holds[u] = "reader" /\ u # v
    BY <2>2, <1>1 DEF Inv, PlaceTellsPermission, Permission
  <2> QED
    BY <2>2, <2>3, <1>1 DEF Inv, Exclusive
<1>2. Inv /\ [Next]_vars => [(\E u \in Users : at[u] = "bind") => front' = front]_vars
  BY <1>1
<1> QED
  BY <1>2, Invariance, PTL DEF Spec, FrontStaysWhileBound

\* A set that command buffers may refer to is never written again: only the set
\* behind all that have been in front is written.
THEOREM BoundKept == Spec => BoundNotRewritten
<1>1. ASSUME Inv, [Next]_vars, NEW s \in bound PROVE contents'[s] = contents[s]
  <2>1. CASE contents' = contents
    BY <2>1
  <2>2. CASE contents' # contents
    <3>1. PICK u \in Recorders : Update(u)
      BY <1>1, <2>2 DEF Next, vars, setVars, LockSet, SetDescriptorData, LockBind, TakeDirty,
                        SkipUpdate, Promote, Bind
    <3>2. contents' = [contents EXCEPT ![NextSet] = Written]
      BY <3>1 DEF Update
    <3>3. s # NextSet
      BY <1>1, NextSetIsNew DEF Inv
    <3>4. NextSet \in DescriptorSet
      BY <3>2, <2>2, <1>1 DEF Inv, ContentsOfSets
    <3>5. s \in Fronts /\ UpTo(s, NextSet)
      BY <1>1, NextSetIsNew DEF Inv, BoundBehindFront
    <3>6. s \in DescriptorSet
      BY <3>4, <3>5, SizesAssumption DEF Fronts, UpTo, DescriptorSet, Arrays
    <3> QED
      BY <3>2, <3>3, <3>6, <1>1 DEF Inv, ContentsOfSets
  <2> QED
    BY <2>1, <2>2
<1>2. Inv /\ [Next]_vars => [\A s \in bound : contents'[s] = contents[s]]_vars
  BY <1>1
<1> QED
  BY <1>2, Invariance, PTL DEF Spec, BoundNotRewritten

------------------------------------------------------------------------------
(***************************************************************************)
(* CommandPool, first what it takes from sequences.                        *)
(***************************************************************************)

\* A set of natural numbers with zero and with every successor has them all:
\* without them it would leave out a least one.
LEMMA Induct ==
  ASSUME NEW T \in SUBSET Nat, 0 \in T, \A n \in T : n + 1 \in T
  PROVE  T = Nat
<1> SUFFICES ASSUME Nat \ T # {} PROVE FALSE
  OBVIOUS
<1>1. \E x \in Nat \ T : \A y \in Nat \ T : ~ (<< y, x >> \in OpToRel(<, Nat))
  BY NatLessThanWellFounded, WFMin, Zenon
<1>2. PICK x \in Nat \ T : \A y \in Nat \ T : ~ (<< y, x >> \in OpToRel(<, Nat))
  BY <1>1
<1>3. ASSUME NEW y \in Nat \ T, y < x PROVE FALSE
  <2>1. << y, x >> \in Nat \X Nat /\ << y, x >>[1] < << y, x >>[2]
    BY <1>3
  <2>2. << y, x >> \in OpToRel(<, Nat)
    BY <2>1, Zenon DEF OpToRel
  <2> QED
    BY <1>2, <2>2
<1>4. x - 1 \in Nat /\ x - 1 < x /\ (x - 1) + 1 = x
  <2>1. x \in Nat /\ x # 0
    BY <1>2
  <2> QED
    BY <2>1
<1>5. x - 1 \in T
  BY <1>3, <1>4
<1> QED
  BY <1>2, <1>4, <1>5

------------------------------------------------------------------------------
(***************************************************************************)
(* What FlattenSeq computes: a function with the recursive equation exists *)
(* for every length, so the function that it chooses has the equation.     *)
(***************************************************************************)

Joined(a, b) == a \o b

JoinsThrough(q, n, g) == g = [k \in 1 .. n |-> IF k = 1 THEN q[k] ELSE Joined(g[k - 1], q[k])]

\* What FlattenSeq computes exists for any number of sequences.
LEMMA JoinsExist == ASSUME NEW q PROVE \A n \in Nat : \E g : JoinsThrough(q, n + 1, g)
<1> DEFINE T == {n \in Nat : \E g : JoinsThrough(q, n + 1, g)}
<1>1. 0 \in T
  <2>1. JoinsThrough(q, 0 + 1, [k \in 1 .. 1 |-> q[k]])
    BY DEF JoinsThrough
  <2> QED
    BY <2>1
<1>2. ASSUME NEW n \in T PROVE n + 1 \in T
  <2>1. PICK g : JoinsThrough(q, n + 1, g)
    OBVIOUS
  <2> DEFINE m == (n + 1) + 1
             h == [k \in 1 .. m |-> IF k = m THEN Joined(g[n + 1], q[m]) ELSE g[k]]
  <2>2. \A k \in 1 .. n + 1 : h[k] = g[k] /\ g[k] = IF k = 1 THEN q[k] ELSE Joined(g[k - 1], q[k])
    BY <2>1 DEF JoinsThrough
  <2>3. \A k \in 1 .. m : h[k] = IF k = 1 THEN q[k] ELSE Joined(h[k - 1], q[k])
    <3>1. n \in Nat /\ m # 1 /\ m - 1 = n + 1 /\ n + 1 \in 1 .. n + 1 /\ m \in 1 .. m
      OBVIOUS
    <3>2. h[m] = Joined(g[n + 1], q[m]) /\ h[n + 1] = g[n + 1]
      BY <2>2, <3>1
    <3> HIDE DEF m, h
    <3>3. \A k \in 1 .. m : k = m \/ (k \in 1 .. n + 1 /\ (k # 1 => k - 1 \in 1 .. n + 1))
      BY <3>1 DEF m
    <3> QED
      BY <2>2, <3>1, <3>2, <3>3
  <2>4. h = [k \in 1 .. m |-> IF k = 1 THEN q[k] ELSE Joined(h[k - 1], q[k])]
    BY <2>3
  <2>5. JoinsThrough(q, m, h)
    BY <2>4, Zenon DEF JoinsThrough
  <2> QED
    BY <2>5
<1> HIDE DEF T
<1>3. T = Nat
  <2>1. T \in SUBSET Nat
    BY DEF T
  <2> QED
    BY <1>1, <1>2, <2>1, Induct
<1> QED
  BY <1>3 DEF T

LEMMA FlattenIs ==
  ASSUME NEW S, NEW q \in Seq(Seq(S)), Len(q) # 0
  PROVE  \E g : /\ FlattenSeq(q) = g[Len(q)]
                /\ \A k \in 1 .. Len(q) : g[k] = IF k = 1 THEN q[k] ELSE Joined(g[k - 1], q[k])
<1> DEFINE g == CHOOSE f : JoinsThrough(q, Len(q), f)
<1>1. /\ Len(q) \in Nat \ {0} /\ Len(q) - 1 \in Nat /\ (Len(q) - 1) + 1 = Len(q)
  BY LenProperties
<1>2. JoinsThrough(q, Len(q), g)
  <2>1. \E f : JoinsThrough(q, (Len(q) - 1) + 1, f)
    BY <1>1, JoinsExist
  <2> QED
    BY <1>1, <2>1
<1>3. FlattenSeq(q) = g[Len(q)]
  BY Zenon DEF FlattenSeq, JoinsThrough, Joined
<1> HIDE DEF g
<1>4. \A k \in 1 .. Len(q) : g[k] = IF k = 1 THEN q[k] ELSE Joined(g[k - 1], q[k])
  BY <1>2 DEF JoinsThrough
<1> QED
  BY <1>3, <1>4

LEMMA FlattenNothing == FlattenSeq(<< >>) = << >>
BY EmptySeq DEF FlattenSeq

\* Sequences one after the other are a sequence of what is in them.
LEMMA FlattenTyped ==
  ASSUME NEW S, NEW q \in Seq(Seq(S))
  PROVE  FlattenSeq(q) \in Seq(S)
<1>1. CASE Len(q) = 0
  <2>1. q = << >>
    BY <1>1, EmptySeq
  <2> QED
    BY <2>1, FlattenNothing, EmptySeq
<1>2. CASE Len(q) # 0
  <2>1. PICK g : /\ FlattenSeq(q) = g[Len(q)]
                 /\ \A k \in 1 .. Len(q) : g[k] = IF k = 1 THEN q[k] ELSE Joined(g[k - 1], q[k])
    BY <1>2, FlattenIs
  <2>2. /\ Len(q) \in Nat \ {0} /\ Len(q) - 1 \in Nat /\ (Len(q) - 1) + 1 = Len(q)
        /\ \A k \in 1 .. Len(q) : q[k] \in Seq(S)
    BY <1>2
  <2> DEFINE T == {n \in Nat : n + 1 <= Len(q) => g[n + 1] \in Seq(S)}
  <2>3. 0 \in T
    BY <2>1, <2>2
  <2>4. ASSUME NEW n \in T PROVE n + 1 \in T
    <3>1. ASSUME (n + 1) + 1 <= Len(q) PROVE g[(n + 1) + 1] \in Seq(S)
      <4>1. /\ n + 1 <= Len(q) /\ (n + 1) + 1 \in 1 .. Len(q)
            /\ (n + 1) + 1 # 1 /\ ((n + 1) + 1) - 1 = n + 1
        BY <2>2, <3>1
      <4>2. g[(n + 1) + 1] = Joined(g[n + 1], q[(n + 1) + 1])
        BY <2>1, <4>1
      <4>3. g[n + 1] \in Seq(S) /\ q[(n + 1) + 1] \in Seq(S)
        BY <2>2, <4>1
      <4>4. Joined(g[n + 1], q[(n + 1) + 1]) \in Seq(S)
        BY <4>3, ConcatProperties DEF Joined
      <4> QED
        BY <4>2, <4>4
    <3> QED
      BY <3>1
  <2> HIDE DEF T
  <2>5. T = Nat
    <3>1. T \in SUBSET Nat
      BY DEF T
    <3> QED
      BY <2>3, <2>4, <3>1, Induct
  <2>6. g[(Len(q) - 1) + 1] \in Seq(S)
    <3>1. Len(q) - 1 \in T /\ (Len(q) - 1) + 1 <= Len(q)
      BY <2>2, <2>5
    <3> QED
      BY <3>1 DEF T
  <2> QED
    BY <2>1, <2>2, <2>6
<1> QED
  BY <1>1, <1>2

LEMMA FlattenAppend ==
  ASSUME NEW S, NEW q \in Seq(Seq(S)), NEW x \in Seq(S)
  PROVE  FlattenSeq(Append(q, x)) = FlattenSeq(q) \o x
<1> DEFINE r == Append(q, x)
<1>1. /\ r \in Seq(Seq(S)) /\ Len(r) = Len(q) + 1 /\ r[Len(q) + 1] = x
      /\ \A k \in 1 .. Len(q) : r[k] = q[k]
  BY AppendProperties
<1>2. Len(q) \in Nat
  BY LenProperties
<1> HIDE DEF r
<1>3. PICK h : /\ FlattenSeq(r) = h[Len(r)]
               /\ \A k \in 1 .. Len(r) : h[k] = IF k = 1 THEN r[k] ELSE Joined(h[k - 1], r[k])
  <2>1. Len(r) # 0
    BY <1>1, <1>2
  <2> QED
    BY <1>1, <2>1, FlattenIs
<1>4. CASE Len(q) = 0
  <2>1. q = << >>
    BY <1>4, EmptySeq
  <2>2. Len(r) = 1 /\ r[1] = x /\ h[1] = r[1]
    BY <1>1, <1>3, <1>4
  <2>3. FlattenSeq(q) \o x = x
    BY <2>1, FlattenNothing, ConcatEmptySeq
  <2> QED
    BY <1>3, <2>2, <2>3 DEF r
<1>5. CASE Len(q) # 0
  <2>1. PICK g : /\ FlattenSeq(q) = g[Len(q)]
                 /\ \A k \in 1 .. Len(q) : g[k] = IF k = 1 THEN q[k] ELSE Joined(g[k - 1], q[k])
    BY <1>5, FlattenIs
  <2> DEFINE T == {n \in Nat : n + 1 <= Len(q) => g[n + 1] = h[n + 1]}
  <2>2. 0 \in T
    <3>1. 0 + 1 = 1 /\ 1 \in 1 .. Len(q) /\ 1 \in 1 .. Len(r)
      BY <1>1, <1>2, <1>5
    <3> QED
      BY <1>1, <1>3, <2>1, <3>1
  <2>3. ASSUME NEW n \in T PROVE n + 1 \in T
    <3>1. ASSUME (n + 1) + 1 <= Len(q) PROVE g[(n + 1) + 1] = h[(n + 1) + 1]
      <4>1. /\ n + 1 <= Len(q) /\ (n + 1) + 1 \in 1 .. Len(q) /\ (n + 1) + 1 \in 1 .. Len(r)
            /\ (n + 1) + 1 # 1 /\ ((n + 1) + 1) - 1 = n + 1
        BY <1>1, <1>2, <3>1
      <4>2. g[(n + 1) + 1] = Joined(g[n + 1], q[(n + 1) + 1])
        BY <2>1, <4>1
      <4>3. h[(n + 1) + 1] = Joined(h[n + 1], r[(n + 1) + 1])
        BY <1>3, <4>1
      <4>4. g[n + 1] = h[n + 1] /\ q[(n + 1) + 1] = r[(n + 1) + 1]
        BY <1>1, <4>1
      <4> QED
        BY <4>2, <4>3, <4>4
    <3> QED
      BY <3>1
  <2> HIDE DEF T
  <2>4. T = Nat
    <3>1. T \in SUBSET Nat
      BY DEF T
    <3> QED
      BY <2>2, <2>3, <3>1, Induct
  <2>5. g[Len(q)] = h[Len(q)]
    <3>1. Len(q) - 1 \in T /\ (Len(q) - 1) + 1 = Len(q)
      BY <1>2, <1>5, <2>4
    <3>2. g[(Len(q) - 1) + 1] = h[(Len(q) - 1) + 1]
      BY <1>2, <3>1 DEF T
    <3> QED
      BY <3>1, <3>2
  <2>6. h[Len(r)] = Joined(h[Len(q)], x)
    <3>1. /\ Len(r) \in 1 .. Len(r) /\ Len(r) # 1 /\ Len(r) - 1 = Len(q)
          /\ r[Len(r)] = x
      BY <1>1, <1>2, <1>5
    <3> QED
      BY <1>3, <3>1
  <2>7. FlattenSeq(r) = FlattenSeq(q) \o x
    BY <1>3, <2>1, <2>5, <2>6 DEF Joined
  <2> QED
    BY <2>7 DEF r
<1> QED
  BY <1>4, <1>5

------------------------------------------------------------------------------
(***************************************************************************)
(* The buffers of a list of arrays, for any heads: those of the arrays one *)
(* after the other.                                                        *)
(***************************************************************************)

Among(x, list) == \E k \in 1 .. Len(list) : list[k] = x

\* The buffers of one array.
Buffered(a, h) == [n \in 1 .. h |-> <<a, n - 1>>]

BufferedEach(list, heads) == [k \in DOMAIN list |-> [n \in 1 .. heads[list[k]] |-> <<list[k], n - 1>>]]

BufferedAll(list, heads) == FlattenSeq(BufferedEach(list, heads))

\* The buffers that may be in it.
BuffersIn(list, heads) == {b \in Buffers : Among(b[1], list) /\ b[2] < heads[b[1]]}

Heads == [BufferArrays -> Indices]

LEMMA AmongSet ==
  ASSUME NEW S, NEW list \in Seq(S), NEW x
  PROVE  x \in ToSet(list) <=> Among(x, list)
<1>1. DOMAIN list = 1 .. Len(list)
  BY LenProperties
<1> QED
  BY <1>1, Zenon DEF ToSet, Among

LEMMA AmongAppend ==
  ASSUME NEW S, NEW list \in Seq(S), NEW x \in S, NEW y
  PROVE  Among(y, Append(list, x)) <=> Among(y, list) \/ y = x
<1>1. /\ Len(Append(list, x)) = Len(list) + 1
      /\ \A k \in 1 .. Len(list) : Append(list, x)[k] = list[k]
      /\ Append(list, x)[Len(list) + 1] = x
  BY AppendProperties
<1>2. Len(list) \in Nat
  BY LenProperties
<1> QED
  BY <1>1, <1>2 DEF Among

LEMMA HeadsAre ==
  ASSUME NEW heads \in Heads, NEW a \in BufferArrays
  PROVE  heads[a] \in Nat /\ heads[a] < ArrayCapacity
BY BoundsAssumption DEF Heads, Indices

LEMMA BufferedTyped ==
  ASSUME NEW list \in Seq(BufferArrays), NEW heads \in Heads, NEW a \in BufferArrays,
         NEW h \in Nat, h <= heads[a], Among(a, list)
  PROVE  Buffered(a, h) \in Seq(BuffersIn(list, heads)) /\ Len(Buffered(a, h)) = h
<1>1. heads[a] \in Nat /\ heads[a] < ArrayCapacity /\ ArrayCapacity \in Nat
  BY HeadsAre, BoundsAssumption
<1>2. ASSUME NEW n \in 1 .. h PROVE <<a, n - 1>> \in BuffersIn(list, heads)
  <2>1. n - 1 \in Indices /\ n - 1 < heads[a]
    BY <1>1 DEF Indices
  <2>2. <<a, n - 1>> \in Buffers
    BY <2>1 DEF Buffers
  <2> QED
    BY <2>1, <2>2 DEF BuffersIn
<1>3. Buffered(a, h) \in [1 .. h -> BuffersIn(list, heads)]
  BY <1>2 DEF Buffered
<1> QED
  BY <1>3

LEMMA EachTyped ==
  ASSUME NEW list \in Seq(BufferArrays), NEW heads \in Heads
  PROVE  /\ BufferedEach(list, heads) \in Seq(Seq(BuffersIn(list, heads)))
         /\ Len(BufferedEach(list, heads)) = Len(list)
         /\ \A k \in 1 .. Len(list) : BufferedEach(list, heads)[k] = Buffered(list[k], heads[list[k]])
<1>1. DOMAIN list = 1 .. Len(list) /\ Len(list) \in Nat
  BY LenProperties
<1>2. ASSUME NEW k \in 1 .. Len(list)
      PROVE  Buffered(list[k], heads[list[k]]) \in Seq(BuffersIn(list, heads))
  <2>1. list[k] \in BufferArrays /\ Among(list[k], list)
    BY ElementOfSeq DEF Among
  <2>2. heads[list[k]] \in Nat
    BY <2>1, HeadsAre
  <2> QED
    BY <2>1, <2>2, BufferedTyped
<1>3. \A k \in 1 .. Len(list) : BufferedEach(list, heads)[k] = Buffered(list[k], heads[list[k]])
  BY <1>1 DEF BufferedEach, Buffered
<1>4. BufferedEach(list, heads) \in [1 .. Len(list) -> Seq(BuffersIn(list, heads))]
  <2>1. BufferedEach(list, heads) = [k \in 1 .. Len(list) |-> Buffered(list[k], heads[list[k]])]
    BY <1>1, Zenon DEF BufferedEach, Buffered
  <2> QED
    BY <1>2, <2>1
<1> QED
  BY <1>1, <1>3, <1>4

LEMMA AllTyped ==
  ASSUME NEW list \in Seq(BufferArrays), NEW heads \in Heads
  PROVE  BufferedAll(list, heads) \in Seq(BuffersIn(list, heads))
BY EachTyped, FlattenTyped DEF BufferedAll

LEMMA AllOfNothing == ASSUME NEW heads PROVE BufferedAll(<< >>, heads) = << >>
<1>1. BufferedEach(<< >>, heads) = << >>
  BY DEF BufferedEach
<1> QED
  BY <1>1, FlattenNothing DEF BufferedAll

\* An array more has its buffers behind those of the others.
LEMMA AllOfMore ==
  ASSUME NEW list \in Seq(BufferArrays), NEW a \in BufferArrays, NEW heads \in Heads
  PROVE  BufferedAll(Append(list, a), heads) = BufferedAll(list, heads) \o Buffered(a, heads[a])
<1> DEFINE more == Append(list, a)
           S == BuffersIn(more, heads)
<1>1. /\ more \in Seq(BufferArrays) /\ Len(more) = Len(list) + 1 /\ more[Len(list) + 1] = a
      /\ \A k \in 1 .. Len(list) : more[k] = list[k]
  BY AppendProperties
<1>2. Len(list) \in Nat
  BY LenProperties
<1>3. BuffersIn(list, heads) \subseteq S
  BY AmongAppend DEF BuffersIn
<1>4. Among(a, more)
  BY <1>1, <1>2 DEF Among
<1> HIDE DEF more
<1>5. /\ BufferedEach(more, heads) \in Seq(Seq(S)) /\ Len(BufferedEach(more, heads)) = Len(list) + 1
      /\ \A k \in 1 .. Len(list) + 1 : BufferedEach(more, heads)[k] = Buffered(more[k], heads[more[k]])
  BY <1>1, EachTyped
<1>6. /\ BufferedEach(list, heads) \in Seq(Seq(BuffersIn(list, heads)))
      /\ Len(BufferedEach(list, heads)) = Len(list)
      /\ \A k \in 1 .. Len(list) : BufferedEach(list, heads)[k] = Buffered(list[k], heads[list[k]])
  BY EachTyped
<1> HIDE DEF S
<1>7. BufferedEach(list, heads) \in Seq(Seq(S))
  <2>1. Seq(BuffersIn(list, heads)) \subseteq Seq(S)
    BY <1>3, SeqMonotonic
  <2> QED
    BY <1>6, <2>1, SeqMonotonic
<1>8. Buffered(a, heads[a]) \in Seq(S)
  <2>1. heads[a] \in Nat
    BY HeadsAre
  <2> QED
    BY <1>1, <1>4, <2>1, BufferedTyped DEF S
<1>9. BufferedEach(more, heads) = Append(BufferedEach(list, heads), Buffered(a, heads[a]))
  <2> DEFINE r == Append(BufferedEach(list, heads), Buffered(a, heads[a]))
  <2>1. /\ r \in Seq(Seq(S)) /\ Len(r) = Len(list) + 1 /\ r[Len(list) + 1] = Buffered(a, heads[a])
        /\ \A k \in 1 .. Len(list) : r[k] = BufferedEach(list, heads)[k]
    BY <1>6, <1>7, <1>8, AppendProperties
  <2> HIDE DEF r
  <2>2. ASSUME NEW k \in 1 .. Len(list) + 1 PROVE BufferedEach(more, heads)[k] = r[k]
    <3>1. CASE k = Len(list) + 1
      BY <1>1, <1>5, <2>1, <3>1
    <3>2. CASE k # Len(list) + 1
      <4>1. k \in 1 .. Len(list)
        BY <1>2, <3>2
      <4>2. BufferedEach(more, heads)[k] = Buffered(list[k], heads[list[k]])
        BY <1>1, <1>5, <4>1
      <4> QED
        BY <1>6, <2>1, <4>1, <4>2
    <3> QED
      BY <3>1, <3>2
  <2>3. BufferedEach(more, heads) = r
    BY <1>5, <2>1, <2>2, SeqEqual
  <2> QED
    BY <2>3 DEF r
<1>10. FlattenSeq(Append(BufferedEach(list, heads), Buffered(a, heads[a])))
         = FlattenSeq(BufferedEach(list, heads)) \o Buffered(a, heads[a])
  BY <1>7, <1>8, FlattenAppend
<1> QED
  BY <1>9, <1>10 DEF BufferedAll, more

\* Heads of other arrays do not matter.
LEMMA AllSame ==
  ASSUME NEW list \in Seq(BufferArrays), NEW heads, NEW later,
         \A a \in BufferArrays : Among(a, list) => later[a] = heads[a]
  PROVE  BufferedAll(list, later) = BufferedAll(list, heads)
<1>1. \A k \in DOMAIN list : later[list[k]] = heads[list[k]]
  <2>1. \A k \in DOMAIN list : list[k] \in BufferArrays /\ Among(list[k], list)
    BY LenProperties, ElementOfSeq DEF Among
  <2> QED
    BY <2>1
<1>2. BufferedEach(list, later) = BufferedEach(list, heads)
  BY <1>1, Zenon DEF BufferedEach
<1> QED
  BY <1>2 DEF BufferedAll

\* The next buffer of an array comes behind the others.
LEMMA BufferedNext ==
  ASSUME NEW list \in Seq(BufferArrays), NEW heads \in Heads, NEW a \in BufferArrays,
         NEW h \in Nat, h < heads[a], Among(a, list)
  PROVE  Buffered(a, h + 1) = Append(Buffered(a, h), <<a, h>>)
<1> DEFINE S == BuffersIn(list, heads)
<1>1. heads[a] \in Nat
  BY HeadsAre
<1>2. Buffered(a, h) \in Seq(S) /\ Len(Buffered(a, h)) = h
  BY <1>1, BufferedTyped
<1>3. Buffered(a, h + 1) \in Seq(S) /\ Len(Buffered(a, h + 1)) = h + 1
  <2>1. h + 1 \in Nat /\ h + 1 <= heads[a]
    BY <1>1
  <2> QED
    BY <2>1, BufferedTyped
<1>4. \A n \in 1 .. h + 1 : Buffered(a, h + 1)[n] = <<a, n - 1>>
  BY DEF Buffered
<1>5. \A n \in 1 .. h : Buffered(a, h)[n] = <<a, n - 1>>
  BY DEF Buffered
<1> HIDE DEF S
<1>6. <<a, h>> \in S
  <2>1. Buffered(a, h + 1)[h + 1] \in S
    BY <1>3, ElementOfSeq
  <2> QED
    BY <1>4, <2>1
<1>7. /\ Append(Buffered(a, h), <<a, h>>) \in Seq(S)
      /\ Len(Append(Buffered(a, h), <<a, h>>)) = h + 1
      /\ \A n \in 1 .. h : Append(Buffered(a, h), <<a, h>>)[n] = Buffered(a, h)[n]
      /\ Append(Buffered(a, h), <<a, h>>)[h + 1] = <<a, h>>
  BY <1>2, <1>6, AppendProperties
<1>8. \A n \in 1 .. h + 1 : Buffered(a, h + 1)[n] = Append(Buffered(a, h), <<a, h>>)[n]
  <2>1. \A n \in 1 .. h + 1 : n \in 1 .. h \/ n = h + 1
    OBVIOUS
  <2>2. <<a, (h + 1) - 1>> = <<a, h>>
    OBVIOUS
  <2> QED
    BY <1>4, <1>5, <1>7, <2>1, <2>2
<1> QED
  BY <1>3, <1>7, <1>8, SeqEqual

\* The list has one buffer more when its last array has, which is no other's.
LEMMA AllNext ==
  ASSUME NEW list \in Seq(BufferArrays), NEW a \in BufferArrays, NEW heads \in Heads,
         NEW later \in Heads, later = [heads EXCEPT ![a] = @ + 1], ~Among(a, list)
  PROVE  BufferedAll(Append(list, a), later) = Append(BufferedAll(list, heads) \o Buffered(a, heads[a]), <<a, heads[a]>>)
<1> DEFINE more == Append(list, a)
           S == BuffersIn(more, later)
           h == heads[a]
<1>1. more \in Seq(BufferArrays) /\ Among(a, more)
  BY AmongAppend, AppendProperties
<1>2. h \in Nat /\ later[a] = h + 1 /\ h + 1 \in Nat
  BY HeadsAre DEF Heads
<1>3. BufferedAll(more, later) = BufferedAll(list, later) \o Buffered(a, h + 1)
  BY <1>2, AllOfMore
<1>4. BufferedAll(list, later) = BufferedAll(list, heads)
  <2>1. \A c \in BufferArrays : Among(c, list) => later[c] = heads[c]
    BY DEF Heads
  <2> QED
    BY <2>1, AllSame
<1> HIDE DEF S, more, h
<1>5. Buffered(a, h + 1) = Append(Buffered(a, h), <<a, h>>)
  <2>1. h < later[a]
    BY <1>2
  <2> QED
    BY <1>1, <1>2, <2>1, BufferedNext
<1>6. Buffered(a, h) \in Seq(S) /\ Buffered(a, h + 1) \in Seq(S) /\ Len(Buffered(a, h + 1)) = h + 1
  <2>1. h <= later[a] /\ h + 1 <= later[a]
    BY <1>2
  <2> QED
    <3>1. Buffered(a, h) \in Seq(BuffersIn(more, later))
      BY <1>1, <1>2, <2>1, BufferedTyped
    <3>2. /\ Buffered(a, h + 1) \in Seq(BuffersIn(more, later))
          /\ Len(Buffered(a, h + 1)) = h + 1
      <4> DEFINE m == h + 1
      <4>1. m \in Nat /\ m <= later[a]
        BY <1>2, <2>1
      <4> HIDE DEF m
      <4>2. /\ Buffered(a, m) \in Seq(BuffersIn(more, later))
            /\ Len(Buffered(a, m)) = m
        BY <1>1, <4>1, BufferedTyped
      <4> QED
        BY <4>2 DEF m
    <3> QED
      BY <3>1, <3>2 DEF S
<1>7. BufferedAll(list, later) \in Seq(S)
  <2>1. BufferedAll(list, later) \in Seq(BuffersIn(list, later))
    BY AllTyped
  <2>2. BuffersIn(list, later) \subseteq S
    BY AmongAppend DEF BuffersIn, S, more
  <2> QED
    BY <2>1, <2>2, SeqMonotonic
<1>8. <<a, h>> \in S
  <2>1. Buffered(a, h + 1)[h + 1] = <<a, h>>
    BY <1>2 DEF Buffered
  <2>2. Buffered(a, h + 1)[h + 1] \in S
    BY <1>2, <1>6, ElementOfSeq
  <2> QED
    BY <2>1, <2>2
<1>9. BufferedAll(list, later) \o Append(Buffered(a, h), <<a, h>>)
        = Append(BufferedAll(list, later) \o Buffered(a, h), <<a, h>>)
  <2> DEFINE p == BufferedAll(list, later)
             q == Buffered(a, h)
             b == <<a, h>>
  <2>1. p \in Seq(S) /\ q \in Seq(S) /\ b \in S
    BY <1>6, <1>7, <1>8
  <2> HIDE DEF p, q, b
  <2>2. <<b>> \in Seq(S) /\ p \o q \in Seq(S)
    BY <2>1, ConcatProperties
  <2>3. Append(q, b) = q \o <<b>> /\ Append(p \o q, b) = (p \o q) \o <<b>>
    BY <2>1, <2>2, AppendIsConcat
  <2>4. (p \o q) \o <<b>> = p \o (q \o <<b>>)
    BY <2>1, <2>2, ConcatAssociative
  <2>5. p \o Append(q, b) = Append(p \o q, b)
    BY <2>3, <2>4
  <2> QED
    BY <2>5 DEF p, q, b
<1> QED
  BY <1>3, <1>4, <1>5, <1>9 DEF h, more

\* The buffers of a list in which an array is the last one, or in which it is
\* not while it has none, get one more with it.
LEMMA AllBegin ==
  ASSUME NEW list \in Seq(BufferArrays), NEW a \in BufferArrays, NEW heads \in Heads,
         NEW later \in Heads, later = [heads EXCEPT ![a] = @ + 1], ~Among(a, list)
  PROVE  /\ BufferedAll(Append(list, a), later)
              = Append(BufferedAll(Append(list, a), heads), <<a, heads[a]>>)
         /\ heads[a] = 0 => BufferedAll(Append(list, a), later)
              = Append(BufferedAll(list, heads), <<a, 0>>)
<1>1. BufferedAll(Append(list, a), later) = Append(BufferedAll(list, heads) \o Buffered(a, heads[a]), <<a, heads[a]>>)
  BY AllNext
<1>2. BufferedAll(Append(list, a), heads) = BufferedAll(list, heads) \o Buffered(a, heads[a])
  BY AllOfMore
<1>3. ASSUME heads[a] = 0 PROVE BufferedAll(list, heads) \o Buffered(a, heads[a]) = BufferedAll(list, heads)
  <2>1. Buffered(a, 0) = << >>
    BY DEF Buffered
  <2>2. BufferedAll(list, heads) \o << >> = BufferedAll(list, heads)
    BY AllTyped, ConcatEmptySeq
  <2> QED
    BY <1>3, <2>1, <2>2
<1> QED
  BY <1>1, <1>2, <1>3

------------------------------------------------------------------------------
(***************************************************************************)
(* Rows of buffers whose numbers follow one another.                       *)
(***************************************************************************)

Within(numbers, row, l, low, high) ==
  \A k \in 1 .. Len(row) : numbers[row[k]][1] = l => numbers[row[k]][2] \in low + 1 .. high

Rising(numbers, row, l) ==
  \A j, k \in 1 .. Len(row) :
    j < k /\ numbers[row[j]][1] = l /\ numbers[row[k]][1] = l => numbers[row[j]][2] < numbers[row[k]][2]

Complete(numbers, row, l, low, high) ==
  \A n \in low + 1 .. high : \E k \in 1 .. Len(row) : numbers[row[k]][1] = l /\ numbers[row[k]][2] = n

LEMMA ConsecutiveIs ==
  ASSUME NEW S, NEW row \in Seq(S), NEW numbers, NEW l, NEW low, NEW high
  PROVE  Consecutive(numbers, row, l, low, high)
           <=> Within(numbers, row, l, low, high) /\ Rising(numbers, row, l) /\ Complete(numbers, row, l, low, high)
<1>1. DOMAIN row = 1 .. Len(row)
  BY LenProperties
<1> QED
  BY <1>1, Zenon DEF Consecutive, Within, Rising, Complete

LEMMA ConsecutiveNothing ==
  ASSUME NEW numbers, NEW l, NEW n \in Nat
  PROVE  Consecutive(numbers, << >>, l, n, n)
BY DEF Consecutive

\* The elements of a row put together from two.
LEMMA Parts ==
  ASSUME NEW S, NEW row \in Seq(S), NEW more \in Seq(S)
  PROVE  /\ row \o more \in Seq(S)
         /\ \A k \in 1 .. Len(row) : k \in 1 .. Len(row \o more) /\ (row \o more)[k] = row[k]
         /\ \A k \in 1 .. Len(more) :
              Len(row) + k \in 1 .. Len(row \o more) /\ (row \o more)[Len(row) + k] = more[k]
         /\ \A k \in 1 .. Len(row \o more) :
              \/ k \in 1 .. Len(row) /\ (row \o more)[k] = row[k]
              \/ k - Len(row) \in 1 .. Len(more) /\ (row \o more)[k] = more[k - Len(row)]
<1>1. /\ row \o more \in Seq(S) /\ Len(row \o more) = Len(row) + Len(more)
      /\ \A k \in 1 .. Len(row) + Len(more) :
           (row \o more)[k] = IF k <= Len(row) THEN row[k] ELSE more[k - Len(row)]
  BY ConcatProperties
<1>2. Len(row) \in Nat /\ Len(more) \in Nat
  BY LenProperties
<1> QED
  BY <1>1, <1>2

LEMMA ConsecutiveMore ==
  ASSUME NEW S, NEW row \in Seq(S), NEW more \in Seq(S), NEW numbers, NEW l,
         NEW low \in Nat, NEW high \in Nat, low <= high,
         Consecutive(numbers, row, l, low, high),
         \A k \in 1 .. Len(more) : numbers[more[k]] = <<l, high + k>>
  PROVE  Consecutive(numbers, row \o more, l, low, high + Len(more))
<1> DEFINE both == row \o more
<1>1. both \in Seq(S) /\ Len(both) \in Nat /\ Len(row) \in Nat /\ Len(more) \in Nat
  BY Parts, LenProperties
<1>2. Within(numbers, row, l, low, high) /\ Rising(numbers, row, l) /\ Complete(numbers, row, l, low, high)
  BY ConsecutiveIs
<1>3. \A k \in 1 .. Len(both) :
        \/ k \in 1 .. Len(row) /\ both[k] = row[k]
        \/ /\ k - Len(row) \in 1 .. Len(more) /\ both[k] = more[k - Len(row)]
           /\ numbers[both[k]][2] = high + (k - Len(row))
  <2>1. ASSUME NEW k \in 1 .. Len(more) PROVE numbers[more[k]][2] = high + k
    <3>1. numbers[more[k]] = <<l, high + k>>
      OBVIOUS
    <3> QED
      BY <3>1
  <2> QED
    BY <2>1, Parts
<1>4. /\ \A k \in 1 .. Len(row) : k \in 1 .. Len(both) /\ both[k] = row[k]
      /\ \A k \in 1 .. Len(more) : Len(row) + k \in 1 .. Len(both) /\ both[Len(row) + k] = more[k]
  <2>1. \A k \in 1 .. Len(row) : k \in 1 .. Len(both) /\ both[k] = row[k]
    BY Parts
  <2>2. \A k \in 1 .. Len(more) : Len(row) + k \in 1 .. Len(both) /\ both[Len(row) + k] = more[k]
    BY Parts
  <2> QED
    BY <2>1, <2>2
<1> HIDE DEF both
<1>5. Within(numbers, both, l, low, high + Len(more))
  <2> SUFFICES ASSUME NEW k \in 1 .. Len(both), numbers[both[k]][1] = l
               PROVE  numbers[both[k]][2] \in low + 1 .. high + Len(more)
    BY DEF Within
  <2>1. CASE k \in 1 .. Len(row) /\ both[k] = row[k]
    BY <1>1, <1>2, <2>1 DEF Within
  <2>2. CASE k - Len(row) \in 1 .. Len(more) /\ numbers[both[k]][2] = high + (k - Len(row))
    BY <1>1, <2>2
  <2> QED
    BY <1>3, <2>1, <2>2
<1>6. Rising(numbers, both, l)
  <2> SUFFICES ASSUME NEW j \in 1 .. Len(both), NEW k \in 1 .. Len(both), j < k,
                      numbers[both[j]][1] = l, numbers[both[k]][1] = l
               PROVE  numbers[both[j]][2] < numbers[both[k]][2]
    BY DEF Rising
  <2>1. CASE k \in 1 .. Len(row) /\ both[k] = row[k]
    <3>1. j \in 1 .. Len(row) /\ both[j] = row[j]
      BY <1>1, <1>4, <2>1
    <3> QED
      BY <1>2, <2>1, <3>1 DEF Rising
  <2>2. CASE k - Len(row) \in 1 .. Len(more) /\ numbers[both[k]][2] = high + (k - Len(row))
    <3>1. CASE j \in 1 .. Len(row) /\ both[j] = row[j]
      <4>1. numbers[both[j]][2] \in low + 1 .. high
        BY <1>2, <3>1 DEF Within
      <4> QED
        BY <1>1, <2>2, <4>1
    <3>2. CASE j - Len(row) \in 1 .. Len(more) /\ numbers[both[j]][2] = high + (j - Len(row))
      BY <1>1, <2>2, <3>2
    <3> QED
      BY <1>3, <3>1, <3>2
  <2> QED
    BY <1>3, <2>1, <2>2
<1>7. Complete(numbers, both, l, low, high + Len(more))
  <2> SUFFICES ASSUME NEW n \in low + 1 .. high + Len(more)
               PROVE  \E k \in 1 .. Len(both) : numbers[both[k]][1] = l /\ numbers[both[k]][2] = n
    BY DEF Complete
  <2>1. CASE n <= high
    <3>1. n \in low + 1 .. high
      BY <2>1
    <3>2. PICK k \in 1 .. Len(row) : numbers[row[k]][1] = l /\ numbers[row[k]][2] = n
      BY <1>2, <3>1 DEF Complete
    <3> QED
      BY <1>4, <3>2
  <2>2. CASE n > high
    <3>1. n - high \in 1 .. Len(more) /\ high + (n - high) = n
      BY <1>1, <2>2
    <3>2. numbers[more[n - high]] = <<l, n>>
      BY <3>1
    <3>3. numbers[more[n - high]][1] = l /\ numbers[more[n - high]][2] = n
      BY <3>2
    <3>4. Len(row) + (n - high) \in 1 .. Len(both) /\ both[Len(row) + (n - high)] = more[n - high]
      BY <1>4, <3>1
    <3> QED
      BY <3>3, <3>4
  <2> QED
    BY <2>1, <2>2
<1>8. Consecutive(numbers, both, l, low, high + Len(more))
  BY <1>1, <1>5, <1>6, <1>7, ConsecutiveIs
<1> QED
  BY <1>8 DEF both

\* Buffers of another level do not matter.
LEMMA ConsecutiveOther ==
  ASSUME NEW S, NEW row \in Seq(S), NEW more \in Seq(S), NEW numbers, NEW l,
         NEW low, NEW high,
         Consecutive(numbers, row, l, low, high),
         \A k \in 1 .. Len(more) : numbers[more[k]][1] # l
  PROVE  Consecutive(numbers, row \o more, l, low, high)
<1> DEFINE both == row \o more
<1>1. both \in Seq(S)
  BY Parts
<1>2. Within(numbers, row, l, low, high) /\ Rising(numbers, row, l) /\ Complete(numbers, row, l, low, high)
  BY ConsecutiveIs
<1>3. \A k \in 1 .. Len(both) : numbers[both[k]][1] = l => k \in 1 .. Len(row) /\ both[k] = row[k]
  BY Parts
<1>4. \A k \in 1 .. Len(row) : k \in 1 .. Len(both) /\ both[k] = row[k]
  BY Parts
<1> HIDE DEF both
<1>5. Within(numbers, both, l, low, high)
  BY <1>2, <1>3 DEF Within
<1>6. Rising(numbers, both, l)
  BY <1>2, <1>3 DEF Rising
<1>7. Complete(numbers, both, l, low, high)
  BY <1>2, <1>4 DEF Complete
<1>8. Consecutive(numbers, both, l, low, high)
  BY <1>1, <1>5, <1>6, <1>7, ConsecutiveIs
<1> QED
  BY <1>8 DEF both

\* Numbers of other buffers do not matter.
LEMMA ConsecutiveSame ==
  ASSUME NEW S, NEW row \in Seq(S), NEW numbers, NEW later, NEW l, NEW low, NEW high,
         Consecutive(numbers, row, l, low, high),
         \A k \in 1 .. Len(row) : later[row[k]] = numbers[row[k]]
  PROVE  Consecutive(later, row, l, low, high)
<1>1. Within(numbers, row, l, low, high) /\ Rising(numbers, row, l) /\ Complete(numbers, row, l, low, high)
  BY ConsecutiveIs
<1>2. Within(later, row, l, low, high) /\ Rising(later, row, l) /\ Complete(later, row, l, low, high)
  BY <1>1 DEF Within, Rising, Complete
<1> QED
  BY <1>2, ConsecutiveIs

\* When the first of a row goes, its number is the next.
LEMMA ConsecutiveTail ==
  ASSUME NEW S, NEW row \in Seq(S), row # << >>, NEW numbers, NEW l,
         NEW low \in Nat, NEW high \in Nat,
         Consecutive(numbers, row, l, low, high)
  PROVE  /\ numbers[Head(row)][1] # l => Consecutive(numbers, Tail(row), l, low, high)
         /\ numbers[Head(row)][1] = l => low < high /\ Consecutive(numbers, Tail(row), l, low + 1, high)
<1>1. /\ Tail(row) \in Seq(S) /\ Len(Tail(row)) = Len(row) - 1 /\ Head(row) = row[1]
      /\ \A k \in 1 .. Len(Tail(row)) : Tail(row)[k] = row[k + 1]
      /\ Len(row) \in Nat /\ 1 \in 1 .. Len(row)
  BY HeadTailProperties, EmptySeq
<1>2. Within(numbers, row, l, low, high) /\ Rising(numbers, row, l) /\ Complete(numbers, row, l, low, high)
  BY ConsecutiveIs
<1> DEFINE rest == Tail(row)
<1>3. \A k \in 1 .. Len(rest) : k + 1 \in 1 .. Len(row) /\ rest[k] = row[k + 1]
  BY <1>1
<1>4. \A k \in 1 .. Len(row) : k = 1 \/ (k - 1 \in 1 .. Len(rest) /\ rest[k - 1] = row[k])
  BY <1>1
<1>5. rest \in Seq(S)
  BY <1>1
<1> HIDE DEF rest
<1>6. Within(numbers, rest, l, low, high) /\ Rising(numbers, rest, l)
  <2>1. Within(numbers, rest, l, low, high)
    BY <1>2, <1>3 DEF Within
  <2>2. Rising(numbers, rest, l)
    <3> SUFFICES ASSUME NEW j \in 1 .. Len(rest), NEW k \in 1 .. Len(rest), j < k,
                        numbers[rest[j]][1] = l, numbers[rest[k]][1] = l
                 PROVE  numbers[rest[j]][2] < numbers[rest[k]][2]
      BY DEF Rising
    <3>1. j + 1 \in 1 .. Len(row) /\ k + 1 \in 1 .. Len(row) /\ j + 1 < k + 1
      BY <1>3
    <3> QED
      BY <1>2, <1>3, <3>1 DEF Rising
  <2> QED
    BY <2>1, <2>2
<1>7. ASSUME numbers[Head(row)][1] # l PROVE Consecutive(numbers, rest, l, low, high)
  <2>1. Complete(numbers, rest, l, low, high)
    <3> SUFFICES ASSUME NEW n \in low + 1 .. high
                 PROVE  \E j \in 1 .. Len(rest) : numbers[rest[j]][1] = l /\ numbers[rest[j]][2] = n
      BY DEF Complete
    <3>1. PICK j \in 1 .. Len(row) : numbers[row[j]][1] = l /\ numbers[row[j]][2] = n
      BY <1>2 DEF Complete
    <3>2. j # 1
      BY <1>1, <1>7, <3>1
    <3> QED
      BY <1>4, <3>1, <3>2
  <2> QED
    BY <1>5, <1>6, <2>1, ConsecutiveIs
<1>8. ASSUME numbers[Head(row)][1] = l PROVE low < high /\ Consecutive(numbers, rest, l, low + 1, high)
  <2> DEFINE first == numbers[row[1]][2]
  <2>1. first \in low + 1 .. high
    BY <1>1, <1>2, <1>8 DEF Within
  <2>2. low + 1 \in low + 1 .. high /\ low < high
    BY <2>1
  <2>3. PICK k \in 1 .. Len(row) : numbers[row[k]][1] = l /\ numbers[row[k]][2] = low + 1
    BY <1>2, <2>2 DEF Complete
  <2>4. first = low + 1
    <3>1. ASSUME k # 1 PROVE first < low + 1
      <4>1. 1 < k
        BY <1>1, <3>1
      <4> QED
        BY <1>1, <1>2, <1>8, <2>3, <4>1 DEF Rising
    <3> QED
      BY <2>1, <2>3, <3>1
  <2>5. Within(numbers, rest, l, low + 1, high)
    <3> SUFFICES ASSUME NEW j \in 1 .. Len(rest), numbers[rest[j]][1] = l
                 PROVE  numbers[rest[j]][2] \in (low + 1) + 1 .. high
      BY DEF Within
    <3>1. j + 1 \in 1 .. Len(row) /\ 1 < j + 1 /\ rest[j] = row[j + 1]
      BY <1>3
    <3>2. first < numbers[row[j + 1]][2]
      BY <1>1, <1>2, <1>8, <3>1 DEF Rising
    <3>3. numbers[row[j + 1]][2] \in low + 1 .. high
      BY <1>2, <3>1 DEF Within
    <3> QED
      BY <2>4, <3>1, <3>2, <3>3
  <2>6. Complete(numbers, rest, l, low + 1, high)
    <3> SUFFICES ASSUME NEW n \in (low + 1) + 1 .. high
                 PROVE  \E j \in 1 .. Len(rest) : numbers[rest[j]][1] = l /\ numbers[rest[j]][2] = n
      BY DEF Complete
    <3>1. n \in low + 1 .. high /\ n # low + 1
      OBVIOUS
    <3>2. PICK j \in 1 .. Len(row) : numbers[row[j]][1] = l /\ numbers[row[j]][2] = n
      BY <1>2, <3>1 DEF Complete
    <3>3. j # 1
      BY <2>4, <3>1, <3>2
    <3> QED
      BY <1>4, <3>2, <3>3
  <2> QED
    BY <1>5, <1>6, <2>2, <2>5, <2>6, ConsecutiveIs
<1> QED
  BY <1>7, <1>8 DEF rest

------------------------------------------------------------------------------
(***************************************************************************)
(* The lists of arrays of all pools and levels, of one of the three kinds. *)
(***************************************************************************)

ArrayLists == [Slots -> Seq(BufferArrays)]

Holds(f, a) == \E s \in Slots : Among(a, f[s])

\* No array is in two places.
Once(f) ==
  \A s, t \in Slots : \A j \in 1 .. Len(f[s]), k \in 1 .. Len(f[t]) :
    f[s][j] = f[t][k] => s = t /\ j = k

Apart(f, g) == \A a \in BufferArrays : ~(Holds(f, a) /\ Holds(g, a))

LEMMA HeldIsArray ==
  ASSUME NEW f \in ArrayLists, NEW s \in Slots, NEW a, Among(a, f[s])
  PROVE  a \in BufferArrays /\ Holds(f, a)
<1>1. f[s] \in Seq(BufferArrays)
  BY DEF ArrayLists
<1>2. a \in BufferArrays
  BY <1>1, ElementOfSeq DEF Among
<1> QED
  BY <1>2 DEF Holds

WithArray(f, s, a) == [f EXCEPT ![s] = Append(@, a)]

LEMMA AppendToList ==
  ASSUME NEW f \in ArrayLists, NEW s \in Slots, NEW a \in BufferArrays,
         NEW g, g = WithArray(f, s, a)
  PROVE  /\ g \in ArrayLists
         /\ \A x : Holds(g, x) <=> Holds(f, x) \/ x = a
         /\ \A t \in Slots : \A x : Among(x, g[t]) <=> Among(x, f[t]) \/ (t = s /\ x = a)
         /\ Once(f) /\ ~Holds(f, a) => Once(g)
<1>1. /\ f[s] \in Seq(BufferArrays) /\ g[s] = Append(f[s], a)
      /\ \A t \in Slots : t # s => g[t] = f[t]
  BY DEF ArrayLists, WithArray
<1>2. /\ Append(f[s], a) \in Seq(BufferArrays) /\ Len(Append(f[s], a)) = Len(f[s]) + 1
      /\ \A k \in 1 .. Len(f[s]) : Append(f[s], a)[k] = f[s][k]
      /\ Append(f[s], a)[Len(f[s]) + 1] = a
      /\ Len(f[s]) \in Nat
  BY <1>1, AppendProperties, LenProperties
<1>3. g \in ArrayLists
  BY <1>2 DEF ArrayLists, WithArray
<1>4. \A x : Among(x, g[s]) <=> Among(x, f[s]) \/ x = a
  BY <1>1, AmongAppend
<1>5. \A t \in Slots : \A x : Among(x, g[t]) <=> Among(x, f[t]) \/ (t = s /\ x = a)
  BY <1>1, <1>4
<1>6. \A x : Holds(g, x) <=> Holds(f, x) \/ x = a
  BY <1>5 DEF Holds
<1>7. ASSUME Once(f), ~Holds(f, a) PROVE Once(g)
  <2>1. ASSUME NEW t \in Slots, NEW k \in 1 .. Len(g[t])
        PROVE  \/ k \in 1 .. Len(f[t]) /\ g[t][k] = f[t][k] /\ g[t][k] # a
               \/ t = s /\ k = Len(f[s]) + 1 /\ g[t][k] = a
    <3>1. CASE k \in 1 .. Len(f[t])
      <4>1. g[t][k] = f[t][k]
        BY <1>1, <1>2, <3>1
      <4>2. Holds(f, f[t][k])
        BY <3>1 DEF Holds, Among
      <4> QED
        BY <1>7, <3>1, <4>1, <4>2
    <3>2. CASE k \notin 1 .. Len(f[t])
      <4>1. t = s
        BY <1>1, <3>2
      <4>2. k = Len(f[s]) + 1
        BY <1>1, <1>2, <3>2, <4>1
      <4> QED
        BY <1>1, <1>2, <4>1, <4>2
    <3> QED
      BY <3>1, <3>2
  <2> SUFFICES ASSUME NEW t \in Slots, NEW u \in Slots, NEW j \in 1 .. Len(g[t]), NEW k \in 1 .. Len(g[u]),
                      g[t][j] = g[u][k]
               PROVE  t = u /\ j = k
    BY DEF Once
  <2>2. CASE g[t][j] = a
    BY <2>1, <2>2
  <2>3. CASE g[t][j] # a
    <3>1. /\ j \in 1 .. Len(f[t]) /\ k \in 1 .. Len(f[u])
          /\ f[t][j] = f[u][k]
      BY <2>1, <2>3
    <3> QED
      BY <1>7, <3>1 DEF Once
  <2> QED
    BY <2>2, <2>3
<1> QED
  BY <1>3, <1>5, <1>6, <1>7

LEMMA TakeFromList ==
  ASSUME NEW f \in ArrayLists, NEW s \in Slots, f[s] # << >>, Once(f),
         NEW g, g = [f EXCEPT ![s] = Tail(@)]
  PROVE  /\ g \in ArrayLists /\ Once(g)
         /\ Head(f[s]) \in BufferArrays /\ Among(Head(f[s]), f[s])
         /\ \A x : Holds(g, x) <=> Holds(f, x) /\ x # Head(f[s])
<1>1. /\ f[s] \in Seq(BufferArrays) /\ g[s] = Tail(f[s])
      /\ \A t \in Slots : t # s => g[t] = f[t]
  BY DEF ArrayLists
<1>2. /\ Tail(f[s]) \in Seq(BufferArrays) /\ Len(Tail(f[s])) = Len(f[s]) - 1 /\ Head(f[s]) = f[s][1]
      /\ \A k \in 1 .. Len(Tail(f[s])) : Tail(f[s])[k] = f[s][k + 1]
      /\ Len(f[s]) \in Nat /\ 1 \in 1 .. Len(f[s])
      /\ Head(f[s]) \in BufferArrays
  BY <1>1, HeadTailProperties, EmptySeq
<1>3. g \in ArrayLists
  BY <1>2 DEF ArrayLists
<1>4. Among(Head(f[s]), f[s])
  BY <1>2 DEF Among
<1>5. ASSUME NEW t \in Slots, NEW k \in 1 .. Len(g[t])
      PROVE  IF t = s THEN k + 1 \in 1 .. Len(f[t]) /\ g[t][k] = f[t][k + 1]
                      ELSE k \in 1 .. Len(f[t]) /\ g[t][k] = f[t][k]
  <2>1. CASE t = s
    <3>1. k \in 1 .. Len(Tail(f[s])) /\ g[t][k] = Tail(f[s])[k]
      BY <1>1, <2>1
    <3>2. k + 1 \in 1 .. Len(f[s])
      BY <1>2, <3>1
    <3> QED
      BY <1>2, <2>1, <3>1, <3>2
  <2>2. CASE t # s
    BY <1>1, <2>2
  <2> QED
    BY <2>1, <2>2
<1>6. Once(g)
  <2> SUFFICES ASSUME NEW t \in Slots, NEW u \in Slots, NEW j \in 1 .. Len(g[t]), NEW k \in 1 .. Len(g[u]),
                      g[t][j] = g[u][k]
               PROVE  t = u /\ j = k
    BY DEF Once
  <2> DEFINE p == IF t = s THEN j + 1 ELSE j
             q == IF u = s THEN k + 1 ELSE k
  <2>1. p \in 1 .. Len(f[t]) /\ q \in 1 .. Len(f[u]) /\ f[t][p] = f[u][q]
    BY <1>5
  <2>2. t = u /\ p = q
    <3> HIDE DEF p, q
    <3> QED
      BY <2>1 DEF Once
  <2> QED
    BY <2>2
<1>7. ASSUME NEW x, Holds(g, x) PROVE Holds(f, x) /\ x # Head(f[s])
  <2>0. PICK t \in Slots : Among(x, g[t])
    BY <1>7 DEF Holds
  <2>1. PICK k \in 1 .. Len(g[t]) : g[t][k] = x
    BY <2>0 DEF Among
  <2> DEFINE q == IF t = s THEN k + 1 ELSE k
  <2>2. q \in 1 .. Len(f[t]) /\ f[t][q] = x /\ (t = s => q # 1)
    BY <1>5, <2>1
  <2> HIDE DEF q
  <2>3. x = f[s][1] => t = s /\ q = 1
    BY <1>2, <2>2 DEF Once
  <2>4. Holds(f, x)
    BY <2>2 DEF Holds, Among
  <2> QED
    BY <1>2, <2>2, <2>3, <2>4
<1>8. ASSUME NEW x, Holds(f, x), x # Head(f[s]) PROVE Holds(g, x)
  <2>0. PICK t \in Slots : Among(x, f[t])
    BY <1>8 DEF Holds
  <2>1. PICK k \in 1 .. Len(f[t]) : f[t][k] = x
    BY <2>0 DEF Among
  <2>2. CASE t # s
    BY <1>1, <2>1, <2>2 DEF Holds, Among
  <2>3. CASE t = s
    <3>1. k # 1
      BY <1>2, <1>8, <2>1, <2>3
    <3>2. k - 1 \in 1 .. Len(Tail(f[s])) /\ (k - 1) + 1 = k
      BY <1>2, <2>1, <2>3, <3>1
    <3>3. Tail(f[s])[k - 1] = f[s][k]
      BY <1>2, <3>2
    <3> QED
      BY <1>1, <2>1, <2>3, <3>2, <3>3 DEF Holds, Among
  <2> QED
    BY <2>2, <2>3
<1> QED
  BY <1>2, <1>3, <1>4, <1>6, <1>7, <1>8

LEMMA AmongConcat ==
  ASSUME NEW S, NEW list \in Seq(S), NEW more \in Seq(S), NEW x
  PROVE  Among(x, list \o more) <=> Among(x, list) \/ Among(x, more)
<1>1. ASSUME Among(x, list) PROVE Among(x, list \o more)
  BY <1>1, Parts DEF Among
<1>2. ASSUME Among(x, more) PROVE Among(x, list \o more)
  BY <1>2, Parts DEF Among
<1>3. ASSUME Among(x, list \o more) PROVE Among(x, list) \/ Among(x, more)
  BY <1>3, Parts DEF Among
<1> QED
  BY <1>1, <1>2, <1>3

Merged(f, g, both) ==
  /\ \A u, v \in Slots : \A m \in 1 .. Len(f[u]), n \in 1 .. Len(g[v]) : f[u][m] # g[v][n]
  /\ \A u \in Slots : \A n \in 1 .. Len(both[u]) :
       \/ n \in 1 .. Len(f[u]) /\ both[u][n] = f[u][n]
       \/ \E m \in 1 .. Len(g[u]) : n = Len(f[u]) + m /\ both[u][n] = g[u][m]

LEMMA OnceOfBoth ==
  ASSUME NEW f, NEW g, NEW both, Once(f), Once(g), Merged(f, g, both)
  PROVE  Once(both)
<1> SUFFICES ASSUME NEW s \in Slots, NEW t \in Slots, NEW j \in 1 .. Len(both[s]), NEW k \in 1 .. Len(both[t]),
                    both[s][j] = both[t][k]
             PROVE  s = t /\ j = k
  BY DEF Once
<1>1. \/ k \in 1 .. Len(f[t]) /\ both[t][k] = f[t][k]
      \/ \E m \in 1 .. Len(g[t]) : k = Len(f[t]) + m /\ both[t][k] = g[t][m]
  BY DEF Merged
<1>2. \/ j \in 1 .. Len(f[s]) /\ both[s][j] = f[s][j]
      \/ \E m \in 1 .. Len(g[s]) : j = Len(f[s]) + m /\ both[s][j] = g[s][m]
  BY DEF Merged
<1>3. CASE j \in 1 .. Len(f[s]) /\ both[s][j] = f[s][j]
  <2>1. k \in 1 .. Len(f[t]) /\ f[s][j] = f[t][k]
    BY <1>1, <1>3 DEF Merged
  <2> QED
    BY <1>3, <2>1 DEF Once
<1>4. CASE \E m \in 1 .. Len(g[s]) : j = Len(f[s]) + m /\ both[s][j] = g[s][m]
  <2>1. PICK m \in 1 .. Len(g[s]) : j = Len(f[s]) + m /\ both[s][j] = g[s][m]
    BY <1>4
  <2>2. PICK n \in 1 .. Len(g[t]) : k = Len(f[t]) + n /\ both[t][k] = g[t][n]
    BY <1>1, <2>1 DEF Merged
  <2>3. g[s][m] = g[t][n]
    BY <2>1, <2>2
  <2>4. s = t /\ m = n
    BY <2>3 DEF Once
  <2> QED
    BY <2>1, <2>2, <2>4
<1> QED
  BY <1>2, <1>3, <1>4

\* The lists of one kind, in some slots, are spliced to those of another.
Longer(f, g, T) == [s \in Slots |-> IF s \in T THEN f[s] \o g[s] ELSE f[s]]

Emptied(g, T) == [s \in Slots |-> IF s \in T THEN << >> ELSE g[s]]

LEMMA Splice ==
  ASSUME NEW f \in ArrayLists, NEW g \in ArrayLists, NEW T \in SUBSET Slots,
         NEW f2, f2 = Longer(f, g, T), NEW g2, g2 = Emptied(g, T),
         Once(f), Once(g), Apart(f, g)
  PROVE  /\ f2 \in ArrayLists /\ g2 \in ArrayLists
         /\ Once(f2) /\ Once(g2) /\ Apart(f2, g2)
         /\ \A x : Holds(f2, x) <=> Holds(f, x) \/ \E s \in T : Among(x, g[s])
         /\ \A x : Holds(g2, x) <=> Holds(g, x) /\ ~(\E s \in T : Among(x, g[s]))
<1>0. /\ f2 = [s \in Slots |-> IF s \in T THEN f[s] \o g[s] ELSE f[s]]
      /\ g2 = [s \in Slots |-> IF s \in T THEN << >> ELSE g[s]]
  BY DEF Longer, Emptied
<1>1. \A s \in Slots : f[s] \in Seq(BufferArrays) /\ g[s] \in Seq(BufferArrays)
  BY DEF ArrayLists
<1>2. \A s \in Slots : f[s] \o g[s] \in Seq(BufferArrays)
  BY <1>1, ConcatProperties
<1>3. f2 \in ArrayLists
  BY <1>0, <1>1, <1>2 DEF ArrayLists
<1>4. g2 \in ArrayLists
  BY <1>0, <1>1 DEF ArrayLists
<1>5. \A s \in Slots : \A x : Among(x, f[s] \o g[s]) <=> Among(x, f[s]) \/ Among(x, g[s])
  BY <1>1, AmongConcat
<1>6. \A s \in Slots : \A x : Among(x, f2[s]) <=> Among(x, f[s]) \/ (s \in T /\ Among(x, g[s]))
  BY <1>0, <1>5
<1>7. \A x : ~Among(x, << >>)
  BY DEF Among
<1>8. \A s \in Slots : \A x : Among(x, g2[s]) <=> s \notin T /\ Among(x, g[s])
  BY <1>0, <1>7
<1>9. \A x : Holds(f2, x) <=> Holds(f, x) \/ \E s \in T : Among(x, g[s])
  BY <1>6 DEF Holds
<1>10. ASSUME NEW x, NEW s \in Slots, NEW t \in Slots, Among(x, g[s]), Among(x, g[t]) PROVE s = t
  BY <1>10 DEF Once, Among
<1>11. \A x : Holds(g2, x) <=> Holds(g, x) /\ ~(\E s \in T : Among(x, g[s]))
  BY <1>8, <1>10 DEF Holds
<1>12. Apart(f2, g2)
  BY <1>9, <1>11 DEF Apart
<1>13. Once(g2)
  <2> SUFFICES ASSUME NEW s \in Slots, NEW t \in Slots, NEW j \in 1 .. Len(g2[s]), NEW k \in 1 .. Len(g2[t]),
                      g2[s][j] = g2[t][k]
               PROVE  s = t /\ j = k
    BY DEF Once
  <2>1. s \notin T /\ t \notin T
    BY <1>8 DEF Among
  <2>2. g2[s] = g[s] /\ g2[t] = g[t]
    BY <1>0, <2>1
  <2> QED
    BY <2>2 DEF Once
<1>14. Once(f2)
  <2>1. ASSUME NEW u \in Slots, NEW n \in 1 .. Len(f2[u])
        PROVE  \/ n \in 1 .. Len(f[u]) /\ f2[u][n] = f[u][n]
               \/ \E m \in 1 .. Len(g[u]) : n = Len(f[u]) + m /\ f2[u][n] = g[u][m]
    <3>1. CASE u \notin T
      BY <1>0, <3>1
    <3>2. CASE u \in T
      <4> DEFINE p == f[u]
                 q == g[u]
      <4>1. f2[u] = p \o q /\ p \in Seq(BufferArrays) /\ q \in Seq(BufferArrays)
        BY <1>0, <1>1, <3>2
      <4>2. n \in 1 .. Len(p \o q)
        BY <4>1
      <4> HIDE DEF p, q
      <4>3. \/ n \in 1 .. Len(p) /\ (p \o q)[n] = p[n]
            \/ n - Len(p) \in 1 .. Len(q) /\ (p \o q)[n] = q[n - Len(p)]
        BY <4>1, <4>2, Parts
      <4>4. Len(p) \in Nat /\ Len(p \o q) \in Nat
        BY <4>1, ConcatProperties, LenProperties
      <4>5. n \in Nat
        BY <4>2, <4>4
      <4>6. CASE n - Len(p) \in 1 .. Len(q) /\ (p \o q)[n] = q[n - Len(p)]
        <5>1. n = Len(p) + (n - Len(p))
          BY <4>4, <4>5
        <5> QED
          BY <4>1, <4>6, <5>1 DEF p, q
      <4>7. CASE n \in 1 .. Len(p) /\ (p \o q)[n] = p[n]
        BY <4>1, <4>7 DEF p, q
      <4> QED
        BY <4>3, <4>6, <4>7
    <3> QED
      BY <3>1, <3>2
  <2>2. ASSUME NEW u \in Slots, NEW v \in Slots, NEW m \in 1 .. Len(f[u]), NEW n \in 1 .. Len(g[v])
        PROVE  f[u][m] # g[v][n]
    <3>1. Holds(f, f[u][m]) /\ Holds(g, g[v][n])
      BY DEF Holds, Among
    <3>2. f[u][m] \in BufferArrays
      BY <1>1, ElementOfSeq
    <3> QED
      BY <3>1, <3>2 DEF Apart
  <2>3. \A u \in Slots : \A n \in 1 .. Len(f2[u]) :
           \/ n \in 1 .. Len(f[u]) /\ f2[u][n] = f[u][n]
           \/ \E m \in 1 .. Len(g[u]) : n = Len(f[u]) + m /\ f2[u][n] = g[u][m]
    BY <2>1
  <2>4. \A u, v \in Slots : \A m \in 1 .. Len(f[u]), n \in 1 .. Len(g[v]) : f[u][m] # g[v][n]
    BY <2>2
  <2>5. Merged(f, g, f2)
    BY <2>3, <2>4, Zenon DEF Merged
  <2> QED
    BY <2>5, OnceOfBoth, Zenon
<1> QED
  BY <1>3, <1>4, <1>9, <1>11, <1>12, <1>13, <1>14

------------------------------------------------------------------------------
(***************************************************************************)
(* The invariant.                                                          *)
(***************************************************************************)

Scopes ==
  [array : BufferArrays, index : Indices, level : Levels, inherits : Inheritances \cup {NoInheritance}]

TypeInv ==
  /\ current \in Pools /\ allocated \in 0 .. MaxBegins
  /\ pending \in ArrayLists /\ submitted \in ArrayLists /\ free \in ArrayLists
  /\ scope \in [Slots -> Scopes \cup {NoScope}]
  /\ head \in Heads
  /\ recording \in [BufferArrays -> SUBSET Indices]
  /\ held \subseteq Scopes
  /\ executes \in Seq(Buffers) /\ enqueued \in Seq(Buffers) /\ device \in Seq(Buffers)
  /\ number \in [Buffers -> Levels \X Nat]
  /\ begun \in [Levels -> Nat] /\ finished \in [Levels -> Nat]

Listed(a) == Holds(pending, a) \/ Holds(submitted, a) \/ Holds(free, a)

\* An array that was allocated is in one list.
ListInv ==
  /\ Once(pending) /\ Once(submitted) /\ Once(free)
  /\ Apart(pending, submitted) /\ Apart(pending, free) /\ Apart(submitted, free)
  /\ \A a \in BufferArrays : a <= allocated <=> Listed(a)

Owned(a, n) ==
  \/ \E c \in held : c.array = a /\ c.index = n
  \/ \E s \in Slots : scope[s] # NoScope /\ scope[s].array = a /\ scope[s].index = n

\* A pool's scope is of a pending array, and so is a caller's that records.
ScopeInv ==
  /\ \A s \in Slots : scope[s] # NoScope =>
       /\ Among(scope[s].array, pending[s])
       /\ scope[s].level = s[2]
       /\ scope[s].index < head[scope[s].array]
  /\ \A c \in held :
       /\ c.index < head[c.array]
       /\ c.index \in recording[c.array] => Among(c.array, pending[<<current, c.level>>])
  /\ \A a \in BufferArrays : \A n \in recording[a] : n < head[a] /\ Owned(a, n)
  /\ \A a \in BufferArrays : recording[a] # {} => Holds(pending, a)
  /\ \A a \in BufferArrays : a > allocated \/ Holds(free, a) => head[a] = 0

\* Only the current pool has something pending, and the primary buffer that
\* executes others is.
PendingInv ==
  /\ \A l \in Levels : pending[<<1 - current, l>>] = << >>
  /\ executes # << >> => pending[<<current, 0>>] # << >>

\* What is to be executed after the pending buffers are enqueued.
InFlight == (device \o enqueued) \o executes

FlightInv ==
  /\ \A k \in 1 .. Len(InFlight) :
       Holds(submitted, InFlight[k][1]) /\ InFlight[k][2] < head[InFlight[k][1]]
  /\ \A b \in Buffers : b[2] < head[b[1]] => number[b] # NotBegun

Recorded(l) == BufferedAll(pending[<<current, l>>], head)

\* The buffers of a level that were begun before the pending ones.
Before(l) == begun[l] - Len(Recorded(l))

LevelInOrder(l) ==
  /\ Before(l) \in Nat /\ finished[l] <= Before(l)
  /\ Consecutive(number, InFlight, l, finished[l], Before(l))
  /\ \A k \in 1 .. Len(Recorded(l)) : number[Recorded(l)[k]] = <<l, Before(l) + k>>

OrderInv == \A l \in Levels : LevelInOrder(l)

PoolInv == TypeInv /\ ListInv /\ ScopeInv /\ PendingInv /\ FlightInv /\ OrderInv

LEMMA SlotsAre ==
  /\ 0 \in Levels
  /\ \A p \in Pools, l \in Levels : <<p, l>> \in Slots
  /\ \A s \in Slots : s[1] \in Pools /\ s[2] \in Levels /\ s = <<s[1], s[2]>>
  /\ \A p \in Pools : 1 - p \in Pools /\ 1 - p # p
BY BoundsAssumption DEF Levels, Slots, Pools

LEMMA InitPoolInv == PoolInit => PoolInv
<1> SUFFICES ASSUME PoolInit PROVE PoolInv
  OBVIOUS
<1>1. \A x : ~Among(x, << >>)
  BY DEF Among
<1>2. /\ \A s \in Slots : pending[s] = << >> /\ submitted[s] = << >> /\ free[s] = << >>
  BY DEF PoolInit
<1>3. \A x : ~Holds(pending, x) /\ ~Holds(submitted, x) /\ ~Holds(free, x)
  BY <1>1, <1>2 DEF Holds
<1>4. TypeInv
  <2>1. current \in Pools /\ allocated \in 0 .. MaxBegins
    BY BoundsAssumption DEF PoolInit, Pools
  <2>2. pending \in ArrayLists /\ submitted \in ArrayLists /\ free \in ArrayLists
    BY EmptySeq DEF PoolInit, ArrayLists
  <2>3. scope \in [Slots -> Scopes \cup {NoScope}] /\ held \subseteq Scopes
    BY DEF PoolInit
  <2>4. head \in Heads /\ recording \in [BufferArrays -> SUBSET Indices]
    BY BoundsAssumption DEF PoolInit, Heads, Indices
  <2>5. executes \in Seq(Buffers) /\ enqueued \in Seq(Buffers) /\ device \in Seq(Buffers)
    BY EmptySeq DEF PoolInit
  <2>6. /\ number \in [Buffers -> Levels \X Nat]
        /\ begun \in [Levels -> Nat] /\ finished \in [Levels -> Nat]
    BY SlotsAre DEF PoolInit, NotBegun
  <2> QED
    BY <2>1, <2>2, <2>3, <2>4, <2>5, <2>6 DEF TypeInv
<1>5. ListInv
  <2>1. Once(pending) /\ Once(submitted) /\ Once(free)
    BY <1>2, EmptySeq DEF Once
  <2>2. \A a \in BufferArrays : ~(a <= allocated)
    BY DEF PoolInit, BufferArrays
  <2> QED
    BY <1>3, <2>1, <2>2 DEF ListInv, Apart, Listed
<1>6. ScopeInv
  BY <1>3 DEF PoolInit, ScopeInv
<1>7. PendingInv
  BY <1>2, SlotsAre DEF PendingInv, PoolInit, Pools
<1>8. InFlight = << >> /\ Len(InFlight) = 0
  BY EmptySeq DEF PoolInit, InFlight
<1>9. FlightInv
  <2>1. \A b \in Buffers : b[1] \in BufferArrays /\ b[2] \in Nat
    BY BoundsAssumption DEF Buffers, Indices
  <2>2. \A b \in Buffers : ~(b[2] < head[b[1]])
    BY <2>1 DEF PoolInit
  <2> QED
    BY <1>8, <2>2 DEF FlightInv
<1>10. OrderInv
  <2> SUFFICES ASSUME NEW l \in Levels PROVE LevelInOrder(l)
    BY DEF OrderInv
  <2>1. pending[<<current, l>>] = << >> /\ begun[l] = 0 /\ finished[l] = 0
    BY <1>2, <1>4, SlotsAre DEF PoolInit, TypeInv
  <2>2. Recorded(l) = << >> /\ Len(Recorded(l)) = 0 /\ Before(l) = 0
    BY <2>1, AllOfNothing DEF Recorded, Before
  <2>3. Consecutive(number, << >>, l, 0, 0)
    BY ConsecutiveNothing
  <2> QED
    BY <1>8, <2>1, <2>2, <2>3 DEF LevelInOrder
<1> QED
  BY <1>4, <1>5, <1>6, <1>7, <1>9, <1>10 DEF PoolInv

\* What follows for the properties.

LEMMA ListsShown == PoolInv => EachArrayInOneList
<1> SUFFICES ASSUME PoolInv PROVE EachArrayInOneList
  OBVIOUS
<1> USE DEF PoolInv
<1> DEFINE lists == [s \in Slots |-> pending[s] \o submitted[s] \o free[s]]
           taken == Longer(pending, submitted, Slots)
           all == Longer(taken, free, Slots)
<1>1. /\ pending \in ArrayLists /\ submitted \in ArrayLists /\ free \in ArrayLists
      /\ Once(pending) /\ Once(submitted) /\ Once(free)
      /\ Apart(pending, submitted) /\ Apart(pending, free) /\ Apart(submitted, free)
      /\ \A a \in BufferArrays : a <= allocated <=> Listed(a)
      /\ allocated \in 0 .. MaxBegins
  BY DEF TypeInv, ListInv
<1>2. /\ taken \in ArrayLists /\ Once(taken)
      /\ \A x : Holds(taken, x) <=> Holds(pending, x) \/ \E s \in Slots : Among(x, submitted[s])
  <2>1. taken = Longer(pending, submitted, Slots)
    OBVIOUS
  <2> HIDE DEF taken
  <2> QED
    BY <1>1, <2>1, Splice
<1>3. \A x : Holds(taken, x) <=> Holds(pending, x) \/ Holds(submitted, x)
  BY <1>2 DEF Holds
<1>4. Apart(taken, free)
  BY <1>1, <1>3 DEF Apart
<1>5. \A s \in Slots : lists[s] = taken[s] \o free[s]
  BY DEF Longer
<1> HIDE DEF taken
<1>6. /\ all \in ArrayLists /\ Once(all)
      /\ \A x : Holds(all, x) <=> Holds(taken, x) \/ \E s \in Slots : Among(x, free[s])
  <2>1. all = Longer(taken, free, Slots)
    OBVIOUS
  <2> HIDE DEF all
  <2> QED
    BY <1>1, <1>2, <1>4, <2>1, Splice
<1>7. \A x : Holds(all, x) <=> Listed(x)
  BY <1>3, <1>6 DEF Holds, Listed
<1>8. \A s \in Slots : lists[s] = all[s] /\ DOMAIN lists[s] = 1 .. Len(all[s])
  <2>1. \A s \in Slots : lists[s] = all[s]
    BY <1>5 DEF Longer
  <2>2. \A s \in Slots : DOMAIN all[s] = 1 .. Len(all[s])
    BY <1>6, LenProperties DEF ArrayLists
  <2> QED
    BY <2>1, <2>2
<1> HIDE DEF lists, all
<1>9. \A s, t \in Slots : \A j \in DOMAIN lists[s], k \in DOMAIN lists[t] :
        lists[s][j] = lists[t][k] => s = t /\ j = k
  BY <1>6, <1>8 DEF Once
<1>10. \A x : x \in UNION {ToSet(lists[s]) : s \in Slots} <=> Holds(all, x)
  BY <1>8 DEF ToSet, Holds, Among
<1>11. \A x : Holds(all, x) <=> x \in 1 .. allocated
  <2>1. ASSUME NEW x, Holds(all, x) PROVE x \in BufferArrays
    <3>1. PICK s \in Slots : Among(x, all[s])
      BY <2>1 DEF Holds
    <3> QED
      BY <1>6, <3>1, HeldIsArray
  <2>2. ASSUME NEW x, x \in 1 .. allocated PROVE x \in BufferArrays
    BY <1>1, <2>2, BoundsAssumption DEF BufferArrays
  <2>3. \A x \in BufferArrays : x \in 1 .. allocated <=> x <= allocated
    BY <1>1, BoundsAssumption DEF BufferArrays
  <2> QED
    BY <1>1, <1>7, <2>1, <2>2, <2>3
<1>12. UNION {ToSet(lists[s]) : s \in Slots} = 1 .. allocated
  BY <1>10, <1>11
<1> QED
  BY <1>9, <1>12 DEF EachArrayInOneList, lists

LEMMA RecordingShown == PoolInv => RecordingIsOwned
<1> SUFFICES ASSUME PoolInv PROVE RecordingIsOwned
  OBVIOUS
<1>1. TypeInv /\ ListInv /\ ScopeInv
  BY DEF PoolInv
<1>2. ASSUME NEW a \in BufferArrays, NEW n \in recording[a]
      PROVE  /\ n < head[a]
             /\ \E c \in held \cup {scope[s] : s \in Slots} : c # NoScope /\ c.array = a /\ c.index = n
  <2>1. n < head[a] /\ Owned(a, n)
    BY <1>1 DEF ScopeInv
  <2>2. \A c \in held : c # NoScope
    BY <1>1 DEF TypeInv, Scopes, NoScope, BufferArrays
  <2> QED
    BY <2>1, <2>2 DEF Owned
<1>3. ASSUME NEW s \in Slots, NEW a \in ToSet(submitted[s] \o free[s])
      PROVE  recording[a] = {}
  <2>1. submitted[s] \in Seq(BufferArrays) /\ free[s] \in Seq(BufferArrays)
    BY <1>1 DEF TypeInv, ArrayLists
  <2>2. Among(a, submitted[s]) \/ Among(a, free[s])
    BY <2>1, AmongSet, AmongConcat, ConcatProperties
  <2>3. a \in BufferArrays /\ (Holds(submitted, a) \/ Holds(free, a))
    BY <1>1, <2>2, HeldIsArray DEF TypeInv
  <2>4. ~Holds(pending, a)
    BY <1>1, <2>3 DEF ListInv, Apart
  <2> QED
    BY <1>1, <2>3, <2>4 DEF ScopeInv
<1>4. ASSUME NEW s \in Slots, NEW a \in ToSet(free[s])
      PROVE  head[a] = 0
  <2>1. free[s] \in Seq(BufferArrays)
    BY <1>1 DEF TypeInv, ArrayLists
  <2>2. Among(a, free[s])
    BY <2>1, AmongSet
  <2>3. a \in BufferArrays /\ Holds(free, a)
    BY <1>1, <2>2, HeldIsArray DEF TypeInv
  <2> QED
    BY <1>1, <2>3 DEF ScopeInv
<1>5. \A a \in BufferArrays : head[a] < ArrayCapacity
  BY <1>1, HeadsAre DEF TypeInv
<1> QED
  BY <1>2, <1>3, <1>4, <1>5, Zenon DEF RecordingIsOwned

LEMMA InFlightTyped ==
  ASSUME TypeInv
  PROVE  device \o enqueued \in Seq(Buffers) /\ InFlight \in Seq(Buffers)
BY ConcatProperties DEF TypeInv, InFlight

LEMMA FlightShown == PoolInv => InFlightUntouched
<1> SUFFICES ASSUME PoolInv, NEW b \in ToSet(device \o enqueued)
             PROVE  /\ \E s \in Slots : b[1] \in ToSet(submitted[s])
                    /\ b[2] < head[b[1]] /\ b[2] \notin recording[b[1]]
                    /\ number[b] # NotBegun
  BY DEF InFlightUntouched
<1>1. TypeInv /\ ListInv /\ ScopeInv /\ FlightInv
  BY DEF PoolInv
<1>2. device \o enqueued \in Seq(Buffers) /\ executes \in Seq(Buffers)
  BY <1>1, InFlightTyped DEF TypeInv
<1>3. Among(b, device \o enqueued)
  BY <1>2, AmongSet
<1>4. Among(b, InFlight)
  BY <1>2, <1>3, AmongConcat DEF InFlight
<1>5. Holds(submitted, b[1]) /\ b[2] < head[b[1]]
  BY <1>1, <1>4 DEF FlightInv, Among
<1>6. b \in Buffers
  BY <1>2, <1>3, ElementOfSeq DEF Among
<1>7. b[1] \in BufferArrays
  BY <1>6 DEF Buffers
<1>8. recording[b[1]] = {}
  BY <1>1, <1>5, <1>7 DEF ListInv, Apart, ScopeInv
<1>9. \E s \in Slots : b[1] \in ToSet(submitted[s])
  <2>1. PICK s \in Slots : Among(b[1], submitted[s])
    BY <1>5 DEF Holds
  <2>2. submitted[s] \in Seq(BufferArrays)
    BY <1>1 DEF TypeInv, ArrayLists
  <2> QED
    BY <2>1, <2>2, AmongSet
<1> QED
  BY <1>1, <1>5, <1>6, <1>8, <1>9 DEF FlightInv

\* What BuffersOf gives is what was recorded.
LEMMA RecordedIs ==
  ASSUME TypeInv, NEW l \in Levels
  PROVE  /\ BuffersOf(pending[<<current, l>>]) = Recorded(l)
         /\ pending[<<current, l>>] \in Seq(BufferArrays)
         /\ Recorded(l) \in Seq(Buffers)
         /\ \A k \in 1 .. Len(Recorded(l)) :
              /\ Recorded(l)[k] \in Buffers
              /\ Among(Recorded(l)[k][1], pending[<<current, l>>])
              /\ Recorded(l)[k][2] < head[Recorded(l)[k][1]]
<1> DEFINE list == pending[<<current, l>>]
<1>1. list \in Seq(BufferArrays) /\ head \in Heads
  BY SlotsAre DEF TypeInv, ArrayLists
<1>2. BuffersOf(list) = Recorded(l)
  BY DEF BuffersOf, Recorded, BufferedAll, BufferedEach
<1>3. Recorded(l) \in Seq(BuffersIn(list, head))
  BY <1>1, AllTyped DEF Recorded
<1>4. Recorded(l) \in Seq(Buffers)
  <2>1. BuffersIn(list, head) \subseteq Buffers
    BY DEF BuffersIn
  <2> QED
    BY <1>3, <2>1, SeqMonotonic
<1>5. \A k \in 1 .. Len(Recorded(l)) : Recorded(l)[k] \in BuffersIn(list, head)
  BY <1>3, ElementOfSeq
<1> QED
  BY <1>1, <1>2, <1>4, <1>5 DEF BuffersIn

LEMMA OrderShown == PoolInv => ExecutedInOrder
<1> SUFFICES ASSUME PoolInv, NEW l \in Levels
             PROVE  Consecutive(number, device \o enqueued \o executes \o BuffersOf(pending[<<current, l>>]),
                                l, finished[l], begun[l])
  BY DEF ExecutedInOrder
<1>1. TypeInv /\ LevelInOrder(l)
  BY DEF PoolInv, OrderInv
<1>2. BuffersOf(pending[<<current, l>>]) = Recorded(l) /\ Recorded(l) \in Seq(Buffers)
  BY <1>1, RecordedIs
<1>3. InFlight \in Seq(Buffers) /\ finished[l] \in Nat /\ begun[l] \in Nat /\ Len(Recorded(l)) \in Nat
  BY <1>1, <1>2, InFlightTyped, LenProperties DEF TypeInv
<1>4. /\ Before(l) \in Nat /\ finished[l] <= Before(l)
      /\ Consecutive(number, InFlight, l, finished[l], Before(l))
      /\ \A k \in 1 .. Len(Recorded(l)) : number[Recorded(l)[k]] = <<l, Before(l) + k>>
  BY <1>1 DEF LevelInOrder
<1>5. Consecutive(number, InFlight \o Recorded(l), l, finished[l], Before(l) + Len(Recorded(l)))
  BY <1>2, <1>3, <1>4, ConsecutiveMore
<1>6. Before(l) + Len(Recorded(l)) = begun[l]
  BY <1>3 DEF Before
<1> QED
  BY <1>2, <1>5, <1>6 DEF InFlight

------------------------------------------------------------------------------
(***************************************************************************)
(* Steps that leave the lists alone.                                       *)
(***************************************************************************)

LEMMA KeepLists == ListInv /\ UNCHANGED <<allocated, pending, submitted, free>> => ListInv'
<1> SUFFICES ASSUME ListInv, UNCHANGED <<allocated, pending, submitted, free>> PROVE ListInv'
  OBVIOUS
<1>1. Once(pending') /\ Once(submitted') /\ Once(free')
  BY DEF ListInv
<1>2. Apart(pending', submitted') /\ Apart(pending', free') /\ Apart(submitted', free')
  BY DEF ListInv
<1>3. \A a \in BufferArrays : a <= allocated' <=> Listed(a)'
  BY DEF ListInv, Listed
<1> QED
  BY <1>1, <1>2, <1>3 DEF ListInv

LEMMA KeepScopes ==
  ScopeInv /\ UNCHANGED <<current, allocated, pending, free, scope, head, recording, held>> => ScopeInv'
BY DEF ScopeInv, Owned, Holds, Among

LEMMA KeepPending == PendingInv /\ UNCHANGED <<current, pending, executes>> => PendingInv'
BY DEF PendingInv

LEMMA KeepFlight ==
  FlightInv /\ UNCHANGED <<submitted, head, number>> /\ InFlight' = InFlight => FlightInv'
BY DEF FlightInv, Holds, Among

LEMMA KeepRecorded ==
  UNCHANGED <<current, pending, head, begun>> => \A l : Recorded(l)' = Recorded(l) /\ Before(l)' = Before(l)
BY DEF Recorded, Before

LEMMA KeepOrder ==
  OrderInv /\ UNCHANGED <<current, pending, head, number, begun, finished>> /\ InFlight' = InFlight => OrderInv'
<1> SUFFICES ASSUME OrderInv, UNCHANGED <<current, pending, head, number, begun, finished>>, InFlight' = InFlight,
                    NEW l \in Levels
             PROVE  LevelInOrder(l)'
  BY DEF OrderInv
<1>1. LevelInOrder(l)
  BY DEF OrderInv
<1>2. Recorded(l)' = Recorded(l) /\ Before(l)' = Before(l)
  BY KeepRecorded
<1> QED
  BY <1>1, <1>2 DEF LevelInOrder

LEMMA SubmitInv == PoolInv /\ Submit => PoolInv'
<1> SUFFICES ASSUME PoolInv, Submit PROVE PoolInv'
  OBVIOUS
<1>1. /\ TypeInv /\ ListInv /\ ScopeInv /\ PendingInv /\ FlightInv /\ OrderInv
      /\ device' = device \o enqueued /\ enqueued' = << >>
      /\ UNCHANGED <<current, allocated, pending, submitted, free, scope, head, recording, held, executes,
                     number, begun, finished>>
  BY DEF PoolInv, Submit, listVars
<1>2. TypeInv'
  BY <1>1, InFlightTyped, EmptySeq DEF TypeInv
<1>3. InFlight' = InFlight
  <2>1. (device \o enqueued) \o << >> = device \o enqueued
    BY <1>1, InFlightTyped, ConcatEmptySeq
  <2> QED
    BY <1>1, <2>1 DEF InFlight
<1> QED
  BY <1>1, <1>2, <1>3, KeepLists, KeepScopes, KeepPending, KeepFlight, KeepOrder DEF PoolInv

\* The oldest of the device's buffers is the first of those in flight.
LEMMA TakeConcat ==
  ASSUME NEW S, NEW s \in Seq(S), NEW t \in Seq(S), s # << >>
  PROVE  Head(s \o t) = Head(s) /\ Tail(s \o t) = Tail(s) \o t /\ s \o t # << >>
<1>1. /\ s \o t \in Seq(S) /\ Len(s \o t) = Len(s) + Len(t)
      /\ \A k \in 1 .. Len(s) + Len(t) : (s \o t)[k] = IF k <= Len(s) THEN s[k] ELSE t[k - Len(s)]
      /\ Len(s) \in Nat \ {0} /\ Len(t) \in Nat
  BY ConcatProperties, EmptySeq, LenProperties
<1>2. s \o t # << >>
  BY <1>1, EmptySeq
<1>3. /\ Tail(s) \in Seq(S) /\ Len(Tail(s)) = Len(s) - 1 /\ Head(s) = s[1]
      /\ \A k \in 1 .. Len(Tail(s)) : Tail(s)[k] = s[k + 1]
  BY <1>1, HeadTailProperties
<1>4. /\ Tail(s \o t) \in Seq(S) /\ Len(Tail(s \o t)) = Len(s) + Len(t) - 1
      /\ \A k \in 1 .. Len(Tail(s \o t)) : Tail(s \o t)[k] = (s \o t)[k + 1]
  BY <1>1, <1>2, HeadTailProperties
<1>5. /\ Tail(s) \o t \in Seq(S) /\ Len(Tail(s) \o t) = Len(Tail(s)) + Len(t)
      /\ \A k \in 1 .. Len(Tail(s)) + Len(t) :
           (Tail(s) \o t)[k] = IF k <= Len(Tail(s)) THEN Tail(s)[k] ELSE t[k - Len(Tail(s))]
  BY <1>3, ConcatProperties
<1>6. ASSUME NEW k \in 1 .. Len(s) + Len(t) - 1 PROVE Tail(s \o t)[k] = (Tail(s) \o t)[k]
  <2>1. Tail(s \o t)[k] = (s \o t)[k + 1] /\ k + 1 \in 1 .. Len(s) + Len(t)
    BY <1>1, <1>4
  <2>2. CASE k + 1 <= Len(s)
    <3>1. k <= Len(Tail(s)) /\ k \in 1 .. Len(Tail(s)) /\ k \in 1 .. Len(Tail(s)) + Len(t)
      BY <1>1, <1>3, <2>2
    <3> QED
      BY <1>1, <1>3, <1>5, <2>1, <2>2, <3>1
  <2>3. CASE k + 1 > Len(s)
    <3>1. ~(k <= Len(Tail(s))) /\ k \in 1 .. Len(Tail(s)) + Len(t) /\ k - Len(Tail(s)) = (k + 1) - Len(s)
      BY <1>1, <1>3, <2>3
    <3> QED
      BY <1>1, <1>5, <2>1, <2>3, <3>1
  <2> QED
    BY <1>1, <2>2, <2>3
<1>7. Tail(s \o t) = Tail(s) \o t
  <2>1. Len(Tail(s) \o t) = Len(s) + Len(t) - 1
    BY <1>1, <1>3, <1>5
  <2> QED
    BY <1>4, <1>5, <1>6, <2>1, SeqEqual
<1>8. Head(s \o t) = Head(s)
  <2>1. Head(s \o t) = (s \o t)[1]
    BY <1>1, <1>2
  <2>2. 1 \in 1 .. Len(s) + Len(t) /\ 1 <= Len(s)
    BY <1>1
  <2> QED
    BY <1>1, <1>3, <2>1, <2>2
<1> QED
  BY <1>2, <1>7, <1>8

LEMMA FinishInv == PoolInv /\ Finish => PoolInv'
<1> SUFFICES ASSUME PoolInv, Finish PROVE PoolInv'
  OBVIOUS
<1> DEFINE first == Head(device)
           m == number[first][1]
<1>1. /\ TypeInv /\ ListInv /\ ScopeInv /\ PendingInv /\ FlightInv /\ OrderInv
      /\ device # << >> /\ device' = Tail(device)
      /\ finished' = [finished EXCEPT ![m] = @ + 1]
      /\ UNCHANGED <<current, allocated, pending, submitted, free, scope, head, recording, held, executes,
                     enqueued, number, begun>>
  BY DEF PoolInv, Finish, listVars
<1>2. Tail(device) \in Seq(Buffers) /\ first \in Buffers
  BY <1>1, HeadTailProperties DEF TypeInv
<1>3. m \in Levels
  BY <1>1, <1>2 DEF TypeInv
<1> HIDE DEF m
<1>4. finished' \in [Levels -> Nat]
  BY <1>1, <1>3 DEF TypeInv
<1>5. TypeInv'
  BY <1>1, <1>2, <1>4 DEF TypeInv
<1>6. InFlight' = Tail(InFlight) /\ first = Head(InFlight) /\ InFlight # << >> /\ InFlight \in Seq(Buffers)
  <2>1. /\ Tail(device \o enqueued) = Tail(device) \o enqueued
        /\ Head(device \o enqueued) = first /\ device \o enqueued # << >>
    BY <1>1, TakeConcat DEF TypeInv
  <2>2. device \o enqueued \in Seq(Buffers) /\ executes \in Seq(Buffers)
    BY <1>1, InFlightTyped DEF TypeInv
  <2>3. /\ Tail((device \o enqueued) \o executes) = Tail(device \o enqueued) \o executes
        /\ Head((device \o enqueued) \o executes) = first /\ (device \o enqueued) \o executes # << >>
    BY <2>1, <2>2, TakeConcat
  <2>4. (device \o enqueued) \o executes \in Seq(Buffers)
    BY <1>1, InFlightTyped DEF InFlight
  <2> QED
    BY <1>1, <2>1, <2>3, <2>4 DEF InFlight
<1>7. FlightInv'
  <2>1. \A k \in 1 .. Len(Tail(InFlight)) : k + 1 \in 1 .. Len(InFlight) /\ Tail(InFlight)[k] = InFlight[k + 1]
    <3>1. /\ Len(Tail(InFlight)) = Len(InFlight) - 1 /\ Len(InFlight) \in Nat \ {0}
          /\ \A k \in 1 .. Len(Tail(InFlight)) : Tail(InFlight)[k] = InFlight[k + 1]
      BY <1>6, HeadTailProperties, EmptySeq
    <3> QED
      BY <3>1
  <2> QED
    BY <1>1, <1>6, <2>1 DEF FlightInv, Holds, Among
<1>8. OrderInv'
  <2> SUFFICES ASSUME NEW l \in Levels PROVE LevelInOrder(l)'
    BY DEF OrderInv
  <2>1. LevelInOrder(l)
    BY <1>1 DEF OrderInv
  <2>2. Recorded(l)' = Recorded(l) /\ Before(l)' = Before(l)
    BY <1>1, KeepRecorded
  <2>3. finished[l] \in Nat /\ Before(l) \in Nat /\ finished[l] <= Before(l)
    BY <1>1, <2>1 DEF TypeInv, LevelInOrder
  <2>4. /\ m # l => Consecutive(number, Tail(InFlight), l, finished[l], Before(l))
        /\ m = l => finished[l] < Before(l) /\ Consecutive(number, Tail(InFlight), l, finished[l] + 1, Before(l))
    BY <1>6, <2>1, <2>3, ConsecutiveTail DEF LevelInOrder, m
  <2>5. finished'[l] = IF m = l THEN finished[l] + 1 ELSE finished[l]
    BY <1>1, <1>3 DEF TypeInv
  <2>6. finished'[l] <= Before(l) /\ Consecutive(number, Tail(InFlight), l, finished'[l], Before(l))
    BY <2>3, <2>4, <2>5
  <2> QED
    BY <1>1, <1>6, <2>1, <2>2, <2>6 DEF LevelInOrder
<1> QED
  BY <1>1, <1>5, <1>7, <1>8, KeepLists, KeepScopes, KeepPending DEF PoolInv

------------------------------------------------------------------------------
(***************************************************************************)
(* Scopes are copied, ended and dropped.                                   *)
(***************************************************************************)

LEMMA ScopesAreNot ==
  /\ NoScope \notin Scopes
  /\ \A c \in Scopes : c.array \in BufferArrays /\ c.index \in Indices /\ c.level \in Levels
BY DEF NoScope, Scopes, BufferArrays

LEMMA DroppedIs ==
  ASSUME TypeInv, NEW c \in Scopes \cup {NoScope}, NEW others
  PROVE  /\ Dropped(c, others) \in [BufferArrays -> SUBSET Indices]
         /\ \A a \in BufferArrays : Dropped(c, others)[a] \subseteq recording[a]
         /\ \A a \in BufferArrays : \A n \in recording[a] :
              \/ n \in Dropped(c, others)[a]
              \/ c # NoScope /\ c \notin others /\ c.array = a /\ c.index = n
         /\ c # NoScope /\ c \notin others => c.index \notin Dropped(c, others)[c.array]
<1> DEFINE D == Dropped(c, others)
<1>1. recording \in [BufferArrays -> SUBSET Indices]
  BY DEF TypeInv
<1>2. CASE c # NoScope /\ c \notin others /\ c.index \in recording[c.array]
  <2>1. D = [recording EXCEPT ![c.array] = @ \ {c.index}]
    BY <1>2, Zenon DEF Dropped, IsRecording
  <2>2. c.array \in BufferArrays
    BY <1>2, ScopesAreNot
  <2> HIDE DEF D
  <2>3. D[c.array] = recording[c.array] \ {c.index} /\ \A a \in BufferArrays : a # c.array => D[a] = recording[a]
    BY <1>1, <2>1, <2>2
  <2>4. D \in [BufferArrays -> SUBSET Indices]
    BY <1>1, <2>1, <2>2
  <2>5. \A a \in BufferArrays : D[a] \subseteq recording[a]
    BY <2>3
  <2>6. \A a \in BufferArrays : \A n \in recording[a] : n \in D[a] \/ (c.array = a /\ c.index = n)
    BY <2>3
  <2> QED
    BY <1>2, <2>3, <2>4, <2>5, <2>6 DEF D
<1>3. CASE ~(c # NoScope /\ c \notin others /\ c.index \in recording[c.array])
  <2>1. D = recording
    BY <1>3, Zenon DEF Dropped, IsRecording
  <2> QED
    BY <1>1, <1>3, <2>1
<1> QED
  BY <1>2, <1>3

LEMMA CopyInv ==
  ASSUME PoolInv, NEW l \in Levels, scope[<<current, l>>] # NoScope,
         held' = held \cup {scope[<<current, l>>]},
         UNCHANGED <<current, allocated, pending, submitted, free, scope, head, recording, executes,
                     enqueued, device, number, begun, finished>>
  PROVE  PoolInv'
<1> DEFINE s == <<current, l>>
           c == scope[s]
<1>1. TypeInv /\ ListInv /\ ScopeInv /\ PendingInv /\ FlightInv /\ OrderInv
  BY DEF PoolInv
<1>2. s \in Slots /\ s[2] = l
  BY <1>1, SlotsAre DEF TypeInv
<1>3. c \in Scopes /\ c # NoScope
  BY <1>1, <1>2 DEF TypeInv
<1> HIDE DEF c
<1>4. TypeInv'
  BY <1>1, <1>3 DEF TypeInv, c
<1>5. Among(c.array, pending[<<current, c.level>>]) /\ c.index < head[c.array]
  BY <1>1, <1>2, <1>3 DEF ScopeInv, c
<1>6. ScopeInv'
  <2>1. \A d \in held' :
          /\ d.index < head[d.array]
          /\ d.index \in recording[d.array] => Among(d.array, pending[<<current, d.level>>])
    BY <1>1, <1>5 DEF ScopeInv, c
  <2>2. \A a \in BufferArrays : \A n \in recording[a] : n < head[a] /\ Owned(a, n)'
    BY <1>1 DEF ScopeInv, Owned
  <2> QED
    BY <1>1, <2>1, <2>2 DEF ScopeInv, Holds, Among
<1>7. InFlight' = InFlight
  BY DEF InFlight
<1> QED
  BY <1>1, <1>4, <1>6, <1>7, KeepLists, KeepPending, KeepFlight, KeepOrder DEF PoolInv

\* A buffer stops recording and some scope that callers have may go.
LEMMA LessRecording ==
  ASSUME PoolInv, held' \subseteq held,
         recording' \in [BufferArrays -> SUBSET Indices],
         \A a \in BufferArrays : recording'[a] \subseteq recording[a],
         \A a \in BufferArrays : \A n \in recording'[a] : Owned(a, n)',
         UNCHANGED <<current, allocated, pending, submitted, free, scope, head, executes,
                     enqueued, device, number, begun, finished>>
  PROVE  PoolInv'
<1>1. TypeInv /\ ListInv /\ ScopeInv /\ PendingInv /\ FlightInv /\ OrderInv
  BY DEF PoolInv
<1>2. TypeInv'
  BY <1>1 DEF TypeInv
<1>3. ScopeInv'
  <2>1. \A c \in held : c.array \in BufferArrays
    BY <1>1, ScopesAreNot DEF TypeInv
  <2>2. \A c \in held' :
          /\ c.index < head[c.array]
          /\ c.index \in recording'[c.array] => Among(c.array, pending[<<current, c.level>>])
    BY <1>1, <2>1 DEF ScopeInv
  <2>3. \A a \in BufferArrays : \A n \in recording'[a] : n < head[a] /\ Owned(a, n)'
    BY <1>1 DEF ScopeInv
  <2>4. \A a \in BufferArrays : recording'[a] # {} => Holds(pending, a)
    BY <1>1 DEF ScopeInv
  <2>5. /\ \A a : Holds(pending, a)' = Holds(pending, a) /\ Holds(free, a)' = Holds(free, a)
        /\ \A a, s : Among(a, pending[s])' = Among(a, pending[s])
    BY DEF Holds, Among
  <2> QED
    BY <1>1, <2>2, <2>3, <2>4, <2>5 DEF ScopeInv
<1>4. InFlight' = InFlight
  BY DEF InFlight
<1> QED
  BY <1>1, <1>2, <1>3, <1>4, KeepLists, KeepPending, KeepFlight, KeepOrder DEF PoolInv

LEMMA EndInv == ASSUME PoolInv, NEW c \in held, End(c) PROVE PoolInv'
<1>1. TypeInv /\ ScopeInv
  BY DEF PoolInv
<1>2. /\ recording' = [recording EXCEPT ![c.array] = @ \ {c.index}]
      /\ UNCHANGED <<current, allocated, pending, submitted, free, scope, head, held, executes,
                     enqueued, device, number, begun, finished>>
  BY DEF End, listVars
<1>3. c.array \in BufferArrays /\ recording \in [BufferArrays -> SUBSET Indices]
  BY <1>1, ScopesAreNot DEF TypeInv
<1>4. recording' \in [BufferArrays -> SUBSET Indices] /\ \A a \in BufferArrays : recording'[a] \subseteq recording[a]
  BY <1>2, <1>3
<1>5. \A a \in BufferArrays : \A n \in recording'[a] : Owned(a, n)'
  BY <1>1, <1>2, <1>4 DEF ScopeInv, Owned
<1> QED
  BY <1>2, <1>4, <1>5, LessRecording

LEMMA DropInv == ASSUME PoolInv, NEW c \in held, Drop(c) PROVE PoolInv'
<1> DEFINE others == {scope[s] : s \in Slots}
<1>1. TypeInv /\ ScopeInv
  BY DEF PoolInv
<1>2. /\ held' = held \ {c} /\ recording' = Dropped(c, others)
      /\ UNCHANGED <<current, allocated, pending, submitted, free, scope, head, executes,
                     enqueued, device, number, begun, finished>>
  BY DEF Drop, listVars
<1>3. c \in Scopes /\ c # NoScope
  BY <1>1, ScopesAreNot DEF TypeInv
<1>4. /\ recording' \in [BufferArrays -> SUBSET Indices]
      /\ \A a \in BufferArrays : recording'[a] \subseteq recording[a]
      /\ c \notin others => c.index \notin recording'[c.array]
  BY <1>1, <1>2, <1>3, DroppedIs
<1>5. ASSUME NEW a \in BufferArrays, NEW n \in recording'[a] PROVE Owned(a, n)'
  <2>1. Owned(a, n)
    BY <1>1, <1>4 DEF ScopeInv
  <2>2. CASE \E s \in Slots : scope[s] # NoScope /\ scope[s].array = a /\ scope[s].index = n
    BY <1>2, <2>2 DEF Owned
  <2>3. CASE \E d \in held : d.array = a /\ d.index = n
    <3>1. PICK d \in held : d.array = a /\ d.index = n
      BY <2>3
    <3>2. CASE d # c
      BY <1>2, <3>1, <3>2 DEF Owned
    <3>3. CASE d = c
      <4>1. c \in others
        BY <1>4, <3>1, <3>3
      <4>2. PICK s \in Slots : c = scope[s]
        BY <4>1
      <4> QED
        BY <1>2, <1>3, <3>1, <3>3, <4>2 DEF Owned
    <3> QED
      BY <3>2, <3>3
  <2> QED
    BY <2>1, <2>2, <2>3 DEF Owned
<1> QED
  BY <1>2, <1>4, <1>5, LessRecording

------------------------------------------------------------------------------
(***************************************************************************)
(* The pending buffers of a level are enqueued.                            *)
(***************************************************************************)

\* What Execute and EnqueueSubmit have in common.
Enqueued(l) ==
  LET s == <<current, l>>
  IN  /\ Ended(l)
      /\ scope' = [scope EXCEPT ![s] = NoScope]
      /\ recording' = Dropped(scope[s], held)
      /\ EnqueueSubmitted(s)
      /\ UNCHANGED <<current, allocated, free, head, held, device, number, begun, finished>>

LEMMA EnqueuedLists ==
  ASSUME PoolInv, NEW l \in Levels, Enqueued(l)
  PROVE  /\ ListInv' /\ pending' \in ArrayLists /\ submitted' \in ArrayLists
         /\ pending' = [pending EXCEPT ![<<current, l>>] = << >>]
         /\ \A a : Holds(pending', a) <=> Holds(pending, a) /\ ~Among(a, pending[<<current, l>>])
         /\ \A a : Holds(submitted', a) <=> Holds(submitted, a) \/ Among(a, pending[<<current, l>>])
<1> DEFINE s == <<current, l>>
<1>1. TypeInv /\ ListInv
  BY DEF PoolInv
<1>2. s \in Slots
  BY <1>1, SlotsAre DEF TypeInv
<1>3. /\ submitted' = [submitted EXCEPT ![s] = @ \o pending[s]]
      /\ pending' = [pending EXCEPT ![s] = << >>]
      /\ UNCHANGED <<allocated, free>>
  BY DEF Enqueued, EnqueueSubmitted
<1>4. /\ pending \in ArrayLists /\ submitted \in ArrayLists
      /\ Once(pending) /\ Once(submitted) /\ Once(free)
      /\ Apart(pending, submitted) /\ Apart(pending, free) /\ Apart(submitted, free)
      /\ Apart(submitted, pending)
  BY <1>1 DEF TypeInv, ListInv, Apart
<1> HIDE DEF s
<1>5. submitted' = Longer(submitted, pending, {s}) /\ pending' = Emptied(pending, {s})
  BY <1>2, <1>3, <1>4 DEF Longer, Emptied, ArrayLists
<1>6. /\ submitted' \in ArrayLists /\ pending' \in ArrayLists
      /\ Once(submitted') /\ Once(pending') /\ Apart(submitted', pending')
      /\ \A x : Holds(submitted', x) <=> Holds(submitted, x) \/ \E t \in {s} : Among(x, pending[t])
      /\ \A x : Holds(pending', x) <=> Holds(pending, x) /\ ~(\E t \in {s} : Among(x, pending[t]))
  <2>1. {s} \in SUBSET Slots
    BY <1>2
  <2> QED
    BY <1>4, <1>5, <2>1, Splice
<1>7. /\ \A x : Holds(submitted', x) <=> Holds(submitted, x) \/ Among(x, pending[s])
      /\ \A x : Holds(pending', x) <=> Holds(pending, x) /\ ~Among(x, pending[s])
      /\ \A x : Among(x, pending[s]) => Holds(pending, x)
  BY <1>2, <1>6 DEF Holds
<1>8. ListInv'
  <2>1. Once(free') /\ \A x : Holds(free', x) <=> Holds(free, x)
    BY <1>3, <1>4
  <2>2. Apart(pending', submitted') /\ Apart(pending', free') /\ Apart(submitted', free')
    BY <1>4, <1>6, <1>7, <2>1 DEF Apart
  <2>3. \A a \in BufferArrays : a <= allocated' <=> Listed(a)'
    BY <1>1, <1>3, <1>7, <2>1 DEF ListInv, Listed
  <2> QED
    BY <1>6, <2>1, <2>2, <2>3 DEF ListInv
<1> QED
  BY <1>3, <1>6, <1>7, <1>8 DEF s

LEMMA EnqueuedScopes ==
  ASSUME PoolInv, NEW l \in Levels, Enqueued(l)
  PROVE  /\ ScopeInv'
         /\ scope' \in [Slots -> Scopes \cup {NoScope}]
         /\ recording' \in [BufferArrays -> SUBSET Indices]
<1> DEFINE s == <<current, l>>
<1>1. TypeInv /\ ListInv /\ ScopeInv
  BY DEF PoolInv
<1>2. s \in Slots /\ s[2] = l
  BY <1>1, SlotsAre DEF TypeInv
<1>3. /\ scope' = [scope EXCEPT ![s] = NoScope]
      /\ recording' = Dropped(scope[s], held)
      /\ UNCHANGED <<current, allocated, free, head, held>>
  BY DEF Enqueued
<1>4. /\ pending' = [pending EXCEPT ![s] = << >>]
      /\ \A a : Holds(pending', a) <=> Holds(pending, a) /\ ~Among(a, pending[s])
  BY EnqueuedLists
<1>5. \A c \in held : c.level = l => ~(c.index \in recording[c.array])
  BY <1>1, ScopesAreNot DEF Enqueued, Ended, IsRecording, TypeInv
<1> HIDE DEF s
<1>6. /\ scope \in [Slots -> Scopes \cup {NoScope}] /\ pending \in ArrayLists
      /\ scope[s] \in Scopes \cup {NoScope}
      /\ held \subseteq Scopes
  BY <1>1, <1>2 DEF TypeInv
<1>7. /\ scope' \in [Slots -> Scopes \cup {NoScope}]
      /\ scope'[s] = NoScope /\ \A t \in Slots : t # s => scope'[t] = scope[t] /\ pending'[t] = pending[t]
  BY <1>2, <1>3, <1>4, <1>6 DEF ArrayLists
<1>8. /\ recording' \in [BufferArrays -> SUBSET Indices]
      /\ \A a \in BufferArrays : recording'[a] \subseteq recording[a]
      /\ scope[s] # NoScope /\ scope[s] \notin held => scope[s].index \notin recording'[scope[s].array]
  BY <1>1, <1>3, <1>6, DroppedIs
<1>9. \A t \in Slots : scope'[t] # NoScope =>
        Among(scope'[t].array, pending'[t]) /\ scope'[t].level = t[2] /\ scope'[t].index < head[scope'[t].array]
  <2> SUFFICES ASSUME NEW t \in Slots, scope'[t] # NoScope
               PROVE  Among(scope'[t].array, pending'[t]) /\ scope'[t].level = t[2] /\ scope'[t].index < head[scope'[t].array]
    OBVIOUS
  <2>1. scope'[t] = scope[t] /\ pending'[t] = pending[t]
    BY <1>7
  <2> QED
    BY <1>1, <2>1 DEF ScopeInv
<1>10. ASSUME NEW c \in held
       PROVE  /\ c.index < head[c.array]
              /\ c.index \in recording'[c.array] => Among(c.array, pending'[<<current, c.level>>])
  <2>1. c.array \in BufferArrays /\ c.level \in Levels
    BY <1>6, ScopesAreNot
  <2>2. c.index < head[c.array]
    BY <1>1 DEF ScopeInv
  <2>3. ASSUME c.index \in recording'[c.array] PROVE Among(c.array, pending'[<<current, c.level>>])
    <3>1. c.index \in recording[c.array]
      BY <1>8, <2>1, <2>3
    <3>2. Among(c.array, pending[<<current, c.level>>])
      BY <1>1, <3>1 DEF ScopeInv
    <3>3. <<current, c.level>> # s /\ <<current, c.level>> \in Slots
      BY <1>1, <1>5, <2>1, <3>1, SlotsAre DEF s, TypeInv
    <3> QED
      BY <1>7, <3>2, <3>3
  <2> QED
    BY <2>2, <2>3
<1>11. ASSUME NEW a \in BufferArrays, NEW n \in recording'[a]
       PROVE  n < head[a] /\ Owned(a, n)' /\ ~Among(a, pending[s]) /\ Holds(pending, a)
  <2>1. n \in recording[a]
    BY <1>8
  <2>2. n < head[a] /\ Owned(a, n) /\ Holds(pending, a)
    BY <1>1, <2>1 DEF ScopeInv
  <2>3. \A t \in Slots : Among(a, pending[s]) /\ Among(a, pending[t]) => s = t
    BY <1>1, <1>2 DEF ListInv, Once, Among
  <2>4. CASE \E c \in held : c.array = a /\ c.index = n
    <3>1. PICK c \in held : c.array = a /\ c.index = n
      BY <2>4
    <3>2. Among(a, pending[<<current, c.level>>])
      BY <1>1, <2>1, <3>1 DEF ScopeInv
    <3>3. c.level \in Levels /\ c.level # l
      BY <1>5, <1>6, <2>1, <3>1, ScopesAreNot
    <3>4. <<current, c.level>> # s /\ <<current, c.level>> \in Slots
      BY <1>1, <3>3, SlotsAre DEF s, TypeInv
    <3>5. Owned(a, n)'
      BY <1>3, <3>1 DEF Owned
    <3> QED
      BY <2>2, <2>3, <3>2, <3>4, <3>5
  <2>5. CASE \E t \in Slots : scope[t] # NoScope /\ scope[t].array = a /\ scope[t].index = n
    <3>1. PICK t \in Slots : scope[t] # NoScope /\ scope[t].array = a /\ scope[t].index = n
      BY <2>5
    <3>2. CASE t = s
      <4>1. scope[s] \in held
        BY <1>8, <3>1, <3>2
      <4> QED
        BY <2>4, <3>1, <3>2, <4>1
    <3>3. CASE t # s
      <4>1. Among(a, pending[t])
        BY <1>1, <3>1 DEF ScopeInv
      <4>2. Owned(a, n)'
        BY <1>7, <3>1, <3>3 DEF Owned
      <4> QED
        BY <2>2, <2>3, <3>3, <4>1, <4>2
    <3> QED
      BY <3>2, <3>3
  <2> QED
    BY <2>2, <2>4, <2>5 DEF Owned
<1>12. \A a \in BufferArrays : recording'[a] # {} => Holds(pending', a)
  BY <1>4, <1>11
<1>13. \A a \in BufferArrays : a > allocated \/ Holds(free, a) => head[a] = 0
  BY <1>1 DEF ScopeInv
<1>14. \A a : Holds(free', a) <=> Holds(free, a)
  BY <1>3
<1>15. ScopeInv'
  BY <1>3, <1>9, <1>10, <1>11, <1>12, <1>13, <1>14 DEF ScopeInv
<1> QED
  BY <1>7, <1>8, <1>15


LEMMA EnqueuedOrder ==
  ASSUME PoolInv, NEW l \in Levels, Enqueued(l), InFlight' = InFlight \o Recorded(l)
  PROVE  FlightInv' /\ OrderInv'
<1> DEFINE s == <<current, l>>
<1>1. TypeInv /\ ListInv /\ FlightInv /\ OrderInv
  BY DEF PoolInv
<1>2. s \in Slots
  BY <1>1, SlotsAre DEF TypeInv
<1>3. UNCHANGED <<current, head, number, begun, finished>>
  BY DEF Enqueued
<1>4. /\ pending' = [pending EXCEPT ![s] = << >>]
      /\ \A a : Holds(submitted', a) <=> Holds(submitted, a) \/ Among(a, pending[s])
  BY EnqueuedLists
<1>5. InFlight \in Seq(Buffers) /\ pending \in ArrayLists
  BY <1>1, InFlightTyped DEF TypeInv
<1>6. /\ Recorded(l) \in Seq(Buffers)
      /\ \A k \in 1 .. Len(Recorded(l)) :
           /\ Among(Recorded(l)[k][1], pending[s])
           /\ Recorded(l)[k][2] < head[Recorded(l)[k][1]]
  BY <1>1, RecordedIs
<1> HIDE DEF s
<1>7. pending'[s] = << >> /\ \A t \in Slots : t # s => pending'[t] = pending[t]
  BY <1>2, <1>4, <1>5 DEF ArrayLists
<1>8. FlightInv'
  <2>1. ASSUME NEW k \in 1 .. Len(InFlight \o Recorded(l))
        PROVE  LET b == (InFlight \o Recorded(l))[k]
               IN  Holds(submitted', b[1]) /\ b[2] < head[b[1]]
    <3>1. CASE k \in 1 .. Len(InFlight) /\ (InFlight \o Recorded(l))[k] = InFlight[k]
      BY <1>1, <1>4, <3>1 DEF FlightInv
    <3>2. CASE k - Len(InFlight) \in 1 .. Len(Recorded(l))
               /\ (InFlight \o Recorded(l))[k] = Recorded(l)[k - Len(InFlight)]
      BY <1>4, <1>6, <3>2
    <3> QED
      BY <1>5, <1>6, <3>1, <3>2, Parts
  <2>2. \A k \in 1 .. Len(InFlight') :
          Holds(submitted', InFlight'[k][1]) /\ InFlight'[k][2] < head'[InFlight'[k][1]]
    BY <1>3, <2>1
  <2>3. \A b \in Buffers : b[2] < head'[b[1]] => number'[b] # NotBegun
    BY <1>1, <1>3 DEF FlightInv
  <2> QED
    BY <2>2, <2>3 DEF FlightInv
<1>9. ASSUME NEW m \in Levels PROVE LevelInOrder(m)'
  <2>1. /\ Before(m) \in Nat /\ finished[m] <= Before(m)
        /\ Consecutive(number, InFlight, m, finished[m], Before(m))
        /\ \A k \in 1 .. Len(Recorded(m)) : number[Recorded(m)[k]] = <<m, Before(m) + k>>
    BY <1>1 DEF OrderInv, LevelInOrder
  <2>2. finished[m] \in Nat /\ begun[m] \in Nat
    BY <1>1 DEF TypeInv
  <2>3. CASE m = l
    <3>1. Recorded(m)' = << >>
      BY <1>3, <1>7, <2>3, AllOfNothing DEF Recorded, s
    <3>2. Len(Recorded(m)') = 0 /\ Len(Recorded(m)) \in Nat
      BY <1>6, <2>3, <3>1, EmptySeq, LenProperties
    <3>3. Before(m)' = begun[m] /\ Before(m)' = Before(m) + Len(Recorded(m))
      BY <1>3, <2>2, <3>2 DEF Before
    <3>4. Consecutive(number, InFlight \o Recorded(m), m, finished[m], Before(m) + Len(Recorded(m)))
      BY <1>5, <1>6, <2>1, <2>2, <2>3, ConsecutiveMore
    <3>5. Before(m)' \in Nat /\ finished[m] <= Before(m)'
      BY <2>1, <2>2, <3>2, <3>3
    <3> QED
      BY <1>3, <2>3, <3>2, <3>3, <3>4, <3>5 DEF LevelInOrder
  <2>4. CASE m # l
    <3>1. <<current, m>> \in Slots /\ <<current, m>> # s
      BY <1>1, <2>4, SlotsAre DEF TypeInv, s
    <3>2. Recorded(m)' = Recorded(m)
      BY <1>3, <1>7, <3>1 DEF Recorded
    <3>3. Before(m)' = Before(m)
      BY <1>3, <3>2 DEF Before
    <3>4. \A k \in 1 .. Len(Recorded(l)) : number[Recorded(l)[k]][1] # m
      <4>1. \A k \in 1 .. Len(Recorded(l)) : number[Recorded(l)[k]] = <<l, Before(l) + k>>
        BY <1>1 DEF OrderInv, LevelInOrder
      <4>2. \A k \in 1 .. Len(Recorded(l)) : number[Recorded(l)[k]][1] = l
        BY <4>1
      <4> QED
        BY <2>4, <4>2
    <3>5. Consecutive(number, InFlight \o Recorded(l), m, finished[m], Before(m))
      BY <1>5, <1>6, <2>1, <3>4, ConsecutiveOther
    <3> QED
      BY <1>3, <2>1, <3>2, <3>3, <3>5 DEF LevelInOrder
  <2> QED
    BY <2>3, <2>4
<1> QED
  BY <1>8, <1>9 DEF OrderInv

\* With what each puts behind the others, and the primary buffer.
LEMMA EnqueuedInv ==
  ASSUME PoolInv, NEW l \in Levels, Enqueued(l), InFlight' = InFlight \o Recorded(l),
         executes' \in Seq(Buffers), enqueued' \in Seq(Buffers),
         executes' # << >> => pending'[<<current, 0>>] # << >>
  PROVE  PoolInv'
<1>1. TypeInv /\ PendingInv
  BY DEF PoolInv
<1>2. UNCHANGED <<current, allocated, free, head, held, device, number, begun, finished>>
  BY DEF Enqueued
<1>3. /\ ListInv' /\ pending' \in ArrayLists /\ submitted' \in ArrayLists
      /\ pending' = [pending EXCEPT ![<<current, l>>] = << >>]
  BY EnqueuedLists
<1>4. ScopeInv' /\ scope' \in [Slots -> Scopes \cup {NoScope}] /\ recording' \in [BufferArrays -> SUBSET Indices]
  BY EnqueuedScopes
<1>5. FlightInv' /\ OrderInv'
  BY EnqueuedOrder
<1>6. TypeInv'
  BY <1>1, <1>2, <1>3, <1>4 DEF TypeInv
<1>7. PendingInv'
  <2>1. ASSUME NEW m \in Levels PROVE pending'[<<1 - current, m>>] = << >>
    <3>1. <<1 - current, m>> # <<current, l>> /\ <<1 - current, m>> \in Slots
      BY <1>1, SlotsAre DEF TypeInv
    <3>2. pending[<<1 - current, m>>] = << >>
      BY <1>1 DEF PendingInv
    <3> QED
      BY <1>1, <1>3, <3>1, <3>2 DEF TypeInv, ArrayLists
  <2> QED
    BY <1>2, <2>1 DEF PendingInv
<1> QED
  BY <1>3, <1>4, <1>5, <1>6, <1>7 DEF PoolInv

LEMMA ExecuteInv == ASSUME PoolInv, NEW l \in Levels, Execute(l) PROVE PoolInv'
<1>1. TypeInv /\ ScopeInv
  BY DEF PoolInv
<1>2. /\ Enqueued(l) /\ enqueued' = enqueued /\ l # 0 /\ IsRecording(scope[<<current, 0>>])
      /\ executes' = executes \o BuffersOf(pending[<<current, l>>])
  BY DEF Execute, Enqueued
<1>3. BuffersOf(pending[<<current, l>>]) = Recorded(l) /\ Recorded(l) \in Seq(Buffers)
  BY <1>1, RecordedIs
<1>4. executes' \in Seq(Buffers) /\ enqueued' \in Seq(Buffers)
  BY <1>1, <1>2, <1>3, ConcatProperties DEF TypeInv
<1>5. InFlight' = InFlight \o Recorded(l)
  <2>1. (device \o enqueued) \o (executes \o Recorded(l)) = ((device \o enqueued) \o executes) \o Recorded(l)
    <3> DEFINE p == device \o enqueued
               q == executes
               r == Recorded(l)
    <3>1. p \in Seq(Buffers) /\ q \in Seq(Buffers) /\ r \in Seq(Buffers)
      BY <1>1, <1>3, InFlightTyped DEF TypeInv
    <3> HIDE DEF p, q, r
    <3>2. p \o (q \o r) = (p \o q) \o r
      BY <3>1, ConcatAssociative
    <3> QED
      BY <3>2 DEF p, q, r
  <2>2. device' = device
    BY <1>2 DEF Enqueued
  <2> QED
    BY <1>2, <1>3, <2>1, <2>2 DEF InFlight
<1>6. pending'[<<current, 0>>] # << >>
  <2>1. <<current, 0>> \in Slots /\ <<current, 0>> # <<current, l>>
    BY <1>1, <1>2, SlotsAre DEF TypeInv
  <2>2. scope[<<current, 0>>] # NoScope
    BY <1>2 DEF IsRecording
  <2>3. Among(scope[<<current, 0>>].array, pending[<<current, 0>>])
    BY <1>1, <2>1, <2>2 DEF ScopeInv
  <2>4. pending[<<current, 0>>] # << >>
    BY <2>3, EmptySeq DEF Among
  <2>5. pending' = [pending EXCEPT ![<<current, l>>] = << >>]
    BY <1>2, EnqueuedLists
  <2> QED
    BY <1>1, <2>1, <2>4, <2>5 DEF TypeInv, ArrayLists
<1> QED
  BY <1>2, <1>4, <1>5, <1>6, EnqueuedInv

LEMMA EnqueueSubmitInv == ASSUME PoolInv, EnqueueSubmit PROVE PoolInv'
<1>1. TypeInv /\ 0 \in Levels
  BY SlotsAre DEF PoolInv
<1>2. /\ Enqueued(0) /\ executes' = << >>
      /\ enqueued' = (enqueued \o executes) \o BuffersOf(pending[<<current, 0>>])
  BY DEF EnqueueSubmit, Enqueued
<1>3. BuffersOf(pending[<<current, 0>>]) = Recorded(0) /\ Recorded(0) \in Seq(Buffers)
  BY <1>1, RecordedIs
<1>4. device \in Seq(Buffers) /\ enqueued \in Seq(Buffers) /\ executes \in Seq(Buffers)
  BY <1>1 DEF TypeInv
<1>5. executes' \in Seq(Buffers) /\ enqueued' \in Seq(Buffers)
  BY <1>2, <1>3, <1>4, ConcatProperties, EmptySeq
<1>6. InFlight' = InFlight \o Recorded(0)
  <2> DEFINE r == Recorded(0)
  <2>1. r \in Seq(Buffers)
    BY <1>3
  <2> HIDE DEF r
  <2>2. enqueued \o executes \in Seq(Buffers)
    BY <1>4, ConcatProperties
  <2>3. device \o ((enqueued \o executes) \o r) = (device \o (enqueued \o executes)) \o r
    BY <1>4, <2>1, <2>2, ConcatAssociative
  <2>4. device \o (enqueued \o executes) = (device \o enqueued) \o executes
    BY <1>4, ConcatAssociative
  <2>5. (device \o ((enqueued \o executes) \o r)) \o << >> = device \o ((enqueued \o executes) \o r)
    BY <1>4, <2>1, <2>2, ConcatProperties, ConcatEmptySeq
  <2>6. device' = device
    BY <1>2 DEF Enqueued
  <2>7. enqueued' = (enqueued \o executes) \o r
    BY <1>2, <1>3 DEF r
  <2>8. InFlight' = InFlight \o r
    BY <1>2, <2>3, <2>4, <2>5, <2>6, <2>7 DEF InFlight
  <2> QED
    BY <2>8 DEF r
<1> QED
  BY <1>1, <1>2, <1>5, <1>6, EnqueuedInv

------------------------------------------------------------------------------
(***************************************************************************)
(* A buffer is begun.                                                      *)
(***************************************************************************)

\* Its array is the last of those pending then, which it was already or it was
\* empty.
Lasts(s, a) ==
  \E q \in Seq(BufferArrays) :
    /\ ~Among(a, q) /\ pending'[s] = Append(q, a)
    /\ pending[s] = Append(q, a) \/ (pending[s] = q /\ head[a] = 0)

\* What the lists become when it is pending.
Begun(s, a) ==
  /\ ListInv' /\ allocated' \in 0 .. MaxBegins /\ pending' \in ArrayLists /\ free' \in ArrayLists
  /\ head[a] + 1 < ArrayCapacity
  /\ \A t \in Slots : t # s => pending'[t] = pending[t]
  /\ \A x : Among(x, pending[s]) => Among(x, pending'[s])
  /\ \A x : Holds(pending, x) => Holds(pending', x)
  /\ \A x : Holds(free', x) => Holds(free, x)
  /\ Among(a, pending'[s]) /\ Holds(pending', a) /\ ~Holds(free', a)
  /\ allocated <= allocated' /\ a <= allocated'
  /\ Lasts(s, a)

\* The array was empty and in none of the lists of pending and submitted ones.
LEMMA PendingOne ==
  ASSUME PoolInv, NEW s \in Slots, NEW a \in BufferArrays, head[a] = 0,
         ~Holds(pending, a), ~Holds(submitted, a),
         pending' = WithArray(pending, s, a), submitted' = submitted,
         free' \in ArrayLists, Once(free'), ~Holds(free', a),
         \A x : x # a => (Holds(free', x) <=> Holds(free, x)),
         allocated' \in 0 .. MaxBegins, allocated <= allocated',
         \A b \in BufferArrays : b <= allocated' <=> b <= allocated \/ b = a
  PROVE  Begun(s, a)
<1>1. TypeInv /\ ListInv
  BY DEF PoolInv
<1>2. pending \in ArrayLists /\ pending[s] \in Seq(BufferArrays)
  BY <1>1 DEF TypeInv, ArrayLists
<1>3. /\ pending' \in ArrayLists
      /\ \A x : Holds(pending', x) <=> Holds(pending, x) \/ x = a
      /\ Once(pending')
  <2>1. Once(pending)
    BY <1>1 DEF ListInv
  <2>2. pending \in ArrayLists
    BY <1>2
  <2>3. pending' \in ArrayLists
    BY <2>2, AppendToList
  <2>4. \A x : Holds(pending', x) <=> Holds(pending, x) \/ x = a
    BY <2>2, AppendToList
  <2>5. Once(pending')
    BY <2>1, <2>2, AppendToList
  <2> QED
    BY <2>3, <2>4, <2>5
<1>4. \A x : Holds(submitted', x) <=> Holds(submitted, x)
  OBVIOUS
<1>5. ListInv'
  <2>1. Once(submitted')
    BY <1>1 DEF ListInv
  <2>2. Apart(pending', submitted') /\ Apart(pending', free') /\ Apart(submitted', free')
    BY <1>1, <1>3, <1>4 DEF ListInv, Apart
  <2>3. \A b \in BufferArrays : b <= allocated' <=> Listed(b)'
    BY <1>1, <1>3, <1>4 DEF ListInv, Listed
  <2> QED
    BY <1>3, <2>1, <2>2, <2>3 DEF ListInv
<1>6. pending'[s] = Append(pending[s], a) /\ \A t \in Slots : t # s => pending'[t] = pending[t]
  BY <1>2 DEF ArrayLists, WithArray
<1>7. \A x : Among(x, pending'[s]) <=> Among(x, pending[s]) \/ x = a
  BY <1>2, <1>6, AmongAppend
<1>8. Lasts(s, a)
  <2>1. ~Among(a, pending[s])
    BY DEF Holds
  <2> QED
    BY <1>2, <1>6, <2>1, Zenon DEF Lasts
<1>9. head[a] + 1 < ArrayCapacity
  BY BoundsAssumption
<1>10. a <= allocated'
  OBVIOUS
<1>11. \A x : Holds(free', x) => Holds(free, x)
  OBVIOUS
<1> QED
  BY <1>3, <1>5, <1>6, <1>7, <1>8, <1>9, <1>10, <1>11 DEF Begun

LEMMA BeginLists ==
  ASSUME PoolInv, NEW s \in Slots, NEW a \in BufferArrays, a = Source(s),
         EnqueueOnePending(s, a), submitted' = submitted
  PROVE  Begun(s, a)
<1>1. TypeInv /\ ListInv /\ ScopeInv
  BY DEF PoolInv
<1>2. /\ pending \in ArrayLists /\ pending[s] \in Seq(BufferArrays)
      /\ free \in ArrayLists /\ free[s] \in Seq(BufferArrays)
      /\ allocated \in 0 .. MaxBegins /\ MaxBegins \in Nat /\ head \in Heads
  BY <1>1, BoundsAssumption DEF TypeInv, ArrayLists
<1>3. a \in ToSet(pending[s]) <=> Among(a, pending[s])
  BY <1>2, AmongSet
<1>4. CASE pending[s] # << >> /\ ~Full(Last(pending[s]))
  <2>1. PICK q \in Seq(BufferArrays), e \in BufferArrays : pending[s] = Append(q, e)
    BY <1>2, <1>4, SequenceEmptyOrAppend
  <2>2. /\ Len(Append(q, e)) = Len(q) + 1 /\ Len(q) \in Nat
        /\ \A k \in 1 .. Len(q) : Append(q, e)[k] = q[k]
        /\ Append(q, e)[Len(q) + 1] = e
    BY AppendProperties, LenProperties
  <2>3. Last(pending[s]) = e
    BY <2>1, <2>2 DEF Last
  <2>4. a = e /\ ~Full(a)
    BY <1>4, <2>3 DEF Source
  <2>5. Among(a, pending[s]) /\ Holds(pending, a)
    <3>1. Among(a, Append(q, e))
      BY <2>4, AmongAppend
    <3> QED
      BY <2>1, <3>1 DEF Holds
  <2>6. allocated' = allocated /\ pending' = pending /\ free' = free
    BY <1>3, <2>5 DEF EnqueueOnePending
  <2>7. ~Among(a, q)
    <3> SUFFICES ASSUME NEW k \in 1 .. Len(q), q[k] = a PROVE FALSE
      BY DEF Among
    <3>1. /\ k \in 1 .. Len(pending[s]) /\ pending[s][k] = a
          /\ Len(q) + 1 \in 1 .. Len(pending[s]) /\ pending[s][Len(q) + 1] = a
      BY <2>1, <2>2, <2>4
    <3>2. k = Len(q) + 1
      BY <1>1, <3>1 DEF ListInv, Once
    <3> QED
      BY <2>2, <3>2
  <2>8. Lasts(s, a)
    BY <2>1, <2>4, <2>6, <2>7 DEF Lasts
  <2>9. head[a] + 1 < ArrayCapacity
    BY <1>2, <2>4, HeadsAre, BoundsAssumption DEF Full
  <2>10. ListInv'
    BY <1>1, <2>6, KeepLists
  <2>11. a <= allocated /\ ~Holds(free, a)
    BY <1>1, <2>5 DEF ListInv, Listed, Apart
  <2> QED
    BY <1>2, <2>5, <2>6, <2>8, <2>9, <2>10, <2>11 DEF Begun
<1>5. CASE ~(pending[s] # << >> /\ ~Full(Last(pending[s]))) /\ free[s] # << >>
  <2>1. a = Head(free[s])
    BY <1>5 DEF Source
  <2>2. Among(a, free[s])
    BY <1>1, <1>2, <1>5, <2>1, HeadTailProperties, EmptySeq DEF Among
  <2>3. Holds(free, a)
    BY <2>2 DEF Holds
  <2>4. /\ ~Holds(pending, a) /\ ~Holds(submitted, a) /\ a <= allocated /\ head[a] = 0
    BY <1>1, <2>3 DEF ListInv, Apart, Listed, ScopeInv
  <2>5. ~Among(a, pending[s]) /\ a # allocated + 1
    BY <1>2, <2>4 DEF Holds
  <2>6. /\ pending' = WithArray(pending, s, a)
        /\ free' = [free EXCEPT ![s] = Tail(@)] /\ allocated' = allocated
    BY <1>3, <2>5 DEF EnqueueOnePending, WithArray
  <2>7. /\ free' \in ArrayLists /\ Once(free')
        /\ \A x : Holds(free', x) <=> Holds(free, x) /\ x # a
    BY <1>1, <1>2, <1>5, <2>1, <2>6, TakeFromList DEF ListInv
  <2>8. \A b \in BufferArrays : b <= allocated' <=> b <= allocated \/ b = a
    BY <2>4, <2>6
  <2>9. allocated' \in 0 .. MaxBegins /\ allocated <= allocated'
    BY <1>2, <2>6
  <2>10. ~Holds(free', a) /\ \A x : x # a => (Holds(free', x) <=> Holds(free, x))
    BY <2>7
  <2> QED
    BY <2>4, <2>6, <2>7, <2>8, <2>9, <2>10, PendingOne
<1>6. CASE ~(pending[s] # << >> /\ ~Full(Last(pending[s]))) /\ free[s] = << >>
  <2>1. a = allocated + 1
    BY <1>6 DEF Source
  <2>2. ~Listed(a) /\ head[a] = 0
    BY <1>1, <1>2, <2>1 DEF ListInv, ScopeInv
  <2>3. ~Holds(pending, a) /\ ~Holds(submitted, a) /\ ~Holds(free, a) /\ ~Among(a, pending[s])
    BY <2>2 DEF Listed, Holds
  <2>4. pending' = WithArray(pending, s, a) /\ free' = free /\ allocated' = a
    BY <1>3, <2>1, <2>3 DEF EnqueueOnePending, WithArray
  <2>5. free' \in ArrayLists /\ Once(free') /\ \A x : Holds(free', x) <=> Holds(free, x)
    BY <1>1, <1>2, <2>4 DEF ListInv
  <2>6. allocated' \in 0 .. MaxBegins /\ allocated <= allocated'
    BY <1>2, <2>1, <2>4 DEF BufferArrays
  <2>7. \A b \in BufferArrays : b <= allocated' <=> b <= allocated \/ b = a
    BY <1>2, <2>1, <2>4 DEF BufferArrays
  <2> QED
    BY <2>2, <2>3, <2>4, <2>5, <2>6, <2>7, PendingOne
<1> QED
  BY <1>4, <1>5, <1>6

\* A step that begins a buffer of a level, and of which array and scope.
Begins(l, a, c) ==
  LET s == <<current, l>>
  IN  /\ Begun(s, a)
      /\ c \in Scopes /\ c.array = a /\ c.index = head[a] /\ c.level = l
      /\ recording' = [Dropped(scope[s], held) EXCEPT ![a] = @ \cup {head[a]}]
      /\ head' = [head EXCEPT ![a] = @ + 1]
      /\ number' = [number EXCEPT ![<<a, head[a]>>] = <<l, begun[l] + 1>>]
      /\ begun' = [begun EXCEPT ![l] = @ + 1]
      /\ scope' = [scope EXCEPT ![s] = c]
      /\ held' = held \cup {c}
      /\ UNCHANGED <<current, submitted, executes, enqueued, device, finished>>

LEMMA BeginsIs ==
  ASSUME PoolInv, NEW l \in Levels, NEW i \in Inheritances \cup {NoInheritance}, BeginScope(l, i)
  PROVE  \E a \in BufferArrays, c \in Scopes : Begins(l, a, c)
<1> DEFINE s == <<current, l>>
           a == Source(s)
           c == [array |-> a, index |-> head[a], level |-> l, inherits |-> i]
<1>1. TypeInv
  BY DEF PoolInv
<1>2. s \in Slots
  BY <1>1, SlotsAre DEF TypeInv
<1>3. a \in BufferArrays
  BY DEF BeginScope
<1>4. EnqueueOnePending(s, a) /\ submitted' = submitted
  BY DEF BeginScope
<1>5. Begun(s, a)
  <2> HIDE DEF s
  <2> DEFINE b == a
  <2>1. b = Source(s) /\ b \in BufferArrays /\ EnqueueOnePending(s, b)
    BY <1>3, <1>4
  <2> HIDE DEF b
  <2>2. Begun(s, b)
    BY <1>2, <1>4, <2>1, BeginLists
  <2> QED
    BY <2>2 DEF b
<1>6. head[a] \in Indices
  BY <1>1, <1>3 DEF TypeInv, Heads
<1>7. c \in Scopes
  BY <1>3, <1>6 DEF Scopes
<1>8. Begins(l, a, c)
  BY <1>5, <1>7 DEF Begins, BeginScope
<1> QED
  BY <1>3, <1>7, <1>8

\* What such a step does, array by array and slot by slot.
Becomes(l, a, c) ==
  /\ TypeInv'
  /\ head[a] \in Nat /\ head'[a] = head[a] + 1
  /\ \A b \in BufferArrays : b # a => head'[b] = head[b]
  /\ scope'[<<current, l>>] = c
  /\ \A t \in Slots : t # <<current, l>> => scope'[t] = scope[t]
  /\ \A b \in BufferArrays : \A n \in recording'[b] :
       (b = a /\ n = head[a]) \/ n \in Dropped(scope[<<current, l>>], held)[b]
  /\ \A b \in Buffers : b[2] < head[b[1]] => number'[b] = number[b]
  /\ number'[<<a, head[a]>>] = <<l, begun[l] + 1>>
  /\ \A b \in Buffers : b[2] < head'[b[1]] => b[2] < head[b[1]] \/ b = <<a, head[a]>>
  /\ begun'[l] = begun[l] + 1
  /\ \A m \in Levels : m # l => begun'[m] = begun[m]

LEMMA BeginsAre ==
  ASSUME PoolInv, NEW l \in Levels, NEW a \in BufferArrays, NEW c \in Scopes, Begins(l, a, c)
  PROVE  Becomes(l, a, c)
<1> DEFINE s == <<current, l>>
           D == Dropped(scope[s], held)
<1>1. TypeInv
  BY DEF PoolInv
<1>2. s \in Slots
  BY <1>1, SlotsAre DEF TypeInv
<1>3. /\ Begun(s, a)
      /\ c \in Scopes /\ c.array = a /\ c.index = head[a] /\ c.level = l
      /\ recording' = [D EXCEPT ![a] = @ \cup {head[a]}]
      /\ head' = [head EXCEPT ![a] = @ + 1]
      /\ number' = [number EXCEPT ![<<a, head[a]>>] = <<l, begun[l] + 1>>]
      /\ begun' = [begun EXCEPT ![l] = @ + 1]
      /\ scope' = [scope EXCEPT ![s] = c]
      /\ held' = held \cup {c}
      /\ UNCHANGED <<current, submitted, executes, enqueued, device, finished>>
  BY DEF Begins
<1> HIDE DEF s
<1>4. /\ head \in Heads /\ head[a] \in Nat /\ head[a] \in Indices
      /\ scope \in [Slots -> Scopes \cup {NoScope}] /\ held \subseteq Scopes
      /\ number \in [Buffers -> Levels \X Nat] /\ begun \in [Levels -> Nat]
  BY <1>1, HeadsAre DEF TypeInv, Heads
<1>5. head[a] + 1 \in Indices
  <2>1. head[a] + 1 < ArrayCapacity
    BY <1>3 DEF Begun
  <2> QED
    BY <1>4, <2>1, BoundsAssumption DEF Indices
<1>6. head' \in Heads /\ head'[a] = head[a] + 1 /\ \A b \in BufferArrays : b # a => head'[b] = head[b]
  BY <1>3, <1>4, <1>5 DEF Heads
<1>7. D \in [BufferArrays -> SUBSET Indices]
  <2>1. scope[s] \in Scopes \cup {NoScope}
    BY <1>2, <1>4
  <2> QED
    BY <1>1, <2>1, DroppedIs
<1> HIDE DEF D
<1>8. recording' \in [BufferArrays -> SUBSET Indices]
  BY <1>3, <1>4, <1>7
<1>9. \A b \in BufferArrays : \A n \in recording'[b] : (b = a /\ n = head[a]) \/ n \in D[b]
  BY <1>3, <1>7
<1>10. /\ scope' \in [Slots -> Scopes \cup {NoScope}] /\ scope'[s] = c
       /\ \A t \in Slots : t # s => scope'[t] = scope[t]
  BY <1>2, <1>3, <1>4
<1>11. <<a, head[a]>> \in Buffers
  BY <1>4 DEF Buffers
<1>12. <<l, begun[l] + 1>> \in Levels \X Nat
  BY <1>4
<1>13. /\ number' \in [Buffers -> Levels \X Nat] /\ number'[<<a, head[a]>>] = <<l, begun[l] + 1>>
       /\ \A b \in Buffers : b # <<a, head[a]>> => number'[b] = number[b]
  BY <1>3, <1>4, <1>11, <1>12
<1>14. begun' \in [Levels -> Nat] /\ begun'[l] = begun[l] + 1 /\ \A m \in Levels : m # l => begun'[m] = begun[m]
  BY <1>3, <1>4
<1>15. \A b \in Buffers : b[2] < head[b[1]] => b # <<a, head[a]>>
  BY <1>4
<1>16. \A b \in Buffers : b[2] < head'[b[1]] => b[2] < head[b[1]] \/ b = <<a, head[a]>>
  <2> SUFFICES ASSUME NEW b \in Buffers, b[2] < head'[b[1]], ~(b[2] < head[b[1]]) PROVE b = <<a, head[a]>>
    OBVIOUS
  <2>1. b[1] \in BufferArrays /\ b[2] \in Nat /\ b = <<b[1], b[2]>>
    BY BoundsAssumption DEF Buffers, Indices
  <2>2. b[1] = a
    BY <1>6, <2>1
  <2>3. b[2] = head[a]
    BY <1>4, <1>6, <2>1, <2>2
  <2> QED
    BY <2>1, <2>2, <2>3
<1>17. TypeInv'
  BY <1>1, <1>3, <1>6, <1>8, <1>10, <1>13, <1>14 DEF TypeInv, Begun
<1> QED
  BY <1>4, <1>6, <1>9, <1>10, <1>13, <1>14, <1>15, <1>16, <1>17 DEF Becomes, s, D

LEMMA BeginsScopes ==
  ASSUME PoolInv, NEW l \in Levels, NEW a \in BufferArrays, NEW c \in Scopes, Begins(l, a, c)
  PROVE  ScopeInv'
<1> DEFINE s == <<current, l>>
           D == Dropped(scope[s], held)
<1>1. TypeInv /\ ScopeInv
  BY DEF PoolInv
<1>2. s \in Slots /\ s[2] = l
  BY <1>1, SlotsAre DEF TypeInv
<1>3. /\ c.array = a /\ c.index = head[a] /\ c.level = l
      /\ held' = held \cup {c} /\ current' = current
      /\ Begun(s, a)
  BY DEF Begins
<1>4. /\ \A t \in Slots : t # s => pending'[t] = pending[t]
      /\ \A x : Among(x, pending[s]) => Among(x, pending'[s])
      /\ \A x : Holds(pending, x) => Holds(pending', x)
      /\ \A x : Holds(free', x) => Holds(free, x)
      /\ Among(a, pending'[s]) /\ Holds(pending', a) /\ ~Holds(free', a)
      /\ allocated <= allocated' /\ a <= allocated' /\ allocated \in Int /\ allocated' \in Int
      /\ \A b \in BufferArrays : b \in Int
  <2>1. allocated \in Int /\ allocated' \in Int /\ \A b \in BufferArrays : b \in Int
    BY <1>1, <1>3, BoundsAssumption DEF TypeInv, Begun, BufferArrays
  <2> QED
    BY <1>3, <2>1 DEF Begun
<1>5. /\ TypeInv'
      /\ head[a] \in Nat /\ head'[a] = head[a] + 1
      /\ \A b \in BufferArrays : b # a => head'[b] = head[b]
      /\ scope'[s] = c
      /\ \A t \in Slots : t # s => scope'[t] = scope[t]
      /\ \A b \in BufferArrays : \A n \in recording'[b] : (b = a /\ n = head[a]) \/ n \in D[b]
  <2>1. Becomes(l, a, c)
    BY BeginsAre
  <2> QED
    BY <2>1 DEF Becomes
<1>6. /\ \A b \in BufferArrays : D[b] \subseteq recording[b]
      /\ scope[s] # NoScope /\ scope[s] \notin held => scope[s].index \notin D[scope[s].array]
  <2>1. scope[s] \in Scopes \cup {NoScope}
    BY <1>1, <1>2 DEF TypeInv
  <2> QED
    BY <1>1, <2>1, DroppedIs
<1> HIDE DEF s, D
<1>7. \A b \in BufferArrays, n \in Indices : n < head[b] => n < head'[b]
  <2>1. \A n \in Indices : n \in Nat
    BY BoundsAssumption DEF Indices
  <2> QED
    BY <1>5, <2>1
<1>8. \A d \in Scopes : d.array \in BufferArrays /\ d.index \in Indices /\ d.level \in Levels
  BY ScopesAreNot
<1>9. \A t \in Slots : \A x : Among(x, pending[t]) => Among(x, pending'[t])
  BY <1>4
<1>10. ASSUME NEW t \in Slots, scope'[t] # NoScope
       PROVE  /\ Among(scope'[t].array, pending'[t])
              /\ scope'[t].level = t[2] /\ scope'[t].index < head'[scope'[t].array]
  <2>1. CASE t = s
    BY <1>2, <1>3, <1>4, <1>5, <2>1
  <2>2. CASE t # s
    <3>1. scope'[t] = scope[t] /\ scope[t] \in Scopes
      BY <1>1, <1>5, <1>10, <2>2 DEF TypeInv
    <3>2. Among(scope[t].array, pending[t]) /\ scope[t].level = t[2] /\ scope[t].index < head[scope[t].array]
      BY <1>1, <1>10, <3>1 DEF ScopeInv
    <3> QED
      BY <1>7, <1>8, <1>9, <3>1, <3>2
  <2> QED
    BY <2>1, <2>2
<1>11. ASSUME NEW d \in held'
       PROVE  /\ d.index < head'[d.array]
              /\ d.index \in recording'[d.array] => Among(d.array, pending'[<<current, d.level>>])
  <2>1. CASE d = c
    BY <1>3, <1>4, <1>5, <2>1 DEF s
  <2>2. CASE d # c
    <3>1. d \in held /\ d \in Scopes
      BY <1>1, <1>3, <2>2 DEF TypeInv
    <3>2. d.index < head[d.array]
      BY <1>1, <3>1 DEF ScopeInv
    <3>3. ASSUME d.index \in recording'[d.array] PROVE Among(d.array, pending'[<<current, d.level>>])
      <4>1. ~(d.array = a /\ d.index = head[a])
        BY <1>5, <3>2
      <4>2. d.index \in recording[d.array]
        BY <1>5, <1>6, <1>8, <3>1, <3>3, <4>1
      <4>3. Among(d.array, pending[<<current, d.level>>])
        BY <1>1, <3>1, <4>2 DEF ScopeInv
      <4>4. <<current, d.level>> \in Slots
        BY <1>1, <1>8, <3>1, SlotsAre DEF TypeInv
      <4> QED
        BY <1>9, <4>3, <4>4
    <3> QED
      BY <1>7, <1>8, <3>1, <3>2, <3>3
  <2> QED
    BY <2>1, <2>2
<1>12. ASSUME NEW b \in BufferArrays, NEW n \in recording'[b]
       PROVE  n < head'[b] /\ Owned(b, n)' /\ Holds(pending', b)
  <2>1. CASE b = a /\ n = head[a]
    <3>1. Owned(b, n)'
      BY <1>3, <2>1 DEF Owned
    <3> QED
      BY <1>4, <1>5, <2>1, <3>1
  <2>2. CASE n \in D[b]
    <3>1. n \in recording[b] /\ n \in Indices
      BY <1>1, <1>6, <2>2 DEF TypeInv
    <3>2. n < head[b] /\ Owned(b, n) /\ Holds(pending, b)
      BY <1>1, <3>1 DEF ScopeInv
    <3>3. CASE \E d \in held : d.array = b /\ d.index = n
      <4>1. Owned(b, n)'
        BY <1>3, <3>3 DEF Owned
      <4> QED
        BY <1>4, <1>7, <3>1, <3>2, <4>1
    <3>4. CASE \E t \in Slots : scope[t] # NoScope /\ scope[t].array = b /\ scope[t].index = n
      <4>1. PICK t \in Slots : scope[t] # NoScope /\ scope[t].array = b /\ scope[t].index = n
        BY <3>4
      <4>2. CASE t = s
        <5>1. scope[s] \in held
          BY <1>6, <2>2, <4>1, <4>2
        <5> QED
          BY <3>3, <4>1, <4>2, <5>1
      <4>3. CASE t # s
        <5>1. Owned(b, n)'
          BY <1>5, <4>1, <4>3 DEF Owned
        <5> QED
          BY <1>4, <1>7, <3>1, <3>2, <5>1
      <4> QED
        BY <4>2, <4>3
    <3> QED
      BY <3>2, <3>3, <3>4 DEF Owned
  <2> QED
    BY <1>5, <2>1, <2>2
<1>13. ASSUME NEW b \in BufferArrays, b > allocated' \/ Holds(free', b) PROVE head'[b] = 0
  <2>1. b # a /\ (b > allocated \/ Holds(free, b))
    BY <1>4, <1>13
  <2>2. head[b] = 0
    BY <1>1, <2>1 DEF ScopeInv
  <2> QED
    BY <1>5, <2>1, <2>2
<1> QED
  BY <1>3, <1>10, <1>11, <1>12, <1>13 DEF ScopeInv

LEMMA BeginsFlight ==
  ASSUME PoolInv, NEW l \in Levels, NEW a \in BufferArrays, NEW c \in Scopes, Begins(l, a, c)
  PROVE  /\ InFlight' = InFlight /\ FlightInv'
         /\ \A k \in 1 .. Len(InFlight) : number'[InFlight[k]] = number[InFlight[k]]
<1>1. TypeInv /\ FlightInv
  BY DEF PoolInv
<1>2. UNCHANGED <<submitted, executes, enqueued, device>>
  BY DEF Begins
<1>3. InFlight' = InFlight
  BY <1>2 DEF InFlight
<1>4. /\ head[a] \in Nat /\ head'[a] = head[a] + 1
      /\ \A b \in BufferArrays : b # a => head'[b] = head[b]
      /\ \A b \in Buffers : b[2] < head[b[1]] => number'[b] = number[b]
      /\ number'[<<a, head[a]>>] = <<l, begun[l] + 1>>
      /\ \A b \in Buffers : b[2] < head'[b[1]] => b[2] < head[b[1]] \/ b = <<a, head[a]>>
  <2>1. Becomes(l, a, c)
    BY BeginsAre
  <2> QED
    BY <2>1 DEF Becomes
<1>5. \A k \in 1 .. Len(InFlight) : InFlight[k] \in Buffers
  BY <1>1, InFlightTyped, ElementOfSeq
<1>6. \A b \in Buffers : b[1] \in BufferArrays /\ b[2] \in Nat
  BY BoundsAssumption DEF Buffers, Indices
<1>7. \A k \in 1 .. Len(InFlight) :
        Holds(submitted, InFlight[k][1]) /\ InFlight[k][2] < head[InFlight[k][1]]
  BY <1>1 DEF FlightInv
<1>8. \A b \in Buffers : b[2] < head[b[1]] => b[2] < head'[b[1]]
  BY <1>4, <1>6
<1>9. \A k \in 1 .. Len(InFlight) :
        Holds(submitted', InFlight[k][1]) /\ InFlight[k][2] < head'[InFlight[k][1]]
  BY <1>2, <1>5, <1>7, <1>8
<1>10. <<l, begun[l] + 1>> # NotBegun
  <2>1. begun[l] \in Nat
    BY <1>1 DEF TypeInv
  <2> QED
    BY <2>1 DEF NotBegun
<1>11. \A b \in Buffers : b[2] < head'[b[1]] => number'[b] # NotBegun
  BY <1>1, <1>4, <1>10 DEF FlightInv
<1>12. FlightInv'
  BY <1>3, <1>9, <1>11 DEF FlightInv
<1> QED
  BY <1>3, <1>4, <1>5, <1>7, <1>12

LEMMA BeginsRecorded ==
  ASSUME PoolInv, NEW l \in Levels, NEW a \in BufferArrays, NEW c \in Scopes, Begins(l, a, c)
  PROVE  /\ Recorded(l)' = Append(Recorded(l), <<a, head[a]>>)
         /\ \A m \in Levels : m # l => Recorded(m)' = Recorded(m)
<1> DEFINE s == <<current, l>>
<1>1. TypeInv
  BY DEF PoolInv
<1>2. s \in Slots
  BY <1>1, SlotsAre DEF TypeInv
<1>3. Begun(s, a) /\ current' = current /\ head' = [head EXCEPT ![a] = @ + 1]
  BY DEF Begins
<1>4. head \in Heads /\ head' \in Heads
  <2>1. TypeInv'
    <3>1. Becomes(l, a, c)
      BY BeginsAre
    <3> QED
      BY <3>1 DEF Becomes
  <2> QED
    BY <1>1, <2>1 DEF TypeInv
<1> HIDE DEF s
<1>5. PICK q \in Seq(BufferArrays) :
        /\ ~Among(a, q) /\ pending'[s] = Append(q, a)
        /\ pending[s] = Append(q, a) \/ (pending[s] = q /\ head[a] = 0)
  BY <1>3 DEF Begun, Lasts
<1>6. /\ BufferedAll(Append(q, a), head') = Append(BufferedAll(Append(q, a), head), <<a, head[a]>>)
      /\ head[a] = 0 => BufferedAll(Append(q, a), head') = Append(BufferedAll(q, head), <<a, 0>>)
  BY <1>3, <1>4, <1>5, AllBegin
<1>7. Recorded(l)' = Append(Recorded(l), <<a, head[a]>>)
  <2>1. Recorded(l)' = BufferedAll(Append(q, a), head') /\ Recorded(l) = BufferedAll(pending[s], head)
    BY <1>3, <1>5 DEF Recorded, s
  <2>2. CASE pending[s] = Append(q, a)
    BY <1>6, <2>1, <2>2
  <2>3. CASE pending[s] = q /\ head[a] = 0
    BY <1>6, <2>1, <2>3
  <2> QED
    BY <1>5, <2>2, <2>3
<1>8. ASSUME NEW m \in Levels, m # l PROVE Recorded(m)' = Recorded(m)
  <2> DEFINE t == <<current, m>>
  <2>1. t \in Slots /\ t # s
    BY <1>1, <1>8, SlotsAre DEF TypeInv, s
  <2>2. Recorded(m)' = BufferedAll(pending'[t], head') /\ Recorded(m) = BufferedAll(pending[t], head)
    BY <1>3 DEF Recorded
  <2> HIDE DEF t
  <2>3. pending'[t] = pending[t] /\ pending[t] \in Seq(BufferArrays)
    BY <1>1, <1>3, <2>1 DEF Begun, TypeInv, ArrayLists
  <2>4. ~Among(a, pending[t])
    <3>1. Once(pending') /\ Among(a, pending'[s])
      BY <1>3 DEF Begun, ListInv
    <3> QED
      BY <1>2, <2>1, <2>3, <3>1 DEF Once, Among
  <2>5. \A b \in BufferArrays : Among(b, pending[t]) => head'[b] = head[b]
    BY <1>3, <1>4, <2>4 DEF Heads
  <2>6. BufferedAll(pending[t], head') = BufferedAll(pending[t], head)
    BY <2>3, <2>5, AllSame
  <2> QED
    BY <2>2, <2>3, <2>6
<1> QED
  BY <1>7, <1>8

LEMMA BeginsOrder ==
  ASSUME PoolInv, NEW l \in Levels, NEW a \in BufferArrays, NEW c \in Scopes, Begins(l, a, c)
  PROVE  OrderInv'
<1> SUFFICES ASSUME NEW m \in Levels PROVE LevelInOrder(m)'
  BY DEF OrderInv
<1>1. TypeInv
  BY DEF PoolInv
<1>2. /\ Before(m) \in Nat /\ finished[m] <= Before(m)
      /\ Consecutive(number, InFlight, m, finished[m], Before(m))
      /\ \A k \in 1 .. Len(Recorded(m)) : number[Recorded(m)[k]] = <<m, Before(m) + k>>
  BY DEF PoolInv, OrderInv, LevelInOrder
<1>3. InFlight' = InFlight /\ \A k \in 1 .. Len(InFlight) : number'[InFlight[k]] = number[InFlight[k]]
  BY BeginsFlight
<1>4. Consecutive(number', InFlight, m, finished[m], Before(m))
  BY <1>1, <1>2, <1>3, InFlightTyped, ConsecutiveSame
<1>5. /\ \A b \in Buffers : b[2] < head[b[1]] => number'[b] = number[b]
      /\ number'[<<a, head[a]>>] = <<l, begun[l] + 1>>
      /\ begun'[l] = begun[l] + 1
      /\ \A n \in Levels : n # l => begun'[n] = begun[n]
  <2>1. Becomes(l, a, c)
    BY BeginsAre
  <2> QED
    BY <2>1 DEF Becomes
<1>6. /\ Recorded(m) \in Seq(Buffers)
      /\ \A k \in 1 .. Len(Recorded(m)) :
           Recorded(m)[k] \in Buffers /\ Recorded(m)[k][2] < head[Recorded(m)[k][1]]
  BY <1>1, RecordedIs
<1>7. Len(Recorded(m)) \in Nat
  BY <1>6, LenProperties
<1>8. \A k \in 1 .. Len(Recorded(m)) : number'[Recorded(m)[k]] = <<m, Before(m) + k>>
  BY <1>2, <1>5, <1>6
<1>9. finished' = finished
  BY DEF Begins
<1>10. CASE m # l
  <2>1. Recorded(m)' = Recorded(m)
    BY <1>10, BeginsRecorded
  <2>2. Before(m)' = Before(m)
    BY <1>5, <1>10, <2>1 DEF Before
  <2> QED
    BY <1>2, <1>3, <1>4, <1>8, <1>9, <2>1, <2>2 DEF LevelInOrder
<1>11. CASE m = l
  <2> DEFINE r == Recorded(m)
             b == <<a, head[a]>>
  <2>1. Recorded(m)' = Append(r, b)
    BY <1>11, BeginsRecorded
  <2>2. b \in Buffers
    BY <1>1 DEF TypeInv, Heads, Buffers
  <2>3. r \in Seq(Buffers) /\ Len(r) \in Nat
    BY <1>6, <1>7
  <2>4. Before(m) = begun[m] - Len(r) /\ begun[m] \in Nat
    BY <1>1 DEF Before, TypeInv
  <2>5. \A k \in 1 .. Len(r) : number'[r[k]] = <<m, Before(m) + k>>
    BY <1>8
  <2>6. number'[b] = <<m, begun[m] + 1>>
    BY <1>5, <1>11
  <2>7. Before(m)' = (begun[m] + 1) - Len(Append(r, b))
    <3>1. Before(m)' = begun'[m] - Len(Append(r, b))
      BY <2>1 DEF Before
    <3>2. begun'[m] = begun[m] + 1
      BY <1>5, <1>11
    <3> QED
      BY <3>1, <3>2
  <2> HIDE DEF r, b
  <2>8. /\ Len(Append(r, b)) = Len(r) + 1
        /\ \A k \in 1 .. Len(r) : Append(r, b)[k] = r[k]
        /\ Append(r, b)[Len(r) + 1] = b
    BY <2>2, <2>3, AppendProperties
  <2>9. Before(m)' = Before(m)
    BY <2>3, <2>4, <2>7, <2>8
  <2>10. ASSUME NEW k \in 1 .. Len(Append(r, b)) PROVE number'[Append(r, b)[k]] = <<m, Before(m) + k>>
    <3>1. CASE k \in 1 .. Len(r)
      BY <2>5, <2>8, <3>1
    <3>2. CASE k \notin 1 .. Len(r)
      <4>1. k = Len(r) + 1
        BY <2>3, <2>8, <3>2
      <4>2. Before(m) + k = begun[m] + 1
        BY <2>3, <2>4, <4>1
      <4> QED
        BY <2>6, <2>8, <4>1, <4>2
    <3> QED
      BY <3>1, <3>2
  <2>11. \A k \in 1 .. Len(Recorded(m)') : number'[Recorded(m)'[k]] = <<m, Before(m)' + k>>
    BY <2>1, <2>9, <2>10
  <2> QED
    BY <1>2, <1>3, <1>4, <1>9, <2>9, <2>11 DEF LevelInOrder
<1> QED
  BY <1>10, <1>11

LEMMA BeginInv ==
  ASSUME PoolInv, NEW l \in Levels, NEW i \in Inheritances \cup {NoInheritance}, BeginScope(l, i)
  PROVE  PoolInv'
<1>1. PICK a \in BufferArrays, c \in Scopes : Begins(l, a, c)
  BY BeginsIs
<1>2. TypeInv /\ PendingInv
  BY DEF PoolInv
<1>3. Begun(<<current, l>>, a) /\ current' = current /\ executes' = executes
  BY <1>1 DEF Begins
<1>4. PendingInv'
  <2>1. ASSUME NEW m \in Levels PROVE pending'[<<1 - current, m>>] = << >>
    <3>1. <<1 - current, m>> # <<current, l>> /\ <<1 - current, m>> \in Slots
      BY <1>2, SlotsAre DEF TypeInv
    <3> QED
      BY <1>2, <1>3, <3>1 DEF PendingInv, Begun
  <2>2. pending'[<<current, l>>] # << >>
    BY <1>3, EmptySeq DEF Begun, Among
  <2>3. ASSUME executes' # << >> PROVE pending'[<<current, 0>>] # << >>
    <3>1. CASE l = 0
      BY <2>2, <3>1
    <3>2. CASE l # 0
      <4>1. <<current, 0>> # <<current, l>> /\ <<current, 0>> \in Slots
        BY <1>2, <3>2, SlotsAre DEF TypeInv
      <4> QED
        BY <1>2, <1>3, <2>3, <4>1 DEF PendingInv, Begun
    <3> QED
      BY <3>1, <3>2
  <2> QED
    BY <1>3, <2>1, <2>3 DEF PendingInv
<1>5. TypeInv'
  <2>1. Becomes(l, a, c)
    BY <1>1, BeginsAre
  <2> QED
    BY <2>1 DEF Becomes
<1>6. ListInv'
  BY <1>3 DEF Begun
<1>7. ScopeInv' /\ FlightInv' /\ OrderInv'
  BY <1>1, BeginsScopes, BeginsFlight, BeginsOrder
<1> QED
  BY <1>4, <1>5, <1>6, <1>7 DEF PoolInv

LEMMA CommandsInv ==
  ASSUME PoolInv, NEW d \in Descs, Commands(d[1], d[2])
  PROVE  PoolInv'
<1>1. d[1] \in Levels /\ d[2] \in Inheritances \cup {NoInheritance}
  BY SlotsAre DEF Descs
<1> DEFINE l == d[1]
           i == d[2]
<1>2. CASE BeginScope(l, i)
  BY <1>1, <1>2, BeginInv
<1>3. CASE /\ SameDesc(scope[<<current, l>>], l, i)
           /\ held' = held \cup {scope[<<current, l>>]}
           /\ UNCHANGED <<current, allocated, pending, submitted, free, scope, head, recording, executes,
                          enqueued, device, number, begun, finished>>
  <2>1. scope[<<current, l>>] # NoScope
    BY <1>3 DEF SameDesc
  <2> QED
    BY <1>1, <1>3, <2>1, CopyInv
<1> QED
  BY <1>2, <1>3 DEF Commands, listVars

------------------------------------------------------------------------------
(***************************************************************************)
(* The other pool is reset.                                                *)
(***************************************************************************)

\* The queue is idle then: no level of any pool has something pending, so
\* nothing records, and nothing is in flight.
LEMMA ResetIdle ==
  ASSUME PoolInv, MayReset
  PROVE  /\ \A s \in Slots : pending[s] = << >> /\ scope[s] = NoScope
         /\ \A x : ~Holds(pending, x)
         /\ \A a \in BufferArrays : recording[a] = {}
         /\ executes = << >> /\ InFlight = << >>
<1>1. TypeInv /\ ScopeInv /\ PendingInv
  BY DEF PoolInv
<1>2. \A l \in Levels : pending[<<current, l>>] = << >> /\ pending[<<1 - current, l>>] = << >>
  BY <1>1 DEF MayReset, PendingInv
<1>3. ASSUME NEW s \in Slots PROVE pending[s] = << >>
  <2>1. s = <<s[1], s[2]>> /\ s[2] \in Levels /\ (s[1] = current \/ s[1] = 1 - current)
    BY <1>1, SlotsAre DEF TypeInv, Pools
  <2> QED
    BY <1>2, <2>1
<1>4. \A x : ~Among(x, << >>)
  BY DEF Among
<1>5. \A s \in Slots : scope[s] = NoScope
  BY <1>1, <1>3, <1>4 DEF ScopeInv
<1>6. \A x : ~Holds(pending, x)
  BY <1>3, <1>4 DEF Holds
<1>7. \A a \in BufferArrays : recording[a] = {}
  BY <1>1, <1>6 DEF ScopeInv
<1>8. executes = << >>
  BY <1>1, <1>2, SlotsAre DEF PendingInv
<1>9. InFlight = << >>
  <2>1. device = << >> /\ enqueued = << >>
    BY DEF MayReset
  <2>2. << >> \o << >> = << >>
    BY ConcatEmptySeq, EmptySeq
  <2> QED
    BY <1>8, <2>1, <2>2 DEF InFlight
<1> QED
  BY <1>3, <1>5, <1>6, <1>7, <1>8, <1>9

Reset(p) == {s \in Slots : s[1] = p}

ResetLists(p) == UNION {ToSet(submitted[<<p, l>>]) : l \in Levels}

LEMMA ResetSplices ==
  ASSUME PoolInv, NEW p \in Pools, \A x : ~Holds(pending, x),
         UNCHANGED <<allocated, pending>>,
         free' = Longer(free, submitted, Reset(p)), submitted' = Emptied(submitted, Reset(p))
  PROVE  /\ ListInv' /\ free' \in ArrayLists /\ submitted' \in ArrayLists
         /\ \A a : Holds(free', a) => Holds(free, a) \/ a \in ResetLists(p)
<1>1. TypeInv /\ ListInv
  BY DEF PoolInv
<1>2. /\ free \in ArrayLists /\ submitted \in ArrayLists
      /\ Once(free) /\ Once(submitted) /\ Apart(free, submitted) /\ Once(pending)
      /\ Reset(p) \in SUBSET Slots
  BY <1>1 DEF TypeInv, ListInv, Apart, Reset
<1>3. /\ free' \in ArrayLists /\ submitted' \in ArrayLists
      /\ Once(free') /\ Once(submitted') /\ Apart(free', submitted')
      /\ \A x : Holds(free', x) <=> Holds(free, x) \/ \E s \in Reset(p) : Among(x, submitted[s])
      /\ \A x : Holds(submitted', x) <=> Holds(submitted, x) /\ ~(\E s \in Reset(p) : Among(x, submitted[s]))
  BY <1>2, Splice
<1>4. \A x : ~Holds(pending', x)
  OBVIOUS
<1>5. \A x : (\E s \in Reset(p) : Among(x, submitted[s])) => Holds(submitted, x)
  BY DEF Reset, Holds
<1>6. Once(pending')
  BY <1>2
<1>7. Apart(pending', submitted') /\ Apart(pending', free') /\ Apart(submitted', free')
  BY <1>3, <1>4 DEF Apart
<1>8. \A a \in BufferArrays : a <= allocated' <=> Listed(a)'
  BY <1>1, <1>3, <1>4, <1>5 DEF ListInv, Listed
<1>9. ASSUME NEW a, NEW s \in Reset(p), Among(a, submitted[s]) PROVE a \in ResetLists(p)
  <2>1. s \in Slots /\ s[2] \in Levels /\ s = <<p, s[2]>> /\ submitted[s] \in Seq(BufferArrays)
    BY <1>2, SlotsAre DEF Reset, ArrayLists
  <2>2. a \in ToSet(submitted[<<p, s[2]>>])
    BY <1>9, <2>1, AmongSet
  <2> QED
    BY <2>1, <2>2 DEF ResetLists
<1> QED
  BY <1>3, <1>6, <1>7, <1>8, <1>9 DEF ListInv

LEMMA ResetInv == ASSUME PoolInv, SwapAndResetPool PROVE PoolInv'
<1> DEFINE p == 1 - current
           arrays == ResetLists(p)
<1>1. TypeInv /\ ListInv /\ ScopeInv /\ PendingInv /\ FlightInv /\ OrderInv
  BY DEF PoolInv
<1>2. /\ MayReset
      /\ current' = p
      /\ head' = [a \in BufferArrays |-> IF a \in arrays THEN 0 ELSE head[a]]
      /\ number' = [b \in Buffers |-> IF b[1] \in arrays THEN NotBegun ELSE number[b]]
      /\ free' = [s \in Slots |-> IF s[1] = p THEN free[s] \o submitted[s] ELSE free[s]]
      /\ submitted' = [s \in Slots |-> IF s[1] = p THEN << >> ELSE submitted[s]]
      /\ UNCHANGED <<allocated, pending, scope, recording, held, executes, enqueued,
                     device, begun, finished>>
  BY DEF SwapAndResetPool, ResetArrays, ResetLists
<1>3. /\ \A s \in Slots : pending[s] = << >> /\ scope[s] = NoScope
      /\ \A x : ~Holds(pending, x)
      /\ \A a \in BufferArrays : recording[a] = {}
      /\ executes = << >> /\ InFlight = << >>
  BY <1>2, ResetIdle
<1>4. p \in Pools /\ 1 - p = current
  BY <1>1, SlotsAre DEF TypeInv, Pools
<1>5. free' = Longer(free, submitted, Reset(p)) /\ submitted' = Emptied(submitted, Reset(p))
  BY <1>2 DEF Longer, Emptied, Reset
<1> HIDE DEF p, arrays
<1>6. /\ ListInv' /\ free' \in ArrayLists /\ submitted' \in ArrayLists
      /\ \A a : Holds(free', a) => Holds(free, a) \/ a \in arrays
  <2>1. /\ ListInv' /\ free' \in ArrayLists /\ submitted' \in ArrayLists
        /\ \A a : Holds(free', a) => Holds(free, a) \/ a \in ResetLists(p)
    <3>1. UNCHANGED <<allocated, pending>>
      BY <1>2
    <3> QED
      BY <1>3, <1>4, <1>5, <3>1, ResetSplices
  <2> QED
    BY <2>1 DEF arrays
<1>7. head' \in Heads /\ \A a \in BufferArrays : head'[a] = IF a \in arrays THEN 0 ELSE head[a]
  BY <1>1, <1>2, BoundsAssumption DEF TypeInv, Heads, Indices
<1>8. /\ number' \in [Buffers -> Levels \X Nat]
      /\ \A b \in Buffers : number'[b] = IF b[1] \in arrays THEN NotBegun ELSE number[b]
  BY <1>1, <1>2, SlotsAre DEF TypeInv, NotBegun
<1>9. TypeInv'
  BY <1>1, <1>2, <1>4, <1>6, <1>7, <1>8 DEF TypeInv
<1>10. ScopeInv'
  <2>1. \A s \in Slots : scope'[s] = NoScope
    BY <1>2, <1>3
  <2>2. held' = {}
    BY <1>2 DEF MayReset
  <2>3. \A a \in BufferArrays : recording'[a] = {}
    BY <1>2, <1>3
  <2>4. \A a \in BufferArrays : a > allocated' \/ Holds(free', a) => head'[a] = 0
    BY <1>1, <1>2, <1>6, <1>7 DEF ScopeInv
  <2> QED
    BY <2>1, <2>2, <2>3, <2>4 DEF ScopeInv
<1>11. PendingInv'
  <2>1. \A l \in Levels : <<current, l>> \in Slots
    BY <1>1, SlotsAre DEF TypeInv
  <2> QED
    BY <1>2, <1>3, <1>4, <2>1 DEF PendingInv
<1>12. InFlight' = << >> /\ Len(InFlight') = 0
  BY <1>2, <1>3, EmptySeq DEF InFlight
<1>13. FlightInv'
  <2>1. \A b \in Buffers : b[1] \in BufferArrays /\ b[2] \in Nat
    BY BoundsAssumption DEF Buffers, Indices
  <2>2. \A b \in Buffers : b[2] < head'[b[1]] => b[1] \notin arrays
    BY <1>7, <2>1
  <2>3. \A b \in Buffers : b[2] < head'[b[1]] => number'[b] # NotBegun
    BY <1>1, <1>7, <1>8, <2>1, <2>2 DEF FlightInv
  <2> QED
    BY <1>12, <2>3 DEF FlightInv
<1>14. ASSUME NEW l \in Levels PROVE LevelInOrder(l)'
  <2>1. /\ Before(l) \in Nat /\ finished[l] <= Before(l)
        /\ Consecutive(number, << >>, l, finished[l], Before(l))
    BY <1>1, <1>3 DEF OrderInv, LevelInOrder
  <2>2. finished[l] \in Nat /\ begun[l] \in Nat
    BY <1>1 DEF TypeInv
  <2>3. Recorded(l) = << >> /\ Recorded(l)' = << >>
    <3>1. <<current, l>> \in Slots /\ <<p, l>> \in Slots
      BY <1>1, <1>4, SlotsAre DEF TypeInv
    <3>2. pending[<<current, l>>] = << >> /\ pending'[<<current', l>>] = << >>
      BY <1>2, <1>3, <3>1
    <3> QED
      BY <3>2, AllOfNothing DEF Recorded
  <2>4. Len(<< >>) = 0
    BY EmptySeq
  <2>5. Before(l) = begun[l] /\ Before(l)' = begun[l]
    BY <1>2, <2>2, <2>3, <2>4 DEF Before
  <2>6. finished[l] = begun[l]
    <3>1. Complete(number, << >>, l, finished[l], begun[l])
      BY <2>1, <2>5, EmptySeq, ConsecutiveIs
    <3>2. finished[l] < begun[l] => begun[l] \in finished[l] + 1 .. begun[l]
      BY <2>2
    <3>3. ~(finished[l] < begun[l])
      BY <2>4, <3>1, <3>2 DEF Complete
    <3> QED
      BY <2>1, <2>2, <2>5, <3>3
  <2>7. Consecutive(number', << >>, l, finished[l], begun[l])
    BY <2>2, <2>6, ConsecutiveNothing
  <2> QED
    BY <1>2, <1>12, <2>2, <2>3, <2>4, <2>5, <2>6, <2>7 DEF LevelInOrder
<1> QED
  BY <1>6, <1>9, <1>10, <1>11, <1>13, <1>14 DEF PoolInv, OrderInv

------------------------------------------------------------------------------
LEMMA StutterPoolInv == PoolInv /\ UNCHANGED poolVars => PoolInv'
<1> SUFFICES ASSUME PoolInv, UNCHANGED poolVars PROVE PoolInv'
  OBVIOUS
<1>1. UNCHANGED <<current, allocated, pending, submitted, free, scope, head, recording, held, executes,
                  enqueued, device, number, begun, finished>>
  BY DEF poolVars, listVars
<1>2. TypeInv'
  BY <1>1 DEF PoolInv, TypeInv
<1>3. InFlight' = InFlight
  BY <1>1 DEF InFlight
<1> QED
  BY <1>1, <1>2, <1>3, KeepLists, KeepScopes, KeepPending, KeepFlight, KeepOrder DEF PoolInv

LEMMA NextPoolInv == PoolInv /\ [PoolNext]_poolVars => PoolInv'
<1> SUFFICES ASSUME PoolInv, [PoolNext]_poolVars PROVE PoolInv'
  OBVIOUS
<1>1. CASE \E d \in Descs : Commands(d[1], d[2])
  BY <1>1, CommandsInv
<1>2. CASE \E c \in held : End(c) \/ Drop(c)
  BY <1>2, EndInv, DropInv
<1>3. CASE \E l \in Levels : Execute(l)
  BY <1>3, ExecuteInv
<1>4. CASE EnqueueSubmit
  BY <1>4, EnqueueSubmitInv
<1>5. CASE Submit
  BY <1>5, SubmitInv
<1>6. CASE SwapAndResetPool
  BY <1>6, ResetInv
<1>7. CASE Finish
  BY <1>7, FinishInv
<1>8. CASE UNCHANGED poolVars
  BY <1>8, StutterPoolInv
<1> QED
  BY <1>1, <1>2, <1>3, <1>4, <1>5, <1>6, <1>7, <1>8 DEF PoolNext

LEMMA AlwaysPoolInv == PoolSpec => []PoolInv
BY InitPoolInv, NextPoolInv, PTL DEF PoolSpec

\* Splicing arrays between the lists of pending, submitted and free ones loses
\* none and doubles none, whatever is begun, submitted and reset in between.
THEOREM ArraysKept == PoolSpec => []EachArrayInOneList
BY AlwaysPoolInv, ListsShown, PTL

\* The ENSUREs of CommandBufferArray hold: what records is somebody's to end,
\* and no array is submitted or reset while it records or runs over.
THEOREM RecordingOwned == PoolSpec => []RecordingIsOwned
BY AlwaysPoolInv, RecordingShown, PTL

\* Between InternalPrepareSubmit and the end of the device's work no buffer is
\* reset or recorded again, with two pools that are swapped after the fences.
THEOREM FlightUntouched == PoolSpec => []InFlightUntouched
BY AlwaysPoolInv, FlightShown, PTL

\* Buffers are executed as often and in the order as they were begun on their
\* level, for any numbers of levels, arrays and submits.
THEOREM BegunInOrder == PoolSpec => []ExecutedInOrder
BY AlwaysPoolInv, OrderShown, PTL


------------------------------------------------------------------------------
(***************************************************************************)
(* Sums.  A sum of natural numbers over a finite set counts items, so many *)
(* of each element as its number says; what sums satisfy is then what      *)
(* cardinalities do.                                                       *)
(***************************************************************************)
ItemsOf(x, n) == {x} \X (1 .. n)

Items(f, S) == UNION {ItemsOf(x, f[x]) : x \in S}

LEMMA ItemsOfOne ==
  ASSUME NEW x, NEW n \in Nat
  PROVE  IsFiniteSet(ItemsOf(x, n)) /\ Cardinality(ItemsOf(x, n)) = n
<1> DEFINE g == [i \in 1 .. n |-> <<x, i>>]
<1>1. g \in [1 .. n -> ItemsOf(x, n)]
  BY DEF ItemsOf
<1>2. \A i, j \in 1 .. n : g[i] = g[j] => i = j
  OBVIOUS
<1>3. ASSUME NEW y \in ItemsOf(x, n) PROVE \E i \in 1 .. n : g[i] = y
  BY <1>3 DEF ItemsOf
<1>4. g \in Bijection(1 .. n, ItemsOf(x, n))
  BY <1>1, <1>2, <1>3 DEF Bijection, Injection, Surjection, IsInjective
<1>5. ExistsBijection(1 .. n, ItemsOf(x, n))
  BY <1>4 DEF ExistsBijection
<1>6. IsFiniteSet(1 .. n) /\ Cardinality(1 .. n) = n
  BY FS_Interval
<1> QED
  BY <1>5, <1>6, FS_Bijection

LEMMA ItemsFinite ==
  ASSUME NEW f, NEW S, IsFiniteSet(S), \A x \in S : f[x] \in Nat
  PROVE  IsFiniteSet(Items(f, S)) /\ Cardinality(Items(f, S)) \in Nat
<1> DEFINE T == {ItemsOf(x, f[x]) : x \in S}
           g == [x \in S |-> ItemsOf(x, f[x])]
<1>1. g \in Surjection(S, T)
  <2>1. g \in [S -> T]
    OBVIOUS
  <2>2. \A t \in T : \E x \in S : g[x] = t
    OBVIOUS
  <2> QED
    BY <2>1, <2>2 DEF Surjection
<1>2. IsFiniteSet(T)
  BY <1>1, FS_Surjection
<1>3. \A t \in T : IsFiniteSet(t)
  BY ItemsOfOne
<1>4. IsFiniteSet(Items(f, S))
  BY <1>2, <1>3, FS_UNION DEF Items
<1> QED
  BY <1>4, FS_CardinalityType

LEMMA ItemsOfTwo ==
  ASSUME NEW f, NEW S, NEW T, IsFiniteSet(S), IsFiniteSet(T), S \cap T = {},
         \A x \in S \cup T : f[x] \in Nat
  PROVE  Cardinality(Items(f, S \cup T)) = Cardinality(Items(f, S)) + Cardinality(Items(f, T))
<1>1. Items(f, S \cup T) = Items(f, S) \cup Items(f, T)
  BY DEF Items
<1>2. Items(f, S) \cap Items(f, T) = {}
  BY DEF Items, ItemsOf
<1>3. /\ IsFiniteSet(Items(f, S)) /\ IsFiniteSet(Items(f, T))
      /\ Cardinality(Items(f, S)) \in Nat /\ Cardinality(Items(f, T)) \in Nat
  BY ItemsFinite
<1>4. Cardinality(Items(f, S) \cap Items(f, T)) = 0
  BY <1>2, FS_EmptySet
<1>5. Cardinality(Items(f, S) \cup Items(f, T)) =
        Cardinality(Items(f, S)) + Cardinality(Items(f, T)) - Cardinality(Items(f, S) \cap Items(f, T))
  BY <1>3, FS_Union
<1> QED
  <2> DEFINE both == Cardinality(Items(f, S) \cup Items(f, T))
             common == Cardinality(Items(f, S) \cap Items(f, T))
             first == Cardinality(Items(f, S))
             second == Cardinality(Items(f, T))
  <2>1. Cardinality(Items(f, S \cup T)) = both
    BY <1>1, Zenon
  <2>2. first \in Nat /\ second \in Nat /\ common = 0 /\ both = first + second - common
    BY <1>3, <1>4, <1>5, Zenon
  <2> HIDE DEF both, common, first, second
  <2>3. both = first + second
    BY <2>2
  <2> QED
    BY <2>1, <2>3 DEF first, second

LEMMA SumIs ==
  ASSUME NEW f, NEW S, IsFiniteSet(S), \A x \in S : f[x] \in Nat
  PROVE  SumFunctionOnSet(f, S) = Cardinality(Items(f, S))
<1> DEFINE First(s) == CHOOSE x \in s : TRUE
           Steps(h) == h = [s \in SUBSET S |-> IF s = {} THEN 0 ELSE f[First(s)] + h[s \ {First(s)}]]
           g == [s \in SUBSET S |-> Cardinality(Items(f, s))]
           h == CHOOSE k : Steps(k)
<1>1. \A s \in SUBSET S : IsFiniteSet(s)
  BY FS_Subset
<1>2. g[{}] = 0
  BY FS_EmptySet DEF Items
<1>3. ASSUME NEW s \in SUBSET S, s # {}
      PROVE  First(s) \in s /\ g[s] = f[First(s)] + g[s \ {First(s)}]
  <2> DEFINE x == First(s)
  <2>1. x \in s
    BY <1>3
  <2> HIDE DEF x
  <2>2. Cardinality(Items(f, {x} \cup (s \ {x}))) = Cardinality(Items(f, {x})) + Cardinality(Items(f, s \ {x}))
    BY <1>1, <2>1, ItemsOfTwo
  <2>3. Items(f, {x}) = ItemsOf(x, f[x]) /\ Cardinality(ItemsOf(x, f[x])) = f[x]
    BY <2>1, ItemsOfOne DEF Items
  <2>4. {x} \cup (s \ {x}) = s /\ s \ {x} \in SUBSET S
    BY <2>1
  <2> QED
    BY <2>1, <2>2, <2>3, <2>4 DEF x
<1>4. Steps(g)
  BY <1>2, <1>3
<1>5. Steps(h)
  BY <1>4
<1>6. SumFunctionOnSet(f, S) = h[S]
  BY DEF SumFunctionOnSet, FoldFunctionOnSet, MapThenFoldSet
<1> HIDE DEF h, g
<1> DEFINE T == {n \in Nat : \A s \in SUBSET S : Cardinality(s) = n => h[s] = g[s]}
<1>7. h[{}] = g[{}]
  <2>1. {} \in SUBSET S
    OBVIOUS
  <2>2. h[{}] = 0
    BY <1>5, <2>1
  <2> QED
    BY <1>2, <2>2
<1>8. 0 \in T
  BY <1>1, <1>7, FS_EmptySet
<1>9. ASSUME NEW n \in T PROVE n + 1 \in T
  <2> SUFFICES ASSUME NEW s \in SUBSET S, Cardinality(s) = n + 1 PROVE h[s] = g[s]
    OBVIOUS
  <2>1. s # {}
    BY FS_EmptySet
  <2>2. First(s) \in s /\ g[s] = f[First(s)] + g[s \ {First(s)}]
    BY <1>3, <2>1
  <2>3. h[s] = f[First(s)] + h[s \ {First(s)}]
    BY <1>5, <2>1
  <2>4. Cardinality(s \ {First(s)}) = n /\ s \ {First(s)} \in SUBSET S
    <3>1. IsFiniteSet(s) /\ First(s) \in s
      BY <1>1, <2>2
    <3>2. Cardinality(s \ {First(s)}) = Cardinality(s) - 1
      BY <3>1, FS_RemoveElement, Zenon
    <3> QED
      BY <3>2
  <2>5. h[s \ {First(s)}] = g[s \ {First(s)}]
    BY <1>9, <2>4
  <2> QED
    BY <2>2, <2>3, <2>5
<1>10. T = Nat
  <2>1. T \in SUBSET Nat
    OBVIOUS
  <2> HIDE DEF T
  <2> QED
    BY <1>8, <1>9, <2>1, Induct
<1>11. h[S] = g[S]
  <2>1. Cardinality(S) \in Nat /\ S \in SUBSET S
    BY FS_CardinalityType
  <2> QED
    BY <1>10, <2>1
<1> QED
  BY <1>6, <1>11 DEF g

\* What follows for sums.
LEMMA SumIsNatural ==
  ASSUME NEW f, NEW S, IsFiniteSet(S), \A x \in S : f[x] \in Nat
  PROVE  SumFunctionOnSet(f, S) \in Nat
BY SumIs, ItemsFinite

LEMMA SumOfNothing == ASSUME NEW f PROVE SumFunctionOnSet(f, {}) = 0
BY SumIs, FS_EmptySet DEF Items

LEMMA SumOfTwo ==
  ASSUME NEW f, NEW S, NEW T, IsFiniteSet(S), IsFiniteSet(T), S \cap T = {},
         \A x \in S \cup T : f[x] \in Nat
  PROVE  SumFunctionOnSet(f, S \cup T) = SumFunctionOnSet(f, S) + SumFunctionOnSet(f, T)
<1>1. IsFiniteSet(S \cup T)
  BY FS_Union
<1> QED
  BY <1>1, SumIs, ItemsOfTwo

LEMMA SumOfOne == ASSUME NEW f, NEW x, f[x] \in Nat PROVE SumFunctionOnSet(f, {x}) = f[x]
<1>1. Items(f, {x}) = ItemsOf(x, f[x]) /\ IsFiniteSet({x})
  BY FS_Singleton DEF Items
<1> QED
  BY <1>1, SumIs, ItemsOfOne

LEMMA SumOfMore ==
  ASSUME NEW f, NEW S, NEW x, IsFiniteSet(S), x \notin S, \A y \in S \cup {x} : f[y] \in Nat
  PROVE  SumFunctionOnSet(f, S \cup {x}) = SumFunctionOnSet(f, S) + f[x]
<1>1. IsFiniteSet({x}) /\ S \cap {x} = {}
  BY FS_Singleton
<1> QED
  BY <1>1, SumOfTwo, SumOfOne

LEMMA SumOfSame ==
  ASSUME NEW f, NEW g, NEW S, IsFiniteSet(S), \A x \in S : f[x] \in Nat /\ g[x] = f[x]
  PROVE  SumFunctionOnSet(g, S) = SumFunctionOnSet(f, S)
<1>1. Items(f, S) = Items(g, S)
  BY DEF Items
<1> QED
  BY <1>1, SumIs

------------------------------------------------------------------------------
(***************************************************************************)
(* RangeSet: what insert leaves is in order again and holds what was asked *)
(* for; and where an element comes among those of the ranges.              *)
(***************************************************************************)
Span == Nat \X Nat

RangeSets == Seq(Span)

\* Ranges that hold something, with gaps between them.
InGaps(ranges) ==
  /\ \A i \in DOMAIN ranges : ranges[i][1] < ranges[i][2]
  /\ \A i \in 1 .. Len(ranges) - 1 : ranges[i][2] < ranges[i + 1][1]

LEMMA LeastIn == ASSUME NEW T \in SUBSET Nat, T # {} PROVE \E n \in T : \A m \in T : n <= m
<1> SUFFICES ASSUME \A n \in T : \E m \in T : m < n PROVE FALSE
  OBVIOUS
<1> DEFINE U == {n \in Nat : \A m \in 0 .. n : m \notin T}
<1>1. 0 \in U
  OBVIOUS
<1>2. ASSUME NEW n \in U PROVE n + 1 \in U
  <2>1. n + 1 \notin T
    BY <1>2
  <2>2. \A m \in 0 .. n + 1 : m \in 0 .. n \/ m = n + 1
    BY <1>2
  <2> QED
    BY <1>2, <2>1, <2>2
<1>3. U \in SUBSET Nat
  OBVIOUS
<1> HIDE DEF U
<1>4. U = Nat
  BY <1>1, <1>2, <1>3, Induct
<1>5. \A n \in Nat : n \notin T
  BY <1>4 DEF U
<1> QED
  BY <1>5

LEMMA RangesAre ==
  ASSUME NEW ranges \in RangeSets
  PROVE  /\ Len(ranges) \in Nat /\ DOMAIN ranges = 1 .. Len(ranges)
         /\ \A i \in 1 .. Len(ranges) :
              /\ ranges[i] = <<ranges[i][1], ranges[i][2]>>
              /\ ranges[i][1] \in Nat /\ ranges[i][2] \in Nat
BY DEF RangeSets, Span

LEMMA RangesAscend ==
  ASSUME NEW ranges \in RangeSets, InGaps(ranges)
  PROVE  \A i, j \in 1 .. Len(ranges) : i < j => ranges[i][2] < ranges[j][1]
<1> DEFINE T == {d \in Nat : \A i \in 1 .. Len(ranges) :
                    i + 1 + d <= Len(ranges) => ranges[i][2] < ranges[i + 1 + d][1]}
<1>1. 0 \in T
  <2> SUFFICES ASSUME NEW i \in 1 .. Len(ranges), i + 1 <= Len(ranges) PROVE ranges[i][2] < ranges[i + 1][1]
    OBVIOUS
  <2>1. i \in 1 .. Len(ranges) - 1
    BY RangesAre
  <2> QED
    BY <2>1 DEF InGaps
<1>2. ASSUME NEW d \in T PROVE d + 1 \in T
  <2>0. d \in Nat /\ \A i \in 1 .. Len(ranges) :
                          i + 1 + d <= Len(ranges) => ranges[i][2] < ranges[i + 1 + d][1]
    BY <1>2
  <2> SUFFICES ASSUME NEW i \in 1 .. Len(ranges), i + 1 + (d + 1) <= Len(ranges)
               PROVE  ranges[i][2] < ranges[i + 1 + (d + 1)][1]
    BY <2>0
  <2> DEFINE j == i + 1 + d
  <2>1. d \in Nat /\ i \in Nat /\ Len(ranges) \in Nat
    BY <2>0, RangesAre
  <2>2. j \in 1 .. Len(ranges) - 1 /\ j \in 1 .. Len(ranges) /\ j + 1 = i + 1 + (d + 1) /\ j + 1 \in 1 .. Len(ranges)
    BY <2>1
  <2>3. ranges[i][2] < ranges[j][1]
    BY <2>0, <2>1, <2>2
  <2>4. ranges[j][1] < ranges[j][2] /\ ranges[j][2] < ranges[j + 1][1]
    BY <2>2, RangesAre DEF InGaps
  <2>5. /\ ranges[i][2] \in Nat /\ ranges[j][1] \in Nat /\ ranges[j][2] \in Nat
        /\ ranges[j + 1][1] \in Nat
    BY <2>2, RangesAre
  <2> HIDE DEF j, T
  <2>6. ranges[i][2] < ranges[j + 1][1]
    BY <2>3, <2>4, <2>5
  <2> QED
    BY <2>2, <2>6 DEF j
<1>3. T = Nat
  <2>1. T \in SUBSET Nat
    OBVIOUS
  <2> HIDE DEF T
  <2> QED
    BY <1>1, <1>2, <2>1, Induct
<1> SUFFICES ASSUME NEW i \in 1 .. Len(ranges), NEW j \in 1 .. Len(ranges), i < j
             PROVE  ranges[i][2] < ranges[j][1]
  OBVIOUS
<1>4. j - i - 1 \in Nat /\ i + 1 + (j - i - 1) = j /\ j <= Len(ranges)
  BY RangesAre
<1>5. j - i - 1 \in T
  BY <1>3, <1>4
<1> HIDE DEF T
<1>6. i + 1 + (j - i - 1) <= Len(ranges) => ranges[i][2] < ranges[i + 1 + (j - i - 1)][1]
  BY <1>5 DEF T
<1> QED
  BY <1>4, <1>6

LEMMA Segment ==
  ASSUME NEW n \in Nat, NEW P \in SUBSET (1 .. n), \A i \in P : \A j \in 1 .. i : j \in P
  PROVE  Cardinality(P) \in 0 .. n /\ P = 1 .. Cardinality(P)
<1> DEFINE T == {i \in 1 .. n + 1 : i \notin P}
<1>1. n + 1 \in T
  OBVIOUS
<1>2. T \in SUBSET Nat /\ T # {}
  BY <1>1
<1>3. PICK m \in T : \A i \in T : m <= i
  BY <1>2, LeastIn
<1>4. m \in 1 .. n + 1 /\ m \notin P /\ m - 1 \in 0 .. n
  BY <1>3
<1>5. P = 1 .. m - 1
  <2>1. ASSUME NEW i \in P PROVE i \in 1 .. m - 1
    <3>1. i \in 1 .. n
      OBVIOUS
    <3>2. ~(m <= i)
      BY <1>4, <3>1
    <3> QED
      BY <1>4, <3>1, <3>2
  <2>2. ASSUME NEW i \in 1 .. m - 1 PROVE i \in P
    <3>1. i \in 1 .. n + 1 /\ i < m
      BY <1>4
    <3> QED
      BY <1>3, <3>1
  <2> QED
    BY <2>1, <2>2
<1>6. Cardinality(1 .. m - 1) = m - 1
  BY <1>4, FS_Interval
<1> QED
  BY <1>4, <1>5, <1>6

LEMMA MaxIs == ASSUME NEW S \in SUBSET Int, NEW x \in S, \A y \in S : y <= x PROVE Max(S) = x
<1>1. \A y \in S : x >= y
  OBVIOUS
<1>2. Max(S) \in S /\ \A y \in S : Max(S) >= y
  BY <1>1, Zenon DEF Max
<1>3. Max(S) \in Int /\ x \in Int /\ Max(S) <= x /\ Max(S) >= x
  BY <1>2
<1> QED
  BY <1>3

LEMMA MinOfOne == ASSUME NEW x \in Int PROVE Min({x}) = x
BY DEF Min

\* The ranges that begin by a bound at the latest are the first ones.
LEMMA RangesUpTo ==
  ASSUME NEW ranges \in RangeSets, InGaps(ranges), NEW bound1 \in Nat
  PROVE  LET P == {i \in DOMAIN ranges : ranges[i][1] <= bound1}
         IN  Cardinality(P) \in 0 .. Len(ranges) /\ P = 1 .. Cardinality(P)
<1> DEFINE P == {i \in DOMAIN ranges : ranges[i][1] <= bound1}
<1>1. P \in SUBSET (1 .. Len(ranges)) /\ Len(ranges) \in Nat
  BY RangesAre
<1>2. ASSUME NEW i \in P, NEW j \in 1 .. i PROVE j \in P
  <2>1. i \in 1 .. Len(ranges) /\ j \in 1 .. Len(ranges) /\ ranges[i][1] <= bound1
    BY <1>1
  <2>2. CASE j = i
    BY <2>2
  <2>3. CASE j # i
    <3>1. j < i
      BY <2>1, <2>3
    <3>2. ranges[j][2] < ranges[i][1] /\ ranges[j][1] < ranges[j][2]
      BY <2>1, <3>1, RangesAscend, RangesAre DEF InGaps
    <3>3. ranges[j][1] \in Nat /\ ranges[j][2] \in Nat /\ ranges[i][1] \in Nat
      BY <2>1, RangesAre
    <3>4. ranges[j][1] <= bound1
      BY <2>1, <3>2, <3>3
    <3> QED
      BY <2>1, <3>4, RangesAre
  <2> QED
    BY <2>2, <2>3
<1> HIDE DEF P
<1>3. Cardinality(P) \in 0 .. Len(ranges) /\ P = 1 .. Cardinality(P)
  BY <1>1, <1>2, Segment
<1> QED
  BY <1>3 DEF P

\* What SubSeq and \o make of sequences, position by position.
LEMMA PartIs ==
  ASSUME NEW S, NEW s \in Seq(S), NEW m \in Nat \ {0}, NEW n \in Nat, m <= n + 1, n <= Len(s)
  PROVE  /\ SubSeq(s, m, n) \in Seq(S) /\ Len(SubSeq(s, m, n)) = n + 1 - m
         /\ \A i \in 1 .. n + 1 - m : SubSeq(s, m, n)[i] = s[m + i - 1]
<1>1. m \in 1 .. Len(s) + 1 /\ n \in m - 1 .. Len(s)
  OBVIOUS
<1> QED
  BY <1>1, SubSeqProperties

LEMMA JoinedIs ==
  ASSUME NEW S, NEW s \in Seq(S), NEW t \in Seq(S)
  PROVE  /\ s \o t \in Seq(S) /\ Len(s \o t) = Len(s) + Len(t)
         /\ \A i \in 1 .. Len(s) : (s \o t)[i] = s[i]
         /\ \A i \in 1 .. Len(t) : (s \o t)[Len(s) + i] = t[i]
<1>1. Len(s) \in Nat /\ Len(t) \in Nat
  OBVIOUS
<1>2. /\ s \o t \in Seq(S) /\ Len(s \o t) = Len(s) + Len(t)
      /\ \A i \in 1 .. Len(s) + Len(t) : (s \o t)[i] = IF i <= Len(s) THEN s[i] ELSE t[i - Len(s)]
  BY ConcatProperties
<1> DEFINE m == Len(s)
           n == Len(t)
           j == s \o t
<1> HIDE DEF j, m, n
<1>3. m \in Nat /\ n \in Nat /\ \A i \in 1 .. m + n : j[i] = IF i <= m THEN s[i] ELSE t[i - m]
  BY <1>1, <1>2 DEF j, m, n
<1>4. \A i \in 1 .. m : j[i] = s[i]
  BY <1>3
<1>5. ASSUME NEW i \in 1 .. n PROVE j[m + i] = t[i]
  <2>1. m + i \in 1 .. m + n /\ ~(m + i <= m) /\ m + i - m = i
    BY <1>3
  <2> QED
    BY <1>3, <2>1
<1> QED
  BY <1>2, <1>4, <1>5 DEF j, m, n

\* Part of a sequence gives way to another.
Patched(s, a, t, z) == SubSeq(s, 1, a) \o t \o SubSeq(s, z + 1, Len(s))

IsPatched(p, S, s, a, t, z) ==
  /\ p \in Seq(S)
  /\ Len(p) = a + Len(t) + (Len(s) - z)
  /\ \A i \in 1 .. a : p[i] = s[i]
  /\ \A i \in 1 .. Len(t) : p[a + i] = t[i]
  /\ \A i \in z + 1 .. Len(s) : p[a + Len(t) + (i - z)] = s[i]

LEMMA PatchedIs ==
  ASSUME NEW S, NEW s \in Seq(S), NEW t \in Seq(S), NEW a \in Nat, NEW z \in Nat, a <= z, z <= Len(s)
  PROVE  IsPatched(Patched(s, a, t, z), S, s, a, t, z)
<1> DEFINE f == SubSeq(s, 1, a)
           g == SubSeq(s, z + 1, Len(s))
           ft == f \o t
           all == ft \o g
           m == Len(t)
           n == Len(s)
<1>1. n \in Nat /\ m \in Nat
  OBVIOUS
<1>2. f \in Seq(S) /\ Len(f) = a /\ \A i \in 1 .. a : f[i] = s[i]
  <2>1. 1 <= a + 1 /\ a <= Len(s) /\ a + 1 - 1 = a
    BY <1>1
  <2>2. f \in Seq(S) /\ Len(f) = a + 1 - 1 /\ \A i \in 1 .. a + 1 - 1 : f[i] = s[1 + i - 1]
    BY <2>1, PartIs
  <2> HIDE DEF f
  <2> QED
    BY <2>2
<1>3. g \in Seq(S) /\ Len(g) = n - z /\ \A i \in 1 .. n - z : g[i] = s[z + i]
  <2>1. z + 1 \in Nat \ {0} /\ z + 1 <= Len(s) + 1 /\ Len(s) <= Len(s)
    BY <1>1
  <2>2. g \in Seq(S) /\ Len(g) = n + 1 - (z + 1) /\ \A i \in 1 .. n + 1 - (z + 1) : g[i] = s[z + 1 + i - 1]
    BY <1>1, <2>1, PartIs
  <2> HIDE DEF g, n
  <2>3. n + 1 - (z + 1) = n - z /\ \A i \in 1 .. n - z : z + 1 + i - 1 = z + i
    BY <1>1
  <2> QED
    BY <2>2, <2>3
<1>4. /\ ft \in Seq(S) /\ Len(ft) = a + m
      /\ \A i \in 1 .. a : ft[i] = f[i]
      /\ \A i \in 1 .. m : ft[a + i] = t[i]
  <2>1. f \in Seq(S) /\ t \in Seq(S)
    BY <1>2, Zenon
  <2> HIDE DEF f
  <2>2. /\ f \o t \in Seq(S) /\ Len(f \o t) = Len(f) + Len(t)
        /\ \A i \in 1 .. Len(f) : (f \o t)[i] = f[i]
        /\ \A i \in 1 .. Len(t) : (f \o t)[Len(f) + i] = t[i]
    BY <2>1, JoinedIs
  <2> QED
    BY <1>2, <2>2, Zenon
<1>5. /\ all \in Seq(S) /\ Len(all) = a + m + (n - z)
      /\ \A i \in 1 .. a + m : all[i] = ft[i]
      /\ \A i \in 1 .. n - z : all[a + m + i] = g[i]
  <2> HIDE DEF ft, g
  <2>1. /\ ft \o g \in Seq(S) /\ Len(ft \o g) = Len(ft) + Len(g)
        /\ \A i \in 1 .. Len(ft) : (ft \o g)[i] = ft[i]
        /\ \A i \in 1 .. Len(g) : (ft \o g)[Len(ft) + i] = g[i]
    <3>1. ft \in Seq(S) /\ g \in Seq(S)
      BY <1>3, <1>4, Zenon
    <3> QED
      BY <3>1, JoinedIs
  <2> QED
    BY <1>3, <1>4, <2>1, Zenon
<1>6. Patched(s, a, t, z) = all /\ n = Len(s) /\ m = Len(t)
  BY DEF Patched
<1>7. a <= z /\ z <= n
  OBVIOUS
<1> HIDE DEF f, g, ft, all, m, n
<1>8. \A i \in 1 .. a : i \in 1 .. a + m
  BY <1>1
<1>9. \A i \in 1 .. a : all[i] = s[i]
  BY <1>2, <1>4, <1>5, <1>8, Zenon
<1>10. \A i \in 1 .. m : a + i \in 1 .. a + m
  BY <1>1
<1>11. \A i \in 1 .. m : all[a + i] = t[i]
  BY <1>4, <1>5, <1>10, Zenon
<1>12. ASSUME NEW i \in z + 1 .. n PROVE all[a + m + (i - z)] = s[i]
  <2>1. i - z \in 1 .. n - z /\ z + (i - z) = i
    BY <1>1, <1>7
  <2> QED
    BY <1>3, <1>5, <2>1
<1> QED
  BY <1>5, <1>6, <1>9, <1>11, <1>12 DEF IsPatched

\* Some elements of a sequence give way to one.
Spliced(s, a, x, z) == Patched(s, a, <<x>>, z)

IsSpliced(p, S, s, a, x, z) ==
  /\ p \in Seq(S)
  /\ Len(p) = a + 1 + (Len(s) - z)
  /\ \A i \in 1 .. a : p[i] = s[i]
  /\ p[a + 1] = x
  /\ \A i \in z + 1 .. Len(s) : p[a + 1 + (i - z)] = s[i]

LEMMA SplicedIs ==
  ASSUME NEW S, NEW s \in Seq(S), NEW x \in S, NEW a \in Nat, NEW z \in Nat, a <= z, z <= Len(s)
  PROVE  IsSpliced(Spliced(s, a, x, z), S, s, a, x, z)
<1> DEFINE t == <<x>>
<1>1. t \in Seq(S) /\ Len(t) = 1 /\ t[1] = x /\ 1 \in 1 .. 1
  OBVIOUS
<1>2. Spliced(s, a, x, z) = Patched(s, a, t, z)
  BY DEF Spliced
<1> HIDE DEF t
<1>3. IsPatched(Patched(s, a, t, z), S, s, a, t, z)
  BY <1>1, PatchedIs, Zenon
<1> DEFINE p == Patched(s, a, t, z)
<1> HIDE DEF p
<1>4. IsPatched(p, S, s, a, t, z)
  BY <1>3 DEF p
<1>5. p[a + 1] = x
  BY <1>1, <1>4, Zenon DEF IsPatched
<1>6. IsSpliced(p, S, s, a, x, z)
  BY <1>1, <1>4, <1>5, Zenon DEF IsPatched, IsSpliced
<1> QED
  BY <1>2, <1>6 DEF p

\* What some of the ranges hold.
HeldBy(ranges, I) == UNION {ranges[i][1] .. ranges[i][2] - 1 : i \in I}

\* One range stands where some of the ranges were.
InPlaceOf(new, ranges, a, begin, end, z) ==
  /\ new \in RangeSets
  /\ InGaps(new)
  /\ ElementsOf(new) =
       HeldBy(ranges, 1 .. a) \cup (begin .. end - 1) \cup HeldBy(ranges, z + 1 .. Len(ranges))

LEMMA SplicedKeeps ==
  ASSUME NEW ranges \in RangeSets, InGaps(ranges), NEW a \in Nat, NEW z \in Nat, a <= z, z <= Len(ranges),
         NEW begin \in Nat, NEW end \in Nat, begin < end,
         \A i \in 1 .. a : ranges[i][2] < begin,
         \A i \in z + 1 .. Len(ranges) : end < ranges[i][1]
  PROVE  InPlaceOf(Spliced(ranges, a, <<begin, end>>, z), ranges, a, begin, end, z)
<1> DEFINE m == Spliced(ranges, a, <<begin, end>>, z)
<1>1. /\ m \in RangeSets /\ Len(m) = a + 1 + (Len(ranges) - z) /\ m[a + 1] = <<begin, end>>
      /\ \A i \in 1 .. a : m[i] = ranges[i]
      /\ \A i \in z + 1 .. Len(ranges) : m[a + 1 + (i - z)] = ranges[i]
  <2>1. <<begin, end>> \in Span /\ ranges \in Seq(Span)
    BY DEF Span, RangeSets
  <2>2. IsSpliced(m, Span, ranges, a, <<begin, end>>, z)
    BY <2>1, SplicedIs, Zenon
  <2> HIDE DEF m
  <2> QED
    BY <2>2, Zenon DEF IsSpliced, RangeSets
<1> HIDE DEF m
<1>2. Len(ranges) \in Nat /\ DOMAIN ranges = 1 .. Len(ranges) /\ DOMAIN m = 1 .. Len(m)
  BY <1>1, RangesAre
<1>3. \A i \in 1 .. Len(m) :
        \/ i \in 1 .. a /\ m[i] = ranges[i]
        \/ i = a + 1
        \/ i - a - 1 + z \in z + 1 .. Len(ranges) /\ m[i] = ranges[i - a - 1 + z]
  <2> SUFFICES ASSUME NEW i \in 1 .. Len(m), i \notin 1 .. a, i # a + 1
               PROVE  i - a - 1 + z \in z + 1 .. Len(ranges) /\ m[i] = ranges[i - a - 1 + z]
    BY <1>1
  <2> DEFINE j == i - a - 1 + z
  <2>1. j \in z + 1 .. Len(ranges) /\ a + 1 + (j - z) = i
    BY <1>1, <1>2
  <2> HIDE DEF j
  <2>2. m[a + 1 + (j - z)] = ranges[j]
    BY <1>1, <2>1, Zenon
  <2> QED
    BY <2>1, <2>2, Zenon DEF j
<1>4. \A i \in 1 .. Len(ranges) :
        /\ ranges[i][1] \in Nat /\ ranges[i][2] \in Nat /\ ranges[i][1] < ranges[i][2]
        /\ i < Len(ranges) => ranges[i][2] < ranges[i + 1][1]
  BY <1>2, RangesAre DEF InGaps
<1>5. \A i \in 1 .. Len(m) : m[i][1] < m[i][2]
  <2> SUFFICES ASSUME NEW i \in 1 .. Len(m) PROVE m[i][1] < m[i][2]
    OBVIOUS
  <2>1. CASE i \in 1 .. a /\ m[i] = ranges[i]
    BY <1>2, <1>4, <2>1
  <2>2. CASE i = a + 1
    BY <1>1, <2>2
  <2>3. CASE i - a - 1 + z \in z + 1 .. Len(ranges) /\ m[i] = ranges[i - a - 1 + z]
    <3>1. i - a - 1 + z \in 1 .. Len(ranges)
      BY <1>2, <2>3
    <3> QED
      BY <1>4, <2>3, <3>1
  <2> QED
    BY <1>3, <2>1, <2>2, <2>3
<1>6. \A i \in 1 .. Len(m) - 1 : m[i][2] < m[i + 1][1]
  <2> SUFFICES ASSUME NEW i \in 1 .. Len(m) - 1 PROVE m[i][2] < m[i + 1][1]
    OBVIOUS
  <2>1. CASE i \in 1 .. a - 1
    <3>1. i \in 1 .. Len(ranges) /\ i < Len(ranges) /\ i \in 1 .. a /\ i + 1 \in 1 .. a
      BY <1>2, <2>1
    <3> QED
      BY <1>1, <1>4, <3>1
  <2>2. CASE i = a
    <3>1. a \in 1 .. a
      BY <2>2
    <3> QED
      BY <1>1, <2>2, <3>1
  <2>3. CASE i = a + 1
    <3>1. z + 1 \in z + 1 .. Len(ranges) /\ a + 1 + ((z + 1) - z) = i + 1
      BY <1>1, <1>2, <2>3
    <3>2. m[a + 1 + ((z + 1) - z)] = ranges[z + 1]
      BY <1>1, <3>1, Zenon
    <3>3. m[i + 1] = ranges[z + 1]
      BY <3>1, <3>2, Zenon
    <3>4. m[i] = <<begin, end>> /\ m[i][2] = end
      BY <1>1, <2>3
    <3>5. end < ranges[z + 1][1]
      BY <3>1, Zenon
    <3> QED
      BY <3>3, <3>4, <3>5, Zenon
  <2>4. CASE i > a + 1
    <3> DEFINE j == i - a - 1 + z
    <3>1. /\ j \in z + 1 .. Len(ranges) /\ j + 1 \in z + 1 .. Len(ranges)
          /\ a + 1 + (j - z) = i /\ a + 1 + ((j + 1) - z) = i + 1
          /\ j \in 1 .. Len(ranges) /\ j < Len(ranges)
      BY <1>1, <1>2, <2>4
    <3> HIDE DEF j
    <3>2. m[a + 1 + (j - z)] = ranges[j] /\ m[a + 1 + ((j + 1) - z)] = ranges[j + 1]
      BY <1>1, <3>1, Zenon
    <3>3. m[i] = ranges[j] /\ m[i + 1] = ranges[j + 1]
      BY <3>1, <3>2, Zenon
    <3> QED
      BY <1>4, <3>1, <3>3
  <2> QED
    <3>1. i \in 1 .. a - 1 \/ i = a \/ i = a + 1 \/ i > a + 1
      OBVIOUS
    <3> QED
      BY <2>1, <2>2, <2>3, <2>4, <3>1
<1>7. InGaps(m)
  BY <1>2, <1>5, <1>6 DEF InGaps
<1> DEFINE low == HeldBy(ranges, 1 .. a)
           high == HeldBy(ranges, z + 1 .. Len(ranges))
<1>8. ASSUME NEW i \in 1 .. Len(m), NEW e \in m[i][1] .. m[i][2] - 1
      PROVE  e \in low \cup (begin .. end - 1) \cup high
  <2>1. CASE i \in 1 .. a /\ m[i] = ranges[i]
    <3>1. e \in low
      BY <2>1 DEF HeldBy
    <3> QED
      BY <3>1
  <2>2. CASE i = a + 1
    BY <1>1, <2>2
  <2>3. CASE i - a - 1 + z \in z + 1 .. Len(ranges) /\ m[i] = ranges[i - a - 1 + z]
    <3>1. e \in high
      BY <2>3 DEF HeldBy
    <3> QED
      BY <3>1
  <2> QED
    BY <1>3, <2>1, <2>2, <2>3
<1>9. ASSUME NEW i \in 1 .. a PROVE i \in DOMAIN m /\ m[i] = ranges[i]
  BY <1>1, <1>2
<1>10. ASSUME NEW i \in z + 1 .. Len(ranges) PROVE \E j \in DOMAIN m : m[j] = ranges[i]
  <2>1. a + 1 + (i - z) \in 1 .. Len(m)
    BY <1>1, <1>2
  <2> QED
    BY <1>1, <1>2, <2>1
<1>11. a + 1 \in DOMAIN m
  BY <1>1, <1>2
<1>12. ElementsOf(m) \subseteq low \cup (begin .. end - 1) \cup high
  <2> SUFFICES ASSUME NEW e \in ElementsOf(m) PROVE e \in low \cup (begin .. end - 1) \cup high
    OBVIOUS
  <2>1. PICK i \in DOMAIN m : e \in m[i][1] .. m[i][2] - 1
    BY DEF ElementsOf
  <2> QED
    BY <1>2, <1>8, <2>1
<1>13. low \subseteq ElementsOf(m)
  BY <1>9 DEF ElementsOf, HeldBy
<1>14. high \subseteq ElementsOf(m)
  BY <1>10 DEF ElementsOf, HeldBy
<1>15. begin .. end - 1 \subseteq ElementsOf(m)
  <2>1. m[a + 1][1] = begin /\ m[a + 1][2] = end
    BY <1>1
  <2> QED
    BY <1>11, <2>1 DEF ElementsOf
<1> HIDE DEF low, high
<1>16. ElementsOf(m) = low \cup (begin .. end - 1) \cup high
  BY <1>12, <1>13, <1>14, <1>15
<1> QED
  BY <1>1, <1>7, <1>16 DEF m, low, high, InPlaceOf

\* RangeSet::insert keeps the ranges apart and in order, and what they hold
\* grows by what was inserted and by nothing else.
THEOREM InsertAdds ==
  ASSUME NEW ranges \in RangeSets, InGaps(ranges), NEW low \in Nat, NEW high \in Nat, low < high
  PROVE  /\ Insert(ranges, low, high) \in RangeSets
         /\ InGaps(Insert(ranges, low, high))
         /\ ElementsOf(Insert(ranges, low, high)) = ElementsOf(ranges) \cup (low .. high - 1)
<1> DEFINE n == Len(ranges)
           P == {i \in DOMAIN ranges : ranges[i][1] <= low}
           Q == {i \in DOMAIN ranges : ranges[i][1] <= high}
           k == Cardinality(P)
           z == Cardinality(Q)
           extends == k > 0 /\ ranges[k][2] >= low
           a == IF extends THEN k - 1 ELSE k
           begin == IF extends THEN ranges[k][1] ELSE low
           taken == {i \in k + 1 .. Len(ranges) : ranges[i][1] <= high}
           end == Max({high} \cup {ranges[i][2] : i \in taken})
<1>1. /\ n \in Nat /\ DOMAIN ranges = 1 .. n
      /\ \A i \in 1 .. n : ranges[i][1] \in Nat /\ ranges[i][2] \in Nat
  BY RangesAre
<1>2. \A i \in 1 .. n : ranges[i][1] < ranges[i][2]
  BY <1>1 DEF InGaps
<1>3. \A i, j \in 1 .. n : i < j => ranges[i][2] < ranges[j][1]
  BY RangesAscend
<1>4. k \in 0 .. n /\ P = 1 .. k
  BY RangesUpTo, Zenon
<1>5. z \in 0 .. n /\ Q = 1 .. z
  BY RangesUpTo, Zenon
<1>6. \A i \in 1 .. n : (ranges[i][1] <= low <=> i \in 1 .. k) /\ (ranges[i][1] <= high <=> i \in 1 .. z)
  <2>1. \A i \in 1 .. n : (ranges[i][1] <= low <=> i \in P) /\ (ranges[i][1] <= high <=> i \in Q)
    BY <1>1
  <2> HIDE DEF P, Q, k, z
  <2> QED
    BY <1>4, <1>5, <2>1
<1> HIDE DEF k, z, P, Q
<1>7. k <= z
  <2> SUFFICES ASSUME k > z PROVE FALSE
    BY <1>4, <1>5
  <2>1. k \in 1 .. n /\ k \in 1 .. k /\ k \notin 1 .. z
    BY <1>4, <1>5
  <2>2. ranges[k][1] <= low /\ ~(ranges[k][1] <= high)
    BY <1>6, <2>1
  <2> QED
    BY <1>1, <2>1, <2>2
<1>8. taken = k + 1 .. z /\ k + Cardinality(taken) = z
  <2>1. taken = k + 1 .. z
    <3>1. ASSUME NEW i \in taken PROVE i \in k + 1 .. z
      <4>1. i \in 1 .. n /\ i \in k + 1 .. n /\ ranges[i][1] <= high
        BY <1>4
      <4>2. i \in 1 .. z
        BY <1>6, <4>1
      <4> QED
        BY <4>1, <4>2
    <3>2. ASSUME NEW i \in k + 1 .. z PROVE i \in taken
      <4>1. i \in 1 .. n /\ i \in k + 1 .. n /\ i \in 1 .. z
        BY <1>4, <1>5
      <4>2. ranges[i][1] <= high
        BY <1>6, <4>1
      <4> QED
        BY <4>1, <4>2
    <3> HIDE DEF taken
    <3> QED
      BY <3>1, <3>2
  <2>2. Cardinality(k + 1 .. z) = IF k + 1 > z THEN 0 ELSE z - (k + 1) + 1
    BY <1>4, <1>5, FS_Interval
  <2> HIDE DEF taken
  <2> QED
    BY <1>4, <1>5, <1>7, <2>1, <2>2
<1>9. /\ end \in Nat /\ end >= high
      /\ \A i \in k + 1 .. z : ranges[i][2] <= end
      /\ end = high \/ (k < z /\ z \in 1 .. n /\ end = ranges[z][2])
  <2> DEFINE S == {high} \cup {ranges[i][2] : i \in taken}
  <2>1. S = {high} \cup {ranges[i][2] : i \in k + 1 .. z}
    BY <1>8, Zenon
  <2>2. \A i \in k + 1 .. z : i \in 1 .. n
    BY <1>4, <1>5
  <2>4. \A i \in k + 1 .. z : ranges[i][2] \in S
    BY <2>1, Zenon
  <2>5. \A y \in S : y = high \/ \E i \in k + 1 .. z : y = ranges[i][2]
    BY <2>1, Zenon
  <2>6. end = Max(S)
    OBVIOUS
  <2> HIDE DEF S, end
  <2>3. S \in SUBSET Nat /\ S \in SUBSET Int /\ high \in S
    <3>1. \A i \in k + 1 .. z : ranges[i][2] \in Nat
      BY <1>1, <2>2
    <3>2. \A y \in S : y \in Nat
      BY <2>5, <3>1
    <3>3. high \in S
      BY <2>1
    <3> QED
      BY <3>2, <3>3
  <2>7. CASE k < z /\ ranges[z][2] > high
    <3>1. z \in 1 .. n /\ z \in k + 1 .. z
      BY <1>4, <1>5, <2>7
    <3>2. ASSUME NEW i \in k + 1 .. z PROVE ranges[i][2] <= ranges[z][2]
      <4>1. CASE i = z
        BY <1>1, <3>1, <4>1
      <4>2. CASE i # z
        <5>1. i < z /\ i \in 1 .. n
          BY <2>2, <1>4, <1>5, <4>2
        <5>2. ranges[i][2] < ranges[z][1] /\ ranges[z][1] < ranges[z][2]
          BY <1>2, <1>3, <3>1, <5>1
        <5> QED
          BY <1>1, <3>1, <5>1, <5>2
      <4> QED
        BY <4>1, <4>2
    <3>3. \A y \in S : y <= ranges[z][2]
      <4> SUFFICES ASSUME NEW y \in S PROVE y <= ranges[z][2]
        OBVIOUS
      <4>1. CASE y = high
        BY <1>1, <2>7, <3>1, <4>1
      <4>2. CASE \E i \in k + 1 .. z : y = ranges[i][2]
        BY <3>2, <4>2
      <4> QED
        BY <2>5, <4>1, <4>2
    <3>4. end = ranges[z][2]
      <4>1. ranges[z][2] \in S
        BY <2>4, <3>1
      <4> QED
        BY <2>3, <2>6, <3>3, <4>1, MaxIs
    <3> QED
      BY <1>1, <2>7, <3>1, <3>2, <3>4
  <2>8. CASE ~(k < z /\ ranges[z][2] > high)
    <3>1. ASSUME NEW i \in k + 1 .. z PROVE ranges[i][2] <= high
      <4>1. z \in 1 .. n /\ i \in 1 .. n /\ k < z
        BY <1>4, <1>5
      <4>2. ranges[z][2] <= high
        BY <1>1, <2>8, <4>1
      <4>3. i = z \/ (i < z /\ ranges[i][2] < ranges[z][1])
        BY <1>3, <4>1
      <4>4. ranges[z][1] < ranges[z][2]
        BY <1>2, <4>1
      <4> QED
        BY <1>1, <4>1, <4>2, <4>3, <4>4
    <3>2. \A y \in S : y <= high
      BY <2>5, <3>1
    <3>3. end = high
      BY <2>3, <2>6, <3>2, MaxIs
    <3> QED
      BY <3>1, <3>3
  <2> QED
    BY <2>7, <2>8
<1>10. Insert(ranges, low, high) =
         IF extends /\ ranges[k][2] >= high THEN ranges ELSE Spliced(ranges, a, <<begin, end>>, z)
  <2>1. Insert(ranges, low, high) =
          IF extends /\ ranges[k][2] >= high
            THEN ranges
            ELSE SubSeq(ranges, 1, a) \o <<<<begin, end>>>> \o SubSeq(ranges, k + Cardinality(taken) + 1, Len(ranges))
    BY DEF Insert, k, P
  <2> HIDE DEF extends, a, begin, taken, end
  <2> QED
    BY <1>8, <2>1, Zenon DEF Spliced, Patched
<1> HIDE DEF end, taken
<1>11. CASE extends /\ ranges[k][2] >= high
  <2>1. k \in 1 .. n /\ k \in 1 .. k
    BY <1>4, <1>11
  <2>2. ranges[k][1] <= low
    BY <1>6, <2>1
  <2>3. low .. high - 1 \subseteq ranges[k][1] .. ranges[k][2] - 1
    BY <1>1, <1>11, <2>1, <2>2
  <2>4. ranges[k][1] .. ranges[k][2] - 1 \subseteq ElementsOf(ranges)
    BY <1>1, <2>1 DEF ElementsOf
  <2> QED
    BY <1>10, <1>11, <2>3, <2>4
<1>12. CASE ~(extends /\ ranges[k][2] >= high)
  <2>1. /\ a \in Nat /\ a <= z /\ z <= n /\ z \in Nat /\ begin \in Nat /\ begin <= low /\ begin < end
        /\ a = k - 1 \/ a = k
    <3>1. CASE extends
      <4>1. k \in 1 .. n /\ k \in 1 .. k /\ a = k - 1 /\ begin = ranges[k][1]
        BY <1>4, <3>1
      <4>2. ranges[k][1] <= low
        BY <1>6, <4>1
      <4> HIDE DEF begin, a, extends
      <4> QED
        BY <1>1, <1>5, <1>7, <1>9, <4>1, <4>2
    <3>2. CASE ~extends
      <4>1. a = k /\ begin = low
        BY <3>2
      <4> HIDE DEF begin, a, extends
      <4> QED
        BY <1>4, <1>5, <1>7, <1>9, <4>1
    <3> QED
      BY <3>1, <3>2
  <2>2. \A i \in 1 .. a : ranges[i][2] < begin
    <3> SUFFICES ASSUME NEW i \in 1 .. a PROVE ranges[i][2] < begin
      OBVIOUS
    <3>1. CASE extends
      <4>1. k \in 1 .. n /\ a = k - 1 /\ begin = ranges[k][1] /\ i \in 1 .. n /\ i < k
        BY <1>4, <3>1
      <4> QED
        BY <1>3, <4>1
    <3>2. CASE ~extends
      <4>1. a = k /\ begin = low /\ k \in 1 .. n /\ i \in 1 .. n /\ ~(ranges[k][2] >= low)
        BY <1>4, <3>2
      <4>2. i = k \/ (i < k /\ ranges[i][2] < ranges[k][1])
        BY <1>3, <4>1
      <4>3. ranges[k][1] < ranges[k][2]
        BY <1>2, <4>1
      <4> HIDE DEF begin, a, extends
      <4> QED
        BY <1>1, <4>1, <4>2, <4>3
    <3> QED
      BY <3>1, <3>2
  <2>3. \A i \in z + 1 .. Len(ranges) : end < ranges[i][1]
    <3> SUFFICES ASSUME NEW i \in z + 1 .. n PROVE end < ranges[i][1]
      OBVIOUS
    <3>1. i \in 1 .. n /\ i \notin 1 .. z /\ z < i
      BY <1>5
    <3>2. high < ranges[i][1]
      BY <1>1, <1>6, <3>1
    <3>3. z \in 1 .. n => ranges[z][2] < ranges[i][1]
      BY <1>3, <3>1
    <3> QED
      BY <1>9, <3>2, <3>3
  <2> DEFINE new == Spliced(ranges, a, <<begin, end>>, z)
  <2>4. new \in RangeSets /\ InGaps(new)
        /\ ElementsOf(new) = HeldBy(ranges, 1 .. a) \cup (begin .. end - 1) \cup HeldBy(ranges, z + 1 .. n)
    <3>1. a \in Nat /\ z \in Nat /\ a <= z /\ z <= Len(ranges) /\ begin \in Nat /\ end \in Nat /\ begin < end
      BY <1>9, <2>1, Zenon
    <3> HIDE DEF a, begin, extends, new
    <3>2. InPlaceOf(Spliced(ranges, a, <<begin, end>>, z), ranges, a, begin, end, z)
      BY <2>2, <2>3, <3>1, SplicedKeeps
    <3> QED
      BY <3>2, Zenon DEF new, InPlaceOf
  <2> HIDE DEF new
  <2>5. ElementsOf(ranges) = HeldBy(ranges, 1 .. a) \cup HeldBy(ranges, a + 1 .. z) \cup HeldBy(ranges, z + 1 .. n)
    <3>1. 1 .. n = (1 .. a) \cup (a + 1 .. z) \cup (z + 1 .. n)
      <4> HIDE DEF a, begin, extends
      <4> QED
        BY <1>1, <2>1
    <3>2. ElementsOf(ranges) = HeldBy(ranges, 1 .. n)
      BY <1>1, Zenon DEF ElementsOf, HeldBy
    <3>3. ASSUME NEW I, NEW J PROVE HeldBy(ranges, I \cup J) = HeldBy(ranges, I) \cup HeldBy(ranges, J)
      BY DEF HeldBy
    <3> HIDE DEF a
    <3>4. HeldBy(ranges, (1 .. a) \cup (a + 1 .. z) \cup (z + 1 .. n)) =
            HeldBy(ranges, (1 .. a) \cup (a + 1 .. z)) \cup HeldBy(ranges, z + 1 .. n)
      BY <3>3, Zenon
    <3>5. HeldBy(ranges, (1 .. a) \cup (a + 1 .. z)) = HeldBy(ranges, 1 .. a) \cup HeldBy(ranges, a + 1 .. z)
      BY <3>3, Zenon
    <3> QED
      BY <3>1, <3>2, <3>4, <3>5, Zenon
  <2>6. HeldBy(ranges, a + 1 .. z) \cup (low .. high - 1) = begin .. end - 1
    <3>1. ASSUME NEW i \in a + 1 .. z, NEW e \in ranges[i][1] .. ranges[i][2] - 1
          PROVE  e \in begin .. end - 1
      <4>1. i \in 1 .. n
        <5> HIDE DEF a, begin, extends
        <5> QED
          BY <1>5, <2>1
      <4>2. CASE i <= k
        <5>1. extends /\ i = k /\ begin = ranges[k][1] /\ ranges[k][2] < high
          <6>1. extends
            BY <1>4, <1>5, <4>1, <4>2
          <6>2. i = k
            BY <1>4, <1>5, <4>1, <4>2, <6>1
          <6>3. ranges[k][2] \in Nat
            BY <1>1, <4>1, <6>2
          <6> QED
            BY <1>12, <6>1, <6>2, <6>3
        <5> HIDE DEF a, begin, extends
        <5> QED
          BY <1>1, <1>9, <2>1, <4>1, <5>1
      <4>3. CASE ~(i <= k)
        <5>1. i \in k + 1 .. z /\ i \notin 1 .. k
          BY <1>4, <1>5, <4>1, <4>3
        <5>2. ranges[i][2] <= end /\ ~(ranges[i][1] <= low)
          BY <1>6, <1>9, <4>1, <5>1
        <5> HIDE DEF a, begin, extends
        <5> QED
          BY <1>1, <1>9, <2>1, <4>1, <5>2
      <4> QED
        BY <4>2, <4>3
    <3>2. ASSUME NEW e \in begin .. end - 1, e \notin low .. high - 1
          PROVE  \E i \in a + 1 .. z : e \in ranges[i][1] .. ranges[i][2] - 1
      <4>0. e \in Nat
        <5> HIDE DEF a, begin, extends
        <5> QED
          BY <2>1, <1>9
      <4>1. CASE e < low
        <5>1. extends
          BY <4>1
        <5>2. k \in 1 .. n /\ a = k - 1 /\ begin = ranges[k][1] /\ ranges[k][2] >= low
          BY <1>4, <5>1
        <5> HIDE DEF a, begin, extends
        <5>3. k \in a + 1 .. z
          BY <1>5, <1>7, <5>2
        <5>4. e \in ranges[k][1] .. ranges[k][2] - 1
          BY <1>1, <4>0, <4>1, <5>2
        <5> QED
          BY <5>3, <5>4
      <4>2. CASE ~(e < low)
        <5> HIDE DEF a, begin, extends
        <5>1. e >= high /\ e < end
          BY <1>9, <2>1, <3>2, <4>0, <4>2
        <5>2. k < z /\ z \in 1 .. n /\ end = ranges[z][2]
          BY <1>9, <5>1
        <5>3. z \in a + 1 .. z /\ z \in 1 .. z
          BY <1>4, <1>5, <2>1, <5>2
        <5>4. ranges[z][1] <= high
          BY <1>6, <5>2, <5>3
        <5>5. e \in ranges[z][1] .. ranges[z][2] - 1
          BY <1>1, <4>0, <5>1, <5>2, <5>4
        <5> QED
          BY <5>3, <5>5
      <4> QED
        BY <4>1, <4>2
    <3>3. low .. high - 1 \subseteq begin .. end - 1
      <4> HIDE DEF a, begin, extends
      <4> QED
        BY <1>9, <2>1
    <3> HIDE DEF a, begin, extends
    <3> QED
      BY <3>1, <3>2, <3>3, Zenon DEF HeldBy
  <2>7. Insert(ranges, low, high) = new
    BY <1>10, <1>12 DEF new
  <2> HIDE DEF a, begin, extends
  <2>8. ElementsOf(new) = ElementsOf(ranges) \cup (low .. high - 1)
    BY <2>4, <2>5, <2>6, Zenon
  <2> QED
    BY <2>4, <2>7, <2>8
<1> QED
  BY <1>11, <1>12

\* How many of the elements come before one.
Rank(E, e) == Cardinality({d \in E : d < e})

SizeOf(ranges) == [j \in DOMAIN ranges |-> ranges[j][2] - ranges[j][1]]

LEMMA CountBetween ==
  ASSUME NEW m \in Nat, NEW n \in Nat, m <= n
  PROVE  IsFiniteSet(m .. n - 1) /\ Cardinality(m .. n - 1) = n - m
<1>1. IsFiniteSet(m .. n - 1) /\ Cardinality(m .. n - 1) = IF m > n - 1 THEN 0 ELSE n - 1 - m + 1
  BY FS_Interval
<1> QED
  BY <1>1

LEMMA CountOfTwo ==
  ASSUME NEW S, NEW T, IsFiniteSet(S), IsFiniteSet(T), S \cap T = {}
  PROVE  /\ IsFiniteSet(S \cup T) /\ Cardinality(S \cup T) = Cardinality(S) + Cardinality(T)
         /\ Cardinality(S) \in Nat /\ Cardinality(T) \in Nat
<1>1. Cardinality(S \cap T) = 0
  BY FS_EmptySet
<1>2. IsFiniteSet(S \cup T) /\ Cardinality(S \cup T) = Cardinality(S) + Cardinality(T) - Cardinality(S \cap T)
  BY FS_Union
<1>3. Cardinality(S) \in Nat /\ Cardinality(T) \in Nat
  BY FS_CardinalityType
<1> DEFINE both == Cardinality(S \cup T)
           common == Cardinality(S \cap T)
           first == Cardinality(S)
           second == Cardinality(T)
<1>4. first \in Nat /\ second \in Nat /\ common = 0 /\ both = first + second - common
  BY <1>1, <1>2, <1>3, Zenon
<1> HIDE DEF both, common, first, second
<1>5. both = first + second
  BY <1>4
<1> QED
  BY <1>2, <1>3, <1>5, Zenon DEF both, first, second

LEMMA SizesAre ==
  ASSUME NEW ranges \in RangeSets, InGaps(ranges)
  PROVE  \A i \in 1 .. Len(ranges) :
           SizeOf(ranges)[i] = ranges[i][2] - ranges[i][1] /\ SizeOf(ranges)[i] \in Nat
BY RangesAre DEF InGaps, SizeOf

\* The ranges before one hold as many elements as their lengths add up to.
LEMMA OffsetsCount ==
  ASSUME NEW ranges \in RangeSets, InGaps(ranges)
  PROVE  \A i \in 0 .. Len(ranges) :
           /\ IsFiniteSet(HeldBy(ranges, 1 .. i))
           /\ RangeOffset(ranges, i + 1) = Cardinality(HeldBy(ranges, 1 .. i))
<1> DEFINE f == SizeOf(ranges)
           n == Len(ranges)
           Held(i) == HeldBy(ranges, 1 .. i)
           Right(i) == IsFiniteSet(Held(i)) /\ SumFunctionOnSet(f, 1 .. i) = Cardinality(Held(i))
           T == {i \in Nat : i <= n => Right(i)}
<1>1. n \in Nat /\ DOMAIN ranges = 1 .. n
  BY RangesAre
<1>2. 0 \in T
  <2>1. 1 .. 0 = {}
    OBVIOUS
  <2>2. Held(0) = {}
    BY <2>1 DEF HeldBy
  <2>3. SumFunctionOnSet(f, 1 .. 0) = 0
    BY <2>1, SumOfNothing
  <2>4. IsFiniteSet({}) /\ Cardinality({}) = 0
    BY FS_EmptySet
  <2>5. Right(0)
    BY <2>2, <2>3, <2>4, Zenon
  <2> HIDE DEF Right
  <2> QED
    BY <2>5
<1>3. ASSUME NEW i \in T PROVE i + 1 \in T
  <2> SUFFICES ASSUME i \in Nat, i + 1 <= n PROVE Right(i + 1)
    BY <1>3
  <2> DEFINE last == ranges[i + 1][1] .. ranges[i + 1][2] - 1
  <2>1. i \in Nat /\ i + 1 \in 1 .. n /\ i <= n
    BY <1>1
  <2>2. Right(i)
    <3> HIDE DEF Right
    <3> QED
      BY <1>3, <2>1
  <2>3. 1 .. i + 1 = (1 .. i) \cup {i + 1} /\ i + 1 \notin 1 .. i
    BY <2>1
  <2>4. Held(i + 1) = Held(i) \cup last
    BY <2>3 DEF HeldBy
  <2>5. /\ ranges[i + 1][1] \in Nat /\ ranges[i + 1][2] \in Nat /\ ranges[i + 1][1] < ranges[i + 1][2]
        /\ f[i + 1] = ranges[i + 1][2] - ranges[i + 1][1]
    BY <1>1, <2>1, RangesAre, SizesAre DEF InGaps
  <2>6. IsFiniteSet(last) /\ Cardinality(last) = f[i + 1]
    BY <2>5, CountBetween
  <2>7. Held(i) \cap last = {}
    <3> SUFFICES ASSUME NEW j \in 1 .. i, NEW e \in ranges[j][1] .. ranges[j][2] - 1, e \in last PROVE FALSE
      BY DEF HeldBy
    <3>1. j \in 1 .. n /\ j < i + 1
      BY <1>1, <2>1
    <3>2. ranges[j][2] < ranges[i + 1][1] /\ ranges[j][1] \in Nat /\ ranges[j][2] \in Nat
      BY <2>1, <3>1, RangesAscend, RangesAre
    <3> QED
      BY <2>5, <3>2
  <2>8. IsFiniteSet(Held(i) \cup last) /\ Cardinality(Held(i) \cup last) = Cardinality(Held(i)) + Cardinality(last)
    BY <2>2, <2>6, <2>7, CountOfTwo, Zenon
  <2>9. SumFunctionOnSet(f, (1 .. i) \cup {i + 1}) = SumFunctionOnSet(f, 1 .. i) + f[i + 1]
    <3>1. IsFiniteSet(1 .. i)
      BY <2>1, FS_Interval
    <3>2. \A j \in (1 .. i) \cup {i + 1} : f[j] \in Nat
      BY <1>1, <2>1, SizesAre
    <3> HIDE DEF f
    <3> QED
      BY <2>3, <3>1, <3>2, SumOfMore, Zenon
  <2> HIDE DEF Held, f, last
  <2> QED
    BY <2>2, <2>3, <2>4, <2>6, <2>8, <2>9
<1>4. T = Nat
  <2>1. T \in SUBSET Nat
    OBVIOUS
  <2> HIDE DEF T
  <2> QED
    BY <1>2, <1>3, <2>1, Induct
<1> SUFFICES ASSUME NEW i \in 0 .. n
             PROVE  IsFiniteSet(Held(i)) /\ RangeOffset(ranges, i + 1) = Cardinality(Held(i))
  OBVIOUS
<1>5. Right(i)
  <2>1. i \in T /\ i <= n
    BY <1>1, <1>4
  <2> HIDE DEF Right
  <2> QED
    BY <2>1
<1>6. i + 1 - 1 = i
  OBVIOUS
<1> QED
  BY <1>5, <1>6 DEF RangeOffset, SizeOf

LEMMA OffsetOfAll ==
  ASSUME NEW ranges \in RangeSets, InGaps(ranges)
  PROVE  /\ ElementsOf(ranges) \in SUBSET Nat /\ IsFiniteSet(ElementsOf(ranges))
         /\ Cardinality(ElementsOf(ranges)) \in Nat
         /\ RangeOffset(ranges, Len(ranges) + 1) = Cardinality(ElementsOf(ranges))
<1>1. Len(ranges) \in 0 .. Len(ranges) /\ DOMAIN ranges = 1 .. Len(ranges)
  BY RangesAre
<1>2. ElementsOf(ranges) = HeldBy(ranges, 1 .. Len(ranges))
  BY <1>1, Zenon DEF ElementsOf, HeldBy
<1>3. \A i \in DOMAIN ranges : \A e \in ranges[i][1] .. ranges[i][2] - 1 : e \in Nat
  BY <1>1, RangesAre
<1>4. ElementsOf(ranges) \in SUBSET Nat
  BY <1>3 DEF ElementsOf
<1> QED
  BY <1>1, <1>2, <1>4, OffsetsCount, FS_CardinalityType

\* An element in a range comes behind those of the ranges before and behind
\* those of the range that are smaller.
LEMMA RankIn ==
  ASSUME NEW ranges \in RangeSets, InGaps(ranges), NEW i \in 1 .. Len(ranges),
         NEW e \in ranges[i][1] .. ranges[i][2]
  PROVE  /\ Rank(ElementsOf(ranges), e) = RangeOffset(ranges, i) + (e - ranges[i][1])
         /\ RangeOffset(ranges, i) \in Nat
<1> DEFINE n == Len(ranges)
           before == HeldBy(ranges, 1 .. i - 1)
           part == ranges[i][1] .. e - 1
           all == {d \in ElementsOf(ranges) : d < e}
<1>1. n \in Nat /\ i \in Nat /\ i - 1 \in 0 .. n /\ i - 1 + 1 = i /\ DOMAIN ranges = 1 .. n
  BY RangesAre
<1>2. \A j \in 1 .. n : ranges[j][1] \in Nat /\ ranges[j][2] \in Nat /\ ranges[j][1] < ranges[j][2]
  BY <1>1, RangesAre DEF InGaps
<1>3. e \in Nat /\ ranges[i][1] <= e /\ e <= ranges[i][2]
  BY <1>2
<1>4. IsFiniteSet(before) /\ RangeOffset(ranges, i) = Cardinality(before)
  BY <1>1, OffsetsCount
<1>5. IsFiniteSet(part) /\ Cardinality(part) = e - ranges[i][1]
  BY <1>2, <1>3, CountBetween
<1>6. ASSUME NEW j \in 1 .. i - 1, NEW d \in ranges[j][1] .. ranges[j][2] - 1 PROVE d < ranges[i][1] /\ d \in Nat
  <2>1. j \in 1 .. n /\ j < i
    BY <1>1
  <2>2. ranges[j][2] < ranges[i][1]
    BY <2>1, RangesAscend
  <2> QED
    BY <1>2, <2>1, <2>2
<1>7. before \cap part = {}
  BY <1>2, <1>6 DEF HeldBy
<1>8. ASSUME NEW d \in before \cup part PROVE d \in all
  <2>1. CASE d \in before
    <3>1. PICK j \in 1 .. i - 1 : d \in ranges[j][1] .. ranges[j][2] - 1
      BY <2>1 DEF HeldBy
    <3>2. j \in DOMAIN ranges
      BY <1>1
    <3>3. d < e
      BY <1>2, <1>3, <1>6, <3>1
    <3> QED
      BY <3>1, <3>2, <3>3 DEF ElementsOf
  <2>2. CASE d \in part
    <3>1. d \in ranges[i][1] .. ranges[i][2] - 1 /\ i \in DOMAIN ranges /\ d < e
      BY <1>1, <1>2, <1>3, <2>2
    <3> QED
      BY <3>1 DEF ElementsOf
  <2> QED
    BY <2>1, <2>2
<1>9. ASSUME NEW d \in all PROVE d \in before \cup part
  <2>1. PICK j \in DOMAIN ranges : d \in ranges[j][1] .. ranges[j][2] - 1
    BY DEF ElementsOf
  <2>2. j \in 1 .. n /\ d \in Nat /\ d < e
    BY <1>1, <1>2, <2>1
  <2>3. CASE j < i
    <3>1. j \in 1 .. i - 1
      BY <1>1, <2>2, <2>3
    <3> QED
      BY <2>1, <3>1 DEF HeldBy
  <2>4. CASE j = i
    BY <1>2, <1>3, <2>1, <2>2, <2>4
  <2>5. CASE i < j
    <3>1. ranges[i][2] < ranges[j][1]
      BY <2>2, <2>5, RangesAscend
    <3> QED
      BY <1>2, <1>3, <2>1, <2>2, <3>1
  <2> QED
    BY <1>1, <2>2, <2>3, <2>4, <2>5
<1> HIDE DEF before, part, all
<1>10. all = before \cup part
  BY <1>8, <1>9
<1>11. Cardinality(before \cup part) = Cardinality(before) + Cardinality(part) /\ Cardinality(before) \in Nat
  BY <1>4, <1>5, <1>7, CountOfTwo
<1>12. Rank(ElementsOf(ranges), e) = Cardinality(all)
  BY DEF Rank, all
<1> QED
  BY <1>4, <1>5, <1>10, <1>11, <1>12

\* IndexOffset counts the elements that are smaller, or all of them.
LEMMA IndexOffsetIs ==
  ASSUME NEW ranges \in RangeSets, InGaps(ranges), NEW index \in Nat
  PROVE  IndexOffset(ranges, index) =
           IF index \in ElementsOf(ranges) THEN Rank(ElementsOf(ranges), index) ELSE Cardinality(ElementsOf(ranges))
<1> DEFINE found == {i \in DOMAIN ranges : index \in ranges[i][1] .. ranges[i][2] - 1}
<1>1. index \in ElementsOf(ranges) <=> found # {}
  BY DEF ElementsOf
<1>2. CASE found = {}
  BY <1>1, <1>2, OffsetOfAll DEF IndexOffset
<1>3. CASE found # {}
  <2>1. PICK i \in found : TRUE
    BY <1>3
  <2>2. /\ i \in 1 .. Len(ranges) /\ i \in Int /\ DOMAIN ranges = 1 .. Len(ranges) /\ Len(ranges) \in Nat
        /\ index \in ranges[i][1] .. ranges[i][2] - 1
        /\ ranges[i][1] \in Nat /\ ranges[i][2] \in Nat
    BY <2>1, RangesAre
  <2>3. ASSUME NEW j \in found PROVE j = i
    <3>1. j \in 1 .. Len(ranges) /\ index \in ranges[j][1] .. ranges[j][2] - 1
      BY <2>2
    <3>2. ranges[j][1] \in Nat /\ ranges[j][2] \in Nat
      BY <3>1, RangesAre
    <3>3. (i < j => ranges[i][2] < ranges[j][1]) /\ (j < i => ranges[j][2] < ranges[i][1])
      BY <2>2, <3>1, RangesAscend
    <3>4. i \in Int /\ j \in Int /\ ~(i < j) /\ ~(j < i)
      BY <2>2, <3>1, <3>2, <3>3
    <3> QED
      BY <3>4
  <2>4. found = {i}
    BY <2>1, <2>3
  <2>5. Min(found) = i
    BY <2>2, <2>4, MinOfOne
  <2>6. IndexOffset(ranges, index) = RangeOffset(ranges, i) + index - ranges[i][1]
    <3>1. IndexOffset(ranges, index) = RangeOffset(ranges, Min(found)) + index - ranges[Min(found)][1]
      BY <1>3 DEF IndexOffset
    <3> HIDE DEF found
    <3> QED
      BY <2>5, <3>1
  <2>7. index \in ranges[i][1] .. ranges[i][2]
    BY <2>2
  <2>8. Rank(ElementsOf(ranges), index) = RangeOffset(ranges, i) + (index - ranges[i][1]) /\ RangeOffset(ranges, i) \in Nat
    BY <2>2, <2>7, RankIn
  <2> QED
    BY <1>1, <1>3, <2>2, <2>6, <2>8
<1> QED
  BY <1>2, <1>3

------------------------------------------------------------------------------
(***************************************************************************)
(* The data of the bindings, one behind the other.                         *)
(***************************************************************************)
LEMMA GreatestIn ==
  ASSUME NEW S \in SUBSET Nat, IsFiniteSet(S), S # {}
  PROVE  \E x \in S : \A y \in S : y <= x
<1> DEFINE Greatest(s) == \E x \in s : \A y \in s : y <= x
           T == {n \in Nat : \A s \in SUBSET Nat : IsFiniteSet(s) /\ Cardinality(s) = n + 1 => Greatest(s)}
<1>1. 0 \in T
  <2> SUFFICES ASSUME NEW s \in SUBSET Nat, IsFiniteSet(s), Cardinality(s) = 0 + 1 PROVE Greatest(s)
    OBVIOUS
  <2>0. Cardinality(s) = 1
    OBVIOUS
  <2>1. \E x : s = {x}
    BY <2>0, FS_Singleton, Zenon
  <2> QED
    BY <2>1
<1>2. ASSUME NEW n \in T PROVE n + 1 \in T
  <2> SUFFICES ASSUME NEW s \in SUBSET Nat, IsFiniteSet(s), Cardinality(s) = n + 1 + 1 PROVE Greatest(s)
    OBVIOUS
  <2>1. s # {}
    BY FS_EmptySet
  <2>2. PICK z \in s : TRUE
    BY <2>1
  <2>3. IsFiniteSet(s \ {z}) /\ Cardinality(s \ {z}) = Cardinality(s) - 1
    BY FS_RemoveElement, Zenon
  <2>4. Cardinality(s \ {z}) = n + 1 /\ s \ {z} \in SUBSET Nat
    BY <2>3
  <2>5. Greatest(s \ {z})
    <3> HIDE DEF Greatest
    <3> QED
      BY <1>2, <2>3, <2>4
  <2>6. PICK x \in s \ {z} : \A y \in s \ {z} : y <= x
    BY <2>5
  <2>7. z \in Nat /\ x \in Nat
    BY <2>2, <2>6
  <2>8. CASE z <= x
    BY <2>6, <2>8
  <2>9. CASE x < z
    <3>1. \A y \in s : y <= z
      BY <2>6, <2>7, <2>9
    <3> QED
      BY <3>1
  <2> QED
    BY <2>7, <2>8, <2>9
<1>3. T = Nat
  <2>1. T \in SUBSET Nat
    OBVIOUS
  <2> HIDE DEF T
  <2> QED
    BY <1>1, <1>2, <2>1, Induct
<1>4. Cardinality(S) \in Nat /\ Cardinality(S) # 0
  BY FS_CardinalityType, FS_EmptySet
<1>5. Cardinality(S) - 1 \in T /\ Cardinality(S) = Cardinality(S) - 1 + 1
  BY <1>3, <1>4
<1> QED
  BY <1>5

Below(D, b) == {d \in D : d < b}
Above(D, b) == {d \in D : b < d}
Between(D, b, c) == {d \in D : b < d /\ d < c}

\* How much a binding has, if it is there.
Own(f, D, b) == IF b \in D THEN f[b] ELSE 0

Counts(f, D) == D \in SUBSET Nat /\ IsFiniteSet(D) /\ \A d \in D : f[d] \in Nat

LEMMA SumsAre ==
  ASSUME NEW f, NEW D, Counts(f, D), NEW S \in SUBSET D
  PROVE  IsFiniteSet(S) /\ SumFunctionOnSet(f, S) \in Nat
<1>1. IsFiniteSet(S) /\ \A x \in S : f[x] \in Nat
  BY FS_Subset DEF Counts
<1> QED
  BY <1>1, SumIsNatural

LEMMA SumOwn ==
  ASSUME NEW f, NEW D, Counts(f, D), NEW b
  PROVE  SumFunctionOnSet(f, D \cap {b}) = Own(f, D, b) /\ Own(f, D, b) \in Nat
<1>1. CASE b \in D
  <2>1. D \cap {b} = {b} /\ f[b] \in Nat
    BY <1>1 DEF Counts
  <2> QED
    BY <1>1, <2>1, SumOfOne DEF Own
<1>2. CASE b \notin D
  <2>1. D \cap {b} = {}
    BY <1>2
  <2> QED
    BY <1>2, <2>1, SumOfNothing DEF Own
<1> QED
  BY <1>1, <1>2

LEMMA SumOfThree ==
  ASSUME NEW f, NEW D, Counts(f, D), NEW b, NEW A \in SUBSET D, NEW B \in SUBSET D,
         A \cap B = {}, b \notin A, b \notin B
  PROVE  SumFunctionOnSet(f, A \cup (D \cap {b}) \cup B) =
           SumFunctionOnSet(f, A) + Own(f, D, b) + SumFunctionOnSet(f, B)
<1> DEFINE C == D \cap {b}
           AC == A \cup C
<1>0. C \in SUBSET D /\ AC \in SUBSET D /\ A \cap C = {} /\ AC \cap B = {}
  OBVIOUS
<1>1. IsFiniteSet(A) /\ IsFiniteSet(B) /\ IsFiniteSet(C) /\ IsFiniteSet(AC)
  BY <1>0, SumsAre
<1>2. \A x \in D : f[x] \in Nat
  BY DEF Counts
<1>3. SumFunctionOnSet(f, C) = Own(f, D, b)
  BY SumOwn
<1> HIDE DEF C
<1>4. SumFunctionOnSet(f, A \cup C) = SumFunctionOnSet(f, A) + SumFunctionOnSet(f, C)
  <2>1. \A x \in A \cup C : f[x] \in Nat
    BY <1>0, <1>2
  <2> QED
    BY <1>0, <1>1, <2>1, SumOfTwo
<1> HIDE DEF AC
<1>5. SumFunctionOnSet(f, AC \cup B) = SumFunctionOnSet(f, AC) + SumFunctionOnSet(f, B)
  <2>1. \A x \in AC \cup B : f[x] \in Nat
    BY <1>0, <1>2
  <2> QED
    BY <1>0, <1>1, <2>1, SumOfTwo
<1> QED
  BY <1>3, <1>4, <1>5, Zenon DEF AC, C

LEMMA SumAround ==
  ASSUME NEW f, NEW D, Counts(f, D), NEW b \in Nat
  PROVE  /\ SumFunctionOnSet(f, D) =
              SumFunctionOnSet(f, Below(D, b)) + Own(f, D, b) + SumFunctionOnSet(f, Above(D, b))
         /\ \A c \in Nat : b < c =>
              SumFunctionOnSet(f, Below(D, c)) =
                SumFunctionOnSet(f, Below(D, b)) + Own(f, D, b) + SumFunctionOnSet(f, Between(D, b, c))
<1>0. D \in SUBSET Nat
  BY DEF Counts
<1>1. ~(b < b) /\ \A d \in D : (d < b \/ d = b \/ b < d) /\ ~(d < b /\ b < d)
  BY <1>0
<1>2. D = Below(D, b) \cup (D \cap {b}) \cup Above(D, b)
  BY <1>1, Zenon DEF Below, Above
<1>3. /\ Below(D, b) \in SUBSET D /\ Above(D, b) \in SUBSET D
      /\ Below(D, b) \cap Above(D, b) = {} /\ b \notin Below(D, b) /\ b \notin Above(D, b)
  BY <1>1, Zenon DEF Below, Above
<1>4. SumFunctionOnSet(f, Below(D, b) \cup (D \cap {b}) \cup Above(D, b)) =
        SumFunctionOnSet(f, Below(D, b)) + Own(f, D, b) + SumFunctionOnSet(f, Above(D, b))
  BY <1>3, SumOfThree
<1>5. ASSUME NEW c \in Nat, b < c
      PROVE  SumFunctionOnSet(f, Below(D, c)) =
               SumFunctionOnSet(f, Below(D, b)) + Own(f, D, b) + SumFunctionOnSet(f, Between(D, b, c))
  <2>1. Below(D, c) = Below(D, b) \cup (D \cap {b}) \cup Between(D, b, c)
    <3>1. \A d \in D : (d < b => d < c) /\ (d = b => d < c)
      BY <1>0, <1>5
    <3> QED
      BY <1>1, <3>1, Zenon DEF Below, Between
  <2>2. /\ Below(D, b) \in SUBSET D /\ Between(D, b, c) \in SUBSET D
        /\ Below(D, b) \cap Between(D, b, c) = {} /\ b \notin Below(D, b) /\ b \notin Between(D, b, c)
    BY <1>1, Zenon DEF Below, Between
  <2>3. SumFunctionOnSet(f, Below(D, b) \cup (D \cap {b}) \cup Between(D, b, c)) =
          SumFunctionOnSet(f, Below(D, b)) + Own(f, D, b) + SumFunctionOnSet(f, Between(D, b, c))
    BY <2>2, SumOfThree
  <2> QED
    BY <2>1, <2>3, Zenon
<1> QED
  BY <1>2, <1>4, <1>5, Zenon

\* How much each binding has.
CountsOf(map) == [b \in DOMAIN map |-> map[b].count]

BindingData == [offset : Nat, count : Nat, ranges : RangeSets]

Datum == Nat \X Nat

\* Each binding's data where that of the binding before ends.
MapTyped(map) ==
  /\ DOMAIN map \in SUBSET Nat /\ IsFiniteSet(DOMAIN map)
  /\ \A b \in DOMAIN map : map[b] \in BindingData

MapInPlace(map) ==
  \A b \in DOMAIN map :
    /\ map[b].offset = SumFunctionOnSet(CountsOf(map), Below(DOMAIN map, b))
    /\ map[b].count = Cardinality(ElementsOf(map[b].ranges))
    /\ InGaps(map[b].ranges)

DataTyped(map, data) ==
  /\ data \in Seq(Datum)
  /\ Len(data) = SumFunctionOnSet(CountsOf(map), DOMAIN map)

LEMMA MapCounts ==
  ASSUME NEW map, MapTyped(map)
  PROVE  Counts(CountsOf(map), DOMAIN map) /\ \A b \in DOMAIN map : CountsOf(map)[b] = map[b].count
BY DEF MapTyped, Counts, CountsOf, BindingData

\* Where the data of a binding begins, or would.
OffsetFor(map, b) ==
  IF b \in DOMAIN map THEN map[b].offset
  ELSE IF {c \in DOMAIN map : c < b} = {} THEN 0
  ELSE map[Max({c \in DOMAIN map : c < b})].offset + map[Max({c \in DOMAIN map : c < b})].count

LEMMA OffsetForIs ==
  ASSUME NEW map, MapTyped(map), MapInPlace(map), NEW b \in Nat
  PROVE  OffsetFor(map, b) = SumFunctionOnSet(CountsOf(map), Below(DOMAIN map, b))
<1> DEFINE lower == {c \in DOMAIN map : c < b}
           f == CountsOf(map)
           D == DOMAIN map
<1>1. lower = Below(D, b)
  BY DEF Below
<1>2. CASE b \in DOMAIN map
  BY <1>2 DEF OffsetFor, MapInPlace
<1>3. CASE b \notin DOMAIN map /\ lower = {}
  BY <1>1, <1>3, SumOfNothing DEF OffsetFor
<1>4. CASE b \notin DOMAIN map /\ lower # {}
  <2>1. D \in SUBSET Nat /\ lower \in SUBSET D /\ lower \in SUBSET Nat /\ lower \in SUBSET Int /\ IsFiniteSet(lower)
    BY FS_Subset DEF MapTyped
  <2>2. PICK m \in lower : \A y \in lower : y <= m
    <3> HIDE DEF lower
    <3> QED
      BY <1>4, <2>1, GreatestIn
  <2>3. Max(lower) = m
    <3> HIDE DEF lower
    <3> QED
      BY <2>1, <2>2, MaxIs
  <2>4. m \in D /\ m \in Nat /\ m < b
    BY <2>1, <2>2
  <2>5. Between(D, m, b) = {}
    <3> SUFFICES ASSUME NEW d \in D, m < d, d < b PROVE FALSE
      BY DEF Between
    <3>1. d \in lower
      OBVIOUS
    <3>2. d <= m /\ d \in Nat
      BY <2>1, <2>2, <3>1
    <3> QED
      BY <2>4, <3>2
  <2>6. Counts(f, D) /\ f[m] = map[m].count
    BY <2>4, MapCounts
  <2>7. SumFunctionOnSet(f, Below(D, b)) =
          SumFunctionOnSet(f, Below(D, m)) + Own(f, D, m) + SumFunctionOnSet(f, Between(D, m, b))
    BY <2>4, <2>6, SumAround
  <2>8. SumFunctionOnSet(f, Between(D, m, b)) = 0
    BY <2>5, SumOfNothing
  <2>9. Own(f, D, m) = map[m].count
    BY <2>4, <2>6, Zenon DEF Own
  <2>10. map[m].offset = SumFunctionOnSet(f, Below(D, m))
    BY <2>4 DEF MapInPlace
  <2>11. map[m].offset \in Nat /\ map[m].count \in Nat
    BY <2>4 DEF MapTyped, BindingData
  <2>12. OffsetFor(map, b) = map[m].offset + map[m].count
    <3>1. OffsetFor(map, b) = map[Max(lower)].offset + map[Max(lower)].count
      BY <1>4 DEF OffsetFor
    <3> HIDE DEF lower
    <3> QED
      BY <2>3, <3>1
  <2>13. ASSUME NEW x, NEW y, NEW z, x = map[m].offset + map[m].count,
                y = map[m].offset + map[m].count + z, z = 0
         PROVE  x = y
    BY <2>11, <2>13
  <2> HIDE DEF f, D, lower
  <2> QED
    BY <2>7, <2>8, <2>9, <2>10, <2>11, <2>12 DEF f, D
<1> QED
  BY <1>2, <1>3, <1>4

CountFor(map, b) == IF b \in DOMAIN map THEN map[b].count ELSE 0

\* The map with one binding's ranges and amount of data replaced, and the data.
Swapped(map, b, n, ranges) ==
  [c \in DOMAIN map \cup {b} |->
    IF c = b THEN [offset |-> OffsetFor(map, b), count |-> n, ranges |-> ranges] ELSE map[c]]

Put(map, b, n, ranges) == Reoffset(Swapped(map, b, n, ranges), b)

PutData(map, data, b, values) ==
  Patched(data, OffsetFor(map, b), values, OffsetFor(map, b) + CountFor(map, b))

LEMMA ReplacePuts ==
  ASSUME NEW map, NEW data, NEW b, NEW values, NEW ranges, Replace(map, data, b, values, ranges)
  PROVE  bindingsMap' = Put(map, b, Len(values), ranges) /\ bindingsData' = PutData(map, data, b, values)
BY Zenon DEF Replace, Put, Swapped, PutData, Patched, OffsetFor, CountFor

SumsBelow(map, b) == SumFunctionOnSet(CountsOf(map), Below(DOMAIN map, b))
SumsBetween(map, b, c) == SumFunctionOnSet(CountsOf(map), Between(DOMAIN map, b, c))
SumsAbove(map, b) == SumFunctionOnSet(CountsOf(map), Above(DOMAIN map, b))

\* The sums of a map around one binding, before and after.
LEMMA SumsOfMap ==
  ASSUME NEW map, MapTyped(map), NEW b \in Nat
  PROVE  /\ SumsBelow(map, b) \in Nat /\ SumsAbove(map, b) \in Nat /\ CountFor(map, b) \in Nat
         /\ SumFunctionOnSet(CountsOf(map), DOMAIN map) =
              SumsBelow(map, b) + CountFor(map, b) + SumsAbove(map, b)
         /\ \A c \in Nat : b < c =>
              /\ SumsBetween(map, b, c) \in Nat
              /\ SumsBelow(map, c) = SumsBelow(map, b) + CountFor(map, b) + SumsBetween(map, b, c)
<1> DEFINE f == CountsOf(map)
           D == DOMAIN map
<1>1. Counts(f, D) /\ \A c \in D : f[c] = map[c].count
  BY MapCounts
<1>2. Own(f, D, b) = CountFor(map, b) /\ Own(f, D, b) \in Nat
  <2>1. Own(f, D, b) = CountFor(map, b)
    BY <1>1, Zenon DEF Own, CountFor
  <2> HIDE DEF f, D
  <2> QED
    BY <1>1, <2>1, SumOwn
<1>3. Below(D, b) \in SUBSET D /\ Above(D, b) \in SUBSET D /\ \A c : Between(D, b, c) \in SUBSET D
  BY DEF Below, Above, Between
<1>4. /\ SumFunctionOnSet(f, Below(D, b)) \in Nat /\ SumFunctionOnSet(f, Above(D, b)) \in Nat
      /\ \A c : SumFunctionOnSet(f, Between(D, b, c)) \in Nat
  <2> HIDE DEF f, D
  <2> QED
    BY <1>1, <1>3, SumsAre
<1>5. /\ SumFunctionOnSet(f, D) =
           SumFunctionOnSet(f, Below(D, b)) + Own(f, D, b) + SumFunctionOnSet(f, Above(D, b))
      /\ \A c \in Nat : b < c =>
           SumFunctionOnSet(f, Below(D, c)) =
             SumFunctionOnSet(f, Below(D, b)) + Own(f, D, b) + SumFunctionOnSet(f, Between(D, b, c))
  <2> HIDE DEF f, D
  <2> QED
    BY <1>1, SumAround
<1> QED
  BY <1>2, <1>4, <1>5, Zenon DEF SumsBelow, SumsAbove, SumsBetween

\* What is in the new map.
IsPut(m2, map, b, n, ranges) ==
  /\ DOMAIN m2 = DOMAIN map \cup {b}
  /\ MapTyped(m2)
  /\ m2[b].count = n /\ m2[b].ranges = ranges
  /\ \A c \in DOMAIN map \ {b} : m2[c].count = map[c].count /\ m2[c].ranges = map[c].ranges
  /\ \A c \in DOMAIN map \cup {b} : c < b => m2[c].offset = map[c].offset
  /\ m2[b].offset = SumsBelow(map, b)
  /\ \A c \in DOMAIN map : b < c => m2[c].offset = SumsBelow(map, b) + n + SumsBetween(map, b, c)

IsSwapped(m0, map, b, n, ranges) ==
  /\ DOMAIN m0 = DOMAIN map \cup {b} /\ MapTyped(m0)
  /\ m0[b] = [offset |-> SumsBelow(map, b), count |-> n, ranges |-> ranges]
  /\ \A c \in DOMAIN map \ {b} : m0[c] = map[c]
  /\ \A S \in SUBSET (DOMAIN map \ {b}) :
       SumFunctionOnSet(CountsOf(m0), S) = SumFunctionOnSet(CountsOf(map), S)

LEMMA SwappedIs ==
  ASSUME NEW map, MapTyped(map), MapInPlace(map), NEW b \in Nat, NEW n \in Nat, NEW ranges \in RangeSets,
         NEW m0, m0 = Swapped(map, b, n, ranges)
  PROVE  IsSwapped(m0, map, b, n, ranges)
<1>1. SumsBelow(map, b) \in Nat /\ OffsetFor(map, b) = SumsBelow(map, b)
  BY SumsOfMap, OffsetForIs DEF SumsBelow
<1>2. /\ DOMAIN m0 = DOMAIN map \cup {b}
      /\ m0[b] = [offset |-> SumsBelow(map, b), count |-> n, ranges |-> ranges]
      /\ \A c \in DOMAIN map \ {b} : m0[c] = map[c]
  BY <1>1 DEF Swapped
<1>3. MapTyped(m0)
  <2>1. IsFiniteSet(DOMAIN map \cup {b}) /\ DOMAIN map \cup {b} \in SUBSET Nat
    BY FS_AddElement DEF MapTyped
  <2>2. m0[b] \in BindingData
    BY <1>1, <1>2 DEF BindingData
  <2>3. \A c \in DOMAIN map \ {b} : m0[c] \in BindingData
    BY <1>2, Zenon DEF MapTyped
  <2> QED
    BY <1>2, <2>1, <2>2, <2>3, Zenon DEF MapTyped
<1>4. ASSUME NEW S \in SUBSET (DOMAIN map \ {b})
      PROVE  SumFunctionOnSet(CountsOf(m0), S) = SumFunctionOnSet(CountsOf(map), S)
  <2>1. IsFiniteSet(S)
    BY FS_Subset DEF MapTyped
  <2>2. \A c \in S : c \in DOMAIN map /\ c \in DOMAIN m0 /\ m0[c] = map[c]
    BY <1>2
  <2>3. \A c \in DOMAIN map : CountsOf(map)[c] = map[c].count /\ CountsOf(map)[c] \in Nat
    BY MapCounts DEF Counts
  <2>4. \A c \in DOMAIN m0 : CountsOf(m0)[c] = m0[c].count
    BY <1>3, MapCounts
  <2>5. \A c \in S : CountsOf(map)[c] \in Nat /\ CountsOf(m0)[c] = CountsOf(map)[c]
    BY <2>2, <2>3, <2>4, Zenon
  <2> QED
    BY <2>1, <2>5, SumOfSame
<1> QED
  BY <1>2, <1>3, <1>4, Zenon DEF IsSwapped

LEMMA PutIs ==
  ASSUME NEW map, MapTyped(map), MapInPlace(map), NEW b \in Nat, NEW n \in Nat, NEW ranges \in RangeSets
  PROVE  IsPut(Put(map, b, n, ranges), map, b, n, ranges)
<1> DEFINE m0 == Swapped(map, b, n, ranges)
           m2 == Put(map, b, n, ranges)
           D == DOMAIN map
           D2 == DOMAIN map \cup {b}
<1>1. /\ DOMAIN m0 = D2 /\ MapTyped(m0)
      /\ m0[b] = [offset |-> SumsBelow(map, b), count |-> n, ranges |-> ranges]
      /\ \A c \in D \ {b} : m0[c] = map[c]
      /\ \A S \in SUBSET (D \ {b}) : SumFunctionOnSet(CountsOf(m0), S) = SumFunctionOnSet(CountsOf(map), S)
  <2>1. IsSwapped(m0, map, b, n, ranges)
    <3>1. m0 = Swapped(map, b, n, ranges)
      OBVIOUS
    <3> HIDE DEF m0
    <3> QED
      BY <3>1, SwappedIs
  <2> HIDE DEF m0
  <2> QED
    BY <2>1, Zenon DEF IsSwapped
<1>2. D2 \in SUBSET Nat /\ b \in D2 /\ D \in SUBSET Nat
  BY DEF MapTyped
<1>3. m2 = [c \in D2 |-> IF c <= b THEN m0[c]
                         ELSE [m0[c] EXCEPT !.offset =
                                 m0[b].offset + CountOf(m0, {d \in D2 : b <= d /\ d < c})]]
  <2>1. m2 = Reoffset(m0, b)
    BY DEF Put
  <2> HIDE DEF m0, m2
  <2> QED
    BY <1>1, <2>1, Zenon DEF Reoffset
<1> HIDE DEF m0, m2
<1>4. SumsBelow(map, b) \in Nat /\ \A c \in Nat : b < c => SumsBetween(map, b, c) \in Nat
  BY SumsOfMap
<1>5. ASSUME NEW c \in D, b < c
      PROVE  CountOf(m0, {d \in D2 : b <= d /\ d < c}) = n + SumsBetween(map, b, c)
  <2> DEFINE f == CountsOf(m0)
             B == Between(D, b, c)
  <2>1. {d \in D2 : b <= d /\ d < c} = {} \cup (D2 \cap {b}) \cup B
    <3>1. b <= b /\ ~(b < b) /\ \A d \in D2 : (b <= d <=> (b < d \/ d = b))
      BY <1>2
    <3> QED
      BY <1>2, <1>5, <3>1 DEF Between
  <2>2. Counts(f, D2) /\ f[b] = n
    <3>1. Counts(f, D2) /\ f[b] = m0[b].count
      BY <1>1, <1>2, MapCounts, Zenon
    <3> QED
      BY <1>1, <3>1
  <2>3. B \in SUBSET (D \ {b}) /\ B \in SUBSET D2 /\ b \notin B /\ {} \in SUBSET D2 /\ {} \cap B = {} /\ b \notin {}
    <3>1. ~(b < b)
      OBVIOUS
    <3> QED
      BY <3>1 DEF Between
  <2>4. SumFunctionOnSet(f, {} \cup (D2 \cap {b}) \cup B) =
          SumFunctionOnSet(f, {}) + Own(f, D2, b) + SumFunctionOnSet(f, B)
    <3> DEFINE A == {}
    <3>1. A \in SUBSET D2 /\ B \in SUBSET D2 /\ A \cap B = {} /\ b \notin A /\ b \notin B
      BY <2>3
    <3> HIDE DEF f, B, D2, A
    <3>2. SumFunctionOnSet(f, A \cup (D2 \cap {b}) \cup B) =
            SumFunctionOnSet(f, A) + Own(f, D2, b) + SumFunctionOnSet(f, B)
      BY <2>2, <3>1, SumOfThree
    <3> QED
      BY <3>2, Zenon DEF A
  <2>5. SumFunctionOnSet(f, {}) = 0
    BY SumOfNothing
  <2>6. Own(f, D2, b) = n
    BY <1>2, <2>2, Zenon DEF Own
  <2>7. SumFunctionOnSet(f, B) = SumsBetween(map, b, c)
    BY <1>1, <2>3, Zenon DEF SumsBetween
  <2>8. CountOf(m0, {d \in D2 : b <= d /\ d < c}) = SumFunctionOnSet(f, {} \cup (D2 \cap {b}) \cup B)
    <3>1. CountOf(m0, {d \in D2 : b <= d /\ d < c}) = SumFunctionOnSet(f, {d \in D2 : b <= d /\ d < c})
      BY Zenon DEF CountOf, CountsOf
    <3> QED
      BY <2>1, <3>1, Zenon
  <2>9. 0 + n + SumsBetween(map, b, c) = n + SumsBetween(map, b, c)
    <3>1. SumsBetween(map, b, c) \in Nat
      BY <1>2, <1>4, <1>5
    <3> QED
      BY <3>1
  <2> QED
    BY <2>4, <2>5, <2>6, <2>7, <2>8, <2>9, Zenon
<1>6. DOMAIN m2 = D2 /\ \A c \in D2 : c <= b => m2[c] = m0[c]
  BY <1>3
<1>7. m2[b] = [offset |-> SumsBelow(map, b), count |-> n, ranges |-> ranges]
  <2>1. b <= b
    OBVIOUS
  <2> QED
    BY <1>1, <1>2, <1>6, <2>1, Zenon
<1>8. ASSUME NEW c \in D, b < c
      PROVE  m2[c] = [offset |-> SumsBelow(map, b) + n + SumsBetween(map, b, c),
                      count |-> map[c].count, ranges |-> map[c].ranges]
  <2>1. c \in D2 /\ ~(c <= b) /\ c # b /\ c \in Nat
    BY <1>2, <1>8
  <2>2. m0[c] = map[c] /\ map[c] \in BindingData
    BY <1>1, <2>1 DEF MapTyped
  <2>3. map[c] = [offset |-> map[c].offset, count |-> map[c].count, ranges |-> map[c].ranges]
    BY <2>2 DEF BindingData
  <2>4. m0[b].offset = SumsBelow(map, b)
    BY <1>1
  <2> DEFINE off == m0[b].offset + CountOf(m0, {d \in D2 : b <= d /\ d < c})
  <2>5. m2[c] = [m0[c] EXCEPT !.offset = off]
    BY <1>3, <2>1, Zenon
  <2>6. off = SumsBelow(map, b) + (n + SumsBetween(map, b, c))
    BY <1>5, <1>8, <2>4, Zenon
  <2>7. SumsBelow(map, b) + (n + SumsBetween(map, b, c)) = SumsBelow(map, b) + n + SumsBetween(map, b, c)
    BY <1>4, <1>8, <2>1
  <2> HIDE DEF off
  <2>8. [map[c] EXCEPT !.offset = off] = [offset |-> off, count |-> map[c].count, ranges |-> map[c].ranges]
    BY <2>2 DEF BindingData
  <2> QED
    BY <2>2, <2>5, <2>6, <2>7, <2>8, Zenon
<1>9. ASSUME NEW c \in D, c < b PROVE m2[c] = map[c]
  <2>1. c \in D2 /\ c <= b /\ c # b
    BY <1>2, <1>9
  <2> QED
    BY <1>1, <1>6, <2>1, Zenon
<1>10. \A c \in D : c < b \/ c = b \/ b < c
  BY <1>2
<1>15. ASSUME NEW c \in D, b < c
       PROVE  /\ m2[c].offset = SumsBelow(map, b) + n + SumsBetween(map, b, c)
              /\ m2[c].count = map[c].count /\ m2[c].ranges = map[c].ranges
  <2> DEFINE off == SumsBelow(map, b) + n + SumsBetween(map, b, c)
  <2>1. m2[c] = [offset |-> off, count |-> map[c].count, ranges |-> map[c].ranges]
    BY <1>8, <1>15
  <2> HIDE DEF off
  <2>2. m2[c].offset = off /\ m2[c].count = map[c].count /\ m2[c].ranges = map[c].ranges
    BY <2>1
  <2> QED
    BY <2>2 DEF off
<1>11. \A c \in D \ {b} : m2[c].count = map[c].count /\ m2[c].ranges = map[c].ranges
  BY <1>9, <1>10, <1>15, Zenon
<1>12. MapTyped(m2)
  <2>1. m2[b] \in BindingData
    BY <1>4, <1>7 DEF BindingData
  <2>2. ASSUME NEW c \in D, b < c PROVE m2[c] \in BindingData
    <3>1. SumsBelow(map, b) + n + SumsBetween(map, b, c) \in Nat
      BY <1>2, <1>4, <2>2
    <3>2. map[c] \in BindingData
      BY DEF MapTyped
    <3> DEFINE off == SumsBelow(map, b) + n + SumsBetween(map, b, c)
    <3>3. m2[c] = [offset |-> off, count |-> map[c].count, ranges |-> map[c].ranges] /\ off \in Nat
      BY <1>8, <2>2, <3>1
    <3> HIDE DEF off
    <3> QED
      BY <3>2, <3>3 DEF BindingData
  <2>3. ASSUME NEW c \in D, c < b PROVE m2[c] \in BindingData
    BY <1>9, <2>3 DEF MapTyped
  <2>4. \A c \in D2 : m2[c] \in BindingData
    BY <1>10, <2>1, <2>2, <2>3, Zenon
  <2> QED
    BY <1>1, <1>6, <2>4, Zenon DEF MapTyped
<1>13. \A c \in D2 : c < b => m2[c].offset = map[c].offset
  <2>1. ~(b < b)
    OBVIOUS
  <2> QED
    BY <1>9, <2>1
<1>14. /\ m2[b].count = n /\ m2[b].ranges = ranges /\ m2[b].offset = SumsBelow(map, b)
       /\ \A c \in D : b < c => m2[c].offset = SumsBelow(map, b) + n + SumsBetween(map, b, c)
  <2>1. m2[b].count = n /\ m2[b].ranges = ranges /\ m2[b].offset = SumsBelow(map, b)
    BY <1>7
  <2> QED
    BY <1>15, <2>1, Zenon
<1> QED
  BY <1>6, <1>11, <1>12, <1>13, <1>14, Zenon DEF IsPut, m2

LEMMA PutSums ==
  ASSUME NEW map, MapTyped(map), NEW b \in Nat, NEW n \in Nat, NEW ranges \in RangeSets,
         NEW m2, IsPut(m2, map, b, n, ranges)
  PROVE  /\ CountFor(m2, b) = n
         /\ SumsAbove(m2, b) = SumsAbove(map, b)
         /\ \A c \in Nat : c <= b => SumsBelow(m2, c) = SumsBelow(map, c)
         /\ \A c \in Nat : SumsBetween(m2, b, c) = SumsBetween(map, b, c)
<1> DEFINE D == DOMAIN map
           D2 == DOMAIN m2
<1>1. D2 = D \cup {b} /\ D \in SUBSET Nat /\ D2 \in SUBSET Nat
  BY DEF IsPut, MapTyped
<1>2. ASSUME NEW S \in SUBSET (D \ {b})
      PROVE  SumFunctionOnSet(CountsOf(m2), S) = SumFunctionOnSet(CountsOf(map), S)
  <2>1. IsFiniteSet(S)
    BY FS_Subset DEF MapTyped
  <2>2. \A c \in D : CountsOf(map)[c] = map[c].count /\ CountsOf(map)[c] \in Nat
    BY MapCounts DEF Counts
  <2>3. \A c \in D2 : CountsOf(m2)[c] = m2[c].count
    BY MapCounts DEF IsPut
  <2>4. \A c \in S : c \in D /\ c \in D2 /\ m2[c].count = map[c].count
    BY <1>1 DEF IsPut
  <2>5. \A c \in S : CountsOf(map)[c] \in Nat /\ CountsOf(m2)[c] = CountsOf(map)[c]
    BY <2>2, <2>3, <2>4, Zenon
  <2> QED
    BY <2>1, <2>5, SumOfSame
<1>3. CountFor(m2, b) = n
  BY DEF CountFor, IsPut
<1>4. ~(b < b)
  OBVIOUS
<1>5. SumsAbove(m2, b) = SumsAbove(map, b)
  <2>1. Above(D2, b) = Above(D, b) /\ Above(D, b) \in SUBSET (D \ {b})
    BY <1>1, <1>4, Zenon DEF Above
  <2> QED
    BY <1>2, <2>1, Zenon DEF SumsAbove
<1>6. ASSUME NEW c \in Nat, c <= b PROVE SumsBelow(m2, c) = SumsBelow(map, c)
  <2>1. ~(b < c)
    BY <1>6
  <2>2. Below(D2, c) = Below(D, c) /\ Below(D, c) \in SUBSET (D \ {b})
    BY <1>1, <2>1, Zenon DEF Below
  <2> QED
    BY <1>2, <2>2, Zenon DEF SumsBelow
<1>7. ASSUME NEW c \in Nat PROVE SumsBetween(m2, b, c) = SumsBetween(map, b, c)
  <2>1. Between(D2, b, c) = Between(D, b, c) /\ Between(D, b, c) \in SUBSET (D \ {b})
    BY <1>1, <1>4, Zenon DEF Between
  <2> QED
    BY <1>2, <2>1, Zenon DEF SumsBetween
<1> QED
  BY <1>3, <1>5, <1>6, <1>7

LEMMA PutInPlace ==
  ASSUME NEW map, MapTyped(map), MapInPlace(map), NEW b \in Nat, NEW n \in Nat, NEW ranges \in RangeSets,
         InGaps(ranges), n = Cardinality(ElementsOf(ranges)),
         NEW m2, IsPut(m2, map, b, n, ranges)
  PROVE  /\ MapTyped(m2) /\ MapInPlace(m2)
         /\ SumFunctionOnSet(CountsOf(m2), DOMAIN m2) = SumsBelow(map, b) + n + SumsAbove(map, b)
<1>1. /\ CountFor(m2, b) = n
      /\ SumsAbove(m2, b) = SumsAbove(map, b)
      /\ \A c \in Nat : c <= b => SumsBelow(m2, c) = SumsBelow(map, c)
      /\ \A c \in Nat : SumsBetween(m2, b, c) = SumsBetween(map, b, c)
  BY PutSums
<1>2. MapTyped(m2)
  BY DEF IsPut
<1>3. /\ SumFunctionOnSet(CountsOf(m2), DOMAIN m2) = SumsBelow(m2, b) + CountFor(m2, b) + SumsAbove(m2, b)
      /\ \A c \in Nat : b < c => SumsBelow(m2, c) = SumsBelow(m2, b) + CountFor(m2, b) + SumsBetween(m2, b, c)
  BY <1>2, SumsOfMap
<1>4. b <= b
  OBVIOUS
<1>5. DOMAIN m2 = DOMAIN map \cup {b} /\ DOMAIN map \in SUBSET Nat
  BY DEF IsPut, MapTyped
<1>6. ASSUME NEW c \in DOMAIN m2
      PROVE  /\ m2[c].offset = SumsBelow(m2, c)
             /\ m2[c].count = Cardinality(ElementsOf(m2[c].ranges))
             /\ InGaps(m2[c].ranges)
  <2>1. c \in Nat /\ (c < b \/ c = b \/ b < c)
    BY <1>5
  <2>2. CASE c = b
    BY <1>1, <1>4, <2>2 DEF IsPut
  <2>3. ASSUME c # b PROVE m2[c].count = Cardinality(ElementsOf(m2[c].ranges)) /\ InGaps(m2[c].ranges)
    <3>1. c \in DOMAIN map \ {b}
      BY <1>5, <2>3
    <3>2. m2[c].count = map[c].count /\ m2[c].ranges = map[c].ranges
      BY <3>1, Zenon DEF IsPut
    <3> QED
      BY <3>1, <3>2, Zenon DEF MapInPlace
  <2>4. CASE c < b
    <3>1. c # b /\ c <= b
      BY <2>1, <2>4
    <3>2. c \in DOMAIN map
      BY <1>5, <3>1
    <3>3. m2[c].offset = map[c].offset
      BY <1>5, <2>4, Zenon DEF IsPut
    <3>4. map[c].offset = SumsBelow(map, c)
      BY <3>2, Zenon DEF MapInPlace, SumsBelow
    <3>5. SumsBelow(m2, c) = SumsBelow(map, c)
      BY <1>1, <2>1, <3>1
    <3> QED
      BY <2>3, <3>1, <3>3, <3>4, <3>5
  <2>5. CASE b < c
    <3>1. c # b
      BY <2>1, <2>5
    <3>2. c \in DOMAIN map
      BY <1>5, <3>1
    <3>3. m2[c].offset = SumsBelow(map, b) + n + SumsBetween(map, b, c)
      BY <2>5, <3>2, Zenon DEF IsPut
    <3>4. SumsBelow(m2, c) = SumsBelow(map, b) + n + SumsBetween(map, b, c)
      BY <1>1, <1>3, <1>4, <2>1, <2>5
    <3> QED
      BY <2>3, <3>1, <3>3, <3>4
  <2> QED
    BY <2>1, <2>2, <2>4, <2>5
<1>7. MapInPlace(m2)
  BY <1>6, Zenon DEF MapInPlace, SumsBelow
<1>8. SumsBelow(m2, b) = SumsBelow(map, b)
  BY <1>1, <1>4
<1> QED
  BY <1>1, <1>2, <1>3, <1>7, <1>8, Zenon

\* Where the data of other bindings and of this one is afterwards.
DataMoved(m2, d2, map, data, b, values) ==
  /\ d2 \in Seq(Datum)
  /\ Len(d2) = SumsBelow(map, b) + Len(values) + SumsAbove(map, b)
  /\ \A i \in 1 .. Len(values) : d2[m2[b].offset + i] = values[i]
  /\ \A c \in DOMAIN map \ {b} : \A i \in 1 .. map[c].count :
       d2[m2[c].offset + i] = data[map[c].offset + i]

LEMMA PutMoves ==
  ASSUME NEW map, MapTyped(map), MapInPlace(map), NEW data, DataTyped(map, data),
         NEW b \in Nat, NEW values \in Seq(Datum), NEW ranges \in RangeSets,
         NEW m2, IsPut(m2, map, b, Len(values), ranges)
  PROVE  DataMoved(m2, PutData(map, data, b, values), map, data, b, values)
<1> DEFINE a == SumsBelow(map, b)
           k == CountFor(map, b)
           up == SumsAbove(map, b)
           n == Len(values)
           z == a + k
           d2 == PutData(map, data, b, values)
<1>1. /\ a \in Nat /\ up \in Nat /\ k \in Nat /\ n \in Nat
      /\ SumFunctionOnSet(CountsOf(map), DOMAIN map) = a + k + up
  BY SumsOfMap
<1>2. data \in Seq(Datum) /\ Len(data) = a + k + up
  BY <1>1 DEF DataTyped
<1>3. d2 = Patched(data, a, values, z)
  BY OffsetForIs DEF PutData, SumsBelow
<1>4. IsPatched(d2, Datum, data, a, values, z)
  <2>1. a <= z /\ z <= Len(data) /\ z \in Nat /\ a \in Nat
    BY <1>1, <1>2
  <2> HIDE DEF a, z, d2
  <2> QED
    BY <1>2, <1>3, <2>1, PatchedIs
<1>5. /\ d2 \in Seq(Datum)
      /\ Len(d2) = a + n + (Len(data) - z)
      /\ \A i \in 1 .. a : d2[i] = data[i]
      /\ \A i \in 1 .. n : d2[a + i] = values[i]
      /\ \A i \in z + 1 .. Len(data) : d2[a + n + (i - z)] = data[i]
  BY <1>4, Zenon DEF IsPatched
<1>6. m2[b].offset = a
  BY DEF IsPut
<1>7. ASSUME NEW c \in DOMAIN map \ {b}, NEW i \in 1 .. map[c].count
      PROVE  d2[m2[c].offset + i] = data[map[c].offset + i]
  <2>1. c \in Nat /\ map[c].offset = SumsBelow(map, c) /\ CountFor(map, c) = map[c].count
    BY DEF MapTyped, MapInPlace, SumsBelow, CountFor
  <2>2. /\ SumsBelow(map, c) \in Nat /\ SumsAbove(map, c) \in Nat /\ map[c].count \in Nat
        /\ SumFunctionOnSet(CountsOf(map), DOMAIN map) = SumsBelow(map, c) + map[c].count + SumsAbove(map, c)
        /\ \A d \in Nat : c < d =>
             /\ SumsBetween(map, c, d) \in Nat
             /\ SumsBelow(map, d) = SumsBelow(map, c) + map[c].count + SumsBetween(map, c, d)
    <3>1. /\ SumsBelow(map, c) \in Nat /\ SumsAbove(map, c) \in Nat /\ CountFor(map, c) \in Nat
          /\ SumFunctionOnSet(CountsOf(map), DOMAIN map) =
               SumsBelow(map, c) + CountFor(map, c) + SumsAbove(map, c)
          /\ \A d \in Nat : c < d =>
               /\ SumsBetween(map, c, d) \in Nat
               /\ SumsBelow(map, d) = SumsBelow(map, c) + CountFor(map, c) + SumsBetween(map, c, d)
      BY <2>1, SumsOfMap
    <3> QED
      BY <2>1, <3>1, Zenon
  <2>3. CASE c < b
    <3>1. /\ SumsBetween(map, c, b) \in Nat
          /\ a = SumsBelow(map, c) + map[c].count + SumsBetween(map, c, b)
      BY <2>2, <2>3
    <3>2. m2[c].offset = map[c].offset
      BY <2>3 DEF IsPut
    <3> HIDE DEF a, d2
    <3>3. map[c].offset + i \in 1 .. a
      <4> DEFINE off == map[c].offset
                 count == map[c].count
                 mid == SumsBetween(map, c, b)
      <4>1. off \in Nat /\ count \in Nat /\ mid \in Nat /\ a = off + count + mid /\ i \in 1 .. count
        BY <2>1, <2>2, <3>1
      <4> HIDE DEF off, count, mid, k, up, n, z
      <4>2. off + i \in 1 .. a
        BY <4>1
      <4> QED
        BY <4>2 DEF off
    <3> QED
      BY <1>5, <3>2, <3>3
  <2>4. CASE b < c
    <3> DEFINE mid == SumsBetween(map, b, c)
    <3>1. mid \in Nat /\ SumsBelow(map, c) = a + k + mid
      BY <2>1, <2>4, SumsOfMap
    <3>2. m2[c].offset = a + n + mid
      BY <2>4 DEF IsPut
    <3> HIDE DEF mid, a, k, up, n, d2
    <3>3. map[c].offset + i \in z + 1 .. Len(data)
      <4> DEFINE off == map[c].offset
                 count == map[c].count
                 above == SumsAbove(map, c)
      <4>1. /\ off \in Nat /\ count \in Nat /\ above \in Nat /\ mid \in Nat /\ a \in Nat /\ k \in Nat
            /\ off = a + k + mid /\ Len(data) = off + count + above /\ i \in 1 .. count
        BY <1>1, <1>2, <2>1, <2>2, <3>1
      <4> HIDE DEF off, count, above
      <4>2. off + i \in z + 1 .. Len(data)
        BY <4>1
      <4> QED
        BY <4>2 DEF off
    <3>4. a + n + ((map[c].offset + i) - z) = m2[c].offset + i
      BY <1>1, <2>1, <3>1, <3>2
    <3> HIDE DEF z
    <3> QED
      BY <1>5, <3>3, <3>4
  <2> QED
    BY <2>1, <2>3, <2>4
<1>8. Len(d2) = a + n + up
  <2> HIDE DEF a, k, up, n, d2
  <2> QED
    BY <1>1, <1>2, <1>5
<1> HIDE DEF d2
<1>9. \A i \in 1 .. n : d2[m2[b].offset + i] = values[i]
  BY <1>5, <1>6
<1> QED
  BY <1>5, <1>7, <1>8, <1>9, Zenon DEF DataMoved, d2

LEMMA RanksAre ==
  ASSUME NEW E \in SUBSET Nat, IsFiniteSet(E)
  PROVE  /\ Cardinality(E) \in Nat
         /\ \A e \in Nat : Rank(E, e) \in Nat /\ Rank(E, e) <= Cardinality(E)
         /\ \A d \in E : \A e \in Nat : d < e => Rank(E, d) + 1 <= Rank(E, e)
         /\ \A e \in E : Rank(E, e) + 1 <= Cardinality(E)
<1> DEFINE L(e) == {d \in E : d < e}
<1>1. \A e \in Nat : L(e) \in SUBSET E /\ IsFiniteSet(L(e))
  BY FS_Subset
<1>2. \A e \in Nat : Cardinality(L(e)) \in Nat /\ Cardinality(L(e)) <= Cardinality(E)
  <2> HIDE DEF L
  <2> QED
    BY <1>1, FS_Subset, FS_CardinalityType
<1>3. Cardinality(E) \in Nat
  BY FS_CardinalityType
<1>4. ASSUME NEW S \in SUBSET E, NEW d \in E, d \notin S, NEW T \in SUBSET E, S \cup {d} \subseteq T
      PROVE  Cardinality(S) + 1 <= Cardinality(T) /\ Cardinality(S) \in Nat
  <2>1. IsFiniteSet(S) /\ IsFiniteSet(T)
    BY FS_Subset
  <2>2. IsFiniteSet(S \cup {d}) /\ Cardinality(S \cup {d}) = Cardinality(S) + 1
    BY <1>4, <2>1, FS_AddElement, Zenon
  <2>3. Cardinality(S \cup {d}) <= Cardinality(T)
    BY <1>4, <2>1, FS_Subset
  <2>4. Cardinality(S) \in Nat
    BY <2>1, FS_CardinalityType
  <2> QED
    BY <2>2, <2>3, <2>4
<1>5. ASSUME NEW d \in E, NEW e \in Nat, d < e PROVE Cardinality(L(d)) + 1 <= Cardinality(L(e))
  <2>0. ~(d < d) /\ \A a \in E : a < d => a < e
    BY <1>5
  <2>1. d \in Nat /\ d \notin L(d) /\ L(d) \cup {d} \subseteq L(e)
    BY <1>5, <2>0
  <2> HIDE DEF L
  <2> QED
    BY <1>1, <1>4, <2>1
<1>6. ASSUME NEW e \in E PROVE Cardinality(L(e)) + 1 <= Cardinality(E)
  <2>1. e \in Nat /\ e \notin L(e) /\ L(e) \cup {e} \subseteq E /\ E \in SUBSET E
    BY <1>6
  <2> HIDE DEF L
  <2> QED
    BY <1>1, <1>4, <2>1
<1>7. \A e : Rank(E, e) = Cardinality(L(e))
  BY DEF Rank
<1> HIDE DEF L
<1> QED
  BY <1>2, <1>3, <1>5, <1>6, <1>7

LEMMA RanksDiffer ==
  ASSUME NEW E \in SUBSET Nat, IsFiniteSet(E), NEW d \in E, NEW e \in E, d # e
  PROVE  Rank(E, d) # Rank(E, e)
<1>1. d \in Nat /\ e \in Nat /\ (d < e \/ e < d) /\ Rank(E, d) \in Nat /\ Rank(E, e) \in Nat
  BY RanksAre
<1>2. (d < e => Rank(E, d) + 1 <= Rank(E, e)) /\ (e < d => Rank(E, e) + 1 <= Rank(E, d))
  BY <1>1, RanksAre
<1> QED
  BY <1>1, <1>2

LEMMA RankOfCount ==
  ASSUME NEW n \in Nat
  PROVE  /\ IsFiniteSet(0 .. n - 1) /\ Cardinality(0 .. n - 1) = n
         /\ \A e \in 0 .. n - 1 : Rank(0 .. n - 1, e) = e
<1>1. IsFiniteSet(0 .. n - 1) /\ Cardinality(0 .. n - 1) = n - 0
  BY CountBetween
<1>2. ASSUME NEW e \in 0 .. n - 1 PROVE Rank(0 .. n - 1, e) = e
  <2>1. {d \in 0 .. n - 1 : d < e} = 0 .. e - 1
    OBVIOUS
  <2>2. Cardinality(0 .. e - 1) = e - 0
    BY CountBetween
  <2>3. Rank(0 .. n - 1, e) = Cardinality(0 .. e - 1)
    BY <2>1, Zenon DEF Rank
  <2> QED
    BY <2>2, <2>3
<1> QED
  BY <1>1, <1>2

LEMMA RankOfLast ==
  ASSUME NEW E \in SUBSET Nat, NEW x \in Nat, \A e \in E : e < x
  PROVE  /\ \A e \in E : Rank(E \cup {x}, e) = Rank(E, e)
         /\ Rank(E \cup {x}, x) = Cardinality(E)
<1>1. ~(x < x) /\ \A e \in E : ~(x < e)
  OBVIOUS
<1>2. {d \in E \cup {x} : d < x} = E
  BY <1>1
<1>3. ASSUME NEW e \in E PROVE {d \in E \cup {x} : d < e} = {d \in E : d < e}
  BY <1>1
<1> QED
  BY <1>2, <1>3, Zenon DEF Rank

------------------------------------------------------------------------------
Asked(map) == UNION {{b} \X ElementsOf(map[b].ranges) : b \in DOMAIN map}

\* Each element's data is what was wanted for it.
Aligned(map, data, want) ==
  \A b \in DOMAIN map : \A e \in ElementsOf(map[b].ranges) :
    data[map[b].offset + Rank(ElementsOf(map[b].ranges), e) + 1] = want[<<b, e>>]

DataFits(map, data, want) ==
  /\ MapTyped(map) /\ MapInPlace(map) /\ DataTyped(map, data)
  /\ want = [x \in Asked(map) |-> want[x]]

Wants(want, w2, b, indices, value) ==
  w2 = [x \in {y \in DOMAIN want : y[1] # b \/ Kind[b] = "element"} \cup ({b} \X indices) |->
          IF x \in {b} \X indices THEN value[x[2]] ELSE want[x]]

LEMMA AskedIs ==
  ASSUME NEW map, NEW b, NEW e
  PROVE  <<b, e>> \in Asked(map) <=> b \in DOMAIN map /\ e \in ElementsOf(map[b].ranges)
BY DEF Asked

LEMMA AskedPairs ==
  ASSUME NEW map, NEW x \in Asked(map)
  PROVE  x = <<x[1], x[2]>> /\ x[1] \in DOMAIN map /\ x[2] \in ElementsOf(map[x[1]].ranges)
BY DEF Asked

\* The ranges hold what is set, and what was there if it stays.
HoldsBoth(map, b, ranges, indices) ==
  ElementsOf(ranges) = indices \cup (IF b \in DOMAIN map /\ Kind[b] = "element"
                                       THEN ElementsOf(map[b].ranges) ELSE {})

\* The values are what is set, and otherwise what was wanted.
Tells(values, ranges, indices, value, want, b) ==
  \A e \in ElementsOf(ranges) :
    values[Rank(ElementsOf(ranges), e) + 1] = IF e \in indices THEN value[e] ELSE want[<<b, e>>]

\* One of the ways to set data, whichever it is.
LEMMA SetKeepsFit ==
  ASSUME NEW map, NEW data, NEW want, DataFits(map, data, want),
         NEW b \in Nat, NEW values \in Seq(Datum), NEW ranges \in RangeSets, InGaps(ranges),
         Len(values) = Cardinality(ElementsOf(ranges)),
         NEW indices, NEW value, NEW m2, NEW d2, NEW w2,
         m2 = Put(map, b, Len(values), ranges), d2 = PutData(map, data, b, values),
         Wants(want, w2, b, indices, value),
         HoldsBoth(map, b, ranges, indices)
  PROVE  /\ DataFits(m2, d2, w2)
         /\ Aligned(map, data, want) /\ Tells(values, ranges, indices, value, want, b) => Aligned(m2, d2, w2)
<1> DEFINE n == Len(values)
<1>0. n \in Nat /\ MapTyped(map) /\ MapInPlace(map) /\ DataTyped(map, data)
  BY DEF DataFits
<1>1. IsPut(m2, map, b, n, ranges)
  BY <1>0, PutIs
<1>2. /\ MapTyped(m2) /\ MapInPlace(m2)
      /\ SumFunctionOnSet(CountsOf(m2), DOMAIN m2) = SumsBelow(map, b) + n + SumsAbove(map, b)
  BY <1>0, <1>1, PutInPlace
<1>3. DataMoved(m2, d2, map, data, b, values)
  BY <1>0, <1>1, PutMoves
<1>4. DataTyped(m2, d2)
  BY <1>2, <1>3, Zenon DEF DataTyped, DataMoved
<1>5. /\ DOMAIN m2 = DOMAIN map \cup {b} /\ m2[b].ranges = ranges
      /\ \A c \in DOMAIN map \ {b} : m2[c].ranges = map[c].ranges
  BY <1>1, Zenon DEF IsPut
<1>6. DOMAIN want = Asked(map)
  BY DEF DataFits
<1> DEFINE kept == {y \in DOMAIN want : y[1] # b \/ Kind[b] = "element"}
           new == {b} \X indices
<1>7. w2 = [x \in kept \cup new |-> IF x \in new THEN value[x[2]] ELSE want[x]]
  BY DEF Wants
<1>8. kept \cup new = Asked(m2)
  <2>1. ASSUME NEW x \in kept PROVE x \in Asked(m2)
    <3>1. x = <<x[1], x[2]>> /\ x[1] \in DOMAIN map /\ x[2] \in ElementsOf(map[x[1]].ranges)
      BY <1>6, AskedPairs
    <3>2. CASE x[1] # b
      <4>1. x[1] \in DOMAIN m2 /\ m2[x[1]].ranges = map[x[1]].ranges
        BY <1>5, <3>1, <3>2
      <4>2. <<x[1], x[2]>> \in Asked(m2)
        BY <3>1, <4>1, AskedIs
      <4> QED
        BY <3>1, <4>2
    <3>3. CASE x[1] = b
      <4>1. Kind[b] = "element"
        BY <2>1, <3>3
      <4>2. x[1] \in DOMAIN m2 /\ x[2] \in ElementsOf(m2[x[1]].ranges)
        BY <1>5, <3>1, <3>3, <4>1 DEF HoldsBoth
      <4>3. <<x[1], x[2]>> \in Asked(m2)
        BY <4>2, AskedIs
      <4> QED
        BY <3>1, <4>3
    <3> QED
      BY <3>2, <3>3
  <2>2. ASSUME NEW x \in new PROVE x \in Asked(m2)
    <3>1. x = <<b, x[2]>> /\ x[2] \in indices
      OBVIOUS
    <3>2. b \in DOMAIN m2 /\ x[2] \in ElementsOf(m2[b].ranges)
      BY <1>5, <3>1 DEF HoldsBoth
    <3> QED
      BY <3>1, <3>2, AskedIs, Zenon
  <2>3. ASSUME NEW x \in Asked(m2) PROVE x \in kept \cup new
    <3>1. x = <<x[1], x[2]>> /\ x[1] \in DOMAIN m2 /\ x[2] \in ElementsOf(m2[x[1]].ranges)
      BY AskedPairs
    <3>2. CASE x[1] # b
      <4>1. x[1] \in DOMAIN map /\ x[2] \in ElementsOf(map[x[1]].ranges)
        BY <1>5, <3>1, <3>2
      <4>2. x \in Asked(map)
        BY <3>1, <4>1, AskedIs, Zenon
      <4> QED
        BY <1>6, <3>2, <4>2
    <3>3. CASE x[1] = b
      <4>1. x[2] \in ElementsOf(ranges)
        BY <1>5, <3>1, <3>3
      <4>2. CASE x[2] \in indices
        BY <3>1, <3>3, <4>2
      <4>3. CASE x[2] \notin indices
        <5>1. b \in DOMAIN map /\ Kind[b] = "element" /\ x[2] \in ElementsOf(map[b].ranges)
          BY <4>1, <4>3 DEF HoldsBoth
        <5>2. x \in Asked(map)
          BY <3>1, <3>3, <5>1, AskedIs, Zenon
        <5> QED
          BY <1>6, <5>1, <5>2
      <4> QED
        BY <4>2, <4>3
    <3> QED
      BY <3>2, <3>3
  <2> HIDE DEF kept, new
  <2> QED
    BY <2>1, <2>2, <2>3
<1>9. DOMAIN w2 = Asked(m2) /\ \A x \in Asked(m2) : w2[x] = IF x \in new THEN value[x[2]] ELSE want[x]
  <2> HIDE DEF kept, new
  <2> QED
    BY <1>7, <1>8
<1>10. w2 = [x \in Asked(m2) |-> w2[x]]
  <2> HIDE DEF kept, new
  <2> QED
    BY <1>7, <1>8
<1>11. DataFits(m2, d2, w2)
  BY <1>2, <1>4, <1>10, Zenon DEF DataFits
<1>12. ASSUME Aligned(map, data, want), Tells(values, ranges, indices, value, want, b)
       PROVE  Aligned(m2, d2, w2)
  <2> SUFFICES ASSUME NEW c \in DOMAIN m2, NEW e \in ElementsOf(m2[c].ranges)
               PROVE  d2[m2[c].offset + Rank(ElementsOf(m2[c].ranges), e) + 1] = w2[<<c, e>>]
    BY Zenon DEF Aligned
  <2>1. <<c, e>> \in Asked(m2)
    BY AskedIs
  <2>2. /\ ElementsOf(m2[c].ranges) \in SUBSET Nat /\ IsFiniteSet(ElementsOf(m2[c].ranges))
        /\ m2[c].offset \in Nat
    BY <1>2, OffsetOfAll DEF MapTyped, MapInPlace, BindingData
  <2> DEFINE k == Rank(ElementsOf(m2[c].ranges), e)
             off == m2[c].offset
  <2>3. k \in Nat /\ k + 1 <= Cardinality(ElementsOf(m2[c].ranges)) /\ Cardinality(ElementsOf(m2[c].ranges)) \in Nat
    <3>1. e \in Nat
      BY <2>2
    <3> QED
      BY <2>2, <3>1, RanksAre
  <2>4. CASE c = b
    <3>1. k + 1 \in 1 .. Len(values) /\ k = Rank(ElementsOf(ranges), e)
      <4>1. m2[c].ranges = ranges
        BY <1>5, <2>4, Zenon
      <4>2. k = Rank(ElementsOf(ranges), e) /\ k + 1 <= Len(values) /\ Len(values) \in Nat
        BY <1>0, <2>3, <4>1, Zenon
      <4> HIDE DEF k
      <4> QED
        BY <2>3, <4>2
    <3>2. d2[off + (k + 1)] = values[k + 1]
      <4> HIDE DEF k
      <4> QED
        BY <1>3, <2>4, <3>1, Zenon DEF DataMoved
    <3>3. values[k + 1] = IF e \in indices THEN value[e] ELSE want[<<b, e>>]
      <4>1. e \in ElementsOf(ranges)
        BY <1>5, <2>4, Zenon
      <4> HIDE DEF k
      <4> QED
        BY <1>12, <3>1, <4>1, Zenon DEF Tells
    <3>4. w2[<<c, e>>] = IF e \in indices THEN value[e] ELSE want[<<b, e>>]
      <4>1. <<c, e>> \in new <=> e \in indices
        BY <2>4
      <4>2. <<c, e>>[2] = e
        OBVIOUS
      <4> HIDE DEF new
      <4> QED
        BY <1>9, <2>1, <2>4, <4>1, <4>2, Zenon
    <3>5. off + k + 1 = off + (k + 1)
      <4> HIDE DEF off, k
      <4> QED
        BY <2>2, <2>3 DEF off
    <3> HIDE DEF k, off
    <3>6. d2[off + k + 1] = w2[<<c, e>>]
      BY <3>2, <3>3, <3>4, <3>5, Zenon
    <3> QED
      BY <3>6 DEF k, off
  <2>5. CASE c # b
    <3>1. c \in DOMAIN map \ {b} /\ m2[c].ranges = map[c].ranges
      BY <1>5, <2>5
    <3>2. k + 1 \in 1 .. map[c].count /\ k = Rank(ElementsOf(map[c].ranges), e) /\ e \in ElementsOf(map[c].ranges)
      <4>1. map[c].count = Cardinality(ElementsOf(map[c].ranges))
        BY <1>0, <3>1 DEF MapInPlace
      <4> QED
        BY <2>3, <3>1, <4>1
    <3>3. d2[off + (k + 1)] = data[map[c].offset + (k + 1)]
      <4> HIDE DEF k
      <4> QED
        BY <1>3, <3>1, <3>2, Zenon DEF DataMoved
    <3>4. data[map[c].offset + k + 1] = want[<<c, e>>]
      <4> HIDE DEF k
      <4> QED
        BY <1>12, <3>1, <3>2, Zenon DEF Aligned
    <3>5. w2[<<c, e>>] = want[<<c, e>>]
      <4>1. <<c, e>> \notin new
        BY <2>5
      <4> HIDE DEF new
      <4> QED
        BY <1>9, <2>1, <4>1, Zenon
    <3>6. off + k + 1 = off + (k + 1) /\ map[c].offset + k + 1 = map[c].offset + (k + 1)
      <4>1. map[c].offset \in Nat
        BY <1>0, <3>1 DEF MapTyped, BindingData
      <4> DEFINE o == map[c].offset
      <4> HIDE DEF off, k, o
      <4>2. off + k + 1 = off + (k + 1)
        BY <2>2, <2>3 DEF off
      <4>3. o + k + 1 = o + (k + 1)
        BY <2>3, <4>1 DEF o
      <4> QED
        BY <4>2, <4>3 DEF o
    <3> HIDE DEF k, off
    <3>7. d2[off + k + 1] = w2[<<c, e>>]
      BY <3>3, <3>4, <3>5, <3>6, Zenon
    <3> QED
      BY <3>7 DEF k, off
  <2> QED
    BY <2>4, <2>5
<1> QED
  BY <1>11, <1>12

\* The ranges and the data of one binding.
LEMMA DataOfIs ==
  ASSUME DataFits(bindingsMap, bindingsData, wanted), NEW b \in Nat
  PROVE  /\ RangesOf(b) \in RangeSets /\ InGaps(RangesOf(b))
         /\ ElementsOf(RangesOf(b)) = IF b \in DOMAIN bindingsMap THEN ElementsOf(bindingsMap[b].ranges) ELSE {}
         /\ DataOf(b) \in Seq(Datum) /\ Len(DataOf(b)) = Cardinality(ElementsOf(RangesOf(b)))
         /\ Aligned(bindingsMap, bindingsData, wanted) =>
              \A e \in ElementsOf(RangesOf(b)) :
                DataOf(b)[Rank(ElementsOf(RangesOf(b)), e) + 1] = wanted[<<b, e>>]
<1> DEFINE m == bindingsMap[b]
           E == ElementsOf(RangesOf(b))
<1>1. MapTyped(bindingsMap) /\ MapInPlace(bindingsMap) /\ DataTyped(bindingsMap, bindingsData)
  BY DEF DataFits
<1>2. CASE b \notin DOMAIN bindingsMap
  <2>1. RangesOf(b) = << >> /\ DataOf(b) = << >>
    BY <1>2 DEF RangesOf, DataOf
  <2>2. << >> \in RangeSets /\ InGaps(<< >>) /\ ElementsOf(<< >>) = {}
    BY DEF RangeSets, InGaps, ElementsOf
  <2>3. << >> \in Seq(Datum) /\ Len(<< >>) = 0 /\ Cardinality({}) = 0
    BY FS_EmptySet
  <2> QED
    BY <1>2, <2>1, <2>2, <2>3
<1>3. CASE b \in DOMAIN bindingsMap
  <2>1. RangesOf(b) = m.ranges /\ E = ElementsOf(m.ranges)
    BY <1>3 DEF RangesOf
  <2>2. /\ m.offset \in Nat /\ m.count \in Nat /\ m.ranges \in RangeSets
        /\ m.offset = SumsBelow(bindingsMap, b) /\ m.count = Cardinality(E) /\ InGaps(m.ranges)
    BY <1>1, <1>3, <2>1 DEF MapTyped, MapInPlace, BindingData, SumsBelow
  <2> DEFINE off == m.offset
             n == m.count
             part == SubSeq(bindingsData, off + 1, off + n)
  <2>3. DataOf(b) = part
    BY <1>3 DEF DataOf
  <2>4. bindingsData \in Seq(Datum) /\ Len(bindingsData) \in Nat /\ off + n <= Len(bindingsData)
    <3>1. /\ SumsAbove(bindingsMap, b) \in Nat /\ CountFor(bindingsMap, b) = n
          /\ SumFunctionOnSet(CountsOf(bindingsMap), DOMAIN bindingsMap) =
               SumsBelow(bindingsMap, b) + CountFor(bindingsMap, b) + SumsAbove(bindingsMap, b)
      BY <1>1, <1>3, SumsOfMap DEF CountFor
    <3>2. bindingsData \in Seq(Datum) /\ Len(bindingsData) = off + n + SumsAbove(bindingsMap, b)
      BY <1>1, <2>2, <3>1 DEF DataTyped
    <3> HIDE DEF off, n
    <3>3. off \in Nat /\ n \in Nat
      BY <2>2 DEF off, n
    <3> QED
      BY <3>1, <3>2, <3>3
  <2> HIDE DEF off, n
  <2>5. off \in Nat /\ n \in Nat
    BY <2>2 DEF off, n
  <2>6. /\ part \in Seq(Datum) /\ Len(part) = n
        /\ \A i \in 1 .. n : part[i] = bindingsData[off + i]
    <3>1. off + 1 \in Nat \ {0} /\ off + n \in Nat /\ off + 1 <= off + n + 1
      BY <2>5
    <3>2. /\ part \in Seq(Datum) /\ Len(part) = off + n + 1 - (off + 1)
          /\ \A i \in 1 .. off + n + 1 - (off + 1) : part[i] = bindingsData[off + 1 + i - 1]
      BY <2>4, <3>1, PartIs
    <3>3. off + n + 1 - (off + 1) = n /\ \A i \in 1 .. n : off + 1 + i - 1 = off + i
      BY <2>5
    <3> HIDE DEF part
    <3> QED
      BY <3>2, <3>3
  <2> HIDE DEF part
  <2>7. ASSUME Aligned(bindingsMap, bindingsData, wanted), NEW e \in E
        PROVE  part[Rank(E, e) + 1] = wanted[<<b, e>>]
    <3>1. E \in SUBSET Nat /\ IsFiniteSet(E)
      BY <2>1, <2>2, OffsetOfAll
    <3> DEFINE k == Rank(E, e)
    <3>2. k \in Nat /\ k + 1 <= n
      <4>1. e \in Nat
        BY <2>7, <3>1
      <4> HIDE DEF E
      <4> QED
        BY <2>2, <2>7, <3>1, <4>1, RanksAre DEF n
    <3>3. bindingsData[off + k + 1] = wanted[<<b, e>>]
      BY <1>3, <2>1, <2>7, Zenon DEF Aligned, off
    <3> HIDE DEF k
    <3>4. part[k + 1] = bindingsData[off + (k + 1)] /\ off + k + 1 = off + (k + 1)
      BY <2>5, <2>6, <3>2
    <3>5. part[k + 1] = wanted[<<b, e>>]
      BY <3>3, <3>4
    <3> QED
      BY <3>5 DEF k
  <2>8. RangesOf(b) \in RangeSets /\ InGaps(RangesOf(b))
    BY <2>1, <2>2
  <2>9. DataOf(b) \in Seq(Datum) /\ Len(DataOf(b)) = Cardinality(E)
    BY <2>2, <2>3, <2>6 DEF n
  <2> QED
    BY <1>3, <2>1, <2>3, <2>7, <2>8, <2>9, Zenon
<1> QED
  BY <1>2, <1>3

LEMMA RankWithin ==
  ASSUME NEW E \in SUBSET Nat, IsFiniteSet(E), NEW e \in E
  PROVE  Rank(E, e) \in Nat /\ Cardinality(E) \in Nat /\ Rank(E, e) + 1 \in 1 .. Cardinality(E)
<1>1. e \in Nat
  OBVIOUS
<1> QED
  BY <1>1, RanksAre

IsReplaced(t, S, s, k, x) ==
  /\ t \in Seq(S) /\ Len(t) = Len(s)
  /\ t[k] = x
  /\ \A i \in 1 .. Len(s) : i # k => t[i] = s[i]

LEMMA ReplacedAt ==
  ASSUME NEW S, NEW s \in Seq(S), NEW k \in 1 .. Len(s), NEW x \in S
  PROVE  IsReplaced(ReplaceAt(s, k, x), S, s, k, x)
BY DEF ReplaceAt, IsReplaced

LEMMA InsertedLast ==
  ASSUME NEW S, NEW s \in Seq(S), NEW x \in S
  PROVE  IsSpliced(InsertAt(s, Len(s) + 1, x), S, s, Len(s), x, Len(s))
<1> DEFINE n == Len(s)
<1>1. n \in Nat /\ n <= n /\ n <= Len(s) /\ n + 1 - 1 = n
  OBVIOUS
<1>2. InsertAt(s, n + 1, x) = Spliced(s, n, x, n)
  <2>1. InsertAt(s, n + 1, x) = SubSeq(s, 1, n + 1 - 1) \o <<x>> \o SubSeq(s, n + 1, Len(s))
    BY DEF InsertAt
  <2> QED
    BY <1>1, <2>1, Zenon DEF Spliced, Patched
<1>3. IsSpliced(Spliced(s, n, x, n), S, s, n, x, n)
  <2> HIDE DEF n
  <2> QED
    BY <1>1, SplicedIs
<1> QED
  BY <1>2, <1>3, Zenon

\* One element more in the data of a binding, or another in its place.
LEMMA WithElementIs ==
  ASSUME DataFits(bindingsMap, bindingsData, wanted), NEW b \in Nat, NEW index \in Nat, calls \in Nat
  PROVE  LET E == ElementsOf(RangesOf(b))
             F == E \cup {index}
         IN  /\ WithElement(b, index) \in Seq(Datum)
             /\ Len(WithElement(b, index)) = Cardinality(F)
             /\ Aligned(bindingsMap, bindingsData, wanted) /\ (index \in E \/ \A e \in E : e < index) =>
                  \A e \in F : WithElement(b, index)[Rank(F, e) + 1] =
                                 IF e = index THEN Value(index) ELSE wanted[<<b, e>>]
<1> DEFINE E == ElementsOf(RangesOf(b))
           F == E \cup {index}
           s == DataOf(b)
           v == Value(index)
           t == WithElement(b, index)
           Good == Aligned(bindingsMap, bindingsData, wanted)
<1>1. /\ RangesOf(b) \in RangeSets /\ InGaps(RangesOf(b))
      /\ s \in Seq(Datum) /\ Len(s) = Cardinality(E)
      /\ Good => \A e \in E : s[Rank(E, e) + 1] = wanted[<<b, e>>]
  <2> HIDE DEF Good
  <2> QED
    BY DataOfIs DEF Good
<1>2. E \in SUBSET Nat /\ IsFiniteSet(E) /\ Cardinality(E) \in Nat
  BY <1>1, OffsetOfAll
<1>3. v \in Datum
  BY DEF Value, Datum
<1>4. IndexOffset(RangesOf(b), index) = IF index \in E THEN Rank(E, index) ELSE Cardinality(E)
  BY <1>1, IndexOffsetIs, Zenon
<1>5. t = IF index \in E THEN ReplaceAt(s, Rank(E, index) + 1, v) ELSE InsertAt(s, Cardinality(E) + 1, v)
  BY <1>4, Zenon DEF WithElement
<1> HIDE DEF E, s, v, t, Good
<1>6. CASE index \in E
  <2> DEFINE k == Rank(E, index) + 1
  <2>1. F = E
    BY <1>6
  <2>2. k \in 1 .. Len(s)
    <3>1. Rank(E, index) + 1 \in 1 .. Cardinality(E)
      BY <1>2, <1>6, RankWithin, Zenon
    <3> QED
      BY <1>1, <3>1, Zenon
  <2>3. t = ReplaceAt(s, k, v)
    BY <1>5, <1>6
  <2> HIDE DEF k
  <2>4. /\ t \in Seq(Datum) /\ Len(t) = Len(s) /\ t[k] = v
        /\ \A i \in 1 .. Len(s) : i # k => t[i] = s[i]
    <3>1. IsReplaced(ReplaceAt(s, k, v), Datum, s, k, v)
      BY <1>1, <1>3, <2>2, ReplacedAt, Zenon
    <3> QED
      BY <2>3, <3>1, Zenon DEF IsReplaced
  <2>5. ASSUME Good, NEW e \in E
        PROVE  t[Rank(E, e) + 1] = IF e = index THEN v ELSE wanted[<<b, e>>]
    <3>1. CASE e = index
      BY <2>4, <3>1 DEF k
    <3>2. CASE e # index
      <4>0. e \in Nat /\ index \in Nat
        BY <1>2
      <4>1. Rank(E, e) # Rank(E, index) /\ Rank(E, e) \in Nat /\ Rank(E, index) \in Nat
        BY <1>2, <1>6, <3>2, <4>0, RanksDiffer, RanksAre
      <4>2. Rank(E, e) + 1 \in 1 .. Len(s)
        BY <1>1, <1>2, <4>1, RankWithin, Zenon
      <4>3. Rank(E, e) + 1 # k
        BY <4>1 DEF k
      <4>4. t[Rank(E, e) + 1] = s[Rank(E, e) + 1]
        BY <2>4, <4>2, <4>3
      <4> QED
        BY <1>1, <2>5, <3>2, <4>4
    <3> QED
      BY <3>1, <3>2
  <2> HIDE DEF F
  <2>6. Len(t) = Cardinality(F)
    BY <1>1, <2>1, <2>4
  <2>7. Good /\ (index \in E \/ \A e \in E : e < index) =>
          \A e \in F : t[Rank(F, e) + 1] = IF e = index THEN v ELSE wanted[<<b, e>>]
    BY <2>1, <2>5, Zenon
  <2> QED
    BY <2>4, <2>6, <2>7, Zenon DEF t, v, F, E, Good
<1>7. CASE index \notin E
  <2>1. t = InsertAt(s, Len(s) + 1, v)
    BY <1>1, <1>5, <1>7
  <2>2. /\ t \in Seq(Datum) /\ Len(t) = Len(s) + 1
        /\ \A i \in 1 .. Len(s) : t[i] = s[i]
        /\ t[Len(s) + 1] = v
    <3>1. IsSpliced(InsertAt(s, Len(s) + 1, v), Datum, s, Len(s), v, Len(s))
      BY <1>1, <1>3, InsertedLast, Zenon
    <3>2. Len(s) + 1 + (Len(s) - Len(s)) = Len(s) + 1
      BY <1>1, <1>2
    <3> QED
      BY <2>1, <3>1, <3>2, Zenon DEF IsSpliced
  <2>3. Cardinality(F) = Cardinality(E) + 1
    BY <1>2, <1>7, FS_AddElement, Zenon
  <2>4. ASSUME Good, \A e \in E : e < index, NEW e \in F
        PROVE  t[Rank(F, e) + 1] = IF e = index THEN v ELSE wanted[<<b, e>>]
    <3>1. CASE e = index
      <4>1. Rank(F, index) = Cardinality(E)
        BY <1>2, <2>4, RankOfLast
      <4> QED
        BY <1>1, <2>2, <3>1, <4>1
    <3>2. CASE e # index
      <4>1. e \in E /\ e \in Nat
        BY <1>2, <3>2
      <4>2. Rank(F, e) = Rank(E, e)
        BY <1>2, <2>4, <4>1, RankOfLast
      <4>3. Rank(E, e) + 1 \in 1 .. Len(s)
        BY <1>1, <1>2, <4>1, RankWithin, Zenon
      <4>4. t[Rank(E, e) + 1] = s[Rank(E, e) + 1]
        BY <2>2, <4>3
      <4> QED
        BY <1>1, <2>4, <3>2, <4>1, <4>2, <4>4
    <3> QED
      BY <3>1, <3>2
  <2> HIDE DEF F
  <2>5. Len(t) = Cardinality(F)
    BY <1>1, <2>2, <2>3
  <2>6. Good /\ (index \in E \/ \A e \in E : e < index) =>
          \A e \in F : t[Rank(F, e) + 1] = IF e = index THEN v ELSE wanted[<<b, e>>]
    BY <1>7, <2>4, Zenon
  <2> QED
    BY <2>2, <2>5, <2>6, Zenon DEF t, v, F, E, Good
<1> QED
  BY <1>6, <1>7

LEMMA SpanIs ==
  ASSUME NEW n \in Nat \ {0}
  PROVE  <<<<0, n>>>> \in RangeSets /\ InGaps(<<<<0, n>>>>) /\ ElementsOf(<<<<0, n>>>>) = 0 .. n - 1
<1> DEFINE r == <<<<0, n>>>>
<1>1. r \in Seq(Span) /\ Len(r) = 1 /\ DOMAIN r = {1} /\ r[1][1] = 0 /\ r[1][2] = n
  BY DEF Span
<1>2. 1 .. Len(r) - 1 = {}
  BY <1>1
<1> HIDE DEF r
<1>3. InGaps(r)
  BY <1>1, <1>2 DEF InGaps
<1>4. ElementsOf(r) = 0 .. n - 1
  BY <1>1 DEF ElementsOf
<1> QED
  BY <1>1, <1>3, <1>4 DEF RangeSets, r

LEMMA WantIs ==
  ASSUME NEW b, NEW indices \in SUBSET Nat, Want(b, indices)
  PROVE  Wants(wanted, wanted', b, indices, [e \in Nat |-> Value(e)])
<1> DEFINE new == {b} \X indices
           kept == {y \in DOMAIN wanted : y[1] # b \/ Kind[b] = "element"}
           value == [e \in Nat |-> Value(e)]
<1>1. wanted' = [x \in kept \cup new |-> IF x \in new THEN Value(x[2]) ELSE wanted[x]]
  BY Zenon DEF Want
<1>2. \A x \in new : value[x[2]] = Value(x[2])
  OBVIOUS
<1> HIDE DEF kept, new, value
<1>3. wanted' = [x \in kept \cup new |-> IF x \in new THEN value[x[2]] ELSE wanted[x]]
  BY <1>1, <1>2
<1> QED
  BY <1>3, Zenon DEF Wants, kept, new, value

LEMMA BindingIsNatural == ASSUME NEW b \in Bindings PROVE b \in Nat
BY KindAssumption DEF Bindings

\* A binding that is set as a whole.
LEMMA SetWhole ==
  ASSUME DataFits(bindingsMap, bindingsData, wanted), calls \in Nat,
         NEW b \in Bindings, Kind[b] # "element", NEW n \in Nat \ {0}, NEW values,
         values = [i \in 1 .. n |-> Value(i - 1)],
         Replace(bindingsMap, bindingsData, b, values, <<<<0, n>>>>), Want(b, 0 .. n - 1)
  PROVE  /\ DataFits(bindingsMap', bindingsData', wanted')
         /\ Aligned(bindingsMap, bindingsData, wanted) => Aligned(bindingsMap', bindingsData', wanted')
<1> DEFINE ranges == <<<<0, n>>>>
           indices == 0 .. n - 1
           value == [e \in Nat |-> Value(e)]
<1>1. ranges \in RangeSets /\ InGaps(ranges) /\ ElementsOf(ranges) = indices
  BY SpanIs
<1>2. IsFiniteSet(indices) /\ Cardinality(indices) = n /\ \A e \in indices : Rank(indices, e) = e
  BY RankOfCount
<1>3. b \in Nat /\ indices \in SUBSET Nat
  BY BindingIsNatural
<1>4. values \in Seq(Datum) /\ Len(values) = n /\ \A i \in 1 .. n : values[i] = Value(i - 1)
  <2>1. \A i \in 1 .. n : Value(i - 1) \in Datum
    BY DEF Value, Datum
  <2> QED
    BY <2>1
<1>5. bindingsMap' = Put(bindingsMap, b, Len(values), ranges) /\ bindingsData' = PutData(bindingsMap, bindingsData, b, values)
  BY ReplacePuts
<1>6. Wants(wanted, wanted', b, indices, value)
  BY <1>3, WantIs
<1>7. \A e \in indices : values[e + 1] = value[e]
  <2> SUFFICES ASSUME NEW e \in indices PROVE values[e + 1] = value[e]
    OBVIOUS
  <2>1. e + 1 \in 1 .. n /\ e + 1 - 1 = e /\ e \in Nat
    OBVIOUS
  <2> QED
    BY <1>4, <2>1
<1> HIDE DEF ranges, indices, value
<1>8. HoldsBoth(bindingsMap, b, ranges, indices)
  BY <1>1 DEF HoldsBoth
<1>9. Tells(values, ranges, indices, value, wanted, b)
  BY <1>1, <1>2, <1>7, Zenon DEF Tells
<1>10. Len(values) = Cardinality(ElementsOf(ranges))
  BY <1>1, <1>2, <1>4, Zenon
<1>11. values \in Seq(Datum)
  BY <1>4
<1>12. ranges \in RangeSets /\ InGaps(ranges) /\ b \in Nat
  BY <1>1, <1>3
<1>13. /\ DataFits(bindingsMap', bindingsData', wanted')
       /\ Aligned(bindingsMap, bindingsData, wanted) /\ Tells(values, ranges, indices, value, wanted, b)
            => Aligned(bindingsMap', bindingsData', wanted')
  BY <1>5, <1>6, <1>8, <1>10, <1>11, <1>12, SetKeepsFit, SMTT(30)
<1> QED
  BY <1>9, <1>13, Zenon

LEMMA SetElementKeeps ==
  ASSUME DataFits(bindingsMap, bindingsData, wanted), calls \in Nat,
         NEW b \in Bindings, NEW index \in Nat, SetElement(b, index)
  PROVE  /\ DataFits(bindingsMap', bindingsData', wanted')
         /\ Aligned(bindingsMap, bindingsData, wanted) /\ ascending' => Aligned(bindingsMap', bindingsData', wanted')
<1> DEFINE old == RangesOf(b)
           ranges == Insert(old, index, index + 1)
           E == ElementsOf(old)
           F == E \cup {index}
           values == WithElement(b, index)
           value == [e \in Nat |-> Value(e)]
<1>1. b \in Nat
  BY BindingIsNatural
<1>2. /\ old \in RangeSets /\ InGaps(old)
      /\ E = IF b \in DOMAIN bindingsMap THEN ElementsOf(bindingsMap[b].ranges) ELSE {}
  BY <1>1, DataOfIs
<1>3. ranges \in RangeSets /\ InGaps(ranges) /\ ElementsOf(ranges) = F
  <2>1. index + 1 \in Nat /\ index < index + 1 /\ index .. index + 1 - 1 = {index}
    OBVIOUS
  <2>2. /\ ranges \in RangeSets /\ InGaps(ranges)
        /\ ElementsOf(ranges) = ElementsOf(old) \cup (index .. index + 1 - 1)
    <3> HIDE DEF old
    <3> QED
      BY <1>2, <2>1, InsertAdds
  <2> HIDE DEF ranges, old
  <2> QED
    BY <2>1, <2>2
<1>4. /\ values \in Seq(Datum) /\ Len(values) = Cardinality(F)
      /\ Aligned(bindingsMap, bindingsData, wanted) /\ (index \in E \/ \A e \in E : e < index) =>
           \A e \in F : values[Rank(F, e) + 1] = IF e = index THEN Value(index) ELSE wanted[<<b, e>>]
  BY <1>1, WithElementIs
<1>5. /\ Kind[b] = "element"
      /\ Replace(bindingsMap, bindingsData, b, values, ranges) /\ Want(b, {index})
      /\ ascending' = (ascending /\ (index \in E \/ \A e \in E : e < index))
  BY DEF SetElement
<1>6. Wants(wanted, wanted', b, {index}, value)
  BY <1>5, WantIs
<1>7. value[index] = Value(index)
  OBVIOUS
<1> HIDE DEF old, ranges, E, F, values, value
<1>8. bindingsMap' = Put(bindingsMap, b, Len(values), ranges) /\ bindingsData' = PutData(bindingsMap, bindingsData, b, values)
  BY <1>5, ReplacePuts
<1>9. HoldsBoth(bindingsMap, b, ranges, {index})
  BY <1>2, <1>3, <1>5 DEF F, HoldsBoth
<1>10. Len(values) = Cardinality(ElementsOf(ranges)) /\ values \in Seq(Datum)
  BY <1>3, <1>4
<1>11. /\ DataFits(bindingsMap', bindingsData', wanted')
       /\ Aligned(bindingsMap, bindingsData, wanted) /\ Tells(values, ranges, {index}, value, wanted, b)
            => Aligned(bindingsMap', bindingsData', wanted')
  BY <1>1, <1>3, <1>6, <1>8, <1>9, <1>10, SetKeepsFit
<1>12. ASSUME Aligned(bindingsMap, bindingsData, wanted), ascending'
       PROVE  Tells(values, ranges, {index}, value, wanted, b)
  <2>1. index \in E \/ \A e \in E : e < index
    BY <1>5, <1>12
  <2>2. \A e \in F : values[Rank(F, e) + 1] = IF e = index THEN Value(index) ELSE wanted[<<b, e>>]
    BY <1>4, <1>12, <2>1, Zenon
  <2>3. \A e : e \in {index} <=> e = index
    OBVIOUS
  <2> QED
    BY <1>3, <1>7, <2>2, <2>3, Zenon DEF Tells
<1> QED
  BY <1>11, <1>12

SetSome ==
  \E b \in Bindings :
    \/ SetOne(b)
    \/ \E count \in 1 .. Elements : SetMany(b, count)
    \/ \E index \in 0 .. Elements - 1 : SetElement(b, index)

LEMMA SetSomeKeeps ==
  ASSUME DataFits(bindingsMap, bindingsData, wanted), calls \in Nat, SetSome,
         ascending => Aligned(bindingsMap, bindingsData, wanted)
  PROVE  /\ DataFits(bindingsMap', bindingsData', wanted')
         /\ ascending' => Aligned(bindingsMap', bindingsData', wanted')
<1>1. ASSUME NEW b \in Bindings, SetOne(b)
      PROVE  /\ DataFits(bindingsMap', bindingsData', wanted')
             /\ ascending' => Aligned(bindingsMap', bindingsData', wanted')
  <2>1. /\ Kind[b] # "element" /\ Want(b, {0}) /\ ascending' = ascending
        /\ Replace(bindingsMap, bindingsData, b, <<Value(0)>>, <<<<0, 1>>>>)
    BY <1>1 DEF SetOne
  <2>2. <<Value(0)>> = [i \in 1 .. 1 |-> Value(i - 1)]
    BY DEF Value
  <2>3. {0} = 0 .. 1 - 1 /\ 1 \in Nat \ {0}
    OBVIOUS
  <2> DEFINE values == <<Value(0)>>
             indices == {0}
             n == 1
  <2>4. /\ values = [i \in 1 .. n |-> Value(i - 1)] /\ indices = 0 .. n - 1 /\ n \in Nat \ {0}
        /\ Want(b, indices) /\ Replace(bindingsMap, bindingsData, b, values, <<<<0, n>>>>)
    BY <2>1, <2>2, <2>3, Zenon
  <2> HIDE DEF values, indices, n
  <2>5. Want(b, 0 .. n - 1)
    BY <2>4, Zenon
  <2> QED
    BY <2>1, <2>4, <2>5, SetWhole
<1>2. ASSUME NEW b \in Bindings, NEW count \in 1 .. Elements, SetMany(b, count)
      PROVE  /\ DataFits(bindingsMap', bindingsData', wanted')
             /\ ascending' => Aligned(bindingsMap', bindingsData', wanted')
  <2>1. count \in Nat \ {0}
    BY SizesAssumption
  <2> DEFINE values == [i \in 1 .. count |-> Value(i - 1)]
  <2>2. /\ Kind[b] # "element" /\ Want(b, 0 .. count - 1) /\ ascending' = ascending
        /\ Replace(bindingsMap, bindingsData, b, values, <<<<0, count>>>>)
    BY <1>2 DEF SetMany
  <2>3. values = [i \in 1 .. count |-> Value(i - 1)]
    OBVIOUS
  <2> HIDE DEF values
  <2> QED
    BY <2>1, <2>2, <2>3, SetWhole
<1>3. ASSUME NEW b \in Bindings, NEW index \in 0 .. Elements - 1, SetElement(b, index)
      PROVE  /\ DataFits(bindingsMap', bindingsData', wanted')
             /\ ascending' => Aligned(bindingsMap', bindingsData', wanted')
  <2>1. index \in Nat
    BY SizesAssumption
  <2>2. ascending' => ascending
    BY <1>3 DEF SetElement
  <2> QED
    BY <1>3, <2>1, <2>2, SetElementKeeps
<1> QED
  BY <1>1, <1>2, <1>3 DEF SetSome

------------------------------------------------------------------------------
\* The entries of the template cover what was asked for, and take each element's
\* data from where it is.
LEMMA WrittenIsWanted ==
  ASSUME DataFits(bindingsMap, bindingsData, wanted), Aligned(bindingsMap, bindingsData, wanted),
         entries = Entries(bindingsMap)
  PROVE  Written = wanted
<1> DEFINE map == bindingsMap
           From(f, x) == bindingsData[f.offset + x[2] - f.element + 1]
<1>1. MapTyped(map) /\ MapInPlace(map) /\ wanted = [x \in Asked(map) |-> wanted[x]]
  BY DEF DataFits
<1>2. ASSUME NEW b \in DOMAIN map
      PROVE  /\ map[b].offset \in Nat /\ map[b].ranges \in RangeSets /\ InGaps(map[b].ranges)
             /\ Len(map[b].ranges) \in Nat /\ DOMAIN map[b].ranges = 1 .. Len(map[b].ranges)
             /\ \A i \in DOMAIN map[b].ranges :
                  /\ map[b].ranges[i][1] \in Nat /\ map[b].ranges[i][2] \in Nat
                  /\ map[b].ranges[i][1] < map[b].ranges[i][2]
  <2>1. map[b].offset \in Nat /\ map[b].ranges \in RangeSets /\ InGaps(map[b].ranges)
    BY <1>1 DEF MapTyped, MapInPlace, BindingData
  <2> DEFINE r == map[b].ranges
  <2> HIDE DEF r
  <2>2. r \in RangeSets /\ InGaps(r)
    BY <2>1 DEF r
  <2>3. Len(r) \in Nat /\ DOMAIN r = 1 .. Len(r)
        /\ \A i \in DOMAIN r : r[i][1] \in Nat /\ r[i][2] \in Nat /\ r[i][1] < r[i][2]
    BY <2>2, RangesAre DEF InGaps
  <2> QED
    BY <2>1, <2>3 DEF r
<1>3. ASSUME NEW b \in DOMAIN map, NEW i \in DOMAIN map[b].ranges
      PROVE  Covered(EntryOf(map, b, i)) = {b} \X (map[b].ranges[i][1] .. map[b].ranges[i][2] - 1)
  <2> DEFINE low == map[b].ranges[i][1]
             high == map[b].ranges[i][2]
  <2>1. low \in Nat /\ high \in Nat
    BY <1>2
  <2>2. EntryOf(map, b, i).binding = b /\ EntryOf(map, b, i).element = low /\ EntryOf(map, b, i).count = high - low
    BY DEF EntryOf
  <2> HIDE DEF low, high
  <2>3. low + (high - low) - 1 = high - 1
    BY <2>1
  <2>4. Covered(EntryOf(map, b, i)) = {b} \X (low .. high - 1)
    BY <2>2, <2>3, Zenon DEF Covered
  <2> QED
    BY <2>4 DEF low, high
<1>4. ASSUME NEW b \in DOMAIN map, NEW i \in DOMAIN map[b].ranges, NEW x \in Covered(EntryOf(map, b, i))
      PROVE  x \in Asked(map) /\ From(EntryOf(map, b, i), x) = wanted[x]
  <2> DEFINE r == map[b].ranges
             e == x[2]
             off == map[b].offset
  <2>1. x = <<b, e>> /\ e \in r[i][1] .. r[i][2] - 1
    BY <1>3
  <2>2. e \in ElementsOf(r)
    BY <2>1 DEF ElementsOf
  <2>3. x \in Asked(map)
    <3>1. <<b, e>> \in Asked(map)
      BY <2>2, AskedIs
    <3> QED
      BY <2>1, <3>1
  <2>4. off \in Nat /\ r \in RangeSets /\ InGaps(r) /\ i \in 1 .. Len(r) /\ r[i][1] \in Nat /\ r[i][2] \in Nat
    BY <1>2
  <2> DEFINE k == RangeOffset(r, i)
             low == r[i][1]
  <2>5. EntryOf(map, b, i).offset = off + k /\ EntryOf(map, b, i).element = low
    BY DEF EntryOf
  <2>6. From(EntryOf(map, b, i), x) = bindingsData[off + k + e - low + 1]
    BY <2>5, Zenon
  <2>7. bindingsData[off + Rank(ElementsOf(r), e) + 1] = wanted[<<b, e>>]
    BY <2>2, Zenon DEF Aligned
  <2> HIDE DEF From, r, e, off
  <2>8. Rank(ElementsOf(r), e) = k + (e - low) /\ k \in Nat /\ e \in Nat
    <3>1. e \in r[i][1] .. r[i][2] /\ e \in Nat
      BY <2>1, <2>4
    <3> QED
      BY <2>4, <3>1, RankIn
  <2> HIDE DEF k, low
  <2>9. off + k + e - low + 1 = off + (k + (e - low)) + 1
    BY <2>4, <2>8 DEF low
  <2>10. From(EntryOf(map, b, i), x) = wanted[<<b, e>>]
    BY <2>6, <2>7, <2>8, <2>9, Zenon
  <2> QED
    BY <2>1, <2>3, <2>10, Zenon
<1>5. \A f : f \in entries <=> \E b \in DOMAIN map : \E i \in DOMAIN map[b].ranges : f = EntryOf(map, b, i)
  BY DEF Entries
<1>6. ASSUME NEW f \in entries, NEW x \in Covered(f) PROVE x \in Asked(map) /\ From(f, x) = wanted[x]
  <2>1. PICK b \in DOMAIN map : \E i \in DOMAIN map[b].ranges : f = EntryOf(map, b, i)
    BY <1>5
  <2>2. PICK i \in DOMAIN map[b].ranges : f = EntryOf(map, b, i)
    BY <2>1
  <2> HIDE DEF From
  <2> QED
    BY <1>4, <2>2
<1>7. ASSUME NEW x \in Asked(map) PROVE \E f \in entries : x \in Covered(f)
  <2>1. x = <<x[1], x[2]>> /\ x[1] \in DOMAIN map /\ x[2] \in ElementsOf(map[x[1]].ranges)
    BY AskedPairs
  <2>2. PICK i \in DOMAIN map[x[1]].ranges : x[2] \in map[x[1]].ranges[i][1] .. map[x[1]].ranges[i][2] - 1
    BY <2>1 DEF ElementsOf
  <2> DEFINE f == EntryOf(map, x[1], i)
  <2>3. f \in entries
    BY <1>5, <2>1
  <2>4. Covered(f) = {x[1]} \X (map[x[1]].ranges[i][1] .. map[x[1]].ranges[i][2] - 1)
    BY <1>3, <2>1
  <2>5. x \in Covered(f)
    BY <2>1, <2>2, <2>4
  <2> QED
    BY <2>3, <2>5
<1>8. UNION {Covered(f) : f \in entries} = Asked(map)
  <2> HIDE DEF From
  <2> QED
    BY <1>6, <1>7
<1>9. Written = [x \in Asked(map) |-> From((CHOOSE f \in entries : x \in Covered(f)), x)]
  BY <1>8, Zenon DEF Written
<1>10. ASSUME NEW x \in Asked(map) PROVE From((CHOOSE f \in entries : x \in Covered(f)), x) = wanted[x]
  <2> DEFINE g == CHOOSE f \in entries : x \in Covered(f)
  <2>1. g \in entries /\ x \in Covered(g)
    BY <1>7
  <2> HIDE DEF g, From
  <2>2. From(g, x) = wanted[x]
    BY <1>6, <2>1
  <2> QED
    BY <2>2 DEF g
<1> HIDE DEF From
<1> QED
  BY <1>1, <1>9, <1>10, Zenon

\* The data fits the map and what callers wanted, and the template was made from
\* the map; each element's data is its own as long as new ones came in order.
DataKept ==
  /\ DataFits(bindingsMap, bindingsData, wanted)
  /\ entries = Entries(bindingsMap)
  /\ ascending => Aligned(bindingsMap, bindingsData, wanted)
  /\ calls \in Nat /\ calls <= MaxSets

Writing == \E u \in Users : at[u] \in {"promote", "update"}

\* Who is about to write has taken the dirty state, and the front has not come
\* to the set that he will write.
OneSetForEachCall ==
  /\ Writing => setState = "ready"
  /\ front[1] <= calls + 1
  /\ setState = "dirty" \/ Writing => front[1] <= calls

WrittenInv == Inv /\ DataKept /\ OneSetForEachCall /\ ReadyMeansWritten

LEMMA NothingFits == DataFits(<< >>, << >>, << >>)
<1> DEFINE none == << >>
<1>1. DOMAIN none = {} /\ none \in Seq(Datum) /\ Len(none) = 0
  OBVIOUS
<1>2. Asked(none) = {}
  BY <1>1 DEF Asked
<1>3. none = [x \in {} |-> none[x]]
  OBVIOUS
<1>4. IsFiniteSet({})
  BY FS_EmptySet
<1> HIDE DEF none
<1>5. MapTyped(none) /\ MapInPlace(none)
  BY <1>1, <1>4 DEF MapTyped, MapInPlace
<1>6. DataTyped(none, none)
  BY <1>1, SumOfNothing DEF DataTyped
<1>7. DataFits(none, none, none)
  BY <1>2, <1>3, <1>5, <1>6, Zenon DEF DataFits
<1> QED
  BY <1>7 DEF none

LEMMA InitWritten == Init => WrittenInv
<1> SUFFICES ASSUME Init PROVE WrittenInv
  OBVIOUS
<1>1. Inv
  BY InitInv
<1>2. DataFits(bindingsMap, bindingsData, wanted)
  BY NothingFits DEF Init
<1>3. DOMAIN bindingsMap = {}
  BY DEF Init
<1>4. entries = Entries(bindingsMap)
  BY <1>3 DEF Init, Entries
<1>5. Aligned(bindingsMap, bindingsData, wanted)
  BY <1>3 DEF Aligned
<1>6. calls \in Nat /\ calls <= MaxSets
  BY SizesAssumption DEF Init
<1>7. ~Writing
  BY DEF Init, Writing
<1>8. OneSetForEachCall
  BY <1>7 DEF Init, OneSetForEachCall
<1>9. ReadyMeansWritten
  <2>1. <<1, 0>> \in DescriptorSet
    BY SizesAssumption DEF DescriptorSet, Arrays
  <2>2. contents[front] = << >>
    BY <2>1 DEF Init
  <2> QED
    BY <2>2 DEF Init, ReadyMeansWritten
<1> QED
  BY <1>1, <1>2, <1>4, <1>5, <1>6, <1>8, <1>9 DEF WrittenInv, DataKept

LEMMA DataUnchanged ==
  ASSUME DataKept, UNCHANGED dataVars
  PROVE  DataKept'
BY DEF DataKept, dataVars, DataFits, Aligned, MapTyped, MapInPlace, DataTyped

\* Setting data is the only step that touches the data, and it keeps them.
LEMMA SetKeepsData ==
  ASSUME DataKept, NEW u \in Users, SetDescriptorData(u)
  PROVE  DataKept'
<1>1. SetSome /\ calls' = calls + 1 /\ calls < MaxSets /\ entries' = Entries(bindingsMap')
  BY DEF SetDescriptorData, SetSome
<1>2. /\ DataFits(bindingsMap', bindingsData', wanted')
      /\ ascending' => Aligned(bindingsMap', bindingsData', wanted')
  BY <1>1, SetSomeKeeps DEF DataKept
<1>3. DataFits(bindingsMap, bindingsData, wanted)' /\ (ascending => Aligned(bindingsMap, bindingsData, wanted))'
  BY <1>2 DEF DataFits, Aligned, MapTyped, MapInPlace, DataTyped
<1>4. (entries = Entries(bindingsMap))'
  BY <1>1 DEF Entries, EntryOf
<1>5. calls' \in Nat /\ calls' <= MaxSets
  BY <1>1, SizesAssumption DEF DataKept
<1> QED
  BY <1>3, <1>4, <1>5 DEF DataKept

\* A thread with the mutex to itself is the only one that may be about to write.
LEMMA AloneNotWriting ==
  ASSUME Inv, NEW u \in Users, at[u] \in {"set", "update"}
  PROVE  \A v \in Users : v # u => at[v] \notin {"promote", "update"}
<1>1. holds[u] = "writer"
  BY DEF Inv, PlaceTellsPermission, Permission
<1>2. ASSUME NEW v \in Users, v # u PROVE at[v] \notin {"promote", "update"}
  <2>1. holds[v] = "none"
    BY <1>1, <1>2 DEF Inv, Exclusive
  <2> QED
    BY <2>1 DEF Inv, PlaceTellsPermission, Permission
<1> QED
  BY <1>2

LEMMA SameFront ==
  ASSUME OneSetForEachCall, ReadyMeansWritten, Writing' = Writing, setState' = setState,
         UNCHANGED <<dataVars, setVars>>
  PROVE  OneSetForEachCall' /\ ReadyMeansWritten'
<1>1. calls' = calls /\ ascending' = ascending /\ wanted' = wanted /\ front' = front /\ contents' = contents
  BY DEF dataVars, setVars
<1>2. (\A u \in Users : at'[u] \notin {"promote", "update"}) <=> (\A u \in Users : at[u] \notin {"promote", "update"})
  BY DEF Writing
<1> QED
  BY <1>1, <1>2 DEF OneSetForEachCall, ReadyMeansWritten

LEMMA NextWritten == WrittenInv /\ [Next]_vars => WrittenInv'
<1> SUFFICES ASSUME WrittenInv, [Next]_vars PROVE WrittenInv'
  OBVIOUS
<1>1. Inv /\ DataKept /\ OneSetForEachCall /\ ReadyMeansWritten
  BY DEF WrittenInv
<1>2. Inv'
  BY <1>1, NextInv
<1>3. Recorders \subseteq Users /\ at \in [Users -> Places]
  BY <1>1 DEF Users, Inv, PlaceTellsPermission
<1>4. ASSUME NEW u \in Users, NEW from \in Places \ {"promote", "update"}, NEW to \in Places \ {"promote", "update"},
             Go(u, from, to)
      PROVE  Writing' = Writing
  BY <1>3, <1>4 DEF Go, Writing
<1>5. ASSUME NEW u \in Users, LockSet(u) PROVE WrittenInv'
  <2>1. Writing' = Writing
    BY <1>4, <1>5 DEF LockSet, Places, Permission
  <2>2. setState' = setState /\ UNCHANGED dataVars /\ UNCHANGED setVars
    BY <1>5 DEF LockSet
  <2> QED
    BY <1>1, <1>2, <2>1, <2>2, SameFront, DataUnchanged DEF WrittenInv
<1>6. ASSUME NEW u \in Users, SetDescriptorData(u) PROVE WrittenInv'
  <2>1. DataKept'
    BY <1>1, <1>6, SetKeepsData
  <2>2. at[u] = "set" /\ at' = [at EXCEPT ![u] = "idle"] /\ setState' = "dirty" /\ calls' = calls + 1 /\ front' = front
    BY <1>6 DEF SetDescriptorData, Go, setVars
  <2>3. ~Writing'
    BY <1>1, <1>3, <2>2, AloneNotWriting DEF Writing
  <2>4. OneSetForEachCall'
    <3>1. front[1] \in Nat /\ calls \in Nat /\ front[1] <= calls + 1
      BY <1>1 DEF OneSetForEachCall, DataKept, Inv, BoundBehindFront, Fronts
    <3>2. front'[1] <= calls' + 1 /\ front'[1] <= calls'
      BY <2>2, <3>1
    <3> QED
      BY <2>3, <3>2 DEF OneSetForEachCall
  <2>5. ReadyMeansWritten'
    BY <2>2 DEF ReadyMeansWritten
  <2> QED
    BY <1>2, <2>1, <2>4, <2>5 DEF WrittenInv
<1>7. ASSUME NEW u \in Users, LockBind(u) PROVE WrittenInv'
  <2>1. Writing' = Writing
    BY <1>4, <1>7 DEF LockBind, Places, Permission
  <2>2. setState' = setState /\ UNCHANGED dataVars /\ UNCHANGED setVars
    BY <1>7 DEF LockBind
  <2> QED
    BY <1>1, <1>2, <2>1, <2>2, SameFront, DataUnchanged DEF WrittenInv
<1>8. ASSUME NEW u \in Users, TakeDirty(u) PROVE WrittenInv'
  <2>1. /\ at[u] = "check" /\ at' = [at EXCEPT ![u] = "promote"] /\ setState = "dirty" /\ setState' = "ready"
        /\ UNCHANGED dataVars /\ UNCHANGED setVars
    BY <1>8 DEF TakeDirty, Go
  <2>2. at'[u] = "promote" /\ Writing'
    BY <1>3, <2>1 DEF Writing
  <2>3. DataKept'
    BY <1>1, <2>1, DataUnchanged
  <2>4. calls' = calls /\ front' = front
    BY <2>1 DEF dataVars, setVars
  <2>5. OneSetForEachCall'
    BY <1>1, <2>1, <2>4 DEF OneSetForEachCall
  <2>6. ReadyMeansWritten'
    BY <2>2 DEF ReadyMeansWritten
  <2> QED
    BY <1>2, <2>3, <2>5, <2>6 DEF WrittenInv
<1>9. ASSUME NEW u \in Users, SkipUpdate(u) PROVE WrittenInv'
  <2>1. Writing' = Writing
    BY <1>4, <1>9 DEF SkipUpdate, Places, Permission
  <2>2. setState' = setState /\ UNCHANGED dataVars /\ UNCHANGED setVars
    BY <1>9 DEF SkipUpdate
  <2> QED
    BY <1>1, <1>2, <2>1, <2>2, SameFront, DataUnchanged DEF WrittenInv
<1>10. ASSUME NEW u \in Users, Promote(u) PROVE WrittenInv'
  <2>1. Writing' = TRUE /\ Writing = TRUE
    BY <1>3, <1>10 DEF Promote, Go, Writing
  <2>2. setState' = setState /\ UNCHANGED dataVars /\ UNCHANGED setVars
    BY <1>10 DEF Promote
  <2> QED
    BY <1>1, <1>2, <2>1, <2>2, SameFront, DataUnchanged DEF WrittenInv
<1>11. ASSUME NEW u \in Users, Update(u) PROVE WrittenInv'
  <2>1. /\ at[u] = "update" /\ at' = [at EXCEPT ![u] = "bind"] /\ setState' = setState /\ UNCHANGED dataVars
        /\ front' = NextSet /\ contents' = [contents EXCEPT ![NextSet] = Written]
    BY <1>11 DEF Update, Go
  <2>2. DataKept'
    BY <1>1, <2>1, DataUnchanged
  <2>3. calls' = calls /\ wanted' = wanted /\ ascending' = ascending
    BY <2>1 DEF dataVars
  <2>4. Writing /\ setState = "ready" /\ front[1] <= calls
    BY <1>1, <2>1 DEF Writing, OneSetForEachCall
  <2>5. ~Writing'
    BY <1>1, <1>3, <2>1, AloneNotWriting DEF Writing
  <2>6. NextSet \in Fronts /\ NextSet[1] <= calls + 1 /\ NextSet \in DescriptorSet
    <3>1. NextSet \in Fronts
      BY <1>1, NextSetIsNew DEF Inv
    <3>2. front[1] \in Nat /\ calls \in Nat /\ calls <= MaxSets /\ MaxSets \in Nat
      BY <1>1, SizesAssumption DEF DataKept, Inv, BoundBehindFront, Fronts
    <3>3. NextSet[1] = front[1] \/ NextSet[1] = front[1] + 1
      BY DEF NextSet
    <3>4. NextSet[1] <= calls + 1
      BY <2>4, <3>2, <3>3
    <3>5. NextSet[1] \in Nat \ {0} /\ NextSet = <<NextSet[1], NextSet[2]>> /\ NextSet[2] \in 0 .. Capacity - 1
      BY <3>1 DEF Fronts
    <3>6. NextSet[1] \in Arrays
      BY <3>2, <3>4, <3>5 DEF Arrays
    <3>7. <<NextSet[1], NextSet[2]>> \in DescriptorSet
      BY <3>5, <3>6 DEF DescriptorSet
    <3> QED
      BY <3>1, <3>4, <3>5, <3>7
  <2>7. OneSetForEachCall'
    BY <2>1, <2>3, <2>4, <2>5, <2>6 DEF OneSetForEachCall
  <2>8. contents'[NextSet] = Written
    BY <1>1, <2>1, <2>6 DEF Inv, ContentsOfSets
  <2>9. ascending => Written = wanted
    BY <1>1, WrittenIsWanted DEF DataKept
  <2>10. ReadyMeansWritten'
    BY <2>1, <2>3, <2>8, <2>9 DEF ReadyMeansWritten
  <2> QED
    BY <1>2, <2>2, <2>7, <2>10 DEF WrittenInv
<1>12. ASSUME NEW u \in Users, Bind(u) PROVE WrittenInv'
  <2>1. Writing' = Writing
    BY <1>4, <1>12 DEF Bind, Places, Permission
  <2>2. setState' = setState /\ UNCHANGED dataVars /\ UNCHANGED setVars
    BY <1>12 DEF Bind
  <2> QED
    BY <1>1, <1>2, <2>1, <2>2, SameFront, DataUnchanged DEF WrittenInv
<1>13. CASE UNCHANGED vars
  <2>1. Writing' = Writing /\ setState' = setState /\ UNCHANGED dataVars /\ UNCHANGED setVars
    BY <1>13 DEF vars, Writing
  <2> QED
    BY <1>1, <1>2, <2>1, SameFront, DataUnchanged DEF WrittenInv
<1> QED
  BY <1>3, <1>5, <1>6, <1>7, <1>8, <1>9, <1>10, <1>11, <1>12, <1>13 DEF Next

LEMMA WrittenInvariance == Spec => []WrittenInv
<1>1. WrittenInv /\ [Next]_vars => WrittenInv'
  BY NextWritten
<1> QED
  BY <1>1, InitWritten, PTL DEF Spec

\* However the threads take turns and in whatever way they set data, each
\* binding's data stay where its map entry says: one behind the other, as much as
\* its ranges hold, and the ranges hold what was asked for.
THEOREM DataStaysInPlace == Spec => []DataInPlace
<1>1. WrittenInv => DataInPlace
  <2> SUFFICES ASSUME DataFits(bindingsMap, bindingsData, wanted) PROVE DataInPlace
    BY DEF WrittenInv, DataKept
  <2>1. /\ MapTyped(bindingsMap) /\ MapInPlace(bindingsMap) /\ DataTyped(bindingsMap, bindingsData)
        /\ DOMAIN wanted = Asked(bindingsMap)
    BY DEF DataFits
  <2>2. Len(bindingsData) = CountOf(bindingsMap, DOMAIN bindingsMap)
    BY <2>1, Zenon DEF DataTyped, CountOf, CountsOf
  <2>3. ASSUME NEW b \in DOMAIN bindingsMap
        PROVE  LET m == bindingsMap[b]
               IN  /\ m.offset = CountOf(bindingsMap, {c \in DOMAIN bindingsMap : c < b})
                   /\ m.count = Cardinality(ElementsOf(m.ranges))
                   /\ \A i \in DOMAIN m.ranges : m.ranges[i][1] < m.ranges[i][2]
                   /\ \A i \in 1 .. Len(m.ranges) - 1 : m.ranges[i][2] < m.ranges[i + 1][1]
                   /\ {b} \X ElementsOf(m.ranges) = {x \in DOMAIN wanted : x[1] = b}
    <3> DEFINE m == bindingsMap[b]
    <3>1. m.offset = CountOf(bindingsMap, {c \in DOMAIN bindingsMap : c < b})
      BY <2>1, Zenon DEF MapInPlace, CountOf, CountsOf, Below
    <3>2. m.count = Cardinality(ElementsOf(m.ranges)) /\ InGaps(m.ranges)
      BY <2>1, Zenon DEF MapInPlace
    <3>3. ASSUME NEW x \in {b} \X ElementsOf(m.ranges) PROVE x \in DOMAIN wanted /\ x[1] = b
      <4>1. x = <<b, x[2]>> /\ x[2] \in ElementsOf(m.ranges)
        OBVIOUS
      <4>2. <<b, x[2]>> \in Asked(bindingsMap)
        BY <4>1, AskedIs
      <4> QED
        BY <2>1, <4>1, <4>2
    <3>4. ASSUME NEW x \in DOMAIN wanted, x[1] = b PROVE x \in {b} \X ElementsOf(m.ranges)
      <4>1. x = <<x[1], x[2]>> /\ x[2] \in ElementsOf(bindingsMap[x[1]].ranges)
        BY <2>1, AskedPairs
      <4> QED
        BY <3>4, <4>1
    <3>5. {b} \X ElementsOf(m.ranges) = {x \in DOMAIN wanted : x[1] = b}
      BY <3>3, <3>4
    <3> QED
      BY <3>1, <3>2, <3>5 DEF InGaps
  <2> QED
    BY <2>2, <2>3 DEF DataInPlace
<1> QED
  BY <1>1, WrittenInvariance, PTL

\* As long as new elements come in ascending order, the set in front has each
\* element as it was last asked for whenever the state says ready and nobody is
\* about to write: the template copies every element's own data, the update is
\* done by whoever took the dirty state, and nobody else can come between.
THEOREM ReadyIsWritten == Spec => []ReadyMeansWritten
<1>1. WrittenInv => ReadyMeansWritten
  BY DEF WrittenInv
<1> QED
  BY <1>1, WrittenInvariance, PTL

===============================================================================
