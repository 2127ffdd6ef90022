---------------------------- MODULE TaskGraphProofs ----------------------------
(***************************************************************************)
(* Proofs about TaskGraph: for any number of workers, clients and tasks    *)
(* and any dependencies between them, each handle is in one place, a       *)
(* successor outlives its predecessors, nothing starts before what it      *)
(* waits for has finished, and the counter follows the queue.              *)
(***************************************************************************)
EXTENDS TaskGraph, FiniteSetTheorems, SequenceTheorems, TLAPS

\* What a thread does when it is outside of all tasks, when it is inside of
\* one, and when the innermost it is inside of has finished.
Outside == {"top", "check", "prewait", "asleep", "drain", "exit", "client", "join", "wait"}
Inside == {"sub", "body", "adjacent", "retire"}
Ends == {"adjacent", "enqueue", "add", "notify", "retire"}

Ending(t) == calls[t] # <<>> /\ at[t] \in Ends

Running(t) == Range(calls[t])

Given(t) == IF at[t] = "enqueue" THEN batch[t].handles ELSE {}

\* The tasks that run or may be run at once.
Active == ready \cup UNION {Running(t) \cup Given(t) : t \in Threads}

\* The order in which a counts down its successors.
Order(a) == SetToSeq(Successors(a))

\* a has yet to count down b: it has not finished, or it is at it.
Owes(a, b) ==
  /\ a \in Predecessors(b)
  /\ \/ a \notin finished
     \/ \E t \in Threads :
          /\ Ending(t) /\ Top(t) = a
          /\ \E i \in 1 .. Len(Order(a)) : i >= adj[t] /\ Order(a)[i] = b

Owed(b) == {a \in Jobs : Owes(a, b)}

------------------------------------------------------------------------------
TaskRecord == [job : Jobs, latch : Int, adjacencies : Seq(Jobs), continuation : BOOLEAN]

Types ==
  /\ DOMAIN task \subseteq Jobs
  /\ task \in [DOMAIN task -> TaskRecord]
  /\ ready \subseteq Jobs
  /\ deletion \subseteq Jobs
  /\ at \in [Threads -> Outside \cup Inside \cup Ends \cup {"purge"}]
  /\ calls \in [Threads -> Seq(Jobs)]
  /\ adj \in [Threads -> Nat \ {0}]
  /\ batch \in [Threads -> [handles : SUBSET Jobs, wake : BOOLEAN, left : Int]]
  /\ kept = [t \in Threads |-> {}]
  /\ home \in [Threads -> {"drain", "client", "join"}]
  /\ launched \subseteq Jobs
  /\ finished \subseteq Jobs

ControlOf(t) ==
  /\ at[t] \in Outside => calls[t] = <<>>
  /\ at[t] \in Inside => calls[t] # <<>>
  /\ ~Ending(t) => adj[t] = 1
  /\ at[t] = "retire" => adj[t] > Len(Order(Top(t)))

Control == \A t \in Threads : ControlOf(t)

\* A handle is in one of the queues, with a thread, or with nobody yet.
Places ==
  /\ ready \cap deletion = {}
  /\ ready \cup deletion \subseteq DOMAIN task
  /\ \A t \in Threads :
       /\ IsInjective(calls[t])
       /\ Running(t) \cap Given(t) = {}
       /\ Running(t) \cup Given(t) \subseteq DOMAIN task \ (ready \cup deletion)
  /\ \A s, t \in Threads : s # t => (Running(s) \cup Given(s)) \cap (Running(t) \cup Given(t)) = {}

\* Where the finished tasks are.
Progress ==
  /\ ready \cap finished = {}
  /\ deletion \subseteq finished
  /\ Jobs \ DOMAIN task \subseteq finished
  /\ \A t \in Threads :
       /\ Given(t) \cap finished = {}
       /\ \A h \in Running(t) : h \in finished <=> Ending(t) /\ h = Top(t)
  /\ \A h \in finished \cap DOMAIN task :
       h \in deletion \/ \E t \in Threads : Ending(t) /\ Top(t) = h
  /\ Roots \cap (Active \cup finished) \subseteq launched

\* A latch counts the predecessors to come and the task's own run.
Latches ==
  /\ \A b \in Active \cup finished : Owed(b) = {}
  /\ \A b \in DOMAIN task :
       task[b].latch = Cardinality(Owed(b)) + (IF b \in finished THEN 0 ELSE 1)
  /\ \A a \in DOMAIN task : task[a].adjacencies = Order(a)

Inv == Types /\ Control /\ Places /\ Progress /\ Latches

------------------------------------------------------------------------------
(* The stacks of calls and the order of successors. *)

LEMMA Push ==
  ASSUME NEW s \in Seq(Jobs), NEW h \in Jobs
  PROVE  /\ <<h>> \o s \in Seq(Jobs)
         /\ <<h>> \o s # <<>>
         /\ Head(<<h>> \o s) = h
         /\ Range(<<h>> \o s) = {h} \cup Range(s)
         /\ IsInjective(s) /\ h \notin Range(s) => IsInjective(<<h>> \o s)
<1> DEFINE p == <<h>> \o s
<1>1. p \in Seq(Jobs) /\ Len(p) = Len(s) + 1 /\ p[1] = h /\ Head(p) = h /\ p # <<>>
  OBVIOUS
<1>2. \A i \in 1 .. Len(s) : p[i + 1] = s[i]
  OBVIOUS
<1>0. DOMAIN p = 1 .. Len(p) /\ DOMAIN s = 1 .. Len(s) /\ Len(s) \in Nat
  BY <1>1
<1> HIDE DEF p
<1>3. \A i \in 2 .. Len(p) : p[i] = s[i - 1]
  <2> TAKE i \in 2 .. Len(p)
  <2>1. i - 1 \in 1 .. Len(s) /\ (i - 1) + 1 = i
    BY <1>0, <1>1
  <2> QED
    BY <1>2, <2>1
<1>4. Range(p) = {h} \cup Range(s)
  <2>1. ASSUME NEW x \in Range(p) PROVE x \in {h} \cup Range(s)
    <3>1. PICK i \in 1 .. Len(p) : x = p[i]
      BY <1>0, <2>1 DEF Range
    <3>2. i = 1 \/ i - 1 \in 1 .. Len(s)
      BY <1>0, <1>1
    <3> QED
      BY <1>0, <1>1, <1>3, <3>1, <3>2 DEF Range
  <2>2. h \in Range(p)
    BY <1>0, <1>1 DEF Range
  <2>3. ASSUME NEW x \in Range(s) PROVE x \in Range(p)
    <3>1. PICK i \in 1 .. Len(s) : x = s[i]
      BY <1>0, <2>3 DEF Range
    <3>2. i + 1 \in 1 .. Len(p)
      BY <1>0, <1>1
    <3> QED
      BY <1>0, <1>2, <3>1, <3>2 DEF Range
  <2> QED
    BY <2>1, <2>2, <2>3
<1>5. ASSUME IsInjective(s), h \notin Range(s) PROVE IsInjective(p)
  <2> SUFFICES ASSUME NEW i \in 1 .. Len(p), NEW j \in 1 .. Len(p), p[i] = p[j], i # j
               PROVE  FALSE
    BY <1>0 DEF IsInjective
  <2>1. CASE i = 1
    BY <1>1, <1>3, <1>5, <1>0, <2>1 DEF Range
  <2>2. CASE j = 1
    BY <1>1, <1>3, <1>5, <1>0, <2>2 DEF Range
  <2>3. CASE i # 1 /\ j # 1
    <3>1. i - 1 \in 1 .. Len(s) /\ j - 1 \in 1 .. Len(s)
      BY <1>0, <1>1, <2>3
    <3> QED
      BY <1>0, <1>3, <1>5, <2>3, <3>1 DEF IsInjective
  <2> QED
    BY <2>1, <2>2, <2>3
<1> QED
  BY <1>1, <1>4, <1>5 DEF p

LEMMA Pop ==
  ASSUME NEW s \in Seq(Jobs), s # <<>>, IsInjective(s)
  PROVE  /\ Tail(s) \in Seq(Jobs)
         /\ Len(s) = 1 <=> Tail(s) = <<>>
         /\ Head(s) \in Jobs
         /\ Range(s) = {Head(s)} \cup Range(Tail(s))
         /\ Head(s) \notin Range(Tail(s))
         /\ IsInjective(Tail(s))
<1> DEFINE p == Tail(s)
<1>1. p \in Seq(Jobs) /\ Len(p) = Len(s) - 1 /\ Head(s) = s[1] /\ Head(s) \in Jobs
  OBVIOUS
<1>0. DOMAIN p = 1 .. Len(p) /\ DOMAIN s = 1 .. Len(s) /\ Len(s) \in Nat /\ 1 \in 1 .. Len(s)
  BY <1>1
<1>2. \A i \in 1 .. Len(p) : p[i] = s[i + 1] /\ i + 1 \in 1 .. Len(s)
  BY <1>1
<1>6. Len(s) = 1 <=> p = <<>>
  <2>1. Len(<<>>) = 0 /\ \A q \in Seq(Jobs) : q # <<>> => Len(q) # 0
    BY EmptySeq
  <2> HIDE DEF p
  <2>2. p = <<>> <=> Len(p) = 0
    BY <1>1, <2>1
  <2> QED
    BY <1>0, <1>1, <2>2
<1> HIDE DEF p
<1>3. Range(s) = {Head(s)} \cup Range(p)
  <2>1. ASSUME NEW x \in Range(s) PROVE x \in {Head(s)} \cup Range(p)
    <3>1. PICK i \in 1 .. Len(s) : x = s[i]
      BY <1>0, <2>1 DEF Range
    <3>2. CASE i = 1
      BY <1>1, <3>1, <3>2
    <3>3. CASE i # 1
      <4>1. i - 1 \in 1 .. Len(p)
        BY <1>0, <1>1, <3>3
      <4>2. p[i - 1] = s[i]
        BY <1>2, <4>1
      <4> QED
        BY <1>0, <3>1, <4>1, <4>2 DEF Range
    <3> QED
      BY <3>2, <3>3
  <2>2. Head(s) \in Range(s)
    BY <1>0, <1>1 DEF Range
  <2>3. ASSUME NEW x \in Range(p) PROVE x \in Range(s)
    BY <1>0, <1>2, <2>3 DEF Range
  <2> QED
    BY <2>1, <2>2, <2>3
<1>4. Head(s) \notin Range(p)
  BY <1>0, <1>1, <1>2 DEF Range, IsInjective
<1>5. IsInjective(p)
  <2> SUFFICES ASSUME NEW i \in 1 .. Len(p), NEW j \in 1 .. Len(p), p[i] = p[j] PROVE i = j
    BY <1>0 DEF IsInjective
  <2>1. s[i + 1] = s[j + 1] /\ i + 1 \in DOMAIN s /\ j + 1 \in DOMAIN s
    BY <1>0, <1>2
  <2>2. i + 1 = j + 1
    BY <2>1 DEF IsInjective
  <2> QED
    BY <2>2, <1>0
<1> QED
  BY <1>1, <1>3, <1>4, <1>5, <1>6 DEF p

LEMMA JobsFinite == IsFiniteSet(Jobs)
BY PoolSizeAssumption, FS_Interval DEF Jobs, Handles

LEMMA OrderOfSuccessors ==
  \A a \in Jobs :
    /\ Order(a) \in Seq(Jobs)
    /\ \A i \in 1 .. Len(Order(a)) : Order(a)[i] \in Successors(a)
    /\ \A b \in Successors(a) : \E i \in 1 .. Len(Order(a)) : Order(a)[i] = b
    /\ \A i, j \in 1 .. Len(Order(a)) : Order(a)[i] = Order(a)[j] => i = j
<1> SUFFICES ASSUME NEW a \in Jobs
    PROVE  /\ Order(a) \in Seq(Jobs)
           /\ \A i \in 1 .. Len(Order(a)) : Order(a)[i] \in Successors(a)
           /\ \A b \in Successors(a) : \E i \in 1 .. Len(Order(a)) : Order(a)[i] = b
           /\ \A i, j \in 1 .. Len(Order(a)) : Order(a)[i] = Order(a)[j] => i = j
  OBVIOUS
<1> DEFINE S == Successors(a)
           n == Cardinality(S)
<1>1. S \subseteq Jobs /\ IsFiniteSet(S)
  BY JobsFinite, FS_Subset DEF Successors
<1>2. n \in Nat /\ ExistsBijection(1 .. n, S)
  BY <1>1, FS_CardinalityType
<1>3. PICK f : f \in Bijection(1 .. n, S)
  BY <1>2 DEF ExistsBijection
<1>4. f \in [1 .. n -> S] /\ IsInjective(f)
  BY <1>3 DEF Bijection, Injection
<1>5. Order(a) \in [1 .. n -> S] /\ IsInjective(Order(a))
  BY <1>4 DEF Order, SetToSeq
<1>6. Order(a) \in Surjection(1 .. n, S)
  <2>1. Order(a) \in Injection(1 .. n, S)
    BY <1>5 DEF Injection
  <2>2. Cardinality(1 .. n) = n
    BY <1>2, FS_Interval
  <2> QED
    BY <1>1, <2>1, <2>2, FS_Injection
<1>7. \A b \in S : \E i \in 1 .. n : Order(a)[i] = b
  BY <1>6 DEF Surjection
<1>8. Order(a) \in Seq(Jobs) /\ Len(Order(a)) = n
  BY <1>1, <1>2, <1>5
<1> QED
  BY <1>5, <1>7, <1>8 DEF IsInjective

------------------------------------------------------------------------------
LEMMA OwedFinite ==
  \A b : IsFiniteSet(Owed(b)) /\ Cardinality(Owed(b)) \in Nat
BY JobsFinite, FS_Subset, FS_CardinalityType DEF Owed

\* What is owed changes only with what has finished and where it is at.
LEMMA OwedSame ==
  ASSUME finished' = finished,
         \A t \in Threads :
           /\ Ending(t)' <=> Ending(t)
           /\ Ending(t) => Top(t)' = Top(t) /\ adj'[t] = adj[t]
  PROVE  \A b : Owed(b)' = Owed(b)
BY DEF Owed, Owes

\* A step that moves no handle and ends no task keeps all but Control.
LEMMA Quiet ==
  ASSUME Types, Places, Progress, Latches,
         UNCHANGED <<task, ready, deletion, calls, adj, kept, launched, finished>>,
         \A t \in Threads : Given(t)' = Given(t) /\ (Ending(t)' <=> Ending(t))
  PROVE  Places' /\ Progress' /\ Latches'
<1>1. \A b : Owed(b)' = Owed(b)
  BY OwedSame DEF Top
<1>2. Active' = Active
  BY DEF Active, Running
<1>3. Places'
  BY DEF Places, Running
<1>4. Progress'
  BY <1>2 DEF Progress, Running, Top
<1>5. Latches'
  BY <1>1, <1>2 DEF Latches
<1> QED
  BY <1>3, <1>4, <1>5

LEMMA InitInv == Init => Inv
<1> SUFFICES ASSUME Init PROVE Inv
  OBVIOUS
<1> USE DEF Init, InitPool, InitThreads
<1>1. \A t \in Threads : calls[t] = <<>> /\ at[t] \in {"top", "client"} /\ adj[t] = 1
  OBVIOUS
<1>2. \A t \in Threads : ~Ending(t) /\ Running(t) = {} /\ Given(t) = {}
  BY <1>1 DEF Ending, Running, Given, Range
<1>3. \A b \in Jobs : Owed(b) = Predecessors(b)
  BY <1>2 DEF Owed, Owes, Predecessors
<1>4. Types
  <2>1. task \in [DOMAIN task -> TaskRecord]
    <3>1. \A j \in Jobs : Cardinality(Predecessors(j)) \in Nat
      BY JobsFinite, FS_Subset, FS_CardinalityType DEF Predecessors
    <3>2. \A j \in Jobs : SetToSeq(Successors(j)) \in Seq(Jobs)
      BY OrderOfSuccessors DEF Order
    <3> QED
      BY <3>1, <3>2 DEF TaskRecord
  <2>2. batch \in [Threads -> [handles : SUBSET Jobs, wake : BOOLEAN, left : Int]]
    BY DEF NoBatch
  <2> QED
    BY <2>1, <2>2 DEF Types, Outside, Threads
<1>5. Control
  BY <1>1 DEF Control, ControlOf, Outside, Inside
<1>6. Places
  BY <1>1, <1>2 DEF Places, IsInjective
<1>7. Progress
  BY <1>2 DEF Progress, Active
<1>8. Latches
  <2>1. \A b \in Jobs : /\ Cardinality(Predecessors(b)) \in Nat
                        /\ task[b].latch = 1 + Cardinality(Predecessors(b))
                        /\ task[b].adjacencies = Order(b)
    BY JobsFinite, FS_Subset, FS_CardinalityType DEF Predecessors, Order
  <2>2. Active \cup finished = {} /\ DOMAIN task = Jobs
    BY <1>2 DEF Active
  <2>3. \A b \in Jobs : Cardinality(Owed(b)) = Cardinality(Predecessors(b))
    BY <1>3
  <2>4. \A b \in Jobs : task[b].latch = Cardinality(Owed(b)) + 1 /\ b \notin finished
    BY <2>1, <2>3
  <2> QED
    BY <2>1, <2>2, <2>4 DEF Latches
<1> QED
  BY <1>4, <1>5, <1>6, <1>7, <1>8 DEF Inv

------------------------------------------------------------------------------
Steps == Outside \cup Inside \cup Ends \cup {"purge"}

Batches == [handles : SUBSET Jobs, wake : BOOLEAN, left : Int]

\* A thread goes on to another step that is as far inside its task as the one
\* before; others may be woken.
LEMMA Goes ==
  ASSUME Inv, NEW t \in Threads,
         UNCHANGED <<task, ready, deletion, calls, adj, kept, launched, finished>>,
         at' \in [Threads -> Steps],
         batch' \in [Threads -> Batches],
         home' \in [Threads -> {"drain", "client", "join"}],
         \A s \in Threads \ {t} :
           /\ batch'[s] = batch[s]
           /\ at'[s] = at[s] \/ (at[s] = "asleep" /\ at'[s] = "check"),
         at[t] # "enqueue", at'[t] # "enqueue",
         calls[t] # <<>> => (at[t] \in Ends <=> at'[t] \in Ends),
         at'[t] \in Outside => calls[t] = <<>>,
         at'[t] \in Inside => calls[t] # <<>>,
         at'[t] = "retire" => adj[t] > Len(Order(Top(t)))
  PROVE  Inv'
<1>1. \A s \in Threads : (Ending(s)' <=> Ending(s))
  BY DEF Ending, Ends
<1>2. \A s \in Threads : Given(s)' = Given(s)
  BY DEF Given
<1>3. Places' /\ Progress' /\ Latches'
  BY <1>1, <1>2, Quiet DEF Inv
<1>4. Types'
  BY DEF Inv, Types, Steps, Batches
<1>5. ASSUME NEW s \in Threads PROVE ControlOf(s)'
  <2>1. CASE s = t
    BY <2>1, <1>1 DEF Inv, Control, ControlOf, Top
  <2>2. CASE s # t
    BY <2>2, <1>1 DEF Inv, Control, ControlOf, Outside, Inside, Top
  <2> QED
    BY <2>1, <2>2
<1> QED
  BY <1>3, <1>4, <1>5 DEF Inv, Control

\* The steps of Submit: the handles pass from the thread to the queue, the rest
\* moves nothing.
LEMMA EnqueueInv ==
  ASSUME Inv, NEW t \in Threads, Enqueue(t), UNCHANGED <<launched, finished>>
  PROVE  Inv'
<1> USE DEF Inv
<1>1. /\ at[t] = "enqueue"
      /\ at' = [at EXCEPT ![t] = "add"]
      /\ ready' = ready \cup batch[t].handles
      /\ UNCHANGED <<task, deletion, calls, adj, batch, kept, home>>
  BY DEF Enqueue, Goto
<1>2. Given(t) = batch[t].handles /\ Given(t)' = {}
  BY <1>1 DEF Given, Types
<1>3. \A s \in Threads : s # t => Given(s)' = Given(s)
  BY <1>1 DEF Given, Types
<1>4. \A s \in Threads : Running(s)' = Running(s) /\ (Ending(s)' <=> Ending(s))
  BY <1>1 DEF Running, Ending, Ends, Types
<1>5. \A b : Owed(b)' = Owed(b)
  BY <1>1, <1>4, OwedSame DEF Top
<1>6. Active' = Active
  BY <1>1, <1>2, <1>3, <1>4 DEF Active
<1>7. Types'
  <2>1. batch[t].handles \subseteq Jobs
    BY DEF Types
  <2>2. at' \in [Threads -> Outside \cup Inside \cup Ends \cup {"purge"}]
    BY <1>1 DEF Types, Ends
  <2> QED
    BY <1>1, <2>1, <2>2 DEF Types
<1>8. Control'
  <2>1. ASSUME NEW s \in Threads PROVE ControlOf(s)'
    <3>1. s # t => at'[s] = at[s]
      BY <1>1 DEF Types
    <3>2. at'[t] = "add"
      BY <1>1 DEF Types
    <3> QED
      BY <1>1, <1>4, <3>1, <3>2 DEF Control, ControlOf, Outside, Inside, Top
  <2> QED
    BY <2>1 DEF Control
<1>9. Places'
  <2>1. ready' \cap deletion' = {} /\ ready' \cup deletion' \subseteq DOMAIN task'
    BY <1>1, <1>2 DEF Places
  <2>2. ASSUME NEW s \in Threads
        PROVE  /\ IsInjective(calls'[s])
               /\ Running(s)' \cap Given(s)' = {}
               /\ Running(s)' \cup Given(s)' \subseteq DOMAIN task' \ (ready' \cup deletion')
    BY <1>1, <1>2, <1>3, <1>4 DEF Places
  <2>3. ASSUME NEW r \in Threads, NEW s \in Threads, r # s
        PROVE  (Running(r)' \cup Given(r)') \cap (Running(s)' \cup Given(s)') = {}
    BY <1>2, <1>3, <1>4, <2>3 DEF Places
  <2> QED
    BY <2>1, <2>2, <2>3 DEF Places
<1>10. Progress'
  BY <1>1, <1>2, <1>3, <1>4, <1>6 DEF Progress, Top
<1>11. Latches'
  BY <1>1, <1>5, <1>6 DEF Latches
<1> QED
  BY <1>7, <1>8, <1>9, <1>10, <1>11

LEMMA AddSizeInv ==
  ASSUME Inv, NEW t \in Threads, AddSize(t), UNCHANGED <<launched, finished>>
  PROVE  Inv'
<1>1. /\ at[t] = "add"
      /\ at' = [at EXCEPT ![t] = IF batch[t].wake THEN "notify" ELSE AfterSubmit(t)]
      /\ batch' = batch \/ batch' = [batch EXCEPT ![t] = NoBatch]
      /\ UNCHANGED <<task, ready, deletion, calls, adj, kept, home>>
  BY DEF AddSize, Goto, EndSubmit
<1>2. at'[t] \in {"notify", AfterSubmit(t)} /\ \A s \in Threads \ {t} : at'[s] = at[s]
  BY <1>1 DEF Inv, Types
<1>3. at' \in [Threads -> Steps]
  BY <1>1 DEF Inv, Types, Steps, Outside, Inside, Ends, AfterSubmit
<1>4. batch' \in [Threads -> Batches] /\ \A s \in Threads \ {t} : batch'[s] = batch[s]
  <2>1. batch \in [Threads -> Batches] /\ NoBatch \in Batches
    BY DEF Inv, Types, Batches, NoBatch
  <2> QED
    BY <1>1, <2>1
<1>5. home' \in [Threads -> {"drain", "client", "join"}]
  BY <1>1 DEF Inv, Types
<1> QED
  BY <1>1, <1>2, <1>3, <1>4, <1>5, Goes DEF AfterSubmit, Outside, Inside, Ends

LEMMA NotifyInv ==
  ASSUME Inv, NEW t \in Threads, Notify(t), UNCHANGED <<launched, finished>>
  PROVE  Inv'
<1>1. PICK woken \in SUBSET Asleep, step \in {"notify", AfterSubmit(t)} :
        at' = [s \in Threads |-> IF s = t THEN step ELSE IF s \in woken THEN "check" ELSE at[s]]
  BY DEF Notify, Wake
<1>2. /\ at[t] = "notify"
      /\ \/ batch' = [batch EXCEPT ![t] = NoBatch]
         \/ batch' = [batch EXCEPT ![t].left = @ - 1]
      /\ UNCHANGED <<task, ready, deletion, calls, adj, kept, home>>
  BY DEF Notify, EndSubmit, poolVars
<1>3. at'[t] \in {"notify", AfterSubmit(t)}
  BY <1>1
<1>4. \A s \in Threads \ {t} : at'[s] = at[s] \/ (at[s] = "asleep" /\ at'[s] = "check")
  BY <1>1 DEF Asleep
<1>5. at' \in [Threads -> Steps]
  BY <1>1 DEF Inv, Types, Steps, Outside, Inside, Ends, AfterSubmit
<1>6. batch' \in [Threads -> Batches] /\ \A s \in Threads \ {t} : batch'[s] = batch[s]
  <2>1. batch \in [Threads -> Batches]
    BY DEF Inv, Types, Batches
  <2>2. CASE batch' = [batch EXCEPT ![t] = NoBatch]
    BY <2>1, <2>2 DEF Batches, NoBatch
  <2>3. CASE batch' = [batch EXCEPT ![t].left = @ - 1]
    BY <2>1, <2>3 DEF Batches
  <2> QED
    BY <1>2, <2>2, <2>3
<1>7. home' \in [Threads -> {"drain", "client", "join"}]
  BY <1>2 DEF Inv, Types
<1> QED
  BY <1>2, <1>3, <1>4, <1>5, <1>6, <1>7, Goes DEF AfterSubmit, Outside, Inside, Ends

LEMMA SubSizeInv ==
  ASSUME Inv, NEW t \in Threads, SubSize(t), UNCHANGED <<launched, finished>>
  PROVE  Inv'
<1>1. /\ at[t] = "sub"
      /\ at' = [at EXCEPT ![t] = "body"]
      /\ UNCHANGED <<task, ready, deletion, calls, adj, batch, kept, home>>
  BY DEF SubSize, Goto
<1>2. at' \in [Threads -> Steps] /\ at'[t] = "body" /\ \A s \in Threads \ {t} : at'[s] = at[s]
  BY <1>1 DEF Inv, Types, Steps, Inside
<1>3. calls[t] # <<>>
  BY <1>1 DEF Inv, Control, ControlOf, Inside
<1>4. batch' \in [Threads -> Batches] /\ home' \in [Threads -> {"drain", "client", "join"}]
  BY <1>1 DEF Inv, Types, Batches
<1> QED
  BY <1>1, <1>2, <1>3, <1>4, Goes DEF Outside, Inside, Ends

LEMMA AdjacentDoneInv ==
  ASSUME Inv, NEW t \in Threads, AdjacentDone(t), UNCHANGED <<launched, finished>>
  PROVE  Inv'
<1>1. /\ at[t] = "adjacent"
      /\ adj[t] > Len(task[Top(t)].adjacencies)
      /\ at' = [at EXCEPT ![t] = "retire"]
      /\ UNCHANGED <<task, ready, deletion, calls, adj, batch, kept, home>>
  BY DEF AdjacentDone, Goto, poolVars
<1>2. at' \in [Threads -> Steps] /\ at'[t] = "retire" /\ \A s \in Threads \ {t} : at'[s] = at[s]
  BY <1>1 DEF Inv, Types, Steps, Inside
<1>3. calls[t] # <<>>
  BY <1>1 DEF Inv, Control, ControlOf, Inside
<1>4. Top(t) \in DOMAIN task
  BY <1>3, Pop DEF Inv, Types, Places, Running, Top
<1>5. adj[t] > Len(Order(Top(t)))
  BY <1>1, <1>4 DEF Inv, Latches
<1>6. batch' \in [Threads -> Batches] /\ home' \in [Threads -> {"drain", "client", "join"}]
  BY <1>1 DEF Inv, Types, Batches
<1> QED
  BY <1>1, <1>2, <1>3, <1>5, <1>6, Goes DEF Outside, Inside, Ends

\* The purge destroys what has finished and owes nothing, and keeps nothing.
LEMMA PurgeOneInv ==
  ASSUME Inv, NEW t \in Threads, PurgeOne(t), UNCHANGED <<launched, finished>>
  PROVE  Inv'
<1> USE DEF Inv
<1>1. PICK h \in deletion :
        /\ deletion' = deletion \ {h}
        /\ IF task[h].latch = 0
           THEN task' = Destroyed(task, h) /\ UNCHANGED kept
           ELSE kept' = [kept EXCEPT ![t] = @ \cup {h}] /\ UNCHANGED task
  BY DEF PurgeOne
<1>2. UNCHANGED <<ready, at, calls, adj, batch, home>>
  BY DEF PurgeOne
<1>3. h \in DOMAIN task /\ h \in finished /\ h \notin ready
  BY DEF Places, Progress
<1>4. task[h].latch = 0
  <2>1. Owed(h) = {}
    BY <1>3 DEF Latches
  <2>2. Cardinality(Owed(h)) = 0
    BY <2>1, FS_EmptySet
  <2> QED
    BY <1>3, <2>2 DEF Latches
<1>5. task' = [x \in DOMAIN task \ {h} |-> task[x]] /\ UNCHANGED kept
  BY <1>1, <1>4 DEF Destroyed
<1>6. /\ DOMAIN task' = DOMAIN task \ {h}
      /\ \A x \in DOMAIN task' : task'[x] = task[x]
  BY <1>5
<1>7. \A s \in Threads : /\ Running(s)' = Running(s) /\ Given(s)' = Given(s)
                         /\ (Ending(s)' <=> Ending(s)) /\ Top(s)' = Top(s)
  BY <1>2 DEF Running, Given, Ending, Top
<1>8. \A b : Owed(b)' = Owed(b)
  BY <1>2, <1>7, OwedSame
<1>9. Active' = Active
  BY <1>2, <1>7 DEF Active
<1>10. Types'
  BY <1>1, <1>2, <1>5 DEF Types
<1>11. Control'
  BY <1>2, <1>7 DEF Control, ControlOf
<1>12. Places'
  BY <1>1, <1>2, <1>3, <1>6, <1>7 DEF Places
<1>13. Progress'
  BY <1>1, <1>2, <1>3, <1>6, <1>7, <1>9 DEF Progress
<1>14. Latches'
  BY <1>6, <1>8, <1>9 DEF Latches
<1> QED
  BY <1>10, <1>11, <1>12, <1>13, <1>14

LEMMA PurgeDoneInv ==
  ASSUME Inv, NEW t \in Threads, PurgeDone(t), UNCHANGED <<launched, finished>>
  PROVE  Inv'
<1>1. /\ at[t] = "purge"
      /\ at' = [at EXCEPT ![t] = IF calls[t] = <<>> THEN home[t] ELSE "body"]
      /\ deletion = {} /\ deletion' = kept[t]
      /\ kept' = [kept EXCEPT ![t] = {}]
      /\ UNCHANGED <<task, ready, calls, adj, batch, home>>
  BY DEF PurgeDone, Goto
<1>2. UNCHANGED <<deletion, kept>>
  BY <1>1 DEF Inv, Types
<1>3. home[t] \in {"drain", "client", "join"}
  BY DEF Inv, Types
<1>4. /\ at' \in [Threads -> Steps]
      /\ at'[t] = (IF calls[t] = <<>> THEN home[t] ELSE "body")
      /\ \A s \in Threads \ {t} : at'[s] = at[s]
  BY <1>1, <1>3 DEF Inv, Types, Steps, Inside, Outside
<1>5. batch' \in [Threads -> Batches] /\ home' \in [Threads -> {"drain", "client", "join"}]
  BY <1>1 DEF Inv, Types, Batches
<1> QED
  BY <1>1, <1>2, <1>3, <1>4, <1>5, Goes DEF Outside, Inside, Ends

\* A handle passes from the ready queue to a thread that is outside of all tasks
\* or in a body.
LEMMA TakeInv ==
  ASSUME Inv, NEW t \in Threads, NEW h, Take(t, h), UNCHANGED <<launched, finished>>,
         at[t] \in {"drain", "join", "body"}
  PROVE  Inv'
<1> USE DEF Inv
<1>1. /\ h \in ready
      /\ ready' = ready \ {h}
      /\ calls' = [calls EXCEPT ![t] = <<h>> \o @]
      /\ at' = [at EXCEPT ![t] = "sub"]
      /\ UNCHANGED <<task, deletion, adj, batch, kept, home>>
  BY DEF Take, Goto
<1>2. h \in Jobs /\ h \in DOMAIN task /\ h \notin finished /\ h \notin deletion
  BY <1>1 DEF Types, Places, Progress
<1>3. calls[t] \in Seq(Jobs) /\ IsInjective(calls[t]) /\ h \notin Running(t)
  BY <1>1 DEF Types, Places
<1>4. /\ calls'[t] = <<h>> \o calls[t]
      /\ at'[t] = "sub"
      /\ \A s \in Threads : s # t => calls'[s] = calls[s] /\ at'[s] = at[s]
  BY <1>1 DEF Types
<1>5. /\ calls'[t] \in Seq(Jobs) /\ calls'[t] # <<>> /\ IsInjective(calls'[t])
      /\ Running(t)' = {h} \cup Running(t)
  BY <1>2, <1>3, <1>4, Push DEF Running
<1>6. \A s \in Threads : s # t => Running(s)' = Running(s) /\ Top(s)' = Top(s)
  BY <1>4 DEF Running, Top
<1>7. \A s \in Threads : Given(s)' = Given(s)
  BY <1>1, <1>4 DEF Given
<1>8. \A s \in Threads : Ending(s)' <=> Ending(s)
  BY <1>4 DEF Ending, Ends
<1>9. ~Ending(t) /\ ~Ending(t)'
  BY <1>4 DEF Ending, Ends
<1>10. \A b : Owed(b)' = Owed(b)
  BY <1>1, <1>6, <1>8, <1>9, OwedSame
<1>11. Active' = Active
  BY <1>1, <1>5, <1>6, <1>7 DEF Active
<1>12. Types'
  <2>1. calls' \in [Threads -> Seq(Jobs)]
    BY <1>1, <1>5, <1>4 DEF Types
  <2>2. at' \in [Threads -> Outside \cup Inside \cup Ends \cup {"purge"}]
    BY <1>1 DEF Types, Inside
  <2> QED
    BY <1>1, <2>1, <2>2 DEF Types
<1>13. Control'
  <2>1. ASSUME NEW s \in Threads PROVE ControlOf(s)'
    <3>1. CASE s = t
      BY <1>1, <1>4, <1>5, <1>9, <3>1 DEF Control, ControlOf, Outside
    <3>2. CASE s # t
      BY <1>1, <1>4, <1>6, <1>8, <3>2 DEF Control, ControlOf
    <3> QED
      BY <3>1, <3>2
  <2> QED
    BY <2>1 DEF Control
<1>14. Places'
  <2>1. ready' \cap deletion' = {} /\ ready' \cup deletion' \subseteq DOMAIN task'
    BY <1>1 DEF Places
  <2>2. ASSUME NEW s \in Threads
        PROVE  /\ IsInjective(calls'[s])
               /\ Running(s)' \cap Given(s)' = {}
               /\ Running(s)' \cup Given(s)' \subseteq DOMAIN task' \ (ready' \cup deletion')
    BY <1>1, <1>2, <1>4, <1>5, <1>6, <1>7 DEF Places
  <2>3. ASSUME NEW r \in Threads, NEW s \in Threads, r # s
        PROVE  (Running(r)' \cup Given(r)') \cap (Running(s)' \cup Given(s)') = {}
    BY <1>1, <1>5, <1>6, <1>7, <2>3 DEF Places
  <2> QED
    BY <2>1, <2>2, <2>3 DEF Places
<1>15. Progress'
  BY <1>1, <1>2, <1>5, <1>6, <1>7, <1>8, <1>9, <1>11 DEF Progress
<1>16. Latches'
  BY <1>1, <1>10, <1>11 DEF Latches
<1> QED
  BY <1>12, <1>13, <1>14, <1>15, <1>16

------------------------------------------------------------------------------
\* A thread inside of a task is in one that is constructed, and that no other
\* thread is inside of.
LEMMA TopAlone ==
  ASSUME Inv, NEW t \in Threads, calls[t] # <<>>
  PROVE  /\ Top(t) \in Jobs /\ Top(t) \in DOMAIN task /\ Top(t) \in Running(t)
         /\ Top(t) \notin ready /\ Top(t) \notin deletion
         /\ Owed(Top(t)) = {}
         /\ \A s \in Threads : s # t => Top(t) \notin Running(s)
         /\ \A s \in Threads : s # t /\ calls[s] # <<>> => Top(s) # Top(t)
<1>1. \A s \in Threads : calls[s] # <<>> => Top(s) \in Running(s) /\ Top(s) \in Jobs
  BY Pop DEF Inv, Types, Places, Running, Top
<1>2. Top(t) \in Active
  BY <1>1 DEF Active
<1> QED
  BY <1>1, <1>2 DEF Inv, Places, Latches

\* A body that ends leaves all its successors to be counted down.
LEMMA FinishInv ==
  ASSUME Inv, NEW t \in Threads, at[t] = "body", Finish(t),
         finished' = finished \cup {Top(t)}, UNCHANGED launched
  PROVE  Inv'
<1> USE DEF Inv
<1> DEFINE a == Top(t)
<1>1. /\ task' = [task EXCEPT ![a].latch = @ - 1]
      /\ at' = [at EXCEPT ![t] = "adjacent"]
      /\ UNCHANGED <<ready, deletion, calls, adj, batch, kept, home>>
  BY DEF Finish, Goto
<1>2. calls[t] # <<>> /\ ~Ending(t) /\ adj[t] = 1
  BY DEF Control, ControlOf, Inside, Ending, Ends
<1>3. /\ a \in Jobs /\ a \in DOMAIN task /\ a \in Running(t)
      /\ a \notin ready /\ a \notin deletion /\ Owed(a) = {}
      /\ \A s \in Threads : s # t => a \notin Running(s)
  BY <1>2, TopAlone
<1>4. a \notin finished
  BY <1>2, <1>3 DEF Progress
<1>5. /\ at'[t] = "adjacent"
      /\ \A s \in Threads : s # t => at'[s] = at[s]
      /\ at' \in [Threads -> Outside \cup Inside \cup Ends \cup {"purge"}]
  BY <1>1 DEF Types, Inside
<1>6. \A s \in Threads : /\ Running(s)' = Running(s) /\ Given(s)' = Given(s) /\ Top(s)' = Top(s)
                         /\ s # t => (Ending(s)' <=> Ending(s))
  BY <1>1, <1>5 DEF Running, Given, Top, Ending
<1>7. Ending(t)'
  BY <1>1, <1>2, <1>5 DEF Ending, Ends
<1>8. /\ DOMAIN task' = DOMAIN task
      /\ \A h \in DOMAIN task : h # a => task'[h] = task[h]
      /\ task'[a].latch = task[a].latch - 1
      /\ task'[a].adjacencies = task[a].adjacencies
  BY <1>1, <1>3 DEF Types, TaskRecord
<1> HIDE DEF a
<1>9. \A b : Owed(b)' = Owed(b)
  <2>1. ASSUME NEW x \in Jobs, NEW b PROVE Owes(x, b)' <=> Owes(x, b)
    <3>1. CASE x = a
      <4>1. Owes(x, b) <=> x \in Predecessors(b)
        BY <1>4, <3>1 DEF Owes
      <4>2. x \in Predecessors(b) => b \in Successors(x)
        BY BeforeAssumption DEF Predecessors, Successors
      <4>3. x \in Predecessors(b) => \E i \in 1 .. Len(Order(x)) : i >= 1 /\ Order(x)[i] = b
        BY <4>2, OrderOfSuccessors
      <4>4. Top(t)' = x /\ adj'[t] = 1
        BY <1>1, <1>2, <1>6, <3>1 DEF a
      <4>5. Owes(x, b)' <=> x \in Predecessors(b)
        BY <1>7, <4>3, <4>4 DEF Owes
      <4> QED
        BY <4>1, <4>5
    <3>2. CASE x # a
      <4>1. x \notin finished' <=> x \notin finished
        BY <3>2 DEF a
      <4>2. \A s \in Threads : Ending(s)' /\ Top(s)' = x <=> Ending(s) /\ Top(s) = x
        BY <1>2, <1>6, <3>2 DEF a
      <4>3. adj' = adj
        BY <1>1
      <4> QED
        BY <4>1, <4>2, <4>3 DEF Owes
    <3> QED
      BY <3>1, <3>2
  <2> QED
    BY <2>1 DEF Owed
<1>10. Active' = Active
  BY <1>1, <1>6 DEF Active
<1>11. Types'
  <2>1. task' \in [DOMAIN task' -> TaskRecord]
    <3>1. task[a] \in TaskRecord /\ task' = [task EXCEPT ![a] = [task[a] EXCEPT !.latch = @ - 1]]
      BY <1>1, <1>3 DEF Types, a
    <3>2. [task[a] EXCEPT !.latch = @ - 1] \in TaskRecord
      BY <3>1 DEF TaskRecord
    <3> QED
      BY <1>3, <1>8, <3>1, <3>2 DEF Types
  <2> QED
    BY <1>1, <1>3, <1>5, <1>8, <2>1 DEF Types, a
<1>12. Control'
  <2>1. ASSUME NEW s \in Threads PROVE ControlOf(s)'
    <3>1. CASE s = t
      BY <1>1, <1>2, <1>5, <1>7, <3>1 DEF ControlOf, Outside
    <3>2. CASE s # t
      BY <1>1, <1>5, <1>6, <3>2 DEF Control, ControlOf
    <3> QED
      BY <3>1, <3>2
  <2> QED
    BY <2>1 DEF Control
<1>13. Places'
  BY <1>1, <1>6, <1>8 DEF Places
<1>14. Progress'
  <2>1. finished' = finished \cup {a}
    BY DEF a
  <2>2. \A s \in Threads : a \notin Given(s)
    BY <1>3 DEF Places
  <2>3. ASSUME NEW s \in Threads, NEW h \in Running(s)
        PROVE  h \in finished' <=> Ending(s)' /\ h = Top(s)'
    BY <1>2, <1>3, <1>6, <1>7, <2>1 DEF Progress, a
  <2>4. ASSUME NEW h \in finished' \cap DOMAIN task'
        PROVE  h \in deletion' \/ \E s \in Threads : Ending(s)' /\ Top(s)' = h
    <3>1. CASE h = a
      BY <1>6, <1>7, <3>1 DEF a
    <3>2. CASE h # a
      BY <1>1, <1>2, <1>6, <1>8, <2>1, <3>2 DEF Progress
    <3> QED
      BY <3>1, <3>2
  <2>5. Roots \cap (Active' \cup finished') \subseteq launched'
    <3>1. a \in Active
      BY <1>3 DEF Active
    <3> QED
      BY <1>10, <2>1, <3>1 DEF Progress
  <2>6. ready' \cap finished' = {} /\ deletion' \subseteq finished' /\ Jobs \ DOMAIN task' \subseteq finished'
    BY <1>1, <1>3, <1>8, <2>1 DEF Progress
  <2>7. \A s \in Threads : Given(s)' \cap finished' = {}
    BY <1>6, <2>1, <2>2 DEF Progress
  <2> QED
    BY <1>6, <2>3, <2>4, <2>5, <2>6, <2>7 DEF Progress
<1>15. Latches'
  <2>1. finished' = finished \cup {a} /\ a \in Active
    BY <1>3 DEF Active, a
  <2>2. \A b \in Active' \cup finished' : Owed(b)' = {}
    BY <1>9, <1>10, <2>1 DEF Latches
  <2>3. ASSUME NEW b \in DOMAIN task'
        PROVE  /\ task'[b].latch = Cardinality(Owed(b)') + (IF b \in finished' THEN 0 ELSE 1)
               /\ task'[b].adjacencies = Order(b)
    <3>1. Cardinality(Owed(b)') = Cardinality(Owed(b)) /\ Cardinality(Owed(b)) \in Nat
      BY <1>9, OwedFinite
    <3> QED
      BY <1>4, <1>8, <2>1, <3>1 DEF Latches
  <2> QED
    BY <2>2, <2>3 DEF Latches
<1> QED
  BY <1>11, <1>12, <1>13, <1>14, <1>15

\* Its handle goes to the deletion queue when nothing is left to count down.
LEMMA RetireInv ==
  ASSUME Inv, NEW t \in Threads, Retire(t), UNCHANGED <<launched, finished>>
  PROVE  Inv'
<1> USE DEF Inv
<1> DEFINE a == Top(t)
<1>1. /\ at[t] = "retire"
      /\ deletion' = deletion \cup {a}
      /\ calls' = [calls EXCEPT ![t] = Tail(@)]
      /\ adj' = [adj EXCEPT ![t] = 1]
      /\ at' = [at EXCEPT ![t] = IF Len(calls[t]) = 1 /\ home[t] = "client" THEN "client" ELSE "purge"]
      /\ UNCHANGED <<task, ready, batch, kept, home>>
  BY DEF Retire, Goto
<1>2. calls[t] # <<>> /\ Ending(t) /\ adj[t] > Len(Order(a))
  BY <1>1 DEF Control, ControlOf, Inside, Ending, Ends
<1>3. /\ a \in Jobs /\ a \in DOMAIN task /\ a \in Running(t)
      /\ a \notin ready /\ a \notin deletion /\ Owed(a) = {}
      /\ \A s \in Threads : s # t => a \notin Running(s)
      /\ \A s \in Threads : s # t /\ calls[s] # <<>> => Top(s) # a
  BY <1>2, TopAlone
<1>4. a \in finished
  BY <1>2, <1>3 DEF Progress
<1>5. calls[t] \in Seq(Jobs) /\ IsInjective(calls[t])
  BY DEF Types, Places
<1>6. /\ calls'[t] = Tail(calls[t]) /\ adj'[t] = 1
      /\ at'[t] \in {"client", "purge"}
      /\ at'[t] = "client" => Len(calls[t]) = 1
      /\ \A s \in Threads : s # t => at'[s] = at[s] /\ calls'[s] = calls[s] /\ adj'[s] = adj[s]
      /\ at' \in [Threads -> Outside \cup Inside \cup Ends \cup {"purge"}]
  BY <1>1 DEF Types, Outside
<1>7. /\ calls'[t] \in Seq(Jobs) /\ IsInjective(calls'[t])
      /\ Running(t) = {a} \cup Running(t)' /\ a \notin Running(t)'
      /\ at'[t] = "client" => calls'[t] = <<>>
  BY <1>2, <1>5, <1>6, Pop DEF Running, Top
<1>8. \A s \in Threads :
        /\ Given(s)' = Given(s)
        /\ s # t => Running(s)' = Running(s) /\ Top(s)' = Top(s) /\ (Ending(s)' <=> Ending(s))
  BY <1>1, <1>6 DEF Given, Running, Top, Ending
<1>9. ~Ending(t)'
  BY <1>6 DEF Ending, Ends
<1>10. \A b : Owed(b)' = Owed(b)
  <2>1. ASSUME NEW x \in Jobs, NEW b PROVE Owes(x, b)' <=> Owes(x, b)
    <3>1. CASE x = a
      <4>1. ~Owes(x, b)
        <5>1. \A s \in Threads : Ending(s) /\ Top(s) = x => s = t
          BY <1>3, <3>1 DEF Ending
        <5>2. ~\E i \in 1 .. Len(Order(x)) : i >= adj[t]
          BY <1>2, <3>1, OrderOfSuccessors DEF Types
        <5> QED
          BY <1>4, <3>1, <5>1, <5>2 DEF Owes
      <4>2. \A s \in Threads : ~(Ending(s)' /\ Top(s)' = x)
        BY <1>3, <1>8, <1>9, <3>1 DEF Ending
      <4>3. ~Owes(x, b)'
        BY <1>1, <1>4, <3>1, <4>2 DEF Owes
      <4> QED
        BY <4>1, <4>3
    <3>2. CASE x # a
      <4>1. \A s \in Threads : Ending(s)' /\ Top(s)' = x <=> Ending(s) /\ Top(s) = x
        BY <1>8, <1>9, <3>2
      <4>2. \A s \in Threads : Ending(s) /\ Top(s) = x => adj'[s] = adj[s]
        BY <1>6, <3>2
      <4> QED
        BY <4>1, <4>2 DEF Owes
    <3> QED
      BY <3>1, <3>2
  <2> QED
    BY <2>1 DEF Owed
<1> HIDE DEF a
<1>11. Active' \subseteq Active
  BY <1>1, <1>7, <1>8 DEF Active
<1>12. Types'
  <2>1. calls' \in [Threads -> Seq(Jobs)] /\ adj' \in [Threads -> Nat \ {0}]
    BY <1>1, <1>6, <1>7 DEF Types
  <2> QED
    BY <1>1, <1>3, <1>6, <2>1 DEF Types
<1>13. Control'
  <2>1. ASSUME NEW s \in Threads PROVE ControlOf(s)'
    <3>1. CASE s = t
      BY <1>6, <1>7, <1>9, <3>1 DEF ControlOf, Outside, Inside
    <3>2. CASE s # t
      BY <1>6, <1>8, <3>2 DEF Control, ControlOf
    <3> QED
      BY <3>1, <3>2
  <2> QED
    BY <2>1 DEF Control
<1>14. Places'
  <2>1. ready' \cap deletion' = {} /\ ready' \cup deletion' \subseteq DOMAIN task'
    BY <1>1, <1>3 DEF Places
  <2>2. ASSUME NEW s \in Threads
        PROVE  /\ IsInjective(calls'[s])
               /\ Running(s)' \cap Given(s)' = {}
               /\ Running(s)' \cup Given(s)' \subseteq DOMAIN task' \ (ready' \cup deletion')
    BY <1>1, <1>3, <1>6, <1>7, <1>8 DEF Places
  <2>3. ASSUME NEW r \in Threads, NEW s \in Threads, r # s
        PROVE  (Running(r)' \cup Given(r)') \cap (Running(s)' \cup Given(s)') = {}
    BY <1>7, <1>8, <2>3 DEF Places
  <2> QED
    BY <2>1, <2>2, <2>3 DEF Places
<1>15. Progress'
  <2>1. ASSUME NEW s \in Threads, NEW h \in Running(s)'
        PROVE  h \in finished' <=> Ending(s)' /\ h = Top(s)'
    <3>1. CASE s = t
      <4>1. h \in Running(t) /\ h # a
        BY <1>7, <2>1, <3>1
      <4>2. h \notin finished
        BY <4>1 DEF Progress, a
      <4> QED
        BY <1>9, <3>1, <4>2
    <3>2. CASE s # t
      BY <1>8, <2>1, <3>2 DEF Progress
    <3> QED
      BY <3>1, <3>2
  <2>2. ASSUME NEW h \in finished' \cap DOMAIN task'
        PROVE  h \in deletion' \/ \E s \in Threads : Ending(s)' /\ Top(s)' = h
    <3>1. CASE h = a
      BY <1>1, <3>1
    <3>2. CASE h # a
      BY <1>1, <1>8, <2>2, <3>2 DEF Progress, a
    <3> QED
      BY <3>1, <3>2
  <2>3. Roots \cap (Active' \cup finished') \subseteq launched'
    BY <1>11 DEF Progress
  <2> QED
    BY <1>1, <1>4, <1>8, <2>1, <2>2, <2>3 DEF Progress
<1>16. Latches'
  BY <1>1, <1>10, <1>11 DEF Latches
<1> QED
  BY <1>12, <1>13, <1>14, <1>15, <1>16

\* Counting a successor down takes one from what it is owed; the thread is given
\* it when nothing else is owed.
LEMMA ScheduleAdjacentInv ==
  ASSUME Inv, NEW t \in Threads, ScheduleAdjacent(t), UNCHANGED <<launched, finished>>
  PROVE  Inv'
<1> USE DEF Inv
<1>1. /\ at[t] = "adjacent"
      /\ adj[t] <= Len(task[Top(t)].adjacencies)
      /\ adj' = [adj EXCEPT ![t] = @ + 1]
      /\ UNCHANGED <<ready, deletion, calls, kept, home>>
  BY DEF ScheduleAdjacent
<1>2. calls[t] # <<>> /\ Ending(t)
  BY <1>1 DEF Control, ControlOf, Inside, Ending, Ends
<1>3. PICK a \in Jobs : a = Top(t)
  BY <1>2, TopAlone
<1>4. /\ a \in DOMAIN task /\ a \in Running(t) /\ Owed(a) = {}
      /\ \A s \in Threads : s # t /\ calls[s] # <<>> => Top(s) # a
  BY <1>2, <1>3, TopAlone
<1>5. a \in finished
  BY <1>2, <1>3, <1>4 DEF Progress
<1>6. task[a].adjacencies = Order(a)
  BY <1>4 DEF Latches
<1>7. PICK n \in 1 .. Len(Order(a)) : n = adj[t]
  BY <1>1, <1>3, <1>6, OrderOfSuccessors DEF Types
<1>8. PICK b \in Jobs : b = Order(a)[n]
  BY OrderOfSuccessors DEF Successors
<1>9. a \in Predecessors(b)
  BY <1>8, OrderOfSuccessors DEF Successors, Predecessors
<1>10. a \in Owed(b)
  <2>1. Owes(a, b)
    BY <1>2, <1>3, <1>7, <1>8, <1>9 DEF Owes
  <2> QED
    BY <2>1 DEF Owed
<1>11. b \notin Active /\ b \notin finished /\ b \in DOMAIN task /\ b # a
  BY <1>4, <1>10 DEF Latches, Progress
<1>12. /\ task' = [task EXCEPT ![b].latch = @ - 1]
       /\ IF task[b].latch - 1 = 1
          THEN BeginSubmit(t, {b}, ~task[b].continuation)
          ELSE UNCHANGED <<at, batch>>
  BY <1>3, <1>6, <1>7, <1>8 DEF ScheduleAdjacent
<1>13. \/ /\ task[b].latch - 1 = 1
          /\ batch' = [batch EXCEPT ![t] = [handles |-> {b}, wake |-> ~task[b].continuation,
                                            left |-> Cardinality({b})]]
          /\ at' = [at EXCEPT ![t] = "enqueue"]
       \/ UNCHANGED <<at, batch>>
  BY <1>12 DEF BeginSubmit, Goto
<1>14. /\ at'[t] \in {"adjacent", "enqueue"}
       /\ \A s \in Threads : s # t => at'[s] = at[s] /\ batch'[s] = batch[s] /\ adj'[s] = adj[s]
       /\ adj'[t] = n + 1
       /\ at' \in [Threads -> Outside \cup Inside \cup Ends \cup {"purge"}]
  BY <1>1, <1>7, <1>13 DEF Types, Ends
<1>15. batch' \in [Threads -> Batches] /\ adj' \in [Threads -> Nat \ {0}]
  <2>1. [handles |-> {b}, wake |-> ~task[b].continuation, left |-> Cardinality({b})] \in Batches
    <3>1. Cardinality({b}) = 1
      BY FS_Singleton
    <3>2. (~task[b].continuation) \in BOOLEAN
      OBVIOUS
    <3> QED
      BY <3>1, <3>2 DEF Batches
  <2>2. batch \in [Threads -> Batches]
    BY DEF Types, Batches
  <2>3. batch' \in [Threads -> Batches]
    BY <1>13, <2>1, <2>2
  <2>4. adj' \in [Threads -> Nat \ {0}]
    BY <1>1 DEF Types
  <2> QED
    BY <2>3, <2>4
<1>16. \A s \in Threads :
         /\ Running(s)' = Running(s) /\ Top(s)' = Top(s) /\ (Ending(s)' <=> Ending(s))
         /\ s # t => Given(s)' = Given(s)
  BY <1>1, <1>2, <1>14 DEF Running, Top, Ending, Given, Ends
<1>17. /\ DOMAIN task' = DOMAIN task
       /\ \A h \in DOMAIN task : h # b => task'[h] = task[h]
       /\ task'[b].latch = task[b].latch - 1
       /\ task'[b].adjacencies = task[b].adjacencies
  BY <1>11, <1>12 DEF Types, TaskRecord
<1>18. \A c : Owed(c)' = IF c = b THEN Owed(b) \ {a} ELSE Owed(c)
  <2>1. ASSUME NEW x \in Jobs, NEW c PROVE Owes(x, c)' <=> Owes(x, c) /\ ~(x = a /\ c = b)
    <3>1. CASE x = a
      <4>1. \A s \in Threads : Ending(s) /\ Top(s) = a => s = t
        BY <1>4 DEF Ending
      <4>2. Owes(a, c) <=> a \in Predecessors(c) /\ \E i \in 1 .. Len(Order(a)) : i >= n /\ Order(a)[i] = c
        BY <1>2, <1>3, <1>5, <1>7, <4>1 DEF Owes
      <4>3. Owes(a, c)' <=> a \in Predecessors(c) /\ \E i \in 1 .. Len(Order(a)) : i >= n + 1 /\ Order(a)[i] = c
        BY <1>2, <1>3, <1>5, <1>14, <1>16, <4>1 DEF Owes
      <4>4. \A i \in 1 .. Len(Order(a)) : i >= n + 1 <=> i >= n /\ i # n
        BY OrderOfSuccessors
      <4>5. \A i \in 1 .. Len(Order(a)) : Order(a)[i] = b <=> i = n
        BY <1>8, OrderOfSuccessors
      <4>6. (\E i \in 1 .. Len(Order(a)) : i >= n + 1 /\ Order(a)[i] = c)
              <=> (\E i \in 1 .. Len(Order(a)) : i >= n /\ Order(a)[i] = c) /\ c # b
        BY <1>8, <4>4, <4>5
      <4> QED
        BY <3>1, <4>2, <4>3, <4>6
    <3>2. CASE x # a
      <4>1. \A s \in Threads : Ending(s) /\ Top(s) = x => s # t
        BY <1>3, <3>2
      <4>2. \A s \in Threads : Ending(s)' /\ Top(s)' = x => s # t
        BY <1>3, <1>16, <3>2
      <4> QED
        BY <1>14, <1>16, <3>2, <4>1, <4>2 DEF Owes
    <3> QED
      BY <3>1, <3>2
  <2> QED
    BY <2>1 DEF Owed
<1>19. /\ Cardinality(Owed(b)) \in Nat
       /\ Cardinality(Owed(b)') = Cardinality(Owed(b)) - 1
       /\ task[b].latch = Cardinality(Owed(b)) + 1
  BY <1>10, <1>11, <1>18, OwedFinite, FS_RemoveElement DEF Latches
<1>20. Given(t)' = {} \/ (Given(t)' = {b} /\ Owed(b)' = {})
  <2>1. CASE UNCHANGED <<at, batch>>
    BY <1>1, <2>1 DEF Given
  <2>2. CASE /\ task[b].latch - 1 = 1
             /\ batch' = [batch EXCEPT ![t] = [handles |-> {b}, wake |-> ~task[b].continuation,
                                               left |-> Cardinality({b})]]
             /\ at' = [at EXCEPT ![t] = "enqueue"]
    <3>1. Given(t)' = {b}
      BY <2>2 DEF Given, Types
    <3>2. Cardinality(Owed(b)') = 0
      BY <1>19, <2>2
    <3>3. IsFiniteSet(Owed(b)')
      BY <1>18, OwedFinite, FS_RemoveElement
    <3> QED
      BY <3>1, <3>2, <3>3, FS_EmptySet
  <2> QED
    BY <1>13, <2>1, <2>2
<1>21. Given(t) = {}
  BY <1>1 DEF Given
<1>22. Active' = Active \cup Given(t)'
  BY <1>1, <1>16, <1>21 DEF Active
<1>23. Types'
  <2>1. task' \in [DOMAIN task' -> TaskRecord]
    <3>1. task[b] \in TaskRecord /\ task' = [task EXCEPT ![b] = [task[b] EXCEPT !.latch = @ - 1]]
      BY <1>11, <1>12 DEF Types
    <3>2. [task[b] EXCEPT !.latch = @ - 1] \in TaskRecord
      BY <3>1 DEF TaskRecord
    <3> QED
      BY <1>11, <1>17, <3>1, <3>2 DEF Types
  <2> QED
    BY <1>1, <1>14, <1>15, <1>17, <2>1 DEF Types, Batches
<1>24. Control'
  <2>1. ASSUME NEW s \in Threads PROVE ControlOf(s)'
    <3>1. CASE s = t
      BY <1>1, <1>2, <1>14, <1>16, <3>1 DEF ControlOf, Outside
    <3>2. CASE s # t
      BY <1>1, <1>14, <1>16, <3>2 DEF Control, ControlOf
    <3> QED
      BY <3>1, <3>2
  <2> QED
    BY <2>1 DEF Control
<1>25. b \notin ready /\ b \notin deletion /\ \A s \in Threads : b \notin Running(s) \cup Given(s)
  BY <1>11 DEF Active, Progress
<1>26. Places'
  <2>1. ready' \cap deletion' = {} /\ ready' \cup deletion' \subseteq DOMAIN task'
    BY <1>1, <1>17 DEF Places
  <2>2. ASSUME NEW s \in Threads
        PROVE  /\ IsInjective(calls'[s])
               /\ Running(s)' \cap Given(s)' = {}
               /\ Running(s)' \cup Given(s)' \subseteq DOMAIN task' \ (ready' \cup deletion')
    BY <1>1, <1>11, <1>16, <1>17, <1>20, <1>25 DEF Places
  <2>3. ASSUME NEW r \in Threads, NEW s \in Threads, r # s
        PROVE  (Running(r)' \cup Given(r)') \cap (Running(s)' \cup Given(s)') = {}
    BY <1>16, <1>20, <1>25, <2>3 DEF Places
  <2> QED
    BY <2>1, <2>2, <2>3 DEF Places
<1>27. Progress'
  <2>1. b \notin Roots
    BY <1>9 DEF Roots
  <2>2. \A s \in Threads : Given(s)' \cap finished' = {}
    BY <1>11, <1>16, <1>20 DEF Progress
  <2> QED
    BY <1>1, <1>16, <1>17, <1>20, <1>22, <2>1, <2>2 DEF Progress
<1>28. Latches'
  <2>1. \A c \in Active' \cup finished' : Owed(c)' = {}
    BY <1>11, <1>18, <1>20, <1>22 DEF Latches
  <2>2. ASSUME NEW c \in DOMAIN task'
        PROVE  /\ task'[c].latch = Cardinality(Owed(c)') + (IF c \in finished' THEN 0 ELSE 1)
               /\ task'[c].adjacencies = Order(c)
    <3>1. CASE c = b
      BY <1>11, <1>17, <1>19, <3>1 DEF Latches
    <3>2. CASE c # b
      BY <1>17, <1>18, <2>2, <3>2 DEF Latches
    <3> QED
      BY <3>1, <3>2
  <2> QED
    BY <2>1, <2>2 DEF Latches
<1> QED
  BY <1>23, <1>24, <1>26, <1>27, <1>28

------------------------------------------------------------------------------
(* The clients. *)

\* What no client has launched is nowhere, unfinished and waits for nothing.
LEMMA RootsWait ==
  ASSUME Inv, NEW h \in Roots \ launched
  PROVE  /\ h \in Jobs /\ h \notin Active /\ h \notin finished /\ h \notin deletion
         /\ h \in DOMAIN task /\ Owed(h) = {}
         /\ h \notin ready /\ \A s \in Threads : h \notin Running(s) \cup Given(s)
<1>1. h \in Jobs /\ h \notin Active /\ h \notin finished
  BY DEF Inv, Progress, Roots
<1>2. Owed(h) = {}
  BY DEF Roots, Owed, Owes
<1> QED
  BY <1>1, <1>2 DEF Inv, Progress, Active

LEMMA SubmitInv ==
  ASSUME Inv, NEW c \in Clients, Submit(c)
  PROVE  Inv'
<1> USE DEF Inv
<1>1. PICK handles \in SUBSET (Roots \ launched) :
        /\ BeginSubmit(c, handles, TRUE)
        /\ launched' = launched \cup handles
  BY DEF Submit
<1>2. /\ c \in Threads /\ at[c] = "client"
      /\ UNCHANGED <<task, ready, deletion, calls, adj, kept, home, finished>>
  BY DEF Submit, poolVars, Threads
<1>3. /\ batch' = [batch EXCEPT ![c] = [handles |-> handles, wake |-> TRUE,
                                        left |-> Cardinality(handles)]]
      /\ at' = [at EXCEPT ![c] = "enqueue"]
  BY <1>1 DEF BeginSubmit, Goto
<1>4. \A h \in handles :
        /\ h \in Jobs /\ h \notin Active /\ h \notin finished /\ h \notin deletion
        /\ h \in DOMAIN task /\ Owed(h) = {}
        /\ h \notin ready /\ \A s \in Threads : h \notin Running(s) \cup Given(s)
  BY <1>1, RootsWait
<1>5. calls[c] = <<>>
  BY <1>2 DEF Control, ControlOf, Outside
<1>6. /\ at'[c] = "enqueue"
      /\ \A s \in Threads : s # c => at'[s] = at[s] /\ batch'[s] = batch[s]
      /\ at' \in [Threads -> Outside \cup Inside \cup Ends \cup {"purge"}]
  BY <1>2, <1>3 DEF Types, Ends
<1>7. batch' \in [Threads -> Batches] /\ batch'[c].handles = handles
  <2>1. Cardinality(handles) \in Nat
    BY <1>4, JobsFinite, FS_Subset, FS_CardinalityType
  <2>2. [handles |-> handles, wake |-> TRUE, left |-> Cardinality(handles)] \in Batches
    BY <1>4, <2>1 DEF Batches
  <2>3. batch \in [Threads -> Batches]
    BY DEF Types, Batches
  <2> QED
    BY <1>2, <1>3, <2>2, <2>3
<1>8. \A s \in Threads :
        /\ Running(s)' = Running(s) /\ Top(s)' = Top(s) /\ (Ending(s)' <=> Ending(s))
        /\ s # c => Given(s)' = Given(s)
  BY <1>2, <1>5, <1>6 DEF Running, Top, Ending, Given
<1>9. Given(c)' = handles /\ Given(c) = {}
  BY <1>2, <1>6, <1>7 DEF Given
<1>10. \A b : Owed(b)' = Owed(b)
  BY <1>2, <1>8, OwedSame
<1>11. Active' = Active \cup handles
  BY <1>2, <1>8, <1>9 DEF Active
<1>12. Types'
  BY <1>1, <1>2, <1>4, <1>6, <1>7 DEF Types, Batches
<1>13. Control'
  <2>1. ASSUME NEW s \in Threads PROVE ControlOf(s)'
    <3>1. CASE s = c
      BY <1>2, <1>5, <1>6, <1>8, <3>1 DEF Control, ControlOf, Outside, Inside
    <3>2. CASE s # c
      BY <1>2, <1>6, <1>8, <3>2 DEF Control, ControlOf
    <3> QED
      BY <3>1, <3>2
  <2> QED
    BY <2>1 DEF Control
<1>14. Places'
  <2>1. ASSUME NEW s \in Threads
        PROVE  /\ IsInjective(calls'[s])
               /\ Running(s)' \cap Given(s)' = {}
               /\ Running(s)' \cup Given(s)' \subseteq DOMAIN task' \ (ready' \cup deletion')
    BY <1>2, <1>4, <1>8, <1>9 DEF Places
  <2>2. ASSUME NEW r \in Threads, NEW s \in Threads, r # s
        PROVE  (Running(r)' \cup Given(r)') \cap (Running(s)' \cup Given(s)') = {}
    BY <1>4, <1>8, <1>9, <2>2 DEF Places
  <2> QED
    BY <1>2, <2>1, <2>2 DEF Places
<1>15. Progress'
  BY <1>1, <1>2, <1>4, <1>8, <1>9, <1>11 DEF Progress
<1>16. Latches'
  BY <1>2, <1>4, <1>10, <1>11 DEF Latches
<1> QED
  BY <1>12, <1>13, <1>14, <1>15, <1>16

LEMMA CallInv ==
  ASSUME Inv, NEW c \in Clients, Call(c)
  PROVE  Inv'
<1> USE DEF Inv
<1>1. PICK h \in Roots \ launched :
        /\ calls' = [calls EXCEPT ![c] = <<h>>]
        /\ launched' = launched \cup {h}
  BY DEF Call
<1>2. /\ c \in Threads /\ at[c] = "client"
      /\ at' = [at EXCEPT ![c] = "body"]
      /\ UNCHANGED <<task, ready, deletion, adj, batch, kept, home, finished>>
  BY DEF Call, Goto, poolVars, Threads
<1>3. /\ h \in Jobs /\ h \notin Active /\ h \notin finished /\ h \notin deletion
      /\ h \in DOMAIN task /\ Owed(h) = {}
      /\ h \notin ready /\ \A s \in Threads : h \notin Running(s) \cup Given(s)
  BY <1>1, RootsWait
<1>4. calls[c] = <<>>
  BY <1>2 DEF Control, ControlOf, Outside
<1>5. /\ at'[c] = "body" /\ calls'[c] = <<h>>
      /\ \A s \in Threads : s # c => at'[s] = at[s] /\ calls'[s] = calls[s]
      /\ at' \in [Threads -> Outside \cup Inside \cup Ends \cup {"purge"}]
  BY <1>1, <1>2 DEF Types, Inside
<1>6. calls'[c] \in Seq(Jobs) /\ calls'[c] # <<>> /\ IsInjective(calls'[c]) /\ Running(c)' = {h}
  BY <1>3, <1>5 DEF Running, Range, IsInjective
<1>7. ~Ending(c) /\ ~Ending(c)'
  BY <1>4, <1>5 DEF Ending, Ends
<1>8. \A s \in Threads :
        /\ Given(s)' = Given(s)
        /\ s # c => Running(s)' = Running(s) /\ Top(s)' = Top(s) /\ (Ending(s)' <=> Ending(s))
  BY <1>2, <1>5 DEF Given, Running, Top, Ending
<1>9. Running(c) = {} /\ Given(c) = {}
  BY <1>2, <1>4 DEF Running, Range, Given
<1>10. \A b : Owed(b)' = Owed(b)
  BY <1>2, <1>7, <1>8, OwedSame
<1>11. Active' = Active \cup {h}
  BY <1>2, <1>6, <1>8, <1>9 DEF Active
<1>12. Types'
  <2>1. calls' \in [Threads -> Seq(Jobs)]
    BY <1>1, <1>5, <1>6 DEF Types
  <2> QED
    BY <1>1, <1>2, <1>3, <1>5, <2>1 DEF Types
<1>13. Control'
  <2>1. ASSUME NEW s \in Threads PROVE ControlOf(s)'
    <3>1. CASE s = c
      BY <1>2, <1>5, <1>6, <1>7, <3>1 DEF Control, ControlOf, Outside, Inside
    <3>2. CASE s # c
      BY <1>2, <1>5, <1>8, <3>2 DEF Control, ControlOf
    <3> QED
      BY <3>1, <3>2
  <2> QED
    BY <2>1 DEF Control
<1>14. Places'
  <2>1. ASSUME NEW s \in Threads
        PROVE  /\ IsInjective(calls'[s])
               /\ Running(s)' \cap Given(s)' = {}
               /\ Running(s)' \cup Given(s)' \subseteq DOMAIN task' \ (ready' \cup deletion')
    BY <1>2, <1>3, <1>5, <1>6, <1>8, <1>9 DEF Places
  <2>2. ASSUME NEW r \in Threads, NEW s \in Threads, r # s
        PROVE  (Running(r)' \cup Given(r)') \cap (Running(s)' \cup Given(s)') = {}
    BY <1>3, <1>6, <1>8, <1>9, <2>2 DEF Places
  <2> QED
    BY <1>2, <2>1, <2>2 DEF Places
<1>15. Progress'
  <2>1. ASSUME NEW s \in Threads, NEW x \in Running(s)'
        PROVE  x \in finished' <=> Ending(s)' /\ x = Top(s)'
    BY <1>2, <1>3, <1>6, <1>7, <1>8, <2>1 DEF Progress
  <2>2. ASSUME NEW x \in finished' \cap DOMAIN task'
        PROVE  x \in deletion' \/ \E s \in Threads : Ending(s)' /\ Top(s)' = x
    BY <1>2, <1>7, <1>8, <2>2 DEF Progress
  <2> QED
    BY <1>1, <1>2, <1>3, <1>8, <1>11, <2>1, <2>2 DEF Progress
<1>16. Latches'
  BY <1>2, <1>3, <1>10, <1>11 DEF Latches
<1> QED
  BY <1>12, <1>13, <1>14, <1>15, <1>16

\* A thread outside of all tasks goes on to another place outside.
LEMMA OutsideGoes ==
  ASSUME Inv, NEW t \in Threads, at[t] \in Outside, NEW x \in Outside,
         at' = [at EXCEPT ![t] = x],
         UNCHANGED <<task, ready, deletion, calls, adj, batch, kept, launched, finished>>,
         home' \in [Threads -> {"drain", "client", "join"}]
  PROVE  Inv'
<1>1. calls[t] = <<>>
  BY DEF Inv, Control, ControlOf
<1>2. /\ at' \in [Threads -> Steps] /\ at'[t] = x
      /\ \A s \in Threads \ {t} : at'[s] = at[s]
  BY DEF Inv, Types, Steps
<1>3. batch' \in [Threads -> Batches]
  BY DEF Inv, Types, Batches
<1> QED
  BY <1>1, <1>2, <1>3, Goes DEF Outside, Inside, Ends

LEMMA WorkerInv ==
  ASSUME Inv, NEW w \in Workers, WorkerStep(w) \/ WakeSpuriously(w), UNCHANGED <<launched, finished>>
  PROVE  Inv'
<1>1. w \in Threads /\ home \in [Threads -> {"drain", "client", "join"}]
  BY DEF Inv, Types, Threads
<1>2. CASE LoopTop(w)
  BY <1>1, <1>2, OutsideGoes DEF LoopTop, Goto, poolVars, Outside
<1>3. CASE Check(w)
  BY <1>1, <1>3, OutsideGoes DEF Check, Goto, poolVars, Outside
<1>4. CASE FallAsleep(w)
  BY <1>1, <1>4, OutsideGoes DEF FallAsleep, Goto, poolVars, Outside
<1>5. CASE WakeSpuriously(w)
  BY <1>1, <1>5, OutsideGoes DEF WakeSpuriously, Goto, poolVars, Outside
<1>6. CASE Drain(w)
  <2>1. CASE \E h \in ready : Take(w, h)
    BY <1>1, <1>6, <2>1, TakeInv DEF Drain
  <2>2. CASE Goto(w, "top") /\ UNCHANGED <<poolVars, calls, adj, batch, kept, home>>
    BY <1>1, <1>6, <2>2, OutsideGoes DEF Drain, Goto, poolVars, Outside
  <2> QED
    BY <1>6, <2>1, <2>2 DEF Drain
<1> QED
  BY <1>2, <1>3, <1>4, <1>5, <1>6 DEF WorkerStep

LEMMA JoinInv ==
  ASSUME Inv, NEW c \in Clients, BeginJoin(c) \/ Join(c) \/ EndJoin(c)
  PROVE  Inv'
<1>1. c \in Threads /\ home \in [Threads -> {"drain", "client", "join"}]
  BY DEF Inv, Types, Threads
<1>2. CASE BeginJoin(c)
  <2>1. home' \in [Threads -> {"drain", "client", "join"}]
    BY <1>1, <1>2 DEF BeginJoin
  <2> QED
    BY <1>1, <1>2, <2>1, OutsideGoes DEF BeginJoin, Goto, poolVars, Outside
<1>3. CASE EndJoin(c)
  <2>1. home' \in [Threads -> {"drain", "client", "join"}]
    BY <1>1, <1>3 DEF EndJoin
  <2> QED
    BY <1>1, <1>3, <2>1, OutsideGoes DEF EndJoin, Goto, poolVars, Outside
<1>4. CASE Join(c)
  <2>1. CASE \E h \in ready : Take(c, h)
    BY <1>1, <1>4, <2>1, TakeInv DEF Join
  <2>2. CASE Goto(c, "wait") /\ UNCHANGED <<poolVars, calls, adj, batch, kept, home>>
    BY <1>1, <1>4, <2>2, OutsideGoes DEF Join, Goto, poolVars, Outside
  <2> QED
    BY <1>4, <2>1, <2>2 DEF Join
<1> QED
  BY <1>2, <1>3, <1>4

LEMMA StutterInv ==
  ASSUME Inv, UNCHANGED <<poolVars, threadVars, launched, finished>>
  PROVE  Inv'
<1>1. UNCHANGED <<task, ready, deletion, calls, adj, kept, launched, finished, at, batch, home>>
  BY DEF poolVars, threadVars
<1>2. \A t \in Threads : Given(t)' = Given(t) /\ (Ending(t)' <=> Ending(t)) /\ Top(t)' = Top(t)
  BY <1>1 DEF Given, Ending, Top
<1>3. Places' /\ Progress' /\ Latches'
  BY <1>1, <1>2, Quiet DEF Inv
<1>4. Types'
  BY <1>1 DEF Inv, Types
<1>5. Control'
  BY <1>1, <1>2 DEF Inv, Control, ControlOf
<1> QED
  BY <1>3, <1>4, <1>5 DEF Inv

LEMMA NextInv == Inv /\ [Next]_vars => Inv'
<1> SUFFICES ASSUME Inv, [Next]_vars PROVE Inv'
  OBVIOUS
<1>1. ASSUME NEW t \in Threads, PoolStep(t) PROVE Inv'
  BY <1>1, EnqueueInv, AddSizeInv, NotifyInv, SubSizeInv, ScheduleAdjacentInv, AdjacentDoneInv,
     RetireInv, PurgeOneInv, PurgeDoneInv DEF PoolStep, ThreadStep
<1>2. ASSUME NEW t \in Threads, Body(t) PROVE Inv'
  <2>1. CASE Finish(t) /\ finished' = finished \cup {Top(t)}
    BY <1>2, <2>1, FinishInv DEF Body
  <2>2. CASE JoinOne(t) /\ UNCHANGED finished
    BY <1>2, <2>2, TakeInv DEF Body, JoinOne
  <2> QED
    BY <1>2, <2>1, <2>2 DEF Body
<1>3. ASSUME NEW w \in Workers, IdleStep(w) \/ (WakeSpuriously(w) /\ UNCHANGED <<launched, finished, fence, joined>>)
      PROVE  Inv'
  BY <1>3, WorkerInv DEF IdleStep
<1>4. ASSUME NEW c \in Clients, Submit(c) \/ Call(c) \/ BeginJoin(c) \/ Join(c) \/ EndJoin(c)
      PROVE  Inv'
  BY <1>4, SubmitInv, CallInv, JoinInv
<1>5. CASE Signal
  BY <1>5, StutterInv DEF Signal
<1>6. CASE UNCHANGED vars
  BY <1>6, StutterInv DEF vars
<1> QED
  BY <1>1, <1>2, <1>3, <1>4, <1>5, <1>6 DEF Next

------------------------------------------------------------------------------
(* The theorems. *)

\* Whatever the graph, a latch is the number of predecessors that have yet to
\* count it down, and one more until the task has run.
THEOREM Invariance == Spec => []Inv
<1>1. Inv /\ [Next]_vars => Inv'
  BY NextInv
<1> QED
  BY <1>1, InitInv, PTL DEF Spec

\* Each handle is in one queue, with one thread or with nobody yet, and what is
\* to be destroyed has a latch at zero.
THEOREM HandlesSafe == Spec => []EachHandleInOnePlace
<1>1. ASSUME Inv PROVE EachHandleInOnePlace
  <2>1. \A t \in Threads : Mine(t) = Running(t) \cup Given(t)
    BY <1>1 DEF Inv, Types, Mine, Running, Given
  <2>2. ASSUME NEW h \in deletion PROVE task[h].latch = 0
    <3>1. h \in DOMAIN task /\ h \in finished /\ Owed(h) = {}
      BY <1>1 DEF Inv, Places, Progress, Latches
    <3> QED
      BY <1>1, <3>1, FS_EmptySet DEF Inv, Latches
  <2>3. ASSUME NEW t \in Threads
        PROVE  /\ Mine(t) \cap (ready \cup deletion) = {}
               /\ \A s \in Threads \ {t} : Mine(t) \cap Mine(s) = {}
               /\ IsInjective(calls[t])
               /\ Mine(t) \subseteq DOMAIN task
    BY <1>1, <2>1 DEF Inv, Places
  <2> QED
    BY <1>1, <2>2, <2>3 DEF Inv, Places, EachHandleInOnePlace
<1>2. Inv => EachHandleInOnePlace
  BY <1>1
<1> QED
  BY <1>2, Invariance, PTL

\* A successor is there and waits for as long as a predecessor has to count it
\* down: it is owed something, so it has neither finished nor been destroyed.
THEOREM SuccessorsSafe == Spec => []SuccessorsWait
<1>1. ASSUME Inv, NEW a \in DOMAIN task, NEW i \in 1 .. Len(task[a].adjacencies),
             ~\E t \in Threads : /\ calls[t] # <<>> /\ Top(t) = a /\ adj[t] > i
                                 /\ at[t] \in {"adjacent", "enqueue", "add", "notify", "retire"},
             a \notin deletion
      PROVE  /\ task[a].adjacencies[i] \in DOMAIN task
             /\ task[task[a].adjacencies[i]].latch > 1
  <2>1. a \in Jobs /\ task[a].adjacencies = Order(a)
    BY <1>1 DEF Inv, Types, Latches
  <2>2. PICK b \in Jobs : b = Order(a)[i]
    BY <1>1, <2>1, OrderOfSuccessors DEF Successors
  <2>3. a \in Predecessors(b)
    BY <1>1, <2>1, <2>2, OrderOfSuccessors DEF Successors, Predecessors
  <2>4. Owes(a, b)
    <3>1. CASE a \notin finished
      BY <2>3, <3>1 DEF Owes
    <3>2. CASE a \in finished
      <4>1. PICK t \in Threads : Ending(t) /\ Top(t) = a
        BY <1>1, <3>2 DEF Inv, Progress
      <4>2. adj[t] \in Nat /\ ~(adj[t] > i) /\ i \in Nat
        BY <1>1, <2>1, <4>1, OrderOfSuccessors DEF Inv, Types, Ending, Ends
      <4> QED
        BY <1>1, <2>1, <2>2, <2>3, <4>1, <4>2 DEF Owes
    <3> QED
      BY <3>1, <3>2
  <2>5. a \in Owed(b)
    BY <2>1, <2>4 DEF Owed
  <2>6. b \notin finished /\ b \in DOMAIN task
    BY <1>1, <2>5 DEF Inv, Latches, Progress
  <2>7. Cardinality(Owed(b)) \in Nat /\ Cardinality(Owed(b)) # 0
    BY <2>5, OwedFinite, FS_EmptySet
  <2>8. task[b].latch = Cardinality(Owed(b)) + 1
    BY <1>1, <2>6 DEF Inv, Latches
  <2> QED
    BY <2>1, <2>2, <2>6, <2>7, <2>8
<1>2. Inv => SuccessorsWait
  BY <1>1 DEF SuccessorsWait
<1> QED
  BY <1>2, Invariance, PTL

\* What is ready or running is owed nothing, so all it waits for has finished.
THEOREM OrderSafe == Spec => []StartsAfterPredecessors
<1>1. ASSUME Inv, NEW h \in ready \cup {x \in Handles : \E t \in Threads : x \in Range(calls[t])}
      PROVE  Predecessors(h) \subseteq finished /\ (h \notin finished => task[h].latch = 1)
  <2>1. h \in Active /\ h \in DOMAIN task
    BY <1>1 DEF Inv, Places, Active, Running
  <2>2. Owed(h) = {}
    BY <1>1, <2>1 DEF Inv, Latches
  <2>3. Predecessors(h) \subseteq finished
    BY <2>2 DEF Owed, Owes, Predecessors
  <2>4. Cardinality(Owed(h)) = 0
    BY <2>2, FS_EmptySet
  <2>5. h \notin finished => task[h].latch = 1
    <3>1. Latches
      BY <1>1 DEF Inv
    <3>2. task[h].latch = Cardinality(Owed(h)) + (IF h \in finished THEN 0 ELSE 1)
      BY <2>1, <3>1 DEF Latches
    <3> QED
      BY <2>4, <3>2
  <2> QED
    BY <2>3, <2>5
<1>2. Inv => StartsAfterPredecessors
  BY <1>1 DEF StartsAfterPredecessors, Inv, Progress
<1> QED
  BY <1>2, Invariance, PTL

------------------------------------------------------------------------------
(* The counter.  It is equal to what it should be but for a multiple of the
   modulus, which each step of Submit and of a dequeue changes by little. *)

Adding == {x \in Threads \X Handles : at[x[1]] = "add" /\ x[2] \in batch[x[1]].handles}

Taking == {t \in Threads : at[t] = "sub"}

Added == Cardinality(Adding)

Size == Cardinality(ready) + Cardinality(Taking)

Counted ==
  /\ readySize \in Int
  /\ \E k \in Int : readySize + Added = Size + k * SizeModulus

LEMMA DisjointUnion ==
  ASSUME NEW S, NEW T, IsFiniteSet(S), IsFiniteSet(T), S \cap T = {}
  PROVE  Cardinality(S \cup T) = Cardinality(S) + Cardinality(T)
<1>1. Cardinality(S) \in Nat /\ Cardinality(T) \in Nat /\ Cardinality({}) = 0
  BY FS_CardinalityType, FS_EmptySet
<1>2. Cardinality(S \cup T) = Cardinality(S) + Cardinality(T) - Cardinality(S \cap T)
  BY FS_Union
<1>3. Cardinality(S \cap T) = 0
  BY <1>1, Zenon
<1> QED
  BY <1>1, <1>2, <1>3

LEMMA FiniteCounts ==
  ASSUME Types
  PROVE  /\ IsFiniteSet(ready) /\ IsFiniteSet(Taking) /\ IsFiniteSet(Adding)
         /\ Cardinality(ready) \in Nat /\ Cardinality(Taking) \in Nat /\ Added \in Nat
         /\ Size \in Nat
<1>1. IsFiniteSet(Threads)
  BY ThreadsAssumption, FS_Union DEF Threads
<1>2. IsFiniteSet(Threads \X Handles)
  BY <1>1, JobsFinite, FS_Product DEF Jobs
<1>3. IsFiniteSet(ready)
  BY JobsFinite, FS_Subset DEF Types
<1>4. IsFiniteSet(Taking)
  BY <1>1, FS_Subset DEF Taking
<1>5. IsFiniteSet(Adding)
  BY <1>2, FS_Subset DEF Adding
<1>6. Cardinality(ready) \in Nat /\ Cardinality(Taking) \in Nat /\ Added \in Nat
  BY <1>3, <1>4, <1>5, FS_CardinalityType DEF Added
<1> QED
  BY <1>3, <1>4, <1>5, <1>6 DEF Size

LEMMA ModulusPositive == SizeModulus \in Nat \ {0}
<1>1. Cardinality(Workers) \in Nat
  BY ThreadsAssumption, FS_CardinalityType
<1> QED
  BY <1>1, PoolSizeAssumption, SizeModulusAssumption

LEMMA Wraps ==
  ASSUME NEW a \in Int
  PROVE  a % SizeModulus \in Int /\ \E q \in Int : a % SizeModulus = a + q * SizeModulus
<1> DEFINE M == SizeModulus
           d == a \div M
           r == a % M
<1>1. d \in Int /\ r \in 0 .. M - 1 /\ a = M * d + r
  BY ModulusPositive
<1>2. M \in Int
  BY ModulusPositive
<1> HIDE DEF d, r
<1>3. r \in Int /\ -d \in Int /\ r = a + (-d) * M
  <2>1. (-d) * M = -(M * d) /\ M * d \in Int
    BY <1>1, <1>2
  <2> QED
    BY <1>1, <1>2, <2>1
<1> QED
  BY <1>3 DEF r

LEMMA SameRemainder ==
  ASSUME NEW a \in Int, NEW b \in Int, NEW k \in Int, a = b + k * SizeModulus
  PROVE  a % SizeModulus = b % SizeModulus
<1> DEFINE M == SizeModulus
           d == a \div M
           e == b \div M
           r == a % M
           s == b % M
           n == d - e - k
<1>1. /\ d \in Int /\ e \in Int /\ r \in 0 .. M - 1 /\ s \in 0 .. M - 1
      /\ a = M * d + r /\ b = M * e + s
  BY ModulusPositive
<1>2. M \in Nat \ {0}
  BY ModulusPositive
<1> HIDE DEF d, e, r, s
<1>3. n \in Int /\ s - r = M * n
  <2>1. M * d + r = M * e + s + k * M
    BY <1>1
  <2>2. M * n = M * d - M * e - k * M
    BY <1>1, <1>2
  <2> QED
    BY <1>1, <1>2, <2>1, <2>2
<1> HIDE DEF n
<1>4. n = 0
  <2>1. CASE n >= 1
    <3>1. M * n >= M
      BY <1>2, <1>3, <2>1
    <3> QED
      BY <1>1, <1>2, <1>3, <3>1
  <2>2. CASE n <= -1
    <3>1. M * n <= -M
      BY <1>2, <1>3, <2>2
    <3> QED
      BY <1>1, <1>2, <1>3, <3>1
  <2> QED
    BY <1>3, <2>1, <2>2
<1>5. s = r
  BY <1>1, <1>2, <1>3, <1>4
<1> QED
  BY <1>5 DEF r, s

CounterGains(n) ==
  readySize' = (readySize + n) % SizeModulus \/ (n = 0 /\ UNCHANGED readySize)

\* What a step adds to the counter, modulo, is what the two sides gain.
LEMMA CountStep ==
  ASSUME Counted, NEW n \in Int, CounterGains(n),
         Size \in Nat, Size' \in Nat, Added \in Nat, Added' \in Nat,
         n + Added' - Added = Size' - Size
  PROVE  Counted'
<1> DEFINE M == SizeModulus
<1>1. PICK k \in Int : readySize + Added = Size + k * M
  BY DEF Counted
<1>2. readySize \in Int /\ M \in Int /\ readySize + n \in Int
  BY ModulusPositive DEF Counted
<1>3. PICK q \in Int : readySize' = readySize + n + q * M /\ readySize' \in Int
  <2>1. CASE n = 0 /\ UNCHANGED readySize
    <3>1. 0 \in Int /\ readySize' = readySize + n + 0 * M
      BY <1>2, <2>1
    <3> QED
      BY <1>2, <2>1, <3>1
  <2>2. CASE readySize' = (readySize + n) % M
    BY <1>2, <2>2, Wraps
  <2> QED
    BY <2>1, <2>2 DEF CounterGains
<1>4. (k + q) * M = k * M + q * M /\ k + q \in Int /\ k * M \in Int /\ q * M \in Int
  BY <1>2
<1> DEFINE x == k * M
           y == q * M
<1> HIDE DEF x, y
<1>5. readySize' + Added' = Size' + x + y
  <2>1. readySize + Added = Size + x /\ readySize' = readySize + n + y
    BY <1>1, <1>3 DEF x, y
  <2>2. x \in Int /\ y \in Int /\ readySize \in Int /\ readySize' \in Int
    BY <1>2, <1>3, <1>4 DEF x, y
  <2> QED
    BY <2>1, <2>2
<1>6. readySize' + Added' = Size' + (k + q) * M
  BY <1>4, <1>5 DEF x, y
<1> QED
  BY <1>3, <1>4, <1>6 DEF Counted

LEMMA CountQuiet ==
  ASSUME Types, Counted, UNCHANGED <<ready, readySize>>,
         \A s \in Threads :
           /\ at'[s] = "add" <=> at[s] = "add"
           /\ at'[s] = "sub" <=> at[s] = "sub"
           /\ at[s] = "add" => batch'[s] = batch[s]
  PROVE  Counted'
<1>1. Adding' = Adding
  BY DEF Adding
<1>2. Taking' = Taking
  BY DEF Taking
<1>3. Added' = Added
  BY <1>1 DEF Added
<1>4. Size' = Size
  BY <1>2 DEF Size
<1> QED
  BY <1>3, <1>4 DEF Counted

\* A handle that a thread takes leaves the queue, and the thread has yet to count
\* it down.
LEMMA CountTake ==
  ASSUME Types, Types', Counted, NEW t \in Threads, NEW h, Take(t, h),
         at[t] \notin {"add", "sub"}
  PROVE  Counted'
<1>1. /\ at' = [at EXCEPT ![t] = "sub"]
      /\ h \in ready
      /\ ready' = ready \ {h}
      /\ UNCHANGED <<readySize, batch>>
  BY DEF Take, Goto
<1>2. at'[t] = "sub" /\ \A s \in Threads \ {t} : at'[s] = at[s]
  BY <1>1 DEF Types
<1>3. Adding' = Adding
  BY <1>1, <1>2 DEF Adding
<1>4. Taking' = Taking \cup {t} /\ t \notin Taking
  BY <1>2 DEF Taking
<1>5. Added' = Added
  BY <1>3 DEF Added
<1>6. Cardinality(ready \ {h}) = Cardinality(ready) - 1
  BY <1>1, FiniteCounts, FS_RemoveElement
<1>7. Cardinality(Taking \cup {t}) = Cardinality(Taking) + 1
  BY <1>4, FiniteCounts, FS_AddElement
<1>8. Size' = Cardinality(ready \ {h}) + Cardinality(Taking \cup {t})
  BY <1>1, <1>4 DEF Size
<1>9. Size' = Size
  BY <1>6, <1>7, <1>8, FiniteCounts DEF Size
<1> QED
  BY <1>1, <1>5, <1>9 DEF Counted

LEMMA CountDown ==
  ASSUME Types, Types', Counted, NEW t \in Threads, SubSize(t)
  PROVE  Counted'
<1>1. /\ at[t] = "sub"
      /\ at' = [at EXCEPT ![t] = "body"]
      /\ readySize' = (readySize - 1) % SizeModulus
      /\ UNCHANGED <<ready, batch>>
  BY DEF SubSize, Goto
<1>2. at'[t] = "body" /\ \A s \in Threads \ {t} : at'[s] = at[s]
  BY <1>1 DEF Types
<1>3. Adding' = Adding
  BY <1>1, <1>2 DEF Adding
<1>4. Taking' = Taking \ {t} /\ t \in Taking
  BY <1>1, <1>2 DEF Taking
<1>5. Added' = Added /\ Added \in Nat
  BY <1>3, FiniteCounts DEF Added
<1>6. Cardinality(Taking \ {t}) = Cardinality(Taking) - 1
  BY <1>4, FiniteCounts, FS_RemoveElement
<1>7. Size' = Cardinality(ready) + Cardinality(Taking \ {t})
  BY <1>1, <1>4 DEF Size
<1>8. Size \in Nat /\ Size' = Size - 1
  BY <1>6, <1>7, FiniteCounts DEF Size
<1>9. Size' \in Nat
  <2>1. IsFiniteSet(Taking \ {t})
    BY FiniteCounts, FS_Subset
  <2>2. Cardinality(Taking \ {t}) \in Nat
    BY <2>1, FS_CardinalityType
  <2> QED
    BY <1>7, <2>2, FiniteCounts
<1>10. readySize + (-1) = readySize - 1
  BY DEF Counted
<1>11. CounterGains(-1)
  BY <1>1, <1>10 DEF CounterGains
<1>12. (-1) + Added' - Added = Size' - Size
  BY <1>5, <1>8
<1> QED
  BY <1>5, <1>8, <1>9, <1>11, <1>12, CountStep

\* The handles thread t is about to count.
Pairs(t) == {t} \X batch[t].handles

LEMMA PairsCounted ==
  ASSUME Types, NEW t \in Threads
  PROVE  /\ IsFiniteSet(Pairs(t))
         /\ Cardinality(Pairs(t)) = Cardinality(batch[t].handles)
         /\ Cardinality(batch[t].handles) \in Nat
         /\ at[t] = "add" => Pairs(t) \subseteq Adding
<1>1. batch[t].handles \subseteq Handles
  BY DEF Types, Jobs
<1>2. IsFiniteSet(batch[t].handles) /\ Cardinality(batch[t].handles) \in Nat
  BY <1>1, JobsFinite, FS_Subset, FS_CardinalityType DEF Jobs
<1>3. IsFiniteSet({t}) /\ Cardinality({t}) = 1
  BY FS_Singleton
<1>4. IsFiniteSet(Pairs(t)) /\ Cardinality(Pairs(t)) = 1 * Cardinality(batch[t].handles)
  BY <1>2, <1>3, FS_Product DEF Pairs
<1>5. at[t] = "add" => Pairs(t) \subseteq Adding
  BY <1>1 DEF Pairs, Adding
<1> QED
  BY <1>2, <1>4, <1>5

\* Submit counts up behind the queue.
LEMMA CountEnqueue ==
  ASSUME Inv, Types', Counted, NEW t \in Threads, Enqueue(t)
  PROVE  Counted'
<1>0. Types /\ Given(t) \cap ready = {}
  BY DEF Inv, Places
<1>1. /\ at[t] = "enqueue"
      /\ at' = [at EXCEPT ![t] = "add"]
      /\ ready' = ready \cup batch[t].handles
      /\ UNCHANGED <<readySize, batch>>
  BY DEF Enqueue, Goto
<1>2. at'[t] = "add" /\ \A s \in Threads \ {t} : at'[s] = at[s]
  BY <1>0, <1>1 DEF Types
<1>3. batch[t].handles \cap ready = {} /\ batch[t].handles \subseteq Handles
  BY <1>0, <1>1 DEF Given, Types, Jobs
<1>4. Adding' = Adding \cup Pairs(t) /\ Adding \cap Pairs(t) = {}
  BY <1>1, <1>2, <1>3 DEF Adding, Pairs
<1>5. Taking' = Taking
  BY <1>1, <1>2 DEF Taking
<1>6. Cardinality(Adding \cup Pairs(t)) = Added + Cardinality(batch[t].handles)
  <2>1. IsFiniteSet(Adding) /\ IsFiniteSet(Pairs(t)) /\ Adding \cap Pairs(t) = {}
    <3>1. IsFiniteSet(Adding)
      BY <1>0, FiniteCounts
    <3>2. IsFiniteSet(Pairs(t))
      BY <1>0, PairsCounted
    <3> QED
      BY <1>4, <3>1, <3>2
  <2>2. Cardinality(Adding \cup Pairs(t)) = Cardinality(Adding) + Cardinality(Pairs(t))
    BY <2>1, DisjointUnion
  <2>3. Cardinality(Pairs(t)) = Cardinality(batch[t].handles)
    BY <1>0, PairsCounted
  <2> QED
    BY <2>2, <2>3 DEF Added
<1>7. IsFiniteSet(batch[t].handles) /\ Cardinality(batch[t].handles) \in Nat
  BY <1>3, <1>0, JobsFinite, FS_Subset, FS_CardinalityType DEF Jobs
<1>8. Cardinality(ready \cup batch[t].handles) = Cardinality(ready) + Cardinality(batch[t].handles)
  BY <1>0, <1>3, <1>7, FiniteCounts, DisjointUnion
<1>9. Added' = Cardinality(Adding \cup Pairs(t))
  BY <1>4 DEF Added
<1>10. Size' = Cardinality(ready \cup batch[t].handles) + Cardinality(Taking)
  BY <1>1, <1>5 DEF Size
<1> DEFINE n == Cardinality(batch[t].handles)
           c == Cardinality(ready)
           d == Cardinality(Taking)
<1>11. Added' = Added + n /\ Size' = Size + n
  <2>1. Size = c + d /\ Size' = c + n + d /\ c \in Nat /\ d \in Nat /\ n \in Nat
    BY <1>0, <1>7, <1>8, <1>10, FiniteCounts DEF Size
  <2> HIDE DEF c, d, n
  <2>2. Size' = Size + n
    BY <2>1
  <2> QED
    BY <1>6, <1>9, <2>2 DEF n
<1>12. Added \in Nat /\ Size \in Nat /\ n \in Nat
  BY <1>0, <1>7, FiniteCounts
<1> HIDE DEF n, c, d
<1>13. PICK k \in Int : readySize \in Int /\ readySize + Added = Size + k * SizeModulus
  BY DEF Counted
<1>14. readySize' + Added' = Size' + k * SizeModulus
  <2>1. k * SizeModulus \in Int
    BY ModulusPositive
  <2> DEFINE x == k * SizeModulus
  <2> HIDE DEF x
  <2>2. x \in Int /\ readySize + Added = Size + x /\ readySize' = readySize
    BY <1>1, <1>13, <2>1 DEF x
  <2>3. readySize' + Added' = Size' + x
    BY <1>11, <1>12, <1>13, <2>2
  <2> QED
    BY <2>3 DEF x
<1> QED
  BY <1>1, <1>13, <1>14 DEF Counted

LEMMA CountUp ==
  ASSUME Types, Types', Counted, NEW t \in Threads, AddSize(t)
  PROVE  Counted'
<1> DEFINE n == Cardinality(batch[t].handles)
<1>1. /\ at[t] = "add"
      /\ readySize' = (readySize + n) % SizeModulus
      /\ UNCHANGED ready
      /\ \E step \in {"notify", "client", "adjacent"} : at' = [at EXCEPT ![t] = step]
      /\ \A s \in Threads \ {t} : batch'[s] = batch[s]
  BY DEF AddSize, Goto, EndSubmit, AfterSubmit, Types
<1>2. at'[t] \notin {"add", "sub"} /\ \A s \in Threads \ {t} : at'[s] = at[s]
  BY <1>1 DEF Types
<1>3. Adding' = Adding \ Pairs(t)
  BY <1>1, <1>2 DEF Adding, Pairs
<1>4. Taking' = Taking
  BY <1>1, <1>2 DEF Taking
<1>5. Pairs(t) \subseteq Adding /\ n \in Nat /\ Cardinality(Pairs(t)) = n
  BY <1>1, PairsCounted
<1>6. Cardinality(Adding \ Pairs(t)) = Added - n
  <2>1. Cardinality(Adding \ Pairs(t)) = Cardinality(Adding) - Cardinality(Adding \cap Pairs(t))
    BY FiniteCounts, FS_Difference
  <2>2. Adding \cap Pairs(t) = Pairs(t)
    BY <1>5
  <2> QED
    BY <1>5, <2>1, <2>2 DEF Added
<1>7. IsFiniteSet(Adding \ Pairs(t))
  BY FiniteCounts, FS_Subset
<1>8. Added' = Added - n /\ Added' \in Nat
  BY <1>3, <1>6, <1>7, FS_CardinalityType DEF Added
<1>9. Size' = Size
  BY <1>1, <1>4 DEF Size
<1>10. Size \in Nat /\ Added \in Nat
  BY FiniteCounts
<1>11. CounterGains(n)
  BY <1>1 DEF CounterGains
<1> HIDE DEF n
<1>12. n + Added' - Added = Size' - Size
  BY <1>5, <1>8, <1>9, <1>10
<1> QED
  BY <1>5, <1>8, <1>9, <1>10, <1>11, <1>12, CountStep

LEMMA InitCounted == Init => Counted
<1> SUFFICES ASSUME Init PROVE Counted
  OBVIOUS
<1>1. ready = {} /\ readySize = 0 /\ \A t \in Threads : at[t] \in {"top", "client"}
  BY DEF Init, InitPool, InitThreads
<1>2. Adding = {} /\ Taking = {}
  BY <1>1 DEF Adding, Taking
<1>3. Added = 0 /\ Size = 0
  BY <1>1, <1>2, FS_EmptySet DEF Added, Size
<1>4. 0 \in Int /\ readySize + Added = Size + 0 * SizeModulus
  BY <1>1, <1>3, ModulusPositive
<1> QED
  BY <1>1, <1>4 DEF Counted

\* A step of one thread that neither starts nor ends a count of its own.
LEMMA CountOther ==
  ASSUME Types, Counted, NEW t \in Threads, NEW x, x \notin {"add", "sub"},
         at[t] \notin {"add", "sub"},
         at' = [at EXCEPT ![t] = x],
         UNCHANGED <<ready, readySize>>,
         \A s \in Threads \ {t} : batch'[s] = batch[s]
  PROVE  Counted'
<1>1. at'[t] = x /\ \A s \in Threads \ {t} : at'[s] = at[s]
  BY DEF Types
<1> QED
  BY <1>1, CountQuiet

LEMMA CountNotify ==
  ASSUME Types, Counted, NEW t \in Threads, Notify(t)
  PROVE  Counted'
<1>1. at[t] = "notify" /\ UNCHANGED <<ready, readySize>>
  BY DEF Notify, poolVars
<1>2. PICK woken \in SUBSET Asleep, step \in {"notify", "client", "adjacent"} :
        Wake(t, woken, step)
  BY DEF Notify, AfterSubmit
<1>3. \A s \in Threads : at'[s] = IF s = t THEN step ELSE IF s \in woken THEN "check" ELSE at[s]
  BY <1>2 DEF Wake
<1>4. \A s \in woken : at[s] = "asleep"
  BY DEF Asleep
<1>5. \A s \in Threads \ {t} : batch'[s] = batch[s]
  BY DEF Notify, EndSubmit, Types
<1> QED
  BY <1>1, <1>3, <1>4, <1>5, CountQuiet

LEMMA CountAdjacent ==
  ASSUME Types, Counted, NEW t \in Threads, ScheduleAdjacent(t)
  PROVE  Counted'
<1>1. at[t] = "adjacent" /\ UNCHANGED <<ready, readySize>>
  BY DEF ScheduleAdjacent
<1>2. CASE UNCHANGED <<at, batch>>
  BY <1>1, <1>2, CountQuiet
<1>3. CASE \E b, wake : BeginSubmit(t, {b}, wake)
  <2>1. at' = [at EXCEPT ![t] = "enqueue"] /\ \A s \in Threads \ {t} : batch'[s] = batch[s]
    BY <1>3 DEF BeginSubmit, Goto, Types
  <2> QED
    BY <1>1, <2>1, CountOther
<1> QED
  BY <1>2, <1>3 DEF ScheduleAdjacent

LEMMA CountThread ==
  ASSUME Inv, Types', Counted, NEW t \in Threads, ThreadStep(t)
  PROVE  Counted'
<1>0. Types
  BY DEF Inv
<1>1. CASE Enqueue(t) \/ AddSize(t) \/ SubSize(t) \/ Notify(t) \/ ScheduleAdjacent(t)
  BY <1>0, <1>1, CountEnqueue, CountUp, CountDown, CountNotify, CountAdjacent
<1>2. CASE AdjacentDone(t)
  BY <1>0, <1>2, CountOther DEF AdjacentDone, Goto, poolVars
<1>3. CASE Retire(t)
  <2>1. PICK x \in {"client", "purge"} : at' = [at EXCEPT ![t] = x]
    BY <1>3 DEF Retire, Goto
  <2> QED
    BY <1>0, <1>3, <2>1, CountOther DEF Retire
<1>4. CASE PurgeOne(t)
  BY <1>0, <1>4, CountQuiet DEF PurgeOne
<1>5. CASE PurgeDone(t)
  <2>1. PICK x \in {"drain", "client", "join", "body"} : at' = [at EXCEPT ![t] = x]
    BY <1>0, <1>5 DEF PurgeDone, Goto, Types
  <2> QED
    BY <1>0, <1>5, <2>1, CountOther DEF PurgeDone
<1> QED
  BY <1>1, <1>2, <1>3, <1>4, <1>5 DEF ThreadStep

LEMMA CountWorker ==
  ASSUME Types, Types', Counted, NEW w \in Workers, WorkerStep(w) \/ WakeSpuriously(w)
  PROVE  Counted'
<1>0. w \in Threads
  BY DEF Threads
<1>1. CASE LoopTop(w) \/ Check(w) \/ FallAsleep(w) \/ WakeSpuriously(w)
  <2>1. PICK x \in {"exit", "check", "drain", "prewait", "top", "asleep"} :
          at' = [at EXCEPT ![w] = x]
    BY <1>1 DEF LoopTop, Check, FallAsleep, WakeSpuriously, Goto
  <2>2. at[w] \in {"top", "check", "prewait", "asleep"} /\ UNCHANGED <<ready, readySize, batch>>
    BY <1>1 DEF LoopTop, Check, FallAsleep, WakeSpuriously, poolVars
  <2> QED
    BY <1>0, <2>1, <2>2, CountOther
<1>2. CASE Drain(w)
  <2>1. CASE \E h \in ready : Take(w, h)
    BY <1>0, <1>2, <2>1, CountTake DEF Drain
  <2>2. CASE Goto(w, "top") /\ UNCHANGED <<poolVars, calls, adj, batch, kept, home>>
    BY <1>0, <1>2, <2>2, CountOther DEF Drain, Goto, poolVars
  <2> QED
    BY <1>2, <2>1, <2>2 DEF Drain
<1> QED
  BY <1>1, <1>2 DEF WorkerStep

LEMMA CountBody ==
  ASSUME Types, Types', Counted, NEW t \in Threads, Body(t)
  PROVE  Counted'
<1>1. CASE Finish(t)
  BY <1>1, CountOther DEF Finish, Goto, Body
<1>2. CASE JoinOne(t)
  BY <1>2, CountTake DEF JoinOne
<1> QED
  BY <1>1, <1>2 DEF Body

LEMMA CountClient ==
  ASSUME Types, Types', Counted, NEW c \in Clients,
         Submit(c) \/ Call(c) \/ BeginJoin(c) \/ Join(c) \/ EndJoin(c)
  PROVE  Counted'
<1>0. c \in Threads
  BY DEF Threads
<1>1. CASE Submit(c)
  <2>1. /\ at[c] = "client" /\ UNCHANGED <<ready, readySize>>
        /\ at' = [at EXCEPT ![c] = "enqueue"]
        /\ \A s \in Threads \ {c} : batch'[s] = batch[s]
    BY <1>1 DEF Submit, BeginSubmit, Goto, poolVars, Types
  <2> QED
    BY <1>0, <2>1, CountOther
<1>2. CASE Call(c)
  BY <1>0, <1>2, CountOther DEF Call, Goto, poolVars
<1>3. CASE BeginJoin(c)
  BY <1>0, <1>3, CountOther DEF BeginJoin, Goto, poolVars
<1>4. CASE EndJoin(c)
  BY <1>0, <1>4, CountOther DEF EndJoin, Goto, poolVars
<1>5. CASE Join(c)
  <2>1. CASE \E h \in ready : Take(c, h)
    BY <1>0, <1>5, <2>1, CountTake DEF Join
  <2>2. CASE Goto(c, "wait") /\ UNCHANGED <<poolVars, calls, adj, batch, kept, home>>
    BY <1>0, <1>5, <2>2, CountOther DEF Join, Goto, poolVars
  <2> QED
    BY <1>5, <2>1, <2>2 DEF Join
<1> QED
  BY <1>1, <1>2, <1>3, <1>4, <1>5

LEMMA NextCounted == Inv /\ Counted /\ [Next]_vars => Counted'
<1> SUFFICES ASSUME Inv, Counted, [Next]_vars PROVE Counted'
  OBVIOUS
<1>0. Types /\ Types'
  BY NextInv DEF Inv
<1>1. ASSUME NEW t \in Threads, PoolStep(t) \/ Body(t) PROVE Counted'
  BY <1>0, <1>1, CountThread, CountBody DEF PoolStep
<1>2. ASSUME NEW w \in Workers, IdleStep(w) \/ (WakeSpuriously(w) /\ UNCHANGED <<launched, finished, fence, joined>>)
      PROVE  Counted'
  BY <1>0, <1>2, CountWorker DEF IdleStep
<1>3. ASSUME NEW c \in Clients, Submit(c) \/ Call(c) \/ BeginJoin(c) \/ Join(c) \/ EndJoin(c)
      PROVE  Counted'
  BY <1>0, <1>3, CountClient
<1>4. CASE UNCHANGED <<poolVars, threadVars>>
  BY <1>0, <1>4, CountQuiet DEF poolVars, threadVars
<1>5. Signal \/ UNCHANGED vars => UNCHANGED <<poolVars, threadVars>>
  BY DEF Signal, vars
<1> QED
  BY <1>1, <1>2, <1>3, <1>4, <1>5 DEF Next

\* The counter and what is about to be added are the queue and what is about to
\* be subtracted, however often the counter has wrapped on the way.
THEOREM CounterSafe == Spec => []SizeCounts
<1>1. ASSUME Inv, Counted PROVE SizeCounts
  <2>1. Size \in Nat /\ Added \in Nat
    BY <1>1, FiniteCounts DEF Inv
  <2>2. PICK k \in Int : readySize \in Int /\ readySize + Added = Size + k * SizeModulus
    BY <1>1 DEF Counted
  <2>3. readySize + Added \in Int /\ Size \in Int
    BY <2>1, <2>2
  <2>4. (readySize + Added) % SizeModulus = Size % SizeModulus
    BY <2>2, <2>3, SameRemainder
  <2> QED
    BY <2>4 DEF SizeCounts, Added, Size, Adding, Taking
<1>2. Inv /\ Counted => SizeCounts
  BY <1>1
<1>3. Init => Inv /\ Counted
  BY InitInv, InitCounted
<1>4. Inv /\ Counted /\ [Next]_vars => Inv' /\ Counted'
  BY NextInv, NextCounted
<1> QED
  BY <1>2, <1>3, <1>4, PTL DEF Spec
===============================================================================
