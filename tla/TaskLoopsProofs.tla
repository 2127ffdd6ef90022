---------------------------- MODULE TaskLoopsProofs ----------------------------
(***************************************************************************)
(* Proofs about TaskLoops: for any number of workers and of loops, a loop  *)
(* never runs beside itself, the dependency of its next task is added to a *)
(* live one, and the pool has a slot for it.                               *)
(***************************************************************************)
EXTENDS TaskLoops, FiniteSetTheorems, TLAPS

\* Where a thread is outside of tasks, in a body that may still make a successor,
\* and in Submit.
Outside == {"top", "check", "prewait", "asleep", "drain", "exit", "client", "purge"}
Before == {"sub", "body", "work", "next"}
Submitting == {"enqueue", "add", "notify"}
Inside == Before \cup {"return", "adjacent", "retire"}

\* A list of one handle at most: nobody nests calls, and a task has one successor.
Short == {<<>>} \cup {<<h>> : h \in Handles}

Running(t) == IF calls[t] = <<>> THEN {} ELSE {Top(t)}

\* What t submits, or will.
Given(t) ==
  IF at[t] = "enqueue" THEN batch[t].handles
  ELSE IF t = main /\ phase = "created" THEN {current[l] : l \in LoopsOf(process)}
  ELSE {}

\* The successor t has yet to count down.
Owed(t) ==
  {b \in Handles : /\ at[t] \in {"return", "adjacent"} /\ adj[t] = 1
                   /\ task[Top(t)].adjacencies = <<b>>}

Held(t) == Running(t) \cup Given(t) \cup Owed(t)

\* The tasks that will run or do.
Coming(t) == Given(t) \cup Owed(t) \cup (IF at[t] \in Before THEN Running(t) ELSE {})

------------------------------------------------------------------------------
TaskRecord == [job : Loops, latch : Int, adjacencies : Short, continuation : BOOLEAN]

Batches == [handles : SUBSET Handles, wake : BOOLEAN, left : Int]

Types ==
  /\ DOMAIN task \subseteq Handles
  /\ task \in [DOMAIN task -> TaskRecord]
  /\ ready \subseteq Handles
  /\ deletion \subseteq Handles
  /\ at \in [Threads -> Outside \cup Inside \cup Submitting]
  /\ calls \in [Threads -> Short]
  /\ adj \in [Threads -> {1, 2}]
  /\ batch \in [Threads -> Batches]
  /\ kept = [t \in Threads |-> {}]
  /\ home = [t \in Threads |-> IF t \in Workers THEN "drain" ELSE "client"]
  /\ current \in [Loops -> Handles]
  /\ process \in {"client", "server"}

ControlOf(t) ==
  /\ at[t] \in Outside => calls[t] = <<>>
  /\ at[t] \in Inside => calls[t] # <<>>
  /\ adj[t] = 2 => calls[t] # <<>> /\ at[t] \in Submitting \cup {"adjacent", "retire"}
  /\ at[t] \in Submitting /\ t \in Workers => calls[t] # <<>> /\ adj[t] = 2
  /\ t \in Workers => at[t] # "client"
  /\ t = main => at[t] \in {"client"} \cup Submitting /\ calls[t] = <<>>

Control == \A t \in Threads : ControlOf(t)

\* Before ClientCreate submits them the tasks are nowhere else.
Start ==
  phase = "created" =>
    /\ ready = {} /\ at[main] = "client"
    /\ \A t \in Threads : calls[t] = <<>>

Places ==
  /\ ready \cap deletion = {}
  /\ ready \cup deletion \subseteq DOMAIN task
  /\ \A t \in Threads :
       /\ Held(t) \subseteq DOMAIN task \ (ready \cup deletion)
       /\ Running(t) \cap (Given(t) \cup Owed(t)) = {}
  /\ \A s, t \in Threads : s # t => Held(s) \cap Held(t) = {}

IsFresh(h) == h = current[task[h].job] /\ task[h].adjacencies = <<>>

\* A task to come is the one its loop's global handle names.
Fresh ==
  /\ \A h \in ready : IsFresh(h)
  /\ \A t \in Threads : \A h \in Coming(t) : IsFresh(h)

LatchesOf(t) ==
  /\ \A h \in Given(t) : task[h].latch = 1
  /\ \A h \in Owed(t) : task[h].latch = 2
  /\ \A h \in Running(t) : task[h].latch = IF at[t] \in Before \cup {"return"} THEN 1 ELSE 0

Latches ==
  /\ \A h \in ready : task[h].latch = 1
  /\ \A h \in deletion : task[h].latch = 0
  /\ \A t \in Threads : LatchesOf(t)

Purging == {t \in Threads : at[t] = "purge"}

\* A purge ends with an empty queue, so who put a task there is still at it.
Purges == Cardinality(deletion) <= Cardinality(Purging)

IsDone(t, h) == calls[t] # <<>> /\ at[t] \notin Before /\ Top(t) = h

\* A task that is not the one to come is on its way out.
Slots ==
  \A h \in DOMAIN task :
    \/ h \in deletion
    \/ h = current[task[h].job]
    \/ \E t \in Threads : IsDone(t, h)

Inv == Types /\ Control /\ Start /\ Places /\ Fresh /\ Latches /\ Purges /\ Slots

------------------------------------------------------------------------------
LEMMA Stacks ==
  /\ \A s \in Short : s # <<>> => Head(s) \in Handles /\ s = <<Head(s)>> /\ Len(s) = 1 /\ Tail(s) = <<>>
  /\ \A h \in Handles : <<h>> \in Short /\ <<h>> # <<>> /\ Head(<<h>>) = h /\ <<h>> \o <<>> = <<h>>
  /\ \A h \in Handles : Len(<<h>>) = 1 /\ <<h>>[1] = h /\ Append(<<>>, h) = <<h>>
  /\ \A g, h \in Handles : <<g>> = <<h>> => g = h
  /\ <<>> \in Short /\ Len(<<>>) = 0
<1>1. ASSUME NEW h \in Handles
      PROVE  /\ <<h>> \in Short /\ <<h>> # <<>> /\ Head(<<h>>) = h /\ <<h>> \o <<>> = <<h>>
             /\ Len(<<h>>) = 1 /\ <<h>>[1] = h /\ Append(<<>>, h) = <<h>> /\ Tail(<<h>>) = <<>>
  <2>1. <<h>> \in Short /\ <<h>> # <<>> /\ Head(<<h>>) = h /\ Len(<<h>>) = 1 /\ <<h>>[1] = h
    BY DEF Short
  <2>2. <<h>> \o <<>> = <<h>>
    OBVIOUS
  <2>3. Append(<<>>, h) = <<h>>
    OBVIOUS
  <2>4. Tail(<<h>>) = <<>>
    OBVIOUS
  <2> QED
    BY <2>1, <2>2, <2>3, <2>4
<1>2. ASSUME NEW s \in Short, s # <<>>
      PROVE  Head(s) \in Handles /\ s = <<Head(s)>> /\ Len(s) = 1 /\ Tail(s) = <<>>
  <2>1. PICK h \in Handles : s = <<h>>
    BY <1>2 DEF Short
  <2> QED
    BY <1>1, <2>1
<1>3. \A g, h \in Handles : <<g>> = <<h>> => g = h
  OBVIOUS
<1>4. <<>> \in Short /\ Len(<<>>) = 0
  BY DEF Short
<1> QED
  BY <1>1, <1>2, <1>3, <1>4

LEMMA Workforce ==
  /\ main \in Threads /\ main \notin Workers
  /\ \A t \in Threads : t = main \/ t \in Workers
  /\ \A w \in Workers : w \in Threads
  /\ IsFiniteSet(Threads) /\ IsFiniteSet(Workers) /\ IsFiniteSet(Loops)
<1>1. IsFiniteSet(Threads)
  BY ThreadsAssumption, FS_Union DEF Threads
<1> QED
  BY <1>1, ThreadsAssumption, ClientsAssumption, LoopsAssumption DEF Threads

LEMMA FiniteCounts ==
  ASSUME Types
  PROVE  /\ IsFiniteSet(deletion) /\ Cardinality(deletion) \in Nat
         /\ IsFiniteSet(Purging) /\ Cardinality(Purging) \in Nat
         /\ IsFiniteSet(DOMAIN task) /\ Cardinality(DOMAIN task) \in Nat
         /\ IsFiniteSet(Handles) /\ Cardinality(Handles) = PoolSize
<1>1. IsFiniteSet(Handles) /\ Cardinality(Handles) = PoolSize
  <2>1. 0 \in Int /\ PoolSize - 1 \in Int /\ PoolSize \in Nat \ {0}
    BY PoolSizeAssumption
  <2>2. IsFiniteSet(0 .. PoolSize - 1) /\ Cardinality(0 .. PoolSize - 1) = (PoolSize - 1) - 0 + 1
    BY <2>1, FS_Interval
  <2> QED
    BY <2>1, <2>2 DEF Handles
<1>2. IsFiniteSet(Purging)
  BY Workforce, FS_Subset DEF Purging
<1>3. IsFiniteSet(deletion) /\ IsFiniteSet(DOMAIN task)
  BY <1>1, FS_Subset DEF Types
<1> QED
  BY <1>1, <1>2, <1>3, FS_CardinalityType

\* A step that moves no handle.  A body may come to its end and a thread may be
\* woken on the way.
LEMMA Quiet ==
  ASSUME Inv,
         UNCHANGED <<task, ready, deletion, calls, adj, kept, home, current, process>>,
         at' \in [Threads -> Outside \cup Inside \cup Submitting],
         batch' \in [Threads -> Batches],
         phase' = "created" => phase = "created",
         \A t \in Threads :
           /\ Given(t)' = Given(t)
           /\ Owed(t)' = Owed(t)
           /\ at'[t] \in Before => at[t] \in Before
           /\ calls[t] # <<>> =>
                (at'[t] \in Before \cup {"return"} <=> at[t] \in Before \cup {"return"}),
         Control', Start', Purges'
  PROVE  Inv'
<1>1. \A t \in Threads : Running(t)' = Running(t)
  BY DEF Running, Top
<1>2. Types'
  BY DEF Inv, Types
<1>3. \A t \in Threads : Held(t)' = Held(t) /\ Coming(t)' \subseteq Coming(t)
  BY <1>1 DEF Held, Coming
<1>4. Places'
  BY <1>1, <1>3 DEF Inv, Places
<1>5. Fresh'
  BY <1>3 DEF Inv, Fresh, IsFresh
<1>6. Latches'
  <2>1. ASSUME NEW t \in Threads PROVE LatchesOf(t)'
    <3>1. \A h \in Given(t) : task[h].latch = 1
      BY DEF Inv, Latches, LatchesOf
    <3>2. \A h \in Owed(t) : task[h].latch = 2
      BY DEF Inv, Latches, LatchesOf
    <3>3. ASSUME NEW h \in Running(t)
          PROVE  task[h].latch = IF at'[t] \in Before \cup {"return"} THEN 1 ELSE 0
      <4>1. calls[t] # <<>>
        BY <3>3 DEF Running
      <4>2. task[h].latch = IF at[t] \in Before \cup {"return"} THEN 1 ELSE 0
        BY <3>3 DEF Inv, Latches, LatchesOf
      <4> QED
        BY <4>1, <4>2
    <3> QED
      BY <1>1, <3>1, <3>2, <3>3 DEF LatchesOf
  <2> QED
    BY <2>1 DEF Inv, Latches
<1>7. Slots'
  <2>1. \A t \in Threads : \A h : IsDone(t, h) => IsDone(t, h)'
    BY DEF IsDone, Top
  <2> QED
    BY <2>1 DEF Inv, Slots
<1> QED
  BY <1>2, <1>4, <1>5, <1>6, <1>7 DEF Inv

\* One thread goes on without moving a handle; others may be woken.
LEMMA Goes ==
  ASSUME Inv, NEW t \in Threads,
         UNCHANGED <<task, ready, deletion, calls, adj, kept, home, current, process, phase>>,
         at' \in [Threads -> Outside \cup Inside \cup Submitting],
         batch' \in [Threads -> Batches],
         \A s \in Threads \ {t} :
           /\ batch'[s] = batch[s]
           /\ at'[s] = at[s] \/ (at[s] = "asleep" /\ at'[s] = "check"),
         at[t] # "enqueue", at'[t] # "enqueue",
         t = main => phase # "created",
         at'[t] = "purge" <=> at[t] = "purge",
         at'[t] \in Before => at[t] \in Before,
         calls[t] # <<>> =>
           (at'[t] \in Before \cup {"return"} <=> at[t] \in Before \cup {"return"}),
         Owed(t)' = Owed(t),
         ControlOf(t)'
  PROVE  Inv'
<1>1. \A s \in Threads : Given(s)' = Given(s)
  BY DEF Given
<1>2. \A s \in Threads : Owed(s)' = Owed(s)
  BY DEF Owed, Top
<1>3. ASSUME NEW s \in Threads PROVE ControlOf(s)'
  <2>1. CASE s = t
    BY <2>1
  <2>2. CASE s # t /\ at'[s] = at[s]
    BY <2>2 DEF Inv, Control, ControlOf
  <2>3. CASE s # t /\ at[s] = "asleep" /\ at'[s] = "check"
    BY <2>3 DEF Inv, Control, ControlOf, Outside, Inside, Before, Submitting
  <2> QED
    BY <2>1, <2>2, <2>3
<1>4. Control'
  BY <1>3 DEF Control
<1>5. Start'
  BY Workforce DEF Inv, Start
<1>6. Purging' = Purging
  BY DEF Purging
<1>7. Purges'
  BY <1>6 DEF Inv, Purges
<1>8. \A s \in Threads \ {t} :
        /\ at'[s] \in Before => at[s] \in Before
        /\ calls[s] # <<>> => (at'[s] \in Before \cup {"return"} <=> at[s] \in Before \cup {"return"})
  BY DEF Before
<1> QED
  BY <1>1, <1>2, <1>4, <1>5, <1>7, <1>8, Quiet

\* Nothing of a loop runs before the loops are launched.
LEMMA Launched ==
  ASSUME Inv, NEW t \in Threads, calls[t] # <<>> \/ at[t] \in Submitting
  PROVE  phase # "created"
<1> USE DEF Inv
<1>1. CASE calls[t] # <<>>
  BY <1>1 DEF Start
<1>2. CASE at[t] \in Submitting /\ calls[t] = <<>>
  BY <1>2, Workforce DEF Control, ControlOf, Start, Submitting
<1> QED
  BY <1>1, <1>2

LEMMA AddSizeInv ==
  ASSUME Inv, NEW t \in Threads, AddSize(t), UNCHANGED loopVars
  PROVE  Inv'
<1>1. /\ at[t] = "add"
      /\ \E step \in {"notify", AfterSubmit(t)} : at' = [at EXCEPT ![t] = step]
      /\ UNCHANGED <<task, ready, deletion, calls, adj, kept, home, current, process, phase>>
  BY DEF AddSize, Goto, loopVars
<1>2. batch' \in [Threads -> Batches] /\ \A s \in Threads \ {t} : batch'[s] = batch[s]
  <2>1. CASE EndSubmit(t)
    BY <2>1 DEF EndSubmit, NoBatch, Inv, Types, Batches
  <2>2. CASE UNCHANGED batch
    BY <2>2 DEF Inv, Types
  <2> QED
    BY <2>1, <2>2 DEF AddSize
<1>3. PICK step \in {"notify", "client", "adjacent"} :
        /\ at' = [at EXCEPT ![t] = step]
        /\ step = "client" => calls[t] = <<>>
        /\ step = "adjacent" => calls[t] # <<>>
  BY <1>1 DEF AfterSubmit
<1>4. /\ at' \in [Threads -> Outside \cup Inside \cup Submitting] /\ at'[t] = step
      /\ \A s \in Threads \ {t} : at'[s] = at[s]
  BY <1>3 DEF Inv, Types, Outside, Inside, Submitting
<1>5. ControlOf(t) /\ phase # "created" /\ (t = main \/ t \in Workers) /\ main \notin Workers
  BY <1>1, Launched, Workforce DEF Inv, Control, Submitting
<1>6. Owed(t)' = Owed(t)
  <2>1. calls[t] # <<>> => adj[t] = 2
    BY <1>1, <1>5 DEF ControlOf, Submitting
  <2> QED
    BY <1>1, <1>3, <1>4, <2>1 DEF Owed
<1>7. ControlOf(t)'
  BY <1>1, <1>3, <1>4, <1>5 DEF ControlOf, Outside, Inside, Before, Submitting
<1>8. at[t] \notin Before \cup {"return"} /\ step \notin Before \cup {"return", "purge", "enqueue"}
  BY <1>1, <1>3 DEF Before
<1> QED
  BY <1>1, <1>2, <1>4, <1>5, <1>6, <1>7, <1>8, Goes

LEMMA NotifyInv ==
  ASSUME Inv, NEW t \in Threads, Notify(t), UNCHANGED loopVars
  PROVE  Inv'
<1>1. /\ at[t] = "notify"
      /\ \E woken \in SUBSET Asleep : \E step \in {"notify", AfterSubmit(t)} : Wake(t, woken, step)
      /\ UNCHANGED <<task, ready, deletion, calls, adj, kept, home, current, process, phase>>
  BY DEF Notify, poolVars, loopVars
<1>2. batch' \in [Threads -> Batches] /\ \A s \in Threads \ {t} : batch'[s] = batch[s]
  <2>1. CASE EndSubmit(t)
    BY <2>1 DEF EndSubmit, NoBatch, Inv, Types, Batches
  <2>2. CASE batch' = [batch EXCEPT ![t].left = @ - 1]
    <3>1. batch \in [Threads -> Batches] /\ batch[t] \in Batches
      BY DEF Inv, Types
    <3>2. [batch[t] EXCEPT !.left = @ - 1] \in Batches
      BY <3>1 DEF Batches
    <3> QED
      BY <2>2, <3>1, <3>2
  <2> QED
    BY <2>1, <2>2 DEF Notify
<1>3. PICK step \in {"notify", "client", "adjacent"}, woken \in SUBSET Asleep :
        /\ Wake(t, woken, step)
        /\ step = "client" => calls[t] = <<>>
        /\ step = "adjacent" => calls[t] # <<>>
  BY <1>1 DEF AfterSubmit
<1>4. /\ at' \in [Threads -> Outside \cup Inside \cup Submitting] /\ at'[t] = step
      /\ \A s \in Threads \ {t} : at'[s] = at[s] \/ (at[s] = "asleep" /\ at'[s] = "check")
  BY <1>3 DEF Wake, Asleep, Inv, Types, Outside, Inside, Submitting
<1>5. ControlOf(t) /\ phase # "created" /\ (t = main \/ t \in Workers) /\ main \notin Workers
  BY <1>1, Launched, Workforce DEF Inv, Control, Submitting
<1>6. Owed(t)' = Owed(t)
  <2>1. calls[t] # <<>> => adj[t] = 2
    BY <1>1, <1>5 DEF ControlOf, Submitting
  <2> QED
    BY <1>1, <1>3, <1>4, <2>1 DEF Owed
<1>7. ControlOf(t)'
  BY <1>1, <1>3, <1>4, <1>5 DEF ControlOf, Outside, Inside, Before, Submitting
<1>8. at[t] \notin Before \cup {"return"} /\ step \notin Before \cup {"return", "purge", "enqueue"}
  BY <1>1, <1>3 DEF Before
<1> QED
  BY <1>1, <1>2, <1>4, <1>5, <1>6, <1>7, <1>8, Goes

\* A thread inside of a task goes on in it.
LEMMA InsideGoes ==
  ASSUME Inv, NEW t \in Threads, NEW step \in Inside,
         at[t] \in Before \cup {"adjacent"},
         step \in Before \/ (step = "return" /\ at[t] \in Before) \/ (step = "retire" /\ at[t] = "adjacent"),
         at[t] = "adjacent" => step = "retire" /\ adj[t] > Len(task[Top(t)].adjacencies),
         at' = [at EXCEPT ![t] = step],
         UNCHANGED <<task, ready, deletion, calls, adj, batch, kept, home, current, process, phase>>
  PROVE  Inv'
<1>1. /\ at' \in [Threads -> Outside \cup Inside \cup Submitting] /\ at'[t] = step
      /\ \A s \in Threads \ {t} : at'[s] = at[s]
  BY DEF Inv, Types
<1>2. calls[t] # <<>> /\ phase # "created" /\ ControlOf(t)
  BY Launched DEF Inv, Control, ControlOf, Inside
<1>3. Owed(t) = {}
  <2>1. CASE at[t] = "adjacent"
    <3> SUFFICES ASSUME NEW b \in Handles, adj[t] = 1, task[Top(t)].adjacencies = <<b>> PROVE FALSE
      BY DEF Owed
    <3>1. Len(task[Top(t)].adjacencies) = 1
      BY Stacks
    <3> QED
      BY <2>1, <3>1
  <2>2. CASE at[t] \in Before
    BY <2>2 DEF Owed, Before
  <2> QED
    BY <2>1, <2>2
<1>4. Owed(t)' = {}
  <2>1. CASE at[t] \in Before
    <3>1. Top(t) \in Coming(t)
      BY <1>2, <2>1 DEF Coming, Running
    <3>2. task[Top(t)].adjacencies = <<>>
      BY <3>1 DEF Inv, Fresh, IsFresh
    <3> QED
      BY <3>2, Stacks DEF Owed, Top
  <2>2. CASE step = "retire"
    BY <1>1, <2>2 DEF Owed
  <2> QED
    BY <2>1, <2>2
<1>5. ControlOf(t)'
  BY <1>1, <1>2 DEF ControlOf, Outside, Inside, Before, Submitting
<1>6. batch' \in [Threads -> Batches] /\ at[t] # "enqueue" /\ step \notin {"enqueue", "purge"} /\ at[t] # "purge"
  BY DEF Inv, Types, Inside, Before
<1>7. /\ step \in Before => at[t] \in Before
      /\ step \in Before \cup {"return"} <=> at[t] \in Before \cup {"return"}
  BY DEF Before
<1> QED
  BY <1>1, <1>2, <1>3, <1>4, <1>5, <1>6, <1>7, Goes

\* What a body does but to make its successor and to return: its lines between.
LEMMA BodyGoes ==
  ASSUME Inv, NEW t \in Threads,
         Enter(t) \/ Answered(t) \/ TimedOut(t) \/ Served(t) \/ Failed(t)
  PROVE  Inv'
<1>1. /\ at[t] \in Before
      /\ UNCHANGED <<task, ready, deletion, calls, adj, batch, kept, home, current, process, phase>>
  BY DEF Enter, Answered, TimedOut, Served, Failed, poolVars, loopVars, Before
<1>2. PICK step \in {"return", "work", "next"} : at' = [at EXCEPT ![t] = step]
  BY DEF Enter, Answered, TimedOut, Served, Failed, Goto
<1> QED
  BY <1>1, <1>2, InsideGoes DEF Inside, Before

LEMMA SubSizeInv ==
  ASSUME Inv, NEW t \in Threads, SubSize(t), UNCHANGED loopVars
  PROVE  Inv'
<1>1. /\ at[t] = "sub" /\ at' = [at EXCEPT ![t] = "body"]
      /\ UNCHANGED <<task, ready, deletion, calls, adj, batch, kept, home, current, process, phase>>
  BY DEF SubSize, Goto, loopVars
<1> QED
  BY <1>1, InsideGoes DEF Inside, Before

LEMMA AdjacentDoneInv ==
  ASSUME Inv, NEW t \in Threads, AdjacentDone(t), UNCHANGED loopVars
  PROVE  Inv'
<1>1. /\ at[t] = "adjacent" /\ at' = [at EXCEPT ![t] = "retire"]
      /\ adj[t] > Len(task[Top(t)].adjacencies)
      /\ UNCHANGED <<task, ready, deletion, calls, adj, batch, kept, home, current, process, phase>>
  BY DEF AdjacentDone, Goto, poolVars, loopVars
<1> QED
  BY <1>1, InsideGoes DEF Inside, Before

\* A worker outside of tasks goes on there.
LEMMA OutsideGoes ==
  ASSUME Inv, NEW w \in Workers,
         NEW step \in {"top", "check", "prewait", "asleep", "drain", "exit"},
         at[w] \in {"top", "check", "prewait", "asleep", "drain"},
         at' = [at EXCEPT ![w] = step],
         UNCHANGED <<task, ready, deletion, calls, adj, batch, kept, home, current, process, phase>>
  PROVE  Inv'
<1>0. w \in Threads /\ w # main
  BY Workforce
<1>1. /\ at' \in [Threads -> Outside \cup Inside \cup Submitting] /\ at'[w] = step
      /\ \A s \in Threads \ {w} : at'[s] = at[s]
  BY <1>0 DEF Inv, Types, Outside
<1>2. calls[w] = <<>> /\ ControlOf(w)
  BY <1>0 DEF Inv, Control, ControlOf, Outside
<1>3. Owed(w) = {} /\ Owed(w)' = {}
  BY <1>1 DEF Owed
<1>4. ControlOf(w)'
  BY <1>0, <1>1, <1>2 DEF ControlOf, Outside, Inside, Before, Submitting
<1>5. batch' \in [Threads -> Batches] /\ step \notin Before
  BY DEF Inv, Types, Before
<1> QED
  BY <1>0, <1>1, <1>2, <1>3, <1>4, <1>5, Goes

\* Steps that change neither a thread nor a handle.
LEMMA StutterInv ==
  ASSUME Inv, UNCHANGED <<task, ready, deletion, at, calls, adj, batch, kept, home, current, process>>,
         phase' = phase \/ (phase # "created" /\ phase' # "created")
  PROVE  Inv'
<1>1. \A t \in Threads : Given(t)' = Given(t)
  BY DEF Given
<1>2. \A t \in Threads : Owed(t)' = Owed(t)
  BY DEF Owed, Top
<1>3. Control'
  BY DEF Inv, Control, ControlOf
<1>4. Start'
  BY DEF Inv, Start
<1>5. Purges'
  BY DEF Inv, Purges, Purging
<1>6. at' \in [Threads -> Outside \cup Inside \cup Submitting] /\ batch' \in [Threads -> Batches]
  BY DEF Inv, Types
<1> QED
  BY <1>1, <1>2, <1>3, <1>4, <1>5, <1>6, Quiet

LEMMA RequestStopInv ==
  ASSUME Inv, RequestStop
  PROVE  Inv'
<1>1. /\ phase = "destroying" /\ phase' = "joining"
      /\ at' = [t \in Threads |-> IF at[t] = "asleep" THEN "check" ELSE at[t]]
      /\ UNCHANGED <<task, ready, deletion, calls, adj, batch, kept, home, current, process>>
  BY DEF RequestStop
<1>2. \A t \in Threads : at'[t] = at[t] \/ (at[t] = "asleep" /\ at'[t] = "check")
  BY <1>1
<1>3. \A t \in Threads : Given(t)' = Given(t)
  BY <1>1, <1>2 DEF Given
<1>4. \A t \in Threads : Owed(t)' = Owed(t)
  BY <1>1, <1>2 DEF Owed, Top
<1>5. ASSUME NEW t \in Threads PROVE ControlOf(t)'
  <2>1. CASE at'[t] = at[t]
    BY <1>1, <2>1 DEF Inv, Control, ControlOf
  <2>2. CASE at[t] = "asleep" /\ at'[t] = "check"
    BY <1>1, <2>2 DEF Inv, Control, ControlOf, Outside, Inside, Before, Submitting
  <2> QED
    BY <1>2, <2>1, <2>2
<1>6. Start'
  BY <1>1 DEF Start
<1>7. Purging' = Purging
  BY <1>2 DEF Purging
<1>8. Purges'
  BY <1>1, <1>7 DEF Inv, Purges
<1>9. at' \in [Threads -> Outside \cup Inside \cup Submitting] /\ batch' \in [Threads -> Batches]
  BY <1>1 DEF Inv, Types, Outside
<1>10. Control'
  BY <1>5 DEF Control
<1>11. \A t \in Threads :
         /\ at'[t] \in Before => at[t] \in Before
         /\ calls[t] # <<>> => (at'[t] \in Before \cup {"return"} <=> at[t] \in Before \cup {"return"})
  BY <1>2 DEF Before
<1> QED
  BY <1>1, <1>3, <1>4, <1>6, <1>8, <1>9, <1>10, <1>11, Quiet

\* The queue is empty, so this thread need not be counted among those that purge.
LEMMA PurgeDoneInv ==
  ASSUME Inv, NEW t \in Threads, PurgeDone(t), UNCHANGED loopVars
  PROVE  Inv'
<1>1. /\ at[t] = "purge" /\ deletion = {} /\ deletion' = {}
      /\ calls[t] = <<>> /\ t \in Workers
      /\ kept' = kept
  BY Workforce DEF PurgeDone, Inv, Types, Control, ControlOf, Outside, Submitting
<1>2. /\ at' = [at EXCEPT ![t] = "drain"]
      /\ UNCHANGED <<task, ready, deletion, calls, adj, batch, kept, home, current, process, phase>>
  BY <1>1 DEF PurgeDone, Goto, loopVars, Inv, Types
<1>3. /\ at' \in [Threads -> Outside \cup Inside \cup Submitting] /\ at'[t] = "drain"
      /\ \A s \in Threads \ {t} : at'[s] = at[s]
  BY <1>2 DEF Inv, Types, Outside
<1>4. \A s \in Threads : Given(s)' = Given(s)
  BY <1>1, <1>2, <1>3, Workforce DEF Given
<1>5. \A s \in Threads : Owed(s)' = Owed(s)
  BY <1>1, <1>2, <1>3 DEF Owed, Top
<1>6. ASSUME NEW s \in Threads PROVE ControlOf(s)'
  <2>1. CASE s # t
    BY <1>2, <1>3, <2>1 DEF Inv, Control, ControlOf
  <2>2. CASE s = t
    BY <1>1, <1>2, <1>3, <2>2, Workforce DEF Inv, Control, ControlOf, Outside, Inside, Before, Submitting
  <2> QED
    BY <2>1, <2>2
<1>7. Start'
  BY <1>1, <1>2, <1>3, Workforce DEF Inv, Start
<1>8. Purges'
  <2>1. IsFiniteSet(Purging') /\ Cardinality(Purging') \in Nat
    <3>1. Purging' \subseteq Threads
      BY DEF Purging
    <3> QED
      BY <3>1, Workforce, FS_Subset, FS_CardinalityType
  <2>2. Cardinality({}) = 0
    BY FS_EmptySet
  <2> QED
    BY <1>1, <2>1, <2>2 DEF Purges
<1>9. batch' \in [Threads -> Batches] /\ Control'
  BY <1>2, <1>6 DEF Inv, Types, Control
<1>10. \A s \in Threads :
         /\ at'[s] \in Before => at[s] \in Before
         /\ calls[s] # <<>> => (at'[s] \in Before \cup {"return"} <=> at[s] \in Before \cup {"return"})
  BY <1>1, <1>3 DEF Before
<1> QED
  BY <1>2, <1>3, <1>4, <1>5, <1>7, <1>8, <1>9, <1>10, Quiet

------------------------------------------------------------------------------
(* The steps that move a handle. *)

\* What a step of t leaves to the other threads.
LEMMA Others ==
  ASSUME Inv, NEW t \in Threads,
         \A s \in Threads \ {t} :
           /\ at'[s] = at[s] /\ calls'[s] = calls[s] /\ adj'[s] = adj[s] /\ batch'[s] = batch[s]
           /\ \A h \in Running(s) : task'[h].adjacencies = task[h].adjacencies,
         phase # "created", phase' # "created"
  PROVE  \A s \in Threads \ {t} :
           /\ Running(s)' = Running(s) /\ Given(s)' = Given(s) /\ Owed(s)' = Owed(s)
           /\ Held(s)' = Held(s) /\ Coming(s)' = Coming(s)
           /\ ControlOf(s)'
<1> SUFFICES ASSUME NEW s \in Threads \ {t}
             PROVE  /\ Running(s)' = Running(s) /\ Given(s)' = Given(s) /\ Owed(s)' = Owed(s)
                    /\ Held(s)' = Held(s) /\ Coming(s)' = Coming(s)
                    /\ ControlOf(s)'
  OBVIOUS
<1>1. Running(s)' = Running(s) /\ Top(s)' = Top(s)
  BY DEF Running, Top
<1>2. Given(s)' = Given(s)
  BY DEF Given
<1>3. at[s] \in {"return", "adjacent"} => Top(s) \in Running(s)
  BY DEF Inv, Control, ControlOf, Inside, Running
<1>4. Owed(s)' = Owed(s)
  BY <1>1, <1>3 DEF Owed
<1>5. ControlOf(s)'
  BY DEF Inv, Control, ControlOf
<1> QED
  BY <1>1, <1>2, <1>4, <1>5 DEF Held, Coming

LEMMA EnqueueInv ==
  ASSUME Inv, NEW t \in Threads, Enqueue(t), UNCHANGED loopVars
  PROVE  Inv'
<1> USE DEF Inv
<1>1. /\ at[t] = "enqueue"
      /\ at' = [at EXCEPT ![t] = "add"]
      /\ ready' = ready \cup batch[t].handles
      /\ UNCHANGED <<task, deletion, calls, adj, batch, kept, home, process, current, phase>>
  BY DEF Enqueue, Goto, loopVars
<1>2. at'[t] = "add" /\ \A s \in Threads \ {t} : at'[s] = at[s]
  BY <1>1 DEF Types
<1>3. phase # "created"
  BY <1>1, Launched DEF Submitting
<1>4. \A s \in Threads \ {t} :
        /\ Running(s)' = Running(s) /\ Given(s)' = Given(s) /\ Owed(s)' = Owed(s)
        /\ Held(s)' = Held(s) /\ Coming(s)' = Coming(s)
        /\ ControlOf(s)'
  BY <1>1, <1>2, <1>3, Others
<1>5. /\ Given(t) = batch[t].handles /\ Given(t)' = {}
      /\ Owed(t) = {} /\ Owed(t)' = {}
      /\ Running(t)' = Running(t)
  BY <1>1, <1>2, <1>3 DEF Given, Owed, Running, Top
<1>6. Held(t) = Running(t) \cup batch[t].handles /\ Held(t)' = Running(t) /\ Coming(t)' = {}
  BY <1>2, <1>5 DEF Held, Coming, Before
<1>7. Types'
  <2>1. batch[t].handles \subseteq Handles
    BY DEF Types, Batches
  <2> QED
    BY <1>1, <2>1 DEF Types, Submitting
<1>8. Control' /\ Start'
  <2>1. ControlOf(t)'
    BY <1>1, <1>2 DEF Control, ControlOf, Outside, Inside, Before, Submitting
  <2> QED
    BY <1>1, <1>3, <1>4, <2>1 DEF Control, Start
<1>9. Places'
  <2>1. ready' \cap deletion' = {} /\ ready' \cup deletion' \subseteq DOMAIN task'
    BY <1>1, <1>6 DEF Places
  <2>2. ASSUME NEW s \in Threads
        PROVE  /\ Held(s)' \subseteq DOMAIN task' \ (ready' \cup deletion')
               /\ Running(s)' \cap (Given(s)' \cup Owed(s)') = {}
    <3>1. CASE s = t
      BY <1>1, <1>5, <1>6, <3>1 DEF Places
    <3>2. CASE s # t
      BY <1>1, <1>4, <1>6, <3>2 DEF Places
    <3> QED
      BY <3>1, <3>2
  <2>3. ASSUME NEW r \in Threads, NEW s \in Threads, r # s PROVE Held(r)' \cap Held(s)' = {}
    BY <1>4, <1>6, <2>3 DEF Places
  <2> QED
    BY <2>1, <2>2, <2>3 DEF Places
<1>10. Fresh'
  <2>1. \A h \in batch[t].handles : IsFresh(h)
    BY <1>5 DEF Fresh, Coming
  <2>2. \A h : IsFresh(h) => IsFresh(h)'
    BY <1>1 DEF IsFresh
  <2> QED
    BY <1>1, <1>4, <1>6, <2>1, <2>2 DEF Fresh
<1>11. Latches'
  <2>1. \A h \in ready' : task'[h].latch = 1
    BY <1>1, <1>5 DEF Latches, LatchesOf
  <2>2. ASSUME NEW s \in Threads PROVE LatchesOf(s)'
    <3>1. CASE s = t
      BY <1>1, <1>2, <1>5, <3>1 DEF Latches, LatchesOf, Before
    <3>2. CASE s # t
      BY <1>1, <1>2, <1>4, <3>2 DEF Latches, LatchesOf
    <3> QED
      BY <3>1, <3>2
  <2> QED
    BY <1>1, <2>1, <2>2 DEF Latches
<1>12. Purges'
  <2>1. Purging' = Purging
    BY <1>1, <1>2 DEF Purging
  <2> QED
    BY <1>1, <2>1 DEF Purges
<1>13. Slots'
  <2>1. \A s \in Threads : \A h : IsDone(s, h) => IsDone(s, h)'
    BY <1>1, <1>2 DEF IsDone, Top, Before
  <2> QED
    BY <1>1, <2>1 DEF Slots
<1> QED
  BY <1>7, <1>8, <1>9, <1>10, <1>11, <1>12, <1>13

LEMMA TakeInv ==
  ASSUME Inv, NEW w \in Workers, at[w] = "drain", NEW h \in ready, Take(w, h), UNCHANGED loopVars
  PROVE  Inv'
<1> USE DEF Inv
<1>0. w \in Threads /\ w # main /\ h \in Handles /\ h \in DOMAIN task
  BY Workforce DEF Types, Places
<1>1. /\ calls[w] = <<>> /\ calls' = [calls EXCEPT ![w] = <<h>>]
      /\ ready' = ready \ {h}
      /\ at' = [at EXCEPT ![w] = "sub"]
      /\ UNCHANGED <<task, deletion, adj, batch, kept, home, process, current, phase>>
  <2>1. calls[w] = <<>>
    BY <1>0 DEF Control, ControlOf, Outside
  <2>2. <<h>> \o calls[w] = <<h>>
    BY <1>0, <2>1, Stacks
  <2> QED
    BY <2>1, <2>2 DEF Take, Goto, loopVars
<1>2. /\ at'[w] = "sub" /\ \A s \in Threads \ {w} : at'[s] = at[s]
      /\ calls'[w] = <<h>> /\ \A s \in Threads \ {w} : calls'[s] = calls[s]
  BY <1>0, <1>1 DEF Types
<1>3. phase # "created"
  BY DEF Start
<1>4. \A s \in Threads \ {w} :
        /\ Running(s)' = Running(s) /\ Given(s)' = Given(s) /\ Owed(s)' = Owed(s)
        /\ Held(s)' = Held(s) /\ Coming(s)' = Coming(s)
        /\ ControlOf(s)'
  BY <1>0, <1>1, <1>2, <1>3, Others
<1>5. /\ Given(w)' = {} /\ Owed(w)' = {} /\ Running(w)' = {h}
      /\ Held(w)' = {h} /\ Coming(w)' = {h}
  <2>1. Given(w)' = {} /\ Owed(w)' = {} /\ Running(w)' = {h}
    BY <1>0, <1>1, <1>2, Stacks DEF Given, Owed, Running, Top
  <2> QED
    BY <1>2, <2>1 DEF Held, Coming, Before
<1>7. Types'
  <2>1. <<h>> \in Short
    BY <1>0, Stacks
  <2> QED
    BY <1>1, <2>1 DEF Types, Inside, Before
<1>8. Control' /\ Start'
  <2>1. ControlOf(w)'
    BY <1>0, <1>1, <1>2, Stacks DEF Control, ControlOf, Outside, Inside, Before, Submitting
  <2> QED
    BY <1>1, <1>3, <1>4, <2>1 DEF Control, Start
<1>9. Places'
  <2>1. ready' \cap deletion' = {} /\ ready' \cup deletion' \subseteq DOMAIN task'
    BY <1>1 DEF Places
  <2>2. ASSUME NEW s \in Threads
        PROVE  /\ Held(s)' \subseteq DOMAIN task' \ (ready' \cup deletion')
               /\ Running(s)' \cap (Given(s)' \cup Owed(s)') = {}
    <3>1. CASE s = w
      BY <1>0, <1>1, <1>5, <3>1 DEF Places
    <3>2. CASE s # w
      BY <1>1, <1>4, <3>2 DEF Places
    <3> QED
      BY <3>1, <3>2
  <2>3. \A s \in Threads : h \notin Held(s)
    BY DEF Places
  <2>4. ASSUME NEW r \in Threads, NEW s \in Threads, r # s PROVE Held(r)' \cap Held(s)' = {}
    BY <1>4, <1>5, <2>3, <2>4 DEF Places
  <2> QED
    BY <2>1, <2>2, <2>4 DEF Places
<1>10. Fresh'
  <2>1. \A x : IsFresh(x) => IsFresh(x)'
    BY <1>1 DEF IsFresh
  <2> QED
    BY <1>1, <1>4, <1>5, <2>1 DEF Fresh
<1>11. Latches'
  <2>1. task[h].latch = 1
    BY DEF Latches
  <2>2. ASSUME NEW s \in Threads PROVE LatchesOf(s)'
    <3>1. CASE s = w
      BY <1>1, <1>2, <1>5, <2>1, <3>1 DEF LatchesOf, Before
    <3>2. CASE s # w
      BY <1>1, <1>2, <1>4, <3>2 DEF Latches, LatchesOf
    <3> QED
      BY <3>1, <3>2
  <2> QED
    BY <1>1, <2>2 DEF Latches
<1>12. Purges'
  <2>1. Purging' = Purging
    BY <1>1, <1>2 DEF Purging
  <2> QED
    BY <1>1, <2>1 DEF Purges
<1>13. Slots'
  <2>1. \A s \in Threads : \A x : IsDone(s, x) => IsDone(s, x)'
    BY <1>1, <1>2 DEF IsDone, Top
  <2> QED
    BY <1>1, <2>1 DEF Slots
<1> QED
  BY <1>7, <1>8, <1>9, <1>10, <1>11, <1>12, <1>13

\* A body that returns counts its own run down, and nobody else has its handle.
LEMMA ReturnInv ==
  ASSUME Inv, NEW t \in Threads, Return(t)
  PROVE  Inv'
<1> USE DEF Inv
<1> DEFINE a == Top(t)
<1>1. /\ at[t] = "return" /\ at' = [at EXCEPT ![t] = "adjacent"]
      /\ task' = [task EXCEPT ![a].latch = @ - 1]
      /\ UNCHANGED <<ready, deletion, calls, adj, batch, kept, home, process, current, phase>>
  BY DEF Return, Finish, Goto, loopVars
<1>2. at'[t] = "adjacent" /\ \A s \in Threads \ {t} : at'[s] = at[s]
  BY <1>1 DEF Types
<1>3. calls[t] # <<>> /\ phase # "created" /\ adj[t] = 1
  <2>1. ControlOf(t)
    BY DEF Control
  <2> QED
    BY <1>1, <2>1, Launched DEF ControlOf, Inside, Submitting, Types
<1>4. Running(t) = {a} /\ a \in DOMAIN task /\ a \notin ready \cup deletion
  BY <1>3 DEF Running, Held, Places
<1>5. /\ DOMAIN task' = DOMAIN task
      /\ \A h \in DOMAIN task \ {a} : task'[h] = task[h]
      /\ task'[a] = [task[a] EXCEPT !.latch = @ - 1]
  BY <1>1, <1>4
<1>6. /\ task[a] \in TaskRecord /\ task'[a] \in TaskRecord /\ task'[a].latch = task[a].latch - 1
      /\ task'[a].adjacencies = task[a].adjacencies /\ task'[a].job = task[a].job
  BY <1>4, <1>5 DEF Types, TaskRecord
<1>7. \A h \in DOMAIN task : task'[h].adjacencies = task[h].adjacencies /\ task'[h].job = task[h].job
  BY <1>5, <1>6
<1>8. \A s \in Threads : Running(s) \subseteq DOMAIN task
  BY DEF Places, Held
<1>9. \A s \in Threads \ {t} :
        /\ Running(s)' = Running(s) /\ Given(s)' = Given(s) /\ Owed(s)' = Owed(s)
        /\ Held(s)' = Held(s) /\ Coming(s)' = Coming(s)
        /\ ControlOf(s)'
  BY <1>1, <1>2, <1>3, <1>7, <1>8, Others
<1>10. /\ Running(t)' = Running(t) /\ Given(t)' = Given(t) /\ Owed(t)' = Owed(t)
       /\ Held(t)' = Held(t) /\ Coming(t)' = Coming(t)
  <2>1. Running(t)' = Running(t) /\ Top(t)' = a
    BY <1>1 DEF Running, Top
  <2>2. Given(t)' = Given(t)
    BY <1>1, <1>2, <1>3 DEF Given
  <2>3. Owed(t)' = Owed(t)
    BY <1>1, <1>2, <1>3, <1>6, <2>1 DEF Owed
  <2> QED
    BY <1>1, <1>2, <2>1, <2>2, <2>3 DEF Held, Coming, Before
<1> HIDE DEF a
<1>11. Types'
  <2>1. task' \in [DOMAIN task' -> TaskRecord]
    BY <1>1, <1>5, <1>6 DEF Types
  <2> QED
    BY <1>1, <1>5, <2>1 DEF Types, Inside
<1>12. Control' /\ Start'
  <2>1. ControlOf(t)'
    BY <1>1, <1>2, <1>3 DEF Control, ControlOf, Outside, Inside, Before, Submitting
  <2> QED
    BY <1>1, <1>3, <1>9, <2>1 DEF Control, Start
<1>13. Places'
  BY <1>1, <1>5, <1>9, <1>10 DEF Places
<1>14. \A s \in Threads : Coming(s) \subseteq DOMAIN task
  BY DEF Places, Held, Coming
<1>15. Fresh'
  <2>1. \A h \in DOMAIN task : IsFresh(h) => IsFresh(h)'
    BY <1>1, <1>7 DEF IsFresh
  <2> QED
    BY <1>1, <1>9, <1>10, <1>14, <2>1 DEF Fresh, Places
<1>16. Latches'
  <2>1. ASSUME NEW s \in Threads \ {t} PROVE LatchesOf(s)'
    <3>1. \A h \in Held(s) : h # a /\ h \in DOMAIN task
      BY <1>4 DEF Places, Held
    <3> QED
      BY <1>2, <1>5, <1>9, <2>1, <3>1 DEF Latches, LatchesOf, Held
  <2>2. LatchesOf(t)'
    <3>1. \A h \in Given(t) \cup Owed(t) : h # a /\ h \in DOMAIN task
      BY <1>4 DEF Places, Held
    <3>2. task[a].latch = 1
      BY <1>1, <1>4 DEF Latches, LatchesOf
    <3>3. task'[a].latch = 0
      BY <1>6, <3>2
    <3>4. \A h \in Running(t)' : task'[h].latch = 0
      BY <1>4, <1>10, <3>3
    <3>5. \A h \in Given(t)' : task'[h].latch = 1
      BY <1>5, <1>10, <3>1 DEF Latches, LatchesOf
    <3>6. \A h \in Owed(t)' : task'[h].latch = 2
      BY <1>5, <1>10, <3>1 DEF Latches, LatchesOf
    <3> QED
      BY <1>2, <3>4, <3>5, <3>6 DEF LatchesOf, Before
  <2> QED
    BY <1>1, <1>4, <1>5, <2>1, <2>2 DEF Latches, Places
<1>17. Purges'
  <2>1. Purging' = Purging
    BY <1>1, <1>2 DEF Purging
  <2> QED
    BY <1>1, <2>1 DEF Purges
<1>18. Slots'
  <2>1. \A s \in Threads : \A h : IsDone(s, h) => IsDone(s, h)'
    BY <1>1, <1>2 DEF IsDone, Top, Before
  <2> QED
    BY <1>1, <1>5, <1>7, <2>1 DEF Slots
<1> QED
  BY <1>11, <1>12, <1>13, <1>15, <1>16, <1>17, <1>18

\* The successor passes from what a thread owes to what it submits.
LEMMA ScheduleAdjacentInv ==
  ASSUME Inv, NEW t \in Threads, ScheduleAdjacent(t), UNCHANGED loopVars
  PROVE  Inv'
<1> USE DEF Inv
<1>1. at[t] = "adjacent" /\ calls[t] # <<>> /\ phase # "created" /\ adj[t] \in {1, 2}
  BY Launched DEF ScheduleAdjacent, Control, ControlOf, Inside, Types
<1>2. Running(t) = {Top(t)} /\ Top(t) \in DOMAIN task
  BY <1>1 DEF Running, Held, Places
<1>3. task[Top(t)].adjacencies \in Short /\ adj[t] <= Len(task[Top(t)].adjacencies)
  BY <1>2 DEF ScheduleAdjacent, Types, TaskRecord
<1>4. PICK b \in Handles : task[Top(t)].adjacencies = <<b>> /\ adj[t] = 1
  <2>1. task[Top(t)].adjacencies # <<>>
    BY <1>1, <1>3, Stacks
  <2>2. PICK b \in Handles : task[Top(t)].adjacencies = <<b>>
    BY <1>3, <2>1 DEF Short
  <2>3. adj[t] = 1
    BY <1>1, <1>3, <2>2, Stacks
  <2> QED
    BY <2>2, <2>3
<1>5. task[Top(t)].adjacencies[adj[t]] = b
  BY <1>4
<1>6. b \in Owed(t) /\ Owed(t) = {b}
  BY <1>1, <1>4, Stacks DEF Owed
<1>7. task[b].latch = 2 /\ b \in DOMAIN task
  BY <1>6 DEF Latches, LatchesOf, Places, Held
<1>8. /\ task' = [task EXCEPT ![b].latch = @ - 1]
      /\ BeginSubmit(t, {b}, ~task[b].continuation)
      /\ adj' = [adj EXCEPT ![t] = 2]
      /\ UNCHANGED <<ready, deletion, calls, kept, home, process, current, phase>>
  <2>1. adj' = [adj EXCEPT ![t] = adj[t] + 1]
    BY DEF ScheduleAdjacent
  <2>2. adj[t] + 1 = 2
    BY <1>4
  <2>3. adj' = [adj EXCEPT ![t] = 2]
    BY <2>1, <2>2
  <2>4. /\ task' = [task EXCEPT ![b].latch = @ - 1]
        /\ task[b].latch - 1 = 1 => BeginSubmit(t, {b}, ~task[b].continuation)
    BY <1>5 DEF ScheduleAdjacent
  <2>5. task[b].latch - 1 = 1
    BY <1>7
  <2>6. UNCHANGED <<ready, deletion, calls, kept, home, process, current, phase>>
    BY DEF ScheduleAdjacent, loopVars
  <2> QED
    BY <2>3, <2>4, <2>5, <2>6
<1>9. /\ at' = [at EXCEPT ![t] = "enqueue"]
      /\ batch' = [batch EXCEPT ![t] = [handles |-> {b}, wake |-> ~task[b].continuation,
                                        left |-> Cardinality({b})]]
  BY <1>8 DEF BeginSubmit, Goto
<1>10. /\ at'[t] = "enqueue" /\ adj'[t] = 2 /\ batch'[t].handles = {b}
       /\ \A s \in Threads \ {t} : at'[s] = at[s] /\ adj'[s] = adj[s] /\ batch'[s] = batch[s]
  BY <1>8, <1>9 DEF Types
<1>11. /\ DOMAIN task' = DOMAIN task
       /\ \A h \in DOMAIN task \ {b} : task'[h] = task[h]
       /\ task'[b] = [task[b] EXCEPT !.latch = @ - 1]
  BY <1>7, <1>8
<1>12. /\ task'[b] \in TaskRecord /\ task'[b].latch = 1
       /\ task'[b].adjacencies = task[b].adjacencies /\ task'[b].job = task[b].job
  BY <1>7, <1>11 DEF Types, TaskRecord
<1>13. \A h \in DOMAIN task : task'[h].adjacencies = task[h].adjacencies /\ task'[h].job = task[h].job
  BY <1>11, <1>12
<1>14. \A s \in Threads : Running(s) \subseteq DOMAIN task
  BY DEF Places, Held
<1>15. \A s \in Threads \ {t} :
         /\ Running(s)' = Running(s) /\ Given(s)' = Given(s) /\ Owed(s)' = Owed(s)
         /\ Held(s)' = Held(s) /\ Coming(s)' = Coming(s)
         /\ ControlOf(s)'
  BY <1>1, <1>8, <1>10, <1>13, <1>14, Others
<1>16. Given(t) = {}
  BY <1>1 DEF Given
<1>17. /\ Running(t)' = Running(t) /\ Given(t)' = {b} /\ Owed(t)' = {}
       /\ Held(t)' = Held(t) /\ Coming(t)' = Coming(t)
  <2>1. Running(t)' = Running(t) /\ Given(t)' = {b} /\ Owed(t)' = {}
    BY <1>8, <1>10 DEF Running, Given, Owed, Top
  <2> QED
    BY <1>1, <1>6, <1>10, <1>16, <2>1 DEF Held, Coming, Before
<1>18. Types'
  <2>1. task' \in [DOMAIN task' -> TaskRecord]
    BY <1>8, <1>11, <1>12 DEF Types
  <2>2. [handles |-> {b}, wake |-> ~task[b].continuation, left |-> Cardinality({b})] \in Batches
    <3>1. Cardinality({b}) = 1
      BY FS_Singleton
    <3>2. task[b].continuation \in BOOLEAN
      BY <1>7 DEF Types, TaskRecord
    <3>3. (~task[b].continuation) \in BOOLEAN
      OBVIOUS
    <3> QED
      BY <3>1, <3>3 DEF Batches
  <2>3. batch' \in [Threads -> Batches]
    BY <1>9, <2>2 DEF Types
  <2> QED
    BY <1>8, <1>9, <1>11, <2>1, <2>3 DEF Types, Submitting
<1>19. Control' /\ Start'
  <2>1. ControlOf(t)'
    BY <1>1, <1>8, <1>10 DEF Control, ControlOf, Outside, Inside, Before, Submitting
  <2> QED
    BY <1>1, <1>8, <1>15, <2>1 DEF Control, Start
<1>20. Places'
  <2>1. ASSUME NEW s \in Threads
        PROVE  /\ Held(s)' = Held(s)
               /\ Running(s)' \cap (Given(s)' \cup Owed(s)') = {}
    <3>1. CASE s = t
      BY <1>6, <1>17, <3>1 DEF Places
    <3>2. CASE s # t
      BY <1>15, <3>2 DEF Places
    <3> QED
      BY <3>1, <3>2
  <2> QED
    BY <1>8, <1>11, <2>1 DEF Places
<1>21. \A s \in Threads : Coming(s) \subseteq DOMAIN task /\ Coming(s)' = Coming(s)
  BY <1>15, <1>17 DEF Places, Held, Coming
<1>22. Fresh'
  <2>1. \A h \in DOMAIN task : IsFresh(h) => IsFresh(h)'
    BY <1>8, <1>13 DEF IsFresh
  <2> QED
    BY <1>8, <1>21, <2>1 DEF Fresh, Places
<1>23. Latches'
  <2>1. ASSUME NEW s \in Threads \ {t} PROVE LatchesOf(s)'
    <3>1. \A h \in Held(s) : h # b /\ h \in DOMAIN task
      BY <1>6 DEF Places, Held
    <3> QED
      BY <1>10, <1>11, <1>15, <2>1, <3>1 DEF Latches, LatchesOf, Held
  <2>2. LatchesOf(t)'
    <3>1. Top(t) # b
      BY <1>2, <1>6 DEF Places
    <3>2. task[Top(t)].latch = 0
      BY <1>1, <1>2 DEF Latches, LatchesOf, Before
    <3>3. \A h \in Running(t)' : task'[h].latch = 0
      BY <1>2, <1>11, <1>17, <3>1, <3>2
    <3>4. (\A h \in Given(t)' : task'[h].latch = 1) /\ \A h \in Owed(t)' : task'[h].latch = 2
      BY <1>12, <1>17
    <3> QED
      BY <1>10, <3>3, <3>4 DEF LatchesOf, Before
  <2>3. b \notin ready \cup deletion
    BY <1>6 DEF Places, Held
  <2> QED
    BY <1>8, <1>11, <2>1, <2>2, <2>3 DEF Latches, Places
<1>24. Purges'
  <2>1. Purging' = Purging
    BY <1>1, <1>10 DEF Purging
  <2> QED
    BY <1>8, <2>1 DEF Purges
<1>25. Slots'
  <2>1. \A s \in Threads : \A h : IsDone(s, h) => IsDone(s, h)'
    BY <1>8, <1>10 DEF IsDone, Top, Before
  <2> QED
    BY <1>8, <1>11, <1>13, <2>1 DEF Slots
<1> QED
  BY <1>18, <1>19, <1>20, <1>22, <1>23, <1>24, <1>25

\* A retired handle is in the queue for as long as its thread purges.
LEMMA RetireInv ==
  ASSUME Inv, NEW t \in Threads, Retire(t), UNCHANGED loopVars
  PROVE  Inv'
<1> USE DEF Inv
<1> DEFINE a == Top(t)
<1>1. /\ at[t] = "retire" /\ calls[t] # <<>> /\ phase # "created" /\ t \in Workers
      /\ calls[t] \in Short
  BY Launched, Workforce DEF Retire, Control, ControlOf, Inside, Types
<1>2. a \in Handles /\ Len(calls[t]) = 1 /\ Tail(calls[t]) = <<>> /\ home[t] = "drain"
  BY <1>1, Stacks DEF Top, Types
<1>3. /\ deletion' = deletion \cup {a}
      /\ calls' = [calls EXCEPT ![t] = <<>>]
      /\ adj' = [adj EXCEPT ![t] = 1]
      /\ at' = [at EXCEPT ![t] = "purge"]
      /\ UNCHANGED <<task, ready, batch, kept, home, process, current, phase>>
  BY <1>2 DEF Retire, Goto, loopVars
<1>4. Running(t) = {a} /\ a \in DOMAIN task /\ a \notin ready \cup deletion
  BY <1>1 DEF Running, Held, Places
<1>5. /\ at'[t] = "purge" /\ calls'[t] = <<>> /\ adj'[t] = 1
      /\ \A s \in Threads \ {t} : at'[s] = at[s] /\ calls'[s] = calls[s] /\ adj'[s] = adj[s]
  BY <1>3 DEF Types
<1>6. \A s \in Threads \ {t} :
        /\ Running(s)' = Running(s) /\ Given(s)' = Given(s) /\ Owed(s)' = Owed(s)
        /\ Held(s)' = Held(s) /\ Coming(s)' = Coming(s)
        /\ ControlOf(s)'
  BY <1>1, <1>3, <1>5, Others
<1>7. /\ Running(t)' = {} /\ Given(t)' = {} /\ Owed(t)' = {}
      /\ Held(t)' = {} /\ Coming(t)' = {}
  <2>1. Running(t)' = {} /\ Given(t)' = {} /\ Owed(t)' = {}
    BY <1>1, <1>3, <1>5 DEF Running, Given, Owed
  <2> QED
    BY <1>5, <2>1 DEF Held, Coming, Before
<1> HIDE DEF a
<1>8. Types'
  <2>1. <<>> \in Short
    BY Stacks
  <2> QED
    BY <1>2, <1>3, <2>1 DEF Types, Outside
<1>9. Control' /\ Start'
  <2>1. ControlOf(t)'
    BY <1>1, <1>3, <1>5, Workforce DEF Control, ControlOf, Outside, Inside, Before, Submitting
  <2> QED
    BY <1>1, <1>3, <1>6, <2>1 DEF Control, Start
<1>10. Places'
  <2>1. ready' \cap deletion' = {} /\ ready' \cup deletion' \subseteq DOMAIN task'
    BY <1>3, <1>4 DEF Places
  <2>2. ASSUME NEW s \in Threads
        PROVE  /\ Held(s)' \subseteq DOMAIN task' \ (ready' \cup deletion')
               /\ Running(s)' \cap (Given(s)' \cup Owed(s)') = {}
    <3>1. CASE s = t
      BY <1>7, <3>1
    <3>2. CASE s # t
      <4>1. a \notin Held(s)
        BY <1>4, <3>2 DEF Places, Held
      <4> QED
        BY <1>3, <1>6, <3>2, <4>1 DEF Places
    <3> QED
      BY <3>1, <3>2
  <2>3. ASSUME NEW r \in Threads, NEW s \in Threads, r # s PROVE Held(r)' \cap Held(s)' = {}
    BY <1>6, <1>7, <2>3 DEF Places
  <2> QED
    BY <2>1, <2>2, <2>3 DEF Places
<1>11. Fresh'
  <2>1. \A h : IsFresh(h) => IsFresh(h)'
    BY <1>3 DEF IsFresh
  <2> QED
    BY <1>3, <1>6, <1>7, <2>1 DEF Fresh
<1>12. Latches'
  <2>1. task[a].latch = 0
    BY <1>1, <1>4 DEF Latches, LatchesOf, Before
  <2>2. ASSUME NEW s \in Threads PROVE LatchesOf(s)'
    <3>1. CASE s = t
      BY <1>7, <3>1 DEF LatchesOf
    <3>2. CASE s # t
      BY <1>3, <1>5, <1>6, <3>2 DEF Latches, LatchesOf
    <3> QED
      BY <3>1, <3>2
  <2> QED
    BY <1>3, <2>1, <2>2 DEF Latches
<1>13. Purges'
  <2>1. Purging' = Purging \cup {t} /\ t \notin Purging
    BY <1>1, <1>5 DEF Purging
  <2>2. Cardinality(Purging \cup {t}) = Cardinality(Purging) + 1
    BY <2>1, FiniteCounts, FS_AddElement
  <2>3. Cardinality(deletion \cup {a}) = Cardinality(deletion) + 1
    BY <1>4, FiniteCounts, FS_AddElement
  <2>4. Cardinality(deletion \cup {a}) <= Cardinality(Purging \cup {t})
    BY <2>2, <2>3, FiniteCounts DEF Purges
  <2> QED
    BY <1>3, <2>1, <2>4 DEF Purges
<1>14. Slots'
  <2>1. \A s \in Threads : \A h : IsDone(s, h) => IsDone(s, h)' \/ h = a
    BY <1>5 DEF IsDone, Top, a
  <2> QED
    BY <1>3, <2>1 DEF Slots
<1> QED
  BY <1>8, <1>9, <1>10, <1>11, <1>12, <1>13, <1>14

\* What is destroyed is nobody's.
LEMMA PurgeOneInv ==
  ASSUME Inv, NEW t \in Threads, PurgeOne(t), UNCHANGED loopVars
  PROVE  Inv'
<1> USE DEF Inv
<1>1. PICK h \in deletion : deletion' = deletion \ {h} /\ (task[h].latch = 0 => task' = Destroyed(task, h) /\ UNCHANGED kept)
  BY DEF PurgeOne
<1>2. /\ task' = [x \in DOMAIN task \ {h} |-> task[x]]
      /\ UNCHANGED <<ready, at, calls, adj, batch, kept, home, process, current, phase>>
  BY <1>1 DEF PurgeOne, Destroyed, loopVars, Latches
<1>3. DOMAIN task' = DOMAIN task \ {h} /\ \A x \in DOMAIN task \ {h} : task'[x] = task[x]
  BY <1>2
<1>4. h \notin ready /\ \A s \in Threads : h \notin Held(s)
  BY DEF Places
<1>5. ready \subseteq DOMAIN task' /\ \A s \in Threads : Held(s) \subseteq DOMAIN task'
  BY <1>3, <1>4 DEF Places
<1>6. \A s \in Threads :
        /\ Running(s)' = Running(s) /\ Given(s)' = Given(s) /\ Owed(s)' = Owed(s)
        /\ Held(s)' = Held(s) /\ Coming(s)' = Coming(s)
  <2> SUFFICES ASSUME NEW s \in Threads
               PROVE  Running(s)' = Running(s) /\ Given(s)' = Given(s) /\ Owed(s)' = Owed(s)
    BY <1>2 DEF Held, Coming
  <2>1. Running(s)' = Running(s) /\ Given(s)' = Given(s) /\ Top(s)' = Top(s)
    BY <1>2 DEF Running, Given, Top
  <2>2. at[s] \in {"return", "adjacent"} => Top(s) \in Running(s)
    BY DEF Control, ControlOf, Inside, Running
  <2>3. Owed(s)' = Owed(s)
    BY <1>2, <1>3, <1>5, <2>1, <2>2 DEF Owed, Held
  <2> QED
    BY <2>1, <2>3
<1>7. Types'
  BY <1>1, <1>2, <1>3 DEF Types
<1>8. Control' /\ Start'
  BY <1>2 DEF Control, ControlOf, Start
<1>9. Places'
  BY <1>1, <1>2, <1>3, <1>5, <1>6 DEF Places
<1>10. Fresh'
  <2>1. \A x \in DOMAIN task' : IsFresh(x) => IsFresh(x)'
    BY <1>2, <1>3 DEF IsFresh
  <2>2. \A s \in Threads : Coming(s) \subseteq DOMAIN task'
    BY <1>5 DEF Held, Coming
  <2> QED
    BY <1>2, <1>5, <1>6, <2>1, <2>2 DEF Fresh
<1>11. Latches'
  <2>1. \A s \in Threads : LatchesOf(s)'
    BY <1>2, <1>3, <1>5, <1>6 DEF Latches, LatchesOf, Held
  <2> QED
    BY <1>1, <1>2, <1>3, <1>5, <2>1 DEF Latches, Places
<1>12. Purges'
  <2>1. Cardinality(deletion \ {h}) = Cardinality(deletion) - 1
    BY FiniteCounts, FS_RemoveElement
  <2>2. Purging' = Purging
    BY <1>2 DEF Purging
  <2>3. Cardinality(deletion \ {h}) <= Cardinality(Purging)
    BY <2>1, FiniteCounts DEF Purges
  <2> QED
    BY <1>1, <2>2, <2>3 DEF Purges
<1>13. Slots'
  <2>1. \A s \in Threads : \A x : IsDone(s, x) => IsDone(s, x)'
    BY <1>2 DEF IsDone, Top
  <2> QED
    BY <1>1, <1>2, <1>3, <2>1 DEF Slots
<1> QED
  BY <1>7, <1>8, <1>9, <1>10, <1>11, <1>12, <1>13

\* The tasks are launched by main, to whom they belonged.
LEMMA LaunchInv ==
  ASSUME Inv, Launch
  PROVE  Inv'
<1> USE DEF Inv
<1> DEFINE first == {current[l] : l \in LoopsOf(process)}
<1>1. /\ phase = "created" /\ phase' = "running" /\ at[main] = "client"
      /\ at' = [at EXCEPT ![main] = "enqueue"]
      /\ batch' = [batch EXCEPT ![main] = [handles |-> first, wake |-> TRUE,
                                           left |-> Cardinality(first)]]
      /\ UNCHANGED <<task, ready, deletion, calls, adj, kept, home, process, current>>
  BY DEF Launch, BeginSubmit, Goto, poolVars
<1>2. Given(main) = first
  BY <1>1 DEF Given
<1>3. first \subseteq Handles /\ Cardinality(first) \in Int
  <2>1. first \subseteq Handles
    <3>1. LoopsOf(process) \subseteq Loops
      BY LoopsAssumption DEF LoopsOf
    <3>2. \A l \in Loops : current[l] \in Handles
      BY DEF Types
    <3> QED
      BY <3>1, <3>2
  <2> QED
    BY <2>1, FiniteCounts, FS_Subset, FS_CardinalityType
<1> HIDE DEF first
<1>4. /\ at' \in [Threads -> Outside \cup Inside \cup Submitting] /\ at'[main] = "enqueue"
      /\ \A s \in Threads \ {main} : at'[s] = at[s]
  BY <1>1, Workforce DEF Types, Submitting
<1>5. /\ batch' \in [Threads -> Batches] /\ batch'[main].handles = first
      /\ \A s \in Threads \ {main} : batch'[s] = batch[s]
  <2>1. [handles |-> first, wake |-> TRUE, left |-> Cardinality(first)] \in Batches
    BY <1>3 DEF Batches
  <2> QED
    BY <1>1, <2>1, Workforce DEF Types
<1>6. \A s \in Threads : Given(s)' = Given(s)
  BY <1>1, <1>2, <1>4, <1>5 DEF Given
<1>7. \A s \in Threads : Owed(s)' = Owed(s)
  BY <1>1, <1>4 DEF Owed, Top
<1>8. Control'
  <2>1. ASSUME NEW s \in Threads PROVE ControlOf(s)'
    <3>1. CASE s = main
      BY <1>1, <1>4, <3>1, Workforce DEF Control, ControlOf, Outside, Inside, Before, Submitting
    <3>2. CASE s # main
      BY <1>1, <1>4, <3>2 DEF Control, ControlOf
    <3> QED
      BY <3>1, <3>2
  <2> QED
    BY <2>1 DEF Control
<1>9. Start'
  BY <1>1 DEF Start
<1>10. Purging' = Purging
  BY <1>1, <1>4 DEF Purging
<1>11. Purges'
  BY <1>1, <1>10 DEF Purges
<1>12. \A s \in Threads :
         /\ at'[s] \in Before => at[s] \in Before
         /\ calls[s] # <<>> => (at'[s] \in Before \cup {"return"} <=> at[s] \in Before \cup {"return"})
  BY <1>1, <1>4 DEF Before, Start
<1> QED
  BY <1>1, <1>4, <1>5, <1>6, <1>7, <1>8, <1>9, <1>11, <1>12, Quiet

\* The new task is nobody's yet, and the old one is the only one of its loop.
LEMMA RenewInv ==
  ASSUME Inv, NEW t \in Threads, Renew(t)
  PROVE  Inv'
<1> USE DEF Inv
<1> DEFINE c == Top(t)
           l == Loop(t)
<1>1. /\ at[t] = "next" /\ calls[t] # <<>> /\ phase # "created" /\ adj[t] = 1
      /\ at' = [at EXCEPT ![t] = "return"]
      /\ UNCHANGED <<ready, deletion, calls, adj, batch, kept, home, process, phase>>
  <2>1. at[t] = "next"
    BY DEF Renew
  <2>2. calls[t] # <<>> /\ adj[t] = 1
    BY <2>1 DEF Control, ControlOf, Inside, Before, Submitting, Types
  <2> QED
    BY <2>1, <2>2, Launched DEF Renew, Goto
<1>2. Running(t) = {c} /\ c \in Coming(t) /\ c \in DOMAIN task /\ c \notin ready \cup deletion
  BY <1>1 DEF Running, Coming, Before, Held, Places
<1>3. c = current[l] /\ task[c].adjacencies = <<>> /\ l = task[c].job /\ l \in Loops /\ c \in Handles
  BY <1>2 DEF Fresh, IsFresh, Loop, Types, TaskRecord
<1>4. PICK n \in Handles \ DOMAIN task :
        /\ task' = Linked(Constructed(task, n, l), current[l], n, TRUE)
        /\ current' = [current EXCEPT ![l] = n]
  BY DEF Renew, Allocatable, Free
<1> HIDE DEF c, l
<1> DEFINE new == [job |-> l, latch |-> 1, adjacencies |-> <<>>, continuation |-> FALSE]
           built == Constructed(task, n, l)
<1>5. /\ built = [x \in DOMAIN task \cup {n} |-> IF x = n THEN new ELSE task[x]]
      /\ c # n
  BY <1>2, <1>4 DEF Constructed, NewTask
<1>6. /\ DOMAIN task' = DOMAIN task \cup {n}
      /\ \A x \in DOMAIN task \ {c} : task'[x] = task[x]
      /\ task'[n] \in TaskRecord
      /\ task'[n].job = l /\ task'[n].latch = 2 /\ task'[n].adjacencies = <<>>
      /\ task'[c] = [task[c] EXCEPT !.adjacencies = <<n>>]
  <2> HIDE DEF new, built
  <2>1. /\ DOMAIN built = DOMAIN task \cup {n}
        /\ \A x \in DOMAIN task : built[x] = task[x]
        /\ built[n] = new
    BY <1>4, <1>5
  <2>2. task' = [built EXCEPT ![c].adjacencies = Append(@, n),
                              ![n].latch = @ + 1,
                              ![n].continuation = TRUE]
    BY <1>3, <1>4 DEF Linked, built
  <2>3. DOMAIN task' = DOMAIN built /\ \A x \in DOMAIN built \ {c, n} : task'[x] = built[x]
    BY <1>5, <2>2
  <2>4. task'[c] = [built[c] EXCEPT !.adjacencies = Append(@, n)]
    BY <1>2, <1>5, <2>1, <2>2
  <2>5. task'[n] = [[new EXCEPT !.latch = @ + 1] EXCEPT !.continuation = TRUE]
    BY <1>5, <2>1, <2>2
  <2>6. Append(<<>>, n) = <<n>>
    BY <1>4, Stacks
  <2>7. task'[c] = [task[c] EXCEPT !.adjacencies = <<n>>]
    <3>1. task[c] \in TaskRecord
      BY <1>2 DEF Types
    <3> QED
      BY <1>2, <1>3, <2>1, <2>4, <2>6, <3>1 DEF TaskRecord
  <2>8. /\ new \in TaskRecord /\ new.job = l /\ new.latch = 1 /\ new.adjacencies = <<>>
    BY <1>3, Stacks DEF new, TaskRecord
  <2>9. /\ task'[n] \in TaskRecord
        /\ task'[n].job = l /\ task'[n].latch = 2 /\ task'[n].adjacencies = <<>>
    <3>1. 1 + 1 = 2
      OBVIOUS
    <3> DEFINE counted == [new EXCEPT !.latch = @ + 1]
    <3>2. counted \in TaskRecord /\ counted.job = l /\ counted.latch = 2 /\ counted.adjacencies = <<>>
      BY <2>8, <3>1 DEF TaskRecord
    <3>3. task'[n] = [counted EXCEPT !.continuation = TRUE]
      BY <2>5
    <3> HIDE DEF counted
    <3> QED
      BY <3>2, <3>3 DEF TaskRecord
  <2> QED
    BY <1>4, <2>1, <2>3, <2>7, <2>9
<1>7. /\ task'[c] \in TaskRecord /\ task'[c].adjacencies = <<n>> /\ task'[c].job = l
      /\ task'[c].latch = task[c].latch
  <2>1. task[c] \in TaskRecord /\ <<n>> \in Short
    BY <1>2, <1>4, Stacks DEF Types
  <2> QED
    BY <1>3, <1>6, <2>1 DEF TaskRecord
<1>23. current'[l] = n /\ \A k \in Loops \ {l} : current'[k] = current[k]
  BY <1>3, <1>4 DEF Types
<1>8. at'[t] = "return" /\ \A s \in Threads \ {t} : at'[s] = at[s]
  BY <1>1 DEF Types
<1>9. \A s \in Threads \ {t} : c \notin Held(s)
  BY <1>2 DEF Places, Held
<1>10. \A s \in Threads \ {t} : \A h \in Held(s) : task'[h] = task[h] /\ h \in DOMAIN task
  BY <1>6, <1>9 DEF Places
<1>11. \A s \in Threads \ {t} :
         /\ Running(s)' = Running(s) /\ Given(s)' = Given(s) /\ Owed(s)' = Owed(s)
         /\ Held(s)' = Held(s) /\ Coming(s)' = Coming(s)
         /\ ControlOf(s)'
  BY <1>1, <1>8, <1>10, Others DEF Held
<1>12. Given(t) = {} /\ Owed(t) = {}
  BY <1>1 DEF Given, Owed
<1>13. /\ Running(t)' = {c} /\ Given(t)' = {} /\ Owed(t)' = {n}
       /\ Held(t)' = {c, n} /\ Coming(t)' = {n}
  <2>1. Running(t)' = {c} /\ Top(t)' = c
    BY <1>1, <1>2 DEF Running, Top, c
  <2>2. Given(t)' = {}
    BY <1>1, <1>8 DEF Given
  <2>3. Owed(t)' = {n}
    <3>1. adj'[t] = 1 /\ task'[Top(t)'].adjacencies = <<n>> /\ n \in Handles
      BY <1>1, <1>4, <1>7, <2>1
    <3>2. \A b \in Handles : <<n>> = <<b>> <=> b = n
      OBVIOUS
    <3> QED
      BY <1>8, <3>1, <3>2 DEF Owed
  <2> QED
    BY <1>8, <2>1, <2>2, <2>3 DEF Held, Coming, Before
<1>14. Types'
  <2>2. task' \in [DOMAIN task' -> TaskRecord]
    <3>1. \A x \in DOMAIN task' : task'[x] \in TaskRecord
      BY <1>6, <1>7 DEF Types
    <3>2. task' = [x \in DOMAIN task' |-> task'[x]]
      BY <1>4 DEF Linked
    <3> QED
      BY <3>1, <3>2
  <2>3. current' \in [Loops -> Handles]
    BY <1>3, <1>4 DEF Types
  <2> QED
    BY <1>1, <1>4, <1>6, <2>2, <2>3 DEF Types, Inside
<1>15. Control' /\ Start'
  <2>1. ControlOf(t)'
    BY <1>1, <1>8 DEF Control, ControlOf, Outside, Inside, Before, Submitting
  <2> QED
    BY <1>1, <1>11, <2>1 DEF Control, Start
<1>16. n \notin ready \cup deletion /\ \A s \in Threads : n \notin Held(s)
  BY <1>4 DEF Places
<1>17. Places'
  <2>1. ready' \cap deletion' = {} /\ ready' \cup deletion' \subseteq DOMAIN task'
    BY <1>1, <1>6 DEF Places
  <2>2. ASSUME NEW s \in Threads
        PROVE  /\ Held(s)' \subseteq DOMAIN task' \ (ready' \cup deletion')
               /\ Running(s)' \cap (Given(s)' \cup Owed(s)') = {}
    <3>1. CASE s = t
      BY <1>1, <1>2, <1>5, <1>6, <1>13, <1>16, <3>1
    <3>2. CASE s # t
      BY <1>1, <1>6, <1>11, <3>2 DEF Places
    <3> QED
      BY <3>1, <3>2
  <2>3. ASSUME NEW r \in Threads, NEW s \in Threads, r # s PROVE Held(r)' \cap Held(s)' = {}
    BY <1>9, <1>11, <1>13, <1>16, <2>3 DEF Places
  <2> QED
    BY <2>1, <2>2, <2>3 DEF Places
<1>18. \A h \in DOMAIN task : IsFresh(h) /\ h # c => IsFresh(h)'
  <2> SUFFICES ASSUME NEW h \in DOMAIN task, IsFresh(h), h # c PROVE IsFresh(h)'
    OBVIOUS
  <2>1. task[h].job # l
    BY <1>3 DEF IsFresh
  <2>2. task[h].job \in Loops
    BY DEF Types, TaskRecord
  <2> QED
    BY <1>4, <1>6, <2>1, <2>2 DEF IsFresh, Types
<1>19. Fresh'
  <2>1. IsFresh(n)'
    BY <1>6, <1>23 DEF IsFresh
  <2>2. ASSUME NEW h \in ready PROVE IsFresh(h)'
    BY <1>2, <1>18 DEF Fresh, Places
  <2>3. ASSUME NEW s \in Threads, NEW h \in Coming(s)' PROVE IsFresh(h)'
    <3>1. CASE s = t
      BY <1>13, <2>1, <2>3, <3>1
    <3>2. CASE s # t
      <4>1. h \in Coming(s) /\ h \in Held(s)
        BY <1>11, <2>3, <3>2 DEF Coming, Held
      <4> QED
        BY <1>9, <1>10, <1>18, <3>2, <4>1 DEF Fresh
    <3> QED
      BY <3>1, <3>2
  <2> QED
    BY <1>1, <2>2, <2>3 DEF Fresh
<1>20. Latches'
  <2>1. ASSUME NEW s \in Threads \ {t} PROVE LatchesOf(s)'
    BY <1>8, <1>10, <1>11 DEF Latches, LatchesOf, Held
  <2>2. LatchesOf(t)'
    <3>1. task[c].latch = 1
      BY <1>1, <1>2 DEF Latches, LatchesOf, Before
    <3> QED
      BY <1>7, <1>8, <1>13, <1>6, <3>1 DEF LatchesOf
  <2>3. (\A h \in ready : task'[h].latch = 1) /\ \A h \in deletion : task'[h].latch = 0
    BY <1>2, <1>6 DEF Latches, Places
  <2> QED
    BY <1>1, <2>1, <2>2, <2>3 DEF Latches
<1>21. Purges'
  <2>1. Purging' = Purging
    BY <1>1, <1>8 DEF Purging
  <2> QED
    BY <1>1, <2>1 DEF Purges
<1>22. Slots'
  <2>1. \A s \in Threads : \A h : IsDone(s, h) => IsDone(s, h)'
    BY <1>1, <1>8 DEF IsDone, Top, Before
  <2>2. \A h : h = c => IsDone(t, h)'
    BY <1>1, <1>8 DEF IsDone, Top, Before, c
  <2>3. n = current'[task'[n].job]
    BY <1>6, <1>23
  <2>4. ASSUME NEW h \in DOMAIN task, h # c, h = current[task[h].job]
        PROVE  h = current'[task'[h].job]
    <3>1. task[h].job # l /\ task[h].job \in Loops
      BY <1>3, <2>4 DEF Types, TaskRecord
    <3> QED
      BY <1>4, <1>6, <2>4, <3>1 DEF Types
  <2> SUFFICES ASSUME NEW h \in DOMAIN task'
               PROVE  h \in deletion' \/ h = current'[task'[h].job] \/ \E s \in Threads : IsDone(s, h)'
    BY DEF Slots
  <2>5. h = n \/ h = c \/ (h \in DOMAIN task /\ h # c)
    BY <1>6
  <2>6. CASE h \in DOMAIN task /\ h # c
    BY <1>1, <2>1, <2>4, <2>6 DEF Slots
  <2>7. CASE h = n
    BY <2>3, <2>7
  <2>8. CASE h = c
    BY <2>2, <2>8
  <2> QED
    BY <2>5, <2>6, <2>7, <2>8
<1> QED
  BY <1>14, <1>15, <1>17, <1>19, <1>20, <1>21, <1>22

LEMMA InitInv == Init => Inv
<1> SUFFICES ASSUME Init PROVE Inv
  OBVIOUS
<1> DEFINE n == Cardinality(Loops)
<1>1. n \in Nat /\ n <= PoolSize
  <2>1. n \in Nat /\ Cardinality(Workers) \in Nat
    BY Workforce, FS_CardinalityType
  <2> QED
    BY <2>1, EnoughSlotsAssumption, PoolSizeAssumption
<1>2. current \in Injection(Loops, 0 .. n - 1)
  <2>1. IsFiniteSet(0 .. n - 1) /\ Cardinality(0 .. n - 1) = n
    <3>1. Cardinality(0 .. n - 1) = IF 0 > n - 1 THEN 0 ELSE (n - 1) - 0 + 1
      BY <1>1, FS_Interval
    <3>2. IsFiniteSet(0 .. n - 1)
      BY <1>1, FS_Interval
    <3> QED
      BY <1>1, <3>1, <3>2
  <2>2. ExistsBijection(Loops, 0 .. n - 1)
    BY <2>1, Workforce, FS_SameCardinalityBij
  <2>3. \E f : f \in Injection(Loops, 0 .. n - 1)
    BY <2>2 DEF ExistsBijection, Bijection
  <2>4. current = CHOOSE f \in Injection(Loops, 0 .. n - 1) : TRUE
    BY DEF Init
  <2> QED
    BY <2>3, <2>4
<1>3. /\ current \in [Loops -> Handles]
      /\ \A k, l \in Loops : current[k] = current[l] => k = l
  <2>1. current \in [Loops -> 0 .. n - 1] /\ IsInjective(current)
    BY <1>2 DEF Injection
  <2>2. 0 .. n - 1 \subseteq Handles
    BY <1>1, PoolSizeAssumption DEF Handles
  <2> QED
    BY <2>1, <2>2 DEF IsInjective
<1>4. process \in {"client", "server"} /\ LoopsOf(process) \subseteq Loops
  BY LoopsAssumption DEF Init, LoopsOf
<1> DEFINE first == {current[l] : l \in LoopsOf(process)}
<1>5. /\ task = [h \in first |-> NewTask(CHOOSE l \in Loops : current[l] = h)]
      /\ ready = {} /\ deletion = {} /\ phase = "created"
  BY DEF Init, InitPool
<1>6. ASSUME NEW h \in first
      PROVE  /\ h \in DOMAIN task /\ task[h] \in TaskRecord /\ task[h].latch = 1
             /\ IsFresh(h)
  <2>1. PICK l \in LoopsOf(process) : h = current[l]
    OBVIOUS
  <2>2. l \in Loops
    BY <1>4
  <2>3. (CHOOSE k \in Loops : current[k] = h) = l
    BY <1>3, <2>1, <2>2
  <2>4. task[h] = NewTask(l) /\ h \in DOMAIN task
    BY <1>5, <2>3
  <2> QED
    BY <2>1, <2>2, <2>4, Stacks DEF NewTask, TaskRecord, IsFresh
<1>7. first \subseteq Handles
  BY <1>3, <1>4
<1>8. DOMAIN task = first
  BY <1>5
<1> HIDE DEF n
<1>9. /\ at = [t \in Threads |-> IF t \in Workers THEN "top" ELSE "client"]
      /\ calls = [t \in Threads |-> <<>>] /\ adj = [t \in Threads |-> 1]
      /\ batch = [t \in Threads |-> NoBatch] /\ kept = [t \in Threads |-> {}]
      /\ home = [t \in Threads |-> IF t \in Workers THEN "drain" ELSE "client"]
  BY DEF Init, InitThreads
<1>10. \A t \in Threads :
         /\ Running(t) = {} /\ Owed(t) = {} /\ Given(t) = (IF t = main THEN first ELSE {})
         /\ at[t] \in {"top", "client"}
  BY <1>5, <1>9 DEF Running, Owed, Given
<1> HIDE DEF first
<1>11. \A t \in Threads :
         /\ Held(t) = (IF t = main THEN first ELSE {})
         /\ Coming(t) = (IF t = main THEN first ELSE {})
  BY <1>10 DEF Held, Coming, Before
<1>12. Types
  <2>1. task \in [DOMAIN task -> TaskRecord]
    BY <1>5, <1>6, <1>8
  <2>2. NoBatch \in Batches /\ <<>> \in Short
    BY Stacks DEF NoBatch, Batches
  <2> QED
    BY <1>3, <1>4, <1>5, <1>7, <1>8, <1>9, <2>1, <2>2 DEF Types, Outside
<1>13. Control
  <2>1. ASSUME NEW t \in Threads PROVE ControlOf(t)
    BY <1>9, Workforce DEF ControlOf, Outside, Inside, Before, Submitting
  <2> QED
    BY <2>1 DEF Control
<1>14. Start
  BY <1>5, <1>9, Workforce DEF Start
<1>15. Places
  BY <1>5, <1>8, <1>10, <1>11 DEF Places
<1>16. Fresh
  BY <1>5, <1>6, <1>11 DEF Fresh
<1>17. Latches
  <2>1. \A t \in Threads : LatchesOf(t)
    BY <1>6, <1>10 DEF LatchesOf
  <2> QED
    BY <1>5, <2>1 DEF Latches
<1>18. Purges
  <2>1. Purging = {}
    BY <1>10 DEF Purging
  <2>2. Cardinality({}) = 0
    BY FS_EmptySet
  <2> QED
    BY <1>5, <2>1, <2>2 DEF Purges
<1>19. Slots
  BY <1>6, <1>8 DEF Slots, IsFresh
<1> QED
  BY <1>12, <1>13, <1>14, <1>15, <1>16, <1>17, <1>18, <1>19 DEF Inv

LEMMA WorkerInv ==
  ASSUME Inv, NEW w \in Workers, WorkerStep(w) \/ WakeSpuriously(w), UNCHANGED loopVars
  PROVE  Inv'
<1>1. CASE LoopTop(w) \/ Check(w) \/ FallAsleep(w) \/ WakeSpuriously(w)
  <2>1. /\ at[w] \in {"top", "check", "prewait", "asleep"}
        /\ \E step \in {"top", "check", "prewait", "asleep", "drain", "exit"} :
             at' = [at EXCEPT ![w] = step]
    BY <1>1 DEF LoopTop, Check, FallAsleep, WakeSpuriously, Goto
  <2>2. UNCHANGED <<task, ready, deletion, calls, adj, batch, kept, home, current, process, phase>>
    BY <1>1 DEF LoopTop, Check, FallAsleep, WakeSpuriously, poolVars, loopVars
  <2> QED
    BY <2>1, <2>2, OutsideGoes
<1>2. CASE Drain(w)
  <2>1. CASE \E h \in ready : Take(w, h)
    BY <1>2, <2>1, TakeInv DEF Drain
  <2>2. CASE Goto(w, "top") /\ UNCHANGED <<poolVars, calls, adj, batch, kept, home>>
    BY <1>2, <2>2, OutsideGoes DEF Drain, Goto, poolVars, loopVars
  <2> QED
    BY <1>2, <2>1, <2>2 DEF Drain
<1> QED
  BY <1>1, <1>2 DEF WorkerStep

LEMMA NextInv == Inv /\ [Next]_vars => Inv'
<1> SUFFICES ASSUME Inv, [Next]_vars PROVE Inv'
  OBVIOUS
<1>1. ASSUME NEW t \in Threads, PoolStep(t) PROVE Inv'
  BY <1>1, EnqueueInv, AddSizeInv, NotifyInv, SubSizeInv, ScheduleAdjacentInv, AdjacentDoneInv,
     RetireInv, PurgeOneInv, PurgeDoneInv DEF PoolStep, ThreadStep
<1>2. ASSUME NEW t \in Threads, Body(t) PROVE Inv'
  BY <1>2, BodyGoes, RenewInv, ReturnInv DEF Body
<1>3. ASSUME NEW w \in Workers, IdleStep(w) \/ (WakeSpuriously(w) /\ UNCHANGED loopVars) PROVE Inv'
  BY <1>3, WorkerInv DEF IdleStep
<1>4. CASE Launch
  BY <1>4, LaunchInv
<1>5. CASE Destroy
  <2>1. CASE RequestStop
    BY <2>1, RequestStopInv
  <2>2. CASE Signal \/ AllDone \/ JoinWorkers
    BY <2>2, StutterInv DEF Signal, AllDone, JoinWorkers, poolVars, threadVars
  <2> QED
    BY <1>5, <2>1, <2>2 DEF Destroy
<1>6. CASE UNCHANGED vars
  BY <1>6, StutterInv DEF vars, poolVars, threadVars
<1> QED
  BY <1>1, <1>2, <1>3, <1>4, <1>5, <1>6 DEF Next

------------------------------------------------------------------------------
(* The theorems. *)

\* Whatever the workers do, a task to come is the one its loop's handle names,
\* and it has one holder.
THEOREM Invariance == Spec => []Inv
<1>1. Inv /\ [Next]_vars => Inv'
  BY NextInv
<1> QED
  BY <1>1, InitInv, PTL DEF Spec

LEMMA AtMostOne ==
  ASSUME NEW S, NEW x, S \subseteq {x}
  PROVE  Cardinality(S) \in Nat /\ Cardinality(S) <= 1
<1>1. IsFiniteSet({x}) /\ Cardinality({x}) = 1
  BY FS_Singleton
<1>2. IsFiniteSet(S) /\ Cardinality(S) <= Cardinality({x})
  BY <1>1, FS_Subset
<1> QED
  BY <1>1, <1>2, FS_CardinalityType

\* A loop never runs beside itself, and the handle it adds its next task's
\* dependency to is its own.
THEOREM LoopsSafe == Spec => []OneTaskPerLoop
<1> DEFINE running(l) == {t \in Threads : /\ at[t] \in {"sub", "body", "work", "next"}
                                          /\ calls[t] # <<>> /\ Loop(t) = l}
           queued(l) == {h \in ready : task[h].job = l}
<1>1. ASSUME Inv, NEW l \in Loops
      PROVE  /\ Cardinality(running(l)) + Cardinality(queued(l)) <= 1
             /\ \A t \in running(l) : Top(t) = current[l]
             /\ queued(l) \subseteq {current[l]}
  <2>1. \A t \in running(l) : Top(t) = current[l] /\ current[l] \in Held(t)
    BY <1>1 DEF Inv, Fresh, IsFresh, Coming, Running, Held, Before, Loop
  <2>2. queued(l) \subseteq {current[l]}
    BY <1>1 DEF Inv, Fresh, IsFresh
  <2>3. \A t \in running(l) : running(l) \subseteq {t} /\ queued(l) = {}
    BY <1>1, <2>1, <2>2 DEF Inv, Places
  <2> HIDE DEF running, queued
  <2>4. Cardinality(running(l)) + Cardinality(queued(l)) <= 1
    <3>1. Cardinality({}) = 0
      BY FS_EmptySet
    <3>2. CASE running(l) = {}
      <4>1. Cardinality(running(l)) = 0
        BY <3>1, <3>2
      <4> QED
        BY <2>2, <4>1, AtMostOne
    <3>3. CASE running(l) # {}
      <4>1. PICK t : t \in running(l)
        BY <3>3
      <4>2. Cardinality(queued(l)) = 0
        BY <2>3, <3>1, <4>1
      <4>3. running(l) \subseteq {t}
        BY <2>3, <4>1
      <4>4. Cardinality(running(l)) \in Nat /\ Cardinality(running(l)) <= 1
        BY <4>3, AtMostOne
      <4> QED
        BY <4>2, <4>4
    <3> QED
      BY <3>2, <3>3
  <2> QED
    BY <2>1, <2>2, <2>4
<1>2. Inv => OneTaskPerLoop
  BY <1>1 DEF OneTaskPerLoop
<1> QED
  BY <1>2, Invariance, PTL

\* The values of a function are no more than its arguments.
LEMMA Values ==
  ASSUME NEW S, IsFiniteSet(S), NEW f, f = [x \in S |-> f[x]]
  PROVE  /\ IsFiniteSet({f[x] : x \in S})
         /\ Cardinality({f[x] : x \in S}) <= Cardinality(S)
<1> DEFINE T == {f[x] : x \in S}
<1>1. f \in [S -> T] /\ \A y \in T : \E x \in S : f[x] = y
  OBVIOUS
<1>2. f \in Surjection(S, T)
  BY <1>1 DEF Surjection
<1> QED
  BY <1>2, FS_Surjection

LEMMA UnionBound ==
  ASSUME NEW S, NEW T, IsFiniteSet(S), IsFiniteSet(T)
  PROVE  /\ IsFiniteSet(S \cup T)
         /\ Cardinality(S \cup T) <= Cardinality(S) + Cardinality(T)
         /\ S \cap T = {} => Cardinality(S \cup T) = Cardinality(S) + Cardinality(T)
<1>1. /\ IsFiniteSet(S \cup T)
      /\ Cardinality(S \cup T) = Cardinality(S) + Cardinality(T) - Cardinality(S \cap T)
  BY FS_Union
<1>2. IsFiniteSet(S \cap T) /\ (S \cap T = {} => Cardinality(S \cap T) = 0)
  BY FS_Subset, FS_EmptySet
<1>3. Cardinality(S) \in Nat /\ Cardinality(T) \in Nat /\ Cardinality(S \cap T) \in Nat
  BY <1>2, FS_CardinalityType
<1> QED
  BY <1>1, <1>2, <1>3

\* A pool with a slot for each loop and each worker never runs full where a loop
\* asks it for one.
THEOREM SlotsSuffice == Spec => []PoolSuffices
<1> DEFINE ending == {w \in Workers : calls[w] # <<>> /\ at[w] \notin Before}
           tops == [w \in ending |-> Top(w)]
           names == {current[l] : l \in Loops}
           out == {tops[w] : w \in ending}
<1>1. ASSUME Inv, NEW t \in Threads, at[t] = "next" PROVE Free # {}
  <2> SUFFICES ASSUME Free = {} PROVE FALSE
    OBVIOUS
  <2>1. DOMAIN task = Handles
    BY <1>1 DEF Free, Inv, Types
  <2>2. ASSUME NEW h \in DOMAIN task PROVE h \in (deletion \cup out) \cup names
    <3>1. task[h].job \in Loops
      BY <1>1 DEF Inv, Types, TaskRecord
    <3>2. ASSUME NEW s \in Threads, IsDone(s, h) PROVE h \in out
      <4>1. s \in Workers
        BY <1>1, <3>2, Workforce DEF IsDone, Inv, Control, ControlOf
      <4>2. s \in ending /\ tops[s] = h
        BY <3>2, <4>1 DEF IsDone
      <4> QED
        BY <4>2
    <3> QED
      BY <1>1, <3>1, <3>2 DEF Inv, Slots
  <2>3. IsFiniteSet(ending) /\ IsFiniteSet(Workers) /\ Cardinality(ending) \in Nat
    BY Workforce, FS_Subset, FS_CardinalityType
  <2>4. IsFiniteSet(out) /\ Cardinality(out) <= Cardinality(ending)
    <3> HIDE DEF ending
    <3>1. tops = [w \in ending |-> tops[w]]
      OBVIOUS
    <3> HIDE DEF tops
    <3> QED
      BY <2>3, <3>1, Values
  <2>5. IsFiniteSet(names) /\ Cardinality(names) <= Cardinality(Loops)
    <3>1. current = [l \in Loops |-> current[l]]
      BY <1>1 DEF Inv, Types
    <3> QED
      BY <3>1, Workforce, Values
  \* Those who purge, those who end a task and t are different workers.
  <2>6. /\ Purging \cup ending \subseteq Workers \ {t} /\ Purging \cap ending = {} /\ t \in Workers
    BY <1>1, Workforce DEF Purging, Inv, Control, ControlOf, Outside, Inside, Before, Submitting
  <2> HIDE DEF ending, names, out, tops
  <2>7. /\ IsFiniteSet(Purging) /\ IsFiniteSet(deletion)
        /\ Cardinality(Purging) \in Nat /\ Cardinality(deletion) \in Nat
        /\ Cardinality(deletion) <= Cardinality(Purging)
        /\ Cardinality(Handles) = PoolSize
    BY <1>1, FiniteCounts DEF Inv, Purges
  <2>8. Cardinality(Purging) + Cardinality(ending) <= Cardinality(Workers) - 1
    <3>1. IsFiniteSet(Workers \ {t}) /\ Cardinality(Workers \ {t}) = Cardinality(Workers) - 1
      BY <2>3, <2>6, FS_RemoveElement
    <3>2. Cardinality(Purging \cup ending) = Cardinality(Purging) + Cardinality(ending)
      BY <2>3, <2>6, <2>7, UnionBound
    <3>3. Cardinality(Purging \cup ending) <= Cardinality(Workers \ {t})
      BY <2>6, <3>1, FS_Subset
    <3> QED
      BY <3>1, <3>2, <3>3
  <2>9. /\ IsFiniteSet(deletion \cup out)
        /\ Cardinality(deletion \cup out) <= Cardinality(deletion) + Cardinality(out)
    BY <2>4, <2>7, UnionBound
  <2>10. /\ IsFiniteSet((deletion \cup out) \cup names)
         /\ Cardinality((deletion \cup out) \cup names) <= Cardinality(deletion \cup out) + Cardinality(names)
    BY <2>5, <2>9, UnionBound
  <2>11. Cardinality(Handles) <= Cardinality((deletion \cup out) \cup names)
    <3>1. Handles \subseteq (deletion \cup out) \cup names
      BY <2>1, <2>2
    <3> QED
      BY <2>10, <3>1, FS_Subset
  <2>12. /\ Cardinality(out) \in Nat /\ Cardinality(names) \in Nat
         /\ Cardinality(deletion \cup out) \in Nat
         /\ Cardinality((deletion \cup out) \cup names) \in Nat
         /\ Cardinality(Workers) \in Nat /\ Cardinality(Loops) \in Nat
    BY <2>3, <2>4, <2>5, <2>9, <2>10, Workforce, FS_CardinalityType
  <2>13. Cardinality(Handles) <= Cardinality(Workers) - 1 + Cardinality(Loops)
    BY <2>3, <2>4, <2>5, <2>7, <2>8, <2>9, <2>10, <2>11, <2>12, PoolSizeAssumption
  <2> QED
    BY <2>7, <2>12, <2>13, EnoughSlotsAssumption, PoolSizeAssumption
<1>2. Inv => PoolSuffices
  BY <1>1 DEF PoolSuffices
<1> QED
  BY <1>2, Invariance, PTL
===============================================================================
