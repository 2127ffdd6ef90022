----------------------------- MODULE TaskExecutor -----------------------------
(***************************************************************************)
(* The thread pool of core/taskexecutor with the tasks of core/task and    *)
(* the slots of core/memorypool: what its worker threads and the threads   *)
(* that call into it do, one atomic operation or one queue operation at a  *)
(* time.  What a task's body does is left to the modules that extend this  *)
(* one, TaskGraph and TaskLoops; they also give the next-state relation.   *)
(*                                                                         *)
(* The two ConcurrentQueues are sets: a handle is in one of them at most   *)
(* once, and across producers the queue promises no order.                 *)
(***************************************************************************)
EXTENDS Integers, Sequences, FiniteSets, Functions

CONSTANTS
  Workers,       \* the pool's threads
  Clients,       \* other threads that submit, call and join
  PoolSize,      \* kTaskPoolSize, 2^10 in the code
  SizeModulus    \* 2^64 in the code: myReadyQueueSize is uint64_t

ASSUME ThreadsAssumption ==
  /\ IsFiniteSet(Workers) /\ Workers # {}
  /\ IsFiniteSet(Clients) /\ Workers \cap Clients = {}
ASSUME PoolSizeAssumption == PoolSize \in Nat \ {0}
ASSUME SizeModulusAssumption == SizeModulus \in Nat /\ PoolSize + Cardinality(Workers) < SizeModulus

Threads == Workers \cup Clients

Handles == 0 .. PoolSize - 1

VARIABLES
  task,          \* the constructed tasks, by handle; no entry for a free slot
  ready,         \* myReadyQueue
  readySize,     \* myReadyQueueSize, changed apart from the queue
  deletion,      \* myDeletionQueue
  stop,          \* stop_requested of myStopSource
  at,            \* the next step of each thread
  calls,         \* the tasks each thread is inside of, innermost first
  adj,           \* adjIt of InternalScheduleAdjacent
  batch,         \* what each thread's Submit was given, and notify_ones to go
  kept,          \* nextDeletionQueue
  home           \* where a thread goes on after its outermost task

poolVars == <<task, ready, readySize, deletion, stop>>
threadVars == <<at, calls, adj, batch, kept, home>>

\* The values of at:
\*   "top", "check", "prewait", "asleep", "drain", "exit"   InternalThreadMain
\*   "sub", "body", "adjacent", "retire", "purge"           InternalCall and after
\*   "enqueue", "add", "notify"                             Submit
\*   "work", "next", "return"                               within a loop's body
\*   "client", "join", "wait"                               a client thread

Goto(t, step) == at' = [at EXCEPT ![t] = step]

Top(t) == Head(calls[t])

------------------------------------------------------------------------------
\* The pool of slots and the tasks built in them.

Free == Handles \ DOMAIN task

\* The heap is ordered so that the lowest index is handed out first, if any.
Allocatable == {h \in Free : \A x \in Free : h <= x}

NewTask(job) == [job |-> job, latch |-> 1, adjacencies |-> <<>>, continuation |-> FALSE]

Constructed(tasks, h, job) ==
  [x \in DOMAIN tasks \cup {h} |-> IF x = h THEN NewTask(job) ELSE tasks[x]]

Destroyed(tasks, h) == [x \in DOMAIN tasks \ {h} |-> tasks[x]]

\* AddDependency: b waits for a.
Linked(tasks, a, b, isContinuation) ==
  [tasks EXCEPT ![a].adjacencies = Append(@, b),
                ![b].latch = @ + 1,
                ![b].continuation = isContinuation]

------------------------------------------------------------------------------
\* Submit: the handles, then the counter, then the notifications.  Neither
\* happens under myMutex.

BeginSubmit(t, handles, wake) ==
  /\ batch' = [batch EXCEPT ![t] = [handles |-> handles, wake |-> wake,
                                    left |-> Cardinality(handles)]]
  /\ Goto(t, "enqueue")

NoBatch == [handles |-> {}, wake |-> FALSE, left |-> 0]

EndSubmit(t) == batch' = [batch EXCEPT ![t] = NoBatch]

AfterSubmit(t) == IF calls[t] = <<>> THEN "client" ELSE "adjacent"

Enqueue(t) ==
  /\ at[t] = "enqueue"
  /\ ready' = ready \cup batch[t].handles
  /\ Goto(t, "add")
  /\ UNCHANGED <<task, readySize, deletion, stop, calls, adj, batch, kept, home>>

\* Mutant: the counter goes up by one whatever the number of handles.
AddsOne(t) ==
  /\ at[t] = "add"
  /\ readySize' = (readySize + 1) % SizeModulus
  /\ IF batch[t].wake
     THEN Goto(t, "notify") /\ UNCHANGED batch
     ELSE EndSubmit(t) /\ Goto(t, AfterSubmit(t))
  /\ UNCHANGED <<task, ready, deletion, stop, calls, adj, kept, home>>

AddSize(t) ==
  /\ at[t] = "add"
  /\ readySize' = (readySize + Cardinality(batch[t].handles)) % SizeModulus
  /\ IF batch[t].wake
     THEN Goto(t, "notify") /\ UNCHANGED batch
     ELSE EndSubmit(t) /\ Goto(t, AfterSubmit(t))
  /\ UNCHANGED <<task, ready, deletion, stop, calls, adj, kept, home>>

Asleep == {w \in Workers : at[w] = "asleep"}

\* The woken threads evaluate the predicate again; t goes on.
Wake(t, woken, step) ==
  at' = [s \in Threads |-> IF s = t THEN step ELSE IF s \in woken THEN "check" ELSE at[s]]

\* One notify_one for each handle, or notify_all if that is enough for everybody.
Notify(t) ==
  /\ at[t] = "notify"
  /\ \/ /\ Cardinality(batch[t].handles) >= Cardinality(Workers)
        /\ Wake(t, Asleep, AfterSubmit(t))
        /\ EndSubmit(t)
     \/ /\ Cardinality(batch[t].handles) < Cardinality(Workers)
        /\ \E woken \in SUBSET Asleep :
             /\ Cardinality(woken) = (IF Asleep = {} THEN 0 ELSE 1)
             /\ IF batch[t].left = 1
                THEN Wake(t, woken, AfterSubmit(t)) /\ EndSubmit(t)
                ELSE /\ Wake(t, woken, "notify")
                     /\ batch' = [batch EXCEPT ![t].left = @ - 1]
  /\ UNCHANGED <<poolVars, calls, adj, kept, home>>

------------------------------------------------------------------------------
\* Taking one handle and calling its task: InternalProcessReadyQueue, Join and
\* JoinOne all dequeue, count down, call, then purge.

Take(t, h) ==
  /\ h \in ready
  /\ ready' = ready \ {h}
  /\ calls' = [calls EXCEPT ![t] = <<h>> \o @]
  /\ Goto(t, "sub")
  /\ UNCHANGED <<task, readySize, deletion, stop, adj, batch, kept, home>>

SubSize(t) ==
  /\ at[t] = "sub"
  /\ readySize' = (readySize - 1) % SizeModulus
  /\ Goto(t, "body")
  /\ UNCHANGED <<task, ready, deletion, stop, calls, adj, batch, kept, home>>

\* Mutant: the handle is given up before its successors are scheduled.
RetiresFirst(t) ==
  /\ task' = [task EXCEPT ![Top(t)].latch = @ - 1]
  /\ deletion' = deletion \cup {Top(t)}
  /\ Goto(t, "adjacent")
  /\ UNCHANGED <<ready, readySize, stop, calls, adj, batch, kept, home>>

\* The end of InternalInvoke, once the callable returned.
Finish(t) ==
  /\ task' = [task EXCEPT ![Top(t)].latch = @ - 1]
  /\ Goto(t, "adjacent")
  /\ UNCHANGED <<ready, readySize, deletion, stop, calls, adj, batch, kept, home>>

\* Mutants: a successor is submitted as soon as one predecessor finished, or when
\* its own run has been counted down too.
SubmitsAtOnce(t) ==
  /\ at[t] = "adjacent"
  /\ adj[t] <= Len(task[Top(t)].adjacencies)
  /\ LET b == task[Top(t)].adjacencies[adj[t]]
     IN  /\ task' = [task EXCEPT ![b].latch = @ - 1]
         /\ BeginSubmit(t, {b}, ~task[b].continuation)
  /\ adj' = [adj EXCEPT ![t] = @ + 1]
  /\ UNCHANGED <<ready, readySize, deletion, stop, calls, kept, home>>

SubmitsAtZero(t) ==
  /\ at[t] = "adjacent"
  /\ adj[t] <= Len(task[Top(t)].adjacencies)
  /\ LET b == task[Top(t)].adjacencies[adj[t]]
     IN  /\ task' = [task EXCEPT ![b].latch = @ - 1]
         /\ IF task[b].latch - 1 = 0
            THEN BeginSubmit(t, {b}, ~task[b].continuation)
            ELSE UNCHANGED <<at, batch>>
  /\ adj' = [adj EXCEPT ![t] = @ + 1]
  /\ UNCHANGED <<ready, readySize, deletion, stop, calls, kept, home>>

\* InternalScheduleAdjacent, one successor at a time.
ScheduleAdjacent(t) ==
  /\ at[t] = "adjacent"
  /\ adj[t] <= Len(task[Top(t)].adjacencies)
  /\ LET b == task[Top(t)].adjacencies[adj[t]]
     IN  /\ task' = [task EXCEPT ![b].latch = @ - 1]
         /\ IF task[b].latch - 1 = 1
            THEN BeginSubmit(t, {b}, ~task[b].continuation)
            ELSE UNCHANGED <<at, batch>>
  /\ adj' = [adj EXCEPT ![t] = @ + 1]
  /\ UNCHANGED <<ready, readySize, deletion, stop, calls, kept, home>>

AdjacentDone(t) ==
  /\ at[t] = "adjacent"
  /\ adj[t] > Len(task[Top(t)].adjacencies)
  /\ Goto(t, "retire")
  /\ UNCHANGED <<poolVars, calls, adj, batch, kept, home>>

\* Mutant: nobody purges.
LeavesPurge(t) ==
  /\ at[t] = "retire"
  /\ deletion' = deletion \cup {Top(t)}
  /\ calls' = [calls EXCEPT ![t] = Tail(@)]
  /\ adj' = [adj EXCEPT ![t] = 1]
  /\ Goto(t, IF Len(calls[t]) = 1 THEN home[t] ELSE "body")
  /\ UNCHANGED <<task, ready, readySize, stop, batch, kept, home>>

\* The called handle goes to the deletion queue.  Call alone does not purge.
Retire(t) ==
  /\ at[t] = "retire"
  /\ deletion' = deletion \cup {Top(t)}
  /\ calls' = [calls EXCEPT ![t] = Tail(@)]
  /\ adj' = [adj EXCEPT ![t] = 1]
  /\ Goto(t, IF Len(calls[t]) = 1 /\ home[t] = "client" THEN "client" ELSE "purge")
  /\ UNCHANGED <<task, ready, readySize, stop, batch, kept, home>>

\* InternalPurgeDeletionQueue with InternalTryDelete.
PurgeOne(t) ==
  /\ at[t] = "purge"
  /\ \E h \in deletion :
       /\ deletion' = deletion \ {h}
       /\ IF task[h].latch = 0
          THEN task' = Destroyed(task, h) /\ UNCHANGED kept
          ELSE kept' = [kept EXCEPT ![t] = @ \cup {h}] /\ UNCHANGED task
  /\ UNCHANGED <<ready, readySize, stop, at, calls, adj, batch, home>>

\* Then back to the loop the task was taken in: the body that called JoinOne,
\* Join, or the worker's own.
PurgeDone(t) ==
  /\ at[t] = "purge"
  /\ deletion = {}
  /\ deletion' = kept[t]
  /\ kept' = [kept EXCEPT ![t] = {}]
  /\ Goto(t, IF calls[t] = <<>> THEN home[t] ELSE "body")
  /\ UNCHANGED <<task, ready, readySize, stop, calls, adj, batch, home>>

------------------------------------------------------------------------------
\* InternalThreadMain.  condition_variable_any::wait evaluates the predicate
\* outside its internal mutex: a notification that comes between "check" and
\* falling asleep is lost.  Only the request to stop is looked at again.

LoopTop(w) ==
  /\ at[w] = "top"
  /\ Goto(w, IF stop THEN "exit" ELSE "check")
  /\ UNCHANGED <<poolVars, calls, adj, batch, kept, home>>

Check(w) ==
  /\ at[w] = "check"
  /\ Goto(w, IF readySize > 0 THEN "drain" ELSE "prewait")
  /\ UNCHANGED <<poolVars, calls, adj, batch, kept, home>>

FallAsleep(w) ==
  /\ at[w] = "prewait"
  /\ Goto(w, IF stop THEN "top" ELSE "asleep")
  /\ UNCHANGED <<poolVars, calls, adj, batch, kept, home>>

WakeSpuriously(w) ==
  /\ at[w] = "asleep"
  /\ Goto(w, "check")
  /\ UNCHANGED <<poolVars, calls, adj, batch, kept, home>>

Drain(w) ==
  /\ at[w] = "drain"
  /\ \/ \E h \in ready : Take(w, h)
     \/ /\ ready = {}
        /\ Goto(w, "top")
        /\ UNCHANGED <<poolVars, calls, adj, batch, kept, home>>

\* JoinOne, called from a task's body.
JoinOne(t) ==
  /\ at[t] = "body"
  /\ \E h \in ready : Take(t, h)

\* What any thread does once it is in Submit or has a task.
ThreadStep(t) ==
  \/ Enqueue(t)
  \/ AddSize(t)
  \/ Notify(t)
  \/ SubSize(t)
  \/ ScheduleAdjacent(t)
  \/ AdjacentDone(t)
  \/ Retire(t)
  \/ PurgeOne(t)
  \/ PurgeDone(t)

\* What a worker does between tasks.
WorkerStep(w) ==
  \/ LoopTop(w)
  \/ Check(w)
  \/ FallAsleep(w)
  \/ Drain(w)

InitThreads ==
  /\ at = [t \in Threads |-> IF t \in Workers THEN "top" ELSE "client"]
  /\ calls = [t \in Threads |-> <<>>]
  /\ adj = [t \in Threads |-> 1]
  /\ batch = [t \in Threads |-> NoBatch]
  /\ kept = [t \in Threads |-> {}]
  /\ home = [t \in Threads |-> IF t \in Workers THEN "drain" ELSE "client"]

InitPool ==
  /\ ready = {}
  /\ readySize = 0
  /\ deletion = {}
  /\ stop = FALSE

------------------------------------------------------------------------------
\* The handles only thread t can reach now.
Mine(t) ==
  Range(calls[t]) \cup kept[t] \cup (IF at[t] = "enqueue" THEN batch[t].handles ELSE {})

\* A handle is in one place: in one of the queues or with one thread, and once.
\* Otherwise a task would run twice, be destroyed while another thread runs it,
\* or its slot be freed twice (the pool would not notice, memorypool.inl:41-55).
\* Whoever has a handle finds a constructed task behind it, and what is to be
\* destroyed has finished: InternalTryDelete never has to put a handle back.
EachHandleInOnePlace ==
  /\ ready \cap deletion = {}
  /\ \A t \in Threads :
       /\ Mine(t) \cap (ready \cup deletion) = {}
       /\ \A s \in Threads \ {t} : Mine(t) \cap Mine(s) = {}
       /\ IsInjective(calls[t])
       /\ Mine(t) \subseteq DOMAIN task
  /\ ready \cup deletion \subseteq DOMAIN task
  /\ \A h \in deletion : task[h].latch = 0

\* InternalScheduleAdjacent dereferences its successors' handles: until it has
\* counted a successor down, nobody has destroyed it, and it still waits.
SuccessorsWait ==
  \A a \in DOMAIN task : \A i \in 1 .. Len(task[a].adjacencies) :
    LET passed == \E t \in Threads : calls[t] # <<>> /\ Top(t) = a /\ adj[t] > i
                                      /\ at[t] \in {"adjacent", "enqueue", "add", "notify", "retire"}
    IN  (~passed /\ a \notin deletion /\ \A t \in Threads : a \notin kept[t])
          => /\ task[a].adjacencies[i] \in DOMAIN task
             /\ task[task[a].adjacencies[i]].latch > 1

\* The counter that decides whether a worker may sleep runs behind the queue by
\* exactly the submits and the dequeues under way, so it can neither stay above
\* zero over an empty queue nor stay at zero over a full one.
SizeCounts ==
  LET adding == {x \in Threads \X Handles : at[x[1]] = "add" /\ x[2] \in batch[x[1]].handles}
      taking == {t \in Threads : at[t] = "sub"}
  IN  (readySize + Cardinality(adding)) % SizeModulus
        = (Cardinality(ready) + Cardinality(taking)) % SizeModulus

==============================================================================
