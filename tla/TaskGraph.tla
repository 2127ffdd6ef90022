------------------------------ MODULE TaskGraph ------------------------------
(***************************************************************************)
(* The executor at work on tasks that exist before anything is submitted,  *)
(* with dependencies between them: clients Submit or Call the tasks that   *)
(* wait for nothing, and Join any of them.  The body of a Waiter is the    *)
(* one RHIApplication::Draw submits with every frame: it helps with other  *)
(* tasks through JoinOne until the fence of its frame is signalled.        *)
(***************************************************************************)
EXTENDS TaskExecutor, SequencesExt

CONSTANTS
  Before,          \* <<a, b>>: AddDependency(a, b)
  Waiters          \* tasks that wait for a fence and call JoinOne meanwhile

\* Every slot of the pool holds one task; it is known by its handle.
Jobs == Handles

ASSUME BeforeAssumption == Before \subseteq Jobs \X Jobs
ASSUME WaitersAssumption == Waiters \subseteq Jobs

VARIABLES
  launched,        \* tasks that were submitted or called by a client
  finished,        \* the futures that are ready: the state outlives the task
  fence,           \* the fences the device signalled
  joined           \* the future each client is in Join with

vars == <<poolVars, threadVars, launched, finished, fence, joined>>

Predecessors(j) == {a \in Jobs : <<a, j>> \in Before}

Successors(j) == {b \in Jobs : <<j, b>> \in Before}

Roots == {j \in Jobs : Predecessors(j) = {}}

Init ==
  /\ task = [j \in Jobs |-> [job |-> j,
                             latch |-> 1 + Cardinality(Predecessors(j)),
                             adjacencies |-> SetToSeq(Successors(j)),
                             continuation |-> FALSE]]
  /\ InitPool
  /\ InitThreads
  /\ launched = {}
  /\ finished = {}
  /\ fence = {}
  /\ joined = [c \in Clients |-> {}]

------------------------------------------------------------------------------
Submit(c) ==
  /\ at[c] = "client"
  /\ \E handles \in SUBSET (Roots \ launched) \ {{}} :
       /\ BeginSubmit(c, handles, TRUE)
       /\ launched' = launched \cup handles
  /\ UNCHANGED <<poolVars, calls, adj, kept, home, finished, fence, joined>>

\* Main and Draw call the tasks they take from mainCalls and drawCalls.
Call(c) ==
  /\ at[c] = "client"
  /\ \E j \in Roots \ launched :
       /\ calls' = [calls EXCEPT ![c] = <<j>>]
       /\ launched' = launched \cup {j}
  /\ Goto(c, "body")
  /\ UNCHANGED <<poolVars, adj, batch, kept, home, finished, fence, joined>>

\* Join: a client asks for a future only after everything was launched.
BeginJoin(c) ==
  /\ at[c] = "client"
  /\ launched = Roots
  /\ \E j \in Jobs : joined' = [joined EXCEPT ![c] = {j}]
  /\ home' = [home EXCEPT ![c] = "join"]
  /\ Goto(c, "join")
  /\ UNCHANGED <<poolVars, calls, adj, batch, kept, launched, finished, fence>>

\* While the future is not ready take one more handle; when there is none left,
\* Future::Get waits for the latch.
Join(c) ==
  /\ at[c] = "join"
  /\ \/ /\ ~ joined[c] \subseteq finished
        /\ \E h \in ready : Take(c, h)
     \/ /\ joined[c] \subseteq finished \/ ready = {}
        /\ Goto(c, "wait")
        /\ UNCHANGED <<poolVars, calls, adj, batch, kept, home>>
  /\ UNCHANGED <<launched, finished, fence, joined>>

EndJoin(c) ==
  /\ at[c] = "wait"
  /\ joined[c] \subseteq finished
  /\ joined' = [joined EXCEPT ![c] = {}]
  /\ home' = [home EXCEPT ![c] = "client"]
  /\ Goto(c, "client")
  /\ UNCHANGED <<poolVars, calls, adj, batch, kept, launched, finished, fence>>

\* The body of an ordinary task returns; that of a Waiter when its fence is
\* signalled, and until then it helps out.
Body(t) ==
  /\ at[t] = "body"
  /\ \/ /\ Top(t) \in Waiters => Top(t) \in fence
        /\ Finish(t)
        /\ finished' = finished \cup {Top(t)}
     \/ /\ Top(t) \in Waiters \ fence
        /\ JoinOne(t)
        /\ UNCHANGED finished
  /\ UNCHANGED <<launched, fence, joined>>

\* The device (external): a fence is signalled some time.
Signal ==
  /\ \E j \in Waiters \ fence : fence' = fence \cup {j}
  /\ UNCHANGED <<poolVars, threadVars, launched, finished, joined>>

------------------------------------------------------------------------------
PoolStep(t) == ThreadStep(t) /\ UNCHANGED <<launched, finished, fence, joined>>

IdleStep(w) == WorkerStep(w) /\ UNCHANGED <<launched, finished, fence, joined>>

Next ==
  \/ \E t \in Threads : PoolStep(t) \/ Body(t)
  \/ \E w \in Workers :
       \/ IdleStep(w)
       \/ WakeSpuriously(w) /\ UNCHANGED <<launched, finished, fence, joined>>
  \/ \E c \in Clients : Submit(c) \/ Call(c) \/ BeginJoin(c) \/ Join(c) \/ EndJoin(c)
  \/ Signal

Spec == Init /\ [][Next]_vars

\* Threads that can run do, and the device signals.  A client need not submit
\* anything, and nobody is promised a spurious wake-up.
Fairness ==
  /\ \A t \in Threads : WF_vars(PoolStep(t)) /\ WF_vars(Body(t))
  /\ \A w \in Workers : WF_vars(IdleStep(w))
  /\ \A c \in Clients : WF_vars(Join(c)) /\ WF_vars(EndJoin(c))
  /\ WF_vars(Signal)

FairSpec == Spec /\ Fairness

------------------------------------------------------------------------------
\* task.h:130 "b will start after a has finished", for every a of b; a task
\* that is ready or running has its latch at one (the ENSURE of InternalCall)
\* and never ran before.
StartsAfterPredecessors ==
  LET running == {h \in Handles : \E t \in Threads : h \in Range(calls[t])}
  IN  /\ \A h \in ready : h \notin finished
      /\ \A h \in ready \cup running :
           /\ Predecessors(h) \subseteq finished
           /\ h \notin finished => task[h].latch = 1

\* taskexecutor.h:21: Join helps out and returns when the task is ready.
\* It does so although workers may sleep through every notification, because
\* whoever makes a task ready goes on to drain the queue itself.
JoinReturns == \A c \in Clients : at[c] = "join" ~> at[c] = "client"

\* taskexecutor.h:33: "async call. task + dependency chain(s) will be executed
\* in thread pool."
SubmittedTasksRun == \A j \in Roots : j \in launched ~> j \in finished

==============================================================================
