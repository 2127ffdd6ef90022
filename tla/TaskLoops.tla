------------------------------ MODULE TaskLoops ------------------------------
(***************************************************************************)
(* The tasks that keep the client alive: Rpc, Tick and Draw each end by    *)
(* making their own successor, a continuation.  ClientCreate submits the   *)
(* first of each, ClientDestroy asks all of them to stop, waits for it and *)
(* destroys the executor.  The server does the same with its Rpc alone.    *)
(***************************************************************************)
EXTENDS TaskExecutor

CONSTANTS
  Loops,         \* the self-renewing tasks
  Polling,       \* those that wait for a socket: Rpc
  main           \* the only client: the thread of ClientCreate and ClientDestroy

ASSUME LoopsAssumption == IsFiniteSet(Loops) /\ Polling \subseteq Loops
ASSUME ClientsAssumption == Clients = {main}
\* A slot for each loop's next task and for the one each worker has finished:
\* the code has 1024.
ASSUME EnoughSlotsAssumption == PoolSize >= Cardinality(Loops) + Cardinality(Workers)

VARIABLES
  process,       \* the client or the server
  loopState,     \* gRpcTaskState, gTickTaskState, gDrawTaskState
  current,       \* the handles in gRpcTask, gTickTask, gDrawTask
  phase          \* how far main is

vars == <<poolVars, threadVars, process, loopState, current, phase>>

loopVars == <<process, loopState, current, phase>>

\* The loops a process has.
LoopsOf(p) == IF p = "client" THEN Loops ELSE Polling

\* The constructors of Client and Server made the tasks; nothing is submitted yet.
Init ==
  /\ process \in {"client", "server"}
  /\ current = CHOOSE f \in Injection(Loops, 0 .. Cardinality(Loops) - 1) : TRUE
  /\ task = [h \in {current[l] : l \in LoopsOf(process)} |->
               NewTask(CHOOSE l \in Loops : current[l] = h)]
  /\ InitPool
  /\ InitThreads
  /\ loopState = [l \in Loops |-> IF l \in LoopsOf(process) THEN "running" ELSE "done"]
  /\ phase = "created"

------------------------------------------------------------------------------
\* The body of a loop's task.

Loop(t) == task[Top(t)].job

SetDone(t) == loopState' = [loopState EXCEPT ![Loop(t)] = "done"]

\* On entry the body looks at its state, once.
Enter(t) ==
  /\ at[t] = "body"
  /\ IF loopState[Loop(t)] = "shuttingDown"
     THEN SetDone(t) /\ Goto(t, "return")
     ELSE /\ UNCHANGED loopState
          /\ Goto(t, IF Loop(t) \in Polling THEN "work" ELSE "next")
  /\ UNCHANGED <<poolVars, calls, adj, batch, kept, home, process, current, phase>>

\* The client's Rpc polls its socket until it has an answer, and looks at its
\* state again after each poll.
Answered(t) ==
  /\ process = "client"
  /\ at[t] = "work"
  /\ IF loopState[Loop(t)] = "shuttingDown"
     THEN SetDone(t) /\ Goto(t, "return")
     ELSE Goto(t, "next") /\ UNCHANGED loopState
  /\ UNCHANGED <<poolVars, calls, adj, batch, kept, home, process, current, phase>>

TimedOut(t) ==
  /\ process = "client"
  /\ at[t] = "work"
  /\ loopState[Loop(t)] = "shuttingDown"
  /\ SetDone(t)
  /\ Goto(t, "return")
  /\ UNCHANGED <<poolVars, calls, adj, batch, kept, home, process, current, phase>>

\* The server's polls once; it answers a request if there is one, and goes on
\* whether or not there was.
Served(t) ==
  /\ process = "server"
  /\ at[t] = "work"
  /\ Goto(t, "next")
  /\ UNCHANGED <<poolVars, calls, adj, batch, kept, home, loopVars>>

\* A failed receive, an answer or request that does not decode, a failed send:
\* Rpc returns at once, with no successor, and its state stays as it is.
Failed(t) ==
  /\ at[t] = "work"
  /\ Goto(t, "return")
  /\ UNCHANGED <<poolVars, calls, adj, batch, kept, home, loopVars>>

\* Mutant: the belief is not renewed.
KeepsCurrent(t) ==
  /\ at[t] = "next"
  /\ \E next \in Allocatable :
       task' = Linked(Constructed(task, next, Loop(t)), current[Loop(t)], next, TRUE)
  /\ Goto(t, "return")
  /\ UNCHANGED <<ready, readySize, deletion, stop, calls, adj, batch, kept, home, loopVars>>

\* CreateTask, AddDependency on the task the loop believes to be running, and
\* that belief renewed.  Nobody else reaches the new task before this body ends.
Renew(t) ==
  /\ at[t] = "next"
  /\ \E next \in Allocatable :
       /\ task' = Linked(Constructed(task, next, Loop(t)), current[Loop(t)], next, TRUE)
       /\ current' = [current EXCEPT ![Loop(t)] = next]
  /\ Goto(t, "return")
  /\ UNCHANGED <<ready, readySize, deletion, stop, calls, adj, batch, kept, home,
                 process, loopState, phase>>

Return(t) == at[t] = "return" /\ Finish(t) /\ UNCHANGED loopVars

Body(t) ==
  \/ Enter(t)
  \/ Answered(t)
  \/ TimedOut(t)
  \/ Served(t)
  \/ Failed(t)
  \/ Renew(t)
  \/ Return(t)

------------------------------------------------------------------------------
\* main: ClientCreate's or ServerCreate's Submit, then, whenever the window is
\* closed or a signal asks for it, ClientDestroy or ServerDestroy.

Launch ==
  /\ phase = "created"
  /\ at[main] = "client"
  /\ BeginSubmit(main, {current[l] : l \in LoopsOf(process)}, TRUE)
  /\ phase' = "running"
  /\ UNCHANGED <<poolVars, calls, adj, kept, home, process, loopState, current>>

\* The states are set one after the other.
Signal ==
  /\ phase \in {"running", "signalling"}
  /\ at[main] = "client"
  /\ \E l \in Loops :
       /\ loopState[l] = "running"
       /\ loopState' = [loopState EXCEPT ![l] = "shuttingDown"]
  /\ phase' = "signalling"
  /\ UNCHANGED <<poolVars, threadVars, process, current>>

\* Waiting for each state to change, and then straight into ~TaskExecutor.
AllDone ==
  /\ phase = "signalling"
  /\ \A l \in Loops : loopState[l] = "done"
  /\ phase' = "destroying"
  /\ UNCHANGED <<poolVars, threadVars, process, loopState, current>>

\* request_stop calls the registered callbacks, which notify everybody.
RequestStop ==
  /\ phase = "destroying"
  /\ stop' = TRUE
  /\ at' = [t \in Threads |-> IF at[t] = "asleep" THEN "check" ELSE at[t]]
  /\ phase' = "joining"
  /\ UNCHANGED <<task, ready, readySize, deletion, calls, adj, batch, kept, home,
                 process, loopState, current>>

JoinWorkers ==
  /\ phase = "joining"
  /\ \A w \in Workers : at[w] = "exit"
  /\ phase' = "destroyed"
  /\ UNCHANGED <<poolVars, threadVars, process, loopState, current>>

Destroy == Signal \/ AllDone \/ RequestStop \/ JoinWorkers

PoolStep(t) == ThreadStep(t) /\ UNCHANGED loopVars

IdleStep(w) == WorkerStep(w) /\ UNCHANGED loopVars

Next ==
  \/ \E t \in Threads : PoolStep(t) \/ Body(t)
  \/ \E w \in Workers : IdleStep(w) \/ (WakeSpuriously(w) /\ UNCHANGED loopVars)
  \/ Launch
  \/ Destroy

Spec == Init /\ [][Next]_vars

\* Threads that can run do.  A socket need not answer nor fail: only looking at
\* the state is promised, and that the server's poll ends.  Once main has begun to stop the loops it goes on.
Unaided(t) == Enter(t) \/ TimedOut(t) \/ Served(t) \/ Renew(t) \/ Return(t)

Fairness ==
  /\ \A t \in Threads : WF_vars(PoolStep(t)) /\ WF_vars(Unaided(t))
  /\ \A w \in Workers : WF_vars(IdleStep(w))
  /\ WF_vars(phase # "running" /\ Destroy)

FairSpec == Spec /\ Fairness

------------------------------------------------------------------------------
\* A loop never runs beside itself, on any two workers, and while its body can
\* still make a successor the global handle names the task that is running: the
\* dependency is added to a live task that has yet to schedule its successors.
OneTaskPerLoop ==
  \A l \in Loops :
    LET running == {t \in Threads : /\ at[t] \in {"sub", "body", "work", "next"}
                                    /\ calls[t] # <<>> /\ Loop(t) = l}
        queued == {h \in ready : task[h].job = l}
    IN  /\ Cardinality(running) + Cardinality(queued) <= 1
        /\ \A t \in running : Top(t) = current[l]
        /\ queued \subseteq {current[l]}

\* task.inl:105 "pool is full?": a loop that renews itself finds a free slot,
\* although the old task's slot only comes back after the purge.
PoolSuffices == \A t \in Threads : at[t] = "next" => Free # {}

\* No task of the loop is left to run, or to renew itself.
Dead(l) ==
  \A h \in DOMAIN task :
    task[h].job = l => task[h].latch = 0 \/ \E t \in Threads : at[t] = "return" /\ Top(t) = h

\* A continuation is enqueued without waking anybody, and still it is run: the
\* worker that enqueued it goes on to drain the queue.  So once any worker got a
\* task, every loop that was asked to stop does, unless Rpc failed and is dead.
ShutdownCompletes ==
  \A l \in Loops :
    (loopState[l] = "shuttingDown" /\ \E w \in Workers : calls[w] # <<>>)
      ~> (loopState[l] = "done" \/ Dead(l))

==============================================================================
