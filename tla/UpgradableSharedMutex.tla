------------------------ MODULE UpgradableSharedMutex ------------------------
(***************************************************************************)
(* The reader/upgrader/writer lock of core/upgradablesharedmutex.          *)
(*                                                                         *)
(* Every atomic read-modify-write of myBits is one step, and so is every   *)
(* comparison and wake-up of std::atomic wait/notify.  A thread is inside  *)
(* at most one member function: call names it, at is its next step.  holds *)
(* records what the function granted to its caller, which is what decides  *)
(* the functions the caller may use next.                                  *)
(***************************************************************************)
EXTENDS Integers, FiniteSets

CONSTANTS
  Threads,     \* the threads that share the mutex
  Calls,       \* the member functions they use
  Modulus,     \* 2^8 in the code: value_t is uint8_t
  WeakCas      \* may compare_exchange_weak fail on an equal value?

\* One reader count per thread must fit in the bits above Writer and Upgraded;
\* nothing in the code checks it (64 readers wrap the count).
ASSUME ThreadsAssumption == IsFiniteSet(Threads)
ASSUME ModulusAssumption == Modulus \in Nat /\ 4 * Cardinality(Threads) + 3 < Modulus
ASSUME WeakCasAssumption == WeakCas \in BOOLEAN

VARIABLES
  myBits,      \* the atomic byte
  holds,       \* permission granted to each thread's caller
  call,        \* member function each thread is in, "none" outside
  at,          \* its next step there
  seen         \* the value handed to atomic.wait

vars == <<myBits, holds, call, at, seen>>

Reader == 4
Upgraded == 2
Writer == 1
Empty == 0

TryCalls == {"try_lock", "try_lock_shared", "try_lock_upgrade"}

Permissions == {"none", "reader", "upgrader", "writer"}

\* The functions a caller may use with what it holds.
Callable(p) ==
  CASE p = "none"     -> {"lock", "lock_shared", "lock_upgrade"} \cup TryCalls
    [] p = "reader"   -> {"unlock_shared"}
    [] p = "upgrader" -> {"unlock_upgrade", "unlock_upgrade_and_lock",
                          "unlock_upgrade_and_lock_shared"}
    [] p = "writer"   -> {"unlock", "unlock_and_lock_shared",
                          "unlock_and_lock_upgrade"}

AllCalls == UNION {Callable(p) : p \in Permissions}

Steps == {"idle", "first", "backoff", "second", "wait", "asleep", "notify"}

------------------------------------------------------------------------------
\* The arithmetic on the byte.

\* Mutant: an upgrader does not count, only the writer's bit is looked at.
IgnoresUpgrader(v) == v % 2 # 0

HasWriterOrUpgraded(v) == v % 4 # 0

FetchAdd(v, d) == (v + d) % Modulus

FetchOrUpgraded(v) == IF v % 4 \in {Upgraded, Upgraded + Writer} THEN v ELSE v + Upgraded

\* Mutant: unlock clears its own bit only.
ClearsWriterOnly(v) == v - (v % 2)

ClearWriterAndUpgraded(v) == v - (v % 4)

------------------------------------------------------------------------------
Init ==
  /\ myBits = Empty
  /\ holds = [t \in Threads |-> "none"]
  /\ call = [t \in Threads |-> "none"]
  /\ at = [t \in Threads |-> "idle"]
  /\ seen = [t \in Threads |-> Empty]

Goto(t, step) == at' = [at EXCEPT ![t] = step]

Grant(t, p) == holds' = [holds EXCEPT ![t] = p]

Return(t) ==
  /\ Goto(t, "idle")
  /\ call' = [call EXCEPT ![t] = "none"]
  /\ seen' = [seen EXCEPT ![t] = Empty]

\* A try function reports the failure; InternalAquireLock waits on the value.
Fail(t, value) ==
  /\ UNCHANGED holds
  /\ \/ call[t] \in TryCalls /\ Return(t)
     \/ /\ call[t] \notin TryCalls
        /\ Goto(t, "wait")
        /\ seen' = [seen EXCEPT ![t] = value]
        /\ UNCHANGED call

Enter(t, f) ==
  /\ call[t] = "none"
  /\ f \in Callable(holds[t]) \cap Calls
  /\ call' = [call EXCEPT ![t] = f]
  /\ Goto(t, "first")
  /\ UNCHANGED <<myBits, holds, seen>>

------------------------------------------------------------------------------
\* InternalTryLock<Expected>: lock and try_lock expect an empty byte,
\* unlock_upgrade_and_lock expects the caller's own Upgraded bit alone.

Expected(t) == IF call[t] = "unlock_upgrade_and_lock" THEN Upgraded ELSE Empty

TryLock(t) ==
  /\ at[t] = "first"
  /\ call[t] \in {"lock", "try_lock", "unlock_upgrade_and_lock"}
  /\ \/ /\ myBits = Expected(t)
        /\ myBits' = Writer
        /\ Grant(t, "writer")
        /\ Return(t)
     \/ /\ myBits # Expected(t) \/ WeakCas
        /\ Fail(t, myBits)
        /\ UNCHANGED myBits

\* InternalTryLockShared adds the reader first and takes it back when it finds
\* a writer or an upgrader.  The value it reports is the one before taking it
\* back, and it notifies nobody.
TryLockShared(t) ==
  /\ at[t] = "first"
  /\ call[t] \in {"lock_shared", "try_lock_shared"}
  /\ myBits' = FetchAdd(myBits, Reader)
  /\ IF HasWriterOrUpgraded(myBits)
     THEN Goto(t, "backoff") /\ UNCHANGED <<holds, call, seen>>
     ELSE Grant(t, "reader") /\ Return(t)

BackOff(t) ==
  /\ at[t] = "backoff"
  /\ myBits' = FetchAdd(myBits, -Reader)
  /\ Fail(t, myBits)

\* InternalTryLockUpgrade never takes its bit back: the holder's unlock does.
TryLockUpgrade(t) ==
  /\ at[t] = "first"
  /\ call[t] \in {"lock_upgrade", "try_lock_upgrade"}
  /\ myBits' = FetchOrUpgraded(myBits)
  /\ IF HasWriterOrUpgraded(myBits)
     THEN Fail(t, myBits)
     ELSE Grant(t, "upgrader") /\ Return(t)

\* std::atomic::wait compares once more before it blocks, and after every wake.
Wait(t) ==
  /\ at[t] = "wait"
  /\ Goto(t, IF myBits = seen[t] THEN "asleep" ELSE "first")
  /\ UNCHANGED <<myBits, holds, call, seen>>

\* The library shares its wait queues between addresses, so a sleeper may wake
\* for somebody else's notify.  Nothing promises that it will.
WakeSpuriously(t) ==
  /\ at[t] = "asleep"
  /\ Goto(t, "wait")
  /\ UNCHANGED <<myBits, holds, call, seen>>

------------------------------------------------------------------------------
\* The release functions: one atomic operation (two for the downgrades of a
\* writer), then notify_all as a step of its own.

Unlock(t) ==
  /\ \/ call[t] = "unlock" /\ at[t] = "first" /\ Grant(t, "none")
     \/ call[t] = "unlock_and_lock_shared" /\ at[t] = "second" /\ Grant(t, "reader")
  /\ myBits' = ClearWriterAndUpgraded(myBits)
  /\ Goto(t, "notify")
  /\ UNCHANGED <<call, seen>>

\* Mutant: the reader leaves without notifying.
UnlockSharedSilently(t) ==
  /\ call[t] = "unlock_shared" /\ at[t] = "first"
  /\ myBits' = FetchAdd(myBits, -Reader)
  /\ Grant(t, "none")
  /\ Return(t)

UnlockShared(t) ==
  /\ call[t] = "unlock_shared" /\ at[t] = "first"
  /\ myBits' = FetchAdd(myBits, -Reader)
  /\ Grant(t, "none")
  /\ Goto(t, "notify")
  /\ UNCHANGED <<call, seen>>

UnlockUpgrade(t) ==
  /\ call[t] = "unlock_upgrade" /\ at[t] = "first"
  /\ myBits' = FetchAdd(myBits, -Upgraded)
  /\ Grant(t, "none")
  /\ Goto(t, "notify")
  /\ UNCHANGED <<call, seen>>

UnlockUpgradeAndLockShared(t) ==
  /\ call[t] = "unlock_upgrade_and_lock_shared" /\ at[t] = "first"
  /\ myBits' = FetchAdd(myBits, Reader - Upgraded)
  /\ Grant(t, "reader")
  /\ Goto(t, "notify")
  /\ UNCHANGED <<call, seen>>

\* unlock_and_lock_shared counts the caller as a reader before it calls unlock.
UnlockAndLockShared(t) ==
  /\ call[t] = "unlock_and_lock_shared" /\ at[t] = "first"
  /\ myBits' = FetchAdd(myBits, Reader)
  /\ Goto(t, "second")
  /\ UNCHANGED <<holds, call, seen>>

\* Mutant: the two operations of unlock_and_lock_upgrade in the other order.
ClearWriterThenUpgrade(t) ==
  /\ call[t] = "unlock_and_lock_upgrade"
  /\ \/ /\ at[t] = "first"
        /\ myBits' = FetchAdd(myBits, -Writer)
        /\ Goto(t, "second")
        /\ Grant(t, "none")
     \/ /\ at[t] = "second"
        /\ myBits' = FetchOrUpgraded(myBits)
        /\ Grant(t, "upgrader")
        /\ Goto(t, "notify")
  /\ UNCHANGED <<call, seen>>

\* unlock_and_lock_upgrade sets Upgraded, then subtracts Writer.
UnlockAndLockUpgrade(t) ==
  /\ call[t] = "unlock_and_lock_upgrade"
  /\ \/ /\ at[t] = "first"
        /\ myBits' = FetchOrUpgraded(myBits)
        /\ Goto(t, "second")
        /\ UNCHANGED holds
     \/ /\ at[t] = "second"
        /\ myBits' = FetchAdd(myBits, -Writer)
        /\ Grant(t, "upgrader")
        /\ Goto(t, "notify")
  /\ UNCHANGED <<call, seen>>

NotifyAll(t) ==
  /\ at[t] = "notify"
  /\ at' = [s \in Threads |-> IF s = t THEN "idle"
                              ELSE IF at[s] = "asleep" THEN "wait" ELSE at[s]]
  /\ call' = [call EXCEPT ![t] = "none"]
  /\ UNCHANGED <<myBits, holds, seen>>

------------------------------------------------------------------------------
\* A step of the function the thread is in.
Step(t) ==
  \/ TryLock(t)
  \/ TryLockShared(t)
  \/ BackOff(t)
  \/ TryLockUpgrade(t)
  \/ Wait(t)
  \/ Unlock(t)
  \/ UnlockShared(t)
  \/ UnlockUpgrade(t)
  \/ UnlockUpgradeAndLockShared(t)
  \/ UnlockAndLockShared(t)
  \/ UnlockAndLockUpgrade(t)
  \/ NotifyAll(t)

\* A caller that holds the lock gives it back sooner or later.
GiveBack(t) == holds[t] # "none" /\ \E f \in Calls : Enter(t, f)

Next ==
  \E t \in Threads :
    \/ \E f \in Calls : Enter(t, f)
    \/ Step(t)
    \/ WakeSpuriously(t)

Spec == Init /\ [][Next]_vars

Fairness == \A t \in Threads : WF_vars(Step(t)) /\ WF_vars(GiveBack(t))

FairSpec == Spec /\ Fairness

------------------------------------------------------------------------------
TypeOK ==
  /\ myBits \in 0 .. Modulus - 1
  /\ holds \in [Threads -> Permissions]
  /\ call \in [Threads -> AllCalls \cup {"none"}]
  /\ at \in [Threads -> Steps]
  /\ seen \in [Threads -> 0 .. Modulus - 1]

\* A writer is alone, and there is one upgrader at most.  The three retry
\* loops, the transient reader count and the Upgraded bit that a failed
\* lock_upgrade leaves behind must not let anybody in (cpp:78-104).
MutualExclusion ==
  \A t, s \in Threads :
    t # s => /\ holds[t] = "writer" => holds[s] = "none"
             /\ holds[t] = "upgrader" => holds[s] # "upgrader"

\* The threads that are counted in the bits above Upgraded: readers, readers
\* about to back off, and a writer half-way to being a reader.
Counted ==
  {t \in Threads : \/ holds[t] = "reader"
                   \/ at[t] = "backoff"
                   \/ call[t] = "unlock_and_lock_shared" /\ at[t] = "second"}

\* The byte says exactly who is there.  In particular a bit that a failed
\* attempt left behind never outlives the holder it ran into, so a mutex that
\* nobody holds or is trying for is Empty again.
BitsMatchHolders ==
  /\ myBits \div 4 = Cardinality(Counted)
  /\ myBits % 4 \in {Writer, Writer + Upgraded} <=> \E t \in Threads : holds[t] = "writer"
  /\ myBits % 4 = Upgraded <=> \E t \in Threads : holds[t] = "upgrader"

\* Step by step the mutex is the lock of SharedLock: no permission is granted,
\* exchanged or given back except as described there.
Lock == INSTANCE SharedLock WITH Threads <- Threads, holds <- holds

ImplementsSharedLock == Lock!Spec

------------------------------------------------------------------------------
\* A lock that compare_exchange_weak refused although the byte was the expected
\* one: it waits for a byte of nobody's to change.
Misled(t) ==
  /\ at[t] \in {"wait", "asleep"}
  /\ call[t] = "lock"
  /\ seen[t] = Expected(t)

\* With the functions ConcurrentAccess and the standard lock guards use, lock
\* and lock_shared, a thread that waits for the mutex means that some thread
\* gets it: nobody is left asleep beside a free mutex, with one exception.  An
\* exchange that fails spuriously reports the free byte, and InternalAquireLock
\* (inl:9-21) sleeps on that until somebody else has come and gone.
SomebodyGetsTheLock ==
  \A t \in Threads :
    at[t] \in {"wait", "asleep"}
      ~> (\E s \in Threads : holds[s] # "none") \/ Misled(t)

==============================================================================
