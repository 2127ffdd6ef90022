------------------------------ MODULE SharedLock ------------------------------
(***************************************************************************)
(* What UpgradableSharedMutex promises its callers, with no bits, no retry *)
(* and no waiting: any number of readers, beside them at most one          *)
(* upgrader, or a single writer and nobody else.  A permission is granted, *)
(* exchanged or given back in one step.  While an upgrader or a writer     *)
(* holds the lock no new reader is let in.                                 *)
(***************************************************************************)
CONSTANT Threads

VARIABLE holds      \* the permission each thread has now

Permissions == {"none", "reader", "upgrader", "writer"}

Grant(t, p) == holds' = [holds EXCEPT ![t] = p]

Others(t, allowed) == \A s \in Threads \ {t} : holds[s] \in allowed

Init == holds = [t \in Threads |-> "none"]

\* lock_shared, lock_upgrade and lock: from nothing to a permission.
AcquireShared(t) ==
  /\ holds[t] = "none"
  /\ Others(t, {"none", "reader"})
  /\ Grant(t, "reader")

AcquireUpgrade(t) ==
  /\ holds[t] = "none"
  /\ Others(t, {"none", "reader"})
  /\ Grant(t, "upgrader")

\* lock, and unlock_upgrade_and_lock.
AcquireExclusive(t) ==
  /\ holds[t] \in {"none", "upgrader"}
  /\ Others(t, {"none"})
  /\ Grant(t, "writer")

\* unlock_and_lock_shared, unlock_and_lock_upgrade and
\* unlock_upgrade_and_lock_shared give up some of a permission, keep the rest.
Downgrade(t) ==
  \/ holds[t] = "writer" /\ (Grant(t, "reader") \/ Grant(t, "upgrader"))
  \/ holds[t] = "upgrader" /\ Grant(t, "reader")

Release(t) ==
  /\ holds[t] # "none"
  /\ Grant(t, "none")

Next ==
  \E t \in Threads :
    \/ AcquireShared(t)
    \/ AcquireUpgrade(t)
    \/ AcquireExclusive(t)
    \/ Downgrade(t)
    \/ Release(t)

Spec == Init /\ [][Next]_holds
===============================================================================
