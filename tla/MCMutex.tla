------------------------------- MODULE MCMutex -------------------------------
EXTENDS UpgradableSharedMutex, TLC

CONSTANTS t1, t2, t3

ThreadSymmetry == Permutations(Threads)

\* What ConcurrentAccess, std::unique_lock and std::shared_lock use.
GuardCalls == {"lock", "unlock", "lock_shared", "unlock_shared"}
==============================================================================
