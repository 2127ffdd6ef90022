--------------------- MODULE UpgradableSharedMutexProofs ---------------------
(***************************************************************************)
(* The mutex keeps its type, excludes, and implements SharedLock, for      *)
(* every finite set of threads whose reader counts fit in the byte.        *)
(***************************************************************************)
EXTENDS UpgradableSharedMutex, FiniteSetTheorems, TLAPS

\* Where a thread can be in a member function, given what its caller holds.
Protocol ==
  \A t \in Threads :
    /\ at[t] = "idle" <=> call[t] = "none"
    /\ at[t] \in {"first", "wait", "asleep"} => call[t] \in Callable(holds[t])
    /\ at[t] = "backoff" => /\ call[t] \in {"lock_shared", "try_lock_shared"}
                            /\ holds[t] = "none"
    /\ at[t] = "second" => /\ call[t] \in {"unlock_and_lock_shared", "unlock_and_lock_upgrade"}
                           /\ holds[t] = "writer"
    /\ (at[t] = "second" /\ call[t] = "unlock_and_lock_upgrade")
         => myBits % 4 = Upgraded + Writer

IInv == TypeOK /\ MutualExclusion /\ BitsMatchHolders /\ Protocol

------------------------------------------------------------------------------
\* An addition to the byte that stays within it does not wrap.
LEMMA FetchAddExact ==
  ASSUME NEW v \in Nat, NEW d \in Int, 0 <= v + d, v + d < Modulus
  PROVE  FetchAdd(v, d) = v + d
  BY ModulusAssumption DEF FetchAdd

\* The count and the two low bits of a byte determine it.
LEMMA ByteSplit ==
  ASSUME NEW v \in Nat
  PROVE  v = 4 * (v \div 4) + (v % 4) /\ v % 4 \in 0 .. 3 /\ v \div 4 \in Nat
  OBVIOUS

LEMMA ByteJoin ==
  ASSUME NEW n \in Nat, NEW r \in 0 .. 3
  PROVE  (4 * n + r) % 4 = r /\ (4 * n + r) \div 4 = n
  OBVIOUS

\* Every set of threads is finite and no larger than Threads.
LEMMA CountBound ==
  ASSUME NEW S \in SUBSET Threads
  PROVE  /\ IsFiniteSet(S)
         /\ Cardinality(S) \in Nat
         /\ Cardinality(Threads) \in Nat
         /\ Cardinality(S) <= Cardinality(Threads)
  BY ThreadsAssumption, FS_Subset, FS_CardinalityType

\* One more thread is counted, and there was room for it in the byte.
LEMMA CountUp ==
  ASSUME NEW S \in SUBSET Threads, NEW t \in Threads, t \notin S
  PROVE  /\ Cardinality(S \cup {t}) = Cardinality(S) + 1
         /\ 4 * (Cardinality(S) + 1) + 3 < Modulus
<1>1. Cardinality(S \cup {t}) = Cardinality(S) + 1
  BY CountBound, FS_AddElement
<1>2. Cardinality(S) + 1 <= Cardinality(Threads)
  BY <1>1, CountBound, S \cup {t} \in SUBSET Threads
<1>3. QED
  BY <1>1, <1>2, CountBound, ModulusAssumption

\* One thread less is counted.
LEMMA CountDown ==
  ASSUME NEW S \in SUBSET Threads, NEW t \in S
  PROVE  Cardinality(S \ {t}) = Cardinality(S) - 1 /\ Cardinality(S) >= 1
<1>1. Cardinality(S \ {t}) = Cardinality(S) - 1
  BY CountBound, FS_RemoveElement
<1>2. Cardinality(S \ {t}) \in Nat
  BY CountBound, S \ {t} \in SUBSET Threads
<1>3. QED
  BY <1>1, <1>2, CountBound

LEMMA CallableCalls ==
  ASSUME NEW p \in Permissions
  PROVE  Callable(p) \subseteq AllCalls /\ "none" \notin Callable(p)
  BY DEF Permissions, Callable, AllCalls, TryCalls

\* A byte that counts n threads and has r in its low bits is within the type.
LEMMA ByteRange ==
  ASSUME NEW n \in Nat, 4 * n + 3 < Modulus, NEW r \in 0 .. 3
  PROVE  4 * n + r \in 0 .. Modulus - 1
  BY ModulusAssumption

------------------------------------------------------------------------------
LEMMA InitInv == Init => IInv
<1> SUFFICES ASSUME Init PROVE IInv
  OBVIOUS
<1>1. TypeOK
  BY ModulusAssumption, CountBound DEF Init, TypeOK, Permissions, Steps, Empty
<1>2. Counted = {}
  BY DEF Init, Counted
<1>3. BitsMatchHolders
  BY <1>2, FS_EmptySet DEF Init, BitsMatchHolders, Empty, Writer, Upgraded
<1>4. MutualExclusion /\ Protocol
  BY DEF Init, MutualExclusion, Protocol
<1>5. QED
  BY <1>1, <1>3, <1>4 DEF IInv

\* What the byte is in a state of the invariant, and how far it is from its end.
LEMMA ByteValue ==
  ASSUME IInv
  PROVE  /\ myBits = 4 * Cardinality(Counted) + (myBits % 4)
         /\ myBits \in Nat
         /\ myBits % 4 \in 0 .. 3
         /\ Cardinality(Counted) \in Nat
         /\ 4 * Cardinality(Counted) + 3 < Modulus
         /\ Counted \in SUBSET Threads
<1>1. Counted \in SUBSET Threads
  BY DEF Counted
<1>2. myBits \in Nat
  BY ModulusAssumption DEF IInv, TypeOK
<1>3. QED
  BY <1>1, <1>2, ByteSplit, CountBound, ModulusAssumption DEF IInv, BitsMatchHolders

\* The three ways the count moves, stated for the byte as FetchAdd leaves it.
LEMMA AddReader ==
  ASSUME IInv, NEW t \in Threads \ Counted, NEW r \in {0, Upgraded},
         myBits % 4 >= r
  PROVE  /\ FetchAdd(myBits, Reader - r) \in 0 .. Modulus - 1
         /\ FetchAdd(myBits, Reader - r) % 4 = (myBits % 4) - r
         /\ FetchAdd(myBits, Reader - r) \div 4 = Cardinality(Counted \cup {t})
<1> DEFINE n == Cardinality(Counted) + 1
           low == (myBits % 4) - r
<1>1. n \in Nat /\ 4 * n + 3 < Modulus /\ n = Cardinality(Counted \cup {t})
  <2>1. t \in Threads /\ t \notin Counted /\ Counted \in SUBSET Threads
    BY ByteValue
  <2>2. /\ Cardinality(Counted \cup {t}) = Cardinality(Counted) + 1
        /\ 4 * (Cardinality(Counted) + 1) + 3 < Modulus
    BY <2>1, CountUp
  <2>3. QED
    <3>1. Cardinality(Counted) \in Nat
      BY ByteValue
    <3>2. QED BY <2>2, <3>1, ModulusAssumption
<1>2. low \in 0 .. 3 /\ r \in Nat
  BY ByteValue DEF Upgraded
<1>3. myBits + (Reader - r) = 4 * n + low
  BY ByteValue, <1>2 DEF Reader
<1>4. FetchAdd(myBits, Reader - r) = 4 * n + low
  <2>1. 4 * n + low \in 0 .. Modulus - 1
    BY <1>1, <1>2, ByteRange
  <2>2. Reader - r \in Int /\ myBits \in Nat
    BY <1>2, ByteValue DEF Reader
  <2>3. QED
    BY <2>1, <2>2, <1>3, FetchAddExact, ModulusAssumption
<1>5. QED
  BY <1>1, <1>2, <1>4, ByteJoin, ByteRange

LEMMA SubReader ==
  ASSUME IInv, NEW t \in Counted
  PROVE  /\ FetchAdd(myBits, -Reader) \in 0 .. Modulus - 1
         /\ FetchAdd(myBits, -Reader) % 4 = myBits % 4
         /\ FetchAdd(myBits, -Reader) \div 4 = Cardinality(Counted \ {t})
<1> DEFINE n == Cardinality(Counted) - 1
           low == myBits % 4
<1>1. n \in Nat /\ 4 * n + 3 < Modulus /\ n = Cardinality(Counted \ {t})
  <2>1. Counted \in SUBSET Threads
    BY ByteValue
  <2>2. Cardinality(Counted \ {t}) = Cardinality(Counted) - 1 /\ Cardinality(Counted) >= 1
    BY <2>1, CountDown
  <2>3. QED
    <3>1. Cardinality(Counted) \in Nat /\ 4 * Cardinality(Counted) + 3 < Modulus
      BY ByteValue
    <3>2. QED BY <2>2, <3>1, ModulusAssumption
<1>2. low \in 0 .. 3
  BY ByteValue
<1>3. myBits + (-Reader) = 4 * n + low
  BY ByteValue, <1>2 DEF Reader
<1>4. FetchAdd(myBits, -Reader) = 4 * n + low
  <2>1. 4 * n + low \in 0 .. Modulus - 1
    BY <1>1, <1>2, ByteRange
  <2>2. -Reader \in Int /\ myBits \in Nat
    BY ByteValue DEF Reader
  <2>3. QED
    BY <2>1, <2>2, <1>3, FetchAddExact, ModulusAssumption
<1>5. QED
  BY <1>1, <1>2, <1>4, ByteJoin, ByteRange

LEMMA LowBits ==
  ASSUME IInv, NEW low \in 0 .. 3, NEW v, v = (myBits - (myBits % 4)) + low
  PROVE  /\ v \in 0 .. Modulus - 1
         /\ v % 4 = low
         /\ v \div 4 = Cardinality(Counted)
<1>1. v = 4 * Cardinality(Counted) + low
  BY ByteValue
<1>2. QED
  BY <1>1, ByteValue, ByteJoin, ByteRange

------------------------------------------------------------------------------
\* One lemma per action: the step keeps the invariant.

LEMMA EnterInv ==
  ASSUME IInv, NEW t \in Threads, NEW f \in Calls, Enter(t, f)
  PROVE  IInv'
<1> USE DEF IInv, Enter, Goto
<1>1. holds[t] \in Permissions /\ f \in AllCalls /\ f # "none" /\ f \in Callable(holds[t])
  BY CallableCalls DEF TypeOK
<1>2. TypeOK'
  BY <1>1 DEF TypeOK, Steps
<1>3. Counted' = Counted
  BY <1>1 DEF TypeOK, Counted, Protocol
<1>4. BitsMatchHolders'
  BY <1>3 DEF BitsMatchHolders
<1>5. MutualExclusion'
  BY DEF MutualExclusion
<1>6. Protocol'
  BY <1>1 DEF TypeOK, Protocol
<1>7. QED
  BY <1>2, <1>4, <1>5, <1>6

LEMMA FailInv ==
  ASSUME IInv, NEW t \in Threads, NEW v \in 0 .. Modulus - 1,
         at[t] = "first", Fail(t, v), UNCHANGED myBits
  PROVE  IInv'
<1> USE DEF IInv, Fail, Return, Goto
<1>1. TypeOK'
  BY ModulusAssumption DEF TypeOK, Steps, Empty
<1>2. Counted' = Counted
  BY DEF TypeOK, Counted, Protocol
<1>3. BitsMatchHolders'
  BY <1>2 DEF BitsMatchHolders
<1>4. MutualExclusion'
  BY DEF MutualExclusion
<1>5. Protocol'
  BY DEF TypeOK, Protocol
<1>6. QED
  BY <1>1, <1>3, <1>4, <1>5

\* A byte with nothing but what the caller expects says that it is alone.
LEMMA ExpectedAlone ==
  ASSUME IInv, NEW t \in Threads, at[t] = "first", myBits = Expected(t),
         call[t] \in {"lock", "try_lock", "unlock_upgrade_and_lock"}
  PROVE  /\ Counted = {}
         /\ holds[t] \in {"none", "upgrader"}
         /\ \A s \in Threads \ {t} : holds[s] = "none"
<1> USE DEF IInv
<1>1. myBits \in {0, 2} /\ (myBits = 0 \/ call[t] = "unlock_upgrade_and_lock")
  BY DEF Expected, Empty, Upgraded
<1>2. Cardinality(Counted) = 0 /\ myBits % 4 = myBits
  BY <1>1 DEF BitsMatchHolders
<1>3. Counted = {}
  BY <1>2, ByteValue, CountBound, FS_EmptySet
<1>4. \A s \in Threads : holds[s] \notin {"reader", "writer"}
  BY <1>1, <1>2, <1>3 DEF Counted, BitsMatchHolders, Writer, Upgraded
<1>5. CASE myBits = 0
  BY <1>2, <1>3, <1>4, <1>5 DEF BitsMatchHolders, TypeOK, Permissions, Upgraded
<1>6. CASE call[t] = "unlock_upgrade_and_lock"
  <2>1. holds[t] = "upgrader"
    BY <1>6 DEF Protocol, Callable, TryCalls, TypeOK, Permissions
  <2>2. QED
    BY <2>1, <1>3, <1>4 DEF MutualExclusion, TypeOK, Permissions
<1>7. QED
  BY <1>1, <1>5, <1>6

LEMMA TryLockInv ==
  ASSUME IInv, NEW t \in Threads, TryLock(t)
  PROVE  IInv'
<1>1. CASE /\ myBits = Expected(t)
           /\ myBits' = Writer
           /\ Grant(t, "writer")
           /\ Return(t)
  <2> USE DEF IInv, Grant, Return, Goto
  <2>1. Counted = {} /\ \A s \in Threads \ {t} : holds[s] = "none"
    BY <1>1, ExpectedAlone DEF TryLock
  <2>2. TypeOK'
    BY <1>1, ModulusAssumption, CountBound DEF TypeOK, Writer, Empty, Permissions, Steps
  <2>3. Counted' = {}
    BY <1>1, <2>1 DEF Counted, TypeOK
  <2>4. BitsMatchHolders'
    <3>1. Cardinality(Counted') = 0
      BY <2>3, FS_EmptySet
    <3>2. myBits' \div 4 = 0 /\ myBits' % 4 = 1
      BY <1>1 DEF Writer
    <3>3. holds'[t] = "writer" /\ \A s \in Threads : holds'[s] # "upgrader"
      BY <1>1, <2>1 DEF TypeOK
    <3>4. QED
      BY <3>1, <3>2, <3>3 DEF BitsMatchHolders, Writer, Upgraded
  <2>5. MutualExclusion'
    BY <1>1, <2>1 DEF MutualExclusion, TypeOK
  <2>6. Protocol'
    BY <1>1, <2>1 DEF Protocol, TypeOK
  <2>7. QED
    BY <2>2, <2>4, <2>5, <2>6
<1>2. CASE Fail(t, myBits) /\ UNCHANGED myBits
  BY <1>2, FailInv DEF IInv, TypeOK, TryLock
<1>3. QED
  BY <1>1, <1>2 DEF TryLock

LEMMA TryLockSharedInv ==
  ASSUME IInv, NEW t \in Threads, TryLockShared(t)
  PROVE  IInv'
<1> USE DEF IInv, TryLockShared, Grant, Return, Goto
<1>1. holds[t] = "none" /\ t \notin Counted
  BY DEF Protocol, Callable, TryCalls, TypeOK, Permissions, Counted
<1>2. /\ myBits' \in 0 .. Modulus - 1
      /\ myBits' % 4 = myBits % 4
      /\ myBits' \div 4 = Cardinality(Counted \cup {t})
  <2>1. t \in Threads \ Counted /\ 0 \in {0, Upgraded} /\ myBits % 4 >= 0 /\ Reader - 0 = Reader
    BY <1>1, ByteValue DEF Reader
  <2>2. /\ FetchAdd(myBits, Reader - 0) \in 0 .. Modulus - 1
        /\ FetchAdd(myBits, Reader - 0) % 4 = (myBits % 4) - 0
        /\ FetchAdd(myBits, Reader - 0) \div 4 = Cardinality(Counted \cup {t})
    BY <2>1, AddReader
  <2>3. QED
    BY <2>1, <2>2, ByteValue
<1>3. TypeOK'
  BY <1>2, ModulusAssumption, CountBound DEF TypeOK, Steps, Permissions, Empty
<1>4. Counted' = Counted \cup {t}
  BY <1>1 DEF TypeOK, Counted
<1>5. MutualExclusion' /\ BitsMatchHolders' /\ Protocol'
  <2>1. CASE HasWriterOrUpgraded(myBits)
    <3>1. holds' = holds /\ call' = call /\ at' = [at EXCEPT ![t] = "backoff"]
      BY <2>1
    <3>2. MutualExclusion'
      BY <3>1 DEF MutualExclusion
    <3>3. BitsMatchHolders'
      BY <3>1, <1>2, <1>4 DEF BitsMatchHolders
    <3>4. Protocol'
      BY <3>1, <1>1, <1>2 DEF Protocol, TypeOK
    <3>5. QED
      BY <3>2, <3>3, <3>4
  <2>2. CASE ~HasWriterOrUpgraded(myBits)
    <3>1. /\ holds' = [holds EXCEPT ![t] = "reader"]
          /\ call' = [call EXCEPT ![t] = "none"]
          /\ at' = [at EXCEPT ![t] = "idle"]
      BY <2>2
    <3>2. myBits % 4 = 0 /\ \A s \in Threads : holds[s] \notin {"writer", "upgrader"}
      BY <2>2 DEF HasWriterOrUpgraded, BitsMatchHolders, Writer, Upgraded
    <3>3. \A s \in Threads : holds'[s] \notin {"writer", "upgrader"}
      BY <3>1, <3>2 DEF TypeOK
    <3>4. MutualExclusion'
      BY <3>3 DEF MutualExclusion
    <3>5. BitsMatchHolders'
      BY <3>2, <3>3, <1>2, <1>4 DEF BitsMatchHolders, Writer, Upgraded
    <3>6. Protocol'
      BY <3>1, <3>2, <3>3 DEF Protocol, TypeOK
    <3>7. QED
      BY <3>4, <3>5, <3>6
  <2>3. QED
    BY <2>1, <2>2
<1>6. QED
  BY <1>3, <1>5

LEMMA BackOffInv ==
  ASSUME IInv, NEW t \in Threads, BackOff(t)
  PROVE  IInv'
<1> USE DEF IInv, BackOff, Fail, Return, Goto
<1>1. holds[t] = "none" /\ t \in Counted
  BY DEF Protocol, Counted
<1>2. /\ myBits' \in 0 .. Modulus - 1
      /\ myBits' % 4 = myBits % 4
      /\ myBits' \div 4 = Cardinality(Counted \ {t})
  BY <1>1, SubReader
<1>3. TypeOK'
  BY <1>2, ModulusAssumption, CountBound DEF TypeOK, Steps, Empty
<1>4. Counted' = Counted \ {t}
  BY <1>1 DEF TypeOK, Counted
<1>5. BitsMatchHolders'
  BY <1>2, <1>4 DEF BitsMatchHolders
<1>6. MutualExclusion'
  BY DEF MutualExclusion
<1>7. Protocol'
  <2>1. \A u \in Threads : u # t => at'[u] = at[u] /\ call'[u] = call[u]
    BY DEF TypeOK
  <2>2. call[t] \in {"lock_shared", "try_lock_shared"} /\ call[t] # "none"
    BY DEF Protocol
  <2>3. \/ at'[t] = "idle" /\ call'[t] = "none"
        \/ at'[t] = "wait" /\ call'[t] = call[t] /\ call[t] = "lock_shared"
    BY <2>2 DEF TypeOK, TryCalls
  <2>4. holds' = holds /\ "lock_shared" \in Callable("none")
    BY DEF Callable
  <2>5. QED
    BY <1>1, <1>2, <2>1, <2>2, <2>3, <2>4 DEF Protocol
<1>8. QED
  BY <1>3, <1>5, <1>6, <1>7

\* Or-ing Upgraded into the byte changes its low bits only.
LEMMA OrUpgraded ==
  ASSUME IInv
  PROVE  /\ FetchOrUpgraded(myBits) \in 0 .. Modulus - 1
         /\ FetchOrUpgraded(myBits) \div 4 = Cardinality(Counted)
         /\ FetchOrUpgraded(myBits) % 4 =
              IF myBits % 4 \in {2, 3} THEN myBits % 4 ELSE (myBits % 4) + 2
<1> DEFINE low == IF myBits % 4 \in {2, 3} THEN myBits % 4 ELSE (myBits % 4) + 2
<1>1. low \in 0 .. 3
  BY ByteValue
<1>2. FetchOrUpgraded(myBits) = (myBits - (myBits % 4)) + low
  BY ByteValue DEF FetchOrUpgraded, Upgraded, Writer
<1>3. QED
  BY <1>1, <1>2, LowBits

LEMMA TryLockUpgradeInv ==
  ASSUME IInv, NEW t \in Threads, TryLockUpgrade(t)
  PROVE  IInv'
<1> USE DEF IInv, TryLockUpgrade, Goto
<1>1. holds[t] = "none" /\ t \notin Counted
  BY DEF Protocol, Callable, TryCalls, TypeOK, Permissions, Counted
<1>2. /\ myBits' \in 0 .. Modulus - 1
      /\ myBits' \div 4 = Cardinality(Counted)
      /\ myBits' % 4 = IF myBits % 4 \in {2, 3} THEN myBits % 4 ELSE (myBits % 4) + 2
  BY OrUpgraded
<1>3. CASE HasWriterOrUpgraded(myBits)
  <2> USE DEF Fail, Return
  <2>1. myBits % 4 \in {1, 2, 3} /\ Fail(t, myBits)
    BY <1>3, ByteValue DEF HasWriterOrUpgraded
  <2>2. TypeOK'
    BY <1>2, <2>1, ModulusAssumption, CountBound DEF TypeOK, Steps, Empty
  <2>3. Counted' = Counted
    BY <1>1, <2>1 DEF TypeOK, Counted
  <2>4. holds' = holds
    BY <2>1
  <2>5. MutualExclusion'
    BY <2>4 DEF MutualExclusion
  <2>6. BitsMatchHolders'
    BY <1>2, <2>1, <2>3, <2>4 DEF BitsMatchHolders, Writer, Upgraded
  <2>7. Protocol'
    <3>1. myBits % 4 = 3 => myBits' % 4 = 3
      BY <1>2
    <3>2. \/ call' = [call EXCEPT ![t] = "none"] /\ at' = [at EXCEPT ![t] = "idle"]
          \/ call' = call /\ at' = [at EXCEPT ![t] = "wait"]
      BY <2>1
    <3>3. call[t] \in Callable(holds[t]) /\ call[t] # "none"
      BY DEF Protocol
    <3>4. QED
      BY <3>1, <3>2, <3>3, <2>4, <1>1 DEF Protocol, TypeOK, Writer, Upgraded
  <2>8. QED
    BY <2>2, <2>5, <2>6, <2>7
<1>4. CASE ~HasWriterOrUpgraded(myBits)
  <2> USE DEF Grant, Return
  <2>1. /\ holds' = [holds EXCEPT ![t] = "upgrader"]
        /\ call' = [call EXCEPT ![t] = "none"]
        /\ at' = [at EXCEPT ![t] = "idle"]
    BY <1>4
  <2>2. myBits % 4 = 0 /\ \A s \in Threads : holds[s] \notin {"writer", "upgrader"}
    BY <1>4 DEF HasWriterOrUpgraded, BitsMatchHolders, Writer, Upgraded
  <2>3. TypeOK'
    BY <1>2, <1>4, ModulusAssumption, CountBound DEF TypeOK, Steps, Permissions, Empty
  <2>4. Counted' = Counted
    BY <1>1, <2>1 DEF TypeOK, Counted
  <2>5. MutualExclusion'
    BY <2>1, <2>2 DEF MutualExclusion, TypeOK
  <2>6. BitsMatchHolders'
    <3>1. myBits' % 4 = 2 /\ myBits' \div 4 = Cardinality(Counted')
      BY <1>2, <2>2, <2>4
    <3>2. holds'[t] = "upgrader" /\ \A s \in Threads : holds'[s] # "writer"
      BY <2>1, <2>2 DEF TypeOK
    <3>3. QED
      BY <3>1, <3>2 DEF BitsMatchHolders, Writer, Upgraded
  <2>7. Protocol'
    BY <2>1, <2>2 DEF Protocol, TypeOK
  <2>8. QED
    BY <2>3, <2>5, <2>6, <2>7
<1>5. QED
  BY <1>3, <1>4

LEMMA WaitInv ==
  ASSUME IInv, NEW t \in Threads, Wait(t) \/ WakeSpuriously(t)
  PROVE  IInv'
<1> USE DEF IInv, Wait, WakeSpuriously, Goto
<1>1. TypeOK'
  BY DEF TypeOK, Steps
<1>2. Counted' = Counted
  BY DEF TypeOK, Counted
<1>3. BitsMatchHolders'
  BY <1>2 DEF BitsMatchHolders
<1>4. MutualExclusion'
  BY DEF MutualExclusion
<1>5. Protocol'
  BY DEF Protocol, TypeOK
<1>6. QED
  BY <1>1, <1>3, <1>4, <1>5

LEMMA NotifyAllInv ==
  ASSUME IInv, NEW t \in Threads, NotifyAll(t)
  PROVE  IInv'
<1> USE DEF IInv, NotifyAll
<1>1. TypeOK'
  BY DEF TypeOK, Steps
<1>2. Counted' = Counted
  BY DEF TypeOK, Counted
<1>3. BitsMatchHolders'
  BY <1>2 DEF BitsMatchHolders
<1>4. MutualExclusion'
  BY DEF MutualExclusion
<1>5. Protocol'
  BY DEF Protocol, TypeOK
<1>6. QED
  BY <1>1, <1>3, <1>4, <1>5

\* What is known when the thread that gives something up holds the write lock.
LEMMA WriterAlone ==
  ASSUME IInv, NEW t \in Threads, holds[t] = "writer"
  PROVE  /\ myBits % 4 \in {1, 3}
         /\ \A s \in Threads \ {t} : holds[s] = "none" /\ at[s] # "second"
  BY DEF IInv, MutualExclusion, BitsMatchHolders, Protocol, Writer, Upgraded

LEMMA UnlockInv ==
  ASSUME IInv, NEW t \in Threads, Unlock(t)
  PROVE  IInv'
<1> USE DEF IInv, Unlock, Goto, Grant
<1>1. holds[t] = "writer"
  BY DEF Protocol, Callable, TryCalls, TypeOK, Permissions
<1>2. /\ myBits' \in 0 .. Modulus - 1
      /\ myBits' % 4 = 0
      /\ myBits' \div 4 = Cardinality(Counted)
  <2>1. myBits' = (myBits - (myBits % 4)) + 0
    BY ByteValue DEF ClearWriterAndUpgraded
  <2>2. QED
    BY <2>1, LowBits
<1>3. /\ at' = [at EXCEPT ![t] = "notify"]
      /\ call' = call
      /\ \/ call[t] = "unlock" /\ holds' = [holds EXCEPT ![t] = "none"]
         \/ call[t] = "unlock_and_lock_shared" /\ holds' = [holds EXCEPT ![t] = "reader"]
  OBVIOUS
<1>4. Counted' = Counted
  BY <1>1, <1>3 DEF TypeOK, Counted
<1>5. \A s \in Threads : holds'[s] \notin {"writer", "upgrader"}
  BY <1>3, <1>1, WriterAlone DEF TypeOK
<1>6. TypeOK'
  BY <1>2, <1>3 DEF TypeOK, Steps, Permissions
<1>7. MutualExclusion'
  BY <1>5 DEF MutualExclusion
<1>8. BitsMatchHolders'
  BY <1>2, <1>4, <1>5 DEF BitsMatchHolders, Writer, Upgraded
<1>9. Protocol'
  BY <1>1, <1>3, WriterAlone DEF Protocol, TypeOK
<1>10. QED
  BY <1>6, <1>7, <1>8, <1>9

LEMMA UnlockSharedInv ==
  ASSUME IInv, NEW t \in Threads, UnlockShared(t)
  PROVE  IInv'
<1> USE DEF IInv, UnlockShared, Goto, Grant
<1>1. holds[t] = "reader" /\ t \in Counted
  BY DEF Protocol, Callable, TryCalls, TypeOK, Permissions, Counted
<1>2. /\ myBits' \in 0 .. Modulus - 1
      /\ myBits' % 4 = myBits % 4
      /\ myBits' \div 4 = Cardinality(Counted \ {t})
  BY <1>1, SubReader
<1>3. Counted' = Counted \ {t}
  BY <1>1 DEF TypeOK, Counted
<1>4. TypeOK'
  BY <1>2 DEF TypeOK, Steps, Permissions
<1>5. MutualExclusion'
  BY <1>1 DEF MutualExclusion, TypeOK
<1>6. \A p \in {"writer", "upgrader"} :
        (\E s \in Threads : holds'[s] = p) <=> (\E s \in Threads : holds[s] = p)
  BY <1>1 DEF TypeOK
<1>7. BitsMatchHolders'
  BY <1>2, <1>3, <1>6 DEF BitsMatchHolders
<1>8. Protocol'
  BY <1>1, <1>2 DEF Protocol, TypeOK
<1>9. QED
  BY <1>4, <1>5, <1>7, <1>8

LEMMA UnlockUpgradeInv ==
  ASSUME IInv, NEW t \in Threads, UnlockUpgrade(t)
  PROVE  IInv'
<1> USE DEF IInv, UnlockUpgrade, Goto, Grant
<1>1. holds[t] = "upgrader" /\ t \notin Counted
  BY DEF Protocol, Callable, TryCalls, TypeOK, Permissions, Counted
<1>2. /\ myBits' \in 0 .. Modulus - 1
      /\ myBits' % 4 = 0
      /\ myBits' \div 4 = Cardinality(Counted)
  <2>1. myBits % 4 = 2
    BY <1>1 DEF BitsMatchHolders, Upgraded
  <2>2. myBits + (-Upgraded) = (myBits - (myBits % 4)) + 0
    BY <2>1, ByteValue DEF Upgraded
  <2>3. LET v == myBits + (-Upgraded) IN
        v \in 0 .. Modulus - 1 /\ v % 4 = 0 /\ v \div 4 = Cardinality(Counted)
    BY <2>2, LowBits
  <2>4. myBits' = myBits + (-Upgraded)
    BY <2>3, ByteValue, FetchAddExact, ModulusAssumption DEF Upgraded
  <2>5. QED
    BY <2>3, <2>4
<1>3. Counted' = Counted
  BY <1>1 DEF TypeOK, Counted
<1>4. \A s \in Threads : holds'[s] \notin {"writer", "upgrader"}
  BY <1>1 DEF MutualExclusion, TypeOK
<1>5. TypeOK'
  BY <1>2 DEF TypeOK, Steps, Permissions
<1>6. MutualExclusion'
  BY <1>4 DEF MutualExclusion
<1>7. BitsMatchHolders'
  BY <1>2, <1>3, <1>4 DEF BitsMatchHolders, Writer, Upgraded
<1>8. Protocol'
  BY <1>1, <1>4 DEF Protocol, TypeOK
<1>9. QED
  BY <1>5, <1>6, <1>7, <1>8

LEMMA UnlockUpgradeAndLockSharedInv ==
  ASSUME IInv, NEW t \in Threads, UnlockUpgradeAndLockShared(t)
  PROVE  IInv'
<1> USE DEF IInv, UnlockUpgradeAndLockShared, Goto, Grant
<1>1. holds[t] = "upgrader" /\ t \notin Counted
  BY DEF Protocol, Callable, TryCalls, TypeOK, Permissions, Counted
<1>2. /\ myBits' \in 0 .. Modulus - 1
      /\ myBits' % 4 = 0
      /\ myBits' \div 4 = Cardinality(Counted \cup {t})
  <2>1. myBits % 4 = 2
    BY <1>1 DEF BitsMatchHolders, Upgraded
  <2>2. myBits % 4 >= Upgraded /\ Upgraded \in {0, Upgraded} /\ (myBits % 4) - Upgraded = 0
    BY <2>1 DEF Upgraded
  <2>3. QED
    BY <1>1, <2>2, AddReader
<1>3. Counted' = Counted \cup {t}
  BY <1>1 DEF TypeOK, Counted
<1>4. \A s \in Threads : holds'[s] \notin {"writer", "upgrader"}
  BY <1>1 DEF MutualExclusion, TypeOK
<1>5. TypeOK'
  BY <1>2 DEF TypeOK, Steps, Permissions
<1>6. MutualExclusion'
  BY <1>4 DEF MutualExclusion
<1>7. BitsMatchHolders'
  BY <1>2, <1>3, <1>4 DEF BitsMatchHolders, Writer, Upgraded
<1>8. Protocol'
  BY <1>1, <1>4 DEF Protocol, TypeOK
<1>9. QED
  BY <1>5, <1>6, <1>7, <1>8

LEMMA UnlockAndLockSharedInv ==
  ASSUME IInv, NEW t \in Threads, UnlockAndLockShared(t)
  PROVE  IInv'
<1> USE DEF IInv, UnlockAndLockShared, Goto
<1>1. holds[t] = "writer" /\ t \notin Counted
  BY DEF Protocol, Callable, TryCalls, TypeOK, Permissions, Counted
<1>2. /\ myBits' \in 0 .. Modulus - 1
      /\ myBits' % 4 = myBits % 4
      /\ myBits' \div 4 = Cardinality(Counted \cup {t})
  <2>1. t \in Threads \ Counted /\ 0 \in {0, Upgraded} /\ myBits % 4 >= 0 /\ Reader - 0 = Reader
    BY <1>1, ByteValue DEF Reader
  <2>2. /\ FetchAdd(myBits, Reader - 0) \in 0 .. Modulus - 1
        /\ FetchAdd(myBits, Reader - 0) % 4 = (myBits % 4) - 0
        /\ FetchAdd(myBits, Reader - 0) \div 4 = Cardinality(Counted \cup {t})
    BY <2>1, AddReader
  <2>3. QED
    BY <2>1, <2>2, ByteValue
<1>3. Counted' = Counted \cup {t}
  BY <1>1 DEF TypeOK, Counted
<1>4. TypeOK'
  BY <1>2 DEF TypeOK, Steps
<1>5. MutualExclusion'
  BY DEF MutualExclusion
<1>6. BitsMatchHolders'
  BY <1>2, <1>3 DEF BitsMatchHolders
<1>7. Protocol'
  BY <1>1, <1>2 DEF Protocol, TypeOK
<1>8. QED
  BY <1>4, <1>5, <1>6, <1>7

LEMMA UnlockAndLockUpgradeInv ==
  ASSUME IInv, NEW t \in Threads, UnlockAndLockUpgrade(t)
  PROVE  IInv'
<1> USE DEF IInv, UnlockAndLockUpgrade, Goto, Grant
<1>1. holds[t] = "writer" /\ t \notin Counted
  BY DEF Protocol, Callable, TryCalls, TypeOK, Permissions, Counted
<1>2. Counted' = Counted
  BY <1>1 DEF TypeOK, Counted
<1>3. CASE at[t] = "first"
  <2>1. /\ myBits' = FetchOrUpgraded(myBits)
        /\ at' = [at EXCEPT ![t] = "second"]
        /\ holds' = holds
    BY <1>3
  <2>2. /\ myBits' \in 0 .. Modulus - 1
        /\ myBits' \div 4 = Cardinality(Counted)
        /\ myBits' % 4 = 3
    BY <1>1, <2>1, OrUpgraded, WriterAlone
  <2>3. TypeOK'
    BY <2>1, <2>2 DEF TypeOK, Steps
  <2>4. MutualExclusion'
    BY <2>1 DEF MutualExclusion
  <2>5. BitsMatchHolders'
    <3>1. \A s \in Threads : holds[s] # "upgrader"
      BY <1>1, WriterAlone
    <3>2. QED
      BY <1>1, <1>2, <2>1, <2>2, <3>1 DEF BitsMatchHolders, Writer, Upgraded
  <2>6. Protocol'
    BY <1>1, <2>1, <2>2 DEF Protocol, TypeOK, Writer, Upgraded
  <2>7. QED
    BY <2>3, <2>4, <2>5, <2>6
<1>4. CASE at[t] = "second"
  <2>1. /\ myBits' = FetchAdd(myBits, -Writer)
        /\ at' = [at EXCEPT ![t] = "notify"]
        /\ holds' = [holds EXCEPT ![t] = "upgrader"]
    BY <1>4
  <2>2. /\ myBits' \in 0 .. Modulus - 1
        /\ myBits' \div 4 = Cardinality(Counted)
        /\ myBits' % 4 = 2
    <3>1. myBits % 4 = 3
      BY <1>4 DEF Protocol, Writer, Upgraded
    <3>2. myBits + (-Writer) = (myBits - (myBits % 4)) + 2
      BY <3>1, ByteValue DEF Writer
    <3>3. LET v == myBits + (-Writer) IN
          v \in 0 .. Modulus - 1 /\ v % 4 = 2 /\ v \div 4 = Cardinality(Counted)
      BY <3>2, LowBits
    <3>4. myBits' = myBits + (-Writer)
      BY <2>1, <3>3, ByteValue, FetchAddExact, ModulusAssumption DEF Writer
    <3>5. QED
      BY <3>3, <3>4
  <2>3. \A s \in Threads \ {t} : holds'[s] = "none" /\ at[s] # "second"
    BY <1>1, <2>1, WriterAlone DEF TypeOK
  <2>4. holds'[t] = "upgrader"
    BY <2>1 DEF TypeOK
  <2>5. TypeOK'
    BY <2>1, <2>2 DEF TypeOK, Steps, Permissions
  <2>6. MutualExclusion'
    BY <2>3, <2>4 DEF MutualExclusion
  <2>7. BitsMatchHolders'
    <3>1. \A s \in Threads : holds'[s] # "writer"
      BY <2>3, <2>4
    <3>2. myBits' \div 4 = Cardinality(Counted')
      BY <1>2, <2>2
    <3>3. (myBits % 4)' = 2 /\ \E s \in Threads : holds'[s] = "upgrader"
      BY <2>2, <2>4
    <3>4. QED
      BY <3>1, <3>2, <3>3 DEF BitsMatchHolders, Writer, Upgraded
  <2>8. Protocol'
    BY <2>1, <2>3, <2>4 DEF Protocol, TypeOK
  <2>9. QED
    BY <2>5, <2>6, <2>7, <2>8
<1>5. QED
  BY <1>3, <1>4

LEMMA NextInv == IInv /\ [Next]_vars => IInv'
<1> SUFFICES ASSUME IInv, [Next]_vars PROVE IInv'
  OBVIOUS
<1>1. CASE UNCHANGED vars
  BY <1>1 DEF vars, IInv, TypeOK, MutualExclusion, BitsMatchHolders, Counted, Protocol
<1>2. ASSUME NEW t \in Threads, NEW f \in Calls, Enter(t, f) PROVE IInv'
  BY <1>2, EnterInv
<1>3. ASSUME NEW t \in Threads, Step(t) \/ WakeSpuriously(t) PROVE IInv'
  BY <1>3, TryLockInv, TryLockSharedInv, BackOffInv, TryLockUpgradeInv, WaitInv,
     UnlockInv, UnlockSharedInv, UnlockUpgradeInv, UnlockUpgradeAndLockSharedInv,
     UnlockAndLockSharedInv, UnlockAndLockUpgradeInv, NotifyAllInv DEF Step
<1>4. QED
  BY <1>1, <1>2, <1>3 DEF Next

LEMMA Invariant == Spec => []IInv
  BY InitInv, NextInv, PTL DEF Spec

------------------------------------------------------------------------------
\* The byte never leaves its type, whatever the threads do.
THEOREM TypeCorrect == Spec => []TypeOK
  BY Invariant, PTL DEF IInv

\* A writer is alone and an upgrader is the only one, for any number of threads
\* the byte can count.
THEOREM Exclusion == Spec => []MutualExclusion
  BY Invariant, PTL DEF IInv

\* The byte always tells who is there, so no attempt that failed is left in it.
THEOREM Accounting == Spec => []BitsMatchHolders
  BY Invariant, PTL DEF IInv

------------------------------------------------------------------------------
\* A thread that sees no writer and no upgrader in the byte meets readers only.
LEMMA NoneAbove ==
  ASSUME IInv, ~HasWriterOrUpgraded(myBits)
  PROVE  \A s \in Threads : holds[s] \in {"none", "reader"}
  BY DEF IInv, TypeOK, Permissions, HasWriterOrUpgraded, BitsMatchHolders, Writer, Upgraded

\* Every step of a thread in a function is a step of SharedLock or none at all.
LEMMA StepRefines ==
  ASSUME IInv, NEW t \in Threads, Step(t)
  PROVE  [Lock!Next]_holds
<1> USE DEF Lock!Grant, Lock!Others, Grant
<1>1. CASE TryLock(t)
  <2>1. CASE UNCHANGED holds
    BY <2>1
  <2>2. CASE myBits = Expected(t) /\ Grant(t, "writer")
    <3>1. Lock!AcquireExclusive(t)
      BY <1>1, <2>2, ExpectedAlone DEF TryLock, Lock!AcquireExclusive
    <3>2. QED
      BY <3>1 DEF Lock!Next
  <2>3. QED
    BY <1>1, <2>1, <2>2 DEF TryLock, Fail
<1>2. CASE TryLockShared(t)
  <2>1. CASE HasWriterOrUpgraded(myBits)
    BY <1>2, <2>1 DEF TryLockShared
  <2>2. CASE ~HasWriterOrUpgraded(myBits)
    <3>1. holds[t] = "none"
      BY <1>2 DEF TryLockShared, IInv, Protocol, Callable, TryCalls, TypeOK, Permissions
    <3>2. Lock!AcquireShared(t)
      BY <1>2, <2>2, <3>1, NoneAbove DEF TryLockShared, Lock!AcquireShared
    <3>3. QED
      BY <3>2 DEF Lock!Next
  <2>3. QED
    BY <2>1, <2>2
<1>3. CASE TryLockUpgrade(t)
  <2>1. CASE HasWriterOrUpgraded(myBits)
    BY <1>3, <2>1 DEF TryLockUpgrade, Fail
  <2>2. CASE ~HasWriterOrUpgraded(myBits)
    <3>1. holds[t] = "none"
      BY <1>3 DEF TryLockUpgrade, IInv, Protocol, Callable, TryCalls, TypeOK, Permissions
    <3>2. Lock!AcquireUpgrade(t)
      BY <1>3, <2>2, <3>1, NoneAbove DEF TryLockUpgrade, Lock!AcquireUpgrade
    <3>3. QED
      BY <3>2 DEF Lock!Next
  <2>3. QED
    BY <2>1, <2>2
<1>4. CASE Unlock(t)
  <2>1. holds[t] = "writer"
    BY <1>4 DEF Unlock, IInv, Protocol, Callable, TryCalls, TypeOK, Permissions
  <2>2. Lock!Release(t) \/ Lock!Downgrade(t)
    BY <1>4, <2>1 DEF Unlock, Lock!Release, Lock!Downgrade
  <2>3. QED
    BY <2>2 DEF Lock!Next
<1>5. CASE UnlockShared(t) \/ UnlockUpgrade(t)
  <2>1. holds[t] # "none"
    BY <1>5 DEF UnlockShared, UnlockUpgrade, IInv, Protocol, Callable, TryCalls, TypeOK, Permissions
  <2>2. Lock!Release(t)
    BY <1>5, <2>1 DEF UnlockShared, UnlockUpgrade, Lock!Release
  <2>3. QED
    BY <2>2 DEF Lock!Next
<1>6. CASE UnlockUpgradeAndLockShared(t)
  <2>1. holds[t] = "upgrader"
    BY <1>6 DEF UnlockUpgradeAndLockShared, IInv, Protocol, Callable, TryCalls, TypeOK, Permissions
  <2>2. Lock!Downgrade(t)
    BY <1>6, <2>1 DEF UnlockUpgradeAndLockShared, Lock!Downgrade
  <2>3. QED
    BY <2>2 DEF Lock!Next
<1>7. CASE UnlockAndLockUpgrade(t)
  <2>1. holds[t] = "writer"
    BY <1>7 DEF UnlockAndLockUpgrade, IInv, Protocol, Callable, TryCalls, TypeOK, Permissions
  <2>2. UNCHANGED holds \/ Lock!Downgrade(t)
    BY <1>7, <2>1 DEF UnlockAndLockUpgrade, Lock!Downgrade
  <2>3. QED
    BY <2>2 DEF Lock!Next
<1>8. CASE BackOff(t) \/ Wait(t) \/ UnlockAndLockShared(t) \/ NotifyAll(t)
  BY <1>8 DEF BackOff, Fail, Wait, UnlockAndLockShared, NotifyAll
<1>9. QED
  BY <1>1, <1>2, <1>3, <1>4, <1>5, <1>6, <1>7, <1>8 DEF Step

\* The mutex is the lock of SharedLock: whatever the retry loops do to the byte,
\* permissions are only granted, exchanged and given back as it allows.
THEOREM Refinement == Spec => ImplementsSharedLock
<1>1. Init => Lock!Init
  BY DEF Init, Lock!Init
<1>2. IInv /\ [Next]_vars => [Lock!Next]_holds
  <2> SUFFICES ASSUME IInv, [Next]_vars PROVE [Lock!Next]_holds
    OBVIOUS
  <2>1. CASE UNCHANGED vars
    BY <2>1 DEF vars
  <2>2. ASSUME NEW t \in Threads, NEW f \in Calls, Enter(t, f) PROVE UNCHANGED holds
    BY <2>2 DEF Enter
  <2>3. ASSUME NEW t \in Threads, WakeSpuriously(t) PROVE UNCHANGED holds
    BY <2>3 DEF WakeSpuriously
  <2>4. QED
    BY <2>1, <2>2, <2>3, StepRefines DEF Next
<1>3. QED
  BY <1>1, <1>2, Invariant, PTL DEF Spec, ImplementsSharedLock, Lock!Spec

==============================================================================
