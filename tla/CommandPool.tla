------------------------------ MODULE CommandPool ------------------------------
(***************************************************************************)
(* The command buffers of one queue: CommandBufferArray, CommandPool and   *)
(* CommandBufferAccessScope of rhi/command, and of rhi/queue the pair of   *)
(* pools, EnqueueSubmit, Submit and Execute.                               *)
(*                                                                         *)
(* Whoever records holds the context's write lock, so calls do not         *)
(* overlap; the device works on what was submitted beside them.  A caller  *)
(* gets copies of a pool's scope.  It may end one by hand, as all callers  *)
(* in the code do, or leave it to the destructor of the last copy; it may  *)
(* keep it beyond the submit, as Draw does.  Buffers of level 0 are        *)
(* primary; those of the others are recorded while a primary one is, and   *)
(* executed by it before it ends.                                          *)
(*                                                                         *)
(* Left out: the scope without automatic begin that only the profiler's    *)
(* constructor asks for, and pools without the flag for resetting buffers, *)
(* which CreateQueues never makes.                                         *)
(***************************************************************************)
EXTENDS Integers, Sequences, FiniteSets, SequencesExt

CONSTANTS
  LevelCount,      \* CommandPoolCreateDesc::levelCount
  ArrayCapacity,   \* kCommandBufferCount
  Inheritances,    \* what a secondary buffer inherits: a render pass, a framebuffer
  MaxBegins        \* buffers that are begun

ASSUME BoundsAssumption ==
  /\ LevelCount \in Nat \ {0}
  /\ ArrayCapacity \in Nat /\ ArrayCapacity >= 2
  /\ MaxBegins \in Nat

Levels == 0 .. LevelCount - 1

Pools == {0, 1}

\* One array for each buffer begun is as many as can be allocated.
BufferArrays == 1 .. MaxBegins

Indices == 0 .. ArrayCapacity - 1

Buffers == BufferArrays \X Indices

VARIABLES
  current,         \* which of myPools is myPools[0]
  allocated,       \* arrays that were allocated
  pending,         \* myPendingCommands of each pool and level
  submitted,       \* mySubmittedCommands
  free,            \* myFreeCommands
  scope,           \* myRecordingCommands
  head,            \* myBits.head of each array
  recording,       \* myBits.recordingFlags, as the set of indices
  held,            \* the copies of scopes that callers have
  executes,        \* secondary buffers that the primary one executes so far
  enqueued,        \* myPendingSubmits
  device,          \* what the device has not finished
  number,          \* each buffer's level and when it was begun among those of the level
  begun,           \* how many buffers of each level were begun
  finished         \* how many of each the device finished

listVars == <<pending, submitted, free>>
poolVars == <<current, allocated, listVars, scope, head, recording, held, executes,
              enqueued, device, number, begun, finished>>

\* A level of a pool that records nothing.
NoScope == [array |-> 0]

NoInheritance == "none"

\* What a scope can be asked for: a primary buffer inherits nothing.
Descs == {<<0, NoInheritance>>} \cup ((Levels \ {0}) \X Inheritances)

Slots == Pools \X Levels

NotBegun == <<0, 0>>

PoolInit ==
  /\ current = 0
  /\ allocated = 0
  /\ pending = [s \in Slots |-> <<>>]
  /\ submitted = [s \in Slots |-> <<>>]
  /\ free = [s \in Slots |-> <<>>]
  /\ scope = [s \in Slots |-> NoScope]
  /\ head = [a \in BufferArrays |-> 0]
  /\ recording = [a \in BufferArrays |-> {}]
  /\ held = {}
  /\ executes = <<>>
  /\ enqueued = <<>>
  /\ device = <<>>
  /\ number = [b \in Buffers |-> NotBegun]
  /\ begun = [l \in Levels |-> 0]
  /\ finished = [l \in Levels |-> 0]

------------------------------------------------------------------------------
\* CommandBufferArray and the scopes.

Full(a) == head[a] + 1 >= ArrayCapacity

IsRecording(c) == c # NoScope /\ c.index \in recording[c.array]

\* CommandBufferAccessScopeDesc::operator==.
SameDesc(c, l, i) == c # NoScope /\ c.level = l /\ (l = 1 => c.inherits = i)

\* The destructor of a copy ends the buffer if it is the last one.
Dropped(c, others) ==
  IF IsRecording(c) /\ c \notin others
    THEN [recording EXCEPT ![c.array] = @ \ {c.index}]
    ELSE recording

Total == FoldFunction(+, 0, begun)

------------------------------------------------------------------------------
\* CommandPool.

\* The array that the next buffer of a level comes from, in a list of their own
\* if the last one has to be enqueued first: a free one or a new one.
Source(s) ==
  IF pending[s] # <<>> /\ ~Full(Last(pending[s])) THEN Last(pending[s])
  ELSE IF free[s] # <<>> THEN Head(free[s])
  ELSE allocated + 1

\* Mutant: an array is put before those that are pending.
PutsInFront(s, a) ==
  IF a \in ToSet(pending[s]) THEN UNCHANGED <<allocated, pending, free>>
  ELSE
    /\ pending' = [pending EXCEPT ![s] = <<a>> \o @]
    /\ IF a = allocated + 1
         THEN allocated' = a /\ UNCHANGED free
         ELSE free' = [free EXCEPT ![s] = Tail(@)] /\ UNCHANGED allocated

\* InternalEnqueueOnePending.
EnqueueOnePending(s, a) ==
  IF a \in ToSet(pending[s]) THEN UNCHANGED <<allocated, pending, free>>
  ELSE
    /\ pending' = [pending EXCEPT ![s] = Append(@, a)]
    /\ IF a = allocated + 1
         THEN allocated' = a /\ UNCHANGED free
         ELSE free' = [free EXCEPT ![s] = Tail(@)] /\ UNCHANGED allocated

\* InternalBeginScope: the new scope's buffer is begun, then the scope that was
\* there is destroyed.
BeginScope(l, i) ==
  LET s == <<current, l>>
      a == Source(s)
      c == [array |-> a, index |-> head[a], level |-> l, inherits |-> i]
  IN  /\ Total < MaxBegins /\ a \in BufferArrays
      /\ EnqueueOnePending(s, a)
      /\ recording' = [Dropped(scope[s], held) EXCEPT ![a] = @ \cup {head[a]}]
      /\ head' = [head EXCEPT ![a] = @ + 1]
      /\ number' = [number EXCEPT ![<<a, head[a]>>] = <<l, begun[l] + 1>>]
      /\ begun' = [begun EXCEPT ![l] = @ + 1]
      /\ scope' = [scope EXCEPT ![s] = c]
      /\ held' = held \cup {c}
      /\ UNCHANGED <<current, submitted, executes, enqueued, device, finished>>

\* Commands: a copy of the scope that records, or of a new one.  A scope that
\* was ended by hand is not asked for again before it is submitted.
Commands(l, i) ==
  LET c == scope[<<current, l>>]
  IN  /\ l # 0 => IsRecording(scope[<<current, 0>>])
      /\ \/ /\ ~SameDesc(c, l, i)
            /\ BeginScope(l, i)
         \/ /\ SameDesc(c, l, i)
            /\ IsRecording(c) \/ c.array \notin ToSet(pending[<<current, l>>])
            /\ held' = held \cup {c}
            /\ UNCHANGED <<current, allocated, listVars, scope, head, recording, executes,
                           enqueued, device, number, begun, finished>>

\* Whether all secondary buffers are executed.
Executed == \A l \in Levels \ {0} : pending[<<current, l>>] = <<>>

\* CommandBufferAccessScope::End by hand.
End(c) ==
  /\ IsRecording(c)
  /\ c.level = 0 => Executed
  /\ recording' = [recording EXCEPT ![c.array] = @ \ {c.index}]
  /\ UNCHANGED <<current, allocated, listVars, scope, head, held, executes,
                 enqueued, device, number, begun, finished>>

\* A caller's copy goes.
Drop(c) ==
  /\ held' = held \ {c}
  /\ recording' = Dropped(c, {scope[s] : s \in Slots})
  /\ UNCHANGED <<current, allocated, listVars, scope, head, executes,
                 enqueued, device, number, begun, finished>>

\* The buffers of a list of arrays up to their heads, in order.
BuffersOf(list) ==
  FlattenSeq([k \in DOMAIN list |-> [n \in 1 .. head[list[k]] |-> <<list[k], n - 1>>]])

\* Nobody records into the level any more, but for the pool's own scope.
Ended(l) == \A c \in held : c.level = l => ~IsRecording(c)

\* Mutant: the arrays stay in the list of those to be submitted.
LeavesPending(s) ==
  /\ submitted' = [submitted EXCEPT ![s] = @ \o pending[s]]
  /\ UNCHANGED pending

\* InternalEnqueueSubmitted.
EnqueueSubmitted(s) ==
  /\ submitted' = [submitted EXCEPT ![s] = @ \o pending[s]]
  /\ pending' = [pending EXCEPT ![s] = <<>>]

------------------------------------------------------------------------------
\* Queue.

\* Execute: the level's buffers are executed by the primary one that records.
Execute(l) ==
  LET s == <<current, l>>
  IN  /\ l # 0
      /\ Ended(l)
      /\ IsRecording(scope[<<current, 0>>])
      /\ scope' = [scope EXCEPT ![s] = NoScope]
      /\ recording' = Dropped(scope[s], held)
      /\ executes' = executes \o BuffersOf(pending[s])
      /\ EnqueueSubmitted(s)
      /\ UNCHANGED <<current, allocated, free, head, held, enqueued, device, number,
                     begun, finished>>

\* InternalPrepareSubmit with something to submit, and what it returns is kept.
EnqueueSubmit ==
  LET s == <<current, 0>>
  IN  /\ Ended(0) /\ Executed
      /\ pending[s] # <<>>
      /\ scope' = [scope EXCEPT ![s] = NoScope]
      /\ recording' = Dropped(scope[s], held)
      /\ enqueued' = enqueued \o executes \o BuffersOf(pending[s])
      /\ executes' = <<>>
      /\ EnqueueSubmitted(s)
      /\ UNCHANGED <<current, allocated, free, head, held, device, number,
                     begun, finished>>

Submit ==
  /\ enqueued # <<>>
  /\ device' = device \o enqueued
  /\ enqueued' = <<>>
  /\ UNCHANGED <<current, allocated, listVars, scope, head, recording, held, executes,
                 number, begun, finished>>

\* Mutant: Draw does not wait for the fences.
ResetsEarly ==
  /\ \A l \in Levels : pending[<<current, l>>] = <<>>
  /\ enqueued = <<>>
  /\ held = {}

\* Everything recorded was submitted, the copies are gone, and Draw waited for
\* the fences of the queue.
MayReset ==
  /\ \A l \in Levels : pending[<<current, l>>] = <<>>
  /\ enqueued = <<>>
  /\ held = {}
  /\ device = <<>>

\* Mutant: arrays go to the free list with their heads.
KeepsHeads(arrays) == UNCHANGED head

\* CommandBufferArray::Reset of each submitted array.
ResetArrays(arrays) == head' = [a \in BufferArrays |-> IF a \in arrays THEN 0 ELSE head[a]]

\* The other pool becomes the current one: vkResetCommandPool and the arrays.
SwapAndResetPool ==
  LET p == 1 - current
      arrays == UNION {ToSet(submitted[<<p, l>>]) : l \in Levels}
  IN  /\ MayReset
      /\ current' = p
      /\ ResetArrays(arrays)
      /\ number' = [b \in Buffers |-> IF b[1] \in arrays THEN NotBegun ELSE number[b]]
      /\ free' = [s \in Slots |-> IF s[1] = p THEN free[s] \o submitted[s] ELSE free[s]]
      /\ submitted' = [s \in Slots |-> IF s[1] = p THEN <<>> ELSE submitted[s]]
      /\ UNCHANGED <<allocated, pending, scope, recording, held, executes, enqueued,
                     device, begun, finished>>

\* The device finishes the oldest of the buffers it was given.
Finish ==
  /\ device # <<>>
  /\ device' = Tail(device)
  /\ finished' = [finished EXCEPT ![number[Head(device)][1]] = @ + 1]
  /\ UNCHANGED <<current, allocated, listVars, scope, head, recording, held, executes,
                 enqueued, number, begun>>

PoolNext ==
  \/ \E d \in Descs : Commands(d[1], d[2])
  \/ \E c \in held : End(c) \/ Drop(c)
  \/ \E l \in Levels : Execute(l)
  \/ EnqueueSubmit \/ Submit \/ SwapAndResetPool
  \/ Finish

PoolSpec == PoolInit /\ [][PoolNext]_poolVars

------------------------------------------------------------------------------
\* Each array that was allocated is in one list of one pool, once: splicing
\* between the lists of pending, submitted and free arrays loses none.
EachArrayInOneList ==
  LET lists == [s \in Slots |-> pending[s] \o submitted[s] \o free[s]]
  IN  /\ UNION {ToSet(lists[s]) : s \in Slots} = 1 .. allocated
      /\ \A s, t \in Slots : \A j \in DOMAIN lists[s], k \in DOMAIN lists[t] :
           lists[s][j] = lists[t][k] => s = t /\ j = k

\* No ENSURE of CommandBufferArray fails: a buffer that is recording is the
\* pool's scope's or a caller's, so somebody ends it; an array that is not
\* pending records nothing; a free one is empty and the head never runs over.
RecordingIsOwned ==
  /\ \A a \in BufferArrays : \A n \in recording[a] :
       /\ n < head[a]
       /\ \E c \in held \cup {scope[s] : s \in Slots} : c # NoScope /\ c.array = a /\ c.index = n
  /\ \A s \in Slots :
       /\ \A a \in ToSet(submitted[s] \o free[s]) : recording[a] = {}
       /\ \A a \in ToSet(free[s]) : head[a] = 0
  /\ \A a \in BufferArrays : head[a] < ArrayCapacity

\* What waits for the device or is with it stays as it was recorded: its array
\* is in the list of submitted ones, which only a reset takes it from.
InFlightUntouched ==
  \A b \in ToSet(device \o enqueued) :
    /\ \E s \in Slots : b[1] \in ToSet(submitted[s])
    /\ b[2] < head[b[1]] /\ b[2] \notin recording[b[1]]
    /\ number[b] # NotBegun

\* In a row of buffers, those of a level have the numbers above low up to high,
\* in this order.
Consecutive(numbers, row, l, low, high) ==
  LET OfLevel(k) == numbers[row[k]][1] = l
      Number(k) == numbers[row[k]][2]
  IN  /\ \A k \in DOMAIN row : OfLevel(k) => Number(k) \in low + 1 .. high
      /\ \A j, k \in DOMAIN row : j < k /\ OfLevel(j) /\ OfLevel(k) => Number(j) < Number(k)
      /\ \A n \in low + 1 .. high : \E k \in DOMAIN row : OfLevel(k) /\ Number(k) = n

\* Every buffer that was begun is executed once, in the order they were begun
\* on their level, over any number of arrays, submits and resets: what is with
\* the device or on its way there are those begun after the last finished one.
ExecutedInOrder ==
  \A l \in Levels :
    Consecutive(number, device \o enqueued \o executes \o BuffersOf(pending[<<current, l>>]),
                l, finished[l], begun[l])

===============================================================================
