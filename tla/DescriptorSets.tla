---------------------------- MODULE DescriptorSets ----------------------------
(***************************************************************************)
(* The descriptor data of one set layout of Pipeline and the descriptor    *)
(* sets made from it: DescriptorSetState with SetDescriptorData,           *)
(* InternalUpdateDescriptorSetTemplate, BindDescriptorSetAuto and          *)
(* InternalUpdateDescriptorSet, and RangeSet::insert of core/utils.h.      *)
(*                                                                         *)
(* Draw and the tasks it shares a frame with set data and bind; the task   *)
(* that LoadImage leaves behind sets data on whatever worker takes it.     *)
(* The mutex of the state is the lock that SharedLock describes.  What a   *)
(* caller passes is a value of its own for each element, so that an        *)
(* element that ends up in another's place shows.                          *)
(*                                                                         *)
(* Left out: push descriptors, which shader.cpp has switched off, and a    *)
(* binding that is set in one way first and in another way later, which    *)
(* nobody does.                                                            *)
(***************************************************************************)
EXTENDS Integers, Sequences, FiniteSets, SequencesExt

CONSTANTS
  Recorders,       \* threads that record command buffers
  Loaders,         \* workers that run setDescriptorTask
  Kind,            \* how each binding is set: "one", "many" or "element"
  Elements,        \* descriptorCount of a binding that is an array
  Capacity,        \* kDescriptorSetCount
  MaxSets          \* calls of SetDescriptorData

ASSUME SizesAssumption ==
  /\ Elements \in Nat \ {0}
  /\ Capacity \in Nat \ {0}
  /\ MaxSets \in Nat

\* Bindings are numbers, and each is set in one way.
ASSUME KindAssumption ==
  /\ DOMAIN Kind \subseteq Nat
  /\ \A b \in DOMAIN Kind : Kind[b] \in {"one", "many", "element"}

ASSUME UsersAssumption == Recorders \cap Loaders = {}

Users == Recorders \cup Loaders

Bindings == DOMAIN Kind

\* No more descriptor sets are written than there are calls.
Arrays == 1 .. MaxSets + 1

DescriptorSet == Arrays \X (0 .. Capacity - 1)

VARIABLES
  holds,           \* the mutex: each thread's permission
  at,              \* where each thread is
  setState,        \* DescriptorSetStatus
  bindingsMap,     \* offset, count and ranges of each binding that was set
  bindingsData,
  entries,         \* of the update template
  front,           \* the set that is bound next: array and index in it
  contents,        \* what was written into each descriptor set
  bound,           \* sets that command buffers refer to
  wanted,          \* what callers have asked for, element by element
  ascending,       \* no new element came before one that was there
  calls

Lock == INSTANCE SharedLock WITH Threads <- Users, holds <- holds

dataVars == <<bindingsMap, bindingsData, entries, wanted, ascending, calls>>
setVars == <<front, contents>>
vars == <<holds, at, setState, dataVars, setVars, bound>>

\* A layout's state as InternalPrepareDescriptorSets makes it: no data, ready,
\* and one array of sets of which the first, never written, is in front.
Init ==
  /\ Lock!Init
  /\ at = [u \in Users |-> "idle"]
  /\ setState = "ready"
  /\ bindingsMap = <<>>
  /\ bindingsData = <<>>
  /\ entries = {}
  /\ front = <<1, 0>>
  /\ contents = [s \in DescriptorSet |-> <<>>]
  /\ bound = {}
  /\ wanted = <<>>
  /\ ascending = TRUE
  /\ calls = 0

------------------------------------------------------------------------------
\* RangeSet.

\* RangeSet::insert: the range before is extended if it reaches low, then those
\* behind that begin by high at the latest are taken in.
Insert(ranges, low, high) ==
  LET k == Cardinality({i \in DOMAIN ranges : ranges[i][1] <= low})
      extends == k > 0 /\ ranges[k][2] >= low
      begin == IF extends THEN ranges[k][1] ELSE low
      taken == {i \in k + 1 .. Len(ranges) : ranges[i][1] <= high}
      end == Max({high} \cup {ranges[i][2] : i \in taken})
  IN  IF extends /\ ranges[k][2] >= high
        THEN ranges
        ELSE SubSeq(ranges, 1, IF extends THEN k - 1 ELSE k)
               \o <<<<begin, end>>>>
               \o SubSeq(ranges, k + Cardinality(taken) + 1, Len(ranges))

ElementsOf(ranges) == UNION {ranges[i][1] .. ranges[i][2] - 1 : i \in DOMAIN ranges}

\* How many elements the ranges before range i hold.
RangeOffset(ranges, i) ==
  SumFunctionOnSet([j \in DOMAIN ranges |-> ranges[j][2] - ranges[j][1]], 1 .. i - 1)

\* Where an element's data is among its binding's: behind that of the ranges
\* before the one it is in, or behind all if it is in none.
IndexOffset(ranges, index) ==
  LET found == {i \in DOMAIN ranges : index \in ranges[i][1] .. ranges[i][2] - 1}
  IN  IF found = {}
        THEN RangeOffset(ranges, Len(ranges) + 1)
        ELSE RangeOffset(ranges, Min(found)) + index - ranges[Min(found)][1]

------------------------------------------------------------------------------
\* SetDescriptorData.

\* Mutant: the offsets of the bindings behind are left as they are.
KeepsOffsets(map, b) == map

\* How much data some of the bindings have.
CountOf(map, bindings) == SumFunctionOnSet([b \in DOMAIN map |-> map[b].count], bindings)

\* The prefix sum over the bindings behind b.
Reoffset(map, b) ==
  [c \in DOMAIN map |->
    IF c <= b THEN map[c]
    ELSE [map[c] EXCEPT !.offset =
            map[b].offset + CountOf(map, {d \in DOMAIN map : b <= d /\ d < c})]]

\* The data of a binding is replaced by other data, its elements by others.
Replace(map, data, b, values, ranges) ==
  LET lower == {c \in DOMAIN map : c < b}
      offset == IF b \in DOMAIN map THEN map[b].offset
                ELSE IF lower = {} THEN 0
                ELSE map[Max(lower)].offset + map[Max(lower)].count
      count == IF b \in DOMAIN map THEN map[b].count ELSE 0
      new == [offset |-> offset, count |-> Len(values), ranges |-> ranges]
  IN  /\ bindingsMap' = Reoffset([c \in DOMAIN map \cup {b} |-> IF c = b THEN new ELSE map[c]], b)
      /\ bindingsData' = SubSeq(data, 1, offset) \o values
                           \o SubSeq(data, offset + count + 1, Len(data))

RangesOf(b) == IF b \in DOMAIN bindingsMap THEN bindingsMap[b].ranges ELSE <<>>

DataOf(b) ==
  IF b \in DOMAIN bindingsMap
    THEN SubSeq(bindingsData, bindingsMap[b].offset + 1, bindingsMap[b].offset + bindingsMap[b].count)
    ELSE <<>>

\* What the caller gives for element e in this call.
Value(e) == <<calls + 1, e>>

\* Mutant: a new element is put in front of the others.
PutsFirst(b, index) ==
  IF index \in ElementsOf(RangesOf(b))
    THEN ReplaceAt(DataOf(b), IndexOffset(RangesOf(b), index) + 1, Value(index))
    ELSE <<Value(index)>> \o DataOf(b)

\* An element's data overwrites what is there, or is put behind all the data of
\* its binding.
WithElement(b, index) ==
  LET k == IndexOffset(RangesOf(b), index)
  IN  IF index \in ElementsOf(RangesOf(b))
        THEN ReplaceAt(DataOf(b), k + 1, Value(index))
        ELSE InsertAt(DataOf(b), k + 1, Value(index))

Want(b, indices) ==
  wanted' = [x \in {y \in DOMAIN wanted : y[1] # b \/ Kind[b] = "element"} \cup ({b} \X indices) |->
               IF x \in {b} \X indices THEN Value(x[2]) ELSE wanted[x]]

SetOne(b) ==
  /\ Kind[b] = "one"
  /\ Replace(bindingsMap, bindingsData, b, <<Value(0)>>, <<<<0, 1>>>>)
  /\ Want(b, {0})
  /\ UNCHANGED ascending

SetMany(b, count) ==
  /\ Kind[b] = "many"
  /\ Replace(bindingsMap, bindingsData, b, [i \in 1 .. count |-> Value(i - 1)], <<<<0, count>>>>)
  /\ Want(b, 0 .. count - 1)
  /\ UNCHANGED ascending

SetElement(b, index) ==
  LET ranges == RangesOf(b)
  IN  /\ Kind[b] = "element"
      /\ Replace(bindingsMap, bindingsData, b, WithElement(b, index), Insert(ranges, index, index + 1))
      /\ Want(b, {index})
      /\ ascending' = (ascending /\ (index \in ElementsOf(ranges)
                                      \/ \A e \in ElementsOf(ranges) : e < index))

\* InternalUpdateDescriptorSetTemplate: an entry for each range of each binding.
EntryOf(map, b, i) ==
  LET range == map[b].ranges[i]
  IN  [binding |-> b, element |-> range[1], count |-> range[2] - range[1],
       offset |-> map[b].offset + RangeOffset(map[b].ranges, i)]

Entries(map) == UNION {{EntryOf(map, b, i) : i \in DOMAIN map[b].ranges} : b \in DOMAIN map}

Go(u, from, to) == at[u] = from /\ at' = [at EXCEPT ![u] = to]

LockSet(u) ==
  /\ Go(u, "idle", "set")
  /\ calls < MaxSets
  /\ Lock!AcquireExclusive(u)
  /\ UNCHANGED <<setState, dataVars, setVars, bound>>

SetDescriptorData(u) ==
  /\ Go(u, "set", "idle")
  /\ calls < MaxSets
  /\ \E b \in Bindings :
       \/ SetOne(b)
       \/ \E count \in 1 .. Elements : SetMany(b, count)
       \/ \E index \in 0 .. Elements - 1 : SetElement(b, index)
  /\ calls' = calls + 1
  /\ setState' = "dirty"
  /\ entries' = Entries(bindingsMap')
  /\ Lock!Release(u)
  /\ UNCHANGED <<setVars, bound>>

------------------------------------------------------------------------------
\* BindDescriptorSetAuto.

LockBind(u) ==
  /\ Go(u, "idle", "check")
  /\ Lock!AcquireUpgrade(u)
  /\ UNCHANGED <<setState, dataVars, setVars, bound>>

\* The compare-and-swap finds the state dirty.
TakeDirty(u) ==
  /\ Go(u, "check", "promote")
  /\ setState = "dirty"
  /\ setState' = "ready"
  /\ UNCHANGED <<holds, dataVars, setVars, bound>>

\* It finds the state ready, or fails for no reason, as a weak one may.
SkipUpdate(u) ==
  /\ Go(u, "check", "bind")
  /\ Lock!Downgrade(u)
  /\ UNCHANGED <<setState, dataVars, setVars, bound>>

\* unlock_upgrade_and_lock.
Promote(u) ==
  /\ Go(u, "promote", "update")
  /\ Lock!AcquireExclusive(u)
  /\ UNCHANGED <<setState, dataVars, setVars, bound>>

\* Mutant: the sets of one array are used over and over.
ReusesIndex == IF front[2] = Capacity - 1 THEN <<front[1], 0>> ELSE <<front[1], front[2] + 1>>

\* The next set of the array in front, or the first of a new array.
NextSet == IF front[2] = Capacity - 1 THEN <<front[1] + 1, 0>> ELSE <<front[1], front[2] + 1>>

Covered(entry) == {entry.binding} \X (entry.element .. entry.element + entry.count - 1)

\* vkUpdateDescriptorSetWithTemplate: each entry copies its run of the data.
Written ==
  [x \in UNION {Covered(e) : e \in entries} |->
    LET e == CHOOSE f \in entries : x \in Covered(f)
    IN  bindingsData[e.offset + x[2] - e.element + 1]]

\* Mutant: the lock is given back before the set is bound.
UpdatesAndUnlocks(u) ==
  /\ Go(u, "update", "bind")
  /\ front' = NextSet
  /\ contents' = [contents EXCEPT ![NextSet] = Written]
  /\ Lock!Release(u)
  /\ UNCHANGED <<setState, dataVars, bound>>

\* InternalUpdateDescriptorSet, then unlock_and_lock_shared.
Update(u) ==
  /\ Go(u, "update", "bind")
  /\ front' = NextSet
  /\ contents' = [contents EXCEPT ![NextSet] = Written]
  /\ holds[u] = "writer" /\ Lock!Grant(u, "reader")
  /\ UNCHANGED <<setState, dataVars, bound>>

Bind(u) ==
  /\ Go(u, "bind", "idle")
  /\ bound' = bound \cup {front}
  /\ Lock!Release(u)
  /\ UNCHANGED <<setState, dataVars, setVars>>

Next ==
  \/ \E u \in Users : LockSet(u) \/ SetDescriptorData(u)
  \/ \E u \in Recorders :
       LockBind(u) \/ TakeDirty(u) \/ SkipUpdate(u) \/ Promote(u) \/ Update(u) \/ Bind(u)

Spec == Init /\ [][Next]_vars

------------------------------------------------------------------------------
\* The three ways to set data keep the vector and the map together: a binding's
\* data begins where that of the binding before ends, there is as much as its
\* ranges hold, its ranges are apart, in order, and hold the elements that were
\* set, however they grew together.
DataInPlace ==
  /\ Len(bindingsData) = CountOf(bindingsMap, DOMAIN bindingsMap)
  /\ \A b \in DOMAIN bindingsMap :
       LET m == bindingsMap[b]
       IN  /\ m.offset = CountOf(bindingsMap, {c \in DOMAIN bindingsMap : c < b})
           /\ m.count = Cardinality(ElementsOf(m.ranges))
           /\ \A i \in DOMAIN m.ranges : m.ranges[i][1] < m.ranges[i][2]
           /\ \A i \in 1 .. Len(m.ranges) - 1 : m.ranges[i][2] < m.ranges[i + 1][1]
           /\ {b} \X ElementsOf(m.ranges) = {x \in DOMAIN wanted : x[1] = b}

\* When the state says ready and nobody is about to write, the set in front has
\* each element as it was last asked for, by whichever thread.  This is so as
\* long as new elements come in ascending order: an element that is put before
\* others later gets their data (pipeline.inl:231, pipeline.cpp:758).
ReadyMeansWritten ==
  ascending /\ setState = "ready" /\ (\A u \in Users : at[u] \notin {"promote", "update"})
    => contents[front] = wanted

\* A set that command buffers may refer to is never written again: the device
\* may be reading it.
BoundNotRewritten == [][\A s \in bound : contents'[s] = contents[s]]_vars

\* Whoever writes is alone, and the set that a thread is about to bind stays in
\* front until it has: the mutex is held right through its changes of mode.
FrontStaysWhileBound ==
  [][(\E u \in Users : at[u] = "bind") => front' = front]_vars
===============================================================================
