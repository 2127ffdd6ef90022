-------------------------- MODULE FrameTimelineProofs --------------------------
(***************************************************************************)
(* The safety of the timelines for any number of queues, frames, images    *)
(* and models.  The inductive invariant follows a batch from the host to   *)
(* the device: it is pending in one queue, in order, until it is finished, *)
(* and a frame is chained to the one before it by what it waits for.       *)
(***************************************************************************)
EXTENDS FrameTimeline, SequenceTheorems, FiniteSetTheorems, TLAPS

\* Every pending batch is in its queue, was given a value, and is not finished;
\* its fence is among those the host will wait for.
Placed ==
  \A q \in Queues : \A i \in 1 .. Len(pending[q]) :
    /\ pending[q][i].queue = q
    /\ pending[q][i].value \in Values(Semaphore(q))
    /\ pending[q][i].value \in submits[q].fences
    /\ ~ IsFinished(Semaphore(q), pending[q][i].value)

Ordered ==
  \A q \in Queues : \A i, j \in 1 .. Len(pending[q]) :
    i < j => pending[q][i].value < pending[q][j].value

Apart ==
  \A q, r \in Queues : \A i \in 1 .. Len(pending[q]), j \in 1 .. Len(pending[r]) :
    (q # r /\ Semaphore(q) = Semaphore(r)) => pending[q][i].value # pending[r][j].value

PoolIsFences == \A q \in Queues : pools[q][1] = submits[q].fences

Past == \A b \in finished : b.value \in Values(Semaphore(b.queue))

\* No value is skipped.
Pends(s, v) ==
  \E q \in Queues : Semaphore(q) = s /\ \E i \in 1 .. Len(pending[q]) : pending[q][i].value = v

NoGap == \A s \in Semaphores : \A v \in Values(s) : IsFinished(s, v) \/ Pends(s, v)

\* A batch starts after the one with the value before: that is finished, just
\* ahead in the same queue, or waited for.
Follows(q, i) ==
  LET v == pending[q][i].value
  IN  \/ v - 1 <= counter[Semaphore(q)]
      \/ i > 1 /\ pending[q][i - 1].value = v - 1
      \/ \E w \in pending[q][i].waits : w[1] = Semaphore(q) /\ w[2] >= v - 1

Chained ==
  \A q \in Queues : Semaphore(q) \in InOrder => \A i \in 1 .. Len(pending[q]) : Follows(q, i)

Counting ==
  \A s \in InOrder :
    /\ counter[s] <= timeline[s]
    /\ \A v \in Values(s) : IsFinished(s, v) <=> v <= counter[s]

Device ==
  /\ Placed /\ Ordered /\ Apart /\ PoolIsFences /\ Past /\ NoGap /\ Chained /\ Counting

\* What the host knows of the timelines: the queue of the last frame was given
\* the last value of the graphics context.
Host ==
  /\ timeline["graphics"] >= 2
  /\ \A q \in Queues : submits[q].maxTimelineValue <= timeline[Semaphore(q)]
  /\ submits[Transfer].maxTimelineValue = timeline["transfer"]
  /\ MaxImages = 0 => drawCalls = <<>>
  /\ \A i \in 1 .. Len(drawCalls) : drawCalls[i] \in Values("transfer")
  /\ draw.at = "idle" => submits[head].maxTimelineValue = timeline["graphics"]
  /\ (draw.at # "idle" /\ QueueCount > 1) =>
       /\ draw.last # head
       /\ MaxImages = 0 => submits[draw.last].maxTimelineValue = timeline["graphics"]

\* Where callbacks are, and that a task's value of the semaphore is an old one.
Collects ==
  /\ \A q \in Queues : callbacks[q] \subseteq Values(Semaphore(q))
  /\ \A f \in 1 .. MaxFrames :
       /\ collect[f].kept \subseteq Values("graphics")
       /\ "graphics" \in InOrder => collect[f].value <= counter["graphics"]
  /\ "graphics" \in InOrder => CallbacksAfterExecution

\* A batch that shows an image waits for the image's upload.
Uploads ==
  /\ \A q \in Queues : \A i \in 1 .. Len(pending[q]) :
       pending[q][i].image # 0 =>
         /\ pending[q][i].image \in Values("transfer")
         /\ \E w \in pending[q][i].waits : w[1] = "transfer" /\ w[2] >= pending[q][i].image
  /\ UploadsBeforeUse

IInv == TypeOK /\ Device /\ Host /\ Collects /\ Uploads

------------------------------------------------------------------------------
LEMMA AppendFacts ==
  ASSUME NEW S, NEW s \in Seq(S), NEW e \in S
  PROVE  /\ Append(s, e) \in Seq(S)
         /\ Len(s) \in Nat /\ Len(Append(s, e)) = Len(s) + 1
         /\ \A i \in 1 .. Len(s) : Append(s, e)[i] = s[i]
         /\ Append(s, e)[Len(s) + 1] = e
  BY AppendProperties

LEMMA TailFacts ==
  ASSUME NEW S, NEW s \in Seq(S), s # <<>>
  PROVE  /\ Tail(s) \in Seq(S)
         /\ Len(s) \in Nat \ {0} /\ Len(Tail(s)) = Len(s) - 1
         /\ \A i \in 1 .. Len(s) - 1 : Tail(s)[i] = s[i + 1]
         /\ Head(s) = s[1] /\ Head(s) \in S
<1>1. Len(s) \in Nat \ {0}
  BY EmptySeq, LenProperties
<1>2. QED
  BY <1>1, HeadTailProperties, ElementOfSeq

LEMMA ElementFacts ==
  ASSUME NEW S, NEW s \in Seq(S)
  PROVE  /\ Len(s) \in Nat
         /\ \A i \in 1 .. Len(s) : s[i] \in S
         /\ s = <<>> <=> Len(s) = 0
  BY LenProperties, EmptySeq, ElementOfSeq

LEMMA QueueFacts ==
  /\ QueueCount \in Nat \ {0}
  /\ Graphics \subseteq Nat /\ Graphics \subseteq Queues
  /\ 0 \in Graphics
  /\ Transfer \in Queues /\ Transfer \notin Graphics
  /\ Semaphore(Transfer) = "transfer"
  /\ \A q \in Graphics : Semaphore(q) = "graphics"
  /\ \A q \in Queues : Semaphore(q) \in Semaphores
  /\ \A q \in Queues : Semaphore(q) = "transfer" => q = Transfer
  /\ \A q \in Queues : q # Transfer => q \in Graphics
  /\ InOrder \subseteq Semaphores /\ "transfer" \in InOrder
  BY QueueCountAssumption DEF Graphics, Queues, Transfer, Semaphore, Semaphores, InOrder

\* What a submit changes: its own batch comes last in its queue, and all else
\* that is pending stays.
LEMMA SubmitFacts ==
  ASSUME TypeOK, NEW q \in Queues, NEW waits \in SUBSET (Semaphores \X Nat), NEW image \in Nat,
         Submit(q, waits, image)
  PROVE  LET value == timeline[Semaphore(q)] + 1
         IN  /\ value \in Nat
             /\ timeline' \in [Semaphores -> Nat]
             /\ timeline'[Semaphore(q)] = value
             /\ \A s \in Semaphores : s # Semaphore(q) => timeline'[s] = timeline[s]
             /\ submits' \in [Queues -> [fences : SUBSET Nat, maxTimelineValue : Nat]]
             /\ submits'[q].fences = submits[q].fences \cup {value}
             /\ submits[q].maxTimelineValue < value => submits'[q].maxTimelineValue = value
             /\ \A r \in Queues : r # q => submits'[r] = submits[r]
             /\ pools' \in [Queues -> [1 .. 2 -> SUBSET Nat]]
             /\ pools'[q][1] = pools[q][1] \cup {value}
             /\ \A r \in Queues : r # q => pools'[r] = pools[r]
             /\ callbacks' \in [Queues -> SUBSET Nat]
             /\ callbacks'[q] = callbacks[q] \cup {value}
             /\ \A r \in Queues : r # q => callbacks'[r] = callbacks[r]
             /\ pending' \in [Queues -> Seq(Batch)]
             /\ Len(pending[q]) \in Nat /\ Len(pending'[q]) = Len(pending[q]) + 1
             /\ \A i \in 1 .. Len(pending[q]) : pending'[q][i] = pending[q][i]
             /\ pending'[q][Len(pending[q]) + 1]
                  = [queue |-> q, value |-> value, waits |-> waits, image |-> image]
             /\ \A r \in Queues : r # q => pending'[r] = pending[r]
<1> DEFINE value == timeline[Semaphore(q)] + 1
           batch == [queue |-> q, value |-> value, waits |-> waits, image |-> image]
<1>1. Semaphore(q) \in Semaphores
  BY QueueFacts
<1>2. value \in Nat /\ batch \in Batch
  BY <1>1 DEF TypeOK, Batch
<1>3. /\ timeline' = [timeline EXCEPT ![Semaphore(q)] = value]
      /\ pools' = [pools EXCEPT ![q][1] = @ \cup {value}]
      /\ callbacks' = [callbacks EXCEPT ![q] = @ \cup {value}]
      /\ pending' = [pending EXCEPT ![q] = Append(@, batch)]
      /\ submits' = [submits EXCEPT ![q] =
           [fences |-> @.fences \cup {value},
            maxTimelineValue |-> IF @.maxTimelineValue > value THEN @.maxTimelineValue ELSE value]]
  BY DEF Submit
<1>4. pending[q] \in Seq(Batch)
  BY DEF TypeOK
<1> HIDE DEF value, batch
<1>5. /\ timeline' \in [Semaphores -> Nat]
      /\ timeline'[Semaphore(q)] = value
      /\ \A s \in Semaphores : s # Semaphore(q) => timeline'[s] = timeline[s]
  BY <1>1, <1>2, <1>3 DEF TypeOK
<1>6. /\ submits' \in [Queues -> [fences : SUBSET Nat, maxTimelineValue : Nat]]
      /\ submits'[q].fences = submits[q].fences \cup {value}
      /\ submits[q].maxTimelineValue < value => submits'[q].maxTimelineValue = value
      /\ \A r \in Queues : r # q => submits'[r] = submits[r]
  BY <1>2, <1>3 DEF TypeOK
<1>7. /\ pools' \in [Queues -> [1 .. 2 -> SUBSET Nat]]
      /\ pools'[q][1] = pools[q][1] \cup {value}
      /\ \A r \in Queues : r # q => pools'[r] = pools[r]
  BY <1>2, <1>3 DEF TypeOK
<1>8. /\ callbacks' \in [Queues -> SUBSET Nat]
      /\ callbacks'[q] = callbacks[q] \cup {value}
      /\ \A r \in Queues : r # q => callbacks'[r] = callbacks[r]
  BY <1>2, <1>3 DEF TypeOK
<1>9. /\ pending' \in [Queues -> Seq(Batch)]
      /\ pending'[q] = Append(pending[q], batch)
      /\ \A r \in Queues : r # q => pending'[r] = pending[r]
  BY <1>2, <1>3, <1>4, AppendFacts DEF TypeOK
<1>10. /\ Len(pending[q]) \in Nat /\ Len(pending'[q]) = Len(pending[q]) + 1
       /\ \A i \in 1 .. Len(pending[q]) : pending'[q][i] = pending[q][i]
       /\ pending'[q][Len(pending[q]) + 1] = batch
  BY <1>2, <1>4, <1>9, AppendFacts
<1>11. QED
  BY <1>2, <1>5, <1>6, <1>7, <1>8, <1>9, <1>10 DEF value, batch

\* Where the host enters a value that waits for the one before it, or that no
\* other queue of its context can overtake, the device's order is kept.
LEMMA SubmitKeepsDevice ==
  ASSUME TypeOK, Device,
         NEW q \in Queues, NEW waits \in SUBSET (Semaphores \X Nat), NEW image \in Nat,
         Submit(q, waits, image), UNCHANGED <<counter, finished>>,
         Semaphore(q) \in InOrder =>
           \/ \E w \in waits : w[1] = Semaphore(q) /\ w[2] >= timeline[Semaphore(q)]
           \/ \A r \in Queues : (r # q /\ Semaphore(r) = Semaphore(q)) => pending[r] = <<>>
  PROVE  Device'
<1> DEFINE sq == Semaphore(q)
           value == timeline[sq] + 1
           n == Len(pending[q])
           batch == [queue |-> q, value |-> value, waits |-> waits, image |-> image]
<1>1. /\ value \in Nat /\ n \in Nat /\ sq \in Semaphores /\ timeline[sq] \in Nat
      /\ \A r \in Queues : Semaphore(r) \in Semaphores
  BY SubmitFacts, QueueFacts DEF TypeOK
<1>22. /\ Len(pending'[q]) = n + 1
       /\ \A i \in 1 .. n : pending'[q][i] = pending[q][i]
       /\ pending'[q][n + 1] = batch
       /\ \A r \in Queues : r # q => pending'[r] = pending[r]
  <2>1. Len(pending'[q]) = n + 1
    BY SubmitFacts
  <2>2. \A i \in 1 .. n : pending'[q][i] = pending[q][i]
    BY SubmitFacts
  <2>3. pending'[q][n + 1] = batch
    BY SubmitFacts
  <2>4. \A r \in Queues : r # q => pending'[r] = pending[r]
    BY SubmitFacts
  <2>5. QED
    BY <2>1, <2>2, <2>3, <2>4
<1>23. /\ timeline'[sq] = value
       /\ \A s \in Semaphores : s # sq => timeline'[s] = timeline[s]
       /\ \A s \in Semaphores : timeline[s] \in Nat
  BY SubmitFacts DEF TypeOK
<1>25. /\ submits'[q].fences = submits[q].fences \cup {value}
       /\ pools'[q][1] = pools[q][1] \cup {value}
  BY SubmitFacts
<1>26. \A r \in Queues : r # q => submits'[r] = submits[r]
  BY SubmitFacts
<1>27. \A r \in Queues : r # q => pools'[r] = pools[r]
  BY SubmitFacts
<1>24. \A r \in Queues : Len(pending[r]) \in Nat
  BY ElementFacts DEF TypeOK
<1> HIDE DEF value, batch
<1>2. \A r \in Queues : \A i \in 1 .. Len(pending'[r]) :
        \/ i \in 1 .. Len(pending[r]) /\ pending'[r][i] = pending[r][i]
        \/ r = q /\ i = n + 1 /\ pending'[r][i] = batch
  <2> SUFFICES ASSUME NEW r \in Queues, NEW i \in 1 .. Len(pending'[r]),
                      ~ (r = q /\ i = n + 1)
               PROVE  i \in 1 .. Len(pending[r]) /\ pending'[r][i] = pending[r][i]
    BY <1>22
  <2>1. CASE r = q
    BY <2>1, <1>1, <1>22
  <2>2. CASE r # q
    BY <2>2, <1>22
  <2>3. QED
    BY <2>1, <2>2
<1>3. \A r \in Queues : Len(pending[r]) \in Nat /\ \A i \in 1 .. Len(pending[r]) :
        i \in 1 .. Len(pending'[r]) /\ pending'[r][i] = pending[r][i]
  <2> SUFFICES ASSUME NEW r \in Queues, NEW i \in 1 .. Len(pending[r])
               PROVE  i \in 1 .. Len(pending'[r]) /\ pending'[r][i] = pending[r][i]
    BY <1>24
  <2>1. CASE r = q
    BY <2>1, <1>1, <1>22
  <2>2. CASE r # q
    BY <2>2, <1>22
  <2>3. QED
    BY <2>1, <2>2
<1>4. n + 1 \in 1 .. Len(pending'[q]) /\ pending'[q][n + 1] = batch
  BY <1>1, <1>22
<1>5. \A s, v : IsFinished(s, v)' <=> IsFinished(s, v)
  BY DEF IsFinished
<1>6. /\ value \in Values(sq)' /\ value \notin Values(sq)
      /\ \A s \in Semaphores : Values(s) \subseteq Values(s)'
      /\ \A s \in Semaphores : \A v \in Values(s)' : v \in Values(s) \/ (s = sq /\ v = value)
  BY <1>1, <1>23 DEF Values, value
<1>7. /\ value \in submits'[q].fences
      /\ \A r \in Queues : submits[r].fences \subseteq submits'[r].fences
  BY <1>25, <1>26
<1>8. \A s \in Semaphores : timeline'[s] >= timeline[s]
  BY <1>1, <1>23 DEF value
<1>9. batch.queue = q /\ batch.value = value /\ batch.waits = waits
  BY DEF batch
<1>10. ~ IsFinished(sq, value)
  BY <1>6 DEF Device, Past, IsFinished
<1>11. \A r \in Queues : \A i \in 1 .. Len(pending[r]) :
         pending[r][i].value \in Values(Semaphore(r))
  BY DEF Device, Placed
<1>12. value - 1 = timeline[sq] /\ counter' = counter /\ finished' = finished
  BY <1>1 DEF value
<1> HIDE DEF sq, n
<1>13. Placed'
  BY <1>1, <1>2, <1>5, <1>6, <1>7, <1>9, <1>10 DEF Device, Placed, sq
<1>14. Ordered'
  <2> SUFFICES ASSUME NEW r \in Queues,
                      NEW i \in 1 .. Len(pending'[r]), NEW j \in 1 .. Len(pending'[r]), i < j
               PROVE  pending'[r][i].value < pending'[r][j].value
    BY DEF Ordered
  <2>1. CASE j \in 1 .. Len(pending[r]) /\ pending'[r][j] = pending[r][j]
    <3>1. i \in 1 .. Len(pending[r]) /\ pending'[r][i] = pending[r][i]
      BY <2>1, <1>3
    <3>2. QED
      BY <2>1, <3>1 DEF Device, Ordered
  <2>2. CASE r = q /\ j = n + 1 /\ pending'[r][j] = batch
    <3>1. i \in 1 .. Len(pending[q]) /\ pending'[r][i] = pending[q][i]
      BY <2>2, <1>1, <1>2
    <3>2. pending[q][i].value \in Values(sq)
      BY <3>1, <1>11 DEF sq
    <3>3. QED
      BY <2>2, <3>1, <3>2, <1>1, <1>9, <1>12 DEF Values
  <2>3. QED
    BY <2>1, <2>2, <1>2
<1>15. Apart'
  <2> SUFFICES ASSUME NEW r \in Queues, NEW t \in Queues,
                      NEW i \in 1 .. Len(pending'[r]), NEW j \in 1 .. Len(pending'[t]),
                      r # t, Semaphore(r) = Semaphore(t)
               PROVE  pending'[r][i].value # pending'[t][j].value
    BY DEF Apart
  <2>1. CASE i \in 1 .. Len(pending[r]) /\ pending'[r][i] = pending[r][i]
    <3>1. CASE j \in 1 .. Len(pending[t]) /\ pending'[t][j] = pending[t][j]
      BY <2>1, <3>1 DEF Device, Apart
    <3>2. CASE t = q /\ j = n + 1 /\ pending'[t][j] = batch
      BY <2>1, <3>2, <1>6, <1>9, <1>11 DEF sq
    <3>3. QED
      BY <3>1, <3>2, <1>2
  <2>2. CASE r = q /\ i = n + 1 /\ pending'[r][i] = batch
    <3>1. j \in 1 .. Len(pending[t]) /\ pending'[t][j] = pending[t][j]
      BY <2>2, <1>2
    <3>2. QED
      BY <2>2, <3>1, <1>6, <1>9, <1>11 DEF sq
  <2>3. QED
    BY <2>1, <2>2, <1>2
<1>16. PoolIsFences'
  BY <1>25, <1>26, <1>27 DEF Device, PoolIsFences
<1>17. Past'
  BY <1>6, <1>12, QueueFacts DEF Device, Past, TypeOK, Batch
<1>18. NoGap'
  <2> SUFFICES ASSUME NEW s \in Semaphores, NEW v \in Values(s)'
               PROVE  IsFinished(s, v)' \/ Pends(s, v)'
    BY DEF NoGap
  <2>1. CASE v \in Values(s)
    BY <2>1, <1>3, <1>5 DEF Device, NoGap, Pends
  <2>2. CASE s = sq /\ v = value
    BY <2>2, <1>4, <1>9 DEF Pends, sq
  <2>3. QED
    BY <2>1, <2>2, <1>6
<1>19. Counting'
  <2> SUFFICES ASSUME NEW s \in InOrder
               PROVE  /\ counter'[s] <= timeline'[s]
                      /\ \A v \in Values(s)' : IsFinished(s, v)' <=> v <= counter'[s]
    BY DEF Counting
  <2>4. timeline' \in [Semaphores -> Nat]
    BY SubmitFacts
  <2>1. s \in Semaphores /\ counter[s] \in Nat /\ timeline[s] \in Nat /\ timeline'[s] \in Nat
    BY <2>4, QueueFacts DEF TypeOK
  <2>2. counter[s] <= timeline[s] /\ \A v \in Values(s) : IsFinished(s, v) <=> v <= counter[s]
    BY DEF Device, Counting
  <2>3. QED
    BY <2>1, <2>2, <1>1, <1>5, <1>6, <1>8, <1>10, <1>12
<1>20. Chained'
  <2> SUFFICES ASSUME NEW r \in Queues, Semaphore(r) \in InOrder, NEW i \in 1 .. Len(pending'[r])
               PROVE  Follows(r, i)'
    BY DEF Chained
  <2>1. CASE i \in 1 .. Len(pending[r]) /\ pending'[r][i] = pending[r][i]
    <3>1. Follows(r, i)
      BY <2>1 DEF Device, Chained
    <3>2. i > 1 => pending'[r][i - 1] = pending[r][i - 1]
      BY <2>1, <1>3
    <3>3. QED
      BY <2>1, <3>1, <3>2, <1>12 DEF Follows
  <2>2. CASE r = q /\ i = n + 1 /\ pending'[r][i] = batch
    <3>1. CASE \E w \in waits : w[1] = sq /\ w[2] >= timeline[sq]
      BY <3>1, <2>2, <1>9, <1>12 DEF Follows, sq
    <3>2. CASE \A t \in Queues : (t # q /\ Semaphore(t) = sq) => pending[t] = <<>>
      <4>1. CASE timeline[sq] = 0
        BY <4>1, <2>2, <1>1, <1>9, <1>12 DEF Follows, sq, TypeOK
      <4>2. CASE IsFinished(sq, timeline[sq]) /\ timeline[sq] # 0
        <5>1. timeline[sq] <= counter[sq]
          BY <4>2, <2>2, <1>1 DEF Device, Counting, Values, sq
        <5>2. QED
          BY <5>1, <2>2, <1>9, <1>12 DEF Follows, sq
      <4>3. CASE ~ IsFinished(sq, timeline[sq]) /\ timeline[sq] # 0
        <5>1. Pends(sq, timeline[sq])
          BY <4>3, <1>1 DEF Device, NoGap, Values
        <5>2. PICK k \in 1 .. n : pending[q][k].value = timeline[sq]
          BY <5>1, <3>2, <1>1, ElementFacts DEF Pends, n, TypeOK
        <5>3. k = n
          <6>1. pending[q][n].value \in Values(sq)
            BY <1>1, <1>11 DEF n, sq
          <6>2. k < n => pending[q][k].value < pending[q][n].value
            BY <1>1 DEF Device, Ordered, n
          <6>3. QED
            BY <5>2, <6>1, <6>2, <1>1 DEF Values
        <5>4. pending'[q][i - 1].value = timeline[sq] /\ i > 1
          BY <5>2, <5>3, <2>2, <1>1, <1>3 DEF n
        <5>5. QED
          BY <5>4, <2>2, <1>9, <1>12 DEF Follows
      <4>4. QED
        BY <4>1, <4>2, <4>3
    <3>3. QED
      BY <3>1, <3>2, <2>2 DEF sq
  <2>3. QED
    BY <2>1, <2>2, <1>2
<1>21. QED
  BY <1>13, <1>14, <1>15, <1>16, <1>17, <1>18, <1>19, <1>20 DEF Device

\* What the device changes: the first batch of a queue goes, and if its context
\* counts in order it has the next value.
LEMMA FinishFacts ==
  ASSUME TypeOK, Device, NEW q \in Queues, FinishBatch(q)
  PROVE  LET batch == pending[q][1]
             s == Semaphore(q)
         IN  /\ batch \in Batch /\ batch.queue = q /\ batch.value \in Values(s)
             /\ \A w \in batch.waits : counter[w[1]] >= w[2]
             /\ finished' = finished \cup {batch}
             /\ counter' \in [Semaphores -> Nat] /\ counter'[s] = batch.value
             /\ \A t \in Semaphores : t # s => counter'[t] = counter[t]
             /\ Len(pending[q]) \in Nat /\ Len(pending[q]) >= 1
             /\ pending' \in [Queues -> Seq(Batch)]
             /\ Len(pending'[q]) = Len(pending[q]) - 1
             /\ \A i \in 1 .. Len(pending[q]) - 1 : pending'[q][i] = pending[q][i + 1]
             /\ \A r \in Queues : r # q => pending'[r] = pending[r]
             /\ s \in InOrder => batch.value = counter[s] + 1
             /\ UNCHANGED <<hostVars, countVars, called, collect, destroyed>>
<1> DEFINE batch == pending[q][1]
           s == Semaphore(q)
<1>1. /\ pending[q] \in Seq(Batch) /\ pending[q] # <<>> /\ s \in Semaphores
      /\ pending' = [pending EXCEPT ![q] = Tail(@)]
  BY QueueFacts DEF FinishBatch, TypeOK
<1>2. /\ Tail(pending[q]) \in Seq(Batch)
      /\ Len(pending[q]) \in Nat /\ Len(pending[q]) >= 1
      /\ Len(Tail(pending[q])) = Len(pending[q]) - 1
      /\ \A i \in 1 .. Len(pending[q]) - 1 : Tail(pending[q])[i] = pending[q][i + 1]
      /\ Head(pending[q]) = batch /\ batch \in Batch
  BY <1>1, TailFacts
<1>3. /\ pending' \in [Queues -> Seq(Batch)]
      /\ pending'[q] = Tail(pending[q])
      /\ \A r \in Queues : r # q => pending'[r] = pending[r]
  BY <1>1, <1>2 DEF TypeOK
<1>4. batch.value \in Nat
  BY <1>2 DEF Batch
<1>5. /\ counter' = [counter EXCEPT ![s] = batch.value]
      /\ \A w \in batch.waits : counter[w[1]] >= w[2]
      /\ finished' = finished \cup {batch}
      /\ UNCHANGED <<hostVars, countVars, called, collect, destroyed>>
  BY <1>2 DEF FinishBatch
<1>6. /\ batch.queue = q /\ batch.value \in Values(s) /\ ~ IsFinished(s, batch.value)
  BY <1>2 DEF Device, Placed
<1>7. /\ counter' \in [Semaphores -> Nat] /\ counter'[s] = batch.value
      /\ \A t \in Semaphores : t # s => counter'[t] = counter[t]
  BY <1>1, <1>4, <1>5 DEF TypeOK
<1>8. ASSUME s \in InOrder PROVE batch.value = counter[s] + 1
  <2>1. Follows(q, 1)
    BY <1>2, <1>8 DEF Device, Chained
  <2>2. batch.value - 1 <= counter[s]
    <3>1. CASE \E w \in batch.waits : w[1] = s /\ w[2] >= batch.value - 1
      <4>1. PICK w \in batch.waits : w[1] = s /\ w[2] >= batch.value - 1
        BY <3>1
      <4>2. w \in Semaphores \X Nat
        BY <1>2 DEF Batch
      <4>3. counter[s] >= w[2] /\ w[2] \in Nat
        BY <1>5, <4>1, <4>2
      <4>4. counter[s] \in Nat
        BY <1>1 DEF TypeOK
      <4>5. QED
        BY <4>1, <4>3, <4>4, <1>4
    <3>2. QED
      BY <2>1, <3>1 DEF Follows
  <2>3. counter[s] < batch.value
    BY <1>1, <1>4, <1>6, <1>8 DEF Device, Counting, TypeOK
  <2>4. QED
    BY <2>2, <2>3, <1>1, <1>4 DEF TypeOK
<1> HIDE DEF batch, s
<1>9. QED
  BY <1>2, <1>3, <1>5, <1>6, <1>7, <1>8 DEF batch, s

LEMMA FinishKeepsDevice ==
  ASSUME TypeOK, Device, NEW q \in Queues, FinishBatch(q)
  PROVE  Device'
<1> DEFINE batch == pending[q][1]
           sq == Semaphore(q)
           n == Len(pending[q])
<1>1. /\ batch.queue = q /\ batch.value \in Values(sq)
      /\ finished' = finished \cup {batch}
      /\ n \in Nat /\ n >= 1
  BY FinishFacts
<1>2. /\ Len(pending'[q]) = n - 1
      /\ \A i \in 1 .. n - 1 : pending'[q][i] = pending[q][i + 1]
  BY FinishFacts
<1>3. \A r \in Queues : r # q => pending'[r] = pending[r]
  BY FinishFacts
<1>4. /\ counter'[sq] = batch.value
      /\ \A t \in Semaphores : t # sq => counter'[t] = counter[t]
      /\ sq \in InOrder => batch.value = counter[sq] + 1
  BY FinishFacts
<1>5. timeline' = timeline /\ submits' = submits /\ pools' = pools
  BY FinishFacts DEF hostVars
<1>6. /\ \A s : Values(s)' = Values(s)
      /\ \A s, v : IsFinished(s, v)' <=> (IsFinished(s, v) \/ (s = sq /\ v = batch.value))
  BY <1>1, <1>5 DEF Values, IsFinished
<1>7. \A r \in Queues : Len(pending[r]) \in Nat
  BY ElementFacts DEF TypeOK
<1>8. /\ sq \in Semaphores /\ \A s \in Semaphores : timeline[s] \in Nat /\ counter[s] \in Nat
      /\ \A r \in Queues : Semaphore(r) \in Semaphores
  BY QueueFacts DEF TypeOK
<1> DEFINE old(r, i) == IF r = q THEN i + 1 ELSE i
<1>9. \A r \in Queues : \A i \in 1 .. Len(pending'[r]) :
        /\ old(r, i) \in 1 .. Len(pending[r])
        /\ pending'[r][i] = pending[r][old(r, i)]
        /\ r = q => old(r, i) > 1
  <2> SUFFICES ASSUME NEW r \in Queues, NEW i \in 1 .. Len(pending'[r])
               PROVE  /\ old(r, i) \in 1 .. Len(pending[r])
                      /\ pending'[r][i] = pending[r][old(r, i)]
                      /\ r = q => old(r, i) > 1
    OBVIOUS
  <2>1. CASE r = q
    BY <2>1, <1>1, <1>2
  <2>2. CASE r # q
    BY <2>2, <1>3
  <2>3. QED
    BY <2>1, <2>2
<1>10. \A r \in Queues : \A i \in 1 .. Len(pending[r]) :
         pending[r][i].value \in Values(Semaphore(r))
  BY DEF Device, Placed
<1>11. 1 \in 1 .. Len(pending[q])
  BY <1>1
<1>12. \A r \in Queues : \A i \in 1 .. Len(pending[r]) :
         (Semaphore(r) = sq /\ (r = q => i > 1)) => pending[r][i].value # batch.value
  <2> SUFFICES ASSUME NEW r \in Queues, NEW i \in 1 .. Len(pending[r]),
                      Semaphore(r) = sq, r = q => i > 1
               PROVE  pending[r][i].value # batch.value
    OBVIOUS
  <2>1. CASE r = q
    <3>1. batch.value < pending[q][i].value
      BY <2>1, <1>11 DEF Device, Ordered
    <3>2. pending[q][i].value \in Nat /\ batch.value \in Nat
      BY <2>1, <1>1, <1>8, <1>10 DEF Values
    <3>3. QED
      BY <2>1, <3>1, <3>2
  <2>2. CASE r # q
    BY <2>2, <1>11 DEF Device, Apart
  <2>3. QED
    BY <2>1, <2>2
<1> HIDE DEF batch, sq, n
<1>13. Placed'
  <2> SUFFICES ASSUME NEW r \in Queues, NEW i \in 1 .. Len(pending'[r])
               PROVE  /\ pending'[r][i].queue = r
                      /\ pending'[r][i].value \in Values(Semaphore(r))
                      /\ pending'[r][i].value \in submits[r].fences
                      /\ \A b \in finished' :
                           Semaphore(b.queue) = Semaphore(r) => b.value # pending'[r][i].value
    BY <1>5, <1>6 DEF Placed, IsFinished
  <2>1. PICK j \in 1 .. Len(pending[r]) : pending'[r][i] = pending[r][j] /\ (r = q => j > 1)
    BY <1>9
  <2>2. \A b \in finished : Semaphore(b.queue) = Semaphore(r) => b.value # pending[r][j].value
    BY DEF Device, Placed, IsFinished
  <2>3. Semaphore(r) = sq => pending[r][j].value # batch.value
    BY <2>1, <1>12
  <2>4. QED
    BY <2>1, <2>2, <2>3, <1>1 DEF Device, Placed, sq
<1>14. Ordered'
  <2> SUFFICES ASSUME NEW r \in Queues,
                      NEW i \in 1 .. Len(pending'[r]), NEW j \in 1 .. Len(pending'[r]), i < j
               PROVE  pending'[r][i].value < pending'[r][j].value
    BY DEF Ordered
  <2>1. old(r, i) < old(r, j)
    OBVIOUS
  <2>2. /\ old(r, i) \in 1 .. Len(pending[r]) /\ pending'[r][i] = pending[r][old(r, i)]
        /\ old(r, j) \in 1 .. Len(pending[r]) /\ pending'[r][j] = pending[r][old(r, j)]
    BY <1>9
  <2> HIDE DEF old
  <2>3. pending[r][old(r, i)].value < pending[r][old(r, j)].value
    BY <2>1, <2>2 DEF Device, Ordered
  <2>4. QED
    BY <2>2, <2>3
<1>15. Apart'
  <2> SUFFICES ASSUME NEW r \in Queues, NEW t \in Queues,
                      NEW i \in 1 .. Len(pending'[r]), NEW j \in 1 .. Len(pending'[t]),
                      r # t, Semaphore(r) = Semaphore(t)
               PROVE  pending'[r][i].value # pending'[t][j].value
    BY DEF Apart
  <2>1. /\ old(r, i) \in 1 .. Len(pending[r]) /\ pending'[r][i] = pending[r][old(r, i)]
        /\ old(t, j) \in 1 .. Len(pending[t]) /\ pending'[t][j] = pending[t][old(t, j)]
    BY <1>9
  <2> HIDE DEF old
  <2>2. QED
    BY <2>1 DEF Device, Apart
<1>16. PoolIsFences' /\ Past'
  BY <1>1, <1>5, <1>6 DEF Device, PoolIsFences, Past, sq
<1>17. NoGap'
  <2> SUFFICES ASSUME NEW s \in Semaphores, NEW v \in Values(s), ~ IsFinished(s, v)'
               PROVE  Pends(s, v)'
    BY <1>6 DEF NoGap
  <2>1. Pends(s, v) /\ (s # sq \/ v # batch.value)
    BY <1>6 DEF Device, NoGap
  <2>2. PICK r \in Queues : Semaphore(r) = s /\ \E i \in 1 .. Len(pending[r]) : pending[r][i].value = v
    BY <2>1 DEF Pends
  <2>6. PICK j \in 1 .. Len(pending[r]) : pending[r][j].value = v
    BY <2>2
  <2>3. CASE r # q
    BY <2>2, <2>3, <2>6, <1>3 DEF Pends
  <2>4. CASE r = q
    <3>1. j # 1
      BY <2>1, <2>2, <2>4, <2>6 DEF batch, sq
    <3>2. j - 1 \in 1 .. n - 1 /\ pending'[q][j - 1] = pending[q][j]
      BY <2>4, <3>1, <1>1, <1>2 DEF n
    <3>3. QED
      BY <2>2, <2>4, <2>6, <3>2, <1>2 DEF Pends
  <2>5. QED
    BY <2>3, <2>4
<1>18. Counting'
  <2> SUFFICES ASSUME NEW s \in InOrder
               PROVE  /\ counter'[s] <= timeline[s]
                      /\ \A v \in Values(s) : IsFinished(s, v)' <=> v <= counter'[s]
    BY <1>5, <1>6 DEF Counting
  <2>1. s \in Semaphores
    BY QueueFacts
  <2>2. counter[s] <= timeline[s] /\ \A v \in Values(s) : IsFinished(s, v) <=> v <= counter[s]
    BY DEF Device, Counting
  <2>3. CASE s # sq
    BY <2>1, <2>2, <2>3, <1>4, <1>6
  <2>4. CASE s = sq
    BY <2>2, <2>4, <1>1, <1>4, <1>6, <1>8 DEF Values
  <2>5. QED
    BY <2>3, <2>4
<1>19. \A s \in InOrder : counter[s] <= counter'[s] /\ counter[s] \in Nat /\ counter'[s] \in Nat
  BY <1>1, <1>4, <1>8, QueueFacts DEF Values
<1>20. Chained'
  <2> SUFFICES ASSUME NEW r \in Queues, Semaphore(r) \in InOrder, NEW i \in 1 .. Len(pending'[r])
               PROVE  Follows(r, i)'
    BY DEF Chained
  <2> DEFINE v == pending'[r][i].value
             j == old(r, i)
  <2>1. /\ j \in 1 .. Len(pending[r]) /\ pending'[r][i] = pending[r][j]
        /\ v \in Nat /\ (r = q => j > 1)
    BY <1>8, <1>9, <1>10 DEF Values
  <2>2. Follows(r, j)
    BY <2>1 DEF Device, Chained
  <2>3. CASE v - 1 <= counter[Semaphore(r)]
    BY <2>1, <2>3, <1>19 DEF Follows
  <2>4. CASE \E w \in pending[r][j].waits : w[1] = Semaphore(r) /\ w[2] >= v - 1
    BY <2>1, <2>4 DEF Follows
  <2>5. CASE j > 1 /\ pending[r][j - 1].value = v - 1
    <3>1. CASE i > 1
      <4>1. i - 1 \in 1 .. Len(pending'[r]) /\ old(r, i - 1) = j - 1
        BY <3>1
      <4>2. pending'[r][i - 1] = pending[r][j - 1]
        BY <4>1, <1>9
      <4>3. QED
        BY <2>5, <3>1, <4>2 DEF Follows
    <3>2. CASE i = 1
      <4>1. r = q /\ j = 2
        BY <2>5, <3>2
      <4>2. pending[r][j - 1] = batch
        BY <4>1 DEF batch
      <4>4. counter'[Semaphore(r)] = v - 1
        BY <2>5, <4>1, <4>2, <1>4 DEF sq
      <4>3. QED
        BY <4>4, <2>1 DEF Follows
    <3>3. QED
      BY <3>1, <3>2
  <2>6. QED
    BY <2>1, <2>2, <2>3, <2>4, <2>5 DEF Follows
<1>21. QED
  BY <1>13, <1>14, <1>15, <1>16, <1>17, <1>18, <1>20 DEF Device

LEMMA UntouchedDevice ==
  ASSUME Device, UNCHANGED <<timeline, submits, pools, pending, counter, finished>>
  PROVE  Device'
  BY DEF Device, Placed, Ordered, Apart, PoolIsFences, Past, NoGap, Chained, Counting,
         Values, IsFinished, Pends, Follows

\* When the fences of a queue are finished nothing of it is pending.
LEMMA ResetKeepsDevice ==
  ASSUME TypeOK, Device, ResetQueue
  PROVE  Device'
<1>1. /\ head \in Queues /\ Semaphore(head) = "graphics"
      /\ pending[head] \in Seq(Batch) /\ Len(pending[head]) \in Nat
  BY QueueFacts, ElementFacts DEF TypeOK
<1>2. Len(pending[head]) = 0
  <2> SUFFICES ASSUME Len(pending[head]) # 0 PROVE FALSE
    OBVIOUS
  <2>1. 1 \in 1 .. Len(pending[head])
    BY <1>1
  <2>2. /\ pending[head][1].value \in submits[head].fences
        /\ ~ IsFinished("graphics", pending[head][1].value)
    BY <2>1, <1>1 DEF Device, Placed
  <2>3. QED
    BY <2>2 DEF ResetQueue
<1>3. /\ submits' = [submits EXCEPT ![head] = NoSubmits]
      /\ pools' = [pools EXCEPT ![head] = <<{}, @[1]>>]
      /\ UNCHANGED <<timeline, pending, counter, finished>>
  BY DEF ResetQueue, deviceVars
<1>4. /\ \A q \in Queues : q # head => submits'[q] = submits[q] /\ pools'[q] = pools[q]
      /\ pools'[head][1] = submits'[head].fences
  BY <1>1, <1>3 DEF TypeOK, NoSubmits
<1>5. Placed'
  BY <1>1, <1>2, <1>3, <1>4 DEF Device, Placed, IsFinished, Values
<1>6. PoolIsFences'
  BY <1>4 DEF Device, PoolIsFences
<1>7. Ordered' /\ Apart' /\ Past' /\ NoGap' /\ Chained' /\ Counting'
  BY <1>3 DEF Device, Ordered, Apart, Past, NoGap, Chained, Counting,
         Values, IsFinished, Pends, Follows
<1>8. QED
  BY <1>5, <1>6, <1>7 DEF Device

LEMMA SubmitKeepsUploads ==
  ASSUME TypeOK, Uploads,
         NEW q \in Queues, NEW waits \in SUBSET (Semaphores \X Nat), NEW image \in Nat,
         Submit(q, waits, image), UNCHANGED <<counter, finished>>,
         image # 0 => /\ image \in Values("transfer")
                      /\ \E w \in waits : w[1] = "transfer" /\ w[2] >= image
  PROVE  Uploads'
<1> DEFINE n == Len(pending[q])
           batch == [queue |-> q, value |-> timeline[Semaphore(q)] + 1,
                     waits |-> waits, image |-> image]
<1>1. n \in Nat /\ Len(pending'[q]) = n + 1
  BY SubmitFacts
<1>2. \A i \in 1 .. n : pending'[q][i] = pending[q][i]
  BY SubmitFacts
<1>3. pending'[q][n + 1] = batch
  BY SubmitFacts
<1>4. \A r \in Queues : r # q => pending'[r] = pending[r]
  BY SubmitFacts
<1>5. Values("transfer") \subseteq Values("transfer")'
  <2>1. CASE Semaphore(q) = "transfer"
    <3>4. timeline'[Semaphore(q)] = timeline[Semaphore(q)] + 1
      BY SubmitFacts
    <3>1. timeline'["transfer"] = timeline["transfer"] + 1
      BY <2>1, <3>4
    <3>2. timeline["transfer"] \in Nat
      BY DEF TypeOK, Semaphores
    <3>3. QED
      BY <3>1, <3>2 DEF Values
  <2>2. CASE Semaphore(q) # "transfer"
    BY <2>2, SubmitFacts DEF Values, Semaphores
  <2>3. QED
    BY <2>1, <2>2
<1>6. batch.waits = waits /\ batch.image = image
  OBVIOUS
<1> HIDE DEF n, batch
<1>7. UploadsBeforeUse'
  BY DEF Uploads, UploadsBeforeUse, IsFinished
<1>8. ASSUME NEW r \in Queues, NEW i \in 1 .. Len(pending'[r]), pending'[r][i].image # 0
      PROVE  /\ pending'[r][i].image \in Values("transfer")'
             /\ \E w \in pending'[r][i].waits : w[1] = "transfer" /\ w[2] >= pending'[r][i].image
  <2>1. CASE r # q
    BY <2>1, <1>4, <1>5, <1>8 DEF Uploads
  <2>2. CASE r = q /\ i \in 1 .. n
    BY <2>2, <1>2, <1>5, <1>8 DEF Uploads, n
  <2>3. CASE r = q /\ i = n + 1
    BY <2>3, <1>3, <1>5, <1>6, <1>8
  <2>4. QED
    BY <2>1, <2>2, <2>3, <1>1
<1>9. QED
  BY <1>7, <1>8 DEF Uploads

LEMMA SubmitKeepsCollects ==
  ASSUME TypeOK, Collects,
         NEW q \in Queues, NEW waits \in SUBSET (Semaphores \X Nat), NEW image \in Nat,
         Submit(q, waits, image), UNCHANGED <<counter, finished, called>>,
         \A f \in 1 .. MaxFrames : \/ collect'[f] = collect[f]
                                   \/ collect'[f].kept = {} /\ collect'[f].value = 0
  PROVE  Collects'
<1> DEFINE sq == Semaphore(q)
           value == timeline[sq] + 1
<1>1. /\ value \in Nat /\ timeline'[sq] = value
      /\ \A s \in Semaphores : s # sq => timeline'[s] = timeline[s]
      /\ sq \in Semaphores /\ timeline[sq] \in Nat
  BY SubmitFacts, QueueFacts DEF TypeOK
<1>2. callbacks'[q] = callbacks[q] \cup {value}
  BY SubmitFacts
<1>3. \A r \in Queues : r # q => callbacks'[r] = callbacks[r]
  BY SubmitFacts
<1>4. value \in Values(sq)' /\ \A s \in Semaphores : Values(s) \subseteq Values(s)'
  BY <1>1 DEF Values
<1>5. "graphics" \in Semaphores /\ counter["graphics"] \in Nat
      /\ \A r \in Queues : Semaphore(r) \in Semaphores
  BY QueueFacts DEF Semaphores, TypeOK
<1> HIDE DEF value, sq
<1>6. ASSUME NEW r \in Queues PROVE callbacks'[r] \subseteq Values(Semaphore(r))'
  <2>1. CASE r = q
    BY <2>1, <1>1, <1>2, <1>4 DEF Collects, sq
  <2>2. CASE r # q
    BY <2>2, <1>3, <1>4, <1>5 DEF Collects
  <2>3. QED
    BY <2>1, <2>2
<1>7. ASSUME NEW f \in 1 .. MaxFrames
      PROVE  /\ collect'[f].kept \subseteq Values("graphics")'
             /\ "graphics" \in InOrder => collect'[f].value <= counter'["graphics"]
  BY <1>4, <1>5 DEF Collects
<1>8. "graphics" \in InOrder => CallbacksAfterExecution'
  BY DEF Collects, CallbacksAfterExecution, IsFinished
<1>9. QED
  BY <1>6, <1>7, <1>8 DEF Collects

\* The five handlers that submit: the queue they use, what their batch waits for,
\* and that this keeps the order of the semaphores and of an image's use.
LEMMA Submitters ==
  ASSUME TypeOK, Device, Host,
         CallDrawCall \/ SubmitFrame \/ Resize \/ LoadImage \/ LoadModel
  PROVE  \E q \in Queues, waits \in SUBSET (Semaphores \X Nat), image \in Nat :
           /\ Submit(q, waits, image)
           /\ Semaphore(q) \in InOrder =>
                \/ \E w \in waits : w[1] = Semaphore(q) /\ w[2] >= timeline[Semaphore(q)]
                \/ \A r \in Queues : (r # q /\ Semaphore(r) = Semaphore(q)) => pending[r] = <<>>
           /\ image # 0 => /\ image \in Values("transfer")
                           /\ \E w \in waits : w[1] = "transfer" /\ w[2] >= image
<1>1. /\ head \in Queues /\ Semaphore(head) = "graphics" /\ Transfer \in Queues
      /\ Semaphore(Transfer) = "transfer" /\ draw.last \in Queues
      /\ \A q \in Queues : submits[q].maxTimelineValue \in Nat
      /\ timeline["transfer"] \in Nat /\ timeline["graphics"] \in Nat
      /\ "transfer" \in Semaphores /\ "graphics" \in Semaphores
  BY QueueFacts DEF TypeOK, Semaphores
<1>2. QueueCount = 1 =>
        \A r \in Queues : (r # head /\ Semaphore(r) = "graphics") => pending[r] = <<>>
  <2> SUFFICES ASSUME QueueCount = 1, NEW r \in Queues, Semaphore(r) = "graphics"
               PROVE  r = head
    BY <1>1
  <2>1. r \in Graphics /\ head \in Graphics
    BY <1>1, QueueFacts DEF TypeOK
  <2>2. QED
    BY <2>1 DEF Graphics
<1>3. \A r \in Queues : (r # Transfer /\ Semaphore(r) = "transfer") => pending[r] = <<>>
  BY QueueFacts
<1>4. CASE CallDrawCall
  <2> DEFINE image == Head(drawCalls)
             waits == {<<"transfer", submits[Transfer].maxTimelineValue>>}
  <2>1. Submit(head, waits, image) /\ draw.at = "calls" /\ drawCalls # <<>>
    BY <1>4 DEF CallDrawCall
  <2>2. /\ drawCalls \in Seq(Nat) /\ image \in Nat /\ image = drawCalls[1]
        /\ 1 \in 1 .. Len(drawCalls)
    BY <2>1, TailFacts DEF TypeOK
  <2>3. image \in Values("transfer")
    BY <2>2 DEF Host
  <2>4. submits[Transfer].maxTimelineValue >= image
    BY <2>3, <1>1 DEF Host, Values
  <2>5. waits \in SUBSET (Semaphores \X Nat)
    BY <1>1
  <2>6. \E w \in waits : w[1] = "transfer" /\ w[2] >= image
    BY <2>4
  <2>7. "graphics" \in InOrder => QueueCount = 1
    BY <2>1, BoundsAssumption DEF InOrder, Host
  <2> HIDE DEF image, waits
  <2>8. QED
    BY <1>1, <1>2, <2>1, <2>2, <2>3, <2>5, <2>6, <2>7
<1>5. CASE SubmitFrame
  <2> DEFINE waits == {<<"graphics", submits[draw.last].maxTimelineValue>>}
  <2>1. Submit(head, waits, 0) /\ draw.at = "calls"
    BY <1>5 DEF SubmitFrame
  <2>2. waits \in SUBSET (Semaphores \X Nat)
    BY <1>1
  <2>3. CASE QueueCount = 1
    BY <1>1, <1>2, <2>1, <2>2, <2>3
  <2>4. CASE QueueCount # 1 /\ MaxImages = 0
    <3>1. submits[draw.last].maxTimelineValue = timeline["graphics"]
      BY <2>1, <2>4, QueueCountAssumption DEF Host
    <3>2. \E w \in waits : w[1] = "graphics" /\ w[2] >= timeline["graphics"]
      BY <3>1, <1>1
    <3> HIDE DEF waits
    <3>3. QED
      BY <1>1, <2>1, <2>2, <3>2
  <2>5. CASE QueueCount # 1 /\ MaxImages # 0
    BY <1>1, <2>1, <2>2, <2>5 DEF InOrder
  <2>6. QED
    BY <2>3, <2>4, <2>5
<1>6. CASE Resize
  <2>1. Submit(head, {}, 0) /\ \A r \in Queues : pending[r] = <<>>
    BY <1>6 DEF Resize
  <2>2. QED
    BY <1>1, <2>1
<1>7. CASE LoadImage
  <2>1. Submit(Transfer, {}, 0)
    BY <1>7 DEF LoadImage
  <2>2. QED
    BY <1>1, <1>3, <2>1
<1>8. CASE LoadModel
  <2>1. Submit(Transfer, {<<"transfer", submits[Transfer].maxTimelineValue>>}, 0)
    BY <1>8 DEF LoadModel
  <2>2. {<<"transfer", submits[Transfer].maxTimelineValue>>} \in SUBSET (Semaphores \X Nat)
    BY <1>1
  <2>3. QED
    BY <1>1, <1>3, <2>1, <2>2
<1>9. QED
  BY <1>4, <1>5, <1>6, <1>7, <1>8

------------------------------------------------------------------------------
LEMMA InitIInv == Init => IInv
<1> SUFFICES ASSUME Init PROVE IInv
  OBVIOUS
<1> DEFINE first == [v \in 1 .. 2 |-> [queue |-> 0, value |-> v, waits |-> {}, image |-> 0]]
<1>1. /\ timeline = [graphics |-> 2, transfer |-> 0]
      /\ counter = [graphics |-> 0, transfer |-> 0]
      /\ pending = [q \in Queues |-> IF q = 0 THEN first ELSE <<>>]
      /\ finished = {} /\ drawCalls = <<>> /\ head = 0 /\ draw = [at |-> "idle", last |-> 0]
      /\ submits = [q \in Queues |->
           IF q = 0 THEN [fences |-> {1, 2}, maxTimelineValue |-> 2] ELSE NoSubmits]
      /\ pools = [q \in Queues |-> IF q = 0 THEN <<{1, 2}, {}>> ELSE <<{}, {}>>]
      /\ callbacks = [q \in Queues |-> IF q = 0 THEN {1, 2} ELSE {}]
      /\ called = [s \in Semaphores |-> {}]
      /\ collect = [f \in 1 .. MaxFrames |-> NoTask]
  BY DEF Init
<1>2. /\ first \in Seq(Batch) /\ Len(first) = 2
      /\ \A v \in 1 .. 2 : first[v].queue = 0 /\ first[v].value = v /\ first[v].image = 0
  <2>1. \A v \in 1 .. 2 :
          [queue |-> 0, value |-> v, waits |-> {}, image |-> 0] \in Batch
    BY QueueFacts DEF Batch
  <2>2. first \in [1 .. 2 -> Batch]
    BY <2>1
  <2>3. first \in Seq(Batch)
    BY <2>2, SeqDef
  <2>4. QED
    BY <2>2, <2>3, LenProperties
<1> HIDE DEF first
<1>3. /\ pending \in [Queues -> Seq(Batch)]
      /\ 0 \in Queues /\ 0 # Transfer
      /\ pending[0] = first /\ \A q \in Queues : q # 0 => pending[q] = <<>>
  <2>1. <<>> \in Seq(Batch)
    BY EmptySeq
  <2>2. QED
    BY <2>1, <1>1, <1>2, QueueFacts
<1>4. \A q \in Queues : \A i \in 1 .. Len(pending[q]) :
        q = 0 /\ i \in 1 .. 2 /\ pending[q][i] = first[i]
  BY <1>2, <1>3, EmptySeq
<1>5. Values("graphics") = 1 .. 2 /\ Values("transfer") = {} /\ Semaphore(0) = "graphics"
  BY <1>1, QueueFacts DEF Values
<1>6. TypeOK
  <2>1. /\ timeline \in [Semaphores -> Nat] /\ counter \in [Semaphores -> Nat]
        /\ called \in [Semaphores -> SUBSET Nat]
    BY <1>1 DEF Semaphores
  <2>2. /\ submits \in [Queues -> [fences : SUBSET Nat, maxTimelineValue : Nat]]
        /\ callbacks \in [Queues -> SUBSET Nat]
    BY <1>1 DEF NoSubmits
  <2>3. pools \in [Queues -> [1 .. 2 -> SUBSET Nat]]
    BY <1>1
  <2>4. collect \in [1 .. MaxFrames -> Task]
    BY <1>1, QueueFacts DEF NoTask, Task
  <2>5. drawCalls \in Seq(Nat) /\ finished \in SUBSET Batch
    BY <1>1, EmptySeq
  <2>6. head \in Graphics /\ draw \in [at : {"idle", "fences", "calls"}, last : Graphics]
    BY <1>1, QueueFacts
  <2>7. /\ frames \in 0 .. MaxFrames /\ images \in 0 .. MaxImages
        /\ models \in 0 .. MaxModels /\ resizes \in 0 .. MaxResizes /\ destroyed \in Nat
    BY BoundsAssumption DEF Init
  <2>8. QED
    BY <1>3, <2>1, <2>2, <2>3, <2>4, <2>5, <2>6, <2>7 DEF TypeOK
<1>7. Placed
  BY <1>1, <1>2, <1>3, <1>4, <1>5 DEF Placed, IsFinished
<1>8. Ordered /\ Apart
  BY <1>2, <1>4 DEF Ordered, Apart
<1>9. PoolIsFences /\ Past
  BY <1>1 DEF PoolIsFences, Past, NoSubmits
<1>10. NoGap
  BY <1>2, <1>3, <1>5 DEF NoGap, Pends, Semaphores
<1>11. Chained
  <2> SUFFICES ASSUME NEW i \in 1 .. 2 PROVE Follows(0, i)
    BY <1>4 DEF Chained
  <2>1. pending[0][i].value = i /\ (i = 2 => pending[0][i - 1].value = i - 1)
    BY <1>2, <1>3
  <2>2. counter[Semaphore(0)] = 0
    BY <1>1, <1>5
  <2>3. QED
    BY <2>1, <2>2 DEF Follows
<1>12. Counting
  <2>1. \A s \in Semaphores : counter[s] = 0 /\ timeline[s] \in Nat
    BY <1>1 DEF Semaphores
  <2>2. QED
    BY <1>1, <2>1, QueueFacts DEF Counting, IsFinished, Values
<1>13. Host
  <2>1. timeline["graphics"] = 2 /\ timeline["transfer"] = 0
    BY <1>1
  <2>2. submits[0].maxTimelineValue = 2 /\ \A q \in Queues : q # 0 => submits[q].maxTimelineValue = 0
    BY <1>1, <1>3 DEF NoSubmits
  <2>3. \A q \in Queues : timeline[Semaphore(q)] >= 0
    BY <1>6, QueueFacts DEF TypeOK
  <2>4. QED
    BY <1>1, <1>3, <1>5, <2>1, <2>2, <2>3, QueueFacts, EmptySeq DEF Host
<1>14. Collects
  BY <1>1, <1>3, <1>5, QueueFacts DEF Collects, NoTask, CallbacksAfterExecution
<1>15. Uploads
  BY <1>1, <1>2, <1>4 DEF Uploads, UploadsBeforeUse
<1>16. QED
  BY <1>6, <1>7, <1>8, <1>9, <1>10, <1>11, <1>12, <1>13, <1>14, <1>15 DEF IInv, Device

------------------------------------------------------------------------------
\* The head stays within the queues and moves on, unless there is only one.
LEMMA NextHead ==
  ASSUME NEW h \in Graphics
  PROVE  (h + 1) % QueueCount \in Graphics /\ (QueueCount > 1 => (h + 1) % QueueCount # h)
<1>1. h \in 0 .. QueueCount - 1 /\ QueueCount \in Nat \ {0}
  BY QueueCountAssumption DEF Graphics
<1>2. CASE h + 1 < QueueCount
  <2>1. (h + 1) % QueueCount = h + 1
    BY <1>1, <1>2
  <2>2. QED
    BY <1>1, <1>2, <2>1 DEF Graphics
<1>3. CASE h + 1 = QueueCount
  <2>1. QueueCount % QueueCount = 0
    BY <1>1
  <2>2. QED
    BY <1>1, <1>3, <2>1 DEF Graphics
<1>4. QED
  BY <1>1, <1>2, <1>3

\* Waiting for one value of one semaphore.
LEMMA OneWait ==
  ASSUME NEW s \in Semaphores, NEW v \in Nat
  PROVE  {<<s, v>>} \in SUBSET (Semaphores \X Nat)
  OBVIOUS

LEMMA PairType == ASSUME NEW S, NEW a \in S, NEW b \in S PROVE <<a, b>> \in [1 .. 2 -> S]
OBVIOUS

LEMMA TypeStep ==
  ASSUME TypeOK, Device, [Next]_vars
  PROVE  TypeOK'
<1> USE QueueFacts DEF TypeOK, Task
<1>1. CASE BeginFrame
  <2>1. (head + 1) % QueueCount \in Graphics
    BY NextHead
  <2>2. /\ head' \in Graphics /\ frames' \in 0 .. MaxFrames
        /\ draw' \in [at : {"idle", "fences", "calls"}, last : Graphics]
    BY <1>1, <2>1, BoundsAssumption DEF BeginFrame
  <2>3. QED
    BY <1>1, <2>2 DEF BeginFrame, deviceVars
<1>2. CASE ResetQueue
  <2>1. NoSubmits \in [fences : SUBSET Nat, maxTimelineValue : Nat]
    BY DEF NoSubmits
  <2>2. <<{}, pools[head][1]>> \in [1 .. 2 -> SUBSET Nat]
    <3>1. pools[head][1] \in SUBSET Nat
      OBVIOUS
    <3> QED
      BY <3>1, PairType
  <2> HIDE DEF NoSubmits
  <2>3. /\ submits' \in [Queues -> [fences : SUBSET Nat, maxTimelineValue : Nat]]
        /\ pools' \in [Queues -> [1 .. 2 -> SUBSET Nat]]
    BY <1>2, <2>1, <2>2 DEF ResetQueue
  <2>4. draw' \in [at : {"idle", "fences", "calls"}, last : Graphics]
    BY <1>2 DEF ResetQueue
  <2>5. QED
    BY <1>2, <2>3, <2>4 DEF ResetQueue, deviceVars, countVars
<1>3. ASSUME NEW q \in Queues, NEW waits \in SUBSET (Semaphores \X Nat), NEW image \in Nat,
             Submit(q, waits, image)
      PROVE  /\ timeline' \in [Semaphores -> Nat]
             /\ submits' \in [Queues -> [fences : SUBSET Nat, maxTimelineValue : Nat]]
             /\ pools' \in [Queues -> [1 .. 2 -> SUBSET Nat]]
             /\ callbacks' \in [Queues -> SUBSET Nat]
             /\ pending' \in [Queues -> Seq(Batch)]
  BY <1>3, SubmitFacts
<1>4. CASE CallDrawCall
  <2>1. /\ Submit(head, {<<"transfer", submits[Transfer].maxTimelineValue>>}, Head(drawCalls))
        /\ drawCalls' = Tail(drawCalls) /\ drawCalls # <<>>
        /\ UNCHANGED <<head, counter, finished, draw, countVars, called, collect, destroyed>>
    BY <1>4 DEF CallDrawCall
  <2>2. Head(drawCalls) \in Nat /\ drawCalls' \in Seq(Nat)
    BY <2>1, TailFacts
  <2>3. {<<"transfer", submits[Transfer].maxTimelineValue>>} \in SUBSET (Semaphores \X Nat)
    BY OneWait DEF Semaphores
  <2>4. QED
    BY <1>3, <2>1, <2>2, <2>3 DEF countVars
<1>5. CASE SubmitFrame
  <2>1. /\ Submit(head, {<<"graphics", submits[draw.last].maxTimelineValue>>}, 0)
        /\ draw' = [at |-> "idle", last |-> 0]
        /\ collect' = [collect EXCEPT ![frames] = [NoTask EXCEPT !.at = "queued", !.queue = head]]
        /\ UNCHANGED <<head, counter, finished, drawCalls, countVars, called, destroyed>>
    BY <1>5 DEF SubmitFrame
  <2>2. collect' \in [1 .. MaxFrames -> Task]
    BY <2>1 DEF NoTask
  <2>5. draw.last \in Queues
    OBVIOUS
  <2>6. submits[draw.last].maxTimelineValue \in Nat
    BY <2>5
  <2>3. {<<"graphics", submits[draw.last].maxTimelineValue>>} \in SUBSET (Semaphores \X Nat)
    BY <2>6, OneWait DEF Semaphores
  <2>4. QED
    BY <1>3, <2>1, <2>2, <2>3 DEF countVars
<1>6. CASE Resize
  <2>1. Submit(head, {}, 0) /\ resizes' \in 0 .. MaxResizes
    BY <1>6, BoundsAssumption DEF Resize
  <2>2. QED
    BY <1>3, <1>6, <2>1 DEF Resize
<1>7. CASE LoadImage
  <2>1. Submit(Transfer, {}, 0) /\ images' \in 0 .. MaxImages
    BY <1>7, BoundsAssumption DEF LoadImage
  <2>2. timeline' \in [Semaphores -> Nat]
    BY <1>3, <2>1
  <2>3. drawCalls' \in Seq(Nat)
    BY <1>7, <2>2, AppendFacts DEF LoadImage, Semaphores
  <2>4. QED
    BY <1>3, <1>7, <2>1, <2>3 DEF LoadImage
<1>8. CASE LoadModel
  <2>1. /\ Submit(Transfer, {<<"transfer", submits[Transfer].maxTimelineValue>>}, 0)
        /\ models' \in 0 .. MaxModels
    BY <1>8, BoundsAssumption DEF LoadModel
  <2>2. {<<"transfer", submits[Transfer].maxTimelineValue>>} \in SUBSET (Semaphores \X Nat)
    BY OneWait DEF Semaphores
  <2>3. QED
    BY <1>3, <1>8, <2>1, <2>2 DEF LoadModel
<1>9. ASSUME NEW f \in 1 .. MaxFrames, ReadValue(f) PROVE TypeOK'
  <2>1. counter["graphics"] \in Nat
    BY DEF Semaphores
  <2>2. collect' \in [1 .. MaxFrames -> Task]
    <3>1. collect[f] \in Task
      OBVIOUS
    <3>2. [collect[f] EXCEPT !.at = "draining", !.value = counter["graphics"]] \in Task
      BY <2>1, <3>1 DEF Task
    <3>3. collect' = [collect EXCEPT ![f] =
                        [collect[f] EXCEPT !.at = "draining", !.value = counter["graphics"]]]
      BY <1>9 DEF ReadValue
    <3>4. QED
      BY <3>2, <3>3
  <2>3. QED
    BY <1>9, <2>2 DEF ReadValue, hostVars, deviceVars, countVars
<1>10. ASSUME NEW f \in 1 .. MaxFrames, DrainOne(f) PROVE TypeOK'
  <2>1. PICK v \in callbacks[collect[f].queue] :
          /\ callbacks' = [callbacks EXCEPT ![collect[f].queue] = @ \ {v}]
          /\ IF collect[f].value <= v
             THEN /\ collect' = [collect EXCEPT ![f].kept = @ \cup {v}]
                  /\ UNCHANGED called
             ELSE /\ called' = [called EXCEPT !["graphics"] = @ \cup {v}]
                  /\ UNCHANGED collect
    BY <1>10 DEF DrainOne
  <2>2. v \in Nat /\ collect[f].queue \in Queues
    OBVIOUS
  <2>3. callbacks' \in [Queues -> SUBSET Nat]
    BY <2>1, <2>2
  <2>4. called' \in [Semaphores -> SUBSET Nat]
    <3>1. CASE UNCHANGED called
      BY <3>1
    <3>2. CASE called' = [called EXCEPT !["graphics"] = @ \cup {v}]
      <4>1. called["graphics"] \cup {v} \in SUBSET Nat
        BY <2>2 DEF Semaphores
      <4>2. QED
        BY <3>2, <4>1
    <3>3. QED
      BY <2>1, <3>1, <3>2
  <2>5. collect' \in [1 .. MaxFrames -> Task]
    <3>1. CASE UNCHANGED collect
      BY <3>1
    <3>2. CASE collect' = [collect EXCEPT ![f].kept = @ \cup {v}]
      <4>1. collect[f] \in Task
        OBVIOUS
      <4>2. [collect[f] EXCEPT !.kept = @ \cup {v}] \in Task
        BY <2>2, <4>1 DEF Task
      <4>3. collect' = [collect EXCEPT ![f] = [collect[f] EXCEPT !.kept = @ \cup {v}]]
        BY <3>2
      <4>4. QED
        BY <4>2, <4>3
    <3>3. QED
      BY <2>1, <3>1, <3>2
  <2>6. QED
    BY <1>10, <2>3, <2>4, <2>5 DEF DrainOne, deviceVars, countVars
<1>11. ASSUME NEW f \in 1 .. MaxFrames, PutBack(f) PROVE TypeOK'
  <2>1. callbacks' \in [Queues -> SUBSET Nat]
    BY <1>11 DEF PutBack
  <2>2. collect' \in [1 .. MaxFrames -> Task]
    BY <1>11 DEF PutBack, NoTask
  <2>3. QED
    BY <1>11, <2>1, <2>2 DEF PutBack, deviceVars, countVars
<1>12. CASE Collect
  <2>1. callbacks' \in [Queues -> SUBSET Nat] /\ called' \in [Semaphores -> SUBSET Nat]
    BY <1>12 DEF Collect
  <2>2. QED
    BY <1>12, <2>1, destroyed' \in Nat DEF Collect, deviceVars, countVars
<1>13. ASSUME NEW q \in Queues, FinishBatch(q) PROVE TypeOK'
  <2>1. /\ counter' \in [Semaphores -> Nat] /\ pending' \in [Queues -> Seq(Batch)]
        /\ UNCHANGED <<hostVars, countVars, called, collect, destroyed>>
    BY <1>13, FinishFacts
  <2>4. finished' = finished \cup {pending[q][1]} /\ pending[q][1] \in Batch
    BY <1>13, FinishFacts
  <2>2. finished' \in SUBSET Batch
    BY <2>4
  <2>3. QED
    BY <2>1, <2>2 DEF hostVars, countVars
<1>14. CASE UNCHANGED vars
  BY <1>14 DEF vars, hostVars, deviceVars, countVars
<1>15. QED
  BY <1>1, <1>2, <1>4, <1>5, <1>6, <1>7, <1>8, <1>9, <1>10, <1>11, <1>12, <1>13, <1>14
     DEF Next, Collecting

\* A submit to a queue makes its last value the context's.
LEMMA SubmitKeepsMaxima ==
  ASSUME TypeOK, Host,
         NEW q \in Queues, NEW waits \in SUBSET (Semaphores \X Nat), NEW image \in Nat,
         Submit(q, waits, image)
  PROVE  /\ timeline'["graphics"] >= 2
         /\ \A r \in Queues : submits'[r].maxTimelineValue <= timeline'[Semaphore(r)]
         /\ submits'[Transfer].maxTimelineValue = timeline'["transfer"]
         /\ submits'[q].maxTimelineValue = timeline'[Semaphore(q)]
         /\ \A r \in Queues : r # q => submits'[r] = submits[r]
         /\ \A s \in Semaphores : s # Semaphore(q) => timeline'[s] = timeline[s]
         /\ Values("transfer") \subseteq Values("transfer")'
<1> DEFINE s == Semaphore(q)
<1>1. timeline'[s] = timeline[s] + 1
  BY SubmitFacts
<1>2. \A t \in Semaphores : t # s => timeline'[t] = timeline[t]
  BY SubmitFacts
<1>3. submits[q].maxTimelineValue < timeline[s] + 1 =>
        submits'[q].maxTimelineValue = timeline[s] + 1
  BY SubmitFacts
<1>4. \A r \in Queues : r # q => submits'[r] = submits[r]
  BY SubmitFacts
<1>5. /\ s \in Semaphores /\ \A t \in Semaphores : timeline[t] \in Nat
      /\ \A r \in Queues : Semaphore(r) \in Semaphores /\ submits[r].maxTimelineValue \in Nat
      /\ "graphics" \in Semaphores /\ "transfer" \in Semaphores /\ Transfer \in Queues
      /\ \A r \in Queues : Semaphore(r) = "transfer" <=> r = Transfer
  BY QueueFacts DEF TypeOK, Semaphores
<1>6. submits[q].maxTimelineValue <= timeline[s]
  BY DEF Host
<1> HIDE DEF s
<1>7. submits'[q].maxTimelineValue = timeline'[s] /\ timeline'[s] \in Nat
  BY <1>1, <1>3, <1>5, <1>6
<1>8. \A t \in Semaphores : timeline[t] <= timeline'[t] /\ timeline'[t] \in Nat
  BY <1>1, <1>2, <1>5
<1>9. \A r \in Queues : submits'[r].maxTimelineValue <= timeline'[Semaphore(r)]
  <2> SUFFICES ASSUME NEW r \in Queues
               PROVE  submits'[r].maxTimelineValue <= timeline'[Semaphore(r)]
    OBVIOUS
  <2>1. CASE r = q
    BY <2>1, <1>7 DEF s
  <2>2. CASE r # q
    <3>1. submits'[r].maxTimelineValue <= timeline[Semaphore(r)]
      BY <2>2, <1>4 DEF Host
    <3>2. submits'[r].maxTimelineValue \in Nat
      BY <2>2, <1>4, <1>5
    <3>3. QED
      BY <3>1, <3>2, <1>5, <1>8
  <2>3. QED
    BY <2>1, <2>2
<1>10. submits'[Transfer].maxTimelineValue = timeline'["transfer"]
  <2>1. CASE q = Transfer
    BY <2>1, <1>5, <1>7 DEF s
  <2>2. CASE q # Transfer
    <3>1. s # "transfer"
      BY <2>2, <1>5 DEF s
    <3>2. QED
      BY <2>2, <3>1, <1>2, <1>4, <1>5 DEF Host
  <2>3. QED
    BY <2>1, <2>2
<1>11. timeline'["graphics"] >= 2
  BY <1>5, <1>8 DEF Host
<1>12. Values("transfer") \subseteq Values("transfer")'
  BY <1>5, <1>8 DEF Values
<1>13. QED
  BY <1>2, <1>4, <1>7, <1>9, <1>10, <1>11, <1>12 DEF s

LEMMA HostStep ==
  ASSUME TypeOK, Device, Host, [Next]_vars
  PROVE  Host'
<1>1. /\ head \in Graphics /\ head \in Queues /\ Semaphore(head) = "graphics"
      /\ Semaphore(Transfer) = "transfer" /\ Transfer \in Queues /\ head # Transfer
      /\ "graphics" \in Semaphores /\ "transfer" \in Semaphores
      /\ draw.last \in Queues /\ drawCalls \in Seq(Nat)
      /\ submits[Transfer].maxTimelineValue \in Nat
      /\ submits[draw.last].maxTimelineValue \in Nat
      /\ \A s \in Semaphores : timeline[s] \in Nat
      /\ \A q \in Queues : Semaphore(q) \in Semaphores
  BY QueueFacts DEF TypeOK, Semaphores
<1>2. ASSUME UNCHANGED <<timeline, head, submits, drawCalls, draw>> PROVE Host'
  BY <1>2 DEF Host, Values
<1>3. CASE BeginFrame
  <2>1. /\ head' = (head + 1) % QueueCount /\ draw' = [at |-> "fences", last |-> head]
        /\ draw.at = "idle" /\ UNCHANGED <<timeline, submits, drawCalls>>
    BY <1>3 DEF BeginFrame
  <2>2. QueueCount > 1 => head # head'
    BY <2>1, <1>1, NextHead
  <2>3. draw'.at # "idle" /\ draw'.last = head
    BY <2>1
  <2>4. QED
    BY <2>1, <2>2, <2>3 DEF Host, Values
<1>4. CASE ResetQueue
  <2>1. /\ draw.at = "fences" /\ submits' = [submits EXCEPT ![head] = NoSubmits]
        /\ draw' = [draw EXCEPT !.at = "calls"] /\ UNCHANGED <<timeline, head, drawCalls>>
    BY <1>4 DEF ResetQueue
  <2>2. draw'.at = "calls" /\ draw'.last = draw.last
    BY <2>1 DEF TypeOK
  <2>3. /\ \A q \in Queues : q # head => submits'[q] = submits[q]
        /\ submits'[head].maxTimelineValue = 0
    BY <2>1, <1>1 DEF TypeOK, NoSubmits
  <2>4. \A q \in Queues : submits'[q].maxTimelineValue <= timeline[Semaphore(q)]
    BY <2>3, <1>1 DEF Host
  <2>5. submits'[Transfer].maxTimelineValue = timeline["transfer"]
    BY <2>3, <1>1 DEF Host
  <2>6. QueueCount > 1 =>
          /\ draw.last # head
          /\ MaxImages = 0 => submits'[draw.last].maxTimelineValue = timeline["graphics"]
    BY <2>1, <2>3, <1>1 DEF Host
  <2>7. QED
    BY <2>1, <2>2, <2>4, <2>5, <2>6 DEF Host, Values
<1>5. CASE CallDrawCall
  <2>1. /\ Submit(head, {<<"transfer", submits[Transfer].maxTimelineValue>>}, Head(drawCalls))
        /\ draw.at = "calls" /\ drawCalls # <<>> /\ drawCalls' = Tail(drawCalls)
        /\ UNCHANGED <<head, draw>>
    BY <1>5 DEF CallDrawCall
  <2>2. /\ Head(drawCalls) \in Nat /\ Len(drawCalls) \in Nat
        /\ Len(drawCalls') = Len(drawCalls) - 1
        /\ \A i \in 1 .. Len(drawCalls) - 1 : drawCalls'[i] = drawCalls[i + 1]
    BY <2>1, <1>1, TailFacts
  <2>3. {<<"transfer", submits[Transfer].maxTimelineValue>>} \in SUBSET (Semaphores \X Nat)
    BY <1>1
  <2>4. /\ timeline'["graphics"] >= 2
        /\ \A r \in Queues : submits'[r].maxTimelineValue <= timeline'[Semaphore(r)]
        /\ submits'[Transfer].maxTimelineValue = timeline'["transfer"]
        /\ Values("transfer") \subseteq Values("transfer")'
    BY <2>1, <2>2, <2>3, <1>1, SubmitKeepsMaxima
  <2>5. MaxImages # 0
    BY <2>1 DEF Host
  <2>6. \A i \in 1 .. Len(drawCalls') : drawCalls'[i] \in Values("transfer")'
    BY <2>2, <2>4 DEF Host
  <2>7. QueueCount > 1 => draw.last # head
    BY <2>1 DEF Host
  <2>8. QED
    BY <2>1, <2>4, <2>5, <2>6, <2>7 DEF Host
<1>6. CASE SubmitFrame
  <2>1. /\ Submit(head, {<<"graphics", submits[draw.last].maxTimelineValue>>}, 0)
        /\ draw' = [at |-> "idle", last |-> 0] /\ UNCHANGED <<head, drawCalls>>
    BY <1>6 DEF SubmitFrame
  <2>2. {<<"graphics", submits[draw.last].maxTimelineValue>>} \in SUBSET (Semaphores \X Nat)
    BY <1>1
  <2>3. /\ timeline'["graphics"] >= 2
        /\ \A r \in Queues : submits'[r].maxTimelineValue <= timeline'[Semaphore(r)]
        /\ submits'[Transfer].maxTimelineValue = timeline'["transfer"]
        /\ submits'[head].maxTimelineValue = timeline'["graphics"]
        /\ Values("transfer") \subseteq Values("transfer")'
    BY <2>1, <2>2, <1>1, SubmitKeepsMaxima
  <2>4. draw'.at = "idle"
    BY <2>1
  <2>5. QED
    BY <2>1, <2>3, <2>4 DEF Host
<1>7. CASE Resize
  <2>1. Submit(head, {}, 0) /\ draw.at = "idle" /\ UNCHANGED <<head, drawCalls, draw>>
    BY <1>7 DEF Resize
  <2>2. /\ timeline'["graphics"] >= 2
        /\ \A r \in Queues : submits'[r].maxTimelineValue <= timeline'[Semaphore(r)]
        /\ submits'[Transfer].maxTimelineValue = timeline'["transfer"]
        /\ submits'[head].maxTimelineValue = timeline'["graphics"]
        /\ Values("transfer") \subseteq Values("transfer")'
    BY <2>1, <1>1, SubmitKeepsMaxima
  <2>3. QED
    BY <2>1, <2>2 DEF Host
<1>8. ASSUME NEW waits \in SUBSET (Semaphores \X Nat), Submit(Transfer, waits, 0),
             UNCHANGED <<head, draw>>
      PROVE  /\ Values("transfer") \subseteq Values("transfer")'
             /\ (/\ MaxImages = 0 => drawCalls' = <<>>
                 /\ \A i \in 1 .. Len(drawCalls') : drawCalls'[i] \in Values("transfer")') => Host'
  <2>1. /\ timeline'["graphics"] >= 2
        /\ \A r \in Queues : submits'[r].maxTimelineValue <= timeline'[Semaphore(r)]
        /\ submits'[Transfer].maxTimelineValue = timeline'["transfer"]
        /\ \A r \in Queues : r # Transfer => submits'[r] = submits[r]
        /\ \A s \in Semaphores : s # "transfer" => timeline'[s] = timeline[s]
        /\ Values("transfer") \subseteq Values("transfer")'
    BY <1>1, <1>8, SubmitKeepsMaxima
  <2>2. draw.last # Transfer
    BY QueueFacts DEF TypeOK
  <2>3. timeline'["graphics"] = timeline["graphics"]
    BY <2>1, <1>1
  <2>4. submits'[head] = submits[head] /\ submits'[draw.last] = submits[draw.last]
    BY <2>1, <2>2, <1>1
  <2>5. QED
    BY <2>1, <2>3, <2>4, <1>8 DEF Host
<1>9. CASE LoadImage
  <2>1. /\ Submit(Transfer, {}, 0) /\ images < MaxImages /\ UNCHANGED <<head, draw>>
        /\ drawCalls' = Append(drawCalls, timeline'["transfer"])
    BY <1>9 DEF LoadImage
  <2>2. MaxImages # 0
    BY <2>1 DEF TypeOK
  <2>3. timeline'["transfer"] = timeline["transfer"] + 1
    BY <2>1, <1>1 DEF Submit, TypeOK
  <2>4. timeline'["transfer"] \in Nat /\ timeline'["transfer"] \in Values("transfer")'
    BY <2>3, <1>1 DEF Values
  <2>5. /\ Len(drawCalls) \in Nat /\ Len(drawCalls') = Len(drawCalls) + 1
        /\ \A i \in 1 .. Len(drawCalls) : drawCalls'[i] = drawCalls[i]
        /\ drawCalls'[Len(drawCalls) + 1] = timeline'["transfer"]
    BY <2>1, <2>4, <1>1, AppendFacts
  <2>6. Values("transfer") \subseteq Values("transfer")'
    BY <2>1, <1>8
  <2>7. \A i \in 1 .. Len(drawCalls') : drawCalls'[i] \in Values("transfer")'
    <3> SUFFICES ASSUME NEW i \in 1 .. Len(drawCalls') PROVE drawCalls'[i] \in Values("transfer")'
      OBVIOUS
    <3>1. CASE i \in 1 .. Len(drawCalls)
      BY <3>1, <2>5, <2>6 DEF Host
    <3>2. CASE i = Len(drawCalls) + 1
      BY <3>2, <2>4, <2>5
    <3>3. QED
      BY <3>1, <3>2, <2>5
  <2>8. QED
    BY <2>1, <2>2, <2>7, <1>8
<1>10. CASE LoadModel
  <2>1. /\ Submit(Transfer, {<<"transfer", submits[Transfer].maxTimelineValue>>}, 0)
        /\ UNCHANGED <<head, draw, drawCalls>>
    BY <1>10 DEF LoadModel
  <2>2. {<<"transfer", submits[Transfer].maxTimelineValue>>} \in SUBSET (Semaphores \X Nat)
    BY <1>1
  <2>3. QED
    BY <2>1, <2>2, <1>8 DEF Host
<1>11. ASSUME NEW f \in 1 .. MaxFrames, Collecting(f) PROVE Host'
  BY <1>2, <1>11 DEF Collecting, ReadValue, DrainOne, PutBack, hostVars
<1>12. CASE Collect
  BY <1>2, <1>12 DEF Collect
<1>13. ASSUME NEW q \in Queues, FinishBatch(q) PROVE Host'
  BY <1>2, <1>13 DEF FinishBatch, hostVars
<1>14. CASE UNCHANGED vars
  BY <1>2, <1>14 DEF vars, hostVars
<1>15. QED
  BY <1>3, <1>4, <1>5, <1>6, <1>7, <1>9, <1>10, <1>11, <1>12, <1>13, <1>14 DEF Next

LEMMA DeviceStep ==
  ASSUME TypeOK, Device, Host, [Next]_vars
  PROVE  Device'
<1>1. CASE CallDrawCall \/ SubmitFrame \/ Resize \/ LoadImage \/ LoadModel
  <2>1. UNCHANGED <<counter, finished>>
    BY <1>1 DEF CallDrawCall, SubmitFrame, Resize, LoadImage, LoadModel
  <2>2. QED
    BY <1>1, <2>1, Submitters, SubmitKeepsDevice
<1>2. CASE ResetQueue
  BY <1>2, ResetKeepsDevice
<1>3. ASSUME NEW q \in Queues, FinishBatch(q) PROVE Device'
  BY <1>3, FinishKeepsDevice
<1>4. CASE BeginFrame
  BY <1>4, UntouchedDevice DEF BeginFrame, deviceVars
<1>5. ASSUME NEW f \in 1 .. MaxFrames, Collecting(f) PROVE Device'
  BY <1>5, UntouchedDevice DEF Collecting, ReadValue, DrainOne, PutBack, hostVars, deviceVars
<1>6. CASE Collect
  BY <1>6, UntouchedDevice DEF Collect, deviceVars
<1>7. CASE UNCHANGED vars
  BY <1>7, UntouchedDevice DEF vars, hostVars, deviceVars
<1>8. QED
  BY <1>1, <1>2, <1>3, <1>4, <1>5, <1>6, <1>7 DEF Next

LEMMA UploadsStep ==
  ASSUME TypeOK, Device, Host, Uploads, [Next]_vars
  PROVE  Uploads'
<1>1. CASE CallDrawCall \/ SubmitFrame \/ Resize \/ LoadImage \/ LoadModel
  <2>1. UNCHANGED <<counter, finished>>
    BY <1>1 DEF CallDrawCall, SubmitFrame, Resize, LoadImage, LoadModel
  <2>2. QED
    BY <1>1, <2>1, Submitters, SubmitKeepsUploads
<1>2. ASSUME UNCHANGED <<timeline, pending, finished>> PROVE Uploads'
  BY <1>2 DEF Uploads, UploadsBeforeUse, Values, IsFinished
<1>3. ASSUME NEW q \in Queues, FinishBatch(q) PROVE Uploads'
  <2> DEFINE batch == pending[q][1]
             n == Len(pending[q])
  <2>1. /\ batch \in Batch /\ n \in Nat /\ n >= 1 /\ finished' = finished \cup {batch}
        /\ \A w \in batch.waits : counter[w[1]] >= w[2]
        /\ UNCHANGED <<hostVars, countVars, called, collect, destroyed>>
    BY <1>3, FinishFacts
  <2>2. Len(pending'[q]) = n - 1 /\ \A i \in 1 .. n - 1 : pending'[q][i] = pending[q][i + 1]
    BY <1>3, FinishFacts
  <2>3. \A r \in Queues : r # q => pending'[r] = pending[r]
    BY <1>3, FinishFacts
  <2>4. Values("transfer")' = Values("transfer")
    BY <2>1 DEF hostVars, Values
  <2>5. batch.image # 0 => IsFinished("transfer", batch.image)
    <3> SUFFICES ASSUME batch.image # 0 PROVE IsFinished("transfer", batch.image)
      OBVIOUS
    <3>1. batch.image \in Values("transfer")
      BY <2>1 DEF Uploads
    <3>2. PICK w \in batch.waits : w[1] = "transfer" /\ w[2] >= batch.image
      BY <2>1 DEF Uploads
    <3>3. w[2] \in Nat /\ counter["transfer"] \in Nat
      BY <2>1, QueueFacts DEF Batch, TypeOK
    <3>4. batch.image <= counter["transfer"]
      BY <2>1, <3>1, <3>2, <3>3 DEF Values
    <3>5. QED
      BY <3>1, <3>4, QueueFacts DEF Device, Counting
  <2>6. UploadsBeforeUse'
    BY <2>1, <2>5 DEF Uploads, UploadsBeforeUse, IsFinished
  <2>7. ASSUME NEW r \in Queues, NEW i \in 1 .. Len(pending'[r]), pending'[r][i].image # 0
        PROVE  /\ pending'[r][i].image \in Values("transfer")
               /\ \E w \in pending'[r][i].waits : w[1] = "transfer" /\ w[2] >= pending'[r][i].image
    <3>1. CASE r = q
      <4>1. i + 1 \in 1 .. n /\ pending'[q][i] = pending[q][i + 1]
        BY <2>1, <2>2, <3>1
      <4>2. QED
        BY <2>7, <3>1, <4>1 DEF Uploads
    <3>2. CASE r # q
      BY <2>3, <2>7, <3>2 DEF Uploads
    <3>3. QED
      BY <3>1, <3>2
  <2>8. QED
    BY <2>4, <2>6, <2>7 DEF Uploads
<1>4. CASE BeginFrame \/ ResetQueue \/ Collect
  BY <1>2, <1>4 DEF BeginFrame, ResetQueue, Collect, deviceVars
<1>5. ASSUME NEW f \in 1 .. MaxFrames, Collecting(f) PROVE Uploads'
  BY <1>2, <1>5 DEF Collecting, ReadValue, DrainOne, PutBack, hostVars, deviceVars
<1>6. CASE UNCHANGED vars
  BY <1>2, <1>6 DEF vars, hostVars, deviceVars
<1>7. QED
  BY <1>1, <1>3, <1>4, <1>5, <1>6 DEF Next

\* A callback that is called has a value below one the semaphore had before.
LEMMA CollectsStep ==
  ASSUME TypeOK, Device, Host, Collects, [Next]_vars
  PROVE  Collects'
<1>1. /\ \A q \in Graphics : q \in Queues /\ Semaphore(q) = "graphics"
      /\ \A f \in 1 .. MaxFrames : collect[f] \in Task
      /\ \A q \in Queues : callbacks[q] \subseteq Nat
      /\ "graphics" \in Semaphores /\ counter["graphics"] \in Nat
  BY QueueFacts DEF TypeOK, Semaphores
<1>2. CASE CallDrawCall \/ SubmitFrame \/ Resize \/ LoadImage \/ LoadModel
  <2>1. UNCHANGED <<counter, finished, called>>
    BY <1>2 DEF CallDrawCall, SubmitFrame, Resize, LoadImage, LoadModel
  <2>2. \A f \in 1 .. MaxFrames : \/ collect'[f] = collect[f]
                                  \/ collect'[f].kept = {} /\ collect'[f].value = 0
    <3>1. CASE UNCHANGED collect
      BY <3>1
    <3>2. CASE collect' = [collect EXCEPT ![frames] = [NoTask EXCEPT !.at = "queued", !.queue = head]]
      BY <3>2 DEF NoTask, TypeOK
    <3>3. QED
      BY <1>2, <3>1, <3>2 DEF CallDrawCall, SubmitFrame, Resize, LoadImage, LoadModel
  <2>3. QED
    BY <1>2, <2>1, <2>2, Submitters, SubmitKeepsCollects
<1>3. ASSUME NEW f \in 1 .. MaxFrames, ReadValue(f) PROVE Collects'
  <2>1. /\ collect' = [collect EXCEPT ![f].at = "draining", ![f].value = counter["graphics"]]
        /\ UNCHANGED <<timeline, callbacks, counter, finished, called>>
    BY <1>3 DEF ReadValue, hostVars, deviceVars
  <2>2. ASSUME NEW g \in 1 .. MaxFrames
        PROVE  /\ collect'[g].kept = collect[g].kept
               /\ collect'[g].value \in {collect[g].value, counter["graphics"]}
    BY <1>1, <2>1 DEF TypeOK, Task
  <2>3. \A g \in 1 .. MaxFrames :
          /\ collect'[g].kept \subseteq Values("graphics")
          /\ "graphics" \in InOrder => collect'[g].value <= counter["graphics"]
    BY <1>1, <2>2 DEF Collects, Task
  <2>4. QED
    BY <2>1, <2>3 DEF Collects, Values, CallbacksAfterExecution, IsFinished
<1>4. ASSUME NEW f \in 1 .. MaxFrames, DrainOne(f) PROVE Collects'
  <2> DEFINE q == collect[f].queue
  <2>1. PICK v \in callbacks[q] :
          /\ callbacks' = [callbacks EXCEPT ![q] = @ \ {v}]
          /\ IF collect[f].value <= v
             THEN /\ collect' = [collect EXCEPT ![f].kept = @ \cup {v}]
                  /\ UNCHANGED called
             ELSE /\ called' = [called EXCEPT !["graphics"] = @ \cup {v}]
                  /\ UNCHANGED collect
    BY <1>4 DEF DrainOne
  <2>2. UNCHANGED <<timeline, counter, finished>>
    BY <1>4 DEF DrainOne, deviceVars
  <2>3. q \in Queues /\ Semaphore(q) = "graphics" /\ collect[f].value \in Nat
    BY <1>1 DEF Task
  <2>4. v \in Values("graphics") /\ v \in Nat
    BY <1>1, <2>3 DEF Collects
  <2> HIDE DEF q
  <2>5. \A r \in Queues : callbacks'[r] \subseteq Values(Semaphore(r))
    BY <2>1 DEF Collects, TypeOK
  <2>6. \A g \in 1 .. MaxFrames : /\ collect'[g].kept \subseteq Values("graphics")
                                  /\ collect'[g].value = collect[g].value
    <3>1. CASE UNCHANGED collect
      BY <3>1 DEF Collects
    <3>2. CASE collect' = [collect EXCEPT ![f].kept = @ \cup {v}]
      BY <3>2, <2>4, <1>1 DEF Collects, TypeOK, Task
    <3>3. QED
      BY <2>1, <3>1, <3>2
  <2>7. ASSUME "graphics" \in InOrder
        PROVE  \A s \in Semaphores : \A u \in called'[s] : IsFinished(s, u)
    <3>1. CASE UNCHANGED called
      BY <2>7, <3>1 DEF Collects, CallbacksAfterExecution
    <3>2. CASE called' = [called EXCEPT !["graphics"] = @ \cup {v}] /\ ~ (collect[f].value <= v)
      <4>1. v <= counter["graphics"]
        BY <2>3, <2>4, <2>7, <3>2, <1>1 DEF Collects
      <4>2. IsFinished("graphics", v)
        BY <2>4, <2>7, <4>1 DEF Device, Counting
      <4>3. QED
        BY <2>7, <3>2, <4>2 DEF Collects, CallbacksAfterExecution, TypeOK
    <3>3. QED
      BY <2>1, <3>1, <3>2
  <2>8. QED
    BY <2>2, <2>5, <2>6, <2>7 DEF Collects, Values, CallbacksAfterExecution, IsFinished
<1>5. ASSUME NEW f \in 1 .. MaxFrames, PutBack(f) PROVE Collects'
  <2> DEFINE q == collect[f].queue
  <2>1. /\ callbacks' = [callbacks EXCEPT ![q] = collect[f].kept]
        /\ collect' = [collect EXCEPT ![f] = [NoTask EXCEPT !.at = "done"]]
        /\ UNCHANGED <<timeline, counter, finished, called>>
    BY <1>5 DEF PutBack, deviceVars
  <2>2. q \in Queues /\ Semaphore(q) = "graphics"
    BY <1>1 DEF Task
  <2> HIDE DEF q
  <2>3. \A r \in Queues : callbacks'[r] \subseteq Values(Semaphore(r))
    BY <2>1, <2>2 DEF Collects, TypeOK
  <2>4. \A g \in 1 .. MaxFrames : \/ collect'[g] = collect[g]
                                  \/ collect'[g].kept = {} /\ collect'[g].value = 0
    BY <2>1 DEF TypeOK, NoTask
  <2>5. \A g \in 1 .. MaxFrames :
          /\ collect'[g].kept \subseteq Values("graphics")
          /\ "graphics" \in InOrder => collect'[g].value <= counter["graphics"]
    BY <1>1, <2>4 DEF Collects, Task
  <2>6. QED
    BY <2>1, <2>3, <2>5 DEF Collects, Values, CallbacksAfterExecution, IsFinished
<1>6. CASE Collect
  <2> DEFINE q == IF destroyed \in Graphics THEN destroyed ELSE Transfer
             early == {v \in callbacks[q] : submits[q].maxTimelineValue <= v}
  <2>1. /\ \A p \in Queues : pending[p] = <<>>
        /\ called' = [called EXCEPT ![Semaphore(q)] = @ \cup (callbacks[q] \ early)]
        /\ callbacks' = [callbacks EXCEPT ![q] = early]
        /\ UNCHANGED <<timeline, counter, finished, collect>>
    BY <1>6 DEF Collect, deviceVars
  <2>2. q \in Queues /\ early \subseteq callbacks[q] /\ Semaphore(q) \in Semaphores
    BY QueueFacts
  <2> HIDE DEF q, early
  <2>3. \A r \in Queues : callbacks'[r] \subseteq Values(Semaphore(r))
    BY <2>1, <2>2 DEF Collects, TypeOK
  <2>4. \A s \in Semaphores : \A v \in Values(s) : IsFinished(s, v)
    <3>1. \A s, v : ~ Pends(s, v)
      BY <2>1, ElementFacts DEF Pends, TypeOK
    <3>2. QED
      BY <3>1 DEF Device, NoGap
  <2>5. ASSUME "graphics" \in InOrder, NEW s \in Semaphores, NEW v \in called'[s]
        PROVE  IsFinished(s, v)
    <3>1. CASE v \in called[s]
      BY <2>5, <3>1 DEF Collects, CallbacksAfterExecution
    <3>2. CASE s = Semaphore(q) /\ v \in callbacks[q]
      BY <2>2, <2>4, <3>2 DEF Collects
    <3>3. QED
      BY <2>1, <2>5, <3>1, <3>2 DEF TypeOK
  <2>6. QED
    BY <2>1, <2>3, <2>5 DEF Collects, Values, CallbacksAfterExecution, IsFinished
<1>7. ASSUME NEW q \in Queues, FinishBatch(q) PROVE Collects'
  <2> DEFINE s == Semaphore(q)
             batch == pending[q][1]
  <2>1. /\ UNCHANGED <<hostVars, countVars, called, collect, destroyed>>
        /\ finished' = finished \cup {batch}
    BY <1>7, FinishFacts
  <2>2. /\ counter'[s] = batch.value /\ batch.value \in Values(s)
        /\ \A t \in Semaphores : t # s => counter'[t] = counter[t]
        /\ s \in InOrder => batch.value = counter[s] + 1
    BY <1>7, FinishFacts
  <2> HIDE DEF s, batch
  <2>3. "graphics" \in InOrder => counter["graphics"] <= counter'["graphics"]
                                  /\ counter'["graphics"] \in Nat
    BY <1>1, <2>2
  <2>4. /\ \A r \in Queues : callbacks'[r] \subseteq Values(Semaphore(r))'
        /\ \A g \in 1 .. MaxFrames : collect'[g].kept \subseteq Values("graphics")'
    BY <2>1 DEF hostVars, Collects, Values
  <2>5. "graphics" \in InOrder =>
          \A g \in 1 .. MaxFrames : collect'[g].value <= counter'["graphics"]
    BY <1>1, <2>1, <2>3 DEF Collects, Task
  <2>6. "graphics" \in InOrder => CallbacksAfterExecution'
    BY <2>1 DEF Collects, CallbacksAfterExecution, IsFinished
  <2>7. QED
    BY <2>4, <2>5, <2>6 DEF Collects
<1>8. ASSUME UNCHANGED <<timeline, callbacks, counter, finished, called, collect>> PROVE Collects'
  BY <1>8 DEF Collects, Values, CallbacksAfterExecution, IsFinished
<1>9. CASE BeginFrame \/ ResetQueue
  BY <1>8, <1>9 DEF BeginFrame, ResetQueue, deviceVars
<1>10. CASE UNCHANGED vars
  BY <1>8, <1>10 DEF vars, hostVars, deviceVars
<1>11. QED
  BY <1>2, <1>3, <1>4, <1>5, <1>6, <1>7, <1>9, <1>10 DEF Next, Collecting

LEMMA Inductive == Spec => []IInv
<1>1. Init => IInv
  BY InitIInv
<1>2. IInv /\ [Next]_vars => IInv'
  BY TypeStep, DeviceStep, HostStep, CollectsStep, UploadsStep DEF IInv
<1>3. QED
  BY <1>1, <1>2, PTL DEF Spec

------------------------------------------------------------------------------
\* Every variable keeps its type: in particular Draw always has a queue that
\* exists, however the head of the container wraps around.
THEOREM TypeCorrect == Spec => []TypeOK
  BY Inductive, PTL DEF IInv

\* However many queues, frames and uploads there are, SwapAndResetPool never
\* takes back the memory of a command buffer that the device has yet to execute.
THEOREM PoolsSafe == Spec => []PoolsHoldPending
<1>1. IInv => PoolsHoldPending
  <2> SUFFICES ASSUME IInv, NEW q \in Queues, NEW i \in DOMAIN pending[q]
               PROVE  pending[q][i].value \in pools[q][1] \cup pools[q][2]
    BY DEF PoolsHoldPending
  <2>1. i \in 1 .. Len(pending[q])
    BY LenProperties DEF IInv, TypeOK
  <2>2. QED
    BY <2>1 DEF IInv, Device, Placed, PoolIsFences
<1>2. QED
  BY <1>1, Inductive, PTL

\* An image's upload is finished before a frame that shows it, with any number
\* of queues: the transition may read the transfer context's value late, but
\* never too early.
THEOREM UploadsSafe == Spec => []UploadsBeforeUse
  BY Inductive, PTL DEF IInv, Uploads

\* The values of the transfer semaphore are signalled in order, each once, and
\* those of the graphics semaphore with one graphics queue, or with several and
\* no images to transition.
THEOREM SignalsInOrder == Spec => []CounterTellsWhatFinished
<1>1. IInv => CounterTellsWhatFinished
  <2> SUFFICES ASSUME IInv, NEW s \in InOrder
               PROVE  {b.value : b \in Done(s)} = 1 .. counter[s]
    BY DEF CounterTellsWhatFinished
  <2>1. /\ counter[s] <= timeline[s] /\ counter[s] \in Nat /\ timeline[s] \in Nat
        /\ \A v \in Values(s) : IsFinished(s, v) <=> v <= counter[s]
    BY QueueFacts DEF IInv, Device, Counting, TypeOK
  <2>2. ASSUME NEW b \in Done(s) PROVE b.value \in 1 .. counter[s]
    <3>1. b.value \in Values(s) /\ IsFinished(s, b.value)
      BY DEF Done, IInv, Device, Past, IsFinished
    <3>2. QED
      BY <3>1, <2>1 DEF Values
  <2>3. ASSUME NEW v \in 1 .. counter[s] PROVE \E b \in Done(s) : b.value = v
    <3>1. v \in Values(s) /\ v <= counter[s]
      BY <2>1 DEF Values
    <3>2. QED
      BY <3>1, <2>1 DEF IsFinished, Done
  <2>4. QED
    BY <2>2, <2>3
<1>2. QED
  BY <1>1, Inductive, PTL

\* With one graphics queue, or with several and no images, a callback is called
\* only when its batch is finished,
\* by whichever task and with however old a value of the semaphore.
THEOREM CallbacksSafe ==
  ASSUME QueueCount = 1 \/ MaxImages = 0
  PROVE  Spec => []CallbacksAfterExecution
<1>1. IInv => CallbacksAfterExecution
  BY DEF InOrder, Semaphores, IInv, Collects
<1>2. QED
  BY <1>1, Inductive, PTL

------------------------------------------------------------------------------
\* Where each callback is.  Kept says that no other task, queue or call has a
\* callback some task keeps, Queued the same of those in a queue.
Kept ==
  \A f \in 1 .. MaxFrames : \A v \in collect[f].kept :
    /\ v \notin called["graphics"]
    /\ \A q \in Graphics : v \notin callbacks[q]
    /\ \A g \in 1 .. MaxFrames : v \in collect[g].kept => g = f

Queued ==
  \A q \in Queues : \A v \in callbacks[q] :
    /\ v \notin called[Semaphore(q)]
    /\ \A r \in Queues : (Semaphore(r) = Semaphore(q) /\ v \in callbacks[r]) => r = q

Called == \A s \in Semaphores : called[s] \subseteq Values(s)

IsSomewhere(s, v) ==
  \/ v \in called[s]
  \/ \E q \in Queues : Semaphore(q) = s /\ v \in callbacks[q]
  \/ s = "graphics" /\ \E f \in 1 .. MaxFrames : v \in collect[f].kept

NoneLost == \A s \in Semaphores : \A v \in Values(s) : IsSomewhere(s, v)

\* A task has nothing but while it drains, and the next frame's has not begun.
TasksToCome ==
  \A f \in 1 .. MaxFrames :
    /\ collect[f].at # "draining" => collect[f].kept = {}
    /\ f > frames \/ (f = frames /\ draw.at # "idle") => collect[f].at = "none"

Whereabouts == Kept /\ Queued /\ Called /\ NoneLost /\ TasksToCome

LEMMA InitWhereabouts == Init => Whereabouts
<1> SUFFICES ASSUME Init PROVE Whereabouts
  OBVIOUS
<1>1. /\ timeline["graphics"] = 2 /\ timeline["transfer"] = 0
      /\ \A q \in Queues : callbacks[q] = IF q = 0 THEN {1, 2} ELSE {}
      /\ \A s \in Semaphores : called[s] = {}
      /\ \A f \in 1 .. MaxFrames : collect[f] = NoTask
  BY DEF Init
<1>2. NoTask.kept = {} /\ NoTask.at = "none"
  BY DEF NoTask
<1>3. Kept /\ Called /\ TasksToCome
  BY <1>1, <1>2 DEF Kept, Called, TasksToCome
<1>4. Queued
  BY <1>1, QueueFacts DEF Queued
<1>5. ASSUME NEW s \in Semaphores, NEW v \in Values(s) PROVE IsSomewhere(s, v)
  <2>1. s = "graphics" /\ v \in {1, 2}
    BY <1>1 DEF Values, Semaphores
  <2> QED
    BY <1>1, <2>1, QueueFacts DEF IsSomewhere
<1> QED
  BY <1>3, <1>4, <1>5 DEF Whereabouts, NoneLost

\* A submit adds the context's next value to one queue, so it is nowhere yet.
LEMMA SubmitKeepsWhereabouts ==
  ASSUME TypeOK, Collects, Kept, Queued, Called, NoneLost,
         NEW q \in Queues, NEW waits \in SUBSET (Semaphores \X Nat), NEW image \in Nat,
         Submit(q, waits, image), UNCHANGED called,
         \A f \in 1 .. MaxFrames : collect'[f].kept = collect[f].kept
  PROVE  Kept' /\ Queued' /\ Called' /\ NoneLost'
<1> DEFINE sq == Semaphore(q)
           value == timeline[sq] + 1
<1>1. /\ value \in Nat /\ timeline'[sq] = value
      /\ \A s \in Semaphores : s # sq => timeline'[s] = timeline[s]
      /\ sq \in Semaphores /\ timeline[sq] \in Nat
  BY SubmitFacts, QueueFacts DEF TypeOK
<1>2. callbacks'[q] = callbacks[q] \cup {value}
  BY SubmitFacts
<1>3. \A r \in Queues : r # q => callbacks'[r] = callbacks[r]
  BY SubmitFacts
<1>4. /\ \A s \in Semaphores : Values(s) \subseteq Values(s)'
      /\ \A s \in Semaphores : s # sq => Values(s)' = Values(s)
      /\ Values(sq)' = Values(sq) \cup {value} /\ value \notin Values(sq)
  BY <1>1 DEF Values
<1> HIDE DEF value
<1>5. /\ \A r \in Queues : Semaphore(r) = sq => value \notin callbacks[r]
      /\ value \notin called[sq]
      /\ sq = "graphics" => \A f \in 1 .. MaxFrames : value \notin collect[f].kept
  BY <1>1, <1>4 DEF Collects, Called
<1> HIDE DEF sq
<1>6. Kept'
  <2>1. ASSUME NEW f \in 1 .. MaxFrames, NEW v \in collect[f].kept, NEW r \in Graphics
        PROVE  v \notin callbacks'[r]
    <3>1. r \in Queues /\ Semaphore(r) = "graphics"
      BY QueueFacts
    <3>2. CASE r = q
      BY <1>2, <1>5, <2>1, <3>1, <3>2 DEF Kept, sq
    <3>3. CASE r # q
      BY <1>3, <2>1, <3>1, <3>3 DEF Kept
    <3> QED
      BY <3>2, <3>3
  <2> QED
    BY <2>1 DEF Kept
<1>7. Queued'
  <2> SUFFICES ASSUME NEW r \in Queues, NEW v \in callbacks'[r]
               PROVE  /\ v \notin called[Semaphore(r)]
                      /\ \A p \in Queues : (Semaphore(p) = Semaphore(r) /\ v \in callbacks'[p]) => p = r
    BY DEF Queued
  <2>1. CASE v \in callbacks[r]
    <3>1. Semaphore(r) = sq => v # value
      BY <1>5, <2>1
    <3>2. \A p \in Queues : (Semaphore(p) = Semaphore(r) /\ v \in callbacks'[p]) => v \in callbacks[p]
      BY <1>2, <1>3, <3>1 DEF sq
    <3> QED
      BY <2>1, <3>2 DEF Queued
  <2>2. CASE v \notin callbacks[r]
    <3>1. r = q /\ v = value
      BY <1>2, <1>3, <2>2
    <3> QED
      BY <1>3, <1>5, <3>1 DEF sq
  <2> QED
    BY <2>1, <2>2
<1>8. Called'
  BY <1>4 DEF Called
<1>9. NoneLost'
  <2> SUFFICES ASSUME NEW s \in Semaphores, NEW v \in Values(s)' PROVE IsSomewhere(s, v)'
    BY DEF NoneLost
  <2>1. CASE v \in Values(s)
    <3>1. IsSomewhere(s, v)
      BY <2>1 DEF NoneLost
    <3>2. \A r \in Queues : callbacks[r] \subseteq callbacks'[r]
      BY <1>2, <1>3
    <3> QED
      BY <3>1, <3>2 DEF IsSomewhere
  <2>2. CASE v \notin Values(s)
    <3>1. s = sq /\ v = value
      BY <1>4, <2>2
    <3> QED
      BY <1>2, <3>1 DEF IsSomewhere, sq
  <2> QED
    BY <2>1, <2>2
<1> QED
  BY <1>6, <1>7, <1>8, <1>9

LEMMA UntouchedWhereabouts ==
  ASSUME Kept, Queued, Called, NoneLost, UNCHANGED <<timeline, callbacks, called>>,
         \A f \in 1 .. MaxFrames : collect'[f].kept = collect[f].kept
  PROVE  Kept' /\ Queued' /\ Called' /\ NoneLost'
<1>1. \A s : Values(s)' = Values(s)
  BY DEF Values
<1>2. Kept' /\ Queued' /\ Called'
  BY <1>1 DEF Kept, Queued, Called
<1>3. \A s, v : IsSomewhere(s, v) => IsSomewhere(s, v)'
  BY DEF IsSomewhere
<1> QED
  BY <1>1, <1>2, <1>3 DEF NoneLost

\* A drained callback is kept by the task or called.
LEMMA DrainKeepsWhereabouts ==
  ASSUME TypeOK, Collects, Kept, Queued, Called, NoneLost,
         NEW f \in 1 .. MaxFrames, DrainOne(f)
  PROVE  Kept' /\ Queued' /\ Called' /\ NoneLost'
<1> DEFINE q == collect[f].queue
<1>1. PICK v \in callbacks[q] :
        /\ callbacks' = [callbacks EXCEPT ![q] = @ \ {v}]
        /\ \/ /\ collect' = [collect EXCEPT ![f].kept = @ \cup {v}]
              /\ UNCHANGED called
           \/ /\ called' = [called EXCEPT !["graphics"] = @ \cup {v}]
              /\ UNCHANGED collect
  BY DEF DrainOne
<1>2. UNCHANGED timeline
  BY DEF DrainOne
<1>3. /\ q \in Graphics /\ q \in Queues /\ Semaphore(q) = "graphics" /\ "graphics" \in Semaphores
      /\ \A r \in Graphics : r \in Queues /\ Semaphore(r) = "graphics"
      /\ \A r \in Queues : Semaphore(r) \in Semaphores
  BY QueueFacts DEF TypeOK, Task, Semaphores
<1> HIDE DEF q
<1>4. /\ \A r \in Queues : callbacks'[r] = IF r = q THEN callbacks[q] \ {v} ELSE callbacks[r]
      /\ v \in Values("graphics")
      /\ \A s : Values(s)' = Values(s)
  BY <1>1, <1>2, <1>3 DEF TypeOK, Collects, Values
<1>5. /\ v \notin called["graphics"]
      /\ \A r \in Graphics : v \notin callbacks'[r]
      /\ \A g \in 1 .. MaxFrames : v \notin collect[g].kept
  BY <1>3, <1>4 DEF Queued, Kept
<1>6. CASE collect' = [collect EXCEPT ![f].kept = @ \cup {v}] /\ UNCHANGED called
  <2>1. \A g \in 1 .. MaxFrames :
          collect'[g].kept = IF g = f THEN collect[f].kept \cup {v} ELSE collect[g].kept
    BY <1>6 DEF TypeOK, Task
  <2>2. Kept'
    <3> SUFFICES ASSUME NEW g \in 1 .. MaxFrames, NEW u \in collect'[g].kept
                 PROVE  /\ u \notin called["graphics"]
                        /\ \A r \in Graphics : u \notin callbacks'[r]
                        /\ \A h \in 1 .. MaxFrames : u \in collect'[h].kept => h = g
      BY <1>6 DEF Kept
    <3>1. CASE u = v
      BY <1>5, <2>1, <3>1
    <3>2. CASE u # v
      <4>1. u \in collect[g].kept
        BY <2>1, <3>2
      <4>2. \A h \in 1 .. MaxFrames : u \in collect'[h].kept => u \in collect[h].kept
        BY <2>1, <3>2
      <4>3. \A r \in Graphics : callbacks'[r] \subseteq callbacks[r]
        BY <1>3, <1>4
      <4> QED
        BY <4>1, <4>2, <4>3 DEF Kept
    <3> QED
      BY <3>1, <3>2
  <2>3. Queued'
    BY <1>3, <1>4, <1>6 DEF Queued
  <2>4. Called'
    BY <1>4, <1>6 DEF Called
  <2>5. ASSUME NEW s \in Semaphores, NEW u \in Values(s) PROVE IsSomewhere(s, u)'
    <3>1. CASE s = "graphics" /\ u = v
      BY <2>1, <3>1 DEF IsSomewhere
    <3>2. CASE ~(s = "graphics" /\ u = v)
      <4>1. IsSomewhere(s, u)
        BY DEF NoneLost
      <4>2. \A r \in Queues : Semaphore(r) = s /\ u \in callbacks[r] => u \in callbacks'[r]
        BY <1>3, <1>4, <3>2
      <4>3. \A g \in 1 .. MaxFrames : collect[g].kept \subseteq collect'[g].kept
        BY <2>1
      <4> QED
        BY <1>6, <4>1, <4>2, <4>3 DEF IsSomewhere
    <3> QED
      BY <3>1, <3>2
  <2> QED
    BY <1>4, <2>2, <2>3, <2>4, <2>5 DEF NoneLost
<1>7. CASE called' = [called EXCEPT !["graphics"] = @ \cup {v}] /\ UNCHANGED collect
  <2>1. \A s \in Semaphores :
          called'[s] = IF s = "graphics" THEN called[s] \cup {v} ELSE called[s]
    BY <1>7 DEF TypeOK
  <2>2. Kept'
    BY <1>3, <1>4, <1>5, <1>7, <2>1 DEF Kept
  <2>3. Queued'
    <3> SUFFICES ASSUME NEW r \in Queues, NEW u \in callbacks'[r]
                 PROVE  /\ u \notin called'[Semaphore(r)]
                        /\ \A p \in Queues :
                             (Semaphore(p) = Semaphore(r) /\ u \in callbacks'[p]) => p = r
      BY DEF Queued
    <3>1. u \in callbacks[r] /\ \A p \in Queues : callbacks'[p] \subseteq callbacks[p]
      BY <1>4
    <3>2. Semaphore(r) = "graphics" => u # v
      BY <1>5, QueueFacts
    <3>3. u \notin called[Semaphore(r)]
      BY <3>1 DEF Queued
    <3>4. u \notin called'[Semaphore(r)]
      BY <1>3, <2>1, <3>2, <3>3
    <3> QED
      BY <3>1, <3>4 DEF Queued
  <2>4. Called'
    BY <1>4, <2>1 DEF Called
  <2>5. ASSUME NEW s \in Semaphores, NEW u \in Values(s) PROVE IsSomewhere(s, u)'
    <3>1. CASE s = "graphics" /\ u = v
      BY <2>1, <3>1 DEF IsSomewhere
    <3>2. CASE ~(s = "graphics" /\ u = v)
      <4>1. IsSomewhere(s, u)
        BY DEF NoneLost
      <4>2. \A r \in Queues : Semaphore(r) = s /\ u \in callbacks[r] => u \in callbacks'[r]
        BY <1>3, <1>4, <3>2
      <4> QED
        BY <1>7, <2>1, <4>1, <4>2 DEF IsSomewhere
    <3> QED
      BY <3>1, <3>2
  <2> QED
    BY <1>4, <2>2, <2>3, <2>4, <2>5 DEF NoneLost
<1> QED
  BY <1>1, <1>6, <1>7

\* The early ones go back to a queue that is empty.
LEMMA PutBackKeepsWhereabouts ==
  ASSUME TypeOK, Kept, Queued, Called, NoneLost, NEW f \in 1 .. MaxFrames, PutBack(f)
  PROVE  Kept' /\ Queued' /\ Called' /\ NoneLost'
<1> DEFINE q == collect[f].queue
<1>1. /\ callbacks[q] = {} /\ UNCHANGED <<timeline, called>>
      /\ callbacks' = [callbacks EXCEPT ![q] = collect[f].kept]
      /\ collect' = [collect EXCEPT ![f] = [NoTask EXCEPT !.at = "done"]]
  BY DEF PutBack
<1>2. /\ q \in Queues /\ Semaphore(q) = "graphics" /\ "graphics" \in Semaphores
      /\ \A r \in Graphics : r \in Queues /\ Semaphore(r) = "graphics"
      /\ \A r \in Queues : Semaphore(r) = "graphics" => r \in Graphics
  BY QueueFacts DEF TypeOK, Task, Semaphores
<1> HIDE DEF q
<1>3. /\ \A r \in Queues : callbacks'[r] = IF r = q THEN collect[f].kept ELSE callbacks[r]
      /\ \A g \in 1 .. MaxFrames : collect'[g].kept = IF g = f THEN {} ELSE collect[g].kept
      /\ \A s : Values(s)' = Values(s)
  BY <1>1, <1>2 DEF TypeOK, NoTask, Values
<1>4. Kept'
  <2> SUFFICES ASSUME NEW g \in 1 .. MaxFrames, NEW v \in collect'[g].kept
               PROVE  /\ v \notin called["graphics"]
                      /\ \A r \in Graphics : v \notin callbacks'[r]
                      /\ \A h \in 1 .. MaxFrames : v \in collect'[h].kept => h = g
    BY <1>1 DEF Kept
  <2>1. g # f /\ v \in collect[g].kept /\ v \notin collect[f].kept
    BY <1>3 DEF Kept
  <2> QED
    BY <1>2, <1>3, <2>1 DEF Kept
<1>5. Queued'
  <2> SUFFICES ASSUME NEW r \in Queues, NEW v \in callbacks'[r]
               PROVE  /\ v \notin called[Semaphore(r)]
                      /\ \A p \in Queues : (Semaphore(p) = Semaphore(r) /\ v \in callbacks'[p]) => p = r
    BY <1>1 DEF Queued
  <2>1. CASE r = q
    BY <1>2, <1>3, <2>1 DEF Kept
  <2>2. CASE r # q
    <3>1. v \in callbacks[r]
      BY <1>3, <2>2
    <3>2. ASSUME NEW p \in Queues, Semaphore(p) = Semaphore(r), v \in callbacks'[p] PROVE p = r
      <4>1. CASE p = q
        BY <1>2, <1>3, <3>1, <3>2, <4>1 DEF Kept
      <4>2. CASE p # q
        BY <1>3, <3>1, <3>2, <4>2 DEF Queued
      <4> QED
        BY <4>1, <4>2
    <3> QED
      BY <3>1, <3>2 DEF Queued
  <2> QED
    BY <2>1, <2>2
<1>6. Called'
  BY <1>1, <1>3 DEF Called
<1>7. ASSUME NEW s \in Semaphores, NEW v \in Values(s) PROVE IsSomewhere(s, v)'
  <2>1. IsSomewhere(s, v)
    BY DEF NoneLost
  <2>2. CASE v \in called[s]
    BY <1>1, <2>2 DEF IsSomewhere
  <2>3. CASE \E r \in Queues : Semaphore(r) = s /\ v \in callbacks[r]
    BY <1>1, <1>3, <2>3 DEF IsSomewhere
  <2>4. ASSUME s = "graphics", NEW g \in 1 .. MaxFrames, v \in collect[g].kept
        PROVE  IsSomewhere(s, v)'
    BY <1>2, <1>3, <2>4 DEF IsSomewhere
  <2> QED
    BY <2>1, <2>2, <2>3, <2>4 DEF IsSomewhere
<1> QED
  BY <1>3, <1>4, <1>5, <1>6, <1>7 DEF NoneLost

\* The destructor calls those of one queue that are not early.
LEMMA CollectKeepsWhereabouts ==
  ASSUME TypeOK, Collects, Kept, Queued, Called, NoneLost, Collect
  PROVE  Kept' /\ Queued' /\ Called' /\ NoneLost'
<1> DEFINE q == IF destroyed \in Graphics THEN destroyed ELSE Transfer
           early == {v \in callbacks[q] : submits[q].maxTimelineValue <= v}
<1>1. /\ called' = [called EXCEPT ![Semaphore(q)] = @ \cup (callbacks[q] \ early)]
      /\ callbacks' = [callbacks EXCEPT ![q] = early]
      /\ UNCHANGED <<timeline, collect>>
  BY DEF Collect
<1>2. /\ q \in Queues /\ early \subseteq callbacks[q] /\ "graphics" \in Semaphores
      /\ \A r \in Graphics : r \in Queues /\ Semaphore(r) = "graphics"
      /\ \A r \in Queues : Semaphore(r) \in Semaphores
      /\ \A r \in Queues : Semaphore(r) = "graphics" => r \in Graphics
  BY QueueFacts DEF Semaphores
<1> HIDE DEF q, early
<1>3. /\ \A r \in Queues : callbacks'[r] = IF r = q THEN early ELSE callbacks[r]
      /\ \A s \in Semaphores :
           called'[s] = IF s = Semaphore(q) THEN called[s] \cup (callbacks[q] \ early) ELSE called[s]
      /\ \A s : Values(s)' = Values(s)
  BY <1>1, <1>2 DEF TypeOK, Values
<1>4. Kept'
  <2> SUFFICES ASSUME NEW f \in 1 .. MaxFrames, NEW v \in collect[f].kept
               PROVE  /\ v \notin called'["graphics"]
                      /\ \A r \in Graphics : v \notin callbacks'[r]
    BY <1>1 DEF Kept
  <2>1. v \notin called["graphics"] /\ \A r \in Graphics : v \notin callbacks[r]
    BY Zenon DEF Kept
  <2>2. Semaphore(q) = "graphics" => v \notin callbacks[q]
    BY <1>2, <2>1
  <2>3. called'["graphics"] \subseteq
          IF Semaphore(q) = "graphics" THEN called["graphics"] \cup callbacks[q] ELSE called["graphics"]
    BY <1>2, <1>3
  <2>4. ASSUME NEW r \in Graphics PROVE callbacks'[r] \subseteq callbacks[r]
    BY <1>2, <1>3
  <2> QED
    BY <2>1, <2>2, <2>3, <2>4
<1>5. Queued'
  <2> SUFFICES ASSUME NEW r \in Queues, NEW v \in callbacks'[r]
               PROVE  /\ v \notin called'[Semaphore(r)]
                      /\ \A p \in Queues : (Semaphore(p) = Semaphore(r) /\ v \in callbacks'[p]) => p = r
    BY DEF Queued
  <2>1. v \in callbacks[r] /\ \A p \in Queues : callbacks'[p] \subseteq callbacks[p]
    BY <1>2, <1>3
  <2>2. Semaphore(r) = Semaphore(q) => v \notin callbacks[q] \ early
    BY <1>2, <1>3, <2>1 DEF Queued
  <2> QED
    BY <1>2, <1>3, <2>1, <2>2 DEF Queued
<1>6. Called'
  BY <1>2, <1>3 DEF Called, Collects
<1>7. ASSUME NEW s \in Semaphores, NEW v \in Values(s) PROVE IsSomewhere(s, v)'
  <2>1. IsSomewhere(s, v)
    BY DEF NoneLost
  <2>2. CASE v \in called[s]
    BY <1>3, <2>2 DEF IsSomewhere
  <2>3. ASSUME NEW r \in Queues, Semaphore(r) = s, v \in callbacks[r] PROVE IsSomewhere(s, v)'
    <3>1. v \in callbacks'[r] \/ v \in called'[s]
      BY <1>2, <1>3, <2>3
    <3> QED
      BY <2>3, <3>1 DEF IsSomewhere
  <2>4. CASE s = "graphics" /\ \E f \in 1 .. MaxFrames : v \in collect[f].kept
    BY <1>1, <2>4 DEF IsSomewhere
  <2> QED
    BY <2>1, <2>2, <2>3, <2>4 DEF IsSomewhere
<1> QED
  BY <1>3, <1>4, <1>5, <1>6, <1>7 DEF NoneLost

\* A frame's task is queued once, by the frame's submit.
LEMMA TasksToComeStep ==
  ASSUME TypeOK, TasksToCome, [Next]_vars
  PROVE  TasksToCome'
<1>1. collect \in [1 .. MaxFrames -> Task] /\ frames \in Nat /\ frames' \in Int
  <2>1. frames' \in {frames, frames + 1}
    BY DEF Next, vars, countVars, BeginFrame, ResetQueue, CallDrawCall, SubmitFrame, Resize,
           LoadImage, LoadModel, Collecting, ReadValue, DrainOne, PutBack, Collect, FinishBatch
  <2> QED
    BY <2>1 DEF TypeOK
<1>2. CASE BeginFrame
  <2>1. draw.at = "idle" /\ draw'.at # "idle" /\ frames' = frames + 1 /\ UNCHANGED collect
    BY <1>2 DEF BeginFrame
  <2> QED
    BY <1>1, <2>1 DEF TasksToCome
<1>3. CASE SubmitFrame
  <2>1. /\ draw.at # "idle" /\ draw'.at = "idle" /\ UNCHANGED frames
        /\ collect' = [collect EXCEPT ![frames] = [NoTask EXCEPT !.at = "queued", !.queue = head]]
    BY <1>3 DEF SubmitFrame, countVars
  <2>2. \A f \in 1 .. MaxFrames :
          \/ f = frames /\ collect'[f].kept = {}
          \/ f # frames /\ collect'[f] = collect[f]
    BY <1>1, <2>1 DEF NoTask
  <2> QED
    BY <1>1, <2>1, <2>2 DEF TasksToCome
<1>4. ASSUME NEW f \in 1 .. MaxFrames, Collecting(f) PROVE TasksToCome'
  <2>1. /\ UNCHANGED <<frames, draw>> /\ collect[f].at \in {"queued", "draining"}
        /\ \A g \in 1 .. MaxFrames : g # f => collect'[g] = collect[g]
    BY <1>1, <1>4 DEF Collecting, ReadValue, DrainOne, PutBack, countVars, hostVars
  <2>2. collect'[f].at = "draining" \/ collect'[f].kept = {}
    <3>1. CASE ReadValue(f)
      BY <1>1, <3>1 DEF ReadValue, Task
    <3>2. CASE DrainOne(f)
      <4>1. /\ collect[f].at = "draining"
            /\ \/ \E v : collect' = [collect EXCEPT ![f].kept = @ \cup {v}]
               \/ UNCHANGED collect
        BY <3>2 DEF DrainOne
      <4> QED
        BY <1>1, <4>1 DEF Task
    <3>3. CASE PutBack(f)
      BY <1>1, <3>3 DEF PutBack, NoTask
    <3> QED
      BY <1>4, <3>1, <3>2, <3>3 DEF Collecting
  <2> QED
    BY <1>1, <2>1, <2>2 DEF TasksToCome
<1>5. CASE UNCHANGED <<frames, collect>> /\ ((draw.at = "idle") = (draw'.at = "idle"))
  BY <1>5 DEF TasksToCome
<1>6. CASE ResetQueue
  BY <1>5, <1>6 DEF ResetQueue, countVars, TypeOK
<1>7. CASE CallDrawCall \/ Resize \/ LoadImage \/ LoadModel \/ Collect
  BY <1>5, <1>7 DEF CallDrawCall, Resize, LoadImage, LoadModel, Collect, countVars
<1>8. CASE (\E q \in Queues : FinishBatch(q)) \/ UNCHANGED vars
  BY <1>5, <1>8 DEF FinishBatch, vars, hostVars, countVars
<1> QED
  BY <1>2, <1>3, <1>4, <1>6, <1>7, <1>8 DEF Next

LEMMA WhereaboutsStep ==
  ASSUME IInv, Whereabouts, [Next]_vars
  PROVE  Whereabouts'
<1> USE DEF IInv, Whereabouts
<1>1. TasksToCome'
  BY TasksToComeStep
<1> SUFFICES Kept' /\ Queued' /\ Called' /\ NoneLost'
  BY <1>1
<1>2. CASE CallDrawCall \/ SubmitFrame \/ Resize \/ LoadImage \/ LoadModel
  <2>1. UNCHANGED called
    BY <1>2 DEF CallDrawCall, SubmitFrame, Resize, LoadImage, LoadModel
  <2>2. \A f \in 1 .. MaxFrames : collect'[f].kept = collect[f].kept
    <3>1. CASE UNCHANGED collect
      BY <3>1
    <3>2. CASE SubmitFrame
      <4>1. /\ draw.at # "idle"
            /\ collect' = [collect EXCEPT ![frames] = [NoTask EXCEPT !.at = "queued", !.queue = head]]
        BY <3>2 DEF SubmitFrame
      <4>2. frames \in 1 .. MaxFrames => collect[frames].kept = {}
        BY <4>1 DEF TasksToCome
      <4> QED
        BY <4>1, <4>2 DEF TypeOK, NoTask
    <3> QED
      BY <1>2, <3>1, <3>2 DEF CallDrawCall, Resize, LoadImage, LoadModel
  <2> QED
    BY <1>2, <2>1, <2>2, Submitters, SubmitKeepsWhereabouts
<1>3. CASE BeginFrame \/ ResetQueue \/ UNCHANGED vars \/ \E q \in Queues : FinishBatch(q)
  BY <1>3, UntouchedWhereabouts DEF BeginFrame, ResetQueue, FinishBatch, vars, hostVars
<1>4. ASSUME NEW f \in 1 .. MaxFrames, ReadValue(f) PROVE Kept' /\ Queued' /\ Called' /\ NoneLost'
  <2>1. /\ UNCHANGED <<timeline, callbacks, called>>
        /\ \A g \in 1 .. MaxFrames : collect'[g].kept = collect[g].kept
    BY <1>4 DEF ReadValue, hostVars, TypeOK, Task
  <2> QED
    BY <2>1, UntouchedWhereabouts
<1>5. CASE \E f \in 1 .. MaxFrames : DrainOne(f)
  BY <1>5, DrainKeepsWhereabouts
<1>6. CASE \E f \in 1 .. MaxFrames : PutBack(f)
  BY <1>6, PutBackKeepsWhereabouts
<1>7. CASE Collect
  BY <1>7, CollectKeepsWhereabouts
<1> QED
  BY <1>2, <1>3, <1>4, <1>5, <1>6, <1>7 DEF Next, Collecting

\* As many pairs as there are second components, where each is in one pair.
LEMMA SecondOfPairs ==
  ASSUME NEW A, NEW V, IsFiniteSet(A), IsFiniteSet(V), NEW S \in SUBSET (A \X V),
         \A x, y \in S : x[2] = y[2] => x = y
  PROVE  Cardinality(S) = Cardinality({v \in V : \E x \in S : x[2] = v})
<1> DEFINE T == {v \in V : \E x \in S : x[2] = v}
           second == [x \in S |-> x[2]]
<1>1. IsFiniteSet(S)
  BY FS_Product, FS_Subset
<1>2. second \in [S -> T] /\ (\A t \in T : \E x \in S : second[x] = t)
  OBVIOUS
<1>3. \A x, y \in S : second[x] = second[y] => x = y
  OBVIOUS
<1> HIDE DEF second
<1>4. second \in Bijection(S, T)
  BY <1>2, <1>3 DEF Bijection, Injection, Surjection, IsInjective
<1> QED
  BY <1>1, <1>4, FS_Bijection DEF ExistsBijection

\* Three sets that share nothing and make up a finite one.
LEMMA ThreeParts ==
  ASSUME NEW V, IsFiniteSet(V), NEW A, NEW B, NEW C, A \cup B \cup C = V,
         A \cap B = {}, A \cap C = {}, B \cap C = {}
  PROVE  Cardinality(A) + Cardinality(B) + Cardinality(C) = Cardinality(V)
<1>1. IsFiniteSet(A) /\ IsFiniteSet(B) /\ IsFiniteSet(C)
  BY FS_Subset
<1>2. Cardinality(A) \in Nat /\ Cardinality(B) \in Nat /\ Cardinality(C) \in Nat
  BY <1>1, FS_CardinalityType
<1>3. IsFiniteSet(A \cup B) /\ Cardinality(A \cup B) = Cardinality(A) + Cardinality(B)
  <2>1. Cardinality(A \cap B) = 0
    BY FS_EmptySet
  <2>2. /\ IsFiniteSet(A \cup B)
        /\ Cardinality(A \cup B) = Cardinality(A) + Cardinality(B) - Cardinality(A \cap B)
    BY <1>1, FS_Union
  <2> QED
    BY <1>2, <2>1, <2>2
<1>4. Cardinality((A \cup B) \cup C) = Cardinality(A \cup B) + Cardinality(C)
  <2>1. (A \cup B) \cap C = {}
    OBVIOUS
  <2>2. Cardinality((A \cup B) \cap C) = 0
    BY <2>1, FS_EmptySet
  <2>3. Cardinality((A \cup B) \cup C)
          = Cardinality(A \cup B) + Cardinality(C) - Cardinality((A \cup B) \cap C)
    BY <1>1, <1>3, FS_Union
  <2> QED
    BY <1>2, <1>3, <2>2, <2>3
<1> QED
  BY <1>2, <1>3, <1>4

\* However many tasks collect from however many queues, a callback is in one
\* queue, kept by one task, or called, and there are as many as values handed out.
THEOREM CallbacksKept == Spec => []EachCallbackInOnePlace
<1>1. IInv /\ Whereabouts => EachCallbackInOnePlace
  <2> SUFFICES ASSUME IInv, Whereabouts, NEW s \in Semaphores
               PROVE  LET kept == {x \in (1 .. MaxFrames) \X Values(s) :
                                     Semaphore(collect[x[1]].queue) = s /\ x[2] \in collect[x[1]].kept}
                          queued == {x \in Queues \X Values(s) :
                                       Semaphore(x[1]) = s /\ x[2] \in callbacks[x[1]]}
                      IN  /\ Cardinality(kept) + Cardinality(queued) + Cardinality(called[s]) = timeline[s]
                          /\ \A v \in Values(s) :
                               \/ v \in called[s]
                               \/ \E x \in kept \cup queued : x[2] = v
    BY DEF EachCallbackInOnePlace
  <2> DEFINE kept == {x \in (1 .. MaxFrames) \X Values(s) :
                        Semaphore(collect[x[1]].queue) = s /\ x[2] \in collect[x[1]].kept}
             queued == {x \in Queues \X Values(s) : Semaphore(x[1]) = s /\ x[2] \in callbacks[x[1]]}
             K == {v \in Values(s) : \E x \in kept : x[2] = v}
             Q == {v \in Values(s) : \E x \in queued : x[2] = v}
  <2> USE DEF IInv, Whereabouts
  <2>1. \A f \in 1 .. MaxFrames : Semaphore(collect[f].queue) = "graphics"
    BY QueueFacts DEF TypeOK, Task
  <2>2. /\ \A v \in K : s = "graphics" /\ \E f \in 1 .. MaxFrames : v \in collect[f].kept
        /\ s = "graphics" =>
             \A f \in 1 .. MaxFrames : \A v \in collect[f].kept : v \in K
    <3>1. ASSUME s = "graphics", NEW f \in 1 .. MaxFrames, NEW v \in collect[f].kept
          PROVE  <<f, v>> \in kept /\ v \in Values(s)
      BY <2>1, <3>1 DEF Collects
    <3>2. ASSUME s = "graphics", NEW f \in 1 .. MaxFrames, NEW v \in collect[f].kept PROVE v \in K
      <4>1. <<f, v>>[2] = v
        OBVIOUS
      <4> HIDE DEF kept
      <4> QED
        BY <3>1, <3>2, <4>1
    <3>3. ASSUME NEW v \in K
          PROVE  s = "graphics" /\ \E f \in 1 .. MaxFrames : v \in collect[f].kept
      BY <2>1
    <3> QED
      BY <3>2, <3>3
  <2>3. /\ \A v \in Q : \E q \in Queues : Semaphore(q) = s /\ v \in callbacks[q]
        /\ \A q \in Queues : Semaphore(q) = s =>
             \A v \in callbacks[q] : v \in Q
    <3>1. ASSUME NEW q \in Queues, Semaphore(q) = s, NEW v \in callbacks[q]
          PROVE  <<q, v>> \in queued /\ v \in Values(s)
      BY <3>1 DEF Collects
    <3>2. ASSUME NEW q \in Queues, Semaphore(q) = s, NEW v \in callbacks[q] PROVE v \in Q
      <4>1. <<q, v>>[2] = v
        OBVIOUS
      <4> HIDE DEF queued
      <4> QED
        BY <3>1, <3>2, <4>1
    <3>3. ASSUME NEW v \in Q
          PROVE  \E q \in Queues : Semaphore(q) = s /\ v \in callbacks[q]
      OBVIOUS
    <3> QED
      BY <3>2, <3>3
  <2>4. \A x, y \in kept : x[2] = y[2] => x = y
    BY DEF Kept
  <2>5. \A x, y \in queued : x[2] = y[2] => x = y
    BY DEF Queued
  <2>6. kept \in SUBSET ((1 .. MaxFrames) \X Values(s)) /\ queued \in SUBSET (Queues \X Values(s))
    OBVIOUS
  <2> HIDE DEF kept, queued
  <2>7. /\ IsFiniteSet(Values(s)) /\ Cardinality(Values(s)) = timeline[s]
        /\ IsFiniteSet(1 .. MaxFrames) /\ IsFiniteSet(Queues)
    <3>1. timeline[s] \in Nat
      BY DEF TypeOK
    <3>2. IsFiniteSet(Graphics) /\ IsFiniteSet({Transfer})
      <4>1. QueueCount - 1 \in Int
        BY QueueFacts
      <4>2. IsFiniteSet(0 .. QueueCount - 1)
        BY <4>1, FS_Interval
      <4> QED
        BY <4>2, FS_Singleton DEF Graphics
    <3>3. IsFiniteSet(Queues)
      BY <3>2, FS_Union DEF Queues
    <3>4. IsFiniteSet(Values(s)) /\ Cardinality(Values(s)) = timeline[s]
      BY <3>1, FS_Interval DEF Values
    <3>5. IsFiniteSet(1 .. MaxFrames)
      BY FS_Interval, BoundsAssumption
    <3> QED
      BY <3>3, <3>4, <3>5
  <2>8. Cardinality(kept) = Cardinality(K) /\ Cardinality(queued) = Cardinality(Q)
    <3> DEFINE tasks == 1 .. MaxFrames
    <3>1. IsFiniteSet(tasks) /\ kept \in SUBSET (tasks \X Values(s))
      BY <2>6, <2>7
    <3> HIDE DEF tasks, IInv, Whereabouts
    <3>2. Cardinality(kept) = Cardinality(K)
      BY <2>4, <2>7, <3>1, SecondOfPairs
    <3>3. Cardinality(queued) = Cardinality(Q)
      BY <2>5, <2>6, <2>7, SecondOfPairs
    <3> QED
      BY <3>2, <3>3
  <2>9. K \cup Q \cup called[s] = Values(s)
    <3>1. ASSUME NEW v \in Values(s) PROVE v \in K \/ v \in Q \/ v \in called[s]
      BY <2>2, <2>3 DEF NoneLost, IsSomewhere
    <3> QED
      BY <3>1 DEF Called
  <2>10. /\ K \cap Q = {} /\ K \cap called[s] = {}
    <3>1. ASSUME NEW v \in K PROVE v \notin Q /\ v \notin called[s]
      BY <2>2, <2>3, QueueFacts DEF Kept
    <3> QED
      BY <3>1
  <2>11. Q \cap called[s] = {}
    BY <2>3 DEF Queued
  <2>12. Cardinality(K) + Cardinality(Q) + Cardinality(called[s]) = timeline[s]
    <3> HIDE DEF K, Q
    <3> QED
      BY <2>7, <2>9, <2>10, <2>11, ThreeParts
  <2>13. \A v \in Values(s) : v \in called[s] \/ \E x \in kept \cup queued : x[2] = v
    BY <2>9
  <2> QED
    BY <2>8, <2>12, <2>13 DEF kept, queued
<1> QED
  BY <1>1, Inductive, InitWhereabouts, WhereaboutsStep, PTL DEF Spec
==============================================================================
