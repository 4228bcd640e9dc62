---------------------------- MODULE OutboundProofs ----------------------------
(***************************************************************************)
(* The outbound queue is correct for any capacity, any number of threads,  *)
(* sender clones and wakers, and implements the abstract channel.          *)
(***************************************************************************)
EXTENDS Outbound, FiniteSetTheorems, SequenceTheorems, TLAPS

\* Sending at the back of the queue appends to what was accepted.
LEMMA AppendAtBack ==
  \A d, q \in Seq(Values) : \A v \in Values : Append(d \o q, v) = d \o Append(q, v)
<1> TAKE d, q \in Seq(Values)
<1> TAKE v \in Values
<1> DEFINE l == Append(d \o q, v)  r == d \o Append(q, v)
<1>1. d \o q \in Seq(Values) /\ Append(q, v) \in Seq(Values)
  BY AppendProperties, ConcatProperties
<1>2. l \in Seq(Values) /\ r \in Seq(Values)
  BY <1>1, AppendProperties, ConcatProperties
<1>3. Len(l) = Len(r)
  BY <1>1, AppendProperties, ConcatProperties
<1>4. \A i \in 1..Len(l) : l[i] = r[i]
  BY <1>1, <1>3, AppendProperties, ConcatProperties, LenProperties
<1>5. l = r
  BY <1>2, <1>3, <1>4, SeqEqual
<1>6. QED
  BY <1>5

\* Taking the front of the queue moves one message from the queue to what was
\* delivered, and it is the oldest one that had not been.
LEMMA TakeFromFront ==
  ASSUME NEW S, NEW d \in Seq(S), NEW q \in Seq(S), q # <<>>
  PROVE  /\ Append(d, Head(q)) \o Tail(q) = d \o q
         /\ (d \o q)[Len(d) + 1] = Head(q)
         /\ Len(d) < Len(d \o q)
<1>1. Head(q) \in S /\ Tail(q) \in Seq(S) /\ Len(q) \in Nat /\ Len(q) >= 1
  BY HeadTailProperties, LenProperties, EmptySeq
<1>2. Append(d, Head(q)) \in Seq(S)
  BY <1>1, AppendProperties
<1> DEFINE l == Append(d, Head(q)) \o Tail(q)  r == d \o q
<1>3. l \in Seq(S) /\ r \in Seq(S)
  BY <1>1, <1>2, ConcatProperties
<1>4. Len(l) = Len(r)
  BY <1>1, <1>2, AppendProperties, ConcatProperties, HeadTailProperties, LenProperties
<1>5. \A i \in 1..Len(l) : l[i] = r[i]
  BY <1>1, <1>2, <1>4, AppendProperties, ConcatProperties, HeadTailProperties, LenProperties
<1>6. l = r
  BY <1>3, <1>4, <1>5, SeqEqual
<1>7. r[Len(d) + 1] = Head(q) /\ Len(d) < Len(r)
  BY <1>1, ConcatProperties, HeadTailProperties, LenProperties
<1>8. QED
  BY <1>6, <1>7

\* The inductive step, one case per action.
LEMMA IInvStep == IInv /\ [Next]_vars => IInv'
<1> SUFFICES ASSUME IInv, [Next]_vars PROVE IInv'
  OBVIOUS
<1> USE OutboundAssumption DEF IInv
<1>0. IsFiniteSet(live) /\ Cardinality(live) \in Nat
  BY FS_Subset, FS_CardinalityType DEF TypeOK
<1>a. \A h \in live : senders # 0
  BY <1>0, FS_EmptySet DEF SendersExact
<1>b. \A v \in Values : Append(delivered \o queue, v) = delivered \o Append(queue, v)
  <2>1. queue \in Seq(Values) /\ delivered \in Seq(Values)
    BY DEF TypeOK
  <2>2. QED
    BY <2>1, AppendAtBack, Zenon
<1>1. ASSUME NEW t \in Threads, NEW h \in Handles, NEW v \in Values, TrySendOk(t, h, v)
      PROVE  IInv'
  <2> USE <1>1 DEF TrySendOk, TakeWaker, HasRoom
  <2>1. /\ queue' \in Seq(Values) /\ Len(queue') = Len(queue) + 1
        /\ accepted' \in Seq(Values)
    BY AppendProperties DEF TypeOK
  <2>2. TypeOK'
    BY <2>1 DEF TypeOK
  <2>3. Fifo'
    BY <1>b DEF Fifo
  <2>4. Bounded'
    BY <2>1, LenProperties DEF Bounded, TypeOK
  <2>5. SendersExact' /\ WakerMeansEmpty'
    BY DEF SendersExact, WakerMeansEmpty
  <2>6. ParkedIsCovered'
    BY DEF ParkedIsCovered, TypeOK, Idle
  <2>7. EofMeansDrained'
    BY <1>a DEF EofMeansDrained
  <2>8. QED
    BY <2>2, <2>3, <2>4, <2>5, <2>6, <2>7
<1>2. ASSUME NEW t \in Threads, NEW h \in Handles, NEW h2 \in Handles, Clone(t, h, h2)
      PROVE  IInv'
  <2> USE <1>2 DEF Clone, inner, history
  <2>1. SendersExact'
    BY <1>0, FS_AddElement DEF SendersExact
  <2>2. TypeOK' /\ WakerMeansEmpty' /\ ParkedIsCovered' /\ Fifo' /\ Bounded'
    BY DEF TypeOK, WakerMeansEmpty, ParkedIsCovered, Fifo, Bounded
  <2>3. EofMeansDrained'
    BY <1>a DEF EofMeansDrained
  <2>4. QED
    BY <2>1, <2>2, <2>3
<1>3. ASSUME NEW t \in Threads, NEW h \in Handles, DropSender(t, h)
      PROVE  IInv'
  <2> USE <1>3 DEF DropSender, TakeWaker, inner, history
  <2>1. SendersExact' /\ senders' \in Nat
    <3>1. h \in live /\ senders' = senders - 1 /\ live' = live \ {h}
      OBVIOUS
    <3>2. Cardinality(live \ {h}) = Cardinality(live) - 1
      BY <1>0, <3>1, FS_RemoveElement
    <3>3. senders \in Nat /\ senders # 0
      BY <1>a, <3>1 DEF TypeOK
    <3>4. QED
      BY <3>1, <3>2, <3>3 DEF SendersExact
  <2>2. TypeOK'
    BY <2>1 DEF TypeOK
  <2>3. WakerMeansEmpty' /\ Fifo' /\ Bounded'
    BY DEF WakerMeansEmpty, Fifo, Bounded
  <2>4. ParkedIsCovered'
    BY DEF ParkedIsCovered, TypeOK, Idle
  <2>5. EofMeansDrained'
    BY <1>a DEF EofMeansDrained
  <2>6. QED
    BY <2>1, <2>2, <2>3, <2>4, <2>5
<1>4. ASSUME NEW t \in Threads, Wake(t)
      PROVE  IInv'
  <2> USE <1>4 DEF Wake, inner, history
  <2>1. TypeOK'
    BY DEF TypeOK, Idle
  <2>2. ParkedIsCovered'
    BY DEF ParkedIsCovered, TypeOK
  <2>3. QED
    BY <2>1, <2>2 DEF SendersExact, WakerMeansEmpty, Fifo, EofMeansDrained, Bounded
<1>5. CASE Receive /\ PopValue
  <2> USE <1>5 DEF Receive, PopValue
  <2>1. /\ Head(queue) \in Values /\ Tail(queue) \in Seq(Values)
        /\ Len(Tail(queue)) = Len(queue) - 1 /\ Len(queue) \in Nat
    BY HeadTailProperties, LenProperties DEF TypeOK
  <2>2. TypeOK'
    BY <2>1, AppendProperties DEF TypeOK
  <2>3. Fifo'
    BY TakeFromFront DEF Fifo, TypeOK
  <2>4. Bounded'
    BY <2>1 DEF Bounded
  <2>5. QED
    BY <2>2, <2>3, <2>4 DEF SendersExact, WakerMeansEmpty, ParkedIsCovered, EofMeansDrained
<1>6. CASE Receive /\ PopClosed
  BY <1>6 DEF Receive, PopClosed, TypeOK, SendersExact, WakerMeansEmpty,
              ParkedIsCovered, Fifo, EofMeansDrained, Bounded
<1>7. ASSUME NEW w \in Wakers, PollPending(w)
      PROVE  IInv'
  <2> USE <1>7 DEF PollPending, history
  <2>1. TypeOK'
    BY DEF TypeOK
  <2>2. WakerMeansEmpty'
    BY DEF WakerMeansEmpty
  <2>3. ParkedIsCovered'
    BY DEF ParkedIsCovered
  <2>4. SendersExact' /\ Fifo' /\ EofMeansDrained' /\ Bounded'
    BY DEF SendersExact, Fifo, EofMeansDrained, Bounded
  <2>5. QED
    BY <2>1, <2>2, <2>3, <2>4
<1>8. CASE OtherWake \/ DropReceiver
  <2> USE <1>8 DEF OtherWake, DropReceiver, inner, history
  <2>1. TypeOK'
    BY DEF TypeOK
  <2>2. WakerMeansEmpty' /\ ParkedIsCovered'
    BY DEF WakerMeansEmpty, ParkedIsCovered
  <2>3. UNCHANGED <<queue, senders, live, accepted, delivered, eof>>
    OBVIOUS
  <2>4. SendersExact' /\ Fifo' /\ EofMeansDrained' /\ Bounded'
    BY <2>3 DEF SendersExact, Fifo, EofMeansDrained, Bounded
  <2>5. QED
    BY <2>1, <2>2, <2>4
<1>9. CASE UNCHANGED vars
  BY <1>9 DEF vars, inner, history, TypeOK, SendersExact, WakerMeansEmpty,
              ParkedIsCovered, Fifo, EofMeansDrained, Bounded
<1>10. QED
  BY <1>1, <1>2, <1>3, <1>4, <1>5, <1>6, <1>7, <1>8, <1>9 DEF Next, Receive

\* The type invariant, the exact sender count, the FIFO order, the bound and
\* the two facts about wakers hold together.
THEOREM Inductive == SafeSpec => []IInv
<1>1. Init => IInv
  <2> SUFFICES ASSUME Init PROVE IInv
    OBVIOUS
  <2>1. PICK h \in Handles : live = {h}
    BY DEF Init
  <2>2. Cardinality(live) = 1
    BY <2>1, FS_Singleton
  <2>3. TypeOK /\ Fifo
    BY <2>1, EmptySeq, ConcatEmptySeq DEF Init, TypeOK, Fifo, Idle
  <2>4. QED
    BY <2>2, <2>3, EmptySeq, OutboundAssumption
    DEF Init, IInv, SendersExact, WakerMeansEmpty, ParkedIsCovered, EofMeansDrained, Bounded
<1>2. QED
  BY <1>1, IInvStep, PTL DEF SafeSpec

\* However many sender clones there are, the queue holds at most Capacity.
THEOREM DepthIsBounded == SafeSpec => []Bounded
<1>1. IInv => Bounded
  BY DEF IInv
<1>2. QED
  BY <1>1, Inductive, PTL

\* The receiving task is never left asleep on a queue that has a message or
\* that has ended, unless a thread is about to wake it.
THEOREM WakeupIsNotLost == SafeSpec => []NoLostWakeup
<1>1. IInv => NoLostWakeup
  BY DEF IInv, WakerMeansEmpty, ParkedIsCovered, NoLostWakeup
<1>2. QED
  BY <1>1, Inductive, PTL

\* recv returns None only when nothing is lost and nothing can follow.
THEOREM EndIsFinal == SafeSpec => []EofIsFinal
<1>1. IInv => EofIsFinal
  <2> SUFFICES ASSUME IInv, eof PROVE queue = <<>> /\ delivered = accepted /\ live = {}
    BY DEF EofIsFinal
  <2>1. queue = <<>> /\ Cardinality(live) = 0
    BY DEF IInv, EofMeansDrained, SendersExact
  <2>2. delivered = accepted
    BY <2>1, ConcatEmptySeq DEF IInv, Fifo, TypeOK
  <2>3. IsFiniteSet(live)
    BY FS_Subset, OutboundAssumption DEF IInv, TypeOK
  <2>4. QED
    BY <2>1, <2>2, <2>3, FS_EmptySet
<1>2. QED
  BY <1>1, Inductive, PTL

\* Every step of the queue is a step of the abstract channel or leaves it as it
\* is: waking, parking, cloning and all but the last drop of a sender do.
LEMMA ChannelStep == IInv /\ [Next]_vars => [Chan!Next]_(Chan!vars)
<1> SUFFICES ASSUME IInv, [Next]_vars PROVE Chan!Next \/ UNCHANGED Chan!vars
  OBVIOUS
<1> USE OutboundAssumption DEF IInv
<1>0. /\ queue \in Seq(Values) /\ delivered \in Seq(Values) /\ accepted \in Seq(Values)
      /\ senders \in Nat /\ accepted = delivered \o queue
  BY DEF TypeOK, Fifo
<1>a. \A h \in live : senders # 0
  BY FS_Subset, FS_EmptySet DEF TypeOK, SendersExact
<1>b. Len(accepted) - Len(delivered) = Len(queue)
  BY <1>0, ConcatProperties, LenProperties
<1>1. ASSUME NEW t \in Threads, NEW h \in Handles, NEW v \in Values, TrySendOk(t, h, v)
      PROVE  Chan!Accept(v)
  BY <1>1, <1>a, <1>b DEF TrySendOk, HasRoom, Chan!Accept
<1>2. ASSUME NEW t \in Threads, NEW h \in Handles, NEW h2 \in Handles, Clone(t, h, h2)
      PROVE  UNCHANGED Chan!vars
  BY <1>2, <1>0, <1>a DEF Clone, history, Chan!vars
<1>3. ASSUME NEW t \in Threads, NEW h \in Handles, DropSender(t, h)
      PROVE  Chan!Close \/ UNCHANGED Chan!vars
  BY <1>3, <1>0, <1>a DEF DropSender, history, Chan!Close, Chan!vars
<1>4. ASSUME NEW t \in Threads, Wake(t)
      PROVE  UNCHANGED Chan!vars
  BY <1>4 DEF Wake, inner, history, Chan!vars
<1>5. CASE Receive /\ PopValue
  <2>1. accepted[Len(delivered) + 1] = Head(queue) /\ Len(delivered) < Len(accepted)
    BY <1>5, <1>0, TakeFromFront DEF PopValue
  <2>2. Chan!Deliver
    BY <1>5, <2>1 DEF Receive, PopValue, Chan!Deliver
  <2>3. QED
    BY <2>2 DEF Chan!Next
<1>6. CASE Receive /\ PopClosed
  <2>1. delivered = accepted
    BY <1>6, <1>0, ConcatEmptySeq DEF PopClosed
  <2>2. Chan!ReportEnd
    BY <1>6, <2>1 DEF Receive, PopClosed, Chan!ReportEnd
  <2>3. QED
    BY <2>2 DEF Chan!Next
<1>7. ASSUME NEW w \in Wakers, PollPending(w)
      PROVE  UNCHANGED Chan!vars
  BY <1>7 DEF PollPending, history, Chan!vars
<1>8. CASE OtherWake
  BY <1>8 DEF OtherWake, inner, history, Chan!vars
<1>9. CASE DropReceiver
  <2>1. Chan!Abandon
    BY <1>9 DEF DropReceiver, history, Chan!Abandon
  <2>2. QED
    BY <2>1 DEF Chan!Next
<1>10. CASE UNCHANGED vars
  BY <1>10 DEF vars, inner, history, Chan!vars
<1>11. QED
  BY <1>1, <1>2, <1>3, <1>4, <1>5, <1>6, <1>7, <1>8, <1>9, <1>10
  DEF Next, Receive, Chan!Next

\* The queue implements the safety part of the abstract channel: what is
\* received is what was accepted, in order, nothing twice and nothing skipped,
\* never more than Capacity undelivered, and the end only after the last one.
THEOREM Refinement == SafeSpec => Chan!SafeSpec
<1>1. Init => Chan!Init
  BY DEF Init, Chan!Init
<1>2. QED
  BY <1>1, ChannelStep, Inductive, PTL DEF SafeSpec, Chan!SafeSpec
===============================================================================
