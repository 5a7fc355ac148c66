---------------------------- MODULE ChannelProofs ----------------------------
(***************************************************************************)
(* Proofs that Channel keeps its safety invariants and implements          *)
(* FifoChannel, for any finite set of threads, any capacities and any      *)
(* number of sends.                                                        *)
(***************************************************************************)
EXTENDS Channel, FiniteSetTheorems, SequenceTheorems, TLAPS

\* A blocked sender has a message: its first offer was counted before it
\* waited.  Needed for the type of what it pushes when it resumes.
BlockedSenderHasMessage ==
    \A t \in Threads : pc[t] \in {"send_wait", "send_woken"} => sends[t] \in 1..MaxSends

TypeInv == TypeOK /\ BlockedSenderHasMessage

-----------------------------------------------------------------------------
(* Types                                                                   *)

\* Whatever a thread pushes is a message.
LEMMA OfferedIsMessage ==
    ASSUME TypeInv, NEW t \in Threads
    PROVE  /\ Offer(t) => <<t, sends[t] + 1>> \in Messages
           /\ pc[t] = "send_woken" => MessageOf(t) \in Messages
  BY MaxSendsAssumption DEF TypeInv, TypeOK, BlockedSenderHasMessage, Offer, Messages, MessageOf

\* Push keeps the types, whichever send calls it.
LEMMA PushType ==
    ASSUME TypeInv, NEW t \in Threads, NEW m \in Messages, Push(t, m),
           sends' \in [Threads -> 0..MaxSends],
           \A u \in Threads : u # t => sends'[u] = sends[u]
    PROVE  TypeInv'
  <1>1. /\ pc' \in [Threads -> PC]
        /\ \A u \in Threads :
              \/ pc'[u] = [pc EXCEPT ![t] = "idle"][u]
              \/ pc'[u] = "recv_woken"
    <2>1. [pc EXCEPT ![t] = "idle"] \in [Threads -> PC]
      BY DEF TypeInv, TypeOK, PC
    <2> QED
      BY <2>1 DEF Push, NotifyOne, PC
  <1>2. BlockedSenderHasMessage'
    BY <1>1 DEF TypeInv, TypeOK, BlockedSenderHasMessage
  <1>3. TypeOK'
    BY <1>1 DEF TypeInv, TypeOK, Push
  <1> QED
    BY <1>2, <1>3 DEF TypeInv

\* Pop keeps the types: a woken sender still holds its message.
LEMMA PopType ==
    ASSUME TypeInv, NEW t \in Threads, Pop(t)
    PROVE  TypeInv'
  <1>0. [pc EXCEPT ![t] = "idle"] \in [Threads -> PC]
    BY DEF TypeInv, TypeOK, PC
  <1>1. /\ pc' \in [Threads -> PC]
        /\ \A u \in Threads :
              \/ pc'[u] = [pc EXCEPT ![t] = "idle"][u]
              \/ [pc EXCEPT ![t] = "idle"][u] = "send_wait" /\ pc'[u] = "send_woken"
    <2>1. CASE capacity_ > 0
      BY <1>0, <2>1 DEF Pop, NotifyOne, PC
    <2>2. CASE ~(capacity_ > 0)
      BY <1>0, <2>2 DEF Pop
    <2> QED
      BY <2>1, <2>2
  <1>2. BlockedSenderHasMessage'
    BY <1>1 DEF TypeInv, TypeOK, BlockedSenderHasMessage, Pop
  <1>3. TypeOK'
    BY <1>1 DEF TypeInv, TypeOK, Pop
  <1> QED
    BY <1>2, <1>3 DEF TypeInv

\* Types of the channel's state and of the message a blocked sender holds are
\* kept by every operation.
LEMMA TypeStep == TypeInv /\ [Next]_vars => TypeInv'
  <1> SUFFICES ASSUME TypeInv, [Next]_vars PROVE TypeInv'
    OBVIOUS
  <1> USE DEF TypeInv, TypeOK, BlockedSenderHasMessage
  <1>1. ASSUME NEW t \in Threads, Send(t) PROVE TypeInv'
    <2>1. <<t, sends[t] + 1>> \in Messages
      BY <1>1, OfferedIsMessage DEF Send
    <2>2. CASE Push(t, <<t, sends[t] + 1>>)
      BY <1>1, <2>1, <2>2, PushType, MaxSendsAssumption DEF Send, Offer
    <2>3. CASE Leave(t, "idle") /\ UNCHANGED ended
      BY <1>1, <2>3, MaxSendsAssumption DEF Send, Offer, Leave, PC
    <2>4. CASE Leave(t, "send_wait") /\ UNCHANGED ended
      BY <1>1, <2>4, MaxSendsAssumption DEF Send, Offer, Leave, PC
    <2> QED
      BY <1>1, <2>2, <2>3, <2>4 DEF Send, SendLocked
  <1>2. ASSUME NEW t \in Threads, SendResume(t) PROVE TypeInv'
    <2>1. MessageOf(t) \in Messages
      BY <1>2, OfferedIsMessage DEF SendResume
    <2>2. CASE Push(t, MessageOf(t))
      BY <1>2, <2>1, <2>2, PushType DEF SendResume
    <2>3. CASE Leave(t, "idle") /\ UNCHANGED ended
      BY <1>2, <2>3 DEF SendResume, Leave, PC
    <2>4. CASE Leave(t, "send_wait") /\ UNCHANGED ended
      BY <1>2, <2>4 DEF SendResume, Leave, PC
    <2> QED
      BY <1>2, <2>2, <2>3, <2>4 DEF SendResume, SendLocked
  <1>3. ASSUME NEW t \in Threads, ReceiveLocked(t) PROVE TypeInv'
    <2>1. CASE Pop(t)
      BY <2>1, PopType
    <2>2. CASE Leave(t, "idle") /\ ended' = ended \cup {t} /\ UNCHANGED sends
      BY <2>2 DEF Leave, PC
    <2>3. CASE Leave(t, "recv_wait") /\ UNCHANGED <<sends, ended>>
      BY <2>3 DEF Leave, PC
    <2> QED
      BY <1>3, <2>1, <2>2, <2>3 DEF ReceiveLocked
  <1>4. ASSUME NEW t \in Threads, TrySend(t) PROVE TypeInv'
    <2>1. <<t, sends[t] + 1>> \in Messages
      BY <1>4, OfferedIsMessage DEF TrySend
    <2>2. CASE Push(t, <<t, sends[t] + 1>>)
      BY <1>4, <2>1, <2>2, PushType, MaxSendsAssumption DEF TrySend, Offer
    <2>3. CASE Leave(t, "idle") /\ UNCHANGED ended
      BY <1>4, <2>3, MaxSendsAssumption DEF TrySend, Offer, Leave, PC
    <2> QED
      BY <1>4, <2>2, <2>3 DEF TrySend
  <1>5. ASSUME NEW t \in Threads, TryReceive(t) PROVE TypeInv'
    <2>1. CASE Pop(t)
      BY <2>1, PopType
    <2>2. CASE Leave(t, "idle") /\ UNCHANGED <<sends, ended>>
      BY <2>2 DEF Leave, PC
    <2> QED
      BY <1>5, <2>1, <2>2 DEF TryReceive
  <1>6. ASSUME NEW t \in Threads, Close(t) PROVE TypeInv'
    <2>1. \A u \in Threads : pc'[u] \in PC
                             /\ (pc'[u] \in {"send_wait", "send_woken"}
                                   => pc[u] \in {"send_wait", "send_woken"})
      BY <1>6 DEF Close, PC
    <2>2. pc' \in [Threads -> PC]
      BY <1>6, <2>1 DEF Close
    <2> QED
      BY <1>6, <2>1, <2>2 DEF Close
  <1>7. ASSUME NEW t \in Threads, SpuriousWakeup(t) PROVE TypeInv'
    BY <1>7 DEF SpuriousWakeup, PC
  <1>8. CASE UNCHANGED vars
    BY <1>8 DEF vars
  <1> QED
    BY <1>1, <1>2, <1>3, <1>4, <1>5, <1>6, <1>7, <1>8 DEF Next, Receive, ReceiveResume

\* The constructor leaves a well-typed channel in which nobody is blocked.
LEMMA TypeInit == Init => TypeInv
  <1> SUFFICES ASSUME Init PROVE TypeInv
    OBVIOUS
  <1>1. buffer_ \in Seq(Messages) /\ sent \in Seq(Messages) /\ received \in Seq(Messages)
    BY EmptySeq DEF Init
  <1>2. sends \in [Threads -> 0..MaxSends] /\ pc \in [Threads -> PC]
    BY MaxSendsAssumption DEF Init, PC
  <1>3. BlockedSenderHasMessage
    BY DEF Init, BlockedSenderHasMessage
  <1> QED
    BY <1>1, <1>2, <1>3 DEF Init, TypeInv, TypeOK

\* Channel's state always has the types of its C++ members, for any number of
\* threads and sends.
THEOREM TypeCorrect == Spec => []TypeOK
  <1>1. TypeInv => TypeOK
    BY DEF TypeInv
  <1> QED
    BY <1>1, TypeInit, TypeStep, PTL DEF Spec

-----------------------------------------------------------------------------
(* Order, capacity and end of the channel                                  *)

\* Moving the head of the buffer to the end of what was received leaves the
\* log unchanged.
LEMMA MoveHead ==
    ASSUME NEW S, NEW r \in Seq(S), NEW b \in Seq(S), b # <<>>
    PROVE  /\ Head(b) \in S
           /\ Tail(b) \in Seq(S)
           /\ Len(Tail(b)) = Len(b) - 1
           /\ Append(r, Head(b)) \o Tail(b) = r \o b
  <1>0. Len(b) \in Nat /\ Len(b) > 0 /\ Len(r) \in Nat
    BY EmptySeq, LenProperties
  <1>1. /\ Head(b) \in S /\ Tail(b) \in Seq(S)
        /\ Len(Tail(b)) = Len(b) - 1
        /\ \A i \in 1 .. Len(Tail(b)) : Tail(b)[i] = b[i + 1]
        /\ Head(b) = b[1]
    BY HeadTailProperties, <1>0
  <1>2. /\ Append(r, Head(b)) \in Seq(S)
        /\ Len(Append(r, Head(b))) = Len(r) + 1
        /\ \A i \in 1 .. Len(r) : Append(r, Head(b))[i] = r[i]
        /\ Append(r, Head(b))[Len(r) + 1] = Head(b)
    BY <1>1, AppendProperties
  <1>3. /\ Append(r, Head(b)) \o Tail(b) \in Seq(S) /\ r \o b \in Seq(S)
        /\ Len(Append(r, Head(b)) \o Tail(b)) = Len(r \o b)
    BY <1>0, <1>1, <1>2, ConcatProperties
  <1>4. \A i \in 1 .. Len(r \o b) : (Append(r, Head(b)) \o Tail(b))[i] = (r \o b)[i]
    BY <1>0, <1>1, <1>2, ConcatProperties
  <1> QED
    BY <1>1, <1>3, <1>4, SeqEqual

\* The part of the invariant that speaks of the buffer and the histories.
DataInv == FifoNoLoss /\ CapacityBound /\ DrainedIsFinal

\* Push extends the log and the buffer alike, and only if there is room.
LEMMA PushData ==
    ASSUME TypeInv, DataInv, NEW t \in Threads, NEW m \in Messages,
           Push(t, m), ~closed_, HasRoom
    PROVE  DataInv'
  <1>0. received \in Seq(Messages) /\ buffer_ \in Seq(Messages)
    BY DEF TypeInv, TypeOK
  <1>1. Append(received \o buffer_, m) = received \o Append(buffer_, m)
    BY ONLY <1>0, m \in Messages
  <1>2. FifoNoLoss'
    BY <1>1 DEF Push, DataInv, FifoNoLoss
  <1>3. CapacityBound'
    <2>1. Len(buffer_') = Len(buffer_) + 1 /\ Len(buffer_) \in Nat
      BY AppendProperties, LenProperties DEF Push, TypeInv, TypeOK
    <2> QED
      BY <2>1, CapacitiesAssumption DEF Push, HasRoom, CapacityBound, TypeInv, TypeOK
  <1>4. DrainedIsFinal'
    BY DEF Push, DataInv, DrainedIsFinal
  <1> QED
    BY <1>2, <1>3, <1>4 DEF DataInv

\* Pop moves the oldest message from the buffer to the receiver.
LEMMA PopData ==
    ASSUME TypeInv, DataInv, NEW t \in Threads, Pop(t)
    PROVE  DataInv'
  <1>0. received \in Seq(Messages) /\ buffer_ \in Seq(Messages) /\ buffer_ # <<>>
    BY DEF TypeInv, TypeOK, Pop
  <1>1. /\ Append(received, Head(buffer_)) \o Tail(buffer_) = received \o buffer_
        /\ Len(Tail(buffer_)) = Len(buffer_) - 1
        /\ Len(buffer_) \in Nat
    BY ONLY <1>0, MoveHead, LenProperties
  <1>2. FifoNoLoss'
    BY <1>1 DEF Pop, DataInv, FifoNoLoss
  <1>3. CapacityBound'
    BY <1>1, CapacitiesAssumption DEF Pop, DataInv, CapacityBound, TypeInv, TypeOK
  <1>4. DrainedIsFinal'
    BY DEF Pop, DataInv, DrainedIsFinal
  <1> QED
    BY <1>2, <1>3, <1>4 DEF DataInv

\* Order, capacity and the finality of the end survive every operation.
LEMMA DataStep == TypeInv /\ DataInv /\ [Next]_vars => DataInv'
  <1> SUFFICES ASSUME TypeInv, DataInv, [Next]_vars PROVE DataInv'
    OBVIOUS
  <1>1. ASSUME NEW t \in Threads, NEW l, Leave(t, l), UNCHANGED ended PROVE DataInv'
    BY <1>1 DEF Leave, DataInv, FifoNoLoss, CapacityBound, DrainedIsFinal
  <1>2. ASSUME NEW t \in Threads, Send(t) PROVE DataInv'
    BY <1>1, <1>2, OfferedIsMessage, PushData DEF Send, SendLocked
  <1>3. ASSUME NEW t \in Threads, SendResume(t) PROVE DataInv'
    BY <1>1, <1>3, OfferedIsMessage, PushData DEF SendResume, SendLocked
  <1>4. ASSUME NEW t \in Threads, TrySend(t) PROVE DataInv'
    BY <1>1, <1>4, OfferedIsMessage, PushData DEF TrySend
  <1>5. ASSUME NEW t \in Threads, ReceiveLocked(t) PROVE DataInv'
    <2>1. CASE Pop(t)
      BY <2>1, PopData
    <2>2. CASE buffer_ = <<>> /\ closed_ /\ Leave(t, "idle")
      BY <2>2 DEF Leave, DataInv, FifoNoLoss, CapacityBound, DrainedIsFinal
    <2>3. CASE Leave(t, "recv_wait") /\ UNCHANGED <<sends, ended>>
      BY <1>1, <2>3
    <2> QED
      BY <1>5, <2>1, <2>2, <2>3 DEF ReceiveLocked
  <1>6. ASSUME NEW t \in Threads, TryReceive(t) PROVE DataInv'
    BY <1>1, <1>6, PopData DEF TryReceive
  <1>7. ASSUME NEW t \in Threads, Close(t) PROVE DataInv'
    BY <1>7 DEF Close, DataInv, FifoNoLoss, CapacityBound, DrainedIsFinal
  <1>8. ASSUME NEW t \in Threads, SpuriousWakeup(t) PROVE DataInv'
    BY <1>8 DEF SpuriousWakeup, DataInv, FifoNoLoss, CapacityBound, DrainedIsFinal
  <1>9. CASE UNCHANGED vars
    BY <1>9 DEF vars, DataInv, FifoNoLoss, CapacityBound, DrainedIsFinal
  <1> QED
    BY <1>2, <1>3, <1>4, <1>5, <1>6, <1>7, <1>8, <1>9 DEF Next, Receive, ReceiveResume

\* A new channel is empty and has told nobody that it has ended.
LEMMA DataInit == Init => DataInv
  <1> SUFFICES ASSUME Init PROVE DataInv
    OBVIOUS
  <1>1. <<>> \o <<>> = <<>> /\ Len(<<>>) = 0
    BY ConcatEmptySeq, EmptySeq
  <1> QED
    BY <1>1, CapacitiesAssumption DEF Init, DataInv, FifoNoLoss, CapacityBound, DrainedIsFinal

\* No message is lost, duplicated or reordered between send/try_send and
\* receive/try_receive.
THEOREM ChannelFifo == Spec => []FifoNoLoss
  <1>1. DataInv => FifoNoLoss
    BY DEF DataInv
  <1> QED
    BY <1>1, TypeInit, TypeStep, DataInit, DataStep, PTL DEF Spec

\* A bounded channel never holds more than its capacity.
THEOREM ChannelCapacity == Spec => []CapacityBound
  <1>1. DataInv => CapacityBound
    BY DEF DataInv
  <1> QED
    BY <1>1, TypeInit, TypeStep, DataInit, DataStep, PTL DEF Spec

\* Nothing is buffered after a receiver was told that the channel has ended.
THEOREM ChannelDrained == Spec => []DrainedIsFinal
  <1>1. DataInv => DrainedIsFinal
    BY DEF DataInv
  <1> QED
    BY <1>1, TypeInit, TypeStep, DataInit, DataStep, PTL DEF Spec

-----------------------------------------------------------------------------
(* Wake-ups                                                                *)

\* The number of threads that p has at l.
Count(p, l) == Cardinality({t \in Threads : p[t] = l})

\* The count at l after t has moved from its place in p to a.
CountMoved(p, t, a, l) ==
    IF a = l
      THEN IF p[t] = l THEN Count(p, l) ELSE Count(p, l) + 1
      ELSE IF p[t] = l THEN Count(p, l) - 1 ELSE Count(p, l)

\* The number of threads at a place is a natural number.
LEMMA CountIsNat ==
    ASSUME NEW p, NEW l
    PROVE  /\ IsFiniteSet({t \in Threads : p[t] = l})
           /\ Count(p, l) \in Nat
           /\ Count(p, l) = 0 <=> \A t \in Threads : p[t] # l
  <1> DEFINE S == {t \in Threads : p[t] = l}
  <1>1. IsFiniteSet(S)
    BY ThreadsAssumption, FS_Subset
  <1>2. Cardinality(S) \in Nat /\ (Cardinality(S) = 0 <=> S = {})
    BY <1>1, FS_CardinalityType, FS_EmptySet
  <1> QED
    BY <1>1, <1>2 DEF Count

\* Moving one thread from its place to a changes the two counts by one.
LEMMA MoveCount ==
    ASSUME NEW p \in [Threads -> PC], NEW t \in Threads, NEW a \in PC, NEW l \in PC
    PROVE  Count([p EXCEPT ![t] = a], l) = CountMoved(p, t, a, l)
  <1> DEFINE S == {u \in Threads : p[u] = l}
             q == [p EXCEPT ![t] = a]
             Q == {u \in Threads : q[u] = l}
  <1>1. IsFiniteSet(S) /\ Cardinality(S) \in Nat
    <2>1. IsFiniteSet(S)
      BY ThreadsAssumption, FS_Subset
    <2> QED
      BY <2>1, FS_CardinalityType
  <1>2. CASE a = l /\ p[t] = l
    <2>1. Q = S
      BY <1>2
    <2> QED
      BY <1>1, <1>2, <2>1 DEF Count, CountMoved
  <1>3. CASE a = l /\ p[t] # l
    <2>1. Q = S \cup {t} /\ t \notin S
      BY <1>3
    <2>2. Cardinality(Q) = Cardinality(S) + 1
      BY <1>1, <2>1, FS_AddElement
    <2> QED
      BY <1>1, <1>3, <2>2 DEF Count, CountMoved
  <1>4. CASE a # l /\ p[t] = l
    <2>1. Q = S \ {t} /\ t \in S
      BY <1>4
    <2>2. Cardinality(Q) = Cardinality(S) - 1
      BY <1>1, <2>1, FS_RemoveElement
    <2> QED
      BY <1>1, <1>4, <2>2 DEF Count, CountMoved
  <1>5. CASE a # l /\ p[t] # l
    <2>1. Q = S
      BY <1>5
    <2> QED
      BY <1>1, <1>5, <2>1 DEF Count, CountMoved
  <1> QED
    BY <1>2, <1>3, <1>4, <1>5

\* The same for the four places where a thread waits.
LEMMA MoveCounts ==
    ASSUME NEW p \in [Threads -> PC], NEW t \in Threads, NEW a \in PC
    PROVE  /\ [p EXCEPT ![t] = a] \in [Threads -> PC]
           /\ Count([p EXCEPT ![t] = a], "recv_wait") = CountMoved(p, t, a, "recv_wait")
           /\ Count([p EXCEPT ![t] = a], "recv_woken") = CountMoved(p, t, a, "recv_woken")
           /\ Count([p EXCEPT ![t] = a], "send_wait") = CountMoved(p, t, a, "send_wait")
           /\ Count([p EXCEPT ![t] = a], "send_woken") = CountMoved(p, t, a, "send_woken")
  <1>1. "recv_wait" \in PC /\ "recv_woken" \in PC /\ "send_wait" \in PC /\ "send_woken" \in PC
    BY DEF PC
  <1>2. \A l \in PC : Count([p EXCEPT ![t] = a], l) = CountMoved(p, t, a, l)
    BY MoveCount
  <1> QED
    BY <1>1, <1>2

\* NoLostWakeupReceive and NoLostWakeupSend in terms of the counts.
WakeInv ==
    /\ Count(pc, "recv_wait") > 0 =>
          ~closed_ /\ Len(buffer_) <= Count(pc, "recv_woken")
    /\ Count(pc, "send_wait") > 0 =>
          ~closed_ /\ capacity_ <= Len(buffer_) + Count(pc, "send_woken")

\* The numbers WakeInv compares.
Numbers ==
    /\ Len(buffer_) \in Nat /\ capacity_ \in Nat
    /\ Count(pc, "recv_wait") \in Nat /\ Count(pc, "recv_woken") \in Nat
    /\ Count(pc, "send_wait") \in Nat /\ Count(pc, "send_woken") \in Nat

\* Every number the wake-up argument compares is a natural number.
LEMMA NumbersAreNat == TypeInv => Numbers
  BY CountIsNat, LenProperties, CapacitiesAssumption DEF TypeInv, TypeOK, Numbers

\* A push adds a message and, if a receiver sleeps, wakes one for it.
LEMMA PushWake ==
    ASSUME TypeInv, Numbers, WakeInv, NEW t \in Threads, NEW m \in Messages, Push(t, m),
           pc[t] \in {"idle", "send_woken"}, ~closed_
    PROVE  WakeInv'
  <1>p. PICK p : p = [pc EXCEPT ![t] = "idle"]
    OBVIOUS
  <1>0. /\ Len(buffer_') = Len(buffer_) + 1
        /\ capacity_' = capacity_ /\ ~closed_'
        /\ pc \in [Threads -> PC]
        /\ "idle" \in PC /\ "recv_woken" \in PC
    BY AppendProperties DEF Push, TypeInv, TypeOK, PC
  <1>1. /\ p \in [Threads -> PC]
        /\ Count(p, "recv_wait") = CountMoved(pc, t, "idle", "recv_wait")
        /\ Count(p, "recv_woken") = CountMoved(pc, t, "idle", "recv_woken")
        /\ Count(p, "send_wait") = CountMoved(pc, t, "idle", "send_wait")
        /\ Count(p, "send_woken") = CountMoved(pc, t, "idle", "send_woken")
    BY <1>0, <1>p, MoveCounts
  <1>2. /\ Count(p, "recv_wait") = Count(pc, "recv_wait")
        /\ Count(p, "recv_woken") = Count(pc, "recv_woken")
        /\ Count(p, "send_wait") = Count(pc, "send_wait")
        /\ Count(p, "send_woken") + 1 >= Count(pc, "send_woken")
        /\ Count(p, "send_woken") \in Nat
    <2>1. Count(p, "send_woken") \in Nat
      BY CountIsNat
    <2> QED
      BY <1>1, <2>1 DEF CountMoved, Numbers
  <1>3. CASE pc' = p /\ \A u \in Threads : p[u] # "recv_wait"
    <2>1. Count(p, "recv_wait") = 0
      BY <1>3, CountIsNat
    <2> QED
      BY <1>0, <1>2, <1>3, <2>1 DEF WakeInv, Numbers
  <1>4. ASSUME NEW u \in Threads, p[u] = "recv_wait", pc' = [p EXCEPT ![u] = "recv_woken"]
        PROVE  WakeInv'
    <2>0. p \in [Threads -> PC] /\ u \in Threads /\ "recv_woken" \in PC
      BY <1>0, <1>1
    <2> DEFINE q == [p EXCEPT ![u] = "recv_woken"]
    <2>1. /\ Count(q, "recv_wait") = CountMoved(p, u, "recv_woken", "recv_wait")
          /\ Count(q, "recv_woken") = CountMoved(p, u, "recv_woken", "recv_woken")
          /\ Count(q, "send_wait") = CountMoved(p, u, "recv_woken", "send_wait")
          /\ Count(q, "send_woken") = CountMoved(p, u, "recv_woken", "send_woken")
      BY ONLY <2>0, MoveCounts
    <2>2. /\ Count(pc', "recv_wait") = Count(p, "recv_wait") - 1
          /\ Count(pc', "recv_woken") = Count(p, "recv_woken") + 1
          /\ Count(pc', "send_wait") = Count(p, "send_wait")
          /\ Count(pc', "send_woken") = Count(p, "send_woken")
      BY <1>4, <2>1 DEF CountMoved
    <2> QED
      BY <1>0, <1>2, <2>2 DEF WakeInv, Numbers
  <1> QED
    BY <1>3, <1>4, <1>p DEF Push, NotifyOne

\* A pop removes a message and, if a sender sleeps, wakes one for the slot.
LEMMA PopWake ==
    ASSUME TypeInv, Numbers, WakeInv, NEW t \in Threads, Pop(t),
           pc[t] \in {"idle", "recv_woken"}
    PROVE  WakeInv'
  <1>p. PICK p : p = [pc EXCEPT ![t] = "idle"]
    OBVIOUS
  <1>0. /\ Len(buffer_') = Len(buffer_) - 1
        /\ capacity_' = capacity_ /\ closed_' = closed_
        /\ pc \in [Threads -> PC]
        /\ "idle" \in PC /\ "send_woken" \in PC
    <2>1. buffer_ \in Seq(Messages) /\ buffer_ # <<>>
      BY DEF TypeInv, TypeOK, Pop
    <2>2. Len(Tail(buffer_)) = Len(buffer_) - 1
      BY ONLY <2>1, MoveHead
    <2> QED
      BY <2>2 DEF Pop, TypeInv, TypeOK, PC
  <1>1. /\ p \in [Threads -> PC]
        /\ Count(p, "recv_wait") = CountMoved(pc, t, "idle", "recv_wait")
        /\ Count(p, "recv_woken") = CountMoved(pc, t, "idle", "recv_woken")
        /\ Count(p, "send_wait") = CountMoved(pc, t, "idle", "send_wait")
        /\ Count(p, "send_woken") = CountMoved(pc, t, "idle", "send_woken")
    BY <1>0, <1>p, MoveCounts
  <1>2. /\ Count(p, "recv_wait") = Count(pc, "recv_wait")
        /\ Count(p, "recv_woken") + 1 >= Count(pc, "recv_woken")
        /\ Count(p, "recv_woken") \in Nat
        /\ Count(p, "send_wait") = Count(pc, "send_wait")
        /\ Count(p, "send_woken") = Count(pc, "send_woken")
    <2>1. Count(p, "recv_woken") \in Nat
      BY CountIsNat
    <2> QED
      BY <1>1, <2>1 DEF CountMoved, Numbers
  <1>3. CASE pc' = p /\ \A u \in Threads : p[u] # "send_wait"
    <2>1. Count(p, "send_wait") = 0
      BY <1>3, CountIsNat
    <2> QED
      BY <1>0, <1>2, <1>3, <2>1 DEF WakeInv, Numbers
  <1>4. ASSUME NEW u \in Threads, p[u] = "send_wait", pc' = [p EXCEPT ![u] = "send_woken"]
        PROVE  WakeInv'
    <2>0. p \in [Threads -> PC] /\ u \in Threads /\ "send_woken" \in PC
      BY <1>0, <1>1
    <2> DEFINE q == [p EXCEPT ![u] = "send_woken"]
    <2>1. /\ Count(q, "recv_wait") = CountMoved(p, u, "send_woken", "recv_wait")
          /\ Count(q, "recv_woken") = CountMoved(p, u, "send_woken", "recv_woken")
          /\ Count(q, "send_wait") = CountMoved(p, u, "send_woken", "send_wait")
          /\ Count(q, "send_woken") = CountMoved(p, u, "send_woken", "send_woken")
      BY ONLY <2>0, MoveCounts
    <2>2. /\ Count(pc', "recv_wait") = Count(p, "recv_wait")
          /\ Count(pc', "recv_woken") = Count(p, "recv_woken")
          /\ Count(pc', "send_wait") = Count(p, "send_wait") - 1
          /\ Count(pc', "send_woken") = Count(p, "send_woken") + 1
      BY <1>4, <2>1 DEF CountMoved
    <2> QED
      BY <1>0, <1>2, <2>2 DEF WakeInv, Numbers
  <1>5. CASE pc' = p /\ ~(capacity_ > 0)
    BY <1>0, <1>2, <1>5 DEF WakeInv, Numbers
  <1> QED
    BY <1>3, <1>4, <1>5, <1>p DEF Pop, NotifyOne

\* A thread that leaves the mutex without touching the buffer: it returns from
\* a closed or a full channel, or it starts to wait because it found nothing.
LEMMA LeaveWake ==
    ASSUME TypeInv, Numbers, WakeInv, NEW t \in Threads, NEW a \in PC, Leave(t, a),
           \/ a = "idle" /\ (closed_ \/ pc[t] = "idle")
           \/ /\ a = "send_wait" /\ pc[t] \in {"idle", "send_woken"}
              /\ ~closed_ /\ capacity_ <= Len(buffer_)
           \/ /\ a = "recv_wait" /\ pc[t] \in {"idle", "recv_woken"}
              /\ ~closed_ /\ Len(buffer_) = 0
    PROVE  WakeInv'
  <1>0. pc \in [Threads -> PC] /\ t \in Threads /\ a \in PC
    BY DEF TypeInv, TypeOK
  <1> DEFINE q == [pc EXCEPT ![t] = a]
  <1>1. /\ Count(q, "recv_wait") = CountMoved(pc, t, a, "recv_wait")
        /\ Count(q, "recv_woken") = CountMoved(pc, t, a, "recv_woken")
        /\ Count(q, "send_wait") = CountMoved(pc, t, a, "send_wait")
        /\ Count(q, "send_woken") = CountMoved(pc, t, a, "send_woken")
    BY ONLY <1>0, MoveCounts
  <1>2. /\ pc' = q /\ buffer_' = buffer_ /\ capacity_' = capacity_ /\ closed_' = closed_
    BY DEF Leave
  <1>3. /\ Count(q, "recv_wait") \in Nat /\ Count(q, "recv_woken") \in Nat
        /\ Count(q, "send_wait") \in Nat /\ Count(q, "send_woken") \in Nat
    BY CountIsNat
  <1> HIDE DEF q
  <1>4. CASE a = "idle" /\ closed_
    BY <1>1, <1>2, <1>3, <1>4 DEF CountMoved, WakeInv, Numbers
  <1>5. CASE a = "idle" /\ pc[t] = "idle"
    BY <1>1, <1>2, <1>3, <1>5 DEF CountMoved, WakeInv, Numbers
  <1>6. CASE a = "send_wait" /\ pc[t] \in {"idle", "send_woken"}
             /\ ~closed_ /\ capacity_ <= Len(buffer_)
    BY <1>1, <1>2, <1>3, <1>6 DEF CountMoved, WakeInv, Numbers
  <1>7. CASE a = "recv_wait" /\ pc[t] \in {"idle", "recv_woken"}
             /\ ~closed_ /\ Len(buffer_) = 0
    BY <1>1, <1>2, <1>3, <1>7 DEF CountMoved, WakeInv, Numbers
  <1> QED
    BY <1>4, <1>5, <1>6, <1>7

\* receive(), on entry or after a wait, keeps a woken thread for every message
\* and every free slot that a sleeping thread could use.
LEMMA ReceiveWake ==
    ASSUME TypeInv, Numbers, WakeInv, NEW t \in Threads,
           pc[t] \in {"idle", "recv_woken"}, ReceiveLocked(t)
    PROVE  WakeInv'
  <1>1. CASE Pop(t)
    BY <1>1, PopWake
  <1>2. CASE closed_ /\ Leave(t, "idle")
    BY <1>2, LeaveWake DEF PC
  <1>3. CASE buffer_ = <<>> /\ ~closed_ /\ Leave(t, "recv_wait")
    <2>1. Len(buffer_) = 0
      BY <1>3
    <2> QED
      BY <1>3, <2>1, LeaveWake DEF PC
  <1> QED
    BY <1>1, <1>2, <1>3 DEF ReceiveLocked

\* send(), on entry or after a wait, does the same.
LEMMA SendWake ==
    ASSUME TypeInv, Numbers, WakeInv, NEW t \in Threads, NEW m \in Messages,
           pc[t] \in {"idle", "send_woken"}, SendLocked(t, m)
    PROVE  WakeInv'
  <1>1. CASE closed_ /\ Leave(t, "idle")
    BY <1>1, LeaveWake DEF PC
  <1>2. CASE ~closed_ /\ Push(t, m)
    BY <1>2, PushWake
  <1>3. CASE ~closed_ /\ ~HasRoom /\ Leave(t, "send_wait")
    <2>1. capacity_ <= Len(buffer_)
      BY <1>3 DEF HasRoom, Numbers
    <2> QED
      BY <1>3, <2>1, LeaveWake DEF PC
  <1> QED
    BY <1>1, <1>2, <1>3 DEF SendLocked

\* No operation of the channel loses a wake-up, spurious ones included.
LEMMA WakeStep == TypeInv /\ WakeInv /\ [Next]_vars => WakeInv'
  <1> SUFFICES ASSUME TypeInv, WakeInv, [Next]_vars PROVE WakeInv'
    OBVIOUS
  <1>0. Numbers
    BY NumbersAreNat
  <1>1. ASSUME NEW t \in Threads, Send(t) PROVE WakeInv'
    BY <1>0, <1>1, OfferedIsMessage, SendWake DEF Send, Offer
  <1>2. ASSUME NEW t \in Threads, SendResume(t) PROVE WakeInv'
    BY <1>0, <1>2, OfferedIsMessage, SendWake DEF SendResume
  <1>3. ASSUME NEW t \in Threads, TrySend(t) PROVE WakeInv'
    <2>1. pc[t] = "idle" /\ <<t, sends[t] + 1>> \in Messages
      BY <1>3, OfferedIsMessage DEF TrySend, Offer
    <2>2. CASE ~closed_ /\ Push(t, <<t, sends[t] + 1>>)
      BY <1>0, <2>1, <2>2, PushWake
    <2>3. CASE Leave(t, "idle")
      BY <1>0, <2>1, <2>3, LeaveWake DEF PC
    <2> QED
      BY <1>3, <2>2, <2>3 DEF TrySend
  <1>4. ASSUME NEW t \in Threads, Receive(t) \/ ReceiveResume(t) PROVE WakeInv'
    BY <1>0, <1>4, ReceiveWake DEF Receive, ReceiveResume
  <1>5. ASSUME NEW t \in Threads, TryReceive(t) PROVE WakeInv'
    <2>1. pc[t] = "idle"
      BY <1>5 DEF TryReceive
    <2>2. CASE Pop(t)
      BY <1>0, <2>1, <2>2, PopWake
    <2>3. CASE Leave(t, "idle")
      BY <1>0, <2>1, <2>3, LeaveWake DEF PC
    <2> QED
      BY <1>5, <2>2, <2>3 DEF TryReceive
  <1>6. ASSUME NEW t \in Threads, Close(t) PROVE WakeInv'
    <2>1. \A u \in Threads : pc'[u] # "recv_wait" /\ pc'[u] # "send_wait"
      BY <1>6 DEF Close
    <2>2. Count(pc', "recv_wait") = 0 /\ Count(pc', "send_wait") = 0
      BY <2>1, CountIsNat
    <2> QED
      BY <2>2 DEF WakeInv
  <1>7. ASSUME NEW t \in Threads, SpuriousWakeup(t) PROVE WakeInv'
    <2>1. PICK a \in PC : /\ pc' = [pc EXCEPT ![t] = a]
                          /\ \/ a = "send_woken" /\ pc[t] = "send_wait"
                             \/ a = "recv_woken" /\ pc[t] = "recv_wait"
      BY <1>7 DEF SpuriousWakeup, PC
    <2>2. pc \in [Threads -> PC] /\ t \in Threads /\ a \in PC
      BY DEF TypeInv, TypeOK
    <2> DEFINE q == [pc EXCEPT ![t] = a]
    <2>3. /\ Count(q, "recv_wait") = CountMoved(pc, t, a, "recv_wait")
          /\ Count(q, "recv_woken") = CountMoved(pc, t, a, "recv_woken")
          /\ Count(q, "send_wait") = CountMoved(pc, t, a, "send_wait")
          /\ Count(q, "send_woken") = CountMoved(pc, t, a, "send_woken")
      BY ONLY <2>2, MoveCounts
    <2>4. pc' = q /\ buffer_' = buffer_ /\ capacity_' = capacity_ /\ closed_' = closed_
      BY <1>7, <2>1 DEF SpuriousWakeup
    <2>5. \/ a = "send_woken" /\ pc[t] = "send_wait"
          \/ a = "recv_woken" /\ pc[t] = "recv_wait"
      BY <2>1
    <2> HIDE DEF q
    <2> QED
      BY <1>0, <2>3, <2>4, <2>5 DEF CountMoved, WakeInv, Numbers
  <1>8. CASE UNCHANGED vars
    BY <1>8 DEF vars, WakeInv
  <1> QED
    BY <1>1, <1>2, <1>3, <1>4, <1>5, <1>6, <1>7, <1>8 DEF Next

\* Nobody sleeps in a new channel.
LEMMA WakeInit == Init => WakeInv
  <1> SUFFICES ASSUME Init PROVE WakeInv
    OBVIOUS
  <1>1. \A t \in Threads : pc[t] # "recv_wait" /\ pc[t] # "send_wait"
    BY DEF Init
  <1>2. Count(pc, "recv_wait") = 0 /\ Count(pc, "send_wait") = 0
    BY <1>1, CountIsNat
  <1> QED
    BY <1>2 DEF WakeInv

\* A receiver sleeps only while every buffered message has a receiver already
\* woken for it: notify_one() under the mutex loses no wake-up.
THEOREM ChannelWakesReceivers == Spec => []NoLostWakeupReceive
  <1>1. TypeInv /\ WakeInv => NoLostWakeupReceive
    <2> SUFFICES ASSUME TypeInv, WakeInv, At("recv_wait") # {}
                 PROVE  ~closed_ /\ Len(buffer_) <= Cardinality(At("recv_woken"))
      BY DEF NoLostWakeupReceive
    <2>1. Count(pc, "recv_wait") \in Nat /\ Count(pc, "recv_wait") # 0
      BY CountIsNat DEF At
    <2> QED
      BY <2>1 DEF WakeInv, At, Count
  <1> QED
    BY <1>1, TypeInit, TypeStep, WakeInit, WakeStep, PTL DEF Spec

\* A sender sleeps only while every free slot has a sender already woken for it.
THEOREM ChannelWakesSenders == Spec => []NoLostWakeupSend
  <1>1. TypeInv /\ WakeInv => NoLostWakeupSend
    <2> SUFFICES ASSUME TypeInv, WakeInv, At("send_wait") # {}
                 PROVE  ~closed_ /\ capacity_ <= Len(buffer_) + Cardinality(At("send_woken"))
      BY DEF NoLostWakeupSend
    <2>1. Count(pc, "send_wait") \in Nat /\ Count(pc, "send_wait") # 0
      BY CountIsNat DEF At
    <2> QED
      BY <2>1 DEF WakeInv, At, Count
  <1> QED
    BY <1>1, TypeInit, TypeStep, WakeInit, WakeStep, PTL DEF Spec

\* No wake-up of Channel<T> is lost, on either of its condition variables.
THEOREM ChannelWakes == Spec => []NoLostWakeup
  BY ChannelWakesReceivers, ChannelWakesSenders, PTL DEF NoLostWakeup

-----------------------------------------------------------------------------
(* Refinement                                                              *)

\* A push appends to the abstract log, within the abstract capacity.
LEMMA PushAccepts ==
    ASSUME TypeInv, DataInv, NEW t \in Threads, NEW m \in Messages,
           Push(t, m), ~closed_, HasRoom, capacity_ > 0
    PROVE  Abstract!Next
  <1>1. received \in Seq(Messages) /\ buffer_ \in Seq(Messages) /\ capacity_ \in Nat
    BY CapacitiesAssumption DEF TypeInv, TypeOK
  <1>2. Len(received \o buffer_) = Len(received) + Len(buffer_)
        /\ Len(received) \in Nat /\ Len(buffer_) \in Nat
    BY ONLY <1>1
  <1>3. Len(sent) < Len(received) + capacity_
    BY <1>1, <1>2 DEF HasRoom, DataInv, FifoNoLoss
  <1>4. Abstract!Accept(m)
    BY <1>3 DEF Push, Abstract!Accept
  <1> QED
    BY <1>4 DEF Abstract!Next

\* A pop delivers the oldest undelivered message of the log.
LEMMA PopDelivers ==
    ASSUME TypeInv, DataInv, NEW t \in Threads, Pop(t)
    PROVE  Abstract!Next
  <1>1. received \in Seq(Messages) /\ buffer_ \in Seq(Messages) /\ buffer_ # <<>>
    BY DEF TypeInv, TypeOK, Pop
  <1>2. /\ Len(received) < Len(received \o buffer_)
        /\ (received \o buffer_)[Len(received) + 1] = Head(buffer_)
    <2>1. Len(received) \in Nat /\ Len(buffer_) \in Nat /\ Len(buffer_) > 0
      BY ONLY <1>1, EmptySeq, LenProperties
    <2> QED
      BY ONLY <1>1, <2>1
  <1>3. Abstract!Deliver
    BY <1>2 DEF Pop, DataInv, FifoNoLoss, Abstract!Deliver
  <1> QED
    BY <1>3 DEF Abstract!Next

\* Every step of a channel with a capacity is a step of the abstract log or
\* invisible to it.
LEMMA AbstractStep ==
    TypeInv /\ DataInv /\ capacity_ > 0 /\ [Next]_vars => [Abstract!Next]_(Abstract!vars)
  <1> SUFFICES ASSUME TypeInv, DataInv, capacity_ > 0, [Next]_vars
               PROVE  Abstract!Next \/ UNCHANGED Abstract!vars
    OBVIOUS
  <1>1. ASSUME NEW t \in Threads, NEW l, Leave(t, l), UNCHANGED ended
        PROVE  UNCHANGED Abstract!vars
    BY <1>1 DEF Leave, Abstract!vars
  <1>2. ASSUME NEW t \in Threads, Send(t)
        PROVE  Abstract!Next \/ UNCHANGED Abstract!vars
    BY <1>1, <1>2, OfferedIsMessage, PushAccepts DEF Send, SendLocked
  <1>3. ASSUME NEW t \in Threads, SendResume(t)
        PROVE  Abstract!Next \/ UNCHANGED Abstract!vars
    BY <1>1, <1>3, OfferedIsMessage, PushAccepts DEF SendResume, SendLocked
  <1>4. ASSUME NEW t \in Threads, TrySend(t)
        PROVE  Abstract!Next \/ UNCHANGED Abstract!vars
    BY <1>1, <1>4, OfferedIsMessage, PushAccepts DEF TrySend
  <1>5. ASSUME NEW t \in Threads, ReceiveLocked(t)
        PROVE  Abstract!Next \/ UNCHANGED Abstract!vars
    <2>1. CASE Pop(t)
      BY <2>1, PopDelivers
    <2>2. CASE buffer_ = <<>> /\ closed_ /\ Leave(t, "idle") /\ ended' = ended \cup {t}
      <3>1. sent = received
        BY <2>2, ConcatEmptySeq DEF DataInv, FifoNoLoss, TypeInv, TypeOK
      <3>2. Abstract!TellEnd(t)
        BY <2>2, <3>1 DEF Leave, Abstract!TellEnd
      <3> QED
        BY <3>2 DEF Abstract!Next
    <2>3. CASE Leave(t, "recv_wait") /\ UNCHANGED <<sends, ended>>
      BY <1>1, <2>3
    <2> QED
      BY <1>5, <2>1, <2>2, <2>3 DEF ReceiveLocked
  <1>6. ASSUME NEW t \in Threads, TryReceive(t)
        PROVE  Abstract!Next \/ UNCHANGED Abstract!vars
    BY <1>1, <1>6, PopDelivers DEF TryReceive
  <1>7. ASSUME NEW t \in Threads, Close(t)
        PROVE  Abstract!Next \/ UNCHANGED Abstract!vars
    BY <1>7 DEF Close, Abstract!Shut, Abstract!Next
  <1>8. ASSUME NEW t \in Threads, SpuriousWakeup(t)
        PROVE  UNCHANGED Abstract!vars
    BY <1>8 DEF SpuriousWakeup, Abstract!vars
  <1>9. CASE UNCHANGED vars
    BY <1>9 DEF vars, Abstract!vars
  <1> QED
    BY <1>2, <1>3, <1>4, <1>5, <1>6, <1>7, <1>8, <1>9 DEF Next, Receive, ReceiveResume

\* The capacity of a channel is fixed when it is made.
LEMMA CapacityStep == [Next]_vars => capacity_' = capacity_
  BY DEF Next, vars, Send, SendResume, TrySend, Receive, ReceiveResume, TryReceive, Close,
         SpuriousWakeup, SendLocked, ReceiveLocked, Push, Pop, Leave

LEMMA AbstractInit == Init /\ capacity_ > 0 => Abstract!Init
  BY CapacitiesAssumption DEF Init, Abstract!Init

\* A Channel<T> with a capacity implements the abstract FIFO log with a limit and
\* an end, as the run states it.
THEOREM ChannelImplementsFifo == Spec => ImplementsFifo
  <1>1. Init => (capacity_ > 0 => Abstract!Init)
    BY AbstractInit
  <1>2. TypeInv /\ DataInv /\ [Next]_vars => [capacity_ > 0 => Abstract!Next]_(Abstract!vars)
    BY AbstractStep
  <1> QED
    BY <1>1, <1>2, TypeInit, TypeStep, DataInit, DataStep, PTL DEF Spec, ImplementsFifo

\* The same in terms of the abstract specification: every behaviour of a
\* Channel<T> that was made with a capacity is one of FifoChannel.
THEOREM ChannelRefines == Spec => (capacity_ > 0 => Abstract!Spec)
  <1>1. capacity_ > 0 /\ [Next]_vars => (capacity_ > 0)'
    BY CapacityStep
  <1> QED
    BY <1>1, AbstractInit, AbstractStep, TypeInit, TypeStep, DataInit, DataStep, PTL
    DEF Spec, Abstract!Spec
=============================================================================
