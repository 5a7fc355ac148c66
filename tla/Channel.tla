------------------------------- MODULE Channel -------------------------------
(***************************************************************************)
(* Channel<T> of src/src/concurrency/task.h: a std::queue guarded by one   *)
(* mutex and two condition variables, not_empty_ and not_full_.            *)
(*                                                                         *)
(* Every operation holds mutex_ from its first to its last access of the   *)
(* shared state, except while it waits on a condition variable, so an      *)
(* action is one critical section: from taking the mutex to returning or   *)
(* to blocking in wait().  A waiter that has been notified (or has woken   *)
(* up spuriously) must take the mutex again and re-evaluates its           *)
(* predicate in an action of its own, after whatever other threads did in  *)
(* between.                                                                *)
(*                                                                         *)
(* A message is named by its sender and its serial number, so that a lost, *)
(* duplicated or reordered message is visible.                             *)
(***************************************************************************)
EXTENDS Naturals, Sequences, FiniteSets

CONSTANTS Threads,      \* OS threads that share the channel
          Capacities,   \* the capacities the constructor may be given
          MaxSends      \* bound: calls of send or try_send by one thread

ASSUME ThreadsAssumption == IsFiniteSet(Threads)
ASSUME CapacitiesAssumption == Capacities \subseteq Nat
ASSUME MaxSendsAssumption == MaxSends \in Nat

VARIABLES
    buffer_,    \* std::queue<T>
    capacity_,  \* fixed by the constructor
    closed_,
    pc,         \* where each thread is, see PC below
    sends,      \* messages each thread has offered so far
    sent,       \* history: messages pushed, in order
    received,   \* history: messages popped, in order
    ended       \* history: threads whose receive() returned false

vars == <<buffer_, capacity_, closed_, pc, sends, sent, received, ended>>

(***************************************************************************)
(* A thread is outside the channel, blocked in one of the two waits, or    *)
(* notified and about to take the mutex again.                             *)
(***************************************************************************)
PC == {"idle", "send_wait", "send_woken", "recv_wait", "recv_woken"}

Messages == Threads \X (1..MaxSends)

\* The message the current send or try_send of t offers.
MessageOf(t) == <<t, sends[t]>>

At(l) == {t \in Threads : pc[t] = l}

TypeOK ==
    /\ buffer_ \in Seq(Messages)
    /\ capacity_ \in Capacities
    /\ closed_ \in BOOLEAN
    /\ pc \in [Threads -> PC]
    /\ sends \in [Threads -> 0..MaxSends]
    /\ sent \in Seq(Messages)
    /\ received \in Seq(Messages)
    /\ ended \subseteq Threads

Init ==
    /\ buffer_ = <<>>
    /\ capacity_ \in Capacities
    /\ closed_ = FALSE
    /\ pc = [t \in Threads |-> "idle"]
    /\ sends = [t \in Threads |-> 0]
    /\ sent = <<>>
    /\ received = <<>>
    /\ ended = {}

-----------------------------------------------------------------------------
(* Condition variables (the C++ library; modelled from their use)          *)

\* notify_one() on the condition whose waiters are at "wait", by a thread
\* that leaves the others as p has them: one waiter is released, any one.
NotifyOne(p, wait, woken) ==
    \/ /\ \A u \in Threads : p[u] # wait
       /\ pc' = p
    \/ \E u \in Threads :
          /\ p[u] = wait
          /\ pc' = [p EXCEPT ![u] = woken]

\* wait() may also return without a notification.
SpuriousWakeup(t) ==
    /\ \/ pc[t] = "send_wait" /\ pc' = [pc EXCEPT ![t] = "send_woken"]
       \/ pc[t] = "recv_wait" /\ pc' = [pc EXCEPT ![t] = "recv_woken"]
    /\ UNCHANGED <<buffer_, capacity_, closed_, sends, sent, received, ended>>

-----------------------------------------------------------------------------
(* The critical sections                                                   *)

\* Mutant: off by one at the capacity.
MutantRoomOffByOne == capacity_ = 0 \/ Len(buffer_) <= capacity_

HasRoom == capacity_ = 0 \/ Len(buffer_) < capacity_

\* Mutant: notify only when the queue was empty before the push.
MutantPushNotifyIfEmpty(t, m) ==
    /\ buffer_' = Append(buffer_, m)
    /\ sent' = Append(sent, m)
    /\ IF buffer_ = <<>>
         THEN NotifyOne([pc EXCEPT ![t] = "idle"], "recv_wait", "recv_woken")
         ELSE pc' = [pc EXCEPT ![t] = "idle"]
    /\ UNCHANGED <<capacity_, closed_, received, ended>>

\* Mutant: push notifies the wrong condition variable.
MutantPushNotifyFull(t, m) ==
    /\ buffer_' = Append(buffer_, m)
    /\ sent' = Append(sent, m)
    /\ NotifyOne([pc EXCEPT ![t] = "idle"], "send_wait", "send_woken")
    /\ UNCHANGED <<capacity_, closed_, received, ended>>

\* buffer_.push(value); not_empty_.notify_one(); return true
Push(t, m) ==
    /\ buffer_' = Append(buffer_, m)
    /\ sent' = Append(sent, m)
    /\ NotifyOne([pc EXCEPT ![t] = "idle"], "recv_wait", "recv_woken")
    /\ UNCHANGED <<capacity_, closed_, received, ended>>

\* Mutant: the value is read from the back of the queue.
MutantPopBack(t) ==
    /\ buffer_ # <<>>
    /\ buffer_' = Tail(buffer_)
    /\ received' = Append(received, buffer_[Len(buffer_)])
    /\ IF capacity_ > 0
         THEN NotifyOne([pc EXCEPT ![t] = "idle"], "send_wait", "send_woken")
         ELSE pc' = [pc EXCEPT ![t] = "idle"]
    /\ UNCHANGED <<capacity_, closed_, sends, sent, ended>>

\* value = front(); pop(); not_full_.notify_one() on a bounded channel
Pop(t) ==
    /\ buffer_ # <<>>
    /\ buffer_' = Tail(buffer_)
    /\ received' = Append(received, Head(buffer_))
    /\ IF capacity_ > 0
         THEN NotifyOne([pc EXCEPT ![t] = "idle"], "send_wait", "send_woken")
         ELSE pc' = [pc EXCEPT ![t] = "idle"]
    /\ UNCHANGED <<capacity_, closed_, sends, sent, ended>>

\* The thread gives up the mutex: it returns to its caller or blocks.
Leave(t, l) ==
    /\ pc' = [pc EXCEPT ![t] = l]
    /\ UNCHANGED <<buffer_, capacity_, closed_, sent, received>>

\* send() with the mutex held: on entry and after every return of wait().
SendLocked(t, m) ==
    \/ closed_ /\ Leave(t, "idle") /\ UNCHANGED ended
    \/ ~closed_ /\ HasRoom /\ Push(t, m)
    \/ ~closed_ /\ ~HasRoom /\ Leave(t, "send_wait") /\ UNCHANGED ended

\* Mutant: a closed channel answers "ended" before it is drained.
MutantReceiveClosedFirst(t) ==
    \/ ~closed_ /\ Pop(t)
    \/ /\ closed_
       /\ Leave(t, "idle")
       /\ ended' = ended \cup {t}
       /\ UNCHANGED sends
    \/ /\ buffer_ = <<>> /\ ~closed_
       /\ Leave(t, "recv_wait")
       /\ UNCHANGED <<sends, ended>>

\* receive() with the mutex held.
ReceiveLocked(t) ==
    \/ Pop(t)
    \/ /\ buffer_ = <<>> /\ closed_
       /\ Leave(t, "idle")
       /\ ended' = ended \cup {t}
       /\ UNCHANGED sends
    \/ /\ buffer_ = <<>> /\ ~closed_
       /\ Leave(t, "recv_wait")
       /\ UNCHANGED <<sends, ended>>

-----------------------------------------------------------------------------
(* The operations                                                          *)

Offer(t) ==
    /\ pc[t] = "idle"
    /\ sends[t] < MaxSends
    /\ sends' = [sends EXCEPT ![t] = @ + 1]

Send(t) ==
    /\ Offer(t)
    /\ SendLocked(t, <<t, sends[t] + 1>>)

\* Mutant: closed_ is not checked again after the wait.
MutantResumeIgnoresClose(t) ==
    /\ pc[t] = "send_woken"
    /\ \/ (HasRoom \/ closed_) /\ Push(t, MessageOf(t))
       \/ ~HasRoom /\ ~closed_ /\ Leave(t, "send_wait") /\ UNCHANGED ended
    /\ UNCHANGED sends

SendResume(t) ==
    /\ pc[t] = "send_woken"
    /\ SendLocked(t, MessageOf(t))
    /\ UNCHANGED sends

Receive(t) ==
    /\ pc[t] = "idle"
    /\ ReceiveLocked(t)

ReceiveResume(t) ==
    /\ pc[t] = "recv_woken"
    /\ ReceiveLocked(t)

TrySend(t) ==
    /\ Offer(t)
    /\ \/ ~closed_ /\ HasRoom /\ Push(t, <<t, sends[t] + 1>>)
       \/ (closed_ \/ ~HasRoom) /\ Leave(t, "idle") /\ UNCHANGED ended

TryReceive(t) ==
    /\ pc[t] = "idle"
    /\ \/ Pop(t)
       \/ buffer_ = <<>> /\ Leave(t, "idle") /\ UNCHANGED <<sends, ended>>

\* Mutant: close() wakes the receivers and forgets the senders.
MutantCloseReceiversOnly(t) ==
    /\ pc[t] = "idle"
    /\ closed_' = TRUE
    /\ pc' = [u \in Threads |->
                IF pc[u] = "recv_wait" THEN "recv_woken" ELSE pc[u]]
    /\ UNCHANGED <<buffer_, capacity_, sends, sent, received, ended>>

\* close(), which the destructor calls too: both conditions notify_all().
Close(t) ==
    /\ pc[t] = "idle"
    /\ closed_' = TRUE
    /\ pc' = [u \in Threads |->
                CASE pc[u] = "recv_wait" -> "recv_woken"
                  [] pc[u] = "send_wait" -> "send_woken"
                  [] OTHER -> pc[u]]
    /\ UNCHANGED <<buffer_, capacity_, sends, sent, received, ended>>

Next ==
    \E t \in Threads :
        \/ Send(t) \/ SendResume(t) \/ TrySend(t)
        \/ Receive(t) \/ ReceiveResume(t) \/ TryReceive(t)
        \/ Close(t)
        \/ SpuriousWakeup(t)

Spec == Init /\ [][Next]_vars

\* A notified waiter gets the mutex back: the critical sections are short and
\* contain no loop, so no thread keeps it for ever.
Fairness == \A t \in Threads : WF_vars(SendResume(t)) /\ WF_vars(ReceiveResume(t))

FairSpec == Spec /\ Fairness

-----------------------------------------------------------------------------
(* Correctness                                                             *)

\* What was pushed is what was popped followed by what is buffered: no
\* message is lost, duplicated or reordered by send, receive, try_send or
\* try_receive, whichever threads call them.
FifoNoLoss == sent = received \o buffer_

\* A bounded channel never buffers more than its capacity, although a sender
\* that was woken for a free slot pushes only after it re-took the mutex, and
\* another sender may have used the slot meanwhile.
CapacityBound == capacity_ > 0 => Len(buffer_) <= capacity_

\* No wake-up is lost on not_empty_: while a thread sleeps in receive(), every
\* buffered message has a receiver that was already woken for it, and none
\* sleeps on a closed channel.
NoLostWakeupReceive ==
    At("recv_wait") # {} =>
        /\ ~closed_
        /\ Len(buffer_) <= Cardinality(At("recv_woken"))

\* No wake-up is lost on not_full_: while a thread sleeps in send(), every
\* free slot has a sender that was already woken for it, and none sleeps on a
\* closed channel.
NoLostWakeupSend ==
    At("send_wait") # {} =>
        /\ ~closed_
        /\ capacity_ <= Len(buffer_) + Cardinality(At("send_woken"))

\* notify_one() is enough for both conditions of Channel<T>, whoever overtakes
\* the thread it woke.
NoLostWakeup == NoLostWakeupReceive /\ NoLostWakeupSend

\* Once receive() has told some thread "closed and empty", nothing is ever
\* buffered again: no sender that was blocked before close() still gets its
\* message in, so no message is stranded behind the end of the channel.
DrainedIsFinal == ended # {} => closed_ /\ buffer_ = <<>>

\* After close(), every call that was blocked in send() or receive() returns.
CloseReleasesWaiters ==
    \A t \in Threads : closed_ /\ pc[t] # "idle" ~> pc[t] = "idle"

\* The k-th message pushed is popped if receivers keep waiting: it cannot stay
\* in the buffer while a call of receive() is blocked for ever.
PushedIsReceived ==
    \A k \in 1 .. MaxSends * Cardinality(Threads) :
        Len(sent) >= k /\ At("recv_wait") # {}
            ~> Len(received) >= k \/ At("recv_wait") = {}

\* A channel with a capacity implements the abstract log of FifoChannel: buffer,
\* waits and wake-ups are invisible, and order, exactly-once delivery, the
\* capacity and the end-of-channel answer are as promised.  Capacity 0, which
\* the documents and the code read differently, is left out: as no step of
\* either changes the capacity, this is capacity_ > 0 => Abstract!Spec.
Abstract == INSTANCE FifoChannel
              WITH capacity <- capacity_, accepted <- sent,
                   delivered <- received, closed <- closed_, told <- ended

ImplementsFifo ==
    /\ capacity_ > 0 => Abstract!Init
    /\ [][capacity_ > 0 => Abstract!Next]_(Abstract!vars)
=============================================================================
