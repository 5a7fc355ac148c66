----------------------------- MODULE FifoChannel -----------------------------
(***************************************************************************)
(* What a buffered Channel<T> promises, without its buffer, its mutex and  *)
(* its condition variables: accepted messages form a log, deliveries read  *)
(* the log in order and exactly once, no more than capacity messages are   *)
(* accepted ahead of the deliveries, closing stops acceptance for ever,    *)
(* and a receiver is told that the channel has ended only when the log has *)
(* been delivered to its last message.  Of capacity 0, an unbuffered       *)
(* channel to src/src/concurrency/README.md:31 and one without a limit to  *)
(* the code, it says nothing.                                              *)
(***************************************************************************)
EXTENDS Naturals, Sequences

CONSTANTS Threads,    \* the threads that call the channel
          Messages    \* what can be sent

VARIABLES capacity,   \* the limit, fixed when the channel is made
          accepted,   \* the log of accepted messages
          delivered,  \* the messages handed to receivers, in order
          closed,     \* close() has been called
          told        \* the threads that were told the channel has ended

vars == <<capacity, accepted, delivered, closed, told>>

Init ==
    /\ capacity \in Nat \ {0}
    /\ accepted = <<>>
    /\ delivered = <<>>
    /\ closed = FALSE
    /\ told = {}

Accept(m) ==
    /\ ~closed
    /\ Len(accepted) < Len(delivered) + capacity
    /\ accepted' = Append(accepted, m)
    /\ UNCHANGED <<capacity, delivered, closed, told>>

Deliver ==
    /\ Len(delivered) < Len(accepted)
    /\ delivered' = Append(delivered, accepted[Len(delivered) + 1])
    /\ UNCHANGED <<capacity, accepted, closed, told>>

Shut ==
    /\ closed' = TRUE
    /\ UNCHANGED <<capacity, accepted, delivered, told>>

TellEnd(t) ==
    /\ closed
    /\ Len(delivered) = Len(accepted)
    /\ told' = told \cup {t}
    /\ UNCHANGED <<capacity, accepted, delivered, closed>>

Next ==
    \/ \E m \in Messages : Accept(m)
    \/ Deliver
    \/ Shut
    \/ \E t \in Threads : TellEnd(t)

Spec == Init /\ [][Next]_vars
=============================================================================
