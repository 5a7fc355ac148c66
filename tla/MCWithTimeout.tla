---------------------------- MODULE MCWithTimeout ----------------------------
(***************************************************************************)
(* with_timeout() of a function that yields any number of times, possibly  *)
(* for ever, called by the main thread.                                    *)
(***************************************************************************)
EXTENDS WithTimeout

\* The main thread spawns both tasks.
MCParent == [t \in Tasks |-> Main]
=============================================================================
