----------------------------- MODULE MCKodeScope -----------------------------
(***************************************************************************)
(* KodeScope with two scopes, one of two tasks and one of the others.      *)
(***************************************************************************)
EXTENDS KodeScope

CONSTANTS s1, s2, t1

\* t1 belongs to the second scope, every other task to the first.
MCOwner == [t \in Tasks |-> IF t = t1 THEN s2 ELSE s1]
=============================================================================
