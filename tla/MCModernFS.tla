------------------------------ MODULE MCModernFS ------------------------------
(***************************************************************************)
(* ModernFS with a file f1 two directories deep, which a long and a short  *)
(* write create together with its parents; a write of a file in the place  *)
(* of the outer directory; a read of f1, and an info of the outer          *)
(* directory.                                                              *)
(***************************************************************************)
EXTENDS ModernFS

CONSTANTS f1,            \* a file
          d1, d2,        \* directories
          w1, w3, i1

MCChain == [f \in Paths |-> IF f = f1 THEN <<d1, d2>> ELSE <<>>]
MCPathOf == [r \in Requests |-> IF r \in {w3, i1} THEN d1 ELSE f1]
MCLength == [w \in Writes |-> IF w = w1 THEN 2 ELSE 1]
=============================================================================
