------------------------------- MODULE MCParser -------------------------------
(***************************************************************************)
(* Programs of up to MaxLines lines out of a set in which every branch of  *)
(* Parse() occurs, and one call with every argument text of up to MaxText  *)
(* tokens.                                                                 *)
(***************************************************************************)
EXTENDS Parser

CONSTANTS MaxLines, MaxText

Line(kind, text) == [kind |-> kind, text |-> text]

Lines == {
    Line("CONSOLE_LOG", <<"(", "a", ")">>),
    Line("CONSOLE_LOG", <<"(", "err", ")">>),
    Line("CH_SEND", <<"(", "sq", "a", "sq", "comma", "a", ")", "//", "open">>),
    Line("SET_TIMEOUT", <<"(", "=>", "open">>),
    Line("CONST_DECLARATION", <<"=>", "open", "close">>),
    Line("UNKNOWN", <<"(", ")", "open">>),
    Line("UNKNOWN", <<"close", "err", "open">>),
    Line("UNKNOWN", <<"close", ")">>),
    Line("UNKNOWN", <<"space", "//", "close">>)}

Texts == BoundedSeq({"(", ")", "comma", "sq", "bs", "a", "space"}, MaxText)

MCPrograms ==
    BoundedSeq(Lines, MaxLines) \cup {<<Line("CH_SEND", <<"(">> \o t \o <<")">>)>> : t \in Texts}
=============================================================================
