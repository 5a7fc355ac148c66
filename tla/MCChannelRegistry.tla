-------------------------- MODULE MCChannelRegistry --------------------------
(***************************************************************************)
(* Two producers and a consumer on one name, a ping-pong over a second     *)
(* name, and a fourth task that in one program creates the name again and  *)
(* in the other uses JSConcurrency and a name that does not exist.         *)
(***************************************************************************)
EXTENDS ChannelRegistry, TLC

CONSTANTS p1, p2, c1, r1, n1, n2

S(do, name) == [do |-> do, name |-> name]

\* p1 and p2 send two messages each, c1 receives four.
Common ==
    (p1 :> <<S("CH_SEND", n1), S("CH_SEND", n1)>>) @@
    (p2 :> <<S("other", n1), S("CH_SEND", n1), S("CH_SEND", n1)>>) @@
    (c1 :> <<S("CH_RECV", n1), S("CH_RECV", n1), S("CH_RECV", n1), S("CH_RECV", n1)>>)
MCScripts ==
    {Common @@ (r1 :> <<S("CH_SEND", n2), S("js_create", n2), S("js_send", n2), S("js_receive", n2),
                        S("CH_CREATE", n2), S("CH_SEND", n2), S("CH_RECV", n2)>>),
     Common @@ (r1 :> <<S("CH_CREATE", n1), S("CH_CREATE", n1)>>)}
MCCapacity == [x \in Names |-> 1]
=============================================================================
