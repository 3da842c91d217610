---------------------------- MODULE MCMockRouter ----------------------------
(* A finite instance of MockRouter for TLC.                                *)
EXTENDS MockRouter

Effect(kind, items) == [kind |-> kind, items |-> items]

(* Two scripts, of which each call shows which one it came from, one of    *)
(* them the retry script of the clients' tests; an exception, a callable,  *)
(* and the Response that the type of side_effect admits.                   *)
MCSideEffects == {Effect("list", <<"error", "ok">>), Effect("list", <<"other">>),
                  Effect("exception", <<"error">>), Effect("callable", <<"ok">>),
                  Effect("response", <<"ok">>)}

=============================================================================
