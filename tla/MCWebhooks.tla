----------------------------- MODULE MCWebhooks -----------------------------
EXTENDS Webhooks, TLC

CONSTANTS e1, e2

(* Two event names, and the filters "everything" and "vm.*".               *)
TwoNames     == {<<"vm", "create">>, <<"ct", "create">>}
SomeFilters  == {{}, {<<"vm", "*">>}}
OneOfEach    == (e1 :> {}) @@ (e2 :> {<<"vm", "*">>})
=============================================================================
