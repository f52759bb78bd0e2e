---------------------------- MODULE AuthVerdicts ----------------------------
(***************************************************************************)
(* What the chat server and the authentication server agree on: the        *)
(* answers a request can get.  The chat server model takes them as the     *)
(* behaviour of its peer; the model of the authentication server is shown  *)
(* to give no others.                                                      *)
(***************************************************************************)
EXTENDS Naturals, Sequences

Verdicts == {"authOk", "authFail", "regOk", "regFail"}

\* Mutant: a branch of the login's failures sends nothing.
VerdictsOrNone(req) ==
    IF req.type = "login" THEN {<<"authOk">>, <<"authFail">>, <<>>} ELSE {<<"regOk">>}

\* All the answers to one request, in order.  Failure branches of the handler
\* do not return, so several can be sent.
VerdictsOn(req) ==
    IF req.type = "login"
    THEN {<<"authOk">>, <<"authFail">>, <<"authFail", "authFail">>}
    ELSE {<<"regOk">>, <<"regFail">>, <<"regFail", "regOk">>, <<"regFail", "regFail">>,
          <<"regFail", "regFail", "regOk">>, <<"regFail", "regFail", "regFail">>}
=============================================================================
