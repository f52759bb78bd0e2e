---------------------------- MODULE MCChatClient ----------------------------
(***************************************************************************)
(* ChatClient for TLC: the lines a user types.                             *)
(***************************************************************************)
EXTENDS ChatClient

MCLines == { <<"1">>, <<"3">>, <<"ann">>, <<"full">>, <<"long">>,
             <<"/join", "tea">>, <<"/say", "tea", "long">>, <<"/quit">> }
=============================================================================
