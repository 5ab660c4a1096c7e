---------------------------- MODULE MCSchemaMeta ----------------------------
(***************************************************************************)
(* Two schemas besides the meta schema, one of them in its chain.          *)
(***************************************************************************)
EXTENDS SchemaMeta, TLC

MCSYS == <<"s">>
MCKeys == {<<"a">>, <<"b">>}
MCHash == <<"s">> :> 3 @@ <<"a">> :> 4 @@ <<"b">> :> 5
MCJump == 3 :> 0 @@ 4 :> 0 @@ 5 :> 1

ASSUME NamesArePrefixFree == PrefixFree(Names)
=============================================================================
