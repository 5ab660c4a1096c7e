------------------------------ MODULE MCTables ------------------------------
(***************************************************************************)
(* Three keys in one chain, two of them beginning alike, and two keys in   *)
(* the other chain that are related to them by a prefix.                   *)
(***************************************************************************)
EXTENDS Tables

MCKeys == {<<"a", "b">>, <<"a", "c">>, <<"b">>, <<"a">>, <<"b", "c">>}
MCHash == [k \in MCKeys |-> IF k \in {<<"a">>, <<"b", "c">>} THEN 7 ELSE Len(k)]
MCJump == [h \in {1, 2, 7} |-> IF h = 7 THEN 1 ELSE 0]

ASSUME KeysArePrefixFree == PrefixFree(MCKeys)
=============================================================================
