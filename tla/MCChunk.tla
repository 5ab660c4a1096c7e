------------------------------- MODULE MCChunk ------------------------------
(***************************************************************************)
(* Two threads on a chunk that is new or has three bytes of an earlier     *)
(* server.  A length of 3 takes two system calls, one of 4 is negative as  *)
(* an int.                                                                 *)
(***************************************************************************)
EXTENDS Chunk

MCContents == {<<>>, [k \in 1..3 |-> <<0, k>>]}
=============================================================================
