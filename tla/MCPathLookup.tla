---------------------------- MODULE MCPathLookup ----------------------------
(***************************************************************************)
(* Instances of PathLookup: a small image                                  *)
(*                                                                         *)
(*    2 = /    /a = 3 (directory)   /b = 4 (file)   /long = 5 (directory)  *)
(*             /a/b = 6 (file)      /long/a = 7 (file)                     *)
(*                                                                         *)
(* where the name "long" does not fit the name array of a cache entry.     *)
(***************************************************************************)
EXTENDS PathLookup, TLC

MCNames == {"a", "b", "long"}
MCNameLen == "a" :> 1 @@ "b" :> 1 @@ "long" :> 40
MCInodes == 2..7

MCDisk ==
  LET tree == <<2, "a">> :> 3 @@ <<2, "b">> :> 4 @@ <<2, "long">> :> 5
              @@ <<3, "b">> :> 6 @@ <<5, "a">> :> 7
  IN  [x \in MCInodes \X MCNames |-> IF x \in DOMAIN tree THEN tree[x] ELSE 0]

(* Paths whose inner components all fit the cache.                         *)
ShortPaths == {<<>>, <<"a">>, <<"b">>, <<"a", "b">>, <<"a", "a">>, <<"long">>}
RacingPaths == {<<>>, <<"a">>, <<"b">>, <<"a", "b">>}
LongPaths == ShortPaths \cup {<<"long", "a">>}
=============================================================================
