----------------------------- MODULE MCDirScan ------------------------------
(***************************************************************************)
(* Instances of DirScan: blocks of four bytes.                             *)
(***************************************************************************)
EXTENDS DirScan, TLC

E(i, n, l) == [inode |-> i, name |-> n, rec_len |-> l]

(* Three blocks: a deleted entry at the start of the second block, an      *)
(* entry spanning a whole block, a deleted copy of a name in use.          *)
Mixed == << 0 :> E(11, "a", 2) @@ 2 :> E(0, "c", 2),
            0 :> E(0, "b", 2) @@ 2 :> E(12, "b", 2),
            0 :> E(13, "c", 1) @@ 1 :> E(14, "d", 1) @@ 2 :> E(0, "", 2) >>

(* Nothing in use behind the first entry.                                  *)
Emptied == << 0 :> E(21, "a", 4), 0 :> E(0, "b", 4) >>

(* No entry in use at all.                                                 *)
NothingLeft == << 0 :> E(0, "a", 4) >>

(* Entries of one block each.                                              *)
Wide == << 0 :> E(31, "d", 4), 0 :> E(32, "c", 4), 0 :> E(33, "a", 4) >>

MCDirs == <<Mixed, Emptied, NothingLeft, Wide>>
MCNames == {"a", "b", "c", "d", "e"}
=============================================================================
