------------------------------ MODULE DirScan -------------------------------
(***************************************************************************)
(* Directories on the disk: inode_dentry_get and its one block buffer      *)
(* (fuse/inode.c), the scan for a name in inode_get_idx_by_path, and       *)
(* op_readdir (fuse/op_readdir.c) as the kernel drives it, resuming from   *)
(* the offset that came with the last entry a process has consumed.        *)
(*                                                                         *)
(* A directory is the sequence of its blocks; a block maps the offset of   *)
(* each of its entries to [inode, name, rec_len], where the rec_lens fill  *)
(* the block.  The entry of a deleted name has inode 0.                    *)
(***************************************************************************)
EXTENDS Integers, Sequences, FiniteSets, SequencesExt

CONSTANTS
  BLOCK_SIZE,   \* bytes in a block
  Dirs,         \* directories, by inode number
  Names,        \* names looked up
  NoName,       \* the empty name
  Capacity,     \* entries that fit the buffer of one readdir request
  MaxRewinds    \* bound: times the process starts over

ASSUME CapacityAssumption == Capacity \in Nat \ {0}

(* The entries of a block fill it: one starts at 0, and each ends where    *)
(* the next one starts, the last one with the block.                       *)
Tiled(block) ==
  /\ 0 \in DOMAIN block /\ DOMAIN block \subseteq 0..(BLOCK_SIZE - 1)
  /\ \A o \in DOMAIN block :
       /\ block[o].inode \in Nat
       /\ block[o].rec_len \in Nat \ {0}
       /\ o + block[o].rec_len \in DOMAIN block \cup {BLOCK_SIZE}
       /\ \A p \in DOMAIN block : p > o => p >= o + block[o].rec_len

(* A directory has a block; a path token is not empty.                     *)
ASSUME DirsAssumption ==
  /\ BLOCK_SIZE \in Nat \ {0} /\ NoName \notin Names
  /\ \A d \in DOMAIN Dirs :
       Len(Dirs[d]) \in Nat \ {0} /\ \A l \in 1..Len(Dirs[d]) : Tiled(Dirs[d][l])

VARIABLES
  pc,         \* "idle", "readdir", "lookup" or "reply"
  dir,        \* the directory of the open handle
  offset,     \* offset, in the C function that is running
  ctx,        \* the inode_dir_ctx: block number and content
  filled,     \* entries accepted by filler, as <<name, next offset>>
  want,       \* the name looked up
  result,     \* the inode number the scan ends with, -1 before
  cookie,     \* offset the process continues from
  delivered,  \* names the process has consumed since it started over
  eof,        \* the process has seen the end of the directory
  rewinds

vars == <<pc, dir, offset, ctx, filled, want, result, cookie, delivered, eof, rewinds>>

inode_get_size(d) == BLOCK_SIZE * Len(Dirs[d])

(* dir_ctx_update: the buffer and the number of the block in it.           *)
dir_ctx_update(d, l) == [lblock |-> l, buf |-> Dirs[d][l + 1]]

inode_dir_ctx_reset(d) == dir_ctx_update(d, 0)

(* Mutant: the buffer is not refilled at a block boundary.                 *)
StaleBlock(d, off) == ctx

(* The buffer inode_dentry_get works with at offset off, refilled when it  *)
(* holds another block.                                                    *)
BlockFor(d, off) ==
  IF off \div BLOCK_SIZE = ctx.lblock THEN ctx
  ELSE dir_ctx_update(d, off \div BLOCK_SIZE)

inode_dentry_get(d, off) == BlockFor(d, off).buf[off % BLOCK_SIZE]

AtEnd == offset = inode_get_size(dir)
Dentry == inode_dentry_get(dir, offset)

Offsets(d) ==
  {off \in 0..(inode_get_size(d) - 1) : off % BLOCK_SIZE \in DOMAIN Dirs[d][off \div BLOCK_SIZE + 1]}

Init ==
  /\ pc = "idle"
  /\ dir \in DOMAIN Dirs
  /\ offset = 0
  /\ ctx = inode_dir_ctx_reset(dir)
  /\ filled = <<>>
  /\ want = NoName
  /\ result = -1
  /\ cookie = 0
  /\ delivered = <<>>
  /\ eof = FALSE
  /\ rewinds = 0

-----------------------------------------------------------------------------
(* A readdir request from the process' position.                           *)
op_readdir ==
  /\ pc = "idle"
  /\ ~eof
  /\ pc' = "readdir"
  /\ offset' = cookie
  /\ ctx' = inode_dir_ctx_reset(dir)
  /\ filled' = <<>>
  /\ UNCHANGED <<dir, want, result, cookie, delivered, eof, rewinds>>

(* Mutant: continue without the offset moved on.                           *)
SkipInPlace ==
  /\ pc = "readdir"
  /\ ~AtEnd
  /\ Dentry.inode = 0 \/ Dentry.name = NoName
  /\ ctx' = BlockFor(dir, offset)
  /\ UNCHANGED <<pc, dir, offset, filled, want, result, cookie, delivered, eof, rewinds>>

(* A deleted entry, or one without a name, is skipped.                     *)
SkipDentry ==
  /\ pc = "readdir"
  /\ ~AtEnd
  /\ Dentry.inode = 0 \/ Dentry.name = NoName
  /\ ctx' = BlockFor(dir, offset)
  /\ offset' = offset + Dentry.rec_len
  /\ UNCHANGED <<pc, dir, filled, want, result, cookie, delivered, eof, rewinds>>

(* Mutant: filler is given the offset of the entry itself.                 *)
FillOwnOffset ==
  /\ pc = "readdir"
  /\ ~AtEnd
  /\ Dentry.inode # 0 /\ Dentry.name # NoName
  /\ Len(filled) < Capacity
  /\ ctx' = BlockFor(dir, offset)
  /\ offset' = offset + Dentry.rec_len
  /\ filled' = Append(filled, <<Dentry.name, offset>>)
  /\ UNCHANGED <<pc, dir, want, result, cookie, delivered, eof, rewinds>>

(* filler takes the entry together with the offset of the next one.        *)
FillDentry ==
  /\ pc = "readdir"
  /\ ~AtEnd
  /\ Dentry.inode # 0 /\ Dentry.name # NoName
  /\ Len(filled) < Capacity
  /\ ctx' = BlockFor(dir, offset)
  /\ offset' = offset + Dentry.rec_len
  /\ filled' = Append(filled, <<Dentry.name, offset'>>)
  /\ UNCHANGED <<pc, dir, want, result, cookie, delivered, eof, rewinds>>

(* The end of the directory, or filler refuses the entry: op_readdir       *)
(* returns.                                                                *)
ReaddirReturns ==
  /\ pc = "readdir"
  /\ \/ AtEnd /\ UNCHANGED <<offset, ctx>>
     \/ /\ ~AtEnd
        /\ Dentry.inode # 0 /\ Dentry.name # NoName
        /\ Len(filled) = Capacity
        /\ ctx' = BlockFor(dir, offset)
        /\ offset' = offset + Dentry.rec_len
  /\ pc' = "reply"
  /\ UNCHANGED <<dir, filled, want, result, cookie, delivered, eof, rewinds>>

(* The kernel hands the first n entries of the reply to the process (a     *)
(* small getdents buffer takes fewer than were filled) and forgets the     *)
(* rest; an empty reply is the end of the directory.                       *)
Consume(n) ==
  /\ pc = "reply"
  /\ filled # <<>>
  /\ n \in 1..Len(filled)
  /\ delivered' = delivered \o [k \in 1..n |-> filled[k][1]]
  /\ cookie' = filled[n][2]
  /\ pc' = "idle"
  /\ UNCHANGED <<dir, offset, ctx, filled, want, result, eof, rewinds>>

ConsumeEnd ==
  /\ pc = "reply"
  /\ filled = <<>>
  /\ eof' = TRUE
  /\ pc' = "idle"
  /\ UNCHANGED <<dir, offset, ctx, filled, want, result, cookie, delivered, rewinds>>

(* rewinddir                                                               *)
Rewind ==
  /\ pc = "idle"
  /\ rewinds < MaxRewinds
  /\ rewinds' = rewinds + 1
  /\ cookie' = 0
  /\ delivered' = <<>>
  /\ eof' = FALSE
  /\ UNCHANGED <<pc, dir, offset, ctx, filled, want, result>>

-----------------------------------------------------------------------------
(* The scan of a directory for a path token, in inode_get_idx_by_path.     *)
LookupStarts(n) ==
  /\ pc = "idle"
  /\ want = NoName
  /\ pc' = "lookup"
  /\ want' = n
  /\ offset' = 0
  /\ ctx' = inode_dir_ctx_reset(dir)
  /\ result' = -1
  /\ UNCHANGED <<dir, filled, cookie, delivered, eof, rewinds>>

Matches(d) == d.inode # 0 /\ d.name = want

LookupContinues ==
  /\ pc = "lookup"
  /\ ~AtEnd
  /\ ~Matches(Dentry)
  /\ ctx' = BlockFor(dir, offset)
  /\ offset' = offset + Dentry.rec_len
  /\ UNCHANGED <<pc, dir, filled, want, result, cookie, delivered, eof, rewinds>>

LookupFinds ==
  /\ pc = "lookup"
  /\ ~AtEnd
  /\ Matches(Dentry)
  /\ result' = Dentry.inode
  /\ ctx' = BlockFor(dir, offset)
  /\ offset' = offset + Dentry.rec_len
  /\ pc' = "idle"
  /\ UNCHANGED <<dir, filled, want, cookie, delivered, eof, rewinds>>

LookupFails ==
  /\ pc = "lookup"
  /\ AtEnd
  /\ result' = 0
  /\ pc' = "idle"
  /\ UNCHANGED <<dir, offset, ctx, filled, want, cookie, delivered, eof, rewinds>>

(* The answer is used and the locals are gone.                             *)
LookupAnswered ==
  /\ pc = "idle"
  /\ want # NoName
  /\ want' = NoName
  /\ result' = -1
  /\ UNCHANGED <<pc, dir, offset, ctx, filled, cookie, delivered, eof, rewinds>>

Serve ==
  \/ SkipDentry \/ FillDentry \/ ReaddirReturns
  \/ LookupContinues \/ LookupFinds \/ LookupFails \/ LookupAnswered

Read == op_readdir \/ (\E n \in 1..Capacity : Consume(n)) \/ ConsumeEnd

Next == Serve \/ Read \/ Rewind \/ \E n \in Names : LookupStarts(n)

(* The server answers what it was asked, and the process reads on until it *)
(* has seen the end (strongly fair: lookups may come between).             *)
Spec == Init /\ [][Next]_vars /\ WF_vars(Serve) /\ SF_vars(Read)

-----------------------------------------------------------------------------
DentryAt(d, off) == Dirs[d][off \div BLOCK_SIZE + 1][off % BLOCK_SIZE]

(* Offsets of the entries of directory d in use, and their names in order. *)
LiveOffsets(d) ==
  {off \in Offsets(d) : DentryAt(d, off).inode # 0 /\ DentryAt(d, off).name # NoName}

(* The number of entries in use before an offset.                          *)
Place(d, off) == Cardinality({o \in LiveOffsets(d) : o < off})

Live(d) ==
  [k \in 1..Cardinality(LiveOffsets(d)) |->
     DentryAt(d, CHOOSE off \in LiveOffsets(d) : Place(d, off) = k - 1).name]

(* A process sees the names of the directory in order, none twice and none *)
(* left out, however op_readdir's replies are cut by a full buffer or by   *)
(* the process: what it has consumed are the entries before its offset,    *)
(* and all of them when op_readdir's reply tells it of the end.            *)
DeliveredExactlyOnce ==
  /\ IsPrefix(delivered, Live(dir))
  /\ Len(delivered) = Place(dir, cookie)
  /\ eof => delivered = Live(dir)

(* The scan for a name answers its inode number, or 0 when no entry in use *)
(* has the name: this is the constant Disk of module PathLookup.           *)
LookupAnswersDirectory ==
  result # -1 =>
    LET hits == {off \in LiveOffsets(dir) : DentryAt(dir, off).name = want}
    IN  IF hits = {} THEN result = 0
        ELSE \E off \in hits : result = DentryAt(dir, off).inode

(* A process that reads on comes to the end of the directory.              *)
ReachesEnd == []<>eof
=============================================================================
