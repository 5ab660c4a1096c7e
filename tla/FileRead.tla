------------------------------ MODULE FileRead ------------------------------
(***************************************************************************)
(* read(2) on a file of the mounted image (fuse/op_read.c): truncation to  *)
(* the file size, the part of the request up to the first block boundary   *)
(* (first_read), then the loop over runs of blocks.                        *)
(*                                                                         *)
(* A byte read from the disk is its place <<block, offset>>; a byte of a   *)
(* hole is Zero.  The request keeps no state but its own locals and the    *)
(* disk is read under a lock, so one request is followed at a time.        *)
(* Assertions are compiled in, as the build does by default.               *)
(***************************************************************************)
EXTENDS BlockMap

CONSTANTS
  Files,             \* inode records, by inode number (the file handle fi->fh)
  Requests,          \* bound: the requests made, as <<fh, size, offset>>
  U64,               \* 2^64, the modulus of size_t arithmetic
  PREAD_BLOCK_SIZE,  \* what FreeBSD reads at a time
  Zero               \* the byte memset writes

ASSUME WidthsAssumption ==
  /\ PREAD_BLOCK_SIZE \in Nat \ {0}
  /\ U32 % BLOCK_SIZE = 0
  /\ U64 \in Nat /\ U64 % 2 = 0 /\ U64 >= 2 * U32

(* Offsets are positive as an off_t, the sums of op_read fit a size_t, and *)
(* what is mapped is a run of at least one block, or a hole of one.        *)
ASSUME RequestsAssumption ==
  /\ \A h \in DOMAIN Files :
       /\ h # 0 /\ Files[h].size \in Nat
       /\ \A l \in 0..(BYTES2BLOCKS(Files[h].size) - 1) :
            LET run == inode_get_data_pblock(Files[h], l)
            IN  /\ run.pblock \in Nat /\ run.len \in Nat \ {0}
                /\ run.pblock = 0 => run.len = 1
  /\ \A r \in Requests :
       /\ r[1] \in DOMAIN Files \cup {0}
       /\ r[2] \in Nat /\ r[3] \in Nat
       /\ r[3] < U64 \div 2 /\ r[2] + r[3] < U64

(* The image is consistent: what an inode leads to gives its blocks.       *)
ASSUME EncodingAssumption == \A h \in DOMAIN Files : Encoded(Files[h])

VARIABLES
  freebsd,  \* the program was built on FreeBSD
  pc,       \* "idle", "first", "loop", "done", "enoent" or "aborted"
  fh,       \* the file handle of the request
  offset,   \* its offset
  asked,    \* its size as requested
  size,     \* its size after truncation
  ret,      \* bytes read so far
  lblock,   \* the loop's logical block
  buf       \* what has been stored into the caller's buffer

vars == <<freebsd, pc, fh, offset, asked, size, ret, lblock, buf>>

inode_get(h) == Files[h]

Least(a, b) == IF a < b THEN a ELSE b

(* pread: the n bytes of the disk from byte where on.                      *)
DiskBytes(where, n) ==
  [k \in 1..n |-> <<(where + k - 1) \div BLOCK_SIZE, (where + k - 1) % BLOCK_SIZE>>]

(* FreeBSD reads whole aligned blocks: the end of the first one, those in  *)
(* the middle, the start of the last one.                                  *)
pread_wrapper(where, n) ==
  LET first_offset == where % PREAD_BLOCK_SIZE
      first_size == IF first_offset = 0 THEN 0
                    ELSE Least(n, PREAD_BLOCK_SIZE - first_offset)
      mid_read_size == ((n - first_size) \div PREAD_BLOCK_SIZE) * PREAD_BLOCK_SIZE
      left == n - first_size - mid_read_size
      Part(at, from, to) == SubSeq(DiskBytes(at, PREAD_BLOCK_SIZE), from, to)
  IN  IF ~freebsd THEN DiskBytes(where, n)
      ELSE Part(where - first_offset, first_offset + 1, first_offset + first_size)
           \o DiskBytes(where + first_size, mid_read_size)
           \o Part(where + first_size + mid_read_size, 1, left)

disk_read(where, n) == pread_wrapper(where, n)

(* The kernel refuses a size that is negative as an ssize_t.               *)
Refused(n) == n >= U64 \div 2

(* A run of len blocks of blk bytes at byte where; a read takes no more.   *)
disk_ctx_create(where, blk, len) == [cur |-> where, size |-> blk * len]

disk_ctx_read(ctx, n) == disk_read(ctx.cur, Least(n, ctx.size))

(* ALIGN_TO for a power of two block size; the mask is a uint32_t.         *)
ALIGN_TO_BLOCKSIZE(n) ==
  IF n % BLOCK_SIZE # 0 THEN ((n % U32) \div BLOCK_SIZE) * BLOCK_SIZE + BLOCK_SIZE ELSE n

(* Mutant: the last byte of the file is left out.                          *)
TruncateBeforeLast(inode, n, off) ==
  CASE off >= inode.size -> 0
    [] off < inode.size /\ off + n >= inode.size -> inode.size - 1 - off
    [] OTHER -> n

truncate_size(inode, n, off) ==
  CASE off >= inode.size -> 0
    [] off < inode.size /\ off + n >= inode.size -> inode.size - off
    [] OTHER -> n

Init ==
  /\ freebsd \in BOOLEAN
  /\ pc = "idle" /\ fh = 0 /\ offset = 0 /\ asked = 0 /\ size = 0 /\ ret = 0
  /\ lblock = 0 /\ buf = <<>>

(* op_read up to the truncation.  op_open leaves file handle 0 for a path  *)
(* that does not resolve, and inode_get_by_number refuses it.              *)
op_read(h, n, off) ==
  /\ pc = "idle"
  /\ fh' = h
  /\ offset' = off
  /\ asked' = n
  /\ pc' = IF h = 0 THEN "enoent" ELSE "first"
  /\ size' = IF h = 0 THEN 0 ELSE truncate_size(inode_get(h), n, off)
  /\ ret' = 0 /\ buf' = <<>> /\ lblock' = 0
  /\ UNCHANGED freebsd

(* Bytes first_read asks for: none when aligned, else up to the block end. *)
FirstBytes ==
  LET end_lblock == (offset + (size - 1)) \div BLOCK_SIZE
  IN  CASE size = 0 \/ offset % BLOCK_SIZE = 0 -> 0
        [] size # 0 /\ offset % BLOCK_SIZE # 0 /\ offset \div BLOCK_SIZE = end_lblock -> size
        [] OTHER -> (ALIGN_TO_BLOCKSIZE(offset) - offset) % U64

FirstRead ==
  LET start == inode_get_data_pblock(inode_get(fh), offset \div BLOCK_SIZE).pblock
  IN  IF FirstBytes = 0 THEN <<>>
      ELSE disk_read(start * BLOCK_SIZE + (offset % BLOCK_SIZE), FirstBytes)

(* Mutant: the loop starts at the block the request starts in.             *)
FirstReadAgain ==
  /\ pc = "first"
  /\ ~Refused(FirstBytes)
  /\ buf' = FirstRead
  /\ ret' = FirstBytes
  /\ lblock' = offset \div BLOCK_SIZE
  /\ pc' = "loop"
  /\ UNCHANGED <<freebsd, fh, offset, asked, size>>

first_read ==
  /\ pc = "first"
  /\ ~Refused(FirstBytes)
  /\ buf' = FirstRead
  /\ ret' = FirstBytes
  /\ lblock' = (offset + FirstBytes) \div BLOCK_SIZE
  /\ pc' = "loop"
  /\ UNCHANGED <<freebsd, fh, offset, asked, size>>

(* pread returns -1 and the assertion on what it read fails.               *)
FirstReadAborts ==
  /\ pc = "first"
  /\ Refused(FirstBytes)
  /\ pc' = "aborted"
  /\ UNCHANGED <<freebsd, fh, offset, asked, size, ret, lblock, buf>>

(* The run of blocks the loop is at.                                       *)
Block == inode_get_data_pblock(inode_get(fh), lblock)

(* One iteration over a run of mapped blocks.                              *)
ReadRun ==
  /\ pc = "loop"
  /\ size > ret
  /\ Block.pblock # 0
  /\ LET read_ctx == disk_ctx_create(Block.pblock * BLOCK_SIZE, BLOCK_SIZE, Block.len)
         bytes == disk_ctx_read(read_ctx, size - ret)
     IN  buf' = buf \o bytes /\ ret' = ret + Len(bytes)
  /\ lblock' = lblock + Block.len
  /\ UNCHANGED <<freebsd, pc, fh, offset, asked, size>>

(* Mutant: the hole is skipped without counting its bytes.                 *)
SkipHole ==
  /\ pc = "loop"
  /\ size > ret
  /\ Block.pblock = 0
  /\ UNCHANGED <<freebsd, pc, fh, offset, asked, size, ret, lblock, buf>>

(* One iteration over a hole: a block of zeros at a time.                  *)
ReadHole ==
  /\ pc = "loop"
  /\ size > ret
  /\ Block.pblock = 0
  /\ LET bytes == Least(size - ret, BLOCK_SIZE)
     IN  /\ buf' = buf \o [k \in 1..bytes |-> Zero]
         /\ ret' = ret + bytes
  /\ lblock' = lblock + Block.len
  /\ UNCHANGED <<freebsd, pc, fh, offset, asked, size>>

Return ==
  /\ pc = "loop"
  /\ size <= ret
  /\ pc' = "done"
  /\ UNCHANGED <<freebsd, fh, offset, asked, size, ret, lblock, buf>>

(* The answer is given, or the program started again; the locals of the    *)
(* call are gone.                                                          *)
Answer ==
  /\ pc \in {"done", "enoent", "aborted"}
  /\ pc' = "idle" /\ fh' = 0 /\ offset' = 0 /\ asked' = 0 /\ size' = 0 /\ ret' = 0
  /\ lblock' = 0 /\ buf' = <<>>
  /\ UNCHANGED freebsd

Request == \E r \in Requests : op_read(r[1], r[2], r[3])

Next == Request \/ first_read \/ FirstReadAborts \/ ReadRun \/ ReadHole \/ Return \/ Answer

Spec == Init /\ [][Next]_vars

(* A request that has started runs to its end.                             *)
FairSpec == Spec /\ WF_vars(first_read \/ FirstReadAborts \/ ReadRun \/ ReadHole \/ Return)

-----------------------------------------------------------------------------
(* The byte at position k of a file.                                       *)
FileByte(inode, k) ==
  LET p == PhysicalBlock(inode, k \div BLOCK_SIZE)
  IN  IF p = 0 THEN Zero ELSE <<p, k % BLOCK_SIZE>>

Active == pc \in {"loop", "done"}

BufferMatchesFile ==
  \A k \in 1..ret : buf[k] = FileByte(inode_get(fh), offset + k - 1)

(* What is in the buffer is the file's content from the offset on, at      *)
(* every point of the request and on either side of 4 GiB, for files of    *)
(* any mapping whose extents are not preceded by a hole, unless first_read *)
(* starts in a hole.                                                       *)
ReadsMappedContent ==
  (/\ Active
   /\ HolesOnlyAtEnd(inode_get(fh))
   /\ \/ offset % BLOCK_SIZE = 0
      \/ offset >= inode_get(fh).size
      \/ PhysicalBlock(inode_get(fh), offset \div BLOCK_SIZE) # 0)
  => BufferMatchesFile

(* The request starts inside a block at 4 GiB or later and leaves it.      *)
Wraps(n, off) ==
  /\ n > 0
  /\ off % BLOCK_SIZE # 0
  /\ off \div BLOCK_SIZE # (off + n - 1) \div BLOCK_SIZE
  /\ off >= U32

(* A finished read has stored and returns every byte between the offset    *)
(* and the end of the request or of the file, whichever comes first: the   *)
(* assertion size == ret of op_read holds and the truncation is exact.     *)
(* The assertion of __disk_read fails for the requests whose distance to   *)
(* the block end has wrapped, and for no other.                            *)
NoShortRead ==
  /\ pc = "done" =>
       /\ ret = size /\ Len(buf) = ret
       /\ ret = IF offset >= inode_get(fh).size THEN 0
                ELSE Least(asked, inode_get(fh).size - offset)
  /\ pc \in {"loop", "done"} => ~Wraps(size, offset)
  /\ pc = "aborted" => Wraps(size, offset)

(* The loop only maps blocks of the file, at the block boundary the buffer *)
(* has reached: the assertion on lblock in inode_get_data_pblock never     *)
(* fails.                                                                  *)
LoopStaysInFile ==
  pc = "loop" /\ size > ret =>
    /\ offset + ret = lblock * BLOCK_SIZE
    /\ lblock < BYTES2BLOCKS(inode_get(fh).size)

(* The content of the file whatever its holes: a sparse file reads, block  *)
(* by block, as it was written.                                            *)
ReadsFileContent == Active /\ offset % BLOCK_SIZE = 0 => BufferMatchesFile

(* Every read request returns, or ends the program.                        *)
ReadReturns == pc \in {"first", "loop"} ~> pc \in {"done", "aborted"}
=============================================================================
