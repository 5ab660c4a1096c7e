--------------------------- MODULE DirScanProofs ----------------------------
(***************************************************************************)
(* Proofs that readdir delivers every name of a directory once and in      *)
(* order, and that the scan for a name answers what the directory holds,   *)
(* for directories of any size and layout, buffers of any capacity and any *)
(* number of requests.                                                     *)
(***************************************************************************)
EXTENDS DirScan, FiniteSetTheorems, TLAPS

(* Division by the block size.                                             *)
LEMMA DivMod ==
  ASSUME NEW b \in Nat \ {0}, NEW a \in Nat
  PROVE  /\ a = b * (a \div b) + (a % b)
         /\ a \div b \in Nat
         /\ a % b \in 0..(b - 1)
  OBVIOUS

(* A larger number of blocks has at least one block of bytes more.         *)
LEMMA BlocksApart ==
  ASSUME NEW b \in Nat \ {0}, NEW x \in Int, NEW y \in Int, x < y
  PROVE  b * x + b <= b * y
  <1>1. y - x - 1 \in Nat
    OBVIOUS
  <1>2. b * (y - x - 1) >= 0
    BY <1>1
  <1>3. b * (y - x - 1) = b * y - b * x - b
    OBVIOUS
  <1> QED  BY <1>2, <1>3

(* The block and the place in it of a byte.                                *)
LEMMA DivSum ==
  ASSUME NEW b \in Nat \ {0}, NEW q \in Nat, NEW r \in 0..(b - 1)
  PROVE  (b * q + r) \div b = q /\ (b * q + r) % b = r
  <1> DEFINE a == b * q + r
             s == a \div b
             m == a % b
  <1>1. a \in Nat
    OBVIOUS
  <1>2. a = b * s + m /\ s \in Nat /\ m \in 0..(b - 1)
    <2> HIDE DEF a
    <2> QED  BY <1>1, DivMod, Zenon
  <1>3. b * s + m = b * q + r
    BY <1>2
  <1> HIDE DEF s, m, a
  <1>4. ~(s < q)
    BY <1>2, <1>3, BlocksApart
  <1>5. ~(q < s)
    BY <1>2, <1>3, BlocksApart
  <1>6. s = q
    BY <1>2, <1>4, <1>5
  <1>7. m = r
    <2>1. b * q \in Nat
      OBVIOUS
    <2> QED  BY <1>2, <1>3, <1>6, <2>1
  <1> QED  BY <1>6, <1>7 DEF s, m, a

-----------------------------------------------------------------------------
(* The places where a scan can be: at an entry or at the end.              *)
Positions(d) == Offsets(d) \cup {inode_get_size(d)}

(* An offset of an entry is a block and a place in it where an entry is.   *)
LEMMA EntryPlace ==
  ASSUME NEW d \in DOMAIN Dirs, NEW off \in Offsets(d)
  PROVE  /\ off = BLOCK_SIZE * (off \div BLOCK_SIZE) + (off % BLOCK_SIZE)
         /\ off \div BLOCK_SIZE \in 0..(Len(Dirs[d]) - 1)
         /\ off % BLOCK_SIZE \in DOMAIN Dirs[d][off \div BLOCK_SIZE + 1]
         /\ Tiled(Dirs[d][off \div BLOCK_SIZE + 1])
         /\ off \in Nat
  <1> DEFINE q == off \div BLOCK_SIZE
             r == off % BLOCK_SIZE
             n == Len(Dirs[d])
  <1>1. n \in Nat \ {0} /\ BLOCK_SIZE \in Nat \ {0} /\ BLOCK_SIZE * n \in Nat
    BY DirsAssumption
  <1>2. off \in 0..(BLOCK_SIZE * n - 1) /\ r \in DOMAIN Dirs[d][q + 1]
    BY DEF Offsets, inode_get_size
  <1>3. off \in Nat
    BY <1>1, <1>2
  <1>4. off = BLOCK_SIZE * q + r /\ q \in Nat /\ r \in 0..(BLOCK_SIZE - 1)
    BY <1>1, <1>3, DivMod, Zenon
  <1> HIDE DEF q, r, n
  <1>5. q < n
    <2> SUFFICES ASSUME ~(q < n) PROVE FALSE
      OBVIOUS
    <2>1. BLOCK_SIZE * n <= BLOCK_SIZE * q
      <3>1. CASE q = n
        BY <1>1, <3>1
      <3>2. CASE n < q
        <4>1. BLOCK_SIZE * n + BLOCK_SIZE <= BLOCK_SIZE * q
          BY <1>1, <1>4, <3>2, BlocksApart
        <4>2. BLOCK_SIZE * q \in Nat
          BY <1>1, <1>4
        <4> QED  BY <1>1, <4>1, <4>2
      <3> QED  BY <1>1, <1>4, <3>1, <3>2
    <2>2. BLOCK_SIZE * q \in Nat
      BY <1>1, <1>4
    <2> QED  BY <1>1, <1>2, <1>4, <2>1, <2>2
  <1>6. q \in 0..(n - 1) /\ q + 1 \in 1..n
    BY <1>1, <1>4, <1>5
  <1>7. Tiled(Dirs[d][q + 1])
    BY <1>6, DirsAssumption DEF n
  <1> QED  BY <1>2, <1>3, <1>4, <1>6, <1>7 DEF q, r, n

(* A directory starts with an entry.                                       *)
LEMMA FirstEntry ==
  ASSUME NEW d \in DOMAIN Dirs
  PROVE  0 \in Offsets(d) /\ Offsets(d) \subseteq Nat /\ inode_get_size(d) \in Nat
  <1>1. BLOCK_SIZE \in Nat \ {0} /\ Len(Dirs[d]) \in Nat \ {0} /\ Tiled(Dirs[d][1])
    BY DirsAssumption
  <1>2. 0 \div BLOCK_SIZE = 0 /\ 0 % BLOCK_SIZE = 0
    <2>1. (BLOCK_SIZE * 0 + 0) \div BLOCK_SIZE = 0 /\ (BLOCK_SIZE * 0 + 0) % BLOCK_SIZE = 0
      BY <1>1, DivSum
    <2>2. BLOCK_SIZE * 0 + 0 = 0
      BY <1>1
    <2> QED  BY <2>1, <2>2
  <1>3. BLOCK_SIZE * Len(Dirs[d]) \in Nat \ {0}
    <2>1. BLOCK_SIZE * 0 + BLOCK_SIZE <= BLOCK_SIZE * Len(Dirs[d])
      BY <1>1, BlocksApart
    <2>2. BLOCK_SIZE * 0 = 0 /\ BLOCK_SIZE * Len(Dirs[d]) \in Nat
      BY <1>1
    <2> QED  BY <1>1, <2>1, <2>2
  <1>4. 0 \in DOMAIN Dirs[d][0 + 1]
    BY <1>1 DEF Tiled
  <1>5. 0 \in 0..(BLOCK_SIZE * Len(Dirs[d]) - 1)
    BY <1>3
  <1>6. 0 \in Offsets(d)
    BY <1>2, <1>4, <1>5 DEF Offsets, inode_get_size
  <1> QED  BY <1>3, <1>6, EntryPlace DEF inode_get_size

(* Behind an entry comes the next one or the end, and nothing between.     *)
LEMMA NextEntry ==
  ASSUME NEW d \in DOMAIN Dirs, NEW off \in Offsets(d)
  PROVE  /\ DentryAt(d, off).rec_len \in Nat \ {0}
         /\ off + DentryAt(d, off).rec_len \in Positions(d)
         /\ \A o \in Offsets(d) : o < off + DentryAt(d, off).rec_len => o <= off
  <1> DEFINE q == off \div BLOCK_SIZE
             r == off % BLOCK_SIZE
             n == Len(Dirs[d])
             blk == Dirs[d][q + 1]
             len == DentryAt(d, off).rec_len
             B == BLOCK_SIZE
  <1>1. B \in Nat \ {0} /\ n \in Nat \ {0}
    BY DirsAssumption
  <1>2. off = B * q + r /\ q \in 0..(n - 1) /\ r \in DOMAIN blk /\ Tiled(blk) /\ off \in Nat
    BY EntryPlace
  <1>3. len = blk[r].rec_len
    BY DEF DentryAt
  <1>4. /\ r \in 0..(B - 1) /\ len \in Nat \ {0}
        /\ r + len \in DOMAIN blk \/ r + len = B
        /\ \A p \in DOMAIN blk : p > r => p >= r + len
        /\ DOMAIN blk \subseteq 0..(B - 1)
    <2> HIDE DEF r, blk, len
    <2> QED  BY <1>2, <1>3 DEF Tiled
  <1>5. ASSUME NEW o \in Offsets(d), o < off + len
        PROVE  o <= off
    <2> DEFINE q2 == o \div BLOCK_SIZE
               r2 == o % BLOCK_SIZE
    <2>1. o = B * q2 + r2 /\ q2 \in 0..(n - 1) /\ r2 \in DOMAIN Dirs[d][q2 + 1]
          /\ Tiled(Dirs[d][q2 + 1]) /\ o \in Nat
      BY EntryPlace
    <2>2. r2 \in 0..(B - 1)
      <3> HIDE DEF r2, q2
      <3> QED  BY <2>1 DEF Tiled
    <2>3. q2 = q => r2 \in DOMAIN blk
      BY <2>1
    <2> HIDE DEF q, r, q2, r2, blk, len, n, B
    <2>4. B * q \in Nat /\ B * q2 \in Nat
      BY <1>1, <1>2, <2>1
    <2>5. CASE q2 < q
      <3>1. B * q2 + B <= B * q
        BY <1>1, <1>2, <2>1, <2>5, BlocksApart
      <3> QED  BY <1>1, <1>2, <1>4, <2>1, <2>2, <2>4, <3>1
    <2>6. CASE q2 = q
      <3>1. r2 < r + len
        BY <1>2, <1>4, <1>5, <2>1, <2>2, <2>4, <2>6
      <3>2. ~(r2 > r)
        BY <1>4, <2>2, <2>3, <2>6, <3>1
      <3> QED  BY <1>2, <1>4, <2>1, <2>2, <2>4, <2>6, <3>2
    <2>7. CASE q < q2
      <3>1. B * q + B <= B * q2
        BY <1>1, <1>2, <2>1, <2>7, BlocksApart
      <3>2. r + len <= B
        BY <1>1, <1>4
      <3> QED  BY <1>1, <1>2, <1>4, <1>5, <2>1, <2>2, <2>4, <3>1, <3>2
    <2> QED  BY <1>2, <2>1, <2>5, <2>6, <2>7
  <1>6. off + len \in Positions(d)
    <2> HIDE DEF q, r, blk, len, n, B
    <2>1. B * q \in Nat /\ B * n \in Nat /\ B * (q + 1) = B * q + B /\ q \in Nat /\ q + 1 \in Nat
      BY <1>1, <1>2
    <2>2. CASE r + len = B
      <3>1. off + len = B * (q + 1)
        BY <1>1, <1>2, <1>4, <2>1, <2>2
      <3>2. CASE q + 1 = n
        BY <3>1, <3>2 DEF Positions, inode_get_size, n, B
      <3>3. CASE q + 1 < n
        <4> DEFINE p == q + 1
        <4>1. p \in Nat /\ p < n /\ p + 1 \in 1..n
          BY <1>1, <2>1, <3>3
        <4> HIDE DEF p
        <4>2. (B * p + 0) \div B = p /\ (B * p + 0) % B = 0
          BY <1>1, <4>1, DivSum
        <4>3. B * p \in Nat /\ B * p + 0 = B * p
          BY <1>1, <4>1
        <4>4. B * p + B <= B * n
          BY <1>1, <4>1, BlocksApart
        <4>5. 0 \in DOMAIN Dirs[d][p + 1]
          BY <4>1, DirsAssumption DEF Tiled, n
        <4>6. B * p \in 0..(B * n - 1)
          BY <1>1, <2>1, <4>3, <4>4
        <4>7. B * p \in Offsets(d)
          BY <4>2, <4>3, <4>5, <4>6 DEF Offsets, inode_get_size, B, n
        <4> QED  BY <3>1, <4>7 DEF Positions, p
      <3> QED  BY <1>1, <1>2, <3>2, <3>3
    <2>3. CASE r + len \in DOMAIN blk
      <3>1. r + len \in 0..(B - 1)
        BY <1>4, <2>3
      <3> DEFINE s == r + len
      <3>2. (B * q + s) \div B = q /\ (B * q + s) % B = s
        <4> HIDE DEF s
        <4> QED  BY <1>1, <2>1, <3>1, DivSum, Zenon DEF s
      <3>3. off + len = B * q + s /\ B * q + s \in Nat
        BY <1>2, <1>4, <2>1, <3>1
      <3>4. B * q + B <= B * n
        BY <1>1, <1>2, BlocksApart
      <3>5. B * q + s \in 0..(B * n - 1)
        BY <1>1, <2>1, <3>1, <3>3, <3>4
      <3>6. s \in DOMAIN Dirs[d][q + 1]
        BY <2>3 DEF blk
      <3> HIDE DEF s
      <3>7. B * q + s \in Offsets(d)
        BY <3>2, <3>5, <3>6 DEF Offsets, inode_get_size, B, n
      <3> QED  BY <3>3, <3>7 DEF Positions
    <2> QED  BY <1>4, <2>2, <2>3
  <1> QED  BY <1>4, <1>5, <1>6

-----------------------------------------------------------------------------
(* Entries in use before an offset are counted in naturals, up to all.     *)
LEMMA PlaceBound ==
  ASSUME NEW d \in DOMAIN Dirs, NEW off \in Nat
  PROVE  /\ IsFiniteSet(LiveOffsets(d)) /\ IsFiniteSet({o \in LiveOffsets(d) : o < off})
         /\ Cardinality(LiveOffsets(d)) \in Nat
         /\ Place(d, off) \in 0..Cardinality(LiveOffsets(d))
         /\ LiveOffsets(d) \subseteq Offsets(d)
  <1>1. LiveOffsets(d) \subseteq Offsets(d)
    BY DEF LiveOffsets
  <1>2. IsFiniteSet(LiveOffsets(d))
    <2>1. LiveOffsets(d) \in SUBSET (0..(inode_get_size(d) - 1))
      BY <1>1 DEF Offsets
    <2>2. IsFiniteSet(0..(inode_get_size(d) - 1))
      BY FirstEntry, FS_Interval
    <2> QED  BY <2>1, <2>2, FS_Subset, Zenon
  <1> DEFINE S == {o \in LiveOffsets(d) : o < off}
  <1>3. S \in SUBSET LiveOffsets(d)
    OBVIOUS
  <1> HIDE DEF S
  <1>4. IsFiniteSet(S) /\ Cardinality(S) <= Cardinality(LiveOffsets(d))
    BY <1>2, <1>3, FS_Subset
  <1>5. Cardinality(S) \in Nat /\ Cardinality(LiveOffsets(d)) \in Nat
    BY <1>2, <1>4, FS_CardinalityType
  <1> QED  BY <1>1, <1>2, <1>4, <1>5 DEF Place, S

(* An entry in use counts as one, a deleted one as none.                   *)
LEMMA PlaceNext ==
  ASSUME NEW d \in DOMAIN Dirs, NEW off \in Offsets(d)
  PROVE  Place(d, off + DentryAt(d, off).rec_len)
           = IF off \in LiveOffsets(d) THEN Place(d, off) + 1 ELSE Place(d, off)
  <1> DEFINE next == off + DentryAt(d, off).rec_len
             S == {o \in LiveOffsets(d) : o < off}
             T == {o \in LiveOffsets(d) : o < next}
  <1>1. off \in Nat /\ next \in Nat /\ off < next /\ Offsets(d) \subseteq Nat
    BY NextEntry, FirstEntry
  <1>2. \A o \in Offsets(d) : o < next => o <= off
    BY NextEntry
  <1> HIDE DEF next
  <1>3. \A o \in LiveOffsets(d) : o < next <=> (o < off \/ o = off)
    <2>1. LiveOffsets(d) \subseteq Offsets(d)
      BY DEF LiveOffsets
    <2> QED  BY <1>1, <1>2, <2>1
  <1>4. IsFiniteSet(S) /\ off \notin S
    BY <1>1, PlaceBound
  <1>5. CASE off \in LiveOffsets(d)
    <2>1. T = S \cup {off}
      BY <1>3, <1>5
    <2> HIDE DEF S, T
    <2>2. Cardinality(T) = Cardinality(S) + 1
      BY <1>4, <2>1, FS_AddElement
    <2> QED  BY <1>5, <2>2 DEF Place, S, T, next
  <1>6. CASE off \notin LiveOffsets(d)
    <2>1. T = S
      BY <1>3, <1>6
    <2> QED  BY <1>6, <2>1 DEF Place, next
  <1> QED  BY <1>5, <1>6

(* At the end all entries in use are counted.                              *)
LEMMA PlaceEnd ==
  ASSUME NEW d \in DOMAIN Dirs
  PROVE  Place(d, inode_get_size(d)) = Cardinality(LiveOffsets(d)) /\ Place(d, 0) = 0
  <1>1. \A o \in LiveOffsets(d) : o \in 0..(inode_get_size(d) - 1)
    BY DEF LiveOffsets, Offsets
  <1>2. {o \in LiveOffsets(d) : o < inode_get_size(d)} = LiveOffsets(d)
    BY <1>1, FirstEntry
  <1>3. {o \in LiveOffsets(d) : o < 0} = {}
    BY <1>1, FirstEntry
  <1> QED  BY <1>2, <1>3, FS_EmptySet DEF Place

(* The entry in use with k others before it is the one with name k + 1.    *)
LEMMA LiveAt ==
  ASSUME NEW d \in DOMAIN Dirs, NEW off \in LiveOffsets(d)
  PROVE  /\ Place(d, off) + 1 \in 1..Cardinality(LiveOffsets(d))
         /\ Live(d)[Place(d, off) + 1] = DentryAt(d, off).name
  <1> DEFINE n == Cardinality(LiveOffsets(d))
             k == Place(d, off) + 1
  <1>1. LiveOffsets(d) \subseteq Nat /\ IsFiniteSet(LiveOffsets(d)) /\ n \in Nat
    BY PlaceBound, FirstEntry, Zenon
  <1>2. ASSUME NEW x \in LiveOffsets(d), NEW y \in LiveOffsets(d), x < y
        PROVE  Place(d, x) < Place(d, y)
    <2> DEFINE S == {o \in LiveOffsets(d) : o < x}
               T == {o \in LiveOffsets(d) : o < y}
    <2>1. S \in SUBSET T /\ x \in T /\ x \notin S
      BY <1>1, <1>2
    <2>2. IsFiniteSet(T)
      BY <1>1, PlaceBound
    <2> HIDE DEF S, T
    <2>3. Cardinality(S) <= Cardinality(T) /\ Cardinality(S) # Cardinality(T) /\ IsFiniteSet(S)
      BY <2>1, <2>2, FS_Subset
    <2>4. Cardinality(S) \in Nat /\ Cardinality(T) \in Nat
      BY <2>2, <2>3, FS_CardinalityType
    <2> QED  BY <2>3, <2>4 DEF S, T, Place
  <1>3. \A x, y \in LiveOffsets(d) : Place(d, x) = Place(d, y) => x = y
    <2> SUFFICES ASSUME NEW x \in LiveOffsets(d), NEW y \in LiveOffsets(d),
                        Place(d, x) = Place(d, y), x # y
                 PROVE  FALSE
      OBVIOUS
    <2>1. x \in Nat /\ y \in Nat
      BY <1>1
    <2>2. Place(d, x) \in 0..n /\ n \in Nat
      BY <2>1, <1>1, PlaceBound, Zenon
    <2> QED  BY <1>2, <2>1, <2>2
  <1>4. k \in 1..n /\ k - 1 = Place(d, off)
    <2>1. off \in Offsets(d) /\ off \in Nat
      BY <1>1, PlaceBound, Zenon
    <2>2. Place(d, off + DentryAt(d, off).rec_len) = Place(d, off) + 1
      BY <2>1, PlaceNext
    <2>3. off + DentryAt(d, off).rec_len \in Nat
      BY <2>1, NextEntry
    <2>4. Place(d, off) \in 0..n /\ Place(d, off + DentryAt(d, off).rec_len) \in 0..n
      BY <2>1, <2>3, PlaceBound, Zenon
    <2> QED  BY <1>1, <2>2, <2>4
  <1>5. (CHOOSE o \in LiveOffsets(d) : Place(d, o) = k - 1) = off
    BY <1>3, <1>4
  <1> QED  BY <1>4, <1>5, Zenon DEF Live

-----------------------------------------------------------------------------
(* The names in the directory, and the number of its entries in use.       *)
EntryNames == {DentryAt(dir, off).name : off \in Offsets(dir)}

Total == Cardinality(LiveOffsets(dir))

(* The buffer holds the block it is said to hold, and the offset is that   *)
(* of an entry or the end.                                                 *)
ScanInv ==
  /\ dir \in DOMAIN Dirs
  /\ pc \in {"idle", "readdir", "lookup", "reply"}
  /\ offset \in Positions(dir) /\ cookie \in Positions(dir)
  /\ ctx.lblock \in 0..(Len(Dirs[dir]) - 1) /\ ctx = dir_ctx_update(dir, ctx.lblock)

(* What op_readdir has filled in continues what the process has consumed,  *)
(* and every offset that came with an entry counts the entries up to it.   *)
FillInv ==
  /\ filled \in Seq(EntryNames \X Nat)
  /\ pc \in {"readdir", "reply"} =>
       /\ ~eof
       /\ \A k \in 1..Len(filled) :
            /\ filled[k][2] \in Positions(dir)
            /\ Place(dir, filled[k][2]) = Place(dir, cookie) + k
            /\ filled[k][1] = Live(dir)[Place(dir, cookie) + k]
  /\ pc = "readdir" => Place(dir, offset) = Place(dir, cookie) + Len(filled)
  /\ pc = "reply" /\ Len(filled) = 0 => Place(dir, cookie) = Total

(* What the process has consumed are the names before its offset.          *)
ConsumedInv ==
  /\ delivered \in Seq(EntryNames)
  /\ Len(delivered) = Place(dir, cookie)
  /\ \A k \in 1..Len(delivered) : delivered[k] = Live(dir)[k]
  /\ eof => Place(dir, cookie) = Total

(* A scan for a name has not passed an entry in use that has it.           *)
LookupInv ==
  /\ pc = "lookup" =>
       /\ want \in Names /\ result = -1
       /\ \A off \in LiveOffsets(dir) : off < offset => DentryAt(dir, off).name # want
  /\ LookupAnswersDirectory

(* In front of the end the scan looks at the entry of its offset, through  *)
(* a buffer that is refilled when it holds another block, and moves to the *)
(* next one.                                                               *)
LEMMA ScanLooks ==
  ASSUME ScanInv, ~AtEnd
  PROVE  /\ offset \in Offsets(dir) /\ offset \in Nat
         /\ Dentry = DentryAt(dir, offset)
         /\ offset + Dentry.rec_len \in Positions(dir)
         /\ BlockFor(dir, offset).lblock \in 0..(Len(Dirs[dir]) - 1)
         /\ BlockFor(dir, offset) = dir_ctx_update(dir, BlockFor(dir, offset).lblock)
  <1> DEFINE q == offset \div BLOCK_SIZE
  <1>1. dir \in DOMAIN Dirs /\ offset \in Offsets(dir)
    BY DEF ScanInv, AtEnd, Positions
  <1>2. q \in 0..(Len(Dirs[dir]) - 1) /\ offset \in Nat
    BY <1>1, EntryPlace
  <1>3. ctx.lblock \in 0..(Len(Dirs[dir]) - 1) /\ ctx = dir_ctx_update(dir, ctx.lblock)
    BY DEF ScanInv
  <1> HIDE DEF q
  <1>4. BlockFor(dir, offset) = IF q = ctx.lblock THEN ctx ELSE dir_ctx_update(dir, q)
    BY DEF BlockFor, q
  <1>5. BlockFor(dir, offset) = dir_ctx_update(dir, q)
    <2>1. CASE q = ctx.lblock
      BY <1>3, <1>4, <2>1
    <2>2. CASE q # ctx.lblock
      BY <1>4, <2>2
    <2> QED  BY <2>1, <2>2
  <1>6. dir_ctx_update(dir, q).lblock = q /\ dir_ctx_update(dir, q).buf = Dirs[dir][q + 1]
    BY DEF dir_ctx_update
  <1>7. Dentry = DentryAt(dir, offset)
    BY <1>5, <1>6 DEF Dentry, inode_dentry_get, DentryAt, q
  <1>8. offset + Dentry.rec_len \in Positions(dir)
    BY <1>1, <1>7, NextEntry
  <1> QED  BY <1>1, <1>2, <1>5, <1>6, <1>7, <1>8, Zenon

(* The first block, in a fresh buffer.                                     *)
LEMMA Resets ==
  ASSUME NEW d \in DOMAIN Dirs
  PROVE  /\ inode_dir_ctx_reset(d).lblock \in 0..(Len(Dirs[d]) - 1)
         /\ inode_dir_ctx_reset(d) = dir_ctx_update(d, inode_dir_ctx_reset(d).lblock)
         /\ 0 \in Positions(d)
  <1>1. inode_dir_ctx_reset(d) = dir_ctx_update(d, 0) /\ dir_ctx_update(d, 0).lblock = 0
    BY DEF inode_dir_ctx_reset, dir_ctx_update
  <1>2. 0 \in Positions(d)
    BY FirstEntry DEF Positions
  <1>3. 0 \in 0..(Len(Dirs[d]) - 1)
    BY DirsAssumption
  <1> QED  BY <1>1, <1>2, <1>3

(* It holds at first, before anything is read.                            *)
LEMMA InitInv == Init => ScanInv /\ FillInv /\ ConsumedInv /\ LookupInv
  <1> SUFFICES ASSUME Init PROVE ScanInv /\ FillInv /\ ConsumedInv /\ LookupInv
    OBVIOUS
  <1> USE DEF Init
  <1>1. ScanInv
    BY Resets DEF ScanInv
  <1>2. FillInv
    BY DEF FillInv
  <1>3. ConsumedInv
    BY PlaceEnd DEF ConsumedInv
  <1>4. LookupInv
    BY DEF LookupInv, LookupAnswersDirectory
  <1> QED  BY <1>1, <1>2, <1>3, <1>4

(* The offset that came with an entry consumed is one to continue from.    *)
LEMMA ScanStep == ScanInv /\ FillInv /\ [Next]_vars => ScanInv'
  <1> SUFFICES ASSUME ScanInv, FillInv, [Next]_vars PROVE ScanInv'
    OBVIOUS
  <1>1. CASE op_readdir
    BY <1>1, Resets DEF op_readdir, ScanInv
  <1>2. CASE SkipDentry
    BY <1>2, ScanLooks DEF SkipDentry, ScanInv
  <1>3. CASE FillDentry
    BY <1>3, ScanLooks DEF FillDentry, ScanInv
  <1>4. CASE ReaddirReturns
    BY <1>4, ScanLooks DEF ReaddirReturns, ScanInv
  <1>5. CASE \E n \in 1..Capacity : Consume(n)
    BY <1>5 DEF Consume, ScanInv, FillInv
  <1>6. CASE ConsumeEnd
    BY <1>6 DEF ConsumeEnd, ScanInv
  <1>7. CASE Rewind
    BY <1>7, Resets DEF Rewind, ScanInv
  <1>8. CASE \E n \in Names : LookupStarts(n)
    BY <1>8, Resets DEF LookupStarts, ScanInv
  <1>9. CASE LookupContinues
    BY <1>9, ScanLooks DEF LookupContinues, ScanInv
  <1>10. CASE LookupFinds
    BY <1>10, ScanLooks DEF LookupFinds, ScanInv
  <1>11. CASE LookupFails
    BY <1>11 DEF LookupFails, ScanInv
  <1>12. CASE LookupAnswered
    BY <1>12 DEF LookupAnswered, ScanInv
  <1>13. CASE UNCHANGED vars
    BY <1>13 DEF vars, ScanInv
  <1> QED
    BY <1>1, <1>2, <1>3, <1>4, <1>5, <1>6, <1>7, <1>8, <1>9, <1>10, <1>11, <1>12, <1>13, Zenon
    DEF Next, Serve, Read

(* The handle of a process stays with its directory.                       *)
LEMMA SameDirectory ==
  ASSUME [Next]_vars
  PROVE  dir' = dir /\ EntryNames' = EntryNames /\ Total' = Total
  <1>1. dir' = dir
    BY DEF Next, Serve, Read, vars, op_readdir, SkipDentry, FillDentry, ReaddirReturns,
           Consume, ConsumeEnd, Rewind, LookupStarts, LookupContinues, LookupFinds,
           LookupFails, LookupAnswered
  <1> QED  BY <1>1 DEF EntryNames, Total

(* An entry filled in is the next name, and the offset given with it       *)
(* counts it; a deleted one counts for nothing.                            *)
LEMMA FillStep == ScanInv /\ FillInv /\ ConsumedInv /\ [Next]_vars => FillInv'
  <1> SUFFICES ASSUME ScanInv, FillInv, ConsumedInv, [Next]_vars PROVE FillInv'
    OBVIOUS
  <1>0. dir' = dir /\ EntryNames' = EntryNames /\ Total' = Total /\ dir \in DOMAIN Dirs
    BY SameDirectory DEF ScanInv
  <1>p. Positions(dir) \subseteq Nat
    BY <1>0, FirstEntry DEF Positions
  <1>c. cookie \in Nat /\ Place(dir, cookie) \in Nat /\ Total \in Nat
        /\ Place(dir, cookie) <= Total
    <2>1. cookie \in Nat
      BY <1>p DEF ScanInv
    <2>2. /\ Cardinality(LiveOffsets(dir)) \in Nat
          /\ Place(dir, cookie) \in 0..Cardinality(LiveOffsets(dir))
      BY <1>0, <2>1, PlaceBound, Zenon
    <2> QED  BY <2>1, <2>2 DEF Total
  <1>1. CASE op_readdir
    <2>1. pc' = "readdir" /\ filled' = <<>> /\ offset' = cookie /\ cookie' = cookie /\ eof' = eof /\ ~eof
      BY <1>1 DEF op_readdir
    <2> QED  BY <1>0, <1>c, <2>1 DEF FillInv
  <1>2. CASE SkipDentry
    <2>1. /\ pc = "readdir" /\ pc' = "readdir" /\ UNCHANGED <<filled, cookie, eof>>
          /\ offset' = offset + Dentry.rec_len /\ ~AtEnd
          /\ Dentry.inode = 0 \/ Dentry.name = NoName
      BY <1>2 DEF SkipDentry
    <2>2. offset \in Offsets(dir) /\ Dentry = DentryAt(dir, offset)
      BY <2>1, ScanLooks
    <2>3. offset \notin LiveOffsets(dir)
      BY <2>1, <2>2 DEF LiveOffsets
    <2>4. Place(dir, offset') = Place(dir, offset)
      BY <1>0, <2>1, <2>2, <2>3, PlaceNext, SMTT(30)
    <2> QED  BY <1>0, <2>1, <2>4 DEF FillInv
  <1>3. CASE FillDentry
    <2> DEFINE x == <<Dentry.name, offset'>>
    <2>1. /\ pc = "readdir" /\ pc' = "readdir" /\ UNCHANGED <<cookie, eof>>
          /\ offset' = offset + Dentry.rec_len /\ ~AtEnd
          /\ Dentry.inode # 0 /\ Dentry.name # NoName
          /\ filled' = Append(filled, x)
      BY <1>3 DEF FillDentry
    <2>2. offset \in Offsets(dir) /\ Dentry = DentryAt(dir, offset) /\ offset' \in Positions(dir)
      BY <2>1, ScanLooks
    <2>3. offset \in LiveOffsets(dir)
      BY <2>1, <2>2 DEF LiveOffsets
    <2>4. Place(dir, offset') = Place(dir, offset) + 1
      BY <1>0, <2>1, <2>2, <2>3, PlaceNext, Zenon
    <2>5. Live(dir)[Place(dir, offset) + 1] = Dentry.name
      BY <1>0, <2>2, <2>3, LiveAt
    <2>6. x \in EntryNames \X Nat
      BY <1>p, <2>2 DEF EntryNames
    <2>7. Place(dir, offset) = Place(dir, cookie) + Len(filled) /\ filled \in Seq(EntryNames \X Nat)
          /\ Len(filled) \in Nat
      BY <2>1 DEF FillInv
    <2>8. x[1] = Dentry.name /\ x[2] = offset'
      OBVIOUS
    <2> HIDE DEF x
    <2>9. /\ filled' \in Seq(EntryNames \X Nat) /\ Len(filled') = Len(filled) + 1
          /\ filled'[Len(filled) + 1] = x
          /\ \A k \in 1..Len(filled) : filled'[k] = filled[k]
      BY <2>1, <2>6, <2>7
    <2>10. ASSUME NEW k \in 1..Len(filled')
           PROVE  /\ filled'[k][2] \in Positions(dir)
                  /\ Place(dir, filled'[k][2]) = Place(dir, cookie) + k
                  /\ filled'[k][1] = Live(dir)[Place(dir, cookie) + k]
      <3>1. CASE k \in 1..Len(filled)
        BY <2>1, <2>9, <3>1 DEF FillInv
      <3>2. CASE k = Len(filled) + 1
        <4>1. Place(dir, cookie) + k = Place(dir, offset) + 1
          BY <1>c, <2>7, <3>2
        <4> QED  BY <2>2, <2>4, <2>5, <2>8, <2>9, <3>2, <4>1, Zenon
      <3> QED  BY <2>7, <2>9, <3>1, <3>2, SMTT(30)
    <2>11. Place(dir, offset') = Place(dir, cookie) + Len(filled')
      BY <1>c, <2>4, <2>7, <2>9
    <2>12. ~eof
      BY <2>1 DEF FillInv
    <2> QED  BY <1>0, <2>1, <2>9, <2>10, <2>11, <2>12 DEF FillInv
  <1>4. CASE ReaddirReturns
    <2>1. pc = "readdir" /\ pc' = "reply" /\ UNCHANGED <<filled, cookie, eof>>
          /\ (AtEnd \/ Len(filled) = Capacity)
      BY <1>4 DEF ReaddirReturns
    <2>2. ASSUME Len(filled) = 0 PROVE Place(dir, cookie) = Total
      <3>1. AtEnd
        BY <2>1, <2>2, CapacityAssumption
      <3>2. Place(dir, offset) = Place(dir, cookie)
        BY <1>c, <2>1, <2>2 DEF FillInv
      <3> QED  BY <1>0, <3>1, <3>2, PlaceEnd DEF AtEnd, Total
    <2> QED  BY <1>0, <2>1, <2>2 DEF FillInv
  <1>5. CASE \E n \in 1..Capacity : Consume(n)
    BY <1>0, <1>5 DEF Consume, FillInv
  <1>6. CASE ConsumeEnd
    BY <1>0, <1>6 DEF ConsumeEnd, FillInv
  <1>7. CASE Rewind
    BY <1>0, <1>7 DEF Rewind, FillInv
  <1>8. CASE \E n \in Names : LookupStarts(n)
    BY <1>0, <1>8 DEF LookupStarts, FillInv
  <1>9. CASE LookupContinues \/ LookupFinds \/ LookupFails
    BY <1>0, <1>9 DEF LookupContinues, LookupFinds, LookupFails, FillInv
  <1>10. CASE LookupAnswered \/ UNCHANGED vars
    BY <1>0, <1>10, SMTT(20) DEF LookupAnswered, vars, FillInv
  <1> QED
    BY <1>1, <1>2, <1>3, <1>4, <1>5, <1>6, <1>7, <1>8, <1>9, <1>10, Zenon DEF Next, Serve, Read

(* What is consumed continues what was consumed, and an empty reply comes  *)
(* only when nothing is left.                                              *)
LEMMA ConsumedStep == ScanInv /\ FillInv /\ ConsumedInv /\ [Next]_vars => ConsumedInv'
  <1> SUFFICES ASSUME ScanInv, FillInv, ConsumedInv, [Next]_vars PROVE ConsumedInv'
    OBVIOUS
  <1>0. dir' = dir /\ EntryNames' = EntryNames /\ Total' = Total /\ dir \in DOMAIN Dirs
    BY SameDirectory DEF ScanInv
  <1>1. CASE UNCHANGED <<delivered, cookie, eof>>
    BY <1>0, <1>1 DEF ConsumedInv
  <1>2. ASSUME NEW n \in 1..Capacity, Consume(n)
        PROVE  ConsumedInv'
    <2> DEFINE s == [k \in 1..n |-> filled[k][1]]
    <2>1. /\ pc = "reply" /\ n \in 1..Len(filled) /\ eof' = eof
          /\ delivered' = delivered \o s /\ cookie' = filled[n][2]
      BY <1>2 DEF Consume
    <2>2. /\ filled \in Seq(EntryNames \X Nat) /\ ~eof /\ Len(filled) \in Nat
          /\ \A k \in 1..Len(filled) :
               /\ Place(dir, filled[k][2]) = Place(dir, cookie) + k
               /\ filled[k][1] = Live(dir)[Place(dir, cookie) + k]
      BY <2>1 DEF FillInv
    <2>3. \A k \in 1..Len(filled) : filled[k][1] \in EntryNames
      BY <2>2
    <2>4. n \in Nat /\ 1..n \subseteq 1..Len(filled)
      BY <2>1, <2>2
    <2>5. s \in Seq(EntryNames) /\ Len(s) = n
      BY <2>3, <2>4
    <2>6. \A k \in 1..n : s[k] = Live(dir)[Len(delivered) + k]
      BY <2>2, <2>4, Zenon DEF ConsumedInv
    <2> HIDE DEF s
    <2>7. delivered \in Seq(EntryNames) /\ Len(delivered) \in Nat
      BY DEF ConsumedInv
    <2>8. /\ delivered' \in Seq(EntryNames) /\ Len(delivered') = Len(delivered) + n
          /\ \A k \in 1..Len(delivered) : delivered'[k] = delivered[k]
          /\ \A k \in 1..n : delivered'[Len(delivered) + k] = s[k]
      <3>1. delivered' \in Seq(EntryNames) /\ Len(delivered') = Len(delivered) + n
        <4>1. (delivered \o s) \in Seq(EntryNames)
          BY <2>5, <2>7
        <4>2. Len(delivered \o s) = Len(delivered) + n
          BY <2>5, <2>7
        <4> QED  BY <2>1, <4>1, <4>2
      <3>2. \A k \in 1..Len(delivered) : (delivered \o s)[k] = delivered[k]
        BY <2>4, <2>5, <2>7
      <3>3. \A k \in 1..n : (delivered \o s)[Len(delivered) + k] = s[k]
        BY <2>4, <2>5, <2>7
      <3> QED  BY <2>1, <3>1, <3>2, <3>3
    <2>9. Len(delivered') = Place(dir, cookie')
      BY <2>1, <2>2, <2>8 DEF ConsumedInv
    <2>10. ASSUME NEW k \in 1..Len(delivered')
           PROVE  delivered'[k] = Live(dir)[k]
      <3>1. CASE k \in 1..Len(delivered)
        BY <2>8, <3>1 DEF ConsumedInv
      <3>2. CASE k - Len(delivered) \in 1..n
        <4> DEFINE j == k - Len(delivered)
        <4>1. k = Len(delivered) + j
          BY <2>7, <3>2
        <4> HIDE DEF j
        <4>2. j \in 1..n
          BY <3>2 DEF j
        <4> QED  BY <2>6, <2>8, <4>1, <4>2, ZenonT(30)
      <3> QED  BY <2>4, <2>7, <2>8, <3>1, <3>2, SMTT(20)
    <2> QED  BY <1>0, <2>1, <2>2, <2>8, <2>9, <2>10, SMTT(30) DEF ConsumedInv
  <1>3. CASE ConsumeEnd
    BY <1>0, <1>3, SMTT(30) DEF ConsumeEnd, ConsumedInv, FillInv
  <1>4. CASE Rewind
    BY <1>0, <1>4, PlaceEnd, SMTT(20) DEF Rewind, ConsumedInv
  <1> QED
    BY <1>1, <1>2, <1>3, <1>4
    DEF Next, Serve, Read, vars, op_readdir, SkipDentry, FillDentry, ReaddirReturns,
        LookupStarts, LookupContinues, LookupFinds, LookupFails, LookupAnswered

(* A scan passes only entries that do not have the name, and looks at all. *)
LEMMA LookupStep == ScanInv /\ LookupInv /\ [Next]_vars => LookupInv'
  <1> SUFFICES ASSUME ScanInv, LookupInv, [Next]_vars PROVE LookupInv'
    OBVIOUS
  <1>0. dir' = dir /\ dir \in DOMAIN Dirs
    BY SameDirectory DEF ScanInv
  <1>1. CASE UNCHANGED <<want, result>> /\ pc' # "lookup"
    BY <1>0, <1>1 DEF LookupInv, LookupAnswersDirectory
  <1>2. ASSUME NEW n \in Names, LookupStarts(n)
        PROVE  LookupInv'
    <2>1. offset' = 0 /\ want' = n /\ result' = -1
      BY <1>2 DEF LookupStarts
    <2>2. \A off \in LiveOffsets(dir) : off \in Nat
      BY <1>0, FirstEntry DEF LiveOffsets
    <2>3. \A off \in LiveOffsets(dir) : ~(off < 0)
      BY <2>2
    <2> QED  BY <1>0, <2>1, <2>3 DEF LookupInv, LookupAnswersDirectory
  <1>3. CASE LookupContinues
    <2>1. /\ pc = "lookup" /\ ~AtEnd /\ ~Matches(Dentry) /\ UNCHANGED <<want, result, pc>>
          /\ offset' = offset + Dentry.rec_len
      BY <1>3 DEF LookupContinues
    <2>2. offset \in Offsets(dir) /\ Dentry = DentryAt(dir, offset) /\ offset \in Nat
      BY <2>1, ScanLooks
    <2>3. \A o \in Offsets(dir) : o < offset' => o <= offset
      BY <1>0, <2>1, <2>2, NextEntry
    <2>4. offset \in LiveOffsets(dir) => Dentry.name # want
      BY <2>1, <2>2 DEF LiveOffsets, Matches
    <2>5. ASSUME NEW o \in LiveOffsets(dir), o < offset'
          PROVE  DentryAt(dir, o).name # want
      <3>1. o \in Offsets(dir) /\ o \in Nat
        BY <1>0, FirstEntry DEF LiveOffsets
      <3>2. o < offset \/ o = offset
        BY <2>2, <2>3, <2>5, <3>1
      <3> QED  BY <2>1, <2>2, <2>4, <2>5, <3>2, Zenon DEF LookupInv
    <2> QED  BY <1>0, <2>1, <2>5 DEF LookupInv, LookupAnswersDirectory
  <1>4. CASE LookupFinds
    <2>1. /\ pc = "lookup" /\ ~AtEnd /\ Matches(Dentry) /\ want' = want /\ pc' = "idle"
          /\ result' = Dentry.inode
      BY <1>4 DEF LookupFinds
    <2>2. offset \in Offsets(dir) /\ Dentry = DentryAt(dir, offset)
      BY <2>1, ScanLooks
    <2>3. want # NoName
      BY <2>1, DirsAssumption DEF LookupInv
    <2>4. offset \in LiveOffsets(dir) /\ Dentry.name = want
      BY <2>1, <2>2, <2>3 DEF LiveOffsets, Matches
    <2>5. LookupAnswersDirectory'
      BY <1>0, <2>1, <2>2, <2>4, SMTT(30) DEF LookupAnswersDirectory
    <2> QED  BY <2>1, <2>5 DEF LookupInv
  <1>5. CASE LookupFails
    <2>1. pc = "lookup" /\ AtEnd /\ result' = 0 /\ want' = want /\ pc' = "idle"
      BY <1>5 DEF LookupFails
    <2>2. \A off \in LiveOffsets(dir) : off < offset
      <3>1. \A off \in LiveOffsets(dir) : off \in 0..(inode_get_size(dir) - 1)
        BY DEF LiveOffsets, Offsets
      <3> QED  BY <1>0, <2>1, <3>1, FirstEntry, SMTT(30) DEF AtEnd
    <2>3. \A off \in LiveOffsets(dir) : DentryAt(dir, off).name # want
      BY <2>1, <2>2 DEF LookupInv
    <2>4. LookupAnswersDirectory'
      BY <1>0, <2>1, <2>3 DEF LookupAnswersDirectory
    <2> QED  BY <2>1, <2>4 DEF LookupInv
  <1>6. CASE LookupAnswered
    BY <1>0, <1>6 DEF LookupAnswered, LookupInv, LookupAnswersDirectory
  <1>7. CASE UNCHANGED vars
    BY <1>7 DEF vars, LookupInv, LookupAnswersDirectory
  <1> QED
    BY <1>1, <1>2, <1>3, <1>4, <1>5, <1>6, <1>7, Zenon
    DEF Next, Serve, Read, op_readdir, SkipDentry, FillDentry, ReaddirReturns,
        Consume, ConsumeEnd, Rewind

(* The invariant of a directory that is read and searched.                 *)
THEOREM DirInvariant == Spec => [](ScanInv /\ FillInv /\ ConsumedInv /\ LookupInv)
  <1>1. (ScanInv /\ FillInv /\ ConsumedInv /\ LookupInv) /\ [Next]_vars
          => (ScanInv /\ FillInv /\ ConsumedInv /\ LookupInv)'
    BY ScanStep, FillStep, ConsumedStep, LookupStep
  <1> QED  BY InitInv, <1>1, PTL DEF Spec

(* A process that reads a directory through op_readdir sees its names in   *)
(* order, none twice and none left out, wherever replies are cut, for      *)
(* directories of any layout and buffers of any capacity.                  *)
THEOREM DeliveryCorrect == Spec => []DeliveredExactlyOnce
  <1>1. ScanInv /\ ConsumedInv => DeliveredExactlyOnce
    <2> SUFFICES ASSUME ScanInv, ConsumedInv PROVE DeliveredExactlyOnce
      OBVIOUS
    <2>1. Total \in Nat /\ Place(dir, cookie) \in Nat /\ Place(dir, cookie) <= Total
      <3>1. dir \in DOMAIN Dirs /\ cookie \in Nat
        BY FirstEntry DEF ScanInv, Positions
      <3>2. /\ Cardinality(LiveOffsets(dir)) \in Nat
            /\ Place(dir, cookie) \in 0..Cardinality(LiveOffsets(dir))
        BY <3>1, PlaceBound, ZenonT(30)
      <3> QED  BY <3>2 DEF Total
    <2>2. DOMAIN Live(dir) = 1..Total /\ Len(Live(dir)) = Total
      BY <2>1, SMTT(30) DEF Live, Total
    <2>3. /\ delivered \in Seq(EntryNames) /\ Len(delivered) = Place(dir, cookie)
          /\ \A k \in 1..Len(delivered) : delivered[k] = Live(dir)[k]
      BY DEF ConsumedInv
    <2>4. SubSeq(delivered, 1, Len(delivered)) = [k \in 1..Len(delivered) |-> delivered[k]]
      BY <2>1, <2>3, SMTT(30)
    <2>5. SubSeq(Live(dir), 1, Len(delivered)) = [k \in 1..Len(delivered) |-> Live(dir)[k]]
      BY <2>1, <2>2, <2>3, SMTT(30) DEF Live
    <2>6. IsPrefix(delivered, Live(dir))
      BY <2>1, <2>2, <2>3, <2>4, <2>5 DEF IsPrefix
    <2>7. ASSUME eof PROVE delivered = Live(dir)
      <3>1. Len(delivered) = Total
        BY <2>3, <2>7 DEF ConsumedInv
      <3>2. delivered = [k \in 1..Total |-> delivered[k]]
        BY <2>3, <3>1
      <3>3. Live(dir) = [k \in 1..Total |-> Live(dir)[k]]
        BY DEF Live, Total
      <3> QED  BY <2>3, <3>1, <3>2, <3>3, Zenon
    <2> QED  BY <2>3, <2>6, <2>7 DEF DeliveredExactlyOnce
  <1> QED  BY DirInvariant, <1>1, PTL

(* The scan for a name answers its inode number, or 0 when no entry in use *)
(* has the name, for directories of any layout.                            *)
THEOREM LookupCorrect == Spec => []LookupAnswersDirectory
  <1>1. LookupInv => LookupAnswersDirectory
    BY DEF LookupInv
  <1> QED  BY DirInvariant, <1>1, PTL

-----------------------------------------------------------------------------
(* A step of a scan, of op_readdir or of the search for a name, that does  *)
(* not end it.                                                             *)
ScansOn == SkipDentry \/ FillDentry \/ LookupContinues

(* Entries are counted.                                                    *)
LEMMA PlaceNat ==
  ASSUME NEW d \in DOMAIN Dirs, NEW off \in Nat
  PROVE  Place(d, off) \in Nat
  <1> DEFINE m == Place(d, off)
             c == Cardinality(LiveOffsets(d))
  <1>1. c \in Nat /\ m \in 0..c
    BY PlaceBound
  <1> HIDE DEF m, c
  <1>2. m \in Nat
    BY <1>1
  <1> QED  BY <1>2 DEF m

(* More entries are counted only farther on.                               *)
LEMMA PlaceFarther ==
  ASSUME NEW d \in DOMAIN Dirs, NEW a \in Nat, NEW b \in Nat, Place(d, a) < Place(d, b)
  PROVE  a < b
  <1> SUFFICES ASSUME b <= a PROVE FALSE
    OBVIOUS
  <1> DEFINE S == {o \in LiveOffsets(d) : o < b}
             T == {o \in LiveOffsets(d) : o < a}
  <1>1. LiveOffsets(d) \subseteq Nat
    BY PlaceBound, FirstEntry
  <1>2. S \in SUBSET T
    BY <1>1
  <1>3. IsFiniteSet(T)
    BY PlaceBound
  <1>4. Place(d, a) = Cardinality(T) /\ Place(d, b) = Cardinality(S)
    BY DEF Place
  <1>5. Place(d, a) \in Nat /\ Place(d, b) \in Nat
    BY PlaceNat
  <1> HIDE DEF S, T
  <1>6. Cardinality(S) <= Cardinality(T)
    BY <1>2, <1>3, FS_Subset
  <1> QED  BY <1>4, <1>5, <1>6

(* Why the loops of op_readdir and inode_get_idx_by_path, which end where  *)
(* the offset equals the size, do end: each round moves the offset on and  *)
(* never past the size.  And why a process that reads on comes to the end: *)
(* whatever it takes of a reply moves its own offset on, never past the    *)
(* size, and a reply is only empty at the end.                             *)
THEOREM ScanAdvances ==
  Spec => [][/\ ScansOn => offset < offset' /\ offset' <= inode_get_size(dir)
             /\ \A n \in 1..Capacity : Consume(n) =>
                  cookie < cookie' /\ cookie' <= inode_get_size(dir)
             /\ ConsumeEnd => Place(dir, cookie) = Cardinality(LiveOffsets(dir))]_vars
  <1> DEFINE Adv == /\ ScansOn => offset < offset' /\ offset' <= inode_get_size(dir)
                    /\ \A n \in 1..Capacity : Consume(n) =>
                         cookie < cookie' /\ cookie' <= inode_get_size(dir)
                    /\ ConsumeEnd => Place(dir, cookie) = Cardinality(LiveOffsets(dir))
  <1>1. ScanInv /\ FillInv => Adv
    <2> SUFFICES ASSUME ScanInv, FillInv PROVE Adv
      OBVIOUS
    <2>0. dir \in DOMAIN Dirs /\ offset \in Positions(dir) /\ cookie \in Positions(dir)
      BY DEF ScanInv
    <2>1. \A p \in Positions(dir) : p \in Nat /\ p <= inode_get_size(dir)
      BY <2>0, FirstEntry DEF Positions, Offsets
    <2>2. ASSUME ScansOn PROVE offset < offset' /\ offset' <= inode_get_size(dir)
      <3>1. ~AtEnd /\ offset' = offset + Dentry.rec_len
        BY <2>2 DEF ScansOn, SkipDentry, FillDentry, LookupContinues
      <3>2. /\ offset \in Offsets(dir) /\ offset \in Nat /\ Dentry = DentryAt(dir, offset)
            /\ offset' \in Positions(dir)
        BY <3>1, ScanLooks
      <3>3. Dentry.rec_len \in Nat \ {0}
        BY <2>0, <3>2, NextEntry
      <3>4. offset < offset'
        BY <3>1, <3>2, <3>3
      <3> QED  BY <2>1, <3>2, <3>4, SMTT(30)
    <2>3. ASSUME NEW n \in 1..Capacity, Consume(n)
          PROVE  cookie < cookie' /\ cookie' <= inode_get_size(dir)
      <3>1. pc = "reply" /\ n \in 1..Len(filled) /\ cookie' = filled[n][2]
        BY <2>3 DEF Consume
      <3>2. cookie' \in Positions(dir) /\ Place(dir, cookie') = Place(dir, cookie) + n
        BY <3>1 DEF FillInv
      <3>3. cookie \in Nat /\ cookie' \in Nat /\ cookie' <= inode_get_size(dir)
        BY <2>0, <2>1, <3>2
      <3>4. Place(dir, cookie) \in Nat
        BY <2>0, <3>3, PlaceNat
      <3>5. n \in Nat /\ n > 0
        BY <3>1 DEF FillInv
      <3>6. Place(dir, cookie) < Place(dir, cookie')
        BY <3>2, <3>4, <3>5, SMTT(30)
      <3> QED  BY <2>0, <3>3, <3>6, PlaceFarther
    <2>4. ASSUME ConsumeEnd PROVE Place(dir, cookie) = Cardinality(LiveOffsets(dir))
      BY <2>4 DEF ConsumeEnd, FillInv, Total
    <2> QED  BY <2>2, <2>3, <2>4
  <1> HIDE DEF Adv
  <1>2. ScanInv /\ FillInv /\ [Next]_vars => [Adv]_vars
    BY <1>1
  <1>3. Spec => [][Adv]_vars
    BY DirInvariant, <1>2, PTL DEF Spec
  <1> QED  BY <1>3 DEF Adv
=============================================================================
