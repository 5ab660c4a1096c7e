--------------------------- MODULE FileReadProofs ---------------------------
(***************************************************************************)
(* Proofs that a read stores and returns all it promises, that its loop    *)
(* maps only blocks of the file, and that what it stores is the content of *)
(* the file, for every block size, file, request and either build.         *)
(***************************************************************************)
EXTENDS FileRead, WellFoundedInduction, TLAPS

(* Division by the block size.                                             *)
LEMMA DivMod ==
  ASSUME NEW b \in Nat \ {0}, NEW a \in Nat
  PROVE  /\ a = b * (a \div b) + (a % b)
         /\ a \div b \in Nat
         /\ a % b \in 0..(b - 1)
  OBVIOUS

(* A larger number of blocks has at least one block of bytes more.         *)
LEMMA BlocksApart ==
  ASSUME NEW b \in Nat \ {0}, NEW x \in Int, NEW y \in Int, x < y
  PROVE  b * x + b <= b * y
  <1>1. y - x - 1 \in Nat
    OBVIOUS
  <1>2. b * (y - x - 1) >= 0
    BY <1>1
  <1>3. b * (y - x - 1) = b * y - b * x - b
    OBVIOUS
  <1> QED  BY <1>2, <1>3

(* Fewer bytes are fewer blocks.                                           *)
LEMMA BytesToBlocks ==
  ASSUME NEW b \in Nat \ {0}, NEW x \in Int, NEW y \in Int, b * x < b * y
  PROVE  x < y
  <1>1. CASE y < x
    BY <1>1, BlocksApart
  <1>2. CASE y = x
    BY <1>2
  <1> QED  BY <1>1, <1>2

(* The block a boundary is at.                                             *)
LEMMA DivExact ==
  ASSUME NEW b \in Nat \ {0}, NEW q \in Nat
  PROVE  (b * q) \div b = q /\ (b * q) % b = 0
  <1> DEFINE a == b * q
             s == a \div b
             m == a % b
  <1>1. a \in Nat
    OBVIOUS
  <1>2. a = b * s + m /\ s \in Nat /\ m \in 0..(b - 1)
    BY <1>1, DivMod, Zenon
  <1> HIDE DEF s, m
  <1>3. ~(s < q)
    BY <1>2, BlocksApart
  <1>4. ~(q < s)
    BY <1>2, BlocksApart
  <1>5. s = q
    BY <1>2, <1>3, <1>4
  <1>6. m = 0
    BY <1>2, <1>5
  <1> QED  BY <1>5, <1>6 DEF s, m

(* Behind byte U32 the aligned offset is in front of the offset.           *)
LEMMA AlignWraps ==
  ASSUME NEW n \in Nat, n >= U32, n % BLOCK_SIZE # 0
  PROVE  /\ ALIGN_TO_BLOCKSIZE(n) \in Nat
         /\ ALIGN_TO_BLOCKSIZE(n) < n
  <1> DEFINE b == BLOCK_SIZE
             m == n % U32
             k == U32 \div b
             q == m \div b
  <1>1. b \in Nat \ {0} /\ U32 \in Nat \ {0} /\ U32 % b = 0
    BY GeometryAssumption, WidthsAssumption
  <1>2. m \in 0..(U32 - 1)
    BY <1>1, DivMod
  <1>3. U32 = b * k /\ k \in Nat
    BY <1>1, DivMod
  <1>4. m = b * q + (m % b) /\ q \in Nat /\ m % b \in Nat
    <2> HIDE DEF b, m
    <2>1. m \in Nat
      BY <1>1, <1>2
    <2> QED  BY <1>1, <2>1
  <1>5. n # U32
    BY <1>1
  <1>6. ALIGN_TO_BLOCKSIZE(n) = q * b + b
    BY DEF ALIGN_TO_BLOCKSIZE
  <1> HIDE DEF b, m, k, q
  <1>7. b * q < b * k
    BY <1>1, <1>2, <1>3, <1>4
  <1>8. q < k
    BY <1>1, <1>3, <1>4, <1>7, BytesToBlocks
  <1>9. b * q + b <= b * k
    BY <1>1, <1>3, <1>4, <1>8, BlocksApart
  <1>10. q * b = b * q /\ b * q \in Nat
    BY <1>1, <1>4
  <1> QED  BY <1>1, <1>3, <1>5, <1>6, <1>9, <1>10

(* In front of byte U32 the aligned offset is the end of the block.        *)
LEMMA AlignExact ==
  ASSUME NEW n \in Nat, n < U32, n % BLOCK_SIZE # 0
  PROVE  ALIGN_TO_BLOCKSIZE(n) = BLOCK_SIZE * (n \div BLOCK_SIZE) + BLOCK_SIZE
  <1>1. U32 \in Nat \ {0} /\ BLOCK_SIZE \in Nat \ {0}
    BY GeometryAssumption
  <1>2. n % U32 = n
    BY <1>1
  <1>3. (n \div BLOCK_SIZE) * BLOCK_SIZE = BLOCK_SIZE * (n \div BLOCK_SIZE)
    BY <1>1, DivMod
  <1> QED  BY <1>2, <1>3 DEF ALIGN_TO_BLOCKSIZE

(* What first_read asks pread for: more than pread takes exactly when the  *)
(* request wraps, else no more than is wanted, and less only up to a block *)
(* boundary, and never more than the rest of the block.                    *)
LEMMA FirstPart ==
  ASSUME offset \in Nat, size \in Nat, offset < U64 \div 2
  PROVE  /\ FirstBytes \in Nat
         /\ Refused(FirstBytes) <=> Wraps(size, offset)
         /\ ~Refused(FirstBytes) =>
              /\ FirstBytes <= size
              /\ FirstBytes # 0 => (offset % BLOCK_SIZE) + FirstBytes <= BLOCK_SIZE
              /\ FirstBytes < size =>
                   offset + FirstBytes = BLOCK_SIZE * ((offset + FirstBytes) \div BLOCK_SIZE)
  <1> DEFINE b == BLOCK_SIZE
             q == offset \div b
             r == offset % b
             H == U64 \div 2
             last == offset + (size - 1)
             e == last \div b
  <1>1. b \in Nat \ {0} /\ U32 \in Nat \ {0} /\ U32 % b = 0
    BY GeometryAssumption, WidthsAssumption
  <1>2. offset = b * q + r /\ q \in Nat /\ r \in 0..(b - 1)
    BY <1>1
  <1>3. b <= U32
    BY <1>1
  <1>4. H \in Nat /\ U64 = H + H /\ H >= U32
    BY <1>1, WidthsAssumption
  <1>5. CASE size = 0 \/ r = 0
    <2>1. FirstBytes = 0
      BY <1>5 DEF FirstBytes
    <2>2. ~Refused(0) /\ ~Wraps(size, offset)
      BY <1>1, <1>4, <1>5 DEF Refused, Wraps
    <2>3. r = 0 => offset + 0 = b * ((offset + 0) \div b)
      BY <1>1, <1>2
    <2> QED  BY <1>5, <2>1, <2>2, <2>3
  <1>6. CASE size # 0 /\ r # 0 /\ q = e
    <2>1. FirstBytes = size
      BY <1>6 DEF FirstBytes
    <2>2. last \in Nat
      BY <1>6
    <2>3. last = b * e + (last % b) /\ last % b \in 0..(b - 1)
      <3> HIDE DEF last, b
      <3> QED  BY <1>1, <2>2
    <2>4. size < U32 /\ r + size <= b
      <3> HIDE DEF b, q, r, e
      <3> QED  BY <1>1, <1>2, <1>3, <1>6, <2>3
    <2>5. ~Refused(size)
      BY <1>1, <1>4, <2>4 DEF Refused
    <2>6. ~Wraps(size, offset)
      <3>1. offset + size - 1 = last
        OBVIOUS
      <3> QED  BY <1>6, <3>1 DEF Wraps
    <2> QED  BY <2>1, <2>4, <2>5, <2>6
  <1>7. CASE size # 0 /\ r # 0 /\ q # e
    <2> DEFINE d == ALIGN_TO_BLOCKSIZE(offset) - offset
    <2>1. FirstBytes = d % U64
      BY <1>7 DEF FirstBytes
    <2>2. Wraps(size, offset) <=> offset >= U32
      <3>1. offset + size - 1 = last
        OBVIOUS
      <3> QED  BY <1>7, <3>1 DEF Wraps
    <2>3. CASE offset >= U32
      <3>1. ALIGN_TO_BLOCKSIZE(offset) \in Nat /\ ALIGN_TO_BLOCKSIZE(offset) < offset
        BY <1>7, <2>3, AlignWraps
      <3>2. d \in Int /\ d < 0 /\ d >= -H
        BY <1>4, <3>1
      <3> HIDE DEF d, H
      <3>3. d % U64 = d + U64
        BY <1>1, <1>4, <3>2
      <3>4. d + U64 >= H /\ d + U64 \in Nat
        BY <1>4, <3>2
      <3>5. Refused(FirstBytes)
        BY <2>1, <3>3, <3>4 DEF Refused, H
      <3> QED  BY <2>1, <2>2, <2>3, <3>3, <3>4, <3>5
    <2>4. CASE offset < U32
      <3>1. d = b - r
        BY <1>1, <1>2, <1>7, <2>4, AlignExact
      <3>2. d \in 1..(b - 1)
        BY <1>1, <1>2, <1>7, <3>1
      <3> HIDE DEF d
      <3>3. d < H /\ d < U64
        BY <1>1, <1>3, <1>4, <3>2
      <3>4. FirstBytes = d
        BY <1>1, <1>4, <2>1, <3>2, <3>3
      <3>5. ~Refused(d)
        BY <1>4, <3>2, <3>3 DEF Refused
      <3>6. last \in Nat /\ e \in Nat /\ last >= b * e /\ last < b * e + b
        <4>1. last \in Nat
          BY <1>7
        <4> HIDE DEF last, b
        <4> QED  BY <1>1, <4>1
      <3>7. d <= size
        <4> HIDE DEF b, q, r, e
        <4>1. ~(e < q)
          BY <1>1, <1>2, <1>7, <3>6, BlocksApart
        <4>2. b * q + b <= b * e
          BY <1>1, <1>2, <1>7, <3>6, <4>1, BlocksApart
        <4> QED  BY <1>1, <1>2, <3>1, <3>6, <4>2
      <3>8. offset + d = b * (q + 1)
        <4> HIDE DEF b, q, r
        <4> QED  BY <1>1, <1>2, <3>1
      <3>9. offset + d = b * ((offset + d) \div b)
        <4> HIDE DEF b, q
        <4>1. (b * (q + 1)) \div b = q + 1
          BY <1>1, <1>2, DivExact
        <4> QED  BY <3>8, <4>1
      <3>10. ~(offset >= U32)
        BY <1>1, <2>4
      <3>11. r + d <= b
        <4> HIDE DEF b, r
        <4> QED  BY <1>1, <1>2, <3>1
      <3> QED  BY <2>2, <3>2, <3>4, <3>5, <3>7, <3>9, <3>10, <3>11
    <2> QED  BY <1>1, <2>3, <2>4
  <1> QED  BY <1>5, <1>6, <1>7

-----------------------------------------------------------------------------
(* A set of naturals that is not empty has a least element.                *)
LEMMA LeastNat ==
  ASSUME NEW T \in SUBSET Nat, T # {}
  PROVE  \E x \in T : \A y \in T : x <= y
  <1>1. IsWellFoundedOn(OpToRel(<, Nat), Nat)
    BY NatLessThanWellFounded, Zenon
  <1>2. PICK x \in T : \A y \in T : ~(<<y, x>> \in OpToRel(<, Nat))
    BY <1>1, WFMin, Zenon
  <1>3. \A y \in T : ~(y < x)
    BY <1>2, Zenon DEF OpToRel
  <1> QED  BY <1>3

(* A bounded one has a greatest.                                           *)
LEMMA GreatestNat ==
  ASSUME NEW n \in Nat, NEW T \in SUBSET (0..n), T # {}
  PROVE  \E x \in T : \A y \in T : y <= x
  <1> DEFINE D == {d \in Nat : n - d \in T}
  <1>1. D \in SUBSET Nat /\ D # {}
    <2>1. PICK x \in T : TRUE
      BY Zenon
    <2>2. n - x \in Nat /\ n - (n - x) = x
      OBVIOUS
    <2> QED  BY <2>2, Zenon
  <1>2. PICK d \in D : \A e \in D : d <= e
    BY <1>1, LeastNat, Zenon
  <1>3. ASSUME NEW y \in T
        PROVE  y <= n - d
    <2>1. n - y \in Nat /\ n - (n - y) = y /\ d \in Nat
      OBVIOUS
    <2>2. d <= n - y
      BY <1>2, <2>1
    <2> QED  BY <2>1, <2>2
  <1> QED  BY <1>3

(* The nodes the walk down a tree visits, by their depth: the recursive    *)
(* function of extent_get_pblock exists.                                   *)
LEMMA WalkUnfolds ==
  ASSUME NEW root, NEW l, root.depth \in Nat
  PROVE  \E f : /\ f[root.depth] = root
                /\ \A d \in 0..(root.depth - 1) : f[d] = ExtentChild(f[d + 1], l)
                /\ extent_get_pblock(root, l) = extent_get_block_from_ees(f[0].ee, l)
  <1> DEFINE D == root.depth
             Good(n, f) == \A d \in (D - n)..D : f[d] = IF d = D THEN root ELSE ExtentChild(f[d + 1], l)
             Bad == {n \in 0..D : ~\E f : Good(n, f)}
  <1>0. D \in Nat
    OBVIOUS
  <1> HIDE DEF D
  <1>1. \E f : Good(D, f)
    <2> SUFFICES ASSUME ~\E f : Good(D, f) PROVE FALSE
      OBVIOUS
    <2>1. D \in Bad /\ Bad \in SUBSET Nat
      BY <1>0
    <2> HIDE DEF Bad
    <2>2. PICK n \in Bad : \A m \in Bad : n <= m
      BY <2>1, LeastNat
    <2> USE DEF Bad
    <2>3. n # 0
      <3>1. Good(0, [d \in D..D |-> root])
        BY <1>0
      <3> QED  BY <3>1
    <2>4. n - 1 \in 0..D /\ n - 1 \notin Bad
      BY <1>0, <2>2, <2>3
    <2>5. PICK f : Good(n - 1, f)
      BY <2>4
    <2> DEFINE g == [d \in (D - n)..D |-> IF d = D THEN root ELSE ExtentChild(f[d + 1], l)]
    <2>6. Good(n, g)
      <3>1. n \in 1..D
        BY <1>0, <2>2, <2>3
      <3>2. \A d \in (D - n + 1)..D : f[d] = g[d]
        BY <1>0, <2>5, <3>1
      <3>3. ASSUME NEW d \in (D - n)..D
            PROVE  g[d] = IF d = D THEN root ELSE ExtentChild(g[d + 1], l)
        <4>1. CASE d = D
          BY <1>0, <4>1
        <4>2. CASE d # D
          <5>1. d + 1 \in (D - n + 1)..D
            BY <1>0, <3>1, <4>2
          <5>2. f[d + 1] = g[d + 1]
            BY <3>2, <5>1, Zenon
          <5>3. g[d] = ExtentChild(f[d + 1], l)
            BY <4>2
          <5> QED  BY <4>2, <5>2, <5>3
        <4> QED  BY <4>1, <4>2
      <3> QED  BY <3>3
    <2> QED  BY <2>2, <2>6, Zenon
  <1>2. PICK f : Good(D, f)
    BY <1>1
  <1> DEFINE g == [d \in 0..D |-> f[d]]
             node[d \in 0..D] == IF d = D THEN root ELSE ExtentChild(node[d + 1], l)
  <1>3. g = [d \in 0..D |-> IF d = D THEN root ELSE ExtentChild(g[d + 1], l)]
    BY <1>0, <1>2
  <1>4. node = [d \in 0..D |-> IF d = D THEN root ELSE ExtentChild(node[d + 1], l)]
    <2>1. \E h : h = [d \in 0..D |-> IF d = D THEN root ELSE ExtentChild(h[d + 1], l)]
      <3> HIDE DEF g
      <3> QED  BY <1>3, Zenon
    <2> QED  BY <2>1, Zenon
  <1>5. extent_get_pblock(root, l) = extent_get_block_from_ees(node[0].ee, l)
    BY DEF extent_get_pblock, D
  <1> HIDE DEF node
  <1>6. /\ node[D] = root
        /\ \A d \in 0..(D - 1) : node[d] = ExtentChild(node[d + 1], l)
    BY <1>0, <1>4
  <1> QED  BY <1>5, <1>6 DEF D

(* The entry an index node is left by leads to the child responsible for   *)
(* the block.                                                              *)
LEMMA ChildCovers ==
  ASSUME NEW inode, TreeEncodes(inode), NEW p \in inode.parts, p.node.depth # 0,
         NEW l \in p.lo..(p.hi - 1)
  PROVE  \E q \in inode.parts :
           /\ q.node = ExtentChild(p.node, l) /\ q.node.depth = p.node.depth - 1
           /\ l \in q.lo..(q.hi - 1)
  <1> DEFINE ei == p.node.ei
             N == Len(ei)
             below == {i \in 1..N : \A j \in 1..i : ei[j].block <= l}
             last == CHOOSE i \in below : \A j \in below : j <= i
  <1>1. /\ p.lo \in Nat /\ p.hi \in Nat /\ N \in Nat
        /\ IndexEncodes(inode, p.node, p.lo, p.hi)
    BY DEF TreeEncodes
  <1>2. /\ N > 0 /\ ei[1].block <= p.lo
        /\ \A i \in 1..N : ei[i].block \in Nat
        /\ \A i, j \in 1..N : i < j => ei[i].block < ei[j].block
    BY <1>1, Zenon DEF IndexEncodes
  <1>3. \A i \in 1..N : \E q \in inode.parts :
          /\ q.node = ExtentBlock[ei[i].leaf] /\ q.node.depth = p.node.depth - 1
          /\ q.lo = ei[i].block
          /\ q.hi = IF i = N THEN p.hi ELSE ei[i + 1].block
    BY <1>1, Zenon DEF IndexEncodes
  <1>4. ExtentChild(p.node, l) = ExtentBlock[ei[last].leaf]
    BY DEF ExtentChild
  <1> HIDE DEF ei, N
  <1>5. 1 \in below
    BY <1>1, <1>2
  <1>6. last \in below /\ \A j \in below : j <= last
    <2>1. below \in SUBSET (0..N) /\ below # {}
      BY <1>1, <1>5
    <2>2. \E i \in below : \A j \in below : j <= i
      <3> HIDE DEF below
      <3> QED  BY <1>1, <2>1, GreatestNat, Zenon
    <2> HIDE DEF below
    <2> QED  BY <2>2
  <1>7. last \in 1..N /\ ei[last].block <= l
    BY <1>6
  <1>8. last # N => l < ei[last + 1].block
    <2> SUFFICES ASSUME last # N, ~(l < ei[last + 1].block)
                 PROVE  FALSE
      OBVIOUS
    <2>1. last + 1 \in 1..N /\ ei[last + 1].block \in Nat
      BY <1>1, <1>2, <1>7
    <2>2. ei[last + 1].block <= l
      BY <1>1, <2>1
    <2>3. \A j \in 1..last : ei[j].block <= l
      BY <1>6
    <2> HIDE DEF last
    <2>4. last + 1 \in below
      BY <1>7, <2>1, <2>2, <2>3
    <2> QED  BY <1>6, <1>7, <2>4
  <1> HIDE DEF last, below
  <1>9. PICK q \in inode.parts :
          /\ q.node = ExtentBlock[ei[last].leaf] /\ q.node.depth = p.node.depth - 1
          /\ q.lo = ei[last].block
          /\ q.hi = IF last = N THEN p.hi ELSE ei[last + 1].block
    BY <1>3, <1>7
  <1>10. l \in q.lo..(q.hi - 1)
    <2>1. q.lo \in Nat /\ q.hi \in Nat /\ l \in Int
      BY <1>1 DEF TreeEncodes
    <2>2. q.lo <= l /\ l < q.hi
      BY <1>1, <1>7, <1>8, <1>9
    <2> QED  BY <2>1, <2>2
  <1> QED  BY <1>4, <1>9, <1>10

(* The walk down the tree ends in the leaf responsible for the block.      *)
LEMMA WalkCovers ==
  ASSUME NEW inode, TreeEncodes(inode), NEW l \in 0..(Len(inode.blocks) - 1),
         Len(inode.blocks) \in Nat
  PROVE  \E q \in inode.parts :
           /\ q.node.depth = 0 /\ l \in q.lo..(q.hi - 1)
           /\ extent_get_pblock(inode.i_block, l) = extent_get_block_from_ees(q.node.ee, l)
  <1>1. PICK root \in inode.parts :
          root.node = inode.i_block /\ root.lo = 0 /\ root.hi >= Len(inode.blocks)
    BY DEF TreeEncodes
  <1> DEFINE D == inode.i_block.depth
  <1>2. D \in Nat /\ root.hi \in Nat
    BY <1>1 DEF TreeEncodes
  <1>3. l \in root.lo..(root.hi - 1)
    BY <1>1, <1>2
  <1>4. PICK f : /\ f[D] = inode.i_block
                 /\ \A d \in 0..(D - 1) : f[d] = ExtentChild(f[d + 1], l)
                 /\ extent_get_pblock(inode.i_block, l) = extent_get_block_from_ees(f[0].ee, l)
    BY <1>2, WalkUnfolds, Zenon
  <1> DEFINE Covers(d) == \E q \in inode.parts :
               q.node = f[d] /\ q.node.depth = d /\ l \in q.lo..(q.hi - 1)
             Bad == {n \in 0..D : ~Covers(D - n)}
  <1>5. Covers(D)
    BY <1>1, <1>3, <1>4
  <1> HIDE DEF D
  <1>6. Covers(0)
    <2> SUFFICES ASSUME ~Covers(0) PROVE FALSE
      OBVIOUS
    <2>1. D \in Bad /\ Bad \in SUBSET Nat
      <3>1. D - D = 0
        BY <1>2
      <3> HIDE DEF Covers
      <3> QED  BY <1>2, <3>1
    <2> HIDE DEF Bad
    <2>2. PICK n \in Bad : \A m \in Bad : n <= m
      BY <2>1, LeastNat
    <2> HIDE DEF Covers
    <2>3. n # 0 /\ n \in 0..D /\ ~Covers(D - n)
      <3>1. D - 0 = D
        BY <1>2
      <3> QED  BY <1>5, <2>2, <3>1 DEF Bad
    <2>4. Covers(D - (n - 1))
      <3>1. n - 1 \in 0..D /\ n - 1 \notin Bad
        BY <1>2, <2>2, <2>3
      <3> QED  BY <3>1 DEF Bad
    <2> DEFINE d == D - n
    <2>5. d \in 0..(D - 1) /\ D - (n - 1) = d + 1 /\ (d + 1) - 1 = d /\ d + 1 # 0
      BY <1>2, <2>3
    <2> HIDE DEF d
    <2>6. Covers(d + 1)
      BY <2>4, <2>5
    <2>7. PICK p \in inode.parts :
            p.node = f[d + 1] /\ p.node.depth = d + 1 /\ l \in p.lo..(p.hi - 1)
      BY <2>6 DEF Covers
    <2>8. PICK q \in inode.parts :
            /\ q.node = ExtentChild(p.node, l) /\ q.node.depth = p.node.depth - 1
            /\ l \in q.lo..(q.hi - 1)
      <3>1. p.node.depth # 0
        BY <2>5, <2>7
      <3> QED  BY <2>7, <3>1, ChildCovers
    <2>9. q.node = f[d] /\ q.node.depth = d
      BY <1>4, <2>5, <2>7, <2>8
    <2>10. Covers(d)
      BY <2>8, <2>9 DEF Covers
    <2> QED  BY <2>3, <2>10 DEF d
  <1> QED  BY <1>4, <1>6

(* A mapping is right: its block is that of the file, and so are the       *)
(* blocks of its run.                                                      *)
RunMatches(inode, l, run) ==
  /\ run.pblock = PhysicalBlock(inode, l)
  /\ run.pblock # 0 =>
       \A j \in 0..(run.len - 1) :
         l + j < Len(inode.blocks) => PhysicalBlock(inode, l + j) = run.pblock + j

(* The first extent that ends behind a block contains it, in a leaf of a   *)
(* file with no extent behind a hole.                                      *)
LEMMA LeafMaps ==
  ASSUME NEW inode, Len(inode.blocks) \in Nat, inode.extents, HolesOnlyAtEnd(inode),
         NEW ee, Len(ee) \in Nat, NEW lo \in Nat, NEW hi \in Nat, LeafEncodes(inode, ee, lo, hi),
         NEW l \in lo..(hi - 1), l < Len(inode.blocks)
  PROVE  RunMatches(inode, l, extent_get_block_from_ees(ee, l))
  <1> DEFINE N == Len(ee)
             Phys(k) == PhysicalBlock(inode, k)
             L == Len(inode.blocks)
             ends == {i \in 1..N : ee[i].block + ee[i].len > l}
             i == CHOOSE j \in ends : \A k \in ends : j <= k
             run == extent_get_block_from_ees(ee, l)
  <1>1. N \in Nat /\ L \in Nat /\ l \in Nat /\ l < L /\ l \in lo..(hi - 1) /\ U32 \in Nat \ {0}
    BY GeometryAssumption
  <1>2. \A k \in 1..N :
          /\ ee[k].block \in lo..(L - 1) /\ ee[k].block + ee[k].len <= hi
          /\ ee[k].len \in Nat \ {0} /\ ee[k].start \in Nat \ {0}
          /\ ee[k].start + ee[k].len <= U32
    BY DEF LeafEncodes
  <1>3. \A k, j \in 1..N : k < j => ee[k].block + ee[k].len <= ee[j].block
    BY DEF LeafEncodes
  <1>4. \A m \in lo..(hi - 1) : m < L =>
          /\ Extents(ee, m) = {} => Phys(m) = 0
          /\ \A k \in Extents(ee, m) : Phys(m) = ee[k].start + (m - ee[k].block)
    BY DEF LeafEncodes
  <1>5. Phys(l) = 0 => \A k \in l..(L - 1) : Phys(k) = 0
    BY <1>1 DEF HolesOnlyAtEnd
  <1>6. \A m, k : k \in Extents(ee, m) <=>
                   k \in 1..N /\ m \in ee[k].block..(ee[k].block + ee[k].len - 1)
    BY DEF Extents
  <1>7. run = IF ends = {} THEN Mapping(0, 1)
              ELSE Mapping((ee[i].start + ((l - ee[i].block) % U32)) % U32,
                           ee[i].block + ee[i].len - l)
    BY DEF extent_get_block_from_ees
  <1> HIDE DEF N, L, Phys, run
  <1>8. CASE ends = {}
    <2>1. Extents(ee, l) = {}
      <3> SUFFICES ASSUME NEW k \in Extents(ee, l) PROVE FALSE
        OBVIOUS
      <3>1. k \in 1..N /\ l < ee[k].block + ee[k].len
        BY <1>1, <1>2, <1>6, SMTT(30)
      <3> QED  BY <1>1, <1>2, <1>8, <3>1, Zenon
    <2>2. Phys(l) = 0
      BY <1>1, <1>4, <2>1
    <2>3. run.pblock = 0
      BY <1>7, <1>8, Zenon DEF Mapping
    <2> QED  BY <2>2, <2>3 DEF RunMatches, Phys, run
  <1>9. CASE ends # {}
    <2>1. i \in ends /\ \A k \in ends : i <= k
      <3>1. ends \in SUBSET Nat
        OBVIOUS
      <3> HIDE DEF ends
      <3>2. \E j \in ends : \A k \in ends : j <= k
        BY <1>9, <3>1, LeastNat
      <3> QED  BY <3>2
    <2> HIDE DEF i
    <2> DEFINE from == ee[i].block
               len == ee[i].len
               start == ee[i].start
    <2>2. /\ i \in 1..N /\ from + len > l
          /\ from \in lo..(L - 1) /\ from + len <= hi /\ from \in Nat
          /\ len \in Nat \ {0} /\ start \in Nat \ {0} /\ start + len <= U32
      BY <1>1, <1>2, <2>1
    <2>3. \A m : m \in from..(from + len - 1) <=> i \in Extents(ee, m)
      BY <1>6, <2>2
    <2>4. \A k \in ends : k # i => from + len <= ee[k].block
      BY <1>3, <2>1, <2>2
    <2> HIDE DEF from, len, start
    <2>5. \A m \in from..(from + len - 1) : m < L => Phys(m) = start + (m - from)
      <3> SUFFICES ASSUME NEW m \in from..(from + len - 1), m < L
                   PROVE  Phys(m) = start + (m - from)
        OBVIOUS
      <3>1. i \in Extents(ee, m)
        BY <2>3
      <3>2. m \in lo..(hi - 1)
        BY <2>2
      <3> QED  BY <1>4, <3>1, <3>2 DEF start, from
    <2>6. from <= l
      <3> SUFFICES ASSUME l < from PROVE FALSE
        BY <1>1, <2>2
      <3>1. Extents(ee, l) = {}
        <4> SUFFICES ASSUME NEW k \in Extents(ee, l) PROVE FALSE
          OBVIOUS
        <4>1. k \in 1..N /\ l \in ee[k].block..(ee[k].block + ee[k].len - 1)
          BY <1>6
        <4>2. ee[k].block \in Nat /\ ee[k].len \in Nat
          BY <1>1, <1>2, <4>1, SMTT(20)
        <4>3. k \in ends /\ ee[k].block <= l
          <5>1. ee[k].block <= l /\ ee[k].block + ee[k].len > l
            <6> DEFINE x == ee[k].block
                       y == ee[k].len
            <6>1. x \in Nat /\ y \in Nat /\ l \in x..(x + y - 1)
              BY <4>1, <4>2
            <6> HIDE DEF x, y
            <6>2. x <= l /\ x + y > l
              BY <1>1, <6>1
            <6> QED  BY <6>2 DEF x, y
          <5> QED  BY <4>1, <5>1
        <4>4. k # i
          BY <1>1, <2>2, <4>3 DEF from
        <4> QED  BY <1>1, <2>2, <2>4, <4>2, <4>3, <4>4
      <3>2. Phys(l) = 0
        BY <1>1, <1>4, <3>1
      <3>3. Phys(from) = 0
        BY <1>1, <1>5, <2>2, <3>2
      <3>4. Phys(from) = start + (from - from)
        <4>1. from \in from..(from + len - 1) /\ from < L
          BY <1>1, <2>2
        <4> QED  BY <2>5, <4>1
      <3> QED  BY <2>2, <3>3, <3>4
    <2>7. run = Mapping((start + ((l - from) % U32)) % U32, from + len - l)
      BY <1>7, <1>9 DEF start, from, len
    <2>8. l - from \in 0..(U32 - 1) /\ start + (l - from) \in 0..(U32 - 1)
      BY <1>1, <2>2, <2>6
    <2>9. run.pblock = start + (l - from) /\ run.len = from + len - l
      <3>1. (l - from) % U32 = l - from
        BY <1>1, <2>8, SMTT(30)
      <3>2. (start + (l - from)) % U32 = start + (l - from)
        BY <1>1, <2>2, <2>8
      <3> QED  BY <2>7, <3>1, <3>2 DEF Mapping
    <2>10. \A j \in 0..(run.len - 1) : l + j < L => Phys(l + j) = run.pblock + j
      <3> SUFFICES ASSUME NEW j \in 0..(run.len - 1), l + j < L
                   PROVE  Phys(l + j) = run.pblock + j
        OBVIOUS
      <3>1. l + j \in from..(from + len - 1)
        BY <1>1, <2>2, <2>6, <2>9
      <3>2. Phys(l + j) = start + ((l + j) - from)
        BY <2>5, <3>1
      <3> QED  BY <1>1, <2>2, <2>9, <3>2
    <2>11. run.pblock = Phys(l)
      <3>1. l \in from..(from + len - 1)
        BY <1>1, <2>2, <2>6
      <3> QED  BY <1>1, <2>5, <2>9, <3>1
    <2> QED  BY <2>10, <2>11 DEF RunMatches, Phys, run, L
  <1> QED  BY <1>8, <1>9

(* The indices of a block of ext2/3 in its index blocks: the quotient and  *)
(* the rest of inode_get_data_pblock are its digits.                       *)
LEMMA TwoDigits ==
  ASSUME NEW A \in Nat \ {0}, NEW m \in 0..(A * A - 1)
  PROVE  /\ m \div A \in 0..(A - 1) /\ m % A \in 0..(A - 1)
         /\ m = A * (m \div A) + (m % A)
  <1> DEFINE q == m \div A
             r == m % A
  <1>1. A * A \in Nat /\ m \in Nat /\ m < A * A
    OBVIOUS
  <1>2. m = A * q + r /\ q \in Nat /\ r \in 0..(A - 1)
    BY <1>1, DivMod, Zenon
  <1> HIDE DEF q, r
  <1>3. A * q < A * A
    <2>1. A * q \in Nat
      BY <1>2
    <2> QED  BY <1>1, <1>2, <2>1
  <1>4. q < A
    BY <1>2, <1>3, BytesToBlocks
  <1> QED  BY <1>2, <1>4 DEF q, r

(* The same for three indices.                                             *)
LEMMA ThreeDigits ==
  ASSUME NEW A \in Nat \ {0}, NEW m \in 0..(A * A * A - 1)
  PROVE  /\ m \div (A * A) \in 0..(A - 1)
         /\ (m % (A * A)) \div A \in 0..(A - 1)
         /\ (m % (A * A)) % A \in 0..(A - 1)
         /\ m = A * (A * (m \div (A * A)) + (m % (A * A)) \div A) + ((m % (A * A)) % A)
  <1> DEFINE S == A * A
             q == m \div S
             r == m % S
             j == r \div A
             k == r % A
  <1>1. S \in Nat \ {0} /\ S * A \in Nat /\ m \in Nat /\ m < S * A
    OBVIOUS
  <1> HIDE DEF S
  <1>2. m = S * q + r /\ q \in Nat /\ r \in 0..(S - 1)
    BY <1>1, DivMod, Zenon
  <1> HIDE DEF q, r
  <1>3. S * q < S * A
    <2>1. S * q \in Nat
      BY <1>1, <1>2
    <2> QED  BY <1>1, <1>2, <2>1
  <1>4. q < A
    BY <1>1, <1>2, <1>3, BytesToBlocks
  <1>5. j \in 0..(A - 1) /\ k \in 0..(A - 1) /\ r = A * j + k
    BY <1>2, TwoDigits, Zenon DEF S
  <1> HIDE DEF j, k
  <1>6. S * q = A * (A * q)
    BY <1>2 DEF S
  <1>7. A * (A * q + j) = A * (A * q) + A * j
    BY <1>2, <1>5
  <1>8. A * (A * q) \in Nat /\ A * j \in Nat
    BY <1>2, <1>5
  <1>9. m = A * (A * q + j) + k
    BY <1>2, <1>5, <1>6, <1>7, <1>8
  <1> QED  BY <1>2, <1>4, <1>5, <1>9 DEF q, r, j, k, S

(* A block number behind the direct ones is found through its index        *)
(* blocks, none of which is missing.                                       *)
LEMMA IndirectMaps ==
  ASSUME NEW inode, inode.blocks \in Seq(Nat), inode.extents = FALSE, HolesOnlyAtEnd(inode),
         IndirectEncodes(inode), NEW l \in 0..(Len(inode.blocks) - 1)
  PROVE  RunMatches(inode, l, inode_get_data_pblock(inode, l))
  <1> DEFINE A == ADDRESSES_IN_IND_BLOCK
             Nd == EXT4_NDIR_BLOCKS
             L == Len(inode.blocks)
             Phys(k) == PhysicalBlock(inode, k)
             run == inode_get_data_pblock(inode, l)
             b1 == inode.i_block[EXT4_IND_BLOCK]
             b2 == inode.i_block[EXT4_DIND_BLOCK]
             b3 == inode.i_block[EXT4_TIND_BLOCK]
  <1>1. /\ A \in Nat \ {0} /\ Nd \in Nat \ {0} /\ L \in Nat
        /\ l \in Nat /\ l < L /\ A * A \in Nat /\ A * A * A \in Nat
    BY GeometryAssumption
  <1>2. MAX_IND_BLOCK = Nd + A /\ MAX_DIND_BLOCK = Nd + A + A * A
        /\ MAX_TIND_BLOCK = Nd + A + A * A + A * A * A
    BY DEF MAX_IND_BLOCK, MAX_DIND_BLOCK, MAX_TIND_BLOCK, ADDRESSES_IN_DIND_BLOCK,
           ADDRESSES_IN_TIND_BLOCK
  <1>3. /\ L <= MAX_TIND_BLOCK
        /\ \A i \in 0..(Nd - 1) : i < L => Phys(i) = inode.i_block[i]
        /\ \A i \in 0..(A - 1) : Nd + i < L => Phys(Nd + i) = Entry(b1, i)
        /\ \A i, j \in 0..(A - 1) :
             Nd + A + (A * i + j) < L => Phys(Nd + A + (A * i + j)) = Entry(Entry(b2, i), j)
        /\ \A i, j, k \in 0..(A - 1) :
             Nd + A + A * A + (A * (A * i + j) + k) < L =>
               Phys(Nd + A + A * A + (A * (A * i + j) + k)) = Entry(Entry(Entry(b3, i), j), k)
    BY DEF IndirectEncodes
  <1>4. Phys(l) = 0 => l < Nd
    BY <1>1 DEF HolesOnlyAtEnd
  <1>5. /\ l < Nd => run = Mapping(inode.i_block[l], 1)
        /\ ~(l < Nd) /\ l \in Nd..(MAX_IND_BLOCK - 1) =>
             run = Mapping(inode_get_data_pblock_ind(l - Nd, b1), 1)
        /\ ~(l < Nd) /\ ~(l \in Nd..(MAX_IND_BLOCK - 1))
           /\ l \in MAX_IND_BLOCK..(MAX_DIND_BLOCK - 1) =>
             run = Mapping(inode_get_data_pblock_dind(l - MAX_IND_BLOCK, b2), 1)
        /\ ~(l < Nd) /\ ~(l \in Nd..(MAX_IND_BLOCK - 1))
           /\ ~(l \in MAX_IND_BLOCK..(MAX_DIND_BLOCK - 1)) =>
             run = Mapping(inode_get_data_pblock_tind(l - MAX_DIND_BLOCK, b3), 1)
    <2> DEFINE P == l \in Nd..(MAX_IND_BLOCK - 1)
               Q == l \in MAX_IND_BLOCK..(MAX_DIND_BLOCK - 1)
    <2>1. ~(l < Nd /\ P) /\ ~(l < Nd /\ Q) /\ ~(P /\ Q)
      BY <1>1, <1>2
    <2>2. run = CASE inode.extents -> extent_get_pblock(inode.i_block, l)
                  [] ~inode.extents /\ l < Nd -> Mapping(inode.i_block[l], 1)
                  [] ~inode.extents /\ P -> Mapping(inode_get_data_pblock_ind(l - Nd, b1), 1)
                  [] ~inode.extents /\ Q ->
                       Mapping(inode_get_data_pblock_dind(l - MAX_IND_BLOCK, b2), 1)
                  [] OTHER -> Mapping(inode_get_data_pblock_tind(l - MAX_DIND_BLOCK, b3), 1)
      BY DEF inode_get_data_pblock
    <2> HIDE DEF P, Q, run
    <2>3. /\ l < Nd => run = Mapping(inode.i_block[l], 1)
          /\ P => run = Mapping(inode_get_data_pblock_ind(l - Nd, b1), 1)
          /\ Q => run = Mapping(inode_get_data_pblock_dind(l - MAX_IND_BLOCK, b2), 1)
          /\ ~(l < Nd) /\ ~P /\ ~Q =>
               run = Mapping(inode_get_data_pblock_tind(l - MAX_DIND_BLOCK, b3), 1)
      BY <2>1, <2>2
    <2> QED  BY <2>3 DEF P, Q
  <1>6. SUFFICES run = Mapping(Phys(l), 1)
    <2>1. Phys(l) \in Nat
      BY <1>1 DEF PhysicalBlock
    <2>2. \A j \in 0..(1 - 1) : l + j = l /\ Phys(l) + j = Phys(l)
      BY <1>1, <2>1
    <2> QED  BY <2>2 DEF RunMatches, Mapping
  <1> HIDE DEF A, Nd, L, Phys, run, b1, b2, b3
  <1>7. CASE l < Nd
    <2>1. l \in 0..(Nd - 1)
      BY <1>1, <1>7
    <2>2. Phys(l) = inode.i_block[l]
      BY <1>1, <1>3, <2>1
    <2> QED  BY <1>5, <1>7, <2>2
  <1>8. CASE l \in Nd..(MAX_IND_BLOCK - 1)
    <2> DEFINE i == l - Nd
    <2>1. i \in 0..(A - 1) /\ Nd + i = l /\ ~(l < Nd)
      BY <1>1, <1>2, <1>8
    <2> HIDE DEF i
    <2>2. Phys(l) = Entry(b1, i) /\ Phys(l) # 0
      BY <1>1, <1>3, <1>4, <2>1, Zenon
    <2>3. Phys(l) = inode_get_data_pblock_ind(i, b1)
      BY <2>2 DEF Entry, inode_get_data_pblock_ind
    <2> QED  BY <1>5, <1>8, <2>1, <2>3 DEF i
  <1>9. CASE l \in MAX_IND_BLOCK..(MAX_DIND_BLOCK - 1)
    <2> DEFINE m == l - MAX_IND_BLOCK
               i == m \div A
               j == m % A
    <2>1. m \in 0..(A * A - 1) /\ Nd + A + m = l /\ ~(l < Nd)
          /\ ~(l \in Nd..(MAX_IND_BLOCK - 1))
      BY <1>1, <1>2, <1>9
    <2> HIDE DEF m
    <2>2. i \in 0..(A - 1) /\ j \in 0..(A - 1) /\ m = A * i + j
      BY <1>1, <2>1, TwoDigits, Zenon
    <2>3. inode_get_data_pblock_dind(m, b2) = IndexBlock[IndexBlock[b2][i]][j]
      BY DEF inode_get_data_pblock_dind, inode_get_data_pblock_ind, A
    <2> HIDE DEF i, j
    <2>4. Phys(l) = Entry(Entry(b2, i), j) /\ Phys(l) # 0
      BY <1>1, <1>3, <1>4, <2>1, <2>2, Zenon
    <2>5. Phys(l) = inode_get_data_pblock_dind(m, b2)
      BY <2>3, <2>4 DEF Entry
    <2> QED  BY <1>1, <1>5, <1>9, <2>1, <2>5 DEF m
  <1>10. CASE l >= MAX_DIND_BLOCK
    <2> DEFINE m == l - MAX_DIND_BLOCK
               i == m \div (A * A)
               j == (m % (A * A)) \div A
               k == (m % (A * A)) % A
    <2>1. m \in 0..(A * A * A - 1) /\ Nd + A + A * A + m = l /\ ~(l < Nd)
          /\ ~(l \in Nd..(MAX_IND_BLOCK - 1)) /\ ~(l \in MAX_IND_BLOCK..(MAX_DIND_BLOCK - 1))
      <3> DEFINE S == A * A
                 T == A * A * A
      <3>1. S \in Nat /\ T \in Nat
        BY <1>1
      <3>2. MAX_IND_BLOCK = Nd + A /\ MAX_DIND_BLOCK = Nd + A + S
            /\ MAX_TIND_BLOCK = Nd + A + S + T /\ l < MAX_TIND_BLOCK
        BY <1>1, <1>2, <1>3
      <3> HIDE DEF S, T
      <3>3. m \in 0..(T - 1) /\ Nd + A + S + m = l
        BY <1>1, <1>10, <3>1, <3>2
      <3>4. ~(l < Nd) /\ ~(l \in Nd..(MAX_IND_BLOCK - 1))
            /\ ~(l \in MAX_IND_BLOCK..(MAX_DIND_BLOCK - 1))
        BY <1>1, <1>10, <3>1, <3>2
      <3> QED  BY <3>3, <3>4 DEF S, T
    <2> HIDE DEF m
    <2>2. i \in 0..(A - 1) /\ j \in 0..(A - 1) /\ k \in 0..(A - 1) /\ m = A * (A * i + j) + k
      BY <1>1, <2>1, ThreeDigits
    <2>3. inode_get_data_pblock_tind(m, b3) = IndexBlock[IndexBlock[IndexBlock[b3][i]][j]][k]
      BY DEF inode_get_data_pblock_tind, inode_get_data_pblock_dind, inode_get_data_pblock_ind,
             ADDRESSES_IN_DIND_BLOCK, A
    <2> HIDE DEF i, j, k
    <2>4. Phys(l) = Entry(Entry(Entry(b3, i), j), k) /\ Phys(l) # 0
      <3>1. Phys(Nd + A + A * A + (A * (A * i + j) + k)) = Entry(Entry(Entry(b3, i), j), k)
        <4>1. Nd + A + A * A + (A * (A * i + j) + k) = l
          BY <2>1, <2>2
        <4>2. Nd + A + A * A + (A * (A * i + j) + k) < L
          BY <1>1, <4>1, Zenon
        <4> QED  BY <1>3, <2>2, <4>2
      <3> QED  BY <1>4, <2>1, <2>2, <3>1
    <2>5. Phys(l) = inode_get_data_pblock_tind(m, b3)
      BY <2>3, <2>4 DEF Entry
    <2> QED  BY <1>1, <1>5, <2>1, <2>5 DEF m
  <1> QED
    <2>1. MAX_IND_BLOCK \in Nat /\ MAX_DIND_BLOCK \in Nat /\ Nd \in Nat
      BY <1>1, <1>2
    <2> QED  BY <1>1, <1>7, <1>8, <1>9, <1>10, <2>1

(* The mapping of a file that is encoded with no extent behind a hole and  *)
(* no index block missing is right for each of its blocks.                 *)
LEMMA MappingMatches ==
  ASSUME NEW inode, Encoded(inode), HolesOnlyAtEnd(inode),
         NEW l \in 0..(Len(inode.blocks) - 1)
  PROVE  RunMatches(inode, l, inode_get_data_pblock(inode, l))
  <1>1. Len(inode.blocks) \in Nat /\ inode.extents \in BOOLEAN
    BY DEF Encoded
  <1>2. CASE inode.extents
    <2>1. TreeEncodes(inode)
      BY <1>2 DEF Encoded
    <2>2. PICK q \in inode.parts :
            /\ q.node.depth = 0 /\ l \in q.lo..(q.hi - 1)
            /\ extent_get_pblock(inode.i_block, l) = extent_get_block_from_ees(q.node.ee, l)
      BY <1>1, <2>1, WalkCovers
    <2>3. /\ q.lo \in Nat /\ q.hi \in Nat /\ Len(q.node.ee) \in Nat
          /\ LeafEncodes(inode, q.node.ee, q.lo, q.hi)
      BY <2>1, <2>2 DEF TreeEncodes
    <2>4. l < Len(inode.blocks)
      BY <1>1
    <2>5. RunMatches(inode, l, extent_get_block_from_ees(q.node.ee, l))
      BY <1>1, <1>2, <2>2, <2>3, <2>4, LeafMaps
    <2>6. inode_get_data_pblock(inode, l) = extent_get_pblock(inode.i_block, l)
      BY <1>2 DEF inode_get_data_pblock
    <2> QED  BY <2>2, <2>5, <2>6
  <1>3. CASE inode.extents = FALSE
    <2>1. IndirectEncodes(inode)
      BY <1>3 DEF Encoded
    <2>2. inode.blocks \in Seq(Nat)
      BY DEF Encoded
    <2> QED  BY <1>3, <2>1, <2>2, IndirectMaps, Zenon
  <1> QED  BY <1>1, <1>2, <1>3, Zenon

-----------------------------------------------------------------------------
Bytes == (Nat \X Nat) \cup {Zero}

(* The byte of the disk at a place.                                        *)
DiskByte(at) == <<at \div BLOCK_SIZE, at % BLOCK_SIZE>>

(* pread gives the bytes asked for.                                        *)
LEMMA DiskBytesContent ==
  ASSUME NEW where \in Nat, NEW n \in Nat
  PROVE  /\ DiskBytes(where, n) \in Seq(Bytes) /\ Len(DiskBytes(where, n)) = n
         /\ \A k \in 1..n : DiskBytes(where, n)[k] = DiskByte(where + k - 1)
  <1>1. ASSUME NEW k \in 1..n
        PROVE  <<(where + k - 1) \div BLOCK_SIZE, (where + k - 1) % BLOCK_SIZE>> \in Bytes
    <2>1. where + k - 1 \in Nat /\ BLOCK_SIZE \in Nat \ {0}
      BY GeometryAssumption
    <2>2. /\ (where + k - 1) \div BLOCK_SIZE \in Nat
          /\ (where + k - 1) % BLOCK_SIZE \in Nat
      <3> DEFINE a == where + k - 1
      <3> HIDE DEF a
      <3>1. a \in Nat /\ BLOCK_SIZE \in Nat \ {0}
        BY <2>1 DEF a
      <3>2. a \div BLOCK_SIZE \in Nat /\ a % BLOCK_SIZE \in Nat
        BY <3>1
      <3> QED  BY <3>2 DEF a
    <2> QED  BY <2>2 DEF Bytes
  <1>2. DiskBytes(where, n) \in [1..n -> Bytes]
    BY <1>1, Zenon DEF DiskBytes
  <1> HIDE DEF Bytes
  <1>3. DiskBytes(where, n) \in Seq(Bytes)
    BY <1>2
  <1>4. DOMAIN DiskBytes(where, n) = 1..n
    BY DEF DiskBytes
  <1>5. \A k \in 1..n : DiskBytes(where, n)[k] = DiskByte(where + k - 1)
    BY DEF DiskBytes, DiskByte
  <1> QED  BY <1>3, <1>4, <1>5

(* A part of a sequence has the elements of its range.                     *)
LEMMA PartContent ==
  ASSUME NEW t \in Seq(Bytes), NEW i \in Nat, NEW j \in Nat,
         1 <= i, i <= j + 1, j <= Len(t)
  PROVE  /\ SubSeq(t, i, j) \in Seq(Bytes) /\ Len(SubSeq(t, i, j)) = j - i + 1
         /\ \A k \in 1..(j - i + 1) : SubSeq(t, i, j)[k] = t[i + k - 1]
  OBVIOUS

(* Either build of pread_wrapper gives the bytes asked for.                *)
LEMMA WrapperContent ==
  ASSUME NEW where \in Nat, NEW n \in Nat
  PROVE  /\ disk_read(where, n) \in Seq(Bytes) /\ Len(disk_read(where, n)) = n
         /\ \A k \in 1..n : disk_read(where, n)[k] = DiskByte(where + k - 1)
  <1> DEFINE P == PREAD_BLOCK_SIZE
             first_offset == where % P
             first_size == IF first_offset = 0 THEN 0 ELSE Least(n, P - first_offset)
             rest == n - first_size
             mid_read_size == (rest \div P) * P
             left == n - first_size - mid_read_size
             head == SubSeq(DiskBytes(where - first_offset, P),
                            first_offset + 1, first_offset + first_size)
             mid == DiskBytes(where + first_size, mid_read_size)
             tail == SubSeq(DiskBytes(where + first_size + mid_read_size, P), 1, left)
  <1>1. P \in Nat \ {0}
    BY WidthsAssumption
  <1>2. first_offset \in 0..(P - 1) /\ where - first_offset \in Nat
    BY <1>1
  <1>3. first_size \in Nat /\ first_size <= n /\ first_offset + first_size <= P
    <2> HIDE DEF P, first_offset
    <2> QED  BY <1>1, <1>2 DEF Least
  <1> HIDE DEF P, first_offset, first_size
  <1>4. rest \in Nat
    BY <1>3
  <1> HIDE DEF rest
  <1>5. rest = P * (rest \div P) + (rest % P) /\ rest \div P \in Nat /\ rest % P \in 0..(P - 1)
    BY <1>1, <1>4
  <1>6. mid_read_size \in Nat /\ rest - mid_read_size \in 0..(P - 1)
    BY <1>1, <1>4, <1>5
  <1> HIDE DEF mid_read_size
  <1>7. left \in 0..(P - 1) /\ first_size + mid_read_size + left = n
    BY <1>3, <1>6 DEF rest
  <1> HIDE DEF left
  <1>8. /\ head \in Seq(Bytes) /\ Len(head) = first_size
        /\ \A k \in 1..first_size : head[k] = DiskByte(where + k - 1)
    <2> DEFINE t == DiskBytes(where - first_offset, P)
    <2>1. /\ t \in Seq(Bytes) /\ Len(t) = P
          /\ \A k \in 1..P : t[k] = DiskByte((where - first_offset) + k - 1)
      BY <1>1, <1>2, DiskBytesContent
    <2> HIDE DEF t
    <2> DEFINE i == first_offset + 1
               j == first_offset + first_size
    <2>2. i \in Nat /\ j \in Nat /\ 1 <= i /\ i <= j + 1 /\ j <= Len(t) /\ j - i + 1 = first_size
      BY <1>1, <1>2, <1>3, <2>1
    <2> HIDE DEF i, j
    <2>3. /\ SubSeq(t, i, j) \in Seq(Bytes) /\ Len(SubSeq(t, i, j)) = j - i + 1
          /\ \A k \in 1..(j - i + 1) : SubSeq(t, i, j)[k] = t[i + k - 1]
      BY <2>1, <2>2, PartContent
    <2>4. ASSUME NEW k \in 1..first_size
          PROVE  SubSeq(t, i, j)[k] = DiskByte(where + k - 1)
      <3>1. i + k - 1 \in 1..P /\ (where - first_offset) + (i + k - 1) - 1 = where + k - 1
        BY <1>1, <1>2, <1>3 DEF i
      <3>2. t[i + k - 1] = DiskByte((where - first_offset) + (i + k - 1) - 1)
        BY <2>1, <3>1
      <3> QED  BY <2>2, <2>3, <3>1, <3>2
    <2> QED  BY <2>2, <2>3, <2>4 DEF t, i, j
  <1>9. /\ mid \in Seq(Bytes) /\ Len(mid) = mid_read_size
        /\ \A k \in 1..mid_read_size : mid[k] = DiskByte((where + first_size) + k - 1)
    <2>1. where + first_size \in Nat
      BY <1>3
    <2> QED  BY <1>6, <2>1, DiskBytesContent, Zenon
  <1>10. /\ tail \in Seq(Bytes) /\ Len(tail) = left
         /\ \A k \in 1..left : tail[k] = DiskByte((where + first_size + mid_read_size) + k - 1)
    <2> DEFINE t == DiskBytes(where + first_size + mid_read_size, P)
    <2>1. /\ t \in Seq(Bytes) /\ Len(t) = P
          /\ \A k \in 1..P : t[k] = DiskByte((where + first_size + mid_read_size) + k - 1)
      <3>1. where + first_size + mid_read_size \in Nat /\ P \in Nat
        BY <1>1, <1>3, <1>6
      <3> QED  BY <3>1, DiskBytesContent, Zenon
    <2> HIDE DEF t
    <2>2. /\ SubSeq(t, 1, left) \in Seq(Bytes) /\ Len(SubSeq(t, 1, left)) = left - 1 + 1
          /\ \A k \in 1..(left - 1 + 1) : SubSeq(t, 1, left)[k] = t[1 + k - 1]
      BY <1>1, <1>7, <2>1, PartContent
    <2>3. \A k \in 1..left : SubSeq(t, 1, left)[k] = t[k]
      BY <1>7, <2>2
    <2>4. \A k \in 1..left : k \in 1..P
      BY <1>1, <1>7
    <2> QED  BY <1>1, <1>7, <2>1, <2>2, <2>3, <2>4 DEF t
  <1>11. disk_read(where, n) = IF ~freebsd THEN DiskBytes(where, n) ELSE head \o mid \o tail
    BY DEF disk_read, pread_wrapper, P, first_offset, first_size, mid_read_size, left, rest
  <1> HIDE DEF head, mid, tail
  <1>12. head \o mid \o tail \in Seq(Bytes) /\ Len(head \o mid \o tail) = n
    <2>1. head \in Seq(Bytes) /\ mid \in Seq(Bytes) /\ tail \in Seq(Bytes)
      BY <1>8, <1>9, <1>10
    <2>2. Len(head) + Len(mid) + Len(tail) = n
      BY <1>7, <1>8, <1>9, <1>10
    <2> HIDE DEF Bytes
    <2> QED  BY <2>1, <2>2
  <1>13. ASSUME NEW k \in 1..n
         PROVE  (head \o mid \o tail)[k] = DiskByte(where + k - 1)
    <2>1. CASE k <= first_size
      <3>1. (head \o mid \o tail)[k] = head[k]
        BY <1>3, <1>6, <1>8, <1>9, <1>10, <2>1
      <3> QED  BY <1>3, <1>8, <2>1, <3>1
    <2>2. CASE k > first_size /\ k <= first_size + mid_read_size
      <3> DEFINE m == k - first_size
      <3>1. m \in 1..mid_read_size /\ (where + first_size) + m - 1 = where + k - 1
        BY <1>3, <1>6, <2>2
      <3>2. (head \o mid \o tail)[k] = mid[m]
        BY <1>3, <1>6, <1>8, <1>9, <1>10, <2>2
      <3> HIDE DEF m
      <3> QED  BY <1>9, <3>1, <3>2
    <2>3. CASE k > first_size + mid_read_size
      <3> DEFINE m == k - first_size - mid_read_size
      <3>1. m \in 1..left /\ (where + first_size + mid_read_size) + m - 1 = where + k - 1
        BY <1>3, <1>6, <1>7, <2>3
      <3>2. (head \o mid \o tail)[k] = tail[m]
        BY <1>3, <1>6, <1>7, <1>8, <1>9, <1>10, <2>3, SMTT(20)
      <3> HIDE DEF m
      <3> QED  BY <1>10, <3>1, <3>2
    <2>4. \/ k <= first_size
          \/ k > first_size /\ k <= first_size + mid_read_size
          \/ k > first_size + mid_read_size
      BY <1>3, <1>6
    <2> QED  BY <2>1, <2>2, <2>3, <2>4, Zenon
  <1>14. /\ DiskBytes(where, n) \in Seq(Bytes) /\ Len(DiskBytes(where, n)) = n
         /\ \A k \in 1..n : DiskBytes(where, n)[k] = DiskByte(where + k - 1)
    BY DiskBytesContent
  <1> QED  BY <1>11, <1>12, <1>13, <1>14, Zenon

-----------------------------------------------------------------------------
Wanted == IF offset >= Files[fh].size THEN 0 ELSE Least(asked, Files[fh].size - offset)

(* The request that is served: its file exists and its size is exact.      *)
Served ==
  /\ fh \in DOMAIN Files
  /\ offset \in Nat /\ offset < U64 \div 2
  /\ asked \in Nat /\ size \in Nat
  /\ size = Wanted

(* What the loop has read, up to a block boundary until the last byte.     *)
Progress ==
  /\ ret \in Nat /\ ret <= size
  /\ lblock \in Nat
  /\ buf \in Seq(Bytes) /\ Len(buf) = ret
  /\ ret < size => offset + ret = BLOCK_SIZE * lblock
  /\ ~Wraps(size, offset)

Inv ==
  /\ pc \in {"idle", "first", "loop", "done", "enoent", "aborted"}
  /\ pc \in {"first", "loop", "done", "aborted"} => Served
  /\ pc \in {"loop", "done"} => Progress
  /\ pc = "done" => ret = size
  /\ pc = "aborted" => Wraps(size, offset)

(* A block that starts in front of the end of a file is one of its blocks. *)
LEMMA BlockInFile ==
  ASSUME NEW l \in Nat, NEW n \in Nat, BLOCK_SIZE * l < n
  PROVE  l < BYTES2BLOCKS(n) /\ BYTES2BLOCKS(n) \in Nat
  <1> DEFINE b == BLOCK_SIZE
             q == n \div b
             r == n % b
  <1>1. b \in Nat \ {0}
    BY GeometryAssumption
  <1>2. n = b * q + r /\ q \in Nat /\ r \in 0..(b - 1)
    BY <1>1
  <1>3. BYTES2BLOCKS(n) = q + (IF r # 0 THEN 1 ELSE 0)
    BY DEF BYTES2BLOCKS
  <1>4. b * l < n
    OBVIOUS
  <1> HIDE DEF b, q, r
  <1>5. ~(q < l)
    BY <1>1, <1>2, <1>4, BlocksApart
  <1>6. r = 0 => l # q
    BY <1>1, <1>2, <1>4
  <1> QED  BY <1>2, <1>3, <1>5, <1>6

(* What the loop maps is a block of the file, and the mapping a run.       *)
LEMMA LoopMaps ==
  ASSUME Served, NEW l \in Nat, NEW done \in Nat, done < size,
         BLOCK_SIZE * l <= offset + done
  PROVE  /\ l < BYTES2BLOCKS(Files[fh].size)
         /\ inode_get_data_pblock(Files[fh], l).pblock \in Nat
         /\ inode_get_data_pblock(Files[fh], l).len \in Nat \ {0}
         /\ inode_get_data_pblock(Files[fh], l).pblock = 0 =>
              inode_get_data_pblock(Files[fh], l).len = 1
  <1>1. Files[fh].size \in Nat
    BY RequestsAssumption DEF Served
  <1>2. offset + size <= Files[fh].size
    BY <1>1 DEF Served, Wanted, Least
  <1>3. BLOCK_SIZE * l \in Nat
    BY GeometryAssumption
  <1>4. BLOCK_SIZE * l < Files[fh].size
    BY <1>1, <1>2, <1>3 DEF Served
  <1>5. l < BYTES2BLOCKS(Files[fh].size) /\ BYTES2BLOCKS(Files[fh].size) \in Nat
    BY <1>1, <1>4, BlockInFile
  <1>6. l \in 0..(BYTES2BLOCKS(Files[fh].size) - 1)
    BY <1>5
  <1> QED  BY <1>5, <1>6, RequestsAssumption DEF Served

(* What a run adds: its blocks, or what is left of the request.            *)
LEMMA RunKeepsProgress ==
  ASSUME Served, Progress, ret < size,
         NEW n \in Nat \ {0}, NEW bytes \in Seq(Bytes),
         Len(bytes) = Least(size - ret, BLOCK_SIZE * n)
  PROVE  /\ buf \o bytes \in Seq(Bytes)
         /\ Len(buf \o bytes) = ret + Len(bytes)
         /\ ret + Len(bytes) \in Nat
         /\ ret + Len(bytes) <= size
         /\ ret + Len(bytes) < size => offset + (ret + Len(bytes)) = BLOCK_SIZE * (lblock + n)
  <1> DEFINE b == BLOCK_SIZE
  <1>1. b \in Nat \ {0}
    BY GeometryAssumption
  <1>2. /\ ret \in Nat /\ size \in Nat /\ offset \in Nat /\ lblock \in Nat
        /\ buf \in Seq(Bytes) /\ Len(buf) = ret /\ offset + ret = b * lblock
    BY DEF Served, Progress
  <1>3. buf \o bytes \in Seq(Bytes) /\ Len(buf \o bytes) = ret + Len(bytes)
    BY <1>2
  <1>4. b * n \in Nat /\ b * (lblock + n) = b * lblock + b * n /\ b * lblock \in Nat
    <2> HIDE DEF b
    <2> QED  BY <1>1, <1>2
  <1>5. Len(bytes) = IF size - ret < b * n THEN size - ret ELSE b * n
    BY DEF Least
  <1> HIDE DEF b
  <1>6. /\ ret + Len(bytes) \in Nat /\ ret + Len(bytes) <= size
        /\ ret + Len(bytes) < size => offset + (ret + Len(bytes)) = b * (lblock + n)
    <2> DEFINE r == b * n
               at == b * lblock
               got == Len(bytes)
    <2>1. r \in Nat /\ at \in Nat /\ offset + ret = at /\ b * (lblock + n) = at + r
      BY <1>2, <1>4
    <2>2. got = IF size - ret < r THEN size - ret ELSE r
      BY <1>5
    <2> HIDE DEF r, at, got
    <2>3. CASE size - ret < r
      <3>1. got = size - ret
        BY <2>2, <2>3
      <3> QED  BY <1>2, <3>1 DEF got
    <2>4. CASE ~(size - ret < r)
      <3>1. got = r
        BY <2>2, <2>4
      <3>2. ret + got \in Nat /\ ret + got <= size /\ offset + (ret + got) = at + r
        BY <1>2, <2>1, <2>4, <3>1
      <3> QED  BY <2>1, <3>2 DEF got
    <2> QED  BY <2>3, <2>4
  <1> QED  BY <1>3, <1>6 DEF b

(* No request is served at first.                                          *)
LEMMA InitInv == Init => Inv
  BY DEF Init, Inv

(* op_read finds the file of the handle and truncates the size exactly.    *)
LEMMA RequestKeepsInv ==
  ASSUME Request
  PROVE  Inv'
  <1>1. PICK r \in Requests : op_read(r[1], r[2], r[3])
    BY DEF Request
  <1>2. /\ r[1] \in DOMAIN Files \cup {0}
        /\ r[2] \in Nat /\ r[3] \in Nat /\ r[3] < U64 \div 2
    BY RequestsAssumption
  <1>3. CASE r[1] = 0
    BY <1>1, <1>3 DEF op_read, Inv
  <1>4. CASE r[1] # 0
    <2>1. fh' = r[1] /\ asked' = r[2] /\ offset' = r[3] /\ pc' = "first"
      BY <1>1, <1>4 DEF op_read
    <2>2. r[1] \in DOMAIN Files /\ Files[r[1]].size \in Nat
      BY <1>2, <1>4, RequestsAssumption
    <2>3. size' = truncate_size(Files[r[1]], r[2], r[3])
      BY <1>1, <1>4 DEF op_read, inode_get
    <2>4. Served'
      BY <1>2, <2>1, <2>2, <2>3 DEF Served, Wanted, truncate_size, Least
    <2> QED  BY <2>1, <2>4 DEF Inv
  <1> QED  BY <1>3, <1>4

(* first_read reads up to the block boundary.                              *)
LEMMA FirstKeepsInv ==
  ASSUME Inv, first_read
  PROVE  Inv'
  <1>1. Served /\ Served' /\ pc' = "loop" /\ size' = size /\ offset' = offset
    BY DEF Inv, first_read, Served, Wanted
  <1>2. offset \in Nat /\ size \in Nat /\ offset < U64 \div 2
    BY <1>1 DEF Served
  <1>3. /\ FirstBytes \in Nat /\ FirstBytes <= size /\ ~Wraps(size, offset)
        /\ FirstBytes < size =>
             offset + FirstBytes = BLOCK_SIZE * ((offset + FirstBytes) \div BLOCK_SIZE)
    BY <1>2, FirstPart DEF first_read
  <1>4. ret' = FirstBytes /\ buf' = FirstRead
        /\ lblock' = (offset + FirstBytes) \div BLOCK_SIZE
    BY DEF first_read
  <1>5. FirstRead \in Seq(Bytes) /\ Len(FirstRead) = FirstBytes
    <2>1. CASE FirstBytes = 0
      BY <2>1 DEF FirstRead
    <2>2. CASE FirstBytes # 0
      <3> DEFINE l == offset \div BLOCK_SIZE
                 start == inode_get_data_pblock(Files[fh], l).pblock
                 where == start * BLOCK_SIZE + (offset % BLOCK_SIZE)
      <3>1. BLOCK_SIZE \in Nat \ {0}
        BY GeometryAssumption
      <3>2. l \in Nat /\ offset % BLOCK_SIZE \in Nat /\ BLOCK_SIZE * l <= offset
        BY <1>2, <3>1
      <3>3. start \in Nat
        <4> HIDE DEF l
        <4>1. 0 < size /\ BLOCK_SIZE * l <= offset + 0
          BY <1>2, <1>3, <2>2, <3>2
        <4> QED  BY <1>1, <3>2, <4>1, LoopMaps
      <3>4. FirstRead = disk_read(where, FirstBytes)
        BY <2>2 DEF FirstRead, inode_get
      <3> HIDE DEF start
      <3>5. where \in Nat
        BY <3>1, <3>2, <3>3
      <3> QED  BY <1>3, <3>4, <3>5, WrapperContent
    <2> QED  BY <2>1, <2>2
  <1>6. lblock' \in Nat
    <2> DEFINE a == offset + FirstBytes
    <2>1. a \in Nat /\ BLOCK_SIZE \in Nat \ {0}
      BY <1>2, <1>3, GeometryAssumption
    <2> HIDE DEF a
    <2>2. a \div BLOCK_SIZE \in Nat
      BY <2>1
    <2> QED  BY <1>4, <2>2 DEF a
  <1>7. (~Wraps(size, offset))'
    BY <1>1, <1>3 DEF Wraps
  <1>8. (/\ ret \in Nat /\ ret <= size
         /\ buf \in Seq(Bytes) /\ Len(buf) = ret
         /\ ret < size => offset + ret = BLOCK_SIZE * lblock)'
    BY <1>1, <1>3, <1>4, <1>5
  <1>9. Progress'
    BY <1>6, <1>7, <1>8 DEF Progress
  <1> QED  BY <1>1, <1>9 DEF Inv

(* One iteration over mapped blocks ends at a block boundary or is last.   *)
LEMMA RunKeepsInv ==
  ASSUME Inv, ReadRun
  PROVE  Inv'
  <1> DEFINE n == Block.len
             where == Block.pblock * BLOCK_SIZE
             bytes == disk_read(where, Least(size - ret, BLOCK_SIZE * n))
  <1>1. /\ Served /\ Served' /\ Progress /\ pc' = "loop" /\ size' = size /\ offset' = offset
        /\ ret < size
    BY DEF Inv, ReadRun, Served, Wanted, Progress
  <1>2. BLOCK_SIZE \in Nat \ {0} /\ ret \in Nat /\ size \in Nat /\ lblock \in Nat
        /\ offset \in Nat /\ offset + ret = BLOCK_SIZE * lblock
    BY <1>1, GeometryAssumption DEF Served, Progress
  <1>3. Block.pblock \in Nat /\ n \in Nat \ {0}
    <2>1. BLOCK_SIZE * lblock <= offset + ret
      BY <1>2
    <2> QED  BY <1>1, <1>2, <2>1, LoopMaps DEF Block, inode_get
  <1>4. buf' = buf \o bytes /\ ret' = ret + Len(bytes) /\ lblock' = lblock + n
    BY DEF ReadRun, disk_ctx_read, disk_ctx_create
  <1> HIDE DEF n
  <1>5. where \in Nat /\ BLOCK_SIZE * n \in Nat
    BY <1>2, <1>3
  <1>6. Least(size - ret, BLOCK_SIZE * n) \in Nat
    BY <1>1, <1>2, <1>5 DEF Least
  <1>7. bytes \in Seq(Bytes) /\ Len(bytes) = Least(size - ret, BLOCK_SIZE * n)
    <2> HIDE DEF where
    <2> QED  BY <1>5, <1>6, WrapperContent, Zenon
  <1> HIDE DEF bytes
  <1>8. /\ buf \o bytes \in Seq(Bytes) /\ Len(buf \o bytes) = ret + Len(bytes)
        /\ ret + Len(bytes) \in Nat /\ ret + Len(bytes) <= size
        /\ ret + Len(bytes) < size => offset + (ret + Len(bytes)) = BLOCK_SIZE * (lblock + n)
    BY <1>1, <1>3, <1>7, RunKeepsProgress
  <1>9. (~Wraps(size, offset))'
    BY <1>1 DEF Progress, Wraps
  <1>10. lblock' \in Nat
    BY <1>2, <1>3, <1>4
  <1>11. Progress'
    BY <1>1, <1>4, <1>8, <1>9, <1>10 DEF Progress
  <1> QED  BY <1>1, <1>11 DEF Inv

(* So does one iteration over a hole.                                      *)
LEMMA HoleKeepsInv ==
  ASSUME Inv, ReadHole
  PROVE  Inv'
  <1> DEFINE k == Least(size - ret, BLOCK_SIZE)
             bytes == [i \in 1..k |-> Zero]
  <1>1. /\ Served /\ Served' /\ Progress /\ pc' = "loop" /\ size' = size /\ offset' = offset
        /\ ret < size
    BY DEF Inv, ReadHole, Served, Wanted, Progress
  <1>2. BLOCK_SIZE \in Nat \ {0} /\ ret \in Nat /\ size \in Nat /\ lblock \in Nat
        /\ offset \in Nat /\ offset + ret = BLOCK_SIZE * lblock
    BY <1>1, GeometryAssumption DEF Served, Progress
  <1>3. Block.len = 1
    <2>1. BLOCK_SIZE * lblock <= offset + ret
      BY <1>2
    <2> QED  BY <1>1, <1>2, <2>1, LoopMaps, Zenon DEF Block, inode_get, ReadHole
  <1>4. buf' = buf \o bytes /\ ret' = ret + k /\ lblock' = lblock + 1
    BY <1>3 DEF ReadHole
  <1>5. k \in Nat
    BY <1>1, <1>2 DEF Least
  <1>6. BLOCK_SIZE * 1 = BLOCK_SIZE
    BY <1>2
  <1> HIDE DEF k
  <1>7. bytes \in Seq(Bytes) /\ Len(bytes) = k
    <2>1. Zero \in Bytes
      BY DEF Bytes
    <2> QED  BY <1>5, <2>1
  <1> HIDE DEF bytes
  <1>8. Len(bytes) = Least(size - ret, BLOCK_SIZE * 1)
    BY <1>6, <1>7 DEF k
  <1>9. /\ buf \o bytes \in Seq(Bytes) /\ Len(buf \o bytes) = ret + Len(bytes)
        /\ ret + Len(bytes) \in Nat /\ ret + Len(bytes) <= size
        /\ ret + Len(bytes) < size => offset + (ret + Len(bytes)) = BLOCK_SIZE * (lblock + 1)
    BY <1>1, <1>7, <1>8, RunKeepsProgress
  <1>10. (~Wraps(size, offset))'
    BY <1>1 DEF Progress, Wraps
  <1>11. lblock' \in Nat
    BY <1>2, <1>4
  <1>12. Progress'
    BY <1>1, <1>4, <1>7, <1>9, <1>10, <1>11 DEF Progress
  <1> QED  BY <1>1, <1>12 DEF Inv

(* Every step of a read keeps the invariant.                               *)
LEMMA NextKeepsInv ==
  ASSUME Inv, [Next]_vars
  PROVE  Inv'
  <1>1. CASE Request
    BY <1>1, RequestKeepsInv
  <1>2. CASE first_read
    BY <1>2, FirstKeepsInv
  <1>3. CASE FirstReadAborts
    <2>1. Served /\ Served' /\ pc' = "aborted"
      BY <1>3 DEF Inv, FirstReadAborts, Served, Wanted
    <2>2. Wraps(size, offset)
      BY <1>3, <2>1, FirstPart DEF FirstReadAborts, Served
    <2>3. Wraps(size, offset)'
      BY <1>3, <2>2 DEF FirstReadAborts, Wraps
    <2> QED  BY <2>1, <2>3 DEF Inv
  <1>4. CASE ReadRun
    BY <1>4, RunKeepsInv
  <1>5. CASE ReadHole
    BY <1>5, HoleKeepsInv
  <1>6. CASE Return
    <2>1. Served /\ Served' /\ Progress /\ Progress' /\ pc' = "done"
      BY <1>6 DEF Inv, Return, Served, Wanted, Progress, Wraps
    <2>2. ret' = size'
      BY <1>6, <2>1 DEF Return, Served, Progress
    <2> QED  BY <2>1, <2>2 DEF Inv
  <1>7. CASE Answer
    BY <1>7 DEF Answer, Inv
  <1>8. CASE UNCHANGED vars
    BY <1>8 DEF vars, Inv, Served, Wanted, Progress, Wraps
  <1> QED  BY <1>1, <1>2, <1>3, <1>4, <1>5, <1>6, <1>7, <1>8 DEF Next

(* The invariant holds in every state of every behaviour of op_read.       *)
THEOREM InvHolds == Spec => []Inv
  <1>1. Inv /\ [Next]_vars => Inv'
    BY NextKeepsInv
  <1> QED  BY InitInv, <1>1, PTL DEF Spec

(* op_read returns every byte between the offset and the end of the        *)
(* request or of the file: its assertion size == ret holds, and the one of *)
(* __disk_read fails exactly for the requests that wrap.                   *)
THEOREM ReadsComplete == Spec => []NoShortRead
  <1>1. Inv => NoShortRead
    BY DEF Inv, Served, Wanted, Progress, NoShortRead, inode_get
  <1> QED  BY InvHolds, <1>1, PTL

(* The loop of op_read maps blocks of the file only, at the boundary the   *)
(* buffer has reached: the assertion of inode_get_data_pblock holds.       *)
THEOREM LoopInFile == Spec => []LoopStaysInFile
  <1>1. ASSUME Inv, pc = "loop", size > ret
        PROVE  /\ offset + ret = lblock * BLOCK_SIZE
               /\ lblock < BYTES2BLOCKS(inode_get(fh).size)
    <2>1. Served /\ Progress
      BY <1>1 DEF Inv
    <2>2. /\ ret \in Nat /\ size \in Nat /\ offset \in Nat /\ lblock \in Nat
          /\ BLOCK_SIZE \in Nat \ {0} /\ ret < size
      BY <1>1, <2>1, GeometryAssumption DEF Served, Progress
    <2>3. offset + ret = BLOCK_SIZE * lblock
      BY <2>1, <2>2 DEF Progress
    <2>4. offset + ret = lblock * BLOCK_SIZE
      BY <2>2, <2>3
    <2>5. BLOCK_SIZE * lblock <= offset + ret
      BY <2>2, <2>3
    <2> QED  BY <2>1, <2>2, <2>4, <2>5, LoopMaps DEF inode_get
  <1>2. Inv => LoopStaysInFile
    BY <1>1 DEF LoopStaysInFile
  <1> QED  BY InvHolds, <1>2, PTL
-----------------------------------------------------------------------------
(* The quotient and the rest of a sum of whole blocks and less than one.   *)
LEMMA DivSum ==
  ASSUME NEW b \in Nat \ {0}, NEW q \in Nat, NEW r \in 0..(b - 1)
  PROVE  (b * q + r) \div b = q /\ (b * q + r) % b = r
  <1> DEFINE a == b * q + r
             s == a \div b
             m == a % b
  <1>1. a \in Nat
    OBVIOUS
  <1>2. a = b * s + m /\ s \in Nat /\ m \in 0..(b - 1)
    <2> HIDE DEF a
    <2> QED  BY <1>1, DivMod, Zenon
  <1>3. b * s + m = b * q + r
    BY <1>2
  <1> HIDE DEF s, m, a
  <1>4. ~(s < q)
    BY <1>2, <1>3, BlocksApart
  <1>5. ~(q < s)
    BY <1>2, <1>3, BlocksApart
  <1>6. s = q
    BY <1>2, <1>4, <1>5
  <1>7. m = r
    <2>1. b * q \in Nat
      OBVIOUS
    <2> QED  BY <1>2, <1>3, <1>6, <2>1
  <1> QED  BY <1>6, <1>7 DEF s, m, a

(* A byte of a run is the byte of the file.                                *)
LEMMA RunByte ==
  ASSUME NEW inode, Encoded(inode), inode.size \in Nat, NEW l \in Nat,
         NEW run, RunMatches(inode, l, run), run.pblock \in Nat \ {0}, run.len \in Nat \ {0},
         NEW i \in 0..(BLOCK_SIZE * run.len - 1), BLOCK_SIZE * l + i < inode.size
  PROVE  FileByte(inode, BLOCK_SIZE * l + i) = DiskByte(run.pblock * BLOCK_SIZE + i)
  <1> DEFINE b == BLOCK_SIZE
             p == run.pblock
             n == run.len
             q == i \div b
             m == i % b
  <1>1. b \in Nat \ {0} /\ p \in Nat \ {0} /\ n \in Nat \ {0} /\ b * n \in Nat /\ i \in Nat /\ i < b * n
    BY GeometryAssumption
  <1>2. i = b * q + m /\ q \in Nat /\ m \in 0..(b - 1)
    BY <1>1, DivMod, Zenon
  <1>3. b * l + i < inode.size /\ b * l \in Nat
    BY GeometryAssumption
  <1> HIDE DEF b, p, n, q, m
  <1>4. q < n
    <2>1. b * q < b * n
      <3>1. b * q \in Nat
        BY <1>1, <1>2
      <3> QED  BY <1>1, <1>2, <3>1
    <2> QED  BY <1>1, <1>2, <2>1, BytesToBlocks
  <1>5. b * l + i = b * (l + q) + m /\ p * b + i = b * (p + q) + m
    <2>1. b * (l + q) = b * l + b * q /\ b * (p + q) = p * b + b * q
      BY <1>1, <1>2
    <2>2. b * l \in Nat /\ b * q \in Nat /\ p * b \in Nat
      BY <1>1, <1>2
    <2> QED  BY <1>2, <2>1, <2>2
  <1>6. l + q < Len(inode.blocks)
    <2>1. b * (l + q) \in Nat /\ l + q \in Nat
      BY <1>1, <1>2
    <2>2. b * (l + q) < inode.size
      BY <1>2, <1>3, <1>5, <2>1
    <2> QED  BY <2>1, <2>2, BlockInFile DEF Encoded, b
  <1>7. PhysicalBlock(inode, l + q) = p + q
    <2>1. q \in 0..(n - 1)
      BY <1>1, <1>2, <1>4
    <2> QED  BY <1>1, <1>6, <2>1 DEF RunMatches, p, n
  <1>8. (b * (l + q) + m) \div b = l + q /\ (b * (l + q) + m) % b = m
    <2> DEFINE x == l + q
    <2>1. x \in Nat
      BY <1>1, <1>2
    <2> HIDE DEF x
    <2>2. (b * x + m) \div b = x /\ (b * x + m) % b = m
      BY <1>1, <1>2, <2>1, DivSum, Zenon
    <2> QED  BY <2>2 DEF x
  <1>9. (b * (p + q) + m) \div b = p + q /\ (b * (p + q) + m) % b = m
    <2> DEFINE x == p + q
    <2>1. x \in Nat
      BY <1>1, <1>2
    <2> HIDE DEF x
    <2>2. (b * x + m) \div b = x /\ (b * x + m) % b = m
      BY <1>1, <1>2, <2>1, DivSum, Zenon
    <2> QED  BY <2>2 DEF x
  <1>10. p + q # 0
    BY <1>1, <1>2
  <1>11. FileByte(inode, b * l + i) = <<p + q, m>>
    BY <1>5, <1>7, <1>8, <1>10 DEF FileByte, b
  <1>12. DiskByte(p * b + i) = <<p + q, m>>
    BY <1>5, <1>9 DEF DiskByte, b
  <1> QED  BY <1>11, <1>12 DEF b, p

(* The bytes of a hole are zeros.                                          *)
LEMMA HoleByte ==
  ASSUME NEW inode, NEW l \in Nat, PhysicalBlock(inode, l) = 0, NEW i \in 0..(BLOCK_SIZE - 1)
  PROVE  FileByte(inode, BLOCK_SIZE * l + i) = Zero
  BY DivSum, GeometryAssumption, Zenon DEF FileByte

(* The request is one ReadsMappedContent speaks of.                        *)
Mapped ==
  /\ HolesOnlyAtEnd(inode_get(fh))
  /\ \/ offset % BLOCK_SIZE = 0
     \/ offset >= inode_get(fh).size
     \/ PhysicalBlock(inode_get(fh), offset \div BLOCK_SIZE) # 0

(* A block the loop or first_read maps is mapped right.                    *)
LEMMA MapsRight ==
  ASSUME Served, Mapped, NEW l \in Nat, NEW done \in Nat, done < size,
         BLOCK_SIZE * l <= offset + done
  PROVE  /\ Encoded(Files[fh]) /\ Files[fh].size \in Nat
         /\ offset + size <= Files[fh].size
         /\ RunMatches(Files[fh], l, inode_get_data_pblock(Files[fh], l))
  <1>1. Encoded(Files[fh]) /\ Files[fh].size \in Nat
    BY EncodingAssumption, RequestsAssumption DEF Served
  <1>2. l < BYTES2BLOCKS(Files[fh].size)
    BY LoopMaps
  <1>3. l \in 0..(Len(Files[fh].blocks) - 1)
    BY <1>1, <1>2 DEF Encoded
  <1>4. offset + size <= Files[fh].size
    BY <1>1 DEF Served, Wanted, Least
  <1> QED  BY <1>1, <1>3, <1>4, MappingMatches DEF Mapped, inode_get

(* Bytes that match the file behind what the buffer holds extend it.       *)
LEMMA BufferGrows ==
  ASSUME Served, Progress, BufferMatchesFile, NEW bytes \in Seq(Bytes),
         \A k \in 1..Len(bytes) : bytes[k] = FileByte(Files[fh], (offset + ret) + (k - 1))
  PROVE  \A k \in 1..(ret + Len(bytes)) :
           (buf \o bytes)[k] = FileByte(Files[fh], offset + k - 1)
  <1>1. ret \in Nat /\ offset \in Nat /\ buf \in Seq(Bytes) /\ Len(buf) = ret
        /\ Len(bytes) \in Nat
    BY DEF Served, Progress
  <1> SUFFICES ASSUME NEW k \in 1..(ret + Len(bytes))
               PROVE  (buf \o bytes)[k] = FileByte(Files[fh], offset + k - 1)
    BY Zenon
  <1>2. CASE k <= ret
    <2>1. k \in 1..ret
      BY <1>1, <1>2
    <2>2. (buf \o bytes)[k] = buf[k]
      BY <1>1, <2>1
    <2> QED  BY <2>1, <2>2 DEF BufferMatchesFile, inode_get
  <1>3. CASE k > ret
    <2> DEFINE m == k - ret
    <2>1. m \in 1..Len(bytes) /\ (offset + ret) + (m - 1) = offset + k - 1
      BY <1>1, <1>3
    <2>2. (buf \o bytes)[k] = bytes[m]
      BY <1>1, <1>3
    <2> HIDE DEF m
    <2> QED  BY <2>1, <2>2
  <1> QED  BY <1>1, <1>2, <1>3

(* first_read stores the content of the file.                              *)
LEMMA FirstKeepsContent ==
  ASSUME Inv, first_read
  PROVE  ReadsMappedContent'
  <1>1. /\ Served /\ pc' = "loop" /\ size' = size /\ offset' = offset /\ fh' = fh
        /\ ret' = FirstBytes /\ buf' = FirstRead
    BY DEF Inv, first_read
  <1> SUFFICES ASSUME Mapped', NEW k \in 1..FirstBytes
               PROVE  FirstRead[k] = FileByte(Files[fh], offset + k - 1)
    BY <1>1 DEF ReadsMappedContent, Mapped, BufferMatchesFile, inode_get
  <1>2. Mapped
    BY <1>1 DEF Mapped, inode_get
  <1>3. offset \in Nat /\ size \in Nat /\ offset < U64 \div 2
    BY <1>1 DEF Served
  <1>4. /\ FirstBytes \in Nat /\ FirstBytes <= size
        /\ FirstBytes # 0 => (offset % BLOCK_SIZE) + FirstBytes <= BLOCK_SIZE
    BY <1>3, FirstPart DEF first_read
  <1>5. FirstBytes # 0 /\ 0 < size
    BY <1>3, <1>4
  <1> DEFINE b == BLOCK_SIZE
             l == offset \div b
             r == offset % b
             run == inode_get_data_pblock(Files[fh], l)
             i == r + (k - 1)
  <1>6. b \in Nat \ {0}
    BY GeometryAssumption
  <1>7. l \in Nat /\ r \in 0..(b - 1) /\ offset = b * l + r /\ b * l \in Nat
    BY <1>3, <1>6
  <1>8. r # 0
    BY <1>5 DEF FirstBytes
  <1>9. BLOCK_SIZE * l <= offset + 0
    <2> HIDE DEF l, r
    <2> QED  BY <1>3, <1>7
  <1> HIDE DEF l, r
  <1>10. /\ Encoded(Files[fh]) /\ Files[fh].size \in Nat /\ offset + size <= Files[fh].size
         /\ RunMatches(Files[fh], l, run)
         /\ run.pblock \in Nat /\ run.len \in Nat \ {0}
    BY <1>1, <1>2, <1>5, <1>7, <1>9, MapsRight, LoopMaps
  <1>11. run.pblock # 0
    <2>1. offset < Files[fh].size
      BY <1>3, <1>5, <1>10, SMTT(20)
    <2>2. PhysicalBlock(Files[fh], l) # 0
      BY <1>2, <1>3, <1>8, <1>10, <2>1, SMTT(30) DEF Mapped, inode_get, l, r
    <2> QED  BY <1>10, <2>2 DEF RunMatches
  <1>12. FirstRead = disk_read(run.pblock * b + r, FirstBytes)
    BY <1>5 DEF FirstRead, inode_get, l, r
  <1> HIDE DEF run, b
  <1>13. run.pblock * b \in Nat /\ run.pblock * b + r \in Nat
    BY <1>6, <1>7, <1>10
  <1>14. FirstRead[k] = DiskByte((run.pblock * b + r) + k - 1)
    <2> DEFINE where == run.pblock * b + r
    <2>1. where \in Nat /\ FirstRead = disk_read(where, FirstBytes)
      BY <1>12, <1>13
    <2> HIDE DEF where
    <2>2. FirstRead[k] = DiskByte(where + k - 1)
      BY <1>4, <2>1, WrapperContent, Zenon
    <2> QED  BY <2>2 DEF where
  <1>15. i \in 0..(b - 1) /\ b * l + i = offset + k - 1
         /\ (run.pblock * b + r) + k - 1 = run.pblock * b + i
    <2>1. k \in Nat /\ k >= 1 /\ k <= FirstBytes /\ r + FirstBytes <= b
      BY <1>4, <1>5 DEF r, b
    <2> QED  BY <1>3, <1>4, <1>6, <1>7, <1>13, <2>1
  <1> HIDE DEF i
  <1>16. i \in 0..(b * run.len - 1)
    <2>1. b * run.len >= b /\ b * run.len \in Nat
      BY <1>6, <1>10
    <2> QED  BY <1>6, <1>15, <2>1
  <1>17. b * l + i < Files[fh].size
    BY <1>3, <1>4, <1>10, <1>15
  <1>18. FileByte(Files[fh], b * l + i) = DiskByte(run.pblock * b + i)
    BY <1>7, <1>10, <1>11, <1>16, <1>17, RunByte DEF b
  <1> QED  BY <1>14, <1>15, <1>18

(* So does an iteration over a run of blocks.                              *)
LEMMA RunKeepsContent ==
  ASSUME Inv, ReadsMappedContent, ReadRun
  PROVE  ReadsMappedContent'
  <1> DEFINE b == BLOCK_SIZE
             run == inode_get_data_pblock(Files[fh], lblock)
             n == Least(size - ret, b * run.len)
             bytes == disk_read(run.pblock * b, n)
  <1>1. /\ Served /\ Progress /\ pc = "loop" /\ pc' = "loop" /\ size' = size
        /\ offset' = offset /\ fh' = fh /\ ret < size
    BY DEF Inv, ReadRun, Served, Progress
  <1>2. buf' = buf \o bytes /\ ret' = ret + Len(bytes)
    BY DEF ReadRun, Block, inode_get, disk_ctx_read, disk_ctx_create
  <1> SUFFICES ASSUME Mapped'
               PROVE  \A k \in 1..(ret + Len(bytes)) :
                        (buf \o bytes)[k] = FileByte(Files[fh], offset + k - 1)
    BY <1>1, <1>2, Zenon DEF ReadsMappedContent, Mapped, BufferMatchesFile, inode_get
  <1>3. Mapped /\ BufferMatchesFile
    <2>1. Mapped
      BY <1>1 DEF Mapped, inode_get
    <2> QED  BY <1>1, <2>1 DEF ReadsMappedContent, Mapped, Active
  <1>4. /\ b \in Nat \ {0} /\ ret \in Nat /\ size \in Nat /\ lblock \in Nat /\ offset \in Nat
        /\ offset + ret = b * lblock
    BY <1>1, GeometryAssumption DEF Served, Progress
  <1>5. /\ Encoded(Files[fh]) /\ Files[fh].size \in Nat /\ offset + size <= Files[fh].size
        /\ RunMatches(Files[fh], lblock, run)
        /\ run.pblock \in Nat /\ run.len \in Nat \ {0}
    <2>1. BLOCK_SIZE * lblock <= offset + ret
      BY <1>4
    <2> QED  BY <1>1, <1>3, <1>4, <2>1, MapsRight, LoopMaps
  <1>6. run.pblock # 0
    BY DEF ReadRun, Block, inode_get
  <1> HIDE DEF run, b
  <1>7. run.pblock * b \in Nat /\ b * run.len \in Nat
    BY <1>4, <1>5
  <1>8. n \in Nat /\ n <= size - ret /\ n <= b * run.len
    BY <1>1, <1>4, <1>7 DEF Least
  <1> HIDE DEF n
  <1>9. /\ bytes \in Seq(Bytes) /\ Len(bytes) = n
        /\ \A k \in 1..n : bytes[k] = DiskByte(run.pblock * b + k - 1)
    <2> DEFINE where == run.pblock * b
    <2>1. where \in Nat
      BY <1>7
    <2> HIDE DEF where
    <2>2. /\ disk_read(where, n) \in Seq(Bytes) /\ Len(disk_read(where, n)) = n
          /\ \A k \in 1..n : disk_read(where, n)[k] = DiskByte(where + k - 1)
      BY <1>8, <2>1, WrapperContent
    <2> QED  BY <2>2 DEF where
  <1> HIDE DEF bytes
  <1>10. ASSUME NEW k \in 1..n
         PROVE  bytes[k] = FileByte(Files[fh], (offset + ret) + (k - 1))
    <2> DEFINE i == k - 1
    <2>1. /\ i \in 0..(b * run.len - 1) /\ run.pblock * b + k - 1 = run.pblock * b + i
          /\ (offset + ret) + i < Files[fh].size
      BY <1>4, <1>5, <1>7, <1>8
    <2>2. b * lblock + i < Files[fh].size
      BY <1>4, <2>1
    <2> HIDE DEF i
    <2>3. FileByte(Files[fh], b * lblock + i) = DiskByte(run.pblock * b + i)
      BY <1>4, <1>5, <1>6, <2>1, <2>2, RunByte DEF b
    <2> QED  BY <1>4, <1>9, <2>1, <2>3, Zenon DEF i
  <1> QED  BY <1>1, <1>3, <1>9, <1>10, BufferGrows, Zenon

(* So does an iteration over a hole.                                       *)
LEMMA HoleKeepsContent ==
  ASSUME Inv, ReadsMappedContent, ReadHole
  PROVE  ReadsMappedContent'
  <1> DEFINE b == BLOCK_SIZE
             run == inode_get_data_pblock(Files[fh], lblock)
             n == Least(size - ret, b)
             bytes == [k \in 1..n |-> Zero]
  <1>1. /\ Served /\ Progress /\ pc = "loop" /\ pc' = "loop" /\ size' = size
        /\ offset' = offset /\ fh' = fh /\ ret < size
    BY DEF Inv, ReadHole, Served, Progress
  <1>2. buf' = buf \o bytes /\ ret' = ret + n
    BY DEF ReadHole
  <1>3. Mapped' => Mapped /\ BufferMatchesFile
    <2>1. Mapped' => Mapped
      BY <1>1 DEF Mapped, inode_get
    <2> QED  BY <1>1, <2>1 DEF ReadsMappedContent, Mapped, Active
  <1>4. /\ b \in Nat \ {0} /\ ret \in Nat /\ size \in Nat /\ lblock \in Nat /\ offset \in Nat
        /\ offset + ret = b * lblock
    BY <1>1, GeometryAssumption DEF Served, Progress
  <1>5. n \in Nat /\ n <= b
    BY <1>1, <1>4 DEF Least
  <1> HIDE DEF n
  <1>6. bytes \in Seq(Bytes) /\ Len(bytes) = n /\ \A k \in 1..n : bytes[k] = Zero
    <2>1. Zero \in Bytes
      BY DEF Bytes
    <2> QED  BY <1>5, <2>1
  <1> HIDE DEF bytes
  <1> SUFFICES ASSUME Mapped'
               PROVE  \A k \in 1..(ret + Len(bytes)) :
                        (buf \o bytes)[k] = FileByte(Files[fh], offset + k - 1)
    BY <1>1, <1>2, <1>6, Zenon DEF ReadsMappedContent, Mapped, BufferMatchesFile, inode_get
  <1>7. PhysicalBlock(Files[fh], lblock) = 0
    <2>1. BLOCK_SIZE * lblock <= offset + ret
      BY <1>4
    <2>2. RunMatches(Files[fh], lblock, run)
      BY <1>1, <1>3, <1>4, <2>1, MapsRight
    <2>3. run.pblock = 0
      BY DEF ReadHole, Block, inode_get
    <2> QED  BY <2>2, <2>3 DEF RunMatches
  <1>8. ASSUME NEW k \in 1..n
        PROVE  bytes[k] = FileByte(Files[fh], (offset + ret) + (k - 1))
    <2> DEFINE i == k - 1
    <2>1. i \in 0..(BLOCK_SIZE - 1)
      BY <1>4, <1>5
    <2> HIDE DEF i
    <2>2. FileByte(Files[fh], BLOCK_SIZE * lblock + i) = Zero
      BY <1>4, <1>7, <2>1, HoleByte
    <2> QED  BY <1>4, <1>6, <2>2 DEF i
  <1> QED  BY <1>1, <1>3, <1>6, <1>8, BufferGrows, Zenon

(* A read returns the content of the file from its offset on: on either    *)
(* build, for every block size and every request, for ext2/3 files and     *)
(* extent trees of any depth that are consistent on the disk, have no      *)
(* extent behind a hole and no missing index block, unless it starts       *)
(* inside the block of a hole.                                             *)
THEOREM ReadsContent == Spec => []ReadsMappedContent
  <1>1. Init => ReadsMappedContent
    BY DEF Init, ReadsMappedContent, Active
  <1>2. ASSUME Inv, ReadsMappedContent, [Next]_vars
        PROVE  ReadsMappedContent'
    <2>1. CASE Request
      BY <2>1 DEF Request, op_read, ReadsMappedContent, Active
    <2>2. CASE first_read
      BY <1>2, <2>2, FirstKeepsContent
    <2>3. CASE FirstReadAborts
      BY <2>3 DEF FirstReadAborts, ReadsMappedContent, Active
    <2>4. CASE ReadRun
      BY <1>2, <2>4, RunKeepsContent
    <2>5. CASE ReadHole
      BY <1>2, <2>5, HoleKeepsContent
    <2>6. CASE Return
      BY <1>2, <2>6 DEF Return, ReadsMappedContent, Active, BufferMatchesFile, inode_get
    <2>7. CASE Answer
      BY <2>7 DEF Answer, ReadsMappedContent, Active
    <2>8. CASE UNCHANGED vars
      BY <1>2, <2>8 DEF vars, ReadsMappedContent, Active, BufferMatchesFile, inode_get
    <2> QED  BY <1>2, <2>1, <2>2, <2>3, <2>4, <2>5, <2>6, <2>7, <2>8 DEF Next
  <1>3. Inv /\ ReadsMappedContent /\ [Next]_vars => ReadsMappedContent'
    BY <1>2
  <1> QED  BY InvHolds, <1>1, <1>3, PTL DEF Spec

-----------------------------------------------------------------------------
(* Why the loop of op_read ends: every round, over a run of blocks or over *)
(* a hole, adds at least a byte to what is read, and never more than is    *)
(* left of the request.                                                    *)
THEOREM LoopAdvances ==
  Spec => [][ReadRun \/ ReadHole => ret < ret' /\ ret' <= size /\ size' = size]_vars
  <1> DEFINE Adv == ReadRun \/ ReadHole => ret < ret' /\ ret' <= size /\ size' = size
  <1>1. Inv => Adv
    <2> SUFFICES ASSUME Inv, ReadRun \/ ReadHole
                 PROVE  ret < ret' /\ ret' <= size /\ size' = size
      OBVIOUS
    <2>1. /\ pc = "loop" /\ pc' = "loop" /\ size' = size /\ offset' = offset /\ ret < size
          /\ lblock' = lblock + Block.len /\ Served /\ Progress
      BY DEF Inv, ReadRun, ReadHole, Served, Progress
    <2>2. Progress'
      <3>1. Inv'
        BY RunKeepsInv, HoleKeepsInv
      <3> QED  BY <2>1, <3>1 DEF Inv
    <2>3. /\ ret \in Nat /\ ret' \in Nat /\ size \in Nat /\ offset \in Nat /\ lblock \in Nat
          /\ ret' <= size /\ BLOCK_SIZE \in Nat \ {0} /\ offset + ret = BLOCK_SIZE * lblock
          /\ ret' < size => offset + ret' = BLOCK_SIZE * lblock'
      BY <2>1, <2>2, GeometryAssumption DEF Served, Progress
    <2>4. Block.len \in Nat \ {0}
      <3>1. BLOCK_SIZE * lblock <= offset + ret
        BY <2>3
      <3> QED  BY <2>1, <2>3, <3>1, LoopMaps DEF Block, inode_get
    <2>5. BLOCK_SIZE * lblock + BLOCK_SIZE <= BLOCK_SIZE * lblock'
      <3>1. lblock \in Int /\ lblock' \in Int /\ lblock < lblock'
        BY <2>1, <2>3, <2>4
      <3> QED  BY <2>3, <3>1, BlocksApart
    <2>6. CASE ret' < size
      <3>1. BLOCK_SIZE * lblock = offset + ret /\ BLOCK_SIZE * lblock' = offset + ret'
        BY <2>3, <2>6
      <3> QED  BY <2>1, <2>3, <2>5, <3>1
    <2>7. CASE ~(ret' < size)
      BY <2>1, <2>3, <2>7
    <2> QED  BY <2>6, <2>7
  <1> HIDE DEF Adv
  <1>2. Inv /\ [Next]_vars => [Adv]_vars
    BY <1>1
  <1>3. Spec => [][Adv]_vars
    BY InvHolds, <1>2, PTL DEF Spec
  <1> QED  BY <1>3 DEF Adv
=============================================================================
