----------------------------- MODULE ChunkProofs ----------------------------
(***************************************************************************)
(* Proofs about Chunk: the results of chunk_write and chunk_read, what a   *)
(* chunk_read finds in its buffer and a chunk_write leaves in the file,    *)
(* and that a position at the end of the file stays there, for any number  *)
(* of callers, lengths and positions.                                      *)
(***************************************************************************)
EXTENDS Chunk, WellFoundedInduction, TLAPS

Request ==
  [st : {"idle", "seek", "loop", "done"}, op : {"none", "write", "read"}, id : Nat,
   pos : Nat, len : 0..(U32 - 1), total : 0..(U64 - 1), buf : Seq(Nat),
   failed : BOOLEAN, base : Nat \cup {Lost}]

Typed ==
  /\ file \in Seq(Nat \X Nat)
  /\ off \in Nat
  /\ open \in BOOLEAN
  /\ call \in [Callers -> Request]
  /\ calls \in Nat

(* What total says of a request c: it counts the bytes transferred, or the *)
(* first system call failed and it is -1.                                  *)
GoodTotal(c) ==
  LET error == c.total = U64 - 1 /\ c.failed
  IN  /\ c.st = "seek" => c.total = 0 /\ c.buf = <<>>
      /\ c.st \in {"loop", "done"} =>
           /\ c.total <= c.len \/ error
           /\ c.len >= U32 \div 2 => c.total = 0 \/ error
      /\ c.st = "done" => c.total >= c.len

(* What a chunk_read c has in its buffer, the file being size bytes long   *)
(* and the position being p.                                               *)
GoodBuffer(c, size, p) ==
  c.op = "read" /\ c.st \in {"loop", "done"} /\ c.total <= c.len =>
    /\ Len(c.buf) >= c.total
    /\ c.total = c.len => Len(c.buf) = c.len
    /\ \A k \in 1..c.total : /\ c.buf[k] \in 1..size
                             /\ c.st = "loop" => c.buf[k] <= p
    /\ \A j, k \in 1..c.total : j < k => c.buf[j] < c.buf[k]
    /\ ~c.failed /\ c.base # Lost =>
         /\ \A k \in 1..c.total : c.buf[k] = c.base + k
         /\ c.st = "loop" => p = c.base + c.total

Inv ==
  /\ Typed
  /\ \A t \in Callers : GoodTotal(call[t]) /\ GoodBuffer(call[t], Len(file), off)

-----------------------------------------------------------------------------
(* min() of the bytes left and CHUNK_OP_LEN as a size_t: at most what is   *)
(* left, or refused by the kernel.                                         *)
LEMMA BatchBounds ==
  ASSUME NEW d \in 1..(U32 - 1)
  PROVE  LET b == min(d, CHUNK_OP_LEN) % U64
         IN  b \in Int /\ IF d < U32 \div 2 THEN b \in 1..d ELSE b >= U64 \div 2
<1>1. /\ CHUNK_OP_LEN \in Nat /\ CHUNK_OP_LEN >= 1 /\ U32 \in Nat /\ U64 \in Nat
      /\ CHUNK_OP_LEN < U32 \div 2 /\ U64 > U32 /\ U32 \div 2 \in Nat
      /\ 2 * (U32 \div 2) = U32 /\ 2 * (U64 \div 2) = U64
  BY SizesAssumption
<1>2. /\ d % U32 = d
      /\ CHUNK_OP_LEN % U32 = CHUNK_OP_LEN
  BY <1>1
<1>3. AsInt(CHUNK_OP_LEN) = CHUNK_OP_LEN
  BY <1>1, <1>2 DEF AsInt
<1>4. CASE d < U32 \div 2
  <2>1. min(d, CHUNK_OP_LEN) \in 1..d
    BY <1>1, <1>2, <1>3, <1>4 DEF AsInt, min
  <2>2. \A m \in 1..d : m % U64 = m
    BY <1>1
  <2>3. QED
    BY <1>4, <2>1, <2>2
<1>5. CASE d >= U32 \div 2
  <2>1. min(d, CHUNK_OP_LEN) = d - U32
    BY <1>1, <1>2, <1>3, <1>5 DEF AsInt, min
  <2>2. (d - U32) % U64 = d - U32 + U64
    BY <1>1
  <2>3. QED
    BY <1>1, <1>5, <2>1, <2>2
<1>6. QED
  BY <1>1, <1>4, <1>5

-----------------------------------------------------------------------------
(* The fields of a request.                                                *)
LEMMA RequestFields ==
  ASSUME NEW c \in Request
  PROVE  /\ c.st \in {"idle", "seek", "loop", "done"} /\ c.op \in {"none", "write", "read"}
         /\ c.id \in Nat /\ c.pos \in Nat /\ c.len \in 0..(U32 - 1) /\ c.total \in 0..(U64 - 1)
         /\ c.buf \in Seq(Nat) /\ c.failed \in BOOLEAN /\ c.base \in Nat \cup {Lost}
  BY DEF Request

-----------------------------------------------------------------------------
(* What another request does to the position and to the file, which only   *)
(* grows, leaves a request good; it no longer knows where its bytes start. *)
LEMMA OthersMove ==
  ASSUME NEW c \in Request, NEW n \in Nat, NEW m \in Nat, NEW p \in Nat, NEW q \in Nat,
         n <= m, p <= q \/ n <= q, GoodTotal(c), GoodBuffer(c, n, p)
  PROVE  LET d == [c EXCEPT !.base = Lost]
         IN  d \in Request /\ GoodTotal(d) /\ GoodBuffer(d, m, q)
<1> DEFINE d == [c EXCEPT !.base = Lost]
<1>1. /\ d \in Request /\ d.base = Lost
      /\ d.st = c.st /\ d.op = c.op /\ d.len = c.len /\ d.total = c.total
      /\ d.buf = c.buf /\ d.failed = c.failed
  BY Zenon DEF Request
<1> HIDE DEF d
<1>2. GoodTotal(d)
  BY <1>1 DEF GoodTotal
<1>3. GoodBuffer(d, m, q)
  <2> SUFFICES ASSUME c.op = "read", c.st \in {"loop", "done"}, c.total <= c.len
               PROVE  GoodBuffer(d, m, q)
    BY <1>1 DEF GoodBuffer
  <2>1. /\ Len(c.buf) >= c.total
        /\ c.total = c.len => Len(c.buf) = c.len
        /\ \A k \in 1..c.total : c.buf[k] \in 1..n /\ (c.st = "loop" => c.buf[k] <= p)
        /\ \A j, k \in 1..c.total : j < k => c.buf[j] < c.buf[k]
    BY DEF GoodBuffer
  <2>2. ASSUME NEW k \in 1..c.total
        PROVE  c.buf[k] \in 1..m /\ (c.st = "loop" => c.buf[k] <= q)
    <3>1. c.buf[k] \in 1..n /\ (c.st = "loop" => c.buf[k] <= p)
      BY <2>1
    <3>2. QED
      BY <3>1
  <2>3. QED
    BY <1>1, <2>1, <2>2 DEF GoodBuffer
<1>4. QED
  BY <1>1, <1>2, <1>3 DEF d

(* lseek: the request starts at the position, with nothing read.           *)
LEMMA SeekIsGood ==
  ASSUME NEW c \in Request, c.st = "seek", GoodTotal(c), NEW n \in Nat, NEW p \in Nat
  PROVE  LET d == [c EXCEPT !.st = "loop", !.base = p]
         IN  d \in Request /\ GoodTotal(d) /\ GoodBuffer(d, n, p)
<1> DEFINE d == [c EXCEPT !.st = "loop", !.base = p]
<1>1. /\ d \in Request /\ d.base = p /\ d.st = "loop"
      /\ d.op = c.op /\ d.len = c.len /\ d.total = c.total
      /\ d.buf = c.buf /\ d.failed = c.failed
  BY Zenon DEF Request
<1>2. c.total = 0 /\ c.len \in Nat /\ c.buf = <<>>
  BY SizesAssumption, RequestFields DEF GoodTotal
<1> HIDE DEF d
<1>3. GoodTotal(d)
  BY <1>1, <1>2 DEF GoodTotal
<1>4. GoodBuffer(d, n, p)
  BY <1>1, <1>2 DEF GoodBuffer
<1>5. QED
  BY <1>1, <1>3, <1>4 DEF d

(* write takes m bytes.                                                    *)
LEMMA WriteIsGood ==
  ASSUME NEW c \in Request, c.st = "loop", c.op = "write", c.len < U32 \div 2,
         NEW m \in Nat, c.total + m <= c.len, NEW n, NEW p
  PROVE  LET d == [c EXCEPT !.total = @ + m]
         IN  d \in Request /\ GoodTotal(d) /\ GoodBuffer(d, n, p)
<1> DEFINE d == [c EXCEPT !.total = c.total + m]
<1>1. c.total + m \in 0..(U64 - 1) /\ c.len \in Nat /\ U32 \div 2 \in Nat
  BY SizesAssumption, RequestFields
<1>2. /\ d \in Request /\ d.total = c.total + m
      /\ d.st = c.st /\ d.op = c.op /\ d.len = c.len
      /\ d.buf = c.buf /\ d.failed = c.failed /\ d.base = c.base
  BY <1>1, Zenon DEF Request
<1> HIDE DEF d
<1>3. GoodTotal(d)
  BY <1>1, <1>2 DEF GoodTotal
<1>4. GoodBuffer(d, n, p)
  BY <1>2 DEF GoodBuffer
<1>5. d = [c EXCEPT !.total = @ + m]
  BY DEF d
<1>6. QED
  BY <1>2, <1>3, <1>4, <1>5

(* A buffer f with T good bytes, when m bytes from position p on follow.   *)
LEMMA BufferGrows ==
  ASSUME NEW T \in Nat, NEW m \in Nat, NEW n \in Nat, NEW p \in Nat, p + m <= n, NEW f,
         \A k \in 1..T : f[k] \in 1..n /\ f[k] <= p,
         \A j, k \in 1..T : j < k => f[j] < f[k],
         NEW b,
         \A k \in 1..T : b[k] = f[k],
         \A k \in (T + 1)..(T + m) : b[k] = p + k - T
  PROVE  /\ \A k \in 1..(T + m) : b[k] \in Nat /\ b[k] \in 1..n /\ b[k] <= p + m
         /\ \A j, k \in 1..(T + m) : j < k => b[j] < b[k]
         /\ \A o \in Nat : p = o + T /\ (\A k \in 1..T : f[k] = o + k) =>
              \A k \in 1..(T + m) : b[k] = o + k
<1>1. ASSUME NEW k \in 1..T
      PROVE  b[k] = f[k]
  OBVIOUS
<1>2. ASSUME NEW k \in (T + 1)..(T + m)
      PROVE  b[k] = p + k - T
  OBVIOUS
<1>3. ASSUME NEW k \in 1..(T + m)
      PROVE  k \in 1..T \/ k \in (T + 1)..(T + m)
  OBVIOUS
<1>5. ASSUME NEW k \in 1..(T + m)
      PROVE  b[k] \in Nat /\ b[k] \in 1..n /\ b[k] <= p + m
  <2>1. CASE k \in 1..T
    <3>1. f[k] \in 1..n /\ f[k] <= p /\ b[k] = f[k]
      BY <2>1, <1>1
    <3>2. QED
      BY <3>1
  <2>2. CASE k \in (T + 1)..(T + m)
    <3>1. b[k] = p + k - T
      BY <2>2, <1>2
    <3>2. QED
      BY <2>2, <3>1
  <2>3. QED
    BY <2>1, <2>2, <1>3
<1>7. ASSUME NEW j \in 1..(T + m), NEW k \in 1..(T + m), j < k
      PROVE  b[j] < b[k]
  <2>1. CASE k \in 1..T
    <3>1. j \in 1..T
      BY <1>7, <2>1
    <3>2. f[j] < f[k]
      BY <1>7, <2>1, <3>1
    <3>3. QED
      BY <1>1, <2>1, <3>1, <3>2
  <2>2. CASE j \in 1..T /\ k \in (T + 1)..(T + m)
    <3>1. b[j] \in Int /\ b[j] <= p
      <4>1. f[j] \in 1..n /\ f[j] <= p /\ b[j] = f[j]
        BY <1>1, <2>2
      <4>2. QED
        BY <4>1
    <3>2. b[k] = p + k - T
      BY <1>2, <2>2
    <3>3. QED
      BY <2>2, <3>1, <3>2
  <2>3. CASE j \in (T + 1)..(T + m) /\ k \in (T + 1)..(T + m)
    <3>1. b[j] = p + j - T /\ b[k] = p + k - T
      BY <1>2, <2>3
    <3>2. QED
      BY <1>7, <3>1
  <2>4. k \in 1..T \/ (j \in 1..T /\ k \in (T + 1)..(T + m))
        \/ (j \in (T + 1)..(T + m) /\ k \in (T + 1)..(T + m))
    BY <1>7
  <2>5. QED
    BY <2>1, <2>2, <2>3, <2>4
<1>8. ASSUME NEW o \in Nat, p = o + T, \A k \in 1..T : f[k] = o + k,
             NEW k \in 1..(T + m)
      PROVE  b[k] = o + k
  <2>1. CASE k \in 1..T
    BY <1>1, <1>8, <2>1
  <2>2. CASE k \in (T + 1)..(T + m)
    <3>1. b[k] = p + k - T
      BY <1>2, <2>2
    <3>2. QED
      BY <1>8, <3>1
  <2>3. QED
    BY <2>1, <2>2, <1>3
<1>9. QED
  BY <1>5, <1>7, <1>8

(* read returns m bytes from position p on.                                *)
LEMMA ReadIsGood ==
  ASSUME NEW c \in Request, c.st = "loop", c.op = "read", c.len < U32 \div 2,
         NEW m \in Nat, m >= 1, c.total + m <= c.len,
         NEW n \in Nat, NEW p \in Nat, p + m <= n, GoodBuffer(c, n, p)
  PROVE  LET b == [k \in 1..(c.total + m) |-> IF k <= c.total THEN c.buf[k] ELSE p + k - c.total]
             d == [c EXCEPT !.total = @ + m, !.buf = b]
         IN  d \in Request /\ GoodTotal(d) /\ GoodBuffer(d, n, p + m)
<1> DEFINE b == [k \in 1..(c.total + m) |-> IF k <= c.total THEN c.buf[k] ELSE p + k - c.total]
<1> DEFINE d == [c EXCEPT !.total = c.total + m, !.buf = b]
<1>1. /\ c.total + m \in 0..(U64 - 1) /\ c.len \in Nat /\ U32 \div 2 \in Nat
      /\ c.total \in Nat /\ c.total <= c.len
  BY SizesAssumption, RequestFields, SMTT(20)
<1>2. /\ \A k \in 1..c.total : c.buf[k] \in 1..n /\ c.buf[k] <= p
      /\ \A j, k \in 1..c.total : j < k => c.buf[j] < c.buf[k]
      /\ ~c.failed /\ c.base # Lost =>
           /\ \A k \in 1..c.total : c.buf[k] = c.base + k
           /\ p = c.base + c.total
  BY <1>1 DEF GoodBuffer
<1>3. /\ b \in Seq(Nat) /\ Len(b) = c.total + m
      /\ \A k \in 1..(c.total + m) : b[k] \in 1..n /\ b[k] <= p + m
      /\ \A j, k \in 1..(c.total + m) : j < k => b[j] < b[k]
      /\ \A o \in Nat : p = o + c.total /\ (\A k \in 1..c.total : c.buf[k] = o + k) =>
           \A k \in 1..(c.total + m) : b[k] = o + k
  <2> DEFINE T == c.total
             f == c.buf
  <2>1. /\ T \in Nat
        /\ \A k \in 1..T : f[k] \in 1..n /\ f[k] <= p
        /\ \A j, k \in 1..T : j < k => f[j] < f[k]
    BY <1>1, <1>2
  <2>2. ASSUME NEW k \in 1..T
        PROVE  b[k] = f[k]
    <3>1. k \in 1..(T + m) /\ k <= T
      BY <2>1
    <3>2. QED
      BY <3>1
  <2>3. ASSUME NEW k \in (T + 1)..(T + m)
        PROVE  b[k] = p + k - T
    <3>1. k \in 1..(T + m) /\ ~(k <= T)
      BY <2>1
    <3>2. QED
      BY <3>1
  <2>4. b = [k \in 1..(T + m) |-> b[k]] /\ T + m \in Nat
    BY <2>1
  <2> HIDE DEF b, T, f
  <2>5. /\ \A k \in 1..(T + m) : b[k] \in Nat /\ b[k] \in 1..n /\ b[k] <= p + m
        /\ \A j, k \in 1..(T + m) : j < k => b[j] < b[k]
        /\ \A o \in Nat : p = o + T /\ (\A k \in 1..T : f[k] = o + k) =>
             \A k \in 1..(T + m) : b[k] = o + k
    BY <2>1, <2>2, <2>3, BufferGrows
  <2>6. ASSUME NEW N \in Nat, NEW g \in [1..N -> Nat] PROVE g \in Seq(Nat) /\ Len(g) = N
    OBVIOUS
  <2>7. b \in [1..(T + m) -> Nat]
    BY <2>4, <2>5
  <2>8. b \in Seq(Nat) /\ Len(b) = T + m
    BY <2>4, <2>6, <2>7
  <2>9. QED
    BY <2>5, <2>8 DEF T, f
<1>5. /\ d \in Request /\ d.total = c.total + m /\ d.buf = b
      /\ d.st = c.st /\ d.op = c.op /\ d.len = c.len
      /\ d.failed = c.failed /\ d.base = c.base
  <2> HIDE DEF b
  <2>1. QED
    BY <1>1, <1>3, Zenon DEF Request
<1> HIDE DEF b
<1>7. ~c.failed /\ c.base # Lost =>
        /\ \A k \in 1..(c.total + m) : b[k] = c.base + k
        /\ p + m = c.base + (c.total + m)
  <2> SUFFICES ASSUME ~c.failed, c.base # Lost
               PROVE  /\ \A k \in 1..(c.total + m) : b[k] = c.base + k
                      /\ p + m = c.base + (c.total + m)
    OBVIOUS
  <2>1. c.base \in Nat
    BY RequestFields
  <2>2. p = c.base + c.total /\ \A k \in 1..c.total : c.buf[k] = c.base + k
    BY <1>2
  <2>3. \A k \in 1..(c.total + m) : b[k] = c.base + k
    BY <1>3, <2>1, <2>2, Zenon
  <2>4. p + m = c.base + (c.total + m)
    BY <2>1, <2>2, <1>1
  <2>5. QED
    BY <2>3, <2>4
<1>a. d = [c EXCEPT !.total = @ + m, !.buf = b]
  OBVIOUS
<1> HIDE DEF d
<1>8. GoodTotal(d)
  BY <1>1, <1>5 DEF GoodTotal
<1>9. GoodBuffer(d, n, p + m)
  <2>1. /\ Len(d.buf) = d.total
        /\ \A k \in 1..d.total : d.buf[k] \in 1..n /\ d.buf[k] <= p + m
        /\ \A j, k \in 1..d.total : j < k => d.buf[j] < d.buf[k]
    BY <1>3, <1>5
  <2>2. ~d.failed /\ d.base # Lost =>
          /\ \A k \in 1..d.total : d.buf[k] = d.base + k
          /\ p + m = d.base + d.total
    BY <1>5, <1>7
  <2>3. d.total \in Nat
    BY <1>1, <1>5
  <2>4. QED
    BY <2>1, <2>2, <2>3 DEF GoodBuffer
<1>10. QED
  BY <1>5, <1>8, <1>9, <1>a DEF b

(* A system call fails: total is -1, or one less than before.              *)
LEMMA FailIsGood ==
  ASSUME NEW c \in Request, c.st = "loop", c.total < c.len, NEW n \in Nat, NEW p \in Nat,
         GoodTotal(c), GoodBuffer(c, n, p)
  PROVE  LET d == [c EXCEPT !.total = (@ - 1) % U64, !.failed = TRUE]
         IN  d \in Request /\ GoodTotal(d) /\ GoodBuffer(d, n, p)
<1> DEFINE m == (c.total - 1) % U64
<1> DEFINE d == [c EXCEPT !.total = m, !.failed = TRUE]
<1>1. /\ U64 \in Nat /\ U64 > 1 /\ c.len \in Nat /\ c.len < U64 - 1 /\ U32 \div 2 \in Nat
      /\ c.total \in Nat /\ c.total < U64 /\ c.failed \in BOOLEAN
  <2>1. c.len \in 0..(U32 - 1) /\ c.total \in 0..(U64 - 1) /\ c.failed \in BOOLEAN
    BY RequestFields, Zenon
  <2>2. U32 \in Nat /\ U64 \in Nat /\ U32 > 2 /\ U64 > U32 /\ U32 \div 2 \in Nat
    BY SizesAssumption
  <2>3. QED
    BY <2>1, <2>2
<1>2. m = IF c.total = 0 THEN U64 - 1 ELSE c.total - 1
  <2>1. ASSUME NEW x \in Nat, NEW u \in Nat, x < u
        PROVE  (x - 1) % u = IF x = 0 THEN u - 1 ELSE x - 1
    BY <2>1
  <2>2. QED
    BY <1>1, <2>1, Zenon
<1> HIDE DEF m
<1>3. /\ d \in Request /\ d.total = m /\ d.failed = TRUE
      /\ d.st = c.st /\ d.op = c.op /\ d.len = c.len
      /\ d.buf = c.buf /\ d.base = c.base
  <2>1. m \in 0..(U64 - 1)
    BY <1>1, <1>2
  <2>2. QED
    BY <2>1, Zenon DEF Request
<1>a. d = [c EXCEPT !.total = (@ - 1) % U64, !.failed = TRUE]
  BY DEF m
<1> HIDE DEF d
<1>4. GoodTotal(d)
  BY <1>1, <1>2, <1>3 DEF GoodTotal
<1>5. GoodBuffer(d, n, p)
  <2>1. CASE c.total = 0
    BY <2>1, <1>1, <1>2, <1>3 DEF GoodBuffer
  <2>2. CASE c.total # 0
    <3>1. m = c.total - 1 /\ c.total <= c.len /\ m < c.len /\ m \in Nat
      BY <2>2, <1>1, <1>2
    <3>2. ASSUME c.op = "read"
          PROVE  /\ Len(c.buf) >= c.total
                 /\ \A k \in 1..c.total : c.buf[k] \in 1..n /\ c.buf[k] <= p
                 /\ \A j, k \in 1..c.total : j < k => c.buf[j] < c.buf[k]
      BY <3>1, <3>2 DEF GoodBuffer
    <3>3. 1..m \subseteq 1..c.total /\ (Len(c.buf) \in Nat)
      <4>1. c.buf \in Seq(Nat) /\ c.total \in Nat
        BY RequestFields, SizesAssumption
      <4>2. Len(c.buf) \in Nat
        BY <4>1
      <4>3. 1..m \subseteq 1..c.total
        BY <3>1, <4>1
      <4>4. QED
        BY <4>2, <4>3
    <3>4. ASSUME c.op = "read"
          PROVE  /\ Len(c.buf) >= m
                 /\ \A k \in 1..m : c.buf[k] \in 1..n /\ c.buf[k] <= p
                 /\ \A j, k \in 1..m : j < k => c.buf[j] < c.buf[k]
      <4>1. Len(c.buf) >= m
        BY <3>1, <3>2, <3>3, <3>4, <1>1, SMTT(20)
      <4>2. QED
        BY <4>1, <3>2, <3>3, <3>4
    <3>5. d.total # d.len /\ d.failed
      BY <3>1, <1>1, <1>3
    <3>6. QED
      BY <3>4, <3>5, <1>3 DEF GoodBuffer
  <2>3. QED
    BY <2>1, <2>2
<1>6. QED
  BY <1>3, <1>4, <1>5, <1>a

(* The loop ends.                                                          *)
LEMMA ReturnIsGood ==
  ASSUME NEW c \in Request, c.st = "loop", c.total >= c.len, NEW n, NEW p,
         GoodTotal(c), GoodBuffer(c, n, p)
  PROVE  LET d == [c EXCEPT !.st = "done"]
         IN  d \in Request /\ GoodTotal(d) /\ GoodBuffer(d, n, p)
<1> DEFINE d == [c EXCEPT !.st = "done"]
<1>1. /\ d \in Request /\ d.st = "done"
      /\ d.op = c.op /\ d.len = c.len /\ d.total = c.total
      /\ d.buf = c.buf /\ d.failed = c.failed /\ d.base = c.base
  BY DEF Request
<1> HIDE DEF d
<1>2. GoodTotal(d)
  BY <1>1 DEF GoodTotal
<1>3. GoodBuffer(d, n, p)
  BY <1>1 DEF GoodBuffer
<1>4. QED
  BY <1>1, <1>2, <1>3 DEF d

-----------------------------------------------------------------------------
(* A system call that is accepted transfers no more than is left, and      *)
(* there is none for a length that is negative as an int.                  *)
LEMMA AcceptedBatch ==
  ASSUME Inv, NEW t \in Callers, call[t].st = "loop", call[t].total < call[t].len,
         Accepted(t), NEW n \in 1..Batch(t)
  PROVE  /\ n \in Nat /\ n >= 1
         /\ call[t].total + n <= call[t].len
         /\ call[t].len < U32 \div 2
<1> DEFINE c == call[t]
<1>1. /\ c \in Request /\ GoodTotal(c)
      /\ c.len \in 0..(U32 - 1) /\ c.total \in Nat
      /\ U32 \in Nat /\ U64 \in Nat /\ U64 > U32 /\ U32 \div 2 \in Nat /\ U64 \div 2 \in Nat
  BY SizesAssumption, RequestFields, SMTT(20) DEF Inv, Typed
<1>2. c.len - c.total \in 1..(U32 - 1)
  BY <1>1
<1>3. Batch(t) = min(c.len - c.total, CHUNK_OP_LEN) % U64 /\ Batch(t) < U64 \div 2
  BY DEF Batch, Accepted
<1> HIDE DEF c
<1>4. c.len - c.total < U32 \div 2 /\ Batch(t) \in 1..(c.len - c.total)
  <2>1. Batch(t) \in Int
    BY <1>2, <1>3, BatchBounds
  <2>2. QED
    BY <1>1, <1>2, <1>3, <2>1, BatchBounds
<1>5. c.len < U32 \div 2
  <2>1. c.total # U64 - 1
    BY <1>1, <1>2
  <2>2. QED
    BY <1>1, <1>4, <2>1 DEF GoodTotal, c
<1>6. QED
  BY <1>1, <1>4, <1>5 DEF c

(* A step of t that moves the position or appends to the file.             *)
LEMMA MoveKeepsInv ==
  ASSUME Inv, NEW t \in Callers, NEW c \in Request, Moves(t, c),
         file' \in Seq(Nat \X Nat), Len(file) <= Len(file'),
         off' \in Nat, off <= off' \/ Len(file) <= off',
         GoodTotal(c), GoodBuffer(c, Len(file'), off'), UNCHANGED <<open, calls>>
  PROVE  Inv'
<1>1. ASSUME NEW u \in Callers
      PROVE  call'[u] \in Request /\ GoodTotal(call'[u]) /\ GoodBuffer(call'[u], Len(file'), off')
  <2>1. CASE u = t
    BY <2>1 DEF Moves
  <2>2. CASE u # t
    <3>1. call'[u] = [call[u] EXCEPT !.base = Lost]
      BY <2>2 DEF Moves
    <3>2. /\ call[u] \in Request /\ GoodTotal(call[u]) /\ GoodBuffer(call[u], Len(file), off)
          /\ Len(file) \in Nat /\ Len(file') \in Nat /\ off \in Nat
      BY DEF Inv, Typed
    <3>3. ASSUME NEW m \in Nat, NEW q \in Nat, Len(file) <= m, off <= q \/ Len(file) <= q
          PROVE  /\ [call[u] EXCEPT !.base = Lost] \in Request
                 /\ GoodTotal([call[u] EXCEPT !.base = Lost])
                 /\ GoodBuffer([call[u] EXCEPT !.base = Lost], m, q)
      BY <3>2, <3>3, OthersMove, Zenon
    <3>4. QED
      BY <3>1, <3>2, <3>3, Zenon
  <2>3. QED
    BY <2>1, <2>2
<1>2. call' \in [Callers -> Request]
  BY <1>1 DEF Moves
<1>3. QED
  BY <1>1, <1>2 DEF Inv, Typed

(* A step of t that leaves the file and the position alone.                *)
LEMMA StayKeepsInv ==
  ASSUME Inv, NEW t \in Callers, NEW c \in Request, call' = [call EXCEPT ![t] = c],
         GoodTotal(c), GoodBuffer(c, Len(file), off), calls' \in Nat,
         UNCHANGED <<file, off, open>>
  PROVE  Inv'
<1>1. ASSUME NEW u \in Callers
      PROVE  call'[u] \in Request /\ GoodTotal(call'[u]) /\ GoodBuffer(call'[u], Len(file), off)
  <2>1. CASE u = t
    BY <2>1 DEF Inv, Typed
  <2>2. CASE u # t
    <3>1. call'[u] = call[u]
      BY <2>2 DEF Inv, Typed
    <3>2. QED
      BY <3>1 DEF Inv, Typed
  <2>3. QED
    BY <2>1, <2>2
<1>2. call' \in [Callers -> Request]
  BY DEF Inv, Typed
<1>3. QED
  BY <1>1, <1>2 DEF Inv, Typed

(* No request, before chunk_write or chunk_read is called.                 *)
LEMMA IdleIsGood ==
  Idle \in Request /\ \A n, p : GoodTotal(Idle) /\ GoodBuffer(Idle, n, p)
<1>1. Idle \in Request
  BY SizesAssumption DEF Idle, Request, Lost
<1>2. QED
  BY <1>1 DEF Idle, GoodTotal, GoodBuffer

(* The initial state: an open chunk and no request.                        *)
LEMMA InitInv == Init => Inv
<1> SUFFICES ASSUME Init PROVE Inv
  OBVIOUS
<1>1. \A t \in Callers : call[t] = Idle
  BY DEF Init
<1>2. Typed
  BY <1>1, IdleIsGood, SizesAssumption DEF Init, Typed
<1>3. QED
  BY <1>1, <1>2, IdleIsGood DEF Inv

(* chunk_init and chunk_deinit.                                            *)
LEMMA OpenKeepsInv == Inv /\ (chunk_init \/ chunk_deinit) => Inv'
<1> SUFFICES ASSUME Inv, chunk_init \/ chunk_deinit PROVE Inv'
  OBVIOUS
<1>1. CASE chunk_init
  <2>1. ASSUME NEW t \in Callers PROVE GoodBuffer(call[t], Len(file), 0)
    <3>1. GoodBuffer(call[t], Len(file), off) /\ call[t].st # "loop"
      BY <1>1 DEF Inv, chunk_init, Active
    <3>2. QED
      BY <3>1 DEF GoodBuffer
  <2>2. QED
    BY <1>1, <2>1 DEF Inv, Typed, chunk_init
<1>2. CASE chunk_deinit
  BY <1>2, Zenon DEF Inv, Typed, chunk_deinit
<1>3. QED
  BY <1>1, <1>2

(* chunk_write or chunk_read is called.                                    *)
LEMMA CallKeepsInv ==
  ASSUME Inv, NEW t \in Callers, NEW op \in {"write", "read"}, NEW p \in Poss,
         NEW n \in Lens, Call(t, op, p, n)
  PROVE  Inv'
<1> DEFINE c == [Idle EXCEPT !.st = "seek", !.op = op, !.id = calls', !.pos = p, !.len = n]
<1>1. calls' \in Nat /\ p \in Nat /\ n \in 0..(U32 - 1)
  BY SizesAssumption, SMTT(30) DEF Call, Inv, Typed
<1>2. /\ c \in Request /\ c.st = "seek" /\ c.total = 0 /\ c.buf = <<>>
  BY <1>1, IdleIsGood, Zenon DEF Idle, Request
<1>3. call' = [call EXCEPT ![t] = c] /\ UNCHANGED <<file, off, open>>
  BY DEF Call
<1> HIDE DEF c
<1>4. GoodTotal(c) /\ GoodBuffer(c, Len(file), off)
  BY <1>2 DEF GoodTotal, GoodBuffer
<1>5. QED
  BY <1>1, <1>2, <1>3, <1>4, StayKeepsInv, Zenon

(* The steps inside chunk_write and chunk_read.                            *)
LEMMA StepKeepsInv ==
  ASSUME Inv, NEW t \in Callers, Step(t)
  PROVE  Inv'
<1> DEFINE c == call[t]
<1>1. /\ c \in Request /\ GoodTotal(c) /\ GoodBuffer(c, Len(file), off)
      /\ Len(file) \in Nat /\ off \in Nat /\ calls \in Nat
  BY DEF Inv, Typed
<1>2. CASE Seek(t)
  <2> DEFINE d == [c EXCEPT !.st = "loop", !.base = off']
  <2>1. /\ off' \in Nat /\ off <= off' /\ c.st = "seek"
        /\ UNCHANGED <<file, open, calls>> /\ Moves(t, d)
    BY <1>1, <1>2, RequestFields DEF Seek
  <2>2. d \in Request /\ GoodTotal(d) /\ GoodBuffer(d, Len(file), off')
    BY <1>1, <2>1, SeekIsGood, Zenon
  <2> HIDE DEF c, d
  <2>3. file' \in Seq(Nat \X Nat) /\ Len(file) <= Len(file') /\ Len(file') = Len(file)
    BY <2>1, <1>1 DEF Inv, Typed
  <2>4. QED
    BY <2>1, <2>2, <2>3, MoveKeepsInv
<1>3. CASE ReadNothing(t)
  BY <1>3 DEF ReadNothing, vars, Inv, Typed
<1>4. CASE Fail(t)
  <2> DEFINE d == [c EXCEPT !.total = (@ - 1) % U64, !.failed = TRUE]
  <2>1. /\ c.st = "loop" /\ c.total < c.len
        /\ UNCHANGED <<file, off, open, calls>> /\ call' = [call EXCEPT ![t] = d]
    BY <1>1, <1>4, Zenon DEF Fail, Looping, Inv, Typed
  <2>2. d \in Request /\ GoodTotal(d) /\ GoodBuffer(d, Len(file), off)
    BY <1>1, <2>1, FailIsGood, Zenon
  <2> HIDE DEF c, d
  <2>3. QED
    BY <1>1, <2>1, <2>2, StayKeepsInv, Zenon
<1>5. CASE Return(t)
  <2> DEFINE d == [c EXCEPT !.st = "done"]
  <2>1. /\ c.st = "loop" /\ c.total >= c.len
        /\ UNCHANGED <<file, off, open, calls>> /\ call' = [call EXCEPT ![t] = d]
    BY <1>1, <1>5 DEF Return
  <2>2. d \in Request /\ GoodTotal(d) /\ GoodBuffer(d, Len(file), off)
    BY <1>1, <2>1, ReturnIsGood
  <2> HIDE DEF c, d
  <2>3. QED
    BY <1>1, <2>1, <2>2, StayKeepsInv, Zenon
<1>6. CASE Answered(t)
  BY <1>1, <1>6, IdleIsGood, StayKeepsInv, Zenon DEF Answered
<1>7. ASSUME NEW n \in 1..CHUNK_OP_LEN, WriteSome(t, n) PROVE Inv'
  <2> DEFINE d == [c EXCEPT !.total = @ + n]
  <2> DEFINE bytes == [k \in 1..n |-> <<c.id, c.total + k>>]
  <2>1. /\ c.st = "loop" /\ c.op = "write" /\ c.total < c.len /\ Accepted(t) /\ n \in 1..Batch(t)
        /\ file' = file \o bytes /\ off' = Len(file')
        /\ UNCHANGED <<open, calls>> /\ Moves(t, d)
    BY <1>7 DEF WriteSome, Looping
  <2>2. n \in Nat /\ c.total + n <= c.len /\ c.len < U32 \div 2
    BY <2>1, AcceptedBatch
  <2>3. bytes \in Seq(Nat \X Nat) /\ Len(bytes) = n
    <3>1. c.id \in Nat /\ c.total \in Nat
      BY <1>1, SizesAssumption, RequestFields
    <3>2. \A k \in 1..n : bytes[k] \in Nat \X Nat
      BY <3>1, <2>2
    <3>3. QED
      BY <3>2, <2>2
  <2>4. d \in Request /\ GoodTotal(d) /\ GoodBuffer(d, Len(file'), off')
    BY <1>1, <2>1, <2>2, WriteIsGood
  <2> HIDE DEF c, d, bytes
  <2>5. /\ file' \in Seq(Nat \X Nat) /\ Len(file') = Len(file) + n
        /\ off' \in Nat /\ Len(file) <= off' /\ Len(file) <= Len(file')
    <3>1. ASSUME NEW S, NEW f \in Seq(S), NEW g \in Seq(S)
          PROVE  f \o g \in Seq(S) /\ Len(f \o g) = Len(f) + Len(g)
      OBVIOUS
    <3>2. file \in Seq(Nat \X Nat)
      BY DEF Inv, Typed
    <3>3. file' \in Seq(Nat \X Nat) /\ Len(file') = Len(file) + n
      BY <3>1, <3>2, <2>1, <2>3, Zenon
    <3>4. QED
      BY <3>3, <1>1, <2>1, <2>2
  <2>6. QED
    BY <2>1, <2>4, <2>5, MoveKeepsInv
<1>8. ASSUME NEW n \in 1..CHUNK_OP_LEN, ReadSome(t, n) PROVE Inv'
  <2> DEFINE b == [k \in 1..(c.total + n) |-> IF k <= c.total THEN c.buf[k] ELSE off + k - c.total]
  <2> DEFINE d == [c EXCEPT !.total = @ + n, !.buf = b]
  <2>1. /\ c.st = "loop" /\ c.op = "read" /\ c.total < c.len /\ Accepted(t) /\ n \in 1..Batch(t)
        /\ off + n <= Len(file) /\ off' = off + n
        /\ UNCHANGED <<file, open, calls>> /\ Moves(t, d)
    BY <1>8 DEF ReadSome, Looping, Stored
  <2>2. n \in Nat /\ n >= 1 /\ c.total + n <= c.len /\ c.len < U32 \div 2
    BY <2>1, AcceptedBatch
  <2>3. d \in Request /\ GoodTotal(d) /\ GoodBuffer(d, Len(file), off')
    <3>1. c \in Request /\ GoodBuffer(c, Len(file), off) /\ Len(file) \in Nat /\ off \in Nat
      BY <1>1
    <3> HIDE DEF c
    <3>2. /\ c.st = "loop" /\ c.op = "read" /\ c.len < U32 \div 2 /\ n \in Nat /\ n >= 1
          /\ c.total + n <= c.len /\ off + n <= Len(file)
      BY <2>1, <2>2, Zenon
    <3>3. d \in Request /\ GoodTotal(d) /\ GoodBuffer(d, Len(file), off + n)
      BY <3>1, <3>2, ReadIsGood, Zenon
    <3>4. QED
      BY <2>1, <3>3, Zenon
  <2> HIDE DEF c, d
  <2>4. /\ file' \in Seq(Nat \X Nat) /\ Len(file') = Len(file) /\ Len(file) <= Len(file')
        /\ off' \in Nat /\ off <= off'
    BY <1>1, <2>1, <2>2 DEF Inv, Typed
  <2>5. QED
    BY <2>1, <2>3, <2>4, MoveKeepsInv
<1>9. QED
  BY <1>2, <1>3, <1>4, <1>5, <1>6, <1>7, <1>8 DEF Step

(* Every step keeps Inv.                                                   *)
LEMMA NextKeepsInv == Inv /\ [Next]_vars => Inv'
<1> SUFFICES ASSUME Inv, [Next]_vars PROVE Inv'
  OBVIOUS
<1>1. CASE chunk_init \/ chunk_deinit
  BY <1>1, OpenKeepsInv
<1>2. CASE \E t \in Callers : Step(t)
  BY <1>2, StepKeepsInv
<1>3. CASE \E t \in Callers, op \in {"write", "read"}, p \in Poss, n \in Lens : Call(t, op, p, n)
  BY <1>3, CallKeepsInv
<1>4. CASE UNCHANGED vars
  BY <1>4 DEF vars, Inv, Typed
<1>5. QED
  BY <1>1, <1>2, <1>3, <1>4 DEF Next

(* Inv holds in every reachable state.                                     *)
THEOREM InvHolds == Spec => []Inv
  BY InitInv, NextKeepsInv, PTL DEF Spec

(* chunk_write and chunk_read return the whole length or -1, the latter    *)
(* only after a failed system call and always for a length that min()      *)
(* takes for a negative number.                                            *)
THEOREM ResultsCorrect == Spec => []WholeOrError
<1>1. Inv => WholeOrError
  <2> SUFFICES ASSUME Inv, NEW t \in Callers, call[t].st = "done"
               PROVE  /\ Result(t) \in {call[t].len, -1}
                      /\ Result(t) = -1 => call[t].failed
                      /\ call[t].len >= U32 \div 2 => Result(t) = -1
    BY DEF WholeOrError
  <2> DEFINE c == call[t]
  <2>1. /\ GoodTotal(c) /\ c.len \in 0..(U32 - 1) /\ c.total \in 0..(U64 - 1)
    BY RequestFields DEF Inv, Typed
  <2>2. /\ U32 \in Nat /\ U64 \in Nat /\ U64 > U32 /\ U32 > 2
        /\ 2 * (U32 \div 2) = U32 /\ 2 * (U64 \div 2) = U64
        /\ U32 \div 2 \in Nat /\ U64 \div 2 \in Nat
    BY SizesAssumption
  <2>3. Result(t) = IF c.total < U64 \div 2 THEN c.total ELSE c.total - U64
    BY DEF Result
  <2>4. \/ c.total = c.len /\ c.len < U32 \div 2
        \/ c.total = U64 - 1 /\ c.failed
    BY <2>1, <2>2 DEF GoodTotal
  <2> HIDE DEF c
  <2>5. QED
    BY <2>1, <2>2, <2>3, <2>4 DEF c
<1>2. QED
  BY <1>1, InvHolds, PTL

(* A chunk_read that returns its length has bytes of increasing places in  *)
(* its buffer, consecutive ones if it was not disturbed.                   *)
THEOREM ReadsCorrect == Spec => []ReadsForward
<1>1. Inv => ReadsForward
  <2> SUFFICES ASSUME Inv, NEW t \in Callers, Done(t, "read"), Result(t) = call[t].len
               PROVE  /\ Len(call[t].buf) = call[t].len
                      /\ \A k \in 1..call[t].len : call[t].buf[k] \in 1..Len(file)
                      /\ \A k \in 2..call[t].len : call[t].buf[k - 1] < call[t].buf[k]
                      /\ ~call[t].failed /\ call[t].base # Lost =>
                           \A k \in 1..call[t].len : call[t].buf[k] = call[t].base + k
    BY DEF ReadsForward
  <2> DEFINE c == call[t]
  <2>1. /\ c.st = "done" /\ c.op = "read" /\ GoodBuffer(c, Len(file), off)
        /\ c.len \in Nat /\ c.total \in Nat /\ U64 \in Nat /\ c.total < U64
    <3>1. c \in Request /\ GoodBuffer(c, Len(file), off)
      BY DEF Inv, Typed
    <3>2. c.len \in 0..(U32 - 1) /\ c.total \in 0..(U64 - 1)
      BY <3>1, RequestFields
    <3>3. QED
      BY <3>1, <3>2, SizesAssumption DEF Done
  <2>2. c.total = c.len
    BY <2>1 DEF Result
  <2> HIDE DEF c
  <2>3. /\ Len(c.buf) = c.len
        /\ \A k \in 1..c.len : c.buf[k] \in 1..Len(file)
        /\ \A j, k \in 1..c.len : j < k => c.buf[j] < c.buf[k]
        /\ ~c.failed /\ c.base # Lost => \A k \in 1..c.len : c.buf[k] = c.base + k
    BY <2>1, <2>2 DEF GoodBuffer
  <2>4. \A k \in 2..c.len : c.buf[k - 1] < c.buf[k]
    BY <2>1, <2>3
  <2>5. QED
    BY <2>3, <2>4 DEF c
<1>2. QED
  BY <1>1, InvHolds, PTL

(* The position, once at the end of the file, stays there while the chunk  *)
(* is open.                                                                *)
THEOREM PositionStays == Spec => NotReadBack
<1>1. Inv /\ [Next]_vars => [open /\ open' /\ off >= Len(file) => off' >= Len(file')]_vars
  <2> SUFFICES ASSUME Inv, Next, open, open', off >= Len(file)
               PROVE  off' >= Len(file')
    BY DEF vars
  <2>1. off \in Nat /\ Len(file) \in Nat
    BY DEF Inv, Typed
  <2>2. CASE chunk_init \/ chunk_deinit
    BY <2>2 DEF chunk_init, chunk_deinit
  <2>3. ASSUME NEW t \in Callers, Step(t) PROVE off' >= Len(file')
    <3>1. call[t].pos \in Nat
      BY RequestFields DEF Inv, Typed
    <3>2. Len(file') \in Nat
      BY <2>3, StepKeepsInv DEF Inv, Typed
    <3>3. CASE Seek(t)
      BY <3>3, <3>1, <2>1 DEF Seek
    <3>4. CASE ReadNothing(t) \/ Fail(t) \/ Return(t) \/ Answered(t)
      BY <3>4 DEF ReadNothing, Fail, Return, Answered, vars
    <3>5. ASSUME NEW n \in 1..CHUNK_OP_LEN, WriteSome(t, n) PROVE off' >= Len(file')
      BY <3>5, <3>2 DEF WriteSome
    <3>6. ASSUME NEW n \in 1..CHUNK_OP_LEN, ReadSome(t, n) PROVE off' >= Len(file')
      BY <3>6, <2>1, SizesAssumption DEF ReadSome
    <3>7. QED
      BY <2>3, <3>3, <3>4, <3>5, <3>6 DEF Step
  <2>4. CASE \E t \in Callers, op \in {"write", "read"}, p \in Poss, n \in Lens : Call(t, op, p, n)
    BY <2>4 DEF Call
  <2>5. QED
    BY <2>2, <2>3, <2>4 DEF Next
<1>2. QED
  BY <1>1, InvHolds, PTL DEF Spec, NotReadBack

-----------------------------------------------------------------------------
(* Byte k of a call is in file f, behind place i.                          *)
Behind(f, id, k, i) == \E j \in 1..Len(f) : i < j /\ f[j] = <<id, k>>

(* The first n bytes of a call are there, each one with the next one       *)
(* behind it wherever it is; nothing else of it is, and nothing twice.     *)
AllThere(f, id, n) == \A k \in 1..n : Behind(f, id, k, 0)
InOrder(f, id, n) ==
  \A k \in 2..n : \A i \in 1..Len(f) : f[i] = <<id, k - 1>> => Behind(f, id, k, i)
Once(f, id, n) ==
  \A i \in 1..Len(f) : f[i][1] = id =>
    f[i][2] \in 1..n /\ \A j \in 1..Len(f) : f[j] = f[i] => j = i

(* What file f holds of a chunk_write c.  Once a write has failed, bytes   *)
(* may be there again, before or behind the ones counted.                  *)
HeldOf(c, f) ==
  c.st # "idle" /\ c.op = "write" /\ c.total <= c.len =>
    /\ AllThere(f, c.id, c.total) /\ InOrder(f, c.id, c.total)
    /\ ~c.failed => Once(f, c.id, c.total)

(* A byte is of a request made, and no two requests have one number.       *)
Owned ==
  /\ \A i \in 1..Len(file) : file[i][1] <= calls
  /\ \A t \in Callers : call[t].st # "idle" => call[t].id \in 1..calls
  /\ \A t, u \in Callers :
       t # u /\ call[t].st # "idle" /\ call[u].st # "idle" => call[t].id # call[u].id

Written == Owned /\ \A t \in Callers : HeldOf(call[t], file)

(* What the file holds of a request depends on few of its fields.          *)
LEMMA HeldStays ==
  ASSUME NEW c, NEW d, NEW f, HeldOf(c, f),
         \/ d.op # "write"
         \/ /\ d.op = c.op /\ d.id = c.id /\ d.len = c.len
            /\ d.total = c.total /\ d.failed = c.failed,
         d.st # "idle" => c.st # "idle"
  PROVE  HeldOf(d, f)
  BY DEF HeldOf

(* Bytes of another request are appended.                                  *)
LEMMA HeldOfOther ==
  ASSUME NEW c, NEW f, NEW g, HeldOf(c, f), Len(f) \in Nat, Len(g) \in Nat, Len(f) <= Len(g),
         \A i \in 1..Len(f) : g[i] = f[i],
         \A i \in 1..Len(g) : i > Len(f) => g[i][1] # c.id
  PROVE  HeldOf(c, g)
<1> SUFFICES ASSUME c.st # "idle", c.op = "write", c.total <= c.len PROVE HeldOf(c, g)
  BY DEF HeldOf
<1> DEFINE T == c.total
           id == c.id
<1>1. AllThere(f, id, T) /\ InOrder(f, id, T) /\ (~c.failed => Once(f, id, T))
  BY DEF HeldOf
<1>2. \A i \in 1..Len(g) : g[i][1] = id => i \in 1..Len(f)
  OBVIOUS
<1>3. \A i \in 1..Len(f) : i \in 1..Len(g)
  OBVIOUS
<1> HIDE DEF T, id
<1>4. \A k, i : Behind(f, id, k, i) => Behind(g, id, k, i)
  BY <1>3 DEF Behind
<1>5. AllThere(g, id, T)
  BY <1>1, <1>4 DEF AllThere
<1>6. ASSUME NEW k \in 2..T, NEW i \in 1..Len(g), g[i] = <<id, k - 1>>
      PROVE  Behind(g, id, k, i)
  <2>1. g[i][1] = id
    BY <1>6
  <2>2. i \in 1..Len(f) /\ f[i] = <<id, k - 1>>
    BY <1>2, <1>6, <2>1
  <2>3. Behind(f, id, k, i)
    BY <1>1, <2>2 DEF InOrder
  <2>4. QED
    BY <1>4, <2>3
<1>7. ASSUME ~c.failed PROVE Once(g, id, T)
  <2> SUFFICES ASSUME NEW i \in 1..Len(g), g[i][1] = id
               PROVE  g[i][2] \in 1..T /\ \A j \in 1..Len(g) : g[j] = g[i] => j = i
    BY DEF Once
  <2>1. i \in 1..Len(f) /\ f[i][1] = id /\ g[i] = f[i]
    BY <1>2
  <2>2. \A j \in 1..Len(g) : g[j] = g[i] => j \in 1..Len(f) /\ f[j] = f[i]
    BY <1>2, <2>1
  <2>3. QED
    BY <1>1, <1>7, <2>1, <2>2 DEF Once
<1>8. InOrder(g, id, T)
  BY <1>6 DEF InOrder
<1>9. QED
  BY <1>5, <1>7, <1>8 DEF HeldOf, T, id

(* A place behind the first L of L + n is among the last n.                *)
LEMMA LastPlaces ==
  ASSUME NEW L \in Nat, NEW n \in Nat
  PROVE  /\ \A i \in 1..(L + n) : i \notin 1..L => i - L \in 1..n /\ L + (i - L) = i
         /\ \A m \in 1..n : L + m \in 1..(L + n)
  OBVIOUS

(* The next n bytes of the request itself are appended: they are the last  *)
(* places of all bytes they may repeat.                                    *)
LEMMA HeldOfWriter ==
  ASSUME NEW c, NEW d, NEW f, NEW g, NEW n \in Nat, HeldOf(c, f),
         c.total \in Nat, c.len \in Nat, c.total <= c.len, c.op = "write", c.st # "idle",
         d.id = c.id, d.failed = c.failed, d.total = c.total + n,
         Len(f) \in Nat, Len(g) = Len(f) + n,
         \A i \in 1..Len(f) : g[i] = f[i],
         \A k \in 1..n : g[Len(f) + k] = <<c.id, c.total + k>>
  PROVE  HeldOf(d, g)
<1> DEFINE T == c.total
           L == Len(f)
           M == Len(g)
           id == c.id
<1>1. AllThere(f, id, T) /\ InOrder(f, id, T) /\ (~c.failed => Once(f, id, T))
  BY DEF HeldOf
<1>2. T \in Nat /\ L \in Nat /\ M = L + n /\ d.total = T + n /\ d.id = id
      /\ d.failed = c.failed
  OBVIOUS
<1>3. /\ \A i \in 1..L : g[i] = f[i]
      /\ \A k \in 1..n : g[L + k] = <<id, T + k>>
  BY Zenon
<1> HIDE DEF T, L, M, id
<1>4. \A i \in 1..L : i \in 1..M
  BY <1>2
<1>5. ASSUME NEW i \in 1..M, i \notin 1..L
      PROVE  i - L \in 1..n /\ g[i] = <<id, T + (i - L)>>
  <2>1. i - L \in 1..n /\ L + (i - L) = i
    BY <1>2, <1>5, LastPlaces
  <2>2. QED
    BY <1>3, <2>1, Zenon
<1>6. \A k, i : Behind(f, id, k, i) => Behind(g, id, k, i)
  BY <1>3, <1>4 DEF Behind, L, M
<1>7. ASSUME NEW k \in Nat, k > T, k <= T + n, NEW i \in Nat,
             \/ i <= L
             \/ i \in 1..M /\ g[i] = <<id, k - 1>>
      PROVE  Behind(g, id, k, i)
  <2> DEFINE j == L + (k - T)
  <2>1. k - T \in 1..n /\ T + (k - T) = k
    BY <1>2, <1>7
  <2>2. g[j] = <<id, k>>
    BY <1>3, <2>1
  <2>3. j \in 1..M
    BY <1>2, <2>1, LastPlaces
  <2>4. i < j
    <3>1. CASE i <= L
      BY <1>2, <2>1, <3>1
    <3>2. CASE i \in 1..M /\ i \notin 1..L /\ g[i] = <<id, k - 1>>
      <4>1. <<id, k - 1>> = <<id, T + (i - L)>>
        BY <1>5, <3>2
      <4>2. k - 1 = T + (i - L)
        BY <4>1
      <4>3. QED
        BY <1>2, <4>2
    <3>3. QED
      BY <1>2, <1>7, <3>1, <3>2
  <2> HIDE DEF j
  <2>5. QED
    BY <2>2, <2>3, <2>4, Zenon DEF Behind, M
<1>8. ASSUME NEW k \in 1..(T + n) PROVE Behind(g, id, k, 0)
  <2>1. CASE k <= T
    <3>1. k \in 1..T
      BY <1>2, <2>1
    <3>2. Behind(f, id, k, 0)
      BY <1>1, <3>1 DEF AllThere
    <3>3. QED
      BY <1>6, <3>2
  <2>2. CASE k > T
    BY <1>2, <1>7, <2>2
  <2>3. QED
    BY <1>2, <2>1, <2>2
<1>9. ASSUME NEW k \in 2..(T + n), NEW i \in 1..M, g[i] = <<id, k - 1>>
      PROVE  Behind(g, id, k, i)
  <2>1. CASE k > T
    <3>1. k \in Nat /\ i \in Nat /\ k <= T + n
      BY <1>2
    <3>2. QED
      BY <1>7, <1>9, <2>1, <3>1
  <2>2. CASE k <= T
    <3>1. k \in 2..T
      BY <1>2, <2>2
    <3>2. i \in 1..L
      <4> SUFFICES ASSUME i \notin 1..L PROVE FALSE
        OBVIOUS
      <4>1. i - L \in 1..n /\ <<id, k - 1>> = <<id, T + (i - L)>>
        BY <1>5, <1>9
      <4>2. k - 1 = T + (i - L)
        BY <4>1
      <4>3. QED
        BY <1>2, <2>2, <4>1, <4>2
    <3>3. f[i] = <<id, k - 1>>
      BY <1>3, <1>9, <3>2
    <3>4. Behind(f, id, k, i)
      BY <1>1, <3>1, <3>2, <3>3 DEF InOrder, L
    <3>5. QED
      BY <1>6, <3>4
  <2>3. QED
    BY <1>2, <2>1, <2>2
<1>10. ASSUME ~d.failed, NEW i \in 1..M, g[i][1] = id
       PROVE  g[i][2] \in 1..(T + n) /\ \A j \in 1..M : g[j] = g[i] => j = i
  <2>1. \A x \in 1..L : f[x][1] = id =>
          f[x][2] \in 1..T /\ \A j \in 1..L : f[j] = f[x] => j = x
    BY <1>1, <1>2, <1>10 DEF Once, L
  <2>2. CASE i \in 1..L
    <3>1. g[i] = f[i] /\ f[i][2] \in 1..T /\ \A j \in 1..L : f[j] = f[i] => j = i
      BY <1>3, <1>10, <2>1, <2>2
    <3>2. ASSUME NEW j \in 1..M, g[j] = g[i] PROVE j = i
      <4>1. CASE j \in 1..L
        BY <1>3, <3>1, <3>2, <4>1
      <4>2. CASE j \notin 1..L
        <5>1. j - L \in 1..n /\ g[i] = <<id, T + (j - L)>>
          BY <1>5, <3>2, <4>2, Zenon
        <5>2. g[i][2] = T + (j - L)
          BY <5>1
        <5>3. QED
          BY <1>2, <3>1, <5>1, <5>2
      <4>3. QED
        BY <4>1, <4>2
    <3>3. QED
      BY <1>2, <3>1, <3>2, SMTT(30)
  <2>3. CASE i \notin 1..L
    <3>1. i - L \in 1..n /\ g[i] = <<id, T + (i - L)>>
      BY <1>5, <2>3
    <3>2. g[i][2] = T + (i - L)
      BY <3>1
    <3>3. ASSUME NEW j \in 1..M, g[j] = g[i] PROVE j = i
      <4>1. CASE j \in 1..L
        <5>1. f[j] = g[i]
          BY <1>3, <3>3, <4>1, Zenon
        <5>2. g[i][2] \in 1..T
          BY <1>10, <2>1, <4>1, <5>1
        <5>3. QED
          BY <1>2, <3>1, <3>2, <5>2
      <4>2. CASE j \notin 1..L
        <5>1. <<id, T + (j - L)>> = <<id, T + (i - L)>>
          BY <1>5, <3>1, <3>3, <4>2
        <5>2. T + (j - L) = T + (i - L)
          BY <5>1
        <5>3. QED
          BY <1>2, <5>2
      <4>3. QED
        BY <4>1, <4>2
    <3>4. QED
      BY <1>2, <3>1, <3>2, <3>3
  <2>4. QED
    BY <2>2, <2>3, Zenon
<1>11. AllThere(g, id, T + n)
  BY <1>8 DEF AllThere
<1>12. InOrder(g, id, T + n)
  BY <1>9 DEF InOrder, M
<1>13. ~d.failed => Once(g, id, T + n)
  BY <1>10 DEF Once, M
<1>14. QED
  BY <1>2, <1>11, <1>12, <1>13 DEF HeldOf

(* A write that fails takes back one byte of the count, or ends the call   *)
(* with -1.                                                                *)
LEMMA HeldAfterFailure ==
  ASSUME NEW c, NEW d, NEW f, HeldOf(c, f), c.total \in 0..(U64 - 1), c.len \in 0..(U32 - 1),
         c.st # "idle", c.total < c.len, d.op = c.op, d.id = c.id, d.len = c.len, d.failed = TRUE,
         d.total = (c.total - 1) % U64
  PROVE  HeldOf(d, f)
<1>1. U32 \in Nat /\ U64 \in Nat /\ U64 > U32
  BY SizesAssumption
<1>2. CASE c.total = 0
  <2>1. (c.total - 1) % U64 = U64 - 1
    BY <1>1, <1>2
  <2>2. ~(d.total <= d.len)
    BY <1>1, <2>1
  <2>3. QED
    BY <2>2 DEF HeldOf
<1>3. CASE c.total > 0
  <2>1. (c.total - 1) % U64 = c.total - 1
    BY <1>1, <1>3
  <2>2. \A k \in 1..d.total : k \in 1..c.total
    BY <1>1, <2>1
  <2>3. \A k \in 2..d.total : k \in 2..c.total
    BY <1>1, <2>1
  <2>4. c.total <= c.len
    BY <1>1
  <2>5. c.op = "write" => AllThere(f, c.id, c.total) /\ InOrder(f, c.id, c.total)
    BY <2>4 DEF HeldOf
  <2>6. c.op = "write" => AllThere(f, d.id, d.total) /\ InOrder(f, d.id, d.total)
    BY <2>2, <2>3, <2>5 DEF AllThere, InOrder
  <2>7. QED
    BY <2>6 DEF HeldOf
<1>4. QED
  BY <1>1, <1>2, <1>3

(* A step that starts no request and writes nothing.                       *)
LEMMA QuietKeepsWritten ==
  ASSUME Written, calls' = calls, file' = file,
         \A u \in Callers : call'[u].st = "idle" \/ (call[u].st # "idle" /\ call'[u].id = call[u].id),
         \A u \in Callers : HeldOf(call'[u], file)
  PROVE  Written'
  BY DEF Written, Owned

(* The initial state: bytes of no request.                                 *)
LEMMA InitWritten == Init => Written
<1> SUFFICES ASSUME Init PROVE Written
  OBVIOUS
<1>1. \A t \in Callers : call[t].st = "idle" /\ call[t].op = "none"
  BY DEF Init, Idle
<1>2. \A i \in 1..Len(file) : file[i][1] = 0
  BY SizesAssumption DEF Init
<1>3. calls = 0
  BY DEF Init
<1>4. Owned
  BY <1>1, <1>2, <1>3 DEF Owned
<1>5. \A t \in Callers : HeldOf(call[t], file)
  BY <1>1 DEF HeldOf
<1>6. QED
  BY <1>4, <1>5 DEF Written

(* A request gets a number no byte of the file has.                        *)
LEMMA CallKeepsWritten ==
  ASSUME Inv, Written, NEW t \in Callers, NEW op \in {"write", "read"}, NEW p \in Poss,
         NEW n \in Lens, Call(t, op, p, n)
  PROVE  Written'
<1> DEFINE c == [Idle EXCEPT !.st = "seek", !.op = op, !.id = calls', !.pos = p, !.len = n]
<1>1. /\ call' = [call EXCEPT ![t] = c] /\ file' = file /\ calls' = calls + 1 /\ calls \in Nat
      /\ call \in [Callers -> Request] /\ file \in Seq(Nat \X Nat)
  BY DEF Call, Inv, Typed
<1>2. c.st = "seek" /\ c.id = calls + 1 /\ c.total = 0 /\ c.failed = FALSE
  BY <1>1 DEF Idle
<1> HIDE DEF c
<1>3. call'[t] = c /\ \A u \in Callers : u # t => call'[u] = call[u]
  BY <1>1
<1>4. \A i \in 1..Len(file) : file[i][1] \in Nat /\ file[i][1] <= calls
  BY <1>1 DEF Written, Owned
<1>5. \A u \in Callers : call[u].st # "idle" => call[u].id \in 1..calls
  BY DEF Written, Owned
<1>6. \A i \in 1..Len(file) : file[i][1] <= calls'
  BY <1>1, <1>4
<1>7. \A u \in Callers : call'[u].st # "idle" => call'[u].id \in 1..calls'
  BY <1>1, <1>2, <1>3, <1>5
<1>8. \A u \in Callers : u # t /\ call'[u].st # "idle" => call'[u].id # calls + 1
  BY <1>1, <1>3, <1>5
<1>9. \A u, v \in Callers :
        u # v /\ call'[u].st # "idle" /\ call'[v].st # "idle" => call'[u].id # call'[v].id
  <2> SUFFICES ASSUME NEW u \in Callers, NEW v \in Callers, u # v,
                      call'[u].st # "idle", call'[v].st # "idle"
               PROVE  call'[u].id # call'[v].id
    OBVIOUS
  <2>1. CASE u = t
    BY <1>2, <1>3, <1>8, <2>1
  <2>2. CASE v = t
    BY <1>2, <1>3, <1>8, <2>2
  <2>3. CASE u # t /\ v # t
    BY <1>3, <2>3 DEF Written, Owned
  <2>4. QED
    BY <2>1, <2>2, <2>3
<1>10. HeldOf(c, file)
  <2>1. \A i \in 1..Len(file) : file[i][1] # c.id
    BY <1>1, <1>2, <1>4
  <2>2. Once(file, c.id, c.total)
    BY <2>1 DEF Once
  <2>3. AllThere(file, c.id, c.total) /\ InOrder(file, c.id, c.total)
    BY <1>2 DEF AllThere, InOrder
  <2>4. QED
    BY <2>2, <2>3 DEF HeldOf
<1>11. \A u \in Callers : HeldOf(call'[u], file)
  BY <1>3, <1>10 DEF Written
<1>12. QED
  BY <1>1, <1>6, <1>7, <1>9, <1>11 DEF Written, Owned

(* The steps inside chunk_write and chunk_read.                            *)
LEMMA StepKeepsWritten ==
  ASSUME Inv, Written, NEW t \in Callers, Step(t)
  PROVE  Written'
<1> DEFINE c == call[t]
<1>1. /\ call \in [Callers -> Request] /\ c \in Request /\ file \in Seq(Nat \X Nat)
      /\ Len(file) \in Nat /\ calls \in Nat
  BY DEF Inv, Typed
<1>2. \A u \in Callers : HeldOf(call[u], file)
  BY DEF Written
<1>3. ASSUME NEW d \in Request, call' = [call EXCEPT ![t] = d], UNCHANGED <<file, calls>>,
             HeldOf(d, file), d.st = "idle" \/ (c.st # "idle" /\ d.id = c.id)
      PROVE  Written'
  <2>1. call'[t] = d /\ \A u \in Callers : u # t => call'[u] = call[u]
    BY <1>1, <1>3
  <2>2. \A u \in Callers : call'[u].st = "idle" \/ (call[u].st # "idle" /\ call'[u].id = call[u].id)
    <3>1. ASSUME NEW u \in Callers, u # t
          PROVE  call'[u].st = "idle" \/ (call[u].st # "idle" /\ call'[u].id = call[u].id)
      BY <2>1, <3>1
    <3>2. QED
      BY <1>3, <2>1, <3>1
  <2>3. \A u \in Callers : HeldOf(call'[u], file)
    BY <1>2, <1>3, <2>1
  <2>4. QED
    BY <1>3, <2>2, <2>3, QuietKeepsWritten
<1>4. ASSUME NEW u \in Callers
      PROVE  LET e == [call[u] EXCEPT !.base = Lost]
             IN  /\ e.st = call[u].st /\ e.op = call[u].op /\ e.id = call[u].id
                 /\ HeldOf(e, file)
  <2> DEFINE e == [call[u] EXCEPT !.base = Lost]
  <2>1. /\ e.st = call[u].st /\ e.op = call[u].op /\ e.id = call[u].id
        /\ e.len = call[u].len /\ e.total = call[u].total
        /\ e.failed = call[u].failed
    BY <1>1 DEF Request
  <2> HIDE DEF e
  <2>2. HeldOf(call[u], file)
    BY <1>2
  <2>3. HeldOf(e, file)
    BY <2>1, <2>2, HeldStays
  <2>4. QED
    BY <2>1, <2>3 DEF e
<1>5. ASSUME NEW d \in Request, Moves(t, d), UNCHANGED <<file, calls>>,
             HeldOf(d, file), c.st # "idle" /\ d.id = c.id
      PROVE  Written'
  <2>1. call'[t] = d /\ \A u \in Callers : u # t => call'[u] = [call[u] EXCEPT !.base = Lost]
    BY <1>5 DEF Moves
  <2>2. \A u \in Callers : call'[u].st = "idle" \/ (call[u].st # "idle" /\ call'[u].id = call[u].id)
    <3>1. ASSUME NEW u \in Callers, u # t
          PROVE  call'[u].st = "idle" \/ (call[u].st # "idle" /\ call'[u].id = call[u].id)
      BY <1>4, <2>1, <3>1, Zenon
    <3>2. QED
      BY <1>5, <2>1, <3>1
  <2>3. \A u \in Callers : HeldOf(call'[u], file)
    <3>1. ASSUME NEW u \in Callers, u # t PROVE HeldOf([call[u] EXCEPT !.base = Lost], file)
      BY <1>4
    <3>2. QED
      BY <1>5, <2>1, <3>1, Zenon
  <2>4. QED
    BY <1>5, <2>2, <2>3, QuietKeepsWritten
<1>6. CASE Seek(t)
  <2> DEFINE d == [c EXCEPT !.st = "loop", !.base = off']
  <2>1. c.st = "seek" /\ UNCHANGED <<file, calls>> /\ Moves(t, d) /\ off' \in Nat
    <3>1. off' \in Nat
      BY StepKeepsInv DEF Inv, Typed
    <3>2. QED
      BY <1>6, <3>1 DEF Seek
  <2>2. /\ d \in Request /\ d.op = c.op /\ d.id = c.id /\ d.len = c.len
        /\ d.total = c.total /\ d.failed = c.failed
    BY <1>1, <2>1, Zenon DEF Request
  <2> HIDE DEF d
  <2>3. HeldOf(d, file)
    <3>1. HeldOf(c, file) /\ c.st # "idle"
      BY <1>2, <2>1
    <3> HIDE DEF c
    <3>2. QED
      BY <2>2, <3>1, HeldStays
  <2>4. QED
    BY <1>5, <2>1, <2>2, <2>3
<1>7. CASE ReadNothing(t)
  <2>1. call' = call /\ file' = file /\ calls' = calls
    BY <1>7 DEF ReadNothing, vars
  <2>2. QED
    BY <2>1 DEF Written, Owned
<1>8. CASE Fail(t)
  <2> DEFINE d == [c EXCEPT !.total = (@ - 1) % U64, !.failed = TRUE]
  <2>1. /\ c.st = "loop" /\ c.total < c.len
        /\ UNCHANGED <<file, calls>> /\ call' = [call EXCEPT ![t] = d]
    BY <1>1, <1>8, Zenon DEF Fail, Looping
  <2>2. d \in Request
    <3>1. call'[t] = d
      BY <1>1, <2>1
    <3>2. QED
      BY <3>1, StepKeepsInv DEF Inv, Typed
  <2>3. /\ d.op = c.op /\ d.id = c.id /\ d.len = c.len
        /\ d.total = (c.total - 1) % U64 /\ d.failed = TRUE
    BY <1>1 DEF Request
  <2>4. c.total \in 0..(U64 - 1) /\ c.len \in 0..(U32 - 1)
    BY <1>1, RequestFields
  <2> HIDE DEF d
  <2>5. HeldOf(d, file)
    BY <1>2, <2>1, <2>3, <2>4, HeldAfterFailure, Zenon
  <2>6. QED
    BY <1>3, <2>1, <2>2, <2>3, <2>5, Zenon
<1>9. CASE Return(t)
  <2> DEFINE d == [c EXCEPT !.st = "done"]
  <2>1. c.st = "loop" /\ UNCHANGED <<file, calls>> /\ call' = [call EXCEPT ![t] = d]
    BY <1>1, <1>9 DEF Return
  <2>2. /\ d \in Request /\ d.op = c.op /\ d.id = c.id /\ d.len = c.len
        /\ d.total = c.total /\ d.failed = c.failed
    BY <1>1, Zenon DEF Request
  <2> HIDE DEF d
  <2>3. HeldOf(d, file)
    <3>1. HeldOf(c, file) /\ c.st # "idle"
      BY <1>2, <2>1
    <3> HIDE DEF c
    <3>2. QED
      BY <2>2, <3>1, HeldStays
  <2>4. QED
    BY <1>3, <2>1, <2>2, <2>3, Zenon
<1>10. CASE Answered(t)
  <2>1. Idle.st = "idle" /\ Idle.op # "write" /\ Idle \in Request
    BY IdleIsGood DEF Idle
  <2>2. HeldOf(Idle, file)
    BY <2>1 DEF HeldOf
  <2>3. call' = [call EXCEPT ![t] = Idle] /\ UNCHANGED <<file, calls>>
    BY <1>10 DEF Answered
  <2>4. QED
    BY <1>3, <2>1, <2>2, <2>3, Zenon
<1>11. ASSUME NEW n \in 1..CHUNK_OP_LEN, ReadSome(t, n) PROVE Written'
  <2> DEFINE d == [c EXCEPT !.total = @ + n, !.buf = Stored(t, n)]
  <2>1. c.st = "loop" /\ c.op = "read" /\ UNCHANGED <<file, calls>> /\ Moves(t, d)
    BY <1>11 DEF ReadSome, Looping
  <2>2. d \in Request
    <3>1. call'[t] = d
      BY <2>1 DEF Moves
    <3>2. QED
      BY <3>1, StepKeepsInv DEF Inv, Typed
  <2>3. d.op = "read" /\ d.id = c.id
    BY <1>1, <2>1 DEF Request
  <2> HIDE DEF d
  <2>4. HeldOf(d, file)
    BY <2>3 DEF HeldOf
  <2>5. QED
    BY <1>5, <2>1, <2>2, <2>3, <2>4
<1>12. ASSUME NEW n \in 1..CHUNK_OP_LEN, WriteSome(t, n) PROVE Written'
  <2> DEFINE d == [c EXCEPT !.total = @ + n]
             bytes == [k \in 1..n |-> <<c.id, c.total + k>>]
  <2>1. /\ c.st = "loop" /\ c.op = "write" /\ c.total < c.len /\ Accepted(t) /\ n \in 1..Batch(t)
        /\ file' = file \o bytes /\ calls' = calls /\ Moves(t, d)
    BY <1>12 DEF WriteSome, Looping
  <2>2. n \in Nat /\ c.total \in Nat /\ c.id \in Nat /\ c.len \in Nat /\ c.total <= c.len
    <3>1. n \in Nat
      BY <2>1, AcceptedBatch
    <3>2. c.total \in Nat /\ c.id \in Nat /\ c.len \in Nat
      BY <1>1, SizesAssumption, RequestFields
    <3>3. QED
      BY <2>1, <3>1, <3>2
  <2>3. d.st = c.st /\ d.op = c.op /\ d.id = c.id /\ d.failed = c.failed /\ d.total = c.total + n
    BY <1>1 DEF Request
  <2>4. bytes \in Seq(Nat \X Nat) /\ Len(bytes) = n
    <3>1. \A k \in 1..n : bytes[k] \in Nat \X Nat
      BY <2>2
    <3>2. QED
      BY <2>2, <3>1
  <2>5. \A k \in 1..n : bytes[k] = <<c.id, c.total + k>>
    OBVIOUS
  <2> HIDE DEF d, bytes, c
  <2>6. /\ Len(file') = Len(file) + n
        /\ \A i \in 1..Len(file) : file'[i] = file[i]
        /\ \A k \in 1..n : file'[Len(file) + k] = bytes[k]
    <3>1. ASSUME NEW S, NEW f \in Seq(S), NEW g \in Seq(S)
          PROVE  /\ Len(f \o g) = Len(f) + Len(g)
                 /\ \A i \in 1..Len(f) : (f \o g)[i] = f[i]
                 /\ \A k \in 1..Len(g) : (f \o g)[Len(f) + k] = g[k]
      OBVIOUS
    <3>2. file \in Seq(Nat \X Nat) /\ bytes \in Seq(Nat \X Nat)
      BY <1>1, <2>4
    <3>3. /\ Len(file \o bytes) = Len(file) + Len(bytes)
          /\ \A i \in 1..Len(file) : (file \o bytes)[i] = file[i]
          /\ \A k \in 1..Len(bytes) : (file \o bytes)[Len(file) + k] = bytes[k]
      BY <3>1, <3>2
    <3>4. Len(bytes) = n /\ file' = file \o bytes
      BY <2>1, <2>4
    <3>5. QED
      BY <3>3, <3>4, Zenon
  <2>7. \A k \in 1..n : file'[Len(file) + k] = <<c.id, c.total + k>>
    BY <2>5, <2>6
  <2>8. HeldOf(d, file')
    <3>1. HeldOf(c, file)
      BY <1>2 DEF c
    <3>2. Len(file) \in Nat /\ Len(file') = Len(file) + n /\ c.st # "idle"
      BY <1>1, <2>1, <2>6
    <3>3. \A i \in 1..Len(file) : file'[i] = file[i]
      BY <2>6
    <3>4. ASSUME NEW g, Len(g) = Len(file) + n, \A i \in 1..Len(file) : g[i] = file[i],
                 \A k \in 1..n : g[Len(file) + k] = <<c.id, c.total + k>>
          PROVE  HeldOf(d, g)
      BY <2>1, <2>2, <2>3, <3>1, <3>2, <3>4, HeldOfWriter, Zenon
    <3>5. QED
      BY <2>7, <3>2, <3>3, <3>4, Zenon
  <2>9. \A i \in 1..Len(file') : i > Len(file) => file'[i][1] = c.id
    <3> SUFFICES ASSUME NEW i \in 1..Len(file'), i > Len(file) PROVE file'[i][1] = c.id
      OBVIOUS
    <3>1. i \in 1..(Len(file) + n) /\ i \notin 1..Len(file)
      BY <1>1, <2>6
    <3>2. i - Len(file) \in 1..n /\ Len(file) + (i - Len(file)) = i
      BY <1>1, <2>2, <3>1, LastPlaces
    <3>3. file'[i] = <<c.id, c.total + (i - Len(file))>>
      BY <2>7, <3>2
    <3>4. QED
      BY <3>3
  <2>10. call'[t] = d /\ \A u \in Callers : u # t => call'[u] = [call[u] EXCEPT !.base = Lost]
    BY <2>1 DEF Moves
  <2>11. ASSUME NEW u \in Callers, u # t PROVE HeldOf(call'[u], file')
    <3> DEFINE e == [call[u] EXCEPT !.base = Lost]
    <3>1. HeldOf(e, file)
      BY <1>4
    <3>2. e.st = call[u].st /\ e.id = call[u].id /\ e.op = call[u].op
      BY <1>4
    <3> HIDE DEF e
    <3>3. CASE call[u].st = "idle"
      <4>1. HeldOf(e, file')
        BY <3>2, <3>3 DEF HeldOf
      <4>2. QED
        BY <2>10, <2>11, <4>1 DEF e
    <3>4. CASE call[u].st # "idle"
      <4>1. e.id # c.id
        BY <2>1, <2>11, <3>2, <3>4 DEF Written, Owned, c
      <4>2. \A i \in 1..Len(file') : i > Len(file) => file'[i][1] # e.id
        BY <2>9, <4>1
      <4>3. Len(file') \in Nat /\ Len(file) <= Len(file')
        BY <1>1, <2>2, <2>6
      <4>4. HeldOf(e, file')
        BY <1>1, <2>6, <3>1, <4>2, <4>3, HeldOfOther, Zenon
      <4>5. QED
        BY <2>10, <2>11, <4>4 DEF e
    <3>5. QED
      BY <3>3, <3>4
  <2>12. Owned'
    <3>1. ASSUME NEW i \in 1..Len(file') PROVE file'[i][1] <= calls
      <4>1. CASE i > Len(file)
        <5>1. c.id \in 1..calls
          BY <2>1 DEF Written, Owned, c
        <5>2. QED
          BY <1>1, <2>9, <4>1, <5>1
      <4>2. CASE ~(i > Len(file))
        <5>1. i \in 1..Len(file)
          BY <1>1, <2>2, <2>6, <4>2
        <5>2. QED
          BY <2>6, <5>1 DEF Written, Owned
      <4>3. QED
        BY <4>1, <4>2
    <3>2. \A u \in Callers : call'[u].st = call[u].st /\ call'[u].id = call[u].id
      <4>1. ASSUME NEW u \in Callers, u # t
            PROVE  call'[u].st = call[u].st /\ call'[u].id = call[u].id
        BY <1>4, <2>10, <4>1, Zenon
      <4>2. QED
        BY <2>3, <2>10, <4>1 DEF c
    <3>3. QED
      BY <2>1, <3>1, <3>2 DEF Written, Owned
  <2>13. QED
    BY <2>8, <2>10, <2>11, <2>12 DEF Written
<1>13. QED
  BY <1>6, <1>7, <1>8, <1>9, <1>10, <1>11, <1>12 DEF Step

(* Every step keeps Written.                                               *)
LEMMA NextKeepsWritten == Inv /\ Written /\ [Next]_vars => Written'
<1> SUFFICES ASSUME Inv, Written, [Next]_vars PROVE Written'
  OBVIOUS
<1>1. CASE chunk_init \/ chunk_deinit \/ UNCHANGED vars
  <2>1. UNCHANGED <<file, call, calls>>
    BY <1>1 DEF chunk_init, chunk_deinit, vars
  <2>2. QED
    BY <2>1 DEF Written, Owned
<1>2. CASE \E t \in Callers : Step(t)
  BY <1>2, StepKeepsWritten
<1>3. CASE \E t \in Callers, op \in {"write", "read"}, p \in Poss, n \in Lens : Call(t, op, p, n)
  BY <1>3, CallKeepsWritten
<1>4. QED
  BY <1>1, <1>2, <1>3 DEF Next

(* Places in a file that are not none have a last one.                     *)
LEMMA LastPlace ==
  ASSUME NEW n \in Nat, NEW S \in SUBSET (1..n), S # {}
  PROVE  Max(S) \in S /\ \A x \in S : Max(S) >= x
<1> DEFINE T == {m \in Nat : \A x \in S : x <= m}
<1>1. n \in T
  OBVIOUS
<1>2. IsWellFoundedOn(OpToRel(<, Nat), Nat)
  BY NatLessThanWellFounded, Zenon
<1>3. PICK m \in T : \A k \in T : <<k, m>> \notin OpToRel(<, Nat)
  BY <1>1, <1>2, WFMin, Zenon
<1>4. \A k \in T : ~(k < m)
  BY <1>3, Zenon DEF OpToRel
<1>5. m \in S
  <2> SUFFICES ASSUME m \notin S PROVE FALSE
    OBVIOUS
  <2>1. \A x \in S : x \in 1..n /\ x <= m /\ x # m
    OBVIOUS
  <2>2. m > 0
    <3>1. PICK x \in S : TRUE
      BY Zenon
    <3>2. x \in 1..n /\ x <= m
      BY <2>1
    <3>3. QED
      BY <3>2
  <2>3. m - 1 \in T
    BY <2>1, <2>2
  <2>4. QED
    BY <1>4, <2>3
<1>6. \E y \in S : \A x \in S : y >= x
  BY <1>5
<1>7. QED
  BY <1>6, Zenon DEF Max

(* A chunk_write that returns its length has stored every byte, in order,  *)
(* whatever other writers append between its batches: once each if no      *)
(* write failed; a failed one may repeat bytes and loses none.             *)
THEOREM WritesCorrect == Spec => []WrittenInOrder
<1>1. Inv /\ Written => WrittenInOrder
  <2> SUFFICES ASSUME Inv, Written, NEW t \in Callers, Done(t, "write"),
                      Result(t) = call[t].len, NEW k \in 1..call[t].len
               PROVE  /\ Places(call[t].id, k) # {}
                      /\ ~call[t].failed => \A i, j \in Places(call[t].id, k) : i = j
                      /\ k > 1 => Max(Places(call[t].id, k - 1)) < Max(Places(call[t].id, k))
    BY DEF WrittenInOrder
  <2> DEFINE c == call[t]
             id == c.id
  <2>1. /\ c.st = "done" /\ c.op = "write" /\ c.len \in Nat /\ c.total \in Nat
        /\ U64 \in Nat /\ c.total < U64 /\ Len(file) \in Nat
    <3>1. c \in Request /\ Len(file) \in Nat
      BY DEF Inv, Typed
    <3>2. c.len \in 0..(U32 - 1) /\ c.total \in 0..(U64 - 1)
      BY <3>1, RequestFields
    <3>3. QED
      BY <3>1, <3>2, SizesAssumption DEF Done
  <2>2. c.total = c.len
    BY <2>1 DEF Result
  <2>3. HeldOf(c, file)
    BY DEF Written
  <2>4. k \in 1..c.total
    BY <2>2
  <2> HIDE DEF c
  <2>5. AllThere(file, id, c.total) /\ InOrder(file, id, c.total) /\ (~c.failed => Once(file, id, c.total))
    BY <2>1, <2>2, <2>3 DEF HeldOf
  <2>6. \A m : Places(id, m) = {i \in 1..Len(file) : file[i] = <<id, m>>}
    BY DEF Places
  <2> HIDE DEF id
  <2>7. \A m \in 1..c.total : Places(id, m) # {}
    <3> SUFFICES ASSUME NEW m \in 1..c.total PROVE Places(id, m) # {}
      OBVIOUS
    <3>1. PICK j \in 1..Len(file) : file[j] = <<id, m>>
      BY <2>5, Zenon DEF AllThere, Behind
    <3>2. QED
      BY <2>6, <3>1, Zenon
  <2>8. ASSUME ~c.failed, NEW i \in Places(id, k), NEW j \in Places(id, k) PROVE i = j
    <3>1. i \in 1..Len(file) /\ j \in 1..Len(file) /\ file[i] = <<id, k>> /\ file[j] = <<id, k>>
      BY <2>6
    <3>2. file[j][1] = id
      BY <3>1
    <3>3. QED
      BY <2>5, <2>8, <3>1, <3>2 DEF Once
  <2>9. ASSUME k > 1 PROVE Max(Places(id, k - 1)) < Max(Places(id, k))
    <3>1. k - 1 \in 1..c.total /\ k \in 2..c.total
      BY <2>1, <2>4, <2>9
    <3> DEFINE P == Places(id, k - 1)
               Q == Places(id, k)
    <3>2. P # {} /\ Q # {} /\ P \in SUBSET (1..Len(file)) /\ Q \in SUBSET (1..Len(file))
      BY <2>4, <2>6, <2>7, <3>1
    <3>3. Max(P) \in 1..Len(file) /\ file[Max(P)] = <<id, k - 1>>
      <4>1. Max(P) \in P
        BY <2>1, <3>2, LastPlace, Zenon
      <4>2. QED
        BY <2>6, <4>1
    <3>4. Behind(file, id, k, Max(P))
      BY <2>5, <3>1, <3>3 DEF InOrder
    <3>5. PICK j \in 1..Len(file) : Max(P) < j /\ file[j] = <<id, k>>
      BY <3>4 DEF Behind
    <3>6. j \in Q
      BY <2>6, <3>5
    <3>7. Max(Q) >= j /\ Max(Q) \in Q
      BY <2>1, <3>2, <3>6, LastPlace, Zenon
    <3>8. Max(Q) \in Nat /\ Max(P) \in Nat /\ j \in Nat
      BY <3>2, <3>3, <3>7
    <3> HIDE DEF P, Q
    <3>9. Max(P) < Max(Q)
      BY <3>5, <3>7, <3>8
    <3>10. QED
      BY <3>9 DEF P, Q
  <2>10. QED
    BY <2>4, <2>7, <2>8, <2>9 DEF c, id
<1>2. QED
  BY <1>1, InvHolds, InitWritten, NextKeepsWritten, PTL DEF Spec
=============================================================================
