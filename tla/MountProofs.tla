---------------------------- MODULE MountProofs -----------------------------
(***************************************************************************)
(* Proofs about Mount, for every number of threads and requests and every  *)
(* set of disks laid out as ext4 lays them out.                            *)
(***************************************************************************)
EXTENDS Mount, SequenceTheorems, TLAPS

(* What a thread can be asked to do.                                       *)
Ops ==
  ({"lock", "unlock"} \X {"log", "read"}) \cup ({"write"} \X {"prefix", "text", "newline"})
    \cup ({"pread"} \X Int \X Int) \cup {<<"check">>, <<"abort">>}

(* How far into the section of __LOG a thread has to be before it does o,  *)
(* and how far it is after.                                                *)
Before(o) ==
  IF o = <<"write", "prefix">> THEN 1 ELSE IF o = <<"write", "text">> THEN 2
  ELSE IF o = <<"write", "newline">> THEN 3 ELSE IF o = <<"unlock", "log">> THEN 4 ELSE 0
After(o) ==
  IF o = <<"lock", "log">> THEN 1 ELSE IF o = <<"write", "prefix">> THEN 2
  ELSE IF o = <<"write", "text">> THEN 3 ELSE IF o = <<"write", "newline">> THEN 4 ELSE 0

Pos(s) == IF s = <<>> THEN 0 ELSE Before(s[1])
Chained(s) ==
  /\ \A i \in 1..Len(s) : i < Len(s) => Before(s[i + 1]) = After(s[i])
  /\ s # <<>> => After(s[Len(s)]) = 0

(* What calls unfold to: whole sections of the log only.                   *)
Closed(s) == s \in Seq(Ops) /\ Chained(s) /\ Pos(s) = 0

(* Calls that only log.                                                    *)
Quiet(s) == Closed(s) /\ \A i \in 1..Len(s) : s[i][1] \in {"lock", "unlock", "write"}

(* Calls that end in the reading of z bytes at w.                          *)
ReadCall(s, w, z) ==
  /\ Closed(s) /\ s # <<>> /\ s[Len(s)] = <<"check">>
  /\ \A i \in 1..Len(s) : i < Len(s) => s[i][1] \in {"lock", "unlock", "write", "pread"}
  /\ \A i \in 1..Len(s) : s[i][1] = "pread" => s[i][2] = w /\ s[i][3] = z
  /\ \E i \in 1..Len(s) : s[i][1] = "pread"

(* Calls that end in a failed assertion.                                   *)
AbortCall(s) ==
  /\ Closed(s) /\ s # <<>> /\ s[Len(s)] = <<"abort">>
  /\ \A i \in 1..Len(s) : i < Len(s) => s[i][1] \in {"lock", "unlock", "write"}

-----------------------------------------------------------------------------
(* Calls one after the other are whole sections again.                     *)
LEMMA ClosedConcat ==
  ASSUME NEW s, NEW r, Closed(s), Closed(r)
  PROVE  Closed(s \o r)
<1>1. s \in Seq(Ops) /\ r \in Seq(Ops)
  BY DEF Closed
<1>2. /\ s \o r \in Seq(Ops) /\ Len(s \o r) = Len(s) + Len(r)
      /\ \A i \in 1..Len(s) : (s \o r)[i] = s[i]
      /\ \A i \in 1..Len(r) : (s \o r)[Len(s) + i] = r[i]
      /\ Len(s) \in Nat /\ Len(r) \in Nat
      /\ s = <<>> <=> Len(s) = 0
      /\ r = <<>> <=> Len(r) = 0
      /\ (s \o r) = <<>> <=> Len(s \o r) = 0
  BY <1>1
<1>3. Pos(s \o r) = 0
  <2>1. CASE s = <<>>
    <3>1. CASE r = <<>>
      BY <1>2, <2>1, <3>1 DEF Pos
    <3>2. CASE r # <<>>
      <4>1. (s \o r)[1] = r[1]
        BY <1>2, <2>1, <3>2
      <4> QED
        BY <4>1, <1>2, <3>2 DEF Pos, Closed
    <3> QED
      BY <3>1, <3>2
  <2>2. CASE s # <<>>
    <3>1. (s \o r)[1] = s[1]
      BY <1>2, <2>2
    <3> QED
      BY <3>1, <1>2, <2>2 DEF Pos, Closed
  <2> QED
    BY <2>1, <2>2
<1>4. ASSUME NEW i \in 1..Len(s \o r), i < Len(s \o r)
      PROVE  Before((s \o r)[i + 1]) = After((s \o r)[i])
  <2>1. CASE i < Len(s)
    <3>1. (s \o r)[i] = s[i] /\ (s \o r)[i + 1] = s[i + 1] /\ i \in 1..Len(s)
      BY <1>2, <2>1
    <3> QED
      BY <3>1, <2>1 DEF Closed, Chained
  <2>2. CASE i = Len(s)
    <3>1. (s \o r)[i] = s[i] /\ (s \o r)[i + 1] = r[1] /\ s # <<>> /\ r # <<>>
      BY <1>2, <2>2, <1>4
    <3> QED
      BY <3>1, <2>2 DEF Closed, Chained, Pos
  <2>3. CASE i > Len(s)
    <3> DEFINE j == i - Len(s)
    <3>1. j \in 1..Len(r) /\ j < Len(r) /\ i = Len(s) + j /\ i + 1 = Len(s) + (j + 1)
      BY <1>2, <2>3, <1>4
    <3>2. (s \o r)[i] = r[j] /\ (s \o r)[i + 1] = r[j + 1]
      BY <1>2, <3>1
    <3> HIDE DEF j
    <3> QED
      BY <3>1, <3>2 DEF Closed, Chained
  <2>4. i < Len(s) \/ i = Len(s) \/ i > Len(s)
    BY <1>2
  <2> QED
    BY <2>1, <2>2, <2>3, <2>4, Zenon
<1>5. ASSUME s \o r # <<>>
      PROVE  After((s \o r)[Len(s \o r)]) = 0
  <2>1. CASE r = <<>>
    <3>1. s # <<>> /\ (s \o r)[Len(s \o r)] = s[Len(s)]
      BY <1>2, <1>5, <2>1
    <3> QED
      BY <3>1 DEF Closed, Chained
  <2>2. CASE r # <<>>
    <3>1. (s \o r)[Len(s \o r)] = r[Len(r)]
      BY <1>2, <2>2
    <3> QED
      BY <3>1, <2>2 DEF Closed, Chained
  <2> QED
    BY <2>1, <2>2, Zenon
<1> QED
  BY <1>2, <1>3, <1>4, <1>5 DEF Closed, Chained

(* An operation outside the section of the log is a call of its own.       *)
LEMMA SingleClosed ==
  ASSUME NEW o \in Ops, Before(o) = 0, After(o) = 0
  PROVE  Closed(<<o>>)
<1>1. <<o>> \in Seq(Ops) /\ Len(<<o>>) = 1 /\ <<o>>[1] = o /\ <<o>> # <<>>
  OBVIOUS
<1> DEFINE s == <<o>>
<1>2. s \in Seq(Ops) /\ Len(s) = 1 /\ s[1] = o /\ s # <<>>
  BY <1>1
<1> HIDE DEF s
<1>3. Closed(s)
  BY <1>2 DEF Closed, Chained, Pos
<1> QED
  BY <1>3 DEF s

(* Logging after logging is logging.                                       *)
LEMMA QuietConcat ==
  ASSUME NEW s, NEW r, Quiet(s), Quiet(r)
  PROVE  Quiet(s \o r)
<1>1. Closed(s \o r)
  BY ClosedConcat DEF Quiet
<1>2. s \in Seq(Ops) /\ r \in Seq(Ops)
  BY DEF Quiet, Closed
<1>3. ASSUME NEW i \in 1..Len(s \o r)
      PROVE  (s \o r)[i][1] \in {"lock", "unlock", "write"}
  <2>1. \/ i \in 1..Len(s) /\ (s \o r)[i] = s[i]
        \/ (i - Len(s)) \in 1..Len(r) /\ (s \o r)[i] = r[i - Len(s)]
    BY <1>2
  <2> QED
    BY <2>1 DEF Quiet
<1> QED
  BY <1>1, <1>3 DEF Quiet

(* What a concatenation is made of.                                        *)
LEMMA Joined ==
  ASSUME NEW S, NEW s \in Seq(S), NEW r \in Seq(S)
  PROVE  /\ s \o r \in Seq(S) /\ Len(s \o r) = Len(s) + Len(r)
         /\ \A i \in 1..Len(s) : (s \o r)[i] = s[i]
         /\ \A i \in 1..Len(r) : (s \o r)[Len(s) + i] = r[i]
         /\ Len(s) \in Nat /\ Len(r) \in Nat
  OBVIOUS

(* One operation, three, one.                                              *)
LEMMA FiveOps ==
  ASSUME NEW S, NEW A \in Seq(S), NEW W \in Seq(S), NEW E \in Seq(S)
  PROVE  Len(A) = 1 /\ Len(W) = 3 /\ Len(E) = 1 =>
         /\ A \o W \o E \in Seq(S) /\ Len(A \o W \o E) = 5
         /\ (A \o W \o E)[1] = A[1] /\ (A \o W \o E)[2] = W[1] /\ (A \o W \o E)[3] = W[2]
         /\ (A \o W \o E)[4] = W[3] /\ (A \o W \o E)[5] = E[1]
<1> DEFINE M == A \o W
           L == M \o E
<1>1. /\ M \in Seq(S) /\ Len(M) = Len(A) + Len(W)
      /\ \A i \in 1..Len(A) : M[i] = A[i]
      /\ \A i \in 1..Len(W) : M[Len(A) + i] = W[i]
  OBVIOUS
<1> HIDE DEF M
<1>6. M \in Seq(S)
  BY <1>1
<1>2. /\ L \in Seq(S) /\ Len(L) = Len(M) + Len(E)
      /\ \A i \in 1..Len(M) : L[i] = M[i]
      /\ \A i \in 1..Len(E) : L[Len(M) + i] = E[i]
  BY <1>6
<1> HIDE DEF L
<1> SUFFICES ASSUME Len(A) = 1, Len(W) = 3, Len(E) = 1
             PROVE  /\ L \in Seq(S) /\ Len(L) = 5
                    /\ L[1] = A[1] /\ L[2] = W[1] /\ L[3] = W[2] /\ L[4] = W[3] /\ L[5] = E[1]
  BY DEF L, M
<1>3. Len(M) = 4 /\ M[1] = A[1] /\ M[2] = W[1] /\ M[3] = W[2] /\ M[4] = W[3]
  BY <1>1
<1>4. Len(L) = 5 /\ L[1] = M[1] /\ L[2] = M[2] /\ L[3] = M[3] /\ L[4] = M[4] /\ L[5] = E[1]
  BY <1>2, <1>3
<1> QED
  BY <1>2, <1>3, <1>4

(* __LOG locks, writes the three parts of a line and unlocks.              *)
LEMMA LogQuiet == Quiet(LOG)
<1> DEFINE W == [k \in 1..3 |-> <<"write", Parts[k]>>]
           L == Lock("log") \o W \o Unlock("log")
<1>1. /\ Parts[1] = "prefix" /\ Parts[2] = "text" /\ Parts[3] = "newline"
  BY DEF Parts
<1>2. /\ W[1] = <<"write", "prefix">> /\ W[2] = <<"write", "text">>
      /\ W[3] = <<"write", "newline">>
  BY <1>1
<1>3. \A k \in 1..3 : <<"write", Parts[k]>> \in Ops
  BY <1>1 DEF Ops
<1>4. W \in Seq(Ops) /\ Len(W) = 3
  BY <1>3
<1> HIDE DEF W
<1> DEFINE A == Lock("log")
           E == Unlock("log")
<1>5. /\ A \in Seq(Ops) /\ Len(A) = 1 /\ A[1] = <<"lock", "log">>
      /\ E \in Seq(Ops) /\ Len(E) = 1 /\ E[1] = <<"unlock", "log">>
  BY DEF Lock, Unlock, Ops
<1>6. L = A \o W \o E
  OBVIOUS
<1> HIDE DEF L, A, E
<1>7. /\ L \in Seq(Ops) /\ Len(L) = 5 /\ L # <<>>
      /\ L[1] = <<"lock", "log">> /\ L[2] = <<"write", "prefix">> /\ L[3] = <<"write", "text">>
      /\ L[4] = <<"write", "newline">> /\ L[5] = <<"unlock", "log">>
  <2>1. /\ L \in Seq(Ops) /\ Len(L) = 5
        /\ L[1] = A[1] /\ L[2] = W[1] /\ L[3] = W[2] /\ L[4] = W[3] /\ L[5] = E[1]
    BY <1>4, <1>5, <1>6, FiveOps
  <2> QED
    BY <2>1, <1>2, <1>5
<1>8. Closed(L)
  <2>1. Pos(L) = 0
    BY <1>7 DEF Pos, Before
  <2>2. /\ Before(L[2]) = After(L[1]) /\ Before(L[3]) = After(L[2]) /\ Before(L[4]) = After(L[3])
        /\ Before(L[5]) = After(L[4]) /\ After(L[5]) = 0
    BY <1>7 DEF Before, After
  <2>3. ASSUME NEW i \in 1..Len(L), i < Len(L)
        PROVE  Before(L[i + 1]) = After(L[i])
    <3>1. Len(L) = 5
      BY <1>7
    <3>2. i = 1 \/ i = 2 \/ i = 3 \/ i = 4
      BY <2>3, <3>1
    <3> QED
      BY <2>2, <3>2
  <2>4. After(L[Len(L)]) = 0 /\ L \in Seq(Ops)
    BY <1>7, <2>2
  <2> QED
    BY <2>1, <2>3, <2>4 DEF Closed, Chained
<1>9. Quiet(L)
  <2>1. \A i \in 1..Len(L) : i = 1 \/ i = 2 \/ i = 3 \/ i = 4 \/ i = 5
    BY <1>7
  <2>2. \A i \in 1..Len(L) : L[i][1] \in {"lock", "unlock", "write"}
    BY <1>7, <2>1
  <2> QED
    BY <1>8, <2>2 DEF Quiet
<1>10. Quiet(<<>>)
  BY DEF Quiet, Closed, Chained, Pos
<1> QED
  BY <1>9, <1>10 DEF LOG, L, W

(* Logging and then reading is a reading.                                  *)
LEMMA QuietThenRead ==
  ASSUME NEW s, NEW r, NEW w, NEW z, Quiet(s), ReadCall(r, w, z)
  PROVE  ReadCall(s \o r, w, z)
<1>1. s \in Seq(Ops) /\ r \in Seq(Ops) /\ r # <<>>
  BY DEF Quiet, ReadCall, Closed
<1>2. Closed(s \o r)
  BY ClosedConcat DEF Quiet, ReadCall
<1>3. /\ s \o r \in Seq(Ops) /\ Len(s \o r) = Len(s) + Len(r)
      /\ \A i \in 1..Len(s) : (s \o r)[i] = s[i]
      /\ \A i \in 1..Len(r) : (s \o r)[Len(s) + i] = r[i]
      /\ Len(s) \in Nat /\ Len(r) \in Nat
  BY <1>1, Joined
<1>4. Len(r) > 0 /\ s \o r # <<>>
  BY <1>1, <1>3
<1> DEFINE c == s \o r
<1> HIDE DEF c
<1>5. c[Len(c)] = <<"check">>
  <2>1. c[Len(c)] = r[Len(r)]
    BY <1>3, <1>4 DEF c
  <2> QED
    BY <2>1 DEF ReadCall
<1>6. ASSUME NEW i \in 1..Len(c)
      PROVE  \/ i \in 1..Len(s) /\ c[i] = s[i]
             \/ i - Len(s) \in 1..Len(r) /\ c[i] = r[i - Len(s)]
  <2>1. i \in 1..Len(s) \/ (i - Len(s) \in 1..Len(r) /\ i = Len(s) + (i - Len(s)))
    BY <1>3 DEF c
  <2> QED
    BY <2>1, <1>3 DEF c
<1>7. ASSUME NEW i \in 1..Len(c), i < Len(c)
      PROVE  c[i][1] \in {"lock", "unlock", "write", "pread"}
  <2>1. CASE i \in 1..Len(s) /\ c[i] = s[i]
    BY <2>1 DEF Quiet
  <2>2. CASE i - Len(s) \in 1..Len(r) /\ c[i] = r[i - Len(s)]
    <3>1. i - Len(s) < Len(r)
      BY <1>3, <1>7 DEF c
    <3> QED
      BY <2>2, <3>1 DEF ReadCall
  <2> QED
    BY <1>6, <2>1, <2>2
<1>8. ASSUME NEW i \in 1..Len(c), c[i][1] = "pread"
      PROVE  c[i][2] = w /\ c[i][3] = z
  <2>1. CASE i \in 1..Len(s) /\ c[i] = s[i]
    BY <1>8, <2>1 DEF Quiet
  <2>2. CASE i - Len(s) \in 1..Len(r) /\ c[i] = r[i - Len(s)]
    BY <1>8, <2>2 DEF ReadCall
  <2> QED
    BY <1>6, <2>1, <2>2
<1>9. \E i \in 1..Len(c) : c[i][1] = "pread"
  <2>1. PICK i \in 1..Len(r) : r[i][1] = "pread"
    BY DEF ReadCall
  <2>2. Len(s) + i \in 1..Len(c) /\ c[Len(s) + i] = r[i]
    BY <1>3 DEF c
  <2> QED
    BY <2>1, <2>2
<1> QED
  BY <1>2, <1>4, <1>5, <1>7, <1>8, <1>9 DEF c, ReadCall

(* Operations followed by others.                                          *)
LEMMA TwoOps ==
  ASSUME NEW A \in Seq(Ops), NEW B \in Seq(Ops)
  PROVE  /\ A \o B \in Seq(Ops) /\ Len(A \o B) = Len(A) + Len(B)
         /\ \A i \in 1..Len(A) : (A \o B)[i] = A[i]
         /\ \A i \in 1..Len(B) : (A \o B)[Len(A) + i] = B[i]
  OBVIOUS

(* It does not matter how the calls of operations are grouped.             *)
LEMMA OpsAssociative ==
  ASSUME NEW A \in Seq(Ops), NEW B \in Seq(Ops), NEW C \in Seq(Ops)
  PROVE  (A \o B) \o C = A \o (B \o C)
  BY ConcatAssociative, SMTT(20)

(* __disk_read logs under its lock, reads once, unlocks and then checks.   *)
LEMMA DiskReadCall ==
  ASSUME NEW w \in Int, NEW z \in Int
  PROVE  ReadCall(disk_read(w, z), w, z)
<1> DEFINE K == Lock("read")
           P == <<<<"pread", w, z>>>>
           U == Unlock("read")
           C == <<<<"check">>>>
           r == P \o U \o C
<1>1. /\ <<"lock", "read">> \in Ops /\ <<"unlock", "read">> \in Ops /\ <<"check">> \in Ops
      /\ <<"pread", w, z>> \in Ops
  BY DEF Ops
<1>2. /\ Before(<<"lock", "read">>) = 0 /\ After(<<"lock", "read">>) = 0
      /\ Before(<<"unlock", "read">>) = 0 /\ After(<<"unlock", "read">>) = 0
      /\ Before(<<"check">>) = 0 /\ After(<<"check">>) = 0
      /\ Before(<<"pread", w, z>>) = 0 /\ After(<<"pread", w, z>>) = 0
  BY DEF Before, After
<1>3. /\ Closed(K) /\ Closed(P) /\ Closed(U) /\ Closed(C)
  BY <1>1, <1>2, SingleClosed DEF Lock, Unlock
<1>4. /\ Len(K) = 1 /\ K[1] = <<"lock", "read">> /\ Len(P) = 1 /\ P[1] = <<"pread", w, z>>
      /\ Len(U) = 1 /\ U[1] = <<"unlock", "read">> /\ Len(C) = 1 /\ C[1] = <<"check">>
  BY DEF Lock, Unlock
<1>5. disk_read(w, z) = K \o LOG \o P \o U \o C
  BY DEF disk_read
<1> HIDE DEF K, P, U, C
<1>6. /\ K \in Seq(Ops) /\ P \in Seq(Ops) /\ U \in Seq(Ops) /\ C \in Seq(Ops)
      /\ LOG \in Seq(Ops)
  BY <1>3, LogQuiet DEF Closed, Quiet
<1>7. Quiet(K \o LOG)
  <2>1. Quiet(K)
    BY <1>3, <1>4 DEF Quiet
  <2> QED
    BY <2>1, LogQuiet, QuietConcat
<1>8. ReadCall(r, w, z)
  <2>1. Closed(r)
    BY <1>3, ClosedConcat
  <2>2. r \in Seq(Ops) /\ Len(r) = 3 /\ r[1] = P[1] /\ r[2] = U[1] /\ r[3] = C[1]
    <3>1. Len(P) = 1 /\ Len(U) = 1 /\ Len(C) = 1
      BY <1>4
    <3>2. P \in Seq(Ops) /\ U \in Seq(Ops) /\ C \in Seq(Ops)
      BY <1>6
    <3> DEFINE M == P \o U
               L == M \o C
    <3>3. /\ M \in Seq(Ops) /\ Len(M) = Len(P) + Len(U)
          /\ \A i \in 1..Len(P) : M[i] = P[i]
          /\ \A i \in 1..Len(U) : M[Len(P) + i] = U[i]
      BY <3>2, TwoOps, Zenon
    <3>4. r = L
      OBVIOUS
    <3> HIDE DEF r, M
    <3>5. /\ L \in Seq(Ops) /\ Len(L) = Len(M) + Len(C)
          /\ \A i \in 1..Len(M) : L[i] = M[i]
          /\ \A i \in 1..Len(C) : L[Len(M) + i] = C[i]
      BY <3>2, <3>3, TwoOps, Zenon
    <3> HIDE DEF L
    <3>6. Len(M) = 2 /\ M[1] = P[1] /\ M[2] = U[1]
      BY <3>1, <3>3
    <3>7. Len(L) = 3 /\ L[1] = M[1] /\ L[2] = M[2] /\ L[3] = C[1]
      BY <3>1, <3>5, <3>6
    <3> QED
      BY <3>4, <3>5, <3>6, <3>7, Zenon
  <2> HIDE DEF r
  <2>3. /\ Len(r) = 3 /\ r # <<>> /\ r[1] = <<"pread", w, z>>
        /\ r[2] = <<"unlock", "read">> /\ r[3] = <<"check">>
    BY <2>2, <1>4
  <2>4. \A i \in 1..Len(r) : i = 1 \/ i = 2 \/ i = 3
    BY <2>3
  <2> QED
    BY <2>1, <2>3, <2>4 DEF ReadCall
<1>9. disk_read(w, z) = (K \o LOG) \o r
  <2> DEFINE Q == K \o LOG
  <2>1. Q \in Seq(Ops)
    BY <1>7 DEF Quiet, Closed
  <2> HIDE DEF Q
  <2>2. (Q \o P) \o U = Q \o (P \o U)
    BY <1>6, <2>1, OpsAssociative, Zenon
  <2>3. P \o U \in Seq(Ops)
    BY <1>6
  <2>4. (Q \o (P \o U)) \o C = Q \o ((P \o U) \o C)
    <3> DEFINE V == P \o U
    <3>1. V \in Seq(Ops) /\ C \in Seq(Ops)
      BY <1>6, <2>3
    <3> HIDE DEF V
    <3>2. (Q \o V) \o C = Q \o (V \o C)
      BY <2>1, <3>1, OpsAssociative
    <3> QED
      BY <3>2 DEF V
  <2> QED
    BY <1>5, <2>2, <2>4 DEF Q
<1> HIDE DEF r
<1> QED
  BY <1>7, <1>8, <1>9, QuietThenRead

(* A failed assertion is logged before the process aborts.                 *)
LEMMA AssertFailsCall == AbortCall(ASSERT_FAILS)
<1> DEFINE A == <<<<"abort">>>>
           c == LOG \o A
<1>1. Closed(A) /\ A \in Seq(Ops) /\ Len(A) = 1 /\ A[1] = <<"abort">>
  <2>1. <<"abort">> \in Ops /\ Before(<<"abort">>) = 0 /\ After(<<"abort">>) = 0
    BY DEF Ops, Before, After
  <2>2. Closed(A)
    BY <2>1, SingleClosed
  <2> QED
    BY <2>2 DEF Closed
<1> HIDE DEF A
<1>2. Closed(LOG) /\ LOG \in Seq(Ops)
  BY LogQuiet DEF Quiet, Closed
<1>3. Closed(c)
  BY <1>1, <1>2, ClosedConcat
<1>4. /\ c \in Seq(Ops) /\ Len(c) = Len(LOG) + Len(A)
      /\ \A i \in 1..Len(LOG) : c[i] = LOG[i]
      /\ \A i \in 1..Len(A) : c[Len(LOG) + i] = A[i]
      /\ Len(LOG) \in Nat
  BY <1>1, <1>2, Joined
<1> HIDE DEF c
<1>5. Len(c) = Len(LOG) + 1 /\ c[Len(c)] = <<"abort">> /\ c # <<>>
  BY <1>1, <1>4
<1>6. ASSUME NEW i \in 1..Len(c), i < Len(c)
      PROVE  c[i][1] \in {"lock", "unlock", "write"}
  <2>1. i \in 1..Len(LOG)
    BY <1>4, <1>5, <1>6
  <2> QED
    BY <2>1, <1>4, LogQuiet DEF Quiet
<1>7. AbortCall(c)
  BY <1>3, <1>5, <1>6 DEF AbortCall
<1> QED
  BY <1>7 DEF ASSERT_FAILS, c, A

(* What is left of a thread's work after its first operation.              *)
LEMMA TailOf ==
  ASSUME NEW s \in Seq(Ops), s # <<>>
  PROVE  /\ Tail(s) \in Seq(Ops) /\ Len(Tail(s)) = Len(s) - 1 /\ Len(s) \in Nat \ {0}
         /\ \A i \in 1..(Len(s) - 1) : Tail(s)[i] = s[i + 1]
         /\ Head(s) = s[1] /\ s[1] \in Ops
         /\ Tail(s) = <<>> <=> Len(s) = 1
<1>1. Len(s) \in Nat \ {0} /\ Head(s) = s[1] /\ s[1] \in Ops
  OBVIOUS
<1>2. /\ Tail(s) \in Seq(Ops) /\ Len(Tail(s)) = Len(s) - 1
      /\ \A i \in 1..Len(Tail(s)) : Tail(s)[i] = s[i + 1]
  BY HeadTailProperties
<1> DEFINE r == Tail(s)
<1> HIDE DEF r
<1>3. r \in Seq(Ops) /\ Len(r) = Len(s) - 1 /\ \A i \in 1..Len(r) : r[i] = s[i + 1]
  BY <1>2 DEF r
<1>4. r = <<>> <=> Len(r) = 0
  BY <1>3
<1>5. /\ r \in Seq(Ops) /\ Len(r) = Len(s) - 1 /\ Len(s) \in Nat \ {0}
      /\ \A i \in 1..(Len(s) - 1) : r[i] = s[i + 1]
      /\ Head(s) = s[1] /\ s[1] \in Ops
      /\ r = <<>> <=> Len(s) = 1
  BY <1>1, <1>3, <1>4
<1> QED
  BY <1>5 DEF r

(* What is left to do after an operation goes on where it has led.         *)
LEMMA TailChained ==
  ASSUME NEW s \in Seq(Ops), s # <<>>, Chained(s)
  PROVE  Chained(Tail(s)) /\ Pos(Tail(s)) = After(s[1])
<1> DEFINE r == Tail(s)
<1>1. /\ r \in Seq(Ops) /\ Len(r) = Len(s) - 1 /\ Len(s) \in Nat \ {0}
      /\ \A i \in 1..(Len(s) - 1) : r[i] = s[i + 1]
      /\ r = <<>> <=> Len(s) = 1
  BY TailOf
<1> HIDE DEF r
<1>2. ASSUME NEW i \in 1..Len(r), i < Len(r)
      PROVE  Before(r[i + 1]) = After(r[i])
  <2>1. r[i] = s[i + 1] /\ r[i + 1] = s[(i + 1) + 1] /\ i + 1 \in 1..Len(s) /\ i + 1 < Len(s)
    BY <1>1, <1>2
  <2> QED
    BY <2>1 DEF Chained
<1>3. ASSUME r # <<>>
      PROVE  After(r[Len(r)]) = 0
  <2>1. r[Len(r)] = s[Len(s)]
    BY <1>1, <1>3
  <2> QED
    BY <2>1 DEF Chained
<1>4. Pos(r) = After(s[1])
  <2>1. CASE r = <<>>
    BY <1>1, <2>1, Zenon DEF Pos, Chained
  <2>2. CASE r # <<>>
    <3>1. r[1] = s[1 + 1] /\ 1 \in 1..Len(s) /\ 1 < Len(s)
      BY <1>1, <2>2
    <3>2. Before(s[1 + 1]) = After(s[1])
      BY <3>1 DEF Chained
    <3> QED
      BY <2>2, <3>1, <3>2 DEF Pos
  <2> QED
    BY <2>1, <2>2
<1>5. Chained(r)
  BY <1>2, <1>3 DEF Chained
<1> QED
  BY <1>4, <1>5 DEF r

-----------------------------------------------------------------------------
(* The places of an ext4 disk.  Division with remainder first.             *)
LEMMA DivMod ==
  ASSUME NEW b \in Nat \ {0}, NEW a \in Nat
  PROVE  /\ a = b * (a \div b) + (a % b)
         /\ a \div b \in Nat
         /\ a % b \in 0..(b - 1)
  OBVIOUS

(* A larger number of blocks has at least one block of bytes more.         *)
LEMMA BlocksApart ==
  ASSUME NEW b \in Nat \ {0}, NEW x \in Int, NEW y \in Int, x < y
  PROVE  b * x + b <= b * y
  <1>1. y - x - 1 \in Nat
    OBVIOUS
  <1>2. b * (y - x - 1) >= 0
    BY <1>1
  <1>3. b * (y - x - 1) = b * y - b * x - b
    OBVIOUS
  <1> QED  BY <1>2, <1>3

(* The block and the place in it of a byte.                                *)
LEMMA DivSum ==
  ASSUME NEW b \in Nat \ {0}, NEW q \in Nat, NEW r \in 0..(b - 1)
  PROVE  (b * q + r) \div b = q /\ (b * q + r) % b = r
  <1> DEFINE a == b * q + r
             s == a \div b
             m == a % b
  <1>1. a \in Nat
    OBVIOUS
  <1>2. a = b * s + m /\ s \in Nat /\ m \in 0..(b - 1)
    <2> HIDE DEF a
    <2> QED  BY <1>1, DivMod, Zenon
  <1>3. b * s + m = b * q + r
    BY <1>2
  <1> HIDE DEF s, m, a
  <1>4. ~(s < q)
    BY <1>2, <1>3, BlocksApart
  <1>5. ~(q < s)
    BY <1>2, <1>3, BlocksApart
  <1>6. s = q
    BY <1>2, <1>4, <1>5
  <1>7. m = r
    <2>1. b * q \in Nat
      OBVIOUS
    <2> QED  BY <1>2, <1>3, <1>6, <2>1
  <1> QED  BY <1>6, <1>7 DEF s, m, a

-----------------------------------------------------------------------------
(* The numbers of a super block.                                           *)
LEMMA Numbers ==
  ASSUME NEW d, Geometry(d)
  PROVE  LET s == d.super
             bs == super_block_size(d.super)
         IN  /\ bs \in Nat /\ (bs = 1024 \/ bs >= 2048)
             /\ d.first_data_block = IF bs = 1024 THEN 1 ELSE 0
             /\ DescSize(s) \in {32, 64} /\ DescSize(s) = super_group_desc_size(s)
             /\ s.s_inode_size \in Nat /\ s.s_inode_size >= 128
             /\ inode_bytes(s) \in 128..156 /\ inode_bytes(s) <= s.s_inode_size
             /\ s.s_inodes_per_group \in Nat \ {0}
             /\ s.s_blocks_count_lo \in Nat
             /\ d.tables \in Seq(Nat) /\ Len(d.tables) \in Nat
             /\ DOMAIN d.tables = 1..Len(d.tables)
<1> DEFINE s == d.super
           bs == super_block_size(d.super)
<1>1. /\ bs \in Nat /\ (bs = 1024 \/ bs >= 2048)
      /\ d.first_data_block = (IF bs = 1024 THEN 1 ELSE 0)
      /\ s.s_desc_size \in {0, 64}
      /\ s.s_inode_size \in Nat /\ s.s_inode_size >= 128
      /\ s.s_inodes_per_group \in Nat \ {0} /\ s.s_blocks_count_lo \in Nat
      /\ d.tables \in Seq(Nat)
  BY DEF Geometry
<1>2. DescSize(s) \in {32, 64} /\ DescSize(s) = super_group_desc_size(s)
  BY <1>1 DEF DescSize, super_group_desc_size, sizeof, GROUP_DESC_MIN_SIZE
<1>3. inode_bytes(s) = IF s.s_inode_size < 156 THEN s.s_inode_size ELSE 156
  BY DEF inode_bytes, sizeof
<1>4. inode_bytes(s) \in 128..156 /\ inode_bytes(s) <= s.s_inode_size
  <2> DEFINE z == s.s_inode_size
             y == inode_bytes(s)
  <2>1. z \in Nat /\ z >= 128 /\ y = IF z < 156 THEN z ELSE 156
    BY <1>1, <1>3
  <2> HIDE DEF z, y
  <2>2. y \in 128..156 /\ y <= z
    BY <2>1
  <2> QED
    BY <2>2 DEF z, y
<1>5. Len(d.tables) \in Nat /\ DOMAIN d.tables = 1..Len(d.tables)
  BY <1>1
<1> QED
  BY <1>1, <1>2, <1>4, <1>5

(* super_n_block_groups counts the groups, the last one too.               *)
LEMMA GroupCount ==
  ASSUME NEW d, Geometry(d)
  PROVE  super_n_block_groups(d.super) = Len(d.tables) /\ Len(d.tables) >= 1
<1> DEFINE s == d.super
           b == s.s_blocks_count_lo
           g == s.s_blocks_per_group
           a == b + g - 1
<1>1. /\ b \in Nat /\ b >= 1 /\ g \in Nat \ {0} /\ a < U32 /\ Len(d.tables) = a \div g
  BY DEF Geometry
<1>2. super_n_block_groups(s) = LET n == (a % U32) \div g IN IF n = 0 THEN 1 ELSE n
  BY DEF super_n_block_groups
<1>3. a \in Nat /\ a >= g
  BY <1>1
<1> HIDE DEF a, g, b
<1>4. a % U32 = a
  BY <1>1, <1>3, U32Assumption
<1>5. a \div g >= 1
  <2> DEFINE q == a \div g
             m == a % g
  <2>1. a = g * q + m /\ q \in Nat /\ m \in 0..(g - 1)
    BY <1>1, <1>3, DivMod, Zenon
  <2> HIDE DEF q, m
  <2>2. CASE q = 0
    <3>1. g * q = 0
      BY <1>1, <2>2
    <3> QED
      BY <1>1, <1>3, <2>1, <3>1
  <2>3. CASE q # 0
    BY <2>1, <2>3 DEF q
  <2> QED
    BY <2>2, <2>3
<1> QED
  BY <1>1, <1>2, <1>4, <1>5

(* super_group_fill looks for the descriptors where they are.              *)
LEMMA DescOffset ==
  ASSUME NEW d, Geometry(d), NEW i \in Nat
  PROVE  group_desc_offset(d.super, i) = DescPlace(d, i + 1) /\ DescPlace(d, i + 1) \in Int
<1> DEFINE bs == super_block_size(d.super)
           z == DescSize(d.super)
           f == d.first_data_block
<1>1. /\ bs \in Nat /\ (bs = 1024 \/ bs >= 2048) /\ f = IF bs = 1024 THEN 1 ELSE 0
      /\ z \in {32, 64} /\ z = super_group_desc_size(d.super)
  BY Numbers
<1>2. ALIGN_TO_BLOCKSIZE(d.super, 2048)
        = IF 2048 % bs # 0 THEN 2048 - (2048 % bs) + bs ELSE 2048
  BY DEF ALIGN_TO_BLOCKSIZE
<1>3. group_desc_offset(d.super, i) = ALIGN_TO_BLOCKSIZE(d.super, 2048) + i * z
  BY <1>1 DEF group_desc_offset, BOOT_SECTOR_SIZE, sizeof
<1>4. DescPlace(d, i + 1) = (f + 1) * bs + ((i + 1) - 1) * z
  BY DEF DescPlace
<1> HIDE DEF bs, z, f
<1>5. ALIGN_TO_BLOCKSIZE(d.super, 2048) = (f + 1) * bs
  <2>1. CASE bs = 1024
    BY <1>1, <1>2, <2>1
  <2>2. CASE bs = 2048
    BY <1>1, <1>2, <2>2
  <2>3. CASE bs > 2048
    <3>1. 2048 % bs = 2048
      BY <1>1, <2>3
    <3> QED
      BY <1>1, <1>2, <2>3, <3>1
  <2> QED
    BY <1>1, <2>1, <2>2, <2>3
<1>6. i * z = ((i + 1) - 1) * z /\ i * z \in Int /\ (f + 1) * bs \in Int
  BY <1>1
<1> QED
  BY <1>3, <1>4, <1>5, <1>6

(* inode_get_by_number looks for an inode where it is.                     *)
LEMMA InodeOffset ==
  ASSUME NEW d, Geometry(d), NEW i \in DOMAIN d.tables,
         NEW k \in 0..(d.super.s_inodes_per_group - 1)
  PROVE  /\ inode_offset(d.super, d.tables, InodeNumber(d, i, k)) = InodePlace(d, i, k)
         /\ InodePlace(d, i, k) \in Int
         /\ GroupExists(d.super, InodeNumber(d, i, k))
         /\ InodeNumber(d, i, k) # 0
<1> DEFINE p == d.super.s_inodes_per_group
           n == InodeNumber(d, i, k)
<1>1. p \in Nat \ {0} /\ i \in 1..Len(d.tables) /\ Len(d.tables) \in Nat /\ d.tables[i] \in Nat
      /\ super_block_size(d.super) \in Nat /\ d.super.s_inode_size \in Nat
  <2>1. /\ p \in Nat \ {0} /\ Len(d.tables) \in Nat /\ d.tables \in Seq(Nat)
        /\ DOMAIN d.tables = 1..Len(d.tables)
        /\ super_block_size(d.super) \in Nat /\ d.super.s_inode_size \in Nat
    BY Numbers
  <2> HIDE DEF p, n
  <2>2. i \in 1..Len(d.tables)
    BY <2>1, Zenon
  <2>3. d.tables[i] \in Nat
    BY <2>1, <2>2
  <2> QED
    BY <2>1, <2>2, <2>3, Zenon
<1>2. n = (i - 1) * p + k + 1
  BY DEF InodeNumber
<1> HIDE DEF p, n
<1>3. i - 1 \in Nat /\ k \in 0..(p - 1)
  BY <1>1 DEF p
<1>4. n - 1 = p * (i - 1) + k /\ n # 0
  <2>1. (i - 1) * p = p * (i - 1) /\ (i - 1) * p \in Nat
    BY <1>1, <1>3
  <2> QED
    BY <1>2, <1>3, <2>1
<1>5. (n - 1) \div p = i - 1 /\ (n - 1) % p = k
  <2> DEFINE q == i - 1
  <2>1. q \in Nat /\ p \in Nat \ {0} /\ k \in 0..(p - 1)
    BY <1>1, <1>3
  <2> HIDE DEF q
  <2>2. (p * q + k) \div p = q /\ (p * q + k) % p = k
    BY <2>1, DivSum
  <2> QED
    BY <1>4, <2>2 DEF q
<1>6. inode_offset(d.super, d.tables, n) = InodePlace(d, i, k)
  <2>1. (n - 1) \div p + 1 = i
    BY <1>1, <1>5
  <2> QED
    BY <1>5, <2>1 DEF inode_offset, InodePlace, BLOCKS2BYTES, p
<1>7. GroupExists(d.super, n)
  <2>1. super_n_block_groups(d.super) = Len(d.tables)
    BY GroupCount
  <2>2. i - 1 < Len(d.tables)
    BY <1>1
  <2> QED
    BY <1>5, <2>1, <2>2 DEF GroupExists, p
<1>8. InodePlace(d, i, k) \in Int
  <2> DEFINE a == d.tables[i]
             b == super_block_size(d.super)
             c == d.super.s_inode_size
  <2>1. a \in Int /\ b \in Int /\ c \in Int
    BY <1>1
  <2>2. k \in Int /\ InodePlace(d, i, k) = a * b + k * c
    BY DEF InodePlace
  <2> HIDE DEF a, b, c
  <2>3. a * b \in Int /\ k * c \in Int
    BY <2>1, <2>2
  <2> QED
    BY <2>2, <2>3
<1> QED
  BY <1>4, <1>6, <1>7, <1>8 DEF n

-----------------------------------------------------------------------------
(* What a read gives.  It is short exactly if the disk ends before.        *)
LEMMA ShortRead ==
  ASSUME NEW d, NEW w, NEW z
  PROVE  Contents(d, w, z) = <<"short">> <=> w + z > d.bytes
<1> DEFINE a == CHOOSE i \in {i \in DOMAIN d.tables : w = DescPlace(d, i)} : TRUE
           b == CHOOSE n \in {n \in d.inodes :
                  \E i \in DOMAIN d.tables, k \in 0..(d.super.s_inodes_per_group - 1) :
                     n = InodeNumber(d, i, k) /\ w = InodePlace(d, i, k)} : TRUE
           c == w \div super_block_size(d.super)
<1>1. \/ w + z > d.bytes /\ Contents(d, w, z) = <<"short">>
      \/ /\ ~(w + z > d.bytes)
         /\ Contents(d, w, z) \in {<<"magic", d.super.s_magic>>, <<"super">>, <<"desc", a>>,
                               <<"inode", b>>, <<"block", c>>, <<"other">>}
  BY DEF Contents
<1> HIDE DEF a, b, c
<1> QED
  BY <1>1

(* A read of the magic number gives the one of the disk.                   *)
LEMMA ReadsMagic ==
  ASSUME NEW d, Contents(d, 1080, 2) # <<"short">>
  PROVE  Contents(d, 1080, 2) = <<"magic", d.super.s_magic>>
<1>1. ~(1080 + 2 > d.bytes)
  BY ShortRead
<1> QED
  BY <1>1 DEF Contents

(* The descriptor of the group asked for.                                  *)
LEMMA ReadsDesc ==
  ASSUME NEW d, Geometry(d), Layout(d), NEW i \in Nat, i < Len(d.tables),
         NEW w, w = group_desc_offset(d.super, i),
         NEW z, z = super_group_desc_size(d.super)
  PROVE  /\ w \in Int /\ z \in Int /\ w + z <= End(d)
         /\ Contents(d, w, z) # <<"short">> => Contents(d, w, z) = <<"desc", i + 1>>
<1>1. /\ z \in {32, 64} /\ z = DescSize(d.super)
      /\ DOMAIN d.tables = 1..Len(d.tables) /\ Len(d.tables) \in Nat
  BY Numbers
<1>2. w = DescPlace(d, i + 1) /\ w \in Int
  BY DescOffset
<1>3. i + 1 \in DOMAIN d.tables
  BY <1>1
<1>4. w + z <= End(d)
  BY <1>1, <1>2, <1>3 DEF Layout
<1>5. ASSUME NEW j \in DOMAIN d.tables, w = DescPlace(d, j)
      PROVE  j = i + 1
  <2> DEFINE h == (d.first_data_block + 1) * super_block_size(d.super)
  <2>1. h \in Int /\ h + (j - 1) * z = h + ((i + 1) - 1) * z
    <3>1. h \in Int
      BY Numbers
    <3> QED
      BY <1>1, <1>2, <1>5, <3>1 DEF DescPlace
  <2>2. j \in Int
    BY <1>1
  <2> HIDE DEF h
  <2>3. CASE z = 32
    BY <2>1, <2>2, <2>3
  <2>4. CASE z = 64
    BY <2>1, <2>2, <2>4
  <2> QED
    BY <1>1, <2>3, <2>4
<1> DEFINE D == {j \in DOMAIN d.tables : w = DescPlace(d, j)}
<1>6. D = {i + 1}
  BY <1>2, <1>3, <1>5
<1> HIDE DEF D
<1>7. ASSUME Contents(d, w, z) # <<"short">>
      PROVE  Contents(d, w, z) = <<"desc", CHOOSE j \in D : TRUE>>
  <2>1. ~(w + z > d.bytes)
    BY <1>7, ShortRead
  <2>2. D # {} /\ z # 2 /\ z # 1024 /\ z = DescSize(d.super)
    BY <1>1, <1>6
  <2> QED
    BY <2>1, <2>2 DEF Contents, D
<1>8. (CHOOSE j \in D : TRUE) = i + 1
  BY <1>6
<1>9. z \in Int
  BY <1>1
<1> QED
  BY <1>2, <1>4, <1>7, <1>8, <1>9, Zenon

(* The inode asked for.                                                    *)
LEMMA ReadsInode ==
  ASSUME NEW d, Geometry(d), Layout(d), NEW n \in d.inodes,
         NEW w, w = inode_offset(d.super, d.tables, n),
         NEW z, z = inode_bytes(d.super)
  PROVE  /\ w \in Int /\ z \in Int /\ w + z <= End(d)
         /\ n # 0 /\ GroupExists(d.super, n)
         /\ Contents(d, w, z) # <<"short">> => Contents(d, w, z) = <<"inode", n>>
<1> DEFINE slots == 0..(d.super.s_inodes_per_group - 1)
<1>1. PICK i \in DOMAIN d.tables, k \in slots : n = InodeNumber(d, i, k)
  BY DEF Layout
<1>2. w = InodePlace(d, i, k) /\ w \in Int /\ n # 0 /\ GroupExists(d.super, n)
  BY <1>1, InodeOffset
<1>3. /\ z \in 128..156 /\ z <= d.super.s_inode_size /\ d.super.s_inode_size \in Nat
      /\ super_block_size(d.super) \in Nat /\ super_block_size(d.super) >= 1024
      /\ d.super.s_blocks_count_lo \in Nat
  BY Numbers, SMTT(20)
<1>4. w + z <= End(d)
  <2>1. w + d.super.s_inode_size <= End(d)
    BY <1>1, <1>2 DEF Layout
  <2>2. End(d) \in Int
    BY <1>3 DEF End, BLOCKS2BYTES
  <2> QED
    BY <1>2, <1>3, <2>1, <2>2
<1> DEFINE N == {m \in d.inodes : \E j \in DOMAIN d.tables, l \in slots :
                   m = InodeNumber(d, j, l) /\ w = InodePlace(d, j, l)}
<1>5. ASSUME NEW m \in N
      PROVE  m = n
  <2>1. PICK j \in DOMAIN d.tables, l \in slots :
          m = InodeNumber(d, j, l) /\ w = InodePlace(d, j, l)
    OBVIOUS
  <2>2. InodePlace(d, i, k) = InodePlace(d, j, l)
    BY <1>2, <2>1
  <2>3. i = j /\ k = l
    BY <2>2 DEF Layout
  <2> QED
    BY <1>1, <2>1, <2>3
<1>6. N = {n}
  <2>1. n \in N
    BY <1>1, <1>2
  <2> QED
    BY <1>5, <2>1
<1> HIDE DEF N
<1>7. \A j \in DOMAIN d.tables : DescPlace(d, j) # w
  BY <1>1, <1>2 DEF Layout
<1>8. ASSUME Contents(d, w, z) # <<"short">>
      PROVE  Contents(d, w, z) = <<"inode", CHOOSE m \in N : TRUE>>
  <2>1. ~(w + z > d.bytes)
    BY <1>8, ShortRead
  <2>2. N # {} /\ z # 2 /\ z # 1024 /\ z < super_block_size(d.super)
    BY <1>3, <1>6
  <2>3. {j \in DOMAIN d.tables : w = DescPlace(d, j)} = {}
    BY <1>7
  <2> QED
    BY <2>1, <2>2, <2>3, ZenonT(60) DEF Contents, N
<1>9. (CHOOSE m \in N : TRUE) = n
  BY <1>6
<1>10. z \in Int
  BY <1>3
<1> QED
  BY <1>2, <1>4, <1>8, <1>9, <1>10, Zenon

(* The block of a link's target.                                           *)
LEMMA ReadsBlock ==
  ASSUME NEW d, Geometry(d), NEW p \in (d.first_data_block + 1)..(d.super.s_blocks_count_lo - 1),
         NEW w, w = BLOCKS2BYTES(d.super, p),
         NEW z, z = super_block_size(d.super)
  PROVE  /\ w \in Int /\ z \in Int /\ w + z <= End(d)
         /\ Contents(d, w, z) # <<"short">> => Contents(d, w, z) = <<"block", p>>
<1> DEFINE b == d.super.s_blocks_count_lo
           f == d.first_data_block
<1>1. /\ z \in Nat /\ (z = 1024 \/ z >= 2048) /\ f = (IF z = 1024 THEN 1 ELSE 0)
      /\ b \in Nat /\ DescSize(d.super) \in {32, 64}
  BY Numbers
<1>2. w = p * z /\ End(d) = b * z
  BY DEF BLOCKS2BYTES, End
<1> HIDE DEF b, f
<1>3. p \in Nat /\ p < b /\ (z = 1024 => p > 1) /\ z \in Nat \ {0}
  BY <1>1 DEF b, f
<1>4. w = z * p /\ w \in Int /\ z * p + z <= z * b
  BY <1>1, <1>2, <1>3, BlocksApart
<1>5. w + z <= End(d)
  <2>1. b * z = z * b
    BY <1>1
  <2> QED
    BY <1>2, <1>4, <2>1
<1>6. w % z = 0 /\ w \div z = p
  <2>3. 0 \in 0..(z - 1)
    BY <1>3
  <2>1. (z * p + 0) \div z = p /\ (z * p + 0) % z = 0
    BY <1>3, <2>3, DivSum, Zenon
  <2>2. z * p + 0 = w
    BY <1>4
  <2> QED
    BY <2>1, <2>2
<1>7. ~(w = 1024 /\ z = 1024)
  BY <1>2, <1>3
<1>8. ASSUME Contents(d, w, z) # <<"short">>
      PROVE  Contents(d, w, z) = <<"block", w \div z>>
  <2>1. ~(w + z > d.bytes)
    BY <1>8, ShortRead
  <2>2. z # 2 /\ z # DescSize(d.super) /\ ~(z < super_block_size(d.super))
    BY <1>1
  <2> QED
    BY <2>1, <2>2, <1>6, <1>7 DEF Contents
<1> QED
  BY <1>4, <1>5, <1>3, <1>6, <1>8

-----------------------------------------------------------------------------
(* The inductive invariant.  Types first.                                  *)
Stages == {"start", "disk", "magic", "super", "groups", "serving", "exit", "aborted"}

Typed ==
  /\ disk \in DOMAIN Images /\ stage \in Stages
  /\ lock \in [{"log", "read"} -> All \cup {Free}]
  /\ todo \in [All -> Seq(Ops)]
  /\ got = [t \in All |-> got[t]]
  /\ req = [t \in Threads |->
              [op |-> req[t].op, n |-> req[t].n, at |-> req[t].at, ret |-> req[t].ret]]
  /\ gdesc_table \in Seq(Nat)

(* The first k parts of a line of thread t; the log ends with a line.      *)
Written(t, k) == [j \in 1..k |-> <<t, Parts[j]>>]
Ended(l) == l = <<>> \/ \E t \in All : l = Written(t, 3)

(* The lock of __LOG is held by the thread inside its section, and the log *)
(* ends with what that thread has written so far.                          *)
LogInv ==
  /\ \A t \in All : Chained(todo[t]) /\ (lock["log"] = t <=> Pos(todo[t]) # 0)
  /\ \A t \in All : Pos(todo[t]) \in 2..4 => line = Written(t, Pos(todo[t]) - 1)
  /\ (\A t \in All : Pos(todo[t]) \notin 2..4) => Ended(line)

(* What is known at each stage.                                            *)
StageInv ==
  /\ stage \in {"start", "disk", "serving"} => todo[main] = <<>>
  /\ stage # "serving" => \A t \in Threads : req[t] = Idle
  /\ stage \notin {"serving", "exit", "aborted"} => \A t \in Threads : todo[t] = <<>>
  /\ stage \in {"super", "groups", "serving"} => img.super.s_magic = EXT4_MAGIC
  /\ stage \in {"groups", "serving"} => super = img.super
  /\ stage \in {"start", "disk", "magic", "super"} => gdesc_table = <<>>
  /\ stage = "groups" =>
       /\ Len(gdesc_table) < Len(img.tables)
       /\ \A i \in 1..Len(gdesc_table) : gdesc_table[i] = img.tables[i]
  /\ stage = "serving" => gdesc_table = img.tables
  /\ stage = "aborted" => img.bytes < End(img)

(* A request r, on the disk d.                                             *)
RequestInv(d, r) ==
  /\ r.n \in d.inodes \cup {0} /\ (r.op = "readlink" => r.n \in d.inodes)
  /\ r.op \in {"none", "getattr", "readlink"} /\ (r.op = "none" => r = Idle)
  /\ r.at \in {"inode", "block", "done"}
  /\ r.at = "block" => /\ r.op = "readlink" /\ r.n \in DOMAIN d.links
                       /\ ~InInode(d.links[r.n].size)
  /\ r.op # "none" /\ r.at = "done" => r.ret = Answer(d, r)

ServeInv == \A t \in Threads : RequestInv(img, req[t])

(* The read that main and a thread is about: in which stages and for what  *)
(* requests there is one, and of which place and size.                     *)
MainWants(st) == st \in {"magic", "super", "groups"}
MainWant(d, st, i) ==
  CASE st = "magic" -> <<1080, 2>>
    [] st = "super" -> <<1024, 1024>>
    [] OTHER -> <<group_desc_offset(d.super, i), super_group_desc_size(d.super)>>

ThreadWants(r) == r.at = "block" \/ (r.at = "inode" /\ r.n # 0)
ThreadWant(d, r) ==
  IF r.at = "inode" THEN <<inode_offset(d.super, d.tables, r.n), inode_bytes(d.super)>>
  ELSE <<BLOCKS2BYTES(d.super, d.links[r.n].pblock), super_block_size(d.super)>>

LastTag(s) == IF s = <<>> THEN "none" ELSE s[Len(s)][1]
NoRead(s) == \A i \in 1..Len(s) : s[i][1] # "pread"

(* A thread with s to do, and g read last, reads what it wants, checks     *)
(* that last, and fails only on a disk that is cut off.                    *)
Doing(d, s, g, wants, want) ==
  /\ \A i \in 1..Len(s) : i < Len(s) => s[i][1] \notin {"check", "abort"}
  /\ \A i \in 1..Len(s) : s[i][1] = "pread" =>
       LastTag(s) = "check" /\ s[i][2] = want[1] /\ s[i][3] = want[2]
  /\ LastTag(s) = "check" => wants
  /\ wants /\ LastTag(s) # "abort" /\ NoRead(s) => g = Contents(d, want[1], want[2])
  /\ wants /\ LastTag(s) \notin {"check", "abort"} => g # <<"short">>
  /\ LastTag(s) = "abort" => d.bytes < End(d)

MainDoing ==
  Doing(img, todo[main], got[main], MainWants(stage), MainWant(img, stage, Len(gdesc_table)))
ThreadsDoing ==
  \A t \in Threads : Doing(img, todo[t], got[t], ThreadWants(req[t]), ThreadWant(img, req[t]))

ReadInv == stage \notin {"exit", "aborted"} => MainDoing /\ ThreadsDoing

Inv == Typed /\ LogInv /\ StageInv /\ ServeInv /\ ReadInv

-----------------------------------------------------------------------------
(* The section of the log.  A thread outside it that stays outside.        *)
LEMMA LogKept ==
  ASSUME Typed, LogInv, NEW t \in All, NEW s, todo' = [todo EXCEPT ![t] = s],
         Chained(s), Pos(s) = 0, Pos(todo[t]) = 0, lock'["log"] = lock["log"], line' = line
  PROVE  LogInv'
<1>1. todo'[t] = s /\ \A u \in All : u # t => todo'[u] = todo[u]
  BY DEF Typed
<1>2. \A u \in All : Pos(todo'[u]) = Pos(todo[u]) /\ (Chained(todo[u]) => Chained(todo'[u]))
  BY <1>1
<1>3. \A u \in All : Chained(todo'[u]) /\ (lock'["log"] = u <=> Pos(todo'[u]) # 0)
  BY <1>2 DEF LogInv
<1>4. \A u \in All : Pos(todo'[u]) \in 2..4 => line' = Written(u, Pos(todo'[u]) - 1)
  BY <1>2 DEF LogInv
<1>5. (\A u \in All : Pos(todo'[u]) \notin 2..4) => Ended(line')
  BY <1>2 DEF LogInv
<1> QED
  BY <1>3, <1>4, <1>5 DEF LogInv

(* At most one thread is inside.                                           *)
LEMMA OneInside ==
  ASSUME LogInv, NEW t \in All, Pos(todo[t]) # 0, NEW u \in All, u # t
  PROVE  Pos(todo[u]) = 0
  BY DEF LogInv

(* An operation of thread t that begins or goes on with the section: p is  *)
(* where the thread is after it.                                           *)
LEMMA LogInside ==
  ASSUME Typed, LogInv, NEW t \in All, NEW s, todo' = [todo EXCEPT ![t] = s],
         Chained(s), Pos(s) \in 0..4,
         \A u \in All : u # t => Pos(todo[u]) = 0,
         \A u \in All : lock'["log"] = u <=> (u = t /\ Pos(s) # 0),
         Pos(s) \in 2..4 => line' = Written(t, Pos(s) - 1),
         Pos(s) \in 0..1 => Ended(line')
  PROVE  LogInv'
<1>1. todo'[t] = s /\ \A u \in All : u # t => todo'[u] = todo[u]
  BY DEF Typed
<1>2. \A u \in All : u # t => Pos(todo'[u]) = 0 /\ Chained(todo'[u])
  BY <1>1 DEF LogInv
<1>3. \A u \in All : Chained(todo'[u]) /\ (lock'["log"] = u <=> Pos(todo'[u]) # 0)
  BY <1>1, <1>2
<1>4. ASSUME NEW u \in All, Pos(todo'[u]) \in 2..4
      PROVE  line' = Written(u, Pos(todo'[u]) - 1)
  <2>1. u = t
    BY <1>2, <1>4
  <2> QED
    BY <1>1, <1>4, <2>1
<1>5. ASSUME \A u \in All : Pos(todo'[u]) \notin 2..4
      PROVE  Ended(line')
  <2>1. Pos(s) \notin 2..4
    BY <1>1, <1>5
  <2> QED
    BY <2>1
<1> QED
  BY <1>3, <1>4, <1>5 DEF LogInv

(* The three parts of a line, one after the other.                         *)
LEMMA WrittenParts ==
  ASSUME NEW t
  PROVE  /\ Written(t, 1) = <<<<t, "prefix">>>>
         /\ Append(Written(t, 1), <<t, "text">>) = Written(t, 2)
         /\ Append(Written(t, 2), <<t, "newline">>) = Written(t, 3)
         /\ Written(t, 3)[Len(Written(t, 3))][2] = "newline"
<1>1. Parts[1] = "prefix" /\ Parts[2] = "text" /\ Parts[3] = "newline"
  BY DEF Parts
<1>2. Written(t, 1) = <<<<t, "prefix">>>>
  BY <1>1 DEF Written
<1>3. Append(Written(t, 1), <<t, "text">>) = Written(t, 2)
  BY <1>1 DEF Written
<1>4. Append(Written(t, 2), <<t, "newline">>) = Written(t, 3)
  BY <1>1 DEF Written
<1>5. Written(t, 3)[Len(Written(t, 3))][2] = "newline"
  BY <1>1 DEF Written
<1> QED
  BY <1>2, <1>3, <1>4, <1>5

(* The first operation of a thread, and the rest.                          *)
LEMMA FirstOp ==
  ASSUME Typed, LogInv, NEW t \in All, Running(t)
  PROVE  /\ todo[t] \in Seq(Ops) /\ todo[t] # <<>> /\ Op(t) = todo[t][1] /\ Op(t) \in Ops
         /\ Tail(todo[t]) \in Seq(Ops) /\ Chained(Tail(todo[t]))
         /\ Pos(todo[t]) = Before(Op(t)) /\ Pos(Tail(todo[t])) = After(Op(t))
<1>1. todo[t] \in Seq(Ops) /\ todo[t] # <<>>
  BY DEF Typed, Running
<1>2. Op(t) = todo[t][1] /\ Op(t) \in Ops /\ Tail(todo[t]) \in Seq(Ops)
  BY <1>1, TailOf DEF Op
<1>3. Chained(todo[t])
  BY DEF LogInv
<1>4. Chained(Tail(todo[t])) /\ Pos(Tail(todo[t])) = After(todo[t][1])
  BY <1>1, <1>3, TailChained
<1>5. Pos(todo[t]) = Before(todo[t][1])
  BY <1>1 DEF Pos
<1> QED
  BY <1>1, <1>2, <1>4, <1>5

(* Locking: nobody is inside when the lock is free.                        *)
LEMMA LocksLog ==
  ASSUME Typed, LogInv, NEW t \in All, Locks(t)
  PROVE  LogInv'
<1>1. PICK m \in {"log", "read"} :
        /\ Running(t) /\ Op(t) = <<"lock", m>> /\ lock[m] = Free
        /\ lock' = [lock EXCEPT ![m] = t] /\ Goes(t) /\ line' = line
  BY Zenon DEF Locks
<1> DEFINE s == Tail(todo[t])
<1>2. /\ s \in Seq(Ops) /\ Chained(s) /\ Pos(todo[t]) = Before(Op(t)) /\ Pos(s) = After(Op(t))
  BY <1>1, FirstOp
<1>3. todo' = [todo EXCEPT ![t] = s]
  BY <1>1 DEF Goes
<1> HIDE DEF s
<1>4. CASE m = "read"
  <2>1. Before(Op(t)) = 0 /\ After(Op(t)) = 0
    BY <1>1, <1>4 DEF Before, After
  <2>2. lock'["log"] = lock["log"]
    BY <1>1, <1>4 DEF Typed
  <2> QED
    BY <1>1, <1>2, <1>3, <2>1, <2>2, LogKept, Zenon
<1>5. CASE m = "log"
  <2>1. Pos(s) = 1
    BY <1>1, <1>2, <1>5 DEF After
  <2>2. \A u \in All : Pos(todo[u]) = 0
    BY <1>1, <1>5, ThreadsAssumption DEF LogInv, All
  <2>3. Ended(line')
    BY <1>1, <2>2 DEF LogInv
  <2>4. \A u \in All : lock'["log"] = u <=> (u = t /\ Pos(s) # 0)
    BY <1>1, <1>5, <2>1 DEF Typed
  <2>5. Pos(s) \in 0..4 /\ Pos(s) \notin 2..4
    BY <2>1
  <2> QED
    BY <1>2, <1>3, <2>2, <2>3, <2>4, <2>5, LogInside, Zenon
<1> QED
  BY <1>1, <1>4, <1>5

(* Unlocking: the line is whole.                                           *)
LEMMA UnlocksLog ==
  ASSUME Typed, LogInv, NEW t \in All, Unlocks(t)
  PROVE  LogInv'
<1>1. PICK m \in {"log", "read"} :
        /\ Running(t) /\ Op(t) = <<"unlock", m>>
        /\ lock' = [lock EXCEPT ![m] = Free] /\ Goes(t) /\ line' = line
  BY Zenon DEF Unlocks
<1> DEFINE s == Tail(todo[t])
<1>2. /\ s \in Seq(Ops) /\ Chained(s) /\ Pos(todo[t]) = Before(Op(t)) /\ Pos(s) = After(Op(t))
  BY <1>1, FirstOp
<1>3. todo' = [todo EXCEPT ![t] = s]
  BY <1>1 DEF Goes
<1> HIDE DEF s
<1>4. CASE m = "read"
  <2>1. Before(Op(t)) = 0 /\ After(Op(t)) = 0
    BY <1>1, <1>4 DEF Before, After
  <2>2. lock'["log"] = lock["log"]
    BY <1>1, <1>4 DEF Typed
  <2> QED
    BY <1>1, <1>2, <1>3, <2>1, <2>2, LogKept, Zenon
<1>5. CASE m = "log"
  <2>1. Pos(todo[t]) = 4 /\ Pos(s) = 0
    BY <1>1, <1>2, <1>5 DEF Before, After
  <2>2. \A u \in All : u # t => Pos(todo[u]) = 0
    BY <2>1, OneInside
  <2>3. line' = Written(t, 3)
    BY <1>1, <2>1 DEF LogInv
  <2>4. Ended(line')
    BY <2>3 DEF Ended
  <2>5. \A u \in All : lock'["log"] = u <=> (u = t /\ Pos(s) # 0)
    BY <1>1, <1>5, <2>1, ThreadsAssumption DEF Typed, All
  <2>6. Pos(s) \in 0..4 /\ Pos(s) \notin 2..4
    BY <2>1
  <2> QED
    BY <1>2, <1>3, <2>2, <2>4, <2>5, <2>6, LogInside, Zenon
<1> QED
  BY <1>1, <1>4, <1>5

(* Writing: the parts come in their order, all from the thread inside.     *)
LEMMA WritesLog ==
  ASSUME Typed, LogInv, NEW t \in All, Writes(t)
  PROVE  LogInv'
<1>1. PICK part \in {"prefix", "text", "newline"} :
        /\ Running(t) /\ Op(t) = <<"write", part>>
        /\ line' = IF part = "prefix" /\ (line = <<>> \/ line[Len(line)][2] = "newline")
                   THEN <<<<t, part>>>> ELSE Append(line, <<t, part>>)
        /\ Goes(t) /\ lock' = lock
  BY Zenon DEF Writes
<1> DEFINE s == Tail(todo[t])
<1>2. /\ s \in Seq(Ops) /\ Chained(s) /\ Pos(todo[t]) = Before(Op(t)) /\ Pos(s) = After(Op(t))
  BY <1>1, FirstOp
<1>3. todo' = [todo EXCEPT ![t] = s]
  BY <1>1 DEF Goes
<1> HIDE DEF s
<1>4. Pos(todo[t]) # 0 /\ Pos(s) # 0 /\ Pos(s) \in 0..4
  BY <1>1, <1>2 DEF Before, After
<1>5. \A u \in All : u # t => Pos(todo[u]) = 0
  BY <1>4, OneInside
<1>6. \A u \in All : lock'["log"] = u <=> (u = t /\ Pos(s) # 0)
  BY <1>1, <1>4, <1>5 DEF LogInv
<1>7. CASE part = "prefix"
  <2>1. Pos(todo[t]) = 1 /\ Pos(s) = 2
    BY <1>1, <1>2, <1>7 DEF Before, After
  <2>2. Ended(line)
    <3>1. \A u \in All : Pos(todo[u]) \notin 2..4
      BY <1>5, <2>1
    <3> QED
      BY <3>1 DEF LogInv
  <2>3. line = <<>> \/ line[Len(line)][2] = "newline"
    BY <2>2, WrittenParts DEF Ended
  <2>4. line' = Written(t, Pos(s) - 1)
    BY <1>1, <1>7, <2>1, <2>3, WrittenParts
  <2>5. Pos(s) \notin 0..1
    BY <2>1
  <2> QED
    BY <1>2, <1>3, <1>4, <1>5, <1>6, <2>4, <2>5, LogInside, Zenon
<1>8. CASE part = "text"
  <2>1. Pos(todo[t]) = 2 /\ Pos(s) = 3
    BY <1>1, <1>2, <1>8 DEF Before, After
  <2>2. line = Written(t, 1)
    BY <2>1 DEF LogInv
  <2>3. line' = Written(t, Pos(s) - 1)
    BY <1>1, <1>8, <2>1, <2>2, WrittenParts
  <2>4. Pos(s) \notin 0..1
    BY <2>1
  <2> QED
    BY <1>2, <1>3, <1>4, <1>5, <1>6, <2>3, <2>4, LogInside, Zenon
<1>9. CASE part = "newline"
  <2>1. Pos(todo[t]) = 3 /\ Pos(s) = 4
    BY <1>1, <1>2, <1>9 DEF Before, After
  <2>2. line = Written(t, 2)
    BY <2>1 DEF LogInv
  <2>3. line' = Written(t, Pos(s) - 1)
    BY <1>1, <1>9, <2>1, <2>2, WrittenParts
  <2>4. Pos(s) \notin 0..1
    BY <2>1
  <2> QED
    BY <1>2, <1>3, <1>4, <1>5, <1>6, <2>3, <2>4, LogInside, Zenon
<1> QED
  BY <1>1, <1>7, <1>8, <1>9

-----------------------------------------------------------------------------
(* What a thread reads.  Calls that only log, when no read is wanted.      *)
LEMMA QuietDoing ==
  ASSUME NEW d, NEW s, NEW g, NEW want, Quiet(s)
  PROVE  Doing(d, s, g, FALSE, want)
<1>1. s \in Seq(Ops) /\ \A i \in 1..Len(s) : s[i][1] \in {"lock", "unlock", "write"}
  BY DEF Quiet, Closed
<1>2. LastTag(s) \notin {"check", "abort"}
  <2>1. CASE s = <<>>
    BY <2>1 DEF LastTag
  <2>2. CASE s # <<>>
    <3>1. Len(s) \in 1..Len(s)
      BY <1>1, <2>2
    <3> QED
      BY <1>1, <2>2, <3>1 DEF LastTag
  <2> QED
    BY <2>1, <2>2
<1> QED
  BY <1>1, <1>2 DEF Doing

(* The call that reads what is wanted.                                     *)
LEMMA ReadDoing ==
  ASSUME NEW d, NEW s, NEW g, NEW want, ReadCall(s, want[1], want[2])
  PROVE  Doing(d, s, g, TRUE, want)
<1>1. LastTag(s) = "check"
  BY DEF ReadCall, LastTag
<1>2. \A i \in 1..Len(s) : i < Len(s) => s[i][1] \notin {"check", "abort"}
  BY DEF ReadCall
<1>3. \A i \in 1..Len(s) : s[i][1] = "pread" => s[i][2] = want[1] /\ s[i][3] = want[2]
  BY DEF ReadCall
<1>4. ~NoRead(s)
  BY DEF ReadCall, NoRead
<1> QED
  BY <1>1, <1>2, <1>3, <1>4 DEF Doing

(* The end of a disk that is cut off.                                      *)
LEMMA AbortDoing ==
  ASSUME NEW d, NEW s, NEW g, NEW wants, NEW want, AbortCall(s), d.bytes < End(d)
  PROVE  Doing(d, s, g, wants, want)
<1>1. LastTag(s) = "abort" /\ s \in Seq(Ops) /\ s # <<>>
  BY DEF AbortCall, LastTag, Closed
<1>2. \A i \in 1..Len(s) : i < Len(s) => s[i][1] \in {"lock", "unlock", "write"}
  BY DEF AbortCall
<1>3. \A i \in 1..Len(s) : s[i][1] # "pread"
  <2>1. s[Len(s)][1] = "abort"
    BY DEF AbortCall
  <2>2. \A i \in 1..Len(s) : i < Len(s) \/ i = Len(s)
    BY <1>1
  <2> QED
    BY <1>2, <2>1, <2>2
<1> QED
  BY <1>1, <1>2, <1>3 DEF Doing

(* How a sequence ends does not change as its first operation is done.     *)
LEMMA TailTag ==
  ASSUME NEW s \in Seq(Ops), s # <<>>
  PROVE  /\ Tail(s) # <<>> => LastTag(Tail(s)) = LastTag(s)
         /\ Tail(s) = <<>> => LastTag(s) = s[1][1] /\ LastTag(Tail(s)) = "none"
         /\ NoRead(Tail(s)) /\ s[1][1] # "pread" => NoRead(s)
<1> DEFINE r == Tail(s)
<1>1. /\ r \in Seq(Ops) /\ Len(r) = Len(s) - 1 /\ Len(s) \in Nat \ {0}
      /\ \A i \in 1..(Len(s) - 1) : r[i] = s[i + 1]
      /\ r = <<>> <=> Len(s) = 1
  BY TailOf
<1> HIDE DEF r
<1>2. ASSUME r # <<>>
      PROVE  LastTag(r) = LastTag(s)
  <2>1. r[Len(r)] = s[Len(s)]
    BY <1>1, <1>2
  <2> QED
    BY <1>2, <2>1 DEF LastTag
<1>3. ASSUME r = <<>>
      PROVE  LastTag(s) = s[1][1] /\ LastTag(r) = "none"
  BY <1>1, <1>3, Zenon DEF LastTag
<1>4. ASSUME NoRead(r), s[1][1] # "pread", NEW i \in 1..Len(s)
      PROVE  s[i][1] # "pread"
  <2>1. CASE i = 1
    BY <1>4, <2>1
  <2>2. CASE i # 1
    <3>1. i - 1 \in 1..Len(r) /\ r[i - 1] = s[i]
      BY <1>1, <2>2
    <3> QED
      BY <1>4, <3>1 DEF NoRead
  <2> QED
    BY <2>1, <2>2
<1> QED
  BY <1>2, <1>3, <1>4 DEF r, NoRead

(* An operation that reads nothing is done.                                *)
LEMMA TailDoing ==
  ASSUME NEW d, NEW s \in Seq(Ops), s # <<>>, NEW g, NEW wants, NEW want,
         Doing(d, s, g, wants, want), s[1][1] \in {"lock", "unlock", "write"}
  PROVE  Doing(d, Tail(s), g, wants, want)
<1> DEFINE r == Tail(s)
<1>1. /\ r \in Seq(Ops) /\ Len(r) = Len(s) - 1 /\ Len(s) \in Nat \ {0}
      /\ \A i \in 1..(Len(s) - 1) : r[i] = s[i + 1]
      /\ r = <<>> <=> Len(s) = 1
  BY TailOf
<1>2. /\ r # <<>> => LastTag(r) = LastTag(s)
      /\ r = <<>> => LastTag(s) = s[1][1] /\ LastTag(r) = "none"
      /\ NoRead(r) => NoRead(s)
  BY TailTag
<1> HIDE DEF r
<1>3. ASSUME NEW i \in 1..Len(r)
      PROVE  r # <<>> /\ i + 1 \in 1..Len(s) /\ r[i] = s[i + 1] /\ (i < Len(r) => i + 1 < Len(s))
  BY <1>1
<1>4. \A i \in 1..Len(r) : i < Len(r) => r[i][1] \notin {"check", "abort"}
  BY <1>3, Zenon DEF Doing
<1>5. \A i \in 1..Len(r) : r[i][1] = "pread" =>
        LastTag(r) = "check" /\ r[i][2] = want[1] /\ r[i][3] = want[2]
  BY <1>2, <1>3 DEF Doing
<1>6. \/ LastTag(r) = LastTag(s)
      \/ LastTag(r) \notin {"check", "abort"} /\ LastTag(s) \notin {"check", "abort"}
  BY <1>2
<1>7. LastTag(r) = "check" => wants
  BY <1>6 DEF Doing
<1>8. wants /\ LastTag(r) # "abort" /\ NoRead(r) => g = Contents(d, want[1], want[2])
  BY <1>2, <1>6 DEF Doing
<1>9. wants /\ LastTag(r) \notin {"check", "abort"} => g # <<"short">>
  BY <1>6 DEF Doing
<1>10. LastTag(r) = "abort" => d.bytes < End(d)
  BY <1>6 DEF Doing
<1> QED
  BY <1>4, <1>5, <1>7, <1>8, <1>9, <1>10 DEF r, Doing

(* The read is done: what is read is what was wanted.                      *)
LEMMA PreadDoing ==
  ASSUME NEW d, NEW s \in Seq(Ops), s # <<>>, NEW g, NEW wants, NEW want,
         Doing(d, s, g, wants, want), s[1][1] = "pread"
  PROVE  Doing(d, Tail(s), Contents(d, s[1][2], s[1][3]), wants, want)
<1> DEFINE r == Tail(s)
           c == Contents(d, s[1][2], s[1][3])
<1>1. /\ r \in Seq(Ops) /\ Len(r) = Len(s) - 1 /\ Len(s) \in Nat \ {0}
      /\ \A i \in 1..(Len(s) - 1) : r[i] = s[i + 1]
      /\ r = <<>> <=> Len(s) = 1
  BY TailOf
<1>2. /\ r # <<>> => LastTag(r) = LastTag(s)
      /\ r = <<>> => LastTag(s) = s[1][1] /\ LastTag(r) = "none"
  BY TailTag
<1> HIDE DEF r
<1>3. LastTag(s) = "check" /\ s[1][2] = want[1] /\ s[1][3] = want[2] /\ wants
  BY <1>1 DEF Doing
<1>4. LastTag(r) = "check" /\ c = Contents(d, want[1], want[2])
  BY <1>2, <1>3
<1>5. ASSUME NEW i \in 1..Len(r)
      PROVE  i + 1 \in 1..Len(s) /\ r[i] = s[i + 1] /\ (i < Len(r) => i + 1 < Len(s))
  BY <1>1
<1>6. \A i \in 1..Len(r) : i < Len(r) => r[i][1] \notin {"check", "abort"}
  BY <1>5 DEF Doing
<1>7. \A i \in 1..Len(r) : r[i][1] = "pread" => r[i][2] = want[1] /\ r[i][3] = want[2]
  BY <1>5 DEF Doing
<1> HIDE DEF c
<1>8. Doing(d, r, c, wants, want)
  BY <1>3, <1>4, <1>6, <1>7 DEF Doing
<1> QED
  BY <1>8 DEF r, c

(* A check and an abort stand last.                                        *)
LEMMA OnlyOne ==
  ASSUME NEW s \in Seq(Ops), s # <<>>, s[1][1] \in {"check", "abort"},
         \A i \in 1..Len(s) : i < Len(s) => s[i][1] \notin {"check", "abort"}
  PROVE  Len(s) = 1
<1> DEFINE n == Len(s)
<1>1. n \in Nat \ {0} /\ ~(1 < n)
  OBVIOUS
<1> HIDE DEF n
<1>2. n = 1
  BY <1>1
<1> QED
  BY <1>2 DEF n

(* The check is the last operation: what was read is not short, or the     *)
(* disk has ended before.                                                  *)
LEMMA CheckDoing ==
  ASSUME NEW d, NEW s \in Seq(Ops), s # <<>>, NEW g, NEW wants, NEW want,
         Doing(d, s, g, wants, want), s[1][1] = "check"
  PROVE  /\ wants /\ g = Contents(d, want[1], want[2])
         /\ g # <<"short">> => Doing(d, Tail(s), g, wants, want)
<1> DEFINE r == Tail(s)
<1>1. /\ Len(s) \in Nat \ {0} /\ (r = <<>> <=> Len(s) = 1)
  BY TailOf
<1>2. r = <<>> => LastTag(s) = s[1][1] /\ LastTag(r) = "none"
  BY TailTag
<1> HIDE DEF r
<1>3. Len(s) = 1
  BY OnlyOne DEF Doing
<1>4. r = <<>> /\ LastTag(s) = "check" /\ LastTag(r) = "none"
  BY <1>1, <1>2, <1>3
<1>5. NoRead(s)
  BY <1>3 DEF NoRead
<1>6. wants /\ g = Contents(d, want[1], want[2])
  BY <1>4, <1>5 DEF Doing
<1>7. ASSUME g # <<"short">>
      PROVE  Doing(d, r, g, wants, want)
  <2>1. Len(r) = 0
    BY <1>4
  <2>2. \A i \in 1..Len(r) : FALSE
    BY <2>1
  <2> QED
    BY <1>4, <1>6, <1>7, <2>2 DEF Doing
<1> QED
  BY <1>6, <1>7, Zenon DEF r

-----------------------------------------------------------------------------
(* The disk that is mounted.                                               *)
LEMMA TheDisk ==
  ASSUME Typed
  PROVE  /\ img.bytes \in Nat
         /\ img.super.s_magic = EXT4_MAGIC => Geometry(img) /\ Layout(img)
         /\ img.super.s_magic # EXT4_MAGIC => img.bytes >= 2048
  BY ImagesAssumption DEF Typed, img

(* A process that serves has the super block and the descriptors of it.    *)
LEMMA ServingDisk ==
  ASSUME Inv, stage = "serving"
  PROVE  super = img.super /\ gdesc_table = img.tables /\ Geometry(img) /\ Layout(img)
<1>1. Typed
  BY DEF Inv
<1>2. StageInv
  BY DEF Inv
<1>3. super = img.super /\ gdesc_table = img.tables /\ img.super.s_magic = EXT4_MAGIC
  BY <1>2 DEF StageInv
<1>4. Geometry(img) /\ Layout(img)
  BY <1>1, <1>3, TheDisk
<1> QED
  BY <1>3, <1>4, Zenon

(* The super block lies on the disk.                                       *)
LEMMA SuperFits ==
  ASSUME NEW d, Geometry(d), Layout(d)
  PROVE  End(d) \in Int /\ End(d) >= 2048
<1> DEFINE bs == super_block_size(d.super)
           f == d.first_data_block
           z == DescSize(d.super)
<1>1. /\ bs \in Nat /\ (bs = 1024 \/ bs >= 2048) /\ f = (IF bs = 1024 THEN 1 ELSE 0)
      /\ z \in {32, 64} /\ d.super.s_blocks_count_lo \in Nat
  BY Numbers
<1>2. End(d) \in Int
  BY <1>1 DEF End, BLOCKS2BYTES
<1>3. 1 \in DOMAIN d.tables
  BY Numbers, GroupCount
<1>4. DescPlace(d, 1) + z <= End(d)
  BY <1>3 DEF Layout
<1>5. DescPlace(d, 1) = (f + 1) * bs + (1 - 1) * z
  BY DEF DescPlace
<1> HIDE DEF bs, f, z
<1>6. DescPlace(d, 1) = (f + 1) * bs
  BY <1>1, <1>5
<1>7. (f + 1) * bs >= 2048 /\ (f + 1) * bs \in Int
  <2>1. CASE bs = 1024
    BY <1>1, <2>1
  <2>2. CASE bs >= 2048
    <3>1. f = 0
      BY <1>1, <2>2
    <3>2. (f + 1) * bs = bs
      BY <1>1, <3>1
    <3> QED
      BY <1>1, <2>2, <3>2
  <2> QED
    BY <1>1, <2>1, <2>2
<1> QED
  BY <1>1, <1>2, <1>4, <1>6, <1>7

(* What main reads lies on the disk, if it is not cut off.                 *)
LEMMA MainWantFits ==
  ASSUME Typed, StageInv, MainWants(stage), NEW want,
         want = MainWant(img, stage, Len(gdesc_table)),
         want[1] + want[2] > img.bytes
  PROVE  img.bytes < End(img)
<1>1. /\ img.bytes \in Nat
      /\ img.super.s_magic = EXT4_MAGIC => Geometry(img) /\ Layout(img)
      /\ img.super.s_magic # EXT4_MAGIC => img.bytes >= 2048
  BY TheDisk
<1>2. CASE stage = "magic"
  <2>1. want[1] = 1080 /\ want[2] = 2
    BY <1>2 DEF MainWant
  <2>2. img.bytes < 2048
    BY <1>1, <2>1
  <2>3. Geometry(img) /\ Layout(img)
    BY <1>1, <2>2
  <2> QED
    BY <1>1, <2>2, <2>3, SuperFits
<1>3. CASE stage = "super"
  <2>1. want[1] = 1024 /\ want[2] = 1024
    BY <1>3 DEF MainWant
  <2>2. img.bytes < 2048
    BY <1>1, <2>1
  <2>3. Geometry(img) /\ Layout(img)
    BY <1>1, <1>3 DEF StageInv
  <2> QED
    BY <1>1, <2>2, <2>3, SuperFits
<1>4. CASE stage = "groups"
  <2>1. /\ want[1] = group_desc_offset(img.super, Len(gdesc_table))
        /\ want[2] = super_group_desc_size(img.super)
    BY <1>4 DEF MainWant
  <2>2. Geometry(img) /\ Layout(img)
    BY <1>1, <1>4 DEF StageInv
  <2>3. Len(gdesc_table) \in Nat /\ Len(gdesc_table) < Len(img.tables)
    BY <1>4 DEF StageInv, Typed
  <2>4. want[1] \in Int /\ want[2] \in Int /\ want[1] + want[2] <= End(img)
    BY <2>1, <2>2, <2>3, ReadsDesc
  <2>5. End(img) \in Int
    BY <2>2, SuperFits, SMTT(20)
  <2> QED
    BY <1>1, <2>4, <2>5
<1> QED
  BY <1>2, <1>3, <1>4 DEF MainWants

(* What a thread reads for a request.                                      *)
LEMMA ThreadWantFits ==
  ASSUME NEW d, Geometry(d), Layout(d), NEW r, RequestInv(d, r), ThreadWants(r),
         NEW want, want = ThreadWant(d, r)
  PROVE  /\ want[1] \in Int /\ want[2] \in Int /\ want[1] + want[2] <= End(d)
         /\ r.at = "inode" /\ Contents(d, want[1], want[2]) # <<"short">> =>
              Contents(d, want[1], want[2]) = <<"inode", r.n>>
         /\ r.at = "block" /\ Contents(d, want[1], want[2]) # <<"short">> =>
              Contents(d, want[1], want[2]) = <<"block", d.links[r.n].pblock>>
<1>1. CASE r.at = "inode"
  <2>1. r.n \in d.inodes
    BY <1>1 DEF RequestInv, ThreadWants
  <2>2. want[1] = inode_offset(d.super, d.tables, r.n) /\ want[2] = inode_bytes(d.super)
    BY <1>1, Zenon DEF ThreadWant
  <2> QED
    BY <1>1, <2>1, <2>2, ReadsInode
<1>2. CASE r.at = "block"
  <2>1. r.n \in DOMAIN d.links
    BY <1>2 DEF RequestInv
  <2>2. /\ want[1] = BLOCKS2BYTES(d.super, d.links[r.n].pblock)
        /\ want[2] = super_block_size(d.super)
    BY <1>2 DEF ThreadWant
  <2>3. d.links[r.n].pblock \in (d.first_data_block + 1)..(d.super.s_blocks_count_lo - 1)
    BY <2>1 DEF Layout
  <2> QED
    BY <1>2, <2>2, <2>3, ReadsBlock, SMTT(20)
<1> QED
  BY <1>1, <1>2, Zenon DEF ThreadWants

-----------------------------------------------------------------------------
(* Of an operation of one thread the stage hears nothing.                  *)
LEMMA StageKept ==
  ASSUME Typed, StageInv, NEW t \in All, todo[t] # <<>>, NEW s,
         todo' = [todo EXCEPT ![t] = s],
         UNCHANGED <<disk, stage, req, super, gdesc_table>>
  PROVE  StageInv'
<1>1. \A u \in All : u # t => todo'[u] = todo[u]
  BY DEF Typed
<1>2. main \in All /\ \A u \in Threads : u \in All /\ u # main
  BY ThreadsAssumption DEF All
<1>3. stage \in {"start", "disk", "serving"} => todo'[main] = <<>>
  BY <1>1, <1>2 DEF StageInv
<1>4. stage \notin {"serving", "exit", "aborted"} => \A u \in Threads : todo'[u] = <<>>
  <2>1. ASSUME stage \notin {"serving", "exit", "aborted"}, NEW u \in Threads
        PROVE  todo'[u] = <<>>
    BY <1>1, <1>2, <2>1 DEF StageInv
  <2> QED
    BY <2>1
<1>5. img' = img
  BY DEF img
<1> QED
  BY <1>3, <1>4, <1>5 DEF StageInv

(* An operation of one thread, and the reads of all.                       *)
LEMMA OneDoes ==
  ASSUME Typed, MainDoing, ThreadsDoing, NEW t \in All, NEW s, NEW g,
         todo' = [todo EXCEPT ![t] = s], got' = [got EXCEPT ![t] = g],
         UNCHANGED <<disk, stage, req, gdesc_table>>,
         t = main =>
           Doing(img, s, g, MainWants(stage), MainWant(img, stage, Len(gdesc_table))),
         t \in Threads =>
           Doing(img, s, g, ThreadWants(req[t]), ThreadWant(img, req[t]))
  PROVE  MainDoing' /\ ThreadsDoing'
<1>1. /\ todo'[t] = s /\ got'[t] = g
      /\ \A u \in All : u # t => todo'[u] = todo[u] /\ got'[u] = got[u]
  <2>1. todo'[t] = s /\ \A u \in All : u # t => todo'[u] = todo[u]
    BY DEF Typed
  <2>2. DOMAIN got = All
    BY DEF Typed
  <2>3. got'[t] = g /\ \A u \in All : u # t => got'[u] = got[u]
    BY <2>2, Zenon
  <2> QED
    BY <2>1, <2>3
<1>2. main \in All /\ \A u \in Threads : u \in All /\ u # main
  BY ThreadsAssumption DEF All
<1>3. img' = img
  BY DEF img
<1>4. MainDoing'
  <2>1. Doing(img, todo'[main], got'[main], MainWants(stage),
              MainWant(img, stage, Len(gdesc_table)))
    <3>1. CASE t = main
      BY <1>1, <3>1, Zenon
    <3>2. CASE t # main
      BY <1>1, <1>2, <3>2, Zenon DEF MainDoing
    <3> QED
      BY <3>1, <3>2, Zenon
  <2> QED
    BY <1>3, <2>1 DEF MainDoing
<1>5. ThreadsDoing'
  <2>1. ASSUME NEW u \in Threads
        PROVE  Doing(img, todo'[u], got'[u], ThreadWants(req[u]), ThreadWant(img, req[u]))
    <3>1. CASE t = u
      BY <1>1, <3>1, Zenon
    <3>2. CASE t # u
      BY <1>1, <1>2, <3>2 DEF ThreadsDoing
    <3> QED
      BY <3>1, <3>2
  <2> QED
    BY <1>3, <2>1 DEF ThreadsDoing
<1> QED
  BY <1>4, <1>5

(* Requests are untouched.                                                 *)
LEMMA ServeKept ==
  ASSUME ServeInv, disk' = disk, req' = req
  PROVE  ServeInv'
<1>1. img' = img
  BY DEF img
<1> QED
  BY <1>1 DEF ServeInv

(* An operation of thread t that leaves s to do and g read.                *)
LEMMA StepInv ==
  ASSUME Inv, NEW t \in All, Running(t), NEW s \in Seq(Ops), NEW g,
         todo' = [todo EXCEPT ![t] = s], got' = [got EXCEPT ![t] = g],
         lock' \in [{"log", "read"} -> All \cup {Free}], LogInv',
         UNCHANGED <<startup, stage, serving>>,
         t = main =>
           Doing(img, s, g, MainWants(stage), MainWant(img, stage, Len(gdesc_table))),
         t \in Threads =>
           Doing(img, s, g, ThreadWants(req[t]), ThreadWant(img, req[t]))
  PROVE  Inv'
<1>1. Typed /\ LogInv /\ StageInv /\ ServeInv /\ ReadInv
  BY DEF Inv
<1>2. UNCHANGED <<disk, stage, req, super, gdesc_table>>
  BY DEF startup, serving
<1>3. stage \notin {"exit", "aborted"} /\ todo[t] # <<>>
  BY DEF Running
<1>4. Typed'
  <2>1. todo' \in [All -> Seq(Ops)]
    BY <1>1 DEF Typed
  <2>2. got' = [u \in All |-> got'[u]]
    BY <1>1, Zenon DEF Typed
  <2> QED
    BY <1>1, <1>2, <2>1, <2>2 DEF Typed
<1>5. StageInv'
  BY <1>1, <1>2, <1>3, StageKept, Zenon
<1>6. ServeInv'
  BY <1>1, <1>2, ServeKept
<1>7. ReadInv'
  <2>1. MainDoing /\ ThreadsDoing
    BY <1>1, <1>3 DEF ReadInv
  <2>2. MainDoing' /\ ThreadsDoing'
    BY <1>1, <1>2, <2>1, OneDoes, Zenon
  <2> QED
    BY <2>2 DEF ReadInv
<1> QED
  BY <1>4, <1>5, <1>6, <1>7 DEF Inv

(* What thread t does is what main or a request is about.                  *)
LEMMA DoingNow ==
  ASSUME Inv, NEW t \in All, Running(t)
  PROVE  /\ t = main => Doing(img, todo[t], got[t], MainWants(stage),
                              MainWant(img, stage, Len(gdesc_table)))
         /\ t \in Threads => Doing(img, todo[t], got[t], ThreadWants(req[t]),
                                    ThreadWant(img, req[t]))
  BY DEF Inv, ReadInv, Running, MainDoing, ThreadsDoing

(* Locks and writes.                                                       *)
LEMMA QuietStep ==
  ASSUME Inv, NEW t \in All, Running(t), Op(t)[1] \in {"lock", "unlock", "write"},
         Goes(t), UNCHANGED <<startup, stage, got, serving>>,
         lock' \in [{"log", "read"} -> All \cup {Free}], LogInv'
  PROVE  Inv'
<1> DEFINE s == Tail(todo[t])
<1>1. todo[t] \in Seq(Ops) /\ todo[t] # <<>> /\ Op(t) = todo[t][1] /\ s \in Seq(Ops)
  BY FirstOp DEF Inv
<1>2. todo[t][1][1] \in {"lock", "unlock", "write"}
  BY <1>1
<1>3. t = main =>
        Doing(img, s, got[t], MainWants(stage), MainWant(img, stage, Len(gdesc_table)))
  BY <1>1, <1>2, DoingNow, TailDoing, ZenonT(30)
<1>4. t \in Threads => Doing(img, s, got[t], ThreadWants(req[t]), ThreadWant(img, req[t]))
  BY <1>1, <1>2, DoingNow, TailDoing, Zenon
<1>5. got' = [got EXCEPT ![t] = got[t]]
  BY DEF Inv, Typed
<1>6. todo' = [todo EXCEPT ![t] = s]
  BY DEF Goes
<1> HIDE DEF s
<1> QED
  BY <1>1, <1>3, <1>4, <1>5, <1>6, StepInv, Zenon

(* The operations of a thread, one lemma each: a lock is taken,            *)
LEMMA LocksInv ==
  ASSUME Inv, NEW t \in All, Locks(t)
  PROVE  Inv'
<1>1. PICK m \in {"log", "read"} :
        /\ Running(t) /\ Op(t) = <<"lock", m>> /\ lock' = [lock EXCEPT ![m] = t] /\ Goes(t)
        /\ UNCHANGED <<startup, stage, got, line, serving>>
  BY Zenon DEF Locks
<1>2. LogInv'
  BY LocksLog DEF Inv
<1>3. lock' \in [{"log", "read"} -> All \cup {Free}]
  BY <1>1 DEF Inv, Typed
<1>4. Op(t)[1] = "lock"
  BY <1>1
<1> QED
  BY <1>1, <1>2, <1>3, <1>4, QuietStep

(* a lock is given back,                                                   *)
LEMMA UnlocksInv ==
  ASSUME Inv, NEW t \in All, Unlocks(t)
  PROVE  Inv'
<1>1. PICK m \in {"log", "read"} :
        /\ Running(t) /\ Op(t) = <<"unlock", m>> /\ lock' = [lock EXCEPT ![m] = Free] /\ Goes(t)
        /\ UNCHANGED <<startup, stage, got, line, serving>>
  BY Zenon DEF Unlocks
<1>2. LogInv'
  BY UnlocksLog DEF Inv
<1>3. lock' \in [{"log", "read"} -> All \cup {Free}]
  BY <1>1 DEF Inv, Typed
<1>4. Op(t)[1] = "unlock"
  BY <1>1
<1> QED
  BY <1>1, <1>2, <1>3, <1>4, QuietStep

(* a part of a line is written.                                            *)
LEMMA WritesInv ==
  ASSUME Inv, NEW t \in All, Writes(t)
  PROVE  Inv'
<1>1. PICK part \in {"prefix", "text", "newline"} :
        /\ Running(t) /\ Op(t) = <<"write", part>> /\ Goes(t)
        /\ UNCHANGED <<startup, stage, lock, got, serving>>
  BY DEF Writes
<1>2. LogInv'
  BY WritesLog DEF Inv
<1>3. lock' \in [{"log", "read"} -> All \cup {Free}]
  BY <1>1 DEF Inv, Typed
<1>4. Op(t)[1] = "write"
  BY <1>1
<1> QED
  BY <1>1, <1>2, <1>3, <1>4, QuietStep

(* A read of the disk.                                                     *)
LEMMA PreadsInv ==
  ASSUME Inv, NEW t \in All, Preads(t)
  PROVE  Inv'
<1> DEFINE s == Tail(todo[t])
           g == Contents(img, Op(t)[2], Op(t)[3])
<1>1. /\ Running(t) /\ Op(t)[1] = "pread" /\ got' = [got EXCEPT ![t] = g] /\ Goes(t)
      /\ UNCHANGED <<startup, stage, lock, line, serving>>
  BY Zenon DEF Preads
<1>2. /\ todo[t] \in Seq(Ops) /\ todo[t] # <<>> /\ Op(t) = todo[t][1] /\ s \in Seq(Ops)
      /\ Chained(s) /\ Pos(todo[t]) = Before(Op(t)) /\ Pos(s) = After(Op(t))
  BY <1>1, FirstOp DEF Inv
<1>3. t = main =>
        Doing(img, s, g, MainWants(stage), MainWant(img, stage, Len(gdesc_table)))
  BY <1>1, <1>2, DoingNow, PreadDoing, ZenonT(30)
<1>4. t \in Threads => Doing(img, s, g, ThreadWants(req[t]), ThreadWant(img, req[t]))
  BY <1>1, <1>2, DoingNow, PreadDoing, Zenon
<1>5. Before(Op(t)) = 0 /\ After(Op(t)) = 0
  BY <1>1 DEF Before, After
<1>6. todo' = [todo EXCEPT ![t] = s]
  BY <1>1 DEF Goes
<1> HIDE DEF s, g
<1>7. LogInv'
  BY <1>1, <1>2, <1>5, <1>6, LogKept, Zenon DEF Inv
<1>8. lock' \in [{"log", "read"} -> All \cup {Free}]
  BY <1>1 DEF Inv, Typed
<1> QED
  BY <1>1, <1>2, <1>3, <1>4, <1>6, <1>7, <1>8, StepInv, Zenon

(* A thread that works is main before the process serves, and a thread of  *)
(* FUSE when it does.                                                      *)
LEMMA WhoRuns ==
  ASSUME Inv, NEW t \in All, Running(t)
  PROVE  /\ t = main \/ (t \in Threads /\ stage = "serving")
         /\ stage = "serving" => Geometry(img) /\ Layout(img)
<1>1. t \in Threads => stage = "serving"
  BY DEF Inv, StageInv, Running
<1>2. stage = "serving" => Geometry(img) /\ Layout(img)
  BY TheDisk DEF Inv, StageInv
<1> QED
  BY <1>1, <1>2 DEF All

(* The assertion behind a read.                                            *)
LEMMA ChecksInv ==
  ASSUME Inv, NEW t \in All, Checks(t)
  PROVE  Inv'
<1> DEFINE s == IF got[t] = <<"short">> THEN ASSERT_FAILS ELSE Tail(todo[t])
<1>1. /\ Running(t) /\ Op(t) = <<"check">> /\ todo' = [todo EXCEPT ![t] = s]
      /\ UNCHANGED <<startup, stage, lock, got, line, serving>>
  BY DEF Checks
<1>2. /\ todo[t] \in Seq(Ops) /\ todo[t] # <<>> /\ Op(t) = todo[t][1]
      /\ Tail(todo[t]) \in Seq(Ops) /\ Chained(Tail(todo[t]))
      /\ Pos(todo[t]) = Before(Op(t)) /\ Pos(Tail(todo[t])) = After(Op(t))
  BY <1>1, FirstOp DEF Inv
<1>3. Before(Op(t)) = 0 /\ After(Op(t)) = 0 /\ todo[t][1][1] = "check"
  BY <1>1, <1>2 DEF Before, After
<1>4. AbortCall(ASSERT_FAILS) /\ Closed(ASSERT_FAILS)
  BY AssertFailsCall, Zenon DEF AbortCall
<1>5. s \in Seq(Ops) /\ Chained(s) /\ Pos(s) = 0
  BY <1>2, <1>3, <1>4 DEF Closed
<1>6. LogInv'
  <2> HIDE DEF s
  <2> QED
    BY <1>1, <1>2, <1>3, <1>5, LogKept, ZenonT(30) DEF Inv
<1>7. img.bytes \in Nat
  BY TheDisk, Zenon DEF Inv
<1>8. ASSUME t = main
      PROVE  Doing(img, s, got[t], MainWants(stage), MainWant(img, stage, Len(gdesc_table)))
  <2> DEFINE W == MainWants(stage)
             w == MainWant(img, stage, Len(gdesc_table))
  <2>1. Doing(img, todo[t], got[t], W, w)
    BY <1>1, <1>8, DoingNow, Zenon
  <2>2. /\ W /\ got[t] = Contents(img, w[1], w[2])
        /\ got[t] # <<"short">> => Doing(img, Tail(todo[t]), got[t], W, w)
    <3> HIDE DEF W, w
    <3> QED
      BY <1>2, <1>3, <2>1, CheckDoing, Zenon
  <2>3. CASE got[t] = <<"short">>
    <3>1. w[1] + w[2] > img.bytes
      BY <2>2, <2>3, ShortRead, Zenon
    <3>2. img.bytes < End(img)
      BY <2>2, <3>1, MainWantFits, Zenon DEF Inv
    <3>3. Doing(img, ASSERT_FAILS, got[t], W, w)
      <4> HIDE DEF W, w
      <4> QED
        BY <1>4, <3>2, AbortDoing
    <3> QED
      BY <2>3, <3>3
  <2>4. CASE got[t] # <<"short">>
    BY <2>2, <2>4, ZenonT(30)
  <2> QED
    BY <2>3, <2>4
<1>9. ASSUME t \in Threads
      PROVE  Doing(img, s, got[t], ThreadWants(req[t]), ThreadWant(img, req[t]))
  <2> DEFINE W == ThreadWants(req[t])
             w == ThreadWant(img, req[t])
  <2>1. Doing(img, todo[t], got[t], W, w)
    BY <1>1, <1>9, DoingNow, Zenon
  <2>2. /\ W /\ got[t] = Contents(img, w[1], w[2])
        /\ got[t] # <<"short">> => Doing(img, Tail(todo[t]), got[t], W, w)
    <3> HIDE DEF W, w
    <3> QED
      BY <1>2, <1>3, <2>1, CheckDoing, Zenon
  <2>3. CASE got[t] = <<"short">>
    <3>1. w[1] + w[2] > img.bytes
      BY <2>2, <2>3, ShortRead, ZenonT(30)
    <3>2. Geometry(img) /\ Layout(img) /\ RequestInv(img, req[t])
      BY <1>1, <1>9, WhoRuns, ThreadsAssumption, Zenon DEF Inv, ServeInv
    <3>3. w[1] \in Int /\ w[2] \in Int /\ w[1] + w[2] <= End(img)
      BY <2>2, <3>2, ThreadWantFits, Zenon
    <3>4. img.bytes < End(img)
      <4>1. End(img) \in Int
        BY <3>2, SuperFits
      <4> HIDE DEF w
      <4> QED
        BY <1>7, <3>1, <3>3, <4>1
    <3>5. Doing(img, ASSERT_FAILS, got[t], W, w)
      <4> HIDE DEF W, w
      <4> QED
        BY <1>4, <3>4, AbortDoing
    <3> QED
      BY <2>3, <3>5
  <2>4. CASE got[t] # <<"short">>
    BY <2>2, <2>4, Zenon
  <2> QED
    BY <2>3, <2>4
<1>10. got' = [got EXCEPT ![t] = got[t]]
  BY <1>1 DEF Inv, Typed
<1>11. lock' \in [{"log", "read"} -> All \cup {Free}]
  BY <1>1 DEF Inv, Typed
<1> HIDE DEF s
<1> QED
  BY <1>1, <1>5, <1>6, <1>8, <1>9, <1>10, <1>11, StepInv, ZenonT(30)

(* Nothing of the log's section changes.                                   *)
LEMMA LogSame ==
  ASSUME LogInv, UNCHANGED <<todo, lock, line>>
  PROVE  LogInv'
  BY DEF LogInv

(* The process aborts.                                                     *)
LEMMA AbortsInv ==
  ASSUME Inv, NEW t \in All, Aborts(t)
  PROVE  Inv'
<1>1. /\ Running(t) /\ Op(t) = <<"abort">> /\ stage' = "aborted"
      /\ req' = [u \in Threads |-> Idle]
      /\ UNCHANGED <<startup, lock, todo, got, line, requests>>
  BY DEF Aborts
<1>2. UNCHANGED <<disk, super, gdesc_table>> /\ img' = img
  BY <1>1 DEF startup, img
<1>3. LastTag(todo[t]) = "abort"
  <2> DEFINE s == todo[t]
  <2>1. s \in Seq(Ops) /\ s # <<>> /\ s[1] = <<"abort">>
    BY <1>1, FirstOp DEF Inv
  <2>2. \A i \in 1..Len(s) : i < Len(s) => s[i][1] \notin {"check", "abort"}
    BY <1>1, DoingNow, Zenon DEF All, Doing
  <2> HIDE DEF s
  <2>5. s[1][1] = "abort"
    BY <2>1
  <2>3. Len(s) = 1
    BY <2>1, <2>2, <2>5, OnlyOne
  <2>4. LastTag(s) = "abort"
    BY <2>1, <2>3 DEF LastTag
  <2> QED
    BY <2>4, Zenon DEF s
<1>4. img.bytes < End(img)
  BY <1>1, <1>3, DoingNow, Zenon DEF All, Doing
<1>5. Typed'
  <2>1. \A u \in Threads : req'[u] = [op |-> "none", n |-> 0, at |-> "done", ret |-> <<>>]
    BY <1>1 DEF Idle
  <2>2. req' = [u \in Threads |->
                 [op |-> req'[u].op, n |-> req'[u].n, at |-> req'[u].at, ret |-> req'[u].ret]]
    BY <1>1, <2>1 DEF Idle
  <2> QED
    BY <1>1, <1>2, <2>2 DEF Inv, Typed, Stages
<1>6. LogInv'
  BY <1>1, LogSame, Zenon DEF Inv
<1>7. StageInv'
  BY <1>1, <1>2, <1>4 DEF StageInv
<1>8. ServeInv'
  <2>1. RequestInv(img, Idle)
    BY DEF RequestInv, Idle
  <2> QED
    BY <1>1, <1>2, <2>1 DEF ServeInv
<1>9. ReadInv'
  BY <1>1 DEF ReadInv
<1> QED
  BY <1>5, <1>6, <1>7, <1>8, <1>9 DEF Inv

-----------------------------------------------------------------------------
(* The steps of main.  The process gives up.                               *)
LEMMA ExitsInv ==
  ASSUME Inv, Exits
  PROVE  Inv'
<1>1. /\ stage \in {"start", "disk", "magic"} /\ stage' = "exit"
      /\ UNCHANGED <<startup, lock, todo, got, line, serving>>
  BY DEF Exits, At
<1>2. UNCHANGED <<disk, super, gdesc_table, req>> /\ img' = img
  BY <1>1 DEF startup, serving, img
<1>3. Typed'
  BY <1>1, <1>2 DEF Inv, Typed, Stages
<1>4. LogInv'
  BY <1>1, LogSame DEF Inv
<1>5. StageInv'
  BY <1>1, <1>2, Zenon DEF Inv, StageInv
<1>6. ServeInv'
  BY <1>2, ServeKept DEF Inv
<1>7. ReadInv'
  BY <1>1 DEF ReadInv
<1> QED
  BY <1>3, <1>4, <1>5, <1>6, <1>7 DEF Inv

(* fuse_main returns.                                                      *)
LEMMA UnmountsInv ==
  ASSUME Inv, Unmounts
  PROVE  Inv'
<1>1. /\ stage' = "exit" /\ \A t \in Threads : req[t] = Idle
      /\ UNCHANGED <<startup, lock, todo, got, line, serving>>
  BY DEF Unmounts
<1>2. UNCHANGED <<disk, super, gdesc_table, req>> /\ img' = img
  BY <1>1 DEF startup, serving, img
<1>3. Typed'
  BY <1>1, <1>2 DEF Inv, Typed, Stages
<1>4. LogInv'
  BY <1>1, LogSame DEF Inv
<1>5. StageInv'
  BY <1>1, <1>2 DEF Inv, StageInv
<1>6. ServeInv'
  BY <1>2, ServeKept DEF Inv
<1>7. ReadInv'
  BY <1>1 DEF ReadInv
<1> QED
  BY <1>3, <1>4, <1>5, <1>6, <1>7 DEF Inv

(* main goes on to stage st with the calls s, which read what is wanted    *)
(* there.                                                                  *)
LEMMA MainInv ==
  ASSUME Inv, stage \notin {"serving", "exit", "aborted"}, todo[main] = <<>>,
         NEW st \in Stages \ {"exit", "aborted"}, stage' = st,
         NEW s, Closed(s), todo' = [todo EXCEPT ![main] = s],
         UNCHANGED <<disk, lock, got, line, serving>>,
         gdesc_table' \in Seq(Nat), StageInv',
         Doing(img, s, got[main], MainWants(st), MainWant(img, st, Len(gdesc_table')))
  PROVE  Inv'
<1>1. Typed /\ LogInv /\ StageInv /\ ServeInv /\ MainDoing /\ ThreadsDoing
  BY DEF Inv, ReadInv
<1>2. img' = img /\ req' = req
  BY DEF img, serving
<1>3. main \in All /\ \A u \in Threads : u \in All /\ u # main
  BY ThreadsAssumption DEF All
<1>4. s \in Seq(Ops) /\ Chained(s) /\ Pos(s) = 0
  BY DEF Closed
<1>5. Typed'
  <2>1. todo' \in [All -> Seq(Ops)]
    BY <1>1, <1>4, Zenon DEF Typed
  <2> QED
    BY <1>1, <1>2, <2>1 DEF Typed
<1>6. LogInv'
  <2>1. Pos(todo[main]) = 0
    BY Zenon DEF Pos
  <2> QED
    BY <1>1, <1>3, <1>4, <2>1, LogKept, Zenon
<1>7. ServeInv'
  BY <1>1, <1>2, ServeKept
<1>8. todo'[main] = s /\ \A u \in Threads : todo'[u] = todo[u]
  BY <1>1, <1>3 DEF Typed
<1>9. MainDoing'
  BY <1>2, <1>8, ZenonT(30) DEF MainDoing
<1>10. ThreadsDoing'
  BY <1>1, <1>2, <1>8, ZenonT(30) DEF ThreadsDoing
<1> QED
  BY <1>5, <1>6, <1>7, <1>9, <1>10 DEF Inv, ReadInv

(* main opens the log.                                                     *)
LEMMA LoggingOpenInv ==
  ASSUME Inv, logging_open
  PROVE  Inv'
<1>1. /\ stage = "start" /\ stage' = "disk"
      /\ UNCHANGED <<disk, super, gdesc_table, lock, todo, got, line, serving>>
  BY DEF logging_open
<1>2. Typed /\ StageInv /\ todo[main] = <<>> /\ img' = img /\ req' = req
  BY <1>1 DEF Inv, StageInv, img, serving
<1>3. todo' = [todo EXCEPT ![main] = <<>>]
  BY <1>1, <1>2, Zenon DEF Typed
<1>4. StageInv'
  BY <1>1, <1>2 DEF StageInv
<1>5. Quiet(<<>>) /\ Closed(<<>>)
  BY DEF Quiet, Closed, Chained, Pos
<1>6. Doing(img, <<>>, got[main], FALSE, MainWant(img, "disk", Len(gdesc_table')))
  BY <1>5, QuietDoing, Zenon
<1>7. MainWants("disk") = FALSE
  BY DEF MainWants
<1>8. Doing(img, <<>>, got[main], MainWants("disk"), MainWant(img, "disk", Len(gdesc_table')))
  BY <1>6, <1>7, ZenonT(30)
<1>9. gdesc_table' \in Seq(Nat)
  BY <1>1, <1>2 DEF Typed
<1> QED
  BY <1>1, <1>2, <1>3, <1>4, <1>5, <1>8, <1>9, MainInv, Zenon DEF Stages

(* main goes on to a stage that reads.                                     *)
LEMMA MainReads ==
  ASSUME Inv, stage \notin {"serving", "exit", "aborted"}, todo[main] = <<>>,
         NEW st \in {"magic", "super", "groups"}, stage' = st,
         NEW want, want = MainWant(img, st, Len(gdesc_table')),
         NEW s, ReadCall(s, want[1], want[2]), todo' = [todo EXCEPT ![main] = s],
         UNCHANGED <<disk, lock, got, line, serving>>,
         gdesc_table' \in Seq(Nat), StageInv'
  PROVE  Inv'
<1>1. Doing(img, s, got[main], TRUE, want)
  BY ReadDoing, Zenon
<1>2. MainWants(st) = TRUE
  BY DEF MainWants
<1>3. Doing(img, s, got[main], MainWants(st), MainWant(img, st, Len(gdesc_table')))
  BY <1>1, <1>2, Zenon
<1>4. Closed(s)
  BY DEF ReadCall
<1> QED
  BY <1>3, <1>4, MainInv, Zenon DEF Stages

(* The stage of main changes, and what it has to do.                       *)
LEMMA StageMoves ==
  ASSUME Inv, stage \notin {"serving", "exit", "aborted"}, NEW s,
         todo' = [todo EXCEPT ![main] = s], UNCHANGED <<disk, serving>>
  PROVE  /\ img' = img /\ todo'[main] = s
         /\ \A t \in Threads : req'[t] = Idle /\ todo'[t] = <<>>
<1>1. main \in All /\ \A u \in Threads : u \in All /\ u # main
  BY ThreadsAssumption DEF All
<1>2. req' = req /\ img' = img
  BY DEF serving, img
<1>3. \A t \in Threads : req[t] = Idle /\ todo[t] = <<>>
  BY DEF Inv, StageInv
<1>4. todo'[main] = s /\ \A t \in Threads : todo'[t] = todo[t]
  BY <1>1 DEF Inv, Typed
<1> QED
  BY <1>2, <1>3, <1>4

(* disk_open reads the magic number.                                       *)
LEMMA DiskOpenInv ==
  ASSUME Inv, disk_open
  PROVE  Inv'
<1> DEFINE s == disk_read(1080, 2)
<1>1. /\ stage = "disk" /\ stage' = "magic" /\ todo' = [todo EXCEPT ![main] = s]
      /\ UNCHANGED <<startup, lock, got, line, serving>>
  BY DEF disk_open, Does, BOOT_SECTOR_SIZE, offsetof_s_magic, sizeof
<1> HIDE DEF s
<1>2. UNCHANGED <<disk, super, gdesc_table>>
  BY <1>1 DEF startup
<1>3. ReadCall(s, 1080, 2)
  BY DiskReadCall DEF s
<1>4. todo[main] = <<>> /\ gdesc_table = <<>> /\ gdesc_table' \in Seq(Nat)
  BY <1>1, <1>2 DEF Inv, StageInv, Typed
<1>5. StageInv'
  BY <1>1, <1>2, <1>4, StageMoves, Zenon DEF StageInv
<1> DEFINE w == MainWant(img, "magic", Len(gdesc_table'))
<1>6. w[1] = 1080 /\ w[2] = 2
  BY DEF MainWant
<1> HIDE DEF w
<1>7. ReadCall(s, w[1], w[2])
  BY <1>3, <1>6
<1> QED
  BY <1>1, <1>2, <1>4, <1>5, <1>7, MainReads, Zenon DEF w

(* What main has read when it comes to its next decision.                  *)
LEMMA MainHas ==
  ASSUME Inv, MainWants(stage), todo[main] = <<>>, NEW want,
         want = MainWant(img, stage, Len(gdesc_table))
  PROVE  got[main] = Contents(img, want[1], want[2]) /\ got[main] # <<"short">>
<1>1. Doing(img, <<>>, got[main], MainWants(stage), want)
  BY DEF Inv, ReadInv, MainWants, MainDoing
<1>2. LastTag(<<>>) = "none" /\ NoRead(<<>>)
  BY DEF LastTag, NoRead
<1> QED
  BY <1>1, <1>2 DEF Doing

(* op_init finds the magic number and reads the super block.               *)
LEMMA OpInitInv ==
  ASSUME Inv, op_init
  PROVE  Inv'
<1> DEFINE s == LOG \o disk_read(1024, 1024)
<1>1. /\ stage = "magic" /\ todo[main] = <<>> /\ got[main] = <<"magic", EXT4_MAGIC>>
      /\ stage' = "super" /\ todo' = [todo EXCEPT ![main] = s]
      /\ UNCHANGED <<startup, lock, got, line, serving>>
  BY DEF op_init, At, Does, BOOT_SECTOR_SIZE, sizeof
<1> HIDE DEF s
<1>2. UNCHANGED <<disk, super, gdesc_table>>
  BY <1>1 DEF startup
<1>3. ReadCall(s, 1024, 1024)
  BY DiskReadCall, LogQuiet, QuietThenRead DEF s
<1>4. gdesc_table = <<>> /\ gdesc_table' \in Seq(Nat)
  BY <1>1, <1>2 DEF Inv, StageInv, Typed
<1>5. img.super.s_magic = EXT4_MAGIC
  <2> DEFINE w == MainWant(img, stage, Len(gdesc_table))
  <2>1. w[1] = 1080 /\ w[2] = 2
    BY <1>1 DEF MainWant
  <2>2. got[main] = Contents(img, w[1], w[2]) /\ got[main] # <<"short">>
    BY <1>1, MainHas DEF MainWants
  <2> HIDE DEF w
  <2>3. got[main] = <<"magic", img.super.s_magic>>
    BY <2>1, <2>2, ReadsMagic
  <2> QED
    BY <1>1, <2>3
<1>6. StageInv'
  BY <1>1, <1>2, <1>4, <1>5, StageMoves, Zenon DEF StageInv
<1> DEFINE w == MainWant(img, "super", Len(gdesc_table'))
<1>7. w[1] = 1024 /\ w[2] = 1024
  BY DEF MainWant
<1> HIDE DEF w
<1>8. ReadCall(s, w[1], w[2])
  BY <1>3, <1>7
<1> QED
  BY <1>1, <1>2, <1>4, <1>6, <1>8, MainReads, ZenonT(30) DEF w

(* super_fill goes on to the first group descriptor.                       *)
LEMMA SuperFillInv ==
  ASSUME Inv, super_fill
  PROVE  Inv'
<1> DEFINE q == LOG \o LOG \o LOG \o LOG \o LOG
           x == group_desc_offset(img.super, 0)
           y == super_group_desc_size(img.super)
           s == q \o disk_read(x, y)
<1>1. /\ stage = "super" /\ todo[main] = <<>> /\ super' = img.super /\ stage' = "groups"
      /\ UNCHANGED <<disk, gdesc_table, lock, got, line, serving>>
  BY DEF super_fill, At
<1>2. todo' = [todo EXCEPT ![main] = s]
  BY DEF super_fill, Does
<1>3. gdesc_table = <<>> /\ gdesc_table' \in Seq(Nat) /\ img.super.s_magic = EXT4_MAGIC
  BY <1>1 DEF Inv, StageInv, Typed
<1>4. Geometry(img) /\ Layout(img)
  BY <1>3, TheDisk DEF Inv
<1>5. Len(gdesc_table) = 0 /\ 0 < Len(img.tables) /\ Len(img.tables) \in Nat
  BY <1>3, <1>4, GroupCount, Numbers
<1>6. x \in Int /\ y \in Int
  BY <1>4, <1>5, ReadsDesc
<1> HIDE DEF x, y
<1>7. Quiet(q)
  BY LogQuiet, QuietConcat
<1> HIDE DEF q
<1>8. ReadCall(s, x, y)
  BY <1>6, <1>7, DiskReadCall, QuietThenRead
<1> HIDE DEF s
<1>9. StageInv'
  <2>1. \A i \in 1..Len(gdesc_table) : FALSE
    BY <1>5
  <2> QED
    BY <1>1, <1>2, <1>3, <1>5, <2>1, StageMoves, Zenon DEF StageInv
<1> DEFINE w == MainWant(img, "groups", Len(gdesc_table'))
<1>10. w[1] = x /\ w[2] = y
  BY <1>1, <1>5 DEF MainWant, x, y
<1> HIDE DEF w
<1>11. ReadCall(s, w[1], w[2])
  BY <1>8, <1>10
<1> QED
  BY <1>1, <1>2, <1>3, <1>9, <1>11, MainReads, Zenon DEF w

(* Sequences of the same elements are the same.                            *)
LEMMA SameTables ==
  ASSUME NEW a \in Seq(Nat), NEW b \in Seq(Nat), Len(a) = Len(b),
         \A i \in 1..Len(b) : a[i] = b[i]
  PROVE  a = b
<1>1. /\ a = [i \in 1..Len(a) |-> a[i]] /\ b = [i \in 1..Len(b) |-> b[i]]
  OBVIOUS
<1> QED
  BY <1>1, Zenon

(* super_group_fill takes over a descriptor; the last one starts serving.  *)
LEMMA GroupFillInv ==
  ASSUME Inv, super_group_fill
  PROVE  Inv'
<1> DEFINE n == Len(gdesc_table)
           x == group_desc_offset(img.super, n)
           y == super_group_desc_size(img.super)
<1>1. /\ stage = "groups" /\ todo[main] = <<>>
      /\ gdesc_table' = Append(gdesc_table,
                               IF got[main][1] = "desc" THEN img.tables[got[main][2]] ELSE 0)
      /\ UNCHANGED <<disk, super, lock, got, line, serving>>
  BY Zenon DEF super_group_fill, At
<1>2. /\ gdesc_table \in Seq(Nat) /\ super = img.super /\ img.super.s_magic = EXT4_MAGIC
      /\ n < Len(img.tables) /\ \A i \in 1..n : gdesc_table[i] = img.tables[i]
  BY <1>1 DEF Inv, StageInv, Typed
<1>3. Geometry(img) /\ Layout(img) /\ img.tables \in Seq(Nat)
  <2>1. Typed
    BY DEF Inv
  <2>2. Geometry(img) /\ Layout(img)
    BY <1>2, <2>1, TheDisk, Zenon
  <2> QED
    BY <2>2 DEF Geometry
<1>4. super_n_block_groups(super) = Len(img.tables)
  BY <1>2, <1>3, GroupCount
<1>5. n \in Nat /\ Len(img.tables) \in Nat
  BY <1>2, <1>3
<1>6. got[main] = <<"desc", n + 1>>
  <2> DEFINE w == MainWant(img, stage, n)
  <2>1. w[1] = x /\ w[2] = y
    BY <1>1, Zenon DEF MainWant
  <2>2. got[main] = Contents(img, w[1], w[2]) /\ got[main] # <<"short">>
    BY <1>1, MainHas, Zenon DEF MainWants
  <2> HIDE DEF w
  <2>3. Contents(img, x, y) # <<"short">> => Contents(img, x, y) = <<"desc", n + 1>>
    BY <1>2, <1>3, <1>5, ReadsDesc
  <2> HIDE DEF x, y
  <2> QED
    BY <2>1, <2>2, <2>3
<1> HIDE DEF n, x, y
<1>7. /\ gdesc_table' = Append(gdesc_table, img.tables[n + 1]) /\ img.tables[n + 1] \in Nat
  BY <1>1, <1>2, <1>3, <1>5, <1>6
<1>8. /\ gdesc_table' \in Seq(Nat) /\ Len(gdesc_table') = n + 1
      /\ \A i \in 1..(n + 1) : gdesc_table'[i] = img.tables[i]
  <2>1. /\ gdesc_table' \in Seq(Nat) /\ Len(gdesc_table') = n + 1
        /\ gdesc_table'[n + 1] = img.tables[n + 1]
        /\ \A i \in 1..n : gdesc_table'[i] = gdesc_table[i]
    BY <1>2, <1>7 DEF n
  <2>2. \A i \in 1..(n + 1) : i \in 1..n \/ i = n + 1
    BY <1>5
  <2> QED
    BY <2>1, <2>2, <1>2
<1>9. CASE n + 1 < Len(img.tables)
  <2> DEFINE a == group_desc_offset(img.super, n + 1)
             b == super_group_desc_size(img.super)
             s == disk_read(a, b)
             w == MainWant(img, "groups", Len(gdesc_table'))
  <2>1. stage' = "groups" /\ todo' = [todo EXCEPT ![main] = s]
    BY <1>1, <1>2, <1>4, <1>8, <1>9 DEF super_group_fill, Does
  <2>2. a \in Int /\ b \in Int
    BY <1>3, <1>5, <1>9, ReadsDesc
  <2>3. w[1] = a /\ w[2] = b
    BY <1>8 DEF MainWant
  <2> HIDE DEF a, b
  <2>4. ReadCall(s, a, b)
    BY <2>2, DiskReadCall
  <2> HIDE DEF s
  <2>5. StageInv'
    BY <1>1, <1>2, <1>8, <1>9, <2>1, StageMoves, Zenon DEF StageInv
  <2> HIDE DEF w
  <2>6. ReadCall(s, w[1], w[2])
    BY <2>3, <2>4
  <2> QED
    BY <1>1, <1>8, <2>1, <2>5, <2>6, MainReads, Zenon DEF w
<1>10. CASE ~(n + 1 < Len(img.tables))
  <2>1. n + 1 = Len(img.tables)
    BY <1>2, <1>5, <1>10 DEF n
  <2>2. gdesc_table' = img.tables
    BY <1>3, <1>8, <2>1, SameTables
  <2>3. stage' = "serving" /\ todo' = todo
    BY <1>4, <1>8, <1>10 DEF super_group_fill
  <2>4. todo' = [todo EXCEPT ![main] = <<>>]
    BY <1>1, <2>3 DEF Inv, Typed
  <2>5. StageInv'
    BY <1>1, <1>2, <2>2, <2>3, <2>4, StageMoves, Zenon DEF StageInv
  <2>6. Quiet(<<>>) /\ Closed(<<>>)
    BY DEF Quiet, Closed, Chained, Pos
  <2> DEFINE w == MainWant(img, "serving", Len(gdesc_table'))
  <2> HIDE DEF w
  <2>7. Doing(img, <<>>, got[main], FALSE, w)
    BY <2>6, QuietDoing, Zenon
  <2>8. MainWants("serving") = FALSE
    BY DEF MainWants
  <2>9. Doing(img, <<>>, got[main], MainWants("serving"), w)
    BY <2>7, <2>8, Zenon
  <2> QED
    BY <1>1, <1>8, <2>3, <2>4, <2>5, <2>6, <2>9, MainInv, Zenon DEF Stages, w
<1> QED
  BY <1>9, <1>10

-----------------------------------------------------------------------------
(* The steps of a thread of FUSE.  Thread t comes to the request r, with   *)
(* the calls s, which read what r wants, and g read before.                *)
LEMMA ThreadInv ==
  ASSUME Inv, stage = "serving", NEW t \in Threads, todo[t] = <<>>,
         NEW s, Closed(s), NEW g,
         NEW r, r = [op |-> r.op, n |-> r.n, at |-> r.at, ret |-> r.ret],
         todo' = [todo EXCEPT ![t] = s], got' = [got EXCEPT ![t] = g],
         req' = [req EXCEPT ![t] = r], UNCHANGED <<startup, stage, lock, line>>,
         RequestInv(img, r), Doing(img, s, g, ThreadWants(r), ThreadWant(img, r))
  PROVE  Inv'
<1>1. Typed /\ LogInv /\ StageInv /\ ServeInv /\ MainDoing /\ ThreadsDoing
  BY DEF Inv, ReadInv
<1>2. img' = img /\ UNCHANGED <<disk, super, gdesc_table>>
  BY DEF img, startup
<1>3. main \in All /\ main # t /\ t \in All /\ \A u \in Threads : u \in All
  BY ThreadsAssumption DEF All
<1>4. s \in Seq(Ops) /\ Chained(s) /\ Pos(s) = 0
  BY DEF Closed
<1>5. DOMAIN got = All /\ DOMAIN req = Threads
  BY <1>1 DEF Typed
<1>6. /\ todo'[t] = s /\ got'[t] = g
      /\ \A u \in All : u # t => todo'[u] = todo[u] /\ got'[u] = got[u]
  <2>1. todo'[t] = s /\ \A u \in All : u # t => todo'[u] = todo[u]
    BY <1>1, <1>3 DEF Typed
  <2>2. got'[t] = g /\ \A u \in All : u # t => got'[u] = got[u]
    BY <1>3, <1>5
  <2> QED
    BY <2>1, <2>2
<1>7. req'[t] = r /\ \A u \in Threads : u # t => req'[u] = req[u]
  BY <1>5
<1>8. Typed'
  <2>1. todo' \in [All -> Seq(Ops)]
    BY <1>1, <1>4, Zenon DEF Typed
  <2>2. got' = [u \in All |-> got'[u]]
    BY <1>5, ZenonT(30)
  <2>3. ASSUME NEW u \in Threads
        PROVE  req'[u] = [op |-> req'[u].op, n |-> req'[u].n, at |-> req'[u].at,
                          ret |-> req'[u].ret]
    <3>1. CASE u = t
      BY <1>7, <3>1
    <3>2. CASE u # t
      <4>1. req[u] = [op |-> req[u].op, n |-> req[u].n, at |-> req[u].at, ret |-> req[u].ret]
        BY <1>1 DEF Typed
      <4> QED
        BY <1>7, <3>2, <4>1
    <3> QED
      BY <3>1, <3>2
  <2>4. req' = [u \in Threads |-> req'[u]]
    BY <1>5, Zenon
  <2>5. req' = [u \in Threads |->
                 [op |-> req'[u].op, n |-> req'[u].n, at |-> req'[u].at, ret |-> req'[u].ret]]
    BY <2>3, <2>4, Zenon
  <2> QED
    BY <1>1, <1>2, <2>1, <2>2, <2>5, ZenonT(30) DEF Typed
<1>9. LogInv'
  <2>1. Pos(todo[t]) = 0
    BY DEF Pos
  <2> QED
    BY <1>1, <1>3, <1>4, <2>1, LogKept, ZenonT(30)
<1>10. StageInv'
  BY <1>1, <1>2, <1>3, <1>6 DEF StageInv
<1>11. ServeInv'
  <2>1. \A u \in Threads : RequestInv(img, req'[u])
    BY <1>1, <1>7 DEF ServeInv
  <2> QED
    BY <1>2, <2>1 DEF ServeInv
<1>12. MainDoing'
  <2>1. Doing(img, todo'[main], got'[main], MainWants(stage),
              MainWant(img, stage, Len(gdesc_table)))
    BY <1>1, <1>3, <1>6 DEF MainDoing
  <2> QED
    BY <1>2, <2>1 DEF MainDoing
<1>13. ThreadsDoing'
  <2>1. ASSUME NEW u \in Threads
        PROVE  Doing(img, todo'[u], got'[u], ThreadWants(req'[u]), ThreadWant(img, req'[u]))
    <3>1. CASE t = u
      BY <1>6, <1>7, <3>1
    <3>2. CASE t # u
      BY <1>1, <1>3, <1>6, <1>7, <3>2 DEF ThreadsDoing
    <3> QED
      BY <3>1, <3>2
  <2> QED
    BY <1>2, <2>1 DEF ThreadsDoing
<1> QED
  BY <1>8, <1>9, <1>10, <1>11, <1>12, <1>13 DEF Inv, ReadInv

(* What a thread has read when it comes to its next decision.              *)
LEMMA ThreadHas ==
  ASSUME Inv, stage = "serving", NEW t \in Threads, todo[t] = <<>>, ThreadWants(req[t])
  PROVE  /\ req[t].at = "inode" => got[t] = <<"inode", req[t].n>>
         /\ req[t].at = "block" => got[t] = <<"block", img.links[req[t].n].pblock>>
<1> DEFINE w == ThreadWant(img, req[t])
<1>1. Doing(img, <<>>, got[t], ThreadWants(req[t]), w)
  BY ZenonT(30) DEF Inv, ReadInv, ThreadsDoing
<1>2. LastTag(<<>>) = "none" /\ NoRead(<<>>)
  BY SMTT(20) DEF LastTag, NoRead
<1>3. got[t] = Contents(img, w[1], w[2]) /\ got[t] # <<"short">>
  BY <1>1, <1>2, Zenon DEF Doing
<1>4. Geometry(img) /\ Layout(img) /\ RequestInv(img, req[t])
  <2>1. RequestInv(img, req[t])
    BY Zenon DEF Inv, ServeInv
  <2> QED
    BY <2>1, ServingDisk, Zenon
<1> HIDE DEF w
<1>5. ASSUME NEW d, NEW r, Geometry(d), Layout(d), RequestInv(d, r), ThreadWants(r),
             NEW g, NEW v, v = ThreadWant(d, r), g = Contents(d, v[1], v[2]), g # <<"short">>
      PROVE  /\ r.at = "inode" => g = <<"inode", r.n>>
             /\ r.at = "block" => g = <<"block", d.links[r.n].pblock>>
  BY <1>5, ThreadWantFits, Zenon
<1> QED
  BY <1>3, <1>4, <1>5, Zenon DEF w

(* A request is received: the inode of its number is read.                 *)
LEMMA ReceivesInv ==
  ASSUME Inv, NEW t \in Threads, NEW o \in {"getattr", "readlink"},
         NEW n \in img.inodes \cup {0}, o = "readlink" => n \in img.inodes,
         Receives(t, o, n)
  PROVE  Inv'
<1> DEFINE s == LOG \o inode_get_by_number(n)
           r == [op |-> o, n |-> n, at |-> "inode", ret |-> <<>>]
<1>1. /\ stage = "serving" /\ todo[t] = <<>> /\ req' = [req EXCEPT ![t] = r]
      /\ got' = [got EXCEPT ![t] = <<>>] /\ todo' = [todo EXCEPT ![t] = s]
      /\ UNCHANGED <<startup, stage, lock, line>>
  BY DEF Receives
<1>2. r.op = o /\ r.n = n /\ r.at = "inode" /\ r.ret = <<>>
  BY Zenon
<1>3. r = [op |-> r.op, n |-> r.n, at |-> r.at, ret |-> r.ret]
  BY <1>2
<1> HIDE DEF r
<1>4. RequestInv(img, r)
  BY <1>2 DEF RequestInv
<1>5. ThreadWants(r) = (n # 0)
  BY <1>2, Zenon DEF ThreadWants
<1> DEFINE w == ThreadWant(img, r)
<1>6. Closed(s) /\ Doing(img, s, <<>>, ThreadWants(r), w)
  <2>1. CASE n = 0
    <3>1. inode_get_by_number(n) = <<>>
      BY <2>1 DEF inode_get_by_number
    <3>2. Quiet(<<>>)
      BY DEF Quiet, Closed, Chained, Pos
    <3>3. Quiet(s) /\ Closed(s)
      BY <3>1, <3>2, LogQuiet, QuietConcat DEF Quiet
    <3> HIDE DEF s, w
    <3>4. Doing(img, s, <<>>, FALSE, w)
      BY <3>3, QuietDoing, Zenon
    <3>5. ThreadWants(r) = FALSE
      BY <1>5, <2>1, Zenon
    <3> QED
      BY <3>3, <3>4, <3>5, Zenon
  <2>2. CASE n # 0
    <3> DEFINE x == inode_offset(img.super, img.tables, n)
               y == inode_bytes(img.super)
    <3>1. super = img.super /\ gdesc_table = img.tables /\ Geometry(img) /\ Layout(img)
      BY <1>1, ServingDisk, Zenon
    <3>2. x \in Int /\ y \in Int /\ GroupExists(img.super, n)
      BY <2>2, <3>1, ReadsInode
    <3>3. inode_get_by_number(n) = LOG \o disk_read(x, y)
      BY <2>2, <3>1, <3>2, Zenon DEF inode_get_by_number
    <3>4. w[1] = x /\ w[2] = y
      BY <1>2 DEF ThreadWant
    <3> HIDE DEF x, y, w
    <3>5. ReadCall(LOG \o disk_read(x, y), x, y)
      BY <3>2, DiskReadCall, LogQuiet, QuietThenRead
    <3>6. ReadCall(s, x, y)
      BY <3>3, <3>5, LogQuiet, QuietThenRead
    <3> HIDE DEF s
    <3>7. ReadCall(s, w[1], w[2])
      BY <3>4, <3>6
    <3>8. Doing(img, s, <<>>, TRUE, w)
      BY <3>7, ReadDoing, Zenon
    <3>9. ThreadWants(r) = TRUE
      BY <1>5, <2>2, Zenon
    <3> QED
      BY <3>6, <3>8, <3>9, ZenonT(30) DEF ReadCall
  <2> QED
    BY <2>1, <2>2
<1> HIDE DEF s
<1> QED
  BY <1>1, <1>3, <1>4, <1>6, ThreadInv, ZenonT(30)

(* Of a request its place in the program and its answer are set.           *)
LEMMA RequestReturns ==
  ASSUME Inv, NEW t \in Threads, NEW ret, req' = [req EXCEPT ![t].at = "done", ![t].ret = ret]
  PROVE  req' = [req EXCEPT ![t] = [op |-> req[t].op, n |-> req[t].n, at |-> "done",
                                    ret |-> ret]]
<1>1. /\ req[t] = [op |-> req[t].op, n |-> req[t].n, at |-> req[t].at, ret |-> req[t].ret]
      /\ DOMAIN req = Threads
  BY DEF Inv, Typed
<1> DEFINE q == [op |-> req[t].op, n |-> req[t].n, at |-> "done", ret |-> req[t].ret]
<1>2. [req[t] EXCEPT !.at = "done"] = q
  BY <1>1
<1>3. [q EXCEPT !.ret = ret] = [op |-> req[t].op, n |-> req[t].n, at |-> "done", ret |-> ret]
  OBVIOUS
<1> HIDE DEF q
<1>4. [[req[t] EXCEPT !.at = "done"] EXCEPT !.ret = ret]
        = [op |-> req[t].op, n |-> req[t].n, at |-> "done", ret |-> ret]
  BY <1>2, <1>3, Zenon
<1> QED
  BY <1>1, <1>2, <1>4, Zenon

(* The target of a link is to be read.                                     *)
LEMMA RequestReads ==
  ASSUME Inv, NEW t \in Threads, req' = [req EXCEPT ![t].at = "block"]
  PROVE  req' = [req EXCEPT ![t] = [op |-> req[t].op, n |-> req[t].n, at |-> "block",
                                    ret |-> req[t].ret]]
<1>1. /\ req[t] = [op |-> req[t].op, n |-> req[t].n, at |-> req[t].at, ret |-> req[t].ret]
      /\ DOMAIN req = Threads
  BY DEF Inv, Typed
<1>2. [req[t] EXCEPT !.at = "block"]
        = [op |-> req[t].op, n |-> req[t].n, at |-> "block", ret |-> req[t].ret]
  BY <1>1
<1> QED
  BY <1>1, <1>2, Zenon

(* A request is finished with the answer it should have.                   *)
LEMMA ReturnsInv ==
  ASSUME Inv, stage = "serving", NEW t \in Threads, todo[t] = <<>>, req[t].op # "none",
         NEW ret, ret = Answer(img, req[t]), NEW s, Quiet(s), Returns(t, ret, s)
  PROVE  Inv'
<1> DEFINE r == [op |-> req[t].op, n |-> req[t].n, at |-> "done", ret |-> ret]
<1>1. /\ req' = [req EXCEPT ![t].at = "done", ![t].ret = ret]
      /\ todo' = [todo EXCEPT ![t] = s] /\ UNCHANGED <<startup, stage, lock, got, line>>
  BY DEF Returns
<1>2. req' = [req EXCEPT ![t] = r]
  BY <1>1, RequestReturns, ZenonT(30)
<1>3. r.op = req[t].op /\ r.n = req[t].n /\ r.at = "done" /\ r.ret = ret
  BY Zenon
<1>4. r = [op |-> r.op, n |-> r.n, at |-> r.at, ret |-> r.ret]
  BY <1>3, ZenonT(30)
<1> HIDE DEF r
<1>5. RequestInv(img, r)
  <2>1. RequestInv(img, req[t])
    BY DEF Inv, ServeInv
  <2>2. Answer(img, r) = Answer(img, req[t])
    BY <1>3 DEF Answer
  <2> QED
    BY <1>3, <2>1, <2>2, ZenonT(30) DEF RequestInv
<1>6. ThreadWants(r) = FALSE
  BY <1>3 DEF ThreadWants
<1>7. Doing(img, s, got[t], FALSE, ThreadWant(img, r))
  BY QuietDoing, Zenon
<1>8. got' = [got EXCEPT ![t] = got[t]]
  BY <1>1 DEF Inv, Typed
<1>9. Closed(s) /\ Doing(img, s, got[t], ThreadWants(r), ThreadWant(img, r))
  BY <1>6, <1>7, ZenonT(30) DEF Quiet
<1> QED
  BY <1>1, <1>2, <1>4, <1>5, <1>8, <1>9, ThreadInv, Zenon

(* op_getattr answers from the inode read, or that there is none.          *)
LEMMA GetattrInv ==
  ASSUME Inv, NEW t \in Threads, op_getattr(t)
  PROVE  Inv'
<1>1. stage = "serving" /\ req[t].op = "getattr" /\ req[t].at = "inode" /\ todo[t] = <<>>
  BY DEF op_getattr, Ready
<1>2. CASE req[t].n = 0
  <2>1. Returns(t, <<"ENOENT">>, <<>>)
    BY <1>2 DEF op_getattr
  <2>2. <<"ENOENT">> = Answer(img, req[t])
    BY <1>2 DEF Answer
  <2>3. Quiet(<<>>)
    BY DEF Quiet, Closed, Chained, Pos
  <2>4. req[t].op # "none"
    BY <1>1, Zenon
  <2> QED
    BY <1>1, <2>1, <2>2, <2>3, <2>4, ReturnsInv
<1>3. CASE req[t].n # 0
  <2>1. Returns(t, got[t], LOG)
    BY <1>3 DEF op_getattr
  <2>2. got[t] = <<"inode", req[t].n>>
    BY <1>1, <1>3, ThreadHas DEF ThreadWants
  <2>3. got[t] = Answer(img, req[t])
    BY <1>1, <1>3, <2>2 DEF Answer
  <2>4. req[t].op # "none"
    BY <1>1
  <2> QED
    BY <1>1, <2>1, <2>3, <2>4, LogQuiet, ReturnsInv, SMTT(30)
<1> QED
  BY <1>2, <1>3

(* op_readlink: a link that is none, one in its inode, one in a block.     *)
LEMMA ReadlinkInv ==
  ASSUME Inv, NEW t \in Threads, op_readlink(t)
  PROVE  Inv'
<1> DEFINE n == req[t].n
<1>1. stage = "serving" /\ req[t].op = "readlink" /\ req[t].at = "inode" /\ todo[t] = <<>>
  BY DEF op_readlink, Ready
<1>2. super = img.super /\ Geometry(img) /\ Layout(img)
  BY <1>1, ServingDisk, Zenon
<1>3. RequestInv(img, req[t]) /\ n \in img.inodes
  BY <1>1, Zenon DEF Inv, ServeInv, RequestInv
<1>4. n # 0
  BY <1>2, <1>3, ReadsInode
<1>5. got[t] = <<"inode", n>>
  BY <1>1, <1>4, ThreadHas DEF ThreadWants
<1>6. got[t][1] = "inode" /\ got[t][2] = n
  BY <1>5
<1>7. (IsLink(t) <=> n \in DOMAIN img.links) /\ Target(t) = img.links[n]
  BY <1>6 DEF IsLink, Target
<1>8. req[t].op # "none"
  BY <1>1, Zenon
<1>9. CASE ~IsLink(t) /\ Returns(t, <<"EINVAL">>, <<>>)
  <2>1. <<"EINVAL">> = Answer(img, req[t])
    BY <1>1, <1>4, <1>7, <1>9 DEF Answer
  <2>2. Quiet(<<>>)
    BY DEF Quiet, Closed, Chained, Pos
  <2> QED
    BY <1>1, <1>8, <1>9, <2>1, <2>2, ReturnsInv
<1>10. CASE IsLink(t) /\ InInode(Target(t).size) /\ Returns(t, <<"inline", got[t][2]>>, LOG)
  <2>1. img.links[n].size \in Nat \ {60} /\ img.links[n].size <= 60
    BY <1>2, <1>7, <1>10, ZenonT(30) DEF Layout, InInode
  <2>2. img.links[n].size < 60
    BY <2>1
  <2>3. <<"inline", got[t][2]>> = Answer(img, req[t])
    BY <1>1, <1>4, <1>6, <1>7, <1>10, <2>2 DEF Answer
  <2> QED
    BY <1>1, <1>8, <1>10, <2>3, LogQuiet, ReturnsInv, ZenonT(30)
<1>11. CASE /\ IsLink(t) /\ ~InInode(Target(t).size)
            /\ req' = [req EXCEPT ![t].at = "block"]
            /\ todo' = [todo EXCEPT ![t] = disk_read_block(Target(t).pblock)]
            /\ UNCHANGED <<startup, stage, lock, got, line, requests>>
  <2> DEFINE r == [op |-> req[t].op, n |-> n, at |-> "block", ret |-> req[t].ret]
             b == img.links[n].pblock
             x == BLOCKS2BYTES(img.super, b)
             y == super_block_size(img.super)
             s == disk_read(x, y)
             w == ThreadWant(img, r)
  <2>1. req' = [req EXCEPT ![t] = r]
    BY <1>11, RequestReads, Zenon
  <2>2. r.op = "readlink" /\ r.n = n /\ r.at = "block" /\ r.ret = req[t].ret
    BY <1>1
  <2>3. r = [op |-> r.op, n |-> r.n, at |-> r.at, ret |-> r.ret]
    BY Zenon
  <2> HIDE DEF r
  <2>4. w[1] = x /\ w[2] = y
    BY <2>2 DEF ThreadWant
  <2>5. todo' = [todo EXCEPT ![t] = s]
    BY <1>2, <1>7, <1>11 DEF disk_read_block
  <2>6. b \in (img.first_data_block + 1)..(img.super.s_blocks_count_lo - 1)
    BY <1>2, <1>7, <1>11, Zenon DEF Layout
  <2>7. x \in Int /\ y \in Int
    BY <1>2, <2>6, ReadsBlock
  <2>8. ThreadWants(r) = TRUE
    BY <2>2 DEF ThreadWants
  <2>9. RequestInv(img, r)
    BY <1>3, <1>7, <1>11, <2>2 DEF RequestInv
  <2> HIDE DEF x, y, w
  <2>10. ReadCall(s, x, y)
    BY <2>7, DiskReadCall
  <2> HIDE DEF s
  <2>11. ReadCall(s, w[1], w[2])
    BY <2>4, <2>10
  <2>12. Doing(img, s, got[t], TRUE, w)
    BY <2>11, ReadDoing, Zenon
  <2>13. Closed(s) /\ Doing(img, s, got[t], ThreadWants(r), w)
    BY <2>8, <2>10, <2>12, ZenonT(30) DEF ReadCall
  <2>14. got' = [got EXCEPT ![t] = got[t]]
    BY <1>11 DEF Inv, Typed
  <2> QED
    BY <1>1, <1>11, <2>1, <2>3, <2>5, <2>9, <2>13, <2>14, ThreadInv, ZenonT(60) DEF w
<1> QED
  BY <1>9, <1>10, <1>11 DEF op_readlink

(* get_link_dest answers from the block of the target.                     *)
LEMMA LinkDestInv ==
  ASSUME Inv, NEW t \in Threads, get_link_dest(t)
  PROVE  Inv'
<1> DEFINE n == req[t].n
<1>1. /\ stage = "serving" /\ req[t].op = "readlink" /\ req[t].at = "block" /\ todo[t] = <<>>
      /\ Returns(t, got[t], LOG)
  BY DEF get_link_dest, Ready
<1>2. Geometry(img) /\ Layout(img)
  BY <1>1, ServingDisk, ZenonT(30)
<1>3. n \in img.inodes /\ n \in DOMAIN img.links /\ ~(img.links[n].size <= 60)
  BY <1>1, SMTT(30) DEF Inv, ServeInv, RequestInv, InInode
<1>4. n # 0
  BY <1>2, <1>3, ReadsInode
<1>5. ~(img.links[n].size < 60)
  <2> DEFINE z == img.links[n].size
  <2>1. z \in Nat /\ ~(z <= 60)
    BY <1>2, <1>3, Zenon DEF Layout
  <2>2. \A y \in Nat : ~(y <= 60) => ~(y < 60)
    OBVIOUS
  <2> QED
    BY <2>1, <2>2, Zenon
<1>6. got[t] = <<"block", img.links[n].pblock>>
  BY <1>1, ThreadHas, Zenon DEF ThreadWants
<1>7. got[t] = Answer(img, req[t])
  BY <1>1, <1>3, <1>4, <1>5, <1>6, Zenon DEF Answer
<1>8. req[t].op # "none"
  BY <1>1
<1> QED
  BY <1>1, <1>7, <1>8, LogQuiet, ReturnsInv, Zenon

(* The answer is sent.                                                     *)
LEMMA AnswersInv ==
  ASSUME Inv, NEW t \in Threads, Answers(t)
  PROVE  Inv'
<1>1. /\ stage = "serving" /\ todo[t] = <<>> /\ req' = [req EXCEPT ![t] = Idle]
      /\ UNCHANGED <<startup, stage, lock, todo, got, line>>
  BY DEF Answers
<1>2. Idle = [op |-> Idle.op, n |-> Idle.n, at |-> Idle.at, ret |-> Idle.ret]
  BY DEF Idle
<1>3. RequestInv(img, Idle)
  BY DEF RequestInv, Idle
<1>4. ThreadWants(Idle) = FALSE
  BY DEF ThreadWants, Idle
<1>5. Quiet(<<>>) /\ Closed(<<>>)
  BY DEF Quiet, Closed, Chained, Pos
<1>6. Doing(img, <<>>, got[t], FALSE, ThreadWant(img, Idle))
  BY <1>5, QuietDoing, Zenon
<1>7. Doing(img, <<>>, got[t], ThreadWants(Idle), ThreadWant(img, Idle))
  BY <1>4, <1>6, Zenon
<1>8. got' = [got EXCEPT ![t] = got[t]]
  BY <1>1 DEF Inv, Typed
<1>9. todo' = [todo EXCEPT ![t] = <<>>]
  BY <1>1 DEF Inv, Typed
<1> QED
  BY <1>1, <1>2, <1>3, <1>5, <1>7, <1>8, <1>9, ThreadInv, Zenon

-----------------------------------------------------------------------------
(* The process starts with nothing to do and nothing read.                 *)
LEMMA InitInv == Init => Inv
<1> SUFFICES ASSUME Init PROVE Inv
  OBVIOUS
<1>1. /\ disk \in DOMAIN Images /\ stage = "start" /\ gdesc_table = <<>>
      /\ lock = [m \in {"log", "read"} |-> Free] /\ line = <<>>
      /\ todo = [t \in All |-> <<>>] /\ got = [t \in All |-> <<>>]
      /\ req = [t \in Threads |-> Idle]
  BY DEF Init
<1>2. /\ \A t \in All : todo[t] = <<>> /\ got[t] = <<>>
      /\ \A t \in Threads : req[t] = Idle /\ t \in All
      /\ main \in All /\ Free \notin All
  BY <1>1, ThreadsAssumption, Zenon DEF All
<1>3. Typed
  <2>1. todo \in [All -> Seq(Ops)]
    BY <1>1
  <2>2. got = [t \in All |-> got[t]]
    BY <1>1
  <2>3. req = [t \in Threads |->
                [op |-> req[t].op, n |-> req[t].n, at |-> req[t].at, ret |-> req[t].ret]]
    BY <1>1 DEF Idle
  <2>4. gdesc_table \in Seq(Nat)
    BY <1>1
  <2>5. lock \in [{"log", "read"} -> All \cup {Free}]
    BY <1>1
  <2> QED
    BY <1>1, <2>1, <2>2, <2>3, <2>4, <2>5 DEF Typed, Stages
<1>4. LogInv
  <2>1. Chained(<<>>) /\ Pos(<<>>) = 0
    BY DEF Chained, Pos
  <2>2. lock["log"] = Free
    BY <1>1
  <2> QED
    BY <1>1, <1>2, <2>1, <2>2 DEF LogInv, Ended
<1>5. StageInv
  BY <1>1, <1>2 DEF StageInv
<1>6. ServeInv
  <2>1. RequestInv(img, Idle)
    BY DEF RequestInv, Idle
  <2> QED
    BY <1>2, <2>1, SMTT(30) DEF ServeInv
<1>7. ReadInv
  <2>1. Quiet(<<>>)
    BY DEF Quiet, Closed, Chained, Pos
  <2>2. MainDoing
    <3>1. Doing(img, <<>>, got[main], FALSE, MainWant(img, stage, Len(gdesc_table)))
      BY <2>1, QuietDoing, ZenonT(30)
    <3>2. MainWants(stage) = FALSE
      BY <1>1, SMTT(30) DEF MainWants
    <3> QED
      BY <1>2, <3>1, <3>2, Zenon DEF MainDoing
  <2>3. ThreadsDoing
    <3>1. ASSUME NEW t \in Threads
          PROVE  Doing(img, todo[t], got[t], ThreadWants(req[t]), ThreadWant(img, req[t]))
      <4>1. Doing(img, <<>>, got[t], FALSE, ThreadWant(img, req[t]))
        BY <2>1, QuietDoing, Zenon
      <4>2. ThreadWants(req[t]) = FALSE
        BY <1>2 DEF ThreadWants, Idle
      <4> QED
        BY <1>2, <4>1, <4>2, Zenon
    <3> QED
      BY <3>1 DEF ThreadsDoing
  <2> QED
    BY <2>2, <2>3 DEF ReadInv
<1> QED
  BY <1>3, <1>4, <1>5, <1>6, <1>7 DEF Inv

(* Nothing happens.                                                        *)
LEMMA StutterInv ==
  ASSUME Inv, UNCHANGED vars
  PROVE  Inv'
<1>1. UNCHANGED <<disk, super, gdesc_table, stage, lock, todo, got, line, req>>
  BY DEF vars, startup, serving
<1>2. img' = img
  BY <1>1 DEF img
<1>3. Typed'
  BY <1>1 DEF Inv, Typed
<1>4. LogInv'
  BY <1>1, LogSame, ZenonT(30) DEF Inv
<1>5. StageInv'
  BY <1>1, <1>2 DEF Inv, StageInv
<1>6. ServeInv'
  BY <1>1, ServeKept DEF Inv
<1>7. ReadInv'
  BY <1>1, <1>2, Zenon DEF Inv, ReadInv, MainDoing, ThreadsDoing
<1> QED
  BY <1>3, <1>4, <1>5, <1>6, <1>7 DEF Inv

(* Every step of the process keeps the invariant.                          *)
LEMMA NextInv == Inv /\ [Next]_vars => Inv'
<1> SUFFICES ASSUME Inv, [Next]_vars PROVE Inv'
  OBVIOUS
<1>1. CASE Main
  BY <1>1, ExitsInv, LoggingOpenInv, DiskOpenInv, OpInitInv, SuperFillInv, GroupFillInv
  DEF Main
<1>2. CASE Unmounts
  BY <1>2, UnmountsInv
<1>3. CASE \E t \in All : Step(t)
  BY <1>3, LocksInv, UnlocksInv, WritesInv, PreadsInv, ChecksInv, AbortsInv, Zenon DEF Step
<1>4. CASE \E t \in Threads : Request(t)
  <2>1. PICK t \in Threads : Request(t)
    BY <1>4
  <2>2. CASE \E n \in img.inodes \cup {0} : Receives(t, "getattr", n)
    <3>1. PICK n \in img.inodes \cup {0} : Receives(t, "getattr", n)
      BY <2>2
    <3> QED
      BY <3>1, ReceivesInv
  <2>3. CASE \E n \in img.inodes : Receives(t, "readlink", n)
    <3>1. PICK n \in img.inodes : Receives(t, "readlink", n)
      BY <2>3
    <3> QED
      BY <3>1, ReceivesInv, Zenon
  <2> QED
    BY <2>1, <2>2, <2>3 DEF Request
<1>5. CASE \E t \in Threads : Serve(t)
  BY <1>5, GetattrInv, ReadlinkInv, LinkDestInv, AnswersInv DEF Serve
<1>6. CASE Finished \/ UNCHANGED vars
  BY <1>6, StutterInv DEF Finished
<1> QED
  BY <1>1, <1>2, <1>3, <1>4, <1>5, <1>6 DEF Next

-----------------------------------------------------------------------------
(* The inductive invariant holds in every state of the process: who is in  *)
(* the section of __LOG, what each stage and each request knows, and which *)
(* read every thread is at.                                                *)
THEOREM MountInvariant == Spec => []Inv
  BY InitInv, NextInv, PTL DEF Spec

(* Whatever threads call __LOG at the same time, the log ends with a line, *)
(* or a part of one, of a single thread.                                   *)
THEOREM LinesCorrect == Spec => []LinesWhole
<1>1. Inv => LinesWhole
  <2> SUFFICES ASSUME Inv PROVE LinesWhole
    OBVIOUS
  <2>1. main \in All
    BY DEF All
  <2>2. ASSUME NEW t \in All, NEW k \in 1..3, line = Written(t, k)
        PROVE  LinesWhole
    <3>1. Len(line) = k
      BY <2>2 DEF Written
    <3> QED
      BY <2>2, <3>1 DEF LinesWhole, Written
  <2>3. CASE line = <<>>
    <3>1. line = [k \in 1..Len(line) |-> <<main, Parts[k]>>]
      BY <2>3
    <3> QED
      BY <2>1, <3>1 DEF LinesWhole
  <2>4. CASE \E t \in All : Pos(todo[t]) \in 2..4
    <3>1. PICK t \in All : Pos(todo[t]) \in 2..4
      BY <2>4
    <3>2. line = Written(t, Pos(todo[t]) - 1) /\ Pos(todo[t]) - 1 \in 1..3
      <4> DEFINE p == Pos(todo[t])
      <4>1. line = Written(t, p - 1)
        BY <3>1, Zenon DEF Inv, LogInv
      <4>2. p \in 2..4
        BY <3>1
      <4> HIDE DEF p
      <4>3. p - 1 \in 1..3
        BY <4>2
      <4> QED
        BY <4>1, <4>3 DEF p
    <3> QED
      BY <2>2, <3>2
  <2>5. CASE line # <<>> /\ \A t \in All : Pos(todo[t]) \notin 2..4
    <3>1. PICK t \in All : line = Written(t, 3)
      BY <2>5 DEF Inv, LogInv, Ended
    <3> QED
      BY <2>2, <3>1, SMTT(30)
  <2> QED
    BY <2>3, <2>4, <2>5
<1> QED
  BY <1>1, MountInvariant, PTL

(* A process that serves has found an ext4 file system and has in          *)
(* gdesc_table, for each group, the descriptor of that group: the reads of *)
(* disk_open, super_fill and super_group_fill meet what ext4 has put there.*)
THEOREM ServesCorrect == Spec => []ServesWhatIsThere
<1>1. Inv => ServesWhatIsThere
  BY Zenon DEF Inv, StageInv, ServesWhatIsThere
<1> QED
  BY <1>1, MountInvariant, PTL

(* Every getattr and readlink is answered from the inode asked for and     *)
(* from the place ext4 keeps the target in, whatever other threads read.   *)
THEOREM AnswersCorrect == Spec => []Answered
<1>1. Inv => Answered
  BY DEF Inv, ServeInv, RequestInv, Answered
<1> QED
  BY <1>1, MountInvariant, PTL

(* The assertions of __disk_read and of inode_get_by_number only fail on a *)
(* disk that ends before its file system does.                             *)
THEOREM AbortsCorrect == Spec => []AbortsOnlyIfCut
<1>1. Inv => AbortsOnlyIfCut
  BY DEF Inv, StageInv, AbortsOnlyIfCut, End
<1> QED
  BY <1>1, MountInvariant, PTL

-----------------------------------------------------------------------------
(* The order of the two locks.  The operations on the lock of __disk_read. *)
TakeRead == <<"lock", "read">>
GiveRead == <<"unlock", "read">>
OnRead(o) == o = TakeRead \/ o = GiveRead

(* Work without that lock; that leaves it held; that only gives it back;   *)
(* that takes it once and gives it back.                                   *)
Apart(s) == \A i \in 1..Len(s) : ~OnRead(s[i])
Opened(s) ==
  \E i \in 1..Len(s) : s[i] = TakeRead /\ \A k \in 1..Len(s) : k # i => ~OnRead(s[k])
Within(s) ==
  \E j \in 1..Len(s) : s[j] = GiveRead /\ \A k \in 1..Len(s) : k # j => ~OnRead(s[k])
Whole(s) ==
  \E i, j \in 1..Len(s) :
    /\ i < j /\ s[i] = TakeRead /\ s[j] = GiveRead
    /\ \A k \in 1..Len(s) : k # i /\ k # j => ~OnRead(s[k])

(* Who holds the lock of __disk_read has to give it back, once, and nobody *)
(* else gives it back without having taken it.                             *)
ReadLockInv ==
  \A t \in All : IF lock["read"] = t THEN Within(todo[t])
                 ELSE Apart(todo[t]) \/ Whole(todo[t])

(* The indices of calls one after the other.                               *)
LEMMA JoinedAt ==
  ASSUME NEW S, NEW s \in Seq(S), NEW r \in Seq(S), NEW k \in 1..Len(s \o r)
  PROVE  \/ k \in 1..Len(s) /\ (s \o r)[k] = s[k]
         \/ k - Len(s) \in 1..Len(r) /\ (s \o r)[k] = r[k - Len(s)]
<1> DEFINE c == s \o r
           m == Len(s)
           n == Len(r)
<1>1. /\ Len(c) = m + n /\ m \in Nat /\ n \in Nat
      /\ \A i \in 1..m : c[i] = s[i]
      /\ \A i \in 1..n : c[m + i] = r[i]
  BY Joined
<1>2. k \in 1..Len(c)
  OBVIOUS
<1> HIDE DEF c, m, n
<1>3. CASE k <= m
  BY <1>1, <1>2, <1>3 DEF c, m, n
<1>4. CASE k > m
  <2>1. k - m \in 1..n /\ m + (k - m) = k
    BY <1>1, <1>2, <1>4
  <2> QED
    BY <1>1, <2>1 DEF c, m, n
<1> QED
  BY <1>1, <1>2, <1>3, <1>4

(* Calls one after the other, as __disk_read and its callers put them      *)
(* together.                                                               *)
LEMMA ReadLockConcat ==
  ASSUME NEW S, NEW s \in Seq(S), NEW r \in Seq(S)
  PROVE  /\ s \o r \in Seq(S)
         /\ Apart(s) /\ Apart(r) => Apart(s \o r)
         /\ Apart(s) /\ Whole(r) => Whole(s \o r)
         /\ Opened(s) /\ Apart(r) => Opened(s \o r)
         /\ Opened(s) /\ Within(r) => Whole(s \o r)
         /\ Whole(s) /\ Apart(r) => Whole(s \o r)
<1> DEFINE c == s \o r
           m == Len(s)
           n == Len(r)
<1>0. c \in Seq(S)
  BY Joined
<1>1. /\ Len(c) = m + n /\ m \in Nat /\ n \in Nat
      /\ \A i \in 1..m : c[i] = s[i]
      /\ \A i \in 1..n : c[m + i] = r[i]
  BY Joined
<1>2. \A k \in 1..Len(c) : \/ k \in 1..m /\ c[k] = s[k]
                           \/ k - m \in 1..n /\ c[k] = r[k - m]
  BY JoinedAt, Zenon
<1> HIDE DEF c, m, n
<1>3. ASSUME Apart(s), Apart(r) PROVE Apart(c)
  BY <1>1, <1>2, <1>3 DEF Apart, m, n
<1>4. ASSUME Apart(s), Whole(r) PROVE Whole(c)
  <2>1. PICK i \in 1..n, j \in 1..n :
          /\ i < j /\ r[i] = TakeRead /\ r[j] = GiveRead
          /\ \A k \in 1..n : k # i /\ k # j => ~OnRead(r[k])
    BY <1>4 DEF Whole, n
  <2>2. /\ m + i \in 1..Len(c) /\ m + j \in 1..Len(c) /\ m + i < m + j
        /\ c[m + i] = TakeRead /\ c[m + j] = GiveRead
    BY <1>1, <2>1
  <2>3. \A k \in 1..Len(c) : k # m + i /\ k # m + j => ~OnRead(c[k])
    <3>1. \A k \in 1..m : ~OnRead(s[k])
      BY <1>4 DEF Apart, m
    <3> SUFFICES ASSUME NEW k \in 1..Len(c), k # m + i, k # m + j PROVE ~OnRead(c[k])
      OBVIOUS
    <3>2. CASE k \in 1..m /\ c[k] = s[k]
      BY <3>1, <3>2
    <3>3. CASE k - m \in 1..n /\ c[k] = r[k - m]
      <4>1. k - m # i /\ k - m # j
        BY <1>1, <2>1
      <4> QED
        BY <2>1, <3>3, <4>1
    <3> QED
      BY <1>2, <3>2, <3>3
  <2> QED
    BY <2>2, <2>3 DEF Whole
<1>5. ASSUME Opened(s), Apart(r) PROVE Opened(c)
  <2>1. PICK i \in 1..m : s[i] = TakeRead /\ \A k \in 1..m : k # i => ~OnRead(s[k])
    BY <1>5 DEF Opened, m
  <2>2. i \in 1..Len(c) /\ c[i] = TakeRead
    BY <1>1, <2>1
  <2>3. \A k \in 1..Len(c) : k # i => ~OnRead(c[k])
    BY <1>1, <1>2, <1>5, <2>1 DEF Apart, n
  <2> QED
    BY <2>2, <2>3 DEF Opened
<1>6. ASSUME Opened(s), Within(r) PROVE Whole(c)
  <2>1. PICK i \in 1..m : s[i] = TakeRead /\ \A k \in 1..m : k # i => ~OnRead(s[k])
    BY <1>6 DEF Opened, m
  <2>2. PICK j \in 1..n : r[j] = GiveRead /\ \A k \in 1..n : k # j => ~OnRead(r[k])
    BY <1>6 DEF Within, n
  <2>3. /\ i \in 1..Len(c) /\ m + j \in 1..Len(c) /\ i < m + j
        /\ c[i] = TakeRead /\ c[m + j] = GiveRead
    BY <1>1, <2>1, <2>2
  <2>4. \A k \in 1..Len(c) : k # i /\ k # m + j => ~OnRead(c[k])
    <3> SUFFICES ASSUME NEW k \in 1..Len(c), k # i, k # m + j PROVE ~OnRead(c[k])
      OBVIOUS
    <3>1. CASE k \in 1..m /\ c[k] = s[k]
      BY <2>1, <3>1
    <3>2. CASE k - m \in 1..n /\ c[k] = r[k - m]
      <4>1. k - m # j
        BY <1>1, <2>2, SMTT(30)
      <4> QED
        BY <2>2, <3>2, <4>1
    <3> QED
      BY <1>2, <3>1, <3>2
  <2> QED
    BY <2>3, <2>4 DEF Whole
<1>7. ASSUME Whole(s), Apart(r) PROVE Whole(c)
  <2>1. PICK i \in 1..m, j \in 1..m :
          /\ i < j /\ s[i] = TakeRead /\ s[j] = GiveRead
          /\ \A k \in 1..m : k # i /\ k # j => ~OnRead(s[k])
    BY <1>7 DEF Whole, m
  <2>2. /\ i \in 1..Len(c) /\ j \in 1..Len(c)
        /\ c[i] = TakeRead /\ c[j] = GiveRead
    BY <1>1, <2>1
  <2>3. \A k \in 1..Len(c) : k # i /\ k # j => ~OnRead(c[k])
    BY <1>1, <1>2, <1>7, <2>1 DEF Apart, n
  <2> QED
    BY <2>1, <2>2, <2>3 DEF Whole
<1> QED
  BY <1>0, <1>3, <1>4, <1>5, <1>6, <1>7 DEF c

(* One operation at a time.                                                *)
LEMMA OneOpLock ==
  ASSUME NEW o
  PROVE  /\ ~OnRead(o) => Apart(<<o>>)
         /\ o = TakeRead => Opened(<<o>>)
         /\ o = GiveRead => Within(<<o>>)
<1> DEFINE s == <<o>>
<1>1. Len(s) = 1 /\ s[1] = o
  OBVIOUS
<1> HIDE DEF s
<1>2. 1 \in 1..Len(s) /\ \A k \in 1..Len(s) : k = 1
  BY <1>1
<1>3. /\ ~OnRead(o) => Apart(s)
      /\ o = TakeRead => Opened(s)
      /\ o = GiveRead => Within(s)
  BY <1>1, <1>2 DEF Apart, Opened, Within
<1> QED
  BY <1>3 DEF s

(* __LOG leaves the lock of __disk_read alone.                             *)
LEMMA LogApart == Apart(LOG) /\ LOG \in Seq(Ops)
<1>1. LOG \in Seq(Ops)
  BY LogQuiet DEF Quiet, Closed
<1> DEFINE W == [k \in 1..3 |-> <<"write", Parts[k]>>]
           A == Lock("log")
           E == Unlock("log")
<1>2. W \in Seq(Ops) /\ Apart(W)
  <2>1. Parts[1] = "prefix" /\ Parts[2] = "text" /\ Parts[3] = "newline"
    BY DEF Parts
  <2>2. \A k \in 1..3 : <<"write", Parts[k]>> \in Ops /\ ~OnRead(<<"write", Parts[k]>>)
    BY <2>1 DEF Ops, OnRead, TakeRead, GiveRead
  <2>3. W \in Seq(Ops) /\ Len(W) = 3 /\ \A k \in 1..3 : ~OnRead(W[k])
    BY <2>2
  <2> HIDE DEF W
  <2> QED
    BY <2>3 DEF Apart
<1>3. A \in Seq(Ops) /\ Apart(A) /\ E \in Seq(Ops) /\ Apart(E)
  <2>1. ~OnRead(<<"lock", "log">>) /\ ~OnRead(<<"unlock", "log">>)
    BY DEF OnRead, TakeRead, GiveRead
  <2>2. <<"lock", "log">> \in Ops /\ <<"unlock", "log">> \in Ops
    BY DEF Ops
  <2> QED
    BY <2>1, <2>2, OneOpLock DEF Lock, Unlock
<1> HIDE DEF W, A, E
<1>4. A \o W \in Seq(Ops) /\ Apart(A \o W)
  BY <1>2, <1>3, ReadLockConcat
<1>5. Apart((A \o W) \o E)
  BY <1>3, <1>4, ReadLockConcat
<1>6. Apart(<<>>)
  BY DEF Apart
<1> QED
  BY <1>1, <1>5, <1>6 DEF LOG, A, W, E

(* __disk_read takes its lock once and gives it back.                      *)
LEMMA DiskReadWhole ==
  ASSUME NEW w, NEW z
  PROVE  /\ Whole(disk_read(w, z)) /\ Whole(LOG \o disk_read(w, z))
         /\ Whole(LOG \o (LOG \o disk_read(w, z)))
         /\ Whole(LOG \o LOG \o LOG \o LOG \o LOG \o disk_read(w, z))
<1> DEFINE p == <<"pread", w, z>>
           S == Ops \cup {p}
           K == <<TakeRead>>
           P == <<p>>
           U == <<GiveRead>>
           C == <<<<"check">>>>
           l == LOG
<1>1. ~OnRead(p) /\ ~OnRead(<<"check">>)
  BY DEF OnRead, TakeRead, GiveRead
<1>2. TakeRead \in S /\ GiveRead \in S /\ <<"check">> \in S /\ p \in S
  BY DEF Ops, TakeRead, GiveRead
<1>3. l \in Seq(S) /\ Apart(l)
  BY LogApart
<1>4. disk_read(w, z) = K \o l \o P \o U \o C
  BY DEF disk_read, Lock, Unlock, TakeRead, GiveRead
<1> HIDE DEF p, S, l
<1>5. K \in Seq(S) /\ P \in Seq(S) /\ U \in Seq(S) /\ C \in Seq(S)
  BY <1>2
<1>6. Opened(K) /\ Apart(P) /\ Within(U) /\ Apart(C)
  BY <1>1, OneOpLock
<1> HIDE DEF K, P, U, C
<1>7. Opened(K \o l) /\ K \o l \in Seq(S)
  BY <1>3, <1>5, <1>6, ReadLockConcat, Zenon
<1>8. Opened((K \o l) \o P) /\ (K \o l) \o P \in Seq(S)
  BY <1>5, <1>6, <1>7, ReadLockConcat, Zenon
<1>9. Whole(((K \o l) \o P) \o U) /\ ((K \o l) \o P) \o U \in Seq(S)
  BY <1>5, <1>6, <1>8, ReadLockConcat, Zenon
<1> DEFINE d == disk_read(w, z)
<1>10. Whole(d) /\ d \in Seq(S)
  <2>1. Whole((((K \o l) \o P) \o U) \o C) /\ (((K \o l) \o P) \o U) \o C \in Seq(S)
    BY <1>5, <1>6, <1>9, ReadLockConcat, Zenon
  <2> QED
    BY <1>4, <2>1
<1> HIDE DEF d
<1>11. Whole(l \o d) /\ l \o d \in Seq(S)
  BY <1>3, <1>10, ReadLockConcat, Zenon
<1>12. Whole(l \o (l \o d))
  BY <1>3, <1>11, ReadLockConcat, Zenon
<1>13. Apart(l \o l) /\ l \o l \in Seq(S)
  BY <1>3, ReadLockConcat, Zenon
<1>14. Apart((l \o l) \o l) /\ (l \o l) \o l \in Seq(S)
  BY <1>3, <1>13, ReadLockConcat, Zenon
<1>15. Apart(((l \o l) \o l) \o l) /\ ((l \o l) \o l) \o l \in Seq(S)
  BY <1>3, <1>14, ReadLockConcat, Zenon
<1>16. Apart((((l \o l) \o l) \o l) \o l) /\ (((l \o l) \o l) \o l) \o l \in Seq(S)
  BY <1>3, <1>15, ReadLockConcat, Zenon
<1>17. Whole(((((l \o l) \o l) \o l) \o l) \o d)
  BY <1>10, <1>16, ReadLockConcat, Zenon
<1> QED
  BY <1>10, <1>11, <1>12, <1>17, Zenon DEF d, l

(* A failed assertion only logs before it aborts.                          *)
LEMMA AssertFailsApart == Apart(ASSERT_FAILS) /\ Apart(LOG \o ASSERT_FAILS)
<1> DEFINE A == <<<<"abort">>>>
<1>1. A \in Seq(Ops) /\ Apart(A)
  <2>1. <<"abort">> \in Ops /\ ~OnRead(<<"abort">>)
    BY DEF Ops, OnRead, TakeRead, GiveRead
  <2> QED
    BY <2>1, OneOpLock
<1> HIDE DEF A
<1>2. Apart(LOG \o A) /\ LOG \o A \in Seq(Ops)
  BY <1>1, LogApart, ReadLockConcat, Zenon
<1>3. Apart(LOG \o (LOG \o A))
  BY <1>2, LogApart, ReadLockConcat, Zenon
<1> QED
  BY <1>2, <1>3 DEF ASSERT_FAILS, A

(* What is left after an operation.                                        *)
LEMMA ReadLockTail ==
  ASSUME NEW s \in Seq(Ops), s # <<>>
  PROVE  /\ Apart(s) => Apart(Tail(s)) /\ ~OnRead(s[1])
         /\ Within(s) /\ s[1] = GiveRead => Apart(Tail(s))
         /\ Within(s) /\ s[1] # GiveRead => Within(Tail(s)) /\ s[1] # TakeRead
         /\ Whole(s) /\ s[1] = TakeRead => Within(Tail(s))
         /\ Whole(s) /\ s[1] # TakeRead => Whole(Tail(s)) /\ s[1] # GiveRead
<1> DEFINE r == Tail(s)
           n == Len(s)
<1>1. /\ Len(r) = n - 1 /\ n \in Nat \ {0} /\ \A i \in 1..(n - 1) : r[i] = s[i + 1]
  BY TailOf
<1> HIDE DEF r, n
<1>2. 1 \in 1..n /\ TakeRead # GiveRead
  BY <1>1 DEF TakeRead, GiveRead
<1>3. ASSUME NEW i \in 1..Len(r) PROVE i + 1 \in 1..n /\ i + 1 # 1 /\ r[i] = s[i + 1]
  BY <1>1
<1>4. ASSUME NEW i \in 1..n, i # 1 PROVE i - 1 \in 1..Len(r) /\ r[i - 1] = s[i]
  BY <1>1, <1>4
<1>5. ASSUME Apart(s) PROVE Apart(r) /\ ~OnRead(s[1])
  BY <1>2, <1>3, <1>5 DEF Apart, n
<1>6. ASSUME Within(s)
      PROVE  /\ s[1] = GiveRead => Apart(r)
             /\ s[1] # GiveRead => Within(r) /\ s[1] # TakeRead
  <2>1. PICK j \in 1..n : s[j] = GiveRead /\ \A k \in 1..n : k # j => ~OnRead(s[k])
    BY <1>6 DEF Within, n
  <2>2. ASSUME s[1] = GiveRead PROVE Apart(r)
    <3>1. j = 1
      BY <1>2, <2>1, <2>2 DEF OnRead
    <3> QED
      BY <1>3, <2>1, <3>1 DEF Apart
  <2>3. ASSUME s[1] # GiveRead PROVE Within(r) /\ s[1] # TakeRead
    <3>1. j # 1 /\ s[1] # TakeRead
      BY <1>2, <2>1, <2>3 DEF OnRead
    <3>2. j - 1 \in 1..Len(r) /\ r[j - 1] = GiveRead
      BY <1>4, <2>1, <3>1
    <3>3. ASSUME NEW k \in 1..Len(r), k # j - 1 PROVE ~OnRead(r[k])
      <4>1. k + 1 \in 1..n /\ k + 1 # j /\ r[k] = s[k + 1]
        BY <1>3, <3>3
      <4> QED
        BY <2>1, <4>1
    <3> QED
      BY <3>1, <3>2, <3>3 DEF Within
  <2> QED
    BY <2>2, <2>3
<1>7. ASSUME Whole(s)
      PROVE  /\ s[1] = TakeRead => Within(r)
             /\ s[1] # TakeRead => Whole(r) /\ s[1] # GiveRead
  <2>1. PICK i \in 1..n, j \in 1..n :
          /\ i < j /\ s[i] = TakeRead /\ s[j] = GiveRead
          /\ \A k \in 1..n : k # i /\ k # j => ~OnRead(s[k])
    BY <1>7 DEF Whole, n
  <2>2. j # 1
    BY <2>1
  <2>3. j - 1 \in 1..Len(r) /\ r[j - 1] = GiveRead
    BY <1>4, <2>1, <2>2
  <2>4. ASSUME s[1] = TakeRead PROVE Within(r)
    <3>1. i = 1
      BY <1>2, <2>1, <2>2, <2>4 DEF OnRead
    <3>2. ASSUME NEW k \in 1..Len(r), k # j - 1 PROVE ~OnRead(r[k])
      <4>1. k + 1 \in 1..n /\ k + 1 # i /\ k + 1 # j /\ r[k] = s[k + 1]
        BY <1>3, <3>1, <3>2
      <4> QED
        BY <2>1, <4>1
    <3> QED
      BY <2>3, <3>2 DEF Within
  <2>5. ASSUME s[1] # TakeRead PROVE Whole(r) /\ s[1] # GiveRead
    <3>1. i # 1 /\ s[1] # GiveRead
      BY <1>2, <2>1, <2>2, <2>5 DEF OnRead
    <3>2. i - 1 \in 1..Len(r) /\ r[i - 1] = TakeRead /\ i - 1 < j - 1
      BY <1>4, <2>1, <3>1
    <3>3. ASSUME NEW k \in 1..Len(r), k # i - 1, k # j - 1 PROVE ~OnRead(r[k])
      <4>1. k + 1 \in 1..n /\ k + 1 # i /\ k + 1 # j /\ r[k] = s[k + 1]
        BY <1>3, <3>3
      <4> QED
        BY <2>1, <4>1
    <3> QED
      BY <2>3, <3>1, <3>2, <3>3, Zenon DEF Whole
  <2> QED
    BY <2>4, <2>5
<1> QED
  BY <1>5, <1>6, <1>7 DEF r

(* Steps that begin nothing.                                               *)
LEMMA ReadLockSame ==
  ASSUME ReadLockInv, UNCHANGED <<lock, todo>>
  PROVE  ReadLockInv'
<1> SUFFICES ASSUME NEW t \in All
             PROVE  (IF lock["read"] = t THEN Within(todo[t])
                     ELSE Apart(todo[t]) \/ Whole(todo[t]))'
  BY DEF ReadLockInv
<1>1. IF lock["read"] = t THEN Within(todo[t]) ELSE Apart(todo[t]) \/ Whole(todo[t])
  BY DEF ReadLockInv
<1>2. lock' = lock /\ todo' = todo
  OBVIOUS
<1> QED
  BY <1>1, <1>2, Zenon DEF Within, Apart, Whole

(* A thread that leaves the locks alone.                                   *)
LEMMA ReadLockKept ==
  ASSUME Typed, ReadLockInv, NEW t \in All, NEW s, todo' = [todo EXCEPT ![t] = s],
         lock'["read"] = lock["read"],
         IF lock["read"] = t THEN Within(s) ELSE Apart(s) \/ Whole(s)
  PROVE  ReadLockInv'
<1>1. todo'[t] = s /\ \A u \in All : u # t => todo'[u] = todo[u]
  BY Zenon DEF Typed
<1> SUFFICES ASSUME NEW u \in All
             PROVE  IF lock["read"] = u THEN Within(todo'[u])
                    ELSE Apart(todo'[u]) \/ Whole(todo'[u])
  BY Zenon DEF ReadLockInv
<1>2. CASE u = t
  BY <1>1, <1>2, SMTT(30)
<1>3. CASE u # t
  BY <1>1, <1>3 DEF ReadLockInv
<1> QED
  BY <1>2, <1>3

(* A thread with nothing to do does not hold the lock, and may begin any   *)
(* call.                                                                   *)
LEMMA ReadLockBegins ==
  ASSUME Typed, ReadLockInv, NEW t \in All, todo[t] = <<>>, NEW s,
         todo' = [todo EXCEPT ![t] = s], lock' = lock, Apart(s) \/ Whole(s)
  PROVE  ReadLockInv'
<1>1. ~Within(<<>>)
  BY DEF Within
<1>2. lock["read"] # t
  BY <1>1 DEF ReadLockInv
<1> QED
  BY <1>2, ReadLockKept

(* One step of a thread.                                                   *)
LEMMA StepReadLock ==
  ASSUME Inv, ReadLockInv, NEW t \in All, Step(t)
  PROVE  ReadLockInv'
<1> DEFINE s == todo[t]
<1>0. Running(t)
  BY Zenon DEF Step, Locks, Unlocks, Writes, Preads, Checks, Aborts
<1>1. s \in Seq(Ops) /\ s # <<>> /\ Op(t) = s[1]
  BY <1>0, FirstOp, Zenon DEF Inv
<1>2. IF lock["read"] = t THEN Within(s) ELSE Apart(s) \/ Whole(s)
  BY Zenon DEF ReadLockInv
<1>3. /\ Apart(s) => Apart(Tail(s)) /\ ~OnRead(s[1])
      /\ Within(s) /\ s[1] = GiveRead => Apart(Tail(s))
      /\ Within(s) /\ s[1] # GiveRead => Within(Tail(s)) /\ s[1] # TakeRead
      /\ Whole(s) /\ s[1] = TakeRead => Within(Tail(s))
      /\ Whole(s) /\ s[1] # TakeRead => Whole(Tail(s)) /\ s[1] # GiveRead
  BY <1>1, ReadLockTail, ZenonT(30)
<1> HIDE DEF s
<1>4. ASSUME Goes(t), lock'["read"] = lock["read"], ~OnRead(s[1])
      PROVE  ReadLockInv'
  <2>1. IF lock["read"] = t THEN Within(Tail(s)) ELSE Apart(Tail(s)) \/ Whole(Tail(s))
    BY <1>2, <1>3, <1>4, Zenon DEF OnRead
  <2>2. todo' = [todo EXCEPT ![t] = Tail(s)]
    BY <1>4 DEF Goes, s
  <2> QED
    BY <1>4, <2>1, <2>2, ReadLockKept DEF Inv
<1>5. ASSUME NEW x, Goes(t), lock' = [lock EXCEPT !["read"] = x],
             lock["read"] \in {t, Free}, x \in {t, Free},
             IF x = t THEN Within(Tail(s)) ELSE Apart(Tail(s))
      PROVE  ReadLockInv'
  <2>1. /\ todo'[t] = Tail(s) /\ \A u \in All : u # t => todo'[u] = todo[u]
        /\ lock'["read"] = x
    BY <1>5 DEF Inv, Typed, Goes, s
  <2>2. \A u \in All : u # Free
    BY ThreadsAssumption, Zenon DEF All
  <2> SUFFICES ASSUME NEW u \in All
               PROVE  IF x = u THEN Within(todo'[u]) ELSE Apart(todo'[u]) \/ Whole(todo'[u])
    BY <2>1, Zenon DEF ReadLockInv, Within, Apart, Whole
  <2>3. CASE u = t
    BY <1>5, <2>1, <2>2, <2>3, ZenonT(30)
  <2>4. CASE u # t
    <3>1. IF lock["read"] = u THEN Within(todo[u]) ELSE Apart(todo[u]) \/ Whole(todo[u])
      BY Zenon DEF ReadLockInv
    <3>2. lock["read"] # u /\ x # u
      <4>1. (lock["read"] = t \/ lock["read"] = Free) /\ (x = t \/ x = Free) /\ u # Free
        BY <1>5, <2>2
      <4> QED
        BY <2>4, <4>1, Zenon
    <3>3. todo'[u] = todo[u]
      BY <2>1, <2>4, Zenon
    <3> QED
      BY <3>1, <3>2, <3>3, Zenon
  <2> QED
    BY <2>3, <2>4, Zenon
<1>6. CASE Locks(t)
  <2>1. PICK m \in {"log", "read"} : /\ Op(t) = <<"lock", m>> /\ lock[m] = Free
                                     /\ lock' = [lock EXCEPT ![m] = t] /\ Goes(t)
    BY <1>6, Zenon DEF Locks
  <2>2. CASE m = "log"
    <3>1. ~OnRead(s[1])
      BY <1>1, <2>1, <2>2 DEF OnRead, TakeRead, GiveRead
    <3>2. lock'["read"] = lock["read"]
      BY <2>1, <2>2 DEF Inv, Typed
    <3> QED
      BY <1>4, <2>1, <3>1, <3>2
  <2>3. CASE m = "read"
    <3>1. s[1] = TakeRead /\ OnRead(s[1])
      BY <1>1, <2>1, <2>3 DEF TakeRead, OnRead
    <3>2. lock["read"] # t
      BY <2>1, <2>3, ThreadsAssumption DEF All
    <3>3. Within(Tail(s))
      BY <1>2, <1>3, <3>1, <3>2
    <3> QED
      BY <1>5, <2>1, <2>3, <3>3
  <2> QED
    BY <2>1, <2>2, <2>3
<1>7. CASE Unlocks(t)
  <2>1. PICK m \in {"log", "read"} : /\ Op(t) = <<"unlock", m>>
                                     /\ lock' = [lock EXCEPT ![m] = Free] /\ Goes(t)
    BY <1>7, Zenon DEF Unlocks
  <2>2. CASE m = "log"
    <3>1. ~OnRead(s[1])
      BY <1>1, <2>1, <2>2 DEF OnRead, TakeRead, GiveRead
    <3>2. lock'["read"] = lock["read"]
      BY <2>1, <2>2 DEF Inv, Typed
    <3> QED
      BY <1>4, <2>1, <3>1, <3>2
  <2>3. CASE m = "read"
    <3>1. s[1] = GiveRead /\ OnRead(s[1]) /\ s[1] # TakeRead
      BY <1>1, <2>1, <2>3 DEF TakeRead, GiveRead, OnRead
    <3>2. lock["read"] = t /\ Apart(Tail(s))
      BY <1>2, <1>3, <3>1
    <3>3. Free # t
      BY ThreadsAssumption DEF All
    <3> QED
      BY <1>5, <2>1, <2>3, <3>2, <3>3
  <2> QED
    BY <2>1, <2>2, <2>3
<1>8. CASE Writes(t) \/ Preads(t)
  <2>1. Goes(t) /\ lock' = lock
    BY <1>8, Zenon DEF Writes, Preads
  <2>2. Op(t)[1] \in {"write", "pread"}
    <3>1. CASE Writes(t)
      <4>1. PICK part \in {"prefix", "text", "newline"} : Op(t) = <<"write", part>>
        BY <3>1, Zenon DEF Writes
      <4> QED
        BY <4>1
    <3>2. CASE Preads(t)
      BY <3>2 DEF Preads
    <3> QED
      BY <1>8, <3>1, <3>2
  <2>3. ~OnRead(s[1])
    BY <1>1, <2>2 DEF OnRead, TakeRead, GiveRead
  <2> QED
    BY <1>4, <2>1, <2>3
<1>9. CASE Checks(t)
  <2> DEFINE r == IF got[t] = <<"short">> THEN ASSERT_FAILS ELSE Tail(todo[t])
  <2>1. Op(t) = <<"check">> /\ todo' = [todo EXCEPT ![t] = r] /\ lock' = lock
    BY <1>9 DEF Checks
  <2>2. s[1][1] = "check" /\ ~OnRead(s[1])
    BY <1>1, <2>1 DEF OnRead, TakeRead, GiveRead
  <2>3. \A i \in 1..Len(s) : i < Len(s) => s[i][1] \notin {"check", "abort"}
    <3>1. CASE t = main
      BY <1>0, <3>1, DoingNow, Zenon DEF Doing, s
    <3>2. CASE t \in Threads
      BY <1>0, <3>2, DoingNow, Zenon DEF Doing, s
    <3> QED
      BY <3>1, <3>2 DEF All
  <2>4. Len(s) = 1
    BY <1>1, <2>2, <2>3, OnlyOne
  <2>5. ~Within(s)
    <3>1. s[1] # GiveRead
      BY <2>2 DEF OnRead
    <3> QED
      BY <2>4, <3>1 DEF Within
  <2>6. lock["read"] # t
    BY <1>2, <2>5, ZenonT(30)
  <2>7. Apart(r) \/ Whole(r)
    <3>1. CASE got[t] = <<"short">>
      BY <3>1, AssertFailsApart, Zenon
    <3>2. CASE got[t] # <<"short">>
      BY <1>2, <1>3, <2>2, <2>6, <3>2 DEF OnRead, s
    <3> QED
      BY <3>1, <3>2
  <2> HIDE DEF r
  <2> QED
    BY <2>1, <2>6, <2>7, ReadLockKept DEF Inv
<1>10. CASE Aborts(t)
  <2>1. lock' = lock /\ todo' = todo
    BY <1>10 DEF Aborts
  <2> QED
    BY <2>1, ReadLockSame
<1> QED
  BY <1>6, <1>7, <1>8, <1>9, <1>10 DEF Step

(* The decisions of main and op_init.                                      *)
LEMMA MainReadLock ==
  ASSUME Inv, ReadLockInv, Main
  PROVE  ReadLockInv'
<1>1. Typed /\ main \in All
  BY DEF Inv, All
<1>2. CASE Exits \/ logging_open
  <2>1. UNCHANGED <<lock, todo>>
    BY <1>2 DEF Exits, logging_open
  <2> QED
    BY <2>1, ReadLockSame, Zenon
<1>3. CASE disk_open
  <2>1. todo[main] = <<>> /\ lock' = lock
    BY <1>3 DEF disk_open, Inv, StageInv
  <2>2. PICK w, z : Does(disk_read(w, z))
    BY <1>3, Zenon DEF disk_open
  <2> QED
    BY <1>1, <2>1, <2>2, DiskReadWhole, ReadLockBegins DEF Does
<1>4. CASE op_init
  <2>1. todo[main] = <<>> /\ lock' = lock
    BY <1>4 DEF op_init, At
  <2>2. PICK w, z : Does(LOG \o disk_read(w, z))
    BY <1>4, Zenon DEF op_init
  <2> QED
    BY <1>1, <2>1, <2>2, DiskReadWhole, ReadLockBegins DEF Does
<1>5. CASE super_fill
  <2>1. todo[main] = <<>> /\ lock' = lock
    BY <1>5 DEF super_fill, At
  <2>2. PICK w, z : Does(LOG \o LOG \o LOG \o LOG \o LOG \o disk_read(w, z))
    BY <1>5, Zenon DEF super_fill
  <2> QED
    BY <1>1, <2>1, <2>2, DiskReadWhole, ReadLockBegins DEF Does
<1>6. CASE super_group_fill
  <2>1. todo[main] = <<>> /\ lock' = lock
    BY <1>6 DEF super_group_fill, At
  <2>2. todo' = todo \/ \E w, z : Does(disk_read(w, z))
    BY <1>6, Zenon DEF super_group_fill
  <2>3. CASE todo' = todo
    BY <2>1, <2>3, ReadLockSame
  <2>4. CASE \E w, z : Does(disk_read(w, z))
    <3>1. PICK w, z : Does(disk_read(w, z))
      BY <2>4
    <3> QED
      BY <1>1, <2>1, <3>1, DiskReadWhole, ReadLockBegins DEF Does
  <2> QED
    BY <2>2, <2>3, <2>4
<1> QED
  BY <1>2, <1>3, <1>4, <1>5, <1>6 DEF Main

(* What inode_get_by_number does after a line of the log.                  *)
LEMMA InodeLock ==
  ASSUME NEW n
  PROVE  Apart(LOG \o inode_get_by_number(n)) \/ Whole(LOG \o inode_get_by_number(n))
<1>1. CASE n = 0
  <2>1. inode_get_by_number(n) = <<>>
    BY <1>1 DEF inode_get_by_number
  <2>2. <<>> \in Seq(Ops) /\ Apart(<<>>)
    BY DEF Apart
  <2>3. Apart(LOG \o <<>>)
    BY <2>2, LogApart, ReadLockConcat, Zenon
  <2> QED
    BY <2>1, <2>3
<1>2. CASE n # 0 /\ ~GroupExists(super, n)
  <2>1. inode_get_by_number(n) = ASSERT_FAILS
    BY <1>2 DEF inode_get_by_number
  <2> QED
    BY <2>1, AssertFailsApart
<1>3. CASE n # 0 /\ GroupExists(super, n)
  <2>1. inode_get_by_number(n)
          = LOG \o disk_read(inode_offset(super, gdesc_table, n), inode_bytes(super))
    BY <1>3 DEF inode_get_by_number
  <2> QED
    BY <2>1, DiskReadWhole, Zenon
<1> QED
  BY <1>1, <1>2, <1>3

(* The decisions of a thread of FUSE.                                      *)
LEMMA ServeReadLock ==
  ASSUME Inv, ReadLockInv, NEW t \in Threads, Request(t) \/ Serve(t)
  PROVE  ReadLockInv'
<1>1. Typed /\ t \in All
  BY DEF Inv, All
<1>2. ASSUME NEW s, todo[t] = <<>>, lock' = lock, todo' = [todo EXCEPT ![t] = s],
             Apart(s) \/ Whole(s)
      PROVE  ReadLockInv'
  BY <1>1, <1>2, ReadLockBegins
<1>3. ASSUME NEW ret, NEW s, todo[t] = <<>>, Returns(t, ret, s), s = <<>> \/ s = LOG
      PROVE  ReadLockInv'
  <2>1. Apart(s)
    BY <1>3, LogApart DEF Apart
  <2> QED
    BY <1>2, <1>3, <2>1 DEF Returns
<1>4. CASE Request(t)
  <2>1. PICK o, n : Receives(t, o, n)
    BY <1>4, Zenon DEF Request
  <2>2. /\ todo[t] = <<>> /\ lock' = lock
        /\ todo' = [todo EXCEPT ![t] = LOG \o inode_get_by_number(n)]
    BY <2>1, Zenon DEF Receives
  <2> QED
    BY <1>2, <2>2, InodeLock, Zenon
<1>5. CASE op_getattr(t)
  <2>1. todo[t] = <<>>
    BY <1>5 DEF op_getattr, Ready
  <2>2. Returns(t, <<"ENOENT">>, <<>>) \/ Returns(t, got[t], LOG)
    BY <1>5, Zenon DEF op_getattr
  <2> QED
    BY <1>3, <2>1, <2>2, Zenon
<1>6. CASE op_readlink(t)
  <2>1. todo[t] = <<>>
    BY <1>6, Zenon DEF op_readlink, Ready
  <2>2. CASE \E ret : Returns(t, ret, <<>>) \/ Returns(t, ret, LOG)
    BY <1>3, <2>1, <2>2
  <2>3. CASE todo' = [todo EXCEPT ![t] = disk_read_block(Target(t).pblock)] /\ lock' = lock
    <3>1. Whole(disk_read_block(Target(t).pblock))
      BY DiskReadWhole, Zenon DEF disk_read_block
    <3> QED
      BY <1>2, <2>1, <2>3, <3>1
  <2> QED
    BY <1>6, <2>2, <2>3, Zenon DEF op_readlink
<1>7. CASE get_link_dest(t)
  <2>1. todo[t] = <<>> /\ Returns(t, got[t], LOG)
    BY <1>7, Zenon DEF get_link_dest, Ready
  <2> QED
    BY <1>3, <2>1
<1>8. CASE Answers(t)
  <2>1. UNCHANGED <<lock, todo>>
    BY <1>8 DEF Answers
  <2> QED
    BY <2>1, ReadLockSame
<1> QED
  BY <1>4, <1>5, <1>6, <1>7, <1>8 DEF Serve

(* Every step of the process keeps the lock of __disk_read in order.       *)
LEMMA NextReadLock == Inv /\ ReadLockInv /\ [Next]_vars => ReadLockInv'
<1> SUFFICES ASSUME Inv, ReadLockInv, [Next]_vars PROVE ReadLockInv'
  OBVIOUS
<1>1. CASE Unmounts \/ Finished \/ UNCHANGED vars
  <2>1. UNCHANGED <<lock, todo>>
    BY <1>1, Zenon DEF Unmounts, Finished, vars
  <2> QED
    BY <2>1, ReadLockSame
<1> QED
  BY <1>1, MainReadLock, StepReadLock, ServeReadLock, Zenon DEF Next

(* Who holds a lock has still to give it back: __LOG waits for no lock     *)
(* while it holds its own, and __disk_read, which logs while it holds its  *)
(* own, waits for the lock of __LOG only.                                  *)
HoldersGoOn ==
  \A t \in All :
    /\ lock["log"] = t => todo[t] # <<>> /\ Op(t)[1] # "lock"
    /\ lock["read"] = t => todo[t] # <<>> /\ Op(t) # <<"lock", "read">>

(* __LOG and __disk_read keep one order of their two locks, so that no     *)
(* threads wait for each other in a circle, however many they are, and     *)
(* none answers its request with a lock still held.                        *)
THEOREM LocksOrdered == Spec => []HoldersGoOn
<1>1. Init => ReadLockInv
  <2> SUFFICES ASSUME Init, NEW t \in All
               PROVE  lock["read"] # t /\ Apart(todo[t])
    BY DEF ReadLockInv
  <2>1. lock["read"] = Free /\ todo[t] = <<>>
    BY DEF Init
  <2> QED
    BY <2>1, ThreadsAssumption DEF All, Apart
<1>2. Inv /\ ReadLockInv => HoldersGoOn
  <2> SUFFICES ASSUME Inv, ReadLockInv, NEW t \in All
               PROVE  /\ lock["log"] = t => todo[t] # <<>> /\ Op(t)[1] # "lock"
                      /\ lock["read"] = t => todo[t] # <<>> /\ Op(t) # <<"lock", "read">>
    BY DEF HoldersGoOn
  <2>1. todo[t] \in Seq(Ops)
    BY DEF Inv, Typed
  <2>2. ASSUME lock["log"] = t
        PROVE  todo[t] # <<>> /\ Op(t)[1] # "lock"
    <3>1. todo[t] # <<>> /\ Before(todo[t][1]) # 0
      BY <2>2 DEF Inv, LogInv, Pos
    <3>2. Op(t) = todo[t][1]
      BY <2>1, <3>1, TailOf DEF Op
    <3>3. todo[t][1] \in {<<"write", "prefix">>, <<"write", "text">>, <<"write", "newline">>,
                          <<"unlock", "log">>}
      BY <3>1 DEF Before
    <3> QED
      BY <3>1, <3>2, <3>3, SMTT(30)
  <2>3. ASSUME lock["read"] = t
        PROVE  todo[t] # <<>> /\ Op(t) # <<"lock", "read">>
    <3>1. Within(todo[t])
      BY <2>3 DEF ReadLockInv
    <3>2. todo[t] # <<>>
      BY <3>1 DEF Within
    <3>3. Op(t) = todo[t][1]
      BY <2>1, <3>2, TailOf DEF Op
    <3>4. todo[t][1] # TakeRead
      BY <2>1, <3>1, <3>2, ReadLockTail DEF TakeRead, GiveRead
    <3> QED
      BY <3>2, <3>3, <3>4 DEF TakeRead
  <2> QED
    BY <2>2, <2>3
<1> QED
  BY <1>1, <1>2, MountInvariant, NextReadLock, PTL DEF Spec
=============================================================================
