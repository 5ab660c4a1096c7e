--------------------------- MODULE NetSockProofs ----------------------------
(***************************************************************************)
(* Proofs that the figures of the metric thread are sound, that round      *)
(* robin keeps the workers level and that every connection is handed over  *)
(* once and in order, for every number of workers and connections.         *)
(***************************************************************************)
EXTENDS NetSock, SequenceTheorems, TLAPS

(* A shifted function of sums is still one of natural numbers.             *)
LEMMA ShiftType ==
  ASSUME NEW f \in [0..num_threads -> Nat], NEW w \in Workers, NEW d \in Int,
         \A k \in 0..num_threads : k > w => f[k] + d \in Nat
  PROVE  Shift(f, w, d) \in [0..num_threads -> Nat]
  BY ThreadsAssumption DEF Shift, Workers

(* Division with remainder is unique.                                      *)
LEMMA RemainderUnique ==
  ASSUME NEW N \in Nat, N > 0, NEW q \in Int, NEW s \in Int,
         NEW m \in 0..(N - 1), NEW p \in 0..(N - 1),
         N * q + m = N * s + p
  PROVE  m = p
  <1>1. CASE q > s
    <2>1. q - s - 1 \in Nat
      BY <1>1
    <2>2. N * (q - s - 1) >= 0
      BY <2>1
    <2>3. N * (q - s - 1) = N * q - N * s - N
      OBVIOUS
    <2> QED  BY <2>2, <2>3
  <1>2. CASE s > q
    <2>1. s - q - 1 \in Nat
      BY <1>2
    <2>2. N * (s - q - 1) >= 0
      BY <2>1
    <2>3. N * (s - q - 1) = N * s - N * q - N
      OBVIOUS
    <2> QED  BY <2>2, <2>3
  <1>3. CASE q = s
    BY <1>3
  <1> QED  BY <1>1, <1>2, <1>3

(* The turn after worker index is the next one, or the first.              *)
LEMMA NextTurn ==
  ASSUME NEW r \in Nat
  PROVE  /\ r % num_threads \in Workers
         /\ (r + 1) % num_threads =
              IF (r % num_threads) + 1 = num_threads THEN 0 ELSE (r % num_threads) + 1
  <1> DEFINE N == num_threads
             m == r % N
             q == r \div N
  <1>1. N \in Nat /\ N > 0
    BY ThreadsAssumption
  <1>2. r = N * q + m /\ m \in 0..(N - 1) /\ q \in Int
    BY <1>1
  <1>3. m \in Workers
    BY <1>2 DEF Workers
  <1>4. CASE m + 1 = N
    <2>1. r + 1 = N * (q + 1)
      BY <1>1, <1>2, <1>4
    <2>2. r + 1 = N * ((r + 1) \div N) + ((r + 1) % N)
          /\ (r + 1) % N \in 0..(N - 1) /\ (r + 1) \div N \in Int
      BY <1>1
    <2>3. N * ((r + 1) \div N) + ((r + 1) % N) = N * (q + 1) + 0 /\ 0 \in 0..(N - 1)
      BY <2>1, <2>2, <1>1, <1>2
    <2>4. (r + 1) % N = 0
      <3> DEFINE q2 == (r + 1) \div N
                 m2 == (r + 1) % N
                 q1 == q + 1
      <3>1. q1 \in Int /\ q2 \in Int /\ m2 \in 0..(N - 1) /\ 0 \in 0..(N - 1)
        BY <1>2, <2>2, <2>3
      <3>2. N * q2 + m2 = N * q1 + 0
        BY <2>3
      <3> HIDE DEF q2, m2, q1, N
      <3>3. m2 = 0
        BY <3>1, <3>2, <1>1, RemainderUnique
      <3> QED  BY <3>3 DEF m2
    <2> QED  BY <2>4, <1>3, <1>4
  <1>5. CASE m + 1 # N
    <2>1. r + 1 = N * q + (m + 1) /\ m + 1 \in 0..(N - 1)
      BY <1>1, <1>2, <1>5
    <2>2. r + 1 = N * ((r + 1) \div N) + ((r + 1) % N)
          /\ (r + 1) % N \in 0..(N - 1) /\ (r + 1) \div N \in Int
      BY <1>1
    <2>3. N * ((r + 1) \div N) + ((r + 1) % N) = N * q + (m + 1)
      BY <2>1, <2>2
    <2>4. (r + 1) % N = m + 1
      <3> HIDE DEF q, N, m
      <3> QED  BY <2>1, <2>2, <2>3, <1>1, <1>2, RemainderUnique
    <2> QED  BY <2>4, <1>3, <1>5
  <1> QED  BY <1>4, <1>5

-----------------------------------------------------------------------------
(* What the type invariant says of the quantities Conserved relates.       *)
LEMMA CountFacts ==
  ASSUME TypeOK
  PROVE  /\ counter \in Nat /\ current \in Nat /\ lost \in Nat
         /\ num_threads \in 0..num_threads
         /\ accsum[num_threads] \in Nat /\ pipesum[num_threads] \in Nat
         /\ index \in Workers /\ index \in Int
  <1>1. index \in Workers
    <2>1. round_robin_counter \in Nat
      BY DEF TypeOK
    <2> QED  BY <2>1, NextTurn DEF index
  <1>2. num_threads \in 0..num_threads
    BY ThreadsAssumption
  <1>3. counter \in Nat /\ current \in Nat /\ lost \in Nat
    BY BoundsAssumption DEF TypeOK
  <1>4. index \in Int
    BY <1>1 DEF Workers
  <1> QED  BY <1>1, <1>2, <1>3, <1>4 DEF TypeOK

(* Shifting the sum of the pipes at w by d keeps it their sum when the     *)
(* length of pipe w changes by d and no other does.                        *)
LEMMA ShiftedPipes ==
  ASSUME TypeOK, SumsInv, NEW w \in Workers, NEW d \in Int,
         pipesum' = Shift(pipesum, w, d), pipesum' \in [0..num_threads -> Nat],
         Len(pipe'[w]) = Len(pipe[w]) + d,
         \A v \in Workers : v # w => pipe'[v] = pipe[v]
  PROVE  /\ pipesum'[0] = 0
         /\ \A v \in Workers : pipesum'[v + 1] = pipesum'[v] + Len(pipe'[v])
  <1>1. pipesum \in [0..num_threads -> Nat]
    BY DEF TypeOK
  <1>2. pipesum'[0] = 0
    BY <1>1, ThreadsAssumption DEF SumsInv, Shift, Workers
  <1>3. ASSUME NEW v \in Workers
        PROVE  pipesum'[v + 1] = pipesum'[v] + Len(pipe'[v])
    <2>1. v \in 0..num_threads /\ v + 1 \in 0..num_threads
      BY ThreadsAssumption DEF Workers
    <2>2. /\ v = w => pipesum'[v + 1] = pipesum'[v] + (pipesum[v + 1] - pipesum[v]) + d
          /\ v # w => pipesum'[v + 1] = pipesum'[v] + (pipesum[v + 1] - pipesum[v])
      <3>1. pipesum' = Shift(pipesum, w, d) /\ w \in Int /\ v \in Int
        BY DEF Workers
      <3>2. /\ pipesum'[v + 1] = IF v + 1 > w THEN pipesum[v + 1] + d ELSE pipesum[v + 1]
            /\ pipesum'[v] = IF v > w THEN pipesum[v] + d ELSE pipesum[v]
        BY <2>1, <3>1 DEF Shift
      <3>3. pipesum[v + 1] \in Int /\ pipesum[v] \in Int
        BY <1>1, <2>1
      <3> QED  BY <3>1, <3>2, <3>3
    <2>3. pipesum[v + 1] = pipesum[v] + Len(pipe[v])
      BY DEF SumsInv
    <2>4. pipesum[v] \in Int
      BY <1>1, <2>1
    <2>5. pipesum'[v] \in Int
      BY <2>1
    <2>6. pipe[v] \in Seq(Nat)
      BY DEF TypeOK
    <2>7. Len(pipe[v]) \in Int
      BY <2>6
    <2>8. CASE v = w
      BY <2>2, <2>3, <2>4, <2>5, <2>7, <2>8
    <2>9. CASE v # w
      BY <2>2, <2>3, <2>4, <2>5, <2>7, <2>9
    <2> QED  BY <2>8, <2>9
  <1> QED  BY <1>2, <1>3

(* The initial state satisfies the invariant.                              *)
LEMMA InitEstablishesInv == Init => IInv
  <1> SUFFICES ASSUME Init PROVE IInv
    OBVIOUS
  <1> USE ThreadsAssumption, BoundsAssumption DEF Init
  <1>1. TypeOK
    <2>1. \A w \in Workers : pipe[w] \in Seq(Nat) /\ served[w] \in Seq(Nat)
      OBVIOUS
    <2> QED  BY <2>1 DEF TypeOK, Workers
  <1>2. SumsInv
    BY DEF SumsInv, Workers
  <1>3. Conserved /\ MetricInv /\ FailureBounded
    BY DEF Conserved, MetricInv, FailureBounded
  <1>4. TurnInv
    <2>1. index \in Workers
      BY NextTurn DEF index
    <2>2. index = 0
      BY DEF index
    <2>3. 0 \in 0..round_robin_counter /\ \A w \in Workers :
            handed[w] = IF w < index THEN 0 + 1 ELSE 0
      BY <2>2 DEF Workers
    <2> QED  BY <2>3 DEF TurnInv
  <1> QED  BY <1>1, <1>2, <1>3, <1>4 DEF IInv

(* Counting, losing and stuttering leave the sums and the turn alone.      *)
LEMMA MainKeepsInv ==
  ASSUME IInv, MainCounts \/ MainCloses
  PROVE  IInv'
  <1> USE ThreadsAssumption, BoundsAssumption
  <1>0. TypeOK /\ SumsInv /\ Conserved /\ MetricInv /\ FailureBounded /\ TurnInv
    BY DEF IInv
  <1>1. /\ UNCHANGED <<round_robin_counter, pipe, tcounter, metric, served,
                       handed, accsum, pipesum>>
        /\ counter' \in 0..MaxConns /\ counter' >= counter
        /\ current' \in 0..counter' /\ lost' \in Nat
    <2>1. counter \in 0..MaxConns /\ current \in 0..counter /\ lost \in Nat
      BY <1>0 DEF TypeOK
    <2>2. CASE MainCounts
      BY <2>1, <2>2 DEF MainCounts
    <2>3. CASE MainCloses
      BY <2>1, <2>3 DEF MainCloses
    <2> QED  BY <2>2, <2>3
  <1>2. TypeOK'
    BY <1>0, <1>1, Zenon DEF TypeOK, metric, Workers
  <1>3. SumsInv' /\ MetricInv' /\ TurnInv'
    BY <1>0, <1>1 DEF SumsInv, MetricInv, TurnInv, index, metric, Workers
  <1>4. Conserved'
    <2>1. accsum'[num_threads] = accsum[num_threads]
          /\ pipesum'[num_threads] = pipesum[num_threads]
      BY <1>1
    <2>2. CASE MainCounts
      BY <1>0, <2>1, <2>2, CountFacts DEF Conserved, MainCounts
    <2>3. CASE MainCloses
      BY <1>0, <2>1, <2>3, CountFacts DEF Conserved, MainCloses
    <2> QED  BY <2>2, <2>3
  <1>5. FailureBounded'
    BY <1>0, <1>1 DEF FailureBounded, metric, TypeOK
  <1> QED  BY <1>2, <1>3, <1>4, <1>5 DEF IInv

(* Handing a connection over moves it from the main loop to a pipe.        *)
LEMMA HandOverKeepsInv ==
  ASSUME IInv, MainHandsOver
  PROVE  IInv'
  <1> USE ThreadsAssumption, BoundsAssumption
  <1>0. TypeOK /\ SumsInv /\ Conserved /\ MetricInv /\ FailureBounded /\ TurnInv
    BY DEF IInv
  <1>1. index \in Workers /\ index \in Int /\ num_threads \in 0..num_threads
    BY <1>0, CountFacts
  <1>2. pipesum' \in [0..num_threads -> Nat]
    <2>1. pipesum \in [0..num_threads -> Nat] /\ pipesum' = Shift(pipesum, index, 1)
      BY <1>0 DEF MainHandsOver, TypeOK
    <2>2. \A k \in 0..num_threads : k > index => pipesum[k] + 1 \in Nat
      BY <2>1
    <2>3. 1 \in Int
      OBVIOUS
    <2> QED  BY <1>1, <2>1, <2>2, <2>3, ShiftType, Zenon
  <1>3. pipe' \in [Workers -> Seq(Nat)] /\ handed' \in [Workers -> Nat]
        /\ round_robin_counter' \in Nat
    <2>1. /\ pipe \in [Workers -> Seq(Nat)] /\ handed \in [Workers -> Nat]
          /\ round_robin_counter \in Nat
      BY <1>0 DEF TypeOK
    <2>2. current \in Nat
      BY <1>0, CountFacts
    <2>3. /\ pipe' = [pipe EXCEPT ![index] = Append(pipe[index], current)]
          /\ handed' = [handed EXCEPT ![index] = handed[index] + 1]
          /\ round_robin_counter' = round_robin_counter + 1
      BY DEF MainHandsOver
    <2>4. Append(pipe[index], current) \in Seq(Nat) /\ handed[index] + 1 \in Nat
      BY <1>1, <2>1, <2>2
    <2> QED  BY <1>1, <2>1, <2>3, <2>4
  <1>4. TypeOK'
    <2>1. UNCHANGED <<counter, tcounter, i, success, failure, served, lost, accsum>>
          /\ current' = 0
      BY DEF MainHandsOver, metric
    <2>2. current' \in 0..counter'
      BY <1>0, <2>1, CountFacts
    <2> QED  BY <1>0, <1>2, <1>3, <2>1, <2>2, Zenon DEF TypeOK, Workers
  <1>5. SumsInv'
    <2>1. pipe[index] \in Seq(Nat) /\ current \in Nat
      BY <1>0, <1>1, CountFacts DEF TypeOK
    <2>2. pipe'[index] = Append(pipe[index], current)
          /\ \A v \in Workers : v # index => pipe'[v] = pipe[v]
      BY <1>0, <1>1 DEF MainHandsOver, TypeOK
    <2>3. Len(pipe'[index]) = Len(pipe[index]) + 1
      BY <2>1, <2>2
    <2>4. pipesum \in [0..num_threads -> Nat] /\ pipesum' = Shift(pipesum, index, 1)
      BY <1>0 DEF TypeOK, MainHandsOver
    <2>5. pipesum'[0] = 0
          /\ \A v \in Workers : pipesum'[v + 1] = pipesum'[v] + Len(pipe'[v])
      <3> DEFINE w == index
                 d == 1
      <3>1. w \in Workers /\ d \in Int
        BY <1>1
      <3>2. pipesum' = Shift(pipesum, w, d) /\ Len(pipe'[w]) = Len(pipe[w]) + d
            /\ \A v \in Workers : v # w => pipe'[v] = pipe[v]
        BY <2>2, <2>3, <2>4
      <3> HIDE DEF w, d
      <3> QED  BY <1>0, <1>2, <3>1, <3>2, ShiftedPipes
    <2>6. \A j, k \in 0..num_threads : j <= k => pipesum'[j] <= pipesum'[k]
      BY <1>0, <1>1, <2>4 DEF SumsInv, Shift
    <2>7. accsum' = accsum /\ tcounter' = tcounter
      BY DEF MainHandsOver
    <2> QED  BY <1>0, <2>5, <2>6, <2>7 DEF SumsInv
  <1>6. pipesum'[num_threads] = pipesum[num_threads] + 1
    BY <1>0, <1>1 DEF MainHandsOver, Shift, TypeOK, Workers
  <1>7. Conserved'
    <2>1. current # 0 /\ current' = 0 /\ UNCHANGED <<counter, lost, accsum>>
      BY DEF MainHandsOver
    <2> QED  BY <1>0, <1>6, <2>1, CountFacts DEF Conserved
  <1>8. MetricInv' /\ FailureBounded'
    BY <1>0 DEF MetricInv, FailureBounded, MainHandsOver, metric
  <1>9. TurnInv'
    <2>1. PICK q \in 0..round_robin_counter : \A w \in Workers :
            handed[w] = IF w < index THEN q + 1 ELSE q
      BY <1>0 DEF TurnInv
    <2>2. index' = IF index + 1 = num_threads THEN 0 ELSE index + 1
      BY <1>0, NextTurn, Zenon DEF index, MainHandsOver, TypeOK
    <2>3. q \in 0..round_robin_counter' /\ q + 1 \in 0..round_robin_counter'
      BY <1>0 DEF MainHandsOver, TypeOK
    <2>4. \A w \in Workers : handed'[w] = IF w <= index THEN q + 1 ELSE q
      <3> SUFFICES ASSUME NEW w \in Workers
                   PROVE  handed'[w] = IF w <= index THEN q + 1 ELSE q
        OBVIOUS
      <3>1. w \in Int /\ q \in Int
        BY DEF Workers
      <3>2. handed'[w] = IF w = index THEN handed[w] + 1 ELSE handed[w]
        BY <1>0, <1>1 DEF MainHandsOver, TypeOK
      <3> QED  BY <1>1, <2>1, <3>1, <3>2
    <2>5. CASE index + 1 = num_threads
      <3>1. \A w \in Workers : handed'[w] = IF w < index' THEN (q + 1) + 1 ELSE q + 1
        BY <1>1, <2>2, <2>4, <2>5 DEF Workers
      <3> QED  BY <2>3, <3>1 DEF TurnInv
    <2>6. CASE index + 1 # num_threads
      <3>1. \A w \in Workers : handed'[w] = IF w < index' THEN q + 1 ELSE q
        BY <1>1, <2>2, <2>4, <2>6 DEF Workers
      <3> QED  BY <2>3, <3>1 DEF TurnInv
    <2> QED  BY <2>5, <2>6
  <1> QED  BY <1>4, <1>5, <1>7, <1>8, <1>9 DEF IInv

(* A worker takes the next connection out of its pipe.                     *)
LEMMA TakeKeepsPipes ==
  ASSUME TypeOK, SumsInv, NEW w \in Workers, Take(w)
  PROVE  /\ pipe' \in [Workers -> Seq(Nat)]
         /\ Head(pipe[w]) \in Nat
         /\ pipesum' \in [0..num_threads -> Nat]
         /\ pipesum'[0] = 0
         /\ \A v \in Workers : pipesum'[v + 1] = pipesum'[v] + Len(pipe'[v])
         /\ \A j, k \in 0..num_threads : j <= k => pipesum'[j] <= pipesum'[k]
         /\ pipesum'[num_threads] = pipesum[num_threads] - 1
  <1> USE ThreadsAssumption
  <1>1. /\ pipesum \in [0..num_threads -> Nat] /\ pipesum' = Shift(pipesum, w, -1)
        /\ pipe \in [Workers -> Seq(Nat)] /\ pipe[w] \in Seq(Nat) /\ pipe[w] # <<>>
        /\ pipe' = [pipe EXCEPT ![w] = Tail(pipe[w])]
    BY Zenon DEF TypeOK, Take
  <1>2. Tail(pipe[w]) \in Seq(Nat) /\ Head(pipe[w]) \in Nat
        /\ Len(Tail(pipe[w])) = Len(pipe[w]) - 1 /\ Len(pipe[w]) \in Nat /\ Len(pipe[w]) >= 1
    BY <1>1
  <1>3. pipe' \in [Workers -> Seq(Nat)] /\ pipe'[w] = Tail(pipe[w])
        /\ \A v \in Workers : v # w => pipe'[v] = pipe[v]
    BY <1>1, <1>2
  <1>4. w \in Int /\ w \in 0..num_threads /\ w + 1 \in 0..num_threads
    BY DEF Workers
  <1>5. pipesum[w + 1] >= pipesum[w] + 1
    <2>1. pipesum[w + 1] = pipesum[w] + Len(pipe[w])
      BY DEF SumsInv
    <2>2. pipesum[w] \in Int
      BY <1>1, <1>4
    <2> QED  BY <1>2, <2>1, <2>2
  <1>6. \A j, k \in 0..num_threads : j <= w /\ k > w => pipesum[k] >= pipesum[j] + 1
    <2> SUFFICES ASSUME NEW j \in 0..num_threads, NEW k \in 0..num_threads,
                        j <= w, k > w
                 PROVE  pipesum[k] >= pipesum[j] + 1
      OBVIOUS
    <2>1. pipesum[j] <= pipesum[w] /\ pipesum[w + 1] <= pipesum[k]
      BY <1>4 DEF SumsInv
    <2>2. /\ pipesum[j] \in Int /\ pipesum[w] \in Int
          /\ pipesum[w + 1] \in Int /\ pipesum[k] \in Int
      BY <1>1, <1>4
    <2> DEFINE a == pipesum[j]
               b == pipesum[w]
               c == pipesum[w + 1]
               e == pipesum[k]
    <2>3. a <= b /\ c >= b + 1 /\ c <= e /\ a \in Int /\ b \in Int /\ c \in Int /\ e \in Int
      BY <1>5, <2>1, <2>2
    <2> HIDE DEF a, b, c, e
    <2>4. e >= a + 1
      BY <2>3
    <2> QED  BY <2>4 DEF a, e
  <1>7. \A k \in 0..num_threads : k > w => pipesum[k] + -1 \in Nat
    <2> SUFFICES ASSUME NEW k \in 0..num_threads, k > w
                 PROVE  pipesum[k] + -1 \in Nat
      OBVIOUS
    <2>1. pipesum[k] >= pipesum[w] + 1
      BY <1>4, <1>6
    <2>2. pipesum[k] \in Nat /\ pipesum[w] \in Nat
      BY <1>1, <1>4
    <2> QED  BY <2>1, <2>2
  <1>8. pipesum' \in [0..num_threads -> Nat]
    <2>1. -1 \in Int
      OBVIOUS
    <2> QED  BY <1>1, <1>7, <2>1, ShiftType, Zenon
  <1>9. \A k \in 0..num_threads : pipesum'[k] = IF k > w THEN pipesum[k] - 1 ELSE pipesum[k]
    BY <1>1 DEF Shift
  <1>10. \A j, k \in 0..num_threads : j <= k => pipesum'[j] <= pipesum'[k]
    <2> SUFFICES ASSUME NEW j \in 0..num_threads, NEW k \in 0..num_threads, j <= k
                 PROVE  pipesum'[j] <= pipesum'[k]
      OBVIOUS
    <2>1. pipesum[j] <= pipesum[k] /\ pipesum[j] \in Int /\ pipesum[k] \in Int
      BY <1>1 DEF SumsInv
    <2> QED  BY <1>4, <1>6, <1>9, <2>1
  <1>11. /\ pipesum'[0] = 0
         /\ \A v \in Workers : pipesum'[v + 1] = pipesum'[v] + Len(pipe'[v])
    <2> DEFINE d == -1
    <2>1. d \in Int /\ pipesum' = Shift(pipesum, w, d) /\ Len(pipe'[w]) = Len(pipe[w]) + d
      BY <1>1, <1>2, <1>3
    <2> HIDE DEF d
    <2> QED  BY <1>3, <1>8, <2>1, ShiftedPipes, Zenon
  <1>12. pipesum'[num_threads] = pipesum[num_threads] - 1
    BY <1>4, <1>9 DEF Workers
  <1> QED  BY <1>2, <1>3, <1>8, <1>10, <1>11, <1>12

(* A worker accepts a connection or gives it up.                           *)
LEMMA WorkerKeepsInv ==
  ASSUME IInv, NEW w \in Workers, Serve(w)
  PROVE  IInv'
  <1> USE ThreadsAssumption, BoundsAssumption
  <1>0. TypeOK /\ SumsInv /\ Conserved /\ MetricInv /\ FailureBounded /\ TurnInv
    BY DEF IInv
  <1>1. Take(w) /\ UNCHANGED <<main, metric, handed>>
    BY DEF Serve, WorkerAccepts, WorkerCloses
  <1>2. TurnInv'
    BY <1>0, <1>1 DEF TurnInv, index, main
  <1>3. FailureBounded'
    BY <1>0, <1>1 DEF FailureBounded, main, metric
  <1>4. CASE WorkerAccepts(w)
    <2>1. /\ tcounter' = [tcounter EXCEPT ![w] = @ + 1]
          /\ served' = [served EXCEPT ![w] = Append(@, Head(pipe[w]))]
          /\ accsum' = Shift(accsum, w, 1) /\ lost' = lost
      BY <1>4 DEF WorkerAccepts
    <2>2. w \in Int /\ w \in 0..num_threads /\ w + 1 \in 0..num_threads
      BY DEF Workers
    <2>3. \A k \in 0..num_threads : accsum'[k] = IF k > w THEN accsum[k] + 1 ELSE accsum[k]
      BY <2>1 DEF Shift
    <2>4. accsum \in [0..num_threads -> Nat] /\ accsum' \in [0..num_threads -> Nat]
      <3>1. accsum \in [0..num_threads -> Nat]
        BY <1>0 DEF TypeOK
      <3>2. 1 \in Int /\ \A k \in 0..num_threads : k > w => accsum[k] + 1 \in Nat
        BY <3>1
      <3>3. Shift(accsum, w, 1) \in [0..num_threads -> Nat]
        BY <3>1, <3>2, ShiftType, Zenon
      <3> QED  BY <2>1, <3>1, <3>3
    <2>5. tcounter' \in [Workers -> Nat] /\ served' \in [Workers -> Seq(Nat)]
      <3>1. tcounter \in [Workers -> Nat] /\ served \in [Workers -> Seq(Nat)]
        BY <1>0 DEF TypeOK
      <3>2. Head(pipe[w]) \in Nat
        BY <1>0, <1>1, TakeKeepsPipes
      <3>3. Append(served[w], Head(pipe[w])) \in Seq(Nat) /\ tcounter[w] + 1 \in Nat
        BY <3>1, <3>2
      <3> QED  BY <2>1, <3>1, <3>3
    <2>6. TypeOK'
      BY <1>0, <1>1, <2>1, <2>4, <2>5, TakeKeepsPipes, Zenon DEF TypeOK, main, metric, Workers
    <2>7. accsum'[0] = 0 /\ \A v \in Workers : accsum'[v + 1] = accsum'[v] + tcounter'[v]
      <3>1. accsum'[0] = 0
        BY <1>0, <2>2, <2>3 DEF SumsInv
      <3>2. ASSUME NEW v \in Workers
            PROVE  accsum'[v + 1] = accsum'[v] + tcounter'[v]
        <4>1. v \in Int /\ v \in 0..num_threads /\ v + 1 \in 0..num_threads
          BY DEF Workers
        <4>2. accsum[v + 1] = accsum[v] + tcounter[v]
              /\ accsum[v] \in Int /\ tcounter[v] \in Int
          BY <1>0, <4>1 DEF SumsInv, TypeOK
        <4>3. tcounter'[v] = IF v = w THEN tcounter[v] + 1 ELSE tcounter[v]
          BY <1>0, <2>1 DEF TypeOK
        <4> QED  BY <2>2, <2>3, <4>1, <4>2, <4>3
      <3> QED  BY <3>1, <3>2
    <2>8. SumsInv'
      BY <1>0, <1>1, <2>7, TakeKeepsPipes DEF SumsInv
    <2>9. Conserved'
      <3>1. accsum'[num_threads] = accsum[num_threads] + 1
        BY <2>2, <2>3 DEF Workers
      <3>2. pipesum'[num_threads] = pipesum[num_threads] - 1
        BY <1>0, <1>1, TakeKeepsPipes
      <3>3. /\ counter \in Nat /\ lost \in Nat
            /\ accsum[num_threads] \in Nat /\ pipesum[num_threads] \in Nat
        BY <1>0, CountFacts
      <3>4. counter' = counter /\ current' = current /\ lost' = lost
        BY <1>1, <2>1 DEF main
      <3> QED  BY <1>0, <3>1, <3>2, <3>3, <3>4 DEF Conserved
    <2>10. MetricInv'
      <3>1. i \in 0..num_threads /\ i' = i /\ success' = success /\ success \in Int
        BY <1>0, <1>1 DEF TypeOK, metric
      <3>2. accsum[i] \in Int /\ accsum'[i] >= accsum[i] /\ accsum'[i] \in Int
        <4>1. accsum[i] \in Nat /\ accsum'[i] \in Nat
          BY <2>4, <3>1
        <4>2. accsum'[i] = accsum[i] + 1 \/ accsum'[i] = accsum[i]
          BY <2>3, <3>1
        <4> QED  BY <4>1, <4>2
      <3> QED  BY <1>0, <3>1, <3>2 DEF MetricInv
    <2> QED  BY <1>2, <1>3, <2>6, <2>8, <2>9, <2>10 DEF IInv
  <1>5. CASE WorkerCloses(w)
    <2>1. UNCHANGED <<tcounter, served, accsum>> /\ lost' = lost + 1
      BY <1>5 DEF WorkerCloses
    <2>2. TypeOK'
      <3>1. pipe' \in [Workers -> Seq(Nat)] /\ pipesum' \in [0..num_threads -> Nat]
        BY <1>0, <1>1, TakeKeepsPipes
      <3>3. lost' \in Nat
        <4>1. lost \in Nat
          BY <1>0 DEF TypeOK
        <4> QED  BY <2>1, <4>1
      <3>2. UNCHANGED <<counter, current, round_robin_counter, i, success, failure, handed>>
        BY <1>1 DEF main, metric
      <3> QED  BY <1>0, <2>1, <3>1, <3>2, <3>3, Zenon DEF TypeOK, Workers
    <2>3. SumsInv'
      BY <1>0, <1>1, <2>1, TakeKeepsPipes DEF SumsInv
    <2>4. Conserved'
      <3>1. pipesum'[num_threads] = pipesum[num_threads] - 1
        BY <1>0, <1>1, TakeKeepsPipes
      <3>2. /\ counter \in Nat /\ lost \in Nat
            /\ accsum[num_threads] \in Nat /\ pipesum[num_threads] \in Nat
        BY <1>0, CountFacts
      <3>3. counter' = counter /\ current' = current
        BY <1>1 DEF main
      <3> QED  BY <1>0, <2>1, <3>1, <3>2, <3>3 DEF Conserved
    <2>5. MetricInv'
      BY <1>0, <1>1, <2>1 DEF MetricInv, metric
    <2> QED  BY <1>2, <1>3, <2>2, <2>3, <2>4, <2>5 DEF IInv
  <1> QED  BY <1>4, <1>5 DEF Serve

(* The metric thread reads one counter, or prints its line.                *)
LEMMA MetricKeepsInv ==
  ASSUME IInv, Metric
  PROVE  IInv'
  <1> USE ThreadsAssumption, BoundsAssumption
  <1>0. TypeOK /\ SumsInv /\ Conserved /\ MetricInv /\ FailureBounded /\ TurnInv
    BY DEF IInv
  <1>1. UNCHANGED <<main, pipe, tcounter, served, lost, handed, accsum, pipesum>>
    BY DEF Metric, MetricAdds, MetricPrints
  <1>2. SumsInv' /\ Conserved' /\ TurnInv'
    BY <1>0, <1>1 DEF SumsInv, Conserved, TurnInv, index, main
  <1>3. CASE MetricAdds
    <2>1. i \in Workers /\ i' = i + 1 /\ success' = success + tcounter[i] /\ failure' = failure
      BY <1>0, <1>3 DEF MetricAdds, TypeOK, Workers
    <2>2. accsum[i + 1] = accsum[i] + tcounter[i] /\ tcounter[i] \in Nat
          /\ accsum[i] \in Nat /\ success \in Nat
      BY <1>0, <2>1 DEF SumsInv, TypeOK
    <2>3. MetricInv' /\ FailureBounded'
      BY <1>0, <1>1, <2>1, <2>2 DEF MetricInv, FailureBounded, main
    <2>4. i' \in 0..num_threads /\ success' \in Nat
      BY <2>1, <2>2 DEF Workers
    <2>5. TypeOK'
      BY <1>0, <1>1, <2>1, <2>4, Zenon DEF TypeOK, main, Workers
    <2> QED  BY <1>2, <2>3, <2>5 DEF IInv
  <1>4. CASE MetricPrints
    <2>1. i = num_threads /\ i' = 0 /\ success' = 0 /\ failure' = (counter - success) % U64
      BY <1>4 DEF MetricPrints
    <2>2. success \in Nat /\ counter \in 0..MaxConns /\ success <= counter
      <3>1. success <= accsum[num_threads] /\ success \in Nat /\ counter \in 0..MaxConns
        BY <1>0, <2>1 DEF MetricInv, TypeOK
      <3>2. accsum[num_threads] <= counter
        BY <1>0, CountFacts DEF Conserved
      <3> QED  BY <1>0, <3>1, <3>2, CountFacts
    <2>3. counter - success \in 0..(U64 - 1)
      BY <2>2
    <2>4. (counter - success) % U64 = counter - success
      BY <2>3
    <2>5. FailureBounded' /\ failure' \in Nat
      BY <1>1, <2>1, <2>2, <2>4 DEF FailureBounded, main
    <2>6. MetricInv'
      BY <1>0, <1>1, <2>1 DEF MetricInv, SumsInv
    <2>7. TypeOK'
      <3>1. i' \in 0..num_threads /\ success' \in Nat
        BY <2>1
      <3>2. UNCHANGED <<counter, current, round_robin_counter>>
        BY <1>1 DEF main
      <3> QED  BY <1>0, <1>1, <2>5, <3>1, <3>2, Zenon DEF TypeOK, Workers
    <2> QED  BY <1>2, <2>5, <2>6, <2>7 DEF IInv
  <1> QED  BY <1>3, <1>4 DEF Metric

(* IInv is an invariant of the server.                                     *)
THEOREM Inductive == Spec => []IInv
  <1>1. IInv /\ [Next]_vars => IInv'
    <2> SUFFICES ASSUME IInv, [Next]_vars PROVE IInv'
      OBVIOUS
    <2>1. CASE UNCHANGED vars
      BY <2>1, Zenon DEF IInv, TypeOK, SumsInv, Conserved, MetricInv, FailureBounded, TurnInv,
                  index, vars, main, metric, Workers
    <2> QED  BY <2>1, MainKeepsInv, HandOverKeepsInv, WorkerKeepsInv, MetricKeepsInv DEF Next
  <1> QED  BY <1>1, InitEstablishesInv, PTL DEF Spec

(* The state always has its type.                                          *)
THEOREM TypeCorrect == Spec => []TypeOK
  <1>1. IInv => TypeOK
    BY DEF IInv
  <1> QED  BY <1>1, Inductive, PTL

(* net_handle_metric's line is sound for any number of workers: reading    *)
(* the counters one by one, and the total after them, never makes the      *)
(* difference wrap around nor hides a lost connection.                     *)
THEOREM ReportCorrect == Spec => [](ReportSound /\ FailureBounded)
  <1>1. IInv => ReportSound /\ FailureBounded
    <2> SUFFICES ASSUME IInv, i = num_threads PROVE success + lost <= counter
      BY DEF IInv, ReportSound
    <2>1. success <= accsum[num_threads] /\ success \in Nat
      BY DEF IInv, MetricInv, TypeOK
    <2>2. TypeOK /\ Conserved
      BY DEF IInv
    <2> QED  BY <2>1, <2>2, CountFacts DEF Conserved
  <1> QED  BY <1>1, Inductive, PTL

(* No connection is unaccounted for on its way from the main loop to a     *)
(* worker.                                                                 *)
THEOREM ConnectionsConserved == Spec => []Conserved
  <1>1. IInv => Conserved
    BY DEF IInv
  <1> QED  BY <1>1, Inductive, PTL

(* Round robin keeps any number of workers level.                          *)
THEOREM RoundRobinBalanced == Spec => []Balanced
  <1>1. IInv => Balanced
    <2> SUFFICES ASSUME IInv, NEW v \in Workers, NEW w \in Workers
                 PROVE  handed[v] - handed[w] <= 1
      BY DEF Balanced
    <2>1. PICK q \in 0..round_robin_counter : \A u \in Workers :
            handed[u] = IF u < index THEN q + 1 ELSE q
      BY DEF IInv, TurnInv
    <2>2. q \in Int
      OBVIOUS
    <2>3. handed[v] \in {q, q + 1} /\ handed[w] \in {q, q + 1}
      BY <2>1
    <2> QED  BY <2>2, <2>3
  <1> QED  BY <1>1, Inductive, PTL
-----------------------------------------------------------------------------
(* Each worker has a row: what it serves, then what is in its pipe.        *)
LEMMA RowsType ==
  ASSUME TypeOK
  PROVE  /\ Rows \in [Workers -> Seq(Nat)]
         /\ \A w \in Workers : served[w] \in Seq(Nat) /\ pipe[w] \in Seq(Nat)
  <1>1. \A w \in Workers : served[w] \in Seq(Nat) /\ pipe[w] \in Seq(Nat)
    BY DEF TypeOK
  <1>2. \A w \in Workers : served[w] \o pipe[w] \in Seq(Nat)
    BY <1>1
  <1> QED  BY <1>1, <1>2 DEF Rows

(* Rows stay in order when connections are taken out of them: at[w][k] is  *)
(* the place that what is now at k had before.                             *)
LEMMA ThinnedRows ==
  ASSUME NEW R \in [Workers -> Seq(Nat)], NEW S \in [Workers -> Seq(Nat)],
         NEW newest \in Nat, NEW busy \in BOOLEAN, NEW at,
         RowsInOrder(R, newest, busy),
         \A w \in Workers : \A k \in 1..Len(S[w]) :
           at[w][k] \in 1..Len(R[w]) /\ S[w][k] = R[w][at[w][k]],
         \A w \in Workers : \A j, k \in 1..Len(S[w]) : j < k => at[w][j] < at[w][k]
  PROVE  RowsInOrder(S, newest, busy)
  <1>1. ASSUME NEW w \in Workers, NEW k \in 1..Len(S[w])
        PROVE  S[w][k] <= newest /\ (busy => S[w][k] < newest)
    <2>1. at[w][k] \in 1..Len(R[w]) /\ S[w][k] = R[w][at[w][k]]
      BY <1>1
    <2>2. \A p \in 1..Len(R[w]) : R[w][p] <= newest /\ (busy => R[w][p] < newest)
      BY Zenon DEF RowsInOrder
    <2> QED  BY <2>1, <2>2, Zenon
  <1>2. ASSUME NEW w \in Workers, NEW j \in 1..Len(S[w]), NEW k \in 1..Len(S[w]), j < k
        PROVE  S[w][j] < S[w][k]
    <2>1. /\ at[w][j] \in 1..Len(R[w]) /\ at[w][k] \in 1..Len(R[w]) /\ at[w][j] < at[w][k]
          /\ S[w][j] = R[w][at[w][j]] /\ S[w][k] = R[w][at[w][k]]
      BY <1>2
    <2>2. \A p, q \in 1..Len(R[w]) : p < q => R[w][p] < R[w][q]
      BY Zenon DEF RowsInOrder
    <2> QED  BY <2>1, <2>2, Zenon
  <1>3. ASSUME NEW v \in Workers, NEW w \in Workers,
               NEW j \in 1..Len(S[v]), NEW k \in 1..Len(S[w]), S[v][j] = S[w][k]
        PROVE  v = w
    <2>1. /\ at[v][j] \in 1..Len(R[v]) /\ at[w][k] \in 1..Len(R[w])
          /\ R[v][at[v][j]] = R[w][at[w][k]]
      BY <1>3, Zenon
    <2> QED  BY <2>1, Zenon DEF RowsInOrder
  <1> QED  BY <1>1, <1>2, <1>3, Zenon DEF RowsInOrder

(* A row grows by the newest connection.                                   *)
LEMMA GrownRow ==
  ASSUME NEW R \in [Workers -> Seq(Nat)], NEW x \in Workers, NEW newest \in Nat,
         RowsInOrder(R, newest, TRUE)
  PROVE  RowsInOrder([R EXCEPT ![x] = Append(R[x], newest)], newest, FALSE)
  <1> DEFINE S == [R EXCEPT ![x] = Append(R[x], newest)]
  <1>1. \A v \in Workers : \A k \in 1..Len(R[v]) : R[v][k] \in Nat /\ R[v][k] < newest
    BY DEF RowsInOrder
  <1>2. ASSUME NEW v \in Workers, NEW k \in 1..Len(S[v])
        PROVE  /\ k \in Int
               /\ \/ k \in 1..Len(R[v]) /\ S[v][k] = R[v][k]
                  \/ v = x /\ k = Len(R[x]) + 1 /\ S[v][k] = newest
    <2>1. R[x] \in Seq(Nat) /\ Len(R[x]) \in Nat
      OBVIOUS
    <2>2. CASE v = x
      <3>1. S[v] = Append(R[x], newest) /\ Len(S[v]) = Len(R[x]) + 1
        BY <2>1, <2>2
      <3>2. k \in 1..(Len(R[x]) + 1)
        BY <3>1
      <3> QED  BY <2>1, <2>2, <3>1, <3>2
    <2>3. CASE v # x
      <3>1. S[v] = R[v] /\ Len(R[v]) \in Nat
        BY <2>3
      <3> QED  BY <3>1
    <2> QED  BY <2>2, <2>3
  <1> HIDE DEF S
  <1>3. ASSUME NEW v \in Workers, NEW k \in 1..Len(S[v])
        PROVE  S[v][k] <= newest
    <2>1. CASE k \in 1..Len(R[v]) /\ S[v][k] = R[v][k]
      <3>1. R[v][k] \in Nat /\ R[v][k] < newest
        BY <1>1, <2>1
      <3> QED  BY <2>1, <3>1
    <2>2. CASE S[v][k] = newest
      BY <2>2
    <2> QED  BY <1>2, <2>1, <2>2
  <1>4. ASSUME NEW v \in Workers, NEW j \in 1..Len(S[v]), NEW k \in 1..Len(S[v]), j < k
        PROVE  S[v][j] < S[v][k]
    <2>1. j \in Int /\ k \in Int /\ Len(R[v]) \in Int /\ R[v] \in Seq(Nat)
      BY <1>2
    <2>2. CASE k \in 1..Len(R[v]) /\ S[v][k] = R[v][k]
      <3>1. j \in 1..Len(R[v]) /\ S[v][j] = R[v][j]
        BY <1>2, <1>4, <2>1, <2>2
      <3> QED  BY <1>4, <2>2, <3>1 DEF RowsInOrder
    <2>3. CASE v = x /\ k = Len(R[x]) + 1 /\ S[v][k] = newest
      <3>1. j \in 1..Len(R[v]) /\ S[v][j] = R[v][j]
        BY <1>2, <1>4, <2>1, <2>3
      <3> QED  BY <1>1, <2>3, <3>1
    <2> QED  BY <1>2, <2>2, <2>3
  <1>5. ASSUME NEW v \in Workers, NEW w \in Workers,
               NEW j \in 1..Len(S[v]), NEW k \in 1..Len(S[w]), S[v][j] = S[w][k]
        PROVE  v = w
    <2>1. CASE v = x /\ S[v][j] = newest
      <3>1. ~(k \in 1..Len(R[w]) /\ S[w][k] = R[w][k])
        BY <1>1, <1>5, <2>1
      <3> QED  BY <1>2, <2>1, <3>1
    <2>2. CASE w = x /\ S[w][k] = newest
      <3>1. ~(j \in 1..Len(R[v]) /\ S[v][j] = R[v][j])
        BY <1>1, <1>5, <2>2
      <3> QED  BY <1>2, <2>2, <3>1
    <2>3. CASE /\ j \in 1..Len(R[v]) /\ S[v][j] = R[v][j]
               /\ k \in 1..Len(R[w]) /\ S[w][k] = R[w][k]
      BY <1>5, <2>3, Zenon DEF RowsInOrder
    <2> QED  BY <1>2, <2>1, <2>2, <2>3
  <1>6. RowsInOrder(S, newest, FALSE)
    BY <1>3, <1>4, <1>5 DEF RowsInOrder
  <1> QED  BY <1>6, Zenon DEF S

(* A sequence without the element behind its first part.                   *)
LEMMA WithoutHead ==
  ASSUME NEW s \in Seq(Nat), NEW p \in Seq(Nat), p # <<>>,
         NEW k \in 1..Len(s \o Tail(p))
  PROVE  LET a == IF k <= Len(s) THEN k ELSE k + 1
         IN  a \in 1..Len(s \o p) /\ (s \o Tail(p))[k] = (s \o p)[a]
  <1>1. Len(s \o p) = Len(s) + Len(p) /\ Len(s \o Tail(p)) = Len(s) + Len(p) - 1
        /\ Len(s) \in Nat /\ Len(p) \in Nat /\ Len(p) >= 1
    OBVIOUS
  <1>2. CASE k <= Len(s)
    BY <1>1, <1>2
  <1>3. CASE k > Len(s)
    <2>1. k + 1 \in 1..Len(s \o p)
      BY <1>1, <1>3
    <2>2. (s \o Tail(p))[k] = Tail(p)[k - Len(s)] /\ k - Len(s) \in 1..(Len(p) - 1)
      BY <1>1, <1>3
    <2>3. (s \o p)[k + 1] = p[k + 1 - Len(s)]
      BY <1>1, <1>3, <2>1
    <2>4. Tail(p)[k - Len(s)] = p[k - Len(s) + 1]
      BY <1>1, <2>2
    <2>5. k - Len(s) + 1 = k + 1 - Len(s)
      BY <1>1
    <2>6. ~(k <= Len(s))
      BY <1>1, <1>3
    <2> QED  BY <2>1, <2>2, <2>3, <2>4, <2>5, <2>6
  <1> QED  BY <1>1, <1>2, <1>3

(* A worker that accepts leaves its row alone, one that gives up a         *)
(* connection takes it out.                                                *)
LEMMA WorkerThinsRow ==
  ASSUME TypeOK, TypeOK', RowsInv, NEW w \in Workers, Serve(w)
  PROVE  RowsInv'
  <1>1. /\ served \in [Workers -> Seq(Nat)] /\ pipe \in [Workers -> Seq(Nat)]
        /\ pipe[w] # <<>> /\ pipe' = [pipe EXCEPT ![w] = Tail(pipe[w])]
        /\ counter' = counter /\ current' = current
    BY Zenon DEF TypeOK, Serve, WorkerAccepts, WorkerCloses, Take, main
  <1>2. /\ served[w] \in Seq(Nat) /\ pipe[w] \in Seq(Nat)
        /\ pipe'[w] = Tail(pipe[w]) /\ \A v \in Workers : v # w => pipe'[v] = pipe[v]
    BY <1>1
  <1>3. CASE WorkerAccepts(w)
    <2>1. served' = [served EXCEPT ![w] = Append(served[w], Head(pipe[w]))]
      BY <1>3 DEF WorkerAccepts
    <2>2. served'[w] = Append(served[w], Head(pipe[w]))
          /\ \A v \in Workers : v # w => served'[v] = served[v]
      BY <1>1, <2>1
    <2>3. Append(served[w], Head(pipe[w])) \o Tail(pipe[w]) = served[w] \o pipe[w]
      BY <1>1, <1>2, SMTT(30)
    <2>4. Rows' = Rows
      BY <1>2, <2>2, <2>3, Zenon DEF Rows
    <2> QED  BY <1>1, <2>4 DEF RowsInv
  <1>4. CASE WorkerCloses(w)
    <2>1. served' = served
      BY <1>4 DEF WorkerCloses
    <2> DEFINE at == [v \in Workers |-> [k \in 1..Len(Rows'[v]) |->
                        IF v = w /\ k > Len(served[w]) THEN k + 1 ELSE k]]
    <2>2. \A v \in Workers : Rows[v] = served[v] \o pipe[v] /\ Rows'[v] = served[v] \o pipe'[v]
      BY <2>1, Zenon DEF Rows
    <2>3. ASSUME NEW v \in Workers, NEW k \in 1..Len(Rows'[v])
          PROVE  at[v][k] \in 1..Len(Rows[v]) /\ Rows'[v][k] = Rows[v][at[v][k]]
      <3>1. CASE v # w
        <4>1. Rows'[v] = Rows[v] /\ at[v][k] = k
          BY <1>2, <2>2, <3>1, Zenon
        <4> QED  BY <4>1
      <3>2. CASE v = w
        <4>1. Rows'[v] = served[w] \o Tail(pipe[w]) /\ Rows[v] = served[w] \o pipe[w]
          BY <1>2, <2>2, <3>2, Zenon
        <4>2. k \in Int /\ Len(served[w]) \in Int
          BY <1>2
        <4>3. at[v][k] = IF k <= Len(served[w]) THEN k ELSE k + 1
          BY <3>2, <4>2
        <4> HIDE DEF at
        <4>4. k \in 1..Len(served[w] \o Tail(pipe[w]))
          BY <4>1, Zenon
        <4> QED  BY <1>1, <1>2, <4>1, <4>3, <4>4, WithoutHead, SMTT(30)
      <3> QED  BY <3>1, <3>2
    <2>4. ASSUME NEW v \in Workers, NEW j \in 1..Len(Rows'[v]), NEW k \in 1..Len(Rows'[v]),
                 j < k
          PROVE  at[v][j] < at[v][k]
      <3>1. j \in Int /\ k \in Int /\ Len(served[w]) \in Int
        BY <1>2
      <3> QED  BY <2>4, <3>1
    <2> HIDE DEF at
    <2>5. RowsInOrder(Rows, counter, current # 0)
      BY DEF RowsInv
    <2>6. Rows \in [Workers -> Seq(Nat)] /\ counter \in Nat
      BY RowsType, CountFacts
    <2>7. Rows' \in [Workers -> Seq(Nat)]
      <3>1. \A v \in Workers : served'[v] \in Seq(Nat) /\ pipe'[v] \in Seq(Nat)
        BY DEF TypeOK
      <3>2. \A v \in Workers : served'[v] \o pipe'[v] \in Seq(Nat)
        BY <3>1
      <3> QED  BY <3>2 DEF Rows
    <2>8. RowsInOrder(Rows', counter, current # 0)
      BY <2>3, <2>4, <2>5, <2>6, <2>7, ThinnedRows, Zenon
    <2> QED  BY <1>1, <2>8 DEF RowsInv
  <1> QED  BY <1>3, <1>4 DEF Serve

(* The connection handed over is the newest of all.                        *)
LEMMA HandOverExtendsRow ==
  ASSUME TypeOK, TypeOK', RowsInv, MainHandsOver
  PROVE  RowsInv'
  <1> DEFINE x == index
  <1>1. x \in Workers /\ current # 0 /\ current = counter /\ counter \in Nat
    BY CountFacts DEF RowsInv, MainHandsOver
  <1>2. /\ pipe' = [pipe EXCEPT ![x] = Append(pipe[x], counter)]
        /\ served' = served /\ current' = 0 /\ counter' = counter
    BY <1>1 DEF MainHandsOver
  <1> HIDE DEF x
  <1>3. pipe \in [Workers -> Seq(Nat)] /\ Rows \in [Workers -> Seq(Nat)]
        /\ \A v \in Workers : served[v] \in Seq(Nat) /\ pipe[v] \in Seq(Nat)
    BY RowsType, Zenon DEF TypeOK
  <1>4. /\ pipe'[x] = Append(pipe[x], counter)
        /\ \A v \in Workers : v # x => pipe'[v] = pipe[v]
    BY <1>1, <1>2, <1>3
  <1>5. served[x] \o Append(pipe[x], counter) = Append(served[x] \o pipe[x], counter)
    <2> DEFINE s == served[x]
               p == pipe[x]
    <2>1. s \in Seq(Nat) /\ p \in Seq(Nat) /\ counter \in Nat
      BY <1>1, <1>3
    <2> HIDE DEF s, p
    <2>2. <<counter>> \in Seq(Nat) /\ s \o p \in Seq(Nat)
      BY <2>1
    <2>3. Append(p, counter) = p \o <<counter>> /\ Append(s \o p, counter) = (s \o p) \o <<counter>>
      BY <2>1, <2>2, AppendIsConcat, Zenon
    <2>4. (s \o p) \o <<counter>> = s \o (p \o <<counter>>)
      BY <2>1, <2>2, ConcatAssociative, SMTT(20)
    <2> QED  BY <2>3, <2>4, Zenon DEF s, p
  <1>6. Rows' = [Rows EXCEPT ![x] = Append(Rows[x], counter)]
    <2>1. Rows' = [v \in Workers |-> served[v] \o pipe'[v]]
      BY <1>2 DEF Rows
    <2>2. \A v \in Workers : Rows[v] = served[v] \o pipe[v]
      BY Zenon DEF Rows
    <2>3. \A v \in Workers : Rows'[v] = IF v = x THEN Append(Rows[x], counter) ELSE Rows[v]
      BY <1>1, <1>4, <1>5, <2>1, <2>2, Zenon
    <2> QED  BY <1>1, <1>3, <2>1, <2>3, Zenon
  <1>7. RowsInOrder(Rows, counter, TRUE)
    BY <1>1, Zenon DEF RowsInv
  <1>8. RowsInOrder(Rows', counter, FALSE)
    BY <1>1, <1>3, <1>6, <1>7, GrownRow, Zenon
  <1> QED  BY <1>2, <1>8, Zenon DEF RowsInv

(* A connection announced is newer than all that were handed over.         *)
LEMMA CountKeepsRows ==
  ASSUME TypeOK, RowsInv, MainCounts
  PROVE  RowsInv'
  <1>1. Rows' = Rows /\ Rows \in [Workers -> Seq(Nat)]
    BY RowsType DEF MainCounts, Rows
  <1>2. counter' = counter + 1 /\ current' = counter + 1 /\ counter \in Nat
    BY CountFacts DEF MainCounts
  <1>3. \A w \in Workers : \A k \in 1..Len(Rows[w]) :
          Rows[w][k] <= counter + 1 /\ Rows[w][k] < counter + 1
    BY <1>1, <1>2 DEF RowsInv, RowsInOrder
  <1>4. RowsInOrder(Rows, counter + 1, TRUE)
    BY <1>3 DEF RowsInv, RowsInOrder
  <1>5. current' # 0
    BY <1>2
  <1> QED  BY <1>1, <1>2, <1>4, <1>5 DEF RowsInv, RowsInOrder

(* Giving up the connection in hand, and every step that leaves rows and   *)
(* counters alone.                                                         *)
LEMMA SameRows ==
  ASSUME RowsInv, UNCHANGED <<served, pipe, counter>>, current' \in {current, 0}
  PROVE  RowsInv'
  <1>1. Rows' = Rows
    BY DEF Rows
  <1> QED  BY <1>1 DEF RowsInv, RowsInOrder

(* A connection in a pipe or served is in the row of its worker.           *)
LEMMA InRow ==
  ASSUME TypeOK, NEW w \in Workers, NEW c, InPipe(c, w) \/ Served(c, w)
  PROVE  \E k \in 1..Len(Rows[w]) : Rows[w][k] = c
  <1> DEFINE s == served[w]
             p == pipe[w]
  <1>1. s \in Seq(Nat) /\ p \in Seq(Nat)
    BY RowsType
  <1>2. (\E k \in 1..Len(p) : p[k] = c) \/ (\E k \in 1..Len(s) : s[k] = c)
    BY DEF InPipe, Served
  <1>3. Rows[w] = s \o p
    BY Zenon DEF Rows
  <1> HIDE DEF s, p
  <1>4. CASE \E k \in 1..Len(p) : p[k] = c
    <2>1. PICK k \in 1..Len(p) : p[k] = c
      BY <1>4
    <2>2. Len(s) + k \in 1..Len(s \o p) /\ (s \o p)[Len(s) + k] = p[k]
      BY <1>1
    <2> QED  BY <1>3, <2>1, <2>2
  <1>5. CASE \E k \in 1..Len(s) : s[k] = c
    <2>1. PICK k \in 1..Len(s) : s[k] = c
      BY <1>5
    <2>2. k \in 1..Len(s \o p) /\ (s \o p)[k] = s[k]
      BY <1>1
    <2> QED  BY <1>3, <2>1, <2>2
  <1> QED  BY <1>2, <1>4, <1>5

(* A descriptor goes to one worker and is accepted once, and every worker  *)
(* takes its connections in the order main_new_connection_cb announced     *)
(* them: for any number of workers and connections.                        *)
THEOREM HandedOverOnce == Spec => []HandedOnce
  <1>1. Init => RowsInv
    <2> SUFFICES ASSUME Init PROVE RowsInv
      OBVIOUS
    <2>1. \A w \in Workers : Rows[w] = <<>>
      BY DEF Init, Rows
    <2> QED  BY <2>1 DEF RowsInv, RowsInOrder, Init
  <1>2. TypeOK /\ TypeOK' /\ RowsInv /\ [Next]_vars => RowsInv'
    <2> SUFFICES ASSUME TypeOK, TypeOK', RowsInv, [Next]_vars PROVE RowsInv'
      OBVIOUS
    <2>1. CASE UNCHANGED vars
      BY <2>1, SameRows DEF vars, main
    <2>2. CASE MainCloses
      BY <2>2, SameRows DEF MainCloses
    <2>3. CASE Metric
      BY <2>3, SameRows DEF Metric, MetricAdds, MetricPrints, main
    <2> QED  BY <2>1, <2>2, <2>3, CountKeepsRows, HandOverExtendsRow, WorkerThinsRow DEF Next
  <1>3. TypeOK /\ RowsInv => HandedOnce
    <2> SUFFICES ASSUME TypeOK, RowsInv PROVE HandedOnce
      OBVIOUS
    <2>1. ASSUME NEW v \in Workers, NEW w \in Workers, NEW c \in 1..counter,
                 InPipe(c, v) \/ Served(c, v), InPipe(c, w) \/ Served(c, w)
          PROVE  v = w
      <3>1. PICK j \in 1..Len(Rows[v]) : Rows[v][j] = c
        BY <2>1, InRow
      <3>2. PICK k \in 1..Len(Rows[w]) : Rows[w][k] = c
        BY <2>1, InRow
      <3> QED  BY <3>1, <3>2 DEF RowsInv, RowsInOrder
    <2>2. \A w \in Workers : Rows[w] = served[w] \o pipe[w]
      BY Zenon DEF Rows
    <2>3. \A w \in Workers : \A j, k \in 1..Len(served[w] \o pipe[w]) :
            j < k => (served[w] \o pipe[w])[j] < (served[w] \o pipe[w])[k]
      BY <2>2, Zenon DEF RowsInv, RowsInOrder
    <2> QED  BY <2>1, <2>3, Zenon DEF HandedOnce
  <1> QED  BY <1>1, <1>2, <1>3, TypeCorrect, PTL DEF Spec
=============================================================================
