------------------------------- MODULE NetSock ------------------------------
(***************************************************************************)
(* The socket server of base/net_sock.c: the main loop counts and accepts  *)
(* connections and hands them round robin to worker loops over one pipe    *)
(* each; a metric thread adds the counters of the workers up while all of  *)
(* them run.                                                               *)
(*                                                                         *)
(* A connection is the number of the callback that announced it.  A pipe   *)
(* delivers the descriptors sent over it in order, one for each read.  The *)
(* counters are uint64_t and are only ever incremented; failure, their     *)
(* difference, is taken modulo U64.                                        *)
(***************************************************************************)
EXTENDS Integers, Sequences

CONSTANTS
  num_threads,   \* number of worker threads
  U64,           \* the modulus of uint64_t
  MaxConns       \* bound: connection callbacks of a behaviour

ASSUME ThreadsAssumption == num_threads \in Nat \ {0}
ASSUME BoundsAssumption == MaxConns \in Nat /\ U64 \in Nat /\ MaxConns < U64

VARIABLES
  counter,              \* sk->counter
  current,              \* connection the main callback is working on, 0 if none
  round_robin_counter,
  pipe,                 \* pipe[i]: connections on their way to worker i
  tcounter,             \* tcounter[i]: sk->threads[i].counter
  i,                    \* the loop counter of net_handle_metric
  success,              \* its sum
  failure,              \* the difference it has last printed
  served,               \* history: served[w], the connections w has accepted
  lost,                 \* history: number of callbacks without a connection served
  handed,               \* history: handed[w], connections handed to w
  accsum,               \* history: accsum[k], the sum of tcounter below k
  pipesum               \* history: pipesum[k], connections in the pipes below k

main == <<counter, current, round_robin_counter>>
metric == <<i, success, failure>>
vars == <<main, pipe, tcounter, metric, served, lost, handed, accsum, pipesum>>

Workers == 0..(num_threads - 1)

TypeOK ==
  /\ counter \in 0..MaxConns
  /\ current \in 0..counter
  /\ round_robin_counter \in Nat
  /\ pipe \in [Workers -> Seq(Nat)]
  /\ tcounter \in [Workers -> Nat]
  /\ i \in 0..num_threads
  /\ success \in Nat
  /\ failure \in Nat
  /\ served \in [Workers -> Seq(Nat)]
  /\ lost \in Nat
  /\ handed \in [Workers -> Nat]
  /\ accsum \in [0..num_threads -> Nat]
  /\ pipesum \in [0..num_threads -> Nat]

Init ==
  /\ counter = 0 /\ current = 0 /\ round_robin_counter = 0
  /\ pipe = [w \in Workers |-> <<>>]
  /\ tcounter = [w \in Workers |-> 0]
  /\ i = 0 /\ success = 0 /\ failure = 0
  /\ served = [w \in Workers |-> <<>>]
  /\ lost = 0
  /\ handed = [w \in Workers |-> 0]
  /\ accsum = [k \in 0..num_threads |-> 0]
  /\ pipesum = [k \in 0..num_threads |-> 0]

(* f with d added behind w: the sums of a function whose value at w has    *)
(* changed by d.                                                           *)
Shift(f, w, d) == [k \in 0..num_threads |-> IF k > w THEN f[k] + d ELSE f[k]]

-----------------------------------------------------------------------------
(* Mutant: the connection is counted after it was accepted, here never.    *)
MainCountsLate ==
  /\ current = 0
  /\ counter < MaxConns
  /\ current' = counter + 1
  /\ UNCHANGED <<counter, round_robin_counter, pipe, tcounter, metric, served, lost,
                 handed, accsum, pipesum>>

(* main_new_connection_cb counts before it accepts.                        *)
MainCounts ==
  /\ current = 0
  /\ counter < MaxConns
  /\ counter' = counter + 1
  /\ current' = counter + 1
  /\ UNCHANGED <<round_robin_counter, pipe, tcounter, metric, served, lost,
                 handed, accsum, pipesum>>

(* uv_accept fails: nothing was there to accept (the callback reported an  *)
(* error) or the descriptor cannot be used.                                *)
MainCloses ==
  /\ current # 0
  /\ current' = 0
  /\ lost' = lost + 1
  /\ UNCHANGED <<counter, round_robin_counter, pipe, tcounter, metric, served,
                 handed, accsum, pipesum>>

(* Mutant: the turn only moves on when it comes back to the first worker.  *)
SkewedIndex == IF round_robin_counter < num_threads THEN 0
               ELSE round_robin_counter % num_threads

index == round_robin_counter % num_threads

(* Mutant: the write to the pipe is forgotten.                             *)
MainDrops ==
  /\ current # 0
  /\ round_robin_counter' = round_robin_counter + 1
  /\ current' = 0
  /\ handed' = [handed EXCEPT ![index] = @ + 1]
  /\ UNCHANGED <<counter, pipe, tcounter, metric, served, lost, accsum, pipesum>>

MainHandsOver ==
  /\ current # 0
  /\ pipe' = [pipe EXCEPT ![index] = Append(@, current)]
  /\ round_robin_counter' = round_robin_counter + 1
  /\ current' = 0
  /\ handed' = [handed EXCEPT ![index] = @ + 1]
  /\ pipesum' = Shift(pipesum, index, 1)
  /\ UNCHANGED <<counter, tcounter, metric, served, lost, accsum>>

-----------------------------------------------------------------------------
(* Mutant: the descriptor stays pending.                                   *)
Peek(w) ==
  /\ pipe[w] # <<>>
  /\ UNCHANGED <<pipe, pipesum>>

(* Mutant: the last descriptor of a pipe is left there.                    *)
TakeUnlessLast(w) ==
  /\ Len(pipe[w]) > 1
  /\ pipe' = [pipe EXCEPT ![w] = Tail(@)]
  /\ pipesum' = Shift(pipesum, w, -1)

(* The pipe holds a byte and a descriptor: uv_accept takes the descriptor. *)
Take(w) ==
  /\ pipe[w] # <<>>
  /\ pipe' = [pipe EXCEPT ![w] = Tail(@)]
  /\ pipesum' = Shift(pipesum, w, -1)

(* thread_new_connection_cb                                                *)
WorkerAccepts(w) ==
  /\ Take(w)
  /\ tcounter' = [tcounter EXCEPT ![w] = @ + 1]
  /\ served' = [served EXCEPT ![w] = Append(@, Head(pipe[w]))]
  /\ accsum' = Shift(accsum, w, 1)
  /\ UNCHANGED <<main, metric, lost, handed>>

WorkerCloses(w) ==
  /\ Take(w)
  /\ lost' = lost + 1
  /\ UNCHANGED <<main, tcounter, metric, served, handed, accsum>>

-----------------------------------------------------------------------------
(* net_handle_metric: one counter at a time, then the total and the line.  *)
MetricAdds ==
  /\ i < num_threads
  /\ success' = success + tcounter[i]
  /\ i' = i + 1
  /\ UNCHANGED <<main, pipe, tcounter, failure, served, lost, handed, accsum, pipesum>>

(* Mutant: the sum of the last line is kept.                               *)
MetricKeepsSum ==
  /\ i = num_threads
  /\ failure' = (counter - success) % U64
  /\ i' = 0
  /\ UNCHANGED <<main, pipe, tcounter, success, served, lost, handed, accsum, pipesum>>

MetricPrints ==
  /\ i = num_threads
  /\ failure' = (counter - success) % U64
  /\ i' = 0
  /\ success' = 0
  /\ UNCHANGED <<main, pipe, tcounter, served, lost, handed, accsum, pipesum>>

Metric == MetricAdds \/ MetricPrints

Serve(w) == WorkerAccepts(w) \/ WorkerCloses(w)

Next ==
  \/ MainCounts \/ MainCloses \/ MainHandsOver
  \/ \E w \in Workers : Serve(w)
  \/ Metric

Spec == Init /\ [][Next]_vars

(* Each thread keeps running its loop; connections need not arrive.        *)
FairSpec ==
  /\ Spec
  /\ WF_vars(MainCloses \/ MainHandsOver)
  /\ \A w \in Workers : WF_vars(Serve(w))
  /\ WF_vars(Metric)

-----------------------------------------------------------------------------
InPipe(c, w) == \E k \in 1..Len(pipe[w]) : pipe[w][k] = c
Served(c, w) == \E k \in 1..Len(served[w]) : served[w][k] = c

(* The line of net_handle_metric makes sense although the counters move    *)
(* while it adds them up: when it is printed, the connections counted as   *)
(* successes and the ones known to be lost are no more than the total, so  *)
(* failure neither wraps around nor hides a lost connection.               *)
ReportSound == i = num_threads => success + lost <= counter

(* The figure printed is one the server has had: it never exceeds the      *)
(* number of connections announced so far.                                 *)
FailureBounded == failure <= counter

(* Round robin keeps the workers level: none has been handed two           *)
(* connections more than another.                                          *)
Balanced == \A v, w \in Workers : handed[v] - handed[w] <= 1

(* A descriptor goes to one worker and is accepted once: no connection is  *)
(* in two places of the pipes and of what the workers serve, and each      *)
(* worker takes its connections in the order they were announced.          *)
HandedOnce ==
  /\ \A w \in Workers :
       LET all == served[w] \o pipe[w]
       IN  \A j, k \in 1..Len(all) : j < k => all[j] < all[k]
  /\ \A v, w \in Workers : \A c \in 1..counter :
       (InPipe(c, v) \/ Served(c, v)) /\ (InPipe(c, w) \/ Served(c, w)) => v = w

(* Every announced connection is accounted for: it is with the main loop,  *)
(* in a pipe, served or lost.                                              *)
Conserved ==
  counter = accsum[num_threads] + pipesum[num_threads] + lost
            + (IF current = 0 THEN 0 ELSE 1)

(* The workers empty their pipes and the losses are reported: the failure  *)
(* count printed settles on the number of connections lost once all have   *)
(* been announced.                                                         *)
ReportSettles ==
  counter = MaxConns /\ current = 0 ~> [](failure = lost)

-----------------------------------------------------------------------------
(* The inductive invariant behind ReportSound, Conserved and Balanced: the *)
(* history sums are sums, the metric thread's partial sum is behind the    *)
(* counters it has passed, and the workers before the next index are one   *)
(* connection ahead of those from it on.                                   *)
SumsInv ==
  /\ accsum[0] = 0 /\ pipesum[0] = 0
  /\ \A w \in Workers : accsum[w + 1] = accsum[w] + tcounter[w]
  /\ \A w \in Workers : pipesum[w + 1] = pipesum[w] + Len(pipe[w])
  /\ \A j, k \in 0..num_threads : j <= k => pipesum[j] <= pipesum[k]

MetricInv == success <= accsum[i]

TurnInv ==
  \E q \in 0..round_robin_counter : \A w \in Workers :
    handed[w] = IF w < index THEN q + 1 ELSE q

(* The inductive invariant behind HandedOnce: the connections a worker has *)
(* been handed and has not given up, first the ones it serves, are in the  *)
(* order of their numbers, older than the one the main loop works on, and  *)
(* no worker has one of another.                                           *)
Rows == [w \in Workers |-> served[w] \o pipe[w]]

RowsInOrder(rows, newest, busy) ==
  /\ \A w \in Workers : \A k \in 1..Len(rows[w]) :
       rows[w][k] <= newest /\ (busy => rows[w][k] < newest)
  /\ \A w \in Workers : \A j, k \in 1..Len(rows[w]) : j < k => rows[w][j] < rows[w][k]
  /\ \A v, w \in Workers : \A j \in 1..Len(rows[v]), k \in 1..Len(rows[w]) :
       rows[v][j] = rows[w][k] => v = w

RowsInv == (current # 0 => current = counter) /\ RowsInOrder(Rows, counter, current # 0)

IInv == TypeOK /\ SumsInv /\ Conserved /\ MetricInv /\ FailureBounded /\ TurnInv
=============================================================================
