------------------------------- MODULE NetEcho ------------------------------
(***************************************************************************)
(* One connection of a worker of base/net_sock.c: read_cb queues what it   *)
(* has read to be written back, write_cb frees it, the end of the stream   *)
(* or an error closes the connection; net_sock_deinit stops the worker.    *)
(*                                                                         *)
(* libuv (external) writes queued requests in order, any part of one at a  *)
(* time, calls write_cb once for each, and cancels the queued ones when    *)
(* the handle closes.  uv_stop sets a flag that uv_run tests between two   *)
(* rounds of callbacks, so that a loop waiting for events does not see it. *)
(* Bytes are numbered in the order the client sends them.                  *)
(***************************************************************************)
EXTENDS Integers, Sequences

CONSTANTS
  MaxBytes,     \* bound: bytes the client sends
  MaxRead,      \* most bytes of one read
  MaxBuffers    \* bound: buffers allocated

ASSUME BoundsAssumption == MaxBytes \in Nat /\ MaxRead \in Nat /\ MaxBuffers \in Nat

VARIABLES
  state,      \* of the handle: "open", "closing" or "closed"
  peer,       \* of the client: "up", "shut" (no more data) or "reset"
  sent,       \* number of bytes the client has sent
  received,   \* number of bytes read by the server
  queue,      \* write requests [base, first, last]: the buffer and the bytes
              \* still to be written
  done,       \* requests whose write_cb is due
  echoed,     \* bytes the client has got back
  allocated,  \* number of buffers alloc_buffer has returned
  freed,      \* history: how often each buffer was freed
  worker,     \* the worker's thread: "runs" or "ended"
  stop,       \* the stop flag of its loop
  asleep,     \* the loop was waiting for events when the flag was set, and is
  deinit      \* net_sock_deinit: "none", "join" or "over"

connection == <<state, peer, sent, received, queue, done, echoed, allocated, freed>>
shutdown == <<worker, stop, asleep, deinit>>
vars == <<connection, shutdown>>

Buffers == 1..MaxBuffers

Request == [base : Buffers, first : 1..MaxBytes, last : 1..MaxBytes]

TypeOK ==
  /\ state \in {"open", "closing", "closed"}
  /\ peer \in {"up", "shut", "reset"}
  /\ sent \in 0..MaxBytes
  /\ received \in 0..sent
  /\ queue \in Seq(Request)
  /\ done \subseteq Buffers
  /\ echoed \in Seq(1..MaxBytes)
  /\ allocated \in 0..MaxBuffers
  /\ freed \in [Buffers -> Nat]

Init ==
  /\ state = "open" /\ peer = "up" /\ sent = 0 /\ received = 0
  /\ queue = <<>> /\ done = {} /\ echoed = <<>> /\ allocated = 0
  /\ freed = [b \in Buffers |-> 0]
  /\ worker = "runs" /\ stop = FALSE /\ asleep = FALSE /\ deinit = "none"

-----------------------------------------------------------------------------
ClientSends ==
  /\ peer = "up"
  /\ sent < MaxBytes
  /\ sent' = sent + 1
  /\ UNCHANGED <<state, peer, received, queue, done, echoed, allocated, freed, shutdown>>

ClientStops(how) ==
  /\ peer # "reset" /\ peer # how
  /\ peer' = how
  /\ UNCHANGED <<state, sent, received, queue, done, echoed, allocated, freed, shutdown>>

-----------------------------------------------------------------------------
(* The loop makes a callback, woken by its event if it was waiting.        *)
Callback ==
  /\ worker = "runs"
  /\ asleep' = FALSE
  /\ UNCHANGED <<worker, stop, deinit>>

alloc_buffer ==
  /\ allocated < MaxBuffers
  /\ allocated' = allocated + 1

(* The write request for n bytes in the buffer just allocated.             *)
Read(n) == [base |-> allocated', first |-> received + 1, last |-> received + n]

(* Mutant: the request is queued before the ones already there.            *)
ReadDataFirst(n) ==
  /\ Callback
  /\ state = "open"
  /\ n \in 1..(sent - received)
  /\ alloc_buffer
  /\ received' = received + n
  /\ queue' = <<Read(n)>> \o queue
  /\ UNCHANGED <<state, peer, sent, done, echoed, freed>>

(* Mutant: what was read is not written back.                              *)
ReadDataDrops(n) ==
  /\ Callback
  /\ state = "open"
  /\ n \in 1..(sent - received)
  /\ alloc_buffer
  /\ received' = received + n
  /\ freed' = [freed EXCEPT ![allocated'] = @ + 1]
  /\ UNCHANGED <<state, peer, sent, queue, done, echoed>>

(* read_cb with nread = n > 0: the buffer goes to a write request.         *)
ReadData(n) ==
  /\ Callback
  /\ state = "open"
  /\ n \in 1..(sent - received)
  /\ alloc_buffer
  /\ received' = received + n
  /\ queue' = Append(queue, Read(n))
  /\ UNCHANGED <<state, peer, sent, done, echoed, freed>>

(* read_cb with nread = 0: only the buffer is freed.                       *)
ReadNothing ==
  /\ Callback
  /\ state = "open"
  /\ sent = received
  /\ peer = "up"
  /\ alloc_buffer
  /\ freed' = [freed EXCEPT ![allocated'] = @ + 1]
  /\ UNCHANGED <<state, peer, sent, received, queue, done, echoed>>

(* Mutant: only the end of the stream closes the connection, not an error. *)
ReadEndOnlyEof ==
  /\ Callback
  /\ state = "open"
  /\ peer = "shut" /\ sent = received
  /\ alloc_buffer
  /\ freed' = [freed EXCEPT ![allocated'] = @ + 1]
  /\ state' = "closing"
  /\ UNCHANGED <<peer, sent, received, queue, done, echoed>>

(* read_cb with nread < 0: uv_close, and the buffer is freed.              *)
ReadEnd ==
  /\ Callback
  /\ state = "open"
  /\ peer = "reset" \/ (peer = "shut" /\ sent = received)
  /\ alloc_buffer
  /\ freed' = [freed EXCEPT ![allocated'] = @ + 1]
  /\ state' = "closing"
  /\ UNCHANGED <<peer, sent, received, queue, done, echoed>>

-----------------------------------------------------------------------------
(* libuv writes the first n bytes of the queue's head.                     *)
WriteSome(n) ==
  /\ Callback
  /\ state = "open" /\ queue # <<>> /\ peer # "reset"
  /\ n \in 1..(Head(queue).last - Head(queue).first + 1)
  /\ echoed' = echoed \o [k \in 1..n |-> Head(queue).first + k - 1]
  /\ \/ /\ Head(queue).first + n = Head(queue).last + 1
        /\ queue' = Tail(queue)
        /\ done' = done \cup {Head(queue).base}
     \/ /\ Head(queue).first + n <= Head(queue).last
        /\ queue' = [queue EXCEPT ![1].first = @ + n]
        /\ done' = done
  /\ UNCHANGED <<state, peer, sent, received, allocated, freed>>

(* A write fails (the client is gone), or is cancelled by uv_close.        *)
WriteFails ==
  /\ Callback
  /\ queue # <<>>
  /\ peer = "reset" \/ state = "closing"
  /\ queue' = Tail(queue)
  /\ done' = done \cup {Head(queue).base}
  /\ UNCHANGED <<state, peer, sent, received, echoed, allocated, freed>>

(* Mutant: only a request that was written is freed.                       *)
WriteCbIfOpen(b) ==
  /\ Callback
  /\ b \in done
  /\ done' = done \ {b}
  /\ freed' = IF state = "open" THEN [freed EXCEPT ![b] = @ + 1] ELSE freed
  /\ UNCHANGED <<state, peer, sent, received, queue, echoed, allocated>>

(* free_write_req, whatever the status.                                    *)
write_cb(b) ==
  /\ Callback
  /\ b \in done
  /\ done' = done \ {b}
  /\ freed' = [freed EXCEPT ![b] = @ + 1]
  /\ UNCHANGED <<state, peer, sent, received, queue, echoed, allocated>>

(* The handle is closed once all its callbacks have been made.             *)
Closed ==
  /\ Callback
  /\ state = "closing" /\ queue = <<>> /\ done = {}
  /\ state' = "closed"
  /\ UNCHANGED <<peer, sent, received, queue, done, echoed, allocated, freed>>

(* net_sock_deinit as far as net_sock_thread_deinit of this worker, to     *)
(* pthread_join: uv_stop sets the flag while the loop waits for events or  *)
(* runs, uv_loop_close refuses a loop with open handles.                   *)
net_sock_thread_deinit ==
  /\ deinit = "none"
  /\ deinit' = "join" /\ stop' = TRUE
  /\ asleep' \in BOOLEAN
  /\ UNCHANGED <<connection, worker>>

(* An event of another connection or of the pipe wakes the loop.           *)
OtherEvent ==
  /\ asleep
  /\ asleep' = FALSE
  /\ UNCHANGED <<connection, worker, stop, deinit>>

(* Mutant: the flag is not tested.                                         *)
RunGoesOn ==
  /\ worker = "runs" /\ stop /\ ~asleep
  /\ stop' = FALSE
  /\ UNCHANGED <<connection, worker, asleep, deinit>>

(* uv_run sees the flag and net_sock_thread_init returns.                  *)
RunReturns ==
  /\ worker = "runs" /\ stop /\ ~asleep
  /\ worker' = "ended" /\ stop' = FALSE
  /\ UNCHANGED <<connection, asleep, deinit>>

(* pthread_join returns, the threads are freed, the main loop is stopped.  *)
net_sock_deinit ==
  /\ deinit = "join" /\ worker = "ended"
  /\ deinit' = "over"
  /\ UNCHANGED <<connection, worker, stop, asleep>>

Finished ==
  /\ state = "closed" \/ allocated = MaxBuffers \/ deinit = "over"
  /\ UNCHANGED vars

Loop ==
  \/ \E n \in 1..MaxRead : ReadData(n) \/ WriteSome(n)
  \/ ReadEnd \/ WriteFails \/ Closed
  \/ \E b \in Buffers : write_cb(b)

Next ==
  \/ ClientSends \/ \E how \in {"shut", "reset"} : ClientStops(how)
  \/ Loop \/ ReadNothing
  \/ net_sock_thread_deinit \/ OtherEvent \/ RunReturns \/ net_sock_deinit
  \/ Finished

(* The worker's loop keeps handling what is ready, every round of its      *)
(* callbacks ends, and the thread in net_sock_deinit keeps running.        *)
Spec == Init /\ [][Next]_vars /\ WF_vars(Loop) /\ WF_vars(RunReturns \/ net_sock_deinit)

-----------------------------------------------------------------------------
(* The client gets back a prefix of what it has sent, in order, however    *)
(* reads and writes are cut and whenever the connection or the worker      *)
(* ends.                                                                   *)
EchoIsPrefix == echoed = [k \in 1..Len(echoed) |-> k]

(* The buffers of the write requests whose write_cb has not run.           *)
Pending == {queue[k].base : k \in 1..Len(queue)} \cup done

(* A buffer is freed once, by write_cb or by read_cb and never by both,    *)
(* and not while a write request still uses it: those that are not freed   *)
(* are the ones of pending requests, none once the connection is closed.   *)
BuffersFreedOnce ==
  /\ \A b \in 1..allocated : freed[b] = IF b \in Pending THEN 0 ELSE 1
  /\ state = "closed" => Pending = {}

(* What a client has sent comes back unless the connection ends or the     *)
(* worker is stopped.                                                      *)
EchoComplete ==
  \A n \in 1..MaxBytes :
    sent >= n ~> \/ Len(echoed) >= n
                \/ peer # "up" \/ deinit # "none" \/ allocated = MaxBuffers

(* A connection whose client is gone is closed unless the worker is        *)
(* stopped.                                                                *)
EventuallyClosed ==
  peer = "reset" ~> state = "closed" \/ deinit # "none" \/ allocated = MaxBuffers

(* The loop waits for events and has nothing to do for this connection.    *)
Quiet ==
  /\ asleep
  /\ queue = <<>> /\ done = {} /\ state # "closing"
  /\ state = "open" => sent = received /\ peer = "up"

(* net_sock_deinit returns, although uv_stop wakes no one, unless the      *)
(* worker waits for events and none comes: one event of a client is        *)
(* enough.                                                                 *)
StopNoticed == deinit = "join" ~> deinit = "over" \/ Quiet \/ allocated = MaxBuffers
=============================================================================
