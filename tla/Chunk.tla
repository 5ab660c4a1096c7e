-------------------------------- MODULE Chunk -------------------------------
(***************************************************************************)
(* A chunk of the chunk server (chunkserver/chunk.c): a file opened with   *)
(* O_APPEND, which chunk_write and chunk_read reach through one            *)
(* descriptor, hence one file position, whoever calls them.                *)
(*                                                                         *)
(* The system calls (external) transfer any part of what they are asked    *)
(* for, or fail; a write goes to the end of the file and leaves the        *)
(* position there, a read at or behind the end returns 0.  A byte written  *)
(* is <<call, k>>, byte k of the buffer of that call.  A reader's buffer   *)
(* holds the places in the file its bytes came from: the file only grows,  *)
(* so the place of a byte determines it.                                   *)
(***************************************************************************)
EXTENDS Integers, Sequences, FiniteSetsExt

CONSTANTS
  Callers,        \* threads that use the chunk
  CHUNK_OP_LEN,   \* most bytes of one system call
  U32, U64,       \* 2^32 and 2^64, the moduli of int and of size_t
  Lens,           \* lengths of the requests
  Poss,           \* positions of the requests
  Contents,       \* what the file may hold before the server starts
  MaxCalls,       \* bound: requests
  MaxFailures     \* bound: system calls that fail on an open descriptor

ASSUME SizesAssumption ==
  /\ CHUNK_OP_LEN \in Nat \ {0} /\ U32 \in Nat /\ U64 \in Nat
  /\ U32 > 2 * CHUNK_OP_LEN /\ U64 > U32
  /\ U32 % 2 = 0 /\ U64 % 2 = 0
  /\ Lens \subseteq 0..(U32 - 1)   \* no request of 4 GiB or more
  /\ Poss \subseteq Nat
  /\ Contents \subseteq Seq(Nat \X Nat)
  /\ \A f \in Contents : \A i \in 1..Len(f) : f[i][1] = 0   \* of no request

VARIABLES
  file,       \* the bytes of the file
  off,        \* the position of the descriptor
  open,       \* blk->fd is a descriptor and not -1
  call,       \* call[t]: what t's request has come to
  calls,      \* requests made so far
  failures    \* system calls that failed on an open descriptor so far

vars == <<file, off, open, call, calls, failures>>

Lost == -1

(* st: "idle", "seek", "loop" or "done".  failed and base are history:     *)
(* whether a system call of the request failed, and the position after its *)
(* own lseek, Lost once another request has moved the position.            *)
Idle == [st |-> "idle", op |-> "none", id |-> 0, pos |-> 0, len |-> 0, total |-> 0,
         buf |-> <<>>, failed |-> FALSE, base |-> Lost]

Active(t) == call[t].st \in {"seek", "loop"}

(* A size_t as the int min() takes, and the int it returns as a size_t.    *)
AsInt(n) == LET m == n % U32 IN IF m < U32 \div 2 THEN m ELSE m - U32

min(a, b) == IF AsInt(a) < AsInt(b) THEN AsInt(a) ELSE AsInt(b)

(* batch_size                                                              *)
Batch(t) == min(call[t].len - call[t].total, CHUNK_OP_LEN) % U64

(* total as the ssize_t the call returns.                                  *)
Result(t) == IF call[t].total < U64 \div 2 THEN call[t].total ELSE call[t].total - U64

(* chunk_init at the start of the server.                                  *)
Init ==
  /\ file \in Contents
  /\ off = 0 /\ open = TRUE
  /\ call = [t \in Callers |-> Idle]
  /\ calls = 0 /\ failures = 0

(* chunk_init of the next server, or after chunk_deinit; chunk_heal_check  *)
(* returns at once.                                                        *)
chunk_init ==
  /\ ~open
  /\ \A t \in Callers : ~Active(t)
  /\ open' = TRUE /\ off' = 0
  /\ UNCHANGED <<file, call, calls, failures>>

(* chunk_deinit, which waits for nothing but the thread of chunk_init.     *)
chunk_deinit ==
  /\ open
  /\ open' = FALSE
  /\ UNCHANGED <<file, off, call, calls, failures>>

(* chunk_write or chunk_read is called.                                    *)
Call(t, op, p, n) ==
  /\ call[t].st = "idle"
  /\ calls < MaxCalls
  /\ calls' = calls + 1
  /\ call' = [call EXCEPT ![t] = [Idle EXCEPT !.st = "seek", !.op = op, !.id = calls',
                                              !.pos = p, !.len = n]]
  /\ UNCHANGED <<file, off, open, failures>>

-----------------------------------------------------------------------------
(* t's request becomes c and moves the position.                           *)
Moves(t, c) ==
  call' = [u \in Callers |-> IF u = t THEN c ELSE [call[u] EXCEPT !.base = Lost]]

(* Mutant: SEEK_SET.                                                       *)
SeekFromStart(t) ==
  /\ call[t].st = "seek"
  /\ off' = IF open THEN call[t].pos ELSE off
  /\ Moves(t, [call[t] EXCEPT !.st = "loop", !.base = off'])
  /\ UNCHANGED <<file, open, calls, failures>>

(* lseek(fd, pos, SEEK_CUR), whose failure is not noticed.                 *)
Seek(t) ==
  /\ call[t].st = "seek"
  /\ off' = IF open THEN off + call[t].pos ELSE off
  /\ Moves(t, [call[t] EXCEPT !.st = "loop", !.base = off'])
  /\ UNCHANGED <<file, open, calls, failures>>

(* A system call of the loop is due.                                       *)
Looping(t, op) == call[t].st = "loop" /\ call[t].op = op /\ call[t].total < call[t].len

(* The kernel refuses what would be a negative ssize_t.                    *)
Accepted(t) == open /\ Batch(t) < U64 \div 2

(* Mutant: every batch is taken from the start of the buffer.              *)
WriteFromStart(t, n) ==
  /\ Looping(t, "write")
  /\ Accepted(t) /\ n \in 1..Batch(t)
  /\ file' = file \o [k \in 1..n |-> <<call[t].id, k>>]
  /\ off' = Len(file')
  /\ Moves(t, [call[t] EXCEPT !.total = @ + n])
  /\ UNCHANGED <<open, calls, failures>>

(* write takes n bytes.                                                    *)
WriteSome(t, n) ==
  /\ Looping(t, "write")
  /\ Accepted(t) /\ n \in 1..Batch(t)
  /\ file' = file \o [k \in 1..n |-> <<call[t].id, call[t].total + k>>]
  /\ off' = Len(file')
  /\ Moves(t, [call[t] EXCEPT !.total = @ + n])
  /\ UNCHANGED <<open, calls, failures>>

(* The buffer with n bytes of the file stored at byte total.               *)
Stored(t, n) ==
  LET c == call[t]
  IN  [k \in 1..(c.total + n) |-> IF k <= c.total THEN c.buf[k] ELSE off + k - c.total]

(* Mutant: every batch is stored at the start of the buffer.               *)
ReadToStart(t, n) ==
  /\ Looping(t, "read")
  /\ Accepted(t) /\ n \in 1..Batch(t) /\ off + n <= Len(file)
  /\ off' = off + n
  /\ Moves(t, [call[t] EXCEPT !.total = @ + n,
                              !.buf = [k \in 1..(call[t].total + n) |-> off + k]])
  /\ UNCHANGED <<file, open, calls, failures>>

(* read returns n bytes.                                                   *)
ReadSome(t, n) ==
  /\ Looping(t, "read")
  /\ Accepted(t) /\ n \in 1..Batch(t) /\ off + n <= Len(file)
  /\ off' = off + n
  /\ Moves(t, [call[t] EXCEPT !.total = @ + n, !.buf = Stored(t, n)])
  /\ UNCHANGED <<file, open, calls, failures>>

(* read returns 0: the loop goes round.                                    *)
ReadNothing(t) ==
  /\ Looping(t, "read")
  /\ Accepted(t) /\ off >= Len(file)
  /\ UNCHANGED vars

(* Mutant: the failed call is only repeated.                               *)
FailRetries(t) ==
  /\ \E op \in {"write", "read"} : Looping(t, op)
  /\ \/ ~Accepted(t) /\ UNCHANGED failures
     \/ failures < MaxFailures /\ Accepted(t) /\ failures' = failures + 1
  /\ call' = [call EXCEPT ![t].failed = TRUE]
  /\ UNCHANGED <<file, off, open, calls>>

(* The system call returns -1.  The test that follows is on another        *)
(* variable, and -1 is added to total.                                     *)
Fail(t) ==
  /\ \E op \in {"write", "read"} : Looping(t, op)
  /\ \/ ~Accepted(t) /\ UNCHANGED failures
     \/ failures < MaxFailures /\ Accepted(t) /\ failures' = failures + 1
  /\ call' = [call EXCEPT ![t].total = (@ - 1) % U64, ![t].failed = TRUE]
  /\ UNCHANGED <<file, off, open, calls>>

(* Mutant: a short transfer ends the call.                                 *)
ReturnShort(t) ==
  /\ call[t].st = "loop"
  /\ call[t].total >= call[t].len \/ call[t].total > 0
  /\ call' = [call EXCEPT ![t].st = "done"]
  /\ UNCHANGED <<file, off, open, calls, failures>>

Return(t) ==
  /\ call[t].st = "loop"
  /\ call[t].total >= call[t].len
  /\ call' = [call EXCEPT ![t].st = "done"]
  /\ UNCHANGED <<file, off, open, calls, failures>>

(* The result is used and the locals are gone.                             *)
Answered(t) ==
  /\ call[t].st = "done"
  /\ call' = [call EXCEPT ![t] = Idle]
  /\ UNCHANGED <<file, off, open, calls, failures>>

Step(t) ==
  \/ Seek(t) \/ ReadNothing(t) \/ Fail(t) \/ Return(t) \/ Answered(t)
  \/ \E n \in 1..CHUNK_OP_LEN : WriteSome(t, n) \/ ReadSome(t, n)

Next ==
  \/ chunk_init \/ chunk_deinit
  \/ \E t \in Callers :
       \/ Step(t)
       \/ \E op \in {"write", "read"}, p \in Poss, n \in Lens : Call(t, op, p, n)

(* A thread inside chunk_write or chunk_read keeps running.                *)
Spec == Init /\ [][Next]_vars /\ \A t \in Callers : WF_vars(Step(t))

-----------------------------------------------------------------------------
Done(t, op) == call[t].st = "done" /\ call[t].op = op

(* chunk_write and chunk_read return the whole length or -1, however short *)
(* the transfers are and whatever fails, although no result of a system    *)
(* call is tested; -1 only if some system call failed, and always for a    *)
(* length that min() takes for a negative number.                          *)
WholeOrError ==
  \A t \in Callers : call[t].st = "done" =>
    /\ Result(t) \in {call[t].len, -1}
    /\ Result(t) = -1 => call[t].failed
    /\ call[t].len >= U32 \div 2 => Result(t) = -1

(* The places in the file of byte k of a call.                             *)
Places(id, k) == {i \in 1..Len(file) : file[i] = <<id, k>>}

(* A chunk_write that returns its length has stored every byte, in order,  *)
(* whatever other writers append between its batches: once each if no      *)
(* write failed; a failed one may repeat bytes and loses none.             *)
WrittenInOrder ==
  \A t \in Callers : Done(t, "write") /\ Result(t) = call[t].len =>
    \A k \in 1..call[t].len :
      /\ Places(call[t].id, k) # {}
      /\ ~call[t].failed => \A i, j \in Places(call[t].id, k) : i = j
      /\ k > 1 => Max(Places(call[t].id, k - 1)) < Max(Places(call[t].id, k))

(* A chunk_read that returns its length has filled the buffer with bytes   *)
(* of increasing places in the file, the ones from its position on if      *)
(* nothing failed and no other request moved the position meanwhile.       *)
ReadsForward ==
  \A t \in Callers : Done(t, "read") /\ Result(t) = call[t].len =>
    LET c == call[t]
    IN  /\ Len(c.buf) = c.len
        /\ \A k \in 1..c.len : c.buf[k] \in 1..Len(file)
        /\ \A k \in 2..c.len : c.buf[k - 1] < c.buf[k]
        /\ ~c.failed /\ c.base # Lost => \A k \in 1..c.len : c.buf[k] = c.base + k

(* A position at the end of the file stays there until the chunk is opened *)
(* again: what is written through a chunk is not read back through it, and *)
(* no later chunk_write helps a chunk_read that waits at the end.          *)
NotReadBack == [][open /\ open' /\ off >= Len(file) => off' >= Len(file')]_vars

(* Every chunk_write returns, and every chunk_read unless it meets the end *)
(* of the file; once chunk_deinit has closed the chunk those return too.   *)
CallsReturn ==
  \A t \in Callers :
    Active(t) ~> ~Active(t) \/ (open /\ call[t].op = "read" /\ off >= Len(file))
=============================================================================
