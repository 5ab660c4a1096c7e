---------------------------- MODULE NetEchoProofs ---------------------------
(***************************************************************************)
(* Proofs about NetEcho: what the client gets back is a prefix of what it  *)
(* has sent, and buffers are freed exactly once, for any number of bytes   *)
(* and of buffers and any size of a read.                                  *)
(***************************************************************************)
EXTENDS NetEcho, TLAPS

(* The requests in the queue use different buffers, none of which is       *)
(* waiting for its write_cb.                                               *)
Owned ==
  /\ \A k \in 1..Len(queue) : /\ queue[k].base <= allocated
                              /\ queue[k].first <= queue[k].last
                              /\ queue[k].base \notin done
  /\ \A j, k \in 1..Len(queue) : queue[j].base = queue[k].base => j = k
  /\ \A b \in done : b <= allocated

(* A buffer of a pending request is not freed, nor is one still unused;    *)
(* every other one is freed once.                                          *)
Freed ==
  /\ \A k \in 1..Len(queue) : freed[queue[k].base] = 0
  /\ \A b \in done : freed[b] = 0
  /\ \A b \in Buffers :
       /\ b > allocated => freed[b] = 0
       /\ b <= allocated => \/ freed[b] = 1
                            \/ b \in done
                            \/ \E k \in 1..Len(queue) : queue[k].base = b
  /\ state = "closed" => queue = <<>> /\ done = {}

(* While writes succeed, the queue holds the bytes from the first one not  *)
(* echoed to the last one received, without a gap.                         *)
Contiguous ==
  state = "open" /\ peer # "reset" =>
    /\ \A k \in 1..(Len(queue) - 1) : queue[k + 1].first = queue[k].last + 1
    /\ queue # <<>> => /\ queue[1].first = Len(echoed) + 1
                       /\ queue[Len(queue)].last = received
    /\ queue = <<>> => Len(echoed) = received

Inv == TypeOK /\ Owned /\ Freed /\ Contiguous /\ EchoIsPrefix

-----------------------------------------------------------------------------
(* Taking the head off the queue (the end of a write, or its failure).     *)
LEMMA TailOfQueue ==
  ASSUME NEW S, NEW q \in Seq(S), q # <<>>
  PROVE  /\ Tail(q) \in Seq(S)
         /\ Head(q) = q[1] /\ Head(q) \in S
         /\ Len(q) \in Nat /\ Len(q) >= 1
         /\ Len(Tail(q)) = Len(q) - 1
         /\ \A k \in 1..(Len(q) - 1) : Tail(q)[k] = q[k + 1]
  OBVIOUS

(* The type of the requests in the queue.                                  *)
LEMMA QueueTyped ==
  ASSUME Inv
  PROVE  /\ Len(queue) \in Nat
         /\ \A k \in 1..Len(queue) : /\ queue[k] \in Request
                                     /\ queue[k].base \in Buffers
                                     /\ queue[k].base \in Nat
                                     /\ queue[k].first \in 1..MaxBytes
                                     /\ queue[k].last \in 1..MaxBytes
<1>1. Len(queue) \in Nat /\ \A k \in 1..Len(queue) : queue[k] \in Request
  BY DEF Inv, TypeOK
<1>2. ASSUME NEW q \in Request
      PROVE  /\ q.base \in Buffers /\ q.base \in Nat
             /\ q.first \in 1..MaxBytes /\ q.last \in 1..MaxBytes
  BY BoundsAssumption DEF Request, Buffers
<1>3. QED
  BY <1>1, <1>2

(* The initial state: nothing sent, nothing allocated.                     *)
LEMMA InitInv == Init => Inv
  BY BoundsAssumption
  DEF Init, Inv, TypeOK, Owned, Freed, Contiguous, EchoIsPrefix, Buffers, Request

(* The invariant does not depend on what the shutdown changes.             *)
LEMMA SameConnection == Inv /\ UNCHANGED connection => Inv'
<1> SUFFICES ASSUME Inv, UNCHANGED connection PROVE Inv'
  OBVIOUS
<1>1. TypeOK'
  BY DEF connection, Inv, TypeOK
<1>2. Owned'
  BY DEF connection, Inv, Owned
<1>3. Freed'
  BY DEF connection, Inv, Freed
<1>4. Contiguous' /\ EchoIsPrefix'
  BY DEF connection, Inv, Contiguous, EchoIsPrefix
<1>5. QED
  BY <1>1, <1>2, <1>3, <1>4 DEF Inv

(* What the client does leaves the server's state alone.                   *)
LEMMA ClientKeepsInv ==
  ASSUME Inv, ClientSends \/ \E how \in {"shut", "reset"} : ClientStops(how)
  PROVE  Inv'
<1>1. /\ UNCHANGED <<state, received, queue, done, echoed, allocated, freed>>
      /\ sent' \in sent..MaxBytes /\ peer' \in {"up", "shut", "reset"}
      /\ peer = "reset" => peer' = "reset"
  BY BoundsAssumption DEF ClientSends, ClientStops, Inv, TypeOK
<1>2. TypeOK'
  BY <1>1, BoundsAssumption DEF Inv, TypeOK
<1>3. Owned'
  BY <1>1 DEF Inv, Owned
<1>4. Freed'
  BY <1>1 DEF Inv, Freed
<1>5. Contiguous' /\ EchoIsPrefix'
  BY <1>1 DEF Inv, Contiguous, EchoIsPrefix
<1>6. QED
  BY <1>2, <1>3, <1>4, <1>5 DEF Inv

(* read_cb that queues nothing: the new buffer is freed at once.           *)
LEMMA ReadFreesKeepsInv ==
  ASSUME Inv, ReadNothing \/ ReadEnd
  PROVE  Inv'
<1>1. /\ allocated' = allocated + 1 /\ allocated' \in Buffers
      /\ freed' = [freed EXCEPT ![allocated'] = @ + 1]
      /\ state' \in {"open", "closing"} /\ state = "open"
      /\ UNCHANGED <<peer, sent, received, queue, done, echoed>>
  BY BoundsAssumption DEF Inv, TypeOK, ReadNothing, ReadEnd, alloc_buffer, Buffers
<1>2. TypeOK'
  BY <1>1, BoundsAssumption DEF Inv, TypeOK, Buffers, Request
<1>3. Owned'
  BY <1>1, QueueTyped DEF Inv, TypeOK, Owned, Buffers
<1>4. Freed'
  <2>1. /\ allocated \in Nat
        /\ \A b \in Buffers : b \in Nat /\ freed'[b] = IF b = allocated + 1 THEN freed[b] + 1
                                                                         ELSE freed[b]
        /\ freed[allocated + 1] = 0
    BY <1>1, BoundsAssumption DEF Inv, TypeOK, Freed, Buffers
  <2>2. \A k \in 1..Len(queue) : freed'[queue[k].base] = 0
    BY <1>1, <2>1, QueueTyped DEF Inv, Owned, Freed
  <2>3. \A b \in done : freed'[b] = 0
    BY <1>1, <2>1 DEF Inv, TypeOK, Owned, Freed
  <2>4. \A b \in Buffers :
          /\ b > allocated' => freed'[b] = 0
          /\ b <= allocated' => \/ freed'[b] = 1
                                \/ b \in done
                                \/ \E k \in 1..Len(queue) : queue[k].base = b
    BY <1>1, <2>1 DEF Inv, Freed
  <2>5. QED
    BY <1>1, <2>2, <2>3, <2>4 DEF Freed
<1>5. Contiguous' /\ EchoIsPrefix'
  BY <1>1 DEF Inv, Contiguous, EchoIsPrefix
<1>6. QED
  BY <1>2, <1>3, <1>4, <1>5 DEF Inv

(* read_cb with data: the new buffer goes to the end of the queue.         *)
LEMMA ReadDataKeepsInv ==
  ASSUME Inv, NEW n \in 1..MaxRead, ReadData(n)
  PROVE  Inv'
<1> DEFINE r == Read(n)
<1>1. /\ allocated' = allocated + 1 /\ allocated' \in Buffers
      /\ r = [base |-> allocated + 1, first |-> received + 1, last |-> received + n]
      /\ r \in Request
      /\ received' = received + n /\ received' \in 0..sent /\ n \in Nat
  BY BoundsAssumption DEF Inv, TypeOK, ReadData, alloc_buffer, Buffers, Read, Request
<1>2. /\ queue' \in Seq(Request) /\ Len(queue) \in Nat /\ Len(queue') = Len(queue) + 1
      /\ \A k \in 1..Len(queue) : queue'[k] = queue[k]
      /\ queue'[Len(queue) + 1] = r
  BY <1>1 DEF Inv, TypeOK, ReadData
<1> HIDE DEF r
<1>3. UNCHANGED <<state, peer, sent, done, echoed, freed>>
  BY DEF ReadData
<1>4. TypeOK'
  BY <1>1, <1>2, <1>3, BoundsAssumption DEF Inv, TypeOK, Buffers
<1>a. /\ r.base = allocated + 1 /\ r.first = received + 1 /\ r.last = received + n
      /\ allocated \in Nat /\ received \in Nat /\ \A b \in Buffers : b \in Nat
      /\ done \subseteq Buffers /\ state = "open"
  BY <1>1, BoundsAssumption DEF Inv, TypeOK, Buffers, ReadData
<1>5. Owned'
  <2>1. \A k \in 1..Len(queue') : /\ queue'[k].base <= allocated'
                                 /\ queue'[k].first <= queue'[k].last
                                 /\ queue'[k].base \notin done
    <3> SUFFICES ASSUME NEW k \in 1..Len(queue')
                 PROVE  /\ queue'[k].base <= allocated'
                        /\ queue'[k].first <= queue'[k].last
                        /\ queue'[k].base \notin done
      OBVIOUS
    <3>1. CASE k \in 1..Len(queue)
      <4>1. /\ queue[k].base <= allocated /\ queue[k].first <= queue[k].last
            /\ queue[k].base \notin done /\ queue[k].base \in Nat
        BY <3>1, QueueTyped DEF Inv, Owned
      <4>2. queue'[k] = queue[k]
        BY <3>1, <1>2
      <4>3. QED
        BY <4>1, <4>2, <1>1, <1>a
    <3>2. CASE k = Len(queue) + 1
      <4>1. queue'[k] = r
        BY <3>2, <1>2
      <4>2. allocated + 1 \notin done
        BY <1>a DEF Inv, Owned
      <4>3. n >= 1
        BY DEF ReadData
      <4>4. QED
        BY <4>1, <4>2, <4>3, <1>1, <1>a
    <3>3. QED
      BY <3>1, <3>2, <1>2
  <2>2. ASSUME NEW j \in 1..Len(queue'), NEW k \in 1..Len(queue'),
               queue'[j].base = queue'[k].base
        PROVE  j = k
    <3>1. \A i \in 1..Len(queue) : queue'[i].base = queue[i].base /\ queue[i].base # allocated + 1
      <4>1. ASSUME NEW i \in 1..Len(queue)
            PROVE  queue'[i].base = queue[i].base /\ queue[i].base # allocated + 1
        <5>1. queue[i].base <= allocated /\ queue[i].base \in Nat
          BY QueueTyped DEF Inv, Owned
        <5>2. queue'[i] = queue[i]
          BY <1>2
        <5>3. QED
          BY <5>1, <5>2, <1>a
      <4>2. QED
        BY <4>1
    <3>2. \A i \in 1..Len(queue') : i \in 1..Len(queue) \/ i = Len(queue) + 1
      BY <1>2
    <3>3. CASE j \in 1..Len(queue) /\ k \in 1..Len(queue)
      BY <3>1, <3>3, <2>2 DEF Inv, Owned
    <3>4. CASE j = Len(queue) + 1 \/ k = Len(queue) + 1
      BY <3>1, <3>2, <3>4, <2>2, <1>2, <1>a
    <3>5. QED
      BY <3>2, <3>3, <3>4
  <2>3. QED
    BY <2>1, <2>2, <1>1, <1>3, <1>a, SMTT(20) DEF Inv, Owned
<1>6. Freed'
  <2>1. \A k \in 1..Len(queue') : freed[queue'[k].base] = 0
    BY <1>1, <1>2, <1>a, SMTT(30) DEF Inv, Freed
  <2>2. ASSUME NEW b \in Buffers, b <= allocated'
        PROVE  freed[b] = 1 \/ b \in done \/ \E k \in 1..Len(queue') : queue'[k].base = b
    <3>1. CASE b <= allocated
      <4>1. \/ freed[b] = 1 \/ b \in done
            \/ \E k \in 1..Len(queue) : queue[k].base = b
        BY <3>1 DEF Inv, Freed
      <4>2. ASSUME NEW k \in 1..Len(queue)
            PROVE  k \in 1..Len(queue') /\ queue'[k].base = queue[k].base
        BY <1>2
      <4>3. QED
        BY <4>1, <4>2
    <3>2. CASE b = allocated + 1
      <4>1. Len(queue) + 1 \in 1..Len(queue') /\ queue'[Len(queue) + 1].base = b
        BY <3>2, <1>2, <1>a
      <4>2. QED
        BY <4>1
    <3>3. b <= allocated \/ b = allocated + 1
      <4>1. b \in Nat /\ allocated \in Nat /\ b <= allocated + 1
        BY <2>2, <1>1, <1>a
      <4>2. QED
        BY <4>1
    <3>4. QED
      BY <3>1, <3>2, <3>3
  <2>3. QED
    BY <1>1, <1>3, <1>a, <2>1, <2>2 DEF Inv, Freed
<1>7. Contiguous'
  <2> SUFFICES ASSUME state = "open", peer # "reset"
               PROVE  /\ \A k \in 1..(Len(queue') - 1) : queue'[k + 1].first = queue'[k].last + 1
                      /\ queue'[1].first = Len(echoed) + 1
                      /\ queue'[Len(queue')].last = received'
    BY <1>2, <1>3 DEF Contiguous
  <2>1. CASE queue = <<>>
    BY <2>1, <1>1, <1>2, <1>a DEF Inv, Contiguous
  <2>2. CASE queue # <<>>
    <3>1. Len(queue) >= 1
      BY <2>2, <1>2 DEF Inv, TypeOK
    <3>2. QED
      <4>1. /\ \A k \in 1..(Len(queue) - 1) : queue[k + 1].first = queue[k].last + 1
            /\ queue[1].first = Len(echoed) + 1
            /\ queue[Len(queue)].last = received
        BY <2>2 DEF Inv, Contiguous
      <4>2. queue'[1] = queue[1] /\ queue'[Len(queue)] = queue[Len(queue)]
        BY <3>1, <1>2
      <4>3. ASSUME NEW k \in 1..(Len(queue') - 1)
            PROVE  queue'[k + 1].first = queue'[k].last + 1
        <5>1. CASE k = Len(queue)
          BY <5>1, <4>1, <4>2, <1>2, <1>a
        <5>2. CASE k # Len(queue)
          <6>1. k \in 1..(Len(queue) - 1) /\ k + 1 \in 1..Len(queue) /\ k \in 1..Len(queue)
            BY <5>2, <1>2
          <6>2. QED
            BY <6>1, <4>1, <1>2
        <5>3. QED
          BY <5>1, <5>2
      <4>4. queue'[Len(queue')].last = received'
        BY <1>1, <1>2, <1>a
      <4>5. QED
        BY <4>1, <4>2, <4>3, <4>4
  <2>3. QED
    BY <2>1, <2>2
<1>8. QED
  BY <1>3, <1>4, <1>5, <1>6, <1>7 DEF Inv, EchoIsPrefix

(* The head of the queue has been written, or will never be: its write_cb  *)
(* is due.                                                                 *)
LEMMA HeadDoneKeepsOwnership ==
  ASSUME Inv, queue # <<>>,
         queue' = Tail(queue), done' = done \cup {Head(queue).base},
         state # "closed", UNCHANGED <<state, allocated, freed>>
  PROVE  queue' \in Seq(Request) /\ done' \subseteq Buffers /\ Owned' /\ Freed'
<1>1. /\ Tail(queue) \in Seq(Request)
      /\ Head(queue) = queue[1] /\ Head(queue) \in Request
      /\ Len(queue) \in Nat /\ Len(queue) >= 1
      /\ Len(Tail(queue)) = Len(queue) - 1
      /\ \A k \in 1..(Len(queue) - 1) : Tail(queue)[k] = queue[k + 1]
  BY TailOfQueue DEF Inv, TypeOK
<1>2. queue' \in Seq(Request) /\ done' \subseteq Buffers
  BY <1>1 DEF Inv, TypeOK, Request
<1>3. Owned'
  BY <1>1 DEF Inv, TypeOK, Owned
<1>4. Freed'
  <2>1. \A b \in Buffers : b <= allocated =>
          \/ freed[b] = 1 \/ b \in done' \/ \E k \in 1..Len(queue') : queue'[k].base = b
    <3> SUFFICES ASSUME NEW b \in Buffers, b <= allocated, freed[b] # 1, b \notin done'
                 PROVE  \E k \in 1..Len(queue') : queue'[k].base = b
      OBVIOUS
    <3>1. PICK k \in 1..Len(queue) : queue[k].base = b
      BY DEF Inv, Freed
    <3>2. k # 1
      BY <3>1, <1>1
    <3>3. k - 1 \in 1..Len(queue') /\ queue'[k - 1] = queue[k]
      BY <3>2, <1>1
    <3>4. QED
      BY <3>1, <3>3, Zenon
  <2>2. QED
    BY <1>1, <2>1 DEF Inv, Freed
<1>5. QED
  BY <1>2, <1>3, <1>4

(* libuv writes a part of the head, or its rest.                           *)
LEMMA WriteSomeKeepsInv ==
  ASSUME Inv, NEW n \in 1..MaxRead, WriteSome(n)
  PROVE  Inv'
<1> DEFINE bytes == [k \in 1..n |-> Head(queue).first + k - 1]
<1>1. /\ Tail(queue) \in Seq(Request)
      /\ Head(queue) = queue[1] /\ Head(queue) \in Request
      /\ Len(queue) \in Nat /\ Len(queue) >= 1
      /\ Len(Tail(queue)) = Len(queue) - 1
      /\ \A k \in 1..(Len(queue) - 1) : Tail(queue)[k] = queue[k + 1]
  BY TailOfQueue DEF Inv, TypeOK, WriteSome
<1>2. /\ state = "open" /\ peer # "reset"
      /\ queue[1].first = Len(echoed) + 1
      /\ queue[1].first \in Nat /\ queue[1].last \in 1..MaxBytes
      /\ Len(echoed) \in Nat /\ n \in Nat /\ n >= 1
      /\ queue[1].first + n <= queue[1].last + 1
      /\ UNCHANGED <<state, peer, sent, received, allocated, freed>>
  <2>1. queue # <<>> /\ state = "open" /\ peer # "reset"
    BY DEF WriteSome
  <2>2. queue[1].first \in 1..MaxBytes /\ queue[1].last \in 1..MaxBytes
    BY <1>1, QueueTyped
  <2>3. queue[1].first = Len(echoed) + 1
    BY <2>1 DEF Inv, Contiguous
  <2>4. n \in 1..(queue[1].last - queue[1].first + 1)
    BY <1>1 DEF WriteSome
  <2>5. QED
    <3>1. Len(echoed) \in Nat
      BY DEF Inv, TypeOK
    <3>2. UNCHANGED <<state, peer, sent, received, allocated, freed>>
      BY DEF WriteSome
    <3>3. queue[1].first + n <= queue[1].last + 1 /\ n \in Nat /\ n >= 1
      BY <2>2, <2>4, BoundsAssumption
    <3>4. QED
      BY <2>1, <2>2, <2>3, <3>1, <3>2, <3>3
<1>3. /\ echoed' \in Seq(1..MaxBytes) /\ Len(echoed') = Len(echoed) + n
      /\ EchoIsPrefix'
  <2>1. bytes \in Seq(1..MaxBytes) /\ Len(bytes) = n
    BY <1>1, <1>2, BoundsAssumption
  <2>2. echoed' = echoed \o bytes
    BY DEF WriteSome
  <2>3. echoed' \in Seq(1..MaxBytes) /\ Len(echoed') = Len(echoed) + n
    BY <2>1, <2>2 DEF Inv, TypeOK
  <2>4. \A k \in 1..Len(echoed') : echoed'[k] = k
    <3>1. ASSUME NEW k \in 1..Len(echoed) PROVE echoed'[k] = k
      <4>1. echoed'[k] = echoed[k]
        BY <2>1, <2>2 DEF Inv, TypeOK
      <4>2. QED
        BY <4>1 DEF Inv, EchoIsPrefix
    <3>2. ASSUME NEW k \in (Len(echoed) + 1)..(Len(echoed) + n) PROVE echoed'[k] = k
      <4>1. echoed'[k] = bytes[k - Len(echoed)]
        BY <1>2, <2>1, <2>2 DEF Inv, TypeOK
      <4>2. QED
        BY <4>1, <1>1, <1>2
    <3>3. QED
      BY <3>1, <3>2, <2>3, <1>2
  <2>5. QED
    BY <2>3, <2>4 DEF EchoIsPrefix
<1>4. CASE /\ Head(queue).first + n = Head(queue).last + 1
           /\ queue' = Tail(queue) /\ done' = done \cup {Head(queue).base}
  <2>1. queue' \in Seq(Request) /\ done' \subseteq Buffers /\ Owned' /\ Freed'
    BY <1>2, <1>4, HeadDoneKeepsOwnership DEF WriteSome
  <2>2. TypeOK'
    BY <1>2, <1>3, <2>1, Zenon DEF Inv, TypeOK, Buffers, Request
  <2>3. Contiguous'
    <3> SUFFICES /\ \A k \in 1..(Len(queue') - 1) : queue'[k + 1].first = queue'[k].last + 1
                 /\ queue' # <<>> => /\ queue'[1].first = Len(echoed') + 1
                                     /\ queue'[Len(queue')].last = received
                 /\ queue' = <<>> => Len(echoed') = received
      BY <1>2 DEF Contiguous
    <3>1. /\ \A k \in 1..(Len(queue) - 1) : queue[k + 1].first = queue[k].last + 1
          /\ queue[Len(queue)].last = received
          /\ Len(echoed') = queue[1].last
      <4>1. Len(echoed') = queue[1].last
        <5>1. Head(queue) = queue[1]
          BY <1>1
        <5>2. queue[1].first + n = queue[1].last + 1
          BY <1>4, <5>1
        <5>3. Len(echoed') = Len(echoed) + n
          BY <1>3
        <5>4. /\ queue[1].first = Len(echoed) + 1 /\ queue[1].last \in Nat
              /\ Len(echoed) \in Nat /\ n \in Nat
          BY <1>2, BoundsAssumption
        <5>5. QED
          BY <5>2, <5>3, <5>4
      <4>2. queue # <<>>
        BY DEF WriteSome
      <4>3. QED
        BY <4>1, <4>2, <1>2 DEF Inv, Contiguous
    <3>2. CASE Len(queue) = 1
      BY <3>1, <3>2, <1>1, <1>4 
    <3>3. CASE Len(queue) > 1
      <4>1. \A k \in 1..(Len(queue') - 1) : queue'[k + 1].first = queue'[k].last + 1
        <5> SUFFICES ASSUME NEW k \in 1..(Len(queue') - 1)
                     PROVE  queue'[k + 1].first = queue'[k].last + 1
          OBVIOUS
        <5>1. /\ k + 1 \in 1..(Len(queue) - 1) /\ k \in 1..(Len(queue) - 1)
              /\ k \in Nat
          BY <1>1, <1>4
        <5>2. queue'[k + 1] = queue[k + 2] /\ queue'[k] = queue[k + 1]
          BY <5>1, <1>1, <1>4
        <5>3. queue[k + 2].first = queue[k + 1].last + 1
          BY <5>1, <3>1
        <5>4. QED
          BY <5>2, <5>3
      <4>2. queue'[1].first = queue[1].last + 1 /\ queue' # <<>>
        <5>1. 1 \in 1..(Len(queue) - 1) /\ 1 + 1 = 2
          BY <3>3, <1>1
        <5>2. queue'[1] = queue[2] /\ queue[2].first = queue[1].last + 1
          BY <5>1, <3>1, <1>1, <1>4
        <5>3. Len(queue') > 0
          BY <3>3, <1>1, <1>4
        <5>4. QED
          BY <5>2, <5>3
      <4>3. queue'[Len(queue')].last = received
        <5>1. queue'[Len(queue) - 1] = queue[Len(queue)] /\ Len(queue') = Len(queue) - 1
          BY <3>3, <1>1, <1>4
        <5>2. QED
          BY <5>1, <3>1
      <4>4. QED
        BY <3>1, <4>1, <4>2, <4>3
    <3>4. QED
      BY <3>2, <3>3, <1>1
  <2>4. QED
    BY <1>3, <2>1, <2>2, <2>3 DEF Inv
<1>5. CASE /\ Head(queue).first + n <= Head(queue).last
           /\ queue' = [queue EXCEPT ![1].first = @ + n] /\ done' = done
  <2>1. /\ queue' \in Seq(Request) /\ Len(queue') = Len(queue)
        /\ \A k \in 1..Len(queue) : /\ queue'[k].base = queue[k].base
                                    /\ queue'[k].last = queue[k].last
                                    /\ k # 1 => queue'[k].first = queue[k].first
        /\ queue'[1].first = queue[1].first + n
    <3>1. queue[1] \in Request /\ queue' = [queue EXCEPT ![1] = [queue[1] EXCEPT !.first = @ + n]]
      BY <1>1, <1>5
    <3>2. /\ [queue[1] EXCEPT !.first = @ + n] \in Request
          /\ [queue[1] EXCEPT !.first = @ + n].first = queue[1].first + n
          /\ [queue[1] EXCEPT !.first = @ + n].base = queue[1].base
          /\ [queue[1] EXCEPT !.first = @ + n].last = queue[1].last
      <4>1. ASSUME NEW q \in Request, q.first + n \in 1..MaxBytes
            PROVE  /\ [q EXCEPT !.first = @ + n] \in Request
                   /\ [q EXCEPT !.first = @ + n].first = q.first + n
                   /\ [q EXCEPT !.first = @ + n].base = q.base
                   /\ [q EXCEPT !.first = @ + n].last = q.last
        BY <4>1 DEF Request
      <4>2. queue[1].first + n \in 1..MaxBytes
        BY <1>1, <1>2, <1>5, BoundsAssumption
      <4>3. QED
        BY <3>1, <4>1, <4>2
    <3>3. /\ queue' \in Seq(Request) /\ Len(queue') = Len(queue)
          /\ \A k \in 1..Len(queue) : k # 1 => queue'[k] = queue[k]
          /\ queue'[1] = [queue[1] EXCEPT !.first = @ + n]
      BY <3>1, <3>2, <1>1 DEF Inv, TypeOK
    <3>4. QED
      BY <3>2, <3>3, Zenon
  <2>2. TypeOK'
    BY <1>2, <1>3, <1>5, <2>1, Zenon DEF Inv, TypeOK, Buffers, Request
  <2>3. Owned' /\ Freed'
    BY <1>1, <1>2, <1>5, <2>1 DEF Inv, Owned, Freed, Buffers
  <2>4. Contiguous'
    <3>1. /\ \A k \in 1..(Len(queue) - 1) : queue[k + 1].first = queue[k].last + 1
          /\ queue[Len(queue)].last = received
      BY <1>2 DEF Inv, Contiguous, WriteSome
    <3>2. /\ \A k \in 1..(Len(queue') - 1) : queue'[k + 1].first = queue'[k].last + 1
          /\ queue'[Len(queue')].last = received
      BY <3>1, <2>1, <1>1
    <3>3. queue'[1].first = Len(echoed') + 1 /\ queue' # <<>>
      BY <1>1, <1>2, <1>3, <2>1
    <3>4. QED
      BY <3>2, <3>3, <1>2 DEF Contiguous
  <2>5. QED
    BY <1>3, <2>2, <2>3, <2>4 DEF Inv
<1>6. QED
  BY <1>4, <1>5 DEF WriteSome

(* A write fails or is cancelled: nothing more will be echoed.             *)
LEMMA WriteFailsKeepsInv ==
  ASSUME Inv, WriteFails
  PROVE  Inv'
<1>1. /\ queue # <<>> /\ queue' = Tail(queue) /\ done' = done \cup {Head(queue).base}
      /\ UNCHANGED <<state, peer, sent, received, echoed, allocated, freed>>
      /\ peer = "reset" \/ state = "closing"
  BY DEF WriteFails
<1>2. state # "closed"
  BY <1>1 DEF Inv, Freed
<1>3. queue' \in Seq(Request) /\ done' \subseteq Buffers /\ Owned' /\ Freed'
  BY <1>1, <1>2, HeadDoneKeepsOwnership
<1>4. TypeOK'
  BY <1>1, <1>3 DEF Inv, TypeOK, Buffers, Request
<1>5. Contiguous' /\ EchoIsPrefix'
  BY <1>1 DEF Inv, Contiguous, EchoIsPrefix
<1>6. QED
  BY <1>3, <1>4, <1>5 DEF Inv

(* write_cb frees a buffer that no other request uses.                     *)
LEMMA WriteCbKeepsInv ==
  ASSUME Inv, NEW b \in Buffers, write_cb(b)
  PROVE  Inv'
<1>1. /\ b \in done /\ done' = done \ {b} /\ freed' = [freed EXCEPT ![b] = @ + 1]
      /\ UNCHANGED <<state, peer, sent, received, queue, echoed, allocated>>
  BY DEF write_cb
<1>2. TypeOK'
  BY <1>1 DEF Inv, TypeOK
<1>3. Owned'
  BY <1>1 DEF Inv, Owned
<1>4. Contiguous' /\ EchoIsPrefix'
  BY <1>1 DEF Inv, Contiguous, EchoIsPrefix
<1>5. Freed'
  <2>1. /\ freed[b] = 0 /\ b <= allocated /\ b \in Nat /\ allocated \in Nat
        /\ \A c \in Buffers : freed'[c] = IF c = b THEN 1 ELSE freed[c]
    BY <1>1, BoundsAssumption DEF Inv, TypeOK, Owned, Freed, Buffers
  <2>2. \A k \in 1..Len(queue) : freed'[queue[k].base] = 0
    BY <1>1, <2>1, QueueTyped DEF Inv, Owned, Freed
  <2>3. \A c \in done' : freed'[c] = 0
    BY <1>1, <2>1 DEF Inv, TypeOK, Freed
  <2>4. \A c \in Buffers :
          /\ c > allocated => freed'[c] = 0
          /\ c <= allocated => \/ freed'[c] = 1
                               \/ c \in done'
                               \/ \E k \in 1..Len(queue) : queue[k].base = c
    BY <1>1, <2>1 DEF Inv, Freed, Buffers
  <2>5. QED
    BY <1>1, <2>2, <2>3, <2>4 DEF Inv, Freed
<1>6. QED
  BY <1>2, <1>3, <1>4, <1>5 DEF Inv

(* The handle is closed with no request pending.                           *)
LEMMA ClosedKeepsInv ==
  ASSUME Inv, Closed
  PROVE  Inv'
  BY DEF Closed, Inv, TypeOK, Owned, Freed, Contiguous, EchoIsPrefix, Buffers, Request

(* Every step of the client, of the worker and of the shutdown keeps Inv.  *)
LEMMA NextKeepsInv == Inv /\ [Next]_vars => Inv'
<1> SUFFICES ASSUME Inv, [Next]_vars PROVE Inv'
  OBVIOUS
<1>1. CASE ClientSends \/ \E how \in {"shut", "reset"} : ClientStops(how)
  BY <1>1, ClientKeepsInv
<1>2. CASE Loop
  BY <1>2, ReadDataKeepsInv, WriteSomeKeepsInv, ReadFreesKeepsInv, WriteFailsKeepsInv,
     ClosedKeepsInv, WriteCbKeepsInv DEF Loop
<1>3. CASE ReadNothing
  BY <1>3, ReadFreesKeepsInv
<1>4. CASE net_sock_thread_deinit \/ OtherEvent \/ RunReturns \/ net_sock_deinit
  BY <1>4, SameConnection DEF net_sock_thread_deinit, OtherEvent, RunReturns, net_sock_deinit
<1>5. CASE Finished \/ UNCHANGED vars
  BY <1>5, SameConnection DEF Finished, vars
<1>6. QED
  BY <1>1, <1>2, <1>3, <1>4, <1>5 DEF Next

(* Inv holds in every reachable state, for all values of the bounds.       *)
THEOREM InvHolds == Spec => []Inv
  BY InitInv, NextKeepsInv, PTL DEF Spec

(* The state keeps its type whatever the client and the worker do.         *)
THEOREM TypeCorrect == Spec => []TypeOK
<1>1. Inv => TypeOK
  BY DEF Inv
<1>2. QED
  BY <1>1, InvHolds, PTL

(* What the client of read_cb and write_cb gets back is a prefix of what   *)
(* it sent, however reads and writes are cut and whenever the connection   *)
(* or the worker ends.                                                     *)
THEOREM EchoCorrect == Spec => []EchoIsPrefix
<1>1. Inv => EchoIsPrefix
  BY DEF Inv
<1>2. QED
  BY <1>1, InvHolds, PTL

(* alloc_buffer's buffers are freed once by read_cb or write_cb, and not   *)
(* before the write that uses them is over.                                *)
THEOREM BuffersCorrect == Spec => []BuffersFreedOnce
<1>1. Inv => BuffersFreedOnce
  <2> SUFFICES ASSUME Inv PROVE BuffersFreedOnce
    OBVIOUS
  <2>1. \A b \in 1..allocated : b \in Buffers /\ b <= allocated
    BY BoundsAssumption DEF Inv, TypeOK, Buffers
  <2>2. \A b \in 1..allocated : freed[b] = IF b \in Pending THEN 0 ELSE 1
    BY <2>1 DEF Inv, TypeOK, Owned, Freed, Pending
  <2>3. state = "closed" => Pending = {}
    BY DEF Inv, Freed, Pending
  <2>4. QED
    BY <2>2, <2>3 DEF BuffersFreedOnce
<1>2. QED
  BY <1>1, InvHolds, PTL
=============================================================================
