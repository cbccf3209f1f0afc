-------------------------- MODULE UploadBlockProofs --------------------------
(***************************************************************************)
(* Proofs about UploadBlock, for any blocks, any bounds on chunks and       *)
(* retries, and any way in which the device refuses, ignores or delays      *)
(* requests: IInv is inductive, and the safety properties follow from it.   *)
(*                                                                         *)
(* Two arguments meet in it.  What is received is the block because in the  *)
(* chunk loop a frame is either taken as the next chunk or ends the call:   *)
(* HandedOut says that the good answers in flight are the chunks that       *)
(* follow.  The next call is in step because the reference of the newest    *)
(* request is not the one of an older request: RefsInOrder says that        *)
(* whatever is in flight gets younger along the connection.                 *)
(***************************************************************************)
EXTENDS UploadBlock, SequenceTheorems, TLAPS

InLoop == pc \in {"chunk", "chunkWait"}

\* What the place of the call says about the rest.
Phases ==
    /\ pc \in {"start", "startWait", "chunk", "chunkWait"} => result = {} /\ ~ended
    /\ pc = "start" => requests = 0 /\ queue = <<>> /\ inbox = <<>>
    /\ pc = "startWait" => requests = 1
    /\ pc \in {"start", "startWait"} => i = 0 /\ attempt = 0 /\ payload = <<>>
    /\ pc = "chunkWait" => i < MaxUploadChunks
    /\ pc = "chunk" /\ i = MaxUploadChunks => attempt = 0
    /\ pc = "end" => ~ended
    /\ pc = "endWait" => ended
    /\ pc \in {"start", "startWait"} => ~session
    /\ pc = "done" => ended \/ (~session /\ result # {})
    /\ pc \in {"nextWait", "over"} => ended

\* While the call waits for the start of the session, nothing else is in flight.
Starting ==
    pc = "startWait" =>
        /\ Len(queue) + Len(inbox) <= 1
        /\ \A p \in 1..Len(queue) : queue[p].type = "start"
        /\ \A p \in 1..Len(inbox) : /\ inbox[p].type = "start"
                                    /\ inbox[p].kind = "ok" => next = 1

\* The chunks received are the first of the block, and all of them on success.
Received ==
    /\ Len(payload) <= Len(block)
    /\ Len(payload) <= MaxUploadChunks
    /\ \A n \in 1..Len(payload) : payload[n] = block[n]
    /\ chunkCount <= Len(payload)
    /\ InLoop => Len(payload) = i
    /\ pc \notin {"start", "startWait", "chunk", "chunkWait"} /\ result = {} =>
          Len(payload) = Len(block)

\* f[p] chunks have been handed out up to answer p.
Counts(f) ==
    /\ f[0] = Len(payload)
    /\ f[Len(inbox)] = next - 1
    /\ \A p \in 1..Len(inbox) :
          IF inbox[p].kind = "ok"
          THEN /\ f[p] = f[p - 1] + 1
               /\ inbox[p].data = block[f[p]]
               /\ inbox[p].done = (f[p] = Len(block))
          ELSE f[p] = f[p - 1]

\* In the loop everything in flight is about chunks, and the good answers are
\* the chunks that follow those received.
HandedOut ==
    InLoop =>
        /\ \A p \in 1..Len(queue) : queue[p].type = "chunk"
        /\ \A p \in 1..Len(inbox) : inbox[p].type = "chunk"
        /\ \E f \in [0..Len(inbox) -> 0..Len(block)] : Counts(f)

\* The number of requests made since the one with reference x, when r is the
\* newest.
Age(r, x) == IF x <= r THEN r - x ELSE r - x + RefModulus

\* The references f[1], ..., f[n] of k requests or fewer, oldest first.
InOrder(n, f, r, k) ==
    /\ \A p \in 1..n : f[p] \in 0..(RefModulus - 1) /\ Age(r, f[p]) < k
    /\ \A p, q \in 1..n : p < q => Age(r, f[p]) > Age(r, f[q])

\* What is in flight: the answers, and behind them the requests.
Flight == Len(inbox) + Len(queue)

FlightRef == [p \in 1..Flight |->
                 IF p <= Len(inbox) THEN inbox[p].ref ELSE queue[p - Len(inbox)].ref]

\* It is in the order in which it was asked for.
RefsInOrder == InOrder(Flight, FlightRef, ref, requests)

\* There are at most MaxUploadRetries requests per chunk.
Budget ==
    /\ pc = "chunk" => requests <= i * MaxUploadRetries + attempt + 1
    /\ pc = "chunkWait" => requests <= i * MaxUploadRetries + attempt + 2
    /\ pc = "end" => requests <= MaxUploadChunks * MaxUploadRetries + 1
    /\ pc \in {"endWait", "done"} => requests <= MaxUploadChunks * MaxUploadRetries + 2
    /\ pc \in {"nextWait", "over"} => requests <= MaxUploadChunks * MaxUploadRetries + 3

\* The inductive invariant.
IInv ==
    /\ TypeOK /\ Phases /\ Starting /\ Received /\ HandedOut /\ RefsInOrder
    /\ Budget /\ NextCallInStep

-----------------------------------------------------------------------------
(* Facts about the constants, the block and the errors. *)

\* Constants are numbers, and a whole call fits in the reference.
LEMMA ConstantFacts ==
    /\ MaxUploadChunks \in Nat \ {0} /\ MaxUploadRetries \in Nat \ {0}
    /\ RefModulus \in Nat \ {0}
    /\ MaxUploadChunks * MaxUploadRetries \in Nat
    /\ MaxUploadChunks * MaxUploadRetries + 3 <= RefModulus
<1>1. /\ MaxUploadChunks \in Nat /\ MaxUploadRetries \in Nat
    BY BoundAssumption, Zenon
<1>2. MaxUploadChunks * MaxUploadRetries \in Nat
    BY <1>1
<1> DEFINE product == MaxUploadChunks * MaxUploadRetries
<1>3. product \in Nat /\ product + 3 <= RefModulus /\ RefModulus \in Nat
    BY <1>2, BoundAssumption, Zenon
<1> HIDE DEF product
<1>4. RefModulus \in Nat \ {0}
    BY <1>3
<1> QED BY <1>2, <1>3, <1>4, BoundAssumption, Zenon

\* The requests for the chunks before a and for chunk a itself.
LEMMA BudgetPerChunk ==
    ASSUME NEW a \in Nat, NEW b \in Nat, NEW r \in Nat, a < b
    PROVE  a * r \in Nat /\ (a + 1) * r = a * r + r /\ a * r + r <= b * r
<1>1. PICK d \in Nat : b = a + 1 + d
  <2>1. b - a - 1 \in Nat /\ b = a + 1 + (b - a - 1)
      OBVIOUS
  <2> QED BY <2>1
<1>2. (a + 1) * r = a * r + r
    OBVIOUS
<1>3. (a + 1 + d) * r = a * r + r + d * r
    OBVIOUS
<1>4. d * r \in Nat /\ a * r \in Nat
    OBVIOUS
<1> QED BY <1>1, <1>2, <1>3, <1>4

\* The device's block is a non-empty sequence of chunks.
LEMMA BlockFacts ==
    ASSUME NEW b \in Blocks, NEW c, c = ChunksOf[Named(typeChar(b[1]), numStr(b[2]))]
    PROVE  c \in Seq(Seq(Nat)) /\ Len(c) \in Nat \ {0}
<1>1. c \in Seq(Seq(Nat)) \ {<<>>}
    BY BlockAssumption, Zenon
<1> QED BY <1>1

\* The decimal digits of a block number.
LEMMA Digits ==
    ASSUME NEW n \in BlockNumbers
    PROVE  10000 * ((n \div 10000) % 10) + 1000 * ((n \div 1000) % 10)
              + 100 * ((n \div 100) % 10) + 10 * ((n \div 10) % 10) + (n % 10) = n
<1>1. n \in Nat
    BY SMTT(60) DEF BlockNumbers
<1>2. n % 10 = n - 10 * (n \div 10)
    BY <1>1, SMT
<1>3. (n \div 10) % 10 = n \div 10 - 10 * (n \div 100)
    BY <1>1, SMT
<1>4. (n \div 100) % 10 = n \div 100 - 10 * (n \div 1000)
    BY <1>1, SMT
<1>5. (n \div 1000) % 10 = n \div 1000 - 10 * (n \div 10000)
    BY <1>1, SMT
<1>6. (n \div 10000) % 10 = n \div 10000
  <2>1. n <= 65535
      BY SMTT(60) DEF BlockNumbers
  <2>2. n \div 10000 \in 0..6
      BY <1>1, <2>1, SMT
  <2>3. \A d \in 0..6 : d % 10 = d
      BY SMT
  <2> QED BY <2>2, <2>3, SMT
<1>7. n \div 10 \in Nat
    BY <1>1, SMT
<1>8. n \div 100 \in Nat
    BY <1>1, SMT
<1>9. n \div 1000 \in Nat
    BY <1>1, SMT
<1>10. n \div 10000 \in Nat
    BY <1>1, SMT
<1> QED BY <1>1, <1>2, <1>3, <1>4, <1>5, <1>6, <1>7, <1>8, <1>9, <1>10, SMT

\* The name in digits.
LEMMA NameInDigits ==
    ASSUME NEW x, NEW n
    PROVE  Named(x, numStr(n))
             = <<x, 10000 * ((n \div 10000) % 10) + 1000 * ((n \div 1000) % 10)
                      + 100 * ((n \div 100) % 10) + 10 * ((n \div 10) % 10) + (n % 10)>>
BY SMT DEF Named, numStr

\* The name of a block is that of the block itself, except for an SDB.
LEMMA NamedRight ==
    ASSUME NEW b \in Blocks, b[1] # BlockTypeSDB
    PROVE  Named(typeChar(b[1]), numStr(b[2])) = b
<1>1. b = <<b[1], b[2]>> /\ b[1] \in AllBlockTypes /\ b[2] \in BlockNumbers
    BY BlockAssumption, Zenon
<1>2. typeChar(b[1]) = b[1]
    BY <1>1, SMT DEF typeChar, AllBlockTypes, BlockTypeOB, BlockTypeDB, BlockTypeSDB, BlockTypeFC,
                     BlockTypeSFC, BlockTypeFB, BlockTypeSFB
<1> DEFINE n == b[2]
<1>3. n \in BlockNumbers
    BY <1>1
<1> HIDE DEF n
<1>4. Named(b[1], numStr(n)) = <<b[1], n>>
    BY <1>3, NameInDigits, Digits, SMT
<1> QED BY <1>1, <1>2, <1>4, SMT DEF n

\* What the frames of this model do to an exchange.
LEMMA StartErrorFacts ==
    ASSUME NEW frame \in Frames
    PROVE  /\ StartError(frame) \subseteq Sentinels
           /\ StartError(frame) = {} => frame.kind = "ok" /\ frame.type = "start"
BY DEF StartError, ResponseError, Frames, Sentinels, ErrProtocolFailure, PDURefMismatchError

LEMMA ChunkErrorFacts ==
    ASSUME NEW frame \in Frames
    PROVE  /\ ChunkError(frame) \subseteq Sentinels
           /\ ChunkError(frame) = {} => frame.kind = "ok" /\ frame.type = "chunk"
           /\ ChunkError(frame) # {} => isUploadProtocolError(ChunkError(frame))
BY DEF ChunkError, ResponseError, Frames, Sentinels, ErrProtocolFailure, PDURefMismatchError,
       isUploadProtocolError

LEMMA TransportErrorFacts ==
    ASSUME NEW err \in TransportErrors
    PROVE  err \subseteq Sentinels /\ err # {}
BY DEF TransportErrors, Sentinels

\* Short sequences.
LEMMA Positions ==
    /\ \A n : n = 0 => 1..n = {}
    /\ \A n : n = 1 => \A p \in 1..n : p = 1
    /\ \A n, m : n = 0 /\ m = 1 => m + n <= 1
    /\ \A n \in Nat \ {0}, m \in Nat : m + n <= 1 => n = 1 /\ m = 0
OBVIOUS

-----------------------------------------------------------------------------
(* References *)

LEMMA NextRef ==
    ASSUME NEW r \in Nat, NEW M \in Nat, r < M
    PROVE  (r + 1) % M = IF r + 1 = M THEN 0 ELSE r + 1
OBVIOUS

\* A new request makes everything in flight older by one.
LEMMA AgeGrows ==
    ASSUME NEW r \in 0..(RefModulus - 1), NEW x \in 0..(RefModulus - 1), NEW k \in Nat,
           RefModulus \in Nat, k + 1 <= RefModulus, Age(r, x) < k,
           NEW r2, r2 = (r + 1) % RefModulus
    PROVE  Age(r2, x) = Age(r, x) + 1 /\ Age(r, x) \in Nat
<1>1. r2 = IF r + 1 = RefModulus THEN 0 ELSE r + 1
    BY NextRef
<1> QED BY <1>1 DEF Age

LEMMA OrderSend ==
    ASSUME NEW n \in Nat, NEW f, NEW g, NEW r \in 0..(RefModulus - 1), NEW k \in Nat,
           RefModulus \in Nat, k + 1 <= RefModulus, InOrder(n, f, r, k),
           NEW r2, r2 = (r + 1) % RefModulus,
           \A p \in 1..n : g[p] = f[p],
           NEW m \in {n, n + 1}, m = n + 1 => g[m] = r2, NEW k2, k2 = k + 1
    PROVE  InOrder(m, g, r2, k2)
<1>1. r2 \in 0..(RefModulus - 1)
  <2>1. r2 = IF r + 1 = RefModulus THEN 0 ELSE r + 1
      BY NextRef
  <2> QED BY <2>1
<1>2. ASSUME NEW p \in 1..n
      PROVE  /\ g[p] \in 0..(RefModulus - 1)
             /\ Age(r2, g[p]) = Age(r, f[p]) + 1 /\ Age(r, f[p]) \in Nat
             /\ Age(r, f[p]) < k
  <2>1. f[p] \in 0..(RefModulus - 1) /\ Age(r, f[p]) < k /\ g[p] = f[p]
      BY DEF InOrder
  <2> QED BY <2>1, AgeGrows
<1>3. \A p, q \in 1..n : p < q => Age(r2, g[p]) > Age(r2, g[q])
    BY <1>2 DEF InOrder
<1>4. CASE m = n
    BY <1>1, <1>2, <1>3, <1>4 DEF InOrder
<1>5. CASE m = n + 1
  <2>1. g[n + 1] \in 0..(RefModulus - 1) /\ Age(r2, g[n + 1]) = 0
      BY <1>1, <1>5 DEF Age
  <2>2. ASSUME NEW p \in 1..m PROVE g[p] \in 0..(RefModulus - 1) /\ Age(r2, g[p]) < k + 1
    <3>1. p \in 1..n \/ p = n + 1
        BY <1>5
    <3> QED BY <1>2, <2>1, <3>1
  <2>3. ASSUME NEW p \in 1..m, NEW q \in 1..m, p < q PROVE Age(r2, g[p]) > Age(r2, g[q])
    <3>1. p \in 1..n /\ (q \in 1..n \/ q = n + 1)
        BY <1>5, <2>3
    <3>2. CASE q \in 1..n
        BY <1>3, <2>3, <3>1, <3>2
    <3>3. CASE q = n + 1
        BY <1>2, <2>1, <3>1, <3>3
    <3> QED BY <3>1, <3>2, <3>3
  <2> QED BY <1>1, <2>2, <2>3 DEF InOrder
<1> QED BY <1>4, <1>5

\* Taking one out leaves the others in order.
LEMMA OrderSkip ==
    ASSUME NEW n \in Nat, NEW f, NEW g, NEW r, NEW k, InOrder(n, f, r, k),
           NEW j \in 1..n,
           \A p \in 1..(n - 1) : g[p] = IF p < j THEN f[p] ELSE f[p + 1]
    PROVE  InOrder(n - 1, g, r, k)
<1> DEFINE e(p) == IF p < j THEN p ELSE p + 1
<1>1. \A p \in 1..(n - 1) : e(p) \in 1..n /\ g[p] = f[e(p)]
    OBVIOUS
<1>2. \A p, q \in 1..(n - 1) : p < q => e(p) < e(q)
    OBVIOUS
<1> HIDE DEF e
<1> QED BY <1>1, <1>2 DEF InOrder

\* The three things that happen to what is in flight.
LEMMA SendInOrder ==
    ASSUME TypeOK, RefsInOrder, requests + 1 <= RefModulus, NEW type \in Types,
           ref' = (ref + 1) % RefModulus, requests' = requests + 1, UNCHANGED inbox,
           \/ UNCHANGED queue
           \/ queue' = Append(queue, [type |-> type, ref |-> (ref + 1) % RefModulus])
    PROVE  /\ RefsInOrder' /\ ref' \in 0..(RefModulus - 1)
           /\ requests' \in Nat /\ queue' \in Seq(Messages)
<1>1. /\ ref \in 0..(RefModulus - 1) /\ requests \in Nat
      /\ queue \in Seq(Messages) /\ inbox \in Seq(Frames) /\ Flight \in Nat
    BY DEF TypeOK, Flight
<1>2. RefModulus \in Nat /\ RefModulus # 0
    BY ConstantFacts
<1> DEFINE new == [type |-> type, ref |-> ref']
<1>3. ref' \in 0..(RefModulus - 1)
  <2>1. ref \in Nat /\ ref < RefModulus
      BY <1>1, <1>2
  <2>2. ref' = IF ref + 1 = RefModulus THEN 0 ELSE ref + 1
      BY <1>2, <2>1, NextRef, Zenon
  <2> QED BY <1>1, <1>2, <2>2
<1>4. new \in Messages /\ new.ref = ref'
    BY <1>3 DEF Messages
<1> HIDE DEF new
<1>5. UNCHANGED queue \/ queue' = Append(queue, new)
    BY DEF new
<1>6. queue' \in Seq(Messages) /\ Flight' \in {Flight, Flight + 1}
      /\ (Flight' = Flight + 1 => FlightRef'[Flight'] = ref')
  <2>1. CASE UNCHANGED queue
      BY <1>1, <2>1 DEF Flight
  <2>2. CASE queue' = Append(queue, new)
    <3>1. queue' \in Seq(Messages) /\ Len(queue') = Len(queue) + 1 /\ queue'[Len(queue) + 1] = new
        BY <1>1, <1>4, <2>2
    <3>2. Flight' = Flight + 1 /\ Flight' - Len(inbox') = Len(queue) + 1 /\ ~(Flight' <= Len(inbox'))
        BY <1>1, <3>1 DEF Flight
    <3>3. FlightRef'[Flight'] = ref'
        BY <1>1, <1>4, <3>1, <3>2 DEF FlightRef
    <3> QED BY <3>1, <3>2, <3>3
  <2> QED BY <1>5, <2>1, <2>2
<1>7. \A p \in 1..Flight : FlightRef'[p] = FlightRef[p]
  <2> SUFFICES ASSUME NEW p \in 1..Flight PROVE FlightRef'[p] = FlightRef[p]
      OBVIOUS
  <2>1. p \in 1..Flight'
      BY <1>1, <1>6
  <2>2. CASE p <= Len(inbox)
      BY <1>1, <2>1, <2>2 DEF FlightRef
  <2>3. CASE p > Len(inbox)
    <3>1. p - Len(inbox) \in 1..Len(queue)
        BY <1>1, <2>3 DEF Flight
    <3>2. queue'[p - Len(inbox)] = queue[p - Len(inbox)]
      <4>1. \A k \in 1..Len(queue) : queue'[k] = queue[k]
        <5>1. CASE UNCHANGED queue
            BY <5>1
        <5>2. CASE queue' = Append(queue, new)
            BY <1>1, <5>2
        <5> QED BY <1>5, <5>1, <5>2
      <4> QED BY <3>1, <4>1
    <3>3. Len(inbox') = Len(inbox) /\ ~(p <= Len(inbox))
        BY <1>1, <2>3
    <3>4. FlightRef'[p] = queue'[p - Len(inbox)].ref
        BY <2>1, <3>3 DEF FlightRef
    <3>5. FlightRef[p] = queue[p - Len(inbox)].ref
        BY <3>3 DEF FlightRef
    <3> QED BY <3>2, <3>4, <3>5
  <2> QED BY <1>1, <2>2, <2>3
<1>8. InOrder(Flight', FlightRef', ref', requests')
  <2> DEFINE n == Flight
             m == Flight'
             f == FlightRef
             g == FlightRef'
             r2 == ref'
  <2>1. n \in Nat /\ m \in {n, n + 1} /\ (m = n + 1 => g[m] = r2) /\ \A p \in 1..n : g[p] = f[p]
      BY <1>1, <1>6, <1>7
  <2>2. InOrder(n, f, ref, requests) /\ r2 = (ref + 1) % RefModulus
      BY DEF RefsInOrder
  <2> HIDE DEF n, m, f, g, r2
  <2>3. InOrder(m, g, r2, requests')
      BY <1>1, <1>2, <2>1, <2>2, OrderSend, SMTT(30)
  <2> QED BY <2>3 DEF n, m, f, g, r2
<1> QED BY <1>1, <1>3, <1>6, <1>8 DEF RefsInOrder

LEMMA ReadInOrder ==
    ASSUME TypeOK, RefsInOrder, inbox # <<>>, inbox' = Tail(inbox),
           UNCHANGED <<ref, requests, queue>>
    PROVE  RefsInOrder' /\ inbox' \in Seq(Frames)
<1>1. queue \in Seq(Messages) /\ inbox \in Seq(Frames) /\ Flight \in Nat
    BY DEF TypeOK, Flight
<1>2. /\ Len(inbox) \in Nat \ {0} /\ Len(inbox') = Len(inbox) - 1 /\ inbox' \in Seq(Frames)
      /\ \A p \in 1..(Len(inbox) - 1) : inbox'[p] = inbox[p + 1]
    BY <1>1
<1>3. Flight' = Flight - 1 /\ 1 \in 1..Flight
    BY <1>1, <1>2 DEF Flight
<1>4. ASSUME NEW p \in 1..(Flight - 1) PROVE FlightRef'[p] = FlightRef[p + 1]
  <2>1. p \in 1..Flight' /\ p + 1 \in 1..Flight
      BY <1>1, <1>3
  <2>2. CASE p <= Len(inbox) - 1
      BY <1>1, <1>2, <2>1, <2>2 DEF FlightRef
  <2>3. CASE p > Len(inbox) - 1
    <3>1. p - Len(inbox') = p + 1 - Len(inbox) /\ ~(p <= Len(inbox')) /\ ~(p + 1 <= Len(inbox))
        BY <1>1, <1>2, <2>3
    <3> QED BY <1>1, <1>2, <2>1, <3>1 DEF FlightRef
  <2> QED BY <1>1, <1>2, <2>2, <2>3
<1>5. \A p \in 1..(Flight - 1) : FlightRef'[p] = IF p < 1 THEN FlightRef[p] ELSE FlightRef[p + 1]
    BY <1>4
<1>6. InOrder(Flight - 1, FlightRef', ref, requests)
    BY <1>1, <1>3, <1>5, OrderSkip DEF RefsInOrder
<1> QED BY <1>2, <1>3, <1>6 DEF RefsInOrder

LEMMA ServeInOrder ==
    ASSUME TypeOK, RefsInOrder, queue # <<>>, queue' = Tail(queue), UNCHANGED <<ref, requests>>,
           NEW a \in Frames, a.ref = Head(queue).ref,
           UNCHANGED inbox \/ inbox' = Append(inbox, a)
    PROVE  RefsInOrder' /\ inbox' \in Seq(Frames) /\ queue' \in Seq(Messages)
<1>1. queue \in Seq(Messages) /\ inbox \in Seq(Frames) /\ Flight \in Nat
    BY DEF TypeOK, Flight
<1>2. /\ Len(queue) \in Nat \ {0} /\ Len(queue') = Len(queue) - 1 /\ queue' \in Seq(Messages)
      /\ \A p \in 1..(Len(queue) - 1) : queue'[p] = queue[p + 1]
      /\ Head(queue) = queue[1]
    BY <1>1
<1>3. CASE UNCHANGED inbox
  <2> DEFINE j == Len(inbox) + 1
  <2>1. Flight' = Flight - 1 /\ j \in 1..Flight
      BY <1>1, <1>2, <1>3 DEF Flight
  <2>2. ASSUME NEW p \in 1..(Flight - 1)
        PROVE  FlightRef'[p] = IF p < j THEN FlightRef[p] ELSE FlightRef[p + 1]
    <3>1. p \in 1..Flight' /\ p + 1 \in 1..Flight /\ p \in 1..Flight
        BY <1>1, <2>1
    <3>2. CASE p < j
      <4>1. p <= Len(inbox)
          BY <1>1, <3>2
      <4> QED BY <1>1, <1>3, <3>1, <3>2, <4>1 DEF FlightRef
    <3>3. CASE ~(p < j)
      <4>1. /\ ~(p <= Len(inbox)) /\ ~(p + 1 <= Len(inbox))
            /\ p - Len(inbox) \in 1..(Len(queue) - 1)
            /\ p + 1 - Len(inbox) = (p - Len(inbox)) + 1
          BY <1>1, <1>2, <3>3 DEF Flight
      <4>2. queue'[p - Len(inbox)] = queue[p + 1 - Len(inbox)]
          BY <1>2, <4>1
      <4> QED BY <1>1, <1>3, <3>1, <3>3, <4>1, <4>2 DEF FlightRef
    <3> QED BY <3>2, <3>3
  <2> HIDE DEF j
  <2>3. InOrder(Flight - 1, FlightRef', ref, requests)
      BY <1>1, <2>1, <2>2, OrderSkip DEF RefsInOrder
  <2> QED BY <1>1, <1>2, <1>3, <2>1, <2>3 DEF RefsInOrder
<1>4. CASE inbox' = Append(inbox, a)
  <2>1. /\ inbox' \in Seq(Frames) /\ Len(inbox') = Len(inbox) + 1
        /\ \A p \in 1..Len(inbox) : inbox'[p] = inbox[p]
        /\ inbox'[Len(inbox) + 1] = a
      BY <1>1, <1>4
  <2>2. Flight' = Flight
      BY <1>1, <1>2, <2>1 DEF Flight
  <2>3. ASSUME NEW p \in 1..Flight PROVE FlightRef'[p] = FlightRef[p]
    <3>1. CASE p <= Len(inbox)
        BY <1>1, <2>1, <2>2, <3>1 DEF FlightRef
    <3>2. CASE p = Len(inbox) + 1
      <4>1. /\ p <= Len(inbox') /\ ~(p <= Len(inbox)) /\ p - Len(inbox) = 1
          BY <1>1, <2>1, <3>2
      <4> QED BY <1>2, <2>1, <2>2, <3>2, <4>1 DEF FlightRef
    <3>3. CASE p > Len(inbox) + 1
      <4>1. /\ ~(p <= Len(inbox')) /\ ~(p <= Len(inbox))
            /\ p - Len(inbox') \in 1..(Len(queue) - 1)
            /\ p - Len(inbox) = (p - Len(inbox')) + 1
          BY <1>1, <1>2, <2>1, <3>3 DEF Flight
      <4> QED BY <1>2, <2>2, <4>1 DEF FlightRef
    <3> QED BY <1>1, <3>1, <3>2, <3>3
  <2>4. InOrder(Flight, FlightRef', ref, requests)
      BY <2>3, <1>1 DEF RefsInOrder, InOrder
  <2> QED BY <1>2, <2>1, <2>2, <2>4 DEF RefsInOrder
<1> QED BY <1>3, <1>4

-----------------------------------------------------------------------------
(* IInv is inductive. *)

LEMMA InitIInv == Init => IInv
<1> SUFFICES ASSUME Init PROVE IInv
    OBVIOUS
<1> USE DEF Init
<1>1. block \in Seq(Seq(Nat)) /\ Len(block) \in Nat \ {0}
    BY BlockFacts
<1>2. MaxUploadChunks \in Nat \ {0} /\ MaxUploadRetries \in Nat \ {0}
    BY ConstantFacts
<1>3. TypeOK
  <2>1. /\ i \in 0..MaxUploadChunks /\ attempt \in 0..(MaxUploadRetries - 1)
        /\ chunkCount \in 0..MaxUploadChunks /\ next \in 0..(Len(block) + 1)
      BY <1>1, <1>2
  <2>2. payload \in Seq(Seq(Nat)) /\ queue \in Seq(Messages) /\ inbox \in Seq(Frames)
      OBVIOUS
  <2>3. ref \in 0..(RefModulus - 1)
      BY BoundAssumption
  <2> QED BY <2>1, <2>2, <2>3 DEF TypeOK
<1>4. Phases /\ Starting /\ HandedOut /\ Budget /\ NextCallInStep
    BY DEF Phases, Starting, HandedOut, InLoop, Budget, NextCallInStep
<1>5. Received
    BY <1>1, <1>2 DEF Received, InLoop
<1>6. RefsInOrder
  <2>1. Flight = 0
      BY DEF Flight
  <2> QED BY <2>1 DEF RefsInOrder, InOrder
<1> QED BY <1>3, <1>4, <1>5, <1>6 DEF IInv

\* The types used in every step.
LEMMA TypeFacts ==
    ASSUME TypeOK
    PROVE  /\ block \in Seq(Seq(Nat)) /\ Len(block) \in Nat \ {0}
           /\ payload \in Seq(Seq(Nat)) /\ Len(payload) \in Nat
           /\ queue \in Seq(Messages) /\ inbox \in Seq(Frames)
           /\ i \in Nat /\ attempt \in Nat /\ chunkCount \in Nat /\ requests \in Nat
           /\ attempt + 1 <= MaxUploadRetries
           /\ next \in 0..(Len(block) + 1)
<1>1. block \in Seq(Seq(Nat)) /\ Len(block) \in Nat \ {0}
    BY BlockFacts DEF TypeOK
<1>2. MaxUploadChunks \in Nat \ {0} /\ MaxUploadRetries \in Nat \ {0}
    BY ConstantFacts
<1> QED BY <1>1, <1>2 DEF TypeOK

\* Leaving the loop: what was received stays a prefix of the block.
LEMMA LoopReturns ==
    ASSUME IInv, InLoop, NEW err \in SUBSET Sentinels, Return(err),
           UNCHANGED <<devVars, ended, nextErr>>,
           ref' \in 0..(RefModulus - 1), queue' \in Seq(Messages), inbox' \in Seq(Frames),
           requests' \in Nat, requests' <= MaxUploadChunks * MaxUploadRetries + 1, RefsInOrder',
           i' \in 0..MaxUploadChunks, attempt' \in 0..(MaxUploadRetries - 1),
           payload' \in Seq(Seq(Nat)), chunkCount' \in 0..MaxUploadChunks,
           Len(payload') <= Len(block), Len(payload') <= MaxUploadChunks,
           chunkCount' <= Len(payload'),
           \A n \in 1..Len(payload') : payload'[n] = block[n],
           err = {} => Len(payload') = Len(block)
    PROVE  IInv'
<1> USE DEF IInv, Return, devVars
<1>1. pc' = "end" /\ result' = err /\ ~ended
    BY DEF Phases, InLoop
<1>2. TypeOK'
    BY <1>1 DEF TypeOK
<1>3. Phases' /\ Starting' /\ HandedOut' /\ Budget' /\ NextCallInStep'
    BY <1>1 DEF Phases, Starting, HandedOut, InLoop, Budget, NextCallInStep
<1>4. Received'
    BY <1>1 DEF Received, InLoop
<1> QED BY <1>2, <1>3, <1>4

\* Leaving it with what has been received.
LEMMA LoopFails ==
    ASSUME IInv, InLoop, NEW err \in SUBSET Sentinels, err # {}, Return(err),
           UNCHANGED <<devVars, ended, nextErr, loopVars>>,
           ref' \in 0..(RefModulus - 1), queue' \in Seq(Messages), inbox' \in Seq(Frames),
           requests' \in Nat, requests' <= MaxUploadChunks * MaxUploadRetries + 1, RefsInOrder'
    PROVE  IInv'
<1>1. /\ i' \in 0..MaxUploadChunks /\ attempt' \in 0..(MaxUploadRetries - 1)
      /\ payload' \in Seq(Seq(Nat)) /\ chunkCount' \in 0..MaxUploadChunks
    BY DEF IInv, TypeOK, loopVars
<1>2. /\ Len(payload') <= Len(block) /\ Len(payload') <= MaxUploadChunks
      /\ chunkCount' <= Len(payload')
      /\ \A n \in 1..Len(payload') : payload'[n] = block[n]
    BY DEF IInv, Received, loopVars
<1> QED BY <1>1, <1>2, LoopReturns

\* The budget of requests in the loop and at its end.
LEMMA LoopBudget ==
    ASSUME IInv, i < MaxUploadChunks
    PROVE  /\ i * MaxUploadRetries \in Nat
           /\ (i + 1) * MaxUploadRetries = i * MaxUploadRetries + MaxUploadRetries
           /\ i * MaxUploadRetries + attempt + 1 <= MaxUploadChunks * MaxUploadRetries
<1>1. i \in Nat /\ attempt \in Nat /\ attempt + 1 <= MaxUploadRetries
    BY TypeFacts DEF IInv
<1>2. MaxUploadChunks \in Nat /\ MaxUploadRetries \in Nat /\ MaxUploadChunks * MaxUploadRetries \in Nat
    BY ConstantFacts
<1>3. /\ i * MaxUploadRetries \in Nat
      /\ (i + 1) * MaxUploadRetries = i * MaxUploadRetries + MaxUploadRetries
      /\ i * MaxUploadRetries + MaxUploadRetries <= MaxUploadChunks * MaxUploadRetries
    BY <1>1, <1>2, BudgetPerChunk
<1> DEFINE a == i * MaxUploadRetries
           b == MaxUploadChunks * MaxUploadRetries
<1>4. a \in Nat /\ b \in Nat /\ a + MaxUploadRetries <= b
    BY <1>2, <1>3
<1> HIDE DEF a, b
<1>5. a + attempt + 1 <= b
    BY <1>1, <1>2, <1>4
<1> QED BY <1>3, <1>5 DEF a, b

\* Before it leaves the loop the call has a request left.
LEMMA LoopRoom ==
    ASSUME IInv, InLoop
    PROVE  /\ requests <= MaxUploadChunks * MaxUploadRetries + 1
           /\ requests + 1 <= RefModulus
<1>1. /\ MaxUploadChunks * MaxUploadRetries \in Nat /\ RefModulus \in Nat
      /\ MaxUploadChunks * MaxUploadRetries + 3 <= RefModulus
      /\ MaxUploadChunks \in Nat /\ MaxUploadRetries \in Nat
    BY ConstantFacts
<1>2. i \in Nat /\ i <= MaxUploadChunks /\ attempt \in Nat /\ requests \in Nat
    BY <1>1, TypeFacts DEF IInv, TypeOK
<1> DEFINE a == i * MaxUploadRetries
           b == MaxUploadChunks * MaxUploadRetries
<1>3. CASE i < MaxUploadChunks
  <2>1. a \in Nat /\ a + attempt + 1 <= b
      BY <1>3, LoopBudget
  <2>2. requests <= a + attempt + 2
      BY <1>2, <2>1 DEF IInv, InLoop, Budget
  <2>3. b \in Nat /\ b + 3 <= RefModulus
      BY <1>1
  <2> HIDE DEF a, b
  <2>4. requests <= b + 1 /\ requests + 1 <= RefModulus
      BY <1>1, <1>2, <2>1, <2>2, <2>3
  <2> QED BY <2>4 DEF b
<1>4. CASE i = MaxUploadChunks
  <2>1. pc = "chunk" /\ attempt = 0
      BY <1>1, <1>4 DEF IInv, InLoop, Phases
  <2>2. requests <= b + 0 + 1
      BY <1>4, <2>1 DEF IInv, Budget
  <2>3. b \in Nat /\ b + 3 <= RefModulus
      BY <1>1
  <2> HIDE DEF b
  <2>4. requests <= b + 1 /\ requests + 1 <= RefModulus
      BY <1>1, <1>2, <2>2, <2>3
  <2> QED BY <2>4 DEF b
<1> QED BY <1>1, <1>2, <1>3, <1>4

\* Starting the session.
LEMMA StartUploadIInv ==
    ASSUME IInv, StartUpload
    PROVE  IInv'
<1> USE DEF IInv, StartUpload, devVars, loopVars
<1>1. requests = 0 /\ queue = <<>> /\ inbox = <<>> /\ i = 0 /\ attempt = 0 /\ payload = <<>>
      /\ ~ended /\ result = {}
    BY DEF Phases
<1>2. requests + 1 <= RefModulus /\ MaxUploadChunks * MaxUploadRetries \in Nat
    BY <1>1, ConstantFacts
<1>3. /\ RefsInOrder' /\ ref' \in 0..(RefModulus - 1) /\ requests' \in Nat /\ queue' \in Seq(Messages)
      /\ requests' = 1
    BY <1>1, <1>2, SendInOrder DEF SendRequest, SendNothing, Types
<1>4. pc' \in {"startWait", "done"} /\ result' \subseteq Sentinels /\ (pc' = "done" <=> result' # {})
    BY <1>1, TransportErrorFacts DEF SendRequest, SendNothing
<1>5. pc' = "startWait" => Len(queue') = 1 /\ queue'[1].type = "start"
    BY <1>1 DEF SendRequest, SendNothing
<1>6. TypeOK'
    BY <1>3, <1>4 DEF TypeOK
<1>7. Phases'
    BY <1>1, <1>3, <1>4 DEF Phases
<1>8. Starting'
  <2>1. Len(inbox') = 0
      BY <1>1
  <2>2. pc' = "startWait" => \A p \in 1..Len(queue') : queue'[p].type = "start"
      BY <1>5, Positions, Zenon
  <2>3. 1..Len(inbox') = {}
      BY <2>1, Positions, Zenon
  <2>4. pc' = "startWait" => Len(queue') + Len(inbox') <= 1
      BY <1>5, <2>1, Positions, Zenon
  <2> QED BY <2>2, <2>3, <2>4, Zenon DEF Starting
<1>9. Received'
    BY <1>4 DEF Received, InLoop
<1>10. HandedOut' /\ NextCallInStep'
    BY <1>4 DEF HandedOut, InLoop, NextCallInStep
<1>11. Budget'
    BY <1>2, <1>3, <1>4 DEF Budget
<1> QED BY <1>3, <1>6, <1>7, <1>8, <1>9, <1>10, <1>11

\* The session is open: nothing is in flight, and the device is at chunk 1.
LEMMA StartAnsweredIInv ==
    ASSUME IInv, StartAnswered
    PROVE  IInv'
<1> USE DEF IInv, StartAnswered, devVars, loopVars
<1>1. requests = 1 /\ i = 0 /\ attempt = 0 /\ payload = <<>> /\ ~ended
    BY DEF Phases
<1>2. queue \in Seq(Messages) /\ inbox \in Seq(Frames) /\ Len(block) \in Nat \ {0}
    BY TypeFacts
<1>3. Len(inbox) = 1 /\ Len(queue) = 0 /\ Head(inbox) \in Frames /\ Head(inbox) = inbox[1]
  <2>1. Len(inbox) \in Nat \ {0} /\ Len(queue) \in Nat
      BY <1>2
  <2>2. Len(queue) + Len(inbox) <= 1
      BY DEF Starting
  <2>3. Len(inbox) = 1 /\ Len(queue) = 0
      BY <2>1, <2>2, Positions, Zenon
  <2>4. Head(inbox) = inbox[1] /\ inbox[1] \in Frames
      BY <1>2, <2>3
  <2> QED BY <2>3, <2>4
<1>4. RefsInOrder' /\ inbox' \in Seq(Frames)
    BY ReadInOrder
<1>5. /\ result' \subseteq Sentinels
      /\ result' = {} => next = 1
    BY <1>3, StartErrorFacts DEF Starting
<1>6. Len(inbox') = 0
    BY <1>2, <1>3
<1>7. pc' \in {"chunk", "done"} /\ (pc' = "chunk" <=> result' = {})
    OBVIOUS
<1>8. TypeOK'
    BY <1>4, <1>5, <1>7 DEF TypeOK
<1>9. MaxUploadChunks \in Nat \ {0} /\ MaxUploadRetries \in Nat \ {0}
    BY ConstantFacts
<1>10. Phases'
    BY <1>1, <1>7, <1>9 DEF Phases
<1>11. Starting' /\ NextCallInStep'
    BY <1>7 DEF Starting, NextCallInStep
<1>12. Received'
    BY <1>1, <1>7 DEF Received, InLoop
<1>13. HandedOut'
  <2> SUFFICES ASSUME pc' = "chunk"
               PROVE  /\ \A p \in 1..Len(queue') : queue'[p].type = "chunk"
                      /\ \A p \in 1..Len(inbox') : inbox'[p].type = "chunk"
                      /\ \E f \in [0..Len(inbox') -> 0..Len(block')] : Counts(f)'
      BY <1>7 DEF HandedOut, InLoop
  <2>1. \A p \in 1..Len(queue') : queue'[p].type = "chunk"
      BY <1>3
  <2>2. \A p \in 1..Len(inbox') : FALSE
      BY <1>6, Positions, Zenon
  <2> DEFINE f == [p \in 0..0 |-> 0]
  <2>3. f \in [0..Len(inbox') -> 0..Len(block')]
      BY <1>2, <1>6
  <2>4. Len(payload') = 0
      BY <1>1
  <2>5. f[0] = Len(payload') /\ f[Len(inbox')] = next' - 1
      BY <1>5, <1>6, <1>7, <2>4
  <2> HIDE DEF f
  <2>6. Counts(f)'
      BY <2>2, <2>5 DEF Counts
  <2> QED BY <2>1, <2>2, <2>3, <2>6
<1>14. Budget'
  <2>1. 0 * MaxUploadRetries = 0 /\ MaxUploadChunks * MaxUploadRetries \in Nat
      BY <1>9, ConstantFacts
  <2> QED BY <1>1, <1>7, <2>1 DEF Budget
<1> QED BY <1>4, <1>8, <1>10, <1>11, <1>12, <1>13, <1>14

LEMMA StartTimesOutIInv ==
    ASSUME IInv, StartTimesOut
    PROVE  IInv'
<1> USE DEF IInv, StartTimesOut, devVars, loopVars
<1>1. requests = 1 /\ payload = <<>>
    BY DEF Phases
<1>2. result' \subseteq Sentinels /\ result' # {}
    BY TransportErrorFacts
<1>3. TypeOK'
    BY <1>2 DEF TypeOK
<1>4. Phases' /\ Starting' /\ HandedOut' /\ NextCallInStep'
    BY <1>1, <1>2 DEF Phases, Starting, HandedOut, InLoop, NextCallInStep
<1>5. Received'
    BY <1>2 DEF Received, InLoop
<1>6. RefsInOrder'
    BY DEF RefsInOrder, InOrder, Flight, FlightRef
<1>7. Budget'
  <2>1. MaxUploadChunks * MaxUploadRetries \in Nat
      BY ConstantFacts
  <2> QED BY <1>1, <2>1 DEF Budget
<1> QED BY <1>3, <1>4, <1>5, <1>6, <1>7

\* The loop gives up before the attempt, or at its last chunk.
LEMMA LoopEndsIInv ==
    ASSUME IInv, Cancelled \/ TooManyChunks
    PROVE  IInv'
<1>1. PICK err \in SUBSET Sentinels : err # {} /\ Return(err)
  <2>1. {"deadline"} \in SUBSET Sentinels /\ {"canceled"} \in SUBSET Sentinels /\ {"io"} \in SUBSET Sentinels
      BY DEF Sentinels
  <2> QED BY <2>1 DEF Cancelled, TooManyChunks, Incomplete
<1>2. InLoop
    BY DEF Cancelled, TooManyChunks, InLoop
<1>3. UNCHANGED <<devVars, ref, loopVars, requests, ended, queue, inbox, nextErr>>
    BY DEF Cancelled, TooManyChunks
<1>4. RefsInOrder'
    BY <1>3 DEF IInv, RefsInOrder, InOrder, Flight, FlightRef
<1>5. requests' \in Nat /\ requests' <= MaxUploadChunks * MaxUploadRetries + 1
    BY <1>2, <1>3, LoopRoom, TypeFacts DEF IInv
<1> QED BY <1>1, <1>2, <1>3, <1>4, <1>5, LoopFails DEF IInv, TypeOK

\* An attempt that fails ends the call or goes back to the loop; a frame that
\* was read ends it.
LEMMA AttemptFailsIInv ==
    ASSUME IInv, InLoop, i < MaxUploadChunks, NEW err \in SUBSET Sentinels, err # {},
           AttemptFails(err), UNCHANGED <<devVars, ended, nextErr, queue>>,
           ref' \in 0..(RefModulus - 1), inbox' \in Seq(Frames), RefsInOrder',
           requests' \in Nat, requests' <= i * MaxUploadRetries + attempt + 2,
           UNCHANGED inbox \/ isUploadProtocolError(err)
    PROVE  IInv'
<1>1. /\ i * MaxUploadRetries \in Nat /\ MaxUploadChunks * MaxUploadRetries \in Nat
      /\ i * MaxUploadRetries + attempt + 1 <= MaxUploadChunks * MaxUploadRetries
      /\ attempt \in Nat
    BY LoopBudget, ConstantFacts, TypeFacts DEF IInv
<1>2. requests' <= MaxUploadChunks * MaxUploadRetries + 1
  <2> DEFINE a == i * MaxUploadRetries
             b == MaxUploadChunks * MaxUploadRetries
  <2>1. a \in Nat /\ b \in Nat /\ a + attempt + 1 <= b /\ requests' <= a + attempt + 2
      BY <1>1
  <2> HIDE DEF a, b
  <2>2. requests' <= b + 1
      BY <1>1, <2>1
  <2> QED BY <2>2 DEF b
<1>3. CASE Return(err) /\ UNCHANGED loopVars
    BY <1>2, <1>3, LoopFails DEF IInv, TypeOK
<1>4. CASE /\ ~isUploadProtocolError(err) /\ attempt + 1 # MaxUploadRetries
           /\ pc' = "chunk" /\ attempt' = attempt + 1
           /\ UNCHANGED <<i, payload, chunkCount, result>>
  <2> USE DEF IInv, devVars
  <2>1. UNCHANGED inbox
      BY <1>4
  <2>2. attempt' \in 0..(MaxUploadRetries - 1)
    <3>1. attempt + 1 <= MaxUploadRetries /\ MaxUploadRetries \in Nat
        BY TypeFacts, ConstantFacts
    <3> QED BY <1>1, <1>4, <3>1
  <2>3. TypeOK'
      BY <1>4, <2>1, <2>2 DEF TypeOK
  <2>4. Phases' /\ Starting' /\ NextCallInStep'
    <3>1. i \in Nat /\ MaxUploadChunks \in Nat /\ i # MaxUploadChunks
        BY TypeFacts, ConstantFacts DEF TypeOK
    <3> QED BY <1>4, <3>1 DEF Phases, InLoop, Starting, NextCallInStep
  <2>5. Received'
      BY <1>4 DEF Received, InLoop
  <2>6. HandedOut'
      BY <1>4, <2>1 DEF HandedOut, InLoop, Counts
  <2>7. Budget'
    <3>1. i' * MaxUploadRetries + attempt' + 1 = i * MaxUploadRetries + attempt + 2
      <4> DEFINE a == i * MaxUploadRetries
      <4>1. a \in Nat
          BY <1>1
      <4>2. i' * MaxUploadRetries = a
          BY <1>4
      <4> HIDE DEF a
      <4>3. a + (attempt + 1) + 1 = a + attempt + 2
          BY <1>1, <4>1
      <4> QED BY <1>4, <4>2, <4>3 DEF a
    <3> QED BY <1>4, <3>1 DEF Budget
  <2> QED BY <2>3, <2>4, <2>5, <2>6, <2>7
<1> QED BY <1>3, <1>4 DEF AttemptFails

\* The next chunk is asked for, or the request is not sent.
LEMMA RequestChunkIInv ==
    ASSUME IInv, RequestChunk
    PROVE  IInv'
<1>1. /\ pc = "chunk" /\ InLoop /\ i < MaxUploadChunks
      /\ UNCHANGED <<devVars, ended, inbox, nextErr>>
    BY DEF RequestChunk, InLoop
<1>2. requests + 1 <= RefModulus /\ requests \in Nat /\ attempt \in Nat
    BY <1>1, LoopRoom, TypeFacts DEF IInv
<1>3. requests' = requests + 1
    BY DEF RequestChunk, SendRequest, SendNothing
<1>4. /\ RefsInOrder' /\ ref' \in 0..(RefModulus - 1)
      /\ requests' \in Nat /\ queue' \in Seq(Messages)
    BY <1>1, <1>2, SendInOrder DEF IInv, RequestChunk, SendRequest, SendNothing, Types
<1>5. requests' <= i * MaxUploadRetries + attempt + 2
  <2> DEFINE a == i * MaxUploadRetries
  <2>1. a \in Nat /\ requests <= a + attempt + 1
      BY <1>1, LoopBudget DEF IInv, Budget
  <2> HIDE DEF a
  <2>2. requests' <= a + attempt + 2
      BY <1>2, <1>3, <2>1
  <2> QED BY <2>2 DEF a
<1>6. CASE SendRequest("chunk", "chunkWait") /\ UNCHANGED <<loopVars, result>>
  <2> USE DEF IInv, devVars, loopVars
  <2>1. pc' = "chunkWait"
      BY <1>6 DEF SendRequest
  <2>2. TypeOK'
      BY <1>1, <1>4, <1>6, <2>1 DEF TypeOK
  <2>3. Phases' /\ Starting' /\ NextCallInStep'
      BY <1>1, <1>6, <2>1 DEF Phases, Starting, NextCallInStep
  <2>4. Received'
      BY <1>1, <1>6, <2>1 DEF Received, InLoop
  <2>5. HandedOut'
    <3>1. queue \in Seq(Messages) /\ \A p \in 1..Len(queue) : queue[p].type = "chunk"
        BY <1>1, TypeFacts DEF HandedOut
    <3> DEFINE new == [type |-> "chunk", ref |-> (ref + 1) % RefModulus]
    <3>2. queue' = Append(queue, new) /\ new.type = "chunk"
        BY <1>6 DEF SendRequest
    <3> HIDE DEF new
    <3>3. \A p \in 1..Len(queue') : queue'[p].type = "chunk"
        BY <3>1, <3>2
    <3>4. \A f : Counts(f) => Counts(f)'
        BY <1>1, <1>6 DEF Counts
    <3> QED BY <1>1, <1>6, <3>3, <3>4 DEF HandedOut
  <2>6. Budget'
      BY <1>5, <1>6, <2>1 DEF Budget
  <2> QED BY <1>4, <2>2, <2>3, <2>4, <2>5, <2>6
<1>7. CASE SendNothing /\ \E err \in TransportErrors : AttemptFails(err)
  <2>1. PICK err \in SUBSET Sentinels : err # {} /\ AttemptFails(err)
      BY <1>7, TransportErrorFacts
  <2>2. UNCHANGED queue
      BY <1>7 DEF SendNothing
  <2>3. inbox' \in Seq(Frames)
      BY <1>1, TypeFacts DEF IInv
  <2> QED BY <1>1, <1>4, <1>5, <2>1, <2>2, <2>3, AttemptFailsIInv
<1> QED BY <1>6, <1>7 DEF RequestChunk

LEMMA ChunkTimesOutIInv ==
    ASSUME IInv, ChunkTimesOut
    PROVE  IInv'
<1>1. /\ pc = "chunkWait" /\ InLoop /\ i < MaxUploadChunks
      /\ UNCHANGED <<devVars, ref, requests, ended, queue, inbox, nextErr>>
    BY DEF ChunkTimesOut, InLoop, IInv, Phases
<1>2. PICK err \in SUBSET Sentinels : err # {} /\ AttemptFails(err)
    BY TransportErrorFacts DEF ChunkTimesOut
<1>3. RefsInOrder'
    BY <1>1 DEF IInv, RefsInOrder, InOrder, Flight, FlightRef
<1>4. /\ requests' \in Nat /\ requests' <= i * MaxUploadRetries + attempt + 2
      /\ ref' \in 0..(RefModulus - 1) /\ inbox' \in Seq(Frames)
    BY <1>1 DEF IInv, Budget, TypeOK
<1> QED BY <1>1, <1>2, <1>3, <1>4, AttemptFailsIInv

\* ChunkAnswered, for a frame that is accepted.
AcceptChunk ==
    LET frame == Head(inbox)
    IN /\ payload' = Append(payload, frame.data)
       /\ chunkCount' = chunkCount + (IF frame.data # <<>> THEN 1 ELSE 0)
       /\ attempt' = 0
       /\ \/ /\ frame.done /\ UNCHANGED i
             /\ \E e \in {Incomplete, {}} : Return(e)
          \/ ~frame.done /\ i' = i + 1 /\ pc' = "chunk" /\ UNCHANGED result

\* The good answer at the head of the inbox is the chunk after those received.
LEMMA NextChunk ==
    ASSUME IInv, pc = "chunkWait", inbox # <<>>, Head(inbox).kind = "ok",
           payload' = Append(payload, Head(inbox).data)
    PROVE  /\ payload' \in Seq(Seq(Nat)) /\ Len(payload') = Len(payload) + 1
           /\ Len(payload') <= Len(block)
           /\ \A n \in 1..Len(payload') : payload'[n] = block[n]
           /\ Head(inbox).done = (Len(payload') = Len(block))
<1>1. /\ inbox \in Seq(Frames) /\ block \in Seq(Seq(Nat)) /\ Len(block) \in Nat
      /\ payload \in Seq(Seq(Nat)) /\ Len(payload) \in Nat
    BY TypeFacts DEF IInv
<1>2. Head(inbox) = inbox[1] /\ Len(inbox) \in Nat \ {0} /\ Head(inbox) \in Frames
    BY <1>1
<1>3. PICK f \in [0..Len(inbox) -> 0..Len(block)] : Counts(f)
    BY DEF IInv, HandedOut, InLoop
<1>4. 1 \in 1..Len(inbox) /\ 1 - 1 = 0 /\ 1 \in 0..Len(inbox)
    BY <1>2
<1>5. /\ f[1] = Len(payload) + 1 /\ f[1] \in 0..Len(block)
      /\ Head(inbox).data = block[f[1]]
      /\ Head(inbox).done = (f[1] = Len(block))
    BY <1>2, <1>3, <1>4 DEF Counts
<1>6. Head(inbox).data \in Seq(Nat)
    BY <1>2 DEF Frames
<1> DEFINE d == Head(inbox).data
<1>7. d \in Seq(Nat) /\ payload' = Append(payload, d) /\ d = block[Len(payload) + 1]
    BY <1>5, <1>6
<1> HIDE DEF d
<1>8. payload' \in Seq(Seq(Nat)) /\ Len(payload') = Len(payload) + 1
    BY <1>1, <1>7
<1>9. \A n \in 1..Len(payload) : payload[n] = block[n]
    BY DEF IInv, Received
<1>10. \A n \in 1..Len(payload') : payload'[n] = block[n]
    BY <1>1, <1>7, <1>8, <1>9
<1>11. Len(payload') <= Len(block)
    BY <1>1, <1>5, <1>8
<1>12. Head(inbox).done = (Len(payload') = Len(block))
    BY <1>5, <1>8, Zenon
<1> QED BY <1>8, <1>10, <1>11, <1>12, Zenon

LEMMA ChunkAnsweredIInv ==
    ASSUME IInv, ChunkAnswered
    PROVE  IInv'
<1> DEFINE frame == Head(inbox)
           err   == ChunkError(frame)
<1>1. /\ pc = "chunkWait" /\ InLoop /\ i < MaxUploadChunks /\ inbox # <<>> /\ inbox' = Tail(inbox)
      /\ UNCHANGED <<devVars, ref, requests, ended, queue, nextErr>> /\ result = {}
    BY DEF ChunkAnswered, InLoop, IInv, Phases
<1>2. RefsInOrder' /\ inbox' \in Seq(Frames)
    BY <1>1, ReadInOrder DEF IInv
<1>3. inbox \in Seq(Frames) /\ i \in Nat /\ attempt \in Nat /\ chunkCount \in Nat
      /\ Len(payload) \in Nat
    BY TypeFacts DEF IInv
<1>4. frame \in Frames
    BY <1>1, <1>3
<1>5. /\ requests' \in Nat /\ requests' <= i * MaxUploadRetries + attempt + 2
      /\ ref' \in 0..(RefModulus - 1) /\ queue' \in Seq(Messages)
    BY <1>1 DEF IInv, Budget, TypeOK
<1>6. CASE err # {} /\ AttemptFails(err)
  <2>1. err \in SUBSET Sentinels /\ isUploadProtocolError(err)
      BY <1>4, <1>6, ChunkErrorFacts
  <2> HIDE DEF err
  <2> QED BY <1>1, <1>2, <1>5, <1>6, <2>1, AttemptFailsIInv
<1>7. CASE err = {} /\ AcceptChunk
  <2>1. frame.kind = "ok"
      BY <1>4, <1>7, ChunkErrorFacts
  <2>2. /\ payload' = Append(payload, frame.data)
        /\ chunkCount' = chunkCount + (IF frame.data # <<>> THEN 1 ELSE 0)
        /\ attempt' = 0
      BY <1>7 DEF AcceptChunk
  <2>3. /\ payload' \in Seq(Seq(Nat)) /\ Len(payload') = Len(payload) + 1
        /\ Len(payload') <= Len(block)
        /\ \A n \in 1..Len(payload') : payload'[n] = block[n]
        /\ frame.done = (Len(payload') = Len(block))
      BY <1>1, <2>1, <2>2, NextChunk
  <2>4. Len(payload) = i /\ chunkCount <= Len(payload)
      BY <1>1 DEF IInv, Received
  <2>5. MaxUploadChunks \in Nat \ {0} /\ MaxUploadRetries \in Nat \ {0}
      BY ConstantFacts
  <2>6. Len(payload') <= MaxUploadChunks /\ Len(payload') = i + 1
      BY <1>1, <1>3, <2>3, <2>4, <2>5
  <2>7. chunkCount' <= Len(payload') /\ chunkCount' \in 0..MaxUploadChunks
    <3>1. chunkCount' \in {chunkCount, chunkCount + 1}
      <4>1. CASE frame.data = <<>>
        <5>1. chunkCount' = chunkCount + 0
            BY <2>2, <4>1, Zenon
        <5> QED BY <1>3, <5>1
      <4>2. CASE frame.data # <<>>
        <5>1. chunkCount' = chunkCount + 1
            BY <2>2, <4>2, Zenon
        <5> QED BY <5>1
      <4> QED BY <4>1, <4>2
    <3> QED BY <1>3, <2>3, <2>4, <2>5, <2>6, <3>1
  <2>8. attempt' \in 0..(MaxUploadRetries - 1)
      BY <2>2, <2>5
  <2>9. CASE frame.done /\ UNCHANGED i /\ \E e \in {Incomplete, {}} : Return(e)
    <3>1. PICK e \in {Incomplete, {}} : Return(e)
        BY <2>9
    <3>2. e \in SUBSET Sentinels
        BY DEF Incomplete, Sentinels
    <3>3. requests' <= MaxUploadChunks * MaxUploadRetries + 1
        BY <1>1, LoopRoom
    <3>4. i' \in 0..MaxUploadChunks
        BY <2>9 DEF IInv, TypeOK
    <3>5. Len(payload') = Len(block)
        BY <2>3, <2>9
    <3> QED BY <1>1, <1>2, <1>5, <2>3, <2>6, <2>7, <2>8, <3>1, <3>2, <3>3, <3>4, <3>5, LoopReturns
  <2>10. CASE ~frame.done /\ i' = i + 1 /\ pc' = "chunk" /\ UNCHANGED result
    <3> USE DEF IInv, devVars
    <3>1. TypeOK'
      <4>1. i' \in 0..MaxUploadChunks
          BY <1>1, <1>3, <2>5, <2>10
      <4> QED BY <1>1, <1>2, <2>3, <2>7, <2>8, <2>10, <4>1 DEF TypeOK
    <3>2. Phases' /\ Starting' /\ NextCallInStep'
        BY <1>1, <2>2, <2>10 DEF Phases, Starting, NextCallInStep
    <3>3. Received'
        BY <1>1, <2>3, <2>6, <2>7, <2>10 DEF Received, InLoop
    <3>4. HandedOut'
      <4>1. /\ \A p \in 1..Len(queue) : queue[p].type = "chunk"
            /\ \A p \in 1..Len(inbox) : inbox[p].type = "chunk"
          BY <1>1 DEF HandedOut
      <4>2. PICK f \in [0..Len(inbox) -> 0..Len(block)] : Counts(f)
          BY <1>1 DEF HandedOut
      <4>3. /\ Len(inbox) \in Nat \ {0} /\ Len(inbox') = Len(inbox) - 1
            /\ \A p \in 1..Len(inbox') : p + 1 \in 1..Len(inbox) /\ inbox'[p] = inbox[p + 1]
            /\ inbox[1] = frame
          BY <1>1, <1>3
      <4> DEFINE g == [p \in 0..(Len(inbox) - 1) |-> f[p + 1]]
      <4>4. g \in [0..Len(inbox') -> 0..Len(block')]
          BY <1>1, <4>2, <4>3
      <4>5. g[0] = Len(payload')
        <5>1. f[1] = f[0] + 1 /\ f[0] = Len(payload)
          <6>1. 1 \in 1..Len(inbox) /\ 1 - 1 = 0
              BY <4>3
          <6> QED BY <2>1, <4>2, <4>3, <6>1 DEF Counts
        <5>2. g[0] = f[1]
            BY <4>3
        <5> QED BY <2>3, <5>1, <5>2
      <4>6. g[Len(inbox')] = next' - 1
        <5>1. g[Len(inbox')] = f[Len(inbox)]
            BY <4>3
        <5> QED BY <1>1, <4>2, <5>1 DEF Counts
      <4>7. ASSUME NEW p \in 1..Len(inbox')
            PROVE  IF inbox'[p].kind = "ok"
                   THEN /\ g[p] = g[p - 1] + 1
                        /\ inbox'[p].data = block'[g[p]]
                        /\ inbox'[p].done = (g[p] = Len(block'))
                   ELSE g[p] = g[p - 1]
        <5>1. p + 1 \in 1..Len(inbox) /\ inbox'[p] = inbox[p + 1]
            BY <4>3
        <5>2. g[p] = f[p + 1] /\ g[p - 1] = f[p] /\ (p + 1) - 1 = p
            BY <4>3
        <5> HIDE DEF g
        <5>3. IF inbox[p + 1].kind = "ok"
              THEN /\ f[p + 1] = f[(p + 1) - 1] + 1
                   /\ inbox[p + 1].data = block[f[p + 1]]
                   /\ inbox[p + 1].done = (f[p + 1] = Len(block))
              ELSE f[p + 1] = f[(p + 1) - 1]
            BY <4>2, <5>1 DEF Counts
        <5>4. block' = block
            BY <1>1
        <5> QED BY <5>1, <5>2, <5>3, <5>4
      <4> HIDE DEF g
      <4>8. PICK h : h = g
          OBVIOUS
      <4>9. Counts(h)'
          BY <4>5, <4>6, <4>7, <4>8 DEF Counts
      <4>10. \A p \in 1..Len(inbox') : inbox'[p].type = "chunk"
          BY <4>1, <4>3
      <4> QED BY <1>1, <4>1, <4>4, <4>8, <4>9, <4>10 DEF HandedOut
    <3>5. Budget'
      <4> DEFINE a == i * MaxUploadRetries
                 b == i' * MaxUploadRetries
      <4>1. a \in Nat /\ b = a + MaxUploadRetries /\ requests' <= a + attempt + 2
          BY <1>1, <1>5, <2>10, LoopBudget
      <4>2. attempt + 1 <= MaxUploadRetries
          BY TypeFacts
      <4>3. pc' = "chunk" /\ attempt' = 0
          BY <2>2, <2>10
      <4> HIDE DEF a, b
      <4>4. requests' <= b + 0 + 1
          BY <1>3, <1>5, <2>5, <4>1, <4>2
      <4> QED BY <4>3, <4>4 DEF Budget, b
    <3> QED BY <1>2, <3>1, <3>2, <3>3, <3>4, <3>5
  <2> QED BY <1>7, <2>9, <2>10 DEF AcceptChunk
<1> QED BY <1>6, <1>7 DEF ChunkAnswered, AcceptChunk

\* After the loop neither what was received nor the result changes.
LEMMA AfterLoop ==
    ASSUME IInv, pc \in {"end", "endWait", "done", "nextWait"},
           pc' \in {"endWait", "done", "nextWait", "over"},
           UNCHANGED <<devVars, loopVars, result>>,
           ref' \in 0..(RefModulus - 1), requests' \in Nat, ended', nextErr' \subseteq Sentinels,
           queue' \in Seq(Messages), inbox' \in Seq(Frames), RefsInOrder', NextCallInStep',
           pc' = "endWait" \/ pc' = "done" => requests' <= MaxUploadChunks * MaxUploadRetries + 2,
           requests' <= MaxUploadChunks * MaxUploadRetries + 3
    PROVE  IInv'
<1> USE DEF IInv, devVars, loopVars
<1>1. ended' = TRUE \/ ended' \in BOOLEAN
    BY DEF TypeOK
<1>2. TypeOK'
    BY <1>1 DEF TypeOK
<1>3. Phases' /\ Starting' /\ HandedOut' /\ Budget'
    BY DEF Phases, Starting, HandedOut, InLoop, Budget
<1>4. Received'
    BY DEF Received, InLoop
<1> QED BY <1>2, <1>3, <1>4

\* The session is ended, or the request to end it is not sent.
LEMMA EndUploadIInv ==
    ASSUME IInv, EndUpload
    PROVE  IInv'
<1> DEFINE b == MaxUploadChunks * MaxUploadRetries
<1>1. requests \in Nat /\ requests <= b + 1 /\ b \in Nat /\ RefModulus \in Nat /\ b + 3 <= RefModulus
    BY TypeFacts, ConstantFacts DEF IInv, EndUpload, Budget
<1>2. requests' = requests + 1
    BY DEF EndUpload, SendRequest, SendNothing
<1> HIDE DEF b
<1>3. requests + 1 <= RefModulus /\ requests' <= b + 2 /\ requests' <= b + 3
    BY <1>1, <1>2
<1>4. /\ RefsInOrder' /\ ref' \in 0..(RefModulus - 1)
      /\ requests' \in Nat /\ queue' \in Seq(Messages)
    BY <1>3, SendInOrder DEF IInv, EndUpload, SendRequest, SendNothing, Types
<1>5. /\ pc = "end" /\ pc' \in {"endWait", "done"} /\ ended' = TRUE
      /\ UNCHANGED <<devVars, loopVars, result, inbox, nextErr>>
    BY DEF EndUpload, SendRequest, SendNothing
<1>6. nextErr' \subseteq Sentinels /\ inbox' \in Seq(Frames)
    BY <1>5 DEF IInv, TypeOK
<1>7. NextCallInStep'
    BY <1>5 DEF NextCallInStep
<1> QED BY <1>3, <1>4, <1>5, <1>6, <1>7, AfterLoop DEF b

\* The end-upload is answered or given up.
LEMMA EndWaitIInv ==
    ASSUME IInv, EndAnswered \/ EndTimesOut
    PROVE  IInv'
<1> DEFINE b == MaxUploadChunks * MaxUploadRetries
<1>1. /\ pc = "endWait" /\ pc' = "done"
      /\ UNCHANGED <<devVars, ref, loopVars, result, requests, ended, queue, nextErr>>
      /\ UNCHANGED inbox \/ (inbox # <<>> /\ inbox' = Tail(inbox))
    BY DEF EndAnswered, EndTimesOut
<1>2. ended /\ requests <= b + 2 /\ b \in Nat /\ requests \in Nat
    BY <1>1, ConstantFacts, TypeFacts DEF IInv, Phases, Budget
<1> HIDE DEF b
<1>3. RefsInOrder' /\ inbox' \in Seq(Frames)
  <2>1. CASE UNCHANGED inbox
      BY <1>1, <2>1 DEF IInv, TypeOK, RefsInOrder, InOrder, Flight, FlightRef
  <2>2. CASE inbox # <<>> /\ inbox' = Tail(inbox)
      BY <1>1, <2>2, ReadInOrder DEF IInv
  <2> QED BY <1>1, <2>1, <2>2
<1>4. /\ ref' \in 0..(RefModulus - 1) /\ requests' \in Nat /\ nextErr' \subseteq Sentinels
      /\ queue' \in Seq(Messages)
    BY <1>1 DEF IInv, TypeOK
<1>5. requests' <= b + 2 /\ requests' <= b + 3 /\ ended'
    BY <1>1, <1>2
<1>6. NextCallInStep'
    BY <1>1 DEF NextCallInStep
<1> QED BY <1>1, <1>3, <1>4, <1>5, <1>6, AfterLoop DEF b

\* The next call sends its request, or fails to.
LEMMA NextCallIInv ==
    ASSUME IInv, NextCall
    PROVE  IInv'
<1> DEFINE b == MaxUploadChunks * MaxUploadRetries
<1>1. /\ pc = "done" /\ result = {} /\ pc' \in {"nextWait", "over"}
      /\ UNCHANGED <<devVars, loopVars, result, ended, inbox>>
      /\ pc' = "over" => nextErr' \in TransportErrors
      /\ pc' # "over" => UNCHANGED nextErr
      /\ requests' = requests + 1
    BY DEF NextCall, SendRequest, SendNothing
<1>2. /\ requests \in Nat /\ requests <= b + 2 /\ b \in Nat /\ RefModulus \in Nat
      /\ b + 3 <= RefModulus /\ ended
    BY <1>1, TypeFacts, ConstantFacts DEF IInv, Budget, Phases
<1> HIDE DEF b
<1>3. requests + 1 <= RefModulus /\ requests' <= b + 3
    BY <1>1, <1>2
<1>4. /\ RefsInOrder' /\ ref' \in 0..(RefModulus - 1)
      /\ requests' \in Nat /\ queue' \in Seq(Messages)
    BY <1>3, SendInOrder DEF IInv, NextCall, SendRequest, SendNothing, Types
<1>5. nextErr' \subseteq Sentinels /\ (pc' = "over" => nextErr' # {})
    BY <1>1, TransportErrorFacts DEF IInv, TypeOK
<1>6. NextCallInStep'
    BY <1>5 DEF NextCallInStep
<1>7. inbox' \in Seq(Frames) /\ ended'
    BY <1>1, <1>2 DEF IInv, TypeOK
<1> QED BY <1>1, <1>3, <1>4, <1>5, <1>6, <1>7, AfterLoop DEF b

\* An answer with the reference of the newest request is the last thing in
\* flight.
LEMMA YoungestIsLast ==
    ASSUME IInv, inbox # <<>>, Head(inbox).ref = ref
    PROVE  Len(inbox) = 1 /\ Len(queue) = 0
<1>1. inbox \in Seq(Frames) /\ queue \in Seq(Messages)
    BY TypeFacts DEF IInv
<1>2. Len(inbox) \in Nat \ {0} /\ Len(queue) \in Nat /\ Head(inbox) = inbox[1] /\ Flight \in Nat \ {0}
    BY <1>1 DEF Flight
<1>3. 1 \in 1..Flight /\ FlightRef[1] = ref
    BY <1>2 DEF FlightRef
<1>4. ref \in 0..(RefModulus - 1) /\ RefModulus \in Nat /\ Age(ref, ref) = 0
    BY ConstantFacts DEF IInv, TypeOK, Age
<1>5. ASSUME Flight # 1 PROVE FALSE
  <2>1. 2 \in 1..Flight /\ 1 < 2
      BY <1>2, <1>5
  <2>2. Age(ref, FlightRef[1]) > Age(ref, FlightRef[2]) /\ FlightRef[2] \in 0..(RefModulus - 1)
      BY <1>3, <2>1 DEF IInv, RefsInOrder, InOrder
  <2>3. Age(ref, FlightRef[2]) >= 0 /\ Age(ref, FlightRef[2]) \in Int
      BY <1>4, <2>2 DEF Age
  <2> QED BY <1>3, <1>4, <2>2, <2>3
<1>6. Len(queue) + Len(inbox) <= 1
    BY <1>2, <1>5 DEF Flight
<1> QED BY <1>2, <1>6, Positions, Zenon

LEMMA NextAnsweredIInv ==
    ASSUME IInv, NextAnswered
    PROVE  IInv'
<1>1. /\ pc = "nextWait" /\ pc' = "over" /\ inbox # <<>> /\ inbox' = Tail(inbox)
      /\ UNCHANGED <<devVars, ref, loopVars, result, requests, ended, queue>>
      /\ nextErr' = ResponseError(Head(inbox), ref)
    BY DEF NextAnswered
<1>2. inbox \in Seq(Frames) /\ queue \in Seq(Messages)
    BY TypeFacts DEF IInv
<1>3. Head(inbox) \in Frames
    BY <1>1, <1>2
<1>4. /\ nextErr' \subseteq Sentinels
      /\ nextErr' = {} /\ ref # 0 => Head(inbox).ref = ref
    BY <1>1, <1>3 DEF ResponseError, Frames, Sentinels, ErrProtocolFailure, PDURefMismatchError
<1>5. NextCallInStep'
  <2> SUFFICES ASSUME nextErr' = {}, ref # 0 PROVE queue = <<>> /\ inbox' = <<>>
      BY <1>1 DEF NextCallInStep
  <2>1. Len(inbox) = 1 /\ Len(queue) = 0
      BY <1>1, <1>4, YoungestIsLast
  <2> QED BY <1>1, <1>2, <2>1
<1>6. RefsInOrder' /\ inbox' \in Seq(Frames)
    BY <1>1, ReadInOrder DEF IInv
<1>7. /\ ref' \in 0..(RefModulus - 1) /\ requests' \in Nat /\ queue' \in Seq(Messages)
      /\ requests' <= MaxUploadChunks * MaxUploadRetries + 3 /\ ended'
    BY <1>1 DEF IInv, TypeOK, Budget, Phases
<1> QED BY <1>1, <1>4, <1>5, <1>6, <1>7, AfterLoop

LEMMA NextTimesOutIInv ==
    ASSUME IInv, NextTimesOut
    PROVE  IInv'
<1>1. /\ pc = "nextWait" /\ pc' = "over"
      /\ UNCHANGED <<devVars, ref, loopVars, result, requests, ended, queue, inbox>>
      /\ nextErr' \in TransportErrors
    BY DEF NextTimesOut
<1>2. nextErr' \subseteq Sentinels /\ NextCallInStep'
    BY <1>1, TransportErrorFacts DEF NextCallInStep
<1>3. RefsInOrder' /\ inbox' \in Seq(Frames)
    BY <1>1 DEF IInv, TypeOK, RefsInOrder, InOrder, Flight, FlightRef
<1>4. /\ ref' \in 0..(RefModulus - 1) /\ requests' \in Nat /\ queue' \in Seq(Messages)
      /\ requests' <= MaxUploadChunks * MaxUploadRetries + 3 /\ ended'
    BY <1>1 DEF IInv, TypeOK, Budget, Phases
<1> QED BY <1>1, <1>2, <1>3, <1>4, AfterLoop

\* The device has served a request, with answer a if it answers it.
Served(a) ==
    /\ a \in Frames /\ a.type = Head(queue).type /\ a.ref = Head(queue).ref
    /\ \/ UNCHANGED <<inbox, next>>
       \/ /\ inbox' = Append(inbox, a)
          /\ a.kind # "ok" => UNCHANGED next
          /\ a.kind = "ok" /\ a.type = "start" => next' = 1
          /\ a.kind = "ok" /\ a.type = "chunk" =>
                /\ next \in 1..Len(block) /\ next' = next + 1
                /\ a.data = block[next] /\ a.done = (next = Len(block))

LEMMA ServedAnswer ==
    ASSUME IInv, Serve
    PROVE  (\E a : Served(a)) /\ next' \in 0..(Len(block) + 1)
<1>1. queue \in Seq(Messages) /\ block \in Seq(Seq(Nat)) /\ Len(block) \in Nat \ {0}
      /\ next \in 0..(Len(block) + 1)
    BY TypeFacts DEF IInv
<1> DEFINE q == Head(queue)
<1>2. q \in Messages
    BY <1>1 DEF Serve
<1>3. <<>> \in Seq(Nat) /\ FALSE \in BOOLEAN
    OBVIOUS
<1>4. CASE q.type = "start" /\ Answer(q, "ok", <<>>, FALSE) /\ next' = 1
  <2> DEFINE a == [type |-> q.type, ref |-> q.ref, kind |-> "ok", data |-> <<>>, done |-> FALSE]
  <2>1. a \in Frames /\ a.type = q.type /\ a.ref = q.ref /\ a.kind = "ok"
      BY <1>2, <1>3 DEF Messages, Frames
  <2>2. inbox' = Append(inbox, a)
      BY <1>4 DEF Answer
  <2> HIDE DEF a
  <2>3. Served(a)
      BY <1>4, <2>1, <2>2 DEF Served
  <2> QED BY <1>1, <1>4, <2>3
<1>5. CASE /\ q.type = "chunk" /\ next \in 1..Len(block)
           /\ Answer(q, "ok", block[next], next = Len(block)) /\ next' = next + 1
  <2> DEFINE a == [type |-> q.type, ref |-> q.ref, kind |-> "ok", data |-> block[next],
                   done |-> (next = Len(block))]
  <2>1. block[next] \in Seq(Nat)
      BY <1>1, <1>5
  <2>2. a \in Frames /\ a.type = q.type /\ a.ref = q.ref /\ a.kind = "ok"
      BY <1>2, <2>1 DEF Messages, Frames
  <2>3. a.data = block[next] /\ a.done = (next = Len(block))
      OBVIOUS
  <2>4. inbox' = Append(inbox, a)
      BY <1>5 DEF Answer
  <2> HIDE DEF a
  <2>5. Served(a)
      BY <1>5, <2>2, <2>3, <2>4 DEF Served
  <2>6. next' \in 0..(Len(block) + 1)
      BY <1>1, <1>5
  <2> QED BY <2>5, <2>6
<1>6. CASE \E k \in {"s7err", "badBody"} : Answer(q, k, <<>>, FALSE) /\ UNCHANGED next
  <2>1. PICK k \in {"s7err", "badBody"} : Answer(q, k, <<>>, FALSE) /\ UNCHANGED next
      BY <1>6
  <2> DEFINE a == [type |-> q.type, ref |-> q.ref, kind |-> k, data |-> <<>>, done |-> FALSE]
  <2>2. a \in Frames /\ a.type = q.type /\ a.ref = q.ref /\ a.kind = k
      BY <1>2, <1>3, <2>1 DEF Messages, Frames
  <2>3. inbox' = Append(inbox, a)
      BY <2>1 DEF Answer
  <2> HIDE DEF a
  <2>4. Served(a)
      BY <2>1, <2>2, <2>3 DEF Served
  <2> QED BY <1>1, <2>1, <2>4
<1>7. CASE /\ q.type \in {"end", "other"} /\ Answer(q, "ok", <<>>, FALSE)
           /\ next' = 0 \/ UNCHANGED next
  <2> DEFINE a == [type |-> q.type, ref |-> q.ref, kind |-> "ok", data |-> <<>>, done |-> FALSE]
  <2>1. a \in Frames /\ a.type = q.type /\ a.ref = q.ref /\ a.kind = "ok"
      BY <1>2, <1>3 DEF Messages, Frames
  <2>2. inbox' = Append(inbox, a)
      BY <1>7 DEF Answer
  <2> HIDE DEF a
  <2>3. Served(a)
      BY <1>7, <2>1, <2>2 DEF Served
  <2> QED BY <1>1, <1>7, <2>3
<1>8. CASE UNCHANGED <<next, inbox>>
  <2> DEFINE a == [type |-> q.type, ref |-> q.ref, kind |-> "ok", data |-> <<>>, done |-> FALSE]
  <2>1. a \in Frames /\ a.type = q.type /\ a.ref = q.ref
      BY <1>2, <1>3 DEF Messages, Frames
  <2> HIDE DEF a
  <2>2. Served(a)
      BY <1>8, <2>1 DEF Served
  <2> QED BY <1>1, <1>8, <2>2
<1>9. \/ q.type = "start" /\ Answer(q, "ok", <<>>, FALSE) /\ next' = 1
      \/ /\ q.type = "chunk" /\ next \in 1..Len(block)
         /\ Answer(q, "ok", block[next], next = Len(block)) /\ next' = next + 1
      \/ \E k \in {"s7err", "badBody"} : Answer(q, k, <<>>, FALSE) /\ UNCHANGED next
      \/ /\ q.type \in {"end", "other"} /\ Answer(q, "ok", <<>>, FALSE)
         /\ next' = 0 \/ UNCHANGED next
      \/ UNCHANGED <<next, inbox>>
    BY DeviceAssumption DEF Serve
<1> HIDE DEF q
<1> QED BY <1>4, <1>5, <1>6, <1>7, <1>8, <1>9

\* Serving: the answer to the start of the session, the next chunk, or one that
\* no longer matters.
LEMMA ServeIInv ==
    ASSUME IInv, Serve
    PROVE  IInv'
<1> USE DEF IInv
<1>1. PICK a : Served(a)
    BY ServedAnswer
<1>2. /\ queue # <<>> /\ queue' = Tail(queue)
      /\ UNCHANGED <<pc, asked, bounded, block, session, ref, loopVars, result, requests, ended, nextErr>>
    BY DEF Serve
<1>3. /\ a \in Frames /\ a.type = Head(queue).type /\ a.ref = Head(queue).ref
      /\ UNCHANGED inbox \/ inbox' = Append(inbox, a)
    BY <1>1 DEF Served
<1>4. RefsInOrder' /\ inbox' \in Seq(Frames) /\ queue' \in Seq(Messages)
    BY <1>2, <1>3, ServeInOrder
<1>5. /\ queue \in Seq(Messages) /\ inbox \in Seq(Frames) /\ Len(block) \in Nat \ {0}
      /\ next \in 0..(Len(block) + 1)
    BY TypeFacts
<1>6. /\ Len(queue) \in Nat \ {0} /\ Len(queue') = Len(queue) - 1 /\ Head(queue) = queue[1]
      /\ \A p \in 1..Len(queue') : p + 1 \in 1..Len(queue) /\ queue'[p] = queue[p + 1]
      /\ Len(inbox) \in Nat
    BY <1>2, <1>5
<1>7. TypeOK'
    BY <1>2, <1>4, ServedAnswer DEF TypeOK, loopVars
<1>8. Phases'
    BY <1>2 DEF Phases, loopVars
<1>9. Starting'
  <2> SUFFICES ASSUME pc = "startWait"
               PROVE  /\ Len(queue') + Len(inbox') <= 1
                      /\ \A p \in 1..Len(queue') : queue'[p].type = "start"
                      /\ \A p \in 1..Len(inbox') : /\ inbox'[p].type = "start"
                                                   /\ inbox'[p].kind = "ok" => next' = 1
      BY <1>2, Zenon DEF Starting
  <2>1. Len(queue) + Len(inbox) <= 1 /\ queue[1].type = "start"
      BY <1>6 DEF Starting
  <2>2. Len(queue) = 1 /\ Len(inbox) = 0
      BY <1>6, <2>1, Positions
  <2>3. Len(queue') = 0
      BY <1>6, <2>2
  <2>4. CASE UNCHANGED inbox
      BY <2>2, <2>3, <2>4, Positions
  <2>5. CASE inbox' = Append(inbox, a) /\ (a.kind = "ok" => next' = 1)
    <3>1. Len(inbox') = 1 /\ inbox'[1] = a
        BY <1>3, <1>5, <2>2, <2>5
    <3>2. a.type = "start"
        BY <1>3, <1>6, <2>1
    <3> QED BY <2>3, <2>5, <3>1, <3>2, Positions
  <2>6. a.type = "start"
      BY <1>3, <1>6, <2>1
  <2> QED BY <1>1, <2>4, <2>5, <2>6 DEF Served
<1>10. Received'
    BY <1>2 DEF Received, InLoop, loopVars
<1>11. HandedOut'
  <2> SUFFICES ASSUME InLoop
               PROVE  /\ \A p \in 1..Len(queue') : queue'[p].type = "chunk"
                      /\ \A p \in 1..Len(inbox') : inbox'[p].type = "chunk"
                      /\ \E f \in [0..Len(inbox') -> 0..Len(block')] : Counts(f)'
      BY <1>2 DEF HandedOut, InLoop
  <2>1. /\ \A p \in 1..Len(queue) : queue[p].type = "chunk"
        /\ \A p \in 1..Len(inbox) : inbox[p].type = "chunk"
      BY DEF HandedOut
  <2>2. PICK f \in [0..Len(inbox) -> 0..Len(block)] : Counts(f)
      BY DEF HandedOut
  <2>3. a.type = "chunk" /\ \A p \in 1..Len(queue') : queue'[p].type = "chunk"
      BY <1>3, <1>6, <2>1
  <2>4. CASE UNCHANGED <<inbox, next>>
    <3>1. Counts(f)'
        BY <1>2, <2>2, <2>4 DEF Counts, loopVars
    <3> QED BY <1>2, <2>1, <2>2, <2>3, <2>4, <3>1
  <2>5. CASE /\ inbox' = Append(inbox, a)
             /\ a.kind # "ok" => UNCHANGED next
             /\ a.kind = "ok" => /\ next \in 1..Len(block) /\ next' = next + 1
                                 /\ a.data = block[next] /\ a.done = (next = Len(block))
    <3>1. /\ Len(inbox') = Len(inbox) + 1 /\ inbox'[Len(inbox) + 1] = a
          /\ \A p \in 1..Len(inbox) : inbox'[p] = inbox[p]
        BY <1>3, <1>5, <2>5
    <3>2. f[Len(inbox)] = next - 1 /\ f[Len(inbox)] \in 0..Len(block) /\ f[0] = Len(payload)
        BY <1>6, <2>2 DEF Counts
    <3>3. PICK g : g = [p \in 0..(Len(inbox) + 1) |-> IF p <= Len(inbox) THEN f[p] ELSE next' - 1]
        OBVIOUS
    <3>4. next' - 1 \in 0..Len(block)
        BY <1>5, <2>5, <3>2
    <3>5. g \in [0..Len(inbox') -> 0..Len(block')]
      <4>1. \A p \in 0..(Len(inbox) + 1) : p <= Len(inbox) => p \in 0..Len(inbox)
          BY <1>6
      <4> QED BY <1>2, <2>2, <3>1, <3>3, <3>4, <4>1
    <3>6. /\ \A p \in 0..Len(inbox) : g[p] = f[p]
          /\ g[Len(inbox) + 1] = next' - 1
        BY <1>6, <3>3
    <3>7. ASSUME NEW p \in 1..Len(inbox')
          PROVE  IF inbox'[p].kind = "ok"
                 THEN /\ g[p] = g[p - 1] + 1
                      /\ inbox'[p].data = block[g[p]]
                      /\ inbox'[p].done = (g[p] = Len(block))
                 ELSE g[p] = g[p - 1]
      <4>1. CASE p \in 1..Len(inbox)
        <5>1. inbox'[p] = inbox[p] /\ g[p] = f[p] /\ g[p - 1] = f[p - 1]
            BY <1>6, <3>1, <3>6, <4>1
        <5> QED BY <2>2, <4>1, <5>1 DEF Counts
      <4>2. CASE p = Len(inbox) + 1
        <5>1. inbox'[p] = a /\ g[p] = next' - 1 /\ g[p - 1] = next - 1
          <6>1. p - 1 = Len(inbox) /\ Len(inbox) \in 0..Len(inbox)
              BY <1>6, <4>2
          <6> QED BY <3>1, <3>2, <3>6, <4>2, <6>1
        <5>2. CASE a.kind = "ok"
          <6>1. g[p] = next
              BY <1>5, <2>5, <5>1, <5>2
          <6> QED BY <1>5, <2>5, <5>1, <5>2, <6>1
        <5> QED BY <2>5, <5>1, <5>2
      <4> QED BY <1>6, <3>1, <4>1, <4>2
    <3>8. g[0] = Len(payload')
        BY <1>2, <1>6, <3>2, <3>6 DEF loopVars
    <3>9. g[Len(inbox')] = next' - 1
        BY <3>1, <3>6
    <3>10. Counts(g)'
        BY <1>2, <3>7, <3>8, <3>9 DEF Counts
    <3>11. \A p \in 1..Len(inbox') : inbox'[p].type = "chunk"
        BY <1>6, <2>1, <2>3, <3>1
    <3> QED BY <2>3, <3>5, <3>10, <3>11
  <2> QED BY <1>1, <2>3, <2>4, <2>5 DEF Served
<1>12. Budget'
    BY <1>2 DEF Budget, loopVars
<1>13. NextCallInStep'
    BY <1>2 DEF NextCallInStep
<1> QED BY <1>4, <1>7, <1>8, <1>9, <1>10, <1>11, <1>12, <1>13

\* IInv is inductive.
LEMMA NextIInv ==
    ASSUME IInv, [Next]_vars
    PROVE  IInv'
<1>1. CASE UNCHANGED vars
  <2> USE <1>1 DEF vars, devVars, loopVars
  <2>1. TypeOK' /\ Phases' /\ NextCallInStep'
      BY DEF IInv, TypeOK, Phases, NextCallInStep
  <2>2. Starting' /\ Received'
      BY DEF IInv, Starting, Received, InLoop
  <2>3. HandedOut'
      BY DEF IInv, HandedOut, InLoop, Counts
  <2>4. RefsInOrder'
      BY DEF IInv, RefsInOrder, InOrder, Flight, FlightRef
  <2>5. Budget'
      BY DEF IInv, Budget
  <2> QED BY <2>1, <2>2, <2>3, <2>4, <2>5 DEF IInv
<1>2. CASE Upload \/ Following
    BY <1>2, StartUploadIInv, StartAnsweredIInv, StartTimesOutIInv, LoopEndsIInv, RequestChunkIInv,
       ChunkAnsweredIInv, ChunkTimesOutIInv, EndUploadIInv, EndWaitIInv, NextCallIInv,
       NextAnsweredIInv, NextTimesOutIInv DEF Upload, Following
<1>3. CASE Serve
    BY <1>3, ServeIInv
<1> QED BY <1>1, <1>2, <1>3 DEF Next

-----------------------------------------------------------------------------
(* The theorems *)

\* The inductive invariant holds in every reachable state, for any blocks and
\* any bounds: with it the types, the place of every chunk in flight and the
\* order of the references.
THEOREM UploadInvariance == Spec => []IInv
<1>1. Init => IInv
    BY InitIInv
<1>2. IInv /\ [Next]_vars => IInv'
    BY NextIInv
<1> QED BY <1>1, <1>2, PTL DEF Spec

\* A successful UploadBlock returns the whole block that was asked for, chunk
\* by chunk, however often chunks were retried and answers were late.
THEOREM UploadIsComplete == Spec => []UploadComplete
<1>1. IInv => UploadComplete
  <2> SUFFICES ASSUME IInv PROVE UploadComplete
      OBVIOUS
  <2>1. /\ block \in Seq(Seq(Nat)) /\ payload \in Seq(Seq(Nat)) /\ asked \in Blocks
        /\ block = ChunksOf[Named(typeChar(asked[1]), numStr(asked[2]))]
      BY TypeFacts DEF IInv, TypeOK
  <2>2. Len(payload) \in 0..Len(block) /\ \A n \in 1..Len(payload) : payload[n] = block[n]
      BY <2>1 DEF IInv, Received
  <2> DEFINE k == Len(payload)
  <2>3. payload = SubSeq(block, 1, k)
    <3>1. /\ SubSeq(block, 1, k) \in Seq(Seq(Nat)) /\ Len(SubSeq(block, 1, k)) = k
          /\ \A n \in 1..k : SubSeq(block, 1, k)[n] = block[n]
        BY <2>1, <2>2
    <3> QED BY <2>1, <2>2, <3>1, SeqEqual
  <2>4. Returned /\ result = {} => Len(payload) = Len(block)
      BY DEF IInv, Received, Returned
  <2>5. Len(payload) = Len(block) => payload = block
      BY <2>1, <2>2, SeqEqual
  <2>6. asked[1] # BlockTypeSDB => block = ChunksOf[asked]
      BY <2>1, NamedRight, Zenon
  <2> QED BY <2>2, <2>3, <2>4, <2>5, <2>6 DEF UploadComplete
<1> QED BY <1>1, UploadInvariance, PTL

\* The device's session is ended by every call that opened it, and nothing is
\* asked for after that.
THEOREM UploadEndsSession == Spec => []SessionEnded
<1>1. IInv => SessionEnded
    BY DEF IInv, TypeOK, Phases, SessionEnded, Returned
<1> QED BY <1>1, UploadInvariance, PTL

\* A call after a successful upload that succeeds read its own answer: the
\* answers of given-up requests carry references that are still in order.
THEOREM UploadNextCallInStep == Spec => []NextCallInStep
<1>1. IInv => NextCallInStep
    BY DEF IInv
<1> QED BY <1>1, UploadInvariance, PTL

\* An UploadBlock that returns has made at most MaxUploadRetries requests for
\* each of at most MaxUploadChunks chunks, one to start and one to end the
\* session, whatever the device answers or ignores: the safety part of
\* UploadReturns, and what keeps the references of one call apart.
THEOREM UploadRequestsBounded ==
    Spec => [](pc = "done" => requests <= MaxUploadChunks * MaxUploadRetries + 2)
<1>1. IInv => (pc = "done" => requests <= MaxUploadChunks * MaxUploadRetries + 2)
    BY DEF IInv, Budget
<1> QED BY <1>1, UploadInvariance, PTL
=============================================================================
