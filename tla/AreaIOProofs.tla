---------------------------- MODULE AreaIOProofs ----------------------------
(***************************************************************************)
(* Proofs about AreaIO, for any PDU sizes, any ranges and any answers of    *)
(* the device: IInv is inductive, and the safety properties follow from it. *)
(*                                                                         *)
(* References grow along the connection (InOrder), so an answer that is     *)
(* accepted is the only thing in flight: from the second chunk on a call is *)
(* alone on the connection, and what it has read or written cannot be       *)
(* changed any more by an earlier call.                                     *)
(***************************************************************************)
EXTENDS AreaIO, SequenceTheorems, TLAPS

Overhead == IF call.kind = "read" THEN ReadVarRequestOverhead ELSE WriteVarRequestOverhead

\* The bytes the call has still to ask for.
Rest == call.start + call.size - offset

\* The chunks still to do are those planReadChunks gives for the bytes left.
Planned ==
    /\ pc # "idle" => call.kind # "none"
    /\ call.kind # "none" => [start |-> call.start, size |-> call.size] \in Ranges
    /\ call.start <= offset /\ offset <= call.start + call.size
    /\ pc = "idle" => chunks = <<>>
    /\ pc # "idle" => chunks = planReadChunks(Rest, MaxChunk(pdu, Overhead))
    /\ pc = "wait" => chunks # <<>> /\ ref # 0

\* References grow along the connection: the answers, and behind them the
\* requests.
InOrder ==
    /\ \A p \in 1..Len(queue) : queue[p].ref <= ref
    /\ \A p \in 1..Len(inbox) : inbox[p].ref <= ref
    /\ \A p, q \in 1..Len(queue) : p < q => queue[p].ref < queue[q].ref
    /\ \A p, q \in 1..Len(inbox) : p < q => inbox[p].ref < inbox[q].ref
    /\ \A p \in 1..Len(inbox), q \in 1..Len(queue) : inbox[p].ref < queue[q].ref

\* From the second chunk on a call is alone on the connection.
Alone ==
    /\ pc = "chunk" /\ offset # call.start => queue = <<>> /\ inbox = <<>>
    /\ SuccessMeansInStep

\* A request in flight is well formed, and if it is of the last call, it is the
\* current chunk.
RequestOK(q) ==
    /\ pdu = 0 \/ RequestLength(q.kind, q.len) <= pdu
    /\ q.kind = "read" => q.len <= MaxChunk(pdu, ReadVarRequestOverhead)
    /\ q.kind = "write" => q.len <= MaxChunk(pdu, WriteVarRequestOverhead)
    /\ \A k \in 0..q.len : WireStart(q.at + k) \in Cells
    /\ q.val <= call.n
    /\ q.val = call.n => /\ pc # "chunk"
                         /\ q.ref = ref /\ q.kind = call.kind
                         /\ q.at = offset /\ q.len <= Rest
                         /\ pc = "wait" => q.len = Head(chunks)
    /\ pc = "wait" /\ q.ref = ref => q.val = call.n

Requested == \A p \in 1..Len(queue) : RequestOK(queue[p])

\* All that is in flight to the device is of the last call.
OnlyThisCall == \A p \in 1..Len(queue) : queue[p].val = call.n

\* a is the address of one of the n bytes from s on.
Among(a, s, n) == \E k \in 0..(n - 1) : a = WireStart(s + k)

\* The last call has written the first w bytes of its range and nothing else.
Wrote(w) == \A a \in Cells : mem[a] = call.n <=> Among(a, call.start, w)

\* How far it has got.
WrittenTo(w) ==
    /\ Wrote(w)
    /\ w > 0 => OnlyThisCall
    /\ pc = "chunk" => w = offset - call.start
    /\ \A p \in 1..Len(queue) : queue[p].val = call.n => w = offset - call.start
    /\ pc = "wait" => \A p \in 1..Len(inbox) :
          inbox[p].ref = ref /\ inbox[p].kind = "ok" => w = offset - call.start + Head(chunks)
    /\ pc = "idle" /\ status = "success" => w = call.size

Writing ==
    /\ \A a \in Cells : mem[a] <= call.n
    /\ call.kind = "write" =>
          \A a \in Cells : mem[a] = call.n => Among(a, call.start, call.size)
    /\ call.kind = "write" /\ LengthsFit => \E w \in 0..call.size : WrittenTo(w)

\* The bytes s are those of device memory from a on.
FromMemory(s, a) == \A k \in 1..Len(s) : s[k] = mem[WireStart(a + k - 1)]

\* What a read has got, and what the answer it waits for brings.
Reading ==
    call.kind = "read" =>
        /\ out # <<>> => OnlyThisCall
        /\ "long" \notin items => Len(out) <= offset - call.start
        /\ "long" \notin items /\ "short" \in items => Len(out) < offset - call.start
        /\ items \subseteq {"exact"} => FromMemory(out, call.start)
        /\ pc # "idle" /\ items \subseteq {"exact"} => Len(out) = offset - call.start
        /\ pc = "wait" => \A p \in 1..Len(inbox) :
              inbox[p].ref = ref /\ inbox[p].kind = "ok" => FromMemory(inbox[p].bytes, offset)
        /\ pc = "idle" /\ status \in {"timeout", "transport-error"} => out = <<>>
        /\ pc = "idle" /\ status = "success" => Len(out) >= call.size

\* A call that succeeds has done its range.
Finished == pc = "idle" /\ status = "success" => offset = call.start + call.size

\* The inductive invariant.
IInv ==
    /\ TypeOK /\ Planned /\ InOrder /\ Alone /\ Requested /\ Writing /\ Reading
    /\ Finished

-----------------------------------------------------------------------------
(* Chunks *)

LEMMA MulMonotone ==
    ASSUME NEW a \in Nat, NEW b \in Nat, NEW m \in Nat, a <= b
    PROVE  a * m <= b * m
<1>1. PICK d \in Nat : b = a + d
  <2>1. b - a \in Nat /\ b = a + (b - a)
      OBVIOUS
  <2> QED BY <2>1
<1>2. (a + d) * m = a * m + d * m /\ d * m \in Nat /\ a * m \in Nat
    OBVIOUS
<1> QED BY <1>1, <1>2

\* The number of chunks of t bytes, m at most each.
LEMMA ChunkCount ==
    ASSUME NEW t \in Nat \ {0}, NEW m \in Nat \ {0}, NEW n, n = (t + m - 1) \div m
    PROVE  /\ n \in Nat \ {0}
           /\ n * m \in Nat /\ n * m <= t + m - 1
           /\ t <= m => n = 1
           /\ t > m => n = ((t - m) + m - 1) \div m + 1
<1>1. n \in Nat
    BY SMT
<1>2. n * m <= t + m - 1 /\ n * m \in Nat
    BY <1>1, SMT
<1>3. t <= m => n = 1
    BY SMT
<1>4. t > m => n = ((t - m) + m - 1) \div m + 1
    BY SMT
<1>5. n # 0
    BY SMT
<1> QED BY <1>1, <1>2, <1>3, <1>4, <1>5

\* m bytes in each of t bytes' chunks but the last.
Chunks(t, m) == [i \in 1..((t + m - 1) \div m) |-> MinOf(m, t - (i - 1) * m)]

LEMMA PlanUnfolds ==
    ASSUME NEW t \in Nat, NEW m \in Nat \ {0}
    PROVE  planReadChunks(t, m) = IF t = 0 THEN <<>> ELSE Chunks(t, m)
<1>1. planReadChunks(t, m) = IF t <= 0 THEN <<>> ELSE Chunks(t, IF m <= 0 THEN t ELSE m)
    BY Zenon DEF planReadChunks, Chunks
<1> QED BY <1>1

LEMMA ChunksFacts ==
    ASSUME NEW t \in Nat \ {0}, NEW m \in Nat \ {0}
    PROVE  /\ Chunks(t, m) \in Seq(Nat \ {0}) /\ Chunks(t, m) # <<>>
           /\ Len(Chunks(t, m)) = (t + m - 1) \div m
           /\ Head(Chunks(t, m)) = MinOf(m, t)
<1> DEFINE n == (t + m - 1) \div m
           f == [i \in 1..n |-> MinOf(m, t - (i - 1) * m)]
<1>1. Chunks(t, m) = f
    BY Zenon DEF Chunks
<1>2. n \in Nat \ {0} /\ n * m \in Nat /\ n * m <= t + m - 1
    BY ChunkCount
<1> HIDE DEF n
<1>3. ASSUME NEW i \in 1..n
      PROVE  f[i] \in Nat \ {0}
  <2> DEFINE b == (i - 1) * m
  <2>1. i \in Nat /\ i - 1 \in Nat /\ i <= n
      BY <1>2
  <2>2. i * m <= n * m
      BY <1>2, <2>1, MulMonotone
  <2>3. i * m = b + m /\ b \in Nat
      BY <2>1
  <2>4. f[i] = MinOf(m, t - b)
      OBVIOUS
  <2> HIDE DEF b, f
  <2>5. b <= t - 1
      BY <1>2, <2>2, <2>3
  <2> QED BY <2>3, <2>4, <2>5 DEF MinOf
<1>4. f[1] = MinOf(m, t)
    BY <1>2 DEF MinOf
<1>5. f \in [1..n -> Nat \ {0}]
    BY <1>3
<1> HIDE DEF f
<1>6. f \in Seq(Nat \ {0}) /\ Len(f) = n
    BY <1>2, <1>5
<1>7. f # <<>> /\ Head(f) = MinOf(m, t)
    BY <1>2, <1>4, <1>6
<1> QED BY <1>1, <1>6, <1>7, Zenon DEF n

LEMMA ChunksTail ==
    ASSUME NEW t \in Nat, NEW m \in Nat \ {0}, t > m
    PROVE  Tail(Chunks(t, m)) = Chunks(t - m, m)
<1> DEFINE n == (t + m - 1) \div m
           k == ((t - m) + m - 1) \div m
           f == Chunks(t, m)
           g == Chunks(t - m, m)
<1>1. t \in Nat \ {0} /\ t - m \in Nat \ {0}
    OBVIOUS
<1>2. /\ f \in Seq(Nat \ {0}) /\ f # <<>> /\ Len(f) = n
      /\ g \in Seq(Nat \ {0}) /\ Len(g) = k
    BY <1>1, ChunksFacts
<1>3. n = k + 1 /\ k \in Nat
  <2>1. n = k + 1
      BY <1>1, ChunkCount, Zenon
  <2>2. k \in Nat
      BY <1>1, ChunkCount
  <2> QED BY <2>1, <2>2
<1>4. ASSUME NEW i \in 1..k PROVE f[i + 1] = g[i]
  <2>1. i + 1 \in 1..n /\ i \in Nat
      BY <1>3
  <2>2. f[i + 1] = MinOf(m, t - ((i + 1) - 1) * m) /\ g[i] = MinOf(m, (t - m) - (i - 1) * m)
      BY <2>1, Zenon DEF Chunks
  <2>3. t - ((i + 1) - 1) * m = (t - m) - (i - 1) * m
      BY <2>1
  <2> QED BY <2>2, <2>3, Zenon
<1> HIDE DEF f, g, n, k
<1>5. /\ Tail(f) \in Seq(Nat \ {0}) /\ Len(Tail(f)) = k
      /\ \A i \in 1..k : Tail(f)[i] = f[i + 1]
    BY <1>2, <1>3
<1>6. Tail(f) = g
    BY <1>2, <1>4, <1>5
<1> QED BY <1>6 DEF f, g

\* planReadChunks(t, m) begins with a chunk of m bytes, or t if that is less, and
\* goes on as if it were called for what is left.
LEMMA PlanFacts ==
    ASSUME NEW t \in Nat, NEW m \in Nat \ {0}
    PROVE  /\ planReadChunks(t, m) \in Seq(Nat \ {0})
           /\ t = 0 => planReadChunks(t, m) = <<>>
           /\ t # 0 => /\ planReadChunks(t, m) # <<>>
                       /\ Head(planReadChunks(t, m)) = MinOf(m, t)
                       /\ Tail(planReadChunks(t, m)) = planReadChunks(t - MinOf(m, t), m)
<1>1. CASE t = 0
    BY <1>1, PlanUnfolds, EmptySeq, Zenon
<1>2. CASE t # 0
  <2>1. planReadChunks(t, m) = Chunks(t, m)
      BY <1>2, PlanUnfolds
  <2>2. /\ Chunks(t, m) \in Seq(Nat \ {0}) /\ Chunks(t, m) # <<>>
        /\ Len(Chunks(t, m)) = (t + m - 1) \div m
        /\ Head(Chunks(t, m)) = MinOf(m, t)
      BY <1>2, ChunksFacts
  <2>3. CASE t <= m
    <3>1. t - MinOf(m, t) = 0
        BY <2>3 DEF MinOf
    <3>2. planReadChunks(t - MinOf(m, t), m) = <<>>
        BY <3>1, PlanUnfolds
    <3>3. (t + m - 1) \div m = 1
        BY <1>2, <2>3, ChunkCount
    <3>4. Tail(Chunks(t, m)) = <<>>
        BY <2>2, <3>3
    <3> QED BY <1>2, <2>1, <2>2, <3>2, <3>4, Zenon
  <2>4. CASE t > m
    <3>1. t - MinOf(m, t) = t - m /\ t - m \in Nat /\ t - m # 0
        BY <2>4 DEF MinOf
    <3>2. planReadChunks(t - MinOf(m, t), m) = Chunks(t - m, m)
        BY <3>1, PlanUnfolds
    <3>3. Tail(Chunks(t, m)) = Chunks(t - m, m)
        BY <2>4, ChunksTail
    <3> QED BY <1>2, <2>1, <2>2, <3>2, <3>3, Zenon
  <2> QED BY <2>3, <2>4
<1> QED BY <1>1, <1>2

LEMMA MaxChunkFacts ==
    ASSUME NEW p \in Nat
    PROVE  /\ MaxChunk(p, ReadVarRequestOverhead) \in Nat \ {0}
           /\ MaxChunk(p, WriteVarRequestOverhead) \in Nat \ {0}
BY DEF MaxChunk, ReadVarRequestOverhead, WriteVarRequestOverhead, DefaultChunk

-----------------------------------------------------------------------------
(* Addresses *)

\* Eight bits a byte: the address wraps at AddressLimit.
LEMMA WireStartIsModulo ==
    ASSUME NEW s \in Nat
    PROVE  WireStart(s) = s % AddressLimit
BY SMT DEF WireStart, AddressLimit

\* An address that fits is sent as it is.
LEMMA WireStartFits ==
    ASSUME NEW s \in Nat, s < AddressLimit
    PROVE  WireStart(s) = s
BY SMT DEF WireStart, AddressLimit

\* The bytes of a range that is not too long have addresses of their own.
LEMMA WireStartApart ==
    ASSUME NEW s \in Nat, NEW i \in Nat, NEW j \in Nat, i < AddressLimit, j < AddressLimit,
           WireStart(s + i) = WireStart(s + j)
    PROVE  i = j
<1>1. (s + i) % AddressLimit = (s + j) % AddressLimit
    BY WireStartIsModulo
<1> QED BY <1>1, SMT DEF AddressLimit

\* The calls reach the cells of their ranges.
LEMMA RangeCells ==
    ASSUME NEW s \in Nat, NEW n \in Nat, [start |-> s, size |-> n] \in Ranges, NEW k \in 0..n
    PROVE  WireStart(s + k) \in Cells
BY DEF Cells

-----------------------------------------------------------------------------
(* Facts about the state. *)

LEMMA MaxRefIsNat == MaxRef \in Nat
BY SMT DEF MaxRef

LEMMA RequestFacts ==
    ASSUME NEW q \in Requests
    PROVE  /\ q.kind \in {"read", "write"} /\ q.ref \in 0..MaxRef /\ q.ref \in Nat
           /\ q.at \in Nat /\ q.len \in Nat \ {0} /\ q.val \in 0..MaxCalls
BY MaxRefIsNat DEF Requests

LEMMA FrameFacts ==
    ASSUME NEW f \in Frames
    PROVE  /\ f.ref \in 0..MaxRef /\ f.ref \in Nat
           /\ f.kind \in {"ok", "itemErr", "badBody", "s7err"}
           /\ f.bytes \in Seq(0..MaxCalls)
BY MaxRefIsNat DEF Frames

\* What is in flight is numbered.
LEMMA FlightFacts ==
    ASSUME TypeOK
    PROVE  /\ \A p \in 1..Len(queue) : queue[p] \in Requests /\ queue[p].ref \in Nat
           /\ \A p \in 1..Len(inbox) : inbox[p] \in Frames /\ inbox[p].ref \in Nat
<1>1. \A p \in 1..Len(queue) : queue[p] \in Requests
    BY DEF TypeOK
<1>2. \A p \in 1..Len(inbox) : inbox[p] \in Frames
    BY DEF TypeOK
<1> QED BY <1>1, <1>2, RequestFacts, FrameFacts, Zenon

LEMMA TypeFacts ==
    ASSUME TypeOK
    PROVE  /\ pdu \in Nat /\ offset \in Nat /\ ref \in Nat
           /\ call.start \in Nat /\ call.size \in Nat /\ call.n \in 0..MaxCalls /\ MaxCalls \in Nat
           /\ call.kind \in {"none", "read", "write"}
           /\ Len(queue) \in Nat /\ Len(inbox) \in Nat /\ Len(out) \in Nat
           /\ Rest \in Int
<1>1. pdu \in Nat
  <2>1. MaxUint16 \in Nat
      BY SMT DEF MaxUint16
  <2> QED BY <2>1, AreaAssumption DEF TypeOK
<1> QED BY <1>1, MaxRefIsNat, AreaAssumption DEF TypeOK, Rest

\* The current chunk.
LEMMA ChunkNow ==
    ASSUME TypeOK, Planned, pc # "idle"
    PROVE  /\ MaxChunk(pdu, Overhead) \in Nat \ {0} /\ Rest \in Nat
           /\ chunks = <<>> => Rest = 0
           /\ chunks # <<>> =>
                 /\ Head(chunks) \in Nat \ {0}
                 /\ Head(chunks) <= Rest /\ Head(chunks) <= MaxChunk(pdu, Overhead)
                 /\ Tail(chunks) \in Seq(Nat \ {0})
                 /\ Tail(chunks) = planReadChunks(Rest - Head(chunks), MaxChunk(pdu, Overhead))
<1> DEFINE max == MaxChunk(pdu, Overhead)
<1>1. max \in Nat \ {0}
    BY TypeFacts, MaxChunkFacts DEF Overhead
<1>2. Rest \in Nat
    BY TypeFacts DEF Planned, Rest
<1>3. chunks = planReadChunks(Rest, max) /\ chunks \in Seq(Nat \ {0})
    BY DEF Planned, TypeOK
<1> HIDE DEF max
<1>4. /\ Rest = 0 => chunks = <<>>
      /\ Rest # 0 => /\ chunks # <<>>
                     /\ Head(chunks) = MinOf(max, Rest)
                     /\ Tail(chunks) = planReadChunks(Rest - MinOf(max, Rest), max)
    BY <1>1, <1>2, <1>3, PlanFacts, Zenon
<1>5. Rest # 0 => MinOf(max, Rest) \in Nat \ {0} /\ MinOf(max, Rest) <= Rest /\ MinOf(max, Rest) <= max
    BY <1>1, <1>2 DEF MinOf
<1>6. chunks # <<>> => Tail(chunks) \in Seq(Nat \ {0})
    BY <1>3
<1> QED BY <1>1, <1>2, <1>4, <1>5, <1>6, Zenon DEF max

\* An answer with the newest reference is all that is in flight.
LEMMA LoneAnswer ==
    ASSUME TypeOK, InOrder, NEW p \in 1..Len(inbox), inbox[p].ref = ref
    PROVE  queue = <<>> /\ p = Len(inbox)
<1>1. Len(queue) \in Nat /\ Len(inbox) \in Nat /\ ref \in Nat /\ queue \in Seq(Requests)
      /\ inbox \in Seq(Frames)
    BY TypeFacts DEF TypeOK
<1>2. \A q \in 1..Len(queue) : queue[q].ref \in Nat
    BY FlightFacts, Zenon
<1>3. \A q \in 1..Len(inbox) : inbox[q].ref \in Nat
    BY FlightFacts, Zenon
<1>4. \A q \in 1..Len(queue) : FALSE
    BY <1>1, <1>2 DEF InOrder
<1>5. ~(p < Len(inbox))
    BY <1>1, <1>3 DEF InOrder
<1> QED BY <1>1, <1>4, <1>5

\* A request with the newest reference is the last one.
LEMMA LastRequest ==
    ASSUME TypeOK, InOrder, NEW p \in 1..Len(queue), queue[p].ref = ref
    PROVE  p = Len(queue)
<1>1. Len(queue) \in Nat /\ ref \in Nat /\ queue \in Seq(Requests)
    BY TypeFacts DEF TypeOK
<1>2. \A q \in 1..Len(queue) : queue[q].ref \in Nat
    BY FlightFacts, Zenon
<1>3. ~(p < Len(queue))
    BY <1>1, <1>2 DEF InOrder
<1> QED BY <1>1, <1>3

LEMMA RestIsNone ==
    ASSUME NEW s \in Nat, NEW n \in Nat, NEW o \in Nat, s + n - o = 0
    PROVE  o = s + n
OBVIOUS

LEMMA NoPositions == Len(<<>>) = 0 /\ 1..0 = {}
OBVIOUS

\* What taking from the front and adding at the end do.
LEMMA TailOf ==
    ASSUME NEW S, NEW s \in Seq(S), s # <<>>, NEW u, u = Tail(s)
    PROVE  /\ u \in Seq(S) /\ Len(u) \in Nat /\ Len(s) = Len(u) + 1
           /\ \A p \in 1..Len(u) : p + 1 \in 1..Len(s) /\ u[p] = s[p + 1]
           /\ 1 \in 1..Len(s) /\ Head(s) = s[1] /\ Head(s) \in S
OBVIOUS

LEMMA AppendOf ==
    ASSUME NEW S, NEW s \in Seq(S), NEW e \in S, NEW u, u = Append(s, e)
    PROVE  /\ u \in Seq(S) /\ Len(u) = Len(s) + 1 /\ Len(u) \in 1..Len(u) /\ u[Len(u)] = e
           /\ \A p \in 1..Len(s) : p \in 1..Len(u) /\ u[p] = s[p]
           /\ \A p \in 1..Len(u) : p \in 1..Len(s) \/ p = Len(u)
OBVIOUS

\* Reading an answer leaves the rest in order.
LEMMA ReceiveInOrder ==
    ASSUME TypeOK, InOrder, UNCHANGED queue, ref' \in Nat, ref <= ref',
           UNCHANGED inbox \/ (inbox # <<>> /\ inbox' = Tail(inbox))
    PROVE  /\ InOrder' /\ inbox' \in Seq(Frames)
           /\ \A p \in 1..Len(inbox') : \E q \in 1..Len(inbox) : inbox'[p] = inbox[q]
<1>1. ref \in Nat /\ inbox \in Seq(Frames)
    BY TypeFacts DEF TypeOK
<1>2. \A p \in 1..Len(queue) : queue[p].ref <= ref'
    BY <1>1, FlightFacts DEF InOrder
<1>3. \A p \in 1..Len(inbox) : inbox[p].ref <= ref'
    BY <1>1, FlightFacts DEF InOrder
<1>4. CASE UNCHANGED inbox
    BY <1>1, <1>2, <1>3, <1>4, Zenon DEF InOrder
<1>5. CASE inbox # <<>> /\ inbox' = Tail(inbox)
  <2>1. /\ inbox' \in Seq(Frames) /\ Len(inbox') \in Nat
        /\ \A p \in 1..Len(inbox') : p + 1 \in 1..Len(inbox) /\ inbox'[p] = inbox[p + 1]
      BY <1>1, <1>5, TailOf
  <2>2. \A p \in 1..Len(inbox') : inbox'[p].ref <= ref'
      BY <1>3, <2>1
  <2>3. \A p, q \in 1..Len(inbox') : p < q => inbox'[p].ref < inbox'[q].ref
    <3> SUFFICES ASSUME NEW p \in 1..Len(inbox'), NEW q \in 1..Len(inbox'), p < q
                 PROVE  inbox'[p].ref < inbox'[q].ref
        OBVIOUS
    <3>1. p + 1 < q + 1
        BY <2>1
    <3>2. inbox[p + 1].ref < inbox[q + 1].ref
        BY <2>1, <3>1, Zenon DEF InOrder
    <3> QED BY <2>1, <3>2, Zenon
  <2>4. \A p \in 1..Len(inbox'), q \in 1..Len(queue) : inbox'[p].ref < queue[q].ref
      BY <2>1, Zenon DEF InOrder
  <2>5. \A p, q \in 1..Len(queue) : p < q => queue[p].ref < queue[q].ref
      BY Zenon DEF InOrder
  <2>6. InOrder'
      BY <1>2, <2>2, <2>3, <2>4, <2>5, Zenon DEF InOrder
  <2> QED BY <2>1, <2>6, Zenon
<1> QED BY <1>4, <1>5

LEMMA InitIInv == Init => IInv
<1> SUFFICES ASSUME Init PROVE IInv
    OBVIOUS
<1>1. 0 \in 0..MaxRef /\ 0 \in 0..MaxCalls
    BY MaxRefIsNat, AreaAssumption
<1>10. call.kind = "none" /\ call.start = 0 /\ call.size = 0 /\ call.n = 0
    BY DEF Init, NoCall
<1>11. offset = 0 /\ pc = "idle" /\ chunks = <<>> /\ queue = <<>> /\ inbox = <<>>
    BY Zenon DEF Init
<1>2. TypeOK
  <2>1. <<>> \in Seq(Requests) /\ <<>> \in Seq(Frames) /\ <<>> \in Seq(Nat \ {0})
        /\ <<>> \in Seq(0..MaxCalls)
      BY EmptySeq, Zenon
  <2>4. mem \in [Cells -> 0..MaxCalls]
    <3>1. mem = [a \in Cells |-> 0]
        BY Zenon DEF Init
    <3> QED BY <1>1, <3>1
  <2>5. call \in [kind : {"none", "read", "write"}, start : Nat, size : Nat, n : 0..MaxCalls]
      BY <1>1 DEF Init, NoCall
  <2> QED BY <1>1, <2>1, <2>4, <2>5 DEF TypeOK, Statuses, ReadStatuses, Init
<1>3. Planned
    BY <1>10, <1>11, SMT DEF Planned
<1>4. InOrder
    BY <1>11, NoPositions, Zenon DEF InOrder
<1>5. Alone
    BY <1>11, Zenon DEF Alone, SuccessMeansInStep
<1>6. Requested
    BY <1>11, NoPositions, Zenon DEF Requested
<1>7. Writing
  <2>1. \A a \in Cells : mem[a] <= call.n
    <3>1. mem = [a \in Cells |-> 0]
        BY Zenon DEF Init
    <3> QED BY <1>10, <3>1
  <2> QED BY <1>10, <2>1 DEF Writing
<1>8. Reading
    BY <1>10 DEF Reading
<1>9. Finished
    BY <1>10, <1>11 DEF Finished
<1> QED BY <1>2, <1>3, <1>4, <1>5, <1>6, <1>7, <1>8, <1>9 DEF IInv

-----------------------------------------------------------------------------
(* One lemma per step. *)

\* The call returns.
LEMMA CallEnds ==
    ASSUME IInv, pc # "idle", pc' = "idle", chunks' = <<>>, status' \in Statuses,
           out' = out \/ out' = <<>>,
           UNCHANGED <<pdu, call, items, offset, mem, queue>>,
           UNCHANGED inbox \/ (inbox # <<>> /\ inbox' = Tail(inbox)),
           ref' = ref \/ (pc = "chunk" /\ ref < MaxRef /\ ref' = ref + 1),
           status' = "success" => /\ pc = "chunk" /\ Rest = 0
                                  /\ call.kind = "read" => out' = out /\ Len(out) >= call.size,
           status' \in {"timeout", "transport-error"} => out' = <<>>
    PROVE  IInv'
<1>1. TypeOK /\ Planned /\ InOrder /\ Alone /\ Requested /\ Writing /\ Reading
    BY DEF IInv
<1>2. /\ offset \in Nat /\ ref \in Nat /\ ref' \in Nat /\ ref <= ref' /\ ref' \in 0..MaxRef
      /\ call.start \in Nat /\ call.size \in Nat
      /\ Len(queue) \in Nat /\ Len(inbox) \in Nat /\ Len(out) \in Nat
      /\ queue \in Seq(Requests) /\ inbox \in Seq(Frames) /\ out \in Seq(0..MaxCalls)
  <2>1. /\ offset \in Nat /\ ref \in Nat /\ call.start \in Nat /\ call.size \in Nat
        /\ Len(queue) \in Nat /\ Len(inbox) \in Nat /\ Len(out) \in Nat
      BY <1>1, TypeFacts
  <2>2. /\ queue \in Seq(Requests) /\ inbox \in Seq(Frames) /\ out \in Seq(0..MaxCalls)
        /\ ref \in 0..MaxRef
      BY <1>1 DEF TypeOK
  <2>3. ref' \in Nat /\ ref <= ref' /\ ref' \in 0..MaxRef
    <3>1. CASE ref' = ref
        BY <2>1, <2>2, <3>1, MaxRefIsNat
    <3>2. CASE ref < MaxRef /\ ref' = ref + 1
        BY <2>1, <3>2, MaxRefIsNat
    <3> QED BY <3>1, <3>2
  <2> QED BY <2>1, <2>2, <2>3, Zenon
<1>4. /\ InOrder' /\ inbox' \in Seq(Frames)
      /\ \A p \in 1..Len(inbox') : \E q \in 1..Len(inbox) : inbox'[p] = inbox[q]
    BY <1>1, <1>2, ReceiveInOrder, Zenon
<1>6. TypeOK'
  <2>1. out' \in Seq(0..MaxCalls) /\ chunks' \in Seq(Nat \ {0})
      BY <1>2, EmptySeq, Zenon
  <2> QED BY <1>1, <1>2, <1>4, <2>1 DEF TypeOK
<1>7. Planned'
    BY <1>1 DEF Planned
<1>9. Alone'
  <2>1. ASSUME status' = "success", call.size > 0 PROVE queue = <<>> /\ inbox' = <<>>
    <3>1. offset # call.start
        BY <1>2, <2>1 DEF Rest
    <3> QED BY <1>1, <2>1, <3>1 DEF Alone
  <2> QED BY <2>1, Zenon DEF Alone, SuccessMeansInStep
<1>10. Requested'
  <2>1. Rest' = Rest
      BY DEF Rest
  <2>2. ASSUME NEW p \in 1..Len(queue) PROVE RequestOK(queue[p])'
    <3>1. RequestOK(queue[p])
        BY <1>1, Zenon DEF Requested
    <3>2. queue[p].val = call.n => ref' = ref
        BY <3>1 DEF RequestOK
    <3> QED BY <2>1, <3>1, <3>2, Zenon DEF RequestOK
  <2> QED BY <2>2, Zenon DEF Requested
<1>11. Writing'
  <2>1. ASSUME call.kind = "write", LengthsFit PROVE \E w \in 0..call.size : WrittenTo(w)'
    <3>1. PICK w \in 0..call.size : WrittenTo(w)
        BY <1>1, <2>1, Zenon DEF Writing
    <3>2. status' = "success" => w = call.size
        BY <1>2, <3>1 DEF WrittenTo, Rest
    <3>3. WrittenTo(w)'
        BY <3>1, <3>2, Zenon DEF WrittenTo, Wrote, OnlyThisCall
    <3> QED BY <3>3
  <2> QED BY <1>1, <2>1, Zenon DEF Writing, LengthsFit
<1>12. Reading'
  <2> SUFFICES ASSUME call.kind = "read" PROVE Reading'
      BY Zenon DEF Reading
  <2>1. CASE out' = out
    <3>1. status' = "success" => Len(out) >= call.size
        OBVIOUS
    <3> QED BY <1>1, <2>1, <3>1, Zenon DEF Reading, OnlyThisCall, FromMemory
  <2>2. CASE out' = <<>>
    <3>1. Len(out') = 0 /\ 1..Len(out') = {}
        BY <2>2
    <3>2. "long" \notin items => 0 <= offset - call.start
        BY <1>1, <1>2 DEF Planned
    <3>3. "long" \notin items /\ "short" \in items => 0 < offset - call.start
        BY <1>1, <1>2 DEF Reading
    <3>4. status' = "success" => Len(out') >= call.size
        OBVIOUS
    <3> QED BY <2>2, <3>1, <3>2, <3>3, <3>4, Zenon DEF Reading, FromMemory
  <2> QED BY <2>1, <2>2
<1>13. Finished'
  <2>1. ASSUME Rest = 0 PROVE offset = call.start + call.size
    <3>1. call.start + call.size - offset = 0
        BY <2>1, Zenon DEF Rest
    <3> QED BY <1>2, <3>1, RestIsNone
  <2> QED BY <2>1, Zenon DEF Finished
<1> QED BY <1>4, <1>6, <1>7, <1>9, <1>10, <1>11, <1>12, <1>13 DEF IInv

LEMMA StartNumbers ==
    ASSUME NEW s \in Nat, NEW n \in Nat
    PROVE  /\ s + n - s = n /\ s <= s + n /\ s <= s /\ s - s = 0
           /\ 0 \in 0..n /\ 0..(0 - 1) = {} /\ ~(0 > 0) /\ 0 <= 0
           /\ s < n => s + 1 \in 0..n
OBVIOUS

\* A byte of the current chunk is one of the range.
LEMMA ChunkCells ==
    ASSUME TypeOK, Planned, pc # "idle", chunks # <<>>, NEW k \in 0..Head(chunks)
    PROVE  WireStart(offset + k) \in Cells
<1>1. /\ call.start \in Nat /\ call.size \in Nat /\ offset \in Nat /\ call.start <= offset
      /\ [start |-> call.start, size |-> call.size] \in Ranges
    BY TypeFacts DEF Planned
<1>2. Head(chunks) \in Nat /\ Head(chunks) <= call.start + call.size - offset
    BY ChunkNow DEF Rest
<1> DEFINE i == offset - call.start + k
<1>3. i \in 0..call.size /\ call.start + i = offset + k
    BY <1>1, <1>2, SMTT(30)
<1> HIDE DEF i
<1> QED BY <1>1, <1>3, RangeCells, Zenon

LEMMA RangeFacts ==
    ASSUME NEW r \in Ranges
    PROVE  r.start \in Nat /\ r.size \in Nat /\ [start |-> r.start, size |-> r.size] = r
BY AreaAssumption

\* A call begins.
LEMMA StartIInv ==
    ASSUME IInv, NEW r \in Ranges, NEW kind \in {"read", "write"}, NEW overhead,
           overhead = IF kind = "read" THEN ReadVarRequestOverhead ELSE WriteVarRequestOverhead,
           Start(kind, r, overhead)
    PROVE  IInv'
<1>1. TypeOK /\ Planned /\ InOrder /\ Requested /\ Writing
    BY DEF IInv
<1>2. /\ pdu \in Nat /\ call.n \in 0..MaxCalls /\ call.n \in Nat /\ MaxCalls \in Nat
      /\ r.start \in Nat /\ r.size \in Nat /\ [start |-> r.start, size |-> r.size] \in Ranges
    BY <1>1, TypeFacts, RangeFacts
<1>3. /\ call.n < MaxCalls /\ pc' = "chunk" /\ out' = <<>> /\ items' = {} /\ status' = ""
      /\ offset' = r.start
      /\ UNCHANGED <<pdu, ref, mem, queue, inbox>>
      /\ chunks' = planReadChunks(r.size, MaxChunk(pdu, overhead))
    BY Zenon DEF Start
<1>4. /\ call'.kind = kind /\ call'.start = r.start /\ call'.size = r.size
      /\ call'.n = call.n + 1
    BY DEF Start
<1>5. Overhead' = overhead /\ Rest' = r.size /\ MaxChunk(pdu, overhead) \in Nat \ {0}
  <2>1. Rest' = r.size
    <3>1. Rest' = call'.start + call'.size - offset'
        BY DEF Rest
    <3>2. offset' = r.start
        BY <1>3, Zenon
    <3>3. r.start + r.size - r.start = r.size
        BY <1>2, StartNumbers, Zenon
    <3> QED BY <1>4, <3>1, <3>2, <3>3
  <2> QED BY <1>2, <1>4, <2>1, MaxChunkFacts, Zenon DEF Overhead
<1>6. TypeOK'
  <2>1. chunks' \in Seq(Nat \ {0})
      BY <1>2, <1>3, <1>5, PlanFacts, Zenon
  <2>2. call' \in [kind : {"none", "read", "write"}, start : Nat, size : Nat, n : 0..MaxCalls]
    <3>1. call.n + 1 \in 0..MaxCalls
        BY <1>2, <1>3, StartNumbers, Zenon
    <3>2. call' = [kind |-> kind, start |-> r.start, size |-> r.size, n |-> call.n + 1]
        BY Zenon DEF Start
    <3>3. kind \in {"none", "read", "write"} /\ r.start \in Nat /\ r.size \in Nat
        BY <1>2
    <3> HIDE DEF IInv
    <3> QED BY <3>1, <3>2, <3>3, Zenon
  <2>3. out' \in Seq(0..MaxCalls)
      BY <1>3, EmptySeq, Zenon
  <2>4. status' \in Statuses
      BY <1>3 DEF Statuses
  <2> QED BY <1>1, <1>2, <1>3, <2>1, <2>2, <2>3, <2>4 DEF TypeOK
<1>7. Planned'
  <2>1. offset' <= call'.start + call'.size /\ call'.start <= offset'
      BY <1>2, <1>3, <1>4, StartNumbers, Zenon
  <2> QED BY <1>2, <1>3, <1>4, <1>5, <2>1 DEF Planned
<1>8. InOrder'
    BY <1>1, <1>3, Zenon DEF InOrder
<1>9. Alone'
    BY <1>3, <1>4 DEF Alone, SuccessMeansInStep
<1>10. Requested'
  <2>1. ASSUME NEW p \in 1..Len(queue) PROVE RequestOK(queue[p])'
    <3>1. RequestOK(queue[p])
        BY <1>1, Zenon DEF Requested
    <3>2. queue[p].val \in 0..MaxCalls
        BY <1>1, FlightFacts, RequestFacts, Zenon
    <3>3. queue[p].val <= call.n
        BY <3>1, Zenon DEF RequestOK
    <3>4. queue[p].val <= call'.n /\ queue[p].val # call'.n
        BY <1>2, <1>4, <3>2, <3>3
    <3>5. pc' # "wait"
        BY <1>3
    <3> QED BY <1>3, <3>1, <3>4, <3>5, Zenon DEF RequestOK
  <2> QED BY <1>3, <2>1, Zenon DEF Requested
<1>11. Writing'
  <2>1. \A a \in Cells : mem[a] \in 0..MaxCalls /\ mem[a] <= call.n
      BY <1>1 DEF TypeOK, Writing
  <2>2. \A a \in Cells : mem[a] <= call'.n /\ mem[a] # call'.n
      BY <1>2, <1>4, <2>1
  <2>3. 0..(0 - 1) = {} /\ 0 \in 0..r.size /\ ~(0 > 0) /\ offset' - call'.start = 0
      BY <1>2, <1>3, <1>4, StartNumbers, Zenon
  <2>4. \A p \in 1..Len(queue) : queue[p].val # call'.n
    <3> TAKE p \in 1..Len(queue)
    <3>1. queue[p].val \in 0..MaxCalls
        BY <1>1, FlightFacts, RequestFacts, Zenon
    <3>2. queue[p].val <= call.n
        BY <1>1, Zenon DEF Requested, RequestOK
    <3> QED BY <1>2, <1>4, <3>1, <3>2
  <2>5. Wrote(0)'
      BY <1>3, <2>2, <2>3, Zenon DEF Wrote, Among
  <2>6. pc' # "wait" /\ pc' # "idle"
      BY <1>3
  <2>7. WrittenTo(0)'
      BY <1>3, <2>3, <2>4, <2>5, <2>6, Zenon DEF WrittenTo
  <2> QED BY <1>3, <1>4, <2>2, <2>3, <2>7, Zenon DEF Writing, LengthsFit
<1>12. Reading'
  <2>1. Len(out') = 0 /\ 1..Len(out') = {}
      BY <1>3, NoPositions, Zenon
  <2>2. offset' - call'.start = 0 /\ 0 <= 0
      BY <1>2, <1>3, <1>4, StartNumbers, Zenon
  <2>3. FromMemory(out, call.start)'
      BY <2>1, Zenon DEF FromMemory
  <2>4. "short" \notin items' /\ pc' # "idle" /\ pc' # "wait"
      BY <1>3
  <2> QED BY <1>3, <2>1, <2>2, <2>3, <2>4, Zenon DEF Reading
<1>13. Finished'
    BY <1>3 DEF Finished
<1> QED BY <1>6, <1>7, <1>8, <1>9, <1>10, <1>11, <1>12, <1>13 DEF IInv

\* A request is sent.
LEMMA SendIInv ==
    ASSUME IInv, pc = "chunk", chunks # <<>>, ref < MaxRef, ref' = ref + 1,
           pdu = 0 \/ RequestLength(call.kind, Head(chunks)) <= pdu,
           queue' = Append(queue, [kind |-> call.kind, ref |-> ref + 1, at |-> offset,
                                   len |-> Head(chunks), val |-> call.n]),
           pc' = "wait",
           UNCHANGED <<pdu, call, chunks, offset, out, items, status, mem, inbox>>
    PROVE  IInv'
<1>1. TypeOK /\ Planned /\ InOrder /\ Alone /\ Requested /\ Writing /\ Reading
    BY DEF IInv
<1>2. /\ pdu \in Nat /\ offset \in Nat /\ ref \in Nat /\ ref' \in 0..MaxRef /\ ref' \in Nat /\ ref' # 0
      /\ ref < ref'
      /\ call.start \in Nat /\ call.size \in Nat /\ call.n \in 0..MaxCalls /\ call.n \in Nat
      /\ call.kind \in {"read", "write"}
      /\ queue \in Seq(Requests) /\ Len(queue) \in Nat
    BY <1>1, MaxRefIsNat, TypeFacts DEF TypeOK, Planned
<1>3. /\ Head(chunks) \in Nat \ {0}
      /\ Head(chunks) <= Rest /\ Head(chunks) <= MaxChunk(pdu, Overhead) /\ Rest \in Nat
    BY <1>1, ChunkNow
<1> DEFINE new == [kind |-> call.kind, ref |-> ref + 1, at |-> offset,
                   len |-> Head(chunks), val |-> call.n]
<1>4. /\ new \in Requests /\ new.kind = call.kind /\ new.ref = ref' /\ new.at = offset
      /\ new.len = Head(chunks) /\ new.val = call.n
    BY <1>2, <1>3 DEF Requests
<1>5. queue' = Append(queue, new)
    OBVIOUS
<1> HIDE DEF new
<1>6. /\ queue' \in Seq(Requests) /\ Len(queue') = Len(queue) + 1 /\ Len(queue') \in 1..Len(queue')
      /\ queue'[Len(queue')] = new
      /\ \A p \in 1..Len(queue) : p \in 1..Len(queue') /\ queue'[p] = queue[p]
      /\ \A p \in 1..Len(queue') : p \in 1..Len(queue) \/ p = Len(queue')
    BY <1>2, <1>4, <1>5, AppendOf
<1>7. TypeOK'
    BY <1>1, <1>2, <1>6, Zenon DEF TypeOK
<1>8. Planned'
  <2>1. Rest' = Rest /\ Overhead' = Overhead
      BY Zenon DEF Rest, Overhead
  <2> QED BY <1>1, <1>2, <2>1, Zenon DEF Planned
<1>9. (\A p \in 1..Len(queue) : queue[p].ref < ref') /\ (\A p \in 1..Len(inbox) : inbox[p].ref < ref')
    BY <1>1, <1>2, FlightFacts, SMTT(30) DEF InOrder
<1>10. InOrder'
  <2>1. \A p \in 1..Len(queue') : queue'[p].ref <= ref'
    <3> TAKE p \in 1..Len(queue')
    <3>1. CASE p \in 1..Len(queue)
      <4>1. queue[p].ref \in Nat /\ queue[p].ref < ref' /\ queue'[p] = queue[p]
          BY <1>1, <1>6, <1>9, <3>1, FlightFacts, Zenon
      <4> QED BY <1>2, <4>1
    <3>2. CASE p = Len(queue')
        BY <1>2, <1>4, <1>6, <3>2
    <3> QED BY <1>6, <3>1, <3>2
  <2>2. \A p \in 1..Len(inbox) : inbox[p].ref <= ref'
      BY <1>1, <1>2, <1>9, FlightFacts
  <2>3. \A p, q \in 1..Len(queue') : p < q => queue'[p].ref < queue'[q].ref
    <3> SUFFICES ASSUME NEW p \in 1..Len(queue'), NEW q \in 1..Len(queue'), p < q
                 PROVE  queue'[p].ref < queue'[q].ref
        OBVIOUS
    <3>1. p \in 1..Len(queue) /\ queue'[p] = queue[p]
        BY <1>2, <1>6
    <3>2. CASE q \in 1..Len(queue)
        BY <1>1, <1>6, <3>1, <3>2, Zenon DEF InOrder
    <3>3. CASE q = Len(queue')
        BY <1>4, <1>6, <1>9, <3>1, <3>3, Zenon
    <3> QED BY <1>6, <3>2, <3>3
  <2>4. \A p \in 1..Len(inbox), q \in 1..Len(queue') : inbox[p].ref < queue'[q].ref
    <3> TAKE p \in 1..Len(inbox), q \in 1..Len(queue')
    <3>1. CASE q \in 1..Len(queue)
        BY <1>1, <1>6, <3>1, Zenon DEF InOrder
    <3>2. CASE q = Len(queue')
        BY <1>4, <1>6, <1>9, <3>2, Zenon
    <3> QED BY <1>6, <3>1, <3>2
  <2>5. \A p, q \in 1..Len(inbox) : p < q => inbox[p].ref < inbox[q].ref
      BY <1>1, Zenon DEF InOrder
  <2> QED BY <2>1, <2>2, <2>3, <2>4, <2>5, Zenon DEF InOrder
<1>11. Alone'
  <2>1. pc' # "chunk" /\ pc' # "idle"
      OBVIOUS
  <2> QED BY <2>1, Zenon DEF Alone, SuccessMeansInStep
<1>12. Requested'
  <2>1. Rest' = Rest
      BY Zenon DEF Rest
  <2>2. ASSUME NEW p \in 1..Len(queue), NEW q, q = queue[p] PROVE RequestOK(q)'
    <3>1. RequestOK(q)
        BY <1>1, <2>2, Zenon DEF Requested
    <3>2. q.val # call.n
        BY <3>1, Zenon DEF RequestOK
    <3>3. q.ref # ref'
        BY <1>1, <1>2, <1>9, <2>2, FlightFacts
    <3> QED BY <3>1, <3>2, <3>3, Zenon DEF RequestOK
  <2>3. ASSUME NEW q, q = new PROVE RequestOK(q)'
    <3>1. \A k \in 0..q.len : WireStart(q.at + k) \in Cells
      <4>1. \A k \in 0..Head(chunks) : WireStart(offset + k) \in Cells
          BY <1>1, ChunkCells
      <4> QED BY <1>4, <2>3, <4>1, Zenon
    <3>2. /\ q.kind = "read" => q.len <= MaxChunk(pdu, ReadVarRequestOverhead)
          /\ q.kind = "write" => q.len <= MaxChunk(pdu, WriteVarRequestOverhead)
      <4>1. "write" # "read"
          OBVIOUS
      <4> QED BY <1>3, <1>4, <2>3, <4>1, Zenon DEF Overhead
    <3>3. q.val <= call.n
        BY <1>2, <1>4, <2>3
    <3>4. pc' # "chunk"
        OBVIOUS
    <3>5. /\ q.kind = call.kind /\ q.ref = ref' /\ q.at = offset /\ q.len = Head(chunks)
          /\ q.val = call.n /\ q.len <= Rest
        BY <1>3, <1>4, <2>3, Zenon
    <3>6. pdu = 0 \/ RequestLength(q.kind, q.len) <= pdu
        BY <3>5, Zenon
    <3> QED BY <2>1, <3>1, <3>2, <3>3, <3>4, <3>5, <3>6, Zenon DEF RequestOK
  <2>4. ASSUME NEW p \in 1..Len(queue') PROVE RequestOK(queue[p])'
    <3>1. PICK q : q = queue'[p]
        OBVIOUS
    <3>2. q = new \/ (p \in 1..Len(queue) /\ q = queue[p])
        BY <1>6, <3>1, Zenon
    <3>3. RequestOK(q)'
        BY <2>2, <2>3, <3>2, Zenon
    <3> QED BY <3>1, <3>3, Zenon DEF RequestOK
  <2> QED BY <2>4, Zenon DEF Requested
<1>13. OnlyThisCall => OnlyThisCall'
    BY <1>4, <1>6, Zenon DEF OnlyThisCall
<1>14. Writing'
  <2>1. ASSUME call.kind = "write", LengthsFit PROVE \E w \in 0..call.size : WrittenTo(w)'
    <3>1. PICK w \in 0..call.size : WrittenTo(w)
        BY <1>1, <2>1, Zenon DEF Writing
    <3>2. w = offset - call.start
        BY <3>1, Zenon DEF WrittenTo
    <3>3. \A p \in 1..Len(inbox) : inbox[p].ref # ref'
        BY <1>1, <1>2, <1>9, FlightFacts
    <3>4. pc' # "chunk" /\ pc' # "idle"
        OBVIOUS
    <3>5. WrittenTo(w)'
        BY <1>13, <3>1, <3>2, <3>3, <3>4, Zenon DEF WrittenTo, Wrote
    <3> QED BY <3>5
  <2> QED BY <1>1, <2>1, Zenon DEF Writing, LengthsFit
<1>15. Reading'
  <2>1. \A p \in 1..Len(inbox) : inbox[p].ref # ref'
      BY <1>1, <1>2, <1>9, FlightFacts
  <2>2. pc' # "idle" /\ pc # "idle"
      OBVIOUS
  <2> QED BY <1>1, <1>13, <2>1, <2>2, Zenon DEF Reading, FromMemory
<1>16. Finished'
    BY DEF Finished
<1> QED BY <1>7, <1>8, <1>10, <1>11, <1>12, <1>14, <1>15, <1>16 DEF IInv

\* The bytes of an answer go behind those received, or in place of them.
LEMMA ConcatOf ==
    ASSUME NEW S, NEW s \in Seq(S), NEW b \in Seq(S), NEW u, u = s \o b
    PROVE  /\ u \in Seq(S) /\ Len(u) = Len(s) + Len(b)
           /\ \A k \in 1..Len(s) : u[k] = s[k]
           /\ \A k \in 1..Len(u) : ~(k \in 1..Len(s)) => k - Len(s) \in 1..Len(b) /\ u[k] = b[k - Len(s)]
OBVIOUS

\* The next chunk begins where the current one ends.
LEMMA OffsetAdvances ==
    ASSUME TypeOK, Planned, pc # "idle", chunks # <<>>, offset' = offset + Head(chunks),
           UNCHANGED call
    PROVE  /\ offset' \in Nat /\ call'.start <= offset' /\ offset' <= call'.start + call'.size
           /\ Rest' = Rest - Head(chunks) /\ Overhead' = Overhead
           /\ offset' - call'.start = offset - call.start + Head(chunks)
           /\ offset' # call'.start
<1>1. /\ call.start \in Nat /\ call.size \in Nat /\ offset \in Nat /\ call.start <= offset
    BY TypeFacts DEF Planned
<1>2. Head(chunks) \in Nat \ {0} /\ Head(chunks) <= call.start + call.size - offset
    BY ChunkNow DEF Rest
<1>3. Overhead' = Overhead
    BY Zenon DEF Overhead
<1>4. Rest' = call.start + call.size - offset'
    BY DEF Rest
<1> DEFINE h == Head(chunks)
<1>5. h \in Nat \ {0} /\ h <= call.start + call.size - offset /\ offset' = offset + h
    BY <1>2
<1> HIDE DEF h
<1>6. /\ offset' \in Nat /\ call.start <= offset' /\ offset' <= call.start + call.size
      /\ call.start + call.size - offset' = (call.start + call.size - offset) - h
      /\ offset' - call.start = offset - call.start + h
      /\ offset' # call.start
    BY <1>1, <1>5, SMTT(30)
<1> QED BY <1>3, <1>4, <1>6, Zenon DEF Rest, h

LEMMA BytePlace ==
    ASSUME NEW o \in Nat, NEW s \in Nat, NEW l \in Nat, l = o - s, NEW n \in Nat, NEW k \in 1..n
    PROVE  o + (k - l) - 1 = s + k - 1
OBVIOUS

\* What an item adds to the bytes read.
LEMMA ItemRead ==
    ASSUME TypeOK, Planned, call.kind = "read", Reading, pc = "wait", NEW b \in Seq(0..MaxCalls),
           FromMemory(b, offset), UNCHANGED <<mem, call>>, offset' = offset + Head(chunks),
           out' = out \o b,
           items' = items \cup {IF Len(b) = Head(chunks) THEN "exact"
                                ELSE IF Len(b) < Head(chunks) THEN "short" ELSE "long"}
    PROVE  /\ out' \in Seq(0..MaxCalls) /\ items' \subseteq {"exact", "short", "long"}
           /\ "long" \notin items' => Len(out') <= offset' - call'.start
           /\ "long" \notin items' /\ "short" \in items' => Len(out') < offset' - call'.start
           /\ items' \subseteq {"exact"} => Len(out') = offset' - call'.start
           /\ items' \subseteq {"exact"} => FromMemory(out, call.start)'
<1>1. /\ offset \in Nat /\ call.start \in Nat /\ call.start <= offset /\ Len(out) \in Nat
      /\ out \in Seq(0..MaxCalls) /\ Len(b) \in Nat /\ items \subseteq {"exact", "short", "long"}
  <2>1. Len(b) \in Nat
      OBVIOUS
  <2> QED BY <2>1, TypeFacts, Zenon DEF TypeOK, Planned
<1>2. Head(chunks) \in Nat \ {0}
    BY ChunkNow DEF Planned
<1> DEFINE h == Head(chunks)
           done == offset - call.start
           size == IF Len(b) = h THEN "exact" ELSE IF Len(b) < h THEN "short" ELSE "long"
<1>3. done \in Nat /\ h \in Nat \ {0} /\ offset' - call'.start = done + h
    BY <1>1, <1>2, SMTT(30)
<1>4. /\ out' \in Seq(0..MaxCalls) /\ Len(out') = Len(out) + Len(b)
      /\ \A k \in 1..Len(out) : out'[k] = out[k]
      /\ \A k \in 1..Len(out') : ~(k \in 1..Len(out)) => /\ k - Len(out) \in 1..Len(b)
                                                         /\ out'[k] = b[k - Len(out)]
    BY <1>1, ConcatOf
<1>5. /\ "long" \notin items => Len(out) <= done
      /\ "long" \notin items /\ "short" \in items => Len(out) < done
      /\ items \subseteq {"exact"} => Len(out) = done /\ FromMemory(out, call.start)
    BY DEF Reading
<1>6. items' = items \cup {size}
    BY Zenon
<1>7. /\ size = "exact" => Len(b) = h
      /\ size = "short" => Len(b) < h
      /\ size \in {"exact", "short", "long"}
    OBVIOUS
<1> HIDE DEF h, done, size
<1>8. "long" \notin items' => Len(out') <= done + h
  <2> SUFFICES ASSUME "long" \notin items' PROVE Len(out') <= done + h
      OBVIOUS
  <2>1. "long" \notin items /\ size # "long"
      BY <1>6
  <2>2. Len(out) <= done /\ Len(b) <= h
      BY <1>1, <1>3, <1>5, <1>7, <2>1
  <2> QED BY <1>1, <1>3, <1>4, <2>2
<1>9. "long" \notin items' /\ "short" \in items' => Len(out') < done + h
  <2> SUFFICES ASSUME "long" \notin items', "short" \in items' PROVE Len(out') < done + h
      OBVIOUS
  <2>1. "long" \notin items /\ size # "long" /\ ("short" \in items \/ size = "short")
      BY <1>6
  <2>2. Len(out) <= done /\ Len(b) <= h /\ (Len(out) < done \/ Len(b) < h)
      BY <1>1, <1>3, <1>5, <1>7, <2>1
  <2> QED BY <1>1, <1>3, <1>4, <2>2
<1>10. ASSUME items' \subseteq {"exact"}
       PROVE  Len(out') = done + h /\ FromMemory(out, call.start)'
  <2>1. items \subseteq {"exact"} /\ size = "exact"
      BY <1>6, <1>10
  <2>2. Len(out) = done /\ Len(b) = h /\ FromMemory(out, call.start)
      BY <1>5, <1>7, <2>1
  <2>3. Len(out') = done + h
      BY <1>4, <2>2
  <2>4. ASSUME NEW k \in 1..Len(out') PROVE out'[k] = mem[WireStart(call.start + k - 1)]
    <3>1. CASE k \in 1..Len(out)
        BY <1>4, <2>2, <3>1, Zenon DEF FromMemory
    <3>2. CASE ~(k \in 1..Len(out))
      <4>1. k - Len(out) \in 1..Len(b) /\ out'[k] = b[k - Len(out)]
          BY <1>4, <3>2, Zenon
      <4>2. b[k - Len(out)] = mem[WireStart(offset + (k - Len(out)) - 1)]
          BY <4>1, Zenon DEF FromMemory
      <4>3. Len(out) = offset - call.start /\ Len(out') \in Nat
          BY <1>3, <2>2, <2>3 DEF done
      <4>4. offset + (k - Len(out)) - 1 = call.start + k - 1
          BY <1>1, <4>3, BytePlace, SMTT(30)
      <4> QED BY <4>1, <4>2, <4>4, Zenon
    <3> QED BY <3>1, <3>2
  <2> QED BY <2>3, <2>4, Zenon DEF FromMemory
<1>11. items' \subseteq {"exact", "short", "long"}
    BY <1>1, <1>6, <1>7
<1> QED BY <1>3, <1>4, <1>8, <1>9, <1>10, <1>11, Zenon DEF h

\* An answer is accepted, and the loop goes on.
LEMMA NextChunkIInv ==
    ASSUME IInv, pc = "wait", inbox # <<>>, inbox' = Tail(inbox),
           Head(inbox).kind = "ok", Head(inbox).ref = ref,
           pc' = "chunk", chunks' = Tail(chunks), offset' = offset + Head(chunks),
           UNCHANGED <<pdu, call, ref, mem, queue, status>>,
           call.kind = "write" => UNCHANGED <<out, items>>,
           call.kind = "read" =>
               /\ out' = out \o Head(inbox).bytes
               /\ items' = items \cup {ItemSize(Head(inbox))}
    PROVE  IInv'
<1>1. TypeOK /\ Planned /\ InOrder /\ Alone /\ Requested /\ Writing /\ Reading
    BY DEF IInv
<1>2. /\ offset \in Nat /\ ref \in Nat /\ call.start \in Nat /\ call.size \in Nat
      /\ call.start <= offset /\ offset <= call.start + call.size
      /\ call.kind \in {"read", "write"} /\ inbox \in Seq(Frames) /\ chunks # <<>>
    BY <1>1, TypeFacts DEF TypeOK, Planned
<1>3. /\ Head(chunks) \in Nat \ {0} /\ Head(chunks) <= Rest
      /\ Tail(chunks) \in Seq(Nat \ {0})
      /\ Tail(chunks) = planReadChunks(Rest - Head(chunks), MaxChunk(pdu, Overhead))
    BY <1>1, <1>2, ChunkNow
<1>4. /\ 1 \in 1..Len(inbox) /\ Head(inbox) = inbox[1] /\ Head(inbox) \in Frames
      /\ Len(inbox) = Len(inbox') + 1 /\ Len(inbox') \in Nat /\ inbox' \in Seq(Frames)
    BY <1>2, TailOf
<1>5. queue = <<>> /\ 1 = Len(inbox)
    BY <1>1, <1>4, LoneAnswer, Zenon
<1>6. inbox' = <<>>
    BY <1>4, <1>5
<1>7. InOrder'
  <2>1. ref' \in Nat /\ ref <= ref'
      BY <1>2
  <2> QED BY <1>1, <2>1, ReceiveInOrder, Zenon
<1>8. /\ offset' \in Nat /\ call'.start <= offset' /\ offset' <= call'.start + call'.size
      /\ Rest' = Rest - Head(chunks) /\ Overhead' = Overhead
      /\ offset' - call'.start = offset - call.start + Head(chunks)
      /\ offset' # call'.start
    BY <1>1, <1>2, OffsetAdvances
<1>9. Planned'
    BY <1>1, <1>2, <1>3, <1>8 DEF Planned
<1>10. Alone'
    BY <1>5, <1>6 DEF Alone, SuccessMeansInStep
<1>11. Requested' /\ OnlyThisCall'
  <2>1. 1..Len(queue') = {}
      BY <1>5, NoPositions
  <2> QED BY <2>1, Zenon DEF Requested, OnlyThisCall
<1>12. Writing'
  <2>1. ASSUME call.kind = "write", LengthsFit PROVE \E w \in 0..call.size : WrittenTo(w)'
    <3>1. PICK w \in 0..call.size : WrittenTo(w)
        BY <1>1, <2>1, Zenon DEF Writing
    <3>2. w = offset - call.start + Head(chunks)
        BY <1>4, <3>1, Zenon DEF WrittenTo
    <3>3. w = offset' - call.start
        BY <1>8, <3>2
    <3>4. pc' # "wait" /\ pc' # "idle" /\ 1..Len(queue') = {}
        BY <1>5, NoPositions
    <3>5. WrittenTo(w)'
        BY <1>11, <3>1, <3>3, <3>4, Zenon DEF WrittenTo, Wrote
    <3> QED BY <3>5
  <2> QED BY <1>1, <2>1, Zenon DEF Writing, LengthsFit
<1>13. ASSUME call.kind = "read"
       PROVE  /\ out' \in Seq(0..MaxCalls) /\ items' \subseteq {"exact", "short", "long"}
              /\ "long" \notin items' => Len(out') <= offset' - call'.start
              /\ "long" \notin items' /\ "short" \in items' => Len(out') < offset' - call'.start
              /\ items' \subseteq {"exact"} => Len(out') = offset' - call'.start
              /\ items' \subseteq {"exact"} => FromMemory(out, call.start)'
  <2>1. PICK b : b = Head(inbox).bytes
      OBVIOUS
  <2>2. b \in Seq(0..MaxCalls)
      BY <1>4, <2>1, FrameFacts, Zenon
  <2>3. FromMemory(b, offset)
      BY <1>1, <1>4, <1>13, <2>1, Zenon DEF Reading
  <2>4. out' = out \o b
      BY <1>13, <2>1, Zenon
  <2>5. items' = items \cup {IF Len(b) = Head(chunks) THEN "exact"
                             ELSE IF Len(b) < Head(chunks) THEN "short" ELSE "long"}
      BY <1>13, <2>1, Zenon DEF ItemSize
  <2> QED BY <1>1, <1>13, <2>2, <2>3, <2>4, <2>5, ItemRead, Zenon
<1>14. Reading'
  <2>1. pc' # "wait" /\ pc' # "idle"
      OBVIOUS
  <2> QED BY <1>11, <1>13, <2>1, Zenon DEF Reading
<1>15. TypeOK'
  <2>1. out' \in Seq(0..MaxCalls) /\ items' \subseteq {"exact", "short", "long"}
    <3>1. CASE call.kind = "read"
        BY <1>13, <3>1, Zenon
    <3>2. CASE call.kind = "write"
        BY <1>1, <3>2 DEF TypeOK
    <3> QED BY <1>2, <3>1, <3>2
  <2> QED BY <1>1, <1>3, <1>4, <1>8, <2>1 DEF TypeOK
<1>16. Finished'
    BY DEF Finished
<1> QED BY <1>7, <1>9, <1>10, <1>11, <1>12, <1>14, <1>15, <1>16 DEF IInv

-----------------------------------------------------------------------------
(* The device *)

\* The write of request q on mem, as the device may execute it.
Executes(q) == \E n \in {q.len, DataBytes(q.len)} : mem' = Written(q, n)

LEMMA WrittenByte ==
    ASSUME NEW q, NEW n, NEW a \in Cells
    PROVE  Written(q, n)[a] = IF Among(a, q.at, n) THEN q.val ELSE mem[a]
BY Zenon DEF Written, Among

\* The header of the data tells of no more bytes than there are, and of all of
\* them if the limit is not reached.
LEMMA DataBytesFacts ==
    ASSUME NEW n \in Nat
    PROVE  /\ DataBytes(n) \in 0..n
           /\ n * 8 < LengthLimit => DataBytes(n) = n
<1> DEFINE b == n * 8
           m == b % LengthLimit
<1>1. b \in Nat /\ LengthLimit \in Nat /\ LengthLimit > 0
    BY AreaAssumption
<1>2. m \in Nat /\ m <= b /\ (b < LengthLimit => m = b)
  <2> HIDE DEF b
  <2> QED BY <1>1, SMT
<1>3. DataBytes(n) = m \div 8
    BY DEF DataBytes
<1> HIDE DEF m
<1>4. m \div 8 \in 0..n /\ (m = b => m \div 8 = n)
    BY <1>2
<1> QED BY <1>2, <1>3, <1>4

LEMMA FunctionIsSeq ==
    ASSUME NEW S, NEW n \in Nat, NEW f \in [1..n -> S]
    PROVE  f \in Seq(S) /\ Len(f) = n
OBVIOUS

\* Bytes of device memory are what a byte can hold.
LEMMA MemBytesFacts ==
    ASSUME TypeOK, NEW a \in Nat, NEW n \in Nat, NEW m \in Nat, n <= m + 1,
           \A k \in 0..m : WireStart(a + k) \in Cells
    PROVE  MemBytes(a, n) \in Seq(0..MaxCalls) /\ FromMemory(MemBytes(a, n), a)
<1>1. ASSUME NEW i \in 1..n PROVE mem[WireStart(a + i - 1)] \in 0..MaxCalls
  <2>1. i - 1 \in 0..m /\ a + (i - 1) = a + i - 1
      OBVIOUS
  <2>2. WireStart(a + i - 1) \in Cells
      BY <2>1
  <2> QED BY <2>2 DEF TypeOK
<1> DEFINE f == [i \in 1..n |-> mem[WireStart(a + i - 1)]]
<1>2. f \in [1..n -> 0..MaxCalls]
    BY <1>1
<1>3. \A k \in 1..n : f[k] = mem[WireStart(a + k - 1)]
    OBVIOUS
<1>4. MemBytes(a, n) = f
    BY Zenon DEF MemBytes
<1> HIDE DEF f
<1>5. f \in Seq(0..MaxCalls) /\ Len(f) = n
    BY <1>2, FunctionIsSeq, Zenon
<1> QED BY <1>3, <1>4, <1>5, Zenon DEF FromMemory

LEMMA NoBytes == <<>> \in Seq(0..MaxCalls)
BY EmptySeq, Zenon

\* An answer that carries no bytes and executes nothing.
LEMMA RefuseFrame ==
    ASSUME NEW q \in Requests, NEW answer, Refuse(q, answer)
    PROVE  \E f \in Frames : inbox' = Append(inbox, f) /\ f.ref = q.ref /\ f.kind # "ok"
<1>1. q.ref \in 0..MaxRef
    BY RequestFacts
<1>2. CASE Answer(q, "itemErr", TRUE, TRUE, <<>>)
  <2> DEFINE f == [ref |-> q.ref, kind |-> "itemErr", item |-> TRUE, sized |-> TRUE, bytes |-> <<>>]
  <2>1. f \in Frames
      BY <1>1, NoBytes, Zenon DEF Frames
  <2>2. inbox' = Append(inbox, f) /\ f.ref = q.ref /\ f.kind # "ok"
      BY <1>2, Zenon DEF Answer
  <2> QED BY <2>1, <2>2, Zenon
<1>3. CASE Answer(q, "itemErr", TRUE, FALSE, <<>>)
  <2> DEFINE f == [ref |-> q.ref, kind |-> "itemErr", item |-> TRUE, sized |-> FALSE, bytes |-> <<>>]
  <2>1. f \in Frames
      BY <1>1, NoBytes, Zenon DEF Frames
  <2>2. inbox' = Append(inbox, f) /\ f.ref = q.ref /\ f.kind # "ok"
      BY <1>3, Zenon DEF Answer
  <2> QED BY <2>1, <2>2, Zenon
<1>4. CASE Answer(q, "badBody", FALSE, FALSE, <<>>)
  <2> DEFINE f == [ref |-> q.ref, kind |-> "badBody", item |-> FALSE, sized |-> FALSE, bytes |-> <<>>]
  <2>1. f \in Frames
      BY <1>1, NoBytes, Zenon DEF Frames
  <2>2. inbox' = Append(inbox, f) /\ f.ref = q.ref /\ f.kind # "ok"
      BY <1>4, Zenon DEF Answer
  <2> QED BY <2>1, <2>2, Zenon
<1>5. CASE Answer(q, "s7err", FALSE, FALSE, <<>>)
  <2> DEFINE f == [ref |-> q.ref, kind |-> "s7err", item |-> FALSE, sized |-> FALSE, bytes |-> <<>>]
  <2>1. f \in Frames
      BY <1>1, NoBytes, Zenon DEF Frames
  <2>2. inbox' = Append(inbox, f) /\ f.ref = q.ref /\ f.kind # "ok"
      BY <1>5, Zenon DEF Answer
  <2> QED BY <2>1, <2>2, Zenon
<1> QED BY <1>2, <1>3, <1>4, <1>5, Zenon DEF Refuse

\* What the device does with a request.
LEMMA Served ==
    ASSUME IInv, Serve, NEW q, q = Head(queue)
    PROVE  /\ q \in Requests /\ queue # <<>> /\ queue' = Tail(queue)
           /\ UNCHANGED <<pdu, pc, callVars, ref, status>>
           /\ \E f \in Frames :
                 /\ inbox' = Append(inbox, f) /\ f.ref = q.ref
                 /\ \/ q.kind = "read" /\ UNCHANGED mem
                       /\ (f.kind = "ok" => FromMemory(f.bytes, q.at))
                    \/ q.kind = "write" /\ UNCHANGED mem /\ f.kind # "ok"
                    \/ q.kind = "write" /\ Executes(q)
<1>1. TypeOK /\ Requested /\ queue \in Seq(Requests)
    BY DEF IInv, TypeOK
<1>2. queue # <<>> /\ queue' = Tail(queue) /\ UNCHANGED <<pdu, pc, callVars, ref, status>>
    BY Zenon DEF Serve
<1>3. 1 \in 1..Len(queue) /\ q = queue[1] /\ q \in Requests
    BY <1>1, <1>2, TailOf
<1>4. /\ q.at \in Nat /\ q.len \in Nat /\ q.len # 0
      /\ \A k \in 0..q.len : WireStart(q.at + k) \in Cells
  <2>1. RequestOK(q)
      BY <1>1, <1>3, Zenon DEF Requested
  <2> QED BY <1>3, <2>1, RequestFacts DEF RequestOK
<1>5. q.ref \in 0..MaxRef
    BY <1>3, RequestFacts
<1>6. ASSUME NEW n \in Nat, n <= q.len + 1, Answer(q, "ok", TRUE, TRUE, MemBytes(q.at, n))
      PROVE  \E f \in Frames : /\ inbox' = Append(inbox, f) /\ f.ref = q.ref
                               /\ FromMemory(f.bytes, q.at)
  <2>1. PICK b : b = MemBytes(q.at, n)
      OBVIOUS
  <2>2. b \in Seq(0..MaxCalls) /\ FromMemory(b, q.at)
      BY <1>1, <1>4, <1>6, <2>1, MemBytesFacts, Zenon
  <2> DEFINE f == [ref |-> q.ref, kind |-> "ok", item |-> TRUE, sized |-> TRUE, bytes |-> b]
  <2>3. f \in Frames
      BY <1>5, <2>2, Zenon DEF Frames
  <2>4. inbox' = Append(inbox, f) /\ f.ref = q.ref /\ f.bytes = b
      BY <1>6, <2>1, Zenon DEF Answer
  <2> QED BY <2>2, <2>3, <2>4, Zenon
<1>7. CASE q.kind = "read"
  <2>1. UNCHANGED mem
      BY <1>7 DEF Serve
  <2>2. PICK answer \in ReadAnswers :
           \/ Refuse(q, answer)
           \/ answer = "noItems" /\ Answer(q, "ok", FALSE, TRUE, <<>>)
           \/ /\ answer = "full"
              /\ Answer(q, "ok", TRUE, TRUE, MemBytes(q.at, q.len))
           \/ /\ answer = "long"
              /\ Answer(q, "ok", TRUE, TRUE, MemBytes(q.at, q.len + 1))
           \/ /\ answer = "short"
              /\ \E k \in 0..(q.len - 1) :
                    Answer(q, "ok", TRUE, TRUE, MemBytes(q.at, k))
    <3>1. q.kind # "write"
        BY <1>7
    <3> QED BY <3>1, Zenon DEF Serve
  <2>3. CASE Refuse(q, answer)
      BY <1>2, <1>3, <1>7, <2>1, <2>3, RefuseFrame, Zenon
  <2>4. CASE Answer(q, "ok", FALSE, TRUE, <<>>)
    <3> DEFINE f == [ref |-> q.ref, kind |-> "ok", item |-> FALSE, sized |-> TRUE, bytes |-> <<>>]
    <3>1. f \in Frames
        BY <1>5, NoBytes, Zenon DEF Frames
    <3>2. inbox' = Append(inbox, f) /\ f.ref = q.ref /\ f.bytes = <<>>
        BY <2>4, Zenon DEF Answer
    <3>3. FromMemory(f.bytes, q.at)
        BY <3>2, NoPositions, Zenon DEF FromMemory
    <3> QED BY <1>2, <1>3, <1>7, <2>1, <3>1, <3>2, <3>3, Zenon
  <2>5. CASE \E n \in Nat : n <= q.len + 1 /\ Answer(q, "ok", TRUE, TRUE, MemBytes(q.at, n))
      BY <1>2, <1>3, <1>6, <1>7, <2>1, <2>5, Zenon
  <2>6. /\ q.len \in Nat /\ q.len <= q.len + 1 /\ q.len + 1 \in Nat /\ q.len + 1 <= q.len + 1
        /\ \A k \in 0..(q.len - 1) : k \in Nat /\ k <= q.len + 1
      BY <1>4
  <2> QED BY <2>2, <2>3, <2>4, <2>5, <2>6, Zenon
<1>8. CASE q.kind = "write"
  <2>1. PICK answer \in WriteAnswers :
           \/ Refuse(q, answer) /\ UNCHANGED mem
           \/ /\ answer = "full"
              /\ Answer(q, "ok", TRUE, TRUE, <<>>)
              /\ Executes(q)
    <3>1. q.kind # "read"
        BY <1>8
    <3> QED BY <3>1, Zenon DEF Serve, Executes
  <2>2. CASE Refuse(q, answer) /\ UNCHANGED mem
      BY <1>2, <1>3, <1>8, <2>2, RefuseFrame, Zenon
  <2>3. CASE Answer(q, "ok", TRUE, TRUE, <<>>) /\ Executes(q)
    <3> DEFINE f == [ref |-> q.ref, kind |-> "ok", item |-> TRUE, sized |-> TRUE, bytes |-> <<>>]
    <3>1. f \in Frames
        BY <1>5, NoBytes, Zenon DEF Frames
    <3>2. inbox' = Append(inbox, f) /\ f.ref = q.ref
        BY <2>3, Zenon DEF Answer
    <3> QED BY <1>2, <1>3, <1>8, <2>3, <3>1, <3>2, Zenon
  <2> QED BY <2>1, <2>2, <2>3, Zenon
<1>9. q.kind \in {"read", "write"}
    BY <1>3, RequestFacts
<1> QED BY <1>7, <1>8, <1>9

\* A request moves over to the answers.
LEMMA ServeInOrder ==
    ASSUME TypeOK, InOrder, queue # <<>>, queue' = Tail(queue), NEW f \in Frames,
           inbox' = Append(inbox, f), f.ref = Head(queue).ref, UNCHANGED ref
    PROVE  InOrder'
<1>1. queue \in Seq(Requests) /\ inbox \in Seq(Frames)
    BY DEF TypeOK
<1>2. /\ Len(queue') \in Nat /\ Len(queue) = Len(queue') + 1 /\ Head(queue) = queue[1]
      /\ 1 \in 1..Len(queue)
      /\ \A p \in 1..Len(queue') : p + 1 \in 1..Len(queue) /\ queue'[p] = queue[p + 1]
    BY <1>1, TailOf
<1>3. /\ Len(inbox') = Len(inbox) + 1 /\ Len(inbox) \in Nat /\ inbox'[Len(inbox')] = f
      /\ \A p \in 1..Len(inbox) : inbox'[p] = inbox[p]
      /\ \A p \in 1..Len(inbox') : p \in 1..Len(inbox) \/ p = Len(inbox')
    BY <1>1, AppendOf
<1>4. ASSUME NEW p \in 1..Len(inbox'), ~(p \in 1..Len(inbox)) PROVE inbox'[p] = f
    BY <1>3, <1>4, Zenon
<1>5. \A p \in 1..Len(queue') : queue'[p].ref <= ref
    BY <1>2, Zenon DEF InOrder
<1>6. \A p \in 1..Len(inbox') : inbox'[p].ref <= ref
    BY <1>2, <1>3, <1>4, Zenon DEF InOrder
<1>7. \A p, q \in 1..Len(queue') : p < q => queue'[p].ref < queue'[q].ref
  <2> SUFFICES ASSUME NEW p \in 1..Len(queue'), NEW q \in 1..Len(queue'), p < q
               PROVE  queue'[p].ref < queue'[q].ref
      OBVIOUS
  <2>1. p + 1 < q + 1
      BY <1>2
  <2> QED BY <1>2, <2>1, Zenon DEF InOrder
<1>8. \A p, q \in 1..Len(inbox') : p < q => inbox'[p].ref < inbox'[q].ref
  <2> SUFFICES ASSUME NEW p \in 1..Len(inbox'), NEW q \in 1..Len(inbox'), p < q
               PROVE  inbox'[p].ref < inbox'[q].ref
      OBVIOUS
  <2>1. p \in 1..Len(inbox)
      BY <1>3
  <2>2. CASE q \in 1..Len(inbox)
      BY <1>3, <2>1, <2>2, Zenon DEF InOrder
  <2>3. CASE ~(q \in 1..Len(inbox))
      BY <1>2, <1>3, <1>4, <2>1, <2>3, Zenon DEF InOrder
  <2> QED BY <2>2, <2>3
<1>9. \A p \in 1..Len(inbox'), q \in 1..Len(queue') : inbox'[p].ref < queue'[q].ref
  <2> SUFFICES ASSUME NEW p \in 1..Len(inbox'), NEW q \in 1..Len(queue')
               PROVE  inbox'[p].ref < queue'[q].ref
      OBVIOUS
  <2>1. 1 < q + 1
      BY <1>2
  <2>2. CASE p \in 1..Len(inbox)
      BY <1>2, <1>3, <2>2, Zenon DEF InOrder
  <2>3. CASE ~(p \in 1..Len(inbox))
      BY <1>2, <1>4, <2>1, <2>3, Zenon DEF InOrder
  <2> QED BY <2>2, <2>3
<1> QED BY <1>5, <1>6, <1>7, <1>8, <1>9, Zenon DEF InOrder

\* The first w bytes and the n that follow are the first w + n.
LEMMA BytesJoin ==
    ASSUME call.start \in Nat, offset \in Nat, NEW w \in Nat, w = offset - call.start,
           NEW n \in Nat, NEW x, x = w + n, NEW a
    PROVE  Among(a, call.start, x) <=> Among(a, call.start, w) \/ Among(a, offset, n)
<1>1. ASSUME NEW k \in 0..(w - 1) PROVE k \in 0..(x - 1)
    OBVIOUS
<1>2. ASSUME NEW k \in 0..(n - 1) PROVE w + k \in 0..(x - 1) /\ call.start + (w + k) = offset + k
    OBVIOUS
<1>3. ASSUME NEW k \in 0..(x - 1)
      PROVE  k \in 0..(w - 1) \/ (k - w \in 0..(n - 1) /\ offset + (k - w) = call.start + k)
    OBVIOUS
<1>4. ASSUME NEW k \in 0..(n - 1), a = WireStart(offset + k)
      PROVE  \E i \in 0..(x - 1) : a = WireStart(call.start + i)
  <2>1. a = WireStart(call.start + (w + k))
      BY <1>2, <1>4, Zenon
  <2> QED BY <1>2, <2>1, Zenon
<1>5. ASSUME NEW k \in 0..(x - 1), a = WireStart(call.start + k)
      PROVE  \/ \E i \in 0..(w - 1) : a = WireStart(call.start + i)
             \/ \E i \in 0..(n - 1) : a = WireStart(offset + i)
  <2>1. CASE k \in 0..(w - 1)
      BY <1>5, <2>1, Zenon
  <2>2. CASE k - w \in 0..(n - 1) /\ offset + (k - w) = call.start + k
    <3>1. a = WireStart(offset + (k - w))
        BY <1>5, <2>2, Zenon
    <3> QED BY <2>2, <3>1, Zenon
  <2> QED BY <1>3, <2>1, <2>2, Zenon
<1> QED BY <1>1, <1>4, <1>5, Zenon DEF Among

\* The device writes one chunk of the last call.
LEMMA ChunkWritten ==
    ASSUME TypeOK, NEW q \in Requests, NEW w \in Nat, Wrote(w), q.val = call.n,
           w = offset - call.start, q.at = offset, mem' = Written(q, q.len), UNCHANGED call,
           NEW x, x = w + q.len
    PROVE  Wrote(x)'
<1>1. call.start \in Nat /\ offset \in Nat /\ q.len \in Nat
    BY TypeFacts, RequestFacts
<1>2. ASSUME NEW a \in Cells PROVE mem'[a] = call.n <=> Among(a, call.start, x)
  <2>1. mem'[a] = call.n <=> Among(a, offset, q.len) \/ mem[a] = call.n
      BY WrittenByte, Zenon
  <2>2. mem[a] = call.n <=> Among(a, call.start, w)
      BY Zenon DEF Wrote
  <2>3. Among(a, call.start, x) <=> Among(a, call.start, w) \/ Among(a, offset, q.len)
      BY <1>1, BytesJoin
  <2> QED BY <2>1, <2>2, <2>3, Zenon
<1> QED BY <1>2, Zenon DEF Wrote

\* The write of another call's request.
LEMMA OtherWritten ==
    ASSUME NEW q, NEW n, q.val # call.n, mem' = Written(q, n)
    PROVE  \A a \in Cells : mem'[a] = call.n => mem[a] = call.n
BY WrittenByte, Zenon

\* A chunk is part of the range.
LEMMA ChunkAmong ==
    ASSUME NEW s \in Nat, NEW m \in Nat, NEW o \in Nat, NEW l \in Nat, NEW n \in 0..l,
           s <= o, l <= s + m - o, NEW a, Among(a, o, n)
    PROVE  Among(a, s, m)
<1>1. PICK k \in 0..(n - 1) : a = WireStart(o + k)
    BY Zenon DEF Among
<1>2. (o - s) + k \in 0..(m - 1) /\ s + ((o - s) + k) = o + k
    OBVIOUS
<1>3. a = WireStart(s + ((o - s) + k))
    BY <1>1, <1>2, Zenon
<1> QED BY <1>2, <1>3, Zenon DEF Among

LEMMA WriteBound ==
    ASSUME NEW s \in Nat, NEW n \in Nat, NEW o \in Nat, NEW l \in Nat \ {0}, NEW w \in Nat,
           w = o - s, l <= s + n - o
    PROVE  w + l \in 0..n /\ n # 0
OBVIOUS

\* The device serves a request.
LEMMA ServeIInv ==
    ASSUME IInv, Serve
    PROVE  IInv'
<1>1. TypeOK /\ Planned /\ InOrder /\ Alone /\ Requested /\ Writing /\ Reading /\ Finished
    BY DEF IInv
<1>2. PICK q : q = Head(queue)
    OBVIOUS
<1>3. /\ q \in Requests /\ queue # <<>> /\ queue' = Tail(queue)
      /\ UNCHANGED <<pdu, pc, callVars, ref, status>>
    BY <1>2, Served, Zenon
<1>4. PICK f \in Frames :
         /\ inbox' = Append(inbox, f) /\ f.ref = q.ref
         /\ \/ q.kind = "read" /\ UNCHANGED mem
               /\ (f.kind = "ok" => FromMemory(f.bytes, q.at))
            \/ q.kind = "write" /\ UNCHANGED mem /\ f.kind # "ok"
            \/ q.kind = "write" /\ Executes(q)
    BY <1>2, Served, Zenon
<1>28. q.len \in Nat
    BY <1>3, RequestFacts
<1>29. PICK n \in 0..q.len : /\ DataBytes(q.len) = q.len => n = q.len
                             /\ Executes(q) => mem' = Written(q, n)
  <2>1. DataBytes(q.len) \in 0..q.len /\ q.len \in 0..q.len
      BY <1>28, DataBytesFacts
  <2>2. CASE Executes(q)
    <3>1. PICK n \in {q.len, DataBytes(q.len)} : mem' = Written(q, n)
        BY <2>2, Zenon DEF Executes
    <3> QED BY <2>1, <3>1, Zenon
  <2> QED BY <2>1, <2>2, Zenon
<1>5. UNCHANGED <<pdu, pc, call, chunks, offset, out, items, ref, status>>
    BY <1>3, Zenon DEF callVars
<1>6. /\ queue \in Seq(Requests) /\ queue' \in Seq(Requests) /\ Len(queue') \in Nat
      /\ Len(queue) = Len(queue') + 1
      /\ q = queue[1] /\ 1 \in 1..Len(queue)
      /\ \A p \in 1..Len(queue') : p + 1 \in 1..Len(queue) /\ queue'[p] = queue[p + 1]
  <2>1. queue \in Seq(Requests)
      BY <1>1 DEF TypeOK
  <2> QED BY <1>2, <1>3, <2>1, TailOf
<1>7. /\ inbox \in Seq(Frames) /\ inbox' \in Seq(Frames) /\ inbox'[Len(inbox')] = f
      /\ \A p \in 1..Len(inbox) : inbox'[p] = inbox[p]
      /\ \A p \in 1..Len(inbox') : p \in 1..Len(inbox) \/ p = Len(inbox')
  <2>1. inbox \in Seq(Frames)
      BY <1>1 DEF TypeOK
  <2> QED BY <1>4, <2>1, AppendOf
<1>8. RequestOK(q)
    BY <1>1, <1>6, Zenon DEF Requested
<1>9. /\ q.at \in Nat /\ q.len \in Nat \ {0} /\ q.val \in 0..MaxCalls /\ q.val <= call.n
      /\ offset \in Nat /\ call.start \in Nat /\ call.size \in Nat
      /\ call.start <= offset /\ offset <= call.start + call.size
      /\ call.n \in Nat /\ MaxCalls \in Nat
  <2>1. q.val <= call.n
      BY <1>8, Zenon DEF RequestOK
  <2>2. call.start <= offset /\ offset <= call.start + call.size
      BY <1>1, Zenon DEF Planned
  <2>3. call.n \in Nat
      BY <1>1, TypeFacts
  <2> QED BY <1>1, <1>3, <2>1, <2>2, <2>3, RequestFacts, TypeFacts, Zenon
<1>10. InOrder'
    BY <1>1, <1>2, <1>3, <1>4, <1>5, ServeInOrder, Zenon
\* The request of the last call is the last one.
<1>11. q.val = call.n => queue' = <<>>
  <2> SUFFICES ASSUME q.val = call.n PROVE queue' = <<>>
      OBVIOUS
  <2>1. q.ref = ref
      BY <1>8, Zenon DEF RequestOK
  <2>2. 1 = Len(queue)
      BY <1>1, <1>6, <2>1, LastRequest, Zenon
  <2> QED BY <1>6, <2>2
<1>12. pc = "wait" /\ f.ref = ref => q.val = call.n
    BY <1>4, <1>8, Zenon DEF RequestOK
<1>13. q.val = call.n => q.kind = call.kind /\ q.at = offset /\ pc # "chunk"
                         /\ q.len <= Rest /\ (pc = "wait" => q.len = Head(chunks))
    BY <1>8, Zenon DEF RequestOK
<1>14. \A p \in 1..Len(inbox) : inbox[p].ref # ref
  <2> SUFFICES ASSUME NEW p \in 1..Len(inbox), inbox[p].ref = ref PROVE FALSE
      OBVIOUS
  <2>1. queue = <<>>
      BY <1>1, LoneAnswer, Zenon
  <2> QED BY <1>3, <2>1
\* The answers to the current request.
<1>15. \A p \in 1..Len(inbox') : inbox'[p].ref = ref => inbox'[p] = f
    BY <1>7, <1>14, Zenon
<1>16. \A a \in Cells : mem'[a] \in 0..MaxCalls /\ mem'[a] <= call.n
  <2>1. \A a \in Cells : mem[a] \in 0..MaxCalls /\ mem[a] <= call.n
      BY <1>1 DEF TypeOK, Writing
  <2>2. CASE UNCHANGED mem
      BY <2>1, <2>2
  <2>3. CASE mem' = Written(q, n)
    <3>1. \A a \in Cells : mem'[a] = q.val \/ mem'[a] = mem[a]
        BY <2>3, WrittenByte, Zenon
    <3> QED BY <1>9, <2>1, <3>1, Zenon
  <2> QED BY <1>4, <1>29, <2>2, <2>3, Zenon
<1>17. TypeOK'
  <2>1. mem' \in [Cells -> 0..MaxCalls]
    <3>1. CASE UNCHANGED mem
        BY <1>1, <3>1 DEF TypeOK
    <3>2. CASE mem' = Written(q, n)
      <4>1. mem' = [a \in Cells |-> mem'[a]]
          BY <3>2, Zenon DEF Written
      <4> QED BY <1>16, <4>1
    <3> QED BY <1>4, <1>29, <3>1, <3>2, Zenon
  <2> QED BY <1>1, <1>5, <1>6, <1>7, <2>1, Zenon DEF TypeOK
<1>18. Planned'
  <2>1. Rest' = Rest /\ Overhead' = Overhead
      BY <1>5, Zenon DEF Rest, Overhead
  <2> QED BY <1>1, <1>5, <2>1, Zenon DEF Planned
<1>19. Alone'
    BY <1>1, <1>3, <1>5, Zenon DEF Alone, SuccessMeansInStep
<1>20. Requested'
  <2>1. Rest' = Rest
      BY <1>5, Zenon DEF Rest
  <2>2. ASSUME NEW p \in 1..Len(queue') PROVE RequestOK(queue[p])'
    <3>1. PICK r : r = queue'[p]
        OBVIOUS
    <3>2. RequestOK(r)
        BY <1>1, <1>6, <3>1, Zenon DEF Requested
    <3> QED BY <1>5, <2>1, <3>1, <3>2, Zenon DEF RequestOK
  <2> QED BY <2>2, Zenon DEF Requested
<1>21. OnlyThisCall => OnlyThisCall' /\ q.val = call.n
    BY <1>5, <1>6, Zenon DEF OnlyThisCall
<1>22. ASSUME call.kind = "write", LengthsFit PROVE \E w \in 0..call.size : WrittenTo(w)'
  <2>1. PICK w \in 0..call.size : WrittenTo(w)
      BY <1>1, <1>22, Zenon DEF Writing
  <2>2. w \in Nat /\ w <= call.size
      BY <1>9, <2>1
  <2>3. CASE q.kind = "write" /\ Executes(q) /\ q.val = call.n
    <3>11. mem' = Written(q, q.len)
      <4>1. q.len <= MaxChunk(pdu, WriteVarRequestOverhead) /\ q.len <= Rest
          BY <1>8, <2>3, Zenon DEF RequestOK
      <4>2. q.len <= call.size
          BY <1>9, <4>1 DEF Rest
      <4>3. /\ MaxChunk(pdu, WriteVarRequestOverhead) \in Nat
            /\ MinOf(MaxChunk(pdu, WriteVarRequestOverhead), call.size) * 8 < LengthLimit
            /\ LengthLimit \in Nat
          BY <1>1, <1>22, TypeFacts, MaxChunkFacts, AreaAssumption DEF LengthsFit
      <4>4. q.len * 8 < LengthLimit
        <5> DEFINE m == MaxChunk(pdu, WriteVarRequestOverhead)
        <5> HIDE DEF m
        <5> QED BY <1>9, <4>1, <4>2, <4>3 DEF MinOf, m
      <4> QED BY <1>28, <1>29, <2>3, <4>4, DataBytesFacts
    <3> DEFINE x == w + q.len
    <3>1. w = offset - call.start
        BY <1>6, <2>1, <2>3, Zenon DEF WrittenTo
    <3>2. q.len <= call.start + call.size - offset /\ q.at = offset /\ pc # "chunk"
          /\ (pc = "wait" => q.len = Head(chunks))
        BY <1>13, <2>3, Zenon DEF Rest
    <3>3. x \in 0..call.size /\ call.size # 0
        BY <1>9, <2>2, <3>1, <3>2, WriteBound
    <3>4. Wrote(w)
        BY <2>1, Zenon DEF WrittenTo
    <3>5. Wrote(x)'
        BY <1>1, <1>3, <1>5, <2>2, <2>3, <3>1, <3>2, <3>4, <3>11, ChunkWritten
    <3>6. pc = "wait" => x = offset - call.start + Head(chunks)
        BY <3>1, <3>2, Zenon
    <3>7. ~(pc = "idle" /\ status = "success")
      <4>1. call.size > 0
          BY <1>9, <3>3
      <4> QED BY <1>1, <1>3, <4>1, Zenon DEF Alone, SuccessMeansInStep
    <3>8. 1..Len(queue') = {}
        BY <1>11, <2>3, NoPositions
    <3>9. PICK y : y = x
        OBVIOUS
    <3> HIDE DEF x
    <3>10. WrittenTo(y)'
        BY <1>5, <3>2, <3>5, <3>6, <3>7, <3>8, <3>9, Zenon DEF WrittenTo, OnlyThisCall, Wrote
    <3> QED BY <3>3, <3>9, <3>10, Zenon
  <2>4. CASE q.kind = "write" /\ Executes(q) /\ q.val # call.n
    <3>1. ~OnlyThisCall
        BY <1>21, <2>4, Zenon
    <3>2. ~(w > 0)
        BY <2>1, <3>1, Zenon DEF WrittenTo
    <3>3. w = 0
        BY <2>2, <3>2
    <3>4. \A a : ~Among(a, call.start, w)
        BY <3>3 DEF Among
    <3>5. \A a \in Cells : mem'[a] # call.n
      <4>1. \A a \in Cells : mem[a] # call.n
          BY <2>1, <3>4, Zenon DEF WrittenTo, Wrote
      <4>2. \A a \in Cells : mem'[a] = call.n => mem[a] = call.n
          BY <1>29, <2>4, OtherWritten, Zenon
      <4> QED BY <4>1, <4>2, Zenon
    <3>6. Wrote(w)'
        BY <1>5, <3>4, <3>5, Zenon DEF Wrote
    <3>7. pc = "wait" => \A p \in 1..Len(inbox') : inbox'[p].ref # ref
        BY <1>12, <1>15, <2>4, Zenon
    <3>8. \A p \in 1..Len(queue') : queue'[p].val = call.n => w = offset - call.start
        BY <1>6, <2>1, Zenon DEF WrittenTo
    <3>9. WrittenTo(w)'
        BY <1>5, <2>1, <3>2, <3>6, <3>7, <3>8, Zenon DEF WrittenTo
    <3> QED BY <3>9
  <2>5. CASE UNCHANGED mem /\ (f.kind = "ok" => q.kind # "write")
    <3>1. Wrote(w)'
        BY <1>5, <2>1, <2>5, Zenon DEF Wrote, WrittenTo
    <3>2. pc = "wait" => \A p \in 1..Len(inbox') : ~(inbox'[p].ref = ref /\ inbox'[p].kind = "ok")
        BY <1>12, <1>13, <1>15, <1>22, <2>5, Zenon
    <3>3. \A p \in 1..Len(queue') : queue'[p].val = call.n => w = offset - call.start
        BY <1>6, <2>1, Zenon DEF WrittenTo
    <3>4. WrittenTo(w)'
        BY <1>5, <1>21, <2>1, <3>1, <3>2, <3>3, Zenon DEF WrittenTo
    <3> QED BY <3>4
  <2>6. q.kind = "read" => q.kind # "write"
      OBVIOUS
  <2> QED BY <1>4, <2>3, <2>4, <2>5, <2>6, Zenon
<1>30. ASSUME call.kind = "write", NEW a \in Cells, mem'[a] = call.n
       PROVE  Among(a, call.start, call.size)
  <2>1. mem[a] = call.n => Among(a, call.start, call.size)
      BY <1>1, <1>30, Zenon DEF Writing
  <2>2. CASE UNCHANGED mem
      BY <1>30, <2>1, <2>2
  <2>3. CASE Executes(q)
    <3>1. CASE q.val # call.n
        BY <1>29, <1>30, <2>1, <2>3, <3>1, OtherWritten, Zenon
    <3>2. CASE q.val = call.n /\ Among(a, q.at, n)
      <4>1. q.at = offset /\ q.len <= call.start + call.size - offset
          BY <1>13, <3>2, Zenon DEF Rest
      <4> QED BY <1>9, <1>28, <3>2, <4>1, ChunkAmong
    <3>3. CASE ~Among(a, q.at, n)
      <4>1. mem' = Written(q, n)
          BY <1>29, <2>3
      <4>2. mem'[a] = mem[a]
          BY <3>3, <4>1, WrittenByte, Zenon
      <4> QED BY <1>30, <2>1, <4>2
    <3> QED BY <3>1, <3>2, <3>3, Zenon
  <2> QED BY <1>4, <2>2, <2>3, Zenon
<1>23. Writing'
    BY <1>5, <1>16, <1>22, <1>30, Zenon DEF Writing, LengthsFit
<1>24. ASSUME call.kind = "read", q.val = call.n
       PROVE  UNCHANGED mem /\ q.at = offset /\ (f.kind = "ok" => FromMemory(f.bytes, offset))
  <2>1. q.kind = "read" /\ q.at = offset
      BY <1>13, <1>24, Zenon
  <2>2. q.kind # "write"
      BY <2>1
  <2> QED BY <1>4, <2>1, <2>2, Zenon
<1>25. Reading'
  <2> SUFFICES ASSUME call.kind = "read" PROVE Reading'
      BY <1>5, Zenon DEF Reading
  <2>1. out # <<>> => OnlyThisCall' /\ UNCHANGED mem
      BY <1>1, <1>21, <1>24, Zenon DEF Reading
  <2>2. items \subseteq {"exact"} => FromMemory(out, call.start)'
    <3>1. CASE out # <<>>
        BY <1>1, <1>5, <2>1, <3>1, Zenon DEF Reading, FromMemory
    <3>2. CASE out = <<>>
        BY <1>5, <3>2, NoPositions, Zenon DEF FromMemory
    <3> QED BY <3>1, <3>2
  <2>3. ASSUME pc = "wait", NEW p \in 1..Len(inbox'), inbox'[p].ref = ref, inbox'[p].kind = "ok"
        PROVE  FromMemory(inbox[p].bytes, offset)'
    <3>1. inbox'[p] = f /\ f.ref = ref /\ f.kind = "ok"
        BY <1>15, <2>3, Zenon
    <3>2. UNCHANGED mem /\ FromMemory(f.bytes, offset)
        BY <1>12, <1>24, <2>3, <3>1, Zenon
    <3> QED BY <1>5, <3>1, <3>2, Zenon DEF FromMemory
  <2> QED BY <1>1, <1>5, <2>1, <2>2, <2>3, Zenon DEF Reading
<1>26. Finished'
    BY <1>1, <1>5, Zenon DEF Finished
<1> QED BY <1>10, <1>17, <1>18, <1>19, <1>20, <1>23, <1>25, <1>26 DEF IInv

-----------------------------------------------------------------------------
(* The steps of the loop *)

LEMMA ClassifyFacts ==
    ASSUME NEW err, err # {}
    PROVE  classifyOpError(err) \in Statuses /\ classifyOpError(err) # "success"
BY DEF classifyOpError, Statuses, ReadStatuses

\* The call returns an error of the exchange.
LEMMA FailsIInv ==
    ASSUME IInv, pc # "idle", NEW err, err # {}, Fails(err),
           UNCHANGED <<pdu, call, items, offset, mem, queue>>,
           UNCHANGED inbox \/ (inbox # <<>> /\ inbox' = Tail(inbox)),
           ref' = ref \/ (pc = "chunk" /\ ref < MaxRef /\ ref' = ref + 1)
    PROVE  IInv'
<1>1. pc' = "idle" /\ status' = classifyOpError(err) /\ out' = <<>> /\ chunks' = <<>>
    BY Zenon DEF Fails, Return
<1>2. status' \in Statuses /\ status' # "success"
    BY <1>1, ClassifyFacts, Zenon
<1> QED BY <1>1, <1>2, CallEnds, Zenon

LEMMA OutcomeFacts ==
    ASSUME NEW size \in Nat, NEW n \in Nat
    PROVE  /\ ClassifyReadOutcome(size, n) \in Statuses
           /\ ClassifyReadOutcome(size, n) \notin {"timeout", "transport-error"}
           /\ ClassifyReadOutcome(size, n) = "success" => n >= size
BY DEF ClassifyReadOutcome, Statuses, ReadStatuses

LEMMA FinishIInv ==
    ASSUME IInv, Finish
    PROVE  IInv'
<1>1. TypeOK /\ Planned
    BY DEF IInv
<1>2. /\ pc = "chunk" /\ chunks = <<>> /\ pc' = "idle" /\ out' = out /\ chunks' = <<>>
      /\ status' = IF call.kind = "read" THEN ClassifyReadOutcome(call.size, Len(out))
                                         ELSE "success"
      /\ UNCHANGED <<pdu, call, items, offset, ref, mem, queue, inbox>>
    BY Zenon DEF Finish, Return
<1>3. pc # "idle"
    BY <1>2
<1>4. Rest = 0 /\ call.size \in Nat /\ Len(out) \in Nat
    BY <1>1, <1>2, <1>3, ChunkNow, TypeFacts, Zenon
<1>5. /\ status' \in Statuses /\ status' \notin {"timeout", "transport-error"}
      /\ status' = "success" /\ call.kind = "read" => Len(out) >= call.size
  <2>1. CASE call.kind = "read"
      BY <1>2, <1>4, <2>1, OutcomeFacts, Zenon
  <2>2. CASE call.kind # "read"
    <3>1. status' = "success"
        BY <1>2, <2>2, Zenon
    <3> QED BY <2>2, <3>1 DEF Statuses, ReadStatuses
  <2> QED BY <2>1, <2>2
<1> QED BY <1>2, <1>3, <1>4, <1>5, CallEnds, Zenon

LEMMA CancelledIInv ==
    ASSUME IInv, Cancelled
    PROVE  IInv'
<1>1. pc # "idle" /\ UNCHANGED <<pdu, call, items, offset, mem, queue>> /\ UNCHANGED inbox /\ ref' = ref
    BY DEF Cancelled
<1>2. PICK err \in {{"deadline"}, {"canceled"}} : Fails(err)
    BY Zenon DEF Cancelled
<1>3. err # {}
    OBVIOUS
<1> QED BY <1>1, <1>2, <1>3, FailsIInv, Zenon

LEMMA TransportErrorFacts ==
    ASSUME NEW err \in TransportErrors
    PROVE  err # {}
BY DEF TransportErrors

LEMMA SendChunkIInv ==
    ASSUME IInv, SendChunk
    PROVE  IInv'
<1>1. /\ pc = "chunk" /\ chunks # <<>> /\ ref < MaxRef /\ ref' = ref + 1
      /\ UNCHANGED <<pdu, call, items, offset, mem, inbox>>
    BY Zenon DEF SendChunk
<1>2. pc # "idle"
    BY <1>1
<1>3. CASE /\ pdu = 0 \/ RequestLength(call.kind, Head(chunks)) <= pdu
           /\ queue' = Append(queue, [kind |-> call.kind, ref |-> ref + 1, at |-> offset,
                                      len |-> Head(chunks), val |-> call.n])
           /\ pc' = "wait"
           /\ UNCHANGED <<chunks, out, status>>
    BY <1>1, <1>3, SendIInv, Zenon
<1>4. CASE Fails(ErrRequestExceedsPDU) /\ UNCHANGED queue
  <2>1. ErrRequestExceedsPDU # {}
      BY DEF ErrRequestExceedsPDU
  <2> QED BY <1>1, <1>2, <1>4, <2>1, FailsIInv, Zenon
<1>5. CASE (\E err \in TransportErrors : Fails(err)) /\ UNCHANGED queue
    BY <1>1, <1>2, <1>5, FailsIInv, TransportErrorFacts, Zenon
<1> QED BY <1>3, <1>4, <1>5, Zenon DEF SendChunk

LEMMA ReceiveFailsIInv ==
    ASSUME IInv, ReceiveFails
    PROVE  IInv'
<1>1. pc # "idle" /\ UNCHANGED <<pdu, call, items, offset, mem, queue>> /\ UNCHANGED inbox /\ ref' = ref
    BY DEF ReceiveFails
<1>2. PICK err \in TransportErrors : Fails(err)
    BY Zenon DEF ReceiveFails
<1> QED BY <1>1, <1>2, FailsIInv, TransportErrorFacts, Zenon

\* An answer without error has the reference of the request.
LEMMA AcceptedFacts ==
    ASSUME NEW frame, NEW r, r # 0, ResponseError(frame, r) = {}
    PROVE  frame.ref = r
BY DEF ResponseError, PDURefMismatchError, ErrProtocolFailure

LEMMA ReceiveIInv ==
    ASSUME IInv, Receive
    PROVE  IInv'
<1>1. TypeOK /\ Planned
    BY DEF IInv
<1>2. /\ pc = "wait" /\ inbox # <<>> /\ inbox' = Tail(inbox)
      /\ UNCHANGED <<pdu, call, ref, mem, queue>>
    BY Zenon DEF Receive
<1>3. pc # "idle" /\ ref # 0
    BY <1>1, <1>2 DEF Planned
<1>4. PICK frame : frame = Head(inbox)
    OBVIOUS
<1>5. \/ /\ ResponseError(frame, ref) # {}
         /\ Fails(ResponseError(frame, ref))
         /\ UNCHANGED <<offset, items>>
      \/ /\ ResponseError(frame, ref) = {}
         /\ call.kind = "read"
         /\ ReadAnswer(frame)
      \/ /\ ResponseError(frame, ref) = {}
         /\ call.kind = "write"
         /\ WriteAnswer(frame)
         /\ UNCHANGED items
    BY <1>4, Zenon DEF Receive
<1>6. CASE /\ ResponseError(frame, ref) # {}
           /\ Fails(ResponseError(frame, ref))
           /\ UNCHANGED <<offset, items>>
  <2>1. PICK err : err = ResponseError(frame, ref)
      OBVIOUS
  <2>2. err # {} /\ Fails(err)
      BY <1>6, <2>1, Zenon
  <2> QED BY <1>2, <1>3, <1>6, <2>2, FailsIInv, Zenon
<1>7. CASE ResponseError(frame, ref) = {} /\ call.kind = "read" /\ ReadAnswer(frame)
  <2>1. Head(inbox).ref = ref
      BY <1>3, <1>4, <1>7, AcceptedFacts, Zenon
  <2>2. ASSUME NEW s \in {"protocol-error", "empty-read", "rejected"}, Return(s, out),
               UNCHANGED <<offset, items>>
        PROVE  IInv'
    <3>1. pc' = "idle" /\ status' = s /\ out' = out /\ chunks' = <<>>
        BY <2>2, Zenon DEF Return
    <3>2. /\ status' \in Statuses /\ status' # "success"
          /\ status' \notin {"timeout", "transport-error"}
        BY <3>1 DEF Statuses, ReadStatuses
    <3> QED BY <1>2, <1>3, <2>2, <3>1, <3>2, CallEnds, Zenon
  <2>3. CASE /\ frame.kind = "ok"
             /\ NextChunk(out \o frame.bytes)
             /\ items' = items \cup {ItemSize(frame)}
    <3>1. /\ pc' = "chunk" /\ chunks' = Tail(chunks) /\ offset' = offset + Head(chunks)
          /\ out' = out \o Head(inbox).bytes /\ UNCHANGED status
          /\ items' = items \cup {ItemSize(Head(inbox))} /\ Head(inbox).kind = "ok"
        BY <1>4, <2>3, Zenon DEF NextChunk
    <3>2. call.kind # "write"
        BY <1>7
    <3> QED BY <1>2, <2>1, <3>1, <3>2, NextChunkIInv, Zenon
  <2> QED BY <1>7, <2>2, <2>3, Zenon DEF ReadAnswer
<1>8. CASE ResponseError(frame, ref) = {} /\ call.kind = "write" /\ WriteAnswer(frame) /\ UNCHANGED items
  <2>1. Head(inbox).ref = ref
      BY <1>3, <1>4, <1>8, AcceptedFacts, Zenon
  <2>2. CASE Fails({"s7"}) /\ UNCHANGED offset
    <3>1. {"s7"} # {}
        OBVIOUS
    <3> QED BY <1>2, <1>3, <1>8, <2>2, <3>1, FailsIInv, Zenon
  <2>3. CASE frame.kind = "ok" /\ NextChunk(out)
    <3>1. /\ pc' = "chunk" /\ chunks' = Tail(chunks) /\ offset' = offset + Head(chunks)
          /\ UNCHANGED <<out, status>> /\ Head(inbox).kind = "ok"
        BY <1>4, <2>3, Zenon DEF NextChunk
    <3>2. call.kind # "read"
        BY <1>8
    <3> QED BY <1>2, <1>8, <2>1, <3>1, <3>2, NextChunkIInv, Zenon
  <2> QED BY <1>8, <2>2, <2>3, Zenon DEF WriteAnswer
<1> QED BY <1>5, <1>6, <1>7, <1>8, Zenon

LEMMA NextIInv ==
    ASSUME IInv, [Next]_vars
    PROVE  IInv'
<1>1. CASE Call
  <2>1. PICK r \in Ranges : ReadArea(r) \/ WriteArea(r)
      BY <1>1, Zenon DEF Call
  <2>2. CASE ReadArea(r)
    <3>1. PICK o : o = ReadVarRequestOverhead
        OBVIOUS
    <3>2. Start("read", r, o) /\ "read" \in {"read", "write"}
          /\ o = IF "read" = "read" THEN ReadVarRequestOverhead ELSE WriteVarRequestOverhead
        BY <2>2, <3>1, Zenon DEF ReadArea
    <3> QED BY <3>2, StartIInv, Zenon
  <2>3. CASE WriteArea(r)
    <3>1. PICK o : o = WriteVarRequestOverhead
        OBVIOUS
    <3>2. Start("write", r, o) /\ "write" \in {"read", "write"}
          /\ o = IF "write" = "read" THEN ReadVarRequestOverhead ELSE WriteVarRequestOverhead
        BY <2>3, <3>1, Zenon DEF WriteArea
    <3> QED BY <3>2, StartIInv, Zenon
  <2> QED BY <2>1, <2>2, <2>3
<1>2. CASE Step
    BY <1>2, FinishIInv, CancelledIInv, SendChunkIInv, ReceiveFailsIInv, ReceiveIInv, Zenon DEF Step
<1>3. CASE Serve
    BY <1>3, ServeIInv
<1>4. CASE UNCHANGED vars
  <2>1. UNCHANGED <<pdu, pc, call, chunks, offset, out, items, ref, status, mem, queue, inbox>>
      BY <1>4, Zenon DEF vars, callVars
  <2>2. Rest' = Rest /\ Overhead' = Overhead
      BY <2>1, Zenon DEF Rest, Overhead
  <2>3. TypeOK /\ Planned /\ InOrder /\ Alone /\ Requested /\ Writing /\ Reading /\ Finished
      BY DEF IInv
  <2>4. TypeOK'
      BY <2>1, <2>3, Zenon DEF TypeOK
  <2>5. Planned'
      BY <2>1, <2>2, <2>3, Zenon DEF Planned
  <2>6. InOrder' /\ Alone' /\ Finished'
      BY <2>1, <2>3, Zenon DEF InOrder, Alone, SuccessMeansInStep, Finished
  <2>7. Requested'
      BY <2>1, <2>2, <2>3, Zenon DEF Requested, RequestOK
  <2>8. Writing'
      BY <2>1, <2>3, Zenon DEF Writing, LengthsFit, WrittenTo, Wrote, OnlyThisCall
  <2>9. Reading'
      BY <2>1, <2>3, Zenon DEF Reading, OnlyThisCall, FromMemory
  <2> QED BY <2>4, <2>5, <2>6, <2>7, <2>8, <2>9 DEF IInv
<1> QED BY <1>1, <1>2, <1>3, <1>4, Zenon DEF Next

-----------------------------------------------------------------------------
(* The theorems *)

\* Every state that ReadArea and WriteArea reach satisfies the inductive
\* invariant, whatever the device answers and however late.
THEOREM AreaInvariance == Spec => []IInv
<1>1. Init => IInv
    BY InitIInv
<1>2. IInv /\ [Next]_vars => IInv'
    BY NextIInv
<1> QED BY <1>1, <1>2, PTL DEF Spec

\* When a call of ReadArea or WriteArea succeeds, nothing of it or of an earlier
\* call is left on the connection.
THEOREM AreaSuccessInStep == Spec => []SuccessMeansInStep
<1>1. IInv => SuccessMeansInStep
    BY DEF IInv, Alone
<1> QED BY <1>1, AreaInvariance, PTL

LEMMA FitFacts ==
    ASSUME NEW p \in Nat, NEW n \in Nat
    PROVE  /\ p > ReadVarRequestOverhead /\ n <= MaxChunk(p, ReadVarRequestOverhead) =>
                  AckDataOverhead + n <= p
           /\ p >= RequestLength("write", 1) /\ n <= MaxChunk(p, WriteVarRequestOverhead) =>
                  RequestLength("write", n) <= p + (p % 2)
BY DEF MaxChunk, ReadVarRequestOverhead, WriteVarRequestOverhead, AckDataOverhead, DefaultChunk,
       RequestLength, Even

\* The requests of ReadArea and WriteArea fit the negotiated PDU, and so do the
\* full answers to reads and the chunks WriteArea plans.
THEOREM AreaExchangesFit == Spec => []ExchangesFit
<1>1. ASSUME IInv PROVE ExchangesFit
  <2>1. TypeOK /\ Planned /\ Requested /\ pdu \in Nat
      BY <1>1, TypeFacts DEF IInv
  <2>2. ASSUME NEW i \in 1..Len(queue)
        PROVE  /\ pdu = 0 \/ RequestLength(queue[i].kind, queue[i].len) <= pdu
               /\ queue[i].kind = "read" /\ pdu > ReadVarRequestOverhead =>
                     AckDataOverhead + queue[i].len <= pdu
    <3>1. RequestOK(queue[i]) /\ queue[i].len \in Nat
      <4>1. queue[i].len \in Nat \ {0}
          BY <2>1, FlightFacts, RequestFacts, Zenon
      <4> QED BY <2>1, <4>1, Zenon DEF Requested
    <3> QED BY <2>1, <3>1, FitFacts, Zenon DEF RequestOK
  <2>3. ASSUME pc = "chunk", chunks # <<>>, call.kind = "write", pdu >= RequestLength("write", 1)
        PROVE  RequestLength("write", Head(chunks)) <= pdu + (pdu % 2)
    <3>1. Head(chunks) \in Nat /\ Head(chunks) <= MaxChunk(pdu, Overhead)
        BY <2>1, <2>3, ChunkNow
    <3>2. Overhead = WriteVarRequestOverhead
        BY <2>3 DEF Overhead
    <3> QED BY <2>1, <2>3, <3>1, <3>2, FitFacts, Zenon
  <2> QED BY <2>2, <2>3, Zenon DEF ExchangesFit
<1> QED BY <1>1, AreaInvariance, PTL

LEMMA PrefixOf ==
    ASSUME NEW S, NEW s \in Seq(S), NEW n \in Nat, n <= Len(s)
    PROVE  /\ SubSeq(s, 1, n) \in Seq(S) /\ Len(SubSeq(s, 1, n)) = n
           /\ \A i \in 1..n : SubSeq(s, 1, n)[i] = s[i]
<1>1. \A i \in 1..n : s[i] \in S /\ 1 + i - 1 = i
    OBVIOUS
<1>2. n - 1 + 1 = n /\ (IF 1 <= n THEN n - 1 + 1 ELSE 0) = n /\ 1 \in Int /\ n \in Int
    OBVIOUS
<1>3. /\ SubSeq(s, 1, n) \in Seq(S)
      /\ Len(SubSeq(s, 1, n)) = IF 1 <= n THEN n - 1 + 1 ELSE 0
      /\ \A i \in 1..(n - 1 + 1) : SubSeq(s, 1, n)[i] = s[1 + i - 1]
    BY <1>1, <1>2, SubSeqProperties
<1> QED BY <1>1, <1>2, <1>3, Zenon

\* The bytes of the last call's range.
LEMMA CallByte ==
    ASSUME TypeOK, Planned, call.kind # "none", NEW i \in 1..call.size
    PROVE  /\ CallBytes[i] = mem[WireStart(call.start + (i - 1))]
           /\ WireStart(call.start + (i - 1)) \in Cells
           /\ i \in Nat /\ i - 1 \in Nat
<1>1. /\ call.start \in Nat /\ call.size \in Nat
      /\ [start |-> call.start, size |-> call.size] \in Ranges
    BY TypeFacts DEF Planned
<1>2. i \in Nat /\ i - 1 \in Nat /\ i - 1 \in 0..call.size
      /\ call.start + (i - 1) = call.start + i - 1
    BY <1>1
<1>3. WireStart(call.start + (i - 1)) \in Cells
    BY <1>1, <1>2, RangeCells, Zenon
<1>4. CallBytes[i] = mem[WireStart(call.start + i - 1)]
    BY Zenon DEF CallBytes, MemBytes
<1> QED BY <1>2, <1>3, <1>4

\* A successful WriteArea has written its whole range and what it has written at
\* any time is a prefix of it, if its chunks have fewer than 8192 bytes; it writes
\* nothing outside the range unless the address wraps.
THEOREM AreaWritesPrefix == Spec => []WritesPrefix
<1>1. ASSUME IInv PROVE WritesPrefix
  <2>1. SUFFICES ASSUME call.kind = "write" PROVE WritesPrefix
      BY DEF WritesPrefix, Ended
  <2>2. /\ TypeOK /\ Planned /\ call.kind # "none" /\ call.start \in Nat /\ call.size \in Nat
      BY <1>1, <2>1, TypeFacts DEF IInv
  <2>3. PICK w \in 0..call.size : LengthsFit => WrittenTo(w)
    <3>1. 0 \in 0..call.size
        BY <2>2
    <3> QED BY <1>1, <2>1, <3>1, Zenon DEF IInv, Writing
  <2>4. w \in Nat /\ w <= call.size
      BY <2>2, <2>3
  <2>5. LengthsFit => \A a \in Cells : mem[a] = call.n <=> Among(a, call.start, w)
      BY <2>3, Zenon DEF WrittenTo, Wrote
  <2>6. ASSUME LengthsFit, NEW i \in 1..call.size, i - 1 < w PROVE CallBytes[i] = call.n
    <3>1. i - 1 \in 0..(w - 1)
        BY <2>4, <2>6
    <3>2. Among(WireStart(call.start + (i - 1)), call.start, w)
        BY <3>1, Zenon DEF Among
    <3> QED BY <2>2, <2>5, <2>6, <3>2, CallByte, Zenon
  <2>7. ASSUME Ended("write"), status = "success", LengthsFit, NEW i \in 1..call.size
        PROVE  CallBytes[i] = call.n
    <3>1. w = call.size
        BY <2>3, <2>7, Zenon DEF WrittenTo, Ended
    <3>2. i - 1 < w
        BY <2>2, <3>1
    <3> QED BY <2>6, <2>7, <3>2
  <2>8. ASSUME call.size <= AddressLimit, LengthsFit, NEW i \in 1..call.size, NEW j \in 1..call.size, i < j,
               CallBytes[j] = call.n
        PROVE  CallBytes[i] = call.n
    <3>1. Among(WireStart(call.start + (j - 1)), call.start, w)
        BY <2>2, <2>5, <2>8, CallByte, Zenon
    <3>2. PICK k \in 0..(w - 1) : WireStart(call.start + (j - 1)) = WireStart(call.start + k)
        BY <3>1, Zenon DEF Among
    <3>3. AddressLimit \in Nat
        BY SMT DEF AddressLimit
    <3>4. k \in Nat /\ k < AddressLimit /\ j - 1 \in Nat /\ j - 1 < AddressLimit
        BY <2>2, <2>4, <2>8, <3>3
    <3>5. j - 1 = k
        BY <2>2, <3>2, <3>4, WireStartApart, Zenon
    <3>6. i - 1 < w
        BY <2>2, <2>4, <2>8, <3>4, <3>5
    <3> QED BY <2>6, <2>8, <3>6
  <2>9. ASSUME NEW a \in Cells, mem[a] = call.n, ~(call.start + call.size > AddressLimit)
        PROVE  a \in call.start..(call.start + call.size - 1)
    <3>1. PICK k \in 0..(call.size - 1) : a = WireStart(call.start + k)
        BY <1>1, <2>1, <2>9, Zenon DEF IInv, Writing, Among
    <3>2. AddressLimit \in Nat
        BY SMT DEF AddressLimit
    <3>3. /\ call.start + k \in Nat /\ call.start + k < AddressLimit
          /\ call.start + k \in call.start..(call.start + call.size - 1)
        BY <2>2, <2>4, <2>9, <3>2
    <3> QED BY <3>1, <3>3, WireStartFits, Zenon
  <2> QED BY <2>7, <2>8, <2>9, Zenon DEF WritesPrefix
<1> QED BY <1>1, AreaInvariance, PTL

\* A successful ReadArea returns the bytes of its range unless an item was longer
\* than asked for; the data of one that is cut short are the first bytes of the
\* range unless an item was short or long, and an exchange that failed leaves none.
THEOREM AreaReadReturnsMemory == Spec => []ReadReturnsMemory
<1>1. ASSUME IInv PROVE ReadReturnsMemory
  <2>1. SUFFICES ASSUME pc = "idle", call.kind = "read" PROVE ReadReturnsMemory
      BY DEF ReadReturnsMemory, Ended
  <2>2. /\ TypeOK /\ Planned /\ call.kind # "none" /\ call.start \in Nat /\ call.size \in Nat
        /\ Len(out) \in Nat /\ offset \in Nat /\ out \in Seq(0..MaxCalls)
        /\ items \subseteq {"exact", "short", "long"}
      BY <1>1, <2>1, TypeFacts DEF IInv, TypeOK
  <2>3. Reading /\ Finished
      BY <1>1 DEF IInv
  <2>4. offset <= call.start + call.size
      BY <2>2 DEF Planned
  <2>5. CallBytes \in Seq(0..MaxCalls) /\ Len(CallBytes) = call.size
    <3>1. \A i \in 1..call.size : mem[WireStart(call.start + i - 1)] \in 0..MaxCalls
      <4> TAKE i \in 1..call.size
      <4>1. WireStart(call.start + (i - 1)) \in Cells /\ call.start + (i - 1) = call.start + i - 1
          BY <2>2, CallByte
      <4> QED BY <2>2, <4>1 DEF TypeOK
    <3> DEFINE f == [i \in 1..call.size |-> mem[WireStart(call.start + i - 1)]]
    <3>2. f \in [1..call.size -> 0..MaxCalls]
        BY <3>1
    <3>3. CallBytes = f
        BY Zenon DEF CallBytes, MemBytes
    <3> HIDE DEF f
    <3> QED BY <2>2, <3>2, <3>3, FunctionIsSeq, Zenon
  <2>6. ASSUME items \subseteq {"exact"}
        PROVE  Len(out) <= call.size /\ \A i \in 1..Len(out) : out[i] = CallBytes[i]
    <3>1. Len(out) <= offset - call.start /\ FromMemory(out, call.start)
      <4>1. "long" \notin items
          BY <2>6
      <4> QED BY <2>1, <2>3, <2>6, <4>1, Zenon DEF Reading
    <3>2. Len(out) <= call.size
        BY <2>2, <2>4, <3>1
    <3>3. ASSUME NEW i \in 1..Len(out) PROVE out[i] = CallBytes[i]
      <4>1. i \in 1..call.size /\ call.start + (i - 1) = call.start + i - 1
          BY <2>2, <3>2
      <4>2. out[i] = mem[WireStart(call.start + i - 1)]
          BY <3>1, Zenon DEF FromMemory
      <4> QED BY <2>2, <4>1, <4>2, CallByte, Zenon
    <3> QED BY <3>2, <3>3
  <2>7. ASSUME status = "success", "long" \notin items PROVE out = CallBytes
    <3>1. /\ Len(out) <= offset - call.start /\ Len(out) >= call.size
          /\ "short" \in items => Len(out) < offset - call.start
        BY <2>1, <2>3, <2>7, Zenon DEF Reading
    <3>2. Len(out) = call.size /\ "short" \notin items
        BY <2>2, <2>4, <3>1
    <3>3. items \subseteq {"exact"}
        BY <2>2, <2>7, <3>2
    <3> QED BY <2>2, <2>5, <2>6, <3>2, <3>3, SeqEqual, Zenon
  <2>8. ASSUME items \subseteq {"exact"} PROVE out = SubSeq(CallBytes, 1, Len(out))
    <3>1. Len(out) <= call.size /\ \A i \in 1..Len(out) : out[i] = CallBytes[i]
        BY <2>6, <2>8
    <3>2. /\ SubSeq(CallBytes, 1, Len(out)) \in Seq(0..MaxCalls)
          /\ Len(SubSeq(CallBytes, 1, Len(out))) = Len(out)
          /\ \A i \in 1..Len(out) : SubSeq(CallBytes, 1, Len(out))[i] = CallBytes[i]
      <4>1. Len(out) <= Len(CallBytes)
          BY <2>5, <3>1
      <4> QED BY <2>2, <2>5, <4>1, PrefixOf
    <3> QED BY <2>2, <3>1, <3>2, SeqEqual, Zenon
  <2>9. status \in {"timeout", "transport-error"} => out = <<>>
      BY <2>1, <2>3, Zenon DEF Reading
  <2> QED BY <2>7, <2>8, <2>9, Zenon DEF ReadReturnsMemory
<1> QED BY <1>1, AreaInvariance, PTL
=============================================================================
