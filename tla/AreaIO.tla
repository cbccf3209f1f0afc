------------------------------- MODULE AreaIO -------------------------------
(***************************************************************************)
(* ReadArea and WriteArea (readwrite.go) on one session: a request is cut   *)
(* into chunks that fit the negotiated PDU, every chunk is one exchange     *)
(* (sendReceive), and the device serves the requests of the connection in   *)
(* order against its memory (pdu_rw.go on both sides of the wire).          *)
(*                                                                         *)
(* A call is made under reqMu, so calls follow each other; their exchanges  *)
(* may time out and their answers arrive during a later call.  A memory     *)
(* byte holds the number of the call that wrote it last, 0 at first.  All   *)
(* ranges are in one data block (EncodeS7Any sends uint16(DBNumber): beyond *)
(* 65535 that is another block, for every call alike).                      *)
(***************************************************************************)
EXTENDS Integers, Sequences, S7Exchange

CONSTANTS
    PDUSizes,     \* negotiated PDU sizes
    LengthLimit,  \* 65536: the bit length of a write's data is a uint16
    Ranges,       \* [start, size] of the calls
    ReadAnswers,  \* how the device may answer a read: see Serve
    WriteAnswers, \* how the device may answer a write
    MaxCalls      \* bound: calls made

MaxUint16 == 65535

ASSUME AreaAssumption ==
    /\ PDUSizes \subseteq 0..MaxUint16
    /\ LengthLimit \in Nat \ {0}
    /\ Ranges \subseteq [start : Nat, size : Nat]
    /\ ReadAnswers \subseteq {"full", "short", "long", "noItems", "rejected",
                              "rejectedUnsized", "malformed", "s7err"}
    /\ WriteAnswers \subseteq {"full", "rejected", "malformed", "s7err"}
    /\ MaxCalls \in Nat

ReadVarRequestOverhead  == 24    \* S7 header 10, parameters 2, S7Any 12
WriteVarRequestOverhead == 28    \* and the data header 4
DefaultChunk            == 200
AckDataOverhead         == 18    \* header 12, parameters 2, item header 4

\* EncodeS7Any: the start address is sent as a 24-bit number of bits.
WireStart(start) == ((start * 8) % 16777216) \div 8

\* The first byte that such a number cannot name.
AddressLimit == 2097152

\* EncodeWriteVarRequest: the bytes that the header of n bytes of data tells of.
DataBytes(n) == ((n * 8) % LengthLimit) \div 8

\* The bytes of device memory that the calls can reach.
Cells == UNION {{WireStart(r.start + i) : i \in 0..r.size} : r \in Ranges}

\* Bound: references taken on a session.  The next one is 0, with which an
\* answer is not compared (UploadBlock has references that wrap).
MaxRef == 65535

MinOf(a, b) == IF a < b THEN a ELSE b

\* Mutant of planReadChunks: the last chunk is dropped when it is not full.
planReadChunksFloor(total, maxChunk) ==
    LET max == IF maxChunk <= 0 THEN total ELSE maxChunk
    IN IF total <= 0 THEN <<>>
       ELSE [i \in 1..(total \div max) |-> max]

\* planReadChunks: the sizes of the chunks, maxChunk each but for the last.
planReadChunks(total, maxChunk) ==
    LET max == IF maxChunk <= 0 THEN total ELSE maxChunk
    IN IF total <= 0 THEN <<>>
       ELSE [i \in 1..((total + max - 1) \div max) |->
                 MinOf(max, total - (i - 1) * max)]

\* Mutant of MaxChunk: the PDU size is taken as the room for data.
MaxChunkWhole(pduSize, overhead) ==
    IF pduSize < 1 THEN DefaultChunk ELSE pduSize

\* The chunk size a call uses; 200 when nothing is left beside the overhead,
\* which is also the case of a PDU size of 0.
MaxChunk(pduSize, overhead) ==
    IF pduSize - overhead < 1 THEN DefaultChunk ELSE pduSize - overhead

Even(n) == n + (n % 2)

\* len(EncodeReadVarRequest(...)) and len(EncodeWriteVarRequest(...)): the data
\* of a write is padded to an even length.
RequestLength(kind, n) ==
    IF kind = "read" THEN ReadVarRequestOverhead
    ELSE ReadVarRequestOverhead + Even(4 + n)

VARIABLES
    pdu,      \* Client.pduSize of the session
    pc,       \* idle, chunk (top of the loop), wait (in ReceiveContext)
    call,     \* the last call: kind, range and number
    chunks,   \* sizes of the chunks still to do, the current one first
    offset,   \* start of the current chunk
    ref,      \* PDU references taken so far
    out,      \* result: the bytes read so far
    items,    \* history: how the items of the call compare with their chunks
    status,   \* how the last call ended; "" while it runs
    mem,      \* device memory
    queue,    \* requests on the connection, not served yet
    inbox     \* answers on the connection, not read yet

callVars == <<call, chunks, offset, out, items>>
vars == <<pdu, pc, callVars, ref, status, mem, queue, inbox>>

NoCall == [kind |-> "none", start |-> 0, size |-> 0, n |-> 0]

Init ==
    /\ pdu \in PDUSizes
    /\ pc = "idle"
    /\ call = NoCall
    /\ chunks = <<>>
    /\ offset = 0
    /\ ref = 0
    /\ out = <<>>
    /\ items = {}
    /\ status = ""
    /\ mem = [a \in Cells |-> 0]
    /\ queue = <<>>
    /\ inbox = <<>>

-----------------------------------------------------------------------------
(* The calls *)

\* Up to the loop: the chunks are planned from the PDU size read under mu.
Start(kind, r, overhead) ==
    /\ pc = "idle"
    /\ call.n < MaxCalls
    /\ call' = [kind |-> kind, start |-> r.start, size |-> r.size,
                n |-> call.n + 1]
    /\ chunks' = planReadChunks(r.size, MaxChunk(pdu, overhead))
    /\ offset' = r.start
    /\ out' = <<>>
    /\ items' = {}
    /\ status' = ""
    /\ pc' = "chunk"
    /\ UNCHANGED <<pdu, ref, mem, queue, inbox>>

ReadArea(r)  == Start("read", r, ReadVarRequestOverhead)
WriteArea(r) == Start("write", r, WriteVarRequestOverhead)

\* The call returns; data is what a ReadResult carries.
Return(s, data) ==
    /\ pc' = "idle"
    /\ status' = s
    /\ out' = data
    /\ chunks' = <<>>

\* The call returns because of an error of the exchange: newFailedReadResult
\* drops the bytes read so far.
Fails(err) == Return(classifyOpError(err), <<>>)

\* The end of the loop.
Finish ==
    /\ pc = "chunk"
    /\ chunks = <<>>
    /\ Return(IF call.kind = "read" THEN ClassifyReadOutcome(call.size, Len(out))
                                    ELSE "success", out)
    /\ UNCHANGED <<pdu, call, items, offset, ref, mem, queue, inbox>>

\* ctx.Err() at the top of the loop or during the rate-limit wait; WriteArea
\* also checks it once before the loop, even if there is nothing to write.
Cancelled ==
    /\ pc = "chunk"
    /\ chunks # <<>> \/ (call.kind = "write" /\ call.size = 0)
    /\ \E err \in {{"deadline"}, {"canceled"}} : Fails(err)
    /\ UNCHANGED <<pdu, call, items, offset, ref, mem, queue, inbox>>

\* nextPDURef, the encoding of the chunk's request, and sendReceive as far as
\* the send.  The data of a write is the number of the call.
SendChunk ==
    /\ pc = "chunk"
    /\ chunks # <<>>
    /\ ref < MaxRef
    /\ ref' = ref + 1
    /\ \/ /\ pdu = 0 \/ RequestLength(call.kind, Head(chunks)) <= pdu
          /\ queue' = Append(queue, [kind |-> call.kind, ref |-> ref + 1, at |-> offset,
                                     len |-> Head(chunks), val |-> call.n])
          /\ pc' = "wait"
          /\ UNCHANGED <<chunks, out, status>>
       \/ /\ pdu > 0
          /\ RequestLength(call.kind, Head(chunks)) > pdu
          /\ Fails(ErrRequestExceedsPDU)
          /\ UNCHANGED queue
       \/ /\ pdu = 0 \/ RequestLength(call.kind, Head(chunks)) <= pdu
          /\ \E err \in TransportErrors : Fails(err)       \* SendContext fails
          /\ UNCHANGED queue
    /\ UNCHANGED <<pdu, call, items, offset, mem, inbox>>

\* ReceiveContext times out or fails; the answer may still come.
ReceiveFails ==
    /\ pc = "wait"
    /\ \E err \in TransportErrors : Fails(err)
    /\ UNCHANGED <<pdu, call, items, offset, ref, mem, queue, inbox>>

\* Mutant of NextChunk: the offset is not advanced.
NextChunkInPlace(data) ==
    /\ pc' = "chunk"
    /\ chunks' = Tail(chunks)
    /\ out' = data
    /\ UNCHANGED <<offset, status>>

\* The next chunk of the loop.
NextChunk(data) ==
    /\ pc' = "chunk"
    /\ chunks' = Tail(chunks)
    /\ offset' = offset + Head(chunks)
    /\ out' = data
    /\ UNCHANGED status

\* ParseReadVarResponse fails: an item is decoded before its return code is
\* looked at, and a transport size that NormalizeResponseDataLength does not
\* know is an error.
ParseFails(frame) ==
    frame.kind = "badBody" \/ (frame.kind = "itemErr" /\ ~frame.sized)

\* An item has as many bytes as its chunk, fewer or more.
ItemSize(frame) ==
    IF Len(frame.bytes) = Head(chunks) THEN "exact"
    ELSE IF Len(frame.bytes) < Head(chunks) THEN "short" ELSE "long"

\* What ReadArea makes of the items of an answer.
ReadAnswer(frame) ==
    \/ /\ ParseFails(frame)
       /\ Return("protocol-error", out)
       /\ UNCHANGED <<offset, items>>
    \/ /\ frame.kind = "ok"
       /\ ~frame.item
       /\ Return("empty-read", out)
       /\ UNCHANGED <<offset, items>>
    \/ /\ frame.kind = "itemErr"
       /\ frame.sized
       /\ Return("rejected", out)
       /\ UNCHANGED <<offset, items>>
    \/ /\ frame.kind = "ok"
       /\ frame.item
       /\ NextChunk(out \o frame.bytes)
       /\ items' = items \cup {ItemSize(frame)}

\* ParseWriteVarResponse.
WriteAnswer(frame) ==
    \/ /\ frame.kind \in {"badBody", "itemErr"}
       /\ Fails({"s7"})
       /\ UNCHANGED offset
    \/ /\ frame.kind = "ok"
       /\ NextChunk(out)

\* sendReceive returns.
Receive ==
    /\ pc = "wait"
    /\ inbox # <<>>
    /\ inbox' = Tail(inbox)
    /\ LET frame == Head(inbox)
           err   == ResponseError(frame, ref)
       IN \/ /\ err # {}
             /\ Fails(err)
             /\ UNCHANGED <<offset, items>>
          \/ /\ err = {}
             /\ call.kind = "read"
             /\ ReadAnswer(frame)
          \/ /\ err = {}
             /\ call.kind = "write"
             /\ WriteAnswer(frame)
             /\ UNCHANGED items
    /\ UNCHANGED <<pdu, call, ref, mem, queue>>

-----------------------------------------------------------------------------
(* The device (external): it serves requests in order.  A read is answered in
   full, with fewer or more bytes than asked, without an item, or rejected
   (with or without a transport size in the item); a write is executed and
   acknowledged, or refused.  A device that executes a write may go by the length
   in its address or by the one in the header of its data. *)

MemBytes(a, n) == [i \in 1..n |-> mem[WireStart(a + i - 1)]]

Answer(q, kind, item, sized, bytes) ==
    inbox' = Append(inbox, [ref |-> q.ref, kind |-> kind, item |-> item,
                            sized |-> sized, bytes |-> bytes])

Refuse(q, answer) ==
    \/ answer = "rejected" /\ Answer(q, "itemErr", TRUE, TRUE, <<>>)
    \/ answer = "rejectedUnsized" /\ Answer(q, "itemErr", TRUE, FALSE, <<>>)
    \/ answer = "malformed" /\ Answer(q, "badBody", FALSE, FALSE, <<>>)
    \/ answer = "s7err" /\ Answer(q, "s7err", FALSE, FALSE, <<>>)

Written(q, n) ==
    [a \in Cells |-> IF \E i \in 0..(n - 1) : a = WireStart(q.at + i) THEN q.val ELSE mem[a]]

Serve ==
    /\ queue # <<>>
    /\ queue' = Tail(queue)
    /\ LET q == Head(queue)
       IN \/ /\ q.kind = "read"
             /\ \E answer \in ReadAnswers :
                   \/ Refuse(q, answer)
                   \/ answer = "noItems" /\ Answer(q, "ok", FALSE, TRUE, <<>>)
                   \/ /\ answer = "full"
                      /\ Answer(q, "ok", TRUE, TRUE, MemBytes(q.at, q.len))
                   \/ /\ answer = "long"
                      /\ Answer(q, "ok", TRUE, TRUE, MemBytes(q.at, q.len + 1))
                   \/ /\ answer = "short"
                      /\ \E k \in 0..(q.len - 1) :
                            Answer(q, "ok", TRUE, TRUE, MemBytes(q.at, k))
             /\ UNCHANGED mem
          \/ /\ q.kind = "write"
             /\ \E answer \in WriteAnswers :
                   \/ Refuse(q, answer) /\ UNCHANGED mem
                   \/ /\ answer = "full"
                      /\ Answer(q, "ok", TRUE, TRUE, <<>>)
                      /\ \E n \in {q.len, DataBytes(q.len)} : mem' = Written(q, n)
    /\ UNCHANGED <<pdu, pc, callVars, ref, status>>

-----------------------------------------------------------------------------
Call == \E r \in Ranges : ReadArea(r) \/ WriteArea(r)

Step == Finish \/ Cancelled \/ SendChunk \/ ReceiveFails \/ Receive

Next == Call \/ Step \/ Serve

Spec == Init /\ [][Next]_vars

-----------------------------------------------------------------------------
(* Properties *)

Statuses == ReadStatuses \cup {""}

Requests == [kind : {"read", "write"}, ref : 0..MaxRef, at : Nat, len : Nat \ {0},
             val : 0..MaxCalls]

Frames == [ref : 0..MaxRef, kind : {"ok", "itemErr", "badBody", "s7err"}, item : BOOLEAN,
           sized : BOOLEAN, bytes : Seq(0..MaxCalls)]

\* Every variable has its type.
TypeOK ==
    /\ pdu \in PDUSizes
    /\ pc \in {"idle", "chunk", "wait"}
    /\ call \in [kind : {"none", "read", "write"}, start : Nat, size : Nat, n : 0..MaxCalls]
    /\ chunks \in Seq(Nat \ {0})
    /\ offset \in Nat
    /\ ref \in 0..MaxRef
    /\ out \in Seq(0..MaxCalls)
    /\ items \subseteq {"exact", "short", "long"}
    /\ status \in Statuses
    /\ mem \in [Cells -> 0..MaxCalls]
    /\ queue \in Seq(Requests)
    /\ inbox \in Seq(Frames)

Ended(kind) == pc = "idle" /\ call.kind = kind

\* The bytes of device memory named by the last call.
CallBytes == MemBytes(call.start, call.size)

\* "Empty or short reads are never reported as success": and unless an item was
\* longer than asked for, a successful ReadArea returns exactly the bytes of the
\* requested range, in order, however it was chunked and whatever answers of
\* earlier calls were still on their way.  Unless one was short or long, the data
\* of a ReadArea that is rejected, refused or cut off half way is the first bytes
\* of the range, and none at all when the exchange itself failed.
ReadReturnsMemory ==
    Ended("read") =>
        /\ status = "success" /\ "long" \notin items => out = CallBytes
        /\ items \subseteq {"exact"} => out = SubSeq(CallBytes, 1, Len(out))
        /\ status \in {"timeout", "transport-error"} => out = <<>>

\* The header of the data tells the length of every chunk of the last call (as a
\* write): they have fewer than 8192 bytes each.
LengthsFit == MinOf(MaxChunk(pdu, WriteVarRequestOverhead), call.size) * 8 < LengthLimit

\* A successful WriteArea has written the whole range; at any time what it has
\* written so far is a prefix of the range (if the address can tell its bytes
\* apart).  Both need chunks of fewer than 8192 bytes, that is a PDU size below
\* 8220 or a short range.  It writes nothing outside the range it was asked for,
\* unless that ends beyond the bytes the 24 bits of an address can name:
\* validateAddress passes such a range, and it wraps.
WritesPrefix ==
    /\ Ended("write") /\ status = "success" /\ LengthsFit =>
           \A i \in 1..call.size : CallBytes[i] = call.n
    /\ call.kind = "write" =>
           /\ call.size <= AddressLimit /\ LengthsFit =>
                 \A i, j \in 1..call.size :
                    i < j /\ CallBytes[j] = call.n => CallBytes[i] = call.n
           /\ \A a \in Cells : mem[a] = call.n =>
                 \/ a \in call.start..(call.start + call.size - 1)
                 \/ call.start + call.size > AddressLimit

\* A call that succeeds leaves the session in step: no request is unserved and
\* no answer unread, so no write of an earlier, failed call can still happen.
SuccessMeansInStep ==
    pc = "idle" /\ status = "success" /\ call.size > 0 =>
        queue = <<>> /\ inbox = <<>>

\* A request that is on the wire fits the negotiated PDU, and so does the full
\* answer to a read whenever the PDU leaves room for data at all; a chunk that
\* WriteArea plans fits as soon as one byte does, but for the fill byte of odd
\* data, which an odd PDU size has no room for (sendReceive refuses it).
ExchangesFit ==
    /\ \A i \in 1..Len(queue) :
        LET q == queue[i] IN
            /\ pdu = 0 \/ RequestLength(q.kind, q.len) <= pdu
            /\ q.kind = "read" /\ pdu > ReadVarRequestOverhead =>
                   AckDataOverhead + q.len <= pdu
    /\ pc = "chunk" /\ chunks # <<>> /\ call.kind = "write" /\ pdu >= RequestLength("write", 1) =>
           RequestLength("write", Head(chunks)) <= pdu + (pdu % 2)
=============================================================================
