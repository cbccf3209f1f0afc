---------------------------- MODULE UploadBlock ----------------------------
(***************************************************************************)
(* UploadBlock (blocks.go): start-upload, one exchange per chunk with       *)
(* retries, and a best-effort end-upload when the call returns, against a   *)
(* device that hands out the chunks of the block one after the other        *)
(* (pdu_blocks.go) and whose answers may come late or never.                *)
(***************************************************************************)
EXTENDS Integers, Sequences, BlockTypes, S7Exchange

CONSTANTS
    Blocks,            \* blocks of the device, <<type, number>>
    ChunksOf,          \* the sequence of the chunks of each
    MaxUploadChunks,   \* maxUploadChunks, 4096 in the code
    MaxUploadRetries,  \* maxUploadRetries, 3 in the code
    Refusals,          \* the answers with which the device may refuse a request
    CanIgnore,         \* whether the device may leave a request unanswered
    RefModulus,        \* 2^16 in the code: PDU references are uint16
    FirstRefs          \* the references the client may be at when the call starts

ASSUME BlockAssumption ==
    /\ \A b \in Blocks : /\ b = <<b[1], b[2]>>
                         /\ b[1] \in AllBlockTypes /\ b[2] \in BlockNumbers
                         /\ Named(typeChar(b[1]), numStr(b[2])) \in Blocks
    /\ ChunksOf \in [Blocks -> Seq(Seq(Nat)) \ {<<>>}]

ASSUME DeviceAssumption ==
    /\ Refusals \subseteq {"s7err", "badBody"}
    /\ CanIgnore \in BOOLEAN

\* No call wraps the PDU reference: 4096 * 3 + 3 is less than 2^16.
ASSUME BoundAssumption ==
    /\ MaxUploadChunks \in Nat \ {0}
    /\ MaxUploadRetries \in Nat \ {0}
    /\ RefModulus \in Nat
    /\ MaxUploadChunks * MaxUploadRetries + 3 <= RefModulus
    /\ FirstRefs \subseteq 0..(RefModulus - 1)

VARIABLES
    pc,        \* start, chunk, end (about to send), *Wait (in ReceiveContext), done;
               \* nextWait and over: the call after it
    asked,     \* the block the caller asks for
    bounded,   \* the client has a timeout or the context of the call a deadline
    block,     \* the chunks of the block that the device finds by the name of it
    ref,       \* PDU reference of the last request
    i,         \* index of the chunk being read
    attempt,   \* attempts made at it
    payload,   \* the chunks received, whose bytes the buffer holds
    chunkCount,
    result,    \* what the call returns: the error, {} if none
    requests,  \* requests made, the end-upload included
    ended,     \* the end-upload has been attempted
    nextErr,   \* how the next call ended
    session,   \* the call knows the sessionID of the device's upload session
    next,      \* device: the chunk it will hand out next; 0 without a session
    queue,     \* requests on the connection, not served yet
    inbox      \* answers on the connection, not read yet

loopVars == <<i, attempt, payload, chunkCount>>
devVars  == <<asked, bounded, block, session, next>>
vars == <<pc, devVars, ref, loopVars, result, requests, ended, nextErr, queue, inbox>>

\* Errors made by the call itself, which wrap no sentinel.
Incomplete == {"io"}

Init ==
    /\ pc = "start"
    /\ asked \in Blocks
    /\ bounded \in BOOLEAN
    /\ block = ChunksOf[Named(typeChar(asked[1]), numStr(asked[2]))]
    /\ ref \in FirstRefs
    /\ i = 0
    /\ attempt = 0
    /\ payload = <<>>
    /\ chunkCount = 0
    /\ result = {}
    /\ requests = 0
    /\ ended = FALSE
    /\ nextErr = {}
    /\ session = FALSE
    /\ next = 0
    /\ queue = <<>>
    /\ inbox = <<>>

-----------------------------------------------------------------------------
(* The exchanges *)

\* nextPDURef and sendReceive as far as the send.
SendRequest(type, wait) ==
    /\ ref' = (ref + 1) % RefModulus
    /\ requests' = requests + 1
    /\ queue' = Append(queue, [type |-> type, ref |-> (ref + 1) % RefModulus])
    /\ pc' = wait

\* SendContext fails before the device sees anything.
SendNothing ==
    /\ ref' = (ref + 1) % RefModulus
    /\ requests' = requests + 1
    /\ UNCHANGED queue

\* Mutant of Return: an error skips the end-upload.
ReturnAtOnce(err) ==
    /\ result' = err
    /\ pc' = IF err = {} THEN "end" ELSE "done"

\* The call returns err; once a session is open the deferred end-upload runs
\* first.
Return(err) ==
    /\ result' = err
    /\ pc' = "end"

-----------------------------------------------------------------------------
(* Start-upload *)

StartUpload ==
    /\ pc = "start"
    /\ \/ /\ SendRequest("start", "startWait")
          /\ UNCHANGED result
       \/ /\ SendNothing
          /\ pc' = "done"
          /\ result' \in TransportErrors
    /\ UNCHANGED <<devVars, loopVars, ended, inbox, nextErr>>

\* sendReceive and ParseStartUploadResponse.
StartError(frame) ==
    LET err == ResponseError(frame, ref)
    IN IF err = {} /\ (frame.kind = "badBody" \/ frame.type # "start")
       THEN {"s7"} \cup ErrProtocolFailure
       ELSE err

StartAnswered ==
    /\ pc = "startWait"
    /\ inbox # <<>>
    /\ inbox' = Tail(inbox)
    /\ result' = StartError(Head(inbox))
    /\ session' = (result' = {})
    /\ pc' = IF session' THEN "chunk" ELSE "done"
    /\ UNCHANGED <<asked, bounded, block, next, ref, loopVars, requests, ended,
                   queue, nextErr>>

StartTimesOut ==
    /\ pc = "startWait"
    /\ result' \in TransportErrors
    /\ pc' = "done"
    /\ UNCHANGED <<devVars, ref, loopVars, requests, ended, queue, inbox, nextErr>>

-----------------------------------------------------------------------------
(* The chunk loop *)

\* An attempt at chunk i has failed.  An error of the context itself ends the
\* call at the check before the next attempt, if there is one.
AttemptFails(err) ==
    IF \/ isUploadProtocolError(err)
       \/ err \subseteq {"deadline", "canceled"}
       \/ attempt + 1 = MaxUploadRetries
    THEN Return(err) /\ UNCHANGED loopVars
    ELSE /\ pc' = "chunk"
         /\ attempt' = attempt + 1
         /\ UNCHANGED <<i, payload, chunkCount, result>>

\* ctx.Err() before an attempt.
Cancelled ==
    /\ pc = "chunk"
    /\ i < MaxUploadChunks
    /\ \E err \in {{"deadline"}, {"canceled"}} : Return(err)
    /\ UNCHANGED <<devVars, ref, loopVars, requests, ended, queue, inbox, nextErr>>

RequestChunk ==
    /\ pc = "chunk"
    /\ i < MaxUploadChunks
    /\ \/ /\ SendRequest("chunk", "chunkWait")
          /\ UNCHANGED <<loopVars, result>>
       \/ /\ SendNothing
          /\ \E err \in TransportErrors : AttemptFails(err)
    /\ UNCHANGED <<devVars, ended, inbox, nextErr>>

\* sendReceive and ParseUploadResponse.
ChunkError(frame) ==
    LET err == ResponseError(frame, ref)
    IN IF err = {} /\ (frame.kind = "badBody" \/ frame.type # "chunk")
       THEN ErrProtocolFailure
       ELSE err

ChunkAnswered ==
    /\ pc = "chunkWait"
    /\ inbox # <<>>
    /\ inbox' = Tail(inbox)
    /\ LET frame == Head(inbox)
           err   == ChunkError(frame)
       IN \/ err # {} /\ AttemptFails(err)
          \/ /\ err = {}
             /\ payload' = Append(payload, frame.data)
             /\ chunkCount' = chunkCount + (IF frame.data # <<>> THEN 1 ELSE 0)
             /\ attempt' = 0
             /\ IF frame.done
                THEN /\ UNCHANGED i
                     /\ Return(IF payload' \in Seq({<<>>}) /\ chunkCount' = 0
                               THEN Incomplete ELSE {})
                ELSE /\ i' = i + 1
                     /\ pc' = "chunk"
                     /\ UNCHANGED result
    /\ UNCHANGED <<devVars, ref, requests, ended, queue, nextErr>>

\* Mutant of ChunkTimesOut: the read of a chunk has no deadline.
ChunkNeverTimesOut == FALSE /\ UNCHANGED vars

ChunkTimesOut ==
    /\ pc = "chunkWait"
    /\ \E err \in TransportErrors : AttemptFails(err)
    /\ UNCHANGED <<devVars, ref, requests, ended, queue, inbox, nextErr>>

\* Mutant of TooManyChunks: the end of the loop is the end of the block.
TooManyChunksDone ==
    /\ pc = "chunk"
    /\ i = MaxUploadChunks
    /\ Return({})
    /\ UNCHANGED <<devVars, ref, loopVars, requests, ended, queue, inbox, nextErr>>

\* The loop ends without the last chunk.
TooManyChunks ==
    /\ pc = "chunk"
    /\ i = MaxUploadChunks
    /\ Return(Incomplete)
    /\ UNCHANGED <<devVars, ref, loopVars, requests, ended, queue, inbox, nextErr>>

-----------------------------------------------------------------------------
(* The deferred end-upload: its outcome is dropped. *)

EndUpload ==
    /\ pc = "end"
    /\ ended' = TRUE
    /\ \/ SendRequest("end", "endWait")
       \/ SendNothing /\ pc' = "done"
    /\ UNCHANGED <<devVars, loopVars, result, inbox, nextErr>>

EndAnswered ==
    /\ pc = "endWait"
    /\ inbox # <<>>
    /\ inbox' = Tail(inbox)
    /\ pc' = "done"
    /\ UNCHANGED <<devVars, ref, loopVars, result, requests, ended, queue, nextErr>>

\* The 500ms of the cleanup context are over.
EndTimesOut ==
    /\ pc = "endWait"
    /\ pc' = "done"
    /\ UNCHANGED <<devVars, ref, loopVars, result, requests, ended, queue, inbox,
                   nextErr>>

-----------------------------------------------------------------------------
(* The next call on the client after a successful upload: one exchange, the
   way GetCPUState, ListBlocks or a one-chunk ReadArea make it. *)

NextCall ==
    /\ pc = "done"
    /\ result = {}
    /\ \/ SendRequest("other", "nextWait") /\ UNCHANGED nextErr
       \/ SendNothing /\ pc' = "over" /\ nextErr' \in TransportErrors
    /\ UNCHANGED <<devVars, loopVars, result, ended, inbox>>

NextAnswered ==
    /\ pc = "nextWait"
    /\ inbox # <<>>
    /\ inbox' = Tail(inbox)
    /\ nextErr' = ResponseError(Head(inbox), ref)
    /\ pc' = "over"
    /\ UNCHANGED <<devVars, ref, loopVars, result, requests, ended, queue>>

NextTimesOut ==
    /\ pc = "nextWait"
    /\ nextErr' \in TransportErrors
    /\ pc' = "over"
    /\ UNCHANGED <<devVars, ref, loopVars, result, requests, ended, queue, inbox>>

-----------------------------------------------------------------------------
(* The device (external) serves the requests in order: it opens a session,
   hands out the next chunk, marks the last one as such, and closes the
   session.  It may refuse a request, or never answer one. *)

Answer(q, kind, data, done) ==
    inbox' = Append(inbox, [type |-> q.type, ref |-> q.ref, kind |-> kind,
                            data |-> data, done |-> done])

Serve ==
    /\ queue # <<>>
    /\ queue' = Tail(queue)
    /\ LET q == Head(queue)
       IN \/ /\ q.type = "start"
             /\ Answer(q, "ok", <<>>, FALSE)
             /\ next' = 1
          \/ /\ q.type = "chunk"
             /\ next \in 1..Len(block)
             /\ Answer(q, "ok", block[next], next = Len(block))
             /\ next' = next + 1
          \/ /\ q.type = "chunk"
             /\ next \notin 1..Len(block)
             /\ Answer(q, "s7err", <<>>, FALSE)
             /\ UNCHANGED next
          \/ /\ q.type = "end"
             /\ Answer(q, "ok", <<>>, FALSE)
             /\ next' = 0
          \/ /\ q.type = "other"
             /\ Answer(q, "ok", <<>>, FALSE)
             /\ UNCHANGED next
          \/ /\ \E k \in Refusals : Answer(q, k, <<>>, FALSE)
             /\ UNCHANGED next
          \/ CanIgnore /\ UNCHANGED <<next, inbox>>
    /\ UNCHANGED <<pc, asked, bounded, block, session, ref, loopVars, result, requests,
                   ended, nextErr>>

-----------------------------------------------------------------------------
Upload ==
    \/ StartUpload \/ StartAnswered \/ StartTimesOut
    \/ Cancelled \/ RequestChunk \/ ChunkAnswered \/ ChunkTimesOut \/ TooManyChunks
    \/ EndUpload \/ EndAnswered \/ EndTimesOut

Following == NextCall \/ NextAnswered \/ NextTimesOut

Next == Upload \/ Following \/ Serve

Spec == Init /\ [][Next]_vars

\* Where the call is in SendContext or ReceiveContext with the caller's context.
NetworkPoints == {"start", "startWait", "chunk", "chunkWait"}

\* The call keeps running; its sends and its waits for the device end when they
\* have a deadline or, for a wait, an answer.  The end-upload has a deadline of
\* its own.
Due ==
    \/ (pc \in NetworkPoints => bounded) /\ Upload
    \/ StartAnswered \/ ChunkAnswered \/ TooManyChunks

FairSpec == Spec /\ WF_vars(Due)

-----------------------------------------------------------------------------
(* Properties *)

Types == {"start", "chunk", "end", "other"}

Messages == [type : Types, ref : 0..(RefModulus - 1)]

Frames == [type : Types, ref : 0..(RefModulus - 1), kind : {"ok", "s7err", "badBody"},
           data : Seq(Nat), done : BOOLEAN]

\* Every variable has its type.
TypeOK ==
    /\ pc \in {"start", "startWait", "chunk", "chunkWait", "end", "endWait", "done",
              "nextWait", "over"}
    /\ asked \in Blocks
    /\ bounded \in BOOLEAN
    /\ block = ChunksOf[Named(typeChar(asked[1]), numStr(asked[2]))]
    /\ ref \in 0..(RefModulus - 1)
    /\ i \in 0..MaxUploadChunks
    /\ attempt \in 0..(MaxUploadRetries - 1)
    /\ payload \in Seq(Seq(Nat))
    /\ chunkCount \in 0..MaxUploadChunks
    /\ result \subseteq Sentinels
    /\ requests \in Nat
    /\ ended \in BOOLEAN
    /\ nextErr \subseteq Sentinels
    /\ session \in BOOLEAN
    /\ next \in 0..(Len(block) + 1)
    /\ queue \in Seq(Messages)
    /\ inbox \in Seq(Frames)

Returned == pc \in {"done", "nextWait", "over"}

\* What has been received is always the first chunks of the block, each once and
\* in order, and a call that returns without error returns the whole block it
\* was asked for (a DB for an SDB, whose type has no letter): whatever attempts
\* timed out, whichever requests the device never saw, and whichever of its
\* answers arrived late.
UploadComplete ==
    /\ \E n \in 0..Len(block) : payload = SubSeq(block, 1, n)
    /\ Returned /\ result = {} =>
           /\ payload = block
           /\ asked[1] # BlockTypeSDB => block = ChunksOf[asked]

\* Once the device has told its session, or a block is returned, the call does
\* not return without having tried to end the device's upload session, even if
\* it was cancelled before the first chunk; and it asks for nothing after that.
SessionEnded ==
    /\ Returned /\ (session \/ result = {}) => ended
    /\ ended => pc \in {"endWait", "done", "nextWait", "over"}

\* The call that follows a successful upload on the session does not take a
\* late answer for its own, that of an end-upload given up too early or of a
\* chunk sent twice: when it succeeds, and its reference is one that is compared,
\* the session is in step.
NextCallInStep ==
    pc = "over" /\ nextErr = {} /\ ref # 0 => queue = <<>> /\ inbox = <<>>

\* The call returns, even if the device never answers; the only exception is a
\* call with neither a client timeout nor a context deadline, which may stay in
\* one of its sends or waits.
UploadReturns ==
    \/ <>(pc = "done")
    \/ \E p \in NetworkPoints : <>[](~bounded /\ pc = p)

-----------------------------------------------------------------------------
(* What the documentation says and the code does not do. *)

\* doc.go: "UploadBlock retries failed chunk reads (transient errors only;
\* protocol/parse failures fail fast)": with a device that answers every
\* request correctly, the call never fails as a protocol failure.
OnlyTransientFailures == pc = "done" => ~isUploadProtocolError(result)
=============================================================================
