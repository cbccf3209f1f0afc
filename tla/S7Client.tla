------------------------------ MODULE S7Client ------------------------------
(***************************************************************************)
(* The Client object shared by several goroutines (client.go, handshake.go, *)
(* transport/conn.go): Connect, Close, ConnectionInfo and the request       *)
(* operations, over TCP connections whose answers may come late.            *)
(*                                                                         *)
(* reqMu serializes whole operations, mu protects the session fields.  A    *)
(* caller is always at one program point pc[t]; the labels are             *)
(*   idle          between two calls                                       *)
(*   connectLock, closeLock, opLock    waiting for reqMu                    *)
(*   candidate, cotp, setup, publish, publishing, closeOld     Connect      *)
(*   closing, clearing                                         Close        *)
(*   chunk, lookup, write, recv        one exchange of a request operation  *)
(*   info          ConnectionInfo has its snapshot and is about to return   *)
(*   unlock        about to run the deferred reqMu.Unlock                   *)
(***************************************************************************)
EXTENDS Integers, Sequences, S7Exchange

CONSTANTS
    Threads,         \* goroutines sharing the client
    Unbounded,       \* those whose calls have no deadline: WithTimeout(0) and a
                     \* context without one
    NoThread,        \* "mutex is free"
    RackSlots,       \* rack/slot pairs a session can be opened with
    NoRackSlot,      \* the zero rack/slot of a client without session
    CandidateLists,  \* the sequences of rack/slots a Connect may try
    PDUSizes,        \* PDU sizes the device may negotiate
    ReqSizes,        \* S7 lengths of encoded requests
    AnswerKinds,     \* the kinds of frame the device may answer with
    RefModulus,      \* 2^16 in the code: PDU references are uint16
    MaxConns,        \* bound: TCP connections dialled
    MaxRequests,     \* bound: PDU references taken
    MaxExchanges     \* bound: exchanges of one operation

ASSUME ClientAssumption ==
    /\ Unbounded \subseteq Threads
    /\ NoThread \notin Threads
    /\ NoRackSlot \notin RackSlots
    /\ CandidateLists \subseteq Seq(RackSlots) \ {<<>>}
    /\ PDUSizes \subseteq Nat
    /\ ReqSizes \subseteq Nat \ {0}
    /\ AnswerKinds \subseteq FrameKinds
    /\ RefModulus \in Nat \ {0}
    /\ MaxConns \in Nat
    /\ MaxRequests \in Nat
    /\ MaxExchanges \in Nat \ {0}

Conns  == 1..MaxConns
NoConn == 0

Ref(n) == n % RefModulus                 \* uint16(n)

\* What ConnectionInfo returns of a session; NoInfo when not connected.
Infos  == [rs : RackSlots \cup {NoRackSlot}, pdu : PDUSizes \cup {0}]
NoInfo == [rs |-> NoRackSlot, pdu |-> 0]

\* An answer on the wire: the request it answers (not transmitted, kept to
\* state properties), the PDU reference it carries, and its kind.
Frames == [for : 1..MaxRequests, ref : 0..(RefModulus - 1), kind : FrameKinds]

VARIABLES
    pc,        \* program point of each goroutine
    op,        \* the call each goroutine is executing
    reqMu,     \* holder of Client.reqMu
    mu,        \* write holder of Client.mu
    conn,      \* Client.conn
    info,      \* Client.rack/slot/TSAPs (rs) and pduSize/maxAmq (pdu)
    pduRef,    \* Client.pduRef
    sock,      \* state of every TCP connection
    agreed,    \* what setup negotiated on every connection
    sent,      \* requests written to a connection, unanswered by the device
    inbox,     \* answers on a connection, not yet read by the client
    cands,     \* connectOnce: rack/slots still to try, the current one first
    fresh,     \* connectOnce: the connection being set up
    old,       \* connectOnce: oldConn
    before,    \* Client.conn when the goroutine took reqMu
    left,      \* exchanges the operation still has to do
    size,      \* len(req)
    req,       \* number of the current request; its reference is Ref(req)
    use,       \* sendReceive: the local copy of Client.conn
    result,    \* how the call of each goroutine ended
    accepted,  \* the last exchange of the call that sendReceive accepted
    snap       \* what ConnectionInfo is about to return

callVars == <<cands, fresh, old>>
exchVars == <<left, size, req, use, accepted>>
netVars  == <<sock, agreed, sent, inbox>>
vars == <<pc, op, reqMu, mu, conn, info, pduRef, netVars, callVars, before,
          exchVars, result, snap>>

ConnectPoints == {"candidate", "cotp", "setup", "publish", "publishing", "closeOld"}
ClosePoints   == {"closing", "clearing"}
OpPoints      == {"chunk", "lookup", "write", "recv"}
LockPoints    == {"connectLock", "closeLock", "opLock"}
Points == {"idle", "unlock", "info"} \cup LockPoints \cup ConnectPoints
              \cup ClosePoints \cup OpPoints

NoExchange == [req |-> 0, for |-> 0]

Init ==
    /\ pc = [t \in Threads |-> "idle"]
    /\ op = [t \in Threads |-> "none"]
    /\ reqMu = NoThread
    /\ mu = NoThread
    /\ conn = NoConn
    /\ info = NoInfo
    /\ pduRef = 0
    /\ sock = [c \in Conns |-> "unused"]
    /\ agreed = [c \in Conns |-> NoInfo]
    /\ sent = [c \in Conns |-> <<>>]
    /\ inbox = [c \in Conns |-> <<>>]
    /\ cands = [t \in Threads |-> <<>>]
    /\ fresh = [t \in Threads |-> NoConn]
    /\ old = [t \in Threads |-> NoConn]
    /\ before = [t \in Threads |-> NoConn]
    /\ left = [t \in Threads |-> 0]
    /\ size = [t \in Threads |-> 0]
    /\ req = [t \in Threads |-> 0]
    /\ use = [t \in Threads |-> NoConn]
    /\ result = [t \in Threads |-> "none"]
    /\ accepted = [t \in Threads |-> NoExchange]
    /\ snap = [t \in Threads |-> NoInfo]

Goto(t, l) == pc' = [pc EXCEPT ![t] = l]

\* transport.Conn.Close on c (nothing to do for NoConn): whatever is in flight
\* on the connection is lost.
CloseSock(c) ==
    /\ sock' = [d \in Conns |-> IF d = c THEN "closed" ELSE sock[d]]
    /\ sent' = [d \in Conns |-> IF d = c THEN <<>> ELSE sent[d]]
    /\ inbox' = [d \in Conns |-> IF d = c THEN <<>> ELSE inbox[d]]
    /\ UNCHANGED agreed

\* The operation of t is over; its deferred unlock runs next.
Return(t, r) ==
    /\ Goto(t, "unlock")
    /\ result' = [result EXCEPT ![t] = r]

-----------------------------------------------------------------------------
(* reqMu *)

\* Connect after validation (a ValidationError returns before reqMu and
\* changes nothing): one rack/slot, or the list of autoConnect.
StartConnect(t, cs) ==
    /\ pc[t] = "idle"
    /\ Goto(t, "connectLock")
    /\ op' = [op EXCEPT ![t] = "connect"]
    /\ cands' = [cands EXCEPT ![t] = cs]
    /\ UNCHANGED <<reqMu, mu, conn, info, pduRef, netVars, fresh, old, before,
                   exchVars, result, snap>>

StartClose(t) ==
    /\ pc[t] = "idle"
    /\ Goto(t, "closeLock")
    /\ op' = [op EXCEPT ![t] = "close"]
    /\ UNCHANGED <<reqMu, mu, conn, info, pduRef, netVars, callVars, before,
                   exchVars, result, snap>>

\* A request operation of n exchanges.  "strict" operations stop at the first
\* failed exchange (ReadArea, WriteArea, GetCPUState, ListBlocks, ...),
\* "tolerant" ones go on with the next (Identify; UploadBlock's retries and
\* its end-upload).
StartOp(t, n, k) ==
    /\ pc[t] = "idle"
    /\ pduRef < MaxRequests
    /\ Goto(t, "opLock")
    /\ op' = [op EXCEPT ![t] = k]
    /\ left' = [left EXCEPT ![t] = n]
    /\ UNCHANGED <<reqMu, mu, conn, info, pduRef, netVars, callVars, before,
                   size, req, use, accepted, result, snap>>

\* Where the body of each call starts once it holds reqMu.
EntryPoint ==
    [connectLock |-> "candidate", closeLock |-> "closing", opLock |-> "chunk"]

\* Mutant of LockReq: Close does not take reqMu.
LockReqNotClose(t) ==
    /\ pc[t] \in LockPoints
    /\ reqMu = NoThread \/ op[t] = "close"
    /\ reqMu' = IF op[t] = "close" THEN reqMu ELSE t
    /\ before' = [before EXCEPT ![t] = conn]
    /\ Goto(t, EntryPoint[pc[t]])
    /\ UNCHANGED <<op, mu, conn, info, pduRef, netVars, callVars, exchVars,
                   result, snap>>

\* c.reqMu.Lock()
LockReq(t) ==
    /\ pc[t] \in LockPoints
    /\ reqMu = NoThread
    /\ reqMu' = t
    /\ before' = [before EXCEPT ![t] = conn]
    /\ Goto(t, EntryPoint[pc[t]])
    /\ UNCHANGED <<op, mu, conn, info, pduRef, netVars, callVars, exchVars,
                   result, snap>>

\* The deferred c.reqMu.Unlock(); the call returns and its locals are gone.
UnlockReq(t) ==
    /\ pc[t] = "unlock"
    /\ reqMu' = NoThread
    /\ Goto(t, "idle")
    /\ op' = [op EXCEPT ![t] = "none"]
    /\ before' = [before EXCEPT ![t] = NoConn]
    /\ left' = [left EXCEPT ![t] = 0]
    /\ size' = [size EXCEPT ![t] = 0]
    /\ req' = [req EXCEPT ![t] = 0]
    /\ result' = [result EXCEPT ![t] = "none"]
    /\ accepted' = [accepted EXCEPT ![t] = NoExchange]
    /\ UNCHANGED <<mu, conn, info, pduRef, netVars, callVars, use, snap>>

-----------------------------------------------------------------------------
(* Connect: autoConnect is a loop of connectOnce over the candidates. *)

\* The candidates are exhausted, or the context is done before the next one.
GiveUp(t) ==
    /\ pc[t] = "candidate"
    /\ cands' = [cands EXCEPT ![t] = <<>>]
    /\ Return(t, "failed")
    /\ UNCHANGED <<op, reqMu, mu, conn, info, pduRef, netVars, fresh, old,
                   before, exchVars, snap>>

\* dialTransport: a new connection, or an error and the next candidate.
Dial(t) ==
    /\ pc[t] = "candidate"
    /\ cands[t] # <<>>
    /\ \E c \in Conns :
          /\ sock[c] = "unused"
          /\ \A d \in Conns : d < c => sock[d] # "unused"
          /\ sock' = [sock EXCEPT ![c] = "open"]
          /\ fresh' = [fresh EXCEPT ![t] = c]
    /\ Goto(t, "cotp")
    /\ UNCHANGED <<op, reqMu, mu, conn, info, pduRef, agreed, sent, inbox, cands,
                   old, before, exchVars, result, snap>>

DialFails(t) ==
    /\ pc[t] = "candidate"
    /\ cands[t] # <<>>
    /\ cands' = [cands EXCEPT ![t] = Tail(@)]
    /\ UNCHANGED <<pc, op, reqMu, mu, conn, info, pduRef, netVars, fresh, old,
                   before, exchVars, result, snap>>

\* performCOTPConnect succeeds: CR sent, CC received.
COTPConnected(t) ==
    /\ pc[t] = "cotp"
    /\ Goto(t, "setup")
    /\ UNCHANGED <<op, reqMu, mu, conn, info, pduRef, netVars, callVars, before,
                   exchVars, result, snap>>

\* performS7Setup succeeds and the device has negotiated a PDU size.
SetupDone(t, p) ==
    /\ pc[t] = "setup"
    /\ agreed' = [agreed EXCEPT ![fresh[t]] = [rs |-> Head(cands[t]), pdu |-> p]]
    /\ Goto(t, "publish")
    /\ UNCHANGED <<op, reqMu, mu, conn, info, pduRef, sock, sent, inbox, callVars,
                   before, exchVars, result, snap>>

\* Mutants of HandshakeFails: the new connection is not closed; the session's
\* connection is closed instead.
HandshakeFailsOpen(t) ==
    /\ pc[t] \in {"cotp", "setup"}
    /\ fresh' = [fresh EXCEPT ![t] = NoConn]
    /\ cands' = [cands EXCEPT ![t] = Tail(@)]
    /\ Goto(t, "candidate")
    /\ UNCHANGED <<op, reqMu, mu, conn, info, pduRef, netVars, old, before,
                   exchVars, result, snap>>

HandshakeFailsClosesSession(t) ==
    /\ pc[t] \in {"cotp", "setup"}
    /\ CloseSock(conn)
    /\ fresh' = [fresh EXCEPT ![t] = NoConn]
    /\ cands' = [cands EXCEPT ![t] = Tail(@)]
    /\ Goto(t, "candidate")
    /\ UNCHANGED <<op, reqMu, mu, conn, info, pduRef, old, before, exchVars,
                   result, snap>>

\* performCOTPConnect or performS7Setup fails, whatever the reason: the new
\* connection is closed and connectOnce returns the error.
HandshakeFails(t) ==
    /\ pc[t] \in {"cotp", "setup"}
    /\ CloseSock(fresh[t])
    /\ fresh' = [fresh EXCEPT ![t] = NoConn]
    /\ cands' = [cands EXCEPT ![t] = Tail(@)]
    /\ Goto(t, "candidate")
    /\ UNCHANGED <<op, reqMu, mu, conn, info, pduRef, old, before, exchVars,
                   result, snap>>

\* c.mu.Lock(), then the first assignments of the swap ...
PublishConn(t) ==
    /\ pc[t] = "publish"
    /\ mu = NoThread
    /\ mu' = t
    /\ old' = [old EXCEPT ![t] = conn]
    /\ conn' = fresh[t]
    /\ info' = [info EXCEPT !.rs = agreed[fresh[t]].rs]
    /\ Goto(t, "publishing")
    /\ UNCHANGED <<op, reqMu, pduRef, netVars, cands, fresh, before, exchVars,
                   result, snap>>

\* ... and the remaining ones, then c.mu.Unlock().
PublishLimits(t) ==
    /\ pc[t] = "publishing"
    /\ info' = [info EXCEPT !.pdu = agreed[fresh[t]].pdu]
    /\ mu' = NoThread
    /\ fresh' = [fresh EXCEPT ![t] = NoConn]
    /\ Goto(t, "closeOld")
    /\ UNCHANGED <<op, reqMu, conn, pduRef, netVars, cands, old, before, exchVars,
                   result, snap>>

CloseOld(t) ==
    /\ pc[t] = "closeOld"
    /\ CloseSock(old[t])
    /\ old' = [old EXCEPT ![t] = NoConn]
    /\ cands' = [cands EXCEPT ![t] = <<>>]
    /\ Return(t, "ok")
    /\ UNCHANGED <<op, reqMu, mu, conn, info, pduRef, fresh, before, exchVars,
                   snap>>

-----------------------------------------------------------------------------
(* Close *)

\* closeConnLocked without a connection.
CloseNothing(t) ==
    /\ pc[t] = "closing"
    /\ mu = NoThread
    /\ conn = NoConn
    /\ Return(t, "ok")
    /\ UNCHANGED <<op, reqMu, mu, conn, info, pduRef, netVars, callVars, before,
                   exchVars, snap>>

\* c.mu.Lock() and the first half of closeConnLocked.
CloseConn(t) ==
    /\ pc[t] = "closing"
    /\ mu = NoThread
    /\ conn # NoConn
    /\ mu' = t
    /\ CloseSock(conn)
    /\ conn' = NoConn
    /\ info' = [info EXCEPT !.rs = NoRackSlot]
    /\ Goto(t, "clearing")
    /\ UNCHANGED <<op, reqMu, pduRef, callVars, before, exchVars, result, snap>>

\* Mutant of ClearLimits: the limits of the closed session stay.
ClearLimitsNot(t) ==
    /\ pc[t] = "clearing"
    /\ mu' = NoThread
    /\ Return(t, "ok")
    /\ UNCHANGED <<op, reqMu, conn, info, pduRef, netVars, callVars, before,
                   exchVars, snap>>

\* The rest of closeConnLocked, then the deferred c.mu.Unlock().
ClearLimits(t) ==
    /\ pc[t] = "clearing"
    /\ info' = [info EXCEPT !.pdu = 0]
    /\ mu' = NoThread
    /\ Return(t, "ok")
    /\ UNCHANGED <<op, reqMu, conn, pduRef, netVars, callVars, before, exchVars,
                   snap>>

-----------------------------------------------------------------------------
(* Request operations: nextPDURef and sendReceive, once per exchange. *)

\* The exchange of t is over: the operation goes on with its next exchange,
\* or returns after the last one and, if it is strict, after a failed one.
ExchangeEnds(t, ok) ==
    /\ left' = [left EXCEPT ![t] = @ - 1]
    /\ use' = [use EXCEPT ![t] = NoConn]
    /\ \/ /\ left[t] > 1
          /\ ok \/ op[t] = "tolerant"
          /\ Goto(t, "chunk")
          /\ UNCHANGED result
       \/ /\ left[t] = 1 \/ (~ok /\ op[t] = "strict")
          /\ Return(t, IF ok THEN "ok" ELSE "failed")

\* ctx.Err() between two exchanges.
Cancelled(t) ==
    /\ pc[t] = "chunk"
    /\ Return(t, "failed")
    /\ UNCHANGED <<op, reqMu, mu, conn, info, pduRef, netVars, callVars, before,
                   exchVars, snap>>

\* ref := c.nextPDURef() and the encoding of the request.
TakeRef(t, n) ==
    /\ pc[t] = "chunk"
    /\ pduRef < MaxRequests
    /\ pduRef' = pduRef + 1
    /\ req' = [req EXCEPT ![t] = pduRef + 1]
    /\ size' = [size EXCEPT ![t] = n]
    /\ Goto(t, "lookup")
    /\ UNCHANGED <<op, reqMu, mu, conn, info, netVars, callVars, before, left,
                   use, accepted, result, snap>>

\* Mutant of Lookup: the size of the request is not checked.
LookupUnchecked(t) ==
    /\ pc[t] = "lookup"
    /\ mu = NoThread
    /\ conn # NoConn
    /\ use' = [use EXCEPT ![t] = conn]
    /\ Goto(t, "write")
    /\ UNCHANGED <<op, reqMu, mu, conn, info, pduRef, netVars, callVars, before,
                   left, size, req, accepted, result, snap>>

\* sendReceive up to the send: the session fields are read under c.mu.RLock(),
\* which is released before they are used.
Lookup(t) ==
    /\ pc[t] = "lookup"
    /\ mu = NoThread
    /\ conn # NoConn
    /\ info.pdu = 0 \/ size[t] <= info.pdu
    /\ use' = [use EXCEPT ![t] = conn]
    /\ Goto(t, "write")
    /\ UNCHANGED <<op, reqMu, mu, conn, info, pduRef, netVars, callVars, before,
                   left, size, req, accepted, result, snap>>

\* ErrNotConnected, or ErrRequestExceedsPDU.
LookupFails(t) ==
    /\ pc[t] = "lookup"
    /\ mu = NoThread
    /\ \/ conn = NoConn
       \/ info.pdu > 0 /\ size[t] > info.pdu
    /\ ExchangeEnds(t, FALSE)
    /\ UNCHANGED <<op, reqMu, mu, conn, info, pduRef, netVars, callVars, before,
                   size, req, accepted, snap>>

\* conn.SendContext delivers the request.
Write(t) ==
    /\ pc[t] = "write"
    /\ sent' = [sent EXCEPT ![use[t]] = Append(@, req[t])]
    /\ Goto(t, "recv")
    /\ UNCHANGED <<op, reqMu, mu, conn, info, pduRef, sock, agreed, inbox, callVars,
                   before, exchVars, result, snap>>

\* conn.SendContext fails and the device never sees the request.
WriteFails(t) ==
    /\ pc[t] = "write"
    /\ ExchangeEnds(t, FALSE)
    /\ UNCHANGED <<op, reqMu, mu, conn, info, pduRef, netVars, callVars, before,
                   size, req, accepted, snap>>

\* ReceiveContext returns the next frame of the connection.
Receive(t) ==
    /\ pc[t] = "recv"
    /\ inbox[use[t]] # <<>>
    /\ inbox' = [inbox EXCEPT ![use[t]] = Tail(@)]
    /\ LET frame == Head(inbox[use[t]])
           err == ResponseError(frame, Ref(req[t]))
       IN /\ accepted' = IF err = {}
                         THEN [accepted EXCEPT ![t] = [req |-> req[t], for |-> frame.for]]
                         ELSE accepted
          /\ ExchangeEnds(t, err = {} /\ frame.kind = "ok")
    /\ UNCHANGED <<op, reqMu, mu, conn, info, pduRef, sock, agreed, sent, callVars,
                   before, size, req, snap>>

\* Mutant of ReceiveFails: the receive has no deadline.
ReceiveFailsNever(t) ==
    /\ pc[t] = "recv"
    /\ sock[use[t]] = "closed"
    /\ ExchangeEnds(t, FALSE)
    /\ UNCHANGED <<op, reqMu, mu, conn, info, pduRef, netVars, callVars, before,
                   size, req, accepted, snap>>

\* The context is done after the send, or ReceiveContext times out, or fails
\* with the connection: the answer, if one comes, stays on it.  A call without
\* a deadline can only fail the other two ways, so that Due does not count on it.
ReceiveFails(t) ==
    /\ pc[t] = "recv"
    /\ ExchangeEnds(t, FALSE)
    /\ UNCHANGED <<op, reqMu, mu, conn, info, pduRef, netVars, callVars, before,
                   size, req, accepted, snap>>

-----------------------------------------------------------------------------
\* Mutant of ConnectionInfo: the fields are read without c.mu.
ConnectionInfoUnlocked(t) ==
    /\ pc[t] = "idle"
    /\ snap' = [snap EXCEPT ![t] = info]
    /\ Goto(t, "info")
    /\ UNCHANGED <<op, reqMu, mu, conn, info, pduRef, netVars, callVars, before,
                   exchVars, result>>

\* ConnectionInfo (and PDUSize): a snapshot under c.mu.RLock(), without reqMu.
ConnectionInfo(t) ==
    /\ pc[t] = "idle"
    /\ mu = NoThread
    /\ snap' = [snap EXCEPT ![t] = info]
    /\ Goto(t, "info")
    /\ UNCHANGED <<op, reqMu, mu, conn, info, pduRef, netVars, callVars, before,
                   exchVars, result>>

InfoReturns(t) ==
    /\ pc[t] = "info"
    /\ snap' = [snap EXCEPT ![t] = NoInfo]
    /\ Goto(t, "idle")
    /\ UNCHANGED <<op, reqMu, mu, conn, info, pduRef, netVars, callVars, before,
                   exchVars, result>>

\* The device (external): it answers the requests of a connection in order,
\* after any delay, echoing the reference of each.
DeviceAnswers(c, k) ==
    /\ sock[c] = "open"
    /\ sent[c] # <<>>
    /\ sent' = [sent EXCEPT ![c] = Tail(@)]
    /\ inbox' = [inbox EXCEPT ![c] =
          Append(@, [for |-> Head(sent[c]), ref |-> Ref(Head(sent[c])), kind |-> k])]
    /\ UNCHANGED <<pc, op, reqMu, mu, conn, info, pduRef, sock, agreed, callVars,
                   before, exchVars, result, snap>>

-----------------------------------------------------------------------------
ConnectStep(t) ==
    \/ GiveUp(t) \/ Dial(t) \/ DialFails(t) \/ COTPConnected(t)
    \/ \E p \in PDUSizes : SetupDone(t, p)
    \/ HandshakeFails(t) \/ PublishConn(t) \/ PublishLimits(t) \/ CloseOld(t)

CloseStep(t) == CloseNothing(t) \/ CloseConn(t) \/ ClearLimits(t)

ExchangeStep(t) ==
    \/ Cancelled(t)
    \/ \E n \in ReqSizes : TakeRef(t, n)
    \/ Lookup(t) \/ LookupFails(t) \/ Write(t) \/ WriteFails(t)
    \/ Receive(t) \/ ReceiveFails(t)

\* A step of a call in progress that does not wait for reqMu.
Progress(t) ==
    ConnectStep(t) \/ CloseStep(t) \/ ExchangeStep(t) \/ UnlockReq(t) \/ InfoReturns(t)

Call(t) ==
    \/ \E cs \in CandidateLists : StartConnect(t, cs)
    \/ StartClose(t)
    \/ \E n \in 1..MaxExchanges, k \in {"strict", "tolerant"} : StartOp(t, n, k)
    \/ ConnectionInfo(t)

Next ==
    \/ \E t \in Threads : Call(t) \/ LockReq(t) \/ Progress(t)
    \/ \E c \in Conns, k \in AnswerKinds : DeviceAnswers(c, k)

Spec == Init /\ [][Next]_vars

\* Where a call is inside SendContext or ReceiveContext, which wait for the
\* device until the deadline that setWriteDeadline or setReadDeadline has set.
\* A dial ends by itself.
NetworkPoints == {"cotp", "setup", "write", "recv"}

\* The steps of t that are due.  Without a deadline a wait for the device may
\* last for ever (cancelling the context does not interrupt it), unless the
\* answer is there.
Due(t) ==
    \/ (pc[t] \in NetworkPoints => t \notin Unbounded) /\ Progress(t)
    \/ Receive(t)

\* A goroutine keeps running, and sync.Mutex does not starve a waiter.
Fairness ==
    \A t \in Threads : WF_vars(Due(t)) /\ SF_vars(LockReq(t))

FairSpec == Spec /\ Fairness

-----------------------------------------------------------------------------
(* Properties *)

TypeControl ==
    /\ pc \in [Threads -> Points]
    /\ op \in [Threads -> {"none", "connect", "close", "strict", "tolerant"}]
    /\ reqMu \in Threads \cup {NoThread}
    /\ mu \in Threads \cup {NoThread}
    /\ result \in [Threads -> {"none", "ok", "failed"}]

TypeSession ==
    /\ conn \in Conns \cup {NoConn}
    /\ info \in Infos
    /\ pduRef \in 0..MaxRequests
    /\ snap \in [Threads -> Infos]

TypeSock ==
    /\ sock \in [Conns -> {"unused", "open", "closed"}]
    /\ agreed \in [Conns -> Infos]

TypeWire ==
    /\ sent \in [Conns -> Seq(1..MaxRequests)]
    /\ inbox \in [Conns -> Seq(Frames)]

TypeConnect ==
    /\ cands \in [Threads -> Seq(RackSlots)]
    /\ fresh \in [Threads -> Conns \cup {NoConn}]
    /\ old \in [Threads -> Conns \cup {NoConn}]
    /\ before \in [Threads -> Conns \cup {NoConn}]

TypeExchange ==
    /\ left \in [Threads -> 0..MaxExchanges]
    /\ size \in [Threads -> ReqSizes \cup {0}]
    /\ req \in [Threads -> 0..MaxRequests]
    /\ use \in [Threads -> Conns \cup {NoConn}]
    /\ accepted \in [Threads -> [req : 0..MaxRequests, for : 0..MaxRequests]]

\* Every variable has its type.
TypeOK ==
    /\ TypeControl /\ TypeSession /\ TypeSock /\ TypeWire
    /\ TypeConnect /\ TypeExchange

\* The goroutine is inside a call that holds reqMu.
InCall(t) ==
    pc[t] \in ConnectPoints \cup ClosePoints \cup OpPoints \cup {"unlock"}

\* The connection a goroutine reads from or writes to in sendReceive is still
\* the session and still open, although it was copied out of the client under
\* a lock released before the I/O: a Close or a Connect of another goroutine
\* never pulls a connection from under a request.
NoUseAfterClose ==
    \A t \in Threads :
        pc[t] \in {"write", "recv"} => use[t] = conn /\ sock[use[t]] = "open"

\* No TCP connection is leaked: every open one is the session's, or is held by
\* the connectOnce in progress, which will publish it or close it.
NoLeakedConns ==
    \A c \in Conns : sock[c] = "open" =>
        \/ c = conn
        \/ \E t \in Threads : pc[t] \in ConnectPoints /\ c \in {fresh[t], old[t]}

\* "A failed reconnect leaves the existing session intact": when Connect
\* returns an error, after any number of candidates, the client has the
\* connection it had when Connect started, still open, with its own limits.
FailedConnectKeepsSession ==
    \A t \in Threads :
        /\ pc[t] = "unlock"
        /\ op[t] = "connect"
        /\ result[t] = "failed"
        => /\ conn = before[t]
           /\ conn # NoConn => sock[conn] = "open" /\ info = agreed[conn]

\* Whatever the interleaving with Connect and Close, ConnectionInfo returns the
\* zero values or rack/slot and limits negotiated together by one handshake.
SnapshotConsistent ==
    \A t \in Threads :
        snap[t] = NoInfo \/ \E c \in Conns : snap[t] = agreed[c]

\* A request on the wire fits the PDU size negotiated on the very connection it
\* is written to (a size of 0 is taken as "no limit").
FitsNegotiatedPDU ==
    \A t \in Threads :
        pc[t] \in {"write", "recv"} =>
            agreed[use[t]].pdu = 0 \/ size[t] <= agreed[use[t]].pdu

\* sendReceive accepts another request's late answer only when the 16-bit PDU
\* reference has wrapped: the expected reference is 0, which is not compared,
\* or the two requests are at least 2^16 references apart.
CorrelatedUnlessWrapped ==
    \A t \in Threads :
        LET a == accepted[t] IN
            a.for # a.req => Ref(a.req) = 0 \/ a.req - a.for >= RefModulus

\* Every call returns: no goroutine waits for ever for reqMu, mu or the device,
\* unless a call without any deadline waits for ever for a silent device and
\* so keeps reqMu from everybody.
CallsReturn ==
    \/ \A t \in Threads : pc[t] # "idle" ~> pc[t] = "idle"
    \/ \E u \in Unbounded : <>[](pc[u] \in NetworkPoints)
=============================================================================
