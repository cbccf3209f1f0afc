---------------------------- MODULE S7ClientInv ----------------------------
(***************************************************************************)
(* The inductive invariant of S7Client and the abstract specification it   *)
(* implements.                                                             *)
(***************************************************************************)
EXTENDS S7Client

\* The session the client has, whatever its fields hold in the middle of a
\* critical section of mu.
SessionInfo == IF conn = NoConn THEN NoInfo ELSE agreed[conn]

\* Client implements Session: the swap in connectOnce and closeConnLocked,
\* which take several assignments, and sendReceive, which works on a copy of
\* Client.conn, appear to everyone as single steps on the current session.
ClientSession == INSTANCE Session WITH
    owner   <- reqMu,
    session <- SessionInfo,
    onWire  <- [t \in Threads |-> IF use[t] = NoConn THEN NoInfo ELSE agreed[use[t]]],
    seen    <- snap

Implements == ClientSession!SSpec

-----------------------------------------------------------------------------
(* Who holds which mutex, and which connection each goroutine holds. *)

LocksHeld ==
    \A t \in Threads :
        /\ reqMu = t <=> InCall(t)
        /\ mu = t <=> pc[t] \in {"publishing", "clearing"}

OpMatches ==
    \A t \in Threads :
        /\ pc[t] \in ConnectPoints \cup {"connectLock"} => op[t] = "connect"
        /\ pc[t] \in ClosePoints \cup {"closeLock"} => op[t] = "close"
        /\ pc[t] \in OpPoints \cup {"opLock"} => op[t] \in {"strict", "tolerant"}

\* The connection connectOnce has dialled is its own until it is published.
FreshOwned ==
    \A t \in Threads :
        /\ fresh[t] # NoConn <=> pc[t] \in {"cotp", "setup", "publish", "publishing"}
        /\ fresh[t] # NoConn => sock[fresh[t]] = "open"
        /\ pc[t] \in {"cotp", "setup", "publish"} => fresh[t] # conn
        /\ pc[t] \in {"cotp", "setup"} =>
               cands[t] # <<>> /\ agreed[fresh[t]] = NoInfo
        /\ pc[t] \in {"publish", "publishing"} => agreed[fresh[t]].rs \in RackSlots
        /\ pc[t] = "publishing" => conn = fresh[t]

\* The connection it has replaced is its own until it is closed.
OldOwned ==
    \A t \in Threads :
        /\ old[t] # NoConn => pc[t] \in {"publishing", "closeOld"}
        /\ old[t] # NoConn => sock[old[t]] = "open" /\ old[t] # conn

\* Every open connection is the session or is held by a connectOnce.
OpenIsHeld ==
    \A c \in Conns : sock[c] = "open" =>
        c = conn \/ \E t \in Threads : c = fresh[t] \/ c = old[t]

\* The connection of a request under way is the session.
UseIsSession ==
    \A t \in Threads :
        /\ use[t] # NoConn <=> pc[t] \in {"write", "recv"}
        /\ use[t] # NoConn =>
               /\ use[t] = conn
               /\ agreed[conn].pdu = 0 \/ size[t] <= agreed[conn].pdu

SessionOpen ==
    conn # NoConn => sock[conn] = "open" /\ agreed[conn].rs \in RackSlots

\* The fields protected by mu describe the session, except inside its
\* critical sections.
InfoMatches ==
    /\ mu = NoThread => info = SessionInfo
    /\ \A t \in Threads :
          /\ pc[t] = "publishing" => info.rs = agreed[conn].rs
          /\ pc[t] = "clearing" => conn = NoConn /\ info.rs = NoRackSlot

UnusedIsBlank ==
    \A c \in Conns : sock[c] = "unused" => agreed[c] = NoInfo

\* A Connect that has not published anything has not touched the session.
ConnectUndone ==
    \A t \in Threads :
        /\ pc[t] \in {"candidate", "cotp", "setup", "publish"} => conn = before[t]
        /\ pc[t] = "unlock" /\ op[t] = "connect" /\ result[t] = "failed"
               => conn = before[t]

\* PDU references are taken under reqMu: the request under way is the last.
CurrentRequest ==
    \A t \in Threads :
        /\ pc[t] \in OpPoints \cup {"opLock"} => left[t] > 0
        /\ pc[t] \in {"lookup", "write", "recv"} => req[t] > 0 /\ req[t] = pduRef

\* Everything on the wire asks, or answers, a request made so far.
AnswersTo(R) == {f \in Frames : f.for \in R /\ f.ref = Ref(f.for)}

WireHistory ==
    /\ sent \in [Conns -> Seq(1..pduRef)]
    /\ inbox \in [Conns -> Seq(AnswersTo(1..pduRef))]

\* The inductive invariant: together these explain every property of S7Client,
\* none of which is inductive by itself.  (TypeWire follows from WireHistory.)
IInv ==
    /\ TypeControl /\ TypeSession /\ TypeSock /\ TypeConnect /\ TypeExchange
    /\ LocksHeld /\ OpMatches /\ FreshOwned /\ OldOwned /\ OpenIsHeld
    /\ UseIsSession /\ SessionOpen /\ InfoMatches /\ UnusedIsBlank
    /\ ConnectUndone /\ SnapshotConsistent
    /\ CurrentRequest /\ WireHistory /\ CorrelatedUnlessWrapped
=============================================================================
