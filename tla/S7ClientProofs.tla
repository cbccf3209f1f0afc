--------------------------- MODULE S7ClientProofs ---------------------------
(***************************************************************************)
(* Proofs about S7Client, for any number of goroutines, connections,       *)
(* requests and exchanges, any rack/slots and PDU sizes, and any width of  *)
(* the PDU reference: IInv is inductive, the safety properties follow from *)
(* it, and the client implements Session.                                  *)
(*                                                                         *)
(* There is one lemma per action.  Its first step names the conjuncts of   *)
(* IInv whose variables the action leaves alone; the others are the ones   *)
(* it can disturb.                                                         *)
(***************************************************************************)
EXTENDS S7ClientInv, SequenceTheorems, TLAPS

USE DEF Points, LockPoints, ConnectPoints, ClosePoints, OpPoints, InCall,
        Conns, NoConn, NoInfo, NoExchange, SessionInfo,
        netVars, callVars, exchVars, Goto, Return

-----------------------------------------------------------------------------
(* Two requests whose 16-bit references coincide are far apart. *)

\* Euclidean division.
LEMMA Euclid ==
    ASSUME NEW a \in Nat, NEW M \in Nat \ {0}
    PROVE  a = M * (a \div M) + (a % M) /\ a \div M \in Nat
OBVIOUS

\* A positive multiple of M is at least M.
LEMMA PositiveMultiple ==
    ASSUME NEW d \in Int, NEW M \in Nat \ {0}, M * d > 0
    PROVE  M * d >= M
<1>1. d >= 1
    OBVIOUS
<1>2. PICK e \in Nat : d = e + 1
    BY <1>1
<1>3. M * d = M * e + M
    BY <1>2
<1>4. M * e >= 0
    OBVIOUS
<1> QED BY <1>3, <1>4

\* Different numbers with the same uint16 truncation differ by a whole turn of
\* the counter.
LEMMA RefsApart ==
    ASSUME NEW m \in Nat, NEW n \in Nat, m < n, Ref(m) = Ref(n)
    PROVE  n - m >= RefModulus
<1> DEFINE p == m \div RefModulus
           q == n \div RefModulus
<1>1. /\ m = RefModulus * p + (m % RefModulus)
      /\ n = RefModulus * q + (n % RefModulus)
      /\ p \in Nat /\ q \in Nat
      /\ m % RefModulus \in Nat /\ m % RefModulus = n % RefModulus
    BY Euclid, ClientAssumption DEF Ref
<1> HIDE DEF p, q
<1>2. n - m = RefModulus * q - RefModulus * p
    BY <1>1, ClientAssumption
<1>3. RefModulus * q - RefModulus * p = RefModulus * (q - p)
    BY <1>1, ClientAssumption
<1>4. RefModulus * (q - p) > 0 /\ q - p \in Int
    BY <1>1, <1>2, <1>3
<1> QED BY <1>2, <1>3, <1>4, PositiveMultiple, ClientAssumption

-----------------------------------------------------------------------------
(* Facts shared by several actions. *)

\* Closing a connection empties its queues and leaves the others alone.
LEMMA CloseSockWire ==
    ASSUME WireHistory, NEW c, CloseSock(c), UNCHANGED pduRef
    PROVE  WireHistory'
<1>1. \A R : <<>> \in Seq(R)
    BY EmptySeq
<1>2. sent' \in [Conns -> Seq(1..pduRef)]
    BY <1>1 DEF WireHistory, CloseSock
<1>3. inbox' \in [Conns -> Seq(AnswersTo(1..pduRef))]
    BY <1>1 DEF WireHistory, CloseSock
<1> QED BY <1>2, <1>3 DEF WireHistory, AnswersTo

\* A frame that sendReceive accepts carries the reference of its request,
\* unless that is 0; so it answers that request or one a whole turn older.
LEMMA ReceiveExchange ==
    ASSUME IInv, NEW t \in Threads, Receive(t)
    PROVE  TypeExchange' /\ CorrelatedUnlessWrapped'
<1> USE DEF IInv
<1> DEFINE frame == Head(inbox[use[t]])
           err   == ResponseError(frame, Ref(req[t]))
<1>1. /\ pc[t] = "recv"
      /\ inbox[use[t]] # <<>>
      /\ accepted' = IF err = {}
                     THEN [accepted EXCEPT ![t] = [req |-> req[t], for |-> frame.for]]
                     ELSE accepted
      /\ left' = [left EXCEPT ![t] = @ - 1]
      /\ use' = [use EXCEPT ![t] = NoConn]
      /\ UNCHANGED <<size, req>>
    BY DEF Receive, ExchangeEnds
<1>2. use[t] \in Conns
    BY <1>1 DEF UseIsSession, TypeExchange
<1>3. frame \in AnswersTo(1..pduRef)
    BY <1>1, <1>2, HeadTailProperties DEF WireHistory
<1>4. frame.for \in 1..pduRef /\ frame.ref = Ref(frame.for)
    BY <1>3 DEF AnswersTo
<1>5. req[t] = pduRef /\ pduRef \in 1..MaxRequests
    BY <1>1 DEF CurrentRequest, TypeSession, TypeExchange
<1>6. TypeExchange'
  <2>1. [req |-> req[t], for |-> frame.for]
            \in [req : 0..MaxRequests, for : 0..MaxRequests]
      BY <1>4, <1>5, ClientAssumption
  <2>2. left[t] - 1 \in 0..MaxExchanges
      BY <1>1, ClientAssumption DEF TypeExchange, CurrentRequest
  <2> HIDE DEF err, frame
  <2> QED BY <1>1, <2>1, <2>2 DEF TypeExchange
<1>7. err = {} /\ frame.for # req[t] =>
          Ref(req[t]) = 0 \/ req[t] - frame.for >= RefModulus
  <2> SUFFICES ASSUME err = {}, frame.for # req[t], Ref(req[t]) # 0
               PROVE  req[t] - frame.for >= RefModulus
      OBVIOUS
  <2>1. frame.ref = Ref(req[t])
      BY DEF ResponseError, PDURefMismatchError, ErrProtocolFailure
  <2> QED BY <2>1, <1>4, <1>5, RefsApart
<1>8. CorrelatedUnlessWrapped'
  <2> HIDE DEF err, frame
  <2> QED BY <1>1, <1>7 DEF CorrelatedUnlessWrapped, TypeExchange
<1> QED BY <1>6, <1>8

-----------------------------------------------------------------------------
(* Every action preserves IInv. *)

\* Calling Connect touches only the locals of the caller.
LEMMA StartConnectStep ==
    ASSUME IInv, NEW t \in Threads, NEW cs \in CandidateLists, StartConnect(t, cs)
    PROVE  IInv'
<1> USE DEF IInv, StartConnect
<1>1. TypeSession' /\ TypeSock' /\ TypeExchange' /\ OpenIsHeld' /\
    SessionOpen'
    BY DEF TypeSession, TypeSock, TypeExchange, OpenIsHeld, SessionOpen
<1>2. UnusedIsBlank' /\ SnapshotConsistent' /\ WireHistory' /\
    CorrelatedUnlessWrapped'
    BY DEF UnusedIsBlank, SnapshotConsistent, WireHistory,
        CorrelatedUnlessWrapped
<1>3. OldOwned' /\ UseIsSession' /\ InfoMatches'
    BY ClientAssumption DEF TypeControl, OldOwned, UseIsSession, InfoMatches
<1>4. CurrentRequest'
    BY ClientAssumption DEF TypeControl, CurrentRequest
<1>5. TypeControl'
    BY ClientAssumption DEF TypeControl
<1>6. TypeConnect'
    BY ClientAssumption DEF TypeSession, TypeConnect
<1>7. LocksHeld'
    BY ClientAssumption DEF TypeControl, LocksHeld
<1>8. OpMatches'
    BY DEF TypeControl, OpMatches
<1>9. FreshOwned'
    BY ClientAssumption DEF TypeControl, TypeSock, TypeConnect, LocksHeld,
        FreshOwned, OldOwned, SessionOpen, UnusedIsBlank
<1>10. ConnectUndone'
    BY DEF TypeControl, TypeConnect, LocksHeld, OpMatches, ConnectUndone
<1> QED BY <1>1, <1>2, <1>3, <1>4, <1>5, <1>6, <1>7, <1>8, <1>9, <1>10

\* Calling Close touches only the locals of the caller.
LEMMA StartCloseStep ==
    ASSUME IInv, NEW t \in Threads, StartClose(t)
    PROVE  IInv'
<1> USE DEF IInv, StartClose
<1>1. TypeSession' /\ TypeSock' /\ TypeConnect' /\ TypeExchange' /\
    OpenIsHeld'
    BY DEF TypeSession, TypeSock, TypeConnect, TypeExchange, OpenIsHeld
<1>2. SessionOpen' /\ UnusedIsBlank' /\ SnapshotConsistent' /\ WireHistory'
    /\ CorrelatedUnlessWrapped'
    BY DEF SessionOpen, UnusedIsBlank, SnapshotConsistent, WireHistory,
        CorrelatedUnlessWrapped
<1>3. FreshOwned' /\ OldOwned' /\ UseIsSession'
    BY ClientAssumption DEF TypeControl, FreshOwned, OldOwned, UseIsSession
<1>4. InfoMatches' /\ CurrentRequest'
    BY ClientAssumption DEF TypeControl, InfoMatches, CurrentRequest
<1>5. TypeControl'
    BY ClientAssumption DEF TypeControl
<1>6. LocksHeld'
    BY ClientAssumption DEF TypeControl, LocksHeld
<1>7. OpMatches'
    BY DEF TypeControl, OpMatches
<1>8. ConnectUndone'
    BY DEF TypeControl, TypeConnect, LocksHeld, OpMatches, ConnectUndone
<1> QED BY <1>1, <1>2, <1>3, <1>4, <1>5, <1>6, <1>7, <1>8

\* Calling a request operation touches only the locals of the caller.
LEMMA StartOpStep ==
    ASSUME IInv, NEW t \in Threads, NEW n \in 1..MaxExchanges,
           NEW k \in {"strict", "tolerant"}, StartOp(t, n, k)
    PROVE  IInv'
<1> USE DEF IInv, StartOp
<1>1. TypeSession' /\ TypeSock' /\ TypeConnect' /\ OpenIsHeld' /\
    SessionOpen'
    BY DEF TypeSession, TypeSock, TypeConnect, OpenIsHeld, SessionOpen
<1>2. UnusedIsBlank' /\ SnapshotConsistent' /\ WireHistory' /\
    CorrelatedUnlessWrapped'
    BY DEF UnusedIsBlank, SnapshotConsistent, WireHistory,
        CorrelatedUnlessWrapped
<1>3. FreshOwned' /\ OldOwned' /\ UseIsSession'
    BY ClientAssumption DEF TypeControl, FreshOwned, OldOwned, UseIsSession
<1>4. InfoMatches'
    BY ClientAssumption DEF TypeControl, InfoMatches
<1>5. TypeControl'
    BY ClientAssumption DEF TypeControl
<1>6. TypeExchange'
    BY ClientAssumption DEF TypeExchange
<1>7. LocksHeld'
    BY ClientAssumption DEF TypeControl, LocksHeld
<1>8. OpMatches'
    BY DEF TypeControl, OpMatches
<1>9. ConnectUndone'
    BY DEF TypeControl, TypeConnect, LocksHeld, OpMatches, ConnectUndone
<1>10. CurrentRequest'
    BY DEF TypeControl, TypeSession, TypeExchange, LocksHeld, CurrentRequest
<1> QED BY <1>1, <1>2, <1>3, <1>4, <1>5, <1>6, <1>7, <1>8, <1>9, <1>10

\* Taking reqMu makes its holder the only goroutine inside a call.
LEMMA LockReqStep ==
    ASSUME IInv, NEW t \in Threads, LockReq(t)
    PROVE  IInv'
<1> USE DEF IInv, LockReq
<1>1. TypeSession' /\ TypeSock' /\ TypeExchange' /\ OpenIsHeld' /\
    SessionOpen'
    BY DEF TypeSession, TypeSock, TypeExchange, OpenIsHeld, SessionOpen
<1>2. UnusedIsBlank' /\ SnapshotConsistent' /\ WireHistory' /\
    CorrelatedUnlessWrapped'
    BY DEF UnusedIsBlank, SnapshotConsistent, WireHistory,
        CorrelatedUnlessWrapped
<1>3. OpMatches' /\ FreshOwned' /\ OldOwned'
    BY ClientAssumption DEF TypeControl, OpMatches, FreshOwned, OldOwned,
        EntryPoint
<1>4. UseIsSession' /\ InfoMatches' /\ CurrentRequest'
    BY ClientAssumption DEF TypeControl, UseIsSession, InfoMatches,
        CurrentRequest, EntryPoint
<1>5. TypeControl'
    BY ClientAssumption DEF TypeControl, EntryPoint
<1>6. TypeConnect'
    BY ClientAssumption DEF TypeSession, TypeConnect
<1>7. LocksHeld'
    BY ClientAssumption DEF TypeControl, LocksHeld, EntryPoint
<1>8. ConnectUndone'
    BY DEF TypeControl, TypeConnect, LocksHeld, OpMatches, ConnectUndone,
        EntryPoint
<1> QED BY <1>1, <1>2, <1>3, <1>4, <1>5, <1>6, <1>7, <1>8

\* The last step of a call gives up reqMu and holds no connection.
LEMMA UnlockReqStep ==
    ASSUME IInv, NEW t \in Threads, UnlockReq(t)
    PROVE  IInv'
<1> USE DEF IInv, UnlockReq
<1>1. TypeSession' /\ TypeSock' /\ OpenIsHeld' /\ SessionOpen'
    BY DEF TypeSession, TypeSock, OpenIsHeld, SessionOpen
<1>2. UnusedIsBlank' /\ SnapshotConsistent' /\ WireHistory'
    BY DEF UnusedIsBlank, SnapshotConsistent, WireHistory
<1>3. FreshOwned' /\ OldOwned' /\ InfoMatches'
    BY ClientAssumption DEF TypeControl, FreshOwned, OldOwned, InfoMatches
<1>4. TypeControl'
    BY ClientAssumption DEF TypeControl
<1>5. TypeConnect'
    BY ClientAssumption DEF TypeSession, TypeConnect
<1>6. TypeExchange'
    BY ClientAssumption DEF TypeExchange
<1>7. LocksHeld'
    BY ClientAssumption DEF TypeControl, LocksHeld
<1>8. OpMatches'
    BY DEF TypeControl, OpMatches
<1>9. UseIsSession'
    BY DEF TypeControl, TypeSession, TypeExchange, LocksHeld, FreshOwned,
        UseIsSession, InfoMatches
<1>10. ConnectUndone'
    BY DEF TypeControl, TypeConnect, LocksHeld, OpMatches, ConnectUndone
<1>11. CurrentRequest'
    BY DEF TypeControl, TypeSession, TypeExchange, LocksHeld, CurrentRequest
<1>12. CorrelatedUnlessWrapped'
    BY ClientAssumption DEF TypeControl, TypeSession, TypeExchange,
        UseIsSession, CurrentRequest, WireHistory, CorrelatedUnlessWrapped,
        ResponseError, Ref, AnswersTo, Frames, PDURefMismatchError,
        ErrProtocolFailure
<1> QED BY <1>1, <1>2, <1>3, <1>4, <1>5, <1>6, <1>7, <1>8, <1>9, <1>10,
    <1>11, <1>12

\* A Connect that gives up has published nothing.
LEMMA GiveUpStep ==
    ASSUME IInv, NEW t \in Threads, GiveUp(t)
    PROVE  IInv'
<1> USE DEF IInv, GiveUp
<1>1. TypeSession' /\ TypeSock' /\ TypeExchange' /\ OpenIsHeld' /\
    SessionOpen'
    BY DEF TypeSession, TypeSock, TypeExchange, OpenIsHeld, SessionOpen
<1>2. UnusedIsBlank' /\ SnapshotConsistent' /\ WireHistory' /\
    CorrelatedUnlessWrapped'
    BY DEF UnusedIsBlank, SnapshotConsistent, WireHistory,
        CorrelatedUnlessWrapped
<1>3. OpMatches' /\ OldOwned' /\ UseIsSession'
    BY ClientAssumption DEF TypeControl, OpMatches, OldOwned, UseIsSession
<1>4. InfoMatches' /\ CurrentRequest'
    BY ClientAssumption DEF TypeControl, InfoMatches, CurrentRequest
<1>5. TypeControl'
    BY ClientAssumption DEF TypeControl
<1>6. TypeConnect'
    BY ClientAssumption DEF TypeSession, TypeConnect
<1>7. LocksHeld'
    BY ClientAssumption DEF TypeControl, LocksHeld
<1>8. FreshOwned'
    BY ClientAssumption DEF TypeControl, TypeSock, TypeConnect, LocksHeld,
        FreshOwned, OldOwned, SessionOpen, UnusedIsBlank
<1>9. ConnectUndone'
    BY DEF TypeControl, TypeConnect, LocksHeld, OpMatches, ConnectUndone
<1> QED BY <1>1, <1>2, <1>3, <1>4, <1>5, <1>6, <1>7, <1>8, <1>9

\* A dialled connection was unused and is held by the goroutine that dialled it.
LEMMA DialStep ==
    ASSUME IInv, NEW t \in Threads, Dial(t)
    PROVE  IInv'
<1> USE DEF IInv, Dial
<1>1. TypeSession' /\ TypeExchange' /\ SnapshotConsistent' /\ WireHistory'
    /\ CorrelatedUnlessWrapped'
    BY DEF TypeSession, TypeExchange, SnapshotConsistent, WireHistory,
        CorrelatedUnlessWrapped
<1>2. OpMatches' /\ UseIsSession' /\ InfoMatches'
    BY ClientAssumption DEF TypeControl, OpMatches, UseIsSession,
        InfoMatches
<1>3. ConnectUndone' /\ CurrentRequest'
    BY ClientAssumption DEF TypeControl, ConnectUndone, CurrentRequest
<1>4. TypeControl'
    BY ClientAssumption DEF TypeControl
<1>5. TypeSock'
    BY ClientAssumption DEF TypeSession, TypeSock, TypeConnect, FreshOwned,
        Infos
<1>6. TypeConnect'
    BY ClientAssumption DEF TypeSession, TypeConnect
<1>7. LocksHeld'
    BY ClientAssumption DEF TypeControl, LocksHeld
<1>8. FreshOwned'
    BY ClientAssumption DEF TypeControl, TypeSock, TypeConnect, LocksHeld,
        FreshOwned, OldOwned, SessionOpen, UnusedIsBlank
<1>9. OldOwned'
    BY DEF TypeControl, TypeSession, TypeSock, TypeConnect, LocksHeld,
        FreshOwned, OldOwned, SessionOpen
<1>10. OpenIsHeld'
    BY DEF TypeSession, TypeSock, TypeConnect, FreshOwned, OldOwned,
        OpenIsHeld
<1>11. SessionOpen'
    BY ClientAssumption DEF TypeControl, TypeSession, TypeSock, TypeConnect,
        LocksHeld, FreshOwned, OldOwned, SessionOpen
<1>12. UnusedIsBlank'
    BY ClientAssumption DEF TypeControl, TypeSock, TypeConnect, LocksHeld,
        FreshOwned, UnusedIsBlank
<1> QED BY <1>1, <1>2, <1>3, <1>4, <1>5, <1>6, <1>7, <1>8, <1>9, <1>10,
    <1>11, <1>12

\* A failed dial only moves on to the next candidate.
LEMMA DialFailsStep ==
    ASSUME IInv, NEW t \in Threads, DialFails(t)
    PROVE  IInv'
<1> USE DEF IInv, DialFails
<1>1. TypeControl' /\ TypeSession' /\ TypeSock' /\ TypeExchange' /\
    LocksHeld'
    BY DEF TypeControl, TypeSession, TypeSock, TypeExchange, LocksHeld
<1>2. OpMatches' /\ OldOwned' /\ OpenIsHeld' /\ UseIsSession' /\
    SessionOpen'
    BY DEF OpMatches, OldOwned, OpenIsHeld, UseIsSession, SessionOpen
<1>3. InfoMatches' /\ UnusedIsBlank' /\ ConnectUndone' /\
    SnapshotConsistent' /\ CurrentRequest'
    BY DEF InfoMatches, UnusedIsBlank, ConnectUndone, SnapshotConsistent,
        CurrentRequest
<1>4. WireHistory' /\ CorrelatedUnlessWrapped'
    BY DEF WireHistory, CorrelatedUnlessWrapped
<1>5. TypeConnect'
    BY ClientAssumption DEF TypeSession, TypeConnect
<1>6. FreshOwned'
    BY ClientAssumption DEF TypeControl, TypeSock, TypeConnect, LocksHeld,
        FreshOwned, OldOwned, SessionOpen, UnusedIsBlank
<1> QED BY <1>1, <1>2, <1>3, <1>4, <1>5, <1>6

\* The COTP handshake changes nothing the client can see.
LEMMA COTPConnectedStep ==
    ASSUME IInv, NEW t \in Threads, COTPConnected(t)
    PROVE  IInv'
<1> USE DEF IInv, COTPConnected
<1>1. TypeSession' /\ TypeSock' /\ TypeConnect' /\ TypeExchange' /\
    OpenIsHeld'
    BY DEF TypeSession, TypeSock, TypeConnect, TypeExchange, OpenIsHeld
<1>2. SessionOpen' /\ UnusedIsBlank' /\ SnapshotConsistent' /\ WireHistory'
    /\ CorrelatedUnlessWrapped'
    BY DEF SessionOpen, UnusedIsBlank, SnapshotConsistent, WireHistory,
        CorrelatedUnlessWrapped
<1>3. OpMatches' /\ FreshOwned' /\ OldOwned'
    BY ClientAssumption DEF TypeControl, OpMatches, FreshOwned, OldOwned
<1>4. UseIsSession' /\ InfoMatches' /\ ConnectUndone'
    BY ClientAssumption DEF TypeControl, UseIsSession, InfoMatches,
        ConnectUndone
<1>5. CurrentRequest'
    BY ClientAssumption DEF TypeControl, CurrentRequest
<1>6. TypeControl'
    BY ClientAssumption DEF TypeControl
<1>7. LocksHeld'
    BY ClientAssumption DEF TypeControl, LocksHeld
<1> QED BY <1>1, <1>2, <1>3, <1>4, <1>5, <1>6, <1>7

\* Setup records the limits of a connection that is not published yet.
LEMMA SetupDoneStep ==
    ASSUME IInv, NEW t \in Threads, NEW p \in PDUSizes, SetupDone(t, p)
    PROVE  IInv'
<1> USE DEF IInv, SetupDone
<1>1. TypeSession' /\ TypeConnect' /\ TypeExchange'
    BY DEF TypeSession, TypeConnect, TypeExchange
<1>2. OpenIsHeld' /\ WireHistory' /\ CorrelatedUnlessWrapped'
    BY DEF OpenIsHeld, WireHistory, CorrelatedUnlessWrapped
<1>3. OpMatches' /\ OldOwned' /\ ConnectUndone'
    BY ClientAssumption DEF TypeControl, OpMatches, OldOwned, ConnectUndone
<1>4. CurrentRequest'
    BY ClientAssumption DEF TypeControl, CurrentRequest
<1>5. TypeControl'
    BY ClientAssumption DEF TypeControl
<1>6. TypeSock'
    BY ClientAssumption DEF TypeSession, TypeSock, TypeConnect, FreshOwned,
        Infos
<1>7. LocksHeld'
    BY ClientAssumption DEF TypeControl, LocksHeld
<1>8. FreshOwned'
    BY ClientAssumption DEF TypeControl, TypeSock, TypeConnect, LocksHeld,
        FreshOwned, OldOwned, SessionOpen, UnusedIsBlank
<1>9. UseIsSession'
    BY DEF TypeControl, TypeSession, TypeExchange, LocksHeld, FreshOwned,
        UseIsSession, InfoMatches
<1>10. SessionOpen'
    BY ClientAssumption DEF TypeControl, TypeSession, TypeSock, TypeConnect,
        LocksHeld, FreshOwned, OldOwned, SessionOpen
<1>11. InfoMatches'
    BY ClientAssumption DEF TypeControl, TypeSession, TypeSock, TypeConnect,
        LocksHeld, FreshOwned, InfoMatches, Infos
<1>12. UnusedIsBlank'
    BY ClientAssumption DEF TypeControl, TypeSock, TypeConnect, LocksHeld,
        FreshOwned, UnusedIsBlank
<1>13. SnapshotConsistent'
    BY DEF TypeControl, TypeSession, TypeSock, TypeConnect, LocksHeld,
        FreshOwned, InfoMatches, SnapshotConsistent
<1> QED BY <1>1, <1>2, <1>3, <1>4, <1>5, <1>6, <1>7, <1>8, <1>9, <1>10,
    <1>11, <1>12, <1>13

\* A failed handshake closes the connection it dialled, and no other.
LEMMA HandshakeFailsStep ==
    ASSUME IInv, NEW t \in Threads, HandshakeFails(t)
    PROVE  IInv'
<1> USE DEF IInv, HandshakeFails, CloseSock
<1>1. TypeSession' /\ TypeExchange' /\ SnapshotConsistent' /\
    CorrelatedUnlessWrapped'
    BY DEF TypeSession, TypeExchange, SnapshotConsistent,
        CorrelatedUnlessWrapped
<1>2. OpMatches' /\ UseIsSession' /\ InfoMatches'
    BY ClientAssumption DEF TypeControl, OpMatches, UseIsSession,
        InfoMatches
<1>3. ConnectUndone' /\ CurrentRequest'
    BY ClientAssumption DEF TypeControl, ConnectUndone, CurrentRequest
<1>4. TypeControl'
    BY ClientAssumption DEF TypeControl
<1>5. TypeSock'
    BY ClientAssumption DEF TypeSession, TypeSock, TypeConnect, FreshOwned,
        Infos
<1>6. TypeConnect'
    BY ClientAssumption DEF TypeConnect, FreshOwned
<1>7. LocksHeld'
    BY ClientAssumption DEF TypeControl, LocksHeld
<1>8. FreshOwned'
    BY ClientAssumption DEF TypeControl, TypeSock, TypeConnect, LocksHeld,
        FreshOwned, OldOwned, SessionOpen, UnusedIsBlank
<1>9. OldOwned'
    BY DEF TypeControl, TypeSession, TypeSock, TypeConnect, LocksHeld,
        FreshOwned, OldOwned, SessionOpen
<1>10. OpenIsHeld'
    BY DEF TypeSession, TypeSock, TypeConnect, FreshOwned, OldOwned,
        OpenIsHeld
<1>11. SessionOpen'
    BY ClientAssumption DEF TypeControl, TypeSession, TypeSock, TypeConnect,
        LocksHeld, FreshOwned, OldOwned, SessionOpen
<1>12. UnusedIsBlank'
    BY ClientAssumption DEF TypeControl, TypeSock, TypeConnect, LocksHeld,
        FreshOwned, UnusedIsBlank
<1>13. WireHistory'
    BY CloseSockWire
<1> QED BY <1>1, <1>2, <1>3, <1>4, <1>5, <1>6, <1>7, <1>8, <1>9, <1>10,
    <1>11, <1>12, <1>13

\* The swap makes the new connection the session and keeps hold of the old one.
LEMMA PublishConnStep ==
    ASSUME IInv, NEW t \in Threads, PublishConn(t)
    PROVE  IInv'
<1> USE DEF IInv, PublishConn
<1>1. TypeSock' /\ TypeExchange' /\ UnusedIsBlank'
    BY DEF TypeSock, TypeExchange, UnusedIsBlank
<1>2. SnapshotConsistent' /\ WireHistory' /\ CorrelatedUnlessWrapped'
    BY DEF SnapshotConsistent, WireHistory, CorrelatedUnlessWrapped
<1>3. OpMatches' /\ CurrentRequest'
    BY ClientAssumption DEF TypeControl, OpMatches, CurrentRequest
<1>4. TypeControl'
    BY ClientAssumption DEF TypeControl
<1>5. TypeSession'
    BY ClientAssumption DEF TypeSession, TypeSock, TypeConnect, FreshOwned,
        Infos
<1>6. TypeConnect'
    BY ClientAssumption DEF TypeSession, TypeConnect
<1>7. LocksHeld'
    BY ClientAssumption DEF TypeControl, LocksHeld
<1>8. FreshOwned'
    BY ClientAssumption DEF TypeControl, TypeSock, TypeConnect, LocksHeld,
        FreshOwned, OldOwned, SessionOpen, UnusedIsBlank
<1>9. OldOwned'
    BY DEF TypeControl, TypeSession, TypeSock, TypeConnect, LocksHeld,
        FreshOwned, OldOwned, SessionOpen
<1>10. OpenIsHeld'
    BY DEF TypeSession, TypeSock, TypeConnect, FreshOwned, OldOwned,
        OpenIsHeld
<1>11. UseIsSession'
    BY DEF TypeControl, TypeSession, TypeExchange, LocksHeld, FreshOwned,
        UseIsSession, InfoMatches
<1>12. SessionOpen'
    BY ClientAssumption DEF TypeControl, TypeSession, TypeSock, TypeConnect,
        LocksHeld, FreshOwned, OldOwned, SessionOpen
<1>13. InfoMatches'
    BY ClientAssumption DEF TypeControl, TypeSession, TypeSock, TypeConnect,
        LocksHeld, FreshOwned, InfoMatches, Infos
<1>14. ConnectUndone'
    BY DEF TypeControl, TypeConnect, LocksHeld, OpMatches, ConnectUndone
<1> QED BY <1>1, <1>2, <1>3, <1>4, <1>5, <1>6, <1>7, <1>8, <1>9, <1>10,
    <1>11, <1>12, <1>13, <1>14

\* The end of the swap makes the fields describe the new session.
LEMMA PublishLimitsStep ==
    ASSUME IInv, NEW t \in Threads, PublishLimits(t)
    PROVE  IInv'
<1> USE DEF IInv, PublishLimits
<1>1. TypeSock' /\ TypeExchange' /\ SessionOpen' /\ UnusedIsBlank'
    BY DEF TypeSock, TypeExchange, SessionOpen, UnusedIsBlank
<1>2. SnapshotConsistent' /\ WireHistory' /\ CorrelatedUnlessWrapped'
    BY DEF SnapshotConsistent, WireHistory, CorrelatedUnlessWrapped
<1>3. OpMatches' /\ OldOwned' /\ UseIsSession'
    BY ClientAssumption DEF TypeControl, OpMatches, OldOwned, UseIsSession
<1>4. ConnectUndone' /\ CurrentRequest'
    BY ClientAssumption DEF TypeControl, ConnectUndone, CurrentRequest
<1>5. TypeControl'
    BY ClientAssumption DEF TypeControl
<1>6. TypeSession'
  <2>1. agreed[fresh[t]].pdu \in PDUSizes \cup {0}
      BY DEF TypeConnect, FreshOwned, TypeSock, Infos
  <2>2. info' \in Infos
      BY <2>1 DEF TypeSession, Infos
  <2> QED BY <2>2 DEF TypeSession
<1>7. TypeConnect'
    BY ClientAssumption DEF TypeSession, TypeConnect
<1>8. LocksHeld'
    BY ClientAssumption DEF TypeControl, LocksHeld
<1>9. FreshOwned'
    BY ClientAssumption DEF TypeControl, TypeSock, TypeConnect, LocksHeld,
        FreshOwned, OldOwned, SessionOpen, UnusedIsBlank
<1>10. OpenIsHeld'
    BY DEF TypeSession, TypeSock, TypeConnect, FreshOwned, OldOwned,
        OpenIsHeld
<1>11. InfoMatches'
    BY ClientAssumption DEF TypeControl, TypeSession, TypeSock, TypeConnect,
        LocksHeld, FreshOwned, InfoMatches, Infos
<1> QED BY <1>1, <1>2, <1>3, <1>4, <1>5, <1>6, <1>7, <1>8, <1>9, <1>10,
    <1>11

\* The connection closed after the swap is not the session.
LEMMA CloseOldStep ==
    ASSUME IInv, NEW t \in Threads, CloseOld(t)
    PROVE  IInv'
<1> USE DEF IInv, CloseOld, CloseSock
<1>1. TypeSession' /\ TypeExchange' /\ SnapshotConsistent' /\
    CorrelatedUnlessWrapped'
    BY DEF TypeSession, TypeExchange, SnapshotConsistent,
        CorrelatedUnlessWrapped
<1>2. OpMatches' /\ UseIsSession' /\ InfoMatches'
    BY ClientAssumption DEF TypeControl, OpMatches, UseIsSession,
        InfoMatches
<1>3. CurrentRequest'
    BY ClientAssumption DEF TypeControl, CurrentRequest
<1>4. TypeControl'
    BY ClientAssumption DEF TypeControl
<1>5. TypeSock'
    BY ClientAssumption DEF TypeSession, TypeSock, TypeConnect, FreshOwned,
        Infos
<1>6. TypeConnect'
    BY ClientAssumption DEF TypeSession, TypeConnect
<1>7. LocksHeld'
    BY ClientAssumption DEF TypeControl, LocksHeld
<1>8. FreshOwned'
    BY ClientAssumption DEF TypeControl, TypeSock, TypeConnect, LocksHeld,
        FreshOwned, OldOwned, SessionOpen, UnusedIsBlank
<1>9. OldOwned'
    BY DEF TypeControl, TypeSession, TypeSock, TypeConnect, LocksHeld,
        FreshOwned, OldOwned, SessionOpen
<1>10. OpenIsHeld'
    BY DEF TypeSession, TypeSock, TypeConnect, FreshOwned, OldOwned,
        OpenIsHeld
<1>11. SessionOpen'
    BY ClientAssumption DEF TypeControl, TypeSession, TypeSock, TypeConnect,
        LocksHeld, FreshOwned, OldOwned, SessionOpen
<1>12. UnusedIsBlank'
    BY ClientAssumption DEF TypeControl, TypeSock, TypeConnect, LocksHeld,
        FreshOwned, UnusedIsBlank
<1>13. ConnectUndone'
    BY DEF TypeControl, TypeConnect, LocksHeld, OpMatches, ConnectUndone
<1>14. WireHistory'
    BY CloseSockWire
<1> QED BY <1>1, <1>2, <1>3, <1>4, <1>5, <1>6, <1>7, <1>8, <1>9, <1>10,
    <1>11, <1>12, <1>13, <1>14

\* Close without a session changes nothing.
LEMMA CloseNothingStep ==
    ASSUME IInv, NEW t \in Threads, CloseNothing(t)
    PROVE  IInv'
<1> USE DEF IInv, CloseNothing
<1>1. TypeSession' /\ TypeSock' /\ TypeConnect' /\ TypeExchange' /\
    OpenIsHeld'
    BY DEF TypeSession, TypeSock, TypeConnect, TypeExchange, OpenIsHeld
<1>2. SessionOpen' /\ UnusedIsBlank' /\ SnapshotConsistent' /\ WireHistory'
    /\ CorrelatedUnlessWrapped'
    BY DEF SessionOpen, UnusedIsBlank, SnapshotConsistent, WireHistory,
        CorrelatedUnlessWrapped
<1>3. OpMatches' /\ FreshOwned' /\ OldOwned'
    BY ClientAssumption DEF TypeControl, OpMatches, FreshOwned, OldOwned
<1>4. UseIsSession' /\ InfoMatches' /\ CurrentRequest'
    BY ClientAssumption DEF TypeControl, UseIsSession, InfoMatches,
        CurrentRequest
<1>5. TypeControl'
    BY ClientAssumption DEF TypeControl
<1>6. LocksHeld'
    BY ClientAssumption DEF TypeControl, LocksHeld
<1>7. ConnectUndone'
    BY DEF TypeControl, TypeConnect, LocksHeld, OpMatches, ConnectUndone
<1> QED BY <1>1, <1>2, <1>3, <1>4, <1>5, <1>6, <1>7

\* Close closes the session while nobody else uses it.
LEMMA CloseConnStep ==
    ASSUME IInv, NEW t \in Threads, CloseConn(t)
    PROVE  IInv'
<1> USE DEF IInv, CloseConn, CloseSock
<1>1. TypeConnect' /\ TypeExchange' /\ SnapshotConsistent' /\
    CorrelatedUnlessWrapped'
    BY DEF TypeConnect, TypeExchange, SnapshotConsistent,
        CorrelatedUnlessWrapped
<1>2. OpMatches' /\ CurrentRequest'
    BY ClientAssumption DEF TypeControl, OpMatches, CurrentRequest
<1>3. TypeControl'
    BY ClientAssumption DEF TypeControl
<1>4. TypeSession'
    BY ClientAssumption DEF TypeSession, Infos
<1>5. TypeSock'
    BY ClientAssumption DEF TypeSession, TypeSock, TypeConnect, FreshOwned,
        Infos
<1>6. LocksHeld'
    BY ClientAssumption DEF TypeControl, LocksHeld
<1>7. FreshOwned'
    BY ClientAssumption DEF TypeControl, TypeSock, TypeConnect, LocksHeld,
        FreshOwned, OldOwned, SessionOpen, UnusedIsBlank
<1>8. OldOwned'
    BY DEF TypeControl, TypeSession, TypeSock, TypeConnect, LocksHeld,
        FreshOwned, OldOwned, SessionOpen
<1>9. OpenIsHeld'
    BY DEF TypeSession, TypeSock, TypeConnect, FreshOwned, OldOwned,
        OpenIsHeld
<1>10. UseIsSession'
    BY DEF TypeControl, TypeSession, TypeExchange, LocksHeld, FreshOwned,
        UseIsSession, InfoMatches
<1>11. SessionOpen'
    BY ClientAssumption DEF TypeControl, TypeSession, TypeSock, TypeConnect,
        LocksHeld, FreshOwned, OldOwned, SessionOpen
<1>12. InfoMatches'
    BY ClientAssumption DEF TypeControl, TypeSession, TypeSock, TypeConnect,
        LocksHeld, FreshOwned, InfoMatches, Infos
<1>13. UnusedIsBlank'
    BY ClientAssumption DEF TypeControl, TypeSock, TypeConnect, LocksHeld,
        FreshOwned, UnusedIsBlank
<1>14. ConnectUndone'
    BY DEF TypeControl, TypeConnect, LocksHeld, OpMatches, ConnectUndone
<1>15. WireHistory'
    BY CloseSockWire
<1> QED BY <1>1, <1>2, <1>3, <1>4, <1>5, <1>6, <1>7, <1>8, <1>9, <1>10,
    <1>11, <1>12, <1>13, <1>14, <1>15

\* After Close the fields are the zero values.
LEMMA ClearLimitsStep ==
    ASSUME IInv, NEW t \in Threads, ClearLimits(t)
    PROVE  IInv'
<1> USE DEF IInv, ClearLimits
<1>1. TypeSock' /\ TypeConnect' /\ TypeExchange' /\ OpenIsHeld' /\
    SessionOpen'
    BY DEF TypeSock, TypeConnect, TypeExchange, OpenIsHeld, SessionOpen
<1>2. UnusedIsBlank' /\ SnapshotConsistent' /\ WireHistory' /\
    CorrelatedUnlessWrapped'
    BY DEF UnusedIsBlank, SnapshotConsistent, WireHistory,
        CorrelatedUnlessWrapped
<1>3. OpMatches' /\ FreshOwned' /\ OldOwned'
    BY ClientAssumption DEF TypeControl, OpMatches, FreshOwned, OldOwned
<1>4. UseIsSession' /\ CurrentRequest'
    BY ClientAssumption DEF TypeControl, UseIsSession, CurrentRequest
<1>5. TypeControl'
    BY ClientAssumption DEF TypeControl
<1>6. TypeSession'
    BY ClientAssumption DEF TypeSession, Infos
<1>7. LocksHeld'
    BY ClientAssumption DEF TypeControl, LocksHeld
<1>8. InfoMatches'
  <2>1. conn = NoConn /\ info.rs = NoRackSlot
      BY DEF InfoMatches
  <2>2. info' = NoInfo
      BY <2>1 DEF TypeSession, Infos, NoInfo
  <2>3. \A u \in Threads : pc'[u] \notin {"publishing", "clearing"}
      BY ClientAssumption DEF TypeControl, LocksHeld
  <2> QED BY <2>1, <2>2, <2>3 DEF InfoMatches
<1>9. ConnectUndone'
    BY DEF TypeControl, TypeConnect, LocksHeld, OpMatches, ConnectUndone
<1> QED BY <1>1, <1>2, <1>3, <1>4, <1>5, <1>6, <1>7, <1>8, <1>9

\* A cancelled operation returns without a connection in use.
LEMMA CancelledStep ==
    ASSUME IInv, NEW t \in Threads, Cancelled(t)
    PROVE  IInv'
<1> USE DEF IInv, Cancelled
<1>1. TypeSession' /\ TypeSock' /\ TypeConnect' /\ TypeExchange' /\
    OpenIsHeld'
    BY DEF TypeSession, TypeSock, TypeConnect, TypeExchange, OpenIsHeld
<1>2. SessionOpen' /\ UnusedIsBlank' /\ SnapshotConsistent' /\ WireHistory'
    /\ CorrelatedUnlessWrapped'
    BY DEF SessionOpen, UnusedIsBlank, SnapshotConsistent, WireHistory,
        CorrelatedUnlessWrapped
<1>3. OpMatches' /\ FreshOwned' /\ OldOwned'
    BY ClientAssumption DEF TypeControl, OpMatches, FreshOwned, OldOwned
<1>4. UseIsSession' /\ InfoMatches' /\ CurrentRequest'
    BY ClientAssumption DEF TypeControl, UseIsSession, InfoMatches,
        CurrentRequest
<1>5. TypeControl'
    BY ClientAssumption DEF TypeControl
<1>6. LocksHeld'
    BY ClientAssumption DEF TypeControl, LocksHeld
<1>7. ConnectUndone'
    BY DEF TypeControl, OpMatches, ConnectUndone
<1> QED BY <1>1, <1>2, <1>3, <1>4, <1>5, <1>6, <1>7

\* A new reference is newer than everything on the wire.
LEMMA TakeRefStep ==
    ASSUME IInv, NEW t \in Threads, NEW n \in ReqSizes, TakeRef(t, n)
    PROVE  IInv'
<1> USE DEF IInv, TakeRef
<1>1. TypeSock' /\ TypeConnect' /\ OpenIsHeld' /\ SessionOpen'
    BY DEF TypeSock, TypeConnect, OpenIsHeld, SessionOpen
<1>2. UnusedIsBlank' /\ SnapshotConsistent' /\ CorrelatedUnlessWrapped'
    BY DEF UnusedIsBlank, SnapshotConsistent, CorrelatedUnlessWrapped
<1>3. OpMatches' /\ FreshOwned' /\ OldOwned'
    BY ClientAssumption DEF TypeControl, OpMatches, FreshOwned, OldOwned
<1>4. InfoMatches' /\ ConnectUndone'
    BY ClientAssumption DEF TypeControl, InfoMatches, ConnectUndone
<1>5. TypeControl'
    BY ClientAssumption DEF TypeControl
<1>6. TypeSession'
    BY ClientAssumption DEF TypeSession, TypeSock, TypeConnect, FreshOwned,
        Infos
<1>7. TypeExchange'
  <2>1. pduRef + 1 \in 0..MaxRequests
      BY ClientAssumption DEF TypeSession
  <2> QED BY <2>1 DEF TypeExchange
<1>8. LocksHeld'
    BY ClientAssumption DEF TypeControl, LocksHeld
<1>9. UseIsSession'
    BY DEF TypeControl, TypeExchange, UseIsSession
<1>10. CurrentRequest'
  <2>1. \A u \in Threads \ {t} : pc[u] \notin {"lookup", "write", "recv"}
      BY DEF LocksHeld
  <2>2. pduRef + 1 > 0
      BY DEF TypeSession
  <2> QED BY <2>1, <2>2 DEF TypeControl, TypeExchange, CurrentRequest
<1>11. WireHistory'
  <2>1. 1..pduRef \subseteq 1..pduRef'
      BY DEF TypeSession
  <2>2. AnswersTo(1..pduRef) \subseteq AnswersTo(1..pduRef')
      BY <2>1 DEF AnswersTo
  <2>3. /\ \A s \in Seq(1..pduRef) : s \in Seq(1..pduRef')
        /\ \A s \in Seq(AnswersTo(1..pduRef)) : s \in Seq(AnswersTo(1..pduRef'))
      BY <2>1, <2>2, SeqMonotonic
  <2>4. /\ sent' \in [Conns -> Seq(1..pduRef')]
        /\ inbox' \in [Conns -> Seq(AnswersTo(1..pduRef'))]
      BY <2>3 DEF WireHistory
  <2> QED BY <2>4 DEF WireHistory, AnswersTo
<1> QED BY <1>1, <1>2, <1>3, <1>4, <1>5, <1>6, <1>7, <1>8, <1>9, <1>10,
    <1>11

\* The connection copied under mu is the session, and the request fits its limits.
LEMMA LookupStep ==
    ASSUME IInv, NEW t \in Threads, Lookup(t)
    PROVE  IInv'
<1> USE DEF IInv, Lookup
<1>1. TypeSession' /\ TypeSock' /\ TypeConnect' /\ OpenIsHeld' /\
    SessionOpen'
    BY DEF TypeSession, TypeSock, TypeConnect, OpenIsHeld, SessionOpen
<1>2. UnusedIsBlank' /\ SnapshotConsistent' /\ WireHistory' /\
    CorrelatedUnlessWrapped'
    BY DEF UnusedIsBlank, SnapshotConsistent, WireHistory,
        CorrelatedUnlessWrapped
<1>3. OpMatches' /\ FreshOwned' /\ OldOwned'
    BY ClientAssumption DEF TypeControl, OpMatches, FreshOwned, OldOwned
<1>4. InfoMatches' /\ ConnectUndone' /\ CurrentRequest'
    BY ClientAssumption DEF TypeControl, InfoMatches, ConnectUndone,
        CurrentRequest
<1>5. TypeControl'
    BY ClientAssumption DEF TypeControl
<1>6. TypeExchange'
    BY ClientAssumption DEF TypeSession, TypeExchange
<1>7. LocksHeld'
    BY ClientAssumption DEF TypeControl, LocksHeld
<1>8. UseIsSession'
    BY DEF TypeControl, TypeSession, TypeExchange, LocksHeld, FreshOwned,
        UseIsSession, InfoMatches
<1> QED BY <1>1, <1>2, <1>3, <1>4, <1>5, <1>6, <1>7, <1>8

\* A refused exchange has used no connection.
LEMMA LookupFailsStep ==
    ASSUME IInv, NEW t \in Threads, LookupFails(t)
    PROVE  IInv'
<1> USE DEF IInv, LookupFails, ExchangeEnds
<1>1. TypeSession' /\ TypeSock' /\ TypeConnect' /\ OpenIsHeld' /\
    SessionOpen'
    BY DEF TypeSession, TypeSock, TypeConnect, OpenIsHeld, SessionOpen
<1>2. UnusedIsBlank' /\ SnapshotConsistent' /\ WireHistory' /\
    CorrelatedUnlessWrapped'
    BY DEF UnusedIsBlank, SnapshotConsistent, WireHistory,
        CorrelatedUnlessWrapped
<1>3. OpMatches' /\ FreshOwned' /\ OldOwned'
    BY ClientAssumption DEF TypeControl, OpMatches, FreshOwned, OldOwned
<1>4. InfoMatches'
    BY ClientAssumption DEF TypeControl, InfoMatches
<1>5. TypeControl'
    BY ClientAssumption DEF TypeControl
<1>6. TypeExchange'
    BY ClientAssumption DEF TypeExchange, CurrentRequest
<1>7. LocksHeld'
    BY ClientAssumption DEF TypeControl, LocksHeld
<1>8. UseIsSession'
    BY DEF TypeControl, TypeSession, TypeExchange, LocksHeld, FreshOwned,
        UseIsSession, InfoMatches
<1>9. ConnectUndone'
    BY DEF TypeControl, TypeConnect, LocksHeld, OpMatches, ConnectUndone
<1>10. CurrentRequest'
    BY DEF TypeControl, TypeExchange, CurrentRequest
<1> QED BY <1>1, <1>2, <1>3, <1>4, <1>5, <1>6, <1>7, <1>8, <1>9, <1>10

\* The request written is the last one made.
LEMMA WriteStep ==
    ASSUME IInv, NEW t \in Threads, Write(t)
    PROVE  IInv'
<1> USE DEF IInv, Write
<1>1. TypeSession' /\ TypeSock' /\ TypeConnect' /\ TypeExchange' /\
    OpenIsHeld'
    BY DEF TypeSession, TypeSock, TypeConnect, TypeExchange, OpenIsHeld
<1>2. SessionOpen' /\ UnusedIsBlank' /\ SnapshotConsistent' /\
    CorrelatedUnlessWrapped'
    BY DEF SessionOpen, UnusedIsBlank, SnapshotConsistent,
        CorrelatedUnlessWrapped
<1>3. OpMatches' /\ FreshOwned' /\ OldOwned'
    BY ClientAssumption DEF TypeControl, OpMatches, FreshOwned, OldOwned
<1>4. UseIsSession' /\ InfoMatches' /\ ConnectUndone'
    BY ClientAssumption DEF TypeControl, UseIsSession, InfoMatches,
        ConnectUndone
<1>5. CurrentRequest'
    BY ClientAssumption DEF TypeControl, CurrentRequest
<1>6. TypeControl'
    BY ClientAssumption DEF TypeControl
<1>7. LocksHeld'
    BY ClientAssumption DEF TypeControl, LocksHeld
<1>8. WireHistory'
  <2>1. req[t] \in 1..pduRef
      BY DEF TypeSession, TypeExchange, CurrentRequest
  <2>2. \A s \in Seq(1..pduRef) : Append(s, req[t]) \in Seq(1..pduRef)
      BY <2>1, AppendProperties
  <2> QED BY <2>2 DEF WireHistory, AnswersTo
<1> QED BY <1>1, <1>2, <1>3, <1>4, <1>5, <1>6, <1>7, <1>8

\* A failed write ends the use of the connection.
LEMMA WriteFailsStep ==
    ASSUME IInv, NEW t \in Threads, WriteFails(t)
    PROVE  IInv'
<1> USE DEF IInv, WriteFails, ExchangeEnds
<1>1. TypeSession' /\ TypeSock' /\ TypeConnect' /\ OpenIsHeld' /\
    SessionOpen'
    BY DEF TypeSession, TypeSock, TypeConnect, OpenIsHeld, SessionOpen
<1>2. UnusedIsBlank' /\ SnapshotConsistent' /\ WireHistory' /\
    CorrelatedUnlessWrapped'
    BY DEF UnusedIsBlank, SnapshotConsistent, WireHistory,
        CorrelatedUnlessWrapped
<1>3. OpMatches' /\ FreshOwned' /\ OldOwned'
    BY ClientAssumption DEF TypeControl, OpMatches, FreshOwned, OldOwned
<1>4. InfoMatches'
    BY ClientAssumption DEF TypeControl, InfoMatches
<1>5. TypeControl'
    BY ClientAssumption DEF TypeControl
<1>6. TypeExchange'
    BY ClientAssumption DEF TypeExchange, CurrentRequest
<1>7. LocksHeld'
    BY ClientAssumption DEF TypeControl, LocksHeld
<1>8. UseIsSession'
    BY DEF TypeControl, TypeSession, TypeExchange, LocksHeld, FreshOwned,
        UseIsSession, InfoMatches
<1>9. ConnectUndone'
    BY DEF TypeControl, TypeConnect, LocksHeld, OpMatches, ConnectUndone
<1>10. CurrentRequest'
    BY DEF TypeControl, TypeExchange, CurrentRequest
<1> QED BY <1>1, <1>2, <1>3, <1>4, <1>5, <1>6, <1>7, <1>8, <1>9, <1>10

\* A received frame ends the use of the connection.
LEMMA ReceiveStep ==
    ASSUME IInv, NEW t \in Threads, Receive(t)
    PROVE  IInv'
<1> USE DEF IInv, Receive, ExchangeEnds
<1>1. TypeSession' /\ TypeSock' /\ TypeConnect' /\ OpenIsHeld'
    BY DEF TypeSession, TypeSock, TypeConnect, OpenIsHeld
<1>2. SessionOpen' /\ UnusedIsBlank' /\ SnapshotConsistent'
    BY DEF SessionOpen, UnusedIsBlank, SnapshotConsistent
<1>3. OpMatches' /\ FreshOwned' /\ OldOwned'
    BY ClientAssumption DEF TypeControl, OpMatches, FreshOwned, OldOwned
<1>4. InfoMatches'
    BY ClientAssumption DEF TypeControl, InfoMatches
<1>5. TypeControl'
    BY ClientAssumption DEF TypeControl
<1>6. TypeExchange'
    BY ReceiveExchange
<1>7. LocksHeld'
    BY ClientAssumption DEF TypeControl, LocksHeld
<1>8. UseIsSession'
    BY DEF TypeControl, TypeSession, TypeExchange, LocksHeld, FreshOwned,
        UseIsSession, InfoMatches
<1>9. ConnectUndone'
    BY DEF TypeControl, TypeConnect, LocksHeld, OpMatches, ConnectUndone
<1>10. CurrentRequest'
    BY DEF TypeControl, TypeExchange, CurrentRequest
<1>11. WireHistory'
  <2>1. \A s \in Seq(AnswersTo(1..pduRef)) :
            s # <<>> => Tail(s) \in Seq(AnswersTo(1..pduRef))
      BY HeadTailProperties
  <2> QED BY <2>1 DEF WireHistory, AnswersTo
<1>12. CorrelatedUnlessWrapped'
    BY ReceiveExchange
<1> QED BY <1>1, <1>2, <1>3, <1>4, <1>5, <1>6, <1>7, <1>8, <1>9, <1>10,
    <1>11, <1>12

\* A failed read ends the use of the connection.
LEMMA ReceiveFailsStep ==
    ASSUME IInv, NEW t \in Threads, ReceiveFails(t)
    PROVE  IInv'
<1> USE DEF IInv, ReceiveFails, ExchangeEnds
<1>1. TypeSession' /\ TypeSock' /\ TypeConnect' /\ OpenIsHeld' /\
    SessionOpen'
    BY DEF TypeSession, TypeSock, TypeConnect, OpenIsHeld, SessionOpen
<1>2. UnusedIsBlank' /\ SnapshotConsistent' /\ WireHistory' /\
    CorrelatedUnlessWrapped'
    BY DEF UnusedIsBlank, SnapshotConsistent, WireHistory,
        CorrelatedUnlessWrapped
<1>3. OpMatches' /\ FreshOwned' /\ OldOwned'
    BY ClientAssumption DEF TypeControl, OpMatches, FreshOwned, OldOwned
<1>4. InfoMatches'
    BY ClientAssumption DEF TypeControl, InfoMatches
<1>5. TypeControl'
    BY ClientAssumption DEF TypeControl
<1>6. TypeExchange'
    BY ClientAssumption DEF TypeExchange, CurrentRequest
<1>7. LocksHeld'
    BY ClientAssumption DEF TypeControl, LocksHeld
<1>8. UseIsSession'
    BY DEF TypeControl, TypeSession, TypeExchange, LocksHeld, FreshOwned,
        UseIsSession, InfoMatches
<1>9. ConnectUndone'
    BY DEF TypeControl, TypeConnect, LocksHeld, OpMatches, ConnectUndone
<1>10. CurrentRequest'
    BY DEF TypeControl, TypeExchange, CurrentRequest
<1> QED BY <1>1, <1>2, <1>3, <1>4, <1>5, <1>6, <1>7, <1>8, <1>9, <1>10

\* A snapshot taken while mu is free is the session.
LEMMA ConnectionInfoStep ==
    ASSUME IInv, NEW t \in Threads, ConnectionInfo(t)
    PROVE  IInv'
<1> USE DEF IInv, ConnectionInfo
<1>1. TypeSock' /\ TypeConnect' /\ TypeExchange' /\ OpenIsHeld'
    BY DEF TypeSock, TypeConnect, TypeExchange, OpenIsHeld
<1>2. SessionOpen' /\ UnusedIsBlank' /\ WireHistory' /\
    CorrelatedUnlessWrapped'
    BY DEF SessionOpen, UnusedIsBlank, WireHistory, CorrelatedUnlessWrapped
<1>3. OpMatches' /\ FreshOwned' /\ OldOwned'
    BY ClientAssumption DEF TypeControl, OpMatches, FreshOwned, OldOwned
<1>4. UseIsSession' /\ InfoMatches' /\ ConnectUndone'
    BY ClientAssumption DEF TypeControl, UseIsSession, InfoMatches,
        ConnectUndone
<1>5. CurrentRequest'
    BY ClientAssumption DEF TypeControl, CurrentRequest
<1>6. TypeControl'
    BY ClientAssumption DEF TypeControl
<1>7. TypeSession'
    BY ClientAssumption DEF TypeSession, TypeSock, TypeConnect, FreshOwned,
        Infos
<1>8. LocksHeld'
    BY ClientAssumption DEF TypeControl, LocksHeld
<1>9. SnapshotConsistent'
  <2>1. info = NoInfo \/ \E c \in Conns : info = agreed[c]
      BY DEF InfoMatches, TypeSession
  <2> QED BY <2>1 DEF SnapshotConsistent, TypeSession
<1> QED BY <1>1, <1>2, <1>3, <1>4, <1>5, <1>6, <1>7, <1>8, <1>9

\* Returning a snapshot forgets it.
LEMMA InfoReturnsStep ==
    ASSUME IInv, NEW t \in Threads, InfoReturns(t)
    PROVE  IInv'
<1> USE DEF IInv, InfoReturns
<1>1. TypeSock' /\ TypeConnect' /\ TypeExchange' /\ OpenIsHeld'
    BY DEF TypeSock, TypeConnect, TypeExchange, OpenIsHeld
<1>2. SessionOpen' /\ UnusedIsBlank' /\ WireHistory' /\
    CorrelatedUnlessWrapped'
    BY DEF SessionOpen, UnusedIsBlank, WireHistory, CorrelatedUnlessWrapped
<1>3. OpMatches' /\ FreshOwned' /\ OldOwned'
    BY ClientAssumption DEF TypeControl, OpMatches, FreshOwned, OldOwned
<1>4. UseIsSession' /\ InfoMatches' /\ ConnectUndone'
    BY ClientAssumption DEF TypeControl, UseIsSession, InfoMatches,
        ConnectUndone
<1>5. CurrentRequest'
    BY ClientAssumption DEF TypeControl, CurrentRequest
<1>6. TypeControl'
    BY ClientAssumption DEF TypeControl
<1>7. TypeSession'
    BY ClientAssumption DEF TypeSession, TypeSock, TypeConnect, FreshOwned,
        Infos
<1>8. LocksHeld'
    BY ClientAssumption DEF TypeControl, LocksHeld
<1>9. SnapshotConsistent'
    BY DEF TypeSession, SnapshotConsistent
<1> QED BY <1>1, <1>2, <1>3, <1>4, <1>5, <1>6, <1>7, <1>8, <1>9

\* The answer of the device carries the reference of the request it answers.
LEMMA DeviceAnswersStep ==
    ASSUME IInv, NEW c \in Conns, NEW k \in AnswerKinds, DeviceAnswers(c, k)
    PROVE  IInv'
<1> USE DEF IInv, DeviceAnswers
<1>1. TypeControl' /\ TypeSession' /\ TypeSock' /\ TypeConnect' /\ TypeExchange'
    BY DEF TypeControl, TypeSession, TypeSock, TypeConnect, TypeExchange
<1>2. LocksHeld' /\ OpMatches' /\ FreshOwned' /\ OldOwned' /\ OpenIsHeld'
    BY DEF LocksHeld, OpMatches, FreshOwned, OldOwned, OpenIsHeld
<1>3. UseIsSession' /\ SessionOpen' /\ InfoMatches' /\ UnusedIsBlank'
    BY DEF UseIsSession, SessionOpen, InfoMatches, UnusedIsBlank
<1>4. ConnectUndone' /\ SnapshotConsistent' /\ CurrentRequest' /\ CorrelatedUnlessWrapped'
    BY DEF ConnectUndone, SnapshotConsistent, CurrentRequest, CorrelatedUnlessWrapped
<1>5. WireHistory'
  <2> DEFINE a == [for |-> Head(sent[c]), ref |-> Ref(Head(sent[c])), kind |-> k]
  <2>1. Head(sent[c]) \in 1..pduRef /\ Tail(sent[c]) \in Seq(1..pduRef)
      BY HeadTailProperties DEF WireHistory
  <2>2. a \in AnswersTo(1..pduRef)
    <3>1. Ref(Head(sent[c])) \in 0..(RefModulus - 1)
        BY <2>1, ClientAssumption DEF TypeSession, Ref
    <3>2. k \in FrameKinds
        BY ClientAssumption
    <3>3. Head(sent[c]) \in 1..MaxRequests
        BY <2>1, ClientAssumption DEF TypeSession
    <3>4. a \in Frames
      <4> DEFINE h == Head(sent[c])
      <4> HIDE DEF h
      <4> QED BY <3>1, <3>2, <3>3 DEF Frames, h
    <3> QED BY <3>4, <2>1 DEF AnswersTo
  <2>3. Append(inbox[c], a) \in Seq(AnswersTo(1..pduRef))
      BY <2>2, AppendProperties DEF WireHistory
  <2> HIDE DEF a
  <2>4. /\ sent' \in [Conns -> Seq(1..pduRef)]
        /\ inbox' \in [Conns -> Seq(AnswersTo(1..pduRef))]
      BY <2>1, <2>3 DEF WireHistory, a
  <2> QED BY <2>4 DEF WireHistory, AnswersTo
<1> QED BY <1>1, <1>2, <1>3, <1>4, <1>5

\* A stuttering step preserves IInv.
LEMMA StutterStep ==
    ASSUME IInv, UNCHANGED vars
    PROVE  IInv'
<1> USE DEF IInv, vars
<1>1. TypeControl' /\ TypeSession' /\ TypeSock' /\ TypeConnect' /\ TypeExchange'
    BY DEF TypeControl, TypeSession, TypeSock, TypeConnect, TypeExchange
<1>2. LocksHeld' /\ OpMatches' /\ FreshOwned' /\ OldOwned' /\ OpenIsHeld'
    BY DEF LocksHeld, OpMatches, FreshOwned, OldOwned, OpenIsHeld
<1>3. UseIsSession' /\ SessionOpen' /\ InfoMatches' /\ UnusedIsBlank'
    BY DEF UseIsSession, SessionOpen, InfoMatches, UnusedIsBlank
<1>4. ConnectUndone' /\ SnapshotConsistent' /\ CurrentRequest' /\ CorrelatedUnlessWrapped'
    BY DEF ConnectUndone, SnapshotConsistent, CurrentRequest, CorrelatedUnlessWrapped
<1>5. WireHistory'
    BY DEF WireHistory, AnswersTo
<1> QED BY <1>1, <1>2, <1>3, <1>4, <1>5

\* A new client satisfies IInv.
LEMMA InitIInv == Init => IInv
<1> SUFFICES ASSUME Init PROVE IInv
    OBVIOUS
<1> USE DEF Init
<1>1. TypeControl /\ TypeSession /\ TypeSock /\ TypeExchange
    BY ClientAssumption DEF TypeControl, TypeSession, TypeSock, TypeExchange, Infos
<1>2. TypeConnect
    BY EmptySeq DEF TypeConnect
<1>3. LocksHeld /\ OpMatches /\ FreshOwned /\ OldOwned /\ OpenIsHeld
    BY ClientAssumption DEF LocksHeld, OpMatches, FreshOwned, OldOwned, OpenIsHeld
<1>4. UseIsSession /\ SessionOpen /\ InfoMatches /\ UnusedIsBlank
    BY DEF UseIsSession, SessionOpen, InfoMatches, UnusedIsBlank
<1>5. ConnectUndone /\ SnapshotConsistent /\ CurrentRequest /\ CorrelatedUnlessWrapped
    BY DEF ConnectUndone, SnapshotConsistent, CurrentRequest, CorrelatedUnlessWrapped
<1>6. WireHistory
    BY EmptySeq DEF WireHistory
<1> QED BY <1>1, <1>2, <1>3, <1>4, <1>5, <1>6 DEF IInv

\* IInv is preserved by every step.
LEMMA NextIInv == IInv /\ [Next]_vars => IInv'
<1> SUFFICES ASSUME IInv, [Next]_vars PROVE IInv'
    OBVIOUS
<1>1. ASSUME NEW t \in Threads, Call(t) PROVE IInv'
    BY <1>1, StartConnectStep, StartCloseStep, StartOpStep, ConnectionInfoStep
    DEF Call
<1>2. ASSUME NEW t \in Threads, LockReq(t) PROVE IInv'
    BY <1>2, LockReqStep
<1>3. ASSUME NEW t \in Threads, ConnectStep(t) PROVE IInv'
    BY <1>3, GiveUpStep, DialStep, DialFailsStep, COTPConnectedStep, SetupDoneStep,
       HandshakeFailsStep, PublishConnStep, PublishLimitsStep, CloseOldStep
    DEF ConnectStep
<1>4. ASSUME NEW t \in Threads, CloseStep(t) PROVE IInv'
    BY <1>4, CloseNothingStep, CloseConnStep, ClearLimitsStep DEF CloseStep
<1>5. ASSUME NEW t \in Threads, ExchangeStep(t) PROVE IInv'
    BY <1>5, CancelledStep, TakeRefStep, LookupStep, LookupFailsStep, WriteStep,
       WriteFailsStep, ReceiveStep, ReceiveFailsStep
    DEF ExchangeStep
<1>6. ASSUME NEW t \in Threads, Progress(t) PROVE IInv'
    BY <1>3, <1>4, <1>5, <1>6, UnlockReqStep, InfoReturnsStep DEF Progress
<1> QED BY <1>1, <1>2, <1>6, DeviceAnswersStep, StutterStep DEF Next

-----------------------------------------------------------------------------
(* The theorems. *)

\* The inductive invariant holds throughout: who holds the mutexes decides who
\* holds which connection, and the session fields describe the session.
THEOREM Invariance == Spec => []IInv
BY InitIInv, NextIInv, PTL DEF Spec

\* Every variable keeps its type.
THEOREM TypeCorrect == Spec => []TypeOK
<1>1. IInv => TypeOK
  <2> SUFFICES ASSUME IInv PROVE TypeOK
      OBVIOUS
  <2>1. 1..pduRef \subseteq 1..MaxRequests /\ AnswersTo(1..pduRef) \subseteq Frames
      BY ClientAssumption DEF IInv, TypeSession, AnswersTo
  <2>2. /\ \A s \in Seq(1..pduRef) : s \in Seq(1..MaxRequests)
        /\ \A s \in Seq(AnswersTo(1..pduRef)) : s \in Seq(Frames)
      BY <2>1, SeqMonotonic
  <2>3. TypeWire
      BY <2>2 DEF IInv, WireHistory, TypeWire
  <2> QED BY <2>3 DEF IInv, TypeOK
<1> QED BY <1>1, Invariance, PTL

\* sendReceive never writes to or reads from a connection that another
\* goroutine's Connect or Close has replaced or closed.
THEOREM NeverUsedAfterClose == Spec => []NoUseAfterClose
<1>1. IInv => NoUseAfterClose
    BY DEF IInv, NoUseAfterClose, UseIsSession, SessionOpen
<1> QED BY <1>1, Invariance, PTL

\* No path through connectOnce, autoConnect or Close leaks a TCP connection.
THEOREM NeverLeaks == Spec => []NoLeakedConns
<1>1. IInv => NoLeakedConns
    BY DEF IInv, NoLeakedConns, OpenIsHeld, FreshOwned, OldOwned
<1> QED BY <1>1, Invariance, PTL

\* A Connect that returns an error leaves the session as it found it.
THEOREM FailedConnectIsHarmless == Spec => []FailedConnectKeepsSession
<1>1. IInv => FailedConnectKeepsSession
  <2> SUFFICES ASSUME IInv, NEW t \in Threads, pc[t] = "unlock",
                      op[t] = "connect", result[t] = "failed"
               PROVE  /\ conn = before[t]
                      /\ conn # NoConn => sock[conn] = "open" /\ info = agreed[conn]
      BY DEF FailedConnectKeepsSession
  <2>1. reqMu = t
      BY DEF IInv, LocksHeld
  <2>2. \A u \in Threads : pc[u] \notin {"publishing", "clearing"}
      BY <2>1 DEF IInv, LocksHeld
  <2>3. mu = NoThread
      BY <2>2 DEF IInv, LocksHeld, TypeControl
  <2> QED BY <2>3 DEF IInv, ConnectUndone, SessionOpen, InfoMatches
<1> QED BY <1>1, Invariance, PTL

\* ConnectionInfo never returns fields of two different sessions.
THEOREM SnapshotsNotTorn == Spec => []SnapshotConsistent
<1>1. IInv => SnapshotConsistent
    BY DEF IInv
<1> QED BY <1>1, Invariance, PTL

\* No request is written that exceeds the PDU size of its own connection.
THEOREM RequestsFit == Spec => []FitsNegotiatedPDU
<1>1. IInv => FitsNegotiatedPDU
    BY DEF IInv, FitsNegotiatedPDU, UseIsSession
<1> QED BY <1>1, Invariance, PTL

\* An accepted answer belongs to its request unless the reference has wrapped.
THEOREM AnswersCorrelated == Spec => []CorrelatedUnlessWrapped
<1>1. IInv => CorrelatedUnlessWrapped
    BY DEF IInv
<1> QED BY <1>1, Invariance, PTL
-----------------------------------------------------------------------------
(* S7Client implements Session. *)

\* While t holds reqMu, nobody else has a connection in use, and the session is
\* well formed.
LEMMA OnlyOwnerUses ==
    ASSUME IInv, NEW t \in Threads, InCall(t)
    PROVE  /\ reqMu = t
           /\ \A u \in Threads \ {t} : use[u] = NoConn
<1>1. reqMu = t
    BY DEF IInv, LocksHeld
<1> QED BY <1>1 DEF IInv, LocksHeld, UseIsSession

\* A step that changes none of these is a stutter of Session.
LEMMA Stutters ==
    ASSUME UNCHANGED <<reqMu, conn, agreed, use, snap>>
    PROVE  UNCHANGED ClientSession!svars
BY DEF ClientSession!svars

\* SetupDone changes agreed, but only of a connection that is not in use yet.
LEMMA SetupStutters ==
    ASSUME IInv, NEW t \in Threads, NEW p \in PDUSizes, SetupDone(t, p)
    PROVE  UNCHANGED ClientSession!svars
<1> USE DEF IInv, SetupDone
<1>1. fresh[t] # conn
    BY DEF FreshOwned
<1>2. \A u \in Threads : use[u] # NoConn => use[u] # fresh[t] /\ use[u] \in Conns
    BY <1>1 DEF UseIsSession, TypeExchange
<1>3. UNCHANGED SessionInfo
    BY <1>1 DEF TypeSock, TypeSession
<1>4. \A u \in Threads : use[u] # NoConn => agreed'[use[u]] = agreed[use[u]]
    BY <1>2 DEF TypeSock
<1> QED BY <1>3, <1>4 DEF ClientSession!svars

\* Locking reqMu is Acquire.
LEMMA AcquireStep ==
    ASSUME IInv, NEW t \in Threads, LockReq(t)
    PROVE  ClientSession!Acquire(t)
BY DEF LockReq, ClientSession!Acquire

\* Unlocking reqMu is Release.
LEMMA ReleaseStep ==
    ASSUME IInv, NEW t \in Threads, UnlockReq(t)
    PROVE  ClientSession!Release(t)
<1>1. reqMu = t /\ use[t] = NoConn
    BY DEF IInv, UnlockReq, LocksHeld, UseIsSession
<1> QED BY <1>1 DEF UnlockReq, ClientSession!Release

\* The first assignments of the swap are Establish.
LEMMA EstablishStep ==
    ASSUME IInv, NEW t \in Threads, PublishConn(t)
    PROVE  ClientSession!Establish(t)
<1> USE DEF IInv, PublishConn
<1>1. reqMu = t /\ use[t] = NoConn
    BY DEF LocksHeld, UseIsSession
<1>2. fresh[t] \in Conns /\ agreed[fresh[t]].rs \in RackSlots
    BY DEF FreshOwned, TypeConnect
<1>3. SessionInfo' = agreed[fresh[t]] /\ agreed[fresh[t]] \in Infos
    BY <1>2 DEF TypeSock
<1>4. agreed[fresh[t]] # NoInfo
    BY <1>2, ClientAssumption
<1> QED BY <1>1, <1>3, <1>4 DEF ClientSession!Establish

\* The first assignments of closeConnLocked are Drop.
LEMMA DropStep ==
    ASSUME IInv, NEW t \in Threads, CloseConn(t)
    PROVE  ClientSession!Drop(t)
<1>1. reqMu = t /\ use[t] = NoConn
    BY DEF IInv, CloseConn, LocksHeld, UseIsSession
<1> QED BY <1>1 DEF CloseConn, CloseSock, ClientSession!Drop

\* Copying Client.conn in sendReceive is BeginRequest.
LEMMA BeginRequestStep ==
    ASSUME IInv, NEW t \in Threads, Lookup(t)
    PROVE  ClientSession!BeginRequest(t)
<1> USE DEF IInv, Lookup
<1>1. reqMu = t /\ use[t] = NoConn
    BY DEF LocksHeld, UseIsSession
<1>2. SessionInfo = agreed[conn] /\ SessionInfo # NoInfo
    BY ClientAssumption DEF SessionOpen
<1>3. use' = [use EXCEPT ![t] = conn] /\ conn # NoConn /\ use \in [Threads -> Nat]
    BY ClientAssumption DEF TypeExchange
<1>4. [u \in Threads |-> IF use'[u] = NoConn THEN NoInfo ELSE agreed[use'[u]]]
         = [[u \in Threads |-> IF use[u] = NoConn THEN NoInfo ELSE agreed[use[u]]]
               EXCEPT ![t] = agreed[conn]]
    BY <1>3
<1> QED BY <1>1, <1>2, <1>4 DEF ClientSession!BeginRequest

\* The end of an exchange, whatever the reason, ends the request on the wire;
\* LookupFails had none, which is the same to Session.
LEMMA EndRequestStep ==
    ASSUME IInv, NEW t \in Threads, InCall(t), UNCHANGED <<reqMu, conn, agreed, snap>>,
           use' = [use EXCEPT ![t] = NoConn]
    PROVE  ClientSession!EndRequest(t)
<1>1. reqMu = t
    BY OnlyOwnerUses
<1>2. use \in [Threads -> Nat]
    BY ClientAssumption DEF IInv, TypeExchange
<1>3. [u \in Threads |-> IF use'[u] = NoConn THEN NoInfo ELSE agreed[use'[u]]]
         = [[u \in Threads |-> IF use[u] = NoConn THEN NoInfo ELSE agreed[use[u]]]
               EXCEPT ![t] = NoInfo]
    BY <1>2
<1> QED BY <1>1, <1>3 DEF ClientSession!EndRequest

\* ConnectionInfo is Look: with mu free, the fields are the session.
LEMMA LookStep ==
    ASSUME IInv, NEW t \in Threads, ConnectionInfo(t)
    PROVE  ClientSession!Look(t)
<1>1. info = SessionInfo
    BY DEF IInv, ConnectionInfo, InfoMatches
<1> QED BY <1>1 DEF ConnectionInfo, ClientSession!Look

\* Every step of the client is a step of Session or leaves it unchanged.
LEMMA NextImplements ==
    IInv /\ [Next]_vars => [ClientSession!SNext]_(ClientSession!svars)
<1> SUFFICES ASSUME IInv, [Next]_vars
             PROVE  ClientSession!SNext \/ UNCHANGED ClientSession!svars
    OBVIOUS
<1>1. ASSUME NEW t \in Threads, Call(t)
      PROVE  ClientSession!SNext \/ UNCHANGED ClientSession!svars
  <2>1. CASE ConnectionInfo(t)
      BY <2>1, LookStep DEF ClientSession!SNext
  <2>2. CASE ~ConnectionInfo(t)
    <3>1. UNCHANGED <<reqMu, conn, agreed, use, snap>>
        BY <1>1, <2>2 DEF Call, StartConnect, StartClose, StartOp
    <3> QED BY <3>1, Stutters
  <2> QED BY <2>1, <2>2
<1>2. ASSUME NEW t \in Threads, LockReq(t)
      PROVE  ClientSession!SNext
    BY <1>2, AcquireStep DEF ClientSession!SNext
<1>3. ASSUME NEW t \in Threads, ConnectStep(t)
      PROVE  ClientSession!SNext \/ UNCHANGED ClientSession!svars
  <2>1. CASE PublishConn(t)
      BY <2>1, EstablishStep DEF ClientSession!SNext
  <2>2. CASE \E p \in PDUSizes : SetupDone(t, p)
      BY <2>2, SetupStutters
  <2>3. CASE ~PublishConn(t) /\ ~\E p \in PDUSizes : SetupDone(t, p)
    <3>1. UNCHANGED <<reqMu, conn, agreed, use, snap>>
        BY <1>3, <2>3 DEF ConnectStep, GiveUp, Dial, DialFails, COTPConnected,
           HandshakeFails, PublishLimits, CloseOld, CloseSock
    <3> QED BY <3>1, Stutters
  <2> QED BY <2>1, <2>2, <2>3
<1>4. ASSUME NEW t \in Threads, CloseStep(t)
      PROVE  ClientSession!SNext \/ UNCHANGED ClientSession!svars
  <2>1. CASE CloseConn(t)
      BY <2>1, DropStep DEF ClientSession!SNext
  <2>2. CASE ~CloseConn(t)
    <3>1. UNCHANGED <<reqMu, conn, agreed, use, snap>>
        BY <1>4, <2>2 DEF CloseStep, CloseNothing, ClearLimits
    <3> QED BY <3>1, Stutters
  <2> QED BY <2>1, <2>2
<1>5. ASSUME NEW t \in Threads, ExchangeStep(t)
      PROVE  ClientSession!SNext \/ UNCHANGED ClientSession!svars
  <2>1. CASE Lookup(t)
      BY <2>1, BeginRequestStep DEF ClientSession!SNext
  <2>2. CASE LookupFails(t) \/ WriteFails(t) \/ Receive(t) \/ ReceiveFails(t)
    <3>1. /\ InCall(t)
          /\ UNCHANGED <<reqMu, conn, agreed, snap>>
          /\ use' = [use EXCEPT ![t] = NoConn]
        BY <2>2 DEF LookupFails, WriteFails, Receive, ReceiveFails, ExchangeEnds
    <3> QED BY <3>1, EndRequestStep DEF ClientSession!SNext
  <2>3. CASE Cancelled(t) \/ (\E n \in ReqSizes : TakeRef(t, n)) \/ Write(t)
    <3>1. UNCHANGED <<reqMu, conn, agreed, use, snap>>
        BY <2>3 DEF Cancelled, TakeRef, Write
    <3> QED BY <3>1, Stutters
  <2> QED BY <1>5, <2>1, <2>2, <2>3 DEF ExchangeStep
<1>6. ASSUME NEW t \in Threads, UnlockReq(t)
      PROVE  ClientSession!SNext
    BY <1>6, ReleaseStep DEF ClientSession!SNext
<1>7. ASSUME NEW t \in Threads, InfoReturns(t)
      PROVE  ClientSession!SNext
  <2>1. ClientSession!Forget(t)
      BY <1>7 DEF InfoReturns, ClientSession!Forget
  <2> QED BY <2>1 DEF ClientSession!SNext
<1>8. ASSUME NEW c \in Conns, NEW k \in AnswerKinds, DeviceAnswers(c, k)
      PROVE  UNCHANGED ClientSession!svars
  <2>1. UNCHANGED <<reqMu, conn, agreed, use, snap>>
      BY <1>8 DEF DeviceAnswers
  <2> QED BY <2>1, Stutters
<1>9. ASSUME UNCHANGED vars
      PROVE  UNCHANGED ClientSession!svars
  <2>1. UNCHANGED <<reqMu, conn, agreed, use, snap>>
      BY <1>9 DEF vars
  <2> QED BY <2>1, Stutters
<1> QED BY <1>1, <1>2, <1>3, <1>4, <1>5, <1>6, <1>7, <1>8, <1>9 DEF Next, Progress

\* The client implements Session: sessions are replaced atomically, never under
\* a request, operations are serial, and ConnectionInfo sees whole sessions.
THEOREM ClientImplementsSession == Spec => Implements
<1>1. Init => ClientSession!SInit
    BY DEF Init, ClientSession!SInit
<1> QED BY <1>1, Invariance, NextImplements, PTL DEF Spec, Implements, ClientSession!SSpec
=============================================================================
