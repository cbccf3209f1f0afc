----------------------------- MODULE S7Exchange -----------------------------
(***************************************************************************)
(* One request/response exchange on an S7 session, as the client sees it:  *)
(* the errors it can end with, how a received frame is turned into one, and *)
(* how operations classify those errors.                                   *)
(*                                                                         *)
(* A Go error value that wraps several sentinels (errors.Join, %w) is the  *)
(* set of sentinels that errors.Is / errors.As would find in it; {} is a   *)
(* nil error.                                                              *)
(***************************************************************************)
EXTENDS Integers

Sentinels == {"deadline", "netTimeout", "canceled", "notConnected",
              "notEstablished", "s7", "header", "protocol", "mismatch",
              "exceedsPDU", "io"}

\* The sentinels of the failures that are not decided by a received frame.
ErrNotConnected       == {"notConnected"}
ErrRequestExceedsPDU  == {"exceedsPDU"}
ErrProtocolFailure    == {"protocol"}
PDURefMismatchError   == {"mismatch"}

(***************************************************************************)
(* What a TPKT payload can turn out to be once it is decoded: not a COTP   *)
(* TPDU or not a DT TPDU, a DT whose S7 header is short, foreign or        *)
(* declares more bytes than it carries, an S7 header error, or a           *)
(* well-formed answer whose body the operation's own parser then accepts,  *)
(* finds malformed, or finds to be a rejected item.                        *)
(***************************************************************************)
FrameKinds == {"notDT", "badHeader", "s7err", "ok", "badBody", "itemErr"}

\* Mutant of ResponseError: the PDU reference is not compared.
ResponseErrorAnyRef(frame, expectedPDURef) ==
    IF frame.kind = "notDT" THEN ErrProtocolFailure
    ELSE IF frame.kind = "badHeader" THEN {"header"} \cup ErrProtocolFailure
    ELSE IF frame.kind = "s7err" THEN {"s7"}
    ELSE {}

\* sendReceive after ReceiveContext: the error a frame with this kind and
\* PDU reference ends the exchange with.  The reference is compared only
\* when the expected one is non-zero, and only once the header has parsed.
ResponseError(frame, expectedPDURef) ==
    IF frame.kind = "notDT" THEN ErrProtocolFailure
    ELSE IF frame.kind = "badHeader" THEN {"header"} \cup ErrProtocolFailure
    ELSE IF expectedPDURef # 0 /\ frame.ref # expectedPDURef
         THEN PDURefMismatchError \cup ErrProtocolFailure
    ELSE IF frame.kind = "s7err" THEN {"s7"}
    ELSE {}

\* The error ReceiveContext or SendContext can return instead of a frame: a
\* deadline of the context, the connection's own timeout, a cancelled
\* context, or an I/O failure.
TransportErrors == {{"deadline"}, {"netTimeout"}, {"canceled"}, {"io"}}

-----------------------------------------------------------------------------
ReadStatuses == {"success", "short-read", "empty-read", "rejected", "timeout",
                 "transport-error", "protocol-error", "inconclusive"}

\* classifyOpError: the first matching sentinel decides.
classifyOpError(err) ==
    IF err = {} THEN "success"
    ELSE IF err \cap {"deadline", "netTimeout"} # {} THEN "timeout"
    ELSE IF err \cap {"notConnected", "notEstablished"} # {} THEN "transport-error"
    ELSE IF "s7" \in err THEN "rejected"
    ELSE IF err \cap {"header", "protocol", "exceedsPDU"} # {} THEN "protocol-error"
    ELSE "transport-error"

\* ClassifyReadOutcome(requested, returned).
ClassifyReadOutcome(requested, returned) ==
    IF requested <= 0 THEN "success"
    ELSE IF returned = 0 THEN "empty-read"
    ELSE IF returned < requested THEN "short-read"
    ELSE "success"

\* isProbeTimeout.
isProbeTimeout(err) == err \cap {"deadline", "netTimeout"} # {}

\* isUploadProtocolError: the failures an upload does not retry.
isUploadProtocolError(err) == err \cap {"protocol", "s7"} # {}
=============================================================================
