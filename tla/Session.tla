------------------------------ MODULE Session ------------------------------
(***************************************************************************)
(* What a Client promises to the goroutines that share it: the operations  *)
(* are executed one at a time, a session is opened, replaced and dropped   *)
(* in one atomic step, never while a request is on the wire, and everyone  *)
(* who looks sees the whole of the current session.                        *)
(***************************************************************************)
EXTENDS Integers

CONSTANTS
    Threads,   \* goroutines sharing the client
    NoThread,
    Infos,     \* what is negotiated by a handshake
    NoInfo     \* no session

VARIABLES
    owner,     \* the goroutine whose operation is executing
    session,   \* the current session
    onWire,    \* the session on which a goroutine has a request under way
    seen       \* the ConnectionInfo a goroutine is about to return

svars == <<owner, session, onWire, seen>>

SInit ==
    /\ owner = NoThread
    /\ session = NoInfo
    /\ onWire = [t \in Threads |-> NoInfo]
    /\ seen = [t \in Threads |-> NoInfo]

Acquire(t) ==
    /\ owner = NoThread
    /\ owner' = t
    /\ UNCHANGED <<session, onWire, seen>>

Release(t) ==
    /\ owner = t
    /\ onWire[t] = NoInfo
    /\ owner' = NoThread
    /\ UNCHANGED <<session, onWire, seen>>

\* Connect succeeds: whatever the session was, the new one takes its place.
Establish(t) ==
    /\ owner = t
    /\ onWire[t] = NoInfo
    /\ session' \in Infos \ {NoInfo}
    /\ UNCHANGED <<owner, onWire, seen>>

\* Close.
Drop(t) ==
    /\ owner = t
    /\ onWire[t] = NoInfo
    /\ session' = NoInfo
    /\ UNCHANGED <<owner, onWire, seen>>

\* A request is sent on the current session, and is over whatever its outcome.
BeginRequest(t) ==
    /\ owner = t
    /\ session # NoInfo
    /\ onWire[t] = NoInfo
    /\ onWire' = [onWire EXCEPT ![t] = session]
    /\ UNCHANGED <<owner, session, seen>>

EndRequest(t) ==
    /\ owner = t
    /\ onWire' = [onWire EXCEPT ![t] = NoInfo]
    /\ UNCHANGED <<owner, session, seen>>

\* ConnectionInfo, which does not wait for the operation that is executing.
Look(t) ==
    /\ seen' = [seen EXCEPT ![t] = session]
    /\ UNCHANGED <<owner, session, onWire>>

Forget(t) ==
    /\ seen' = [seen EXCEPT ![t] = NoInfo]
    /\ UNCHANGED <<owner, session, onWire>>

SNext ==
    \E t \in Threads :
        \/ Acquire(t) \/ Release(t) \/ Establish(t) \/ Drop(t)
        \/ BeginRequest(t) \/ EndRequest(t) \/ Look(t) \/ Forget(t)

SSpec == SInit /\ [][SNext]_svars
=============================================================================
