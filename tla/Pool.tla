-------------------------------- MODULE Pool --------------------------------
(***************************************************************************)
(* What the concurrent operations that own their goroutines promise: at     *)
(* most size tasks hold a connection at any time, no task runs twice, and   *)
(* when the operation has returned nothing that it started is still         *)
(* running.                                                                 *)
(***************************************************************************)
EXTENDS Integers, FiniteSets

CONSTANT Tasks

VARIABLES
    size,      \* connections the caller allows at a time
    running,   \* tasks that hold a connection
    ended,     \* tasks that have had one and closed it
    returned   \* the operation has returned

vars == <<size, running, ended, returned>>

Init ==
    /\ size \in Nat \ {0}
    /\ running = {}
    /\ ended = {}
    /\ returned = FALSE

Begin(t) ==
    /\ ~returned
    /\ t \notin running \cup ended
    /\ Cardinality(running) < size
    /\ running' = running \cup {t}
    /\ UNCHANGED <<size, ended, returned>>

End(t) ==
    /\ t \in running
    /\ running' = running \ {t}
    /\ ended' = ended \cup {t}
    /\ UNCHANGED <<size, returned>>

Finish ==
    /\ ~returned
    /\ running = {}
    /\ returned' = TRUE
    /\ UNCHANGED <<size, running, ended>>

Next == Finish \/ \E t \in Tasks : Begin(t) \/ End(t)

Spec == Init /\ [][Next]_vars
=============================================================================
