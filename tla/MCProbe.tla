------------------------------ MODULE MCProbe ------------------------------
(* ProbeRackSlots on small instances. *)
EXTENDS ProbeRackSlots

Request(strict, confirm, stop, jobs, max, par) ==
    [strict |-> strict, confirm |-> confirm, stop |-> stop, jobs |-> jobs,
     maxAttempts |-> max, parallelism |-> par]

\* Non-strict: two at a time out of three, with and without a cap on the
\* attempts and stopping at the first valid one.
PlainRequests ==
    {Request(FALSE, "", stop, 3, max, 2) : stop \in BOOLEAN, max \in {0, 2}}

\* Strict, with every way of asking for a confirmation: one at a time to the
\* end, and two at a time up to the first that is confirmed.
StrictRequests ==
    UNION {{Request(TRUE, confirm, FALSE, 2, 0, 1), Request(TRUE, confirm, TRUE, 2, 0, 2)} :
           confirm \in Confirms}

MCRequests == PlainRequests \cup StrictRequests

StrictDefault == {Request(TRUE, "", FALSE, 2, 0, 1)}
=============================================================================
