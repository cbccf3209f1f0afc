---------------------------- MODULE MCRangeScan ----------------------------
(* RangeScan on small instances. *)
EXTENDS RangeScan

Request(start, end, step, probeSize, retries, repeat, interval, retryDelay) ==
    [start |-> start, end |-> end, step |-> step, probeSize |-> probeSize,
     retries |-> retries, repeat |-> repeat, interval |-> interval,
     retryDelay |-> retryDelay, bounded |-> TRUE]

\* An empty range; single reads of three offsets without a gap, with overlaps, with
\* gaps, from below 0 and with every default; repeats; retries; both, also with
\* reads that have no deadline.
MCRequests ==
    {Request(0, 0, 1, 1, 0, 1, FALSE, FALSE),
     Request(0, 5, 0, 2, 0, 0, FALSE, FALSE),
     Request(0, 3, 1, 2, 0, 1, FALSE, FALSE),
     Request(4, 10, 3, 2, 0, 1, FALSE, FALSE),
     Request(-1, 2, 0, 0, 0, 0, FALSE, FALSE),
     Request(0, 3, 1, 1, 0, 2, TRUE, FALSE),
     Request(0, 2, 1, 2, 0, 3, FALSE, FALSE),
     Request(0, 2, 1, 1, 1, 1, FALSE, TRUE),
     Request(0, 2, 1, 1, 1, 2, TRUE, FALSE),
     [Request(0, 2, 1, 1, 1, 2, TRUE, FALSE) EXCEPT !.bounded = FALSE]}

Read(status, data) == [status |-> status, data |-> data]

MCReads ==
    {Read("success", "zero"), Read("success", "other"), Read("short-read", "other"),
     Read("timeout", "none")}

\* Observations as a caller of ConsolidateSpans may have them: two statuses at
\* three offsets, adjacent or not, with every mix of flags.
Observation(offset, status, flag) ==
    [offset |-> offset, status |-> status, stable |-> flag,
     allZero |-> IF flag = "yes" THEN "no" ELSE flag]

MCCall(offsets, statuses, flags, step) ==
    [observations |-> [k \in 1..3 |-> Observation(offsets[k], statuses[k], flags[k])],
     step |-> step, probeSize |-> 2]

MCCalls ==
    {MCCall(o, s, <<"nil", "nil", "nil">>, d) :
        o \in {<<0, 1, 2>>, <<0, 2, 4>>, <<0, 2, 3>>, <<1, 3, 3>>},
        s \in [1..3 -> {"success", "rejected"}], d \in {0, 1, 2}}
    \cup {MCCall(<<0, 2, 4>>, s, f, 2) :
        s \in [1..3 -> {"success", "rejected"}], f \in [1..3 -> {"nil", "yes", "no"}]}

\* One offset, one read and its retries.
RetriedRequest == {Request(0, 1, 1, 1, 1, 1, FALSE, FALSE)}
NoCalls == {}
=============================================================================
