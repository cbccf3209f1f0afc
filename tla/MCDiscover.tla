----------------------------- MODULE MCDiscover -----------------------------
(* Discover on small instances. *)
EXTENDS Discover

Scan(bits, parallel, limit, accepts, flaky) ==
    [bits |-> bits, parallel |-> parallel, limit |-> limit, accepts |-> accepts,
     flaky |-> flaky, bounded |-> TRUE]

\* No device at all; one at every address, found at the last rack/slot;
\* different ones.
NoDevice(bits)   == [a \in 0..(2 ^ bits - 1) |-> 0]
LastSlot(bits)   == [a \in 0..(2 ^ bits - 1) |-> Slots]
Mixed(bits)      == [a \in 0..(2 ^ bits - 1) |-> a % (Slots + 1)]

\* One or two hosts and two workers, and six hosts, more than the queue of one
\* worker holds; two hosts also without a deadline.
MCScans ==
    UNION {{Scan(size[1], size[2], limit, NoDevice(size[1]), FALSE),
            Scan(size[1], size[2], limit, LastSlot(size[1]), FALSE),
            Scan(size[1], size[2], limit, Mixed(size[1]), TRUE),
            Scan(size[1], size[2], limit, Mixed(size[1]), FALSE)} :
           size \in {<<0, 2>>, <<1, 2>>, <<2, 2>>, <<3, 1>>}, limit \in {0, 1}}
    \cup {[Scan(1, 2, 0, Mixed(1), TRUE) EXCEPT !.bounded = FALSE]}
=============================================================================
