------------------------------ MODULE Discover ------------------------------
(***************************************************************************)
(* Discover (discover.go): a first pass over the CIDR counts the hosts, a   *)
(* producer goroutine sends one job per host into the channel jobs, a pool  *)
(* of workers probes the hosts one rack/slot at a time (probeS7) and sends  *)
(* the results into out, a closer closes out when the workers are gone, and *)
(* the caller collects until then.                                          *)
(*                                                                         *)
(* Worker w is at at[w]: take (range jobs), probe (the loop of probeS7),    *)
(* connect (in Connect), put (the select on out) or over.  An address is    *)
(* its offset in the CIDR; the rack/slots of the tested range are 1..Slots, *)
(* in the order probeS7 tries them.                                         *)
(***************************************************************************)
EXTENDS Integers, Sequences

CONSTANTS
    Slots,    \* rack/slots in the tested range
    Scans     \* [bits     : host bits of the CIDR,
              \*  parallel : opts.parallel,
              \*  limit    : opts.maxAttemptsPerHost, 0 for no limit,
              \*  accepts  : the rack/slot each address accepts, 0 for none,
              \*  flaky    : Connect may fail although the target accepts,
              \*  bounded  : Connect has a deadline, from opts.timeout (which
              \*             may be 0: none) or from the context]

\* Larger networks are rejected.
maxDiscoveryHostBits == 20

ASSUME DiscoverAssumption ==
    /\ Slots \in Nat \ {0}
    /\ \A s \in Scans :
          /\ s.bits \in 0..maxDiscoveryHostBits
          /\ s.parallel \in Nat \ {0}
          /\ s.limit \in Nat
          /\ s.accepts \in [0..(2 ^ s.bits - 1) -> 0..Slots]
          /\ s.flaky \in BOOLEAN
          /\ s.bounded \in BOOLEAN

\* Names for the worker goroutines of the widest scan.
Workers == UNION {1..s.parallel : s \in Scans}

\* streamCIDR: the addresses it sends, in order.  Network and broadcast
\* address are skipped when there are more than two.
streamCIDR(hostBits) ==
    LET total == 2 ^ hostBits
    IN IF total > 2 THEN [k \in 1..(total - 2) |-> k] ELSE [k \in 1..total |-> k - 1]

VARIABLES
    scan,      \* the arguments, and the network they name
    ctx,       \* the caller's context: live or done
    main,      \* count, collect or done
    count,     \* hosts counted by the first pass
    idx,       \* jobs the producer has sent
    jobs,      \* the channel jobs
    closed,    \* the producer has closed it
    at,        \* where each worker is
    job,       \* its job
    slot,      \* the rack/slot it tries next
    found,     \* the result it has for the job
    out,       \* the channel out
    outClosed, \* the closer has closed it
    results,   \* results, the slice that is returned
    err        \* Discover returns an error

workVars == <<at, job, slot, found>>
vars == <<scan, ctx, main, count, idx, jobs, closed, workVars, out,
          outClosed, results, err>>

Hosts == streamCIDR(scan.bits)

NoJob == [i |-> 0, ip |-> -1]

\* The zero value of DiscoverResult; status stands for IsS7, Error and
\* AbandonedReason.
ZeroResult == [ip |-> -1, status |-> "", slot |-> 0]

Result(ip, status, s) == [ip |-> ip, status |-> status, slot |-> s]

Init ==
    /\ scan \in Scans
    /\ ctx = "live"
    /\ main = "count"
    /\ count = 0
    /\ idx = 0
    /\ jobs = <<>>
    /\ closed = FALSE
    /\ at = [w \in Workers |-> IF w <= scan.parallel THEN "take" ELSE "over"]
    /\ job = [w \in Workers |-> NoJob]
    /\ slot = [w \in Workers |-> 0]
    /\ found = [w \in Workers |-> ZeroResult]
    /\ out = <<>>
    /\ outClosed = FALSE
    /\ results = <<>>
    /\ err = FALSE

\* The caller's context is cancelled or expires.
ContextDone ==
    /\ ctx = "live"
    /\ ctx' = "done"
    /\ UNCHANGED <<scan, main, count, idx, jobs, closed, workVars, out,
                   outClosed, results, err>>

-----------------------------------------------------------------------------
(* The caller *)

\* The first pass, and the start of the goroutines.
CountHosts ==
    /\ main = "count"
    /\ ctx = "live"
    /\ count' = Len(Hosts)
    /\ results' = [i \in 1..Len(Hosts) |-> ZeroResult]
    /\ main' = "collect"
    /\ UNCHANGED <<scan, ctx, idx, jobs, closed, workVars, out, outClosed,
                   err>>

\* The context is done during the first pass: no result at all.
CountCancelled ==
    /\ main = "count"
    /\ ctx = "done"
    /\ main' = "done"
    /\ err' = TRUE
    /\ UNCHANGED <<scan, ctx, count, idx, jobs, closed, workVars, out,
                   outClosed, results>>

\* for res := range out
Collect ==
    /\ main = "collect"
    /\ out # <<>>
    /\ results' = [results EXCEPT ![Head(out).i] = Head(out).r]
    /\ out' = Tail(out)
    /\ UNCHANGED <<scan, ctx, main, count, idx, jobs, closed, workVars,
                   outClosed, err>>

Return ==
    /\ main = "collect"
    /\ out = <<>>
    /\ outClosed
    /\ main' = "done"
    /\ err' = (ctx = "done")
    /\ UNCHANGED <<scan, ctx, count, idx, jobs, closed, workVars, out,
                   outClosed, results>>

-----------------------------------------------------------------------------
(* The producer and the closer *)

Running == main = "collect" \/ (main = "done" /\ count > 0)

\* Mutant of Produce: idx is advanced before the job is built.
ProduceNextIndex ==
    /\ Running
    /\ ~closed
    /\ idx < Len(Hosts)
    /\ Len(jobs) < 2 * scan.parallel
    /\ jobs' = Append(jobs, [i |-> idx + 2, ip |-> Hosts[idx + 1]])
    /\ idx' = idx + 1
    /\ UNCHANGED <<scan, ctx, main, count, closed, workVars, out, outClosed,
                   results, err>>

\* jobs <- job{idx, ip}
Produce ==
    /\ Running
    /\ ~closed
    /\ idx < Len(Hosts)
    /\ Len(jobs) < 2 * scan.parallel
    /\ jobs' = Append(jobs, [i |-> idx + 1, ip |-> Hosts[idx + 1]])
    /\ idx' = idx + 1
    /\ UNCHANGED <<scan, ctx, main, count, closed, workVars, out, outClosed,
                   results, err>>

\* Mutant of CloseJobs: a cancelled producer returns without close(jobs).
CloseJobsNotWhenCancelled ==
    /\ Running
    /\ ~closed
    /\ idx = Len(Hosts)
    /\ closed' = TRUE
    /\ UNCHANGED <<scan, ctx, main, count, idx, jobs, workVars, out,
                   outClosed, results, err>>

\* The second pass ends, after the last host or because the context is done,
\* and close(jobs) follows.
CloseJobs ==
    /\ Running
    /\ ~closed
    /\ idx = Len(Hosts) \/ ctx = "done"
    /\ closed' = TRUE
    /\ UNCHANGED <<scan, ctx, main, count, idx, jobs, workVars, out,
                   outClosed, results, err>>

\* Mutant of CloseOut: the closer waits for the producer, not for the workers.
CloseOutEarly ==
    /\ Running
    /\ ~outClosed
    /\ closed
    /\ outClosed' = TRUE
    /\ UNCHANGED <<scan, ctx, main, count, idx, jobs, closed, workVars, out,
                   results, err>>

\* wg.Wait(), then close(out).
CloseOut ==
    /\ Running
    /\ ~outClosed
    /\ \A w \in Workers : at[w] = "over"
    /\ outClosed' = TRUE
    /\ UNCHANGED <<scan, ctx, main, count, idx, jobs, closed, workVars, out,
                   results, err>>

-----------------------------------------------------------------------------
(* A worker *)

\* for j := range jobs: the next job, or the end of the closed channel.
Take(w) ==
    /\ Running
    /\ at[w] = "take"
    /\ jobs # <<>>
    /\ job' = [job EXCEPT ![w] = Head(jobs)]
    /\ jobs' = Tail(jobs)
    /\ slot' = [slot EXCEPT ![w] = 1]
    /\ at' = [at EXCEPT ![w] = "probe"]
    /\ UNCHANGED <<scan, ctx, main, count, idx, closed, found, out, outClosed,
                   results, err>>

NoMoreJobs(w) ==
    /\ Running
    /\ at[w] = "take"
    /\ jobs = <<>>
    /\ closed
    /\ at' = [at EXCEPT ![w] = "over"]
    /\ UNCHANGED <<scan, ctx, main, count, idx, jobs, closed, job, slot,
                   found, out, outClosed, results, err>>

\* probeS7 returns r.
ProbeReturns(w, r) ==
    /\ found' = [found EXCEPT ![w] = r]
    /\ at' = [at EXCEPT ![w] = "put"]
    /\ UNCHANGED <<scan, ctx, main, count, idx, jobs, closed, job, slot, out,
                   outClosed, results, err>>

\* The attempts at a host are used up before its rack/slots are.
AttemptsUsedUp(w) ==
    /\ at[w] = "probe"
    /\ slot[w] <= Slots
    /\ scan.limit > 0
    /\ slot[w] > scan.limit
    /\ ProbeReturns(w, Result(job[w].ip, "max_attempts", 0))

\* The loops over rack and slot go on.
MayTry(w) ==
    /\ at[w] = "probe"
    /\ slot[w] <= Slots
    /\ scan.limit = 0 \/ slot[w] <= scan.limit

\* ctx.Err() before an attempt, during the jitter or during the delay.
ProbeCancelled(w) ==
    /\ MayTry(w)
    /\ ctx = "done"
    /\ ProbeReturns(w, Result(job[w].ip, "context_canceled", 0))

\* The checks are passed and Connect is called.
TryConnect(w) ==
    /\ MayTry(w)
    /\ ctx = "live"
    /\ at' = [at EXCEPT ![w] = "connect"]
    /\ UNCHANGED <<scan, ctx, main, count, idx, jobs, closed, job, slot,
                   found, out, outClosed, results, err>>

\* Connect succeeds; ConnectionInfo and Close follow.
Found(w) ==
    /\ at[w] = "connect"
    /\ slot[w] = scan.accepts[job[w].ip]
    /\ ProbeReturns(w, Result(job[w].ip, "s7", slot[w]))

\* Connect fails, for whatever reason: the next rack/slot is tried.
ConnectFails(w) ==
    /\ at[w] = "connect"
    /\ slot[w] # scan.accepts[job[w].ip] \/ scan.flaky \/ ctx = "done"
    /\ at' = [at EXCEPT ![w] = "probe"]
    /\ slot' = [slot EXCEPT ![w] = @ + 1]
    /\ UNCHANGED <<scan, ctx, main, count, idx, jobs, closed, job, found, out,
                   outClosed, results, err>>

NotFound(w) ==
    /\ at[w] = "probe"
    /\ slot[w] > Slots
    /\ ProbeReturns(w, Result(job[w].ip, "none", 0))

\* The select on out: the result is sent (there is room for one of each host),
\* or, when the context is done, the worker may return instead and drop it.
Put(w) ==
    /\ at[w] = "put"
    /\ Len(out) < count
    /\ out' = Append(out, [i |-> job[w].i, r |-> found[w]])
    /\ at' = [at EXCEPT ![w] = "take"]
    /\ UNCHANGED <<scan, ctx, main, count, idx, jobs, closed, job, slot,
                   found, outClosed, results, err>>

\* Mutant of Drop: the select on out has a default case that gives up.
DropAnyway(w) ==
    /\ at[w] = "put"
    /\ at' = [at EXCEPT ![w] = "over"]
    /\ UNCHANGED <<scan, ctx, main, count, idx, jobs, closed, job, slot,
                   found, out, outClosed, results, err>>

Drop(w) ==
    /\ at[w] = "put"
    /\ ctx = "done"
    /\ at' = [at EXCEPT ![w] = "over"]
    /\ UNCHANGED <<scan, ctx, main, count, idx, jobs, closed, job, slot,
                   found, out, outClosed, results, err>>

-----------------------------------------------------------------------------
Caller == CountHosts \/ CountCancelled \/ Collect \/ Return

Producer == Produce \/ CloseJobs

Worker(w) ==
    \/ Take(w) \/ NoMoreJobs(w)
    \/ AttemptsUsedUp(w) \/ ProbeCancelled(w) \/ TryConnect(w)
    \/ Found(w) \/ ConnectFails(w) \/ NotFound(w) \/ Put(w) \/ Drop(w)

Next == ContextDone \/ Caller \/ Producer \/ CloseOut \/ \E w \in Workers : Worker(w)

Spec == Init /\ [][Next]_vars

\* Worker w waits for a device, with nothing that ends the wait.
Stuck(w) == at[w] = "connect" /\ ~scan.bounded

\* Every goroutine keeps running, and Connect returns if it has a deadline
\* (CallsReturn of S7Client).
Fairness ==
    /\ WF_vars(Caller)
    /\ WF_vars(Producer)
    /\ WF_vars(CloseOut)
    /\ \A w \in Workers : WF_vars(~Stuck(w) /\ Worker(w))

FairSpec == Spec /\ Fairness

-----------------------------------------------------------------------------
(* Properties *)

Statuses == {"", "s7", "none", "max_attempts", "context_canceled"}

Results == [ip : Nat \cup {-1}, status : Statuses, slot : 0..Slots]

Jobs == [i : Nat, ip : Nat \cup {-1}]

\* Every variable has its type; the channels stay within their capacities.
TypeOK ==
    /\ scan \in Scans
    /\ ctx \in {"live", "done"}
    /\ main \in {"count", "collect", "done"}
    /\ count \in {0, Len(Hosts)}
    /\ idx \in 0..Len(Hosts)
    /\ jobs \in Seq(Jobs) /\ Len(jobs) <= 2 * scan.parallel
    /\ closed \in BOOLEAN /\ outClosed \in BOOLEAN
    /\ at \in [Workers -> {"take", "probe", "connect", "put", "over"}]
    /\ job \in [Workers -> Jobs]
    /\ slot \in [Workers -> 0..(Slots + 1)]
    /\ found \in [Workers -> Results]
    /\ out \in Seq([i : Nat, r : Results]) /\ Len(out) <= count
    /\ results \in Seq(Results)
    /\ err \in BOOLEAN

\* "Results are returned in the same order as the CIDR addresses": result i is
\* that of the i-th host or none, whichever worker probed it and in whatever
\* order the results came in; the network and broadcast addresses of a real
\* subnet are not probed.
ResultsInOrder ==
    \A i \in 1..Len(results) :
        /\ results[i].ip \in {-1, Hosts[i]}
        /\ scan.bits > 1 => results[i].ip \notin {0, 2 ^ scan.bits - 1}

\* What there is to be found at an address: the rack/slot that it accepts, if
\* the attempts reach that far.
Expected(ip) ==
    LET s == scan.accepts[ip] IN
    IF s # 0 /\ (scan.limit = 0 \/ s <= scan.limit) THEN Result(ip, "s7", s)
    ELSE Result(ip, IF scan.limit \in 1..(Slots - 1) THEN "max_attempts" ELSE "none", 0)

\* When Discover returns without an error it has probed every host to the end,
\* and if connections do not fail of themselves it has found every device that
\* it tried the right rack/slot of.
Complete ==
    main = "done" /\ ~err =>
        /\ Len(results) = Len(Hosts)
        /\ \A i \in 1..Len(Hosts) :
              /\ results[i].status \in {"s7", "none", "max_attempts"}
              /\ ~scan.flaky => results[i] = Expected(Hosts[i])

\* The workers that are in probeS7, the hosts they probe and the number of those
\* that have ever been taken; a host goes by its index.
Probing == {w \in Workers : at[w] \in {"probe", "connect"}}

Probed == {job[w].i : w \in Probing}

Taken == idx - Len(jobs)

\* Discover probes its hosts like a pool of opts.parallel workers: no more than
\* that many at a time, no host twice, and none is still being probed when it
\* returns, although a cancelled context ends the producer, the workers and the
\* caller in any order.
ThePool == INSTANCE Pool WITH
    Tasks    <- UNION {1..(2 ^ s.bits) : s \in Scans},
    size     <- scan.parallel,
    running  <- Probed,
    ended    <- (1..Taken) \ Probed,
    returned <- (main = "done")

ImplementsPool == ThePool!Spec

\* Discover returns, and all goroutines it has started end, cancelled or not,
\* unless a worker has called Connect without a deadline on a device that never
\* answers; no other wait of theirs is for ever.
AllEnd ==
    \/ <>[](main = "done" /\ (count > 0 => closed /\ outClosed
                                           /\ \A w \in Workers : at[w] = "over"))
    \/ \E w \in Workers : <>[]Stuck(w)
=============================================================================
