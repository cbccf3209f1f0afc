--------------------------- MODULE ProbeRackSlots ---------------------------
(***************************************************************************)
(* ProbeRackSlots (probe.go): a loop that starts one goroutine per rack/    *)
(* slot, at most Parallelism at a time, until a valid one is found, the     *)
(* caller's context is done or the jobs are exhausted.  Every goroutine     *)
(* runs probeOne on a TCP connection of its own: dial, COTP connect, S7     *)
(* setup (handshake.go) and, in strict mode, the follow-up queries of       *)
(* runFollowUp.                                                             *)
(*                                                                         *)
(* Goroutine k is at at[k]: none (not started); dial, cotp, setup, query    *)
(* (about to start that stage); dialWait, cotpWait, setupWait, queryWait    *)
(* (waiting for the network in it); store (probeOne has returned), release  *)
(* (its deferred calls) and over.  The loop is at main: top, acquire (the   *)
(* select on sem), wait (wg.Wait) and done.                                 *)
(***************************************************************************)
EXTENDS Integers, Sequences, FiniteSets, S7Exchange

CONSTANTS
    Requests,     \* requests: strict, confirm, stop, jobs, maxAttempts, parallelism
    Failures,     \* sentinels of the failures network and device can cause
    QueryAnswers  \* how the device may answer a follow-up query

Confirms == {"", "none", "szl", "cpu-state", "any"}

\* stop is StopOnFirst \/ StopOnFirstConfirmed; jobs counts the rack/slots.
ASSUME ProbeAssumption ==
    /\ Requests \subseteq [strict : BOOLEAN, confirm : Confirms, stop : BOOLEAN,
                           jobs : Nat \ {0}, maxAttempts : Nat,
                           parallelism : Nat \ {0}]
    /\ Failures \subseteq Sentinels
    /\ QueryAnswers \subseteq {"ok", "bad"}

\* applyProbeDefaults: what it does to Confirm.
applyProbeDefaults(r) ==
    IF r.strict /\ r.confirm = "none" THEN [r EXCEPT !.confirm = "any"] ELSE r

\* The queries of a confirmation strategy, in order, each by the value that
\* ConfirmedBy gets when it works; the third of ConfirmAny is the protection
\* level.
Strategies(confirm) ==
    CASE confirm = "szl"         -> <<"szl">>
      [] confirm = "cpu-state"   -> <<"cpu-state">>
      [] confirm = "any"         -> <<"szl", "cpu-state", "any">>
      [] confirm \in {"", "none"} -> <<>>

VARIABLES
    req,         \* the request, after applyProbeDefaults
    main,        \* where the loop is
    i,           \* jobs the loop has started
    outer,       \* the caller's context: live, canceled or deadline
    ctx,         \* probeCtx, derived from it
    sem,         \* elements in the channel sem
    wg,          \* the wait group's counter
    at,          \* where each goroutine is
    open,        \* its connection is open
    tries,       \* runFollowUp: the queries it has still to make
    res,         \* the candidate that probeOne returns
    candidates,  \* candidates[idx]
    sent,        \* queries on the connection, unanswered by the device
    inbox,       \* answers on the connection, not read yet
    answered,    \* the queries the device has answered well
    late         \* jobs started although probeCtx was done

loopVars == <<req, main, i, late>>
runVars  == <<sem, wg>>
netVars  == <<sent, inbox, answered>>
vars == <<loopVars, outer, ctx, runVars, at, open, tries, res, candidates, netVars>>

MaxJobs(r) ==
    IF r.maxAttempts > 0 /\ r.jobs > r.maxAttempts THEN r.maxAttempts ELSE r.jobs

Jobs == 1..req.jobs

ZeroCandidate == [stage |-> "", status |-> "", confirmedBy |-> ""]

Init ==
    /\ req \in {applyProbeDefaults(r) : r \in Requests}
    /\ main = "top"
    /\ i = 0
    /\ outer = "live"
    /\ ctx = "live"
    /\ sem = 0
    /\ wg = 0
    /\ at = [k \in Jobs |-> "none"]
    /\ open = [k \in Jobs |-> FALSE]
    /\ tries = [k \in Jobs |-> <<>>]
    /\ res = [k \in Jobs |-> ZeroCandidate]
    /\ candidates = [k \in Jobs |-> ZeroCandidate]
    /\ sent = [k \in Jobs |-> <<>>]
    /\ inbox = [k \in Jobs |-> <<>>]
    /\ answered = [k \in Jobs |-> {}]
    /\ late = 0

Goto(k, l) == at' = [at EXCEPT ![k] = l]

-----------------------------------------------------------------------------
(* The loop *)

\* The jobs are exhausted, or <-probeCtx.Done() at the top of the loop, during
\* the jitter or delay, or in the select on sem.
LeaveLoop ==
    /\ \/ main = "top" /\ i = MaxJobs(req)
       \/ main \in {"top", "acquire"} /\ ctx # "live"
    /\ main' = "wait"
    /\ UNCHANGED <<req, i, late, outer, ctx, runVars, at, open, tries, res,
                   candidates, netVars>>

\* The first select of an iteration takes its default; jitter and delay follow.
StartIteration ==
    /\ main = "top"
    /\ i < MaxJobs(req)
    /\ ctx = "live"
    /\ main' = "acquire"
    /\ UNCHANGED <<req, i, late, outer, ctx, runVars, at, open, tries, res,
                   candidates, netVars>>

\* Mutant of Launch: one slot too many in sem.
LaunchOneMore ==
    /\ main = "acquire"
    /\ sem <= req.parallelism
    /\ sem' = sem + 1
    /\ wg' = wg + 1
    /\ i' = i + 1
    /\ Goto(i + 1, "dial")
    /\ late' = late + (IF ctx = "live" THEN 0 ELSE 1)
    /\ main' = "top"
    /\ UNCHANGED <<req, outer, ctx, open, tries, res, candidates, netVars>>

\* sem <- struct{}{}, wg.Add(1) and the go statement.  A select with two ready
\* cases takes either, so this can also happen when probeCtx is done.
Launch ==
    /\ main = "acquire"
    /\ sem < req.parallelism
    /\ sem' = sem + 1
    /\ wg' = wg + 1
    /\ i' = i + 1
    /\ Goto(i + 1, "dial")
    /\ late' = late + (IF ctx = "live" THEN 0 ELSE 1)
    /\ main' = "top"
    /\ UNCHANGED <<req, outer, ctx, open, tries, res, candidates, netVars>>

\* Mutant of Wait: the goroutines are not waited for.
WaitNot ==
    /\ main = "wait"
    /\ main' = "done"
    /\ UNCHANGED <<req, i, late, outer, ctx, runVars, at, open, tries, res,
                   candidates, netVars>>

\* wg.Wait() returns, the result is built from candidates, and the call
\* returns it with ctx.Err().
Wait ==
    /\ main = "wait"
    /\ wg = 0
    /\ main' = "done"
    /\ UNCHANGED <<req, i, late, outer, ctx, runVars, at, open, tries, res,
                   candidates, netVars>>

\* The caller's context is cancelled or expires; probeCtx follows it.
ContextDone ==
    /\ main # "done"
    /\ outer = "live"
    /\ outer' \in {"canceled", "deadline"}
    /\ ctx' = IF ctx = "live" THEN outer' ELSE ctx
    /\ UNCHANGED <<loopVars, runVars, at, open, tries, res, candidates, netVars>>

-----------------------------------------------------------------------------
(* probeOne: the stages *)

\* probeOne returns c, and its deferred conn.Close() runs.
Finish(k, c) ==
    /\ res' = [res EXCEPT ![k] = c]
    /\ open' = [open EXCEPT ![k] = FALSE]
    /\ sent' = [sent EXCEPT ![k] = <<>>]
    /\ inbox' = [inbox EXCEPT ![k] = <<>>]
    /\ Goto(k, "store")

\* The status of a probe whose stage ended with err.
FailureStatus(stage, err) ==
    IF isProbeTimeout(err) THEN "timeout"
    ELSE IF stage = "dial" THEN "unreachable"
    ELSE IF stage = "cotp" THEN "tcp-only"
    ELSE IF "s7" \in err THEN "rejected"
    ELSE "cotp-only"

StageName == [dial |-> "tcp", cotp |-> "cotp", setup |-> "setup"]

StageFails(k, stage, err) ==
    Finish(k, [stage |-> StageName[stage], status |-> FailureStatus(stage, err),
               confirmedBy |-> ""])

StageWait == [dial |-> "dialWait", cotp |-> "cotpWait", setup |-> "setupWait"]

\* The errors a stage can end with: no answer, an I/O failure, an answer that
\* is not the expected one and, from setup, an S7 error (as which an answer
\* without setup parameters counts, too).
StageErrors(stage) ==
    {err \in {{"netTimeout"}, {"io"}} \cup
             (IF stage = "dial" THEN {} ELSE {{"protocol"}}) \cup
             (IF stage = "setup" THEN {{"s7"}, {"mismatch"}} ELSE {}) :
        err \subseteq Failures}

\* ctx.Err() at the start of DialContext, performCOTPConnect and
\* performS7Setup; without an error the request of the stage is sent.
BeginStage(k, stage) ==
    /\ at[k] = stage
    /\ \/ /\ ctx = "live"
          /\ Goto(k, StageWait[stage])
          /\ UNCHANGED <<res, open, sent, inbox>>
       \/ /\ ctx # "live"
          /\ StageFails(k, stage, {ctx})
    /\ UNCHANGED <<loopVars, outer, ctx, runVars, tries, candidates, answered>>

\* The stage fails: of itself, or because the context is done when DialContext,
\* SendContext or ReceiveContext looks at it.
StageEndsBadly(k, stage) ==
    /\ at[k] = StageWait[stage]
    /\ \/ \E err \in StageErrors(stage) : StageFails(k, stage, err)
       \/ ctx # "live" /\ StageFails(k, stage, {ctx})
    /\ UNCHANGED <<loopVars, outer, ctx, runVars, tries, candidates, answered>>

Dialled(k) ==
    /\ at[k] = "dialWait"
    /\ open' = [open EXCEPT ![k] = TRUE]
    /\ Goto(k, "cotp")
    /\ UNCHANGED <<loopVars, outer, ctx, runVars, tries, res, candidates, netVars>>

COTPConnected(k) ==
    /\ at[k] = "cotpWait"
    /\ Goto(k, "setup")
    /\ UNCHANGED <<loopVars, outer, ctx, runVars, open, tries, res, candidates,
                   netVars>>

\* Without Strict the probe ends here, with it the follow-up begins.
SetupDone(k) ==
    /\ at[k] = "setupWait"
    /\ \/ /\ ~req.strict
          /\ Finish(k, [stage |-> "setup", status |-> "setup-only", confirmedBy |-> ""])
          /\ UNCHANGED tries
       \/ /\ req.strict
          /\ tries' = [tries EXCEPT ![k] = Strategies(req.confirm)]
          /\ Goto(k, "query")
          /\ UNCHANGED <<open, res, sent, inbox>>
    /\ UNCHANGED <<loopVars, outer, ctx, runVars, candidates, answered>>

-----------------------------------------------------------------------------
(* runFollowUp: all queries of a probe carry the same PDU reference. *)

QueryResult(status, by) == [stage |-> "query", status |-> status, confirmedBy |-> by]

\* The current query has failed: on to the next one.
QueryFails(k) ==
    /\ tries' = [tries EXCEPT ![k] = Tail(@)]
    /\ Goto(k, "query")

NoQueryLeft(k) ==
    /\ at[k] = "query"
    /\ tries[k] = <<>>
    /\ Finish(k, QueryResult("valid-connect", ""))
    /\ UNCHANGED <<loopVars, outer, ctx, runVars, tries, candidates, answered>>

\* SendContext: ctx.Err(), and the query goes out.
SendQuery(k) ==
    /\ at[k] = "query"
    /\ tries[k] # <<>>
    /\ \/ /\ ctx = "live"
          /\ sent' = [sent EXCEPT ![k] = Append(@, Head(tries[k]))]
          /\ Goto(k, "queryWait")
          /\ UNCHANGED tries
       \/ /\ ctx # "live" \/ "io" \in Failures
          /\ QueryFails(k)
          /\ UNCHANGED sent
    /\ UNCHANGED <<loopVars, outer, ctx, runVars, open, res, candidates, inbox,
                   answered>>

\* Mutant of QueryAnswered: an answer that is no SZL, or an S7 error, confirms.
QueryAnsweredAnyhow(k) ==
    /\ at[k] = "queryWait"
    /\ inbox[k] # <<>>
    /\ Finish(k, QueryResult("valid-query", Head(tries[k])))
    /\ UNCHANGED <<loopVars, outer, ctx, runVars, tries, candidates, answered>>

\* ReceiveContext returns a frame: whichever query it answers, it carries the
\* expected reference, and ParseSZLResponse does not compare the SZL ID.
QueryAnswered(k) ==
    /\ at[k] = "queryWait"
    /\ inbox[k] # <<>>
    /\ \/ /\ Head(inbox[k]).kind = "ok"
          /\ Finish(k, QueryResult("valid-query", Head(tries[k])))
          /\ UNCHANGED tries
       \/ /\ Head(inbox[k]).kind = "bad"
          /\ inbox' = [inbox EXCEPT ![k] = Tail(@)]
          /\ QueryFails(k)
          /\ UNCHANGED <<res, open, sent>>
    /\ UNCHANGED <<loopVars, outer, ctx, runVars, candidates, answered>>

\* ReceiveContext fails; the answer may still come.
QueryTimesOut(k) ==
    /\ at[k] = "queryWait"
    /\ ctx # "live" \/ Failures \cap {"netTimeout", "io"} # {}
    /\ QueryFails(k)
    /\ UNCHANGED <<loopVars, outer, ctx, runVars, open, res, candidates, netVars>>

\* The device (external) answers the queries of a connection in order.
Answer(k, kind) ==
    /\ open[k]
    /\ sent[k] # <<>>
    /\ sent' = [sent EXCEPT ![k] = Tail(@)]
    /\ inbox' = [inbox EXCEPT ![k] = Append(@, [to |-> Head(sent[k]), kind |-> kind])]
    /\ answered' = [answered EXCEPT ![k] =
                       IF kind = "ok" THEN @ \cup {Head(sent[k])} ELSE @]
    /\ UNCHANGED <<loopVars, outer, ctx, runVars, at, open, tries, res, candidates>>

-----------------------------------------------------------------------------
(* The goroutine around probeOne *)

SetupAccepted == {"setup-only", "valid-connect", "valid-query"}

\* What counts as valid, for stopping and for the Valid list.
ValidStatus(r) == IF r.strict THEN {"valid-query"} ELSE SetupAccepted

\* Mutant of Store: a strict probe, too, stops at the first accepted setup.
StoreStopsEarly(k) ==
    /\ at[k] = "store"
    /\ candidates' = [candidates EXCEPT ![k] = res[k]]
    /\ ctx' = IF req.stop /\ ctx = "live" /\ res[k].status \in SetupAccepted
              THEN "canceled" ELSE ctx
    /\ Goto(k, "release")
    /\ UNCHANGED <<loopVars, outer, runVars, open, tries, res, netVars>>

\* candidates[idx] = c, and cancel() on the first valid candidate.
Store(k) ==
    /\ at[k] = "store"
    /\ candidates' = [candidates EXCEPT ![k] = res[k]]
    /\ ctx' = IF req.stop /\ ctx = "live" /\ res[k].status \in ValidStatus(req)
              THEN "canceled" ELSE ctx
    /\ Goto(k, "release")
    /\ UNCHANGED <<loopVars, outer, runVars, open, tries, res, netVars>>

\* Mutant of Release: no wg.Done().
ReleaseOnlySem(k) ==
    /\ at[k] = "release"
    /\ sem' = sem - 1
    /\ Goto(k, "over")
    /\ UNCHANGED <<loopVars, outer, ctx, wg, open, tries, res, candidates, netVars>>

\* The deferred <-sem and wg.Done().
Release(k) ==
    /\ at[k] = "release"
    /\ sem' = sem - 1
    /\ wg' = wg - 1
    /\ Goto(k, "over")
    /\ UNCHANGED <<loopVars, outer, ctx, open, tries, res, candidates, netVars>>

-----------------------------------------------------------------------------
Loop == LeaveLoop \/ StartIteration \/ Launch \/ Wait

Stage(k) ==
    \/ \E stage \in DOMAIN StageWait : BeginStage(k, stage) \/ StageEndsBadly(k, stage)
    \/ Dialled(k) \/ COTPConnected(k) \/ SetupDone(k)

FollowUp(k) == NoQueryLeft(k) \/ SendQuery(k) \/ QueryAnswered(k) \/ QueryTimesOut(k)

Goroutine(k) == Stage(k) \/ FollowUp(k) \/ Store(k) \/ Release(k)

Next ==
    \/ Loop
    \/ ContextDone
    \/ \E k \in Jobs : Goroutine(k) \/ \E kind \in QueryAnswers : Answer(k, kind)

Spec == Init /\ [][Next]_vars

\* Goroutines keep running, and their waits on the network have deadlines.
\* Jobs depends on req, so the goroutines are named by those of any request.
Tasks == UNION {1..r.jobs : r \in Requests}

Fairness ==
    /\ WF_vars(Loop)
    /\ \A k \in Tasks : WF_vars(k \in Jobs /\ Goroutine(k))

FairSpec == Spec /\ Fairness

-----------------------------------------------------------------------------
(* Properties *)

Queries == {"szl", "cpu-state", "any"}

Candidates ==
    [stage : {"", "tcp", "cotp", "setup", "query"},
     status : {"", "unreachable", "timeout", "tcp-only", "cotp-only", "rejected"}
                 \cup SetupAccepted,
     confirmedBy : {""} \cup Queries]

Points == {"none", "dial", "cotp", "setup", "query", "dialWait", "cotpWait",
           "setupWait", "queryWait", "store", "release", "over"}

\* Every variable has its type.
TypeOK ==
    /\ req \in {applyProbeDefaults(r) : r \in Requests}
    /\ main \in {"top", "acquire", "wait", "done"}
    /\ i \in 0..req.jobs
    /\ outer \in {"live", "canceled", "deadline"}
    /\ ctx \in {"live", "canceled", "deadline"}
    /\ sem \in 0..req.parallelism
    /\ wg \in 0..req.jobs
    /\ at \in [Jobs -> Points]
    /\ open \in [Jobs -> BOOLEAN]
    /\ tries \in [Jobs -> Seq(Queries)]
    /\ res \in [Jobs -> Candidates]
    /\ candidates \in [Jobs -> Candidates]
    /\ sent \in [Jobs -> Seq(Queries)]
    /\ inbox \in [Jobs -> Seq([to : Queries, kind : {"ok", "bad"}])]
    /\ answered \in [Jobs -> SUBSET Queries]
    /\ late \in 0..req.jobs

\* ProbeRackSlots runs its probes like a pool: no rack/slot is probed twice, no
\* more than Parallelism at a time (a conservative scan relies on it), and none
\* is still being probed or has its connection open when it returns, although a
\* probe that stops the others cancels the context they share.
ThePool == INSTANCE Pool WITH
    size     <- req.parallelism,
    running  <- {k \in Jobs : open[k] \/ at[k] \notin {"none", "store", "release", "over"}},
    ended    <- {k \in Jobs : ~open[k] /\ at[k] \in {"store", "release", "over"}},
    returned <- (main = "done")

ImplementsPool == ThePool!Spec

\* The result is read when every probe has written its candidate: each rack/
\* slot that was started is reported with a status, each other one, and each
\* beyond MaxAttemptsPerHost, has none.
EveryProbeReported ==
    main = "done" =>
        /\ i <= MaxJobs(req)
        /\ \A k \in Jobs : candidates[k].status # "" <=> k <= i

\* A probe that is not interrupted by its caller and stops before the last job
\* has found a valid candidate, and one that finds none has tried them all; and
\* stopping takes effect at once: after the cancel at most one more probe starts.
StopsForAReason ==
    /\ main = "done" /\ outer = "live" /\ i < MaxJobs(req) =>
           /\ req.stop
           /\ \E k \in Jobs : candidates[k].status \in ValidStatus(req)
    /\ late <= 1

\* A candidate is valid-query only if the device has answered one of its
\* follow-up queries, and carries a ConfirmedBy exactly then.
ConfirmedIsAnswered ==
    \A k \in Jobs :
        /\ candidates[k].status = "valid-query" <=> candidates[k].confirmedBy # ""
        /\ candidates[k].status = "valid-query" => answered[k] # {}

\* ProbeRackSlots returns, whatever the target does.
ProbeReturns == <>(main = "done")

-----------------------------------------------------------------------------
(* What the documentation says and the code does not do. *)

\* README.md: "Strict: true,  // equivalent to Confirm: client.ConfirmAny": a
\* device that answers every query well and at once is found valid.
StrictConfirms ==
    main = "done" /\ outer = "live" =>
        \A k \in 1..i : candidates[k].status = "valid-query"
=============================================================================
