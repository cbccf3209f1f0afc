----------------------------- MODULE CompareRead -----------------------------
(***************************************************************************)
(* CompareRead (compare.go): the same read through every rack/slot of a     *)
(* list, each on a connection of its own.  The caller's goroutine launches  *)
(* one goroutine per candidate through a semaphore of Parallelism tokens,   *)
(* writes off the candidates that are left when the context is done, waits  *)
(* for those it has launched and decides RackSlotInsensitive.               *)
(*                                                                         *)
(* Goroutine k is at at[k]: new (not launched), dial, connect (in the       *)
(* handshakes), read, release (the deferred calls) or over.                 *)
(***************************************************************************)
EXTENDS Integers, Sequences, FiniteSets, S7Exchange

CONSTANTS
    RackSlots,    \* rack/slot pairs
    NoRackSlot,
    Data,         \* what a read can return
    NoData,
    Candidates,   \* candidate lists of the requests
    Parallelisms, \* req.Parallelism
    Failures      \* statuses of a read that does not succeed

ASSUME CompareAssumption ==
    /\ NoRackSlot \notin RackSlots
    /\ NoData \notin Data
    /\ Candidates \subseteq Seq(RackSlots)
    /\ Parallelisms \subseteq Int
    /\ Failures \subseteq ReadStatuses \ {"success"}

\* Positions in the longest list.
Tasks == UNION {DOMAIN c : c \in Candidates}

VARIABLES
    cands,       \* req.Candidates
    parallelism, \* req.Parallelism
    target,      \* what a read through a rack/slot returns; NoData if the
                 \* target accepts no connection for it
    ctx,         \* live, canceled or deadline
    main,        \* launch (the loop over the candidates), wait or done
    i,           \* candidate the loop is at
    sem,         \* tokens in the channel sem
    at,          \* where each goroutine is
    results,     \* results, written by index
    insensitive  \* out.RackSlotInsensitive

vars == <<cands, parallelism, target, ctx, main, i, sem, at, results,
          insensitive>>

\* A CompareReadCandidate, and the zero value the slice is made of.
Outcome(rs, status, data) == [rs |-> rs, status |-> status, data |-> data]

ZeroOutcome == Outcome(NoRackSlot, "", NoData)

\* compareCandidateFailure.
compareCandidateFailure(rs, status) == Outcome(rs, status, NoData)

\* The capacity of sem: zero or negative is treated as 1.
Capacity == IF parallelism <= 0 THEN 1 ELSE parallelism

Init ==
    /\ cands \in Candidates
    /\ parallelism \in Parallelisms
    /\ target \in [RackSlots -> Data \cup {NoData}]
    /\ ctx = "live"
    /\ main = "launch"
    /\ i = 1
    /\ sem = 0
    /\ at = [k \in Tasks |-> "new"]
    /\ results = [k \in DOMAIN cands |-> ZeroOutcome]
    /\ insensitive = FALSE

\* The caller's context is cancelled or expires.
ContextDone(reason) ==
    /\ ctx = "live"
    /\ main # "done"
    /\ ctx' = reason
    /\ UNCHANGED <<cands, parallelism, target, main, i, sem, at, results,
                   insensitive>>

-----------------------------------------------------------------------------
(* The caller's goroutine *)

\* Mutant of Launch: one goroutine more than there are tokens.
LaunchOneMore ==
    /\ main = "launch"
    /\ i <= Len(cands)
    /\ Cardinality({k \in Tasks : at[k] \in {"dial", "connect", "read", "release"}}) <= Capacity
    /\ sem' = IF sem < Capacity THEN sem + 1 ELSE sem
    /\ at' = [at EXCEPT ![i] = "dial"]
    /\ i' = i + 1
    /\ UNCHANGED <<cands, parallelism, target, ctx, main, results, insensitive>>

\* case sem <- struct{}{}: a token is free, and the goroutine of candidate i
\* starts.  The select may take this case although the context is done.
Launch ==
    /\ main = "launch"
    /\ i <= Len(cands)
    /\ sem < Capacity
    /\ sem' = sem + 1
    /\ at' = [at EXCEPT ![i] = "dial"]
    /\ i' = i + 1
    /\ UNCHANGED <<cands, parallelism, target, ctx, main, results, insensitive>>

\* Mutants of WriteOff: all candidates are written off, and all but the one the
\* loop is at.
WriteOffAll ==
    /\ main = "launch"
    /\ i <= Len(cands)
    /\ ctx # "live"
    /\ results' = [k \in DOMAIN cands |->
                      compareCandidateFailure(cands[k], classifyOpError({ctx}))]
    /\ main' = "wait"
    /\ UNCHANGED <<cands, parallelism, target, ctx, i, sem, at, insensitive>>

WriteOffLater ==
    /\ main = "launch"
    /\ i <= Len(cands)
    /\ ctx # "live"
    /\ results' = [k \in DOMAIN cands |->
                      IF k <= i THEN results[k]
                      ELSE compareCandidateFailure(cands[k], classifyOpError({ctx}))]
    /\ main' = "wait"
    /\ UNCHANGED <<cands, parallelism, target, ctx, i, sem, at, insensitive>>

\* case <-ctx.Done(): the candidates from i on fail with the context's error.
WriteOff ==
    /\ main = "launch"
    /\ i <= Len(cands)
    /\ ctx # "live"
    /\ results' = [k \in DOMAIN cands |->
                      IF k < i THEN results[k]
                      ELSE compareCandidateFailure(cands[k], classifyOpError({ctx}))]
    /\ main' = "wait"
    /\ UNCHANGED <<cands, parallelism, target, ctx, i, sem, at, insensitive>>

\* The loop ends.
LaunchedAll ==
    /\ main = "launch"
    /\ i > Len(cands)
    /\ main' = "wait"
    /\ UNCHANGED <<cands, parallelism, target, ctx, i, sem, at, results,
                   insensitive>>

\* Mutant of Insensitive: candidates that failed are left out of the comparison.
InsensitiveSuccesses(r) ==
    LET ok == {k \in DOMAIN r : r[k].status = "success"}
    IN Len(r) >= 2 /\ ok # {} /\ \A j, k \in ok : r[j].data = r[k].data

\* The verdict: with two candidates or more, the first that succeeded is the
\* reference, and every one must have succeeded with its data.
Insensitive(r) ==
    LET ok == {k \in DOMAIN r : r[k].status = "success"}
        firstOK == CHOOSE k \in ok : \A j \in ok : k <= j
    IN /\ Len(r) >= 2
       /\ ok # {}
       /\ \A k \in DOMAIN r : /\ r[k].status = "success"
                              /\ r[k].data = r[firstOK].data

\* wg.Wait() returns, and CompareRead with the results.
Return ==
    /\ main = "wait"
    /\ \A k \in Tasks : at[k] \in {"new", "over"}
    /\ insensitive' = Insensitive(results)
    /\ main' = "done"
    /\ UNCHANGED <<cands, parallelism, target, ctx, i, sem, at, results>>

-----------------------------------------------------------------------------
(* The goroutine of candidate k *)

\* The goroutine has its result, and the connection is closed.
Store(k, r) ==
    /\ results' = [results EXCEPT ![k] = r]
    /\ at' = [at EXCEPT ![k] = "release"]
    /\ UNCHANGED <<cands, parallelism, target, ctx, main, i, sem, insensitive>>

\* Connect dials; with a context that is done it does not.
Dial(k) ==
    /\ at[k] = "dial"
    /\ ctx = "live"
    /\ at' = [at EXCEPT ![k] = "connect"]
    /\ UNCHANGED <<cands, parallelism, target, ctx, main, i, sem, results,
                   insensitive>>

\* Connect succeeds.
Connected(k) ==
    /\ at[k] = "connect"
    /\ target[cands[k]] # NoData
    /\ at' = [at EXCEPT ![k] = "read"]
    /\ UNCHANGED <<cands, parallelism, target, ctx, main, i, sem, results,
                   insensitive>>

\* Connect fails, in the dial or after it, with any error; Close follows.
ConnectFails(k, status) ==
    /\ at[k] \in {"dial", "connect"}
    /\ Store(k, compareCandidateFailure(cands[k], status))

\* ReadArea succeeds; Close follows.
ReadSucceeds(k) ==
    /\ at[k] = "read"
    /\ Store(k, Outcome(cands[k], "success", target[cands[k]]))

\* ReadArea does not.  A short read comes with the part that was read.  (The
\* error it may return is a failed validation, of what the request's own
\* validation has passed.)
ReadFails(k, status) ==
    /\ at[k] = "read"
    /\ Store(k, Outcome(cands[k], status,
                        IF status = "short-read" THEN target[cands[k]] ELSE NoData))

\* Mutant of Release: the token is kept when the connection failed.
ReleaseIfRead(k) ==
    /\ at[k] = "release"
    /\ sem' = IF results[k].data = NoData THEN sem ELSE sem - 1
    /\ at' = [at EXCEPT ![k] = "over"]
    /\ UNCHANGED <<cands, parallelism, target, ctx, main, i, results,
                   insensitive>>

\* The deferred calls: <-sem, then wg.Done().
Release(k) ==
    /\ at[k] = "release"
    /\ sem' = sem - 1
    /\ at' = [at EXCEPT ![k] = "over"]
    /\ UNCHANGED <<cands, parallelism, target, ctx, main, i, results,
                   insensitive>>

-----------------------------------------------------------------------------
Caller == Launch \/ WriteOff \/ LaunchedAll \/ Return

Goroutine(k) ==
    \/ Dial(k) \/ Connected(k) \/ ReadSucceeds(k) \/ Release(k)
    \/ \E status \in Failures : ConnectFails(k, status) \/ ReadFails(k, status)

Next ==
    \/ Caller
    \/ \E k \in Tasks : Goroutine(k)
    \/ \E reason \in {"canceled", "deadline"} : ContextDone(reason)

Spec == Init /\ [][Next]_vars

\* The goroutines run, and Connect and ReadArea return (CallsReturn of
\* S7Client).
Fairness == WF_vars(Caller) /\ \A k \in Tasks : WF_vars(Goroutine(k))

FairSpec == Spec /\ Fairness

-----------------------------------------------------------------------------
(* Properties *)

Outcomes == [rs : RackSlots \cup {NoRackSlot},
             status : ReadStatuses \cup {""},
             data : Data \cup {NoData}]

\* Every variable has its type; the channel never holds more than its capacity.
TypeOK ==
    /\ cands \in Candidates
    /\ parallelism \in Parallelisms
    /\ target \in [RackSlots -> Data \cup {NoData}]
    /\ ctx \in {"live", "canceled", "deadline"}
    /\ main \in {"launch", "wait", "done"}
    /\ i \in 1..(Len(cands) + 1)
    /\ sem \in 0..Capacity
    /\ at \in [Tasks -> {"new", "dial", "connect", "read", "release", "over"}]
    /\ results \in [DOMAIN cands -> Outcomes]
    /\ insensitive \in BOOLEAN

Open(k) == at[k] \in {"dial", "connect", "read"}

\* CompareRead runs its connections like a pool: "up to that many connections
\* run concurrently", none twice, and none is open when it returns.
ThePool == INSTANCE Pool WITH
    size     <- Capacity,
    running  <- {k \in Tasks : Open(k)},
    ended    <- {k \in Tasks : at[k] \in {"release", "over"}},
    returned <- (main = "done")

ImplementsPool == ThePool!Spec

\* Whoever writes a result is the only one that ever does: writing off the
\* candidates that were not launched and the goroutines of those that were never
\* touch the same element, in whatever order they come.
WrittenOnce ==
    [][\A k \in DOMAIN results :
          results[k] # ZeroOutcome => results'[k] = results[k]]_vars

\* "Results remain in candidate order", and each candidate has one: when
\* CompareRead returns, element k is about candidate k, and only a context that
\* is done leaves candidates without a connection.
EveryCandidateReported ==
    main = "done" =>
        \A k \in DOMAIN cands :
            /\ results[k].rs = cands[k]
            /\ at[k] = "new" => ctx # "live" /\ results[k].status # "success"

\* "RackSlotInsensitive is true only when every candidate succeeded and all
\* returned identical data": the verdict is true of the target, not just of the
\* results, and it is missed only where a read failed or there was nothing to
\* compare.
VerdictIsTrue ==
    main = "done" =>
        LET same == \E d \in Data : \A k \in DOMAIN cands : target[cands[k]] = d
        IN /\ insensitive => same /\ Len(cands) >= 2
           /\ (/\ same
               /\ Len(cands) >= 2
               /\ \A k \in DOMAIN cands : results[k].status = "success")
              => insensitive

\* CompareRead returns, cancelled or not.
CompareReturns == <>(main = "done")
=============================================================================
