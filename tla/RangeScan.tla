------------------------------ MODULE RangeScan ------------------------------
(***************************************************************************)
(* ProbeReadableRanges (rangescan.go): one probe per offset of the range,   *)
(* each of Repeat reads and, if Retries is set, of Retries + 1 more; then   *)
(* ConsolidateSpans merges the observations into spans.  The reads go       *)
(* through the caller's client, which another goroutine may close and       *)
(* connect meanwhile (a read is ReadArea, module AreaIO).                   *)
(*                                                                         *)
(* The two loops of probeOneOffset are the same but for their bounds: phase *)
(* says which one runs.  Flags (Stable, AllZero) are pointers to a bool:    *)
(* "nil", "yes" or "no".                                                    *)
(***************************************************************************)
EXTENDS Integers, Sequences, SequencesExt, S7Exchange

CONSTANTS
    Requests,  \* RangeProbeRequests that pass validateRangeProbeRequest:
               \* [start, end, step, probeSize, retries, repeat : integers,
               \*  interval, retryDelay : the pauses are not zero,
               \*  bounded : its reads have a deadline, from the client's
               \*            timeout (which may be 0: none) or the context]
    Reads,     \* what a read may return: [status, data : none, zero or other]
    Calls      \* calls of ConsolidateSpans by themselves:
               \* [observations, step, probeSize]

Flags == {"nil", "yes", "no"}

\* ReadProbeObservation, of the result its status.
Observations == [offset : Int, status : ReadStatuses, stable : Flags, allZero : Flags]

ASSUME RangeAssumption ==
    /\ \A r \in Requests :
          /\ r.start \in Int /\ r.end \in Int /\ r.start <= r.end
          /\ r.step \in Int /\ r.probeSize \in Nat
          /\ r.retries \in Nat /\ r.repeat \in Nat
          /\ r.interval \in BOOLEAN /\ r.retryDelay \in BOOLEAN
          /\ r.bounded \in BOOLEAN
    /\ Reads \subseteq [status : ReadStatuses \ {"inconclusive"},
                        data : {"none", "zero", "other"}]
    /\ \A r \in Reads : r.status = "success" => r.data # "none"
    /\ Calls \subseteq [observations : Seq(Observations), step : Int, probeSize : Int]

\* The defaults of the request.
Step(r) ==
    IF r.step > 0 THEN r.step ELSE IF r.probeSize > 0 THEN r.probeSize ELSE 1

ProbeSize(r) == IF r.probeSize > 0 THEN r.probeSize ELSE 8

Repeat(r) == IF r.repeat < 1 THEN 1 ELSE r.repeat

\* Start, Start + Step, ... below End.
OffsetsOf(r) ==
    [k \in 1..((r.end - r.start + Step(r) - 1) \div Step(r)) |->
        r.start + (k - 1) * Step(r)]

-----------------------------------------------------------------------------
(* The spans *)

\* A flag of a span: that of the probes that have one, if they agree; "differ"
\* stands for nil with a note.
MergeFlag(a, b) ==
    IF b = "nil" THEN a ELSE IF a \in {"nil", b} THEN b ELSE "differ"

NewSpan(o, probeSize) ==
    [start |-> o.offset, end |-> o.offset + probeSize, status |-> o.status,
     stable |-> o.stable, allZero |-> o.allZero]

SpanStep(step, probeSize) == IF step <= 0 THEN probeSize ELSE step

\* RangeProbeSummary, of the spans by their status.
SummaryOf(spansOf) ==
    [readable     |-> spansOf["success"],
     empty        |-> spansOf["empty-read"],
     inconclusive |-> spansOf["inconclusive"],
     failed       |-> spansOf["rejected"] \o spansOf["timeout"]
                          \o spansOf["transport-error"] \o spansOf["protocol-error"]
                          \o spansOf["short-read"]]

NoSpans == [s \in ReadStatuses |-> <<>>]

-----------------------------------------------------------------------------
VARIABLES
    req,          \* the request
    connected,    \* c.conn is not nil
    ctx,          \* live, canceled or deadline
    pc,           \* start, loop (over the offsets), check (top of the loop in
                  \* phase), pause (its select), read (in ReadArea), merge (in
                  \* ConsolidateSpans) or done; mergeCall, called: a call of
                  \* ConsolidateSpans by itself
    n,            \* the offset the loop is at
    phase,        \* repeat or retry
    repeated,     \* results of the repeats at the offset probed last
    attempts,     \* attemptResults at that offset
    observations, \* the probes that are done
    cut,          \* history: probes that the context has cut short
    out,          \* the RangeProbeResult, without Area and DBNumber
    err,          \* nil, or why the call failed
    args,         \* ConsolidateSpans: its parameters step and probeSize
    i, j,         \* the run being joined is that of the probes from i to j - 1
    span,         \* the span of that run
    spans,        \* the spans that are complete
    byStatus      \* these by their status

probeVars == <<phase, repeated, attempts>>
mergeVars == <<args, i, j, span, spans, byStatus>>
resultVars == <<out, err, mergeVars>>
vars == <<req, connected, ctx, pc, n, probeVars, observations, cut, resultVars>>

Offsets == OffsetsOf(req)

\* A result without probes.
EmptyOut == [probes |-> <<>>, spans |-> <<>>, summary |-> SummaryOf(NoSpans)]

Init ==
    /\ req \in Requests
    /\ connected \in BOOLEAN
    /\ ctx = "live"
    /\ pc = "start"
    /\ n = 1
    /\ phase = "repeat"
    /\ repeated = <<>>
    /\ attempts = <<>>
    /\ observations = <<>>
    /\ cut = {}
    /\ out = EmptyOut
    /\ err = "nil"
    /\ args = [step |-> 0, probeSize |-> 0]
    /\ i = 1
    /\ j = 1
    /\ span = [start |-> 0, end |-> 0, status |-> "inconclusive", stable |-> "nil",
               allZero |-> "nil"]
    /\ spans = <<>>
    /\ byStatus = NoSpans

\* The probes are done, or none are made.
Merging == pc \in {"merge", "mergeCall"}
Over == pc \in {"done", "called"}

\* The caller's context is cancelled or, if it has a deadline, expires, while
\* somebody looks at it.
ContextDone(reason) ==
    /\ ctx = "live"
    /\ reason = "deadline" => req.bounded
    /\ ~Merging /\ ~Over
    /\ ctx' = reason
    /\ UNCHANGED <<req, connected, pc, n, probeVars, observations, cut, resultVars>>

\* Another goroutine closes the client, or connects it again, while it is used.
Session(c) ==
    /\ ~Merging /\ ~Over
    /\ connected' = c
    /\ UNCHANGED <<req, ctx, pc, n, probeVars, observations, cut, resultVars>>

Disconnect == connected /\ Session(FALSE)

Reconnect == ~connected /\ Session(TRUE)

-----------------------------------------------------------------------------
(* ProbeReadableRanges *)

Start ==
    /\ pc = "start"
    /\ connected \/ Offsets = <<>>
    /\ pc' = "loop"
    /\ UNCHANGED <<req, connected, ctx, n, probeVars, observations, cut, resultVars>>

NotConnected ==
    /\ pc = "start"
    /\ ~connected
    /\ Offsets # <<>>
    /\ err' = "notConnected"
    /\ pc' = "done"
    /\ UNCHANGED <<req, connected, ctx, n, probeVars, observations, cut, out, mergeVars>>

\* The next offset: probeOneOffset is called.
NextOffset ==
    /\ pc = "loop"
    /\ n <= Len(Offsets)
    /\ ctx = "live"
    /\ phase' = "repeat"
    /\ repeated' = <<>>
    /\ attempts' = <<>>
    /\ pc' = "check"
    /\ UNCHANGED <<req, connected, ctx, n, observations, cut, resultVars>>

\* Mutant of ScanCancelled: the loop ends like a scan that is complete.
ScanCancelledQuietly ==
    /\ pc = "loop"
    /\ n <= Len(Offsets)
    /\ ctx # "live"
    /\ out' = [EmptyOut EXCEPT !.probes = observations]
    /\ pc' = "done"
    /\ UNCHANGED <<req, connected, ctx, n, probeVars, observations, cut, err, mergeVars>>

\* The context is done between two offsets: what has been observed is lost.
ScanCancelled ==
    /\ pc = "loop"
    /\ n <= Len(Offsets)
    /\ ctx # "live"
    /\ err' = ctx
    /\ pc' = "done"
    /\ UNCHANGED <<req, connected, ctx, n, probeVars, observations, cut, out, mergeVars>>

\* ConsolidateSpans is called, on its zero values.
Consolidate(probes, step, probeSize) ==
    /\ out' = [out EXCEPT !.probes = probes]
    /\ args' = [step |-> SpanStep(step, probeSize), probeSize |-> probeSize]
    /\ UNCHANGED <<req, connected, ctx, n, probeVars, observations, cut, err,
                   i, j, span, spans, byStatus>>

\* After the last offset.
ScanDone ==
    /\ pc = "loop"
    /\ n > Len(Offsets)
    /\ Consolidate(observations, Step(req), ProbeSize(req))
    /\ pc' = "merge"

\* ConsolidateSpans called by itself, on observations of the caller's.
CallConsolidateSpans(c) ==
    /\ pc = "start"
    /\ Consolidate(c.observations, c.step, c.probeSize)
    /\ pc' = "mergeCall"

-----------------------------------------------------------------------------
(* probeOneOffset *)

\* The loop that runs: the results it has, how many it makes and whether it
\* pauses before the next one.
Got == IF phase = "repeat" THEN repeated ELSE attempts

Wanted == IF phase = "repeat" THEN Repeat(req) ELSE req.retries + 1

Pauses ==
    Got # <<>> /\ IF phase = "repeat" THEN req.interval ELSE req.retryDelay

\* The context is checked before a read, with a pause after all reads but the
\* last.
Check ==
    /\ pc = "check"
    /\ Len(Got) < Wanted
    /\ ctx = "live"
    /\ pc' = IF Pauses THEN "pause" ELSE "read"
    /\ UNCHANGED <<req, connected, ctx, n, probeVars, observations, cut, resultVars>>

\* case <-time.After(...), which the select may take although the context is
\* done.
Paused ==
    /\ pc = "pause"
    /\ pc' = "read"
    /\ UNCHANGED <<req, connected, ctx, n, probeVars, observations, cut, resultVars>>

\* What ReadArea can return here: an offset below 0 is refused by its
\* validation, and a client that is closed by its sendReceive.
Failed(status) == [status |-> status, data |-> "none"]

Results == Reads \cup {Failed("transport-error")}

Readable(r) ==
    IF connected /\ Offsets[n] >= 0 THEN r \in Reads
    ELSE r = Failed("transport-error")

ReadArea(r) ==
    /\ pc = "read"
    /\ Readable(r)
    /\ IF phase = "repeat" THEN repeated' = Append(repeated, r) /\ UNCHANGED attempts
       ELSE attempts' = Append(attempts, r) /\ UNCHANGED repeated
    /\ pc' = "check"
    /\ UNCHANGED <<req, connected, ctx, n, phase, observations, cut, resultVars>>

\* probeOneOffset returns, and the observation is stored.
StoreProbe(status, stable, allZero) ==
    /\ observations' = Append(observations,
           [offset |-> Offsets[n], status |-> status, stable |-> stable,
            allZero |-> allZero])
    /\ n' = n + 1
    /\ pc' = "loop"
    /\ UNCHANGED <<req, connected, ctx, probeVars, resultVars>>

\* The context is done before a read or in a pause: the observation is a
\* failure, whatever was read before, and has no flags.
ProbeCancelled ==
    /\ \/ pc = "check" /\ Len(Got) < Wanted
       \/ pc = "pause"
    /\ ctx # "live"
    /\ StoreProbe(classifyOpError({ctx}), "nil", "nil")
    /\ cut' = cut \cup {n}

Mixed(results) == \E k \in DOMAIN results : results[k] # results[1]

\* Mutant of RepeatStatus: only the statuses are compared.
RepeatStatusOnly ==
    IF \E k \in DOMAIN repeated : repeated[k].status # repeated[1].status
    THEN "inconclusive" ELSE Last(repeated).status

\* The status after the repeats: that of the last, unless they are mixed.
RepeatStatus == IF Mixed(repeated) THEN "inconclusive" ELSE Last(repeated).status

Flag(b) == IF b THEN "yes" ELSE "no"

Stable == IF Repeat(req) > 1 THEN Flag(~Mixed(repeated)) ELSE "nil"

\* Mutant of AllZero: one read of zeros is enough.
AllZeroOnce ==
    IF Repeat(req) > 1
    THEN Flag(\E k \in DOMAIN repeated : repeated[k] = [status |-> "success", data |-> "zero"])
    ELSE "nil"

AllZero ==
    IF Repeat(req) > 1
    THEN Flag(\A k \in DOMAIN repeated : repeated[k] = [status |-> "success", data |-> "zero"])
    ELSE "nil"

\* The repeats are done: without Retries so is the probe, otherwise the second
\* loop starts, whatever the repeats have returned.
RepeatsDone ==
    /\ pc = "check"
    /\ phase = "repeat"
    /\ Len(repeated) = Repeat(req)
    /\ req.retries = 0
    /\ StoreProbe(RepeatStatus, Stable, AllZero)
    /\ UNCHANGED cut

StartRetries ==
    /\ pc = "check"
    /\ phase = "repeat"
    /\ Len(repeated) = Repeat(req)
    /\ req.retries > 0
    /\ phase' = "retry"
    /\ UNCHANGED <<req, connected, ctx, pc, n, repeated, attempts, observations,
                   cut, resultVars>>

\* Mutant of RetriesDone: the retries start again until they agree.
RetriesDoneAgreed ==
    /\ pc = "check"
    /\ phase = "retry"
    /\ Len(attempts) = req.retries + 1
    /\ UNCHANGED cut
    /\ \/ ~Mixed(attempts) /\ StoreProbe(RepeatStatus, Stable, AllZero)
       \/ /\ Mixed(attempts)
          /\ attempts' = <<>>
          /\ UNCHANGED <<req, connected, ctx, pc, n, phase, repeated, observations, resultVars>>

\* The retries are done.  They can make the observation inconclusive; what they
\* agree on is not compared with the repeats and not reported.
RetriesDone ==
    /\ pc = "check"
    /\ phase = "retry"
    /\ Len(attempts) = req.retries + 1
    /\ StoreProbe(IF Mixed(attempts) THEN "inconclusive" ELSE RepeatStatus,
                  Stable, AllZero)
    /\ UNCHANGED cut

-----------------------------------------------------------------------------
(* ConsolidateSpans *)

\* A run begins with the next probe.
BeginSpan ==
    /\ Merging
    /\ i = j
    /\ i <= Len(out.probes)
    /\ span' = NewSpan(out.probes[i], args.probeSize)
    /\ j' = i + 1
    /\ UNCHANGED <<req, connected, ctx, pc, n, probeVars, observations, cut, out,
                   err, args, i, spans, byStatus>>

\* Mutant of Joins: the distance of the offsets is not looked at.
JoinsAnyhow == j <= Len(out.probes) /\ out.probes[j].status = span.status

\* The next probe goes on where the run ends.
Joins ==
    /\ j <= Len(out.probes)
    /\ out.probes[j].status = span.status
    /\ out.probes[j].offset = out.probes[j - 1].offset + args.step

ExtendSpan ==
    /\ Merging
    /\ i < j
    /\ Joins
    /\ span' = [span EXCEPT !.end     = out.probes[j].offset + args.probeSize,
                            !.stable  = MergeFlag(@, out.probes[j].stable),
                            !.allZero = MergeFlag(@, out.probes[j].allZero)]
    /\ j' = j + 1
    /\ UNCHANGED <<req, connected, ctx, pc, n, probeVars, observations, cut, out,
                   err, args, i, spans, byStatus>>

EndSpan ==
    /\ Merging
    /\ i < j
    /\ ~Joins
    /\ spans' = Append(spans, span)
    /\ byStatus' = [byStatus EXCEPT ![span.status] = Append(@, span)]
    /\ i' = j
    /\ UNCHANGED <<req, connected, ctx, pc, n, probeVars, observations, cut, out,
                   err, args, j, span>>

\* ConsolidateSpans returns, and so does its caller.
Return ==
    /\ Merging
    /\ i = j
    /\ i > Len(out.probes)
    /\ out' = [out EXCEPT !.spans = spans, !.summary = SummaryOf(byStatus)]
    /\ pc' = IF pc = "merge" THEN "done" ELSE "called"
    /\ UNCHANGED <<req, connected, ctx, n, probeVars, observations, cut, err,
                   mergeVars>>

-----------------------------------------------------------------------------
Scan ==
    \/ Start \/ NotConnected \/ NextOffset \/ ScanCancelled \/ ScanDone
    \/ Check \/ Paused \/ ProbeCancelled \/ RepeatsDone \/ StartRetries
    \/ RetriesDone
    \/ BeginSpan \/ ExtendSpan \/ EndSpan \/ Return
    \/ \E r \in Results : ReadArea(r)

Next ==
    \/ Scan
    \/ \E c \in Calls : CallConsolidateSpans(c)
    \/ \E reason \in {"canceled", "deadline"} : ContextDone(reason)
    \/ Disconnect \/ Reconnect

Spec == Init /\ [][Next]_vars

\* The caller's goroutine runs, and ReadArea returns if it has a deadline
\* (CallsReturn of S7Client).
Due == (pc = "read" => req.bounded) /\ Scan

FairSpec == Spec /\ WF_vars(Due)

-----------------------------------------------------------------------------
(* Properties *)

Spans == [start : Int, end : Int, status : ReadStatuses,
          stable : Flags \cup {"differ"}, allZero : Flags \cup {"differ"}]

Summaries == [readable : Seq(Spans), empty : Seq(Spans), inconclusive : Seq(Spans),
              failed : Seq(Spans)]

\* The types of the result and of what it is made from.
MergeTypeOK ==
    /\ out \in [probes : Seq(Observations), spans : Seq(Spans), summary : Summaries]
    /\ args \in [step : Int, probeSize : Int]
    /\ i \in 1..(Len(out.probes) + 1)
    /\ j \in i..(Len(out.probes) + 1)
    /\ span \in Spans
    /\ spans \in Seq(Spans)
    /\ byStatus \in [ReadStatuses -> Seq(Spans)]

\* Every variable has its type, and no loop reads more often than the request
\* asks for.
TypeOK ==
    /\ connected \in BOOLEAN
    /\ ctx \in {"live", "canceled", "deadline"}
    /\ pc \in {"start", "loop", "check", "pause", "read", "merge", "done",
              "mergeCall", "called"}
    /\ phase \in {"repeat", "retry"}
    /\ repeated \in Seq(Results)
    /\ attempts \in Seq(Results)
    /\ observations \in Seq(Observations)
    /\ n = Len(observations) + 1
    /\ cut \subseteq 1..Len(observations)
    /\ err \in {"nil", "notConnected", "canceled", "deadline"}
    /\ req \in Requests
    /\ n <= Len(Offsets) + 1
    /\ Len(repeated) <= Repeat(req)
    /\ Len(attempts) <= req.retries + 1
    /\ MergeTypeOK

\* Probe k goes on where the one before it ends.
Continues(probes, step, k) ==
    /\ probes[k].status = probes[k - 1].status
    /\ probes[k].offset = probes[k - 1].offset + step

\* Probes a to b are a run that cannot be extended.
MaximalRun(probes, step, a, b) ==
    /\ a <= b
    /\ \A k \in (a + 1)..b : Continues(probes, step, k)
    /\ a = 1 \/ ~Continues(probes, step, a)
    /\ b = Len(probes) \/ ~Continues(probes, step, b + 1)

\* What a set of flags amounts to.
FlagOf(flags) ==
    IF {"yes", "no"} \subseteq flags THEN "differ"
    ELSE IF "yes" \in flags THEN "yes" ELSE IF "no" \in flags THEN "no" ELSE "nil"

\* Span s is that of the probes a to b.
Describes(s, probes, probeSize, a, b) ==
    /\ s.start = probes[a].offset
    /\ s.end = probes[b].offset + probeSize
    /\ \A k \in a..b : s.status = probes[k].status
    /\ s.stable = FlagOf({probes[k].stable : k \in a..b})
    /\ s.allZero = FlagOf({probes[k].allZero : k \in a..b})

\* The spans of a result are the maximal runs of its probes, in order and
\* without a gap (cuts[k] is where the k-th one begins), each up to the end of
\* its last probe and with a flag only if all its probes that have one agree on
\* it; and every span is in exactly one class of the summary, whatever its
\* status is.
SpansAreMaximalRuns ==
    LET probes == out.probes
        last == Len(out.spans)
        listed == out.summary.readable \o out.summary.empty
                      \o out.summary.inconclusive \o out.summary.failed
    IN Over =>
        /\ \E cuts \in [1..(last + 1) -> 1..(Len(probes) + 1)] :
              /\ cuts[1] = 1
              /\ cuts[last + 1] = Len(probes) + 1
              /\ \A k \in 1..last :
                    /\ MaximalRun(probes, args.step, cuts[k], cuts[k + 1] - 1)
                    /\ Describes(out.spans[k], probes, args.probeSize, cuts[k],
                                 cuts[k + 1] - 1)
        /\ Len(listed) = last
        /\ \A k \in 1..last : \E m \in DOMAIN listed : listed[m] = out.spans[k]

\* A span that is reported readable has been read: if the probes leave no gaps
\* every byte of it belongs to a probe that succeeded, and if the probes were
\* repeated they agreed, although cancellation, a lost connection and retries
\* came in between.
ReadableWasRead ==
    \A k \in DOMAIN out.summary.readable :
        LET s == out.summary.readable[k] IN
        /\ args.step <= args.probeSize =>
              \A b \in s.start..(s.end - 1) :
                  \E m \in DOMAIN out.probes :
                      /\ out.probes[m].status = "success"
                      /\ b \in out.probes[m].offset..(out.probes[m].offset + args.probeSize - 1)
        /\ pc = "done" => s.stable = IF Repeat(req) > 1 THEN "yes" ELSE "nil"

\* The observation made last agrees with its reads: it is a success only if
\* every repeat was, with the same data, and the retries do not contradict each
\* other; it is all zero only if it is stable.
ObservationIsHonest ==
    pc = "loop" /\ n > 1 /\ (n - 1) \notin cut =>
        LET o == observations[n - 1] IN
        /\ o.status = "success" =>
              /\ \A k \in DOMAIN repeated :
                    repeated[k].status = "success" /\ repeated[k].data = repeated[1].data
              /\ \A k \in DOMAIN attempts : attempts[k] = attempts[1]
        /\ o.allZero = "yes" => o.stable = "yes" /\ o.status \in {"success", "inconclusive"}

\* A scan without an error has probed every offset, in order, and only the last
\* probe may have been cut short by the context; one with an error reports no
\* probes at all.
CompleteUnlessError ==
    pc = "done" =>
        IF err = "nil"
        THEN /\ Len(out.probes) = Len(Offsets)
             /\ \A k \in DOMAIN Offsets : out.probes[k].offset = Offsets[k]
             /\ cut \subseteq {Len(Offsets)}
        ELSE out = EmptyOut

\* The scan returns, cancelled or disconnected or not, unless one of its reads
\* has no deadline and the device never answers it; nothing else holds it up.
ScanReturns == <>Over \/ <>[](pc = "read" /\ ~req.bounded)

-----------------------------------------------------------------------------
(* What the documentation says and the code does not do. *)

\* "inconclusive: repeated reads gave mixed results (e.g. range probe)": if the
\* reads of an offset have ended with different statuses, its observation is
\* inconclusive.
MixedIsInconclusive ==
    LET all == repeated \o attempts IN
    pc = "loop" /\ n > 1 /\ (n - 1) \notin cut =>
        \/ \A m, k \in DOMAIN all : all[m].status = all[k].status
        \/ observations[n - 1].status = "inconclusive"
=============================================================================
