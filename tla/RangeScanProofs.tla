-------------------------- MODULE RangeScanProofs --------------------------
(***************************************************************************)
(* What ProbeReadableRanges and ConsolidateSpans promise, for any requests, *)
(* any results of the reads and any observations ConsolidateSpans is called *)
(* on by itself.                                                            *)
(*                                                                         *)
(* IInv follows the loops.  In the scan the observations are those of the   *)
(* first offsets (InOrder); a probe in progress has an offset, has done its *)
(* repeats once it retries and has a read left to make when it pauses or    *)
(* reads (Probing); the context is done before a probe is cut short, so the *)
(* loop makes no other after it (CutIsLast); a success is stable            *)
(* (StableIfRepeated); and nothing is reported before the return (Untold).  *)
(* In ConsolidateSpans the spans so far cut the probes before i into        *)
(* maximal runs (Parted), span is that of the run from i to j - 1           *)
(* (Current), and the spans are those of byStatus (Listed).                 *)
(***************************************************************************)
EXTENDS RangeScan, SequenceTheorems, TLAPS

\* Every observation is about the offset at its place.
InOrder == \A k \in 1..Len(observations) : observations[k].offset = Offsets[k]

\* A call that has not begun has done nothing.
Fresh == pc \in {"start", "mergeCall", "called"} => n = 1

\* The probe in progress.
Probing ==
    pc \in {"check", "pause", "read"} =>
        /\ n <= Len(Offsets)
        /\ phase = "repeat" => attempts = <<>>
        /\ phase = "retry" => Len(repeated) = Repeat(req)
        /\ pc \in {"pause", "read"} => Len(Got) < Wanted

\* Only the probe made last was cut short, by a context that is done.
CutIsLast ==
    /\ cut \subseteq {Len(observations)}
    /\ cut # {} => ctx # "live" /\ pc \in {"loop", "merge", "done"}

\* What a readable span says about its stability.
Agreed == IF Repeat(req) > 1 THEN "yes" ELSE "nil"

StableIfRepeated ==
    \A k \in 1..Len(observations) :
        observations[k].status = "success" => observations[k].stable = Agreed

\* What holds of the scan.
Scanning ==
    /\ InOrder /\ Fresh /\ Probing /\ CutIsLast /\ StableIfRepeated
    /\ ObservationIsHonest /\ CompleteUnlessError

\* Nothing is reported before the return, and nothing merged before the scan is
\* done.
Untold ==
    ~Merging /\ ~Over =>
        /\ out = EmptyOut /\ err = "nil"
        /\ i = 1 /\ j = 1 /\ spans = <<>> /\ byStatus = NoSpans

\* The bytes of span s were read, if the probes leave no gaps.
Covered(s) ==
    args.step <= args.probeSize =>
        \A b \in s.start..(s.end - 1) :
            \E m \in DOMAIN out.probes :
                /\ out.probes[m].status = "success"
                /\ b \in out.probes[m].offset..(out.probes[m].offset + args.probeSize - 1)

ReadOK(s) == Covered(s) /\ (pc = "merge" => s.stable = Agreed)

\* The spans so far are the maximal runs before probe i.
Cuts(cuts) ==
    /\ cuts[1] = 1
    /\ cuts[Len(spans) + 1] = i
    /\ \A k \in 1..Len(spans) :
          /\ MaximalRun(out.probes, args.step, cuts[k], cuts[k + 1] - 1)
          /\ Describes(spans[k], out.probes, args.probeSize, cuts[k], cuts[k + 1] - 1)

Parted == \E cuts \in [1..(Len(spans) + 1) -> 1..(Len(out.probes) + 1)] : Cuts(cuts)

\* The run in progress.
Current ==
    /\ i = 1 \/ i > Len(out.probes) \/ ~Continues(out.probes, args.step, i)
    /\ i < j =>
          /\ \A k \in (i + 1)..(j - 1) : Continues(out.probes, args.step, k)
          /\ Describes(span, out.probes, args.probeSize, i, j - 1)
          /\ span.status = "success" => ReadOK(span)

\* The number of spans in byStatus.
Total(f) ==
    Len(f["success"]) + Len(f["empty-read"]) + Len(f["inconclusive"])
        + Len(f["rejected"]) + Len(f["timeout"]) + Len(f["transport-error"])
        + Len(f["protocol-error"]) + Len(f["short-read"])

\* byStatus has the spans, each once.
Listed ==
    /\ Total(byStatus) = Len(spans)
    /\ \A k \in 1..Len(spans) :
          \E m \in 1..Len(byStatus[spans[k].status]) :
              byStatus[spans[k].status][m] = spans[k]
    /\ \A m \in 1..Len(byStatus["success"]) : ReadOK(byStatus["success"][m])

Joined ==
    Merging =>
        /\ err = "nil"
        /\ out.spans = <<>> /\ out.summary = SummaryOf(NoSpans)
        /\ pc = "merge" => out.probes = observations /\ Len(observations) = Len(Offsets)
        /\ Parted /\ Current /\ Listed

\* What holds of the result.
Told == Untold /\ Joined /\ SpansAreMaximalRuns /\ ReadableWasRead

\* The inductive invariant.
IInv == TypeOK /\ Scanning /\ Told

-----------------------------------------------------------------------------
(* Facts about the request. *)

\* A length divided by a step is a number of steps.
LEMMA DivNat ==
    ASSUME NEW a \in Nat, NEW b \in Nat \ {0}
    PROVE  (a + b - 1) \div b \in Nat
OBVIOUS

LEMMA StepFacts ==
    ASSUME NEW r \in Requests
    PROVE  /\ Step(r) \in Nat \ {0} /\ Repeat(r) \in Nat \ {0} /\ r.retries \in Nat
           /\ r.start \in Int /\ r.end - r.start \in Nat
BY RangeAssumption DEF Step, Repeat

LEMMA OffsetsFacts ==
    ASSUME req \in Requests
    PROVE  /\ Len(Offsets) \in Nat /\ DOMAIN Offsets = 1..Len(Offsets)
           /\ \A k \in 1..Len(Offsets) : Offsets[k] \in Int
<1> DEFINE m == (req.end - req.start + Step(req) - 1) \div Step(req)
           s == Step(req)
           f == [k \in 1..m |-> req.start + (k - 1) * s]
<1>1. m \in Nat /\ s \in Nat /\ req.start \in Int
    BY StepFacts, DivNat
<1>2. Offsets = f
    BY DEF Offsets, OffsetsOf
<1> HIDE DEF m, s
<1>3. DOMAIN f = 1..m /\ f \in Seq(Int) /\ Len(f) = m /\ \A k \in 1..m : f[k] \in Int
    BY <1>1
<1> QED BY <1>1, <1>2, <1>3

LEMMA OffsetsFixed ==
    ASSUME UNCHANGED req
    PROVE  Offsets' = Offsets /\ Repeat(req)' = Repeat(req)
BY DEF Offsets

LEMMA AppendOf ==
    ASSUME NEW S, NEW q \in Seq(S), NEW x \in S
    PROVE  /\ Append(q, x) \in Seq(S) /\ Len(Append(q, x)) = Len(q) + 1 /\ Len(q) \in Nat
           /\ Append(q, x)[Len(q) + 1] = x
           /\ \A k \in 1..Len(q) : Append(q, x)[k] = q[k]
OBVIOUS

\* The facts used in every step of a scan.
LEMMA TypeFacts ==
    ASSUME TypeOK
    PROVE  /\ req \in Requests /\ Len(Offsets) \in Nat
           /\ DOMAIN Offsets = 1..Len(Offsets)
           /\ \A k \in 1..Len(Offsets) : Offsets[k] \in Int
           /\ Repeat(req) \in Nat \ {0} /\ req.retries \in Nat
           /\ n \in Nat \ {0} /\ Len(observations) = n - 1 /\ n <= Len(Offsets) + 1
           /\ repeated \in Seq(Results) /\ attempts \in Seq(Results)
           /\ Len(repeated) \in Nat /\ Len(attempts) \in Nat
           /\ DOMAIN repeated = 1..Len(repeated) /\ DOMAIN attempts = 1..Len(attempts)
<1>1. req \in Requests
    BY DEF TypeOK
<1>2. observations \in Seq(Observations) /\ Len(observations) \in Nat
    BY DEF TypeOK
<1>3. Repeat(req) \in Nat \ {0} /\ req.retries \in Nat
    BY <1>1, StepFacts
<1> QED BY <1>1, <1>2, <1>3, OffsetsFacts DEF TypeOK

\* Every read ends with a status of its own.
LEMMA ResultFacts ==
    ASSUME NEW r \in Results
    PROVE  r.status \in ReadStatuses \ {"inconclusive"}
BY RangeAssumption DEF Results, Failed, ReadStatuses

-----------------------------------------------------------------------------
(* The empty result. *)

LEMMA EmptyFacts ==
    /\ NoSpans \in [ReadStatuses -> Seq(Spans)]
    /\ \A s \in ReadStatuses : NoSpans[s] = <<>>
    /\ SummaryOf(NoSpans) =
          [readable |-> <<>>, empty |-> <<>>, inconclusive |-> <<>>, failed |-> <<>>]
<1>1. /\ NoSpans \in [ReadStatuses -> Seq(Spans)]
      /\ \A s \in ReadStatuses : NoSpans[s] = <<>>
    BY DEF NoSpans
<1>2. \A s \in {"success", "short-read", "empty-read", "rejected", "timeout",
                "transport-error", "protocol-error", "inconclusive"} : NoSpans[s] = <<>>
    BY <1>1 DEF ReadStatuses
<1>3. <<>> \o <<>> \o <<>> \o <<>> \o <<>> = <<>>
    OBVIOUS
<1> QED BY <1>1, <1>2, <1>3 DEF SummaryOf

\* An empty result says nothing wrong.
LEMMA EmptyTold == out = EmptyOut => SpansAreMaximalRuns /\ ReadableWasRead
<1> SUFFICES ASSUME out = EmptyOut PROVE SpansAreMaximalRuns /\ ReadableWasRead
    OBVIOUS
<1>1. /\ out.probes = <<>> /\ out.spans = <<>>
      /\ out.summary = [readable |-> <<>>, empty |-> <<>>, inconclusive |-> <<>>, failed |-> <<>>]
    BY EmptyFacts DEF EmptyOut
<1>2. /\ out.summary.readable = <<>> /\ out.summary.empty = <<>>
      /\ out.summary.inconclusive = <<>> /\ out.summary.failed = <<>>
    BY <1>1
<1>3. Len(<<>>) = 0 /\ DOMAIN <<>> = {} /\ <<>> \o <<>> \o <<>> \o <<>> = <<>>
    OBVIOUS
<1>4. ReadableWasRead
    BY <1>2, <1>3 DEF ReadableWasRead
<1> DEFINE cuts == [k \in 1..(0 + 1) |-> 1]
<1>5. cuts \in [1..(0 + 1) -> 1..(0 + 1)] /\ cuts[1] = 1 /\ cuts[0 + 1] = 0 + 1
    OBVIOUS
<1>6. 1..0 = {}
    OBVIOUS
<1> HIDE DEF cuts
<1>7. SpansAreMaximalRuns
    BY <1>1, <1>2, <1>3, <1>5, <1>6, Zenon DEF SpansAreMaximalRuns
<1> QED BY <1>4, <1>7

\* As long as the scan lasts, nothing is told.
LEMMA Quiet ==
    ASSUME IInv, ~Merging, ~Over, ~Merging', ~Over', UNCHANGED resultVars
    PROVE  Told' /\ MergeTypeOK'
<1>1. (out = EmptyOut => SpansAreMaximalRuns /\ ReadableWasRead)'
    BY EmptyTold, PTL
<1>2. out' = EmptyOut' /\ Untold'
    BY DEF IInv, Told, Untold, resultVars, mergeVars, EmptyOut
<1>3. Joined'
    BY DEF Joined
<1>4. MergeTypeOK'
    BY DEF IInv, TypeOK, MergeTypeOK, resultVars, mergeVars
<1> QED BY <1>1, <1>2, <1>3, <1>4 DEF Told

\* A scan that fails returns nothing.
LEMMA FailedQuiet ==
    ASSUME IInv, ~Merging, ~Over, pc' = "done", UNCHANGED <<out, mergeVars>>
    PROVE  Told' /\ MergeTypeOK'
<1>1. (out = EmptyOut => SpansAreMaximalRuns /\ ReadableWasRead)'
    BY EmptyTold, PTL
<1>2. out' = EmptyOut' /\ Untold'
    BY DEF IInv, Told, Untold, EmptyOut, Over
<1>3. Joined'
    BY DEF Joined, Merging
<1>4. MergeTypeOK'
    BY DEF IInv, TypeOK, MergeTypeOK, mergeVars
<1> QED BY <1>1, <1>2, <1>3, <1>4 DEF Told

-----------------------------------------------------------------------------
(* IInv is inductive: the scan. *)

LEMMA InitIInv == Init => IInv
<1> SUFFICES ASSUME Init PROVE IInv
    OBVIOUS
<1> USE DEF Init
<1>1. Len(Offsets) \in Nat /\ Repeat(req) \in Nat /\ req.retries \in Nat
    BY OffsetsFacts, StepFacts
<1>2. 1..Len(<<>>) = {} /\ Len(<<>>) = 0
    OBVIOUS
<1>3. MergeTypeOK
  <2>1. out \in [probes : Seq(Observations), spans : Seq(Spans), summary : Summaries]
      BY EmptyFacts DEF EmptyOut, Summaries
  <2>2. out.probes = <<>>
      BY DEF EmptyOut
  <2>3. span \in Spans
      BY DEF Spans, Flags, ReadStatuses
  <2> QED BY <1>2, <2>1, <2>2, <2>3, EmptyFacts DEF MergeTypeOK
<1>4. TypeOK
    BY <1>1, <1>2, <1>3 DEF TypeOK
<1>5. InOrder /\ StableIfRepeated
    BY <1>2, Zenon DEF InOrder, StableIfRepeated
<1>6. Fresh /\ Probing /\ CutIsLast
    BY DEF Fresh, Probing, CutIsLast
<1>7. ObservationIsHonest /\ CompleteUnlessError
    BY DEF ObservationIsHonest, CompleteUnlessError
<1>8. Told
    BY EmptyTold DEF Told, Untold, Joined, Merging, Over
<1> QED BY <1>4, <1>5, <1>6, <1>7, <1>8 DEF IInv, Scanning

\* The context is done, or the client is closed or connected: nothing of the scan changes.
LEMMA OutsideIInv ==
    ASSUME IInv,
           (\E reason \in {"canceled", "deadline"} : ContextDone(reason))
           \/ Disconnect \/ Reconnect
    PROVE  IInv'
<1>1. /\ ~Merging /\ ~Over
      /\ ctx' \in {"live", "canceled", "deadline"} /\ (ctx # "live" => ctx' # "live")
      /\ connected' \in BOOLEAN
      /\ UNCHANGED <<req, pc, n, phase, repeated, attempts, observations, cut, resultVars>>
    BY DEF ContextDone, Disconnect, Reconnect, Session, probeVars, IInv, TypeOK
<1>2. Offsets' = Offsets /\ Repeat(req)' = Repeat(req)
    BY <1>1, OffsetsFixed
<1>3. Told' /\ MergeTypeOK' /\ err' = err
    BY <1>1, Quiet DEF Merging, Over, resultVars
<1>4. TypeOK'
    BY <1>1, <1>2, <1>3 DEF IInv, TypeOK
<1>5. InOrder' /\ Fresh'
    BY <1>1, <1>2 DEF IInv, Scanning, InOrder, Fresh
<1>6. Probing'
    BY <1>1, <1>2 DEF IInv, Scanning, Probing, Got, Wanted
<1>7. CutIsLast' /\ StableIfRepeated'
    BY <1>1, <1>2 DEF IInv, Scanning, CutIsLast, StableIfRepeated, Agreed
<1>8. ObservationIsHonest'
    BY <1>1 DEF IInv, Scanning, ObservationIsHonest
<1>9. CompleteUnlessError'
    BY <1>1 DEF CompleteUnlessError, Over
<1> QED BY <1>3, <1>4, <1>5, <1>6, <1>7, <1>8, <1>9 DEF IInv, Scanning

\* The call begins, or fails at once.
LEMMA StartIInv ==
    ASSUME IInv, Start \/ NotConnected
    PROVE  IInv'
<1>1. /\ pc = "start" /\ n = 1 /\ ~Merging /\ ~Over
      /\ \/ pc' = "loop" /\ err' = err
         \/ pc' = "done" /\ err' = "notConnected"
      /\ UNCHANGED <<req, connected, ctx, n, phase, repeated, attempts, observations, cut, out,
                     mergeVars>>
    BY DEF Start, NotConnected, probeVars, resultVars, IInv, Scanning, Fresh, Merging, Over
<1>2. Offsets' = Offsets /\ Repeat(req)' = Repeat(req)
    BY <1>1, OffsetsFixed
<1>3. Told' /\ MergeTypeOK'
    BY <1>1, Quiet, FailedQuiet DEF Merging, Over, resultVars
<1>4. TypeOK'
    BY <1>1, <1>2, <1>3 DEF IInv, TypeOK
<1>5. InOrder' /\ Fresh' /\ Probing'
    BY <1>1, <1>2 DEF IInv, Scanning, InOrder, Fresh, Probing
<1>6. CutIsLast' /\ StableIfRepeated'
    BY <1>1, <1>2 DEF IInv, Scanning, CutIsLast, StableIfRepeated, Agreed
<1>7. ObservationIsHonest'
    BY <1>1 DEF ObservationIsHonest
<1>8. CompleteUnlessError'
    BY <1>1 DEF IInv, Told, Untold, CompleteUnlessError, EmptyOut
<1> QED BY <1>3, <1>4, <1>5, <1>6, <1>7, <1>8 DEF IInv, Scanning

\* A probe begins with nothing read.
LEMMA NextOffsetIInv ==
    ASSUME IInv, NextOffset
    PROVE  IInv'
<1>1. /\ pc = "loop" /\ n <= Len(Offsets) /\ ctx = "live"
      /\ phase' = "repeat" /\ repeated' = <<>> /\ attempts' = <<>> /\ pc' = "check"
      /\ UNCHANGED <<req, connected, ctx, n, observations, cut, resultVars>>
    BY DEF NextOffset
<1>2. Offsets' = Offsets /\ Repeat(req)' = Repeat(req)
    BY <1>1, OffsetsFixed
<1>3. Repeat(req) \in Nat \ {0} /\ req.retries \in Nat
    BY TypeFacts DEF IInv
<1>4. Len(<<>>) = 0 /\ <<>> \in Seq(Results)
    OBVIOUS
<1>5. Told' /\ MergeTypeOK' /\ err' = err
    BY <1>1, Quiet DEF Merging, Over, resultVars
<1>6. TypeOK'
    BY <1>1, <1>2, <1>3, <1>4, <1>5 DEF IInv, TypeOK
<1>7. InOrder' /\ Fresh' /\ Probing'
    BY <1>1, <1>2 DEF IInv, Scanning, InOrder, Fresh, Probing
<1>8. CutIsLast' /\ StableIfRepeated'
    BY <1>1, <1>2 DEF IInv, Scanning, CutIsLast, StableIfRepeated, Agreed
<1>9. ObservationIsHonest' /\ CompleteUnlessError'
    BY <1>1 DEF ObservationIsHonest, CompleteUnlessError
<1> QED BY <1>5, <1>6, <1>7, <1>8, <1>9 DEF IInv, Scanning

\* The scan ends with the error of the context.
LEMMA ScanCancelledIInv ==
    ASSUME IInv, ScanCancelled
    PROVE  IInv'
<1>1. /\ pc = "loop" /\ pc' = "done" /\ ctx # "live" /\ err' = ctx
      /\ UNCHANGED <<req, connected, ctx, n, phase, repeated, attempts, observations, cut, out,
                     mergeVars>>
    BY DEF ScanCancelled, probeVars
<1>2. Offsets' = Offsets /\ Repeat(req)' = Repeat(req)
    BY <1>1, OffsetsFixed
<1>3. Told' /\ MergeTypeOK'
    BY <1>1, FailedQuiet DEF Merging, Over
<1>4. TypeOK'
    BY <1>1, <1>2, <1>3 DEF IInv, TypeOK
<1>5. InOrder' /\ Fresh' /\ Probing'
    BY <1>1, <1>2 DEF IInv, Scanning, InOrder, Fresh, Probing
<1>6. CutIsLast' /\ StableIfRepeated'
    BY <1>1, <1>2 DEF IInv, Scanning, CutIsLast, StableIfRepeated, Agreed
<1>7. ObservationIsHonest'
    BY <1>1 DEF ObservationIsHonest
<1>8. err' # "nil"
    BY <1>1 DEF IInv, TypeOK
<1>9. CompleteUnlessError'
    BY <1>1, <1>8 DEF IInv, Told, Untold, CompleteUnlessError, EmptyOut, Merging, Over
<1> QED BY <1>3, <1>4, <1>5, <1>6, <1>7, <1>9 DEF IInv, Scanning

\* The steps of a probe that read nothing: the check of the context, the pause,
\* and the start of the retries.
LEMMA BetweenReadsIInv ==
    ASSUME IInv, Check \/ Paused \/ StartRetries
    PROVE  IInv'
<1>1. /\ pc \in {"check", "pause"} /\ pc' \in {"check", "pause", "read"}
      /\ UNCHANGED <<req, connected, ctx, n, repeated, attempts, observations, cut, resultVars>>
    BY DEF Check, Paused, StartRetries, probeVars
<1>2. Offsets' = Offsets /\ Repeat(req)' = Repeat(req)
    BY <1>1, OffsetsFixed
<1>3. phase' \in {"repeat", "retry"}
    BY DEF Check, Paused, StartRetries, probeVars, IInv, TypeOK
<1>9. Told' /\ MergeTypeOK' /\ err' = err
    BY <1>1, Quiet DEF Merging, Over, resultVars
<1>4. TypeOK'
    BY <1>1, <1>2, <1>3, <1>9 DEF IInv, TypeOK
<1>5. InOrder' /\ Fresh'
    BY <1>1, <1>2 DEF IInv, Scanning, InOrder, Fresh
<1>6. Probing'
  <2>1. n' <= Len(Offsets')
      BY <1>1, <1>2 DEF IInv, Scanning, Probing
  <2>2. CASE Check
      BY <1>1, <1>2, <2>1, <2>2 DEF Check, probeVars, IInv, Scanning, Probing, Got, Wanted
  <2>3. CASE Paused
      BY <1>1, <1>2, <2>1, <2>3 DEF Paused, probeVars, IInv, Scanning, Probing, Got, Wanted
  <2>4. CASE StartRetries
      BY <1>1, <1>2, <2>1, <2>4 DEF StartRetries, Probing
  <2> QED BY <2>2, <2>3, <2>4
<1>7. CutIsLast' /\ StableIfRepeated'
    BY <1>1 DEF IInv, Scanning, CutIsLast, StableIfRepeated, Agreed
<1>8. ObservationIsHonest' /\ CompleteUnlessError'
    BY <1>1 DEF ObservationIsHonest, CompleteUnlessError
<1> QED BY <1>4, <1>5, <1>6, <1>7, <1>8, <1>9 DEF IInv, Scanning

\* A read adds its result to those of the loop that runs.
LEMMA ReadAreaIInv ==
    ASSUME IInv, NEW r \in Results, ReadArea(r)
    PROVE  IInv'
<1>1. /\ pc = "read" /\ pc' = "check"
      /\ \/ phase = "repeat" /\ repeated' = Append(repeated, r) /\ attempts' = attempts
         \/ phase = "retry" /\ attempts' = Append(attempts, r) /\ repeated' = repeated
      /\ UNCHANGED <<req, connected, ctx, n, phase, observations, cut, resultVars>>
    BY DEF ReadArea, IInv, Scanning, TypeOK
<1>2. Offsets' = Offsets /\ Repeat(req)' = Repeat(req)
    BY <1>1, OffsetsFixed
<1>3. /\ repeated \in Seq(Results) /\ attempts \in Seq(Results)
      /\ Repeat(req) \in Nat /\ req.retries \in Nat
    BY <1>1, TypeFacts DEF IInv, Scanning
<1>4. /\ Append(repeated, r) \in Seq(Results) /\ Len(Append(repeated, r)) = Len(repeated) + 1
      /\ Append(attempts, r) \in Seq(Results) /\ Len(Append(attempts, r)) = Len(attempts) + 1
      /\ Len(repeated) \in Nat /\ Len(attempts) \in Nat
    BY <1>3, AppendOf
<1>5. IF phase = "repeat" THEN Len(repeated) < Repeat(req) ELSE Len(attempts) < req.retries + 1
    BY <1>1 DEF IInv, Scanning, Probing, Got, Wanted
<1>6. /\ repeated' \in Seq(Results) /\ attempts' \in Seq(Results)
      /\ Len(repeated') <= Repeat(req) /\ Len(attempts') <= req.retries + 1
  <2>1. Len(repeated) <= Repeat(req) /\ Len(attempts) <= req.retries + 1
      BY <1>1 DEF IInv, Scanning, TypeOK
  <2>2. CASE phase = "repeat"
    <3>1. repeated' = Append(repeated, r) /\ attempts' = attempts /\ Len(repeated) < Repeat(req)
        BY <1>1, <1>5, <2>2
    <3> QED BY <1>3, <1>4, <2>1, <3>1
  <2>3. CASE phase # "repeat"
    <3>1. attempts' = Append(attempts, r) /\ repeated' = repeated /\ Len(attempts) < req.retries + 1
        BY <1>1, <1>5, <2>3
    <3> QED BY <1>3, <1>4, <2>1, <3>1
  <2> QED BY <2>2, <2>3
<1>12. Told' /\ MergeTypeOK' /\ err' = err
    BY <1>1, Quiet DEF Merging, Over, resultVars
<1>7. TypeOK'
    BY <1>1, <1>2, <1>6, <1>12 DEF IInv, TypeOK
<1>8. InOrder' /\ Fresh'
    BY <1>1, <1>2 DEF IInv, Scanning, InOrder, Fresh
<1>9. Probing'
    BY <1>1, <1>2 DEF IInv, Scanning, Probing
<1>10. CutIsLast' /\ StableIfRepeated'
    BY <1>1 DEF IInv, Scanning, CutIsLast, StableIfRepeated, Agreed
<1>11. ObservationIsHonest' /\ CompleteUnlessError'
    BY <1>1 DEF ObservationIsHonest, CompleteUnlessError
<1> QED BY <1>7, <1>8, <1>9, <1>10, <1>11, <1>12 DEF IInv, Scanning

\* What storing an observation preserves, whatever ends the probe.
LEMMA StoreFacts ==
    ASSUME IInv, pc \in {"check", "pause"},
           NEW status \in ReadStatuses, NEW stable \in Flags, NEW allZero \in Flags,
           StoreProbe(status, stable, allZero),
           status = "success" => stable = Agreed,
           \/ cut' = cut
           \/ ctx # "live" /\ cut' = cut \cup {n}
    PROVE  /\ TypeOK' /\ InOrder' /\ Fresh' /\ Probing' /\ CutIsLast' /\ StableIfRepeated'
           /\ CompleteUnlessError' /\ Told'
           /\ n' - 1 = n /\ n \in Nat \ {0}
           /\ observations'[n].status = status /\ observations'[n].stable = stable
           /\ observations'[n].allZero = allZero
<1> DEFINE o == [offset |-> Offsets[n], status |-> status, stable |-> stable, allZero |-> allZero]
<1>1. /\ observations' = Append(observations, o) /\ n' = n + 1 /\ pc' = "loop"
      /\ UNCHANGED <<req, connected, ctx, phase, repeated, attempts, resultVars>>
    BY DEF StoreProbe, probeVars
<1>16. Told' /\ MergeTypeOK' /\ err' = err
    BY <1>1, Quiet DEF Merging, Over, resultVars
<1>2. Offsets' = Offsets /\ Repeat(req)' = Repeat(req)
    BY <1>1, OffsetsFixed
<1>3. /\ n \in Nat \ {0} /\ Len(observations) = n - 1 /\ n <= Len(Offsets) /\ Len(Offsets) \in Nat
      /\ Offsets[n] \in Int
    BY TypeFacts DEF IInv, Scanning, Probing
<1>4. o \in Observations
    BY <1>3 DEF Observations
<1>5. o.offset = Offsets[n] /\ o.status = status /\ o.stable = stable /\ o.allZero = allZero
    OBVIOUS
<1> HIDE DEF o
<1>6. observations \in Seq(Observations)
    BY DEF IInv, Scanning, TypeOK
<1>7. /\ observations' \in Seq(Observations) /\ Len(observations') = n
      /\ observations'[n] = o
      /\ \A k \in 1..(n - 1) : observations'[k] = observations[k]
    BY <1>1, <1>3, <1>4, <1>6, AppendOf
<1>8. cut = {}
    BY DEF IInv, Scanning, CutIsLast
<1>9. cut' \subseteq {n} /\ (cut' # {} => ctx # "live")
    BY <1>8
<1>10. TypeOK'
  <2>1. cut' \subseteq 1..n
      BY <1>3, <1>9
  <2>2. n' = Len(observations') + 1 /\ n' <= Len(Offsets) + 1
      BY <1>1, <1>3, <1>7
  <2> QED BY <1>1, <1>2, <1>7, <1>16, <2>1, <2>2 DEF IInv, TypeOK
<1>11. InOrder'
  <2> SUFFICES ASSUME NEW k \in 1..n PROVE observations'[k].offset = Offsets[k]
      BY <1>2, <1>7 DEF InOrder
  <2>1. CASE k = n
      BY <1>5, <1>7, <2>1
  <2>2. CASE k # n
    <3>1. k \in 1..(n - 1)
        BY <1>3, <2>2
    <3>2. observations[k].offset = Offsets[k]
        BY <1>3, <3>1 DEF IInv, Scanning, InOrder
    <3> QED BY <1>7, <3>1, <3>2
  <2> QED BY <2>1, <2>2
<1>12. Fresh' /\ Probing' /\ CompleteUnlessError'
    BY <1>1 DEF Fresh, Probing, CompleteUnlessError
<1>13. CutIsLast'
    BY <1>1, <1>7, <1>9 DEF CutIsLast
<1>14. StableIfRepeated'
  <2>1. Agreed' = Agreed
      BY <1>2 DEF Agreed
  <2> SUFFICES ASSUME NEW k \in 1..n, observations'[k].status = "success"
               PROVE  observations'[k].stable = Agreed
      BY <1>7, <2>1 DEF StableIfRepeated
  <2>2. CASE k = n
      BY <1>5, <1>7, <2>2
  <2>3. CASE k # n
    <3>1. k \in 1..(n - 1)
        BY <1>3, <2>3
    <3> QED BY <1>3, <1>7, <3>1 DEF IInv, Scanning, StableIfRepeated
  <2> QED BY <2>2, <2>3
<1>15. n' - 1 = n
    BY <1>1, <1>3
<1> QED BY <1>3, <1>5, <1>7, <1>10, <1>11, <1>12, <1>13, <1>14, <1>15, <1>16

\* A probe that is cut short is a failure.
LEMMA ProbeCancelledIInv ==
    ASSUME IInv, ProbeCancelled
    PROVE  IInv'
<1> DEFINE status == classifyOpError({ctx})
<1>1. /\ pc \in {"check", "pause"} /\ ctx # "live" /\ cut' = cut \cup {n}
      /\ StoreProbe(status, "nil", "nil")
    BY DEF ProbeCancelled
<1>2. status \in ReadStatuses \ {"success"} /\ "nil" \in Flags
    BY DEF classifyOpError, ReadStatuses, Flags
<1> HIDE DEF status
<1>3. /\ TypeOK' /\ InOrder' /\ Fresh' /\ Probing' /\ CutIsLast' /\ StableIfRepeated'
      /\ CompleteUnlessError' /\ Told' /\ n' - 1 = n
    BY <1>1, <1>2, StoreFacts
<1>4. ObservationIsHonest'
    BY <1>1, <1>3 DEF ObservationIsHonest
<1> QED BY <1>3, <1>4 DEF IInv, Scanning

\* What the reads of a probe that is not cut short say about its observation.
LEMMA HonestFacts ==
    ASSUME TypeOK, pc = "check", Len(repeated) = Repeat(req)
    PROVE  /\ RepeatStatus \in ReadStatuses /\ Stable \in Flags /\ AllZero \in Flags
           /\ RepeatStatus = "success" =>
                 \A k \in DOMAIN repeated :
                     repeated[k].status = "success" /\ repeated[k].data = repeated[1].data
           /\ RepeatStatus = "success" => Stable = Agreed
           /\ AllZero = "yes" => Stable = "yes" /\ RepeatStatus = "success"
<1>1. /\ Repeat(req) \in Nat \ {0} /\ repeated \in Seq(Results)
      /\ DOMAIN repeated = 1..Len(repeated)
    BY TypeFacts
<1>2. /\ 1 \in DOMAIN repeated /\ Len(repeated) \in DOMAIN repeated
      /\ Last(repeated) = repeated[Len(repeated)]
    BY <1>1 DEF Last
<1>3. \A k \in DOMAIN repeated : repeated[k] \in Results
    BY <1>1
<1>4. Last(repeated).status \in ReadStatuses \ {"inconclusive"}
    BY <1>2, <1>3, ResultFacts
<1>5. /\ Mixed(repeated) /\ RepeatStatus = "inconclusive"
      \/ /\ ~Mixed(repeated) /\ RepeatStatus = repeated[Len(repeated)].status
         /\ \A k \in DOMAIN repeated : repeated[k] = repeated[1]
    BY <1>2 DEF Mixed, RepeatStatus
<1>6. RepeatStatus \in ReadStatuses
    BY <1>2, <1>4, <1>5 DEF ReadStatuses
<1>7. Stable \in Flags /\ AllZero \in Flags
    BY DEF Stable, AllZero, Flag, Flags
<1>8. ASSUME RepeatStatus = "success"
      PROVE  \A k \in DOMAIN repeated :
                 repeated[k].status = "success" /\ repeated[k].data = repeated[1].data
    BY <1>2, <1>5, <1>8
<1>9. ASSUME AllZero = "yes"
      PROVE  Stable = "yes" /\ RepeatStatus = "success"
  <2> DEFINE z == [status |-> "success", data |-> "zero"]
  <2>1. Repeat(req) > 1 /\ \A k \in DOMAIN repeated : repeated[k] = z
      BY <1>9 DEF AllZero, Flag
  <2>2. z.status = "success"
      OBVIOUS
  <2> HIDE DEF z
  <2>3. ~Mixed(repeated)
      BY <1>2, <2>1 DEF Mixed
  <2>4. RepeatStatus = "success"
      BY <1>2, <1>5, <2>1, <2>2, <2>3
  <2> QED BY <2>1, <2>3, <2>4 DEF Stable, Flag
<1>10. ASSUME RepeatStatus = "success" PROVE Stable = Agreed
    BY <1>5, <1>10 DEF Stable, Agreed, Flag
<1> QED BY <1>6, <1>7, <1>8, <1>9, <1>10

\* A probe that is done, without retries or with them.
LEMMA ProbeDoneIInv ==
    ASSUME IInv, RepeatsDone \/ RetriesDone
    PROVE  IInv'
<1> DEFINE mixed == phase = "retry" /\ Mixed(attempts)
           status == IF mixed THEN "inconclusive" ELSE RepeatStatus
           rs == RepeatStatus
           st == Stable
           az == AllZero
<1>1. /\ pc = "check" /\ cut' = cut /\ Len(repeated) = Repeat(req)
      /\ StoreProbe(status, st, az)
    BY DEF RepeatsDone, RetriesDone, IInv, Scanning, Probing
<1>2. repeated' = repeated /\ attempts' = attempts /\ pc' = "loop"
    BY <1>1 DEF StoreProbe, probeVars
<1>3. /\ rs \in ReadStatuses /\ st \in Flags /\ az \in Flags
      /\ rs = "success" =>
            \A k \in DOMAIN repeated :
                repeated[k].status = "success" /\ repeated[k].data = repeated[1].data
      /\ rs = "success" => st = Agreed
      /\ az = "yes" => st = "yes" /\ rs = "success"
    BY <1>1, HonestFacts DEF IInv, Scanning
<1>4. ~mixed => \A k \in DOMAIN attempts : attempts[k] = attempts[1]
  <2>1. phase = "retry" \/ attempts = <<>>
      BY <1>1 DEF IInv, Scanning, TypeOK, Probing
  <2>2. DOMAIN attempts = 1..Len(attempts)
      BY <1>1, TypeFacts DEF IInv, Scanning
  <2>3. 1..Len(<<>>) = {}
      OBVIOUS
  <2>4. CASE attempts = <<>>
      BY <2>2, <2>3, <2>4, Zenon
  <2>5. CASE phase = "retry"
      BY <2>5 DEF Mixed
  <2> QED BY <2>1, <2>4, <2>5
<1>5. /\ status \in ReadStatuses
      /\ status = "success" => rs = "success" /\ ~mixed
      /\ rs = "success" => status \in {"success", "inconclusive"}
    BY <1>3 DEF ReadStatuses
<1> HIDE DEF mixed, status, rs, st, az
<1>6. /\ TypeOK' /\ InOrder' /\ Fresh' /\ Probing' /\ CutIsLast' /\ StableIfRepeated'
      /\ CompleteUnlessError' /\ Told'
      /\ n' - 1 = n
      /\ observations'[n].status = status /\ observations'[n].stable = st
      /\ observations'[n].allZero = az
    BY <1>1, <1>3, <1>5, StoreFacts
<1>7. ObservationIsHonest'
    BY <1>2, <1>3, <1>4, <1>5, <1>6 DEF ObservationIsHonest
<1> QED BY <1>6, <1>7 DEF IInv, Scanning

-----------------------------------------------------------------------------
(* IInv is inductive: ConsolidateSpans. *)

\* The types of what ConsolidateSpans works on.
LEMMA MergeFacts ==
    ASSUME MergeTypeOK
    PROVE  /\ out.probes \in Seq(Observations) /\ Len(out.probes) \in Nat
           /\ DOMAIN out.probes = 1..Len(out.probes)
           /\ \A k \in 1..Len(out.probes) :
                 /\ out.probes[k].offset \in Int /\ out.probes[k].status \in ReadStatuses
                 /\ out.probes[k].stable \in Flags /\ out.probes[k].allZero \in Flags
           /\ args.step \in Int /\ args.probeSize \in Int
           /\ i \in Nat \ {0} /\ j \in Nat \ {0} /\ i <= j /\ j <= Len(out.probes) + 1
           /\ span.start \in Int /\ span.end \in Int /\ span.status \in ReadStatuses
           /\ spans \in Seq(Spans) /\ Len(spans) \in Nat
           /\ \A s \in ReadStatuses : byStatus[s] \in Seq(Spans) /\ Len(byStatus[s]) \in Nat
<1>1. /\ out.probes \in Seq(Observations) /\ args \in [step : Int, probeSize : Int]
      /\ span \in Spans /\ spans \in Seq(Spans) /\ byStatus \in [ReadStatuses -> Seq(Spans)]
      /\ i \in 1..(Len(out.probes) + 1) /\ j \in i..(Len(out.probes) + 1)
    BY DEF MergeTypeOK
<1>2. Len(out.probes) \in Nat /\ DOMAIN out.probes = 1..Len(out.probes) /\ Len(spans) \in Nat
    BY <1>1
<1>3. \A k \in 1..Len(out.probes) : out.probes[k] \in Observations
    BY <1>1
<1>4. \A s \in ReadStatuses : byStatus[s] \in Seq(Spans) /\ Len(byStatus[s]) \in Nat
    BY <1>1
<1>5. \A k \in 1..Len(out.probes) :
          /\ out.probes[k].offset \in Int /\ out.probes[k].status \in ReadStatuses
          /\ out.probes[k].stable \in Flags /\ out.probes[k].allZero \in Flags
    BY <1>3 DEF Observations
<1>6. span.start \in Int /\ span.end \in Int /\ span.status \in ReadStatuses
    BY <1>1 DEF Spans
<1>7. args.step \in Int /\ args.probeSize \in Int
    BY <1>1
<1>8. i \in Nat \ {0} /\ j \in Nat \ {0} /\ i <= j /\ j <= Len(out.probes) + 1
    BY <1>1, <1>2
<1> QED BY <1>1, <1>2, <1>4, <1>5, <1>6, <1>7, <1>8

\* The statuses one by one.
LEMMA Statuses ==
    /\ "success" \in ReadStatuses /\ "empty-read" \in ReadStatuses
    /\ "inconclusive" \in ReadStatuses /\ "rejected" \in ReadStatuses
    /\ "timeout" \in ReadStatuses /\ "transport-error" \in ReadStatuses
    /\ "protocol-error" \in ReadStatuses /\ "short-read" \in ReadStatuses
BY DEF ReadStatuses

\* Flags are merged one by one.
LEMMA FlagFacts ==
    /\ \A f \in Flags : FlagOf({f}) = f
    /\ \A F \in SUBSET Flags, f \in Flags : MergeFlag(FlagOf(F), f) = FlagOf(F \cup {f})
    /\ \A F \in SUBSET Flags : FlagOf(F) \in Flags \cup {"differ"}
BY DEF Flags, FlagOf, MergeFlag

\* ConsolidateSpans is called.
LEMMA ConsolidateTold ==
    ASSUME IInv, ~Merging, ~Over,
           NEW probes \in Seq(Observations), NEW step \in Int, NEW size \in Int,
           Consolidate(probes, step, size),
           pc' \in {"merge", "mergeCall"},
           pc' = "merge" => probes = observations /\ Len(observations) = Len(Offsets)
    PROVE  Told' /\ MergeTypeOK'
<1>1. /\ out = EmptyOut /\ err = "nil" /\ i = 1 /\ j = 1 /\ spans = <<>> /\ byStatus = NoSpans
      /\ MergeTypeOK
    BY DEF IInv, Told, Untold, TypeOK
<1>2. /\ out' = [out EXCEPT !.probes = probes]
      /\ args' = [step |-> SpanStep(step, size), probeSize |-> size]
      /\ UNCHANGED <<req, observations, err, i, j, span, spans, byStatus>>
    BY DEF Consolidate
<1>3. /\ out'.probes = probes /\ out'.spans = <<>> /\ out'.summary = SummaryOf(NoSpans)
      /\ out'.summary.readable = <<>>
    BY <1>1, <1>2, EmptyFacts DEF EmptyOut
<1>4. Len(probes) \in Nat /\ Len(<<>>) = 0 /\ DOMAIN <<>> = {} /\ 1..0 = {}
    OBVIOUS
<1>5. MergeTypeOK'
  <2>1. out' \in [probes : Seq(Observations), spans : Seq(Spans), summary : Summaries]
      BY <1>1, <1>2 DEF MergeTypeOK
  <2>2. args' \in [step : Int, probeSize : Int]
      BY <1>2 DEF SpanStep
  <2>3. i' \in 1..(Len(out'.probes) + 1) /\ j' \in i'..(Len(out'.probes) + 1)
      BY <1>1, <1>2, <1>3, <1>4
  <2> QED BY <1>1, <1>2, <2>1, <2>2, <2>3 DEF MergeTypeOK
<1>6. Parted'
  <2> DEFINE cuts == [k \in 1..(0 + 1) |-> 1]
  <2>1. cuts \in [1..(0 + 1) -> 1..(Len(probes) + 1)] /\ cuts[1] = 1 /\ cuts[0 + 1] = 1
      BY <1>4
  <2> HIDE DEF cuts
  <2>2. Cuts(cuts)'
      BY <1>1, <1>2, <1>3, <1>4, <2>1, Zenon DEF Cuts
  <2> QED BY <1>1, <1>2, <1>3, <1>4, <2>1, <2>2, Zenon DEF Parted
<1>7. Current'
    BY <1>1, <1>2 DEF Current
<1>8. Listed'
  <2>1. /\ byStatus' = NoSpans /\ spans' = <<>>
        /\ \A s \in ReadStatuses : Len(NoSpans[s]) = 0
      BY <1>1, <1>2, <1>4, EmptyFacts
  <2>2. Total(NoSpans) = 0
    <3>1. /\ Len(NoSpans["success"]) = 0 /\ Len(NoSpans["empty-read"]) = 0
          /\ Len(NoSpans["inconclusive"]) = 0 /\ Len(NoSpans["rejected"]) = 0
          /\ Len(NoSpans["timeout"]) = 0 /\ Len(NoSpans["transport-error"]) = 0
          /\ Len(NoSpans["protocol-error"]) = 0 /\ Len(NoSpans["short-read"]) = 0
        BY <2>1, Statuses
    <3> QED BY <3>1 DEF Total
  <2>3. Len(NoSpans["success"]) = 0
      BY <2>1 DEF ReadStatuses
  <2> QED BY <1>4, <2>1, <2>2, <2>3, Zenon DEF Listed
<1>9. Offsets' = Offsets
    BY <1>2, OffsetsFixed
<1>10. Joined'
    BY <1>1, <1>2, <1>3, <1>6, <1>7, <1>8, <1>9 DEF Joined
<1>11. Untold' /\ SpansAreMaximalRuns'
    BY DEF Untold, SpansAreMaximalRuns, Merging, Over
<1>12. ReadableWasRead'
    BY <1>3, <1>4 DEF ReadableWasRead
<1> QED BY <1>5, <1>10, <1>11, <1>12 DEF Told

\* The scan is complete: there is an observation for every offset.
LEMMA ScanDoneIInv ==
    ASSUME IInv, ScanDone
    PROVE  IInv'
<1>1. /\ pc = "loop" /\ pc' = "merge" /\ n > Len(Offsets)
      /\ Consolidate(observations, Step(req), ProbeSize(req))
      /\ UNCHANGED <<req, connected, ctx, n, phase, repeated, attempts, observations, cut, err>>
    BY DEF ScanDone, Consolidate, probeVars
<1>2. Offsets' = Offsets /\ Repeat(req)' = Repeat(req)
    BY <1>1, OffsetsFixed
<1>3. /\ Len(observations) = Len(Offsets) /\ observations \in Seq(Observations)
      /\ Step(req) \in Int /\ ProbeSize(req) \in Int
  <2>1. req \in Requests /\ observations \in Seq(Observations)
      BY DEF IInv, TypeOK
  <2>2. Step(req) \in Int /\ ProbeSize(req) \in Int
      BY <2>1, RangeAssumption, StepFacts DEF ProbeSize
  <2>3. Len(observations) = Len(Offsets)
      BY <1>1, TypeFacts DEF IInv
  <2> QED BY <2>1, <2>2, <2>3
<1>4. Told' /\ MergeTypeOK'
    BY <1>1, <1>3, ConsolidateTold DEF Merging, Over
<1>5. TypeOK'
    BY <1>1, <1>2, <1>4 DEF IInv, TypeOK
<1>6. InOrder' /\ Fresh' /\ Probing'
    BY <1>1, <1>2 DEF IInv, Scanning, InOrder, Fresh, Probing
<1>7. CutIsLast' /\ StableIfRepeated'
    BY <1>1, <1>2 DEF IInv, Scanning, CutIsLast, StableIfRepeated, Agreed
<1>8. ObservationIsHonest' /\ CompleteUnlessError'
    BY <1>1 DEF ObservationIsHonest, CompleteUnlessError
<1> QED BY <1>4, <1>5, <1>6, <1>7, <1>8 DEF IInv, Scanning

\* ConsolidateSpans called by itself: no scan is made.
LEMMA CallConsolidateSpansIInv ==
    ASSUME IInv, NEW c \in Calls, CallConsolidateSpans(c)
    PROVE  IInv'
<1>1. /\ pc = "start" /\ pc' = "mergeCall"
      /\ Consolidate(c.observations, c.step, c.probeSize)
      /\ UNCHANGED <<req, connected, ctx, n, phase, repeated, attempts, observations, cut, err>>
    BY DEF CallConsolidateSpans, Consolidate, probeVars
<1>2. Offsets' = Offsets /\ Repeat(req)' = Repeat(req)
    BY <1>1, OffsetsFixed
<1>3. c.observations \in Seq(Observations) /\ c.step \in Int /\ c.probeSize \in Int
    BY RangeAssumption
<1>4. Told' /\ MergeTypeOK'
    BY <1>1, <1>3, ConsolidateTold DEF Merging, Over
<1>5. TypeOK'
    BY <1>1, <1>2, <1>4 DEF IInv, TypeOK
<1>6. InOrder' /\ Fresh' /\ Probing'
    BY <1>1, <1>2 DEF IInv, Scanning, InOrder, Fresh, Probing
<1>7. CutIsLast' /\ StableIfRepeated'
    BY <1>1, <1>2 DEF IInv, Scanning, CutIsLast, StableIfRepeated, Agreed
<1>8. ObservationIsHonest' /\ CompleteUnlessError'
    BY <1>1 DEF ObservationIsHonest, CompleteUnlessError
<1> QED BY <1>4, <1>5, <1>6, <1>7, <1>8 DEF IInv, Scanning

\* What a step of the loops leaves alone.
MergeStep ==
    /\ Merging
    /\ UNCHANGED <<req, connected, ctx, pc, n, phase, repeated, attempts, observations, cut,
                   out, err, args>>

\* Such a step has only the loops to answer for.
LEMMA MergeStepIInv ==
    ASSUME IInv, MergeStep, MergeTypeOK', Parted', Current', Listed'
    PROVE  IInv'
<1>1. Merging' /\ ~Over' /\ pc' \notin {"done", "loop", "check", "pause", "read"}
    BY DEF MergeStep, Merging, Over
<1>2. Offsets' = Offsets /\ Repeat(req)' = Repeat(req)
    BY OffsetsFixed DEF MergeStep
<1>3. TypeOK'
    BY <1>2 DEF IInv, TypeOK, MergeStep
<1>4. InOrder' /\ Fresh' /\ StableIfRepeated' /\ CutIsLast'
    BY <1>2 DEF IInv, Scanning, InOrder, Fresh, StableIfRepeated, Agreed, CutIsLast, MergeStep
<1>5. Probing' /\ ObservationIsHonest' /\ CompleteUnlessError'
    BY <1>1 DEF Probing, ObservationIsHonest, CompleteUnlessError
<1>6. /\ err = "nil" /\ out.spans = <<>> /\ out.summary = SummaryOf(NoSpans)
      /\ pc = "merge" => out.probes = observations /\ Len(observations) = Len(Offsets)
    BY DEF IInv, Told, Joined, MergeStep
<1>7. Joined'
    BY <1>2, <1>6 DEF Joined, MergeStep
<1>8. Untold' /\ SpansAreMaximalRuns'
    BY <1>1 DEF Untold, SpansAreMaximalRuns
<1>9. ReadableWasRead'
  <2>1. out'.summary.readable = <<>> /\ DOMAIN <<>> = {}
      BY <1>6, EmptyFacts DEF MergeStep
  <2> QED BY <2>1 DEF ReadableWasRead
<1> QED BY <1>3, <1>4, <1>5, <1>7, <1>8, <1>9 DEF IInv, Scanning, Told

\* A successful probe of a scan is stable.
LEMMA ProbeStable ==
    ASSUME IInv, pc = "merge", NEW k \in 1..Len(out.probes), out.probes[k].status = "success"
    PROVE  out.probes[k].stable = Agreed
BY DEF IInv, Scanning, Told, Joined, Merging, StableIfRepeated

\* A run of one probe.
LEMMA BeginSpanIInv ==
    ASSUME IInv, BeginSpan
    PROVE  IInv'
<1> DEFINE o == out.probes[i]
           size == args.probeSize
<1>1. /\ MergeStep /\ i = j /\ i <= Len(out.probes)
      /\ span' = NewSpan(o, size) /\ j' = i + 1 /\ UNCHANGED <<i, spans, byStatus>>
    BY DEF BeginSpan, MergeStep, probeVars
<1>2. MergeTypeOK /\ Parted /\ Current /\ Listed
    BY <1>1 DEF IInv, TypeOK, Told, Joined, MergeStep
<1>3. /\ Len(out.probes) \in Nat /\ DOMAIN out.probes = 1..Len(out.probes)
      /\ i \in Nat \ {0} /\ i \in 1..Len(out.probes)
      /\ o.offset \in Int /\ o.status \in ReadStatuses /\ o.stable \in Flags /\ o.allZero \in Flags
      /\ size \in Int
    BY <1>1, <1>2, MergeFacts
<1>4. /\ span'.start = o.offset /\ span'.end = o.offset + size /\ span'.status = o.status
      /\ span'.stable = o.stable /\ span'.allZero = o.allZero
      /\ span' \in Spans
    BY <1>1, <1>3 DEF NewSpan, Spans
<1>8. out' = out /\ args' = args
    BY <1>1 DEF MergeStep
<1>5. MergeTypeOK'
    BY <1>1, <1>2, <1>3, <1>4 DEF MergeTypeOK, MergeStep
<1>6. Parted' /\ Listed'
    BY <1>1, <1>2 DEF Parted, Cuts, Listed, ReadOK, Covered, Agreed, MergeStep
<1>7. Current'
  <2>1. i..i = {i} /\ (i + 1) - 1 = i /\ (i + 1)..i = {}
      BY <1>3
  <2>2. Describes(span', out.probes, size, i, i)
    <3>1. {out.probes[k].stable : k \in {i}} = {o.stable} /\ {out.probes[k].allZero : k \in {i}} = {o.allZero}
        OBVIOUS
    <3>2. FlagOf({o.stable}) = o.stable /\ FlagOf({o.allZero}) = o.allZero
        BY <1>3, FlagFacts
    <3> QED BY <1>4, <2>1, <3>1, <3>2 DEF Describes
  <2>3. ASSUME o.status = "success" PROVE ReadOK(span)'
    <3>1. Covered(span)'
      <4>1. ASSUME NEW b \in span'.start..(span'.end - 1)
            PROVE  \E m \in DOMAIN out.probes :
                      /\ out.probes[m].status = "success"
                      /\ b \in out.probes[m].offset..(out.probes[m].offset + size - 1)
        <5>1. b \in o.offset..(o.offset + size - 1)
          <6>1. span'.start = o.offset /\ span'.end = o.offset + size
              BY <1>4
          <6>2. o.offset \in Int /\ size \in Int
              BY <1>3
          <6> QED BY <6>1, <6>2
        <5> QED BY <1>3, <2>3, <5>1
      <4> QED BY <1>8, <4>1, Zenon DEF Covered
    <3>2. pc = "merge" => o.stable = Agreed
        BY <1>3, <2>3, ProbeStable
    <3> QED BY <1>1, <1>4, <3>1, <3>2 DEF ReadOK, Agreed, MergeStep
  <2>4. i = 1 \/ i > Len(out.probes) \/ ~Continues(out.probes, args.step, i)
      BY <1>2 DEF Current
  <2>5. j' - 1 = i
      BY <1>1, <2>1
  <2> QED BY <1>1, <1>4, <2>1, <2>2, <2>3, <2>4, <2>5 DEF Current, MergeStep
<1> QED BY <1>1, <1>5, <1>6, <1>7, MergeStepIInv

\* A probe that goes on where the run ends extends it.
LEMMA ExtendSpanIInv ==
    ASSUME IInv, ExtendSpan
    PROVE  IInv'
<1> DEFINE o == out.probes[j]
           p == out.probes[j - 1]
           size == args.probeSize
<1>1. /\ MergeStep /\ i < j /\ Joins
      /\ span' = [span EXCEPT !.end = o.offset + size, !.stable = MergeFlag(@, o.stable),
                              !.allZero = MergeFlag(@, o.allZero)]
      /\ j' = j + 1 /\ UNCHANGED <<i, spans, byStatus>>
    BY DEF ExtendSpan, MergeStep, probeVars
<1>2. MergeTypeOK /\ Parted /\ Current /\ Listed
    BY <1>1 DEF IInv, TypeOK, Told, Joined, MergeStep
<1>3. /\ Len(out.probes) \in Nat /\ DOMAIN out.probes = 1..Len(out.probes)
      /\ i \in Nat \ {0} /\ j \in Nat \ {0}
      /\ \A k \in 1..Len(out.probes) :
            out.probes[k].stable \in Flags /\ out.probes[k].allZero \in Flags
      /\ j \in 1..Len(out.probes) /\ j - 1 \in 1..Len(out.probes)
      /\ o.offset \in Int /\ p.offset \in Int /\ size \in Int /\ args.step \in Int
      /\ o.status = span.status /\ o.offset = p.offset + args.step
      /\ span \in Spans /\ span.start \in Int
  <2>1. /\ j <= Len(out.probes) /\ o.status = span.status /\ o.offset = p.offset + args.step
        /\ span \in Spans
      BY <1>1, <1>2 DEF Joins, MergeTypeOK
  <2>2. /\ Len(out.probes) \in Nat /\ DOMAIN out.probes = 1..Len(out.probes)
        /\ \A k \in 1..Len(out.probes) :
              /\ out.probes[k].stable \in Flags /\ out.probes[k].allZero \in Flags
              /\ out.probes[k].offset \in Int
        /\ args.step \in Int /\ size \in Int /\ span.start \in Int
        /\ i \in Nat \ {0} /\ j \in Nat \ {0}
      BY <1>2, MergeFacts
  <2>3. i < j
      BY <1>1
  <2>4. j \in 1..Len(out.probes) /\ j - 1 \in 1..Len(out.probes)
      BY <2>1, <2>2, <2>3
  <2> QED BY <2>1, <2>2, <2>4
<1>4. /\ Describes(span, out.probes, size, i, j - 1)
      /\ \A k \in (i + 1)..(j - 1) : Continues(out.probes, args.step, k)
      /\ span.status = "success" => ReadOK(span)
      /\ i = 1 \/ i > Len(out.probes) \/ ~Continues(out.probes, args.step, i)
    BY <1>1, <1>2 DEF Current
<1>5. /\ span.status = p.status /\ span.end = p.offset + size
      /\ span.start = out.probes[i].offset
      /\ \A k \in i..(j - 1) : span.status = out.probes[k].status
      /\ j - 1 \in i..(j - 1)
  <2>1. i < j /\ i \in Nat /\ j \in Nat
      BY <1>1, <1>3
  <2>2. j - 1 \in i..(j - 1)
      BY <2>1
  <2> QED BY <1>4, <2>2 DEF Describes
<1>6. /\ FlagOf({out.probes[k].stable : k \in i..j}) = MergeFlag(span.stable, o.stable)
      /\ FlagOf({out.probes[k].allZero : k \in i..j}) = MergeFlag(span.allZero, o.allZero)
      /\ MergeFlag(span.stable, o.stable) \in Flags \cup {"differ"}
      /\ MergeFlag(span.allZero, o.allZero) \in Flags \cup {"differ"}
  <2> DEFINE S == {out.probes[k].stable : k \in i..(j - 1)}
             Z == {out.probes[k].allZero : k \in i..(j - 1)}
  <2>1. i..j = (i..(j - 1)) \cup {j} /\ i..(j - 1) \subseteq 1..Len(out.probes)
      BY <1>1, <1>3, SMTT(30)
  <2>2. /\ {out.probes[k].stable : k \in i..j} = S \cup {o.stable}
        /\ {out.probes[k].allZero : k \in i..j} = Z \cup {o.allZero}
      BY <2>1
  <2>3. S \in SUBSET Flags /\ Z \in SUBSET Flags /\ o.stable \in Flags /\ o.allZero \in Flags
      BY <1>3, <2>1
  <2>4. span.stable = FlagOf(S) /\ span.allZero = FlagOf(Z)
      BY <1>4 DEF Describes
  <2>5. S \cup {o.stable} \in SUBSET Flags /\ Z \cup {o.allZero} \in SUBSET Flags
      BY <2>3
  <2> HIDE DEF S, Z
  <2>6. /\ MergeFlag(FlagOf(S), o.stable) = FlagOf(S \cup {o.stable})
        /\ MergeFlag(FlagOf(Z), o.allZero) = FlagOf(Z \cup {o.allZero})
      BY <2>3, FlagFacts, Zenon
  <2>7. /\ FlagOf(S \cup {o.stable}) \in Flags \cup {"differ"}
        /\ FlagOf(Z \cup {o.allZero}) \in Flags \cup {"differ"}
      BY <2>5, FlagFacts, Zenon
  <2> QED BY <2>2, <2>4, <2>6, <2>7, Zenon
<1>7. /\ span'.start = span.start /\ span'.end = o.offset + size /\ span'.status = span.status
      /\ span'.stable = MergeFlag(span.stable, o.stable)
      /\ span'.allZero = MergeFlag(span.allZero, o.allZero)
      /\ span' \in Spans
  <2> DEFINE f == MergeFlag(span.stable, o.stable)
             g == MergeFlag(span.allZero, o.allZero)
             e == o.offset + size
  <2>1. span' = [span EXCEPT !.end = e, !.stable = f, !.allZero = g]
      BY <1>1
  <2>2. f \in Flags \cup {"differ"} /\ g \in Flags \cup {"differ"}
      BY <1>6
  <2>3. e \in Int /\ span \in Spans
      BY <1>3
  <2> HIDE DEF e, f, g
  <2>4. /\ span'.start = span.start /\ span'.end = e /\ span'.status = span.status
        /\ span'.stable = f /\ span'.allZero = g /\ span' \in Spans
      BY <2>1, <2>2, <2>3 DEF Spans
  <2> QED BY <2>4 DEF e, f, g
<1>15. out' = out /\ args' = args
    BY <1>1 DEF MergeStep
<1>8. MergeTypeOK'
  <2>1. i \in Nat /\ j \in 1..Len(out.probes) /\ i < j /\ j' = j + 1 /\ Len(out.probes) \in Nat
      BY <1>1, <1>3
  <2>2. j' \in i..(Len(out.probes) + 1)
      BY <2>1
  <2>3. i' = i /\ spans' = spans /\ byStatus' = byStatus
      BY <1>1
  <2> QED BY <1>2, <1>7, <1>15, <2>2, <2>3 DEF MergeTypeOK
<1>9. Parted' /\ Listed'
    BY <1>1, <1>2 DEF Parted, Cuts, Listed, ReadOK, Covered, Agreed, MergeStep
<1>10. j' - 1 = j
    BY <1>1, <1>3
<1>11. Describes(span', out.probes, size, i, j)
  <2>1. \A k \in i..j : span.status = out.probes[k].status
    <3> SUFFICES ASSUME NEW k \in i..j PROVE span.status = out.probes[k].status
        OBVIOUS
    <3>1. CASE k = j
        BY <1>3, <3>1
    <3>2. CASE k # j
      <4>1. k \in i..(j - 1)
          BY <1>3, <3>2
      <4> QED BY <1>5, <4>1
    <3> QED BY <3>1, <3>2
  <2> QED BY <1>5, <1>6, <1>7, <2>1 DEF Describes
<1>12. \A k \in (i + 1)..j : Continues(out.probes, args.step, k)
  <2> SUFFICES ASSUME NEW k \in (i + 1)..j PROVE Continues(out.probes, args.step, k)
      OBVIOUS
  <2>1. CASE k = j
      BY <1>3, <1>5, <2>1 DEF Continues
  <2>2. CASE k # j
    <3>1. k \in (i + 1)..(j - 1)
        BY <1>3, <2>2
    <3> QED BY <1>4, <3>1
  <2> QED BY <2>1, <2>2
<1>13. ASSUME span.status = "success" PROVE ReadOK(span)'
  <2>1. Covered(span)'
    <3> SUFFICES ASSUME args.step <= size, NEW b \in span'.start..(span'.end - 1)
                 PROVE  \E m \in DOMAIN out.probes :
                           /\ out.probes[m].status = "success"
                           /\ b \in out.probes[m].offset..(out.probes[m].offset + size - 1)
        BY <1>15, Zenon DEF Covered
    <3>3. b \in span.start..(o.offset + size - 1)
      <4>1. span'.start = span.start /\ span'.end = o.offset + size
          BY <1>7
      <4>2. span.start \in Int /\ o.offset \in Int /\ size \in Int
          BY <1>3
      <4> QED BY <4>1, <4>2
    <3>1. CASE b \in span.start..(span.end - 1)
        BY <1>4, <1>13, <3>1 DEF ReadOK, Covered
    <3>2. CASE b \notin span.start..(span.end - 1)
      <4>1. b \in o.offset..(o.offset + size - 1)
        <5>1. /\ o.offset \in Int /\ p.offset \in Int /\ size \in Int /\ args.step \in Int
              /\ o.offset = p.offset + args.step /\ span.start \in Int
            BY <1>3
        <5>2. span.end = p.offset + size
            BY <1>5
        <5> QED BY <3>2, <3>3, <5>1, <5>2
      <4> QED BY <1>3, <1>13, <4>1
    <3> QED BY <3>1, <3>2
  <2>2. pc = "merge" => MergeFlag(span.stable, o.stable) = Agreed
    <3> SUFFICES ASSUME pc = "merge" PROVE MergeFlag(span.stable, o.stable) = Agreed
        OBVIOUS
    <3>1. span.stable = Agreed
        BY <1>4, <1>13 DEF ReadOK
    <3>2. o.stable = Agreed
        BY <1>3, <1>13, ProbeStable
    <3> QED BY <3>1, <3>2 DEF MergeFlag
  <2> QED BY <1>1, <1>7, <2>1, <2>2 DEF ReadOK, Agreed, MergeStep
<1>14. Current'
    BY <1>1, <1>4, <1>7, <1>10, <1>11, <1>12, <1>13 DEF Current, MergeStep
<1> QED BY <1>1, <1>8, <1>9, <1>14, MergeStepIInv

\* One more span in byStatus.
LEMMA OneMore ==
    ASSUME NEW f \in [ReadStatuses -> Seq(Spans)], NEW s \in Spans,
           NEW g, g = [f EXCEPT ![s.status] = Append(@, s)]
    PROVE  /\ g \in [ReadStatuses -> Seq(Spans)]
           /\ Total(g) = Total(f) + 1
           /\ \A t \in ReadStatuses : Len(f[t]) \in Nat /\ f[t] \in Seq(Spans)
           /\ g[s.status] = Append(f[s.status], s)
           /\ \A t \in ReadStatuses : t # s.status => g[t] = f[t]
<1>1. s.status \in ReadStatuses
    BY DEF Spans
<1>2. \A t \in ReadStatuses : Len(f[t]) \in Nat /\ f[t] \in Seq(Spans)
    OBVIOUS
<1>3. /\ Append(f[s.status], s) \in Seq(Spans)
      /\ Len(Append(f[s.status], s)) = Len(f[s.status]) + 1
    BY <1>1, <1>2, AppendOf
<1>4. /\ g[s.status] = Append(f[s.status], s)
      /\ \A t \in ReadStatuses : t # s.status => g[t] = f[t]
    BY <1>1
<1>5. g \in [ReadStatuses -> Seq(Spans)]
    BY <1>1, <1>3
<1>6. \A t \in ReadStatuses : Len(g[t]) = Len(f[t]) + (IF t = s.status THEN 1 ELSE 0)
    BY <1>2, <1>3, <1>4
<1>7. Total(g) = Total(f) + 1
  <2> DEFINE S == s.status
  <2>1. S \in {"success", "short-read", "empty-read", "rejected", "timeout",
               "transport-error", "protocol-error", "inconclusive"}
      BY <1>1 DEF ReadStatuses
  <2>2. \A t \in ReadStatuses : Len(g[t]) = Len(f[t]) + (IF t = S THEN 1 ELSE 0)
      BY <1>6
  <2>3. \A t \in ReadStatuses : Len(f[t]) \in Nat
      BY <1>2
  <2> DEFINE a == Len(f["success"])
             b == Len(f["empty-read"])
             c == Len(f["inconclusive"])
             d == Len(f["rejected"])
             e == Len(f["timeout"])
             h == Len(f["transport-error"])
             p == Len(f["protocol-error"])
             q == Len(f["short-read"])
             One(t) == IF t = S THEN 1 ELSE 0
  <2>4. /\ Len(g["success"]) = a + One("success")
        /\ Len(g["empty-read"]) = b + One("empty-read")
        /\ Len(g["inconclusive"]) = c + One("inconclusive")
        /\ Len(g["rejected"]) = d + One("rejected")
        /\ Len(g["timeout"]) = e + One("timeout")
        /\ Len(g["transport-error"]) = h + One("transport-error")
        /\ Len(g["protocol-error"]) = p + One("protocol-error")
        /\ Len(g["short-read"]) = q + One("short-read")
      BY <2>2, Statuses
  <2>5. /\ a \in Nat /\ b \in Nat /\ c \in Nat /\ d \in Nat
        /\ e \in Nat /\ h \in Nat /\ p \in Nat /\ q \in Nat
      BY <2>3, Statuses
  <2>6. Total(f) = a + b + c + d + e + h + p + q
      BY DEF Total
  <2> HIDE DEF S, a, b, c, d, e, h, p, q
  <2>7. Total(g) = (a + One("success")) + (b + One("empty-read")) + (c + One("inconclusive"))
                       + (d + One("rejected")) + (e + One("timeout"))
                       + (h + One("transport-error")) + (p + One("protocol-error"))
                       + (q + One("short-read"))
      BY <2>4 DEF Total
  <2> QED BY <2>1, <2>5, <2>6, <2>7
<1> QED BY <1>2, <1>4, <1>5, <1>7

\* A run that is complete becomes a span.
LEMMA EndSpanIInv ==
    ASSUME IInv, EndSpan
    PROVE  IInv'
<1> DEFINE probes == out.probes
           size == args.probeSize
           len == Len(spans)
<1>1. /\ MergeStep /\ i < j /\ ~Joins
      /\ spans' = Append(spans, span)
      /\ byStatus' = [byStatus EXCEPT ![span.status] = Append(@, span)]
      /\ i' = j /\ UNCHANGED <<j, span>>
    BY DEF EndSpan, MergeStep, probeVars
<1>2. MergeTypeOK /\ Parted /\ Current /\ Listed
    BY <1>1 DEF IInv, TypeOK, Told, Joined, MergeStep
<1>3. /\ Len(probes) \in Nat /\ i \in Nat \ {0} /\ j \in Nat \ {0} /\ j <= Len(probes) + 1
      /\ span \in Spans /\ span.status \in ReadStatuses
      /\ spans \in Seq(Spans) /\ len \in Nat /\ byStatus \in [ReadStatuses -> Seq(Spans)]
    BY <1>2, MergeFacts DEF MergeTypeOK
<1>4. /\ Describes(span, probes, size, i, j - 1)
      /\ \A k \in (i + 1)..(j - 1) : Continues(probes, args.step, k)
      /\ span.status = "success" => ReadOK(span)
      /\ i = 1 \/ i > Len(probes) \/ ~Continues(probes, args.step, i)
    BY <1>1, <1>2 DEF Current
<1>5. j > Len(probes) \/ ~Continues(probes, args.step, j)
  <2>1. span.status = probes[j - 1].status
      BY <1>1, <1>3, <1>4 DEF Describes
  <2> QED BY <1>1, <1>3, <2>1 DEF Joins, Continues
<1>6. MaximalRun(probes, args.step, i, j - 1)
  <2>1. i <= j - 1 /\ ~(i > Len(probes)) /\ (j - 1) + 1 = j /\ (j > Len(probes) => j - 1 = Len(probes))
    <3>1. i < j
        BY <1>1
    <3>2. Len(probes) \in Nat /\ i \in Nat /\ j \in Nat /\ j <= Len(probes) + 1
        BY <1>3
    <3> QED BY <3>1, <3>2
  <2> QED BY <1>4, <1>5, <2>1, Zenon DEF MaximalRun
<1>7. /\ spans' \in Seq(Spans) /\ Len(spans') = len + 1 /\ spans'[len + 1] = span
      /\ \A k \in 1..len : spans'[k] = spans[k]
    BY <1>1, <1>3, AppendOf
<1>8. /\ byStatus' \in [ReadStatuses -> Seq(Spans)]
      /\ Total(byStatus') = Total(byStatus) + 1
      /\ \A t \in ReadStatuses : Len(byStatus[t]) \in Nat /\ byStatus[t] \in Seq(Spans)
      /\ byStatus'[span.status] = Append(byStatus[span.status], span)
      /\ \A t \in ReadStatuses : t # span.status => byStatus'[t] = byStatus[t]
    BY <1>1, <1>3, OneMore
<1>9. MergeTypeOK'
    BY <1>1, <1>2, <1>3, <1>7, <1>8 DEF MergeTypeOK, MergeStep
<1>10. Parted'
  <2>1. PICK cuts \in [1..(len + 1) -> 1..(Len(probes) + 1)] : Cuts(cuts)
      BY <1>2 DEF Parted
  <2>2. PICK new \in [1..(len + 2) -> 1..(Len(probes) + 1)] :
            new[len + 2] = j /\ \A k \in 1..(len + 1) : new[k] = cuts[k]
    <3> DEFINE max == Len(probes)
               nc == [k \in 1..(len + 2) |-> IF k <= len + 1 THEN cuts[k] ELSE j]
    <3>1. len \in Nat /\ max \in Nat /\ j \in Nat \ {0} /\ j <= max + 1
        BY <1>3
    <3>2. cuts \in [1..(len + 1) -> 1..(max + 1)]
        BY <2>1
    <3> HIDE DEF len, max
    <3>3. nc \in [1..(len + 2) -> 1..(max + 1)]
        BY <3>1, <3>2
    <3>4. nc[len + 2] = j /\ \A k \in 1..(len + 1) : nc[k] = cuts[k]
        BY <3>1
    <3> HIDE DEF nc
    <3>5. \E new \in [1..(len + 2) -> 1..(max + 1)] :
              new[len + 2] = j /\ \A k \in 1..(len + 1) : new[k] = cuts[k]
        BY <3>3, <3>4, Zenon
    <3> QED BY <3>5 DEF len, max
  <2>3. /\ cuts[1] = 1 /\ cuts[len + 1] = i
        /\ \A k \in 1..len :
              /\ MaximalRun(probes, args.step, cuts[k], cuts[k + 1] - 1)
              /\ Describes(spans[k], probes, size, cuts[k], cuts[k + 1] - 1)
      BY <2>1 DEF Cuts
  <2>4. new[1] = 1 /\ new[len + 1] = i
      BY <1>3, <2>2, <2>3
  <2>5. ASSUME NEW k \in 1..(len + 1)
        PROVE  /\ MaximalRun(probes, args.step, new[k], new[k + 1] - 1)
               /\ Describes(spans'[k], probes, size, new[k], new[k + 1] - 1)
    <3>1. CASE k = len + 1
      <4>1. new[k] = i /\ new[k + 1] = j /\ spans'[k] = span
        <5>1. (len + 1) + 1 = len + 2
            BY <1>3
        <5> QED BY <1>7, <2>2, <2>4, <3>1, <5>1
      <4> QED BY <1>4, <1>6, <4>1
    <3>2. CASE k # len + 1
      <4>1. k \in 1..len /\ k \in 1..(len + 1) /\ k + 1 \in 1..(len + 1)
          BY <1>3, <3>2
      <4>2. new[k] = cuts[k] /\ new[k + 1] = cuts[k + 1] /\ spans'[k] = spans[k]
          BY <1>7, <2>2, <4>1
      <4> QED BY <2>3, <4>1, <4>2
    <3> QED BY <3>1, <3>2
  <2>6. Len(spans') + 1 = len + 2
      BY <1>3, <1>7
  <2>7. out' = out /\ args' = args
      BY <1>1 DEF MergeStep
  <2>8. Cuts(new)'
      BY <1>1, <1>7, <2>2, <2>4, <2>5, <2>6, <2>7 DEF Cuts
  <2> QED BY <2>2, <2>6, <2>7, <2>8 DEF Parted
<1>11. Current'
    BY <1>1, <1>3, <1>5 DEF Current, MergeStep
<1>12. Listed'
  <2>1. /\ Total(byStatus) = len
        /\ \A k \in 1..len :
              \E m \in 1..Len(byStatus[spans[k].status]) :
                  byStatus[spans[k].status][m] = spans[k]
        /\ \A m \in 1..Len(byStatus["success"]) : ReadOK(byStatus["success"][m])
      BY <1>2 DEF Listed
  <2>2. /\ Len(byStatus'[span.status]) = Len(byStatus[span.status]) + 1
        /\ byStatus'[span.status][Len(byStatus[span.status]) + 1] = span
        /\ \A m \in 1..Len(byStatus[span.status]) :
              byStatus'[span.status][m] = byStatus[span.status][m]
      BY <1>3, <1>8, AppendOf
  <2>3. \A t \in ReadStatuses : Len(byStatus[t]) \in Nat
      BY <1>8
  <2>4. ASSUME NEW k \in 1..(len + 1)
        PROVE  \E m \in 1..Len(byStatus'[spans'[k].status]) :
                   byStatus'[spans'[k].status][m] = spans'[k]
    <3>1. CASE k = len + 1
      <4>1. spans'[k] = span
          BY <1>7, <3>1
      <4>2. Len(byStatus[span.status]) + 1 \in 1..Len(byStatus'[span.status])
          BY <1>3, <2>2, <2>3
      <4> QED BY <2>2, <4>1, <4>2
    <3>2. CASE k # len + 1
      <4>1. k \in 1..len
          BY <1>3, <3>2
      <4>2. spans'[k] = spans[k] /\ spans[k] \in Spans
          BY <1>3, <1>7, <4>1
      <4>3. spans[k].status \in ReadStatuses
          BY <4>2 DEF Spans
      <4>4. PICK m \in 1..Len(byStatus[spans[k].status]) : byStatus[spans[k].status][m] = spans[k]
          BY <2>1, <4>1
      <4>5. m \in 1..Len(byStatus'[spans[k].status]) /\ byStatus'[spans[k].status][m] = spans[k]
        <5>1. CASE spans[k].status = span.status
          <6>1. m \in 1..(Len(byStatus[span.status]) + 1) /\ m \in 1..Len(byStatus[span.status])
              BY <2>3, <4>3, <4>4, <5>1
          <6> QED BY <2>2, <4>4, <5>1, <6>1
        <5>2. CASE spans[k].status # span.status
          <6>1. byStatus'[spans[k].status] = byStatus[spans[k].status]
              BY <1>8, <4>3, <5>2
          <6> QED BY <4>4, <6>1
        <5> QED BY <5>1, <5>2
      <4> QED BY <4>2, <4>5
    <3> QED BY <3>1, <3>2
  <2>5. ASSUME NEW m \in 1..Len(byStatus'["success"])
        PROVE  ReadOK(byStatus'["success"][m])
    <3> DEFINE old == Len(byStatus["success"])
    <3>1. "success" \in ReadStatuses /\ old \in Nat
        BY <2>3 DEF ReadStatuses
    <3>2. CASE m \in 1..old
      <4>1. byStatus'["success"][m] = byStatus["success"][m]
          BY <1>8, <2>2, <3>1, <3>2
      <4> QED BY <2>1, <3>2, <4>1
    <3>3. CASE m \notin 1..old
      <4>1. span.status = "success"
          BY <1>8, <3>1, <3>3
      <4>2. m = old + 1
          BY <2>2, <3>1, <3>3, <4>1
      <4> QED BY <1>4, <2>2, <4>1, <4>2
    <3> QED BY <3>2, <3>3
  <2>6. /\ Agreed' = Agreed /\ out' = out /\ args' = args /\ pc' = pc
      BY <1>1 DEF MergeStep, Agreed
  <2>7. Total(byStatus') = Len(spans')
      BY <1>3, <1>7, <1>8, <2>1
  <2> QED BY <1>7, <2>4, <2>5, <2>6, <2>7 DEF Listed, ReadOK, Covered
<1> QED BY <1>1, <1>9, <1>10, <1>11, <1>12, MergeStepIInv

-----------------------------------------------------------------------------
(* The summary. *)

\* Sequence q has element x.
Has(q, x) == \E m \in DOMAIN q : q[m] = x

LEMMA ConcatFacts ==
    ASSUME NEW S, NEW a \in Seq(S), NEW b \in Seq(S)
    PROVE  /\ a \o b \in Seq(S) /\ Len(a \o b) = Len(a) + Len(b)
           /\ Len(a) \in Nat /\ Len(b) \in Nat
           /\ \A x : Has(a, x) \/ Has(b, x) => Has(a \o b, x)
<1>1. /\ a \o b \in Seq(S) /\ Len(a \o b) = Len(a) + Len(b)
      /\ Len(a) \in Nat /\ Len(b) \in Nat
      /\ DOMAIN a = 1..Len(a) /\ DOMAIN b = 1..Len(b) /\ DOMAIN (a \o b) = 1..(Len(a) + Len(b))
      /\ \A k \in 1..Len(a) : (a \o b)[k] = a[k]
      /\ \A k \in 1..Len(b) : (a \o b)[Len(a) + k] = b[k]
    OBVIOUS
<1>2. ASSUME NEW x, Has(a, x) PROVE Has(a \o b, x)
  <2>1. PICK m \in 1..Len(a) : a[m] = x
      BY <1>1, <1>2 DEF Has
  <2>2. m \in 1..(Len(a) + Len(b)) /\ (a \o b)[m] = x
      BY <1>1, <2>1
  <2> QED BY <1>1, <2>2 DEF Has
<1>3. ASSUME NEW x, Has(b, x) PROVE Has(a \o b, x)
  <2>1. PICK m \in 1..Len(b) : b[m] = x
      BY <1>1, <1>3 DEF Has
  <2>2. Len(a) + m \in 1..(Len(a) + Len(b)) /\ (a \o b)[Len(a) + m] = x
      BY <1>1, <2>1
  <2> QED BY <1>1, <2>2 DEF Has
<1> QED BY <1>1, <1>2, <1>3

\* The classes of the summary hold all the spans of byStatus.
LEMMA SummaryFacts ==
    ASSUME NEW f \in [ReadStatuses -> Seq(Spans)], NEW s, s = SummaryOf(f)
    PROVE  LET listed == s.readable \o s.empty \o s.inconclusive \o s.failed IN
           /\ s \in Summaries /\ s.readable = f["success"]
           /\ Len(listed) = Total(f)
           /\ \A x : \A t \in ReadStatuses : Has(f[t], x) => Has(listed, x)
<1> DEFINE f1 == f["rejected"] \o f["timeout"]
           f2 == f1 \o f["transport-error"]
           f3 == f2 \o f["protocol-error"]
           f4 == f3 \o f["short-read"]
           l1 == f["success"] \o f["empty-read"]
           l2 == l1 \o f["inconclusive"]
           l3 == l2 \o f4
<1>1. /\ s.readable = f["success"] /\ s.empty = f["empty-read"]
      /\ s.inconclusive = f["inconclusive"] /\ s.failed = f4
      /\ s = [readable |-> f["success"], empty |-> f["empty-read"],
              inconclusive |-> f["inconclusive"], failed |-> f4]
    BY DEF SummaryOf
<1>2. /\ f["success"] \in Seq(Spans) /\ f["empty-read"] \in Seq(Spans)
      /\ f["inconclusive"] \in Seq(Spans) /\ f["rejected"] \in Seq(Spans)
      /\ f["timeout"] \in Seq(Spans) /\ f["transport-error"] \in Seq(Spans)
      /\ f["protocol-error"] \in Seq(Spans) /\ f["short-read"] \in Seq(Spans)
    BY DEF ReadStatuses
<1>3. /\ f1 \in Seq(Spans) /\ Len(f1) = Len(f["rejected"]) + Len(f["timeout"])
      /\ Len(f["rejected"]) \in Nat /\ Len(f["timeout"]) \in Nat
      /\ \A x : Has(f["rejected"], x) \/ Has(f["timeout"], x) => Has(f1, x)
    BY <1>2, ConcatFacts
<1> HIDE DEF f1
<1>4. /\ f2 \in Seq(Spans) /\ Len(f2) = Len(f1) + Len(f["transport-error"])
      /\ Len(f["transport-error"]) \in Nat
      /\ \A x : Has(f1, x) \/ Has(f["transport-error"], x) => Has(f2, x)
    BY <1>2, <1>3, ConcatFacts
<1> HIDE DEF f2
<1>5. /\ f3 \in Seq(Spans) /\ Len(f3) = Len(f2) + Len(f["protocol-error"])
      /\ Len(f["protocol-error"]) \in Nat
      /\ \A x : Has(f2, x) \/ Has(f["protocol-error"], x) => Has(f3, x)
    BY <1>2, <1>4, ConcatFacts
<1> HIDE DEF f3
<1>6. /\ f4 \in Seq(Spans) /\ Len(f4) = Len(f3) + Len(f["short-read"])
      /\ Len(f["short-read"]) \in Nat
      /\ \A x : Has(f3, x) \/ Has(f["short-read"], x) => Has(f4, x)
    BY <1>2, <1>5, ConcatFacts
<1> HIDE DEF f4
<1>7. /\ l1 \in Seq(Spans) /\ Len(l1) = Len(f["success"]) + Len(f["empty-read"])
      /\ Len(f["success"]) \in Nat /\ Len(f["empty-read"]) \in Nat
      /\ \A x : Has(f["success"], x) \/ Has(f["empty-read"], x) => Has(l1, x)
    BY <1>2, ConcatFacts
<1> HIDE DEF l1
<1>8. /\ l2 \in Seq(Spans) /\ Len(l2) = Len(l1) + Len(f["inconclusive"])
      /\ Len(f["inconclusive"]) \in Nat
      /\ \A x : Has(l1, x) \/ Has(f["inconclusive"], x) => Has(l2, x)
    BY <1>2, <1>7, ConcatFacts
<1> HIDE DEF l2
<1>9. /\ l3 \in Seq(Spans) /\ Len(l3) = Len(l2) + Len(f4)
      /\ \A x : Has(l2, x) \/ Has(f4, x) => Has(l3, x)
    BY <1>6, <1>8, ConcatFacts
<1>10. s.readable \o s.empty \o s.inconclusive \o s.failed = l3
    BY <1>1 DEF l1, l2
<1> HIDE DEF l3
<1>11. Len(l3) = Total(f)
  <2>1. /\ Len(f1) = Len(f["rejected"]) + Len(f["timeout"])
        /\ Len(f2) = Len(f1) + Len(f["transport-error"])
        /\ Len(f3) = Len(f2) + Len(f["protocol-error"])
        /\ Len(f4) = Len(f3) + Len(f["short-read"])
        /\ Len(l1) = Len(f["success"]) + Len(f["empty-read"])
        /\ Len(l2) = Len(l1) + Len(f["inconclusive"])
        /\ Len(l3) = Len(l2) + Len(f4)
      BY <1>3, <1>4, <1>5, <1>6, <1>7, <1>8, <1>9
  <2>2. /\ Len(f["rejected"]) \in Nat /\ Len(f["timeout"]) \in Nat
        /\ Len(f["transport-error"]) \in Nat /\ Len(f["protocol-error"]) \in Nat
        /\ Len(f["short-read"]) \in Nat /\ Len(f["success"]) \in Nat
        /\ Len(f["empty-read"]) \in Nat /\ Len(f["inconclusive"]) \in Nat
      BY <1>3, <1>4, <1>5, <1>6, <1>7, <1>8
  <2> DEFINE a == Len(f["success"])
             b == Len(f["empty-read"])
             c == Len(f["inconclusive"])
             d == Len(f["rejected"])
             e == Len(f["timeout"])
             h == Len(f["transport-error"])
             p == Len(f["protocol-error"])
             q == Len(f["short-read"])
  <2>3. Len(l3) = ((a + b) + c) + ((((d + e) + h) + p) + q)
      BY <2>1
  <2>4. Total(f) = a + b + c + d + e + h + p + q
      BY DEF Total
  <2>5. /\ a \in Nat /\ b \in Nat /\ c \in Nat /\ d \in Nat
        /\ e \in Nat /\ h \in Nat /\ p \in Nat /\ q \in Nat
      BY <2>2
  <2> HIDE DEF a, b, c, d, e, h, p, q
  <2> QED BY <2>3, <2>4, <2>5
<1>12. \A x : \A t \in ReadStatuses : Has(f[t], x) => Has(l3, x)
    BY <1>3, <1>4, <1>5, <1>6, <1>7, <1>8, <1>9, Zenon DEF ReadStatuses
<1>13. s \in Summaries
    BY <1>1, <1>2, <1>6 DEF Summaries
<1> QED BY <1>1, <1>10, <1>11, <1>12, <1>13

\* The result is complete when the last run is.
LEMMA ReturnIInv ==
    ASSUME IInv, Return
    PROVE  IInv'
<1>1. /\ Merging /\ i = j /\ i > Len(out.probes)
      /\ out' = [out EXCEPT !.spans = spans, !.summary = SummaryOf(byStatus)]
      /\ pc' = IF pc = "merge" THEN "done" ELSE "called"
      /\ UNCHANGED <<req, connected, ctx, n, phase, repeated, attempts, observations, cut, err,
                     args, i, j, span, spans, byStatus>>
    BY DEF Return, probeVars, mergeVars
<1>2. Offsets' = Offsets /\ Repeat(req)' = Repeat(req)
    BY <1>1, OffsetsFixed
<1>3. /\ MergeTypeOK /\ Parted /\ Listed /\ err = "nil"
      /\ pc = "merge" => out.probes = observations /\ Len(observations) = Len(Offsets)
    BY <1>1 DEF IInv, TypeOK, Told, Joined
<1>4. out \in [probes : Seq(Observations), spans : Seq(Spans), summary : Summaries]
    BY <1>3 DEF MergeTypeOK
<1>5. /\ out'.probes = out.probes /\ out'.spans = spans /\ out'.summary = SummaryOf(byStatus)
    BY <1>1, <1>4
<1>6. /\ byStatus \in [ReadStatuses -> Seq(Spans)] /\ spans \in Seq(Spans)
      /\ Len(out.probes) \in Nat /\ i = Len(out.probes) + 1 /\ Len(spans) \in Nat
    BY <1>1, <1>3, MergeFacts DEF MergeTypeOK
<1> DEFINE s == out'.summary
           listed == s.readable \o s.empty \o s.inconclusive \o s.failed
<1>7. /\ s \in Summaries /\ s.readable = byStatus["success"] /\ Len(listed) = Total(byStatus)
      /\ \A x : \A t \in ReadStatuses : Has(byStatus[t], x) => Has(listed, x)
    BY <1>5, <1>6, SummaryFacts
<1>8. MergeTypeOK'
  <2>1. out' \in [probes : Seq(Observations), spans : Seq(Spans), summary : Summaries]
      BY <1>1, <1>4, <1>5, <1>6, <1>7
  <2> QED BY <1>1, <1>3, <1>5, <2>1 DEF MergeTypeOK
<1>9. TypeOK'
    BY <1>1, <1>2, <1>8 DEF IInv, TypeOK
<1>10. pc \in {"merge", "mergeCall"} /\ pc' \in {"done", "called"} /\ (pc' = "done" => pc = "merge")
    BY <1>1 DEF Merging
<1>11. InOrder' /\ Fresh' /\ Probing'
    BY <1>1, <1>2, <1>10 DEF IInv, Scanning, InOrder, Fresh, Probing
<1>12. CutIsLast' /\ StableIfRepeated' /\ ObservationIsHonest'
    BY <1>1, <1>2, <1>10
    DEF IInv, Scanning, CutIsLast, StableIfRepeated, Agreed, ObservationIsHonest
<1>13. CompleteUnlessError'
  <2> SUFFICES ASSUME pc = "merge"
               PROVE  /\ Len(out.probes) = Len(Offsets)
                      /\ \A k \in DOMAIN Offsets : out.probes[k].offset = Offsets[k]
                      /\ cut \subseteq {Len(Offsets)}
      BY <1>1, <1>2, <1>3, <1>5, <1>10 DEF CompleteUnlessError
  <2>1. DOMAIN Offsets = 1..Len(Offsets)
      BY TypeFacts DEF IInv
  <2> QED BY <1>3, <2>1 DEF IInv, Scanning, InOrder, CutIsLast
<1>14. SpansAreMaximalRuns'
  <2>1. PICK cuts \in [1..(Len(spans) + 1) -> 1..(Len(out.probes) + 1)] : Cuts(cuts)
      BY <1>3 DEF Parted
  <2>2. /\ cuts[1] = 1 /\ cuts[Len(spans) + 1] = Len(out.probes) + 1
        /\ \A k \in 1..Len(spans) :
              /\ MaximalRun(out.probes, args.step, cuts[k], cuts[k + 1] - 1)
              /\ Describes(spans[k], out.probes, args.probeSize, cuts[k], cuts[k + 1] - 1)
      BY <1>6, <2>1 DEF Cuts
  <2>3. Len(listed) = Len(spans)
      BY <1>3, <1>7 DEF Listed
  <2>4. ASSUME NEW k \in 1..Len(spans) PROVE \E m \in DOMAIN listed : listed[m] = spans[k]
    <3>1. spans[k].status \in ReadStatuses
      <4>1. spans[k] \in Spans
          BY <1>6
      <4> QED BY <4>1 DEF Spans
    <3>2. byStatus[spans[k].status] \in Seq(Spans)
        BY <1>6, <3>1
    <3>3. DOMAIN byStatus[spans[k].status] = 1..Len(byStatus[spans[k].status])
        BY <3>2
    <3>4. Has(byStatus[spans[k].status], spans[k])
        BY <1>3, <3>3 DEF Listed, Has
    <3> QED BY <1>7, <3>1, <3>4 DEF Has
  <2>5. args' = args /\ out'.probes = out.probes /\ out'.spans = spans
      BY <1>1, <1>5
  <2>6. \E c \in [1..(Len(spans) + 1) -> 1..(Len(out.probes) + 1)] :
            /\ c[1] = 1
            /\ c[Len(spans) + 1] = Len(out.probes) + 1
            /\ \A k \in 1..Len(spans) :
                  /\ MaximalRun(out.probes, args.step, c[k], c[k + 1] - 1)
                  /\ Describes(spans[k], out.probes, args.probeSize, c[k], c[k + 1] - 1)
      BY <2>1, <2>2, Zenon
  <2> QED BY <2>3, <2>4, <2>5, <2>6, Zenon DEF SpansAreMaximalRuns
<1>15. ReadableWasRead'
  <2>1. DOMAIN byStatus["success"] = 1..Len(byStatus["success"])
      BY <1>6 DEF ReadStatuses
  <2>2. \A k \in DOMAIN byStatus["success"] : ReadOK(byStatus["success"][k])
      BY <1>3, <2>1 DEF Listed
  <2> QED BY <1>1, <1>2, <1>5, <1>7, <1>10, <2>2 DEF ReadableWasRead, ReadOK, Covered, Agreed
<1>16. Untold' /\ Joined'
    BY <1>10 DEF Untold, Joined, Merging, Over
<1> QED BY <1>9, <1>11, <1>12, <1>13, <1>14, <1>15, <1>16 DEF IInv, Scanning, Told

LEMMA StutterIInv ==
    ASSUME IInv, UNCHANGED vars
    PROVE  IInv'
<1> USE DEF vars, probeVars, resultVars, mergeVars
<1>1. Offsets' = Offsets /\ Repeat(req)' = Repeat(req)
    BY OffsetsFixed
<1>2. TypeOK'
    BY <1>1 DEF IInv, TypeOK, MergeTypeOK
<1>3. InOrder' /\ Fresh'
    BY <1>1 DEF IInv, Scanning, InOrder, Fresh
<1>4. Probing'
    BY <1>1 DEF IInv, Scanning, Probing, Got, Wanted
<1>5. CutIsLast' /\ StableIfRepeated'
    BY <1>1 DEF IInv, Scanning, CutIsLast, StableIfRepeated, Agreed
<1>6. ObservationIsHonest'
    BY DEF IInv, Scanning, ObservationIsHonest
<1>7. CompleteUnlessError'
    BY <1>1 DEF IInv, Scanning, CompleteUnlessError, EmptyOut
<1>8. Untold'
    BY DEF IInv, Told, Untold, EmptyOut, Merging, Over
<1>9. Joined'
  <2>1. Parted' = Parted
      BY DEF Parted, Cuts
  <2>2. Current' = Current /\ Listed' = Listed
      BY DEF Current, Listed, ReadOK, Covered, Agreed
  <2> QED BY <1>1, <2>1, <2>2 DEF IInv, Told, Joined, Merging
<1>10. SpansAreMaximalRuns'
    BY DEF IInv, Told, SpansAreMaximalRuns, Over
<1>11. ReadableWasRead'
    BY <1>1 DEF IInv, Told, ReadableWasRead
<1> QED BY <1>2, <1>3, <1>4, <1>5, <1>6, <1>7, <1>8, <1>9, <1>10, <1>11
        DEF IInv, Scanning, Told

LEMMA NextIInv == IInv /\ [Next]_vars => IInv'
<1> SUFFICES ASSUME IInv, [Next]_vars PROVE IInv'
    OBVIOUS
<1>1. CASE Start \/ NotConnected
    BY <1>1, StartIInv
<1>2. CASE NextOffset
    BY <1>2, NextOffsetIInv
<1>3. CASE ScanCancelled
    BY <1>3, ScanCancelledIInv
<1>4. CASE ScanDone
    BY <1>4, ScanDoneIInv
<1>5. CASE Check \/ Paused \/ StartRetries
    BY <1>5, BetweenReadsIInv
<1>6. CASE ProbeCancelled
    BY <1>6, ProbeCancelledIInv
<1>7. CASE RepeatsDone \/ RetriesDone
    BY <1>7, ProbeDoneIInv
<1>8. CASE \E r \in Results : ReadArea(r)
    BY <1>8, ReadAreaIInv
<1>9. CASE \E c \in Calls : CallConsolidateSpans(c)
    BY <1>9, CallConsolidateSpansIInv
<1>10. CASE (\E reason \in {"canceled", "deadline"} : ContextDone(reason))
           \/ Disconnect \/ Reconnect
    BY <1>10, OutsideIInv
<1>11. CASE BeginSpan
    BY <1>11, BeginSpanIInv
<1>12. CASE ExtendSpan
    BY <1>12, ExtendSpanIInv
<1>13. CASE EndSpan
    BY <1>13, EndSpanIInv
<1>14. CASE Return
    BY <1>14, ReturnIInv
<1>15. CASE UNCHANGED vars
    BY <1>15, StutterIInv
<1> QED
    BY <1>1, <1>2, <1>3, <1>4, <1>5, <1>6, <1>7, <1>8, <1>9, <1>10, <1>11, <1>12, <1>13,
       <1>14, <1>15
    DEF Next, Scan

-----------------------------------------------------------------------------
(* The theorems. *)

\* The inductive invariant of a range scan holds in every reachable state,
\* whatever the reads return and whenever the context ends or the client is
\* closed.
THEOREM RangeInvariance == Spec => []IInv
BY InitIInv, NextIInv, PTL DEF Spec

\* A scan that ends without an error has an observation for every offset of its
\* range, in order, and only the last may have been cut short; one with an error
\* reports nothing (rangescan.go, the loop of ProbeReadableRanges).
THEOREM RangeComplete == Spec => []CompleteUnlessError
<1>1. IInv => CompleteUnlessError
    BY DEF IInv, Scanning
<1> QED BY <1>1, RangeInvariance, PTL

\* An observation is a success only if all its repeats were, with the same data,
\* and its retries agree; it is all zero only if it is stable (probeOneOffset).
THEOREM RangeHonest == Spec => []ObservationIsHonest
<1>1. IInv => ObservationIsHonest
    BY DEF IInv, Scanning
<1> QED BY <1>1, RangeInvariance, PTL

\* The spans of every result are the maximal runs of its probes, in order and
\* without a gap, with the flags their probes agree on, and each is in one class
\* of the summary: for any observations, whether a scan has made them or the
\* caller (ConsolidateSpans, rangescan.go).
THEOREM RangeSpans == Spec => []SpansAreMaximalRuns
<1>1. IInv => SpansAreMaximalRuns
    BY DEF IInv, Told
<1> QED BY <1>1, RangeInvariance, PTL

\* Every byte of a span that is reported readable belongs to a probe that
\* succeeded, if the probes leave no gaps, and the repeats of its probes agreed
\* (ConsolidateSpans and probeOneOffset together).
THEOREM RangeReadable == Spec => []ReadableWasRead
<1>1. IInv => ReadableWasRead
    BY DEF IInv, Told
<1> QED BY <1>1, RangeInvariance, PTL

=============================================================================
