------------------------ MODULE ProbeRackSlotsProofs ------------------------
(***************************************************************************)
(* Proofs about ProbeRackSlots, for any set of requests, any failures and   *)
(* any answers of the device: IInv is inductive, the safety properties      *)
(* follow from it, and ProbeRackSlots implements Pool.                      *)
(*                                                                         *)
(* What a goroutine does on the network changes only what belongs to it:    *)
(* ProbeStep says so once, for all stages and queries.                      *)
(***************************************************************************)
EXTENDS ProbeRackSlots, FiniteSetTheorems, SequenceTheorems, TLAPS

\* Where a goroutine is while probeOne runs.
Busy == {"dial", "cotp", "setup", "query", "dialWait", "cotpWait", "setupWait",
         "queryWait"}

\* The goroutines that hold an element of sem.
Active == {k \in Jobs : at[k] \notin {"none", "over"}}

\* The goroutines launched are those up to the loop's position, and the loop
\* does not go beyond the attempts allowed.
Launched ==
    /\ i <= MaxJobs(req)
    /\ main = "acquire" => i < MaxJobs(req)
    /\ \A k \in Jobs : at[k] = "none" <=> k > i

\* sem and the wait group count the same goroutines.
Counted == sem = Cardinality(Active) /\ wg = Cardinality(Active)

\* Only an answer of the device confirms candidate c of goroutine k.
Confirmed(k, c) ==
    /\ c.status = "valid-query" <=> c.confirmedBy # ""
    /\ c.status = "valid-query" => answered[k] # {}

\* What holds of one goroutine: its candidate is zero until it stores it, its
\* connection is open only while probeOne runs, and every good answer that is
\* still to be read has been given.
ProbeOf(k) ==
    /\ at[k] \in Busy \cup {"none", "store"} => candidates[k] = ZeroCandidate
    /\ at[k] = "store" => res[k].status # "" /\ Confirmed(k, res[k])
    /\ at[k] \in {"release", "over"} => candidates[k].status # ""
    /\ Confirmed(k, candidates[k])
    /\ open[k] => at[k] \in Busy
    /\ at[k] = "queryWait" => tries[k] # <<>>
    /\ \A n \in 1..Len(inbox[k]) : inbox[k][n].kind = "ok" => answered[k] # {}

Probes == \A k \in Jobs : ProbeOf(k)

Found == req.stop /\ \E k \in Jobs : candidates[k].status \in ValidStatus(req)

\* probeCtx is done because the caller's context is, or because a candidate
\* that ends the probe is stored.
Stopped ==
    /\ outer # "live" => ctx # "live"
    /\ ctx # "live" /\ outer = "live" => Found
    /\ main \in {"wait", "done"} => i = MaxJobs(req) \/ ctx # "live"
    /\ main = "done" => wg = 0

\* The loop looks at probeCtx between two launches.
LateBound ==
    /\ late <= 1
    /\ main = "acquire" => late = 0
    /\ late # 0 => ctx # "live"

\* The inductive invariant.
IInv == TypeOK /\ Launched /\ Counted /\ Probes /\ Stopped /\ LateBound

-----------------------------------------------------------------------------
(* Facts about the requests and the sets. *)

\* The types of a request's fields, after applyProbeDefaults too.
LEMMA RequestFacts ==
    ASSUME NEW r \in {applyProbeDefaults(q) : q \in Requests}
    PROVE  /\ r.strict \in BOOLEAN /\ r.stop \in BOOLEAN
           /\ r.confirm \in Confirms
           /\ r.jobs \in Nat \ {0} /\ r.parallelism \in Nat \ {0}
           /\ MaxJobs(r) \in 1..r.jobs
           /\ 1..r.jobs \subseteq Tasks
<1>1. PICK q \in Requests : r = applyProbeDefaults(q)
    OBVIOUS
<1>2. q \in [strict : BOOLEAN, confirm : Confirms, stop : BOOLEAN,
              jobs : Nat \ {0}, maxAttempts : Nat, parallelism : Nat \ {0}]
    BY ProbeAssumption
<1>3. /\ r.strict = q.strict /\ r.stop = q.stop /\ r.jobs = q.jobs
      /\ r.maxAttempts = q.maxAttempts /\ r.parallelism = q.parallelism
      /\ r.confirm \in Confirms
    BY <1>1, <1>2 DEF applyProbeDefaults, Confirms
<1>4. MaxJobs(r) \in 1..r.jobs
    BY <1>2, <1>3 DEF MaxJobs
<1>5. 1..r.jobs \subseteq Tasks
    BY <1>3 DEF Tasks
<1> QED BY <1>2, <1>3, <1>4, <1>5

\* The jobs are counted.
LEMMA JobsFinite ==
    ASSUME NEW n \in Nat \ {0}
    PROVE  IsFiniteSet(1..n) /\ Cardinality(1..n) = n
<1>1. IsFiniteSet(1..n) /\ Cardinality(1..n) = IF 1 > n THEN 0 ELSE n - 1 + 1
    BY FS_Interval
<1> QED BY <1>1

\* There are as many jobs as the request says, and finitely many active ones.
LEMMA ActiveFinite ==
    ASSUME TypeOK
    PROVE  /\ Active \subseteq Jobs
           /\ IsFiniteSet(Active)
           /\ Cardinality(Active) \in 0..req.jobs
<1>1. req.jobs \in Nat \ {0}
    BY RequestFacts DEF TypeOK
<1>2. IsFiniteSet(Jobs) /\ Cardinality(Jobs) = req.jobs
    BY <1>1, JobsFinite DEF Jobs
<1>3. Active \subseteq Jobs
    BY DEF Active
<1>4. IsFiniteSet(Active) /\ Cardinality(Active) <= Cardinality(Jobs)
    BY <1>2, <1>3, FS_Subset
<1>5. Cardinality(Active) \in Nat
    BY <1>4, FS_CardinalityType
<1> QED BY <1>1, <1>2, <1>3, <1>4, <1>5

\* The queries of a strategy are queries.
LEMMA StrategiesType ==
    ASSUME NEW confirm \in Confirms
    PROVE  Strategies(confirm) \in Seq(Queries)
<1>1. <<>> \in Seq(Queries) /\ <<"szl">> \in Seq(Queries) /\ <<"cpu-state">> \in Seq(Queries)
    BY DEF Queries
<1>2. <<"szl", "cpu-state", "any">> \in Seq(Queries)
    BY DEF Queries
<1>3. confirm \in {"szl", "cpu-state", "any", "", "none"}
    BY DEF Confirms
<1> QED BY <1>1, <1>2, <1>3 DEF Strategies

\* The empty sequence has no positions.
LEMMA NoPosition == 1..Len(<<>>) = {}
OBVIOUS

\* A zero candidate is not confirmed.
LEMMA ZeroFacts ==
    /\ ZeroCandidate \in Candidates
    /\ ZeroCandidate.status = "" /\ ZeroCandidate.confirmedBy = ""
    /\ \A k : Confirmed(k, ZeroCandidate)
BY DEF ZeroCandidate, Candidates, Confirmed

-----------------------------------------------------------------------------
(* IInv is inductive. *)

LEMMA InitIInv == Init => IInv
<1> SUFFICES ASSUME Init PROVE IInv
    OBVIOUS
<1> USE DEF Init
<1>1. /\ req.jobs \in Nat \ {0} /\ req.parallelism \in Nat \ {0}
      /\ MaxJobs(req) \in 1..req.jobs
    BY RequestFacts
<1>2. TypeOK
  <2>1. i \in 0..req.jobs /\ sem \in 0..req.parallelism /\ wg \in 0..req.jobs
        /\ late \in 0..req.jobs
      BY <1>1
  <2>2. at \in [Jobs -> Points] /\ open \in [Jobs -> BOOLEAN]
      BY DEF Points
  <2>3. res \in [Jobs -> Candidates] /\ candidates \in [Jobs -> Candidates]
      BY ZeroFacts
  <2>4. /\ tries \in [Jobs -> Seq(Queries)] /\ sent \in [Jobs -> Seq(Queries)]
        /\ inbox \in [Jobs -> Seq([to : Queries, kind : {"ok", "bad"}])]
      OBVIOUS
  <2>5. answered \in [Jobs -> SUBSET Queries]
      OBVIOUS
  <2> QED BY <2>1, <2>2, <2>3, <2>4, <2>5, Zenon DEF TypeOK
<1>3. Launched
    BY <1>1 DEF Launched, Jobs
<1>4. Counted
  <2>1. Active = {}
      BY DEF Active
  <2> QED BY <2>1, FS_EmptySet DEF Counted
<1>5. Probes
  <2> SUFFICES ASSUME NEW k \in Jobs PROVE ProbeOf(k)
      BY DEF Probes
  <2>1. at[k] = "none" /\ candidates[k] = ZeroCandidate /\ inbox[k] = <<>> /\ ~open[k]
      OBVIOUS
  <2> HIDE DEF Init
  <2> QED BY <2>1, NoPosition, ZeroFacts DEF ProbeOf
<1>6. Stopped /\ LateBound
    BY DEF Stopped, LateBound
<1> QED BY <1>2, <1>3, <1>4, <1>5, <1>6 DEF IInv

\* A step that keeps the goroutines keeps what is said of them.
LEMMA SameGoroutines ==
    ASSUME IInv, UNCHANGED <<req, i, runVars, at, open, tries, res, candidates, netVars>>,
           main' = "acquire" => i < MaxJobs(req)
    PROVE  Launched' /\ Counted' /\ Probes' /\ Found' = Found
<1> USE DEF IInv, runVars, netVars
<1>1. Jobs' = Jobs /\ MaxJobs(req)' = MaxJobs(req)
    BY DEF Jobs, MaxJobs
<1>2. Launched'
    BY <1>1 DEF Launched
<1>3. Active' = Active
    BY <1>1 DEF Active
<1>4. Counted'
    BY <1>3 DEF Counted
<1>5. Probes'
    BY <1>1 DEF Probes, ProbeOf, Confirmed
<1>6. Found' = Found
    BY <1>1 DEF Found, ValidStatus
<1> QED BY <1>2, <1>4, <1>5, <1>6

\* Leaving the loop, starting an iteration and returning move main only.
LEMMA LoopMovesIInv ==
    ASSUME IInv, LeaveLoop \/ StartIteration \/ Wait
    PROVE  IInv'
<1> USE DEF IInv
<1>1. UNCHANGED <<req, i, late, outer, ctx, runVars, at, open, tries, res, candidates, netVars>>
    BY DEF LeaveLoop, StartIteration, Wait
<1>2. main' = "acquire" => i < MaxJobs(req)
    BY DEF LeaveLoop, StartIteration, Wait
<1>3. Launched' /\ Counted' /\ Probes' /\ Found' = Found
    BY <1>1, <1>2, SameGoroutines
<1>4. MaxJobs(req)' = MaxJobs(req) /\ Jobs' = Jobs
    BY <1>1 DEF MaxJobs, Jobs
<1>5. TypeOK'
  <2>1. main' \in {"top", "acquire", "wait", "done"}
      BY DEF LeaveLoop, StartIteration, Wait
  <2> QED BY <1>1, <1>4, <2>1 DEF TypeOK, runVars, netVars
<1>6. Stopped'
    BY <1>1, <1>3, <1>4 DEF LeaveLoop, StartIteration, Wait, Stopped, runVars, TypeOK
<1>7. LateBound'
    BY <1>1 DEF LeaveLoop, StartIteration, Wait, LateBound
<1> QED BY <1>3, <1>5, <1>6, <1>7

\* The caller's context ends probeCtx with it.
LEMMA ContextDoneIInv ==
    ASSUME IInv, ContextDone
    PROVE  IInv'
<1> USE DEF IInv, ContextDone, loopVars
<1>1. Launched' /\ Counted' /\ Probes' /\ Found' = Found
  <2>1. main' = "acquire" => i < MaxJobs(req)
      BY DEF Launched
  <2> QED BY <2>1, SameGoroutines
<1>2. MaxJobs(req)' = MaxJobs(req) /\ Jobs' = Jobs
    BY DEF MaxJobs, Jobs
<1>3. TypeOK'
  <2>1. ctx' \in {"live", "canceled", "deadline"}
      BY DEF TypeOK
  <2> QED BY <1>2, <2>1 DEF TypeOK, runVars, netVars
<1>4. ctx' # "live" /\ outer' # "live"
    BY DEF TypeOK
<1>5. Stopped'
    BY <1>2, <1>4 DEF Stopped, runVars
<1>6. LateBound'
    BY <1>4 DEF LateBound
<1> QED BY <1>1, <1>3, <1>5, <1>6

\* A launch takes an element of sem for the next job.
LEMMA LaunchIInv ==
    ASSUME IInv, Launch
    PROVE  IInv'
<1> USE DEF IInv, Launch
<1>1. /\ req.jobs \in Nat \ {0} /\ req.parallelism \in Nat \ {0}
      /\ MaxJobs(req) \in 1..req.jobs
    BY RequestFacts DEF TypeOK
<1>2. i \in Nat /\ i < MaxJobs(req)
    BY <1>1 DEF Launched, TypeOK
<1>3. i + 1 \in Jobs
    BY <1>1, <1>2 DEF Jobs
<1>4. at[i + 1] = "none"
    BY <1>2, <1>3 DEF Launched
<1>5. at'[i + 1] = "dial" /\ \A k \in Jobs \ {i + 1} : at'[k] = at[k]
    BY <1>3 DEF TypeOK, Goto
<1>6. Jobs' = Jobs /\ MaxJobs(req)' = MaxJobs(req)
    BY DEF Jobs, MaxJobs
<1>7. Counted'
  <2>1. i + 1 \notin Active
      BY <1>4 DEF Active
  <2>2. Active' = Active \cup {i + 1}
      BY <1>3, <1>5, <1>6 DEF Active
  <2> QED BY <2>1, <2>2, ActiveFinite, FS_AddElement DEF Counted
<1>8. TypeOK'
  <2>1. i' \in 0..req'.jobs
      BY <1>1, <1>2
  <2>2. at' \in [Jobs' -> Points]
      BY <1>6 DEF TypeOK, Goto, Points
  <2>3. sem' \in 0..req'.parallelism
      BY <1>1 DEF TypeOK
  <2>4. wg' \in 0..req'.jobs
    <3>1. Active' \subseteq 1..req.jobs
        BY <1>6 DEF Active, Jobs
    <3>2. IsFiniteSet(1..req.jobs) /\ Cardinality(1..req.jobs) = req.jobs
        BY <1>1, JobsFinite
    <3>3. Cardinality(Active') <= Cardinality(1..req.jobs)
        BY <3>1, <3>2, FS_Subset, Zenon
    <3> QED BY <1>1, <1>7, <3>2, <3>3 DEF Counted, TypeOK
  <2>5. late' \in 0..req'.jobs
      BY <1>1 DEF TypeOK, LateBound
  <2> QED BY <1>6, <2>1, <2>2, <2>3, <2>4, <2>5 DEF TypeOK, netVars
<1>9. Launched'
  <2> SUFFICES ASSUME NEW k \in Jobs PROVE at'[k] = "none" <=> k > i'
      BY <1>1, <1>2, <1>6 DEF Launched
  <2>1. k \in Nat
      BY DEF Jobs
  <2> QED BY <1>2, <1>5, <2>1 DEF Launched
<1>10. Probes'
  <2> SUFFICES ASSUME NEW k \in Jobs PROVE ProbeOf(k)'
      BY <1>6 DEF Probes
  <2>1. ProbeOf(k)
      BY DEF Probes
  <2>2. CASE k = i + 1
      BY <1>4, <1>5, <2>1, <2>2 DEF ProbeOf, Confirmed, netVars, Busy
  <2>3. CASE k # i + 1
      BY <1>5, <2>1, <2>3 DEF ProbeOf, Confirmed, netVars
  <2> QED BY <2>2, <2>3
<1>11. Stopped'
  <2>1. Found' = Found
      BY <1>6 DEF Found, ValidStatus
  <2> QED BY <2>1 DEF Stopped
<1>12. LateBound'
    BY DEF LateBound, TypeOK
<1> QED BY <1>7, <1>8, <1>9, <1>10, <1>11, <1>12

\* What a running probe and its device do: the goroutine stays in probeOne or
\* leaves it, and only what belongs to it changes.
LEMMA ProbeStep ==
    ASSUME IInv, NEW k \in Jobs, NEW l \in Busy \cup {"store"},
           at[k] \in Busy, at' = [at EXCEPT ![k] = l],
           UNCHANGED <<loopVars, outer, ctx, runVars, candidates>>,
           open' \in [Jobs -> BOOLEAN],
           tries' \in [Jobs -> Seq(Queries)],
           res' \in [Jobs -> Candidates],
           sent' \in [Jobs -> Seq(Queries)],
           inbox' \in [Jobs -> Seq([to : Queries, kind : {"ok", "bad"}])],
           answered' \in [Jobs -> SUBSET Queries],
           \A j \in Jobs \ {k} : /\ open'[j] = open[j] /\ tries'[j] = tries[j]
                                 /\ res'[j] = res[j] /\ inbox'[j] = inbox[j]
                                 /\ answered'[j] = answered[j],
           l = "store" => /\ res'[k].status # "" /\ Confirmed(k, res[k])'
                          /\ ~open'[k],
           l = "queryWait" => tries'[k] # <<>>,
           \A n \in 1..Len(inbox'[k]) : inbox'[k][n].kind = "ok" => answered'[k] # {}
    PROVE  IInv'
<1> USE DEF IInv, loopVars, runVars
<1>1. at'[k] = l /\ \A j \in Jobs \ {k} : at'[j] = at[j]
    BY DEF TypeOK
<1>2. Jobs' = Jobs /\ MaxJobs(req)' = MaxJobs(req)
    BY DEF Jobs, MaxJobs
<1>3. TypeOK'
  <2>1. at' \in [Jobs -> Points]
      BY DEF TypeOK, Busy, Points
  <2> QED BY <1>2, <2>1 DEF TypeOK
<1>4. Launched'
  <2>1. at[k] # "none" /\ l # "none"
      BY DEF Busy
  <2> QED BY <1>1, <1>2, <2>1 DEF Launched
<1>5. Counted'
  <2>1. Active' = Active
      BY <1>1, <1>2 DEF Active, Busy
  <2> QED BY <2>1 DEF Counted
<1>6. Probes'
  <2> SUFFICES ASSUME NEW j \in Jobs PROVE ProbeOf(j)'
      BY <1>2 DEF Probes
  <2>1. ProbeOf(j)
      BY DEF Probes
  <2>2. CASE j = k
    <3>1. candidates'[k] = ZeroCandidate
        BY <2>1, <2>2 DEF ProbeOf
    <3>2. candidates'[k].status = "" /\ candidates'[k].confirmedBy = ""
        BY <3>1, ZeroFacts
    <3> HIDE DEF IInv
    <3>3. Confirmed(k, candidates[k])'
        BY <3>2 DEF Confirmed
    <3>4. open'[k] => l \in Busy
        OBVIOUS
    <3>5. l \notin {"release", "over"}
        BY DEF Busy
    <3> QED BY <1>1, <2>2, <3>1, <3>3, <3>4, <3>5 DEF ProbeOf
  <2>3. CASE j # k
      BY <1>1, <2>1, <2>3 DEF ProbeOf, Confirmed
  <2> QED BY <2>2, <2>3
<1>7. Stopped'
  <2>1. Found' = Found
      BY <1>2 DEF Found, ValidStatus
  <2> QED BY <1>2, <2>1 DEF Stopped
<1>8. LateBound'
    BY DEF LateBound
<1> QED BY <1>3, <1>4, <1>5, <1>6, <1>7, <1>8

\* What the goroutine and the connection of k are before a step of its probe.
LEMMA Own ==
    ASSUME IInv, NEW k \in Jobs
    PROVE  /\ ProbeOf(k)
           /\ at \in [Jobs -> Points] /\ open \in [Jobs -> BOOLEAN]
           /\ tries \in [Jobs -> Seq(Queries)] /\ res \in [Jobs -> Candidates]
           /\ sent \in [Jobs -> Seq(Queries)]
           /\ inbox \in [Jobs -> Seq([to : Queries, kind : {"ok", "bad"}])]
           /\ answered \in [Jobs -> SUBSET Queries]
BY DEF IInv, TypeOK, Probes

\* The end of probeOne is a probe step.
LEMMA FinishIInv ==
    ASSUME IInv, NEW k \in Jobs, NEW c \in Candidates, at[k] \in Busy,
           Finish(k, c), c.status # "", Confirmed(k, c),
           UNCHANGED <<loopVars, outer, ctx, runVars, tries, candidates, answered>>
    PROVE  IInv'
<1> USE Own DEF Finish, Goto
<1>1. /\ res' \in [Jobs -> Candidates] /\ open' \in [Jobs -> BOOLEAN]
      /\ tries' \in [Jobs -> Seq(Queries)] /\ answered' \in [Jobs -> SUBSET Queries]
    OBVIOUS
<1>2. /\ sent' \in [Jobs -> Seq(Queries)]
      /\ inbox' \in [Jobs -> Seq([to : Queries, kind : {"ok", "bad"}])]
    BY EmptySeq, Zenon
<1>3. \A j \in Jobs \ {k} : /\ open'[j] = open[j] /\ tries'[j] = tries[j]
                             /\ res'[j] = res[j] /\ inbox'[j] = inbox[j]
                             /\ answered'[j] = answered[j]
    OBVIOUS
<1>4. res'[k] = c /\ ~open'[k] /\ inbox'[k] = <<>>
    OBVIOUS
<1>5. Confirmed(k, res[k])'
    BY <1>4 DEF Confirmed
<1>6. \A n \in 1..Len(inbox'[k]) : FALSE
    BY <1>4, NoPosition, Zenon
<1> HIDE Own DEF Finish
<1>7. at' = [at EXCEPT ![k] = "store"]
    BY DEF Finish
<1> QED BY <1>1, <1>2, <1>3, <1>4, <1>5, <1>6, <1>7, ProbeStep

\* The status of a failed stage is a status, and not a confirmation.
LEMMA FailureFacts ==
    ASSUME NEW stage \in {"dial", "cotp", "setup"}, NEW err, NEW k,
           NEW c, c = [stage |-> StageName[stage], status |-> FailureStatus(stage, err),
                       confirmedBy |-> ""]
    PROVE  c \in Candidates /\ c.status # "" /\ Confirmed(k, c)
<1>1. StageName[stage] \in {"tcp", "cotp", "setup"}
  <2>1. StageName["dial"] = "tcp"
      BY DEF StageName
  <2>2. StageName["cotp"] = "cotp"
      BY DEF StageName
  <2>3. StageName["setup"] = "setup"
      BY DEF StageName
  <2> QED BY <2>1, <2>2, <2>3
<1>2. FailureStatus(stage, err) \in {"timeout", "unreachable", "tcp-only", "rejected", "cotp-only"}
    BY DEF FailureStatus
<1> QED BY <1>1, <1>2 DEF Candidates, Confirmed

LEMMA StageFailsIInv ==
    ASSUME IInv, NEW k \in Jobs, NEW stage \in {"dial", "cotp", "setup"}, NEW err,
           at[k] \in Busy, StageFails(k, stage, err),
           UNCHANGED <<loopVars, outer, ctx, runVars, tries, candidates, answered>>
    PROVE  IInv'
<1> DEFINE c == [stage |-> StageName[stage], status |-> FailureStatus(stage, err),
                 confirmedBy |-> ""]
<1>1. Finish(k, c)
    BY DEF StageFails
<1>2. c \in Candidates /\ c.status # "" /\ Confirmed(k, c)
    BY FailureFacts
<1> HIDE DEF c
<1> QED BY <1>1, <1>2, FinishIInv

\* Moving on within probeOne, with a new connection or new queries.
LEMMA MoveIInv ==
    ASSUME IInv, NEW k \in Jobs, NEW l \in Busy, at[k] \in Busy, Goto(k, l),
           NEW o \in BOOLEAN, NEW t \in Seq(Queries), NEW s \in Seq(Queries),
           open' = [open EXCEPT ![k] = o], tries' = [tries EXCEPT ![k] = t],
           sent' = [sent EXCEPT ![k] = s], l = "queryWait" => t # <<>>,
           UNCHANGED <<loopVars, outer, ctx, runVars, res, candidates, inbox, answered>>
    PROVE  IInv'
<1> USE Own DEF Goto
<1>1. /\ open' \in [Jobs -> BOOLEAN] /\ tries' \in [Jobs -> Seq(Queries)]
      /\ sent' \in [Jobs -> Seq(Queries)]
    OBVIOUS
<1>2. \A j \in Jobs \ {k} : open'[j] = open[j] /\ tries'[j] = tries[j]
    OBVIOUS
<1>3. l # "store" /\ tries'[k] = t
    BY DEF Busy
<1>4. \A n \in 1..Len(inbox'[k]) : inbox'[k][n].kind = "ok" => answered'[k] # {}
    BY DEF ProbeOf
<1> QED BY <1>1, <1>2, <1>3, <1>4, ProbeStep

\* The same for a step that only sets the queries that are left.
LEMMA QueryMoveIInv ==
    ASSUME IInv, NEW k \in Jobs, at[k] \in Busy, Goto(k, "query"),
           NEW t \in Seq(Queries), tries' = [tries EXCEPT ![k] = t],
           UNCHANGED <<loopVars, outer, ctx, runVars, open, res, candidates, netVars>>
    PROVE  IInv'
<1> USE Own DEF Goto, netVars
<1>1. tries' \in [Jobs -> Seq(Queries)] /\ \A j \in Jobs \ {k} : tries'[j] = tries[j]
    OBVIOUS
<1>2. "query" \in Busy
    BY DEF Busy
<1>3. \A n \in 1..Len(inbox'[k]) : inbox'[k][n].kind = "ok" => answered'[k] # {}
    BY DEF ProbeOf
<1> QED BY <1>1, <1>2, <1>3, ProbeStep

\* The stages.
LEMMA StageIInv ==
    ASSUME IInv, NEW k \in Jobs, Stage(k)
    PROVE  IInv'
<1>1. ProbeOf(k) /\ open[k] \in BOOLEAN /\ tries[k] \in Seq(Queries) /\ sent[k] \in Seq(Queries)
    BY Own
<1>2. /\ open = [open EXCEPT ![k] = open[k]] /\ tries = [tries EXCEPT ![k] = tries[k]]
      /\ sent = [sent EXCEPT ![k] = sent[k]]
    BY Own
<1>3. StageWait["dial"] = "dialWait"
    BY DEF StageWait
<1>4. StageWait["cotp"] = "cotpWait"
    BY DEF StageWait
<1>5. StageWait["setup"] = "setupWait"
    BY DEF StageWait
<1>6. DOMAIN StageWait = {"dial", "cotp", "setup"}
    BY DEF StageWait
<1>7. \A stage \in {"dial", "cotp", "setup"} :
          /\ stage \in Busy /\ StageWait[stage] \in Busy
          /\ StageWait[stage] # "queryWait"
    BY <1>3, <1>4, <1>5 DEF Busy
<1>8. ASSUME NEW stage \in {"dial", "cotp", "setup"}, BeginStage(k, stage)
      PROVE  IInv'
  <2>1. CASE ctx = "live" /\ Goto(k, StageWait[stage]) /\ UNCHANGED <<res, open, sent, inbox>>
      BY <1>1, <1>2, <1>7, <1>8, <2>1, MoveIInv DEF BeginStage
  <2>2. CASE StageFails(k, stage, {ctx})
      BY <1>7, <1>8, <2>2, StageFailsIInv DEF BeginStage
  <2> QED BY <1>8, <2>1, <2>2 DEF BeginStage
<1>9. ASSUME NEW stage \in {"dial", "cotp", "setup"}, StageEndsBadly(k, stage)
      PROVE  IInv'
  <2>1. PICK err : StageFails(k, stage, err)
      BY <1>9 DEF StageEndsBadly
  <2> QED BY <1>7, <1>9, <2>1, StageFailsIInv DEF StageEndsBadly
<1>10. CASE Dialled(k)
    BY <1>1, <1>2, <1>10, MoveIInv DEF Dialled, netVars, Busy
<1>11. CASE COTPConnected(k)
    BY <1>1, <1>2, <1>11, MoveIInv DEF COTPConnected, netVars, Busy
<1>12. CASE SetupDone(k)
  <2>1. "setupWait" \in Busy /\ "query" \in Busy
      BY DEF Busy
  <2> DEFINE c == [stage |-> "setup", status |-> "setup-only", confirmedBy |-> ""]
  <2>2. CASE Finish(k, c) /\ UNCHANGED tries
    <3>1. c \in Candidates /\ c.status # "" /\ Confirmed(k, c)
        BY DEF Candidates, Confirmed, SetupAccepted
    <3> HIDE DEF c
    <3> QED BY <1>12, <2>1, <2>2, <3>1, FinishIInv DEF SetupDone
  <2>3. CASE /\ tries' = [tries EXCEPT ![k] = Strategies(req.confirm)]
             /\ Goto(k, "query")
             /\ UNCHANGED <<open, res, sent, inbox>>
    <3> DEFINE t == Strategies(req.confirm)
    <3>1. t \in Seq(Queries)
        BY RequestFacts, StrategiesType DEF IInv, TypeOK
    <3>2. /\ UNCHANGED <<loopVars, outer, ctx, runVars, open, res, candidates, netVars>>
          /\ at[k] \in Busy /\ Goto(k, "query") /\ tries' = [tries EXCEPT ![k] = t]
        BY <1>12, <2>1, <2>3 DEF SetupDone, netVars
    <3> HIDE DEF t
    <3> QED BY <3>1, <3>2, QueryMoveIInv
  <2> QED BY <1>12, <2>2, <2>3 DEF SetupDone
<1> QED BY <1>6, <1>8, <1>9, <1>10, <1>11, <1>12 DEF Stage

\* The queries: only a good answer that was given confirms.
LEMMA FollowUpIInv ==
    ASSUME IInv, NEW k \in Jobs, FollowUp(k)
    PROVE  IInv'
<1>1. ProbeOf(k) /\ open[k] \in BOOLEAN /\ tries[k] \in Seq(Queries) /\ sent[k] \in Seq(Queries)
    BY Own
<1>2. /\ open = [open EXCEPT ![k] = open[k]] /\ tries = [tries EXCEPT ![k] = tries[k]]
      /\ sent = [sent EXCEPT ![k] = sent[k]]
    BY Own
<1>3. "query" \in Busy /\ "queryWait" \in Busy
    BY DEF Busy
<1>4. tries[k] # <<>> => Head(tries[k]) \in Queries /\ Tail(tries[k]) \in Seq(Queries)
    BY <1>1
<1>5. CASE NoQueryLeft(k)
  <2> DEFINE c == QueryResult("valid-connect", "")
  <2>1. c \in Candidates /\ c.status # "" /\ Confirmed(k, c)
      BY DEF Candidates, Confirmed, SetupAccepted, QueryResult
  <2> HIDE DEF c
  <2> QED BY <1>3, <1>5, <2>1, FinishIInv DEF NoQueryLeft, c
<1>6. ASSUME at[k] \in {"query", "queryWait"}, tries[k] # <<>>, QueryFails(k), UNCHANGED <<open, sent, res, inbox>>,
             UNCHANGED <<loopVars, outer, ctx, runVars, candidates, answered>>
      PROVE  IInv'
  <2>1. tries' = [tries EXCEPT ![k] = Tail(tries[k])] /\ Goto(k, "query")
      BY <1>6 DEF QueryFails
  <2> DEFINE t == Tail(tries[k])
  <2>2. t \in Seq(Queries) /\ tries' = [tries EXCEPT ![k] = t]
      BY <1>4, <1>6, <2>1
  <2>3. UNCHANGED <<loopVars, outer, ctx, runVars, open, res, candidates, netVars>>
      BY <1>6 DEF netVars
  <2> HIDE DEF t
  <2> QED BY <1>3, <1>6, <2>1, <2>2, <2>3, QueryMoveIInv
<1>7. CASE SendQuery(k)
  <2>1. CASE /\ sent' = [sent EXCEPT ![k] = Append(sent[k], Head(tries[k]))]
             /\ Goto(k, "queryWait")
             /\ UNCHANGED tries
    <3>1. Append(sent[k], Head(tries[k])) \in Seq(Queries)
        BY <1>1, <1>4, <1>7 DEF SendQuery
    <3> QED BY <1>1, <1>2, <1>3, <1>7, <2>1, <3>1, MoveIInv DEF SendQuery
  <2>2. CASE QueryFails(k) /\ UNCHANGED sent
      BY <1>6, <1>7, <2>2 DEF SendQuery
  <2> QED BY <1>7, <2>1, <2>2 DEF SendQuery
<1>8. CASE QueryTimesOut(k)
    BY <1>1, <1>6, <1>8 DEF QueryTimesOut, netVars, ProbeOf
<1>9. CASE QueryAnswered(k)
  <2>1. inbox[k] \in Seq([to : Queries, kind : {"ok", "bad"}]) /\ inbox[k] # <<>>
      BY <1>9, Own DEF QueryAnswered
  <2>2. Len(inbox[k]) >= 1 /\ Head(inbox[k]) = inbox[k][1]
      BY <2>1
  <2>3. tries[k] # <<>>
      BY <1>1, <1>9 DEF QueryAnswered, ProbeOf
  <2>4. CASE /\ Head(inbox[k]).kind = "ok"
             /\ Finish(k, QueryResult("valid-query", Head(tries[k])))
             /\ UNCHANGED tries
    <3> DEFINE c == QueryResult("valid-query", Head(tries[k]))
    <3>1. answered[k] # {}
      <4>1. 1 \in 1..Len(inbox[k]) /\ inbox[k][1].kind = "ok"
          BY <2>1, <2>2, <2>4
      <4> QED BY <1>1, <4>1, Zenon DEF ProbeOf
    <3>2. c \in Candidates /\ c.status # "" /\ Confirmed(k, c)
        BY <1>4, <2>3, <3>1 DEF Candidates, Confirmed, SetupAccepted, QueryResult, Queries
    <3>3. Finish(k, c)
        BY <2>4
    <3> HIDE DEF c
    <3> QED BY <1>3, <1>9, <2>4, <3>2, <3>3, FinishIInv DEF QueryAnswered
  <2>5. CASE /\ inbox' = [inbox EXCEPT ![k] = Tail(inbox[k])]
             /\ QueryFails(k)
             /\ UNCHANGED <<res, open, sent>>
    <3>1. UNCHANGED <<loopVars, outer, ctx, runVars, candidates, answered>> /\ at[k] = "queryWait"
        BY <1>9 DEF QueryAnswered
    <3>2. tries' \in [Jobs -> Seq(Queries)] /\ \A j \in Jobs \ {k} : tries'[j] = tries[j]
        BY <1>4, <2>3, <2>5, Own DEF QueryFails
    <3>3. Tail(inbox[k]) \in Seq([to : Queries, kind : {"ok", "bad"}])
        BY <2>1
    <3>4. /\ inbox' \in [Jobs -> Seq([to : Queries, kind : {"ok", "bad"}])]
          /\ inbox'[k] = Tail(inbox[k])
          /\ \A j \in Jobs \ {k} : inbox'[j] = inbox[j]
        BY <2>5, <3>3, Own, Zenon
    <3>5. \A n \in 1..Len(inbox'[k]) : inbox'[k][n].kind = "ok" => answered'[k] # {}
      <4>1. \A n \in 1..Len(Tail(inbox[k])) : /\ n + 1 \in 1..Len(inbox[k])
                                             /\ Tail(inbox[k])[n] = inbox[k][n + 1]
          BY <2>1
      <4> QED BY <1>1, <3>1, <3>4, <4>1 DEF ProbeOf
    <3>6. at' = [at EXCEPT ![k] = "query"] /\ "query" # "store" /\ "query" # "queryWait"
        BY <2>5 DEF QueryFails, Goto
    <3> QED BY <1>3, <2>5, <3>1, <3>2, <3>4, <3>5, <3>6, Own, ProbeStep
  <2> QED BY <1>9, <2>4, <2>5 DEF QueryAnswered
<1> QED BY <1>5, <1>7, <1>8, <1>9 DEF FollowUp

\* An answer of the device to an open connection.
LEMMA AnswerIInv ==
    ASSUME IInv, NEW k \in Jobs, NEW kind \in QueryAnswers, Answer(k, kind)
    PROVE  IInv'
<1> DEFINE frame == [to |-> Head(sent[k]), kind |-> kind]
           Frames == [to : Queries, kind : {"ok", "bad"}]
<1>1. ProbeOf(k) /\ sent[k] \in Seq(Queries) /\ sent[k] # <<>> /\ inbox[k] \in Seq(Frames)
    BY Own DEF Answer
<1>2. Head(sent[k]) \in Queries /\ Tail(sent[k]) \in Seq(Queries)
    BY <1>1
<1>3. frame \in Frames
    BY <1>2, ProbeAssumption
<1>4. at[k] \in Busy /\ at' = [at EXCEPT ![k] = at[k]]
    BY <1>1, Own DEF Answer, ProbeOf
<1>5. at[k] # "store" /\ (at[k] = "queryWait" => tries[k] # <<>>)
    BY <1>1, <1>4 DEF ProbeOf, Busy
<1>6. sent' \in [Jobs -> Seq(Queries)]
    BY <1>2, Own DEF Answer
<1>7. /\ answered' \in [Jobs -> SUBSET Queries]
      /\ \A j \in Jobs \ {k} : answered'[j] = answered[j]
      /\ kind = "ok" \/ answered[k] # {} => answered'[k] # {}
    BY <1>2, Own DEF Answer
<1>8. inbox' = [inbox EXCEPT ![k] = Append(inbox[k], frame)]
    BY DEF Answer
<1> HIDE DEF frame, Frames
<1>9. Append(inbox[k], frame) \in Seq(Frames)
    BY <1>1, <1>3
<1>10. /\ inbox' \in [Jobs -> Seq(Frames)] /\ inbox'[k] = Append(inbox[k], frame)
       /\ \A j \in Jobs \ {k} : inbox'[j] = inbox[j]
    BY <1>8, <1>9, Own DEF Frames
<1>11. ASSUME NEW n \in 1..Len(inbox'[k]), inbox'[k][n].kind = "ok"
       PROVE  answered'[k] # {}
  <2>1. CASE n \in 1..Len(inbox[k])
    <3>1. inbox'[k][n] = inbox[k][n]
        BY <1>1, <1>3, <1>10, <2>1
    <3> QED BY <1>1, <1>7, <1>11, <2>1, <3>1 DEF ProbeOf
  <2>2. CASE n = Len(inbox[k]) + 1
    <3>1. inbox'[k][n] = frame
        BY <1>1, <1>3, <1>10, <2>2
    <3> QED BY <1>7, <1>11, <3>1 DEF frame
  <2> QED BY <1>1, <1>3, <1>10, <2>1, <2>2
<1>12. UNCHANGED <<loopVars, outer, ctx, runVars, at, open, tries, res, candidates>>
    BY DEF Answer
<1> QED BY <1>4, <1>5, <1>6, <1>7, <1>10, <1>11, <1>12, Own, ProbeStep DEF Frames

\* Storing the candidate may end probeCtx, with the reason in candidates.
LEMMA StoreIInv ==
    ASSUME IInv, NEW k \in Jobs, Store(k)
    PROVE  IInv'
<1> USE DEF IInv, Store, Goto, loopVars, runVars, netVars
<1>1. at'[k] = "release" /\ \A j \in Jobs \ {k} : at'[j] = at[j]
    BY DEF TypeOK
<1>2. candidates'[k] = res[k] /\ \A j \in Jobs \ {k} : candidates'[j] = candidates[j]
    BY DEF TypeOK
<1>3. Jobs' = Jobs /\ MaxJobs(req)' = MaxJobs(req)
    BY DEF Jobs, MaxJobs
<1>4. ProbeOf(k)
    BY DEF Probes
<1>5. TypeOK'
  <2>1. at' \in [Jobs -> Points] /\ candidates' \in [Jobs -> Candidates]
      BY DEF TypeOK, Points
  <2>2. ctx' \in {"live", "canceled", "deadline"}
      BY DEF TypeOK
  <2> QED BY <1>3, <2>1, <2>2 DEF TypeOK
<1>6. Launched'
    BY <1>1, <1>3 DEF Launched
<1>7. Counted'
  <2>1. Active' = Active
      BY <1>1, <1>3 DEF Active
  <2> QED BY <2>1 DEF Counted
<1>8. Probes'
  <2> SUFFICES ASSUME NEW j \in Jobs PROVE ProbeOf(j)'
      BY <1>3 DEF Probes
  <2>1. ProbeOf(j)
      BY DEF Probes
  <2>2. CASE j = k
      BY <1>1, <1>2, <2>1, <2>2 DEF ProbeOf, Confirmed, Busy
  <2>3. CASE j # k
      BY <1>1, <1>2, <2>1, <2>3 DEF ProbeOf, Confirmed
  <2> QED BY <2>2, <2>3
<1>9. Stopped'
  <2>1. ctx' # ctx => Found'
      BY <1>2, <1>3 DEF Found, ValidStatus
  <2>2. Found => Found'
    <3> SUFFICES ASSUME Found PROVE Found'
        OBVIOUS
    <3>1. PICK j \in Jobs : candidates[j].status \in ValidStatus(req)
        BY DEF Found
    <3>2. j # k
      <4>1. candidates[k].status = ""
          BY <1>4, ZeroFacts DEF ProbeOf
      <4> QED BY <3>1, <4>1 DEF ValidStatus, SetupAccepted
    <3> QED BY <1>2, <1>3, <3>1, <3>2 DEF Found, ValidStatus
  <2>3. ctx # "live" => ctx' # "live"
      OBVIOUS
  <2> QED BY <1>3, <2>1, <2>2, <2>3 DEF Stopped
<1>10. LateBound'
    BY DEF LateBound
<1> QED BY <1>5, <1>6, <1>7, <1>8, <1>9, <1>10

\* The deferred calls give the element of sem back.
LEMMA ReleaseIInv ==
    ASSUME IInv, NEW k \in Jobs, Release(k)
    PROVE  IInv'
<1> USE DEF IInv, Release, Goto, loopVars, netVars
<1>1. at'[k] = "over" /\ \A j \in Jobs \ {k} : at'[j] = at[j]
    BY DEF TypeOK
<1>2. Jobs' = Jobs /\ MaxJobs(req)' = MaxJobs(req)
    BY DEF Jobs, MaxJobs
<1>3. req.parallelism \in Nat /\ req.jobs \in Nat
    BY RequestFacts DEF TypeOK
<1>4. k \in Active /\ Active' = Active \ {k}
    BY <1>1, <1>2 DEF Active
<1>5. /\ Cardinality(Active) \in Nat /\ Cardinality(Active') \in Nat
      /\ Cardinality(Active') = Cardinality(Active) - 1
  <2>1. IsFiniteSet(Active)
      BY ActiveFinite
  <2>2. IsFiniteSet(Active') /\ Cardinality(Active') = Cardinality(Active) - 1
      BY <1>4, <2>1, FS_RemoveElement
  <2> QED BY <2>1, <2>2, FS_CardinalityType
<1>6. Counted' /\ sem' \in 0..req.parallelism /\ wg' \in 0..req.jobs /\ wg # 0
    BY <1>3, <1>5 DEF Counted, TypeOK
<1>7. TypeOK'
  <2>1. at' \in [Jobs -> Points]
      BY DEF TypeOK, Points
  <2> QED BY <1>2, <1>6, <2>1 DEF TypeOK
<1>8. Launched'
    BY <1>1, <1>2 DEF Launched
<1>9. Probes'
  <2> SUFFICES ASSUME NEW j \in Jobs PROVE ProbeOf(j)'
      BY <1>2 DEF Probes
  <2>1. ProbeOf(j)
      BY DEF Probes
  <2>2. CASE j = k
      BY <1>1, <2>1, <2>2 DEF ProbeOf, Confirmed, Busy
  <2>3. CASE j # k
      BY <1>1, <2>1, <2>3 DEF ProbeOf, Confirmed
  <2> QED BY <2>2, <2>3
<1>10. Stopped'
  <2>1. Found' = Found
      BY <1>2 DEF Found, ValidStatus
  <2> QED BY <1>2, <1>6, <2>1 DEF Stopped
<1>11. LateBound'
    BY DEF LateBound
<1> QED BY <1>6, <1>7, <1>8, <1>9, <1>10, <1>11

LEMMA NextIInv == IInv /\ [Next]_vars => IInv'
<1> SUFFICES ASSUME IInv, [Next]_vars PROVE IInv'
    OBVIOUS
<1>1. CASE Loop
    BY <1>1, LoopMovesIInv, LaunchIInv DEF Loop
<1>2. CASE ContextDone
    BY <1>2, ContextDoneIInv
<1>3. ASSUME NEW k \in Jobs, Goroutine(k) PROVE IInv'
    BY <1>3, StageIInv, FollowUpIInv, StoreIInv, ReleaseIInv DEF Goroutine
<1>4. ASSUME NEW k \in Jobs, NEW kind \in QueryAnswers, Answer(k, kind) PROVE IInv'
    BY <1>4, AnswerIInv
<1>5. CASE UNCHANGED vars
  <2>1. /\ UNCHANGED <<req, i, runVars, at, open, tries, res, candidates, netVars>>
        /\ UNCHANGED <<main, late, outer, ctx>>
      BY <1>5 DEF vars, loopVars
  <2>2. Launched' /\ Counted' /\ Probes' /\ Found' = Found
      BY <2>1, SameGoroutines DEF IInv, Launched
  <2>3. MaxJobs(req)' = MaxJobs(req) /\ Jobs' = Jobs
      BY <2>1 DEF MaxJobs, Jobs
  <2>4. TypeOK'
      BY <2>1, <2>3 DEF IInv, TypeOK, runVars, netVars
  <2>5. Stopped' /\ LateBound'
      BY <2>1, <2>2, <2>3 DEF IInv, Stopped, LateBound, runVars
  <2> QED BY <2>2, <2>4, <2>5 DEF IInv
<1> QED BY <1>1, <1>2, <1>3, <1>4, <1>5 DEF Next

\* Every reachable state satisfies the inductive invariant, and the types with
\* it: sem never holds more than Parallelism elements and the wait group never
\* goes below zero (where the code would panic).
THEOREM ProbeInvariance == Spec => []IInv
BY InitIInv, NextIInv, PTL DEF Spec

\* The candidates that ProbeRackSlots returns are those of the jobs it started,
\* each with a status.
THEOREM ProbeReportsEvery == Spec => []EveryProbeReported
<1>1. IInv => EveryProbeReported
  <2> SUFFICES ASSUME IInv, main = "done"
               PROVE  /\ i <= MaxJobs(req)
                      /\ \A k \in Jobs : candidates[k].status # "" <=> k <= i
      BY DEF EveryProbeReported
  <2>1. i <= MaxJobs(req)
      BY DEF IInv, Launched
  <2>2. Active = {}
    <3>1. Cardinality(Active) = 0
        BY DEF IInv, Stopped, Counted
    <3> QED BY <3>1, ActiveFinite, FS_EmptySet DEF IInv
  <2>3. ASSUME NEW k \in Jobs PROVE candidates[k].status # "" <=> k <= i
    <3>1. k \in Nat /\ i \in Nat
        BY RequestFacts DEF IInv, TypeOK, Jobs
    <3>2. at[k] \in {"none", "over"}
        BY <2>2 DEF Active
    <3>3. at[k] = "none" <=> k > i
        BY DEF IInv, Launched
    <3>4. /\ at[k] = "none" => candidates[k].status = ""
          /\ at[k] = "over" => candidates[k].status # ""
        BY ZeroFacts DEF IInv, Probes, ProbeOf
    <3>5. k > i <=> ~(k <= i)
        BY <3>1
    <3> QED BY <3>2, <3>3, <3>4, <3>5, Zenon
  <2> QED BY <2>1, <2>3
<1> QED BY <1>1, ProbeInvariance, PTL

\* ProbeRackSlots leaves jobs out only for a valid candidate or because its
\* caller has given up, and starts at most one more after the cancel.
THEOREM ProbeStopsForAReason == Spec => []StopsForAReason
<1>1. IInv => StopsForAReason
  <2> SUFFICES ASSUME IInv PROVE StopsForAReason
      OBVIOUS
  <2>1. i \in Nat /\ MaxJobs(req) \in Nat
      BY RequestFacts DEF IInv, TypeOK
  <2>2. late <= 1
      BY DEF IInv, LateBound
  <2>3. ASSUME main = "done", outer = "live", i < MaxJobs(req) PROVE Found
      BY <2>1, <2>3 DEF IInv, Stopped
  <2> QED BY <2>2, <2>3 DEF StopsForAReason, Found
<1> QED BY <1>1, ProbeInvariance, PTL

\* A rack/slot is reported as confirmed only if the device has answered a query
\* on its connection.
THEOREM ProbeConfirmsAnswered == Spec => []ConfirmedIsAnswered
<1>1. IInv => ConfirmedIsAnswered
    BY DEF IInv, Probes, ProbeOf, Confirmed, ConfirmedIsAnswered
<1> QED BY <1>1, ProbeInvariance, PTL

-----------------------------------------------------------------------------
(* ProbeRackSlots implements Pool. *)

\* The goroutines in probeOne, and those that have left it.
InProbe == {k \in Jobs : at[k] \in Busy}
Left    == {k \in Jobs : at[k] \in {"store", "release", "over"}}

\* The sets of the refinement mapping, for goroutines J at a with connections o.
LEMMA MappedSets ==
    ASSUME NEW J, NEW a, NEW o,
           \A k \in J : a[k] \in Points /\ (o[k] => a[k] \in Busy)
    PROVE  /\ {k \in J : o[k] \/ a[k] \notin {"none", "store", "release", "over"}}
                  = {k \in J : a[k] \in Busy}
           /\ {k \in J : ~o[k] /\ a[k] \in {"store", "release", "over"}}
                  = {k \in J : a[k] \in {"store", "release", "over"}}
BY DEF Points, Busy

\* What Pool sees of a state that satisfies the invariant.
LEMMA MappedState ==
    ASSUME IInv
    PROVE  /\ {k \in Jobs : open[k] \/ at[k] \notin {"none", "store", "release", "over"}} = InProbe
           /\ {k \in Jobs : ~open[k] /\ at[k] \in {"store", "release", "over"}} = Left
<1>1. \A k \in Jobs : at[k] \in Points /\ (open[k] => at[k] \in Busy)
    BY DEF IInv, TypeOK, Probes, ProbeOf
<1> QED BY <1>1, MappedSets DEF InProbe, Left

LEMMA MappedStatePrime ==
    ASSUME IInv'
    PROVE  /\ {k \in Jobs : open[k] \/ at[k] \notin {"none", "store", "release", "over"}}' = InProbe'
           /\ {k \in Jobs : ~open[k] /\ at[k] \in {"store", "release", "over"}}' = Left'
<1>1. \A k \in Jobs' : at'[k] \in Points /\ (open'[k] => at'[k] \in Busy)
    BY DEF IInv, TypeOK, Probes, ProbeOf
<1> QED BY <1>1, MappedSets DEF InProbe, Left

\* Pool counts like this module.
LEMMA SameCardinality ==
    ASSUME NEW S
    PROVE  ThePool!Cardinality(S) = Cardinality(S)
BY Zenon DEF Cardinality, ThePool!Cardinality

\* A launch is Begin.
LEMMA LaunchBegins ==
    ASSUME IInv, IInv', Launch
    PROVE  ThePool!Next
<1> USE DEF Launch
<1>1. i + 1 \in Jobs /\ at[i + 1] = "none" /\ i + 1 \in Tasks /\ Jobs' = Jobs
  <2>1. /\ req.jobs \in Nat /\ MaxJobs(req) \in 1..req.jobs /\ 1..req.jobs \subseteq Tasks
      BY RequestFacts DEF IInv, TypeOK
  <2>2. i \in Nat /\ i < MaxJobs(req)
      BY <2>1 DEF IInv, TypeOK, Launched
  <2>3. i + 1 \in Jobs
      BY <2>1, <2>2 DEF Jobs
  <2>4. i + 1 > i
      BY <2>2
  <2> QED BY <2>1, <2>3, <2>4 DEF IInv, Launched, Jobs
<1>2. at'[i + 1] = "dial" /\ \A k \in Jobs \ {i + 1} : at'[k] = at[k]
    BY <1>1 DEF IInv, TypeOK, Goto
<1>3. InProbe' = InProbe \cup {i + 1} /\ Left' = Left /\ i + 1 \notin InProbe \cup Left
    BY <1>1, <1>2 DEF InProbe, Left, Busy
<1>4. Cardinality(InProbe) < req.parallelism
  <2>1. InProbe \subseteq Active
      BY DEF InProbe, Active, Busy
  <2>2. IsFiniteSet(Active) /\ Cardinality(Active) \in Int
      BY ActiveFinite DEF IInv
  <2>3. IsFiniteSet(InProbe) /\ Cardinality(InProbe) <= Cardinality(Active)
      BY <2>1, <2>2, FS_Subset, Zenon
  <2>4. Cardinality(InProbe) \in Nat
      BY <2>3, FS_CardinalityType
  <2>5. Cardinality(Active) < req.parallelism /\ req.parallelism \in Nat
      BY RequestFacts DEF IInv, Counted, TypeOK
  <2> QED BY <2>2, <2>3, <2>4, <2>5
<1>5. ~(main = "done") /\ (main' = "done") = (main = "done") /\ req' = req
    OBVIOUS
<1> HIDE DEF Launch
<1>6. PICK t \in Tasks : t = i + 1
    BY <1>1
<1>7. ThePool!Begin(t)
    BY <1>3, <1>4, <1>5, <1>6, MappedState, MappedStatePrime, SameCardinality DEF ThePool!Begin
<1> QED BY <1>7 DEF ThePool!Next

\* A goroutine that moves on stutters, and one that leaves probeOne is End.
LEMMA ProbeEnds ==
    ASSUME IInv, IInv', NEW k \in Jobs, NEW l, Goto(k, l),
           UNCHANGED <<req, main>>,
           \/ at[k] \in Busy /\ l \in Busy
           \/ at[k] \in Busy /\ l = "store"
           \/ at[k] \in {"store", "release"} /\ l \in {"release", "over"}
    PROVE  ThePool!Next \/ UNCHANGED ThePool!vars
<1>1. Jobs' = Jobs /\ k \in Tasks
    BY RequestFacts DEF IInv, TypeOK, Jobs
<1>2. at'[k] = l /\ \A j \in Jobs \ {k} : at'[j] = at[j]
    BY DEF IInv, TypeOK, Goto
<1>3. (main' = "done") = (main = "done") /\ req' = req
    OBVIOUS
<1>4. CASE at[k] \in Busy /\ l = "store"
  <2>1. k \in InProbe /\ InProbe' = InProbe \ {k} /\ Left' = Left \cup {k}
      BY <1>1, <1>2, <1>4 DEF InProbe, Left, Busy
  <2>2. ThePool!End(k)
      BY <1>3, <2>1, MappedState, MappedStatePrime DEF ThePool!End
  <2> QED BY <1>1, <2>2 DEF ThePool!Next
<1>5. CASE \/ at[k] \in Busy /\ l \in Busy
           \/ at[k] \in {"store", "release"} /\ l \in {"release", "over"}
  <2>1. InProbe' = InProbe /\ Left' = Left
      BY <1>1, <1>2, <1>5 DEF InProbe, Left, Busy
  <2> QED BY <1>3, <2>1, MappedState, MappedStatePrime DEF ThePool!vars
<1> QED BY <1>4, <1>5

\* Every step of a goroutine moves it so.
LEMMA GoroutineMoves ==
    ASSUME IInv, NEW k \in Jobs, Goroutine(k)
    PROVE  /\ UNCHANGED <<req, main>>
           /\ \E l : /\ Goto(k, l)
                     /\ \/ at[k] \in Busy /\ l \in Busy
                        \/ at[k] \in Busy /\ l = "store"
                        \/ at[k] \in {"store", "release"} /\ l \in {"release", "over"}
<1>1. StageWait["dial"] = "dialWait"
    BY DEF StageWait
<1>2. StageWait["cotp"] = "cotpWait"
    BY DEF StageWait
<1>3. StageWait["setup"] = "setupWait"
    BY DEF StageWait
<1>4. DOMAIN StageWait = {"dial", "cotp", "setup"}
    BY DEF StageWait
<1>5. \A stage \in DOMAIN StageWait : stage \in Busy /\ StageWait[stage] \in Busy
    BY <1>1, <1>2, <1>3, <1>4 DEF Busy
<1>6. UNCHANGED <<req, main>>
    BY DEF Goroutine, Stage, BeginStage, StageEndsBadly, Dialled, COTPConnected, SetupDone,
           FollowUp, NoQueryLeft, SendQuery, QueryAnswered, QueryTimesOut, Store, Release,
           loopVars
<1>7. CASE Stage(k)
  <2>1. CASE \E stage \in DOMAIN StageWait : BeginStage(k, stage) \/ StageEndsBadly(k, stage)
    <3>1. PICK stage \in DOMAIN StageWait : BeginStage(k, stage) \/ StageEndsBadly(k, stage)
        BY <2>1
    <3>2. at[k] \in Busy /\ (Goto(k, "store") \/ Goto(k, StageWait[stage]))
        BY <1>5, <3>1 DEF BeginStage, StageEndsBadly, StageFails, Finish
    <3> QED BY <1>5, <1>6, <3>1, <3>2
  <2>2. CASE Dialled(k) \/ COTPConnected(k)
      BY <1>6, <2>2 DEF Dialled, COTPConnected, Busy
  <2>3. CASE SetupDone(k)
      BY <1>6, <2>3 DEF SetupDone, Finish, Busy
  <2> QED BY <1>7, <2>1, <2>2, <2>3 DEF Stage
<1>8. CASE FollowUp(k)
  <2>1. at[k] \in {"query", "queryWait"} /\ (Goto(k, "query") \/ Goto(k, "queryWait") \/ Goto(k, "store"))
      BY <1>8 DEF FollowUp, NoQueryLeft, SendQuery, QueryAnswered, QueryTimesOut, QueryFails, Finish
  <2> QED BY <1>6, <2>1 DEF Busy
<1>9. CASE Store(k) \/ Release(k)
    BY <1>6, <1>9 DEF Store, Release
<1> QED BY <1>7, <1>8, <1>9 DEF Goroutine

\* A step that leaves the goroutines where they are stutters unless it is the
\* return, which is Finish.
LEMMA LoopFinishes ==
    ASSUME IInv, IInv', UNCHANGED <<req, at>>,
           \/ (main' = "done") = (main = "done")
           \/ Wait
    PROVE  ThePool!Next \/ UNCHANGED ThePool!vars
<1>1. InProbe' = InProbe /\ Left' = Left /\ req' = req
    BY DEF InProbe, Left, Jobs
<1>2. CASE (main' = "done") = (main = "done")
    BY <1>1, <1>2, MappedState, MappedStatePrime DEF ThePool!vars
<1>3. CASE Wait
  <2>1. Cardinality(Active) = 0
      BY <1>3 DEF IInv, Counted, Wait
  <2>2. Active = {}
      BY <2>1, ActiveFinite, FS_EmptySet DEF IInv
  <2>3. InProbe = {}
      BY <2>2 DEF InProbe, Active, Busy
  <2>4. ~(main = "done") /\ (main' = "done") = TRUE
      BY <1>3 DEF Wait
  <2>5. ThePool!Finish
      BY <1>1, <2>3, <2>4, MappedState, MappedStatePrime DEF ThePool!Finish
  <2> QED BY <2>5 DEF ThePool!Next
<1> QED BY <1>2, <1>3

\* Every step of ProbeRackSlots is a step of Pool or leaves it unchanged.
LEMMA NextImplementsPool ==
    IInv /\ IInv' /\ [Next]_vars => [ThePool!Next]_(ThePool!vars)
<1> SUFFICES ASSUME IInv, IInv', [Next]_vars
             PROVE  ThePool!Next \/ UNCHANGED ThePool!vars
    OBVIOUS
<1>1. CASE Launch
    BY <1>1, LaunchBegins
<1>2. CASE Wait
    BY <1>2, LoopFinishes DEF Wait
<1>3. CASE LeaveLoop \/ StartIteration \/ ContextDone \/ UNCHANGED vars
  <2>1. UNCHANGED <<req, at>> /\ (main' = "done") = (main = "done")
      BY <1>3 DEF LeaveLoop, StartIteration, ContextDone, vars, loopVars
  <2> QED BY <2>1, LoopFinishes
<1>4. ASSUME NEW k \in Jobs, NEW kind \in QueryAnswers, Answer(k, kind)
      PROVE  ThePool!Next \/ UNCHANGED ThePool!vars
  <2>1. UNCHANGED <<req, at>> /\ (main' = "done") = (main = "done")
      BY <1>4 DEF Answer, loopVars
  <2> QED BY <2>1, LoopFinishes
<1>5. ASSUME NEW k \in Jobs, Goroutine(k)
      PROVE  ThePool!Next \/ UNCHANGED ThePool!vars
    BY <1>5, GoroutineMoves, ProbeEnds
<1> QED BY <1>1, <1>2, <1>3, <1>4, <1>5 DEF Next, Loop

\* ProbeRackSlots implements Pool: no rack/slot is probed twice, never more than
\* Parallelism at a time, and no connection is left when it returns.
THEOREM ProbeImplementsPool == Spec => ImplementsPool
<1>1. Init => ThePool!Init
  <2> SUFFICES ASSUME Init PROVE ThePool!Init
      OBVIOUS
  <2>1. req.parallelism \in Nat \ {0}
      BY RequestFacts DEF Init
  <2>2. InProbe = {} /\ Left = {}
      BY DEF Init, InProbe, Left, Busy
  <2>3. (main = "done") = FALSE
      BY DEF Init
  <2>4. IInv
      BY InitIInv
  <2> QED BY <2>1, <2>2, <2>3, <2>4, MappedState DEF ThePool!Init
<1> QED BY <1>1, ProbeInvariance, NextImplementsPool, PTL
        DEF Spec, ImplementsPool, ThePool!Spec
=============================================================================
