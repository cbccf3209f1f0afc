--------------------------- MODULE DiscoverProofs ---------------------------
(***************************************************************************)
(* Proofs about Discover, for any number of hosts, rack/slots and workers:  *)
(* IInv is inductive, and the safety properties follow from it.             *)
(*                                                                         *)
(* As long as the context is live nothing gets lost: Conserved says that    *)
(* every job the producer has sent is in a channel, with a worker or in the *)
(* results, and Honest what a result must then say.  A caller that returns  *)
(* without error finds the channels empty and the workers gone.             *)
(***************************************************************************)
EXTENDS Discover, SequenceTheorems, FiniteSetTheorems, TLAPS

\* What there is to be found at each host.
Goal == [n \in 1..Len(Hosts) |-> Expected(Hosts[n])]

\* The n-th host's result r is its own and, unless the context is done, final.
Honest(n, r) ==
    /\ r \in Results
    /\ r.ip = Hosts[n]
    /\ r.status # ""
    /\ ctx = "live" => /\ r.status # "context_canceled"
                       /\ ~scan.flaky => r = Goal[n]

\* A job of the producer.
IsJob(j) == j.i \in 1..idx /\ j.ip = Hosts[j.i]

\* The caller counts the hosts, and nothing happens before that.
Started ==
    /\ main = "count" => count = 0
    /\ main = "collect" => count # 0
    /\ main = "done" /\ count = 0 => err
    /\ count # 0 => Len(results) = Len(Hosts)
    /\ count = 0 => /\ idx = 0 /\ jobs = <<>> /\ out = <<>> /\ results = <<>>
                    /\ ~closed /\ ~outClosed
                    /\ \A w \in Workers : at[w] \in {"take", "over"}

\* What is in the channels and in the slice belongs where it is.
InPlace ==
    /\ \A p \in 1..Len(jobs) : IsJob(jobs[p])
    /\ \A p \in 1..Len(out) : out[p].i \in 1..idx /\ Honest(out[p].i, out[p].r)
    /\ \A n \in 1..Len(results) : results[n] = ZeroResult \/ Honest(n, results[n])

Busy == {"probe", "connect", "put"}

\* A worker that has tried the rack/slots before slot[w] has not missed the one
\* its host accepts, nor gone beyond the attempts allowed.
WorkerOf(w) ==
    /\ at[w] \in Busy => IsJob(job[w])
    /\ at[w] \in {"probe", "connect"} =>
          /\ slot[w] \in 1..(Slots + 1)
          /\ scan.limit = 0 \/ slot[w] <= scan.limit + 1
          /\ ctx = "live" /\ ~scan.flaky =>
                scan.accepts[job[w].ip] = 0 \/ slot[w] <= scan.accepts[job[w].ip]
    /\ at[w] = "connect" =>
          slot[w] <= Slots /\ (scan.limit = 0 \/ slot[w] <= scan.limit)
    /\ at[w] = "put" => Honest(job[w].i, found[w])

InFlight(n) ==
    \/ \E p \in 1..Len(jobs) : jobs[p].i = n
    \/ \E w \in Workers : at[w] \in Busy /\ job[w].i = n
    \/ \E p \in 1..Len(out) : out[p].i = n

\* No job is lost while the context is live.
Conserved ==
    ctx = "live" => \A n \in 1..idx : InFlight(n) \/ results[n] # ZeroResult

\* The channels are closed in order.
Closing ==
    /\ closed /\ ctx = "live" => idx = Len(Hosts)
    /\ \A w \in Workers : w <= scan.parallel /\ at[w] = "over" /\ ctx = "live" =>
           closed /\ jobs = <<>>
    /\ outClosed => \A w \in Workers : at[w] = "over"

\* The inductive invariant.
IInv ==
    /\ TypeOK /\ Started /\ InPlace /\ (\A w \in Workers : WorkerOf(w))
    /\ Conserved /\ Closing /\ Complete

-----------------------------------------------------------------------------
(* Facts about the arguments and the addresses. *)

\* The sizes of the networks that are accepted.
LEMMA Powers ==
    ASSUME NEW b \in 0..maxDiscoveryHostBits
    PROVE  2 ^ b \in Nat \ {0} /\ (b > 1 => 2 ^ b > 2)
<1> DEFINE G(k) == 2 ^ k \in Nat \ {0} /\ (k > 1 => 2 ^ k > 2)
<1>1. \/ b = 0 \/ b = 1 \/ b = 2 \/ b = 3 \/ b = 4 \/ b = 5 \/ b = 6 \/ b = 7 \/ b = 8 \/ b = 9 \/ b = 10
      \/ b = 11 \/ b = 12 \/ b = 13 \/ b = 14 \/ b = 15 \/ b = 16 \/ b = 17 \/ b = 18 \/ b = 19 \/ b = 20
    BY SMT DEF maxDiscoveryHostBits
<1>2. G(0) /\ G(1) /\ G(2) /\ G(3) /\ G(4) /\ G(5) /\ G(6) /\ G(7) /\ G(8) /\ G(9) /\ G(10)
    BY SMT
<1>3. G(11) /\ G(12) /\ G(13) /\ G(14) /\ G(15) /\ G(16) /\ G(17) /\ G(18) /\ G(19) /\ G(20)
    BY SMT
<1>4. G(b)
  <2> HIDE DEF G
  <2> QED BY <1>1, <1>2, <1>3, Zenon
<1> QED BY <1>4, Zenon

LEMMA ScanFacts ==
    ASSUME scan \in Scans
    PROVE  /\ Slots \in Nat \ {0} /\ scan.parallel \in Nat \ {0} /\ scan.limit \in Nat
           /\ 2 ^ scan.bits \in Nat \ {0} /\ (scan.bits > 1 => 2 ^ scan.bits > 2)
           /\ scan.accepts \in [0..(2 ^ scan.bits - 1) -> 0..Slots]
           /\ scan.flaky \in BOOLEAN
<1>1. scan.bits \in 0..maxDiscoveryHostBits
    BY DiscoverAssumption, Zenon
<1> DEFINE b == scan.bits
<1>2. b \in 0..maxDiscoveryHostBits
    BY <1>1
<1> HIDE DEF b
<1>3. 2 ^ b \in Nat \ {0} /\ (b > 1 => 2 ^ b > 2)
    BY <1>2, Powers
<1> QED BY <1>3, DiscoverAssumption, Zenon DEF b

\* The hosts of a network are addresses in it, without its ends.
LEMMA HostsFacts ==
    ASSUME scan \in Scans
    PROVE  /\ Hosts \in Seq(Nat) /\ Len(Hosts) \in Nat \ {0}
           /\ \A n \in 1..Len(Hosts) :
                 /\ Hosts[n] \in 0..(2 ^ scan.bits - 1)
                 /\ scan.bits > 1 => Hosts[n] \notin {0, 2 ^ scan.bits - 1}
<1> DEFINE total == 2 ^ scan.bits
<1>1. total \in Nat \ {0} /\ (scan.bits > 1 => total > 2)
    BY ScanFacts
<1>2. Hosts = IF total > 2 THEN [k \in 1..(total - 2) |-> k] ELSE [k \in 1..total |-> k - 1]
    BY DEF Hosts, streamCIDR
<1> HIDE DEF total
<1>3. CASE total > 2
  <2>1. Hosts = [k \in 1..(total - 2) |-> k] /\ total - 2 \in Nat
      BY <1>1, <1>2, <1>3
  <2>2. Hosts \in Seq(Nat) /\ Len(Hosts) = total - 2
      BY <2>1
  <2>3. \A n \in 1..(total - 2) : Hosts[n] = n
      BY <2>1
  <2>4. \A n \in 1..Len(Hosts) : Hosts[n] \in 0..(total - 1) /\ Hosts[n] \notin {0, total - 1}
      BY <1>1, <2>2, <2>3
  <2> QED BY <1>1, <1>3, <2>2, <2>4 DEF total
<1>4. CASE ~(total > 2)
  <2>1. Hosts = [k \in 1..total |-> k - 1] /\ total \in Nat
      BY <1>1, <1>2, <1>4
  <2>2. Hosts \in Seq(Nat) /\ Len(Hosts) = total
      BY <2>1
  <2>3. \A n \in 1..total : Hosts[n] = n - 1
      BY <2>1
  <2>4. \A n \in 1..Len(Hosts) : Hosts[n] \in 0..(total - 1)
      BY <1>1, <2>2, <2>3
  <2> QED BY <1>1, <1>4, <2>2, <2>4 DEF total
<1> QED BY <1>3, <1>4

\* What depends on the arguments alone does not change.
LEMMA ScanFixed ==
    ASSUME UNCHANGED scan
    PROVE  Hosts' = Hosts /\ Goal' = Goal
<1>1. Hosts' = Hosts
    BY DEF Hosts
<1> QED BY <1>1 DEF Goal, Expected

LEMMA ResultFacts ==
    ASSUME NEW ip \in Nat, NEW status \in Statuses, NEW s \in 0..Slots
    PROVE  /\ Result(ip, status, s) \in Results
           /\ Result(ip, status, s).ip = ip /\ Result(ip, status, s).status = status
BY DEF Result, Results

LEMMA ZeroFacts == ZeroResult \in Results /\ ZeroResult.ip = -1 /\ ZeroResult.status = ""
<1>1. 0 \in 0..Slots
    BY DiscoverAssumption
<1> QED BY <1>1 DEF ZeroResult, Results, Statuses

\* The slice that is made for n results.
LEMMA EmptyResults ==
    ASSUME NEW n \in Nat, NEW S, NEW z \in S
    PROVE  [k \in 1..n |-> z] \in Seq(S) /\ Len([k \in 1..n |-> z]) = n
OBVIOUS

\* The facts used in every step.
LEMMA TypeFacts ==
    ASSUME TypeOK
    PROVE  /\ scan \in Scans /\ idx \in Nat /\ idx <= Len(Hosts)
           /\ Hosts \in Seq(Nat) /\ Len(Hosts) \in Nat \ {0}
           /\ jobs \in Seq(Jobs) /\ Len(jobs) \in Nat
           /\ out \in Seq([i : Nat, r : Results]) /\ Len(out) \in Nat
           /\ results \in Seq(Results) /\ Len(results) \in Nat
           /\ count \in Nat
           /\ Slots \in Nat \ {0} /\ scan.parallel \in Nat \ {0} /\ scan.limit \in Nat
<1>1. scan \in Scans
    BY DEF TypeOK
<1>2. Hosts \in Seq(Nat) /\ Len(Hosts) \in Nat \ {0}
    BY <1>1, HostsFacts
<1>3. Slots \in Nat \ {0} /\ scan.parallel \in Nat \ {0} /\ scan.limit \in Nat
    BY <1>1, ScanFacts
<1> QED BY <1>1, <1>2, <1>3 DEF TypeOK

-----------------------------------------------------------------------------
(* IInv is inductive. *)

LEMMA InitIInv == Init => IInv
<1> SUFFICES ASSUME Init PROVE IInv
    OBVIOUS
<1> USE DEF Init
<1>1. /\ Hosts \in Seq(Nat) /\ Len(Hosts) \in Nat \ {0}
      /\ Slots \in Nat \ {0} /\ scan.parallel \in Nat \ {0}
    BY HostsFacts, ScanFacts
<1>2. NoJob \in Jobs
    BY DEF NoJob, Jobs
<1>3. TypeOK
  <2>1. /\ idx \in 0..Len(Hosts) /\ Len(jobs) <= 2 * scan.parallel /\ Len(out) <= count
        /\ count \in {0, Len(Hosts)}
      BY <1>1
  <2>2. /\ at \in [Workers -> {"take", "probe", "connect", "put", "over"}]
        /\ slot \in [Workers -> 0..(Slots + 1)]
      BY <1>1
  <2>3. job \in [Workers -> Jobs] /\ found \in [Workers -> Results]
      BY <1>2, ZeroFacts
  <2>4. jobs \in Seq(Jobs) /\ out \in Seq([i : Nat, r : Results]) /\ results \in Seq(Results)
      OBVIOUS
  <2> QED BY <2>1, <2>2, <2>3, <2>4 DEF TypeOK
<1>4. \A w \in Workers : at[w] \in {"take", "over"} /\ (w <= scan.parallel => at[w] = "take")
    OBVIOUS
<1>5. 1..Len(<<>>) = {} /\ 1..0 = {}
    OBVIOUS
<1>6. Started
    BY <1>4 DEF Started
<1>7. InPlace
    BY <1>5, Zenon DEF InPlace
<1>8. \A w \in Workers : WorkerOf(w)
    BY <1>4 DEF WorkerOf, Busy
<1>9. Conserved
    BY <1>5, Zenon DEF Conserved
<1>10. Closing
    BY <1>4 DEF Closing
<1>11. Complete
    BY DEF Complete
<1> QED BY <1>3, <1>6, <1>7, <1>8, <1>9, <1>10, <1>11 DEF IInv

\* Complete speaks about what a returned call leaves alone.
LEMMA CompleteFixed ==
    ASSUME Complete, main' # "done" \/ UNCHANGED <<main, scan, results, err>>
    PROVE  Complete'
<1>1. CASE main' # "done"
    BY <1>1 DEF Complete
<1>2. CASE UNCHANGED <<main, scan, results, err>>
    BY <1>2 DEF Complete, Expected, Hosts
<1> QED BY <1>1, <1>2

\* The context is done: less is promised.
LEMMA ContextDoneIInv ==
    ASSUME IInv, ContextDone
    PROVE  IInv'
<1> USE DEF IInv, ContextDone, workVars
<1>1. Hosts' = Hosts /\ Goal' = Goal
    BY ScanFixed
<1>2. TypeOK' /\ Started'
    BY <1>1 DEF TypeOK, Started
<1>3. InPlace'
    BY <1>1 DEF InPlace, IsJob, Honest
<1>4. \A w \in Workers : WorkerOf(w)'
    BY <1>1 DEF WorkerOf, IsJob, Honest
<1>5. Conserved' /\ Closing'
    BY DEF Conserved, Closing
<1>6. Complete'
    BY CompleteFixed
<1> QED BY <1>2, <1>3, <1>4, <1>5, <1>6

\* The first pass: an empty result for every host.
LEMMA CountHostsIInv ==
    ASSUME IInv, CountHosts
    PROVE  IInv'
<1> USE DEF IInv, CountHosts, workVars
<1>1. Hosts' = Hosts /\ Goal' = Goal
    BY ScanFixed
<1>2. /\ count = 0 /\ idx = 0 /\ jobs = <<>> /\ out = <<>> /\ ~closed /\ ~outClosed
      /\ \A w \in Workers : at[w] \in {"take", "over"}
    BY DEF Started
<1>3. Len(Hosts) \in Nat \ {0}
    BY TypeFacts
<1>4. results' \in Seq(Results) /\ Len(results') = Len(Hosts)
    BY <1>3, ZeroFacts, EmptyResults
<1>5. \A n \in 1..Len(Hosts) : results'[n] = ZeroResult
    OBVIOUS
<1>6. TypeOK'
  <2>1. Len(out') <= count'
      BY <1>2, <1>3
  <2> QED BY <1>1, <1>4, <2>1 DEF TypeOK
<1>7. Started'
    BY <1>1, <1>3, <1>4 DEF Started
<1>8. InPlace'
  <2>1. 1..Len(<<>>) = {}
      OBVIOUS
  <2>2. \A n \in 1..Len(results') : results'[n] = ZeroResult
      BY <1>4, <1>5
  <2>3. 1..Len(jobs') = {} /\ 1..Len(out') = {}
      BY <1>2, <2>1
  <2> QED BY <2>2, <2>3 DEF InPlace
<1>9. \A w \in Workers : WorkerOf(w)'
    BY <1>2 DEF WorkerOf, Busy
<1>10. Conserved'
    BY <1>2 DEF Conserved
<1>11. Closing'
    BY <1>1 DEF Closing
<1>12. Complete'
    BY CompleteFixed
<1> QED BY <1>6, <1>7, <1>8, <1>9, <1>10, <1>11, <1>12

\* Nothing is started, and the error says so.
LEMMA CountCancelledIInv ==
    ASSUME IInv, CountCancelled
    PROVE  IInv'
<1> USE DEF IInv, CountCancelled, workVars
<1>1. Hosts' = Hosts /\ Goal' = Goal
    BY ScanFixed
<1>2. TypeOK' /\ Started'
    BY <1>1 DEF TypeOK, Started
<1>3. InPlace'
    BY <1>1 DEF InPlace, IsJob, Honest
<1>4. \A w \in Workers : WorkerOf(w)'
    BY <1>1 DEF WorkerOf, IsJob, Honest
<1>5. Conserved' /\ Closing'
    BY DEF Conserved, Closing
<1>6. Complete'
    BY DEF Complete
<1> QED BY <1>2, <1>3, <1>4, <1>5, <1>6

\* A result moves from the channel to its place in the slice.
LEMMA CollectIInv ==
    ASSUME IInv, Collect
    PROVE  IInv'
<1> USE DEF IInv
<1>1. /\ main = "collect" /\ out # <<>> /\ out' = Tail(out)
      /\ results' = [results EXCEPT ![Head(out).i] = Head(out).r]
      /\ UNCHANGED <<scan, ctx, main, count, idx, jobs, closed, at, job, slot, found, outClosed, err>>
    BY DEF Collect, workVars
<1>2. Hosts' = Hosts /\ Goal' = Goal
    BY <1>1, ScanFixed
<1>3. /\ out \in Seq([i : Nat, r : Results]) /\ results \in Seq(Results) /\ Len(results) = Len(Hosts)
      /\ idx \in Nat /\ idx <= Len(Hosts) /\ Len(Hosts) \in Nat
    BY <1>1, TypeFacts DEF Started
<1> DEFINE h == Head(out)
<1>4. /\ Len(out) \in Nat \ {0} /\ Len(out') = Len(out) - 1 /\ h = out[1]
      /\ out' \in Seq([i : Nat, r : Results])
      /\ \A p \in 1..Len(out') : p + 1 \in 1..Len(out) /\ out'[p] = out[p + 1]
    BY <1>1, <1>3
<1>5. h.i \in 1..idx /\ Honest(h.i, h.r)
    BY <1>4 DEF InPlace
<1>6. h.i \in 1..Len(results) /\ h.r \in Results /\ h.r # ZeroResult
  <2>1. h.i \in 1..Len(results)
      BY <1>3, <1>5
  <2> HIDE DEF h
  <2> QED BY <1>5, <2>1, ZeroFacts DEF Honest
<1> HIDE DEF h
<1>7. /\ results' \in Seq(Results) /\ Len(results') = Len(results)
      /\ results'[h.i] = h.r
      /\ \A n \in 1..Len(results) : n # h.i => results'[n] = results[n]
    BY <1>1, <1>3, <1>6 DEF h
<1>8. TypeOK'
  <2>1. Len(out') <= count'
      BY <1>1, <1>4, TypeFacts DEF TypeOK
  <2> QED BY <1>1, <1>2, <1>4, <1>7, <2>1 DEF TypeOK
<1>9. Started'
    BY <1>1, <1>2, <1>3, <1>7 DEF Started
<1>10. InPlace'
  <2>1. \A p \in 1..Len(jobs') : IsJob(jobs[p])'
      BY <1>1, <1>2 DEF InPlace, IsJob
  <2>2. \A p \in 1..Len(out') : (out[p].i \in 1..idx /\ Honest(out[p].i, out[p].r))'
    <3> SUFFICES ASSUME NEW p \in 1..Len(out')
                 PROVE  (out[p].i \in 1..idx /\ Honest(out[p].i, out[p].r))'
        OBVIOUS
    <3>1. out'[p] = out[p + 1] /\ out[p + 1].i \in 1..idx /\ Honest(out[p + 1].i, out[p + 1].r)
        BY <1>4 DEF InPlace
    <3> QED BY <1>1, <1>2, <3>1 DEF Honest
  <2>3. \A n \in 1..Len(results') : (results[n] = ZeroResult \/ Honest(n, results[n]))'
    <3> SUFFICES ASSUME NEW n \in 1..Len(results')
                 PROVE  (results[n] = ZeroResult \/ Honest(n, results[n]))'
        OBVIOUS
    <3>1. CASE n = h.i
        BY <1>1, <1>2, <1>5, <1>7, <3>1 DEF Honest
    <3>2. CASE n # h.i
      <4>1. results'[n] = results[n] /\ (results[n] = ZeroResult \/ Honest(n, results[n]))
          BY <1>7, <3>2 DEF InPlace
      <4> QED BY <1>1, <1>2, <4>1 DEF Honest
    <3> QED BY <3>1, <3>2
  <2> QED BY <2>1, <2>2, <2>3 DEF InPlace
<1>11. \A w \in Workers : WorkerOf(w)'
    BY <1>1, <1>2 DEF WorkerOf, IsJob, Honest
<1>12. Conserved'
  <2> SUFFICES ASSUME ctx = "live", NEW n \in 1..idx
               PROVE  InFlight(n)' \/ results'[n] # ZeroResult
      BY <1>1 DEF Conserved
  <2>1. InFlight(n) \/ results[n] # ZeroResult
      BY DEF Conserved
  <2>2. n \in 1..Len(results)
      BY <1>3
  <2>3. CASE n = h.i
      BY <1>6, <1>7, <2>3
  <2>4. CASE n # h.i /\ \E p \in 1..Len(out) : out[p].i = n
    <3>1. PICK p \in 1..Len(out) : out[p].i = n
        BY <2>4
    <3>2. p - 1 \in 1..Len(out') /\ (p - 1) + 1 = p
        BY <1>4, <2>4, <3>1
    <3>3. out'[p - 1].i = n
        BY <1>4, <3>1, <3>2
    <3> QED BY <3>2, <3>3 DEF InFlight
  <2>5. CASE n # h.i /\ ~(\E p \in 1..Len(out) : out[p].i = n)
      BY <1>1, <1>7, <2>1, <2>2, <2>5 DEF InFlight
  <2> QED BY <2>3, <2>4, <2>5
<1>13. Closing'
    BY <1>1, <1>2 DEF Closing
<1>14. Complete'
    BY <1>1, CompleteFixed
<1> QED BY <1>8, <1>9, <1>10, <1>11, <1>12, <1>13, <1>14

\* The caller returns: if the context is still live, every result is there.
LEMMA ReturnIInv ==
    ASSUME IInv, Return
    PROVE  IInv'
<1> USE DEF IInv
<1>1. /\ main = "collect" /\ out = <<>> /\ outClosed /\ main' = "done" /\ err' = (ctx = "done")
      /\ UNCHANGED <<scan, ctx, count, idx, jobs, closed, at, job, slot, found, out, outClosed, results>>
    BY DEF Return, workVars
<1>2. Hosts' = Hosts /\ Goal' = Goal
    BY <1>1, ScanFixed
<1>3. TypeOK' /\ Started'
    BY <1>1, <1>2 DEF TypeOK, Started
<1>4. InPlace'
    BY <1>1, <1>2 DEF InPlace, IsJob, Honest
<1>5. \A w \in Workers : WorkerOf(w)'
    BY <1>1, <1>2 DEF WorkerOf, IsJob, Honest
<1>6. Conserved'
    BY <1>1 DEF Conserved, InFlight
<1>7. Closing'
    BY <1>1, <1>2 DEF Closing
<1>8. Complete'
  <2> SUFFICES ASSUME ctx = "live" PROVE Complete'
      BY <1>1 DEF Complete, TypeOK
  <2>1. /\ scan.parallel \in Nat \ {0} /\ scan \in Scans /\ Len(Hosts) \in Nat
        /\ Len(results) = Len(Hosts)
      BY <1>1, TypeFacts DEF Started
  <2>2. 1 \in Workers /\ 1 <= scan.parallel
      BY <2>1 DEF Workers
  <2>3. /\ \A w \in Workers : at[w] = "over"
        /\ jobs = <<>> /\ idx = Len(Hosts)
      BY <1>1, <2>2 DEF Closing
  <2>4. 1..Len(<<>>) = {}
      OBVIOUS
  <2>5. 1..Len(jobs) = {} /\ 1..Len(out) = {}
      BY <1>1, <2>3, <2>4
  <2>6. ASSUME NEW n \in 1..Len(Hosts)
        PROVE  results[n].status \in {"s7", "none", "max_attempts"}
               /\ (~scan.flaky => results[n] = Expected(Hosts[n]))
    <3>1. results[n] # ZeroResult
        BY <2>3, <2>5 DEF Conserved, InFlight, Busy
    <3>2. Honest(n, results[n])
        BY <2>1, <3>1 DEF InPlace
    <3>3. results[n].status \in Statuses
        BY <3>2 DEF Honest, Results
    <3>4. results[n].status \in {"s7", "none", "max_attempts"}
        BY <3>2, <3>3 DEF Honest, Statuses
    <3>5. ~scan.flaky => results[n] = Expected(Hosts[n])
        BY <3>2 DEF Honest, Goal
    <3> QED BY <3>4, <3>5
  <2>7. /\ Len(results) = Len(Hosts)
        /\ \A n \in 1..Len(Hosts) :
              /\ results[n].status \in {"s7", "none", "max_attempts"}
              /\ ~scan.flaky => results[n] = Expected(Hosts[n])
      BY <2>1, <2>6
  <2> QED BY <1>1, <2>7 DEF Complete, Expected, Hosts
<1> QED BY <1>3, <1>4, <1>5, <1>6, <1>7, <1>8

\* The producer sends the next host.
LEMMA ProduceIInv ==
    ASSUME IInv, Produce
    PROVE  IInv'
<1> USE DEF IInv
<1> DEFINE j == [i |-> idx + 1, ip |-> Hosts[idx + 1]]
<1>1. /\ Running /\ ~closed /\ idx < Len(Hosts) /\ Len(jobs) < 2 * scan.parallel
      /\ jobs' = Append(jobs, j) /\ idx' = idx + 1
      /\ UNCHANGED <<scan, ctx, main, count, closed, at, job, slot, found, out, outClosed, results, err>>
    BY DEF Produce, workVars
<1>2. Hosts' = Hosts /\ Goal' = Goal
    BY <1>1, ScanFixed
<1>3. /\ idx \in Nat /\ Hosts \in Seq(Nat) /\ Len(Hosts) \in Nat /\ jobs \in Seq(Jobs)
      /\ scan.parallel \in Nat /\ Len(jobs) \in Nat
    BY TypeFacts
<1>4. count # 0
    BY <1>1 DEF Running, Started
<1>5. j \in Jobs /\ j.i = idx + 1 /\ j.ip = Hosts[idx + 1]
  <2>1. Hosts[idx + 1] \in Nat
      BY <1>1, <1>3
  <2> QED BY <1>3, <2>1 DEF Jobs
<1> HIDE DEF j
<1>6. /\ jobs' \in Seq(Jobs) /\ Len(jobs') = Len(jobs) + 1 /\ jobs'[Len(jobs) + 1] = j
      /\ \A p \in 1..Len(jobs) : jobs'[p] = jobs[p]
    BY <1>1, <1>3, <1>5
<1>7. TypeOK'
  <2>1. idx' \in 0..Len(Hosts)
      BY <1>1, <1>3
  <2>2. Len(jobs') <= 2 * scan.parallel
      BY <1>1, <1>3, <1>6
  <2> QED BY <1>1, <1>2, <1>6, <2>1, <2>2 DEF TypeOK
<1>8. Started'
    BY <1>1, <1>2, <1>4 DEF Started
<1>9. 1..idx \subseteq 1..idx' /\ idx' \in 1..idx'
    BY <1>1, <1>3
<1>10. InPlace'
  <2>1. ASSUME NEW p \in 1..Len(jobs') PROVE IsJob(jobs[p])'
    <3>1. CASE p \in 1..Len(jobs)
        BY <1>2, <1>6, <1>9, <3>1 DEF InPlace, IsJob
    <3>2. CASE p = Len(jobs) + 1
        BY <1>1, <1>2, <1>5, <1>6, <1>9, <3>2 DEF IsJob
    <3> QED BY <1>3, <1>6, <3>1, <3>2
  <2>2. \A p \in 1..Len(out') : (out[p].i \in 1..idx /\ Honest(out[p].i, out[p].r))'
      BY <1>1, <1>2, <1>9 DEF InPlace, Honest
  <2>3. \A n \in 1..Len(results') : (results[n] = ZeroResult \/ Honest(n, results[n]))'
      BY <1>1, <1>2 DEF InPlace, Honest
  <2> QED BY <2>1, <2>2, <2>3 DEF InPlace
<1>11. \A w \in Workers : WorkerOf(w)'
    BY <1>1, <1>2, <1>9 DEF WorkerOf, IsJob, Honest
<1>12. Conserved'
  <2> SUFFICES ASSUME ctx = "live", NEW n \in 1..idx'
               PROVE  InFlight(n)' \/ results'[n] # ZeroResult
      BY <1>1 DEF Conserved
  <2>1. CASE n = idx + 1
    <3>1. Len(jobs) + 1 \in 1..Len(jobs') /\ jobs'[Len(jobs) + 1].i = n
        BY <1>3, <1>5, <1>6, <2>1
    <3> QED BY <3>1 DEF InFlight
  <2>2. CASE n \in 1..idx
    <3>1. InFlight(n) \/ results[n] # ZeroResult
        BY <2>2 DEF Conserved
    <3>2. 1..Len(jobs) \subseteq 1..Len(jobs')
        BY <1>3, <1>6
    <3> QED BY <1>1, <1>6, <3>1, <3>2 DEF InFlight
  <2> QED BY <1>1, <1>3, <2>1, <2>2
<1>13. Closing'
    BY <1>1, <1>2 DEF Closing
<1>14. Complete'
    BY <1>1, CompleteFixed
<1> QED BY <1>7, <1>8, <1>10, <1>11, <1>12, <1>13, <1>14

\* close(jobs) and close(out).
LEMMA CloseIInv ==
    ASSUME IInv, CloseJobs \/ CloseOut
    PROVE  IInv'
<1> USE DEF IInv
<1>1. /\ Running /\ UNCHANGED <<scan, ctx, main, count, idx, jobs, at, job, slot, found, out, results, err>>
      /\ closed' = closed \/ (closed' = TRUE /\ (idx = Len(Hosts) \/ ctx = "done"))
      /\ outClosed' = outClosed \/ (outClosed' = TRUE /\ \A w \in Workers : at[w] = "over")
    BY DEF CloseJobs, CloseOut, workVars
<1>2. Hosts' = Hosts /\ Goal' = Goal
    BY <1>1, ScanFixed
<1>3. count # 0
    BY <1>1 DEF Running, Started
<1>4. TypeOK'
    BY <1>1, <1>2 DEF TypeOK
<1>5. Started'
    BY <1>1, <1>2, <1>3 DEF Started
<1>6. InPlace'
    BY <1>1, <1>2 DEF InPlace, IsJob, Honest
<1>7. \A w \in Workers : WorkerOf(w)'
    BY <1>1, <1>2 DEF WorkerOf, IsJob, Honest
<1>8. Conserved'
    BY <1>1 DEF Conserved, InFlight
<1>9. Closing'
    BY <1>1, <1>2 DEF Closing
<1>10. Complete'
    BY <1>1, CompleteFixed
<1> QED BY <1>4, <1>5, <1>6, <1>7, <1>8, <1>9, <1>10

\* A worker takes the oldest job.
LEMMA TakeIInv ==
    ASSUME IInv, NEW w \in Workers, Take(w)
    PROVE  IInv'
<1> USE DEF IInv
<1> DEFINE h == Head(jobs)
<1>1. /\ Running /\ at[w] = "take" /\ jobs # <<>> /\ jobs' = Tail(jobs)
      /\ job' = [job EXCEPT ![w] = h] /\ slot' = [slot EXCEPT ![w] = 1]
      /\ at' = [at EXCEPT ![w] = "probe"]
      /\ UNCHANGED <<scan, ctx, main, count, idx, closed, found, out, outClosed, results, err>>
    BY DEF Take
<1>2. Hosts' = Hosts /\ Goal' = Goal
    BY <1>1, ScanFixed
<1>3. /\ jobs \in Seq(Jobs) /\ Len(jobs) \in Nat /\ Slots \in Nat \ {0} /\ scan.limit \in Nat
      /\ scan.parallel \in Nat /\ scan \in Scans /\ idx \in Nat /\ idx <= Len(Hosts) /\ Len(Hosts) \in Nat
    BY TypeFacts
<1>4. /\ Len(jobs) # 0 /\ Len(jobs') = Len(jobs) - 1 /\ h = jobs[1] /\ h \in Jobs
      /\ jobs' \in Seq(Jobs)
      /\ \A p \in 1..Len(jobs') : p + 1 \in 1..Len(jobs) /\ jobs'[p] = jobs[p + 1]
    BY <1>1, <1>3
<1>5. IsJob(h)
  <2>1. 1 \in 1..Len(jobs)
      BY <1>3, <1>4
  <2> QED BY <1>4, <2>1 DEF InPlace
<1> HIDE DEF h
<1>6. /\ at' \in [Workers -> {"take", "probe", "connect", "put", "over"}]
      /\ job' \in [Workers -> Jobs] /\ slot' \in [Workers -> 0..(Slots + 1)]
      /\ at'[w] = "probe" /\ job'[w] = h /\ slot'[w] = 1
      /\ \A v \in Workers : v # w => at'[v] = at[v] /\ job'[v] = job[v] /\ slot'[v] = slot[v]
    BY <1>1, <1>3, <1>4 DEF TypeOK
<1>7. TypeOK'
  <2>1. Len(jobs') <= 2 * scan.parallel
      BY <1>3, <1>4, SMTT(30) DEF TypeOK
  <2> QED BY <1>1, <1>2, <1>4, <1>6, <2>1 DEF TypeOK
<1>8. Started'
    BY <1>1, <1>2 DEF Running, Started
<1>9. InPlace'
  <2>1. ASSUME NEW p \in 1..Len(jobs') PROVE IsJob(jobs[p])'
    <3>1. jobs'[p] = jobs[p + 1] /\ IsJob(jobs[p + 1])
        BY <1>4 DEF InPlace
    <3> QED BY <1>1, <1>2, <3>1 DEF IsJob
  <2>2. \A p \in 1..Len(out') : (out[p].i \in 1..idx /\ Honest(out[p].i, out[p].r))'
      BY <1>1, <1>2 DEF InPlace, Honest
  <2>3. \A n \in 1..Len(results') : (results[n] = ZeroResult \/ Honest(n, results[n]))'
      BY <1>1, <1>2 DEF InPlace, Honest
  <2> QED BY <2>1, <2>2, <2>3 DEF InPlace
<1>10. \A v \in Workers : WorkerOf(v)'
  <2>1. WorkerOf(w)'
    <3>1. scan.accepts[h.ip] \in 0..Slots
      <4>1. h.i \in 1..Len(Hosts) /\ h.ip = Hosts[h.i]
          BY <1>3, <1>5 DEF IsJob
      <4>2. h.ip \in 0..(2 ^ scan.bits - 1)
          BY <1>3, <4>1, HostsFacts
      <4> QED BY <1>3, <4>2, ScanFacts
    <3>2. 1 \in 1..(Slots + 1) /\ 1 <= scan.limit + 1
        BY <1>3
    <3>3. scan.accepts[h.ip] = 0 \/ 1 <= scan.accepts[h.ip]
        BY <1>3, <3>1
    <3>4. IsJob(job[w])'
        BY <1>1, <1>2, <1>5, <1>6 DEF IsJob
    <3> QED BY <1>1, <1>6, <3>2, <3>3, <3>4 DEF WorkerOf
  <2>2. \A v \in Workers : v # w => WorkerOf(v)'
      BY <1>1, <1>2, <1>6, ZenonT(30) DEF WorkerOf, IsJob, Honest
  <2> QED BY <2>1, <2>2
<1>11. Conserved'
  <2> SUFFICES ASSUME ctx = "live", NEW n \in 1..idx
               PROVE  InFlight(n)' \/ results'[n] # ZeroResult
      BY <1>1 DEF Conserved
  <2>1. CASE n = h.i
      BY <1>6, <2>1 DEF InFlight, Busy
  <2>2. CASE n # h.i /\ \E p \in 1..Len(jobs) : jobs[p].i = n
    <3>1. PICK p \in 1..Len(jobs) : jobs[p].i = n
        BY <2>2
    <3>2. p - 1 \in 1..Len(jobs') /\ (p - 1) + 1 = p
        BY <1>3, <1>4, <2>2, <3>1
    <3>3. jobs'[p - 1].i = n
        BY <1>4, <3>1, <3>2
    <3> QED BY <3>2, <3>3 DEF InFlight
  <2>3. CASE \E v \in Workers : at[v] \in Busy /\ job[v].i = n
    <3>1. PICK v \in Workers : at[v] \in Busy /\ job[v].i = n
        BY <2>3
    <3>2. v # w
        BY <1>1, <3>1 DEF Busy
    <3> QED BY <1>6, <3>1, <3>2 DEF InFlight
  <2>4. CASE (\E p \in 1..Len(out) : out[p].i = n) \/ results[n] # ZeroResult
      BY <1>1, <2>4 DEF InFlight
  <2> QED BY <2>1, <2>2, <2>3, <2>4 DEF Conserved, InFlight
<1>12. Closing'
    BY <1>1, <1>2, <1>6 DEF Closing
<1>13. Complete'
    BY <1>1, CompleteFixed
<1> QED BY <1>7, <1>8, <1>9, <1>10, <1>11, <1>12, <1>13

\* A worker goes on to x: nothing but its own state changes, and if it was at a
\* job it stays at it or the context is done.
LEMMA WorkerKeeps ==
    ASSUME IInv, NEW w \in Workers, NEW x \in {"probe", "connect", "put", "over"},
           UNCHANGED <<scan, ctx, main, count, idx, jobs, closed, job, out, outClosed, results, err>>,
           at' = [at EXCEPT ![w] = x], at[w] # "over", count # 0,
           at[w] \in Busy => x \in Busy \/ ctx = "done",
           x = "over" => (closed /\ jobs = <<>>) \/ ctx = "done",
           slot' \in [Workers -> 0..(Slots + 1)], found' \in [Workers -> Results],
           \A v \in Workers : v # w => slot'[v] = slot[v] /\ found'[v] = found[v],
           WorkerOf(w)'
    PROVE  IInv'
<1> USE DEF IInv
<1>1. Hosts' = Hosts /\ Goal' = Goal
    BY ScanFixed
<1>2. /\ at' \in [Workers -> {"take", "probe", "connect", "put", "over"}]
      /\ at'[w] = x
      /\ \A v \in Workers : v # w => at'[v] = at[v]
    BY DEF TypeOK
<1>3. TypeOK'
    BY <1>1, <1>2 DEF TypeOK
<1>4. Started'
    BY <1>1 DEF Started
<1>5. InPlace'
    BY <1>1 DEF InPlace, IsJob, Honest
<1>6. ASSUME NEW v \in Workers, v # w PROVE WorkerOf(v)'
  <2>1. /\ WorkerOf(v) /\ at'[v] = at[v] /\ slot'[v] = slot[v] /\ found'[v] = found[v]
        /\ UNCHANGED <<scan, ctx, idx, job>>
      BY <1>2, <1>6
  <2> HIDE DEF IInv
  <2> QED BY <1>1, <2>1 DEF WorkerOf, IsJob, Honest
<1>7. Conserved'
  <2> SUFFICES ASSUME ctx = "live", NEW n \in 1..idx
               PROVE  InFlight(n)' \/ results'[n] # ZeroResult
      BY DEF Conserved
  <2>1. ASSUME NEW v \in Workers, at[v] \in Busy PROVE at'[v] \in Busy
      BY <1>2, <2>1
  <2>2. InFlight(n) \/ results[n] # ZeroResult
      BY DEF Conserved
  <2> QED BY <2>1, <2>2 DEF InFlight
<1>8. Closing'
    BY <1>1, <1>2 DEF Closing
<1>9. Complete'
    BY CompleteFixed
<1> QED BY <1>3, <1>4, <1>5, <1>6, <1>7, <1>8, <1>9

\* A worker that is at a job has been started.
LEMMA BusyStarted ==
    ASSUME IInv, NEW w \in Workers, at[w] \in Busy \/ Running
    PROVE  count # 0
BY DEF IInv, Started, Busy, Running

LEMMA NoMoreJobsIInv ==
    ASSUME IInv, NEW w \in Workers, NoMoreJobs(w)
    PROVE  IInv'
<1>1. /\ Running /\ at[w] = "take" /\ jobs = <<>> /\ closed
      /\ at' = [at EXCEPT ![w] = "over"]
      /\ UNCHANGED <<scan, ctx, main, count, idx, jobs, closed, job, slot, found, out, outClosed,
                     results, err>>
    BY DEF NoMoreJobs
<1>2. slot' \in [Workers -> 0..(Slots + 1)] /\ found' \in [Workers -> Results]
    BY <1>1 DEF IInv, TypeOK
<1>3. at'[w] = "over" /\ at[w] \notin Busy
    BY <1>1 DEF IInv, TypeOK, Busy
<1>4. WorkerOf(w)'
    BY <1>3 DEF WorkerOf, Busy
<1> QED BY <1>1, <1>2, <1>3, <1>4, BusyStarted, WorkerKeeps

\* probeS7 returns an honest result.
LEMMA ProbeReturnsIInv ==
    ASSUME IInv, NEW w \in Workers, at[w] \in {"probe", "connect"},
           NEW r, Honest(job[w].i, r), ProbeReturns(w, r)
    PROVE  IInv'
<1>1. /\ found' = [found EXCEPT ![w] = r] /\ at' = [at EXCEPT ![w] = "put"]
      /\ UNCHANGED <<scan, ctx, main, count, idx, jobs, closed, job, slot, out, outClosed, results, err>>
    BY DEF ProbeReturns
<1>2. Hosts' = Hosts /\ Goal' = Goal
    BY <1>1, ScanFixed
<1>3. /\ at'[w] = "put" /\ found'[w] = r /\ found' \in [Workers -> Results]
      /\ slot' \in [Workers -> 0..(Slots + 1)]
      /\ \A v \in Workers : v # w => slot'[v] = slot[v] /\ found'[v] = found[v]
    BY <1>1 DEF IInv, TypeOK, Honest
<1>4. IsJob(job[w])
    BY DEF IInv, WorkerOf, Busy
<1>5. WorkerOf(w)'
  <2>1. IsJob(job[w])'
      BY <1>1, <1>2, <1>4 DEF IsJob
  <2>2. Honest(job[w].i, found[w])'
      BY <1>1, <1>2, <1>3 DEF Honest
  <2> QED BY <1>3, <2>1, <2>2 DEF WorkerOf
<1>6. at[w] \in Busy /\ "put" \in Busy /\ at[w] # "over"
    BY DEF Busy
<1> QED BY <1>1, <1>3, <1>5, <1>6, BusyStarted, WorkerKeeps

\* What a worker knows about its host.
LEMMA JobFacts ==
    ASSUME IInv, NEW w \in Workers, at[w] \in {"probe", "connect"}
    PROVE  /\ job[w].i \in 1..Len(Hosts) /\ job[w].ip = Hosts[job[w].i] /\ job[w].ip \in Nat
           /\ scan.accepts[job[w].ip] \in 0..Slots
           /\ Goal[job[w].i] = Expected(job[w].ip)
<1>1. scan \in Scans /\ idx \in Nat /\ idx <= Len(Hosts) /\ Len(Hosts) \in Nat /\ Hosts \in Seq(Nat)
    BY TypeFacts DEF IInv
<1>2. IsJob(job[w])
    BY DEF IInv, WorkerOf, Busy
<1>3. job[w].i \in 1..Len(Hosts) /\ job[w].ip = Hosts[job[w].i]
    BY <1>1, <1>2 DEF IsJob
<1>4. job[w].ip \in 0..(2 ^ scan.bits - 1)
    BY <1>1, <1>3, HostsFacts
<1>5. scan.accepts[job[w].ip] \in 0..Slots
    BY <1>1, <1>4, ScanFacts
<1>6. job[w].ip \in Nat
    BY <1>1, <1>3
<1>7. Goal[job[w].i] = Expected(job[w].ip)
    BY <1>3 DEF Goal
<1> QED BY <1>3, <1>5, <1>6, <1>7

\* The four ways in which probeS7 returns.
LEMMA ProbeEndsIInv ==
    ASSUME IInv, NEW w \in Workers,
           AttemptsUsedUp(w) \/ ProbeCancelled(w) \/ Found(w) \/ NotFound(w)
    PROVE  IInv'
<1> DEFINE ip == job[w].ip
           s  == scan.accepts[ip]
<1>1. at[w] \in {"probe", "connect"}
    BY DEF AttemptsUsedUp, ProbeCancelled, MayTry, Found, NotFound
<1>2. /\ job[w].i \in 1..Len(Hosts) /\ ip = Hosts[job[w].i] /\ ip \in Nat /\ s \in 0..Slots
      /\ Goal[job[w].i] = Expected(ip)
    BY <1>1, JobFacts
<1>3. /\ slot[w] \in 1..(Slots + 1) /\ (scan.limit = 0 \/ slot[w] <= scan.limit + 1)
      /\ ctx = "live" /\ ~scan.flaky => s = 0 \/ slot[w] <= s
    BY <1>1 DEF IInv, WorkerOf
<1>4. Slots \in Nat \ {0} /\ scan.limit \in Nat
    BY TypeFacts DEF IInv
<1>5. Expected(ip) = IF s # 0 /\ (scan.limit = 0 \/ s <= scan.limit) THEN Result(ip, "s7", s)
                     ELSE Result(ip, IF scan.limit \in 1..(Slots - 1) THEN "max_attempts" ELSE "none", 0)
    BY DEF Expected
<1>6. 0 \in 0..Slots /\ {"s7", "none", "max_attempts", "context_canceled"} \subseteq Statuses
    BY <1>4 DEF Statuses
<1> HIDE DEF ip, s
<1>7. CASE AttemptsUsedUp(w)
  <2> DEFINE r == Result(ip, "max_attempts", 0)
  <2>1. slot[w] <= Slots /\ scan.limit > 0 /\ slot[w] > scan.limit /\ ProbeReturns(w, r)
      BY <1>7 DEF AttemptsUsedUp, ip
  <2>2. r \in Results /\ r.ip = ip /\ r.status = "max_attempts"
      BY <1>2, <1>6, ResultFacts
  <2>3. ctx = "live" /\ ~scan.flaky => ~(s # 0 /\ (scan.limit = 0 \/ s <= scan.limit))
      BY <1>2, <1>3, <1>4, <2>1
  <2>4. scan.limit \in 1..(Slots - 1)
      BY <1>3, <1>4, <2>1
  <2>5. ctx = "live" /\ ~scan.flaky => r = Expected(ip)
      BY <1>5, <2>3, <2>4
  <2> HIDE DEF r
  <2>6. Honest(job[w].i, r)
      BY <1>2, <2>2, <2>5 DEF Honest
  <2> QED BY <1>1, <2>1, <2>6, ProbeReturnsIInv
<1>8. CASE ProbeCancelled(w)
  <2> DEFINE r == Result(ip, "context_canceled", 0)
  <2>1. ctx = "done" /\ ProbeReturns(w, r)
      BY <1>8 DEF ProbeCancelled, ip
  <2>2. r \in Results /\ r.ip = ip /\ r.status = "context_canceled"
      BY <1>2, <1>6, ResultFacts
  <2> HIDE DEF r
  <2>3. Honest(job[w].i, r)
      BY <1>2, <2>1, <2>2 DEF Honest
  <2> QED BY <1>1, <2>1, <2>3, ProbeReturnsIInv
<1>9. CASE Found(w)
  <2> DEFINE r == Result(ip, "s7", slot[w])
  <2>1. at[w] = "connect" /\ slot[w] = s /\ ProbeReturns(w, r)
      BY <1>9 DEF Found, ip, s
  <2>2. slot[w] \in 0..Slots
      BY <1>2, <2>1
  <2>3. r \in Results /\ r.ip = ip /\ r.status = "s7"
      BY <1>2, <1>6, <2>2, ResultFacts, SMTT(30)
  <2>4. s # 0 /\ (scan.limit = 0 \/ s <= scan.limit)
      BY <1>3, <1>4, <2>1 DEF IInv, WorkerOf
  <2>5. r = Expected(ip)
      BY <1>5, <2>1, <2>4
  <2> HIDE DEF r
  <2>6. Honest(job[w].i, r)
      BY <1>2, <2>3, <2>5 DEF Honest
  <2> QED BY <1>1, <2>1, <2>6, ProbeReturnsIInv
<1>10. CASE NotFound(w)
  <2> DEFINE r == Result(ip, "none", 0)
  <2>1. slot[w] > Slots /\ ProbeReturns(w, r)
      BY <1>10 DEF NotFound, ip
  <2>2. r \in Results /\ r.ip = ip /\ r.status = "none"
      BY <1>2, <1>6, ResultFacts
  <2>3. ctx = "live" /\ ~scan.flaky => s = 0
      BY <1>2, <1>3, <1>4, <2>1
  <2>4. scan.limit \notin 1..(Slots - 1)
      BY <1>3, <1>4, <2>1
  <2>5. ctx = "live" /\ ~scan.flaky => r = Expected(ip)
      BY <1>5, <2>3, <2>4
  <2> HIDE DEF r
  <2>6. Honest(job[w].i, r)
      BY <1>2, <2>2, <2>5 DEF Honest
  <2> QED BY <1>1, <2>1, <2>6, ProbeReturnsIInv
<1> QED BY <1>7, <1>8, <1>9, <1>10

\* One more rack/slot is tried, and was the wrong one.
LEMMA TryIInv ==
    ASSUME IInv, NEW w \in Workers, TryConnect(w) \/ ConnectFails(w)
    PROVE  IInv'
<1>1. at[w] \in {"probe", "connect"}
    BY DEF TryConnect, MayTry, ConnectFails
<1>2. IsJob(job[w]) /\ at[w] \in Busy /\ count # 0
    BY <1>1, BusyStarted DEF IInv, WorkerOf, Busy
<1>3. Slots \in Nat \ {0} /\ scan.limit \in Nat /\ scan.accepts[job[w].ip] \in 0..Slots
    BY <1>1, TypeFacts, JobFacts DEF IInv
<1>4. /\ slot[w] \in 1..(Slots + 1) /\ (scan.limit = 0 \/ slot[w] <= scan.limit + 1)
      /\ ctx = "live" /\ ~scan.flaky =>
            scan.accepts[job[w].ip] = 0 \/ slot[w] <= scan.accepts[job[w].ip]
    BY <1>1 DEF IInv, WorkerOf
<1>5. CASE TryConnect(w)
  <2>1. /\ slot[w] <= Slots /\ (scan.limit = 0 \/ slot[w] <= scan.limit)
        /\ at' = [at EXCEPT ![w] = "connect"]
        /\ UNCHANGED <<scan, ctx, main, count, idx, jobs, closed, job, slot, found, out, outClosed,
                       results, err>>
      BY <1>5 DEF TryConnect, MayTry
  <2>2. /\ at'[w] = "connect" /\ slot' \in [Workers -> 0..(Slots + 1)]
        /\ found' \in [Workers -> Results]
      BY <2>1 DEF IInv, TypeOK
  <2>3. IsJob(job[w])'
      BY <1>2, <2>1, ScanFixed DEF IsJob
  <2>4. WorkerOf(w)'
      BY <1>4, <2>1, <2>2, <2>3 DEF WorkerOf
  <2>5. "connect" \in Busy /\ at[w] # "over"
      BY <1>1 DEF Busy
  <2> QED BY <1>2, <2>1, <2>2, <2>4, <2>5, WorkerKeeps
<1>6. CASE ConnectFails(w)
  <2>1. /\ at[w] = "connect"
        /\ slot[w] # scan.accepts[job[w].ip] \/ scan.flaky \/ ctx = "done"
        /\ at' = [at EXCEPT ![w] = "probe"] /\ slot' = [slot EXCEPT ![w] = slot[w] + 1]
        /\ UNCHANGED <<scan, ctx, main, count, idx, jobs, closed, job, found, out, outClosed,
                       results, err>>
      BY <1>6 DEF ConnectFails
  <2>2. slot[w] <= Slots /\ (scan.limit = 0 \/ slot[w] <= scan.limit)
      BY <2>1 DEF IInv, WorkerOf
  <2>3. slot[w] + 1 \in 1..(Slots + 1) /\ slot[w] + 1 \in 0..(Slots + 1)
      BY <1>3, <1>4, <2>2
  <2>4. /\ at'[w] = "probe" /\ slot'[w] = slot[w] + 1 /\ slot' \in [Workers -> 0..(Slots + 1)]
        /\ \A v \in Workers : v # w => slot'[v] = slot[v]
        /\ found' \in [Workers -> Results]
      BY <2>1, <2>3 DEF IInv, TypeOK
  <2>5. IsJob(job[w])'
      BY <1>2, <2>1, ScanFixed DEF IsJob
  <2>6. scan.limit = 0 \/ slot'[w] <= scan.limit + 1
      BY <1>3, <1>4, <2>2, <2>4
  <2>7. ctx = "live" /\ ~scan.flaky =>
            scan.accepts[job[w].ip] = 0 \/ slot'[w] <= scan.accepts[job[w].ip]
    <3>1. ctx = "live" => ctx # "done"
        OBVIOUS
    <3> QED BY <1>3, <1>4, <2>1, <2>4, <3>1
  <2>8. WorkerOf(w)'
      BY <2>1, <2>3, <2>4, <2>5, <2>6, <2>7 DEF WorkerOf
  <2>9. "probe" \in Busy /\ at[w] # "over"
      BY <1>1 DEF Busy
  <2> QED BY <1>2, <2>1, <2>4, <2>8, <2>9, WorkerKeeps
<1> QED BY <1>5, <1>6

LEMMA DropIInv ==
    ASSUME IInv, NEW w \in Workers, Drop(w)
    PROVE  IInv'
<1>1. /\ at[w] = "put" /\ ctx = "done" /\ at' = [at EXCEPT ![w] = "over"]
      /\ UNCHANGED <<scan, ctx, main, count, idx, jobs, closed, job, slot, found, out, outClosed,
                     results, err>>
    BY DEF Drop
<1>2. /\ slot' \in [Workers -> 0..(Slots + 1)] /\ found' \in [Workers -> Results]
      /\ at'[w] = "over" /\ at[w] \in Busy
    BY <1>1 DEF IInv, TypeOK, Busy
<1>3. WorkerOf(w)'
    BY <1>2 DEF WorkerOf, Busy
<1> QED BY <1>1, <1>2, <1>3, BusyStarted, WorkerKeeps

\* A result is sent into out.
LEMMA PutIInv ==
    ASSUME IInv, NEW w \in Workers, Put(w)
    PROVE  IInv'
<1> USE DEF IInv
<1> DEFINE o == [i |-> job[w].i, r |-> found[w]]
<1>1. /\ at[w] = "put" /\ Len(out) < count /\ out' = Append(out, o)
      /\ at' = [at EXCEPT ![w] = "take"]
      /\ UNCHANGED <<scan, ctx, main, count, idx, jobs, closed, job, slot, found, outClosed,
                     results, err>>
    BY DEF Put
<1>2. Hosts' = Hosts /\ Goal' = Goal
    BY <1>1, ScanFixed
<1>3. out \in Seq([i : Nat, r : Results]) /\ Len(out) \in Nat /\ count \in Nat /\ idx \in Nat
    BY TypeFacts
<1>4. job[w].i \in 1..idx /\ Honest(job[w].i, found[w]) /\ at[w] \in Busy
    BY <1>1 DEF WorkerOf, IsJob, Busy
<1>5. o.i = job[w].i /\ o.r = found[w] /\ o \in [i : Nat, r : Results]
  <2>1. job[w].i \in Nat
      BY <1>3, <1>4
  <2>2. found[w] \in Results
      BY <1>4, Zenon DEF Honest
  <2> QED BY <2>1, <2>2
<1> HIDE DEF o
<1>6. /\ out' \in Seq([i : Nat, r : Results]) /\ Len(out') = Len(out) + 1 /\ out'[Len(out) + 1] = o
      /\ \A p \in 1..Len(out) : out'[p] = out[p]
    BY <1>1, <1>3, <1>5
<1>7. /\ at' \in [Workers -> {"take", "probe", "connect", "put", "over"}]
      /\ at'[w] = "take" /\ \A v \in Workers : v # w => at'[v] = at[v]
    BY <1>1 DEF TypeOK
<1>8. TypeOK'
  <2>1. Len(out') <= count
      BY <1>1, <1>3, <1>6
  <2> QED BY <1>1, <1>2, <1>6, <1>7, <2>1 DEF TypeOK
<1>9. Started'
    BY <1>1, <1>2, <1>4, BusyStarted DEF Started
<1>10. InPlace'
  <2>1. \A p \in 1..Len(jobs') : IsJob(jobs[p])'
      BY <1>1, <1>2 DEF InPlace, IsJob
  <2>2. ASSUME NEW p \in 1..Len(out') PROVE (out[p].i \in 1..idx /\ Honest(out[p].i, out[p].r))'
    <3>1. CASE p \in 1..Len(out)
      <4>1. out'[p] = out[p] /\ out[p].i \in 1..idx /\ Honest(out[p].i, out[p].r)
          BY <1>6, <3>1 DEF InPlace
      <4> QED BY <1>1, <1>2, <4>1 DEF Honest
    <3>2. CASE p = Len(out) + 1
        BY <1>1, <1>2, <1>4, <1>5, <1>6, <3>2 DEF Honest
    <3> QED BY <1>3, <1>6, <3>1, <3>2
  <2>3. \A n \in 1..Len(results') : (results[n] = ZeroResult \/ Honest(n, results[n]))'
      BY <1>1, <1>2 DEF InPlace, Honest
  <2> QED BY <2>1, <2>2, <2>3 DEF InPlace
<1>11. \A v \in Workers : WorkerOf(v)'
  <2>1. WorkerOf(w)'
      BY <1>7 DEF WorkerOf, Busy
  <2>2. \A v \in Workers : v # w => WorkerOf(v)'
      BY <1>1, <1>2, <1>7 DEF WorkerOf, IsJob, Honest
  <2> QED BY <2>1, <2>2
<1>12. Conserved'
  <2> SUFFICES ASSUME ctx = "live", NEW n \in 1..idx
               PROVE  InFlight(n)' \/ results'[n] # ZeroResult
      BY <1>1 DEF Conserved
  <2>1. CASE n = o.i
    <3>1. Len(out) + 1 \in 1..Len(out') /\ out'[Len(out) + 1].i = n
        BY <1>3, <1>6, <2>1
    <3> QED BY <3>1 DEF InFlight
  <2>2. CASE n # o.i
    <3>1. InFlight(n) \/ results[n] # ZeroResult
        BY DEF Conserved
    <3>2. 1..Len(out) \subseteq 1..Len(out')
        BY <1>3, <1>6
    <3>3. ASSUME NEW v \in Workers, at[v] \in Busy, job[v].i = n PROVE at'[v] \in Busy
        BY <1>5, <1>7, <2>2, <3>3
    <3> QED BY <1>1, <1>6, <3>1, <3>2, <3>3 DEF InFlight
  <2> QED BY <2>1, <2>2
<1>13. Closing'
    BY <1>1, <1>2, <1>7 DEF Closing
<1>14. Complete'
    BY <1>1, CompleteFixed
<1> QED BY <1>8, <1>9, <1>10, <1>11, <1>12, <1>13, <1>14

\* IInv is inductive.
LEMMA NextIInv ==
    ASSUME IInv, [Next]_vars
    PROVE  IInv'
<1>1. CASE UNCHANGED vars
  <2> USE <1>1 DEF IInv, vars, workVars
  <2>1. Hosts' = Hosts /\ Goal' = Goal
      BY ScanFixed
  <2>2. TypeOK' /\ Started' /\ Closing'
      BY <2>1 DEF TypeOK, Started, Closing
  <2>3. InPlace'
      BY <2>1 DEF InPlace, IsJob, Honest
  <2>4. \A w \in Workers : WorkerOf(w)'
      BY <2>1 DEF WorkerOf, IsJob, Honest
  <2>5. Conserved'
      BY DEF Conserved, InFlight
  <2>6. Complete'
      BY CompleteFixed
  <2> QED BY <2>2, <2>3, <2>4, <2>5, <2>6
<1>2. CASE Caller
    BY <1>2, CountHostsIInv, CountCancelledIInv, CollectIInv, ReturnIInv DEF Caller
<1>3. CASE ContextDone \/ Producer \/ CloseOut
    BY <1>3, ContextDoneIInv, ProduceIInv, CloseIInv DEF Producer
<1>4. ASSUME NEW w \in Workers, Worker(w) PROVE IInv'
    BY <1>4, TakeIInv, NoMoreJobsIInv, ProbeEndsIInv, TryIInv, PutIInv, DropIInv DEF Worker
<1> QED BY <1>1, <1>2, <1>3, <1>4 DEF Next

-----------------------------------------------------------------------------
(* The theorems *)

\* The inductive invariant holds in every reachable state, for any network and
\* any number of workers and rack/slots: no job is lost while the context is
\* live, and every result belongs to its host.
THEOREM DiscoverInvariance == Spec => []IInv
<1>1. Init => IInv
    BY InitIInv
<1>2. IInv /\ [Next]_vars => IInv'
    BY NextIInv
<1> QED BY <1>1, <1>2, PTL DEF Spec

\* Discover's results are in the order of the addresses, whichever worker
\* probed them, and leave out the ends of a real subnet.
THEOREM DiscoverResultsInOrder == Spec => []ResultsInOrder
<1>1. IInv => ResultsInOrder
  <2> SUFFICES ASSUME IInv, NEW n \in 1..Len(results)
               PROVE  /\ results[n].ip \in {-1, Hosts[n]}
                      /\ scan.bits > 1 => results[n].ip \notin {0, 2 ^ scan.bits - 1}
      BY DEF ResultsInOrder
  <2>1. scan \in Scans /\ n \in 1..Len(Hosts)
    <3>1. count # 0
      <4>1. 1..Len(<<>>) = {}
          OBVIOUS
      <4> QED BY <4>1 DEF IInv, Started
    <3> QED BY <3>1, TypeFacts DEF IInv, Started
  <2> DEFINE total == 2 ^ scan.bits
  <2>2. /\ total \in Nat \ {0} /\ Hosts[n] \in 0..(total - 1)
        /\ scan.bits > 1 => Hosts[n] \notin {0, total - 1} /\ total > 2
      BY <2>1, HostsFacts, ScanFacts
  <2>3. results[n].ip \in {-1, Hosts[n]}
      BY ZeroFacts DEF IInv, InPlace, Honest
  <2> HIDE DEF total
  <2>4. -1 # 0 /\ -1 # total - 1
      BY <2>2
  <2>5. scan.bits > 1 => results[n].ip \notin {0, total - 1}
      BY <2>2, <2>3, <2>4
  <2> QED BY <2>3, <2>5 DEF total
<1> QED BY <1>1, DiscoverInvariance, PTL

\* A Discover that returns without an error has probed every host to the end.
THEOREM DiscoverIsComplete == Spec => []Complete
<1>1. IInv => Complete
    BY DEF IInv
<1> QED BY <1>1, DiscoverInvariance, PTL

-----------------------------------------------------------------------------
(* Discover implements Pool. *)

\* Jobs are numbered in the order they are sent in, so the queue holds those
\* after the ones taken, and no two workers have the same; only opts.parallel
\* workers exist; and a call that has started them returns after close(out).
PoolInv ==
    /\ Len(jobs) <= idx
    /\ \A p \in 1..Len(jobs) : jobs[p].i = Taken + p
    /\ \A w \in Probing : job[w].i <= Taken
    /\ \A v, w \in Probing : job[v].i = job[w].i => v = w
    /\ \A w \in Workers : ~(w <= scan.parallel) => at[w] = "over"
    /\ main = "done" /\ count # 0 => outClosed

\* A step in which no worker begins a probe and no job is sent.
LEMMA PoolInvKeeps ==
    ASSUME PoolInv, UNCHANGED <<scan, idx, jobs, job>>,
           Probing' \subseteq Probing,
           \A w \in Workers : at[w] = "over" => at'[w] = "over",
           main' = "done" /\ count' # 0 => outClosed'
    PROVE  PoolInv'
<1>1. Taken' = Taken
    BY DEF Taken
<1> QED BY <1>1 DEF PoolInv

\* What a worker of its own changes.
LEMMA WorkerMoves ==
    ASSUME TypeOK, NEW w \in Workers, NEW x, at' = [at EXCEPT ![w] = x]
    PROVE  /\ \A v \in Workers : v # w => at'[v] = at[v]
           /\ at'[w] = x
           /\ x \in {"probe", "connect"} => Probing' = Probing \cup {w}
           /\ x \notin {"probe", "connect"} => Probing' = Probing \ {w}
           /\ \A v \in Workers : at[w] # "over" /\ at[v] = "over" => at'[v] = "over"
<1>1. at'[w] = x /\ \A v \in Workers : v # w => at'[v] = at[v]
    BY DEF TypeOK
<1> QED BY <1>1 DEF Probing

LEMMA InitPoolInv == Init => PoolInv
<1> SUFFICES ASSUME Init PROVE PoolInv
    OBVIOUS
<1> USE DEF Init
<1>1. 1..Len(<<>>) = {} /\ Len(<<>>) = 0
    OBVIOUS
<1>2. Len(jobs) <= idx /\ \A p \in 1..Len(jobs) : jobs[p].i = Taken + p
    BY <1>1
<1>3. Probing = {}
    BY DEF Probing
<1>4. \A w \in Workers : ~(w <= scan.parallel) => at[w] = "over"
    OBVIOUS
<1> QED BY <1>2, <1>3, <1>4 DEF PoolInv

\* What Take does to the queue and to the worker.
LEMMA TakeFacts ==
    ASSUME IInv, PoolInv, NEW w \in Workers, Take(w)
    PROVE  /\ idx \in Nat /\ Len(jobs) \in Nat \ {0} /\ Len(jobs) <= idx
           /\ Taken \in Nat /\ Taken' = Taken + 1 /\ Taken + 1 <= idx
           /\ Len(jobs') = Len(jobs) - 1 /\ idx' = idx
           /\ \A p \in 1..Len(jobs') : jobs'[p].i = Taken' + p
           /\ at[w] = "take" /\ job'[w].i = Taken + 1
           /\ \A v \in Workers : v # w => job'[v] = job[v] /\ at'[v] = at[v]
           /\ w \notin Probing /\ Probing' = Probing \cup {w}
<1> DEFINE h == Head(jobs)
<1>1. /\ at[w] = "take" /\ jobs # <<>> /\ jobs' = Tail(jobs) /\ job' = [job EXCEPT ![w] = h]
      /\ at' = [at EXCEPT ![w] = "probe"] /\ idx' = idx
    BY DEF Take
<1>2. jobs \in Seq(Jobs) /\ Len(jobs) \in Nat /\ idx \in Nat /\ Len(jobs) <= idx
    BY TypeFacts DEF IInv, PoolInv
<1>3. /\ Len(jobs) # 0 /\ Len(jobs') = Len(jobs) - 1 /\ h = jobs[1]
      /\ \A p \in 1..Len(jobs') : p + 1 \in 1..Len(jobs) /\ jobs'[p] = jobs[p + 1]
    BY <1>1, <1>2
<1>4. Taken \in Nat /\ Taken' = Taken + 1 /\ Taken + 1 <= idx /\ 1 \in 1..Len(jobs)
    BY <1>1, <1>2, <1>3 DEF Taken
<1>5. h.i = Taken + 1
    BY <1>3, <1>4 DEF PoolInv
<1>6. ASSUME NEW p \in 1..Len(jobs') PROVE jobs'[p].i = Taken' + p
  <2>1. jobs'[p].i = Taken + (p + 1) /\ p \in Nat
      BY <1>2, <1>3 DEF PoolInv
  <2> QED BY <1>4, <2>1
<1> HIDE DEF h
<1>7. /\ job'[w] = h /\ \A v \in Workers : v # w => job'[v] = job[v]
    BY <1>1 DEF IInv, TypeOK
<1>8. /\ \A v \in Workers : v # w => at'[v] = at[v]
      /\ Probing' = Probing \cup {w} /\ w \notin Probing
    BY <1>1, WorkerMoves DEF IInv, Probing
<1> QED BY <1>1, <1>2, <1>3, <1>4, <1>5, <1>6, <1>7, <1>8

LEMMA TakePoolInv ==
    ASSUME IInv, PoolInv, NEW w \in Workers, Take(w)
    PROVE  PoolInv'
<1>1. /\ idx \in Nat /\ Len(jobs) \in Nat \ {0} /\ Len(jobs) <= idx
      /\ Taken \in Nat /\ Taken' = Taken + 1
      /\ Len(jobs') = Len(jobs) - 1 /\ idx' = idx
      /\ \A p \in 1..Len(jobs') : jobs'[p].i = Taken' + p
      /\ at[w] = "take" /\ job'[w].i = Taken + 1
      /\ \A v \in Workers : v # w => job'[v] = job[v] /\ at'[v] = at[v]
      /\ w \notin Probing /\ Probing' = Probing \cup {w}
    BY TakeFacts
<1>2. Len(jobs') <= idx'
    BY <1>1
<1>3. ASSUME NEW v \in Probing
      PROVE  v # w /\ job'[v] = job[v] /\ job[v].i \in Nat /\ job[v].i <= Taken
  <2>1. v # w /\ v \in Workers
      BY <1>1 DEF Probing
  <2>2. job[v] \in Jobs
      BY <2>1 DEF IInv, TypeOK
  <2>3. job[v].i \in Nat
      BY <2>2 DEF Jobs
  <2> QED BY <1>1, <2>1, <2>3 DEF PoolInv
<1>4. \A v \in Probing' : job'[v].i <= Taken'
  <2> SUFFICES ASSUME NEW v \in Probing' PROVE job'[v].i <= Taken'
      OBVIOUS
  <2>1. CASE v = w
      BY <1>1, <2>1
  <2>2. CASE v \in Probing
    <3>1. job'[v].i = job[v].i /\ job[v].i \in Nat /\ job[v].i <= Taken
        BY <1>3, <2>2
    <3> QED BY <1>1, <3>1
  <2> QED BY <1>1, <2>1, <2>2
<1>5. \A u, v \in Probing' : job'[u].i = job'[v].i => u = v
  <2> SUFFICES ASSUME NEW u \in Probing', NEW v \in Probing', job'[u].i = job'[v].i PROVE u = v
      OBVIOUS
  <2>1. \A x \in Probing : job'[x].i # Taken + 1
    <3> SUFFICES ASSUME NEW x \in Probing PROVE job'[x].i # Taken + 1
        OBVIOUS
    <3>1. job'[x].i = job[x].i /\ job[x].i \in Nat /\ job[x].i <= Taken
        BY <1>3
    <3> QED BY <1>1, <3>1
  <2>2. CASE u \in Probing /\ v \in Probing
      BY <1>3, <2>2 DEF PoolInv
  <2>3. CASE u = w \/ v = w
      BY <1>1, <2>1, <2>3
  <2> QED BY <1>1, <2>2, <2>3
<1>6. \A v \in Workers : ~(v <= scan'.parallel) => at'[v] = "over"
  <2>1. scan' = scan /\ w <= scan.parallel
      BY <1>1 DEF PoolInv, Take
  <2> QED BY <1>1, <2>1 DEF PoolInv
<1>7. main' = "done" /\ count' # 0 => outClosed'
    BY DEF PoolInv, Take
<1> QED BY <1>1, <1>2, <1>4, <1>5, <1>6, <1>7 DEF PoolInv

\* A job that is sent gets the next number.
LEMMA ProduceFacts ==
    ASSUME IInv, PoolInv, Produce
    PROVE  PoolInv' /\ Taken' = Taken
<1> DEFINE j == [i |-> idx + 1, ip |-> Hosts[idx + 1]]
<1>1. /\ jobs' = Append(jobs, j) /\ idx' = idx + 1 /\ idx < Len(Hosts)
      /\ UNCHANGED <<scan, main, count, at, job, outClosed>>
    BY DEF Produce, workVars
<1>2. /\ jobs \in Seq(Jobs) /\ Len(jobs) \in Nat /\ idx \in Nat /\ Len(jobs) <= idx
      /\ Hosts \in Seq(Nat) /\ Len(Hosts) \in Nat
    BY TypeFacts DEF IInv, PoolInv
<1>3. j \in Jobs /\ j.i = idx + 1
  <2>1. Hosts[idx + 1] \in Nat
      BY <1>1, <1>2
  <2> QED BY <1>2, <2>1 DEF Jobs
<1> HIDE DEF j
<1>4. /\ Len(jobs') = Len(jobs) + 1 /\ jobs'[Len(jobs) + 1] = j
      /\ \A p \in 1..Len(jobs) : jobs'[p] = jobs[p]
    BY <1>1, <1>2, <1>3
<1>5. Taken' = Taken /\ Taken \in Nat /\ Taken + (Len(jobs) + 1) = idx + 1 /\ Len(jobs') <= idx'
    BY <1>1, <1>2, <1>4 DEF Taken
<1>6. ASSUME NEW p \in 1..Len(jobs') PROVE jobs'[p].i = Taken' + p
  <2>1. CASE p = Len(jobs) + 1
      BY <1>3, <1>4, <1>5, <2>1
  <2>2. CASE p # Len(jobs) + 1
    <3>1. p \in 1..Len(jobs)
        BY <1>2, <1>4, <2>2
    <3> QED BY <1>4, <1>5, <3>1 DEF PoolInv
  <2> QED BY <2>1, <2>2
<1>7. Probing' = Probing
    BY <1>1 DEF Probing
<1> QED BY <1>1, <1>5, <1>6, <1>7 DEF PoolInv

\* The end of a probe, whatever its result.
LEMMA EndsProbe ==
    ASSUME IInv, PoolInv, NEW w \in Workers, NEW r,
           at[w] \in {"probe", "connect"}, ProbeReturns(w, r)
    PROVE  /\ w \in Probing /\ Probing' = Probing \ {w} /\ PoolInv'
           /\ UNCHANGED <<scan, main, idx, jobs, job>>
<1>1. /\ at' = [at EXCEPT ![w] = "put"]
      /\ UNCHANGED <<scan, main, count, idx, jobs, job, outClosed>>
    BY DEF ProbeReturns
<1>2. w \in Probing /\ Probing' = Probing \ {w}
    BY <1>1, WorkerMoves, ZenonT(30) DEF IInv, Probing
<1>3. \A v \in Workers : at[v] = "over" => at'[v] = "over"
    BY <1>1, WorkerMoves DEF IInv
<1>4. PoolInv'
    BY <1>1, <1>2, <1>3, PoolInvKeeps DEF PoolInv
<1> QED BY <1>1, <1>2, <1>4

\* The steps of a worker that neither begin nor end a probe.
LEMMA WorkerStutters ==
    ASSUME IInv, PoolInv, NEW w \in Workers,
           NoMoreJobs(w) \/ TryConnect(w) \/ ConnectFails(w) \/ Put(w) \/ Drop(w)
    PROVE  PoolInv' /\ Probing' = Probing /\ UNCHANGED <<scan, main, idx, jobs, job>>
<1>1. /\ UNCHANGED <<scan, main, count, idx, jobs, job, outClosed>> /\ at[w] # "over"
      /\ \E x \in {"take", "probe", "connect", "over"} :
            /\ at' = [at EXCEPT ![w] = x]
            /\ x \in {"probe", "connect"} <=> at[w] \in {"probe", "connect"}
    BY DEF NoMoreJobs, TryConnect, MayTry, ConnectFails, Put, Drop
<1>2. PICK x \in {"take", "probe", "connect", "over"} :
          /\ at' = [at EXCEPT ![w] = x]
          /\ x \in {"probe", "connect"} <=> at[w] \in {"probe", "connect"}
    BY <1>1
<1>3. Probing' = Probing /\ \A v \in Workers : at[v] = "over" => at'[v] = "over"
    BY <1>1, <1>2, WorkerMoves DEF IInv, Probing
<1>4. PoolInv'
    BY <1>1, <1>3, PoolInvKeeps DEF PoolInv
<1> QED BY <1>1, <1>3, <1>4

\* The caller, the closer and the context leave the workers alone.
LEMMA OthersKeep ==
    ASSUME IInv, PoolInv,
           \/ ContextDone \/ Caller \/ CloseJobs \/ CloseOut \/ UNCHANGED vars
    PROVE  PoolInv' /\ Probing' = Probing /\ UNCHANGED <<scan, idx, jobs, job>>
<1>1. UNCHANGED <<scan, idx, jobs, at, job>>
    BY DEF ContextDone, Caller, CountHosts, CountCancelled, Collect, Return, CloseJobs, CloseOut,
           vars, workVars
<1>2. Probing' = Probing /\ \A v \in Workers : at[v] = "over" => at'[v] = "over"
    BY <1>1 DEF Probing
<1>3. main' = "done" /\ count' # 0 => outClosed'
    BY DEF ContextDone, Caller, CountHosts, CountCancelled, Collect, Return, CloseJobs, CloseOut,
           vars, IInv, Started, PoolInv
<1>4. PoolInv'
    BY <1>1, <1>2, <1>3, PoolInvKeeps
<1> QED BY <1>1, <1>2, <1>4

\* PoolInv is inductive, given IInv.
LEMMA NextPoolInv == IInv /\ PoolInv /\ [Next]_vars => PoolInv'
<1> SUFFICES ASSUME IInv, PoolInv, [Next]_vars PROVE PoolInv'
    OBVIOUS
<1>1. CASE ContextDone \/ Caller \/ CloseJobs \/ CloseOut \/ UNCHANGED vars
    BY <1>1, OthersKeep
<1>2. CASE Produce
    BY <1>2, ProduceFacts
<1>3. ASSUME NEW w \in Workers, Worker(w) PROVE PoolInv'
  <2>1. CASE Take(w)
      BY <2>1, TakePoolInv
  <2>2. CASE NoMoreJobs(w) \/ TryConnect(w) \/ ConnectFails(w) \/ Put(w) \/ Drop(w)
      BY <2>2, WorkerStutters
  <2>3. CASE AttemptsUsedUp(w) \/ ProbeCancelled(w) \/ Found(w) \/ NotFound(w)
      BY <2>3, EndsProbe DEF AttemptsUsedUp, ProbeCancelled, MayTry, Found, NotFound
  <2> QED BY <1>3, <2>1, <2>2, <2>3 DEF Worker
<1> QED BY <1>1, <1>2, <1>3 DEF Next, Producer

\* Pool counts like this module.
LEMMA SameCardinality ==
    ASSUME NEW S
    PROVE  ThePool!Cardinality(S) = Cardinality(S)
BY Zenon DEF Cardinality, ThePool!Cardinality

\* No more hosts are probed than there are workers other than w.
LEMMA RoomForOne ==
    ASSUME IInv, PoolInv, NEW w \in Workers, at[w] = "take"
    PROVE  Cardinality(Probed) \in Nat /\ Cardinality(Probed) < scan.parallel
<1> DEFINE W == 1..scan.parallel
           f == [v \in Probing |-> job[v].i]
<1>1. scan.parallel \in Nat \ {0}
    BY TypeFacts DEF IInv
<1>2. \A v \in Workers : v \in Nat \ {0}
    BY DiscoverAssumption DEF Workers
<1>3. Probing \subseteq W \ {w} /\ w \in W
    BY <1>1, <1>2 DEF PoolInv, Probing
<1>4. IsFiniteSet(W) /\ Cardinality(W) = scan.parallel
    BY <1>1, FS_Interval
<1>5. IsFiniteSet(W \ {w}) /\ Cardinality(W \ {w}) = scan.parallel - 1
    BY <1>3, <1>4, FS_RemoveElement
<1> HIDE DEF W
<1>6. IsFiniteSet(Probing) /\ Cardinality(Probing) <= scan.parallel - 1
    BY <1>3, <1>5, FS_Subset
<1>7. f \in Surjection(Probing, Probed)
    BY DEF Surjection, Probed
<1> HIDE DEF f
<1>8. IsFiniteSet(Probed) /\ Cardinality(Probed) <= Cardinality(Probing)
    BY <1>6, <1>7, FS_Surjection
<1>9. Cardinality(Probed) \in Nat /\ Cardinality(Probing) \in Nat
    BY <1>6, <1>8, FS_CardinalityType
<1> QED BY <1>1, <1>6, <1>8, <1>9

\* There are no more hosts than addresses.
LEMMA HostsWithin ==
    ASSUME scan \in Scans
    PROVE  1..Len(Hosts) \subseteq 1..(2 ^ scan.bits)
<1> DEFINE total == 2 ^ scan.bits
<1>1. total \in Nat \ {0}
    BY ScanFacts
<1>2. Hosts = IF total > 2 THEN [k \in 1..(total - 2) |-> k] ELSE [k \in 1..total |-> k - 1]
    BY DEF Hosts, streamCIDR
<1> HIDE DEF total
<1>3. CASE total > 2
  <2>1. Hosts = [k \in 1..(total - 2) |-> k] /\ total - 2 \in Nat
      BY <1>1, <1>2, <1>3
  <2>2. Len(Hosts) = total - 2
      BY <2>1
  <2> QED BY <1>1, <2>2 DEF total
<1>4. CASE ~(total > 2)
  <2>1. Hosts = [k \in 1..total |-> k - 1] /\ total \in Nat
      BY <1>1, <1>2, <1>4
  <2>2. Len(Hosts) = total
      BY <2>1
  <2> QED BY <2>2 DEF total
<1> QED BY <1>3, <1>4

\* The index of a job is a task of the pool.
LEMMA JobIsTask ==
    ASSUME TypeOK, NEW t \in 1..idx
    PROVE  t \in UNION {1..(2 ^ s.bits) : s \in Scans}
<1>1. scan \in Scans /\ idx \in Nat /\ idx <= Len(Hosts) /\ Len(Hosts) \in Nat
    BY TypeFacts
<1>2. t \in 1..Len(Hosts)
    BY <1>1
<1>3. t \in 1..(2 ^ scan.bits)
    BY <1>1, <1>2, HostsWithin
<1> QED BY <1>1, <1>3, Zenon

\* Taking a job is Begin.
LEMMA TakeBegins ==
    ASSUME IInv, PoolInv, NEW w \in Workers, Take(w)
    PROVE  ThePool!Next
<1> DEFINE t == Taken + 1
<1>1. /\ Taken \in Nat /\ Taken' = t /\ t \in 1..idx
      /\ at[w] = "take" /\ job'[w].i = t
      /\ \A v \in Workers : v # w => job'[v] = job[v]
      /\ w \notin Probing /\ Probing' = Probing \cup {w}
    BY TakeFacts
<1>2. /\ scan' = scan /\ main' = main /\ main # "done"
  <2>1. main = "done" /\ count # 0 => \A v \in Workers : at[v] = "over"
      BY DEF IInv, Closing, PoolInv
  <2>2. Running /\ count # 0
      BY BusyStarted DEF Take
  <2> QED BY <1>1, <2>1, <2>2 DEF Take, Running
<1>3. Probing \subseteq Workers
    BY DEF Probing
<1>4. Probed' = Probed \cup {t}
    BY <1>1, <1>3 DEF Probed
<1>5. t \notin Probed
  <2> SUFFICES ASSUME NEW v \in Probing PROVE job[v].i # t
      BY DEF Probed
  <2>1. job[v] \in Jobs
      BY <1>3 DEF IInv, TypeOK
  <2>2. job[v].i \in Nat /\ job[v].i <= Taken
      BY <2>1 DEF Jobs, PoolInv
  <2> QED BY <1>1, <2>2
<1>6. t \notin 1..Taken /\ 1..t = (1..Taken) \cup {t}
    BY <1>1
<1>7. (1..Taken') \ Probed' = (1..Taken) \ Probed
    BY <1>1, <1>4, <1>6
<1>8. Cardinality(Probed) < scan.parallel
    BY <1>1, RoomForOne
<1>9. t \in UNION {1..(2 ^ s.bits) : s \in Scans}
    BY <1>1, JobIsTask DEF IInv
<1>10. t \notin Probed \cup ((1..Taken) \ Probed)
    BY <1>5, <1>6
<1>11. (main' = "done") = (main = "done") /\ ~(main = "done") /\ scan'.parallel = scan.parallel
    BY <1>2
<1> HIDE DEF t
<1>12. ThePool!Begin(t)
    BY <1>4, <1>7, <1>8, <1>10, <1>11, SameCardinality DEF ThePool!Begin
<1> QED BY <1>9, <1>12 DEF ThePool!Next

\* The return of probeS7 is End.
LEMMA ProbeReturnsEnds ==
    ASSUME IInv, PoolInv, NEW w \in Workers, NEW r,
           at[w] \in {"probe", "connect"}, ProbeReturns(w, r)
    PROVE  ThePool!Next
<1> DEFINE t == job[w].i
<1>1. /\ w \in Probing /\ Probing' = Probing \ {w}
      /\ UNCHANGED <<scan, main, idx, jobs, job>>
    BY EndsProbe
<1>2. t \in 1..idx /\ t \in 1..Taken
  <2>1. IsJob(job[w])
      BY DEF IInv, WorkerOf, Busy
  <2>2. idx \in Nat /\ Len(jobs) \in Nat /\ Len(jobs) <= idx
      BY TypeFacts DEF IInv, PoolInv
  <2>3. Taken \in Nat
      BY <2>2 DEF Taken
  <2>4. t \in 1..idx
      BY <2>1 DEF IsJob
  <2>5. t <= Taken
      BY <1>1 DEF PoolInv
  <2> QED BY <2>2, <2>3, <2>4, <2>5
<1>3. Taken' = Taken
    BY <1>1 DEF Taken
<1>4. t \in Probed
    BY <1>1 DEF Probed
<1>5. Probed' = Probed \ {t}
  <2>1. Probed' = {job[v].i : v \in Probing \ {w}}
      BY <1>1 DEF Probed
  <2>2. \A v \in Probing \ {w} : job[v].i # t
      BY <1>1 DEF PoolInv
  <2> QED BY <2>1, <2>2 DEF Probed
<1>6. (1..Taken') \ Probed' = ((1..Taken) \ Probed) \cup {t}
    BY <1>2, <1>3, <1>4, <1>5
<1>7. t \in UNION {1..(2 ^ s.bits) : s \in Scans}
    BY <1>2, JobIsTask DEF IInv
<1>8. (main' = "done") = (main = "done") /\ scan'.parallel = scan.parallel
    BY <1>1
<1> HIDE DEF t
<1>9. ThePool!End(t)
    BY <1>4, <1>5, <1>6, <1>8 DEF ThePool!End
<1> QED BY <1>7, <1>9 DEF ThePool!Next

\* Returning is Finish.
LEMMA ReturnFinishes ==
    ASSUME IInv, PoolInv, CountCancelled \/ Return
    PROVE  ThePool!Next
<1>1. Probing' = Probing /\ UNCHANGED <<scan, idx, jobs, job>>
    BY OthersKeep DEF Caller
<1>2. \A w \in Workers : at[w] \in {"take", "over"}
    BY DEF CountCancelled, Return, IInv, Started, Closing
<1>3. Probing = {}
    BY <1>2 DEF Probing
<1>4. Probed = {} /\ Probed' = Probed /\ Taken' = Taken
    BY <1>1, <1>3 DEF Probed, Taken
<1>5. ~(main = "done") /\ (main' = "done") = TRUE /\ scan'.parallel = scan.parallel
    BY <1>1 DEF CountCancelled, Return
<1>6. ThePool!Finish
    BY <1>4, <1>5 DEF ThePool!Finish
<1> QED BY <1>6 DEF ThePool!Next

\* A step in which no probe begins or ends and the caller does not return.
LEMMA PoolStutters ==
    ASSUME UNCHANGED <<scan, job>>, Probing' = Probing, Taken' = Taken,
           (main' = "done") = (main = "done")
    PROVE  UNCHANGED ThePool!vars
<1>1. Probed' = Probed
    BY DEF Probed
<1> QED BY <1>1 DEF ThePool!vars

LEMMA NextImplementsPool ==
    IInv /\ PoolInv /\ [Next]_vars => [ThePool!Next]_(ThePool!vars)
<1> SUFFICES ASSUME IInv, PoolInv, [Next]_vars
             PROVE  ThePool!Next \/ UNCHANGED ThePool!vars
    OBVIOUS
<1>1. CASE CountCancelled \/ Return
    BY <1>1, ReturnFinishes
<1>2. CASE ContextDone \/ CountHosts \/ Collect \/ CloseJobs \/ CloseOut \/ UNCHANGED vars
  <2>1. Probing' = Probing /\ UNCHANGED <<scan, idx, jobs, job>>
      BY <1>2, OthersKeep DEF Caller
  <2>2. (main' = "done") = (main = "done")
      BY <1>2 DEF ContextDone, CountHosts, Collect, CloseJobs, CloseOut, vars
  <2>3. Taken' = Taken
      BY <2>1 DEF Taken
  <2> QED BY <2>1, <2>2, <2>3, PoolStutters
<1>3. CASE Produce
  <2>1. UNCHANGED <<scan, at, job, main>>
      BY <1>3 DEF Produce, workVars
  <2>2. Probing' = Probing /\ (main' = "done") = (main = "done")
      BY <2>1 DEF Probing
  <2> QED BY <1>3, <2>1, <2>2, ProduceFacts, PoolStutters
<1>4. ASSUME NEW w \in Workers, Worker(w) PROVE ThePool!Next \/ UNCHANGED ThePool!vars
  <2>1. CASE Take(w)
      BY <2>1, TakeBegins
  <2>2. CASE NoMoreJobs(w) \/ TryConnect(w) \/ ConnectFails(w) \/ Put(w) \/ Drop(w)
    <3>1. Probing' = Probing /\ UNCHANGED <<scan, main, idx, jobs, job>>
        BY <2>2, WorkerStutters
    <3>2. Taken' = Taken /\ (main' = "done") = (main = "done")
        BY <3>1 DEF Taken
    <3> QED BY <3>1, <3>2, PoolStutters
  <2>3. CASE AttemptsUsedUp(w) \/ ProbeCancelled(w) \/ Found(w) \/ NotFound(w)
      BY <2>3, ProbeReturnsEnds DEF AttemptsUsedUp, ProbeCancelled, MayTry, Found, NotFound
  <2> QED BY <1>4, <2>1, <2>2, <2>3 DEF Worker
<1> QED BY <1>1, <1>2, <1>3, <1>4 DEF Next, Caller, Producer

\* Discover implements Pool, for any network and any number of workers: never
\* more hosts are probed at a time than opts.parallel allows, none is probed
\* twice, and none is being probed when Discover returns, cancelled or not
\* (discover.go, the worker pool of Discover).
THEOREM DiscoverImplementsPool == Spec => ImplementsPool
<1>1. Init => ThePool!Init
  <2> SUFFICES ASSUME Init PROVE ThePool!Init
      OBVIOUS
  <2>1. scan.parallel \in Nat \ {0}
      BY ScanFacts DEF Init
  <2>2. Probing = {} /\ Taken = 0
    <3>1. Len(<<>>) = 0
        OBVIOUS
    <3>2. Taken = 0
      <4>1. idx = 0 /\ Len(jobs) = 0
          BY <3>1, Zenon DEF Init
      <4>2. 0 - 0 = 0
          OBVIOUS
      <4> QED BY <4>1, <4>2, Zenon DEF Taken
    <3>3. \A w \in Workers : at[w] \in {"take", "over"}
        BY DEF Init
    <3> QED BY <3>2, <3>3 DEF Probing
  <2>3. Probed = {} /\ (1..Taken) \ Probed = {}
    <3>1. 1..0 = {}
        OBVIOUS
    <3> QED BY <2>2, <3>1 DEF Probed
  <2>4. (main = "done") = FALSE
      BY DEF Init
  <2> QED BY <2>1, <2>3, <2>4 DEF ThePool!Init
<1>2. Spec => []PoolInv
    BY InitPoolInv, NextPoolInv, DiscoverInvariance, PTL DEF Spec
<1> QED BY <1>1, <1>2, DiscoverInvariance, NextImplementsPool, PTL
        DEF Spec, ImplementsPool, ThePool!Spec
=============================================================================
