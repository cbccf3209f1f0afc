-------------------------- MODULE CompareReadProofs --------------------------
(***************************************************************************)
(* Proofs about CompareRead, for any candidate lists, any parallelism and   *)
(* any data: IInv is inductive, the safety properties follow from it, and   *)
(* CompareRead implements Pool.                                             *)
(*                                                                         *)
(* There is one lemma per action, with one step per conjunct of IInv that   *)
(* the action can disturb.                                                  *)
(***************************************************************************)
EXTENDS CompareRead, FiniteSetTheorems, TLAPS

\* The goroutines that hold a token.
Active == {k \in Tasks : at[k] \in {"dial", "connect", "read", "release"}}

\* The goroutines launched are those before the loop's position.
Launched == \A k \in Tasks : at[k] = "new" <=> k >= i

\* Every token in the channel is one of an active goroutine.
TokensHeld == sem = Cardinality(Active)

\* An element of results is zero until its goroutine, or the loop for one that
\* was never launched, writes it.
ResultOf(k) ==
    /\ Open(k) => results[k] = ZeroOutcome
    /\ at[k] = "read" => target[cands[k]] # NoData
    /\ at[k] \in {"release", "over"} =>
          /\ results[k].rs = cands[k]
          /\ results[k].status = "success" =>
                results[k].data = target[cands[k]] /\ target[cands[k]] # NoData
    /\ at[k] = "new" /\ main = "launch" => results[k] = ZeroOutcome
    /\ at[k] = "new" /\ main # "launch" =>
          ctx # "live" /\ results[k].rs = cands[k] /\ results[k].status # "success"

ResultsWritten == \A k \in DOMAIN cands : ResultOf(k)

\* When CompareRead has returned nothing runs, and the verdict is that of the
\* results.
Finished ==
    main = "done" =>
        /\ \A k \in Tasks : at[k] \in {"new", "over"}
        /\ insensitive <=> Insensitive(results)

\* The inductive invariant.
IInv == TypeOK /\ Launched /\ TokensHeld /\ ResultsWritten /\ Finished

-----------------------------------------------------------------------------
(* Facts about the constants and the sets. *)

\* The positions of a candidate list are tasks.
LEMMA ListFacts ==
    ASSUME NEW c \in Candidates
    PROVE  /\ Len(c) \in Nat
           /\ DOMAIN c = 1..Len(c)
           /\ DOMAIN c \subseteq Tasks
           /\ \A k \in DOMAIN c : c[k] \in RackSlots
<1>1. c \in Seq(RackSlots)
    BY CompareAssumption
<1> QED BY <1>1 DEF Tasks

\* Tasks are positions.
LEMMA TasksAreNumbers == Tasks \subseteq Nat \ {0}
<1> SUFFICES ASSUME NEW k \in Tasks PROVE k \in Nat \ {0}
    OBVIOUS
<1>1. PICK c \in Candidates : k \in DOMAIN c
    BY DEF Tasks
<1> QED BY <1>1, ListFacts

\* The goroutines that run belong to the request's candidates, so there are
\* finitely many.
LEMMA ActiveFinite ==
    ASSUME TypeOK, Launched
    PROVE  /\ Active \subseteq DOMAIN cands
           /\ IsFiniteSet(Active)
           /\ Cardinality(Active) \in Nat
<1>1. Len(cands) \in Nat /\ DOMAIN cands = 1..Len(cands)
    BY ListFacts DEF TypeOK
<1>2. ASSUME NEW k \in Active PROVE k \in DOMAIN cands
  <2>1. k \in Tasks /\ at[k] # "new"
      BY DEF Active
  <2>2. k \in Nat \ {0} /\ ~(k >= i)
      BY <2>1, TasksAreNumbers DEF Launched
  <2>3. i \in 1..(Len(cands) + 1)
      BY DEF TypeOK
  <2> QED BY <1>1, <2>2, <2>3
<1>3. Active \subseteq 1..Len(cands)
    BY <1>1, <1>2
<1>4. IsFiniteSet(1..Len(cands))
    BY <1>1, FS_Interval
<1>5. IsFiniteSet(Active)
    BY <1>3, <1>4, FS_Subset
<1> QED BY <1>1, <1>3, <1>5, FS_CardinalityType

\* The status of a candidate that is written off is a failure.
LEMMA WrittenOffStatus ==
    ASSUME NEW c \in {"canceled", "deadline"}
    PROVE  classifyOpError({c}) \in ReadStatuses \ {"success"}
BY DEF classifyOpError, ReadStatuses

\* The fields of a failure.
LEMMA FailureFields ==
    ASSUME NEW rs, NEW status
    PROVE  /\ compareCandidateFailure(rs, status).rs = rs
           /\ compareCandidateFailure(rs, status).status = status
BY DEF compareCandidateFailure, Outcome

-----------------------------------------------------------------------------
(* IInv is inductive. *)

LEMMA InitIInv == Init => IInv
<1> SUFFICES ASSUME Init PROVE IInv
    OBVIOUS
<1> USE DEF Init
<1>1. Len(cands) \in Nat /\ DOMAIN cands = 1..Len(cands)
    BY ListFacts
<1>2. parallelism \in Int
    BY CompareAssumption
<1>3. ZeroOutcome \in Outcomes
    BY DEF ZeroOutcome, Outcome, Outcomes
<1>4. TypeOK
  <2>1. i \in 1..(Len(cands) + 1) /\ sem \in 0..Capacity
      BY <1>1, <1>2 DEF Capacity
  <2>2. results \in [DOMAIN cands -> Outcomes]
      BY <1>3
  <2> QED BY <2>1, <2>2, Zenon DEF TypeOK
<1>5. Launched
    BY TasksAreNumbers DEF Launched
<1>6. Active = {}
    BY DEF Active
<1>7. TokensHeld
    BY <1>6, FS_EmptySet DEF TokensHeld
<1>8. ResultsWritten
    BY <1>1, ListFacts DEF ResultsWritten, ResultOf, Open
<1>9. Finished
    BY DEF Finished
<1> QED BY <1>4, <1>5, <1>7, <1>8, <1>9 DEF IInv

\* The context only decides how candidates are written off.
LEMMA ContextDoneIInv ==
    ASSUME IInv, NEW reason \in {"canceled", "deadline"}, ContextDone(reason)
    PROVE  IInv'
<1> USE DEF IInv, ContextDone
<1>1. TypeOK'
    BY DEF TypeOK, Capacity
<1>2. Launched'
    BY DEF Launched
<1>3. TokensHeld'
    BY DEF TokensHeld, Active
<1>4. ResultsWritten'
    BY DEF ResultsWritten, ResultOf, Open
<1>5. Finished'
    BY DEF Finished, Insensitive
<1> QED BY <1>1, <1>2, <1>3, <1>4, <1>5

\* A launch takes a token for the next candidate.
LEMMA LaunchIInv ==
    ASSUME IInv, Launch
    PROVE  IInv'
<1> USE DEF IInv, Launch
<1>1. Len(cands) \in Nat /\ DOMAIN cands = 1..Len(cands) /\ DOMAIN cands \subseteq Tasks
    BY ListFacts DEF TypeOK
<1>2. i \in DOMAIN cands /\ i \in Tasks /\ i \in Nat
    BY <1>1 DEF TypeOK
<1>3. at[i] = "new" /\ at'[i] = "dial" /\ \A k \in Tasks \ {i} : at'[k] = at[k]
    BY <1>2 DEF TypeOK, Launched
<1>4. Capacity \in Nat
    BY CompareAssumption DEF TypeOK, Capacity
<1>5. TypeOK'
  <2>1. i' \in 1..(Len(cands') + 1)
      BY <1>1, <1>2
  <2>2. sem' \in 0..Capacity'
    <3>1. Capacity' = Capacity
        BY DEF Capacity
    <3>2. sem \in Nat
        BY <1>4 DEF TypeOK
    <3> QED BY <1>4, <3>1, <3>2
  <2>3. at' \in [Tasks -> {"new", "dial", "connect", "read", "release", "over"}]
      BY DEF TypeOK
  <2> QED BY <2>1, <2>2, <2>3, Zenon DEF TypeOK
<1>6. Launched'
    BY <1>2, <1>3, TasksAreNumbers DEF Launched
<1>7. TokensHeld'
  <2>1. i \notin Active /\ Active' = Active \cup {i}
      BY <1>2, <1>3 DEF Active
  <2>2. IsFiniteSet(Active)
      BY ActiveFinite
  <2> QED BY <2>1, <2>2, FS_AddElement DEF TokensHeld
<1>8. ResultsWritten'
  <2> SUFFICES ASSUME NEW k \in DOMAIN cands PROVE ResultOf(k)'
      BY DEF ResultsWritten
  <2>1. CASE k = i
      BY <1>3, <2>1 DEF ResultsWritten, ResultOf, Open
  <2>2. CASE k # i
      BY <1>1, <1>3, <2>2 DEF ResultsWritten, ResultOf, Open
  <2> QED BY <2>1, <2>2
<1>9. Finished'
    BY DEF Finished
<1> QED BY <1>5, <1>6, <1>7, <1>8, <1>9

\* Writing off fills the elements of the candidates that were not launched.
LEMMA WriteOffIInv ==
    ASSUME IInv, WriteOff
    PROVE  IInv'
<1> USE DEF IInv, WriteOff
<1>1. /\ DOMAIN cands = 1..Len(cands) /\ DOMAIN cands \subseteq Tasks
      /\ Len(cands) \in Nat
      /\ \A k \in DOMAIN cands : cands[k] \in RackSlots
    BY ListFacts DEF TypeOK
<1>2. classifyOpError({ctx}) \in ReadStatuses \ {"success"}
    BY WrittenOffStatus DEF TypeOK
<1> DEFINE st == classifyOpError({ctx})
<1> HIDE DEF st
<1>3. \A k \in DOMAIN cands :
          results'[k] = IF k < i THEN results[k] ELSE compareCandidateFailure(cands[k], st)
    BY DEF st
<1>4. \A k \in DOMAIN cands : compareCandidateFailure(cands[k], st) \in Outcomes
    BY <1>1, <1>2 DEF st, compareCandidateFailure, Outcome, Outcomes
<1>5. TypeOK'
  <2>1. results' \in [DOMAIN cands -> Outcomes]
      BY <1>4 DEF TypeOK, st
  <2> QED BY <2>1, Zenon DEF TypeOK, Capacity
<1>6. Launched'
    BY DEF Launched
<1>7. TokensHeld'
    BY DEF TokensHeld, Active
<1>8. ResultsWritten'
  <2> SUFFICES ASSUME NEW k \in DOMAIN cands PROVE ResultOf(k)'
      BY DEF ResultsWritten
  <2>1. k \in Tasks /\ k \in Nat
      BY <1>1, TasksAreNumbers
  <2>2. CASE k < i
    <3>1. at[k] # "new"
        BY <2>1, <2>2 DEF Launched, TypeOK
    <3> QED BY <1>3, <2>2, <3>1 DEF ResultsWritten, ResultOf, Open
  <2>3. CASE k >= i
    <3>1. at[k] = "new"
        BY <2>1, <2>3 DEF Launched
    <3>2. results'[k] = compareCandidateFailure(cands[k], st)
      <4>1. i \in Nat
          BY <1>1 DEF TypeOK
      <4>2. ~(k < i)
          BY <2>1, <2>3, <4>1
      <4> QED BY <1>3, <4>2, Zenon
    <3>3. results'[k].rs = cands[k] /\ results'[k].status # "success"
        BY <1>2, <3>2, FailureFields DEF st
    <3> QED BY <3>1, <3>3 DEF ResultOf, Open
  <2> QED BY <2>1, <2>2, <2>3 DEF TypeOK
<1>9. Finished'
    BY DEF Finished
<1> QED BY <1>5, <1>6, <1>7, <1>8, <1>9

\* After the loop every candidate has been launched.
LEMMA LaunchedAllIInv ==
    ASSUME IInv, LaunchedAll
    PROVE  IInv'
<1> USE DEF IInv, LaunchedAll
<1>1. Len(cands) \in Nat /\ DOMAIN cands = 1..Len(cands) /\ DOMAIN cands \subseteq Tasks
    BY ListFacts DEF TypeOK
<1>2. \A k \in DOMAIN cands : at[k] # "new"
  <2> SUFFICES ASSUME NEW k \in DOMAIN cands PROVE at[k] # "new"
      OBVIOUS
  <2>1. k \in Tasks /\ k \in Nat /\ i \in Nat /\ ~(k >= i)
      BY <1>1 DEF TypeOK
  <2> QED BY <2>1 DEF Launched
<1>3. TypeOK'
    BY DEF TypeOK, Capacity
<1>4. Launched'
    BY DEF Launched
<1>5. TokensHeld'
    BY DEF TokensHeld, Active
<1>6. ResultsWritten'
    BY <1>2 DEF ResultsWritten, ResultOf, Open
<1>7. Finished'
    BY DEF Finished
<1> QED BY <1>3, <1>4, <1>5, <1>6, <1>7

\* CompareRead returns when nothing runs, with the verdict of the results.
LEMMA ReturnIInv ==
    ASSUME IInv, Return
    PROVE  IInv'
<1> USE DEF IInv, Return
<1>1. Insensitive(results) \in BOOLEAN
    BY DEF Insensitive
<1>2. TypeOK'
    BY <1>1 DEF TypeOK, Capacity
<1>3. Launched'
    BY DEF Launched
<1>4. TokensHeld'
    BY DEF TokensHeld, Active
<1>5. ResultsWritten'
    BY DEF ResultsWritten, ResultOf, Open
<1>6. Finished'
  <2>1. Insensitive(results)' = Insensitive(results)
      BY DEF Insensitive
  <2>2. \A k \in Tasks : at'[k] \in {"new", "over"}
      OBVIOUS
  <2>3. insensitive' <=> Insensitive(results)'
      BY <2>1
  <2> QED BY <2>2, <2>3 DEF Finished
<1> QED BY <1>2, <1>3, <1>4, <1>5, <1>6

\* A goroutine that has been launched has a candidate, and CompareRead has not
\* returned before it is over.
LEMMA GoroutineFacts ==
    ASSUME IInv, NEW k \in Tasks, at[k] \notin {"new", "over"}
    PROVE  k \in DOMAIN cands /\ cands[k] \in RackSlots /\ main # "done"
<1> USE DEF IInv
<1>1. k \in Active
    BY DEF Active, TypeOK
<1>2. k \in DOMAIN cands
    BY <1>1, ActiveFinite
<1>3. main # "done"
    BY DEF Finished
<1> QED BY <1>2, <1>3, ListFacts DEF TypeOK

\* Dialling and connecting change only where the goroutine is, among the places
\* where its element of results is still zero.
LEMMA AdvanceIInv ==
    ASSUME IInv, NEW k \in Tasks, NEW l \in {"connect", "read"},
           at[k] \in {"dial", "connect"},
           l = "read" => target[cands[k]] # NoData,
           at' = [at EXCEPT ![k] = l],
           UNCHANGED <<cands, parallelism, target, ctx, main, i, sem, results, insensitive>>
    PROVE  IInv'
<1> USE DEF IInv
<1>1. k \in DOMAIN cands /\ main # "done"
    BY GoroutineFacts
<1>2. at'[k] = l /\ \A j \in Tasks \ {k} : at'[j] = at[j]
    BY DEF TypeOK
<1>3. TypeOK'
  <2>1. at' \in [Tasks -> {"new", "dial", "connect", "read", "release", "over"}]
      BY DEF TypeOK
  <2> QED BY <2>1, Zenon DEF TypeOK, Capacity
<1>4. Launched'
    BY <1>2 DEF Launched
<1>5. TokensHeld'
  <2>1. Active' = Active
      BY <1>2 DEF Active
  <2> QED BY <2>1 DEF TokensHeld
<1>6. ResultsWritten'
  <2> SUFFICES ASSUME NEW j \in DOMAIN cands PROVE ResultOf(j)'
      BY DEF ResultsWritten
  <2>1. j \in Tasks
      BY ListFacts DEF TypeOK
  <2>2. CASE j = k
      BY <1>2, <2>2 DEF ResultsWritten, ResultOf, Open
  <2>3. CASE j # k
      BY <1>2, <2>1, <2>3 DEF ResultsWritten, ResultOf, Open
  <2> QED BY <2>2, <2>3
<1>7. Finished'
    BY <1>1 DEF Finished
<1> QED BY <1>3, <1>4, <1>5, <1>6, <1>7

\* A goroutine writes its own element.
LEMMA StoreIInv ==
    ASSUME IInv, NEW k \in Tasks, NEW r \in Outcomes, Open(k), Store(k, r),
           r.rs = cands[k],
           r.status = "success" => r.data = target[cands[k]] /\ target[cands[k]] # NoData
    PROVE  IInv'
<1> USE DEF IInv, Store
<1>1. k \in DOMAIN cands /\ main # "done"
    BY GoroutineFacts DEF Open
<1>2. at'[k] = "release" /\ \A j \in Tasks \ {k} : at'[j] = at[j]
    BY DEF TypeOK
<1>3. results'[k] = r /\ \A j \in DOMAIN cands \ {k} : results'[j] = results[j]
    BY <1>1 DEF TypeOK
<1>4. TypeOK'
  <2>1. at' \in [Tasks -> {"new", "dial", "connect", "read", "release", "over"}]
      BY DEF TypeOK
  <2>2. results' \in [DOMAIN cands -> Outcomes]
      BY DEF TypeOK
  <2> QED BY <2>1, <2>2, Zenon DEF TypeOK, Capacity
<1>5. Launched'
    BY <1>2 DEF Launched, Open
<1>6. TokensHeld'
  <2>1. Active' = Active
      BY <1>2 DEF Active, Open
  <2> QED BY <2>1 DEF TokensHeld
<1>7. ResultsWritten'
  <2> SUFFICES ASSUME NEW j \in DOMAIN cands PROVE ResultOf(j)'
      BY DEF ResultsWritten
  <2>1. j \in Tasks
      BY ListFacts DEF TypeOK
  <2>2. CASE j = k
      BY <1>2, <1>3, <2>2 DEF ResultOf, Open
  <2>3. CASE j # k
      BY <1>2, <1>3, <2>1, <2>3 DEF ResultsWritten, ResultOf, Open
  <2> QED BY <2>2, <2>3
<1>8. Finished'
    BY <1>1 DEF Finished
<1> QED BY <1>4, <1>5, <1>6, <1>7, <1>8

\* A goroutine that ends gives its token back.
LEMMA ReleaseIInv ==
    ASSUME IInv, NEW k \in Tasks, Release(k)
    PROVE  IInv'
<1> USE DEF IInv, Release
<1>1. k \in DOMAIN cands /\ main # "done"
    BY GoroutineFacts
<1>2. at'[k] = "over" /\ \A j \in Tasks \ {k} : at'[j] = at[j]
    BY DEF TypeOK
<1>3. k \in Active /\ Active' = Active \ {k}
    BY <1>2 DEF Active
<1>4. TokensHeld' /\ sem' \in Nat
  <2>1. IsFiniteSet(Active) /\ IsFiniteSet(Active \ {k})
      BY ActiveFinite, FS_RemoveElement
  <2>2. Cardinality(Active \ {k}) = Cardinality(Active) - 1
      BY <1>3, <2>1, FS_RemoveElement
  <2>3. Cardinality(Active \ {k}) \in Nat
      BY <2>1, FS_CardinalityType
  <2> QED BY <1>3, <2>2, <2>3 DEF TokensHeld
<1>5. TypeOK'
  <2>1. at' \in [Tasks -> {"new", "dial", "connect", "read", "release", "over"}]
      BY DEF TypeOK
  <2>2. Capacity' = Capacity /\ Capacity \in Nat
      BY CompareAssumption DEF TypeOK, Capacity
  <2>3. sem' \in 0..Capacity'
      BY <1>4, <2>2 DEF TypeOK
  <2> QED BY <2>1, <2>3, Zenon DEF TypeOK
<1>6. Launched'
    BY <1>2 DEF Launched
<1>7. ResultsWritten'
  <2> SUFFICES ASSUME NEW j \in DOMAIN cands PROVE ResultOf(j)'
      BY DEF ResultsWritten
  <2>1. j \in Tasks
      BY ListFacts DEF TypeOK
  <2>2. CASE j = k
      BY <1>2, <2>2 DEF ResultsWritten, ResultOf, Open
  <2>3. CASE j # k
      BY <1>2, <2>1, <2>3 DEF ResultsWritten, ResultOf, Open
  <2> QED BY <2>2, <2>3
<1>8. Finished'
    BY <1>1 DEF Finished
<1> QED BY <1>4, <1>5, <1>6, <1>7, <1>8

\* Every step of a goroutine preserves the invariant.
LEMMA GoroutineIInv ==
    ASSUME IInv, NEW k \in Tasks, Goroutine(k)
    PROVE  IInv'
<1>1. CASE Dial(k)
    BY <1>1, AdvanceIInv DEF Dial
<1>2. CASE Connected(k)
    BY <1>2, AdvanceIInv DEF Connected
<1>3. CASE Release(k)
    BY <1>3, ReleaseIInv
<1>4. ASSUME Open(k) PROVE cands[k] \in RackSlots /\ target[cands[k]] \in Data \cup {NoData}
  <2>1. cands[k] \in RackSlots
      BY <1>4, GoroutineFacts DEF Open
  <2> QED BY <2>1 DEF IInv, TypeOK
<1>5. CASE ReadSucceeds(k)
  <2> DEFINE r == Outcome(cands[k], "success", target[cands[k]])
  <2>1. Open(k) /\ k \in DOMAIN cands
      BY <1>5, GoroutineFacts DEF ReadSucceeds, Open
  <2>2. r \in Outcomes /\ r.rs = cands[k] /\ r.data = target[cands[k]]
      BY <1>4, <2>1 DEF Outcome, Outcomes, ReadStatuses
  <2>3. target[cands[k]] # NoData
      BY <1>5, <2>1 DEF IInv, ResultsWritten, ResultOf, ReadSucceeds
  <2> QED BY <1>5, <2>1, <2>2, <2>3, StoreIInv DEF ReadSucceeds
<1>6. CASE \E status \in Failures : ConnectFails(k, status) \/ ReadFails(k, status)
  <2>1. PICK status \in Failures : ConnectFails(k, status) \/ ReadFails(k, status)
      BY <1>6
  <2>2. status \in ReadStatuses /\ status # "success"
      BY CompareAssumption
  <2>3. Open(k)
      BY <2>1 DEF ConnectFails, ReadFails, Open
  <2>4. ASSUME NEW d \in Data \cup {NoData}
        PROVE  LET r == Outcome(cands[k], status, d)
               IN r \in Outcomes /\ r.rs = cands[k] /\ r.status # "success"
      BY <1>4, <2>2, <2>3 DEF Outcome, Outcomes
  <2>5. PICK d \in Data \cup {NoData} : Store(k, Outcome(cands[k], status, d))
      BY <1>4, <2>1, <2>3 DEF ConnectFails, ReadFails, compareCandidateFailure
  <2> QED BY <2>3, <2>4, <2>5, StoreIInv
<1> QED BY <1>1, <1>2, <1>3, <1>5, <1>6 DEF Goroutine

\* IInv is inductive.
LEMMA NextIInv == IInv /\ [Next]_vars => IInv'
<1> SUFFICES ASSUME IInv, [Next]_vars PROVE IInv'
    OBVIOUS
<1>1. CASE Caller
    BY <1>1, LaunchIInv, WriteOffIInv, LaunchedAllIInv, ReturnIInv DEF Caller
<1>2. CASE \E k \in Tasks : Goroutine(k)
    BY <1>2, GoroutineIInv
<1>3. CASE \E reason \in {"canceled", "deadline"} : ContextDone(reason)
    BY <1>3, ContextDoneIInv
<1>4. CASE UNCHANGED vars
  <2> USE <1>4 DEF IInv, vars
  <2>1. TypeOK'
      BY DEF TypeOK, Capacity
  <2>2. Launched' /\ TokensHeld'
      BY DEF Launched, TokensHeld, Active
  <2>3. ResultsWritten'
      BY DEF ResultsWritten, ResultOf, Open
  <2>4. Finished'
      BY DEF Finished, Insensitive
  <2> QED BY <2>1, <2>2, <2>3, <2>4
<1> QED BY <1>1, <1>2, <1>3, <1>4 DEF Next

\* The inductive invariant holds in every reachable state of CompareRead.
THEOREM CompareInvariance == Spec => []IInv
<1> QED BY InitIInv, NextIInv, PTL DEF Spec

-----------------------------------------------------------------------------
(* The properties. *)

\* Every variable of CompareRead keeps its type, and the channel sem never holds
\* more than its capacity.
THEOREM CompareTypeCorrect == Spec => []TypeOK
<1>1. IInv => TypeOK
    BY DEF IInv
<1> QED BY <1>1, CompareInvariance, PTL

\* Every candidate is reported, in its place, when CompareRead returns.
THEOREM AllCandidatesReported == Spec => []EveryCandidateReported
<1>1. ASSUME IInv PROVE EveryCandidateReported
  <2> SUFFICES ASSUME main = "done", NEW k \in DOMAIN cands
               PROVE  /\ results[k].rs = cands[k]
                      /\ at[k] = "new" => ctx # "live" /\ results[k].status # "success"
      BY DEF EveryCandidateReported
  <2>1. k \in Tasks
      BY <1>1, ListFacts DEF IInv, TypeOK
  <2>2. at[k] \in {"new", "over"}
      BY <1>1, <2>1 DEF IInv, Finished
  <2> QED BY <1>1, <2>2 DEF IInv, ResultsWritten, ResultOf
<1> QED BY <1>1, CompareInvariance, PTL

\* RackSlotInsensitive is true of the target, and missed only where a read
\* failed or there is nothing to compare.
THEOREM VerdictCorrect == Spec => []VerdictIsTrue
<1>1. ASSUME IInv, main = "done" PROVE VerdictIsTrue
  <2> DEFINE same == \E d \in Data : \A k \in DOMAIN cands : target[cands[k]] = d
             firstOK == CHOOSE k \in {j \in DOMAIN results : results[j].status = "success"} :
                            \A j \in {m \in DOMAIN results : results[m].status = "success"} : k <= j
  <2>1. /\ Len(cands) \in Nat /\ DOMAIN cands = 1..Len(cands)
        /\ \A k \in DOMAIN cands : cands[k] \in RackSlots /\ k \in Tasks
      BY <1>1, ListFacts DEF IInv, TypeOK
  <2>2. DOMAIN results = DOMAIN cands /\ Len(results) = Len(cands)
    <3>1. DOMAIN results = 1..Len(cands)
        BY <1>1, <2>1 DEF IInv, TypeOK
    <3>2. results \in [1..Len(cands) -> Outcomes]
        BY <1>1, <2>1 DEF IInv, TypeOK
    <3>3. results \in Seq(Outcomes)
        BY <2>1, <3>2
    <3> QED BY <2>1, <3>1, <3>3
  <2>3. ASSUME NEW k \in DOMAIN cands, results[k].status = "success"
        PROVE  results[k].data = target[cands[k]] /\ target[cands[k]] \in Data
    <3>1. at[k] \in {"new", "over"}
        BY <1>1, <2>1 DEF IInv, Finished
    <3>2. results[k].data = target[cands[k]] /\ target[cands[k]] # NoData
        BY <1>1, <2>3, <3>1 DEF IInv, ResultsWritten, ResultOf
    <3> QED BY <1>1, <2>1, <3>2 DEF IInv, TypeOK
  <2>4. insensitive <=> Insensitive(results)
      BY <1>1 DEF IInv, Finished
  <2>5. ASSUME insensitive PROVE same /\ Len(cands) >= 2
    <3>1. /\ Len(cands) >= 2
          /\ \A k \in DOMAIN cands : /\ results[k].status = "success"
                                     /\ results[k].data = results[firstOK].data
        BY <2>2, <2>4, <2>5 DEF Insensitive
    <3> HIDE DEF firstOK
    <3>2. 1 \in DOMAIN cands
        BY <2>1, <3>1
    <3>3. target[cands[1]] \in Data /\ \A k \in DOMAIN cands : target[cands[k]] = target[cands[1]]
        BY <2>3, <3>1, <3>2
    <3> QED BY <3>1, <3>3
  <2>6. ASSUME same, Len(cands) >= 2,
               \A k \in DOMAIN cands : results[k].status = "success"
        PROVE  insensitive
    <3>1. {j \in DOMAIN results : results[j].status = "success"} = DOMAIN cands
        BY <2>2, <2>6
    <3>2. 1 \in DOMAIN cands /\ \A j \in DOMAIN cands : 1 <= j
        BY <2>1, <2>6
    <3>3. firstOK \in DOMAIN cands
        BY <3>1, <3>2
    <3> HIDE DEF firstOK
    <3>4. \A k \in DOMAIN cands : results[k].data = results[firstOK].data
        BY <2>3, <2>6, <3>3
    <3>5. Insensitive(results)
        BY <2>2, <2>6, <3>1, <3>2, <3>4 DEF Insensitive, firstOK
    <3> QED BY <2>4, <3>5
  <2> QED BY <2>5, <2>6 DEF VerdictIsTrue
<1>2. IInv => VerdictIsTrue
    BY <1>1 DEF VerdictIsTrue
<1> QED BY <1>2, CompareInvariance, PTL

\* No element of results is written twice: a goroutine writes its own only while
\* it is zero, and the loop only those of candidates it has not launched.
THEOREM ResultsWrittenOnce == Spec => WrittenOnce
<1>1. ASSUME IInv, [Next]_vars, NEW k \in DOMAIN results, results[k] # ZeroOutcome
      PROVE  results'[k] = results[k]
  <2>1. k \in DOMAIN cands /\ k \in Tasks /\ k \in Nat /\ i \in Nat
    <3>1. k \in DOMAIN cands
        BY <1>1 DEF IInv, TypeOK
    <3>2. Len(cands) \in Nat /\ DOMAIN cands = 1..Len(cands) /\ k \in Tasks
        BY <1>1, <3>1, ListFacts DEF IInv, TypeOK
    <3> QED BY <1>1, <3>1, <3>2 DEF IInv, TypeOK
  <2>2. ResultOf(k)
      BY <1>1, <2>1 DEF IInv, ResultsWritten
  <2>3. CASE WriteOff
    <3>1. at[k] # "new"
        BY <1>1, <2>2, <2>3 DEF ResultOf, WriteOff
    <3>2. k < i
        BY <1>1, <2>1, <3>1 DEF IInv, Launched
    <3> QED BY <2>1, <2>3, <3>2 DEF WriteOff
  <2>4. ASSUME NEW j \in Tasks, NEW r, Open(j), Store(j, r)
        PROVE  results'[k] = results[k]
    <3>1. j # k
        BY <1>1, <2>2, <2>4 DEF ResultOf
    <3>2. results \in [DOMAIN cands -> Outcomes]
        BY <1>1 DEF IInv, TypeOK
    <3> QED BY <2>1, <2>4, <3>1, <3>2 DEF Store
  <2>5. CASE \E j \in Tasks : Goroutine(j)
    <3>1. PICK j \in Tasks : Goroutine(j)
        BY <2>5
    <3>2. CASE Dial(j) \/ Connected(j) \/ Release(j)
        BY <3>2 DEF Dial, Connected, Release
    <3>3. CASE ReadSucceeds(j)
        BY <2>4, <3>3 DEF ReadSucceeds, Open
    <3>4. CASE \E status \in Failures : ConnectFails(j, status) \/ ReadFails(j, status)
        BY <2>4, <3>4 DEF ConnectFails, ReadFails, Open
    <3> QED BY <3>1, <3>2, <3>3, <3>4 DEF Goroutine
  <2>6. CASE Launch \/ LaunchedAll \/ Return \/ UNCHANGED vars
      BY <2>6 DEF Launch, LaunchedAll, Return, vars
  <2>7. CASE \E reason \in {"canceled", "deadline"} : ContextDone(reason)
      BY <2>7 DEF ContextDone
  <2> QED BY <1>1, <2>3, <2>5, <2>6, <2>7 DEF Next, Caller
<1>2. IInv /\ [Next]_vars =>
          [\A k \in DOMAIN results : results[k] # ZeroOutcome => results'[k] = results[k]]_vars
    BY <1>1
<1> QED BY <1>2, CompareInvariance, PTL DEF Spec, WrittenOnce

-----------------------------------------------------------------------------
(* CompareRead implements Pool. *)

\* The goroutines with a connection are among those with a token.
LEMMA OpenBounded ==
    ASSUME IInv
    PROVE  /\ IsFiniteSet({k \in Tasks : Open(k)})
           /\ Cardinality({k \in Tasks : Open(k)}) \in Nat
           /\ Cardinality({k \in Tasks : Open(k)}) <= sem
<1>1. {k \in Tasks : Open(k)} \subseteq Active
    BY DEF Active, Open
<1>2. IsFiniteSet(Active) /\ Cardinality(Active) \in Nat
    BY ActiveFinite DEF IInv
<1>3. /\ IsFiniteSet({k \in Tasks : Open(k)})
      /\ Cardinality({k \in Tasks : Open(k)}) <= Cardinality(Active)
    BY <1>1, <1>2, FS_Subset
<1> QED BY <1>3, FS_CardinalityType DEF IInv, TokensHeld

\* Pool counts like this module.
LEMMA SameCardinality ==
    ASSUME NEW S
    PROVE  ThePool!Cardinality(S) = Cardinality(S)
BY Zenon DEF Cardinality, ThePool!Cardinality

\* A launch is Begin.
LEMMA LaunchBegins ==
    ASSUME IInv, Launch
    PROVE  ThePool!Begin(i) /\ i \in Tasks
<1> USE DEF Launch
<1>1. i \in Tasks /\ at[i] = "new"
  <2>1. Len(cands) \in Nat /\ DOMAIN cands = 1..Len(cands) /\ DOMAIN cands \subseteq Tasks
      BY ListFacts DEF IInv, TypeOK
  <2>2. i \in Tasks /\ i \in Nat
      BY <2>1 DEF IInv, TypeOK
  <2> QED BY <2>2 DEF IInv, Launched
<1>2. at'[i] = "dial" /\ \A k \in Tasks \ {i} : at'[k] = at[k]
    BY <1>1 DEF IInv, TypeOK
<1>3. Cardinality({k \in Tasks : Open(k)}) < Capacity
  <2>1. sem \in Nat /\ Capacity \in Nat
      BY CompareAssumption DEF IInv, TypeOK, Capacity
  <2> QED BY <2>1, OpenBounded
<1>4. {k \in Tasks : Open(k)}' = {k \in Tasks : Open(k)} \cup {i}
    BY <1>1, <1>2 DEF Open
<1>5. i \notin {k \in Tasks : Open(k)} \cup {k \in Tasks : at[k] \in {"release", "over"}}
    BY <1>1 DEF Open
<1>6. {k \in Tasks : at'[k] \in {"release", "over"}} = {k \in Tasks : at[k] \in {"release", "over"}}
    BY <1>1, <1>2
<1>7. Capacity' = Capacity
    BY DEF Capacity
<1>8. ~(main = "done") /\ (main' = "done") = (main = "done")
    OBVIOUS
<1> HIDE DEF Launch
<1>9. ThePool!Begin(i)
    BY <1>3, <1>4, <1>5, <1>6, <1>7, <1>8, SameCardinality DEF ThePool!Begin
<1> QED BY <1>1, <1>9

\* Storing a result, for which the connection has been closed, is End.
LEMMA StoreEnds ==
    ASSUME IInv, NEW k \in Tasks, NEW r, Open(k), Store(k, r)
    PROVE  ThePool!End(k)
<1> USE DEF Store
<1>1. at'[k] = "release" /\ \A j \in Tasks \ {k} : at'[j] = at[j]
    BY DEF IInv, TypeOK
<1>2. k \in {j \in Tasks : Open(j)}
    OBVIOUS
<1>3. {j \in Tasks : Open(j)}' = {j \in Tasks : Open(j)} \ {k}
    BY <1>1 DEF Open
<1>4. {j \in Tasks : at'[j] \in {"release", "over"}}
          = {j \in Tasks : at[j] \in {"release", "over"}} \cup {k}
    BY <1>1
<1>5. Capacity' = Capacity /\ (main' = "done") = (main = "done")
    BY DEF Capacity
<1> QED BY <1>2, <1>3, <1>4, <1>5 DEF ThePool!End

\* Returning is Finish.
LEMMA ReturnFinishes ==
    ASSUME IInv, Return
    PROVE  ThePool!Finish
<1> USE DEF Return
<1>1. {k \in Tasks : Open(k)} = {} /\ {k \in Tasks : Open(k)}' = {k \in Tasks : Open(k)}
    BY DEF Open
<1>2. Capacity' = Capacity
    BY DEF Capacity
<1>3. ~(main = "done") /\ (main' = "done") = TRUE
    OBVIOUS
<1> QED BY <1>1, <1>2, <1>3 DEF ThePool!Finish

\* The other steps do not change who has a connection.
LEMMA OtherStutters ==
    ASSUME IInv,
           UNCHANGED parallelism,
           (main' = "done") = (main = "done"),
           \A k \in Tasks : /\ Open(k)' = Open(k)
                            /\ (at'[k] \in {"release", "over"}) = (at[k] \in {"release", "over"})
    PROVE  UNCHANGED ThePool!vars
<1>1. {k \in Tasks : Open(k)}' = {k \in Tasks : Open(k)}
    OBVIOUS
<1>2. {k \in Tasks : at'[k] \in {"release", "over"}} = {k \in Tasks : at[k] \in {"release", "over"}}
    OBVIOUS
<1>3. Capacity' = Capacity
    BY DEF Capacity
<1> QED BY <1>1, <1>2, <1>3 DEF ThePool!vars

\* Every step of CompareRead is a step of Pool or leaves it unchanged.
LEMMA NextImplementsPool == IInv /\ [Next]_vars => [ThePool!Next]_(ThePool!vars)
<1> SUFFICES ASSUME IInv, [Next]_vars
             PROVE  ThePool!Next \/ UNCHANGED ThePool!vars
    OBVIOUS
<1>1. CASE Launch
    BY <1>1, LaunchBegins DEF ThePool!Next
<1>2. CASE Return
    BY <1>2, ReturnFinishes DEF ThePool!Next
<1>3. ASSUME NEW k \in Tasks, Goroutine(k)
      PROVE  ThePool!Next \/ UNCHANGED ThePool!vars
  <2>1. CASE ReadSucceeds(k)
      BY <2>1, StoreEnds DEF ReadSucceeds, Open, ThePool!Next
  <2>2. CASE \E status \in Failures : ConnectFails(k, status) \/ ReadFails(k, status)
      BY <2>2, StoreEnds DEF ConnectFails, ReadFails, Open, ThePool!Next
  <2>3. CASE Dial(k) \/ Connected(k) \/ Release(k)
    <3>1. UNCHANGED <<parallelism, main>>
        BY <2>3 DEF Dial, Connected, Release
    <3>2. ASSUME NEW j \in Tasks
          PROVE  /\ Open(j)' = Open(j)
                 /\ (at'[j] \in {"release", "over"}) = (at[j] \in {"release", "over"})
        BY <2>3 DEF Dial, Connected, Release, Open, IInv, TypeOK
    <3> QED BY <3>1, <3>2, OtherStutters
  <2> QED BY <1>3, <2>1, <2>2, <2>3 DEF Goroutine
<1>4. CASE \/ WriteOff \/ LaunchedAll \/ UNCHANGED vars
           \/ \E reason \in {"canceled", "deadline"} : ContextDone(reason)
  <2>1. UNCHANGED <<parallelism, at>> /\ (main' = "done") = (main = "done")
      BY <1>4 DEF WriteOff, LaunchedAll, ContextDone, vars
  <2>2. \A j \in Tasks :
            /\ Open(j)' = Open(j)
            /\ (at'[j] \in {"release", "over"}) = (at[j] \in {"release", "over"})
      BY <2>1 DEF Open
  <2> QED BY <2>1, <2>2, OtherStutters
<1> QED BY <1>1, <1>2, <1>3, <1>4 DEF Next, Caller

\* CompareRead implements Pool: never more connections than Parallelism allows,
\* none for a candidate twice, and none left when it returns.
THEOREM CompareImplementsPool == Spec => ImplementsPool
<1>1. Init => ThePool!Init
  <2> SUFFICES ASSUME Init PROVE ThePool!Init
      OBVIOUS
  <2>1. Capacity \in Nat \ {0}
      BY CompareAssumption DEF Init, Capacity
  <2>2. {k \in Tasks : Open(k)} = {} /\ {k \in Tasks : at[k] \in {"release", "over"}} = {}
      BY DEF Init, Open
  <2>3. (main = "done") = FALSE
      BY DEF Init
  <2> QED BY <2>1, <2>2, <2>3 DEF ThePool!Init
<1> QED BY <1>1, CompareInvariance, NextImplementsPool, PTL
        DEF Spec, ImplementsPool, ThePool!Spec
=============================================================================
