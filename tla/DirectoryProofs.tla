-------------------------- MODULE DirectoryProofs --------------------------
(***************************************************************************)
(* What the calls that read the system status list promise, for any number  *)
(* of goroutines, calls, faults and changes of the PLC.                     *)
(*                                                                         *)
(* IInv follows one reference from the request to the outcome.  The         *)
(* goroutine that waits holds reqMu, so its reference is the newest one     *)
(* (Waiting) and everything else on the connection has an older one         *)
(* (OnWire): a request or a frame with its reference is its own (Asked).  A *)
(* frame that is accepted therefore says what the PLC said in some state of *)
(* the call (Recorded), and for Identify, which keeps reqMu, on the         *)
(* connection of its first record (SameSession).                            *)
(***************************************************************************)
EXTENDS Directory, FiniteSetTheorems, TLAPS

\* The record the next exchange, or the one in progress, is about.
Now(t) == Plan(call[t])[Len(outcomes[t]) + 1]

\* The goroutine that waits has taken the last reference.
Waiting(t) == at[t] = "wait" => ref[t] = nextRef /\ nextRef >= 1

\* How far a call has come.
Underway(t) ==
    at[t] # "idle" =>
        /\ call[t] \in Calls
        /\ Len(outcomes[t]) < Len(Plan(call[t]))
        /\ plc \in seen[t]
        /\ at[t] = "lock" /\ call[t].op = "identify" => outcomes[t] = <<>>

Ends(t) ==
    at[t] = "idle" /\ call[t] # NoCall =>
        /\ Len(outcomes[t]) <= Len(Plan(call[t]))
        /\ Len(outcomes[t]) = Len(Plan(call[t])) \/ Panicked(t)

\* Nothing on the connection is newer than the last reference.
OnWire ==
    /\ \A p \in 1..Len(queue) : queue[p].ref <= nextRef
    /\ \A p \in 1..Len(inbox) : inbox[p].ref <= nextRef /\ inbox[p].conn = conn

\* A record that was read in a state of the PLC that call t has seen; only calls
\* that do not parse it accept one without its bytes.
ReadBy(t, r, id, contents) ==
    /\ id = r.id
    /\ \/ \E s \in seen[t] : contents = Contents(s, r)
       \/ contents = {} /\ call[t].op \notin {"listAll", "blockInfo"}

\* A frame that answers the exchange in progress.
Answers(t, f) ==
    /\ f.id = Now(t).id
    /\ \/ \E s \in seen[t] : f.contents = Contents(s, Now(t))
       \/ f.kind = "short" /\ f.contents = {}

Asked(t) ==
    at[t] = "wait" =>
        /\ \A p \in 1..Len(queue) : queue[p].ref = ref[t] =>
              queue[p].id = Now(t).id /\ queue[p].index = Now(t).index
        /\ \A p \in 1..Len(inbox) : inbox[p].ref = ref[t] => Answers(t, inbox[p])

\* What a call has read.
Recorded(t) ==
    call[t] # NoCall =>
        \A k \in 1..Len(outcomes[t]) : outcomes[t][k].err = {} =>
            ReadBy(t, Plan(call[t])[k], outcomes[t][k].id, outcomes[t][k].contents)

\* The records of an identification come from one connection, the current one
\* while the call lasts.
SameSession(t) ==
    call[t].op = "identify" =>
        \A k \in 1..Len(outcomes[t]) : outcomes[t][k].err = {} =>
            /\ at[t] # "idle" => outcomes[t][k].conn = conn
            /\ \A j \in 1..Len(outcomes[t]) :
                  outcomes[t][j].err = {} => outcomes[t][j].conn = outcomes[t][k].conn

CallOK(t) ==
    /\ Waiting(t) /\ Underway(t) /\ Ends(t) /\ Asked(t) /\ Recorded(t)
    /\ SameSession(t)

\* The inductive invariant.
IInv == TypeOK /\ OnWire /\ \A t \in Threads : CallOK(t)

-----------------------------------------------------------------------------
(* The operators of the model. *)

\* A byte is the sum of its bits.
LEMMA OrZero ==
    ASSUME NEW a \in 0..255
    PROVE  Or(a, 0) = a
<1> DEFINE b(w) == IF (a \div w) % 2 = 1 THEN w ELSE 0
<1>1. (a \div 1) % 2 \in {0, 1} /\ a = 2 * (a \div 2) + b(1)
    OBVIOUS
<1>2. 2 * (a \div 2) = 4 * (a \div 4) + b(2)
    OBVIOUS
<1>3. 4 * (a \div 4) = 8 * (a \div 8) + b(4)
    OBVIOUS
<1>4. 8 * (a \div 8) = 16 * (a \div 16) + b(8)
    OBVIOUS
<1>5. 16 * (a \div 16) = 32 * (a \div 32) + b(16)
    OBVIOUS
<1>6. 32 * (a \div 32) = 64 * (a \div 64) + b(32)
    OBVIOUS
<1>7. 64 * (a \div 64) = 128 * (a \div 128) + b(64)
    OBVIOUS
<1>8. 128 * (a \div 128) = b(128)
    OBVIOUS
<1>9. /\ b(1) \in Nat /\ b(2) \in Nat /\ b(4) \in Nat /\ b(8) \in Nat /\ b(16) \in Nat
      /\ b(32) \in Nat /\ b(64) \in Nat /\ b(128) \in Nat
      /\ a \div 2 \in Nat /\ a \div 4 \in Nat /\ a \div 8 \in Nat /\ a \div 16 \in Nat
      /\ a \div 32 \in Nat /\ a \div 64 \in Nat /\ a \div 128 \in Nat
    OBVIOUS
<1>10. /\ (0 \div 1) % 2 = 0 /\ (0 \div 2) % 2 = 0 /\ (0 \div 4) % 2 = 0 /\ (0 \div 8) % 2 = 0
       /\ (0 \div 16) % 2 = 0 /\ (0 \div 32) % 2 = 0 /\ (0 \div 64) % 2 = 0
       /\ (0 \div 128) % 2 = 0
    OBVIOUS
<1>11. Or(a, 0) = b(1) + b(2) + b(4) + b(8) + b(16) + b(32) + b(64) + b(128)
    BY <1>10 DEF Or
<1> HIDE DEF b
<1> QED BY <1>1, <1>2, <1>3, <1>4, <1>5, <1>6, <1>7, <1>8, <1>9, <1>11

\* The value of | is a byte.
LEMMA OrNat ==
    ASSUME NEW a \in 0..255, NEW b \in 0..255
    PROVE  Or(a, b) \in Nat
<1> DEFINE bit(w) == IF (a \div w) % 2 = 1 \/ (b \div w) % 2 = 1 THEN w ELSE 0
<1>1. /\ bit(1) \in Nat /\ bit(2) \in Nat /\ bit(4) \in Nat /\ bit(8) \in Nat
      /\ bit(16) \in Nat /\ bit(32) \in Nat /\ bit(64) \in Nat /\ bit(128) \in Nat
    OBVIOUS
<1>2. Or(a, b) = bit(1) + bit(2) + bit(4) + bit(8) + bit(16) + bit(32) + bit(64) + bit(128)
    BY DEF Or
<1> HIDE DEF bit
<1> QED BY <1>1, <1>2

\* The index of a block info names the block, if its number is a byte.
LEMMA InfoIndexFacts ==
    ASSUME NEW bt \in 0..255, NEW num \in BlockNumbers
    PROVE  /\ BlockInfoIndex(bt, num) \in Nat
           /\ num < 256 => /\ BlockInfoIndex(bt, num) \div 256 = bt
                           /\ BlockInfoIndex(bt, num) % 256 = num
<1>1. num \div 256 \in 0..255 /\ num % 256 \in 0..255 /\ num \in Nat
    BY SMTT(60) DEF BlockNumbers
<1>2. BlockInfoIndex(bt, num) \in Nat
  <2> DEFINE h == num \div 256
             o == Or(bt, h)
             l == num % 256
  <2>1. h \in 0..255 /\ l \in Nat
      BY <1>1
  <2> HIDE DEF h, l
  <2>2. o \in Nat
      BY <2>1, OrNat
  <2>3. BlockInfoIndex(bt, num) = o * 256 + l
      BY DEF BlockInfoIndex, h, l
  <2> HIDE DEF o
  <2> QED BY <2>1, <2>2, <2>3
<1>3. ASSUME num < 256
      PROVE  BlockInfoIndex(bt, num) \div 256 = bt /\ BlockInfoIndex(bt, num) % 256 = num
  <2>1. num \div 256 = 0 /\ num % 256 = num
      BY <1>1, <1>3
  <2>2. BlockInfoIndex(bt, num) = bt * 256 + num
      BY <2>1, OrZero DEF BlockInfoIndex
  <2>3. (bt * 256 + num) \div 256 = bt /\ (bt * 256 + num) % 256 = num
      BY <1>1, <1>3
  <2> QED BY <2>2, <2>3
<1> QED BY <1>2, <1>3

\* ListAllBlocks asks for the sublist of each type.
LEMMA ListIndexFacts ==
    /\ Len(types) = 7 /\ DOMAIN types = 1..7
    /\ \A k \in 1..7 :
          /\ BlockListIndex(types[k]) \in 1..7
          /\ Sublists[BlockListIndex(types[k])] = types[k]
<1> DEFINE ok(k) == /\ BlockListIndex(types[k]) \in 1..7
                    /\ Sublists[BlockListIndex(types[k])] = types[k]
<1> USE DEF types, BlockListIndex, Sublists, BlockTypeOB, BlockTypeDB, BlockTypeSDB, BlockTypeFC,
            BlockTypeSFC, BlockTypeFB, BlockTypeSFB
<1>1. Len(types) = 7 /\ DOMAIN types = 1..7
    OBVIOUS
<1>2. ok(1) /\ ok(2) /\ ok(3) /\ ok(4)
    OBVIOUS
<1>3. ok(5) /\ ok(6) /\ ok(7)
    OBVIOUS
<1>4. \A k \in 1..7 : k = 1 \/ k = 2 \/ k = 3 \/ k = 4 \/ k = 5 \/ k = 6 \/ k = 7
    OBVIOUS
<1> HIDE DEF ok, types, BlockListIndex, Sublists
<1>5. \A k \in 1..7 : ok(k)
    BY <1>2, <1>3, <1>4
<1> QED BY <1>1, <1>5 DEF ok

\* The SZL IDs.
LEMMA IDFacts ==
    /\ SZLModuleID \in Nat /\ SZLComponentID \in Nat /\ SZLCPUState \in Nat
    /\ SZLProtectionInfo \in Nat /\ SZLDiagBuffer \in Nat
    /\ SZLBlockList \in Nat /\ SZLBlockInfo \in Nat
    /\ SZLModuleID # SZLComponentID /\ SZLModuleID # SZLCPUState
    /\ SZLModuleID # SZLBlockList /\ SZLModuleID # SZLBlockInfo
    /\ SZLModuleID # 0 /\ SZLComponentID # 0
    /\ SZLBlockList # SZLBlockInfo /\ SZLBlockList # SZLCPUState /\ SZLBlockInfo # SZLCPUState
BY DEF SZLModuleID, SZLComponentID, SZLCPUState, SZLProtectionInfo, SZLDiagBuffer,
       SZLBlockList, SZLBlockInfo

\* The plan of each call.
LEMMA PlanOf ==
    ASSUME NEW c \in Calls
    PROVE  /\ c.op = "listAll" =>
                 Plan(c) = [k \in 1..7 |-> Record(SZLBlockList, BlockListIndex(types[k]))]
           /\ c.op = "blockInfo" =>
                 Plan(c) = <<Record(SZLBlockInfo, BlockInfoIndex(c.bt, c.num))>>
           /\ c.op = "identify" =>
                 Plan(c) = <<Record(SZLModuleID, 0), Record(SZLComponentID, 0)>>
           /\ c.op = "cpuState" => Plan(c) = <<Record(SZLCPUState, 0)>>
           /\ c.op = "protection" => Plan(c) = <<Record(SZLProtectionInfo, 0)>>
           /\ c.op = "diagBuffer" => Plan(c) = <<Record(SZLDiagBuffer, 0)>>
           /\ c.op \in {"listAll", "blockInfo", "identify", "cpuState", "protection", "diagBuffer"}
           /\ c.bt \in 0..255 /\ c.num \in BlockNumbers
<1>1. DOMAIN types = 1..7
    BY ListIndexFacts
<1>2. /\ c.op \in {"listAll", "blockInfo", "identify", "cpuState", "protection", "diagBuffer"}
      /\ c.bt \in 0..255 /\ c.num \in BlockNumbers
    BY DEF Calls
<1> QED BY <1>1, <1>2 DEF Plan

LEMMA RecordFacts ==
    ASSUME NEW id \in Nat, NEW index \in Nat
    PROVE  /\ Record(id, index) \in Records
           /\ Record(id, index).id = id /\ Record(id, index).index = index
BY DEF Record, Records

\* A plan is a sequence of records, and not empty.
LEMMA PlanFacts ==
    ASSUME NEW c \in Calls
    PROVE  /\ Plan(c) \in Seq(Records) /\ Len(Plan(c)) \in Nat \ {0}
           /\ c.op = "identify" => Len(Plan(c)) = 2
           /\ c.op = "listAll" => Len(Plan(c)) = 7
           /\ c.op \in {"blockInfo", "cpuState"} => Len(Plan(c)) = 1
<1> DEFINE rl(k) == Record(SZLBlockList, BlockListIndex(types[k]))
           ri == Record(SZLBlockInfo, BlockInfoIndex(c.bt, c.num))
           rm == Record(SZLModuleID, 0)
           rc == Record(SZLComponentID, 0)
           rs == Record(SZLCPUState, 0)
           rp == Record(SZLProtectionInfo, 0)
           rd == Record(SZLDiagBuffer, 0)
<1>1. \A k \in 1..7 : rl(k) \in Records
    BY ListIndexFacts, IDFacts, RecordFacts
<1>2. BlockInfoIndex(c.bt, c.num) \in Nat
    BY PlanOf, InfoIndexFacts
<1>3. rm \in Records /\ rc \in Records /\ rs \in Records /\ rp \in Records /\ rd \in Records
    BY IDFacts, RecordFacts
<1>4. ri \in Records
    BY <1>2, IDFacts, RecordFacts
<1>5. /\ c.op = "listAll" => Plan(c) = [k \in 1..7 |-> rl(k)]
      /\ c.op = "blockInfo" => Plan(c) = <<ri>>
      /\ c.op = "identify" => Plan(c) = <<rm, rc>>
      /\ c.op = "cpuState" => Plan(c) = <<rs>>
      /\ c.op = "protection" => Plan(c) = <<rp>>
      /\ c.op = "diagBuffer" => Plan(c) = <<rd>>
      /\ c.op \in {"listAll", "blockInfo", "identify", "cpuState", "protection", "diagBuffer"}
    BY PlanOf
<1> HIDE DEF rl, ri, rm, rc, rs, rp, rd
<1>6. /\ [k \in 1..7 |-> rl(k)] \in Seq(Records) /\ Len([k \in 1..7 |-> rl(k)]) = 7
      /\ <<ri>> \in Seq(Records) /\ Len(<<ri>>) = 1
      /\ <<rm, rc>> \in Seq(Records) /\ Len(<<rm, rc>>) = 2
      /\ <<rs>> \in Seq(Records) /\ Len(<<rs>>) = 1
      /\ <<rp>> \in Seq(Records) /\ Len(<<rp>>) = 1
      /\ <<rd>> \in Seq(Records) /\ Len(<<rd>>) = 1
    BY <1>1, <1>3, <1>4
<1> DEFINE pl == [k \in 1..7 |-> rl(k)]
           pi == <<ri>>
           pm == <<rm, rc>>
           ps == <<rs>>
           pp == <<rp>>
           pd == <<rd>>
<1>7. /\ \/ c.op = "listAll" /\ Plan(c) = pl
         \/ c.op = "blockInfo" /\ Plan(c) = pi
         \/ c.op = "identify" /\ Plan(c) = pm
         \/ c.op = "cpuState" /\ Plan(c) = ps
         \/ c.op = "protection" /\ Plan(c) = pp
         \/ c.op = "diagBuffer" /\ Plan(c) = pd
    BY <1>5
<1>8. /\ pl \in Seq(Records) /\ Len(pl) = 7 /\ pi \in Seq(Records) /\ Len(pi) = 1
      /\ pm \in Seq(Records) /\ Len(pm) = 2 /\ ps \in Seq(Records) /\ Len(ps) = 1
      /\ pp \in Seq(Records) /\ Len(pp) = 1 /\ pd \in Seq(Records) /\ Len(pd) = 1
    BY <1>6
<1> HIDE DEF pl, pi, pm, ps, pp, pd
<1>9. Plan(c) \in Seq(Records) /\ Len(Plan(c)) \in {1, 2, 7}
    BY <1>7, <1>8, Zenon
<1>10. c.op = "identify" => Plan(c) = pm
    BY <1>7
<1>11. c.op = "listAll" => Plan(c) = pl
    BY <1>7
<1>12. c.op \in {"blockInfo", "cpuState"} => Plan(c) \in {pi, ps}
    BY <1>7
<1>13. Len(Plan(c)) \in Nat \ {0}
    BY <1>9
<1> QED BY <1>8, <1>9, <1>10, <1>11, <1>12, <1>13, Zenon

\* What a record may say.
LEMMA ContentsFacts ==
    ASSUME NEW s \in PLCs, NEW r, r.index \in Nat
    PROVE  Contents(s, r) \in SUBSET (Nat \X Nat)
<1>1. s.blocks \subseteq Nat \X Nat /\ s.cpu \in Nat
  <2>1. s.blocks \subseteq Blocks /\ s.cpu \in CPUBytes
      BY DEF PLCs
  <2>2. Blocks \subseteq Nat \X Nat /\ CPUBytes \subseteq Nat
    <3>1. 0..255 \subseteq Nat /\ BlockNumbers \subseteq Nat
        BY DEF BlockNumbers
    <3>2. (0..255) \X BlockNumbers \subseteq Nat \X Nat
        BY <3>1
    <3>3. Blocks \subseteq (0..255) \X BlockNumbers /\ CPUBytes \subseteq 0..255
        BY DirectoryAssumption, Zenon
    <3> QED BY <3>1, <3>2, <3>3, Zenon
  <2> QED BY <2>1, <2>2
<1>2. r.index \div 256 \in Nat /\ r.index % 256 \in Nat
    OBVIOUS
<1> DEFINE i == r.index \div 256
           j == r.index % 256
<1>3. /\ \/ Contents(s, r) = s.blocks
         \/ Contents(s, r) = OfType(s.blocks, Sublists[r.index])
         \/ Contents(s, r) = {<<i, j>>}
         \/ Contents(s, r) = {<<s.cpu, 0>>}
         \/ Contents(s, r) = {}
    BY DEF Contents
<1> HIDE DEF i, j
<1>4. <<i, j>> \in Nat \X Nat /\ <<s.cpu, 0>> \in Nat \X Nat
    BY <1>1, <1>2 DEF i, j
<1>5. OfType(s.blocks, Sublists[r.index]) \subseteq s.blocks
    BY DEF OfType
<1> QED BY <1>1, <1>3, <1>4, <1>5

\* An answer is accepted only with the reference of the request.
LEMMA AcceptedRef ==
    ASSUME NEW f, NEW r, r # 0, ResponseError(f, r) = {}
    PROVE  f.ref = r
BY DEF ResponseError, ErrProtocolFailure, PDURefMismatchError

LEMMA ResponseErrorType ==
    ASSUME NEW f, NEW r
    PROVE  ResponseError(f, r) \in SUBSET Sentinels
BY DEF ResponseError, ErrProtocolFailure, PDURefMismatchError, Sentinels

-----------------------------------------------------------------------------
(* Facts used in every step. *)

LEMMA AppendOf ==
    ASSUME NEW S, NEW q \in Seq(S), NEW x \in S
    PROVE  /\ Append(q, x) \in Seq(S) /\ Len(Append(q, x)) = Len(q) + 1 /\ Len(q) \in Nat
           /\ Append(q, x)[Len(q) + 1] = x
           /\ \A k \in 1..Len(q) : Append(q, x)[k] = q[k]
           /\ \A k \in 1..Len(Append(q, x)) : k \in 1..Len(q) \/ k = Len(q) + 1
OBVIOUS

LEMMA TailOf ==
    ASSUME NEW S, NEW q \in Seq(S), q # <<>>
    PROVE  /\ Tail(q) \in Seq(S) /\ Head(q) = q[1] /\ 1 \in 1..Len(q) /\ q[1] \in S
           /\ \A p \in 1..Len(Tail(q)) : p + 1 \in 1..Len(q) /\ Tail(q)[p] = q[p + 1]
OBVIOUS

LEMMA MaxRefNat == MaxRef \in Nat
BY DEF MaxRef

LEMMA NoPositions == Len(<<>>) = 0 /\ 1..Len(<<>>) = {} /\ 1..0 = {}
OBVIOUS

LEMMA NoCallFacts == NoCall \notin Calls /\ NoCall.op = "none"
<1>1. NoCall.op = "none"
    BY DEF NoCall
<1>2. \A c \in Calls : c.op # "none"
    BY DEF Calls
<1> QED BY <1>1, <1>2

LEMMA TypeFacts ==
    ASSUME TypeOK, NEW t \in Threads
    PROVE  /\ outcomes[t] \in Seq(Outcomes) /\ Len(outcomes[t]) \in Nat
           /\ call[t] \in Calls \cup {NoCall}
           /\ ref[t] \in Nat /\ nextRef \in Nat /\ MaxRef \in Nat
           /\ at[t] \in {"idle", "lock", "again", "wait"}
           /\ seen[t] \subseteq PLCs
           /\ DOMAIN outcomes[t] = 1..Len(outcomes[t])
<1>1. MaxRef \in Nat
    BY DEF MaxRef
<1>2. ref[t] \in 0..MaxRef /\ nextRef \in 0..MaxRef
    BY DEF TypeOK
<1>3. outcomes[t] \in Seq(Outcomes)
    BY DEF TypeOK
<1>4. call[t] \in Calls \cup {NoCall} /\ at[t] \in {"idle", "lock", "again", "wait"}
      /\ seen[t] \subseteq PLCs
    BY DEF TypeOK
<1> QED BY <1>1, <1>2, <1>3, <1>4

\* Whoever exchanges is alone.
LEMMA Alone ==
    ASSUME TypeOK, NEW t \in Threads, NEW u \in Threads, u # t,
           at[t] \in {"again", "wait"} \/ reqMu = t
    PROVE  at[u] \notin {"again", "wait"}
BY DEF TypeOK

\* The record a call is at belongs to its plan.
LEMMA NowFacts ==
    ASSUME TypeOK, NEW t \in Threads, Underway(t), at[t] # "idle"
    PROVE  Now(t) \in Records /\ call[t] \in Calls
<1>1. call[t] \in Calls /\ Len(outcomes[t]) < Len(Plan(call[t]))
    BY DEF Underway
<1>2. Plan(call[t]) \in Seq(Records) /\ Len(Plan(call[t])) \in Nat
    BY <1>1, PlanFacts
<1>3. Len(outcomes[t]) \in Nat
    BY TypeFacts
<1> QED BY <1>1, <1>2, <1>3 DEF Now

\* What a read record says stays true when more states have been seen.
LEMMA RecordedKept ==
    ASSUME NEW t \in Threads, Recorded(t),
           call'[t] = call[t], outcomes'[t] = outcomes[t], seen[t] \subseteq seen'[t]
    PROVE  Recorded(t)'
<1> SUFFICES ASSUME call[t] # NoCall, NEW k \in 1..Len(outcomes[t]), outcomes[t][k].err = {}
             PROVE  ReadBy(t, Plan(call[t])[k], outcomes[t][k].id, outcomes[t][k].contents)'
    BY DEF Recorded
<1>1. ReadBy(t, Plan(call[t])[k], outcomes[t][k].id, outcomes[t][k].contents)
    BY DEF Recorded
<1>2. Plan(call[t])' = Plan(call[t])
    BY DEF Plan
<1> QED BY <1>1, <1>2 DEF ReadBy

\* A goroutine that does not wait is not concerned by what others do.
LEMMA CallKept ==
    ASSUME TypeOK, NEW u \in Threads, CallOK(u),
           at'[u] = at[u], at[u] # "wait", call'[u] = call[u], outcomes'[u] = outcomes[u],
           seen[u] \subseteq seen'[u], at[u] # "idle" => plc' \in seen'[u],
           conn' = conn \/ at[u] # "again"
    PROVE  CallOK(u)'
<1>1. Waiting(u)' /\ Asked(u)'
    BY DEF Waiting, Asked
<1>2. Underway(u)'
    BY DEF CallOK, Underway
<1>3. Ends(u)'
    BY DEF CallOK, Ends, Panicked
<1>4. Recorded(u)'
    BY RecordedKept DEF CallOK
<1>5. SameSession(u)'
  <2> SUFFICES ASSUME call[u].op = "identify" PROVE SameSession(u)'
      BY DEF SameSession
  <2>1. CASE at[u] = "lock"
    <3>1. outcomes'[u] = <<>>
        BY <2>1 DEF CallOK, Underway
    <3> QED BY <3>1, NoPositions DEF SameSession
  <2>2. CASE at[u] # "lock"
    <3>1. conn' = conn \/ at[u] = "idle"
        BY <2>2, TypeFacts
    <3> QED BY <3>1 DEF CallOK, SameSession
  <2> QED BY <2>1, <2>2
<1> QED BY <1>1, <1>2, <1>3, <1>4, <1>5 DEF CallOK

\* Nor is one that waits, but for what is on the connection.
LEMMA WaitKept ==
    ASSUME NEW u \in Threads, CallOK(u),
           at'[u] = at[u], call'[u] = call[u], outcomes'[u] = outcomes[u], seen'[u] = seen[u],
           ref'[u] = ref[u], nextRef' = nextRef, plc' = plc, conn' = conn
    PROVE  /\ Waiting(u)' /\ Underway(u)' /\ Ends(u)' /\ Recorded(u)' /\ SameSession(u)'
           /\ Now(u)' = Now(u)
<1>1. Waiting(u)' /\ Underway(u)'
    BY DEF CallOK, Waiting, Underway
<1>2. Ends(u)' /\ SameSession(u)'
    BY DEF CallOK, Ends, Panicked, SameSession
<1>3. Recorded(u)'
    BY RecordedKept DEF CallOK
<1>4. Now(u)' = Now(u)
    BY DEF Now
<1> QED BY <1>1, <1>2, <1>3, <1>4

-----------------------------------------------------------------------------
(* IInv is inductive. *)

LEMMA InitIInv == Init => IInv
<1> SUFFICES ASSUME Init PROVE IInv
    OBVIOUS
<1> USE DEF Init
<1>1. MaxRef \in Nat /\ MaxCalls \in Nat /\ MaxFaults \in Nat /\ MaxChanges \in Nat
    BY DirectoryAssumption DEF MaxRef
<1>2. plc \in PLCs
    BY DirectoryAssumption DEF PLCs
<1>3. 0 \in 0..MaxRef /\ 0 \in 0..MaxCalls /\ 0 \in 0..MaxFaults /\ 0 \in 0..MaxChanges /\ 1 \in Nat
    BY <1>1
<1>4. <<>> \in Seq(Outcomes) /\ <<>> \in Seq(Requests) /\ <<>> \in Seq(Frames)
    OBVIOUS
<1>5. \A t \in Threads : reqMu # t
    BY DirectoryAssumption
<1>6. TypeOK
    BY <1>2, <1>3, <1>4, <1>5 DEF TypeOK
<1>7. OnWire
    BY NoPositions, Zenon DEF OnWire
<1>8. ASSUME NEW t \in Threads PROVE CallOK(t)
  <2>1. at[t] = "idle" /\ call[t] = NoCall
      OBVIOUS
  <2>2. call[t].op # "identify"
      BY <2>1, NoCallFacts
  <2> QED BY <2>1, <2>2 DEF CallOK, Waiting, Underway, Ends, Asked, Recorded, SameSession
<1> QED BY <1>6, <1>7, <1>8 DEF IInv

\* The PLC changes: the calls under way have seen one state more.
LEMMA ChangeIInv ==
    ASSUME IInv, NEW new \in PLCs, Change(new)
    PROVE  IInv'
<1>1. /\ plc' = new /\ changes < MaxChanges /\ changes' = changes + 1
      /\ seen' = [t \in Threads |-> IF at[t] = "idle" THEN seen[t] ELSE seen[t] \cup {new}]
      /\ UNCHANGED <<reqMu, at, ref, call, outcomes, calls, nextRef, conn, open, queue, inbox, faults>>
    BY DEF Change, wireVars
<1>2. TypeOK /\ OnWire
    BY DEF IInv
<1>3. TypeOK'
  <2>1. changes' \in 0..MaxChanges
      BY <1>1, <1>2, DirectoryAssumption DEF TypeOK
  <2>2. seen' \in [Threads -> SUBSET PLCs]
      BY <1>1, <1>2 DEF TypeOK
  <2> QED BY <1>1, <1>2, <2>1, <2>2 DEF TypeOK
<1>4. OnWire'
    BY <1>1, <1>2 DEF OnWire
<1>5. ASSUME NEW u \in Threads PROVE CallOK(u)'
  <2>1. seen[u] \subseteq seen'[u] /\ (at[u] # "idle" => new \in seen'[u])
      BY <1>1
  <2>2. CallOK(u)
      BY DEF IInv
  <2>3. CASE at[u] # "wait"
      BY <1>1, <1>2, <2>1, <2>2, <2>3, CallKept
  <2>4. CASE at[u] = "wait"
    <3>1. Waiting(u)' /\ Underway(u)' /\ Ends(u)' /\ SameSession(u)'
        BY <1>1, <2>1, <2>2 DEF CallOK, Waiting, Underway, Ends, Panicked, SameSession
    <3>2. Recorded(u)'
        BY <1>1, <2>1, <2>2, RecordedKept DEF CallOK
    <3>3. Now(u)' = Now(u)
        BY <1>1 DEF Now
    <3>4. Asked(u)'
        BY <1>1, <2>1, <2>2, <3>3 DEF CallOK, Asked, Answers
    <3> QED BY <3>1, <3>2, <3>4 DEF CallOK
  <2> QED BY <2>3, <2>4
<1> QED BY <1>3, <1>4, <1>5 DEF IInv

LEMMA PLCChangesIInv ==
    ASSUME IInv, PLCChanges
    PROVE  IInv'
<1>1. plc \in PLCs
    BY DEF IInv, TypeOK
<1>2. ASSUME NEW b \in Blocks
      PROVE  /\ [plc EXCEPT !.blocks = @ \cup {b}] \in PLCs
             /\ [plc EXCEPT !.blocks = @ \ {b}] \in PLCs
    BY <1>1 DEF PLCs
<1>3. ASSUME NEW byte \in CPUBytes PROVE [plc EXCEPT !.cpu = byte] \in PLCs
    BY <1>1 DEF PLCs
<1> QED BY <1>2, <1>3, ChangeIInv DEF PLCChanges

\* The PLC answers what it was asked, in its present state.
LEMMA ServeIInv ==
    ASSUME IInv, NEW kind \in AnswerKinds \cup {"ok"}, NEW len \in Lengths \cup {0},
           NEW slack \in Slacks \cup {0}, NEW fields \in FieldSets \cup {{}},
           Serve(kind, len, slack, fields)
    PROVE  IInv'
<1> DEFINE q == Head(queue)
           got == IF kind = "short" THEN {} ELSE Contents(plc, q)
           f == [ref |-> q.ref, kind |-> kind, id |-> q.id, contents |-> got,
                 len |-> len, slack |-> slack, fields |-> fields, conn |-> conn]
<1>1. /\ queue # <<>> /\ inbox' = Append(inbox, f) /\ queue' = Tail(queue)
      /\ (kind # "ok" => faults < MaxFaults)
      /\ faults' = (IF kind = "ok" THEN faults ELSE faults + 1)
      /\ UNCHANGED <<plc, changes, reqMu, at, ref, call, outcomes, seen, calls, nextRef, conn, open>>
    BY DEF Serve, callVars
<1>2. TypeOK /\ OnWire
    BY DEF IInv
<1>3. /\ queue \in Seq(Requests) /\ inbox \in Seq(Frames) /\ plc \in PLCs /\ conn \in Nat
    BY <1>2 DEF TypeOK
<1>4. /\ queue' \in Seq(Requests) /\ q = queue[1] /\ 1 \in 1..Len(queue) /\ q \in Requests
      /\ \A p \in 1..Len(queue') : p + 1 \in 1..Len(queue) /\ queue'[p] = queue[p + 1]
    BY <1>1, <1>3, TailOf
<1> HIDE DEF q
<1>5. q.ref \in 1..MaxRef /\ q.id \in Nat /\ q.index \in Nat
    BY <1>4 DEF Requests
<1>6. got \in SUBSET (Nat \X Nat)
  <2>1. Contents(plc, q) \in SUBSET (Nat \X Nat)
      BY <1>3, <1>5, ContentsFacts
  <2> QED BY <2>1, Zenon
<1>7. len \in Nat /\ slack \in Nat /\ fields \in SUBSET Fields
    BY DirectoryAssumption
<1> HIDE DEF got
<1>8. f \in Frames
    BY <1>3, <1>5, <1>6, <1>7, Zenon DEF Frames
<1>9. f.ref = q.ref /\ f.kind = kind /\ f.id = q.id /\ f.contents = got /\ f.conn = conn
    OBVIOUS
<1> HIDE DEF f
<1>10. /\ inbox' \in Seq(Frames) /\ Len(inbox) \in Nat
       /\ \A p \in 1..Len(inbox) : inbox'[p] = inbox[p]
       /\ inbox'[Len(inbox) + 1] = f
       /\ \A p \in 1..Len(inbox') : p \in 1..Len(inbox) \/ p = Len(inbox) + 1
    BY <1>1, <1>3, <1>8, AppendOf
<1>11. TypeOK'
  <2>1. faults' \in 0..MaxFaults
      BY <1>1, <1>2, DirectoryAssumption DEF TypeOK
  <2> QED BY <1>1, <1>2, <1>4, <1>10, <2>1 DEF TypeOK
<1>12. OnWire'
  <2>1. \A p \in 1..Len(queue') : queue'[p].ref <= nextRef
      BY <1>2, <1>4 DEF OnWire
  <2>2. \A p \in 1..Len(inbox') : inbox'[p].ref <= nextRef /\ inbox'[p].conn = conn
    <3> SUFFICES ASSUME NEW p \in 1..Len(inbox')
                 PROVE  inbox'[p].ref <= nextRef /\ inbox'[p].conn = conn
        OBVIOUS
    <3>1. CASE p \in 1..Len(inbox)
        BY <1>2, <1>10, <3>1 DEF OnWire
    <3>2. CASE p = Len(inbox) + 1
      <4>1. inbox'[p] = f /\ q.ref <= nextRef
          BY <1>2, <1>4, <1>10, <3>2 DEF OnWire
      <4> QED BY <1>9, <4>1
    <3> QED BY <1>10, <3>1, <3>2
  <2> QED BY <1>1, <2>1, <2>2 DEF OnWire
<1>13. ASSUME NEW u \in Threads PROVE CallOK(u)'
  <2>1. CallOK(u)
      BY DEF IInv
  <2>2. CASE at[u] # "wait"
    <3>1. at[u] # "idle" => plc' \in seen'[u]
        BY <1>1, <2>1 DEF CallOK, Underway
    <3> QED BY <1>1, <1>2, <2>1, <2>2, <3>1, CallKept
  <2>3. CASE at[u] = "wait"
    <3>1. /\ Waiting(u)' /\ Underway(u)' /\ Ends(u)' /\ Recorded(u)' /\ SameSession(u)'
          /\ Now(u)' = Now(u)
        BY <1>1, <2>1, WaitKept
    <3>4. \A p \in 1..Len(queue') : queue'[p].ref = ref[u] =>
              queue'[p].id = Now(u).id /\ queue'[p].index = Now(u).index
        BY <1>4, <2>1, <2>3 DEF CallOK, Asked
    <3>5. ASSUME f.ref = ref[u] PROVE Answers(u, f)
      <4>1. q.id = Now(u).id /\ q.index = Now(u).index
          BY <1>4, <1>9, <2>1, <2>3, <3>5 DEF CallOK, Asked
      <4>2. Contents(plc, q) = Contents(plc, Now(u))
          BY <4>1 DEF Contents
      <4>3. plc \in seen[u]
          BY <2>1, <2>3 DEF CallOK, Underway
      <4> QED BY <1>9, <4>1, <4>2, <4>3 DEF Answers, got
    <3>6. \A p \in 1..Len(inbox') : inbox'[p].ref = ref[u] => Answers(u, inbox'[p])
      <4> SUFFICES ASSUME NEW p \in 1..Len(inbox'), inbox'[p].ref = ref[u]
                   PROVE  Answers(u, inbox'[p])
          OBVIOUS
      <4>1. CASE p \in 1..Len(inbox)
        <5>1. inbox'[p] = inbox[p]
            BY <1>10, <4>1
        <5> QED BY <2>1, <2>3, <4>1, <5>1 DEF CallOK, Asked
      <4>2. CASE p = Len(inbox) + 1
          BY <1>10, <3>5, <4>2, Zenon
      <4> QED BY <1>10, <4>1, <4>2
    <3>7. Asked(u)'
        BY <1>1, <3>1, <3>4, <3>6 DEF Asked, Answers
    <3> QED BY <3>1, <3>7 DEF CallOK
  <2> QED BY <2>2, <2>3
<1> QED BY <1>11, <1>12, <1>13 DEF IInv

\* A request that is never answered leaves the connection.
LEMMA IgnoreIInv ==
    ASSUME IInv, Ignore
    PROVE  IInv'
<1>1. /\ queue # <<>> /\ queue' = Tail(queue) /\ faults < MaxFaults /\ faults' = faults + 1
      /\ UNCHANGED <<plc, changes, reqMu, at, ref, call, outcomes, seen, calls, nextRef, conn, open,
                     inbox>>
    BY DEF Ignore, callVars
<1>2. TypeOK /\ OnWire
    BY DEF IInv
<1>3. /\ queue' \in Seq(Requests)
      /\ \A p \in 1..Len(queue') : p + 1 \in 1..Len(queue) /\ queue'[p] = queue[p + 1]
  <2>1. queue \in Seq(Requests)
      BY <1>2 DEF TypeOK
  <2> QED BY <1>1, <2>1, TailOf
<1>4. TypeOK'
  <2>1. faults' \in 0..MaxFaults
      BY <1>1, <1>2, DirectoryAssumption DEF TypeOK
  <2> QED BY <1>1, <1>2, <1>3, <2>1 DEF TypeOK
<1>5. OnWire'
  <2>1. \A p \in 1..Len(queue') : queue'[p].ref <= nextRef
      BY <1>2, <1>3 DEF OnWire
  <2> QED BY <1>1, <1>2, <2>1 DEF OnWire
<1>6. ASSUME NEW u \in Threads PROVE CallOK(u)'
  <2>1. CallOK(u)
      BY DEF IInv
  <2>2. /\ Waiting(u)' /\ Underway(u)' /\ Ends(u)' /\ Recorded(u)' /\ SameSession(u)'
        /\ Now(u)' = Now(u)
      BY <1>1, <2>1, WaitKept
  <2>3. at[u] = "wait" => \A p \in 1..Len(queue') : queue'[p].ref = ref[u] =>
            queue'[p].id = Now(u).id /\ queue'[p].index = Now(u).index
      BY <1>3, <2>1 DEF CallOK, Asked
  <2>4. Asked(u)'
      BY <1>1, <2>1, <2>2, <2>3 DEF CallOK, Asked, Answers
  <2> QED BY <2>2, <2>4 DEF CallOK
<1> QED BY <1>4, <1>5, <1>6 DEF IInv

\* A call begins.
LEMMA StartCallIInv ==
    ASSUME IInv, NEW t \in Threads, NEW c \in CallsOf[t], StartCall(t, c)
    PROVE  IInv'
<1>1. /\ at[t] = "idle" /\ calls < MaxCalls /\ calls' = calls + 1
      /\ call' = [call EXCEPT ![t] = c] /\ outcomes' = [outcomes EXCEPT ![t] = <<>>]
      /\ seen' = [seen EXCEPT ![t] = {plc}] /\ at' = [at EXCEPT ![t] = "lock"]
      /\ UNCHANGED <<plc, changes, reqMu, ref, nextRef, conn, open, queue, inbox, faults>>
    BY DEF StartCall, wireVars
<1>2. TypeOK /\ OnWire
    BY DEF IInv
<1>3. c \in Calls
    BY DirectoryAssumption
<1>4. TypeOK'
  <2>1. calls' \in 0..MaxCalls
      BY <1>1, <1>2, DirectoryAssumption DEF TypeOK
  <2>2. at' \in [Threads -> {"idle", "lock", "again", "wait"}]
      BY <1>1, <1>2 DEF TypeOK
  <2>3. call' \in [Threads -> Calls \cup {NoCall}]
      BY <1>1, <1>2, <1>3 DEF TypeOK
  <2>4. outcomes' \in [Threads -> Seq(Outcomes)]
      BY <1>1, <1>2 DEF TypeOK
  <2>5. seen' \in [Threads -> SUBSET PLCs]
      BY <1>1, <1>2 DEF TypeOK
  <2>6. \A u \in Threads : at'[u] \in {"again", "wait"} <=> reqMu' = u
    <3>1. \A u \in Threads : at[u] \in {"again", "wait"} <=> reqMu = u
        BY <1>2 DEF TypeOK
    <3>2. \A u \in Threads : at'[u] = IF u = t THEN "lock" ELSE at[u]
        BY <1>1, <1>2 DEF TypeOK
    <3> QED BY <1>1, <3>1, <3>2
  <2> QED BY <1>1, <1>2, <2>1, <2>2, <2>3, <2>4, <2>5, <2>6 DEF TypeOK
<1>5. OnWire'
    BY <1>1, <1>2 DEF OnWire
<1>6. ASSUME NEW u \in Threads PROVE CallOK(u)'
  <2>1. CallOK(u)
      BY DEF IInv
  <2>2. CASE u = t
    <3>1. at'[u] = "lock" /\ call'[u] = c /\ outcomes'[u] = <<>> /\ seen'[u] = {plc}
        BY <1>1, <1>2, <2>2 DEF TypeOK
    <3>2. Len(Plan(c)) \in Nat \ {0}
        BY <1>3, PlanFacts
    <3>3. Underway(u)'
        BY <1>1, <1>3, <3>1, <3>2, NoPositions DEF Underway
    <3>4. Waiting(u)' /\ Ends(u)' /\ Asked(u)'
        BY <3>1 DEF Waiting, Ends, Asked
    <3>5. Recorded(u)' /\ SameSession(u)'
        BY <3>1, NoPositions DEF Recorded, SameSession
    <3> QED BY <3>3, <3>4, <3>5 DEF CallOK
  <2>3. CASE u # t
    <3>1. at'[u] = at[u] /\ call'[u] = call[u] /\ outcomes'[u] = outcomes[u] /\ seen'[u] = seen[u]
        BY <1>1, <1>2, <2>3 DEF TypeOK
    <3>2. /\ Waiting(u)' /\ Underway(u)' /\ Ends(u)' /\ Recorded(u)' /\ SameSession(u)'
          /\ Now(u)' = Now(u)
        BY <1>1, <2>1, <3>1, WaitKept
    <3>3. Asked(u)'
        BY <1>1, <2>1, <3>1, <3>2 DEF CallOK, Asked, Answers
    <3> QED BY <3>2, <3>3 DEF CallOK
  <2> QED BY <2>2, <2>3
<1> QED BY <1>4, <1>5, <1>6 DEF IInv

\* A request takes a new reference: nothing on the connection has it.
LEMMA RequestIInv ==
    ASSUME IInv, NEW t \in Threads, Request(t)
    PROVE  IInv'
<1> DEFINE r == Now(t)
           m == nextRef + 1
           q == [ref |-> m, id |-> r.id, index |-> r.index]
<1>1. /\ \/ at[t] = "lock" /\ reqMu = NoThread
         \/ at[t] = "again" /\ reqMu = t
      /\ nextRef < MaxRef /\ reqMu' = t /\ nextRef' = m /\ ref' = [ref EXCEPT ![t] = m]
      /\ queue' = Append(queue, q) /\ at' = [at EXCEPT ![t] = "wait"]
      /\ UNCHANGED <<plc, changes, call, outcomes, seen, calls, conn, open, inbox, faults>>
    BY DEF Request, TakeRef, callVars, Now
<1>2. TypeOK /\ OnWire /\ CallOK(t)
    BY DEF IInv
<1>3. r \in Records
    BY <1>1, <1>2, NowFacts DEF CallOK
<1>4. r.id \in Nat /\ r.index \in Nat
    BY <1>3 DEF Records
<1>5. m \in 1..MaxRef /\ nextRef \in Nat /\ m = nextRef + 1
  <2>1. MaxRef \in Nat
      BY DEF MaxRef
  <2>2. nextRef \in 0..MaxRef
      BY <1>2 DEF TypeOK
  <2> QED BY <1>1, <2>1, <2>2
<1> HIDE DEF r, m
<1>6. q \in Requests /\ q.ref = m /\ q.id = r.id /\ q.index = r.index
    BY <1>4, <1>5 DEF Requests
<1> HIDE DEF q
<1>7. queue \in Seq(Requests)
    BY <1>2 DEF TypeOK
<1>8. /\ queue' \in Seq(Requests) /\ Len(queue) \in Nat
      /\ queue'[Len(queue) + 1] = q
      /\ \A p \in 1..Len(queue) : queue'[p] = queue[p]
      /\ \A p \in 1..Len(queue') : p \in 1..Len(queue) \/ p = Len(queue) + 1
    BY <1>1, <1>6, <1>7, AppendOf
<1>9. \A u \in Threads : u # t => at[u] \notin {"again", "wait"}
  <2>1. CASE reqMu = NoThread
      BY <1>2, <2>1, DirectoryAssumption DEF TypeOK
  <2>2. CASE reqMu = t
      BY <1>2, <2>2, Alone
  <2> QED BY <1>1, <2>1, <2>2
<1>10. TypeOK'
  <2>1. reqMu' \in Threads \cup {NoThread} /\ nextRef' \in 0..MaxRef
      BY <1>1, <1>5
  <2>2. at' \in [Threads -> {"idle", "lock", "again", "wait"}]
      BY <1>1, <1>2 DEF TypeOK
  <2>3. ref' \in [Threads -> 0..MaxRef]
    <3>1. m \in 0..MaxRef
        BY <1>5
    <3> QED BY <1>1, <1>2, <3>1 DEF TypeOK
  <2>4. \A u \in Threads : at'[u] \in {"again", "wait"} <=> reqMu' = u
    <3>1. \A u \in Threads : at'[u] = IF u = t THEN "wait" ELSE at[u]
        BY <1>1, <1>2 DEF TypeOK
    <3> QED BY <1>1, <1>9, <3>1
  <2> QED BY <1>1, <1>2, <1>8, <2>1, <2>2, <2>3, <2>4 DEF TypeOK
<1>11. /\ \A p \in 1..Len(queue) : queue[p].ref \in Nat /\ queue[p].ref <= nextRef
       /\ \A p \in 1..Len(inbox) : inbox[p].ref \in Nat /\ inbox[p].ref <= nextRef
  <2>1. inbox \in Seq(Frames)
      BY <1>2 DEF TypeOK
  <2>2. \A p \in 1..Len(queue) : queue[p].ref \in Nat
    <3>1. \A p \in 1..Len(queue) : queue[p] \in Requests
        BY <1>7
    <3> QED BY <3>1 DEF Requests
  <2>3. \A p \in 1..Len(inbox) : inbox[p].ref \in Nat
    <3>1. \A p \in 1..Len(inbox) : inbox[p] \in Frames
        BY <2>1
    <3> QED BY <3>1 DEF Frames
  <2> QED BY <1>2, <2>2, <2>3 DEF OnWire
<1>12. /\ \A p \in 1..Len(queue) : queue[p].ref <= m /\ queue[p].ref # m
       /\ \A p \in 1..Len(inbox) : inbox[p].ref <= m /\ inbox[p].ref # m
    BY <1>5, <1>11
<1>13. OnWire'
  <2>1. \A p \in 1..Len(queue') : queue'[p].ref <= m
    <3> SUFFICES ASSUME NEW p \in 1..Len(queue') PROVE queue'[p].ref <= m
        OBVIOUS
    <3>1. CASE p \in 1..Len(queue)
        BY <1>8, <1>12, <3>1
    <3>2. CASE p = Len(queue) + 1
        BY <1>5, <1>6, <1>8, <3>2
    <3> QED BY <1>8, <3>1, <3>2
  <2> QED BY <1>1, <1>2, <1>12, <2>1 DEF OnWire
<1>14. ASSUME NEW u \in Threads PROVE CallOK(u)'
  <2>1. CallOK(u)
      BY DEF IInv
  <2>2. CASE u # t
    <3>1. at'[u] = at[u] /\ at[u] # "wait"
        BY <1>1, <1>2, <1>9, <2>2 DEF TypeOK
    <3>2. at[u] # "idle" => plc' \in seen'[u]
        BY <1>1, <2>1 DEF CallOK, Underway
    <3> QED BY <1>1, <1>2, <2>1, <3>1, <3>2, CallKept
  <2>3. CASE u = t
    <3>1. at'[t] = "wait" /\ ref'[t] = m
        BY <1>1, <1>2 DEF TypeOK
    <3>2. Waiting(t)'
        BY <1>1, <1>5, <3>1 DEF Waiting
    <3>3. at[t] # "idle"
        BY <1>1
    <3>4. Underway(t)'
        BY <1>1, <1>2, <3>1, <3>3 DEF CallOK, Underway
    <3>5. Ends(t)'
        BY <3>1 DEF Ends
    <3>6. Recorded(t)'
        BY <1>1, <1>2, RecordedKept DEF CallOK
    <3>7. SameSession(t)'
        BY <1>1, <1>2, <3>1, <3>3 DEF CallOK, SameSession
    <3>8. Now(t)' = r
        BY <1>1 DEF Now, r
    <3>9. \A p \in 1..Len(queue') : queue'[p].ref = m =>
              queue'[p].id = r.id /\ queue'[p].index = r.index
      <4> SUFFICES ASSUME NEW p \in 1..Len(queue'), queue'[p].ref = m
                   PROVE  queue'[p].id = r.id /\ queue'[p].index = r.index
          OBVIOUS
      <4>1. p = Len(queue) + 1
          BY <1>8, <1>12
      <4> QED BY <1>6, <1>8, <4>1
    <3>10. Asked(t)'
        BY <1>1, <1>12, <3>1, <3>8, <3>9 DEF Asked
    <3> QED BY <2>3, <3>2, <3>4, <3>5, <3>6, <3>7, <3>10 DEF CallOK
  <2> QED BY <2>2, <2>3
<1> QED BY <1>10, <1>13, <1>14 DEF IInv

\* Close and Connect find no exchange in progress, and empty the connection.
LEMMA SessionIInv ==
    ASSUME IInv, Close \/ Connect
    PROVE  IInv'
<1>1. /\ reqMu = NoThread /\ faults < MaxFaults /\ faults' = faults + 1
      /\ open' \in BOOLEAN /\ conn' \in {conn, conn + 1}
      /\ queue' = <<>> /\ inbox' = <<>>
      /\ UNCHANGED <<plc, changes, reqMu, at, ref, call, outcomes, seen, calls, nextRef>>
    BY DEF Close, Connect, NewSession, callVars
<1>2. TypeOK
    BY DEF IInv
<1>3. \A u \in Threads : at[u] \notin {"again", "wait"}
    BY <1>1, <1>2, DirectoryAssumption DEF TypeOK
<1>4. TypeOK'
  <2>1. faults' \in 0..MaxFaults /\ conn' \in Nat
      BY <1>1, <1>2, DirectoryAssumption DEF TypeOK
  <2>2. queue' \in Seq(Requests) /\ inbox' \in Seq(Frames)
      BY <1>1
  <2> QED BY <1>1, <1>2, <2>1, <2>2 DEF TypeOK
<1>5. OnWire'
    BY <1>1, NoPositions, Zenon DEF OnWire
<1>6. ASSUME NEW u \in Threads PROVE CallOK(u)'
  <2>1. CallOK(u)
      BY DEF IInv
  <2>2. at[u] # "idle" => plc' \in seen'[u]
      BY <1>1, <2>1 DEF CallOK, Underway
  <2> QED BY <1>1, <1>2, <1>3, <2>1, <2>2, CallKept
<1> QED BY <1>4, <1>5, <1>6 DEF IInv

\* An exchange ends with an outcome that, if it is no error, is what the PLC
\* said; inbox loses at most the frame that was read.
LEMMA EndedIInv ==
    ASSUME IInv, NEW t \in Threads, at[t] # "idle", reqMu \in {t, NoThread},
           NEW o \in Outcomes, Ended(t, o), nextRef' \in 0..MaxRef, nextRef <= nextRef',
           o.err = {} => ReadBy(t, Now(t), o.id, o.contents) /\ o.conn = conn,
           inbox' \in Seq(Frames),
           \A p \in 1..Len(inbox') : \E g \in 1..Len(inbox) : inbox'[p] = inbox[g],
           queue' = queue, faults' \in 0..MaxFaults
    PROVE  IInv'
<1> DEFINE more == Len(outcomes[t]) + 1 < Len(Plan(call[t])) /\ ~Panics(o)
           keeps == more /\ KeepsLock(t)
           to == IF keeps THEN "again" ELSE IF more THEN "lock" ELSE "idle"
<1>1. /\ outcomes' = [outcomes EXCEPT ![t] = Append(@, o)]
      /\ at' = [at EXCEPT ![t] = to] /\ reqMu' = (IF keeps THEN t ELSE NoThread)
      /\ ref' = [ref EXCEPT ![t] = 0]
      /\ UNCHANGED <<plc, changes, call, seen, calls, conn, open>>
    BY DEF Ended
<1>2. TypeOK /\ OnWire /\ CallOK(t)
    BY DEF IInv
<1> DEFINE n == Len(outcomes[t])
           P == Plan(call[t])
<1>3. /\ outcomes[t] \in Seq(Outcomes) /\ n \in Nat
      /\ call[t] \in Calls /\ n < Len(P) /\ plc \in seen[t]
    BY <1>2, TypeFacts DEF CallOK, Underway
<1>4. P \in Seq(Records) /\ Len(P) \in Nat /\ (call[t].op = "identify" => Len(P) = 2)
    BY <1>3, PlanFacts
<1>5. call[t] # NoCall
    BY <1>3, NoCallFacts
<1>6. /\ Append(outcomes[t], o) \in Seq(Outcomes) /\ Len(Append(outcomes[t], o)) = n + 1
      /\ Append(outcomes[t], o)[n + 1] = o
      /\ \A k \in 1..n : Append(outcomes[t], o)[k] = outcomes[t][k]
      /\ \A k \in 1..Len(Append(outcomes[t], o)) : k \in 1..n \/ k = n + 1
    BY <1>3, AppendOf
<1>7. outcomes'[t] = Append(outcomes[t], o)
    BY <1>1, <1>2 DEF TypeOK
<1>8. /\ Len(outcomes'[t]) = n + 1 /\ outcomes'[t][n + 1] = o
      /\ \A k \in 1..n : outcomes'[t][k] = outcomes[t][k]
      /\ \A k \in 1..Len(outcomes'[t]) : k \in 1..n \/ k = n + 1
      /\ n + 1 \in 1..Len(outcomes'[t]) /\ DOMAIN outcomes'[t] = 1..Len(outcomes'[t])
    BY <1>3, <1>6, <1>7
<1>9. outcomes' \in [Threads -> Seq(Outcomes)]
  <2> DEFINE x == Append(outcomes[t], o)
  <2>1. x \in Seq(Outcomes) /\ outcomes' = [outcomes EXCEPT ![t] = x]
      BY <1>1, <1>6
  <2> HIDE DEF x
  <2> QED BY <1>2, <2>1 DEF TypeOK
<1>10. P' = P /\ Plan(call[t])' = P
    BY <1>1 DEF Plan
<1>11. (more <=> n + 1 < Len(P) /\ ~Panics(o)) /\ (keeps <=> more /\ call[t].op = "identify")
    BY DEF KeepsLock
<1> HIDE DEF more, keeps, n, P
<1>12. at'[t] = to /\ \A u \in Threads : u # t => at'[u] = at[u] /\ at[u] \notin {"again", "wait"}
    BY <1>1, <1>2, DirectoryAssumption DEF TypeOK
<1>13. /\ keeps => to = "again"
       /\ ~keeps /\ more => to = "lock"
       /\ ~more /\ ~keeps => to = "idle"
       /\ ~more => ~keeps
    BY <1>11
<1>14. to \in {"again", "lock", "idle"}
    OBVIOUS
<1> HIDE DEF to
<1>15. TypeOK'
  <2>1. at' \in [Threads -> {"idle", "lock", "again", "wait"}]
      BY <1>1, <1>2, <1>14 DEF TypeOK
  <2>2. \A u \in Threads : at'[u] \in {"again", "wait"} <=> reqMu' = u
    <3>1. \A u \in Threads : u # NoThread
        BY DirectoryAssumption
    <3>2. reqMu' = (IF keeps THEN t ELSE NoThread)
        BY <1>1
    <3>3. CASE keeps
        BY <1>12, <1>13, <3>2, <3>3
    <3>4. CASE ~keeps
        BY <1>12, <1>13, <3>1, <3>2, <3>4
    <3> QED BY <3>3, <3>4
  <2>3. ref' \in [Threads -> 0..MaxRef]
    <3>1. 0 \in 0..MaxRef
        BY MaxRefNat
    <3> QED BY <1>1, <1>2, <3>1 DEF TypeOK
  <2>4. reqMu' \in Threads \cup {NoThread}
      BY <1>1
  <2>5. /\ plc' = plc /\ changes' = changes /\ call' = call /\ seen' = seen /\ calls' = calls
        /\ open' = open /\ conn' = conn
      BY <1>1
  <2> QED BY <1>2, <1>9, <2>1, <2>2, <2>3, <2>4, <2>5, Zenon DEF TypeOK
<1>16. OnWire'
  <2>1. \A p \in 1..Len(inbox') : inbox'[p].ref <= nextRef /\ inbox'[p].conn = conn
      BY <1>2 DEF OnWire
  <2>2. /\ \A p \in 1..Len(inbox') : inbox'[p].ref \in Nat
        /\ \A p \in 1..Len(queue) : queue[p].ref \in Nat
    <3>1. /\ \A p \in 1..Len(inbox') : inbox'[p] \in Frames
          /\ \A p \in 1..Len(queue) : queue[p] \in Requests
        BY <1>2, SMTT(30) DEF TypeOK
    <3>2. 1..MaxRef \subseteq Nat
        BY MaxRefNat
    <3> QED BY <3>1, <3>2 DEF Frames, Requests
  <2>3. nextRef \in Nat /\ nextRef' \in Nat /\ conn' = conn
      BY <1>1, <1>2, TypeFacts
  <2>4. \A p \in 1..Len(inbox') : inbox'[p].ref <= nextRef'
      BY <2>1, <2>2, <2>3
  <2>5. \A p \in 1..Len(queue) : queue[p].ref <= nextRef'
      BY <1>2, <2>2, <2>3 DEF OnWire
  <2> QED BY <2>1, <2>3, <2>4, <2>5, Zenon DEF OnWire
<1>17. call' = call /\ seen' = seen /\ plc' = plc /\ conn' = conn
    BY <1>1
<1>18. at'[t] # "wait"
    BY <1>12, <1>14
<1>19. Waiting(t)' /\ Asked(t)'
    BY <1>18, Zenon DEF Waiting, Asked
<1>20. Underway(t)'
  <2> SUFFICES ASSUME at'[t] # "idle" PROVE Underway(t)'
      BY Zenon DEF Underway
  <2>1. more
      BY <1>12, <1>13
  <2>2. Len(outcomes'[t]) < Len(P)
      BY <1>8, <1>11, <2>1
  <2>3. ASSUME at'[t] = "lock", call[t].op = "identify" PROVE FALSE
      BY <1>11, <1>12, <1>13, <2>1, <2>3
  <2> QED BY <1>3, <1>10, <1>17, <2>2, <2>3, Zenon DEF Underway
<1>21. Ends(t)'
  <2> SUFFICES ASSUME at'[t] = "idle"
               PROVE  /\ Len(outcomes'[t]) <= Len(P)
                      /\ Len(outcomes'[t]) = Len(P) \/ Panicked(t)'
      BY <1>10, Zenon DEF Ends
  <2>1. ~more
      BY <1>12, <1>13
  <2>2. CASE ~(n + 1 < Len(P))
      BY <1>3, <1>4, <1>8, <2>2
  <2>3. Panics(o) => Panicked(t)'
      BY <1>8, Zenon DEF Panicked
  <2>4. Len(outcomes'[t]) <= Len(P)
      BY <1>3, <1>4, <1>8
  <2> QED BY <1>11, <2>1, <2>2, <2>3, <2>4
<1>22. Recorded(t)'
  <2> SUFFICES ASSUME NEW k \in 1..Len(outcomes'[t]), outcomes'[t][k].err = {}
               PROVE  ReadBy(t, P[k], outcomes[t][k].id, outcomes[t][k].contents)'
      BY <1>10, Zenon DEF Recorded
  <2>1. ReadBy(t, P[k], outcomes'[t][k].id, outcomes'[t][k].contents)
    <3>1. CASE k \in 1..n
        BY <1>2, <1>5, <1>8, <3>1 DEF CallOK, Recorded, n, P
    <3>2. CASE k = n + 1
      <4>1. outcomes'[t][k] = o /\ P[k] = Now(t)
          BY <1>8, <3>2 DEF Now, n, P
      <4> QED BY <4>1
    <3> QED BY <1>8, <3>1, <3>2
  <2> QED BY <1>10, <1>17, <2>1, Zenon DEF ReadBy
<1>23. SameSession(t)'
  <2> SUFFICES ASSUME call[t].op = "identify" PROVE SameSession(t)'
      BY <1>17, Zenon DEF SameSession
  <2>1. ASSUME NEW k \in 1..Len(outcomes'[t]), outcomes'[t][k].err = {}
        PROVE  outcomes'[t][k].conn = conn
    <3>1. CASE k \in 1..n
      <4>1. outcomes'[t][k] = outcomes[t][k] /\ at[t] # "idle"
          BY <1>8, <3>1
      <4> QED BY <1>2, <2>1, <3>1, <4>1 DEF CallOK, SameSession, n
    <3>2. CASE k = n + 1
      <4>1. outcomes'[t][k] = o
          BY <1>8, <3>2
      <4> QED BY <2>1, <4>1
    <3> QED BY <1>8, <3>1, <3>2
  <2> QED BY <1>17, <2>1, Zenon DEF SameSession
<1>24. ASSUME NEW u \in Threads, u # t PROVE CallOK(u)'
  <2>1. CallOK(u)
      BY DEF IInv
  <2>2. at'[u] = at[u] /\ at[u] # "wait"
      BY <1>12, <1>24
  <2>3. outcomes'[u] = outcomes[u]
      BY <1>1, <1>2, <1>24 DEF TypeOK
  <2>4. at[u] # "idle" => plc' \in seen'[u]
      BY <1>17, <2>1 DEF CallOK, Underway
  <2>5. call'[u] = call[u] /\ seen[u] \subseteq seen'[u]
      BY <1>17
  <2> QED BY <1>2, <1>17, <2>1, <2>2, <2>3, <2>4, <2>5, CallKept
<1>25. CallOK(t)'
    BY <1>19, <1>20, <1>21, <1>22, <1>23, Zenon DEF CallOK
<1> QED BY <1>15, <1>16, <1>24, <1>25, Zenon DEF IInv

\* An error is no record.
LEMMA FailureFacts ==
    ASSUME NEW err \in SUBSET (Sentinels \cup {"parse"}), err # {}
    PROVE  Failure(err) \in Outcomes /\ Failure(err).err # {}
<1>1. {} \in SUBSET (Nat \X Nat) /\ 0 \in Nat /\ {} \in SUBSET Fields
    OBVIOUS
<1> QED BY <1>1 DEF Failure, Outcomes

LEMMA OutcomeFacts ==
    ASSUME NEW f \in Frames
    PROVE  /\ Outcome({}, f) \in Outcomes
           /\ Outcome({}, f).id = f.id /\ Outcome({}, f).contents = f.contents
           /\ Outcome({}, f).conn = f.conn
<1>1. /\ f.id \in Nat /\ f.contents \in SUBSET (Nat \X Nat) /\ f.len \in Nat /\ f.slack \in Nat
      /\ f.fields \in SUBSET Fields /\ f.conn \in Nat
    BY Zenon DEF Frames
<1>2. {} \in SUBSET (Sentinels \cup {"parse"})
    OBVIOUS
<1> QED BY <1>1, <1>2, Zenon DEF Outcome, Outcomes

LEMMA TimesOutIInv ==
    ASSUME IInv, NEW t \in Threads, ReceiveTimesOut(t)
    PROVE  IInv'
<1> DEFINE o == Failure({"deadline"})
<1>1. /\ at[t] = "wait" /\ faults < MaxFaults /\ faults' = faults + 1 /\ Ended(t, o)
      /\ queue' = queue /\ inbox' = inbox /\ nextRef' = nextRef /\ reqMu = t
    BY DEF ReceiveTimesOut, IInv, TypeOK
<1>2. o \in Outcomes /\ o.err # {}
  <2>1. {"deadline"} \in SUBSET (Sentinels \cup {"parse"}) /\ {"deadline"} # {}
      BY DEF Sentinels
  <2> QED BY <2>1, FailureFacts
<1>3. /\ faults' \in 0..MaxFaults /\ inbox' \in Seq(Frames)
      /\ nextRef' \in 0..MaxRef /\ nextRef <= nextRef'
    BY <1>1, DirectoryAssumption, MaxRefNat DEF IInv, TypeOK
<1> HIDE DEF o
<1>4. \A p \in 1..Len(inbox') : \E g \in 1..Len(inbox) : inbox'[p] = inbox[g]
    BY <1>1
<1> QED BY <1>1, <1>2, <1>3, <1>4, EndedIInv

\* The frame that is read is accepted only if it answers this request.
LEMMA ReceiveIInv ==
    ASSUME IInv, NEW t \in Threads, Receive(t)
    PROVE  IInv'
<1> DEFINE f == Head(inbox)
           sent == ResponseError(f, ref[t])
           err == IF sent # {} THEN sent ELSE ParseSZLResponse(f) \cup ParseBlocks(t, f)
           o == IF err # {} THEN Failure(err) ELSE Outcome({}, f)
<1>1. /\ at[t] = "wait" /\ inbox # <<>> /\ inbox' = Tail(inbox) /\ Ended(t, o)
      /\ queue' = queue /\ faults' = faults /\ nextRef' = nextRef
    BY DEF Receive
<1>2. TypeOK /\ OnWire /\ CallOK(t)
    BY DEF IInv
<1>3. /\ inbox \in Seq(Frames) /\ faults' \in 0..MaxFaults /\ reqMu = t
      /\ nextRef' \in 0..MaxRef /\ nextRef <= nextRef'
    BY <1>1, <1>2, MaxRefNat DEF TypeOK
<1>4. /\ inbox' \in Seq(Frames) /\ f = inbox[1] /\ 1 \in 1..Len(inbox) /\ f \in Frames
      /\ \A p \in 1..Len(inbox') : p + 1 \in 1..Len(inbox) /\ inbox'[p] = inbox[p + 1]
    BY <1>1, <1>3, TailOf
<1>5. \A p \in 1..Len(inbox') : \E g \in 1..Len(inbox) : inbox'[p] = inbox[g]
    BY <1>4, Zenon
<1> HIDE DEF f
<1>6. err \in SUBSET (Sentinels \cup {"parse"})
  <2>1. sent \in SUBSET Sentinels
      BY ResponseErrorType
  <2>2. ParseSZLResponse(f) \subseteq Sentinels /\ ParseBlocks(t, f) \subseteq {"parse"}
      BY DEF ParseSZLResponse, ParseBlocks, Sentinels
  <2> HIDE DEF sent
  <2> QED BY <2>1, <2>2
<1>7. ref[t] # 0
    BY <1>1, <1>2, TypeFacts DEF CallOK, Waiting
<1>8. ASSUME err = {}
      PROVE  f.ref = ref[t] /\ (f.kind = "short" => call[t].op \notin {"listAll", "blockInfo"})
  <2>1. sent = {} /\ ParseBlocks(t, f) = {}
      BY <1>8
  <2>2. f.ref = ref[t]
      BY <1>7, <2>1, AcceptedRef
  <2> QED BY <2>1, <2>2 DEF ParseBlocks
<1> HIDE DEF err
<1>9. o \in Outcomes
    BY <1>4, <1>6, FailureFacts, OutcomeFacts
<1>10. ASSUME o.err = {}
       PROVE  ReadBy(t, Now(t), o.id, o.contents) /\ o.conn = conn
  <2>1. err = {}
      BY <1>6, <1>10, FailureFacts
  <2>2. o.id = f.id /\ o.contents = f.contents /\ o.conn = f.conn
      BY <1>4, <2>1, OutcomeFacts
  <2>3. f.conn = conn
      BY <1>2, <1>4 DEF OnWire
  <2>4. f.ref = ref[t] /\ (f.kind = "short" => call[t].op \notin {"listAll", "blockInfo"})
      BY <1>8, <2>1
  <2>5. Answers(t, f)
      BY <1>1, <1>2, <1>4, <2>4 DEF CallOK, Asked
  <2> QED BY <2>2, <2>3, <2>4, <2>5 DEF ReadBy, Answers
<1> HIDE DEF o
<1> QED BY <1>1, <1>3, <1>4, <1>5, <1>9, <1>10, EndedIInv

\* The request is not sent: the exchange is over at once.
LEMMA RequestFailsIInv ==
    ASSUME IInv, NEW t \in Threads, RequestFails(t)
    PROVE  IInv'
<1>1. TypeOK
    BY DEF IInv
<1>2. /\ \/ at[t] = "lock" /\ reqMu = NoThread
         \/ at[t] = "again" /\ reqMu = t
      /\ nextRef < MaxRef /\ nextRef' = nextRef + 1 /\ queue' = queue /\ inbox' = inbox
    BY DEF RequestFails, TakeRef
<1>3. nextRef' \in 0..MaxRef /\ nextRef <= nextRef' /\ inbox' \in Seq(Frames)
    BY <1>1, <1>2, MaxRefNat DEF TypeOK
<1>4. \A p \in 1..Len(inbox') : \E g \in 1..Len(inbox) : inbox'[p] = inbox[g]
    BY <1>2
<1> DEFINE o1 == Failure(ErrNotConnected)
           o2 == Failure({"io"})
<1>5. o1 \in Outcomes /\ o1.err # {} /\ o2 \in Outcomes /\ o2.err # {}
  <2>1. /\ ErrNotConnected \in SUBSET (Sentinels \cup {"parse"}) /\ ErrNotConnected # {}
        /\ {"io"} \in SUBSET (Sentinels \cup {"parse"}) /\ {"io"} # {}
      BY DEF ErrNotConnected, Sentinels
  <2> QED BY <2>1, FailureFacts
<1>6. /\ \/ Ended(t, o1) /\ faults' = faults
         \/ faults < MaxFaults /\ faults' = faults + 1 /\ Ended(t, o2)
    BY DEF RequestFails
<1>7. faults' \in 0..MaxFaults
    BY <1>1, <1>6, DirectoryAssumption DEF TypeOK
<1> HIDE DEF o1, o2
<1>8. CASE Ended(t, o1)
    BY <1>2, <1>3, <1>4, <1>5, <1>7, <1>8, EndedIInv
<1>9. CASE Ended(t, o2)
    BY <1>2, <1>3, <1>4, <1>5, <1>7, <1>9, EndedIInv
<1> QED BY <1>6, <1>8, <1>9

LEMMA StutterIInv ==
    ASSUME IInv, UNCHANGED vars
    PROVE  IInv'
<1>1. /\ plc' = plc /\ changes' = changes /\ reqMu' = reqMu /\ at' = at /\ ref' = ref
      /\ call' = call /\ outcomes' = outcomes /\ seen' = seen /\ calls' = calls
      /\ nextRef' = nextRef /\ conn' = conn /\ open' = open /\ queue' = queue
      /\ inbox' = inbox /\ faults' = faults
    BY DEF vars, callVars, wireVars
<1>2. TypeOK'
    BY <1>1, Zenon DEF IInv, TypeOK
<1>3. OnWire'
    BY <1>1, Zenon DEF IInv, OnWire
<1>4. ASSUME NEW u \in Threads PROVE CallOK(u)'
  <2>1. CallOK(u)
      BY DEF IInv
  <2>2. /\ Waiting(u)' /\ Underway(u)' /\ Ends(u)' /\ Recorded(u)' /\ SameSession(u)'
        /\ Now(u)' = Now(u)
      BY <1>1, <2>1, WaitKept
  <2>3. Asked(u)'
      BY <1>1, <2>1, <2>2 DEF CallOK, Asked, Answers
  <2> QED BY <2>2, <2>3 DEF CallOK
<1> QED BY <1>2, <1>3, <1>4 DEF IInv

LEMMA NextIInv == IInv /\ [Next]_vars => IInv'
<1> SUFFICES ASSUME IInv, [Next]_vars PROVE IInv'
    OBVIOUS
<1>1. CASE PLCChanges
    BY <1>1, PLCChangesIInv
<1>2. CASE \E kind \in AnswerKinds \cup {"ok"}, len \in Lengths \cup {0},
              slack \in Slacks \cup {0}, fields \in FieldSets \cup {{}} :
                 Serve(kind, len, slack, fields)
    BY <1>2, ServeIInv
<1>3. ASSUME NEW t \in Threads, NEW c \in CallsOf[t], StartCall(t, c) PROVE IInv'
    BY <1>3, StartCallIInv
<1>4. ASSUME NEW t \in Threads, Request(t) \/ RequestFails(t) \/ Receive(t) \/ ReceiveTimesOut(t)
      PROVE  IInv'
    BY <1>4, RequestIInv, RequestFailsIInv, ReceiveIInv, TimesOutIInv
<1>5. CASE Ignore \/ Close \/ Connect
    BY <1>5, IgnoreIInv, SessionIInv
<1>6. CASE UNCHANGED vars
    BY <1>6, StutterIInv
<1> QED BY <1>1, <1>2, <1>3, <1>4, <1>5, <1>6 DEF Next

-----------------------------------------------------------------------------
(* The properties. *)

\* A call that has returned has read the records of its plan.
LEMMA ReturnedFacts ==
    ASSUME IInv, NEW t \in Threads, NEW op, op # "none", Returned(t, op)
    PROVE  /\ call[t] \in Calls /\ call[t].op = op
           /\ Len(outcomes[t]) \in Nat /\ Len(outcomes[t]) <= Len(Plan(call[t]))
           /\ DOMAIN outcomes[t] = 1..Len(outcomes[t])
           /\ Len(outcomes[t]) = Len(Plan(call[t])) \/ Panicked(t)
           /\ \A k \in 1..Len(outcomes[t]) : outcomes[t][k].err = {} =>
                 ReadBy(t, Plan(call[t])[k], outcomes[t][k].id, outcomes[t][k].contents)
<1>1. call[t].op = op /\ at[t] = "idle"
    BY DEF Returned
<1>2. call[t] # NoCall
    BY <1>1, NoCallFacts
<1>3. TypeOK /\ CallOK(t)
    BY DEF IInv
<1>4. call[t] \in Calls
    BY <1>2, <1>3, TypeFacts
<1>5. Len(outcomes[t]) \in Nat /\ DOMAIN outcomes[t] = 1..Len(outcomes[t])
    BY <1>3, TypeFacts
<1> QED BY <1>1, <1>2, <1>3, <1>4, <1>5 DEF CallOK, Ends, Recorded

\* Only the module record of an identification can make a call panic.
LEMMA NoPanic ==
    ASSUME IInv, NEW t \in Threads, NEW op, op # "none", Returned(t, op),
           \A k \in 1..Len(outcomes[t]) : Plan(call[t])[k].id # SZLModuleID
    PROVE  Len(outcomes[t]) = Len(Plan(call[t]))
<1>1. /\ DOMAIN outcomes[t] = 1..Len(outcomes[t])
      /\ Len(outcomes[t]) = Len(Plan(call[t])) \/ Panicked(t)
      /\ \A k \in 1..Len(outcomes[t]) : outcomes[t][k].err = {} =>
            ReadBy(t, Plan(call[t])[k], outcomes[t][k].id, outcomes[t][k].contents)
    BY ReturnedFacts
<1>2. ASSUME NEW k \in 1..Len(outcomes[t]) PROVE ~Panics(outcomes[t][k])
    BY <1>1, <1>2, Zenon DEF Panics, ReadBy
<1> QED BY <1>1, <1>2, Zenon DEF Panicked

LEMMA ListingInv == IInv => ListingIsRegular
<1> SUFFICES ASSUME IInv, NEW t \in Threads, Returned(t, "listAll")
             PROVE  /\ Len(outcomes[t]) = Len(types)
                    /\ \A k \in DOMAIN types :
                          LET o == outcomes[t][k] IN
                          o.err = {} =>
                              /\ {b \in Blocks : b[1] = types[k] /\ \A s \in seen[t] : b \in s.blocks}
                                     \subseteq o.contents
                              /\ o.contents \subseteq
                                     {b \in Blocks : b[1] = types[k] /\ \E s \in seen[t] : b \in s.blocks}
    BY DEF ListingIsRegular
<1> DEFINE P == Plan(call[t])
<1>1. /\ call[t] \in Calls /\ call[t].op = "listAll"
      /\ Len(outcomes[t]) \in Nat /\ Len(outcomes[t]) <= Len(P)
      /\ \A k \in 1..Len(outcomes[t]) : outcomes[t][k].err = {} =>
            ReadBy(t, P[k], outcomes[t][k].id, outcomes[t][k].contents)
    BY ReturnedFacts
<1>2. /\ Len(P) = 7 /\ P = [k \in 1..7 |-> Record(SZLBlockList, BlockListIndex(types[k]))]
    BY <1>1, PlanFacts, PlanOf
<1>3. \A k \in 1..7 : P[k] = Record(SZLBlockList, BlockListIndex(types[k]))
    BY <1>2
<1>4. ASSUME NEW k \in 1..7
      PROVE  /\ P[k].id = SZLBlockList /\ P[k].index \in 1..7 /\ Sublists[P[k].index] = types[k]
  <2>1. BlockListIndex(types[k]) \in 1..7 /\ Sublists[BlockListIndex(types[k])] = types[k]
      BY ListIndexFacts
  <2>2. BlockListIndex(types[k]) \in Nat
      BY <2>1
  <2>3. P[k].id = SZLBlockList /\ P[k].index = BlockListIndex(types[k])
      BY <1>3, <2>2, IDFacts, RecordFacts
  <2> QED BY <2>1, <2>3
<1> HIDE DEF P
<1>5. \A k \in 1..Len(outcomes[t]) : P[k].id # SZLModuleID
    BY <1>1, <1>2, <1>4, IDFacts
<1>6. Len(outcomes[t]) = 7
    BY <1>2, <1>5, NoPanic DEF P
<1>7. Len(types) = 7 /\ DOMAIN types = 1..7
    BY ListIndexFacts
<1>8. ASSUME NEW k \in 1..7, outcomes[t][k].err = {}
      PROVE  /\ {b \in Blocks : b[1] = types[k] /\ \A s \in seen[t] : b \in s.blocks}
                    \subseteq outcomes[t][k].contents
             /\ outcomes[t][k].contents \subseteq
                    {b \in Blocks : b[1] = types[k] /\ \E s \in seen[t] : b \in s.blocks}
  <2> DEFINE c == outcomes[t][k].contents
  <2>1. ReadBy(t, P[k], outcomes[t][k].id, c)
      BY <1>1, <1>6, <1>8
  <2>2. PICK s \in seen[t] : c = Contents(s, P[k])
      BY <1>1, <2>1 DEF ReadBy
  <2>3. P[k].id = SZLBlockList /\ P[k].index # 0 /\ Sublists[P[k].index] = types[k]
      BY <1>4
  <2>4. c = {b \in s.blocks : b[1] = types[k]}
    <3>1. Contents(s, P[k]) = OfType(s.blocks, Sublists[P[k].index])
        BY <2>3, IDFacts DEF Contents
    <3>2. c = OfType(s.blocks, types[k])
        BY <2>2, <2>3, <3>1
    <3> QED BY <3>2 DEF OfType
  <2>5. s.blocks \subseteq Blocks
    <3>1. seen[t] \subseteq PLCs
        BY TypeFacts DEF IInv
    <3> QED BY <3>1 DEF PLCs
  <2> HIDE DEF c
  <2>6. /\ {b \in Blocks : b[1] = types[k] /\ \A x \in seen[t] : b \in x.blocks} \subseteq c
        /\ c \subseteq {b \in Blocks : b[1] = types[k] /\ \E x \in seen[t] : b \in x.blocks}
      BY <2>4, <2>5, Zenon
  <2> QED BY <2>6 DEF c
<1> QED BY <1>6, <1>7, <1>8

LEMMA InfoInv == IInv => InfoIsOfTheBlock
<1> SUFFICES ASSUME IInv, NEW t \in Threads, Returned(t, "blockInfo"), Only(t).err = {},
                    call[t].num < 256
             PROVE  Only(t).contents = {<<call[t].bt, call[t].num>>}
    BY DEF InfoIsOfTheBlock
<1> DEFINE bt == call[t].bt
           num == call[t].num
           i == BlockInfoIndex(bt, num)
           P == Plan(call[t])
<1>1. /\ call[t] \in Calls /\ call[t].op = "blockInfo"
      /\ Len(outcomes[t]) \in Nat /\ Len(outcomes[t]) <= Len(P)
      /\ \A k \in 1..Len(outcomes[t]) : outcomes[t][k].err = {} =>
            ReadBy(t, P[k], outcomes[t][k].id, outcomes[t][k].contents)
    BY ReturnedFacts
<1>2. Len(P) = 1 /\ P = <<Record(SZLBlockInfo, i)>> /\ bt \in 0..255 /\ num \in BlockNumbers
    BY <1>1, PlanFacts, PlanOf
<1>3. i \in Nat /\ i \div 256 = bt /\ i % 256 = num
  <2>1. num < 256
      OBVIOUS
  <2> HIDE DEF bt, num
  <2> QED BY <1>2, <2>1, InfoIndexFacts
<1>4. P[1] = Record(SZLBlockInfo, i)
    BY <1>2
<1> HIDE DEF P, i
<1>5. P[1].id = SZLBlockInfo /\ P[1].index = i
    BY <1>3, <1>4, IDFacts, RecordFacts
<1>6. \A k \in 1..Len(outcomes[t]) : P[k].id # SZLModuleID
    BY <1>1, <1>2, <1>5, IDFacts
<1>7. Len(outcomes[t]) = 1
    BY <1>2, <1>6, NoPanic DEF P
<1>8. ReadBy(t, P[1], Only(t).id, Only(t).contents)
    BY <1>1, <1>7 DEF Only
<1>9. PICK s \in seen[t] : Only(t).contents = Contents(s, P[1])
    BY <1>1, <1>8 DEF ReadBy
<1>10. Contents(s, P[1]) = {<<P[1].index \div 256, P[1].index % 256>>}
    BY <1>5, IDFacts DEF Contents
<1> QED BY <1>3, <1>5, <1>9, <1>10

LEMMA StateInv == IInv => StateIsCurrent
<1> SUFFICES ASSUME IInv, NEW t \in Threads, Returned(t, "cpuState"), Only(t).err = {}
             PROVE  /\ Only(t).id = SZLCPUState
                    /\ \/ GetCPUState(t) = "unknown"
                       \/ \E s \in seen[t] : GetCPUState(t) = CPUState(s.cpu)
    BY DEF StateIsCurrent
<1> DEFINE P == Plan(call[t])
<1>1. /\ call[t] \in Calls /\ call[t].op = "cpuState"
      /\ Len(outcomes[t]) \in Nat /\ Len(outcomes[t]) <= Len(P)
      /\ \A k \in 1..Len(outcomes[t]) : outcomes[t][k].err = {} =>
            ReadBy(t, P[k], outcomes[t][k].id, outcomes[t][k].contents)
    BY ReturnedFacts
<1>2. Len(P) = 1 /\ P = <<Record(SZLCPUState, 0)>>
    BY <1>1, PlanFacts, PlanOf
<1>3. P[1] = Record(SZLCPUState, 0)
    BY <1>2
<1> HIDE DEF P
<1>4. P[1].id = SZLCPUState
    BY <1>3, IDFacts, RecordFacts
<1>5. \A k \in 1..Len(outcomes[t]) : P[k].id # SZLModuleID
    BY <1>1, <1>2, <1>4, IDFacts
<1>6. Len(outcomes[t]) = 1
    BY <1>2, <1>5, NoPanic DEF P
<1>7. ReadBy(t, P[1], Only(t).id, Only(t).contents)
    BY <1>1, <1>6 DEF Only
<1>8. Only(t).id = SZLCPUState
    BY <1>4, <1>7 DEF ReadBy
<1>9. CASE Only(t).contents = {}
    BY <1>8, <1>9 DEF GetCPUState
<1>10. ASSUME NEW s \in seen[t], Only(t).contents = Contents(s, P[1])
       PROVE  GetCPUState(t) = CPUState(s.cpu)
  <2>1. Only(t).contents = {<<s.cpu, 0>>}
      BY <1>4, <1>10, IDFacts DEF Contents
  <2>2. (CHOOSE b \in Only(t).contents : TRUE) = <<s.cpu, 0>>
      BY <2>1
  <2>3. Only(t).contents # {} /\ <<s.cpu, 0>>[1] = s.cpu
      BY <2>1
  <2> QED BY <2>2, <2>3 DEF GetCPUState
<1> QED BY <1>7, <1>8, <1>9, <1>10 DEF ReadBy

\* How many of the two records are unusable.
LEMMA ErrorsFacts ==
    ASSUME NEW t \in Threads, DOMAIN outcomes[t] = 1..2
    PROVE  LET a == Unusable(outcomes[t][1], 20)
               b == Unusable(outcomes[t][2], 34)
           IN /\ Errors(t) \in Nat
              /\ Errors(t) = 2 <=> a /\ b
              /\ Errors(t) > 0 <=> a \/ b
              /\ Errors(t) = 1 <=> (a \/ b) /\ ~(a /\ b)
<1> DEFINE a == Unusable(outcomes[t][1], 20)
           b == Unusable(outcomes[t][2], 34)
           S == {k \in 1..2 : Unusable(outcomes[t][k], IF k = 1 THEN 20 ELSE 34)}
<1>1. Errors(t) = Cardinality(S)
    BY DEF Errors
<1>2. S = (IF a THEN {1} ELSE {}) \cup (IF b THEN {2} ELSE {})
  <2>1. 1..2 = {1, 2} /\ 1 # 2
      OBVIOUS
  <2>2. (1 \in S <=> a) /\ (2 \in S <=> b) /\ S \subseteq {1, 2}
      BY <2>1, Zenon
  <2> HIDE DEF S, a, b
  <2> QED BY <2>2
<1>3. Cardinality({}) = 0 /\ Cardinality({1}) = 1 /\ Cardinality({2}) = 1
    BY FS_EmptySet, FS_Singleton
<1>4. Cardinality({1, 2}) = 2
  <2>1. IsFiniteSet({1})
      BY FS_Singleton
  <2>2. 2 \notin {1} /\ {1} \cup {2} = {1, 2}
      OBVIOUS
  <2>3. Cardinality({1} \cup {2}) = Cardinality({1}) + 1
      BY <2>1, <2>2, FS_AddElement
  <2> QED BY <1>3, <2>2, <2>3
<1> HIDE DEF S, a, b
<1>5. /\ a /\ b => S = {1, 2}
      /\ a /\ ~b => S = {1}
      /\ ~a /\ b => S = {2}
      /\ ~a /\ ~b => S = {}
    BY <1>2
<1>6. /\ a /\ b => Errors(t) = 2
      /\ a /\ ~b => Errors(t) = 1
      /\ ~a /\ b => Errors(t) = 1
      /\ ~a /\ ~b => Errors(t) = 0
    BY <1>1, <1>3, <1>4, <1>5, Zenon
<1>7. /\ Errors(t) \in Nat
      /\ Errors(t) = 2 <=> a /\ b
      /\ Errors(t) > 0 <=> a \/ b
      /\ Errors(t) = 1 <=> (a \/ b) /\ ~(a /\ b)
    BY <1>6
<1> QED BY <1>7 DEF a, b

LEMMA IdentifyInv == IInv => IdentifyIsSound
<1> SUFFICES ASSUME IInv, NEW t \in Threads, Returned(t, "identify"), ~Panicked(t)
             PROVE  LET o == outcomes[t]
                        shows(k, min, f) == o[k].err = {} /\ o[k].len >= min /\ f \in o[k].fields
                    IN \E c \in {o[1].conn, o[2].conn} : \A f \in Fields :
                          Identify(t)[f] =
                              IF f \in Searched /\ shows(1, 20, f)
                              THEN [id |-> SZLModuleID, conn |-> c]
                              ELSE IF shows(2, 34, f) THEN [id |-> SZLComponentID, conn |-> c]
                              ELSE Empty
    BY DEF IdentifyIsSound
<1> DEFINE P == Plan(call[t])
           o1 == outcomes[t][1]
           o2 == outcomes[t][2]
           a == Unusable(o1, 20)
           b == Unusable(o2, 34)
           blank == [f \in Fields |-> Empty]
           ok1 == o1.err = {} /\ o1.len >= 20
           ok2 == o2.err = {} /\ o2.len >= 34
           m == FromModule(blank, o1)
           i == FromComponent(m, o2)
<1>1. /\ call[t] \in Calls /\ call[t].op = "identify"
      /\ DOMAIN outcomes[t] = 1..Len(outcomes[t]) /\ Len(outcomes[t]) = Len(P)
      /\ \A k \in 1..Len(outcomes[t]) : outcomes[t][k].err = {} =>
            ReadBy(t, P[k], outcomes[t][k].id, outcomes[t][k].contents)
    BY ReturnedFacts
<1>2. Len(P) = 2 /\ P = <<Record(SZLModuleID, 0), Record(SZLComponentID, 0)>>
    BY <1>1, PlanFacts, PlanOf
<1>3. P[1] = Record(SZLModuleID, 0) /\ P[2] = Record(SZLComponentID, 0)
    BY <1>2
<1> HIDE DEF P
<1>4. P[1].id = SZLModuleID /\ P[2].id = SZLComponentID
    BY <1>3, IDFacts, RecordFacts
<1>5. /\ Len(outcomes[t]) = 2 /\ DOMAIN outcomes[t] = 1..2
      /\ 1 \in 1..Len(outcomes[t]) /\ 2 \in 1..Len(outcomes[t])
    BY <1>1, <1>2
<1>6. (ok1 => o1.id = SZLModuleID) /\ (ok2 => o2.id = SZLComponentID)
    BY <1>1, <1>4, <1>5 DEF ReadBy
<1>7. o1.len \in Nat /\ o2.len \in Nat
  <2>1. outcomes[t] \in Seq(Outcomes)
      BY TypeFacts DEF IInv
  <2>2. o1 \in Outcomes /\ o2 \in Outcomes
      BY <1>5, <2>1
  <2> QED BY <2>2 DEF Outcomes
<1>8. ok1 /\ ok2 => o1.conn = o2.conn
  <2>1. SameSession(t)
      BY DEF IInv, CallOK
  <2> QED BY <1>1, <1>5, <2>1 DEF SameSession
<1>9. Errors(t) = 2 <=> a /\ b
    BY <1>5, ErrorsFacts
<1>10. /\ a \/ o1.len = 0 <=> ~ok1
       /\ b \/ o2.len = 0 <=> ~ok2
    BY <1>7 DEF Unusable
<1>11. Identify(t) = IF Errors(t) = 2 THEN blank ELSE i
    BY DEF Identify
<1>12. m = IF ok1 THEN populateInfoFromRaw(blank, o1) ELSE blank
    BY <1>10 DEF FromModule
<1> DEFINE placed == [f \in Fields |-> IF f \in Placed \cap o2.fields
                                       THEN Source(o2) ELSE m[f]]
<1>13. i = IF ok2 THEN populateInfoFromRaw(placed, o2) ELSE m
    BY <1>10 DEF FromComponent
<1>14. Errors(t) = 2 => ~ok1 /\ ~ok2
    BY <1>9, <1>10
<1> HIDE DEF a, b, ok1, ok2, o1, o2, m, i, blank
<1>15. \A f \in Fields : blank[f] = Empty
    BY DEF blank
<1>16. \A f \in Fields : m[f] = IF f \in Searched /\ ok1 /\ f \in o1.fields
                                THEN Source(o1) ELSE Empty
    BY <1>12, <1>15 DEF populateInfoFromRaw
<1>17. (ok1 => Source(o1) # Empty) /\ \A f \in Fields : f \in Searched <=> f \notin Placed
  <2>1. ok1 => Source(o1) # Empty
    <3>1. Source(o1).id = o1.id /\ Empty.id = 0
        BY DEF Source, Empty
    <3> QED BY <1>6, <3>1, IDFacts
  <2>2. \A f \in Fields : f \in Searched <=> f \notin Placed
      BY DEF Fields, Searched, Placed
  <2> QED BY <2>1, <2>2
<1>18. ASSUME NEW f \in Fields
       PROVE  Identify(t)[f] = IF f \in Searched /\ ok1 /\ f \in o1.fields THEN Source(o1)
                               ELSE IF ok2 /\ f \in o2.fields THEN Source(o2) ELSE Empty
  <2>1. placed[f] = IF f \in Placed /\ f \in o2.fields THEN Source(o2) ELSE m[f]
      OBVIOUS
  <2> HIDE DEF placed
  <2>2. ok2 => i[f] = IF f \in Searched /\ f \in o2.fields /\ placed[f] = Empty
                      THEN Source(o2) ELSE placed[f]
      BY <1>13 DEF populateInfoFromRaw
  <2>3. ~ok2 => i[f] = m[f]
      BY <1>13
  <2>4. m[f] = IF f \in Searched /\ ok1 /\ f \in o1.fields THEN Source(o1) ELSE Empty
      BY <1>16
  <2>5. i[f] = IF f \in Searched /\ ok1 /\ f \in o1.fields THEN Source(o1)
               ELSE IF ok2 /\ f \in o2.fields THEN Source(o2) ELSE Empty
      BY <1>17, <2>1, <2>2, <2>3, <2>4
  <2> QED BY <1>11, <1>14, <1>15, <2>5
<1> DEFINE c == IF ok1 THEN o1.conn ELSE o2.conn
<1>19. /\ ok1 => Source(o1) = [id |-> SZLModuleID, conn |-> c]
       /\ ok2 => Source(o2) = [id |-> SZLComponentID, conn |-> c]
    BY <1>6, <1>8 DEF Source
<1>20. c \in {o1.conn, o2.conn}
    OBVIOUS
<1> HIDE DEF c
<1>21. \A f \in Fields :
          Identify(t)[f] = IF f \in Searched /\ ok1 /\ f \in o1.fields
                           THEN [id |-> SZLModuleID, conn |-> c]
                           ELSE IF ok2 /\ f \in o2.fields
                           THEN [id |-> SZLComponentID, conn |-> c]
                           ELSE Empty
    BY <1>18, <1>19
<1> QED BY <1>20, <1>21 DEF ok1, ok2, o1, o2

-----------------------------------------------------------------------------
(* The theorems. *)

\* The inductive invariant of the status list calls holds in every reachable
\* state, for any goroutines, any answers and any changes of the PLC.
THEOREM DirectoryInvariance == Spec => []IInv
BY InitIInv, NextIInv, PTL DEF Spec

\* A listing has the blocks that were there during the whole call and none that
\* was never there, type by type (ListAllBlocks, which gives up reqMu between
\* the types).
THEOREM DirectoryListing == Spec => []ListingIsRegular
BY DirectoryInvariance, ListingInv, PTL

\* GetBlockInfo returns the data of the block it was asked for, if the number
\* fits the byte the index has for it.
THEOREM DirectoryBlockInfo == Spec => []InfoIsOfTheBlock
BY DirectoryInvariance, InfoInv, PTL

\* The CPU state that is reported is one of the time of the call (GetCPUState).
THEOREM DirectoryCurrentState == Spec => []StateIsCurrent
BY DirectoryInvariance, StateInv, PTL

\* Identify describes one device: each field is what the module record, or else
\* the component record, of one session showed, and no field that a usable
\* record showed is lost, unless the call panicked on a module record of 20 or
\* 21 bytes (Identify, which keeps reqMu for both reads, and populateInfoFromRaw).
THEOREM DirectoryIdentify == Spec => []IdentifyIsSound
BY DirectoryInvariance, IdentifyInv, PTL

=============================================================================
