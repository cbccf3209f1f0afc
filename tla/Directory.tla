------------------------------ MODULE Directory ------------------------------
(***************************************************************************)
(* The system status list: ListAllBlocks and GetBlockInfo (blocks.go),      *)
(* Identify, GetCPUState, GetProtectionLevel and ReadDiagBuffer (szl.go),   *)
(* with the records of pdu_szl.go and pdu_blocks.go.  Several goroutines    *)
(* share one client; every read of a record is an exchange under reqMu,     *)
(* which Identify keeps for both of its reads and ListAllBlocks gives up    *)
(* after each block type.  Meanwhile the PLC is reprogrammed and switched,  *)
(* requests are lost, time out and are answered late, and the client is     *)
(* closed and connected again.                                             *)
(*                                                                         *)
(* Goroutine t is at at[t]: idle, lock (waiting for reqMu), again (holding  *)
(* it, before the next exchange) or wait (in ReceiveContext).               *)
(***************************************************************************)
EXTENDS Integers, Sequences, FiniteSets, BlockTypes, S7Exchange

CONSTANTS
    Threads,       \* goroutines
    NoThread,
    CallsOf,       \* [op, bt, num] of the calls a goroutine may make; bt and num
                   \* for GetBlockInfo
    Blocks,        \* blocks that come and go: <<type, number>>
    CPUBytes,      \* CPU states of the PLC, as the byte of the record
    FirstPLCs,     \* the states the PLC may be in at first
    Lengths,       \* bytes an identification record may have
    Slacks,        \* bytes the receive buffer may have beyond the record
    FieldSets,     \* which fields of a DeviceInfo such a record may show
    AnswerKinds,   \* how the PLC may answer, besides "ok"; "short" is a record
                   \* that lacks the bytes the call needs
    MaxCalls,      \* bound: calls made
    MaxFaults,     \* bound: timeouts, lost requests, answers that are not ok,
                   \* Close and Connect
    MaxChanges     \* bound: changes of the PLC

\* The calls: a block type is a uint8, and GetBlockInfo refuses a number that is
\* not a uint16.
Calls ==
    [op : {"listAll", "blockInfo", "identify", "cpuState", "protection", "diagBuffer"},
     bt : 0..255, num : BlockNumbers]

\* The fields of model.DeviceInfo: populateInfoFromRaw searches any record for
\* the first four, the others have their place in the component record.
Searched == {"OrderNumber", "FWVersion", "CPUType", "SerialNumber"}
Placed   == {"ModuleName", "PlantID"}
Fields   == Searched \cup Placed

PLCs == [blocks : SUBSET Blocks, cpu : CPUBytes]

ASSUME DirectoryAssumption ==
    /\ NoThread \notin Threads
    /\ CallsOf \in [Threads -> SUBSET Calls]
    /\ Blocks \subseteq (0..255) \X BlockNumbers
    /\ CPUBytes \subseteq 0..255
    /\ FirstPLCs \subseteq PLCs
    /\ Lengths \subseteq Nat
    /\ Slacks \subseteq Nat
    /\ FieldSets \subseteq SUBSET Fields
    /\ AnswerKinds \subseteq {"badBody", "itemErr", "s7err", "short"}
    /\ MaxCalls \in Nat /\ MaxFaults \in Nat /\ MaxChanges \in Nat

\* SZL IDs.
SZLModuleID       == 17      \* 0x0011
SZLComponentID    == 28      \* 0x001C
SZLCPUState       == 1060    \* 0x0424
SZLProtectionInfo == 562     \* 0x0232
SZLDiagBuffer     == 160     \* 0x00A0
SZLBlockList      == 273     \* 0x0111
SZLBlockInfo      == 275     \* 0x0113

\* The order in which ListAllBlocks asks for them.
types == <<BlockTypeOB, BlockTypeDB, BlockTypeSDB, BlockTypeFC, BlockTypeFB,
           BlockTypeSFC, BlockTypeSFB>>

\* The sublists of SZL 0x0111, in the order of their index.  EncodeBlockListRequest
\* is the only source for it, so this order is an assumption about the PLC.
Sublists == <<BlockTypeOB, BlockTypeDB, BlockTypeSDB, BlockTypeFC, BlockTypeSFC,
              BlockTypeFB, BlockTypeSFB>>

\* Mutant of BlockListIndex: the index follows the order of ListAllBlocks.
BlockListIndexInOrder(bt) ==
    IF \E k \in DOMAIN types : types[k] = bt
    THEN CHOOSE k \in DOMAIN types : types[k] = bt
    ELSE 0

\* EncodeBlockListRequest: the index of a type's sublist; 0 asks for all blocks.
BlockListIndex(bt) ==
    CASE bt = BlockTypeOB  -> 1
      [] bt = BlockTypeDB  -> 2
      [] bt = BlockTypeSDB -> 3
      [] bt = BlockTypeFC  -> 4
      [] bt = BlockTypeSFC -> 5
      [] bt = BlockTypeFB  -> 6
      [] bt = BlockTypeSFB -> 7
      [] OTHER             -> 0

\* Mutant of BlockInfoIndex: the type in the low byte.
BlockInfoIndexSwapped(bt, num) == (num % 256) * 256 + bt

\* a | b of two bytes, by the weights of their bits.
Or(a, b) ==
    LET bit(w) == IF (a \div w) % 2 = 1 \/ (b \div w) % 2 = 1 THEN w ELSE 0
    IN bit(1) + bit(2) + bit(4) + bit(8) + bit(16) + bit(32) + bit(64) + bit(128)

\* GetBlockInfo: uint16(bt)<<8 | uint16(num).  The high byte of the number runs
\* into the type.
BlockInfoIndex(bt, num) == Or(bt, num \div 256) * 256 + (num % 256)

Record(id, index) == [id |-> id, index |-> index]

\* The records a call reads, in order.
Plan(call) ==
    CASE call.op = "listAll"    -> [k \in DOMAIN types |->
                                        Record(SZLBlockList, BlockListIndex(types[k]))]
      [] call.op = "blockInfo"  -> <<Record(SZLBlockInfo, BlockInfoIndex(call.bt, call.num))>>
      [] call.op = "identify"   -> <<Record(SZLModuleID, 0), Record(SZLComponentID, 0)>>
      [] call.op = "cpuState"   -> <<Record(SZLCPUState, 0)>>
      [] call.op = "protection" -> <<Record(SZLProtectionInfo, 0)>>
      [] call.op = "diagBuffer" -> <<Record(SZLDiagBuffer, 0)>>

-----------------------------------------------------------------------------
VARIABLES
    plc,      \* the blocks that are there, and the CPU state
    changes,  \* changes of it so far
    reqMu,    \* the goroutine that holds it
    at,       \* where each goroutine is
    call,     \* its last call
    outcomes, \* what the exchanges of that call ended with
    ref,      \* the PDU reference it waits for
    seen,     \* history: states of the PLC during the call
    nextRef,  \* PDU references taken so far
    conn,     \* connections made so far
    open,     \* Client.conn is not nil: the last of them is the session
    queue,    \* requests on the connection, not served yet
    inbox,    \* answers on the connection, not read yet
    calls,    \* calls made so far
    faults    \* faults so far

callVars == <<call, outcomes, seen, calls>>
wireVars == <<nextRef, conn, open, queue, inbox>>
vars == <<plc, changes, reqMu, at, ref, callVars, wireVars, faults>>

NoCall == [op |-> "none", bt |-> 0, num |-> 0]

Init ==
    /\ plc \in FirstPLCs
    /\ changes = 0
    /\ reqMu = NoThread
    /\ at = [t \in Threads |-> "idle"]
    /\ call = [t \in Threads |-> NoCall]
    /\ outcomes = [t \in Threads |-> <<>>]
    /\ ref = [t \in Threads |-> 0]
    /\ seen = [t \in Threads |-> {}]
    /\ nextRef = 0
    /\ conn = 1
    /\ open = TRUE
    /\ queue = <<>>
    /\ inbox = <<>>
    /\ calls = 0
    /\ faults = 0

-----------------------------------------------------------------------------
(* The PLC *)

\* A block is downloaded or deleted, or the CPU changes its state.
Change(new) ==
    /\ changes < MaxChanges
    /\ plc' = new
    /\ plc' # plc
    /\ changes' = changes + 1
    /\ seen' = [t \in Threads |-> IF at[t] = "idle" THEN seen[t] ELSE seen[t] \cup {new}]
    /\ UNCHANGED <<reqMu, at, ref, call, outcomes, calls, wireVars, faults>>

PLCChanges ==
    \/ \E b \in Blocks : \/ Change([plc EXCEPT !.blocks = @ \cup {b}])
                         \/ Change([plc EXCEPT !.blocks = @ \ {b}])
    \/ \E byte \in CPUBytes : Change([plc EXCEPT !.cpu = byte])

OfType(blocks, bt) == {b \in blocks : b[1] = bt}

\* What a record says of a state of the PLC: the blocks of a sublist, the block
\* an index names by its two bytes, the byte of the CPU state.
Contents(s, r) ==
    CASE r.id = SZLBlockList -> IF r.index = 0 THEN s.blocks
                                ELSE OfType(s.blocks, Sublists[r.index])
      [] r.id = SZLBlockInfo -> {<<r.index \div 256, r.index % 256>>}
      [] r.id = SZLCPUState  -> {<<s.cpu, 0>>}
      [] OTHER               -> {}

Identifications == {SZLModuleID, SZLComponentID}

\* The PLC serves the oldest request.
Serve(kind, len, slack, fields) ==
    /\ queue # <<>>
    /\ kind # "ok" => faults < MaxFaults
    /\ len # 0 => Head(queue).id \in Identifications
    /\ slack # 0 => len \in 20..21      \* where Panics looks at it
    /\ fields # {} => len >= 20
    /\ kind = "short" => Head(queue).id \notin Identifications
    /\ inbox' = Append(inbox,
           [ref |-> Head(queue).ref, kind |-> kind, id |-> Head(queue).id,
            contents |-> IF kind = "short" THEN {} ELSE Contents(plc, Head(queue)),
            len |-> len, slack |-> slack, fields |-> fields, conn |-> conn])
    /\ queue' = Tail(queue)
    /\ faults' = IF kind = "ok" THEN faults ELSE faults + 1
    /\ UNCHANGED <<plc, changes, reqMu, at, ref, callVars, nextRef, conn, open>>

\* It never answers the oldest request.
Ignore ==
    /\ queue # <<>>
    /\ faults < MaxFaults
    /\ faults' = faults + 1
    /\ queue' = Tail(queue)
    /\ UNCHANGED <<plc, changes, reqMu, at, ref, callVars, nextRef, conn, open, inbox>>

-----------------------------------------------------------------------------
(* The client *)

StartCall(t, c) ==
    /\ at[t] = "idle"
    /\ calls < MaxCalls
    /\ calls' = calls + 1
    /\ call' = [call EXCEPT ![t] = c]
    /\ outcomes' = [outcomes EXCEPT ![t] = <<>>]
    /\ seen' = [seen EXCEPT ![t] = {plc}]
    /\ at' = [at EXCEPT ![t] = "lock"]
    /\ UNCHANGED <<plc, changes, reqMu, ref, wireVars, faults>>

\* Bound: the references of a run do not wrap (S7Client has those that do).
MaxRef == 65535

\* Mutant of KeepsLock: Identify, too, locks reqMu for each of its reads.
KeepsLockNever(t) == FALSE

\* Identify defers its unlock to the end; ListAllBlocks locks in ListBlocks.
KeepsLock(t) == call[t].op = "identify"

\* An identification record whose fields end beyond the buffer: Identify takes
\* rawModule[2:22] of a record of at least 20 bytes, which panics if the
\* buffer has no 22.
Panics(o) ==
    o.err = {} /\ o.id = SZLModuleID /\ o.len >= 20 /\ o.len + o.slack < 22

\* An exchange has ended: the call goes on with its next record (Identify and
\* ListAllBlocks also after an error), or returns.
Ended(t, o) ==
    LET more  == Len(outcomes[t]) + 1 < Len(Plan(call[t])) /\ ~Panics(o)
        keeps == more /\ KeepsLock(t)
    IN /\ outcomes' = [outcomes EXCEPT ![t] = Append(@, o)]
       /\ at' = [at EXCEPT ![t] = IF keeps THEN "again" ELSE IF more THEN "lock" ELSE "idle"]
       /\ reqMu' = IF keeps THEN t ELSE NoThread
       /\ ref' = [ref EXCEPT ![t] = 0]
       /\ UNCHANGED <<plc, changes, call, seen, calls, conn, open>>

\* What is left of an answer, and an exchange that had none.
Outcome(err, frame) ==
    [err |-> err, id |-> frame.id, contents |-> frame.contents, len |-> frame.len,
     slack |-> frame.slack, fields |-> frame.fields, conn |-> frame.conn]

Failure(err) ==
    [err |-> err, id |-> 0, contents |-> {}, len |-> 0, slack |-> 0, fields |-> {}, conn |-> 0]

\* The next exchange: reqMu is locked unless it is held, and a reference taken.
TakeRef(t) ==
    /\ \/ at[t] = "lock" /\ reqMu = NoThread
       \/ at[t] = "again" /\ reqMu = t
    /\ nextRef < MaxRef
    /\ nextRef' = nextRef + 1

\* The request is sent.
Request(t) ==
    /\ TakeRef(t)
    /\ open
    /\ reqMu' = t
    /\ ref' = [ref EXCEPT ![t] = nextRef + 1]
    /\ LET r == Plan(call[t])[Len(outcomes[t]) + 1]
       IN queue' = Append(queue, [ref |-> nextRef + 1, id |-> r.id, index |-> r.index])
    /\ at' = [at EXCEPT ![t] = "wait"]
    /\ UNCHANGED <<plc, changes, callVars, conn, open, inbox, faults>>

\* There is no session, or SendContext fails.
RequestFails(t) ==
    /\ TakeRef(t)
    /\ \/ ~open /\ Ended(t, Failure(ErrNotConnected)) /\ UNCHANGED faults
       \/ /\ open
          /\ faults < MaxFaults
          /\ faults' = faults + 1
          /\ Ended(t, Failure({"io"}))
    /\ UNCHANGED <<queue, inbox>>

\* ParseSZLResponse: an S7Error for a return code that is not success and for
\* lengths that do not add up.  The SZL ID of the answer is not compared.
ParseSZLResponse(frame) == IF frame.kind \in {"itemErr", "badBody"} THEN {"s7"} ELSE {}

\* ParseBlockListResponse and ParseBlockInfoResponse; the other calls take what
\* there is.
ParseBlocks(t, frame) ==
    IF frame.kind = "short" /\ call[t].op \in {"listAll", "blockInfo"} THEN {"parse"} ELSE {}

Receive(t) ==
    /\ at[t] = "wait"
    /\ inbox # <<>>
    /\ inbox' = Tail(inbox)
    /\ LET frame == Head(inbox)
           sent  == ResponseError(frame, ref[t])
           err   == IF sent # {} THEN sent
                    ELSE ParseSZLResponse(frame) \cup ParseBlocks(t, frame)
       IN Ended(t, IF err # {} THEN Failure(err) ELSE Outcome({}, frame))
    /\ UNCHANGED <<nextRef, queue, faults>>

\* ReceiveContext gives up; the answer may still come.
ReceiveTimesOut(t) ==
    /\ at[t] = "wait"
    /\ faults < MaxFaults
    /\ faults' = faults + 1
    /\ Ended(t, Failure({"deadline"}))
    /\ UNCHANGED <<nextRef, queue, inbox>>

\* Another goroutine calls Close, or Connect, which replaces the session if there
\* is one.  Both need reqMu.
NewSession(isOpen, n) ==
    /\ reqMu = NoThread
    /\ faults < MaxFaults
    /\ faults' = faults + 1
    /\ open' = isOpen
    /\ conn' = n
    /\ queue' = <<>>
    /\ inbox' = <<>>
    /\ UNCHANGED <<plc, changes, reqMu, at, ref, callVars, nextRef>>

Close == open /\ NewSession(FALSE, conn)

Connect == NewSession(TRUE, conn + 1)

Next ==
    \/ PLCChanges
    \/ \E kind \in AnswerKinds \cup {"ok"}, len \in Lengths \cup {0}, slack \in Slacks \cup {0},
          fields \in FieldSets \cup {{}} : Serve(kind, len, slack, fields)
    \/ Ignore
    \/ \E t \in Threads :
          \/ \E c \in CallsOf[t] : StartCall(t, c)
          \/ Request(t) \/ RequestFails(t) \/ Receive(t) \/ ReceiveTimesOut(t)
    \/ Close \/ Connect

Spec == Init /\ [][Next]_vars

-----------------------------------------------------------------------------
(* What the calls return, from what their exchanges ended with. *)

\* The one record of a call that reads one.
Only(t) == outcomes[t][1]

\* A byte of the CPU state.
CPUState(byte) ==
    CASE byte = 8 -> "run" [] byte = 4 -> "stop" [] byte = 1 -> "startup" [] OTHER -> "unknown"

\* GetCPUState: byte 2 of the record, if it has one.
GetCPUState(t) ==
    IF Only(t).contents = {} THEN "unknown"
    ELSE CPUState((CHOOSE b \in Only(t).contents : TRUE)[1])

\* A record of an identification that counts as an error: one that was not
\* read, or is too short without being empty.
Unusable(o, min) == o.err # {} \/ o.len \in 1..(min - 1)

Errors(t) ==
    LET o == outcomes[t]
    IN Cardinality({k \in DOMAIN o : Unusable(o[k], IF k = 1 THEN 20 ELSE 34)})

\* Where the value of a field comes from.
Source(o) == [id |-> o.id, conn |-> o.conn]
Empty     == [id |-> 0, conn |-> 0]

\* populateInfoFromRaw: only fields that are empty are searched for.
populateInfoFromRaw(info, o) ==
    [f \in Fields |-> IF f \in Searched \cap o.fields /\ info[f] = Empty
                      THEN Source(o) ELSE info[f]]

\* Identify on the module record.  The OrderNumber is taken from its place
\* first; o.fields has it if that is not blank or the search finds one.
FromModule(info, o) ==
    IF Unusable(o, 20) \/ o.len = 0 THEN info ELSE populateInfoFromRaw(info, o)

\* Identify on the component record.
FromComponent(info, o) ==
    IF Unusable(o, 34) \/ o.len = 0 THEN info
    ELSE populateInfoFromRaw([f \in Fields |-> IF f \in Placed \cap o.fields
                                               THEN Source(o) ELSE info[f]], o)

\* Identify: a DeviceInfo, nil (without any field) if both records are unusable.
Identify(t) ==
    LET blank == [f \in Fields |-> Empty]
    IN IF Errors(t) = 2 THEN blank
       ELSE FromComponent(FromModule(blank, outcomes[t][1]), outcomes[t][2])

-----------------------------------------------------------------------------
(* Properties *)

Returned(t, op) == at[t] = "idle" /\ call[t].op = op

Panicked(t) == \E k \in DOMAIN outcomes[t] : Panics(outcomes[t][k])

Records == [id : Nat, index : Nat]

Requests == [ref : 1..MaxRef, id : Nat, index : Nat]

Frames ==
    [ref : 1..MaxRef, kind : AnswerKinds \cup {"ok"}, id : Nat,
     contents : SUBSET (Nat \X Nat), len : Nat, slack : Nat, fields : SUBSET Fields,
     conn : Nat]

Outcomes ==
    [err : SUBSET (Sentinels \cup {"parse"}), id : Nat,
     contents : SUBSET (Nat \X Nat), len : Nat, slack : Nat, fields : SUBSET Fields,
     conn : Nat]

\* Every variable has its type, and whoever exchanges holds reqMu.
TypeOK ==
    /\ plc \in PLCs
    /\ changes \in 0..MaxChanges
    /\ reqMu \in Threads \cup {NoThread}
    /\ at \in [Threads -> {"idle", "lock", "again", "wait"}]
    /\ \A t \in Threads : at[t] \in {"again", "wait"} <=> reqMu = t
    /\ call \in [Threads -> Calls \cup {NoCall}]
    /\ outcomes \in [Threads -> Seq(Outcomes)]
    /\ ref \in [Threads -> 0..MaxRef]
    /\ seen \in [Threads -> SUBSET PLCs]
    /\ nextRef \in 0..MaxRef
    /\ conn \in Nat
    /\ open \in BOOLEAN
    /\ queue \in Seq(Requests)
    /\ inbox \in Seq(Frames)
    /\ calls \in 0..MaxCalls
    /\ faults \in 0..MaxFaults

\* A listing is as good as one that took no time: for every type that is not
\* reported as failed, ListAllBlocks returns all blocks that were there during
\* the whole call, and none that was never there, although other calls,
\* reconnects and late answers come between the types.
ListingIsRegular ==
    \A t \in Threads : Returned(t, "listAll") =>
        /\ Len(outcomes[t]) = Len(types)
        /\ \A k \in DOMAIN types :
              LET o == outcomes[t][k] IN
              o.err = {} =>
                  /\ {b \in Blocks : b[1] = types[k] /\ \A s \in seen[t] : b \in s.blocks}
                         \subseteq o.contents
                  /\ o.contents \subseteq
                         {b \in Blocks : b[1] = types[k] /\ \E s \in seen[t] : b \in s.blocks}

\* GetBlockInfo returns the data of the block it was asked for, if the block's
\* number fits the byte that its SZL index has room for.
InfoIsOfTheBlock ==
    \A t \in Threads :
        Returned(t, "blockInfo") /\ Only(t).err = {} /\ call[t].num < 256 =>
            Only(t).contents = {<<call[t].bt, call[t].num>>}

\* The state GetCPUState reports is one the CPU was in during the call, not one
\* that a late answer to an earlier call tells of.
StateIsCurrent ==
    \A t \in Threads :
        Returned(t, "cpuState") /\ Only(t).err = {} =>
            /\ Only(t).id = SZLCPUState
            /\ \/ GetCPUState(t) = "unknown"
               \/ \E s \in seen[t] : GetCPUState(t) = CPUState(s.cpu)

\* Identify describes one device: there is one session such that every field
\* is what the module record of that session showed, or else what its component
\* record showed, or empty if neither did.  No late answer to another query is
\* taken for a record, nobody reconnects between the two, and no field of a
\* record that was read is lost when the other fails, is short or lacks it.  This
\* is about the calls that come back: one that panics returns nothing.
IdentifyIsSound ==
    \A t \in Threads : Returned(t, "identify") /\ ~Panicked(t) =>
        LET o == outcomes[t]
            shows(k, min, f) == o[k].err = {} /\ o[k].len >= min /\ f \in o[k].fields
        IN \E c \in {o[1].conn, o[2].conn} : \A f \in Fields :
              Identify(t)[f] =
                  IF f \in Searched /\ shows(1, 20, f) THEN [id |-> SZLModuleID, conn |-> c]
                  ELSE IF shows(2, 34, f) THEN [id |-> SZLComponentID, conn |-> c]
                  ELSE Empty
=============================================================================
