# Verification of the S7comm client

TLA+ models of the Go library in `src/`, which talks S7comm (over COTP/TPKT/TCP)
to Siemens PLCs: a client that several goroutines share, chunked reads and
writes of PLC memory, block upload, the system status list (block directory,
identification, CPU state), the scan for readable ranges, and three concurrent
operations that open connections of their own (rack/slot probing, network
discovery, comparison of reads). TLC checks the models on small instances;
TLAPS proves their safety properties and refinements for every instance.

## 1. Inventory

| Component | State | Operations | Hard behaviour | What makes it correct |
|---|---|---|---|---|
| Client session, `client/client.go`, `client/handshake.go` | `conn`, rack/slot, TSAPs and limits under `mu`; `reqMu` around every call; `pduRef` counter | `Connect` (one or many candidates), `Close`, `sendReceive`, `ConnectionInfo`, `PDUSize` | goroutines share the client; `conn` is used after `mu` is released; reconnect replaces a live session; timeouts leave answers in the stream; references wrap | no use after close, no leaked connection, failed reconnect harmless, no torn snapshot, answers belong to their requests, calls return |
| Transport, `transport/conn.go` | a socket, its deadlines | `SendContext`, `ReceiveContext`, `Close` | a wait ends at the earlier of the context's deadline and the connection's timeout; with neither it lasts until the device answers or the connection breaks, and cancellation does not interrupt it | every wait that has a deadline ends |
| Area I/O, `client/readwrite.go`, `client/result.go`, `wire/pdu_rw.go` | one call: chunks, offset, collected bytes | `ReadArea`, `WriteArea` and typed helpers | a call fails half way; short, long, empty and rejected items; a late answer of an earlier call; PDU sizes at the edge | success means the bytes of the range; writes are prefixes; requests fit the PDU |
| Block upload, `client/blocks.go`, `wire/pdu_blocks.go` | upload session on the device; chunk and attempt counters | `UploadBlock` | retry of what was already served; deferred end-upload with its own timeout | complete block or error; session ended; bounded |
| Block directory, `client/blocks.go`, `wire/pdu_blocks.go` | none | `ListBlocks`, `ListAllBlocks`, `GetBlockInfo` | `ListAllBlocks` gives up `reqMu` between the types, so calls, reconnects and program changes come in between; index arithmetic | a listing has what was there all along and nothing that never was; the right block is asked for |
| SZL, `client/szl.go`, `wire/pdu_szl.go` | none | `Identify`, `GetCPUState`, `GetProtectionLevel`, `ReadDiagBuffer` | one of several reads fails; two exchanges make one answer; late answers have the same shape; slice bounds | partial information with an error; from one session; a state of the time of the call |
| Rack/slot probing, `client/probe.go` | candidates, semaphore, wait group, a context it cancels itself | `ProbeRackSlots`, `probeOne`, `runFollowUp` | goroutines race with the launch loop and with the cancel of the first success; several queries on one connection | bounded connections, every probe reported, stops for a reason, confirmed means answered |
| Discovery, `client/discover.go` | two channels, workers, results by index | `Discover`, `streamCIDR`, `probeS7` | four kinds of goroutines, cancellation anywhere | order, completeness, all goroutines end |
| Read comparison, `client/compare.go` | results by index, semaphore, wait group | `CompareRead` | the loop writes candidates off while goroutines write theirs; tokens on every path; verdict over failures | each result written once and in order; bounded connections; a verdict that is true of the target |
| Range scan, `client/rangescan.go` | observations | `ProbeReadableRanges`, `ConsolidateSpans` | repeats and retries with mixed outcomes; pauses; cancellation and a lost client anywhere; steps smaller or larger than the probe | spans are the maximal runs of the observations; readable means read; complete or an error |
| Validation and options, value codecs, frame inspection | none | pure functions | bounds | total, inverse of each other |

Components interact by calls: scanners and comparison create clients (or bare
transport connections) and call `Connect`, `ReadArea` and `Close` on them;
every request operation takes `reqMu`, then a reference, then calls
`sendReceive`; the device sees one ordered stream per connection. The only
shared state is the `Client` (two mutexes) and what the goroutines of one scan
share (channels, a context, disjoint slice elements).

`PROJECT.json` lists the components, what is hard to test in each ("hazards",
at the line where it bites) and where every definition comes from ("map").

## 2. Modules

    S7Exchange ──────── S7Client ── S7ClientInv ── S7ClientProofs
        │                               │  └─ MCS7Client
        │                            Session (abstract)
        ├── AreaIO ───────── MCAreaIO,      AreaIOProofs
        ├── UploadBlock ──── MCUploadBlock, UploadBlockProofs     (BlockTypes)
        ├── Directory ────── MCDirectory,   DirectoryProofs       (BlockTypes)
        ├── RangeScan ────── MCRangeScan,   RangeScanProofs
        ├── ProbeRackSlots ─ MCProbe,       ProbeRackSlotsProofs  Pool (abstract)
        └── CompareRead ──── MCCompareRead, CompareReadProofs     Pool (abstract)
    Discover ──────────────── MCDiscover,   DiscoverProofs        Pool (abstract)

**S7Exchange** — how one exchange ends. A Go error that wraps several
sentinels is the set of those `errors.Is`/`errors.As` would find.
`ResponseError` is `sendReceive` after the receive, in its order of checks;
`classifyOpError`, `ClassifyReadOutcome`, `isProbeTimeout` and
`isUploadProtocolError` are the classifications built on it.

**S7Client** — a `Client` shared by `Threads`. `pc[t]` is where a goroutine is;
the variables are the client's fields (`conn`, `info` for rack/slot and PDU
size, `pduRef`, `reqMu`, `mu`), the sockets and what is on their wires
(`sock`, `sent`, `inbox`), what each handshake has agreed (`agreed`), and each
call's locals. Each step between two lock operations or network waits is an
action: `connectOnce` is `Dial`/`DialFails`, `COTPConnected`, `SetupDone`/
`HandshakeFails`, `PublishConn`, `PublishLimits`, `CloseOld`; the two publish
actions make a torn read possible if `mu` were not taken. `sendReceive` is
`TakeRef`, `Lookup`/`LookupFails`, `Write`/`WriteFails`, `Receive`/
`ReceiveFails`. The goroutines in `Unbounded` call without any deadline
(`WithTimeout(0)` and a context without one). Operations are sequences of exchanges that stop at the first
failure ("strict") or go on ("tolerant", as `Identify`). `before` and
`accepted` are history variables.

**Session** — what the client promises: calls one at a time; a session opened,
replaced or dropped in one step and never under a request; `ConnectionInfo`
sees a whole session. `S7ClientInv` gives the refinement mapping
(`Implements`) and the inductive invariant.

**AreaIO** — `ReadArea` and `WriteArea` calls in sequence on one session, with
the device's memory; a byte of memory holds the number of the call that wrote
it, so that a read shows whose bytes it returns. Chunk planning, request
lengths with their padding and the 24-bit start address are the code's;
`AddressLimit` is the first byte that address cannot name. The length in the
header of written data is a number of bits modulo `LengthLimit` (2^16;
`DataBytes`), and a device may go by it or by the length in the address
(`Written`). All calls are on one data block. References do not
wrap here (that is S7Client's subject): `MaxRef`, the largest of a `uint16`,
bounds the requests.

**BlockTypes** — the block type codes, and the name by which an upload asks for
a block: a letter for the type and five digits for the number. `Named` is the
block a device understands by such a name.

**UploadBlock** — one `UploadBlock` call with the name of the block it asks
for, its start, chunk loop, retries and deferred end-upload against a device
that has several blocks and keeps one upload session, and one more call after
it on the same connection. `session` says that the call knows the device's
session, `bounded` that the call has a deadline. A block is the sequence of its chunks, and so is
what has been received of it.

**Directory** — `ListAllBlocks`, `GetBlockInfo`, `Identify`, `GetCPUState`,
`GetProtectionLevel` and `ReadDiagBuffer` as calls of several goroutines on one
client. A call is a plan of records to read; each record is an exchange under
`reqMu`, which `Identify` keeps and `ListAllBlocks` gives up in between.
`outcomes[t]` is what the exchanges of a call ended with, and the results
(`Identify`, `GetCPUState`, the blocks of a listing) are operators of it.
`Identify` gives for each field of `DeviceInfo` the record it comes from:
`populateInfoFromRaw` runs on both records and fills what is still empty, so
that for instance the `OrderNumber` is that of the component record when the
module record failed or has none. The PLC changes its blocks and its state, it
ignores requests, and the client is closed and connected again at any time the
lock allows; the history variable `seen` has the states of the PLC during
a call. Calls are exchanges as in S7Client, which proves what is assumed of
`reqMu` here. `Or` is Go's `|` on two bytes, by the weights of their bits;
`MaxRef` bounds the requests as in AreaIO.

**RangeScan** — `ProbeReadableRanges` as a state machine: the loop over the
offsets, and in `probeOneOffset` the repeats and then the retries, with their
pauses, while the context ends or another goroutine closes and connects the
client. A read is `ReadArea` with any of its results. The loops of `ConsolidateSpans` are
steps, too (`BeginSpan`, `ExtendSpan`, `EndSpan`, `Return`), on the code's `i`,
`j`, `spans` and `byStatus`; the two passes over the flags of a run are taken
together with the pass that joins it. Since the function is exported,
`CallConsolidateSpans` also calls it by itself on observations that no scan
makes.

**Pool** — what an operation that owns its goroutines promises of its
connections: never more than the caller allows, none for a task twice, none
left when it has returned.

**CompareRead** — the launch loop with its semaphore and the write-off of the
candidates left when the context is done, the goroutine of each candidate
(dial, handshake, read, deferred release), the wait and the verdict. `target`
is what the PLC returns through each rack/slot, so that the verdict can be
compared with the truth and not only with the results. `ImplementsPool` is the
refinement of Pool.

**ProbeRackSlots** — the launch loop, the goroutine of each rack/slot (dial,
COTP, setup, follow-up queries, store, release) and the context that the first
success cancels. A strict request without `Confirm` keeps the empty strategy,
as the code's comparison with `ConfirmNone` makes it. It implements Pool, too.

**Discover** — counting pass, producer, workers with `probeS7`, closer,
collector. It implements Pool as well, although it has no semaphore: a task is
a host by its index, those running are the hosts that a worker has in
`probeS7`, and those that have ended are the ones taken from the channel that
no worker probes any more.

The device, wherever it appears, is external code: it answers in order, after
any delay, with any of the kinds of answers given by the constants.
Definitions commented "Mutant of" are variants with a plausible mistake; they
are used by no specification, only to see that the properties notice.

## 3. Runs

| Run | Checks | Instance |
|---|---|---|
| Client | use after close, leaks, failed reconnect, snapshots, PDU limit, correlation; the inductive invariant, with the types; refinement of Session | 2 goroutines (symmetric), 2 connections, candidate lists of 1 and 2, PDU sizes 0 and 2, 3 requests with references modulo 3 so that they wrap |
| ClientLiveness | every call returns, unless one without a deadline waits for a silent device | 2 goroutines, one of them without a deadline, 2 connections, 2 requests |
| AreaIO | success returns the range; partial data is a prefix; writes are prefixes (of chunks whose bit length fits) and touch nothing outside the range unless it ends beyond 2 MiB; success leaves the session in step; requests and answers fit | 3 calls over 5 ranges (overlapping, empty, at the last nameable byte, beyond it), PDU 0/26/31/32: the fallback to 200, chunks of a few bytes, and an odd size; bit lengths modulo 64 instead of 2^16, so that chunks on both sides of the limit occur; every kind of answer |
| UploadBlock | completeness and identity of the block, cleanup, the call after it, return | a block with an empty chunk, one without payload, one longer than the chunk limit with number 65535, and an SDB; limits 3 and 3 instead of thousands; references modulo 13 from seven starts; with and without a deadline |
| Probe | reports, stopping, confirmation; refinement of Pool; return | up to 3 rack/slots, parallelism 1 and 2, every strategy, every failure |
| Discover | order, completeness; refinement of Pool; all goroutines end | /32 to /30 with two workers; /29 (six hosts, job queue of two) with one; with and without an attempt limit; /31 also without a deadline |
| CompareRead | every candidate reported, the verdict against the target, results written once; refinement of Pool; return | lists of 0 to 3 candidates, also with one twice, `Parallelism` 0 to 3, targets that agree, differ or refuse, failures and cancellation at every stage |
| RangeScan | spans against the definition of maximal runs, the summary's classes, readable means read, observations against their reads, completeness, return | 10 requests of up to 3 offsets (empty range, defaults, overlaps, gaps, from below 0, repeats, retries, both, with and without pauses and deadlines); 304 calls of `ConsolidateSpans` with adjacent, distant and repeated offsets and all mixes of flags |
| Directory | listings, block infos, CPU state, the source of every field of an identification, in one session | 2 goroutines, 2 calls, 2 faults (timeouts, lost requests, failed sends, refused or short records, Close, Connect), 1 change of the PLC; records of 19, 20 and 34 bytes, block numbers 255 and 256, blocks of the types whose index differs from the order in which they are asked for |

`TypeOK` is a part of the inductive invariant of every proof module and
therefore proved; the run Client checks it, too, within `IInv`.

All bounds are constants. They are enough in this sense: every run reaches the
wrap, the limit, the full queue or the second candidate it is about, and the
mutants show that each property can fail within them. For the invariants,
action properties and refinements that section 4 proves, the theorems take
over where the instance ends: they hold for any number of goroutines, calls,
candidates, hosts and chunks.

`CHECK_DEADLOCK FALSE` is set where a behaviour ends by design: a bounded
number of calls (AreaIO, Directory), one upload, one probe, one discovery, one
comparison, one scan. The client's runs check deadlock.

In AreaIO the history variable `items` records how the items of a call compare
with what was asked: for successes `ReadReturnsMemory` excludes overlong items
and for partial data also short ones, because the code appends whatever an
item holds and compares only the total length; a short item in the middle
shifts the bytes after it (the read is then reported as short).

### Where the code and its documentation disagree

Each of these runs states a sentence of the documentation and ends with a
counterexample (quotations and lines in `PROJECT.json`, "findings").

| Run | What happens |
|---|---|
| UploadLate | the retry of a chunk that timed out meets the late answer and fails fast |
| ProbeStrict | `Strict` without `Confirm` runs no query, so nothing is ever valid |
| RangeRetries | retries that agree with each other hide that they disagree with the first read: the observation keeps its status and is not inconclusive |

Other cases have no run of their own; the properties of the passing runs say
where they begin:

- every 65536th request has reference 0, which switches the comparison off, so
  that a late answer is accepted (`CorrelatedUnlessWrapped`, `NextCallInStep`);
- with an odd PDU size, full write chunks are one padding byte too long and
  refused (`ExchangesFit`);
- a range that ends beyond 2 MiB wraps to the start of the area, in reads and
  in writes (`WritesPrefix`);
- a write chunk of 8192 bytes or more (a PDU of 8220 and more) has a length in
  bits that its 16-bit field cuts, so that a device that goes by the header of
  the data writes less than the answer says (`LengthsFit` in `WritesPrefix`);
  a `DBNumber` beyond 65535 is cut to 16 bits as well, which the one data block
  of AreaIO does not show;
- with timeout 0, which `WithTimeout` and `WithDiscoverTimeout` accept, and a
  context without a deadline, no deadline is set: a silent device holds the
  call and `reqMu`, a worker of `Discover` or a range scan for ever, and
  cancelling the context does not help (second disjuncts of `CallsReturn`,
  `UploadReturns`, `AllEnd` and `ScanReturns`; `Probe` and `CompareRead`
  replace 0 by a default);
- a range scan whose step is larger than its probe size joins probes across the
  bytes between them, which nobody has read, while `rangescan.go:38` speaks of
  a contiguous range (`ReadableWasRead`);
- the upload of an SDB asks for the DB of that number (`UploadComplete`);
- `GetBlockInfo` of a number from 256 on asks for another block
  (`InfoIsOfTheBlock`);
- `Identify` slices `rawModule[2:22]` of a record of at least 20 bytes: one of
  20 or 21 bytes at the end of its buffer makes it panic (`Panics`) instead of
  returning "partial device info with a non-nil error" (`szl.go:53`);
  `IdentifyIsSound` is about the calls that come back;
- a CPU state record without its bytes is "unknown" without an error
  (`StateIsCurrent`);
- `StopOnFirst` makes probes in flight report a healthy target as unreachable
  or tcp-only (`EveryProbeReported` only asks for a report), and a cancelled
  discovery leaves blank results (`Complete`);
- a cancelled range scan drops the observations it has made, except when the
  context ends in the last probe, which then is returned as if it were complete
  (`CompleteUnlessError`);
- after a timeout any call on the session fails until a reconnect, since each
  exchange then reads the answer of the one before (the cause of UploadLate;
  the same holds for an end-upload given up after 500 ms and for a retried
  `ReadArea`);
- a rejected item with transport size 0 is reported as protocol error, because
  it is decoded before its return code is looked at; overlong items make a
  "success" longer than requested (`ReadReturnsMemory`);
- the queries of `ConfirmAny` share one reference, so that a late answer to the
  first can confirm the second (`ConfirmedIsAnswered`).

### Fairness

- S7Client: weak fairness of the steps of each goroutine that are due (`Due`):
  goroutines are scheduled, and `setReadDeadline`/`setWriteDeadline` end a
  network wait if the client's timeout is positive or the context has a
  deadline. A goroutine of `Unbounded` has neither; in a network wait
  (`NetworkPoints`) only an answer that is there makes its next step due. A dial
  ends by itself. Strong fairness of `LockReq`, because `sync.Mutex` hands over
  to a starving waiter. None for the device.
- UploadBlock: the same, with `bounded` for the deadline of the call; the
  end-upload has its own of 500 ms. None for the next call.
- ProbeRackSlots and CompareRead: weak fairness of the loop and of each
  goroutine. Their timeouts are always positive, because 0 is replaced by a
  default.
- Discover and RangeScan: weak fairness of every goroutine, but while one is in
  `Connect` or `ReadArea` only if that has a deadline (`bounded`), since that is
  what `CallsReturn` of S7Client gives; a pause always ends (`Paused`).
- None for the device or for the end of the caller's context.

## 4. Proofs

`S7ClientProofs` proves, from `ClientAssumption` alone (finite bounds are
naturals, the reference has a positive modulus, the placeholder values are
none of the real ones) and for any set of goroutines, any number of
connections, requests and exchanges, any rack/slots and sizes:

| Theorem | States |
|---|---|
| `Invariance` | `Spec => []IInv` |
| `TypeCorrect` | `TypeOK` |
| `NeverUsedAfterClose` | `NoUseAfterClose` |
| `NeverLeaks` | `NoLeakedConns` |
| `FailedConnectIsHarmless` | `FailedConnectKeepsSession` |
| `SnapshotsNotTorn` | `SnapshotConsistent` |
| `RequestsFit` | `FitsNegotiatedPDU` |
| `AnswersCorrelated` | `CorrelatedUnlessWrapped` |
| `ClientImplementsSession` | `Spec => ClientSession!SSpec` |

None of the properties is inductive. `IInv` adds who holds which mutex at
which point (`LocksHeld`), that the connection dialled or replaced by a
`connectOnce` is its own (`FreshOwned`, `OldOwned`), that the connection of a
request under way is the session (`UseIsSession`), that the fields under `mu`
describe the session outside the critical sections (`InfoMatches`), that an
unpublished `Connect` has not touched the session (`ConnectUndone`), and that
everything on a wire belongs to a request already made (`WireHistory`), which
with `RefsApart` (equal truncations of different counters are a whole turn
apart) gives the correlation theorem. There is one lemma per action, with a
step for the conjuncts the action cannot disturb and one for each that it can.
The refinement is proved the same way, action by action.

`CompareReadProofs` proves, from `CompareAssumption` alone (the placeholders
are no real values, the candidate lists are finite sequences of rack/slots, the
failures are not successes) and for candidate lists of any length and number,
any parallelism and any data:

| Theorem | States |
|---|---|
| `CompareInvariance` | `Spec => []IInv` |
| `CompareTypeCorrect` | `TypeOK`, with the capacity of the semaphore |
| `AllCandidatesReported` | `EveryCandidateReported` |
| `VerdictCorrect` | `VerdictIsTrue` |
| `ResultsWrittenOnce` | the action property `WrittenOnce` |
| `CompareImplementsPool` | `Spec => ThePool!Spec` |

Its `IInv` says which goroutines exist (`Launched`: exactly those before the
loop's position), that the tokens in the channel are those of the goroutines
that have not released theirs (`TokensHeld`, an equality of a number and a
cardinality, hence `FiniteSetTheorems`), who has written which result
(`ResultsWritten`: an element is zero until its goroutine or, for one never
launched, the write-off has written it, and a success carries the target's
data), and that nothing runs after the return (`Finished`). The bound of Pool
follows because the goroutines with a connection are among those with a token.

`AreaIOProofs` proves, from `AreaAssumption` (ranges are naturals, PDU sizes
16-bit ones; the answers are of the kinds the model knows) and for any number of
calls, ranges and PDU sizes:

| Theorem | States |
|---|---|
| `AreaInvariance` | `Spec => []IInv` |
| `AreaSuccessInStep` | `SuccessMeansInStep` |
| `AreaExchangesFit` | `ExchangesFit` |
| `AreaWritesPrefix` | `WritesPrefix` |
| `AreaReadReturnsMemory` | `ReadReturnsMemory` |

The chunks left are always the plan for the bytes left (`Planned`), so no
induction over the plan is needed. References grow along the connection, the
answers first and the requests behind them (`InOrder`); an answer that is
accepted has the newest reference and is therefore the only thing in flight,
so that from the second chunk on a call is alone (`Alone`) and no earlier call
can change what it has written (`Writing`: the memory holds the first w bytes
of the call and no others) or read (`Reading`). `Requested` says what a
request in flight still has to do with the call that made it.

`UploadBlockProofs` proves, for any blocks, any limits and any way in which the
device refuses, ignores or delays requests:

| Theorem | States |
|---|---|
| `UploadInvariance` | `Spec => []IInv` |
| `UploadIsComplete` | `UploadComplete` |
| `UploadEndsSession` | `SessionEnded` |
| `UploadNextCallInStep` | `NextCallInStep` |
| `UploadRequestsBounded` | at most `MaxUploadChunks * MaxUploadRetries + 2` requests when the call returns |

It assumes that blocks have known types and numbers and at least one chunk,
that the device has the block that the name of each of them means
(`BlockAssumption`), that a refusal is one of the kinds the model knows
(`DeviceAssumption`), and that the requests of an upload do not wrap the
reference (`BoundAssumption`; with the code's limits, 4096 · 3 + 3 < 2^16).
In the loop the good answers in flight are the chunks after those received,
one each: `HandedOut` says so by a function that counts the chunks handed out
up to each answer, which replaces an induction over the stream. The call
after the upload is in step because what is in flight gets younger along the
connection (`RefsInOrder`; `Age` is the distance of a reference from the
newest, modulo `RefModulus`) and because `Budget` bounds the requests.

`DirectoryProofs` proves, from `DirectoryAssumption` (the types of the
constants) and for any number of goroutines, calls, faults, reconnects and
changes of the PLC:

| Theorem | States |
|---|---|
| `DirectoryInvariance` | `Spec => []IInv` |
| `DirectoryListing` | `ListingIsRegular` |
| `DirectoryBlockInfo` | `InfoIsOfTheBlock` |
| `DirectoryCurrentState` | `StateIsCurrent` |
| `DirectoryIdentify` | `IdentifyIsSound` |

A goroutine that waits holds `reqMu`, so its reference is the newest
(`Waiting`) and nothing on the connection is newer (`OnWire`); a frame with
that reference answers its own request and says what the PLC held in a state
that the call has seen (`Asked`, `Recorded`). `Identify` keeps `reqMu`, so
both its records have one connection (`SameSession`) and each field one place
it can come from (`IdentifyInv`). `DirectoryBlockInfo`
needs that the index of a number below 256 can be decoded, whatever the type;
this is a lemma about `Or`.

`RangeScanProofs` proves, from `RangeAssumption` (requests as
`ProbeReadableRanges` accepts them; a successful read has data) and for any
requests and any results of the reads:

| Theorem | States |
|---|---|
| `RangeInvariance` | `Spec => []IInv` |
| `RangeComplete` | `CompleteUnlessError` |
| `RangeHonest` | `ObservationIsHonest` |
| `RangeSpans` | `SpansAreMaximalRuns` |
| `RangeReadable` | `ReadableWasRead` |

The observations are those of the first offsets (`InOrder`), a probe that
retries has done its repeats (`Probing`), a probe is cut short only when the
context is done, after which the loop makes no other (`CutIsLast`), and
nothing is reported before the return (`Untold`). The loop invariant of
`ConsolidateSpans` is `Joined`: the spans so far are the maximal runs before
probe `i`, with a function that says where each begins (`Parted`), the span in
progress is that of the probes from `i` to `j - 1`, which cannot be extended to
the left (`Current`), and `byStatus` has every span once (`Listed`). A span
that is readable is covered by its probes as it grows (`Covered`), and its
probes agree on being stable because every successful observation of a scan
does (`StableIfRepeated`).

`ProbeRackSlotsProofs` proves, from `ProbeAssumption` (the types of the
requests, failures and answers) and for any rack/slots, parallelism and
strategy:

| Theorem | States |
|---|---|
| `ProbeInvariance` | `Spec => []IInv` |
| `ProbeReportsEvery` | `EveryProbeReported` |
| `ProbeStopsForAReason` | `StopsForAReason` |
| `ProbeConfirmsAnswered` | `ConfirmedIsAnswered` |
| `ProbeImplementsPool` | `Spec => ThePool!Spec` |

`Counted` ties the semaphore and the wait group to the number of goroutines
that are active, `Launched` the goroutines to the loop's position; `Probes` says
what a goroutine has stored, opened and been answered at each stage. The
stages change only what belongs to their goroutine: `ProbeStep` is one lemma
for all of them. `Stopped` says that the context is done because the caller's
is or because a valid candidate is stored, and `LateBound` why at most one
goroutine starts after that.

`DiscoverProofs` proves, from `DiscoverAssumption` (positive numbers of
rack/slots and workers, networks of at most 2^20 addresses as
`maxDiscoveryHostBits` demands) and for any number of hosts and workers:

| Theorem | States |
|---|---|
| `DiscoverInvariance` | `Spec => []IInv` |
| `DiscoverResultsInOrder` | `ResultsInOrder` |
| `DiscoverIsComplete` | `Complete` |
| `DiscoverImplementsPool` | `Spec => ThePool!Spec` |

While the context is live no job gets lost: each one sent is in a channel,
with a worker or in the results (`Conserved`), and what is in a channel or in
the slice belongs to its place and is what there is to be found (`InPlace`,
`Honest`). A worker has not passed the rack/slot that its host accepts
(`WorkerOf`). The channels close in order, the jobs before the workers end and
these before the results (`Closing`). The refinement needs `PoolInv`, an
invariant relative to `IInv`: jobs are numbered in the order in which they are
sent, so that the queue holds those after the ones taken and no two workers
have the same; workers beyond `parallel` never run; and a call that has started
workers returns after `close(out)`. The bound of Pool is one of cardinalities:
the hosts being probed are the image of the workers that probe them.

Every `IInv` was checked by TLC on small instances before it was
proved.

Only model-checked: liveness (`CallsReturn`, `UploadReturns`, `ProbeReturns`,
`AllEnd`, `CompareReturns`, `ScanReturns`), because fairness and ENABLED are out
of reach of the prover, and the three runs that end with a counterexample.
Every invariant, action property and refinement that a run checks is proved.

## 5. Not modelled

- TPKT and COTP framing and the TSAP encoding: libraries and pure functions;
  a frame is what it decodes to.
- Options, validation, loggers, tracers, formatting of messages and the
  summary strings of the scans.
- Pacing (`rateLimit`, `DelayMS`, jitter) beyond the point that a context may
  end there.
- The language, flags and sizes in block records, the bits of
  `GetProtectionLevel`, the 20-byte stride of the diagnostic buffer, and how
  `populateInfoFromRaw` recognises a field in the bytes of a record: pure
  functions of bytes. Directory has the exchanges, checks and errors of these
  calls, and of `Identify` which record a field comes from.
- The order of the sublists of SZL 0x0111 is the PLC's and known only from
  `EncodeBlockListRequest`: `Sublists` is an assumption, and `ListingIsRegular`
  shows that each listing belongs to its type under it.
- The error path of `BuildTSAP` in `probeOne`: it cannot be reached with the
  rack/slots that the request validation passes.
- The texts of error codes and parameter errors, and frame inspection: tables
  and formatting for people.
- Value codecs (big-endian integers, IEEE floats).
- A start-upload that times out may leave a session open on the device; the
  protocol gives the client no ID to end it with, so no property asks for it.

## 6. Plan

Done: the shared client, area I/O, upload, block directory and SZL, probing,
discovery, comparison and range scan, each with its proofs.

Left: TSAP packing and the validation of requests, pure functions that could be
checked against reference definitions.
