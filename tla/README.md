# TLA+ verification of the uCentral client

The daemon connects a cloud controller (JSON-RPC over a WebSocket) with the
agents of a device (NATS). It serializes state-changing commands,
answers every request, survives crashes in the middle of a firmware upgrade and
schedules outbound messages by priority. The modules here model the parts in
which concurrency, failures or restarts make that hard. They are translated
from the code; where a document says something else, the code decides what the
model does and a run shows the difference.

## The system

| part | code | state | interacts with |
|---|---|---|---|
| request manager | `pkg/reqmgr/manager.go`, `transaction.go`, `cache.go` | live transactions, deduplication index, response cache, buffered replies, the state lock and its owner | called by every other goroutine; calls the store and the scheduler |
| operation store | `pkg/reqmgr/disk_store.go` | one file per background operation | saved by the hand-over, listed by start and sweeper |
| recovery, sweeper | `manager.go` `Start`, `sweepOrphanedOperations` | the sweeper's list and clock | store, state lock |
| frame handler, dispatcher | `cmd/ucentral-client/handler.go` | dispatch buffer, link state | manager, NATS client, scheduler |
| result path, start-up | `cmd/ucentral-client/main.go` | result queue, NATS retry loop | manager, NATS client |
| NATS client | `pkg/nats/client.go` | the connection | agents (external) |
| scheduler | `pkg/queues/scheduler.go` | four bounded queues, burst counter, yield position | filled by manager and handler, emptied by the WebSocket client |
| WebSocket client | `pkg/websocket/client.go` | session, its reader, writer and pump goroutines, a retained message | scheduler, handler, cloud (external) |
| queue types | `pkg/queues/buffer.go`, `coalescer.go`, `hysteresis.go`, `results.go` | ring buffer, latest snapshot, thresholds | not used by the daemon yet |
| contracts | `pkg/contracts` | the published payload limits | checks for handler and NATS client |
| configuration, capabilities | `pkg/config`, `pkg/nats/capabilities.go` | none after start | file reads |

What makes it hard: `RespondAndRetain` and `ReleaseOperationLock` let go of the
manager's mutex for disk I/O; results overtake `MarkInFlight`; a timer that is
stopped may already have fired; the sweeper acts on what it saw before; a crash
may fall between any two of these steps; device results come twice or never;
queues are full; and the pump of a broken WebSocket session may still be
running in the next one. Besides, a command is validated twice, by different code, and a
result is read twice, once to act and once to report. `PROJECT.json` lists these hazards line by line.

## Modules

    OperationStore <- RequestManager <- OperationRecovery
                                     <- Gateway
    PriorityScheduler <- WSClient
    CloudContracts <- FrameAdmission
    TelemetryRing, StateCoalescer, Backpressure

    RequestManager implements DeviceReservation
    Gateway        implements RequestManager
    TelemetryRing  implements DropOldestQueue

(`A <- B`: B extends A.) `MC*` modules hold the constants of the runs, `*Proofs`
modules the theorems.

**OperationStore** is the directory of records. `SaveRename` is the moment a
record becomes visible, `Delete` removes one, `GetActive` is the set of answers
the listing may give: all records, or, when a read fault is assumed, any subset;
cut to the newest `activeRecordLimit` with ties in any order. `Faults` says
which of save, delete, read and reading the boot identifier may fail.

**RequestManager** has an action for every method. A method that runs under
`m.mu` is one action. `RespondAndRetain` is `RespondAndRetain` (first critical
section), `RetainStamp` (time stamp and boot identifier), `RetainSave`, then
`RetainFailed` or `RetainCommitted`, and, when a buffered event must release the
operation again, `RetainRelease`, `ReleaseDelete` and `RetainFinish`. The
deletion in `ReleaseOperationLock` and its second critical section are one
action: only that method reads `releasingOperationID`, and a second call for the
same operation fails before as after. Calls that return an error and change nothing are
guards. `timeoutCall` is a timer callback that has started and waits for the
mutex. Payloads are left out; `pushes` counts the responses handed to the
scheduler. Cache entries expire at any time.

**DeviceReservation** is what the manager promises about the device: it is free,
reserved by one running request, or reserved by one background operation, which
gets it from the request that offered it, in one step and once in its life. The
mapping reads `holder` off `activeStateTx`; a request's `offer` is the operation
its `RespondAndRetain` is saving.

**OperationRecovery** adds `Start`, the sweeper (list, inspect under the mutex,
act without it), process crashes, host reboots and the clock. A process crash
keeps every rename; a reboot may undo the rename of a save that has not
returned, and takes at least one tick of the clock. `protected` remembers the operation the device is known to run.

**Gateway** restricts the manager's callers to those the daemon has: `HandleFrame`,
one `executeTransaction` per admitted request, the result worker and the
subscriber callback that applies results itself when the queue is full. The
frame checks are a verdict (`silent`, `malformed`, `refused`, `valid`), because
only who answers matters. A failed publish may have reached the broker. The
device publishes up to `MaxResults` results per command, or none. The link state
never leaves `connected`, as in the code, which registers no disconnect handler.

**PriorityScheduler** has the four queues, the burst counter and the round-robin
position of forced yields. `bypassed` and `passedOver` are history variables.

**WSClient** has the reconnect loop, the reader, the writer, and one pump per
session, connected by the two unbuffered channels. A session is its
generation. Messages come from the scheduler. A write that fails may still have
been delivered.

**CloudContracts** has the tables and validators: the command a method stands
for, the command/action matrix, configuration plain and compressed, one operator
per request type, result envelopes, and the status a result is reported with.
Documents are records of the facts that are checked; URL syntax and ranges of a
method's own fields are one flag.

**FrameAdmission** takes one frame through the daemon: start-up computes the
limits and publishes them, `HandleFrame` makes its eight checks in their order
(`Checks`) and sends what the first failing one sends, `Dispatch` makes the NATS
client's checks on the command that was built, `ReceiveResult` filters the
device's result, acts on it and reports it. The request manager appears by what
its calls return: an accepted upgrade is retained, or it ends with an error, and
then its record may be left all the same (a save that failed after the rename, a
deletion that failed after a late timeout; `OrphanReconciled` is about those). Requests do not interact here; where they do is the subject of
`RequestManager` and `Gateway`.

**TelemetryRing** is the ring buffer with its wrapping indices, **DropOldestQueue**
the queue it stands for: a sequence that loses its head when it is full.
**StateCoalescer** lets any number of flushers peek and commit in any order while
reports come in (`stateGeneration` is the code's `generation`); `reports` and
`committed` are history. **Backpressure** is the
result queue with the monitor that samples it; the sample and the decision are
two steps, because the queue has a mutex of its own. `flippedAt` is history.

## Runs

All bounds are small, and each is chosen so that the case in question occurs.

| run | checks | instance |
|---|---|---|
| `Manager` | lock, exclusion, deduplication, buffered events, deadlines, one response | 3 requests on two keys or without one, so that they collide in the index or only on the lock; 2 operations, at most 2 live, failing saves |
| `Recovery` | lock restored after every restart although the record list is cut, never for an earlier boot | 2 upgrades, 2 operations, TTL 1, clock to 1, 2 crashes or reboots, record list cut to 1, failing saves and deletes |
| `RecoveryLiveness` | the record of the active operation is never deleted; expired operations release the lock, orphans disappear; lock restored after every restart | 1 upgrade, 2 operations, TTL 0, clock to 1, 2 crashes or reboots, failing saves and boot identifier |
| `Gateway` | dispatcher in step, one answer per frame, no result lost, no transaction forgotten | 2 frames (upgrade, query, notification), buffers of 1, 2 results per command |
| `GatewayLiveness` | every admitted request is answered; the daemon implements `DeviceReservation` | as above with 1 result per command |
| `Queues` | scheduler: burst limit and rotation; ring: a queue that drops its oldest; coalescer: newest report kept, commits in order; monitor: no flapping | the code's burst limit 10, lower queues of 2, at most 13 priority-0 messages in a row; ring of 3, 3 payloads; 3 flushers, 5 reports; queue of 5 with thresholds 80 and 50 |
| `WSSessions` | responses stay on their session, a successful write is final | 3 breaking sessions, pumps may outlive them, 5 messages |
| `WSRetention` | lower priorities survive broken sessions and are delivered | 2 breaking sessions and a stable one, 4 messages, an old pump has exited before the next session |
| `Admission` | limits nested and published last, validators agree, one answer, inert notifications, well-formed responses, truthful reports | every frame of size up to 3 with 12 methods and 4 kinds of id, limits 1 or 2 in every combination, compressed content up to 3, every kind of result envelope |

Two live requests suffice for the lock and the deduplication index, which
relate pairs of requests, and a third lets one follow the other. In `Manager` a
request with a key asks for a response, as with the only caller (`handler.go:329`:
`respond` is false for notifications only), and is a query or an upgrade; an
upgrade that is not handed over behaves like any other state-changing command.
No property of this run reads the records, so deletes fail in `Recovery` only. The two
recovery runs divide the work, because all of it at once is too many states.
In `Recovery` no record expires (TTL 1, clock to 1), so the records of an earlier
boot are still young and compete with new ones. In `RecoveryLiveness` (TTL 0)
the sweeper takes its expiry branch too. `ActiveOperationDurable` and
`NoHolderFromEarlierBoot` are proved for every TTL and combination of faults,
`UpgradeProtectedAcrossRestart` under the assumptions named below. The code cuts the
record list to 1000 (`main.go:548`); 1 makes the cut happen with two records.
Three sessions let a message be retained, retained again and delivered. A ring
of three wraps at every offset. With sizes up to 3 and limits of 1 and 2 a frame,
or what it inflates to, is below, at and above each of the limits. The queue
types share no state, so `MCQueues` explores one of them per behaviour.

Deadlock is checked in `Queues` and `Admission`: the other instances end when
their identifiers, sessions or clock ticks are used up.

### Runs that show a disagreement

Each checks one statement of a document or a comment and finds it violated.

| run | statement | what happens |
|---|---|---|
| `LateTimeout` | the response timeout is cancelled by the hand-over (`TDD.md:251`, `manager.go:430`) | a timer that has fired before `Stop`, or that `MarkInFlight` arms during the save, ends the accepted upgrade as timed out; `manager_test.go:389` ("Timeout during Save Success") accepts it |
| `RecordBeforeDispatch` | the record is stored before the upgrade is dispatched (`REQUIREMENTS.md:50`) | it is stored when the device has accepted |
| `AdmitWithoutNATS` | requests are rejected while NATS is down (`handler.go:315`) | after a failed subscription the link still counts as connected |

Five more disagreements with the documents came up in modelling. The first is
bounded by a theorem; each of the others is a single statement of the code, so no
run is spent on it:

- No state-changing command is to be admitted while another one is active
  (`REQUIREMENTS.md:41`, `HIGH_LEVEL_DESIGN.md:210`). An event buffered during
  the save undoes the hand-over: the lock is freed first (`manager.go:508`), the
  upgrade is ended in a later critical section, and a command with another id is
  admitted in between. `OverlapOnlyWhileUndone` says that this is the only case.
- An oversized frame with a valid id is to be answered with -32602
  (`TDD.md:278`). That holds between the method's limit and the absolute one;
  above the absolute limit the frame is dropped silently (`handler.go:205`).
- A malformed id is to be answered with `id: null` (`REQUIREMENTS.md:118`). The
  answer to a frame over its method's limit returns the id before it is
  validated (`handler.go:229`). `ResponsesWellFormed` excepts these frames.
- A full emergency queue is to be treated as a failure of the path
  (`REQUIREMENTS.md:63`, `SPEC.md:1110`). The response is dropped and logged
  (`manager.go:694`, `handler.go:198`).
- A result is applied to the transaction its `rpc_id` names; that its command is
  the transaction's is not checked (`main.go:249`). The properties of
  `Admission` hold nevertheless: they do not need the two to agree.

### Assumptions that the passing runs need

The first three are constants, the fourth a conjunct of `Reboot`, and the last
is a hypothesis of the theorem that no run needs at its size. TLC finds the
property violated without them.

| assumption | property | what happens otherwise |
|---|---|---|
| no `"read"` in `Faults` (`Recovery`, `RecoveryLiveness`) | `UpgradeProtectedAcrossRestart` | `Start` logs an unreadable record or directory (`manager.go:755`, `disk_store.go:158`) and the lock stays free, although it is to be re-acquired "to protect the device until it finishes" (`manager.go:738`) |
| `ClockMayJump = FALSE` (`RecoveryLiveness`) | `ActiveOperationDurable` | if the clock steps past the TTL during one save, the expiry branch of the sweeper (`manager.go:812`), which precedes the hand-over check, deletes the record that the hand-over is about to rely on |
| `PumpsOutlive = FALSE` (`WSRetention`) | `LowerPriorityRetained` | `g.Wait` does not wait for the pump (`client.go:307`); one that stays between two statements until the next session has failed finds the retention slot taken and drops its message (`client.go:610`) |
| a reboot takes at least a second (`now' = now + 1` in `Reboot`) | `UpgradeProtectedAcrossRestart` in `Recovery` | record times are in seconds and the sort by them is unstable (`disk_store.go:206`): a record of the earlier boot may displace one saved in the same second when the list is cut. A host does not reboot within a second, and it takes 1000 leftover records to reach the code's limit |
| the record of the protected upgrade names its boot (`BootKnown` in `RecoveryProofs`) | `UpgradeProtectedAcrossRestart` with the fault `"bootid"` | see below |

An unreadable boot identifier (`manager.go:69`) is harmless in
`RecoveryLiveness`, where one upgrade runs. With failing deletes too, two
upgrades and four crashes, it is not. Let two records of the same second be left,
one that names an earlier boot and one, that of the protected upgrade, that
names none. A start that cannot read the identifier may take the lock for the
first, and its sweeper removes the second as an orphan. The next start reads the
identifier, discards the first record as stale (`manager.go:719`) and leaves the
lock free. Reading `/proc/sys/kernel/random/boot_id` hardly ever fails, so this
is stated as an assumption and not as a finding.

## Fairness

- `RecoveryLiveness`: the sweeper's ticker fires and its loop goes on, `Start`
  returns, calls in progress go on, the clock advances. Nothing is assumed of
  callers. Deletes succeed in this instance; saves may fail.
- `GatewayLiveness`: dispatchers, the worker, the callback, timers and calls in
  progress go on: they are goroutines that wait for nothing but each other and
  bounded I/O. Nothing is assumed of device or broker.
- `WSRetention`: the client's goroutines go on; a dial that is tried again and
  again succeeds in the end (strong fairness: the cloud is reachable); the last
  session stays up. A client that stopped because its certificates cannot be
  loaded owes nothing.

## Proofs

For all values of the constants that satisfy the named assumptions:

- `RequestManagerProofs`: `TypeOK`, `StateLockConsistent`, `StateChangeExclusion`,
  `BufferedReplyHasConsumer`. With the third comes `OverlapOnlyWhileUndone`: two
  state-changing requests are live together only while a hand-over is being undone. The methods with a single critical section have
  their lemmas in `TransactionProofs`, the hand-over its own here. None is inductive alone. `ManagerInv` adds
  `HandoffInv` (the program counter of a hand-over against
  `handoffInProgress`, the lock owner and the operation it has issued),
  `HolderInv` (a request that holds the lock is state-changing) and `TimerInv`
  (in which states a timer or a timeout is possible). Without `HandoffInv` a
  failed save could give the lock back to a request that no longer has it.
- `ResponseProofs`: `DeduplicationConsistent`, `ExactlyOneResponse` and
  `FirstEventWins`, the first two as `IndexInv`, which is inductive on top of
  `ManagerInv`. Its last lemmas say that a call for one transaction leaves the
  others alone (`OthersUndisturbed`), and that one which has ended or has an
  event buffered stays so (`SettledStays`). Besides, `InFlightHasDeadline`: a
  transaction in flight has a timer, a `Timeout` callback that has started, or a
  hand-over in progress, also after a failed save has put it back in flight. And
  `TransitionsLegal`: no call changes a state in a way that `validateTransition`
  does not list, also where two of its transitions fall into one critical
  section (`recoverToInFlight` and the buffered event after it).
- `GatewayProofs`: every behaviour of `Gateway` is one of `RequestManager`
  (`GatewayImplementsManager`; the refinement mapping is the identity on the
  manager's variables and a step of the daemon's own is a stutter), so the daemon
  inherits what is proved of the manager (`DaemonInheritsSafety`). Also, from
  `GatewayInv`:
  `DispatcherInStep`, from `DispatchInv`: what the comment on `DispatchItem` in
  `transaction.go` asks the consumer to verify holds without a check.
  `AnsweredAtMostOnce`, from `FrameInv` (the handler answers only what it
  rejects, and what it rejects has no transaction) and the manager's
  `ExactlyOneResponse`.
  `ReceivedResultNotLost`, for any number of results and any queue size. It
  speaks of transactions in flight only, while a result may come before
  `MarkInFlight` and a failed hand-over puts its transaction back in flight.
  `ReceivedInv` therefore says of every transaction with a result that the
  result is queued or being applied, or that the transaction has ended or has its
  event buffered; and that a hand-over in progress has a goroutine waiting for it.
  `TransactionInHand`, from `OwedInv`: each live transaction has somebody who
  will end it, namely its dispatcher, its timer or timeout, or the goroutine that
  called `RespondAndRetain` for just this operation. It is the safety half of
  `EveryRequestAnswered`. `OwedInv` says of the states before `TxInFlight`,
  in which no timer runs, that the dispatcher has not finished or a hand-over with
  a buffered event will end the transaction.
  `GatewayTypeOK`, with `BoundsInv`.
- `ReservationProofs`: the manager implements `DeviceReservation`. `ManagerInv`
  is what the steps need: that a request saving an operation is the holder, and
  that the operation is its own. One lemma per method maps its step to a step of
  the reservation or to a stutter. `GatewayProofs` carries the result over to the
  daemon (`DaemonImplementsReservation`).
- `RecoveryProofs`: `ActiveOperationDurable` (if the clock does not jump,
  `~ClockMayJump`), `NoHolderFromEarlierBoot` and, across restarts,
  `RecoveryTypeOK` and `StateLockConsistent`, for any number of crashes and
  reboots and any faults of the store. `RecoveryInv` adds to `ManagerInv` that
  nobody runs while the daemon is down or starting (`QuietInv`), that nobody has
  met an operation before it is saved (`MetInv`), that the holder and the
  operation being saved are of this boot (`BootInv`), and that an operation that
  has the lock, or is about to get it, is on disk and not among the records that
  somebody has decided to delete (`DurableInv`). The last is the point: the
  sweeper decides under the mutex and deletes without it, and the property alone
  says nothing about that decision.
  `UpgradeProtectedAcrossRestart`, for any TTL, any limit on the list of records
  and failing saves and deletes, if records can be read, the clock does not jump
  and `BootKnown` holds. `RestartInv` adds three things. `AgeInv`: a record
  of an earlier boot is older than the present second and than every record of
  this boot, which is why it cannot displace one from a list that is cut.
  `ProtectedInv`: the time and boot in the protected record are not written
  again. `GuardInv`: while the daemon is down, a record at least as new as the
  protected one is on disk (by `AgeInv` the next start accepts it). This is the
  point: after a restart the lock may be in the name of a newer record, and the
  sweeper then removes the protected one, so the next crash must find the other.
  `GuaranteesSurviveRestarts`: what the manager guarantees its callers
  (`StateChangeExclusion`, `ExactlyOneResponse`, `DeduplicationConsistent`,
  `BufferedReplyHasConsumer`, `InFlightHasDeadline`, `FirstEventWins`) holds
  through crashes, restarts and forced releases as well. The lemmas for the
  methods serve again; `MemoryLossKeepsPromises` is the step they do not cover.
- `WSProofs`: the safety properties of the WebSocket client, for any number of
  sessions and messages and any capacities. `ResponseOnOwnSession` and
  `OnlyStaleResponsesDropped` need `SessionInv` (which goroutines exist in which
  phase of the loop, and that the pump of an old session sees a cancelled
  context) and `CarrierInv` (a queued response is of a session that has been up,
  the one a pump holds of its own session or of one that is over, the one being
  written of the current session). The pump checks a response when it takes
  it; only these two say that the check still holds when the message is written.
  `LowerPriorityRetained` holds if pumps do not outlive their session
  (`~PumpsOutlive`), from `SlotInv`: one message is in transit, so the one
  retention slot is free when it is needed.
  `SuccessfulWriteIsFinal`, also when pumps outlive their session, from
  `HeldInv`: a message is in one place only, once in its queue, or with one
  pump, or with the writer, or in the slot. `PumpAndWriterInStep`: the pump of a
  live session waits on `ackCh` exactly while the writer owes the
  acknowledgement, so the two unbuffered channels cannot block each other. It is
  inductive on top of `SessionInv`.
- `ComponentProofs`, the components that share no state with the rest:
  - `FrameAdmission`, for every set of frames, envelopes and limits:
    `LimitsNested`, `AdmittedIsDispatchable`, `AnsweredOnce`, `StatusTruthful`
    and `ReportedUpgradeRetained`, from `AdmissionInv`, which adds that
    nothing has been sent or retained while a request is under way, and that an
    admitted upgrade is no notification. The lemmas compare the tables: every
    route is in the command/action matrix, a valid configuration has a positive
    uuid, what validates in the handler validates in the client.
    `ContentWithinLimit`, `NotificationInert` and `ResponsesWellFormed`, from
    `ContentInv`, which adds that the published limits are the final ones once
    frames are read, and which ids a request under way can have. Which check
    fails first decides the code and the id of a reply: `FirstReply` derives it
    from the order of `Checks`. `AdmissionConstants` says that only certupdate
    and script requests carry encoded content (`decoded`), the only ones whose
    validators decode any.
  - The queue types: `BurstBounded` and `YieldRotates`, from `StarvationInv`,
    which bounds the history by the burst counter and the yield position;
    `RingInv`, which is inductive, and from it the refinement `RingIsQueue` for
    every capacity; `NewestReportKept` and `CommittedInOrder` for any number of
    flushers, from `CoalescerInv` (a snapshot's payload belongs to its
    generation); `FlipsAcrossBand`, from `BackpressureInv` (the last change was
    made beyond the threshold of its direction); `QueuesTypeOK`, by way of
    `QueuesCompose`: the composition of `MCQueues` is a behaviour of each type.

Every safety invariant and action property that a passing run checks has its
theorem, and so have the refinements. Proved and not part of a run are
`TypeOK`, `GatewayTypeOK`, `WSTypeOK`, `OverlapOnlyWhileUndone`, `TransitionsLegal` and
`PumpAndWriterInStep`. Only model-checked: liveness
(`LockEventuallyReleased`, `OrphanReconciled`, `EveryRequestAnswered`,
`LowerPriorityDelivered`), because the prover handles neither fairness nor
`ENABLED`, and the three disagreements, which are counterexamples.

## Not modelled

- Teardown: cancelling the daemon's context, `Close`, draining at exit.
- Back-off times, deadlines, the lengths of timeouts and cache TTLs
  (`getTransactionTimeout`, `config.TTLForMethod`): a timer may fire at any time.
- The text of messages, URL syntax and the ranges of method-specific fields.
- Configuration and capability files: read once, without state afterwards.
- Quarantine of corrupt records (the model skips them on every read instead), a
  clock that steps back, and deletions undone by a power loss.
- `dispatchTimeoutFail`, `SetBootID`, `Get`, `EffectiveUUID` and
  `NATSDispatchBuffer`, which nothing but tests calls.
- A full emergency queue: `pushes` counts the attempt.
- The scheduler promises nothing to priority 3 under a flood of priority 1 in
  the normal selection, and no property says so.

## Plan

1. A composition of `Gateway` with the scheduler and `WSClient`: responses from
   request to cloud across reconnects.
2. An extension of `DeviceReservation` over crashes, with the record as part of
   its state.
3. Teardown of daemon and WebSocket client.
