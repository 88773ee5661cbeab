# Franken Surveillance System: TLA+ models and proofs

This directory holds TLA+ models of the parts of the system in which a mistake
costs evidence or repeats a physical effect: the append journal and the ledger
over it, the local publication of roots, the lease fences, the cancellation
lifecycle, the effect coordinator with its durable history, the region tree
with the scopes and tasks that run in it, and the packet receiver at the edge.
Every module is written from the Rust
source under `src/crates`; `PROJECT.json` maps each definition to its lines.

    tlc -config MCJournal.cfg MCJournal      # one model-checking run
    tlapm RuntimeProofs.tla                  # one module of proofs

## 1. The system

| Part | State | Operations | What is hard |
| --- | --- | --- | --- |
| `fss-ledger` journal | file, `last_root`, `committed_len`, one pending append | open, append (body, sync, trailer, sync), reconcile, verify | torn writes, failed syncs, power loss, foreign bytes |
| `fss-ledger` repair | sealed plan, quarantine sidecars | doctor, plan, apply | the file changes between plan, check and cut |
| durable ledger (`durable.rs`, `evidence.rs`) | batches, anchor, identity index, retained candidate | open/replay, prepare, append, reconcile | stale snapshots, retries of unknown outcomes, live checks against replay |
| `fss-runtime` leases | fence source, leases by identity, a copy per resource | acquire, renew, release, revoke, check_fence | two copies, callers whose clocks disagree, exhaustion |
| `fss-runtime` cancellation | phase, primary result, outstanding workers | request, begin_drain, worker_done, work_completed, work_failed, drive | late and conflicting reports, termination |
| `fss-runtime` effects | canonical journal, bindings, permits, durable head | prepare, commit, dispatch, accept, observe, reconcile, recover, adopt | ambiguous appends, restarts, two stores of one obligation |
| `fss-core` regions | tree of regions, tasks, obligations, notes | register, resolve, request_drain, drain, finalize | closure over unresolved work |
| `fss-runtime` authority, grants, budgets, execution, ingress | scopes, reservations, task receipts | scope_down, spend, refund, run_owned | refunds along the tree, dropped futures |
| `fss-object` | spool, uploads and their journal, retention graph | stage, upload parts, complete, expire | crashes between rename and sync, ambiguous completion |
| `fss-publication` | roots, records, tombstones, ledger commitments | publish, commit reachability, recover | root-last order under crashes |
| `fss-packet` | reorder window, continuity, receivers | push, pop, declare gap | 16-bit wrap, bounded windows |
| `fss-core` acquisition, events, deltas | lifecycle states, revisions, cursors | transitions, append revision | legal but unexpected sequences |
| codecs, containers, geometry, twin, graphs, models, fusion, camera protocols, CLI | pure data | | outside a model checker's reach |

The parts meet as follows. A deployment opens one ledger under its lock; the
ledger writes through the journal and rebuilds itself from it. The effect
coordinator runs inside a region of the region tree, asks the lease registry
at preparation and at commit, keeps one obligation per operation both in its
canonical journal and in the region, and writes each transition to a history
store before it publishes the result. An authority scope is a region with an
allowance that its parent paid for; a task runs in one scope and borrows both
exclusively. The packet receiver is a reorder buffer, which owns a sequence
tracker, followed by a depacketizer. The publisher keeps its records next to
the object spool and refers only to what the spool holds. Repair is an
operator's action on the journal file, under the same deployment lock.

The properties that make a part correct are listed with its module below; the
places where the code could violate them are the `hazards` of `PROJECT.json`.

## 2. Modules

| Module | Models | Checked by | Proved in |
| --- | --- | --- | --- |
| `CommitLog` | abstract: what the journal promises | (refined by `Journal`, used by `DurableLedger`) | |
| `Journal` | `journal.rs`, `recovery.rs`, `format.rs`, `repair.rs` | `MCJournal`, four configurations | `JournalProofs` |
| `DurableLedger` | `durable.rs`, the reference ledger of `evidence.rs`, the gate of `sealed_lineage.rs` | `MCDurableLedger` | `DurableLedgerProofs` |
| `LeaseRegistry` | `lease.rs` | `MCLeaseRegistry` | `RuntimeProofs` |
| `Cancellation` | `cancellation.rs` | `MCCancellation` | `RuntimeProofs` |
| `EffectCoordinator` | `effect.rs`, `effect/recovery.rs`, the rules of `fss-core/src/effect.rs`, one region of `region.rs` | `MCEffectCoordinator` | `EffectCoordinatorProofs` |
| `RegionTree` | `fss-core/src/region.rs` | `MCRegionTree` | `OwnedExecutionProofs` |
| `OwnedExecution` (extends `RegionTree`) | `authority.rs`, `budget.rs`, `execution.rs` | `MCOwnedExecution` | `OwnedExecutionProofs` |
| `RtpReorder` | `continuity.rs`, `reorder.rs` | `MCH264Receiver`, through `H264Receiver` | `H264ReceiverProofs` |
| `H264Receiver` (extends `RtpReorder`) | `receiver.rs`, `h264.rs` | `MCH264Receiver` | `H264ReceiverProofs` |
| `Publication` | `fss-publication/src/local/mod.rs` | `MCPublication` | `PublicationProofs` |
| `CommonLemmas` | nothing: lemmas about sums over finite sets and about sequences, for the proofs | | `CommonLemmas` |

Definitions whose comment begins with *Seeded fault* are plausible mistakes in
that place of the code. No specification uses them; each shows that a property
would notice the mistake (`mutants` in `PROJECT.json`).

The invariants of a module are defined one by one, each with its comment, and
those that belong together are checked as one conjunction, which is also what
an inductive proof starts from: `HandleInv`, `LedgerInv`, `IndInv` (leases),
`CancelInv`, `EffectInv`, `TreeInv`, `BudgetInv`, `TrackerInv`, `ReceiverInv`,
`PublicationInv`.

### CommitLog and Journal

`Journal` has a file of cells as readers see it (`file`) and as a power loss
surely leaves it (`disk`). A record is four cells in the order the code writes
them: header, payload, then commit magic and root. SHA-256 is taken to be
injective, so a root is the sequence of payloads up to its record. A write may
stop after any cell; a failed synchronisation may or may not have reached the
disk; a power loss keeps any subset of the cells in which file and disk differ
and any length between theirs. The handle's steps are the phases of `append`,
the three ends of `reconcile_pending`, `open` under both tail policies and
`verify`. Repair plans beside an open handle and applies under the deployment
lock (`Applying`), refusing a tail that holds a whole record as
`open_for_recovery` does; the last comparison and the truncation are separate
steps, as they are separate system calls. `ForeignAppend` and `Rot` are the
environment: another program that appends between two calls of the handle, and
a cell of a stored record that decays. A decayed cell fails the check that
covers it, with one exception: recovery reads the length in a header before any
digest covers it, so a header may also decay into one that claims more than the
file holds (`Long`). `IncompleteTail` then holds as it does for a torn record,
whatever whole records follow. `decay` remembers which acknowledged records were
hit, and how.

`CommitLog` has no cells and no synchronisation: a history that grows only by
the attempted record, one answer per attempt that agrees with the history, and
crashes that take only what was never acknowledged. `ImplementsCommitLog` is
the refinement (`history <- Recovered(file)`, `attempt <- pending`).

### DurableLedger

One handle and clients that prepare batches against a snapshot and submit them
later, twice or never. It runs on `CommitLog`, which `Journal` refines: every
log step is an action of `CommitLog`. Objects carry a generation; a batch names
the anchor it was prepared on. `Replay` decodes the history and sends it through
the checks a live append makes, record by record (a recursive function of the
number of records); a history that fails them cannot be opened. Decoding is not
the inverse of encoding: some contents (`Inverted`) stand for deltas whose
validity interval ends before it starts, which `encode_batch` writes and
`decode_batch` refuses (`Decodes`). At least one object is
assumed: over no objects the root is the empty function, which the model could
not tell from a replay that failed.

### LeaseRegistry

The registry as a whole, with the identity index and the per-resource copy as
separate variables. Each call picks its own time, because time is a parameter
of every call and nothing makes callers agree. `MaxFence` stands for the end
of `u64`, so exhaustion of the source happens in the model. `ended` remembers
every token whose end any caller was told of, `gate` the token that the last
`check_fence` accepted.

### Cancellation

One lifecycle. Calls take any time up to the clock, since a caller may have
read it long before. Primary work may complete and fail in any order, workers
may report at any time or never.

### EffectCoordinator

One coordinator process at a time over a store that outlives it. Digests and
notes are members of small sets; a handler appears as a guard (`CanPrepare`,
`CanCommit`, `CanReport`, `CanReconcile`) with the action for an append that
succeeds; `AppendFails` is the same guard with an append that fails, after
which the record may or may not be there, the owner is poisoned, and nothing
has been published. Refusals (approval, precondition, grant, deadline, time
order, idempotency) change nothing and are absent, which makes the model more
permissive than the code. `Recover` accepts any non-empty history that
replays, as if the operator always had a pin; without one the code refuses.
The lease is the abstraction of `LeaseRegistry` that `prepare` and `commit`
see: one active token or none, each newer than the last.

### RegionTree

The tree as one value: kind, parent and state of every region, the tasks and
obligations registered in it, its notes and its quiescence proof. Each call of
`region.rs` that changes the tree is an action; callers make them in any order
on any region. The kinds and multiplicities are the code's tables, `KindsUsed`
picks the ones a run attaches, and `Earlier` the order in which a run uses up
interchangeable identities (the proofs allow any). `quiescence` holds the totals a proof certifies;
the code adds them up from the proofs of the children (`SubtreeCounts`), and
`ProofsAreExact` compares them with a direct count over the subtree.

### OwnedExecution

Scopes, allowances and tasks on top of the tree. `consumed` is the ledger of a
scope as the code keeps it; `spent`, an observation, is the work really
admitted, so `ChargesAreExact` relates the two through every reservation,
refund and dropped handle. While a task runs (`Me`) no other action on the tree
is possible, as its exclusive borrow demands; it may be shown any time, cancel,
drain, register and resolve, and end by returning, by unwinding, or by being
dropped, after which its owner may record the loss (`RecoverTask`). Between
tasks the owner of a scope may spend (`SpendOutside`, through `budget_mut`),
register and resolve obligations; an obligation is registered in any state its
record may have.

### RtpReorder and H264Receiver

The source numbers packets without bound and puts the number modulo `Wrap` on
the wire; `pos` is the true number, which the receiver never sees. Any packet
may arrive at any time and again, within `Unambiguous`: the code cannot tell a
packet from one that is a whole wrap away, and no code with a 16-bit number
could, so the network is assumed not to delay that far. Time is relative: a
queued packet carries its age. `H264Receiver` composes the buffer with the
depacketizer as `poll` does, expiry before release; the three sources of the
run are an ordinary picture of several NALs with the same timestamp, one that
violates the fragment rules, and one with a chain longer than the limit. A
restart after a closed receiver makes another instance, so it is the initial
state and has no action.

### Publication

Two directories, each with the names the program reads (`now`) and the values
each name may have after a power loss (`may`); a directory synchronisation
makes them agree. A call that storage reports as failed may still have taken
effect, the creation of a temporary record and the removal of a name included;
only `AlreadyExists` from `hard_link` tells, as the code has it, that the call
linked nothing. No other program puts files into the directories, so that the
refusals of a taken name are those of `PublishCancel`. One operation runs at a time, in the steps at which the process can
die: temporary record, hard link, removal of the temporary name, directory
synchronisation, roll back, marker. `Open` is the whole recovery: removal of
redundant temporaries, tombstones, candidates, and the fixed point over
references, stated as the largest set of candidates that stand. `told` is the
last definite answer a caller has about a slot, `recorded` the tombstones
answered `Recorded`.

## 3. Runs

State counts are distinct states; a violation ends its run early.

| Run | Bounds | States | What it shows |
| --- | --- | --- | --- |
| `journal_crash` | 3 payloads, 1 foreign cell in an empty file, 1 repair | 393,686 | With every split write, failed sync, process death and power loss: acknowledged records stay (`AckedNeverLost`), a record reported as not committed never comes back (`RetractedNeverCommitted`), and the journal implements `CommitLog`. Three appends let a failed append follow a committed one, be retracted, and be followed by another. |
| `journal_damage` | 2 payloads, foreign bytes in files of up to 5 cells (`MaxCells`) with no junk yet (`MaxForeign`), 1 decayed cell, 1 repair | 2,235,768 | Foreign bytes after a committed record (4 cells) and before any, and decay: the handle's view stays a prefix of what readers recover (`HandleInv`). Neither `open` nor repair takes an acknowledged record before the first that decay hit, and before a repair only a decayed length costs any record at all (`HandleKeepsAcked`). Two records let decay hit the first while the second is whole. |
| `journal_exposed` | 1 payload | | Violation, see findings. |
| `journal_decay` | 1 payload, 1 decayed cell | | Violation, see findings. |
| `durable_ledger` | 2 identities, 2 objects (1 sealed), 2 contents (1 inverted), 3 prepared batches | 441,272 | A history replays exactly when its records decode (`HistoryReplays`); an open handle serves the journal, what a restart would if the records decode, and every batch any handle reported committed (`LedgerInv`); each identity commits once; generations count writes. Three prepared batches give a committed one, a retry of it and a stale competitor. |
| `lease_registry` | 2 resources, 4 fences, times 0..2 | 26,209 | The inductive invariant of the proofs, in which the copies agree (`IndInv`); no ended token passes the gate; ends, expiries and fences are monotone. Four fences allow takeover, revocation and exhaustion on both resources. |
| `cancellation` | 3 workers, 2 reasons, windows 0 and 2, clock to 3 | 5,620 | The outcome is honest, a failure is not masked and the window is full (`CancelInv`), the outcome is final, and a requested lifecycle ends. |
| `effect` | 2 operations, 1 proof, 1 note, 8 records, 2 retained, 2 fences | 514,139 | Histories replay, both stores of an obligation agree and closed regions are settled (`EffectInv`), nothing is dispatched twice or forgotten, no record follows a terminal one of its operation (`TerminalStays`), neither operation can use up the records the other needs (`RoomToSettle`; 8 are just enough for both), permits come in the order of their fences. With one proof digest a verification under a foreign proof is never offered; the code refuses it without changing state. |
| `region_tree` | 4 regions, used in one order (`Earlier`): a property with two sensors, or with a sensor and its receiver, and every smaller tree; 2 tasks or obligations in the tree, at most one of each per region | 256,639 | No region admits work below one that stopped (`DrainReachesAll`), a closed region is quiet all the way down (`ClosedIsQuiet`), proofs state true totals, and the drain of the root ends. A chain of three is the least in which a drain has to pass through a region that drains already; two sensors are siblings whose proofs are added up. |
| `owned_execution` | root and a chain of two scopes, 1 task, 1 obligation, 2 dimensions, root allowance (2,2), scopes (1,1), deadline 1, times 0..1, scopes made at time 0 (`ScopeTimes`) | 463,775 | Charges are exact and no scope overspends (`BudgetInv`), receipts are honest, no lost task is closed over. Two levels let a refund pass through a scope that refunds in turn; the root keeps an allowance of its own next to the one it gives away. |
| `h264_receiver` | positions 4..10, wrap 8, dropout and window 3, queue of 2 packets or 3 bytes, delay 1, chain of 3 fragments, age 2 | 60,045 | Numbers, order, accounting and reassembly across the wrap, and progress. Seven packets reach past the wrap with the window behind it; the queue fills by count and, with bodies of size 1 and 2, by bytes. |
| `publication` | 2 slots, a leaf, a manifest and a manifest over it, 1 tombstone, 2 storage faults, 1 process death; power may be lost whenever the process is down | 2,417,488 | Durable and negative answers survive (`AnswersSurvive`), marked slots stay broken, recorded tombstones hold and block (`RecordedBlocks`), and a served root reaches only what is there (`PublicationInv`). Two faults let a failed step be followed by a failed roll back. |

Symmetry is declared on payloads, identities, contents, resources, operations,
scopes and slots: none of them is compared except for equality. The runs
with a liveness property declare none.

Deadlock is checked everywhere but in `publication`: a publisher that is
poisoned, or whose directory an open refuses, legitimately stops, and the
bounds on faults and deaths end the rest. `Rest` actions stutter in states in
which the callers of a component have nothing left to do.

### Fairness

* `cancellation` (`FairCancelSpec`): weak fairness of `begin_drain` once a lifecycle is requested,
  of `drive` with the current time, and of the clock. The lifecycle is sans-I/O
  and its documentation makes the driver responsible for exactly these calls.
  Nothing is assumed of workers or primary work, which is the point of
  `RequestedEnds`.
* `region_tree` (`FairSpec`): callers complete the tasks and settle the
  obligations they registered, and somebody calls `begin_drain` and `finalize`
  on each region. The tree does nothing by itself; `DrainEnds` says that these
  calls are enough, in any order and with any others between them.
* `h264_receiver` (`FairReceiverSpec`): the owner polls when a poll would do
  something, as `next_wake_ns` asks it to, and its clock advances. Nothing is
  assumed of the network or of the source.

### Findings

* `journal_exposed`: `Journal::open` synchronises only when it cut a torn
  suffix. A record whose trailer was written but not synchronised before the
  process died is served by the next open and can still be lost, while
  `durable.rs` calls the restart state a function of the durable prefix.
  Nothing that was acknowledged by `append` is lost.
* `journal_decay`: recovery compares the length in a header with what is left of
  the file before any digest covers it (`recovery.rs:153`). If the length of an
  acknowledged record decays to one that is allowed but reaches beyond the end of
  the file, the record and all that follow are an incomplete tail, and `open`
  under `Truncate` cuts them without quarantine. The documentation of `open` says
  that corruption is never repaired or skipped. `HandleKeepsAcked` says what
  remains true.

Weaknesses that the models show and that no run states as a violation:

* An append takes a batch whose delta has an inverted validity interval: the
  fields of `CaptureInterval` are public (`time.rs:387`), `encode_batch` writes
  them as they are (`batch_codec.rs:215`), and no live check looks at them.
  `decode_batch` refuses it (`batch_codec.rs:369`), so the acknowledged batch
  makes every later `open` fail, while `durable.rs:1` speaks of restart
  equivalence. `HistoryReplays` is therefore an equivalence: a history replays
  exactly when its records decode.
* `apply` compares and cuts in two system calls (`repair.rs:953-974`). Bytes that
  another program appends in between are cut without being quarantined, while a
  test of the repair contract (`ledger_repair_contract.rs:860`) says that a
  concurrent append is detected and refused. The lock keeps the system's own
  handles away, so no acknowledged record is lost this way, which
  `HandleKeepsAcked` includes.
* `LocalRootPublisher::recover` ignores a failed synchronisation of
  `tombstones/` (`local/mod.rs:1995`). If a process died between the rename and
  the synchronisation of a tombstone, and the synchronisation at the next open
  fails, `record_tombstone` answers `AlreadyRecorded` for a tombstone that a
  power loss can still remove; its documentation (`mod.rs:1149`) speaks of a
  durable tombstone. `RecordedBlocks` is therefore stated for tombstones
  answered `Recorded`.
* `recover` treats `roots/` the same way (it reports the roots it finds as not
  durable). If the synchronisation of a retraction fails, which poisons the
  instance, and the one at the next open fails too, the record is not seen any
  more but can still come back after a power loss; a retried `retract_root`
  answers `false` without touching the disk. The caller's last definite answer
  is "unknown", which `AnswersSurvive` leaves open.

## 4. Proofs

The theorems hold for every value of the constants that satisfies the module's
`ASSUME`, which is named with each module below.

**`CommonLemmas`** holds what the other proofs need of sums over finite sets and
of sequences. A sum is defined by a recursion over subsets that at most one
function satisfies (`SumUnique`); the sizes of unions of disjoint sets satisfy
it too, so a sum of sizes is the size of a union (`SumOfSizes`, `SumIsCount`)
and the usual rules follow from counting (`SumInsert`, `SumRemove`,
`SumPartition`, `SumRenamed`, `SumUpdate`, `SumMonotone`). Induction over sets
and numbers goes by the least counterexample (`SmallestSubset`, `LeastNumber`),
because the library's induction theorems cannot be instantiated.

**`JournalProofs`** (assumes `MaxCells`, `MaxForeign`, `MaxRepairs` and
`MaxRot` are any natural numbers; crashes, power losses and failed writes are unbounded). A root
is `Intact` in a file when its records stand at the start of it. The scan is
replaced by this notion once and for all: what recovery reads is the longest
intact root (`IntactRecovered`), and whether a root is intact depends on its own
cells only (`IntactSame`, `AppendJunk`, `WriteEnd`). The argument has three
layers.
The first, `HandleOK`, says that what the handle knows of is intact, that an
append adds one record to it, and what the file holds at each of its stages. Of
the disk it needs only that a synchronised body is there. It gives
`HandleSafe`. The second, `KeepOK`, follows
the acknowledged records under decay: those before the first hit stay intact in
file and disk, and no repair cuts before their end (`Whole`); until a repair,
those before the first whose length was hit are where they were written, some
cells junk (`Decayed`), and an open that would serve fewer of them fails on the
tail (`Spared`, `DecayedRefused`). It gives `AckedKeptByHandle`. The third is about a journal whose stored cells do
not decay, which its theorems have as the hypothesis `MaxRot = 0`: decay really
destroys records, and `AckedNeverLost` is false with it. `Sound` relates file and
disk: a record whose trailer may be on disk is whole in the file and its body
is on disk, which is what synchronising the body before writing the trailer is
for. A power loss leaves a mixture (`Mixed`) of file and disk, and `SoundLoss`
shows that a mixture of a sound pair holds no record that was not in the file
and loses none that both held. A repair cuts where recovery stops even when its
plan was made for an earlier file (`PlanIsExact`). `SafeOK` is the conjunction.
The refinement takes each step to a step of `CommitLog` or to a stutter
(`LogHandle`, `LogOther`).
Results: `HandleInvariance`, `HandleSafe`, `AckedKeptByHandle`; without decay
`SafeInvariance`, `AckedSafe`, `RetractedSafe`, `JournalIsLog`.

**`RuntimeProofs`** has the two components of `fss-runtime` that stand alone.

*Leases* (assumes `MaxFence` is a positive and `MaxTime` any
natural number). `ZombieNeverActs` is not inductive: that an accepted token was
never reported as ended needs that the accepted one is active (`GateIsActive`)
and that what was reported is not (`EndedIsInactive`); that it stays so under a
later check with an older clock needs the copy the gate reads to agree with the
index (`CopiesAgree`), and that a takeover ends the old lease needs
`ActiveIsCurrent`. New tokens are new because nothing at or above the source is
issued (`IssuedBelowSource`). `IndInv` is the conjunction. Most operations
change one lease in both places; `MirroredUpdate` treats them at once, and
`AcquireInv` and `LazyExpiry` treat the rest. Results: `Invariance`
(`Spec => []IndInv`), from it `TypeCorrect`, `Agreement`, `NoZombie`, and the
action property `Monotone` (`EndsAndFencesAreMonotone`).

*Cancellation* (assumes windows are natural numbers and reasons differ
from the other outcomes). `CancelInv` adds to the invariants what ties the
window to the request: the requested time is the accepted one until the drain
begins (`AskedStaysUntilDrain`), the window starts no earlier
(`AskedBeforeWindow`), nothing is in the future (`PhaseFields`), and the
recorded failure is the primary result (`FailureIsPrimary`). `DrainedInv`
treats the three ways of ending with nobody outstanding together. Results:
`CancelInvariance` (`CancelSpec => []CancelInv`), `CancelTypeCorrect`, `HonestOutcomes`, and the action
property `Finality`.

**`OwnedExecutionProofs`** has the region tree and what runs on it.

*The tree* (assumes finite sets of regions, tasks and obligations,
natural limits). `CoreInv` is inductive; `TreeInv` follows from it. A kind fixes
the depth of a region (`ChildDepth`), so the tree has no cycles and the subtree
of a region is the least set that holds it and the children of its members
(`SubtreeLeast`, `SubtreeDownward`). The inductive form speaks of parent and
child only: a child of a stopped region has stopped, a child of a closed one is
closed; `DownwardReachesAll` and `ClosedDownward` extend both to the subtree,
and `DrainSetDownward` shows that the walk of `request_drain`, which passes
through regions that drain already, stops every live descendant. `ExactProofs`
is about the totals: the subtree of a region is itself and the disjoint
subtrees of its children (`SubtreeSplit`), so the sum that `finalize` forms
from the children's proofs is the count over the subtree (`CountSplit`,
`CountsAreTotals`), and nothing a closed subtree counts changes later
(`ExactKept`, `AttachKeepsClosed`). Results: `Invariance`, `ExactProofs`.

*Execution* (assumes allowances, costs and deadlines of their types) rests on
the tree's invariant. Every step of the composition is a step of
the tree or leaves it alone (`ExecTree`), so that `TreeInv` holds under the
executor too (`TreeUnderExecution`). `ExecInv` adds that the running task is
known to its region, that receipts are honest and the parts of `BudgetInv` in
the form steps preserve (`ScopeInv`): what a scope is charged is the sum of its
own work and one charge per child, in each dimension by itself.
`WorkFitsAllowance` is not part of it: it follows from exact charges up the tree
(`FitsUpward`, `FitsEverywhere`). The steps that touch budgets are admitting
work, `scope_down` and `release`; all others are neutral
(`NeutralKeepsScopes`). Results: `Budgets`, `Receipts`, `TasksAccounted`,
`TreeUnderExecution`.

**`PublicationProofs`** (assumes finite sets of slots and objects, that
manifests refer to other objects, that the two marks for an absent and a torn
record are no objects). The number of faults, deaths and power losses is
unbounded here: their bounds are any natural numbers. `PubInv` is the table of
what each step leaves on disk: for every slot, what `now` and `may` can hold
given what callers were told, what memory holds and where the operation in
hand stands (`SlotInv`, `OpOK`); the same for recorded tombstones (`TombInv`);
and that what is admitted is whole. Lemmas about directories say which names a
step touches (`Touched`, `Keeps`) and when a name is firm, that is, beyond any
power loss; lemmas about reachability say that what is served stays whole with
fewer roots or more objects (`WholeLess`) and with one more manifest whose
references are there (`WholeAdd`), and that the fixed point of `open` is whole
(`OpenIsWhole`).
Results: `Invariance`, `Answers`, `Marked`, `Recorded`.

**`EffectCoordinatorProofs`** (assumes finitely many operations, natural limits,
and that the absent digest is none of the digests). The replay of a history is
unique and one more record extends it by one step (`RunUnique`,
`ReplayAppend`), which makes the store's part of the invariant one about its
last record: `StoreAppend` shows that a record a handler may write keeps the
history replayable, within the room reserved for outstanding operations, and
is not preceded by a terminal one of its operation. `CoordInv` joins it to the
owner's memory (`OwnerOK`: unless it is poisoned, the owner holds the replay;
the two copies of an obligation agree), to permits and dispatches, compared with
the durable state and not the owner's (`PermitsOK`), and to the fences
(`FencesOK`: a live owner was the first on its store, so that all permits were
issued under its own registry). For the store, a failed append is the same case
as a successful one or as none (`HistoryStep`); in memory it only poisons the
owner, of which `OwnerOK` then asks nothing about the store (`OwnerFails`).
Results: `Inductive`,
`Owner`, `Replays`, `Remembered`, `Once`, `Settleable`, `Fenced`, and the
action property `LastWordStays`.

**`DurableLedgerProofs`** (assumes at least one object). `HistoryReplays` is not
inductive as it stands, since a power loss leaves another history. A history
is `Linked` when every record continues the one before it and no identity
occurs twice; each prefix of a linked history is linked (`LinkedPrefix`), one
accepted by the live checks extends it (`LinkedAppend`), and a linked history
replays to itself if its records decode and not at all otherwise
(`LinkedReplays`). `DurableInv` says this of the history and
of the attempt, and that an open handle holds the ledger of what it knows, the
history without an unresolved attempt. That no handle forgets an acknowledged
batch is proved over `CommitLog`'s actions (`AckedStep`). Results: `Inductive`,
`Replays`, `Serves`, `ExactlyOnce`, `NoLostUpdate`.

**`H264ReceiverProofs`** is about the reorder buffer and the receiver over it.
It assumes `ReorderAssumption` (natural numbers; dropout, window, queue and
delay are positive, as the code's constants and the checks of its limits make
them; `Dropout + Window <= Wrap`, in the code 3,000 and 128 against 65,536; sizes
are natural numbers) and `ReceiverAssumption` (each source assigns a content to
every position, chain and age limits are positive). So the results hold at the
code's wrap, which no run reaches. The theorems are about `ReceiverSpec`, which
`FairReceiverSpec` implies.
`TrackerInv` needs the arithmetic of the 16-bit number. Two numbers less than a
wrap apart with the same remainder are equal (`ModUnique`), so under
`Unambiguous` the distance that `observe` computes from wire numbers is the
distance of the positions (`Nearest`, `Unwrap`). `Anchored` states what it has
to find on the next packet: extended numbers and positions differ by whole
wraps, what was heard lies between baseline and highest, and a bit of the
window is set exactly for what was heard. `ObserveCases` reduces `observe` to
four outcomes: it changes nothing that was heard, sets the baseline, moves
ahead, or fills in behind.
`BufferOK` ties the queue to the tracker: queued packets were heard, are
different and not yet released, the byte count is their sum, the log covers
everything from the baseline up to `nextSequence`, and every bit of the window
is queued or below it, which is why a refused admission must not set one.
The depacketizer's part is that everything released was pushed in order and the
pending chain is the end of it (`PushedOK`), that NALs are whole and in order
(`NalsOK`), and that each released packet is in one place (`AccountedOK`);
`PollPacketStep` has one lemma for each thing a pushed packet can do
(`WholeStep`, `StartStep`, `ContinueStep`, `RefuseStep`). Wake times are not
part of the invariant; they follow from the ages it bounds (`WakesGiven`).
Results: `ReceiverInvariance`, `UnwrapsExactly`, `ReleasesInOrder`,
`DuplicatesAreKept`, `ReceiverSafe`, `NalsAreWhole`.

Every invariant and every action property of a passing run is stated by a
theorem. Only model-checked are `RequestedEnds`, `DrainEnds` and
`ReceiverProgress`: liveness under fairness is outside this prover.

## 5. Not modelled

`components` in `PROJECT.json` lists every part. Left out for good: bit-level
codecs, containers, parsers, tensor and geometry kernels, graph algorithms,
camera protocols, self-verifying formats and the command line; they are pure
computation or wiring, and they are most of the repository's lines. Not yet
modelled: see the plan.

Within the modelled parts the following is abstracted or left out: digests and
encodings (injective; what a batch loses in decoding is `Decodes`), error texts, the replay of v1 and v2 effect records, the
coordinator without a store, the file layout of the effect store, capability
grants (compared, never spent), the inside of the object spool, manifests
staged ahead of publication (memory only), read-only inspection, and the
composition of the receiver with H.265, which is the same.

Known hazards that no property covers, because no line of this code could
establish one:

* `journal.rs:307`: a synchronisation retried after a failed one. What the
  second one guarantees is a property of the file system.
* `effect.rs:531`: a permit that was never claimed outlives the settlement of
  its operation. It does not consult the coordinator, and no document says
  whether it may still be claimed.
* `effect/recovery.rs:221`: a store restored from an old copy that satisfies
  the operator's pin cannot be told from the newest one.

## 6. Plan

Left to do are further models, in this order:

1. The commitment of published roots to the ledger
   (`fss-publication/src/ledger.rs`) as a composition of `Publication` with
   `CommitLog`.
2. Multipart upload with ambiguous completion, and retention over the
   derivative graph.
3. TCP ingress; the acquisition lifecycle and the event store.
