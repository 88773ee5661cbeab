---------------------------- MODULE Cancellation ----------------------------
(***************************************************************************)
(* CancellationLifecycle of crates/fss-runtime/src/cancellation.rs: one     *)
(* lifecycle, the workers it waits for, the primary work that may complete  *)
(* or fail at any moment, and a driver that begins the drain and polls it.  *)
(*                                                                          *)
(* The lifecycle owns no clock. Every caller reads the wall clock first and *)
(* calls later, so the time it passes in may be any past reading.           *)
(***************************************************************************)
EXTENDS Integers

CONSTANTS
  Workers,
  Reasons,      (* reasons of a failure                                     *)
  Timeouts,     (* values of drain_timeout_ns                               *)
  MaxClock      (* bound: the clock stops here unless a drain window is open*)

ASSUME CancelAssumption ==
  /\ Timeouts \subseteq Nat
  /\ MaxClock \in Nat
  /\ Reasons \cap {"none", "completed", "cancelled", "indeterminate"} = {}

VARIABLES
  phase,        (* CancelPhase                                              *)
  requested,    (* Requested's requested_ns, NoTime when it is None         *)
  start,        (* Draining's drain_start_ns                                *)
  outcome,      (* Final's outcome; a failure is its reason                 *)
  primary,      (* primary_outcome                                          *)
  outstanding,
  timeout,      (* drain_timeout_ns                                         *)
  clock,        (* the wall clock the callers read                          *)
  (* Observations, used by the properties only.                             *)
  asked,        (* the time of the explicit request that was accepted       *)
  failure,      (* the first failure reported before the end                *)
  stranded      (* the workers named by an Indeterminate outcome            *)

observations == <<asked, failure, stranded>>
cancelVars == <<phase, requested, start, outcome, primary, outstanding, timeout, clock,
                asked, failure, stranded>>

NoTime   == -1
Readings == Nat \cup {NoTime}
Primary  == {"none", "completed"} \cup Reasons
Outcomes == Primary \cup {"cancelled", "indeterminate"}

CancelTypeOK ==
  /\ phase \in {"running", "requested", "draining", "final"}
  /\ requested \in Readings
  /\ start \in Readings
  /\ outcome \in Outcomes
  /\ phase = "final" <=> outcome # "none"
  /\ primary \in Primary
  /\ outstanding \subseteq Workers
  /\ timeout \in Timeouts
  /\ clock \in Nat
  /\ asked \in Readings
  /\ failure \in Reasons \cup {"none"}
  /\ stranded \subseteq Workers

(* new, with any set of workers and any window.                             *)
CancelInit ==
  /\ phase = "running" /\ outcome = "none" /\ primary = "none"
  /\ requested = NoTime /\ start = NoTime /\ asked = NoTime
  /\ outstanding \in SUBSET Workers
  /\ timeout \in Timeouts
  /\ clock = 0 /\ failure = "none" /\ stranded = {}

-----------------------------------------------------------------------------
(* Seeded fault: a repeated request goes back to the requested phase.       *)
RequestRewinds(now) ==
  /\ phase # "final"
  /\ phase' = "requested" /\ requested' = now /\ asked' = now
  /\ UNCHANGED <<start, outcome, primary, outstanding, timeout, clock, failure, stranded>>

(* request: absorbed in every phase but Running.                            *)
Request(now) ==
  /\ phase = "running"
  /\ phase' = "requested" /\ requested' = now /\ asked' = now
  /\ UNCHANGED <<start, outcome, primary, outstanding, timeout, clock, failure, stranded>>

(* Seeded fault: the window opens at whatever time the caller passes.       *)
WindowOpensAtNow(now) == now

(* The window opens at the caller's time, but not before the request.       *)
DrainStart(now) == IF requested > now THEN requested ELSE now

(* begin_drain: absorbed in every phase but Requested.                      *)
BeginDrain(now) ==
  /\ phase = "requested"
  /\ phase' = "draining" /\ start' = DrainStart(now) /\ requested' = NoTime
  /\ UNCHANGED <<outcome, primary, outstanding, timeout, clock, observations>>

(* drained_outcome                                                          *)
DrainedOutcome(prim) == IF prim = "none" THEN "cancelled" ELSE prim

Finalise(o) == phase' = "final" /\ outcome' = o /\ requested' = NoTime /\ start' = NoTime

(* Seeded fault: the last worker's report finalises without asking whether  *)
(* the lifecycle is final already.                                          *)
WorkerDoneReopens(w) ==
  /\ w \in outstanding
  /\ outstanding' = outstanding \ {w}
  /\ IF outstanding' = {} /\ (primary # "none" \/ phase \in {"draining", "final"})
     THEN Finalise(DrainedOutcome(primary))
     ELSE UNCHANGED <<phase, outcome, requested, start>>
  /\ UNCHANGED <<primary, timeout, clock, observations>>

(* worker_done of a worker that is outstanding; UnknownWorker changes       *)
(* nothing.                                                                 *)
WorkerDone(w) ==
  /\ w \in outstanding
  /\ outstanding' = outstanding \ {w}
  /\ IF outstanding' = {} /\ phase # "final" /\ (primary # "none" \/ phase = "draining")
     THEN Finalise(DrainedOutcome(primary))
     ELSE UNCHANGED <<phase, outcome, requested, start>>
  /\ UNCHANGED <<primary, timeout, clock, observations>>

(* record_primary: work_completed and work_failed. The first failure stays, *)
(* a failure replaces a completion that is still waiting for workers.       *)
RecordPrimary(o) ==
  /\ phase # "final"
  /\ primary \notin Reasons
  /\ primary' = o
  /\ failure' = IF o \in Reasons THEN o ELSE failure
  /\ IF outstanding = {} THEN Finalise(DrainedOutcome(o))
     ELSE /\ phase' = IF phase = "running" THEN "requested" ELSE phase
          /\ UNCHANGED <<outcome, requested, start>>
  /\ UNCHANGED <<outstanding, timeout, clock, asked, stranded>>

WorkCompleted == RecordPrimary("completed")
WorkFailed(r) == RecordPrimary(r)

(* drive when nobody is awaited any more.                                   *)
DriveDrained ==
  /\ phase = "draining" /\ outstanding = {}
  /\ Finalise(DrainedOutcome(primary))
  /\ UNCHANGED <<primary, outstanding, timeout, clock, observations>>

(* drive at the end of the window with workers outstanding. Before the end, *)
(* and with a time before the start, drive changes nothing.                 *)
DriveTimesOut(now) ==
  /\ phase = "draining" /\ outstanding # {}
  /\ now >= start /\ now - start >= timeout
  /\ Finalise("indeterminate")
  /\ stranded' = outstanding
  /\ UNCHANGED <<primary, outstanding, timeout, clock, asked, failure>>

(* The wall clock of the callers.                                           *)
Tick ==
  /\ clock < MaxClock \/ (phase = "draining" /\ clock < start + timeout)
  /\ clock' = clock + 1
  /\ UNCHANGED <<phase, requested, start, outcome, primary, outstanding, timeout, observations>>

(* A lifecycle nobody calls any more.                                       *)
Rest == phase = "final" /\ UNCHANGED cancelVars

CancelNext ==
  \/ \E now \in 0 .. clock : Request(now) \/ BeginDrain(now) \/ DriveTimesOut(now)
  \/ \E w \in Workers : WorkerDone(w)
  \/ WorkCompleted
  \/ \E r \in Reasons : WorkFailed(r)
  \/ DriveDrained
  \/ Tick
  \/ Rest

CancelSpec == CancelInit /\ [][CancelNext]_cancelVars

(* The driver begins the drain of what was requested and keeps polling with *)
(* a clock that advances. Workers and primary work owe nothing.             *)
FairCancelSpec ==
  /\ CancelSpec
  /\ WF_cancelVars(\E now \in 0 .. clock : BeginDrain(now))
  /\ WF_cancelVars(DriveDrained \/ DriveTimesOut(clock))
  /\ WF_cancelVars(Tick)

-----------------------------------------------------------------------------
(* Properties.                                                              *)

(* Work that has not ended is never reported as ended: while a worker is    *)
(* outstanding the only final outcome is Indeterminate, and it named every  *)
(* worker that is still missing. (The header of cancellation.rs:            *)
(* "non-cooperative work ends Indeterminate, never dropped-as-cancelled or  *)
(* reported-as-complete".)                                                  *)
OutcomeIsHonest ==
  phase = "final" /\ outstanding # {} =>
    outcome = "indeterminate" /\ outstanding \subseteq stranded

(* The first failure reported before the end survives every later report:   *)
(* it is still the primary result, and no final outcome denies it.          *)
FailureNotMasked ==
  failure # "none" =>
    primary = failure /\ (phase = "final" => outcome \in {failure, "indeterminate"})

(* Nobody is declared stranded before the full window after the explicit    *)
(* request has passed, whatever stale times the callers passed in.          *)
WindowIsFull ==
  outcome = "indeterminate" /\ asked # NoTime => clock >= asked + timeout

(* A final outcome is final: a worker that reports after the time-out, and  *)
(* a primary result that arrives after it, change neither the outcome nor   *)
(* the retained primary result.                                             *)
FinalIsForever ==
  [][phase = "final" => phase' = "final" /\ outcome' = outcome /\ primary' = primary]_cancelVars

(* Every lifecycle that was asked to end, or whose primary work reported,   *)
(* reaches a final outcome, even if no worker ever reports.                 *)
RequestedEnds == phase = "requested" ~> phase = "final"

-----------------------------------------------------------------------------
(* The parts that make the invariants above inductive.                      *)

PhaseFields ==
  /\ phase = "draining" => start \in Nat
  /\ phase # "requested" => requested = NoTime
  /\ requested # NoTime => requested = asked
  /\ asked <= clock /\ requested <= clock /\ start <= clock

AskedBeforeWindow == phase = "draining" => asked <= start
AskedStaysUntilDrain == phase = "requested" /\ asked # NoTime => requested = asked
AskedAfterRunning == phase = "running" => asked = NoTime /\ primary = "none"
FailureIsPrimary == failure = (IF primary \in Reasons THEN primary ELSE "none")

CancelInv ==
  /\ CancelTypeOK
  /\ PhaseFields
  /\ AskedBeforeWindow
  /\ AskedStaysUntilDrain
  /\ AskedAfterRunning
  /\ FailureIsPrimary
  /\ OutcomeIsHonest
  /\ FailureNotMasked
  /\ WindowIsFull
=============================================================================
