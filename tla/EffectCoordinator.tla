-------------------------- MODULE EffectCoordinator --------------------------
(***************************************************************************)
(* EffectCoordinator of crates/fss-runtime/src/effect.rs with its durable   *)
(* history (effect/recovery.rs), the canonical EffectJournal it owns        *)
(* (fss-core/src/effect.rs), the obligations it keeps in one region         *)
(* (fss-core/src/region.rs) and the lease that fences the resource.         *)
(*                                                                          *)
(* A write is durable before its result is published. An append that fails  *)
(* may have left its record behind: the owner is poisoned, and a cold       *)
(* recovery replays whatever the store holds and may only reconcile.        *)
(*                                                                          *)
(* Left out because refusing changes nothing: approvals, preconditions,     *)
(* grants, deadlines, idempotency conflicts and times that go backwards are *)
(* the calls that do not happen here. Digests are members of Proofs.        *)
(***************************************************************************)
EXTENDS Integers, Sequences, FiniteSetsExt

CONSTANTS
  Ops,          (* operation identities, all on one resource                *)
  Proofs,       (* evidence digests                                         *)
  Notes,        (* reconciliation notes                                     *)
  None,
  MaxRecords,   (* MAX_EFFECT_HISTORY_RECORDS                               *)
  MaxRetained,  (* MAX_RETAINED_EFFECTS                                     *)
  MaxFence      (* bound on the leases taken                                *)

ASSUME EffectAssumption ==
  /\ MaxRecords \in Nat /\ MaxRetained \in Nat /\ MaxFence \in Nat
  /\ None \notin Proofs \cup Notes
  /\ IsFiniteSet(Ops)

VARIABLES
  owner,        (* "down", "live" or "recovered" (reconciliation_only)      *)
  poisoned,     (* persistence_poisoned                                     *)
  journal,      (* the owner's EffectJournal                                *)
  bound,        (* operations in bindings; the others retained are unbound  *)
  permit,       (* the CommittedEffect of an operation                      *)
  region,       (* the RegionState of the preparing region                  *)
  tree,         (* the obligations and notes of that region                 *)
  history,      (* the records of the store, oldest first                   *)
  lease,        (* the active token of the resource, 0 when there is none   *)
  lastFence,    (* the last token issued                                    *)
  (* Observations, used by the properties only.                             *)
  dispatches,   (* how often an operation was dispatched, ever              *)
  fencesUsed    (* the fences of the permits, in the order of issue         *)

process == <<owner, poisoned, journal, bound, permit, region, tree, lease, lastFence>>
vars    == <<process, history, dispatches, fencesUsed>>

Terminal == {"verified", "cancelled", "failed"}
Settled  == Terminal \cup {"indeterminate"}
States   == {"absent", "prepared", "committed", "adapter_accepted", "observed"} \cup Settled
OptProof == Proofs \cup {None}
OptNote  == Notes \cup {None}

(* OperationReceipt with the obligation of its operation.                   *)
Receipt ==
  [state : States, fence : 0 .. MaxFence, result : OptProof, note : OptNote,
   obligation : {"absent", "pending"} \cup Settled, proof : OptProof]
NoReceipt ==
  [state |-> "absent", fence |-> 0, result |-> None, note |-> None,
   obligation |-> "absent", proof |-> None]

NodeObligation == [state : {"absent", "pending"} \cup Settled, proof : OptProof, note : OptNote]
NoObligation   == [state |-> "absent", proof |-> None, note |-> None]

Event(op, to, proof, note, fence) ==
  [op |-> op, to |-> to, proof |-> proof, note |-> note, fence |-> fence]

(* JournalEvent: what each transition carries (the payload rules of         *)
(* check_transition): a commit nothing, an acceptance perhaps a digest, an  *)
(* unresolved outcome its note, every other outcome its evidence.           *)
Events ==
  UNION {{Event(op, "prepared", None, None, f) : f \in 1 .. MaxFence}
         \cup {Event(op, "committed", None, None, 0)}
         \cup {Event(op, "adapter_accepted", p, None, 0) : p \in OptProof}
         \cup {Event(op, to, p, None, 0) : to \in Terminal \cup {"observed"}, p \in Proofs}
         \cup {Event(op, "indeterminate", None, n, 0) : n \in Notes} : op \in Ops}

TypeOK ==
  /\ owner \in {"down", "live", "recovered"}
  /\ poisoned \in BOOLEAN
  /\ journal \in [Ops -> Receipt]
  /\ bound \subseteq Ops /\ \A op \in bound : journal[op].state # "absent"
  /\ permit \in [Ops -> {"none", "held", "claimed"}]
  /\ region \in {"active", "drain_requested", "draining", "finalizing", "closed"}
  /\ tree \in [Ops -> NodeObligation]
  /\ history \in Seq(Events)
  /\ lease \in 0 .. MaxFence /\ lastFence \in 0 .. MaxFence
  /\ dispatches \in [Ops -> Nat]
  /\ fencesUsed \in Seq(1 .. MaxFence)

-----------------------------------------------------------------------------
(* The canonical journal.                                                   *)

Transitions ==
  {<<"absent", "prepared">>,
   <<"prepared", "committed">>, <<"prepared", "cancelled">>, <<"prepared", "failed">>,
   <<"committed", "adapter_accepted">>, <<"committed", "indeterminate">>, <<"committed", "failed">>,
   <<"adapter_accepted", "observed">>, <<"adapter_accepted", "indeterminate">>,
   <<"adapter_accepted", "failed">>,
   <<"observed", "verified">>, <<"observed", "indeterminate">>,
   <<"indeterminate", "observed">>, <<"indeterminate", "failed">>}

(* Seeded fault: late evidence reopens a failed operation.                  *)
LegalOrReopened(r, e) ==
  /\ <<r.state, e.to>> \in Transitions \cup {<<"failed", "observed">>}
  /\ e.to = "verified" => e.proof = r.result

(* check_transition: verification names exactly the observed proof.         *)
Legal(r, e) ==
  /\ <<r.state, e.to>> \in Transitions
  /\ e.to = "verified" => e.proof = r.result

(* transition_under, reconcile_verified, reconcile_failed, prepare.         *)
Apply(r, e) ==
  [state      |-> e.to,
   fence      |-> IF e.to = "prepared" THEN e.fence ELSE r.fence,
   result     |-> IF e.proof = None THEN r.result ELSE e.proof,
   note       |-> IF e.to = "indeterminate" THEN e.note ELSE r.note,
   obligation |-> CASE e.to = "prepared" -> "pending"
                    [] e.to \in Settled -> e.to
                    [] OTHER -> r.obligation,
   proof      |-> IF e.to \in Terminal THEN e.proof ELSE r.proof]

Candidate(e) == [journal EXCEPT ![e.op] = Apply(journal[e.op], e)]

Retained(j) == {op \in Ops : j[op].state # "absent"}

(* replay_record: the journal after one more record, and whether that       *)
(* record is a legal step of the state it names and no preparation exceeds  *)
(* what an owner retains.                                                   *)
ReplayRecord(acc, e) ==
  [ok      |-> /\ acc.ok
               /\ Legal(acc.journal[e.op], e)
               /\ e.to = "prepared" => Cardinality(Retained(acc.journal)) < MaxRetained,
   journal |-> [acc.journal EXCEPT ![e.op] = Apply(acc.journal[e.op], e)]]

Nothing == [ok |-> TRUE, journal |-> [op \in Ops |-> NoReceipt]]

(* recover: what the store's history describes, record by record.           *)
Replay(h) ==
  LET after[n \in 0 .. Len(h)] ==
        IF n = 0 THEN Nothing ELSE ReplayRecord(after[n - 1], h[n])
  IN after[Len(h)]

-----------------------------------------------------------------------------
(* persist_event                                                            *)

(* Records an operation still needs to reach a known outcome.               *)
Needed(state) ==
  CASE state \in {"prepared", "observed"} -> 1
    [] state = "committed" -> 3
    [] state \in {"adapter_accepted", "indeterminate"} -> 2
    [] OTHER -> 0
Remaining(j) == SumFunction([op \in Ops |-> Needed(j[op].state)])

(* Seeded fault: only the record itself is accounted for.                   *)
RoomForRecord(e) == Len(history) + 1 <= MaxRecords

(* Room for this record and for the rest of every outstanding operation.    *)
Room(e) == Len(history) + 1 + Remaining(Candidate(e)) <= MaxRecords

Ready == owner # "down" /\ ~poisoned

(* An append that succeeds, and the journal published after it.             *)
Persist(e) ==
  /\ Room(e)
  /\ history' = Append(history, e)
  /\ journal' = Candidate(e)
  /\ UNCHANGED <<owner, poisoned>>

-----------------------------------------------------------------------------
(* What each handler demands before it writes.                              *)

(* require_scope: an open region whose obligation and note are the ones the *)
(* journal retains.                                                         *)
ScopeHolds(op) ==
  /\ op \in bound
  /\ region # "closed"
  /\ tree[op] = [state |-> journal[op].obligation, proof |-> journal[op].proof,
                 note |-> IF journal[op].obligation = "indeterminate"
                          THEN journal[op].note ELSE None]

(* prepare of an operation that has no binding yet.                         *)
CanPrepare(e) ==
  /\ e.to = "prepared" /\ e.fence = lease
  /\ owner = "live" /\ Ready
  /\ e.op \notin bound
  /\ region = "active"
  /\ Cardinality(bound) < MaxRetained
  /\ lease # 0
  /\ tree[e.op].state = "absent"
  /\ Legal(journal[e.op], e)

(* Seeded fault: commit trusts the fence that was checked at preparation.   *)
CanCommitStale(e) ==
  /\ e.to = "committed"
  /\ ScopeHolds(e.op)
  /\ owner = "live" /\ Ready
  /\ Legal(journal[e.op], e)
  /\ region = "active"

(* commit: the fence is still the resource's, and its lease still active.   *)
CanCommit(e) ==
  /\ e.to = "committed"
  /\ ScopeHolds(e.op)
  /\ owner = "live" /\ Ready
  /\ Legal(journal[e.op], e)
  /\ region = "active"
  /\ journal[e.op].fence = lease

(* adapter_accepted and observed, which take the permit and no region.      *)
CanReport(e) ==
  /\ e.to \in {"adapter_accepted", "observed"}
  /\ permit[e.op] # "none"
  /\ Ready
  /\ Legal(journal[e.op], e)

(* validate_obligation_resolution                                           *)
TreeAccepts(op, r) ==
  /\ \/ tree[op].state = "pending"
     \/ tree[op].state = "indeterminate" /\ r.obligation \in {"verified", "failed"} /\ r.proof # None
     \/ tree[op].state = r.obligation /\ tree[op].proof = r.proof
  /\ r.obligation = "indeterminate" /\ tree[op].note # None => r.note = tree[op].note

(* reconcile, and through it cancel_prepared, verified, failed and          *)
(* indeterminate.                                                           *)
CanReconcile(e) ==
  /\ e.to \in Settled \cup {"observed"}
  /\ ScopeHolds(e.op)
  /\ Ready
  /\ Legal(journal[e.op], e)
  /\ LET r == Apply(journal[e.op], e) IN r.obligation # "pending" => TreeAccepts(e.op, r)

-----------------------------------------------------------------------------
(* The handlers, when the append succeeds.                                  *)

Prepare(e) ==
  /\ CanPrepare(e)
  /\ Persist(e)
  /\ tree' = [tree EXCEPT ![e.op].state = "pending"]
  /\ bound' = bound \cup {e.op}
  /\ UNCHANGED <<permit, region, lease, lastFence, dispatches, fencesUsed>>

Commit(e) ==
  /\ CanCommit(e)
  /\ Persist(e)
  /\ permit' = [permit EXCEPT ![e.op] = "held"]
  /\ fencesUsed' = Append(fencesUsed, journal[e.op].fence)
  /\ UNCHANGED <<bound, region, tree, lease, lastFence, dispatches>>

Report(e) ==
  /\ CanReport(e)
  /\ Persist(e)
  /\ UNCHANGED <<bound, permit, region, tree, lease, lastFence, dispatches, fencesUsed>>

(* The region obligation advances after the record is durable.              *)
Reconcile(e) ==
  /\ CanReconcile(e)
  /\ Persist(e)
  /\ LET r == Apply(journal[e.op], e) IN
     tree' = IF r.obligation = "pending" THEN tree
             ELSE [tree EXCEPT ![e.op] =
                     [state |-> r.obligation, proof |-> r.proof,
                      note |-> IF r.obligation = "indeterminate" THEN r.note ELSE None]]
  /\ UNCHANGED <<bound, permit, region, lease, lastFence, dispatches, fencesUsed>>

Attempted(e) == (CanPrepare(e) \/ CanCommit(e) \/ CanReport(e) \/ CanReconcile(e)) /\ Room(e)

(* Seeded fault: the permit is returned although the append failed.         *)
AppendFailsPermitting(e) ==
  /\ Attempted(e)
  /\ history' \in {history, Append(history, e)}
  /\ poisoned' = TRUE
  /\ permit' = IF e.to = "committed" THEN [permit EXCEPT ![e.op] = "held"] ELSE permit
  /\ UNCHANGED <<owner, journal, bound, region, tree, lease, lastFence, dispatches, fencesUsed>>

(* Seeded fault: an append error is taken for success.                      *)
AppendErrorIgnored(e) ==
  /\ Attempted(e)
  /\ history' \in {history, Append(history, e)}
  /\ journal' = Candidate(e)
  /\ UNCHANGED <<owner, poisoned, bound, permit, region, tree, lease, lastFence, dispatches, fencesUsed>>

(* Any of them, when the append fails: the record may be there or not.      *)
AppendFails(e) ==
  /\ Attempted(e)
  /\ history' \in {history, Append(history, e)}
  /\ poisoned' = TRUE
  /\ UNCHANGED <<owner, journal, bound, permit, region, tree, lease, lastFence, dispatches, fencesUsed>>

-----------------------------------------------------------------------------
(* Permits, leases and the region.                                          *)

(* Seeded fault: the claim is not recorded in the permit.                   *)
DispatchUnrecorded(op) ==
  /\ permit[op] = "held"
  /\ dispatches' = [dispatches EXCEPT ![op] = @ + 1]
  /\ UNCHANGED <<process, history, fencesUsed>>

(* try_claim_dispatch, and the external request that follows it.            *)
Dispatch(op) ==
  /\ permit[op] = "held"
  /\ permit' = [permit EXCEPT ![op] = "claimed"]
  /\ dispatches' = [dispatches EXCEPT ![op] = @ + 1]
  /\ UNCHANGED <<owner, poisoned, journal, bound, region, tree, lease, lastFence, history, fencesUsed>>

(* The permit is consumed by a settlement, or its future is dropped.        *)
DropPermit(op) ==
  /\ permit[op] # "none"
  /\ permit' = [permit EXCEPT ![op] = "none"]
  /\ UNCHANGED <<owner, poisoned, journal, bound, region, tree, lease, lastFence, history,
                 dispatches, fencesUsed>>

(* LeaseRegistry: acquire when no lease is active; the end of a lease by    *)
(* release, revoke, or an expiry that a check (also one inside a refused    *)
(* prepare or commit) observes.                                             *)
LeaseTaken ==
  /\ owner = "live" /\ lease = 0 /\ lastFence < MaxFence
  /\ lease' = lastFence + 1 /\ lastFence' = lastFence + 1
  /\ UNCHANGED <<owner, poisoned, journal, bound, permit, region, tree, history,
                 dispatches, fencesUsed>>

LeaseEnds ==
  /\ lease # 0 /\ lease' = 0
  /\ UNCHANGED <<owner, poisoned, journal, bound, permit, region, tree, lastFence, history,
                 dispatches, fencesUsed>>

RegionMoves(from, to) ==
  /\ owner # "down" /\ region = from /\ region' = to
  /\ UNCHANGED <<owner, poisoned, journal, bound, permit, tree, lease, lastFence, history,
                 dispatches, fencesUsed>>

(* verify_quiescence                                                        *)
Quiescent ==
  \A op \in Ops : /\ tree[op].state # "pending"
                  /\ tree[op].state = "indeterminate" => tree[op].note # None

RequestDrain == RegionMoves("active", "drain_requested")
BeginDrain   == RegionMoves("drain_requested", "draining")

BeginFinalize == Quiescent /\ RegionMoves("draining", "finalizing")

(* finalize, from Draining or Finalizing.                                   *)
Finalize == Quiescent /\ (RegionMoves("draining", "closed") \/ RegionMoves("finalizing", "closed"))

-----------------------------------------------------------------------------
(* Process life cycle. The store is all that survives.                      *)

FreshProcess ==
  /\ permit' = [op \in Ops |-> "none"]
  /\ bound' = {} /\ poisoned' = FALSE
  /\ region' = "active" /\ tree' = [op \in Ops |-> NoObligation]
  /\ lease' = 0 /\ lastFence' = 0

ProcessDeath ==
  /\ owner # "down" /\ owner' = "down"
  /\ journal' = [op \in Ops |-> NoReceipt]
  /\ FreshProcess
  /\ UNCHANGED <<history, dispatches, fencesUsed>>

(* with_journal: only over an empty store.                                  *)
WithJournal ==
  /\ owner = "down" /\ history = <<>>
  /\ owner' = "live"
  /\ UNCHANGED <<poisoned, journal, bound, permit, region, tree, lease, lastFence, history,
                 dispatches, fencesUsed>>

(* recover: replay of the complete history; nothing may be dispatched.      *)
Recover ==
  /\ owner = "down" /\ history # <<>>
  /\ Replay(history).ok
  /\ owner' = "recovered"
  /\ journal' = Replay(history).journal
  /\ UNCHANGED <<poisoned, bound, permit, region, tree, lease, lastFence, history,
                 dispatches, fencesUsed>>

(* Seeded fault: the note of an indeterminate obligation is not restored.   *)
AdoptWithoutNote(op) ==
  /\ owner = "recovered" /\ Ready
  /\ journal[op].state # "absent" /\ op \notin bound
  /\ region = "active" /\ tree[op].state = "absent"
  /\ tree' = [tree EXCEPT ![op] =
                [state |-> journal[op].obligation, proof |-> journal[op].proof, note |-> None]]
  /\ bound' = bound \cup {op}
  /\ UNCHANGED <<owner, poisoned, journal, permit, region, lease, lastFence, history,
                 dispatches, fencesUsed>>

(* adopt_recovered: the retained obligation and its note are attached to    *)
(* the fresh region.                                                        *)
Adopt(op) ==
  /\ owner = "recovered" /\ Ready
  /\ journal[op].state # "absent" /\ op \notin bound
  /\ region = "active" /\ tree[op].state = "absent"
  /\ tree' = [tree EXCEPT ![op] =
                [state |-> journal[op].obligation, proof |-> journal[op].proof,
                 note |-> IF journal[op].obligation = "indeterminate"
                          THEN journal[op].note ELSE None]]
  /\ bound' = bound \cup {op}
  /\ UNCHANGED <<owner, poisoned, journal, permit, region, lease, lastFence, history,
                 dispatches, fencesUsed>>

Init ==
  /\ owner = "down" /\ poisoned = FALSE /\ history = <<>>
  /\ journal = [op \in Ops |-> NoReceipt]
  /\ permit = [op \in Ops |-> "none"]
  /\ bound = {} /\ region = "active" /\ tree = [op \in Ops |-> NoObligation]
  /\ lease = 0 /\ lastFence = 0
  /\ dispatches = [op \in Ops |-> 0] /\ fencesUsed = <<>>

Next ==
  \/ \E e \in Events : Prepare(e) \/ Commit(e) \/ Report(e) \/ Reconcile(e) \/ AppendFails(e)
  \/ \E op \in Ops : Dispatch(op) \/ DropPermit(op) \/ Adopt(op)
  \/ LeaseTaken \/ LeaseEnds
  \/ RequestDrain \/ BeginDrain \/ BeginFinalize \/ Finalize
  \/ ProcessDeath \/ WithJournal \/ Recover

Spec == Init /\ [][Next]_vars

-----------------------------------------------------------------------------
(* Properties.                                                              *)

Durable == Replay(history)

(* Whatever appends failed and whatever was recovered, the store's history  *)
(* can be replayed, and an owner that is not poisoned holds exactly what it *)
(* replays to.                                                              *)
HistoryReplays ==
  LET d == Durable IN d.ok /\ (Ready => journal = d.journal)

(* The two stores of an obligation, the journal's and the region's, agree   *)
(* on every operation the owner is bound to, notes included, so that        *)
(* require_scope never locks an operation out of reconciliation.            *)
ObligationsAgree ==
  \A op \in bound :
    /\ tree[op].state = journal[op].obligation /\ tree[op].proof = journal[op].proof
    /\ tree[op].note = IF journal[op].obligation = "indeterminate" THEN journal[op].note ELSE None

(* No operation is dispatched twice, over all processes that ever run on    *)
(* the store.                                                               *)
AtMostOneDispatch == \A op \in Ops : dispatches[op] <= 1

(* What was dispatched is never forgotten and never recorded as cancelled:  *)
(* the durable history of such an operation is past its commitment.         *)
DispatchIsRemembered ==
  LET d == Durable.journal IN
  \A op \in Ops : dispatches[op] > 0 => d[op].state \notin {"absent", "prepared", "cancelled"}

(* No operation can use up the records another one needs to settle.         *)
RoomToSettle == Len(history) + Remaining(Durable.journal) <= MaxRecords

(* Permits on the resource are issued in the order of their fences: once a  *)
(* newer lease has committed, no preparation under an older one commits.    *)
FencesInOrder == \A i \in 1 .. Len(fencesUsed) - 1 : fencesUsed[i] <= fencesUsed[i + 1]

(* A closed region leaves behind no operation without a recorded outcome:   *)
(* each is terminal or carries the note of what is unresolved.              *)
ClosedRegionIsSettled ==
  region = "closed" =>
    \A op \in bound : \/ journal[op].state \in Terminal
                      \/ journal[op].obligation = "indeterminate" /\ journal[op].note # None

(* The invariant of the owner: types, both obligation stores, closure.      *)
EffectInv == TypeOK /\ ObligationsAgree /\ ClosedRegionIsSettled

(* A terminal outcome is the last word on its operation: no record that is  *)
(* in the store is ever changed or lost, and none follows it for the same   *)
(* operation, across failed appends, deaths and recoveries.                 *)
TerminalStays ==
  [][\A i \in DOMAIN history :
       /\ i \in DOMAIN history' /\ history'[i] = history[i]
       /\ history[i].to \in Terminal =>
            \A j \in i + 1 .. Len(history') : history'[j].op # history[i].op]_history
=============================================================================
