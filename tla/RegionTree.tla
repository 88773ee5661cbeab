----------------------------- MODULE RegionTree -----------------------------
(***************************************************************************)
(* RegionTree of crates/fss-core/src/region.rs: the ownership tree of       *)
(* execution regions, the tasks and obligations each region tracks, and the *)
(* closure protocol Active -> DrainRequested -> Draining -> Finalizing ->   *)
(* Closed, which must end with a quiescence proof for every region.         *)
(*                                                                          *)
(* The tree is one value that its callers change one call at a time; which  *)
(* calls they make, and in which order, is what the model leaves open.      *)
(* Timestamps are recorded and never compared, so they are left out.        *)
(* Authority narrowing is in OwnedExecution.                                *)
(***************************************************************************)
EXTENDS Integers, FiniteSetsExt

CONSTANTS
  Regions,      (* region identities                                        *)
  Process,      (* the identity of the root                                 *)
  KindsUsed,    (* bound: the kinds attach_child is called with             *)
  Tasks,        (* task identities, reusable in another region              *)
  Obligations,  (* obligation identities, reusable in another region        *)
  Proofs,       (* proof digests                                            *)
  Notes,        (* reconciliation notes that are not blank                  *)
  None,
  MaxRegions,       (* MAX_REGIONS_IN_TREE                                  *)
  MaxChildren,      (* MAX_CHILDREN_PER_REGION                              *)
  MaxTasks,         (* MAX_TASKS_PER_REGION                                 *)
  MaxObligations,   (* MAX_OBLIGATIONS_PER_REGION                           *)
  MaxMany,          (* MAX_SENSOR_REGIONS, MAX_EVENT_REGIONS, MAX_MODEL_CALL_REGIONS *)
  MaxWork,          (* bound: tasks and obligations registered in the tree  *)
  Earlier           (* bound: the pairs <<a, b>> of identities of which     *)
                    (* callers use b only after a; one order of use stands  *)
                    (* for all, since identities are interchangeable        *)

ASSUME RegionAssumption ==
  /\ Process \in Regions
  /\ IsFiniteSet(Regions) /\ IsFiniteSet(Tasks) /\ IsFiniteSet(Obligations)
  /\ None \notin Regions \cup Proofs \cup Notes
  /\ {MaxRegions, MaxChildren, MaxTasks, MaxObligations, MaxMany, MaxWork} \subseteq Nat

VARIABLES
  kind,         (* "absent" for an identity that is not in the tree         *)
  parent,
  state,
  task,         (* active_tasks and completed_tasks                         *)
  obligation,
  note,         (* reconciliation_obligations                               *)
  quiescence    (* quiescence_proof: the counts it certifies                *)

treeVars == <<kind, parent, state, task, obligation, note, quiescence>>

SensorKinds == {"AdapterSession", "Receive", "Continuity", "Media", "Analysis", "Archive"}
EventKinds  == {"EvidenceWindow", "ModelCall", "Association", "Policy", "AlertObligation"}
PropertyKinds == {"Ledger", "ObjectStore", "Projection", "Operations", "Sensor", "Event"}
Kinds == {"Process", "Property"} \cup PropertyKinds \cup SensorKinds \cup EventKinds

(* validate_child_kind; a leaf admits nothing.                              *)
ChildKinds(k) ==
  CASE k = "Process"  -> {"Property"}
    [] k = "Property" -> PropertyKinds
    [] k = "Sensor"   -> SensorKinds
    [] k = "Event"    -> EventKinds
    [] OTHER          -> {}

(* max_multiplicity of an admitted child kind.                              *)
MaxMultiplicity(k) == IF k \in {"Sensor", "Event", "ModelCall"} THEN MaxMany ELSE 1

States == {"active", "drain_requested", "draining", "finalizing", "closed"}
Transitions ==
  {<<"active", "drain_requested">>, <<"drain_requested", "draining">>,
   <<"draining", "finalizing">>, <<"finalizing", "closed">>}

ObligationStates == {"pending", "verified", "failed", "cancelled", "indeterminate"}
Obligation  == [state : ObligationStates \cup {"absent"}, proof : Proofs \cup {None}]
NoObligation == [state |-> "absent", proof |-> None]
Counts      == [tasks : Nat, obligations : Nat, indeterminate : Nat]
NoProof     == [tasks |-> -1, obligations |-> -1, indeterminate |-> -1]

Live == {r \in Regions : kind[r] # "absent"}
Children(r) == {c \in Live : parent[c] = r}

(* r and everything below it, down to the depth a tree of these kinds has.  *)
Below(S) == S \cup {c \in Live : parent[c] \in S}
Subtree(r) == Below(Below(Below({r})))

TypeOK ==
  /\ kind \in [Regions -> Kinds \cup {"absent"}]
  /\ parent \in [Regions -> Regions \cup {None}]
  /\ state \in [Regions -> States]
  /\ task \in [Regions -> [Tasks -> {"absent", "active", "completed"}]]
  /\ obligation \in [Regions -> [Obligations -> Obligation]]
  /\ note \in [Regions -> [Obligations -> Notes \cup {None}]]
  /\ quiescence \in [Regions -> Counts \cup {NoProof}]
  /\ \A r \in Live : quiescence[r] # NoProof <=> state[r] = "closed"

(* RegionTree::new                                                          *)
Init ==
  /\ kind = [r \in Regions |-> IF r = Process THEN "Process" ELSE "absent"]
  /\ parent = [r \in Regions |-> None]
  /\ state = [r \in Regions |-> "active"]
  /\ task = [r \in Regions |-> [t \in Tasks |-> "absent"]]
  /\ obligation = [r \in Regions |-> [o \in Obligations |-> NoObligation]]
  /\ note = [r \in Regions |-> [o \in Obligations |-> None]]
  /\ quiescence = [r \in Regions |-> NoProof]

-----------------------------------------------------------------------------
(* Admission.                                                               *)

(* What attach_child demands of the tree, authority narrowing apart.        *)
CanAttach(p, c, k) ==
  /\ Cardinality(Live) < MaxRegions
  /\ kind[c] = "absent"
  /\ p \in Live /\ state[p] = "active"
  /\ k \in ChildKinds(kind[p])
  /\ Cardinality(Children(p)) < MaxChildren
  /\ Cardinality({s \in Children(p) : kind[s] = k}) < MaxMultiplicity(k)

(* attach_child                                                             *)
AttachChild(p, c, k) ==
  /\ CanAttach(p, c, k)
  /\ kind' = [kind EXCEPT ![c] = k]
  /\ parent' = [parent EXCEPT ![c] = p]
  /\ UNCHANGED <<state, task, obligation, note, quiescence>>

Registered ==
  Cardinality({x \in Live \X Tasks : task[x[1]][x[2]] # "absent"}) +
  Cardinality({x \in Live \X Obligations : obligation[x[1]][x[2]].state # "absent"})

(* register_task: an identity is used once per region.                      *)
RegisterTask(r, t) ==
  /\ r \in Live /\ state[r] = "active"
  /\ task[r][t] = "absent"
  /\ Cardinality({u \in Tasks : task[r][u] = "active"}) < MaxTasks
  /\ task' = [task EXCEPT ![r][t] = "active"]
  /\ UNCHANGED <<kind, parent, state, obligation, note, quiescence>>

(* complete_task: in every state but Closed.                                *)
CompleteTask(r, t) ==
  /\ r \in Live /\ state[r] # "closed"
  /\ task[r][t] = "active"
  /\ task' = [task EXCEPT ![r][t] = "completed"]
  /\ UNCHANGED <<kind, parent, state, obligation, note, quiescence>>

(* register_obligation: whatever state the record carries.                  *)
RegisterObligation(r, o, s, p) ==
  /\ r \in Live /\ state[r] = "active"
  /\ obligation[r][o].state = "absent"
  /\ Cardinality({x \in Obligations : obligation[r][x].state # "absent"}) < MaxObligations
  /\ obligation' = [obligation EXCEPT ![r][o] = [state |-> s, proof |-> p]]
  /\ UNCHANGED <<kind, parent, state, task, note, quiescence>>

(* validate_obligation_resolution of a record in a region that is not       *)
(* closed.                                                                  *)
CanResolve(r, o, s, p, n) ==
  /\ r \in Live /\ state[r] # "closed"
  /\ obligation[r][o].state # "absent" /\ s # "pending"
  /\ \/ obligation[r][o].state = "pending"
     \/ obligation[r][o].state = "indeterminate" /\ s \in {"verified", "failed"} /\ p # None
     \/ obligation[r][o] = [state |-> s, proof |-> p]
  /\ IF s = "indeterminate" THEN n # None /\ note[r][o] \in {None, n} ELSE n = None

(* Seeded fault: a closed region still accepts resolutions.                 *)
ResolveAnywhere(r, o, s, p, n) ==
  /\ obligation[r][o].state \in {"pending", "indeterminate"} /\ s # "pending"
  /\ note' = [note EXCEPT ![r][o] = n]
  /\ obligation' = [obligation EXCEPT ![r][o] = [state |-> s, proof |-> p]]
  /\ UNCHANGED <<kind, parent, state, task, quiescence>>

(* resolve_obligation                                                       *)
ResolveObligation(r, o, s, p, n) ==
  /\ CanResolve(r, o, s, p, n)
  /\ note' = [note EXCEPT ![r][o] = n]
  /\ obligation' = [obligation EXCEPT ![r][o] = [state |-> s, proof |-> p]]
  /\ UNCHANGED <<kind, parent, state, task, quiescence>>

-----------------------------------------------------------------------------
(* Closure.                                                                 *)

(* The regions request_drain walks: it does not go below a region that is   *)
(* finalizing or closed.                                                    *)
Undrained(S) == {r \in S : state[r] \notin {"finalizing", "closed"}}
Reached(S)   == S \cup Undrained({c \in Live : parent[c] \in S})
DrainSet(r)  == Reached(Reached(Reached({r})))

(* Seeded fault: the request stops at the direct children.                  *)
RequestDrainShallow(r) ==
  /\ r \in Live /\ state[r] \notin {"finalizing", "closed"}
  /\ state' = [x \in Regions |->
                 IF x \in Reached({r}) /\ state[x] = "active" THEN "drain_requested" ELSE state[x]]
  /\ UNCHANGED <<kind, parent, task, obligation, note, quiescence>>

(* request_drain                                                            *)
RequestDrain(r) ==
  /\ r \in Live /\ state[r] \notin {"finalizing", "closed"}
  /\ state' = [x \in Regions |->
                 IF x \in DrainSet(r) /\ state[x] = "active" THEN "drain_requested" ELSE state[x]]
  /\ UNCHANGED <<kind, parent, task, obligation, note, quiescence>>

(* begin_drain                                                              *)
BeginDrain(r) ==
  /\ r \in Live /\ <<state[r], "draining">> \in Transitions
  /\ state' = [state EXCEPT ![r] = "draining"]
  /\ UNCHANGED <<kind, parent, task, obligation, note, quiescence>>

(* Seeded fault: only the region's own work is looked at.                   *)
QuiescentLocally(r) ==
  /\ \A t \in Tasks : task[r][t] # "active"
  /\ \A o \in Obligations : obligation[r][o].state # "pending"

(* verify_quiescence: the conditions.                                       *)
Quiescent(r) ==
  /\ \A c \in Children(r) : state[c] = "closed"
  /\ \A t \in Tasks : task[r][t] # "active"
  /\ \A o \in Obligations :
       /\ obligation[r][o].state # "pending"
       /\ obligation[r][o].state = "indeterminate" => note[r][o] # None

(* verify_quiescence: the counts, the proofs of the children added to the   *)
(* region's own.                                                            *)
SubtreeCounts(r) ==
  [tasks |-> SumFunction([c \in Children(r) |-> quiescence[c].tasks])
               + Cardinality({t \in Tasks : task[r][t] = "completed"}),
   obligations |-> SumFunction([c \in Children(r) |-> quiescence[c].obligations])
               + Cardinality({o \in Obligations : obligation[r][o].state # "absent"}),
   indeterminate |-> SumFunction([c \in Children(r) |-> quiescence[c].indeterminate])
               + Cardinality({o \in Obligations : obligation[r][o].state = "indeterminate"})]

(* begin_finalize                                                           *)
BeginFinalize(r) ==
  /\ r \in Live /\ <<state[r], "finalizing">> \in Transitions
  /\ Quiescent(r)
  /\ state' = [state EXCEPT ![r] = "finalizing"]
  /\ UNCHANGED <<kind, parent, task, obligation, note, quiescence>>

(* finalize: from Draining, through Finalizing, or from Finalizing.         *)
Finalize(r) ==
  /\ r \in Live /\ state[r] \in {"draining", "finalizing"}
  /\ Quiescent(r)
  /\ state' = [state EXCEPT ![r] = "closed"]
  /\ quiescence' = [quiescence EXCEPT ![r] = SubtreeCounts(r)]
  /\ UNCHANGED <<kind, parent, task, obligation, note>>

-----------------------------------------------------------------------------
(* A tree whose root is closed accepts no call.                             *)
Rest == state[Process] = "closed" /\ UNCHANGED treeVars

Settle(r, o) ==
  \E s \in ObligationStates, p \in Proofs \cup {None}, n \in Notes \cup {None} :
    ResolveObligation(r, o, s, p, n)

Next ==
  \/ \E p, c \in Regions, k \in KindsUsed :
       (\A a \in Regions : <<a, c>> \in Earlier => a \in Live) /\ AttachChild(p, c, k)
  \/ /\ Registered < MaxWork
     /\ \E r \in Regions, t \in Tasks : RegisterTask(r, t)
  \/ \E r \in Regions, t \in Tasks : CompleteTask(r, t)
  \/ /\ Registered < MaxWork
     /\ \E r \in Regions, o \in Obligations, s \in ObligationStates, p \in Proofs \cup {None} :
          RegisterObligation(r, o, s, p)
  \/ \E r \in Regions, o \in Obligations : Settle(r, o)
  \/ \E r \in Regions : RequestDrain(r) \/ BeginDrain(r) \/ BeginFinalize(r) \/ Finalize(r)
  \/ Rest

Spec == Init /\ [][Next]_treeVars

Unsettled(r, o) ==
  \/ obligation[r][o].state = "pending"
  \/ obligation[r][o].state = "indeterminate" /\ note[r][o] = None

(* What the callers owe a tree: complete an active task, resolve an         *)
(* unsettled obligation, begin a requested drain, finalize a quiescent      *)
(* region. They need only take some such step while there is one: they may  *)
(* choose which, and leave any region for last.                             *)
Progress ==
  \E r \in Regions :
    \/ \E t \in Tasks : CompleteTask(r, t)
    \/ \E o \in Obligations : Unsettled(r, o) /\ Settle(r, o)
    \/ BeginDrain(r)
    \/ Finalize(r)

FairSpec == Spec /\ WF_treeVars(Progress)

-----------------------------------------------------------------------------
(* Properties.                                                              *)

(* A drain that was requested anywhere has reached everything below it: no  *)
(* region admits work under an ancestor that has stopped admitting it.      *)
DrainReachesAll ==
  \A r \in Live : state[r] # "active" => \A d \in Subtree(r) : state[d] # "active"

(* A closed region leaves nothing running below it: no task, no obligation  *)
(* without an outcome, no unknown outcome without a note. (FORMAL-001 and   *)
(* INV-006 of verify_quiescence, for the whole subtree.)                    *)
ClosedIsQuiet ==
  \A r \in Live : state[r] = "closed" =>
    \A d \in Subtree(r) :
      /\ state[d] = "closed"
      /\ \A t \in Tasks : task[d][t] # "active"
      /\ \A o \in Obligations : ~Unsettled(d, o)

(* The parts that make the two above inductive. A region hangs below one    *)
(* that admits its kind; an identity that is not in the tree carries        *)
(* nothing; and what the two say of a subtree, from parent to child.        *)
Nested ==
  /\ kind[Process] = "Process" /\ parent[Process] = None
  /\ \A c \in Live \ {Process} : parent[c] \in Live /\ kind[c] \in ChildKinds(kind[parent[c]])

FreshWhenAbsent ==
  \A r \in Regions \ Live :
    /\ state[r] = "active" /\ quiescence[r] = NoProof
    /\ \A t \in Tasks : task[r][t] = "absent"
    /\ \A o \in Obligations : obligation[r][o] = NoObligation

StopsDownward ==
  \A c \in Live \ {Process} :
    /\ state[parent[c]] # "active" => state[c] # "active"
    /\ state[parent[c]] = "closed" => state[c] = "closed"

ClosedHasSettled ==
  \A r \in Live : state[r] = "closed" =>
    /\ \A t \in Tasks : task[r][t] # "active"
    /\ \A o \in Obligations : ~Unsettled(r, o)

(* The invariant of the tree: its types, the two above and their parts.     *)
TreeInv ==
  /\ TypeOK /\ DrainReachesAll /\ ClosedIsQuiet
  /\ Nested /\ FreshWhenAbsent /\ StopsDownward /\ ClosedHasSettled

(* A quiescence proof states the true totals of its subtree, counted        *)
(* directly, for as long as the tree exists.                                *)
ProofIsExact(r) ==
  LET S == Subtree(r) IN
  /\ quiescence[r].tasks =
       Cardinality({x \in S \X Tasks : task[x[1]][x[2]] = "completed"})
  /\ quiescence[r].obligations =
       Cardinality({x \in S \X Obligations : obligation[x[1]][x[2]].state # "absent"})
  /\ quiescence[r].indeterminate =
       Cardinality({x \in S \X Obligations : obligation[x[1]][x[2]].state = "indeterminate"})

ProofsAreExact == \A r \in Live : state[r] = "closed" => ProofIsExact(r)

(* The closure protocol never wedges: once the drain of the root is         *)
(* requested, and callers finish what they began, the whole tree closes.    *)
DrainEnds == state[Process] = "drain_requested" ~> state[Process] = "closed"
=============================================================================
