----------------------------- MODULE Publication -----------------------------
(***************************************************************************)
(* LocalRootPublisher of crates/fss-publication: root-last publication of   *)
(* manifests into slots, tombstones, retraction and deletion, over the      *)
(* staging spool, and the classification of what a crash left.              *)
(*                                                                          *)
(* Objects are content digests; the children of a manifest follow from its  *)
(* digest. A directory is a record [now, may]: `now' is what the program    *)
(* reads, `may' the values each name can have after a power loss. A change  *)
(* adds to `may', and a directory synchronisation makes `now' the only      *)
(* possibility. A call the system reports as failed may have taken effect.  *)
(*                                                                          *)
(* The publisher has one owner (its lock, `&mut self'): its operations do   *)
(* not interleave with each other, but the process may die between any two  *)
(* file operations of one. A refusal that changes nothing is a stuttering   *)
(* step and has no action. The spool is modelled by what it promises: an    *)
(* object it indexed is durable, and only verified ones may be referenced.  *)
(***************************************************************************)
EXTENDS Naturals, FiniteSets

CONSTANTS
  Slots,        (* slot names                                               *)
  Objects,      (* content digests                                          *)
  Children,     (* the children of each object that is a manifest           *)
  None, Torn,   (* no such name; a file whose contents are not a record     *)
  MaxRoots,     (* limits.max_roots                                         *)
  MaxTombs,     (* limits.max_tombstones                                    *)
  Doomed,       (* bound: the objects tombstones are asked for              *)
  MaxFaults,    (* bound on the operations during which storage fails       *)
  MaxKills      (* bound on the deaths of the process                       *)

Manifests == DOMAIN Children

ASSUME PublicationAssumption ==
  /\ IsFiniteSet(Slots) /\ IsFiniteSet(Objects)
  /\ Manifests \subseteq Objects
  /\ \A m \in Manifests : Children[m] \in SUBSET (Objects \ {m})
  /\ None \notin Objects /\ Torn \notin Objects /\ None # Torn
  /\ Doomed \subseteq Objects
  /\ {MaxRoots, MaxTombs, MaxFaults, MaxKills} \subseteq Nat

VARIABLES
  roots,        (* roots/: the names <<slot, "root" | "tmp" | "mark">>      *)
  tombsDir,     (* tombstones/: the names <<object, "tomb" | "tmp" | "mark">> *)
  spool,        (* the objects in the spool                                 *)
  (* The instance; meaningless while mode is "down".                        *)
  mode,         (* live, spoolPoisoned, poisoned or down                    *)
  op,           (* the operation under way and how far it got               *)
  visible,      (* root and durability of each slot's admitted root         *)
  broken,       (* broken_slots                                             *)
  orphans,      (* orphan_temps: the names of both directories' temps       *)
  tombs,        (* the objects with an admitted tombstone                   *)
  verified,     (* the objects the spool holds as Verified                  *)
  faults, kills,
  (* Observations, used by the properties only.                             *)
  told,         (* the last definite answer about the record of each slot   *)
  recorded      (* objects whose tombstone was answered Recorded            *)

diskVars   == <<roots, tombsDir, spool>>
memoryVars == <<visible, broken, orphans, tombs, verified>>
boundVars  == <<faults, kills>>
obsVars    == <<told, recorded>>
vars       == <<diskVars, mode, op, memoryVars, boundVars, obsVars>>

-----------------------------------------------------------------------------
(* Directories.                                                             *)

RootNames == Slots \X {"root", "tmp", "mark"}
TombNames == Objects \X {"tomb", "tmp", "mark"}
RootRecord(s) == <<s, "root">>
RootTemp(s)   == <<s, "tmp">>
RootMark(s)   == <<s, "mark">>
Tomb(o)       == <<o, "tomb">>
TombTemp(o)   == <<o, "tmp">>
TombMark(o)   == <<o, "mark">>

EmptyDir(names) == [now |-> [n \in names |-> None], may |-> [n \in names |-> {None}]]
Put(d, n, v) == [now |-> [d.now EXCEPT ![n] = v], may |-> [d.may EXCEPT ![n] = @ \union {v}]]
Remove(d, n) == Put(d, n, None)
Sync(d)      == [d EXCEPT !.may = [n \in DOMAIN d.now |-> {d.now[n]}]]

(* What a removal that reports a failure leaves behind.                     *)
RemoveFailed(d, n) == {d, Remove(d, n)}

(* The ways remove_temp ends: the directory, whether the name became an     *)
(* orphan of this instance, and whether something failed.                   *)
RemoveTemp(d, n) ==
  {[dir |-> Sync(Remove(d, n)), orphan |-> {}, fault |-> 0],
   [dir |-> Remove(d, n), orphan |-> {}, fault |-> 1]}
  \union {[dir |-> e, orphan |-> {n}, fault |-> 1] : e \in RemoveFailed(d, n)}

(* The ways record_indeterminate_marker ends; a marker left by a failure    *)
(* counts by its existence.                                                 *)
WriteMarker(d, n) ==
  {[dir |-> Sync(Put(d, n, Torn)), done |-> TRUE],
   [dir |-> Put(d, n, Torn), done |-> FALSE],
   [dir |-> d, done |-> FALSE]}

(* The first failure of an operation counts against the bound; once storage *)
(* fails, the clean-up of the same operation may fail as well.              *)
Spend(n) == faults + n <= MaxFaults /\ faults' = faults + n

-----------------------------------------------------------------------------
(* References.                                                              *)

NoRoot == [root |-> None, durable |-> FALSE]
Held(s) == visible[s].root # None
HeldSlots == {s \in Slots : Held(s)}

(* compute_closure: the root, its children, and the children of every       *)
(* reached object whose manifest is among `expand'.                         *)
Closure(expand, m) ==
  {o \in Objects : \A S \in SUBSET Objects :
     (m \in S /\ \A p \in S : p \in expand \union {m} => Children[p] \subseteq S) => o \in S}

(* LocalRootPublisher::closure descends through durable roots only.         *)
ClosureNow(m) == Closure({visible[s].root : s \in {t \in HeldSlots : visible[t].durable}}, m)

Reachable == UNION {ClosureNow(visible[s].root) : s \in HeldSlots}

(* An object that is the root of some slot must be durable there. The code  *)
(* looks at the first such slot by name, which may be any of them.          *)
SettledRoot(o) ==
  LET at == {s \in HeldSlots : visible[s].root = o} IN
  at # {} => \E s \in at : visible[s].durable

Usable(o) == o \notin tombs /\ SettledRoot(o) /\ o \in verified

(* Seeded fault: only the manifest itself is looked up among the            *)
(* tombstones, so a deleted object returns as a child.                      *)
ReferencesOkRootOnly(m) ==
  /\ m \notin tombs
  /\ \A o \in ClosureNow(m) \ {m} : SettledRoot(o) /\ o \in verified

(* require_references.                                                      *)
ReferencesOk(m) ==
  /\ m \notin tombs
  /\ \A o \in ClosureNow(m) \ {m} : Usable(o)

-----------------------------------------------------------------------------
(* Publication.                                                             *)

Idle == [at |-> "idle"]
Ready == mode = "live" /\ op = Idle
At(pc) == mode \in {"live", "poisoned"} /\ op.at = pc

Says(s, what, m) == told' = [told EXCEPT ![s] = [says |-> what, root |-> m]]

(* publish_cancellable up to the creation of the temporary record: the      *)
(* early refusals, the references, and the body of the manifest staged and  *)
(* verified. Cancellation at the first two cut points is not taking this    *)
(* step. A creation that fails may leave the file, which this instance does *)
(* not note among its orphans; if it leaves none, all that happened is what *)
(* StageObject does.                                                        *)
PublishBegin(s, m) ==
  /\ Ready
  /\ ~Held(s) /\ s \notin broken
  /\ Cardinality(HeldSlots) < MaxRoots
  /\ RootTemp(s) \notin orphans
  /\ ReferencesOk(m)
  /\ roots.now[RootTemp(s)] = None
  /\ spool' = spool \union {m}
  /\ verified' = verified \union {m}
  /\ roots' = Put(roots, RootTemp(s), Torn)
  /\ \/ op' = [at |-> "write", slot |-> s, root |-> m] /\ UNCHANGED faults
     \/ UNCHANGED op /\ Spend(1)
  /\ UNCHANGED <<tombsDir, mode, visible, broken, orphans, tombs, kills, obsVars>>

(* The rest of write_temp: the contents and then the directory are          *)
(* synchronised, or the temporary record is removed.                        *)
PublishWrite ==
  /\ At("write")
  /\ LET n == RootTemp(op.slot)
         d == Put(roots, n, op.root) IN
     \/ /\ roots' = Sync(d)
        /\ op' = [op EXCEPT !.at = "temp"]
        /\ UNCHANGED <<orphans, faults>>
     \/ \E w \in {roots, d} : \E r \in RemoveTemp(w, n) :
          /\ Spend(1)
          /\ roots' = r.dir
          /\ orphans' = orphans \union r.orphan
          /\ op' = Idle
  /\ UNCHANGED <<tombsDir, spool, mode, visible, broken, tombs, verified, kills, obsVars>>

(* The caller cancels at the cut point AfterRootTempWrite. The refusals at  *)
(* the commit point end the same way: the references are not proved again,  *)
(* the target cannot be inspected, or its name is taken (by the look or by  *)
(* hard_link's AlreadyExists, which tells that this call linked nothing).   *)
PublishCancel ==
  /\ At("temp")
  /\ \E r \in RemoveTemp(roots, RootTemp(op.slot)) :
       /\ Spend(r.fault)
       /\ roots' = r.dir
       /\ orphans' = orphans \union r.orphan
  /\ Says(op.slot, "absent", None)
  /\ op' = Idle
  /\ UNCHANGED <<tombsDir, spool, mode, visible, broken, tombs, verified, kills, recorded>>

(* The commit point: the references are proved again, the name is free, and *)
(* the record is linked under it.                                           *)
PublishLink ==
  /\ At("temp")
  /\ ReferencesOk(op.root) /\ op.root \in verified
  /\ roots.now[RootRecord(op.slot)] = None
  /\ \/ /\ roots' = Put(roots, RootRecord(op.slot), op.root)
        /\ op' = [op EXCEPT !.at = "unlink"]
        /\ UNCHANGED faults
     \/ /\ Spend(1)
        /\ roots' \in {roots, Put(roots, RootRecord(op.slot), op.root)}
        /\ op' = [op EXCEPT !.at = "rollback"]
  /\ Says(op.slot, "unknown", None)
  /\ UNCHANGED <<tombsDir, spool, mode, memoryVars, kills, recorded>>

(* The temporary name goes, and the root is visible to this process.        *)
PublishUnlink ==
  /\ At("unlink")
  /\ LET n == RootTemp(op.slot) IN
     \/ /\ roots' = Remove(roots, n)
        /\ UNCHANGED <<orphans, faults>>
     \/ /\ Spend(1)
        /\ roots' \in RemoveFailed(roots, n)
        /\ orphans' = orphans \union {n}
  /\ visible' = [visible EXCEPT ![op.slot] = [root |-> op.root, durable |-> FALSE]]
  /\ op' = [op EXCEPT !.at = "sync"]
  /\ UNCHANGED <<tombsDir, spool, mode, broken, tombs, verified, kills, obsVars>>

(* The directory synchronisation makes the record durable, or the instance  *)
(* answers Indeterminate and poisons itself.                                *)
PublishSync ==
  /\ At("sync")
  /\ \/ /\ roots' = Sync(roots)
        /\ visible' = [visible EXCEPT ![op.slot].durable = TRUE]
        /\ Says(op.slot, "durable", op.root)
        /\ UNCHANGED <<mode, faults>>
     \/ /\ Spend(1)
        /\ mode' = "poisoned"
        /\ UNCHANGED <<roots, visible, told>>
  /\ op' = Idle
  /\ UNCHANGED <<tombsDir, spool, broken, orphans, tombs, verified, kills, recorded>>

(* Seeded fault: the removal of a record that may have been linked is not   *)
(* synchronised before the failure is called final.                         *)
UndoneUnsynced(d, n) ==
  {[dir |-> Remove(d, n), clean |-> TRUE]}
  \union {[dir |-> e, clean |-> FALSE] : e \in RemoveFailed(d, n)}

(* The ways the removal of a record that was perhaps never linked ends: the *)
(* name is not there, or it is removed and the directory synchronised, or   *)
(* one of the two failed. A removal may fail whether the name is there or   *)
(* not.                                                                     *)
Undone(d, n) ==
  (IF d.now[n] = None THEN {[dir |-> d, clean |-> TRUE]}
   ELSE {[dir |-> Sync(Remove(d, n)), clean |-> TRUE],
         [dir |-> Remove(d, n), clean |-> FALSE]})
  \union {[dir |-> e, clean |-> FALSE] : e \in RemoveFailed(d, n)}

(* roll_back_failed_rename.                                                 *)
PublishRollBack ==
  /\ At("rollback")
  /\ \E u \in Undone(roots, RootRecord(op.slot)) :
       \/ /\ u.clean
          /\ \E r \in RemoveTemp(u.dir, RootTemp(op.slot)) :
               /\ roots' = r.dir
               /\ orphans' = orphans \union r.orphan
          /\ Says(op.slot, "absent", None)
          /\ op' = Idle
          /\ UNCHANGED <<mode, broken>>
       \/ /\ ~u.clean
          /\ roots' = u.dir
          /\ mode' = "poisoned"
          /\ broken' = broken \union {op.slot}
          /\ op' = [op EXCEPT !.at = "mark"]
          /\ UNCHANGED <<orphans, told>>
  /\ UNCHANGED <<tombsDir, spool, visible, tombs, verified, boundVars, recorded>>

(* record_indeterminate_marker, and the answer RootVisibilityIndeterminate. *)
PublishMark ==
  /\ At("mark")
  /\ \E k \in WriteMarker(roots, RootMark(op.slot)) :
       /\ roots' = k.dir
       /\ IF k.done THEN Says(op.slot, "marked", None) ELSE UNCHANGED told
  /\ op' = Idle
  /\ UNCHANGED <<tombsDir, spool, mode, memoryVars, boundVars, recorded>>

(* reverify_existing: the identical root is published again.                *)
Reverify(s) ==
  /\ Ready
  /\ Held(s)
  /\ LET m == visible[s].root IN
     /\ ReferencesOk(m) /\ m \in verified
     /\ roots.now[RootRecord(s)] = m
     /\ visible[s].durable
     /\ Says(s, "durable", m)
  /\ UNCHANGED <<diskVars, mode, op, memoryVars, boundVars, recorded>>

-----------------------------------------------------------------------------
(* Objects, retraction and deletion.                                        *)

(* stage_object and verify_object. A stage whose outcome is not known       *)
(* poisons the instance.                                                    *)
StageObject(o) ==
  /\ Ready
  /\ o \notin verified
  /\ \/ /\ spool' = spool \union {o}
        /\ verified' = verified \union {o}
        /\ UNCHANGED <<mode, faults>>
     \/ /\ Spend(1)
        /\ spool' \in {spool, spool \union {o}}
        /\ mode' = "poisoned"
        /\ UNCHANGED verified
  /\ UNCHANGED <<roots, tombsDir, op, visible, broken, orphans, tombs, kills, obsVars>>

(* retract_root, on the authority of some verified deletion record.         *)
RetractBegin(s) ==
  /\ Ready
  /\ Held(s) /\ verified # {}
  /\ Says(s, "unknown", None)
  /\ \/ /\ roots' = Remove(roots, RootRecord(s))
        /\ visible' = [visible EXCEPT ![s] = NoRoot]
        /\ op' = [at |-> "retract", slot |-> s]
        /\ UNCHANGED faults
     \/ /\ Spend(1)
        /\ roots' \in RemoveFailed(roots, RootRecord(s))
        /\ UNCHANGED <<visible, op>>
  /\ UNCHANGED <<tombsDir, spool, mode, broken, orphans, tombs, verified, kills, recorded>>

RetractSync ==
  /\ At("retract")
  /\ \/ /\ roots' = Sync(roots)
        /\ Says(op.slot, "absent", None)
        /\ UNCHANGED <<mode, faults>>
     \/ /\ Spend(1)
        /\ mode' = "poisoned"
        /\ UNCHANGED <<roots, told>>
  /\ op' = Idle
  /\ UNCHANGED <<tombsDir, spool, memoryVars, kills, recorded>>

(* The check remove_deleted_object and record_tombstone share.              *)
Deletable(o) == o \notin Reachable

(* remove_deleted_object; a failure of unknown effect poisons the spool,    *)
(* which then serves no reference any more.                                 *)
DeleteObject(o) ==
  /\ Ready
  /\ o \in spool
  /\ verified \ {o} # {}
  /\ Deletable(o)
  /\ \/ /\ spool' = spool \ {o}
        /\ verified' = verified \ {o}
        /\ UNCHANGED <<mode, faults>>
     \/ /\ Spend(1)
        /\ spool' \in {spool, spool \ {o}}
        /\ mode' = "spoolPoisoned"
        /\ UNCHANGED verified
  /\ UNCHANGED <<roots, tombsDir, op, visible, broken, orphans, tombs, kills, obsVars>>

-----------------------------------------------------------------------------
(* Tombstones.                                                              *)

(* record_tombstone up to the creation of the temporary record, which may   *)
(* fail and still leave the file.                                           *)
TombstoneBegin(o) ==
  /\ Ready
  /\ o \notin tombs
  /\ verified # {}
  /\ Cardinality(tombs) < MaxTombs
  /\ TombTemp(o) \notin orphans
  /\ tombsDir.now[TombTemp(o)] = None
  /\ Deletable(o)
  /\ tombsDir' = Put(tombsDir, TombTemp(o), Torn)
  /\ \/ op' = [at |-> "tombWrite", object |-> o] /\ UNCHANGED faults
     \/ UNCHANGED op /\ Spend(1)
  /\ UNCHANGED <<roots, spool, mode, memoryVars, kills, obsVars>>

TombstoneWrite ==
  /\ At("tombWrite")
  /\ LET n == TombTemp(op.object)
         d == Put(tombsDir, n, op.object) IN
     \/ /\ tombsDir' = Sync(d)
        /\ op' = [op EXCEPT !.at = "tombRename"]
        /\ UNCHANGED <<orphans, faults>>
     \/ \E w \in {tombsDir, d} : \E r \in RemoveTemp(w, n) :
          /\ Spend(1)
          /\ tombsDir' = r.dir
          /\ orphans' = orphans \union r.orphan
          /\ op' = Idle
  /\ UNCHANGED <<roots, spool, mode, visible, broken, tombs, verified, kills, obsVars>>

TombstoneRename ==
  /\ At("tombRename")
  /\ LET o == op.object
         moved == Remove(Put(tombsDir, Tomb(o), o), TombTemp(o)) IN
     /\ tombsDir.now[Tomb(o)] = None
     /\ \/ /\ tombsDir' = moved
           /\ op' = [op EXCEPT !.at = "tombSync"]
           /\ UNCHANGED faults
        \/ /\ Spend(1)
           /\ tombsDir' \in {tombsDir, moved}
           /\ op' = [op EXCEPT !.at = "tombRollback"]
  /\ UNCHANGED <<roots, spool, mode, memoryVars, kills, obsVars>>

(* Seeded fault: the directory is not synchronised.                         *)
TombstoneSyncSkipped ==
  /\ At("tombSync")
  /\ tombs' = tombs \union {op.object}
  /\ recorded' = recorded \union {op.object}
  /\ op' = Idle
  /\ UNCHANGED <<diskVars, mode, visible, broken, orphans, verified, boundVars, told>>

TombstoneSync ==
  /\ At("tombSync")
  /\ \/ /\ tombsDir' = Sync(tombsDir)
        /\ tombs' = tombs \union {op.object}
        /\ recorded' = recorded \union {op.object}
        /\ op' = Idle
        /\ UNCHANGED <<mode, faults>>
     \/ /\ Spend(1)
        /\ mode' = "poisoned"
        /\ op' = [op EXCEPT !.at = "tombUndo"]
        /\ UNCHANGED <<tombsDir, tombs, recorded>>
  /\ UNCHANGED <<roots, spool, visible, broken, orphans, verified, kills, told>>

(* The tombstone is taken back: after a failed synchronisation (the answer  *)
(* is Indeterminate in any case), or by roll_back_failed_tombstone_rename.  *)
TombstoneUndo ==
  /\ At("tombUndo") \/ At("tombRollback")
  /\ \E u \in Undone(tombsDir, Tomb(op.object)) :
       \/ /\ u.clean /\ op.at = "tombUndo"
          /\ tombsDir' = u.dir
          /\ op' = Idle
          /\ UNCHANGED <<mode, orphans>>
       \/ /\ u.clean /\ op.at = "tombRollback"
          /\ \E r \in RemoveTemp(u.dir, TombTemp(op.object)) :
               /\ tombsDir' = r.dir
               /\ orphans' = orphans \union r.orphan
          /\ op' = Idle
          /\ UNCHANGED mode
       \/ /\ ~u.clean
          /\ tombsDir' = u.dir
          /\ mode' = "poisoned"
          /\ op' = [op EXCEPT !.at = "tombMark"]
          /\ UNCHANGED orphans
  /\ UNCHANGED <<roots, spool, visible, broken, tombs, verified, boundVars, obsVars>>

(* record_indeterminate_tombstone_marker.                                   *)
TombstoneMark ==
  /\ At("tombMark")
  /\ \E k \in WriteMarker(tombsDir, TombMark(op.object)) :
       /\ tombsDir' = k.dir
       /\ op' = IF k.done THEN Idle ELSE [op EXCEPT !.at = "tombSpoil"]
  /\ UNCHANGED <<roots, spool, mode, memoryVars, boundVars, obsVars>>

(* The last resort: the record is overwritten so that no open accepts it. A *)
(* file that is still there is spoiled for good; one that was removed is    *)
(* created anew, and the old one may still return.                          *)
TombstoneSpoil ==
  /\ At("tombSpoil")
  /\ LET n == Tomb(op.object)
         d == Put(tombsDir, n, Torn) IN
     \/ tombsDir' = IF tombsDir.now[n] = None THEN d
                    ELSE [d EXCEPT !.may[n] = @ \ {op.object}]
     \/ tombsDir' \in {tombsDir, d}
  /\ op' = Idle
  /\ UNCHANGED <<roots, spool, mode, memoryVars, boundVars, obsVars>>

-----------------------------------------------------------------------------
(* Orphaned temporary records.                                              *)

RemoveAll(d, names) ==
  [now |-> [n \in DOMAIN d.now |-> IF n \in names THEN None ELSE d.now[n]],
   may |-> [n \in DOMAIN d.may |-> IF n \in names THEN d.may[n] \union {None} ELSE d.may[n]]]

(* discard_orphaned_temps: every orphan goes and both directories are       *)
(* synchronised, or it stops at the first failure.                          *)
DiscardTemps ==
  /\ mode \in {"live", "spoolPoisoned"} /\ op = Idle
  /\ orphans # {}
  /\ \/ \E stop \in 0 .. 2 :
          LET r == RemoveAll(roots, orphans)
              t == RemoveAll(tombsDir, orphans) IN
          /\ Spend(IF stop = 2 THEN 0 ELSE 1)
          /\ roots' = IF stop >= 1 THEN Sync(r) ELSE r
          /\ tombsDir' = IF stop = 2 THEN Sync(t) ELSE t
          /\ orphans' = {}
     \/ \E gone \in SUBSET orphans : \E last \in orphans \ gone :
        \E effect \in {gone, gone \union {last}} :
          /\ Spend(1)
          /\ roots' = RemoveAll(roots, effect)
          /\ tombsDir' = RemoveAll(tombsDir, effect)
          /\ orphans' = orphans \ gone
  /\ UNCHANGED <<spool, mode, op, visible, broken, tombs, verified, kills, obsVars>>

(* discard_orphaned_root_temp_for: the temporary record is provably an      *)
(* attempt to publish this root.                                            *)
DiscardRootTempFor(s, m) ==
  /\ mode \in {"live", "spoolPoisoned"} /\ op = Idle
  /\ RootTemp(s) \in orphans
  /\ ~Held(s) /\ s \notin broken
  /\ roots.now[RootTemp(s)] = m
  /\ \E r \in RemoveTemp(roots, RootTemp(s)) :
       /\ Spend(r.fault)
       /\ roots' = r.dir
       /\ orphans' = IF r.fault = 0 THEN orphans \ {RootTemp(s)} ELSE orphans
  /\ UNCHANGED <<tombsDir, spool, mode, op, visible, broken, tombs, verified, kills, obsVars>>

-----------------------------------------------------------------------------
(* Death, power loss and reopening.                                         *)

Forgotten ==
  /\ op' = Idle
  /\ visible' = [s \in Slots |-> NoRoot]
  /\ broken' = {} /\ orphans' = {} /\ tombs' = {} /\ verified' = {}

(* The process ends; the file system keeps what it was told.                *)
Kill ==
  /\ mode # "down" /\ kills < MaxKills
  /\ kills' = kills + 1
  /\ mode' = "down"
  /\ Forgotten
  /\ UNCHANGED <<diskVars, faults, obsVars>>

(* The states a directory can be in after a power loss.                     *)
AfterPowerLoss(d) ==
  LET open == {n \in DOMAIN d.may : Cardinality(d.may[n]) > 1}
      picks == {f \in [open -> UNION {d.may[n] : n \in open}] : \A n \in open : f[n] \in d.may[n]} IN
  {Sync([d EXCEPT !.now = [n \in DOMAIN d.now |-> IF n \in open THEN f[n] ELSE d.now[n]]])
     : f \in picks}

LosePower ==
  /\ mode = "down"
  /\ roots' \in AfterPowerLoss(roots)
  /\ tombsDir' \in AfterPowerLoss(tombsDir)
  /\ UNCHANGED <<spool, mode, op, memoryVars, boundVars, obsVars>>

OnDisk == {s \in Slots : roots.now[RootRecord(s)] # None}
RecordOf(s) == roots.now[RootRecord(s)]
EntombedOnDisk == {o \in Objects : tombsDir.now[Tomb(o)] # None}
Blocked(o) == o \in EntombedOnDisk \/ o \notin spool

(* Seeded fault: markers are ignored.                                       *)
CandidatesUnmarked == {s \in OnDisk : ~Blocked(RecordOf(s))}

(* The records whose manifest can be read, less the marked slots.           *)
Candidates == {s \in OnDisk : ~Blocked(RecordOf(s)) /\ roots.now[RootMark(s)] = None}

(* Every reference of the record in s stands when exactly A is admitted:    *)
(* none is blocked, and none is the root of a record that is not admitted.  *)
Stands(s, A) ==
  \A o \in Closure({RecordOf(t) : t \in A}, RecordOf(s)) \ {RecordOf(s)} :
    ~Blocked(o) /\ o \notin {RecordOf(t) : t \in OnDisk \ A}

(* classify_roots discards candidates until all that are left stand, which  *)
(* is the largest set that does.                                            *)
Admitted == UNION {A \in SUBSET Candidates : \A s \in A : Stands(s, A)}

Admit(s, synced) ==
  IF s \in Admitted THEN [root |-> RecordOf(s), durable |-> synced] ELSE NoRoot

(* open_through and recover. A marked or spoiled tombstone fails the open.  *)
(* A temporary record next to its target is removed. A failed               *)
(* synchronisation does not fail the open.                                  *)
Open ==
  /\ mode = "down"
  /\ \A o \in Objects : tombsDir.now[TombMark(o)] = None /\ tombsDir.now[Tomb(o)] # Torn
  /\ Cardinality(EntombedOnDisk) <= MaxTombs /\ Cardinality(Admitted) <= MaxRoots
  /\ LET temps == {RootTemp(s) : s \in {t \in Slots : roots.now[RootTemp(t)] # None}}
         redundant == {n \in temps : n[1] \in OnDisk} IN
     \E kept \in SUBSET redundant : \E rootsSynced, tombsSynced \in BOOLEAN :
       LET d == RemoveAll(roots, redundant \ kept) IN
       /\ Spend(IF kept = {} /\ rootsSynced /\ tombsSynced THEN 0 ELSE 1)
       /\ roots' = IF rootsSynced THEN Sync(d) ELSE d
       /\ tombsDir' = IF tombsSynced THEN Sync(tombsDir) ELSE tombsDir
       /\ orphans' = (temps \ (redundant \ kept))
                     \union {TombTemp(o) : o \in {p \in Objects : tombsDir.now[TombTemp(p)] # None}}
       /\ visible' = [s \in Slots |-> Admit(s, rootsSynced)]
  /\ broken' = (OnDisk \ Admitted) \union {s \in Slots : roots.now[RootMark(s)] # None}
  /\ tombs' = EntombedOnDisk
  /\ verified' = (spool \ EntombedOnDisk) \intersect
       ({RecordOf(s) : s \in OnDisk}
        \union UNION {Closure({RecordOf(t) : t \in Candidates}, RecordOf(s)) : s \in Candidates})
  /\ mode' = "live"
  /\ UNCHANGED <<spool, op, kills, obsVars>>

-----------------------------------------------------------------------------
Init ==
  /\ roots = EmptyDir(RootNames) /\ tombsDir = EmptyDir(TombNames)
  /\ spool = {}
  /\ mode = "live" /\ op = Idle
  /\ visible = [s \in Slots |-> NoRoot]
  /\ broken = {} /\ orphans = {} /\ tombs = {} /\ verified = {}
  /\ faults = 0 /\ kills = 0
  /\ told = [s \in Slots |-> [says |-> "absent", root |-> None]]
  /\ recorded = {}

Next ==
  \/ \E s \in Slots, m \in Manifests : PublishBegin(s, m) \/ DiscardRootTempFor(s, m)
  \/ PublishWrite \/ PublishCancel \/ PublishLink \/ PublishUnlink \/ PublishSync
  \/ PublishRollBack \/ PublishMark
  \/ \E s \in Slots : Reverify(s) \/ RetractBegin(s)
  \/ RetractSync
  \/ \E o \in Objects : StageObject(o) \/ DeleteObject(o)
  \/ \E o \in Doomed : TombstoneBegin(o)
  \/ TombstoneWrite \/ TombstoneRename \/ TombstoneSync
  \/ TombstoneUndo \/ TombstoneMark \/ TombstoneSpoil
  \/ DiscardTemps
  \/ Kill \/ LosePower \/ Open

Spec == Init /\ [][Next]_vars

-----------------------------------------------------------------------------
(* Properties.                                                              *)

Dirs(names) == [now : [names -> Objects \union {None, Torn}],
                may : [names -> SUBSET (Objects \union {None, Torn})]]

(* Every variable has its type, every name of a directory may keep the      *)
(* value that is read now, and nothing is verified that is not in custody   *)
(* while the spool is sound.                                                *)
TypeOK ==
  /\ roots \in Dirs(RootNames) /\ tombsDir \in Dirs(TombNames)
  /\ \A n \in RootNames : roots.now[n] \in roots.may[n]
  /\ \A n \in TombNames : tombsDir.now[n] \in tombsDir.may[n]
  /\ mode \in {"live", "spoolPoisoned", "poisoned", "down"}
  /\ visible \in [Slots -> [root : Manifests \union {None}, durable : BOOLEAN]]
  /\ broken \subseteq Slots /\ orphans \subseteq RootNames \union TombNames
  /\ tombs \subseteq Objects /\ spool \subseteq Objects
  /\ verified \subseteq Objects /\ recorded \subseteq Objects
  /\ (mode = "live" => verified \subseteq spool)
  /\ told \in [Slots -> [says : {"durable", "absent", "marked", "unknown"},
                        root : Manifests \union {None}]]
  /\ faults \in 0 .. MaxFaults /\ kills \in 0 .. MaxKills

(* A slot whose last answer was a Durable receipt keeps its record through  *)
(* every crash: whatever synchronisations failed before and after, no power *)
(* loss can take it away or change it until a retraction is asked for. And  *)
(* a slot whose publication failed, was cancelled, died before the commit   *)
(* point, or was retracted for certain has no record that a power loss      *)
(* could bring back (publish_cancellable, roll_back_failed_rename,          *)
(* retract_root, recover).                                                  *)
AnswersSurvive ==
  \A s \in Slots :
    /\ told[s].says = "durable" => roots.may[RootRecord(s)] = {told[s].root}
    /\ told[s].says = "absent" => roots.may[RootRecord(s)] = {None}

(* Root-last: whatever is reachable from the roots an instance serves is in *)
(* custody, verified and not tombstoned, across publications, retractions,  *)
(* tombstones, deletions and recoveries in any order. (An instance whose    *)
(* spool is poisoned serves no reference.)                                  *)
AdmittedIsWhole ==
  mode = "live" =>
    \A s \in HeldSlots :
      Closure({visible[t].root : t \in HeldSlots}, visible[s].root) \subseteq verified \ tombs

(* The parts that make these inductive. First, the operation under way and  *)
(* the mode it can be met in: no step of an operation is left to an         *)
(* instance that poisoned itself, but the ones that clean up after it.      *)
OpInMode ==
  \/ op = Idle
  \/ /\ mode = "live"
     /\ \/ op \in [at : {"write", "temp", "unlink", "sync", "rollback"}, slot : Slots, root : Manifests]
        \/ op \in [at : {"retract"}, slot : Slots]
        \/ op \in [at : {"tombWrite", "tombRename", "tombSync", "tombRollback"}, object : Objects]
  \/ /\ mode = "poisoned"
     /\ \/ op \in [at : {"mark"}, slot : Slots, root : Manifests]
        \/ op \in [at : {"tombUndo", "tombMark", "tombSpoil"}, object : Objects]

(* A name whose value no power loss can change.                             *)
Firm(d, n) == d.may[n] = {d.now[n]}

(* How far the operation on a slot got, on disk and in memory.              *)
SlotInHand ==
  LET s == op.slot
      n == RootRecord(op.slot) IN
  /\ op.at \in {"write", "temp", "unlink", "rollback"} => ~Held(s) /\ s \notin broken
  /\ op.at \in {"write", "temp"} => told[s].says # "marked" /\ roots.now[n] = None
  /\ op.at \in {"unlink", "sync", "rollback", "mark", "retract"} => told[s].says = "unknown"
  /\ op.at = "temp" => Firm(roots, n)
  /\ op.at \in {"unlink", "sync"} => roots.now[n] = op.root
  /\ op.at = "unlink" => ReferencesOk(op.root) /\ op.root \in verified
  /\ op.at = "sync" => visible[s] = [root |-> op.root, durable |-> FALSE]
  /\ op.at = "rollback" => roots.now[n] # None \/ Firm(roots, n)
  /\ op.at = "mark" => ~Held(s) /\ s \in broken
  /\ op.at = "retract" => ~Held(s) /\ roots.now[n] = None

(* How far the recording of a tombstone got.                                *)
TombInHand ==
  LET o == op.object IN
  /\ op.at \in {"tombWrite", "tombRename", "tombSync"} => o \notin Reachable
  /\ op.at \in {"tombSync", "tombRollback", "tombUndo", "tombMark", "tombSpoil"} => o \notin recorded
  /\ op.at = "tombSync" => tombsDir.now[Tomb(o)] = o

(* What the names of the two directories can hold.                          *)
NamesHold ==
  /\ \A n \in orphans : n[2] = "tmp"
  /\ \A s \in Slots : /\ roots.may[RootRecord(s)] \subseteq Manifests \union {None}
                      /\ roots.may[RootMark(s)] \subseteq {None, Torn}

(* A live instance knows every record, a root it calls durable is one no    *)
(* power loss can take, unless a retraction already removed it, and a dead  *)
(* process serves nothing.                                                  *)
RecordsKnown ==
  \A s \in Slots :
    /\ mode = "down" => ~Held(s)
    /\ mode = "live" /\ roots.now[RootRecord(s)] # None =>
         Held(s) \/ s \in broken \/ (op.at \in {"unlink", "rollback"} /\ op.slot = s)
    /\ visible[s].durable =>
         /\ Held(s)
         /\ roots.now[RootRecord(s)] # None =>
              Firm(roots, RootRecord(s)) /\ roots.now[RootRecord(s)] = visible[s].root
    /\ told[s].says = "marked" => roots.may[RootMark(s)] = {Torn}

(* The invariant of the publisher: its types and the above.                 *)
PublicationInv ==
  /\ TypeOK /\ AdmittedIsWhole
  /\ OpInMode /\ SlotInHand /\ TombInHand /\ NamesHold /\ RecordsKnown

(* A slot that was answered RootVisibilityIndeterminate with its marker     *)
(* written is never served again, by any instance, however the link and its *)
(* removal really ended.                                                    *)
MarkedStaysBroken ==
  \A s \in Slots : told[s].says = "marked" =>
    /\ ~Held(s)
    /\ mode = "live" => s \in broken

(* A tombstone answered Recorded holds for ever: no power loss removes it,  *)
(* and no instance serves a root that reaches its object.                   *)
RecordedBlocks ==
  \A o \in recorded :
    /\ tombsDir.may[Tomb(o)] = {o}
    /\ mode = "live" => o \in tombs /\ o \notin Reachable
=============================================================================
