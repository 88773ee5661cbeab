---------------------------- MODULE DurableLedger ----------------------------
(***************************************************************************)
(* DurableReferenceLedger (crates/fss-ledger/src/durable.rs) around the     *)
(* ReferenceLedger of crates/fss-core/src/evidence.rs: one handle, many     *)
(* clients that prepare batches against a snapshot and submit them later,   *)
(* again, or never. The journal underneath is CommitLog, which module       *)
(* Journal implements.                                                      *)
(*                                                                          *)
(* Digests are modelled as injective: a state root IS the object map, and a *)
(* batch is its own digest.                                                 *)
(***************************************************************************)
EXTENDS Naturals, Sequences, FiniteSets, SequencesExt

CONSTANTS
  BatchIds, Objects, Contents,
  Inverted,     (* the contents whose validity interval ends before it starts *)
  Sealed,       (* the objects of the sealed publication-lineage namespace  *)
  MaxPrepared   (* bound on the batches clients prepare                     *)

ASSUME LedgerAssumption ==
  /\ Sealed \subseteq Objects /\ Objects # {}
  /\ Inverted \subseteq Contents
  /\ MaxPrepared \in Nat

VARIABLES
  history, attempt, acked, retracted,  (* the journal: see CommitLog        *)
  ledger,       (* DurableReferenceLedger.ledger                            *)
  identities,   (* DurableReferenceLedger.identities                        *)
  candidate,    (* pending.candidate, NoLedger when nothing is pending      *)
  handle,       (* "closed", "open", or "call" inside journal.append        *)
  prepared      (* the batches clients hold                                 *)

logVars    == <<history, attempt, acked, retracted>>
handleVars == <<ledger, identities, candidate, handle>>
vars       == <<logVars, handleVars, prepared>>

-----------------------------------------------------------------------------
(* ReferenceLedger. An object that does not exist has generation 0.         *)

Unwritten == [generation |-> 0, content |-> "none"]
Revisions == [generation : Nat, content : Contents \cup {"none"}]
Roots     == [Objects -> Revisions]
Anchors   == [sequence : Nat, root : Roots]
Deltas    == UNION {[D -> [prior : 0 .. MaxPrepared, content : Contents]] :
                      D \in SUBSET Objects \ {{}}}
Batches   == [id : BatchIds, basis : Anchors, new : Anchors, deltas : Deltas,
              seal : BOOLEAN]

Log == INSTANCE CommitLog WITH Payloads <- Batches

Ledgers  == [batches : Seq(Batches), anchor : Anchors]
NoLedger == [batches |-> <<>>, anchor |-> [sequence |-> 0, root |-> <<>>]]
Genesis  == [batches |-> <<>>,
             anchor |-> [sequence |-> 0, root |-> [o \in Objects |-> Unwritten]]]

(* apply_deltas: every delta must continue the generation it names.         *)
DeltasApply(root, d) == \A o \in DOMAIN d : d[o].prior = root[o].generation

ApplyDeltas(root, d) ==
  [o \in Objects |->
     IF o \in DOMAIN d
     THEN [generation |-> d[o].prior + 1, content |-> d[o].content]
     ELSE root[o]]

(* committed_batches of the ledger, and the index the durable wrapper keeps *)
(* beside it: the content committed under each identity.                    *)
IdentityIndex(batches) ==
  [id \in {batches[i].id : i \in DOMAIN batches} |->
     batches[CHOOSE i \in DOMAIN batches :
               batches[i].id = id /\ \A j \in i + 1 .. Len(batches) : batches[j].id # id]]

(* Seeded fault: a reused identity is not noticed.                          *)
ReuseUnnoticed(index, b) == TRUE

NotReused(index, b) == b.id \in DOMAIN index => index[b.id] = b

(* Seeded fault: the basis is compared by sequence number only.             *)
AnchorSequenceOnly(l, b) ==
  /\ NotReused(IdentityIndex(l.batches), b)
  /\ b.basis.sequence = l.anchor.sequence
  /\ b.new.sequence = b.basis.sequence + 1

(* ReferenceLedger::append: the checks, then the successor it publishes.    *)
CanAppend(l, b) ==
  /\ NotReused(IdentityIndex(l.batches), b)
  /\ b.basis = l.anchor
  /\ b.new.sequence = b.basis.sequence + 1
  /\ DeltasApply(l.anchor.root, b.deltas)
  /\ b.new.root = ApplyDeltas(l.anchor.root, b.deltas)

AppendBatch(l, b) == [batches |-> Append(l.batches, b), anchor |-> b.new]

(* decode_batch gives back what encode_batch wrote, with one exception: it  *)
(* rebuilds every validity interval with CaptureInterval::new, which        *)
(* refuses an inverted one, while encode_batch writes the interval's two    *)
(* public fields unseen.                                                    *)
Decodes(b) == \A o \in DOMAIN b.deltas : b.deltas[o].content \notin Inverted

(* replay_report: every record is decoded and goes through the checks of a  *)
(* live append; a record that fails makes the whole replay fail (NoLedger). *)
ReplayStep(l, b) ==
  IF l # NoLedger /\ Decodes(b) /\ b.new.sequence = Len(l.batches) + 1 /\ CanAppend(l, b)
  THEN AppendBatch(l, b) ELSE NoLedger

Replay(records) ==
  LET after[n \in 0 .. Len(records)] ==
        IF n = 0 THEN Genesis ELSE ReplayStep(after[n - 1], records[n])
  IN after[Len(records)]

-----------------------------------------------------------------------------
TypeOK ==
  /\ Log!LogTypeOK
  /\ ledger \in Ledgers /\ candidate \in Ledgers \cup {NoLedger}
  /\ DOMAIN identities \subseteq BatchIds
  /\ handle \in {"closed", "open", "call"}
  /\ prepared \subseteq Batches

Init ==
  /\ Log!LogInit
  /\ ledger = Genesis /\ identities = IdentityIndex(<<>>) /\ candidate = NoLedger
  /\ handle = "closed" /\ prepared = {}

(* DurableReferenceLedger::open: replay what the journal recovered, refuse  *)
(* to open when the replay fails.                                           *)
Open ==
  /\ handle = "closed"
  /\ Replay(history) # NoLedger
  /\ ledger' = Replay(history)
  /\ identities' = IdentityIndex(history)
  /\ candidate' = NoLedger
  /\ handle' = "open"
  /\ UNCHANGED <<logVars, prepared>>

(* prepare_batch: allowed while an append is pending; the batch is built on *)
(* the snapshot of this moment.                                             *)
PrepareBatch(id, d, seal) ==
  /\ handle = "open"
  /\ Cardinality(prepared) < MaxPrepared
  /\ DeltasApply(ledger.anchor.root, d)
  /\ prepared' = prepared \cup
       {[id |-> id, basis |-> ledger.anchor, deltas |-> d, seal |-> seal,
         new |-> [sequence |-> ledger.anchor.sequence + 1,
                  root |-> ApplyDeltas(ledger.anchor.root, d)]]}
  /\ UNCHANGED <<logVars, handleVars>>

(* The namespace gate: append takes no sealed object, and                   *)
(* __append_sealed_lineage_batch takes nothing else, and only with a seal.  *)
Admitted(b) ==
  \/ DOMAIN b.deltas \cap Sealed = {}
  \/ DOMAIN b.deltas \subseteq Sealed /\ b.seal

(* Seeded fault: the batch is journalled before the core ledger saw it.     *)
AppendUnchecked(b) ==
  /\ handle = "open" /\ candidate = NoLedger
  /\ Admitted(b)
  /\ NotReused(identities, b)
  /\ Log!LogBegin(b)
  /\ candidate' = AppendBatch(ledger, b)
  /\ handle' = "call"
  /\ UNCHANGED <<ledger, identities, prepared>>

(* append_checked up to the journal's first write. The candidate is local   *)
(* to the call until the journal answers; the model keeps it in `candidate'.*)
AppendChecked(b) ==
  /\ handle = "open" /\ candidate = NoLedger
  /\ Admitted(b)
  /\ NotReused(identities, b)
  /\ CanAppend(ledger, b)
  /\ Log!LogBegin(b)
  /\ candidate' = AppendBatch(ledger, b)
  /\ handle' = "call"
  /\ UNCHANGED <<ledger, identities, prepared>>

(* Inside the call the record may reach the file.                           *)
RecordWritten ==
  /\ handle = "call"
  /\ Log!LogAppear
  /\ UNCHANGED <<handleVars, prepared>>

(* Seeded fault: the identity index is not extended.                        *)
InstallWithoutIdentity ==
  /\ ledger' = candidate
  /\ candidate' = NoLedger
  /\ UNCHANGED identities

(* What append and reconcile_pending do with a committed candidate.         *)
Install ==
  LET b == Last(candidate.batches) IN
  /\ ledger' = candidate
  /\ identities' = [id \in DOMAIN identities \cup {b.id} |->
                      IF id = b.id THEN b ELSE identities[id]]
  /\ candidate' = NoLedger

AppendOk ==
  /\ handle = "call"
  /\ Log!LogAck
  /\ Install
  /\ handle' = "open"
  /\ UNCHANGED prepared

(* AppendIndeterminate: the candidate is retained, nothing is exposed.      *)
AppendIndeterminate ==
  /\ handle = "call"
  /\ handle' = "open"
  /\ UNCHANGED <<logVars, ledger, identities, candidate, prepared>>

(* reconcile_pending.                                                       *)
ReconcileCommitted ==
  /\ handle = "open" /\ candidate # NoLedger
  /\ Log!LogAck
  /\ Install
  /\ UNCHANGED <<handle, prepared>>

ReconcileNotCommitted ==
  /\ handle = "open" /\ candidate # NoLedger
  /\ Log!LogRetract
  /\ candidate' = NoLedger
  /\ UNCHANGED <<ledger, identities, handle, prepared>>

Reset ==
  /\ ledger' = Genesis /\ identities' = IdentityIndex(<<>>)
  /\ candidate' = NoLedger /\ handle' = "closed"

(* The process dies, or the machine loses power; clients keep their batches.*)
ProcessDeath ==
  /\ handle # "closed"
  /\ Log!LogForget /\ Reset
  /\ UNCHANGED prepared

PowerLoss ==
  /\ Log!LogCrash /\ Reset
  /\ UNCHANGED prepared

Next ==
  \/ Open
  \/ \E id \in BatchIds, d \in Deltas, s \in BOOLEAN : PrepareBatch(id, d, s)
  \/ \E b \in prepared : AppendChecked(b)
  \/ RecordWritten \/ AppendOk \/ AppendIndeterminate
  \/ ReconcileCommitted \/ ReconcileNotCommitted
  \/ ProcessDeath \/ PowerLoss

Spec == Init /\ [][Next]_vars

-----------------------------------------------------------------------------
(* Properties.                                                              *)

Readable(records) == \A i \in DOMAIN records : Decodes(records[i])

(* The store opens again exactly when every record of it decodes: on every  *)
(* history that crashes can leave, with or without the record whose append  *)
(* never returned, the checks replay_report makes after decoding agree with *)
(* those of the live append, and an interval append_checked took without a  *)
(* look is the one thing that shuts the store for good.                     *)
HistoryReplays == Replay(history) # NoLedger <=> Readable(history)

(* An open handle serves exactly the journal's history, without the record  *)
(* of an append that is in flight or unresolved; its identity index is the  *)
(* one a restart would rebuild, and so is the whole ledger as long as the   *)
(* records decode (what verify_storage compares).                           *)
ServesReplayedHistory ==
  handle # "closed" =>
    LET known == IF attempt = <<>> THEN history ELSE Front(attempt) IN
    /\ ledger.batches = known
    /\ identities = IdentityIndex(known)
    /\ Readable(known) => ledger = Replay(known)

(* No handle forgets a batch that any handle before it reported committed,  *)
(* whatever deaths and power losses lie between.                            *)
ServesAcknowledged == handle # "closed" => IsPrefix(acked, ledger.batches)

(* The invariant of the handle: its types and the above.                    *)
LedgerInv == TypeOK /\ ServesReplayedHistory /\ ServesAcknowledged

(* Exactly once: a stable batch identity is committed by one record, even   *)
(* when the client submits the batch again after an unknown outcome, after  *)
(* a restart, or together with another batch that reuses the identity.      *)
OneRecordPerIdentity ==
  \A i, j \in DOMAIN history : history[i].id = history[j].id => i = j

(* No lost update: the generation of an object counts the records that      *)
(* wrote it, although batches are prepared against snapshots that may be    *)
(* stale, or gone, by the time they are submitted.                          *)
GenerationsCountWrites ==
  handle # "closed" =>
    \A o \in Objects :
      ledger.anchor.root[o].generation =
        Cardinality({i \in DOMAIN ledger.batches : o \in DOMAIN ledger.batches[i].deltas})

=============================================================================
