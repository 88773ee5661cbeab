------------------------------- MODULE Journal -------------------------------
(***************************************************************************)
(* The crash-classifying append journal of crates/fss-ledger: one file, one *)
(* writing handle (Journal), and the operator's repair tool (doctor, plan,  *)
(* apply).                                                                  *)
(*                                                                          *)
(* The file is a sequence of cells. A record takes four of them, in the     *)
(* order the code writes them: header and payload (the body, synchronised   *)
(* first), then commit magic and root (the trailer). SHA-256 is modelled    *)
(* as injective: the root of a record IS the sequence of payloads up to and *)
(* including it, so a root also tells the sequence number (its length) and  *)
(* the previous root (its front).                                           *)
(*                                                                          *)
(* `file' is what a reader sees (the page cache), `disk' is what survives a *)
(* power loss for certain.                                                  *)
(***************************************************************************)
EXTENDS Naturals, Sequences, FiniteSets, SequencesExt

CONSTANTS
  Payloads,     (* what callers append                                      *)
  MaxCells,     (* bound on the length foreign bytes may give the file      *)
  MaxForeign,   (* bound on the worthless cells up to which they are added  *)
  MaxRepairs,   (* bound on the number of quarantine sidecars               *)
  MaxRot        (* bound on the number of cells that decay                  *)

ASSUME JournalAssumption ==
  MaxCells \in Nat /\ MaxForeign \in Nat /\ MaxRepairs \in Nat /\ MaxRot \in Nat

VARIABLES
  file, disk,
  phase,        (* where the handle is: closed, idle, or inside append      *)
  lastRoot,     (* Journal.last_root; next_sequence is its length plus one  *)
  committedLen, (* Journal.committed_len                                    *)
  pending,      (* root of the unresolved append, <<>> when there is none   *)
  plan,         (* the sealed repair plan, NoPlan when there is none        *)
  sidecars,     (* number of quarantine sidecars that repairs wrote         *)
  (* Observations, used by the properties only.                             *)
  acked,        (* root of the last append reported as committed            *)
  retracted,    (* roots of the appends reported as not committed           *)
  decay,        (* the records of `acked' hit by decay since, and how       *)
  rots          (* number of cells that decayed                             *)

fileVars   == <<file, disk>>
handleVars == <<phase, lastRoot, committedLen, pending>>
repairVars == <<plan, sidecars>>
obsVars    == <<acked, retracted, decay, rots>>
vars       == <<fileVars, handleVars, repairVars, obsVars>>

-----------------------------------------------------------------------------
(* Framing.                                                                 *)

Roots == Seq(Payloads)
Cells == {"header", "long", "payload", "magic", "root", "junk"} \X Roots

Header(r)  == <<"header", r>>
Payload(r) == <<"payload", <<r[Len(r)]>>>>
Magic      == <<"magic", <<>>>>
Root(r)    == <<"root", r>>
Junk       == <<"junk", <<>>>>

(* A header whose payload_len decayed to one beyond the end of the file but *)
(* within MAX_RECORD_PAYLOAD_BYTES. (Any other decay of a header makes it   *)
(* fail a check once the record is read whole: it is junk.)                 *)
Long(r) == <<"long", r>>

PreviousRoot(r) == SubSeq(r, 1, Len(r) - 1)

RecordCells == 4
Body(r)     == <<Header(r), Payload(r)>>
Trailer(r)  == <<Magic, Root(r)>>

Take(s, n) == SubSeq(s, 1, n)
Drop(s, n) == SubSeq(s, n + 1, Len(s))

(* The file after `cells' were written at offset `at'.                      *)
WriteAt(f, at, cells) == Take(f, at) \o cells \o Drop(f, at + Len(cells))

-----------------------------------------------------------------------------
(* recover_bytes and doctor: both walk the records from the start of the    *)
(* file and stop at the first that is not whole. They differ in what they   *)
(* call a rest that is not a torn record: an error for the first, foreign   *)
(* bytes for the second.                                                    *)

RootAfter(f, n) == IF n = 0 THEN <<>> ELSE f[RecordCells * n][2]

(* Cell 4n-3 is a header, of the given tag, that continues record n-1.      *)
Continues(f, n, tag) ==
  LET c == f[RecordCells * n - 3] IN
  /\ c[1] = tag
  /\ c[2] # <<>>
  /\ Len(c[2]) = n
  /\ PreviousRoot(c[2]) = RootAfter(f, n - 1)

HeaderAt(f, n) == Continues(f, n, "header")

RecordAt(f, n) ==
  LET r == f[RecordCells * n - 3][2] IN
  /\ HeaderAt(f, n)
  /\ SubSeq(f, RecordCells * n - 2, RecordCells * n) =
       <<Payload(r)>> \o Trailer(r)

(* Number of records recover_bytes returns.                                 *)
CommittedRecords(f) ==
  CHOOSE n \in 0 .. (Len(f) \div RecordCells) :
    /\ \A i \in 1 .. n : RecordAt(f, i)
    /\ n < Len(f) \div RecordCells => ~RecordAt(f, n + 1)

CommittedCells(f) == RecordCells * CommittedRecords(f)
Recovered(f)      == RootAfter(f, CommittedRecords(f))

(* A torn final record: its header is whole and continues the prefix, and   *)
(* less is left of the file than its payload_len claims. Nothing else is    *)
(* read of it, so the claim is not checked.                                 *)
IncompleteTail(f) ==
  LET n == CommittedRecords(f) IN
  /\ Len(f) > RecordCells * n
  /\ \/ HeaderAt(f, n + 1) /\ Len(f) < RecordCells * (n + 1)
     \/ Continues(f, n + 1, "long")

CleanTail(f)   == Len(f) = CommittedCells(f)
ForeignTail(f) == ~CleanTail(f) /\ ~IncompleteTail(f)
TailCells(f)   == Drop(f, CommittedCells(f))

(* find_structurally_valid_record: somewhere in `cells' a record is whole,  *)
(* whatever came before it.                                                 *)
HoldsRecord(cells) ==
  \E i \in 1 .. Len(cells) - 3 :
    LET r == cells[i][2] IN
    /\ cells[i][1] = "header" /\ r # <<>>
    /\ SubSeq(cells, i + 1, i + 3) = <<Payload(r)>> \o Trailer(r)

-----------------------------------------------------------------------------
NoPlan == [at |-> 0, root |-> <<>>, foreign |-> <<>>, step |-> "none"]

(* apply is under way. open_for_recovery holds the deployment lock then; a  *)
(* deployment holds it as long as its handle is open.                       *)
Applying == plan.step \in {"quarantined", "checked"}

InAppend == phase \in {"BodyWrite", "BodySync", "CommitWrite", "CommitSync"}

TypeOK ==
  /\ file \in Seq(Cells) /\ disk \in Seq(Cells)
  /\ phase \in {"closed", "idle", "BodyWrite", "BodySync", "CommitWrite", "CommitSync"}
  /\ lastRoot \in Roots /\ pending \in Roots /\ acked \in Roots
  /\ committedLen \in Nat
  /\ plan \in [at : Nat, root : Roots, foreign : Seq(Cells),
               step : {"none", "planned", "quarantined", "checked"}]
  /\ sidecars \in Nat
  /\ retracted \subseteq Roots
  /\ decay \subseteq Nat \X {"long", "junk"} /\ rots \in Nat

Init ==
  /\ file = <<>> /\ disk = <<>>
  /\ phase = "closed" /\ lastRoot = <<>> /\ committedLen = 0 /\ pending = <<>>
  /\ plan = NoPlan /\ sidecars = 0
  /\ acked = <<>> /\ retracted = {} /\ decay = {} /\ rots = 0

-----------------------------------------------------------------------------
(* The handle.                                                              *)

(* Seeded fault: corruption is skipped as if it were an unfinished record.  *)
OpenSkipsCorruption(truncate) ==
  /\ phase = "closed" /\ ~Applying
  /\ IncompleteTail(file) => truncate
  /\ file' = Take(file, CommittedCells(file))
  /\ disk' = file'
  /\ phase' = "idle"
  /\ lastRoot' = Recovered(file)
  /\ committedLen' = CommittedCells(file)
  /\ pending' = <<>>
  /\ UNCHANGED <<repairVars, obsVars>>

(* Journal::open under IncompleteTailPolicy::Truncate (truncate) or Reject: *)
(* a foreign tail is Corrupt and refused, a torn one is cut and the file    *)
(* synchronised, or refused. A whole file is taken as it is read.           *)
Open(truncate) ==
  /\ phase = "closed" /\ ~Applying
  /\ ~ForeignTail(file)
  /\ IncompleteTail(file) => truncate
  /\ file' = Take(file, CommittedCells(file))
  /\ disk' = IF IncompleteTail(file) THEN file' ELSE disk
  /\ phase' = "idle"
  /\ lastRoot' = Recovered(file)
  /\ committedLen' = CommittedCells(file)
  /\ pending' = <<>>
  /\ UNCHANGED <<repairVars, obsVars>>

(* Journal::open whose sync_all fails after set_len: no handle, but the     *)
(* torn suffix is gone from the file readers see.                           *)
OpenSyncFails ==
  /\ phase = "closed" /\ ~Applying
  /\ IncompleteTail(file)
  /\ file' = Take(file, CommittedCells(file))
  /\ UNCHANGED <<disk, handleVars, repairVars, obsVars>>

(* check_committed_tail: the file ends exactly at the committed length,     *)
(* with the trailer that names the handle's last root.                      *)
CheckCommittedTail ==
  /\ Len(file) = committedLen
  /\ committedLen > 0 => Drop(file, committedLen - 2) = Trailer(lastRoot)

(* Journal::append up to the point where its pending record is installed.   *)
AppendStart(v) ==
  /\ phase = "idle"
  /\ pending = <<>>
  /\ CheckCommittedTail
  /\ pending' = Append(lastRoot, v)
  /\ phase' = "BodyWrite"
  /\ UNCHANGED <<fileVars, lastRoot, committedLen, repairVars, obsVars>>

(* A write_all of `cells' at the cursor: all of them and the append goes    *)
(* on, or an error after any number of them and it is indeterminate.        *)
Write(at, cells, next) ==
  \E n \in 0 .. Len(cells) :
    /\ file' = WriteAt(file, at, Take(cells, n))
    /\ phase' \in {"idle"} \cup (IF n = Len(cells) THEN {next} ELSE {})
    /\ UNCHANGED disk

BodyWrite ==
  /\ phase = "BodyWrite"
  /\ Write(committedLen, Body(pending), "BodySync")
  /\ UNCHANGED <<lastRoot, committedLen, pending, repairVars, obsVars>>

(* sync_data of the body; a failed one may or may not have reached the disk.*)
BodySync ==
  /\ phase = "BodySync"
  /\ UNCHANGED file
  /\ \/ disk' = file /\ phase' \in {"CommitWrite", "idle"}
     \/ disk' = disk /\ phase' = "idle"
  /\ UNCHANGED <<lastRoot, committedLen, pending, repairVars, obsVars>>

CommitWrite ==
  /\ phase = "CommitWrite"
  /\ Write(committedLen + 2, Trailer(pending), "CommitSync")
  /\ UNCHANGED <<lastRoot, committedLen, pending, repairVars, obsVars>>

(* Seeded fault: commit_pending leaves the committed length behind.         *)
CommitPendingStaleLength ==
  /\ lastRoot' = pending
  /\ pending' = <<>>
  /\ acked' = pending
  /\ decay' = {}
  /\ UNCHANGED <<committedLen, retracted, rots>>

(* commit_pending: the handle takes over the record and reports it.         *)
CommitPending ==
  /\ lastRoot' = pending
  /\ committedLen' = committedLen + RecordCells
  /\ pending' = <<>>
  /\ acked' = pending
  /\ decay' = {}
  /\ UNCHANGED <<retracted, rots>>

(* Seeded fault: the trailer is acknowledged without being synchronised.    *)
CommitUnsynced ==
  /\ phase = "CommitSync"
  /\ phase' = "idle"
  /\ UNCHANGED <<fileVars, repairVars>>
  /\ CommitPending

(* sync_all of the trailer: the append returns Ok, or is indeterminate.     *)
CommitSync ==
  /\ phase = "CommitSync"
  /\ phase' = "idle"
  /\ UNCHANGED <<file, repairVars>>
  /\ \/ disk' = file /\ CommitPending
     \/ disk' \in {disk, file} /\ UNCHANGED <<lastRoot, committedLen, pending, obsVars>>

(* reconcile_pending: the three ways it can end without an error, and the   *)
(* two error paths that leave a trace (a truncation whose sync fails, and a *)
(* failing seek after the sync). Every other error changes nothing.         *)
PendingIsWhole ==
  /\ ~ForeignTail(file)
  /\ CommittedCells(file) = committedLen + RecordCells
  /\ Recovered(file) = pending

(* Seeded fault: the committed length is not compared.                      *)
PendingIsAbsentUnchecked == ~ForeignTail(file)

PendingIsAbsent ==
  /\ ~ForeignTail(file)
  /\ CommittedCells(file) = committedLen
  /\ Recovered(file) = PreviousRoot(pending)

Reconcilable == phase = "idle" /\ pending # <<>>

ReconcileCommitted(truncate) ==
  /\ Reconcilable /\ PendingIsWhole
  /\ IncompleteTail(file) => truncate
  /\ file' = Take(file, committedLen + RecordCells)
  /\ disk' = file'
  /\ CommitPending
  /\ UNCHANGED <<phase, repairVars>>

ReconcileNotCommitted(truncate) ==
  /\ Reconcilable /\ PendingIsAbsent
  /\ IncompleteTail(file) => truncate
  /\ file' = Take(file, committedLen)
  /\ disk' = IF IncompleteTail(file) THEN file' ELSE disk
  /\ pending' = <<>>
  /\ retracted' = retracted \cup {pending}
  /\ UNCHANGED <<phase, lastRoot, committedLen, repairVars, acked, decay, rots>>

ReconcileFails ==
  /\ Reconcilable /\ (PendingIsWhole \/ PendingIsAbsent)
  /\ file' = Take(file, CommittedCells(file))
  /\ disk' \in {disk, file'}
  /\ UNCHANGED <<handleVars, repairVars, obsVars>>

(* Journal::verify: synchronises the file and re-reads it.                  *)
Verify ==
  /\ phase = "idle" /\ pending = <<>>
  /\ disk' = file
  /\ UNCHANGED <<file, handleVars, repairVars, obsVars>>

-----------------------------------------------------------------------------
(* The repair tool. A plan is made beside a handle that may be open, and    *)
(* applied later under the deployment lock. Programs that are no deployment *)
(* heed neither that lock nor the one apply takes on the file.              *)

(* doctor and SealedRepairPlan::create: only a foreign tail is repairable,  *)
(* and the only cut is at the committed length.                             *)
Plan ==
  /\ ForeignTail(file)
  /\ plan' = [at |-> CommittedCells(file), root |-> Recovered(file),
              foreign |-> TailCells(file), step |-> "planned"]
  /\ UNCHANGED <<fileVars, handleVars, sidecars, obsVars>>

(* The plan still describes the file: same committed prefix, same tail.     *)
PlanMatches ==
  /\ Len(file) = plan.at + Len(plan.foreign)
  /\ Drop(file, plan.at) = plan.foreign

PrefixMatches ==
  LET prefix == Take(file, plan.at) IN
  CleanTail(prefix) /\ Recovered(prefix) = plan.root

(* open_for_recovery, which refuses a tail that holds a whole record, and   *)
(* apply up to the durable quarantine sidecar (steps 1 to 7).               *)
ApplyQuarantine ==
  /\ plan.step = "planned"
  /\ phase = "closed"
  /\ ~HoldsRecord(plan.foreign)
  /\ PlanMatches /\ PrefixMatches
  /\ sidecars < MaxRepairs /\ sidecars' = sidecars + 1
  /\ plan' = [plan EXCEPT !.step = "quarantined"]
  /\ UNCHANGED <<fileVars, handleVars, obsVars>>

(* The last comparison with the plan (step 8).                              *)
ApplyRecheck ==
  /\ plan.step = "quarantined"
  /\ PlanMatches
  /\ plan' = [plan EXCEPT !.step = "checked"]
  /\ UNCHANGED <<fileVars, handleVars, sidecars, obsVars>>

(* Seeded fault: the cut is one record too early.                           *)
ApplyTruncateEarly ==
  /\ plan.step = "checked"
  /\ file' = Take(file, Max({0, plan.at - RecordCells}))
  /\ disk' \in {disk, file'}
  /\ plan' = NoPlan
  /\ UNCHANGED <<handleVars, sidecars, obsVars>>

(* set_len and sync (step 9), system calls of their own. A sync that fails  *)
(* leaves the disk as it was.                                               *)
ApplyTruncate ==
  /\ plan.step = "checked"
  /\ file' = Take(file, plan.at)
  /\ disk' \in {disk, file'}
  /\ plan' = NoPlan
  /\ UNCHANGED <<handleVars, sidecars, obsVars>>

(* apply refused, or its process gone: the plan is dropped.                 *)
ApplyRefused ==
  /\ plan # NoPlan
  /\ plan' = NoPlan
  /\ UNCHANGED <<fileVars, handleVars, sidecars, obsVars>>

-----------------------------------------------------------------------------
(* The environment.                                                         *)

(* The process that owns the handle dies; the machine keeps running.        *)
ProcessDeath ==
  /\ phase # "closed"
  /\ phase' = "closed"
  /\ lastRoot' = <<>> /\ committedLen' = 0 /\ pending' = <<>>
  /\ UNCHANGED <<fileVars, repairVars, obsVars>>

(* What a power loss can leave: a length between the two, and for each cell *)
(* in which file and disk differ, either the cell that was written or the   *)
(* one before it (nothing, if the file was extended over it).               *)
OldCell(i) == IF i <= Len(disk) THEN disk[i] ELSE Junk
NewCell(i) == IF i <= Len(file) THEN file[i] ELSE OldCell(i)

PowerLoss ==
  /\ \E n \in Min({Len(file), Len(disk)}) .. Max({Len(file), Len(disk)}) :
       \E written \in SUBSET {i \in 1 .. n : OldCell(i) # NewCell(i)} :
         file' = [i \in 1 .. n |-> IF i \in written THEN NewCell(i) ELSE OldCell(i)]
  /\ disk' = file'
  /\ phase' = "closed"
  /\ lastRoot' = <<>> /\ committedLen' = 0 /\ pending' = <<>>
  /\ plan' = NoPlan
  /\ UNCHANGED <<sidecars, obsVars>>

(* Another program appends to the file between two calls of the handle.     *)
ForeignAppend ==
  /\ ~InAppend
  /\ Len(file) < MaxCells
  /\ Cardinality({i \in DOMAIN file : file[i] = Junk}) < MaxForeign
  /\ file' = Append(file, Junk)
  /\ UNCHANGED <<disk, handleVars, repairVars, obsVars>>

(* A cell of a stored record decays while no handle is open: to something   *)
(* no check accepts, or, in a header, to a length that only the digests     *)
(* would refute. (What a torn tail holds is anything as it is.)             *)
RecordOfCell(i) == (i + 3) \div RecordCells

StoredCells ==
  1 .. Min({Len(file), Max({CommittedCells(file), RecordCells * Len(acked)})})

Rot ==
  /\ phase = "closed" /\ file = disk
  /\ rots < MaxRot /\ rots' = rots + 1
  /\ \E i \in StoredCells, tag \in {"junk", "long"} :
       /\ tag = "long" => file[i][1] = "header"
       /\ file' = [file EXCEPT ![i] = IF tag = "long" THEN Long(@[2]) ELSE Junk]
       /\ decay' = IF i <= RecordCells * Len(acked) THEN decay \cup {<<RecordOfCell(i), tag>>}
                   ELSE decay
  /\ disk' = file'
  /\ UNCHANGED <<handleVars, repairVars, acked, retracted>>

-----------------------------------------------------------------------------
(* Payloads are compared by content, so the model gives every append its    *)
(* own: a root in `retracted' then names one attempt.                       *)
Used(v)  == \E r \in retracted \cup {acked, lastRoot, Recovered(file)} :
              \E i \in DOMAIN r : r[i] = v

AppendFresh == \E v \in Payloads : ~Used(v) /\ AppendStart(v)

Handle ==
  \/ \E t \in BOOLEAN : Open(t)
  \/ OpenSyncFails
  \/ AppendFresh
  \/ BodyWrite \/ BodySync \/ CommitWrite \/ CommitSync
  \/ \E t \in BOOLEAN : ReconcileCommitted(t)
  \/ \E t \in BOOLEAN : ReconcileNotCommitted(t)
  \/ ReconcileFails
  \/ Verify

Repair == Plan \/ ApplyQuarantine \/ ApplyRecheck \/ ApplyTruncate \/ ApplyRefused

Environment == ProcessDeath \/ PowerLoss \/ ForeignAppend \/ Rot

Next == Handle \/ Repair \/ Environment

Spec == Init /\ [][Next]_vars

-----------------------------------------------------------------------------
(* Properties.                                                              *)

(* An append that append or reconcile_pending reported as committed is in   *)
(* what recover_bytes reads from then on: after process deaths, after power *)
(* losses that keep or drop any unsynchronised cell, after later appends    *)
(* that fail half way, and after any repair of foreign bytes.               *)
AckedNeverLost == IsPrefix(acked, Recovered(file))

(* The sequence number of an append reported as NotCommitted is free for a  *)
(* retry: the retracted record never comes back, whatever a later crash     *)
(* makes of the cells it left on the disk.                                  *)
RetractedNeverCommitted ==
  \A r \in retracted : ~IsPrefix(r, Recovered(file))

(* While no append is in flight the handle's last_root and committed_len    *)
(* describe a prefix of the file that recover_bytes accepts, so that the    *)
(* next append chains onto what a reader sees.                              *)
HandleAgreesWithFile ==
  phase = "idle" /\ pending = <<>> =>
    /\ IsPrefix(lastRoot, Recovered(file))
    /\ committedLen = RecordCells * Len(lastRoot)

(* The invariant of the handle, under foreign bytes and decay: its types    *)
(* and the above.                                                           *)
HandleInv == TypeOK /\ HandleAgreesWithFile

(* What decay can cost, of a handle opened with or without cutting a tail,  *)
(* after any repairs: the acknowledged records before the first that it hit *)
(* are served. Short of a repair, so are those from there on, unless it hit *)
(* a payload_len: other damage open refuses instead of cutting.             *)
Unhit(k) == \A x \in decay : x[1] > k
LengthsUnhit(k) == \A x \in decay : x[1] > k \/ x[2] # "long"

HandleKeepsAcked ==
  phase # "closed" =>
    \A k \in 0 .. Len(acked) :
      Unhit(k) \/ (sidecars = 0 /\ LengthsUnhit(k)) => IsPrefix(Take(acked, k), lastRoot)

(* As Journal::open states it (journal.rs): corruption is never repaired or *)
(* skipped, so that it takes a repair to open a handle over less than what  *)
(* was acknowledged.                                                        *)
CorruptionNeverSkipped ==
  phase # "closed" /\ sidecars = 0 => IsPrefix(acked, lastRoot)

(* As stated for the ledger above the journal (durable.rs): the state a     *)
(* restart serves is a function of the DURABLE committed prefix. Journal::  *)
(* open takes a whole file as it reads it, without synchronising it first.  *)
OpenedIsDurable ==
  phase = "idle" /\ pending = <<>> => IsPrefix(lastRoot, Recovered(disk))

(* The journal keeps the promise the ledger above it is built on: every     *)
(* step of handle, repair tool and crashes is one step of an append log     *)
(* that grows by the attempted record only, answers each attempt with what  *)
(* is in the file, and loses nothing but unacknowledged records.            *)
Log == INSTANCE CommitLog WITH history <- Recovered(file), attempt <- pending

ImplementsCommitLog == Log!LogSpec

=============================================================================
