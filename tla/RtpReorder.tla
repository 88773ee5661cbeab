----------------------------- MODULE RtpReorder -----------------------------
(***************************************************************************)
(* SequenceTracker (crates/fss-packet/src/continuity.rs) under              *)
(* RtpReorderBuffer (reorder.rs): an RTP stream whose 16-bit sequence       *)
(* numbers wrap is unwrapped, deduplicated, reordered in a bounded queue    *)
(* and released in order, with explicit gaps for what never came.           *)
(*                                                                          *)
(* The source numbers its packets 0, 1, 2, ... and puts the number modulo   *)
(* Wrap on the wire. The network loses, duplicates, delays and reorders: any*)
(* packet may arrive at any time, as long as its wire number can be told    *)
(* apart from that of a packet a whole wrap away (Unambiguous).             *)
(*                                                                          *)
(* Time is relative: a queued packet carries the time since its admission.  *)
(* A call that is refused, and a poll that is pending, change nothing. The  *)
(* owner of the buffer is H264Receiver, and the specification is there.     *)
(***************************************************************************)
EXTENDS Integers, FiniteSetsExt, SequencesExt

CONSTANTS
  Wrap,         (* 2^16 in the code: wire sequence numbers                  *)
  Dropout,      (* 3000: a forward jump from here on is a discontinuity     *)
  Window,       (* 128: positions remembered behind the highest             *)
  FirstSent,
  LastSent,     (* bound: the packets the source sends                      *)
  Bodies,       (* packet contents                                          *)
  Size,         (* wire length of a content                                 *)
  MaxPackets, MaxBytes, MaxDelay

None == -1

ASSUME ReorderAssumption ==
  /\ {Wrap, Dropout, Window, FirstSent, LastSent, MaxPackets, MaxBytes, MaxDelay} \subseteq Nat
  /\ Dropout > 0 /\ Window > 0 /\ MaxPackets > 0 /\ MaxDelay > 0
  /\ Dropout + Window <= Wrap
  /\ \A b \in Bodies : Size[b] \in Nat

VARIABLES
  (* SequenceTracker *)
  probation, base, highest,
  seen,         (* the distances behind highest whose bit is set            *)
  badNext, restartRequired,
  unique,       (* stats.unique; expected and missing follow from it        *)
  (* RtpReorderBuffer *)
  queue, bytes, nextSequence, phase,
  (* Observations, used by the properties only.                             *)
  offset,       (* extended minus source number, fixed at the baseline      *)
  heard,        (* source numbers accepted by the tracker                   *)
  log           (* what polls released: packets and gaps                    *)

tracker == <<probation, base, highest, seen, badNext, restartRequired, unique>>
buffer  == <<queue, bytes, nextSequence, phase>>
observed == <<offset, heard, log>>
vars == <<tracker, buffer, observed>>

Positions == FirstSent .. LastSent
Wires     == 0 .. Wrap - 1
Extended  == 0 .. LastSent
Packet    == [seq : Extended, pos : Positions, body : Bodies, age : 0 .. MaxDelay]
Wire(p)   == p % Wrap

TypeOK ==
  /\ probation \in Wires \cup {None} /\ badNext \in Wires \cup {None}
  /\ base \in Extended \cup {None} /\ highest \in Extended
  /\ seen \subseteq 0 .. Window - 1
  /\ restartRequired \in BOOLEAN
  /\ unique \in 0 .. LastSent + 1
  /\ queue \subseteq Packet /\ Cardinality(queue) <= MaxPackets
  /\ bytes \in 0 .. MaxBytes
  /\ bytes = SumFunction([q \in queue |-> Size[q.body]])
  /\ nextSequence \in Nat \cup {None}
  /\ phase \in {"open", "draining", "closed"}

(* SequenceTracker::new and RtpReorderBuffer::new. restart makes another    *)
(* buffer in this state, for a newer epoch.                                 *)
Init ==
  /\ probation = None /\ base = None /\ highest = 0 /\ seen = {}
  /\ badNext = None /\ restartRequired = FALSE /\ unique = 0
  /\ queue = {} /\ bytes = 0 /\ nextSequence = None /\ phase = "open"
  /\ offset = 0 /\ heard = {} /\ log = <<>>

-----------------------------------------------------------------------------
(* SequenceTracker::advance: the class of a wire number, the extended       *)
(* sequence and the tracker after it.                                       *)
Tracker == [probation |-> probation, base |-> base, highest |-> highest, seen |-> seen,
            badNext |-> badNext, restart |-> restartRequired, unique |-> unique]
Observation(class, seq, t) == [class |-> class, seq |-> seq, tracker |-> t]

Forward(w) == (w - highest) % Wrap
Behind(w)  == (highest - w) % Wrap

Probe(w) ==
  IF probation # None /\ w = (probation + 1) % Wrap
  THEN Observation("baseline", w, [Tracker EXCEPT !.base = w, !.highest = w, !.seen = {0},
                                                  !.unique = 1])
  ELSE Observation("probation", None, [Tracker EXCEPT !.probation = w])

Advance(w) ==
  Observation("advanced", highest + Forward(w),
    [Tracker EXCEPT !.highest = @ + Forward(w), !.badNext = None, !.unique = @ + 1,
                    !.seen = ({0} \cup {b + Forward(w) : b \in @}) \cap (0 .. Window - 1)])

(* Seeded fault: the extended sequence keeps the cycle of the highest one.  *)
RecoverSameCycle(w) ==
  IF highest < Behind(w) \/ highest - Behind(w) < base
  THEN Observation("before_baseline", None, Tracker)
  ELSE Observation(IF Behind(w) \in seen THEN "duplicate" ELSE "reordered",
                   (highest - (highest % Wrap)) + w,
                   [Tracker EXCEPT !.seen = @ \cup {Behind(w)}, !.badNext = None,
                                   !.unique = IF Behind(w) \in seen THEN @ ELSE @ + 1])

Recover(w) ==
  IF highest < Behind(w) \/ highest - Behind(w) < base
  THEN Observation("before_baseline", None, Tracker)
  ELSE Observation(IF Behind(w) \in seen THEN "duplicate" ELSE "reordered",
                   highest - Behind(w),
                   [Tracker EXCEPT !.seen = @ \cup {Behind(w)}, !.badNext = None,
                                   !.unique = IF Behind(w) \in seen THEN @ ELSE @ + 1])

Suspect(w) ==
  IF badNext = w
  THEN Observation("restart_required", None, [Tracker EXCEPT !.restart = TRUE])
  ELSE Observation("discontinuity", None, [Tracker EXCEPT !.badNext = (w + 1) % Wrap])

Observe(w) ==
  CASE restartRequired -> Observation("restart_required", None, Tracker)
    [] ~restartRequired /\ base = None -> Probe(w)
    [] ~restartRequired /\ base # None /\ Forward(w) \in 1 .. Dropout - 1 -> Advance(w)
    [] ~restartRequired /\ base # None /\ Forward(w) \in {0} \cup (Wrap - Window + 1 .. Wrap - 1) ->
         Recover(w)
    [] OTHER -> Suspect(w)

Install(t) ==
  /\ probation' = t.probation /\ base' = t.base /\ highest' = t.highest /\ seen' = t.seen
  /\ badNext' = t.badNext /\ restartRequired' = t.restart /\ unique' = t.unique

-----------------------------------------------------------------------------
(* RtpReorderBuffer::ingest                                                 *)

(* The network: no packet is so late, and no loss so long, that its wire    *)
(* number falls on the wrong side of the highest one.                       *)
Unambiguous(p) ==
  base # None =>
    /\ highest - (p + offset) <= Wrap - Dropout
    /\ (p + offset) - highest <= Wrap - Window

IsUnique(o) == o.class \in {"baseline", "advanced", "reordered"}
TooLate(o)  == nextSequence # None /\ o.seq < nextSequence

Hear(p, o) ==
  /\ heard' = IF IsUnique(o) \/ o.class = "duplicate" THEN heard \cup {p} ELSE heard
  /\ offset' = IF o.class = "baseline" THEN o.seq - p ELSE offset

(* Seeded fault: the tracker is advanced before the queue has room.         *)
AdmitUnreserved(p, body) ==
  LET o == Observe(Wire(p)) IN
  /\ IsUnique(o) /\ ~TooLate(o)
  /\ IF Cardinality(queue) < MaxPackets /\ bytes + Size[body] <= MaxBytes
     THEN /\ queue' = queue \cup {[seq |-> o.seq, pos |-> p, body |-> body, age |-> 0]}
          /\ bytes' = bytes + Size[body]
          /\ nextSequence' = IF nextSequence = None THEN o.seq ELSE nextSequence
     ELSE UNCHANGED <<queue, bytes, nextSequence>>
  /\ Install(o.tracker) /\ Hear(p, o)
  /\ UNCHANGED <<phase, log>>

(* Buffered: every resource is there before anything changes.               *)
Admit(p, body) ==
  LET o == Observe(Wire(p)) IN
  /\ IsUnique(o) /\ ~TooLate(o)
  /\ Cardinality(queue) < MaxPackets /\ bytes + Size[body] <= MaxBytes
  /\ queue' = queue \cup {[seq |-> o.seq, pos |-> p, body |-> body, age |-> 0]}
  /\ bytes' = bytes + Size[body]
  /\ nextSequence' = IF nextSequence = None THEN o.seq ELSE nextSequence
  /\ Install(o.tracker) /\ Hear(p, o)
  /\ UNCHANGED <<phase, log>>

(* TooLate, Duplicate or NotAdmitted: only the tracker moves.               *)
Note(p, body) ==
  LET o == Observe(Wire(p)) IN
  /\ \/ IsUnique(o) /\ TooLate(o)
     \/ o.class = "duplicate" /\ \A q \in queue : q.seq = o.seq => q.body = body
     \/ o.class \in {"probation", "before_baseline", "discontinuity"}
  /\ Install(o.tracker) /\ Hear(p, o)
  /\ UNCHANGED <<buffer, log>>

(* retire, with input closed.                                               *)
Retire == queue' = {} /\ bytes' = 0 /\ phase' = "closed" /\ UNCHANGED nextSequence

(* RestartRequired: the queue is retired and input closed.                  *)
RestartRequired(p) ==
  LET o == Observe(Wire(p)) IN
  /\ o.class = "restart_required"
  /\ Retire
  /\ Install(o.tracker) /\ UNCHANGED observed

Ingest(p, body) ==
  /\ phase = "open" /\ Unambiguous(p)
  /\ Admit(p, body) \/ Note(p, body) \/ RestartRequired(p)

-----------------------------------------------------------------------------
(* RtpReorderBuffer::poll, one step.                                        *)
FirstQueued == CHOOSE q \in queue : \A r \in queue : q.seq <= r.seq

Age == Max({q.age : q \in queue})

Release ==
  /\ queue # {} /\ FirstQueued.seq = nextSequence
  /\ LET q == FirstQueued IN
     /\ queue' = queue \ {q}
     /\ bytes' = bytes - Size[q.body]
     /\ nextSequence' = q.seq + 1
     /\ log' = Append(log, [first |-> q.seq, last |-> q.seq, pos |-> q.pos])
  /\ UNCHANGED <<tracker, phase, offset, heard>>

(* Seeded fault: the gap reaches over the packet that ends it.              *)
DeclareGapInclusive ==
  /\ queue # {} /\ FirstQueued.seq # nextSequence
  /\ phase = "draining" \/ Age >= MaxDelay
  /\ log' = Append(log, [first |-> nextSequence, last |-> FirstQueued.seq, pos |-> None])
  /\ nextSequence' = FirstQueued.seq
  /\ UNCHANGED <<tracker, queue, bytes, phase, offset, heard>>

(* Seeded fault: a hole is given up only at the end of input.               *)
DeclareGapAtEnd ==
  /\ queue # {} /\ FirstQueued.seq # nextSequence
  /\ phase = "draining"
  /\ log' = Append(log, [first |-> nextSequence, last |-> FirstQueued.seq - 1, pos |-> None])
  /\ nextSequence' = FirstQueued.seq
  /\ UNCHANGED <<tracker, queue, bytes, phase, offset, heard>>

DeclareGap ==
  /\ queue # {} /\ FirstQueued.seq # nextSequence
  /\ phase = "draining" \/ Age >= MaxDelay
  /\ log' = Append(log, [first |-> nextSequence, last |-> FirstQueued.seq - 1, pos |-> None])
  /\ nextSequence' = FirstQueued.seq
  /\ UNCHANGED <<tracker, queue, bytes, phase, offset, heard>>

PollEnded ==
  /\ queue = {} /\ phase = "draining"
  /\ phase' = "closed"
  /\ UNCHANGED <<tracker, queue, bytes, nextSequence, observed>>

(* next_wake_ns, from now; None when only input can help.                   *)
NextWake ==
  CASE phase # "open" -> 0
    [] phase = "open" /\ queue = {} -> None
    [] phase = "open" /\ queue # {} /\ FirstQueued.seq = nextSequence -> 0
    [] OTHER -> MaxDelay - Age

Finish ==
  /\ phase = "open" /\ phase' = "draining"
  /\ UNCHANGED <<tracker, queue, bytes, nextSequence, observed>>

Cancel == phase # "closed" /\ Retire /\ UNCHANGED <<tracker, observed>>

-----------------------------------------------------------------------------
(* Properties.                                                              *)

Queued    == {q.seq : q \in queue}
Delivered == {e.first : e \in {x \in Range(log) : x.pos # None}}
Missed    == UNION {e.first .. e.last : e \in {x \in Range(log) : x.pos = None}}

(* Unwrapping is exact across any number of wraps: the extended sequence of *)
(* everything queued and released keeps one distance from the number the    *)
(* source gave it.                                                          *)
UnwrapIsExact ==
  /\ \A q \in queue : q.seq = q.pos + offset
  /\ \A e \in Range(log) : e.pos # None => e.first = e.pos + offset

(* What polls released tiles the sequence space from the baseline on:       *)
(* packets and gaps in strictly increasing order, nothing twice, nothing    *)
(* left out, and the next position is the one after the last.               *)
OutputTiles ==
  /\ log # <<>> => log[1].first = base
  /\ \A i \in 1 .. Len(log) :
       /\ log[i].first <= log[i].last
       /\ log[i].last + 1 = IF i < Len(log) THEN log[i + 1].first ELSE nextSequence

(* "drain/retry does not turn the refused packet into a duplicate": every   *)
(* position the tracker would call a duplicate was delivered, is queued, or *)
(* lies in a gap that was declared.                                         *)
SeenIsAccounted ==
  phase # "closed" =>
    \A b \in seen : highest - b \in Queued \cup Delivered \cup Missed

(* The tracker's count of unique packets is the number of different packets *)
(* of the source that it accepted, through shifts of its window and wraps.  *)
UniqueIsExact ==
  /\ unique = Cardinality(heard)
  /\ base # None => unique <= highest - base + 1

(* The invariant of the tracker: types, exact unwrapping, exact counting.   *)
TrackerInv == TypeOK /\ UnwrapIsExact /\ UniqueIsExact

=============================================================================
