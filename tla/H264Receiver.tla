---------------------------- MODULE H264Receiver ----------------------------
(***************************************************************************)
(* H264Receiver (crates/fss-packet/src/receiver.rs): the reorder buffer and *)
(* the H264Depacketizer (h264.rs) behind it. Packets leave the buffer in    *)
(* order; the depacketizer joins the fragments of a NAL unit, and retires a *)
(* chain that is interrupted, malformed, too long or too old.               *)
(*                                                                          *)
(* A packet holds a whole NAL, one fragment of a NAL, or something the      *)
(* depacketizer refuses. Fragments of different NALs may carry the same     *)
(* timestamp and NAL header, as the slices of one picture do.               *)
(***************************************************************************)
EXTENDS RtpReorder

CONSTANTS
  Streams,      (* what the packets of a source may hold, by position       *)
  Stamp,        (* timestamp and NAL header of a packet                     *)
  MaxFragments, (* max_fragment_packets                                     *)
  MaxAge        (* max_pending_age_ns                                       *)

Contents == {"whole", "start", "middle", "end", "malformed"}

ASSUME ReceiverAssumption ==
  /\ Streams \subseteq [Positions -> Contents]
  /\ {MaxFragments, MaxAge} \subseteq Nat \ {0}

VARIABLES
  stream,       (* the source of this run                                   *)
  lastSequence, (* H264Depacketizer.last_sequence                           *)
  pending,      (* the packets of the incomplete NAL, in order              *)
  pendingAge,   (* time since it was started                                *)
  ended,        (* H264Receiver.ended                                       *)
  (* Observations, used by the properties only.                             *)
  nals,         (* NAL units emitted, each as its packets                   *)
  retired,      (* packets in a FragmentDiscard receipt                     *)
  refused       (* packets that came back with an error                     *)

codec == <<lastSequence, pending, pendingAge, ended>>
emitted == <<nals, retired, refused>>
receiverVars == <<vars, stream, codec, emitted>>

ReceiverTypeOK ==
  /\ TypeOK
  /\ stream \in Streams
  /\ lastSequence \in Extended \cup {None}
  /\ Len(pending) <= MaxFragments /\ Range(pending) \subseteq Positions
  /\ pendingAge \in 0 .. MaxAge
  /\ pending = <<>> => pendingAge = 0
  /\ ended \in BOOLEAN
  /\ ended => queue = {} /\ pending = <<>>

(* H264Receiver::new                                                        *)
ReceiverInit ==
  /\ Init
  /\ stream \in Streams
  /\ lastSequence = None /\ pending = <<>> /\ pendingAge = 0 /\ ended = FALSE
  /\ nals = <<>> /\ retired = {} /\ refused = {}

-----------------------------------------------------------------------------
(* H264Depacketizer::discard, with its receipt.                             *)
Discard ==
  /\ pending' = <<>> /\ pendingAge' = 0
  /\ retired' = retired \cup Range(pending)

(* Seeded fault: an interrupted chain is dropped without a receipt.         *)
InterruptSilently ==
  pending' = <<>> /\ pendingAge' = 0 /\ UNCHANGED retired

(* Interrupted: a whole NAL or a new chain ends the pending one.            *)
Interrupt == Discard

(* consume: a whole NAL.                                                    *)
Whole(p) ==
  /\ stream[p] = "whole"
  /\ Interrupt
  /\ nals' = Append(nals, <<p>>)
  /\ UNCHANGED refused

(* Seeded fault: a new chain is added to the one it interrupts.             *)
StartKeepingChain(p) ==
  /\ stream[p] = "start"
  /\ pending' = Append(pending, p) /\ pendingAge' = 0
  /\ UNCHANGED <<nals, retired, refused>>

(* The first fragment of a NAL.                                             *)
Start(p) ==
  /\ stream[p] = "start"
  /\ pending' = <<p>> /\ pendingAge' = 0
  /\ retired' = retired \cup Range(pending)
  /\ UNCHANGED <<nals, refused>>

(* A fragment that continues the pending chain, when the chain is `chain'.  *)
Continues(p, chain) ==
  /\ chain # <<>> /\ Stamp[chain[1]] = Stamp[p]
  /\ Len(chain) < MaxFragments

(* A later fragment; the last one completes the NAL.                        *)
Continue(p, chain) ==
  /\ stream[p] \in {"middle", "end"} /\ Continues(p, chain)
  /\ IF stream[p] = "end"
     THEN pending' = <<>> /\ pendingAge' = 0 /\ nals' = Append(nals, Append(chain, p))
     ELSE pending' = Append(chain, p) /\ UNCHANGED <<pendingAge, nals>>
  /\ UNCHANGED <<retired, refused>>

(* MissingStart, FragmentMismatch, Limit or Malformed.                      *)
Refuse(p, chain) ==
  /\ \/ stream[p] = "malformed"
     \/ stream[p] \in {"middle", "end"} /\ ~Continues(p, chain)
  /\ Discard
  /\ refused' = refused \cup {p}
  /\ UNCHANGED nals

(* push, of a packet later than every one before it.                        *)
Push(seq, p) ==
  LET gap   == lastSequence # None /\ lastSequence + 1 # seq
      chain == IF gap THEN <<>> ELSE pending IN
  /\ lastSequence' = seq
  /\ Whole(p) \/ Start(p) \/ Continue(p, chain) \/ Refuse(p, chain)

-----------------------------------------------------------------------------
(* H264Receiver.                                                            *)

ReceiveIngest(p, body) ==
  /\ ~ended
  /\ Ingest(p, body)
  /\ IF phase' = "closed" THEN Discard /\ ended' = TRUE
                          ELSE UNCHANGED <<pending, pendingAge, retired, ended>>
  /\ UNCHANGED <<stream, lastSequence, nals, refused>>

Overdue == pending # <<>> /\ pendingAge >= MaxAge

(* poll: expired reconstruction is reported before anything is taken.       *)
PollExpired ==
  /\ ~ended /\ Overdue
  /\ Discard
  /\ UNCHANGED <<vars, stream, lastSequence, ended, nals, refused>>

PollPacket ==
  /\ ~ended /\ ~Overdue
  /\ Release
  /\ Push(FirstQueued.seq, FirstQueued.pos)
  /\ UNCHANGED <<stream, ended>>

PollGap ==
  /\ ~ended /\ ~Overdue
  /\ DeclareGap
  /\ Discard
  /\ UNCHANGED <<stream, lastSequence, ended, nals, refused>>

ReceiverEnds ==
  /\ ~ended /\ ~Overdue
  /\ PollEnded
  /\ Discard
  /\ ended' = TRUE
  /\ UNCHANGED <<stream, lastSequence, nals, refused>>

ReceivePoll == PollExpired \/ PollPacket \/ PollGap \/ ReceiverEnds

ReceiveFinish == Finish /\ UNCHANGED <<stream, codec, emitted>>

ReceiveCancel ==
  /\ ~ended
  /\ Cancel /\ Discard /\ ended' = TRUE
  /\ UNCHANGED <<stream, lastSequence, nals, refused>>

(* next_wake_ns of both layers.                                             *)
ReceiverWake ==
  LET chain == IF pending = <<>> THEN {} ELSE {MaxAge - pendingAge}
      ready == IF NextWake = None THEN {} ELSE {NextWake} IN
  IF ended \/ chain \cup ready = {} THEN None ELSE Min(chain \cup ready)

ReceiverTick ==
  /\ \/ \E q \in queue : q.age < MaxDelay
     \/ pending # <<>> /\ pendingAge < MaxAge
  /\ queue' = {[q EXCEPT !.age = IF @ < MaxDelay THEN @ + 1 ELSE @] : q \in queue}
  /\ pendingAge' = IF pending # <<>> /\ pendingAge < MaxAge THEN pendingAge + 1 ELSE pendingAge
  /\ UNCHANGED <<tracker, bytes, nextSequence, phase, observed>>
  /\ UNCHANGED <<stream, lastSequence, pending, ended, emitted>>

ReceiverRest == ended /\ UNCHANGED receiverVars

ReceiverNext ==
  \/ \E p \in Positions, body \in Bodies : ReceiveIngest(p, body)
  \/ ReceivePoll \/ ReceiveFinish \/ ReceiveCancel \/ ReceiverTick \/ ReceiverRest

ReceiverSpec == ReceiverInit /\ [][ReceiverNext]_receiverVars
FairReceiverSpec ==
  ReceiverSpec /\ WF_receiverVars(ReceivePoll) /\ WF_receiverVars(ReceiverTick)

-----------------------------------------------------------------------------
(* Properties.                                                              *)

(* Every NAL unit that is emitted is one the source sent: one whole packet, *)
(* or its fragments from start to end with none missing, foreign or         *)
(* repeated, whatever was lost, late or expired on the way.                 *)
WholeNals ==
  \A i \in 1 .. Len(nals) :
    LET n == nals[i] IN
    \/ Len(n) = 1 /\ stream[n[1]] = "whole"
    \/ /\ stream[n[1]] = "start" /\ stream[n[Len(n)]] = "end"
       /\ \A j \in 2 .. Len(n) : n[j] = n[j - 1] + 1 /\ (j < Len(n) => stream[n[j]] = "middle")

(* NAL units leave in the order the source sent them, none twice.           *)
NalsInOrder ==
  \A i \in 1 .. Len(nals) - 1 : nals[i][Len(nals[i])] < nals[i + 1][1]

(* "no error path can silently lose that packet": a packet released by the  *)
(* buffer is in exactly one of an emitted NAL, the pending chain, a receipt *)
(* or an error.                                                             *)
PacketsAccounted ==
  LET released == {e.pos : e \in {x \in Range(log) : x.pos # None}}
      inNals   == UNION {Range(n) : n \in Range(nals)} IN
  /\ released = inNals \cup Range(pending) \cup retired \cup refused
  /\ Cardinality(released) = Cardinality(inNals) + Len(pending) + Cardinality(retired)
                               + Cardinality(refused)

(* The receiver asks to be polled before either layer is overdue: a chain   *)
(* is retired in time even if no packet ever comes again.                   *)
ReceiverWakesInTime ==
  ~ended /\ phase = "open" =>
    /\ pending # <<>> => ReceiverWake # None /\ pendingAge + ReceiverWake <= MaxAge
    /\ \A q \in queue : ReceiverWake # None /\ q.age + ReceiverWake <= MaxDelay

(* The invariant of the receiver: its types and the three above.            *)
ReceiverInv == ReceiverTypeOK /\ NalsInOrder /\ PacketsAccounted /\ ReceiverWakesInTime

(* No accepted packet is stranded behind a hole or a full queue: it is      *)
(* delivered, or retired by a cancellation or a restart of the source. And  *)
(* once input is finished both layers drain and the receiver ends.          *)
ReceiverProgress ==
  /\ \A s \in Extended : s \in Queued ~> s \notin Queued
  /\ phase = "draining" ~> ended
=============================================================================
