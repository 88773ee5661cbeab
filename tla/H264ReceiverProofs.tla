------------------------- MODULE H264ReceiverProofs -------------------------
(***************************************************************************)
(* Proofs about RtpReorder and H264Receiver, for every wrap, dropout and    *)
(* window, every queue limit and delay, and every source.                   *)
(***************************************************************************)
EXTENDS H264Receiver, CommonLemmas

-----------------------------------------------------------------------------
(* The invariant of the tracker.                                            *)

TrackerTypes ==
  /\ probation \in Wires \cup {None} /\ badNext \in Wires \cup {None}
  /\ base \in Extended \cup {None} /\ highest \in Extended
  /\ seen \subseteq 0 .. Window - 1
  /\ restartRequired \in BOOLEAN
  /\ unique \in 0 .. LastSent + 1
  /\ offset \in Int /\ heard \subseteq Positions

(* After the baseline, extended and source numbers differ by whole wraps,   *)
(* what was heard lies between the baseline and the highest, and a bit of   *)
(* the window is set exactly for what was heard.                            *)
Anchored ==
  /\ \E k \in Int : offset = Wrap * k
  /\ offset <= 0 /\ base <= highest
  /\ \A h \in heard : base <= h + offset /\ h + offset <= highest
  /\ \A b \in 0 .. Window - 1 : b \in seen <=> (highest - b) - offset \in heard

Untouched == highest = 0 /\ seen = {} /\ heard = {} /\ offset = 0

TrackerOK ==
  /\ TrackerTypes
  /\ base = None => Untouched
  /\ base # None => Anchored
  /\ unique = Cardinality(heard)

-----------------------------------------------------------------------------
(* The invariant of the buffer.                                             *)

Entry == [first : Nat, last : Nat, pos : Positions \cup {None}]

QueueOK ==
  /\ IsFiniteSet(queue) /\ queue \subseteq Packet /\ Cardinality(queue) <= MaxPackets
  /\ bytes \in 0 .. MaxBytes /\ bytes = SumFunction([q \in queue |-> Size[q.body]])
  /\ \A q \in queue : q.pos \in heard /\ q.seq = q.pos + offset /\ nextSequence <= q.seq
  /\ \A q, r \in queue : q.seq = r.seq => q = r

(* The log covers everything from the baseline up to the next position.     *)
LogOK ==
  /\ log \in Seq(Entry)
  /\ \A i \in 1 .. Len(log) :
       log[i].pos # None => log[i].first = log[i].pos + offset /\ log[i].last = log[i].first
  /\ OutputTiles
  /\ base # None => \A x \in base .. nextSequence - 1 :
                      \E i \in 1 .. Len(log) : log[i].first <= x /\ x <= log[i].last

BufferOK ==
  /\ nextSequence \in Nat \cup {None} /\ phase \in {"open", "draining", "closed"}
  /\ base = None => queue = {} /\ log = <<>> /\ nextSequence = None
  /\ base # None => nextSequence \in Nat /\ base <= nextSequence
                    /\ (log = <<>> => nextSequence = base)
  /\ phase # "closed" => \A b \in seen : highest - b \in Queued \/ highest - b < nextSequence
  /\ QueueOK
  /\ LogOK

ReorderInv == TrackerOK /\ BufferOK

-----------------------------------------------------------------------------
(* The invariant of the depacketizer.                                       *)

Released == {e.pos : e \in {x \in Range(log) : x.pos # None}}
InNals   == UNION {Range(n) : n \in Range(nals)}

(* A chain of packets without a hole, a start and then middles.             *)
Chain(c) ==
  /\ c \in Seq(Positions)
  /\ \A j \in 1 .. Len(c) : c[j] = c[1] + (j - 1)
  /\ c # <<>> => stream[c[1]] = "start"
  /\ \A j \in 2 .. Len(c) : stream[c[j]] = "middle"

CodecTypes ==
  /\ stream \in Streams
  /\ lastSequence \in Extended \cup {None}
  /\ Len(pending) <= MaxFragments /\ pendingAge \in 0 .. MaxAge
  /\ pending = <<>> => pendingAge = 0
  /\ ended \in BOOLEAN
  /\ ended => queue = {} /\ pending = <<>>
  /\ phase = "closed" <=> ended

(* Everything released is at or below the last sequence pushed, which ends  *)
(* the pending chain.                                                       *)
PushedOK ==
  /\ lastSequence # None => base # None /\ lastSequence < nextSequence
  /\ \A p \in Released : lastSequence # None /\ p + offset <= lastSequence
  /\ Chain(pending)
  /\ pending # <<>> => lastSequence # None /\ pending[Len(pending)] + offset = lastSequence

NalsOK ==
  /\ nals \in Seq(Seq(Positions))
  /\ \A i \in 1 .. Len(nals) : nals[i] # <<>>
  /\ WholeNals /\ NalsInOrder
  /\ nals # <<>> /\ pending # <<>> => nals[Len(nals)][Len(nals[Len(nals)])] < pending[1]

AccountedOK ==
  /\ Released = InNals \cup Range(pending) \cup retired \cup refused
  /\ InNals \cap Range(pending) = {} /\ InNals \cap retired = {} /\ InNals \cap refused = {}
  /\ Range(pending) \cap retired = {} /\ Range(pending) \cap refused = {} /\ retired \cap refused = {}

ReceiverIInv == ReorderInv /\ CodecTypes /\ PushedOK /\ NalsOK /\ AccountedOK

-----------------------------------------------------------------------------
(* Remainders.                                                              *)

(* Division with remainder.                                                 *)
LEMMA ModFacts ==
  ASSUME NEW n \in Nat, n > 0, NEW a \in Int
  PROVE  a % n \in 0 .. n - 1 /\ \E k \in Int : a = n * k + (a % n)
<1>1. a % n \in 0 .. n - 1
  OBVIOUS
<1> DEFINE q == a \div n
           m == a % n
<1>2. q \in Int /\ m \in Int
  BY <1>1
<1>3. q = a \div n /\ m = a % n
  OBVIOUS
<1> HIDE DEF q, m
<1>4. a = n * q + m
  BY <1>2, <1>3
<1> QED
  BY <1>1, <1>2, <1>3, <1>4

(* The remainder is unique.                                                 *)
LEMMA ModUnique ==
  ASSUME NEW n \in Nat, n > 0, NEW a \in Int, NEW k \in Int, NEW r \in 0 .. n - 1, a = n * k + r
  PROVE  a % n = r
<1>1. PICK j \in Int : a = n * j + (a % n)
  BY ModFacts
<1>2. a % n \in 0 .. n - 1
  BY ModFacts
<1> DEFINE s == a % n
<1> HIDE DEF s
<1>3. n * j + s = n * k + r /\ s \in 0 .. n - 1
  BY <1>1, <1>2 DEF s
<1>4. n * (j - k) = r - s
  <2>1. n * (j - k) = n * j - n * k
    OBVIOUS
  <2>2. n * j \in Int /\ n * k \in Int
    OBVIOUS
  <2> QED
    BY <1>3, <2>1, <2>2
<1>5. j - k = 0
  <2> DEFINE d == j - k
  <2>1. d \in Int /\ n * d = r - s /\ r - s < n /\ r - s > -n
    BY <1>3, <1>4
  <2> HIDE DEF d
  <2>2. ~(d >= 1)
    <3> SUFFICES ASSUME d >= 1 PROVE FALSE
      OBVIOUS
    <3>1. n * d >= n * 1
      BY <2>1
    <3> QED
      BY <2>1, <3>1
  <2>3. ~(d <= -1)
    <3> SUFFICES ASSUME d <= -1 PROVE FALSE
      OBVIOUS
    <3>1. n * d <= n * (-1)
      BY <2>1
    <3> QED
      BY <2>1, <3>1
  <2> QED
    BY <2>1, <2>2, <2>3 DEF d
<1> QED
  BY <1>3, <1>4, <1>5 DEF s

-----------------------------------------------------------------------------
(* Unwrapping.                                                              *)

(* The constants in the form the steps need.                                *)
LEMMA Constants ==
  /\ Wrap \in Nat /\ Dropout \in Nat /\ Window \in Nat /\ FirstSent \in Nat /\ LastSent \in Nat
  /\ MaxPackets \in Nat /\ MaxBytes \in Nat /\ MaxDelay \in Nat
  /\ Dropout > 0 /\ Window > 0 /\ Wrap > 0 /\ Dropout + Window <= Wrap
  /\ MaxFragments \in Nat /\ MaxFragments > 0 /\ MaxAge \in Nat /\ MaxAge > 0 /\ MaxDelay > 0
BY ReorderAssumption, ReceiverAssumption

(* A wire number is the source's number less whole wraps.                   *)
LEMMA WireFacts ==
  ASSUME NEW p \in Positions
  PROVE  /\ Wire(p) \in Wires /\ Wire(p) \in 0 .. Wrap - 1 /\ Wire(p) <= p
         /\ \E k \in Int : p = Wrap * k + Wire(p)
         /\ \E k \in Int : Wire(p) - p = Wrap * k
<1>1. Wrap \in Nat /\ Wrap > 0 /\ p \in Nat
  BY Constants DEF Positions
<1>2. Wire(p) \in 0 .. Wrap - 1
  BY <1>1, ModFacts DEF Wire
<1>3. PICK k \in Int : p = Wrap * k + Wire(p)
  BY <1>1, ModFacts DEF Wire
<1>4. Wire(p) - p = Wrap * (-k)
  <2>1. Wrap * (-k) = -(Wrap * k) /\ Wrap * k \in Int
    BY <1>1
  <2> QED
    BY <1>1, <1>2, <1>3, <2>1
<1>5. k >= 0
  <2> SUFFICES ASSUME k <= -1 PROVE FALSE
    OBVIOUS
  <2>1. Wrap * k <= Wrap * (-1)
    BY <1>1
  <2>2. Wrap * (-1) = -Wrap /\ Wrap * k \in Int
    BY <1>1
  <2> QED
    BY <1>1, <1>2, <1>3, <2>1, <2>2
<1>6. Wrap * k >= 0 /\ Wrap * k \in Int
  BY <1>1, <1>5
<1>7. -k \in Int
  OBVIOUS
<1>8. Wire(p) <= p
  BY <1>1, <1>2, <1>3, <1>6
<1>9. \E i \in Int : Wire(p) - p = Wrap * i
  BY <1>4, <1>7
<1> QED
  BY <1>2, <1>3, <1>8, <1>9 DEF Wires

(* The remainder of a difference of two numbers that are whole wraps apart. *)
LEMMA Residue ==
  ASSUME NEW n \in Nat, n > 0, NEW a \in Int, NEW b \in Int, NEW k \in Int, a = b + n * k
  PROVE  \E j \in Int : a = n * j + (b % n)
<1>1. PICK i \in Int : b = n * i + (b % n)
  BY ModFacts
<1>2. b % n \in Int /\ n * i \in Int /\ n * k \in Int
  BY ModFacts
<1>3. n * (i + k) = n * i + n * k
  OBVIOUS
<1>4. a = n * (i + k) + (b % n)
  BY <1>1, <1>2, <1>3
<1> QED
  BY <1>4

(* A number with remainder d that is closer than a wrap is the near one.    *)
LEMMA Nearest ==
  ASSUME NEW n \in Nat, n > 0, NEW a \in Int, NEW j \in Int, NEW d \in Int, a = n * j + d,
         a - d < n, d - a < n
  PROVE  a = d
<1>1. n * j \in Int /\ n * j < n /\ n * j > -n
  OBVIOUS
<1>2. ~(j >= 1)
  <2> SUFFICES ASSUME j >= 1 PROVE FALSE
    OBVIOUS
  <2>1. n * j >= n * 1
    OBVIOUS
  <2> QED
    BY <1>1, <2>1
<1>3. ~(j <= -1)
  <2> SUFFICES ASSUME j <= -1 PROVE FALSE
    OBVIOUS
  <2>1. n * j <= n * (-1)
    OBVIOUS
  <2> QED
    BY <1>1, <2>1
<1>4. j = 0
  BY <1>2, <1>3
<1> QED
  BY <1>4

(* While packets are unambiguous, the distance of the wire numbers is the   *)
(* distance of the extended ones.                                           *)
LEMMA Unwrap ==
  ASSUME TrackerOK, base # None, NEW p \in Positions, Unambiguous(p)
  PROVE  /\ Forward(Wire(p)) \in 0 .. Wrap - 1 /\ Behind(Wire(p)) \in 0 .. Wrap - 1
         /\ Forward(Wire(p)) \in 1 .. Dropout - 1 => p + offset = highest + Forward(Wire(p))
         /\ Forward(Wire(p)) \in {0} \cup (Wrap - Window + 1 .. Wrap - 1) =>
              Behind(Wire(p)) \in 0 .. Window - 1 /\ p + offset = highest - Behind(Wire(p))
<1> DEFINE w == Wire(p)
           x == p + offset
<1>1. /\ Wrap \in Nat /\ Wrap > 0 /\ p \in Nat /\ w \in Int /\ highest \in Nat /\ offset \in Int
      /\ Dropout \in Nat /\ Window \in Nat /\ Dropout > 0 /\ Window > 0 /\ x \in Int
  BY Constants, WireFacts DEF Positions, TrackerOK, TrackerTypes, Extended
<1>2. highest - x <= Wrap - Dropout /\ x - highest <= Wrap - Window
  BY <1>1 DEF Unambiguous
<1>3. PICK k \in Int : p = Wrap * k + w
  BY WireFacts
<1>4. PICK m \in Int : offset = Wrap * m
  BY DEF TrackerOK, Anchored
<1>5. x = w + Wrap * (k + m)
  <2>1. Wrap * (k + m) = Wrap * k + Wrap * m /\ Wrap * k \in Int /\ Wrap * m \in Int
    BY <1>1
  <2> QED
    BY <1>1, <1>3, <1>4, <2>1
<1>6. PICK i \in Int : x - highest = Wrap * i + ((w - highest) % Wrap)
  <2>1. x - highest = (w - highest) + Wrap * (k + m)
    <3>1. Wrap * (k + m) \in Int
      BY <1>1
    <3> QED
      BY <1>1, <1>5, <3>1
  <2> DEFINE a == x - highest
             b == w - highest
             c == k + m
  <2>2. a \in Int /\ b \in Int /\ c \in Int /\ a = b + Wrap * c
    BY <1>1, <2>1
  <2> HIDE DEF a, b, c
  <2>3. \E i \in Int : a = Wrap * i + (b % Wrap)
    BY <1>1, <2>2, Residue
  <2> QED
    BY <2>3 DEF a, b
<1>7. PICK j \in Int : highest - x = Wrap * j + ((highest - w) % Wrap)
  <2>1. highest - x = (highest - w) + Wrap * (-(k + m))
    <3>1. Wrap * (k + m) \in Int /\ Wrap * (-(k + m)) = -(Wrap * (k + m))
      BY <1>1
    <3> QED
      BY <1>1, <1>5, <3>1
  <2> DEFINE a == highest - x
             b == highest - w
             c == -(k + m)
  <2>2. a \in Int /\ b \in Int /\ c \in Int /\ a = b + Wrap * c
    BY <1>1, <2>1
  <2> HIDE DEF a, b, c
  <2>3. \E t \in Int : a = Wrap * t + (b % Wrap)
    BY <1>1, <2>2, Residue
  <2> QED
    BY <2>3 DEF a, b
<1>8. Forward(w) \in 0 .. Wrap - 1 /\ Behind(w) \in 0 .. Wrap - 1
  BY <1>1, ModFacts DEF Forward, Behind
<1>9. ASSUME Forward(w) \in 1 .. Dropout - 1
      PROVE  x - highest = Forward(w)
  <2>1. x - highest - Forward(w) < Wrap /\ Forward(w) - (x - highest) < Wrap
    BY <1>1, <1>2, <1>9
  <2>2. x - highest \in Int /\ Forward(w) \in Int /\ x - highest = Wrap * i + Forward(w)
    BY <1>1, <1>6, <1>8 DEF Forward
  <2> QED
    BY <1>1, <2>1, <2>2, Nearest
<1>10. ASSUME Forward(w) \in {0} \cup (Wrap - Window + 1 .. Wrap - 1)
       PROVE  Behind(w) \in 0 .. Window - 1
  <2>1. Wrap * (i + j) = -(Forward(w) + Behind(w))
    <3>1. Wrap * (i + j) = Wrap * i + Wrap * j /\ Wrap * i \in Int /\ Wrap * j \in Int
      BY <1>1
    <3>2. x - highest = Wrap * i + Forward(w) /\ highest - x = Wrap * j + Behind(w)
      BY <1>6, <1>7 DEF Forward, Behind
    <3> DEFINE u == Wrap * i
               v == Wrap * j
               y == x - highest
    <3>3. y = u + Forward(w) /\ highest - x = v + Behind(w) /\ highest - x = -y
      BY <1>1, <3>2
    <3>4. u \in Int /\ v \in Int /\ y \in Int /\ Wrap * (i + j) = u + v
      BY <1>1, <3>1
    <3> HIDE DEF u, v, y
    <3>5. u + v = -(Forward(w) + Behind(w))
      BY <1>8, <3>3, <3>4
    <3> QED
      BY <3>4, <3>5
  <2> DEFINE f == Forward(w)
             b == Behind(w)
             s == i + j
  <2>2. f \in 0 .. Wrap - 1 /\ b \in 0 .. Wrap - 1 /\ s \in Int /\ Wrap * s = -(f + b)
    BY <1>8, <2>1
  <2>3. f = 0 \/ f >= Wrap - Window + 1
    BY <1>1, <1>10
  <2> HIDE DEF f, b, s
  <2>4. s <= 0
    <3> SUFFICES ASSUME s >= 1 PROVE FALSE
      BY <2>2
    <3>1. Wrap * s >= Wrap * 1
      BY <1>1, <2>2
    <3> QED
      BY <1>1, <2>2, <3>1
  <2>5. s > -2
    <3> SUFFICES ASSUME s <= -2 PROVE FALSE
      BY <2>2
    <3>1. Wrap * s <= Wrap * (-2)
      BY <1>1, <2>2
    <3> QED
      BY <1>1, <2>2, <3>1
  <2>6. s = 0 \/ s = -1
    BY <2>2, <2>4, <2>5
  <2>7. b \in 0 .. Window - 1
    BY <1>1, <2>2, <2>3, <2>6
  <2> QED
    BY <2>7 DEF b
<1>11. ASSUME Forward(w) \in {0} \cup (Wrap - Window + 1 .. Wrap - 1)
       PROVE  highest - x = Behind(w)
  <2>1. highest - x - Behind(w) < Wrap /\ Behind(w) - (highest - x) < Wrap
    BY <1>1, <1>2, <1>10, <1>11
  <2>2. highest - x \in Int /\ Behind(w) \in Int /\ highest - x = Wrap * j + Behind(w)
    BY <1>1, <1>7, <1>8 DEF Behind
  <2> QED
    BY <1>1, <2>1, <2>2, Nearest
<1> QED
  BY <1>1, <1>8, <1>9, <1>10, <1>11

-----------------------------------------------------------------------------
(* One observation.                                                         *)

Quiet(o) ==
  /\ o.class \in {"probation", "before_baseline", "discontinuity", "restart_required"}
  /\ base' = base /\ highest' = highest /\ seen' = seen /\ unique' = unique

Baseline(w, o) ==
  /\ base = None /\ o.class = "baseline" /\ o.seq = w
  /\ base' = w /\ highest' = w /\ seen' = {0} /\ unique' = 1

Ahead(w, o) ==
  /\ base # None /\ Forward(w) \in 1 .. Dropout - 1
  /\ o.class = "advanced" /\ o.seq = highest + Forward(w)
  /\ base' = base /\ highest' = highest + Forward(w) /\ unique' = unique + 1
  /\ seen' = ({0} \cup {b + Forward(w) : b \in seen}) \cap (0 .. Window - 1)

Back(w, o) ==
  /\ base # None /\ Forward(w) \in {0} \cup (Wrap - Window + 1 .. Wrap - 1)
  /\ ~(highest < Behind(w)) /\ ~(highest - Behind(w) < base)
  /\ o.class = IF Behind(w) \in seen THEN "duplicate" ELSE "reordered"
  /\ o.seq = highest - Behind(w)
  /\ base' = base /\ highest' = highest
  /\ seen' = seen \cup {Behind(w)}
  /\ unique' = IF Behind(w) \in seen THEN unique ELSE unique + 1

(* The four things an observation can do, and the types it keeps.           *)
LEMMA ObserveCases ==
  ASSUME TrackerTypes, NEW w \in Wires, Install(Observe(w).tracker)
  PROVE  /\ \/ Quiet(Observe(w)) \/ Baseline(w, Observe(w))
            \/ Ahead(w, Observe(w)) \/ Back(w, Observe(w))
         /\ probation' \in Wires \cup {None} /\ badNext' \in Wires \cup {None}
         /\ restartRequired' \in BOOLEAN
<1> DEFINE o == Observe(w)
<1>1. /\ probation' = o.tracker.probation /\ base' = o.tracker.base
      /\ highest' = o.tracker.highest /\ seen' = o.tracker.seen
      /\ badNext' = o.tracker.badNext /\ restartRequired' = o.tracker.restart
      /\ unique' = o.tracker.unique
  BY DEF Install
<1>2. /\ probation \in Wires \cup {None} /\ badNext \in Wires \cup {None}
      /\ restartRequired \in BOOLEAN
  BY DEF TrackerTypes
<1>3. w \in Wires \cup {None} /\ (w + 1) % Wrap \in Wires \cup {None}
  <2>1. w + 1 \in Int /\ Wrap \in Nat /\ Wrap > 0
    BY Constants DEF Wires
  <2> QED
    BY <2>1, ModFacts DEF Wires
<1>4. CASE restartRequired
  <2>1. o = Observation("restart_required", None, Tracker)
    BY <1>4 DEF Observe
  <2> HIDE DEF o
  <2> QED
    BY <1>1, <1>2, <2>1 DEF Observation, Tracker, Quiet, o
<1>5. CASE ~restartRequired /\ base = None
  <2>1. o = Probe(w)
    BY <1>5 DEF Observe
  <2>2. CASE probation # None /\ w = (probation + 1) % Wrap
    <3>1. o = Observation("baseline", w, [Tracker EXCEPT !.base = w, !.highest = w,
                                                         !.seen = {0}, !.unique = 1])
      BY <2>1, <2>2 DEF Probe
    <3> HIDE DEF o
    <3>2. o.class = "baseline" /\ o.seq = w
      BY <3>1 DEF Observation
    <3>3. /\ base' = w /\ highest' = w /\ seen' = {0} /\ unique' = 1
          /\ probation' = probation /\ badNext' = badNext /\ restartRequired' = restartRequired
      BY <1>1, <3>1 DEF Observation, Tracker
    <3> QED
      BY <1>2, <1>5, <3>2, <3>3 DEF Baseline, o
  <2>3. CASE ~(probation # None /\ w = (probation + 1) % Wrap)
    <3>1. o = Observation("probation", None, [Tracker EXCEPT !.probation = w])
      BY <2>1, <2>3 DEF Probe
    <3> HIDE DEF o
    <3> QED
      BY <1>1, <1>2, <1>3, <3>1 DEF Observation, Tracker, Quiet, o
  <2> QED
    BY <2>2, <2>3
<1>6. CASE ~restartRequired /\ base # None /\ Forward(w) \in 1 .. Dropout - 1
  <2>0. ~(Forward(w) \in {0} \cup (Wrap - Window + 1 .. Wrap - 1))
    BY <1>6, Constants
  <2>1. o = Advance(w)
    BY <1>6, <2>0 DEF Observe
  <2> HIDE DEF o
  <2>2. o.class = "advanced" /\ o.seq = highest + Forward(w)
    BY <2>1 DEF Advance, Observation
  <2>3. /\ base' = base /\ highest' = highest + Forward(w) /\ unique' = unique + 1
        /\ seen' = ({0} \cup {b + Forward(w) : b \in seen}) \cap (0 .. Window - 1)
        /\ probation' = probation /\ badNext' = None /\ restartRequired' = restartRequired
    BY <1>1, <2>1 DEF Advance, Observation, Tracker
  <2> QED
    BY <1>2, <1>6, <2>2, <2>3 DEF Ahead, o
<1>7. CASE /\ ~restartRequired /\ base # None
           /\ Forward(w) \in {0} \cup (Wrap - Window + 1 .. Wrap - 1)
  <2>1. ~(Forward(w) \in 1 .. Dropout - 1)
    BY <1>7, Constants
  <2>2. o = Recover(w)
    BY <1>7, <2>1 DEF Observe
  <2>3. CASE highest < Behind(w) \/ highest - Behind(w) < base
    <3>1. o = Observation("before_baseline", None, Tracker)
      BY <2>2, <2>3 DEF Recover
    <3> HIDE DEF o
    <3> QED
      BY <1>1, <1>2, <3>1 DEF Observation, Tracker, Quiet, o
  <2>4. CASE ~(highest < Behind(w) \/ highest - Behind(w) < base)
    <3>1. o = Observation(IF Behind(w) \in seen THEN "duplicate" ELSE "reordered",
                   highest - Behind(w),
                   [Tracker EXCEPT !.seen = @ \cup {Behind(w)}, !.badNext = None,
                                   !.unique = IF Behind(w) \in seen THEN @ ELSE @ + 1])
      BY <2>2, <2>4 DEF Recover
    <3> HIDE DEF o
    <3>2. /\ o.class = IF Behind(w) \in seen THEN "duplicate" ELSE "reordered"
          /\ o.seq = highest - Behind(w)
      BY <3>1 DEF Observation
    <3>3. /\ base' = base /\ highest' = highest /\ seen' = seen \cup {Behind(w)}
          /\ unique' = IF Behind(w) \in seen THEN unique ELSE unique + 1
          /\ probation' = probation /\ badNext' = None /\ restartRequired' = restartRequired
      BY <1>1, <3>1 DEF Observation, Tracker
    <3> QED
      BY <1>2, <1>7, <2>4, <3>2, <3>3 DEF Back, o
  <2> QED
    BY <2>3, <2>4
<1>8. CASE /\ ~restartRequired /\ base # None
           /\ ~(Forward(w) \in 1 .. Dropout - 1)
           /\ ~(Forward(w) \in {0} \cup (Wrap - Window + 1 .. Wrap - 1))
  <2>1. o = Suspect(w)
    BY <1>8 DEF Observe
  <2>2. \/ o = Observation("restart_required", None, [Tracker EXCEPT !.restart = TRUE])
        \/ o = Observation("discontinuity", None, [Tracker EXCEPT !.badNext = (w + 1) % Wrap])
    BY <2>1 DEF Suspect
  <2> HIDE DEF o
  <2>3. CASE o = Observation("restart_required", None, [Tracker EXCEPT !.restart = TRUE])
    <3>1. restartRequired' = TRUE
      BY <1>1, <2>3 DEF Observation, Tracker
    <3>2. /\ base' = base /\ highest' = highest /\ seen' = seen /\ unique' = unique
          /\ probation' = probation /\ badNext' = badNext
          /\ o.class = "restart_required"
      BY <1>1, <2>3 DEF Observation, Tracker
    <3> QED
      BY <1>2, <3>1, <3>2 DEF Quiet, o
  <2>4. CASE o = Observation("discontinuity", None, [Tracker EXCEPT !.badNext = (w + 1) % Wrap])
    <3>1. badNext' = (w + 1) % Wrap
      BY <1>1, <2>4 DEF Observation, Tracker
    <3>2. /\ base' = base /\ highest' = highest /\ seen' = seen /\ unique' = unique
          /\ probation' = probation /\ restartRequired' = restartRequired
          /\ o.class = "discontinuity"
      BY <1>1, <2>4 DEF Observation, Tracker
    <3> QED
      BY <1>2, <1>3, <3>1, <3>2 DEF Quiet, o
  <2> QED
    BY <2>2, <2>3, <2>4
<1> QED
  BY <1>2, <1>4, <1>5, <1>6, <1>7, <1>8

(* Source numbers are finitely many.                                        *)
LEMMA HeardFinite ==
  ASSUME NEW H \in SUBSET Positions
  PROVE  IsFiniteSet(H) /\ Cardinality(H) \in 0 .. LastSent + 1
<1>1. LastSent \in Nat /\ 0 \in Int /\ LastSent \in Int
  BY Constants
<1>2. IsFiniteSet(0 .. LastSent) /\ Cardinality(0 .. LastSent) = LastSent + 1
  BY <1>1, FS_Interval
<1>3. H \subseteq 0 .. LastSent
  BY Constants DEF Positions
<1>4. IsFiniteSet(H) /\ Cardinality(H) <= LastSent + 1
  BY <1>2, <1>3, FS_Subset
<1>5. Cardinality(H) \in Nat
  BY <1>4, FS_CardinalityType
<1> QED
  BY <1>1, <1>4, <1>5

(* What a caller of the tracker may rely on: a unique packet is new, and    *)
(* its extended sequence is at its own distance from the source's number;   *)
(* the window afterwards holds what it held, and the unique packet.         *)
Heeded(p, o) ==
  /\ IsUnique(o) => /\ o.seq = p + offset' /\ p \notin heard /\ heard' = heard \cup {p}
                    /\ base' # None /\ base' <= o.seq /\ o.seq \in Extended
                    /\ base = None => o.seq = base'
                    /\ \A b \in seen' : highest' - b = o.seq
                                          \/ \E c \in seen : highest' - b = highest - c
  /\ base # None => base' = base /\ offset' = offset
  /\ ~IsUnique(o) => heard' = heard /\ base' = base /\ offset' = offset /\ highest' = highest
                     /\ seen' = seen

(* Nothing that matters changes on a packet that is not taken.              *)
LEMMA QuietStep ==
  ASSUME TrackerOK, NEW p \in Positions, NEW o, Quiet(o), Hear(p, o),
         probation' \in Wires \cup {None}, badNext' \in Wires \cup {None},
         restartRequired' \in BOOLEAN
  PROVE  TrackerOK' /\ Heeded(p, o)
<1>1. ~IsUnique(o) /\ o.class # "duplicate" /\ o.class # "baseline"
  BY DEF Quiet, IsUnique
<1>2. heard' = heard /\ offset' = offset
  BY <1>1 DEF Hear
<1>3. base' = base /\ highest' = highest /\ seen' = seen /\ unique' = unique
  BY DEF Quiet
<1>4. TrackerTypes'
  BY <1>2, <1>3 DEF TrackerOK, TrackerTypes
<1>5. (base = None => Untouched)'
  BY <1>2, <1>3 DEF TrackerOK, Untouched
<1>6. (base # None => Anchored)'
  BY <1>2, <1>3 DEF TrackerOK, Anchored
<1>7. (unique = Cardinality(heard))'
  BY <1>2, <1>3 DEF TrackerOK
<1> QED
  BY <1>1, <1>2, <1>3, <1>4, <1>5, <1>6, <1>7 DEF TrackerOK, Heeded

(* The baseline fixes the offset.                                           *)
LEMMA BaselineStep ==
  ASSUME TrackerOK, NEW p \in Positions, NEW o, Baseline(Wire(p), o), Hear(p, o),
         probation' \in Wires \cup {None}, badNext' \in Wires \cup {None},
         restartRequired' \in BOOLEAN
  PROVE  TrackerOK' /\ Heeded(p, o)
<1> DEFINE w == Wire(p)
<1>1. /\ base = None /\ o.class = "baseline" /\ o.seq = w
      /\ base' = w /\ highest' = w /\ seen' = {0} /\ unique' = 1
  BY DEF Baseline
<1>2. IsUnique(o) /\ heard' = heard \cup {p} /\ offset' = w - p
  BY <1>1 DEF IsUnique, Hear
<1>3. heard = {} /\ heard' = {p}
  BY <1>1, <1>2 DEF TrackerOK, Untouched
<1>4. /\ w \in Nat /\ w <= p /\ p \in Nat /\ p <= LastSent /\ LastSent \in Nat
      /\ Window \in Nat /\ Window > 0 /\ \E k \in Int : w - p = Wrap * k
  <2>1. w \in 0 .. Wrap - 1 /\ w <= p /\ \E k \in Int : w - p = Wrap * k
    BY WireFacts
  <2>2. w \in Nat /\ p \in Nat /\ p <= LastSent
    BY <2>1, Constants DEF Positions
  <2> QED
    BY <2>1, <2>2, Constants
<1>5. w \in Extended /\ w # None
  BY <1>4 DEF Extended, None
<1>6. TrackerTypes'
  <2>1. seen' \in SUBSET (0 .. Window - 1)
    BY <1>1, <1>4
  <2>2. unique' \in 0 .. LastSent + 1
    BY <1>1, <1>4
  <2>3. offset' \in Int /\ heard' \subseteq Positions
    BY <1>2, <1>3, <1>4
  <2> QED
    BY <1>1, <1>5, <2>1, <2>2, <2>3 DEF TrackerTypes
<1>7. Anchored'
  <2>1. (\E k \in Int : offset = Wrap * k)'
    BY <1>2, <1>4
  <2>2. offset' <= 0 /\ base' <= highest'
    BY <1>1, <1>2, <1>4
  <2>3. \A h \in heard' : base' <= h + offset' /\ h + offset' <= highest'
    BY <1>1, <1>2, <1>3, <1>4
  <2>4. \A b \in 0 .. Window - 1 : b \in seen' <=> (highest' - b) - offset' \in heard'
    BY <1>1, <1>2, <1>3, <1>4
  <2> QED
    BY <2>1, <2>2, <2>3, <2>4 DEF Anchored
<1>8. unique' = Cardinality(heard')
  BY <1>1, <1>3, FS_Singleton
<1>9. Heeded(p, o)
  <2>1. o.seq = p + offset' /\ base' <= o.seq
    BY <1>1, <1>2, <1>4
  <2>2. \A b \in seen' : highest' - b = o.seq
    BY <1>1, <1>4
  <2> QED
    BY <1>1, <1>2, <1>3, <1>5, <2>1, <2>2 DEF Heeded
<1> QED
  BY <1>1, <1>5, <1>6, <1>7, <1>8, <1>9 DEF TrackerOK

(* A packet ahead of the highest shifts the window.                         *)
LEMMA AheadStep ==
  ASSUME TrackerOK, NEW p \in Positions, Unambiguous(p), NEW o, Ahead(Wire(p), o), Hear(p, o),
         probation' \in Wires \cup {None}, badNext' \in Wires \cup {None},
         restartRequired' \in BOOLEAN
  PROVE  TrackerOK' /\ Heeded(p, o)
<1> DEFINE f == Forward(Wire(p))
<1>1. /\ base # None /\ f \in 1 .. Dropout - 1 /\ o.class = "advanced" /\ o.seq = highest + f
      /\ base' = base /\ highest' = highest + f /\ unique' = unique + 1
      /\ seen' = ({0} \cup {b + f : b \in seen}) \cap (0 .. Window - 1)
  BY DEF Ahead
<1>2. p + offset = highest + f
  BY <1>1, Unwrap
<1>3. IsUnique(o) /\ heard' = heard \cup {p} /\ offset' = offset
  BY <1>1 DEF IsUnique, Hear
<1> HIDE DEF f
<1>4. /\ f \in Nat /\ f >= 1 /\ p \in Nat /\ p <= LastSent /\ LastSent \in Nat
      /\ Window \in Nat /\ Window > 0 /\ highest \in Nat /\ offset \in Int
      /\ base \in Nat /\ unique \in Nat
      /\ heard \subseteq Positions /\ seen \subseteq 0 .. Window - 1
  BY <1>1, Constants DEF Positions, TrackerOK, TrackerTypes, Extended
<1>5. /\ \E k \in Int : offset = Wrap * k
      /\ offset <= 0 /\ base <= highest
      /\ \A h \in heard : base <= h + offset /\ h + offset <= highest
      /\ \A b \in 0 .. Window - 1 : b \in seen <=> (highest - b) - offset \in heard
  BY <1>1 DEF TrackerOK, Anchored
<1>6. highest + f \in Extended
  BY <1>2, <1>4, <1>5 DEF Extended
<1>7. p \notin heard
  BY <1>2, <1>4, <1>5
<1>8. heard' \subseteq Positions /\ unique' = Cardinality(heard')
  <2>1. IsFiniteSet(heard)
    BY <1>4, HeardFinite
  <2>2. Cardinality(heard') = Cardinality(heard) + 1
    BY <1>3, <1>7, <2>1, FS_AddElement
  <2> QED
    BY <1>1, <1>3, <1>4, <2>2 DEF TrackerOK
<1>9. TrackerTypes'
  <2>1. seen' \in SUBSET (0 .. Window - 1)
    BY <1>1
  <2>2. unique' \in 0 .. LastSent + 1
    BY <1>8, HeardFinite
  <2>3. base' \in Extended \cup {None}
    BY <1>1 DEF TrackerOK, TrackerTypes
  <2> QED
    BY <1>1, <1>3, <1>4, <1>6, <1>8, <2>1, <2>2, <2>3 DEF TrackerTypes
<1>10. Anchored'
  <2>1. (\E k \in Int : offset = Wrap * k)'
    BY <1>3, <1>5
  <2>2. offset' <= 0 /\ base' <= highest'
    BY <1>1, <1>3, <1>4, <1>5
  <2>3. \A h \in heard' : base' <= h + offset' /\ h + offset' <= highest'
    <3> SUFFICES ASSUME NEW h \in heard'
                 PROVE  base' <= h + offset' /\ h + offset' <= highest'
      OBVIOUS
    <3>1. CASE h = p
      BY <1>1, <1>2, <1>3, <1>4, <1>5, <3>1
    <3>2. CASE h \in heard
      <4>1. h \in Int /\ base <= h + offset /\ h + offset <= highest
        BY <1>4, <1>5, <3>2 DEF Positions
      <4> QED
        BY <1>1, <1>3, <1>4, <4>1
    <3> QED
      BY <1>3, <3>1, <3>2
  <2>4. \A b \in 0 .. Window - 1 : b \in seen' <=> (highest' - b) - offset' \in heard'
    <3> SUFFICES ASSUME NEW b \in 0 .. Window - 1
                 PROVE  b \in seen' <=> ((highest + f) - b) - offset \in heard \cup {p}
      BY <1>1, <1>3
    <3>1. CASE b = 0
      <4>1. b \in seen' /\ ((highest + f) - b) - offset = p
        BY <1>1, <1>2, <1>4, <3>1
      <4> QED
        BY <4>1
    <3>2. CASE b > 0 /\ b < f
      <4>1. \A c \in seen : c + f # b
        BY <1>4, <3>2
      <4>2. b \notin seen'
        BY <1>1, <3>2, <4>1
      <4>3. ((highest + f) - b) - offset \notin heard
        BY <1>4, <1>5, <3>2
      <4>4. ((highest + f) - b) - offset # p
        BY <1>2, <1>4, <3>2
      <4> QED
        BY <4>2, <4>3, <4>4
    <3>3. CASE b >= f
      <4>1. b - f \in 0 .. Window - 1
        BY <1>4, <3>3
      <4>2. b - f \in seen <=> (highest - (b - f)) - offset \in heard
        BY <1>5, <4>1
      <4>3. (highest - (b - f)) - offset = ((highest + f) - b) - offset
        BY <1>4
      <4>4. b \in {c + f : c \in seen} <=> b - f \in seen
        BY <1>4
      <4>5. ((highest + f) - b) - offset # p
        BY <1>2, <1>4, <3>3
      <4>6. b # 0
        BY <1>4, <3>3
      <4>7. b \in seen' <=> b - f \in seen
        BY <1>1, <4>4, <4>6
      <4> QED
        BY <4>2, <4>3, <4>5, <4>7
    <3> QED
      BY <1>4, <3>1, <3>2, <3>3
  <2> QED
    BY <2>1, <2>2, <2>3, <2>4 DEF Anchored
<1>11. Heeded(p, o)
  <2>1. o.seq = p + offset' /\ base' <= o.seq /\ o.seq \in Extended
    BY <1>1, <1>2, <1>3, <1>4, <1>5, <1>6
  <2>2. ASSUME NEW b \in seen'
        PROVE  highest' - b = o.seq \/ \E c \in seen : highest' - b = highest - c
    <3>1. CASE b = 0
      BY <1>1, <1>4, <3>1
    <3>2. CASE \E c \in seen : b = c + f
      <4>1. PICK c \in seen : b = c + f
        BY <3>2
      <4>2. highest' - b = highest - c
        BY <1>1, <1>4, <4>1
      <4> QED
        BY <4>2
    <3> QED
      BY <1>1, <3>1, <3>2
  <2> QED
    BY <1>1, <1>3, <1>7, <2>1, <2>2 DEF Heeded
<1> QED
  BY <1>1, <1>8, <1>9, <1>10, <1>11 DEF TrackerOK

(* A packet behind the highest sets its bit, and is unique if it was clear. *)
LEMMA BackStep ==
  ASSUME TrackerOK, NEW p \in Positions, Unambiguous(p), NEW o, Back(Wire(p), o), Hear(p, o),
         probation' \in Wires \cup {None}, badNext' \in Wires \cup {None},
         restartRequired' \in BOOLEAN
  PROVE  TrackerOK' /\ Heeded(p, o)
<1> DEFINE e == Behind(Wire(p))
<1>1. /\ base # None /\ ~(highest < e) /\ ~(highest - e < base)
      /\ o.class = IF e \in seen THEN "duplicate" ELSE "reordered"
      /\ o.seq = highest - e /\ base' = base /\ highest' = highest /\ seen' = seen \cup {e}
      /\ unique' = IF e \in seen THEN unique ELSE unique + 1
  BY DEF Back
<1>2. e \in 0 .. Window - 1 /\ p + offset = highest - e
  BY <1>1, Unwrap DEF Back
<1>3. heard' = heard \cup {p} /\ offset' = offset /\ (IsUnique(o) <=> e \notin seen)
  BY <1>1 DEF IsUnique, Hear
<1> HIDE DEF e
<1>4. /\ e \in Nat /\ p \in Nat /\ p <= LastSent /\ LastSent \in Nat
      /\ Window \in Nat /\ Window > 0 /\ highest \in Nat /\ offset \in Int
      /\ base \in Nat /\ unique \in Nat /\ highest <= LastSent
      /\ heard \subseteq Positions /\ seen \subseteq 0 .. Window - 1
  BY <1>1, <1>2, Constants DEF Positions, TrackerOK, TrackerTypes, Extended
<1>5. /\ \E k \in Int : offset = Wrap * k
      /\ offset <= 0 /\ base <= highest
      /\ \A h \in heard : base <= h + offset /\ h + offset <= highest
      /\ \A b \in 0 .. Window - 1 : b \in seen <=> (highest - b) - offset \in heard
  BY <1>1 DEF TrackerOK, Anchored
<1>6. highest - e \in Extended /\ base <= highest - e
  BY <1>1, <1>4 DEF Extended
<1>7. p = (highest - e) - offset /\ (e \in seen <=> p \in heard)
  <2>1. p = (highest - e) - offset
    BY <1>2, <1>4
  <2> QED
    BY <1>2, <1>5, <2>1
<1>8. heard' \subseteq Positions /\ unique' = Cardinality(heard')
  <2>1. IsFiniteSet(heard)
    BY <1>4, HeardFinite
  <2>2. p \notin heard => Cardinality(heard') = Cardinality(heard) + 1
    BY <1>3, <2>1, FS_AddElement
  <2>3. p \in heard => heard' = heard
    BY <1>3
  <2> QED
    BY <1>1, <1>3, <1>4, <1>7, <2>2, <2>3 DEF TrackerOK
<1>9. TrackerTypes'
  <2>1. seen' \in SUBSET (0 .. Window - 1)
    BY <1>1, <1>2, <1>4
  <2>2. unique' \in 0 .. LastSent + 1
    BY <1>8, HeardFinite
  <2>3. base' \in Extended \cup {None} /\ highest' \in Extended
    BY <1>1 DEF TrackerOK, TrackerTypes
  <2> QED
    BY <1>1, <1>3, <1>4, <1>8, <2>1, <2>2, <2>3 DEF TrackerTypes
<1>10. Anchored'
  <2>1. (\E k \in Int : offset = Wrap * k)'
    BY <1>3, <1>5
  <2>2. offset' <= 0 /\ base' <= highest'
    BY <1>1, <1>3, <1>4, <1>5
  <2>3. \A h \in heard' : base' <= h + offset' /\ h + offset' <= highest'
    <3>1. base <= p + offset /\ p + offset <= highest
      BY <1>2, <1>4, <1>6
    <3> QED
      BY <1>1, <1>3, <1>5, <3>1
  <2>4. \A b \in 0 .. Window - 1 : b \in seen' <=> (highest' - b) - offset' \in heard'
    <3> SUFFICES ASSUME NEW b \in 0 .. Window - 1
                 PROVE  b \in seen \cup {e} <=> (highest - b) - offset \in heard \cup {p}
      BY <1>1, <1>3
    <3>1. (highest - b) - offset = p <=> b = e
      BY <1>4, <1>7
    <3> QED
      BY <1>5, <3>1
  <2> QED
    BY <2>1, <2>2, <2>3, <2>4 DEF Anchored
<1>11. Heeded(p, o)
  <2>1. o.seq = p + offset' /\ base' <= o.seq /\ o.seq \in Extended
    BY <1>1, <1>2, <1>3, <1>6
  <2>2. \A b \in seen' : highest' - b = o.seq \/ \E c \in seen : highest' - b = highest - c
    BY <1>1
  <2>3. ~IsUnique(o) => heard' = heard /\ seen' = seen
    BY <1>1, <1>3, <1>7
  <2>4. IsUnique(o) => p \notin heard
    BY <1>3, <1>7
  <2> QED
    BY <1>1, <1>3, <2>1, <2>2, <2>3, <2>4 DEF Heeded
<1> QED
  BY <1>1, <1>8, <1>9, <1>10, <1>11 DEF TrackerOK

(* The tracker keeps its invariant through every observation.               *)
LEMMA TrackerStep ==
  ASSUME TrackerOK, NEW p \in Positions, Unambiguous(p),
         Install(Observe(Wire(p)).tracker), Hear(p, Observe(Wire(p)))
  PROVE  TrackerOK' /\ Heeded(p, Observe(Wire(p)))
<1>1. Wire(p) \in Wires /\ TrackerTypes
  BY WireFacts DEF TrackerOK
<1>2. /\ \/ Quiet(Observe(Wire(p))) \/ Baseline(Wire(p), Observe(Wire(p)))
         \/ Ahead(Wire(p), Observe(Wire(p))) \/ Back(Wire(p), Observe(Wire(p)))
      /\ probation' \in Wires \cup {None} /\ badNext' \in Wires \cup {None}
      /\ restartRequired' \in BOOLEAN
  BY <1>1, ObserveCases
<1> QED
  BY <1>2, QuietStep, BaselineStep, AheadStep, BackStep

(* The tracker's count cannot exceed the span it has seen.                  *)
LEMMA SpanBounds ==
  ASSUME TrackerOK, base # None
  PROVE  unique <= highest - base + 1
<1> DEFINE a == base - offset
           z == highest - offset
<1>1. a \in Int /\ z \in Int /\ a <= z /\ z - a + 1 = highest - base + 1
  BY DEF TrackerOK, TrackerTypes, Anchored, Extended, None
<1>2. heard \subseteq a .. z
  <2> SUFFICES ASSUME NEW h \in heard PROVE h \in a .. z
    OBVIOUS
  <2>1. h \in Int /\ base <= h + offset /\ h + offset <= highest
    BY DEF TrackerOK, TrackerTypes, Anchored, Positions
  <2>2. base \in Int /\ offset \in Int /\ highest \in Int
    BY DEF TrackerOK, TrackerTypes, Extended, None
  <2> QED
    BY <2>1, <2>2
<1> HIDE DEF a, z
<1>3. IsFiniteSet(a .. z) /\ Cardinality(a .. z) = z - a + 1
  BY <1>1, FS_Interval
<1>4. Cardinality(heard) <= z - a + 1
  BY <1>2, <1>3, FS_Subset
<1> QED
  BY <1>1, <1>4 DEF TrackerOK

-----------------------------------------------------------------------------
(* The queue and the log.                                                   *)

(* The sizes of a set of packets are numbers.                               *)
LEMMA SizesTyped ==
  ASSUME NEW Q, Q \subseteq Packet
  PROVE  [q \in Q |-> Size[q.body]] \in [Q -> Nat]
<1>1. \A q \in Q : Size[q.body] \in Nat
  BY ReorderAssumption DEF Packet
<1> QED
  BY <1>1

(* Retiring the queue leaves one that is well formed.                       *)
LEMMA EmptyQueue ==
  ASSUME queue' = {}, bytes' = 0
  PROVE  QueueOK'
<1>1. [q \in queue' |-> Size[q.body]] \in [{} -> Nat]
      /\ DOMAIN [q \in queue' |-> Size[q.body]] = {}
  OBVIOUS
<1>2. SumFunction([q \in queue' |-> Size[q.body]]) = 0
  BY <1>1, SumEmpty
<1>3. IsFiniteSet(queue') /\ Cardinality(queue') = 0
  BY FS_EmptySet
<1> QED
  BY <1>2, <1>3, Constants DEF QueueOK

(* A queue that is not empty has a first packet.                            *)
LEMMA FirstFacts ==
  ASSUME QueueOK, queue # {}
  PROVE  FirstQueued \in queue /\ \A r \in queue : FirstQueued.seq <= r.seq
<1> DEFINE B == {q.seq : q \in queue}
<1>1. B \in SUBSET (0 .. LastSent) /\ B # {} /\ LastSent \in Nat
  BY Constants DEF QueueOK, Packet, Extended
<1>2. PICK k \in B : \A m \in B : k <= m
  BY <1>1, LeastNumber
<1>3. PICK q \in queue : k = q.seq
  BY <1>2
<1>4. \A r \in queue : q.seq <= r.seq
  BY <1>2, <1>3
<1> QED
  BY <1>3, <1>4 DEF FirstQueued

(* An admitted packet joins the queue.                                      *)
LEMMA QueueInsert ==
  ASSUME QueueOK, NEW c \in Packet, c \notin queue, Cardinality(queue) < MaxPackets,
         bytes + Size[c.body] <= MaxBytes, queue' = queue \cup {c},
         bytes' = bytes + Size[c.body]
  PROVE  /\ IsFiniteSet(queue') /\ queue' \subseteq Packet /\ Cardinality(queue') <= MaxPackets
         /\ bytes' \in 0 .. MaxBytes /\ bytes' = SumFunction([q \in queue' |-> Size[q.body]])
<1> DEFINE f == [q \in queue \cup {c} |-> Size[q.body]]
           g == [q \in queue |-> Size[q.body]]
<1>1. queue \subseteq Packet /\ queue \cup {c} \subseteq Packet /\ IsFiniteSet(queue)
  BY DEF QueueOK
<1>2. f \in [queue \cup {c} -> Nat] /\ g \in [queue -> Nat]
  BY <1>1, SizesTyped
<1>3. /\ \A x \in queue : g[x] = f[x]
      /\ f[c] = Size[c.body] /\ bytes = SumFunction(g)
  BY DEF QueueOK
<1>4. Size[c.body] \in Nat
  BY ReorderAssumption DEF Packet
<1> HIDE DEF f, g
<1>5. SumFunction(f) = SumFunction(g) + f[c]
  BY <1>1, <1>2, <1>3, SumInsert
<1>6. bytes' = SumFunction(f)
  BY <1>3, <1>5
<1>7. bytes' \in 0 .. MaxBytes
  BY <1>4, Constants DEF QueueOK
<1>8. IsFiniteSet(queue') /\ Cardinality(queue') = Cardinality(queue) + 1
  BY <1>1, FS_AddElement
<1>9. Cardinality(queue') <= MaxPackets
  <2>1. Cardinality(queue) \in Nat
    BY <1>1, FS_CardinalityType
  <2> QED
    BY <1>8, <2>1, Constants
<1>10. bytes' = SumFunction([q \in queue' |-> Size[q.body]])
  BY <1>6 DEF f
<1> QED
  BY <1>1, <1>7, <1>8, <1>9, <1>10

(* A released packet leaves it.                                             *)
LEMMA QueueRemove ==
  ASSUME QueueOK, NEW c \in queue, queue' = queue \ {c}, bytes' = bytes - Size[c.body]
  PROVE  /\ IsFiniteSet(queue') /\ queue' \subseteq Packet /\ Cardinality(queue') <= MaxPackets
         /\ bytes' \in 0 .. MaxBytes /\ bytes' = SumFunction([q \in queue' |-> Size[q.body]])
<1> DEFINE f == [q \in queue |-> Size[q.body]]
           h == [q \in queue \ {c} |-> Size[q.body]]
<1>1. queue \subseteq Packet /\ queue \ {c} \subseteq Packet /\ IsFiniteSet(queue)
      /\ IsFiniteSet(queue \ {c})
  BY FS_RemoveElement DEF QueueOK
<1>2. f \in [queue -> Nat] /\ h \in [queue \ {c} -> Nat]
  BY <1>1, SizesTyped
<1>3. /\ \A x \in queue \ {c} : h[x] = f[x]
      /\ f[c] = Size[c.body] /\ bytes = SumFunction(f)
  BY DEF QueueOK
<1>4. Size[c.body] \in Nat
  BY <1>1, ReorderAssumption DEF Packet
<1> HIDE DEF f, h
<1>5. SumFunction(f) = SumFunction(h) + f[c]
  BY <1>1, <1>2, <1>3, SumRemove
<1>6. SumFunction(h) \in Nat
  BY <1>1, <1>2, SumType
<1>7. bytes' = SumFunction(h) /\ bytes' \in 0 .. MaxBytes
  BY <1>3, <1>4, <1>5, <1>6, Constants DEF QueueOK
<1>8. Cardinality(queue') <= MaxPackets
  <2>1. Cardinality(queue') <= Cardinality(queue) /\ Cardinality(queue) <= MaxPackets
    BY <1>1, FS_Subset DEF QueueOK
  <2>2. Cardinality(queue) \in Nat /\ Cardinality(queue') \in Nat
    BY <1>1, FS_CardinalityType
  <2> QED
    BY <2>1, <2>2, Constants
<1>9. bytes' = SumFunction([q \in queue' |-> Size[q.body]])
  BY <1>7 DEF h
<1> QED
  BY <1>1, <1>7, <1>8, <1>9

(* The log of what was released grows by the entry for the next position.   *)
LEMMA LogGrows ==
  ASSUME LogOK, base \in Nat, nextSequence \in Nat, base <= nextSequence,
         log = <<>> => nextSequence = base,
         NEW e \in Entry, e.first = nextSequence, e.first <= e.last,
         e.pos # None => e.first = e.pos + offset /\ e.last = e.first,
         log' = Append(log, e), nextSequence' = e.last + 1, base' = base, offset' = offset
  PROVE  LogOK' /\ log' # <<>>
<1>1. log \in Seq(Entry)
  BY DEF LogOK
<1> DEFINE n == Len(log)
<1>2. /\ n \in Nat /\ log' \in Seq(Entry) /\ Len(log') = n + 1 /\ log'[n + 1] = e
      /\ \A i \in 1 .. n : log'[i] = log[i]
  BY <1>1
<1>3. \A i \in 1 .. n : log[i] \in Entry
  BY <1>1
<1>4. e.first \in Nat /\ e.last \in Nat
  BY DEF Entry
<1>5. n = 0 <=> log = <<>>
  BY <1>1
<1>6. \A i \in 1 .. n : log[i].pos # None => log[i].first = log[i].pos + offset
                                            /\ log[i].last = log[i].first
  BY DEF LogOK
<1>7. log # <<>> => log[1].first = base
  BY DEF LogOK, OutputTiles
<1>8. \A i \in 1 .. n : /\ log[i].first <= log[i].last
                        /\ log[i].last + 1 = IF i < n THEN log[i + 1].first ELSE nextSequence
  BY DEF LogOK, OutputTiles
<1>9. \A x \in base .. nextSequence - 1 : \E i \in 1 .. n : log[i].first <= x /\ x <= log[i].last
  BY DEF LogOK, None
<1> HIDE DEF n
<1>10. \A i \in 1 .. n + 1 : log'[i].pos # None => log'[i].first = log'[i].pos + offset
                                                  /\ log'[i].last = log'[i].first
  <2> SUFFICES ASSUME NEW i \in 1 .. n + 1, log'[i].pos # None
               PROVE  log'[i].first = log'[i].pos + offset /\ log'[i].last = log'[i].first
    OBVIOUS
  <2>1. CASE i = n + 1
    BY <1>2, <2>1
  <2>2. CASE i \in 1 .. n
    BY <1>2, <1>6, <2>2
  <2> QED
    BY <1>2, <2>1, <2>2
<1>11. log'[1].first = base
  <2>1. CASE n = 0
    BY <1>2, <1>5, <2>1
  <2>2. CASE n # 0
    <3>1. 1 \in 1 .. n
      BY <1>2, <2>2
    <3> QED
      BY <1>2, <1>5, <1>7, <2>2, <3>1
  <2> QED
    BY <2>1, <2>2
<1>12. \A i \in 1 .. n + 1 :
         /\ log'[i].first <= log'[i].last
         /\ log'[i].last + 1 = IF i < n + 1 THEN log'[i + 1].first ELSE e.last + 1
  <2> SUFFICES ASSUME NEW i \in 1 .. n + 1
               PROVE  /\ log'[i].first <= log'[i].last
                      /\ log'[i].last + 1 = IF i < n + 1 THEN log'[i + 1].first ELSE e.last + 1
    OBVIOUS
  <2>1. CASE i = n + 1
    BY <1>2, <2>1
  <2>2. CASE i = n
    <3>1. i \in 1 .. n /\ i + 1 = n + 1 /\ i < n + 1 /\ ~(i < n)
      BY <1>2, <2>2
    <3>2. log'[i] = log[i] /\ log'[i + 1] = e /\ log[i].last + 1 = nextSequence
      BY <1>2, <1>8, <3>1
    <3> QED
      BY <1>8, <3>1, <3>2
  <2>3. CASE i < n
    <3>1. i \in 1 .. n /\ i + 1 \in 1 .. n /\ i < n + 1
      BY <1>2, <2>3
    <3> QED
      BY <1>2, <1>8, <2>3, <3>1
  <2> QED
    BY <1>2, <2>1, <2>2, <2>3
<1>13. \A x \in base .. (e.last + 1) - 1 :
         \E i \in 1 .. n + 1 : log'[i].first <= x /\ x <= log'[i].last
  <2> SUFFICES ASSUME NEW x \in base .. (e.last + 1) - 1
               PROVE  \E i \in 1 .. n + 1 : log'[i].first <= x /\ x <= log'[i].last
    OBVIOUS
  <2>1. CASE x < nextSequence
    <3>1. x \in base .. nextSequence - 1
      BY <2>1
    <3>2. PICK i \in 1 .. n : log[i].first <= x /\ x <= log[i].last
      BY <1>9, <3>1
    <3>3. i \in 1 .. n + 1 /\ log'[i] = log[i]
      BY <1>2, <3>2
    <3> QED
      BY <3>2, <3>3
  <2>2. CASE x >= nextSequence
    <3>1. n + 1 \in 1 .. n + 1 /\ log'[n + 1].first <= x /\ x <= log'[n + 1].last
      BY <1>2, <1>4, <2>2
    <3> QED
      BY <3>1
  <2>3. x < nextSequence \/ x >= nextSequence
    BY <1>4
  <2> QED
    BY <2>1, <2>2, <2>3
<1>14. OutputTiles'
  BY <1>2, <1>11, <1>12 DEF OutputTiles
<1>15. log' # <<>>
  BY <1>2
<1> QED
  BY <1>2, <1>10, <1>13, <1>14, <1>15 DEF LogOK

(* A log that stays, stays well formed.                                     *)
LEMMA LogKept ==
  ASSUME LogOK, log' = log, nextSequence' = nextSequence, base' = base, offset' = offset
  PROVE  LogOK'
<1>1. OutputTiles'
  BY DEF LogOK, OutputTiles
<1> QED
  BY <1>1 DEF LogOK

-----------------------------------------------------------------------------
(* The steps of the buffer.                                                 *)

(* Ingest keeps the buffer's invariant when a packet is queued.             *)
LEMMA AdmitStep ==
  ASSUME ReorderInv, NEW p \in Positions, NEW body \in Bodies, Unambiguous(p), Admit(p, body)
  PROVE  ReorderInv'
<1> DEFINE o == Observe(Wire(p))
           c == [seq |-> o.seq, pos |-> p, body |-> body, age |-> 0]
<1>1. /\ IsUnique(o) /\ ~TooLate(o)
      /\ Cardinality(queue) < MaxPackets /\ bytes + Size[body] <= MaxBytes
      /\ queue' = queue \cup {c} /\ bytes' = bytes + Size[body]
      /\ nextSequence' = IF nextSequence = None THEN o.seq ELSE nextSequence
      /\ Install(o.tracker) /\ Hear(p, o) /\ phase' = phase /\ log' = log
  BY DEF Admit
<1>2. TrackerOK /\ BufferOK
  BY DEF ReorderInv
<1>3. TrackerOK' /\ Heeded(p, o)
  BY <1>1, <1>2, TrackerStep
<1> HIDE DEF o
<1>4. /\ o.seq = p + offset' /\ p \notin heard /\ heard' = heard \cup {p}
      /\ base' # None /\ base' <= o.seq /\ o.seq \in Extended
      /\ base = None => o.seq = base'
      /\ \A b \in seen' : highest' - b = o.seq \/ \E d \in seen : highest' - b = highest - d
      /\ base # None => base' = base /\ offset' = offset
  BY <1>1, <1>3 DEF Heeded
<1>5. o.seq \in Nat /\ offset' \in Int /\ p \in Nat
  <2>1. offset' \in Int
    BY <1>3 DEF TrackerOK, TrackerTypes
  <2>2. o.seq \in Nat
    BY <1>4, Constants DEF Extended
  <2>3. p \in Nat
    BY Constants DEF Positions
  <2> QED
    BY <2>1, <2>2, <2>3
<1>6. c \in Packet /\ c.seq = o.seq /\ c.pos = p /\ c.body = body
  BY <1>4, Constants DEF Packet
<1>7. \A q \in queue : q.pos \in heard
  BY <1>2 DEF BufferOK, QueueOK
<1>8. c \notin queue
  BY <1>4, <1>6, <1>7
<1> HIDE DEF c
<1>9. QueueOK
  BY <1>2 DEF BufferOK
<1>10. /\ IsFiniteSet(queue') /\ queue' \subseteq Packet /\ Cardinality(queue') <= MaxPackets
       /\ bytes' \in 0 .. MaxBytes /\ bytes' = SumFunction([q \in queue' |-> Size[q.body]])
  BY <1>1, <1>6, <1>8, <1>9, QueueInsert
<1>11. base = None => queue = {} /\ log = <<>> /\ nextSequence = None /\ seen = {}
  BY <1>2 DEF TrackerOK, BufferOK, Untouched
<1>12. base # None => /\ nextSequence \in Nat /\ nextSequence # None /\ base <= nextSequence
                      /\ (log = <<>> => nextSequence = base) /\ nextSequence' = nextSequence
                      /\ nextSequence <= o.seq
  BY <1>1, <1>2, <1>5 DEF BufferOK, TooLate, None
<1>13. base = None => nextSequence' = o.seq /\ nextSequence' = base'
  BY <1>1, <1>4, <1>11
<1>14. QueueOK'
  <2>1. \A q \in queue' : q.pos \in heard' /\ q.seq = q.pos + offset' /\ nextSequence' <= q.seq
    <3> SUFFICES ASSUME NEW q \in queue'
                 PROVE  q.pos \in heard' /\ q.seq = q.pos + offset' /\ nextSequence' <= q.seq
      OBVIOUS
    <3>1. CASE q = c
      BY <1>4, <1>5, <1>6, <1>12, <1>13, <3>1
    <3>2. CASE q \in queue
      <4>1. base # None
        BY <1>11, <3>2
      <4>2. q.pos \in heard /\ q.seq = q.pos + offset /\ nextSequence <= q.seq
        BY <1>9, <3>2 DEF QueueOK
      <4> QED
        BY <1>4, <1>12, <4>1, <4>2
    <3> QED
      BY <1>1, <3>1, <3>2
  <2>2. ASSUME NEW q \in queue PROVE q.seq # c.seq
    <3>1. base # None
      BY <1>11, <2>2
    <3>2. q.pos \in heard /\ q.seq = q.pos + offset /\ q.pos \in Int
      BY <1>9, <2>2 DEF QueueOK, Packet, Positions
    <3> QED
      BY <1>4, <1>5, <1>6, <3>1, <3>2
  <2>3. \A q, r \in queue : q.seq = r.seq => q = r
    BY <1>9 DEF QueueOK
  <2>4. \A q, r \in queue' : q.seq = r.seq => q = r
    BY <1>1, <2>2, <2>3
  <2> QED
    BY <1>10, <2>1, <2>4 DEF QueueOK
<1>15. LogOK'
  <2>1. CASE base # None
    BY <1>1, <1>2, <1>4, <1>12, <2>1, LogKept DEF BufferOK
  <2>2. CASE base = None
    <3>1. log' = <<>> /\ Len(log') = 0 /\ log' \in Seq(Entry)
      BY <1>1, <1>11, <2>2
    <3>2. base' .. nextSequence' - 1 = {}
      BY <1>5, <1>4, <1>13, <2>2
    <3>3. OutputTiles'
      BY <3>1 DEF OutputTiles
    <3> QED
      BY <3>1, <3>2, <3>3 DEF LogOK
  <2> QED
    BY <2>1, <2>2
<1>16. phase' # "closed" =>
         \A b \in seen' : highest' - b \in Queued' \/ highest' - b < nextSequence'
  <2> SUFFICES ASSUME phase # "closed", NEW b \in seen'
               PROVE  highest' - b \in Queued' \/ highest' - b < nextSequence'
    BY <1>1
  <2>1. CASE highest' - b = o.seq
    BY <1>1, <1>6, <2>1 DEF Queued
  <2>2. CASE \E d \in seen : highest' - b = highest - d
    <3>1. PICK d \in seen : highest' - b = highest - d
      BY <2>2
    <3>2. base # None
      BY <1>11
    <3>3. highest - d \in Queued \/ highest - d < nextSequence
      BY <1>2 DEF BufferOK
    <3>4. Queued \subseteq Queued'
      BY <1>1 DEF Queued
    <3> QED
      BY <1>12, <3>1, <3>2, <3>3, <3>4
  <2> QED
    BY <1>4, <2>1, <2>2
<1>17. nextSequence' \in Nat /\ base' <= nextSequence' /\ (log' = <<>> => nextSequence' = base')
  <2>1. CASE base = None
    BY <1>4, <1>5, <1>13, <2>1
  <2>2. CASE base # None
    BY <1>1, <1>4, <1>12, <2>2
  <2> QED
    BY <2>1, <2>2
<1>18. phase' \in {"open", "draining", "closed"}
  BY <1>1, <1>2 DEF BufferOK
<1> QED
  BY <1>3, <1>4, <1>14, <1>15, <1>16, <1>17, <1>18 DEF ReorderInv, BufferOK

(* What the tracker alone changes leaves the buffer's invariant.            *)
LEMMA TrackerOnly ==
  ASSUME BufferOK, TrackerOK, TrackerOK', base' = base, offset' = offset, heard \subseteq heard',
         queue' = queue, bytes' = bytes, nextSequence' = nextSequence, phase' = phase, log' = log,
         phase # "closed" =>
           \A b \in seen' : highest' - b \in Queued \/ highest' - b < nextSequence
  PROVE  BufferOK'
<1>1. QueueOK'
  BY DEF BufferOK, QueueOK
<1>2. LogOK'
  BY LogKept DEF BufferOK
<1>3. Queued' = Queued
  BY DEF Queued
<1> QED
  BY <1>1, <1>2, <1>3 DEF BufferOK

(* Ingest keeps it when the packet is late, repeated or not admitted.       *)
LEMMA NoteStep ==
  ASSUME ReorderInv, NEW p \in Positions, NEW body \in Bodies, Unambiguous(p), Note(p, body)
  PROVE  ReorderInv'
<1> DEFINE o == Observe(Wire(p))
<1>1. /\ \/ IsUnique(o) /\ TooLate(o)
         \/ o.class = "duplicate"
         \/ o.class \in {"probation", "before_baseline", "discontinuity"}
      /\ Install(o.tracker) /\ Hear(p, o)
      /\ queue' = queue /\ bytes' = bytes /\ nextSequence' = nextSequence /\ phase' = phase
      /\ log' = log
  BY DEF Note, buffer
<1>2. TrackerOK /\ BufferOK
  BY DEF ReorderInv
<1>3. TrackerOK' /\ Heeded(p, o)
  BY <1>1, <1>2, TrackerStep
<1> HIDE DEF o
<1>4. phase # "closed" => \A b \in seen : highest - b \in Queued \/ highest - b < nextSequence
  BY <1>2 DEF BufferOK
<1>5. CASE IsUnique(o) /\ TooLate(o)
  <2>1. base # None /\ o.seq < nextSequence
    BY <1>2, <1>5 DEF BufferOK, TooLate
  <2>2. base' = base /\ offset' = offset /\ heard \subseteq heard'
    BY <1>3, <1>5, <2>1 DEF Heeded
  <2>3. \A b \in seen' : highest' - b = o.seq \/ \E c \in seen : highest' - b = highest - c
    BY <1>3, <1>5 DEF Heeded
  <2>4. phase # "closed" =>
          \A b \in seen' : highest' - b \in Queued \/ highest' - b < nextSequence
    BY <1>4, <2>1, <2>3
  <2>5. BufferOK'
    BY <1>1, <1>2, <1>3, <2>2, <2>4, TrackerOnly
  <2> QED
    BY <1>3, <2>5 DEF ReorderInv
<1>6. CASE ~IsUnique(o)
  <2>1. heard' = heard /\ base' = base /\ offset' = offset /\ highest' = highest /\ seen' = seen
    BY <1>3, <1>6 DEF Heeded
  <2>2. phase # "closed" =>
          \A b \in seen' : highest' - b \in Queued \/ highest' - b < nextSequence
    BY <1>4, <2>1
  <2>3. BufferOK'
    BY <1>1, <1>2, <1>3, <2>1, <2>2, TrackerOnly
  <2> QED
    BY <1>3, <2>3 DEF ReorderInv
<1> QED
  BY <1>1, <1>5, <1>6 DEF IsUnique

(* Retiring the queue keeps it, whatever the tracker remembers.             *)
LEMMA RetireStep ==
  ASSUME BufferOK, TrackerOK', Retire, log' = log, base' = base, offset' = offset
  PROVE  BufferOK'
<1>1. queue' = {} /\ bytes' = 0 /\ phase' = "closed" /\ nextSequence' = nextSequence
  BY DEF Retire
<1>2. QueueOK'
  BY <1>1, EmptyQueue
<1>3. LogOK'
  BY <1>1, LogKept DEF BufferOK
<1> QED
  BY <1>1, <1>2, <1>3 DEF BufferOK

(* Ingest keeps the invariant.                                              *)
LEMMA IngestStep ==
  ASSUME ReorderInv, NEW p \in Positions, NEW body \in Bodies, Ingest(p, body)
  PROVE  ReorderInv'
<1>1. Unambiguous(p) /\ (Admit(p, body) \/ Note(p, body) \/ RestartRequired(p))
  BY DEF Ingest
<1>2. CASE RestartRequired(p)
  <2> DEFINE o == Observe(Wire(p))
  <2>1. /\ o.class = "restart_required" /\ Retire /\ Install(o.tracker)
        /\ offset' = offset /\ heard' = heard /\ log' = log
    BY <1>2 DEF RestartRequired, observed
  <2>2. Hear(p, o) /\ ~IsUnique(o)
    BY <2>1 DEF Hear, IsUnique
  <2>3. TrackerOK' /\ Heeded(p, o)
    BY <1>1, <2>1, <2>2, TrackerStep DEF ReorderInv
  <2>4. base' = base
    BY <2>2, <2>3 DEF Heeded
  <2>5. BufferOK'
    BY <2>1, <2>3, <2>4, RetireStep DEF ReorderInv
  <2> QED
    BY <2>3, <2>5 DEF ReorderInv
<1> QED
  BY <1>1, <1>2, AdmitStep, NoteStep

(* The tracker's invariant is about its own state only.                     *)
LEMMA TrackerKept ==
  ASSUME TrackerOK, UNCHANGED <<tracker, offset, heard>>
  PROVE  TrackerOK'
<1>1. /\ probation' = probation /\ base' = base /\ highest' = highest /\ seen' = seen
      /\ badNext' = badNext /\ restartRequired' = restartRequired /\ unique' = unique
      /\ offset' = offset /\ heard' = heard
  BY DEF tracker
<1>2. TrackerTypes'
  BY <1>1 DEF TrackerOK, TrackerTypes
<1>3. (base = None => Untouched)' /\ (base # None => Anchored)'
  BY <1>1 DEF TrackerOK, Untouched, Anchored
<1> QED
  BY <1>1, <1>2, <1>3 DEF TrackerOK

(* Poll keeps the invariant when it releases a packet.                      *)
LEMMA ReleaseStep ==
  ASSUME ReorderInv, Release
  PROVE  ReorderInv' /\ nextSequence' = FirstQueued.seq + 1
<1> DEFINE c == FirstQueued
<1>1. /\ queue # {} /\ c.seq = nextSequence
      /\ queue' = queue \ {c} /\ bytes' = bytes - Size[c.body] /\ nextSequence' = c.seq + 1
      /\ log' = Append(log, [first |-> c.seq, last |-> c.seq, pos |-> c.pos])
      /\ UNCHANGED <<tracker, phase, offset, heard>>
  BY DEF Release
<1>2. TrackerOK /\ BufferOK /\ QueueOK /\ LogOK
  BY DEF ReorderInv, BufferOK
<1>3. TrackerOK'
  BY <1>1, <1>2, TrackerKept
<1>4. c \in queue /\ \A r \in queue : c.seq <= r.seq
  BY <1>1, <1>2, FirstFacts
<1>5. base' = base /\ offset' = offset /\ heard' = heard /\ highest' = highest /\ seen' = seen
      /\ phase' = phase
  BY <1>1 DEF tracker
<1> HIDE DEF c
<1>6. base # None
  BY <1>1, <1>2 DEF BufferOK
<1>7. /\ nextSequence \in Nat /\ base \in Nat /\ base <= nextSequence
      /\ log = <<>> => nextSequence = base
  BY <1>2, <1>6 DEF BufferOK, TrackerOK, TrackerTypes, Extended
<1>8. /\ c \in Packet /\ c.pos \in Positions /\ c.seq \in Nat /\ c.seq = c.pos + offset
  BY <1>2, <1>4 DEF QueueOK, Packet, Extended
<1> DEFINE e == [first |-> c.seq, last |-> c.seq, pos |-> c.pos]
<1>9. e \in Entry /\ e.first = c.seq /\ e.last = c.seq /\ e.pos = c.pos
  BY <1>8 DEF Entry
<1> HIDE DEF e
<1>10. LogOK' /\ log' # <<>>
  <2>1. log' = Append(log, e)
    BY <1>1 DEF e
  <2>2. e.first <= e.last
    BY <1>8, <1>9
  <2> QED
    BY <1>1, <1>2, <1>5, <1>7, <1>8, <1>9, <2>1, <2>2, LogGrows
<1>11. QueueOK'
  <2>1. /\ IsFiniteSet(queue') /\ queue' \subseteq Packet /\ Cardinality(queue') <= MaxPackets
        /\ bytes' \in 0 .. MaxBytes /\ bytes' = SumFunction([q \in queue' |-> Size[q.body]])
    BY <1>1, <1>2, <1>4, QueueRemove
  <2>2. \A q, r \in queue : q.seq = r.seq => q = r
    BY <1>2 DEF QueueOK
  <2>3. \A q \in queue' : q.pos \in heard' /\ q.seq = q.pos + offset' /\ nextSequence' <= q.seq
    <3> SUFFICES ASSUME NEW q \in queue, q # c
                 PROVE  q.pos \in heard /\ q.seq = q.pos + offset /\ c.seq + 1 <= q.seq
      BY <1>1, <1>5
    <3>1. q.pos \in heard /\ q.seq = q.pos + offset /\ q.seq \in Nat
      BY <1>2 DEF QueueOK, Packet, Extended
    <3>2. c.seq <= q.seq /\ c.seq # q.seq
      BY <1>4, <2>2
    <3> QED
      BY <1>8, <3>1, <3>2
  <2> QED
    BY <1>1, <2>1, <2>2, <2>3 DEF QueueOK
<1>12. phase' # "closed" =>
         \A b \in seen' : highest' - b \in Queued' \/ highest' - b < nextSequence'
  <2> SUFFICES ASSUME phase # "closed", NEW b \in seen
               PROVE  highest - b \in Queued' \/ highest - b < c.seq + 1
    BY <1>1, <1>5
  <2>1. highest - b \in Queued \/ highest - b < nextSequence
    BY <1>2 DEF BufferOK
  <2>2. highest - b \in Int
    BY <1>2 DEF TrackerOK, TrackerTypes, Extended
  <2>3. highest - b \in Queued => highest - b = c.seq \/ highest - b \in Queued'
    BY <1>1 DEF Queued
  <2> QED
    BY <1>1, <1>8, <2>1, <2>2, <2>3
<1>13. nextSequence' \in Nat /\ base' <= nextSequence'
  BY <1>1, <1>5, <1>7, <1>8
<1>14. phase' \in {"open", "draining", "closed"}
  BY <1>2, <1>5 DEF BufferOK
<1> QED
  BY <1>1, <1>3, <1>5, <1>6, <1>10, <1>11, <1>12, <1>13, <1>14 DEF ReorderInv, BufferOK, c

(* Poll keeps it when it declares a gap.                                    *)
LEMMA DeclareGapStep ==
  ASSUME ReorderInv, DeclareGap
  PROVE  ReorderInv' /\ nextSequence <= nextSequence'
<1> DEFINE c == FirstQueued
<1>1. /\ queue # {} /\ c.seq # nextSequence /\ nextSequence' = c.seq
      /\ log' = Append(log, [first |-> nextSequence, last |-> c.seq - 1, pos |-> None])
      /\ UNCHANGED <<tracker, queue, bytes, phase, offset, heard>>
  BY DEF DeclareGap
<1>2. TrackerOK /\ BufferOK /\ QueueOK /\ LogOK
  BY DEF ReorderInv, BufferOK
<1>3. TrackerOK'
  BY <1>1, <1>2, TrackerKept
<1>4. c \in queue /\ \A r \in queue : c.seq <= r.seq
  BY <1>1, <1>2, FirstFacts
<1>5. base' = base /\ offset' = offset /\ heard' = heard /\ highest' = highest /\ seen' = seen
      /\ phase' = phase /\ queue' = queue /\ bytes' = bytes
  BY <1>1 DEF tracker
<1> HIDE DEF c
<1>6. base # None
  BY <1>1, <1>2 DEF BufferOK
<1>7. /\ nextSequence \in Nat /\ base \in Nat /\ base <= nextSequence
      /\ log = <<>> => nextSequence = base
  BY <1>2, <1>6 DEF BufferOK, TrackerOK, TrackerTypes, Extended
<1>8. c.seq \in Nat /\ nextSequence <= c.seq
  BY <1>2, <1>4 DEF QueueOK, Packet, Extended
<1>9. c.seq - 1 \in Nat /\ nextSequence <= c.seq - 1 /\ c.seq = (c.seq - 1) + 1
  BY <1>1, <1>7, <1>8
<1> DEFINE e == [first |-> nextSequence, last |-> c.seq - 1, pos |-> None]
<1>10. e \in Entry /\ e.first = nextSequence /\ e.last = c.seq - 1 /\ e.pos = None
  BY <1>7, <1>9 DEF Entry
<1> HIDE DEF e
<1>11. LogOK' /\ log' # <<>>
  <2>1. log' = Append(log, e)
    BY <1>1 DEF e
  <2>2. e.first <= e.last /\ nextSequence' = e.last + 1
    BY <1>1, <1>9, <1>10
  <2> QED
    BY <1>2, <1>5, <1>7, <1>10, <2>1, <2>2, LogGrows
<1>12. QueueOK'
  <2>1. \A q \in queue' : q.pos \in heard' /\ q.seq = q.pos + offset' /\ nextSequence' <= q.seq
    BY <1>1, <1>2, <1>4, <1>5 DEF QueueOK
  <2> QED
    BY <1>2, <1>5, <2>1 DEF QueueOK
<1>13. phase' # "closed" =>
         \A b \in seen' : highest' - b \in Queued' \/ highest' - b < nextSequence'
  <2> SUFFICES ASSUME phase # "closed", NEW b \in seen
               PROVE  highest - b \in Queued \/ highest - b < c.seq
    BY <1>1, <1>5 DEF Queued
  <2>1. highest - b \in Queued \/ highest - b < nextSequence
    BY <1>2 DEF BufferOK
  <2>2. highest - b \in Int
    BY <1>2 DEF TrackerOK, TrackerTypes, Extended
  <2> QED
    BY <1>7, <1>8, <2>1, <2>2
<1>14. nextSequence' \in Nat /\ base' <= nextSequence' /\ nextSequence <= nextSequence'
  BY <1>1, <1>5, <1>7, <1>8
<1>15. phase' \in {"open", "draining", "closed"}
  BY <1>2, <1>5 DEF BufferOK
<1> QED
  BY <1>3, <1>5, <1>6, <1>11, <1>12, <1>13, <1>14, <1>15 DEF ReorderInv, BufferOK

(* A change of phase keeps it, unless it reopens the buffer.                *)
LEMMA PhaseStep ==
  ASSUME ReorderInv, UNCHANGED <<tracker, queue, bytes, nextSequence, observed>>,
         phase' \in {"open", "draining", "closed"}, phase = "closed" => phase' = "closed"
  PROVE  ReorderInv'
<1>1. /\ UNCHANGED <<tracker, offset, heard>> /\ queue' = queue /\ bytes' = bytes
      /\ nextSequence' = nextSequence /\ log' = log
  BY DEF observed
<1>2. base' = base /\ offset' = offset /\ heard' = heard /\ highest' = highest /\ seen' = seen
  BY <1>1 DEF tracker
<1>3. TrackerOK'
  BY <1>1, TrackerKept DEF ReorderInv
<1>4. QueueOK'
  BY <1>1, <1>2 DEF ReorderInv, BufferOK, QueueOK
<1>5. LogOK'
  BY <1>1, <1>2, LogKept DEF ReorderInv, BufferOK
<1>6. Queued' = Queued
  BY <1>1 DEF Queued
<1> QED
  BY <1>1, <1>2, <1>3, <1>4, <1>5, <1>6 DEF ReorderInv, BufferOK

(* Cancelling keeps it.                                                     *)
LEMMA CancelStep ==
  ASSUME ReorderInv, Cancel
  PROVE  ReorderInv'
<1>1. Retire /\ UNCHANGED <<tracker, offset, heard>> /\ log' = log
  BY DEF Cancel, observed
<1>2. TrackerOK' /\ base' = base /\ offset' = offset
  BY <1>1, TrackerKept DEF ReorderInv, tracker
<1>3. BufferOK'
  BY <1>1, <1>2, RetireStep DEF ReorderInv
<1> QED
  BY <1>2, <1>3 DEF ReorderInv

(* A tick makes the queued packets older, and changes nothing else of them. *)
Older(q) == [q EXCEPT !.age = IF @ < MaxDelay THEN @ + 1 ELSE @]

(* The packet after a tick.                                                 *)
LEMMA OlderFacts ==
  ASSUME NEW q \in Packet
  PROVE  /\ Older(q) \in Packet /\ Older(q).seq = q.seq /\ Older(q).pos = q.pos
         /\ Older(q).body = q.body
<1>1. q.age \in 0 .. MaxDelay /\ MaxDelay \in Nat
  BY Constants DEF Packet
<1> DEFINE a == IF q.age < MaxDelay THEN q.age + 1 ELSE q.age
<1>2. a \in 0 .. MaxDelay
  BY <1>1
<1>3. Older(q) = [q EXCEPT !.age = a]
  BY DEF Older
<1> HIDE DEF a
<1> QED
  BY <1>2, <1>3 DEF Packet

(* Time keeps the buffer's invariant.                                       *)
LEMMA TickStep ==
  ASSUME ReorderInv, queue' = {Older(q) : q \in queue},
         UNCHANGED <<tracker, bytes, nextSequence, phase, observed>>
  PROVE  ReorderInv'
<1>1. /\ UNCHANGED <<tracker, offset, heard>> /\ bytes' = bytes
      /\ nextSequence' = nextSequence /\ phase' = phase /\ log' = log
  BY DEF observed
<1>2. base' = base /\ offset' = offset /\ heard' = heard /\ highest' = highest /\ seen' = seen
  BY <1>1 DEF tracker
<1>3. TrackerOK' /\ BufferOK /\ QueueOK
  BY <1>1, TrackerKept DEF ReorderInv, BufferOK
<1>4. IsFiniteSet(queue) /\ queue \subseteq Packet /\ \A q, r \in queue : q.seq = r.seq => q = r
  BY <1>3 DEF QueueOK
<1>5. \A q \in queue : /\ Older(q) \in Packet /\ Older(q).seq = q.seq /\ Older(q).pos = q.pos
                       /\ Older(q).body = q.body
  BY <1>4, OlderFacts
<1>6. \A r \in queue' : \E q \in queue : r = Older(q)
  OBVIOUS
<1>7. queue' \subseteq Packet
  BY <1>5, <1>6
<1>8. IsFiniteSet(queue') /\ Cardinality(queue') <= MaxPackets
  <2> DEFINE f == [q \in queue |-> Older(q)]
  <2>1. f \in Surjection(queue, queue')
    BY DEF Surjection
  <2>2. IsFiniteSet(queue') /\ Cardinality(queue') <= Cardinality(queue)
    BY <1>4, <2>1, FS_Surjection
  <2>3. Cardinality(queue) \in Nat /\ Cardinality(queue') \in Nat
    BY <1>4, <2>2, FS_CardinalityType
  <2> QED
    BY <1>3, <2>2, <2>3, Constants DEF QueueOK
<1>9. bytes' = SumFunction([q \in queue' |-> Size[q.body]])
  <2> DEFINE T == queue'
             e == [q \in queue |-> Older(q)]
             f == [q \in T |-> Size[q.body]]
             h == [q \in queue |-> Size[q.body]]
  <2>1. f \in [T -> Nat] /\ h \in [queue -> Nat] /\ e \in [queue -> T]
    BY <1>4, <1>7, SizesTyped
  <2>2. \A x, y \in queue : e[x] = e[y] => x = y
    BY <1>4, <1>5
  <2>3. \A t \in T : \E x \in queue : t = e[x]
    BY <1>6
  <2>4. \A x \in queue : h[x] = f[e[x]]
    BY <1>5
  <2>5. bytes = SumFunction(h) /\ IsFiniteSet(T)
    BY <1>3, <1>8 DEF QueueOK
  <2> HIDE DEF e, f, h, T
  <2>8. SumFunction(f) = SumFunction(h)
    BY <1>4, <2>1, <2>2, <2>3, <2>4, <2>5, SumRenamed
  <2>9. bytes' = SumFunction(f)
    BY <1>1, <2>5, <2>8
  <2> QED
    BY <2>9 DEF f, T
<1>10. QueueOK'
  <2>1. \A q \in queue : q.pos \in heard /\ q.seq = q.pos + offset /\ nextSequence <= q.seq
    BY <1>3 DEF QueueOK
  <2>2. \A r \in queue' : r.pos \in heard' /\ r.seq = r.pos + offset' /\ nextSequence' <= r.seq
    BY <1>1, <1>2, <1>5, <1>6, <2>1
  <2>3. \A r, s \in queue' : r.seq = s.seq => r = s
    BY <1>4, <1>5, <1>6
  <2>4. bytes' \in 0 .. MaxBytes
    BY <1>1, <1>3 DEF QueueOK
  <2> QED
    BY <1>7, <1>8, <1>9, <2>2, <2>3, <2>4 DEF QueueOK
<1>11. LogOK'
  BY <1>1, <1>2, <1>3, LogKept DEF BufferOK
<1>12. Queued' = Queued
  BY <1>5, <1>6 DEF Queued
<1>13. queue = {} => queue' = {}
  OBVIOUS
<1> QED
  BY <1>1, <1>2, <1>3, <1>10, <1>11, <1>12, <1>13 DEF ReorderInv, BufferOK

(* The invariant holds of a new tracker and buffer.                         *)
LEMMA ReorderInit ==
  ASSUME Init
  PROVE  ReorderInv
<1>1. TrackerOK
  <2>1. TrackerTypes
    <3>1. 0 \in Extended /\ 0 \in 0 .. LastSent + 1
      BY Constants DEF Extended
    <3>2. restartRequired \in BOOLEAN
      BY DEF Init
    <3>3. /\ probation \in Wires \cup {None} /\ badNext \in Wires \cup {None}
          /\ base \in Extended \cup {None} /\ highest \in Extended
          /\ seen \subseteq 0 .. Window - 1 /\ unique \in 0 .. LastSent + 1
          /\ offset \in Int /\ heard \subseteq Positions
      BY <3>1 DEF Init
    <3> QED
      BY <3>2, <3>3 DEF TrackerTypes
  <2>2. Cardinality({}) = 0
    BY FS_EmptySet
  <2> QED
    BY <2>1, <2>2 DEF Init, TrackerOK, Untouched
<1>2. QueueOK
  <2>1. [q \in queue |-> Size[q.body]] \in [{} -> Nat]
        /\ DOMAIN [q \in queue |-> Size[q.body]] = {}
    BY DEF Init
  <2>2. SumFunction([q \in queue |-> Size[q.body]]) = 0
    BY <2>1, SumEmpty
  <2>3. IsFiniteSet(queue) /\ Cardinality(queue) = 0
    BY FS_EmptySet DEF Init
  <2> QED
    BY <2>2, <2>3, Constants DEF QueueOK, Init
<1>3. LogOK
  BY DEF Init, LogOK, OutputTiles
<1> QED
  BY <1>1, <1>2, <1>3 DEF Init, ReorderInv, BufferOK

-----------------------------------------------------------------------------
(* What the invariant of the buffer gives.                                  *)

(* Types, exact unwrapping and exact counting.                              *)
LEMMA TrackerGiven ==
  ASSUME ReorderInv
  PROVE  TrackerInv
<1>1. TypeOK
  BY DEF ReorderInv, TrackerOK, TrackerTypes, BufferOK, QueueOK, TypeOK
<1>2. UnwrapIsExact
  <2>1. \A q \in queue : q.seq = q.pos + offset
    BY DEF ReorderInv, BufferOK, QueueOK
  <2>2. log \in Seq(Entry) /\ Range(log) = {log[i] : i \in DOMAIN log} /\ DOMAIN log = 1 .. Len(log)
    BY DEF ReorderInv, BufferOK, LogOK, Range
  <2>3. \A i \in 1 .. Len(log) : log[i].pos # None => log[i].first = log[i].pos + offset
    BY DEF ReorderInv, BufferOK, LogOK
  <2>4. \A e \in Range(log) : e.pos # None => e.first = e.pos + offset
    BY <2>2, <2>3
  <2> QED
    BY <2>1, <2>4 DEF UnwrapIsExact
<1>3. UniqueIsExact
  BY SpanBounds DEF ReorderInv, TrackerOK, UniqueIsExact
<1> QED
  BY <1>1, <1>2, <1>3 DEF TrackerInv

(* Every position the window remembers was delivered, queued or given up.   *)
LEMMA SeenGiven ==
  ASSUME ReorderInv
  PROVE  SeenIsAccounted
<1> SUFFICES ASSUME phase # "closed", NEW b \in seen
             PROVE  highest - b \in Queued \cup Delivered \cup Missed
  BY DEF SeenIsAccounted
<1> DEFINE x == highest - b
<1>1. TrackerOK /\ BufferOK /\ LogOK
  BY DEF ReorderInv, BufferOK
<1>2. x \in Queued \/ x < nextSequence
  BY <1>1 DEF BufferOK
<1>3. CASE x < nextSequence
  <2>1. base # None
    BY <1>1 DEF TrackerOK, Untouched
  <2>2. Anchored /\ nextSequence \in Nat /\ base \in Nat /\ highest \in Nat /\ b \in Nat
        /\ b \in 0 .. Window - 1 /\ offset \in Int
    BY <1>1, <2>1, Constants DEF TrackerOK, TrackerTypes, Extended, BufferOK
  <2>3. x - offset \in heard
    BY <2>2 DEF Anchored
  <2>4. base <= (x - offset) + offset
    BY <2>2, <2>3 DEF Anchored
  <2>5. x \in base .. nextSequence - 1
    BY <1>3, <2>2, <2>4
  <2> HIDE DEF x
  <2>6. PICK i \in 1 .. Len(log) : log[i].first <= x /\ x <= log[i].last
    BY <1>1, <2>1, <2>5 DEF LogOK
  <2>7. log \in Seq(Entry) /\ log[i] \in Entry
    BY <1>1 DEF LogOK
  <2>8. log[i] \in Range(log)
    BY <2>6, <2>7 DEF Range
  <2>9. log[i].first \in Nat /\ log[i].last \in Nat /\ x \in Int
    BY <2>5, <2>7, <2>2 DEF Entry
  <2>10. CASE log[i].pos # None
    <3>1. log[i].last = log[i].first
      BY <1>1, <2>10 DEF LogOK
    <3>2. x = log[i].first
      BY <2>6, <2>9, <3>1
    <3>3. x \in Delivered
      BY <2>8, <2>10, <3>2 DEF Delivered
    <3> QED
      BY <3>3 DEF x
  <2>11. CASE log[i].pos = None
    <3>1. x \in log[i].first .. log[i].last
      BY <2>6, <2>9
    <3>2. x \in Missed
      BY <2>8, <2>11, <3>1 DEF Missed
    <3> QED
      BY <3>2 DEF x
  <2> QED
    BY <2>10, <2>11
<1> QED
  BY <1>2, <1>3

-----------------------------------------------------------------------------
(* The packets of a sequence.                                               *)

(* A sequence that grows has one more member.                               *)
LEMMA RangeGrows ==
  ASSUME NEW S, NEW s \in Seq(S), NEW e \in S
  PROVE  Range(Append(s, e)) = Range(s) \cup {e}
<1> DEFINE t == Append(s, e)
           n == Len(s)
<1>1. /\ n \in Nat /\ t \in Seq(S) /\ Len(t) = n + 1 /\ t[n + 1] = e
      /\ \A i \in 1 .. n : t[i] = s[i]
  OBVIOUS
<1>2. DOMAIN t = 1 .. n + 1 /\ DOMAIN s = 1 .. n
  BY <1>1
<1> HIDE DEF t, n
<1>3. 1 .. n + 1 = (1 .. n) \cup {n + 1}
  BY <1>1
<1>4. Range(t) = Range(s) \cup {e}
  <2>1. \A x \in Range(t) : x \in Range(s) \cup {e}
    BY <1>1, <1>2, <1>3 DEF Range
  <2>2. \A x \in Range(s) : x \in Range(t)
    BY <1>1, <1>2, <1>3 DEF Range
  <2>3. e \in Range(t)
    BY <1>1, <1>2, <1>3 DEF Range
  <2> QED
    BY <2>1, <2>2, <2>3
<1> QED
  BY <1>4 DEF t

(* The members of a sequence are those at its indices.                      *)
LEMMA RangeFacts ==
  ASSUME NEW S, NEW s \in Seq(S)
  PROVE  /\ Range(s) \subseteq S /\ \A i \in 1 .. Len(s) : s[i] \in Range(s)
         /\ \A x \in Range(s) : \E i \in 1 .. Len(s) : x = s[i]
         /\ s = <<>> => Range(s) = {}
<1>1. DOMAIN s = 1 .. Len(s) /\ \A i \in 1 .. Len(s) : s[i] \in S
  OBVIOUS
<1>2. s = <<>> => 1 .. Len(s) = {}
  OBVIOUS
<1> QED
  BY <1>1, <1>2 DEF Range

(* A sequence of one packet.                                                *)
LEMMA OneMember ==
  ASSUME NEW S, NEW e \in S
  PROVE  <<e>> \in Seq(S) /\ Len(<<e>>) = 1 /\ <<e>>[1] = e /\ <<e>> # <<>> /\ Range(<<e>>) = {e}
<1>1. <<e>> \in Seq(S) /\ Len(<<e>>) = 1 /\ <<e>>[1] = e /\ <<e>> # <<>>
  OBVIOUS
<1>2. DOMAIN <<e>> = {1}
  OBVIOUS
<1>3. Range(<<e>>) = {e}
  BY <1>1, <1>2 DEF Range
<1> QED
  BY <1>1, <1>3

(* A released packet joins what was released; a gap does not.               *)
LEMMA ReleasedGrows ==
  ASSUME LogOK, NEW e \in Entry, log' = Append(log, e)
  PROVE  Released' = IF e.pos # None THEN Released \cup {e.pos} ELSE Released
<1>1. log \in Seq(Entry)
  BY DEF LogOK
<1>2. Range(log') = Range(log) \cup {e}
  BY <1>1, RangeGrows
<1>3. Released' = {x.pos : x \in {y \in Range(log') : y.pos # None}}
  BY DEF Released
<1>4. CASE e.pos # None
  <2>1. {y \in Range(log') : y.pos # None} = {y \in Range(log) : y.pos # None} \cup {e}
    BY <1>2, <1>4
  <2> QED
    BY <1>3, <1>4, <2>1 DEF Released
<1>5. CASE e.pos = None
  <2>1. {y \in Range(log') : y.pos # None} = {y \in Range(log) : y.pos # None}
    BY <1>2, <1>5
  <2> QED
    BY <1>3, <1>5, <2>1 DEF Released
<1> QED
  BY <1>4, <1>5

(* What was released are positions of the source.                           *)
LEMMA ReleasedTyped ==
  ASSUME LogOK
  PROVE  Released \subseteq Positions
<1>1. Range(log) \subseteq Entry
  BY RangeFacts DEF LogOK
<1> QED
  BY <1>1 DEF Released, Entry

-----------------------------------------------------------------------------
(* The steps of the depacketizer.                                           *)

WholeNal(s, n) ==
  \/ Len(n) = 1 /\ s[n[1]] = "whole"
  \/ /\ s[n[1]] = "start" /\ s[n[Len(n)]] = "end"
     /\ \A j \in 2 .. Len(n) : n[j] = n[j - 1] + 1 /\ (j < Len(n) => s[n[j]] = "middle")

(* WholeNals says WholeNal of every NAL.                                    *)
LEMMA WholeNalsEach ==
  WholeNals <=> \A i \in 1 .. Len(nals) : WholeNal(stream, nals[i])
BY DEF WholeNals, WholeNal

(* A whole NAL behind the others.                                           *)
LEMMA NalsGrow ==
  ASSUME NalsOK, NEW c \in Seq(Positions), c # <<>>, WholeNal(stream, c),
         nals # <<>> => nals[Len(nals)][Len(nals[Len(nals)])] < c[1],
         nals' = Append(nals, c), stream' = stream, pending' = <<>>
  PROVE  NalsOK' /\ InNals' = InNals \cup Range(c)
<1> DEFINE n == Len(nals)
<1>1. nals \in Seq(Seq(Positions))
  BY DEF NalsOK
<1>2. /\ n \in Nat /\ nals' \in Seq(Seq(Positions)) /\ Len(nals') = n + 1 /\ nals'[n + 1] = c
      /\ \A i \in 1 .. n : nals'[i] = nals[i]
  BY <1>1
<1>3. n = 0 <=> nals = <<>>
  BY <1>1
<1>4. \A i \in 1 .. n : nals[i] # <<>> /\ WholeNal(stream, nals[i])
  BY WholeNalsEach DEF NalsOK
<1>5. \A i \in 1 .. n - 1 : nals[i][Len(nals[i])] < nals[i + 1][1]
  BY DEF NalsOK, NalsInOrder
<1>6. n # 0 => nals[n][Len(nals[n])] < c[1]
  BY <1>3
<1> HIDE DEF n
<1>7. \A i \in 1 .. n + 1 : nals'[i] # <<>> /\ WholeNal(stream', nals'[i])
  <2> SUFFICES ASSUME NEW i \in 1 .. n + 1
               PROVE  nals'[i] # <<>> /\ WholeNal(stream', nals'[i])
    OBVIOUS
  <2>1. CASE i = n + 1
    BY <1>2, <2>1
  <2>2. CASE i \in 1 .. n
    BY <1>2, <1>4, <2>2
  <2> QED
    BY <1>2, <2>1, <2>2
<1>8. WholeNals'
  BY <1>2, <1>7 DEF WholeNals, WholeNal
<1>9. \A i \in 1 .. (n + 1) - 1 : nals'[i][Len(nals'[i])] < nals'[i + 1][1]
  <2> SUFFICES ASSUME NEW i \in 1 .. n
               PROVE  nals'[i][Len(nals'[i])] < nals'[i + 1][1]
    BY <1>2
  <2>1. nals'[i] = nals[i]
    BY <1>2
  <2>2. CASE i = n
    <3>1. nals'[i + 1] = c /\ n # 0
      BY <1>2, <2>2
    <3> QED
      BY <1>6, <2>1, <2>2, <3>1
  <2>3. CASE i # n
    <3>1. i \in 1 .. n - 1 /\ i + 1 \in 1 .. n
      BY <1>2, <2>3
    <3>2. nals'[i + 1] = nals[i + 1]
      BY <1>2, <3>1
    <3> QED
      BY <1>5, <2>1, <3>1, <3>2
  <2> QED
    BY <2>2, <2>3
<1>10. NalsInOrder'
  BY <1>2, <1>9 DEF NalsInOrder
<1>11. NalsOK'
  BY <1>2, <1>7, <1>8, <1>10 DEF NalsOK
<1>12. InNals' = InNals \cup Range(c)
  <2>1. Range(nals') = Range(nals) \cup {c}
    BY <1>1, RangeGrows
  <2>2. InNals' = UNION {Range(m) : m \in Range(nals')}
    BY DEF InNals
  <2> QED
    BY <2>1, <2>2 DEF InNals
<1> QED
  BY <1>11, <1>12

(* NALs that stay, with no chain pending.                                   *)
LEMMA NalsKept ==
  ASSUME NalsOK, nals' = nals, stream' = stream,
         nals # <<>> /\ pending' # <<>> => nals[Len(nals)][Len(nals[Len(nals)])] < pending'[1]
  PROVE  NalsOK' /\ InNals' = InNals
<1>1. WholeNals' /\ NalsInOrder'
  BY DEF NalsOK, WholeNals, NalsInOrder
<1>2. InNals' = InNals
  BY DEF InNals
<1> QED
  BY <1>1, <1>2 DEF NalsOK

(* The last packet of the last NAL is one of those in NALs.                 *)
LEMMA LastInNals ==
  ASSUME NalsOK, nals # <<>>
  PROVE  nals[Len(nals)][Len(nals[Len(nals)])] \in InNals
<1> DEFINE n == Len(nals)
           m == nals[n]
<1>1. nals \in Seq(Seq(Positions)) /\ n \in 1 .. n
  BY DEF NalsOK
<1>2. m \in Range(nals) /\ m \in Seq(Positions) /\ m # <<>>
  BY <1>1, RangeFacts DEF NalsOK
<1> HIDE DEF m
<1>3. Len(m) \in 1 .. Len(m)
  BY <1>2
<1>4. m[Len(m)] \in Range(m)
  BY <1>2, <1>3, RangeFacts
<1>5. m[Len(m)] \in InNals
  BY <1>2, <1>4 DEF InNals
<1> QED
  BY <1>5 DEF m

(* Nothing moves while the last sequence stays.                             *)
LEMMA PushedKept ==
  ASSUME PushedOK, lastSequence' = lastSequence, Released' = Released, stream' = stream,
         lastSequence # None => base' = base /\ offset' = offset
                                /\ nextSequence' \in Nat /\ nextSequence \in Nat
                                /\ lastSequence \in Nat /\ nextSequence <= nextSequence',
         pending' = pending \/ pending' = <<>>
  PROVE  PushedOK'
<1>1. CASE lastSequence = None
  <2>1. Released' = {} /\ pending' = <<>>
    BY <1>1 DEF PushedOK
  <2>2. Chain(<<>>)'
    BY DEF Chain
  <2> QED
    BY <1>1, <2>1, <2>2 DEF PushedOK, Chain
<1>2. CASE lastSequence # None
  <2>1. base' # None /\ lastSequence' < nextSequence'
    BY <1>2 DEF PushedOK
  <2>2. \A p \in Released' : p + offset' <= lastSequence'
    BY <1>2 DEF PushedOK
  <2>3. Chain(pending)'
    <3>1. CASE pending' = pending
      BY <3>1 DEF PushedOK, Chain
    <3>2. CASE pending' = <<>>
      BY <3>2 DEF Chain
    <3> QED
      BY <3>1, <3>2
  <2>4. pending' # <<>> => pending'[Len(pending')] + offset' = lastSequence'
    BY <1>2 DEF PushedOK
  <2> QED
    BY <1>2, <2>1, <2>2, <2>3, <2>4 DEF PushedOK
<1> QED
  BY <1>1, <1>2

(* A chain that is discarded moves into the receipts.                       *)
LEMMA AccountDiscard ==
  ASSUME AccountedOK, Released' = Released, InNals' = InNals, refused' = refused,
         pending' = <<>>, retired' = retired \cup Range(pending)
  PROVE  AccountedOK'
<1>1. Range(pending') = {}
  BY DEF Range
<1>2. Range(pending)' = {}
  BY <1>1 DEF Range
<1> QED
  BY <1>2 DEF AccountedOK

(* What a push of packet p starts from, and what it leaves.                 *)
Pushing(p) ==
  /\ p \in Positions /\ stream' = stream /\ stream \in Streams
  /\ Released' = Released \cup {p} /\ \A r \in Released : r < p
  /\ base' # None /\ offset' \in Int /\ lastSequence' = p + offset'
  /\ lastSequence' \in Extended /\ lastSequence' < nextSequence'

Pushed(p) ==
  /\ NalsOK' /\ AccountedOK' /\ Chain(pending)'
  /\ pending' # <<>> => pending'[Len(pending')] = p
  /\ Len(pending') <= MaxFragments /\ pendingAge' \in 0 .. MaxAge
  /\ pending' = <<>> => pendingAge' = 0

(* The packet that is pushed is in none of the places yet.                  *)
LEMMA PushNew ==
  ASSUME NalsOK, AccountedOK, NEW p, Pushing(p)
  PROVE  /\ p \notin InNals /\ p \notin Range(pending) /\ p \notin retired /\ p \notin refused
         /\ nals # <<>> => nals[Len(nals)][Len(nals[Len(nals)])] < p
<1>1. p \in Int /\ \A r \in Released : r < p
  BY Constants DEF Pushing, Positions
<1>2. p \notin Released
  BY <1>1
<1>3. InNals \subseteq Released /\ Range(pending) \subseteq Released /\ retired \subseteq Released
      /\ refused \subseteq Released
  BY DEF AccountedOK
<1>4. nals # <<>> => nals[Len(nals)][Len(nals[Len(nals)])] \in Released
  BY <1>3, LastInNals
<1> QED
  BY <1>1, <1>2, <1>3, <1>4

(* An empty chain is one.                                                   *)
LEMMA EmptyChain ==
  ASSUME pending' = <<>>
  PROVE  Chain(pending)' /\ Range(pending)' = {} /\ Len(pending') = 0
<1>1. Range(<<>>) = {}
  BY DEF Range
<1> QED
  BY <1>1 DEF Chain, Range

(* A whole NAL.                                                             *)
LEMMA WholeStep ==
  ASSUME NalsOK, AccountedOK, NEW p, Pushing(p), Whole(p)
  PROVE  Pushed(p)
<1>1. /\ stream[p] = "whole" /\ pending' = <<>> /\ pendingAge' = 0
      /\ retired' = retired \cup Range(pending) /\ nals' = Append(nals, <<p>>)
      /\ refused' = refused
  BY DEF Whole, Interrupt, Discard
<1>2. /\ p \notin InNals /\ p \notin Range(pending) /\ p \notin retired /\ p \notin refused
      /\ nals # <<>> => nals[Len(nals)][Len(nals[Len(nals)])] < p
  BY PushNew
<1>3. p \in Positions /\ stream' = stream
  BY DEF Pushing
<1> DEFINE c == <<p>>
<1>4. c \in Seq(Positions) /\ Len(c) = 1 /\ c[1] = p /\ c # <<>> /\ Range(c) = {p}
  BY <1>3, OneMember
<1>5. nals' = Append(nals, c)
  BY <1>1
<1> HIDE DEF c
<1>6. WholeNal(stream, c)
  BY <1>1, <1>4 DEF WholeNal
<1>7. NalsOK' /\ InNals' = InNals \cup {p}
  BY <1>1, <1>2, <1>3, <1>4, <1>5, <1>6, NalsGrow
<1>8. Chain(pending)' /\ Range(pending)' = {} /\ Len(pending') = 0
  BY <1>1, EmptyChain
<1>9. Released' = Released \cup {p}
  BY DEF Pushing
<1>10. AccountedOK'
  BY <1>1, <1>2, <1>7, <1>8, <1>9 DEF AccountedOK
<1> QED
  BY <1>1, <1>7, <1>8, <1>10, Constants DEF Pushed

(* The first fragment of a NAL.                                             *)
LEMMA StartStep ==
  ASSUME NalsOK, AccountedOK, NEW p, Pushing(p), Start(p)
  PROVE  Pushed(p)
<1>1. /\ stream[p] = "start" /\ pending' = <<p>> /\ pendingAge' = 0
      /\ retired' = retired \cup Range(pending) /\ nals' = nals /\ refused' = refused
  BY DEF Start
<1>2. /\ p \notin InNals /\ p \notin Range(pending) /\ p \notin retired /\ p \notin refused
      /\ nals # <<>> => nals[Len(nals)][Len(nals[Len(nals)])] < p
  BY PushNew
<1>3. p \in Positions /\ stream' = stream /\ p \in Int
  BY Constants DEF Pushing, Positions
<1>4. pending' \in Seq(Positions) /\ Len(pending') = 1 /\ pending'[1] = p /\ pending' # <<>>
      /\ Range(pending') = {p}
  BY <1>1, <1>3, OneMember
<1>5. NalsOK' /\ InNals' = InNals
  BY <1>1, <1>2, <1>3, <1>4, NalsKept
<1>6. Chain(pending)'
  <2>1. \A j \in 1 .. Len(pending') : pending'[j] = pending'[1] + (j - 1)
    BY <1>3, <1>4
  <2>2. 2 .. Len(pending') = {}
    BY <1>4
  <2> QED
    BY <1>1, <1>3, <1>4, <2>1, <2>2 DEF Chain
<1>7. Released' = Released \cup {p} /\ Range(pending)' = {p}
  BY <1>4 DEF Pushing, Range
<1>8. AccountedOK'
  BY <1>1, <1>2, <1>5, <1>7 DEF AccountedOK
<1> QED
  BY <1>1, <1>4, <1>5, <1>6, <1>8, Constants DEF Pushed

(* A fragment the depacketizer refuses.                                     *)
LEMMA RefuseStep ==
  ASSUME NalsOK, AccountedOK, NEW p, Pushing(p), NEW chain, Refuse(p, chain)
  PROVE  Pushed(p)
<1>1. /\ pending' = <<>> /\ pendingAge' = 0 /\ retired' = retired \cup Range(pending)
      /\ nals' = nals /\ refused' = refused \cup {p}
  BY DEF Refuse, Discard
<1>2. /\ p \notin InNals /\ p \notin Range(pending) /\ p \notin retired /\ p \notin refused
  BY PushNew
<1>3. NalsOK' /\ InNals' = InNals
  BY <1>1, NalsKept DEF Pushing
<1>4. Chain(pending)' /\ Range(pending)' = {} /\ Len(pending') = 0
  BY <1>1, EmptyChain
<1>5. Released' = Released \cup {p}
  BY DEF Pushing
<1>6. AccountedOK'
  BY <1>1, <1>2, <1>3, <1>4, <1>5 DEF AccountedOK
<1> QED
  BY <1>1, <1>3, <1>4, <1>6, Constants DEF Pushed

(* A later fragment, next to the end of the pending chain.                  *)
LEMMA ContinueStep ==
  ASSUME NalsOK, AccountedOK, NEW p, Pushing(p), Continue(p, pending), Chain(pending),
         pending[Len(pending)] + 1 = p, pendingAge \in 0 .. MaxAge
  PROVE  Pushed(p)
<1>1. /\ stream[p] \in {"middle", "end"} /\ pending # <<>> /\ Len(pending) < MaxFragments
      /\ retired' = retired /\ refused' = refused
      /\ IF stream[p] = "end"
         THEN pending' = <<>> /\ pendingAge' = 0 /\ nals' = Append(nals, Append(pending, p))
         ELSE pending' = Append(pending, p) /\ pendingAge' = pendingAge /\ nals' = nals
  BY DEF Continue, Continues
<1>2. /\ p \notin InNals /\ p \notin Range(pending) /\ p \notin retired /\ p \notin refused
  BY PushNew
<1>3. p \in Positions /\ stream' = stream /\ p \in Int /\ Released' = Released \cup {p}
  BY Constants DEF Pushing, Positions
<1> DEFINE c == Append(pending, p)
           n == Len(pending)
<1>4. /\ pending \in Seq(Positions) /\ \A j \in 1 .. n : pending[j] = pending[1] + (j - 1)
      /\ stream[pending[1]] = "start" /\ \A j \in 2 .. n : stream[pending[j]] = "middle"
  BY <1>1 DEF Chain
<1>5. n \in Nat /\ n >= 1 /\ c \in Seq(Positions) /\ Len(c) = n + 1 /\ c[n + 1] = p /\ c # <<>>
      /\ \A j \in 1 .. n : c[j] = pending[j]
  BY <1>1, <1>3, <1>4
<1>6. Range(c) = Range(pending) \cup {p}
  BY <1>3, <1>4, RangeGrows
<1>7. IF stream[p] = "end" THEN nals' = Append(nals, c) ELSE pending' = c
  BY <1>1
<1>8. pending[n] + 1 = p /\ n < MaxFragments
  BY <1>1
<1> HIDE DEF c, n
<1>9. c[1] = pending[1] /\ c[1] \in Int /\ pending[n] = pending[1] + (n - 1)
  <2>1. 1 \in 1 .. n /\ n \in 1 .. n
    BY <1>5
  <2>2. c[1] \in Positions
    BY <1>5
  <2> QED
    BY <1>4, <1>5, <2>1, <2>2, Constants DEF Positions
<1>10. p = c[1] + n
  BY <1>3, <1>5, <1>8, <1>9
<1>11. \A j \in 1 .. n + 1 : c[j] = c[1] + (j - 1)
  <2> SUFFICES ASSUME NEW j \in 1 .. n + 1 PROVE c[j] = c[1] + (j - 1)
    OBVIOUS
  <2>1. CASE j = n + 1
    BY <1>5, <1>9, <1>10, <2>1
  <2>2. CASE j \in 1 .. n
    BY <1>4, <1>5, <1>9, <2>2
  <2> QED
    BY <1>5, <2>1, <2>2
<1>12. \A j \in 2 .. n : stream[c[j]] = "middle"
  BY <1>4, <1>5
<1>13. stream[c[1]] = "start" /\ stream[c[n + 1]] = stream[p]
  BY <1>4, <1>5, <1>9
<1>14. CASE stream[p] = "end"
  <2>1. \A j \in 2 .. n + 1 : c[j] = c[j - 1] + 1 /\ (j < n + 1 => stream[c[j]] = "middle")
    <3> SUFFICES ASSUME NEW j \in 2 .. n + 1
                 PROVE  c[j] = c[j - 1] + 1 /\ (j < n + 1 => stream[c[j]] = "middle")
      OBVIOUS
    <3>1. j \in 1 .. n + 1 /\ j - 1 \in 1 .. n + 1 /\ (j < n + 1 => j \in 2 .. n)
      BY <1>5
    <3>2. c[j] = c[1] + (j - 1) /\ c[j - 1] = c[1] + ((j - 1) - 1)
      BY <1>11, <3>1
    <3>3. c[j] = c[j - 1] + 1
      BY <1>9, <3>1, <3>2
    <3> QED
      BY <1>12, <3>1, <3>3
  <2>2. WholeNal(stream, c)
    BY <1>5, <1>13, <1>14, <2>1 DEF WholeNal
  <2>3. nals # <<>> => nals[Len(nals)][Len(nals[Len(nals)])] < c[1]
    BY <1>1, <1>9 DEF NalsOK
  <2>4. NalsOK' /\ InNals' = InNals \cup Range(c)
    BY <1>1, <1>3, <1>5, <1>7, <1>14, <2>2, <2>3, NalsGrow
  <2>5. Chain(pending)' /\ Range(pending)' = {} /\ Len(pending') = 0
    BY <1>1, <1>14, EmptyChain
  <2>6. AccountedOK'
    BY <1>1, <1>2, <1>3, <1>6, <2>4, <2>5 DEF AccountedOK
  <2> QED
    BY <1>1, <1>14, <2>4, <2>5, <2>6, Constants DEF Pushed
<1>15. CASE stream[p] = "middle"
  <2>1. pending' = c /\ nals' = nals /\ pendingAge' = pendingAge
    BY <1>1, <1>7, <1>15
  <2>2. nals # <<>> => nals[Len(nals)][Len(nals[Len(nals)])] < c[1]
    BY <1>1, <1>9 DEF NalsOK
  <2>3. NalsOK' /\ InNals' = InNals
    BY <1>3, <2>1, <2>2, NalsKept
  <2>4. \A j \in 2 .. n + 1 : stream[c[j]] = "middle"
    <3> SUFFICES ASSUME NEW j \in 2 .. n + 1 PROVE stream[c[j]] = "middle"
      OBVIOUS
    <3>1. j = n + 1 \/ j \in 2 .. n
      BY <1>5
    <3> QED
      BY <1>12, <1>13, <1>15, <3>1
  <2>5. Chain(pending)'
    BY <1>3, <1>5, <1>11, <1>13, <2>1, <2>4 DEF Chain
  <2>6. Range(pending)' = Range(pending) \cup {p}
    BY <1>6, <2>1 DEF Range
  <2>7. AccountedOK'
    BY <1>1, <1>2, <1>3, <2>3, <2>6 DEF AccountedOK
  <2>8. Len(pending') <= MaxFragments /\ pending'[Len(pending')] = p /\ pending' # <<>>
    BY <1>5, <1>8, <2>1, Constants
  <2> QED
    BY <2>1, <2>3, <2>5, <2>7, <2>8 DEF Pushed
<1> QED
  BY <1>1, <1>14, <1>15

-----------------------------------------------------------------------------
(* The steps of the receiver.                                               *)

(* The first packet of the queue is pushed behind everything released.      *)
LEMMA PollPacketStep ==
  ASSUME ReceiverIInv, PollPacket
  PROVE  ReceiverIInv'
<1> DEFINE c == FirstQueued
           p == c.pos
<1>1. ~ended /\ ~Overdue /\ Release /\ Push(c.seq, p) /\ stream' = stream /\ ended' = ended
  BY DEF PollPacket
<1>2. ReorderInv /\ CodecTypes /\ PushedOK /\ NalsOK /\ AccountedOK
  BY DEF ReceiverIInv
<1>3. TrackerOK /\ BufferOK /\ QueueOK /\ LogOK
  BY <1>2 DEF ReorderInv, BufferOK
<1>4. ReorderInv' /\ nextSequence' = c.seq + 1
  BY <1>1, <1>2, ReleaseStep
<1>5. /\ queue # {} /\ c.seq = nextSequence /\ queue' = queue \ {c}
      /\ log' = Append(log, [first |-> c.seq, last |-> c.seq, pos |-> p])
      /\ base' = base /\ offset' = offset /\ phase' = phase
  BY <1>1 DEF Release, tracker
<1>6. c \in queue
  BY <1>3, <1>5, FirstFacts
<1> HIDE DEF c
<1>7. p \in Positions /\ c.seq \in Extended /\ c.seq = p + offset
  BY <1>3, <1>6 DEF QueueOK, Packet
<1>8. base # None /\ offset \in Int /\ p \in Int /\ c.seq \in Nat
  BY <1>3, <1>5, <1>7, Constants DEF BufferOK, TrackerOK, TrackerTypes, Positions, Extended
<1> DEFINE e == [first |-> c.seq, last |-> c.seq, pos |-> p]
<1>9. e \in Entry /\ e.pos = p /\ e.pos # None /\ log' = Append(log, e)
  BY <1>5, <1>7, <1>8, Constants DEF Entry, None, Positions
<1> HIDE DEF e
<1>10. Released' = Released \cup {p}
  BY <1>3, <1>9, ReleasedGrows
<1> HIDE DEF p
<1>11. \A r \in Released : r < p
  <2> SUFFICES ASSUME NEW r \in Released PROVE r < p
    OBVIOUS
  <2>1. r \in Int
    BY <1>3, ReleasedTyped, Constants DEF Positions
  <2>2. lastSequence # None /\ r + offset <= lastSequence /\ lastSequence < nextSequence
    BY <1>2 DEF PushedOK
  <2>3. lastSequence \in Int
    BY <1>2, Constants DEF CodecTypes, Extended, None
  <2> QED
    BY <1>5, <1>7, <1>8, <2>1, <2>2, <2>3
<1>12. lastSequence' = c.seq
  BY <1>1 DEF Push
<1>13. Pushing(p)
  <2>1. lastSequence' < nextSequence'
    BY <1>4, <1>8, <1>12
  <2> QED
    BY <1>1, <1>2, <1>5, <1>7, <1>8, <1>10, <1>11, <1>12, <2>1 DEF Pushing, CodecTypes
<1>14. Pushed(p)
  <2> DEFINE gap   == lastSequence # None /\ lastSequence + 1 # c.seq
             chain == IF gap THEN <<>> ELSE pending
  <2>1. Whole(p) \/ Start(p) \/ Continue(p, chain) \/ Refuse(p, chain)
    BY <1>1 DEF Push
  <2>2. CASE Continue(p, chain)
    <3>1. chain # <<>>
      BY <2>2 DEF Continue, Continues
    <3>2. ~gap /\ chain = pending /\ pending # <<>>
      BY <3>1
    <3>3. lastSequence # None /\ pending[Len(pending)] + offset = lastSequence /\ Chain(pending)
      BY <1>2, <3>2 DEF PushedOK
    <3>4. lastSequence + 1 = c.seq
      BY <3>2, <3>3
    <3>5. pending[Len(pending)] \in Int
      <4>1. pending \in Seq(Positions)
        BY <3>3 DEF Chain
      <4>2. pending[Len(pending)] \in Positions
        BY <3>2, <4>1
      <4> QED
        BY <4>2, Constants DEF Positions
    <3>6. pending[Len(pending)] + 1 = p
      <4>1. lastSequence \in Int
        BY <1>2, Constants DEF CodecTypes, Extended, None
      <4> QED
        BY <1>7, <1>8, <3>3, <3>4, <3>5, <4>1
    <3>7. Continue(p, pending)
      BY <2>2, <3>2
    <3> QED
      BY <1>2, <1>13, <3>3, <3>6, <3>7, ContinueStep DEF CodecTypes
  <2>3. CASE Refuse(p, chain)
    BY <1>2, <1>13, <2>3, RefuseStep
  <2> QED
    BY <1>2, <1>13, <2>1, <2>2, <2>3, WholeStep, StartStep
<1>15. PushedOK'
  <2>1. \A r \in Released' : r + offset' <= lastSequence'
    <3> SUFFICES ASSUME NEW r \in Released' PROVE r + offset <= p + offset
      BY <1>5, <1>7, <1>12
    <3>1. r = p \/ (r \in Released /\ r < p)
      BY <1>10, <1>11
    <3>2. r \in Int
      BY <1>3, <1>8, <3>1, ReleasedTyped, Constants DEF Positions
    <3> QED
      BY <1>8, <3>1, <3>2
  <2>2. lastSequence' # None /\ base' # None /\ lastSequence' < nextSequence'
    <3>1. lastSequence' # None
      BY <1>8, <1>12 DEF None
    <3> QED
      BY <1>13, <3>1 DEF Pushing
  <2>3. Chain(pending)' /\ (pending' # <<>> => pending'[Len(pending')] = p)
    BY <1>14 DEF Pushed
  <2>4. lastSequence' = p + offset'
    BY <1>13 DEF Pushing
  <2> QED
    BY <2>1, <2>2, <2>3, <2>4 DEF PushedOK
<1>16. CodecTypes'
  <2>1. /\ Len(pending') <= MaxFragments /\ pendingAge' \in 0 .. MaxAge
        /\ pending' = <<>> => pendingAge' = 0
    BY <1>14 DEF Pushed
  <2>2. ~ended' /\ phase' # "closed"
    BY <1>1, <1>2, <1>5 DEF CodecTypes
  <2>3. ended' \in BOOLEAN /\ (phase' = "closed" <=> ended')
    BY <1>1, <1>2, <1>5 DEF CodecTypes
  <2>4. lastSequence' \in Extended /\ stream' \in Streams
    BY <1>1, <1>2, <1>7, <1>12 DEF CodecTypes
  <2> QED
    BY <2>1, <2>2, <2>3, <2>4 DEF CodecTypes
<1> QED
  BY <1>4, <1>14, <1>15, <1>16 DEF ReceiverIInv, Pushed

(* A chain that is given up, while the buffer moves on or stays.            *)
LEMMA DiscardStep ==
  ASSUME ReceiverIInv, ReorderInv', Discard, nals' = nals, refused' = refused, stream' = stream,
         lastSequence' = lastSequence, Released' = Released,
         lastSequence # None => base' = base /\ offset' = offset
                                /\ nextSequence' \in Nat /\ nextSequence <= nextSequence',
         ended' \in BOOLEAN, phase' = "closed" <=> ended', ended' => queue' = {}
  PROVE  ReceiverIInv'
<1>1. ReorderInv /\ CodecTypes /\ PushedOK /\ NalsOK /\ AccountedOK
  BY DEF ReceiverIInv
<1>2. pending' = <<>> /\ pendingAge' = 0 /\ retired' = retired \cup Range(pending)
  BY DEF Discard
<1>3. NalsOK' /\ InNals' = InNals
  BY <1>1, <1>2, NalsKept
<1>4. AccountedOK'
  BY <1>1, <1>2, <1>3, AccountDiscard
<1>5. lastSequence # None => nextSequence \in Nat /\ lastSequence \in Nat
  <2>1. lastSequence # None => lastSequence \in Nat
    BY <1>1, Constants DEF CodecTypes, Extended
  <2>2. lastSequence # None => nextSequence \in Nat
    BY <1>1 DEF PushedOK, ReorderInv, BufferOK
  <2> QED
    BY <2>1, <2>2
<1>6. PushedOK'
  BY <1>1, <1>2, <1>5, PushedKept
<1>7. CodecTypes'
  <2>1. Len(pending') <= MaxFragments /\ pendingAge' \in 0 .. MaxAge
    BY <1>2, Constants
  <2> QED
    BY <1>1, <1>2, <2>1 DEF CodecTypes
<1> QED
  BY <1>3, <1>4, <1>6, <1>7 DEF ReceiverIInv

(* A step of the buffer that leaves the depacketizer alone.                 *)
LEMMA CodecKept ==
  ASSUME ReceiverIInv, ReorderInv', pending' = pending, retired' = retired,
         nals' = nals, refused' = refused, stream' = stream,
         lastSequence' = lastSequence, Released' = Released,
         lastSequence # None => base' = base /\ offset' = offset
                                /\ nextSequence' \in Nat /\ nextSequence <= nextSequence',
         pendingAge' \in 0 .. MaxAge, pending = <<>> => pendingAge' = 0,
         ended' \in BOOLEAN, phase' = "closed" <=> ended',
         ended' => queue' = {} /\ pending = <<>>
  PROVE  ReceiverIInv'
<1>1. ReorderInv /\ CodecTypes /\ PushedOK /\ NalsOK /\ AccountedOK
  BY DEF ReceiverIInv
<1>2. NalsOK' /\ InNals' = InNals
  BY <1>1, NalsKept DEF NalsOK
<1>3. AccountedOK'
  <2>1. Range(pending)' = Range(pending)
    BY DEF Range
  <2> QED
    BY <1>1, <1>2, <2>1 DEF AccountedOK
<1>4. lastSequence # None => nextSequence \in Nat /\ lastSequence \in Nat
  <2>1. lastSequence # None => lastSequence \in Nat
    BY <1>1, Constants DEF CodecTypes, Extended
  <2>2. lastSequence # None => nextSequence \in Nat
    BY <1>1 DEF PushedOK, ReorderInv, BufferOK
  <2> QED
    BY <2>1, <2>2
<1>5. PushedOK'
  BY <1>1, <1>4, PushedKept
<1>6. CodecTypes'
  BY <1>1 DEF CodecTypes
<1> QED
  BY <1>2, <1>3, <1>5, <1>6 DEF ReceiverIInv

(* What an ingest leaves of the buffer once there is a baseline.            *)
LEMMA IngestFrame ==
  ASSUME ReorderInv, NEW p \in Positions, NEW body \in Bodies, Ingest(p, body)
  PROVE  /\ log' = log /\ phase = "open"
         /\ phase' = phase \/ (phase' = "closed" /\ queue' = {})
         /\ base # None => base' = base /\ offset' = offset /\ nextSequence' = nextSequence
<1>1. phase = "open" /\ Unambiguous(p) /\ (Admit(p, body) \/ Note(p, body) \/ RestartRequired(p))
  BY DEF Ingest
<1> DEFINE o == Observe(Wire(p))
<1>2. TrackerOK /\ (base # None => nextSequence \in Nat /\ nextSequence # None)
  BY DEF ReorderInv, BufferOK, None
<1>3. CASE Admit(p, body)
  <2>1. /\ Install(o.tracker) /\ Hear(p, o) /\ phase' = phase /\ log' = log
        /\ nextSequence' = IF nextSequence = None THEN o.seq ELSE nextSequence
    BY <1>3 DEF Admit
  <2>2. Heeded(p, o)
    BY <1>1, <1>2, <2>1, TrackerStep
  <2> QED
    BY <1>1, <1>2, <2>1, <2>2 DEF Heeded
<1>4. CASE Note(p, body)
  <2>1. /\ Install(o.tracker) /\ Hear(p, o) /\ phase' = phase /\ log' = log
        /\ nextSequence' = nextSequence
    BY <1>4 DEF Note, buffer
  <2>2. Heeded(p, o)
    BY <1>1, <1>2, <2>1, TrackerStep
  <2> QED
    BY <1>1, <1>2, <2>1, <2>2 DEF Heeded
<1>5. CASE RestartRequired(p)
  <2>1. /\ o.class = "restart_required" /\ Retire /\ Install(o.tracker)
        /\ offset' = offset /\ heard' = heard /\ log' = log
    BY <1>5 DEF RestartRequired, observed
  <2>2. Hear(p, o)
    BY <2>1 DEF Hear, IsUnique
  <2>3. Heeded(p, o)
    BY <1>1, <1>2, <2>1, <2>2, TrackerStep
  <2> QED
    BY <1>1, <2>1, <2>3 DEF Heeded, Retire
<1> QED
  BY <1>1, <1>3, <1>4, <1>5

(* A packet comes in.                                                       *)
LEMMA ReceiveIngestStep ==
  ASSUME ReceiverIInv, NEW p \in Positions, NEW body \in Bodies, ReceiveIngest(p, body)
  PROVE  ReceiverIInv'
<1>1. /\ ~ended /\ Ingest(p, body) /\ stream' = stream /\ lastSequence' = lastSequence
      /\ nals' = nals /\ refused' = refused
      /\ IF phase' = "closed" THEN Discard /\ ended' = TRUE
         ELSE pending' = pending /\ pendingAge' = pendingAge /\ retired' = retired
              /\ ended' = ended
  BY DEF ReceiveIngest
<1>2. ReorderInv /\ CodecTypes /\ PushedOK
  BY DEF ReceiverIInv
<1>3. ReorderInv'
  BY <1>1, <1>2, IngestStep
<1>4. /\ log' = log /\ phase = "open"
      /\ phase' = phase \/ (phase' = "closed" /\ queue' = {})
      /\ base # None => base' = base /\ offset' = offset /\ nextSequence' = nextSequence
  BY <1>1, <1>2, IngestFrame
<1>5. Released' = Released
  BY <1>4 DEF Released
<1>6. lastSequence # None => base' = base /\ offset' = offset
                             /\ nextSequence' \in Nat /\ nextSequence <= nextSequence'
  <2> SUFFICES ASSUME lastSequence # None
               PROVE  base' = base /\ offset' = offset
                      /\ nextSequence' \in Nat /\ nextSequence <= nextSequence'
    OBVIOUS
  <2>1. base # None
    BY <1>2 DEF PushedOK
  <2>2. nextSequence \in Nat
    BY <1>2, <2>1 DEF ReorderInv, BufferOK
  <2> QED
    BY <1>4, <2>1, <2>2
<1>7. CASE phase' = "closed"
  <2>1. Discard /\ ended' = TRUE /\ queue' = {}
    BY <1>1, <1>4, <1>7
  <2>2. ended' \in BOOLEAN /\ (phase' = "closed" <=> ended')
    BY <1>7, <2>1
  <2> QED
    BY <1>1, <1>3, <1>5, <1>6, <2>1, <2>2, DiscardStep
<1>8. CASE phase' # "closed"
  <2>1. pending' = pending /\ pendingAge' = pendingAge /\ retired' = retired /\ ended' = ended
    BY <1>1, <1>8
  <2>2. ended' \in BOOLEAN /\ (phase' = "closed" <=> ended') /\ ~ended'
    BY <1>1, <1>2, <1>8, <2>1 DEF CodecTypes
  <2>3. pendingAge' \in 0 .. MaxAge /\ (pending = <<>> => pendingAge' = 0)
    BY <1>2, <2>1 DEF CodecTypes
  <2> QED
    BY <1>1, <1>3, <1>5, <1>6, <2>1, <2>2, <2>3, CodecKept
<1> QED
  BY <1>7, <1>8

(* A poll that finds the chain too old.                                     *)
LEMMA PollExpiredStep ==
  ASSUME ReceiverIInv, PollExpired
  PROVE  ReceiverIInv'
<1>1. /\ Discard /\ UNCHANGED vars /\ stream' = stream /\ lastSequence' = lastSequence
      /\ ended' = ended /\ nals' = nals /\ refused' = refused
  BY DEF PollExpired
<1>2. /\ UNCHANGED <<tracker, queue, bytes, nextSequence, observed>> /\ phase' = phase
      /\ base' = base /\ offset' = offset /\ nextSequence' = nextSequence /\ log' = log
      /\ queue' = queue
  BY <1>1 DEF vars, tracker, buffer, observed
<1>3. ReorderInv /\ CodecTypes /\ PushedOK
  BY DEF ReceiverIInv
<1>4. ReorderInv'
  BY <1>2, <1>3, PhaseStep DEF ReorderInv, BufferOK
<1>5. Released' = Released
  BY <1>2 DEF Released
<1>6. lastSequence # None => nextSequence \in Nat
  BY <1>3 DEF PushedOK, ReorderInv, BufferOK
<1>7. ended' \in BOOLEAN /\ (phase' = "closed" <=> ended') /\ (ended' => queue' = {})
  BY <1>1, <1>2, <1>3 DEF CodecTypes
<1> QED
  BY <1>1, <1>2, <1>4, <1>5, <1>6, <1>7, DiscardStep

(* A poll that declares a gap.                                              *)
LEMMA PollGapStep ==
  ASSUME ReceiverIInv, PollGap
  PROVE  ReceiverIInv'
<1>1. /\ DeclareGap /\ Discard /\ stream' = stream /\ lastSequence' = lastSequence
      /\ ended' = ended /\ nals' = nals /\ refused' = refused
  BY DEF PollGap
<1>2. ReorderInv /\ CodecTypes /\ PushedOK /\ LogOK
  BY DEF ReceiverIInv, ReorderInv, BufferOK
<1>3. ReorderInv' /\ nextSequence <= nextSequence'
  BY <1>1, <1>2, DeclareGapStep
<1>4. base' = base /\ offset' = offset /\ phase' = phase /\ queue' = queue
  BY <1>1 DEF DeclareGap, tracker
<1>5. Released' = Released
  <2> DEFINE e == [first |-> nextSequence, last |-> FirstQueued.seq - 1, pos |-> None]
  <2>1. log' = Append(log, e) /\ log' \in Seq(Entry) /\ log \in Seq(Entry)
    BY <1>1, <1>2, <1>3 DEF DeclareGap, ReorderInv, BufferOK, LogOK
  <2>2. e.pos = None
    OBVIOUS
  <2> HIDE DEF e
  <2>3. log'[Len(log) + 1] = e /\ Len(log') = Len(log) + 1 /\ Len(log) \in Nat
    BY <2>1
  <2>4. e \in Entry
    <3>1. Len(log) + 1 \in 1 .. Len(log')
      BY <2>3
    <3>2. log'[Len(log) + 1] \in Entry
      BY <2>1, <3>1
    <3> QED
      BY <2>3, <3>2
  <2> QED
    BY <1>2, <2>1, <2>2, <2>4, ReleasedGrows
<1>6. base' # None => nextSequence' \in Nat
  BY <1>3 DEF ReorderInv, BufferOK
<1>7. lastSequence # None => nextSequence' \in Nat
  BY <1>2, <1>4, <1>6 DEF PushedOK
<1>8. ended' \in BOOLEAN /\ (phase' = "closed" <=> ended') /\ (ended' => queue' = {})
  BY <1>1, <1>2, <1>4 DEF CodecTypes
<1> QED
  BY <1>1, <1>3, <1>4, <1>5, <1>7, <1>8, DiscardStep

(* The end of input, reported once the buffer is drained.                   *)
LEMMA ReceiverEndsStep ==
  ASSUME ReceiverIInv, ReceiverEnds
  PROVE  ReceiverIInv'
<1>1. /\ PollEnded /\ Discard /\ ended' = TRUE /\ stream' = stream /\ lastSequence' = lastSequence
      /\ nals' = nals /\ refused' = refused
  BY DEF ReceiverEnds
<1>2. /\ queue = {} /\ phase' = "closed" /\ queue' = queue /\ nextSequence' = nextSequence
      /\ UNCHANGED <<tracker, queue, bytes, nextSequence, observed>>
      /\ base' = base /\ offset' = offset /\ log' = log
  BY <1>1 DEF PollEnded, tracker, observed
<1>3. ReorderInv /\ PushedOK
  BY DEF ReceiverIInv
<1>4. ReorderInv'
  BY <1>2, <1>3, PhaseStep
<1>5. Released' = Released
  BY <1>2 DEF Released
<1>6. lastSequence # None => nextSequence \in Nat
  BY <1>3 DEF PushedOK, ReorderInv, BufferOK
<1>7. ended' \in BOOLEAN /\ (phase' = "closed" <=> ended') /\ queue' = {}
  BY <1>1, <1>2
<1> QED
  BY <1>1, <1>2, <1>4, <1>5, <1>6, <1>7, DiscardStep

(* Cancelling retires both layers.                                          *)
LEMMA ReceiveCancelStep ==
  ASSUME ReceiverIInv, ReceiveCancel
  PROVE  ReceiverIInv'
<1>1. /\ Cancel /\ Discard /\ ended' = TRUE /\ stream' = stream /\ lastSequence' = lastSequence
      /\ nals' = nals /\ refused' = refused
  BY DEF ReceiveCancel
<1>2. /\ queue' = {} /\ phase' = "closed" /\ nextSequence' = nextSequence
      /\ base' = base /\ offset' = offset /\ log' = log
  BY <1>1 DEF Cancel, Retire, tracker, observed
<1>3. ReorderInv /\ PushedOK
  BY DEF ReceiverIInv
<1>4. ReorderInv'
  BY <1>1, <1>3, CancelStep
<1>5. Released' = Released
  BY <1>2 DEF Released
<1>6. lastSequence # None => nextSequence \in Nat
  BY <1>3 DEF PushedOK, ReorderInv, BufferOK
<1>7. ended' \in BOOLEAN /\ (phase' = "closed" <=> ended')
  BY <1>1, <1>2
<1> QED
  BY <1>1, <1>2, <1>4, <1>5, <1>6, <1>7, DiscardStep

(* Closing the input.                                                       *)
LEMMA ReceiveFinishStep ==
  ASSUME ReceiverIInv, ReceiveFinish
  PROVE  ReceiverIInv'
<1>1. /\ Finish /\ stream' = stream /\ lastSequence' = lastSequence /\ pending' = pending
      /\ pendingAge' = pendingAge /\ ended' = ended /\ nals' = nals /\ retired' = retired
      /\ refused' = refused
  BY DEF ReceiveFinish, codec, emitted
<1>2. /\ phase = "open" /\ phase' = "draining" /\ nextSequence' = nextSequence
      /\ UNCHANGED <<tracker, queue, bytes, nextSequence, observed>>
      /\ base' = base /\ offset' = offset /\ log' = log
  BY <1>1 DEF Finish, tracker, observed
<1>3. ReorderInv /\ PushedOK /\ CodecTypes
  BY DEF ReceiverIInv
<1>4. ReorderInv'
  BY <1>2, <1>3, PhaseStep
<1>5. Released' = Released
  BY <1>2 DEF Released
<1>6. lastSequence # None => nextSequence \in Nat
  BY <1>3 DEF PushedOK, ReorderInv, BufferOK
<1>7. ended' \in BOOLEAN /\ (phase' = "closed" <=> ended') /\ ~ended'
  BY <1>1, <1>2, <1>3 DEF CodecTypes
<1>8. pendingAge' \in 0 .. MaxAge /\ (pending = <<>> => pendingAge' = 0)
  BY <1>1, <1>3 DEF CodecTypes
<1> QED
  BY <1>1, <1>2, <1>4, <1>5, <1>6, <1>7, <1>8, CodecKept

(* Time passes.                                                             *)
LEMMA ReceiverTickStep ==
  ASSUME ReceiverIInv, ReceiverTick
  PROVE  ReceiverIInv'
<1>1. /\ queue' = {[q EXCEPT !.age = IF @ < MaxDelay THEN @ + 1 ELSE @] : q \in queue}
      /\ pendingAge' = IF pending # <<>> /\ pendingAge < MaxAge THEN pendingAge + 1
                       ELSE pendingAge
      /\ UNCHANGED <<tracker, bytes, nextSequence, phase, observed>>
      /\ stream' = stream /\ lastSequence' = lastSequence /\ pending' = pending
      /\ ended' = ended /\ nals' = nals /\ retired' = retired /\ refused' = refused
  BY DEF ReceiverTick, emitted
<1>2. queue' = {Older(q) : q \in queue}
  BY <1>1 DEF Older
<1>3. nextSequence' = nextSequence /\ base' = base /\ offset' = offset /\ log' = log
      /\ phase' = phase
  BY <1>1 DEF tracker, observed
<1>4. ReorderInv /\ PushedOK /\ CodecTypes
  BY DEF ReceiverIInv
<1>5. ReorderInv'
  BY <1>1, <1>2, <1>4, TickStep
<1>6. Released' = Released
  BY <1>3 DEF Released
<1>7. lastSequence # None => nextSequence \in Nat
  BY <1>4 DEF PushedOK, ReorderInv, BufferOK
<1>8. ended' \in BOOLEAN /\ (phase' = "closed" <=> ended')
      /\ (ended' => queue' = {} /\ pending = <<>>)
  <2>1. ended' \in BOOLEAN /\ (phase' = "closed" <=> ended')
        /\ (ended' => queue = {} /\ pending = <<>>)
    BY <1>1, <1>3, <1>4 DEF CodecTypes
  <2>2. queue = {} => queue' = {}
    BY <1>2
  <2> QED
    BY <2>1, <2>2
<1>9. pendingAge' \in 0 .. MaxAge /\ (pending = <<>> => pendingAge' = 0)
  BY <1>1, <1>4, Constants DEF CodecTypes
<1> QED
  BY <1>1, <1>3, <1>5, <1>6, <1>7, <1>8, <1>9, CodecKept

(* The invariant holds of a new receiver.                                   *)
LEMMA ReceiverStarts ==
  ASSUME ReceiverInit
  PROVE  ReceiverIInv
<1>1. Init /\ stream \in Streams /\ lastSequence = None /\ pending = <<>> /\ pendingAge = 0
      /\ ended = FALSE /\ nals = <<>> /\ retired = {} /\ refused = {}
  BY DEF ReceiverInit
<1>2. ReorderInv
  BY <1>1, ReorderInit
<1>3. log = <<>> /\ phase = "open"
  BY <1>1 DEF Init
<1>4. Range(<<>>) = {}
  BY DEF Range
<1>5. Released = {} /\ InNals = {}
  BY <1>1, <1>3, <1>4 DEF Released, InNals
<1>6. CodecTypes
  <2>1. Len(pending) <= MaxFragments /\ pendingAge \in 0 .. MaxAge
    BY <1>1, Constants
  <2>2. ended \in BOOLEAN /\ ~ended /\ phase # "closed"
    BY <1>1, <1>3
  <2> QED
    BY <1>1, <2>1, <2>2 DEF CodecTypes
<1>7. PushedOK
  BY <1>1, <1>5 DEF PushedOK, Chain
<1>8. NalsOK
  BY <1>1 DEF NalsOK, WholeNals, NalsInOrder
<1>9. AccountedOK
  BY <1>1, <1>4, <1>5 DEF AccountedOK
<1> QED
  BY <1>2, <1>6, <1>7, <1>8, <1>9 DEF ReceiverIInv

(* A step that changes nothing.                                             *)
LEMMA ReceiverStutter ==
  ASSUME ReceiverIInv, UNCHANGED receiverVars
  PROVE  ReceiverIInv'
<1>1. /\ UNCHANGED vars /\ stream' = stream /\ lastSequence' = lastSequence
      /\ pending' = pending /\ pendingAge' = pendingAge /\ ended' = ended
      /\ nals' = nals /\ retired' = retired /\ refused' = refused
  BY DEF receiverVars, codec, emitted
<1>2. /\ UNCHANGED <<tracker, queue, bytes, nextSequence, observed>> /\ phase' = phase
      /\ base' = base /\ offset' = offset /\ nextSequence' = nextSequence /\ log' = log
      /\ queue' = queue
  BY <1>1 DEF vars, tracker, buffer, observed
<1>3. ReorderInv /\ CodecTypes /\ PushedOK
  BY DEF ReceiverIInv
<1>4. ReorderInv'
  BY <1>2, <1>3, PhaseStep DEF ReorderInv, BufferOK
<1>5. Released' = Released
  BY <1>2 DEF Released
<1>6. lastSequence # None => nextSequence \in Nat
  BY <1>3 DEF PushedOK, ReorderInv, BufferOK
<1>7. ended' \in BOOLEAN /\ (phase' = "closed" <=> ended')
      /\ (ended' => queue' = {} /\ pending = <<>>)
  BY <1>1, <1>2, <1>3 DEF CodecTypes
<1>8. pendingAge' \in 0 .. MaxAge /\ (pending = <<>> => pendingAge' = 0)
  BY <1>1, <1>3 DEF CodecTypes
<1> QED
  BY <1>1, <1>2, <1>4, <1>5, <1>6, <1>7, <1>8, CodecKept

(* The inductive invariant of the receiver.                                 *)
THEOREM ReceiverInvariance == ReceiverSpec => []ReceiverIInv
<1>1. ReceiverInit => ReceiverIInv
  BY ReceiverStarts
<1>2. ReceiverIInv /\ [ReceiverNext]_receiverVars => ReceiverIInv'
  <2> SUFFICES ASSUME ReceiverIInv, [ReceiverNext]_receiverVars
               PROVE  ReceiverIInv'
    OBVIOUS
  <2>1. ASSUME NEW p \in Positions, NEW body \in Bodies, ReceiveIngest(p, body)
        PROVE  ReceiverIInv'
    BY <2>1, ReceiveIngestStep
  <2>2. CASE ReceivePoll
    BY <2>2, PollExpiredStep, PollPacketStep, PollGapStep, ReceiverEndsStep DEF ReceivePoll
  <2>3. CASE ReceiveFinish
    BY <2>3, ReceiveFinishStep
  <2>4. CASE ReceiveCancel
    BY <2>4, ReceiveCancelStep
  <2>5. CASE ReceiverTick
    BY <2>5, ReceiverTickStep
  <2>6. CASE ReceiverRest
    BY <2>6, ReceiverStutter DEF ReceiverRest
  <2>7. CASE UNCHANGED receiverVars
    BY <2>7, ReceiverStutter
  <2> QED
    BY <2>1, <2>2, <2>3, <2>4, <2>5, <2>6, <2>7 DEF ReceiverNext
<1> QED
  BY <1>1, <1>2, PTL DEF ReceiverSpec

-----------------------------------------------------------------------------
(* What the invariant of the receiver gives.                                *)

(* A chain has as many packets as it is long.                               *)
LEMMA ChainSize ==
  ASSUME NEW c, Chain(c)
  PROVE  IsFiniteSet(Range(c)) /\ Cardinality(Range(c)) = Len(c)
<1>1. c \in Seq(Positions) /\ \A j \in 1 .. Len(c) : c[j] = c[1] + (j - 1)
  BY DEF Chain
<1>2. CASE c = <<>>
  <2>1. Range(c) = {} /\ Len(c) = 0
    BY <1>1, <1>2, RangeFacts
  <2> QED
    BY <2>1, FS_EmptySet
<1>3. CASE c # <<>>
  <2> DEFINE n == Len(c)
             a == c[1]
             z == a + (n - 1)
  <2>1. n \in Nat /\ n >= 1
    BY <1>1, <1>3
  <2>2. a \in Int
    <3>1. 1 \in 1 .. Len(c)
      BY <2>1
    <3>2. c[1] \in Positions
      BY <1>1, <3>1
    <3> QED
      BY <3>2, Constants DEF Positions
  <2>3. \A j \in 1 .. n : c[j] = a + (j - 1)
    BY <1>1
  <2>4. Range(c) = a .. z
    <3>1. (\A i \in 1 .. n : c[i] \in Range(c)) /\ \A x \in Range(c) : \E i \in 1 .. n : x = c[i]
      BY <1>1, RangeFacts
    <3> HIDE DEF n, a
    <3>2. \A x \in Range(c) : x \in a .. z
      <4> SUFFICES ASSUME NEW x \in Range(c) PROVE x \in a .. z
        OBVIOUS
      <4>1. PICK i \in 1 .. n : x = c[i]
        BY <3>1
      <4>2. x = a + (i - 1)
        BY <2>3, <4>1
      <4> QED
        BY <2>1, <2>2, <4>2
    <3>3. \A x \in a .. z : x \in Range(c)
      <4> SUFFICES ASSUME NEW x \in a .. z PROVE x \in Range(c)
        OBVIOUS
      <4>1. (x - a) + 1 \in 1 .. n /\ x = a + (((x - a) + 1) - 1)
        BY <2>1, <2>2
      <4>2. c[(x - a) + 1] = x
        BY <2>3, <4>1
      <4> QED
        BY <3>1, <4>1, <4>2
    <3> QED
      BY <3>2, <3>3
  <2>5. z \in Int /\ a <= z /\ (z - a) + 1 = n
    BY <2>1, <2>2
  <2> HIDE DEF a, z, n
  <2>6. IsFiniteSet(a .. z) /\ Cardinality(a .. z) = z - a + 1
    BY <2>2, <2>5, FS_Interval
  <2>7. Cardinality(a .. z) = n
    BY <2>2, <2>5, <2>6
  <2> QED
    BY <2>4, <2>6, <2>7 DEF n
<1> QED
  BY <1>2, <1>3

(* Two finite sets with nothing in common.                                  *)
LEMMA DisjointSize ==
  ASSUME NEW S, NEW T, IsFiniteSet(S), IsFiniteSet(T), S \cap T = {}
  PROVE  IsFiniteSet(S \cup T) /\ Cardinality(S \cup T) = Cardinality(S) + Cardinality(T)
<1>1. IsFiniteSet(S \cup T)
      /\ Cardinality(S \cup T) = Cardinality(S) + Cardinality(T) - Cardinality(S \cap T)
  BY FS_Union
<1>2. Cardinality(S \cap T) = 0
  BY FS_EmptySet
<1>3. Cardinality(S) \in Nat /\ Cardinality(T) \in Nat
  BY FS_CardinalityType
<1> QED
  BY <1>1, <1>2, <1>3

(* Every released packet is in exactly one place.                           *)
LEMMA AccountedGiven ==
  ASSUME ReceiverIInv
  PROVE  PacketsAccounted
<1>1. LogOK /\ AccountedOK /\ Chain(pending)
  BY DEF ReceiverIInv, ReorderInv, BufferOK, PushedOK
<1>2. Released \subseteq Positions
  BY <1>1, ReleasedTyped
<1> DEFINE A == InNals
           B == Range(pending)
           C == retired
           D == refused
<1>3. Released = ((A \cup B) \cup C) \cup D
  BY <1>1 DEF AccountedOK
<1>4. A \cap B = {} /\ (A \cup B) \cap C = {} /\ ((A \cup B) \cup C) \cap D = {}
  BY <1>1 DEF AccountedOK
<1>5. IsFiniteSet(B) /\ Cardinality(B) = Len(pending)
  BY <1>1, ChainSize
<1> HIDE DEF A, B, C, D
<1>6. A \in SUBSET Positions /\ C \in SUBSET Positions /\ D \in SUBSET Positions
  BY <1>2, <1>3
<1>7. IsFiniteSet(A) /\ IsFiniteSet(C) /\ IsFiniteSet(D)
  BY <1>6, HeardFinite
<1>8. IsFiniteSet(A \cup B) /\ Cardinality(A \cup B) = Cardinality(A) + Cardinality(B)
  BY <1>4, <1>5, <1>7, DisjointSize
<1>9. IsFiniteSet((A \cup B) \cup C)
      /\ Cardinality((A \cup B) \cup C) = Cardinality(A \cup B) + Cardinality(C)
  BY <1>4, <1>7, <1>8, DisjointSize
<1>10. Cardinality(((A \cup B) \cup C) \cup D)
         = Cardinality((A \cup B) \cup C) + Cardinality(D)
  BY <1>4, <1>7, <1>9, DisjointSize
<1>11. Cardinality(Released) = Cardinality(A) + Len(pending) + Cardinality(C) + Cardinality(D)
  BY <1>3, <1>5, <1>8, <1>9, <1>10
<1>12. Released = InNals \cup Range(pending) \cup retired \cup refused
  BY <1>1 DEF AccountedOK
<1> QED
  BY <1>11, <1>12 DEF PacketsAccounted, Released, InNals, A, C, D

(* The age of the queue is that of its oldest packet.                       *)
LEMMA AgeFacts ==
  ASSUME QueueOK, queue # {}
  PROVE  Age \in 0 .. MaxDelay /\ \A q \in queue : q.age \in 0 .. MaxDelay /\ q.age <= Age
<1> DEFINE S == {q.age : q \in queue}
           B == {MaxDelay - x : x \in S}
<1>1. MaxDelay \in Nat /\ S \subseteq 0 .. MaxDelay /\ S # {}
  BY Constants DEF QueueOK, Packet
<1>2. B \in SUBSET (0 .. MaxDelay) /\ B # {}
  BY <1>1
<1>3. PICK k \in B : \A m \in B : k <= m
  BY <1>1, <1>2, LeastNumber
<1>4. PICK x \in S : k = MaxDelay - x
  BY <1>3
<1>5. \A y \in S : x >= y
  <2> SUFFICES ASSUME NEW y \in S PROVE x >= y
    OBVIOUS
  <2>1. MaxDelay - y \in B
    OBVIOUS
  <2>2. MaxDelay - x <= MaxDelay - y
    BY <1>3, <1>4, <2>1
  <2>3. x \in Int /\ y \in Int
    BY <1>1
  <2> QED
    BY <1>1, <2>2, <2>3
<1>6. Age = CHOOSE z \in S : \A y \in S : z >= y
  BY DEF Age, Max
<1> HIDE DEF S, B
<1>7. Age \in S /\ \A y \in S : Age >= y
  BY <1>5, <1>6
<1>8. \A q \in queue : q.age \in S
  BY DEF S
<1> QED
  BY <1>1, <1>7, <1>8

(* The least of a set of one or two numbers.                                *)
LEMMA LeastOfTwo ==
  ASSUME NEW W, NEW a \in Nat, NEW b \in Nat, W \subseteq {a, b}, W # {}
  PROVE  Min(W) \in W /\ \A x \in W : Min(W) <= x
<1>1. \E x \in W : \A y \in W : x <= y
  <2>1. a <= b \/ b <= a
    OBVIOUS
  <2>2. a <= a /\ b <= b
    OBVIOUS
  <2> QED
    BY <2>1, <2>2
<1>2. Min(W) = CHOOSE x \in W : \A y \in W : x <= y
  BY DEF Min
<1> QED
  BY <1>1, <1>2

(* The receiver asks to be polled in time.                                  *)
LEMMA WakesGiven ==
  ASSUME ReceiverIInv
  PROVE  ReceiverWakesInTime
<1> SUFFICES ASSUME ~ended, phase = "open"
             PROVE  /\ pending # <<>> => ReceiverWake # None /\ pendingAge + ReceiverWake <= MaxAge
                    /\ \A q \in queue : ReceiverWake # None /\ q.age + ReceiverWake <= MaxDelay
  BY DEF ReceiverWakesInTime
<1>1. QueueOK /\ CodecTypes
  BY DEF ReceiverIInv, ReorderInv, BufferOK
<1> DEFINE chain == IF pending = <<>> THEN {} ELSE {MaxAge - pendingAge}
           ready == IF NextWake = None THEN {} ELSE {NextWake}
           W     == chain \cup ready
<1>2. MaxAge - pendingAge \in Nat /\ pendingAge \in Nat /\ MaxAge \in Nat /\ MaxDelay \in Nat
  BY <1>1, Constants DEF CodecTypes
<1>3. ReceiverWake = IF W = {} THEN None ELSE Min(W)
  BY DEF ReceiverWake
<1>4. CASE queue = {}
  <2>1. NextWake = None
    BY <1>4 DEF NextWake
  <2>2. ready = {}
    BY <2>1
  <2>3. pending # <<>> => W = {MaxAge - pendingAge}
    BY <2>2
  <2> DEFINE a == MaxAge - pendingAge
  <2>4. pending # <<>> => Min(W) \in W /\ W # {}
    <3> SUFFICES ASSUME pending # <<>> PROVE Min(W) \in W /\ W # {}
      OBVIOUS
    <3>1. W \subseteq {a, a} /\ W # {} /\ a \in Nat
      BY <1>2, <2>3
    <3> HIDE DEF W, a
    <3> QED
      BY <3>1, LeastOfTwo
  <2>5. pending # <<>> => ReceiverWake = MaxAge - pendingAge
    BY <1>3, <2>3, <2>4
  <2> QED
    BY <1>2, <1>4, <2>5 DEF None
<1>5. CASE queue # {}
  <2>1. Age \in 0 .. MaxDelay /\ \A q \in queue : q.age \in 0 .. MaxDelay /\ q.age <= Age
    BY <1>1, <1>5, AgeFacts
  <2>2. NextWake = 0 \/ NextWake = MaxDelay - Age
    BY <1>5 DEF NextWake
  <2>3. NextWake \in Nat /\ NextWake # None /\ NextWake <= MaxDelay - Age
    BY <1>2, <2>1, <2>2 DEF None
  <2> DEFINE a == MaxAge - pendingAge
             b == NextWake
  <2>4. W \subseteq {a, b} /\ b \in W /\ W # {} /\ (pending # <<>> => a \in W) /\ a \in Nat
        /\ b \in Nat
    BY <1>2, <2>3
  <2>5. ReceiverWake = Min(W)
    BY <1>3, <2>4
  <2>6. a = MaxAge - pendingAge /\ b <= MaxDelay - Age
    BY <2>3
  <2> HIDE DEF W, a, b
  <2>7. Min(W) \in W /\ \A x \in W : Min(W) <= x
    BY <2>4, LeastOfTwo
  <2>8. ReceiverWake \in Nat /\ ReceiverWake <= b /\ (pending # <<>> => ReceiverWake <= a)
    BY <2>4, <2>5, <2>7
  <2>9. ReceiverWake # None
    BY <2>8 DEF None
  <2>10. pending # <<>> => pendingAge + ReceiverWake <= MaxAge
    BY <1>2, <2>4, <2>6, <2>8
  <2>11. \A q \in queue : q.age + ReceiverWake <= MaxDelay
    BY <1>2, <2>1, <2>4, <2>6, <2>8
  <2> QED
    BY <2>9, <2>10, <2>11
<1> QED
  BY <1>4, <1>5

(* The types of the receiver, the order of NALs, the account of packets and *)
(* the wake-up time.                                                        *)
LEMMA ReceiverGiven ==
  ASSUME ReceiverIInv
  PROVE  ReceiverInv
<1>1. TypeOK
  BY TrackerGiven DEF ReceiverIInv, TrackerInv
<1>2. Range(pending) \subseteq Positions
  BY RangeFacts DEF ReceiverIInv, PushedOK, Chain
<1>3. ReceiverTypeOK
  BY <1>1, <1>2 DEF ReceiverIInv, CodecTypes, ReceiverTypeOK
<1>4. NalsInOrder
  BY DEF ReceiverIInv, NalsOK
<1> QED
  BY <1>3, <1>4, AccountedGiven, WakesGiven DEF ReceiverInv

-----------------------------------------------------------------------------
(* The theorems.                                                            *)

(* SequenceTracker unwraps exactly across any number of wraps and counts    *)
(* exactly the different packets it accepted, as long as the network keeps  *)
(* packets unambiguous.                                                     *)
THEOREM UnwrapsExactly == ReceiverSpec => []TrackerInv
<1>1. ReceiverIInv => TrackerInv
  BY TrackerGiven DEF ReceiverIInv
<1> QED
  BY <1>1, ReceiverInvariance, PTL

(* RtpReorderBuffer::poll releases packets and gaps that tile the sequence  *)
(* space from the baseline on.                                              *)
THEOREM ReleasesInOrder == ReceiverSpec => []OutputTiles
<1>1. ReceiverIInv => OutputTiles
  BY DEF ReceiverIInv, ReorderInv, BufferOK, LogOK
<1> QED
  BY <1>1, ReceiverInvariance, PTL

(* No position the tracker would call a duplicate is lost by                *)
(* RtpReorderBuffer::ingest: it is queued, delivered or in a declared gap.  *)
THEOREM DuplicatesAreKept == ReceiverSpec => []SeenIsAccounted
<1>1. ReceiverIInv => SeenIsAccounted
  BY SeenGiven DEF ReceiverIInv
<1> QED
  BY <1>1, ReceiverInvariance, PTL

(* H264Receiver emits NALs in order, accounts for every packet it released  *)
(* exactly once, and asks to be polled before either layer is overdue.      *)
THEOREM ReceiverSafe == ReceiverSpec => []ReceiverInv
<1>1. ReceiverIInv => ReceiverInv
  BY ReceiverGiven
<1> QED
  BY <1>1, ReceiverInvariance, PTL

(* H264Depacketizer::push joins only the fragments of one NAL, from its     *)
(* start to its end, with none missing.                                     *)
THEOREM NalsAreWhole == ReceiverSpec => []WholeNals
<1>1. ReceiverIInv => WholeNals
  BY DEF ReceiverIInv, NalsOK
<1> QED
  BY <1>1, ReceiverInvariance, PTL
=============================================================================
