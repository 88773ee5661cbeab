------------------------- MODULE DurableLedgerProofs -------------------------
(***************************************************************************)
(* What DurableReferenceLedger promises, for every set of identities,       *)
(* objects and contents. A history is linked when every record continues    *)
(* the one before it and no identity occurs twice. That says nothing of     *)
(* replay and every prefix of a linked history is linked, so that it        *)
(* survives what a power loss leaves; a linked history whose records all    *)
(* decode replays to itself, and any other to nothing.                      *)
(***************************************************************************)
EXTENDS DurableLedger, CommonLemmas

-----------------------------------------------------------------------------
(* Linked histories and the inductive invariant.                            *)

(* The anchor after the first n records.                                    *)
Top(h, n) == IF n = 0 THEN Genesis.anchor ELSE h[n].new

(* The ledger that holds the first n records.                               *)
LedgerOf(h, n) == [batches |-> SubSeq(h, 1, n), anchor |-> Top(h, n)]

(* A record that continues a state of the ledger.                           *)
Continues(a, b) ==
  /\ b.basis = a
  /\ DeltasApply(a.root, b.deltas)
  /\ b.new.root = ApplyDeltas(a.root, b.deltas)

Linked(h) ==
  /\ \A i \in 1 .. Len(h) : h[i].new.sequence = i /\ Continues(Top(h, i - 1), h[i])
  /\ \A i, j \in 1 .. Len(h) : h[i].id = h[j].id => i = j

(* What the handle serves: the history without an attempt that may or may   *)
(* not be in it.                                                            *)
Known == IF attempt = <<>> THEN history ELSE Front(attempt)

HandleOK ==
  /\ handle = "closed" => attempt = <<>>
  /\ handle = "call" => attempt # <<>>
  /\ candidate = NoLedger <=> attempt = <<>>
  /\ attempt # <<>> => /\ candidate = LedgerOf(attempt, Len(attempt))
                       /\ history \in {attempt, Front(attempt)}
  /\ handle # "closed" => /\ ledger = LedgerOf(Known, Len(Known))
                          /\ identities = IdentityIndex(Known)

DurableInv == TypeOK /\ Linked(history) /\ Linked(attempt) /\ HandleOK

-----------------------------------------------------------------------------
(* Records and ledgers.                                                     *)

(* The parts of a batch.                                                    *)
LEMMA BatchFacts ==
  ASSUME NEW b \in Batches
  PROVE  b.id \in BatchIds /\ b.basis \in Anchors /\ b.new \in Anchors /\ b.deltas \in Deltas
  BY DEF Batches

(* The empty ledger.                                                        *)
LEMMA GenesisFacts ==
  /\ Genesis.batches = <<>> /\ Genesis.anchor \in Anchors /\ Genesis.anchor.sequence = 0
  /\ \A o \in Objects : Genesis.anchor.root[o].generation = 0
<1>1. Unwritten \in Revisions /\ Unwritten.generation = 0
  BY DEF Unwritten, Revisions
<1>2. [o \in Objects |-> Unwritten] \in Roots
  BY <1>1 DEF Roots
<1> QED
  BY <1>1, <1>2 DEF Genesis, Anchors

(* An anchor of the code is none of the failed replay.                      *)
LEMMA NotFailed ==
  ASSUME NEW l, l.anchor \in Anchors
  PROVE  l # NoLedger
<1>1. l.anchor.root \in [Objects -> Revisions]
  BY DEF Anchors, Roots
<1>2. NoLedger.anchor.root = <<>>
  BY DEF NoLedger
<1>3. DOMAIN l.anchor.root = Objects
  BY <1>1
<1>4. DOMAIN <<>> = {}
  OBVIOUS
<1> QED
  BY <1>2, <1>3, <1>4, LedgerAssumption

(* The anchor a history ends in.                                            *)
LEMMA TopFacts ==
  ASSUME NEW h \in Seq(Batches), NEW n \in 0 .. Len(h)
  PROVE  Top(h, n) \in Anchors /\ (Linked(h) => Top(h, n).sequence = n)
<1>1. CASE n = 0
  BY <1>1, GenesisFacts DEF Top
<1>2. CASE n # 0
  <2>1. n \in 1 .. Len(h) /\ h[n] \in Batches
    BY <1>2
  <2>2. h[n].new \in Anchors
    BY <2>1, BatchFacts
  <2> QED
    BY <1>2, <2>1, <2>2 DEF Top, Linked
<1> QED
  BY <1>1, <1>2

(* The ledger of a history.                                                 *)
LEMMA LedgerFacts ==
  ASSUME NEW h \in Seq(Batches), NEW n \in 0 .. Len(h)
  PROVE  /\ LedgerOf(h, n) \in Ledgers /\ LedgerOf(h, n) # NoLedger
         /\ LedgerOf(h, n).batches = SubSeq(h, 1, n) /\ LedgerOf(h, n).anchor = Top(h, n)
         /\ LedgerOf(h, Len(h)).batches = h
<1>1. Top(h, n) \in Anchors
  BY TopFacts
<1>2. SubSeq(h, 1, n) \in Seq(Batches) /\ SubSeq(h, 1, Len(h)) = h
  BY PrefixFacts, PrefixGrows
<1>3. LedgerOf(h, n).batches = SubSeq(h, 1, n) /\ LedgerOf(h, n).anchor = Top(h, n)
      /\ LedgerOf(h, Len(h)).batches = h
  BY <1>2 DEF LedgerOf
<1>4. LedgerOf(h, n) # NoLedger
  BY <1>1, <1>3, NotFailed
<1>5. LedgerOf(h, n) \in Ledgers
  BY <1>1, <1>2 DEF LedgerOf, Ledgers
<1> QED
  BY <1>3, <1>4, <1>5

(* Nothing is linked, and so is every prefix of a linked history.           *)
LEMMA LinkedPrefix ==
  ASSUME NEW h \in Seq(Batches), Linked(h), NEW n \in 0 .. Len(h)
  PROVE  Linked(SubSeq(h, 1, n))
<1> DEFINE k == SubSeq(h, 1, n)
<1>1. k \in Seq(Batches) /\ Len(k) = n /\ \A i \in 1 .. n : k[i] = h[i]
  BY PrefixFacts
<1> HIDE DEF k
<1>2. \A i \in 1 .. n : i \in 1 .. Len(h)
  OBVIOUS
<1>3. ASSUME NEW i \in 1 .. n
      PROVE  Top(k, i - 1) = Top(h, i - 1)
  <2>1. CASE i = 1
    BY <2>1 DEF Top
  <2>2. CASE i # 1
    <3>1. i - 1 \in 1 .. n /\ i - 1 # 0
      BY <2>2
    <3> QED
      BY <1>1, <3>1 DEF Top
  <2> QED
    BY <2>1, <2>2
<1>4. Linked(k)
  BY <1>1, <1>2, <1>3 DEF Linked
<1> QED
  BY <1>4 DEF k

(* The empty history is linked.                                             *)
LEMMA LinkedEmpty == Linked(<<>>)
  BY DEF Linked

(* The identity index of a linked history.                                  *)
LEMMA IndexFacts ==
  ASSUME NEW h \in Seq(Batches), Linked(h)
  PROVE  /\ \A id : id \in DOMAIN IdentityIndex(h) <=> \E i \in 1 .. Len(h) : h[i].id = id
         /\ \A i \in 1 .. Len(h) : IdentityIndex(h)[h[i].id] = h[i]
<1>1. DOMAIN h = 1 .. Len(h) /\ Len(h) \in Nat
  OBVIOUS
<1>2. \A id : id \in DOMAIN IdentityIndex(h) <=> \E i \in 1 .. Len(h) : h[i].id = id
  BY <1>1 DEF IdentityIndex
<1>3. ASSUME NEW i \in 1 .. Len(h)
      PROVE  IdentityIndex(h)[h[i].id] = h[i]
  <2> DEFINE c == CHOOSE m \in DOMAIN h :
                    h[m].id = h[i].id /\ \A j \in m + 1 .. Len(h) : h[j].id # h[i].id
  <2>1. IdentityIndex(h)[h[i].id] = h[c]
    BY <1>1 DEF IdentityIndex
  <2>2. ASSUME NEW j \in i + 1 .. Len(h)
        PROVE  h[j].id # h[i].id
    <3>1. j \in 1 .. Len(h) /\ j # i
      BY <1>1
    <3> QED
      BY <3>1 DEF Linked
  <2>3. \E m \in DOMAIN h : h[m].id = h[i].id /\ \A j \in m + 1 .. Len(h) : h[j].id # h[i].id
    BY <1>1, <2>2
  <2>4. c \in DOMAIN h /\ h[c].id = h[i].id
    BY <2>3
  <2> HIDE DEF c
  <2>5. c = i
    BY <1>1, <2>4 DEF Linked
  <2> QED
    BY <2>1, <2>5
<1> QED
  BY <1>2, <1>3

(* The checks of an append link its record to the history. A batch that is  *)
(* submitted again passes check_not_reused, and is refused for its basis:   *)
(* its sequence number is that of a record already there.                   *)
LEMMA LinkedAppend ==
  ASSUME NEW h \in Seq(Batches), Linked(h), NEW b \in Batches,
         CanAppend(LedgerOf(h, Len(h)), b)
  PROVE  Linked(Append(h, b))
<1> DEFINE k == Append(h, b)
           n == Len(h)
           l == LedgerOf(h, n)
<1>1. n \in Nat /\ n \in 0 .. Len(h)
  OBVIOUS
<1>2. l.batches = h /\ l.anchor = Top(h, n)
  BY <1>1, LedgerFacts
<1>3. Top(h, n).sequence = n
  BY <1>1, TopFacts
<1> HIDE DEF l
<1>4. /\ NotReused(IdentityIndex(h), b)
      /\ b.basis = Top(h, n) /\ b.new.sequence = n + 1
      /\ DeltasApply(Top(h, n).root, b.deltas)
      /\ b.new.root = ApplyDeltas(Top(h, n).root, b.deltas)
  BY <1>2, <1>3 DEF CanAppend, l
<1>5. /\ k \in Seq(Batches) /\ Len(k) = n + 1 /\ k[n + 1] = b
      /\ \A i \in 1 .. n : k[i] = h[i]
  OBVIOUS
<1> HIDE DEF k, n
<1>6. ASSUME NEW i \in 1 .. n
      PROVE  h[i].id # b.id
  <2> SUFFICES ASSUME h[i].id = b.id PROVE FALSE
    OBVIOUS
  <2>1. b.id \in DOMAIN IdentityIndex(h) /\ IdentityIndex(h)[b.id] = h[i]
    BY IndexFacts DEF n
  <2>2. h[i] = b
    BY <1>4, <2>1 DEF NotReused
  <2>3. h[i].new.sequence = i
    BY DEF Linked, n
  <2> QED
    BY <1>1, <1>4, <2>2, <2>3
<1>7. ASSUME NEW i \in 1 .. n + 1
      PROVE  k[i].new.sequence = i /\ Continues(Top(k, i - 1), k[i])
  <2>1. Top(k, i - 1) = Top(h, i - 1)
    <3>1. CASE i = 1
      BY <3>1 DEF Top
    <3>2. CASE i # 1
      <4>1. i - 1 \in 1 .. n /\ i - 1 # 0
        BY <1>1, <3>2
      <4> QED
        BY <1>5, <4>1 DEF Top
    <3> QED
      BY <3>1, <3>2
  <2>2. CASE i = n + 1
    <3>1. i - 1 = n
      BY <1>1, <2>2
    <3>2. k[i] = b /\ Top(k, i - 1) = Top(h, n)
      BY <1>5, <2>1, <2>2, <3>1
    <3>3. Continues(Top(h, n), b)
      BY <1>4 DEF Continues
    <3> QED
      BY <1>4, <2>2, <3>2, <3>3
  <2>3. CASE i # n + 1
    <3>1. i \in 1 .. n
      BY <1>1, <2>3
    <3>2. h[i].new.sequence = i /\ Continues(Top(h, i - 1), h[i])
      BY <3>1 DEF Linked, n
    <3> QED
      BY <1>5, <2>1, <3>1, <3>2
  <2> QED
    BY <2>2, <2>3
<1>8. ASSUME NEW i \in 1 .. n + 1, NEW j \in 1 .. n + 1, k[i].id = k[j].id
      PROVE  i = j
  <2>1. \A m \in 1 .. n + 1 : m = n + 1 \/ m \in 1 .. n
    BY <1>1
  <2>2. CASE i \in 1 .. n /\ j \in 1 .. n
    BY <1>5, <1>8, <2>2 DEF Linked, n
  <2>3. CASE i = n + 1 /\ j \in 1 .. n
    BY <1>5, <1>6, <1>8, <2>3
  <2>4. CASE i \in 1 .. n /\ j = n + 1
    BY <1>5, <1>6, <1>8, <2>4
  <2> QED
    BY <2>1, <2>2, <2>3, <2>4
<1>9. Linked(k)
  BY <1>5, <1>7, <1>8 DEF Linked
<1> QED
  BY <1>9 DEF k

(* The table of what the first records of h replay to, up to n.             *)
RunsTo(g, h, n) ==
  g = [i \in 0 .. n |-> IF i = 0 THEN Genesis ELSE ReplayStep(g[i - 1], h[i])]

(* The replay is the last entry of the table.                               *)
LEMMA ReplayUnfold ==
  ASSUME NEW h
  PROVE  Replay(h) = (CHOOSE g : RunsTo(g, h, Len(h)))[Len(h)]
  BY DEF Replay, RunsTo

(* There is one table.                                                      *)
LEMMA RunUnique ==
  ASSUME NEW h, NEW n \in Nat, NEW g, NEW f, RunsTo(g, h, n), RunsTo(f, h, n)
  PROVE  \A i \in 0 .. n : g[i] = f[i]
<1> DEFINE B == {i \in 0 .. n : g[i] # f[i]}
<1>1. SUFFICES ASSUME B # {} PROVE FALSE
  OBVIOUS
<1>2. B \in SUBSET (0 .. n)
  OBVIOUS
<1> HIDE DEF B
<1>3. PICK i \in B : \A j \in B : i <= j
  BY <1>1, <1>2, LeastNumber
<1> USE DEF B
<1>4. i \in 0 .. n /\ g[i] # f[i]
  BY <1>3
<1>5. CASE i = 0
  BY <1>4, <1>5 DEF RunsTo
<1>6. CASE i # 0
  <2>1. i - 1 \in 0 .. n /\ ~(i <= i - 1)
    BY <1>4, <1>6
  <2>2. g[i - 1] = f[i - 1]
    BY <1>3, <2>1
  <2>3. g[i] = ReplayStep(g[i - 1], h[i]) /\ f[i] = ReplayStep(f[i - 1], h[i])
    BY <1>4, <1>6 DEF RunsTo
  <2> QED
    BY <1>4, <2>2, <2>3
<1> QED
  BY <1>5, <1>6

(* replay_report accepts every record of a linked history that decodes, in  *)
(* its turn.                                                                *)
LEMMA RecordReplays ==
  ASSUME NEW h \in Seq(Batches), Linked(h), NEW n \in 1 .. Len(h), Decodes(h[n])
  PROVE  ReplayStep(LedgerOf(h, n - 1), h[n]) = LedgerOf(h, n)
<1> DEFINE l == LedgerOf(h, n - 1)
           k == SubSeq(h, 1, n - 1)
<1>1. n - 1 \in 0 .. Len(h) /\ h[n] \in Batches /\ n \in Nat
  OBVIOUS
<1>2. l # NoLedger /\ l.batches = k /\ l.anchor = Top(h, n - 1)
  BY <1>1, LedgerFacts
<1>3. /\ k \in Seq(Batches) /\ Len(k) = n - 1 /\ \A i \in 1 .. n - 1 : k[i] = h[i]
  BY <1>1, PrefixFacts
<1>4. Linked(k)
  BY <1>1, LinkedPrefix
<1>5. Append(k, h[n]) = SubSeq(h, 1, n)
  BY PrefixGrows
<1> HIDE DEF l, k
<1>6. h[n].id \notin DOMAIN IdentityIndex(k)
  <2> SUFFICES ASSUME h[n].id \in DOMAIN IdentityIndex(k) PROVE FALSE
    OBVIOUS
  <2>0. \A id : id \in DOMAIN IdentityIndex(k) <=> \E i \in 1 .. Len(k) : k[i].id = id
    BY <1>3, <1>4, IndexFacts
  <2>1. PICK i \in 1 .. n - 1 : k[i].id = h[n].id
    BY ONLY <1>3, <2>0, h[n].id \in DOMAIN IdentityIndex(k)
  <2>2. i \in 1 .. Len(h) /\ i # n /\ h[i].id = h[n].id
    BY <1>1, <1>3, <2>1
  <2> QED
    BY <2>2 DEF Linked
<1>7. h[n].new.sequence = n /\ Continues(Top(h, n - 1), h[n])
  BY DEF Linked
<1>8. Top(h, n - 1).sequence = n - 1
  BY <1>1, TopFacts
<1>9. h[n].new.sequence = Len(l.batches) + 1 /\ h[n].new.sequence = h[n].basis.sequence + 1
  BY <1>1, <1>2, <1>3, <1>7, <1>8 DEF Continues
<1>10. CanAppend(l, h[n])
  BY <1>2, <1>6, <1>7, <1>9 DEF CanAppend, NotReused, Continues
<1>11. ReplayStep(l, h[n]) = AppendBatch(l, h[n])
  BY <1>2, <1>9, <1>10 DEF ReplayStep
<1>12. AppendBatch(l, h[n]) = LedgerOf(h, n)
  <2>1. Top(h, n) = h[n].new
    BY <1>1 DEF Top
  <2> QED
    BY <1>2, <1>5, <2>1 DEF AppendBatch, LedgerOf
<1> QED
  BY <1>11, <1>12 DEF l

(* A linked history replays to the ledger that holds it, up to the first    *)
(* record that does not decode.                                             *)
LEMMA LinkedReplays ==
  ASSUME NEW h \in Seq(Batches), Linked(h)
  PROVE  Replay(h) = IF Readable(h) THEN LedgerOf(h, Len(h)) ELSE NoLedger
<1> DEFINE n == Len(h)
           Reads(m) == \A j \in 1 .. m : Decodes(h[j])
           t == [i \in 0 .. n |-> IF Reads(i) THEN LedgerOf(h, i) ELSE NoLedger]
           g == CHOOSE f : RunsTo(f, h, n)
<1>1. n \in Nat /\ n \in 0 .. n
  OBVIOUS
<1>2. LedgerOf(h, 0) = Genesis
  <2>1. SubSeq(h, 1, 0) = <<>>
    BY PrefixGrows
  <2>2. Genesis = [batches |-> <<>>, anchor |-> Genesis.anchor]
    BY DEF Genesis
  <2> QED
    BY <2>1, <2>2 DEF LedgerOf, Top
<1>3. ASSUME NEW i \in 0 .. n
      PROVE  t[i] = IF i = 0 THEN Genesis ELSE ReplayStep(t[i - 1], h[i])
  <2>1. CASE i = 0
    <3>1. Reads(0)
      OBVIOUS
    <3> QED
      BY <1>2, <2>1, <3>1
  <2>2. CASE i # 0
    <3>1. i \in 1 .. Len(h) /\ i - 1 \in 0 .. n /\ i \in Nat
      BY <2>2
    <3>2. Reads(i) <=> Reads(i - 1) /\ Decodes(h[i])
      <4>1. 1 .. i = (1 .. i - 1) \cup {i}
        BY <3>1
      <4> QED
        BY <4>1
    <3>3. /\ t[i] = IF Reads(i) THEN LedgerOf(h, i) ELSE NoLedger
          /\ t[i - 1] = IF Reads(i - 1) THEN LedgerOf(h, i - 1) ELSE NoLedger
      BY <3>1
    <3> HIDE DEF Reads, t
    <3>4. CASE Reads(i)
      <4>1. ReplayStep(LedgerOf(h, i - 1), h[i]) = LedgerOf(h, i)
        BY <3>1, <3>2, <3>4, RecordReplays
      <4> QED
        BY <2>2, <3>2, <3>3, <3>4, <4>1
    <3>5. CASE ~ Reads(i)
      <4>1. t[i - 1] = NoLedger \/ ~ Decodes(h[i])
        BY <3>2, <3>3, <3>5
      <4>2. ReplayStep(t[i - 1], h[i]) = NoLedger
        BY <4>1 DEF ReplayStep
      <4> QED
        BY <2>2, <3>3, <3>5, <4>2
    <3> QED
      BY <3>4, <3>5
  <2> QED
    BY <2>1, <2>2
<1>4. t = [i \in 0 .. n |-> t[i]] /\ t[n] = IF Reads(n) THEN LedgerOf(h, n) ELSE NoLedger
  BY <1>1
<1>5. Reads(n) <=> Readable(h)
  BY DEF Readable
<1> HIDE DEF t, n, Reads
<1>6. RunsTo(t, h, n)
  BY <1>3, <1>4 DEF RunsTo
<1>7. RunsTo(g, h, n)
  BY <1>6
<1>8. Replay(h) = g[n]
  BY ReplayUnfold DEF n
<1> HIDE DEF g
<1>9. g[n] = t[n]
  BY <1>1, <1>6, <1>7, RunUnique
<1> QED
  BY <1>4, <1>5, <1>8, <1>9 DEF n

(* The records that wrote an object.                                        *)
Writers(h, n, o) == {i \in 1 .. n : o \in DOMAIN h[i].deltas}

(* The generation of an object counts the records that wrote it.            *)
LEMMA Generations ==
  ASSUME NEW h \in Seq(Batches), Linked(h), NEW o \in Objects
  PROVE  \A n \in 0 .. Len(h) : Top(h, n).root[o].generation = Cardinality(Writers(h, n, o))
<1> DEFINE B == {n \in 0 .. Len(h) : Top(h, n).root[o].generation # Cardinality(Writers(h, n, o))}
<1>1. SUFFICES ASSUME B # {} PROVE FALSE
  OBVIOUS
<1>2. B \in SUBSET (0 .. Len(h)) /\ Len(h) \in Nat
  OBVIOUS
<1> HIDE DEF B
<1>3. PICK n \in B : \A j \in B : n <= j
  BY <1>1, <1>2, LeastNumber
<1>4. n \in 0 .. Len(h) /\ Top(h, n).root[o].generation # Cardinality(Writers(h, n, o))
  BY <1>3 DEF B
<1>5. CASE n = 0
  <2>1. Writers(h, 0, o) = {}
    BY DEF Writers
  <2>2. Top(h, 0).root[o].generation = 0
    BY GenesisFacts DEF Top
  <2> QED
    BY <1>4, <1>5, <2>1, <2>2, FS_EmptySet
<1>6. CASE n # 0
  <2> DEFINE m == n - 1
             W == Writers(h, m, o)
             r == Top(h, m).root
             d == h[n].deltas
  <2>1. m \in 0 .. Len(h) /\ m \in Nat /\ n = m + 1 /\ ~(n <= m) /\ n \in 1 .. Len(h)
    BY <1>2, <1>4, <1>6
  <2>2. r[o].generation = Cardinality(W)
    BY <1>3, <2>1 DEF B
  <2>3. IsFiniteSet(1 .. m)
    BY <2>1, FS_Interval
  <2>4. IsFiniteSet(W) /\ Cardinality(W) \in Nat /\ n \notin W
    <3>1. W \in SUBSET (1 .. m)
      BY DEF Writers
    <3>2. IsFiniteSet(W)
      BY <2>3, <3>1, FS_Subset
    <3> QED
      BY <2>1, <3>1, <3>2, FS_CardinalityType
  <2>5. Top(h, n).root = ApplyDeltas(r, d) /\ DeltasApply(r, d)
    BY <2>1 DEF Linked, Continues, Top
  <2>6. \A i \in 1 .. n : i = n \/ i \in 1 .. m
    BY <2>1
  <2>7. CASE o \in DOMAIN d
    <3>1. Top(h, n).root[o].generation = d[o].prior + 1 /\ d[o].prior = r[o].generation
      BY <2>5, <2>7 DEF ApplyDeltas, DeltasApply
    <3>2. Writers(h, n, o) = W \cup {n}
      <4>1. \A i : i \in Writers(h, n, o) <=> i \in W \cup {n}
        BY <2>1, <2>6, <2>7 DEF Writers
      <4> QED
        BY <4>1
    <3>3. Cardinality(W \cup {n}) = Cardinality(W) + 1
      BY <2>4, FS_AddElement
    <3> QED
      BY <1>4, <2>2, <3>1, <3>2, <3>3
  <2>8. CASE o \notin DOMAIN d
    <3>1. Top(h, n).root[o] = r[o]
      BY <2>5, <2>8 DEF ApplyDeltas
    <3>2. Writers(h, n, o) = W
      <4>1. \A i : i \in Writers(h, n, o) <=> i \in W
        BY <2>1, <2>6, <2>8 DEF Writers
      <4> QED
        BY <4>1
    <3> QED
      BY <1>4, <2>2, <3>1, <3>2
  <2> QED
    BY <2>7, <2>8
<1> QED
  BY <1>5, <1>6

(* The identity index of a history with one more record is the one that     *)
(* append and reconcile_pending build.                                      *)
LEMMA IndexExtends ==
  ASSUME NEW h \in Seq(Batches), NEW b \in Batches, Linked(Append(h, b)), Linked(h)
  PROVE  IdentityIndex(Append(h, b)) =
           [id \in DOMAIN IdentityIndex(h) \cup {b.id} |->
              IF id = b.id THEN b ELSE IdentityIndex(h)[id]]
<1> DEFINE k == Append(h, b)
           n == Len(h)
           f == IdentityIndex(k)
           g == IdentityIndex(h)
<1>1. /\ k \in Seq(Batches) /\ Len(k) = n + 1 /\ k[n + 1] = b /\ n \in Nat
      /\ \A i \in 1 .. n : k[i] = h[i]
  OBVIOUS
<1> HIDE DEF k, n
<1>2. Linked(k)
  BY DEF k
<1>3. /\ \A id : id \in DOMAIN f <=> \E i \in 1 .. n + 1 : k[i].id = id
      /\ \A i \in 1 .. n + 1 : f[k[i].id] = k[i]
  <2>1. k \in Seq(Batches) /\ Len(k) = n + 1
    BY <1>1
  <2>2. /\ \A id : id \in DOMAIN IdentityIndex(k) <=> \E i \in 1 .. Len(k) : k[i].id = id
        /\ \A i \in 1 .. Len(k) : IdentityIndex(k)[k[i].id] = k[i]
    BY ONLY <1>2, <2>1, IndexFacts
  <2> QED
    BY ONLY <2>1, <2>2
<1>4. /\ \A id : id \in DOMAIN g <=> \E i \in 1 .. n : h[i].id = id
      /\ \A i \in 1 .. n : g[h[i].id] = h[i]
  BY IndexFacts DEF n
<1>5. f = [id \in DOMAIN f |-> f[id]]
  BY DEF IdentityIndex
<1> HIDE DEF f, g
<1>6. n + 1 \in 1 .. n + 1 /\ \A i : i \in 1 .. n + 1 <=> (i \in 1 .. n \/ i = n + 1)
  BY <1>1
<1>7. DOMAIN f = DOMAIN g \cup {b.id}
  <2>1. \A id : id \in DOMAIN f <=> id \in DOMAIN g \cup {b.id}
    BY <1>1, <1>3, <1>4, <1>6
  <2> QED
    BY <2>1
<1>8. f[b.id] = b
  BY <1>1, <1>3, <1>6
<1>9. ASSUME NEW id \in DOMAIN g, id # b.id
      PROVE  f[id] = g[id]
  <2>1. PICK i \in 1 .. n : h[i].id = id
    BY <1>4
  <2>2. g[id] = h[i]
    BY <1>4, <2>1
  <2>3. f[id] = k[i] /\ k[i] = h[i]
    BY <1>1, <1>3, <1>6, <2>1
  <2> QED
    BY <2>2, <2>3
<1> QED
  BY <1>5, <1>7, <1>8, <1>9 DEF f, g, k

(* The index of any history is over batch identities.                       *)
LEMMA IndexType ==
  ASSUME NEW h \in Seq(Batches), Linked(h)
  PROVE  DOMAIN IdentityIndex(h) \subseteq BatchIds
<1>1. \A i \in 1 .. Len(h) : h[i].id \in BatchIds
  <2> TAKE i \in 1 .. Len(h)
  <2>1. h[i] \in Batches
    OBVIOUS
  <2> QED
    BY <2>1, BatchFacts
<1> QED
  BY <1>1, IndexFacts

-----------------------------------------------------------------------------
(* The steps.                                                               *)

LogTypes ==
  /\ history \in Seq(Batches) /\ attempt \in Seq(Batches)
  /\ acked \in Seq(Batches) /\ retracted \subseteq Seq(Batches)

(* The types of the journal, spelled out.                                   *)
LEMMA LogTyped == Log!LogTypeOK <=> LogTypes
  BY DEF Log!LogTypeOK, LogTypes

(* What the invariant says of the history that a handle serves.             *)
LEMMA KnownFacts ==
  ASSUME DurableInv
  PROVE  /\ LogTypes /\ Known \in Seq(Batches) /\ Linked(Known)
         /\ attempt # <<>> => /\ Len(attempt) >= 1 /\ Last(attempt) \in Batches
                              /\ attempt = Append(Known, Last(attempt))
                              /\ Known = Front(attempt)
<1>1. LogTypes /\ Linked(history) /\ Linked(attempt)
  BY LogTyped DEF DurableInv, TypeOK
<1>2. CASE attempt = <<>>
  BY <1>1, <1>2 DEF Known, LogTypes
<1>3. CASE attempt # <<>>
  <2>1. attempt \in Seq(Batches) /\ Known = Front(attempt)
    BY <1>1, <1>3 DEF Known, LogTypes
  <2>2. /\ Len(attempt) >= 1 /\ Front(attempt) \in Seq(Batches) /\ Last(attempt) \in Batches
        /\ Front(attempt) = SubSeq(attempt, 1, Len(attempt) - 1)
        /\ attempt = Append(Front(attempt), Last(attempt))
    BY <1>3, <2>1, Splits
  <2>3. Len(attempt) - 1 \in 0 .. Len(attempt)
    BY <2>1, <2>2
  <2>4. Linked(Front(attempt))
    BY <1>1, <2>1, <2>2, <2>3, LinkedPrefix
  <2> QED
    BY <1>1, <1>3, <2>1, <2>2, <2>4
<1> QED
  BY <1>2, <1>3

(* An open handle with nothing under way that serves a linked history.      *)
LEMMA Settles ==
  ASSUME LogTypes', Linked(history'), attempt' = <<>>, candidate' = NoLedger,
         handle' \in {"open", "closed"}, prepared' \subseteq Batches,
         NEW h \in Seq(Batches), Linked(h), h = history' \/ handle' = "closed",
         ledger' = LedgerOf(h, Len(h)), identities' = IdentityIndex(h)
  PROVE  DurableInv'
<1>1. Len(h) \in 0 .. Len(h)
  OBVIOUS
<1>2. ledger' \in Ledgers
  BY <1>1, LedgerFacts
<1>3. DOMAIN identities' \subseteq BatchIds
  BY IndexType
<1>4. Log!LogTypeOK'
  BY DEF Log!LogTypeOK, LogTypes
<1>5. TypeOK'
  BY <1>2, <1>3, <1>4 DEF TypeOK
<1>6. HandleOK'
  <2>1. handle' # "closed" => Known' = h
    BY DEF Known
  <2> QED
    BY <2>1 DEF HandleOK
<1>7. Linked(attempt')
  BY LinkedEmpty
<1> QED
  BY <1>5, <1>6, <1>7 DEF DurableInv

(* Opening, and the end of a process.                                       *)
LEMMA OpenStep ==
  ASSUME DurableInv, Open
  PROVE  DurableInv'
<1>1. /\ handle = "closed" /\ ledger' = Replay(history) /\ identities' = IdentityIndex(history)
      /\ candidate' = NoLedger /\ handle' = "open" /\ prepared' = prepared
      /\ UNCHANGED <<history, attempt, acked, retracted>>
      /\ Replay(history) # NoLedger
  BY DEF Open, logVars
<1>2. LogTypes /\ Linked(history) /\ attempt = <<>> /\ prepared \subseteq Batches
  BY <1>1, KnownFacts DEF DurableInv, TypeOK, HandleOK
<1>3. history \in Seq(Batches)
  BY <1>2 DEF LogTypes
<1>4. Replay(history) = LedgerOf(history, Len(history))
  BY <1>1, <1>2, <1>3, LinkedReplays
<1>5. LogTypes'
  BY <1>1, <1>2 DEF LogTypes
<1> QED
  BY <1>1, <1>2, <1>3, <1>4, <1>5, Settles

(* The store keeps a linked history; whoever served it is gone.             *)
LEMMA ResetStep ==
  ASSUME DurableInv, ProcessDeath \/ PowerLoss
  PROVE  DurableInv'
<1>1. LogTypes /\ Linked(history) /\ prepared \subseteq Batches
  BY KnownFacts DEF DurableInv, TypeOK
<1>2. Reset /\ prepared' = prepared /\ attempt' = <<>> /\ acked' = acked /\ retracted' = retracted
  BY DEF ProcessDeath, PowerLoss, Log!LogForget, Log!LogCrash
<1>3. history' \in Seq(Batches) /\ Linked(history')
  <2>1. CASE ProcessDeath
    <3>1. history' = history
      BY <2>1 DEF ProcessDeath, Log!LogForget
    <3> QED
      BY <1>1, <3>1 DEF LogTypes
  <2>2. CASE PowerLoss
    <3>1. PICK n \in Len(acked) .. Len(history) : history' = SubSeq(history, 1, n)
      BY <2>2 DEF PowerLoss, Log!LogCrash
    <3>2. history \in Seq(Batches) /\ acked \in Seq(Batches)
      BY <1>1 DEF LogTypes
    <3>3. n \in 0 .. Len(history)
      BY <3>1, <3>2
    <3>4. SubSeq(history, 1, n) \in Seq(Batches)
      BY <3>2, <3>3, PrefixFacts
    <3>5. Linked(SubSeq(history, 1, n))
      BY <1>1, <3>2, <3>3, LinkedPrefix
    <3> QED
      BY <3>1, <3>4, <3>5
  <2> QED
    BY <2>1, <2>2
<1>4. LogTypes'
  <2>1. <<>> \in Seq(Batches)
    OBVIOUS
  <2> QED
    BY <1>1, <1>2, <1>3, <2>1 DEF LogTypes
<1>5. /\ ledger' = Genesis /\ identities' = IdentityIndex(<<>>)
      /\ candidate' = NoLedger /\ handle' = "closed"
  BY <1>2 DEF Reset
<1>6. <<>> \in Seq(Batches) /\ Linked(<<>>) /\ Genesis = LedgerOf(<<>>, Len(<<>>))
  <2>1. <<>> \in Seq(Batches) /\ Len(<<>>) = 0
    OBVIOUS
  <2>2. SubSeq(<<>>, 1, 0) = <<>>
    BY <2>1, PrefixGrows
  <2>3. Genesis = [batches |-> <<>>, anchor |-> Genesis.anchor]
    BY DEF Genesis
  <2>4. LedgerOf(<<>>, 0) = Genesis
    BY <2>2, <2>3 DEF LedgerOf, Top
  <2> QED
    BY <2>1, <2>4, LinkedEmpty
<1>7. ledger' = LedgerOf(<<>>, Len(<<>>)) /\ identities' = IdentityIndex(<<>>)
  BY <1>5, <1>6
<1> QED
  BY <1>1, <1>2, <1>3, <1>4, <1>5, <1>6, <1>7, Settles

(* An attempt under way: the handle still serves what was there before it.  *)
LEMMA Attempts ==
  ASSUME LogTypes', attempt' # <<>>, Linked(attempt'), history' \in {attempt', Front(attempt')},
         candidate' = LedgerOf(attempt', Len(attempt')), handle' \in {"open", "call"},
         prepared' \subseteq Batches,
         ledger' = LedgerOf(Front(attempt'), Len(Front(attempt'))),
         identities' = IdentityIndex(Front(attempt'))
  PROVE  DurableInv'
<1> DEFINE a == attempt'
           k == Front(a)
<1>1. a \in Seq(Batches)
  BY DEF LogTypes
<1>2. k \in Seq(Batches) /\ k = SubSeq(a, 1, Len(a) - 1) /\ Len(a) >= 1 /\ Len(a) \in Nat
  BY <1>1, Splits
<1>3. Len(a) - 1 \in 0 .. Len(a) /\ Len(a) \in 0 .. Len(a)
  BY <1>2
<1>4. Linked(k)
  BY <1>1, <1>2, <1>3, LinkedPrefix
<1>5. candidate' \in Ledgers /\ candidate' # NoLedger
  BY <1>1, <1>3, LedgerFacts
<1>6. ledger' \in Ledgers
  <2>1. Len(k) \in 0 .. Len(k)
    BY <1>2
  <2> QED
    BY <1>2, <2>1, LedgerFacts
<1>7. DOMAIN identities' \subseteq BatchIds
  BY <1>2, <1>4, IndexType
<1>8. Log!LogTypeOK'
  BY DEF Log!LogTypeOK, LogTypes
<1>9. TypeOK'
  BY <1>5, <1>6, <1>7, <1>8 DEF TypeOK
<1>10. Linked(history')
  BY <1>4
<1>11. HandleOK'
  <2>1. Known' = k
    BY DEF Known
  <2> QED
    BY <1>5, <2>1 DEF HandleOK
<1> QED
  BY <1>9, <1>10, <1>11 DEF DurableInv

(* An append that passes the checks becomes an attempt.                     *)
LEMMA AppendStep ==
  ASSUME DurableInv, NEW b \in prepared, AppendChecked(b)
  PROVE  DurableInv'
<1>1. /\ handle = "open" /\ CanAppend(ledger, b) /\ attempt = <<>>
      /\ attempt' = Append(history, b) /\ candidate' = AppendBatch(ledger, b) /\ handle' = "call"
      /\ UNCHANGED <<history, acked, retracted, ledger, identities, prepared>>
  BY DEF AppendChecked, Log!LogBegin
<1>2. LogTypes /\ Linked(history) /\ prepared \subseteq Batches
  BY KnownFacts DEF DurableInv, TypeOK
<1>3. history \in Seq(Batches) /\ b \in Batches /\ Len(history) \in 0 .. Len(history)
  BY <1>2 DEF LogTypes
<1>4. ledger = LedgerOf(history, Len(history)) /\ identities = IdentityIndex(history)
  BY <1>1 DEF DurableInv, HandleOK, Known
<1>5. Linked(attempt')
  BY <1>1, <1>2, <1>3, <1>4, LinkedAppend
<1>6. attempt' # <<>> /\ Front(attempt') = history
  BY <1>1, <1>3, FrontFacts
<1>7. /\ attempt' \in Seq(Batches) /\ Len(attempt') = Len(history) + 1
      /\ attempt'[Len(history) + 1] = b /\ Len(history) \in Nat
  BY <1>1, <1>3
<1>8. candidate' = LedgerOf(attempt', Len(attempt'))
  <2>1. ledger.batches = history
    BY <1>3, <1>4, LedgerFacts
  <2>2. SubSeq(attempt', 1, Len(attempt')) = attempt'
    BY <1>7, PrefixGrows
  <2>3. Top(attempt', Len(attempt')) = b.new
    BY <1>7 DEF Top
  <2> QED
    BY <1>1, <2>1, <2>2, <2>3 DEF AppendBatch, LedgerOf
<1>9. LogTypes'
  BY <1>1, <1>2, <1>7 DEF LogTypes
<1>10. /\ ledger' = LedgerOf(Front(attempt'), Len(Front(attempt')))
       /\ identities' = IdentityIndex(Front(attempt'))
  BY <1>1, <1>4, <1>6
<1>11. history' \in {attempt', Front(attempt')} /\ handle' \in {"open", "call"}
       /\ prepared' \subseteq Batches
  BY <1>1, <1>2, <1>6
<1> QED
  BY <1>5, <1>6, <1>8, <1>9, <1>10, <1>11, Attempts

(* The attempted record reaches the file, or its outcome stays unknown.     *)
LEMMA PendingStep ==
  ASSUME DurableInv, RecordWritten \/ AppendIndeterminate
  PROVE  DurableInv'
<1>1. /\ attempt # <<>> /\ history' \in {history, attempt} /\ handle' \in {"open", "call"}
      /\ UNCHANGED <<attempt, acked, retracted, ledger, identities, candidate, prepared>>
  <2>1. handle = "call"
    BY DEF RecordWritten, AppendIndeterminate
  <2>2. attempt # <<>>
    BY <2>1 DEF DurableInv, HandleOK
  <2>3. CASE RecordWritten
    BY <2>1, <2>2, <2>3 DEF RecordWritten, Log!LogAppear, handleVars
  <2>4. CASE AppendIndeterminate
    BY <2>2, <2>4 DEF AppendIndeterminate, logVars
  <2> QED
    BY <2>3, <2>4
<1>2. LogTypes /\ Linked(attempt) /\ prepared \subseteq Batches
      /\ Known = Front(attempt)
  BY <1>1, KnownFacts DEF DurableInv, TypeOK
<1>3. /\ candidate = LedgerOf(attempt, Len(attempt)) /\ history \in {attempt, Front(attempt)}
      /\ handle # "closed"
  BY <1>1 DEF DurableInv, HandleOK
<1>4. ledger = LedgerOf(Front(attempt), Len(Front(attempt)))
      /\ identities = IdentityIndex(Front(attempt))
  BY <1>2, <1>3 DEF DurableInv, HandleOK
<1>5. LogTypes'
  BY <1>1, <1>2 DEF LogTypes
<1>6. history' \in {attempt', Front(attempt')} /\ prepared' \subseteq Batches /\ Linked(attempt')
      /\ attempt' # <<>> /\ candidate' = LedgerOf(attempt', Len(attempt'))
  BY <1>1, <1>2, <1>3
<1>7. ledger' = LedgerOf(Front(attempt'), Len(Front(attempt')))
      /\ identities' = IdentityIndex(Front(attempt'))
  BY <1>1, <1>4
<1> QED
  BY <1>1, <1>5, <1>6, <1>7, Attempts

(* A record known to be committed is installed with its identity.           *)
LEMMA InstallStep ==
  ASSUME DurableInv, AppendOk \/ ReconcileCommitted
  PROVE  DurableInv'
<1>1. /\ attempt # <<>> /\ history = attempt /\ attempt' = <<>> /\ acked' = attempt
      /\ Install /\ handle' = "open" /\ handle # "closed"
      /\ UNCHANGED <<history, retracted, prepared>>
  BY DEF AppendOk, ReconcileCommitted, Log!LogAck
<1>2. /\ LogTypes /\ Linked(attempt) /\ prepared \subseteq Batches
      /\ Known \in Seq(Batches) /\ Linked(Known) /\ Last(attempt) \in Batches
      /\ attempt = Append(Known, Last(attempt))
  BY <1>1, KnownFacts DEF DurableInv, TypeOK
<1>3. attempt \in Seq(Batches) /\ Len(attempt) \in 0 .. Len(attempt)
  BY <1>2 DEF LogTypes
<1>4. candidate = LedgerOf(attempt, Len(attempt)) /\ identities = IdentityIndex(Known)
  BY <1>1 DEF DurableInv, HandleOK
<1>5. candidate.batches = attempt
  BY <1>3, <1>4, LedgerFacts
<1> DEFINE b == Last(attempt)
<1>6. /\ ledger' = candidate /\ candidate' = NoLedger
      /\ identities' = [id \in DOMAIN identities \cup {b.id} |->
                          IF id = b.id THEN b ELSE identities[id]]
  BY <1>1, <1>5 DEF Install
<1>7. Linked(Append(Known, b))
  BY <1>2
<1> HIDE DEF b
<1>8. identities' = IdentityIndex(Append(Known, b))
  <2>1. b \in Batches
    BY <1>2 DEF b
  <2> QED
    BY <1>2, <1>4, <1>6, <1>7, <2>1, IndexExtends
<1>9. identities' = IdentityIndex(attempt) /\ ledger' = LedgerOf(attempt, Len(attempt))
  BY <1>2, <1>4, <1>6, <1>8 DEF b
<1>10. LogTypes'
  <2>1. <<>> \in Seq(Batches)
    OBVIOUS
  <2> QED
    BY <1>1, <1>2, <2>1 DEF LogTypes
<1>11. Linked(history') /\ handle' \in {"open", "closed"} /\ prepared' \subseteq Batches
       /\ attempt = history'
  BY <1>1, <1>2
<1> QED
  BY <1>1, <1>2, <1>3, <1>6, <1>9, <1>10, <1>11, Settles

(* A record known not to be committed is dropped with its candidate.        *)
LEMMA RetractStep ==
  ASSUME DurableInv, ReconcileNotCommitted
  PROVE  DurableInv'
<1>1. /\ handle = "open" /\ attempt # <<>> /\ history = Front(attempt) /\ attempt' = <<>>
      /\ retracted' = retracted \cup {attempt} /\ candidate' = NoLedger
      /\ UNCHANGED <<history, acked, ledger, identities, handle, prepared>>
  BY DEF ReconcileNotCommitted, Log!LogRetract, Log!Front, Front
<1>2. /\ LogTypes /\ Linked(history) /\ prepared \subseteq Batches
      /\ Known = history
  BY <1>1, KnownFacts DEF DurableInv, TypeOK
<1>3. history \in Seq(Batches)
  BY <1>2 DEF LogTypes
<1>4. ledger = LedgerOf(history, Len(history)) /\ identities = IdentityIndex(history)
  BY <1>1, <1>2 DEF DurableInv, HandleOK
<1>5. LogTypes'
  <2>1. <<>> \in Seq(Batches)
    OBVIOUS
  <2> QED
    BY <1>1, <1>2, <2>1 DEF LogTypes
<1>6. handle' \in {"open", "closed"} /\ prepared' \subseteq Batches /\ Linked(history')
      /\ history = history' /\ ledger' = LedgerOf(history, Len(history))
      /\ identities' = IdentityIndex(history)
  BY <1>1, <1>2, <1>4
<1> QED
  BY <1>1, <1>2, <1>3, <1>5, <1>6, Settles

(* A batch, assembled. The seal may be of any kind.                         *)
LEMMA Assembled ==
  ASSUME NEW A, NEW B, NEW C, NEW D, NEW E,
         NEW a \in A, NEW b \in B, NEW c \in C, NEW d \in D, NEW e \in E
  PROVE  [id |-> a, basis |-> b, deltas |-> c, seal |-> d, new |-> e]
           \in [id : A, basis : B, new : E, deltas : C, seal : D]
  OBVIOUS

(* prepare_batch builds a batch on the snapshot it sees.                    *)
LEMMA PrepareStep ==
  ASSUME DurableInv, NEW id \in BatchIds, NEW d \in Deltas, NEW s \in BOOLEAN,
         PrepareBatch(id, d, s)
  PROVE  prepared' \subseteq Batches
<1> DEFINE a == ledger.anchor
           e == [sequence |-> a.sequence + 1, root |-> ApplyDeltas(a.root, d)]
<1>1. a \in Anchors /\ prepared \subseteq Batches
  BY DEF DurableInv, TypeOK, Ledgers
<1>2. a.sequence \in Nat /\ a.root \in [Objects -> Revisions]
  BY <1>1 DEF Anchors, Roots
<1>3. ApplyDeltas(a.root, d) \in Roots
  <2>1. ASSUME NEW o \in Objects
        PROVE  ApplyDeltas(a.root, d)[o] \in Revisions
    <3>1. CASE o \in DOMAIN d
      <4>1. d[o] \in [prior : 0 .. MaxPrepared, content : Contents]
        BY <3>1 DEF Deltas
      <4>2. d[o].prior + 1 \in Nat /\ d[o].content \in Contents
        BY <4>1, LedgerAssumption
      <4>3. ApplyDeltas(a.root, d)[o] = [generation |-> d[o].prior + 1, content |-> d[o].content]
        BY <3>1 DEF ApplyDeltas
      <4> QED
        BY <4>2, <4>3 DEF Revisions
    <3>2. CASE o \notin DOMAIN d
      BY <1>2, <3>2 DEF ApplyDeltas
    <3> QED
      BY <3>1, <3>2
  <2>2. ApplyDeltas(a.root, d) = [o \in Objects |-> ApplyDeltas(a.root, d)[o]]
    BY DEF ApplyDeltas
  <2> QED
    BY <2>1, <2>2 DEF Roots
<1>4. e \in Anchors
  BY <1>2, <1>3 DEF Anchors
<1>5. prepared' = prepared \cup
        {[id |-> id, basis |-> a, deltas |-> d, seal |-> s, new |-> e]}
  BY DEF PrepareBatch
<1> HIDE DEF a, e
<1>6. [id |-> id, basis |-> a, deltas |-> d, seal |-> s, new |-> e] \in Batches
  BY <1>1, <1>4, Assembled, Zenon DEF Batches
<1> QED
  BY <1>1, <1>5, <1>6, Zenon

-----------------------------------------------------------------------------
(* The results.                                                             *)

(* A closed handle over an empty journal.                                   *)
LEMMA Initially == Init => DurableInv
<1> SUFFICES ASSUME Init PROVE DurableInv
  OBVIOUS
<1>1. /\ history = <<>> /\ attempt = <<>> /\ acked = <<>> /\ retracted = {}
      /\ ledger = Genesis /\ identities = IdentityIndex(<<>>) /\ candidate = NoLedger
      /\ handle = "closed" /\ prepared = {}
  BY DEF Init, Log!LogInit
<1>2. <<>> \in Seq(Batches)
  OBVIOUS
<1>3. Genesis \in Ledgers
  <2>1. Genesis = [batches |-> <<>>, anchor |-> Genesis.anchor]
    BY DEF Genesis
  <2> QED
    BY <1>2, <2>1, GenesisFacts DEF Ledgers
<1>4. DOMAIN identities \subseteq BatchIds
  BY <1>1, <1>2, LinkedEmpty, IndexType
<1>5. LogTypes
  BY <1>1, <1>2 DEF LogTypes
<1>6. TypeOK
  BY <1>1, <1>3, <1>4, <1>5, LogTyped DEF TypeOK
<1>7. HandleOK
  BY <1>1 DEF HandleOK
<1> QED
  BY <1>1, <1>6, <1>7, LinkedEmpty DEF DurableInv

(* Every step preserves the invariant.                                      *)
LEMMA Preserved == DurableInv /\ [Next]_vars => DurableInv'
<1> SUFFICES ASSUME DurableInv, [Next]_vars PROVE DurableInv'
  OBVIOUS
<1>1. ASSUME UNCHANGED <<logVars, handleVars>>, prepared' \subseteq Batches
      PROVE  DurableInv'
  <2>1. /\ UNCHANGED <<history, attempt, acked, retracted>>
        /\ UNCHANGED <<ledger, identities, candidate, handle>>
    BY <1>1 DEF logVars, handleVars
  <2>2. LogTypes
    BY KnownFacts
  <2>3. Log!LogTypeOK'
    BY <2>1, <2>2 DEF LogTypes, Log!LogTypeOK
  <2>4. TypeOK'
    BY <1>1, <2>1, <2>3 DEF DurableInv, TypeOK
  <2>5. HandleOK'
    BY <2>1 DEF DurableInv, HandleOK, Known
  <2> QED
    BY <2>1, <2>4, <2>5 DEF DurableInv
<1>2. ASSUME NEW id \in BatchIds, NEW d \in Deltas, NEW s \in BOOLEAN, PrepareBatch(id, d, s)
      PROVE  DurableInv'
  <2>1. prepared' \subseteq Batches
    BY <1>2, PrepareStep
  <2>2. UNCHANGED <<logVars, handleVars>>
    BY <1>2 DEF PrepareBatch
  <2> QED
    BY <1>1, <2>1, <2>2
<1>3. CASE UNCHANGED vars
  <2>1. UNCHANGED <<logVars, handleVars>> /\ prepared' \subseteq Batches
    BY <1>3 DEF vars, DurableInv, TypeOK
  <2> QED
    BY <1>1, <2>1
<1>4. CASE Open
  BY <1>4, OpenStep
<1>5. ASSUME NEW b \in prepared, AppendChecked(b)
      PROVE  DurableInv'
  BY <1>5, AppendStep
<1>6. CASE RecordWritten \/ AppendIndeterminate
  BY <1>6, PendingStep
<1>7. CASE AppendOk \/ ReconcileCommitted
  BY <1>7, InstallStep
<1>8. CASE ReconcileNotCommitted
  BY <1>8, RetractStep
<1>9. CASE ProcessDeath \/ PowerLoss
  BY <1>9, ResetStep
<1> QED
  BY <1>2, <1>3, <1>4, <1>5, <1>6, <1>7, <1>8, <1>9 DEF Next

(* The inductive invariant holds of every reachable state.                  *)
THEOREM Inductive == Spec => []DurableInv
  BY Initially, Preserved, PTL DEF Spec

(* Whatever crashes leave of the journal, DurableReferenceLedger::open      *)
(* accepts it exactly when decode_batch takes every record: after decoding, *)
(* replay_report repeats the checks of a live append and no other, so that  *)
(* an inverted validity interval is the only way to lose the store.         *)
THEOREM Replays == Spec => []HistoryReplays
<1>1. DurableInv => HistoryReplays
  <2> SUFFICES ASSUME DurableInv PROVE HistoryReplays
    OBVIOUS
  <2>1. history \in Seq(Batches) /\ Linked(history) /\ Len(history) \in 0 .. Len(history)
    BY KnownFacts DEF LogTypes, DurableInv
  <2>2. Replay(history) =
          IF Readable(history) THEN LedgerOf(history, Len(history)) ELSE NoLedger
    BY <2>1, LinkedReplays
  <2>3. LedgerOf(history, Len(history)) # NoLedger
    BY <2>1, LedgerFacts
  <2> QED
    BY <2>2, <2>3 DEF HistoryReplays
<1> QED
  BY <1>1, Inductive, PTL

(* The acknowledged records start what a handle serves or would serve.      *)
AckedKept ==
  Len(acked) <= Len(Known) /\ \A i \in 1 .. Len(acked) : acked[i] = Known[i]

(* Whatever is in the journal starts with what is served, and so with what  *)
(* was acknowledged.                                                        *)
LEMMA AckedInHistory ==
  ASSUME DurableInv, AckedKept
  PROVE  Len(acked) <= Len(history) /\ \A i \in 1 .. Len(acked) : acked[i] = history[i]
<1>1. /\ Known \in Seq(Batches) /\ acked \in Seq(Batches)
      /\ attempt # <<>> => attempt = Append(Known, Last(attempt)) /\ Known = Front(attempt)
  BY KnownFacts DEF LogTypes
<1>2. history = Known \/ history = Append(Known, Last(attempt))
  BY <1>1 DEF DurableInv, HandleOK, Known
<1>3. /\ Len(Known) \in Nat /\ Len(acked) \in Nat
      /\ Len(Append(Known, Last(attempt))) = Len(Known) + 1
      /\ \A i \in 1 .. Len(Known) : Append(Known, Last(attempt))[i] = Known[i]
  BY <1>1
<1>4. \A i \in 1 .. Len(acked) : i \in 1 .. Len(Known)
  BY <1>3 DEF AckedKept
<1> QED
  BY <1>2, <1>3, <1>4 DEF AckedKept

(* No step takes an acknowledged record away.                               *)
LEMMA AckedStep ==
  ASSUME DurableInv, AckedKept, [Next]_vars
  PROVE  AckedKept'
<1>0. LogTypes
  BY KnownFacts
<1>1. ASSUME acked' = acked, Known' = Known
      PROVE  AckedKept'
  BY <1>1 DEF AckedKept
<1>2. CASE UNCHANGED logVars
  <2>1. acked' = acked /\ Known' = Known
    BY <1>2 DEF logVars, Known
  <2> QED
    BY <1>1, <2>1
<1>3. ASSUME NEW b \in prepared, AppendChecked(b)
      PROVE  AckedKept'
  <2>1. attempt = <<>> /\ attempt' = Append(history, b) /\ acked' = acked
    BY <1>3 DEF AppendChecked, Log!LogBegin
  <2>2. history \in Seq(Batches) /\ b \in Batches
    BY <1>0 DEF LogTypes, DurableInv, TypeOK
  <2>3. Front(attempt') = history /\ attempt' # <<>>
    BY <2>1, <2>2, FrontFacts
  <2>4. Known' = Known
    BY <2>1, <2>3 DEF Known
  <2> QED
    BY <1>1, <2>1, <2>4
<1>4. CASE RecordWritten
  <2>1. attempt # <<>> /\ attempt' = attempt /\ acked' = acked
    BY <1>4 DEF RecordWritten, Log!LogAppear
  <2>2. Known' = Known
    BY <2>1 DEF Known
  <2> QED
    BY <1>1, <2>1, <2>2
<1>5. CASE AppendOk \/ ReconcileCommitted
  <2>1. history = attempt /\ history' = history /\ attempt' = <<>> /\ acked' = attempt
    BY <1>5 DEF AppendOk, ReconcileCommitted, Log!LogAck
  <2>2. acked' = Known' /\ Len(acked') \in Nat
    BY <1>0, <2>1 DEF Known, LogTypes
  <2> QED
    BY <2>2 DEF AckedKept
<1>6. CASE ReconcileNotCommitted
  <2>1. /\ attempt # <<>> /\ history = Front(attempt) /\ history' = history
        /\ attempt' = <<>> /\ acked' = acked
    BY <1>6 DEF ReconcileNotCommitted, Log!LogRetract, Log!Front, Front
  <2>2. Known' = Known
    BY <2>1 DEF Known
  <2> QED
    BY <1>1, <2>1, <2>2
<1>7. CASE ProcessDeath
  <2>1. history' = history /\ attempt' = <<>> /\ acked' = acked
    BY <1>7 DEF ProcessDeath, Log!LogForget
  <2>2. Known' = history
    BY <2>1 DEF Known
  <2> QED
    BY <2>1, <2>2, AckedInHistory DEF AckedKept
<1>8. CASE PowerLoss
  <2>1. attempt' = <<>> /\ acked' = acked
    BY <1>8 DEF PowerLoss, Log!LogCrash
  <2>2. PICK n \in Len(acked) .. Len(history) : history' = SubSeq(history, 1, n)
    BY <1>8 DEF PowerLoss, Log!LogCrash
  <2>3. history \in Seq(Batches) /\ Len(acked) \in Nat /\ n \in 0 .. Len(history)
    BY <1>0, <2>2 DEF LogTypes
  <2>4. Len(history') = n /\ \A i \in 1 .. n : history'[i] = history[i]
    BY <2>2, <2>3, PrefixFacts
  <2>5. Known' = history'
    BY <2>1 DEF Known
  <2>6. Len(acked) <= n /\ \A i \in 1 .. Len(acked) : i \in 1 .. n
    BY <2>2, <2>3
  <2>7. \A i \in 1 .. Len(acked) : acked[i] = history[i]
    BY AckedInHistory
  <2> QED
    BY <2>1, <2>4, <2>5, <2>6, <2>7 DEF AckedKept
<1>9. CASE Open
  BY <1>2, <1>9 DEF Open
<1>10. CASE AppendIndeterminate
  BY <1>2, <1>10 DEF AppendIndeterminate
<1>11. ASSUME NEW id \in BatchIds, NEW d \in Deltas, NEW s \in BOOLEAN, PrepareBatch(id, d, s)
       PROVE  AckedKept'
  BY <1>2, <1>11 DEF PrepareBatch
<1>12. CASE UNCHANGED vars
  BY <1>2, <1>12 DEF vars
<1> QED
  BY <1>3, <1>4, <1>5, <1>6, <1>7, <1>8, <1>9, <1>10, <1>11, <1>12 DEF Next

(* An open handle serves the records of the journal, without one whose      *)
(* append is unresolved, with the identity index a restart would rebuild,   *)
(* the ledger a restart would replay if all of them decode, and with every  *)
(* batch that was ever reported committed.                                  *)
THEOREM Serves == Spec => []LedgerInv
<1>1. DurableInv /\ AckedKept => LedgerInv
  <2> SUFFICES ASSUME DurableInv, AckedKept PROVE LedgerInv
    OBVIOUS
  <2>1. Known \in Seq(Batches) /\ Linked(Known) /\ acked \in Seq(Batches)
    BY KnownFacts DEF LogTypes
  <2>2. Readable(Known) => Replay(Known) = LedgerOf(Known, Len(Known))
    BY <2>1, LinkedReplays
  <2>3. handle # "closed" => /\ ledger = LedgerOf(Known, Len(Known))
                             /\ identities = IdentityIndex(Known)
    BY DEF DurableInv, HandleOK
  <2>4. handle # "closed" => ledger.batches = Known
    BY <2>1, <2>3, LedgerFacts
  <2>5. ServesReplayedHistory
    BY <2>2, <2>3, <2>4 DEF ServesReplayedHistory, Known
  <2>6. ServesAcknowledged
    <3>1. Len(Known) \in 0 .. Len(Known) /\ Len(acked) \in 0 .. Len(Known)
      BY <2>1 DEF AckedKept
    <3>2. /\ SubSeq(Known, 1, Len(acked)) \in Seq(Batches)
          /\ Len(SubSeq(Known, 1, Len(acked))) = Len(acked)
          /\ \A i \in 1 .. Len(acked) : SubSeq(Known, 1, Len(acked))[i] = Known[i]
      BY <2>1, <3>1, PrefixFacts
    <3>3. acked = SubSeq(Known, 1, Len(acked))
      BY <2>1, <3>2, SameMembers DEF AckedKept
    <3>4. SubSeq(acked, 1, Len(acked)) = acked
      BY <2>1, PrefixGrows
    <3>5. IsPrefix(acked, Known)
      BY <3>3, <3>4 DEF AckedKept, IsPrefix
    <3> QED
      BY <2>4, <3>5 DEF ServesAcknowledged
  <2> QED
    BY <2>5, <2>6 DEF LedgerInv, DurableInv
<1>2. Init => AckedKept
  BY DEF Init, Log!LogInit, AckedKept, Known
<1> QED
  BY <1>1, <1>2, Initially, Preserved, AckedStep, PTL DEF Spec

(* A batch identity is committed by one record, however often and however   *)
(* late clients submit their batches: append_checked.                       *)
THEOREM ExactlyOnce == Spec => []OneRecordPerIdentity
<1>1. DurableInv => OneRecordPerIdentity
  <2> SUFFICES ASSUME DurableInv PROVE OneRecordPerIdentity
    OBVIOUS
  <2>1. DOMAIN history = 1 .. Len(history)
    BY KnownFacts DEF LogTypes
  <2> QED
    BY <2>1 DEF DurableInv, Linked, OneRecordPerIdentity
<1> QED
  BY <1>1, Inductive, PTL

(* No update is lost: apply_deltas gives an object one generation for each  *)
(* record that wrote it.                                                    *)
THEOREM NoLostUpdate == Spec => []GenerationsCountWrites
<1>1. DurableInv => GenerationsCountWrites
  <2> SUFFICES ASSUME DurableInv, handle # "closed", NEW o \in Objects
               PROVE  ledger.anchor.root[o].generation =
                        Cardinality({i \in DOMAIN ledger.batches :
                                       o \in DOMAIN ledger.batches[i].deltas})
    BY DEF GenerationsCountWrites
  <2>1. Known \in Seq(Batches) /\ Linked(Known)
    BY KnownFacts
  <2>2. Len(Known) \in 0 .. Len(Known) /\ DOMAIN Known = 1 .. Len(Known)
    BY <2>1
  <2>3. ledger = LedgerOf(Known, Len(Known))
    BY DEF DurableInv, HandleOK
  <2>4. ledger.batches = Known /\ ledger.anchor = Top(Known, Len(Known))
    BY <2>1, <2>2, <2>3, LedgerFacts
  <2>5. Top(Known, Len(Known)).root[o].generation = Cardinality(Writers(Known, Len(Known), o))
    BY <2>1, <2>2, Generations
  <2>6. Writers(Known, Len(Known), o) =
          {i \in DOMAIN ledger.batches : o \in DOMAIN ledger.batches[i].deltas}
    BY <2>2, <2>4 DEF Writers
  <2> QED
    BY <2>4, <2>5, <2>6
<1> QED
  BY <1>1, Inductive, PTL
=============================================================================
