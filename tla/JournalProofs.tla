---------------------------- MODULE JournalProofs ----------------------------
(***************************************************************************)
(* What Journal promises, for any payloads and any number of crashes,       *)
(* failed synchronisations, foreign cells and repairs. What recovery reads  *)
(* of a file is the longest root whose records stand in it cell by cell     *)
(* (IntactRecovered); everything else is said in terms of cells.            *)
(***************************************************************************)
EXTENDS Journal, CommonLemmas

USE DEF RecordCells

-----------------------------------------------------------------------------
(* What recovery reads.                                                     *)

(* Record k of a file is the last record of root q.                         *)
RecordIs(f, k, q) ==
  /\ f[4 * k - 3] = Header(q) /\ f[4 * k - 2] = Payload(q)
  /\ f[4 * k - 1] = Magic     /\ f[4 * k] = Root(q)

(* The records of root r start the file.                                    *)
Intact(f, r) ==
  /\ 4 * Len(r) <= Len(f)
  /\ \A k \in 1 .. Len(r) : RecordIs(f, k, Take(r, k))

(* A cell is a tag and a root.                                              *)
LEMMA CellFacts ==
  ASSUME NEW f \in Seq(Cells), NEW i \in 1 .. Len(f)
  PROVE  f[i] \in Cells /\ f[i] = <<f[i][1], f[i][2]>> /\ f[i][2] \in Roots
  BY DEF Cells

(* The cells the code writes.                                               *)
LEMMA CellTypes ==
  /\ <<>> \in Roots /\ Junk \in Cells /\ Magic \in Cells
  /\ \A r \in Roots : Header(r) \in Cells /\ Root(r) \in Cells
  /\ \A r \in Roots : r # <<>> => Payload(r) \in Cells
<1>1. <<>> \in Roots
  BY DEF Roots
<1>2. Junk \in Cells /\ Magic \in Cells
  BY <1>1 DEF Junk, Magic, Cells
<1>3. \A r \in Roots : Header(r) \in Cells /\ Root(r) \in Cells
  BY DEF Header, Root, Cells
<1>4. ASSUME NEW r \in Roots, r # <<>>
      PROVE  Payload(r) \in Cells
  <2>1. Len(r) \in 1 .. Len(r)
    BY <1>4 DEF Roots
  <2>2. r[Len(r)] \in Payloads
    BY <2>1 DEF Roots
  <2>3. <<r[Len(r)]>> \in Roots
    BY <2>2 DEF Roots
  <2> QED
    BY <2>3 DEF Payload, Cells
<1> QED
  BY <1>1, <1>2, <1>3, <1>4

(* The first records of a root.                                             *)
LEMMA TakeFacts ==
  ASSUME NEW r \in Roots, NEW n \in 0 .. Len(r)
  PROVE  /\ Take(r, n) \in Roots /\ Len(Take(r, n)) = n
         /\ \A k \in 0 .. n : Take(Take(r, n), k) = Take(r, k)
         /\ n > 0 => Take(r, n) # <<>> /\ PreviousRoot(Take(r, n)) = Take(r, n - 1)
         /\ n = 0 => Take(r, n) = <<>>
         /\ n = Len(r) => Take(r, n) = r
<1>1. Take(r, n) \in Seq(Payloads) /\ Len(Take(r, n)) = n
      /\ \A i \in 1 .. n : Take(r, n)[i] = r[i]
  BY PrefixFacts DEF Take, Roots
<1>2. ASSUME NEW k \in 0 .. n
      PROVE  Take(Take(r, n), k) = Take(r, k)
  <2> DEFINE a == Take(Take(r, n), k)
             b == Take(r, k)
  <2>1. Len(r) \in Nat /\ k \in 0 .. Len(r) /\ n \in Nat
    BY DEF Roots
  <2>2. a \in Seq(Payloads) /\ Len(a) = k /\ \A i \in 1 .. k : a[i] = Take(r, n)[i]
    BY <1>1, PrefixFacts DEF Take
  <2>3. b \in Seq(Payloads) /\ Len(b) = k /\ \A i \in 1 .. k : b[i] = r[i]
    BY <2>1, PrefixFacts DEF Take, Roots
  <2> HIDE DEF a, b
  <2>4. \A i \in 1 .. k : a[i] = b[i]
    BY <1>1, <2>1, <2>2, <2>3
  <2>5. a = b
    BY <2>2, <2>3, <2>4, SameMembers
  <2> QED
    BY <2>5 DEF a, b
<1>3. ASSUME n > 0
      PROVE  Take(r, n) # <<>> /\ PreviousRoot(Take(r, n)) = Take(r, n - 1)
  <2>1. n - 1 \in 0 .. n
    BY <1>3
  <2>2. PreviousRoot(Take(r, n)) = Take(Take(r, n), n - 1)
    BY <1>1 DEF PreviousRoot, Take
  <2> QED
    BY <1>1, <1>2, <1>3, <2>1, <2>2
<1>4. n = 0 => Take(r, n) = <<>>
  BY <1>1
<1>5. n = Len(r) => Take(r, n) = r
  BY PrefixGrows DEF Take, Roots
<1> QED
  BY <1>1, <1>2, <1>3, <1>4, <1>5 DEF Roots

(* The three cells behind a header.                                         *)
LEMMA ThreeCells ==
  ASSUME NEW s \in Seq(Cells), Len(s) = 3, NEW q
  PROVE  s = <<Payload(q)>> \o Trailer(q) <=>
           s[1] = Payload(q) /\ s[2] = Magic /\ s[3] = Root(q)
<1> DEFINE S == Cells \cup {Payload(q), Magic, Root(q)}
           u == <<Payload(q)>>
           v == Trailer(q)
           t == u \o v
<1>1. u \in Seq(S) /\ v \in Seq(S)
  BY DEF Trailer
<1>2. Len(u) = 1 /\ u[1] = Payload(q) /\ Len(v) = 2 /\ v[1] = Magic /\ v[2] = Root(q)
  BY DEF Trailer
<1>3. s \in Seq(S)
  BY SeqLarger
<1> HIDE DEF S, u, v
<1>4. /\ t \in Seq(S) /\ Len(t) = Len(u) + Len(v)
      /\ \A i \in 1 .. Len(u) : t[i] = u[i]
      /\ \A i \in 1 .. Len(v) : t[Len(u) + i] = v[i]
  BY <1>1, ConcatFacts
<1> HIDE DEF t
<1>5. Len(t) = 3 /\ t[1] = Payload(q) /\ t[2] = Magic /\ t[3] = Root(q)
  BY <1>2, <1>4
<1>6. ASSUME s[1] = t[1], s[2] = t[2], s[3] = t[3]
      PROVE  s = t
  <2>1. \A i \in 1 .. 3 : s[i] = t[i]
    BY <1>6
  <2> QED
    BY <1>3, <1>4, <1>5, <2>1, SameMembers
<1> QED
  BY <1>5, <1>6 DEF t, u, v

(* What RecordAt reads, cell by cell.                                       *)
LEMMA RecordMeans ==
  ASSUME NEW f \in Seq(Cells), NEW k \in Nat, k > 0, 4 * k <= Len(f)
  PROVE  /\ RecordAt(f, k) => /\ RootAfter(f, k) \in Roots /\ RootAfter(f, k) # <<>>
                              /\ Len(RootAfter(f, k)) = k
                              /\ PreviousRoot(RootAfter(f, k)) = RootAfter(f, k - 1)
                              /\ RecordIs(f, k, RootAfter(f, k))
         /\ \A q \in Roots :
              /\ RecordIs(f, k, q) => RootAfter(f, k) = q
              /\ /\ RecordIs(f, k, q)
                 /\ q # <<>> /\ Len(q) = k /\ PreviousRoot(q) = RootAfter(f, k - 1)
                 => RecordAt(f, k)
<1>1. 4 * k - 3 \in 1 .. Len(f) /\ 4 * k - 2 \in 1 .. Len(f) /\ 4 * k - 1 \in 1 .. Len(f)
      /\ 4 * k \in 1 .. Len(f) /\ k # 0
  OBVIOUS
<1> DEFINE s == SubSeq(f, 4 * k - 2, 4 * k)
<1>2. s \in Seq(Cells) /\ Len(s) = 3 /\ s[1] = f[4 * k - 2] /\ s[2] = f[4 * k - 1] /\ s[3] = f[4 * k]
  BY <1>1
<1>3. ASSUME NEW q
      PROVE  s = <<Payload(q)>> \o Trailer(q) <=>
               f[4 * k - 2] = Payload(q) /\ f[4 * k - 1] = Magic /\ f[4 * k] = Root(q)
  BY <1>2, ThreeCells
<1>4. \A q : s = <<Payload(q)>> \o Trailer(q) <=>
               f[4 * k - 2] = Payload(q) /\ f[4 * k - 1] = Magic /\ f[4 * k] = Root(q)
  BY <1>3
<1>5. RootAfter(f, k) = f[4 * k][2]
  BY <1>1 DEF RootAfter
<1>6. f[4 * k - 3] = <<f[4 * k - 3][1], f[4 * k - 3][2]>> /\ f[4 * k - 3][2] \in Roots
  BY <1>1, CellFacts
<1>7. ASSUME RecordAt(f, k)
      PROVE  /\ RootAfter(f, k) \in Roots /\ RootAfter(f, k) # <<>>
             /\ Len(RootAfter(f, k)) = k
             /\ PreviousRoot(RootAfter(f, k)) = RootAfter(f, k - 1)
             /\ RecordIs(f, k, RootAfter(f, k))
  <2> DEFINE r == f[4 * k - 3][2]
  <2>1. HeaderAt(f, k) /\ s = <<Payload(r)>> \o Trailer(r)
    BY <1>7 DEF RecordAt
  <2>2. f[4 * k] = Root(r) /\ f[4 * k - 2] = Payload(r) /\ f[4 * k - 1] = Magic
    BY <1>4, <2>1
  <2>3. RootAfter(f, k) = r
    BY <1>5, <2>2 DEF Root
  <2>4. f[4 * k - 3][1] = "header" /\ r # <<>> /\ Len(r) = k /\ PreviousRoot(r) = RootAfter(f, k - 1)
    BY <2>1 DEF HeaderAt, Continues
  <2>5. f[4 * k - 3] = Header(r)
    BY <1>6, <2>4 DEF Header
  <2> QED
    BY <1>6, <2>2, <2>3, <2>4, <2>5 DEF RecordIs
<1>8. ASSUME NEW q \in Roots, RecordIs(f, k, q)
      PROVE  RootAfter(f, k) = q
  BY <1>5, <1>8 DEF RecordIs, Root
<1>9. ASSUME NEW q \in Roots, RecordIs(f, k, q),
             q # <<>>, Len(q) = k, PreviousRoot(q) = RootAfter(f, k - 1)
      PROVE  RecordAt(f, k)
  <2>1. f[4 * k - 3][1] = "header" /\ f[4 * k - 3][2] = q
    BY <1>9 DEF RecordIs, Header
  <2>2. HeaderAt(f, k)
    BY <1>9, <2>1 DEF HeaderAt, Continues
  <2>3. s = <<Payload(q)>> \o Trailer(q)
    BY <1>4, <1>9 DEF RecordIs
  <2> QED
    BY <2>1, <2>2, <2>3 DEF RecordAt
<1> QED
  BY <1>7, <1>8, <1>9

(* CommittedRecords counts the records up to the first that is not whole.   *)
LEMMA CommittedFacts ==
  ASSUME NEW f \in Seq(Cells)
  PROVE  LET n == CommittedRecords(f) IN
         /\ n \in Nat /\ 4 * n <= Len(f)
         /\ \A i \in 1 .. n : RecordAt(f, i)
         /\ 4 * (n + 1) <= Len(f) => ~RecordAt(f, n + 1)
<1> DEFINE m == Len(f) \div 4
           B == {i \in 0 .. m : i < m => ~RecordAt(f, i + 1)}
<1>1. Len(f) \in Nat /\ m \in Nat /\ 4 * m <= Len(f) /\ Len(f) < 4 * m + 4
  OBVIOUS
<1> HIDE DEF m
<1>2. m \in B /\ B \in SUBSET (0 .. m)
  BY <1>1
<1> HIDE DEF B
<1>3. PICK n \in B : \A i \in B : n <= i
  BY <1>1, <1>2, LeastNumber
<1> USE DEF B
<1>4. n \in 0 .. m /\ (n < m => ~RecordAt(f, n + 1))
  BY <1>3
<1>5. ASSUME NEW i \in 1 .. n
      PROVE  RecordAt(f, i)
  <2>1. i - 1 \in 0 .. m /\ i - 1 < m /\ ~(n <= i - 1) /\ (i - 1) + 1 = i
    BY <1>1, <1>4
  <2>2. i - 1 \notin B
    BY <1>3, <2>1
  <2>3. RecordAt(f, (i - 1) + 1)
    BY <2>1, <2>2
  <2> QED
    BY <2>1, <2>3
<1> DEFINE C == CommittedRecords(f)
<1>6. C \in 0 .. m /\ (\A i \in 1 .. C : RecordAt(f, i)) /\ (C < m => ~RecordAt(f, C + 1))
  BY <1>4, <1>5 DEF CommittedRecords, m
<1> HIDE DEF C
<1>7. C \in Nat /\ 4 * C <= Len(f) /\ (4 * (C + 1) <= Len(f) => C < m)
  BY <1>1, <1>6
<1> QED
  BY <1>6, <1>7 DEF C

(* The roots of whole records continue each other.                          *)
LEMMA RootsChain ==
  ASSUME NEW f \in Seq(Cells), NEW n \in Nat, 4 * n <= Len(f), \A i \in 1 .. n : RecordAt(f, i)
  PROVE  /\ RootAfter(f, n) \in Roots /\ Len(RootAfter(f, n)) = n
         /\ \A k \in 0 .. n : Take(RootAfter(f, n), k) = RootAfter(f, k)
<1> DEFINE Good(m) == /\ RootAfter(f, m) \in Roots /\ Len(RootAfter(f, m)) = m
                      /\ \A k \in 0 .. m : Take(RootAfter(f, m), k) = RootAfter(f, k)
           B == {m \in 0 .. n : ~Good(m)}
<1>1. SUFFICES B = {}
  BY <1>1
<1>2. SUFFICES ASSUME B # {} PROVE FALSE
  OBVIOUS
<1>3. PICK m \in B : \A i \in B : m <= i
  <2>1. B \in SUBSET (0 .. n)
    OBVIOUS
  <2> HIDE DEF B
  <2> QED
    BY <1>2, <2>1, LeastNumber
<1>4. m \in 0 .. n /\ ~Good(m)
  BY <1>3
<1>5. m # 0
  <2>1. RootAfter(f, 0) = <<>>
    BY DEF RootAfter
  <2>2. <<>> \in Roots /\ Len(<<>>) = 0
    BY DEF Roots
  <2>3. Take(<<>>, 0) = <<>>
    BY <2>2, TakeFacts
  <2>4. Good(0)
    BY <2>1, <2>2, <2>3
  <2> QED
    BY <1>4, <2>4
<1>6. m > 0 /\ m - 1 \in 0 .. n /\ m \in 1 .. n /\ m \in Nat /\ 4 * m <= Len(f) /\ m - 1 \in 0 .. m
  BY <1>4, <1>5
<1>7. Good(m - 1)
  <2>1. m - 1 \notin B
    BY <1>3, <1>6
  <2> QED
    BY <1>6, <2>1
<1> DEFINE r == RootAfter(f, m)
<1>8. r \in Roots /\ Len(r) = m /\ PreviousRoot(r) = RootAfter(f, m - 1)
  BY <1>6, RecordMeans
<1> DEFINE p == RootAfter(f, m - 1)
<1>9. \A k \in 0 .. m - 1 : Take(p, k) = RootAfter(f, k)
  BY <1>7
<1> HIDE DEF r, p, Good, B
<1>10. m \in 0 .. Len(r) /\ m - 1 \in 0 .. Len(r) /\ Take(r, m - 1) = p /\ Take(r, m) = r
  <2>1. PreviousRoot(r) = Take(r, m - 1)
    BY <1>8 DEF PreviousRoot, Take
  <2> QED
    BY <1>6, <1>8, <2>1, TakeFacts DEF p
<1>11. ASSUME NEW k \in 0 .. m
       PROVE  Take(r, k) = RootAfter(f, k)
  <2>1. CASE k = m
    BY <1>10, <2>1 DEF r
  <2>2. CASE k # m
    <3>1. k \in 0 .. m - 1
      BY <1>6, <2>2
    <3>2. Take(Take(r, m - 1), k) = Take(r, k)
      BY <1>8, <1>10, <3>1, TakeFacts
    <3> QED
      BY <1>9, <1>10, <3>1, <3>2
  <2> QED
    BY <2>1, <2>2
<1>12. Good(m)
  BY <1>8, <1>11 DEF Good, r
<1> QED
  BY <1>4, <1>12

(* What recovery reads of a file.                                           *)
LEMMA RecoveredFacts ==
  ASSUME NEW f \in Seq(Cells)
  PROVE  /\ Recovered(f) \in Roots /\ Len(Recovered(f)) = CommittedRecords(f)
         /\ CommittedRecords(f) \in Nat
         /\ CommittedCells(f) = 4 * Len(Recovered(f)) /\ CommittedCells(f) <= Len(f)
         /\ Intact(f, Recovered(f))
<1> DEFINE n == CommittedRecords(f)
           r == Recovered(f)
<1>1. n \in Nat /\ 4 * n <= Len(f) /\ \A i \in 1 .. n : RecordAt(f, i)
  BY CommittedFacts
<1>2. r = RootAfter(f, n)
  BY DEF Recovered
<1> HIDE DEF n, r
<1>3. r \in Roots /\ Len(r) = n /\ \A k \in 0 .. n : Take(r, k) = RootAfter(f, k)
  BY <1>1, <1>2, RootsChain
<1>4. ASSUME NEW k \in 1 .. n
      PROVE  RecordIs(f, k, Take(r, k))
  <2>1. k \in Nat /\ k > 0 /\ 4 * k <= Len(f) /\ k \in 0 .. n
    BY <1>1
  <2>2. RecordIs(f, k, RootAfter(f, k))
    BY <1>1, <2>1, RecordMeans
  <2> QED
    BY <1>3, <2>1, <2>2
<1>5. Intact(f, r)
  BY <1>1, <1>3, <1>4 DEF Intact
<1> QED
  BY <1>1, <1>3, <1>5 DEF n, r, CommittedCells

(* Recovery reads the longest root whose records stand in the file.         *)
LEMMA IntactRecovered ==
  ASSUME NEW f \in Seq(Cells), NEW r \in Roots
  PROVE  /\ Intact(f, r) <=> Len(r) <= Len(Recovered(f)) /\ r = Take(Recovered(f), Len(r))
         /\ Intact(f, r) <=> IsPrefix(r, Recovered(f))
<1> DEFINE n == CommittedRecords(f)
           R == Recovered(f)
<1>1. /\ n \in Nat /\ 4 * n <= Len(f) /\ \A i \in 1 .. n : RecordAt(f, i)
      /\ 4 * (n + 1) <= Len(f) => ~RecordAt(f, n + 1)
  BY CommittedFacts
<1>2. R \in Roots /\ Len(R) = n /\ Intact(f, R) /\ R = RootAfter(f, n)
  BY RecoveredFacts DEF Recovered
<1> HIDE DEF n, R
<1>3. Len(r) \in Nat /\ r = Take(r, Len(r))
  BY TakeFacts DEF Roots
<1>4. ASSUME Intact(f, r)
      PROVE  Len(r) <= n /\ r = Take(R, Len(r))
  <2>1. \A k \in 1 .. Len(r) : RecordIs(f, k, Take(r, k)) /\ 4 * Len(r) <= Len(f)
    BY <1>4 DEF Intact
  <2>2. ASSUME NEW k \in 1 .. Len(r)
        PROVE  RootAfter(f, k) = Take(r, k) /\ 4 * k <= Len(f) /\ k \in Nat /\ k > 0
    <3>1. k \in Nat /\ k > 0 /\ 4 * k <= Len(f) /\ k \in 0 .. Len(r)
      BY <1>3, <2>1
    <3>2. Take(r, k) \in Roots
      BY <3>1, TakeFacts
    <3> QED
      BY <2>1, <3>1, <3>2, RecordMeans
  <2>3. ASSUME NEW k \in 1 .. Len(r)
        PROVE  RecordAt(f, k)
    <3>1. k \in 0 .. Len(r) /\ k > 0 /\ k - 1 \in 0 .. Len(r)
      BY <1>3
    <3>2. /\ Take(r, k) \in Roots /\ Take(r, k) # <<>> /\ Len(Take(r, k)) = k
          /\ PreviousRoot(Take(r, k)) = Take(r, k - 1)
      BY <3>1, TakeFacts
    <3>3. RootAfter(f, k - 1) = Take(r, k - 1)
      <4>1. CASE k = 1
        BY <3>1, <4>1, TakeFacts DEF RootAfter
      <4>2. CASE k # 1
        <5>1. k - 1 \in 1 .. Len(r)
          BY <3>1, <4>2
        <5> QED
          BY <2>2, <5>1
      <4> QED
        BY <4>1, <4>2
    <3> QED
      BY <2>1, <2>2, <3>2, <3>3, RecordMeans
  <2>4. Len(r) <= n
    <3> SUFFICES ASSUME n < Len(r) PROVE FALSE
      BY <1>1, <1>3
    <3>1. n + 1 \in 1 .. Len(r)
      BY <1>1, <1>3
    <3> QED
      BY <1>1, <2>2, <2>3, <3>1
  <2>5. Take(R, Len(r)) = RootAfter(f, Len(r))
    <3>1. Len(r) \in 0 .. n
      BY <1>3, <2>4
    <3> QED
      BY <1>1, <1>2, <3>1, RootsChain
  <2>6. RootAfter(f, Len(r)) = r
    <3>1. CASE Len(r) = 0
      BY <3>1 DEF RootAfter, Roots
    <3>2. CASE Len(r) # 0
      <4>1. Len(r) \in 1 .. Len(r)
        BY <1>3, <3>2
      <4> QED
        BY <1>3, <2>2, <4>1
    <3> QED
      BY <3>1, <3>2
  <2> QED
    BY <2>4, <2>5, <2>6
<1>5. ASSUME Len(r) <= n, r = Take(R, Len(r))
      PROVE  Intact(f, r)
  <2>1. Len(r) \in 0 .. Len(R)
    BY <1>1, <1>2, <1>3, <1>5
  <2>2. \A k \in 0 .. Len(r) : Take(r, k) = Take(R, k)
    BY <1>2, <1>5, <2>1, TakeFacts
  <2>3. \A k \in 1 .. Len(r) : k \in 1 .. Len(R) /\ k \in 0 .. Len(r)
    BY <1>1, <1>2, <1>3, <2>1
  <2>4. 4 * Len(r) <= Len(f)
    BY <1>1, <1>3, <1>5
  <2> QED
    BY <1>2, <2>2, <2>3, <2>4 DEF Intact
<1>6. IsPrefix(r, R) <=> Len(r) <= Len(R) /\ r = Take(R, Len(r))
  BY <1>3 DEF IsPrefix, Take
<1> QED
  BY <1>2, <1>4, <1>5, <1>6 DEF R

-----------------------------------------------------------------------------
(* Files that change.                                                       *)

(* Only the cells of its own records matter to a root.                      *)
LEMMA IntactSame ==
  ASSUME NEW f, NEW g, NEW r \in Roots, Intact(f, r), Len(g) \in Nat, 4 * Len(r) <= Len(g),
         \A i \in 1 .. 4 * Len(r) : g[i] = f[i]
  PROVE  Intact(g, r)
<1>1. Len(r) \in Nat
  BY DEF Roots
<1>2. ASSUME NEW k \in 1 .. Len(r)
      PROVE  RecordIs(g, k, Take(r, k))
  <2>1. 4 * k - 3 \in 1 .. 4 * Len(r) /\ 4 * k - 2 \in 1 .. 4 * Len(r)
        /\ 4 * k - 1 \in 1 .. 4 * Len(r) /\ 4 * k \in 1 .. 4 * Len(r)
    BY <1>1
  <2>2. RecordIs(f, k, Take(r, k))
    BY DEF Intact
  <2> QED
    BY <2>1, <2>2 DEF RecordIs
<1> QED
  BY <1>2 DEF Intact

(* The beginning of a file.                                                 *)
LEMMA CutFacts ==
  ASSUME NEW f \in Seq(Cells), NEW m \in 0 .. Len(f)
  PROVE  /\ Take(f, m) \in Seq(Cells) /\ Len(Take(f, m)) = m
         /\ \A i \in 1 .. m : Take(f, m)[i] = f[i]
         /\ \A r \in Roots : Intact(Take(f, m), r) <=> Intact(f, r) /\ 4 * Len(r) <= m
<1> DEFINE g == Take(f, m)
<1>1. g \in Seq(Cells) /\ Len(g) = m /\ \A i \in 1 .. m : g[i] = f[i]
  BY PrefixFacts DEF Take
<1> HIDE DEF g
<1>2. ASSUME NEW r \in Roots, Intact(g, r)
      PROVE  Intact(f, r) /\ 4 * Len(r) <= m
  <2>1. Len(r) \in Nat /\ Len(f) \in Nat /\ 4 * Len(r) <= m
    BY <1>1, <1>2 DEF Intact, Roots
  <2>2. 4 * Len(r) <= Len(f) /\ \A i \in 1 .. 4 * Len(r) : f[i] = g[i]
    BY <1>1, <2>1
  <2> QED
    BY <1>2, <2>1, <2>2, IntactSame
<1>3. ASSUME NEW r \in Roots, Intact(f, r), 4 * Len(r) <= m
      PROVE  Intact(g, r)
  <2>1. Len(r) \in Nat /\ Len(g) \in Nat /\ \A i \in 1 .. 4 * Len(r) : g[i] = f[i]
    BY <1>1, <1>3 DEF Roots
  <2> QED
    BY <1>1, <1>3, <2>1, IntactSame
<1> QED
  BY <1>1, <1>2, <1>3 DEF g

(* Files in which the same roots stand are read alike.                      *)
LEMMA SameRecovered ==
  ASSUME NEW f \in Seq(Cells), NEW g \in Seq(Cells), \A r \in Roots : Intact(f, r) <=> Intact(g, r)
  PROVE  Recovered(f) = Recovered(g)
<1> DEFINE a == Recovered(f)
           b == Recovered(g)
<1>1. a \in Roots /\ b \in Roots /\ Intact(f, a) /\ Intact(g, b)
  BY RecoveredFacts
<1>2. Intact(g, a) /\ Intact(f, b)
  BY <1>1
<1>3. Len(a) <= Len(b) /\ a = Take(b, Len(a)) /\ Len(b) <= Len(a)
  BY <1>1, <1>2, IntactRecovered
<1> HIDE DEF a, b
<1>4. Len(a) = Len(b) /\ Take(b, Len(b)) = b
  BY <1>1, <1>3, TakeFacts DEF Roots
<1> QED
  BY <1>3, <1>4 DEF a, b

(* A root with no room for another record behind it.                        *)
LEMMA RecoveredIs ==
  ASSUME NEW f \in Seq(Cells), NEW r \in Roots, Intact(f, r), Len(f) < 4 * Len(r) + 4
  PROVE  Recovered(f) = r /\ CommittedCells(f) = 4 * Len(r)
<1> DEFINE R == Recovered(f)
<1>1. R \in Roots /\ 4 * Len(R) <= Len(f) /\ CommittedCells(f) = 4 * Len(R)
  BY RecoveredFacts
<1>2. Len(r) <= Len(R) /\ r = Take(R, Len(r))
  BY IntactRecovered
<1> HIDE DEF R
<1>3. Len(r) = Len(R) /\ Take(R, Len(R)) = R
  BY <1>1, <1>2, TakeFacts DEF Roots
<1> QED
  BY <1>1, <1>2, <1>3 DEF R

(* A cut behind the last whole record loses none.                           *)
LEMMA CutCommitted ==
  ASSUME NEW f \in Seq(Cells)
  PROVE  LET g == Take(f, CommittedCells(f)) IN
         /\ g \in Seq(Cells) /\ Len(g) = CommittedCells(f) /\ Recovered(g) = Recovered(f)
         /\ CommittedCells(g) = CommittedCells(f)
         /\ \A i \in 1 .. CommittedCells(f) : g[i] = f[i]
         /\ \A r \in Roots : Intact(g, r) <=> Intact(f, r)
<1> DEFINE m == CommittedCells(f)
           g == Take(f, m)
<1>1. m \in 0 .. Len(f) /\ m = 4 * Len(Recovered(f)) /\ Recovered(f) \in Roots
  <2>1. Len(Recovered(f)) \in Nat /\ m = 4 * Len(Recovered(f)) /\ m <= Len(f) /\ Len(f) \in Nat
    BY RecoveredFacts DEF Roots
  <2> HIDE DEF m
  <2> QED
    BY <2>1, RecoveredFacts
<1> HIDE DEF m
<1>2. /\ g \in Seq(Cells) /\ Len(g) = m /\ \A i \in 1 .. m : g[i] = f[i]
      /\ \A r \in Roots : Intact(g, r) <=> Intact(f, r) /\ 4 * Len(r) <= m
  BY <1>1, CutFacts
<1>3. ASSUME NEW r \in Roots, Intact(f, r)
      PROVE  4 * Len(r) <= m
  BY <1>1, <1>3, IntactRecovered DEF Roots
<1> HIDE DEF g
<1>4. \A r \in Roots : Intact(g, r) <=> Intact(f, r)
  BY <1>2, <1>3
<1>5. Recovered(g) = Recovered(f)
  BY <1>2, <1>4, SameRecovered
<1>6. CommittedCells(g) = m
  BY <1>1, <1>2, <1>5, RecoveredFacts
<1> QED
  BY <1>2, <1>4, <1>5, <1>6 DEF g, m

(* A foreign cell at the end neither adds nor spoils a record.              *)
LEMMA AppendJunk ==
  ASSUME NEW f \in Seq(Cells)
  PROVE  LET g == Append(f, Junk) IN
         /\ g \in Seq(Cells) /\ Len(g) = Len(f) + 1 /\ g[Len(f) + 1] = Junk
         /\ \A i \in 1 .. Len(f) : g[i] = f[i]
         /\ \A r \in Roots : Intact(g, r) <=> Intact(f, r)
<1> DEFINE g == Append(f, Junk)
<1>1. Junk \in Cells
  BY CellTypes
<1>2. /\ g \in Seq(Cells) /\ Len(g) = Len(f) + 1 /\ g[Len(f) + 1] = Junk /\ Len(f) \in Nat
      /\ \A i \in 1 .. Len(f) : g[i] = f[i]
  BY <1>1
<1> HIDE DEF g
<1>3. ASSUME NEW r \in Roots, Intact(g, r)
      PROVE  Intact(f, r)
  <2>1. Len(r) \in Nat /\ 4 * Len(r) <= Len(f) + 1
    BY <1>2, <1>3 DEF Intact, Roots
  <2>2. 4 * Len(r) # Len(f) + 1
    <3> SUFFICES ASSUME 4 * Len(r) = Len(f) + 1 PROVE FALSE
      OBVIOUS
    <3>1. Len(r) \in 1 .. Len(r)
      BY <1>2, <2>1
    <3>2. g[4 * Len(r)] = Root(Take(r, Len(r)))
      BY <1>3, <3>1 DEF Intact, RecordIs
    <3> QED
      BY <1>2, <3>2 DEF Root, Junk
  <2>3. 4 * Len(r) <= Len(f) /\ \A i \in 1 .. 4 * Len(r) : f[i] = g[i]
    BY <1>2, <2>1, <2>2
  <2> QED
    BY <1>2, <1>3, <2>3, IntactSame
<1>4. ASSUME NEW r \in Roots, Intact(f, r)
      PROVE  Intact(g, r)
  <2>1. Len(r) \in Nat /\ 4 * Len(r) <= Len(f)
    BY <1>4 DEF Intact, Roots
  <2>2. Len(g) \in Nat /\ 4 * Len(r) <= Len(g) /\ \A i \in 1 .. 4 * Len(r) : g[i] = f[i]
    BY <1>2, <2>1
  <2> QED
    BY <1>4, <2>2, IntactSame
<1> QED
  BY <1>2, <1>3, <1>4 DEF g

(* A write at the end of a file.                                            *)
LEMMA WriteEnd ==
  ASSUME NEW f \in Seq(Cells), NEW c \in Seq(Cells)
  PROVE  LET g == WriteAt(f, Len(f), c) IN
         /\ g \in Seq(Cells) /\ Len(g) = Len(f) + Len(c)
         /\ \A i \in 1 .. Len(f) : g[i] = f[i]
         /\ \A i \in 1 .. Len(c) : g[Len(f) + i] = c[i]
         /\ \A r \in Roots : Intact(f, r) => Intact(g, r)
<1> DEFINE a == Take(f, Len(f))
           z == Drop(f, Len(f) + Len(c))
           b == a \o c
           g == b \o z
<1>1. a = f
  BY PrefixGrows DEF Take
<1>2. z \in Seq(Cells) /\ Len(z) = 0
  BY DEF Drop
<1> HIDE DEF a, z
<1>3. /\ b \in Seq(Cells) /\ Len(b) = Len(f) + Len(c)
      /\ \A i \in 1 .. Len(f) : b[i] = f[i]
      /\ \A i \in 1 .. Len(c) : b[Len(f) + i] = c[i]
  BY <1>1, ConcatFacts
<1> HIDE DEF b
<1>4. g \in Seq(Cells) /\ Len(g) = Len(b) /\ \A i \in 1 .. Len(b) : g[i] = b[i]
  BY <1>2, <1>3, ConcatFacts
<1> HIDE DEF g
<1>5. /\ Len(g) = Len(f) + Len(c) /\ Len(f) \in Nat /\ Len(c) \in Nat
      /\ \A i \in 1 .. Len(f) : g[i] = f[i]
      /\ \A i \in 1 .. Len(c) : g[Len(f) + i] = c[i]
  BY <1>3, <1>4
<1>6. ASSUME NEW r \in Roots, Intact(f, r)
      PROVE  Intact(g, r)
  <2>1. Len(r) \in Nat /\ 4 * Len(r) <= Len(f)
    BY <1>6 DEF Intact, Roots
  <2>2. Len(g) \in Nat /\ 4 * Len(r) <= Len(g) /\ \A i \in 1 .. 4 * Len(r) : g[i] = f[i]
    BY <1>5, <2>1
  <2> QED
    BY <1>6, <2>2, IntactSame
<1> QED
  BY <1>4, <1>5, <1>6 DEF g, b, a, z, WriteAt

(* One more record.                                                         *)
Extends(q, r) ==
  /\ q \in Roots /\ Len(q) = Len(r) + 1 /\ Take(q, Len(r)) = r

LEMMA IntactExtends ==
  ASSUME NEW f, NEW r \in Roots, NEW q, Extends(q, r), Intact(f, r),
         4 * Len(r) + 4 <= Len(f), RecordIs(f, Len(r) + 1, q)
  PROVE  Intact(f, q)
<1>1. Len(r) \in Nat /\ q \in Roots /\ Len(q) = Len(r) + 1
  BY DEF Extends, Roots
<1>2. 4 * Len(q) <= Len(f)
  BY <1>1
<1>3. ASSUME NEW k \in 1 .. Len(q)
      PROVE  RecordIs(f, k, Take(q, k))
  <2>1. CASE k = Len(q)
    BY <1>1, <2>1, TakeFacts
  <2>2. CASE k # Len(q)
    <3>1. k \in 1 .. Len(r) /\ k \in 0 .. Len(r) /\ Len(r) \in 0 .. Len(q)
      BY <1>1, <2>2
    <3>2. Take(q, k) = Take(r, k)
      BY <1>1, <3>1, TakeFacts DEF Extends
    <3> QED
      BY <3>1, <3>2 DEF Intact
  <2> QED
    BY <2>1, <2>2
<1> QED
  BY <1>2, <1>3 DEF Intact

(* Where one root stands in two files they hold the same cells.             *)
LEMMA IntactEqual ==
  ASSUME NEW f, NEW g, NEW r \in Roots, Intact(f, r), Intact(g, r),
         NEW i \in 1 .. 4 * Len(r)
  PROVE  f[i] = g[i]
<1>1. Len(r) \in Nat /\ i \in Nat
  BY DEF Roots
<1>2. PICK k \in 1 .. Len(r) : i = 4 * k - 3 \/ i = 4 * k - 2 \/ i = 4 * k - 1 \/ i = 4 * k
  <2> DEFINE k == (i + 3) \div 4
  <2>1. k \in Nat /\ 4 * k <= i + 3 /\ i + 3 < 4 * k + 4
    BY <1>1
  <2> HIDE DEF k
  <2>2. k \in 1 .. Len(r) /\ (i = 4 * k - 3 \/ i = 4 * k - 2 \/ i = 4 * k - 1 \/ i = 4 * k)
    BY <1>1, <2>1
  <2> QED
    BY <2>2
<1>3. RecordIs(f, k, Take(r, k)) /\ RecordIs(g, k, Take(r, k))
  BY DEF Intact
<1> QED
  BY <1>2, <1>3 DEF RecordIs

-----------------------------------------------------------------------------
(* File and disk.                                                           *)

(* Cell i may be c after a power loss, if c is no filler.                   *)
May(f, d, i, c) == (i <= Len(f) /\ f[i] = c) \/ (i <= Len(d) /\ d[i] = c)

(* A record whose trailer may be there is whole, and its body is on disk:   *)
(* the body is synchronised before the trailer is written.                  *)
Sound(f, d) ==
  \A r \in Roots :
    LET k == Len(r) IN
    k > 0 /\ May(f, d, 4 * k - 1, Magic) /\ May(f, d, 4 * k, Root(r)) =>
      /\ Intact(f, r)
      /\ 4 * k - 2 <= Len(d) /\ \A i \in 1 .. 4 * k - 2 : d[i] = f[i]

(* The trailer of a root that stands in a file.                             *)
LEMMA IntactTrailer ==
  ASSUME NEW f \in Seq(Cells), NEW r \in Roots, Intact(f, r), Len(r) > 0
  PROVE  /\ 4 * Len(r) - 1 \in 1 .. Len(f) /\ 4 * Len(r) \in 1 .. Len(f)
         /\ f[4 * Len(r) - 1] = Magic /\ f[4 * Len(r)] = Root(r)
<1>1. Len(r) \in Nat /\ Len(r) \in 1 .. Len(r) /\ Take(r, Len(r)) = r
  BY TakeFacts DEF Roots
<1>2. RecordIs(f, Len(r), r)
  BY <1>1 DEF Intact
<1>3. 4 * Len(r) <= Len(f)
  BY DEF Intact
<1> QED
  BY <1>1, <1>2, <1>3 DEF RecordIs

(* A cut, with or without a synchronisation.                                *)
LEMMA SoundCut ==
  ASSUME NEW f \in Seq(Cells), NEW d \in Seq(Cells), NEW g \in Seq(Cells), Sound(f, d),
         Len(g) <= Len(f), \A i \in 1 .. Len(g) : g[i] = f[i],
         \A r \in Roots : Intact(f, r) => Intact(g, r),
         NEW e \in {d, g}
  PROVE  Sound(g, e)
<1> SUFFICES ASSUME NEW r \in Roots, Len(r) > 0,
                    May(g, e, 4 * Len(r) - 1, Magic), May(g, e, 4 * Len(r), Root(r))
             PROVE  /\ Intact(g, r)
                    /\ 4 * Len(r) - 2 <= Len(e) /\ \A i \in 1 .. 4 * Len(r) - 2 : e[i] = g[i]
  BY DEF Sound
<1>1. ASSUME NEW i \in Nat, i > 0, NEW c, May(g, e, i, c)
      PROVE  May(f, d, i, c)
  BY <1>1 DEF May
<1>2. Len(r) \in Nat /\ 4 * Len(r) - 1 \in Nat /\ 4 * Len(r) \in Nat
  BY DEF Roots
<1>3. May(f, d, 4 * Len(r) - 1, Magic) /\ May(f, d, 4 * Len(r), Root(r))
  BY <1>1, <1>2
<1>4. /\ Intact(f, r)
      /\ 4 * Len(r) - 2 <= Len(d) /\ \A i \in 1 .. 4 * Len(r) - 2 : d[i] = f[i]
  BY <1>3 DEF Sound
<1>5. Intact(g, r) /\ 4 * Len(r) <= Len(g)
  BY <1>4 DEF Intact
<1>6. \A i \in 1 .. 4 * Len(r) - 2 : i \in 1 .. Len(g)
  BY <1>2, <1>5
<1> QED
  BY <1>2, <1>4, <1>5, <1>6

(* Cells at the end that are no part of a trailer.                          *)
LEMMA SoundGrow ==
  ASSUME NEW f \in Seq(Cells), NEW d \in Seq(Cells), NEW g \in Seq(Cells), Sound(f, d),
         Len(f) <= Len(g), \A i \in 1 .. Len(f) : g[i] = f[i],
         \A i \in Len(f) + 1 .. Len(g) : g[i][1] \notin {"magic", "root"},
         \A r \in Roots : Intact(f, r) => Intact(g, r)
  PROVE  Sound(g, d)
<1> SUFFICES ASSUME NEW r \in Roots, Len(r) > 0,
                    May(g, d, 4 * Len(r) - 1, Magic), May(g, d, 4 * Len(r), Root(r))
             PROVE  /\ Intact(g, r)
                    /\ 4 * Len(r) - 2 <= Len(d) /\ \A i \in 1 .. 4 * Len(r) - 2 : d[i] = g[i]
  BY DEF Sound
<1>1. ASSUME NEW i \in Nat, i > 0, NEW c, c[1] \in {"magic", "root"}, May(g, d, i, c)
      PROVE  May(f, d, i, c)
  BY <1>1 DEF May
<1>2. Len(r) \in Nat /\ 4 * Len(r) - 1 \in Nat /\ 4 * Len(r) \in Nat
      /\ 4 * Len(r) - 1 > 0 /\ 4 * Len(r) > 0
  BY DEF Roots
<1>3. Magic[1] = "magic" /\ Root(r)[1] = "root"
  BY DEF Magic, Root
<1>4. May(f, d, 4 * Len(r) - 1, Magic) /\ May(f, d, 4 * Len(r), Root(r))
  BY <1>1, <1>2, <1>3
<1>5. /\ Intact(f, r)
      /\ 4 * Len(r) - 2 <= Len(d) /\ \A i \in 1 .. 4 * Len(r) - 2 : d[i] = f[i]
  BY <1>4 DEF Sound
<1>6. Intact(g, r) /\ 4 * Len(r) <= Len(f)
  BY <1>5 DEF Intact
<1>7. \A i \in 1 .. 4 * Len(r) - 2 : i \in 1 .. Len(f)
  BY <1>2, <1>6
<1> QED
  BY <1>5, <1>6, <1>7

(* The trailer, over a body that is on disk.                                *)
LEMMA SoundTrailer ==
  ASSUME NEW f \in Seq(Cells), NEW g \in Seq(Cells), Sound(f, f),
         NEW p \in Roots, NEW q, Extends(q, p), Len(f) = 4 * Len(p) + 2,
         Len(f) <= Len(g), Len(g) <= 4 * Len(p) + 4, \A i \in 1 .. Len(f) : g[i] = f[i],
         Len(g) = 4 * Len(p) + 4 => g[4 * Len(p) + 4] = Root(q) /\ Intact(g, q),
         \A r \in Roots : Intact(f, r) => Intact(g, r)
  PROVE  Sound(g, f)
<1> SUFFICES ASSUME NEW r \in Roots, Len(r) > 0,
                    May(g, f, 4 * Len(r) - 1, Magic), May(g, f, 4 * Len(r), Root(r))
             PROVE  /\ Intact(g, r)
                    /\ 4 * Len(r) - 2 <= Len(f) /\ \A i \in 1 .. 4 * Len(r) - 2 : f[i] = g[i]
  BY DEF Sound
<1>1. Len(r) \in Nat /\ Len(p) \in Nat /\ Len(f) \in Nat /\ Len(g) \in Nat
  BY DEF Roots
<1>2. CASE Len(r) <= Len(p)
  <2>1. 4 * Len(r) - 1 \in 1 .. Len(f) /\ 4 * Len(r) \in 1 .. Len(f)
    BY <1>1, <1>2
  <2>2. May(f, f, 4 * Len(r) - 1, Magic) /\ May(f, f, 4 * Len(r), Root(r))
    BY <2>1 DEF May
  <2>3. Intact(f, r)
    BY <2>2 DEF Sound
  <2> QED
    BY <1>1, <1>2, <2>3
<1>3. CASE Len(r) > Len(p)
  <2>1. ~(4 * Len(r) <= Len(f))
    BY <1>1, <1>3
  <2>2. 4 * Len(r) <= Len(g) /\ g[4 * Len(r)] = Root(r)
    BY <2>1 DEF May
  <2>3. Len(r) = Len(p) + 1 /\ Len(g) = 4 * Len(p) + 4 /\ 4 * Len(r) = 4 * Len(p) + 4
    BY <1>1, <1>3, <2>2
  <2>4. r = q
    BY <2>2, <2>3 DEF Root
  <2> QED
    BY <1>1, <2>3, <2>4
<1> QED
  BY <1>1, <1>2, <1>3

(* What a power loss leaves of file f and disk d.                           *)
Mixed(f, d, m) ==
  /\ Len(f) <= Len(m) \/ Len(d) <= Len(m)
  /\ \A i \in 1 .. Len(m) :
       \/ m[i] = Junk /\ i > Len(d)
       \/ i <= Len(f) /\ m[i] = f[i]
       \/ i <= Len(d) /\ m[i] = d[i]
  /\ \A i \in 1 .. Len(m) : i <= Len(f) /\ i <= Len(d) /\ f[i] = d[i] => m[i] = f[i]

(* It is no record that was not there, and none is lost that file and disk  *)
(* both hold.                                                               *)
LEMMA SoundLoss ==
  ASSUME NEW f \in Seq(Cells), NEW d \in Seq(Cells), NEW m \in Seq(Cells),
         Mixed(f, d, m), Sound(f, d)
  PROVE  /\ Sound(m, m)
         /\ \A r \in Roots : Intact(m, r) => Intact(f, r)
         /\ \A r \in Roots : Intact(f, r) /\ Intact(d, r) => Intact(m, r)
<1>0. Len(m) \in Nat /\ Len(f) \in Nat /\ Len(d) \in Nat
  OBVIOUS
<1>1. ASSUME NEW i \in Nat, i > 0, NEW c, c # Junk, i <= Len(m), m[i] = c
      PROVE  May(f, d, i, c)
  BY <1>0, <1>1 DEF May, Mixed
<1>2. ASSUME NEW r \in Roots, Len(r) > 0, 4 * Len(r) <= Len(m),
             m[4 * Len(r) - 1] = Magic, m[4 * Len(r)] = Root(r)
      PROVE  Intact(f, r) /\ Intact(m, r)
  <2>1. Len(r) \in Nat /\ 4 * Len(r) - 1 \in 1 .. Len(m) /\ 4 * Len(r) \in 1 .. Len(m)
    BY <1>0, <1>2 DEF Roots
  <2>2. Magic # Junk /\ Root(r) # Junk
    BY DEF Magic, Root, Junk
  <2>3. May(f, d, 4 * Len(r) - 1, Magic) /\ May(f, d, 4 * Len(r), Root(r))
    <3> DEFINE a == 4 * Len(r) - 1
               b == 4 * Len(r)
    <3>1. a \in Nat /\ a > 0 /\ a <= Len(m) /\ b \in Nat /\ b > 0 /\ b <= Len(m)
      BY <1>0, <2>1
    <3>2. m[a] = Magic /\ m[b] = Root(r)
      BY <1>2
    <3> HIDE DEF a, b
    <3>3. May(f, d, a, Magic)
      BY <1>1, <2>2, <3>1, <3>2
    <3>4. May(f, d, b, Root(r))
      BY <1>1, <2>2, <3>1, <3>2
    <3> QED
      BY <3>3, <3>4 DEF a, b
  <2>4. /\ Intact(f, r)
        /\ 4 * Len(r) - 2 <= Len(d) /\ \A i \in 1 .. 4 * Len(r) - 2 : d[i] = f[i]
    BY <1>2, <2>3 DEF Sound
  <2>5. /\ 4 * Len(r) <= Len(f) /\ f[4 * Len(r) - 1] = Magic /\ f[4 * Len(r)] = Root(r)
    BY <1>2, <2>4, IntactTrailer DEF Intact
  <2>6. ASSUME NEW i \in 1 .. 4 * Len(r)
        PROVE  m[i] = f[i]
    <3>1. CASE i <= 4 * Len(r) - 2
      <4>1. i \in 1 .. Len(m) /\ i <= Len(f) /\ i <= Len(d) /\ i \in 1 .. 4 * Len(r) - 2
        BY <1>0, <1>2, <2>1, <2>4, <2>5, <3>1
      <4> QED
        BY <2>4, <4>1 DEF Mixed
    <3>2. CASE i > 4 * Len(r) - 2
      <4>1. i \in Nat /\ i <= 4 * Len(r) /\ Len(r) \in Nat
        BY <2>1
      <4>2. i = 4 * Len(r) - 1 \/ i = 4 * Len(r)
        BY <3>2, <4>1
      <4> QED
        BY <1>2, <2>5, <4>2
    <3> QED
      BY <2>1, <3>1, <3>2
  <2> QED
    BY <1>0, <1>2, <2>4, <2>6, IntactSame
<1>3. Sound(m, m)
  <2> SUFFICES ASSUME NEW r \in Roots, Len(r) > 0,
                      May(m, m, 4 * Len(r) - 1, Magic), May(m, m, 4 * Len(r), Root(r))
               PROVE  Intact(m, r) /\ 4 * Len(r) - 2 <= Len(m)
    BY DEF Sound
  <2>1. Len(r) \in Nat /\ 4 * Len(r) <= Len(m) /\ m[4 * Len(r) - 1] = Magic /\ m[4 * Len(r)] = Root(r)
    BY DEF May, Roots
  <2> QED
    BY <1>0, <1>2, <2>1
<1>4. ASSUME NEW r \in Roots, Intact(m, r)
      PROVE  Intact(f, r)
  <2>1. CASE Len(r) = 0
    BY <1>0, <2>1 DEF Intact
  <2>2. CASE Len(r) # 0
    <3>1. Len(r) \in Nat /\ Len(r) > 0 /\ 4 * Len(r) <= Len(m)
      BY <1>4, <2>2 DEF Intact, Roots
    <3> QED
      BY <1>2, <1>4, <3>1, IntactTrailer
  <2> QED
    BY <2>1, <2>2
<1>5. ASSUME NEW r \in Roots, Intact(f, r), Intact(d, r)
      PROVE  Intact(m, r)
  <2>1. Len(r) \in Nat /\ 4 * Len(r) <= Len(f) /\ 4 * Len(r) <= Len(d)
    BY <1>5 DEF Intact, Roots
  <2>2. 4 * Len(r) <= Len(m)
    BY <1>0, <2>1 DEF Mixed
  <2>3. ASSUME NEW i \in 1 .. 4 * Len(r)
        PROVE  m[i] = f[i]
    <3>1. i \in 1 .. Len(m) /\ i <= Len(f) /\ i <= Len(d)
      BY <1>0, <2>1, <2>2
    <3>2. f[i] = d[i]
      <4>1. i \in 1 .. Len(f) /\ i \in 1 .. Len(d)
        BY <1>0, <3>1
      <4> QED
        BY <1>5, <2>1, IntactEqual
    <3> QED
      BY <3>1, <3>2 DEF Mixed
  <2> QED
    BY <1>0, <1>5, <2>2, <2>3, IntactSame
<1> QED
  BY <1>3, <1>4, <1>5

-----------------------------------------------------------------------------
(* The handle.                                                              *)

(* What the file holds at each stage of an append.                          *)
StageOK ==
  /\ phase = "BodyWrite" => Len(file) = committedLen
  /\ phase \in {"BodySync", "CommitWrite"} =>
       /\ Len(file) = committedLen + 2
       /\ file[committedLen + 1] = Header(pending) /\ file[committedLen + 2] = Payload(pending)
  /\ phase = "CommitWrite" => disk = file
  /\ phase = "CommitSync" => Len(file) = committedLen + 4 /\ Intact(file, pending)

(* The records the handle knows of stand in the file, and an append adds    *)
(* one to them. No repair is applied beside an open handle, and its cut is  *)
(* inside the file.                                                         *)
HandleOK ==
  /\ phase = "closed" => pending = <<>>
  /\ phase # "closed" =>
       ~Applying /\ Intact(file, lastRoot) /\ committedLen = 4 * Len(lastRoot)
  /\ pending # <<>> => Extends(pending, lastRoot)
  /\ InAppend => pending # <<>>
  /\ StageOK
  /\ Applying => plan.at <= Len(file)

HandleIInv == TypeOK /\ HandleOK

(* The variables have the types the lemmas ask for.                         *)
LEMMA Types ==
  ASSUME TypeOK
  PROVE  /\ file \in Seq(Cells) /\ disk \in Seq(Cells) /\ lastRoot \in Roots /\ pending \in Roots
         /\ acked \in Roots /\ committedLen \in Nat /\ retracted \subseteq Roots
         /\ Len(file) \in Nat /\ Len(disk) \in Nat /\ Len(lastRoot) \in Nat /\ Len(acked) \in Nat
         /\ plan.at \in Nat /\ plan.foreign \in Seq(Cells)
<1>1. plan.at \in Nat /\ plan.foreign \in Seq(Cells)
  BY DEF TypeOK
<1> QED
  BY <1>1 DEF TypeOK, Roots

(* The first cells of a record.                                             *)
LEMMA PartFacts ==
  ASSUME NEW c \in Seq(Cells), NEW n \in 0 .. Len(c)
  PROVE  Take(c, n) \in Seq(Cells) /\ Len(Take(c, n)) = n /\ \A i \in 1 .. n : Take(c, n)[i] = c[i]
  BY CutFacts

(* What a write at the end of the file leaves.                              *)
LEMMA WriteFacts ==
  ASSUME TypeOK, NEW at, at = Len(file), NEW c \in Seq(Cells), NEW next, Write(at, c, next)
  PROVE  \E n \in 0 .. Len(c) :
           /\ file' \in Seq(Cells) /\ Len(file') = Len(file) + n
           /\ \A i \in 1 .. Len(file) : file'[i] = file[i]
           /\ \A i \in 1 .. n : file'[Len(file) + i] = c[i]
           /\ \A r \in Roots : Intact(file, r) => Intact(file', r)
           /\ phase' = "idle" \/ (n = Len(c) /\ phase' = next)
           /\ disk' = disk
<1>1. file \in Seq(Cells)
  BY Types
<1>2. PICK n \in 0 .. Len(c) :
        /\ file' = WriteAt(file, Len(file), Take(c, n))
        /\ phase' \in {"idle"} \cup (IF n = Len(c) THEN {next} ELSE {})
        /\ disk' = disk
  BY DEF Write
<1>3. phase' = "idle" \/ (n = Len(c) /\ phase' = next)
  BY <1>2
<1> DEFINE p == Take(c, n)
<1>4. p \in Seq(Cells) /\ Len(p) = n /\ \A i \in 1 .. n : p[i] = c[i]
  BY PartFacts
<1>5. file' = WriteAt(file, Len(file), p)
  BY <1>2
<1> HIDE DEF p
<1>6. /\ file' \in Seq(Cells) /\ Len(file') = Len(file) + n
      /\ \A i \in 1 .. Len(file) : file'[i] = file[i]
      /\ \A i \in 1 .. n : file'[Len(file) + i] = p[i]
      /\ \A r \in Roots : Intact(file, r) => Intact(file', r)
  BY <1>1, <1>4, <1>5, WriteEnd
<1> QED
  BY <1>2, <1>3, <1>4, <1>6

(* The cells of the body and of the trailer.                                *)
LEMMA RecordParts ==
  ASSUME NEW q \in Roots, q # <<>>
  PROVE  /\ Body(q) \in Seq(Cells) /\ Len(Body(q)) = 2
         /\ Body(q)[1] = Header(q) /\ Body(q)[2] = Payload(q)
         /\ Trailer(q) \in Seq(Cells) /\ Len(Trailer(q)) = 2
         /\ Trailer(q)[1] = Magic /\ Trailer(q)[2] = Root(q)
<1>1. Header(q) \in Cells /\ Payload(q) \in Cells /\ Magic \in Cells /\ Root(q) \in Cells
  BY CellTypes
<1> QED
  BY <1>1 DEF Body, Trailer

(* The append installs one record more.                                     *)
LEMMA AppendExtends ==
  ASSUME NEW r \in Roots, NEW v \in Payloads
  PROVE  Append(r, v) \in Roots /\ Append(r, v) # <<>> /\ Extends(Append(r, v), r)
         /\ Append(r, v)[Len(r) + 1] = v /\ Len(r) + 1 \in DOMAIN Append(r, v)
<1> DEFINE q == Append(r, v)
<1>1. q \in Seq(Payloads) /\ Len(q) = Len(r) + 1 /\ Len(r) \in Nat
      /\ q[Len(r) + 1] = v /\ \A i \in 1 .. Len(r) : q[i] = r[i]
  BY DEF Roots
<1> HIDE DEF q
<1>2. Len(r) \in 0 .. Len(q) /\ Len(r) + 1 \in DOMAIN q /\ q # <<>>
  BY <1>1
<1>3. Take(q, Len(r)) \in Seq(Payloads) /\ Len(Take(q, Len(r))) = Len(r)
      /\ \A i \in 1 .. Len(r) : Take(q, Len(r))[i] = q[i]
  BY <1>1, <1>2, PrefixFacts DEF Take
<1>4. Take(q, Len(r)) = r
  BY <1>1, <1>3, SameMembers DEF Roots
<1> QED
  BY <1>1, <1>2, <1>4 DEF q, Extends, Roots

(* The body write.                                                          *)
LEMMA BodyWriteFacts ==
  ASSUME HandleIInv, BodyWrite
  PROVE  \E n \in 0 .. 2 :
           /\ file' \in Seq(Cells) /\ Len(file') = Len(file) + n
           /\ Len(file) = committedLen /\ committedLen = 4 * Len(lastRoot)
           /\ \A i \in 1 .. Len(file) : file'[i] = file[i]
           /\ n > 0 => file'[Len(file) + 1] = Header(pending)
           /\ n > 1 => file'[Len(file) + 2] = Payload(pending)
           /\ \A r \in Roots : Intact(file, r) => Intact(file', r)
           /\ phase' = "idle" \/ (n = 2 /\ phase' = "BodySync")
           /\ disk' = disk
<1>1. TypeOK /\ pending \in Roots /\ pending # <<>> /\ Len(file) = committedLen
      /\ committedLen = 4 * Len(lastRoot)
  BY Types DEF HandleIInv, HandleOK, StageOK, BodyWrite, InAppend
<1> DEFINE c == Body(pending)
<1>2. c \in Seq(Cells) /\ Len(c) = 2 /\ c[1] = Header(pending) /\ c[2] = Payload(pending)
  BY <1>1, RecordParts
<1>3. Write(committedLen, c, "BodySync")
  BY DEF BodyWrite
<1> HIDE DEF c
<1>4. PICK n \in 0 .. Len(c) :
           /\ file' \in Seq(Cells) /\ Len(file') = Len(file) + n
           /\ \A i \in 1 .. Len(file) : file'[i] = file[i]
           /\ \A i \in 1 .. n : file'[Len(file) + i] = c[i]
           /\ \A r \in Roots : Intact(file, r) => Intact(file', r)
           /\ phase' = "idle" \/ (n = Len(c) /\ phase' = "BodySync")
           /\ disk' = disk
  BY <1>1, <1>2, <1>3, WriteFacts
<1>5. (n > 0 => 1 \in 1 .. n) /\ (n > 1 => 2 \in 1 .. n) /\ n \in 0 .. 2
  BY <1>2
<1> QED
  BY <1>1, <1>2, <1>4, <1>5

(* The trailer write.                                                       *)
LEMMA CommitWriteFacts ==
  ASSUME HandleIInv, CommitWrite
  PROVE  \E n \in 0 .. 2 :
           /\ file' \in Seq(Cells) /\ Len(file') = Len(file) + n
           /\ Len(file) = committedLen + 2 /\ committedLen = 4 * Len(lastRoot)
           /\ \A i \in 1 .. Len(file) : file'[i] = file[i]
           /\ n > 1 => file'[4 * Len(lastRoot) + 4] = Root(pending) /\ Intact(file', pending)
           /\ \A r \in Roots : Intact(file, r) => Intact(file', r)
           /\ phase' = "idle" \/ (n = 2 /\ phase' = "CommitSync")
           /\ disk' = disk
<1>1. /\ TypeOK /\ pending \in Roots /\ pending # <<>> /\ Len(file) = committedLen + 2
      /\ committedLen = 4 * Len(lastRoot) /\ Extends(pending, lastRoot) /\ Intact(file, lastRoot)
      /\ file[committedLen + 1] = Header(pending) /\ file[committedLen + 2] = Payload(pending)
      /\ committedLen \in Nat /\ lastRoot \in Roots /\ Len(lastRoot) \in Nat
  BY Types DEF HandleIInv, HandleOK, StageOK, CommitWrite, InAppend
<1> DEFINE c == Trailer(pending)
<1>2. c \in Seq(Cells) /\ Len(c) = 2 /\ c[1] = Magic /\ c[2] = Root(pending)
  BY <1>1, RecordParts
<1>3. Write(committedLen + 2, c, "CommitSync")
  BY DEF CommitWrite
<1> HIDE DEF c
<1>4. PICK n \in 0 .. Len(c) :
           /\ file' \in Seq(Cells) /\ Len(file') = Len(file) + n
           /\ \A i \in 1 .. Len(file) : file'[i] = file[i]
           /\ \A i \in 1 .. n : file'[Len(file) + i] = c[i]
           /\ \A r \in Roots : Intact(file, r) => Intact(file', r)
           /\ phase' = "idle" \/ (n = Len(c) /\ phase' = "CommitSync")
           /\ disk' = disk
  BY <1>1, <1>2, <1>3, WriteFacts
<1>5. n \in 0 .. 2
  BY <1>2
<1>6. ASSUME n > 1
      PROVE  file'[4 * Len(lastRoot) + 4] = Root(pending) /\ Intact(file', pending)
  <2> DEFINE k == Len(lastRoot) + 1
  <2>1. 1 \in 1 .. n /\ 2 \in 1 .. n
    BY <1>5, <1>6
  <2>2. file'[Len(file) + 1] = Magic /\ file'[Len(file) + 2] = Root(pending)
    BY <1>2, <1>4, <2>1
  <2>3. committedLen + 1 \in 1 .. Len(file) /\ committedLen + 2 \in 1 .. Len(file)
    BY <1>1
  <2>4. file'[committedLen + 1] = Header(pending) /\ file'[committedLen + 2] = Payload(pending)
    BY <1>1, <1>4, <2>3
  <2>5. /\ 4 * k - 3 = committedLen + 1 /\ 4 * k - 2 = committedLen + 2
        /\ 4 * k - 1 = Len(file) + 1 /\ 4 * k = Len(file) + 2 /\ 4 * k = 4 * Len(lastRoot) + 4
    BY <1>1
  <2>6. RecordIs(file', k, pending)
    BY <2>2, <2>4, <2>5 DEF RecordIs
  <2>7. Intact(file', lastRoot) /\ 4 * Len(lastRoot) + 4 <= Len(file')
    BY <1>1, <1>4, <1>5, <1>6
  <2>8. Intact(file', pending)
    BY <1>1, <2>6, <2>7, IntactExtends
  <2> QED
    BY <2>2, <2>5, <2>8
<1> QED
  BY <1>1, <1>2, <1>4, <1>5, <1>6

(* A power loss leaves a mixture of file and disk.                          *)
LEMMA LossFacts ==
  ASSUME TypeOK, PowerLoss
  PROVE  /\ file' \in Seq(Cells) /\ Mixed(file, disk, file') /\ disk' = file'
         /\ phase' = "closed" /\ lastRoot' = <<>> /\ committedLen' = 0 /\ pending' = <<>>
         /\ plan' = NoPlan /\ sidecars' = sidecars /\ acked' = acked /\ retracted' = retracted
         /\ decay' = decay /\ rots' = rots
<1>1. file \in Seq(Cells) /\ disk \in Seq(Cells) /\ Len(file) \in Nat /\ Len(disk) \in Nat
  BY Types
<1> DEFINE lo == Min({Len(file), Len(disk)})
           hi == Max({Len(file), Len(disk)})
<1>2. lo \in Nat /\ hi \in Nat /\ (lo = Len(file) \/ lo = Len(disk)) /\ (hi = Len(file) \/ hi = Len(disk))
      /\ lo <= Len(file) /\ lo <= Len(disk)
  <2>1. \E x \in {Len(file), Len(disk)} : \A y \in {Len(file), Len(disk)} : x <= y
    BY <1>1
  <2>2. \E x \in {Len(file), Len(disk)} : \A y \in {Len(file), Len(disk)} : x >= y
    BY <1>1
  <2>3. lo \in {Len(file), Len(disk)} /\ \A y \in {Len(file), Len(disk)} : lo <= y
    BY <2>1 DEF Min
  <2>4. hi \in {Len(file), Len(disk)}
    BY <2>2 DEF Max
  <2> QED
    BY <1>1, <2>3, <2>4
<1> HIDE DEF lo, hi
<1>3. PICK n \in lo .. hi : \E written \in SUBSET {i \in 1 .. n : OldCell(i) # NewCell(i)} :
        file' = [i \in 1 .. n |-> IF i \in written THEN NewCell(i) ELSE OldCell(i)]
  BY DEF PowerLoss, lo, hi
<1>4. PICK written \in SUBSET {i \in 1 .. n : OldCell(i) # NewCell(i)} :
        file' = [i \in 1 .. n |-> IF i \in written THEN NewCell(i) ELSE OldCell(i)]
  BY <1>3
<1>5. n \in Nat /\ lo <= n /\ n <= hi
  BY <1>2
<1>6. ASSUME NEW i \in 1 .. n
      PROVE  /\ OldCell(i) \in Cells /\ NewCell(i) \in Cells
             /\ OldCell(i) = IF i <= Len(disk) THEN disk[i] ELSE Junk
             /\ NewCell(i) = IF i <= Len(file) THEN file[i] ELSE OldCell(i)
  <2>1. Junk \in Cells
    BY CellTypes
  <2>2. i <= Len(disk) => disk[i] \in Cells
    BY <1>1, <1>5
  <2>3. i <= Len(file) => file[i] \in Cells
    BY <1>1, <1>5
  <2> QED
    BY <2>1, <2>2, <2>3 DEF OldCell, NewCell
<1>7. file' \in [1 .. n -> Cells]
  BY <1>4, <1>6
<1>8. file' \in Seq(Cells) /\ Len(file') = n
  BY <1>5, <1>7
<1>9. Mixed(file, disk, file')
  <2>1. Len(file) <= Len(file') \/ Len(disk) <= Len(file')
    BY <1>2, <1>5, <1>8
  <2>2. ASSUME NEW i \in 1 .. n
        PROVE  file'[i] = OldCell(i) \/ file'[i] = NewCell(i)
    BY <1>4
  <2>3. ASSUME NEW i \in 1 .. n
        PROVE  \/ file'[i] = Junk /\ i > Len(disk)
               \/ i <= Len(file) /\ file'[i] = file[i]
               \/ i <= Len(disk) /\ file'[i] = disk[i]
    <3>1. i <= Len(disk) \/ i > Len(disk)
      BY <1>1, <1>5
    <3> QED
      BY <2>2, <3>1 DEF OldCell, NewCell
  <2>4. ASSUME NEW i \in 1 .. n, i <= Len(file), i <= Len(disk), file[i] = disk[i]
        PROVE  file'[i] = file[i]
    BY <2>2, <2>4 DEF OldCell, NewCell
  <2> QED
    BY <1>8, <2>1, <2>3, <2>4 DEF Mixed
<1> QED
  BY <1>8, <1>9 DEF PowerLoss, obsVars

(* A step that closes the handle or leaves it closed.                       *)
LEMMA ClosedStep ==
  ASSUME HandleIInv, file' \in Seq(Cells), disk' \in Seq(Cells),
         phase' = "closed", pending' = <<>>, lastRoot' \in Roots, committedLen' \in Nat,
         plan' \in [at : Nat, root : Roots, foreign : Seq(Cells),
                    step : {"none", "planned", "quarantined", "checked"}],
         Applying' => plan'.at <= Len(file'),
         sidecars' \in Nat, acked' \in Roots, retracted' \subseteq Roots,
         \/ decay' = decay /\ rots' = rots
         \/ decay' \subseteq Nat \X {"long", "junk"} /\ rots' \in Nat
  PROVE  HandleIInv'
<1>0. decay' \subseteq Nat \X {"long", "junk"} /\ rots' \in Nat
  BY DEF HandleIInv, TypeOK
<1>1. TypeOK'
  BY <1>0, CellTypes DEF TypeOK
<1>2. HandleOK'
  BY DEF HandleOK, StageOK, InAppend
<1> QED
  BY <1>1, <1>2 DEF HandleIInv

(* Open reads what it takes over.                                           *)
LEMMA OpenStep ==
  ASSUME HandleIInv, NEW t \in BOOLEAN, Open(t)
  PROVE  HandleIInv'
<1>0. TypeOK /\ file \in Seq(Cells)
  BY Types DEF HandleIInv
<1> DEFINE g == Take(file, CommittedCells(file))
           R == Recovered(file)
<1>1. g \in Seq(Cells) /\ \A r \in Roots : Intact(g, r) <=> Intact(file, r)
  BY <1>0, CutCommitted
<1>2. R \in Roots /\ CommittedCells(file) = 4 * Len(R) /\ Intact(file, R) /\ Len(R) \in Nat
  BY <1>0, RecoveredFacts DEF Roots
<1>3. /\ file' = g /\ disk' \in {disk, g} /\ phase' = "idle" /\ lastRoot' = R
      /\ committedLen' = CommittedCells(file) /\ pending' = <<>> /\ ~Applying
      /\ plan' = plan /\ sidecars' = sidecars /\ acked' = acked /\ retracted' = retracted
      /\ decay' = decay /\ rots' = rots
  BY DEF Open, repairVars, obsVars
<1> HIDE DEF g, R
<1>4. TypeOK'
  BY <1>0, <1>1, <1>2, <1>3, CellTypes DEF TypeOK
<1>5. HandleOK'
  BY <1>1, <1>2, <1>3 DEF HandleOK, StageOK, InAppend, Applying
<1> QED
  BY <1>4, <1>5 DEF HandleIInv

(* An append starts at the end of the file.                                 *)
LEMMA AppendStep ==
  ASSUME HandleIInv, NEW v \in Payloads, AppendStart(v)
  PROVE  HandleIInv'
<1>0. TypeOK /\ HandleOK /\ lastRoot \in Roots
  BY Types DEF HandleIInv
<1>1. /\ phase = "idle" /\ Len(file) = committedLen /\ phase' = "BodyWrite"
      /\ pending' = Append(lastRoot, v) /\ file' = file /\ disk' = disk /\ lastRoot' = lastRoot
      /\ committedLen' = committedLen /\ plan' = plan /\ sidecars' = sidecars
      /\ acked' = acked /\ retracted' = retracted
      /\ decay' = decay /\ rots' = rots
  BY DEF AppendStart, CheckCommittedTail, fileVars, repairVars, obsVars
<1>2. pending' \in Roots /\ pending' # <<>> /\ Extends(pending', lastRoot)
  BY <1>0, <1>1, AppendExtends
<1>3. TypeOK'
  BY <1>0, <1>1, <1>2 DEF TypeOK
<1>4. HandleOK'
  BY <1>0, <1>1, <1>2 DEF HandleOK, StageOK, InAppend, Applying
<1> QED
  BY <1>3, <1>4 DEF HandleIInv

(* The body follows the committed records.                                  *)
LEMMA BodyWriteStep ==
  ASSUME HandleIInv, BodyWrite
  PROVE  HandleIInv'
<1>0. TypeOK /\ HandleOK
  BY DEF HandleIInv
<1>1. PICK n \in 0 .. 2 :
           /\ file' \in Seq(Cells) /\ Len(file') = Len(file) + n
           /\ Len(file) = committedLen /\ committedLen = 4 * Len(lastRoot)
           /\ \A i \in 1 .. Len(file) : file'[i] = file[i]
           /\ n > 0 => file'[Len(file) + 1] = Header(pending)
           /\ n > 1 => file'[Len(file) + 2] = Payload(pending)
           /\ \A r \in Roots : Intact(file, r) => Intact(file', r)
           /\ phase' = "idle" \/ (n = 2 /\ phase' = "BodySync")
           /\ disk' = disk
  BY BodyWriteFacts
<1>2. /\ phase = "BodyWrite" /\ lastRoot' = lastRoot /\ committedLen' = committedLen
      /\ pending' = pending /\ plan' = plan /\ sidecars' = sidecars
      /\ acked' = acked /\ retracted' = retracted
      /\ decay' = decay /\ rots' = rots
  BY DEF BodyWrite, repairVars, obsVars
<1>3. TypeOK'
  BY <1>0, <1>1, <1>2 DEF TypeOK
<1>4. phase' = "BodySync" =>
        /\ Len(file') = committedLen + 2
        /\ file'[committedLen + 1] = Header(pending) /\ file'[committedLen + 2] = Payload(pending)
  BY <1>1
<1>5. lastRoot \in Roots /\ phase' \in {"idle", "BodySync"}
  BY <1>0, <1>1, Types
<1>6. HandleOK'
  BY <1>0, <1>1, <1>2, <1>4, <1>5 DEF HandleOK, StageOK, InAppend, Applying
<1> QED
  BY <1>3, <1>6 DEF HandleIInv

(* The synchronisation of the body, which may fail.                         *)
LEMMA BodySyncStep ==
  ASSUME HandleIInv, BodySync
  PROVE  HandleIInv'
<1>0. TypeOK /\ HandleOK
  BY DEF HandleIInv
<1>1. /\ phase = "BodySync" /\ lastRoot' = lastRoot /\ committedLen' = committedLen
      /\ pending' = pending /\ plan' = plan /\ sidecars' = sidecars
      /\ acked' = acked /\ retracted' = retracted /\ file' = file /\ disk' \in {disk, file}
      /\ decay' = decay /\ rots' = rots
      /\ phase' \in {"CommitWrite", "idle"} /\ (phase' = "CommitWrite" => disk' = file)
  BY DEF BodySync, repairVars, obsVars
<1>2. TypeOK'
  BY <1>0, <1>1 DEF TypeOK
<1>3. HandleOK'
  BY <1>0, <1>1 DEF HandleOK, StageOK, InAppend, Applying
<1> QED
  BY <1>2, <1>3 DEF HandleIInv

(* The trailer completes the record.                                        *)
LEMMA CommitWriteStep ==
  ASSUME HandleIInv, CommitWrite
  PROVE  HandleIInv'
<1>0. TypeOK /\ HandleOK
  BY DEF HandleIInv
<1>1. PICK n \in 0 .. 2 :
           /\ file' \in Seq(Cells) /\ Len(file') = Len(file) + n
           /\ Len(file) = committedLen + 2 /\ committedLen = 4 * Len(lastRoot)
           /\ \A i \in 1 .. Len(file) : file'[i] = file[i]
           /\ n > 1 => file'[4 * Len(lastRoot) + 4] = Root(pending) /\ Intact(file', pending)
           /\ \A r \in Roots : Intact(file, r) => Intact(file', r)
           /\ phase' = "idle" \/ (n = 2 /\ phase' = "CommitSync")
           /\ disk' = disk
  BY CommitWriteFacts
<1>2. /\ phase = "CommitWrite" /\ lastRoot' = lastRoot /\ committedLen' = committedLen
      /\ pending' = pending /\ plan' = plan /\ sidecars' = sidecars
      /\ acked' = acked /\ retracted' = retracted
      /\ decay' = decay /\ rots' = rots
  BY DEF CommitWrite, repairVars, obsVars
<1>3. TypeOK'
  BY <1>0, <1>1, <1>2 DEF TypeOK
<1>4. lastRoot \in Roots /\ phase' \in {"idle", "CommitSync"} /\ committedLen \in Nat
  BY <1>0, <1>1, Types
<1>5. phase' = "CommitSync" => Len(file') = committedLen + 4 /\ Intact(file', pending)
  BY <1>1, <1>4
<1>6. HandleOK'
  BY <1>0, <1>1, <1>2, <1>4, <1>5 DEF HandleOK, StageOK, InAppend, Applying
<1> QED
  BY <1>3, <1>6 DEF HandleIInv

(* commit_pending takes over a record that stands in the file.              *)
LEMMA CommitPendingStep ==
  ASSUME HandleIInv, CommitPending, phase # "closed", pending # <<>>, phase' = "idle",
         file' \in Seq(Cells), disk' \in Seq(Cells), Intact(file', pending),
         plan' = plan, sidecars' = sidecars
  PROVE  HandleIInv'
<1>0. TypeOK /\ HandleOK /\ Len(lastRoot) \in Nat /\ committedLen \in Nat /\ pending \in Roots
  BY Types DEF HandleIInv
<1>1. /\ lastRoot' = pending /\ committedLen' = committedLen + 4 /\ pending' = <<>>
      /\ acked' = pending /\ retracted' = retracted /\ decay' = {} /\ rots' = rots
  BY DEF CommitPending
<1>2. committedLen' = 4 * Len(pending) /\ committedLen' \in Nat
  BY <1>0, <1>1 DEF HandleOK, Extends
<1>3. TypeOK'
  BY <1>0, <1>1, <1>2, CellTypes DEF TypeOK
<1>4. HandleOK'
  BY <1>0, <1>1, <1>2 DEF HandleOK, StageOK, InAppend, Applying
<1> QED
  BY <1>3, <1>4 DEF HandleIInv

(* The synchronisation of the trailer: the append returns, or stays open.    *)
LEMMA CommitSyncStep ==
  ASSUME HandleIInv, CommitSync
  PROVE  HandleIInv'
<1>0. TypeOK /\ HandleOK /\ file \in Seq(Cells) /\ disk \in Seq(Cells)
  BY Types DEF HandleIInv
<1>1. phase = "CommitSync" /\ phase' = "idle" /\ file' = file /\ plan' = plan
      /\ sidecars' = sidecars /\ disk' \in {disk, file}
  BY DEF CommitSync, repairVars
<1>2. pending # <<>> /\ Intact(file, pending)
  BY <1>0, <1>1 DEF HandleOK, StageOK, InAppend
<1>3. CASE CommitPending
  BY <1>0, <1>1, <1>2, <1>3, CommitPendingStep
<1>4. CASE UNCHANGED <<lastRoot, committedLen, pending, obsVars>>
  <2>1. lastRoot' = lastRoot /\ committedLen' = committedLen /\ pending' = pending
        /\ acked' = acked /\ retracted' = retracted
        /\ decay' = decay /\ rots' = rots
    BY <1>4 DEF obsVars
  <2>2. TypeOK'
    BY <1>0, <1>1, <2>1 DEF TypeOK
  <2>3. HandleOK'
    BY <1>0, <1>1, <2>1 DEF HandleOK, StageOK, InAppend, Applying
  <2> QED
    BY <2>2, <2>3 DEF HandleIInv
<1> QED
  BY <1>3, <1>4 DEF CommitSync

(* A step that leaves the handle alone, and under an open handle every      *)
(* record that stands.                                                      *)
LEMMA OtherStep ==
  ASSUME HandleIInv, UNCHANGED handleVars, file' \in Seq(Cells), disk' \in Seq(Cells),
         phase # "closed" => \A r \in Roots : Intact(file, r) => Intact(file', r),
         InAppend => file' = file /\ disk' = disk,
         plan' \in [at : Nat, root : Roots, foreign : Seq(Cells),
                    step : {"none", "planned", "quarantined", "checked"}],
         Applying' => phase = "closed" /\ plan'.at <= Len(file'),
         sidecars' \in Nat, UNCHANGED obsVars
  PROVE  HandleIInv'
<1>0. TypeOK /\ HandleOK /\ lastRoot \in Roots
  BY Types DEF HandleIInv
<1>1. phase' = phase /\ lastRoot' = lastRoot /\ committedLen' = committedLen /\ pending' = pending
      /\ acked' = acked /\ retracted' = retracted
      /\ decay' = decay /\ rots' = rots
  BY DEF handleVars, obsVars
<1>2. TypeOK'
  BY <1>0, <1>1 DEF TypeOK
<1>3. StageOK'
  BY <1>0, <1>1 DEF HandleOK, StageOK, InAppend
<1>4. HandleOK'
  BY <1>0, <1>1, <1>3 DEF HandleOK, InAppend
<1> QED
  BY <1>2, <1>4 DEF HandleIInv

(* No plan, and a plan that was not applied yet.                            *)
LEMMA PlanTypes ==
  /\ NoPlan \in [at : Nat, root : Roots, foreign : Seq(Cells),
                 step : {"none", "planned", "quarantined", "checked"}]
  /\ NoPlan.step = "none" /\ NoPlan.at = 0
<1>1. <<>> \in Roots /\ <<>> \in Seq(Cells)
  BY DEF Roots
<1> QED
  BY <1>1 DEF NoPlan

(* What a repair reads of the file it plans for.                            *)
LEMMA TailFacts ==
  ASSUME NEW f \in Seq(Cells), NEW m \in 0 .. Len(f)
  PROVE  /\ Drop(f, m) \in Seq(Cells) /\ Len(Drop(f, m)) = Len(f) - m
         /\ \A i \in 1 .. Len(f) - m : Drop(f, m)[i] = f[m + i]
  BY DEF Drop

(* reconcile_pending.                                                       *)
LEMMA ReconcileStep ==
  ASSUME HandleIInv,
         \/ \E t \in BOOLEAN : ReconcileCommitted(t) \/ ReconcileNotCommitted(t)
         \/ ReconcileFails
  PROVE  HandleIInv'
<1>0. /\ TypeOK /\ HandleOK /\ file \in Seq(Cells) /\ disk \in Seq(Cells) /\ pending \in Roots
      /\ lastRoot \in Roots
  BY Types DEF HandleIInv
<1>1. phase = "idle" /\ pending # <<>>
  BY DEF ReconcileCommitted, ReconcileNotCommitted, ReconcileFails, Reconcilable
<1> DEFINE g == Take(file, CommittedCells(file))
<1>2. g \in Seq(Cells) /\ \A r \in Roots : Intact(g, r) <=> Intact(file, r)
  BY <1>0, CutCommitted
<1> HIDE DEF g
<1>3. ASSUME NEW t \in BOOLEAN, ReconcileCommitted(t)
      PROVE  HandleIInv'
  <2>1. /\ file' = g /\ disk' = g /\ CommitPending /\ phase' = phase
        /\ plan' = plan /\ sidecars' = sidecars /\ Recovered(file) = pending
    BY <1>3 DEF ReconcileCommitted, PendingIsWhole, repairVars, g
  <2>2. Intact(g, pending)
    BY <1>0, <1>2, <2>1, RecoveredFacts
  <2> QED
    BY <1>1, <1>2, <2>1, <2>2, CommitPendingStep
<1>4. ASSUME NEW t \in BOOLEAN, ReconcileNotCommitted(t)
      PROVE  HandleIInv'
  <2>1. /\ file' = g /\ disk' \in {disk, g} /\ phase' = phase /\ pending' = <<>>
        /\ lastRoot' = lastRoot /\ committedLen' = committedLen /\ acked' = acked
        /\ retracted' = retracted \cup {pending} /\ plan' = plan /\ sidecars' = sidecars
        /\ decay' = decay /\ rots' = rots
    BY <1>4 DEF ReconcileNotCommitted, PendingIsAbsent, repairVars, g
  <2>2. TypeOK'
    BY <1>0, <1>2, <2>1, CellTypes DEF TypeOK
  <2>3. HandleOK'
    BY <1>0, <1>1, <1>2, <2>1 DEF HandleOK, StageOK, InAppend, Applying
  <2> QED
    BY <2>2, <2>3 DEF HandleIInv
<1>5. CASE ReconcileFails
  <2>1. file' = g /\ disk' \in {disk, g} /\ UNCHANGED handleVars /\ UNCHANGED obsVars
        /\ plan' = plan /\ sidecars' = sidecars
    BY <1>5 DEF ReconcileFails, repairVars, g
  <2>2. ~InAppend /\ ~Applying /\ ~Applying'
    BY <1>0, <1>1, <2>1 DEF HandleOK, InAppend, Applying
  <2>3. plan' \in [at : Nat, root : Roots, foreign : Seq(Cells),
                   step : {"none", "planned", "quarantined", "checked"}]
        /\ sidecars' \in Nat
    BY <1>0, <2>1 DEF TypeOK
  <2> QED
    BY <1>0, <1>2, <2>1, <2>2, <2>3, OtherStep
<1> QED
  BY <1>3, <1>4, <1>5

(* The repair tool.                                                         *)
LEMMA RepairStep ==
  ASSUME HandleIInv, Repair
  PROVE  HandleIInv'
<1> DEFINE PT == [at : Nat, root : Roots, foreign : Seq(Cells),
                  step : {"none", "planned", "quarantined", "checked"}]
<1>0. /\ TypeOK /\ HandleOK /\ file \in Seq(Cells) /\ disk \in Seq(Cells) /\ plan \in PT
      /\ sidecars \in Nat /\ plan.at \in Nat /\ plan.foreign \in Seq(Cells)
      /\ Len(file) \in Nat
  BY Types DEF HandleIInv, TypeOK
<1>1. ASSUME UNCHANGED fileVars, UNCHANGED handleVars, UNCHANGED obsVars, plan' \in PT,
             sidecars' \in Nat, Applying' => phase = "closed" /\ plan'.at <= Len(file')
      PROVE  HandleIInv'
  <2>1. file' = file /\ disk' = disk
    BY <1>1 DEF fileVars
  <2> QED
    BY <1>0, <1>1, <2>1, OtherStep
<1>2. CASE Plan
  <2>1. Recovered(file) \in Roots /\ CommittedCells(file) \in 0 .. Len(file)
    <3>1. Recovered(file) \in Roots /\ CommittedCells(file) = 4 * Len(Recovered(file))
          /\ CommittedCells(file) <= Len(file)
      BY <1>0, RecoveredFacts
    <3> QED
      BY <1>0, <3>1 DEF Roots
  <2>2. TailCells(file) \in Seq(Cells)
    BY <1>0, <2>1, TailFacts DEF TailCells
  <2>3. plan' \in PT /\ plan'.step = "planned"
    BY <1>2, <2>1, <2>2 DEF Plan
  <2> QED
    BY <1>0, <1>1, <1>2, <2>3 DEF Plan, Applying
<1>3. CASE ApplyQuarantine
  <2>1. plan' \in PT /\ plan'.at = plan.at /\ phase = "closed"
    BY <1>0, <1>3 DEF ApplyQuarantine
  <2>2. Len(file) = plan.at + Len(plan.foreign)
    BY <1>3 DEF ApplyQuarantine, PlanMatches
  <2>3. plan.at <= Len(file)
    BY <1>0, <2>2
  <2>4. sidecars' \in Nat
    BY <1>0, <1>3 DEF ApplyQuarantine
  <2>5. file' = file
    BY <1>3 DEF ApplyQuarantine, fileVars
  <2> QED
    BY <1>1, <1>3, <2>1, <2>3, <2>4, <2>5 DEF ApplyQuarantine
<1>4. CASE ApplyRecheck
  <2>1. plan' \in PT /\ plan'.at = plan.at /\ Applying
    BY <1>0, <1>4 DEF ApplyRecheck, Applying
  <2>2. phase = "closed" /\ plan.at <= Len(file)
    BY <1>0, <2>1 DEF HandleOK
  <2>3. file' = file
    BY <1>4 DEF ApplyRecheck, fileVars
  <2> QED
    BY <1>0, <1>1, <1>4, <2>1, <2>2, <2>3 DEF ApplyRecheck
<1>5. CASE ApplyTruncate
  <2>1. phase = "closed" /\ plan.at <= Len(file)
    BY <1>0, <1>5 DEF HandleOK, ApplyTruncate, Applying
  <2>2. plan.at \in 0 .. Len(file)
    BY <1>0, <2>1
  <2>3. Take(file, plan.at) \in Seq(Cells)
    BY <1>0, <2>2, CutFacts
  <2>4. file' \in Seq(Cells) /\ disk' \in Seq(Cells)
    BY <1>0, <1>5, <2>3 DEF ApplyTruncate
  <2>5. plan' \in PT /\ ~Applying'
    BY <1>5, PlanTypes DEF ApplyTruncate, Applying
  <2>6. ~InAppend
    BY <2>1 DEF InAppend
  <2> QED
    BY <1>0, <1>5, <2>1, <2>4, <2>5, <2>6, OtherStep DEF ApplyTruncate
<1>6. CASE ApplyRefused
  <2>1. plan' \in PT /\ ~Applying'
    BY <1>6, PlanTypes DEF ApplyRefused, Applying
  <2> QED
    BY <1>0, <1>1, <1>6, <2>1 DEF ApplyRefused
<1> QED
  BY <1>2, <1>3, <1>4, <1>5, <1>6 DEF Repair

(* The record a cell is in.                                                 *)
LEMMA RecordOfCellFacts ==
  ASSUME NEW i \in Nat, i > 0
  PROVE  RecordOfCell(i) \in Nat /\ \A k \in Nat : RecordOfCell(i) > k => i > 4 * k
<1> DEFINE n == (i + 3) \div 4
<1>1. n \in Nat /\ 4 * n <= i + 3
  OBVIOUS
<1> HIDE DEF n
<1>2. \A k \in Nat : n > k => i > 4 * k
  BY <1>1
<1> QED
  BY <1>1, <1>2 DEF RecordOfCell, n

(* Cell i decays to c, which is recorded if an acknowledged record lost it. *)
RotsTo(i, c, tag) ==
  /\ file' = [file EXCEPT ![i] = c]
  /\ tag = "junk" => c = Junk
  /\ decay' = IF i <= 4 * Len(acked) THEN decay \cup {<<RecordOfCell(i), tag>>} ELSE decay

LEMMA RotFacts ==
  ASSUME TypeOK, Rot
  PROVE  \E i \in 1 .. Len(file), c \in Cells, tag \in {"junk", "long"} : RotsTo(i, c, tag)
<1>1. file \in Seq(Cells) /\ Len(file) \in Nat /\ Len(acked) \in Nat /\ CommittedCells(file) \in Nat
  <2>1. CommittedCells(file) = 4 * CommittedRecords(file) /\ CommittedRecords(file) \in Nat
    BY Types, RecoveredFacts DEF CommittedCells
  <2> QED
    BY <2>1, Types
<1> DEFINE S == {CommittedCells(file), 4 * Len(acked)}
           U == {Len(file), Max(S)}
<1>2. Max(S) \in Nat
  <2>1. \E x \in S : \A y \in S : x >= y
    BY <1>1
  <2>2. Max(S) \in S
    BY <2>1 DEF Max
  <2> QED
    BY <1>1, <2>2
<1>3. Min(U) \in Nat /\ Min(U) <= Len(file)
  <2> DEFINE m == Max(S)
  <2>0. m \in Nat
    BY <1>2
  <2> HIDE DEF m
  <2>1. \E x \in {Len(file), m} : \A y \in {Len(file), m} : x <= y
    BY <1>1, <2>0
  <2>2. Min({Len(file), m}) \in {Len(file), m} /\ \A y \in {Len(file), m} : Min({Len(file), m}) <= y
    BY <2>1 DEF Min
  <2>3. Min({Len(file), m}) \in Nat /\ Min({Len(file), m}) <= Len(file)
    BY <1>1, <2>0, <2>2
  <2> QED
    BY <2>3 DEF m
<1>4. StoredCells = 1 .. Min(U)
  BY DEF StoredCells
<1> HIDE DEF U
<1>5. StoredCells \subseteq 1 .. Len(file)
  BY <1>1, <1>3, <1>4
<1>6. PICK i \in StoredCells, tag \in {"junk", "long"} :
        /\ file' = [file EXCEPT ![i] = IF tag = "long" THEN Long(@[2]) ELSE Junk]
        /\ decay' = IF i <= 4 * Len(acked) THEN decay \cup {<<RecordOfCell(i), tag>>} ELSE decay
  BY DEF Rot
<1> DEFINE c == IF tag = "long" THEN Long(file[i][2]) ELSE Junk
<1>7. i \in 1 .. Len(file) /\ file[i][2] \in Roots
  BY <1>1, <1>5, CellFacts
<1>8. c \in Cells
  BY <1>7, CellTypes DEF Long, Cells
<1>9. file' = [file EXCEPT ![i] = c]
  BY <1>6
<1>10. RotsTo(i, c, tag)
  BY <1>6, <1>9 DEF RotsTo
<1> HIDE DEF c
<1> QED
  BY <1>7, <1>8, <1>10

(* Crashes, foreign bytes and decay.                                        *)
LEMMA EnvironmentStep ==
  ASSUME HandleIInv, Environment
  PROVE  HandleIInv'
<1> DEFINE PT == [at : Nat, root : Roots, foreign : Seq(Cells),
                  step : {"none", "planned", "quarantined", "checked"}]
<1>0. /\ TypeOK /\ HandleOK /\ file \in Seq(Cells) /\ disk \in Seq(Cells) /\ plan \in PT
      /\ sidecars \in Nat /\ acked \in Roots /\ retracted \subseteq Roots
      /\ Len(file) \in Nat /\ plan.at \in Nat
  BY Types DEF HandleIInv, TypeOK
<1>1. CASE ProcessDeath
  <2>1. /\ file' = file /\ disk' = disk /\ phase' = "closed" /\ lastRoot' = <<>>
        /\ committedLen' = 0 /\ pending' = <<>> /\ plan' = plan /\ sidecars' = sidecars
        /\ acked' = acked /\ retracted' = retracted /\ phase # "closed"
        /\ decay' = decay /\ rots' = rots
    BY <1>1 DEF ProcessDeath, fileVars, repairVars, obsVars
  <2>2. ~Applying'
    BY <1>0, <2>1 DEF HandleOK, Applying
  <2> QED
    BY <1>0, <2>1, <2>2, CellTypes, ClosedStep
<1>2. CASE PowerLoss
  <2>1. /\ file' \in Seq(Cells) /\ disk' = file'
        /\ phase' = "closed" /\ lastRoot' = <<>> /\ committedLen' = 0 /\ pending' = <<>>
        /\ plan' = NoPlan /\ sidecars' = sidecars /\ acked' = acked /\ retracted' = retracted
        /\ decay' = decay /\ rots' = rots
    BY <1>0, <1>2, LossFacts
  <2>2. ~Applying' /\ plan' \in PT
    BY <2>1, PlanTypes DEF Applying
  <2> QED
    BY <1>0, <2>1, <2>2, CellTypes, ClosedStep
<1>3. CASE ForeignAppend
  <2>1. /\ file' = Append(file, Junk) /\ disk' = disk /\ UNCHANGED handleVars /\ UNCHANGED obsVars
        /\ plan' = plan /\ sidecars' = sidecars /\ ~InAppend
    BY <1>3 DEF ForeignAppend, repairVars
  <2>2. /\ file' \in Seq(Cells) /\ Len(file') = Len(file) + 1
        /\ \A r \in Roots : Intact(file, r) => Intact(file', r)
    BY <1>0, <2>1, AppendJunk
  <2>3. Applying' => phase = "closed" /\ plan.at <= Len(file)
    BY <1>0, <2>1 DEF HandleOK, Applying
  <2>4. Applying' => phase = "closed" /\ plan'.at <= Len(file')
    BY <1>0, <2>1, <2>2, <2>3
  <2> QED
    BY <1>0, <2>1, <2>2, <2>4, OtherStep
<1>4. CASE Rot
  <2>1. PICK i \in 1 .. Len(file), c \in Cells, tag \in {"junk", "long"} : RotsTo(i, c, tag)
    BY <1>0, <1>4, RotFacts
  <2>2. file' \in Seq(Cells) /\ Len(file') = Len(file)
    BY <1>0, <2>1 DEF RotsTo
  <2>3. /\ disk' = file' /\ UNCHANGED handleVars
        /\ plan' = plan /\ sidecars' = sidecars /\ phase = "closed"
        /\ acked' = acked /\ retracted' = retracted /\ rots' = rots + 1
    BY <1>4 DEF Rot, repairVars
  <2>4. phase' = "closed" /\ pending' = <<>> /\ lastRoot' \in Roots /\ committedLen' \in Nat
    BY <1>0, <2>3 DEF handleVars, HandleOK, TypeOK
  <2>5. Applying' => plan'.at <= Len(file')
    BY <1>0, <2>2, <2>3 DEF HandleOK, Applying
  <2>6. decay' \subseteq Nat \X {"long", "junk"} /\ rots' \in Nat
    BY <1>0, <2>1, <2>3, RecordOfCellFacts DEF RotsTo, TypeOK
  <2> QED
    BY <1>0, <2>2, <2>3, <2>4, <2>5, <2>6, ClosedStep
<1> QED
  BY <1>1, <1>2, <1>3, <1>4 DEF Environment

(* Every step keeps the handle's invariant.                                 *)
LEMMA HandleStep ==
  ASSUME HandleIInv, [Next]_vars
  PROVE  HandleIInv'
<1> DEFINE PT == [at : Nat, root : Roots, foreign : Seq(Cells),
                  step : {"none", "planned", "quarantined", "checked"}]
<1>0. /\ TypeOK /\ HandleOK /\ file \in Seq(Cells) /\ disk \in Seq(Cells) /\ plan \in PT
      /\ sidecars \in Nat
  BY Types DEF HandleIInv, TypeOK
<1>1. CASE \E t \in BOOLEAN : Open(t)
  BY <1>1, OpenStep
<1>2. CASE OpenSyncFails
  <2>1. /\ file' = Take(file, CommittedCells(file)) /\ disk' = disk /\ UNCHANGED handleVars
        /\ UNCHANGED obsVars /\ plan' = plan /\ sidecars' = sidecars
        /\ phase = "closed" /\ ~Applying
    BY <1>2 DEF OpenSyncFails, repairVars
  <2>2. file' \in Seq(Cells) /\ ~InAppend /\ ~Applying'
    BY <1>0, <2>1, CutCommitted DEF InAppend, Applying
  <2> QED
    BY <1>0, <2>1, <2>2, OtherStep
<1>3. CASE AppendFresh
  BY <1>3, AppendStep DEF AppendFresh
<1>4. CASE BodyWrite \/ BodySync \/ CommitWrite \/ CommitSync
  BY <1>4, BodyWriteStep, BodySyncStep, CommitWriteStep, CommitSyncStep
<1>5. CASE \/ \E t \in BOOLEAN : ReconcileCommitted(t) \/ ReconcileNotCommitted(t)
           \/ ReconcileFails
  BY <1>5, ReconcileStep
<1>6. CASE Verify
  <2>1. /\ file' = file /\ disk' = file /\ UNCHANGED handleVars
        /\ UNCHANGED obsVars /\ plan' = plan /\ sidecars' = sidecars /\ phase = "idle"
    BY <1>6 DEF Verify, repairVars
  <2>2. ~InAppend /\ ~Applying'
    BY <1>0, <2>1 DEF HandleOK, InAppend, Applying
  <2> QED
    BY <1>0, <2>1, <2>2, OtherStep
<1>7. CASE UNCHANGED vars
  <2>1. /\ file' = file /\ disk' = disk /\ UNCHANGED handleVars
        /\ UNCHANGED obsVars /\ plan' = plan /\ sidecars' = sidecars
    BY <1>7 DEF vars, fileVars, repairVars
  <2>2. Applying' => phase = "closed" /\ plan'.at <= Len(file')
    BY <1>0, <2>1 DEF HandleOK, Applying
  <2> QED
    BY <1>0, <2>1, <2>2, OtherStep
<1> QED
  BY <1>1, <1>2, <1>3, <1>4, <1>5, <1>6, <1>7, RepairStep, EnvironmentStep DEF Next, Handle

(* An empty file.                                                           *)
LEMMA IntactEmpty ==
  Intact(<<>>, <<>>) /\ Recovered(<<>>) = <<>>
<1>1. <<>> \in Roots /\ <<>> \in Seq(Cells) /\ Len(<<>>) = 0
  BY DEF Roots
<1>2. Intact(<<>>, <<>>)
  BY <1>1 DEF Intact
<1>3. Recovered(<<>>) = <<>>
  <2>1. Len(<<>>) < 4 * Len(<<>>) + 4
    BY <1>1
  <2> QED
    BY <1>1, <1>2, <2>1, RecoveredIs
<1> QED
  BY <1>2, <1>3

(* Under every interleaving of crashes, failed synchronisations, foreign    *)
(* bytes, decay and repairs the handle's last_root stands in the file       *)
(* record by record, committed_len is its length in cells, and an append in *)
(* flight adds one record behind it.                                        *)
THEOREM HandleInvariance == Spec => []HandleIInv
<1>1. Init => HandleIInv
  <2> SUFFICES ASSUME Init PROVE HandleIInv
    OBVIOUS
  <2>1. <<>> \in Roots /\ <<>> \in Seq(Cells)
    BY DEF Roots
  <2>2. TypeOK
    BY <2>1, PlanTypes DEF Init, TypeOK
  <2>3. HandleOK
    BY PlanTypes DEF Init, HandleOK, StageOK, InAppend, Applying
  <2> QED
    BY <2>2, <2>3 DEF HandleIInv
<1>2. HandleIInv /\ [Next]_vars => HandleIInv'
  BY HandleStep
<1> QED
  BY <1>1, <1>2, PTL DEF Spec

(* Journal::append relies on it: an idle handle without an unresolved       *)
(* append describes a prefix of what recover_bytes reads.                   *)
THEOREM HandleSafe == Spec => []HandleInv
<1>1. HandleIInv => HandleInv
  <2> SUFFICES ASSUME HandleIInv PROVE HandleInv
    OBVIOUS
  <2>1. TypeOK /\ HandleOK /\ file \in Seq(Cells) /\ lastRoot \in Roots
    BY Types DEF HandleIInv
  <2>2. phase = "idle" => IsPrefix(lastRoot, Recovered(file)) /\ committedLen = 4 * Len(lastRoot)
    BY <2>1, IntactRecovered DEF HandleOK
  <2> QED
    BY <2>1, <2>2 DEF HandleInv, HandleAgreesWithFile
<1> QED
  BY <1>1, HandleInvariance, PTL

(* A plan that still matches a file, and whose tail holds no whole record,  *)
(* cuts where recovery stops, even if it was made for an earlier file.      *)
LEMMA PlanIsExact ==
  ASSUME TypeOK, PlanMatches, PrefixMatches, ~HoldsRecord(plan.foreign)
  PROVE  plan.at = CommittedCells(file)
<1>0. /\ file \in Seq(Cells) /\ Len(file) \in Nat /\ plan.at \in Nat /\ plan.foreign \in Seq(Cells)
  BY Types
<1> DEFINE P == Take(file, plan.at)
           p == Recovered(P)
           R == Recovered(file)
           t == plan.foreign
<1>1. Len(file) = plan.at + Len(t) /\ Drop(file, plan.at) = t /\ Len(t) \in Nat
  BY <1>0 DEF PlanMatches
<1>2. plan.at \in 0 .. Len(file)
  BY <1>0, <1>1
<1>3. /\ P \in Seq(Cells) /\ Len(P) = plan.at
      /\ \A r \in Roots : Intact(P, r) <=> Intact(file, r) /\ 4 * Len(r) <= plan.at
  BY <1>0, <1>2, CutFacts
<1>4. \A i \in 1 .. Len(t) : t[i] = file[plan.at + i]
  <2> DEFINE D == Drop(file, plan.at)
  <2>1. D = t /\ Len(t) = Len(file) - plan.at
    BY <1>0, <1>1
  <2>2. \A i \in 1 .. Len(file) - plan.at : D[i] = file[plan.at + i]
    BY <1>0, <1>2, TailFacts
  <2> HIDE DEF D, t
  <2> QED
    BY <2>1, <2>2
<1>5. p \in Roots /\ Intact(P, p) /\ plan.at = 4 * Len(p)
  BY <1>3, RecoveredFacts DEF PrefixMatches, CleanTail
<1>6. R \in Roots /\ Intact(file, R) /\ CommittedCells(file) = 4 * Len(R) /\ 4 * Len(R) <= Len(file)
  BY <1>0, RecoveredFacts
<1> HIDE DEF P, p, R, t
<1>7. Len(p) <= Len(R)
  BY <1>0, <1>3, <1>5, IntactRecovered DEF R
<1>8. Len(p) \in Nat /\ Len(R) \in Nat
  BY <1>5, <1>6 DEF Roots
<1>9. ~(Len(p) < Len(R))
  <2> SUFFICES ASSUME Len(p) < Len(R) PROVE FALSE
    OBVIOUS
  <2> DEFINE k == Len(p) + 1
             q == Take(R, k)
  <2>1. k \in 1 .. Len(R) /\ k \in 0 .. Len(R) /\ k > 0
    BY <1>8
  <2>2. RecordIs(file, k, q) /\ q \in Roots /\ q # <<>>
    BY <1>6, <2>1, TakeFacts DEF Intact
  <2>3. /\ 4 * k - 3 = plan.at + 1 /\ 4 * k - 2 = plan.at + 2 /\ 4 * k - 1 = plan.at + 3
        /\ 4 * k = plan.at + 4 /\ Len(t) >= 4
    BY <1>0, <1>1, <1>5, <1>6, <1>8, <2>1
  <2> HIDE DEF k, q
  <2>4. 1 \in 1 .. Len(t) /\ 2 \in 1 .. Len(t) /\ 3 \in 1 .. Len(t) /\ 4 \in 1 .. Len(t)
        /\ 1 \in 1 .. Len(t) - 3
    BY <1>1, <2>3
  <2>5. t[1] = Header(q) /\ t[2] = Payload(q) /\ t[3] = Magic /\ t[4] = Root(q)
    BY <1>4, <2>2, <2>3, <2>4 DEF RecordIs
  <2> DEFINE s == SubSeq(t, 2, 4)
  <2>6. s \in Seq(Cells) /\ Len(s) = 3 /\ s[1] = t[2] /\ s[2] = t[3] /\ s[3] = t[4]
    BY <1>0, <2>4 DEF t
  <2> HIDE DEF s
  <2>7. s = <<Payload(q)>> \o Trailer(q)
    BY <2>5, <2>6, ThreeCells
  <2>8. t[1][1] = "header" /\ t[1][2] = q
    BY <2>5 DEF Header
  <2>9. SubSeq(t, 1 + 1, 1 + 3) = s
    BY DEF s
  <2>10. HoldsRecord(t)
    BY <2>2, <2>4, <2>7, <2>8, <2>9 DEF HoldsRecord
  <2> QED
    BY <2>10 DEF t
<1> QED
  BY <1>5, <1>6, <1>7, <1>8, <1>9

-----------------------------------------------------------------------------
(* Decay.                                                                   *)

(* The records of root r start the file, but for cells that decayed.        *)
Decayed(f, r) ==
  /\ 4 * Len(r) <= Len(f)
  /\ \A k \in 1 .. Len(r) :
       /\ f[4 * k - 3] \in {Junk, Header(Take(r, k))} /\ f[4 * k - 2] \in {Junk, Payload(Take(r, k))}
       /\ f[4 * k - 1] \in {Junk, Magic}              /\ f[4 * k] \in {Junk, Root(Take(r, k))}

(* What an open handle serves, file and disk hold, and a repair keeps of    *)
(* the acknowledged records before the first that decay hit; and what there *)
(* is of those before the first whose payload_len it hit.                   *)
Whole(k) ==
  /\ Intact(file, Take(acked, k)) /\ Intact(disk, Take(acked, k))
  /\ phase # "closed" => IsPrefix(Take(acked, k), lastRoot)
  /\ Applying => 4 * k <= plan.at

Spared(k) ==
  /\ Decayed(file, Take(acked, k)) /\ Decayed(disk, Take(acked, k))
  /\ phase # "closed" => IsPrefix(Take(acked, k), lastRoot)

KeepOK ==
  /\ Applying => sidecars # 0
  /\ \A k \in 0 .. Len(acked) :
       /\ Unhit(k) => Whole(k)
       /\ sidecars = 0 /\ LengthsUnhit(k) => Spared(k)

(* Cells that stay, decay, or come back from an earlier version.            *)
LEMMA DecayedMix ==
  ASSUME NEW f, NEW d, NEW g, NEW r \in Roots, Decayed(f, r), Decayed(d, r), 4 * Len(r) <= Len(g),
         \A i \in 1 .. 4 * Len(r) : g[i] = Junk \/ g[i] = f[i] \/ g[i] = d[i]
  PROVE  Decayed(g, r)
<1>1. Len(r) \in Nat
  BY DEF Roots
<1>2. ASSUME NEW k \in 1 .. Len(r)
      PROVE  /\ g[4 * k - 3] \in {Junk, Header(Take(r, k))} /\ g[4 * k - 2] \in {Junk, Payload(Take(r, k))}
             /\ g[4 * k - 1] \in {Junk, Magic}              /\ g[4 * k] \in {Junk, Root(Take(r, k))}
  <2>1. 4 * k - 3 \in 1 .. 4 * Len(r) /\ 4 * k - 2 \in 1 .. 4 * Len(r)
        /\ 4 * k - 1 \in 1 .. 4 * Len(r) /\ 4 * k \in 1 .. 4 * Len(r)
    BY <1>1
  <2> DEFINE a == 4 * k - 3
             b == 4 * k - 2
             c == 4 * k - 1
             e == 4 * k
  <2>2. /\ f[a] \in {Junk, Header(Take(r, k))} /\ f[b] \in {Junk, Payload(Take(r, k))}
        /\ f[c] \in {Junk, Magic} /\ f[e] \in {Junk, Root(Take(r, k))}
    BY DEF Decayed
  <2>3. /\ d[a] \in {Junk, Header(Take(r, k))} /\ d[b] \in {Junk, Payload(Take(r, k))}
        /\ d[c] \in {Junk, Magic} /\ d[e] \in {Junk, Root(Take(r, k))}
    BY DEF Decayed
  <2>4. /\ g[a] = Junk \/ g[a] = f[a] \/ g[a] = d[a]
        /\ g[b] = Junk \/ g[b] = f[b] \/ g[b] = d[b]
        /\ g[c] = Junk \/ g[c] = f[c] \/ g[c] = d[c]
        /\ g[e] = Junk \/ g[e] = f[e] \/ g[e] = d[e]
    BY <2>1
  <2> HIDE DEF a, b, c, e
  <2>5. /\ g[a] \in {Junk, Header(Take(r, k))} /\ g[b] \in {Junk, Payload(Take(r, k))}
        /\ g[c] \in {Junk, Magic} /\ g[e] \in {Junk, Root(Take(r, k))}
    BY <2>2, <2>3, <2>4
  <2> QED
    BY <2>5 DEF a, b, c, e
<1> QED
  BY <1>2 DEF Decayed

(* A root that stands is decayed at most.                                   *)
LEMMA IntactDecayed ==
  ASSUME NEW f, NEW r \in Roots, Intact(f, r)
  PROVE  Decayed(f, r)
  BY DEF Intact, Decayed, RecordIs

(* A file that recovery does not refuse holds every root it was written     *)
(* with: short of a decayed length, a decayed record leaves a tail that     *)
(* does not look torn.                                                      *)
LEMMA DecayedRefused ==
  ASSUME NEW f \in Seq(Cells), NEW r \in Roots, Decayed(f, r), ~ForeignTail(f)
  PROVE  Intact(f, r) /\ IsPrefix(r, Recovered(f)) /\ Len(r) <= Len(Recovered(f))
<1> DEFINE R == Recovered(f)
           n == CommittedRecords(f)
<1>1. /\ R \in Roots /\ Len(R) = n /\ n \in Nat /\ CommittedCells(f) = 4 * n
      /\ Intact(f, R)
  BY RecoveredFacts
<1>2. Len(f) = 4 * n \/ Len(f) < 4 * (n + 1) \/ f[4 * (n + 1) - 3][1] = "long"
  BY <1>1 DEF ForeignTail, CleanTail, IncompleteTail, Continues
<1> HIDE DEF R, n
<1>3. Len(r) \in Nat /\ Len(f) \in Nat /\ 4 * Len(r) <= Len(f)
  BY DEF Roots, Decayed
<1>4. Len(r) <= n
  <2> SUFFICES ASSUME n + 1 <= Len(r) PROVE FALSE
    BY <1>1, <1>3
  <2>1. n + 1 \in 1 .. Len(r)
    BY <1>1, <1>3
  <2>2. f[4 * (n + 1) - 3] \in {Junk, Header(Take(r, n + 1))}
    BY <2>1 DEF Decayed
  <2>3. f[4 * (n + 1) - 3][1] # "long"
    BY <2>2 DEF Junk, Header
  <2> QED
    BY <1>1, <1>2, <1>3, <2>3
<1>5. r = Take(R, Len(r))
  <2>1. CASE Len(r) = 0
    <3>1. 0 \in 0 .. Len(R)
      BY <1>1
    <3> QED
      BY <1>1, <2>1, <3>1, TakeFacts DEF Roots
  <2>2. CASE Len(r) # 0
    <3>1. Len(r) \in 1 .. Len(R) /\ Len(r) \in 1 .. Len(r)
      BY <1>1, <1>3, <1>4, <2>2
    <3>2. f[4 * Len(r)] = Root(Take(R, Len(r)))
      BY <1>1, <3>1 DEF Intact, RecordIs
    <3>3. f[4 * Len(r)] \in {Junk, Root(Take(r, Len(r)))}
      BY <3>1 DEF Decayed
    <3>4. Take(r, Len(r)) = r
      BY <1>3, TakeFacts
    <3> QED
      BY <3>2, <3>3, <3>4 DEF Root, Junk
  <2> QED
    BY <2>1, <2>2
<1> QED
  BY <1>1, <1>4, <1>5, IntactRecovered DEF R

(* The beginning of a root is a prefix of it.                               *)
LEMMA PrefixTake ==
  ASSUME NEW r \in Roots, NEW k \in 0 .. Len(r)
  PROVE  IsPrefix(Take(r, k), r)
<1>1. Len(r) \in Nat /\ Take(r, k) \in Roots /\ Len(Take(r, k)) = k
  BY TakeFacts DEF Roots
<1> QED
  BY <1>1 DEF IsPrefix, Take

LEMMA PrefixSelf ==
  ASSUME NEW r \in Roots
  PROVE  IsPrefix(r, r)
<1>1. Len(r) \in 0 .. Len(r) /\ Take(r, Len(r)) = r
  BY TakeFacts DEF Roots
<1> QED
  BY <1>1, PrefixTake

(* A cut where recovery stopped, over a file it accepts, keeps what stands  *)
(* and what decayed alike.                                                  *)
LEMMA DecayedCut ==
  ASSUME NEW f \in Seq(Cells), ~ForeignTail(f), NEW r \in Roots, Decayed(f, r)
  PROVE  Decayed(Take(f, CommittedCells(f)), r) /\ IsPrefix(r, Recovered(f))
<1>1. Intact(f, r) /\ IsPrefix(r, Recovered(f))
  BY DecayedRefused
<1>2. Intact(Take(f, CommittedCells(f)), r)
  BY <1>1, CutCommitted
<1> QED
  BY <1>1, <1>2, IntactDecayed

(* A file that grows at its end.                                            *)
LEMMA DecayedGrow ==
  ASSUME NEW f \in Seq(Cells), NEW g \in Seq(Cells), NEW r \in Roots, Decayed(f, r), Len(f) <= Len(g),
         \A i \in 1 .. Len(f) : g[i] = f[i]
  PROVE  Decayed(g, r)
<1>1. Len(r) \in Nat /\ Len(f) \in Nat /\ Len(g) \in Nat /\ 4 * Len(r) <= Len(f)
  BY DEF Decayed, Roots
<1>2. 4 * Len(r) <= Len(g) /\ \A i \in 1 .. 4 * Len(r) : g[i] = f[i]
  BY <1>1
<1> QED
  BY <1>1, <1>2, DecayedMix

LEMMA IntactGrow ==
  ASSUME NEW f \in Seq(Cells), NEW g \in Seq(Cells), NEW r \in Roots, Intact(f, r), Len(f) <= Len(g),
         \A i \in 1 .. Len(f) : g[i] = f[i]
  PROVE  Intact(g, r)
<1>1. Len(r) \in Nat /\ Len(f) \in Nat /\ Len(g) \in Nat /\ 4 * Len(r) <= Len(f)
  BY DEF Intact, Roots
<1>2. 4 * Len(r) <= Len(g) /\ \A i \in 1 .. 4 * Len(r) : g[i] = f[i]
  BY <1>1
<1> QED
  BY <1>1, <1>2, IntactSame

(* A power loss takes nothing of what both file and disk hold, and adds no  *)
(* decayed length.                                                          *)
LEMMA LossKeeps ==
  ASSUME NEW f \in Seq(Cells), NEW d \in Seq(Cells), NEW g \in Seq(Cells), Mixed(f, d, g),
         NEW r \in Roots
  PROVE  /\ Intact(f, r) /\ Intact(d, r) => Intact(g, r)
         /\ Decayed(f, r) /\ Decayed(d, r) => Decayed(g, r)
<1>1. Len(r) \in Nat /\ Len(f) \in Nat /\ Len(d) \in Nat /\ Len(g) \in Nat
  BY DEF Roots
<1>2. ASSUME 4 * Len(r) <= Len(f), 4 * Len(r) <= Len(d)
      PROVE  /\ 4 * Len(r) <= Len(g)
             /\ \A i \in 1 .. 4 * Len(r) : i \in 1 .. Len(g) /\ i <= Len(f) /\ i <= Len(d)
  <2>1. 4 * Len(r) <= Len(g)
    BY <1>1, <1>2 DEF Mixed
  <2> QED
    BY <1>1, <1>2, <2>1
<1>3. ASSUME Intact(f, r), Intact(d, r)
      PROVE  Intact(g, r)
  <2>1. 4 * Len(r) <= Len(f) /\ 4 * Len(r) <= Len(d)
    BY <1>3 DEF Intact
  <2>2. ASSUME NEW i \in 1 .. 4 * Len(r)
        PROVE  f[i] = d[i]
    BY <1>3, IntactEqual
  <2>3. \A i \in 1 .. 4 * Len(r) : g[i] = f[i]
    BY <1>2, <2>1, <2>2 DEF Mixed
  <2> QED
    BY <1>1, <1>2, <1>3, <2>1, <2>3, IntactSame
<1>4. ASSUME Decayed(f, r), Decayed(d, r)
      PROVE  Decayed(g, r)
  <2>1. 4 * Len(r) <= Len(f) /\ 4 * Len(r) <= Len(d)
    BY <1>4 DEF Decayed
  <2>2. \A i \in 1 .. 4 * Len(r) : g[i] = Junk \/ g[i] = f[i] \/ g[i] = d[i]
    BY <1>2, <2>1 DEF Mixed
  <2> QED
    BY <1>2, <1>4, <2>1, <2>2, DecayedMix
<1> QED
  BY <1>3, <1>4

(* A step that neither repairs nor acknowledges nor decays, in terms of     *)
(* what it does to each root.                                               *)
LEMMA KeepQuiet ==
  ASSUME KeepOK, acked \in Roots, ~Applying', sidecars' = sidecars, acked' = acked, decay' = decay,
         \A r \in Roots : Intact(file, r) /\ Intact(disk, r) => Intact(file', r) /\ Intact(disk', r),
         \A r \in Roots : Decayed(file, r) /\ Decayed(disk, r) => Decayed(file', r) /\ Decayed(disk', r),
         \/ phase' = "closed"
         \/ phase # "closed" /\ lastRoot' = lastRoot
         \/ \A r \in Roots : Intact(file, r) \/ Decayed(file, r) => IsPrefix(r, lastRoot')
  PROVE  KeepOK'
<1>1. ASSUME NEW k \in 0 .. Len(acked)
      PROVE  /\ Unhit(k) => Whole(k)'
             /\ sidecars = 0 /\ LengthsUnhit(k) => Spared(k)'
  <2>1. Take(acked, k) \in Roots
    BY TakeFacts
  <2>2. ASSUME Unhit(k)
        PROVE  Whole(k)'
    <3>1. Whole(k)
      BY <2>2 DEF KeepOK
    <3>2. phase' # "closed" => IsPrefix(Take(acked, k), lastRoot')
      BY <2>1, <3>1 DEF Whole
    <3> QED
      BY <2>1, <3>1, <3>2 DEF Whole
  <2>3. ASSUME sidecars = 0, LengthsUnhit(k)
        PROVE  Spared(k)'
    <3>1. Spared(k)
      BY <2>3 DEF KeepOK
    <3>2. phase' # "closed" => IsPrefix(Take(acked, k), lastRoot')
      BY <2>1, <3>1 DEF Spared
    <3> QED
      BY <2>1, <3>1, <3>2 DEF Spared
  <2> QED
    BY <2>2, <2>3
<1>2. \A k : (Unhit(k)' <=> Unhit(k)) /\ (LengthsUnhit(k)' <=> LengthsUnhit(k))
  BY DEF Unhit, LengthsUnhit
<1> QED
  BY <1>1, <1>2 DEF KeepOK

(* A step that cuts the file where recovery stopped.                        *)
LEMMA KeepCut ==
  ASSUME TypeOK, KeepOK, ~ForeignTail(file), ~Applying', sidecars' = sidecars, acked' = acked,
         decay' = decay, file' = Take(file, CommittedCells(file)), disk' \in {disk, file'},
         \/ phase' = "closed"
         \/ phase # "closed" /\ lastRoot' = lastRoot
         \/ lastRoot' = Recovered(file)
  PROVE  KeepOK'
<1>1. file \in Seq(Cells) /\ acked \in Roots
  BY Types
<1>2. \A r \in Roots : Intact(file', r) <=> Intact(file, r)
  BY <1>1, CutCommitted
<1>3. \A r \in Roots : Decayed(file, r) => Decayed(file', r) /\ IsPrefix(r, Recovered(file))
  BY <1>1, DecayedCut
<1>4. \A r \in Roots : Intact(file, r) => IsPrefix(r, Recovered(file))
  BY <1>1, IntactRecovered
<1> QED
  BY <1>1, <1>2, <1>3, <1>4, KeepQuiet

(* The handle's steps.                                                      *)
LEMMA KeepHandle ==
  ASSUME HandleIInv, KeepOK, Handle
  PROVE  KeepOK'
<1>0. /\ TypeOK /\ HandleOK /\ file \in Seq(Cells) /\ disk \in Seq(Cells) /\ acked \in Roots
      /\ pending \in Roots /\ Len(pending) \in Nat
  BY Types DEF HandleIInv, Roots
<1>1. ASSUME NEW t \in BOOLEAN, Open(t)
      PROVE  KeepOK'
  <2>1. /\ file' = Take(file, CommittedCells(file)) /\ disk' \in {disk, file'}
        /\ lastRoot' = Recovered(file) /\ plan' = plan /\ sidecars' = sidecars
        /\ acked' = acked /\ decay' = decay /\ ~Applying /\ ~ForeignTail(file)
    BY <1>1 DEF Open, repairVars, obsVars
  <2>2. ~Applying'
    BY <2>1 DEF Applying
  <2> QED
    BY <1>0, <2>1, <2>2, KeepCut
<1>2. CASE OpenSyncFails
  <2>1. /\ file' = Take(file, CommittedCells(file)) /\ disk' = disk /\ phase' = "closed"
        /\ plan' = plan /\ sidecars' = sidecars
        /\ acked' = acked /\ decay' = decay /\ ~Applying /\ ~ForeignTail(file)
    BY <1>2 DEF OpenSyncFails, handleVars, repairVars, obsVars, ForeignTail
  <2>2. ~Applying'
    BY <2>1 DEF Applying
  <2> QED
    BY <1>0, <2>1, <2>2, KeepCut
<1>3. ASSUME phase # "closed", file' \in Seq(Cells), Len(file) <= Len(file'),
             \A i \in 1 .. Len(file) : file'[i] = file[i],
             disk' \in {disk, file}, lastRoot' = lastRoot, UNCHANGED repairVars, acked' = acked,
             decay' = decay
      PROVE  KeepOK'
  <2>1. plan' = plan /\ sidecars' = sidecars
    BY <1>3 DEF repairVars
  <2>2. ~Applying'
    BY <1>0, <1>3, <2>1 DEF HandleOK, Applying
  <2>3. \A r \in Roots : Intact(file, r) => Intact(file', r)
    BY <1>0, <1>3, IntactGrow
  <2>4. \A r \in Roots : Decayed(file, r) => Decayed(file', r)
    BY <1>0, <1>3, DecayedGrow
  <2> QED
    BY <1>0, <1>3, <2>1, <2>2, <2>3, <2>4, KeepQuiet
<1>4. CASE AppendFresh \/ BodySync \/ Verify
  <2>1. /\ phase # "closed" /\ file' = file /\ disk' \in {disk, file} /\ lastRoot' = lastRoot
        /\ UNCHANGED repairVars /\ acked' = acked /\ decay' = decay
    BY <1>4 DEF AppendFresh, AppendStart, BodySync, Verify, fileVars, handleVars, obsVars
  <2>2. Len(file) <= Len(file)
    BY <1>0
  <2> QED
    BY <1>0, <1>3, <2>1, <2>2
<1>5. CASE BodyWrite
  <2>1. phase # "closed" /\ lastRoot' = lastRoot /\ UNCHANGED repairVars /\ acked' = acked /\ decay' = decay
    BY <1>5 DEF BodyWrite, obsVars
  <2>2. PICK n \in 0 .. 2 : /\ file' \in Seq(Cells) /\ Len(file') = Len(file) + n
                            /\ \A i \in 1 .. Len(file) : file'[i] = file[i]
                            /\ disk' = disk
    BY <1>5, BodyWriteFacts
  <2>3. Len(file) <= Len(file')
    BY <1>0, <2>2
  <2> QED
    BY <1>3, <2>1, <2>2, <2>3
<1>6. CASE CommitWrite
  <2>1. phase # "closed" /\ lastRoot' = lastRoot /\ UNCHANGED repairVars /\ acked' = acked /\ decay' = decay
    BY <1>6 DEF CommitWrite, obsVars
  <2>2. PICK n \in 0 .. 2 : /\ file' \in Seq(Cells) /\ Len(file') = Len(file) + n
                            /\ \A i \in 1 .. Len(file) : file'[i] = file[i]
                            /\ disk' = disk
    BY <1>6, CommitWriteFacts
  <2>3. Len(file) <= Len(file')
    BY <1>0, <2>2
  <2> QED
    BY <1>3, <2>1, <2>2, <2>3
<1>7. ASSUME CommitPending, UNCHANGED repairVars, phase # "closed",
             file' \in Seq(Cells), Intact(file', pending), disk' = file'
      PROVE  KeepOK'
  <2>1. lastRoot' = pending /\ acked' = pending /\ plan' = plan /\ sidecars' = sidecars
    BY <1>7 DEF CommitPending, repairVars
  <2>2. ~Applying'
    BY <1>0, <1>7, <2>1 DEF HandleOK, Applying
  <2>3. ASSUME NEW k \in 0 .. Len(pending)
        PROVE  Whole(k)' /\ Spared(k)'
    <3> DEFINE q == Take(pending, k)
    <3>1. q \in Roots /\ IsPrefix(q, pending) /\ Len(q) = k
      BY <1>0, TakeFacts, PrefixTake
    <3>2. \A j \in 0 .. k : Take(q, j) = Take(pending, j)
      BY <1>0, TakeFacts
    <3>3. Intact(file', q)
      <4>1. 4 * Len(pending) <= Len(file') /\ \A j \in 1 .. Len(pending) : RecordIs(file', j, Take(pending, j))
        BY <1>7 DEF Intact
      <4>2. 4 * k <= Len(file') /\ \A j \in 1 .. k : j \in 1 .. Len(pending) /\ j \in 0 .. k
        BY <1>0, <1>7, <4>1
      <4> HIDE DEF q
      <4> QED
        BY <3>1, <3>2, <4>1, <4>2 DEF Intact
    <3>4. Decayed(file', q)
      BY <3>1, <3>3, IntactDecayed
    <3>5. acked' = pending /\ lastRoot' = pending /\ disk' = file'
      BY <1>7, <2>1
    <3> QED
      BY <2>2, <3>1, <3>3, <3>4, <3>5 DEF Whole, Spared
  <2> QED
    BY <2>1, <2>2, <2>3 DEF KeepOK
<1>8. CASE CommitSync
  <2>1. phase = "CommitSync" /\ file' = file /\ UNCHANGED repairVars /\ Intact(file, pending)
    BY <1>0, <1>8 DEF CommitSync, HandleOK, StageOK
  <2>2. CASE disk' = file /\ CommitPending
    BY <1>0, <1>7, <2>1, <2>2
  <2>3. CASE disk' \in {disk, file} /\ UNCHANGED <<lastRoot, committedLen, pending, obsVars>>
    <3>1. lastRoot' = lastRoot /\ acked' = acked /\ decay' = decay /\ Len(file) <= Len(file)
      BY <1>0, <2>3 DEF obsVars
    <3> QED
      BY <1>0, <1>3, <2>1, <2>3, <3>1
  <2> QED
    BY <1>8, <2>2, <2>3 DEF CommitSync
<1>9. ASSUME NEW t \in BOOLEAN, ReconcileCommitted(t)
      PROVE  KeepOK'
  <2>1. /\ file' = Take(file, CommittedCells(file)) /\ disk' = file' /\ CommitPending
        /\ UNCHANGED repairVars /\ phase # "closed" /\ Recovered(file) = pending
    BY <1>9 DEF ReconcileCommitted, PendingIsWhole, Reconcilable
  <2>2. file' \in Seq(Cells) /\ Intact(file', pending)
    BY <1>0, <2>1, CutCommitted, RecoveredFacts
  <2> QED
    BY <1>7, <2>1, <2>2
<1>10. CASE ReconcileFails \/ \E t \in BOOLEAN : ReconcileNotCommitted(t)
  <2>1. /\ file' = Take(file, CommittedCells(file)) /\ disk' \in {disk, file'}
        /\ lastRoot' = lastRoot /\ plan' = plan /\ sidecars' = sidecars /\ phase = "idle"
        /\ acked' = acked /\ decay' = decay /\ ~ForeignTail(file)
    BY <1>10 DEF ReconcileFails, ReconcileNotCommitted, PendingIsAbsent, PendingIsWhole,
                 Reconcilable, handleVars, repairVars, obsVars
  <2>2. ~Applying'
    BY <1>0, <2>1 DEF HandleOK, Applying
  <2> QED
    BY <1>0, <2>1, <2>2, KeepCut
<1> QED
  BY <1>1, <1>2, <1>4, <1>5, <1>6, <1>8, <1>9, <1>10 DEF Handle

(* The steps of a repair, and decay while one is under way.                 *)
LEMMA KeepRepair ==
  ASSUME HandleIInv, KeepOK, Repair
  PROVE  KeepOK'
<1>0. /\ TypeOK /\ HandleOK /\ file \in Seq(Cells) /\ disk \in Seq(Cells) /\ acked \in Roots
      /\ Len(file) \in Nat /\ Len(acked) \in Nat /\ plan.at \in Nat /\ sidecars \in Nat
      /\ plan \in [at : Nat, root : Roots, foreign : Seq(Cells),
                   step : {"none", "planned", "quarantined", "checked"}]
  BY Types DEF HandleIInv, TypeOK
<1>1. acked' = acked /\ decay' = decay /\ phase' = phase /\ lastRoot' = lastRoot
  BY DEF Repair, Plan, ApplyQuarantine, ApplyRecheck, ApplyTruncate, ApplyRefused, handleVars, obsVars
<1>2. \A k : (Unhit(k)' <=> Unhit(k)) /\ (LengthsUnhit(k)' <=> LengthsUnhit(k))
  BY <1>1 DEF Unhit, LengthsUnhit
<1>3. CASE Plan \/ ApplyRefused
  <2>1. /\ file' = file /\ disk' = disk
        /\ sidecars' = sidecars /\ plan'.step \in {"none", "planned"}
    BY <1>3, PlanTypes DEF Plan, ApplyRefused, fileVars
  <2>2. ~Applying'
    BY <2>1 DEF Applying
  <2> QED
    BY <1>0, <1>1, <2>1, <2>2, KeepQuiet
<1>4. ASSUME file' = file, disk' = disk, sidecars' # 0, plan'.at = plan.at,
             \A k \in 0 .. Len(acked) : Unhit(k) => 4 * k <= plan.at
      PROVE  KeepOK'
  <2>1. ASSUME NEW k \in 0 .. Len(acked), Unhit(k)
        PROVE  Whole(k)'
    <3>1. Whole(k) /\ 4 * k <= plan.at
      BY <1>4, <2>1 DEF KeepOK
    <3> QED
      BY <1>1, <1>4, <3>1 DEF Whole
  <2> QED
    BY <1>1, <1>2, <1>4, <2>1 DEF KeepOK
<1>5. CASE ApplyQuarantine
  <2>0. sidecars' = sidecars + 1
    BY <1>5 DEF ApplyQuarantine
  <2>1. file' = file /\ disk' = disk /\ plan'.at = plan.at /\ sidecars' # 0
    BY <1>0, <1>5, <2>0 DEF ApplyQuarantine, fileVars
  <2>2. plan.at = CommittedCells(file)
    BY <1>0, <1>5, PlanIsExact DEF ApplyQuarantine
  <2>3. ASSUME NEW k \in 0 .. Len(acked), Unhit(k)
        PROVE  4 * k <= plan.at
    <3> DEFINE q == Take(acked, k)
    <3>1. q \in Roots /\ Len(q) = k /\ Intact(file, q)
      BY <1>0, <2>3, TakeFacts DEF KeepOK, Whole
    <3> HIDE DEF q
    <3>2. Len(q) <= Len(Recovered(file)) /\ CommittedCells(file) = 4 * Len(Recovered(file))
          /\ Len(Recovered(file)) \in Nat
      BY <1>0, <3>1, IntactRecovered, RecoveredFacts
    <3> QED
      BY <2>2, <3>1, <3>2
  <2> QED
    BY <1>4, <2>1, <2>3
<1>6. CASE ApplyRecheck
  <2>1. file' = file /\ disk' = disk /\ plan'.at = plan.at /\ sidecars' = sidecars /\ Applying
    BY <1>0, <1>6 DEF ApplyRecheck, fileVars, Applying
  <2>2. sidecars # 0 /\ \A k \in 0 .. Len(acked) : Unhit(k) => 4 * k <= plan.at
    BY <2>1 DEF KeepOK, Whole
  <2> QED
    BY <1>4, <2>1, <2>2
<1>7. CASE ApplyTruncate
  <2>1. /\ file' = Take(file, plan.at) /\ disk' \in {disk, file'} /\ Applying /\ phase = "closed"
        /\ sidecars' = sidecars /\ ~Applying'
    BY <1>0, <1>7, PlanTypes DEF ApplyTruncate, Applying, HandleOK
  <2>2. plan.at \in 0 .. Len(file)
    BY <1>0, <2>1 DEF HandleOK
  <2>3. ASSUME NEW k \in 0 .. Len(acked), Unhit(k)
        PROVE  Whole(k)'
    <3> DEFINE q == Take(acked, k)
    <3>1. q \in Roots /\ Len(q) = k /\ Intact(file, q) /\ Intact(disk, q) /\ 4 * k <= plan.at
      BY <1>0, <2>1, <2>3, TakeFacts DEF KeepOK, Whole
    <3>2. Intact(file', q)
      BY <1>0, <2>1, <2>2, <3>1, CutFacts
    <3> QED
      BY <1>1, <2>1, <3>1, <3>2 DEF Whole
  <2>4. sidecars' # 0
    BY <2>1 DEF KeepOK
  <2> QED
    BY <1>1, <1>2, <2>1, <2>3, <2>4 DEF KeepOK
<1> QED
  BY <1>3, <1>5, <1>6, <1>7 DEF Repair

(* Decay costs a root nothing but the cell it hits.                         *)
LEMMA KeepRot ==
  ASSUME HandleIInv, KeepOK, Rot
  PROVE  KeepOK'
<1>0. /\ TypeOK /\ file \in Seq(Cells) /\ disk \in Seq(Cells) /\ acked \in Roots
      /\ Len(file) \in Nat /\ Len(acked) \in Nat
  BY Types DEF HandleIInv
<1>1. PICK i \in 1 .. Len(file), c \in Cells, tag \in {"junk", "long"} : RotsTo(i, c, tag)
  BY <1>0, RotFacts
<1>2. /\ disk' = file' /\ disk = file /\ phase' = "closed" /\ plan' = plan /\ sidecars' = sidecars
      /\ acked' = acked
  BY DEF Rot, handleVars, repairVars
<1>3. /\ file' \in Seq(Cells) /\ Len(file') = Len(file)
      /\ \A j \in 1 .. Len(file) : j # i => file'[j] = file[j]
      /\ tag = "junk" => file'[i] = Junk
  BY <1>0, <1>1 DEF RotsTo
<1>4. i \in Nat /\ i > 0
  OBVIOUS
<1>5. \A k \in Nat : RecordOfCell(i) > k => i > 4 * k
  BY <1>4, RecordOfCellFacts
<1>6. ASSUME NEW k \in 0 .. Len(acked), Unhit(k)' \/ (LengthsUnhit(k)' /\ tag = "long")
      PROVE  i > 4 * k
  <2>1. CASE i <= 4 * Len(acked)
    <3>1. <<RecordOfCell(i), tag>> \in decay'
      BY <1>1, <2>1 DEF RotsTo
    <3>2. RecordOfCell(i) > k
      BY <1>6, <3>1 DEF Unhit, LengthsUnhit
    <3> QED
      BY <1>0, <1>5, <3>2
  <2>2. CASE ~(i <= 4 * Len(acked))
    BY <1>0, <1>4, <2>2
  <2> QED
    BY <2>1, <2>2
<1>7. \A k : (Unhit(k)' => Unhit(k)) /\ (LengthsUnhit(k)' => LengthsUnhit(k))
  BY <1>1 DEF RotsTo, Unhit, LengthsUnhit
<1>8. ASSUME NEW k \in 0 .. Len(acked), Unhit(k)'
      PROVE  Whole(k)'
  <2> DEFINE q == Take(acked, k)
  <2>1. Whole(k)
    BY <1>7, <1>8 DEF KeepOK
  <2>2. q \in Roots /\ Len(q) = k /\ Intact(file, q)
    BY <1>0, <2>1, TakeFacts DEF Whole
  <2>3. 4 * k <= Len(file) /\ i > 4 * k
    <3>1. 4 * k <= Len(file)
      BY <2>2 DEF Intact
    <3>2. i > 4 * k
      BY <1>6, <1>8
    <3> QED
      BY <3>1, <3>2
  <2>4. \A j \in 1 .. 4 * k : file'[j] = file[j]
    BY <1>0, <1>3, <1>4, <2>3
  <2> HIDE DEF q
  <2>5. Intact(file', q)
    BY <1>0, <1>3, <2>2, <2>3, <2>4, IntactSame
  <2> QED
    BY <1>2, <2>1, <2>5 DEF Whole, Applying, q
<1>9. ASSUME NEW k \in 0 .. Len(acked), sidecars = 0, LengthsUnhit(k)'
      PROVE  Spared(k)'
  <2> DEFINE q == Take(acked, k)
  <2>1. Spared(k)
    BY <1>7, <1>9 DEF KeepOK
  <2>2. q \in Roots /\ Len(q) = k /\ Decayed(file, q)
    BY <1>0, <2>1, TakeFacts DEF Spared
  <2>3. 4 * k <= Len(file)
    BY <2>2 DEF Decayed
  <2>4. \A j \in 1 .. 4 * k : file'[j] = Junk \/ file'[j] = file[j]
    <3>1. CASE tag = "junk"
      BY <1>0, <1>3, <2>3, <3>1
    <3>2. CASE tag = "long"
      <4>1. i > 4 * k
        BY <1>6, <1>9, <3>2
      <4> QED
        BY <1>0, <1>3, <1>4, <2>3, <4>1
    <3> QED
      BY <3>1, <3>2
  <2> HIDE DEF q
  <2>5. Decayed(file', q)
    BY <1>0, <1>3, <2>2, <2>3, <2>4, DecayedMix
  <2> QED
    BY <1>2, <2>5 DEF Spared, q
<1>10. Applying' => sidecars' # 0
  BY <1>2 DEF KeepOK, Applying
<1> QED
  BY <1>2, <1>8, <1>9, <1>10 DEF KeepOK

(* Crashes and foreign bytes.                                               *)
LEMMA KeepEnvironment ==
  ASSUME HandleIInv, KeepOK, Environment
  PROVE  KeepOK'
<1>0. /\ TypeOK /\ HandleOK /\ file \in Seq(Cells) /\ disk \in Seq(Cells) /\ acked \in Roots
      /\ Len(file) \in Nat
  BY Types DEF HandleIInv
<1>1. CASE ProcessDeath
  <2>1. /\ file' = file /\ disk' = disk /\ phase' = "closed" /\ plan' = plan
        /\ sidecars' = sidecars /\ acked' = acked /\ decay' = decay /\ phase # "closed"
    BY <1>1 DEF ProcessDeath, fileVars, repairVars, obsVars
  <2>2. ~Applying'
    BY <1>0, <2>1 DEF HandleOK, Applying
  <2> QED
    BY <1>0, <2>1, <2>2, KeepQuiet
<1>2. CASE PowerLoss
  <2>1. /\ file' \in Seq(Cells) /\ Mixed(file, disk, file') /\ disk' = file' /\ phase' = "closed"
        /\ plan' = NoPlan /\ sidecars' = sidecars /\ acked' = acked /\ decay' = decay
    BY <1>0, <1>2, LossFacts
  <2>2. ~Applying'
    BY <2>1, PlanTypes DEF Applying
  <2>3. \A r \in Roots : /\ Intact(file, r) /\ Intact(disk, r) => Intact(file', r)
                         /\ Decayed(file, r) /\ Decayed(disk, r) => Decayed(file', r)
    BY <1>0, <2>1, LossKeeps
  <2> QED
    BY <1>0, <2>1, <2>2, <2>3, KeepQuiet
<1>3. CASE ForeignAppend
  <2>1. /\ file' = Append(file, Junk) /\ disk' = disk /\ phase' = phase /\ lastRoot' = lastRoot
        /\ plan' = plan /\ sidecars' = sidecars /\ acked' = acked /\ decay' = decay
    BY <1>3 DEF ForeignAppend, handleVars, repairVars, obsVars
  <2>2. file' \in Seq(Cells) /\ Len(file') = Len(file) + 1 /\ \A i \in 1 .. Len(file) : file'[i] = file[i]
    BY <1>0, <2>1, AppendJunk
  <2>3. Len(file) <= Len(file')
    BY <1>0, <2>2
  <2>4. \A r \in Roots : Intact(file, r) => Intact(file', r)
    BY <1>0, <2>2, <2>3, IntactGrow
  <2>5. \A r \in Roots : Decayed(file, r) => Decayed(file', r)
    BY <1>0, <2>2, <2>3, DecayedGrow
  <2>6. ASSUME NEW k \in 0 .. Len(acked)
        PROVE  /\ Whole(k) => Whole(k)'
               /\ Spared(k) => Spared(k)'
               /\ Unhit(k)' <=> Unhit(k)
               /\ LengthsUnhit(k)' <=> LengthsUnhit(k)
    <3>1. Take(acked, k) \in Roots
      BY <1>0, TakeFacts
    <3>2. Whole(k) => Whole(k)'
      BY <2>1, <2>4, <3>1 DEF Whole, Applying
    <3>3. Spared(k) => Spared(k)'
      BY <2>1, <2>5, <3>1 DEF Spared
    <3> QED
      BY <2>1, <3>2, <3>3 DEF Unhit, LengthsUnhit
  <2> QED
    BY <2>1, <2>6 DEF KeepOK, Applying
<1> QED
  BY <1>1, <1>2, <1>3, KeepRot DEF Environment

(* Whatever decays, and whatever open cuts and repairs take: a handle       *)
(* serves the acknowledged records before the first that decay hit, and     *)
(* before the first repair also the others, short of those from a decayed   *)
(* payload_len on, which recovery takes for a torn tail.                    *)
THEOREM AckedKeptByHandle == Spec => []HandleKeepsAcked
<1>1. Init => KeepOK
  <2> SUFFICES ASSUME Init PROVE KeepOK
    OBVIOUS
  <2>0. <<>> \in Roots /\ 0 \in 0 .. Len(<<>>) /\ Len(<<>>) = 0
    BY DEF Roots
  <2>1. Take(<<>>, 0) = <<>>
    BY <2>0, TakeFacts
  <2>2. Decayed(<<>>, <<>>) /\ Intact(<<>>, <<>>)
    BY <2>0, IntactEmpty, IntactDecayed
  <2>3. \A k \in 0 .. Len(acked) : k = 0 /\ Take(acked, k) = <<>>
    BY <2>0, <2>1 DEF Init
  <2>4. ~Applying
    BY PlanTypes DEF Init, Applying
  <2> QED
    BY <2>2, <2>3, <2>4 DEF Init, KeepOK, Whole, Spared
<1>2. HandleIInv /\ KeepOK /\ [Next]_vars => KeepOK'
  <2> SUFFICES ASSUME HandleIInv, KeepOK, [Next]_vars PROVE KeepOK'
    OBVIOUS
  <2>1. CASE UNCHANGED vars
    BY <2>1 DEF vars, fileVars, handleVars, repairVars, obsVars, KeepOK, Whole, Spared, Unhit,
                LengthsUnhit, Applying
  <2> QED
    BY <2>1, KeepHandle, KeepRepair, KeepEnvironment DEF Next
<1>3. KeepOK => HandleKeepsAcked
  BY DEF KeepOK, Whole, Spared, HandleKeepsAcked
<1> QED
  BY <1>1, <1>2, <1>3, HandleInvariance, PTL DEF Spec

-----------------------------------------------------------------------------
(* The journal without decay: a stored cell stays what it was.              *)

(* Acknowledged records stand in the file and on disk; no record reported   *)
(* as not committed does; a repair under way cuts where recovery stops.     *)
SafeOK ==
  /\ Intact(file, acked) /\ Intact(disk, acked)
  /\ phase # "closed" => IsPrefix(acked, lastRoot)
  /\ Sound(file, disk)
  /\ \A r \in retracted : r # <<>> /\ ~Intact(file, r)
  /\ pending \notin retracted
  /\ Applying => plan.at = CommittedCells(file)

SafeIInv == HandleIInv /\ SafeOK

(* A cut where recovery stops, or none; a synchronisation, or none.         *)
LEMMA SafeCut ==
  ASSUME TypeOK, SafeOK, NEW g \in {file, Take(file, CommittedCells(file))}, NEW e \in {disk, g}
  PROVE  /\ Intact(g, acked) /\ Intact(e, acked) /\ Sound(g, e)
         /\ \A r \in Roots : Intact(g, r) <=> Intact(file, r)
         /\ g \in Seq(Cells) /\ Recovered(g) = Recovered(file) /\ CommittedCells(g) = CommittedCells(file)
<1>1. file \in Seq(Cells) /\ disk \in Seq(Cells) /\ acked \in Roots /\ Len(file) \in Nat
  BY Types
<1>2. Intact(file, acked) /\ Intact(disk, acked) /\ Sound(file, disk)
  BY DEF SafeOK
<1>3. /\ g \in Seq(Cells) /\ Len(g) <= Len(file) /\ \A i \in 1 .. Len(g) : g[i] = file[i]
      /\ \A r \in Roots : Intact(g, r) <=> Intact(file, r)
      /\ Recovered(g) = Recovered(file) /\ CommittedCells(g) = CommittedCells(file)
  <2>1. CASE g = file
    BY <1>1, <2>1
  <2>2. CASE g = Take(file, CommittedCells(file))
    <3>1. CommittedCells(file) <= Len(file)
      BY <1>1, RecoveredFacts
    <3> QED
      BY <1>1, <2>2, <3>1, CutCommitted
  <2> QED
    BY <2>1, <2>2
<1>4. Sound(g, e)
  BY <1>1, <1>2, <1>3, SoundCut
<1> QED
  BY <1>1, <1>2, <1>3, <1>4

(* A step that does so and leaves what was reported alone.                  *)
LEMMA SafeQuiet ==
  ASSUME TypeOK, SafeOK, file' \in {file, Take(file, CommittedCells(file))}, disk' \in {disk, file'},
         acked' = acked, retracted' = retracted, pending' \in {pending, <<>>},
         phase' # "closed" => IsPrefix(acked, lastRoot'),
         Applying' => plan'.at = CommittedCells(file)
  PROVE  SafeOK'
<1>1. /\ Intact(file', acked) /\ Intact(disk', acked) /\ Sound(file', disk')
      /\ \A r \in Roots : Intact(file', r) <=> Intact(file, r)
      /\ CommittedCells(file') = CommittedCells(file)
  BY SafeCut
<1>2. retracted \subseteq Roots
  BY Types
<1>3. \A r \in retracted : r # <<>> /\ ~Intact(file', r)
  BY <1>1, <1>2 DEF SafeOK
<1>4. pending' \notin retracted
  BY DEF SafeOK
<1> QED
  BY <1>1, <1>3, <1>4 DEF SafeOK

(* The acknowledgement of a record that stands in the file.                 *)
LEMMA SafeAck ==
  ASSUME TypeOK, SafeOK, file' \in {file, Take(file, CommittedCells(file))}, disk' = file',
         Intact(file, pending), CommitPending, ~Applying'
  PROVE  SafeOK'
<1>1. pending \in Roots /\ retracted \subseteq Roots
  BY Types
<1>2. lastRoot' = pending /\ acked' = pending /\ pending' = <<>> /\ retracted' = retracted
  BY DEF CommitPending
<1>3. Sound(file', disk') /\ \A r \in Roots : Intact(file', r) <=> Intact(file, r)
  BY SafeCut
<1>4. Intact(file', acked') /\ Intact(disk', acked') /\ IsPrefix(acked', lastRoot')
  BY <1>1, <1>2, <1>3, PrefixSelf
<1>5. \A r \in retracted : r # <<>> /\ ~Intact(file', r)
  BY <1>1, <1>3 DEF SafeOK
<1> QED
  BY <1>2, <1>3, <1>4, <1>5 DEF SafeOK

(* The last record of a root is one that the root before it does not have.  *)
LEMMA ExtendsFront ==
  ASSUME NEW r \in Roots, NEW q, Extends(q, r)
  PROVE  PreviousRoot(q) = r /\ Front(q) = r /\ q \in Roots /\ q # <<>> /\ Len(q) = Len(r) + 1
         /\ Len(r) \in Nat
<1>1. Len(r) \in Nat /\ q \in Roots /\ Len(q) = Len(r) + 1 /\ Take(q, Len(r)) = r
  BY DEF Extends, Roots
<1>2. Len(q) - 1 = Len(r) /\ q # <<>>
  BY <1>1
<1> QED
  BY <1>1, <1>2 DEF PreviousRoot, Front, Take

(* The trailer write adds the appended record and no other.                 *)
LEMMA SafeCommitWrite ==
  ASSUME HandleIInv, SafeOK, CommitWrite
  PROVE  SafeOK'
<1>0. /\ TypeOK /\ HandleOK /\ file \in Seq(Cells) /\ acked \in Roots /\ pending \in Roots
      /\ lastRoot \in Roots /\ retracted \subseteq Roots /\ Len(file) \in Nat /\ Len(lastRoot) \in Nat
  BY Types DEF HandleIInv
<1>1. PICK n \in 0 .. 2 :
           /\ file' \in Seq(Cells) /\ Len(file') = Len(file) + n
           /\ Len(file) = committedLen + 2 /\ committedLen = 4 * Len(lastRoot)
           /\ \A i \in 1 .. Len(file) : file'[i] = file[i]
           /\ n > 1 => file'[4 * Len(lastRoot) + 4] = Root(pending) /\ Intact(file', pending)
           /\ \A r \in Roots : Intact(file, r) => Intact(file', r)
           /\ disk' = disk
  BY CommitWriteFacts
<1>2. /\ lastRoot' = lastRoot /\ pending' = pending /\ plan' = plan /\ acked' = acked
      /\ retracted' = retracted /\ phase = "CommitWrite"
  BY DEF CommitWrite, repairVars, obsVars
<1>3. disk = file /\ Extends(pending, lastRoot) /\ Intact(file, lastRoot) /\ ~Applying'
  BY <1>0, <1>2 DEF HandleOK, StageOK, InAppend, Applying
<1>4. Sound(file, file) /\ Intact(file, acked)
  BY <1>3 DEF SafeOK
<1>5. Sound(file', file)
  <2>1. Len(file) <= Len(file') /\ Len(file') <= 4 * Len(lastRoot) + 4 /\ Len(file) = 4 * Len(lastRoot) + 2
    BY <1>0, <1>1
  <2>2. Len(file') = 4 * Len(lastRoot) + 4 =>
          file'[4 * Len(lastRoot) + 4] = Root(pending) /\ Intact(file', pending)
    BY <1>0, <1>1
  <2> QED
    BY <1>0, <1>1, <1>3, <1>4, <2>1, <2>2, SoundTrailer
<1>6. ASSUME NEW r \in retracted
      PROVE  r # <<>> /\ ~Intact(file', r)
  <2>1. r # <<>> /\ ~Intact(file, r) /\ r # pending /\ r \in Roots /\ Len(r) \in Nat
    BY <1>0 DEF SafeOK, Roots
  <2> SUFFICES ASSUME Intact(file', r) PROVE FALSE
    BY <2>1
  <2>2. 4 * Len(r) <= Len(file')
    BY DEF Intact
  <2>3. CASE Len(r) <= Len(lastRoot)
    <3>1. 4 * Len(r) <= Len(file) /\ \A i \in 1 .. 4 * Len(r) : i \in 1 .. Len(file)
      BY <1>0, <1>1, <2>1, <2>3
    <3>2. \A i \in 1 .. 4 * Len(r) : file[i] = file'[i]
      BY <1>1, <3>1
    <3>3. Intact(file, r)
      BY <1>0, <2>1, <3>1, <3>2, IntactSame
    <3> QED
      BY <2>1, <3>3
  <2>4. CASE Len(r) > Len(lastRoot)
    <3>1. n > 1 /\ Len(r) = Len(lastRoot) + 1 /\ 4 * Len(r) = 4 * Len(lastRoot) + 4 /\ Len(r) > 0
      <4> DEFINE a == Len(r)
                 b == Len(lastRoot)
                 c == Len(file')
      <4>1. a \in Nat /\ b \in Nat /\ a > b /\ 4 * a <= c
        BY <1>0, <2>1, <2>2, <2>4
      <4>2. c = 4 * b + 2 + n /\ n \in 0 .. 2
        BY <1>0, <1>1
      <4> HIDE DEF a, b, c
      <4>3. n > 1 /\ a = b + 1 /\ 4 * a = 4 * b + 4 /\ a > 0
        BY <4>1, <4>2
      <4> QED
        BY <4>3 DEF a, b
    <3>2. file'[4 * Len(r)] = Root(r)
      BY <1>1, <2>1, <3>1, IntactTrailer
    <3>3. r = pending
      BY <1>1, <3>1, <3>2 DEF Root
    <3> QED
      BY <2>1, <3>3
  <2> QED
    BY <1>0, <2>1, <2>3, <2>4
<1>7. IsPrefix(acked, lastRoot) /\ pending \notin retracted /\ Intact(file', acked)
  BY <1>0, <1>1, <1>2, <1>4 DEF SafeOK
<1> QED
  BY <1>1, <1>2, <1>3, <1>4, <1>5, <1>6, <1>7 DEF SafeOK

(* The body write adds no trailer.                                          *)
LEMMA SafeBodyWrite ==
  ASSUME HandleIInv, SafeOK, BodyWrite
  PROVE  SafeOK'
<1>0. /\ TypeOK /\ HandleOK /\ file \in Seq(Cells) /\ disk \in Seq(Cells) /\ acked \in Roots
      /\ retracted \subseteq Roots /\ Len(file) \in Nat /\ Len(lastRoot) \in Nat
  BY Types DEF HandleIInv
<1>1. PICK n \in 0 .. 2 :
           /\ file' \in Seq(Cells) /\ Len(file') = Len(file) + n
           /\ Len(file) = committedLen /\ committedLen = 4 * Len(lastRoot)
           /\ \A i \in 1 .. Len(file) : file'[i] = file[i]
           /\ n > 0 => file'[Len(file) + 1] = Header(pending)
           /\ n > 1 => file'[Len(file) + 2] = Payload(pending)
           /\ \A r \in Roots : Intact(file, r) => Intact(file', r)
           /\ disk' = disk
  BY BodyWriteFacts
<1>2. /\ lastRoot' = lastRoot /\ pending' = pending /\ plan' = plan /\ acked' = acked
      /\ retracted' = retracted /\ phase = "BodyWrite"
  BY DEF BodyWrite, repairVars, obsVars
<1>3. ~Applying'
  BY <1>0, <1>2 DEF HandleOK, Applying
<1>4. Sound(file', disk)
  <2>1. Len(file) <= Len(file')
    BY <1>0, <1>1
  <2>2. ASSUME NEW i \in Len(file) + 1 .. Len(file')
        PROVE  file'[i][1] \notin {"magic", "root"}
    <3>1. (i = Len(file) + 1 /\ n > 0) \/ (i = Len(file) + 2 /\ n > 1)
      BY <1>0, <1>1
    <3> QED
      BY <1>1, <3>1 DEF Header, Payload
  <2>3. Sound(file, disk)
    BY DEF SafeOK
  <2> QED
    BY <1>0, <1>1, <2>1, <2>2, <2>3, SoundGrow
<1>5. ASSUME NEW r \in retracted
      PROVE  r # <<>> /\ ~Intact(file', r)
  <2>1. r # <<>> /\ ~Intact(file, r) /\ r \in Roots /\ Len(r) \in Nat
    BY <1>0 DEF SafeOK, Roots
  <2> SUFFICES ASSUME Intact(file', r) PROVE FALSE
    BY <2>1
  <2>2. 4 * Len(r) <= Len(file')
    BY DEF Intact
  <2>3. 4 * Len(r) <= Len(file)
    BY <1>0, <1>1, <2>1, <2>2
  <2>4. \A i \in 1 .. 4 * Len(r) : i \in 1 .. Len(file)
    BY <1>0, <2>1, <2>3
  <2>5. \A i \in 1 .. 4 * Len(r) : file[i] = file'[i]
    BY <1>1, <2>4
  <2>6. Intact(file, r)
    BY <1>0, <2>1, <2>3, <2>5, IntactSame
  <2> QED
    BY <2>1, <2>6
<1>6. IsPrefix(acked, lastRoot) /\ pending \notin retracted /\ Intact(file', acked) /\ Intact(disk, acked)
  BY <1>0, <1>1, <1>2 DEF SafeOK
<1> QED
  BY <1>1, <1>2, <1>3, <1>4, <1>5, <1>6 DEF SafeOK

(* The handle's steps.                                                      *)
LEMMA SafeHandle ==
  ASSUME HandleIInv, SafeOK, Handle
  PROVE  SafeOK'
<1>0. /\ TypeOK /\ HandleOK /\ file \in Seq(Cells) /\ disk \in Seq(Cells) /\ acked \in Roots
      /\ pending \in Roots /\ lastRoot \in Roots /\ retracted \subseteq Roots
  BY Types DEF HandleIInv
<1>1. ASSUME NEW t \in BOOLEAN, Open(t)
      PROVE  SafeOK'
  <2>1. /\ file' = Take(file, CommittedCells(file)) /\ disk' \in {disk, file'}
        /\ lastRoot' = Recovered(file) /\ plan' = plan /\ pending' = <<>>
        /\ acked' = acked /\ retracted' = retracted /\ ~Applying
    BY <1>1 DEF Open, repairVars, obsVars
  <2>2. IsPrefix(acked, lastRoot')
    BY <1>0, <2>1, IntactRecovered DEF SafeOK
  <2>3. ~Applying'
    BY <2>1 DEF Applying
  <2> QED
    BY <1>0, <2>1, <2>2, <2>3, SafeQuiet
<1>2. CASE OpenSyncFails
  <2>1. /\ file' = Take(file, CommittedCells(file)) /\ disk' = disk /\ phase' = "closed"
        /\ plan' = plan /\ acked' = acked /\ retracted' = retracted /\ pending' = pending
        /\ ~Applying
    BY <1>2 DEF OpenSyncFails, handleVars, repairVars, obsVars
  <2>2. ~Applying'
    BY <2>1 DEF Applying
  <2> QED
    BY <1>0, <2>1, <2>2, SafeQuiet
<1>3. CASE AppendFresh
  <2>1. PICK v \in Payloads : ~Used(v) /\ AppendStart(v)
    BY <1>3 DEF AppendFresh
  <2>2. /\ file' = file /\ disk' = disk /\ phase = "idle" /\ lastRoot' = lastRoot /\ plan' = plan
        /\ acked' = acked /\ retracted' = retracted /\ pending' = Append(lastRoot, v)
    BY <2>1 DEF AppendStart, fileVars, repairVars, obsVars
  <2>3. Len(lastRoot) + 1 \in DOMAIN pending' /\ pending'[Len(lastRoot) + 1] = v
    BY <1>0, <2>2, AppendExtends
  <2>4. \A r \in retracted : \A i \in DOMAIN r : r[i] # v
    BY <2>1 DEF Used
  <2>5. pending' \notin retracted
    BY <2>3, <2>4
  <2>6. ~Applying'
    BY <1>0, <2>2 DEF HandleOK, Applying
  <2> QED
    BY <2>2, <2>5, <2>6 DEF SafeOK
<1>4. CASE BodySync \/ Verify
  <2>1. /\ file' = file /\ disk' \in {disk, file} /\ lastRoot' = lastRoot /\ pending' = pending
        /\ plan' = plan /\ acked' = acked /\ retracted' = retracted /\ phase # "closed"
    BY <1>4 DEF BodySync, Verify, handleVars, repairVars, obsVars
  <2>2. ~Applying' /\ IsPrefix(acked, lastRoot')
    BY <1>0, <2>1 DEF HandleOK, SafeOK, Applying
  <2> QED
    BY <1>0, <2>1, <2>2, SafeQuiet
<1>5. CASE CommitSync
  <2>1. phase = "CommitSync" /\ file' = file /\ plan' = plan /\ Intact(file, pending)
    BY <1>0, <1>5 DEF CommitSync, HandleOK, StageOK, repairVars
  <2>2. ~Applying'
    BY <1>0, <2>1 DEF HandleOK, Applying
  <2>3. CASE disk' = file /\ CommitPending
    BY <1>0, <2>1, <2>2, <2>3, SafeAck
  <2>4. CASE disk' \in {disk, file} /\ UNCHANGED <<lastRoot, committedLen, pending, obsVars>>
    <3>1. lastRoot' = lastRoot /\ pending' = pending /\ acked' = acked /\ retracted' = retracted
          /\ IsPrefix(acked, lastRoot')
      BY <2>1, <2>4 DEF obsVars, SafeOK
    <3> QED
      BY <1>0, <2>1, <2>2, <2>4, <3>1, SafeQuiet
  <2> QED
    BY <1>5, <2>3, <2>4 DEF CommitSync
<1>6. ASSUME NEW t \in BOOLEAN, ReconcileCommitted(t)
      PROVE  SafeOK'
  <2>1. /\ file' = Take(file, CommittedCells(file)) /\ disk' = file' /\ CommitPending
        /\ plan' = plan /\ phase # "closed" /\ Recovered(file) = pending
    BY <1>6 DEF ReconcileCommitted, PendingIsWhole, Reconcilable, repairVars
  <2>2. Intact(file, pending)
    BY <1>0, <2>1, RecoveredFacts
  <2>3. ~Applying'
    BY <1>0, <2>1 DEF HandleOK, Applying
  <2> QED
    BY <1>0, <2>1, <2>2, <2>3, SafeAck
<1>7. ASSUME NEW t \in BOOLEAN, ReconcileNotCommitted(t)
      PROVE  SafeOK'
  <2>1. /\ file' = Take(file, CommittedCells(file)) /\ disk' \in {disk, file'}
        /\ lastRoot' = lastRoot /\ pending' = <<>> /\ plan' = plan /\ acked' = acked
        /\ phase' = phase /\ retracted' = retracted \cup {pending} /\ phase = "idle" /\ pending # <<>>
        /\ Recovered(file) = PreviousRoot(pending)
    BY <1>7 DEF ReconcileNotCommitted, PendingIsAbsent, Reconcilable, repairVars
  <2>2. /\ Intact(file', acked) /\ Intact(disk', acked) /\ Sound(file', disk')
        /\ \A r \in Roots : Intact(file', r) <=> Intact(file, r)
    BY <1>0, <2>1, SafeCut
  <2>3. ~Intact(file, pending)
    <3>1. Recovered(file) = lastRoot /\ Len(pending) = Len(lastRoot) + 1 /\ Len(lastRoot) \in Nat
      BY <1>0, <2>1, ExtendsFront DEF HandleOK
    <3>2. ~(Len(pending) <= Len(Recovered(file)))
      BY <3>1
    <3> QED
      BY <1>0, <3>2, IntactRecovered
  <2>4. \A r \in retracted' : r # <<>> /\ ~Intact(file', r)
    BY <1>0, <2>1, <2>2, <2>3 DEF SafeOK
  <2>5. ~Applying' /\ IsPrefix(acked, lastRoot)
    BY <1>0, <2>1 DEF HandleOK, SafeOK, Applying
  <2> QED
    BY <2>1, <2>2, <2>4, <2>5 DEF SafeOK
<1>8. CASE ReconcileFails
  <2>1. /\ file' = Take(file, CommittedCells(file)) /\ disk' \in {disk, file'}
        /\ lastRoot' = lastRoot /\ plan' = plan /\ pending' = pending /\ phase = "idle"
        /\ acked' = acked /\ retracted' = retracted
    BY <1>8 DEF ReconcileFails, Reconcilable, handleVars, repairVars, obsVars
  <2>2. ~Applying' /\ IsPrefix(acked, lastRoot')
    BY <1>0, <2>1 DEF HandleOK, SafeOK, Applying
  <2> QED
    BY <1>0, <2>1, <2>2, SafeQuiet
<1> QED
  BY <1>1, <1>2, <1>3, <1>4, <1>5, <1>6, <1>7, <1>8, SafeBodyWrite, SafeCommitWrite DEF Handle

(* The repair tool.                                                         *)
LEMMA SafeRepair ==
  ASSUME HandleIInv, SafeOK, Repair
  PROVE  SafeOK'
<1>0. TypeOK /\ HandleOK /\ plan \in [at : Nat, root : Roots, foreign : Seq(Cells),
                                      step : {"none", "planned", "quarantined", "checked"}]
  BY DEF HandleIInv, TypeOK
<1>1. /\ phase' = phase /\ lastRoot' = lastRoot /\ pending' = pending
      /\ acked' = acked /\ retracted' = retracted
  BY DEF Repair, Plan, ApplyQuarantine, ApplyRecheck, ApplyTruncate, ApplyRefused, handleVars, obsVars
<1>2. phase' # "closed" => IsPrefix(acked, lastRoot')
  BY <1>1 DEF SafeOK
<1>3. CASE Plan \/ ApplyRefused
  <2>1. file' = file /\ disk' = disk /\ plan'.step \in {"none", "planned"}
    BY <1>3, PlanTypes DEF Plan, ApplyRefused, fileVars
  <2>2. ~Applying'
    BY <2>1 DEF Applying
  <2> QED
    BY <1>0, <1>1, <1>2, <2>1, <2>2, SafeQuiet
<1>4. CASE ApplyQuarantine
  <2>1. file' = file /\ disk' = disk /\ plan'.at = plan.at
    BY <1>0, <1>4 DEF ApplyQuarantine, fileVars
  <2>2. plan.at = CommittedCells(file)
    BY <1>0, <1>4, PlanIsExact DEF ApplyQuarantine
  <2> QED
    BY <1>0, <1>1, <1>2, <2>1, <2>2, SafeQuiet
<1>5. CASE ApplyRecheck
  <2>1. file' = file /\ disk' = disk /\ plan'.at = plan.at
    BY <1>0, <1>5 DEF ApplyRecheck, fileVars
  <2>2. plan.at = CommittedCells(file)
    BY <1>5 DEF ApplyRecheck, SafeOK, Applying
  <2> QED
    BY <1>0, <1>1, <1>2, <2>1, <2>2, SafeQuiet
<1>6. CASE ApplyTruncate
  <2>1. plan.at = CommittedCells(file)
    BY <1>6 DEF ApplyTruncate, SafeOK, Applying
  <2>2. file' = Take(file, CommittedCells(file)) /\ disk' \in {disk, file'} /\ plan'.step = "none"
    BY <1>6, <2>1, PlanTypes DEF ApplyTruncate
  <2>3. ~Applying'
    BY <2>2 DEF Applying
  <2> QED
    BY <1>0, <1>1, <1>2, <2>2, <2>3, SafeQuiet
<1> QED
  BY <1>3, <1>4, <1>5, <1>6 DEF Repair

(* Without decay no cell rots.                                              *)
LEMMA NoRot ==
  ASSUME MaxRot = 0, TypeOK
  PROVE  ~Rot
  BY DEF Rot, TypeOK

(* Crashes and foreign bytes.                                               *)
LEMMA SafeEnvironment ==
  ASSUME MaxRot = 0, HandleIInv, SafeOK, Environment
  PROVE  SafeOK'
<1>0. /\ TypeOK /\ HandleOK /\ file \in Seq(Cells) /\ disk \in Seq(Cells) /\ acked \in Roots
      /\ retracted \subseteq Roots /\ Len(file) \in Nat
  BY Types DEF HandleIInv
<1>1. CASE ProcessDeath
  <2>1. /\ file' = file /\ disk' = disk /\ phase' = "closed" /\ pending' = <<>> /\ plan' = plan
        /\ acked' = acked /\ retracted' = retracted /\ phase # "closed"
    BY <1>1 DEF ProcessDeath, fileVars, repairVars, obsVars
  <2>2. ~Applying'
    BY <1>0, <2>1 DEF HandleOK, Applying
  <2> QED
    BY <1>0, <2>1, <2>2, SafeQuiet
<1>2. CASE PowerLoss
  <2>1. /\ file' \in Seq(Cells) /\ Mixed(file, disk, file') /\ disk' = file' /\ phase' = "closed"
        /\ pending' = <<>> /\ plan' = NoPlan /\ acked' = acked /\ retracted' = retracted
    BY <1>0, <1>2, LossFacts
  <2>2. /\ Sound(file', file')
        /\ \A r \in Roots : Intact(file', r) => Intact(file, r)
        /\ \A r \in Roots : Intact(file, r) /\ Intact(disk, r) => Intact(file', r)
    BY <1>0, <2>1, SoundLoss DEF SafeOK
  <2>3. Intact(file', acked) /\ \A r \in retracted : r # <<>> /\ ~Intact(file', r)
    BY <1>0, <2>2 DEF SafeOK
  <2>4. ~Applying' /\ pending' \notin retracted
    BY <2>1, PlanTypes DEF Applying, SafeOK
  <2> QED
    BY <2>1, <2>2, <2>3, <2>4 DEF SafeOK
<1>3. CASE ForeignAppend
  <2>1. /\ file' = Append(file, Junk) /\ disk' = disk /\ phase' = phase /\ lastRoot' = lastRoot
        /\ plan' = plan /\ pending' = pending /\ acked' = acked /\ retracted' = retracted
    BY <1>3 DEF ForeignAppend, handleVars, repairVars, obsVars
  <2>2. /\ file' \in Seq(Cells) /\ Len(file') = Len(file) + 1 /\ file'[Len(file) + 1] = Junk
        /\ \A i \in 1 .. Len(file) : file'[i] = file[i]
        /\ \A r \in Roots : Intact(file', r) <=> Intact(file, r)
    BY <1>0, <2>1, AppendJunk
  <2>3. Sound(file', disk)
    <3>1. Len(file) <= Len(file')
      BY <1>0, <2>2
    <3>2. \A i \in Len(file) + 1 .. Len(file') : i = Len(file) + 1
      BY <1>0, <2>2
    <3>3. \A i \in Len(file) + 1 .. Len(file') : file'[i][1] \notin {"magic", "root"}
      BY <2>2, <3>2 DEF Junk
    <3>4. Sound(file, disk)
      BY DEF SafeOK
    <3> QED
      BY <1>0, <2>2, <3>1, <3>3, <3>4, SoundGrow
  <2>4. CommittedCells(file') = CommittedCells(file)
    <3>1. Recovered(file') = Recovered(file)
      BY <1>0, <2>2, SameRecovered
    <3> QED
      BY <1>0, <2>2, <3>1, RecoveredFacts
  <2>5. \A r \in retracted : r # <<>> /\ ~Intact(file', r)
    BY <1>0, <2>2 DEF SafeOK
  <2>6. Intact(file', acked) /\ Intact(disk, acked)
    BY <1>0, <2>2 DEF SafeOK
  <2> QED
    BY <2>1, <2>3, <2>4, <2>5, <2>6 DEF SafeOK, Applying
<1> QED
  BY <1>0, <1>1, <1>2, <1>3, NoRot DEF Environment

(* Without decay: the acknowledged records stand in the file and on disk,   *)
(* every trailer a power loss could leave belongs to a record that stands,  *)
(* and a repair under way cuts nothing but the tail.                        *)
THEOREM SafeInvariance ==
  ASSUME MaxRot = 0
  PROVE  Spec => []SafeIInv
<1>1. Init => SafeOK
  <2> SUFFICES ASSUME Init PROVE SafeOK
    OBVIOUS
  <2>1. ASSUME NEW r \in Roots, Len(r) > 0
        PROVE  ~May(<<>>, <<>>, 4 * Len(r), Root(r))
    BY <2>1 DEF May, Roots
  <2>2. Sound(<<>>, <<>>)
    BY <2>1 DEF Sound
  <2> QED
    BY <2>2, IntactEmpty, PlanTypes DEF Init, SafeOK, Applying
<1>2. HandleIInv /\ SafeOK /\ [Next]_vars => SafeOK'
  <2> SUFFICES ASSUME HandleIInv, SafeOK, [Next]_vars PROVE SafeOK'
    OBVIOUS
  <2>1. CASE UNCHANGED vars
    BY <2>1 DEF vars, fileVars, handleVars, repairVars, obsVars, SafeOK, Applying
  <2> QED
    BY <2>1, SafeHandle, SafeRepair, SafeEnvironment DEF Next
<1>3. HandleIInv /\ SafeOK => SafeIInv
  BY DEF SafeIInv
<1> QED
  BY <1>1, <1>2, <1>3, HandleInvariance, PTL DEF Spec

(* The invariant says what the two properties say.                          *)
LEMMA SafeMeans ==
  ASSUME SafeIInv
  PROVE  AckedNeverLost /\ RetractedNeverCommitted
<1>1. /\ file \in Seq(Cells) /\ acked \in Roots /\ retracted \subseteq Roots
  BY Types DEF SafeIInv, HandleIInv
<1>2. AckedNeverLost
  BY <1>1, IntactRecovered DEF SafeIInv, SafeOK, AckedNeverLost
<1>3. RetractedNeverCommitted
  BY <1>1, IntactRecovered DEF SafeIInv, SafeOK, RetractedNeverCommitted
<1> QED
  BY <1>2, <1>3

(* An append reported as committed is in what recovery reads from then on,  *)
(* whatever crashes, half-done appends, foreign bytes and repairs follow.   *)
THEOREM AckedSafe ==
  ASSUME MaxRot = 0
  PROVE  Spec => []AckedNeverLost
<1>1. SafeIInv => AckedNeverLost
  BY SafeMeans
<1> QED
  BY <1>1, SafeInvariance, PTL

(* An append that reconcile_pending reported as NotCommitted never comes    *)
(* back, whatever a later power loss makes of its cells.                    *)
THEOREM RetractedSafe ==
  ASSUME MaxRot = 0
  PROVE  Spec => []RetractedNeverCommitted
<1>1. SafeIInv => RetractedNeverCommitted
  BY SafeMeans
<1> QED
  BY <1>1, SafeInvariance, PTL

-----------------------------------------------------------------------------
(* The refinement.                                                          *)

(* What recovery reads while an append is in flight.                        *)
LEMMA HistoryInAppend ==
  ASSUME HandleIInv, phase # "closed"
  PROVE  /\ Len(file) < 4 * Len(lastRoot) + 4 => Recovered(file) = lastRoot
         /\ phase = "CommitSync" => Recovered(file) = pending
<1>0. /\ TypeOK /\ HandleOK /\ file \in Seq(Cells) /\ lastRoot \in Roots /\ pending \in Roots
      /\ Len(lastRoot) \in Nat
  BY Types DEF HandleIInv
<1>1. Intact(file, lastRoot) /\ committedLen = 4 * Len(lastRoot)
  BY <1>0 DEF HandleOK
<1>2. Len(file) < 4 * Len(lastRoot) + 4 => Recovered(file) = lastRoot
  BY <1>0, <1>1, RecoveredIs
<1>3. ASSUME phase = "CommitSync"
      PROVE  Recovered(file) = pending
  <2>1. Len(file) = committedLen + 4 /\ Intact(file, pending) /\ Extends(pending, lastRoot)
    BY <1>0, <1>3 DEF HandleOK, StageOK, InAppend
  <2>2. Len(file) < 4 * Len(pending) + 4
    BY <1>0, <1>1, <2>1 DEF Extends
  <2> QED
    BY <1>0, <2>1, <2>2, RecoveredIs
<1> QED
  BY <1>2, <1>3

(* A handle's step is a step of the log, or none.                           *)
LEMMA LogHandle ==
  ASSUME SafeIInv, Handle
  PROVE  Log!LogNext \/ UNCHANGED Log!logVars
<1>0. /\ HandleIInv /\ SafeOK /\ TypeOK /\ HandleOK /\ file \in Seq(Cells) /\ lastRoot \in Roots
      /\ pending \in Roots /\ Len(lastRoot) \in Nat /\ committedLen \in Nat
  BY Types DEF SafeIInv, HandleIInv
<1> DEFINE g == Take(file, CommittedCells(file))
           Same == /\ Recovered(file') = Recovered(file) /\ pending' = pending
                   /\ acked' = acked /\ retracted' = retracted
<1>1. Recovered(g) = Recovered(file)
  BY <1>0, CutCommitted
<1> HIDE DEF g
<1>2. Same => UNCHANGED Log!logVars
  BY DEF Log!logVars
<1> HIDE DEF Same
<1>3. pending # <<>> /\ phase # "closed" => Front(pending) = lastRoot /\ PreviousRoot(pending) = lastRoot
  BY <1>0, ExtendsFront DEF HandleOK
<1>4. ASSUME NEW t \in BOOLEAN, Open(t)
      PROVE  Same
  BY <1>0, <1>1, <1>4 DEF Open, HandleOK, obsVars, g, Same
<1>5. CASE OpenSyncFails \/ ReconcileFails
  <2>1. Same
    BY <1>1, <1>5 DEF OpenSyncFails, ReconcileFails, handleVars, obsVars, g, Same
  <2> QED
    BY <1>2, <2>1
<1>6. CASE BodySync \/ Verify
  <2>1. Same
    BY <1>6 DEF BodySync, Verify, handleVars, obsVars, Same
  <2> QED
    BY <1>2, <2>1
<1>7. CASE AppendFresh
  <2>1. PICK v \in Payloads : AppendStart(v)
    BY <1>7 DEF AppendFresh
  <2>2. /\ phase = "idle" /\ pending = <<>> /\ Len(file) = committedLen /\ file' = file
        /\ pending' = Append(lastRoot, v) /\ acked' = acked /\ retracted' = retracted
    BY <2>1 DEF AppendStart, CheckCommittedTail, fileVars, obsVars
  <2>3. Len(file) < 4 * Len(lastRoot) + 4
    BY <1>0, <2>2 DEF HandleOK
  <2>4. Recovered(file) = lastRoot
    BY <1>0, <2>2, <2>3, HistoryInAppend
  <2>5. Log!LogBegin(v)
    BY <2>2, <2>4 DEF Log!LogBegin
  <2> QED
    BY <2>5 DEF Log!LogNext
<1>8. CASE BodyWrite
  <2>1. /\ phase = "BodyWrite" /\ pending' = pending /\ acked' = acked /\ retracted' = retracted
        /\ lastRoot' = lastRoot
    BY <1>8 DEF BodyWrite, obsVars
  <2>2. PICK n \in 0 .. 2 : /\ file' \in Seq(Cells) /\ Len(file') = Len(file) + n
                            /\ Len(file) = committedLen /\ committedLen = 4 * Len(lastRoot)
                            /\ \A r \in Roots : Intact(file, r) => Intact(file', r)
    BY <1>0, <1>8, BodyWriteFacts
  <2>3. Len(file) < 4 * Len(lastRoot) + 4 /\ Len(file') < 4 * Len(lastRoot) + 4
    BY <1>0, <2>1, <2>2
  <2>4. Recovered(file) = lastRoot
    BY <1>0, <2>1, <2>3, HistoryInAppend
  <2>5. Recovered(file') = lastRoot
    BY <1>0, <2>1, <2>2, <2>3, RecoveredIs DEF HandleOK
  <2>6. Same
    BY <2>1, <2>4, <2>5 DEF Same
  <2> QED
    BY <1>2, <2>6
<1>9. CASE CommitWrite
  <2>1. /\ phase = "CommitWrite" /\ pending' = pending /\ acked' = acked /\ retracted' = retracted
        /\ lastRoot' = lastRoot /\ pending # <<>>
    BY <1>0, <1>9 DEF CommitWrite, obsVars, HandleOK, InAppend
  <2>2. PICK n \in 0 .. 2 : /\ file' \in Seq(Cells) /\ Len(file') = Len(file) + n
                            /\ Len(file) = committedLen + 2 /\ committedLen = 4 * Len(lastRoot)
                            /\ n > 1 => Intact(file', pending)
                            /\ \A r \in Roots : Intact(file, r) => Intact(file', r)
    BY <1>0, <1>9, CommitWriteFacts
  <2>3. Len(file) < 4 * Len(lastRoot) + 4
    BY <1>0, <2>2
  <2>4. Recovered(file) = lastRoot
    BY <1>0, <2>1, <2>3, HistoryInAppend
  <2>5. Intact(file, lastRoot) /\ Extends(pending, lastRoot)
    BY <1>0, <2>1 DEF HandleOK
  <2>6. CASE n > 1
    <3>1. Len(file') < 4 * Len(pending) + 4
      BY <1>0, <2>2, <2>5 DEF Extends
    <3>2. Recovered(file') = pending
      BY <1>0, <2>2, <2>6, <3>1, RecoveredIs
    <3>3. Log!LogAppear
      BY <1>3, <2>1, <2>4, <3>2 DEF Log!LogAppear, Log!Front, Front
    <3> QED
      BY <3>3 DEF Log!LogNext
  <2>7. CASE ~(n > 1)
    <3>1. Len(file') < 4 * Len(lastRoot) + 4
      BY <1>0, <2>2, <2>7
    <3>2. Recovered(file') = lastRoot
      BY <1>0, <2>2, <2>5, <3>1, RecoveredIs
    <3>3. Same
      BY <2>1, <2>4, <3>2 DEF Same
    <3> QED
      BY <1>2, <3>3
  <2> QED
    BY <2>6, <2>7
<1>10. CASE CommitSync
  <2>1. phase = "CommitSync" /\ file' = file /\ pending # <<>>
    BY <1>0, <1>10 DEF CommitSync, HandleOK, InAppend
  <2>2. Recovered(file) = pending
    BY <1>0, <2>1, HistoryInAppend
  <2>3. CASE CommitPending
    <3>1. Log!LogAck
      BY <2>1, <2>2, <2>3 DEF CommitPending, Log!LogAck
    <3> QED
      BY <3>1 DEF Log!LogNext
  <2>4. CASE UNCHANGED <<lastRoot, committedLen, pending, obsVars>>
    <3>1. Same
      BY <2>1, <2>4 DEF obsVars, Same
    <3> QED
      BY <1>2, <3>1
  <2> QED
    BY <1>10, <2>3, <2>4 DEF CommitSync
<1>11. ASSUME NEW t \in BOOLEAN, ReconcileCommitted(t)
       PROVE  Log!LogNext
  <2>1. file' = g /\ Recovered(file) = pending /\ CommitPending /\ pending # <<>>
    BY <1>11 DEF ReconcileCommitted, PendingIsWhole, Reconcilable, g
  <2>2. Log!LogAck
    BY <1>1, <2>1 DEF CommitPending, Log!LogAck
  <2> QED
    BY <2>2 DEF Log!LogNext
<1>12. ASSUME NEW t \in BOOLEAN, ReconcileNotCommitted(t)
       PROVE  Log!LogNext
  <2>1. /\ file' = g /\ Recovered(file) = PreviousRoot(pending) /\ pending # <<>> /\ pending' = <<>>
        /\ retracted' = retracted \cup {pending} /\ acked' = acked /\ phase = "idle"
    BY <1>12 DEF ReconcileNotCommitted, PendingIsAbsent, Reconcilable, g
  <2>2. Recovered(file) = Front(pending)
    BY <1>3, <2>1
  <2>3. Log!LogRetract
    BY <1>1, <2>1, <2>2 DEF Log!LogRetract, Log!Front, Front
  <2> QED
    BY <2>3 DEF Log!LogNext
<1> QED
  BY <1>2, <1>4, <1>5, <1>6, <1>7, <1>8, <1>9, <1>10, <1>11, <1>12 DEF Handle

(* Repairs and foreign bytes are invisible; a process death forgets the     *)
(* attempt; a power loss may also take what was not acknowledged.           *)
LEMMA LogOther ==
  ASSUME MaxRot = 0, SafeIInv, Repair \/ Environment
  PROVE  Log!LogNext \/ UNCHANGED Log!logVars
<1>0. /\ HandleIInv /\ SafeOK /\ TypeOK /\ HandleOK /\ file \in Seq(Cells) /\ disk \in Seq(Cells)
      /\ acked \in Roots /\ Len(acked) \in Nat
  BY Types DEF SafeIInv, HandleIInv
<1>1. CASE Repair
  <2>1. pending' = pending /\ acked' = acked /\ retracted' = retracted
    BY <1>1 DEF Repair, Plan, ApplyQuarantine, ApplyRecheck, ApplyTruncate, ApplyRefused,
                handleVars, obsVars
  <2>2. CASE ApplyTruncate
    <3>1. plan.at = CommittedCells(file)
      BY <1>0, <2>2 DEF ApplyTruncate, SafeOK, Applying
    <3>2. file' = Take(file, CommittedCells(file))
      BY <2>2, <3>1 DEF ApplyTruncate
    <3>3. Recovered(file') = Recovered(file)
      BY <1>0, <3>2, CutCommitted
    <3> QED
      BY <2>1, <3>3 DEF Log!logVars
  <2>3. CASE ~ApplyTruncate
    <3>1. file' = file
      BY <1>1, <2>3 DEF Repair, Plan, ApplyQuarantine, ApplyRecheck, ApplyRefused, fileVars
    <3> QED
      BY <2>1, <3>1 DEF Log!logVars
  <2> QED
    BY <2>2, <2>3
<1>2. CASE ProcessDeath
  <2>1. Log!LogForget
    BY <1>2 DEF ProcessDeath, fileVars, obsVars, Log!LogForget
  <2> QED
    BY <2>1 DEF Log!LogNext
<1>3. CASE PowerLoss
  <2>1. /\ file' \in Seq(Cells) /\ Mixed(file, disk, file') /\ pending' = <<>>
        /\ acked' = acked /\ retracted' = retracted
    BY <1>0, <1>3, LossFacts
  <2>2. /\ \A r \in Roots : Intact(file', r) => Intact(file, r)
        /\ \A r \in Roots : Intact(file, r) /\ Intact(disk, r) => Intact(file', r)
    BY <1>0, <2>1, SoundLoss DEF SafeOK
  <2> DEFINE R == Recovered(file)
             S == Recovered(file')
  <2>3. S \in Roots /\ Intact(file', S) /\ Len(S) \in Nat /\ R \in Roots /\ Len(R) \in Nat
    BY <1>0, <2>1, RecoveredFacts DEF Roots
  <2>4. Len(S) <= Len(R) /\ S = Take(R, Len(S))
    BY <1>0, <2>2, <2>3, IntactRecovered
  <2>5. Len(acked) <= Len(S)
    BY <1>0, <2>1, <2>2, IntactRecovered DEF SafeOK
  <2> HIDE DEF R, S
  <2>6. Len(S) \in Len(acked) .. Len(R) /\ S = SubSeq(R, 1, Len(S))
    BY <1>0, <2>3, <2>4, <2>5 DEF Take
  <2>7. Log!LogCrash
    BY <2>1, <2>6 DEF Log!LogCrash, R, S
  <2> QED
    BY <2>7 DEF Log!LogNext
<1>4. CASE ForeignAppend
  <2>1. file' = Append(file, Junk) /\ pending' = pending /\ acked' = acked /\ retracted' = retracted
    BY <1>4 DEF ForeignAppend, handleVars, obsVars
  <2>2. file' \in Seq(Cells) /\ \A r \in Roots : Intact(file', r) <=> Intact(file, r)
    BY <1>0, <2>1, AppendJunk
  <2>3. Recovered(file') = Recovered(file)
    BY <1>0, <2>2, SameRecovered
  <2> QED
    BY <2>1, <2>3 DEF Log!logVars
<1> QED
  BY <1>0, <1>1, <1>2, <1>3, <1>4, NoRot DEF Environment

(* Every step of handle, repair tool and crashes is one step of the append  *)
(* log CommitLog, or none.                                                  *)
THEOREM JournalIsLog ==
  ASSUME MaxRot = 0
  PROVE  Spec => ImplementsCommitLog
<1>1. Init => Log!LogInit
  BY IntactEmpty DEF Init, Log!LogInit
<1>2. SafeIInv /\ [Next]_vars => [Log!LogNext]_(Log!logVars)
  <2> SUFFICES ASSUME SafeIInv, [Next]_vars
               PROVE  Log!LogNext \/ UNCHANGED Log!logVars
    OBVIOUS
  <2>1. CASE UNCHANGED vars
    BY <2>1 DEF vars, fileVars, handleVars, obsVars, Log!logVars
  <2> QED
    BY <2>1, LogHandle, LogOther DEF Next
<1> QED
  BY <1>1, <1>2, SafeInvariance, PTL DEF Spec, ImplementsCommitLog, Log!LogSpec
=============================================================================
