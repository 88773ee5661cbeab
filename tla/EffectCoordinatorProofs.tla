----------------------- MODULE EffectCoordinatorProofs -----------------------
(***************************************************************************)
(* What EffectCoordinator promises, for every set of operations, every      *)
(* limit and every interleaving of handlers, failed appends, deaths and     *)
(* recoveries. The replay of a history is a recursive function of its       *)
(* length; what one more record adds to it is proved first, and everything  *)
(* else is an induction over the steps of the specification.                *)
(***************************************************************************)
EXTENDS EffectCoordinator, CommonLemmas

-----------------------------------------------------------------------------
(* The replay of a history.                                                 *)

(* g is the table of what the first records of h replay to, up to n.        *)
RunsTo(g, h, n) ==
  g = [i \in 0 .. n |-> IF i = 0 THEN Nothing ELSE ReplayRecord(g[i - 1], h[i])]

(* The replay is the last entry of the table.                               *)
LEMMA ReplayUnfold ==
  ASSUME NEW h
  PROVE  Replay(h) = (CHOOSE g : RunsTo(g, h, Len(h)))[Len(h)]
  BY DEF Replay, RunsTo

(* Two histories that agree on their first records replay them alike.       *)
LEMMA RunUnique ==
  ASSUME NEW h, NEW k, NEW n \in Nat, NEW m \in Nat, n <= m,
         NEW g, NEW f, RunsTo(g, h, n), RunsTo(f, k, m),
         \A i \in 1 .. n : h[i] = k[i]
  PROVE  \A i \in 0 .. n : g[i] = f[i]
<1> DEFINE B == {i \in 0 .. n : g[i] # f[i]}
<1>1. SUFFICES ASSUME B # {} PROVE FALSE
  OBVIOUS
<1>2. B \in SUBSET (0 .. n)
  OBVIOUS
<1> HIDE DEF B
<1>3. PICK i \in B : \A j \in B : i <= j
  BY <1>1, <1>2, LeastNumber
<1> USE DEF B
<1>4. i \in 0 .. n /\ i \in 0 .. m /\ g[i] # f[i]
  BY <1>3
<1>5. CASE i = 0
  BY <1>4, <1>5 DEF RunsTo
<1>6. CASE i # 0
  <2>1. i - 1 \in 0 .. n /\ ~(i <= i - 1) /\ i \in 1 .. n
    BY <1>4, <1>6
  <2>2. g[i - 1] = f[i - 1]
    BY <1>3, <2>1
  <2>3. g[i] = ReplayRecord(g[i - 1], h[i]) /\ f[i] = ReplayRecord(f[i - 1], k[i])
    BY <1>4, <1>6 DEF RunsTo
  <2> QED
    BY <1>4, <2>1, <2>2, <2>3
<1> QED
  BY <1>5, <1>6

(* Every history has its table.                                             *)
LEMMA RunExists ==
  ASSUME NEW h, NEW n \in Nat
  PROVE  \E g : RunsTo(g, h, n)
<1> DEFINE B == {i \in 0 .. n : ~(\E g : RunsTo(g, h, i))}
<1>1. SUFFICES ASSUME B # {} PROVE FALSE
  OBVIOUS
<1>2. B \in SUBSET (0 .. n)
  OBVIOUS
<1> HIDE DEF B
<1>3. PICK i \in B : \A j \in B : i <= j
  BY <1>1, <1>2, LeastNumber
<1> USE DEF B
<1>4. i \in 0 .. n /\ ~(\E g : RunsTo(g, h, i))
  BY <1>3
<1>5. CASE i = 0
  <2> DEFINE z == [j \in 0 .. 0 |-> Nothing]
  <2>1. RunsTo(z, h, 0)
    BY DEF RunsTo
  <2> HIDE DEF z
  <2> QED
    BY <1>4, <1>5, <2>1
<1>6. CASE i # 0
  <2>1. i - 1 \in 0 .. n /\ ~(i <= i - 1) /\ i \in Nat
    BY <1>4, <1>6
  <2>2. PICK g : RunsTo(g, h, i - 1)
    BY <1>3, <2>1
  <2> DEFINE f == [j \in 0 .. i |-> IF j = i THEN ReplayRecord(g[i - 1], h[i]) ELSE g[j]]
  <2>3. RunsTo(f, h, i)
    <3>1. ASSUME NEW j \in 0 .. i
          PROVE  f[j] = IF j = 0 THEN Nothing ELSE ReplayRecord(f[j - 1], h[j])
      <4>1. CASE j = 0
        <5>1. 0 \in 0 .. i - 1 /\ j # i
          BY <1>6, <2>1, <4>1
        <5>2. g[0] = Nothing
          BY <5>1, <2>2 DEF RunsTo
        <5> QED
          BY <4>1, <5>1, <5>2
      <4>2. CASE j = i
        <5>1. i - 1 \in 0 .. i /\ i - 1 # i
          BY <1>6, <2>1
        <5>2. f[i - 1] = g[i - 1]
          BY <5>1
        <5> QED
          BY <1>6, <4>2, <5>2
      <4>3. CASE j # 0 /\ j # i
        <5>1. j \in 0 .. i - 1 /\ j - 1 \in 0 .. i /\ j - 1 # i
          BY <2>1, <4>3
        <5>2. f[j] = g[j] /\ f[j - 1] = g[j - 1]
          BY <5>1, <4>3
        <5>3. g[j] = ReplayRecord(g[j - 1], h[j])
          BY <5>1, <2>2, <4>3 DEF RunsTo
        <5> QED
          BY <4>3, <5>2, <5>3
      <4> QED
        BY <4>1, <4>2, <4>3
    <3>2. f = [j \in 0 .. i |-> f[j]]
      OBVIOUS
    <3> HIDE DEF f
    <3>3. f = [j \in 0 .. i |-> IF j = 0 THEN Nothing ELSE ReplayRecord(f[j - 1], h[j])]
      BY <3>1, <3>2
    <3> QED
      BY <3>3 DEF RunsTo
  <2> HIDE DEF f
  <2> QED
    BY <1>4, <2>3
<1> QED
  BY <1>5, <1>6

(* The replay of nothing.                                                   *)
LEMMA ReplayEmpty == Replay(<<>>) = Nothing
<1> DEFINE g == CHOOSE f : RunsTo(f, <<>>, Len(<<>>))
<1>1. Len(<<>>) = 0
  OBVIOUS
<1>2. RunsTo(g, <<>>, 0)
  BY <1>1, RunExists
<1>3. Replay(<<>>) = g[0]
  BY <1>1, ReplayUnfold
<1> HIDE DEF g
<1> QED
  BY <1>2, <1>3 DEF RunsTo

(* What one more record adds to a history.                                  *)
LEMMA ReplayAppend ==
  ASSUME NEW S, NEW h \in Seq(S), NEW e \in S
  PROVE  Replay(Append(h, e)) = ReplayRecord(Replay(h), e)
<1> DEFINE k == Append(h, e)
           n == Len(h)
<1>1. n \in Nat /\ Len(k) = n + 1 /\ k[n + 1] = e /\ \A i \in 1 .. n : h[i] = k[i]
  OBVIOUS
<1> HIDE DEF k, n
<1>2. PICK g : RunsTo(g, h, n) /\ Replay(h) = g[n]
  <2>1. RunsTo(CHOOSE g : RunsTo(g, h, n), h, n)
    BY <1>1, RunExists
  <2> QED
    BY <2>1, ReplayUnfold DEF n
<1>3. PICK f : RunsTo(f, k, n + 1) /\ Replay(k) = f[n + 1]
  <2>1. n + 1 \in Nat
    BY <1>1
  <2>2. RunsTo(CHOOSE f : RunsTo(f, k, n + 1), k, n + 1)
    BY <2>1, RunExists
  <2> QED
    BY <1>1, <2>2, ReplayUnfold
<1>4. n + 1 \in Nat /\ n <= n + 1 /\ n \in 0 .. n /\ n + 1 \in 0 .. n + 1 /\ n + 1 # 0
      /\ (n + 1) - 1 = n
  BY <1>1
<1>5. \A i \in 0 .. n : g[i] = f[i]
  BY <1>1, <1>2, <1>3, <1>4, RunUnique
<1>6. f[n + 1] = ReplayRecord(f[n], k[n + 1])
  BY <1>3, <1>4 DEF RunsTo
<1> QED
  BY <1>1, <1>2, <1>3, <1>4, <1>5, <1>6 DEF k

-----------------------------------------------------------------------------
(* The inductive invariant.                                                 *)

(* A receipt and its obligation move together.                              *)
ReceiptOK(r) ==
  /\ r.state = "absent" => r = NoReceipt
  /\ r.state # "absent" => r.fence >= 1 /\ r.obligation # "absent"
  /\ r.state \in {"prepared", "committed", "adapter_accepted"} => r.obligation = "pending"
  /\ r.state = "observed" => r.obligation \in {"pending", "indeterminate"}
  /\ r.state \in Settled => r.obligation = r.state

JournalOK(j) == j \in [Ops -> Receipt] /\ \A op \in Ops : ReceiptOK(j[op])

(* No record follows a terminal one of its operation, and the replay knows  *)
(* the outcome.                                                             *)
LastWord(h) ==
  \A i \in 1 .. Len(h) : h[i].to \in Terminal =>
    /\ Replay(h).journal[h[i].op].state \in Terminal
    /\ \A j \in i + 1 .. Len(h) : h[j].op # h[i].op

(* The store.                                                               *)
StoreOK(h) ==
  /\ h \in Seq(Events)
  /\ Replay(h).ok
  /\ JournalOK(Replay(h).journal)
  /\ Len(h) + Remaining(Replay(h).journal) <= MaxRecords
  /\ LastWord(h)

(* Past its commitment.                                                     *)
Past(state) == state \notin {"absent", "prepared", "cancelled"}

(* The permits and dispatches of an operation, against its durable state.   *)
PermitOK(op, state) ==
  /\ permit[op] # "none" \/ dispatches[op] > 0 => Past(state)
  /\ permit[op] = "held" => dispatches[op] = 0
  /\ dispatches[op] <= 1

PermitsOK == \A op \in Ops : PermitOK(op, Durable.journal[op].state)

(* A process that has not opened the store.                                 *)
Unopened ==
  /\ journal = [op \in Ops |-> NoReceipt]
  /\ bound = {} /\ ~poisoned /\ region = "active"
  /\ tree = [op \in Ops |-> NoObligation]
  /\ permit = [op \in Ops |-> "none"]
  /\ lease = 0 /\ lastFence = 0

(* The owner's memory, against the store.                                   *)
OwnerOK ==
  /\ TypeOK
  /\ JournalOK(journal)
  /\ Ready => journal = Durable.journal
  /\ owner = "down" => Unopened
  /\ owner = "live" => Retained(journal) \subseteq bound
  /\ \A op \in Ops : tree[op].state = "absent" => tree[op] = NoObligation
  /\ ObligationsAgree
  /\ ClosedRegionIsSettled

(* The fences: a live owner was the first on its store, so that every       *)
(* permit was issued under a lease of its own registry.                     *)
FencesOK ==
  /\ owner = "live" => \A i \in 1 .. Len(fencesUsed) : fencesUsed[i] <= lastFence
  /\ lease \in {0, lastFence}
  /\ fencesUsed # <<>> => history # <<>>
  /\ FencesInOrder

CoordInv ==
  /\ StoreOK(history)
  /\ OwnerOK
  /\ PermitsOK
  /\ FencesOK

-----------------------------------------------------------------------------
(* Records and receipts.                                                    *)

(* What a record carries.                                                   *)
LEMMA EventFacts ==
  ASSUME NEW e \in Events
  PROVE  /\ e.op \in Ops /\ e.to \in States \ {"absent"}
         /\ e.proof \in OptProof /\ e.note \in OptNote
         /\ e.fence \in 0 .. MaxFence
         /\ e.to = "prepared" => e.fence \in 1 .. MaxFence /\ e.proof = None
         /\ e.to \in Terminal => e.proof \in Proofs
<1>1. MaxFence \in Nat
  BY EffectAssumption
<1>2. PICK op \in Ops :
        \/ \E f \in 1 .. MaxFence : e = Event(op, "prepared", None, None, f)
        \/ e = Event(op, "committed", None, None, 0)
        \/ \E p \in OptProof : e = Event(op, "adapter_accepted", p, None, 0)
        \/ \E to \in Terminal \cup {"observed"}, p \in Proofs : e = Event(op, to, p, None, 0)
        \/ \E n \in Notes : e = Event(op, "indeterminate", None, n, 0)
  BY DEF Events
<1>3. CASE \E f \in 1 .. MaxFence : e = Event(op, "prepared", None, None, f)
  BY <1>1, <1>3 DEF Event, States, Settled, Terminal, OptProof, OptNote
<1>4. CASE e = Event(op, "committed", None, None, 0)
  BY <1>1, <1>4 DEF Event, States, Settled, Terminal, OptProof, OptNote
<1>5. CASE \E p \in OptProof : e = Event(op, "adapter_accepted", p, None, 0)
  BY <1>1, <1>5 DEF Event, States, Settled, Terminal, OptProof, OptNote
<1>6. CASE \E to \in Terminal \cup {"observed"}, p \in Proofs : e = Event(op, to, p, None, 0)
  BY <1>1, <1>6 DEF Event, States, Settled, Terminal, OptProof, OptNote
<1>7. CASE \E n \in Notes : e = Event(op, "indeterminate", None, n, 0)
  BY <1>1, <1>7 DEF Event, States, Settled, Terminal, OptProof, OptNote
<1> QED
  BY <1>2, <1>3, <1>4, <1>5, <1>6, <1>7

(* The fields of a receipt after a record.                                  *)
LEMMA ApplyFields ==
  ASSUME NEW r, NEW e
  PROVE  /\ Apply(r, e).state = e.to
         /\ Apply(r, e).fence = IF e.to = "prepared" THEN e.fence ELSE r.fence
         /\ Apply(r, e).note = IF e.to = "indeterminate" THEN e.note ELSE r.note
         /\ e.to = "prepared" => Apply(r, e).obligation = "pending"
         /\ e.to \in Settled => Apply(r, e).obligation = e.to
         /\ e.to \notin Settled \cup {"prepared"} => Apply(r, e).obligation = r.obligation
         /\ Apply(r, e).proof = IF e.to \in Terminal THEN e.proof ELSE r.proof
  BY DEF Apply, Settled, Terminal

(* A legal record leaves no state it could not have been in, and never      *)
(* leaves a terminal state.                                                 *)
LEMMA LegalFacts ==
  ASSUME NEW r, NEW e, Legal(r, e)
  PROVE  /\ r.state \notin Terminal
         /\ r.state = "absent" <=> e.to = "prepared"
         /\ Past(r.state) => Past(e.to)
         /\ e.to = "committed" => r.state = "prepared"
         /\ e.to = "adapter_accepted" => r.state = "committed"
         /\ e.to = "observed" => r.state \in {"adapter_accepted", "indeterminate"}
  BY DEF Legal, Transitions, Terminal, Past

(* A legal record keeps a receipt well formed.                              *)
LEMMA ApplyOK ==
  ASSUME NEW r \in Receipt, ReceiptOK(r), NEW e \in Events, Legal(r, e)
  PROVE  Apply(r, e) \in Receipt /\ ReceiptOK(Apply(r, e))
<1> DEFINE a == Apply(r, e)
<1>1. /\ e.op \in Ops /\ e.to \in States \ {"absent"}
      /\ e.proof \in OptProof /\ e.note \in OptNote
      /\ e.fence \in 0 .. MaxFence
      /\ e.to = "prepared" => e.fence \in 1 .. MaxFence
  BY EventFacts
<1>2. a \in Receipt
  <2>1. r.fence \in 0 .. MaxFence /\ r.result \in OptProof /\ r.note \in OptNote
        /\ r.obligation \in {"absent", "pending"} \cup Settled /\ r.proof \in OptProof
    BY DEF Receipt
  <2>2. (CASE e.to = "prepared" -> "pending"
           [] e.to \in Settled -> e.to
           [] OTHER -> r.obligation) \in {"absent", "pending"} \cup Settled
    BY <2>1 DEF Settled, Terminal
  <2> QED
    BY <1>1, <2>1, <2>2 DEF Apply, Receipt
<1>3. /\ a.state = e.to
      /\ a.fence = IF e.to = "prepared" THEN e.fence ELSE r.fence
      /\ e.to = "prepared" => a.obligation = "pending"
      /\ e.to \in Settled => a.obligation = e.to
      /\ e.to \notin Settled \cup {"prepared"} => a.obligation = r.obligation
  BY ApplyFields
<1>4. /\ r.state \notin Terminal
      /\ r.state = "absent" <=> e.to = "prepared"
      /\ e.to = "committed" => r.state = "prepared"
      /\ e.to = "adapter_accepted" => r.state = "committed"
      /\ e.to = "observed" => r.state \in {"adapter_accepted", "indeterminate"}
  BY LegalFacts
<1> HIDE DEF a
<1>5. a.fence >= 1
  BY <1>1, <1>3, <1>4, EffectAssumption DEF ReceiptOK
<1>6. a.obligation # "absent"
  BY <1>1, <1>3, <1>4 DEF ReceiptOK, Settled, Terminal
<1>7. /\ a.state \in {"prepared", "committed", "adapter_accepted"} => a.obligation = "pending"
      /\ a.state = "observed" => a.obligation \in {"pending", "indeterminate"}
      /\ a.state \in Settled => a.obligation = a.state
  BY <1>1, <1>3, <1>4 DEF ReceiptOK, Settled, Terminal
<1>8. ReceiptOK(a)
  BY <1>1, <1>3, <1>5, <1>6, <1>7 DEF ReceiptOK
<1> QED
  BY <1>2, <1>8 DEF a

(* The journal of an empty store is well formed.                            *)
LEMMA NothingOK == JournalOK([op \in Ops |-> NoReceipt])
<1>1. NoReceipt \in Receipt
  BY EffectAssumption DEF NoReceipt, Receipt, States, OptProof, OptNote
<1>2. ReceiptOK(NoReceipt)
  BY DEF NoReceipt, ReceiptOK, Settled, Terminal
<1> QED
  BY <1>1, <1>2 DEF JournalOK

(* What a legal record adds to a replay.                                    *)
LEMMA RecordReplays ==
  ASSUME NEW d, d.ok, NEW e, Legal(d.journal[e.op], e),
         e.to = "prepared" => Cardinality(Retained(d.journal)) < MaxRetained
  PROVE  /\ ReplayRecord(d, e).ok
         /\ ReplayRecord(d, e).journal = [d.journal EXCEPT ![e.op] = Apply(d.journal[e.op], e)]
  BY Zenon DEF ReplayRecord

-----------------------------------------------------------------------------
(* The store.                                                               *)

(* An empty store needs no record more.                                     *)
LEMMA NothingRemains == Remaining([op \in Ops |-> NoReceipt]) = 0
<1> DEFINE f == [op \in Ops |-> 0]
<1>1. Remaining([op \in Ops |-> NoReceipt]) = SumFunction(f)
  <2>1. [op \in Ops |-> Needed([q \in Ops |-> NoReceipt][op].state)] = f
    BY DEF Needed, NoReceipt
  <2> QED
    BY <2>1 DEF Remaining
<1>2. f \in [Ops -> Nat] /\ Units(f, Ops) = {}
  BY DEF Units
<1> HIDE DEF f
<1> QED
  BY <1>1, <1>2, SumIsCount, FS_EmptySet, EffectAssumption

(* An empty store is one that replays.                                      *)
LEMMA StoreEmpty == StoreOK(<<>>) /\ Replay(<<>>).journal = [op \in Ops |-> NoReceipt]
<1>1. Replay(<<>>).ok /\ Replay(<<>>).journal = [op \in Ops |-> NoReceipt]
  <2>1. Nothing.ok
    BY Zenon DEF Nothing
  <2>2. Nothing.journal = [op \in Ops |-> NoReceipt]
    BY Zenon DEF Nothing
  <2> QED
    BY <2>1, <2>2, ReplayEmpty
<1>2. Len(<<>>) + Remaining(Replay(<<>>).journal) <= MaxRecords
  BY <1>1, NothingRemains, EffectAssumption
<1>3. LastWord(<<>>)
  BY DEF LastWord
<1> QED
  BY <1>1, <1>2, <1>3, NothingOK DEF StoreOK

(* A legal record that leaves room for the outstanding operations extends   *)
(* the store, whether or not the caller learns of it.                       *)
LEMMA StoreAppend ==
  ASSUME NEW h, StoreOK(h), NEW e \in Events, Legal(Replay(h).journal[e.op], e),
         e.to = "prepared" => Cardinality(Retained(Replay(h).journal)) < MaxRetained,
         NEW j, j = [Replay(h).journal EXCEPT ![e.op] = Apply(Replay(h).journal[e.op], e)],
         Len(h) + 1 + Remaining(j) <= MaxRecords
  PROVE  StoreOK(Append(h, e)) /\ Replay(Append(h, e)).journal = j
<1> DEFINE k == Append(h, e)
           d == Replay(h)
           op == e.op
<1>1. h \in Seq(Events) /\ d.ok /\ JournalOK(d.journal) /\ LastWord(h)
  BY DEF StoreOK
<1>2. op \in Ops /\ e.to # "absent"
  BY EventFacts
<1>3. Replay(k) = ReplayRecord(d, e)
  BY <1>1, ReplayAppend
<1>4. Replay(k).ok /\ Replay(k).journal = j
  <2> HIDE DEF d, k
  <2>1. d.ok /\ Legal(d.journal[e.op], e)
        /\ (e.to = "prepared" => Cardinality(Retained(d.journal)) < MaxRetained)
        /\ j = [d.journal EXCEPT ![e.op] = Apply(d.journal[e.op], e)]
    BY <1>1 DEF d
  <2> QED
    BY <1>3, <2>1, RecordReplays
<1>5. d.journal[op] \in Receipt /\ ReceiptOK(d.journal[op]) /\ d.journal \in [Ops -> Receipt]
  BY <1>1, <1>2 DEF JournalOK
<1>6. Apply(d.journal[op], e) \in Receipt /\ ReceiptOK(Apply(d.journal[op], e))
  BY <1>5, ApplyOK
<1>7. JournalOK(j)
  <2> HIDE DEF d
  <2>1. ASSUME NEW q \in Ops
        PROVE  j[q] \in Receipt /\ ReceiptOK(j[q])
    <3>1. CASE q = op
      <4>1. j[q] = Apply(d.journal[op], e)
        BY <1>2, <1>5, <3>1 DEF d
      <4> QED
        BY <4>1, <1>6
    <3>2. CASE q # op
      <4>1. j[q] = d.journal[q]
        BY <1>2, <1>5, <3>2 DEF d
      <4> QED
        BY <4>1, <1>1 DEF JournalOK
    <3> QED
      BY <3>1, <3>2
  <2>2. j = [q \in Ops |-> j[q]]
    BY <1>2, <1>5 DEF d
  <2>3. j \in [Ops -> Receipt]
    BY <2>1, <2>2
  <2> QED
    BY <2>1, <2>3 DEF JournalOK
<1>8. k \in Seq(Events) /\ Len(h) \in Nat /\ Len(k) = Len(h) + 1
      /\ k[Len(h) + 1] = e /\ \A i \in 1 .. Len(h) : k[i] = h[i]
  BY <1>1
<1>9. LastWord(k)
  <2> HIDE DEF d, k
  <2>1. j[op].state = e.to /\ (\A q \in Ops \ {op} : j[q] = d.journal[q])
        /\ d.journal[op].state \notin Terminal
    <3>1. j[op] = Apply(d.journal[op], e) /\ (\A q \in Ops \ {op} : j[q] = d.journal[q])
      BY <1>2, <1>5 DEF d
    <3>2. Apply(d.journal[op], e).state = e.to
      BY ApplyFields
    <3>3. d.journal[op].state \notin Terminal
      BY LegalFacts DEF d
    <3> QED
      BY <3>1, <3>2, <3>3
  <2>2. ASSUME NEW i \in 1 .. Len(h), h[i].to \in Terminal
        PROVE  /\ h[i].op # op /\ j[h[i].op].state \in Terminal
               /\ \A n \in i + 1 .. Len(h) : h[n].op # h[i].op
    <3>1. d.journal[h[i].op].state \in Terminal
          /\ \A n \in i + 1 .. Len(h) : h[n].op # h[i].op
      BY <1>1, <2>2 DEF LastWord, d
    <3>2. h[i] \in Events
      BY <1>1
    <3>3. h[i].op \in Ops
      BY <3>2, EventFacts
    <3> QED
      BY <2>1, <3>1, <3>3
  <2>3. ASSUME NEW i \in 1 .. Len(k), k[i].to \in Terminal
        PROVE  /\ j[k[i].op].state \in Terminal
               /\ \A n \in i + 1 .. Len(k) : k[n].op # k[i].op
    <3>1. CASE i = Len(h) + 1
      <4>1. i + 1 .. Len(k) = {}
        BY <1>8, <3>1
      <4> QED
        BY <1>8, <2>1, <2>3, <3>1, <4>1
    <3>2. CASE i # Len(h) + 1
      <4>1. i \in 1 .. Len(h)
        BY <1>8, <3>2
      <4>2. k[i] = h[i] /\ h[i].to \in Terminal
        BY <1>8, <2>3, <4>1
      <4>3. ASSUME NEW n \in i + 1 .. Len(k)
            PROVE  k[n].op # h[i].op
        <5>1. CASE n = Len(h) + 1
          BY <1>8, <2>2, <4>1, <4>2, <5>1
        <5>2. CASE n # Len(h) + 1
          <6>1. n \in i + 1 .. Len(h) /\ n \in 1 .. Len(h)
            BY <1>8, <4>1, <5>2
          <6> QED
            BY <1>8, <2>2, <4>1, <4>2, <6>1
        <5> QED
          BY <5>1, <5>2
      <4> QED
        BY <2>2, <4>1, <4>2, <4>3
    <3> QED
      BY <3>1, <3>2
  <2> QED
    BY <1>4, <2>3 DEF LastWord
<1>10. Len(k) + Remaining(Replay(k).journal) <= MaxRecords
  BY <1>4, <1>8
<1> QED
  BY <1>4, <1>7, <1>8, <1>9, <1>10 DEF StoreOK

-----------------------------------------------------------------------------
(* What a write may add to the store.                                       *)

(* A handler that reaches its append is ready, so its journal is the        *)
(* replay, and the record is a legal one that the replay accepts.           *)
LEMMA WriteFacts ==
  ASSUME CoordInv, NEW e \in Events, Attempted(e)
  PROVE  /\ Ready /\ journal = Durable.journal /\ e.op \in Ops
         /\ Legal(journal[e.op], e)
         /\ journal[e.op] \in Receipt /\ ReceiptOK(journal[e.op])
         /\ StoreOK(Append(history, e))
         /\ Replay(Append(history, e)).journal = Candidate(e)
<1>1. Ready /\ Legal(journal[e.op], e) /\ Room(e)
  BY DEF Attempted, CanPrepare, CanCommit, CanReport, CanReconcile
<1>2. journal = Durable.journal
  BY <1>1 DEF CoordInv, OwnerOK
<1>3. e.op \in Ops
  BY EventFacts
<1>4. e.to = "prepared" => Cardinality(Retained(journal)) < MaxRetained
  <2> SUFFICES ASSUME e.to = "prepared"
               PROVE  Cardinality(Retained(journal)) < MaxRetained
    OBVIOUS
  <2>1. CanPrepare(e)
    BY DEF Attempted, CanCommit, CanReport, CanReconcile, Settled, Terminal
  <2>2. owner = "live" /\ Cardinality(bound) < MaxRetained
    BY <2>1 DEF CanPrepare
  <2>3. Retained(journal) \subseteq bound
    BY <2>2 DEF CoordInv, OwnerOK
  <2>4. bound \subseteq Retained(journal)
    BY DEF CoordInv, OwnerOK, TypeOK, Retained
  <2>5. Retained(journal) = bound
    BY <2>3, <2>4
  <2> QED
    BY <2>2, <2>5
<1>5. StoreOK(history)
  BY DEF CoordInv
<1>6. Len(history) + 1 + Remaining(Candidate(e)) <= MaxRecords
  BY <1>1 DEF Room
<1>7. Candidate(e) = [Replay(history).journal EXCEPT ![e.op] = Apply(Replay(history).journal[e.op], e)]
  BY <1>2 DEF Candidate, Durable
<1>8. Legal(Replay(history).journal[e.op], e)
      /\ (e.to = "prepared" => Cardinality(Retained(Replay(history).journal)) < MaxRetained)
  BY <1>1, <1>2, <1>4 DEF Durable
<1>9. StoreOK(Append(history, e)) /\ Replay(Append(history, e)).journal = Candidate(e)
  BY <1>5, <1>6, <1>7, <1>8, StoreAppend
<1>10. journal[e.op] \in Receipt /\ ReceiptOK(journal[e.op])
  BY <1>3 DEF CoordInv, OwnerOK, JournalOK
<1> QED
  BY <1>1, <1>2, <1>3, <1>9, <1>10

(* The journal after a write.                                               *)
LEMMA CandidateFacts ==
  ASSUME CoordInv, NEW e \in Events, Attempted(e)
  PROVE  /\ JournalOK(Candidate(e))
         /\ Candidate(e)[e.op] = Apply(journal[e.op], e)
         /\ \A op \in Ops \ {e.op} : Candidate(e)[op] = journal[op]
<1>1. /\ e.op \in Ops
      /\ StoreOK(Append(history, e))
      /\ Replay(Append(history, e)).journal = Candidate(e)
  BY WriteFacts
<1>2. journal \in [Ops -> Receipt]
  BY DEF CoordInv, OwnerOK, TypeOK
<1>3. JournalOK(Candidate(e))
  BY <1>1 DEF StoreOK
<1>4. Candidate(e)[e.op] = Apply(journal[e.op], e)
      /\ \A op \in Ops \ {e.op} : Candidate(e)[op] = journal[op]
  BY <1>1, <1>2 DEF Candidate
<1> QED
  BY <1>3, <1>4

(* No write takes an operation back behind its commitment.                  *)
LEMMA PastKept ==
  ASSUME CoordInv, NEW e \in Events, Attempted(e), NEW op \in Ops,
         Past(journal[op].state)
  PROVE  Past(Candidate(e)[op].state)
<1>1. Candidate(e)[e.op] = Apply(journal[e.op], e)
      /\ \A q \in Ops \ {e.op} : Candidate(e)[q] = journal[q]
  BY CandidateFacts
<1>2. Legal(journal[e.op], e)
  BY WriteFacts
<1>3. Apply(journal[e.op], e).state = e.to
  BY ApplyFields
<1>4. Past(journal[e.op].state) => Past(e.to)
  BY <1>2, LegalFacts
<1> QED
  BY <1>1, <1>3, <1>4

(* A handler whose append succeeds has attempted it.                        *)
LEMMA Handlers ==
  ASSUME NEW e, Prepare(e) \/ Commit(e) \/ Report(e) \/ Reconcile(e)
  PROVE  Attempted(e) /\ history' = Append(history, e) /\ journal' = Candidate(e)
         /\ owner' = owner /\ poisoned' = poisoned
<1>1. Persist(e) /\ (CanPrepare(e) \/ CanCommit(e) \/ CanReport(e) \/ CanReconcile(e))
  BY DEF Prepare, Commit, Report, Reconcile
<1> QED
  BY <1>1 DEF Persist, Attempted

(* Every step leaves the store or appends one attempted record to it.       *)
LEMMA HistoryStep ==
  ASSUME [Next]_vars
  PROVE  \/ history' = history
         \/ \E e \in Events : Attempted(e) /\ history' = Append(history, e)
<1>1. CASE UNCHANGED vars
  BY <1>1 DEF vars
<1>2. ASSUME NEW e \in Events, Prepare(e) \/ Commit(e) \/ Report(e) \/ Reconcile(e)
      PROVE  Attempted(e) /\ history' = Append(history, e)
  BY <1>2, Handlers
<1>3. ASSUME NEW e \in Events, AppendFails(e)
      PROVE  Attempted(e) /\ history' \in {history, Append(history, e)}
  BY <1>3 DEF AppendFails
<1>4. ASSUME NEW op \in Ops, Dispatch(op) \/ DropPermit(op) \/ Adopt(op)
      PROVE  history' = history
  BY <1>4 DEF Dispatch, DropPermit, Adopt
<1>5. ASSUME LeaseTaken \/ LeaseEnds \/ ProcessDeath \/ WithJournal \/ Recover
      PROVE  history' = history
  BY <1>5 DEF LeaseTaken, LeaseEnds, ProcessDeath, WithJournal, Recover
<1>6. ASSUME RequestDrain \/ BeginDrain \/ BeginFinalize \/ Finalize
      PROVE  history' = history
  BY <1>6 DEF RequestDrain, BeginDrain, BeginFinalize, Finalize, RegionMoves
<1> QED
  BY <1>1, <1>2, <1>3, <1>4, <1>5, <1>6 DEF Next

(* The store stays one that replays.                                        *)
LEMMA StoreStep ==
  ASSUME CoordInv, [Next]_vars
  PROVE  StoreOK(history')
<1>1. CASE history' = history
  BY <1>1 DEF CoordInv
<1>2. ASSUME NEW e \in Events, Attempted(e), history' = Append(history, e)
      PROVE  StoreOK(history')
  BY <1>2, WriteFacts
<1> QED
  BY <1>1, <1>2, HistoryStep

-----------------------------------------------------------------------------
(* Permits and dispatches.                                                  *)

(* No step takes the durable state of an operation back.                    *)
LEMMA PastStep ==
  ASSUME CoordInv, [Next]_vars, NEW op \in Ops, Past(Durable.journal[op].state)
  PROVE  Past(Durable.journal[op].state)'
<1>1. CASE history' = history
  BY <1>1 DEF Durable
<1>2. ASSUME NEW e \in Events, Attempted(e), history' = Append(history, e)
      PROVE  Past(Durable.journal[op].state)'
  <2>1. journal = Durable.journal /\ Replay(history').journal = Candidate(e)
    BY <1>2, WriteFacts
  <2>2. Past(Candidate(e)[op].state)
    BY <1>2, <2>1, PastKept
  <2> QED
    BY <2>1, <2>2 DEF Durable
<1> QED
  BY <1>1, <1>2, HistoryStep

(* A step that dispatches nothing and issues no permit.                     *)
LEMMA PermitsKept ==
  ASSUME CoordInv, [Next]_vars, \A op \in Ops : permit'[op] \in {permit[op], "none"},
         dispatches' = dispatches
  PROVE  PermitsOK'
<1> SUFFICES ASSUME NEW op \in Ops
             PROVE  PermitOK(op, Durable.journal[op].state)'
  BY DEF PermitsOK
<1>1. PermitOK(op, Durable.journal[op].state)
  BY DEF CoordInv, PermitsOK
<1>2. Past(Durable.journal[op].state) => Past(Durable.journal[op].state)'
  BY PastStep
<1> QED
  BY <1>1, <1>2 DEF PermitOK

(* Commit issues the permit of an operation that never had one: before it,  *)
(* the store says the operation is only prepared.                           *)
LEMMA PermitsCommit ==
  ASSUME CoordInv, [Next]_vars, NEW e \in Events, Commit(e)
  PROVE  PermitsOK'
<1>1. Attempted(e) /\ history' = Append(history, e)
  BY Handlers
<1>2. permit' = [permit EXCEPT ![e.op] = "held"] /\ dispatches' = dispatches /\ e.to = "committed"
  BY DEF Commit, CanCommit
<1>3. permit \in [Ops -> {"none", "held", "claimed"}] /\ dispatches \in [Ops -> Nat]
  BY DEF CoordInv, OwnerOK, TypeOK
<1>4. /\ e.op \in Ops /\ journal = Durable.journal
      /\ Legal(journal[e.op], e) /\ Replay(history').journal = Candidate(e)
  BY <1>1, WriteFacts
<1>5. Candidate(e)[e.op].state = "committed"
  BY <1>1, <1>2, CandidateFacts, ApplyFields
<1>6. ~Past(Durable.journal[e.op].state)
  BY <1>2, <1>4, LegalFacts DEF Past
<1> SUFFICES ASSUME NEW op \in Ops
             PROVE  PermitOK(op, Durable.journal[op].state)'
  BY DEF PermitsOK
<1>7. PermitOK(op, Durable.journal[op].state)
  BY DEF CoordInv, PermitsOK
<1>8. CASE op = e.op
  <2>1. dispatches[op] = 0
    BY <1>3, <1>6, <1>7, <1>8 DEF PermitOK
  <2>2. Past(Durable.journal[op].state)'
    BY <1>4, <1>5, <1>8 DEF Past, Durable
  <2>3. permit'[op] = "held" /\ dispatches'[op] = 0
    BY <1>2, <1>3, <1>4, <1>8, <2>1
  <2> QED
    BY <2>2, <2>3 DEF PermitOK
<1>9. CASE op # e.op
  <2>1. Past(Durable.journal[op].state) => Past(Durable.journal[op].state)'
    BY PastStep
  <2>2. permit'[op] = permit[op] /\ dispatches'[op] = dispatches[op]
    BY <1>2, <1>3, <1>9
  <2> QED
    BY <1>7, <2>1, <2>2 DEF PermitOK
<1> QED
  BY <1>8, <1>9

(* A claim uses the permit up.                                              *)
LEMMA PermitsDispatch ==
  ASSUME CoordInv, NEW q \in Ops, Dispatch(q)
  PROVE  PermitsOK'
<1>1. /\ permit[q] = "held" /\ permit' = [permit EXCEPT ![q] = "claimed"]
      /\ dispatches' = [dispatches EXCEPT ![q] = @ + 1] /\ history' = history
  BY DEF Dispatch
<1>2. permit \in [Ops -> {"none", "held", "claimed"}] /\ dispatches \in [Ops -> Nat]
  BY DEF CoordInv, OwnerOK, TypeOK
<1> SUFFICES ASSUME NEW op \in Ops
             PROVE  PermitOK(op, Durable.journal[op].state)'
  BY DEF PermitsOK
<1>3. PermitOK(op, Durable.journal[op].state)
  BY DEF CoordInv, PermitsOK
<1>4. Durable' = Durable
  BY <1>1 DEF Durable
<1>5. CASE op = q
  <2>1. dispatches[op] = 0 /\ Past(Durable.journal[op].state)
    BY <1>1, <1>3, <1>5 DEF PermitOK
  <2>2. permit'[op] = "claimed" /\ dispatches'[op] = 1
    BY <1>1, <1>2, <1>5, <2>1
  <2> QED
    BY <1>4, <2>1, <2>2 DEF PermitOK
<1>6. CASE op # q
  <2>1. permit'[op] = permit[op] /\ dispatches'[op] = dispatches[op]
    BY <1>1, <1>2, <1>6
  <2> QED
    BY <1>3, <1>4, <2>1 DEF PermitOK
<1> QED
  BY <1>5, <1>6

(* Every step keeps the permits.                                            *)
LEMMA PermitsStep ==
  ASSUME CoordInv, [Next]_vars
  PROVE  PermitsOK'
<1>0. permit \in [Ops -> {"none", "held", "claimed"}]
  BY DEF CoordInv, OwnerOK, TypeOK
<1>1. CASE UNCHANGED vars
  <2>1. permit' = permit /\ dispatches' = dispatches
    BY <1>1 DEF vars, process
  <2> QED
    BY <2>1, PermitsKept
<1>2. ASSUME NEW e \in Events, Prepare(e) \/ Report(e) \/ Reconcile(e) \/ AppendFails(e)
      PROVE  PermitsOK'
  <2>1. permit' = permit /\ dispatches' = dispatches
    BY <1>2 DEF Prepare, Report, Reconcile, AppendFails
  <2> QED
    BY <2>1, PermitsKept
<1>3. ASSUME NEW e \in Events, Commit(e)
      PROVE  PermitsOK'
  BY <1>3, PermitsCommit
<1>4. ASSUME NEW op \in Ops, Dispatch(op)
      PROVE  PermitsOK'
  BY <1>4, PermitsDispatch
<1>5. ASSUME NEW op \in Ops, DropPermit(op)
      PROVE  PermitsOK'
  <2>1. permit' = [permit EXCEPT ![op] = "none"] /\ dispatches' = dispatches
    BY <1>5 DEF DropPermit
  <2>2. \A q \in Ops : permit'[q] \in {permit[q], "none"}
    BY <1>0, <2>1
  <2> QED
    BY <2>1, <2>2, PermitsKept
<1>6. ASSUME NEW op \in Ops, Adopt(op)
      PROVE  PermitsOK'
  <2>1. permit' = permit /\ dispatches' = dispatches
    BY <1>6 DEF Adopt
  <2> QED
    BY <2>1, PermitsKept
<1>7. ASSUME LeaseTaken \/ LeaseEnds \/ WithJournal \/ Recover \/ RequestDrain \/ BeginDrain
             \/ BeginFinalize \/ Finalize
      PROVE  PermitsOK'
  <2>1. permit' = permit /\ dispatches' = dispatches
    BY <1>7 DEF LeaseTaken, LeaseEnds, WithJournal, Recover, RequestDrain, BeginDrain,
                BeginFinalize, Finalize, RegionMoves
  <2> QED
    BY <2>1, PermitsKept
<1>8. ASSUME ProcessDeath
      PROVE  PermitsOK'
  <2>1. permit' = [op \in Ops |-> "none"] /\ dispatches' = dispatches
    BY <1>8 DEF ProcessDeath, FreshProcess
  <2>2. \A q \in Ops : permit'[q] \in {permit[q], "none"}
    BY <2>1
  <2> QED
    BY <2>1, <2>2, PermitsKept
<1> QED
  BY <1>1, <1>2, <1>3, <1>4, <1>5, <1>6, <1>7, <1>8 DEF Next

-----------------------------------------------------------------------------
(* Leases and fences.                                                       *)

(* A store that holds records keeps some.                                   *)
LEMMA HistoryGrows ==
  ASSUME CoordInv, [Next]_vars, history # <<>>
  PROVE  history' # <<>>
<1>1. history \in Seq(Events)
  BY DEF CoordInv, StoreOK
<1>2. \A e \in Events : Append(history, e) # <<>>
  BY <1>1
<1> QED
  BY <1>2, HistoryStep

(* A step that issues no permit.                                            *)
LEMMA FencesKept ==
  ASSUME CoordInv, [Next]_vars, fencesUsed' = fencesUsed,
         owner' = "live" => owner = "live" /\ lastFence' >= lastFence,
         lease' \in {0, lastFence'}, lastFence' \in Nat
  PROVE  FencesOK'
<1>1. fencesUsed \in Seq(1 .. MaxFence) /\ lastFence \in Nat /\ FencesOK
  BY EffectAssumption DEF CoordInv, OwnerOK, TypeOK
<1>2. ASSUME owner' = "live", NEW i \in 1 .. Len(fencesUsed)
      PROVE  fencesUsed[i] <= lastFence'
  <2>1. owner = "live" /\ lastFence' >= lastFence
    BY <1>2
  <2>2. fencesUsed[i] <= lastFence
    BY <1>1, <2>1 DEF FencesOK
  <2>3. fencesUsed[i] \in 1 .. MaxFence
    BY <1>1, EffectAssumption
  <2> QED
    BY <1>1, <2>1, <2>2, <2>3, EffectAssumption
<1>3. fencesUsed # <<>> => history' # <<>>
  BY <1>1, HistoryGrows DEF FencesOK
<1> QED
  BY <1>1, <1>2, <1>3 DEF FencesOK, FencesInOrder

(* Commit issues its permit under the lease that is the last one taken.     *)
LEMMA FencesCommit ==
  ASSUME CoordInv, NEW e \in Events, Commit(e)
  PROVE  FencesOK'
<1> DEFINE f == journal[e.op].fence
<1>1. Attempted(e) /\ history' = Append(history, e) /\ owner' = owner
  BY Handlers
<1>2. /\ fencesUsed' = Append(fencesUsed, f) /\ lease' = lease /\ lastFence' = lastFence
      /\ owner = "live" /\ f = lease /\ e.to = "committed"
  BY DEF Commit, CanCommit
<1>3. /\ fencesUsed \in Seq(1 .. MaxFence) /\ history \in Seq(Events)
      /\ lastFence \in 0 .. MaxFence /\ FencesOK
  BY DEF CoordInv, OwnerOK, TypeOK
<1>4. f >= 1
  <2>1. ReceiptOK(journal[e.op]) /\ Legal(journal[e.op], e)
    BY <1>1, WriteFacts
  <2>2. journal[e.op].state = "prepared"
    BY <1>2, <2>1, LegalFacts
  <2> QED
    BY <2>1, <2>2 DEF ReceiptOK
<1>5. lease = lastFence
  BY <1>2, <1>3, <1>4 DEF FencesOK
<1>6. f \in 1 .. MaxFence /\ f = lastFence
  BY <1>2, <1>3, <1>4, <1>5, EffectAssumption
<1> HIDE DEF f
<1>7. /\ Len(fencesUsed') = Len(fencesUsed) + 1 /\ Len(fencesUsed) \in Nat
      /\ fencesUsed'[Len(fencesUsed) + 1] = f
      /\ \A i \in 1 .. Len(fencesUsed) : fencesUsed'[i] = fencesUsed[i]
  BY <1>2, <1>3, <1>6
<1>8. \A i \in 1 .. Len(fencesUsed) : fencesUsed[i] <= f
  BY <1>2, <1>3, <1>6 DEF FencesOK
<1>9. ASSUME NEW i \in 1 .. Len(fencesUsed')
      PROVE  fencesUsed'[i] <= lastFence'
  <2>1. CASE i = Len(fencesUsed) + 1
    BY <1>2, <1>6, <1>7, <2>1
  <2>2. CASE i # Len(fencesUsed) + 1
    <3>1. i \in 1 .. Len(fencesUsed)
      BY <1>7, <2>2
    <3> QED
      BY <1>2, <1>6, <1>7, <1>8, <3>1
  <2> QED
    BY <2>1, <2>2
<1>10. ASSUME NEW i \in 1 .. Len(fencesUsed') - 1
       PROVE  fencesUsed'[i] <= fencesUsed'[i + 1]
  <2>1. i \in 1 .. Len(fencesUsed) /\ fencesUsed'[i] = fencesUsed[i]
    BY <1>7
  <2>2. CASE i = Len(fencesUsed)
    BY <1>7, <1>8, <2>1, <2>2
  <2>3. CASE i # Len(fencesUsed)
    <3>1. i \in 1 .. Len(fencesUsed) - 1 /\ i + 1 \in 1 .. Len(fencesUsed)
      BY <1>7, <2>1, <2>3
    <3>2. fencesUsed[i] <= fencesUsed[i + 1]
      BY <1>3, <3>1 DEF FencesOK, FencesInOrder
    <3> QED
      BY <1>7, <2>1, <3>1, <3>2
  <2> QED
    BY <2>2, <2>3
<1>11. history' # <<>>
  BY <1>1, <1>3
<1>12. lease' \in {0, lastFence'}
  BY <1>2, <1>5
<1> QED
  BY <1>9, <1>10, <1>11, <1>12 DEF FencesOK, FencesInOrder

(* Every step keeps the fences.                                             *)
LEMMA FencesStep ==
  ASSUME CoordInv, [Next]_vars
  PROVE  FencesOK'
<1>0. /\ lease \in {0, lastFence} /\ lastFence \in Nat
      /\ fencesUsed \in Seq(1 .. MaxFence)
      /\ fencesUsed # <<>> => history # <<>>
  BY EffectAssumption DEF CoordInv, OwnerOK, TypeOK, FencesOK
<1>1. CASE UNCHANGED vars
  <2>1. fencesUsed' = fencesUsed /\ owner' = owner /\ lease' = lease /\ lastFence' = lastFence
    BY <1>1 DEF vars, process
  <2> QED
    BY <1>0, <2>1, FencesKept
<1>2. ASSUME NEW e \in Events, Prepare(e) \/ Report(e) \/ Reconcile(e) \/ AppendFails(e)
      PROVE  FencesOK'
  <2>1. fencesUsed' = fencesUsed /\ owner' = owner /\ lease' = lease /\ lastFence' = lastFence
    BY <1>2 DEF Prepare, Report, Reconcile, AppendFails, Persist
  <2> QED
    BY <1>0, <2>1, FencesKept
<1>3. ASSUME NEW e \in Events, Commit(e)
      PROVE  FencesOK'
  BY <1>3, FencesCommit
<1>4. ASSUME NEW op \in Ops, Dispatch(op) \/ DropPermit(op) \/ Adopt(op)
      PROVE  FencesOK'
  <2>1. fencesUsed' = fencesUsed /\ owner' = owner /\ lease' = lease /\ lastFence' = lastFence
    BY <1>4 DEF Dispatch, DropPermit, Adopt
  <2> QED
    BY <1>0, <2>1, FencesKept
<1>5. CASE LeaseTaken
  <2>1. /\ fencesUsed' = fencesUsed /\ owner' = owner
        /\ lease' = lastFence + 1 /\ lastFence' = lastFence + 1
    BY <1>5 DEF LeaseTaken
  <2>2. lastFence' \in Nat /\ lastFence' >= lastFence
    BY <1>0, <2>1
  <2> QED
    BY <2>1, <2>2, FencesKept
<1>6. CASE LeaseEnds
  <2>1. fencesUsed' = fencesUsed /\ owner' = owner /\ lease' = 0 /\ lastFence' = lastFence
    BY <1>6 DEF LeaseEnds
  <2> QED
    BY <1>0, <2>1, FencesKept
<1>7. CASE RequestDrain \/ BeginDrain \/ BeginFinalize \/ Finalize
  <2>1. fencesUsed' = fencesUsed /\ owner' = owner /\ lease' = lease /\ lastFence' = lastFence
    BY <1>7 DEF RequestDrain, BeginDrain, BeginFinalize, Finalize, RegionMoves
  <2> QED
    BY <1>0, <2>1, FencesKept
<1>8. CASE ProcessDeath
  <2>1. fencesUsed' = fencesUsed /\ owner' = "down" /\ lease' = 0 /\ lastFence' = 0
    BY <1>8 DEF ProcessDeath, FreshProcess
  <2> QED
    BY <1>0, <2>1, FencesKept
<1>9. CASE Recover
  <2>1. fencesUsed' = fencesUsed /\ owner' = "recovered" /\ lease' = lease /\ lastFence' = lastFence
    BY <1>9 DEF Recover
  <2> QED
    BY <1>0, <2>1, FencesKept
<1>10. CASE WithJournal
  <2>1. /\ fencesUsed' = fencesUsed /\ history' = history /\ history = <<>>
        /\ lease' = lease /\ lastFence' = lastFence
    BY <1>10 DEF WithJournal
  <2>2. fencesUsed' = <<>> /\ Len(fencesUsed') = 0
    BY <1>0, <2>1
  <2> QED
    BY <1>0, <2>1, <2>2 DEF FencesOK, FencesInOrder
<1> QED
  BY <1>1, <1>2, <1>3, <1>4, <1>5, <1>6, <1>7, <1>8, <1>9, <1>10 DEF Next

-----------------------------------------------------------------------------
(* The owner's memory.                                                      *)

(* What a region keeps of an operation, for a receipt.                      *)
Kept(r) == [state |-> r.obligation, proof |-> r.proof,
            note |-> IF r.obligation = "indeterminate" THEN r.note ELSE None]

(* The copy of a receipt is a well-formed obligation that agrees with it.   *)
LEMMA KeptFacts ==
  ASSUME NEW r \in Receipt
  PROVE  /\ Kept(r) \in NodeObligation
         /\ Kept(r).state = r.obligation /\ Kept(r).proof = r.proof
         /\ Kept(r).note = IF r.obligation = "indeterminate" THEN r.note ELSE None
<1>1. /\ r.obligation \in {"absent", "pending"} \cup Settled
      /\ r.proof \in OptProof /\ r.note \in OptNote /\ None \in OptNote
  BY DEF Receipt, OptNote
<1> QED
  BY <1>1 DEF Kept, NodeObligation

(* An obligation with a terminal outcome belongs to a terminal operation.   *)
LEMMA Outcome ==
  ASSUME NEW r \in Receipt, ReceiptOK(r), r.obligation \notin {"absent", "pending", "indeterminate"}
  PROVE  r.state \in Terminal
<1>1. r.state \in States
  BY DEF Receipt
<1> QED
  BY <1>1 DEF ReceiptOK, States, Settled, Terminal, NoReceipt

(* The types that a step on journal, bindings, tree and permits has to      *)
(* preserve; the store's own are known.                                     *)
LEMMA TypeStep ==
  ASSUME CoordInv, [Next]_vars, owner' \in {"down", "live", "recovered"}, poisoned' \in BOOLEAN,
         JournalOK(journal'), bound' \subseteq Ops,
         \A op \in bound' : journal'[op].state # "absent",
         permit' \in [Ops -> {"none", "held", "claimed"}],
         region' \in {"active", "drain_requested", "draining", "finalizing", "closed"},
         tree' \in [Ops -> NodeObligation],
         lease' \in 0 .. MaxFence, lastFence' \in 0 .. MaxFence,
         dispatches' \in [Ops -> Nat], fencesUsed' \in Seq(1 .. MaxFence)
  PROVE  TypeOK'
<1>1. history' \in Seq(Events)
  BY StoreStep DEF StoreOK
<1>2. journal' \in [Ops -> Receipt]
  BY DEF JournalOK
<1> QED
  BY <1>1, <1>2, Zenon DEF TypeOK

(* The owner's memory when nothing of it but permits and leases changes.    *)
LEMMA OwnerFrame ==
  ASSUME CoordInv, [Next]_vars,
         UNCHANGED <<owner, poisoned, journal, bound, region, tree, history>>,
         owner # "down",
         permit' \in [Ops -> {"none", "held", "claimed"}],
         lease' \in 0 .. MaxFence, lastFence' \in 0 .. MaxFence,
         dispatches' \in [Ops -> Nat], fencesUsed' = fencesUsed
  PROVE  OwnerOK'
<1>1. OwnerOK /\ TypeOK
  BY DEF CoordInv, OwnerOK
<1>2. TypeOK'
  <2>1. JournalOK(journal')
    BY <1>1 DEF OwnerOK
  <2>2. bound' \subseteq Ops /\ \A op \in bound' : journal'[op].state # "absent"
    BY <1>1 DEF TypeOK
  <2>3. owner' \in {"down", "live", "recovered"} /\ poisoned' \in BOOLEAN
    BY <1>1, Zenon DEF TypeOK
  <2>4. /\ region' \in {"active", "drain_requested", "draining", "finalizing", "closed"}
        /\ tree' \in [Ops -> NodeObligation] /\ fencesUsed' \in Seq(1 .. MaxFence)
    BY <1>1, Zenon DEF TypeOK
  <2> QED
    BY <2>1, <2>2, <2>3, <2>4, TypeStep
<1>3. (Ready => journal = Durable.journal)'
  BY <1>1, Zenon DEF OwnerOK, Ready, Durable
<1>4. (owner = "live" => Retained(journal) \subseteq bound)' /\ (owner = "down" => Unopened)'
  BY <1>1 DEF OwnerOK, Retained
<1>5. ObligationsAgree' /\ ClosedRegionIsSettled'
  BY <1>1 DEF OwnerOK, ObligationsAgree, ClosedRegionIsSettled
<1>6. JournalOK(journal') /\ (\A op \in Ops : tree'[op].state = "absent" => tree'[op] = NoObligation)
  BY <1>1 DEF OwnerOK
<1> QED
  BY <1>2, <1>3, <1>4, <1>5, <1>6 DEF OwnerOK

(* What every successful write leaves: an owner in step with its store.     *)
LEMMA Written ==
  ASSUME CoordInv, NEW e \in Events, Attempted(e), history' = Append(history, e),
         journal' = Candidate(e), owner' = owner, poisoned' = poisoned
  PROVE  /\ JournalOK(journal') /\ (Ready => journal = Durable.journal)'
         /\ owner # "down" /\ owner' # "down"
         /\ journal'[e.op] = Apply(journal[e.op], e)
         /\ \A op \in Ops \ {e.op} : journal'[op] = journal[op]
         /\ e.op \in Ops /\ journal[e.op] \in Receipt /\ ReceiptOK(journal[e.op])
         /\ Apply(journal[e.op], e) \in Receipt /\ ReceiptOK(Apply(journal[e.op], e))
         /\ Legal(journal[e.op], e) /\ e.to # "absent"
<1>1. /\ Ready /\ e.op \in Ops /\ Legal(journal[e.op], e)
      /\ journal[e.op] \in Receipt /\ ReceiptOK(journal[e.op])
      /\ Replay(Append(history, e)).journal = Candidate(e)
  BY WriteFacts
<1>2. /\ JournalOK(Candidate(e))
      /\ Candidate(e)[e.op] = Apply(journal[e.op], e)
      /\ \A op \in Ops \ {e.op} : Candidate(e)[op] = journal[op]
  BY CandidateFacts
<1>3. Apply(journal[e.op], e) \in Receipt /\ ReceiptOK(Apply(journal[e.op], e))
  BY <1>1, ApplyOK
<1>4. journal' = Durable.journal'
  BY <1>1 DEF Durable
<1>5. e.to # "absent"
  BY EventFacts
<1> QED
  BY <1>1, <1>2, <1>3, <1>4, <1>5 DEF Ready

(* Prepare registers a pending obligation in a region that has none of the  *)
(* operation.                                                               *)
LEMMA OwnerPrepare ==
  ASSUME CoordInv, [Next]_vars, NEW e \in Events, Prepare(e)
  PROVE  OwnerOK'
<1> DEFINE op == e.op
<1>1. /\ Attempted(e) /\ history' = Append(history, e) /\ journal' = Candidate(e)
      /\ owner' = owner /\ poisoned' = poisoned
  BY Handlers
<1>2. /\ JournalOK(journal') /\ (Ready => journal = Durable.journal)'
      /\ owner # "down" /\ owner' # "down"
      /\ journal'[op] = Apply(journal[op], e)
      /\ \A q \in Ops \ {op} : journal'[q] = journal[q]
      /\ op \in Ops /\ ReceiptOK(journal[op]) /\ Legal(journal[op], e)
  BY <1>1, Written
<1>3. /\ e.to = "prepared" /\ op \notin bound /\ region = "active" /\ tree[op].state = "absent"
      /\ tree' = [tree EXCEPT ![op].state = "pending"] /\ bound' = bound \cup {op}
      /\ UNCHANGED <<permit, region, lease, lastFence, dispatches, fencesUsed>>
  BY DEF Prepare, CanPrepare
<1>4. OwnerOK /\ TypeOK
  BY DEF CoordInv, OwnerOK
<1>5. journal[op] = NoReceipt
  BY <1>2, <1>3, LegalFacts DEF ReceiptOK
<1>6. /\ journal'[op].state = "prepared" /\ journal'[op].obligation = "pending"
      /\ journal'[op].proof = None
  BY <1>2, <1>3, <1>5, ApplyFields DEF NoReceipt, Terminal
<1> DEFINE pending == [state |-> "pending", proof |-> None, note |-> None]
<1>7. tree' = [tree EXCEPT ![op] = pending] /\ tree \in [Ops -> NodeObligation]
  <2>1. tree[op] = [state |-> "absent", proof |-> None, note |-> None] /\ tree \in [Ops -> NodeObligation]
    BY <1>2, <1>3, <1>4 DEF OwnerOK, TypeOK, NoObligation
  <2>2. [tree[op] EXCEPT !.state = "pending"] = pending
    BY <2>1
  <2> QED
    BY <1>3, <2>1, <2>2
<1>8. pending \in NodeObligation
  BY DEF NodeObligation, OptProof, OptNote
<1> HIDE DEF pending, op
<1>9. tree' \in [Ops -> NodeObligation] /\ tree'[op] = pending
      /\ \A q \in Ops \ {op} : tree'[q] = tree[q]
  BY <1>2, <1>7, <1>8
<1>10. bound' \subseteq Ops /\ \A q \in bound' : journal'[q].state # "absent"
  BY <1>2, <1>3, <1>4, <1>6 DEF TypeOK
<1>11. TypeOK'
  <2>1. owner' \in {"down", "live", "recovered"} /\ poisoned' \in BOOLEAN
    BY <1>1, <1>4, Zenon DEF TypeOK
  <2>2. /\ permit' \in [Ops -> {"none", "held", "claimed"}]
        /\ region' \in {"active", "drain_requested", "draining", "finalizing", "closed"}
        /\ lease' \in 0 .. MaxFence /\ lastFence' \in 0 .. MaxFence
        /\ dispatches' \in [Ops -> Nat] /\ fencesUsed' \in Seq(1 .. MaxFence)
    BY <1>3, <1>4 DEF TypeOK
  <2> QED
    BY <1>2, <1>9, <1>10, <2>1, <2>2, TypeStep
<1>12. (owner = "live" => Retained(journal) \subseteq bound)'
  BY <1>1, <1>2, <1>3, <1>4 DEF OwnerOK, Retained
<1>13. \A q \in Ops : tree'[q].state = "absent" => tree'[q] = NoObligation
  BY <1>4, <1>9 DEF OwnerOK, pending
<1>14. ObligationsAgree'
  <2> SUFFICES ASSUME NEW q \in bound'
               PROVE  /\ tree'[q].state = journal'[q].obligation /\ tree'[q].proof = journal'[q].proof
                      /\ tree'[q].note = IF journal'[q].obligation = "indeterminate"
                                         THEN journal'[q].note ELSE None
    BY DEF ObligationsAgree
  <2>1. CASE q = op
    BY <1>6, <1>9, <2>1 DEF pending
  <2>2. CASE q # op
    <3>1. q \in bound /\ q \in Ops \ {op}
      BY <1>3, <1>10, <2>2
    <3> QED
      BY <1>2, <1>4, <1>9, <3>1 DEF OwnerOK, ObligationsAgree
  <2> QED
    BY <2>1, <2>2
<1>15. ClosedRegionIsSettled'
  BY <1>3 DEF ClosedRegionIsSettled
<1> QED
  BY <1>2, <1>11, <1>12, <1>13, <1>14, <1>15 DEF OwnerOK

(* A commit, an acceptance or an observation advances the operation and     *)
(* leaves its obligation as it is.                                          *)
LEMMA OwnerAdvance ==
  ASSUME CoordInv, [Next]_vars, NEW e \in Events, Attempted(e), history' = Append(history, e),
         journal' = Candidate(e), UNCHANGED <<owner, poisoned, bound, region, tree>>,
         e.to \in {"committed", "adapter_accepted", "observed"},
         permit' \in [Ops -> {"none", "held", "claimed"}],
         UNCHANGED <<lease, lastFence, dispatches>>, fencesUsed' \in Seq(1 .. MaxFence)
  PROVE  OwnerOK'
<1> DEFINE op == e.op
<1>1. owner' = owner /\ poisoned' = poisoned
  OBVIOUS
<1>2. /\ JournalOK(journal') /\ (Ready => journal = Durable.journal)'
      /\ owner # "down" /\ owner' # "down"
      /\ journal'[op] = Apply(journal[op], e)
      /\ \A q \in Ops \ {op} : journal'[q] = journal[q]
      /\ op \in Ops /\ Legal(journal[op], e)
  BY <1>1, Written
<1>3. OwnerOK /\ TypeOK
  BY DEF CoordInv, OwnerOK
<1>4. /\ journal'[op].state = e.to /\ e.to # "absent"
      /\ journal'[op].obligation = journal[op].obligation
      /\ journal'[op].note = journal[op].note /\ journal'[op].proof = journal[op].proof
  BY <1>2, ApplyFields DEF Settled, Terminal
<1>5. journal[op].state # "absent" /\ journal[op].state \notin Terminal
  BY <1>2, LegalFacts
<1> HIDE DEF op
<1>6. \A q \in Ops : /\ journal'[q].obligation = journal[q].obligation
                     /\ journal'[q].note = journal[q].note /\ journal'[q].proof = journal[q].proof
                     /\ journal'[q].state = "absent" <=> journal[q].state = "absent"
  BY <1>2, <1>4, <1>5
<1>7. bound' \subseteq Ops /\ bound \subseteq Ops /\ \A q \in bound' : journal'[q].state # "absent"
  BY <1>3, <1>6 DEF TypeOK
<1>8. TypeOK'
  <2>1. owner' \in {"down", "live", "recovered"} /\ poisoned' \in BOOLEAN
    BY <1>1, <1>3, Zenon DEF TypeOK
  <2>2. /\ region' \in {"active", "drain_requested", "draining", "finalizing", "closed"}
        /\ lease' \in 0 .. MaxFence /\ lastFence' \in 0 .. MaxFence
        /\ dispatches' \in [Ops -> Nat] /\ tree' \in [Ops -> NodeObligation]
    BY <1>3 DEF TypeOK
  <2> QED
    BY <1>2, <1>7, <2>1, <2>2, TypeStep
<1>9. (owner = "live" => Retained(journal) \subseteq bound)'
  BY <1>3, <1>6 DEF OwnerOK, Retained
<1>10. \A q \in Ops : tree'[q].state = "absent" => tree'[q] = NoObligation
  BY <1>3 DEF OwnerOK
<1>11. ObligationsAgree'
  BY <1>3, <1>6, <1>7 DEF OwnerOK, ObligationsAgree
<1>12. ClosedRegionIsSettled'
  <2> SUFFICES ASSUME region = "closed", NEW q \in bound
               PROVE  \/ journal'[q].state \in Terminal
                      \/ journal'[q].obligation = "indeterminate" /\ journal'[q].note # None
    BY DEF ClosedRegionIsSettled
  <2>1. \/ journal[q].state \in Terminal
        \/ journal[q].obligation = "indeterminate" /\ journal[q].note # None
    BY <1>3 DEF OwnerOK, ClosedRegionIsSettled
  <2> QED
    BY <1>2, <1>5, <1>6, <1>7, <2>1
<1> QED
  BY <1>2, <1>8, <1>9, <1>10, <1>11, <1>12 DEF OwnerOK

(* Commit, whose permit carries the fence of the preparation.              *)
LEMMA OwnerCommit ==
  ASSUME CoordInv, [Next]_vars, NEW e \in Events, Commit(e)
  PROVE  OwnerOK'
<1>1. /\ Attempted(e) /\ history' = Append(history, e) /\ journal' = Candidate(e)
      /\ owner' = owner /\ poisoned' = poisoned
  BY Handlers
<1>2. /\ e.to = "committed" /\ permit' = [permit EXCEPT ![e.op] = "held"]
      /\ fencesUsed' = Append(fencesUsed, journal[e.op].fence)
      /\ UNCHANGED <<bound, region, tree, lease, lastFence, dispatches>>
  BY DEF Commit, CanCommit
<1>3. /\ permit \in [Ops -> {"none", "held", "claimed"}]
      /\ fencesUsed \in Seq(1 .. MaxFence)
  BY DEF CoordInv, OwnerOK, TypeOK
<1>4. journal[e.op].fence \in 1 .. MaxFence
  <2>1. ReceiptOK(journal[e.op]) /\ Legal(journal[e.op], e) /\ journal[e.op] \in Receipt
    BY <1>1, WriteFacts
  <2>2. journal[e.op].state = "prepared"
    BY <1>2, <2>1, LegalFacts
  <2>3. journal[e.op].fence >= 1
    BY <2>1, <2>2 DEF ReceiptOK
  <2>4. journal[e.op].fence \in 0 .. MaxFence
    BY <2>1 DEF Receipt
  <2> QED
    BY <2>3, <2>4, EffectAssumption
<1>5. permit' \in [Ops -> {"none", "held", "claimed"}]
  BY <1>2, <1>3
<1>6. fencesUsed' \in Seq(1 .. MaxFence)
  BY <1>2, <1>3, <1>4
<1>7. UNCHANGED <<owner, poisoned, bound, region, tree>> /\ UNCHANGED <<lease, lastFence, dispatches>>
  BY <1>1, <1>2
<1> QED
  BY <1>1, <1>2, <1>5, <1>6, <1>7, OwnerAdvance

(* What an adapter reports, even after the region has closed.              *)
LEMMA OwnerReport ==
  ASSUME CoordInv, [Next]_vars, NEW e \in Events, Report(e)
  PROVE  OwnerOK'
<1>1. /\ Attempted(e) /\ history' = Append(history, e) /\ journal' = Candidate(e)
      /\ owner' = owner /\ poisoned' = poisoned
  BY Handlers
<1>2. /\ e.to \in {"committed", "adapter_accepted", "observed"}
      /\ UNCHANGED <<bound, permit, region, tree, lease, lastFence, dispatches, fencesUsed>>
  BY DEF Report, CanReport
<1>3. /\ permit' \in [Ops -> {"none", "held", "claimed"}]
      /\ fencesUsed' \in Seq(1 .. MaxFence)
  BY <1>2 DEF CoordInv, OwnerOK, TypeOK
<1>4. UNCHANGED <<owner, poisoned, bound, region, tree>> /\ UNCHANGED <<lease, lastFence, dispatches>>
  BY <1>1, <1>2
<1> QED
  BY <1>1, <1>2, <1>3, <1>4, OwnerAdvance

(* Reconciliation brings the region's obligation to the one it recorded.    *)
LEMMA OwnerReconcile ==
  ASSUME CoordInv, [Next]_vars, NEW e \in Events, Reconcile(e)
  PROVE  OwnerOK'
<1> DEFINE op == e.op
           r == Apply(journal[op], e)
<1>1. /\ Attempted(e) /\ history' = Append(history, e) /\ journal' = Candidate(e)
      /\ owner' = owner /\ poisoned' = poisoned
  BY Handlers
<1>2. /\ JournalOK(journal') /\ (Ready => journal = Durable.journal)'
      /\ owner # "down" /\ owner' # "down"
      /\ journal'[op] = r /\ \A q \in Ops \ {op} : journal'[q] = journal[q]
      /\ op \in Ops /\ ReceiptOK(journal[op]) /\ Legal(journal[op], e)
      /\ journal[op] \in Receipt /\ r \in Receipt /\ ReceiptOK(r) /\ e.to # "absent"
  BY <1>1, Written
<1>3. /\ e.to \in Settled \cup {"observed"} /\ op \in bound /\ region # "closed"
      /\ tree' = (IF r.obligation = "pending" THEN tree ELSE [tree EXCEPT ![op] = Kept(r)])
      /\ UNCHANGED <<bound, permit, region, lease, lastFence, dispatches, fencesUsed>>
  BY DEF Reconcile, CanReconcile, ScopeHolds, Kept
<1>4. OwnerOK /\ TypeOK
  BY DEF CoordInv, OwnerOK
<1>5. r.state = e.to /\ r.obligation # "absent"
      /\ (r.obligation = "pending" =>
            /\ journal[op].obligation = "pending"
            /\ r.note = journal[op].note /\ r.proof = journal[op].proof)
  <2>1. /\ r.state = e.to
        /\ r.note = IF e.to = "indeterminate" THEN e.note ELSE journal[op].note
        /\ e.to \in Settled => r.obligation = e.to
        /\ e.to \notin Settled \cup {"prepared"} => r.obligation = journal[op].obligation
        /\ r.proof = IF e.to \in Terminal THEN e.proof ELSE journal[op].proof
    BY ApplyFields
  <2>2. r.obligation # "absent"
    BY <1>2, <2>1 DEF ReceiptOK
  <2> HIDE DEF r
  <2> QED
    BY <1>3, <2>1, <2>2 DEF Settled, Terminal
<1>6. /\ Kept(r) \in NodeObligation
      /\ Kept(r).state = r.obligation /\ Kept(r).proof = r.proof
      /\ Kept(r).note = IF r.obligation = "indeterminate" THEN r.note ELSE None
  BY <1>2, KeptFacts
<1>7. tree \in [Ops -> NodeObligation] /\ bound \subseteq Ops
  BY <1>4 DEF TypeOK
<1> HIDE DEF r, op
<1>8. tree' \in [Ops -> NodeObligation] /\ (\A q \in Ops \ {op} : tree'[q] = tree[q])
      /\ tree'[op] = IF r.obligation = "pending" THEN tree[op] ELSE Kept(r)
  BY <1>2, <1>3, <1>6, <1>7
<1>9. /\ tree[op].state = journal[op].obligation /\ tree[op].proof = journal[op].proof
      /\ tree[op].note = IF journal[op].obligation = "indeterminate" THEN journal[op].note ELSE None
  BY <1>3, <1>4 DEF OwnerOK, ObligationsAgree
<1>10. /\ tree'[op].state = r.obligation /\ tree'[op].proof = r.proof
       /\ tree'[op].note = IF r.obligation = "indeterminate" THEN r.note ELSE None
  <2>1. CASE r.obligation = "pending"
    BY <1>5, <1>8, <1>9, <2>1
  <2>2. CASE r.obligation # "pending"
    BY <1>6, <1>8, <2>2
  <2> QED
    BY <2>1, <2>2
<1>11. bound' \subseteq Ops /\ \A q \in bound' : journal'[q].state # "absent"
  BY <1>2, <1>3, <1>4, <1>5 DEF TypeOK
<1>12. TypeOK'
  <2>1. owner' \in {"down", "live", "recovered"} /\ poisoned' \in BOOLEAN
    BY <1>1, <1>4, Zenon DEF TypeOK
  <2>2. /\ permit' \in [Ops -> {"none", "held", "claimed"}]
        /\ region' \in {"active", "drain_requested", "draining", "finalizing", "closed"}
        /\ lease' \in 0 .. MaxFence /\ lastFence' \in 0 .. MaxFence
        /\ dispatches' \in [Ops -> Nat] /\ fencesUsed' \in Seq(1 .. MaxFence)
    BY <1>3, <1>4 DEF TypeOK
  <2> QED
    BY <1>2, <1>8, <1>11, <2>1, <2>2, TypeStep
<1>13. (owner = "live" => Retained(journal) \subseteq bound)'
  BY <1>1, <1>2, <1>3, <1>4 DEF OwnerOK, Retained
<1>14. \A q \in Ops : tree'[q].state = "absent" => tree'[q] = NoObligation
  BY <1>4, <1>5, <1>8, <1>10 DEF OwnerOK
<1>15. ObligationsAgree'
  <2> SUFFICES ASSUME NEW q \in bound
               PROVE  /\ tree'[q].state = journal'[q].obligation /\ tree'[q].proof = journal'[q].proof
                      /\ tree'[q].note = IF journal'[q].obligation = "indeterminate"
                                         THEN journal'[q].note ELSE None
    BY <1>3 DEF ObligationsAgree
  <2>1. CASE q = op
    BY <1>2, <1>10, <2>1
  <2>2. CASE q # op
    <3>1. q \in Ops \ {op}
      BY <1>7, <2>2
    <3> QED
      BY <1>2, <1>4, <1>8, <3>1 DEF OwnerOK, ObligationsAgree
  <2> QED
    BY <2>1, <2>2
<1>16. ClosedRegionIsSettled'
  BY <1>3 DEF ClosedRegionIsSettled
<1> QED
  BY <1>2, <1>12, <1>13, <1>14, <1>15, <1>16 DEF OwnerOK

(* A failed append poisons the owner, which then no longer vouches for      *)
(* what the store holds.                                                    *)
LEMMA OwnerFails ==
  ASSUME CoordInv, [Next]_vars, NEW e \in Events, AppendFails(e)
  PROVE  OwnerOK'
<1>1. /\ Attempted(e) /\ poisoned' = TRUE
      /\ UNCHANGED <<owner, journal, bound, permit, region, tree, lease, lastFence, dispatches, fencesUsed>>
  BY DEF AppendFails
<1>2. OwnerOK /\ TypeOK
  BY DEF CoordInv, OwnerOK
<1>3. owner # "down"
  BY <1>1, WriteFacts DEF Ready
<1>4. JournalOK(journal') /\ (\A op \in Ops : tree'[op].state = "absent" => tree'[op] = NoObligation)
  BY <1>1, <1>2 DEF OwnerOK
<1>5. TypeOK'
  <2>1. bound' \subseteq Ops /\ \A op \in bound' : journal'[op].state # "absent"
    BY <1>1, <1>2 DEF TypeOK
  <2>2. owner' \in {"down", "live", "recovered"} /\ poisoned' \in BOOLEAN
    BY <1>1, <1>2, Zenon DEF TypeOK
  <2>3. /\ permit' \in [Ops -> {"none", "held", "claimed"}]
        /\ region' \in {"active", "drain_requested", "draining", "finalizing", "closed"}
        /\ tree' \in [Ops -> NodeObligation]
        /\ lease' \in 0 .. MaxFence /\ lastFence' \in 0 .. MaxFence
        /\ dispatches' \in [Ops -> Nat] /\ fencesUsed' \in Seq(1 .. MaxFence)
    BY <1>1, <1>2 DEF TypeOK
  <2> QED
    BY <1>4, <2>1, <2>2, <2>3, TypeStep
<1>6. (Ready => journal = Durable.journal)'
  BY <1>1 DEF Ready
<1>7. (owner = "live" => Retained(journal) \subseteq bound)' /\ (owner = "down" => Unopened)'
  BY <1>1, <1>2, <1>3 DEF OwnerOK, Retained
<1>8. ObligationsAgree' /\ ClosedRegionIsSettled'
  BY <1>1, <1>2 DEF OwnerOK, ObligationsAgree, ClosedRegionIsSettled
<1> QED
  BY <1>4, <1>5, <1>6, <1>7, <1>8 DEF OwnerOK

(* Adoption attaches to the fresh region what the journal retains.          *)
LEMMA OwnerAdopt ==
  ASSUME CoordInv, [Next]_vars, NEW op \in Ops, Adopt(op)
  PROVE  OwnerOK'
<1>1. /\ owner = "recovered" /\ journal[op].state # "absent" /\ region = "active"
      /\ tree' = [tree EXCEPT ![op] = Kept(journal[op])] /\ bound' = bound \cup {op}
      /\ UNCHANGED <<owner, poisoned, journal, permit, region, lease, lastFence, history,
                     dispatches, fencesUsed>>
  BY DEF Adopt, Kept
<1>2. OwnerOK /\ TypeOK
  BY DEF CoordInv, OwnerOK
<1>3. journal[op] \in Receipt /\ ReceiptOK(journal[op]) /\ JournalOK(journal)
      /\ tree \in [Ops -> NodeObligation] /\ bound \subseteq Ops
  BY <1>2 DEF OwnerOK, JournalOK, TypeOK
<1>4. /\ Kept(journal[op]) \in NodeObligation
      /\ Kept(journal[op]).state = journal[op].obligation
      /\ Kept(journal[op]).proof = journal[op].proof
      /\ Kept(journal[op]).note = IF journal[op].obligation = "indeterminate"
                                  THEN journal[op].note ELSE None
  BY <1>3, KeptFacts
<1>5. tree' \in [Ops -> NodeObligation] /\ tree'[op] = Kept(journal[op])
      /\ \A q \in Ops \ {op} : tree'[q] = tree[q]
  BY <1>1, <1>3, <1>4
<1>6. TypeOK'
  <2>1. bound' \subseteq Ops /\ \A q \in bound' : journal'[q].state # "absent"
    BY <1>1, <1>2 DEF TypeOK
  <2>2. owner' \in {"down", "live", "recovered"} /\ poisoned' \in BOOLEAN
    BY <1>1, <1>2, Zenon DEF TypeOK
  <2>3. /\ permit' \in [Ops -> {"none", "held", "claimed"}]
        /\ region' \in {"active", "drain_requested", "draining", "finalizing", "closed"}
        /\ lease' \in 0 .. MaxFence /\ lastFence' \in 0 .. MaxFence
        /\ dispatches' \in [Ops -> Nat] /\ fencesUsed' \in Seq(1 .. MaxFence)
    BY <1>1, <1>2 DEF TypeOK
  <2>4. JournalOK(journal')
    BY <1>1, <1>3
  <2> QED
    BY <1>5, <2>1, <2>2, <2>3, <2>4, TypeStep
<1>7. (Ready => journal = Durable.journal)'
  BY <1>1, <1>2, Zenon DEF OwnerOK, Ready, Durable
<1>8. (owner = "live" => Retained(journal) \subseteq bound)' /\ (owner = "down" => Unopened)'
  BY <1>1
<1>9. \A q \in Ops : tree'[q].state = "absent" => tree'[q] = NoObligation
  BY <1>1, <1>2, <1>3, <1>4, <1>5 DEF OwnerOK, ReceiptOK
<1>10. ObligationsAgree'
  <2> SUFFICES ASSUME NEW q \in bound'
               PROVE  /\ tree'[q].state = journal'[q].obligation /\ tree'[q].proof = journal'[q].proof
                      /\ tree'[q].note = IF journal'[q].obligation = "indeterminate"
                                         THEN journal'[q].note ELSE None
    BY DEF ObligationsAgree
  <2>1. CASE q = op
    BY <1>1, <1>4, <1>5, <2>1
  <2>2. CASE q # op
    <3>1. q \in bound /\ q \in Ops \ {op}
      BY <1>1, <1>3, <2>2
    <3> QED
      BY <1>1, <1>2, <1>5, <3>1 DEF OwnerOK, ObligationsAgree
  <2> QED
    BY <2>1, <2>2
<1>11. ClosedRegionIsSettled'
  BY <1>1 DEF ClosedRegionIsSettled
<1> QED
  BY <1>1, <1>3, <1>6, <1>7, <1>8, <1>9, <1>10, <1>11 DEF OwnerOK

(* A region that closes is quiescent, and the journal says of the bound     *)
(* operations what the region does.                                         *)
LEMMA OwnerRegion ==
  ASSUME CoordInv, [Next]_vars, NEW from, NEW to, RegionMoves(from, to),
         to \in {"drain_requested", "draining", "finalizing", "closed"},
         to = "closed" => Quiescent
  PROVE  OwnerOK'
<1>1. /\ owner # "down" /\ region' = to
      /\ UNCHANGED <<owner, poisoned, journal, bound, permit, tree, lease, lastFence, history,
                     dispatches, fencesUsed>>
  BY DEF RegionMoves
<1>2. OwnerOK /\ TypeOK
  BY DEF CoordInv, OwnerOK
<1>3. JournalOK(journal') /\ (\A op \in Ops : tree'[op].state = "absent" => tree'[op] = NoObligation)
  BY <1>1, <1>2 DEF OwnerOK
<1>4. TypeOK'
  <2>1. bound' \subseteq Ops /\ \A op \in bound' : journal'[op].state # "absent"
    BY <1>1, <1>2 DEF TypeOK
  <2>2. owner' \in {"down", "live", "recovered"} /\ poisoned' \in BOOLEAN
    BY <1>1, <1>2, Zenon DEF TypeOK
  <2>3. /\ permit' \in [Ops -> {"none", "held", "claimed"}]
        /\ tree' \in [Ops -> NodeObligation]
        /\ lease' \in 0 .. MaxFence /\ lastFence' \in 0 .. MaxFence
        /\ dispatches' \in [Ops -> Nat] /\ fencesUsed' \in Seq(1 .. MaxFence)
    BY <1>1, <1>2 DEF TypeOK
  <2>4. region' \in {"active", "drain_requested", "draining", "finalizing", "closed"}
    BY <1>1
  <2> QED
    BY <1>3, <2>1, <2>2, <2>3, <2>4, TypeStep
<1>5. (Ready => journal = Durable.journal)'
  BY <1>1, <1>2, Zenon DEF OwnerOK, Ready, Durable
<1>6. (owner = "live" => Retained(journal) \subseteq bound)' /\ (owner = "down" => Unopened)'
  BY <1>1, <1>2 DEF OwnerOK, Retained
<1>7. ObligationsAgree'
  BY <1>1, <1>2 DEF OwnerOK, ObligationsAgree
<1>8. ClosedRegionIsSettled'
  <2> SUFFICES ASSUME Quiescent, NEW op \in bound
               PROVE  \/ journal[op].state \in Terminal
                      \/ journal[op].obligation = "indeterminate" /\ journal[op].note # None
    BY <1>1 DEF ClosedRegionIsSettled
  <2>1. op \in Ops /\ journal[op].state # "absent"
    BY <1>2 DEF TypeOK
  <2>2. journal[op] \in Receipt /\ ReceiptOK(journal[op])
    BY <1>2, <2>1 DEF OwnerOK, JournalOK
  <2>3. /\ tree[op].state = journal[op].obligation
        /\ tree[op].note = IF journal[op].obligation = "indeterminate" THEN journal[op].note ELSE None
    BY <1>2 DEF OwnerOK, ObligationsAgree
  <2>4. tree[op].state # "pending" /\ (tree[op].state = "indeterminate" => tree[op].note # None)
    BY <2>1 DEF Quiescent
  <2>5. journal[op].obligation # "absent"
    BY <2>1, <2>2 DEF ReceiptOK
  <2>6. CASE journal[op].obligation = "indeterminate"
    BY <2>3, <2>4, <2>6
  <2>7. CASE journal[op].obligation # "indeterminate"
    <3>1. journal[op].obligation \notin {"absent", "pending", "indeterminate"}
      BY <2>3, <2>4, <2>5, <2>7
    <3> QED
      BY <2>2, <3>1, Outcome
  <2> QED
    BY <2>6, <2>7
<1> QED
  BY <1>3, <1>4, <1>5, <1>6, <1>7, <1>8 DEF OwnerOK

(* A process that has bound nothing to an active region: what is left to    *)
(* show are its journal and its types.                                      *)
LEMMA OwnerFresh ==
  ASSUME CoordInv, [Next]_vars, JournalOK(journal'), (Ready => journal = Durable.journal)',
         (owner = "down" => Unopened)', (owner = "live" => Retained(journal) = {})',
         owner' \in {"down", "live", "recovered"},
         poisoned' = FALSE, bound' = {}, region' = "active",
         tree' = [op \in Ops |-> NoObligation], permit' = [op \in Ops |-> "none"],
         lease' = 0, lastFence' = 0, UNCHANGED <<dispatches, fencesUsed>>
  PROVE  OwnerOK'
<1>1. NoObligation \in NodeObligation
  BY DEF NoObligation, NodeObligation, OptProof, OptNote
<1>2. TypeOK'
  <2>1. bound' \subseteq Ops /\ \A op \in bound' : journal'[op].state # "absent"
    OBVIOUS
  <2>2. /\ permit' \in [Ops -> {"none", "held", "claimed"}]
        /\ region' \in {"active", "drain_requested", "draining", "finalizing", "closed"}
        /\ tree' \in [Ops -> NodeObligation]
    BY <1>1
  <2>3. lease' \in 0 .. MaxFence /\ lastFence' \in 0 .. MaxFence
    BY EffectAssumption
  <2>4. dispatches' \in [Ops -> Nat] /\ fencesUsed' \in Seq(1 .. MaxFence)
    BY DEF CoordInv, OwnerOK, TypeOK
  <2>5. poisoned' \in BOOLEAN
    OBVIOUS
  <2> QED
    BY <2>1, <2>2, <2>3, <2>4, <2>5, TypeStep
<1>3. (owner = "live" => Retained(journal) \subseteq bound)'
  OBVIOUS
<1>4. \A op \in Ops : tree'[op].state = "absent" => tree'[op] = NoObligation
  OBVIOUS
<1>5. ObligationsAgree' /\ ClosedRegionIsSettled'
  BY DEF ObligationsAgree, ClosedRegionIsSettled
<1> QED
  BY <1>2, <1>3, <1>4, <1>5 DEF OwnerOK

(* Death, a first opening, and recovery.                                    *)
LEMMA OwnerLife ==
  ASSUME CoordInv, [Next]_vars, ProcessDeath \/ WithJournal \/ Recover
  PROVE  OwnerOK'
<1>1. CASE ProcessDeath
  <2>1. /\ owner' = "down" /\ journal' = [op \in Ops |-> NoReceipt]
        /\ poisoned' = FALSE /\ bound' = {} /\ region' = "active"
        /\ tree' = [op \in Ops |-> NoObligation] /\ permit' = [op \in Ops |-> "none"]
        /\ lease' = 0 /\ lastFence' = 0 /\ UNCHANGED <<dispatches, fencesUsed>>
    BY <1>1 DEF ProcessDeath, FreshProcess
  <2>2. JournalOK(journal')
    BY <2>1, NothingOK
  <2>3. (Ready => journal = Durable.journal)'
    BY <2>1 DEF Ready
  <2>4. (owner = "down" => Unopened)' /\ (owner = "live" => Retained(journal) = {})'
    BY <2>1 DEF Unopened
  <2>5. owner' \in {"down", "live", "recovered"}
    BY <2>1
  <2> QED
    BY <2>1, <2>2, <2>3, <2>4, <2>5, OwnerFresh
<1>2. CASE WithJournal
  <2>1. /\ owner = "down" /\ history = <<>> /\ owner' = "live"
        /\ UNCHANGED <<poisoned, journal, bound, permit, region, tree, lease, lastFence, history,
                       dispatches, fencesUsed>>
    BY <1>2 DEF WithJournal
  <2>2. Unopened
    BY <2>1 DEF CoordInv, OwnerOK
  <2>3. /\ journal' = [op \in Ops |-> NoReceipt]
        /\ poisoned' = FALSE /\ bound' = {} /\ region' = "active"
        /\ tree' = [op \in Ops |-> NoObligation] /\ permit' = [op \in Ops |-> "none"]
        /\ lease' = 0 /\ lastFence' = 0 /\ UNCHANGED <<dispatches, fencesUsed>>
    <3>1. poisoned = FALSE
      BY <2>2 DEF Unopened, CoordInv, OwnerOK, TypeOK
    <3> QED
      BY <2>1, <2>2, <3>1 DEF Unopened
  <2>4. JournalOK(journal')
    BY <2>3, NothingOK
  <2>5. (Ready => journal = Durable.journal)'
    BY <2>1, <2>3, StoreEmpty DEF Durable
  <2>6. (owner = "down" => Unopened)' /\ (owner = "live" => Retained(journal) = {})'
    BY <2>1, <2>3 DEF Retained, NoReceipt
  <2>7. owner' \in {"down", "live", "recovered"}
    BY <2>1
  <2> QED
    BY <2>3, <2>4, <2>5, <2>6, <2>7, OwnerFresh
<1>3. CASE Recover
  <2>1. /\ owner = "down" /\ owner' = "recovered" /\ journal' = Replay(history).journal
        /\ UNCHANGED <<poisoned, bound, permit, region, tree, lease, lastFence, history,
                       dispatches, fencesUsed>>
    BY <1>3 DEF Recover
  <2>2. Unopened
    BY <2>1 DEF CoordInv, OwnerOK
  <2>3. /\ poisoned' = FALSE /\ bound' = {} /\ region' = "active"
        /\ tree' = [op \in Ops |-> NoObligation] /\ permit' = [op \in Ops |-> "none"]
        /\ lease' = 0 /\ lastFence' = 0 /\ UNCHANGED <<dispatches, fencesUsed>>
    <3>1. poisoned = FALSE
      BY <2>2 DEF Unopened, CoordInv, OwnerOK, TypeOK
    <3> QED
      BY <2>1, <2>2, <3>1 DEF Unopened
  <2>4. JournalOK(journal')
    BY <2>1 DEF CoordInv, StoreOK
  <2>5. (Ready => journal = Durable.journal)'
    BY <2>1 DEF Durable
  <2>6. (owner = "down" => Unopened)' /\ (owner = "live" => Retained(journal) = {})'
    BY <2>1
  <2>7. owner' \in {"down", "live", "recovered"}
    BY <2>1
  <2> QED
    BY <2>3, <2>4, <2>5, <2>6, <2>7, OwnerFresh
<1> QED
  BY <1>1, <1>2, <1>3

(* Claims, dropped permits and leases leave the memory alone.               *)
LEMMA OwnerPermits ==
  ASSUME CoordInv, [Next]_vars,
         (\E op \in Ops : Dispatch(op) \/ DropPermit(op)) \/ LeaseTaken \/ LeaseEnds
  PROVE  OwnerOK'
<1>0. /\ permit \in [Ops -> {"none", "held", "claimed"}] /\ dispatches \in [Ops -> Nat]
      /\ lease \in 0 .. MaxFence /\ lastFence \in 0 .. MaxFence
      /\ owner = "down" => Unopened
  BY DEF CoordInv, OwnerOK, TypeOK
<1>1. ASSUME NEW op \in Ops, Dispatch(op)
      PROVE  OwnerOK'
  <2>1. /\ permit[op] = "held" /\ permit' = [permit EXCEPT ![op] = "claimed"]
        /\ dispatches' = [dispatches EXCEPT ![op] = @ + 1]
        /\ UNCHANGED <<owner, poisoned, journal, bound, region, tree, history>>
        /\ lease' = lease /\ lastFence' = lastFence /\ fencesUsed' = fencesUsed
    BY <1>1 DEF Dispatch
  <2>2. owner # "down"
    BY <1>0, <2>1 DEF Unopened
  <2>3. permit' \in [Ops -> {"none", "held", "claimed"}] /\ dispatches' \in [Ops -> Nat]
    BY <1>0, <2>1
  <2> QED
    BY <1>0, <2>1, <2>2, <2>3, OwnerFrame
<1>2. ASSUME NEW op \in Ops, DropPermit(op)
      PROVE  OwnerOK'
  <2>1. /\ permit[op] # "none" /\ permit' = [permit EXCEPT ![op] = "none"]
        /\ dispatches' = dispatches
        /\ UNCHANGED <<owner, poisoned, journal, bound, region, tree, history>>
        /\ lease' = lease /\ lastFence' = lastFence /\ fencesUsed' = fencesUsed
    BY <1>2 DEF DropPermit
  <2>2. owner # "down"
    BY <1>0, <2>1 DEF Unopened
  <2>3. permit' \in [Ops -> {"none", "held", "claimed"}] /\ dispatches' \in [Ops -> Nat]
    BY <1>0, <2>1
  <2> QED
    BY <1>0, <2>1, <2>2, <2>3, OwnerFrame
<1>3. CASE LeaseTaken
  <2>1. /\ owner = "live" /\ lastFence < MaxFence
        /\ lease' = lastFence + 1 /\ lastFence' = lastFence + 1
        /\ UNCHANGED <<owner, poisoned, journal, bound, region, tree, history>>
        /\ permit' = permit /\ dispatches' = dispatches /\ fencesUsed' = fencesUsed
    BY <1>3 DEF LeaseTaken
  <2>2. lease' \in 0 .. MaxFence /\ lastFence' \in 0 .. MaxFence
    BY <1>0, <2>1, EffectAssumption
  <2> QED
    BY <1>0, <2>1, <2>2, OwnerFrame
<1>4. CASE LeaseEnds
  <2>1. /\ lease # 0 /\ lease' = 0 /\ lastFence' = lastFence
        /\ UNCHANGED <<owner, poisoned, journal, bound, region, tree, history>>
        /\ permit' = permit /\ dispatches' = dispatches /\ fencesUsed' = fencesUsed
    BY <1>4 DEF LeaseEnds
  <2>2. owner # "down"
    BY <1>0, <2>1 DEF Unopened
  <2>3. lease' \in 0 .. MaxFence
    BY <2>1, EffectAssumption
  <2> QED
    BY <1>0, <2>1, <2>2, <2>3, OwnerFrame
<1> QED
  BY <1>1, <1>2, <1>3, <1>4

(* Every step keeps the owner's memory.                                     *)
LEMMA OwnerStep ==
  ASSUME CoordInv, Next
  PROVE  OwnerOK'
<1>0. [Next]_vars
  OBVIOUS
<1>1. ASSUME NEW e \in Events, Prepare(e) \/ Commit(e) \/ Report(e) \/ Reconcile(e) \/ AppendFails(e)
      PROVE  OwnerOK'
  BY <1>0, <1>1, OwnerPrepare, OwnerCommit, OwnerReport, OwnerReconcile, OwnerFails
<1>2. ASSUME NEW op \in Ops, Dispatch(op) \/ DropPermit(op)
      PROVE  OwnerOK'
  BY <1>0, <1>2, OwnerPermits
<1>3. ASSUME NEW op \in Ops, Adopt(op)
      PROVE  OwnerOK'
  BY <1>0, <1>3, OwnerAdopt
<1>4. CASE LeaseTaken \/ LeaseEnds
  BY <1>0, <1>4, OwnerPermits
<1>5. CASE RequestDrain
  BY <1>0, <1>5, OwnerRegion DEF RequestDrain
<1>6. CASE BeginDrain
  BY <1>0, <1>6, OwnerRegion DEF BeginDrain
<1>7. CASE BeginFinalize
  BY <1>0, <1>7, OwnerRegion DEF BeginFinalize
<1>8. CASE Finalize
  <2>1. Quiescent /\ (RegionMoves("draining", "closed") \/ RegionMoves("finalizing", "closed"))
    BY <1>8 DEF Finalize
  <2> QED
    BY <1>0, <2>1, OwnerRegion
<1>9. CASE ProcessDeath \/ WithJournal \/ Recover
  BY <1>0, <1>9, OwnerLife
<1> QED
  BY <1>1, <1>2, <1>3, <1>4, <1>5, <1>6, <1>7, <1>8, <1>9 DEF Next

-----------------------------------------------------------------------------
(* The results.                                                             *)

(* The initial state: no record, no owner, no permit.                       *)
LEMMA Initially == Init => CoordInv
<1> SUFFICES ASSUME Init PROVE CoordInv
  OBVIOUS
<1>1. StoreOK(history) /\ Durable.journal = [op \in Ops |-> NoReceipt] /\ history \in Seq(Events)
  BY StoreEmpty DEF Init, Durable
<1>2. TypeOK
  <2>1. journal \in [Ops -> Receipt] /\ tree \in [Ops -> NodeObligation]
    BY NothingOK, EffectAssumption
       DEF Init, JournalOK, NoObligation, NodeObligation, OptProof, OptNote
  <2>2. poisoned \in BOOLEAN
    BY DEF Init
  <2>3. /\ bound \subseteq Ops /\ \A op \in bound : journal[op].state # "absent"
        /\ permit \in [Ops -> {"none", "held", "claimed"}]
        /\ region \in {"active", "drain_requested", "draining", "finalizing", "closed"}
        /\ owner \in {"down", "live", "recovered"}
    BY DEF Init
  <2>4. /\ lease \in 0 .. MaxFence /\ lastFence \in 0 .. MaxFence
        /\ dispatches \in [Ops -> Nat] /\ fencesUsed \in Seq(1 .. MaxFence)
    BY EffectAssumption DEF Init
  <2> QED
    BY <1>1, <2>1, <2>2, <2>3, <2>4, Zenon DEF TypeOK
<1>3. OwnerOK
  <2>1. JournalOK(journal)
    BY NothingOK DEF Init
  <2>2. ~Ready /\ Unopened /\ owner = "down"
    BY DEF Init, Ready, Unopened
  <2>3. \A op \in Ops : tree[op].state = "absent" => tree[op] = NoObligation
    BY DEF Init
  <2>4. ObligationsAgree /\ ClosedRegionIsSettled
    BY DEF Init, ObligationsAgree, ClosedRegionIsSettled
  <2> QED
    BY <1>2, <2>1, <2>2, <2>3, <2>4 DEF OwnerOK
<1>4. PermitsOK
  BY <1>1 DEF Init, PermitsOK, PermitOK, Past, NoReceipt
<1>5. FencesOK
  BY DEF Init, FencesOK, FencesInOrder
<1> QED
  BY <1>1, <1>3, <1>4, <1>5 DEF CoordInv

(* Every step preserves the invariant.                                      *)
LEMMA Preserved == CoordInv /\ [Next]_vars => CoordInv'
<1> SUFFICES ASSUME CoordInv, [Next]_vars PROVE CoordInv'
  OBVIOUS
<1>1. StoreOK(history')
  BY StoreStep
<1>2. PermitsOK' /\ FencesOK'
  BY PermitsStep, FencesStep
<1>3. OwnerOK'
  <2>1. CASE Next
    BY <2>1, OwnerStep
  <2>2. CASE UNCHANGED vars
    <3>1. UNCHANGED <<owner, poisoned, journal, bound, permit, region, tree, lease, lastFence,
                      history, dispatches, fencesUsed>>
      BY <2>2 DEF vars, process
    <3>2. OwnerOK
      BY DEF CoordInv
    <3>3. TypeOK'
      BY <3>1, <3>2, Zenon DEF OwnerOK, TypeOK
    <3>4. (Ready => journal = Durable.journal)' /\ (owner = "down" => Unopened)'
      BY <3>1, <3>2, Zenon DEF OwnerOK, Ready, Durable, Unopened
    <3>5. ObligationsAgree' /\ ClosedRegionIsSettled'
      BY <3>1, <3>2 DEF OwnerOK, ObligationsAgree, ClosedRegionIsSettled
    <3>6. /\ JournalOK(journal') /\ (owner = "live" => Retained(journal) \subseteq bound)'
          /\ \A op \in Ops : tree'[op].state = "absent" => tree'[op] = NoObligation
      BY <3>1, <3>2 DEF OwnerOK, Retained
    <3> QED
      BY <3>3, <3>4, <3>5, <3>6 DEF OwnerOK
  <2> QED
    BY <2>1, <2>2
<1> QED
  BY <1>1, <1>2, <1>3 DEF CoordInv

(* The inductive invariant holds of every reachable state.                  *)
THEOREM Inductive == Spec => []CoordInv
  BY Initially, Preserved, PTL DEF Spec

(* The owner's state keeps its types; the obligations of the journal and of *)
(* the region agree, notes included, so that require_scope never locks an   *)
(* operation out; a closed region left no operation without an outcome.     *)
THEOREM Owner == Spec => []EffectInv
<1>1. CoordInv => EffectInv
  BY DEF CoordInv, OwnerOK, EffectInv
<1> QED
  BY <1>1, Inductive, PTL

(* Whatever appends failed and whatever was recovered, recover accepts the  *)
(* store's history, and an owner that is not poisoned holds its replay.     *)
THEOREM Replays == Spec => []HistoryReplays
<1>1. CoordInv => HistoryReplays
  BY Zenon DEF CoordInv, StoreOK, OwnerOK, HistoryReplays, Durable
<1> QED
  BY <1>1, Inductive, PTL

(* What try_claim_dispatch let out is never forgotten by the store and      *)
(* never recorded as cancelled.                                             *)
THEOREM Remembered == Spec => []DispatchIsRemembered
<1>1. CoordInv => DispatchIsRemembered
  BY DEF CoordInv, PermitsOK, PermitOK, Past, DispatchIsRemembered
<1> QED
  BY <1>1, Inductive, PTL

(* No operation is dispatched twice, over all the processes on the store.   *)
THEOREM Once == Spec => []AtMostOneDispatch
<1>1. CoordInv => AtMostOneDispatch
  BY DEF CoordInv, PermitsOK, PermitOK, AtMostOneDispatch
<1> QED
  BY <1>1, Inductive, PTL

(* persist_event always leaves the records every outstanding operation      *)
(* needs to settle, also in what a failed append may have left behind.      *)
THEOREM Settleable == Spec => []RoomToSettle
<1>1. CoordInv => RoomToSettle
  BY DEF CoordInv, StoreOK, RoomToSettle, Durable
<1> QED
  BY <1>1, Inductive, PTL

(* commit issues its permits in the order of their fences.                  *)
THEOREM Fenced == Spec => []FencesInOrder
<1>1. CoordInv => FencesInOrder
  BY DEF CoordInv, FencesOK
<1> QED
  BY <1>1, Inductive, PTL

(* A terminal record is the last word on its operation: check_transition    *)
(* accepts none after it, across failed appends, deaths and recoveries.     *)
THEOREM LastWordStays == Spec => TerminalStays
<1> DEFINE A == \A i \in DOMAIN history :
                  /\ i \in DOMAIN history' /\ history'[i] = history[i]
                  /\ history[i].to \in Terminal =>
                       \A j \in i + 1 .. Len(history') : history'[j].op # history[i].op
<1>1. CoordInv /\ [Next]_vars => [A]_history
  <2> SUFFICES ASSUME CoordInv, [Next]_vars, history' # history PROVE A
    OBVIOUS
  <2>1. PICK e \in Events : Attempted(e) /\ history' = Append(history, e)
    BY HistoryStep
  <2>2. history \in Seq(Events) /\ LastWord(Append(history, e))
    BY <2>1, WriteFacts DEF CoordInv, StoreOK
  <2>3. /\ DOMAIN history = 1 .. Len(history) /\ Len(history) \in Nat
        /\ DOMAIN history' = 1 .. Len(history) + 1 /\ Len(history') = Len(history) + 1
        /\ \A i \in 1 .. Len(history) : history'[i] = history[i]
    BY <2>1, <2>2
  <2>4. ASSUME NEW i \in 1 .. Len(history), history[i].to \in Terminal
        PROVE  \A j \in i + 1 .. Len(history') : history'[j].op # history[i].op
    <3>1. i \in 1 .. Len(history') /\ history'[i] = history[i]
      BY <2>3
    <3> QED
      BY <2>1, <2>2, <2>4, <3>1 DEF LastWord
  <2> QED
    BY <2>3, <2>4
<1> QED
  BY <1>1, Inductive, PTL DEF Spec, TerminalStays
=============================================================================
