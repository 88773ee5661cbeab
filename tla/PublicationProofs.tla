-------------------------- MODULE PublicationProofs --------------------------
(***************************************************************************)
(* Proofs about Publication, for any slots, objects and manifests, any      *)
(* limits, and any number of faults, deaths and power losses.               *)
(***************************************************************************)
EXTENDS Publication, TLAPS

-----------------------------------------------------------------------------
(* Directories.                                                             *)

Values == Objects \union {None, Torn}
IsDir(d, N) == /\ d \in [now : [N -> Values], may : [N -> SUBSET Values]]
               /\ \A n \in N : d.now[n] \in d.may[n]

(* What a step leaves of a name it does not touch: its value, and that no   *)
(* power loss can change it.                                                *)
Keeps(d, e, n) ==
  /\ e.now[n] = d.now[n]
  /\ e.may[n] \subseteq d.may[n]
  /\ Firm(d, n) => Firm(e, n)

(* A directory after a step that touched the names in T only.               *)
Touched(d, e, T, N) == IsDir(e, N) /\ \A n \in N \ T : Keeps(d, e, n)

(* Creating, replacing or removing a name.                                  *)
LEMMA PutDir ==
  ASSUME NEW N, NEW d, IsDir(d, N), NEW n \in N, NEW v \in Values
  PROVE  /\ Touched(d, Put(d, n, v), {n}, N)
         /\ Put(d, n, v).now[n] = v /\ Put(d, n, v).may[n] = d.may[n] \union {v}
         /\ \A x \in N \ {n} : Put(d, n, v).now[x] = d.now[x] /\ Put(d, n, v).may[x] = d.may[x]
<1> DEFINE e == Put(d, n, v)
<1>0. /\ d.now \in [N -> Values] /\ d.may \in [N -> SUBSET Values]
      /\ \A x \in N : d.now[x] \in d.may[x]
  BY DEF IsDir
<1>1. /\ e.now = [d.now EXCEPT ![n] = v] /\ e.may = [d.may EXCEPT ![n] = d.may[n] \union {v}]
      /\ e = [now |-> e.now, may |-> e.may]
  BY DEF Put
<1>2. e.now[n] = v /\ e.may[n] = d.may[n] \union {v}
  BY <1>0, <1>1
<1>3. \A x \in N \ {n} : e.now[x] = d.now[x] /\ e.may[x] = d.may[x]
  BY <1>0, <1>1
<1>4. e.now \in [N -> Values] /\ e.may \in [N -> SUBSET Values]
  BY <1>0, <1>1
<1> HIDE DEF e
<1>5. IsDir(e, N)
  <2>1. e \in [now : [N -> Values], may : [N -> SUBSET Values]]
    BY <1>1, <1>4
  <2>2. \A x \in N : e.now[x] \in e.may[x]
    BY <1>0, <1>2, <1>3
  <2> QED
    BY <2>1, <2>2 DEF IsDir
<1>6. \A x \in N \ {n} : Keeps(d, e, x)
  BY <1>3 DEF Keeps, Firm
<1> QED
  BY <1>2, <1>3, <1>5, <1>6 DEF Touched, e

(* The name itself.                                                         *)
LEMMA PutValue ==
  ASSUME NEW N, NEW d, IsDir(d, N), NEW n \in N, NEW v \in Values
  PROVE  Put(d, n, v).now[n] = v /\ Put(d, n, v).may[n] = d.may[n] \union {v}
<1>1. d.now \in [N -> Values] /\ d.may \in [N -> SUBSET Values]
  BY DEF IsDir
<1>2. /\ Put(d, n, v).now = [d.now EXCEPT ![n] = v]
      /\ Put(d, n, v).may = [d.may EXCEPT ![n] = d.may[n] \union {v}]
  BY DEF Put
<1> QED
  BY <1>1, <1>2

(* A synchronisation makes every name firm and changes none.                *)
LEMMA SyncDir ==
  ASSUME NEW N, NEW d, IsDir(d, N)
  PROVE  /\ Touched(d, Sync(d), {}, N)
         /\ \A x \in N : Sync(d).now[x] = d.now[x] /\ Sync(d).may[x] = {d.now[x]}
<1> DEFINE e == Sync(d)
<1>0. /\ d.now \in [N -> Values] /\ d.may \in [N -> SUBSET Values]
      /\ \A x \in N : d.now[x] \in d.may[x]
      /\ d = [now |-> d.now, may |-> d.may] /\ DOMAIN d.now = N
  BY DEF IsDir
<1>1. e.now = d.now /\ e.may = [x \in N |-> {d.now[x]}] /\ e = [now |-> e.now, may |-> e.may]
  <2> DEFINE m == [x \in N |-> {d.now[x]}]
  <2>1. e = [d EXCEPT !.may = m]
    BY <1>0 DEF Sync
  <2> HIDE DEF e, m
  <2>2. e.now = d.now /\ e.may = m /\ e = [now |-> e.now, may |-> e.may]
    BY <1>0, <2>1
  <2> QED
    BY <2>2 DEF m
<1>2. \A x \in N : e.now[x] = d.now[x] /\ e.may[x] = {d.now[x]}
  BY <1>1
<1>3. e.now \in [N -> Values] /\ e.may \in [N -> SUBSET Values]
  BY <1>0, <1>1
<1> HIDE DEF e
<1>4. IsDir(e, N)
  <2>1. e \in [now : [N -> Values], may : [N -> SUBSET Values]]
    BY <1>1, <1>3
  <2>2. \A x \in N : e.now[x] \in e.may[x]
    BY <1>0, <1>2
  <2> QED
    BY <2>1, <2>2 DEF IsDir
<1>5. \A x \in N : Keeps(d, e, x)
  BY <1>0, <1>2 DEF Keeps, Firm
<1> QED
  BY <1>2, <1>4, <1>5 DEF Touched, e

(* Nothing touched.                                                         *)
LEMMA SameDir ==
  ASSUME NEW N, NEW d, IsDir(d, N)
  PROVE  Touched(d, d, {}, N)
  BY DEF Touched, Keeps, IsDir

(* Two steps in a row.                                                      *)
LEMMA TouchedTwice ==
  ASSUME NEW N, NEW d, NEW e, NEW f, NEW T, NEW U,
         Touched(d, e, T, N), Touched(e, f, U, N)
  PROVE  Touched(d, f, T \union U, N)
  BY DEF Touched, Keeps

(* A step that touches less touches no more.                                *)
LEMMA TouchedMore ==
  ASSUME NEW N, NEW d, NEW e, NEW T, NEW U, Touched(d, e, T, N), T \subseteq U
  PROVE  Touched(d, e, U, N)
  BY DEF Touched

(* remove_temp, however it ends.                                            *)
LEMMA RemoveTempDir ==
  ASSUME NEW N, NEW d, IsDir(d, N), NEW n \in N, NEW r \in RemoveTemp(d, n)
  PROVE  /\ Touched(d, r.dir, {n}, N)
         /\ r.orphan \subseteq {n} /\ r.fault \in {0, 1}
         /\ r.fault = 0 => r.orphan = {}
<1>0. None \in Values
  BY DEF Values
<1>1. Touched(d, Remove(d, n), {n}, N)
  BY <1>0, PutDir DEF Remove
<1>2. Touched(d, Sync(Remove(d, n)), {n}, N)
  <2>1. Touched(Remove(d, n), Sync(Remove(d, n)), {}, N)
    BY <1>1, SyncDir DEF Touched
  <2>2. Touched(d, Sync(Remove(d, n)), {n} \union {}, N)
    BY <1>1, <2>1, TouchedTwice
  <2> QED
    BY <2>2, TouchedMore
<1>3. Touched(d, d, {n}, N)
  BY SameDir, TouchedMore
<1>4. /\ r.dir \in {d, Remove(d, n), Sync(Remove(d, n))}
      /\ r.orphan \subseteq {n} /\ r.fault \in {0, 1} /\ (r.fault = 0 => r.orphan = {})
  BY DEF RemoveTemp, RemoveFailed
<1> QED
  BY <1>1, <1>2, <1>3, <1>4

(* Writing a marker, however it ends: if it is done, it is firm.            *)
LEMMA WriteMarkerDir ==
  ASSUME NEW N, NEW d, IsDir(d, N), NEW n \in N, NEW k \in WriteMarker(d, n)
  PROVE  /\ Touched(d, k.dir, {n}, N)
         /\ k.dir.may[n] \subseteq d.may[n] \union {Torn}
         /\ k.done => k.dir.may[n] = {Torn}
         /\ k.done \in BOOLEAN
<1>0. Torn \in Values
  BY DEF Values
<1> DEFINE e == Put(d, n, Torn)
<1>1. Touched(d, e, {n}, N) /\ e.now[n] = Torn /\ e.may[n] = d.may[n] \union {Torn}
  <2>1. Touched(d, e, {n}, N)
    BY <1>0, PutDir
  <2>2. e.now[n] = Torn /\ e.may[n] = d.may[n] \union {Torn}
    BY <1>0, PutValue
  <2> QED
    BY <2>1, <2>2
<1>2. Touched(e, Sync(e), {}, N) /\ Sync(e).may[n] = {Torn}
  BY <1>1, SyncDir DEF Touched
<1>3. Touched(d, Sync(e), {n}, N)
  <2>1. Touched(d, Sync(e), {n} \union {}, N)
    BY <1>1, <1>2, TouchedTwice
  <2> QED
    BY <2>1, TouchedMore
<1>4. Touched(d, d, {n}, N)
  BY SameDir, TouchedMore
<1>5. \/ k.dir = Sync(e) /\ k.done = TRUE
      \/ k.dir = e /\ k.done = FALSE
      \/ k.dir = d /\ k.done = FALSE
  BY DEF WriteMarker
<1> HIDE DEF e
<1> QED
  BY <1>1, <1>2, <1>3, <1>4, <1>5

(* Taking back a record: if that was clean, no power loss brings it back,   *)
(* unless it was already gone and could come back.                          *)
LEMMA UndoneDir ==
  ASSUME NEW N, NEW d, IsDir(d, N), NEW n \in N, NEW u \in Undone(d, n)
  PROVE  /\ Touched(d, u.dir, {n}, N)
         /\ u.dir.may[n] \subseteq d.may[n] \union {None}
         /\ u.clean => /\ u.dir.now[n] = None
                       /\ d.now[n] # None \/ Firm(d, n) => Firm(u.dir, n)
         /\ u.clean \in BOOLEAN
<1>0. None \in Values
  BY DEF Values
<1> DEFINE e == Remove(d, n)
<1>1. Touched(d, e, {n}, N) /\ e.now[n] = None /\ e.may[n] = d.may[n] \union {None}
  BY <1>0, PutDir DEF Remove
<1>2. Touched(e, Sync(e), {}, N) /\ Sync(e).may[n] = {None} /\ Sync(e).now[n] = None
  <2>1. IsDir(e, N)
    BY <1>1 DEF Touched
  <2> HIDE DEF e
  <2>2. Touched(e, Sync(e), {}, N)
    BY <2>1, SyncDir
  <2>3. Sync(e).may[n] = {None} /\ Sync(e).now[n] = None
    BY <1>1, <2>1, SyncDir
  <2> QED
    BY <2>2, <2>3
<1>3. Touched(d, Sync(e), {n}, N)
  <2>1. Touched(d, Sync(e), {n} \union {}, N)
    BY <1>1, <1>2, TouchedTwice
  <2> QED
    BY <2>1, TouchedMore
<1>4. Touched(d, d, {n}, N)
  BY SameDir, TouchedMore
<1>5. \/ d.now[n] = None /\ u.dir = d /\ u.clean = TRUE
      \/ d.now[n] # None /\ u.dir = Sync(e) /\ u.clean = TRUE
      \/ u.dir = e /\ u.clean = FALSE
      \/ u.dir = d /\ u.clean = FALSE
  BY DEF Undone, RemoveFailed
<1> HIDE DEF e
<1> QED
  BY <1>1, <1>2, <1>3, <1>4, <1>5 DEF Firm

(* Removing a set of names.                                                 *)
LEMMA RemoveAllDir ==
  ASSUME NEW N, NEW d, IsDir(d, N), NEW T
  PROVE  Touched(d, RemoveAll(d, T), T, N)
<1> DEFINE e == RemoveAll(d, T)
<1>0. /\ d.now \in [N -> Values] /\ d.may \in [N -> SUBSET Values] /\ None \in Values
      /\ \A x \in N : d.now[x] \in d.may[x]
  BY DEF IsDir, Values
<1>1. /\ e.now = [n \in N |-> IF n \in T THEN None ELSE d.now[n]]
      /\ e.may = [n \in N |-> IF n \in T THEN d.may[n] \union {None} ELSE d.may[n]]
      /\ e = [now |-> e.now, may |-> e.may]
  BY <1>0 DEF RemoveAll
<1>2. e.now \in [N -> Values] /\ e.may \in [N -> SUBSET Values]
  BY <1>0, <1>1
<1>3. \A x \in N : e.now[x] \in e.may[x]
  BY <1>0, <1>1
<1>4. \A x \in N \ T : e.now[x] = d.now[x] /\ e.may[x] = d.may[x]
  BY <1>1
<1> HIDE DEF e
<1>5. e \in [now : [N -> Values], may : [N -> SUBSET Values]]
  BY <1>1, <1>2
<1>6. \A x \in N \ T : Keeps(d, e, x)
  BY <1>4 DEF Keeps, Firm
<1> QED
  BY <1>3, <1>5, <1>6 DEF Touched, IsDir, e

(* A power loss leaves every name with a value it may have, and firm.       *)
LEMMA PowerLossDir ==
  ASSUME NEW N, NEW d, IsDir(d, N), NEW e \in AfterPowerLoss(d)
  PROVE  /\ IsDir(e, N)
         /\ \A n \in N : e.now[n] \in d.may[n] /\ e.may[n] = {e.now[n]}
<1> DEFINE open == {n \in DOMAIN d.may : Cardinality(d.may[n]) > 1}
           picks == {f \in [open -> UNION {d.may[n] : n \in open}] : \A n \in open : f[n] \in d.may[n]}
           g(f) == [d EXCEPT !.now = [n \in DOMAIN d.now |-> IF n \in open THEN f[n] ELSE d.now[n]]]
<1>0. /\ d.now \in [N -> Values] /\ d.may \in [N -> SUBSET Values]
      /\ \A x \in N : d.now[x] \in d.may[x]
      /\ d = [now |-> d.now, may |-> d.may] /\ DOMAIN d.now = N /\ DOMAIN d.may = N
  BY DEF IsDir
<1>1. PICK f \in picks : e = Sync(g(f))
  BY DEF AfterPowerLoss
<1>2. \A n \in open : f[n] \in d.may[n]
  OBVIOUS
<1> HIDE DEF picks
<1>3. /\ g(f).now = [n \in N |-> IF n \in open THEN f[n] ELSE d.now[n]] /\ g(f).may = d.may
      /\ g(f) = [now |-> g(f).now, may |-> g(f).may]
  BY <1>0
<1> DEFINE h == g(f)
<1> HIDE DEF g, open
<1>4. \A n \in N : h.now[n] \in d.may[n]
  BY <1>0, <1>2, <1>3
<1>5. h.now \in [N -> Values]
  <2>1. \A n \in N : h.now[n] \in Values
    BY <1>0, <1>4
  <2> QED
    BY <1>3, <2>1
<1>6. h \in [now : [N -> Values], may : [N -> SUBSET Values]]
  BY <1>0, <1>3, <1>5
<1> HIDE DEF h
<1>7. IsDir(h, N)
  BY <1>3, <1>4, <1>6 DEF IsDir, h
<1>8. e = Sync(h)
  BY <1>1 DEF h
<1> QED
  BY <1>4, <1>7, <1>8, SyncDir DEF Touched

-----------------------------------------------------------------------------
(* Closures.                                                                *)

(* A set of objects with the children of every member among E.              *)
ClosedFor(S, E) == S \subseteq Objects /\ \A p \in S : p \in E => Children[p] \subseteq S

(* The closure of a manifest holds it and is closed.                        *)
LEMMA ClosureHolds ==
  ASSUME NEW E, E \subseteq Manifests, NEW m \in Manifests
  PROVE  m \in Closure(E, m) /\ ClosedFor(Closure(E, m), E \union {m})
<1>1. m \in Objects /\ \A p \in Manifests : Children[p] \subseteq Objects
  BY PublicationAssumption
<1>2. m \in Closure(E, m)
  BY <1>1 DEF Closure
<1>3. ASSUME NEW p \in Closure(E, m), p \in E \union {m}
      PROVE  Children[p] \subseteq Closure(E, m)
  <2> SUFFICES ASSUME NEW o \in Children[p]
               PROVE  o \in Closure(E, m)
    OBVIOUS
  <2>1. o \in Objects
    BY <1>1, <1>3
  <2>2. ASSUME NEW S \in SUBSET Objects, m \in S,
               \A q \in S : q \in E \union {m} => Children[q] \subseteq S
        PROVE  o \in S
    <3>1. p \in S
      BY <2>2 DEF Closure
    <3> QED
      BY <1>3, <2>2, <3>1
  <2> QED
    BY <2>1, <2>2 DEF Closure
<1>4. Closure(E, m) \subseteq Objects
  BY DEF Closure
<1> QED
  BY <1>2, <1>3, <1>4 DEF ClosedFor

(* And it is the least such set.                                            *)
LEMMA ClosureLeast ==
  ASSUME NEW E, NEW m, NEW S, m \in S, ClosedFor(S, E \union {m})
  PROVE  Closure(E, m) \subseteq S
  BY DEF Closure, ClosedFor

(* Expanding more manifests reaches more.                                   *)
LEMMA ClosureMonotone ==
  ASSUME NEW E, NEW F, F \subseteq Manifests, E \subseteq F, NEW m \in Manifests
  PROVE  Closure(E, m) \subseteq Closure(F, m)
<1>1. m \in Closure(F, m) /\ ClosedFor(Closure(F, m), F \union {m})
  BY ClosureHolds
<1>2. ClosedFor(Closure(F, m), E \union {m})
  BY <1>1 DEF ClosedFor
<1> QED
  BY <1>1, <1>2, ClosureLeast

(* Every manifest of E reaches only members of X when all of E is expanded. *)
Whole(E, X) == \A r \in E : Closure(E, r) \subseteq X

(* With fewer roots, or more objects, still so.                             *)
LEMMA WholeLess ==
  ASSUME NEW E, NEW F, F \subseteq Manifests, E \subseteq F, NEW X, NEW Y, X \subseteq Y, Whole(F, X)
  PROVE  Whole(E, Y)
<1> SUFFICES ASSUME NEW r \in E PROVE Closure(E, r) \subseteq Y
  BY DEF Whole
<1>1. Closure(E, r) \subseteq Closure(F, r)
  BY ClosureMonotone
<1>2. Closure(F, r) \subseteq X
  BY DEF Whole
<1> QED
  BY <1>1, <1>2

(* A manifest whose references are whole can be added.                      *)
LEMMA WholeAdd ==
  ASSUME NEW E, E \subseteq Manifests, NEW m \in Manifests, NEW X, Whole(E, X),
         NEW C, C \subseteq X, m \in C, ClosedFor(C, E \union {m})
  PROVE  Whole(E \union {m}, X)
<1> SUFFICES ASSUME NEW r \in E \union {m} PROVE Closure(E \union {m}, r) \subseteq X
  BY DEF Whole
<1>1. CASE r = m
  <2>1. ClosedFor(C, (E \union {m}) \union {r})
    BY <1>1 DEF ClosedFor
  <2>2. Closure(E \union {m}, r) \subseteq C
    BY <1>1, <2>1, ClosureLeast
  <2> QED
    BY <2>2
<1>2. CASE r \in E
  <2> DEFINE R == Closure(E, r)
             S == R \union C
  <2>1. r \in R /\ ClosedFor(R, E \union {r}) /\ R \subseteq X
    BY <1>2, ClosureHolds DEF Whole
  <2> HIDE DEF R
  <2>2. ClosedFor(S, (E \union {m}) \union {r})
    BY <1>2, <2>1 DEF ClosedFor
  <2>3. Closure(E \union {m}, r) \subseteq S
    <3> HIDE DEF S
    <3>1. r \in S
      BY <2>1 DEF S
    <3> QED
      BY <2>2, <3>1, ClosureLeast
  <2> QED
    BY <2>1, <2>3
<1> QED
  BY <1>1, <1>2

-----------------------------------------------------------------------------
(* The roots an instance serves.                                            *)

HeldRoots == {visible[s].root : s \in HeldSlots}
DurableRoots == {visible[s].root : s \in {t \in HeldSlots : visible[t].durable}}
RootsTyped == visible \in [Slots -> [root : Manifests \union {None}, durable : BOOLEAN]]

(* They are manifests.                                                      *)
LEMMA HeldAreManifests ==
  ASSUME RootsTyped
  PROVE  HeldRoots \subseteq Manifests /\ DurableRoots \subseteq HeldRoots
  BY DEF RootsTyped, HeldRoots, DurableRoots, HeldSlots, Held

(* AdmittedIsWhole, of the set of roots.                                    *)
LEMMA AdmittedMeans ==
  AdmittedIsWhole <=> (mode = "live" => Whole(HeldRoots, verified \ tombs))
<1>1. ASSUME NEW X
      PROVE  (\A s \in HeldSlots : Closure(HeldRoots, visible[s].root) \subseteq X)
               <=> Whole(HeldRoots, X)
  BY DEF Whole, HeldRoots
<1>2. AdmittedIsWhole <=>
        (mode = "live" =>
           \A s \in HeldSlots : Closure(HeldRoots, visible[s].root) \subseteq verified \ tombs)
  BY DEF AdmittedIsWhole, HeldRoots
<1> QED
  BY <1>1, <1>2

(* The same of the state a step leads to.                                   *)
LEMMA AdmittedMeansNext ==
  AdmittedIsWhole' <=> (mode' = "live" => Whole(HeldRoots', verified' \ tombs'))
<1>1. ASSUME NEW X
      PROVE  (\A s \in HeldSlots' : Closure(HeldRoots', visible'[s].root) \subseteq X)
               <=> Whole(HeldRoots', X)
  BY DEF Whole, HeldRoots
<1>2. AdmittedIsWhole' <=>
        (mode' = "live" =>
           \A s \in HeldSlots' : Closure(HeldRoots', visible'[s].root) \subseteq verified' \ tombs')
  BY DEF AdmittedIsWhole, HeldRoots
<1> QED
  BY <1>1, <1>2

(* What is reachable through durable roots, from all that are held, is what *)
(* is reachable through all that are held.                                  *)
LEMMA ReachableIsAll ==
  ASSUME RootsTyped
  PROVE  /\ \A r \in HeldRoots : Closure(HeldRoots, r) \subseteq Reachable
         /\ \A X : Whole(HeldRoots, X) => Reachable \subseteq X
<1>0. HeldRoots \subseteq Manifests /\ DurableRoots \subseteq HeldRoots
  BY HeldAreManifests
<1>1. \A o : o \in Reachable <=> \E r \in HeldRoots : o \in Closure(DurableRoots, r)
  BY DEF Reachable, ClosureNow, HeldRoots, DurableRoots
<1>2. ASSUME NEW r \in HeldRoots
      PROVE  r \in Reachable /\ Children[r] \subseteq Reachable
  <2>1. r \in Closure(DurableRoots, r) /\ ClosedFor(Closure(DurableRoots, r), DurableRoots \union {r})
    BY <1>0, ClosureHolds
  <2> QED
    BY <1>1, <2>1 DEF ClosedFor
<1>3. Reachable \subseteq Objects
  BY <1>1 DEF Closure
<1>4. ASSUME NEW r \in HeldRoots
      PROVE  Closure(HeldRoots, r) \subseteq Reachable
  <2>1. ClosedFor(Reachable, HeldRoots \union {r})
    BY <1>2, <1>3 DEF ClosedFor
  <2> QED
    BY <1>2, <2>1, ClosureLeast
<1>5. ASSUME NEW X, Whole(HeldRoots, X)
      PROVE  Reachable \subseteq X
  <2> SUFFICES ASSUME NEW o \in Reachable PROVE o \in X
    OBVIOUS
  <2>1. PICK r \in HeldRoots : o \in Closure(DurableRoots, r)
    BY <1>1
  <2>2. Closure(DurableRoots, r) \subseteq Closure(HeldRoots, r)
    BY <1>0, ClosureMonotone
  <2> QED
    BY <1>5, <2>1, <2>2 DEF Whole
<1> QED
  BY <1>4, <1>5

(* References that passed require_references are whole with the root, also  *)
(* through the roots that are held and not durable.                         *)
LEMMA ReferencesWhole ==
  ASSUME RootsTyped, verified \subseteq Objects, NEW m \in Manifests, ReferencesOk(m), m \in verified,
         Whole(HeldRoots, verified \ tombs)
  PROVE  Whole(HeldRoots \union {m}, verified \ tombs)
<1> DEFINE C == Closure(DurableRoots, m)
<1>0. HeldRoots \subseteq Manifests /\ DurableRoots \subseteq HeldRoots
  BY HeldAreManifests
<1>1. m \in C /\ ClosedFor(C, DurableRoots \union {m})
  BY <1>0, ClosureHolds
<1>2. C = ClosureNow(m)
  BY DEF ClosureNow, DurableRoots
<1>3. m \notin tombs /\ \A o \in C \ {m} : o \notin tombs /\ SettledRoot(o) /\ o \in verified
  BY <1>2 DEF ReferencesOk, Usable
<1> HIDE DEF C
<1>4. C \subseteq verified \ tombs
  BY <1>3
<1>5. ASSUME NEW p \in C, p \in HeldRoots, p # m
      PROVE  p \in DurableRoots
  <2>1. SettledRoot(p)
    BY <1>3, <1>5
  <2>2. \E s \in HeldSlots : visible[s].root = p
    BY <1>5 DEF HeldRoots
  <2>3. \E s \in HeldSlots : visible[s].root = p /\ visible[s].durable
    BY <2>1, <2>2 DEF SettledRoot
  <2> QED
    BY <2>3 DEF DurableRoots
<1>6. ClosedFor(C, HeldRoots \union {m})
  BY <1>1, <1>5 DEF ClosedFor
<1> QED
  BY <1>0, <1>1, <1>4, <1>6, WholeAdd

(* What open admits and verifies is whole.                                  *)
LEMMA OpenIsWhole ==
  ASSUME \A s \in OnDisk : RecordOf(s) \in Manifests, NEW V,
         \A s \in Candidates : \A o \in Closure({RecordOf(t) : t \in Candidates}, RecordOf(s)) :
           ~Blocked(o) => o \in V
  PROVE  Whole({RecordOf(t) : t \in Admitted}, V \ EntombedOnDisk)
<1> DEFINE E == {RecordOf(t) : t \in Admitted}
           D == {RecordOf(t) : t \in Candidates}
<1>0. Admitted \subseteq Candidates /\ Candidates \subseteq OnDisk
      /\ \A s \in Candidates : ~Blocked(RecordOf(s))
  BY DEF Admitted, Candidates
<1>1. E \subseteq Manifests /\ D \subseteq Manifests /\ E \subseteq D
  BY <1>0
<1> SUFFICES ASSUME NEW s \in Admitted
             PROVE  Closure(E, RecordOf(s)) \subseteq V \ EntombedOnDisk
  BY DEF Whole
<1>2. PICK A \in SUBSET Candidates : s \in A /\ \A t \in A : Stands(t, A)
  BY DEF Admitted
<1>3. A \subseteq Admitted
  BY <1>2 DEF Admitted
<1> DEFINE m == RecordOf(s)
           EA == {RecordOf(t) : t \in A}
           S == Closure(EA, m)
<1>4. m \in Manifests /\ EA \subseteq D /\ EA \subseteq E /\ ~Blocked(m) /\ m \in EA
  BY <1>0, <1>2, <1>3
<1>5. m \in S /\ ClosedFor(S, EA \union {m})
  BY <1>1, <1>4, ClosureHolds
<1>6. \A o \in S \ {m} : ~Blocked(o) /\ \A t \in OnDisk \ A : o # RecordOf(t)
  BY <1>2 DEF Stands
<1>7. ASSUME NEW p \in S, p \in E
      PROVE  p \in EA \union {m}
  <2>1. PICK t \in Admitted : p = RecordOf(t)
    BY <1>7
  <2>2. CASE t \in A
    BY <2>1, <2>2
  <2>3. CASE t \notin A
    BY <1>0, <1>6, <2>1, <2>3
  <2> QED
    BY <2>2, <2>3
<1>8. Closure(EA, m) \subseteq Closure(D, m)
  BY <1>1, <1>4, ClosureMonotone
<1>9. \A o \in S : ~Blocked(o) /\ o \in V
  BY <1>0, <1>2, <1>4, <1>6, <1>8
<1> HIDE DEF S, E, EA
<1>10. ClosedFor(S, E \union {m})
  BY <1>5, <1>7 DEF ClosedFor
<1>11. Closure(E, m) \subseteq S
  BY <1>5, <1>10, ClosureLeast
<1> QED
  BY <1>9, <1>11 DEF Blocked

-----------------------------------------------------------------------------
(* The inductive invariant, slot by slot and tombstone by tombstone.        *)

InHand(s) == op.at \in {"unlink", "rollback"} /\ op.slot = s

SlotInv(s) ==
  LET n == RootRecord(s) IN
  /\ roots.may[n] \subseteq Manifests \union {None}
  /\ roots.may[RootMark(s)] \subseteq {None, Torn}
  /\ told[s].says = "durable" => roots.may[n] = {told[s].root}
  /\ told[s].says = "absent" => roots.may[n] = {None}
  /\ told[s].says = "marked" =>
       roots.may[RootMark(s)] = {Torn} /\ ~Held(s) /\ (mode = "live" => s \in broken)
  /\ mode = "down" => ~Held(s)
  /\ mode = "live" /\ roots.now[n] # None => Held(s) \/ s \in broken \/ InHand(s)
  /\ visible[s].durable =>
       /\ Held(s)
       /\ roots.now[n] # None => Firm(roots, n) /\ roots.now[n] = visible[s].root

TombInv(o) == tombsDir.may[Tomb(o)] = {o} /\ (mode = "live" => o \in tombs)

DirsOK == IsDir(roots, RootNames) /\ IsDir(tombsDir, TombNames)

MemoryOK ==
  /\ mode \in {"live", "spoolPoisoned", "poisoned", "down"}
  /\ RootsTyped
  /\ broken \subseteq Slots /\ orphans \subseteq RootNames \union TombNames
  /\ tombs \subseteq Objects /\ spool \subseteq Objects
  /\ verified \subseteq Objects /\ recorded \subseteq Objects
  /\ (mode = "live" => verified \subseteq spool)
  /\ told \in [Slots -> [says : {"durable", "absent", "marked", "unknown"},
                         root : Manifests \union {None}]]
  /\ faults \in 0 .. MaxFaults /\ kills \in 0 .. MaxKills
  /\ \A n \in orphans : n[2] = "tmp"

OpOK == OpInMode /\ SlotInHand /\ TombInHand

PubInv ==
  /\ DirsOK /\ MemoryOK /\ OpOK /\ AdmittedIsWhole
  /\ \A s \in Slots : SlotInv(s)
  /\ \A o \in recorded : TombInv(o)

(* Names that differ.                                                       *)
LEMMA NamesDiffer ==
  /\ \A s \in Slots : {RootRecord(s), RootTemp(s), RootMark(s)} \subseteq RootNames
  /\ \A o \in Objects : {Tomb(o), TombTemp(o), TombMark(o)} \subseteq TombNames
  /\ \A s, t : RootRecord(s) # RootTemp(t) /\ RootRecord(s) # RootMark(t) /\ RootMark(s) # RootTemp(t)
  /\ \A s, t : s # t => RootRecord(s) # RootRecord(t) /\ RootMark(s) # RootMark(t)
  /\ \A s, t : Tomb(s) # TombTemp(t) /\ Tomb(s) # TombMark(t)
  /\ \A s, t : s # t => Tomb(s) # Tomb(t)
  /\ \A s : RootTemp(s)[2] = "tmp" /\ TombTemp(s)[2] = "tmp"
  /\ \A s : RootRecord(s)[2] # "tmp" /\ RootMark(s)[2] # "tmp" /\ Tomb(s)[2] # "tmp"
  BY DEF RootNames, TombNames, RootRecord, RootTemp, RootMark, Tomb, TombTemp, TombMark

(* The invariant gives what the runs check.                                 *)
LEMMA PubInvMeans ==
  ASSUME PubInv
  PROVE  PublicationInv /\ AnswersSurvive /\ MarkedStaysBroken /\ RecordedBlocks
<1>0. DirsOK /\ MemoryOK /\ OpOK /\ AdmittedIsWhole
      /\ (\A s \in Slots : SlotInv(s)) /\ (\A o \in recorded : TombInv(o))
  BY DEF PubInv
<1>1. TypeOK
  BY <1>0 DEF TypeOK, DirsOK, MemoryOK, IsDir, Dirs, Values, RootsTyped
<1>2. AnswersSurvive /\ MarkedStaysBroken
  BY <1>0 DEF SlotInv, AnswersSurvive, MarkedStaysBroken
<1>3. NamesHold /\ RecordsKnown
  <2>1. \A s \in Slots :
          /\ roots.may[RootRecord(s)] \subseteq Manifests \union {None}
          /\ roots.may[RootMark(s)] \subseteq {None, Torn}
    BY <1>0 DEF SlotInv
  <2>2. NamesHold
    BY <1>0, <2>1 DEF NamesHold, MemoryOK
  <2>3. RecordsKnown
    BY <1>0 DEF RecordsKnown, SlotInv, InHand
  <2> QED
    BY <2>2, <2>3
<1>4. RecordedBlocks
  <2>1. mode = "live" => Reachable \subseteq verified \ tombs
    <3>1. mode = "live" => Whole(HeldRoots, verified \ tombs)
      BY <1>0, AdmittedMeans
    <3>2. RootsTyped
      BY <1>0 DEF MemoryOK
    <3> QED
      BY <3>1, <3>2, ReachableIsAll
  <2> QED
    BY <1>0, <2>1 DEF RecordedBlocks, TombInv
<1> QED
  BY <1>0, <1>1, <1>2, <1>3, <1>4 DEF PublicationInv, OpOK

(* A slot that a step does not work on.                                     *)
LEMMA SlotKept ==
  ASSUME NEW s \in Slots, SlotInv(s), DirsOK, DirsOK',
         Keeps(roots, roots', RootRecord(s)), Keeps(roots, roots', RootMark(s)),
         visible'[s] = visible[s], told'[s] = told[s], s \in broken => s \in broken',
         mode' = "live" => mode = "live", mode' = "down" => mode = "down",
         mode' = "live" /\ InHand(s) => InHand(s)'
  PROVE  SlotInv(s)'
<1> DEFINE n == RootRecord(s)
           k == RootMark(s)
<1>0. n \in RootNames /\ k \in RootNames
  BY NamesDiffer
<1>1. /\ roots'.now[n] = roots.now[n] /\ roots'.may[n] \subseteq roots.may[n]
      /\ roots'.may[k] \subseteq roots.may[k]
      /\ roots'.now[n] \in roots'.may[n] /\ roots'.now[k] \in roots'.may[k]
  BY <1>0 DEF Keeps, DirsOK, IsDir
<1>2. Firm(roots, n) => Firm(roots, n)'
  BY DEF Keeps, Firm
<1>3. ASSUME NEW v, roots.may[n] = {v} PROVE roots'.may[n] = {v}
  BY <1>1, <1>3
<1>4. ASSUME NEW v, roots.may[k] = {v} PROVE roots'.may[k] = {v}
  BY <1>1, <1>4
<1>5. Held(s)' <=> Held(s)
  BY DEF Held
<1>6. /\ roots.may[n] \subseteq Manifests \union {None}
      /\ roots.may[k] \subseteq {None, Torn}
      /\ told[s].says = "durable" => roots.may[n] = {told[s].root}
      /\ told[s].says = "absent" => roots.may[n] = {None}
      /\ told[s].says = "marked" =>
           roots.may[k] = {Torn} /\ ~Held(s) /\ (mode = "live" => s \in broken)
      /\ mode = "down" => ~Held(s)
      /\ mode = "live" /\ roots.now[n] # None => Held(s) \/ s \in broken \/ InHand(s)
      /\ visible[s].durable =>
           /\ Held(s)
           /\ roots.now[n] # None => Firm(roots, n) /\ roots.now[n] = visible[s].root
  BY DEF SlotInv
<1>7. n' = n /\ k' = k
  BY DEF RootRecord, RootMark
<1> HIDE DEF n, k
<1>8. /\ roots'.may[n] \subseteq Manifests \union {None}
      /\ roots'.may[k] \subseteq {None, Torn}
  BY <1>1, <1>6
<1>9. /\ told'[s].says = "durable" => roots'.may[n] = {told'[s].root}
      /\ told'[s].says = "absent" => roots'.may[n] = {None}
  BY <1>3, <1>6
<1>10. told'[s].says = "marked" =>
           roots'.may[k] = {Torn} /\ ~Held(s)' /\ (mode' = "live" => s \in broken')
  BY <1>4, <1>5, <1>6
<1>11. /\ mode' = "down" => ~Held(s)'
       /\ mode' = "live" /\ roots'.now[n] # None => Held(s)' \/ s \in broken' \/ InHand(s)'
  BY <1>1, <1>5, <1>6
<1>12. visible'[s].durable =>
           /\ Held(s)'
           /\ roots'.now[n] # None => Firm(roots, n)' /\ roots'.now[n] = visible'[s].root
  BY <1>1, <1>2, <1>5, <1>6
<1> QED
  BY <1>8, <1>9, <1>10, <1>11, <1>12 DEF SlotInv, n, k

(* Steps that do not work on slots at all.                                  *)
LEMMA SlotsKept ==
  ASSUME \A s \in Slots : SlotInv(s), DirsOK, DirsOK', UNCHANGED <<roots, visible, told, broken>>,
         mode' = "live" => mode = "live", mode' = "down" => mode = "down",
         op.at \notin {"unlink", "rollback"}
  PROVE  \A s \in Slots : SlotInv(s)'
<1>1. \A n : Keeps(roots, roots', n)
  BY DEF Keeps
<1>2. \A s \in Slots : ~InHand(s)
  BY DEF InHand
<1> QED
  BY <1>1, <1>2, SlotKept

(* Steps that do not work on tombstones.                                    *)
LEMMA TombsKept ==
  ASSUME \A o \in recorded : TombInv(o), UNCHANGED <<recorded, tombs>>, DirsOK, recorded \subseteq Objects,
         IsDir(tombsDir', TombNames),
         \A o \in Objects : Keeps(tombsDir, tombsDir', Tomb(o)), mode' = "live" => mode = "live"
  PROVE  \A o \in recorded' : TombInv(o)'
<1> SUFFICES ASSUME NEW o \in recorded PROVE TombInv(o)'
  OBVIOUS
<1>1. Tomb(o) \in TombNames /\ o \in Objects
  BY NamesDiffer
<1>2. tombsDir.may[Tomb(o)] = {o} /\ (mode = "live" => o \in tombs)
  BY DEF TombInv
<1>3. tombsDir'.may[Tomb(o)] = {o}
  BY <1>1, <1>2 DEF Keeps, IsDir
<1> QED
  BY <1>2, <1>3 DEF TombInv, Tomb

(* Steps that serve no other roots and take no object away.                 *)
LEMMA WholeKept ==
  ASSUME AdmittedIsWhole, RootsTyped, RootsTyped', mode' = "live" => mode = "live",
         \A s \in Slots : visible'[s].root \in {visible[s].root, None},
         verified \subseteq verified', UNCHANGED tombs
  PROVE  AdmittedIsWhole'
<1> SUFFICES ASSUME mode' = "live" PROVE Whole(HeldRoots', verified' \ tombs')
  BY AdmittedMeansNext
<1>1. HeldRoots \subseteq Manifests
  BY HeldAreManifests
<1>2. HeldRoots' \subseteq HeldRoots
  BY DEF HeldRoots, HeldSlots, Held
<1>3. Whole(HeldRoots, verified \ tombs)
  BY AdmittedMeans
<1> QED
  BY <1>1, <1>2, <1>3, WholeLess

(* No operation under way.                                                  *)
LEMMA IdleOK == op' = Idle => OpOK'
  BY DEF Idle, OpOK, OpInMode, SlotInHand, TombInHand

-----------------------------------------------------------------------------
(* The steps of publication.                                                *)

(* The references do not change when no root, tombstone or object does.     *)
LEMMA ReferencesKept ==
  ASSUME UNCHANGED <<visible, tombs, verified>>
  PROVE  /\ Reachable' = Reachable
         /\ \A m : ReferencesOk(m)' <=> ReferencesOk(m)
<1>1. HeldSlots' = HeldSlots
  BY DEF HeldSlots, Held
<1>2. \A m : ClosureNow(m)' = ClosureNow(m)
  BY <1>1 DEF ClosureNow
<1>3. \A o : Usable(o)' <=> Usable(o)
  BY <1>1 DEF Usable, SettledRoot
<1> QED
  BY <1>1, <1>2, <1>3 DEF Reachable, ReferencesOk

(* A step that works on one slot keeps the invariant if it keeps what is    *)
(* said of that slot, of the roots served and of the operation.             *)
LEMMA SlotStep ==
  ASSUME PubInv, NEW s \in Slots, mode # "down", mode' \in {mode, "poisoned"},
         UNCHANGED <<tombsDir, tombs, recorded, kills>>,
         Touched(roots, roots', {RootRecord(s), RootTemp(s), RootMark(s)}, RootNames),
         RootsTyped', \A t \in Slots \ {s} : visible'[t] = visible[t] /\ told'[t] = told[t],
         told' \in [Slots -> [says : {"durable", "absent", "marked", "unknown"},
                              root : Manifests \union {None}]],
         broken' \in {broken, broken \union {s}}, orphans' \subseteq orphans \union {RootTemp(s)},
         faults' \in 0 .. MaxFaults,
         spool' \subseteq Objects, verified' \subseteq Objects, mode' = "live" => verified' \subseteq spool',
         \A t \in Slots : InHand(t) => t = s,
         SlotInv(s)', AdmittedIsWhole', OpOK'
  PROVE  PubInv'
<1>0. DirsOK /\ MemoryOK /\ (\A t \in Slots : SlotInv(t)) /\ (\A o \in recorded : TombInv(o))
  BY DEF PubInv
<1>1. DirsOK'
  BY <1>0 DEF DirsOK, Touched
<1>2. MemoryOK'
  <2>1. RootTemp(s) \in RootNames /\ RootTemp(s)[2] = "tmp"
    BY NamesDiffer
  <2> QED
    BY <1>0, <2>1 DEF MemoryOK
<1>3. ASSUME NEW t \in Slots, t # s
      PROVE  SlotInv(t)'
  <2>1. Keeps(roots, roots', RootRecord(t)) /\ Keeps(roots, roots', RootMark(t))
    BY <1>3, NamesDiffer DEF Touched
  <2>2. mode' = "live" => mode = "live"
    OBVIOUS
  <2>3. mode' = "down" => mode = "down"
    BY <1>0
  <2>4. mode' = "live" /\ InHand(t) => InHand(t)'
    BY <1>3
  <2>5. t \in broken => t \in broken'
    OBVIOUS
  <2> QED
    BY <1>0, <1>1, <1>3, <2>1, <2>2, <2>3, <2>4, <2>5, SlotKept
<1>4. \A o \in recorded' : TombInv(o)'
  <2>1. \A o \in Objects : Keeps(tombsDir, tombsDir', Tomb(o))
    BY DEF Keeps
  <2>2. mode' = "live" => mode = "live"
    OBVIOUS
  <2>3. recorded \subseteq Objects /\ IsDir(tombsDir', TombNames)
    BY <1>0, <1>1 DEF MemoryOK, DirsOK
  <2> QED
    BY <1>0, <2>1, <2>2, <2>3, TombsKept
<1> QED
  BY <1>1, <1>2, <1>3, <1>4 DEF PubInv

(* What is known while a publication or retraction is under way.            *)
LEMMA SlotOpFacts ==
  ASSUME PubInv, op.at \in {"write", "temp", "unlink", "sync", "rollback", "mark", "retract"}
  PROVE  /\ op.slot \in Slots
         /\ op.at # "retract" => op.root \in Manifests /\ op = [at |-> op.at, slot |-> op.slot, root |-> op.root]
         /\ mode = IF op.at = "mark" THEN "poisoned" ELSE "live"
         /\ \A t \in Slots : InHand(t) => t = op.slot
<1>1. OpInMode
  BY DEF PubInv, OpOK
<1>2. op # Idle
  BY DEF Idle
<1>3. \/ /\ mode = "live"
         /\ \/ op \in [at : {"write", "temp", "unlink", "sync", "rollback"}, slot : Slots, root : Manifests]
            \/ op \in [at : {"retract"}, slot : Slots]
      \/ /\ mode = "poisoned"
         /\ op \in [at : {"mark"}, slot : Slots, root : Manifests]
  BY <1>1, <1>2 DEF OpInMode
<1> QED
  BY <1>3 DEF InHand

(* Spending a fault keeps the bound.                                        *)
LEMMA SpendOK ==
  ASSUME faults \in 0 .. MaxFaults, NEW n \in {0, 1}, Spend(n)
  PROVE  faults' \in 0 .. MaxFaults
  BY PublicationAssumption DEF Spend

(* The names of a slot that a step on its temporary record leaves.          *)
LEMMA TempTouched ==
  ASSUME NEW s \in Slots, Touched(roots, roots', {RootTemp(s)}, RootNames)
  PROVE  /\ Touched(roots, roots', {RootRecord(s), RootTemp(s), RootMark(s)}, RootNames)
         /\ Keeps(roots, roots', RootRecord(s)) /\ Keeps(roots, roots', RootMark(s))
<1>1. {RootTemp(s)} \subseteq {RootRecord(s), RootTemp(s), RootMark(s)}
  OBVIOUS
<1>2. Keeps(roots, roots', RootRecord(s)) /\ Keeps(roots, roots', RootMark(s))
  BY NamesDiffer DEF Touched
<1> QED
  BY <1>1, <1>2, TouchedMore

(* A publication creates its temporary record.                              *)
LEMMA PublishBeginInv ==
  ASSUME PubInv, NEW s \in Slots, NEW m \in Manifests, PublishBegin(s, m)
  PROVE  PubInv'
<1>0. DirsOK /\ MemoryOK /\ AdmittedIsWhole /\ SlotInv(s) /\ Torn \in Values /\ m \in Objects
  BY PublicationAssumption DEF PubInv, Values
<1>1. /\ mode = "live" /\ op = Idle /\ ~Held(s) /\ s \notin broken
      /\ spool' = spool \union {m} /\ verified' = verified \union {m}
      /\ roots' = Put(roots, RootTemp(s), Torn)
      /\ op' = [at |-> "write", slot |-> s, root |-> m] \/ op' = Idle
      /\ UNCHANGED faults \/ Spend(1)
      /\ UNCHANGED <<tombsDir, mode, visible, broken, orphans, tombs, kills, told, recorded>>
  BY DEF PublishBegin, Ready, obsVars
<1>2. Touched(roots, roots', {RootTemp(s)}, RootNames)
  <2>1. RootTemp(s) \in RootNames /\ IsDir(roots, RootNames)
    BY <1>0, NamesDiffer DEF DirsOK
  <2> QED
    BY <1>0, <1>1, <2>1, PutDir
<1>3. /\ Touched(roots, roots', {RootRecord(s), RootTemp(s), RootMark(s)}, RootNames)
      /\ Keeps(roots, roots', RootRecord(s)) /\ Keeps(roots, roots', RootMark(s))
  BY <1>2, TempTouched
<1>4. \A t \in Slots : ~InHand(t)
  BY <1>1 DEF InHand, Idle
<1>5. DirsOK'
  BY <1>0, <1>1, <1>2 DEF DirsOK, Touched
<1>6. SlotInv(s)'
  BY <1>0, <1>1, <1>3, <1>4, <1>5, SlotKept
<1>7. RootsTyped /\ RootsTyped'
  BY <1>0, <1>1 DEF MemoryOK, RootsTyped
<1>8. AdmittedIsWhole'
  BY <1>0, <1>1, <1>7, WholeKept
<1>9. roots.now[RootRecord(s)] = None /\ told[s].says # "marked"
  BY <1>0, <1>1, <1>4 DEF SlotInv
<1>10. OpOK'
  <2>0. SUFFICES ASSUME op' = [at |-> "write", slot |-> s, root |-> m] PROVE OpOK'
    BY <1>1, IdleOK
  <2>1. OpInMode' /\ TombInHand'
    BY <1>1, <2>0 DEF OpInMode, TombInHand
  <2>2. roots'.now[RootRecord(s)] = None
    BY <1>3, <1>9 DEF Keeps
  <2>3. ~Held(s)'
    BY <1>1 DEF Held
  <2>4. SlotInHand'
    BY <1>1, <1>9, <2>0, <2>2, <2>3 DEF SlotInHand
  <2> QED
    BY <2>1, <2>4 DEF OpOK
<1>11. /\ spool' \subseteq Objects /\ verified' \subseteq Objects
       /\ mode' = "live" => verified' \subseteq spool'
       /\ told' \in [Slots -> [says : {"durable", "absent", "marked", "unknown"},
                               root : Manifests \union {None}]]
       /\ faults' \in 0 .. MaxFaults
  BY <1>0, <1>1, SpendOK DEF MemoryOK
<1>12. /\ mode # "down" /\ mode' \in {mode, "poisoned"} /\ broken' \in {broken, broken \union {s}}
       /\ orphans' \subseteq orphans \union {RootTemp(s)}
       /\ \A t \in Slots \ {s} : visible'[t] = visible[t] /\ told'[t] = told[t]
       /\ UNCHANGED <<tombsDir, tombs, recorded, kills>>
       /\ \A t \in Slots : InHand(t) => t = s
  BY <1>1, <1>4
<1> QED
  BY <1>3, <1>6, <1>7, <1>8, <1>10, <1>11, <1>12, SlotStep

(* Writing a name and synchronising the directory.                          *)
LEMMA PutSyncDir ==
  ASSUME NEW N, NEW d, IsDir(d, N), NEW n \in N, NEW v \in Values
  PROVE  /\ Touched(d, Sync(Put(d, n, v)), {n}, N)
         /\ \A x \in N : Firm(Sync(Put(d, n, v)), x)
<1> DEFINE e == Put(d, n, v)
<1>1. Touched(d, e, {n}, N)
  BY PutDir
<1> HIDE DEF e
<1>2. IsDir(e, N)
  BY <1>1 DEF Touched
<1>3. Touched(e, Sync(e), {}, N)
  BY <1>2, SyncDir
<1>4. \A x \in N : Sync(e).now[x] = e.now[x] /\ Sync(e).may[x] = {e.now[x]}
  BY <1>2, SyncDir
<1>5. Touched(d, Sync(e), {n} \union {}, N)
  BY <1>1, <1>3, TouchedTwice
<1>6. Touched(d, Sync(e), {n}, N)
  BY <1>5, TouchedMore
<1> QED
  BY <1>4, <1>6 DEF Firm, e

(* Writing a name, perhaps, and then removing it.                           *)
LEMMA PutRemoveDir ==
  ASSUME NEW N, NEW d, IsDir(d, N), NEW n \in N, NEW v \in Values,
         NEW w \in {d, Put(d, n, v)}, NEW r \in RemoveTemp(w, n)
  PROVE  Touched(d, r.dir, {n}, N) /\ r.orphan \subseteq {n}
<1>1. Touched(d, w, {n}, N)
  <2>1. Touched(d, Put(d, n, v), {n}, N)
    BY PutDir
  <2>2. Touched(d, d, {n}, N)
    BY SameDir, TouchedMore
  <2> QED
    BY <2>1, <2>2
<1>2. IsDir(w, N)
  BY <1>1 DEF Touched
<1>3. Touched(w, r.dir, {n}, N) /\ r.orphan \subseteq {n}
  BY <1>2, RemoveTempDir
<1>4. Touched(d, r.dir, {n} \union {n}, N)
  BY <1>1, <1>3, TouchedTwice
<1> QED
  BY <1>3, <1>4, TouchedMore

(* A step on one slot that serves the same roots from the same objects.     *)
LEMMA SlotStepQuiet ==
  ASSUME PubInv, NEW s \in Slots, mode # "down", mode' \in {mode, "poisoned"},
         UNCHANGED <<tombsDir, spool, visible, tombs, verified, kills, recorded>>,
         Touched(roots, roots', {RootRecord(s), RootTemp(s), RootMark(s)}, RootNames),
         \A t \in Slots \ {s} : told'[t] = told[t],
         told' \in [Slots -> [says : {"durable", "absent", "marked", "unknown"},
                              root : Manifests \union {None}]],
         broken' \in {broken, broken \union {s}}, orphans' \subseteq orphans \union {RootTemp(s)},
         faults' \in 0 .. MaxFaults,
         \A t \in Slots : InHand(t) => t = s,
         SlotInv(s)', OpOK'
  PROVE  PubInv'
<1>0. MemoryOK /\ AdmittedIsWhole
  BY DEF PubInv
<1>1. RootsTyped /\ RootsTyped'
  BY <1>0 DEF MemoryOK, RootsTyped
<1>2. mode' = "live" => mode = "live"
  OBVIOUS
<1>3. AdmittedIsWhole'
  BY <1>0, <1>1, <1>2, WholeKept
<1>4. /\ spool' \subseteq Objects /\ verified' \subseteq Objects
      /\ mode' = "live" => verified' \subseteq spool'
  BY <1>0, <1>2 DEF MemoryOK
<1>5. \A t \in Slots \ {s} : visible'[t] = visible[t] /\ told'[t] = told[t]
  OBVIOUS
<1>6. UNCHANGED <<tombsDir, tombs, recorded, kills>>
  OBVIOUS
<1> QED
  BY <1>1, <1>3, <1>4, <1>5, <1>6, SlotStep

(* The temporary record is written and firm, or removed.                    *)
LEMMA PublishWriteInv ==
  ASSUME PubInv, PublishWrite
  PROVE  PubInv'
<1>0. DirsOK /\ MemoryOK /\ (\A t \in Slots : SlotInv(t)) /\ SlotInHand
  BY DEF PubInv, OpOK
<1>1. op.at = "write"
  BY DEF PublishWrite, At
<1>2. /\ op.slot \in Slots /\ op.root \in Manifests
      /\ op = [at |-> "write", slot |-> op.slot, root |-> op.root] /\ mode = "live"
      /\ \A t \in Slots : ~InHand(t)
  BY <1>1, SlotOpFacts DEF InHand
<1>3. PICK s \in Slots, m \in Manifests : s = op.slot /\ m = op.root
  BY <1>2
<1>4. /\ ~Held(s) /\ s \notin broken /\ told[s].says # "marked" /\ roots.now[RootRecord(s)] = None
  BY <1>0, <1>1, <1>3 DEF SlotInHand
<1>5. UNCHANGED <<tombsDir, spool, mode, visible, broken, tombs, verified, kills, told, recorded>>
  BY DEF PublishWrite, obsVars
<1>6. m \in Values /\ RootTemp(s) \in RootNames /\ RootRecord(s) \in RootNames /\ IsDir(roots, RootNames)
  BY <1>0, NamesDiffer, PublicationAssumption DEF Values, DirsOK
<1>7. \/ /\ roots' = Sync(Put(roots, RootTemp(s), m))
         /\ op' = [at |-> "temp", slot |-> s, root |-> m]
         /\ UNCHANGED <<orphans, faults>>
      \/ \E w \in {roots, Put(roots, RootTemp(s), m)} : \E r \in RemoveTemp(w, RootTemp(s)) :
           Spend(1) /\ roots' = r.dir /\ orphans' = orphans \union r.orphan /\ op' = Idle
  <2>1. [op EXCEPT !.at = "temp"] = [at |-> "temp", slot |-> s, root |-> m]
    BY <1>2, <1>3
  <2> QED
    BY <1>3, <2>1 DEF PublishWrite
<1>8. /\ Touched(roots, roots', {RootTemp(s)}, RootNames)
      /\ orphans' \subseteq orphans \union {RootTemp(s)} /\ faults' \in 0 .. MaxFaults
      /\ \/ op' = Idle
         \/ op' = [at |-> "temp", slot |-> s, root |-> m] /\ Firm(roots', RootRecord(s))
  <2>0. faults \in 0 .. MaxFaults
    BY <1>0 DEF MemoryOK
  <2>1. CASE /\ roots' = Sync(Put(roots, RootTemp(s), m))
             /\ op' = [at |-> "temp", slot |-> s, root |-> m] /\ UNCHANGED <<orphans, faults>>
    <3>1. Touched(roots, roots', {RootTemp(s)}, RootNames) /\ Firm(roots', RootRecord(s))
      BY <1>6, <2>1, PutSyncDir
    <3> QED
      BY <2>0, <2>1, <3>1
  <2>2. CASE \E w \in {roots, Put(roots, RootTemp(s), m)} : \E r \in RemoveTemp(w, RootTemp(s)) :
               Spend(1) /\ roots' = r.dir /\ orphans' = orphans \union r.orphan /\ op' = Idle
    <3>1. PICK w \in {roots, Put(roots, RootTemp(s), m)} : \E r \in RemoveTemp(w, RootTemp(s)) :
            Spend(1) /\ roots' = r.dir /\ orphans' = orphans \union r.orphan /\ op' = Idle
      BY <2>2
    <3>2. PICK r \in RemoveTemp(w, RootTemp(s)) :
            Spend(1) /\ roots' = r.dir /\ orphans' = orphans \union r.orphan /\ op' = Idle
      BY <3>1
    <3>3. Touched(roots, r.dir, {RootTemp(s)}, RootNames) /\ r.orphan \subseteq {RootTemp(s)}
      <4> DEFINE n == RootTemp(s)
                 N == RootNames
      <4>1. /\ IsDir(roots, N) /\ n \in N /\ m \in Values
            /\ w \in {roots, Put(roots, n, m)} /\ r \in RemoveTemp(w, n)
        BY <1>6
      <4> HIDE DEF n, N
      <4>2. Touched(roots, r.dir, {n}, N) /\ r.orphan \subseteq {n}
        BY ONLY <4>1, PutRemoveDir
      <4> QED
        BY <4>2 DEF n, N
    <3>4. faults' \in 0 .. MaxFaults
      BY <2>0, <3>2, SpendOK
    <3> QED
      BY <3>2, <3>3, <3>4
  <2> QED
    BY <1>7, <2>1, <2>2
<1>9. /\ Touched(roots, roots', {RootRecord(s), RootTemp(s), RootMark(s)}, RootNames)
      /\ Keeps(roots, roots', RootRecord(s)) /\ Keeps(roots, roots', RootMark(s))
  BY <1>8, TempTouched
<1>10. DirsOK'
  BY <1>0, <1>5, <1>8 DEF DirsOK, Touched
<1>11. SlotInv(s)'
  BY <1>0, <1>2, <1>5, <1>9, <1>10, SlotKept
<1>12. OpOK'
  <2>1. CASE op' = Idle
    BY <2>1, IdleOK
  <2>2. CASE op' = [at |-> "temp", slot |-> s, root |-> m] /\ Firm(roots', RootRecord(s))
    <3>1. OpInMode' /\ TombInHand'
      BY <1>2, <1>5, <2>2 DEF OpInMode, TombInHand
    <3>2. roots'.now[RootRecord(s)] = None /\ ~Held(s)'
      BY <1>4, <1>5, <1>9 DEF Keeps, Held
    <3>3. SlotInHand'
      BY <1>4, <1>5, <2>2, <3>2 DEF SlotInHand, Firm
    <3> QED
      BY <3>1, <3>3 DEF OpOK
  <2> QED
    BY <1>8, <2>1, <2>2
<1>13. told' \in [Slots -> [says : {"durable", "absent", "marked", "unknown"},
                            root : Manifests \union {None}]]
  BY <1>0, <1>5 DEF MemoryOK
<1>14. /\ mode # "down" /\ mode' \in {mode, "poisoned"} /\ broken' \in {broken, broken \union {s}}
       /\ \A t \in Slots \ {s} : told'[t] = told[t]
       /\ UNCHANGED <<tombsDir, spool, visible, tombs, verified, kills, recorded>>
       /\ \A t \in Slots : InHand(t) => t = s
  BY <1>2, <1>5
<1> QED
  BY <1>8, <1>9, <1>11, <1>12, <1>13, <1>14, SlotStepQuiet

(* Recording an answer.                                                     *)
LEMMA SaysOK ==
  ASSUME MemoryOK, NEW s \in Slots, NEW what \in {"durable", "absent", "marked", "unknown"},
         NEW m \in Manifests \union {None}, told' = [told EXCEPT ![s] = [says |-> what, root |-> m]]
  PROVE  /\ told' \in [Slots -> [says : {"durable", "absent", "marked", "unknown"},
                                 root : Manifests \union {None}]]
         /\ told'[s].says = what /\ told'[s].root = m
         /\ \A t \in Slots \ {s} : told'[t] = told[t]
<1>1. told \in [Slots -> [says : {"durable", "absent", "marked", "unknown"}, root : Manifests \union {None}]]
  BY DEF MemoryOK
<1>2. [says |-> what, root |-> m] \in [says : {"durable", "absent", "marked", "unknown"},
                                       root : Manifests \union {None}]
  OBVIOUS
<1> QED
  BY <1>1, <1>2

(* A slot that is not served before or after a step, and whose names and    *)
(* answer agree after it.                                                   *)
LEMMA SlotUnserved ==
  ASSUME NEW s \in Slots, SlotInv(s), ~Held(s), visible'[s] = visible[s],
         roots'.may[RootRecord(s)] \subseteq Manifests \union {None},
         roots'.may[RootMark(s)] \subseteq {None, Torn},
         \/ told'[s].says = "unknown"
         \/ told'[s].says = "absent" /\ roots'.may[RootRecord(s)] = {None}
         \/ told'[s].says = "marked" /\ roots'.may[RootMark(s)] = {Torn} /\ (mode' = "live" => s \in broken'),
         mode' = "live" /\ roots'.now[RootRecord(s)] # None => s \in broken' \/ InHand(s)'
  PROVE  SlotInv(s)'
<1>1. ~Held(s)' /\ ~visible'[s].durable
  BY DEF SlotInv, Held
<1> QED
  BY <1>1 DEF SlotInv, RootRecord, RootMark

(* A publication cancelled before its commit point leaves no record.        *)
LEMMA PublishCancelInv ==
  ASSUME PubInv, PublishCancel
  PROVE  PubInv'
<1>0. DirsOK /\ MemoryOK /\ (\A t \in Slots : SlotInv(t)) /\ SlotInHand
  BY DEF PubInv, OpOK
<1>1. op.at = "temp"
  BY DEF PublishCancel, At
<1>2. op.slot \in Slots /\ mode = "live" /\ \A t \in Slots : ~InHand(t)
  BY <1>1, SlotOpFacts DEF InHand
<1>3. PICK s \in Slots : s = op.slot
  BY <1>2
<1>4. ~Held(s) /\ roots.now[RootRecord(s)] = None /\ Firm(roots, RootRecord(s))
  BY <1>0, <1>1, <1>3 DEF SlotInHand
<1>5. /\ UNCHANGED <<tombsDir, spool, mode, visible, broken, tombs, verified, kills, recorded>>
      /\ op' = Idle /\ told' = [told EXCEPT ![s] = [says |-> "absent", root |-> None]]
  BY <1>3 DEF PublishCancel, Says
<1>6. PICK r \in RemoveTemp(roots, RootTemp(s)) :
        Spend(r.fault) /\ roots' = r.dir /\ orphans' = orphans \union r.orphan
  BY <1>3 DEF PublishCancel
<1>7. /\ Touched(roots, roots', {RootTemp(s)}, RootNames)
      /\ r.orphan \subseteq {RootTemp(s)} /\ r.fault \in {0, 1}
  <2>1. RootTemp(s) \in RootNames /\ IsDir(roots, RootNames)
    BY <1>0, NamesDiffer DEF DirsOK
  <2>2. /\ Touched(roots, r.dir, {RootTemp(s)}, RootNames)
        /\ r.orphan \subseteq {RootTemp(s)} /\ r.fault \in {0, 1}
    BY <2>1, RemoveTempDir
  <2> QED
    BY <1>6, <2>2
<1>8. faults' \in 0 .. MaxFaults
  BY <1>0, <1>6, <1>7, SpendOK DEF MemoryOK
<1>9. /\ Touched(roots, roots', {RootRecord(s), RootTemp(s), RootMark(s)}, RootNames)
      /\ Keeps(roots, roots', RootRecord(s)) /\ Keeps(roots, roots', RootMark(s))
  BY <1>7, TempTouched
<1>10. /\ told' \in [Slots -> [says : {"durable", "absent", "marked", "unknown"},
                               root : Manifests \union {None}]]
       /\ told'[s].says = "absent" /\ \A t \in Slots \ {s} : told'[t] = told[t]
  BY <1>0, <1>5, SaysOK
<1>11. SlotInv(s)'
  <2>1. roots'.may[RootRecord(s)] = {None} /\ roots'.now[RootRecord(s)] = None
    BY <1>4, <1>9 DEF Keeps, Firm
  <2>2. roots'.may[RootMark(s)] \subseteq {None, Torn}
    BY <1>0, <1>9 DEF Keeps, SlotInv
  <2> QED
    BY <1>0, <1>4, <1>5, <1>10, <2>1, <2>2, SlotUnserved
<1>12. OpOK'
  BY <1>5, IdleOK
<1>13. /\ mode # "down" /\ mode' \in {mode, "poisoned"} /\ broken' \in {broken, broken \union {s}}
       /\ orphans' \subseteq orphans \union {RootTemp(s)}
       /\ UNCHANGED <<tombsDir, spool, visible, tombs, verified, kills, recorded>>
       /\ \A t \in Slots : InHand(t) => t = s
  BY <1>2, <1>5, <1>6, <1>7
<1> QED
  BY <1>8, <1>9, <1>10, <1>11, <1>12, <1>13, SlotStepQuiet

(* The commit point: the record may or may not be there from now on.        *)
LEMMA PublishLinkInv ==
  ASSUME PubInv, PublishLink
  PROVE  PubInv'
<1>0. DirsOK /\ MemoryOK /\ (\A t \in Slots : SlotInv(t)) /\ SlotInHand
  BY DEF PubInv, OpOK
<1>1. op.at = "temp"
  BY DEF PublishLink, At
<1>2. /\ op.slot \in Slots /\ op.root \in Manifests
      /\ op = [at |-> "temp", slot |-> op.slot, root |-> op.root] /\ mode = "live"
      /\ \A t \in Slots : ~InHand(t)
  BY <1>1, SlotOpFacts DEF InHand
<1>3. PICK s \in Slots, m \in Manifests : s = op.slot /\ m = op.root
  BY <1>2
<1> DEFINE n == RootRecord(s)
           e == Put(roots, n, m)
<1>4. ~Held(s) /\ s \notin broken /\ roots.now[n] = None /\ Firm(roots, n)
  BY <1>0, <1>1, <1>3 DEF SlotInHand
<1>5. /\ UNCHANGED <<tombsDir, spool, mode, visible, broken, orphans, tombs, verified, kills, recorded>>
      /\ told' = [told EXCEPT ![s] = [says |-> "unknown", root |-> None]]
      /\ ReferencesOk(m) /\ m \in verified
  BY <1>3 DEF PublishLink, Says, memoryVars
<1>6. \/ roots' = e /\ op' = [at |-> "unlink", slot |-> s, root |-> m] /\ UNCHANGED faults
      \/ Spend(1) /\ roots' \in {roots, e} /\ op' = [at |-> "rollback", slot |-> s, root |-> m]
  <2>1. /\ [op EXCEPT !.at = "unlink"] = [at |-> "unlink", slot |-> s, root |-> m]
        /\ [op EXCEPT !.at = "rollback"] = [at |-> "rollback", slot |-> s, root |-> m]
    BY <1>2, <1>3
  <2> QED
    BY <1>3, <2>1 DEF PublishLink
<1>7. m \in Values /\ n \in RootNames /\ IsDir(roots, RootNames) /\ m # None
  BY <1>0, NamesDiffer, PublicationAssumption DEF Values, DirsOK
<1>8. Touched(roots, e, {n}, RootNames) /\ Touched(roots, roots, {n}, RootNames)
  <2>1. Touched(roots, e, {n}, RootNames)
    BY <1>7, PutDir
  <2>2. Touched(roots, roots, {n}, RootNames)
    BY <1>7, SameDir, TouchedMore
  <2> QED
    BY <2>1, <2>2
<1>9. e.now[n] = m /\ e.may[n] = roots.may[n] \union {m}
  BY <1>7, PutValue
<1> HIDE DEF e
<1>10. Touched(roots, roots', {n}, RootNames) /\ Keeps(roots, roots', RootMark(s))
  <2>1. Touched(roots, roots', {n}, RootNames)
    BY <1>6, <1>8
  <2> QED
    BY <2>1, NamesDiffer DEF Touched
<1>11. Touched(roots, roots', {RootRecord(s), RootTemp(s), RootMark(s)}, RootNames)
  BY <1>10, TouchedMore
<1>12. faults' \in 0 .. MaxFaults
  <2>1. faults \in 0 .. MaxFaults
    BY <1>0 DEF MemoryOK
  <2> QED
    BY <1>6, <2>1, SpendOK
<1>13. /\ told' \in [Slots -> [says : {"durable", "absent", "marked", "unknown"},
                               root : Manifests \union {None}]]
       /\ told'[s].says = "unknown" /\ \A t \in Slots \ {s} : told'[t] = told[t]
  BY <1>0, <1>5, SaysOK
<1>14. SlotInv(s)'
  <2>1. roots'.may[n] \subseteq Manifests \union {None}
    <3>1. roots.may[n] = {None}
      BY <1>4 DEF Firm
    <3> QED
      BY <1>6, <1>9, <3>1
  <2>2. roots'.may[RootMark(s)] \subseteq {None, Torn}
    BY <1>0, <1>10 DEF Keeps, SlotInv
  <2>3. InHand(s)'
    BY <1>6 DEF InHand
  <2> QED
    BY <1>0, <1>4, <1>5, <1>13, <2>1, <2>2, <2>3, SlotUnserved
<1>15. OpOK'
  <2>1. OpInMode' /\ TombInHand'
    BY <1>2, <1>5, <1>6 DEF OpInMode, TombInHand
  <2>2. ~Held(s)' /\ ReferencesOk(m)'
    BY <1>4, <1>5, ReferencesKept DEF Held
  <2>3. CASE op' = [at |-> "unlink", slot |-> s, root |-> m] /\ roots' = e
    <3>1. SlotInHand'
      BY <1>4, <1>5, <1>9, <1>13, <2>2, <2>3 DEF SlotInHand
    <3> QED
      BY <2>1, <3>1 DEF OpOK
  <2>4. CASE op' = [at |-> "rollback", slot |-> s, root |-> m] /\ roots' \in {roots, e}
    <3>1. roots'.now[n] # None \/ Firm(roots', n)
      BY <1>4, <1>7, <1>9, <2>4
    <3>2. SlotInHand'
      BY <1>4, <1>5, <1>13, <2>2, <2>4, <3>1 DEF SlotInHand, Firm
    <3> QED
      BY <2>1, <3>2 DEF OpOK
  <2> QED
    BY <1>6, <2>3, <2>4
<1>16. /\ mode # "down" /\ mode' \in {mode, "poisoned"} /\ broken' \in {broken, broken \union {s}}
       /\ orphans' \subseteq orphans \union {RootTemp(s)}
       /\ UNCHANGED <<tombsDir, spool, visible, tombs, verified, kills, recorded>>
       /\ \A t \in Slots : InHand(t) => t = s
  BY <1>2, <1>5
<1> QED
  BY <1>11, <1>12, <1>13, <1>14, <1>15, <1>16, SlotStepQuiet

(* A failed link is taken back for certain, or the slot is broken.          *)
LEMMA PublishRollBackInv ==
  ASSUME PubInv, PublishRollBack
  PROVE  PubInv'
<1>0. DirsOK /\ MemoryOK /\ (\A t \in Slots : SlotInv(t)) /\ SlotInHand
  BY DEF PubInv, OpOK
<1>1. op.at = "rollback"
  BY DEF PublishRollBack, At
<1>2. /\ op.slot \in Slots /\ op.root \in Manifests
      /\ op = [at |-> "rollback", slot |-> op.slot, root |-> op.root] /\ mode = "live"
      /\ \A t \in Slots : InHand(t) => t = op.slot
  BY <1>1, SlotOpFacts
<1>3. PICK s \in Slots, m \in Manifests : s = op.slot /\ m = op.root
  BY <1>2
<1> DEFINE n == RootRecord(s)
           x == RootTemp(s)
           k == RootMark(s)
<1>4. /\ ~Held(s) /\ told[s].says = "unknown" /\ (roots.now[n] # None \/ Firm(roots, n))
  BY <1>0, <1>1, <1>3 DEF SlotInHand
<1>5. UNCHANGED <<tombsDir, spool, visible, tombs, verified, faults, kills, recorded>>
  BY DEF PublishRollBack, boundVars
<1>6. PICK u \in Undone(roots, n) :
        \/ /\ u.clean
           /\ \E r \in RemoveTemp(u.dir, x) : roots' = r.dir /\ orphans' = orphans \union r.orphan
           /\ told' = [told EXCEPT ![s] = [says |-> "absent", root |-> None]]
           /\ op' = Idle /\ UNCHANGED <<mode, broken>>
        \/ /\ ~u.clean
           /\ roots' = u.dir /\ mode' = "poisoned" /\ broken' = broken \union {s}
           /\ op' = [at |-> "mark", slot |-> s, root |-> m] /\ UNCHANGED <<orphans, told>>
  <2>1. [op EXCEPT !.at = "mark"] = [at |-> "mark", slot |-> s, root |-> m]
    BY <1>2, <1>3
  <2> QED
    BY <1>3, <2>1 DEF PublishRollBack, Says
<1>7. n \in RootNames /\ x \in RootNames /\ k \in RootNames /\ n # x /\ n # k /\ k # x /\ IsDir(roots, RootNames)
  BY <1>0, NamesDiffer DEF DirsOK
<1> HIDE DEF n, x, k
<1>8. Touched(roots, u.dir, {n}, RootNames)
  BY <1>7, UndoneDir
<1>9. /\ u.dir.may[n] \subseteq roots.may[n] \union {None}
      /\ u.clean => u.dir.now[n] = None /\ Firm(u.dir, n)
  BY <1>4, <1>7, UndoneDir
<1>10. /\ roots.may[n] \subseteq Manifests \union {None} /\ roots.may[k] \subseteq {None, Torn}
  BY <1>0 DEF SlotInv, n, k
<1>11. /\ faults' \in 0 .. MaxFaults
       /\ told \in [Slots -> [says : {"durable", "absent", "marked", "unknown"},
                              root : Manifests \union {None}]]
  BY <1>0, <1>5 DEF MemoryOK
<1>12. /\ UNCHANGED <<tombsDir, spool, visible, tombs, verified, kills, recorded>>
       /\ \A t \in Slots : InHand(t) => t = s
       /\ mode # "down"
  BY <1>2, <1>3, <1>5
<1>13. CASE u.clean
  <2>1. PICK r \in RemoveTemp(u.dir, x) : roots' = r.dir /\ orphans' = orphans \union r.orphan
    BY <1>6, <1>13
  <2>2. /\ told' = [told EXCEPT ![s] = [says |-> "absent", root |-> None]]
        /\ op' = Idle /\ UNCHANGED <<mode, broken>>
    BY <1>6, <1>13
  <2>3. IsDir(u.dir, RootNames)
    BY <1>8 DEF Touched
  <2>4. Touched(u.dir, r.dir, {x}, RootNames) /\ r.orphan \subseteq {x}
    BY <1>7, <2>3, RemoveTempDir
  <2>5. Touched(roots, roots', {n} \union {x}, RootNames)
    BY <1>8, <2>1, <2>4, TouchedTwice
  <2>6. Touched(roots, roots', {n, x, k}, RootNames)
    BY <2>5, TouchedMore
  <2>7. Keeps(roots, roots', k) /\ Keeps(u.dir, roots', n)
    BY <1>7, <2>1, <2>4, <2>5 DEF Touched
  <2>8. roots'.may[n] = {None} /\ roots'.now[n] = None /\ roots'.may[k] \subseteq {None, Torn}
    BY <1>9, <1>10, <1>13, <2>7 DEF Keeps, Firm
  <2>9. /\ told' \in [Slots -> [says : {"durable", "absent", "marked", "unknown"},
                                root : Manifests \union {None}]]
        /\ told'[s].says = "absent" /\ \A t \in Slots \ {s} : told'[t] = told[t]
    BY <1>0, <2>2, SaysOK
  <2>10. SlotInv(s)'
    BY <1>0, <1>4, <1>5, <2>8, <2>9, SlotUnserved DEF n, k
  <2>11. OpOK'
    BY <2>2, IdleOK
  <2>12. /\ orphans' \subseteq orphans \union {x} /\ mode' \in {mode, "poisoned"}
         /\ broken' \in {broken, broken \union {s}}
    BY <2>1, <2>2, <2>4
  <2> QED
    BY <1>11, <1>12, <2>6, <2>9, <2>10, <2>11, <2>12, SlotStepQuiet DEF n, x, k
<1>14. CASE ~u.clean
  <2>1. /\ roots' = u.dir /\ mode' = "poisoned" /\ broken' = broken \union {s}
        /\ op' = [at |-> "mark", slot |-> s, root |-> m] /\ UNCHANGED <<orphans, told>>
    BY <1>6, <1>14
  <2>2. Touched(roots, roots', {n, x, k}, RootNames)
    BY <1>8, <2>1, TouchedMore
  <2>3. Keeps(roots, roots', k)
    BY <1>7, <1>8, <2>1 DEF Touched
  <2>4. roots'.may[n] \subseteq Manifests \union {None} /\ roots'.may[k] \subseteq {None, Torn}
    BY <1>9, <1>10, <2>1, <2>3 DEF Keeps
  <2>5. SlotInv(s)'
    BY <1>0, <1>4, <1>5, <2>1, <2>4, SlotUnserved DEF n, k
  <2>6. OpOK'
    <3>1. OpInMode' /\ TombInHand'
      BY <2>1 DEF OpInMode, TombInHand
    <3>2. ~Held(s)' /\ s \in broken' /\ told'[s].says = "unknown"
      BY <1>4, <1>5, <2>1 DEF Held
    <3>3. SlotInHand'
      BY <2>1, <3>2 DEF SlotInHand
    <3> QED
      BY <3>1, <3>3 DEF OpOK
  <2>7. /\ orphans' \subseteq orphans \union {x} /\ mode' \in {mode, "poisoned"}
        /\ broken' \in {broken, broken \union {s}} /\ \A t \in Slots \ {s} : told'[t] = told[t]
        /\ told' \in [Slots -> [says : {"durable", "absent", "marked", "unknown"},
                                root : Manifests \union {None}]]
    BY <1>11, <2>1
  <2> QED
    BY <1>11, <1>12, <2>2, <2>5, <2>6, <2>7, SlotStepQuiet DEF n, x, k
<1> QED
  BY <1>13, <1>14

(* The marker: written for certain, or the answer stays open.               *)
LEMMA PublishMarkInv ==
  ASSUME PubInv, PublishMark
  PROVE  PubInv'
<1>0. DirsOK /\ MemoryOK /\ (\A t \in Slots : SlotInv(t)) /\ SlotInHand
  BY DEF PubInv, OpOK
<1>1. op.at = "mark"
  BY DEF PublishMark, At
<1>2. op.slot \in Slots /\ mode = "poisoned" /\ \A t \in Slots : ~InHand(t)
  BY <1>1, SlotOpFacts DEF InHand
<1>3. PICK s \in Slots : s = op.slot
  BY <1>2
<1> DEFINE n == RootRecord(s)
           x == RootTemp(s)
           k == RootMark(s)
<1>4. ~Held(s) /\ told[s].says = "unknown"
  BY <1>0, <1>1, <1>3 DEF SlotInHand
<1>5. /\ UNCHANGED <<tombsDir, spool, mode, visible, broken, orphans, tombs, verified, faults, kills, recorded>>
      /\ op' = Idle
  BY DEF PublishMark, boundVars, memoryVars
<1>6. PICK w \in WriteMarker(roots, k) :
        /\ roots' = w.dir
        /\ IF w.done THEN told' = [told EXCEPT ![s] = [says |-> "marked", root |-> None]] ELSE UNCHANGED told
  BY <1>3 DEF PublishMark, Says
<1>7. n \in RootNames /\ k \in RootNames /\ n # k /\ IsDir(roots, RootNames)
  BY <1>0, NamesDiffer DEF DirsOK
<1> HIDE DEF n, x, k
<1>8. Touched(roots, roots', {k}, RootNames)
  BY <1>6, <1>7, WriteMarkerDir
<1>9. /\ roots'.may[k] \subseteq roots.may[k] \union {Torn}
      /\ w.done => roots'.may[k] = {Torn}
  BY <1>6, <1>7, WriteMarkerDir
<1>10. Touched(roots, roots', {n, x, k}, RootNames) /\ Keeps(roots, roots', n)
  <2>1. Keeps(roots, roots', n)
    BY <1>7, <1>8 DEF Touched
  <2> QED
    BY <1>8, <2>1, TouchedMore
<1>11. /\ told' \in [Slots -> [says : {"durable", "absent", "marked", "unknown"},
                               root : Manifests \union {None}]]
       /\ told'[s].says = (IF w.done THEN "marked" ELSE "unknown")
       /\ \A t \in Slots \ {s} : told'[t] = told[t]
  <2>1. CASE w.done
    <3>1. told' = [told EXCEPT ![s] = [says |-> "marked", root |-> None]]
      BY <1>6, <2>1
    <3> QED
      BY <1>0, <2>1, <3>1, SaysOK
  <2>2. CASE ~w.done
    BY <1>0, <1>4, <1>6, <2>2 DEF MemoryOK
  <2> QED
    BY <2>1, <2>2
<1>12. SlotInv(s)'
  <2>1. roots'.may[n] \subseteq Manifests \union {None} /\ roots'.may[k] \subseteq {None, Torn}
    BY <1>0, <1>9, <1>10 DEF SlotInv, Keeps, n, k
  <2>2. mode' # "live"
    BY <1>2, <1>5
  <2> QED
    BY <1>0, <1>4, <1>5, <1>9, <1>11, <2>1, <2>2, SlotUnserved DEF n, k
<1>13. OpOK'
  BY <1>5, IdleOK
<1>14. /\ mode # "down" /\ mode' \in {mode, "poisoned"} /\ broken' \in {broken, broken \union {s}}
       /\ orphans' \subseteq orphans \union {x} /\ faults' \in 0 .. MaxFaults
       /\ UNCHANGED <<tombsDir, spool, visible, tombs, verified, kills, recorded>>
       /\ \A t \in Slots : InHand(t) => t = s
  BY <1>0, <1>2, <1>5 DEF MemoryOK
<1> QED
  BY <1>10, <1>11, <1>12, <1>13, <1>14, SlotStepQuiet DEF n, x, k

(* The identical root again: the answer is backed by the disk.              *)
LEMMA ReverifyInv ==
  ASSUME PubInv, NEW s \in Slots, Reverify(s)
  PROVE  PubInv'
<1>0. DirsOK /\ MemoryOK /\ (\A t \in Slots : SlotInv(t))
  BY DEF PubInv
<1>1. PICK m : m = visible[s].root
  OBVIOUS
<1>2. /\ mode = "live" /\ op = Idle /\ Held(s) /\ visible[s].durable
      /\ roots.now[RootRecord(s)] = m
      /\ told' = [told EXCEPT ![s] = [says |-> "durable", root |-> m]]
      /\ UNCHANGED <<roots, tombsDir, spool, mode, op, visible, broken, orphans, tombs, verified,
                     faults, kills, recorded>>
  BY <1>1 DEF Reverify, Ready, Says, diskVars, memoryVars, boundVars
<1>3. m \in Manifests /\ m # None
  BY <1>0, <1>1, <1>2, PublicationAssumption DEF MemoryOK, RootsTyped, Held
<1>4. roots.may[RootRecord(s)] = {m}
  BY <1>0, <1>2, <1>3 DEF SlotInv, Firm
<1>5. /\ told' \in [Slots -> [says : {"durable", "absent", "marked", "unknown"},
                              root : Manifests \union {None}]]
      /\ told'[s].says = "durable" /\ told'[s].root = m
      /\ \A t \in Slots \ {s} : told'[t] = told[t]
  BY <1>0, <1>2, <1>3, SaysOK
<1>6. \A t \in Slots : ~InHand(t)
  BY <1>2 DEF InHand, Idle
<1>7. SlotInv(s)'
  <2>1. SlotInv(s)
    BY <1>0
  <2>2. Held(s)'
    BY <1>2 DEF Held
  <2> QED
    BY <1>2, <1>4, <1>5, <2>1, <2>2 DEF SlotInv, RootRecord, RootMark, Firm
<1>8. OpOK'
  BY <1>2, IdleOK
<1>9. Touched(roots, roots', {RootRecord(s), RootTemp(s), RootMark(s)}, RootNames)
  BY <1>0, <1>2, SameDir, TouchedMore DEF DirsOK
<1>10. /\ mode # "down" /\ mode' \in {mode, "poisoned"} /\ broken' \in {broken, broken \union {s}}
       /\ orphans' \subseteq orphans \union {RootTemp(s)} /\ faults' \in 0 .. MaxFaults
       /\ UNCHANGED <<tombsDir, spool, visible, tombs, verified, kills, recorded>>
       /\ \A t \in Slots : InHand(t) => t = s
  BY <1>0, <1>2, <1>6 DEF MemoryOK
<1> QED
  BY <1>5, <1>7, <1>8, <1>9, <1>10, SlotStepQuiet

(* The root becomes visible: what it refers to is whole.                    *)
LEMMA PublishUnlinkInv ==
  ASSUME PubInv, PublishUnlink
  PROVE  PubInv'
<1>0. DirsOK /\ MemoryOK /\ AdmittedIsWhole /\ (\A t \in Slots : SlotInv(t)) /\ SlotInHand
  BY DEF PubInv, OpOK
<1>1. op.at = "unlink"
  BY DEF PublishUnlink, At
<1>2. /\ op.slot \in Slots /\ op.root \in Manifests
      /\ op = [at |-> "unlink", slot |-> op.slot, root |-> op.root] /\ mode = "live"
      /\ \A t \in Slots : InHand(t) => t = op.slot
  BY <1>1, SlotOpFacts
<1>3. PICK s \in Slots, m \in Manifests : s = op.slot /\ m = op.root
  BY <1>2
<1>4. /\ told[s].says = "unknown" /\ roots.now[RootRecord(s)] = m
      /\ ReferencesOk(m) /\ m \in verified
  BY <1>0, <1>1, <1>3 DEF SlotInHand
<1>5. /\ UNCHANGED <<tombsDir, spool, mode, broken, tombs, verified, kills, told, recorded>>
      /\ visible' = [visible EXCEPT ![s] = [root |-> m, durable |-> FALSE]]
      /\ op' = [at |-> "sync", slot |-> s, root |-> m]
  <2>1. [op EXCEPT !.at = "sync"] = [at |-> "sync", slot |-> s, root |-> m]
    BY <1>2, <1>3
  <2> QED
    BY <1>3, <2>1 DEF PublishUnlink, obsVars
<1>6. \/ roots' = Remove(roots, RootTemp(s)) /\ UNCHANGED <<orphans, faults>>
      \/ /\ Spend(1) /\ roots' \in {roots, Remove(roots, RootTemp(s))}
         /\ orphans' = orphans \union {RootTemp(s)}
  BY <1>3 DEF PublishUnlink, RemoveFailed
<1>7. Touched(roots, roots', {RootTemp(s)}, RootNames)
  <2>1. RootTemp(s) \in RootNames /\ IsDir(roots, RootNames) /\ None \in Values
    BY <1>0, NamesDiffer DEF DirsOK, Values
  <2>2. Touched(roots, Remove(roots, RootTemp(s)), {RootTemp(s)}, RootNames)
    BY <2>1, PutDir DEF Remove
  <2>3. Touched(roots, roots, {RootTemp(s)}, RootNames)
    BY <2>1, SameDir, TouchedMore
  <2> QED
    BY <1>6, <2>2, <2>3
<1>8. /\ Touched(roots, roots', {RootRecord(s), RootTemp(s), RootMark(s)}, RootNames)
      /\ Keeps(roots, roots', RootRecord(s)) /\ Keeps(roots, roots', RootMark(s))
  BY <1>7, TempTouched
<1>9. /\ faults' \in 0 .. MaxFaults /\ orphans' \subseteq orphans \union {RootTemp(s)}
  <2>1. faults \in 0 .. MaxFaults
    BY <1>0 DEF MemoryOK
  <2> QED
    BY <1>6, <2>1, SpendOK
<1>10. RootsTyped /\ RootsTyped' /\ visible'[s] = [root |-> m, durable |-> FALSE]
       /\ \A t \in Slots \ {s} : visible'[t] = visible[t] /\ told'[t] = told[t]
  <2>1. RootsTyped
    BY <1>0 DEF MemoryOK
  <2> QED
    BY <1>5, <2>1 DEF RootsTyped
<1>11. m # None
  BY PublicationAssumption
<1>12. SlotInv(s)'
  <2>1. /\ roots'.may[RootRecord(s)] \subseteq Manifests \union {None}
        /\ roots'.may[RootMark(s)] \subseteq {None, Torn}
    BY <1>0, <1>8 DEF SlotInv, Keeps
  <2>2. Held(s)' /\ ~visible'[s].durable /\ mode' = "live"
    BY <1>2, <1>5, <1>10, <1>11 DEF Held
  <2> QED
    BY <1>4, <1>5, <2>1, <2>2 DEF SlotInv, RootRecord, RootMark
<1>13. AdmittedIsWhole'
  <2>1. Whole(HeldRoots, verified \ tombs) /\ verified \subseteq Objects
    BY <1>0, <1>2, AdmittedMeans DEF MemoryOK
  <2>2. Whole(HeldRoots \union {m}, verified \ tombs)
    BY <1>4, <1>10, <2>1, ReferencesWhole
  <2>3. HeldRoots' \subseteq HeldRoots \union {m} /\ HeldRoots \union {m} \subseteq Manifests
    <3>1. \A t \in Slots : visible'[t].root \in {visible[t].root, m}
      BY <1>10
    <3>2. HeldRoots' \subseteq HeldRoots \union {m}
      BY <3>1 DEF HeldRoots, HeldSlots, Held
    <3> QED
      BY <1>10, <3>2, HeldAreManifests
  <2>4. Whole(HeldRoots', verified' \ tombs')
    <3>1. verified \ tombs \subseteq verified' \ tombs'
      BY <1>5
    <3> QED
      BY <2>2, <2>3, <3>1, WholeLess
  <2> QED
    BY <2>4, AdmittedMeansNext
<1>14. OpOK'
  <2>1. OpInMode' /\ TombInHand'
    BY <1>2, <1>5 DEF OpInMode, TombInHand
  <2>2. roots'.now[RootRecord(s)] = m
    BY <1>4, <1>8 DEF Keeps
  <2>3. SlotInHand'
    BY <1>4, <1>5, <1>10, <2>2 DEF SlotInHand
  <2> QED
    BY <2>1, <2>3 DEF OpOK
<1>15. /\ spool' \subseteq Objects /\ verified' \subseteq Objects
       /\ mode' = "live" => verified' \subseteq spool'
       /\ told' \in [Slots -> [says : {"durable", "absent", "marked", "unknown"},
                               root : Manifests \union {None}]]
  BY <1>0, <1>5 DEF MemoryOK
<1>16. /\ mode # "down" /\ mode' \in {mode, "poisoned"} /\ broken' \in {broken, broken \union {s}}
       /\ UNCHANGED <<tombsDir, tombs, recorded, kills>>
       /\ \A t \in Slots : InHand(t) => t = s
  BY <1>2, <1>3, <1>5
<1> QED
  BY <1>8, <1>9, <1>10, <1>12, <1>13, <1>14, <1>15, <1>16, SlotStep

(* Replacing the durability of a root.                                      *)
LEMMA DurableUpdate ==
  ASSUME NEW S, NEW T, NEW b \in T, NEW v \in [root : S, durable : T]
  PROVE  /\ [v EXCEPT !.durable = b] \in [root : S, durable : T]
         /\ [v EXCEPT !.durable = b].root = v.root /\ [v EXCEPT !.durable = b].durable = b
  OBVIOUS

(* The synchronisation makes the record firm, or the instance is poisoned.  *)
LEMMA PublishSyncInv ==
  ASSUME PubInv, PublishSync
  PROVE  PubInv'
<1>0. DirsOK /\ MemoryOK /\ AdmittedIsWhole /\ (\A t \in Slots : SlotInv(t)) /\ SlotInHand
  BY DEF PubInv, OpOK
<1>1. op.at = "sync"
  BY DEF PublishSync, At
<1>2. /\ op.slot \in Slots /\ op.root \in Manifests /\ mode = "live"
      /\ \A t \in Slots : ~InHand(t)
  BY <1>1, SlotOpFacts DEF InHand
<1>3. PICK s \in Slots, m \in Manifests : s = op.slot /\ m = op.root
  BY <1>2
<1>4. /\ roots.now[RootRecord(s)] = m /\ visible[s] = [root |-> m, durable |-> FALSE]
  BY <1>0, <1>1, <1>3 DEF SlotInHand
<1>5. /\ UNCHANGED <<tombsDir, spool, broken, orphans, tombs, verified, kills, recorded>>
      /\ op' = Idle
  BY DEF PublishSync
<1>6. \/ /\ roots' = Sync(roots) /\ visible' = [visible EXCEPT ![s].durable = TRUE]
         /\ told' = [told EXCEPT ![s] = [says |-> "durable", root |-> m]] /\ UNCHANGED <<mode, faults>>
      \/ Spend(1) /\ mode' = "poisoned" /\ UNCHANGED <<roots, visible, told>>
  BY <1>3 DEF PublishSync, Says
<1>7. /\ RootsTyped /\ IsDir(roots, RootNames) /\ RootRecord(s) \in RootNames /\ RootMark(s) \in RootNames
      /\ m # None /\ faults \in 0 .. MaxFaults
      /\ told \in [Slots -> [says : {"durable", "absent", "marked", "unknown"},
                             root : Manifests \union {None}]]
  BY <1>0, NamesDiffer, PublicationAssumption DEF DirsOK, MemoryOK
<1>8. OpOK'
  BY <1>5, IdleOK
<1>9. /\ mode # "down" /\ broken' \in {broken, broken \union {s}}
      /\ orphans' \subseteq orphans \union {RootTemp(s)}
      /\ UNCHANGED <<tombsDir, tombs, recorded, kills>>
      /\ \A t \in Slots : InHand(t) => t = s
  BY <1>2, <1>5
<1>10. CASE /\ roots' = Sync(roots) /\ visible' = [visible EXCEPT ![s].durable = TRUE]
            /\ told' = [told EXCEPT ![s] = [says |-> "durable", root |-> m]] /\ UNCHANGED <<mode, faults>>
  <2>1. Touched(roots, roots', {}, RootNames)
    BY <1>7, <1>10, SyncDir
  <2>2. roots'.may[RootRecord(s)] = {m} /\ roots'.now[RootRecord(s)] = m
    BY <1>4, <1>7, <1>10, SyncDir
  <2>3. Touched(roots, roots', {RootRecord(s), RootTemp(s), RootMark(s)}, RootNames)
    BY <2>1, TouchedMore
  <2>4. /\ told' \in [Slots -> [says : {"durable", "absent", "marked", "unknown"},
                                root : Manifests \union {None}]]
        /\ told'[s].says = "durable" /\ told'[s].root = m
        /\ \A t \in Slots \ {s} : told'[t] = told[t]
    BY <1>0, <1>10, SaysOK
  <2>5. /\ RootsTyped' /\ visible'[s].root = m /\ visible'[s].durable = TRUE
        /\ \A t \in Slots \ {s} : visible'[t] = visible[t]
    <3>1. visible \in [Slots -> [root : Manifests \union {None}, durable : BOOLEAN]]
      BY <1>7 DEF RootsTyped
    <3>2. visible' = [visible EXCEPT ![s] = [visible[s] EXCEPT !.durable = TRUE]]
      BY <1>10
    <3> DEFINE v == [visible[s] EXCEPT !.durable = TRUE]
    <3>3. v \in [root : Manifests \union {None}, durable : BOOLEAN] /\ v.root = m /\ v.durable = TRUE
      <4>1. visible[s] \in [root : Manifests \union {None}, durable : BOOLEAN] /\ visible[s].root = m
        BY <1>4, <3>1
      <4>2. TRUE \in BOOLEAN
        OBVIOUS
      <4>3. /\ v \in [root : Manifests \union {None}, durable : BOOLEAN]
            /\ v.root = visible[s].root /\ v.durable = TRUE
        BY <4>1, <4>2, DurableUpdate, Zenon
      <4> QED
        BY <4>1, <4>3
    <3>4. visible' = [visible EXCEPT ![s] = v]
      BY <3>2
    <3> HIDE DEF v
    <3> QED
      BY <3>1, <3>3, <3>4 DEF RootsTyped
  <2>6. SlotInv(s)'
    <3>1. roots'.may[RootMark(s)] \subseteq {None, Torn}
      BY <1>0, <1>7, <2>1 DEF Touched, Keeps, SlotInv
    <3>2. Held(s)' /\ mode' = "live"
      BY <1>2, <1>7, <1>10, <2>5 DEF Held
    <3> QED
      BY <2>2, <2>4, <2>5, <3>1, <3>2 DEF SlotInv, RootRecord, RootMark, Firm
  <2>7. AdmittedIsWhole'
    <3>1. \A t \in Slots : visible'[t].root \in {visible[t].root, None}
      BY <1>4, <2>5
    <3>2. verified \subseteq verified' /\ UNCHANGED tombs /\ (mode' = "live" => mode = "live")
      BY <1>5, <1>10
    <3> QED
      BY <1>0, <1>7, <2>5, <3>1, <3>2, WholeKept
  <2>8. /\ spool' \subseteq Objects /\ verified' \subseteq Objects
        /\ mode' = "live" => verified' \subseteq spool'
        /\ faults' \in 0 .. MaxFaults /\ mode' \in {mode, "poisoned"}
    BY <1>0, <1>5, <1>10 DEF MemoryOK
  <2>9. \A t \in Slots \ {s} : visible'[t] = visible[t] /\ told'[t] = told[t]
    BY <2>4, <2>5
  <2> QED
    BY <1>8, <1>9, <2>3, <2>4, <2>5, <2>6, <2>7, <2>8, <2>9, SlotStep
<1>11. CASE Spend(1) /\ mode' = "poisoned" /\ UNCHANGED <<roots, visible, told>>
  <2>1. Touched(roots, roots', {RootRecord(s), RootTemp(s), RootMark(s)}, RootNames)
    BY <1>7, <1>11, SameDir, TouchedMore
  <2>2. SlotInv(s)'
    <3>1. \A t \in Slots : SlotInv(t)'
      <4>1. op.at \notin {"unlink", "rollback"}
        BY <1>1
      <4>2. UNCHANGED <<roots, visible, told, broken>> /\ mode' \notin {"live", "down"}
        BY <1>5, <1>11
      <4>3. DirsOK'
        BY <1>0, <1>5, <1>11 DEF DirsOK
      <4> QED
        BY <1>0, <4>1, <4>2, <4>3, SlotsKept
    <3> QED
      BY <3>1
  <2>3. faults' \in 0 .. MaxFaults
    BY <1>7, <1>11, SpendOK
  <2>4. /\ mode' \in {mode, "poisoned"} /\ \A t \in Slots \ {s} : told'[t] = told[t]
        /\ told' \in [Slots -> [says : {"durable", "absent", "marked", "unknown"},
                                root : Manifests \union {None}]]
        /\ UNCHANGED <<tombsDir, spool, visible, tombs, verified, kills, recorded>>
    BY <1>5, <1>7, <1>11
  <2> QED
    BY <1>8, <1>9, <2>1, <2>2, <2>3, <2>4, SlotStepQuiet
<1> QED
  BY <1>6, <1>10, <1>11

-----------------------------------------------------------------------------
(* Retraction and objects.                                                  *)

(* A retraction removes the record, or failed without telling whether.      *)
LEMMA RetractBeginInv ==
  ASSUME PubInv, NEW s \in Slots, RetractBegin(s)
  PROVE  PubInv'
<1> DEFINE n == RootRecord(s)
           e == Remove(roots, n)
<1>0. DirsOK /\ MemoryOK /\ AdmittedIsWhole /\ SlotInv(s)
  BY DEF PubInv
<1>1. /\ mode = "live" /\ op = Idle /\ Held(s)
      /\ told' = [told EXCEPT ![s] = [says |-> "unknown", root |-> None]]
      /\ UNCHANGED <<tombsDir, spool, mode, broken, orphans, tombs, verified, kills, recorded>>
  BY DEF RetractBegin, Ready, Says
<1>2. \/ /\ roots' = e /\ visible' = [visible EXCEPT ![s] = NoRoot]
         /\ op' = [at |-> "retract", slot |-> s] /\ UNCHANGED faults
      \/ Spend(1) /\ roots' \in {roots, e} /\ UNCHANGED <<visible, op>>
  BY DEF RetractBegin, RemoveFailed
<1>3. n \in RootNames /\ RootMark(s) \in RootNames /\ n # RootMark(s) /\ IsDir(roots, RootNames) /\ None \in Values
  BY <1>0, NamesDiffer DEF DirsOK, Values
<1>4. Touched(roots, e, {n}, RootNames) /\ e.now[n] = None /\ e.may[n] = roots.may[n] \union {None}
  <2>1. Touched(roots, e, {n}, RootNames)
    BY <1>3, PutDir DEF Remove
  <2>2. e.now[n] = None /\ e.may[n] = roots.may[n] \union {None}
    BY <1>3, PutValue DEF Remove
  <2> QED
    BY <2>1, <2>2
<1>5. Touched(roots, roots, {n}, RootNames)
  BY <1>3, SameDir, TouchedMore
<1> HIDE DEF e
<1>6. Touched(roots, roots', {n}, RootNames)
  BY <1>2, <1>4, <1>5
<1>7. Touched(roots, roots', {RootRecord(s), RootTemp(s), RootMark(s)}, RootNames)
  BY <1>6, TouchedMore
<1>8. Keeps(roots, roots', RootMark(s))
  BY <1>3, <1>6 DEF Touched
<1>9. \A t \in Slots : ~InHand(t)
  BY <1>1 DEF InHand, Idle
<1>10. /\ told' \in [Slots -> [says : {"durable", "absent", "marked", "unknown"},
                               root : Manifests \union {None}]]
       /\ told'[s].says = "unknown" /\ \A t \in Slots \ {s} : told'[t] = told[t]
  BY <1>0, <1>1, SaysOK
<1>11. /\ RootsTyped /\ RootsTyped' /\ \A t \in Slots \ {s} : visible'[t] = visible[t]
       /\ visible'[s] \in {visible[s], NoRoot}
  <2>1. RootsTyped
    BY <1>0 DEF MemoryOK
  <2>2. NoRoot \in [root : Manifests \union {None}, durable : BOOLEAN]
    BY DEF NoRoot
  <2> QED
    BY <1>2, <2>1, <2>2 DEF RootsTyped
<1>12. AdmittedIsWhole'
  <2>1. \A t \in Slots : visible'[t].root \in {visible[t].root, None}
    BY <1>11 DEF NoRoot
  <2>2. verified \subseteq verified' /\ UNCHANGED tombs /\ (mode' = "live" => mode = "live")
    BY <1>1
  <2> QED
    BY <1>0, <1>11, <2>1, <2>2, WholeKept
<1>13. SlotInv(s)'
  <2>1. /\ roots'.may[n] \subseteq Manifests \union {None}
        /\ roots'.may[RootMark(s)] \subseteq {None, Torn}
    BY <1>0, <1>2, <1>4, <1>8 DEF SlotInv, Keeps
  <2>2. CASE roots' = e /\ visible' = [visible EXCEPT ![s] = NoRoot]
    <3>1. ~visible'[s].durable
      BY <1>11, <2>2 DEF NoRoot, RootsTyped
    <3>2. roots'.now[n] = None
      BY <1>4, <2>2
    <3> QED
      BY <1>1, <1>10, <2>1, <3>1, <3>2 DEF SlotInv, RootRecord, RootMark
  <2>3. CASE roots' \in {roots, e} /\ visible' = visible
    <3>1. Held(s)'
      BY <1>1, <2>3 DEF Held
    <3>2. visible'[s].durable /\ roots'.now[n] # None =>
            Firm(roots', n) /\ roots'.now[n] = visible'[s].root
      BY <1>0, <1>4, <2>3 DEF SlotInv
    <3> QED
      BY <1>1, <1>10, <2>1, <3>1, <3>2 DEF SlotInv, RootRecord, RootMark, Firm
  <2> QED
    BY <1>2, <2>2, <2>3
<1>14. OpOK'
  <2>1. CASE op' = Idle
    BY <2>1, IdleOK
  <2>2. CASE op' = [at |-> "retract", slot |-> s] /\ roots' = e /\ visible' = [visible EXCEPT ![s] = NoRoot]
    <3>1. OpInMode' /\ TombInHand'
      BY <1>1, <2>2 DEF OpInMode, TombInHand
    <3>2. ~Held(s)'
      BY <1>11, <2>2 DEF Held, NoRoot, RootsTyped
    <3>3. SlotInHand'
      BY <1>4, <1>10, <2>2, <3>2 DEF SlotInHand
    <3> QED
      BY <3>1, <3>3 DEF OpOK
  <2> QED
    BY <1>1, <1>2, <2>1, <2>2
<1>15. /\ spool' \subseteq Objects /\ verified' \subseteq Objects
       /\ mode' = "live" => verified' \subseteq spool'
  BY <1>0, <1>1 DEF MemoryOK
<1>16. faults' \in 0 .. MaxFaults
  <2>1. faults \in 0 .. MaxFaults
    BY <1>0 DEF MemoryOK
  <2> QED
    BY <1>2, <2>1, SpendOK
<1>17. /\ mode # "down" /\ mode' \in {mode, "poisoned"} /\ broken' \in {broken, broken \union {s}}
       /\ orphans' \subseteq orphans \union {RootTemp(s)}
       /\ UNCHANGED <<tombsDir, tombs, recorded, kills>>
       /\ \A t \in Slots : InHand(t) => t = s
       /\ \A t \in Slots \ {s} : visible'[t] = visible[t] /\ told'[t] = told[t]
  BY <1>1, <1>9, <1>10, <1>11
<1> QED
  BY <1>7, <1>10, <1>11, <1>12, <1>13, <1>14, <1>15, <1>16, <1>17, SlotStep

(* The synchronisation makes a retraction certain.                          *)
LEMMA RetractSyncInv ==
  ASSUME PubInv, RetractSync
  PROVE  PubInv'
<1>0. DirsOK /\ MemoryOK /\ (\A t \in Slots : SlotInv(t)) /\ SlotInHand
  BY DEF PubInv, OpOK
<1>1. op.at = "retract"
  BY DEF RetractSync, At
<1>2. op.slot \in Slots /\ mode = "live" /\ \A t \in Slots : ~InHand(t)
  BY <1>1, SlotOpFacts DEF InHand
<1>3. PICK s \in Slots : s = op.slot
  BY <1>2
<1>4. ~Held(s) /\ told[s].says = "unknown" /\ roots.now[RootRecord(s)] = None
  BY <1>0, <1>1, <1>3 DEF SlotInHand
<1>5. /\ UNCHANGED <<tombsDir, spool, visible, broken, orphans, tombs, verified, kills, recorded>>
      /\ op' = Idle
  BY DEF RetractSync, memoryVars
<1>6. \/ /\ roots' = Sync(roots) /\ UNCHANGED <<mode, faults>>
         /\ told' = [told EXCEPT ![s] = [says |-> "absent", root |-> None]]
      \/ Spend(1) /\ mode' = "poisoned" /\ UNCHANGED <<roots, told>>
  BY <1>3 DEF RetractSync, Says
<1>7. /\ IsDir(roots, RootNames) /\ RootRecord(s) \in RootNames /\ RootMark(s) \in RootNames
      /\ faults \in 0 .. MaxFaults
      /\ told \in [Slots -> [says : {"durable", "absent", "marked", "unknown"},
                             root : Manifests \union {None}]]
  BY <1>0, NamesDiffer DEF DirsOK, MemoryOK
<1>8. OpOK'
  BY <1>5, IdleOK
<1>9. Touched(roots, roots', {}, RootNames)
  <2>1. Touched(roots, Sync(roots), {}, RootNames)
    BY <1>7, SyncDir
  <2>2. Touched(roots, roots, {}, RootNames)
    BY <1>7, SameDir
  <2> QED
    BY <1>6, <2>1, <2>2
<1>10. Touched(roots, roots', {RootRecord(s), RootTemp(s), RootMark(s)}, RootNames)
  BY <1>9, TouchedMore
<1>11. Keeps(roots, roots', RootRecord(s)) /\ Keeps(roots, roots', RootMark(s))
  BY <1>7, <1>9 DEF Touched
<1>12. /\ told' \in [Slots -> [says : {"durable", "absent", "marked", "unknown"},
                               root : Manifests \union {None}]]
       /\ \A t \in Slots \ {s} : told'[t] = told[t]
       /\ \/ told'[s].says = "unknown"
          \/ told'[s].says = "absent" /\ roots' = Sync(roots)
  <2>1. CASE roots' = Sync(roots) /\ told' = [told EXCEPT ![s] = [says |-> "absent", root |-> None]]
    BY <1>0, <2>1, SaysOK
  <2>2. CASE UNCHANGED <<roots, told>>
    BY <1>4, <1>7, <2>2
  <2> QED
    BY <1>6, <2>1, <2>2
<1>13. roots' = Sync(roots) => roots'.may[RootRecord(s)] = {None}
  BY <1>4, <1>7, SyncDir
<1>14. SlotInv(s)'
  <2>1. /\ roots'.may[RootRecord(s)] \subseteq Manifests \union {None}
        /\ roots'.may[RootMark(s)] \subseteq {None, Torn}
        /\ roots'.now[RootRecord(s)] = None
    BY <1>0, <1>4, <1>11 DEF SlotInv, Keeps
  <2> QED
    BY <1>0, <1>4, <1>5, <1>12, <1>13, <2>1, SlotUnserved
<1>15. faults' \in 0 .. MaxFaults
  BY <1>6, <1>7, SpendOK
<1>16. /\ mode # "down" /\ mode' \in {mode, "poisoned"} /\ broken' \in {broken, broken \union {s}}
       /\ orphans' \subseteq orphans \union {RootTemp(s)}
       /\ UNCHANGED <<tombsDir, spool, visible, tombs, verified, kills, recorded>>
       /\ \A t \in Slots : InHand(t) => t = s
  BY <1>2, <1>5, <1>6
<1> QED
  BY <1>8, <1>10, <1>12, <1>14, <1>15, <1>16, SlotStepQuiet

(* A step between operations that changes the objects in custody only.      *)
LEMMA ObjectStep ==
  ASSUME PubInv, op = Idle, mode # "down", mode' \in {mode, "poisoned", "spoolPoisoned"},
         UNCHANGED <<roots, tombsDir, op, visible, broken, orphans, tombs, kills, told, recorded>>,
         faults' \in 0 .. MaxFaults, spool' \subseteq Objects, verified' \subseteq Objects,
         mode' = "live" => verified' \subseteq spool', AdmittedIsWhole'
  PROVE  PubInv'
<1>0. DirsOK /\ MemoryOK /\ (\A t \in Slots : SlotInv(t)) /\ (\A o \in recorded : TombInv(o))
  BY DEF PubInv
<1>1. DirsOK'
  BY <1>0 DEF DirsOK
<1>2. MemoryOK'
  BY <1>0 DEF MemoryOK, RootsTyped
<1>3. (mode' = "live" => mode = "live") /\ (mode' = "down" => mode = "down")
  OBVIOUS
<1>4. \A t \in Slots : SlotInv(t)'
  <2>1. op.at \notin {"unlink", "rollback"}
    BY DEF Idle
  <2>2. UNCHANGED <<roots, visible, told, broken>>
    OBVIOUS
  <2> QED
    BY <1>0, <1>1, <1>3, <2>1, <2>2, SlotsKept
<1>5. \A o \in recorded' : TombInv(o)'
  <2>1. \A o \in Objects : Keeps(tombsDir, tombsDir', Tomb(o))
    BY DEF Keeps
  <2>2. recorded \subseteq Objects /\ IsDir(tombsDir', TombNames) /\ UNCHANGED <<recorded, tombs>>
    BY <1>0, <1>1 DEF MemoryOK, DirsOK
  <2> QED
    BY <1>0, <1>3, <2>1, <2>2, TombsKept
<1>6. OpOK'
  BY IdleOK
<1> QED
  BY <1>1, <1>2, <1>4, <1>5, <1>6 DEF PubInv

(* An object is staged and verified.                                        *)
LEMMA StageObjectInv ==
  ASSUME PubInv, NEW o \in Objects, StageObject(o)
  PROVE  PubInv'
<1>0. MemoryOK /\ AdmittedIsWhole
  BY DEF PubInv
<1>1. /\ op = Idle /\ mode = "live"
      /\ UNCHANGED <<roots, tombsDir, op, visible, broken, orphans, tombs, kills, told, recorded>>
  BY DEF StageObject, Ready, obsVars
<1>2. \/ spool' = spool \union {o} /\ verified' = verified \union {o} /\ UNCHANGED <<mode, faults>>
      \/ Spend(1) /\ spool' \in {spool, spool \union {o}} /\ mode' = "poisoned" /\ UNCHANGED verified
  BY DEF StageObject
<1>3. RootsTyped /\ RootsTyped'
  BY <1>0, <1>1 DEF MemoryOK, RootsTyped
<1>4. AdmittedIsWhole'
  <2>1. \A t \in Slots : visible'[t].root \in {visible[t].root, None}
    BY <1>1
  <2>2. verified \subseteq verified' /\ UNCHANGED tombs /\ (mode' = "live" => mode = "live")
    BY <1>1, <1>2
  <2> QED
    BY <1>0, <1>3, <2>1, <2>2, WholeKept
<1>5. faults' \in 0 .. MaxFaults
  <2>1. faults \in 0 .. MaxFaults
    BY <1>0 DEF MemoryOK
  <2> QED
    BY <1>2, <2>1, SpendOK
<1>6. /\ spool' \subseteq Objects /\ verified' \subseteq Objects
      /\ mode' = "live" => verified' \subseteq spool'
      /\ mode # "down" /\ mode' \in {mode, "poisoned", "spoolPoisoned"}
  BY <1>0, <1>1, <1>2 DEF MemoryOK
<1> QED
  BY <1>1, <1>4, <1>5, <1>6, ObjectStep

(* An object no root reaches is deleted.                                    *)
LEMMA DeleteObjectInv ==
  ASSUME PubInv, NEW o \in Objects, DeleteObject(o)
  PROVE  PubInv'
<1>0. MemoryOK /\ AdmittedIsWhole
  BY DEF PubInv
<1>1. /\ op = Idle /\ mode = "live" /\ o \notin Reachable
      /\ UNCHANGED <<roots, tombsDir, op, visible, broken, orphans, tombs, kills, told, recorded>>
  BY DEF DeleteObject, Ready, obsVars, Deletable
<1>2. \/ spool' = spool \ {o} /\ verified' = verified \ {o} /\ UNCHANGED <<mode, faults>>
      \/ Spend(1) /\ spool' \in {spool, spool \ {o}} /\ mode' = "spoolPoisoned" /\ UNCHANGED verified
  BY DEF DeleteObject
<1>3. AdmittedIsWhole'
  <2> SUFFICES ASSUME mode' = "live" PROVE Whole(HeldRoots', verified' \ tombs')
    BY AdmittedMeansNext
  <2>1. HeldRoots' = HeldRoots
    BY <1>1 DEF HeldRoots, HeldSlots, Held
  <2>2. verified' = verified \ {o} /\ tombs' = tombs
    BY <1>1, <1>2
  <2>3. Whole(HeldRoots, verified \ tombs) /\ RootsTyped
    BY <1>0, <1>1, AdmittedMeans DEF MemoryOK
  <2>4. \A r \in HeldRoots : Closure(HeldRoots, r) \subseteq Reachable
    BY <2>3, ReachableIsAll
  <2>5. Whole(HeldRoots, verified' \ tombs')
    BY <1>1, <2>2, <2>3, <2>4 DEF Whole
  <2> QED
    BY <2>1, <2>5
<1>4. faults' \in 0 .. MaxFaults
  <2>1. faults \in 0 .. MaxFaults
    BY <1>0 DEF MemoryOK
  <2> QED
    BY <1>2, <2>1, SpendOK
<1>5. /\ spool' \subseteq Objects /\ verified' \subseteq Objects
      /\ mode' = "live" => verified' \subseteq spool'
      /\ mode # "down" /\ mode' \in {mode, "poisoned", "spoolPoisoned"}
  BY <1>0, <1>1, <1>2 DEF MemoryOK
<1> QED
  BY <1>1, <1>3, <1>4, <1>5, ObjectStep

-----------------------------------------------------------------------------
(* The steps of tombstones.                                                 *)

(* A step that works on one tombstone keeps the invariant if it keeps what  *)
(* is said of that tombstone, of the roots served and of the operation.     *)
LEMMA TombStep ==
  ASSUME PubInv, NEW o \in Objects, mode # "down", mode' \in {mode, "poisoned"},
         UNCHANGED <<roots, spool, visible, broken, verified, kills, told>>,
         op.at \notin {"unlink", "rollback"},
         Touched(tombsDir, tombsDir', {Tomb(o), TombTemp(o), TombMark(o)}, TombNames),
         tombs' \in {tombs, tombs \union {o}}, recorded' \in {recorded, recorded \union {o}},
         o \in recorded' => TombInv(o)',
         orphans' \subseteq orphans \union {TombTemp(o)}, faults' \in 0 .. MaxFaults,
         AdmittedIsWhole', OpOK'
  PROVE  PubInv'
<1>0. DirsOK /\ MemoryOK /\ (\A t \in Slots : SlotInv(t)) /\ (\A p \in recorded : TombInv(p))
  BY DEF PubInv
<1>1. DirsOK'
  BY <1>0 DEF DirsOK, Touched
<1>2. MemoryOK'
  <2>1. TombTemp(o) \in TombNames /\ TombTemp(o)[2] = "tmp"
    BY NamesDiffer
  <2> QED
    BY <1>0, <2>1 DEF MemoryOK, RootsTyped
<1>3. (mode' = "live" => mode = "live") /\ (mode' = "down" => mode = "down")
  BY <1>0 DEF MemoryOK
<1>4. \A t \in Slots : SlotInv(t)'
  <2>1. UNCHANGED <<roots, visible, told, broken>>
    OBVIOUS
  <2> QED
    BY <1>0, <1>1, <1>3, <2>1, SlotsKept
<1>5. ASSUME NEW p \in recorded', p # o
      PROVE  TombInv(p)'
  <2>1. p \in recorded /\ p \in Objects
    BY <1>0, <1>5 DEF MemoryOK
  <2>2. Tomb(p) \in TombNames /\ Keeps(tombsDir, tombsDir', Tomb(p))
    BY <1>5, <2>1, NamesDiffer DEF Touched
  <2>3. tombsDir.may[Tomb(p)] = {p} /\ (mode = "live" => p \in tombs)
    BY <1>0, <2>1 DEF TombInv
  <2>4. tombsDir'.now[Tomb(p)] \in tombsDir'.may[Tomb(p)]
    BY <1>1, <2>2 DEF DirsOK, IsDir
  <2>5. tombsDir'.may[Tomb(p)] = {p}
    BY <2>2, <2>3, <2>4 DEF Keeps
  <2> QED
    BY <1>3, <2>3, <2>5 DEF TombInv, Tomb
<1> QED
  BY <1>1, <1>2, <1>4, <1>5 DEF PubInv

(* The same when no tombstone is admitted.                                  *)
LEMMA TombStepQuiet ==
  ASSUME PubInv, NEW o \in Objects, mode # "down", mode' \in {mode, "poisoned"},
         UNCHANGED <<roots, spool, visible, broken, tombs, verified, kills, told, recorded>>,
         op.at \notin {"unlink", "rollback"},
         Touched(tombsDir, tombsDir', {Tomb(o), TombTemp(o), TombMark(o)}, TombNames),
         o \in recorded => Keeps(tombsDir, tombsDir', Tomb(o)),
         orphans' \subseteq orphans \union {TombTemp(o)}, faults' \in 0 .. MaxFaults, OpOK'
  PROVE  PubInv'
<1>0. DirsOK /\ MemoryOK /\ AdmittedIsWhole /\ (\A p \in recorded : TombInv(p))
  BY DEF PubInv
<1>1. RootsTyped /\ RootsTyped'
  BY <1>0 DEF MemoryOK, RootsTyped
<1>2. mode' = "live" => mode = "live"
  OBVIOUS
<1>3. AdmittedIsWhole'
  BY <1>0, <1>1, <1>2, WholeKept
<1>4. ASSUME o \in recorded PROVE TombInv(o)'
  <2>1. tombsDir.may[Tomb(o)] = {o} /\ (mode = "live" => o \in tombs)
    BY <1>0, <1>4 DEF TombInv
  <2>2. tombsDir'.now[Tomb(o)] \in tombsDir'.may[Tomb(o)]
    BY NamesDiffer DEF Touched, IsDir
  <2>3. tombsDir'.may[Tomb(o)] = {o}
    BY <1>4, <2>1, <2>2 DEF Keeps
  <2> QED
    BY <1>2, <2>1, <2>3 DEF TombInv, Tomb
<1>5. /\ UNCHANGED <<roots, spool, visible, broken, verified, kills, told>>
      /\ tombs' \in {tombs, tombs \union {o}} /\ recorded' \in {recorded, recorded \union {o}}
      /\ o \in recorded' => TombInv(o)'
  BY <1>4
<1> QED
  BY <1>3, <1>5, TombStep

(* What is known while a tombstone is being recorded.                       *)
LEMMA TombOpFacts ==
  ASSUME PubInv, op.at \in {"tombWrite", "tombRename", "tombSync", "tombRollback",
                            "tombUndo", "tombMark", "tombSpoil"}
  PROVE  /\ op.object \in Objects /\ op = [at |-> op.at, object |-> op.object]
         /\ mode = IF op.at \in {"tombWrite", "tombRename", "tombSync", "tombRollback"}
                   THEN "live" ELSE "poisoned"
<1>1. OpInMode
  BY DEF PubInv, OpOK
<1>2. op # Idle
  BY DEF Idle
<1>3. \/ /\ mode = "live"
         /\ op \in [at : {"tombWrite", "tombRename", "tombSync", "tombRollback"}, object : Objects]
      \/ /\ mode = "poisoned"
         /\ op \in [at : {"tombUndo", "tombMark", "tombSpoil"}, object : Objects]
  BY <1>1, <1>2 DEF OpInMode
<1> QED
  BY <1>3

(* The names of a tombstone that a step on its temporary record leaves.     *)
LEMMA TombTempTouched ==
  ASSUME NEW o \in Objects, Touched(tombsDir, tombsDir', {TombTemp(o)}, TombNames)
  PROVE  /\ Touched(tombsDir, tombsDir', {Tomb(o), TombTemp(o), TombMark(o)}, TombNames)
         /\ Keeps(tombsDir, tombsDir', Tomb(o))
<1>1. {TombTemp(o)} \subseteq {Tomb(o), TombTemp(o), TombMark(o)}
  OBVIOUS
<1>2. Keeps(tombsDir, tombsDir', Tomb(o))
  BY NamesDiffer DEF Touched
<1> QED
  BY <1>1, <1>2, TouchedMore

(* Recording a tombstone starts with its temporary record.                  *)
LEMMA TombstoneBeginInv ==
  ASSUME PubInv, NEW o \in Objects, TombstoneBegin(o)
  PROVE  PubInv'
<1>0. DirsOK /\ MemoryOK
  BY DEF PubInv
<1>1. /\ mode = "live" /\ op = Idle /\ o \notin Reachable
      /\ tombsDir' = Put(tombsDir, TombTemp(o), Torn)
      /\ op' = [at |-> "tombWrite", object |-> o] \/ op' = Idle
      /\ UNCHANGED faults \/ Spend(1)
      /\ UNCHANGED <<roots, spool, mode, visible, broken, orphans, tombs, verified, kills, told, recorded>>
  BY DEF TombstoneBegin, Ready, Deletable, memoryVars, obsVars
<1>2. Touched(tombsDir, tombsDir', {TombTemp(o)}, TombNames)
  <2>1. TombTemp(o) \in TombNames /\ IsDir(tombsDir, TombNames) /\ Torn \in Values
    BY <1>0, NamesDiffer DEF DirsOK, Values
  <2> QED
    BY <1>1, <2>1, PutDir
<1>3. /\ Touched(tombsDir, tombsDir', {Tomb(o), TombTemp(o), TombMark(o)}, TombNames)
      /\ Keeps(tombsDir, tombsDir', Tomb(o))
  BY <1>2, TombTempTouched
<1>4. OpOK'
  <2>0. SUFFICES ASSUME op' = [at |-> "tombWrite", object |-> o] PROVE OpOK'
    BY <1>1, IdleOK
  <2>1. OpInMode' /\ SlotInHand'
    BY <1>1, <2>0 DEF OpInMode, SlotInHand
  <2>2. o \notin Reachable'
    BY <1>1, ReferencesKept
  <2>3. TombInHand'
    BY <1>1, <2>0, <2>2 DEF TombInHand
  <2> QED
    BY <2>1, <2>3 DEF OpOK
<1>5. /\ mode # "down" /\ mode' \in {mode, "poisoned"} /\ op.at \notin {"unlink", "rollback"}
      /\ UNCHANGED <<roots, spool, visible, broken, tombs, verified, kills, told, recorded>>
      /\ orphans' \subseteq orphans \union {TombTemp(o)} /\ faults' \in 0 .. MaxFaults
  BY <1>0, <1>1, SpendOK DEF Idle, MemoryOK
<1> QED
  BY <1>3, <1>4, <1>5, TombStepQuiet

(* The temporary record of a tombstone is written, or removed.              *)
LEMMA TombstoneWriteInv ==
  ASSUME PubInv, TombstoneWrite
  PROVE  PubInv'
<1>0. DirsOK /\ MemoryOK /\ TombInHand
  BY DEF PubInv, OpOK
<1>1. op.at = "tombWrite"
  BY DEF TombstoneWrite, At
<1>2. op.object \in Objects /\ op = [at |-> "tombWrite", object |-> op.object] /\ mode = "live"
  BY <1>1, TombOpFacts
<1>3. PICK o \in Objects : o = op.object
  BY <1>2
<1>4. o \notin Reachable
  BY <1>0, <1>1, <1>3 DEF TombInHand
<1>5. UNCHANGED <<roots, spool, mode, visible, broken, tombs, verified, kills, told, recorded>>
  BY DEF TombstoneWrite, obsVars
<1>6. o \in Values /\ TombTemp(o) \in TombNames /\ IsDir(tombsDir, TombNames)
  BY <1>0, NamesDiffer DEF Values, DirsOK
<1>7. \/ /\ tombsDir' = Sync(Put(tombsDir, TombTemp(o), o))
         /\ op' = [at |-> "tombRename", object |-> o]
         /\ UNCHANGED <<orphans, faults>>
      \/ \E w \in {tombsDir, Put(tombsDir, TombTemp(o), o)} : \E r \in RemoveTemp(w, TombTemp(o)) :
           Spend(1) /\ tombsDir' = r.dir /\ orphans' = orphans \union r.orphan /\ op' = Idle
  <2>1. [op EXCEPT !.at = "tombRename"] = [at |-> "tombRename", object |-> o]
    BY <1>2, <1>3
  <2> QED
    BY <1>3, <2>1 DEF TombstoneWrite
<1>8. /\ Touched(tombsDir, tombsDir', {TombTemp(o)}, TombNames)
      /\ orphans' \subseteq orphans \union {TombTemp(o)} /\ faults' \in 0 .. MaxFaults
      /\ op' = Idle \/ op' = [at |-> "tombRename", object |-> o]
  <2>0. faults \in 0 .. MaxFaults
    BY <1>0 DEF MemoryOK
  <2>1. CASE /\ tombsDir' = Sync(Put(tombsDir, TombTemp(o), o))
             /\ op' = [at |-> "tombRename", object |-> o] /\ UNCHANGED <<orphans, faults>>
    <3>1. Touched(tombsDir, tombsDir', {TombTemp(o)}, TombNames)
      BY <1>6, <2>1, PutSyncDir
    <3> QED
      BY <2>0, <2>1, <3>1
  <2>2. CASE \E w \in {tombsDir, Put(tombsDir, TombTemp(o), o)} : \E r \in RemoveTemp(w, TombTemp(o)) :
               Spend(1) /\ tombsDir' = r.dir /\ orphans' = orphans \union r.orphan /\ op' = Idle
    <3>1. PICK w \in {tombsDir, Put(tombsDir, TombTemp(o), o)} : \E r \in RemoveTemp(w, TombTemp(o)) :
            Spend(1) /\ tombsDir' = r.dir /\ orphans' = orphans \union r.orphan /\ op' = Idle
      BY <2>2
    <3>2. PICK r \in RemoveTemp(w, TombTemp(o)) :
            Spend(1) /\ tombsDir' = r.dir /\ orphans' = orphans \union r.orphan /\ op' = Idle
      BY <3>1
    <3>3. Touched(tombsDir, r.dir, {TombTemp(o)}, TombNames) /\ r.orphan \subseteq {TombTemp(o)}
      <4> DEFINE n == TombTemp(o)
                 N == TombNames
      <4>1. /\ IsDir(tombsDir, N) /\ n \in N /\ o \in Values
            /\ w \in {tombsDir, Put(tombsDir, n, o)} /\ r \in RemoveTemp(w, n)
        BY <1>6
      <4> HIDE DEF n, N
      <4>2. Touched(tombsDir, r.dir, {n}, N) /\ r.orphan \subseteq {n}
        BY ONLY <4>1, PutRemoveDir
      <4> QED
        BY <4>2 DEF n, N
    <3>4. faults' \in 0 .. MaxFaults
      BY <2>0, <3>2, SpendOK
    <3> QED
      BY <3>2, <3>3, <3>4
  <2> QED
    BY <1>7, <2>1, <2>2
<1>9. /\ Touched(tombsDir, tombsDir', {Tomb(o), TombTemp(o), TombMark(o)}, TombNames)
      /\ Keeps(tombsDir, tombsDir', Tomb(o))
  BY <1>8, TombTempTouched
<1>10. OpOK'
  <2>1. CASE op' = Idle
    BY <2>1, IdleOK
  <2>2. CASE op' = [at |-> "tombRename", object |-> o]
    <3>1. OpInMode' /\ SlotInHand'
      BY <1>2, <1>5, <2>2 DEF OpInMode, SlotInHand
    <3>2. o \notin Reachable'
      BY <1>4, <1>5, ReferencesKept
    <3>3. TombInHand'
      BY <2>2, <3>2 DEF TombInHand
    <3> QED
      BY <3>1, <3>3 DEF OpOK
  <2> QED
    BY <1>8, <2>1, <2>2
<1>11. /\ mode # "down" /\ mode' \in {mode, "poisoned"} /\ op.at \notin {"unlink", "rollback"}
       /\ UNCHANGED <<roots, spool, visible, broken, tombs, verified, kills, told, recorded>>
  BY <1>1, <1>2, <1>5
<1> QED
  BY <1>8, <1>9, <1>10, <1>11, TombStepQuiet

(* The rename: a name that is free is not that of a recorded tombstone.     *)
LEMMA TombstoneRenameInv ==
  ASSUME PubInv, TombstoneRename
  PROVE  PubInv'
<1>0. DirsOK /\ MemoryOK /\ TombInHand /\ (\A p \in recorded : TombInv(p))
  BY DEF PubInv, OpOK
<1>1. op.at = "tombRename"
  BY DEF TombstoneRename, At
<1>2. op.object \in Objects /\ op = [at |-> "tombRename", object |-> op.object] /\ mode = "live"
  BY <1>1, TombOpFacts
<1>3. PICK o \in Objects : o = op.object
  BY <1>2
<1> DEFINE n == Tomb(o)
           x == TombTemp(o)
           e == Put(tombsDir, n, o)
           f == Remove(e, x)
<1>4. o \notin Reachable
  BY <1>0, <1>1, <1>3 DEF TombInHand
<1>5. /\ UNCHANGED <<roots, spool, mode, visible, broken, orphans, tombs, verified, kills, told, recorded>>
      /\ tombsDir.now[n] = None
  BY <1>3 DEF TombstoneRename, memoryVars, obsVars
<1>6. \/ tombsDir' = f /\ op' = [at |-> "tombSync", object |-> o] /\ UNCHANGED faults
      \/ Spend(1) /\ tombsDir' \in {tombsDir, f} /\ op' = [at |-> "tombRollback", object |-> o]
  <2>1. /\ [op EXCEPT !.at = "tombSync"] = [at |-> "tombSync", object |-> o]
        /\ [op EXCEPT !.at = "tombRollback"] = [at |-> "tombRollback", object |-> o]
    BY <1>2, <1>3
  <2> QED
    BY <1>3, <2>1 DEF TombstoneRename
<1>7. /\ o \in Values /\ None \in Values /\ n \in TombNames /\ x \in TombNames /\ n # x
      /\ IsDir(tombsDir, TombNames) /\ o # None
  BY <1>0, NamesDiffer, PublicationAssumption DEF Values, DirsOK
<1>8. o \notin recorded
  BY <1>0, <1>5, <1>7 DEF TombInv, IsDir
<1>9. Touched(tombsDir, e, {n}, TombNames)
  BY <1>7, PutDir
<1>10. e.now[n] = o
  BY <1>7, PutValue
<1> HIDE DEF e, n, x
<1>11. Touched(e, f, {x}, TombNames)
  <2>1. IsDir(e, TombNames)
    BY <1>9 DEF Touched
  <2> QED
    BY <1>7, <2>1, PutDir DEF Remove
<1>12. f.now[n] = o
  BY <1>7, <1>10, <1>11 DEF Touched, Keeps
<1>13. Touched(tombsDir, tombsDir', {Tomb(o), TombTemp(o), TombMark(o)}, TombNames)
  <2>1. Touched(tombsDir, f, {n} \union {x}, TombNames)
    BY <1>9, <1>11, TouchedTwice
  <2>2. Touched(tombsDir, f, {Tomb(o), TombTemp(o), TombMark(o)}, TombNames)
    BY <2>1, TouchedMore DEF n, x
  <2>3. Touched(tombsDir, tombsDir, {Tomb(o), TombTemp(o), TombMark(o)}, TombNames)
    BY <1>7, SameDir, TouchedMore
  <2> QED
    BY <1>6, <2>2, <2>3
<1> HIDE DEF f
<1>14. OpOK'
  <2>1. OpInMode' /\ SlotInHand'
    BY <1>2, <1>5, <1>6 DEF OpInMode, SlotInHand
  <2>2. o \notin Reachable'
    BY <1>4, <1>5, ReferencesKept
  <2>3. TombInHand'
    BY <1>5, <1>6, <1>8, <1>12, <2>2 DEF TombInHand, n
  <2> QED
    BY <2>1, <2>3 DEF OpOK
<1>15. faults' \in 0 .. MaxFaults
  <2>1. faults \in 0 .. MaxFaults
    BY <1>0 DEF MemoryOK
  <2> QED
    BY <1>6, <2>1, SpendOK
<1>16. /\ mode # "down" /\ mode' \in {mode, "poisoned"} /\ op.at \notin {"unlink", "rollback"}
       /\ UNCHANGED <<roots, spool, visible, broken, tombs, verified, kills, told, recorded>>
       /\ orphans' \subseteq orphans \union {TombTemp(o)}
       /\ o \in recorded => Keeps(tombsDir, tombsDir', Tomb(o))
  BY <1>1, <1>2, <1>5, <1>8
<1> QED
  BY <1>13, <1>14, <1>15, <1>16, TombStepQuiet

(* The synchronisation records the tombstone for good; no root reaches its  *)
(* object.                                                                  *)
LEMMA TombstoneSyncInv ==
  ASSUME PubInv, TombstoneSync
  PROVE  PubInv'
<1>0. DirsOK /\ MemoryOK /\ AdmittedIsWhole /\ TombInHand
  BY DEF PubInv, OpOK
<1>1. op.at = "tombSync"
  BY DEF TombstoneSync, At
<1>2. op.object \in Objects /\ op = [at |-> "tombSync", object |-> op.object] /\ mode = "live"
  BY <1>1, TombOpFacts
<1>3. PICK o \in Objects : o = op.object
  BY <1>2
<1>4. o \notin Reachable /\ o \notin recorded /\ tombsDir.now[Tomb(o)] = o
  BY <1>0, <1>1, <1>3 DEF TombInHand
<1>5. UNCHANGED <<roots, spool, visible, broken, orphans, verified, kills, told>>
  BY DEF TombstoneSync
<1>6. \/ /\ tombsDir' = Sync(tombsDir) /\ tombs' = tombs \union {o} /\ recorded' = recorded \union {o}
         /\ op' = Idle /\ UNCHANGED <<mode, faults>>
      \/ /\ Spend(1) /\ mode' = "poisoned" /\ op' = [at |-> "tombUndo", object |-> o]
         /\ UNCHANGED <<tombsDir, tombs, recorded>>
  <2>1. [op EXCEPT !.at = "tombUndo"] = [at |-> "tombUndo", object |-> o]
    BY <1>2, <1>3
  <2> QED
    BY <1>3, <2>1 DEF TombstoneSync
<1>7. /\ Tomb(o) \in TombNames /\ IsDir(tombsDir, TombNames) /\ faults \in 0 .. MaxFaults
  BY <1>0, NamesDiffer DEF DirsOK, MemoryOK
<1>8. Touched(tombsDir, tombsDir', {Tomb(o), TombTemp(o), TombMark(o)}, TombNames)
  <2>1. Touched(tombsDir, Sync(tombsDir), {}, TombNames)
    BY <1>7, SyncDir
  <2>2. Touched(tombsDir, tombsDir, {}, TombNames)
    BY <1>7, SameDir
  <2> QED
    BY <1>6, <2>1, <2>2, TouchedMore
<1>9. /\ mode # "down" /\ mode' \in {mode, "poisoned"} /\ op.at \notin {"unlink", "rollback"}
      /\ UNCHANGED <<roots, spool, visible, broken, verified, kills, told>>
      /\ orphans' \subseteq orphans \union {TombTemp(o)}
  BY <1>1, <1>2, <1>5, <1>6
<1>10. CASE /\ tombsDir' = Sync(tombsDir) /\ tombs' = tombs \union {o} /\ recorded' = recorded \union {o}
            /\ op' = Idle /\ UNCHANGED <<mode, faults>>
  <2>1. tombsDir'.may[Tomb(o)] = {o}
    BY <1>4, <1>7, <1>10, SyncDir
  <2>2. TombInv(o)'
    BY <1>10, <2>1 DEF TombInv, Tomb
  <2>3. AdmittedIsWhole'
    <3>1. HeldRoots' = HeldRoots
      BY <1>5 DEF HeldRoots, HeldSlots, Held
    <3>2. Whole(HeldRoots, verified \ tombs) /\ RootsTyped
      BY <1>0, <1>2, AdmittedMeans DEF MemoryOK
    <3>3. \A r \in HeldRoots : Closure(HeldRoots, r) \subseteq Reachable
      BY <3>2, ReachableIsAll
    <3>4. Whole(HeldRoots, verified' \ tombs')
      BY <1>4, <1>5, <1>10, <3>2, <3>3 DEF Whole
    <3> QED
      BY <3>1, <3>4, AdmittedMeansNext
  <2>4. OpOK'
    BY <1>10, IdleOK
  <2>5. /\ tombs' \in {tombs, tombs \union {o}} /\ recorded' \in {recorded, recorded \union {o}}
        /\ faults' \in 0 .. MaxFaults
    BY <1>7, <1>10
  <2> QED
    BY <1>8, <1>9, <2>2, <2>3, <2>4, <2>5, TombStep
<1>11. CASE /\ Spend(1) /\ mode' = "poisoned" /\ op' = [at |-> "tombUndo", object |-> o]
            /\ UNCHANGED <<tombsDir, tombs, recorded>>
  <2>1. OpOK'
    BY <1>4, <1>11 DEF OpOK, OpInMode, SlotInHand, TombInHand
  <2>2. faults' \in 0 .. MaxFaults
    BY <1>7, <1>11, SpendOK
  <2>3. /\ UNCHANGED <<roots, spool, visible, broken, tombs, verified, kills, told, recorded>>
        /\ o \in recorded => Keeps(tombsDir, tombsDir', Tomb(o))
    BY <1>4, <1>9, <1>11
  <2> QED
    BY <1>8, <1>9, <2>1, <2>2, <2>3, TombStepQuiet
<1> QED
  BY <1>6, <1>10, <1>11

(* A tombstone that was not recorded is taken back.                         *)
LEMMA TombstoneUndoInv ==
  ASSUME PubInv, TombstoneUndo
  PROVE  PubInv'
<1>0. DirsOK /\ MemoryOK /\ TombInHand
  BY DEF PubInv, OpOK
<1>1. op.at \in {"tombUndo", "tombRollback"}
  BY DEF TombstoneUndo, At
<1>2. op.object \in Objects /\ op = [at |-> op.at, object |-> op.object] /\ mode \in {"live", "poisoned"}
  BY <1>1, TombOpFacts
<1>3. PICK o \in Objects : o = op.object
  BY <1>2
<1> DEFINE n == Tomb(o)
           x == TombTemp(o)
<1>4. o \notin recorded
  BY <1>0, <1>1, <1>3 DEF TombInHand
<1>5. UNCHANGED <<roots, spool, visible, broken, tombs, verified, faults, kills, told, recorded>>
  BY DEF TombstoneUndo, boundVars, obsVars
<1>6. PICK u \in Undone(tombsDir, n) :
        \/ tombsDir' = u.dir /\ op' = Idle /\ UNCHANGED <<mode, orphans>>
        \/ /\ \E r \in RemoveTemp(u.dir, x) : tombsDir' = r.dir /\ orphans' = orphans \union r.orphan
           /\ op' = Idle /\ UNCHANGED mode
        \/ /\ tombsDir' = u.dir /\ mode' = "poisoned" /\ op' = [at |-> "tombMark", object |-> o]
           /\ UNCHANGED orphans
  <2>1. [op EXCEPT !.at = "tombMark"] = [at |-> "tombMark", object |-> o]
    <3>1. PICK a : a = op.at
      OBVIOUS
    <3>2. op = [at |-> a, object |-> o]
      BY <1>2, <1>3, <3>1
    <3> QED
      BY <3>2
  <2> QED
    BY <1>3, <2>1 DEF TombstoneUndo
<1>7. /\ n \in TombNames /\ x \in TombNames /\ IsDir(tombsDir, TombNames) /\ faults \in 0 .. MaxFaults
  BY <1>0, NamesDiffer DEF DirsOK, MemoryOK
<1> HIDE DEF n, x
<1>8. Touched(tombsDir, u.dir, {n}, TombNames)
  BY <1>7, UndoneDir
<1>9. /\ Touched(tombsDir, tombsDir', {n, x}, TombNames)
      /\ orphans' \subseteq orphans \union {x} /\ mode' \in {mode, "poisoned"}
      /\ \/ op' = Idle
         \/ mode' = "poisoned" /\ op' = [at |-> "tombMark", object |-> o]
  <2>1. CASE tombsDir' = u.dir /\ op' = Idle /\ UNCHANGED <<mode, orphans>>
    <3>1. Touched(tombsDir, tombsDir', {n, x}, TombNames)
      BY <1>8, <2>1, TouchedMore
    <3> QED
      BY <2>1, <3>1
  <2>2. CASE /\ \E r \in RemoveTemp(u.dir, x) : tombsDir' = r.dir /\ orphans' = orphans \union r.orphan
             /\ op' = Idle /\ UNCHANGED mode
    <3>1. PICK r \in RemoveTemp(u.dir, x) : tombsDir' = r.dir /\ orphans' = orphans \union r.orphan
      BY <2>2
    <3>2. IsDir(u.dir, TombNames)
      BY <1>8 DEF Touched
    <3>3. Touched(u.dir, r.dir, {x}, TombNames) /\ r.orphan \subseteq {x}
      BY <1>7, <3>2, RemoveTempDir
    <3>4. Touched(tombsDir, tombsDir', {n} \union {x}, TombNames)
      BY <1>8, <3>1, <3>3, TouchedTwice
    <3>5. Touched(tombsDir, tombsDir', {n, x}, TombNames)
      BY <3>4, TouchedMore
    <3> QED
      BY <2>2, <3>1, <3>3, <3>5
  <2>3. CASE /\ tombsDir' = u.dir /\ mode' = "poisoned" /\ op' = [at |-> "tombMark", object |-> o]
             /\ UNCHANGED orphans
    <3>1. Touched(tombsDir, tombsDir', {n, x}, TombNames)
      BY <1>8, <2>3, TouchedMore
    <3> QED
      BY <2>3, <3>1
  <2> QED
    BY <1>6, <2>1, <2>2, <2>3
<1>10. Touched(tombsDir, tombsDir', {Tomb(o), TombTemp(o), TombMark(o)}, TombNames)
  BY <1>9, TouchedMore DEF n, x
<1>11. OpOK'
  <2>1. CASE op' = Idle
    BY <2>1, IdleOK
  <2>2. CASE mode' = "poisoned" /\ op' = [at |-> "tombMark", object |-> o]
    BY <1>4, <1>5, <2>2 DEF OpOK, OpInMode, SlotInHand, TombInHand
  <2> QED
    BY <1>9, <2>1, <2>2
<1>12. /\ mode # "down" /\ op.at \notin {"unlink", "rollback"} /\ mode' \in {mode, "poisoned"}
       /\ UNCHANGED <<roots, spool, visible, broken, tombs, verified, kills, told, recorded>>
       /\ orphans' \subseteq orphans \union {TombTemp(o)} /\ faults' \in 0 .. MaxFaults
       /\ o \in recorded => Keeps(tombsDir, tombsDir', Tomb(o))
  BY <1>1, <1>2, <1>4, <1>5, <1>7, <1>9 DEF x
<1> QED
  BY <1>10, <1>11, <1>12, TombStepQuiet

(* Marking a tombstone that was not recorded.                               *)
LEMMA TombstoneMarkInv ==
  ASSUME PubInv, TombstoneMark
  PROVE  PubInv'
<1>0. DirsOK /\ MemoryOK /\ TombInHand
  BY DEF PubInv, OpOK
<1>1. op.at = "tombMark"
  BY DEF TombstoneMark, At
<1>2. op.object \in Objects /\ op = [at |-> "tombMark", object |-> op.object] /\ mode = "poisoned"
  BY <1>1, TombOpFacts
<1>3. PICK o \in Objects : o = op.object
  BY <1>2
<1>4. o \notin recorded
  BY <1>0, <1>1, <1>3 DEF TombInHand
<1>5. UNCHANGED <<roots, spool, mode, visible, broken, orphans, tombs, verified, faults, kills, told, recorded>>
  BY DEF TombstoneMark, memoryVars, boundVars, obsVars
<1>6. PICK k \in WriteMarker(tombsDir, TombMark(o)) :
        tombsDir' = k.dir /\ (op' = Idle \/ op' = [at |-> "tombSpoil", object |-> o])
  <2>1. [op EXCEPT !.at = "tombSpoil"] = [at |-> "tombSpoil", object |-> o]
    BY <1>2, <1>3
  <2> QED
    BY <1>3, <2>1 DEF TombstoneMark
<1>7. TombMark(o) \in TombNames /\ IsDir(tombsDir, TombNames)
  BY <1>0, NamesDiffer DEF DirsOK
<1>8. Touched(tombsDir, tombsDir', {TombMark(o)}, TombNames)
  BY <1>6, <1>7, WriteMarkerDir
<1>9. Touched(tombsDir, tombsDir', {Tomb(o), TombTemp(o), TombMark(o)}, TombNames)
  BY <1>8, TouchedMore
<1>10. OpOK'
  <2>1. CASE op' = Idle
    BY <2>1, IdleOK
  <2>2. CASE op' = [at |-> "tombSpoil", object |-> o]
    BY <1>2, <1>4, <1>5, <2>2 DEF OpOK, OpInMode, SlotInHand, TombInHand
  <2> QED
    BY <1>6, <2>1, <2>2
<1>11. /\ mode # "down" /\ op.at \notin {"unlink", "rollback"} /\ mode' \in {mode, "poisoned"}
       /\ UNCHANGED <<roots, spool, visible, broken, tombs, verified, kills, told, recorded>>
       /\ orphans' \subseteq orphans \union {TombTemp(o)} /\ faults' \in 0 .. MaxFaults
       /\ o \in recorded => Keeps(tombsDir, tombsDir', Tomb(o))
  BY <1>0, <1>1, <1>2, <1>4, <1>5 DEF MemoryOK
<1> QED
  BY <1>9, <1>10, <1>11, TombStepQuiet

(* Overwriting a record that is still there.                                *)
LEMMA SpoiledDir ==
  ASSUME NEW N, NEW d, IsDir(d, N), NEW n \in N, NEW o, o # d.now[n]
  PROVE  Touched(d, [d EXCEPT !.may[n] = @ \ {o}], {n}, N)
<1> DEFINE e == [d EXCEPT !.may[n] = @ \ {o}]
<1>0. /\ d.now \in [N -> Values] /\ d.may \in [N -> SUBSET Values]
      /\ \A x \in N : d.now[x] \in d.may[x]
      /\ d = [now |-> d.now, may |-> d.may]
  BY DEF IsDir
<1>1. e.now = d.now /\ e.may = [d.may EXCEPT ![n] = d.may[n] \ {o}] /\ e = [now |-> e.now, may |-> e.may]
  <2> DEFINE m == [d.may EXCEPT ![n] = d.may[n] \ {o}]
  <2>1. e = [d EXCEPT !.may = m]
    OBVIOUS
  <2> HIDE DEF e, m
  <2>2. e.now = d.now /\ e.may = m /\ e = [now |-> e.now, may |-> e.may]
    BY <1>0, <2>1
  <2> QED
    BY <2>2 DEF m
<1> HIDE DEF e
<1>2. e.may[n] = d.may[n] \ {o} /\ \A x \in N \ {n} : e.may[x] = d.may[x]
  BY <1>0, <1>1
<1>3. e.may \in [N -> SUBSET Values]
  BY <1>0, <1>1
<1>4. e \in [now : [N -> Values], may : [N -> SUBSET Values]]
  BY <1>0, <1>1, <1>3
<1>5. \A x \in N : e.now[x] \in e.may[x]
  BY <1>0, <1>1, <1>2
<1>6. \A x \in N \ {n} : Keeps(d, e, x)
  BY <1>1, <1>2 DEF Keeps, Firm
<1> QED
  BY <1>4, <1>5, <1>6 DEF Touched, IsDir, e

(* Spoiling a tombstone that was not recorded.                              *)
LEMMA TombstoneSpoilInv ==
  ASSUME PubInv, TombstoneSpoil
  PROVE  PubInv'
<1>0. DirsOK /\ MemoryOK /\ TombInHand
  BY DEF PubInv, OpOK
<1>1. op.at = "tombSpoil"
  BY DEF TombstoneSpoil, At
<1>2. op.object \in Objects /\ mode = "poisoned"
  BY <1>1, TombOpFacts
<1>3. PICK o \in Objects : o = op.object
  BY <1>2
<1> DEFINE n == Tomb(o)
           e == Put(tombsDir, n, Torn)
<1>4. o \notin recorded
  BY <1>0, <1>1, <1>3 DEF TombInHand
<1>5. /\ UNCHANGED <<roots, spool, mode, visible, broken, orphans, tombs, verified, faults, kills, told, recorded>>
      /\ op' = Idle
  BY DEF TombstoneSpoil, memoryVars, boundVars, obsVars
<1>6. tombsDir' \in {tombsDir, e, [e EXCEPT !.may[n] = @ \ {o}]}
  BY <1>3 DEF TombstoneSpoil
<1>7. n \in TombNames /\ IsDir(tombsDir, TombNames) /\ Torn \in Values /\ o # Torn
  BY <1>0, NamesDiffer, PublicationAssumption DEF DirsOK, Values
<1>8. Touched(tombsDir, e, {n}, TombNames)
  BY <1>7, PutDir
<1>9. e.now[n] = Torn
  BY <1>7, PutValue
<1> HIDE DEF e, n
<1>10. Touched(tombsDir, tombsDir', {n}, TombNames)
  <2>1. IsDir(e, TombNames)
    BY <1>8 DEF Touched
  <2>2. Touched(e, [e EXCEPT !.may[n] = @ \ {o}], {n}, TombNames)
    BY <1>7, <1>9, <2>1, SpoiledDir
  <2>3. Touched(tombsDir, [e EXCEPT !.may[n] = @ \ {o}], {n} \union {n}, TombNames)
    BY <1>8, <2>2, TouchedTwice
  <2>4. Touched(tombsDir, [e EXCEPT !.may[n] = @ \ {o}], {n}, TombNames)
    BY <2>3, TouchedMore
  <2>5. Touched(tombsDir, tombsDir, {n}, TombNames)
    BY <1>7, SameDir, TouchedMore
  <2> QED
    BY <1>6, <1>8, <2>4, <2>5
<1>11. Touched(tombsDir, tombsDir', {Tomb(o), TombTemp(o), TombMark(o)}, TombNames)
  BY <1>10, TouchedMore DEF n
<1>12. OpOK'
  BY <1>5, IdleOK
<1>13. /\ mode # "down" /\ op.at \notin {"unlink", "rollback"} /\ mode' \in {mode, "poisoned"}
       /\ UNCHANGED <<roots, spool, visible, broken, tombs, verified, kills, told, recorded>>
       /\ orphans' \subseteq orphans \union {TombTemp(o)} /\ faults' \in 0 .. MaxFaults
       /\ o \in recorded => Keeps(tombsDir, tombsDir', Tomb(o))
  BY <1>0, <1>1, <1>2, <1>4, <1>5 DEF MemoryOK
<1> QED
  BY <1>11, <1>12, <1>13, TombStepQuiet

-----------------------------------------------------------------------------
(* Orphans, death, power loss and reopening.                                *)

(* A step between operations that takes temporary records away.             *)
LEMMA DiscardStep ==
  ASSUME PubInv, op = Idle, DirsOK',
         UNCHANGED <<spool, mode, op, visible, broken, tombs, verified, kills, told, recorded>>,
         \A s \in Slots : Keeps(roots, roots', RootRecord(s)) /\ Keeps(roots, roots', RootMark(s)),
         \A o \in Objects : Keeps(tombsDir, tombsDir', Tomb(o)),
         orphans' \subseteq orphans, faults' \in 0 .. MaxFaults
  PROVE  PubInv'
<1>0. /\ DirsOK /\ MemoryOK /\ AdmittedIsWhole
      /\ (\A s \in Slots : SlotInv(s)) /\ (\A o \in recorded : TombInv(o))
  BY DEF PubInv
<1>1. MemoryOK' /\ RootsTyped /\ RootsTyped'
  BY <1>0 DEF MemoryOK, RootsTyped
<1>2. \A s \in Slots : SlotInv(s)'
  <2>1. \A s \in Slots : ~InHand(s)
    BY DEF InHand, Idle
  <2> QED
    BY <1>0, <2>1, SlotKept
<1>3. \A o \in recorded' : TombInv(o)'
  <2>1. recorded \subseteq Objects /\ IsDir(tombsDir', TombNames) /\ (mode' = "live" => mode = "live")
    BY <1>0 DEF MemoryOK, DirsOK
  <2>2. UNCHANGED <<recorded, tombs>>
    OBVIOUS
  <2> QED
    BY <1>0, <2>1, <2>2, TombsKept
<1>4. AdmittedIsWhole'
  BY <1>0, <1>1, WholeKept
<1>5. OpOK'
  BY IdleOK
<1> QED
  BY <1>1, <1>2, <1>3, <1>4, <1>5 DEF PubInv

(* Removing temporary records, and perhaps synchronising.                   *)
LEMMA TempsRemoved ==
  ASSUME NEW N, NEW d, IsDir(d, N), NEW T, \A n \in T : n[2] = "tmp",
         NEW e \in {RemoveAll(d, T), Sync(RemoveAll(d, T))}
  PROVE  IsDir(e, N) /\ \A n \in N : n[2] # "tmp" => Keeps(d, e, n)
<1> DEFINE r == RemoveAll(d, T)
<1>1. Touched(d, r, T, N)
  BY RemoveAllDir
<1> HIDE DEF r
<1>2. IsDir(r, N)
  BY <1>1 DEF Touched
<1>3. Touched(r, Sync(r), {}, N)
  BY <1>2, SyncDir
<1>4. Touched(d, Sync(r), T \union {}, N)
  BY <1>1, <1>3, TouchedTwice
<1>5. Touched(d, Sync(r), T, N)
  BY <1>4, TouchedMore
<1>6. Touched(d, e, T, N)
  BY <1>1, <1>5 DEF r
<1> QED
  BY <1>6 DEF Touched

(* Orphans are discarded.                                                   *)
LEMMA DiscardTempsInv ==
  ASSUME PubInv, DiscardTemps
  PROVE  PubInv'
<1>0. DirsOK /\ MemoryOK
  BY DEF PubInv
<1>1. /\ op = Idle
      /\ UNCHANGED <<spool, mode, op, visible, broken, tombs, verified, kills, told, recorded>>
  BY DEF DiscardTemps, obsVars
<1>2. \E T \in SUBSET orphans :
        /\ roots' \in {RemoveAll(roots, T), Sync(RemoveAll(roots, T))}
        /\ tombsDir' \in {RemoveAll(tombsDir, T), Sync(RemoveAll(tombsDir, T))}
        /\ orphans' \subseteq orphans /\ \E i \in {0, 1} : Spend(i)
  <2>1. CASE \E stop \in 0 .. 2 :
               LET r == RemoveAll(roots, orphans)
                   t == RemoveAll(tombsDir, orphans) IN
               /\ Spend(IF stop = 2 THEN 0 ELSE 1)
               /\ roots' = IF stop >= 1 THEN Sync(r) ELSE r
               /\ tombsDir' = IF stop = 2 THEN Sync(t) ELSE t
               /\ orphans' = {}
    <3>1. /\ roots' \in {RemoveAll(roots, orphans), Sync(RemoveAll(roots, orphans))}
          /\ tombsDir' \in {RemoveAll(tombsDir, orphans), Sync(RemoveAll(tombsDir, orphans))}
          /\ orphans' \subseteq orphans
      BY <2>1
    <3>2. \E i \in {0, 1} : Spend(i)
      BY <2>1
    <3> QED
      BY <3>1, <3>2
  <2>2. CASE \E gone \in SUBSET orphans : \E last \in orphans \ gone :
             \E effect \in {gone, gone \union {last}} :
               /\ Spend(1)
               /\ roots' = RemoveAll(roots, effect)
               /\ tombsDir' = RemoveAll(tombsDir, effect)
               /\ orphans' = orphans \ gone
    <3>1. PICK gone \in SUBSET orphans : \E last \in orphans \ gone :
             \E effect \in {gone, gone \union {last}} :
               /\ Spend(1)
               /\ roots' = RemoveAll(roots, effect)
               /\ tombsDir' = RemoveAll(tombsDir, effect)
               /\ orphans' = orphans \ gone
      BY <2>2
    <3>2. PICK effect \in SUBSET orphans :
               /\ Spend(1)
               /\ roots' = RemoveAll(roots, effect)
               /\ tombsDir' = RemoveAll(tombsDir, effect)
               /\ orphans' = orphans \ gone
      BY <3>1
    <3> QED
      BY <3>2
  <2> QED
    BY <2>1, <2>2 DEF DiscardTemps
<1>3. PICK T \in SUBSET orphans :
        /\ roots' \in {RemoveAll(roots, T), Sync(RemoveAll(roots, T))}
        /\ tombsDir' \in {RemoveAll(tombsDir, T), Sync(RemoveAll(tombsDir, T))}
        /\ orphans' \subseteq orphans /\ \E i \in {0, 1} : Spend(i)
  BY <1>2
<1>4. \A n \in T : n[2] = "tmp"
  BY <1>0 DEF MemoryOK
<1>5. IsDir(roots, RootNames) /\ IsDir(tombsDir, TombNames)
  BY <1>0 DEF DirsOK
<1>6. IsDir(roots', RootNames) /\ \A n \in RootNames : n[2] # "tmp" => Keeps(roots, roots', n)
  BY <1>3, <1>4, <1>5, TempsRemoved
<1>7. IsDir(tombsDir', TombNames) /\ \A n \in TombNames : n[2] # "tmp" => Keeps(tombsDir, tombsDir', n)
  BY <1>3, <1>4, <1>5, TempsRemoved
<1>8. /\ \A s \in Slots : Keeps(roots, roots', RootRecord(s)) /\ Keeps(roots, roots', RootMark(s))
      /\ \A o \in Objects : Keeps(tombsDir, tombsDir', Tomb(o))
  BY <1>6, <1>7, NamesDiffer
<1>9. faults' \in 0 .. MaxFaults
  <2>1. faults \in 0 .. MaxFaults
    BY <1>0 DEF MemoryOK
  <2> QED
    BY <1>3, <2>1, SpendOK
<1>10. DirsOK'
  BY <1>6, <1>7 DEF DirsOK
<1> QED
  BY <1>1, <1>3, <1>8, <1>9, <1>10, DiscardStep

(* One orphan is discarded.                                                 *)
LEMMA DiscardRootTempForInv ==
  ASSUME PubInv, NEW s \in Slots, NEW m \in Manifests, DiscardRootTempFor(s, m)
  PROVE  PubInv'
<1>0. DirsOK /\ MemoryOK
  BY DEF PubInv
<1>1. /\ op = Idle
      /\ UNCHANGED <<tombsDir, spool, mode, op, visible, broken, tombs, verified, kills, told, recorded>>
  BY DEF DiscardRootTempFor, obsVars
<1>2. PICK r \in RemoveTemp(roots, RootTemp(s)) :
        /\ Spend(r.fault) /\ roots' = r.dir
        /\ orphans' = IF r.fault = 0 THEN orphans \ {RootTemp(s)} ELSE orphans
  BY DEF DiscardRootTempFor
<1>3. Touched(roots, roots', {RootTemp(s)}, RootNames) /\ r.fault \in {0, 1}
  <2>1. RootTemp(s) \in RootNames /\ IsDir(roots, RootNames)
    BY <1>0, NamesDiffer DEF DirsOK
  <2>2. Touched(roots, r.dir, {RootTemp(s)}, RootNames) /\ r.fault \in {0, 1}
    BY <2>1, RemoveTempDir
  <2> QED
    BY <1>2, <2>2
<1>4. \A t \in Slots : Keeps(roots, roots', RootRecord(t)) /\ Keeps(roots, roots', RootMark(t))
  BY <1>3, NamesDiffer DEF Touched
<1>5. \A o \in Objects : Keeps(tombsDir, tombsDir', Tomb(o))
  BY <1>1 DEF Keeps
<1>6. faults' \in 0 .. MaxFaults
  BY <1>0, <1>2, <1>3, SpendOK DEF MemoryOK
<1>7. DirsOK' /\ orphans' \subseteq orphans
  BY <1>0, <1>1, <1>2, <1>3 DEF DirsOK, Touched
<1>8. UNCHANGED <<spool, mode, op, visible, broken, tombs, verified, kills, told, recorded>>
  BY <1>1
<1> QED
  BY <1>1, <1>4, <1>5, <1>6, <1>7, <1>8, DiscardStep

(* An instance that is not live serves nothing wrong.                       *)
LEMMA WholeWhenDown == mode' # "live" => AdmittedIsWhole'
  BY DEF AdmittedIsWhole

(* The process dies.                                                        *)
LEMMA KillInv ==
  ASSUME PubInv, Kill
  PROVE  PubInv'
<1>0. DirsOK /\ MemoryOK /\ (\A s \in Slots : SlotInv(s)) /\ (\A o \in recorded : TombInv(o))
  BY DEF PubInv
<1>1. /\ kills < MaxKills /\ kills' = kills + 1 /\ mode' = "down" /\ op' = Idle
      /\ visible' = [s \in Slots |-> NoRoot]
      /\ broken' = {} /\ orphans' = {} /\ tombs' = {} /\ verified' = {}
      /\ UNCHANGED <<roots, tombsDir, spool, faults, told, recorded>>
  BY DEF Kill, Forgotten, diskVars, obsVars
<1>2. kills' \in 0 .. MaxKills
  BY <1>0, <1>1, PublicationAssumption DEF MemoryOK
<1>3. RootsTyped' /\ \A s \in Slots : ~Held(s)' /\ ~visible'[s].durable
  <2>1. NoRoot \in [root : Manifests \union {None}, durable : BOOLEAN] /\ NoRoot.root = None /\ ~NoRoot.durable
    BY DEF NoRoot
  <2> QED
    BY <1>1, <2>1 DEF RootsTyped, Held
<1>4. DirsOK' /\ MemoryOK'
  BY <1>0, <1>1, <1>2, <1>3 DEF DirsOK, MemoryOK
<1>5. \A s \in Slots : SlotInv(s)'
  BY <1>0, <1>1, <1>3 DEF SlotInv, RootRecord, RootMark
<1>6. \A o \in recorded' : TombInv(o)'
  BY <1>0, <1>1 DEF TombInv, Tomb
<1>7. OpOK' /\ AdmittedIsWhole'
  BY <1>1, IdleOK, WholeWhenDown
<1> QED
  BY <1>4, <1>5, <1>6, <1>7 DEF PubInv

(* The power fails: what was told is still so.                              *)
LEMMA LosePowerInv ==
  ASSUME PubInv, LosePower
  PROVE  PubInv'
<1>0. DirsOK /\ MemoryOK /\ (\A s \in Slots : SlotInv(s)) /\ (\A o \in recorded : TombInv(o)) /\ OpInMode
  BY DEF PubInv, OpOK
<1>1. /\ mode = "down" /\ roots' \in AfterPowerLoss(roots) /\ tombsDir' \in AfterPowerLoss(tombsDir)
      /\ UNCHANGED <<spool, mode, op, visible, broken, orphans, tombs, verified, faults, kills, told, recorded>>
  BY DEF LosePower, memoryVars, boundVars, obsVars
<1>2. op = Idle
  BY <1>0, <1>1 DEF OpInMode
<1>3. IsDir(roots, RootNames) /\ IsDir(tombsDir, TombNames)
  BY <1>0 DEF DirsOK
<1>4. /\ IsDir(roots', RootNames)
      /\ \A n \in RootNames : roots'.now[n] \in roots.may[n] /\ roots'.may[n] = {roots'.now[n]}
  BY <1>1, <1>3, PowerLossDir
<1>5. /\ IsDir(tombsDir', TombNames)
      /\ \A n \in TombNames : tombsDir'.now[n] \in tombsDir.may[n] /\ tombsDir'.may[n] = {tombsDir'.now[n]}
  BY <1>1, <1>3, PowerLossDir
<1>6. DirsOK' /\ MemoryOK'
  BY <1>0, <1>1, <1>4, <1>5 DEF DirsOK, MemoryOK, RootsTyped
<1>7. ASSUME NEW s \in Slots PROVE SlotInv(s)'
  <2>1. RootRecord(s) \in RootNames /\ RootMark(s) \in RootNames
    BY NamesDiffer
  <2>2. SlotInv(s) /\ ~Held(s) /\ ~visible[s].durable
    BY <1>0, <1>1 DEF SlotInv
  <2>3. ~Held(s)' /\ ~visible'[s].durable /\ mode' = "down" /\ told'[s] = told[s]
    BY <1>1, <2>2 DEF Held
  <2>4. /\ roots'.may[RootRecord(s)] \subseteq Manifests \union {None}
        /\ roots'.may[RootMark(s)] \subseteq {None, Torn}
    BY <1>4, <2>1, <2>2 DEF SlotInv
  <2>5. /\ told[s].says = "durable" => roots'.may[RootRecord(s)] = {told[s].root}
        /\ told[s].says = "absent" => roots'.may[RootRecord(s)] = {None}
        /\ told[s].says = "marked" => roots'.may[RootMark(s)] = {Torn}
    BY <1>4, <2>1, <2>2 DEF SlotInv
  <2> QED
    BY <2>3, <2>4, <2>5 DEF SlotInv, RootRecord, RootMark
<1>8. ASSUME NEW o \in recorded' PROVE TombInv(o)'
  <2>1. o \in recorded /\ Tomb(o) \in TombNames
    BY <1>0, <1>1, NamesDiffer DEF MemoryOK
  <2>2. tombsDir'.may[Tomb(o)] = {o}
    BY <1>0, <1>5, <2>1 DEF TombInv
  <2> QED
    BY <1>1, <2>2 DEF TombInv, Tomb
<1>9. OpOK' /\ AdmittedIsWhole'
  BY <1>1, <1>2, IdleOK, WholeWhenDown
<1> QED
  BY <1>6, <1>7, <1>8, <1>9 DEF PubInv

(* A root and its durability.                                               *)
LEMMA RootRead ==
  ASSUME NEW S, NEW T, NEW r \in S, NEW b \in T
  PROVE  /\ [root |-> r, durable |-> b] \in [root : S, durable : T]
         /\ [root |-> r, durable |-> b].root = r /\ [root |-> r, durable |-> b].durable = b
  OBVIOUS

(* Opening: what was answered before is what the new instance finds, what   *)
(* it admits is whole, and it knows every other record as broken.           *)
LEMMA OpenInv ==
  ASSUME PubInv, Open
  PROVE  PubInv'
<1>0. DirsOK /\ MemoryOK /\ (\A s \in Slots : SlotInv(s)) /\ (\A o \in recorded : TombInv(o)) /\ OpInMode
  BY DEF PubInv, OpOK
<1> DEFINE temps == {RootTemp(s) : s \in {t \in Slots : roots.now[RootTemp(t)] # None}}
           redundant == {n \in temps : n[1] \in OnDisk}
           tombTemps == {TombTemp(o) : o \in {p \in Objects : tombsDir.now[TombTemp(p)] # None}}
<1>1. /\ mode = "down" /\ mode' = "live"
      /\ broken' = (OnDisk \ Admitted) \union {s \in Slots : roots.now[RootMark(s)] # None}
      /\ tombs' = EntombedOnDisk
      /\ verified' = (spool \ EntombedOnDisk) \intersect
           ({RecordOf(s) : s \in OnDisk}
            \union UNION {Closure({RecordOf(t) : t \in Candidates}, RecordOf(s)) : s \in Candidates})
      /\ UNCHANGED <<spool, op, kills, told, recorded>>
  BY DEF Open, obsVars
<1>2. PICK kept \in SUBSET redundant : \E rootsSynced, tombsSynced \in BOOLEAN :
        LET d == RemoveAll(roots, redundant \ kept) IN
        /\ Spend(IF kept = {} /\ rootsSynced /\ tombsSynced THEN 0 ELSE 1)
        /\ roots' = IF rootsSynced THEN Sync(d) ELSE d
        /\ tombsDir' = IF tombsSynced THEN Sync(tombsDir) ELSE tombsDir
        /\ orphans' = (temps \ (redundant \ kept)) \union tombTemps
        /\ visible' = [s \in Slots |-> Admit(s, rootsSynced)]
  BY DEF Open
<1>3. PICK synced \in BOOLEAN :
        /\ \E i \in {0, 1} : Spend(i)
        /\ roots' = IF synced THEN Sync(RemoveAll(roots, redundant \ kept))
                    ELSE RemoveAll(roots, redundant \ kept)
        /\ tombsDir' \in {tombsDir, Sync(tombsDir)}
        /\ orphans' \subseteq temps \union tombTemps
        /\ visible' = [s \in Slots |-> Admit(s, synced)]
  BY <1>2
<1> HIDE DEF temps, redundant, tombTemps
<1>4. /\ \A n \in temps : n \in RootNames /\ n[2] = "tmp"
      /\ \A n \in tombTemps : n \in TombNames /\ n[2] = "tmp"
      /\ redundant \subseteq temps
  BY NamesDiffer DEF temps, tombTemps, redundant
<1>5. IsDir(roots, RootNames) /\ IsDir(tombsDir, TombNames)
  BY <1>0 DEF DirsOK
<1>6. /\ IsDir(roots', RootNames) /\ \A n \in RootNames : n[2] # "tmp" => Keeps(roots, roots', n)
  <2> DEFINE T == redundant \ kept
  <2>1. \A n \in T : n[2] = "tmp"
    BY <1>4
  <2>2. roots' \in {RemoveAll(roots, T), Sync(RemoveAll(roots, T))}
    BY <1>3
  <2> HIDE DEF T
  <2> QED
    BY <1>5, <2>1, <2>2, TempsRemoved
<1>7. \A s \in Slots : Keeps(roots, roots', RootRecord(s)) /\ Keeps(roots, roots', RootMark(s))
  BY <1>6, NamesDiffer
<1>8. Touched(tombsDir, tombsDir', {}, TombNames)
  <2>1. Touched(tombsDir, Sync(tombsDir), {}, TombNames)
    BY <1>5, SyncDir
  <2>2. Touched(tombsDir, tombsDir, {}, TombNames)
    BY <1>5, SameDir
  <2> QED
    BY <1>3, <2>1, <2>2
<1>9. synced => \A s \in Slots : Firm(roots', RootRecord(s))
  <2>1. Touched(roots, RemoveAll(roots, redundant \ kept), redundant \ kept, RootNames)
    BY <1>5, RemoveAllDir
  <2> DEFINE d == RemoveAll(roots, redundant \ kept)
  <2> HIDE DEF d
  <2>2. IsDir(d, RootNames)
    BY <2>1 DEF Touched, d
  <2>3. \A n \in RootNames : Firm(Sync(d), n)
    BY <2>2, SyncDir DEF Firm
  <2>4. synced => roots' = Sync(d)
    BY <1>3 DEF d
  <2> QED
    BY <2>3, <2>4, NamesDiffer
<1>10. /\ \A s \in Slots : RecordOf(s) \in Manifests \union {None}
       /\ \A s \in OnDisk : RecordOf(s) \in Manifests /\ RecordOf(s) # None
       /\ OnDisk \subseteq Slots /\ Candidates \subseteq OnDisk /\ Admitted \subseteq Candidates
  <2>1. \A s \in Slots : roots.now[RootRecord(s)] \in roots.may[RootRecord(s)]
    BY <1>5, NamesDiffer DEF IsDir
  <2>2. \A s \in Slots : RecordOf(s) \in Manifests \union {None}
    BY <1>0, <2>1 DEF SlotInv, RecordOf
  <2> QED
    BY <2>2 DEF OnDisk, RecordOf, Candidates, Admitted
<1>11. ASSUME NEW s \in Slots
       PROVE  /\ visible'[s] \in [root : Manifests \union {None}, durable : BOOLEAN]
              /\ s \in Admitted => visible'[s].root = RecordOf(s) /\ visible'[s].durable = synced
              /\ s \notin Admitted => visible'[s].root = None /\ visible'[s].durable = FALSE
  <2>1. CASE s \in Admitted
    <3>1. visible'[s] = [root |-> RecordOf(s), durable |-> synced]
      BY <1>3, <2>1 DEF Admit
    <3>2. /\ [root |-> RecordOf(s), durable |-> synced] \in [root : Manifests \union {None}, durable : BOOLEAN]
          /\ [root |-> RecordOf(s), durable |-> synced].root = RecordOf(s)
          /\ [root |-> RecordOf(s), durable |-> synced].durable = synced
      BY <1>10, RootRead, Zenon
    <3> QED
      BY <2>1, <3>1, <3>2, Zenon
  <2>2. CASE s \notin Admitted
    <3>1. visible'[s] = NoRoot
      BY <1>3, <2>2 DEF Admit
    <3>2. NoRoot \in [root : Manifests \union {None}, durable : BOOLEAN] /\ NoRoot.root = None /\ NoRoot.durable = FALSE
      BY DEF NoRoot
    <3> QED
      BY <2>2, <3>1, <3>2, Zenon
  <2> QED
    BY <2>1, <2>2
<1>12. \A s \in Slots :
         /\ s \in Admitted => visible'[s].root = RecordOf(s) /\ (visible'[s].durable <=> synced) /\ Held(s)'
         /\ s \notin Admitted => visible'[s].root = None /\ ~visible'[s].durable /\ ~Held(s)'
  <2>1. \A s \in Slots : Held(s)' <=> visible'[s].root # None
    BY DEF Held
  <2> QED
    BY <1>10, <1>11, <2>1, Zenon
<1>13. RootsTyped'
  <2>1. visible' = [s \in Slots |-> visible'[s]]
    BY <1>3
  <2> QED
    BY <1>11, <2>1 DEF RootsTyped
<1>14. \A s \in Slots : SlotInv(s)'
  <2> SUFFICES ASSUME NEW s \in Slots PROVE SlotInv(s)'
    OBVIOUS
  <2> DEFINE n == RootRecord(s)
             k == RootMark(s)
  <2>0. SlotInv(s) /\ n \in RootNames /\ k \in RootNames
    BY <1>0, NamesDiffer
  <2>1. /\ roots'.now[n] = roots.now[n] /\ roots'.may[n] \subseteq roots.may[n]
        /\ roots'.may[k] \subseteq roots.may[k]
        /\ roots'.now[n] \in roots'.may[n] /\ roots'.now[k] \in roots'.may[k]
        /\ roots.now[k] \in roots.may[k]
    BY <1>5, <1>6, <1>7, <2>0 DEF Keeps, IsDir
  <2>2. /\ roots'.may[n] \subseteq Manifests \union {None} /\ roots'.may[k] \subseteq {None, Torn}
    BY <2>0, <2>1 DEF SlotInv
  <2>3. /\ told[s].says = "durable" => roots'.may[n] = {told[s].root}
        /\ told[s].says = "absent" => roots'.may[n] = {None}
        /\ told[s].says = "marked" => roots'.may[k] = {Torn} /\ roots.now[k] = Torn
    BY <2>0, <2>1 DEF SlotInv
  <2>4. roots.now[k] = Torn => s \notin Admitted /\ s \in broken'
    BY <1>1, <1>10, PublicationAssumption DEF Candidates
  <2>5. roots'.now[n] # None => Held(s)' \/ s \in broken'
    BY <1>1, <1>12, <2>1 DEF OnDisk
  <2>6. visible'[s].durable => Held(s)' /\ Firm(roots', n) /\ roots'.now[n] = visible'[s].root
    BY <1>9, <1>12, <2>1 DEF RecordOf
  <2>7. told'[s] = told[s] /\ mode' = "live"
    BY <1>1
  <2> HIDE DEF n, k
  <2>8. told'[s].says = "marked" => roots'.may[k] = {Torn} /\ ~Held(s)' /\ s \in broken'
    BY <1>12, <2>3, <2>4, <2>7
  <2> QED
    BY <2>2, <2>3, <2>5, <2>6, <2>7, <2>8 DEF SlotInv, n, k, RootRecord, RootMark, Firm
<1>15. \A o \in recorded' : TombInv(o)'
  <2> SUFFICES ASSUME NEW o \in recorded PROVE TombInv(o)'
    BY <1>1
  <2>1. o \in Objects /\ Tomb(o) \in TombNames /\ o # None
    BY <1>0, NamesDiffer, PublicationAssumption DEF MemoryOK
  <2>2. tombsDir.may[Tomb(o)] = {o}
    BY <1>0 DEF TombInv
  <2>3. tombsDir.now[Tomb(o)] = o
    BY <1>5, <2>1, <2>2 DEF IsDir
  <2>4. tombsDir'.may[Tomb(o)] = {o}
    BY <1>8, <2>1, <2>2 DEF Touched, Keeps, IsDir
  <2>5. o \in tombs'
    BY <1>1, <2>1, <2>3 DEF EntombedOnDisk
  <2> QED
    BY <2>4, <2>5 DEF TombInv, Tomb
<1>16. AdmittedIsWhole'
  <2>1. \A s \in Candidates : \A o \in Closure({RecordOf(t) : t \in Candidates}, RecordOf(s)) :
          ~Blocked(o) => o \in verified'
    BY <1>1 DEF Blocked
  <2>2. \A s \in OnDisk : RecordOf(s) \in Manifests
    BY <1>10
  <2>3. Whole({RecordOf(t) : t \in Admitted}, verified' \ EntombedOnDisk)
    BY <2>1, <2>2, OpenIsWhole
  <2>4. HeldRoots' = {RecordOf(t) : t \in Admitted}
    <3>1. HeldSlots' = Admitted
      BY <1>10, <1>12 DEF HeldSlots
    <3>2. \A s \in Admitted : visible'[s].root = RecordOf(s)
      BY <1>10, <1>12
    <3> QED
      BY <3>1, <3>2 DEF HeldRoots
  <2> QED
    BY <1>1, <2>3, <2>4, AdmittedMeansNext
<1>17. OpOK'
  <2>1. op = Idle
    BY <1>0, <1>1 DEF OpInMode
  <2> QED
    BY <1>1, <2>1, IdleOK
<1>18. faults' \in 0 .. MaxFaults
  <2>1. faults \in 0 .. MaxFaults
    BY <1>0 DEF MemoryOK
  <2> QED
    BY <1>3, <2>1, SpendOK
<1>19. DirsOK'
  BY <1>6, <1>8 DEF DirsOK, Touched
<1>20. MemoryOK'
  <2>1. /\ broken' \subseteq Slots /\ tombs' \subseteq Objects
        /\ verified' \subseteq spool
    BY <1>1, <1>10 DEF EntombedOnDisk
  <2>2. orphans' \subseteq RootNames \union TombNames /\ \A n \in orphans' : n[2] = "tmp"
    BY <1>3, <1>4
  <2> QED
    BY <1>0, <1>1, <1>13, <1>18, <2>1, <2>2 DEF MemoryOK
<1> QED
  BY <1>14, <1>15, <1>16, <1>17, <1>19, <1>20 DEF PubInv

-----------------------------------------------------------------------------
(* The invariant holds.                                                     *)

(* An empty directory is one.                                               *)
LEMMA EmptyIsDir ==
  ASSUME NEW N
  PROVE  /\ IsDir(EmptyDir(N), N)
         /\ \A n \in N : EmptyDir(N).now[n] = None /\ EmptyDir(N).may[n] = {None}
  BY DEF EmptyDir, IsDir, Values

(* It holds of a new store.                                                 *)
LEMMA InitInv == Init => PubInv
<1> SUFFICES ASSUME Init PROVE PubInv
  OBVIOUS
<1>1. /\ roots = EmptyDir(RootNames) /\ tombsDir = EmptyDir(TombNames)
      /\ spool = {} /\ mode = "live" /\ op = Idle /\ visible = [s \in Slots |-> NoRoot]
      /\ broken = {} /\ orphans = {} /\ tombs = {} /\ verified = {}
      /\ faults = 0 /\ kills = 0 /\ recorded = {}
      /\ told = [s \in Slots |-> [says |-> "absent", root |-> None]]
  BY DEF Init
<1>2. DirsOK
  BY <1>1, EmptyIsDir DEF DirsOK
<1>3. RootsTyped /\ \A s \in Slots : ~Held(s) /\ ~visible[s].durable
  BY <1>1 DEF RootsTyped, Held, NoRoot
<1>4. MemoryOK
  BY <1>1, <1>3, PublicationAssumption DEF MemoryOK
<1>5. OpOK
  BY <1>1 DEF OpOK, OpInMode, SlotInHand, TombInHand, Idle
<1>6. AdmittedIsWhole
  BY <1>3 DEF AdmittedIsWhole, HeldSlots
<1>7. \A s \in Slots : SlotInv(s)
  <2> SUFFICES ASSUME NEW s \in Slots PROVE SlotInv(s)
    OBVIOUS
  <2>1. /\ roots.may[RootRecord(s)] = {None} /\ roots.may[RootMark(s)] = {None}
        /\ roots.now[RootRecord(s)] = None
    BY <1>1, EmptyIsDir, NamesDiffer
  <2>2. told[s].says = "absent"
    BY <1>1
  <2> QED
    BY <1>1, <1>3, <2>1, <2>2 DEF SlotInv
<1> QED
  BY <1>1, <1>2, <1>4, <1>5, <1>6, <1>7 DEF PubInv

(* A step that changes nothing keeps it.                                    *)
LEMMA StutterInv ==
  ASSUME PubInv, UNCHANGED vars
  PROVE  PubInv'
<1>1. UNCHANGED <<roots, tombsDir, spool, mode, op, visible, broken, orphans, tombs, verified,
                  faults, kills, told, recorded>>
  BY DEF vars, diskVars, memoryVars, boundVars, obsVars
<1>2. DirsOK' /\ MemoryOK' /\ AdmittedIsWhole' /\ OpInMode'
  <2>1. DirsOK' /\ MemoryOK' /\ OpInMode'
    BY <1>1 DEF PubInv, OpOK, DirsOK, MemoryOK, RootsTyped, OpInMode
  <2>2. RootsTyped /\ RootsTyped' /\ AdmittedIsWhole
    BY <2>1 DEF PubInv, MemoryOK
  <2>3. AdmittedIsWhole'
    BY <1>1, <2>2, WholeKept
  <2> QED
    BY <2>1, <2>3
<1>3. Reachable' = Reachable /\ \A m : ReferencesOk(m)' <=> ReferencesOk(m)
  BY <1>1, ReferencesKept
<1>4. SlotInHand'
  <2>1. SlotInHand
    BY DEF PubInv, OpOK
  <2>2. \A s : Held(s)' <=> Held(s)
    BY <1>1 DEF Held
  <2> QED
    BY <1>1, <1>3, <2>1, <2>2 DEF SlotInHand, RootRecord, Firm
<1>5. TombInHand'
  BY <1>1, <1>3 DEF PubInv, OpOK, TombInHand, Tomb
<1>6. \A s \in Slots : SlotInv(s)'
  <2>1. \A s \in Slots : SlotInv(s) /\ (InHand(s) => InHand(s)')
    BY <1>1 DEF PubInv, InHand
  <2>2. \A n : Keeps(roots, roots', n)
    BY <1>1 DEF Keeps
  <2>3. DirsOK /\ DirsOK'
    BY <1>2 DEF PubInv
  <2> QED
    BY <1>1, <2>1, <2>2, <2>3, SlotKept
<1>7. \A o \in recorded' : TombInv(o)'
  BY <1>1 DEF PubInv, TombInv, Tomb
<1> QED
  BY <1>2, <1>4, <1>5, <1>6, <1>7 DEF PubInv, OpOK

(* Every step keeps it.                                                     *)
LEMMA NextInv ==
  ASSUME PubInv, [Next]_vars
  PROVE  PubInv'
<1>1. CASE UNCHANGED vars
  BY <1>1, StutterInv
<1>2. ASSUME NEW s \in Slots, NEW m \in Manifests, PublishBegin(s, m) \/ DiscardRootTempFor(s, m)
      PROVE  PubInv'
  BY <1>2, PublishBeginInv, DiscardRootTempForInv
<1>3. CASE PublishWrite \/ PublishCancel \/ PublishLink \/ PublishUnlink \/ PublishSync
           \/ PublishRollBack \/ PublishMark
  BY <1>3, PublishWriteInv, PublishCancelInv, PublishLinkInv, PublishUnlinkInv, PublishSyncInv,
     PublishRollBackInv, PublishMarkInv
<1>4. ASSUME NEW s \in Slots, Reverify(s) \/ RetractBegin(s)
      PROVE  PubInv'
  BY <1>4, ReverifyInv, RetractBeginInv
<1>5. CASE RetractSync
  BY <1>5, RetractSyncInv
<1>6. ASSUME NEW o \in Objects, StageObject(o) \/ DeleteObject(o) \/ TombstoneBegin(o)
      PROVE  PubInv'
  BY <1>6, StageObjectInv, DeleteObjectInv, TombstoneBeginInv
<1>10. Doomed \subseteq Objects
  BY PublicationAssumption
<1>7. CASE TombstoneWrite \/ TombstoneRename \/ TombstoneSync
           \/ TombstoneUndo \/ TombstoneMark \/ TombstoneSpoil
  BY <1>7, TombstoneWriteInv, TombstoneRenameInv, TombstoneSyncInv,
     TombstoneUndoInv, TombstoneMarkInv, TombstoneSpoilInv
<1>8. CASE DiscardTemps
  BY <1>8, DiscardTempsInv
<1>9. CASE Kill \/ LosePower \/ Open
  BY <1>9, KillInv, LosePowerInv, OpenInv
<1> QED
  BY <1>1, <1>2, <1>3, <1>4, <1>5, <1>6, <1>7, <1>8, <1>9, <1>10 DEF Next

(* The inductive invariant, in every reachable state.                       *)
LEMMA Inductive == Spec => []PubInv
<1>1. Init => PubInv
  BY InitInv
<1>2. PubInv /\ [Next]_vars => PubInv'
  BY NextInv
<1> QED
  BY <1>1, <1>2, PTL DEF Spec

(* The publisher's invariant: what an instance serves is whole, it knows    *)
(* every record, and a root it calls durable is one no power loss takes,    *)
(* whatever publications, retractions, tombstones and deletions happen,     *)
(* whichever file operations fail, and wherever the process dies.           *)
THEOREM Invariance == Spec => []PublicationInv
<1>1. PubInv => PublicationInv
  BY PubInvMeans
<1> QED
  BY <1>1, Inductive, PTL

(* What publish_cancellable and retract_root answered for certain survives  *)
(* every crash and power loss.                                              *)
THEOREM Answers == Spec => []AnswersSurvive
<1>1. PubInv => AnswersSurvive
  BY PubInvMeans
<1> QED
  BY <1>1, Inductive, PTL

(* A slot whose indeterminate marker was written is never served again, by  *)
(* any instance.                                                            *)
THEOREM Marked == Spec => []MarkedStaysBroken
<1>1. PubInv => MarkedStaysBroken
  BY PubInvMeans
<1> QED
  BY <1>1, Inductive, PTL

(* A recorded tombstone survives every power loss, and no instance serves a *)
(* root that reaches its object.                                            *)
THEOREM Recorded == Spec => []RecordedBlocks
<1>1. PubInv => RecordedBlocks
  BY PubInvMeans
<1> QED
  BY <1>1, Inductive, PTL
=============================================================================
