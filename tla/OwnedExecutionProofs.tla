------------------------- MODULE OwnedExecutionProofs -------------------------
(***************************************************************************)
(* Proofs about RegionTree and about OwnedExecution, which runs over it,    *)
(* for any finite sets of regions, tasks and obligations, any limits, any   *)
(* budget dimensions, allowances, costs and deadlines. The first half is    *)
(* the tree alone, under its own specification.                             *)
(***************************************************************************)
EXTENDS OwnedExecution, CommonLemmas

-----------------------------------------------------------------------------
(* The tree.                                                                *)

(* How deep a region of a kind sits below the root.                         *)
Depth(k) ==
  CASE k = "Process" -> 0
    [] k = "Property" -> 1
    [] k \in PropertyKinds -> 2
    [] OTHER -> 3

(* A child sits one level below its parent, and no deeper than the third.   *)
LEMMA ChildDepth ==
  ASSUME NEW k, NEW c \in ChildKinds(k)
  PROVE  Depth(c) = Depth(k) + 1 /\ Depth(k) \in 0 .. 2 /\ c \in Kinds
<1>1. CASE k = "Process"
  BY <1>1 DEF ChildKinds, Depth, Kinds, PropertyKinds
<1>2. CASE k = "Property"
  BY <1>2 DEF ChildKinds, Depth, Kinds, PropertyKinds
<1>3. CASE k = "Sensor"
  BY <1>3 DEF ChildKinds, Depth, Kinds, PropertyKinds, SensorKinds
<1>4. CASE k = "Event"
  BY <1>4 DEF ChildKinds, Depth, Kinds, PropertyKinds, EventKinds
<1> QED
  BY <1>1, <1>2, <1>3, <1>4 DEF ChildKinds

(* A set that holds a region and the children of all its members holds the  *)
(* region's subtree.                                                        *)
LEMMA SubtreeLeast ==
  ASSUME NEW r, NEW X, r \in X, \A c \in Live : parent[c] \in X => c \in X
  PROVE  Subtree(r) \subseteq X
<1>1. ASSUME NEW S \in SUBSET X
      PROVE  Below(S) \in SUBSET X
  BY DEF Below
<1>2. Below({r}) \in SUBSET X
  BY <1>1
<1>3. Below(Below({r})) \in SUBSET X
  BY <1>1, <1>2
<1> QED
  BY <1>1, <1>3 DEF Subtree

(* A member of a subtree is its root or hangs below another member.         *)
LEMMA SubtreeUpward ==
  ASSUME NEW r, NEW d \in Subtree(r), d # r
  PROVE  d \in Live /\ parent[d] \in Subtree(r)
  BY DEF Subtree, Below

(* The root of a subtree is in it.                                          *)
LEMMA SubtreeRoot ==
  ASSUME NEW r
  PROVE  r \in Subtree(r)
  BY DEF Subtree, Below

(* A live region that has a parent is not the root of the tree.             *)
LEMMA ParentFacts ==
  ASSUME Nested, NEW c \in Live, parent[c] \in Regions
  PROVE  /\ c # Process /\ parent[c] \in Live
         /\ kind[c] \in ChildKinds(kind[parent[c]])
         /\ Depth(kind[c]) = Depth(kind[parent[c]]) + 1
         /\ Depth(kind[parent[c]]) \in 0 .. 2
<1>1. c # Process
  BY RegionAssumption DEF Nested
<1>2. parent[c] \in Live /\ kind[c] \in ChildKinds(kind[parent[c]])
  BY <1>1 DEF Nested
<1> QED
  BY <1>1, <1>2, ChildDepth

(* The children of the members of a subtree are in it: Subtree, which looks *)
(* three levels down, misses nothing of a tree of these kinds.              *)
LEMMA SubtreeDownward ==
  ASSUME Nested, NEW r \in Regions, NEW c \in Live, parent[c] \in Subtree(r)
  PROVE  c \in Subtree(r)
<1> DEFINE S1 == Below({r})
           S2 == Below(S1)
           S3 == Below(S2)
<1>1. Subtree(r) = S3 /\ S1 \subseteq S2 /\ S2 \subseteq S3
  BY DEF Subtree, Below
<1>2. S3 \subseteq Regions
  BY DEF Below, Live
<1>3. CASE parent[c] \in S2
  BY <1>1, <1>3 DEF Below
<1>4. CASE parent[c] \notin S2
  <2> DEFINE p == parent[c]
             q == parent[p]
             s == parent[q]
  <2>1. p \in Live /\ q \in S2 /\ q \notin S1
    BY <1>1, <1>4 DEF Below
  <2>2. q \in Live /\ s \in S1 /\ s # r
    BY <2>1 DEF Below
  <2>3. s \in Live /\ parent[s] = r
    BY <2>2 DEF Below
  <2>4. p \in Regions /\ q \in Regions /\ s \in Regions
    BY <2>1, <2>2, <2>3 DEF Live
  <2>5. Depth(kind[c]) = Depth(kind[p]) + 1 /\ Depth(kind[p]) \in 0 .. 2
    BY <2>4, ParentFacts
  <2>6. Depth(kind[p]) = Depth(kind[q]) + 1 /\ Depth(kind[q]) \in 0 .. 2
    BY <2>1, <2>4, ParentFacts
  <2>7. Depth(kind[q]) = Depth(kind[s]) + 1 /\ Depth(kind[s]) \in 0 .. 2
    BY <2>2, <2>4, ParentFacts
  <2>8. Depth(kind[s]) = Depth(kind[r]) + 1 /\ Depth(kind[r]) \in 0 .. 2
    BY <2>3, <2>4, ParentFacts
  <2> QED
    BY <2>5, <2>6, <2>7, <2>8
<1> QED
  BY <1>3, <1>4

(* What holds from parent to child holds of whole subtrees.                 *)
LEMMA DownwardReachesAll ==
  ASSUME Nested, StopsDownward
  PROVE  DrainReachesAll
<1> SUFFICES ASSUME NEW r \in Live, state[r] # "active"
             PROVE  \A d \in Subtree(r) : state[d] # "active"
  BY DEF DrainReachesAll
<1> DEFINE X == {d \in Live : state[d] # "active"}
<1>1. ASSUME NEW c \in Live, parent[c] \in X
      PROVE  c \in X
  <2>1. c # Process
    BY <1>1, ParentFacts DEF Live
  <2> QED
    BY <1>1, <2>1 DEF StopsDownward
<1>2. Subtree(r) \subseteq X
  <2>1. r \in X
    OBVIOUS
  <2> HIDE DEF X
  <2> QED
    BY <1>1, <2>1, SubtreeLeast
<1> QED
  BY <1>2

(* Likewise for closed regions.                                             *)
LEMMA ClosedDownward ==
  ASSUME Nested, StopsDownward, NEW r \in Live, state[r] = "closed"
  PROVE  Subtree(r) \subseteq {d \in Live : state[d] = "closed"}
<1> DEFINE X == {d \in Live : state[d] = "closed"}
<1>1. ASSUME NEW c \in Live, parent[c] \in X
      PROVE  c \in X
  <2>1. c # Process
    BY <1>1, ParentFacts DEF Live
  <2> QED
    BY <1>1, <2>1 DEF StopsDownward
<1>2. r \in X
  OBVIOUS
<1> HIDE DEF X
<1>3. Subtree(r) \subseteq X
  BY <1>1, <1>2, SubtreeLeast
<1> QED
  BY <1>3 DEF X

(* A closed region's subtree is closed and every member of it has settled.  *)
LEMMA SettledReachesAll ==
  ASSUME Nested, StopsDownward, ClosedHasSettled
  PROVE  ClosedIsQuiet
  BY ClosedDownward DEF ClosedIsQuiet, ClosedHasSettled

-----------------------------------------------------------------------------
(* The inductive invariant: the parts of TreeInv that the others follow     *)
(* from.                                                                    *)
CoreInv == TypeOK /\ Nested /\ FreshWhenAbsent /\ StopsDownward /\ ClosedHasSettled

(* The parts give the whole invariant.                                      *)
LEMMA CoreGivesTree == CoreInv => TreeInv
  BY DownwardReachesAll, SettledReachesAll DEF CoreInv, TreeInv

(* A tree of nothing but its root.                                          *)
LEMMA InitInv == Init => CoreInv
<1> SUFFICES ASSUME Init PROVE CoreInv
  OBVIOUS
<1>1. Live = {Process}
  BY RegionAssumption DEF Init, Live
<1>2. TypeOK
  BY <1>1, RegionAssumption DEF Init, TypeOK, Kinds, States, Obligation, NoObligation
<1>3. Nested /\ StopsDownward
  BY <1>1, RegionAssumption DEF Init, Nested, StopsDownward
<1>4. FreshWhenAbsent
  BY <1>1, RegionAssumption DEF Init, FreshWhenAbsent
<1>5. ClosedHasSettled
  BY <1>1, RegionAssumption DEF Init, ClosedHasSettled
<1> QED
  BY <1>2, <1>3, <1>4, <1>5 DEF CoreInv

(* attach_child adds a fresh region below one that is active.               *)
LEMMA AttachChildInv ==
  ASSUME CoreInv, NEW p \in Regions, NEW c \in Regions, NEW k, AttachChild(p, c, k)
  PROVE  CoreInv'
<1>0. TypeOK /\ Nested /\ FreshWhenAbsent /\ StopsDownward /\ ClosedHasSettled
  BY DEF CoreInv
<1>1. /\ c \notin Live /\ p \in Live /\ state[p] = "active" /\ k \in ChildKinds(kind[p])
      /\ k \in Kinds /\ k # "absent" /\ c # p /\ c # Process
  <2>1. c \notin Live /\ p \in Live /\ state[p] = "active" /\ k \in ChildKinds(kind[p])
    BY DEF AttachChild, CanAttach, Live
  <2>2. k \in Kinds
    BY <2>1, ChildDepth
  <2>3. "absent" \notin Kinds
    BY DEF Kinds, PropertyKinds, SensorKinds, EventKinds
  <2>4. c # Process
    BY <1>0, <2>1, RegionAssumption DEF Nested, Live
  <2> QED
    BY <2>1, <2>2, <2>3, <2>4
<1>2. Live' = Live \cup {c}
  BY <1>0, <1>1 DEF AttachChild, Live, TypeOK
<1>3. /\ kind'[c] = k /\ parent'[c] = p
      /\ \A x \in Regions \ {c} : kind'[x] = kind[x] /\ parent'[x] = parent[x]
  BY <1>0 DEF AttachChild, TypeOK
<1>4. /\ state' = state /\ task' = task /\ obligation' = obligation /\ note' = note
      /\ quiescence' = quiescence
  BY DEF AttachChild
<1>5. state[c] = "active" /\ quiescence[c] = NoProof
  BY <1>0, <1>1 DEF FreshWhenAbsent
<1>6. TypeOK'
  <2>1. kind' \in [Regions -> Kinds \cup {"absent"}] /\ parent' \in [Regions -> Regions \cup {None}]
    BY <1>0, <1>1 DEF AttachChild, TypeOK
  <2>2. (\A r \in Live : quiescence[r] # NoProof <=> state[r] = "closed")'
    BY <1>0, <1>2, <1>4, <1>5 DEF TypeOK
  <2> QED
    BY <1>0, <1>4, <2>1, <2>2 DEF TypeOK
<1>7. Nested'
  <2>1. kind'[Process] = "Process" /\ parent'[Process] = None
    BY <1>0, <1>1, <1>3, RegionAssumption DEF Nested
  <2>2. ASSUME NEW x \in Live' \ {Process}
        PROVE  parent'[x] \in Live' /\ kind'[x] \in ChildKinds(kind'[parent'[x]])
    <3>1. CASE x = c
      BY <1>1, <1>2, <1>3, <3>1 DEF Live
    <3>2. CASE x # c
      <4>1. x \in Live \ {Process} /\ x \in Regions
        BY <1>2, <3>2 DEF Live
      <4>2. parent[x] \in Live /\ parent[x] # c /\ parent[x] \in Regions
        BY <1>0, <1>1, <4>1 DEF Nested, Live
      <4> QED
        BY <1>0, <1>2, <1>3, <3>2, <4>1, <4>2 DEF Nested
    <3> QED
      BY <3>1, <3>2
  <2>3. Nested' <=> /\ kind'[Process] = "Process" /\ parent'[Process] = None
                    /\ \A x \in Live' \ {Process} :
                         parent'[x] \in Live' /\ kind'[x] \in ChildKinds(kind'[parent'[x]])
    BY DEF Nested, ChildKinds
  <2> QED
    BY <2>1, <2>2, <2>3
<1>8. FreshWhenAbsent'
  BY <1>0, <1>2, <1>4 DEF FreshWhenAbsent
<1>9. StopsDownward'
  <2>1. ASSUME NEW x \in Live' \ {Process}
        PROVE  /\ state'[parent'[x]] # "active" => state'[x] # "active"
               /\ state'[parent'[x]] = "closed" => state'[x] = "closed"
    <3>1. CASE x = c
      BY <1>1, <1>3, <1>4, <3>1
    <3>2. CASE x # c
      <4>1. x \in Live \ {Process} /\ x \in Regions
        BY <1>2, <3>2 DEF Live
      <4> QED
        BY <1>0, <1>3, <1>4, <3>2, <4>1 DEF StopsDownward
    <3> QED
      BY <3>1, <3>2
  <2> QED
    BY <2>1 DEF StopsDownward
<1>10. ClosedHasSettled'
  BY <1>0, <1>2, <1>4, <1>5 DEF ClosedHasSettled, Unsettled
<1> QED
  BY <1>6, <1>7, <1>8, <1>9, <1>10 DEF CoreInv

(* A step that touches the work of one region that is not closed, and       *)
(* leaves the tree and its states alone.                                    *)
LEMMA WorkStepInv ==
  ASSUME CoreInv, NEW r \in Live, state[r] # "closed",
         UNCHANGED <<kind, parent, state, quiescence>>,
         task' \in [Regions -> [Tasks -> {"absent", "active", "completed"}]],
         obligation' \in [Regions -> [Obligations -> Obligation]],
         note' \in [Regions -> [Obligations -> Notes \cup {None}]],
         \A x \in Regions \ {r} :
           task'[x] = task[x] /\ obligation'[x] = obligation[x] /\ note'[x] = note[x]
  PROVE  CoreInv'
<1>0. TypeOK /\ Nested /\ FreshWhenAbsent /\ StopsDownward /\ ClosedHasSettled
  BY DEF CoreInv
<1>1. Live' = Live
  BY DEF Live
<1>2. TypeOK'
  BY <1>0, <1>1 DEF TypeOK
<1>3. Nested' /\ StopsDownward'
  BY <1>0, <1>1 DEF Nested, StopsDownward, ChildKinds
<1>4. FreshWhenAbsent'
  BY <1>0, <1>1 DEF FreshWhenAbsent
<1>5. ClosedHasSettled'
  <2>1. ASSUME NEW x \in Live, state[x] = "closed"
        PROVE  task'[x] = task[x] /\ obligation'[x] = obligation[x] /\ note'[x] = note[x]
    BY <2>1 DEF Live
  <2> QED
    BY <1>0, <1>1, <2>1 DEF ClosedHasSettled, Unsettled
<1> QED
  BY <1>2, <1>3, <1>4, <1>5 DEF CoreInv

(* A step of the closure protocol that closes nothing and leaves no child   *)
(* active below a parent that is not.                                       *)
LEMMA DrainStepInv ==
  ASSUME CoreInv, UNCHANGED <<kind, parent, task, obligation, note, quiescence>>,
         state' \in [Regions -> States],
         \A x \in Regions : state'[x] = "closed" <=> state[x] = "closed",
         \A x \in Regions \ Live : state'[x] = state[x],
         \A c \in Live \ {Process} : state'[parent[c]] # "active" => state'[c] # "active"
  PROVE  CoreInv'
<1>0. TypeOK /\ Nested /\ FreshWhenAbsent /\ StopsDownward /\ ClosedHasSettled
  BY DEF CoreInv
<1>1. Live' = Live /\ Live \subseteq Regions
  BY DEF Live
<1>2. TypeOK'
  BY <1>0, <1>1 DEF TypeOK
<1>3. Nested'
  BY <1>0, <1>1 DEF Nested, ChildKinds
<1>4. FreshWhenAbsent'
  BY <1>0, <1>1 DEF FreshWhenAbsent
<1>5. StopsDownward'
  <2>1. \A c \in Live \ {Process} : parent[c] \in Regions
    BY <1>0, <1>1 DEF Nested
  <2> QED
    BY <1>0, <1>1, <2>1 DEF StopsDownward
<1>6. ClosedHasSettled'
  BY <1>0, <1>1 DEF ClosedHasSettled, Unsettled
<1> QED
  BY <1>2, <1>3, <1>4, <1>5, <1>6 DEF CoreInv

(* register_task, complete_task, register_obligation and resolve_obligation *)
(* are steps on the work of one region that is not closed.                  *)
LEMMA TaskStepInv ==
  ASSUME CoreInv, NEW r \in Regions, NEW t \in Tasks, RegisterTask(r, t) \/ CompleteTask(r, t)
  PROVE  CoreInv'
<1>1. r \in Live /\ state[r] # "closed"
  BY DEF RegisterTask, CompleteTask
<1>2. \E s \in {"active", "completed"} : task' = [task EXCEPT ![r][t] = s]
  BY DEF RegisterTask, CompleteTask
<1>3. UNCHANGED <<kind, parent, state, quiescence, obligation, note>>
  BY DEF RegisterTask, CompleteTask
<1>4. TypeOK
  BY DEF CoreInv
<1>5. /\ task' \in [Regions -> [Tasks -> {"absent", "active", "completed"}]]
      /\ \A x \in Regions \ {r} : task'[x] = task[x]
  BY <1>2, <1>4 DEF TypeOK
<1> QED
  BY <1>1, <1>3, <1>4, <1>5, WorkStepInv DEF TypeOK

(* Likewise for obligations.                                                *)
LEMMA ObligationStepInv ==
  ASSUME CoreInv, NEW r \in Regions, NEW o \in Obligations, NEW s \in ObligationStates,
         NEW p \in Proofs \cup {None}, NEW n \in Notes \cup {None},
         RegisterObligation(r, o, s, p) \/ ResolveObligation(r, o, s, p, n)
  PROVE  CoreInv'
<1>1. r \in Live /\ state[r] # "closed"
  BY DEF RegisterObligation, ResolveObligation, CanResolve
<1>2. /\ obligation' = [obligation EXCEPT ![r][o] = [state |-> s, proof |-> p]]
      /\ note' = note \/ note' = [note EXCEPT ![r][o] = n]
      /\ UNCHANGED <<kind, parent, state, quiescence, task>>
  BY DEF RegisterObligation, ResolveObligation
<1>3. TypeOK
  BY DEF CoreInv
<1>4. [state |-> s, proof |-> p] \in Obligation
  BY DEF Obligation
<1>5. /\ obligation' \in [Regions -> [Obligations -> Obligation]]
      /\ \A x \in Regions \ {r} : obligation'[x] = obligation[x]
  BY <1>2, <1>3, <1>4 DEF TypeOK
<1>6. /\ note' \in [Regions -> [Obligations -> Notes \cup {None}]]
      /\ \A x \in Regions \ {r} : note'[x] = note[x]
  <2>1. note \in [Regions -> [Obligations -> Notes \cup {None}]]
    BY <1>3 DEF TypeOK
  <2>2. CASE note' = note
    BY <2>1, <2>2
  <2>3. CASE note' = [note EXCEPT ![r][o] = n]
    BY <2>1, <2>3
  <2> QED
    BY <1>2, <2>2, <2>3
<1> QED
  BY <1>1, <1>2, <1>3, <1>5, <1>6, WorkStepInv DEF TypeOK

(* request_drain reaches every active child of a region it reaches: it need *)
(* not look deeper than three levels, and the regions it does not go below  *)
(* are not active.                                                          *)
LEMMA DrainSetDownward ==
  ASSUME Nested, NEW r \in Regions, NEW c \in Live, parent[c] \in DrainSet(r), state[c] = "active"
  PROVE  c \in DrainSet(r)
<1> DEFINE S1 == Reached({r})
           S2 == Reached(S1)
           S3 == Reached(S2)
<1>1. DrainSet(r) = S3 /\ S1 \subseteq S2 /\ S2 \subseteq S3
  BY DEF DrainSet, Reached
<1>2. S3 \subseteq Regions
  BY DEF Reached, Undrained, Live
<1>3. CASE parent[c] \in S2
  BY <1>1, <1>3 DEF Reached, Undrained
<1>4. CASE parent[c] \notin S2
  <2> DEFINE p == parent[c]
             q == parent[p]
             s == parent[q]
  <2>1. p \in Live /\ q \in S2 /\ state[p] \notin {"finalizing", "closed"}
    BY <1>1, <1>4 DEF Reached, Undrained
  <2>2. q \notin S1
    BY <1>4, <2>1 DEF Reached, Undrained
  <2>3. q \in Live /\ s \in S1 /\ state[q] \notin {"finalizing", "closed"}
    BY <2>1, <2>2 DEF Reached, Undrained
  <2>4. s # r
    BY <2>2, <2>3 DEF Reached, Undrained
  <2>5. s \in Live /\ parent[s] = r
    BY <2>3, <2>4 DEF Reached, Undrained
  <2>6. p \in Regions /\ q \in Regions /\ s \in Regions
    BY <2>1, <2>3, <2>5 DEF Live
  <2>7. Depth(kind[c]) = Depth(kind[p]) + 1 /\ Depth(kind[p]) \in 0 .. 2
    BY <2>6, ParentFacts
  <2>8. Depth(kind[p]) = Depth(kind[q]) + 1 /\ Depth(kind[q]) \in 0 .. 2
    BY <2>1, <2>6, ParentFacts
  <2>9. Depth(kind[q]) = Depth(kind[s]) + 1 /\ Depth(kind[s]) \in 0 .. 2
    BY <2>3, <2>6, ParentFacts
  <2>10. Depth(kind[s]) = Depth(kind[r]) + 1 /\ Depth(kind[r]) \in 0 .. 2
    BY <2>5, <2>6, ParentFacts
  <2> QED
    BY <2>7, <2>8, <2>9, <2>10
<1> QED
  BY <1>3, <1>4

(* The regions request_drain walks are in the tree.                         *)
LEMMA DrainSetLive ==
  ASSUME NEW r \in Live
  PROVE  DrainSet(r) \subseteq Live
  BY DEF DrainSet, Reached, Undrained

(* request_drain, alone or followed by begin_drain of the same region.      *)
LEMMA RequestDrainInv ==
  ASSUME CoreInv, NEW r \in Live, NEW to \in {"drain_requested", "draining"},
         state[r] \notin {"finalizing", "closed"},
         UNCHANGED <<kind, parent, task, obligation, note, quiescence>>,
         state' \in [Regions -> States],
         \A x \in Regions :
           \/ state'[x] = IF x \in DrainSet(r) /\ state[x] = "active" THEN "drain_requested"
                          ELSE state[x]
           \/ x = r /\ state'[x] = to
  PROVE  CoreInv'
<1>0. TypeOK /\ Nested /\ FreshWhenAbsent /\ StopsDownward
  BY DEF CoreInv
<1>1. DrainSet(r) \subseteq Live /\ Live \subseteq Regions
  BY DrainSetLive DEF Live
<1>2. \A x \in Regions : state'[x] = "closed" <=> state[x] = "closed"
  OBVIOUS
<1>3. \A x \in Regions \ Live : state'[x] = state[x]
  BY <1>1
<1>4. ASSUME NEW c \in Live \ {Process}, state'[parent[c]] # "active"
      PROVE  state'[c] # "active"
  <2>1. parent[c] \in Regions /\ c \in Regions
    BY <1>0, <1>1 DEF Nested
  <2>2. CASE state[parent[c]] # "active"
    BY <1>0, <2>1, <2>2 DEF StopsDownward
  <2>3. CASE state[parent[c]] = "active"
    <3>1. parent[c] \in DrainSet(r)
      <4>1. r \in DrainSet(r)
        BY DEF DrainSet, Reached
      <4> QED
        BY <1>4, <2>1, <2>3, <4>1
    <3> QED
      BY <1>0, <1>1, <2>1, <3>1, DrainSetDownward
  <2> QED
    BY <2>2, <2>3
<1> QED
  BY <1>2, <1>3, <1>4, DrainStepInv

(* begin_drain and begin_finalize move one region that has stopped          *)
(* admitting work.                                                          *)
LEMMA BeginInv ==
  ASSUME CoreInv, NEW r \in Regions, BeginDrain(r) \/ BeginFinalize(r)
  PROVE  CoreInv'
<1>0. TypeOK /\ Nested /\ FreshWhenAbsent /\ StopsDownward
  BY DEF CoreInv
<1>1. PICK to \in {"draining", "finalizing"} : state' = [state EXCEPT ![r] = to]
  BY DEF BeginDrain, BeginFinalize
<1>2. r \in Live /\ state[r] \in {"drain_requested", "draining"}
  BY DEF BeginDrain, BeginFinalize, Transitions
<1>3. UNCHANGED <<kind, parent, task, obligation, note, quiescence>>
  BY DEF BeginDrain, BeginFinalize
<1>4. /\ state' \in [Regions -> States] /\ state'[r] = to
      /\ \A x \in Regions \ {r} : state'[x] = state[x]
  BY <1>0, <1>1 DEF TypeOK, States
<1>5. Live \subseteq Regions /\ \A c \in Live \ {Process} : parent[c] \in Regions
  BY <1>0 DEF Live, Nested
<1>6. \A c \in Live \ {Process} : state'[parent[c]] # "active" => state'[c] # "active"
  BY <1>0, <1>2, <1>4, <1>5 DEF StopsDownward
<1> QED
  BY <1>2, <1>3, <1>4, <1>6, DrainStepInv

(* The counts that verify_quiescence certifies are natural numbers.         *)
LEMMA CountsType ==
  ASSUME TypeOK, NEW r \in Regions, Quiescent(r)
  PROVE  SubtreeCounts(r) \in Counts
<1>1. IsFiniteSet(Children(r))
  BY RegionAssumption, FS_Subset DEF Children, Live
<1>2. \A c \in Children(r) : quiescence[c] \in Counts
  BY DEF TypeOK, Quiescent, Children, Live
<1> DEFINE ft == [c \in Children(r) |-> quiescence[c].tasks]
           fo == [c \in Children(r) |-> quiescence[c].obligations]
           fi == [c \in Children(r) |-> quiescence[c].indeterminate]
<1>3. ft \in [Children(r) -> Nat] /\ fo \in [Children(r) -> Nat] /\ fi \in [Children(r) -> Nat]
  BY <1>2 DEF Counts
<1> HIDE DEF ft, fo, fi
<1>4. SumFunction(ft) \in Nat /\ SumFunction(fo) \in Nat /\ SumFunction(fi) \in Nat
  BY <1>1, <1>3, SumType
<1> DEFINE T == {t \in Tasks : task[r][t] = "completed"}
           O == {o \in Obligations : obligation[r][o].state # "absent"}
           I == {o \in Obligations : obligation[r][o].state = "indeterminate"}
<1>5. IsFiniteSet(T) /\ IsFiniteSet(O) /\ IsFiniteSet(I)
  BY RegionAssumption, FS_Subset
<1>6. SubtreeCounts(r) = [tasks |-> SumFunction(ft) + Cardinality(T),
                          obligations |-> SumFunction(fo) + Cardinality(O),
                          indeterminate |-> SumFunction(fi) + Cardinality(I)]
  BY DEF SubtreeCounts, ft, fo, fi
<1> HIDE DEF T, O, I
<1>7. Cardinality(T) \in Nat /\ Cardinality(O) \in Nat /\ Cardinality(I) \in Nat
  BY <1>5, FS_CardinalityType
<1> QED
  BY <1>4, <1>6, <1>7 DEF Counts

(* finalize closes a region whose children are closed and whose work is     *)
(* settled.                                                                 *)
LEMMA FinalizeInv ==
  ASSUME CoreInv, NEW r \in Regions, Finalize(r)
  PROVE  CoreInv'
<1>0. TypeOK /\ Nested /\ FreshWhenAbsent /\ StopsDownward /\ ClosedHasSettled
  BY DEF CoreInv
<1>1. /\ r \in Live /\ state[r] \in {"draining", "finalizing"} /\ Quiescent(r)
      /\ UNCHANGED <<kind, parent, task, obligation, note>>
  BY DEF Finalize
<1>2. SubtreeCounts(r) \in Counts /\ NoProof \notin Counts
  <2>1. NoProof \notin Counts
    BY DEF NoProof, Counts
  <2> QED
    BY <1>0, <1>1, <2>1, CountsType
<1>3. /\ state' \in [Regions -> States] /\ state'[r] = "closed"
      /\ \A x \in Regions \ {r} : state'[x] = state[x]
  BY <1>0 DEF Finalize, TypeOK, States
<1>4. /\ quiescence' \in [Regions -> Counts \cup {NoProof}] /\ quiescence'[r] # NoProof
      /\ \A x \in Regions \ {r} : quiescence'[x] = quiescence[x]
  BY <1>0, <1>2 DEF Finalize, TypeOK
<1>5. Live' = Live /\ Live \subseteq Regions
  BY <1>1 DEF Live
<1>6. TypeOK'
  BY <1>0, <1>1, <1>3, <1>4, <1>5 DEF TypeOK
<1>7. Nested'
  BY <1>0, <1>1, <1>5 DEF Nested, ChildKinds
<1>8. FreshWhenAbsent'
  BY <1>0, <1>1, <1>3, <1>4, <1>5 DEF FreshWhenAbsent
<1>9. StopsDownward'
  <2>1. ASSUME NEW c \in Live \ {Process}
        PROVE  /\ state'[parent[c]] # "active" => state'[c] # "active"
               /\ state'[parent[c]] = "closed" => state'[c] = "closed"
    <3>1. parent[c] \in Regions /\ c \in Regions
      BY <1>0, <1>5 DEF Nested
    <3>2. parent[c] = r => state[c] = "closed"
      BY <1>1 DEF Quiescent, Children
    <3> QED
      BY <1>0, <1>1, <1>3, <3>1, <3>2 DEF StopsDownward
  <2> QED
    BY <1>1, <1>5, <2>1 DEF StopsDownward
<1>10. ClosedHasSettled'
  <2>1. ASSUME NEW x \in Live, state'[x] = "closed"
        PROVE  /\ \A t \in Tasks : task[x][t] # "active"
               /\ \A o \in Obligations : ~Unsettled(x, o)
    <3>1. CASE x = r
      BY <1>1, <3>1 DEF Quiescent, Unsettled
    <3>2. CASE x # r
      BY <1>0, <1>3, <1>5, <2>1, <3>2 DEF ClosedHasSettled
    <3> QED
      BY <3>1, <3>2
  <2> QED
    BY <1>1, <1>5, <2>1 DEF ClosedHasSettled, Unsettled
<1> QED
  BY <1>6, <1>7, <1>8, <1>9, <1>10 DEF CoreInv

(* A step that leaves the tree alone.                                       *)
LEMMA StutterInv ==
  ASSUME CoreInv, UNCHANGED treeVars
  PROVE  CoreInv'
  BY DEF treeVars, CoreInv, TypeOK, Nested, FreshWhenAbsent, StopsDownward, ClosedHasSettled,
         Unsettled, Live, ChildKinds

(* Every step of the closure protocol.                                      *)
LEMMA ClosureInv ==
  ASSUME CoreInv, NEW r \in Regions,
         RequestDrain(r) \/ BeginDrain(r) \/ BeginFinalize(r) \/ Finalize(r)
  PROVE  CoreInv'
<1>1. CASE RequestDrain(r)
  <2>1. /\ r \in Live /\ state[r] \notin {"finalizing", "closed"}
        /\ UNCHANGED <<kind, parent, task, obligation, note, quiescence>>
        /\ \A x \in Regions :
             state'[x] = IF x \in DrainSet(r) /\ state[x] = "active" THEN "drain_requested"
                         ELSE state[x]
    BY <1>1 DEF RequestDrain
  <2>2. state' \in [Regions -> States]
    BY <1>1 DEF RequestDrain, CoreInv, TypeOK, States
  <2> QED
    BY <2>1, <2>2, RequestDrainInv
<1> QED
  BY <1>1, BeginInv, FinalizeInv

(* Every step of the tree preserves the inductive invariant.                *)
LEMMA NextInv == CoreInv /\ [Next]_treeVars => CoreInv'
<1> SUFFICES ASSUME CoreInv, [Next]_treeVars PROVE CoreInv'
  OBVIOUS
<1>1. CASE \E p, c \in Regions, k \in KindsUsed : AttachChild(p, c, k)
  BY <1>1, AttachChildInv
<1>2. CASE \E r \in Regions, t \in Tasks : RegisterTask(r, t) \/ CompleteTask(r, t)
  BY <1>2, TaskStepInv
<1>3. CASE \E r \in Regions, o \in Obligations, s \in ObligationStates, p \in Proofs \cup {None} :
             RegisterObligation(r, o, s, p)
  BY <1>3, ObligationStepInv
<1>4. CASE \E r \in Regions, o \in Obligations : Settle(r, o)
  BY <1>4, ObligationStepInv DEF Settle
<1>5. CASE \E r \in Regions : RequestDrain(r) \/ BeginDrain(r) \/ BeginFinalize(r) \/ Finalize(r)
  BY <1>5, ClosureInv
<1>6. CASE Rest \/ UNCHANGED treeVars
  BY <1>6, StutterInv DEF Rest
<1> QED
  BY <1>1, <1>2, <1>3, <1>4, <1>5, <1>6 DEF Next

(* The tree keeps its types, a requested drain has reached everything below *)
(* it, and nothing runs below a closed region.                              *)
THEOREM Invariance == Spec => []TreeInv
<1>1. Init => CoreInv
  BY InitInv
<1>2. CoreInv /\ [Next]_treeVars => CoreInv'
  BY NextInv
<1>3. CoreInv => TreeInv
  BY CoreGivesTree
<1> QED
  BY <1>1, <1>2, <1>3, PTL DEF Spec

-----------------------------------------------------------------------------
(* Quiescence proofs.                                                       *)

(* A subtree is its root and the subtrees of the root's children, which     *)
(* have nothing in common.                                                  *)
LEMMA SubtreeSplit ==
  ASSUME Nested, NEW r \in Live
  PROVE  /\ Subtree(r) = {r} \cup UNION {Subtree(c) : c \in Children(r)}
         /\ \A c \in Children(r) : r \notin Subtree(c)
         /\ \A c, d \in Children(r) : c # d => Subtree(c) \cap Subtree(d) = {}
         /\ Subtree(r) \subseteq Live
<1>0. r \in Regions /\ Live \subseteq Regions /\ Children(r) \subseteq Live
  BY DEF Live, Children
<1>1. ASSUME NEW x \in Live
      PROVE  Subtree(x) \subseteq Live
  BY SubtreeLeast
<1>2. Subtree(r) \subseteq {r} \cup UNION {Subtree(c) : c \in Children(r)}
  <2> DEFINE X == {r} \cup UNION {Subtree(c) : c \in Children(r)}
  <2>1. ASSUME NEW x \in Live, parent[x] \in X
        PROVE  x \in X
    <3>1. CASE parent[x] = r
      <4>1. x \in Children(r) /\ x \in Subtree(x)
        BY <3>1, SubtreeRoot DEF Children
      <4> QED
        BY <4>1
    <3>2. CASE parent[x] # r
      <4>1. PICK c \in Children(r) : parent[x] \in Subtree(c)
        BY <2>1, <3>2
      <4>2. x \in Subtree(c)
        BY <1>0, <4>1, SubtreeDownward
      <4> QED
        BY <4>2
    <3> QED
      BY <3>1, <3>2
  <2>2. r \in X
    OBVIOUS
  <2> HIDE DEF X
  <2>3. Subtree(r) \subseteq X
    BY <2>1, <2>2, SubtreeLeast
  <2> QED
    BY <2>3 DEF X
<1>3. ASSUME NEW c \in Children(r)
      PROVE  Subtree(c) \subseteq Subtree(r)
  <2>1. c \in Subtree(r)
    BY <1>0, SubtreeRoot, SubtreeDownward DEF Children
  <2>2. \A x \in Live : parent[x] \in Subtree(r) => x \in Subtree(r)
    BY <1>0, SubtreeDownward
  <2> QED
    BY <2>1, <2>2, SubtreeLeast
<1>4. ASSUME NEW c \in Children(r)
      PROVE  \A x \in Subtree(c) : Depth(kind[x]) \in Int /\ Depth(kind[x]) > Depth(kind[r])
  <2> DEFINE X == {x \in Live : Depth(kind[x]) \in Int /\ Depth(kind[x]) > Depth(kind[r])}
  <2>1. c \in X
    <3>1. c \in Live /\ parent[c] = r
      BY DEF Children
    <3>2. Depth(kind[c]) = Depth(kind[r]) + 1 /\ Depth(kind[r]) \in 0 .. 2
      BY <1>0, <3>1, ParentFacts
    <3> QED
      BY <3>1, <3>2
  <2>2. ASSUME NEW x \in Live, parent[x] \in X
        PROVE  x \in X
    <3>1. Depth(kind[x]) = Depth(kind[parent[x]]) + 1 /\ Depth(kind[parent[x]]) \in 0 .. 2
      BY <1>0, <2>2, ParentFacts
    <3>2. Depth(kind[r]) \in Int
      BY DEF Depth
    <3> QED
      BY <2>2, <3>1, <3>2
  <2> HIDE DEF X
  <2>3. Subtree(c) \subseteq X
    BY <2>1, <2>2, SubtreeLeast
  <2> QED
    BY <2>3 DEF X
<1>5. \A c \in Children(r) : r \notin Subtree(c)
  <2>1. Depth(kind[r]) \in Int
    BY DEF Depth
  <2> QED
    BY <1>4, <2>1
<1>6. ASSUME NEW c \in Children(r), NEW d \in Children(r), c # d
      PROVE  Subtree(c) \cap Subtree(d) = {}
  <2> DEFINE X == {x \in Subtree(d) : x \notin Subtree(c)}
  <2>1. d \in X
    <3>1. d \in Subtree(d)
      BY SubtreeRoot
    <3>2. d \notin Subtree(c)
      <4>1. SUFFICES ASSUME d \in Subtree(c) PROVE FALSE
        OBVIOUS
      <4>2. parent[d] \in Subtree(c)
        BY <1>6, <4>1, SubtreeUpward
      <4> QED
        BY <1>5, <4>2 DEF Children
    <3> QED
      BY <3>1, <3>2
  <2>2. ASSUME NEW x \in Live, parent[x] \in X
        PROVE  x \in X
    <3>1. x \in Subtree(d)
      BY <1>0, <2>2, SubtreeDownward
    <3>2. x # c
      BY <1>5, <2>2 DEF Children
    <3>3. x \notin Subtree(c)
      BY <2>2, <3>2, SubtreeUpward
    <3> QED
      BY <3>1, <3>3
  <2> HIDE DEF X
  <2>3. Subtree(d) \subseteq X
    BY <2>1, <2>2, SubtreeLeast
  <2> QED
    BY <2>3 DEF X
<1>7. r \in Subtree(r)
  BY SubtreeRoot
<1>8. Subtree(r) = {r} \cup UNION {Subtree(c) : c \in Children(r)}
  BY <1>2, <1>3, <1>7
<1> QED
  BY <1>1, <1>5, <1>6, <1>8

(* What is counted in a subtree is what is counted at its root and what is  *)
(* counted below each of the root's children: M is the set of pairs of a    *)
(* region and a task or obligation of it that count.                        *)
LEMMA CountSplit ==
  ASSUME Nested, NEW r \in Live, NEW W, IsFiniteSet(W), NEW M \in SUBSET (Regions \X W),
         NEW f, DOMAIN f = Children(r),
         \A c \in Children(r) : f[c] = Cardinality(M \cap (Subtree(c) \X W)),
         NEW ws \in SUBSET W, \A w \in W : w \in ws <=> <<r, w>> \in M
  PROVE  SumFunction(f) + Cardinality(ws) = Cardinality(M \cap (Subtree(r) \X W))
<1> DEFINE C == Children(r)
           F == [c \in C |-> M \cap (Subtree(c) \X W)]
           own == M \cap ({r} \X W)
           below == UNION {F[c] : c \in C}
<1>1. IsFiniteSet(C) /\ IsFiniteSet(M) /\ IsFiniteSet(ws)
  <2>1. IsFiniteSet(C)
    BY RegionAssumption, FS_Subset DEF Children, Live
  <2>2. IsFiniteSet(M)
    <3>1. IsFiniteSet(Regions \X W)
      BY RegionAssumption, FS_Product
    <3> QED
      BY <3>1, FS_Subset
  <2>3. IsFiniteSet(ws)
    BY FS_Subset
  <2> QED
    BY <2>1, <2>2, <2>3
<1>2. \A c \in C : IsFiniteSet(F[c]) /\ f[c] = Cardinality(F[c])
  <2> TAKE c \in C
  <2>1. F[c] \in SUBSET M
    OBVIOUS
  <2>2. f[c] = Cardinality(F[c])
    OBVIOUS
  <2> HIDE DEF F
  <2> QED
    BY <1>1, <2>1, <2>2, FS_Subset
<1>3. \A c, d \in C : c # d => F[c] \cap F[d] = {}
  BY SubtreeSplit
<1>4. SumFunction(f) = Cardinality(below) /\ IsFiniteSet(below)
  <2> HIDE DEF F
  <2>1. DOMAIN f = C
    OBVIOUS
  <2>2. \A u : u \in below <=> \E c \in C : u \in F[c]
    OBVIOUS
  <2> HIDE DEF C, below
  <2> QED
    BY <1>1, <1>2, <1>3, <2>1, <2>2, SumOfSizes
<1>5. Cardinality(own) = Cardinality(ws) /\ IsFiniteSet(own)
  <2> DEFINE b == [w \in ws |-> <<r, w>>]
  <2>1. b \in Bijection(ws, own)
    <3>1. b \in [ws -> own]
      OBVIOUS
    <3>2. \A v, w \in ws : b[v] = b[w] => v = w
      OBVIOUS
    <3>3. \A x \in own : \E w \in ws : b[w] = x
      OBVIOUS
    <3> HIDE DEF b, own
    <3> QED
      BY <3>1, <3>2, <3>3 DEF Bijection, Injection, Surjection, IsInjective
  <2>2. ExistsBijection(ws, own)
    BY <2>1 DEF ExistsBijection
  <2> HIDE DEF own, b
  <2> QED
    BY <1>1, <2>2, FS_Bijection
<1>6. M \cap (Subtree(r) \X W) = own \cup below
  <2>1. Subtree(r) = {r} \cup UNION {Subtree(c) : c \in C}
    BY SubtreeSplit
  <2> QED
    BY <2>1
<1>7. own \cap below = {}
  BY SubtreeSplit
<1> HIDE DEF C, F, own, below
<1>8. Cardinality(own \cup below) = Cardinality(own) + Cardinality(below) - Cardinality({})
  BY <1>4, <1>5, <1>7, FS_Union
<1>9. Cardinality({}) = 0 /\ Cardinality(own) \in Nat /\ Cardinality(below) \in Nat
  BY <1>4, <1>5, FS_EmptySet, FS_CardinalityType
<1>10. SumFunction(f) + Cardinality(ws) = Cardinality(own \cup below)
  BY <1>4, <1>5, <1>8, <1>9
<1> QED
  BY <1>6, <1>10

(* The sets that a quiescence proof counts.                                 *)
Completed     == {x \in Regions \X Tasks : task[x[1]][x[2]] = "completed"}
Tracked       == {x \in Regions \X Obligations : obligation[x[1]][x[2]].state # "absent"}
Indeterminate == {x \in Regions \X Obligations : obligation[x[1]][x[2]].state = "indeterminate"}

(* A proof is exact when it counts these sets in the subtree.               *)
LEMMA ExactMeans ==
  ASSUME Nested, NEW r \in Live
  PROVE  ProofIsExact(r) <=>
           /\ quiescence[r].tasks = Cardinality(Completed \cap (Subtree(r) \X Tasks))
           /\ quiescence[r].obligations = Cardinality(Tracked \cap (Subtree(r) \X Obligations))
           /\ quiescence[r].indeterminate =
                Cardinality(Indeterminate \cap (Subtree(r) \X Obligations))
<1>1. Subtree(r) \subseteq Regions
  BY SubtreeSplit DEF Live
<1>2. {x \in Subtree(r) \X Tasks : task[x[1]][x[2]] = "completed"}
        = Completed \cap (Subtree(r) \X Tasks)
  BY <1>1 DEF Completed
<1>3. {x \in Subtree(r) \X Obligations : obligation[x[1]][x[2]].state # "absent"}
        = Tracked \cap (Subtree(r) \X Obligations)
  BY <1>1 DEF Tracked
<1>4. {x \in Subtree(r) \X Obligations : obligation[x[1]][x[2]].state = "indeterminate"}
        = Indeterminate \cap (Subtree(r) \X Obligations)
  BY <1>1 DEF Indeterminate
<1> QED
  BY <1>2, <1>3, <1>4 DEF ProofIsExact

(* The counts that verify_quiescence adds up are the totals of the subtree, *)
(* if those of the children are.                                            *)
LEMMA CountsAreTotals ==
  ASSUME Nested, ProofsAreExact, NEW r \in Live, Quiescent(r)
  PROVE  /\ SubtreeCounts(r).tasks = Cardinality(Completed \cap (Subtree(r) \X Tasks))
         /\ SubtreeCounts(r).obligations = Cardinality(Tracked \cap (Subtree(r) \X Obligations))
         /\ SubtreeCounts(r).indeterminate =
              Cardinality(Indeterminate \cap (Subtree(r) \X Obligations))
<1> DEFINE ft == [c \in Children(r) |-> quiescence[c].tasks]
           fo == [c \in Children(r) |-> quiescence[c].obligations]
           fi == [c \in Children(r) |-> quiescence[c].indeterminate]
<1>1. \A c \in Children(r) : c \in Live /\ ProofIsExact(c)
  BY DEF ProofsAreExact, Quiescent, Children
<1>2. /\ DOMAIN ft = Children(r) /\ DOMAIN fo = Children(r) /\ DOMAIN fi = Children(r)
      /\ \A c \in Children(r) :
           /\ ft[c] = Cardinality(Completed \cap (Subtree(c) \X Tasks))
           /\ fo[c] = Cardinality(Tracked \cap (Subtree(c) \X Obligations))
           /\ fi[c] = Cardinality(Indeterminate \cap (Subtree(c) \X Obligations))
  BY <1>1, ExactMeans
<1>3. /\ SubtreeCounts(r).tasks =
           SumFunction(ft) + Cardinality({t \in Tasks : task[r][t] = "completed"})
      /\ SubtreeCounts(r).obligations =
           SumFunction(fo) + Cardinality({o \in Obligations : obligation[r][o].state # "absent"})
      /\ SubtreeCounts(r).indeterminate =
           SumFunction(fi) + Cardinality({o \in Obligations : obligation[r][o].state = "indeterminate"})
  BY DEF SubtreeCounts
<1> HIDE DEF ft, fo, fi
<1>4. r \in Regions
  BY DEF Live
<1>5. SubtreeCounts(r).tasks = Cardinality(Completed \cap (Subtree(r) \X Tasks))
  <2> DEFINE ws == {t \in Tasks : task[r][t] = "completed"}
  <2>1. ws \in SUBSET Tasks /\ \A w \in Tasks : w \in ws <=> <<r, w>> \in Completed
    BY <1>4 DEF Completed
  <2>2. Completed \in SUBSET (Regions \X Tasks)
    BY DEF Completed
  <2> HIDE DEF ws
  <2>3. \A c \in Children(r) : ft[c] = Cardinality(Completed \cap (Subtree(c) \X Tasks))
    BY <1>2
  <2>4. DOMAIN ft = Children(r) /\ IsFiniteSet(Tasks)
    BY <1>2, RegionAssumption
  <2>5. SumFunction(ft) + Cardinality(ws) = Cardinality(Completed \cap (Subtree(r) \X Tasks))
    BY <2>1, <2>2, <2>3, <2>4, CountSplit
  <2> QED
    BY <1>3, <2>5 DEF ws
<1>6. SubtreeCounts(r).obligations = Cardinality(Tracked \cap (Subtree(r) \X Obligations))
  <2> DEFINE ws == {o \in Obligations : obligation[r][o].state # "absent"}
  <2>1. ws \in SUBSET Obligations /\ \A w \in Obligations : w \in ws <=> <<r, w>> \in Tracked
    BY <1>4 DEF Tracked
  <2>2. Tracked \in SUBSET (Regions \X Obligations)
    BY DEF Tracked
  <2> HIDE DEF ws
  <2>3. \A c \in Children(r) : fo[c] = Cardinality(Tracked \cap (Subtree(c) \X Obligations))
    BY <1>2
  <2>4. DOMAIN fo = Children(r) /\ IsFiniteSet(Obligations)
    BY <1>2, RegionAssumption
  <2>5. SumFunction(fo) + Cardinality(ws) = Cardinality(Tracked \cap (Subtree(r) \X Obligations))
    BY <2>1, <2>2, <2>3, <2>4, CountSplit
  <2> QED
    BY <1>3, <2>5 DEF ws
<1>7. SubtreeCounts(r).indeterminate =
        Cardinality(Indeterminate \cap (Subtree(r) \X Obligations))
  <2> DEFINE ws == {o \in Obligations : obligation[r][o].state = "indeterminate"}
  <2>1. ws \in SUBSET Obligations /\ \A w \in Obligations : w \in ws <=> <<r, w>> \in Indeterminate
    BY <1>4 DEF Indeterminate
  <2>2. Indeterminate \in SUBSET (Regions \X Obligations)
    BY DEF Indeterminate
  <2> HIDE DEF ws
  <2>3. \A c \in Children(r) : fi[c] = Cardinality(Indeterminate \cap (Subtree(c) \X Obligations))
    BY <1>2
  <2>4. DOMAIN fi = Children(r) /\ IsFiniteSet(Obligations)
    BY <1>2, RegionAssumption
  <2>5. SumFunction(fi) + Cardinality(ws) = Cardinality(Indeterminate \cap (Subtree(r) \X Obligations))
    BY <2>1, <2>2, <2>3, <2>4, CountSplit
  <2> QED
    BY <1>3, <2>5 DEF ws
<1> QED
  BY <1>5, <1>6, <1>7

(* A step that leaves a closed subtree and its root's proof alone leaves    *)
(* the proof exact.                                                         *)
LEMMA ExactKept ==
  ASSUME NEW r, ProofIsExact(r), Subtree(r)' = Subtree(r), quiescence'[r] = quiescence[r],
         \A x \in Subtree(r) : task'[x] = task[x] /\ obligation'[x] = obligation[x]
  PROVE  ProofIsExact(r)'
<1> DEFINE S == Subtree(r)
<1>1. {x \in S \X Tasks : task'[x[1]][x[2]] = "completed"}
        = {x \in S \X Tasks : task[x[1]][x[2]] = "completed"}
  <2> HIDE DEF S
  <2>1. \A x \in S : task'[x] = task[x]
    BY DEF S
  <2> QED
    BY <2>1
<1>2. {x \in S \X Obligations : obligation'[x[1]][x[2]].state # "absent"}
        = {x \in S \X Obligations : obligation[x[1]][x[2]].state # "absent"}
  <2> HIDE DEF S
  <2>1. \A x \in S : obligation'[x] = obligation[x]
    BY DEF S
  <2> QED
    BY <2>1
<1>3. {x \in S \X Obligations : obligation'[x[1]][x[2]].state = "indeterminate"}
        = {x \in S \X Obligations : obligation[x[1]][x[2]].state = "indeterminate"}
  <2> HIDE DEF S
  <2>1. \A x \in S : obligation'[x] = obligation[x]
    BY DEF S
  <2> QED
    BY <2>1
<1> QED
  BY <1>1, <1>2, <1>3 DEF ProofIsExact

(* A step that leaves the shape of the tree, the closed regions' work and   *)
(* the proofs alone.                                                        *)
LEMMA ShapeKept ==
  ASSUME CoreInv, ProofsAreExact, UNCHANGED <<kind, parent>>,
         \A x \in Live : state'[x] = "closed" =>
           /\ state[x] = "closed" /\ quiescence'[x] = quiescence[x]
           /\ task'[x] = task[x] /\ obligation'[x] = obligation[x],
         \A x \in Live : state[x] = "closed" => state'[x] = "closed"
  PROVE  ProofsAreExact'
<1>1. Live' = Live
  BY DEF Live
<1>2. ASSUME NEW r \in Live, state'[r] = "closed"
      PROVE  ProofIsExact(r)'
  <2>1. state[r] = "closed" /\ quiescence'[r] = quiescence[r] /\ ProofIsExact(r)
    BY <1>2 DEF ProofsAreExact
  <2>2. Subtree(r)' = Subtree(r)
    BY <1>1 DEF Subtree, Below
  <2>3. Subtree(r) \subseteq {d \in Live : state[d] = "closed"}
    BY <2>1, ClosedDownward DEF CoreInv
  <2>4. \A x \in Subtree(r) : task'[x] = task[x] /\ obligation'[x] = obligation[x]
    BY <2>3
  <2> QED
    BY <2>1, <2>2, <2>4, ExactKept
<1> QED
  BY <1>1, <1>2 DEF ProofsAreExact

(* attach_child below an active region leaves the subtree of a closed one   *)
(* alone.                                                                   *)
LEMMA AttachKeepsClosed ==
  ASSUME CoreInv, NEW p \in Regions, NEW c \in Regions, NEW k, AttachChild(p, c, k),
         NEW r \in Live, state[r] = "closed"
  PROVE  Subtree(r)' = Subtree(r)
<1>0. TypeOK /\ Nested /\ StopsDownward
  BY DEF CoreInv
<1>1. c \notin Live /\ state[p] = "active" /\ k # "absent"
  <2>1. c \notin Live /\ state[p] = "active" /\ k \in ChildKinds(kind[p])
    BY DEF AttachChild, CanAttach, Live
  <2>2. k \in Kinds /\ "absent" \notin Kinds
    BY <2>1, ChildDepth DEF Kinds, PropertyKinds, SensorKinds, EventKinds
  <2> QED
    BY <2>1, <2>2
<1>2. Live' = Live \cup {c} /\ parent'[c] = p /\ \A x \in Live : parent'[x] = parent[x]
  BY <1>0, <1>1 DEF AttachChild, Live, TypeOK
<1>3. ASSUME NEW S, p \notin S
      PROVE  {x \in Live' : parent'[x] \in S} = {x \in Live : parent[x] \in S}
  BY <1>2, <1>3
<1>4. Subtree(r) \subseteq {d \in Live : state[d] = "closed"}
  BY <1>0, ClosedDownward
<1>5. p \notin Subtree(r)
  BY <1>1, <1>4
<1> DEFINE S0 == {r}
           S1 == Below(S0)
           S2 == Below(S1)
<1>6. p \notin S0 /\ p \notin S1 /\ p \notin S2
  BY <1>5 DEF Subtree, Below
<1>7. S1' = S1
  <2>1. {x \in Live' : parent'[x] \in S0} = {x \in Live : parent[x] \in S0}
    BY <1>3, <1>6
  <2> QED
    BY <2>1 DEF Below
<1>8. S2' = S2
  <2>1. {x \in Live' : parent'[x] \in S1} = {x \in Live : parent[x] \in S1}
    BY <1>3, <1>6
  <2>2. S2' = S1' \cup {x \in Live' : parent'[x] \in S1'}
    BY DEF Below
  <2>3. S2 = S1 \cup {x \in Live : parent[x] \in S1}
    BY DEF Below
  <2> HIDE DEF S1, S2
  <2> QED
    BY <1>7, <2>1, <2>2, <2>3
<1>9. {x \in Live' : parent'[x] \in S2} = {x \in Live : parent[x] \in S2}
  BY <1>3, <1>6
<1>10. Subtree(r)' = S2' \cup {x \in Live' : parent'[x] \in S2'}
  BY DEF Subtree, Below
<1>11. Subtree(r) = S2 \cup {x \in Live : parent[x] \in S2}
  BY DEF Subtree, Below
<1> HIDE DEF S2
<1> QED
  BY <1>8, <1>9, <1>10, <1>11

(* Every step keeps every quiescence proof exact.                           *)
LEMMA NextExact ==
  ASSUME CoreInv, ProofsAreExact, [Next]_treeVars
  PROVE  ProofsAreExact'
<1>0. TypeOK /\ Nested /\ FreshWhenAbsent /\ StopsDownward /\ ClosedHasSettled
      /\ Live \subseteq Regions
  BY DEF CoreInv, Live
<1>1. ASSUME NEW p \in Regions, NEW c \in Regions, NEW k \in KindsUsed, AttachChild(p, c, k)
      PROVE  ProofsAreExact'
  <2>1. c \notin Live /\ p \in Live /\ state[p] = "active" /\ k # "absent" /\ state[c] = "active"
    <3>1. c \notin Live /\ p \in Live /\ state[p] = "active" /\ k \in ChildKinds(kind[p])
      BY <1>1 DEF AttachChild, CanAttach, Live
    <3>2. k \in Kinds /\ "absent" \notin Kinds
      BY <3>1, ChildDepth DEF Kinds, PropertyKinds, SensorKinds, EventKinds
    <3> QED
      BY <1>0, <3>1, <3>2 DEF FreshWhenAbsent
  <2>2. Live' = Live \cup {c} /\ parent'[c] = p /\ \A x \in Live : parent'[x] = parent[x]
    BY <1>0, <1>1, <2>1 DEF AttachChild, Live, TypeOK
  <2>3. UNCHANGED <<state, task, obligation, quiescence>>
    BY <1>1 DEF AttachChild
  <2>4. ASSUME NEW r \in Live', state'[r] = "closed"
        PROVE  ProofIsExact(r)'
    <3>1. r \in Live /\ state[r] = "closed"
      BY <2>1, <2>2, <2>3, <2>4
    <3>2. Subtree(r)' = Subtree(r)
      BY <1>1, <3>1, AttachKeepsClosed
    <3> QED
      BY <2>3, <3>1, <3>2, ExactKept DEF ProofsAreExact
  <2> QED
    BY <2>4 DEF ProofsAreExact
<1>2. ASSUME NEW r \in Regions, NEW t \in Tasks, RegisterTask(r, t) \/ CompleteTask(r, t)
      PROVE  ProofsAreExact'
  <2>1. /\ UNCHANGED <<kind, parent, state, obligation, quiescence>> /\ state[r] # "closed"
        /\ \A x \in Regions \ {r} : task'[x] = task[x]
    BY <1>0, <1>2 DEF RegisterTask, CompleteTask, TypeOK
  <2> QED
    BY <1>0, <2>1, ShapeKept
<1>3. ASSUME NEW r \in Regions, NEW o \in Obligations, NEW s, NEW p, NEW n,
             RegisterObligation(r, o, s, p) \/ ResolveObligation(r, o, s, p, n)
      PROVE  ProofsAreExact'
  <2>1. /\ UNCHANGED <<kind, parent, state, task, quiescence>> /\ state[r] # "closed"
        /\ \A x \in Regions \ {r} : obligation'[x] = obligation[x]
    BY <1>0, <1>3 DEF RegisterObligation, ResolveObligation, CanResolve, TypeOK
  <2> QED
    BY <1>0, <2>1, ShapeKept
<1>4. ASSUME NEW r \in Regions, RequestDrain(r) \/ BeginDrain(r) \/ BeginFinalize(r)
      PROVE  ProofsAreExact'
  <2>1. UNCHANGED <<kind, parent, task, obligation, quiescence>>
    BY <1>4 DEF RequestDrain, BeginDrain, BeginFinalize
  <2>2. \A x \in Regions : state'[x] = "closed" <=> state[x] = "closed"
    BY <1>0, <1>4 DEF RequestDrain, BeginDrain, BeginFinalize, Transitions, TypeOK
  <2> QED
    BY <1>0, <2>1, <2>2, ShapeKept
<1>5. ASSUME NEW r \in Regions, Finalize(r)
      PROVE  ProofsAreExact'
  <2>1. /\ r \in Live /\ Quiescent(r) /\ state[r] # "closed"
        /\ UNCHANGED <<kind, parent, task, obligation>>
    BY <1>5 DEF Finalize
  <2>2. /\ \A x \in Regions \ {r} : state'[x] = state[x] /\ quiescence'[x] = quiescence[x]
        /\ quiescence'[r] = SubtreeCounts(r)
    BY <1>0, <1>5 DEF Finalize, TypeOK
  <2>3. Live' = Live
    BY <2>1 DEF Live
  <2>4. ASSUME NEW x \in Live, state'[x] = "closed"
        PROVE  ProofIsExact(x)'
    <3>1. Subtree(x)' = Subtree(x)
      BY <2>1, <2>3 DEF Subtree, Below
    <3>2. CASE x # r
      <4>1. ProofIsExact(x) /\ quiescence'[x] = quiescence[x]
        BY <1>0, <2>2, <2>4, <3>2 DEF ProofsAreExact
      <4> QED
        BY <2>1, <3>1, <4>1, ExactKept
    <3>3. CASE x = r
      <4>1. Subtree(r) \subseteq Regions
        BY <1>0, <2>1, SubtreeSplit
      <4>2. /\ quiescence'[r].tasks = Cardinality(Completed \cap (Subtree(r) \X Tasks))
            /\ quiescence'[r].obligations = Cardinality(Tracked \cap (Subtree(r) \X Obligations))
            /\ quiescence'[r].indeterminate =
                 Cardinality(Indeterminate \cap (Subtree(r) \X Obligations))
        BY <1>0, <2>1, <2>2, CountsAreTotals
      <4>3. {y \in Subtree(r) \X Tasks : task[y[1]][y[2]] = "completed"}
              = Completed \cap (Subtree(r) \X Tasks)
        BY <4>1 DEF Completed
      <4>4. {y \in Subtree(r) \X Obligations : obligation[y[1]][y[2]].state # "absent"}
              = Tracked \cap (Subtree(r) \X Obligations)
        BY <4>1 DEF Tracked
      <4>5. {y \in Subtree(r) \X Obligations : obligation[y[1]][y[2]].state = "indeterminate"}
              = Indeterminate \cap (Subtree(r) \X Obligations)
        BY <4>1 DEF Indeterminate
      <4> QED
        BY <2>1, <3>1, <3>3, <4>2, <4>3, <4>4, <4>5 DEF ProofIsExact
    <3> QED
      BY <3>2, <3>3
  <2> QED
    BY <2>3, <2>4 DEF ProofsAreExact
<1>6. CASE Rest \/ UNCHANGED treeVars
  BY <1>6, ShapeKept DEF Rest, treeVars
<1> QED
  BY <1>1, <1>2, <1>3, <1>4, <1>5, <1>6 DEF Next, Settle

(* Every quiescence proof certifies the true totals of its subtree, when it *)
(* is made and ever after.                                                  *)
THEOREM ExactProofs == Spec => []ProofsAreExact
<1> DEFINE Inv == CoreInv /\ ProofsAreExact
<1>1. Init => Inv
  <2>1. Init => ProofsAreExact
    BY DEF Init, ProofsAreExact, Live
  <2> QED
    BY <2>1, InitInv
<1>2. Inv /\ [Next]_treeVars => Inv'
  BY NextInv, NextExact
<1>3. Inv => ProofsAreExact
  OBVIOUS
<1> QED
  BY <1>1, <1>2, <1>3, PTL DEF Spec

-----------------------------------------------------------------------------
(* The tree under owned execution.                                          *)

(* A root authority over a tree of nothing but its root.                    *)
LEMMA ExecInitTree == ExecInit => CoreInv
  BY InitInv DEF ExecInit

(* Every step of owned execution is a step of the tree, or leaves it alone. *)
LEMMA ExecTree ==
  ASSUME CoreInv, ExecTypeOK, RunningIsKnown, [ExecNext]_vars
  PROVE  CoreInv'
<1>0. running # None =>
        running.region \in Live /\ running.region \in Regions /\ running.task \in Tasks
  BY DEF RunningIsKnown, Live, ExecTypeOK
<1>1. CASE \E p, c \in Regions, k \in KindsUsed, a \in Allowances, dl \in Deadlines, now \in ScopeTimes :
             ScopeDown(p, c, k, a, dl, now)
  BY <1>1, AttachChildInv DEF ScopeDown
<1>2. CASE \E p, c \in Regions : Release(p, c)
  BY <1>2, StutterInv DEF Release
<1>3. CASE \E r \in Regions : DropHandle(r)
  BY <1>3, StutterInv DEF DropHandle
<1>4. CASE \E r \in Regions : Close(r)
  BY <1>4, ClosureInv DEF Close
<1>5. CASE \E r \in Regions, o \in Obligations : RegisterOutside(r, o) \/ SettleOutside(r, o)
  BY <1>5, ObligationStepInv DEF RegisterOutside, Registers, SettleOutside, Settle
<1>6. CASE \E r \in Regions, t \in Tasks, now \in Times : BeginOwned(r, t, now)
  BY <1>6, TaskStepInv DEF BeginOwned
<1>7. CASE \E now \in Times, cost \in Costs, cleanup \in BOOLEAN : Admit(now, cost, cleanup)
  BY <1>7, StutterInv DEF Admit
<1>7a. CASE \E r \in Regions, cost \in Costs : SpendOutside(r, cost)
  BY <1>7a, StutterInv DEF SpendOutside
<1>8. CASE \E now \in Times : AdmitRefused(now)
  BY <1>8, StutterInv DEF AdmitRefused
<1>9. CASE \E now \in Times : TaskCancel(now)
  BY <1>0, <1>9, ClosureInv DEF TaskCancel
<1>10. ASSUME NEW now \in Times, TaskBeginDrain(now)
       PROVE  CoreInv'
  <2> DEFINE r == running.region
  <2>1. /\ r \in Live /\ state[r] \in {"active", "drain_requested"}
        /\ UNCHANGED <<kind, parent, task, obligation, note, quiescence>>
    BY <1>0, <1>10 DEF TaskBeginDrain
  <2>2. state' = [x \in Regions |->
                    CASE x = r -> "draining"
                      [] x \in DrainSet(r) /\ state[x] = "active" -> "drain_requested"
                      [] OTHER -> state[x]]
    BY <1>10 DEF TaskBeginDrain
  <2>3. state \in [Regions -> States]
    BY DEF CoreInv, TypeOK
  <2> HIDE DEF r
  <2>4. \A x \in Regions :
           \/ state'[x] = IF x \in DrainSet(r) /\ state[x] = "active" THEN "drain_requested"
                          ELSE state[x]
           \/ x = r /\ state'[x] = "draining"
    BY <2>2
  <2>5. state' \in [Regions -> States]
    BY <2>2, <2>3 DEF States
  <2> QED
    BY <2>1, <2>4, <2>5, RequestDrainInv
<1>11. CASE \E o \in Obligations, now \in Times : TaskRegisters(o, now) \/ TaskResolves(o, now)
  <2>1. "pending" \in ObligationStates
    BY DEF ObligationStates
  <2> QED
    BY <1>0, <1>11, <2>1, ObligationStepInv DEF TaskRegisters, Registers, TaskResolves, Settle
<1>12. CASE \E outcome \in Outcomes \ {"recovered"}, now \in Times : TaskReturns(outcome, now)
  BY <1>0, <1>12, TaskStepInv DEF TaskReturns
<1>13. CASE TaskLost
  BY <1>13, StutterInv DEF TaskLost
<1>14. CASE \E r \in Regions, t \in Tasks : RecoverTask(r, t)
  BY <1>14, TaskStepInv DEF RecoverTask
<1>15. CASE ExecRest \/ UNCHANGED vars
  BY <1>15, StutterInv DEF ExecRest, vars
<1> QED
  BY <1>1, <1>2, <1>3, <1>4, <1>5, <1>6, <1>7, <1>7a, <1>8, <1>9, <1>10, <1>11, <1>12, <1>13, <1>14,
     <1>15 DEF ExecNext

-----------------------------------------------------------------------------
(* Types, and the task in existence.                                        *)

TaskRecord == [region : Regions, task : Tasks, last : Times,
               draining : BOOLEAN, asked : BOOLEAN, late : BOOLEAN]

(* The first state has its type and no task.                                *)
LEMMA ExecInitType == ExecInit => ExecTypeOK /\ RunningIsKnown /\ HonestReceipts
<1> SUFFICES ASSUME ExecInit PROVE ExecTypeOK /\ RunningIsKnown /\ HonestReceipts
  OBVIOUS
<1>0. Live = {Process} /\ Zero \in Vector /\ RootAllowance \in Vector /\ 0 \in Times
      /\ deadline \in [Regions -> 0 .. NoDeadline]
  BY RegionAssumption, ExecutionAssumption DEF ExecInit, Init, Live, Zero, Vector, Times
<1>1. ExecTypeOK
  <2>1. \A r \in Scopes : Fits(consumed[r], limit[r])
    <3>1. Scopes = {Process}
      BY <1>0, RegionAssumption DEF ExecInit, Scopes
    <3>2. consumed[Process] = Zero /\ limit[Process] = RootAllowance
      BY RegionAssumption DEF ExecInit
    <3> QED
      BY <3>1, <3>2, ExecutionAssumption DEF Fits, Zero, Vector
  <2>2. \A r \in Regions, t \in Tasks : receipt[r][t] # "none" <=> task[r][t] = "completed"
    BY DEF ExecInit, Init
  <2>3. limit \in [Regions -> Vector] /\ consumed \in [Regions -> Vector]
    BY <1>0 DEF ExecInit
  <2>4. created \in [Regions -> Times] /\ stamp \in [Regions -> [Tasks -> Times]]
    BY <1>0 DEF ExecInit
  <2>5. /\ handle \in [Regions -> {"none", "held", "dropped"}] /\ outstanding \in [Regions -> Nat]
        /\ released \in [Regions -> BOOLEAN] /\ running = None
        /\ receipt \in [Regions -> [Tasks -> Outcomes \cup {"none"}]]
    BY DEF ExecInit
  <2> QED
    BY <1>0, <2>1, <2>2, <2>3, <2>4, <2>5 DEF ExecTypeOK
<1>2. RunningIsKnown
  BY <1>0 DEF ExecInit, RunningIsKnown
<1>3. HonestReceipts
  BY DEF ExecInit, HonestReceipts
<1> QED
  BY <1>1, <1>2, <1>3

(* A vector that fits can be taken away.                                    *)
LEMMA VectorFacts ==
  ASSUME NEW a \in Vector, NEW b \in Vector
  PROVE  /\ Plus(a, b) \in Vector
         /\ Fits(b, a) => Minus(a, b) \in Vector
         /\ \A d \in Dims : Plus(a, b)[d] = a[d] + b[d] /\ Minus(a, b)[d] = a[d] - b[d]
         /\ \A d \in Dims : a[d] \in Nat /\ b[d] \in Nat
  BY DEF Vector, Plus, Minus, Fits

(* The parts of the types that a step on the tree or on a task must keep:   *)
(* a scope's numbers are untouched.                                         *)
LEMMA TypeKept ==
  ASSUME ExecTypeOK, UNCHANGED <<kind, scopeVars>>,
         created' \in [Regions -> Times], stamp' \in [Regions -> [Tasks -> Times]],
         running' \in {None} \cup TaskRecord,
         receipt' \in [Regions -> [Tasks -> Outcomes \cup {"none"}]],
         \A r \in Regions, t \in Tasks : receipt'[r][t] # "none" <=> task'[r][t] = "completed"
  PROVE  ExecTypeOK'
<1>1. Scopes' = Scopes
  BY DEF Scopes, Live, scopeVars
<1> QED
  BY <1>1 DEF ExecTypeOK, scopeVars, TaskRecord, Fits

(* Charging a scope what fits in its allowance keeps it within it.          *)
LEMMA ChargeFits ==
  ASSUME NEW l \in Vector, NEW u \in Vector, NEW a \in Vector, Fits(u, l), Fits(a, Minus(l, u))
  PROVE  Plus(u, a) \in Vector /\ Fits(Plus(u, a), l)
  BY VectorFacts DEF Fits

(* The fields of the task record after it has observed a time.              *)
LEMMA ObservedTask ==
  ASSUME NEW u \in TaskRecord, NEW now \in Times
  PROVE  /\ [u EXCEPT !.last = now] \in TaskRecord
         /\ [u EXCEPT !.last = now].region = u.region /\ [u EXCEPT !.last = now].task = u.task
         /\ [u EXCEPT !.last = now].last = now
         /\ [u EXCEPT !.last = now].asked = u.asked
  BY DEF TaskRecord

(* Every step keeps the types.                                              *)
LEMMA ExecType ==
  ASSUME CoreInv, ExecTypeOK, FreshScopes, RunningIsKnown, [ExecNext]_vars
  PROVE  ExecTypeOK'
<1>0. /\ running # None => running \in TaskRecord /\ running.region \in Live
      /\ Live \subseteq Regions /\ Scopes = Live
      /\ \A r \in Live : Fits(consumed[r], limit[r]) /\ consumed[r] \in Vector /\ limit[r] \in Vector
      /\ \A a \in Allowances \cup Costs : a \in Vector
  BY ExecutionAssumption DEF RunningIsKnown, ExecTypeOK, TaskRecord, Live, Scopes, FreshScopes
<1>1. /\ handle \in [Regions -> {"none", "held", "dropped"}]
      /\ limit \in [Regions -> Vector] /\ consumed \in [Regions -> Vector]
      /\ outstanding \in [Regions -> Nat] /\ released \in [Regions -> BOOLEAN]
      /\ deadline \in [Regions -> 0 .. NoDeadline]
      /\ created \in [Regions -> Times] /\ stamp \in [Regions -> [Tasks -> Times]]
      /\ running \in {None} \cup TaskRecord
      /\ receipt \in [Regions -> [Tasks -> Outcomes \cup {"none"}]]
      /\ \A r \in Regions, t \in Tasks : receipt[r][t] # "none" <=> task[r][t] = "completed"
      /\ task \in [Regions -> [Tasks -> {"absent", "active", "completed"}]]
  BY DEF ExecTypeOK, TaskRecord, CoreInv, TypeOK
<1>2. ASSUME NEW p \in Regions, NEW c \in Regions, NEW k \in KindsUsed, NEW a \in Allowances,
             NEW dl \in Deadlines, NEW now \in ScopeTimes, ScopeDown(p, c, k, a, dl, now)
      PROVE  ExecTypeOK'
  <2>1. /\ p \in Live /\ c \notin Live /\ c # p /\ a \in Vector
        /\ kind' = [kind EXCEPT ![c] = k] /\ UNCHANGED task
    BY <1>0, <1>2 DEF ScopeDown, AttachChild, CanAttach, Live
  <2>2. Plus(consumed[p], a) \in Vector /\ Fits(Plus(consumed[p], a), limit[p])
    BY <1>0, <1>2, <2>1, ChargeFits DEF ScopeDown
  <2>3. /\ handle' \in [Regions -> {"none", "held", "dropped"}]
        /\ limit' \in [Regions -> Vector] /\ consumed' \in [Regions -> Vector]
        /\ outstanding' \in [Regions -> Nat]
        /\ deadline' \in [Regions -> 0 .. NoDeadline] /\ created' \in [Regions -> Times]
    BY <1>1, <1>2, <2>1, <2>2, ExecutionAssumption DEF ScopeDown
  <2>4. ASSUME NEW r \in Scopes'
        PROVE  Fits(consumed'[r], limit'[r])
    <3>1. r \in Regions /\ (r # c => r \in Live)
      BY <1>2, <2>1 DEF Scopes, Live, ScopeDown, CoreInv, TypeOK
    <3>2. CASE r = c
      <4>1. consumed'[c] = Zero /\ limit'[c] = a
        BY <1>1, <1>2, <2>1 DEF ScopeDown, FreshScopes
      <4> QED
        BY <2>1, <3>2, <4>1 DEF Fits, Zero, Vector
    <3>3. CASE r = p
      <4>1. consumed'[p] = Plus(consumed[p], a) /\ limit'[p] = limit[p]
        BY <1>1, <1>2, <2>1 DEF ScopeDown
      <4> QED
        BY <2>2, <3>3, <4>1
    <3>4. CASE r # c /\ r # p
      <4>1. consumed'[r] = consumed[r] /\ limit'[r] = limit[r]
        BY <1>1, <1>2, <3>1, <3>4 DEF ScopeDown
      <4> QED
        BY <1>0, <3>1, <3>4, <4>1
    <3> QED
      BY <3>2, <3>3, <3>4
  <2>5. UNCHANGED <<released, stamp, running, receipt>>
    BY <1>2 DEF ScopeDown
  <2> QED
    BY <1>1, <2>1, <2>3, <2>4, <2>5 DEF ExecTypeOK, TaskRecord, Fits
<1>3. ASSUME NEW p \in Regions, NEW c \in Regions, Release(p, c)
      PROVE  ExecTypeOK'
  <2> DEFINE back == Minus(limit[c], consumed[c])
  <2>1. p \in Live /\ c \in Live /\ UNCHANGED <<kind, task>>
    BY <1>3 DEF Release, Held, FreshScopes, treeVars
  <2>2. back \in Vector /\ Fits(back, consumed[p])
    BY <1>0, <1>3, <2>1, VectorFacts DEF Release
  <2>3. consumed' = [consumed EXCEPT ![p] = Minus(consumed[p], back)]
    BY <1>3 DEF Release
  <2> HIDE DEF back
  <2>4. Minus(consumed[p], back) \in Vector /\ Fits(Minus(consumed[p], back), limit[p])
    <3>1. Minus(consumed[p], back) \in Vector
      BY <1>0, <2>1, <2>2, VectorFacts
    <3>2. \A d \in Dims : /\ Minus(consumed[p], back)[d] = consumed[p][d] - back[d]
                          /\ back[d] \in Nat /\ consumed[p][d] \in Nat /\ limit[p][d] \in Nat
                          /\ consumed[p][d] <= limit[p][d]
      <4>1. consumed[p] \in Vector /\ limit[p] \in Vector /\ Fits(consumed[p], limit[p])
        BY <1>0, <2>1
      <4>2. \A d \in Dims : consumed[p][d] <= limit[p][d]
        BY <4>1 DEF Fits
      <4>3. \A d \in Dims : limit[p][d] \in Nat
        BY <4>1, VectorFacts
      <4>4. \A d \in Dims : /\ Minus(consumed[p], back)[d] = consumed[p][d] - back[d]
                            /\ back[d] \in Nat /\ consumed[p][d] \in Nat
        BY <4>1, <2>2, VectorFacts
      <4> QED
        BY <4>2, <4>3, <4>4
    <3>3. \A d \in Dims : Minus(consumed[p], back)[d] <= limit[p][d]
      BY <3>2
    <3> QED
      BY <3>1, <3>3 DEF Fits
  <2>5. /\ consumed' \in [Regions -> Vector] /\ outstanding' \in [Regions -> Nat]
        /\ released' \in [Regions -> BOOLEAN]
    <3>1. outstanding[p] \in Nat /\ outstanding[p] > 0
      BY <1>1, <1>3 DEF Release
    <3>2. outstanding[p] - 1 \in Nat
      BY <3>1
    <3> QED
      BY <1>1, <1>3, <2>3, <2>4, <3>2 DEF Release
  <2>6. UNCHANGED <<handle, limit, deadline, created, stamp, running, receipt>>
    BY <1>3 DEF Release, taskVars
  <2>7. \A r \in Scopes' : Fits(consumed'[r], limit'[r])
    <3>1. Scopes' = Live
      BY <1>0, <2>1, <2>6 DEF Scopes, Live
    <3>2. \A r \in Live : consumed'[r] = IF r = p THEN Minus(consumed[p], back) ELSE consumed[r]
      BY <1>0, <1>1, <2>3
    <3> QED
      BY <1>0, <2>4, <2>6, <3>1, <3>2
  <2> QED
    BY <1>1, <2>1, <2>5, <2>6, <2>7 DEF ExecTypeOK, TaskRecord, Fits
<1>4a. ASSUME NEW r \in Live, NEW cost \in Costs, Fits(cost, Minus(limit[r], consumed[r])),
              consumed' = [consumed EXCEPT ![r] = Plus(consumed[r], cost)],
              running' \in {None} \cup TaskRecord,
              UNCHANGED <<kind, task, handle, limit, outstanding, released, deadline, created, stamp,
                          receipt>>
       PROVE  ExecTypeOK'
  <2>1. cost \in Vector
    BY <1>0
  <2>2. Plus(consumed[r], cost) \in Vector /\ Fits(Plus(consumed[r], cost), limit[r])
    BY <1>0, <1>4a, <2>1, ChargeFits
  <2>3. \A x \in Scopes' : Fits(consumed'[x], limit'[x])
    <3>1. Scopes' = Live
      BY <1>0, <1>4a DEF Scopes, Live
    <3>2. \A x \in Live : consumed'[x] = IF x = r THEN Plus(consumed[r], cost) ELSE consumed[x]
      BY <1>0, <1>1, <1>4a
    <3> QED
      BY <1>0, <1>4a, <2>2, <3>1, <3>2
  <2> QED
    BY <1>0, <1>1, <1>4a, <2>2, <2>3 DEF ExecTypeOK, TaskRecord, Fits
<1>4. ASSUME NEW now \in Times, NEW cost \in Costs, NEW cleanup \in BOOLEAN,
             Admit(now, cost, cleanup)
      PROVE  ExecTypeOK'
  <2>1. /\ running.region \in Live /\ running \in TaskRecord
        /\ UNCHANGED <<kind, task, handle, limit, outstanding, released, deadline, created, stamp,
                        receipt>>
    BY <1>0, <1>4 DEF Admit, Observe, treeVars
  <2>2. /\ consumed' = [consumed EXCEPT ![running.region] = Plus(consumed[running.region], cost)]
        /\ running' = [running EXCEPT !.last = now]
        /\ Fits(cost, Minus(limit[running.region], consumed[running.region]))
    BY <1>4 DEF Admit, Observe
  <2>3. running' \in TaskRecord
    BY <2>1, <2>2, ObservedTask
  <2> QED
    BY <1>4a, <2>1, <2>2, <2>3
<1>4b. ASSUME NEW r \in Regions, NEW cost \in Costs, SpendOutside(r, cost)
       PROVE  ExecTypeOK'
  <2>1. r \in Live
    BY <1>4b DEF SpendOutside, Held, FreshScopes
  <2>2. /\ consumed' = [consumed EXCEPT ![r] = Plus(consumed[r], cost)]
        /\ Fits(cost, Minus(limit[r], consumed[r])) /\ running' = None
        /\ UNCHANGED <<kind, task, handle, limit, outstanding, released, deadline, created, stamp,
                        receipt>>
    BY <1>4b DEF SpendOutside, treeVars, taskVars
  <2> QED
    BY <1>4a, <2>1, <2>2
<1>5. ASSUME NEW r \in Regions, DropHandle(r)
      PROVE  ExecTypeOK'
  <2>1. Scopes' = Scopes
    BY <1>1, <1>5 DEF DropHandle, Scopes, Live, Held, treeVars
  <2> QED
    BY <1>1, <1>5, <2>1 DEF ExecTypeOK, DropHandle, treeVars, taskVars, Fits
<1>6. ASSUME \/ \E r \in Regions : Close(r)
             \/ \E r \in Regions, o \in Obligations : RegisterOutside(r, o) \/ SettleOutside(r, o)
      PROVE  ExecTypeOK'
  <2>1. UNCHANGED <<kind, task, scopeVars, created, stamp, running, receipt>>
    BY <1>6 DEF Close, SettleOutside, RequestDrain, BeginDrain, BeginFinalize, Finalize, Settle,
                ResolveObligation, RegisterOutside, Registers, RegisterObligation, taskVars
  <2> QED
    BY <1>1, <2>1, TypeKept
<1>7. ASSUME NEW r \in Regions, NEW t \in Tasks, NEW now \in Times, BeginOwned(r, t, now)
      PROVE  ExecTypeOK'
  <2>1. /\ running' \in TaskRecord /\ stamp' \in [Regions -> [Tasks -> Times]]
        /\ UNCHANGED <<kind, scopeVars, created, receipt>>
    BY <1>1, <1>7 DEF BeginOwned, RegisterTask, TaskRecord
  <2>2. task[r][t] = "absent" /\ task' = [task EXCEPT ![r][t] = "active"]
    BY <1>7 DEF BeginOwned, RegisterTask
  <2>3. \A q \in Regions, u \in Tasks : receipt'[q][u] # "none" <=> task'[q][u] = "completed"
    BY <1>1, <2>1, <2>2
  <2> QED
    BY <1>1, <2>1, <2>3, TypeKept
<1>8. ASSUME NEW now \in Times, AdmitRefused(now) \/ TaskCancel(now) \/ TaskBeginDrain(now)
      PROVE  ExecTypeOK'
  <2>1. UNCHANGED <<kind, task, scopeVars, created, stamp, receipt>>
    BY <1>8 DEF AdmitRefused, TaskCancel, TaskBeginDrain, RequestDrain, treeVars
  <2>2. PICK u \in TaskRecord : running' = [u EXCEPT !.last = now]
    <3>1. running \in TaskRecord
      BY <1>0, <1>8 DEF AdmitRefused, TaskCancel, TaskBeginDrain
    <3>2. /\ [running EXCEPT !.asked = TRUE] \in TaskRecord
          /\ [running EXCEPT !.draining = TRUE] \in TaskRecord
          /\ [running EXCEPT !.late = running.late \/ Past(now)] \in TaskRecord
      BY <3>1 DEF TaskRecord
    <3> QED
      BY <1>8, <3>2 DEF AdmitRefused, TaskCancel, TaskBeginDrain, Observe
  <2>3. running' \in TaskRecord
    BY <2>2, ObservedTask
  <2> QED
    BY <1>1, <2>1, <2>3, TypeKept
<1>9. ASSUME NEW o \in Obligations, NEW now \in Times, TaskRegisters(o, now) \/ TaskResolves(o, now)
      PROVE  ExecTypeOK'
  <2>1. UNCHANGED <<kind, task, scopeVars, created, stamp, receipt>>
    BY <1>9 DEF TaskRegisters, Registers, TaskResolves, RegisterObligation, Settle,
                ResolveObligation
  <2>2. running \in TaskRecord /\ running' = [running EXCEPT !.last = now]
    BY <1>0, <1>9 DEF TaskRegisters, TaskResolves, Observe
  <2>3. running' \in TaskRecord
    BY <2>2, ObservedTask
  <2> QED
    BY <1>1, <2>1, <2>3, TypeKept
<1>10. ASSUME NEW r \in Regions, NEW t \in Tasks, NEW outcome \in Outcomes, NEW now \in Times,
              CompleteTask(r, t), receipt' = [receipt EXCEPT ![r][t] = outcome],
              stamp' = [stamp EXCEPT ![r][t] = now], running' = None,
              UNCHANGED <<scopeVars, created>>
       PROVE  ExecTypeOK'
  <2>1. /\ stamp' \in [Regions -> [Tasks -> Times]]
        /\ receipt' \in [Regions -> [Tasks -> Outcomes \cup {"none"}]]
    BY <1>1, <1>10
  <2>2. task' = [task EXCEPT ![r][t] = "completed"] /\ UNCHANGED kind
    BY <1>10 DEF CompleteTask
  <2>3. outcome # "none"
    BY DEF Outcomes
  <2>4. \A q \in Regions, u \in Tasks : receipt'[q][u] # "none" <=> task'[q][u] = "completed"
    BY <1>1, <1>10, <2>2, <2>3
  <2> QED
    BY <1>1, <1>10, <2>1, <2>2, <2>4, TypeKept
<1>11. ASSUME NEW outcome \in Outcomes \ {"recovered"}, NEW now \in Times, TaskReturns(outcome, now)
       PROVE  ExecTypeOK'
  <2>1. running.region \in Regions /\ running.task \in Tasks
    BY <1>0, <1>11 DEF TaskReturns, TaskRecord
  <2> QED
    BY <1>10, <1>11, <2>1 DEF TaskReturns
<1>12. CASE TaskLost
  BY <1>1, <1>12, TypeKept DEF TaskLost, treeVars
<1>13. ASSUME NEW r \in Regions, NEW t \in Tasks, RecoverTask(r, t)
       PROVE  ExecTypeOK'
  <2>1. "recovered" \in Outcomes
    BY DEF Outcomes
  <2> QED
    BY <1>10, <1>13, <2>1 DEF RecoverTask
<1>14. CASE ExecRest \/ UNCHANGED vars
  BY <1>1, <1>14, TypeKept DEF ExecRest, vars, treeVars, taskVars
<1> QED
  BY <1>2, <1>3, <1>4, <1>4b, <1>5, <1>6, <1>7, <1>8, <1>9, <1>11, <1>12, <1>13, <1>14 DEF ExecNext

-----------------------------------------------------------------------------
(* Receipts.                                                                *)

(* The task in existence, and that it has no receipt yet.                   *)
LEMMA RunningFacts ==
  ASSUME ExecTypeOK, RunningIsKnown, running # None
  PROVE  /\ running \in TaskRecord /\ Me \in Regions \X Tasks
         /\ running.region \in Live /\ running.region \in Regions /\ running.task \in Tasks
         /\ running.last \in Times /\ seen[Me] = running.last
         /\ Me = <<running.region, running.task>>
         /\ task[running.region][running.task] = "active"
         /\ receipt[running.region][running.task] = "none"
         /\ running.asked <=> Me \in cancelled
<1>1. running \in TaskRecord
  BY DEF ExecTypeOK, TaskRecord
<1>2. running.region \in Regions /\ running.task \in Tasks /\ running.last \in Times
  BY <1>1 DEF TaskRecord
<1>3. task[running.region][running.task] = "active"
  BY DEF RunningIsKnown
<1>4. receipt[running.region][running.task] = "none"
  BY <1>2, <1>3 DEF ExecTypeOK
<1>5. Me \in Regions \X Tasks /\ Me = <<running.region, running.task>>
  BY <1>2 DEF Me
<1>6. /\ running.region \in Live /\ seen[Me] = running.last
      /\ running.asked <=> Me \in cancelled
  BY DEF RunningIsKnown
<1> QED
  BY <1>1, <1>2, <1>3, <1>4, <1>5, <1>6

(* A step that ends without a task and forgets no task.                     *)
LEMMA IdleKnown ==
  ASSUME RunningIsKnown, running' = None, UNCHANGED cancelled,
         seen' \in [Regions \X Tasks -> Times],
         \A x \in Regions \X Tasks : task'[x[1]][x[2]] = "absent" =>
           task[x[1]][x[2]] = "absent" /\ seen'[x] = seen[x]
  PROVE  RunningIsKnown'
  BY DEF RunningIsKnown

(* What observing a time does to the task and to what it has seen.          *)
LEMMA ObserveKnown ==
  ASSUME ExecTypeOK, RunningIsKnown, running # None, NEW now \in Times, now >= running.last,
         running' \in TaskRecord, running'.region = running.region, running'.task = running.task,
         running'.last = now, UNCHANGED <<kind, task>>,
         seen' = [seen EXCEPT ![Me] = IF now > seen[Me] THEN now ELSE seen[Me]],
         \/ UNCHANGED cancelled /\ running'.asked = running.asked
         \/ cancelled' = cancelled \cup {Me} /\ running'.asked = TRUE
  PROVE  RunningIsKnown'
<1>1. /\ Me \in Regions \X Tasks /\ seen[Me] = running.last /\ running.last \in Times
      /\ task[running.region][running.task] = "active" /\ running.region \in Live
      /\ Me = <<running.region, running.task>> /\ (running.asked <=> Me \in cancelled)
  BY RunningFacts
<1>2. Me' = Me /\ Live' = Live
  BY DEF Me, Live
<1>3. seen' = [seen EXCEPT ![Me] = now]
  <2>1. now \in Int /\ running.last \in Int
    BY <1>1, ExecutionAssumption DEF Times
  <2>2. (IF now > seen[Me] THEN now ELSE seen[Me]) = now
    BY <1>1, <2>1
  <2> QED
    BY <2>2
<1>4. seen \in [Regions \X Tasks -> Times] /\ cancelled \subseteq Regions \X Tasks
  BY DEF RunningIsKnown
<1>5. seen' \in [Regions \X Tasks -> Times] /\ cancelled' \subseteq Regions \X Tasks
  BY <1>1, <1>3, <1>4
<1>6. seen'[Me] = now
  BY <1>1, <1>3, <1>4
<1>7. running'.asked <=> Me \in cancelled'
  BY <1>1
<1>8. ASSUME NEW x \in Regions \X Tasks, task[x[1]][x[2]] = "absent"
      PROVE  seen'[x] = 0 /\ x \notin cancelled'
  <2>1. x # Me
    BY <1>1, <1>8
  <2> QED
    BY <1>3, <1>4, <1>8, <2>1 DEF RunningIsKnown
<1> QED
  BY <1>1, <1>2, <1>5, <1>6, <1>7, <1>8 DEF RunningIsKnown

(* Every step keeps what is known of the task in existence.                 *)
LEMMA ExecKnown ==
  ASSUME CoreInv, ExecTypeOK, RunningIsKnown, [ExecNext]_vars
  PROVE  RunningIsKnown'
<1>0. /\ seen \in [Regions \X Tasks -> Times] /\ cancelled \subseteq Regions \X Tasks
      /\ task \in [Regions -> [Tasks -> {"absent", "active", "completed"}]]
  BY DEF RunningIsKnown, CoreInv, TypeOK
<1>1. CASE /\ running = None /\ UNCHANGED <<running, cancelled, seen, task>>
  BY <1>0, <1>1, IdleKnown
<1>2. CASE \E p, c \in Regions, k \in KindsUsed, a \in Allowances, dl \in Deadlines, now \in ScopeTimes :
             ScopeDown(p, c, k, a, dl, now)
  BY <1>1, <1>2 DEF ScopeDown, AttachChild, observed
<1>3. CASE \E p, c \in Regions : Release(p, c)
  BY <1>1, <1>3 DEF Release, treeVars, taskVars, observed
<1>4. CASE \E r \in Regions : DropHandle(r)
  BY <1>1, <1>4 DEF DropHandle, treeVars, taskVars, observed
<1>5. CASE \E r \in Regions : Close(r)
  BY <1>1, <1>5 DEF Close, RequestDrain, BeginDrain, BeginFinalize, Finalize, taskVars, observed
<1>6. CASE \E r \in Regions, o \in Obligations : RegisterOutside(r, o) \/ SettleOutside(r, o)
  BY <1>1, <1>6 DEF RegisterOutside, Registers, RegisterObligation, SettleOutside, Settle,
                    ResolveObligation, taskVars, observed
<1>6a. CASE \E r \in Regions, cost \in Costs : SpendOutside(r, cost)
  BY <1>1, <1>6a DEF SpendOutside, treeVars, taskVars
<1>7. ASSUME NEW r \in Regions, NEW t \in Tasks, NEW now \in Times, BeginOwned(r, t, now)
      PROVE  RunningIsKnown'
  <2>1. /\ r \in Live /\ task[r][t] = "absent" /\ task' = [task EXCEPT ![r][t] = "active"]
        /\ seen' = [seen EXCEPT ![<<r, t>>] = now] /\ UNCHANGED <<kind, cancelled>>
    BY <1>7 DEF BeginOwned, RegisterTask
  <2>2. /\ running'.region = r /\ running'.task = t /\ running'.last = now
        /\ running'.asked = FALSE
    BY <1>7 DEF BeginOwned
  <2>3. seen' \in [Regions \X Tasks -> Times] /\ seen'[<<r, t>>] = now
    BY <1>0, <2>1
  <2>4. Live' = Live /\ task'[r][t] = "active" /\ Me' = <<r, t>>
    BY <1>0, <2>1, <2>2 DEF Live, Me
  <2>5. <<r, t>> \notin cancelled
    BY <2>1 DEF RunningIsKnown
  <2>6. ASSUME NEW x \in Regions \X Tasks, task'[x[1]][x[2]] = "absent"
        PROVE  seen'[x] = 0 /\ x \notin cancelled'
    <3>1. x # <<r, t>> /\ task[x[1]][x[2]] = "absent"
      BY <1>0, <2>1, <2>6
    <3> QED
      BY <1>0, <2>1, <3>1 DEF RunningIsKnown
  <2> QED
    BY <1>0, <2>1, <2>2, <2>3, <2>4, <2>5, <2>6 DEF RunningIsKnown
<1>8. ASSUME NEW now \in Times, NEW u \in TaskRecord, Observe(now, u),
             u.region = running.region, u.task = running.task,
             \/ UNCHANGED cancelled /\ u.asked = running.asked
             \/ cancelled' = cancelled \cup {Me} /\ u.asked = TRUE,
             UNCHANGED <<kind, task>>
      PROVE  RunningIsKnown'
  <2>1. /\ running # None /\ now >= running.last /\ running' = [u EXCEPT !.last = now]
        /\ seen' = [seen EXCEPT ![Me] = IF now > seen[Me] THEN now ELSE seen[Me]]
    BY <1>8 DEF Observe
  <2>2. /\ running' \in TaskRecord /\ running'.region = running.region
        /\ running'.task = running.task /\ running'.last = now /\ running'.asked = u.asked
    BY <1>8, <2>1, ObservedTask
  <2>3. \/ UNCHANGED cancelled /\ running'.asked = running.asked
        \/ cancelled' = cancelled \cup {Me} /\ running'.asked = TRUE
    BY <1>8, <2>2
  <2> QED
    BY <1>8, <2>1, <2>2, <2>3, ObserveKnown
<1>9. ASSUME running # None
      PROVE  /\ running \in TaskRecord
             /\ \A b \in BOOLEAN :
                  /\ [running EXCEPT !.late = b] \in TaskRecord
                  /\ [running EXCEPT !.late = b].region = running.region
                  /\ [running EXCEPT !.late = b].task = running.task
                  /\ [running EXCEPT !.late = b].asked = running.asked
             /\ [running EXCEPT !.asked = TRUE] \in TaskRecord
             /\ [running EXCEPT !.asked = TRUE].region = running.region
             /\ [running EXCEPT !.asked = TRUE].task = running.task
             /\ [running EXCEPT !.asked = TRUE].asked = TRUE
             /\ [running EXCEPT !.draining = TRUE] \in TaskRecord
             /\ [running EXCEPT !.draining = TRUE].region = running.region
             /\ [running EXCEPT !.draining = TRUE].task = running.task
             /\ [running EXCEPT !.draining = TRUE].asked = running.asked
  <2>1. running \in TaskRecord
    BY <1>9, RunningFacts
  <2> QED
    BY <2>1 DEF TaskRecord
<1>10. ASSUME NEW now \in Times, NEW cost \in Costs, NEW cleanup \in BOOLEAN,
              Admit(now, cost, cleanup)
       PROVE  RunningIsKnown'
  <2>1. Observe(now, running) /\ UNCHANGED <<kind, task, cancelled>> /\ running # None
    BY <1>10 DEF Admit, Observe, treeVars
  <2> QED
    BY <1>8, <1>9, <2>1
<1>11. ASSUME NEW now \in Times, AdmitRefused(now)
       PROVE  RunningIsKnown'
  <2> DEFINE b == running.late \/ Past(now)
  <2>1. /\ Observe(now, [running EXCEPT !.late = b]) /\ UNCHANGED <<kind, task, cancelled>>
        /\ running # None
    BY <1>11 DEF AdmitRefused, treeVars
  <2>2. b \in BOOLEAN
    OBVIOUS
  <2> HIDE DEF b
  <2> QED
    BY <1>8, <1>9, <2>1, <2>2
<1>12. ASSUME NEW now \in Times, TaskCancel(now)
       PROVE  RunningIsKnown'
  <2>1. /\ Observe(now, [running EXCEPT !.asked = TRUE]) /\ UNCHANGED <<kind, task>>
        /\ running # None /\ cancelled' = cancelled \cup {Me}
    BY <1>12 DEF TaskCancel, RequestDrain
  <2> QED
    BY <1>8, <1>9, <2>1
<1>13. ASSUME NEW now \in Times, TaskBeginDrain(now)
       PROVE  RunningIsKnown'
  <2>1. /\ Observe(now, [running EXCEPT !.draining = TRUE]) /\ UNCHANGED <<kind, task, cancelled>>
        /\ running # None
    BY <1>13 DEF TaskBeginDrain
  <2> QED
    BY <1>8, <1>9, <2>1
<1>14. ASSUME NEW o \in Obligations, NEW now \in Times, TaskRegisters(o, now) \/ TaskResolves(o, now)
       PROVE  RunningIsKnown'
  <2>1. Observe(now, running) /\ UNCHANGED <<kind, task, cancelled>> /\ running # None
    BY <1>14 DEF TaskRegisters, Registers, TaskResolves, RegisterObligation, Settle,
                 ResolveObligation
  <2> QED
    BY <1>8, <1>9, <2>1
<1>15. ASSUME NEW outcome \in Outcomes, NEW now \in Times, TaskReturns(outcome, now)
       PROVE  RunningIsKnown'
  <2>1. /\ running # None /\ running' = None /\ UNCHANGED cancelled
        /\ seen' = [seen EXCEPT ![Me] = IF now > seen[Me] THEN now ELSE seen[Me]]
        /\ task' = [task EXCEPT ![running.region][running.task] = "completed"]
    BY <1>15 DEF TaskReturns, CompleteTask
  <2>2. Me \in Regions \X Tasks /\ Me = <<running.region, running.task>>
        /\ running.region \in Regions /\ running.task \in Tasks
    BY <2>1, RunningFacts
  <2>3. seen' \in [Regions \X Tasks -> Times]
    BY <1>0, <2>1, <2>2
  <2>4. ASSUME NEW x \in Regions \X Tasks, task'[x[1]][x[2]] = "absent"
        PROVE  task[x[1]][x[2]] = "absent" /\ seen'[x] = seen[x]
    <3>1. x # Me /\ task[x[1]][x[2]] = "absent"
      BY <1>0, <2>1, <2>2, <2>4
    <3> QED
      BY <1>0, <2>1, <3>1
  <2> QED
    BY <2>1, <2>3, <2>4, IdleKnown
<1>16. CASE TaskLost
  <2>1. running' = None /\ UNCHANGED <<cancelled, seen, task>>
    BY <1>16 DEF TaskLost, treeVars, observed
  <2> QED
    BY <1>0, <2>1, IdleKnown
<1>17. ASSUME NEW r \in Regions, NEW t \in Tasks, RecoverTask(r, t)
       PROVE  RunningIsKnown'
  <2>1. /\ running' = None /\ UNCHANGED <<cancelled, seen>>
        /\ task' = [task EXCEPT ![r][t] = "completed"]
    BY <1>17 DEF RecoverTask, CompleteTask, observed
  <2>2. \A x \in Regions \X Tasks : task'[x[1]][x[2]] = "absent" => task[x[1]][x[2]] = "absent"
    BY <1>0, <2>1
  <2> QED
    BY <1>0, <2>1, <2>2, IdleKnown
<1>18. CASE ExecRest \/ UNCHANGED vars
  <2>1. UNCHANGED <<kind, task, running, cancelled, seen>>
    BY <1>18 DEF ExecRest, vars, treeVars, taskVars, observed
  <2> QED
    BY <2>1 DEF RunningIsKnown, Me, Live
<1> QED
  BY <1>2, <1>3, <1>4, <1>5, <1>6, <1>6a, <1>7, <1>10, <1>11, <1>12, <1>13, <1>14, <1>15, <1>16, <1>17,
     <1>18 DEF ExecNext

(* A step that publishes no receipt, moves no deadline of a region in use,  *)
(* and shows times and requests only to the task in existence.              *)
LEMMA HonestKept ==
  ASSUME ExecTypeOK, RunningIsKnown, HonestReceipts, UNCHANGED <<receipt, late>>,
         \A x \in Regions \X Tasks :
           receipt[x[1]][x[2]] # "none" =>
             /\ seen'[x] = seen[x] /\ (x \in cancelled' <=> x \in cancelled)
             /\ deadline'[x[1]] = deadline[x[1]]
  PROVE  HonestReceipts'
<1>1. ASSUME NEW r \in Regions, NEW t \in Tasks
      PROVE  /\ receipt'[r][t] = "success" =>
                  <<r, t>> \notin cancelled' /\ seen'[<<r, t>>] < deadline'[r]
             /\ receipt'[r][t] = "cancelled" => <<r, t>> \in cancelled'
  <2>1. <<r, t>> \in Regions \X Tasks /\ receipt'[r][t] = receipt[r][t]
    OBVIOUS
  <2>2. /\ receipt[r][t] = "success" => <<r, t>> \notin cancelled /\ seen[<<r, t>>] < deadline[r]
        /\ receipt[r][t] = "cancelled" => <<r, t>> \in cancelled
    BY DEF HonestReceipts
  <2>3. receipt[r][t] # "none" =>
             /\ seen'[<<r, t>>] = seen[<<r, t>>] /\ (<<r, t>> \in cancelled' <=> <<r, t>> \in cancelled)
             /\ deadline'[r] = deadline[r]
    BY <2>1
  <2>4. CASE receipt[r][t] = "none"
    BY <2>1, <2>4
  <2>5. CASE receipt[r][t] # "none"
    BY <2>1, <2>2, <2>3, <2>5
  <2> QED
    BY <2>4, <2>5
<1>2. late' = {}
  BY DEF HonestReceipts
<1> QED
  BY <1>1, <1>2 DEF HonestReceipts

(* Every step keeps the receipts honest.                                    *)
LEMMA ExecHonest ==
  ASSUME CoreInv, ExecTypeOK, FreshScopes, RunningIsKnown, HonestReceipts, [ExecNext]_vars
  PROVE  HonestReceipts'
<1>0. /\ seen \in [Regions \X Tasks -> Times] /\ cancelled \subseteq Regions \X Tasks
      /\ receipt \in [Regions -> [Tasks -> Outcomes \cup {"none"}]]
      /\ deadline \in [Regions -> 0 .. NoDeadline]
      /\ task \in [Regions -> [Tasks -> {"absent", "active", "completed"}]]
  BY DEF RunningIsKnown, CoreInv, TypeOK, ExecTypeOK
<1>1. CASE UNCHANGED <<receipt, late, cancelled, seen, deadline>>
  BY <1>1, HonestKept
<1>2. ASSUME NEW p \in Regions, NEW c \in Regions, NEW k \in KindsUsed, NEW a \in Allowances,
             NEW dl \in Deadlines, NEW now \in ScopeTimes, ScopeDown(p, c, k, a, dl, now)
      PROVE  HonestReceipts'
  <2>1. /\ c \notin Live /\ deadline' = [deadline EXCEPT ![c] = dl]
        /\ UNCHANGED <<receipt, late, cancelled, seen>>
    BY <1>2 DEF ScopeDown, AttachChild, CanAttach, Live, observed
  <2>2. \A t \in Tasks : receipt[c][t] = "none"
    BY <2>1 DEF CoreInv, FreshWhenAbsent, ExecTypeOK
  <2>3. ASSUME NEW x \in Regions \X Tasks, receipt[x[1]][x[2]] # "none"
        PROVE  deadline'[x[1]] = deadline[x[1]]
    BY <1>0, <2>1, <2>2, <2>3
  <2> QED
    BY <2>1, <2>3, HonestKept
<1>3. CASE \E p, c \in Regions : Release(p, c)
  BY <1>1, <1>3 DEF Release, taskVars, observed
<1>4. CASE \E r \in Regions : DropHandle(r) \/ Close(r)
  BY <1>1, <1>4 DEF DropHandle, Close, taskVars, observed, scopeVars
<1>5. CASE \E r \in Regions, o \in Obligations : RegisterOutside(r, o) \/ SettleOutside(r, o)
  BY <1>1, <1>5 DEF RegisterOutside, SettleOutside, taskVars, observed, scopeVars
<1>5a. CASE \E r \in Regions, cost \in Costs : SpendOutside(r, cost)
  BY <1>1, <1>5a DEF SpendOutside, taskVars
<1>6. ASSUME NEW r \in Regions, NEW t \in Tasks, NEW now \in Times, BeginOwned(r, t, now)
      PROVE  HonestReceipts'
  <2>1. /\ task[r][t] = "absent" /\ seen' = [seen EXCEPT ![<<r, t>>] = now]
        /\ UNCHANGED <<receipt, late, cancelled, deadline>>
    BY <1>6 DEF BeginOwned, RegisterTask, scopeVars
  <2>2. receipt[r][t] = "none"
    BY <2>1 DEF ExecTypeOK
  <2>3. ASSUME NEW x \in Regions \X Tasks, receipt[x[1]][x[2]] # "none"
        PROVE  seen'[x] = seen[x]
    <3>1. x # <<r, t>>
      BY <2>2, <2>3
    <3> QED
      BY <1>0, <2>1, <3>1
  <2> QED
    BY <2>1, <2>3, HonestKept
<1>7. ASSUME running # None, UNCHANGED <<receipt, late, deadline>>,
             NEW v, seen' = [seen EXCEPT ![Me] = v],
             cancelled' = cancelled \/ cancelled' = cancelled \cup {Me}
      PROVE  HonestReceipts'
  <2>1. Me = <<running.region, running.task>> /\ receipt[running.region][running.task] = "none"
    BY <1>7, RunningFacts
  <2>2. ASSUME NEW x \in Regions \X Tasks, receipt[x[1]][x[2]] # "none"
        PROVE  seen'[x] = seen[x] /\ (x \in cancelled' <=> x \in cancelled)
    <3>1. x # Me
      BY <2>1, <2>2
    <3> QED
      BY <1>0, <1>7, <3>1
  <2> QED
    BY <1>7, <2>2, HonestKept
<1>8. ASSUME NEW now \in Times, NEW cost \in Costs, NEW cleanup \in BOOLEAN,
             Admit(now, cost, cleanup)
      PROVE  HonestReceipts'
  <2>1. /\ running # None /\ now >= running.last /\ ~(now >= deadline[running.region])
        /\ seen' = [seen EXCEPT ![Me] = IF now > seen[Me] THEN now ELSE seen[Me]]
        /\ late' = IF seen[Me] >= deadline[running.region] THEN late \cup {Me} ELSE late
        /\ UNCHANGED <<receipt, cancelled, deadline>>
    BY <1>8 DEF Admit, Observe, Past
  <2>2. seen[Me] = running.last /\ running.last \in Times /\ running.region \in Regions
    BY <2>1, RunningFacts
  <2>3. /\ deadline[running.region] \in Int /\ now \in Int /\ running.last \in Int
    BY <1>0, <2>2, ExecutionAssumption DEF Times, NoDeadline
  <2>4. ~(seen[Me] >= deadline[running.region])
    BY <2>1, <2>2, <2>3
  <2>5. UNCHANGED late
    BY <2>1, <2>4
  <2> QED
    BY <1>7, <2>1, <2>5
<1>9. ASSUME NEW now \in Times, AdmitRefused(now) \/ TaskCancel(now) \/ TaskBeginDrain(now)
      PROVE  HonestReceipts'
  <2>1. /\ running # None /\ UNCHANGED <<receipt, late, deadline>>
        /\ seen' = [seen EXCEPT ![Me] = IF now > seen[Me] THEN now ELSE seen[Me]]
        /\ cancelled' = cancelled \/ cancelled' = cancelled \cup {Me}
    BY <1>9 DEF AdmitRefused, TaskCancel, TaskBeginDrain, Observe, scopeVars
  <2> QED
    BY <1>7, <2>1
<1>10. ASSUME NEW o \in Obligations, NEW now \in Times, TaskRegisters(o, now) \/ TaskResolves(o, now)
       PROVE  HonestReceipts'
  <2>1. /\ running # None /\ UNCHANGED <<receipt, late, deadline, cancelled>>
        /\ seen' = [seen EXCEPT ![Me] = IF now > seen[Me] THEN now ELSE seen[Me]]
    BY <1>10 DEF TaskRegisters, TaskResolves, Observe, scopeVars
  <2> QED
    BY <1>7, <2>1
<1>11. ASSUME NEW outcome \in Outcomes, NEW now \in Times, TaskReturns(outcome, now)
       PROVE  HonestReceipts'
  <2> DEFINE r == running.region
             t == running.task
  <2>1. /\ running # None /\ Completable(outcome, now)
        /\ receipt' = [receipt EXCEPT ![r][t] = outcome]
        /\ seen' = [seen EXCEPT ![Me] = IF now > seen[Me] THEN now ELSE seen[Me]]
        /\ UNCHANGED <<cancelled, late, deadline>>
    BY <1>11 DEF TaskReturns, scopeVars
  <2>2. /\ r \in Regions /\ t \in Tasks /\ Me = <<r, t>> /\ Me \in Regions \X Tasks
        /\ seen[Me] = running.last /\ running.last \in Times
        /\ running.asked <=> Me \in cancelled
    BY <2>1, RunningFacts
  <2>3. now >= running.last
    BY <2>1 DEF Completable
  <2>4. now \in Int /\ running.last \in Int
    BY <2>2, ExecutionAssumption DEF Times
  <2>5. seen'[Me] = now
    <3>1. (IF now > seen[Me] THEN now ELSE seen[Me]) = now
      BY <2>2, <2>3, <2>4
    <3> QED
      BY <1>0, <2>1, <2>2, <3>1
  <2>6. deadline[r] \in Int
    BY <1>0, <2>2, ExecutionAssumption DEF NoDeadline
  <2>7. outcome = "success" => Me \notin cancelled' /\ seen'[Me] < deadline'[r]
    <3>1. outcome = "success" => ~running.asked /\ ~(now >= deadline[r])
      BY <2>1 DEF Completable, Past
    <3>2. ~(now >= deadline[r]) => now < deadline[r]
      BY <2>4, <2>6
    <3> QED
      BY <2>1, <2>2, <2>5, <3>1, <3>2
  <2>8. outcome = "cancelled" => Me \in cancelled'
    BY <2>1, <2>2 DEF Completable
  <2>9. receipt'[r][t] = outcome
    BY <1>0, <2>1, <2>2
  <2>10. ASSUME NEW q \in Regions, NEW u \in Tasks, <<q, u>> # Me
         PROVE  receipt'[q][u] = receipt[q][u] /\ seen'[<<q, u>>] = seen[<<q, u>>]
    <3>1. q # r \/ u # t
      BY <2>2, <2>10
    <3>2. receipt'[q][u] = receipt[q][u]
      BY <1>0, <2>1, <2>2, <3>1
    <3>3. seen'[<<q, u>>] = seen[<<q, u>>]
      BY <1>0, <2>1, <2>10
    <3> QED
      BY <3>2, <3>3
  <2> HIDE DEF r, t
  <2>11. ASSUME NEW q \in Regions, NEW u \in Tasks
         PROVE  /\ receipt'[q][u] = "success" =>
                     <<q, u>> \notin cancelled' /\ seen'[<<q, u>>] < deadline'[q]
                /\ receipt'[q][u] = "cancelled" => <<q, u>> \in cancelled'
    <3>1. CASE <<q, u>> = Me
      BY <2>2, <2>7, <2>8, <2>9, <3>1
    <3>2. CASE <<q, u>> # Me
      BY <2>1, <2>10, <3>2 DEF HonestReceipts
    <3> QED
      BY <3>1, <3>2
  <2> QED
    BY <2>1, <2>11 DEF HonestReceipts
<1>12. CASE TaskLost
  BY <1>1, <1>12 DEF TaskLost, observed, scopeVars
<1>13. ASSUME NEW r \in Regions, NEW t \in Tasks, RecoverTask(r, t)
       PROVE  HonestReceipts'
  <2>1. /\ receipt' = [receipt EXCEPT ![r][t] = "recovered"]
        /\ UNCHANGED <<cancelled, seen, late, deadline>>
    BY <1>13 DEF RecoverTask, observed, scopeVars
  <2>2. \A q \in Regions, u \in Tasks :
          receipt'[q][u] = receipt[q][u] \/ receipt'[q][u] = "recovered"
    BY <1>0, <2>1
  <2> QED
    BY <2>1, <2>2 DEF HonestReceipts
<1>14. CASE ExecRest \/ UNCHANGED vars
  BY <1>1, <1>14 DEF ExecRest, vars, taskVars, observed, scopeVars
<1> QED
  BY <1>2, <1>3, <1>4, <1>5, <1>5a, <1>6, <1>8, <1>9, <1>10, <1>11, <1>12, <1>13, <1>14 DEF ExecNext

(* Every task that was begun in a closed region has its receipt.            *)
LEMMA ClosedHasReceipts ==
  ASSUME CoreInv, ExecTypeOK, RunningIsKnown
  PROVE  NoTaskLost
<1> SUFFICES ASSUME NEW x \in Begun, state[x[1]] = "closed"
             PROVE  receipt[x[1]][x[2]] # "none"
  BY DEF NoTaskLost
<1>1. x \in Regions \X Tasks /\ x[1] \in Regions /\ x[2] \in Tasks
  BY DEF Begun
<1>2. x[1] \in Live
  BY <1>1 DEF CoreInv, FreshWhenAbsent
<1>3. task[x[1]][x[2]] # "active"
  BY <1>1, <1>2 DEF CoreInv, ClosedHasSettled
<1>4. task[x[1]][x[2]] # "absent"
  <2>1. ~(0 > 0)
    OBVIOUS
  <2> QED
    BY <1>1, <2>1 DEF Begun, RunningIsKnown
<1>5. task[x[1]][x[2]] = "completed"
  BY <1>1, <1>3, <1>4 DEF CoreInv, TypeOK
<1> QED
  BY <1>1, <1>5 DEF ExecTypeOK

-----------------------------------------------------------------------------
(* Budgets, one dimension at a time.                                        *)

(* The work admitted in a region and below it.                              *)
SpentIn(c, d) == SumFunction([x \in Subtree(c) |-> spent[x][d]])

(* What a child scope costs its parent, and what all of them cost it.       *)
ChargeOf(c, d) == IF released[c] THEN SpentIn(c, d) ELSE limit[c][d]
ChargesTo(r, d) == SumFunction([c \in Children(r) |-> ChargeOf(c, d)])

ChargesByDim ==
  \A r \in Live, d \in Dims : consumed[r][d] = spent[r][d] + ChargesTo(r, d)

(* The parts of BudgetInv that only a change of scopes or budgets disturbs. *)
ScopeInv == FreshScopes /\ SettledIsClosed /\ OutstandingIsOpen /\ ChargesByDim

(* The sets summed over are finite and the terms are natural numbers.       *)
LEMMA BudgetTypes ==
  ASSUME CoreInv, ExecTypeOK, FreshScopes
  PROVE  /\ \A r \in Live : IsFiniteSet(Children(r)) /\ IsFiniteSet(Subtree(r))
         /\ \A r \in Live : Children(r) \subseteq Live /\ Subtree(r) \subseteq Live
         /\ \A r \in Regions, d \in Dims :
              /\ spent[r][d] \in Nat /\ limit[r][d] \in Nat /\ consumed[r][d] \in Nat
         /\ \A r \in Live, d \in Dims :
              /\ SpentIn(r, d) \in Nat /\ ChargeOf(r, d) \in Nat /\ ChargesTo(r, d) \in Nat
<1>0. Nested /\ Live \subseteq Regions
  BY DEF CoreInv, Live
<1>1. \A r \in Live : Children(r) \subseteq Live /\ Subtree(r) \subseteq Live
  BY <1>0, SubtreeSplit DEF Children
<1>2. \A r \in Live : IsFiniteSet(Children(r)) /\ IsFiniteSet(Subtree(r))
  BY <1>0, <1>1, RegionAssumption, FS_Subset
<1>3. \A r \in Regions, d \in Dims :
        /\ spent[r][d] \in Nat /\ limit[r][d] \in Nat /\ consumed[r][d] \in Nat
  BY DEF FreshScopes, ExecTypeOK, Vector
<1>4. ASSUME NEW r \in Live, NEW d \in Dims
      PROVE  SpentIn(r, d) \in Nat
  <2> DEFINE f == [x \in Subtree(r) |-> spent[x][d]]
  <2>1. f \in [Subtree(r) -> Nat]
    BY <1>0, <1>1, <1>3
  <2> HIDE DEF f
  <2>2. SumFunction(f) \in Nat
    BY <1>2, <2>1, SumType
  <2> QED
    BY <2>2 DEF SpentIn, f
<1>5. \A r \in Live, d \in Dims : ChargeOf(r, d) \in Nat
  BY <1>0, <1>3, <1>4 DEF ChargeOf
<1>6. ASSUME NEW r \in Live, NEW d \in Dims
      PROVE  ChargesTo(r, d) \in Nat
  <2> DEFINE f == [c \in Children(r) |-> ChargeOf(c, d)]
  <2>1. f \in [Children(r) -> Nat]
    BY <1>1, <1>5
  <2> HIDE DEF f
  <2>2. SumFunction(f) \in Nat
    BY <1>2, <2>1, SumType
  <2> QED
    BY <2>2 DEF ChargesTo, f
<1> QED
  BY <1>1, <1>2, <1>3, <1>4, <1>5, <1>6

(* The work in a subtree is that of its root and that below its children.   *)
LEMMA SpentSplit ==
  ASSUME CoreInv, ExecTypeOK, FreshScopes, NEW c \in Live, NEW d \in Dims
  PROVE  SpentIn(c, d) = spent[c][d] + SumFunction([x \in Children(c) |-> SpentIn(x, d)])
<1> DEFINE C == Children(c)
           F == [x \in C |-> Subtree(x)]
           T == Subtree(c)
           S == T \ {c}
           w == [x \in T |-> spent[x][d]]
           f == [x \in S |-> spent[x][d]]
           h == [x \in C |-> SpentIn(x, d)]
<1>0. Nested /\ Live \subseteq Regions
  BY DEF CoreInv, Live
<1>1. /\ IsFiniteSet(C) /\ IsFiniteSet(T) /\ C \subseteq Live /\ T \subseteq Live
      /\ \A x \in C : IsFiniteSet(F[x])
      /\ \A r \in Regions : spent[r][d] \in Nat
  BY BudgetTypes
<1>2. IsFiniteSet(S)
  BY <1>1, FS_RemoveElement
<1>3. \A x, y \in C : x # y => F[x] \cap F[y] = {}
  BY <1>0, SubtreeSplit
<1>4. \A x : x \in S <=> \E y \in C : x \in F[y]
  <2>1. T = {c} \cup UNION {Subtree(y) : y \in C}
    BY <1>0, SubtreeSplit
  <2>2. \A y \in C : c \notin Subtree(y)
    BY <1>0, SubtreeSplit
  <2> QED
    BY <2>1, <2>2
<1>5. f \in [S -> Nat] /\ w \in [T -> Nat] /\ c \in T /\ \A x \in T \ {c} : f[x] = w[x]
  BY <1>0, <1>1, SubtreeRoot
<1>6. ASSUME NEW x \in C
      PROVE  h[x] = SumFunction([y \in F[x] |-> f[y]])
  <2>1. F[x] = Subtree(x) /\ \A y \in Subtree(x) : f[y] = spent[y][d]
    BY <1>4
  <2>2. [y \in F[x] |-> f[y]] = [y \in Subtree(x) |-> spent[y][d]]
    BY <2>1
  <2> QED
    BY <2>2 DEF SpentIn
<1>7. DOMAIN h = C /\ w[c] = spent[c][d]
  BY <1>5
<1>8. SumFunction(f) \in Nat /\ spent[c][d] \in Nat
  BY <1>0, <1>1, <1>2, <1>5, SumType
<1>9. SpentIn(c, d) = SumFunction(w)
  BY DEF SpentIn
<1>10. SumFunction(h) = SumFunction([x \in Children(c) |-> SpentIn(x, d)])
  OBVIOUS
<1> HIDE DEF C, F, S, T, f, h, w
<1>11. SumFunction(f) = SumFunction(h)
  <2>1. IsFiniteSet(C) /\ (\A x \in C : IsFiniteSet(F[x])) /\ f \in [S -> Nat] /\ DOMAIN h = C
    BY <1>1, <1>5, <1>7
  <2>2. \A x \in C : h[x] = SumFunction([y \in F[x] |-> f[y]])
    BY <1>6
  <2> QED
    BY ONLY <1>2, <1>3, <1>4, <2>1, <2>2, SumPartition
<1>12. f \in [T \ {c} -> Nat]
  BY <1>5 DEF S
<1>13. SumFunction(w) = SumFunction(f) + w[c]
  BY <1>1, <1>5, <1>12, SumRemove
<1> QED
  BY <1>7, <1>8, <1>9, <1>10, <1>11, <1>13

(* A scope that has nothing outstanding has consumed exactly the work done  *)
(* in it and below it.                                                      *)
LEMMA SettledConsumption ==
  ASSUME CoreInv, ExecTypeOK, ScopeInv, NEW c \in Live, outstanding[c] = 0
  PROVE  \A d \in Dims : consumed[c][d] = SpentIn(c, d)
<1>0. FreshScopes /\ OutstandingIsOpen /\ ChargesByDim
  BY DEF ScopeInv
<1>1. IsFiniteSet(Children(c))
  BY <1>0, BudgetTypes
<1>2. IsFiniteSet({x \in Children(c) : ~released[x]})
  BY <1>1, FS_Subset
<1>3. Cardinality({x \in Children(c) : ~released[x]}) = 0
  BY <1>0 DEF OutstandingIsOpen
<1>4. {x \in Children(c) : ~released[x]} = {}
  BY <1>2, <1>3, FS_EmptySet
<1> TAKE d \in Dims
<1>5. \A x \in Children(c) : ChargeOf(x, d) = SpentIn(x, d)
  BY <1>4 DEF ChargeOf
<1>6. [x \in Children(c) |-> ChargeOf(x, d)] = [x \in Children(c) |-> SpentIn(x, d)]
  BY <1>5
<1>7. ChargesTo(c, d) = SumFunction([x \in Children(c) |-> SpentIn(x, d)])
  BY <1>6 DEF ChargesTo
<1>8. consumed[c][d] = spent[c][d] + ChargesTo(c, d)
  BY <1>0 DEF ChargesByDim
<1> QED
  BY <1>0, <1>7, <1>8, SpentSplit

(* If the work below every child fits the child's allowance, the work below *)
(* the region fits its own.                                                 *)
LEMMA FitsUpward ==
  ASSUME CoreInv, ExecTypeOK, ScopeInv, NEW r \in Live, NEW d \in Dims,
         \A c \in Children(r) : SpentIn(c, d) <= limit[c][d]
  PROVE  SpentIn(r, d) <= limit[r][d]
<1> DEFINE f == [c \in Children(r) |-> SpentIn(c, d)]
           g == [c \in Children(r) |-> ChargeOf(c, d)]
<1>0. FreshScopes /\ ChargesByDim /\ r \in Regions
  BY DEF ScopeInv, Live
<1>1. /\ IsFiniteSet(Children(r)) /\ Children(r) \subseteq Live
      /\ \A c \in Live : SpentIn(c, d) \in Nat /\ ChargeOf(c, d) \in Nat
      /\ spent[r][d] \in Nat /\ limit[r][d] \in Nat
  BY <1>0, BudgetTypes
<1>2. \A c \in Children(r) : SpentIn(c, d) <= ChargeOf(c, d)
  <2> TAKE c \in Children(r)
  <2>1. SpentIn(c, d) \in Nat
    BY <1>1
  <2>2. SpentIn(c, d) <= SpentIn(c, d)
    BY <2>1
  <2> QED
    BY <2>2 DEF ChargeOf
<1>3. f \in [Children(r) -> Nat] /\ g \in [Children(r) -> Nat]
  BY <1>1
<1>4. \A c \in Children(r) : f[c] <= g[c]
  BY <1>2
<1>5. SpentIn(r, d) = spent[r][d] + SumFunction(f)
  BY <1>0, SpentSplit
<1>6. consumed[r][d] = spent[r][d] + SumFunction(g)
  BY <1>0 DEF ChargesByDim, ChargesTo
<1>7. consumed[r][d] <= limit[r][d]
  BY <1>0 DEF ExecTypeOK, Scopes, FreshScopes, Fits
<1> HIDE DEF f, g
<1>8. SumFunction(f) <= SumFunction(g) /\ SumFunction(f) \in Nat /\ SumFunction(g) \in Nat
  BY <1>1, <1>3, <1>4, SumMonotone, SumType
<1> QED
  BY <1>1, <1>5, <1>6, <1>7, <1>8

(* So it fits everywhere, from the leaves of the tree up to its root.       *)
LEMMA FitsEverywhere ==
  ASSUME CoreInv, ExecTypeOK, ScopeInv
  PROVE  \A r \in Live, d \in Dims : SpentIn(r, d) <= limit[r][d]
<1> DEFINE At(n) == \A r \in Live, d \in Dims :
                      Depth(kind[r]) = n => SpentIn(r, d) <= limit[r][d]
<1>0. Nested
  BY DEF CoreInv
<1>1. ASSUME NEW r \in Live, NEW c \in Children(r)
      PROVE  c \in Live /\ Depth(kind[c]) = Depth(kind[r]) + 1 /\ Depth(kind[r]) \in 0 .. 2
  BY <1>0, ParentFacts DEF Children, Live
<1>2. At(3)
  <2> SUFFICES ASSUME NEW r \in Live, NEW d \in Dims, Depth(kind[r]) = 3
               PROVE  SpentIn(r, d) <= limit[r][d]
    OBVIOUS
  <2>1. Children(r) = {}
    BY <1>1
  <2> QED
    BY <2>1, FitsUpward
<1>3. ASSUME NEW n \in {0, 1, 2}, At(n + 1)
      PROVE  At(n)
  <2> SUFFICES ASSUME NEW r \in Live, NEW d \in Dims, Depth(kind[r]) = n
               PROVE  SpentIn(r, d) <= limit[r][d]
    OBVIOUS
  <2>1. \A c \in Children(r) : SpentIn(c, d) <= limit[c][d]
    BY <1>1, <1>3
  <2> QED
    BY <2>1, FitsUpward
<1>4. \A r \in Live : Depth(kind[r]) \in {0, 1, 2, 3}
  BY DEF Depth
<1> HIDE DEF At
<1>5. At(2)
  <2>1. At(2 + 1)
    BY <1>2
  <2> QED
    BY <1>3, <2>1
<1>6. At(1)
  <2>1. At(1 + 1)
    BY <1>5
  <2> QED
    BY <1>3, <2>1
<1>7. At(0)
  <2>1. At(0 + 1)
    BY <1>6
  <2> QED
    BY <1>3, <2>1
<1> QED
  BY <1>2, <1>4, <1>5, <1>6, <1>7 DEF At

(* The componentwise form gives the one the runs check.                     *)
LEMMA ScopeGivesBudget ==
  ASSUME CoreInv, ExecTypeOK, RunningIsKnown, ScopeInv
  PROVE  BudgetInv
<1>0. FreshScopes /\ ChargesByDim /\ SettledIsClosed /\ OutstandingIsOpen
  BY DEF ScopeInv
<1>1. Scopes = Live /\ Live \subseteq Regions
  BY <1>0 DEF Scopes, FreshScopes, Live
<1>2. \A r, d : d \in Dims => SpentBelow(r)[d] = SpentIn(r, d)
  BY DEF SpentBelow, SumOf, SpentIn
<1>3. WorkFitsAllowance
  BY <1>1, <1>2, FitsEverywhere DEF WorkFitsAllowance, Fits
<1>4. ChargesAreExact
  <2> SUFFICES ASSUME NEW r \in Live
               PROVE  consumed[r] = Plus(spent[r], SumOf([c \in Children(r) |-> Charge(c)], Children(r)))
    BY <1>1 DEF ChargesAreExact
  <2> DEFINE G == [c \in Children(r) |-> Charge(c)]
  <2>1. ASSUME NEW d \in Dims
        PROVE  consumed[r][d] = spent[r][d] + SumOf(G, Children(r))[d]
    <3>1. \A c \in Children(r) : G[c][d] = ChargeOf(c, d)
      BY <1>2 DEF Charge, ChargeOf
    <3>2. [c \in Children(r) |-> G[c][d]] = [c \in Children(r) |-> ChargeOf(c, d)]
      BY <3>1
    <3>3. SumOf(G, Children(r))[d] = SumFunction([c \in Children(r) |-> G[c][d]])
      BY DEF SumOf
    <3>4. SumOf(G, Children(r))[d] = ChargesTo(r, d)
      BY <3>2, <3>3 DEF ChargesTo
    <3> QED
      BY <1>0, <3>4 DEF ChargesByDim
  <2> HIDE DEF G
  <2>2. DOMAIN consumed[r] = Dims
    BY <1>1 DEF ExecTypeOK, Vector
  <2>3. consumed[r] = [d \in Dims |-> spent[r][d] + SumOf(G, Children(r))[d]]
    <3>1. consumed[r] \in Vector
      BY <1>1 DEF ExecTypeOK
    <3> QED
      BY <2>1, <3>1 DEF Vector
  <2> QED
    BY <2>3 DEF Plus, G
<1> QED
  BY <1>0, <1>3, <1>4 DEF BudgetInv

(* A root authority with nothing spent.                                     *)
LEMMA ExecInitScopes == ExecInit => ScopeInv
<1> SUFFICES ASSUME ExecInit PROVE ScopeInv
  OBVIOUS
<1>1. Live = {Process} /\ Process \in Regions /\ parent[Process] = None /\ None # Process
      /\ Zero \in Vector
  BY RegionAssumption DEF ExecInit, Init, Live, Zero, Vector
<1>2. Children(Process) = {}
  BY <1>1 DEF Children
<1>3. FreshScopes
  BY <1>1, RegionAssumption DEF ExecInit, FreshScopes
<1>4. SettledIsClosed
  BY <1>1 DEF ExecInit, SettledIsClosed
<1>5. OutstandingIsOpen
  <2>1. {c \in Children(Process) : ~released[c]} = {}
    BY <1>2
  <2>2. outstanding[Process] = 0
    BY <1>1 DEF ExecInit
  <2> QED
    BY <1>1, <2>1, <2>2, FS_EmptySet DEF OutstandingIsOpen
<1>6. ChargesByDim
  <2> SUFFICES ASSUME NEW d \in Dims
               PROVE  consumed[Process][d] = spent[Process][d] + ChargesTo(Process, d)
    BY <1>1 DEF ChargesByDim
  <2> DEFINE f == [c \in Children(Process) |-> ChargeOf(c, d)]
  <2>1. DOMAIN f = {} /\ f \in [{} -> Nat]
    BY <1>2
  <2>2. ChargesTo(Process, d) = SumFunction(f)
    BY DEF ChargesTo
  <2> HIDE DEF f
  <2>3. ChargesTo(Process, d) = 0
    BY <2>1, <2>2, SumEmpty
  <2>4. consumed[Process][d] = 0 /\ spent[Process][d] = 0
    BY <1>1 DEF ExecInit, Zero
  <2> QED
    BY <2>3, <2>4
<1> QED
  BY <1>3, <1>4, <1>5, <1>6 DEF ScopeInv

(* Work below a region that no step touches.                                *)
LEMMA SpentKept ==
  ASSUME NEW c, NEW d, Subtree(c)' = Subtree(c), \A x \in Subtree(c) : spent'[x][d] = spent[x][d]
  PROVE  SpentIn(c, d)' = SpentIn(c, d)
<1> DEFINE S == Subtree(c)
<1>1. SpentIn(c, d)' = SumFunction([x \in S' |-> spent'[x][d]])
  BY DEF SpentIn
<1>2. S' = S
  OBVIOUS
<1>3. \A x \in S : spent'[x][d] = spent[x][d]
  OBVIOUS
<1>4. SpentIn(c, d) = SumFunction([x \in S |-> spent[x][d]])
  BY DEF SpentIn
<1> HIDE DEF S
<1>5. [x \in S' |-> spent'[x][d]] = [x \in S |-> spent[x][d]]
  BY <1>2, <1>3
<1> QED
  BY <1>1, <1>4, <1>5

(* Charges of children that no step touches.                                *)
LEMMA ChargesKept ==
  ASSUME NEW r, NEW d, Children(r)' = Children(r),
         \A c \in Children(r) : ChargeOf(c, d)' = ChargeOf(c, d)
  PROVE  ChargesTo(r, d)' = ChargesTo(r, d)
<1>1. ChargesTo(r, d)' = SumFunction([c \in Children(r)' |-> ChargeOf(c, d)'])
  BY DEF ChargesTo
<1>2. [c \in Children(r)' |-> ChargeOf(c, d)'] = [c \in Children(r) |-> ChargeOf(c, d)]
  OBVIOUS
<1> QED
  BY <1>1, <1>2 DEF ChargesTo

(* Same shape of the tree, same subtrees.                                   *)
LEMMA ShapeSame ==
  ASSUME UNCHANGED <<kind, parent>>
  PROVE  Live' = Live /\ \A r : Children(r)' = Children(r) /\ Subtree(r)' = Subtree(r)
<1>1. Live' = Live
  BY DEF Live
<1> QED
  BY <1>1 DEF Children, Subtree, Below

(* The steps that leave every budget alone.                                 *)
BudgetNeutral ==
  /\ UNCHANGED <<kind, parent, limit, consumed, outstanding, released, spent>>
  /\ \A x \in Regions : handle'[x] = "none" <=> handle[x] = "none"
  /\ \A x \in Regions : state[x] = "closed" => state'[x] = "closed"

(* They keep all that is said of budgets.                                   *)
LEMMA NeutralKeepsScopes ==
  ASSUME ScopeInv, BudgetNeutral
  PROVE  ScopeInv'
<1>0. /\ UNCHANGED <<kind, parent, limit, consumed, outstanding, released, spent>>
      /\ Live' = Live /\ Live \subseteq Regions
      /\ \A r : Children(r)' = Children(r) /\ Subtree(r)' = Subtree(r)
  BY ShapeSame DEF BudgetNeutral, Live
<1>1. FreshScopes' /\ SettledIsClosed'
  BY <1>0 DEF ScopeInv, FreshScopes, SettledIsClosed, BudgetNeutral
<1>2. OutstandingIsOpen'
  BY <1>0 DEF ScopeInv, OutstandingIsOpen
<1>3. \A c, d : SpentIn(c, d)' = SpentIn(c, d)
  BY <1>0, SpentKept
<1>4. \A c, d : ChargeOf(c, d)' = ChargeOf(c, d)
  BY <1>0, <1>3 DEF ChargeOf
<1>5. \A r, d : ChargesTo(r, d)' = ChargesTo(r, d)
  BY <1>0, <1>4, ChargesKept
<1>6. ChargesByDim'
  BY <1>0, <1>5 DEF ScopeInv, ChargesByDim
<1> QED
  BY <1>1, <1>2, <1>6 DEF ScopeInv

(* Every step but a new scope, a refund or an admission is one of them.     *)
LEMMA StepsOnBudgets ==
  ASSUME CoreInv, ExecTypeOK, RunningIsKnown, [ExecNext]_vars
  PROVE  \/ \E p, c \in Regions, k \in KindsUsed, a \in Allowances, dl \in Deadlines, now \in ScopeTimes :
              ScopeDown(p, c, k, a, dl, now)
         \/ \E p, c \in Regions : Release(p, c)
         \/ \E now \in Times, cost \in Costs, cleanup \in BOOLEAN : Admit(now, cost, cleanup)
         \/ \E r \in Regions, cost \in Costs : SpendOutside(r, cost)
         \/ BudgetNeutral
<1>0. state \in [Regions -> States] /\ handle \in [Regions -> {"none", "held", "dropped"}]
  BY DEF CoreInv, TypeOK, ExecTypeOK
<1>1. ASSUME UNCHANGED <<kind, parent, state, scopeVars, spent>>
      PROVE  BudgetNeutral
  BY <1>1 DEF scopeVars, BudgetNeutral
<1>2. ASSUME NEW r \in Regions, DropHandle(r)
      PROVE  BudgetNeutral
  BY <1>0, <1>2 DEF DropHandle, Held, BudgetNeutral, treeVars, observed
<1>3. ASSUME NEW r \in Regions, RequestDrain(r) \/ BeginDrain(r) \/ BeginFinalize(r) \/ Finalize(r)
      PROVE  UNCHANGED <<kind, parent>> /\ \A x \in Regions : state[x] = "closed" => state'[x] = "closed"
  <2>1. CASE RequestDrain(r)
    BY <2>1 DEF RequestDrain
  <2>2. CASE BeginDrain(r) \/ BeginFinalize(r)
    BY <1>0, <2>2 DEF BeginDrain, BeginFinalize, Transitions
  <2>3. CASE Finalize(r)
    BY <1>0, <2>3 DEF Finalize
  <2> QED
    BY <1>3, <2>1, <2>2, <2>3
<1>4. ASSUME NEW r \in Regions, Close(r)
      PROVE  BudgetNeutral
  BY <1>3, <1>4 DEF Close, BudgetNeutral, scopeVars, observed
<1>5. ASSUME NEW r \in Regions, NEW o \in Obligations, RegisterOutside(r, o) \/ SettleOutside(r, o)
      PROVE  BudgetNeutral
  BY <1>1, <1>5 DEF RegisterOutside, Registers, RegisterObligation, SettleOutside, Settle,
                    ResolveObligation, observed
<1>6. ASSUME NEW r \in Regions, NEW t \in Tasks, NEW now \in Times, BeginOwned(r, t, now)
      PROVE  BudgetNeutral
  BY <1>1, <1>6 DEF BeginOwned, RegisterTask
<1>7. ASSUME NEW now \in Times, AdmitRefused(now)
      PROVE  BudgetNeutral
  BY <1>1, <1>7 DEF AdmitRefused, treeVars
<1>8. ASSUME NEW now \in Times, TaskCancel(now)
      PROVE  BudgetNeutral
  <2>1. running.region \in Regions
    BY <1>8, RunningFacts DEF TaskCancel
  <2> QED
    BY <1>3, <1>8, <2>1 DEF TaskCancel, BudgetNeutral, scopeVars
<1>9. ASSUME NEW now \in Times, TaskBeginDrain(now)
      PROVE  BudgetNeutral
  <2>1. /\ UNCHANGED <<kind, parent, scopeVars, spent>>
        /\ state[running.region] \in {"active", "drain_requested"}
        /\ state' = [x \in Regions |->
                      CASE x = running.region -> "draining"
                        [] x \in DrainSet(running.region) /\ state[x] = "active" -> "drain_requested"
                        [] OTHER -> state[x]]
    BY <1>9 DEF TaskBeginDrain
  <2>2. ASSUME NEW x \in Regions, state[x] = "closed"
        PROVE  state'[x] = "closed"
    <3>1. x # running.region
      BY <2>1, <2>2
    <3> QED
      BY <2>1, <2>2, <3>1
  <2> QED
    BY <2>1, <2>2 DEF BudgetNeutral, scopeVars
<1>10. ASSUME NEW o \in Obligations, NEW now \in Times, TaskRegisters(o, now) \/ TaskResolves(o, now)
       PROVE  BudgetNeutral
  BY <1>1, <1>10 DEF TaskRegisters, Registers, TaskResolves, RegisterObligation, Settle,
                     ResolveObligation
<1>11. ASSUME NEW outcome \in Outcomes, NEW now \in Times, TaskReturns(outcome, now)
       PROVE  BudgetNeutral
  BY <1>1, <1>11 DEF TaskReturns, CompleteTask
<1>12. CASE TaskLost
  BY <1>1, <1>12 DEF TaskLost, treeVars, observed
<1>13. ASSUME NEW r \in Regions, NEW t \in Tasks, RecoverTask(r, t)
       PROVE  BudgetNeutral
  BY <1>1, <1>13 DEF RecoverTask, CompleteTask, observed
<1>14. CASE ExecRest \/ UNCHANGED vars
  BY <1>1, <1>14 DEF ExecRest, vars, treeVars, observed
<1> QED
  BY <1>2, <1>4, <1>5, <1>6, <1>7, <1>8, <1>9, <1>10, <1>11, <1>12, <1>13, <1>14 DEF ExecNext

(* Work is charged where it is spent. A child that has settled is closed    *)
(* with everything below it, so nothing can be spent there.                 *)
LEMMA SpendKeepsScopes ==
  ASSUME CoreInv, ExecTypeOK, ScopeInv, NEW r \in Live, NEW cost \in Costs, state[r] # "closed",
         consumed' = [consumed EXCEPT ![r] = Plus(consumed[r], cost)],
         spent' = [spent EXCEPT ![r] = Plus(spent[r], cost)],
         UNCHANGED <<kind, parent, state, handle, limit, outstanding, released>>
  PROVE  ScopeInv'
<1>0. /\ FreshScopes /\ SettledIsClosed /\ OutstandingIsOpen /\ ChargesByDim
      /\ Nested /\ StopsDownward /\ cost \in Vector /\ Live \subseteq Regions
      /\ consumed \in [Regions -> Vector] /\ spent \in [Regions -> Vector]
  BY ExecutionAssumption DEF ScopeInv, CoreInv, Live, ExecTypeOK, FreshScopes
<1>1. r \in Live
  OBVIOUS
<1>2. /\ consumed' = [consumed EXCEPT ![r] = Plus(consumed[r], cost)]
      /\ spent' = [spent EXCEPT ![r] = Plus(spent[r], cost)]
      /\ state[r] # "closed"
      /\ UNCHANGED <<kind, parent, state, handle, limit, outstanding, released>>
  OBVIOUS
<1>3. Live' = Live /\ \A q : Children(q)' = Children(q) /\ Subtree(q)' = Subtree(q)
  BY <1>2, ShapeSame
<1>4. Plus(spent[r], cost) \in Vector /\ consumed[r] \in Vector /\ spent[r] \in Vector
  BY <1>0, VectorFacts
<1>5. FreshScopes'
  <2>1. spent' \in [Regions -> Vector]
    BY <1>0, <1>2, <1>4
  <2>2. ASSUME NEW q \in Regions
        PROVE  /\ handle'[q] = "none" <=> q \notin Live'
               /\ q \notin Live' => /\ consumed'[q] = Zero /\ spent'[q] = Zero
                                    /\ outstanding'[q] = 0 /\ ~released'[q]
    <3>1. q \notin Live => consumed'[q] = consumed[q] /\ spent'[q] = spent[q]
      BY <1>0, <1>1, <1>2
    <3> QED
      BY <1>0, <1>2, <1>3, <3>1 DEF FreshScopes
  <2> QED
    BY <2>1, <2>2 DEF FreshScopes
<1>6. SettledIsClosed' /\ OutstandingIsOpen'
  BY <1>0, <1>2, <1>3 DEF SettledIsClosed, OutstandingIsOpen
<1>7. ASSUME NEW c \in Live, NEW d \in Dims
      PROVE  ChargeOf(c, d)' = ChargeOf(c, d)
  <2>1. CASE ~released[c]
    BY <1>2, <2>1 DEF ChargeOf
  <2>2. CASE released[c]
    <3>1. r \notin Subtree(c)
      BY <1>0, <1>2, <2>2, ClosedDownward DEF SettledIsClosed
    <3>2. Subtree(c) \subseteq Live
      BY <1>0, SubtreeSplit
    <3>3. \A x \in Subtree(c) : spent'[x][d] = spent[x][d]
      BY <1>0, <1>2, <3>1, <3>2
    <3>4. SpentIn(c, d)' = SpentIn(c, d)
      BY <1>3, <3>3, SpentKept
    <3> QED
      BY <1>2, <2>2, <3>4 DEF ChargeOf
  <2> QED
    BY <2>1, <2>2
<1>8. ASSUME NEW q \in Live, NEW d \in Dims
      PROVE  consumed'[q][d] = spent'[q][d] + ChargesTo(q, d)'
  <2>1. Children(q) \subseteq Live
    BY DEF Children
  <2>2. ChargesTo(q, d)' = ChargesTo(q, d)
    BY <1>3, <1>7, <2>1, ChargesKept
  <2>3. consumed[q][d] = spent[q][d] + ChargesTo(q, d)
    BY <1>0 DEF ChargesByDim
  <2>4. CASE q # r
    BY <1>0, <1>2, <2>2, <2>3, <2>4
  <2>5. CASE q = r
    <3>1. consumed'[q] = Plus(consumed[q], cost) /\ spent'[q] = Plus(spent[q], cost)
      BY <1>0, <1>2, <2>5
    <3>2. /\ Plus(consumed[q], cost)[d] = consumed[q][d] + cost[d]
          /\ Plus(spent[q], cost)[d] = spent[q][d] + cost[d]
          /\ spent[q][d] \in Nat /\ cost[d] \in Nat
      BY <1>0, <1>4, <2>5, VectorFacts
    <3>3. ChargesTo(q, d) \in Nat
      BY <1>0, BudgetTypes
    <3> QED
      BY <2>2, <2>3, <3>1, <3>2, <3>3
  <2> QED
    BY <2>4, <2>5
<1> QED
  BY <1>3, <1>5, <1>6, <1>8 DEF ScopeInv, ChargesByDim

(* A checkpoint spends in the scope of the task, budget_mut in its own.     *)
LEMMA AdmitKeepsScopes ==
  ASSUME CoreInv, ExecTypeOK, RunningIsKnown, ScopeInv,
         \/ \E now \in Times, cost \in Costs, cleanup \in BOOLEAN : Admit(now, cost, cleanup)
         \/ \E r \in Regions, cost \in Costs : SpendOutside(r, cost)
  PROVE  ScopeInv'
<1>1. ASSUME NEW now \in Times, NEW cost \in Costs, NEW cleanup \in BOOLEAN,
             Admit(now, cost, cleanup)
      PROVE  ScopeInv'
  <2>1. PICK r \in Live : r = running.region
    <3>1. running # None
      BY <1>1 DEF Admit, Observe
    <3> QED
      BY <3>1, RunningFacts
  <2>2. /\ consumed' = [consumed EXCEPT ![r] = Plus(consumed[r], cost)]
        /\ spent' = [spent EXCEPT ![r] = Plus(spent[r], cost)]
        /\ state[r] # "closed"
        /\ UNCHANGED <<kind, parent, state, handle, limit, outstanding, released>>
    BY <1>1, <2>1 DEF Admit, treeVars
  <2> QED
    BY <2>2, SpendKeepsScopes
<1>2. ASSUME NEW r \in Regions, NEW cost \in Costs, SpendOutside(r, cost)
      PROVE  ScopeInv'
  <2>1. r \in Live
    BY <1>2 DEF SpendOutside, Held, ScopeInv, FreshScopes
  <2>2. /\ consumed' = [consumed EXCEPT ![r] = Plus(consumed[r], cost)]
        /\ spent' = [spent EXCEPT ![r] = Plus(spent[r], cost)]
        /\ state[r] # "closed"
        /\ UNCHANGED <<kind, parent, state, handle, limit, outstanding, released>>
    BY <1>2 DEF SpendOutside, treeVars
  <2> QED
    BY <2>1, <2>2, SpendKeepsScopes
<1> QED
  BY <1>1, <1>2

(* A refund replaces the allowance of a child, in what its parent is        *)
(* charged, by the work that was really done below the child.               *)
LEMMA ReleaseKeepsScopes ==
  ASSUME CoreInv, ExecTypeOK, ScopeInv, NEW p \in Regions, NEW c \in Regions, Release(p, c)
  PROVE  ScopeInv'
<1>0. /\ FreshScopes /\ SettledIsClosed /\ OutstandingIsOpen /\ ChargesByDim
      /\ Live \subseteq Regions
      /\ consumed \in [Regions -> Vector] /\ limit \in [Regions -> Vector]
      /\ outstanding \in [Regions -> Nat] /\ released \in [Regions -> BOOLEAN]
  BY DEF ScopeInv, CoreInv, Live, ExecTypeOK
<1>1. /\ p \in Live /\ c \in Live /\ parent[c] = p /\ ~released[c] /\ state[c] = "closed"
      /\ outstanding[c] = 0
      /\ consumed' = [consumed EXCEPT ![p] = Minus(consumed[p], Minus(limit[c], consumed[c]))]
      /\ outstanding' = [outstanding EXCEPT ![p] = outstanding[p] - 1]
      /\ released' = [released EXCEPT ![c] = TRUE]
      /\ UNCHANGED <<kind, parent, state, handle, limit, spent>>
  BY <1>0 DEF Release, Held, FreshScopes, treeVars, observed
<1>2. Live' = Live /\ \A q : Children(q)' = Children(q) /\ Subtree(q)' = Subtree(q)
  BY <1>1, ShapeSame
<1>3. FreshScopes'
  <2>1. ASSUME NEW q \in Regions \ Live
        PROVE  consumed'[q] = consumed[q] /\ outstanding'[q] = outstanding[q]
               /\ released'[q] = released[q]
    BY <1>0, <1>1
  <2> QED
    BY <1>0, <1>1, <1>2, <2>1 DEF FreshScopes
<1>4. SettledIsClosed'
  BY <1>0, <1>1, <1>2 DEF SettledIsClosed
<1>5. \A q \in Live : c \in Children(q) <=> q = p
  BY <1>1 DEF Children
<1>6. ASSUME NEW q \in Live
      PROVE  outstanding'[q] = Cardinality({x \in Children(q)' : ~released'[x]})
  <2> DEFINE O == {x \in Children(q) : ~released[x]}
  <2>1. IsFiniteSet(O)
    <3>1. IsFiniteSet(Children(q))
      BY <1>0, BudgetTypes
    <3> QED
      BY <3>1, FS_Subset
  <2>2. outstanding[q] = Cardinality(O)
    BY <1>0 DEF OutstandingIsOpen
  <2>3. Children(q) \subseteq Regions
    BY <1>0 DEF Children
  <2>4. CASE q # p
    <3>1. {x \in Children(q)' : ~released'[x]} = O
      BY <1>0, <1>1, <1>2, <1>5, <2>3, <2>4
    <3> QED
      BY <1>0, <1>1, <2>2, <2>4, <3>1
  <2>5. CASE q = p
    <3>1. c \in O
      BY <1>1, <1>5, <2>5
    <3>2. {x \in Children(q)' : ~released'[x]} = O \ {c}
      BY <1>0, <1>1, <1>2, <2>3
    <3> HIDE DEF O
    <3>3. Cardinality(O \ {c}) = Cardinality(O) - 1
      BY <2>1, <3>1, FS_RemoveElement
    <3> QED
      BY <1>0, <1>1, <2>2, <2>5, <3>2, <3>3
  <2> QED
    BY <2>4, <2>5
<1>7. ASSUME NEW x \in Live, NEW d \in Dims
      PROVE  /\ SpentIn(x, d)' = SpentIn(x, d)
             /\ x # c => ChargeOf(x, d)' = ChargeOf(x, d)
             /\ x = c => ChargeOf(x, d)' = SpentIn(c, d) /\ ChargeOf(x, d) = limit[c][d]
  <2>1. SpentIn(x, d)' = SpentIn(x, d)
    BY <1>1, <1>2, SpentKept
  <2>2. x # c => released'[x] = released[x]
    BY <1>0, <1>1
  <2>3. released'[c] = TRUE
    BY <1>0, <1>1
  <2> QED
    BY <1>1, <2>1, <2>2, <2>3 DEF ChargeOf
<1>8. ASSUME NEW q \in Live, NEW d \in Dims
      PROVE  consumed'[q][d] = spent'[q][d] + ChargesTo(q, d)'
  <2>1. Children(q) \subseteq Live
    BY DEF Children
  <2>2. consumed[q][d] = spent[q][d] + ChargesTo(q, d)
    BY <1>0 DEF ChargesByDim
  <2>3. CASE q # p
    <3>1. \A x \in Children(q) : ChargeOf(x, d)' = ChargeOf(x, d)
      BY <1>5, <1>7, <2>1, <2>3
    <3>2. ChargesTo(q, d)' = ChargesTo(q, d)
      BY <1>2, <3>1, ChargesKept
    <3>3. consumed'[q] = consumed[q]
      BY <1>0, <1>1, <2>3
    <3> QED
      BY <1>1, <2>2, <3>2, <3>3
  <2>4. CASE q = p
    <3> DEFINE f == [x \in Children(q) |-> ChargeOf(x, d)]
               g == [x \in Children(q)' |-> ChargeOf(x, d)']
    <3>1. /\ IsFiniteSet(Children(q)) /\ c \in Children(q)
          /\ \A x \in Live : SpentIn(x, d) \in Nat /\ ChargeOf(x, d) \in Nat
          /\ spent[q][d] \in Nat /\ consumed[q][d] \in Nat
          /\ limit[c][d] \in Nat /\ consumed[c][d] \in Nat
      BY <1>0, <1>5, <2>4, BudgetTypes
    <3>2. f \in [Children(q) -> Nat]
      BY <2>1, <3>1
    <3>3. \A x \in Children(q) : ChargeOf(x, d)' \in Nat
      <4> TAKE x \in Children(q)
      <4>1. x \in Live /\ c \in Live
        BY <1>1, <2>1
      <4>2. CASE x = c
        BY <1>7, <3>1, <4>1, <4>2
      <4>3. CASE x # c
        BY <1>7, <3>1, <4>1, <4>3
      <4> QED
        BY <4>2, <4>3
    <3>4. g \in [Children(q) -> Nat]
      BY <1>2, <3>3
    <3>5. \A x \in Children(q) \ {c} : g[x] = f[x]
      BY <1>2, <1>7, <2>1
    <3>6. g[c] = SpentIn(c, d) /\ f[c] = limit[c][d]
      BY <1>1, <1>2, <1>7, <3>1
    <3>7. ChargesTo(q, d) = SumFunction(f) /\ ChargesTo(q, d)' = SumFunction(g)
      BY DEF ChargesTo
    <3>8. consumed[c][d] = SpentIn(c, d)
      BY <1>1, SettledConsumption
    <3>9. consumed'[q][d] = consumed[q][d] - (limit[c][d] - consumed[c][d])
      <4>1. consumed'[q] = Minus(consumed[q], Minus(limit[c], consumed[c]))
        BY <1>0, <1>1, <2>4
      <4> QED
        BY <4>1 DEF Minus
    <3> HIDE DEF f, g
    <3>10. SumFunction(g) + f[c] = SumFunction(f) + g[c]
      BY <3>1, <3>2, <3>4, <3>5, SumUpdate
    <3>11. SumFunction(f) \in Nat /\ SumFunction(g) \in Nat
      BY <3>1, <3>2, <3>4, SumType
    <3>12. SumFunction(g) + limit[c][d] = SumFunction(f) + consumed[c][d]
      BY <3>6, <3>8, <3>10
    <3>13. consumed'[q][d] = spent[q][d] + SumFunction(g)
      BY <2>2, <3>1, <3>7, <3>9, <3>11, <3>12
    <3> QED
      BY <1>1, <3>7, <3>13
  <2> QED
    BY <2>3, <2>4
<1> QED
  BY <1>2, <1>3, <1>4, <1>6, <1>8 DEF ScopeInv, ChargesByDim, OutstandingIsOpen

(* A new scope adds its whole allowance to what its parent is charged.      *)
LEMMA ScopeDownKeepsScopes ==
  ASSUME CoreInv, ExecTypeOK, ScopeInv, NEW p \in Regions, NEW c \in Regions, NEW k \in KindsUsed,
         NEW a \in Allowances, NEW dl \in Deadlines, NEW now \in ScopeTimes,
         ScopeDown(p, c, k, a, dl, now)
  PROVE  ScopeInv'
<1>0. /\ FreshScopes /\ SettledIsClosed /\ OutstandingIsOpen /\ ChargesByDim
      /\ TypeOK /\ Nested /\ Live \subseteq Regions /\ a \in Vector
      /\ consumed \in [Regions -> Vector] /\ limit \in [Regions -> Vector]
      /\ outstanding \in [Regions -> Nat] /\ handle \in [Regions -> {"none", "held", "dropped"}]
  BY ExecutionAssumption DEF ScopeInv, CoreInv, Live, ExecTypeOK
<1>1. /\ AttachChild(p, c, k) /\ Held(p)
      /\ handle' = [handle EXCEPT ![c] = "held"]
      /\ limit' = [limit EXCEPT ![c] = a]
      /\ consumed' = [consumed EXCEPT ![p] = Plus(consumed[p], a)]
      /\ outstanding' = [outstanding EXCEPT ![p] = outstanding[p] + 1]
      /\ UNCHANGED <<released, spent, state>>
  BY DEF ScopeDown, AttachChild, observed
<1>2. c \notin Live /\ p \in Live /\ k # "absent" /\ c # p
  <2>1. c \notin Live /\ p \in Live /\ k \in ChildKinds(kind[p])
    BY <1>1 DEF AttachChild, CanAttach, Live
  <2>2. k \in Kinds /\ "absent" \notin Kinds
    BY <2>1, ChildDepth DEF Kinds, PropertyKinds, SensorKinds, EventKinds
  <2> QED
    BY <2>1, <2>2
<1>3. Live' = Live \cup {c} /\ parent'[c] = p /\ \A x \in Live : parent'[x] = parent[x]
  BY <1>0, <1>1, <1>2 DEF AttachChild, Live, TypeOK
<1>4. /\ Children(p)' = Children(p) \cup {c} /\ c \notin Children(p)
      /\ \A q \in Live : q # p => Children(q)' = Children(q)
      /\ Children(c)' = {}
  <2>1. \A x \in Live : parent[x] # c
    <3> TAKE x \in Live
    <3>1. CASE x = Process
      BY <3>1, RegionAssumption DEF CoreInv, Nested
    <3>2. CASE x # Process
      BY <1>0, <1>2, <3>2 DEF Nested
    <3> QED
      BY <3>1, <3>2
  <2> QED
    BY <1>2, <1>3, <2>1 DEF Children
<1>5. FreshScopes'
  <2>1. ASSUME NEW q \in Regions, q # c
        PROVE  handle'[q] = handle[q]
    BY <1>0, <1>1, <2>1
  <2>2. handle'[c] = "held"
    BY <1>0, <1>1
  <2>3. ASSUME NEW q \in Regions \ Live
        PROVE  consumed'[q] = consumed[q] /\ outstanding'[q] = outstanding[q]
    BY <1>0, <1>1, <1>2
  <2> QED
    BY <1>0, <1>1, <1>3, <2>1, <2>2, <2>3 DEF FreshScopes
<1>6. ~released[c] /\ spent[c] = Zero /\ consumed[c] = Zero /\ outstanding[c] = 0
  BY <1>0, <1>2 DEF FreshScopes
<1>7. SettledIsClosed'
  BY <1>0, <1>1, <1>3, <1>6 DEF SettledIsClosed
<1>8. ASSUME NEW q \in Live'
      PROVE  outstanding'[q] = Cardinality({x \in Children(q)' : ~released'[x]})
  <2> DEFINE O == {x \in Children(q) : ~released[x]}
  <2>1. CASE q = c
    <3>1. {x \in Children(q)' : ~released'[x]} = {}
      BY <1>4, <2>1
    <3>2. outstanding'[q] = 0
      BY <1>0, <1>1, <1>2, <1>6, <2>1
    <3> QED
      BY <3>1, <3>2, FS_EmptySet
  <2>2. CASE q # c /\ q # p
    <3>1. q \in Live /\ Children(q)' = Children(q)
      BY <1>3, <1>4, <2>2
    <3>2. {x \in Children(q)' : ~released'[x]} = O
      BY <1>1, <3>1
    <3>3. outstanding[q] = Cardinality(O)
      BY <1>0, <3>1 DEF OutstandingIsOpen
    <3>4. outstanding'[q] = outstanding[q]
      BY <1>0, <1>1, <2>2, <3>1
    <3> QED
      BY <3>2, <3>3, <3>4
  <2>3. CASE q = p
    <3>1. IsFiniteSet(O)
      <4>1. IsFiniteSet(Children(q))
        BY <1>0, <1>2, <2>3, BudgetTypes
      <4> QED
        BY <4>1, FS_Subset
    <3>2. {x \in Children(q)' : ~released'[x]} = O \cup {c} /\ c \notin O
      BY <1>1, <1>4, <1>6, <2>3
    <3>3. outstanding[q] = Cardinality(O)
      BY <1>0, <1>2, <2>3 DEF OutstandingIsOpen
    <3> HIDE DEF O
    <3>4. Cardinality(O \cup {c}) = Cardinality(O) + 1
      BY <3>1, <3>2, FS_AddElement
    <3>5. outstanding'[q] = outstanding[q] + 1
      BY <1>0, <1>1, <2>3
    <3> QED
      BY <3>2, <3>3, <3>4, <3>5
  <2> QED
    BY <2>1, <2>2, <2>3
<1>9. ASSUME NEW x \in Live, NEW d \in Dims
      PROVE  ChargeOf(x, d)' = ChargeOf(x, d)
  <2>1. CASE released[x]
    <3>1. Subtree(x)' = Subtree(x)
      BY <1>0, <1>1, <2>1, AttachKeepsClosed DEF SettledIsClosed
    <3>2. SpentIn(x, d)' = SpentIn(x, d)
      BY <1>1, <3>1, SpentKept
    <3> QED
      BY <1>1, <2>1, <3>2 DEF ChargeOf
  <2>2. CASE ~released[x]
    <3>1. limit'[x] = limit[x]
      BY <1>0, <1>1, <1>2
    <3> QED
      BY <1>1, <2>2, <3>1 DEF ChargeOf
  <2> QED
    BY <2>1, <2>2
<1>10. ASSUME NEW d \in Dims
       PROVE  ChargeOf(c, d)' = a[d]
  <2>1. limit'[c] = a
    BY <1>0, <1>1
  <2> QED
    BY <1>1, <1>6, <2>1 DEF ChargeOf
<1>11. ASSUME NEW q \in Live', NEW d \in Dims
       PROVE  consumed'[q][d] = spent'[q][d] + ChargesTo(q, d)'
  <2>1. CASE q = c
    <3> DEFINE f == [x \in Children(q)' |-> ChargeOf(x, d)']
    <3>1. DOMAIN f = {} /\ f \in [{} -> Nat]
      BY <1>4, <2>1
    <3>2. ChargesTo(q, d)' = SumFunction(f)
      BY DEF ChargesTo
    <3> HIDE DEF f
    <3>3. ChargesTo(q, d)' = 0
      BY <3>1, <3>2, SumEmpty
    <3>4. consumed'[q][d] = 0 /\ spent'[q][d] = 0
      <4>1. consumed'[q] = Zero /\ spent'[q] = Zero
        BY <1>0, <1>1, <1>2, <1>6, <2>1
      <4> QED
        BY <4>1 DEF Zero
    <3> QED
      BY <3>3, <3>4
  <2>2. CASE q # c /\ q # p
    <3>1. q \in Live /\ Children(q)' = Children(q) /\ Children(q) \subseteq Live
      BY <1>3, <1>4, <2>2 DEF Children
    <3>2. ChargesTo(q, d)' = ChargesTo(q, d)
      BY <1>9, <3>1, ChargesKept
    <3>3. consumed'[q] = consumed[q]
      BY <1>0, <1>1, <2>2, <3>1
    <3> QED
      BY <1>0, <1>1, <3>1, <3>2, <3>3 DEF ChargesByDim
  <2>3. CASE q = p
    <3> DEFINE S == Children(q)
               g == [x \in S |-> ChargeOf(x, d)]
               f == [x \in Children(q)' |-> ChargeOf(x, d)']
    <3>1. /\ IsFiniteSet(S) /\ S \subseteq Live /\ \A x \in Live : ChargeOf(x, d) \in Nat
          /\ spent[q][d] \in Nat /\ consumed[q][d] \in Nat /\ a[d] \in Nat
      BY <1>0, <1>2, <2>3, BudgetTypes DEF Vector
    <3>2. Children(q)' = S \cup {c} /\ c \notin S
      BY <1>4, <2>3
    <3>3. \A x \in S \cup {c} : ChargeOf(x, d)' \in Nat
      BY <1>9, <1>10, <3>1
    <3>4. f \in [S \cup {c} -> Nat] /\ g \in [S -> Nat]
      BY <3>1, <3>2, <3>3
    <3>5. \A x \in S : g[x] = f[x]
      BY <1>9, <3>1, <3>2
    <3>6. f[c] = a[d]
      BY <1>10, <3>2
    <3>7. ChargesTo(q, d) = SumFunction(g) /\ ChargesTo(q, d)' = SumFunction(f)
      BY DEF ChargesTo
    <3>8. consumed'[q][d] = consumed[q][d] + a[d]
      <4>1. consumed'[q] = Plus(consumed[q], a)
        BY <1>0, <1>1, <2>3
      <4> QED
        BY <4>1 DEF Plus
    <3>9. consumed[q][d] = spent[q][d] + ChargesTo(q, d)
      BY <1>0, <1>2, <2>3 DEF ChargesByDim
    <3> HIDE DEF S, f, g
    <3>10. SumFunction(f) = SumFunction(g) + f[c]
      BY <3>1, <3>2, <3>4, <3>5, SumInsert
    <3>11. SumFunction(g) \in Nat
      BY <3>1, <3>4, SumType
    <3>12. consumed'[q][d] = spent[q][d] + SumFunction(f)
      BY <3>1, <3>6, <3>7, <3>8, <3>9, <3>10, <3>11
    <3> QED
      BY <1>1, <3>7, <3>12
  <2> QED
    BY <2>1, <2>2, <2>3
<1> QED
  BY <1>5, <1>7, <1>8, <1>11 DEF ScopeInv, ChargesByDim, OutstandingIsOpen

-----------------------------------------------------------------------------
(* The inductive invariant of owned execution.                              *)
ExecInv ==
  CoreInv /\ ExecTypeOK /\ RunningIsKnown /\ HonestReceipts /\ ScopeInv

(* It holds at first and every step keeps it.                               *)
LEMMA ExecInvariant == ExecSpec => []ExecInv
<1>1. ExecInit => ExecInv
  BY ExecInitTree, ExecInitType, ExecInitScopes DEF ExecInv
<1>2. ASSUME ExecInv, [ExecNext]_vars
      PROVE  ExecInv'
  <2>0. CoreInv /\ ExecTypeOK /\ RunningIsKnown /\ HonestReceipts /\ ScopeInv /\ FreshScopes
    BY <1>2 DEF ExecInv, ScopeInv
  <2>1. CoreInv'
    BY <1>2, <2>0, ExecTree
  <2>2. ExecTypeOK'
    BY <1>2, <2>0, ExecType
  <2>3. RunningIsKnown'
    BY <1>2, <2>0, ExecKnown
  <2>4. HonestReceipts'
    BY <1>2, <2>0, ExecHonest
  <2>5. ScopeInv'
    <3>1. \/ \E p, c \in Regions, k \in KindsUsed, a \in Allowances, dl \in Deadlines, now \in ScopeTimes :
               ScopeDown(p, c, k, a, dl, now)
          \/ \E p, c \in Regions : Release(p, c)
          \/ \E now \in Times, cost \in Costs, cleanup \in BOOLEAN : Admit(now, cost, cleanup)
          \/ \E r \in Regions, cost \in Costs : SpendOutside(r, cost)
          \/ BudgetNeutral
      BY <1>2, <2>0, StepsOnBudgets
    <3> QED
      BY <2>0, <3>1, ScopeDownKeepsScopes, ReleaseKeepsScopes, AdmitKeepsScopes, NeutralKeepsScopes
  <2> QED
    BY <2>1, <2>2, <2>3, <2>4, <2>5 DEF ExecInv
<1>3. ExecInv /\ [ExecNext]_vars => ExecInv'
  BY <1>2
<1> QED
  BY <1>1, <1>3, PTL DEF ExecSpec

(* However scopes are opened, spent in, closed, refunded or abandoned, a    *)
(* scope is charged exactly what it and its settled children really spent   *)
(* and what its open children may spend, and the work in no subtree exceeds *)
(* its allowance (scope_down, checkpoint, budget_mut and                    *)
(* release_scope_reservation).                                              *)
THEOREM Budgets == ExecSpec => []BudgetInv
<1>1. ExecInv => BudgetInv
  BY ScopeGivesBudget DEF ExecInv
<1> QED
  BY <1>1, ExecInvariant, PTL

(* No receipt claims a success after the deadline was seen or cancellation  *)
(* was asked for, nor a cancellation nobody asked for; and no task that saw *)
(* its deadline is admitted anything (TaskCx::complete_after_return).       *)
THEOREM Receipts == ExecSpec => []HonestReceipts
<1>1. ExecInv => HonestReceipts
  BY DEF ExecInv
<1> QED
  BY <1>1, ExecInvariant, PTL

(* No region closes over a task that was begun and has no receipt, even one *)
(* whose closure unwound or whose future was dropped.                       *)
THEOREM TasksAccounted == ExecSpec => []NoTaskLost
<1>1. ExecInv => NoTaskLost
  BY ClosedHasReceipts DEF ExecInv
<1> QED
  BY <1>1, ExecInvariant, PTL

(* The closure protocol of the tree is as safe under owned execution, whose *)
(* tasks request and begin drains of the region they run in, as it is under *)
(* callers of the tree alone.                                               *)
THEOREM TreeUnderExecution == ExecSpec => []TreeInv
<1>1. ExecInv => TreeInv
  BY CoreGivesTree DEF ExecInv
<1> QED
  BY <1>1, ExecInvariant, PTL
=============================================================================
