---------------------------- MODULE RuntimeProofs ----------------------------
(***************************************************************************)
(* Proofs about two components of fss-runtime that share no state: the      *)
(* lease registry, for any set of resources, any width of the fence source  *)
(* and any time domain, and the cancellation lifecycle, for any workers,    *)
(* failure reasons, drain windows and clock bound.                          *)
(***************************************************************************)
EXTENDS LeaseRegistry, Cancellation, TLAPS

-----------------------------------------------------------------------------
(* The lease registry.                                                      *)

(* An empty registry satisfies the inductive invariant.                     *)
LEMMA InitInv == Init => IndInv
<1> SUFFICES ASSUME Init PROVE IndInv
  OBVIOUS
<1>1. TypeOK
  BY LeaseAssumption DEF Init, TypeOK, Fences, Lease, Copy, NoCopy, States, Never
<1>2. CopiesAgree /\ ActiveIsCurrent /\ EndedIsInactive /\ GateIsActive
  BY LeaseAssumption DEF Init, CopiesAgree, ActiveIsCurrent, EndedIsInactive, GateIsActive, NoCopy, Fences
<1>3. FenceWithinSource /\ IssuedBelowSource
  BY LeaseAssumption DEF Init, FenceWithinSource, IssuedBelowSource, NoCopy, Fences
<1> QED
  BY <1>1, <1>2, <1>3 DEF IndInv

(* Looking at the clock changes the state of a lease only from active to    *)
(* expired.                                                                 *)
LEMMA EvaluatedState ==
  ASSUME NEW l, NEW now, l.state \in States
  PROVE  /\ Evaluated(l, now) \in States
         /\ Evaluated(l, now) = "active" => l.state = "active"
         /\ l.state # "active" => Evaluated(l, now) = l.state
         /\ Evaluated(l, now) = "absent" <=> l.state = "absent"
  BY DEF Evaluated, States

(* Records changed in one field, spelled out.                               *)
LEMMA LeaseFields ==
  ASSUME NEW l \in Lease
  PROVE  /\ \A s : [l EXCEPT !.state = s] =
                   [resource |-> l.resource, expires |-> l.expires, state |-> s]
         /\ \A e : [l EXCEPT !.expires = e] =
                   [resource |-> l.resource, expires |-> e, state |-> l.state]
  BY DEF Lease

(* The same for the copy that a resource holds.                             *)
LEMMA CopyFields ==
  ASSUME NEW c \in Copy
  PROVE  /\ \A s : [c EXCEPT !.state = s] =
                   [id |-> c.id, expires |-> c.expires, state |-> s]
         /\ \A e : [c EXCEPT !.expires = e] =
                   [id |-> c.id, expires |-> e, state |-> c.state]
  BY DEF Copy

(* The lease a resource points at, seen from the copy and from the index.   *)
LEMMA CurrentLease ==
  ASSUME IndInv, NEW r \in Resources, copy[r].id # 0
  PROVE  /\ copy[r] \in Copy /\ copy[r].id \in Fences
         /\ copy[r].expires \in Times \cup {Never} /\ copy[r].state \in States
         /\ leases[copy[r].id] \in Lease
         /\ leases[copy[r].id].resource = r
         /\ leases[copy[r].id].expires = copy[r].expires
         /\ leases[copy[r].id].state = copy[r].state
         /\ copy[r].state # "absent"
<1>0. TypeOK /\ CopiesAgree /\ IssuedBelowSource
  BY DEF IndInv
<1>1. copy[r] \in Copy /\ copy[r].id \in Fences
  BY <1>0 DEF TypeOK, Copy
<1>2. copy[r].expires \in Times \cup {Never} /\ copy[r].state \in States
  BY <1>1 DEF Copy
<1>3. leases[copy[r].id] \in Lease
  BY <1>0, <1>1 DEF TypeOK
<1>4. /\ leases[copy[r].id].resource = r
      /\ leases[copy[r].id].expires = copy[r].expires
      /\ leases[copy[r].id].state = copy[r].state
  BY <1>0 DEF CopiesAgree
<1>5. leases[copy[r].id].state # "absent"
  BY <1>0, <1>1, LeaseAssumption DEF IssuedBelowSource, TypeOK, Fences
<1> QED
  BY <1>1, <1>2, <1>3, <1>4, <1>5

(* Every operation but acquire rewrites one issued lease, and the resource's *)
(* copy of it when that lease is the current one. Such a step preserves the  *)
(* invariant if it does not make a lease active again, reports an end only   *)
(* of a lease that is not active, and moves the current fence only past a    *)
(* lease it ends.                                                            *)
LEMMA MirroredUpdate ==
  ASSUME IndInv, NEW f \in Fences, NEW new \in Lease,
         leases[f].state # "absent",
         new.resource = leases[f].resource, new.state # "absent",
         new.state = "active" => leases[f].state = "active",
         leases' = [leases EXCEPT ![f] = new],
         copy' = IF copy[new.resource].id = f
                 THEN [copy EXCEPT ![new.resource] =
                         [id |-> f, expires |-> new.expires, state |-> new.state]]
                 ELSE copy,
         \/ current' = current
         \/ /\ leases[f].state = "active" /\ new.state # "active"
            /\ current' = [current EXCEPT ![new.resource] = f + 1],
         nextFence' = nextFence,
         ended' = ended \/ (ended' = ended \cup {f} /\ new.state # "active"),
         gate' = 0 \/ (gate' = f /\ new.state = "active")
  PROVE  IndInv'
<1> USE LeaseAssumption DEF Fences
<1> DEFINE r == new.resource
<1>0. /\ TypeOK /\ CopiesAgree /\ ActiveIsCurrent /\ FenceWithinSource
      /\ IssuedBelowSource /\ EndedIsInactive /\ GateIsActive
  BY DEF IndInv
<1>1. /\ r \in Resources /\ f < nextFence /\ new.state \in States
      /\ new.expires \in Times \cup {Never}
  BY <1>0 DEF Lease, TypeOK, IssuedBelowSource
<1>2. /\ leases'[f] = new
      /\ \A g \in Fences : g # f => leases'[g] = leases[g]
      /\ new = [resource |-> r, expires |-> new.expires, state |-> new.state]
  BY <1>0 DEF TypeOK, Lease
<1>3. \A q \in Resources :
        IF q = r /\ copy[r].id = f
        THEN copy'[q] = [id |-> f, expires |-> new.expires, state |-> new.state]
        ELSE copy'[q] = copy[q]
  BY <1>0, <1>1 DEF TypeOK
<1>4. \A q \in Resources :
        \/ current'[q] = current[q]
        \/ /\ q = r /\ leases[f].state = "active" /\ new.state # "active"
           /\ current'[q] = f + 1
  BY <1>0, <1>1 DEF TypeOK
<1>5. TypeOK'
  <2>1. leases' \in [Fences -> Lease] /\ nextFence' \in Fences
    BY <1>0 DEF TypeOK
  <2>2. copy' \in [Resources -> Copy]
    BY <1>0, <1>1 DEF TypeOK, Copy
  <2>3. current' \in [Resources -> Fences \cup {0}]
    BY <1>0, <1>1 DEF TypeOK
  <2>4. gate' \in Fences \cup {0} /\ ended' \subseteq Fences
    BY <1>0 DEF TypeOK
  <2> QED
    BY <2>1, <2>2, <2>3, <2>4 DEF TypeOK
<1>6. CopiesAgree'
  BY <1>0, <1>1, <1>2, <1>3 DEF CopiesAgree, TypeOK, Copy
<1>7. ActiveIsCurrent'
  BY <1>0, <1>1, <1>2, <1>3, <1>4 DEF ActiveIsCurrent, TypeOK, Lease
<1>8. FenceWithinSource'
  BY <1>0, <1>1, <1>4 DEF FenceWithinSource, TypeOK
<1>9. IssuedBelowSource'
  BY <1>0, <1>1, <1>2, <1>3 DEF IssuedBelowSource, TypeOK
<1>10. EndedIsInactive'
  BY <1>0, <1>2 DEF EndedIsInactive, TypeOK
<1>11. GateIsActive'
  BY <1>2 DEF GateIsActive
<1> QED
  BY <1>5, <1>6, <1>7, <1>8, <1>9, <1>10, <1>11 DEF IndInv

(* acquire, after any lazy expiry of the holder, keeps the invariant: the   *)
(* new lease is the only active one of its resource and has a fresh fence.  *)
LEMMA AcquireInv ==
  ASSUME IndInv, NEW r \in Resources, NEW now \in Times,
         NEW expires \in now .. Never, Acquire(r, expires, now)
  PROVE  IndInv'
<1> USE LeaseAssumption DEF Fences
<1> DEFINE old == copy[r].id
           e   == ExpireCurrent(r, now)
           n   == nextFence
<1>0. /\ TypeOK /\ CopiesAgree /\ ActiveIsCurrent /\ FenceWithinSource
      /\ IssuedBelowSource /\ EndedIsInactive /\ GateIsActive
  BY DEF IndInv
<1>1. /\ old \in Fences \cup {0} /\ old < n /\ copy[r].state \in States
      /\ n \in Fences /\ n < MaxFence
      /\ expires \in Times \cup {Never}
  BY <1>0 DEF TypeOK, Copy, IssuedBelowSource, Acquire, Times, Never
<1>2. /\ Evaluated(copy[r], now) \in States \ {"active"}
      /\ old # 0 => Evaluated(copy[r], now) # "absent"
  <2>1. old # 0 => copy[r].state # "absent"
    BY CurrentLease
  <2> QED
    BY <1>1, <2>1, EvaluatedState DEF Acquire
<1>3. /\ e \in [Fences -> Lease]
      /\ \A f \in Fences :
           /\ f # old => e[f] = leases[f]
           /\ f = old => e[f] = [leases[f] EXCEPT !.state = Evaluated(copy[r], now)]
  <2>1. CASE old = 0
    BY <2>1, <1>0 DEF ExpireCurrent, TypeOK
  <2>2. CASE old # 0
    BY <2>2, <1>0, <1>1, <1>2 DEF ExpireCurrent, TypeOK, Lease
  <2> QED
    BY <2>1, <2>2
<1>4. /\ leases'[n] = [resource |-> r, expires |-> expires, state |-> "active"]
      /\ \A f \in Fences : f # n => leases'[f] = e[f]
      /\ leases' \in [Fences -> Lease]
  BY <1>1, <1>3 DEF Acquire, Lease, States
<1>5. /\ copy'[r] = [id |-> n, expires |-> expires, state |-> "active"]
      /\ current'[r] = n
      /\ \A q \in Resources : q # r => copy'[q] = copy[q] /\ current'[q] = current[q]
  BY <1>0 DEF Acquire, TypeOK
<1>6. nextFence' = n + 1 /\ gate' = 0 /\ ended' = ended \cup ({old} \ {0})
  BY DEF Acquire
<1>7. TypeOK'
  <2>1. copy' \in [Resources -> Copy] /\ current' \in [Resources -> Fences \cup {0}]
    BY <1>0, <1>1 DEF Acquire, TypeOK, Copy, States
  <2> QED
    BY <1>0, <1>1, <1>4, <1>6, <2>1 DEF TypeOK
<1>8. \A q \in Resources : q # r => copy[q].id # old \/ copy[q].id = 0
  BY <1>0 DEF CopiesAgree
<1>9. CopiesAgree'
  <2> SUFFICES ASSUME NEW q \in Resources, copy'[q].id # 0
               PROVE  /\ leases'[copy'[q].id].resource = q
                      /\ leases'[copy'[q].id].expires = copy'[q].expires
                      /\ leases'[copy'[q].id].state = copy'[q].state
    BY DEF CopiesAgree
  <2>1. CASE q = r
    BY <2>1, <1>4, <1>5
  <2>2. CASE q # r
    <3>1. /\ copy'[q] = copy[q] /\ copy[q].id # 0 /\ copy[q].id # old
          /\ copy[q].id # n /\ copy[q].id \in Fences
      BY <2>2, <1>0, <1>5, <1>8 DEF IssuedBelowSource, TypeOK, Copy
    <3>2. leases'[copy[q].id] = leases[copy[q].id]
      BY <3>1, <1>3, <1>4
    <3> QED
      BY <3>1, <3>2, <1>0 DEF CopiesAgree
  <2> QED
    BY <2>1, <2>2
<1>10. ActiveIsCurrent'
  <2> SUFFICES ASSUME NEW f \in Fences, leases'[f].state = "active"
               PROVE  /\ copy'[leases'[f].resource].id = f
                      /\ current'[leases'[f].resource] = f
    BY DEF ActiveIsCurrent
  <2>1. CASE f = n
    BY <2>1, <1>4, <1>5
  <2>2. CASE f # n /\ f = old
    BY <2>2, <1>0, <1>2, <1>3, <1>4 DEF TypeOK, Lease
  <2>3. CASE f # n /\ f # old
    <3>1. leases'[f] = leases[f]
      BY <2>3, <1>3, <1>4
    <3>2. leases[f].resource \in Resources /\ leases[f].resource # r
      BY <3>1, <2>3, <1>0 DEF ActiveIsCurrent, TypeOK, Lease
    <3> QED
      BY <3>1, <3>2, <1>0, <1>5 DEF ActiveIsCurrent
  <2> QED
    BY <2>1, <2>2, <2>3
<1>11. FenceWithinSource'
  BY <1>0, <1>1, <1>5, <1>6 DEF FenceWithinSource, TypeOK
<1>12. IssuedBelowSource'
  <2>1. ASSUME NEW f \in Fences
        PROVE  leases'[f].state = "absent" <=> f >= nextFence'
    <3>1. CASE f = n
      BY <3>1, <1>1, <1>4, <1>6
    <3>2. CASE f # n /\ f = old
      BY <3>2, <1>0, <1>1, <1>2, <1>3, <1>4, <1>6 DEF TypeOK, Lease
    <3>3. CASE f # n /\ f # old
      BY <3>3, <1>0, <1>1, <1>3, <1>4, <1>6 DEF IssuedBelowSource
    <3> QED
      BY <3>1, <3>2, <3>3
  <2>2. ASSUME NEW q \in Resources
        PROVE  copy'[q].id < nextFence' /\ (copy'[q].id = 0 => copy'[q].state = "absent")
    BY <1>0, <1>1, <1>5, <1>6 DEF IssuedBelowSource, TypeOK, Copy
  <2> QED
    BY <2>1, <2>2 DEF IssuedBelowSource
<1>13. EndedIsInactive'
  <2> SUFFICES ASSUME NEW f \in ended'
               PROVE  leases'[f].state \notin {"absent", "active"}
    BY DEF EndedIsInactive
  <2>1. CASE f = old
    BY <2>1, <1>0, <1>1, <1>2, <1>3, <1>4, <1>6, <1>7 DEF TypeOK, Lease
  <2>2. CASE f # old
    <3>1. f \in ended /\ f \in Fences /\ f # n
      BY <2>2, <1>0, <1>1, <1>6 DEF EndedIsInactive, IssuedBelowSource, TypeOK
    <3> QED
      BY <3>1, <2>2, <1>0, <1>3, <1>4 DEF EndedIsInactive
  <2> QED
    BY <2>1, <2>2
<1>14. GateIsActive'
  BY <1>6 DEF GateIsActive
<1> QED
  BY <1>7, <1>9, <1>10, <1>11, <1>12, <1>13, <1>14 DEF IndInv

(* acquire's and check_fence's lazy expiry of the current holder of r is a  *)
(* mirrored update of that lease.                                           *)
LEMMA LazyExpiry ==
  ASSUME IndInv, NEW r \in Resources, NEW now \in Times, copy[r].id # 0,
         leases' = ExpireCurrent(r, now),
         copy' = [copy EXCEPT ![r].state = Evaluated(copy[r], now)],
         UNCHANGED <<nextFence, current>>,
         ended' = ended \cup EndedBy(r, now),
         gate' = 0 \/ (gate' = current[r] /\ Evaluated(copy[r], now) = "active")
  PROVE  IndInv'
<1> DEFINE f   == copy[r].id
           s   == Evaluated(copy[r], now)
           new == [resource |-> r, expires |-> copy[r].expires, state |-> s]
<1>0. TypeOK /\ CopiesAgree /\ ActiveIsCurrent /\ IssuedBelowSource
  BY DEF IndInv
<1>1. /\ copy[r] \in Copy /\ f \in Fences
      /\ copy[r].expires \in Times \cup {Never} /\ copy[r].state \in States
      /\ leases[f] \in Lease /\ leases[f].resource = r
      /\ leases[f].expires = copy[r].expires /\ leases[f].state = copy[r].state
      /\ leases[f].state # "absent"
  BY CurrentLease
<1>2. /\ s \in States /\ s # "absent"
      /\ s = "active" => copy[r].state = "active" /\ current[r] = f
  BY <1>0, <1>1, EvaluatedState DEF ActiveIsCurrent
<1>3. new \in Lease
  BY <1>1, <1>2 DEF Lease
<1>4. leases' = [leases EXCEPT ![f] = new]
  <2>1. leases' = [leases EXCEPT ![f] = [leases[f] EXCEPT !.state = s]]
    BY <1>1 DEF ExpireCurrent
  <2>2. [leases[f] EXCEPT !.state = s] = new
    BY <1>1, LeaseFields
  <2> QED
    BY <2>1, <2>2
<1>5. copy' = [copy EXCEPT ![r] = [id |-> f, expires |-> copy[r].expires, state |-> s]]
  <2>1. copy' = [copy EXCEPT ![r] = [copy[r] EXCEPT !.state = s]]
    OBVIOUS
  <2> QED
    BY <2>1, <1>1, CopyFields
<1>6. ended' = ended \/ (ended' = ended \cup {f} /\ s # "active")
  BY DEF EndedBy
<1>7. gate' = 0 \/ (gate' = f /\ s = "active")
  BY <1>2
<1> HIDE DEF new, f, s
<1>8. /\ new.resource = r /\ new.expires = copy[r].expires /\ new.state = s
      /\ copy[r].id = f
  BY DEF new, f
<1> QED
  BY <1>1, <1>2, <1>3, <1>4, <1>5, <1>6, <1>7, <1>8, MirroredUpdate

(* Every operation of the registry keeps the inductive invariant.           *)
THEOREM NextInv == IndInv /\ [Next]_vars => IndInv'
<1> SUFFICES ASSUME IndInv, [Next]_vars PROVE IndInv'
  OBVIOUS
<1>0. TypeOK /\ CopiesAgree /\ ActiveIsCurrent /\ IssuedBelowSource
  BY DEF IndInv
<1>1. ASSUME NEW r \in Resources, NEW now \in Times,
             NEW expires \in now .. Never, Acquire(r, expires, now)
      PROVE  IndInv'
  BY <1>1, AcquireInv
<1>2. ASSUME NEW r \in Resources, NEW now \in Times, AcquireExhausted(r, now)
      PROVE  IndInv'
  <2>1. CASE copy[r].id # 0
    BY <1>2, <2>1, LazyExpiry DEF AcquireExhausted
  <2>2. CASE copy[r].id = 0
    <3>1. copy[r].state = "absent" /\ Evaluated(copy[r], now) = "absent"
      BY <2>2, <1>0 DEF IssuedBelowSource, Evaluated
    <3>2. copy' = copy /\ leases' = leases /\ ended' = ended
      BY <3>1, <2>2, <1>0, <1>2 DEF AcquireExhausted, ExpireCurrent, EndedBy, TypeOK, Copy
    <3> QED
      BY <3>2, <1>2 DEF AcquireExhausted, IndInv, TypeOK, CopiesAgree, ActiveIsCurrent,
         FenceWithinSource, IssuedBelowSource, EndedIsInactive, GateIsActive
  <2> QED
    BY <2>1, <2>2
<1>3. ASSUME NEW r \in Resources, NEW now \in Times, CheckFence(r, now)
      PROVE  IndInv'
  BY <1>3, LazyExpiry DEF CheckFence
<1>4. ASSUME NEW f \in Fences, NEW now \in Times,
             NEW wanted \in now .. MaxTime, Renew(f, wanted, now)
      PROVE  IndInv'
  <2> DEFINE until == IF leases[f].expires = Never THEN wanted
                      ELSE Later(leases[f].expires, wanted)
             new   == [leases[f] EXCEPT !.expires = until]
  <2>1. leases[f] \in Lease /\ until \in Times \cup {Never} /\ leases[f].state = "active"
    BY <1>0, <1>4, LeaseAssumption DEF TypeOK, Lease, Renew, Later, Times, Never, Evaluated
  <2>2. new \in Lease /\ new.resource = leases[f].resource /\ new.state = "active"
        /\ new.expires = until
    BY <2>1 DEF Lease
  <2>3. leases' = [leases EXCEPT ![f] = new]
    BY <1>0, <1>4 DEF TypeOK, Renew
  <2>4. copy' = IF copy[new.resource].id = f
                THEN [copy EXCEPT ![new.resource] =
                        [id |-> f, expires |-> new.expires, state |-> new.state]]
                ELSE copy
    <3>1. CASE copy[leases[f].resource].id = f
      <4> DEFINE r == leases[f].resource
      <4>1. r \in Resources /\ f # 0
        BY <2>1 DEF Lease, Fences
      <4>2. copy[r] \in Copy /\ leases[f].expires = copy[r].expires
            /\ leases[f].state = copy[r].state
        BY <3>1, <4>1, CurrentLease
      <4>3. copy' = [copy EXCEPT ![r] = [copy[r] EXCEPT !.expires = until]]
        BY <3>1, <1>4 DEF Renew
      <4>4. [copy[r] EXCEPT !.expires = until] =
              [id |-> copy[r].id, expires |-> until, state |-> copy[r].state]
        BY <4>2, CopyFields
      <4> HIDE DEF new
      <4> QED
        BY <3>1, <4>2, <4>3, <4>4, <2>2, <2>1
    <3>2. CASE copy[leases[f].resource].id # f
      BY <3>2, <1>4, <2>2 DEF Renew
    <3> QED
      BY <3>1, <3>2
  <2> HIDE DEF new
  <2> QED
    BY <1>4, <2>1, <2>2, <2>3, <2>4, MirroredUpdate DEF Renew
<1>5. ASSUME NEW f \in Fences, NEW now \in Times, RenewRefused(f, now)
      PROVE  IndInv'
  <2> DEFINE new == [leases[f] EXCEPT !.state = Evaluated(leases[f], now)]
  <2>1. leases[f] \in Lease /\ leases[f].state \in States
    BY <1>0 DEF TypeOK, Lease
  <2>2. /\ Evaluated(leases[f], now) \in States
        /\ Evaluated(leases[f], now) \notin {"active", "absent"}
    BY <1>5, <2>1, EvaluatedState DEF RenewRefused
  <2>3. new \in Lease /\ new.resource = leases[f].resource
        /\ new.state = Evaluated(leases[f], now) /\ new.expires = leases[f].expires
    BY <2>1, <2>2 DEF Lease
  <2>4. leases' = [leases EXCEPT ![f] = new]
    BY <1>0, <1>5 DEF TypeOK, RenewRefused
  <2>5. copy' = IF copy[new.resource].id = f
                THEN [copy EXCEPT ![new.resource] =
                        [id |-> f, expires |-> new.expires, state |-> new.state]]
                ELSE copy
    <3>1. CASE copy[leases[f].resource].id = f
      <4> DEFINE r == leases[f].resource
      <4>1. r \in Resources /\ f # 0
        BY <2>1 DEF Lease, Fences
      <4>2. copy[r] \in Copy /\ leases[f].expires = copy[r].expires
            /\ leases[f].state = copy[r].state
        BY <3>1, <4>1, CurrentLease
      <4>3. copy' = [copy EXCEPT ![r] = [copy[r] EXCEPT !.state = Evaluated(leases[f], now)]]
        BY <3>1, <1>5 DEF RenewRefused
      <4>4. [copy[r] EXCEPT !.state = Evaluated(leases[f], now)] =
              [id |-> copy[r].id, expires |-> copy[r].expires, state |-> Evaluated(leases[f], now)]
        BY <4>2, CopyFields
      <4> HIDE DEF new
      <4> QED
        BY <3>1, <4>2, <4>3, <4>4, <2>3, <2>1
    <3>2. CASE copy[leases[f].resource].id # f
      BY <3>2, <1>5, <2>3 DEF RenewRefused
    <3> QED
      BY <3>1, <3>2
  <2> HIDE DEF new
  <2> QED
    BY <1>5, <2>2, <2>3, <2>4, <2>5, MirroredUpdate DEF RenewRefused
<1>6. ASSUME NEW f \in Fences, Release(f)
      PROVE  IndInv'
  <2> DEFINE new == [leases[f] EXCEPT !.state = "released"]
  <2>1. leases[f] \in Lease /\ leases[f].state = "active"
    BY <1>0, <1>6 DEF TypeOK, Release
  <2>2. new \in Lease /\ new.resource = leases[f].resource
        /\ new.state = "released" /\ new.expires = leases[f].expires
    BY <2>1 DEF Lease, States
  <2>3. leases' = [leases EXCEPT ![f] = new]
    BY <1>0, <1>6 DEF TypeOK, Release
  <2>4. copy' = IF copy[new.resource].id = f
                THEN [copy EXCEPT ![new.resource] =
                        [id |-> f, expires |-> new.expires, state |-> new.state]]
                ELSE copy
    <3>1. CASE copy[leases[f].resource].id = f
      <4> DEFINE r == leases[f].resource
      <4>1. r \in Resources /\ f # 0
        BY <2>1 DEF Lease, Fences
      <4>2. copy[r] \in Copy /\ leases[f].expires = copy[r].expires
            /\ leases[f].state = copy[r].state
        BY <3>1, <4>1, CurrentLease
      <4>3. copy' = [copy EXCEPT ![r] = [copy[r] EXCEPT !.state = "released"]]
        BY <3>1, <1>6 DEF Release
      <4>4. [copy[r] EXCEPT !.state = "released"] =
              [id |-> copy[r].id, expires |-> copy[r].expires, state |-> "released"]
        BY <4>2, CopyFields
      <4> HIDE DEF new
      <4> QED
        BY <3>1, <4>2, <4>3, <4>4, <2>2, <2>1
    <3>2. CASE copy[leases[f].resource].id # f
      BY <3>2, <1>6, <2>2 DEF Release
    <3> QED
      BY <3>1, <3>2
  <2> HIDE DEF new
  <2> QED
    BY <1>6, <2>1, <2>2, <2>3, <2>4, MirroredUpdate DEF Release
<1>7. ASSUME NEW f \in Fences, Revoke(f)
      PROVE  IndInv'
  <2> DEFINE new == [leases[f] EXCEPT !.state = "revoked"]
  <2>1. leases[f] \in Lease /\ leases[f].state = "active"
    BY <1>0, <1>7 DEF TypeOK, Revoke
  <2>2. new \in Lease /\ new.resource = leases[f].resource
        /\ new.state = "revoked" /\ new.expires = leases[f].expires
    BY <2>1 DEF Lease, States
  <2>3. leases' = [leases EXCEPT ![f] = new]
    BY <1>0, <1>7 DEF TypeOK, Revoke
  <2>4. copy' = IF copy[new.resource].id = f
                THEN [copy EXCEPT ![new.resource] =
                        [id |-> f, expires |-> new.expires, state |-> new.state]]
                ELSE copy
    <3>1. CASE copy[leases[f].resource].id = f
      <4> DEFINE r == leases[f].resource
      <4>1. r \in Resources /\ f # 0
        BY <2>1 DEF Lease, Fences
      <4>2. copy[r] \in Copy /\ leases[f].expires = copy[r].expires
            /\ leases[f].state = copy[r].state
        BY <3>1, <4>1, CurrentLease
      <4>3. copy' = [copy EXCEPT ![r] = [copy[r] EXCEPT !.state = "revoked"]]
        BY <3>1, <1>7 DEF Revoke
      <4>4. [copy[r] EXCEPT !.state = "revoked"] =
              [id |-> copy[r].id, expires |-> copy[r].expires, state |-> "revoked"]
        BY <4>2, CopyFields
      <4> HIDE DEF new
      <4> QED
        BY <3>1, <4>2, <4>3, <4>4, <2>2, <2>1
    <3>2. CASE copy[leases[f].resource].id # f
      BY <3>2, <1>7, <2>2 DEF Revoke
    <3> QED
      BY <3>1, <3>2
  <2>5. current' = [current EXCEPT ![new.resource] = f + 1]
    BY <1>0, <1>7, <2>1, <2>2 DEF Revoke, ActiveIsCurrent, Later, Fences
  <2> HIDE DEF new
  <2> QED
    BY <1>7, <2>1, <2>2, <2>3, <2>4, <2>5, MirroredUpdate DEF Revoke
<1>8. ASSUME NEW f \in Fences, CheckStaleFence(f)
      PROVE  IndInv'
  <2>1. leases[f].state \notin {"absent", "active"}
    BY <1>0, <1>8 DEF CheckStaleFence, ActiveIsCurrent
  <2> QED
    BY <1>8, <2>1 DEF CheckStaleFence, regVars, IndInv, TypeOK, CopiesAgree, ActiveIsCurrent,
       FenceWithinSource, IssuedBelowSource, EndedIsInactive, GateIsActive
<1>9. CASE UNCHANGED vars
  BY <1>9 DEF vars, regVars, IndInv, TypeOK, CopiesAgree, ActiveIsCurrent,
     FenceWithinSource, IssuedBelowSource, EndedIsInactive, GateIsActive
<1> QED
  BY <1>1, <1>2, <1>3, <1>4, <1>5, <1>6, <1>7, <1>8, <1>9 DEF Next

(* The inductive invariant holds in every reachable state of the registry.  *)
THEOREM Invariance == Spec => []IndInv
<1>1. Init => IndInv
  BY InitInv
<1>2. IndInv /\ [Next]_vars => IndInv'
  BY NextInv
<1> QED
  BY <1>1, <1>2, PTL DEF Spec

(* The registry's state always has its type; in particular no current fence *)
(* leaves u64, although revoke adds without a check.                        *)
THEOREM TypeCorrect == Spec => []TypeOK
<1>1. IndInv => TypeOK
  BY DEF IndInv
<1> QED
  BY <1>1, Invariance, PTL

(* The effect gate's copy and the identity index agree.                     *)
THEOREM Agreement == Spec => [](CopiesAgree /\ ActiveIsCurrent /\ FenceWithinSource)
<1>1. IndInv => CopiesAgree /\ ActiveIsCurrent /\ FenceWithinSource
  BY DEF IndInv
<1> QED
  BY <1>1, Invariance, PTL

(* check_fence never accepts a token whose end was reported before.         *)
THEOREM NoZombie == Spec => []ZombieNeverActs
<1>1. IndInv => ZombieNeverActs
  BY DEF IndInv, TypeOK, EndedIsInactive, GateIsActive, ZombieNeverActs, Fences
<1> QED
  BY <1>1, Invariance, PTL

(* Rewriting one lease moves it forward if it keeps a finite expiry that    *)
(* only grows and leaves a lease that has ended as it is.                   *)
LEMMA RewriteMovesForward ==
  ASSUME IndInv, NEW f \in Fences, NEW new \in Lease,
         leases' = [leases EXCEPT ![f] = new],
         leases[f].state \notin {"absent", "active"} => new = leases[f],
         leases[f].state = "active" /\ leases[f].expires # Never =>
           new.expires >= leases[f].expires /\ new.expires # Never,
         NEW g \in Fences
  PROVE  LeaseMovesForward(g)
<1>1. leases \in [Fences -> Lease]
  BY DEF IndInv, TypeOK
<1>2. g # f => leases'[g] = leases[g]
  BY <1>1
<1>3. leases[g].expires \in Int
  BY <1>1, LeaseAssumption DEF Lease, Times, Never
<1> QED
  BY <1>1, <1>2, <1>3 DEF LeaseMovesForward

(* Writing the lazily expired state of a resource's last lease back to the  *)
(* identity index rewrites that lease alone, and never an ended one.        *)
LEMMA ExpiryMovesForward ==
  ASSUME IndInv, NEW r \in Resources, NEW now, NEW g \in Fences,
         leases' = ExpireCurrent(r, now)
  PROVE  LeaseMovesForward(g)
<1>1. CASE copy[r].id = 0
  <2>1. leases[g].expires \in Int
    BY LeaseAssumption DEF IndInv, TypeOK, Lease, Times, Never
  <2> QED
    BY <1>1, <2>1 DEF ExpireCurrent, LeaseMovesForward
<1>2. CASE copy[r].id # 0
  <2> DEFINE f == copy[r].id
             s == Evaluated(copy[r], now)
             new == [leases[f] EXCEPT !.state = s]
  <2>1. /\ f \in Fences /\ leases[f] \in Lease /\ copy[r].state \in States
        /\ leases[f].state = copy[r].state
    BY <1>2, CurrentLease
  <2>2. s \in States /\ (copy[r].state # "active" => s = copy[r].state)
    BY <2>1, EvaluatedState
  <2>3. new = [resource |-> leases[f].resource, expires |-> leases[f].expires, state |-> s]
    BY <2>1, LeaseFields
  <2>4. /\ new \in Lease /\ new.expires = leases[f].expires /\ leases[f].expires \in Int
        /\ leases[f].state # "active" => new = leases[f]
    BY <2>1, <2>2, <2>3, LeaseAssumption DEF Lease, Times, Never
  <2>5. leases' = [leases EXCEPT ![f] = new]
    BY <1>2 DEF ExpireCurrent
  <2> HIDE DEF f, s, new
  <2>6. leases[f].state = "active" /\ leases[f].expires # Never =>
           new.expires >= leases[f].expires /\ new.expires # Never
    BY <2>4
  <2>7. leases[f].state \notin {"absent", "active"} => new = leases[f]
    BY <2>4
  <2> QED
    BY <2>1, <2>4, <2>5, <2>6, <2>7, RewriteMovesForward
<1> QED
  BY <1>1, <1>2

(* No step of the registry moves a lease or a current fence backwards.      *)
LEMMA NextMovesForward ==
  ASSUME IndInv, Next
  PROVE  /\ \A f \in Fences : LeaseMovesForward(f)
         /\ \A r \in Resources : current'[r] >= current[r]
<1>0. TypeOK /\ FenceWithinSource /\ IssuedBelowSource /\ ActiveIsCurrent
  BY DEF IndInv
<1>1. \A r \in Resources : current[r] \in Int
  BY <1>0, LeaseAssumption DEF TypeOK, Fences
<1>2. nextFence \in Nat /\ \A g \in Fences : leases[g] \in Lease
  BY <1>0, LeaseAssumption DEF TypeOK, Fences
<1>3. ASSUME NEW r \in Resources, NEW now \in Times, NEW expires \in now .. Never,
             Acquire(r, expires, now)
      PROVE  /\ \A f \in Fences : LeaseMovesForward(f)
             /\ \A q \in Resources : current'[q] >= current[q]
  <2>1. nextFence \in Fences /\ leases[nextFence].state = "absent"
    BY <1>0, <1>3, LeaseAssumption DEF Acquire, TypeOK, Fences, IssuedBelowSource
  <2>2. ASSUME NEW f \in Fences
        PROVE  LeaseMovesForward(f)
    <3>1. CASE f = nextFence
      BY <2>1, <3>1 DEF LeaseMovesForward
    <3>2. CASE f # nextFence
      <4> DEFINE L == ExpireCurrent(r, now)
      <4>1. L \in [Fences -> Lease] /\ leases'[f] = L[f]
        <5>1. leases' = [L EXCEPT ![nextFence] =
                          [resource |-> r, expires |-> expires, state |-> "active"]]
          BY <1>3 DEF Acquire
        <5>2. L \in [Fences -> Lease]
          <6>1. CASE copy[r].id = 0
            BY <6>1, <1>0 DEF ExpireCurrent, TypeOK
          <6>2. CASE copy[r].id # 0
            <7>1. /\ copy[r].id \in Fences /\ copy[r].state \in States
                  /\ leases[copy[r].id] \in Lease
              BY <6>2, CurrentLease
            <7>2. Evaluated(copy[r], now) \in States
              BY <7>1, EvaluatedState
            <7>3. [leases[copy[r].id] EXCEPT !.state = Evaluated(copy[r], now)] \in Lease
              BY <7>1, <7>2 DEF Lease
            <7> QED
              BY <1>0, <6>2, <7>1, <7>3 DEF ExpireCurrent, TypeOK
          <6> QED
            BY <6>1, <6>2
        <5> QED
          BY <5>1, <5>2, <3>2
      <4>2. /\ leases[f].state \notin {"absent", "active"} => L[f] = leases[f]
            /\ L[f].expires = leases[f].expires
        <5>1. CASE copy[r].id = 0
          BY <5>1 DEF ExpireCurrent
        <5>2. CASE copy[r].id # 0
          <6>1. /\ copy[r].id \in Fences /\ copy[r].state \in States
                /\ leases[copy[r].id] \in Lease
                /\ leases[copy[r].id].state = copy[r].state
            BY <5>2, CurrentLease
          <6>2. copy[r].state # "active" => Evaluated(copy[r], now) = copy[r].state
            BY <6>1, EvaluatedState
          <6>3. [leases[copy[r].id] EXCEPT !.state = Evaluated(copy[r], now)] =
                  [resource |-> leases[copy[r].id].resource,
                   expires |-> leases[copy[r].id].expires,
                   state |-> Evaluated(copy[r], now)]
            BY <6>1, LeaseFields
          <6>4. L = [leases EXCEPT ![copy[r].id] =
                       [leases[copy[r].id] EXCEPT !.state = Evaluated(copy[r], now)]]
            BY <5>2 DEF ExpireCurrent
          <6> HIDE DEF L
          <6>5. CASE f = copy[r].id
            BY <1>0, <6>1, <6>2, <6>3, <6>4, <6>5 DEF TypeOK, Lease
          <6>6. CASE f # copy[r].id
            BY <1>0, <6>4, <6>6 DEF TypeOK
          <6> QED
            BY <6>5, <6>6
        <5> QED
          BY <5>1, <5>2
      <4>3. leases[f].expires \in Int
        BY <1>2, LeaseAssumption DEF Lease, Times, Never
      <4> HIDE DEF L
      <4> QED
        BY <4>1, <4>2, <4>3 DEF LeaseMovesForward
    <3> QED
      BY <3>1, <3>2
  <2>3. \A q \in Resources : current'[q] >= current[q]
    BY <1>0, <1>1, <1>2, <1>3 DEF Acquire, TypeOK, FenceWithinSource
  <2> QED
    BY <2>2, <2>3
<1>4. ASSUME NEW r \in Resources, NEW now \in Times,
             AcquireExhausted(r, now) \/ CheckFence(r, now)
      PROVE  /\ \A f \in Fences : LeaseMovesForward(f)
             /\ \A q \in Resources : current'[q] >= current[q]
  <2>1. leases' = ExpireCurrent(r, now) /\ current' = current
    BY <1>4 DEF AcquireExhausted, CheckFence
  <2> QED
    BY <1>1, <2>1, ExpiryMovesForward
<1>5. ASSUME NEW f \in Fences, NEW now \in Times, NEW wanted \in now .. MaxTime,
             Renew(f, wanted, now)
      PROVE  /\ \A g \in Fences : LeaseMovesForward(g)
             /\ \A q \in Resources : current'[q] >= current[q]
  <2> DEFINE until == IF leases[f].expires = Never THEN wanted
                      ELSE Later(leases[f].expires, wanted)
             new == [leases[f] EXCEPT !.expires = until]
  <2>1. /\ leases[f] \in Lease /\ leases[f].state \in States
        /\ leases[f].expires \in Times \cup {Never}
    BY <1>2 DEF Lease
  <2>2. leases[f].state = "active"
    BY <1>5, <2>1, EvaluatedState DEF Renew
  <2>3. /\ until \in Times
        /\ leases[f].expires # Never => until >= leases[f].expires
    BY <2>1, LeaseAssumption DEF Later, Times, Never
  <2>4. new = [resource |-> leases[f].resource, expires |-> until, state |-> leases[f].state]
    BY <2>1, LeaseFields
  <2>5. new \in Lease /\ new.expires = until /\ until # Never
    BY <2>1, <2>3, <2>4, LeaseAssumption DEF Lease, Times, Never
  <2>6. leases' = [leases EXCEPT ![f] = new] /\ current' = current
    BY <1>5 DEF Renew
  <2> HIDE DEF until, new
  <2>7. leases[f].state = "active" /\ leases[f].expires # Never =>
           new.expires >= leases[f].expires /\ new.expires # Never
    BY <2>3, <2>5
  <2>8. leases[f].state \notin {"absent", "active"} => new = leases[f]
    BY <2>2
  <2>9. \A g \in Fences : LeaseMovesForward(g)
    BY <2>5, <2>6, <2>7, <2>8, RewriteMovesForward
  <2> QED
    BY <1>1, <2>6, <2>9
<1>6. ASSUME NEW f \in Fences, NEW now \in Times, RenewRefused(f, now)
      PROVE  /\ \A g \in Fences : LeaseMovesForward(g)
             /\ \A q \in Resources : current'[q] >= current[q]
  <2> DEFINE s == Evaluated(leases[f], now)
             new == [leases[f] EXCEPT !.state = s]
  <2>1. /\ leases[f] \in Lease /\ leases[f].state \in States
        /\ leases[f].expires \in Int
    BY <1>2, LeaseAssumption DEF Lease, Times, Never
  <2>2. s \in States /\ (leases[f].state # "active" => s = leases[f].state)
    BY <2>1, EvaluatedState
  <2>3. new = [resource |-> leases[f].resource, expires |-> leases[f].expires, state |-> s]
    BY <2>1, LeaseFields
  <2>4. /\ new \in Lease /\ new.expires = leases[f].expires
        /\ leases[f].state # "active" => new = leases[f]
    BY <2>1, <2>2, <2>3 DEF Lease
  <2>5. leases' = [leases EXCEPT ![f] = new] /\ current' = current
    BY <1>6 DEF RenewRefused
  <2> HIDE DEF s, new
  <2>6. leases[f].state = "active" /\ leases[f].expires # Never =>
           new.expires >= leases[f].expires /\ new.expires # Never
    BY <2>1, <2>4
  <2>7. leases[f].state \notin {"absent", "active"} => new = leases[f]
    BY <2>4
  <2>8. \A g \in Fences : LeaseMovesForward(g)
    BY <2>4, <2>5, <2>6, <2>7, RewriteMovesForward
  <2> QED
    BY <1>1, <2>5, <2>8
<1>7. ASSUME NEW f \in Fences, NEW end \in {"released", "revoked"},
             leases[f].state = "active", leases' = [leases EXCEPT ![f].state = end]
      PROVE  \A g \in Fences : LeaseMovesForward(g)
  <2> DEFINE new == [leases[f] EXCEPT !.state = end]
  <2>1. leases[f] \in Lease /\ leases[f].expires \in Int
    BY <1>2, LeaseAssumption DEF Lease, Times, Never
  <2>2. new = [resource |-> leases[f].resource, expires |-> leases[f].expires, state |-> end]
    BY <2>1, LeaseFields
  <2>3. new \in Lease /\ new.expires = leases[f].expires
    BY <2>1, <2>2 DEF Lease, States
  <2>4. leases' = [leases EXCEPT ![f] = new]
    BY <1>7
  <2> HIDE DEF new
  <2>5. leases[f].state = "active" /\ leases[f].expires # Never =>
           new.expires >= leases[f].expires /\ new.expires # Never
    BY <2>1, <2>3
  <2>6. leases[f].state \notin {"absent", "active"} => new = leases[f]
    BY <1>7
  <2> QED
    BY <2>3, <2>4, <2>5, <2>6, RewriteMovesForward
<1>8. ASSUME NEW f \in Fences, Release(f)
      PROVE  /\ \A g \in Fences : LeaseMovesForward(g)
             /\ \A q \in Resources : current'[q] >= current[q]
  <2>1. \A g \in Fences : LeaseMovesForward(g)
    BY <1>7, <1>8 DEF Release
  <2> QED
    BY <1>1, <1>8, <2>1 DEF Release
<1>9. ASSUME NEW f \in Fences, Revoke(f)
      PROVE  /\ \A g \in Fences : LeaseMovesForward(g)
             /\ \A q \in Resources : current'[q] >= current[q]
  <2>1. f \in Int /\ leases[f].resource \in Resources
    BY <1>2, LeaseAssumption DEF Fences, Lease
  <2>2. \A q \in Resources : current'[q] >= current[q]
    BY <1>0, <1>1, <1>9, <2>1 DEF Revoke, Later, TypeOK
  <2> QED
    BY <1>7, <1>9, <2>2 DEF Revoke
<1>10. ASSUME NEW f \in Fences, CheckStaleFence(f)
       PROVE  /\ \A g \in Fences : LeaseMovesForward(g)
              /\ \A q \in Resources : current'[q] >= current[q]
  <2>1. \A g \in Fences : leases[g].expires \in Int
    BY <1>2, LeaseAssumption DEF Lease, Times, Never
  <2> QED
    BY <1>1, <1>10, <2>1 DEF CheckStaleFence, regVars, LeaseMovesForward
<1> QED
  BY <1>3, <1>4, <1>5, <1>6, <1>8, <1>9, <1>10 DEF Next

(* An end that was observed is never undone, a renewal never shortens a     *)
(* lease and no resource's fence goes back, whatever the callers do.        *)
THEOREM Monotone == Spec => EndsAndFencesAreMonotone
<1>1. IndInv /\ [Next]_vars =>
        [ /\ \A f \in Fences : LeaseMovesForward(f)
          /\ \A r \in Resources : current'[r] >= current[r] ]_vars
  BY NextMovesForward
<1> QED
  BY <1>1, Invariance, PTL DEF Spec, EndsAndFencesAreMonotone

-----------------------------------------------------------------------------
(* The cancellation lifecycle. Each of its steps is shown to keep the parts *)
(* of CancelInv one group at a time.                                        *)


(* A new lifecycle satisfies the inductive invariant.                       *)
LEMMA CancelInitInv == CancelInit => CancelInv
  BY CancelAssumption
     DEF CancelInit, CancelInv, CancelTypeOK, PhaseFields, AskedBeforeWindow, AskedStaysUntilDrain,
         AskedAfterRunning, FailureIsPrimary, OutcomeIsHonest, FailureNotMasked,
         WindowIsFull, Readings, NoTime, Primary, Outcomes

(* What drained_outcome yields: a terminal outcome that keeps a failure and *)
(* never is Indeterminate.                                                  *)
LEMMA DrainedOutcomeKeepsPrimary ==
  ASSUME NEW p \in Primary
  PROVE  /\ DrainedOutcome(p) \in Outcomes \ {"none", "indeterminate"}
         /\ p \in Reasons => DrainedOutcome(p) = p
  BY CancelAssumption DEF DrainedOutcome, Primary, Outcomes

(* A request starts nothing but the requested phase.                        *)
LEMMA RequestInv ==
  ASSUME CancelInv, NEW now \in 0 .. clock, Request(now)
  PROVE  CancelInv'
<1>1. CancelTypeOK' /\ PhaseFields'
  BY DEF CancelInv, CancelTypeOK, PhaseFields, Request, Readings, NoTime
<1>2. AskedBeforeWindow' /\ AskedStaysUntilDrain' /\ AskedAfterRunning' /\ FailureIsPrimary'
  BY DEF CancelInv, AskedBeforeWindow, AskedStaysUntilDrain, AskedAfterRunning,
         FailureIsPrimary, Request
<1>3. OutcomeIsHonest' /\ FailureNotMasked' /\ WindowIsFull'
  BY DEF CancelInv, CancelTypeOK, OutcomeIsHonest, FailureNotMasked, WindowIsFull, Request
<1> QED
  BY <1>1, <1>2, <1>3 DEF CancelInv

(* The window opens no earlier than the request.                            *)
LEMMA BeginDrainInv ==
  ASSUME CancelInv, NEW now \in 0 .. clock, BeginDrain(now)
  PROVE  CancelInv'
<1>0. /\ DrainStart(now) \in Nat /\ DrainStart(now) <= clock
      /\ DrainStart(now) >= now /\ DrainStart(now) >= requested
  BY DEF CancelInv, CancelTypeOK, PhaseFields, DrainStart, Readings, NoTime
<1>1. CancelTypeOK' /\ PhaseFields'
  BY <1>0 DEF CancelInv, CancelTypeOK, PhaseFields, BeginDrain, Readings, NoTime, observations
<1>2. AskedBeforeWindow'
  <2>1. CASE asked = NoTime
    BY <1>0, <2>1 DEF AskedBeforeWindow, BeginDrain, NoTime, observations
  <2>2. CASE asked # NoTime
    BY <1>0, <2>2 DEF CancelInv, AskedStaysUntilDrain, AskedBeforeWindow, BeginDrain, observations
  <2> QED
    BY <2>1, <2>2
<1>3. AskedStaysUntilDrain' /\ AskedAfterRunning' /\ FailureIsPrimary'
  BY DEF CancelInv, AskedStaysUntilDrain, AskedAfterRunning, FailureIsPrimary,
         BeginDrain, observations
<1>4. OutcomeIsHonest' /\ FailureNotMasked' /\ WindowIsFull'
  BY DEF CancelInv, CancelTypeOK, OutcomeIsHonest, FailureNotMasked, WindowIsFull,
         BeginDrain, observations
<1> QED
  BY <1>1, <1>2, <1>3, <1>4 DEF CancelInv

(* A lifecycle that ends with nobody outstanding, by the last worker's      *)
(* report, by a primary result or by the driver.                            *)
LEMMA DrainedInv ==
  ASSUME CancelInv, phase # "final", outstanding' = {},
         primary' \in Primary, Finalise(DrainedOutcome(primary')),
         failure' = (IF primary' \in Reasons THEN primary' ELSE "none"),
         UNCHANGED <<timeout, clock, asked, stranded>>
  PROVE  CancelInv'
<1>0. /\ outcome' \in Outcomes \ {"none", "indeterminate"}
      /\ primary' \in Reasons => outcome' = primary'
      /\ phase' = "final" /\ requested' = NoTime /\ start' = NoTime
  BY DrainedOutcomeKeepsPrimary DEF Finalise
<1>1. CancelTypeOK' /\ PhaseFields'
  BY <1>0 DEF CancelInv, CancelTypeOK, PhaseFields, Readings, NoTime
<1>2. AskedBeforeWindow' /\ AskedStaysUntilDrain' /\ AskedAfterRunning' /\ FailureIsPrimary'
  BY <1>0 DEF AskedBeforeWindow, AskedStaysUntilDrain, AskedAfterRunning, FailureIsPrimary
<1>3. OutcomeIsHonest' /\ WindowIsFull'
  BY <1>0 DEF OutcomeIsHonest, WindowIsFull
<1>4. FailureNotMasked'
  BY <1>0 DEF FailureNotMasked
<1> QED
  BY <1>1, <1>2, <1>3, <1>4 DEF CancelInv

(* A worker's report, early, in time or after the end.                      *)
LEMMA WorkerDoneInv ==
  ASSUME CancelInv, NEW w \in Workers, WorkerDone(w)
  PROVE  CancelInv'
<1>1. CASE outstanding' = {} /\ phase # "final" /\ (primary # "none" \/ phase = "draining")
  <2>1. primary' = primary /\ primary \in Primary /\ failure' = failure
    BY DEF WorkerDone, CancelInv, CancelTypeOK, observations
  <2>2. failure' = (IF primary' \in Reasons THEN primary' ELSE "none")
    BY <2>1 DEF CancelInv, FailureIsPrimary
  <2> QED
    BY <1>1, <2>1, <2>2, DrainedInv DEF WorkerDone, observations
<1>2. CASE ~(outstanding' = {} /\ phase # "final" /\ (primary # "none" \/ phase = "draining"))
  <2>1. /\ outstanding' \subseteq outstanding
        /\ UNCHANGED <<phase, outcome, requested, start, primary, timeout, clock,
                       asked, failure, stranded>>
    BY <1>2 DEF WorkerDone, observations
  <2>2. CancelTypeOK' /\ PhaseFields'
    BY <2>1 DEF CancelInv, CancelTypeOK, PhaseFields
  <2>3. AskedBeforeWindow' /\ AskedStaysUntilDrain' /\ AskedAfterRunning' /\ FailureIsPrimary'
    BY <2>1 DEF CancelInv, AskedBeforeWindow, AskedStaysUntilDrain, AskedAfterRunning,
                FailureIsPrimary
  <2>4. OutcomeIsHonest' /\ FailureNotMasked' /\ WindowIsFull'
    BY <2>1 DEF CancelInv, OutcomeIsHonest, FailureNotMasked, WindowIsFull
  <2> QED
    BY <2>2, <2>3, <2>4 DEF CancelInv
<1> QED
  BY <1>1, <1>2

(* A primary result: completion, or a failure with its reason.              *)
LEMMA RecordPrimaryInv ==
  ASSUME CancelInv, NEW o \in Primary \ {"none"}, RecordPrimary(o)
  PROVE  CancelInv'
<1>0. /\ phase # "final" /\ primary \notin Reasons /\ primary' = o /\ failure = "none"
      /\ failure' = (IF o \in Reasons THEN o ELSE "none")
      /\ UNCHANGED <<outstanding, timeout, clock, asked, stranded>>
  BY DEF RecordPrimary, CancelInv, FailureIsPrimary
<1>1. CASE outstanding = {}
  BY <1>0, <1>1, DrainedInv DEF RecordPrimary
<1>2. CASE outstanding # {}
  <2>1. /\ phase' = (IF phase = "running" THEN "requested" ELSE phase)
        /\ UNCHANGED <<outcome, requested, start>>
    BY <1>2 DEF RecordPrimary
  <2>2. CancelTypeOK'
    BY <1>0, <2>1 DEF CancelInv, CancelTypeOK, Primary
  <2>3. PhaseFields'
    BY <1>0, <2>1 DEF CancelInv, PhaseFields
  <2>4. AskedBeforeWindow' /\ AskedStaysUntilDrain' /\ AskedAfterRunning' /\ FailureIsPrimary'
    BY <1>0, <2>1 DEF CancelInv, CancelTypeOK, PhaseFields, AskedBeforeWindow, AskedStaysUntilDrain,
                      AskedAfterRunning, FailureIsPrimary
  <2>5. OutcomeIsHonest' /\ FailureNotMasked' /\ WindowIsFull'
    BY <1>0, <2>1 DEF CancelInv, CancelTypeOK, OutcomeIsHonest, FailureNotMasked, WindowIsFull
  <2> QED
    BY <2>2, <2>3, <2>4, <2>5 DEF CancelInv
<1> QED
  BY <1>1, <1>2

(* The driver at the end of the window.                                     *)
LEMMA DriveTimesOutInv ==
  ASSUME CancelInv, NEW now \in 0 .. clock, DriveTimesOut(now)
  PROVE  CancelInv'
<1>0. /\ phase' = "final" /\ outcome' = "indeterminate" /\ requested' = NoTime
      /\ start' = NoTime /\ stranded' = outstanding
      /\ UNCHANGED <<primary, outstanding, timeout, clock, asked, failure>>
  BY DEF DriveTimesOut, Finalise
<1>1. CancelTypeOK' /\ PhaseFields'
  BY <1>0 DEF CancelInv, CancelTypeOK, PhaseFields, Outcomes, Readings, NoTime
<1>2. AskedBeforeWindow' /\ AskedStaysUntilDrain' /\ AskedAfterRunning' /\ FailureIsPrimary'
  BY <1>0 DEF CancelInv, AskedBeforeWindow, AskedStaysUntilDrain, AskedAfterRunning,
              FailureIsPrimary
<1>3. OutcomeIsHonest' /\ FailureNotMasked'
  BY <1>0 DEF CancelInv, OutcomeIsHonest, FailureNotMasked
<1>4. WindowIsFull'
  <2>1. /\ start \in Nat /\ asked <= start /\ timeout \in Nat /\ clock \in Nat
        /\ asked \in Int
    BY CancelAssumption DEF CancelInv, CancelTypeOK, PhaseFields, AskedBeforeWindow, DriveTimesOut,
                            Readings, NoTime
  <2>2. now - start >= timeout /\ now <= clock /\ now \in Int
    BY DEF DriveTimesOut, CancelInv, CancelTypeOK
  <2> QED
    BY <1>0, <2>1, <2>2 DEF WindowIsFull
<1> QED
  BY <1>1, <1>2, <1>3, <1>4 DEF CancelInv

(* The driver when nobody is awaited.                                       *)
LEMMA DriveDrainedInv == CancelInv /\ DriveDrained => CancelInv'
<1> SUFFICES ASSUME CancelInv, DriveDrained PROVE CancelInv'
  OBVIOUS
<1>1. primary' = primary /\ primary \in Primary /\ failure' = failure
  BY DEF DriveDrained, CancelInv, CancelTypeOK, observations
<1>2. failure' = (IF primary' \in Reasons THEN primary' ELSE "none")
  BY <1>1 DEF CancelInv, FailureIsPrimary
<1> QED
  BY <1>1, <1>2, DrainedInv DEF DriveDrained, observations

(* The wall clock of the callers only moves away from request and window.   *)
LEMMA TickInv == CancelInv /\ Tick => CancelInv'
<1> SUFFICES ASSUME CancelInv, Tick PROVE CancelInv'
  OBVIOUS
<1>1. CancelTypeOK' /\ PhaseFields'
  BY DEF CancelInv, CancelTypeOK, PhaseFields, Tick, Readings, NoTime, observations
<1>2. AskedBeforeWindow' /\ AskedStaysUntilDrain' /\ AskedAfterRunning' /\ FailureIsPrimary'
  BY DEF CancelInv, AskedBeforeWindow, AskedStaysUntilDrain, AskedAfterRunning,
         FailureIsPrimary, Tick, observations
<1>3. OutcomeIsHonest' /\ FailureNotMasked'
  BY DEF CancelInv, OutcomeIsHonest, FailureNotMasked, Tick, observations
<1>4. WindowIsFull'
  BY CancelAssumption DEF CancelInv, CancelTypeOK, WindowIsFull, Tick, observations, Readings, NoTime
<1> QED
  BY <1>1, <1>2, <1>3, <1>4 DEF CancelInv

(* Every step of the lifecycle, its callers and the clock keeps CancelInv.  *)
LEMMA CancelNextInv == CancelInv /\ [CancelNext]_cancelVars => CancelInv'
<1> SUFFICES ASSUME CancelInv, [CancelNext]_cancelVars PROVE CancelInv'
  OBVIOUS
<1>1. CASE \E now \in 0 .. clock : Request(now) \/ BeginDrain(now) \/ DriveTimesOut(now)
  BY <1>1, RequestInv, BeginDrainInv, DriveTimesOutInv
<1>2. CASE \E w \in Workers : WorkerDone(w)
  BY <1>2, WorkerDoneInv
<1>3. CASE WorkCompleted
  <2>1. "completed" \in Primary \ {"none"}
    BY DEF Primary
  <2> QED
    BY <1>3, <2>1, RecordPrimaryInv DEF WorkCompleted
<1>4. CASE \E r \in Reasons : WorkFailed(r)
  <2>1. \A r \in Reasons : r \in Primary \ {"none"}
    BY CancelAssumption DEF Primary
  <2> QED
    BY <1>4, <2>1, RecordPrimaryInv DEF WorkFailed
<1>5. CASE DriveDrained
  BY <1>5, DriveDrainedInv
<1>6. CASE Tick
  BY <1>6, TickInv
<1>7. CASE Rest \/ UNCHANGED cancelVars
  BY <1>7 DEF Rest, cancelVars, CancelInv, CancelTypeOK, PhaseFields, AskedBeforeWindow,
              AskedStaysUntilDrain, AskedAfterRunning, FailureIsPrimary, OutcomeIsHonest,
              FailureNotMasked, WindowIsFull
<1> QED
  BY <1>1, <1>2, <1>3, <1>4, <1>5, <1>6, <1>7 DEF CancelNext

(* CancelInv holds of every behaviour of the lifecycle.                     *)
THEOREM CancelInvariance == CancelSpec => []CancelInv
  BY CancelInitInv, CancelNextInv, PTL DEF CancelSpec

(* The lifecycle keeps its types, and has an outcome exactly when final.    *)
THEOREM CancelTypeCorrect == CancelSpec => []CancelTypeOK
<1>1. CancelInv => CancelTypeOK
  BY DEF CancelInv
<1> QED
  BY <1>1, CancelInvariance, PTL

(* A worker that has not ended is never reported as ended, a failure that   *)
(* was reported is never denied, and no worker is declared stranded before  *)
(* the whole window after the request has passed.                           *)
THEOREM HonestOutcomes == CancelSpec => [](OutcomeIsHonest /\ FailureNotMasked /\ WindowIsFull)
<1>1. CancelInv => OutcomeIsHonest /\ FailureNotMasked /\ WindowIsFull
  BY DEF CancelInv
<1> QED
  BY <1>1, CancelInvariance, PTL

(* No late report, by a worker or by the primary work, changes an outcome.  *)
THEOREM Finality == CancelSpec => FinalIsForever
<1>1. [CancelNext]_cancelVars =>
        [phase = "final" => phase' = "final" /\ outcome' = outcome /\ primary' = primary]_cancelVars
  BY DEF CancelNext, cancelVars, Request, BeginDrain, WorkerDone, WorkCompleted, WorkFailed,
         RecordPrimary, DriveDrained, DriveTimesOut, Tick, Rest, observations
<1> QED
  BY <1>1, PTL DEF CancelSpec, FinalIsForever
=============================================================================
