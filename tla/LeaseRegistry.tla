---------------------------- MODULE LeaseRegistry ----------------------------
(***************************************************************************)
(* LeaseRegistry of crates/fss-runtime/src/lease.rs: one fence source,      *)
(* leases by identity, and for every resource the current fence with a COPY *)
(* of the lease that carries it. Time is what the caller says it is, and    *)
(* two callers need not agree: every operation picks its own `now'.         *)
(*                                                                          *)
(* A lease identity is `lease:<resource>:<fence>' and fences are unique, so *)
(* the fence is the identity. Holders only name the region in messages.     *)
(***************************************************************************)
EXTENDS Integers

CONSTANTS
  Resources,
  MaxFence,     (* u64::MAX                                                 *)
  MaxTime       (* the latest representable TimestampNs                     *)

ASSUME LeaseAssumption == MaxFence \in Nat \ {0} /\ MaxTime \in Nat

VARIABLES
  nextFence,    (* next_fence                                               *)
  leases,       (* the identity index                                       *)
  current,      (* resources[r].current_fence, 0 before the first lease     *)
  copy,         (* resources[r].lease, with its identity                    *)
  (* Observations, used by the properties only.                             *)
  gate,         (* the token check_fence accepted in the last step, or 0    *)
  ended         (* tokens whose end some call has reported                  *)

regVars == <<nextFence, leases, current, copy>>
vars    == <<regVars, gate, ended>>

Fences == 1 .. MaxFence
Times  == 0 .. MaxTime
Never  == MaxTime + 1          (* expires_at = None                         *)
States == {"absent", "active", "released", "revoked", "expired"}

Lease  == [resource : Resources, expires : Times \cup {Never}, state : States]
Copy   == [id : Fences \cup {0}, expires : Times \cup {Never}, state : States]
NoCopy == [id |-> 0, expires |-> Never, state |-> "absent"]

TypeOK ==
  /\ nextFence \in Fences
  /\ leases \in [Fences -> Lease]
  /\ current \in [Resources -> Fences \cup {0}]
  /\ copy \in [Resources -> Copy]
  /\ gate \in Fences \cup {0}
  /\ ended \subseteq Fences

Init ==
  /\ nextFence = 1
  /\ leases \in [Fences -> [resource : Resources, expires : {Never}, state : {"absent"}]]
  /\ \A f, g \in Fences : leases[f] = leases[g]
  /\ current = [r \in Resources |-> 0]
  /\ copy = [r \in Resources |-> NoCopy]
  /\ gate = 0 /\ ended = {}

-----------------------------------------------------------------------------
(* evaluate_expiry: the state of a lease once `now' has been looked at.     *)
Evaluated(l, now) ==
  IF l.state = "active" /\ l.expires # Never /\ now >= l.expires
  THEN "expired" ELSE l.state

Later(a, b) == IF a < b THEN b ELSE a

(* Seeded fault: the old holder is expired in the copy only.                *)
ExpireCopyOnly(r, now) == leases

(* The identity index after the current holder of r was lazily expired by   *)
(* acquire or check_fence: the state of the copy is written back.           *)
ExpireCurrent(r, now) ==
  IF copy[r].id = 0 THEN leases
  ELSE [leases EXCEPT ![copy[r].id].state = Evaluated(copy[r], now)]

EndedBy(r, now) ==
  IF Evaluated(copy[r], now) = "expired" THEN {copy[r].id} ELSE {}

(* acquire that is granted: `expires' is Never or now + ttl.                *)
Acquire(r, expires, now) ==
  /\ Evaluated(copy[r], now) # "active"
  /\ nextFence < MaxFence
  /\ LET fresh == [resource |-> r, expires |-> expires, state |-> "active"] IN
     /\ leases' = [ExpireCurrent(r, now) EXCEPT ![nextFence] = fresh]
     /\ copy' = [copy EXCEPT ![r] =
                   [id |-> nextFence, expires |-> expires, state |-> "active"]]
  /\ current' = [current EXCEPT ![r] = nextFence]
  /\ nextFence' = nextFence + 1
  /\ ended' = ended \cup ({copy[r].id} \ {0})
  /\ gate' = 0

(* acquire refused with FenceSourceExhausted, after the lazy expiry. (Held  *)
(* and ExpiryOverflow change nothing.)                                      *)
AcquireExhausted(r, now) ==
  /\ Evaluated(copy[r], now) # "active"
  /\ nextFence = MaxFence
  /\ leases' = ExpireCurrent(r, now)
  /\ copy' = [copy EXCEPT ![r].state = Evaluated(copy[r], now)]
  /\ ended' = ended \cup EndedBy(r, now)
  /\ gate' = 0
  /\ UNCHANGED <<nextFence, current>>

(* Seeded fault: the renewal takes the requested expiry as it is.           *)
RenewShortens(f, requested, now) ==
  /\ leases[f].state # "absent"
  /\ Evaluated(leases[f], now) = "active"
  /\ LET r == leases[f].resource IN
     /\ leases' = [leases EXCEPT ![f].expires = requested]
     /\ copy' = IF copy[r].id = f THEN [copy EXCEPT ![r].expires = requested] ELSE copy
  /\ gate' = 0
  /\ UNCHANGED <<nextFence, current, ended>>

(* renew that is granted: `requested' is now + ttl_ns.                      *)
Renew(f, requested, now) ==
  /\ leases[f].state # "absent"
  /\ Evaluated(leases[f], now) = "active"
  /\ LET r == leases[f].resource
         until == IF leases[f].expires = Never THEN requested
                  ELSE Later(leases[f].expires, requested)
     IN
     /\ leases' = [leases EXCEPT ![f].expires = until]
     /\ copy' = IF copy[r].id = f THEN [copy EXCEPT ![r].expires = until] ELSE copy
  /\ gate' = 0
  /\ UNCHANGED <<nextFence, current, ended>>

(* renew refused with NotActive: the observed end is mirrored.              *)
RenewRefused(f, now) ==
  /\ leases[f].state # "absent"
  /\ Evaluated(leases[f], now) # "active"
  /\ LET r == leases[f].resource
         s == Evaluated(leases[f], now)
     IN
     /\ leases' = [leases EXCEPT ![f].state = s]
     /\ copy' = IF copy[r].id = f THEN [copy EXCEPT ![r].state = s] ELSE copy
  /\ ended' = ended \cup {f}
  /\ gate' = 0
  /\ UNCHANGED <<nextFence, current>>

Release(f) ==
  /\ leases[f].state = "active"
  /\ LET r == leases[f].resource IN
     /\ leases' = [leases EXCEPT ![f].state = "released"]
     /\ copy' = IF copy[r].id = f THEN [copy EXCEPT ![r].state = "released"] ELSE copy
  /\ ended' = ended \cup {f}
  /\ gate' = 0
  /\ UNCHANGED <<nextFence, current>>

(* revoke: the current fence moves past the token. The addition is not      *)
(* checked in the code; FenceWithinSource says why it cannot overflow.      *)
Revoke(f) ==
  /\ leases[f].state = "active"
  /\ LET r == leases[f].resource IN
     /\ leases' = [leases EXCEPT ![f].state = "revoked"]
     /\ copy' = IF copy[r].id = f THEN [copy EXCEPT ![r].state = "revoked"] ELSE copy
     /\ current' = [current EXCEPT ![r] = Later(current[r], f) + 1]
  /\ ended' = ended \cup {f}
  /\ gate' = 0
  /\ UNCHANGED nextFence

(* Seeded fault: check_fence refuses an expired token without recording it. *)
CheckFenceForgets(r, now) ==
  /\ copy[r].id # 0
  /\ gate' = IF Evaluated(copy[r], now) = "active" THEN current[r] ELSE 0
  /\ ended' = ended \cup EndedBy(r, now)
  /\ UNCHANGED regVars

(* check_fence, the effect path's gate, with a token that is the resource's *)
(* current fence: the expiry it observes is written to copy and index.      *)
CheckFence(r, now) ==
  /\ copy[r].id # 0
  /\ LET s == Evaluated(copy[r], now) IN
     /\ copy' = [copy EXCEPT ![r].state = s]
     /\ leases' = ExpireCurrent(r, now)
     /\ gate' = IF s = "active" THEN current[r] ELSE 0
     /\ ended' = ended \cup EndedBy(r, now)
  /\ UNCHANGED <<nextFence, current>>

(* check_fence with any other token, StaleFence: nothing changes but what   *)
(* the holder of an issued token has been told.                             *)
CheckStaleFence(f) ==
  /\ leases[f].state # "absent"
  /\ current[leases[f].resource] # f
  /\ ended' = ended \cup {f}
  /\ gate' = 0
  /\ UNCHANGED regVars

Next ==
  \/ \E r \in Resources, now \in Times :
       \/ \E expires \in now .. Never : Acquire(r, expires, now)
       \/ AcquireExhausted(r, now)
       \/ CheckFence(r, now)
  \/ \E f \in Fences, now \in Times :
       \/ \E requested \in now .. MaxTime : Renew(f, requested, now)
       \/ RenewRefused(f, now)
  \/ \E f \in Fences : Release(f) \/ Revoke(f) \/ CheckStaleFence(f)

Spec == Init /\ [][Next]_vars

-----------------------------------------------------------------------------
(* Properties.                                                              *)

(* The effect gate reads the copy, renewal and readers the identity index:  *)
(* however acquire, renew, release, revoke and check_fence interleave, the  *)
(* two agree on the state and the expiry of every resource's last lease.    *)
CopiesAgree ==
  \A r \in Resources :
    LET c == copy[r] IN
    c.id # 0 => /\ leases[c.id].resource = r
                /\ leases[c.id].expires = c.expires
                /\ leases[c.id].state = c.state

(* At most one lease of a resource is active, it is the one the resource    *)
(* points at, and it carries the resource's current fence.                  *)
ActiveIsCurrent ==
  \A f \in Fences :
    leases[f].state = "active" =>
      copy[leases[f].resource].id = f /\ current[leases[f].resource] = f

(* A zombie holder never acts: a token that check_fence accepts is not one  *)
(* whose end was reported to anybody before, by release, revoke, a refused  *)
(* renewal, a refused check or a takeover, even when the caller's time goes *)
(* backwards in between.                                                    *)
ZombieNeverActs == gate \notin ended

(* No current fence runs ahead of the fence source, so that the next lease  *)
(* of the resource never moves it backwards, and revoke's unchecked         *)
(* addition stays within u64.                                               *)
FenceWithinSource == \A r \in Resources : current[r] <= nextFence

(* What a step may do to the lease with token f.                            *)
LeaseMovesForward(f) ==
  /\ leases[f].state \notin {"absent", "active"} => leases'[f] = leases[f]
  /\ leases[f].state = "active" /\ leases[f].expires # Never =>
       leases'[f].expires >= leases[f].expires /\ leases'[f].expires # Never

(* Observed ends are irreversible, renewal never shortens a finite expiry,  *)
(* and a resource's current fence never goes back.                          *)
EndsAndFencesAreMonotone ==
  [][ /\ \A f \in Fences : LeaseMovesForward(f)
      /\ \A r \in Resources : current'[r] >= current[r] ]_vars

-----------------------------------------------------------------------------
(* The parts that make the invariants above inductive.                      *)

IssuedBelowSource ==
  /\ \A f \in Fences : leases[f].state = "absent" <=> f >= nextFence
  /\ \A r \in Resources :
       copy[r].id < nextFence /\ (copy[r].id = 0 => copy[r].state = "absent")

EndedIsInactive == \A f \in ended : leases[f].state \notin {"absent", "active"}

GateIsActive == gate # 0 => leases[gate].state = "active"

(* The inductive invariant: the registry is consistent with itself and with *)
(* everything it has told its callers.                                      *)
IndInv ==
  /\ TypeOK
  /\ CopiesAgree
  /\ ActiveIsCurrent
  /\ FenceWithinSource
  /\ IssuedBelowSource
  /\ EndedIsInactive
  /\ GateIsActive
=============================================================================
