--------------------------- MODULE OwnedExecution ---------------------------
(***************************************************************************)
(* AuthorityCx (crates/fss-runtime/src/authority.rs) with its BudgetLedger  *)
(* (budget.rs), and TaskCx (execution.rs), over the region tree.            *)
(*                                                                          *)
(* A scope is a region with an allowance that its parent scope reserved and *)
(* paid for in advance; a closed scope gives back what it did not use, once.*)
(* A task runs inside one scope. It borrows the tree and its authority      *)
(* exclusively, so nothing else happens to either until it returns, unwinds *)
(* or its future is dropped; only a return publishes a receipt.             *)
(*                                                                          *)
(* Times are what callers observed and pass in. Capability grants, which    *)
(* are compared and never spent, are left out.                              *)
(***************************************************************************)
EXTENDS RegionTree

CONSTANTS
  Dims,         (* METERED budget dimensions                                *)
  Allowances,   (* vectors a child scope may be given                       *)
  RootAllowance,
  Costs,        (* vectors a checkpoint may cost                            *)
  Deadlines,    (* deadlines of authorities; NoDeadline is None             *)
  MaxTime,      (* bound on observed times                                  *)
  ScopeTimes    (* bound: the times scope_down is called with               *)

NoDeadline == MaxTime + 1
Times      == 0 .. MaxTime
Vector     == [Dims -> Nat]
Zero       == [d \in Dims |-> 0]

ASSUME ExecutionAssumption ==
  /\ MaxTime \in Nat /\ ScopeTimes \subseteq Times
  /\ RootAllowance \in Vector /\ Allowances \subseteq Vector /\ Costs \subseteq Vector
  /\ Deadlines \subseteq 0 .. NoDeadline

VARIABLES
  handle,       (* the AuthorityCx of a region: "none", "held" or "dropped" *)
  limit,        (* BudgetLedger.limit                                       *)
  consumed,     (* BudgetLedger.consumed                                    *)
  outstanding,  (* outstanding_reservations                                 *)
  released,     (* reservation_released                                     *)
  deadline,     (* the deadline of the region's authority                   *)
  created,      (* created_at of a region                                   *)
  stamp,        (* registered_at of an active task, completed_at of another *)
  running,      (* the TaskCx in existence, or None                         *)
  receipt,      (* the outcome in a task's receipt                          *)
  (* Observations, used by the properties only.                             *)
  spent,        (* what checkpoints of a region really admitted             *)
  cancelled,    (* tasks that requested cancellation of their scope         *)
  seen,         (* the latest time a task observed                          *)
  late          (* tasks that were admitted anything after a deadline refusal*)

scopeVars == <<handle, limit, consumed, outstanding, released, deadline>>
taskVars  == <<created, stamp, running, receipt>>
observed  == <<spent, cancelled, seen, late>>
vars == <<treeVars, scopeVars, taskVars, observed>>

Outcomes == {"success", "cancelled", "failed", "indeterminate", "recovered"}
Scopes   == {r \in Live : handle[r] # "none"}
Held(r)  == handle[r] = "held"
Plus(a, b)  == [d \in Dims |-> a[d] + b[d]]
Minus(a, b) == [d \in Dims |-> a[d] - b[d]]
Fits(a, b)  == \A d \in Dims : a[d] <= b[d]
SumOf(F, S) == [d \in Dims |-> SumFunction([x \in S |-> F[x][d]])]

ExecTypeOK ==
  /\ handle \in [Regions -> {"none", "held", "dropped"}]
  /\ limit \in [Regions -> Vector] /\ consumed \in [Regions -> Vector]
  /\ \A r \in Scopes : Fits(consumed[r], limit[r])
  /\ outstanding \in [Regions -> Nat]
  /\ released \in [Regions -> BOOLEAN]
  /\ deadline \in [Regions -> 0 .. NoDeadline]
  /\ created \in [Regions -> Times]
  /\ stamp \in [Regions -> [Tasks -> Times]]
  /\ running \in {None} \cup [region : Regions, task : Tasks, last : Times,
                              draining : BOOLEAN, asked : BOOLEAN, late : BOOLEAN]
  /\ receipt \in [Regions -> [Tasks -> Outcomes \cup {"none"}]]
  /\ \A r \in Regions, t \in Tasks : receipt[r][t] # "none" <=> task[r][t] = "completed"

(* AuthorityCx::root                                                        *)
ExecInit ==
  /\ Init
  /\ handle = [r \in Regions |-> IF r = Process THEN "held" ELSE "none"]
  /\ limit = [r \in Regions |-> IF r = Process THEN RootAllowance ELSE Zero]
  /\ consumed = [r \in Regions |-> Zero]
  /\ outstanding = [r \in Regions |-> 0]
  /\ released = [r \in Regions |-> FALSE]
  /\ deadline \in {f \in [Regions -> 0 .. NoDeadline] :
                     f[Process] \in Deadlines /\ \A r \in Regions \ {Process} : f[r] = NoDeadline}
  /\ created = [r \in Regions |-> 0]
  /\ stamp = [r \in Regions |-> [t \in Tasks |-> 0]]
  /\ running = None
  /\ receipt = [r \in Regions |-> [t \in Tasks |-> "none"]]
  /\ spent = [r \in Regions |-> Zero]
  /\ cancelled = {} /\ late = {}
  /\ seen = [x \in Regions \X Tasks |-> 0]

-----------------------------------------------------------------------------
(* AuthorityCx. None of these calls is possible while a task borrows the    *)
(* tree.                                                                    *)

(* scope_down: the child's whole allowance is charged to the parent.        *)
ScopeDown(p, c, k, a, dl, now) ==
  /\ running = None
  /\ Held(p) /\ ~released[p]
  /\ dl <= deadline[p]
  /\ Fits(a, Minus(limit[p], consumed[p]))
  /\ AttachChild(p, c, k)
  /\ handle' = [handle EXCEPT ![c] = "held"]
  /\ limit' = [limit EXCEPT ![c] = a]
  /\ consumed' = [consumed EXCEPT ![p] = Plus(@, a)]
  /\ outstanding' = [outstanding EXCEPT ![p] = @ + 1]
  /\ deadline' = [deadline EXCEPT ![c] = dl]
  /\ created' = [created EXCEPT ![c] = now]
  /\ UNCHANGED <<released, stamp, running, receipt, observed>>

(* Seeded fault: a scope settles while it still has reservations below it.  *)
ReleaseEarly(p, c) ==
  /\ running = None
  /\ Held(p) /\ Held(c) /\ parent[c] = p
  /\ ~released[p] /\ ~released[c]
  /\ state[c] = "closed"
  /\ consumed' = [consumed EXCEPT ![p] = Minus(@, Minus(limit[c], consumed[c]))]
  /\ outstanding' = [outstanding EXCEPT ![p] = @ - 1]
  /\ released' = [released EXCEPT ![c] = TRUE]
  /\ UNCHANGED <<treeVars, handle, limit, deadline, taskVars, observed>>

(* release_scope_reservation: a closed child that has settled everything    *)
(* below it returns what it did not use.                                    *)
Release(p, c) ==
  /\ running = None
  /\ Held(p) /\ Held(c) /\ parent[c] = p
  /\ ~released[p] /\ ~released[c]
  /\ state[c] = "closed"
  /\ outstanding[c] = 0 /\ outstanding[p] > 0
  /\ Fits(Minus(limit[c], consumed[c]), consumed[p])
  /\ consumed' = [consumed EXCEPT ![p] = Minus(@, Minus(limit[c], consumed[c]))]
  /\ outstanding' = [outstanding EXCEPT ![p] = @ - 1]
  /\ released' = [released EXCEPT ![c] = TRUE]
  /\ UNCHANGED <<treeVars, handle, limit, deadline, taskVars, observed>>

(* The owner of a scope loses its handle. Its reservation stays charged.    *)
DropHandle(r) ==
  /\ running = None
  /\ r # Process /\ Held(r)
  /\ handle' = [handle EXCEPT ![r] = "dropped"]
  /\ UNCHANGED <<treeVars, limit, consumed, outstanding, released, deadline, taskVars, observed>>

(* request_cancellation, begin_drain and finalize through the authority or  *)
(* the tree.                                                                *)
Close(r) ==
  /\ running = None
  /\ RequestDrain(r) \/ BeginDrain(r) \/ BeginFinalize(r) \/ Finalize(r)
  /\ UNCHANGED <<scopeVars, taskVars, observed>>

(* AuthorityCx::budget_mut and the spend it returns: work accounted for     *)
(* outside a task, possible until the scope is closed.                      *)
SpendOutside(r, cost) ==
  /\ running = None
  /\ Held(r) /\ ~released[r] /\ state[r] # "closed"
  /\ Fits(cost, Minus(limit[r], consumed[r]))
  /\ consumed' = [consumed EXCEPT ![r] = Plus(@, cost)]
  /\ spent' = [spent EXCEPT ![r] = Plus(@, cost)]
  /\ UNCHANGED <<treeVars, handle, limit, outstanding, released, deadline, taskVars>>
  /\ UNCHANGED <<cancelled, seen, late>>

(* An obligation of the code, in whatever state its record is.              *)
Registers(r, o) ==
  \E s \in ObligationStates, p \in Proofs \cup {None} : RegisterObligation(r, o, s, p)

(* AuthorityCx::register_obligation                                         *)
RegisterOutside(r, o) ==
  /\ running = None
  /\ Held(r) /\ ~released[r]
  /\ Registers(r, o)
  /\ UNCHANGED <<scopeVars, taskVars, observed>>

(* resolve_obligation outside a task.                                       *)
SettleOutside(r, o) ==
  /\ running = None
  /\ Unsettled(r, o) /\ Settle(r, o)
  /\ UNCHANGED <<scopeVars, taskVars, observed>>

-----------------------------------------------------------------------------
(* TaskCx.                                                                  *)

(* The latest time begin_owned finds in a region.                           *)
Previous(r) == Max({created[r]} \cup {stamp[r][t] : t \in Tasks})

(* begin_owned                                                              *)
BeginOwned(r, t, now) ==
  /\ running = None
  /\ Held(r) /\ ~released[r]
  /\ Previous(r) <= now /\ now < deadline[r]
  /\ RegisterTask(r, t)
  /\ running' = [region |-> r, task |-> t, last |-> now,
                 draining |-> FALSE, asked |-> FALSE, late |-> FALSE]
  /\ stamp' = [stamp EXCEPT ![r][t] = now]
  /\ seen' = [seen EXCEPT ![<<r, t>>] = now]
  /\ UNCHANGED <<scopeVars, created, receipt, spent, cancelled, late>>

Me == <<running.region, running.task>>
Past(now) == now >= deadline[running.region]

(* Seeded fault: a refused admission leaves the observed time alone.        *)
ObserveUnrefused(now, upd) ==
  /\ running # None /\ now >= running.last
  /\ running' = IF Past(now) THEN running ELSE [upd EXCEPT !.last = now]
  /\ seen' = [seen EXCEPT ![Me] = IF now > @ THEN now ELSE @]

(* observe_time and check_deadline: an observed time is kept even when the  *)
(* admission is refused.                                                    *)
Observe(now, upd) ==
  /\ running # None /\ now >= running.last
  /\ running' = [upd EXCEPT !.last = now]
  /\ seen' = [seen EXCEPT ![Me] = IF now > @ THEN now ELSE @]

(* checkpoint, checkpoint_for and their cleanup forms, admitted.            *)
Admit(now, cost, cleanup) ==
  /\ Observe(now, running)
  /\ ~Past(now)
  /\ LET r == running.region IN
     /\ IF cleanup THEN running.draining /\ state[r] = "draining"
        ELSE state[r] = "active" /\ ~released[r]
     /\ Fits(cost, Minus(limit[r], consumed[r]))
     /\ consumed' = [consumed EXCEPT ![r] = Plus(@, cost)]
     /\ spent' = [spent EXCEPT ![r] = Plus(@, cost)]
     /\ late' = IF seen[Me] >= deadline[r] THEN late \cup {Me} ELSE late
  /\ UNCHANGED <<treeVars, handle, limit, outstanding, released, deadline, created, stamp, receipt, cancelled>>

(* The same call refused: by the deadline, which is remembered, or by the   *)
(* state of the scope or its budget.                                        *)
AdmitRefused(now) ==
  /\ running # None
  /\ Observe(now, [running EXCEPT !.late = @ \/ Past(now)])
  /\ UNCHANGED <<treeVars, scopeVars, created, stamp, receipt, spent, cancelled, late>>

(* TaskCx::request_cancellation, possible after the deadline.               *)
TaskCancel(now) ==
  /\ running # None
  /\ Observe(now, [running EXCEPT !.asked = TRUE])
  /\ RequestDrain(running.region)
  /\ cancelled' = cancelled \cup {Me}
  /\ UNCHANGED <<scopeVars, created, stamp, receipt, spent, late>>

(* TaskCx::begin_drain of a task that has not begun it: request and begin   *)
(* in one call.                                                             *)
TaskBeginDrain(now) ==
  /\ running # None /\ ~running.draining
  /\ Observe(now, [running EXCEPT !.draining = TRUE])
  /\ LET r == running.region IN
     /\ state[r] \in {"active", "drain_requested"}
     /\ state' = [x \in Regions |->
                    CASE x = r -> "draining"
                      [] x \in DrainSet(r) /\ state[x] = "active" -> "drain_requested"
                      [] OTHER -> state[x]]
  /\ UNCHANGED <<kind, parent, task, obligation, note, quiescence>>
  /\ UNCHANGED <<scopeVars, created, stamp, receipt, spent, cancelled, late>>

(* TaskCx::register_obligation of an obligation of this operation.          *)
TaskRegisters(o, now) ==
  /\ running # None /\ ~Past(now) /\ ~released[running.region]
  /\ Observe(now, running)
  /\ Registers(running.region, o)
  /\ UNCHANGED <<scopeVars, created, stamp, receipt, spent, cancelled, late>>

(* TaskCx::resolve_obligation                                               *)
TaskResolves(o, now) ==
  /\ running # None
  /\ Observe(now, running)
  /\ Settle(running.region, o)
  /\ UNCHANGED <<scopeVars, created, stamp, receipt, spent, cancelled, late>>

(* complete_after_return: the outcomes it accepts.                          *)
Completable(outcome, now) ==
  /\ now >= running.last
  /\ outcome = "success" => ~running.asked /\ ~running.late /\ ~Past(now)
  /\ outcome = "cancelled" => running.asked
  /\ outcome = "indeterminate" =>
       \E o \in Obligations :
         LET s == obligation[running.region][o].state IN
         s = "pending" \/ (s = "indeterminate" /\ note[running.region][o] # None)

TaskReturns(outcome, now) ==
  /\ running # None
  /\ Completable(outcome, now)
  /\ CompleteTask(running.region, running.task)
  /\ receipt' = [receipt EXCEPT ![running.region][running.task] = outcome]
  /\ stamp' = [stamp EXCEPT ![running.region][running.task] = now]
  /\ seen' = [seen EXCEPT ![Me] = IF now > @ THEN now ELSE @]
  /\ running' = None
  /\ UNCHANGED <<scopeVars, created, spent, cancelled, late>>

(* Seeded fault: a lost task is forgotten by its region.                    *)
TaskLostForgotten ==
  /\ running # None
  /\ running' = None
  /\ task' = [task EXCEPT ![running.region][running.task] = "absent"]
  /\ UNCHANGED <<kind, parent, state, obligation, note, quiescence>>
  /\ UNCHANGED <<scopeVars, created, stamp, receipt, observed>>

(* The closure unwinds, its future is dropped, or its receipt is refused:   *)
(* the borrow ends and the task stays active.                               *)
TaskLost ==
  /\ running # None
  /\ running' = None
  /\ UNCHANGED <<treeVars, scopeVars, created, stamp, receipt, observed>>

(* Explicit recovery of a lost task: complete_task on the tree.             *)
RecoverTask(r, t) ==
  /\ running = None
  /\ CompleteTask(r, t)
  /\ receipt' = [receipt EXCEPT ![r][t] = "recovered"]
  /\ \E now \in Times : stamp' = [stamp EXCEPT ![r][t] = now]
  /\ UNCHANGED <<scopeVars, created, running, observed>>

-----------------------------------------------------------------------------
ExecRest == running = None /\ state[Process] = "closed" /\ UNCHANGED vars

ExecNext ==
  \/ \E p, c \in Regions, k \in KindsUsed, a \in Allowances, dl \in Deadlines, now \in ScopeTimes :
       ScopeDown(p, c, k, a, dl, now)
  \/ \E p, c \in Regions : Release(p, c)
  \/ \E r \in Regions : DropHandle(r) \/ Close(r)
  \/ \E r \in Regions, cost \in Costs : SpendOutside(r, cost)
  \/ /\ Registered < MaxWork
     /\ \E r \in Regions, o \in Obligations : RegisterOutside(r, o)
  \/ \E r \in Regions, o \in Obligations : SettleOutside(r, o)
  \/ /\ Registered < MaxWork
     /\ \E r \in Regions, t \in Tasks, now \in Times : BeginOwned(r, t, now)
  \/ \E now \in Times, cost \in Costs, cleanup \in BOOLEAN : Admit(now, cost, cleanup)
  \/ \E now \in Times : AdmitRefused(now) \/ TaskCancel(now) \/ TaskBeginDrain(now)
  \/ \E o \in Obligations, now \in Times :
       TaskRegisters(o, now) \/ TaskResolves(o, now)
  \/ \E outcome \in Outcomes \ {"recovered"}, now \in Times : TaskReturns(outcome, now)
  \/ TaskLost
  \/ \E r \in Regions, t \in Tasks : RecoverTask(r, t)
  \/ ExecRest

ExecSpec == ExecInit /\ [][ExecNext]_vars

-----------------------------------------------------------------------------
(* Properties.                                                              *)

(* What a scope is charged is exactly the work admitted in it, the whole    *)
(* allowance of every child scope that has not settled, and the work really *)
(* done below every child that has: no refund loses or repeats a charge.    *)
SpentBelow(r) == SumOf(spent, Subtree(r))
Charge(c) == IF released[c] THEN SpentBelow(c) ELSE limit[c]
ChargesAreExact ==
  \A r \in Scopes :
    consumed[r] = Plus(spent[r], SumOf([c \in Children(r) |-> Charge(c)], Children(r)))

(* All work ever admitted in a scope and below it fits the allowance the    *)
(* scope was given, in every dimension.                                     *)
WorkFitsAllowance == \A r \in Scopes : Fits(SpentBelow(r), limit[r])

(* The parts that make the two above inductive: an identity that is no      *)
(* scope yet carries nothing, a scope that has settled is closed, and what  *)
(* a scope has outstanding are its children that have not settled.          *)
FreshScopes ==
  /\ spent \in [Regions -> Vector]
  /\ \A r \in Regions :
       /\ handle[r] = "none" <=> r \notin Live
       /\ r \notin Live => consumed[r] = Zero /\ spent[r] = Zero /\ outstanding[r] = 0 /\ ~released[r]

SettledIsClosed == \A r \in Live : released[r] => state[r] = "closed"

OutstandingIsOpen ==
  \A r \in Live : outstanding[r] = Cardinality({c \in Children(r) : ~released[c]})

(* What the receipts rest on: the task in existence is active, its clock is *)
(* the latest time it was shown, and only it can be asked to stop.          *)
RunningIsKnown ==
  /\ seen \in [Regions \X Tasks -> Times] /\ cancelled \subseteq Regions \X Tasks
  /\ \A x \in Regions \X Tasks : task[x[1]][x[2]] = "absent" => seen[x] = 0 /\ x \notin cancelled
  /\ running # None =>
       /\ running.region \in Live /\ task[running.region][running.task] = "active"
       /\ seen[Me] = running.last
       /\ running.asked <=> Me \in cancelled

(* The invariant of scopes: types, exact charges, no overspending and the   *)
(* parts above.                                                             *)
BudgetInv ==
  /\ ExecTypeOK /\ ChargesAreExact /\ WorkFitsAllowance
  /\ FreshScopes /\ SettledIsClosed /\ OutstandingIsOpen /\ RunningIsKnown

(* A receipt published by a task is honest about what the task did: a       *)
(* success was neither cancelled nor ever observed its deadline, whatever   *)
(* times it was shown afterwards, and a cancellation was asked for. And     *)
(* "retrying with an older clock cannot restore a deadline": a task that    *)
(* observed its deadline is never again admitted anything.                  *)
HonestReceipts ==
  /\ \A r \in Regions, t \in Tasks :
       /\ receipt[r][t] = "success" => <<r, t>> \notin cancelled /\ seen[<<r, t>>] < deadline[r]
       /\ receipt[r][t] = "cancelled" => <<r, t>> \in cancelled
  /\ late = {}

(* No region closes over work that was begun and never accounted for: every *)
(* task that was begun in a closed region has its receipt, even if its      *)
(* closure unwound and its handle is gone.                                  *)
Begun == {x \in Regions \X Tasks : seen[x] > 0 \/ task[x[1]][x[2]] # "absent"}
NoTaskLost ==
  \A x \in Begun : state[x[1]] = "closed" => receipt[x[1]][x[2]] # "none"
=============================================================================
