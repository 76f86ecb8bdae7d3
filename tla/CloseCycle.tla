----------------------------- MODULE CloseCycle -----------------------------
(***************************************************************************)
(* One period close of one tenant in CloseIQ.                              *)
(*   packages/closeiq/src/engine.ts, kernel/tasks.ts,                      *)
(*   kernel/authorization.ts, kernel/reconciliation.ts, kernel/readiness.ts*)
(*                                                                         *)
(* Every operation is synchronous: one call is one step, and what is hard  *)
(* is the order in which the people of a close make them.  Whether         *)
(* evidence suffices, an account reconciles, or a decision is granted is   *)
(* up to the caller; a call that is refused changes nothing.               *)
(***************************************************************************)
EXTENDS Integers, Sequences, FiniteSets

CONSTANTS
  Tasks, Predecessors,  \* Predecessors[t]: a sequence of tasks
  Blocking, Required,   \* tasks by criticality; the others are optional
  Reviews, Reviewer,    \* review tasks; Reviewer[t]: who must do t, or Nobody
  People, Humans, Nobody,
  Accounts, Balances, NoBalance,  \* a balance is known by its fingerprint
  Outcomes,                \* the states computeReconciliation may find
  Adjustments,
  Decisions             \* the permitted governance decisions, by their id

ToSetOf(s) == {s[n] : n \in DOMAIN s}

\* The states computeReconciliation may find.
Computed == {"balanced", "explained-difference", "rounding-indeterminate",
             "unexplained-difference", "unsubstantiated-unknown"}

ASSUME CloseAssumption ==
  /\ IsFiniteSet(Tasks)
  /\ Predecessors \in [Tasks -> Seq(Tasks)]
  /\ Blocking \subseteq Tasks /\ Required \subseteq Tasks \ Blocking
  /\ Reviews \subseteq Tasks /\ Reviewer \in [Tasks -> People \cup {Nobody}]
  /\ Humans \subseteq People /\ Nobody \notin People
  /\ NoBalance \notin Balances
  /\ Outcomes \subseteq Computed

VARIABLES
  task,        \* task[t]: its status, and who started and who completed it
  account,     \* account[a]: its reconciliation
  candidate,   \* candidate[a]: the balance a certification was proposed for
  adjustment,  \* adjustment[i]: its state, and who prepared it
  period,      \* processState and readinessFingerprint of the close
  uses         \* consumedGovernanceRefs, each with the item that consumed it

closeVars == <<task, account, candidate, adjustment, period, uses>>

Settled == {"completed", "waived"}
TaskStatus == {"pending", "blocked", "in-progress"} \cup Settled

AdjustmentState ==
  {"absent", "drafted", "evidence-attached", "reviewed", "awaiting-human-authorization",
   "authorized", "submitted-as-proposal", "posted-confirmed", "refused-by-ledger", "withdrawn"}

ProcessState == {"in-progress", "signed-off", "ledger-close-requested",
                 "ledger-closed", "ledger-close-refused"}

\* Those that only a sign-off leads to.
Signed == {"signed-off", "ledger-close-requested"}

NotAssessed == [assessed |-> FALSE]

\* A task of a template as a close begins.
Instantiated(t) ==
  [status |-> IF Predecessors[t] = <<>> THEN "pending" ELSE "blocked",
   startedBy |-> Nobody, completedBy |-> Nobody]

\* instantiateClose
CloseInit ==
  /\ task = [t \in Tasks |-> Instantiated(t)]
  /\ account = [a \in Accounts |->
       [state |-> "absent", balance |-> NoBalance, certified |-> NoBalance]]
  /\ candidate = [a \in Accounts |-> NoBalance]
  /\ adjustment = [i \in Adjustments |-> [state |-> "absent", preparedBy |-> Nobody]]
  /\ period = [process |-> "in-progress", readiness |-> NotAssessed]
  /\ uses = {}

-----------------------------------------------------------------------------
(* Authorization: a human, a decision nobody has used, and not one's own work *)

Fresh(ref) == ref \in Decisions /\ \A u \in uses : u[1] # ref

Authorizes(by, ref, item, preparedBy) ==
  /\ by \in Humans
  /\ Fresh(ref)
  /\ by # preparedBy
  /\ uses' = uses \cup {<<ref, item>>}

-----------------------------------------------------------------------------
(* Tasks                                                                   *)

\* predecessorsSatisfied: on completed or waived.
PredecessorsSettled(t) == \A p \in ToSetOf(Predecessors[t]) : task[p].status \in Settled

OnlyTasks == UNCHANGED <<account, candidate, adjustment, period>>

StartTask(t, by) ==
  /\ task[t].status \in {"pending", "blocked"}
  /\ PredecessorsSettled(t)
  /\ task' = [task EXCEPT ![t] = [@ EXCEPT !.status = "in-progress", !.startedBy = by]]
  /\ OnlyTasks /\ UNCHANGED uses

\* Whose work a review looks at: the first completed predecessor's, or else its own.
Preparer(t) ==
  LET done == {n \in DOMAIN Predecessors[t] : task[Predecessors[t][n]].status = "completed"} IN
  IF done = {} THEN task[t].startedBy
  ELSE task[Predecessors[t][CHOOSE n \in done : \A m \in done : n <= m]].completedBy

\* A task need not have been started; its evidence satisfies its requirement.
CompleteTask(t, by) ==
  /\ task[t].status \notin Settled
  /\ PredecessorsSettled(t)
  /\ t \in Reviews => Preparer(t) # by /\ Reviewer[t] \in {Nobody, by}
  /\ task' = [task EXCEPT ![t] = [@ EXCEPT !.status = "completed", !.completedBy = by]]
  /\ OnlyTasks /\ UNCHANGED uses

\* Any task not settled may be waived, whatever comes before it.
WaiveTask(t, by, ref) ==
  /\ task[t].status \notin Settled
  /\ Authorizes(by, ref, t, Nobody)
  /\ task' = [task EXCEPT ![t] = [status |-> "waived", startedBy |-> Nobody,
                                  completedBy |-> Nobody]]
  /\ OnlyTasks

-----------------------------------------------------------------------------
(* Reconciliations and their certification                                 *)

\* The state of a prior certification is decided by the balance computed
\* last, not by the balance it certifies.
Recomputed(prior, balance, state) ==
  IF prior.certified = NoBalance THEN state
  ELSE IF prior.balance # balance THEN "certification-void" ELSE "certified"

ComputeReconciliation(a) ==
  /\ \E balance \in Balances, state \in Outcomes :
       account' = [account EXCEPT ![a] = [@ EXCEPT !.balance = balance,
                                          !.state = Recomputed(account[a], balance, state)]]
  /\ UNCHANGED <<task, candidate, adjustment, period, uses>>

ProposeCertification(a) ==
  /\ account[a].state # "absent"
  /\ candidate' = [candidate EXCEPT ![a] = account[a].balance]
  /\ UNCHANGED <<task, account, adjustment, period, uses>>

\* A candidate of another balance is stale.  The grant is not consumed.
Certify(a) ==
  /\ candidate[a] # NoBalance /\ candidate[a] = account[a].balance
  /\ account' = [account EXCEPT ![a] = [@ EXCEPT !.certified = candidate[a],
                                                 !.state = "certified"]]
  /\ UNCHANGED <<task, candidate, adjustment, period, uses>>

-----------------------------------------------------------------------------
(* Adjustments                                                             *)

\* ADJUSTMENT_TRANSITIONS
Transitions(from) ==
  CASE from = "absent" -> {"drafted"}
    [] from = "drafted" -> {"evidence-attached", "withdrawn"}
    [] from = "evidence-attached" -> {"reviewed", "withdrawn"}
    [] from = "reviewed" -> {"awaiting-human-authorization", "withdrawn"}
    [] from = "awaiting-human-authorization" -> {"authorized", "withdrawn"}
    [] from = "authorized" -> {"submitted-as-proposal"}
    [] from = "submitted-as-proposal" -> {"posted-confirmed", "refused-by-ledger"}
    [] from = "refused-by-ledger" -> {"drafted"}
    [] OTHER -> {}

\* Whoever drafts an adjustment first prepared it, also when it is drafted again.
TransitionAdjustment(i, to, by) ==
  /\ to \in Transitions(adjustment[i].state) \ {"authorized"}
  /\ adjustment' = [adjustment EXCEPT ![i] =
       [state |-> to, preparedBy |-> IF @.state = "absent" THEN by ELSE @.preparedBy]]
  /\ UNCHANGED <<task, account, candidate, period, uses>>

AuthorizeAdjustment(i, by, ref) ==
  /\ "authorized" \in Transitions(adjustment[i].state)
  /\ Authorizes(by, ref, i, adjustment[i].preparedBy)
  /\ adjustment' = [adjustment EXCEPT ![i].state = "authorized"]
  /\ UNCHANGED <<task, account, candidate, period>>

-----------------------------------------------------------------------------
(* Readiness, sign-off and the ledger                                      *)

\* Mutant: a waived blocking task counts as done.
BlockingDoneOrWaived == \A t \in Blocking : task[t].status \in Settled

BlockingDone == \A t \in Blocking : task[t].status = "completed"

\* What the readiness fingerprint tells apart.
Readiness ==
  [assessed |-> TRUE,
   blocking |-> BlockingDone,
   required |-> \A t \in Required : task[t].status \in Settled,
   known |-> \A a \in Accounts : account[a].state # "unsubstantiated-unknown",
   posted |-> \A i \in Adjustments :
                adjustment[i].state \notin {"authorized", "submitted-as-proposal"},
   waivers |-> Cardinality({t \in Tasks : task[t].status = "waived"}),
   completed |-> Cardinality({t \in Tasks : task[t].status = "completed"})]

AssessReadiness ==
  /\ period' = [period EXCEPT !.readiness = Readiness]
  /\ UNCHANGED <<task, account, candidate, adjustment, uses>>

\* The signer names the fingerprint that was stored last; it is not computed again.
RecordSignOff(by, ref) ==
  /\ BlockingDone
  /\ period.readiness # NotAssessed
  /\ Authorizes(by, ref, "close", Nobody)
  /\ period' = [period EXCEPT !.process = "signed-off"]
  /\ UNCHANGED <<task, account, candidate, adjustment>>

RequestPeriodClose ==
  /\ period.process = "signed-off"
  /\ period' = [period EXCEPT !.process = "ledger-close-requested"]
  /\ UNCHANGED <<task, account, candidate, adjustment, uses>>

\* LedgerIQ's answer, as the host hears it; nobody asks whether it was asked for.
RecordPeriodCloseOutcome ==
  /\ \E outcome \in {"ledger-closed", "ledger-close-refused"} :
       period' = [period EXCEPT !.process = outcome]
  /\ UNCHANGED <<task, account, candidate, adjustment, uses>>

-----------------------------------------------------------------------------

TaskNext ==
  \E t \in Tasks, by \in People :
    StartTask(t, by) \/ CompleteTask(t, by) \/ \E ref \in Decisions : WaiveTask(t, by, ref)

AccountNext ==
  \E a \in Accounts : ComputeReconciliation(a) \/ ProposeCertification(a) \/ Certify(a)

AdjustmentNext ==
  \E i \in Adjustments, by \in People :
    \/ \E to \in AdjustmentState : TransitionAdjustment(i, to, by)
    \/ \E ref \in Decisions : AuthorizeAdjustment(i, by, ref)

PeriodNext ==
  \/ AssessReadiness \/ RequestPeriodClose \/ RecordPeriodCloseOutcome
  \/ \E by \in People, ref \in Decisions : RecordSignOff(by, ref)

CloseNext == TaskNext \/ AccountNext \/ AdjustmentNext \/ PeriodNext

CloseSpec == CloseInit /\ [][CloseNext]_closeVars

-----------------------------------------------------------------------------
(* Properties                                                              *)

CloseTypeOK ==
  /\ task \in [Tasks -> [status : TaskStatus, startedBy : People \cup {Nobody},
                         completedBy : People \cup {Nobody}]]
  /\ account \in [Accounts -> [state : Computed \cup {"absent", "certified", "certification-void"},
                               balance : Balances \cup {NoBalance},
                               certified : Balances \cup {NoBalance}]]
  /\ candidate \in [Accounts -> Balances \cup {NoBalance}]
  /\ adjustment \in [Adjustments -> [state : AdjustmentState, preparedBy : People \cup {Nobody}]]
  /\ period.process \in ProcessState
  /\ uses \subseteq Decisions \X (Tasks \cup Adjustments \cup {"close"})

\* A decision authorizes one item, over waivers, adjustments and sign-offs
\* together, and whatever needed one has one of its own: each waived task,
\* each adjustment on its way to the ledger, and a close that was signed off.
OneDecisionOneItem ==
  LET Has(item) == \E u \in uses : u[2] = item IN
  /\ \A u, v \in uses : u[1] = v[1] => u = v
  /\ \A t \in Tasks : task[t].status = "waived" => Has(t)
  /\ \A i \in Adjustments :
       adjustment[i].state \in {"authorized", "submitted-as-proposal",
                                "posted-confirmed", "refused-by-ledger"} => Has(i)
  /\ period.process \in Signed => Has("close")

\* Nothing is asked of the ledger before all blocking tasks are completed,
\* none of them waived, and what they stand on is settled.
SignedOffIsDone ==
  period.process \in Signed =>
    \A t \in Blocking : task[t].status = "completed" /\ PredecessorsSettled(t)

\* "A changed balance voids a prior certification": a certified account has
\* the balance that was certified.
CertifiedBalance ==
  \A a \in Accounts :
    account[a].state = "certified" => account[a].certified = account[a].balance
=============================================================================
