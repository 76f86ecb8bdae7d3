---------------------------- MODULE PrimeWorkflow ----------------------------
(***************************************************************************)
(* One workflow of PRIME, the store that keeps it, and the calls that work *)
(* on it: start, resume and recoverAbandoned of several runner instances.  *)
(*   packages/prime/src/workflow/workflowRunner.ts                         *)
(*   packages/prime/src/workflow/inMemoryWorkflowStateStore.ts             *)
(*   packages/prime/src/pulse/pulse.ts, packages/prime/src/nexus/nexus.ts  *)
(*                                                                         *)
(* A `pass' is one such call.  Between two awaits it only touches its own  *)
(* copy of the record (`cur'), so each action is what it does to the store *)
(* or to the outside world at one await.  Claims expire: `lease' is        *)
(* claimedUntil - now, in the stored record and in the copies alike.       *)
(* The store outlives the instances, as the one a host binds does.         *)
(***************************************************************************)
EXTENDS Integers, FiniteSets

CONSTANTS
  Instances,     \* the instanceIds of the runners
  Passes,        \* the calls, each made again and again
  Owner,         \* Owner[p]: the instance that makes call p
  Call,          \* Call[p]: "start", "resume" or "sweep" (recoverAbandoned)
  NumSteps,      \* the definition's steps are 1 .. NumSteps
  Compensable,   \* the steps that declare compensate
  NeedAuth,      \* the steps with requiresAuthorization
  GiveAuth,      \* the steps whose output may put authorizationRef in the context
  LeaseMs,       \* leaseMs
  Nobody,        \* claimedBy: undefined
  SlowPasses,    \* may a pass outlast the lease it was given?
  MaxCrashes,    \* bound: crashes of an instance
  MaxStops,      \* bound: steps that engines or Governance refuse or delay
  VersionCap     \* bound: no claim of a record saved more often than this

Steps == 1 .. NumSteps

ASSUME WorkflowAssumption ==
  /\ Owner \in [Passes -> Instances]
  /\ Call \in [Passes -> {"start", "resume", "sweep"}]
  /\ NumSteps \in Nat
  /\ Compensable \subseteq Steps /\ NeedAuth \subseteq Steps /\ GiveAuth \subseteq Steps
  /\ LeaseMs \in Nat \ {0}
  /\ Nobody \notin Instances
  /\ SlowPasses \in BOOLEAN
  /\ MaxCrashes \in Nat /\ MaxStops \in Nat /\ VersionCap \in Nat

VARIABLES
  wf,        \* the stored record; status "absent" before create
  pc,        \* where each pass is
  cur,       \* `current', the record as each pass last saw it
  effects,   \* effects[s]: how often step s took effect, less its undoings
  crashes, stops

passVars == <<pc, cur>>
historyVars == <<effects, crashes, stops>>
vars == <<wf, passVars, historyVars>>

StepStatus == {"none", "completed", "failed", "compensated"}
Terminal == {"completed", "compensated", "failed"}
Record == [status : {"absent", "running"} \cup Terminal,
           steps : [Steps -> StepStatus],
           auth : BOOLEAN,
           version : Nat,
           claimedBy : Instances \cup {Nobody},
           lease : Nat]

Fresh == [status |-> "absent", steps |-> [s \in Steps |-> "none"], auth |-> FALSE,
          version |-> 0, claimedBy |-> Nobody, lease |-> 0]

Working == {"advance", "ran", "failing", "unwind", "undone", "stuck"}

Init ==
  /\ wf = Fresh
  /\ pc = [p \in Passes |-> "idle"]
  /\ cur = [p \in Passes |-> Fresh]
  /\ effects = [s \in Steps |-> 0]
  /\ crashes = 0
  /\ stops = 0

Exists == wf.status # "absent"
At(p, place) == pc[p] = place
Goto(p, place) == pc' = [pc EXCEPT ![p] = place]

\* A pass that returned or threw has nothing left.
End(p) == pc' = [pc EXCEPT ![p] = "idle"] /\ cur' = [cur EXCEPT ![p] = Fresh]

-----------------------------------------------------------------------------
(* The store                                                               *)

\* Mutant: a save that does not ask which version was read.
CurrentAlways(p) == Exists

\* `current.version !== expectedVersion' is a WorkflowConflictError.
Current(p) == wf.version = cur[p].version

\* persist: the stored record becomes the pass's copy as `new' changes it, its
\* claim included, one version on.
Saved(new) == [new EXCEPT !.version = @ + 1]

\* Every persist: it is stored and the pass goes on from it, or it conflicts,
\* which ends the pass whichever of the catch clauses sees it.
Persist(p, new, place) ==
  IF Current(p)
  THEN /\ wf' = Saved(new)
       /\ IF place = "idle" THEN End(p)
          ELSE Goto(p, place) /\ cur' = [cur EXCEPT ![p] = Saved(new)]
  ELSE End(p) /\ UNCHANGED wf

\* Mutant: a lease is granted over one that is still running.
AvailableAnyway(p) == TRUE

\* Mutant: a lease that lapsed still excludes the others.
AvailableNever(p) == wf.claimedBy \in {Owner[p], Nobody}

\* "Already ours, or nobody's, or abandoned by someone who crashed."
Available(p) == wf.claimedBy \in {Owner[p], Nobody} \/ wf.lease = 0

Leased(record, p) == [record EXCEPT !.claimedBy = Owner[p], !.lease = LeaseMs]

Unclaimed(record) == [record EXCEPT !.claimedBy = Nobody, !.lease = 0]

-----------------------------------------------------------------------------
(* start, resume and recoverAbandoned, up to the record they work on       *)

\* start: an existing workflow is returned, and the call is over.
StartLoad(p) ==
  /\ Call[p] = "start" /\ At(p, "idle")
  /\ ~Exists
  /\ Goto(p, "create")
  /\ UNCHANGED <<wf, cur, historyVars>>

\* Two starts may both have found nothing: the second create throws.
StartCreate(p) ==
  /\ At(p, "create")
  /\ IF Exists THEN End(p) /\ UNCHANGED wf
     ELSE /\ wf' = Leased([Fresh EXCEPT !.status = "running"], p)
          /\ cur' = [cur EXCEPT ![p] = wf']
          /\ Goto(p, "advance")
  /\ UNCHANGED historyVars

ResumeLoad(p) ==
  /\ Call[p] = "resume" /\ At(p, "idle")
  /\ Exists
  /\ Goto(p, "claim")
  /\ UNCHANGED <<wf, cur, historyVars>>

\* listResumable: running, and its lease has lapsed.
SweepList(p) ==
  /\ Call[p] = "sweep" /\ At(p, "idle")
  /\ wf.status = "running" /\ wf.lease = 0
  /\ Goto(p, "claim")
  /\ UNCHANGED <<wf, cur, historyVars>>

\* Mutant: resume goes on with a workflow that is over.
WorksOnAny(p) == TRUE

\* resume asks again whether there is work; recoverAbandoned does not.
WorksOn(p) == Call[p] = "sweep" \/ wf.status = "running"

\* Pulse's resume: the claim, without a new version, then the work.
Claim(p) ==
  /\ At(p, "claim")
  /\ wf.version <= VersionCap
  /\ IF Available(p)
     THEN /\ wf' = Leased(wf, p)
          /\ IF WorksOn(p)
             THEN Goto(p, "advance") /\ cur' = [cur EXCEPT ![p] = wf']
             ELSE End(p)
     ELSE End(p) /\ UNCHANGED wf
  /\ UNCHANGED historyVars

-----------------------------------------------------------------------------
(* advance                                                                 *)

Remaining(record) == {s \in Steps : record.steps[s] # "completed"}

\* Nexus: the first step, in declared order, that is not completed.
NextStep(record) == CHOOSE s \in Remaining(record) : \A t \in Remaining(record) : s <= t

Blocked(record) == NextStep(record) \in NeedAuth /\ ~record.auth

\* Nexus blocks: the pass ends, its claim stays, nothing is undone.
Block(p) ==
  /\ At(p, "advance")
  /\ Remaining(cur[p]) # {}
  /\ Blocked(cur[p])
  /\ Persist(p, cur[p], "idle")
  /\ UNCHANGED historyVars

\* Governance denies, or the engine refuses, waits or wants a validation first.
Stop(p) ==
  /\ At(p, "advance")
  /\ Remaining(cur[p]) # {}
  /\ ~Blocked(cur[p])
  /\ stops < MaxStops
  /\ stops' = stops + 1
  /\ Persist(p, cur[p], "idle")
  /\ UNCHANGED <<effects, crashes>>

\* The step runs: it takes effect, or it fails.  Whether the failure is marked
\* retryable changes nothing: no caller hands the mark to Pulse.
Run(p) ==
  LET s == NextStep(cur[p]) IN
  /\ At(p, "advance")
  /\ Remaining(cur[p]) # {}
  /\ ~Blocked(cur[p])
  /\ \/ Goto(p, "ran") /\ effects' = [effects EXCEPT ![s] = @ + 1]
     \/ Goto(p, "failing") /\ UNCHANGED effects
  /\ UNCHANGED <<wf, cur, crashes, stops>>

\* The step's record and its output, in the workflow.
Ran(record, auth) ==
  [record EXCEPT !.steps[NextStep(record)] = "completed", !.auth = @ \/ auth]

SaveStep(p) ==
  /\ At(p, "ran")
  /\ \E auth \in IF NextStep(cur[p]) \in GiveAuth THEN BOOLEAN ELSE {FALSE} :
       Persist(p, Ran(cur[p], auth), "advance")
  /\ UNCHANGED historyVars

\* The failure is recorded first, then the unwinding starts.
SaveFailure(p) ==
  /\ At(p, "failing")
  /\ Persist(p, [cur[p] EXCEPT !.steps[NextStep(cur[p])] = "failed"], "unwind")
  /\ UNCHANGED historyVars

\* Every step is complete: so is the workflow, and its claim is released.
Finish(p) ==
  /\ At(p, "advance")
  /\ Remaining(cur[p]) = {}
  /\ Persist(p, Unclaimed([cur[p] EXCEPT !.status = "completed"]), "idle")
  /\ UNCHANGED historyVars

-----------------------------------------------------------------------------
(* compensate                                                              *)

\* Mutant: the unwinding stops short of the first step.
ToUndoButFirst(record) == {s \in Compensable \ {1} : record.steps[s] = "completed"}

\* Mutant: the step that failed is undone as well.
ToUndoFailed(record) == {s \in Compensable : record.steps[s] \in {"completed", "failed"}}

\* Steps without a compensation are left alone.
ToUndo(record) == {s \in Compensable : record.steps[s] = "completed"}

LastOf(S) == CHOOSE s \in S : \A t \in S : t <= s

\* In reverse order: compensate of the last step still to undo runs, or throws.
Undo(p) ==
  LET s == LastOf(ToUndo(cur[p])) IN
  /\ At(p, "unwind")
  /\ ToUndo(cur[p]) # {}
  /\ \/ Goto(p, "undone") /\ effects' = [effects EXCEPT ![s] = @ - 1]
     \/ Goto(p, "stuck") /\ UNCHANGED effects
  /\ UNCHANGED <<wf, cur, crashes, stops>>

SaveUndo(p) ==
  /\ At(p, "undone")
  /\ Persist(p, [cur[p] EXCEPT !.steps[LastOf(ToUndo(cur[p]))] = "compensated"], "unwind")
  /\ UNCHANGED historyVars

\* compensation threw: the workflow is "failed", for a human, its claim kept.
GiveUp(p) ==
  /\ At(p, "stuck")
  /\ Persist(p, [cur[p] EXCEPT !.status = "failed"], "idle")
  /\ UNCHANGED historyVars

Unwound(p) ==
  /\ At(p, "unwind")
  /\ ToUndo(cur[p]) = {}
  /\ Persist(p, Unclaimed([cur[p] EXCEPT !.status = "compensated"]), "idle")
  /\ UNCHANGED historyVars

-----------------------------------------------------------------------------
(* The world                                                               *)

\* An instance dies with every call it was making; what it saved stays saved.
Crash(o) ==
  LET gone == {p \in Passes : Owner[p] = o} IN
  /\ \E p \in gone : pc[p] # "idle"
  /\ crashes < MaxCrashes
  /\ crashes' = crashes + 1
  /\ pc' = [p \in Passes |-> IF p \in gone THEN "idle" ELSE pc[p]]
  /\ cur' = [p \in Passes |-> IF p \in gone THEN Fresh ELSE cur[p]]
  /\ UNCHANGED <<wf, effects, stops>>

Less1(n) == IF n = 0 THEN 0 ELSE n - 1
Later(record) == [record EXCEPT !.lease = Less1(@)]

\* Time passes.  Unless SlowPasses, a live pass is over before its lease is.
Tick ==
  /\ SlowPasses \/ \A p \in Passes : pc[p] \in Working => cur[p].lease # 1
  /\ wf.lease > 0 \/ \E p \in Passes : cur[p].lease > 0
  /\ wf' = Later(wf)
  /\ cur' = [p \in Passes |-> Later(cur[p])]
  /\ UNCHANGED <<pc, historyVars>>

\* What a call does once it has been made.
Proceed(p) ==
  \/ StartCreate(p) \/ Claim(p)
  \/ Block(p) \/ Stop(p) \/ Run(p) \/ SaveStep(p) \/ SaveFailure(p) \/ Finish(p)
  \/ Undo(p) \/ SaveUndo(p) \/ GiveUp(p) \/ Unwound(p)

Next ==
  \/ \E p \in Passes : StartLoad(p) \/ ResumeLoad(p) \/ SweepList(p) \/ Proceed(p)
  \/ \E o \in Instances : Crash(o)
  \/ Tick

Spec == Init /\ [][Next]_vars

\* Calls run to their end unless their instance crashes, somebody starts the
\* workflow, somebody sweeps, and time passes.
Fairness ==
  /\ \A p \in Passes : WF_vars(Proceed(p)) /\ WF_vars(StartLoad(p)) /\ WF_vars(SweepList(p))
  /\ WF_vars(Tick)

FairSpec == Spec /\ Fairness

-----------------------------------------------------------------------------
(* Properties                                                              *)

TypeOK ==
  /\ wf \in Record
  /\ pc \in [Passes -> {"idle", "create", "claim"} \cup Working]
  /\ cur \in [Passes -> Record]
  /\ effects \in [Steps -> Int]
  /\ crashes \in Nat /\ stops \in Nat

\* No pass's copy is ahead of the store, and one of the stored version says
\* what the store says: a save that is not refused loses nobody's work.
CopiesAreCurrent ==
  \A p \in Passes : pc[p] \in Working =>
    /\ cur[p].version <= wf.version
    /\ cur[p].version = wf.version => /\ cur[p].status = wf.status
                                      /\ cur[p].steps = wf.steps
                                      /\ cur[p].auth = wf.auth

\* The status says what the steps say: everything is complete, or everything
\* that can be undone was.
HonestOutcome ==
  /\ wf.status = "completed" => \A s \in Steps : wf.steps[s] = "completed"
  /\ wf.status = "compensated" => \A s \in Compensable : wf.steps[s] # "completed"

\* Completed, compensated and failed are terminal: nothing is saved after them.
TerminalStays ==
  [][wf.status \in Terminal => /\ wf'.status = wf.status
                               /\ wf'.steps = wf.steps]_vars

\* A completed step is skipped, not repeated: its record only ever changes to
\* say that it was undone.
CompletedStays ==
  [][\A s \in Steps : wf.steps[s] = "completed"
                         => wf'.steps[s] \in {"completed", "compensated"}]_vars

\* With calls that end within their lease, and until one of them crashes, each
\* step's effect is in the world exactly when the record says it is complete.
EffectsMatchRecord ==
  crashes = 0 => \A s \in Steps :
    /\ effects[s] \in {0, 1}
    /\ (\A p \in Passes : pc[p] \notin {"ran", "undone"})
         => effects[s] = IF wf.steps[s] = "completed" THEN 1 ELSE 0

Leaseholders == {p \in Passes : pc[p] \in Working /\ cur[p].lease > 0}

\* A workflow that was started, and that no step blocks for want of an
\* authorization, is completed, compensated, or left to a human.
EventuallyOver == wf.status = "running" ~> wf.status \in Terminal

\* What the store's lease promises the instances, as a specification.
Exclusive == INSTANCE ExclusiveWork
  WITH Items <- {"workflow"}, Workers <- Instances,
       holders <- [i \in {"workflow"} |-> {Owner[p] : p \in Leaseholders}]
ImplementsExclusiveWork == Exclusive!Spec
=============================================================================
