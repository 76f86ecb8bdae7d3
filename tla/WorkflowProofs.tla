--------------------------- MODULE WorkflowProofs ---------------------------
(***************************************************************************)
(* What is proved of the instances that run one workflow.                  *)
(***************************************************************************)
EXTENDS PrimeWorkflow, WellFoundedInduction, TLAPS

-----------------------------------------------------------------------------
(***************************************************************************)
(* What the version of a workflow guarantees, for any instances, calls,    *)
(* steps and bounds, however slow the calls are: copies are never ahead of *)
(* the store, and completed steps are not repeated.  Terminal states stay, *)
(* if nobody sweeps; the run PrimeWorkflow_stale_sweep shows what a sweep  *)
(* does to them.                                                           *)
(***************************************************************************)

\* A pass works on a workflow that exists, and fails a step that remained.
PassesSane ==
  \A p \in Passes :
    /\ pc[p] \in Working \cup {"claim"} => wf.status # "absent"
    /\ pc[p] \in Working => cur[p].status # "absent"
    /\ pc[p] = "failing" => Remaining(cur[p]) # {}

-----------------------------------------------------------------------------
(* Every step, as what it does to the store and to the passes              *)

Update(p, place, copy) ==
  /\ pc' = [pc EXCEPT ![p] = place]
  /\ cur' = [cur EXCEPT ![p] = copy]

\* The call is over, and the store is as it was.
Drops(p) == UNCHANGED wf /\ Update(p, "idle", Fresh)

\* What a pass that goes on after a save has kept.
SameClaim(new, old) ==
  new.status = old.status /\ new.claimedBy = old.claimedBy /\ new.lease = old.lease

\* A save that is not refused, of the pass's copy changed into `new'.
Saves(p, new) ==
  /\ pc[p] \in Working
  /\ Current(p)
  /\ new \in Record /\ new.version = cur[p].version
  /\ wf' = Saved(new)
  /\ \/ Update(p, "idle", Fresh)
     \/ /\ SameClaim(new, cur[p])
        /\ \E place \in {"advance", "unwind"} : Update(p, place, Saved(new))

\* The status says what the steps say.
Honest(record) ==
  /\ record.status = "completed" => Remaining(record) = {}
  /\ record.status = "compensated" => ToUndo(record) = {}

\* The only records that are saved: what a pass makes of its copy.
Sound(p, new) ==
  /\ new.status # "absent"
  /\ new.status # cur[p].status => Honest(new)
  /\ \A s \in Steps : cur[p].steps[s] = "completed"
                        => new.steps[s] \in {"completed", "compensated"}

Creates(p) ==
  /\ ~Exists
  /\ wf' = Leased([Fresh EXCEPT !.status = "running"], p)
  /\ Update(p, "advance", wf')

Claims(p) ==
  /\ pc[p] = "claim" /\ Available(p)
  /\ wf' = Leased(wf, p)
  /\ \/ WorksOn(p) /\ Update(p, "advance", wf')
     \/ Update(p, "idle", Fresh)

\* Only the place of the pass changes.
Moves(p, place) ==
  /\ UNCHANGED <<wf, cur>>
  /\ Goto(p, place)
  /\ \/ place = "create"
     \/ place = "claim" /\ Exists
     \/ /\ place \in Working /\ pc[p] \in Working
        /\ place = "failing" => Remaining(cur[p]) # {}

Does(p) ==
  \/ Drops(p) \/ Creates(p) \/ Claims(p)
  \/ \E new \in Record : Saves(p, new) /\ Sound(p, new)
  \/ \E place \in Working \cup {"create", "claim"} : Moves(p, place)

\* A record with one step's status changed is a record.
LEMMA StepRecorded ==
  ASSUME NEW record \in Record, NEW s, NEW st \in StepStatus
  PROVE  [record EXCEPT !.steps[s] = st] \in Record
  BY DEF Record

Ended(record, st) == [record EXCEPT !.status = st]

\* So is one with a terminal status, with or without its claim.
LEMMA EndRecorded ==
  ASSUME NEW record \in Record, NEW st \in Terminal,
         NEW new \in {Ended(record, st), Unclaimed(Ended(record, st))}
  PROVE  /\ new \in Record /\ new.version = record.version
         /\ new.status # "absent" /\ new.status = st /\ new.steps = record.steps
  <1>1. LET ended == Ended(record, st)
        IN /\ ended \in Record /\ ended.version = record.version
           /\ ended.status # "absent" /\ ended.status = st /\ ended.steps = record.steps
    BY DEF Record, Ended, Terminal
  <1>2. CASE new = Ended(record, st)
    BY <1>1, <1>2
  <1>3. CASE new = Unclaimed(Ended(record, st))
    BY <1>1, <1>3 DEF Unclaimed, Record
  <1>4. QED
    BY <1>2, <1>3

\* Of the steps that remain there is a first one, and Nexus finds it.
LEMMA NextStepRemains ==
  ASSUME NEW record \in Record, Remaining(record) # {}
  PROVE  NextStep(record) \in Remaining(record)
  <1>1. Remaining(record) \subseteq Nat
    BY WorkflowAssumption DEF Remaining, Steps
  <1>2. PICK s \in Remaining(record) :
          \A t \in Remaining(record) : ~ <<t, s>> \in OpToRel(<, Nat)
    BY <1>1, WFMin, NatLessThanWellFounded
  <1>3. \A t \in Remaining(record) : s <= t
    <2> SUFFICES ASSUME NEW t \in Remaining(record) PROVE s <= t
      OBVIOUS
    <2>1. ~ t < s
      BY <1>1, <1>2 DEF OpToRel
    <2>2. QED
      BY <1>1, <2>1
  <1>4. QED
    BY <1>2, <1>3 DEF NextStep

LEMMA PersistShape ==
  ASSUME TypeOK, NEW p \in Passes, pc[p] \in Working,
         NEW new \in Record, new.version = cur[p].version, Sound(p, new),
         NEW place \in {"idle", "advance", "unwind"},
         place # "idle" => SameClaim(new, cur[p]),
         Persist(p, new, place)
  PROVE  Does(p)
  <1>1. CASE Current(p)
    <2>1. Saves(p, new)
      BY <1>1 DEF Persist, Saves, Update, End, Goto
    <2>2. QED
      BY <2>1 DEF Does
  <1>2. CASE ~Current(p)
    BY <1>2 DEF Persist, Does, Drops, Update, End
  <1>3. QED
    BY <1>1, <1>2

\* A pass that is not working changes the store only to create or claim.
LEMMA EntryShape ==
  ASSUME TypeOK, NEW p \in Passes,
         StartLoad(p) \/ StartCreate(p) \/ ResumeLoad(p) \/ SweepList(p) \/ Claim(p)
  PROVE  Does(p)
  <1>1. CASE StartLoad(p)
    BY <1>1 DEF StartLoad, Does, Moves, Goto
  <1>2. CASE StartCreate(p)
    BY <1>2 DEF StartCreate, Does, Drops, Creates, Update, End, Goto
  <1>3. CASE ResumeLoad(p)
    BY <1>3 DEF ResumeLoad, Does, Moves, Goto
  <1>4. CASE SweepList(p)
    BY <1>4 DEF SweepList, Does, Moves, Goto, Exists
  <1>5. CASE Claim(p)
    BY <1>5 DEF Claim, Does, Drops, Claims, Update, End, Goto, At
  <1>6. QED
    BY <1>1, <1>2, <1>3, <1>4, <1>5

\* Running a step, or its compensation, only moves the pass.
LEMMA RunShape ==
  ASSUME TypeOK, NEW p \in Passes, Run(p) \/ Undo(p)
  PROVE  Does(p)
  <1>1. CASE Run(p)
    <2>1. pc[p] = "advance" /\ Remaining(cur[p]) # {} /\ UNCHANGED <<wf, cur>>
      BY <1>1 DEF Run, At
    <2>2. PICK place \in {"ran", "failing"} : Goto(p, place)
      BY <1>1 DEF Run
    <2>3. Moves(p, place)
      BY <2>1, <2>2 DEF Moves, Working
    <2>4. QED
      BY <2>3 DEF Does, Working
  <1>2. CASE Undo(p)
    <2>1. pc[p] = "unwind" /\ UNCHANGED <<wf, cur>>
      BY <1>2 DEF Undo, At
    <2>2. PICK place \in {"undone", "stuck"} : Goto(p, place)
      BY <1>2 DEF Undo
    <2>3. Moves(p, place)
      BY <2>1, <2>2 DEF Moves, Working
    <2>4. QED
      BY <2>3 DEF Does, Working
  <1>3. QED
    BY <1>1, <1>2

\* What each save changes, and that it forgets no completed step.
LEMMA SaveShape ==
  ASSUME TypeOK, PassesSane, NEW p \in Passes,
         \/ Block(p) \/ Stop(p) \/ SaveStep(p) \/ SaveFailure(p) \/ Finish(p)
         \/ SaveUndo(p) \/ GiveUp(p) \/ Unwound(p)
  PROVE  Does(p)
  <1> DEFINE old == cur[p]
             Recorded(st, s) == [old EXCEPT !.steps[s] = st]
  <1>1. pc[p] \in Working
    BY DEF Block, Stop, SaveStep, SaveFailure, Finish, SaveUndo, GiveUp, Unwound,
           At, Working
  <1>2. old \in Record /\ old.status # "absent"
    BY <1>1 DEF TypeOK, PassesSane
  <1>3. CASE Block(p) \/ Stop(p)
    <2>1. Persist(p, old, "idle") /\ Sound(p, old)
      BY <1>2, <1>3 DEF Block, Stop, Sound
    <2>2. QED
      BY <1>1, <1>2, <2>1, PersistShape
  <1>4. CASE SaveStep(p)
    <2>1. PICK auth \in BOOLEAN : Persist(p, Ran(old, auth), "advance")
      BY <1>4 DEF SaveStep
    <2> DEFINE new == Ran(old, auth)
    <2>2. /\ new \in Record /\ new.version = old.version /\ SameClaim(new, old)
          /\ \A s \in Steps : new.steps[s] \in {old.steps[s], "completed"}
      BY <1>2 DEF Ran, Record, StepStatus, SameClaim
    <2>3. Sound(p, new)
      BY <1>2, <2>2 DEF Sound, SameClaim
    <2>4. QED
      BY <1>1, <2>1, <2>2, <2>3, PersistShape
  <1>5. CASE SaveFailure(p)
    <2> DEFINE s == NextStep(old)
               new == Recorded("failed", s)
    <2>1. Persist(p, new, "unwind") /\ Remaining(old) # {}
      BY <1>5 DEF SaveFailure, PassesSane, At
    <2>2. s \in Remaining(old)
      BY <1>2, <2>1, NextStepRemains
    <2>3. new \in Record /\ new.version = old.version /\ SameClaim(new, old)
      BY <1>2, StepRecorded DEF Record, StepStatus, SameClaim
    <2>4. \A t \in Steps : old.steps[t] = "completed" => new.steps[t] = "completed"
      BY <1>2, <2>2 DEF Record, Remaining
    <2>5. Sound(p, new)
      BY <1>2, <2>3, <2>4 DEF Sound, SameClaim
    <2>6. QED
      BY <1>1, <2>1, <2>3, <2>5, PersistShape
  <1>6. CASE SaveUndo(p)
    <2> DEFINE new == Recorded("compensated", LastOf(ToUndo(old)))
    <2>1. Persist(p, new, "unwind")
      BY <1>6 DEF SaveUndo
    <2>2. new \in Record /\ new.version = old.version /\ SameClaim(new, old)
      BY <1>2, StepRecorded DEF Record, StepStatus, SameClaim
    <2>3. Sound(p, new)
      BY <1>2, <2>2 DEF Sound, Record, SameClaim
    <2>4. QED
      BY <1>1, <2>1, <2>2, <2>3, PersistShape
  <1>7. CASE GiveUp(p) \/ Finish(p) \/ Unwound(p)
    <2>1. PICK st \in Terminal :
            /\ \E new \in {Ended(old, st), Unclaimed(Ended(old, st))} : Persist(p, new, "idle")
            /\ st = "completed" => Remaining(old) = {}
            /\ st = "compensated" => ToUndo(old) = {}
      BY <1>7 DEF GiveUp, Finish, Unwound, Ended, Terminal
    <2> PICK new \in {Ended(old, st), Unclaimed(Ended(old, st))} : Persist(p, new, "idle")
      BY <2>1
    <2>2. /\ new \in Record /\ new.version = old.version
          /\ new.status # "absent" /\ new.status = st /\ new.steps = old.steps
      BY <1>2, EndRecorded
    <2>a. Honest(new)
      BY <2>1, <2>2 DEF Honest, Remaining, ToUndo
    <2>3. Sound(p, new)
      BY <2>2, <2>a DEF Sound
    <2>4. QED
      BY <1>1, <2>2, <2>3, PersistShape
  <1>8. QED
    BY <1>3, <1>4, <1>5, <1>6, <1>7

\* Every step is one of these, a crash, or a tick.
LEMMA StepShape ==
  ASSUME TypeOK, PassesSane, Next
  PROVE  (\E p \in Passes : Does(p)) \/ (\E o \in Instances : Crash(o)) \/ Tick
  BY EntryShape, RunShape, SaveShape DEF Next, Proceed

-----------------------------------------------------------------------------
(* Type correctness, and the passes' sanity                                *)

CallPlaces == {"idle", "create", "claim"} \cup Working

LEMMA FreshRecorded == Fresh \in Record /\ Fresh.status = "absent"
  BY DEF Fresh, Record, StepStatus

LEMMA SavedRecorded ==
  ASSUME NEW new \in Record
  PROVE  /\ Saved(new) \in Record /\ Saved(new).version = new.version + 1
         /\ Saved(new).status = new.status /\ Saved(new).steps = new.steps
  BY DEF Saved, Record

LEMMA LeasedRecorded ==
  ASSUME NEW record \in Record, NEW p \in Passes
  PROVE  LET new == Leased(record, p)
         IN /\ new \in Record /\ new.version = record.version
            /\ new.status = record.status /\ new.steps = record.steps
            /\ new.auth = record.auth
  BY WorkflowAssumption DEF Leased, Record

\* The record that start creates.
LEMMA CreatedRecorded ==
  ASSUME NEW p \in Passes
  PROVE  LET new == Leased([Fresh EXCEPT !.status = "running"], p)
         IN new \in Record /\ new.status = "running"
  <1>1. LET new == [Fresh EXCEPT !.status = "running"]
        IN new \in Record /\ new.status = "running"
    BY DEF Fresh, Record, StepStatus
  <1>2. QED
    BY <1>1, LeasedRecorded

LEMMA LaterRecorded ==
  ASSUME NEW record \in Record
  PROVE  LET new == Later(record)
         IN /\ new \in Record /\ new.version = record.version
            /\ new.status = record.status /\ new.steps = record.steps
            /\ new.auth = record.auth
  BY DEF Later, Less1, Record

LEMMA UpdateType ==
  ASSUME TypeOK, NEW p, NEW place \in CallPlaces, NEW copy \in Record, Update(p, place, copy)
  PROVE  pc' \in [Passes -> CallPlaces] /\ cur' \in [Passes -> Record]
  BY DEF TypeOK, Update, CallPlaces

\* The store and the copies stay records, the passes stay somewhere.
LEMMA DoesType ==
  ASSUME TypeOK, NEW p \in Passes, Does(p)
  PROVE  wf' \in Record /\ pc' \in [Passes -> CallPlaces] /\ cur' \in [Passes -> Record]
  <1> wf \in Record
    BY DEF TypeOK
  <1>1. CASE Drops(p)
    BY <1>1, FreshRecorded, UpdateType DEF Drops, CallPlaces
  <1>2. CASE Creates(p)
    BY <1>2, CreatedRecorded, UpdateType DEF Creates, CallPlaces, Working
  <1>3. CASE Claims(p)
    <2>1. wf' \in Record
      BY <1>3, LeasedRecorded DEF Claims
    <2>2. QED
      BY <1>3, <2>1, FreshRecorded, UpdateType DEF Claims, CallPlaces, Working
  <1>4. ASSUME NEW new \in Record, Saves(p, new)
        PROVE  wf' \in Record /\ pc' \in [Passes -> CallPlaces] /\ cur' \in [Passes -> Record]
    BY <1>4, SavedRecorded, FreshRecorded, UpdateType DEF Saves, CallPlaces, Working
  <1>5. ASSUME NEW place \in Working \cup {"create", "claim"}, Moves(p, place)
        PROVE  wf' \in Record /\ pc' \in [Passes -> CallPlaces] /\ cur' \in [Passes -> Record]
    BY <1>5 DEF Moves, Goto, CallPlaces, TypeOK
  <1>6. QED
    BY <1>1, <1>2, <1>3, <1>4, <1>5 DEF Does

LEMMA HistoryType ==
  ASSUME TypeOK, [Next]_vars
  PROVE  effects' \in [Steps -> Int] /\ crashes' \in Nat /\ stops' \in Nat
  <1> USE DEF TypeOK, historyVars
  <1>1. CASE UNCHANGED vars
    BY <1>1 DEF vars
  <1>2. ASSUME NEW p \in Passes, Run(p) \/ Undo(p)
        PROVE  effects' \in [Steps -> Int] /\ crashes' \in Nat /\ stops' \in Nat
    BY <1>2 DEF Run, Undo
  <1>3. ASSUME NEW p \in Passes, Stop(p)
        PROVE  effects' \in [Steps -> Int] /\ crashes' \in Nat /\ stops' \in Nat
    BY <1>3 DEF Stop
  <1>4. ASSUME NEW p \in Passes, Proceed(p), ~Run(p), ~Undo(p), ~Stop(p)
        PROVE  UNCHANGED historyVars
    BY <1>4 DEF Proceed, StartCreate, Claim, Block, SaveStep, SaveFailure, Finish, SaveUndo,
                GiveUp, Unwound
  <1>5. ASSUME NEW p \in Passes, StartLoad(p) \/ ResumeLoad(p) \/ SweepList(p)
        PROVE  UNCHANGED historyVars
    BY <1>5 DEF StartLoad, ResumeLoad, SweepList
  <1>6. CASE Tick \/ \E o \in Instances : Crash(o)
    BY <1>6 DEF Tick, Crash
  <1>7. QED
    BY <1>1, <1>2, <1>3, <1>4, <1>5, <1>6 DEF Next

LEMMA TypeStep == TypeOK /\ PassesSane /\ [Next]_vars => TypeOK'
  <1> SUFFICES ASSUME TypeOK, PassesSane, [Next]_vars PROVE TypeOK'
    OBVIOUS
  <1>1. wf' \in Record /\ pc' \in [Passes -> CallPlaces] /\ cur' \in [Passes -> Record]
    <2>1. CASE UNCHANGED vars
      BY <2>1 DEF vars, passVars, TypeOK, CallPlaces
    <2>2. CASE \E p \in Passes : Does(p)
      BY <2>2, DoesType
    <2>3. ASSUME NEW o \in Instances, Crash(o)
          PROVE  wf' \in Record /\ pc' \in [Passes -> CallPlaces] /\ cur' \in [Passes -> Record]
      BY <2>3, FreshRecorded DEF Crash, TypeOK, CallPlaces
    <2>4. CASE Tick
      BY <2>4, LaterRecorded DEF Tick, historyVars, TypeOK, CallPlaces
    <2>5. QED
      BY <2>1, <2>2, <2>3, <2>4, StepShape
  <1>2. QED
    BY <1>1, HistoryType DEF TypeOK, CallPlaces

\* A step of p leaves the others where they were, and p somewhere sane.
LEMMA SaneStep == TypeOK /\ PassesSane /\ [Next]_vars => PassesSane'
  <1> SUFFICES ASSUME TypeOK, PassesSane, [Next]_vars, NEW q \in Passes
               PROVE  /\ pc'[q] \in Working \cup {"claim"} => wf'.status # "absent"
                      /\ pc'[q] \in Working => cur'[q].status # "absent"
                      /\ pc'[q] = "failing" => Remaining(cur'[q]) # {}
    BY DEF PassesSane, Remaining
  <1> DEFINE Sane == /\ pc'[q] \in Working \cup {"claim"} => wf'.status # "absent"
                     /\ pc'[q] \in Working => cur'[q].status # "absent"
                     /\ pc'[q] = "failing" => Remaining(cur'[q]) # {}
  <1>1. /\ wf \in Record /\ cur \in [Passes -> Record] /\ pc \in [Passes -> CallPlaces]
        /\ pc[q] \in Working \cup {"claim"} => wf.status # "absent"
        /\ pc[q] \in Working => cur[q].status # "absent"
        /\ pc[q] = "failing" => Remaining(cur[q]) # {}
    BY DEF TypeOK, PassesSane, CallPlaces
  <1>2. CASE UNCHANGED vars
    BY <1>1, <1>2 DEF vars, passVars
  <1>3. ASSUME NEW o \in Instances, Crash(o)
        PROVE  Sane
    <2>1. pc'[q] = "idle" \/ (pc'[q] = pc[q] /\ cur'[q] = cur[q])
      BY <1>3 DEF Crash
    <2>2. QED
      BY <1>1, <1>3, <2>1 DEF Crash, Working
  <1>4. CASE Tick
    <2>1. /\ wf'.status = wf.status /\ pc'[q] = pc[q]
          /\ cur'[q].status = cur[q].status /\ cur'[q].steps = cur[q].steps
      BY <1>1, <1>4, LaterRecorded DEF Tick, historyVars
    <2>2. Remaining(cur'[q]) = Remaining(cur[q])
      BY <2>1 DEF Remaining
    <2>3. QED
      BY <1>1, <2>1, <2>2
  <1>5. ASSUME NEW p \in Passes, Does(p)
        PROVE  Sane
    <2>1. pc[p] \in Working => wf.status # "absent" /\ cur[p].status # "absent"
      BY DEF PassesSane
    <2>2. wf.status # "absent" => wf'.status # "absent"
      <3>1. CASE Drops(p) \/ \E place \in Working \cup {"create", "claim"} : Moves(p, place)
        BY <3>1 DEF Drops, Moves
      <3>2. CASE Creates(p)
        BY <3>2 DEF Creates, Exists
      <3>3. CASE Claims(p)
        BY <1>1, <3>3, LeasedRecorded DEF Claims
      <3>4. ASSUME NEW new \in Record, Saves(p, new), Sound(p, new)
            PROVE  wf'.status # "absent"
        BY <3>4, SavedRecorded DEF Saves, Sound
      <3>5. QED
        BY <1>5, <3>1, <3>2, <3>3, <3>4 DEF Does
    <2>3. CASE q # p
      <3>1. pc'[q] = pc[q] /\ cur'[q] = cur[q]
        BY <1>1, <1>5, <2>3 DEF Does, Drops, Creates, Claims, Saves, Moves, Update, Goto
      <3>2. QED
        BY <1>1, <2>2, <3>1
    <2>4. CASE q = p
      <3>1. CASE Drops(p)
        BY <1>1, <2>4, <3>1 DEF Drops, Update, Working
      <3>2. CASE Creates(p)
        BY <1>1, <2>4, <3>2, CreatedRecorded DEF Creates, Update, Working
      <3>3. CASE Claims(p)
        BY <1>1, <2>4, <3>3, LeasedRecorded DEF Claims, Update, Working
      <3>4. ASSUME NEW new \in Record, Saves(p, new), Sound(p, new)
            PROVE  Sane
        BY <1>1, <2>4, <3>4, SavedRecorded DEF Saves, Sound, SameClaim, Update, Working
      <3>5. ASSUME NEW place \in Working \cup {"create", "claim"}, Moves(p, place)
            PROVE  Sane
        BY <1>1, <2>1, <2>4, <3>5 DEF Moves, Goto, Exists, Working
      <3>6. QED
        BY <1>5, <3>1, <3>2, <3>3, <3>4, <3>5 DEF Does
    <2>5. QED
      BY <2>3, <2>4
  <1>6. QED
    BY <1>2, <1>3, <1>4, <1>5, StepShape
-----------------------------------------------------------------------------
(* The invariant                                                           *)

\* A workflow that is not there yet has no history, and a pass's copy exists.
AbsentIsEmpty ==
  wf.status = "absent" => \A s \in Steps : wf.steps[s] # "completed"

WorkInv == TypeOK /\ PassesSane /\ CopiesAreCurrent /\ AbsentIsEmpty

LEMMA InitWork == Init => WorkInv
  <1> SUFFICES ASSUME Init PROVE WorkInv
    OBVIOUS
  <1>1. TypeOK
    BY FreshRecorded DEF Init, TypeOK
  <1>2. PassesSane /\ CopiesAreCurrent
    BY DEF Init, PassesSane, CopiesAreCurrent, Working
  <1>3. AbsentIsEmpty
    BY DEF Init, Fresh, AbsentIsEmpty
  <1>4. QED
    BY <1>1, <1>2, <1>3 DEF WorkInv

\* A save is one version ahead of every copy; a claim or a tick leaves what
\* copies are compared by; a workflow is created when nobody has a copy.
LEMMA CopiesStep == WorkInv /\ [Next]_vars => CopiesAreCurrent'
  <1> DEFINE Behind(record, copy) ==
               /\ copy.version <= record.version
               /\ copy.version = record.version => /\ copy.status = record.status
                                                   /\ copy.steps = record.steps
                                                   /\ copy.auth = record.auth
  <1> SUFFICES ASSUME WorkInv, [Next]_vars, NEW q \in Passes, pc'[q] \in Working
               PROVE  Behind(wf', cur'[q])
    BY DEF CopiesAreCurrent
  <1>1. /\ wf \in Record /\ cur \in [Passes -> Record] /\ pc \in [Passes -> CallPlaces]
        /\ pc[q] \in Working => Behind(wf, cur[q]) /\ wf.status # "absent"
    BY DEF WorkInv, TypeOK, PassesSane, CopiesAreCurrent, CallPlaces
  <1>2. TypeOK /\ PassesSane
    BY DEF WorkInv
  <1>3. wf' \in Record /\ Behind(wf', wf')
    BY <1>2, TypeStep DEF TypeOK, Record
  <1>4. CASE UNCHANGED vars
    BY <1>1, <1>4 DEF vars, passVars
  <1>5. ASSUME NEW o \in Instances, Crash(o)
        PROVE  Behind(wf', cur'[q])
    BY <1>1, <1>5 DEF Crash, Working
  <1>6. CASE Tick
    <2>1. /\ pc'[q] = pc[q] /\ wf'.version = wf.version /\ wf'.status = wf.status
          /\ wf'.steps = wf.steps /\ wf'.auth = wf.auth
          /\ cur'[q].version = cur[q].version /\ cur'[q].status = cur[q].status
          /\ cur'[q].steps = cur[q].steps /\ cur'[q].auth = cur[q].auth
      BY <1>1, <1>6, LaterRecorded DEF Tick
    <2>2. QED
      BY <1>1, <2>1
  <1>7. ASSUME NEW p \in Passes, Does(p), q # p
        PROVE  Behind(wf', cur'[q])
    <2>1. pc'[q] = pc[q] /\ cur'[q] = cur[q]
      BY <1>1, <1>7 DEF Does, Drops, Creates, Claims, Saves, Moves, Update, Goto
    <2>2. CASE Drops(p) \/ \E place \in Working \cup {"create", "claim"} : Moves(p, place)
      BY <1>1, <2>1, <2>2 DEF Drops, Moves
    <2>3. CASE Creates(p)
      BY <1>1, <2>1, <2>3 DEF Creates, Exists
    <2>4. CASE Claims(p)
      BY <1>1, <2>1, <2>4, LeasedRecorded DEF Claims
    <2>5. ASSUME NEW new \in Record, Saves(p, new)
          PROVE  Behind(wf', cur'[q])
      <3>1. wf'.version = wf.version + 1
        BY <1>1, <2>5, SavedRecorded DEF Saves, Current
      <3>2. cur[q].version \in Nat /\ wf.version \in Nat
        BY <1>1 DEF Record
      <3>3. QED
        BY <1>1, <2>1, <3>1, <3>2
    <2>6. QED
      BY <1>7, <2>2, <2>3, <2>4, <2>5 DEF Does
  <1>8. CASE Does(q)
    <2>1. CASE Drops(q)
      BY <1>1, <2>1 DEF Drops, Update, Working
    <2>2. CASE Creates(q) \/ Claims(q) \/ \E new \in Record : Saves(q, new)
      <3>1. cur'[q] = wf'
        BY <1>1, <2>2 DEF Creates, Claims, Saves, Update, Working
      <3>2. QED
        BY <1>3, <3>1
    <2>3. ASSUME NEW place \in Working \cup {"create", "claim"}, Moves(q, place)
          PROVE  Behind(wf', cur'[q])
      BY <1>1, <2>3 DEF Moves, Goto, Working
    <2>4. QED
      BY <1>8, <2>1, <2>2, <2>3 DEF Does
  <1>9. QED
    BY <1>2, <1>4, <1>5, <1>6, <1>7, <1>8, StepShape

\* What a step leaves of the record: all of it but the claim, or it creates
\* the workflow, or it is a save.
LEMMA StoreStep ==
  ASSUME TypeOK, PassesSane, [Next]_vars
  PROVE  \/ wf'.status = wf.status /\ wf'.steps = wf.steps
         \/ wf.status = "absent" /\ wf'.status = "running"
         \/ \E p \in Passes, new \in Record : Saves(p, new) /\ Sound(p, new)
  <1> DEFINE Kept == wf'.status = wf.status /\ wf'.steps = wf.steps
  <1>1. wf \in Record
    BY DEF TypeOK
  <1>2. CASE UNCHANGED vars \/ \E o \in Instances : Crash(o)
    BY <1>2 DEF vars, Crash
  <1>3. CASE Tick
    BY <1>1, <1>3, LaterRecorded DEF Tick
  <1>4. ASSUME NEW p \in Passes, Does(p), ~ \E new \in Record : Saves(p, new) /\ Sound(p, new)
        PROVE  Kept \/ (wf.status = "absent" /\ wf'.status = "running")
    <2>1. CASE Drops(p) \/ \E place \in Working \cup {"create", "claim"} : Moves(p, place)
      BY <2>1 DEF Drops, Moves
    <2>2. CASE Creates(p)
      BY <2>2, CreatedRecorded DEF Creates, Exists
    <2>3. CASE Claims(p)
      BY <1>1, <2>3, LeasedRecorded DEF Claims
    <2>4. QED
      BY <1>4, <2>1, <2>2, <2>3 DEF Does
  <1>5. QED
    BY <1>2, <1>3, <1>4, StepShape

LEMMA WorkStep == WorkInv /\ [Next]_vars => WorkInv'
  <1> SUFFICES ASSUME WorkInv, [Next]_vars PROVE WorkInv'
    OBVIOUS
  <1>1. TypeOK /\ PassesSane /\ wf \in Record
    BY DEF WorkInv, TypeOK
  <1>2. TypeOK' /\ PassesSane' /\ CopiesAreCurrent'
    BY <1>1, TypeStep, SaneStep, CopiesStep
  <1>3. AbsentIsEmpty'
    <2>1. ASSUME NEW p \in Passes, NEW new \in Record, Saves(p, new), Sound(p, new)
          PROVE  wf'.status # "absent"
      BY <2>1, SavedRecorded DEF Saves, Sound
    <2>2. QED
      BY <1>1, <2>1, StoreStep DEF WorkInv, AbsentIsEmpty
  <1>4. QED
    BY <1>2, <1>3 DEF WorkInv

LEMMA WorkAlways == Spec => []WorkInv
  <1>1. QED
    BY InitWork, WorkStep, PTL DEF Spec

-----------------------------------------------------------------------------
(* Theorems                                                                *)

\* The record, the places and the copies of the passes always have their types.
THEOREM TypeCorrect == Spec => []TypeOK
  <1>1. WorkInv => TypeOK
    BY DEF WorkInv
  <1>2. QED
    BY <1>1, WorkAlways, PTL

\* persist compares versions, claims and ticks leave them alone: a copy of the
\* stored version says what the store says, so a save loses nobody's work.
THEOREM CopiesCorrect == Spec => []CopiesAreCurrent
  <1>1. WorkInv => CopiesAreCurrent
    BY DEF WorkInv
  <1>2. QED
    BY <1>1, WorkAlways, PTL

\* However many passes work on it, and however late they save, no step of a
\* workflow that is complete is run again and recorded anew: its record changes
\* only to say that it was undone.
THEOREM CompletedCorrect == Spec => CompletedStays
  <1> DEFINE Keeps == \A s \in Steps : wf.steps[s] = "completed"
                                         => wf'.steps[s] \in {"completed", "compensated"}
  <1>1. WorkInv /\ [Next]_vars => Keeps
    <2> SUFFICES ASSUME WorkInv, [Next]_vars PROVE Keeps
      OBVIOUS
    <2>1. TypeOK /\ PassesSane /\ CopiesAreCurrent /\ AbsentIsEmpty
      BY DEF WorkInv
    <2>2. ASSUME NEW p \in Passes, NEW new \in Record, Saves(p, new), Sound(p, new)
          PROVE  Keeps
      <3>1. cur[p].steps = wf.steps
        BY <2>1, <2>2 DEF Saves, Current, CopiesAreCurrent
      <3>2. wf'.steps = new.steps
        BY <2>2, SavedRecorded DEF Saves
      <3>3. QED
        BY <2>2, <3>1, <3>2 DEF Sound
    <2>3. QED
      BY <2>1, <2>2, StoreStep DEF AbsentIsEmpty
  <1>2. QED
    BY <1>1, WorkAlways, PTL DEF Spec, CompletedStays

-----------------------------------------------------------------------------
(* Without sweeps                                                          *)

\* recoverAbandoned works on the workflow without asking whether it still runs.
NoSweeps == \A p \in Passes : Call[p] # "sweep"

\* A pass only has work to do on a workflow it saw running.
CopiesRun == \A p \in Passes : pc[p] \in Working => cur[p].status = "running"

LEMMA RunStep ==
  ASSUME NoSweeps
  PROVE  WorkInv /\ CopiesRun /\ [Next]_vars => CopiesRun'
  <1> SUFFICES ASSUME WorkInv, CopiesRun, [Next]_vars, NEW q \in Passes, pc'[q] \in Working
               PROVE  cur'[q].status = "running"
    BY DEF CopiesRun
  <1>1. /\ TypeOK /\ PassesSane
        /\ wf \in Record /\ cur \in [Passes -> Record] /\ pc \in [Passes -> CallPlaces]
        /\ pc[q] \in Working => cur[q].status = "running"
    BY DEF WorkInv, TypeOK, CopiesRun, CallPlaces
  <1>2. CASE UNCHANGED vars
    BY <1>1, <1>2 DEF vars, passVars
  <1>3. ASSUME NEW o \in Instances, Crash(o)
        PROVE  cur'[q].status = "running"
    BY <1>1, <1>3 DEF Crash, Working
  <1>4. CASE Tick
    BY <1>1, <1>4, LaterRecorded DEF Tick
  <1>5. ASSUME NEW p \in Passes, Does(p), q # p
        PROVE  cur'[q].status = "running"
    BY <1>1, <1>5 DEF Does, Drops, Creates, Claims, Saves, Moves, Update, Goto
  <1>6. CASE Does(q)
    <2>1. CASE Drops(q)
      BY <1>1, <2>1 DEF Drops, Update, Working
    <2>2. CASE Creates(q)
      BY <1>1, <2>2, CreatedRecorded DEF Creates, Update
    <2>3. CASE Claims(q)
      <3>1. WorksOn(q) /\ wf' = Leased(wf, q) /\ cur'[q] = wf'
        BY <1>1, <2>3 DEF Claims, Update, Working
      <3>2. wf.status = "running"
        BY <3>1 DEF WorksOn, NoSweeps
      <3>3. QED
        BY <1>1, <3>1, <3>2, LeasedRecorded
    <2>4. ASSUME NEW new \in Record, Saves(q, new)
          PROVE  cur'[q].status = "running"
      <3>1. pc[q] \in Working /\ new.status = cur[q].status /\ cur'[q] = Saved(new)
        BY <1>1, <2>4 DEF Saves, SameClaim, Update, Working
      <3>2. QED
        BY <1>1, <3>1, SavedRecorded
    <2>5. ASSUME NEW place \in Working \cup {"create", "claim"}, Moves(q, place)
          PROVE  cur'[q].status = "running"
      BY <1>1, <2>5 DEF Moves, Goto, Working
    <2>6. QED
      BY <1>6, <2>1, <2>2, <2>3, <2>4, <2>5 DEF Does
  <1>7. QED
    BY <1>1, <1>2, <1>3, <1>4, <1>5, <1>6, StepShape

\* Nothing but a sweep takes up, or saves, a workflow that is over.
THEOREM TerminalCorrect ==
  ASSUME NoSweeps
  PROVE  Spec => TerminalStays
  <1> DEFINE Stays == wf.status \in Terminal => wf'.status = wf.status /\ wf'.steps = wf.steps
  <1>1. Init => CopiesRun
    BY DEF Init, CopiesRun, Working
  <1>2. WorkInv /\ CopiesRun /\ [Next]_vars => CopiesRun'
    BY RunStep
  <1>3. WorkInv /\ CopiesRun /\ [Next]_vars => Stays
    <2> SUFFICES ASSUME WorkInv, CopiesRun, [Next]_vars, wf.status \in Terminal
                 PROVE  wf'.status = wf.status /\ wf'.steps = wf.steps
      OBVIOUS
    <2>1. TypeOK /\ PassesSane /\ CopiesAreCurrent
      BY DEF WorkInv
    <2>2. ASSUME NEW p \in Passes, NEW new \in Record, Saves(p, new)
          PROVE  FALSE
      BY <2>1, <2>2 DEF Saves, Current, CopiesAreCurrent, CopiesRun, Terminal
    <2>3. QED
      BY <2>1, <2>2, StoreStep DEF Terminal
  <1>4. QED
    BY <1>1, <1>2, <1>3, WorkAlways, PTL DEF Spec, TerminalStays

LEMMA HonestStep ==
  ASSUME NoSweeps, WorkInv, CopiesRun, Honest(wf), [Next]_vars
  PROVE  Honest(wf')
  <1>1. TypeOK /\ PassesSane
    BY DEF WorkInv
  <1>2. CASE wf'.status = wf.status /\ wf'.steps = wf.steps
    BY <1>2 DEF Honest, Remaining, ToUndo
  <1>3. CASE wf'.status = "running"
    BY <1>3 DEF Honest
  <1>4. ASSUME NEW p \in Passes, NEW new \in Record, Saves(p, new), Sound(p, new)
        PROVE  Honest(wf')
    <2>1. /\ cur[p].status = "running"
          /\ wf'.status = new.status /\ wf'.steps = new.steps
      BY <1>4, SavedRecorded DEF Saves, CopiesRun
    <2>2. new.status = "running" \/ Honest(new)
      BY <1>4, <2>1 DEF Sound
    <2>3. QED
      BY <2>1, <2>2 DEF Honest, Remaining, ToUndo
  <1>5. QED
    BY <1>1, <1>2, <1>3, <1>4, StoreStep

\* A workflow is completed when each of its steps is, and compensated when no
\* step that can be undone is left done, however many starts and resumes of it
\* overlap, conflict, fail and crash.
THEOREM HonestCorrect ==
  ASSUME NoSweeps
  PROVE  Spec => []HonestOutcome
  <1>1. Init => CopiesRun /\ Honest(wf)
    BY DEF Init, CopiesRun, Working, Honest, Fresh
  <1>2. WorkInv /\ CopiesRun /\ Honest(wf) /\ [Next]_vars => CopiesRun' /\ Honest(wf)'
    BY RunStep, HonestStep DEF Honest, Remaining, ToUndo
  <1>3. WorkInv /\ Honest(wf) => HonestOutcome
    BY WorkflowAssumption DEF Honest, HonestOutcome, Remaining, ToUndo
  <1>4. QED
    BY <1>1, <1>2, <1>3, WorkAlways, PTL DEF Spec

-----------------------------------------------------------------------------
(***************************************************************************)
(* Calls that end within their lease, of an instance each.  While one is   *)
(* at work the stored record is its copy, under its claim, so that no      *)
(* other call has work, and what it does to the world it records.          *)
(***************************************************************************)

\* The lease is of an instance: its calls do not keep each other out.
CallsInTime ==
  ~SlowPasses /\ \A p, q \in Passes : Owner[p] = Owner[q] => p = q

Held ==
  \A p \in Passes : pc[p] \in Working =>
    cur[p] = wf /\ wf.lease > 0 /\ wf.claimedBy = Owner[p]

\* At most one call is at work.
LEMMA HeldAlone ==
  ASSUME CallsInTime, Held, NEW p \in Passes, NEW q \in Passes,
         pc[p] \in Working, pc[q] \in Working
  PROVE  p = q
  BY DEF CallsInTime, Held

\* Where nobody is at work, or p alone, nobody but p is after a step of p.
LEMMA HeldDoes ==
  ASSUME CallsInTime, WorkInv, Held, NEW p \in Passes, Does(p)
  PROVE  Held'
  <1> SUFFICES ASSUME NEW q \in Passes, pc'[q] \in Working
               PROVE  cur'[q] = wf' /\ wf'.lease > 0 /\ wf'.claimedBy = Owner[q]
    BY DEF Held
  <1>1. /\ TypeOK /\ PassesSane
        /\ wf \in Record /\ cur \in [Passes -> Record] /\ pc \in [Passes -> CallPlaces]
        /\ LeaseMs > 0 /\ LeaseMs \in Nat
    BY WorkflowAssumption DEF WorkInv, TypeOK, CallPlaces
  <1>2. /\ pc[q] \in Working => cur[q] = wf /\ wf.lease > 0 /\ wf.claimedBy = Owner[q]
        /\ pc[q] \in Working => wf.status # "absent"
    BY <1>1 DEF Held, PassesSane
  <1>3. CASE q # p
    <2>1. pc'[q] = pc[q] /\ cur'[q] = cur[q]
      BY <1>1, <1>3 DEF Does, Drops, Creates, Claims, Saves, Moves, Update, Goto
    <2>2. pc[p] \notin Working
      BY <1>3, <2>1, HeldAlone
    <2>3. ~Creates(p)
      BY <1>2, <2>1 DEF Creates, Exists
    <2>4. ~Claims(p)
      <3>1. Owner[q] # Owner[p] /\ Owner[q] # Nobody
        BY <1>3, WorkflowAssumption DEF CallsInTime
      <3>2. ~Available(p)
        BY <1>1, <1>2, <2>1, <3>1 DEF Available, Record
      <3>3. QED
        BY <3>2 DEF Claims
    <2>5. UNCHANGED wf
      BY <2>2, <2>3, <2>4 DEF Does, Drops, Saves, Moves
    <2>6. QED
      BY <1>2, <2>1, <2>5
  <1>4. CASE q = p
    <2>1. CASE Drops(p)
      BY <1>1, <1>4, <2>1 DEF Drops, Update, Working
    <2>2. CASE Creates(p)
      BY <1>1, <1>4, <2>2 DEF Creates, Update, Leased, Fresh
    <2>3. CASE Claims(p)
      BY <1>1, <1>4, <2>3 DEF Claims, Update, Leased, Record, Working
    <2>4. ASSUME NEW new \in Record, Saves(p, new)
          PROVE  cur'[p] = wf' /\ wf'.lease > 0 /\ wf'.claimedBy = Owner[p]
      <3>1. /\ wf' = Saved(new) /\ cur'[p] = Saved(new)
            /\ new.lease = cur[p].lease /\ new.claimedBy = cur[p].claimedBy
            /\ pc[p] \in Working
        BY <1>1, <1>4, <2>4 DEF Saves, SameClaim, Update, Working
      <3>2. Saved(new).lease = new.lease /\ Saved(new).claimedBy = new.claimedBy
        BY DEF Saved, Record
      <3>3. QED
        BY <1>2, <1>4, <3>1, <3>2
    <2>5. ASSUME NEW place \in Working \cup {"create", "claim"}, Moves(p, place)
          PROVE  cur'[p] = wf' /\ wf'.lease > 0 /\ wf'.claimedBy = Owner[p]
      BY <1>1, <1>2, <1>4, <2>5 DEF Moves, Goto, Working
    <2>6. QED
      BY <1>4, <2>1, <2>2, <2>3, <2>4, <2>5 DEF Does
  <1>5. QED
    BY <1>3, <1>4

LEMMA HeldStep ==
  ASSUME CallsInTime
  PROVE  WorkInv /\ Held /\ [Next]_vars => Held'
  <1> SUFFICES ASSUME WorkInv, Held, [Next]_vars PROVE Held'
    OBVIOUS
  <1>1. /\ TypeOK /\ PassesSane
        /\ wf \in Record /\ cur \in [Passes -> Record]
    BY DEF WorkInv, TypeOK
  <1>2. CASE UNCHANGED vars
    BY <1>2 DEF vars, passVars, Held
  <1>3. ASSUME NEW o \in Instances, Crash(o)
        PROVE  Held'
    BY <1>3 DEF Crash, Held, Working
  <1>4. CASE Tick
    <2> SUFFICES ASSUME NEW q \in Passes, pc'[q] \in Working
                 PROVE  cur'[q] = wf' /\ wf'.lease > 0 /\ wf'.claimedBy = Owner[q]
      BY DEF Held
    <2>1. cur[q] = wf /\ wf.lease > 0 /\ wf.claimedBy = Owner[q] /\ cur[q].lease # 1
      BY <1>4 DEF Tick, Held, CallsInTime
    <2>2. cur'[q] = Later(cur[q]) /\ wf' = Later(wf)
      BY <1>4 DEF Tick
    <2>3. wf.lease \in Nat /\ Later(wf).lease = wf.lease - 1 /\ Later(wf).claimedBy = wf.claimedBy
      BY <1>1, <2>1 DEF Later, Less1, Record
    <2>4. QED
      BY <2>1, <2>2, <2>3
  <1>5. QED
    BY <1>1, <1>2, <1>3, <1>4, HeldDoes, StepShape

LEMMA HeldAlways ==
  ASSUME CallsInTime
  PROVE  Spec => []Held
  <1>1. Init => Held
    BY DEF Init, Held, Working
  <1>2. WorkInv /\ Held /\ [Next]_vars => Held'
    BY HeldStep
  <1>3. QED
    BY <1>1, <1>2, WorkAlways, PTL DEF Spec

\* A call comes to work only by a claim or by creating the workflow, and no
\* other call is at work then.
THEOREM LeaseImplementsExclusive ==
  ASSUME CallsInTime
  PROVE  Spec => ImplementsExclusiveWork
  <1> DEFINE Now == {Owner[p] : p \in Leaseholders}
  <1>1. Held => Leaseholders = {p \in Passes : pc[p] \in Working}
    BY DEF Held, Leaseholders
  <1>2. Init => Exclusive!Init
    BY DEF Init, Exclusive!Init, Leaseholders, Working
  <1>3. WorkInv /\ Held /\ Held' /\ [Next]_vars => [Exclusive!Next]_[i \in {"workflow"} |-> Now]
    <2> SUFFICES ASSUME WorkInv, Held, Held', [Next]_vars
                 PROVE  Now' \subseteq Now \/ (Now = {} /\ \E o \in Instances : Now' = {o})
      <3>1. CASE Now' \subseteq Now
        <4>1. Now' \subseteq Instances
          BY WorkflowAssumption DEF Leaseholders
        <4>2. Exclusive!Lose
          BY <3>1, <4>1 DEF Exclusive!Lose
        <4>3. QED
          BY <4>2 DEF Exclusive!Next
      <3>2. ASSUME NEW o \in Instances, Now = {}, Now' = {o}
            PROVE  Exclusive!Take("workflow", o)
        BY <3>2 DEF Exclusive!Take
      <3>3. QED
        BY <3>1, <3>2 DEF Exclusive!Next
    <2>1. /\ Leaseholders = {p \in Passes : pc[p] \in Working}
          /\ Leaseholders' = {p \in Passes : pc'[p] \in Working}
      BY <1>1 DEF Held, Leaseholders
    <2>2. \A p, q \in Leaseholders' : p = q
      BY <2>1 DEF CallsInTime, Held
    <2>3. CASE Leaseholders' \subseteq Leaseholders
      BY <2>3
    <2>4. ASSUME NEW p \in Leaseholders', p \notin Leaseholders
          PROVE  Now = {} /\ Now' = {Owner[p]} /\ Owner[p] \in Instances
      <3>1. p \in Passes /\ pc[p] \notin Working /\ pc'[p] \in Working
        BY <2>1, <2>4
      <3>2. Does(p)
        <4>1. TypeOK /\ PassesSane /\ pc \in [Passes -> CallPlaces]
          BY DEF WorkInv, TypeOK, CallPlaces
        <4>2. ~UNCHANGED vars /\ ~Tick /\ ~\E o \in Instances : Crash(o)
          BY <3>1 DEF vars, passVars, Tick, Crash, Working
        <4>3. PICK q \in Passes : Does(q)
          BY <4>1, <4>2, StepShape
        <4>4. q # p => pc'[p] = pc[p]
          BY <3>1, <4>1, <4>3 DEF Does, Drops, Creates, Claims, Saves, Moves, Update, Goto
        <4>5. QED
          BY <3>1, <4>3, <4>4
      <3>3. Creates(p) \/ Claims(p)
        <4>1. pc \in [Passes -> CallPlaces]
          BY DEF WorkInv, TypeOK, CallPlaces
        <4>2. QED
          BY <3>1, <3>2, <4>1 DEF Does, Drops, Saves, Moves, Update, Goto, Working
      <3>4. Leaseholders = {}
        <4> SUFFICES ASSUME NEW q \in Leaseholders PROVE FALSE
          OBVIOUS
        <4>1. /\ q \in Passes /\ pc[q] \in Working /\ q # p
              /\ wf.status # "absent" /\ wf.lease > 0 /\ wf.claimedBy = Owner[q]
              /\ wf.lease \in Nat
          BY <2>1, <2>4 DEF Held, WorkInv, PassesSane, TypeOK, Record
        <4>2. Owner[q] # Owner[p] /\ Owner[q] # Nobody
          BY <3>1, <4>1, WorkflowAssumption DEF CallsInTime
        <4>3. QED
          BY <3>3, <4>1, <4>2 DEF Creates, Claims, Exists, Available
      <3>5. Leaseholders' = {p}
        BY <2>2, <2>4
      <3>6. QED
        BY <3>1, <3>4, <3>5, WorkflowAssumption
    <2>5. QED
      BY <2>3, <2>4
  <1>4. QED
    BY <1>2, <1>3, HeldAlways, WorkAlways, PTL DEF Spec, ImplementsExclusiveWork, Exclusive!Spec

-----------------------------------------------------------------------------
(* What those calls do to the world                                        *)

Done(record, s) == IF record.steps[s] = "completed" THEN 1 ELSE 0

\* The world is as the record says, but for the step of a call that ran it, or
\* undid it, and has not saved that yet.
Performed ==
  /\ (\A p \in Passes : pc[p] \notin {"ran", "undone"})
       => \A s \in Steps : effects[s] = Done(wf, s)
  /\ \A p \in Passes : pc[p] = "ran" =>
       /\ Remaining(cur[p]) # {}
       /\ \A s \in Steps : effects[s] = IF s = NextStep(cur[p]) THEN 1 ELSE Done(wf, s)
  /\ \A p \in Passes : pc[p] = "undone" =>
       /\ ToUndo(cur[p]) # {}
       /\ \A s \in Steps : effects[s] = IF s = LastOf(ToUndo(cur[p])) THEN 0 ELSE Done(wf, s)

EffectsInv == crashes = 0 => Performed

\* Of the steps to undo there is a last one, and compensate starts with it.
LEMMA LastIsThere ==
  ASSUME NEW S \in SUBSET Steps, S # {}
  PROVE  LastOf(S) \in S
<1> DEFINE Left == {NumSteps - s : s \in S}
<1>1. Left \subseteq Nat /\ \A s \in S : s \in Nat
  BY WorkflowAssumption DEF Steps
<1>2. PICK d \in Left : \A e \in Left : ~ <<e, d>> \in OpToRel(<, Nat)
  <2>1. Left \subseteq Nat /\ Left # {}
    BY <1>1
  <2> HIDE DEF Left
  <2>2. QED
    BY <2>1, WFMin, NatLessThanWellFounded
<1>3. PICK s \in S : d = NumSteps - s
  OBVIOUS
<1>4. \A t \in S : t <= s
  <2> SUFFICES ASSUME NEW t \in S PROVE t <= s
    OBVIOUS
  <2>1. ~ (NumSteps - t < d)
    BY <1>1, <1>2 DEF OpToRel
  <2>2. t \in Nat /\ s \in Nat /\ NumSteps \in Nat
    BY <1>1, WorkflowAssumption
  <2>3. QED
    BY <1>3, <2>1, <2>2
<1>5. QED
  BY <1>4 DEF LastOf

\* A step that leaves effects and the record's completed steps, and that takes
\* no call to or from between an effect and its save, leaves the world right.
LEMMA NothingPerformed ==
  ASSUME WorkInv, Performed, UNCHANGED effects,
         \A s \in Steps : Done(wf', s) = Done(wf, s),
         \A p \in Passes :
           \/ pc[p] \notin {"ran", "undone"} /\ pc'[p] \notin {"ran", "undone"}
           \/ pc'[p] = pc[p] /\ cur'[p].steps = cur[p].steps
  PROVE  Performed'
<1>1. \A p \in Passes : pc'[p] \in {"ran", "undone"} =>
        /\ pc'[p] = pc[p]
        /\ Remaining(cur'[p]) = Remaining(cur[p])
        /\ NextStep(cur'[p]) = NextStep(cur[p])
        /\ ToUndo(cur'[p]) = ToUndo(cur[p])
  <2> SUFFICES ASSUME NEW p \in Passes, pc'[p] \in {"ran", "undone"}
               PROVE  /\ pc'[p] = pc[p]
                      /\ Remaining(cur'[p]) = Remaining(cur[p])
                      /\ NextStep(cur'[p]) = NextStep(cur[p])
                      /\ ToUndo(cur'[p]) = ToUndo(cur[p])
    OBVIOUS
  <2>1. pc'[p] = pc[p] /\ cur'[p].steps = cur[p].steps
    OBVIOUS
  <2>2. Remaining(cur'[p]) = Remaining(cur[p])
    BY <2>1 DEF Remaining
  <2>3. ToUndo(cur'[p]) = ToUndo(cur[p])
    BY <2>1 DEF ToUndo
  <2>4. NextStep(cur'[p]) = NextStep(cur[p])
    BY <2>2 DEF NextStep
  <2> QED
    BY <2>1, <2>2, <2>3, <2>4
<1>2. \A p \in Passes : pc'[p] \in {"ran", "undone"} <=> pc[p] \in {"ran", "undone"}
  OBVIOUS
<1>3. \A s \in Steps : effects'[s] = effects[s] /\ Done(wf', s) = Done(wf, s)
  OBVIOUS
<1>4. (\A p \in Passes : pc'[p] \notin {"ran", "undone"})
        => \A s \in Steps : effects'[s] = Done(wf', s)
  BY <1>2, <1>3 DEF Performed
<1>5. ASSUME NEW p \in Passes, pc'[p] = "ran"
      PROVE  /\ Remaining(cur'[p]) # {}
             /\ \A s \in Steps :
                  effects'[s] = IF s = NextStep(cur'[p]) THEN 1 ELSE Done(wf', s)
  BY <1>1, <1>3, <1>5 DEF Performed
<1>6. ASSUME NEW p \in Passes, pc'[p] = "undone"
      PROVE  /\ ToUndo(cur'[p]) # {}
             /\ \A s \in Steps :
                  effects'[s] = IF s = LastOf(ToUndo(cur'[p])) THEN 0 ELSE Done(wf', s)
  BY <1>1, <1>3, <1>6 DEF Performed
<1>7. QED
  BY <1>4, <1>5, <1>6 DEF Performed, Remaining, NextStep, ToUndo, Done

\* While p is at work no other call is, before a step of p and after it.
LEMMA WorksAlone ==
  ASSUME CallsInTime, WorkInv, Held, NEW p \in Passes, pc[p] \in Working, Does(p)
  PROVE  \A q \in Passes \ {p} : pc[q] \notin Working /\ pc'[q] \notin Working
<1> SUFFICES ASSUME NEW q \in Passes, q # p PROVE pc[q] \notin Working /\ pc'[q] \notin Working
  OBVIOUS
<1>1. pc \in [Passes -> CallPlaces]
  BY DEF WorkInv, TypeOK, CallPlaces
<1>2. pc'[q] = pc[q]
  BY <1>1 DEF Does, Drops, Creates, Claims, Saves, Moves, Update, Goto
<1>3. QED
  BY <1>2, HeldAlone

\* Calls that are not at work yet: a new workflow has no step done, and a claim
\* changes none.
LEMMA EntryPerforms ==
  ASSUME WorkInv, Performed, NEW p \in Passes,
         StartLoad(p) \/ StartCreate(p) \/ ResumeLoad(p) \/ SweepList(p) \/ Claim(p)
  PROVE  Performed'
<1>1. /\ TypeOK /\ pc \in [Passes -> CallPlaces] /\ cur \in [Passes -> Record] /\ wf \in Record
  BY DEF WorkInv, TypeOK, CallPlaces
<1>2. UNCHANGED effects
  BY DEF StartLoad, StartCreate, ResumeLoad, SweepList, Claim, historyVars
<1>3. pc[p] \notin Working /\ pc'[p] \notin {"ran", "undone"}
      /\ \A q \in Passes \ {p} : pc'[q] = pc[q] /\ cur'[q] = cur[q]
  BY <1>1 DEF StartLoad, StartCreate, ResumeLoad, SweepList, Claim, At, Goto, End, Working
<1>4. \A s \in Steps : Done(wf', s) = Done(wf, s)
  <2>1. CASE UNCHANGED wf
    BY <2>1 DEF Done
  <2>2. CASE wf' = Leased(wf, p)
    BY <1>1, <2>2, LeasedRecorded DEF Done
  <2>3. CASE ~Exists /\ wf' = Leased([Fresh EXCEPT !.status = "running"], p)
    <3>1. \A s \in Steps : wf'.steps[s] = "none" /\ wf.steps[s] # "completed"
      BY <2>3 DEF Leased, Fresh, WorkInv, AbsentIsEmpty, Exists
    <3>2. QED
      BY <3>1 DEF Done
  <2>4. QED
    BY <2>1, <2>2, <2>3 DEF StartLoad, StartCreate, ResumeLoad, SweepList, Claim
<1>5. QED
  BY <1>2, <1>3, <1>4, NothingPerformed DEF Working

\* A pass records the step that it ran, and only that.
LEMMA StepPerforms ==
  ASSUME CallsInTime, WorkInv, Held, Performed, NEW p \in Passes, SaveStep(p) \/ SaveUndo(p)
  PROVE  Performed'
<1>1. /\ TypeOK /\ PassesSane /\ pc \in [Passes -> CallPlaces]
      /\ cur \in [Passes -> Record] /\ wf \in Record
  BY DEF WorkInv, TypeOK, CallPlaces
<1>2. pc[p] \in Working /\ Does(p) /\ Current(p) /\ UNCHANGED effects /\ cur[p] = wf
  BY <1>1, SaveShape DEF SaveStep, SaveUndo, At, Working, Held, Current, historyVars
<1>3. \A q \in Passes : pc'[q] \notin {"ran", "undone"}
  <2>1. pc'[p] \in {"advance", "unwind"}
    BY <1>1, <1>2 DEF SaveStep, SaveUndo, Persist, Goto
  <2>2. QED
    BY <1>2, <2>1, WorksAlone DEF Working
<1>4. \A s \in Steps : effects[s] = Done(wf', s)
  <2>1. CASE SaveStep(p)
    <3> DEFINE n == NextStep(wf)
    <3>1. PICK auth \in BOOLEAN : wf' = Saved(Ran(wf, auth))
      BY <1>2, <2>1 DEF SaveStep, Persist
    <3>2. pc[p] = "ran"
      BY <2>1 DEF SaveStep, At
    <3>3. /\ Remaining(wf) # {}
          /\ \A s \in Steps : effects[s] = IF s = n THEN 1 ELSE Done(wf, s)
      BY <1>2, <3>2 DEF Performed
    <3>4. wf'.steps = [wf.steps EXCEPT ![n] = "completed"]
      BY <1>1, <3>1 DEF Saved, Ran, Record
    <3>5. \A s \in Steps : wf'.steps[s] = IF s = n THEN "completed" ELSE wf.steps[s]
      BY <1>1, <3>4 DEF Record
    <3>6. QED
      BY <3>3, <3>5 DEF Done
  <2>2. CASE SaveUndo(p)
    <3> DEFINE n == LastOf(ToUndo(wf))
    <3>1. wf' = Saved([wf EXCEPT !.steps[n] = "compensated"])
      BY <1>2, <2>2 DEF SaveUndo, Persist
    <3>2. pc[p] = "undone"
      BY <2>2 DEF SaveUndo, At
    <3>3. \A s \in Steps : effects[s] = IF s = n THEN 0 ELSE Done(wf, s)
      BY <1>2, <3>2 DEF Performed
    <3>4. wf'.steps = [wf.steps EXCEPT ![n] = "compensated"]
      BY <1>1, <3>1 DEF Saved, Record
    <3>5. \A s \in Steps : wf'.steps[s] = IF s = n THEN "compensated" ELSE wf.steps[s]
      BY <1>1, <3>4 DEF Record
    <3>6. QED
      BY <3>3, <3>5 DEF Done
  <2>3. QED
    BY <2>1, <2>2
<1>5. QED
  BY <1>2, <1>3, <1>4 DEF Performed

\* The other saves leave what is complete: the step that failed was not.
LEMMA SavePerforms ==
  ASSUME CallsInTime, WorkInv, Held, Performed, NEW p \in Passes,
         \/ Block(p) \/ Stop(p) \/ SaveFailure(p) \/ Finish(p) \/ GiveUp(p) \/ Unwound(p)
  PROVE  Performed'
<1>1. /\ TypeOK /\ PassesSane /\ pc \in [Passes -> CallPlaces]
      /\ cur \in [Passes -> Record] /\ wf \in Record
  BY DEF WorkInv, TypeOK, CallPlaces
<1>2. /\ pc[p] \in Working /\ pc[p] \notin {"ran", "undone"} /\ Does(p) /\ UNCHANGED effects
  BY <1>1, SaveShape DEF Block, Stop, SaveFailure, Finish, GiveUp, Unwound, At, Working, historyVars
<1>3. cur[p] = wf /\ Current(p)
  BY <1>2 DEF Held, Current
<1>4. pc'[p] \notin {"ran", "undone"}
  BY <1>1, <1>3 DEF Block, Stop, SaveFailure, Finish, GiveUp, Unwound, Persist, Goto, End
<1>5. \A q \in Passes : pc[q] \notin {"ran", "undone"} /\ pc'[q] \notin {"ran", "undone"}
  BY <1>2, <1>4, WorksAlone DEF Working
<1>6. \A s \in Steps : Done(wf', s) = Done(wf, s)
  <2>1. CASE SaveFailure(p)
    <3> DEFINE n == NextStep(wf)
    <3>1. wf' = Saved([wf EXCEPT !.steps[n] = "failed"]) /\ pc[p] = "failing"
      BY <1>3, <2>1 DEF SaveFailure, Persist, At
    <3>2. n \in Remaining(wf)
      BY <1>1, <1>3, <3>1, NextStepRemains DEF PassesSane
    <3>3. wf'.steps = [wf.steps EXCEPT ![n] = "failed"]
      BY <1>1, <3>1 DEF Saved, Record
    <3>4. \A s \in Steps : wf'.steps[s] = IF s = n THEN "failed" ELSE wf.steps[s]
      BY <1>1, <3>3 DEF Record
    <3>5. QED
      BY <3>2, <3>4 DEF Done, Remaining
  <2>2. CASE Block(p) \/ Stop(p) \/ Finish(p) \/ GiveUp(p) \/ Unwound(p)
    <3>1. wf'.steps = wf.steps
      BY <1>1, <1>3, <2>2 DEF Block, Stop, Finish, GiveUp, Unwound, Persist, Saved, Unclaimed, Record
    <3>2. QED
      BY <3>1 DEF Done
  <2>3. QED
    BY <2>1, <2>2
<1>7. QED
  BY <1>2, <1>5, <1>6, NothingPerformed

\* A step takes effect once, and is undone once.
LEMMA RunPerforms ==
  ASSUME CallsInTime, WorkInv, Held, Performed, NEW p \in Passes, Run(p) \/ Undo(p)
  PROVE  Performed'
<1>1. /\ TypeOK /\ PassesSane /\ pc \in [Passes -> CallPlaces] /\ effects \in [Steps -> Int]
      /\ cur \in [Passes -> Record] /\ wf \in Record
  BY DEF WorkInv, TypeOK, CallPlaces
<1>2. /\ pc[p] \in Working /\ pc[p] \notin {"ran", "undone"} /\ Does(p)
      /\ UNCHANGED <<wf, cur>>
  BY <1>1, RunShape DEF Run, Undo, At, Working
<1>3. cur[p] = wf
  BY <1>2 DEF Held
<1>4. \A q \in Passes \ {p} : pc[q] \notin {"ran", "undone"} /\ pc'[q] \notin {"ran", "undone"}
  BY <1>2, WorksAlone DEF Working
<1>5. \A s \in Steps : effects[s] = Done(wf, s)
  BY <1>2, <1>4 DEF Performed
<1>6. CASE pc'[p] \notin {"ran", "undone"}
  <2>1. UNCHANGED effects
    BY <1>1, <1>6 DEF Run, Undo, Goto
  <2>2. \A s \in Steps : Done(wf', s) = Done(wf, s)
    BY <1>2
  <2>3. QED
    BY <1>2, <1>4, <1>6, <2>1, <2>2, NothingPerformed
<1>7. CASE pc'[p] = "ran"
  <2> DEFINE n == NextStep(wf)
  <2>1. Remaining(wf) # {} /\ effects' = [effects EXCEPT ![n] = @ + 1]
    BY <1>1, <1>3, <1>7 DEF Run, Undo, Goto
  <2>2. n \in Steps /\ effects[n] = 0
    BY <1>1, <1>5, <2>1, NextStepRemains DEF Remaining, Done
  <2>3. \A s \in Steps : effects'[s] = IF s = n THEN 1 ELSE Done(wf, s)
    BY <1>1, <1>5, <2>1, <2>2
  <2>4. \A q \in Passes : pc'[q] # "undone" /\ (pc'[q] = "ran" => q = p)
    BY <1>4, <1>7
  <2>5. QED
    BY <1>2, <1>3, <1>7, <2>1, <2>3, <2>4 DEF Performed
<1>8. CASE pc'[p] = "undone"
  <2> DEFINE n == LastOf(ToUndo(wf))
  <2>1. ToUndo(wf) # {} /\ effects' = [effects EXCEPT ![n] = @ - 1]
    BY <1>1, <1>3, <1>8 DEF Run, Undo, Goto
  <2>2. n \in Steps /\ effects[n] = 1
    <3>1. ToUndo(wf) \in SUBSET Steps
      BY WorkflowAssumption DEF ToUndo
    <3>2. n \in ToUndo(wf)
      BY <2>1, <3>1, LastIsThere
    <3>3. QED
      BY <1>5, <3>1, <3>2 DEF ToUndo, Done
  <2>3. \A s \in Steps : effects'[s] = IF s = n THEN 0 ELSE Done(wf, s)
    BY <1>1, <1>5, <2>1, <2>2
  <2>4. \A q \in Passes : pc'[q] # "ran" /\ (pc'[q] = "undone" => q = p)
    BY <1>4, <1>8
  <2>5. QED
    BY <1>2, <1>3, <1>8, <2>1, <2>3, <2>4 DEF Performed
<1>9. QED
  BY <1>6, <1>7, <1>8

LEMMA PerformedStep ==
  ASSUME CallsInTime
  PROVE  WorkInv /\ Held /\ EffectsInv /\ [Next]_vars => EffectsInv'
<1> SUFFICES ASSUME WorkInv, Held, crashes = 0 => Performed, [Next]_vars, crashes' = 0
             PROVE  Performed'
  BY DEF EffectsInv, Performed, Remaining, NextStep, LastOf, ToUndo, Done
<1>1. crashes \in Nat /\ wf \in Record /\ cur \in [Passes -> Record]
  BY DEF WorkInv, TypeOK
<1>2. ~ \E o \in Instances : Crash(o)
  BY <1>1 DEF Crash
<1>3. CASE UNCHANGED vars
  <2>1. /\ UNCHANGED effects /\ crashes = 0
        /\ \A s \in Steps : Done(wf', s) = Done(wf, s)
        /\ \A p \in Passes : pc'[p] = pc[p] /\ cur'[p] = cur[p]
    BY <1>3 DEF vars, passVars, historyVars
  <2>2. QED
    BY <2>1, NothingPerformed
<1>4. CASE Tick
  <2>1. UNCHANGED effects /\ crashes = 0
    BY <1>4 DEF Tick, historyVars
  <2>2. /\ wf'.steps = wf.steps
        /\ \A p \in Passes : pc'[p] = pc[p] /\ cur'[p].steps = cur[p].steps
    BY <1>1, <1>4, LaterRecorded DEF Tick
  <2>3. \A s \in Steps : Done(wf', s) = Done(wf, s)
    BY <2>2 DEF Done
  <2>4. QED
    BY <2>1, <2>2, <2>3, NothingPerformed
<1>5. ASSUME NEW p \in Passes, StartLoad(p) \/ ResumeLoad(p) \/ SweepList(p) \/ Proceed(p)
      PROVE  Performed'
  <2>1. crashes = 0
    BY <1>5 DEF StartLoad, ResumeLoad, SweepList, Proceed, StartCreate, Claim, Block, Stop, Run,
                SaveStep, SaveFailure, Finish, Undo, SaveUndo, GiveUp, Unwound, historyVars
  <2>2. CASE StartLoad(p) \/ StartCreate(p) \/ ResumeLoad(p) \/ SweepList(p) \/ Claim(p)
    BY <2>1, <2>2, EntryPerforms
  <2>3. CASE SaveStep(p) \/ SaveUndo(p)
    BY <2>1, <2>3, StepPerforms
  <2>4. CASE Block(p) \/ Stop(p) \/ SaveFailure(p) \/ Finish(p) \/ GiveUp(p) \/ Unwound(p)
    BY <2>1, <2>4, SavePerforms
  <2>5. CASE Run(p) \/ Undo(p)
    BY <2>1, <2>5, RunPerforms
  <2>6. QED
    BY <1>5, <2>2, <2>3, <2>4, <2>5 DEF Proceed
<1>6. QED
  BY <1>2, <1>3, <1>4, <1>5 DEF Next

\* Until something crashes no step takes effect twice or is undone twice, and
\* when no call is between an effect and its save, a step's effect is in the
\* world exactly when the record says that the step is complete: for any calls,
\* sweeps included, that end within their leases.
THEOREM EffectsCorrect ==
  ASSUME CallsInTime
  PROVE  Spec => []EffectsMatchRecord
<1>1. Init => EffectsInv
  BY DEF EffectsInv, Init, Performed, Done, Fresh
<1>2. WorkInv /\ Held /\ EffectsInv /\ [Next]_vars => EffectsInv'
  BY PerformedStep
<1>3. EffectsInv => EffectsMatchRecord
  <2> SUFFICES ASSUME Performed, NEW s \in Steps
               PROVE  /\ effects[s] \in {0, 1}
                      /\ (\A p \in Passes : pc[p] \notin {"ran", "undone"})
                           => effects[s] = IF wf.steps[s] = "completed" THEN 1 ELSE 0
    BY DEF EffectsInv, EffectsMatchRecord
  <2>1. Done(wf, s) \in {0, 1}
    BY DEF Done
  <2>2. QED
    BY <2>1 DEF Performed, Done
<1>4. QED
  BY <1>1, <1>2, <1>3, HeldAlways, WorkAlways, PTL DEF Spec
=============================================================================
