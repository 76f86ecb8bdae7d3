-------------------------- MODULE MCPrimeWorkflow --------------------------
(***************************************************************************)
(* Small instances of PrimeWorkflow: up to three runner instances and a    *)
(* handful of calls; the first step may yield the authorization that the   *)
(* second one may need, and the last step cannot be compensated.  There    *)
(* are two workflows, and a behaviour is of one of them: that of the       *)
(* constants of the .cfg ("race"), or one whose calls, a start and two     *)
(* sweeps, end within their leases and whose steps need no authorization   *)
(* ("timely").                                                             *)
(***************************************************************************)
EXTENDS PrimeWorkflow

CONSTANTS Parts,
          north, south, east,
          order, repeat,      \* two starts under one workflowId
          resume,             \* a resume
          sweepA, sweepB      \* recoverAbandoned, of two instances

VARIABLES part, timelyWf, timelyPc, timelyCur, timelyEffects, timelyCrashes, timelyStops

timelyVars == <<timelyWf, timelyPc, timelyCur, timelyEffects, timelyCrashes, timelyStops>>
allVars == <<part, vars, timelyVars>>

MCOwner == [p \in Passes |-> IF p = order THEN north
                             ELSE IF p = sweepB THEN east ELSE south]
MCCall == [p \in Passes |-> IF p \in {order, repeat} THEN "start"
                            ELSE IF p = resume THEN "resume" ELSE "sweep"]

ASSUME InstancesDiffer ==
  /\ {north, south, east} \subseteq Instances
  /\ north # south /\ south # east /\ north # east

OnTime == {order, sweepA, sweepB}
Timely == INSTANCE PrimeWorkflow WITH
  Passes <- OnTime,
  Owner <- [p \in OnTime |-> IF p = order THEN north ELSE IF p = sweepA THEN south ELSE east],
  Call <- [p \in OnTime |-> IF p = order THEN "start" ELSE "sweep"],
  NeedAuth <- {}, GiveAuth <- {}, LeaseMs <- 2, SlowPasses <- FALSE, VersionCap <- 20,
  wf <- timelyWf, pc <- timelyPc, cur <- timelyCur, effects <- timelyEffects,
  crashes <- timelyCrashes, stops <- timelyStops

-----------------------------------------------------------------------------

MCInit == part \in Parts /\ Init /\ Timely!Init

InTime(A) == part = "timely" /\ A /\ UNCHANGED <<part, vars>>

MCNext ==
  \/ part = "race" /\ Next /\ UNCHANGED <<part, timelyVars>>
  \/ InTime(Timely!Next)

\* That of PrimeWorkflow, for the workflow whose calls end in time.
MCFairness ==
  /\ \A p \in OnTime : /\ WF_allVars(InTime(Timely!Proceed(p)))
                       /\ WF_allVars(InTime(Timely!StartLoad(p)))
                       /\ WF_allVars(InTime(Timely!SweepList(p)))
  /\ WF_allVars(InTime(Timely!Tick))

MCSafety == MCInit /\ [][MCNext]_allVars
MCSpec == MCSafety /\ MCFairness

-----------------------------------------------------------------------------

\* EffectsMatchRecord and EventuallyOver of calls that end in time: until a
\* crash each step's effect is in the world exactly when the record says that
\* it is complete; a workflow that was started is over in the end, although an
\* instance crashes in it.
TimelyEffects == Timely!EffectsMatchRecord
TimelyOver == part = "timely" => Timely!EventuallyOver

\* The leases of calls that end in time are exclusive: the store implements
\* ExclusiveWork.
TimelyExclusiveWork == Timely!ImplementsExclusiveWork
=============================================================================
