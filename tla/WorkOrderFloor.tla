--------------------------- MODULE WorkOrderFloor ---------------------------
(***************************************************************************)
(* One routed work order of WorkOrderIQ: its event log, the summary that   *)
(* is projected from it, and the people who act on what they read.         *)
(*   packages/workorderiq/src/core/taskflow, core/tracking, core/terminal, *)
(*   core/logging/inMemoryEventLog.ts,                                     *)
(*   projections/createWorkOrderSummaryProjection.ts and its reducer       *)
(*                                                                         *)
(* The use cases keep nothing: each judges a command by the snapshot its   *)
(* caller passes and appends one event.  A caller's snapshot is what it    *)
(* last read, with its own commands applied, and may be behind the log.    *)
(* The log begins after intake and routing.  Minutes, estimates, ETA       *)
(* events, stations, reroutes and change orders are left out.              *)
(***************************************************************************)
EXTENDS Integers, Sequences, FiniteSets, SequencesExt

CONSTANTS
  Steps, DependsOn,  \* DependsOn[s]: steps
  Optional, QcSteps, \* steps that may be skipped; steps of class quality_check
  Users,
  FirstLog,          \* what the log already has
  MaxEvents          \* bound: events in the log

ASSUME FloorAssumption ==
  /\ DependsOn \in [Steps -> SUBSET Steps]
  /\ Optional \subseteq Steps /\ QcSteps \subseteq Steps
  /\ MaxEvents \in Nat

VARIABLES
  log,    \* the events, by sequence number
  cache,  \* the projection's cached summary, or {} without one
  reads,  \* reads[u]: what a get under way started from, or {}
  view    \* view[u]: the summary u acts on

floorVars == <<log, cache, reads, view>>

Milestones == <<"intake", "routed", "in_production", "quality_check",
                "ready_for_pickup", "completed">>
MilestoneIndex(milestone) == CHOOSE n \in DOMAIN Milestones : Milestones[n] = milestone

\* The WorkOrderSummary of a work order that has only been routed; `last' counts
\* the events since.
Routed ==
  [states |-> [s \in Steps |-> "pending"], pauses |-> 0, milestone |-> "intake",
   terminal |-> "none", last |-> 0]

-----------------------------------------------------------------------------
(* Events and the summary they are folded into                             *)

\* An event, with what it is about: a step, a change order, a milestone.
Event(type, about) == [type |-> type, about |-> about]

\* The state a step is in after each of its events; annotations change none.
StateAfter ==
  [ready |-> "ready", started |-> "in_progress", paused |-> "paused",
   resumed |-> "in_progress", completed |-> "completed", blocked |-> "blocked"]

\* applyEvent
Applied(summary, event) ==
  CASE event.type \in DOMAIN StateAfter ->
         [summary EXCEPT !.states[event.about] = StateAfter[event.type],
                         !.pauses = summary.pauses + IF event.type = "paused" THEN 1 ELSE 0]
    [] event.type = "milestone" -> [summary EXCEPT !.milestone = event.about]
    [] event.type = "order" -> [summary EXCEPT !.terminal = event.about]
    [] OTHER -> summary

\* reduceWorkOrderSummary, of event n
Reduced(summary, event, n) == [Applied(summary, event) EXCEPT !.last = n]

\* ... over events a + 1 to b
Folded(events, summary, a, b) ==
  LET after[n \in 0 .. b] ==
        IF n <= a THEN summary ELSE Reduced(after[n - 1], events[n], n)
  IN after[b]

FloorEvents ==
  {Event(type, s) : type \in DOMAIN StateAfter \cup {"annotated"}, s \in Steps}
  \cup {Event("milestone", milestone) : milestone \in ToSet(Milestones)}
  \cup {Event("order", terminal) : terminal \in {"completed", "cancelled"}}

\* The events of a step come after the completion of all it depends on, the end
\* of the work order and of its milestones after that of what they stand on.
InDependencyOrder(events) ==
  LET Before(n, s) == \E m \in 1 .. n - 1 : events[m] = Event("completed", s) IN
  \A n \in DOMAIN events :
    /\ events[n].type \in DOMAIN StateAfter
         => \A d \in DependsOn[events[n].about] : Before(n, d)
    /\ events[n] \in {Event("order", "completed"), Event("milestone", "ready_for_pickup"),
                      Event("milestone", "completed")}
         => \A s \in Steps \ Optional : Before(n, s)

ASSUME FirstLogAssumption ==
  FirstLog \in Seq(FloorEvents) /\ Len(FirstLog) <= MaxEvents /\ InDependencyOrder(FirstLog)

FloorInit ==
  /\ log = FirstLog
  /\ cache = {}
  /\ reads = [u \in Users |-> {}]
  /\ view = [u \in Users |-> Folded(log, Routed, 0, Len(log))]

-----------------------------------------------------------------------------
(* The projection                                                          *)

\* get: what is cached now is what the answer will be folded onto.
CallGet(u) ==
  /\ reads[u] = {}
  /\ reads' = [reads EXCEPT ![u] = {[base |-> cache, from |-> Len(log)]}]
  /\ UNCHANGED <<log, cache, view>>

\* refresh: the same without a cache.
CallRefresh(u) ==
  /\ reads[u] = {}
  /\ cache' = {}
  /\ reads' = [reads EXCEPT ![u] = {[base |-> {}, from |-> Len(log)]}]
  /\ UNCHANGED <<log, view>>

\* Mutant: the last event that is cached counts as new.
TailFromLast(base) == IF base.last > 0 THEN base.last - 1 ELSE 0

\* Where the tail of a cached summary begins.
TailFrom(base) == base.last

\* buildFromScratch and catchUp, when the log answers with its first n events.
AnswerGet(u) ==
  \E read \in reads[u], n \in 0 .. Len(log) :
    /\ n >= read.from
    /\ \/ /\ read.base = {}
          /\ cache' = {Folded(log, Routed, 0, n)}
          /\ view' = [view EXCEPT ![u] = Folded(log, Routed, 0, n)]
       \/ \E base \in read.base :
            LET result == Folded(log, base, TailFrom(base), n) IN
            /\ cache' = IF n > TailFrom(base) THEN {result} ELSE cache
            /\ view' = [view EXCEPT ![u] = result]
    /\ reads' = [reads EXCEPT ![u] = {}]
    /\ UNCHANGED log

Invalidate ==
  /\ cache # {}
  /\ cache' = {}
  /\ UNCHANGED <<log, reads, view>>

-----------------------------------------------------------------------------
(* Commands                                                                *)

\* An event is appended, and its caller hears of it or not.
AppendEvent(u, event) ==
  /\ Len(log) < MaxEvents
  /\ log' = Append(log, event)
  /\ view' = [view EXCEPT ![u] = Applied(@, event)] \/ UNCHANGED view
  /\ UNCHANGED <<cache, reads>>

\* Mutant: dependencies that have been started will do.
DependenciesStarted(u, s) == \A d \in DependsOn[s] : view[u].states[d] # "pending"

\* areDependenciesSatisfied
DependenciesSatisfied(u, s) == \A d \in DependsOn[s] : view[u].states[d] = "completed"

\* TRANSITIONS, and the event that each command emits.
Commands ==
  {[from |-> {"ready"}, emits |-> "started"], [from |-> {"in_progress"}, emits |-> "paused"],
   [from |-> {"paused"}, emits |-> "resumed"], [from |-> {"in_progress"}, emits |-> "completed"],
   [from |-> {"ready", "in_progress", "paused"}, emits |-> "blocked"],
   [from |-> {"blocked"}, emits |-> "ready"], [from |-> {"blocked"}, emits |-> "resumed"]}

MarkReady(u, s) ==
  /\ view[u].states[s] = "pending"
  /\ DependenciesSatisfied(u, s)
  /\ AppendEvent(u, Event("ready", s))

AdvanceStep(u, s) ==
  \E command \in Commands :
    /\ view[u].states[s] \in command.from
    /\ AppendEvent(u, Event(command.emits, s))

\* flag_issue and log_rework, in any state.
Annotate(u, s) == AppendEvent(u, Event("annotated", s))

AllCompleted(u, S) == \A s \in S : view[u].states[s] = "completed"

\* deriveMilestone
Milestone(u) ==
  LET required == Steps \ Optional
      qc == required \cap QcSteps
  IN CASE AllCompleted(u, Steps) -> "completed"
       [] required # {} /\ AllCompleted(u, required) -> "ready_for_pickup"
       [] qc # {} /\ AllCompleted(u, required \ qc) -> "quality_check"
       [] \E s \in Steps : view[u].states[s] \notin {"pending", "ready"} -> "in_production"
       [] OTHER -> "routed"

\* Only forward of the milestone the caller knows of.
AdvanceMilestone(u) ==
  /\ MilestoneIndex(Milestone(u)) > MilestoneIndex(view[u].milestone)
  /\ AppendEvent(u, Event("milestone", Milestone(u)))

\* canComplete
CompleteOrder(u) ==
  /\ view[u].terminal = "none"
  /\ AllCompleted(u, Steps \ Optional)
  /\ AppendEvent(u, Event("order", "completed"))

CancelOrder(u) ==
  /\ view[u].terminal = "none"
  /\ view[u].milestone # "completed"
  /\ AppendEvent(u, Event("order", "cancelled"))

-----------------------------------------------------------------------------

FloorNext ==
  \/ \E u \in Users :
       \/ CallGet(u) \/ CallRefresh(u) \/ AnswerGet(u)
       \/ \E s \in Steps : MarkReady(u, s) \/ AdvanceStep(u, s) \/ Annotate(u, s)
       \/ AdvanceMilestone(u) \/ CompleteOrder(u) \/ CancelOrder(u)
  \/ Invalidate

FloorSpec == FloorInit /\ [][FloorNext]_floorVars

-----------------------------------------------------------------------------
(* Properties                                                              *)

Summary ==
  [states : [Steps -> Range(StateAfter) \cup {"pending"}],
   pauses : 0 .. Len(log), milestone : ToSet(Milestones),
   terminal : {"none", "completed", "cancelled"}, last : 0 .. Len(log)]

FloorTypeOK ==
  /\ log \in Seq(FloorEvents) /\ Len(log) <= MaxEvents
  /\ \A s \in cache : s \in Summary
  /\ Cardinality(cache) <= 1
  /\ view \in [Users -> Summary]
  /\ \A u \in Users : \A read \in reads[u] : read.from <= Len(log) /\ read.base \subseteq Summary

\* However gets, refreshes and invalidations overlap, what is cached is what a
\* replay of the first events gives: none of them lost, none applied twice.
CacheIsAReplay == \A summary \in cache : summary = Folded(log, Routed, 0, summary.last)

\* No step is made ready or worked on before the log says that all it depends
\* on is completed, no milestone is announced and no work order completed
\* before the steps it stands on, whoever acts on however old a snapshot.
DependenciesFirst == InDependencyOrder(log)
=============================================================================
