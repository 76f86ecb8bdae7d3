---------------------------- MODULE OutboxRelay ----------------------------
(***************************************************************************)
(* A shop's outbox, the drains that empty it, and the event bus with its   *)
(* resilient delivery behind them.                                         *)
(*   packages/platform-runtime/src/outbox.ts                               *)
(*   packages/contracts/src/sync.ts, drainOutbox                           *)
(*   packages/platform-events/src/inMemoryEventBus.ts, publish             *)
(*   packages/platform-events/src/resilientDelivery.ts                     *)
(*                                                                         *)
(* A drain is a loop over awaits: it stands at `at', with `todo' the       *)
(* entries it has read and not marked yet; as the list is sorted by        *)
(* sequence it is a set here, whose least element is the one at work.      *)
(* Drains may overlap, and nothing keeps the host from starting two.  The  *)
(* outbox and the dead letters are durable ports; drains, and handlers     *)
(* that outlasted their timeout, end with the process.  The ledger of      *)
(* processed events is left out: every publish makes a new event id, so    *)
(* that it has never seen the event.                                       *)
(***************************************************************************)
EXTENDS Integers, Sequences, FiniteSets, FiniteSetsExt

CONSTANTS
  MaxEntries,     \* bound: entries recorded
  Drains,         \* calls of drainOutbox that may be under way
  Readers,        \* the subscriptions of the bus, a sequence: its Set in order
  Wanted,         \* Wanted[r]: the entries whose event type matches r's patterns
  Limit,          \* options.limit of a drain
  MaxTries,       \* policy.maxAttempts of a delivery
  MaxFaults       \* bound: publishes that fail, or whose answer is lost, and
                  \* crashes of the process that drains

Entries == 1 .. MaxEntries

ASSUME RelayAssumption ==
  /\ MaxEntries \in Nat /\ MaxFaults \in Nat
  /\ Limit \in Nat \ {0} /\ MaxTries \in Nat \ {0}
  /\ Readers \in Seq(DOMAIN Wanted)
  /\ DOMAIN Wanted = {Readers[i] : i \in DOMAIN Readers}
  /\ \A r \in DOMAIN Wanted : Wanted[r] \subseteq Entries

VARIABLES
  recorded,    \* `sequence': entries 1 .. recorded are in the outbox
  published,   \* those whose status is `published'; the others are pending
  drain,       \* what each drain is at
  letters,     \* dead letters, as <<reader, entry>>
  zombies      \* handlers still running after their timeout, the same way

\* What the readers have seen of it.
VARIABLES
  given,       \* given[r]: the entries r's handler was called with
  handled,     \* handled[r]: those it returned from
  faults

outboxVars == <<recorded, published>>
readerVars == <<given, handled, letters, zombies>>
relayVars == <<recorded, published, drain, letters, zombies, given, handled,
               faults>>

\* at: "idle", "publish", "handler" (awaiting one), "backoff", "answer".
\* to: the subscription being served, by its place; tries: its `attempt'.
Idle == [at |-> "idle", todo |-> {}, to |-> 0, tries |-> 0]

RelayInit ==
  /\ recorded = 0 /\ published = {}
  /\ drain = [d \in Drains |-> Idle]
  /\ letters = {} /\ zombies = {}
  /\ given = [r \in DOMAIN Wanted |-> {}]
  /\ handled = [r \in DOMAIN Wanted |-> {}]
  /\ faults = 0

Current(d) == Min(drain[d].todo)
Reader(d) == Readers[drain[d].to]

-----------------------------------------------------------------------------
(* The outbox                                                              *)

RecordEntry ==
  /\ recorded < MaxEntries
  /\ recorded' = recorded + 1
  /\ UNCHANGED <<published, drain, readerVars, faults>>

Pending == (1 .. recorded) \ published

\* `pending(limit)': the oldest.
Batch == {e \in Pending : Cardinality({f \in Pending : f < e}) < Limit}

StartDrain(d) ==
  /\ drain[d].at = "idle"
  /\ Pending # {}
  /\ drain' = [drain EXCEPT ![d] = [Idle EXCEPT !.at = "publish", !.todo = Batch]]
  /\ UNCHANGED <<outboxVars, readerVars, faults>>

\* Mutant: a failed entry is skipped, and the drain goes on with the next.
HaltedSkipping(d) ==
  LET rest == drain[d].todo \ {Current(d)} IN
  IF rest = {} THEN Idle ELSE [Idle EXCEPT !.at = "publish", !.todo = rest]

\* The drain stops at the first failure; markFailed leaves the entry pending.
Halted(d) == Idle

\* The publish fails before anything is delivered, or between two deliveries
\* (a dead letter that cannot be recorded), or its answer is lost.
PublishFails(d) ==
  /\ drain[d].at \in {"publish", "handler", "answer"}
  /\ faults < MaxFaults
  /\ faults' = faults + 1
  /\ drain' = [drain EXCEPT ![d] = Halted(d)]
  /\ UNCHANGED <<outboxVars, readerVars>>

MarkPublished(d) ==
  LET rest == drain[d].todo \ {Current(d)} IN
  /\ drain[d].at = "answer"
  /\ published' = published \cup {Current(d)}
  /\ drain' = [drain EXCEPT ![d] =
       IF rest = {} THEN Idle ELSE [Idle EXCEPT !.at = "publish", !.todo = rest]]
  /\ UNCHANGED <<recorded, readerVars, faults>>

-----------------------------------------------------------------------------
(* The bus: one subscription after the other, each awaited                 *)

\* Where the delivery goes after the subscription at place n: to the next one
\* that wants the entry, whose handler is called, or back to the drain.
After(d, n) ==
  LET wants == {i \in DOMAIN Readers : i > n /\ Current(d) \in Wanted[Readers[i]]} IN
  IF wants = {} THEN [drain[d] EXCEPT !.at = "answer", !.to = 0, !.tries = 0]
  ELSE [drain[d] EXCEPT !.at = "handler", !.to = Min(wants), !.tries = 1]

\* The drain goes on as `next' says, and the handler it calls, if any, sees the entry.
GoOn(d, next) ==
  /\ drain' = [drain EXCEPT ![d] = next]
  /\ given' = IF next.at = "handler"
              THEN [given EXCEPT ![Readers[next.to]] = @ \cup {Current(d)}]
              ELSE given
  /\ UNCHANGED <<outboxVars, faults>>

Publish(d) ==
  /\ drain[d].at = "publish"
  /\ GoOn(d, After(d, 0))
  /\ UNCHANGED <<handled, letters, zombies>>

HandlerReturns(d) ==
  /\ drain[d].at = "handler"
  /\ handled' = [handled EXCEPT ![Reader(d)] = @ \cup {Current(d)}]
  /\ GoOn(d, After(d, drain[d].to))
  /\ UNCHANGED <<letters, zombies>>

DeadLetter(d) == letters \cup {<<Reader(d), Current(d)>>}

\* An attempt has failed: transient failures are tried again after a backoff,
\* as often as the policy says; the rest is dead-lettered.
AttemptFailed(d, transient) ==
  IF transient /\ drain[d].tries < MaxTries
  THEN GoOn(d, [drain[d] EXCEPT !.at = "backoff"]) /\ UNCHANGED letters
  ELSE letters' = DeadLetter(d) /\ GoOn(d, After(d, drain[d].to))

HandlerThrows(d) ==
  /\ drain[d].at = "handler"
  /\ \E transient \in BOOLEAN : AttemptFailed(d, transient)
  /\ UNCHANGED <<handled, zombies>>

\* A timeout counts as a transient failure; the handler keeps running.
HandlerTimesOut(d) ==
  /\ drain[d].at = "handler"
  /\ AttemptFailed(d, TRUE)
  /\ zombies' = zombies \cup {<<Reader(d), Current(d)>>}
  /\ UNCHANGED handled

\* Mutant: a retry is not counted.
NextTrySame(d) == drain[d].tries

NextTry(d) == drain[d].tries + 1

Retry(d) ==
  /\ drain[d].at = "backoff"
  /\ GoOn(d, [drain[d] EXCEPT !.at = "handler", !.tries = NextTry(d)])
  /\ UNCHANGED <<handled, letters, zombies>>

\* A handler nobody waits for any more returns, or throws into nothing.
ZombieEnds(z) ==
  /\ z \in zombies
  /\ zombies' = zombies \ {z}
  /\ \/ handled' = [handled EXCEPT ![z[1]] = @ \cup {z[2]}]
     \/ UNCHANGED handled
  /\ UNCHANGED <<outboxVars, drain, letters, given, faults>>

HostCrash ==
  /\ faults < MaxFaults
  /\ \E d \in Drains : drain[d].at # "idle"
  /\ faults' = faults + 1
  /\ drain' = [d \in Drains |-> Idle]
  /\ zombies' = {}
  /\ UNCHANGED <<outboxVars, letters, given, handled>>

-----------------------------------------------------------------------------

\* What a drain under way does next.
DrainStep(d) ==
  \/ PublishFails(d) \/ MarkPublished(d) \/ Publish(d)
  \/ HandlerReturns(d) \/ HandlerThrows(d) \/ HandlerTimesOut(d) \/ Retry(d)

RelayNext ==
  \/ RecordEntry \/ HostCrash
  \/ \E d \in Drains : StartDrain(d) \/ DrainStep(d)
  \/ \E z \in zombies : ZombieEnds(z)

RelaySpec == RelayInit /\ [][RelayNext]_relayVars

-----------------------------------------------------------------------------
(* Properties                                                              *)

RelayTypeOK ==
  /\ recorded \in 0 .. MaxEntries
  /\ published \subseteq 1 .. recorded
  /\ drain \in [Drains -> [at : {"idle", "publish", "handler", "backoff", "answer"},
                           todo : SUBSET (1 .. recorded),
                           to : 0 .. Len(Readers), tries : 0 .. MaxTries]]
  /\ \A d \in Drains :
       /\ (drain[d].todo = {}) <=> (drain[d].at = "idle")
       /\ drain[d].at \in {"handler", "backoff"} <=> drain[d].to # 0
  /\ letters \subseteq (DOMAIN Wanted) \X Entries
  /\ zombies \subseteq (DOMAIN Wanted) \X Entries
  /\ given \in [DOMAIN Wanted -> SUBSET Entries]
  /\ handled \in [DOMAIN Wanted -> SUBSET Entries]
  /\ faults \in 0 .. MaxFaults

\* The outbox and the bus behind it give every consumer the events in the
\* order they were recorded ("events must reach the far side in the order the
\* shop produced them"), over overlapping drains, failed and repeated
\* publishes, handlers that outlast their timeout and crashes; and no entry is
\* marked published before every consumer has handled it, or a dead letter of
\* it is on record for that consumer.
Feed == INSTANCE OrderedFeed
  WITH Readers <- DOMAIN Wanted,
       answered <- [r \in DOMAIN Wanted |->
                      handled[r] \cup {e \in Entries : <<r, e>> \in letters}],
       settled <- published
ImplementsOrderedFeed == Feed!Spec

\* What was recorded during an outage is published in the end.
EverythingPublished == \A e \in Entries : (recorded >= e) ~> (e \in published)
=============================================================================
