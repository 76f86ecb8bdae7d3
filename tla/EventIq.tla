------------------------------ MODULE EventIq ------------------------------
(***************************************************************************)
(* EventIQ, the event backbone: an append-only log, one checkpoint per     *)
(* consumer group, one delivery attempt per message and subscription, an   *)
(* inbox of the operations a group has performed, dead letters, replays.   *)
(*   packages/eventiq/src/eventiq.ts, store.ts                             *)
(*   packages/contracts/src/delivery.ts                                    *)
(*                                                                         *)
(* Every call is synchronous, so every call is one action.  The store is a *)
(* durable one: a restart of the host loses the subscriptions and the      *)
(* replay counter, which the engine keeps for itself.  Calls that are      *)
(* refused, and a message published again, change nothing and are left out.*)
(***************************************************************************)
EXTENDS Integers, Sequences, FiniteSets

CONSTANTS
  Messages,     \* message ids
  Subs,         \* subscription ids
  Groups,       \* consumer groups
  GroupOf,      \* GroupOf[s]: consumerGroup
  Receives,     \* Receives[s]: the messages whose tenant and type s matches
  KeyOf,        \* KeyOf[m]: orderingKey
  OpOf,         \* OpOf[m]: idempotencyKey
  NoKey, NoOp,  \* ... when the message has none
  Ordered,      \* the subscriptions whose expectation.ordering is not `none'
  AtMostOnce,   \* those whose expectation.guarantee is at-most-once
  Expiring,     \* those whose expectation has an expiresAt
  Tries,        \* Tries[s]: expectation.maxAttempts
  Idempotent,   \* the subscriptions declared idempotent
  Limit,        \* the `limit' of a poll
  InOrder,      \* do consumers answer in the order of the log?
  MaxRestarts,  \* bound: restarts of the host
  MaxReplays    \* bound: replays

ASSUME EventIqAssumption ==
  /\ GroupOf \in [Subs -> Groups]
  /\ Receives \in [Subs -> SUBSET Messages]
  /\ Ordered \subseteq Subs /\ AtMostOnce \subseteq Subs
  /\ Expiring \subseteq Subs /\ Idempotent \subseteq Subs
  /\ Tries \in [Subs -> Nat \ {0}]
  /\ \A s \in AtMostOnce : Tries[s] = 1
  /\ Limit \in Nat \ {0} /\ MaxRestarts \in Nat /\ MaxReplays \in Nat
  /\ InOrder \in BOOLEAN

\* The store.
VARIABLES
  log,        \* the accepted events, in sequence
  offset,     \* the checkpoint of each group; None is `null'
  attempt,    \* attempt[s][m]: state and number of the delivery of m to s
  inbox,      \* inbox[g]: the operations that g has performed
  replays     \* the replay sessions recorded

\* The engine's own memory, and the clock.
VARIABLES
  subs,       \* the subscriptions
  replaySeq,  \* numbers the replays
  expired     \* the subscriptions whose expiresAt has passed

\* History, and the count behind a bound.
VARIABLES
  since,      \* since[s]: how long the log was when s first subscribed
  restarts

store == <<log, offset, attempt, inbox, replays>>
eventVars == <<store, subs, replaySeq, expired, since, restarts>>

None == -1
Unseen == [state |-> "none", n |-> 0]
States == {"none", "delivered", "acknowledged", "retrying",
           "dead_lettered", "expired"}

EventInit ==
  /\ log = <<>>
  /\ offset = [g \in Groups |-> None]
  /\ attempt = [s \in Subs |-> [m \in Messages |-> Unseen]]
  /\ inbox = [g \in Groups |-> {}]
  /\ replays = <<>>
  /\ subs = {}
  /\ replaySeq = 0
  /\ expired = {}
  /\ since = [s \in Subs |-> None]
  /\ restarts = 0

Accepted == {log[i] : i \in DOMAIN log}
PlaceOf(m) == CHOOSE i \in DOMAIN log : log[i] = m
Checkpoint(s) == offset[GroupOf[s]]

(***************************************************************************)
(* publish, subscribe.  A message id is accepted once.  A group that has   *)
(* no checkpoint starts at the head.                                       *)
(***************************************************************************)
Publish(m) ==
  /\ m \notin Accepted
  /\ log' = Append(log, m)
  /\ UNCHANGED <<offset, attempt, inbox, replays, subs, replaySeq, expired,
                 since, restarts>>

\* Mutant: every subscription starts at the head.
StartAtHead(s) == Len(log)

Start(s) == IF Checkpoint(s) = None THEN Len(log) ELSE Checkpoint(s)

Subscribe(s) ==
  /\ s \notin subs
  /\ subs' = subs \cup {s}
  /\ offset' = [offset EXCEPT ![GroupOf[s]] = Start(s)]
  /\ since' = [since EXCEPT ![s] = IF @ = None THEN Len(log) ELSE @]
  /\ UNCHANGED <<log, attempt, inbox, replays, replaySeq, expired, restarts>>

(***************************************************************************)
(* poll.  Pending: the places of the log from the checkpoint on that are   *)
(* neither answered nor performed already.  Heads: of those, the ones that *)
(* no pending event of their ordering key precedes.  The checkpoint stays. *)
(***************************************************************************)
\* Mutant: the inbox goes by message, not by operation.
ProcessedSame(s, m) ==
  \E r \in Subs : GroupOf[r] = GroupOf[s] /\ attempt[r][m].state = "acknowledged"

Processed(s, m) == OpOf[m] # NoOp /\ OpOf[m] \in inbox[GroupOf[s]]

Pending(s) ==
  {i \in Checkpoint(s) + 1 .. Len(log) :
     /\ log[i] \in Receives[s]
     /\ attempt[s][log[i]].state \notin {"dead_lettered", "acknowledged"}
     /\ ~ Processed(s, log[i])}

\* Mutant: the ordering keys are not looked at.
HeadsUnordered(s) == Pending(s)

Heads(s) ==
  {i \in Pending(s) :
     \/ s \notin Ordered
     \/ KeyOf[log[i]] = NoKey
     \/ \A j \in Pending(s) : j < i => KeyOf[log[j]] # KeyOf[log[i]]}

First(S, n) == {i \in S : Cardinality({j \in S : j < i}) < n}

\* What a poll returns, and what the delivery of m to s becomes.  The engine
\* asks only whether attempts are fewer than maxAttempts: one above is as
\* good as any more.
Polled(s) ==
  IF s \in expired THEN {} ELSE {log[i] : i \in First(Heads(s), Limit)}
Lapsed(s) == IF s \in expired THEN {log[i] : i \in Heads(s)} ELSE {}

Less(a, b) == IF a < b THEN a ELSE b
Counted(s, n) == Less(n + 1, Tries[s] + 1)

Poll(s) ==
  /\ s \in subs
  /\ attempt' = [attempt EXCEPT ![s] =
       [m \in Messages |->
          IF m \in Polled(s)
            THEN [state |-> "delivered", n |-> Counted(s, attempt[s][m].n)]
          ELSE IF m \in Lapsed(s)
            THEN [attempt[s][m] EXCEPT !.state = "expired"]
          ELSE attempt[s][m]]]
  /\ UNCHANGED <<log, offset, inbox, replays, subs, replaySeq, expired,
                 since, restarts>>

(***************************************************************************)
(* acknowledge, by the outcome that the consumer reports.  The engine asks *)
(* only that m was delivered to s at some time.  A consumer that answers   *)
(* in order answers each delivery once, the oldest of its open ones.       *)
(***************************************************************************)
Open(s, m) == attempt[s][m].state \in {"delivered", "retrying"}

MayAnswer(s, m) ==
  /\ s \in subs
  /\ attempt[s][m] # Unseen
  /\ InOrder =>
       /\ attempt[s][m].state = "delivered"
       /\ \A i \in 1 .. PlaceOf(m) - 1 : ~ Open(s, log[i])

Marked(s, m, st) == [attempt EXCEPT ![s][m].state = st]

\* Mutant: the checkpoint moves to the head of the log.
AdvancedToHead(c, i) == Len(log)

Advanced(c, i) == IF i > c THEN i ELSE c

Accept(s, m) ==
  /\ MayAnswer(s, m)
  /\ attempt' = Marked(s, m, "acknowledged")
  /\ offset' = [offset EXCEPT ![GroupOf[s]] = Advanced(@, PlaceOf(m))]
  /\ inbox' = [inbox EXCEPT ![GroupOf[s]] = @ \cup ({OpOf[m]} \ {NoOp})]
  /\ UNCHANGED <<log, replays, subs, replaySeq, expired, since, restarts>>

\* shouldRetry, for an answer of `deferred'.
\* Mutant: maxAttempts is not looked at.
ShouldRetryAlways(s, m) == s \notin AtMostOnce

ShouldRetry(s, m) == s \notin AtMostOnce /\ attempt[s][m].n < Tries[s]

Defer(s, m) ==
  /\ MayAnswer(s, m)
  /\ attempt' = Marked(s, m, IF ShouldRetry(s, m) THEN "retrying" ELSE "dead_lettered")
  /\ UNCHANGED <<log, offset, inbox, replays, subs, replaySeq, expired,
                 since, restarts>>

Reject(s, m) ==
  /\ MayAnswer(s, m)
  /\ attempt' = Marked(s, m, "dead_lettered")
  /\ UNCHANGED <<log, offset, inbox, replays, subs, replaySeq, expired,
                 since, restarts>>

(***************************************************************************)
(* resolveDeadLetter: `redeliver'.  (`discard' only appends to a reason.)  *)
(* It looks for an attempt, not for a subscription.                        *)
(***************************************************************************)
ResolveDeadLetter(s, m) ==
  /\ attempt[s][m].state = "dead_lettered"
  /\ attempt' = Marked(s, m, "retrying")
  /\ UNCHANGED <<log, offset, inbox, replays, subs, replaySeq, expired,
                 since, restarts>>

(***************************************************************************)
(* replay: a session of its own, and nothing else that the store keeps.    *)
(***************************************************************************)
Replay(s) ==
  /\ s \in subs /\ s \in Idempotent
  /\ Len(replays) < MaxReplays
  /\ replaySeq' = replaySeq + 1
  /\ replays' = Append(replays, [id |-> replaySeq', sub |-> s])
  /\ UNCHANGED <<log, offset, attempt, inbox, subs, expired, since, restarts>>

\* The clock passes the expiresAt of s.
Expire(s) ==
  /\ s \in Expiring \ expired
  /\ expired' = expired \cup {s}
  /\ UNCHANGED <<store, subs, replaySeq, since, restarts>>

Restart ==
  /\ restarts < MaxRestarts
  /\ restarts' = restarts + 1
  /\ subs' = {}
  /\ replaySeq' = 0
  /\ UNCHANGED <<store, expired, since>>

Answer(s, m) == Accept(s, m) \/ Defer(s, m) \/ Reject(s, m)

\* What producers, hosts and consumers do.
ConsumerNext ==
  \/ \E m \in Messages : Publish(m)
  \/ \E s \in Subs :
       \/ Subscribe(s)
       \/ Poll(s)
       \/ Replay(s)
       \/ Expire(s)
       \/ \E m \in Messages : Answer(s, m)
  \/ Restart

\* The same, and operators who send dead letters again.
EventNext == ConsumerNext \/ \E s \in Subs, m \in Messages : ResolveDeadLetter(s, m)

ConsumerSpec == EventInit /\ [][ConsumerNext]_eventVars
EventSpec == EventInit /\ [][EventNext]_eventVars

\* A host subscribes its consumers again after a restart; a consumer keeps
\* polling, and in the end answers what it was given.
EventFairness ==
  \A s \in Subs :
    /\ WF_eventVars(Subscribe(s))
    /\ WF_eventVars(Poll(s))
    /\ \A m \in Messages : WF_eventVars(Answer(s, m))

EventFairSpec == ConsumerSpec /\ EventFairness
-----------------------------------------------------------------------------
\* Each variable keeps its type; no id is accepted twice, and no checkpoint
\* lies past the end of the log.
EventTypeOK ==
  /\ log \in Seq(Messages) /\ Cardinality(Accepted) = Len(log)
  /\ offset \in [Groups -> None .. Len(log)]
  /\ attempt \in [Subs -> [Messages -> [state : States, n : Nat]]]
  /\ \A s \in Subs, m \in Messages : attempt[s][m].n <= Tries[s] + 1
  /\ inbox \in [Groups -> SUBSET {OpOf[m] : m \in Messages}]
  /\ replays \in Seq([id : Nat, sub : Subs])
  /\ subs \subseteq Subs /\ expired \subseteq Expiring
  /\ replaySeq \in Nat /\ restarts \in 0 .. MaxRestarts
  /\ since \in [Subs -> None .. Len(log)]

\* m was published for s after it subscribed.
Owed(s, m) ==
  m \in Accepted /\ m \in Receives[s] /\ since[s] # None /\ PlaceOf(m) > since[s]

Settled(s, m) ==
  \/ Processed(s, m)
  \/ \E r \in Subs :
       /\ GroupOf[r] = GroupOf[s]
       /\ attempt[r][m].state \in {"acknowledged", "dead_lettered", "expired"}

\* What the checkpoint of a group passes, of the events that were published for
\* a subscription of it, the group has answered: what is below the checkpoint is
\* never polled again.
PassesOnlySettled(s) ==
  since[s] # None =>
    \A i \in since[s] + 1 .. Checkpoint(s) :
      log[i] \in Receives[s] => Settled(s, log[i])

\* At-least-once, for a subscription that does not ask for order.
NoLoss == \A s \in Subs \ Ordered : PassesOnlySettled(s)

\* A delivery that the engine said would be made again can be made again: a
\* poll of its subscription still reaches it, unless its operation is done.
RetryReachable ==
  \A s \in Subs, m \in Messages :
    attempt[s][m].state = "retrying" =>
      PlaceOf(m) > Checkpoint(s) \/ Processed(s, m)

Delivers(s, m) ==
  /\ attempt'[s][m].state = "delivered"
  /\ attempt'[s][m] # attempt[s][m]

\* FIFO within an ordering key: an event is not delivered to an ordered
\* subscription while an earlier one of its key is open there, unless the
\* operation of that one is done.
FifoStep ==
  \A s \in Ordered, m \in Messages :
    (KeyOf[m] # NoKey /\ Delivers(s, m)) =>
      \A i \in 1 .. PlaceOf(m) - 1 :
        KeyOf[log[i]] = KeyOf[m] => ~ Open(s, log[i])' \/ Processed(s, log[i])
FifoWithinKey == [][FifoStep]_eventVars

\* An operation that a consumer group has performed is not delivered to any
\* subscription of the group again, whichever message describes it.
SuppressedStep ==
  \A s \in Subs, m \in Messages :
    Delivers(s, m) =>
      ~ \E k \in Accepted, r \in Subs :
          /\ OpOf[k] # NoOp /\ OpOf[k] = OpOf[m]
          /\ GroupOf[r] = GroupOf[s]
          /\ attempt[r][k].state = "acknowledged"
OnceAccepted == [][SuppressedStep]_eventVars

\* What is published for a subscription is in the end answered or performed
\* already, or its subscription has expired.  Not for an ordered one, whose
\* events a checkpoint may pass unanswered: NoLossInOrder.
EventuallySettled ==
  \A s \in Subs \ Ordered, m \in Messages : Owed(s, m) ~> Settled(s, m) \/ s \in expired

\* At-least-once for a subscription that asks for order: asking for it gives
\* nothing up.
NoLossInOrder == \A s \in Ordered : PassesOnlySettled(s)
=============================================================================
