------------------------- MODULE CoordinationProofs -------------------------
(***************************************************************************)
(* What is proved of the replicas that activate one topology and of        *)
(* EventIQ, and of all that coordinates side by side.                      *)
(***************************************************************************)
EXTENDS MCCoordination, WorkflowProofs, StockProofs

-----------------------------------------------------------------------------
(***************************************************************************)
(* One topology per epoch, for any replicas, versions and epochs.  A vote  *)
(* is a promise: a replica has seen every epoch it voted in, so that it    *)
(* votes once in each; and two majorities of the configured set have a     *)
(* member in common.                                                       *)
(***************************************************************************)

\* A replica has seen the epochs in which it voted, and voted once in each.
Promised ==
  /\ \A v \in votes : v.epoch <= seen[v.by]
  /\ \A v, w \in votes : v.by = w.by /\ v.epoch = w.epoch => v.version = w.version

\* What is committed was voted for by a quorum, and replicas act on it only.
Founded ==
  /\ \A c \in commits : Cardinality(Valid(c.epoch, c.version)) >= QuorumSize
  /\ \A r \in Replicas : active[r] \in commits \cup {NotActive}

ConsensusInv == ConsensusTypeOK /\ Promised /\ Founded

-----------------------------------------------------------------------------

\* More than half of the configured replicas, twice, have one in common.
LEMMA QuorumsMeet ==
  ASSUME NEW S, NEW T, S \subseteq Replicas, T \subseteq Replicas,
         Cardinality(S) >= QuorumSize, Cardinality(T) >= QuorumSize
  PROVE  S \cap T # {}
  <1>1. IsFiniteSet(Replicas) /\ IsFiniteSet(S) /\ IsFiniteSet(T)
    BY ConsensusAssumption, FS_Subset
  <1>2. /\ Cardinality(Replicas) \in Nat
        /\ Cardinality(S) \in Nat /\ Cardinality(T) \in Nat
    BY <1>1, FS_CardinalityType
  <1>3. Cardinality(S) + Cardinality(T) > Cardinality(Replicas)
    BY <1>2 DEF QuorumSize
  <1>4. QED
    BY <1>1, <1>3, FS_MajoritiesIntersect

\* Those whose valid vote a proposal has voted for it.
LEMMA ValidVoted ==
  ASSUME NEW epoch, NEW version, NEW r \in Valid(epoch, version)
  PROVE  /\ r \in Replicas
         /\ \E v \in votes : v.by = r /\ v.epoch = epoch /\ v.version = version
  BY ConsensusAssumption DEF Valid, Granted

\* Two proposals of one epoch with a quorum each are one proposal.
LEMMA OneQuorumPerEpoch ==
  ASSUME Promised, NEW epoch, NEW a, NEW b,
         Cardinality(Valid(epoch, a)) >= QuorumSize,
         Cardinality(Valid(epoch, b)) >= QuorumSize
  PROVE  a = b
  <1>1. Valid(epoch, a) \subseteq Replicas /\ Valid(epoch, b) \subseteq Replicas
    BY DEF Valid
  <1>2. PICK r \in Valid(epoch, a) : r \in Valid(epoch, b)
    BY <1>1, QuorumsMeet
  <1>3. PICK v \in votes : v.by = r /\ v.epoch = epoch /\ v.version = a
    BY <1>2, ValidVoted
  <1>4. PICK w \in votes : w.by = r /\ w.epoch = epoch /\ w.version = b
    BY <1>2, ValidVoted
  <1>5. QED
    BY <1>3, <1>4 DEF Promised

\* Votes only add to what a proposal has.
LEMMA ValidGrows ==
  ASSUME NEW epoch, NEW version, ConsensusTypeOK, votes \subseteq votes'
  PROVE  /\ Cardinality(Valid(epoch, version)') \in Nat
         /\ Cardinality(Valid(epoch, version)') >= Cardinality(Valid(epoch, version))
  <1>1. Valid(epoch, version) \subseteq Valid(epoch, version)'
    BY DEF Valid, Granted
  <1>2. IsFiniteSet(Valid(epoch, version)')
    BY ConsensusAssumption, FS_Intersection DEF Valid
  <1>3. QED
    BY <1>1, <1>2, FS_Subset, FS_CardinalityType

-----------------------------------------------------------------------------

LEMMA ConsensusInitInv == ConsensusInit => ConsensusInv
  BY ConsensusAssumption
  DEF ConsensusInit, ConsensusInv, ConsensusTypeOK, Promised, Founded, NotActive

LEMMA ConsensusNextInv == ConsensusInv /\ [ConsensusNext]_consensusVars => ConsensusInv'
  <1> SUFFICES ASSUME ConsensusInv, [ConsensusNext]_consensusVars
               PROVE  ConsensusInv'
    OBVIOUS
  <1> USE DEF ConsensusInv
  <1>1. CASE UNCHANGED consensusVars
    BY <1>1 DEF consensusVars, ConsensusTypeOK, Promised, Founded, Valid, Granted
  <1>2. ASSUME NEW r \in Replicas, NEW epoch \in Epochs, NEW version \in Versions,
               Vote(r, epoch, version)
        PROVE  ConsensusInv'
    <2>1. ConsensusTypeOK'
      BY <1>2, ConsensusAssumption DEF Vote, ConsensusTypeOK, Epochs
    <2>2. Promised'
      BY <1>2, ConsensusAssumption DEF Vote, Promised, ConsensusTypeOK, Epochs
    <2>3. Founded'
      <3>1. ASSUME NEW c \in commits
            PROVE  Cardinality(Valid(c.epoch, c.version)') >= QuorumSize
        <4>1. /\ Cardinality(Replicas) \in Nat
              /\ Cardinality(Valid(c.epoch, c.version)) \in Nat
          BY ConsensusAssumption, FS_CardinalityType, FS_Intersection DEF Valid
        <4>2. votes \subseteq votes'
          BY <1>2 DEF Vote
        <4>3. /\ Cardinality(Valid(c.epoch, c.version)') \in Nat
              /\ Cardinality(Valid(c.epoch, c.version)') >= Cardinality(Valid(c.epoch, c.version))
          BY <4>2, ValidGrows
        <4>4. QED
          BY <4>1, <4>3 DEF Founded, QuorumSize
      <3>2. QED
        BY <1>2, <3>1 DEF Vote, Founded, QuorumSize
    <2>4. QED
      BY <2>1, <2>2, <2>3
  <1>3. ASSUME NEW epoch \in Epochs, NEW version \in Versions, Tally(epoch, version)
        PROVE  ConsensusInv'
    <2>1. ConsensusTypeOK' /\ Promised'
      BY <1>3 DEF Tally, ConsensusTypeOK, Outcomes, Promised
    <2>2. Founded'
      <3>1. ASSUME NEW c \in commits'
            PROVE  Cardinality(Valid(c.epoch, c.version)) >= QuorumSize
        BY <1>3 DEF Tally, Founded
      <3>2. ASSUME NEW c
            PROVE  Valid(c.epoch, c.version)' = Valid(c.epoch, c.version)
        BY <1>3 DEF Tally, Valid, Granted
      <3>3. \A r \in Replicas : active'[r] \in commits' \cup {NotActive}
        BY <1>3 DEF Tally, Founded
      <3>4. QED
        BY <3>1, <3>2, <3>3 DEF Founded, QuorumSize
    <2>3. QED
      BY <2>1, <2>2
  <1>4. ASSUME NEW r \in Replicas, NEW outcome \in commits, ApplyCommit(r, outcome)
        PROVE  ConsensusInv'
    <2>1. outcome \in Outcomes /\ outcome.epoch \in 0..MaxEpoch
      BY ConsensusAssumption DEF ConsensusTypeOK, Outcomes, Epochs
    <2>2. ConsensusTypeOK'
      BY <1>4, <2>1 DEF ApplyCommit, ConsensusTypeOK
    <2>3. Promised'
      BY <1>4, <2>1, ConsensusAssumption
      DEF ApplyCommit, Promised, ConsensusTypeOK, Epochs
    <2>4. Founded'
      BY <1>4 DEF ApplyCommit, Founded, Valid, Granted, QuorumSize, ConsensusTypeOK
    <2>5. QED
      BY <2>2, <2>3, <2>4
  <1>5. QED
    BY <1>1, <1>2, <1>3, <1>4 DEF ConsensusNext

LEMMA ConsensusInvariant == ConsensusSpec => []ConsensusInv
  BY ConsensusInitInv, ConsensusNextInv, PTL DEF ConsensusSpec

\* What replicas promised, what was counted and what they act on keep their types.
THEOREM ConsensusTypes == ConsensusSpec => []ConsensusTypeOK
  <1>1. ConsensusInv => ConsensusTypeOK
    BY DEF ConsensusInv
  <1>2. QED
    BY <1>1, ConsensusInvariant, PTL

\* No two replicas act on different topologies of one epoch.
ActiveAgree ==
  \A q, r \in Replicas : active[q].epoch = active[r].epoch => active[q] = active[r]

THEOREM ActiveCorrect == ConsensusSpec => []ActiveAgree
  <1>1. ConsensusInv => ActiveAgree
    <2> SUFFICES ASSUME ConsensusInv, NEW q \in Replicas, NEW r \in Replicas,
                        active[q].epoch = active[r].epoch
                 PROVE  active[q] = active[r]
      BY DEF ActiveAgree
    <2>1. ASSUME NEW c \in commits
          PROVE  c.epoch # 0 /\ c = [epoch |-> c.epoch, version |-> c.version]
      BY DEF ConsensusInv, ConsensusTypeOK, Outcomes, Epochs
    <2>2. ASSUME NEW c \in commits, NEW d \in commits, c.epoch = d.epoch
          PROVE  c = d
      BY <2>1, <2>2, OneQuorumPerEpoch DEF ConsensusInv, Founded
    <2>3. NotActive.epoch = 0
      BY DEF NotActive
    <2>4. QED
      BY <2>1, <2>2, <2>3 DEF ConsensusInv, Founded
  <1>2. QED
    BY <1>1, ConsensusInvariant, PTL

-----------------------------------------------------------------------------

LEMMA FirstTopology == ConsensusInit => Topology!Init
  BY DEF ConsensusInit, Topology!Init, NotActive, Topology!Undecided

LEMMA StepIsTopology ==
  ConsensusInv /\ [ConsensusNext]_consensusVars => [Topology!Next]_<<commits, active>>
  <1> SUFFICES ASSUME ConsensusInv, [ConsensusNext]_consensusVars
               PROVE  [Topology!Next]_<<commits, active>>
    OBVIOUS
  <1>1. ASSUME NEW epoch \in Epochs, NEW version \in Versions, Tally(epoch, version),
               [epoch |-> epoch, version |-> version] \notin commits
        PROVE  Topology!Decide(epoch, version)
    <2>1. ASSUME NEW c \in commits, c.epoch = epoch
          PROVE  FALSE
      <3>1. c.version = version
        BY <1>1, <2>1, OneQuorumPerEpoch DEF ConsensusInv, Founded, Tally
      <3>2. c = [epoch |-> epoch, version |-> version]
        BY <2>1, <3>1 DEF ConsensusInv, ConsensusTypeOK, Outcomes
      <3>3. QED
        BY <1>1, <3>2
    <2>2. QED
      BY <1>1, <2>1 DEF Tally, Topology!Decide
  <1>2. ASSUME NEW r \in Replicas, NEW outcome \in commits, ApplyCommit(r, outcome)
        PROVE  Topology!Activate(r, outcome)
    <2>1. active[r].epoch \in Nat /\ outcome.epoch \in Nat
      BY ConsensusAssumption
      DEF ConsensusInv, ConsensusTypeOK, Outcomes, Epochs, NotActive
    <2>2. QED
      BY <1>2, <2>1 DEF ApplyCommit, Topology!Activate
  <1>3. CASE UNCHANGED consensusVars
    BY <1>3 DEF consensusVars
  <1>4. ASSUME NEW r \in Replicas, NEW epoch \in Epochs, NEW version \in Versions,
               Vote(r, epoch, version)
        PROVE  UNCHANGED <<commits, active>>
    BY <1>4 DEF Vote
  <1>5. ASSUME NEW epoch \in Epochs, NEW version \in Versions, Tally(epoch, version),
               [epoch |-> epoch, version |-> version] \in commits
        PROVE  UNCHANGED <<commits, active>>
    BY <1>5 DEF Tally
  <1>6. QED
    BY <1>1, <1>2, <1>3, <1>4, <1>5 DEF ConsensusNext, Topology!Next

\* "One topology active at a time": the replicas implement OneTopology.
THEOREM ConsensusImplementsTopology == ConsensusSpec => ImplementsOneTopology
  <1>1. ConsensusInv /\ [ConsensusNext]_consensusVars => [Topology!Next]_<<commits, active>>
    BY StepIsTopology
  <1>2. QED
    BY <1>1, FirstTopology, ConsensusInvariant, PTL
    DEF ConsensusSpec, ImplementsOneTopology, Topology!Spec

-----------------------------------------------------------------------------
(***************************************************************************)
(* What EventIQ guarantees, for any messages, subscriptions, groups and    *)
(* bounds.  Whatever consumers answer and in whichever order: an operation *)
(* that a group has performed is not delivered to it again.  And for       *)
(* consumers that answer in the order of the log, with a group to          *)
(* themselves and no dead letter sent again: order within a key, promised  *)
(* redeliveries that can be made, and, unless they ask for order, no loss. *)
(***************************************************************************)

\* The places of the log and the messages accepted are one to one.
LogInv ==
  /\ IsFiniteSet(Accepted)
  /\ \A i, j \in DOMAIN log : log[i] = log[j] => i = j

\* A message is attempted for a subscription that was made, has it on its list
\* and the checkpoint of whose group is set; what was accepted is in the inbox.
AttemptInv ==
  \A s \in Subs :
    /\ s \in subs => since[s] # None
    /\ since[s] # None => Checkpoint(s) # None
    /\ \A m \in Messages :
         /\ attempt[s][m].state = "none" => attempt[s][m].n = 0
         /\ attempt[s][m].state # "none" => m \in Accepted \cap Receives[s] /\ since[s] # None
         /\ attempt[s][m].state = "acknowledged" => Processed(s, m) \/ OpOf[m] = NoOp

EventInv == EventTypeOK /\ LogInv /\ AttemptInv

\* Consumers that answer in order, each a group of its own.
InTurn == InOrder /\ \A r, s \in Subs : GroupOf[r] = GroupOf[s] => r = s

\* What is open is ahead of the checkpoint, so that no answer passes it.
OpenAhead ==
  \A s \in Subs, m \in Messages : Open(s, m) => PlaceOf(m) > Checkpoint(s)

ExpiredInv ==
  \A s \in Subs :
    /\ since[s] = None => Checkpoint(s) = None
    /\ \A m \in Messages : attempt[s][m].state = "expired" => s \in expired

\* Polls that do not hold events back leave no gaps.
NoGaps ==
  \A s \in Subs \ Ordered : since[s] # None =>
    \A i, j \in DOMAIN log :
      /\ since[s] < i /\ i < j
      /\ log[i] \in Receives[s] /\ attempt[s][log[j]].state # "none"
      => attempt[s][log[i]].state # "none" \/ Settled(s, log[i])

InTurnInv == OpenAhead /\ ExpiredInv /\ NoGaps /\ NoLoss

-----------------------------------------------------------------------------
(* The log.                                                                *)

LEMMA Places ==
  ASSUME EventInv
  PROVE  /\ Len(log) \in Nat /\ DOMAIN log = 1 .. Len(log)
         /\ \A m \in Accepted : PlaceOf(m) \in DOMAIN log /\ log[PlaceOf(m)] = m
         /\ \A i \in DOMAIN log : log[i] \in Messages /\ log[i] \in Accepted
                                  /\ PlaceOf(log[i]) = i
<1>1. log \in Seq(Messages)
  BY DEF EventInv, EventTypeOK
<1>2. Len(log) \in Nat /\ DOMAIN log = 1 .. Len(log) /\ \A i \in DOMAIN log : log[i] \in Messages
  BY <1>1
<1>3. \A m \in Accepted : PlaceOf(m) \in DOMAIN log /\ log[PlaceOf(m)] = m
  BY DEF Accepted, PlaceOf
<1>4. \A i \in DOMAIN log : log[i] \in Accepted
  BY DEF Accepted
<1>5. \A i \in DOMAIN log : PlaceOf(log[i]) = i
  BY <1>3, <1>4 DEF EventInv, LogInv
<1> QED
  BY <1>2, <1>3, <1>4, <1>5

\* What a publication does to the log.
LEMMA Published ==
  ASSUME EventInv, NEW m \in Messages, Publish(m)
  PROVE  /\ Len(log') = Len(log) + 1 /\ DOMAIN log' = 1 .. Len(log) + 1
         /\ \A i \in DOMAIN log : log'[i] = log[i]
         /\ log'[Len(log) + 1] = m
         /\ Accepted' = Accepted \cup {m} /\ m \notin Accepted
         /\ LogInv' /\ Cardinality(Accepted') = Len(log')
         /\ \A k \in Accepted : PlaceOf(k)' = PlaceOf(k)
<1>1. log \in Seq(Messages) /\ log' = Append(log, m) /\ m \notin Accepted
  BY DEF EventInv, EventTypeOK, Publish
<1>2. /\ Len(log') = Len(log) + 1 /\ DOMAIN log' = 1 .. Len(log) + 1
      /\ DOMAIN log = 1 .. Len(log) /\ Len(log) \in Nat
      /\ \A i \in DOMAIN log : log'[i] = log[i]
      /\ log'[Len(log) + 1] = m
  BY <1>1
<1>3. Accepted' = Accepted \cup {m}
  BY <1>2 DEF Accepted
<1>4. IsFiniteSet(Accepted') /\ Cardinality(Accepted') = Len(log')
  <2>1. IsFiniteSet(Accepted) /\ Cardinality(Accepted) = Len(log)
    BY DEF EventInv, EventTypeOK, LogInv
  <2>2. IsFiniteSet(Accepted \cup {m}) /\ Cardinality(Accepted \cup {m}) = Cardinality(Accepted) + 1
    BY <1>1, <2>1, FS_AddElement
  <2> QED
    BY <1>2, <1>3, <2>1, <2>2
<1>5. \A i, j \in DOMAIN log' : log'[i] = log'[j] => i = j
  <2>1. \A i \in DOMAIN log : log[i] \in Accepted
    BY DEF Accepted
  <2> QED
    BY <1>1, <1>2, <2>1 DEF EventInv, LogInv
<1>6. \A k \in Accepted : PlaceOf(k)' = PlaceOf(k)
  <2> SUFFICES ASSUME NEW k \in Accepted PROVE PlaceOf(k)' = PlaceOf(k)
    OBVIOUS
  <2>1. PlaceOf(k) \in DOMAIN log /\ log[PlaceOf(k)] = k
    BY Places
  <2>2. PlaceOf(k) \in DOMAIN log' /\ log'[PlaceOf(k)] = k
    BY <2>1, <1>2
  <2>3. PlaceOf(k)' \in DOMAIN log' /\ log'[PlaceOf(k)'] = k
    BY <2>2 DEF PlaceOf
  <2> QED
    BY <2>2, <2>3, <1>5
<1> QED
  BY <1>1, <1>2, <1>3, <1>4, <1>5, <1>6 DEF LogInv

-----------------------------------------------------------------------------
(* A poll.                                                                 *)

\* What a poll returns, or lets lapse, is pending.
LEMMA PolledPending ==
  ASSUME EventInv, NEW s \in subs, NEW m \in Polled(s) \cup Lapsed(s)
  PROVE  /\ m \in Messages /\ m \in Accepted /\ m \in Receives[s]
         /\ PlaceOf(m) > Checkpoint(s) /\ PlaceOf(m) \in Heads(s) /\ PlaceOf(m) \in Pending(s)
         /\ attempt[s][m].state \notin {"dead_lettered", "acknowledged"}
         /\ ~ Processed(s, m)
<1>1. PICK i \in Heads(s) : log[i] = m
  BY DEF Polled, Lapsed, First
<1>2. i \in Pending(s)
  BY <1>1 DEF Heads
<1>3. s \in Subs /\ Checkpoint(s) # None
  BY DEF EventInv, EventTypeOK, AttemptInv
<1>4. Checkpoint(s) \in 0 .. Len(log) /\ Len(log) \in Nat
  BY <1>3, Places, EventIqAssumption DEF Checkpoint, EventInv, EventTypeOK, None
<1>5. i \in 1 .. Len(log) /\ i > Checkpoint(s)
  BY <1>2, <1>4 DEF Pending
<1>6. i \in DOMAIN log /\ PlaceOf(m) = i
  BY <1>1, <1>5, Places
<1> QED
  BY <1>1, <1>2, <1>5, <1>6, Places DEF Pending

\* What becomes of the attempts.
LEMMA PollEffect ==
  ASSUME EventInv, NEW s \in Subs, Poll(s)
  PROVE  /\ s \in subs
         /\ \A r \in Subs \ {s} : attempt'[r] = attempt[r]
         /\ \A m \in Messages :
              /\ m \in Polled(s) => /\ attempt'[s][m] = [state |-> "delivered", n |-> Counted(s, attempt[s][m].n)]
                                    /\ s \notin expired
              /\ m \notin Polled(s) /\ m \in Lapsed(s) => 
                    /\ attempt'[s][m] = [state |-> "expired", n |-> attempt[s][m].n]
                    /\ s \in expired
              /\ m \notin Polled(s) /\ m \notin Lapsed(s) => attempt'[s][m] = attempt[s][m]
         /\ UNCHANGED <<log, offset, inbox, replays, subs, replaySeq, expired, since, restarts>>
<1>1. s \in subs /\ attempt \in [Subs -> [Messages -> [state : States, n : Nat]]]
      /\ UNCHANGED <<log, offset, inbox, replays, subs, replaySeq, expired, since, restarts>>
  BY DEF EventInv, EventTypeOK, Poll
<1>2. attempt'[s] = [m \in Messages |->
          IF m \in Polled(s)
            THEN [state |-> "delivered", n |-> Counted(s, attempt[s][m].n)]
          ELSE IF m \in Lapsed(s)
            THEN [attempt[s][m] EXCEPT !.state = "expired"]
          ELSE attempt[s][m]]
  BY <1>1 DEF Poll
<1>3. \A r \in Subs \ {s} : attempt'[r] = attempt[r]
  BY <1>1 DEF Poll
<1>4. \A m \in Messages : [attempt[s][m] EXCEPT !.state = "expired"] = [state |-> "expired", n |-> attempt[s][m].n]
  BY <1>1
<1>5. \A m : (m \in Polled(s) => s \notin expired) /\ (m \in Lapsed(s) => s \in expired)
  BY DEF Polled, Lapsed
<1> HIDE DEF Polled, Lapsed, Counted
<1> QED
  BY <1>1, <1>2, <1>3, <1>4, <1>5

LEMMA CountedType ==
  ASSUME NEW s \in Subs, NEW n \in Nat
  PROVE  Counted(s, n) \in Nat /\ Counted(s, n) <= Tries[s] + 1
<1>1. Tries[s] \in Nat
  BY EventIqAssumption
<1> QED
  BY <1>1 DEF Counted, Less

LEMMA PollTyped ==
  ASSUME EventInv, NEW s \in Subs, Poll(s)
  PROVE  /\ attempt' \in [Subs -> [Messages -> [state : States, n : Nat]]]
         /\ \A r \in Subs, m \in Messages : attempt'[r][m].n <= Tries[r] + 1
<1>1. attempt \in [Subs -> [Messages -> [state : States, n : Nat]]]
  BY DEF EventInv, EventTypeOK
<1>2. \A m \in Messages : attempt'[s][m] \in [state : States, n : Nat] /\ attempt'[s][m].n <= Tries[s] + 1
  <2> SUFFICES ASSUME NEW m \in Messages
               PROVE  attempt'[s][m] \in [state : States, n : Nat] /\ attempt'[s][m].n <= Tries[s] + 1
    OBVIOUS
  <2>1. attempt[s][m] \in [state : States, n : Nat] /\ attempt[s][m].n \in Nat /\ attempt[s][m].n <= Tries[s] + 1
    BY <1>1 DEF EventInv, EventTypeOK
  <2>2. CASE m \in Polled(s)
    <3>1. attempt'[s][m] = [state |-> "delivered", n |-> Counted(s, attempt[s][m].n)]
      BY <2>2, PollEffect
    <3> QED
      BY <3>1, <2>1, CountedType DEF States
  <2>3. CASE m \notin Polled(s) /\ m \in Lapsed(s)
    <3>1. attempt'[s][m] = [state |-> "expired", n |-> attempt[s][m].n]
      BY <2>3, PollEffect
    <3> QED
      BY <3>1, <2>1 DEF States
  <2>4. CASE m \notin Polled(s) /\ m \notin Lapsed(s)
    BY <2>4, PollEffect, <2>1
  <2> QED
    BY <2>2, <2>3, <2>4
<1>3. \A r \in Subs \ {s} : attempt'[r] = attempt[r]
  BY PollEffect
<1>4. attempt'[s] \in [Messages -> [state : States, n : Nat]]
  <2>1. \E f : attempt'[s] = [m \in Messages |-> f[m]]
    <3>1. attempt'[s] = [m \in Messages |->
          IF m \in Polled(s)
            THEN [state |-> "delivered", n |-> Counted(s, attempt[s][m].n)]
          ELSE IF m \in Lapsed(s)
            THEN [attempt[s][m] EXCEPT !.state = "expired"]
          ELSE attempt[s][m]]
      BY <1>1 DEF Poll
    <3> QED
      BY <3>1, Zenon
  <2>2. attempt'[s] = [m \in Messages |-> attempt'[s][m]]
    BY <2>1
  <2> QED
    BY <2>2, <1>2
<1>5. attempt' = [attempt EXCEPT ![s] = attempt'[s]]
  BY <1>1 DEF Poll
<1> QED
  BY <1>1, <1>2, <1>3, <1>4, <1>5 DEF EventInv, EventTypeOK

-----------------------------------------------------------------------------
(* An answer.                                                              *)

LEMMA MarkedEffect ==
  ASSUME EventInv, NEW s \in Subs, NEW m \in Messages, NEW st \in States,
         attempt' = Marked(s, m, st)
  PROVE  /\ attempt' \in [Subs -> [Messages -> [state : States, n : Nat]]]
         /\ attempt'[s][m] = [state |-> st, n |-> attempt[s][m].n]
         /\ \A r \in Subs, k \in Messages : r # s \/ k # m => attempt'[r][k] = attempt[r][k]
         /\ \A r \in Subs, k \in Messages : attempt'[r][k].n = attempt[r][k].n
<1>1. attempt \in [Subs -> [Messages -> [state : States, n : Nat]]]
  BY DEF EventInv, EventTypeOK
<1>2. [attempt[s][m] EXCEPT !.state = st] = [state |-> st, n |-> attempt[s][m].n]
      /\ attempt[s][m].n \in Nat
  BY <1>1
<1>3. attempt' = [attempt EXCEPT ![s] = [attempt[s] EXCEPT ![m] = [state |-> st, n |-> attempt[s][m].n]]]
  BY <1>1, <1>2 DEF Marked
<1>4. attempt'[s][m] = [state |-> st, n |-> attempt[s][m].n]
  BY <1>1, <1>3
<1>5. \A r \in Subs, k \in Messages : r # s \/ k # m => attempt'[r][k] = attempt[r][k]
  BY <1>1, <1>3
<1>6. attempt' \in [Subs -> [Messages -> [state : States, n : Nat]]]
  BY <1>1, <1>2, <1>3
<1>7. \A r \in Subs, k \in Messages : attempt'[r][k].n = attempt[r][k].n
  BY <1>4, <1>5
<1> QED
  BY <1>4, <1>5, <1>6, <1>7

LEMMA AnswerEffect ==
  ASSUME EventInv, NEW s \in Subs, NEW m \in Messages, Answer(s, m)
  PROVE  /\ s \in subs /\ attempt[s][m].state # "none" /\ m \in Accepted
         /\ \E st \in {"acknowledged", "retrying", "dead_lettered"} : attempt' = Marked(s, m, st)
         /\ UNCHANGED <<log, replays, subs, replaySeq, expired, since, restarts>>
<1>1. s \in subs /\ attempt[s][m] # Unseen
  BY DEF Answer, Accept, Defer, Reject, MayAnswer
<1>2. attempt[s][m].state # "none"
  <2>1. attempt[s][m] \in [state : States, n : Nat]
    BY DEF EventInv, EventTypeOK
  <2>2. attempt[s][m].state = "none" => attempt[s][m].n = 0
    BY DEF EventInv, AttemptInv
  <2> QED
    BY <1>1, <2>1, <2>2 DEF Unseen
<1>3. m \in Accepted
  BY <1>2 DEF EventInv, AttemptInv
<1>4. \E st \in {"acknowledged", "retrying", "dead_lettered"} : attempt' = Marked(s, m, st)
  BY DEF Answer, Accept, Defer, Reject
<1>5. UNCHANGED <<log, replays, subs, replaySeq, expired, since, restarts>>
  BY DEF Answer, Accept, Defer, Reject
<1> QED
  BY <1>1, <1>2, <1>3, <1>4, <1>5

-----------------------------------------------------------------------------
(* Types, and what is attempted.                                           *)

LEMMA EventStarts == EventInit => EventInv
<1> SUFFICES ASSUME EventInit PROVE EventInv
  OBVIOUS
<1> USE EventIqAssumption DEF EventInit
<1>1. Accepted = {} /\ Len(log) = 0 /\ log \in Seq(Messages) /\ DOMAIN log = {}
  BY DEF Accepted
<1>2. Cardinality(Accepted) = Len(log) /\ IsFiniteSet(Accepted)
  BY <1>1, FS_EmptySet
<1>3. EventTypeOK
  <2>1. attempt \in [Subs -> [Messages -> [state : States, n : Nat]]]
    BY DEF Unseen, States
  <2>2. \A s \in Subs, m \in Messages : attempt[s][m].n <= Tries[s] + 1
    BY DEF Unseen
  <2> QED
    BY <1>1, <1>2, <2>1, <2>2 DEF EventTypeOK, None
<1>4. LogInv
  BY <1>1, <1>2 DEF LogInv
<1>5. AttemptInv
  BY DEF AttemptInv, Unseen, None
<1> QED
  BY <1>3, <1>4, <1>5 DEF EventInv

\* The checkpoint of a group is unset, or in the log.
LEMMA CheckpointType ==
  ASSUME EventInv, NEW s \in Subs
  PROVE  /\ Checkpoint(s) \in None .. Len(log) /\ Len(log) \in Nat
         /\ since[s] \in None .. Len(log) /\ GroupOf[s] \in Groups
         /\ since[s] # None => Checkpoint(s) \in 0 .. Len(log)
<1>1. GroupOf[s] \in Groups /\ Len(log) \in Nat
  BY EventIqAssumption, Places
<1>2. offset[GroupOf[s]] \in None .. Len(log) /\ since[s] \in None .. Len(log)
  BY <1>1 DEF EventInv, EventTypeOK
<1>3. since[s] # None => offset[GroupOf[s]] # None
  BY DEF EventInv, AttemptInv, Checkpoint
<1> QED
  BY <1>1, <1>2, <1>3 DEF Checkpoint, None

\* What an acceptance does to the checkpoints and the inboxes.
LEMMA AcceptEffect ==
  ASSUME EventInv, NEW s \in Subs, NEW m \in Messages, Accept(s, m)
  PROVE  /\ attempt' = Marked(s, m, "acknowledged")
         /\ PlaceOf(m) \in DOMAIN log
         /\ offset' \in [Groups -> None .. Len(log)]
         /\ inbox' \in [Groups -> SUBSET {OpOf[k] : k \in Messages}]
         /\ \A r \in Subs : IF GroupOf[r] = GroupOf[s]
                              THEN Checkpoint(r)' = Advanced(Checkpoint(s), PlaceOf(m))
                              ELSE Checkpoint(r)' = Checkpoint(r)
         /\ \A g \in Groups : inbox[g] \subseteq inbox'[g]
         /\ OpOf[m] # NoOp => OpOf[m] \in inbox'[GroupOf[s]]
<1>1. PlaceOf(m) \in DOMAIN log /\ DOMAIN log = 1 .. Len(log) /\ Len(log) \in Nat
  BY Places, AnswerEffect DEF Answer
<1>2. GroupOf \in [Subs -> Groups] /\ GroupOf[s] \in Groups
  BY EventIqAssumption
<1>3. offset \in [Groups -> None .. Len(log)] /\ inbox \in [Groups -> SUBSET {OpOf[k] : k \in Messages}]
  BY DEF EventInv, EventTypeOK
<1>4. offset' = [offset EXCEPT ![GroupOf[s]] = Advanced(offset[GroupOf[s]], PlaceOf(m))]
  BY DEF Accept
<1>5. inbox' = [inbox EXCEPT ![GroupOf[s]] = inbox[GroupOf[s]] \cup ({OpOf[m]} \ {NoOp})]
  BY DEF Accept
<1>6. Advanced(offset[GroupOf[s]], PlaceOf(m)) \in None .. Len(log)
  BY <1>1, <1>2, <1>3 DEF Advanced, None
<1>7. offset' \in [Groups -> None .. Len(log)]
  BY <1>3, <1>4, <1>6
<1>8. \A r \in Subs : IF GroupOf[r] = GroupOf[s]
                        THEN Checkpoint(r)' = Advanced(Checkpoint(s), PlaceOf(m))
                        ELSE Checkpoint(r)' = Checkpoint(r)
  BY <1>2, <1>3, <1>4 DEF Checkpoint
<1>9. inbox' \in [Groups -> SUBSET {OpOf[k] : k \in Messages}]
  BY <1>2, <1>3, <1>5
<1>10. (\A g \in Groups : inbox[g] \subseteq inbox'[g]) /\ (OpOf[m] # NoOp => OpOf[m] \in inbox'[GroupOf[s]])
  BY <1>2, <1>3, <1>5
<1>11. attempt' = Marked(s, m, "acknowledged")
  BY DEF Accept
<1> QED
  BY <1>1, <1>7, <1>8, <1>9, <1>10, <1>11

\* What a subscription does.
LEMMA SubscribeEffect ==
  ASSUME EventInv, NEW s \in Subs, Subscribe(s)
  PROVE  /\ offset' \in [Groups -> None .. Len(log)]
         /\ since' \in [Subs -> None .. Len(log)]
         /\ Checkpoint(s)' # None /\ since'[s] # None
         /\ since[s] # None => since'[s] = since[s]
         /\ since[s] = None => since'[s] = Len(log)
         /\ Checkpoint(s) = None => Checkpoint(s)' = Len(log)
         /\ \A r \in Subs : Checkpoint(r) # None => Checkpoint(r)' = Checkpoint(r)
         /\ \A r \in Subs : GroupOf[r] = GroupOf[s] => Checkpoint(r)' = Checkpoint(s)'
         /\ \A r \in Subs : GroupOf[r] # GroupOf[s] => Checkpoint(r)' = Checkpoint(r)
         /\ \A r \in Subs \ {s} : since'[r] = since[r]
<1>1. GroupOf \in [Subs -> Groups] /\ GroupOf[s] \in Groups
  BY EventIqAssumption
<1>2. offset \in [Groups -> None .. Len(log)] /\ since \in [Subs -> None .. Len(log)] /\ Len(log) \in Nat
  BY Places DEF EventInv, EventTypeOK
<1>3. offset' = [offset EXCEPT ![GroupOf[s]] = Start(s)]
  BY DEF Subscribe
<1>4. since' = [since EXCEPT ![s] = IF since[s] = None THEN Len(log) ELSE since[s]]
  BY DEF Subscribe
<1>5. Start(s) \in None .. Len(log) /\ Start(s) # None
      /\ (Checkpoint(s) # None => Start(s) = Checkpoint(s)) /\ (Checkpoint(s) = None => Start(s) = Len(log))
  BY <1>1, <1>2 DEF Start, Checkpoint, None
<1>6. \A r \in Subs : IF GroupOf[r] = GroupOf[s] THEN Checkpoint(r)' = Start(s) ELSE Checkpoint(r)' = Checkpoint(r)
  BY <1>1, <1>2, <1>3 DEF Checkpoint
<1>7. offset' \in [Groups -> None .. Len(log)]
  BY <1>2, <1>3, <1>5
<1>8. since' \in [Subs -> None .. Len(log)] /\ since'[s] # None
  BY <1>2, <1>4 DEF None
<1>9. (since[s] # None => since'[s] = since[s]) /\ (since[s] = None => since'[s] = Len(log))
      /\ \A r \in Subs \ {s} : since'[r] = since[r]
  BY <1>2, <1>4
<1>10. \A r \in Subs : GroupOf[r] = GroupOf[s] => Checkpoint(r) = Checkpoint(s)
  BY DEF Checkpoint
<1> QED
  BY <1>5, <1>6, <1>7, <1>8, <1>9, <1>10

\* What an attempt may become, but for a poll, keeps AttemptInv.
LEMMA AttemptKept ==
  ASSUME EventInv, NEW s \in Subs, NEW m \in Messages,
         attempt[s][m].state # "none",
         NEW st \in {"acknowledged", "retrying", "dead_lettered"},
         attempt' = Marked(s, m, st),
         st = "acknowledged" => OpOf[m] = NoOp \/ OpOf[m] \in inbox'[GroupOf[s]],
         \A g \in Groups : inbox[g] \subseteq inbox'[g],
         \A r \in Subs : Checkpoint(r) # None => Checkpoint(r)' # None,
         UNCHANGED <<log, subs, since>>
  PROVE  AttemptInv'
<1>1. st \in States
  BY DEF States
<1>2. /\ attempt'[s][m] = [state |-> st, n |-> attempt[s][m].n]
      /\ \A r \in Subs, k \in Messages : r # s \/ k # m => attempt'[r][k] = attempt[r][k]
  BY <1>1, MarkedEffect
<1>3. GroupOf \in [Subs -> Groups] /\ Accepted' = Accepted
  BY EventIqAssumption DEF Accepted
<1>4. \A r \in Subs, k \in Messages : Processed(r, k) => Processed(r, k)'
  BY <1>3 DEF Processed
<1> SUFFICES ASSUME NEW r \in Subs
             PROVE  /\ r \in subs => since[r] # None
                    /\ since[r] # None => Checkpoint(r)' # None
                    /\ \A k \in Messages :
                         /\ attempt'[r][k].state = "none" => attempt'[r][k].n = 0
                         /\ attempt'[r][k].state # "none" => k \in Accepted \cap Receives[r] /\ since[r] # None
                         /\ attempt'[r][k].state = "acknowledged" => Processed(r, k)' \/ OpOf[k] = NoOp
  BY <1>3 DEF AttemptInv
<1>5. r \in subs => since[r] # None
  BY DEF EventInv, AttemptInv
<1>6. since[r] # None => Checkpoint(r)' # None
  BY DEF EventInv, AttemptInv
<1>7. ASSUME NEW k \in Messages
      PROVE  /\ attempt'[r][k].state = "none" => attempt'[r][k].n = 0
             /\ attempt'[r][k].state # "none" => k \in Accepted \cap Receives[r] /\ since[r] # None
             /\ attempt'[r][k].state = "acknowledged" => Processed(r, k)' \/ OpOf[k] = NoOp
  <2>1. CASE r = s /\ k = m
    BY <2>1, <1>2 DEF Processed, EventInv, AttemptInv
  <2>2. CASE r # s \/ k # m
    BY <2>2, <1>2, <1>4 DEF EventInv, AttemptInv
  <2> QED
    BY <2>1, <2>2
<1> QED
  BY <1>5, <1>6, <1>7

LEMMA EventStep == EventInv /\ [EventNext]_eventVars => EventInv'
<1> SUFFICES ASSUME EventInv, [EventNext]_eventVars PROVE EventInv'
  OBVIOUS
<1>1. /\ EventTypeOK /\ LogInv /\ AttemptInv
      /\ attempt \in [Subs -> [Messages -> [state : States, n : Nat]]]
  BY DEF EventInv, EventTypeOK
<1>2. ASSUME NEW m \in Messages, Publish(m) PROVE EventInv'
  <2>1. /\ Len(log') = Len(log) + 1 /\ Accepted' = Accepted \cup {m}
        /\ LogInv' /\ Cardinality(Accepted') = Len(log') /\ Len(log) \in Nat
    BY <1>2, Published, Places
  <2>2. log' \in Seq(Messages)
    BY <1>2, <1>1 DEF Publish, EventTypeOK
  <2>3. /\ UNCHANGED <<offset, attempt, inbox, replays, subs, replaySeq, expired, since, restarts>>
        /\ None .. Len(log) \subseteq None .. Len(log')
    BY <1>2, <2>1 DEF Publish, None
  <2>4. offset' \in [Groups -> None .. Len(log')] /\ since' \in [Subs -> None .. Len(log')]
    BY <2>3, <1>1 DEF EventTypeOK
  <2>5. EventTypeOK'
    BY <2>1, <2>2, <2>3, <2>4, <1>1 DEF EventTypeOK
  <2>6. AttemptInv'
    BY <2>1, <2>3, <1>1 DEF AttemptInv, Checkpoint, Processed
  <2> QED
    BY <2>1, <2>5, <2>6 DEF EventInv
<1>3. ASSUME NEW s \in Subs, Subscribe(s) PROVE EventInv'
  <2>1. UNCHANGED <<log, attempt, inbox, replays, replaySeq, expired, restarts>> /\ subs' = subs \cup {s}
    BY <1>3 DEF Subscribe
  <2>2. EventTypeOK'
    <3>1. offset' \in [Groups -> None .. Len(log)] /\ since' \in [Subs -> None .. Len(log)]
      BY <1>3, SubscribeEffect
    <3> QED
      BY <3>1, <2>1, <1>1 DEF EventTypeOK, Accepted
  <2>3. LogInv'
    BY <2>1, <1>1 DEF LogInv, Accepted
  <2>4. AttemptInv'
    <3>1. Accepted' = Accepted /\ \A r, k : Processed(r, k)' = Processed(r, k)
      BY <2>1 DEF Accepted, Processed
    <3> SUFFICES ASSUME NEW r \in Subs
                 PROVE  /\ r \in subs' => since'[r] # None
                        /\ since'[r] # None => Checkpoint(r)' # None
                        /\ since[r] # None => since'[r] # None
      BY <3>1, <2>1, <1>1 DEF AttemptInv
    <3>2. CASE r = s
      BY <3>2, <1>3, SubscribeEffect
    <3>3. CASE r # s
      <4>1. since'[r] = since[r] /\ (Checkpoint(r) # None => Checkpoint(r)' = Checkpoint(r))
        BY <3>3, <1>3, SubscribeEffect
      <4> QED
        BY <4>1, <3>3, <2>1, <1>1 DEF AttemptInv
    <3> QED
      BY <3>2, <3>3
  <2> QED
    BY <2>2, <2>3, <2>4 DEF EventInv
<1>4. ASSUME NEW s \in Subs, Poll(s) PROVE EventInv'
  <2>1. UNCHANGED <<log, offset, inbox, replays, subs, replaySeq, expired, since, restarts>> /\ s \in subs
    BY <1>4 DEF Poll
  <2>2. EventTypeOK'
    <3>1. /\ attempt' \in [Subs -> [Messages -> [state : States, n : Nat]]]
          /\ \A r \in Subs, m \in Messages : attempt'[r][m].n <= Tries[r] + 1
      BY <1>4, PollTyped
    <3> QED
      BY <3>1, <2>1, <1>1 DEF EventTypeOK, Accepted
  <2>3. LogInv'
    BY <2>1, <1>1 DEF LogInv, Accepted
  <2>4. AttemptInv'
    <3>1. Accepted' = Accepted /\ (\A r, k : Processed(r, k)' = Processed(r, k)) /\ \A r : Checkpoint(r)' = Checkpoint(r)
      BY <2>1 DEF Accepted, Processed, Checkpoint
    <3> SUFFICES ASSUME NEW r \in Subs, NEW k \in Messages
                 PROVE  /\ attempt'[r][k].state = "none" => attempt'[r][k].n = 0
                        /\ attempt'[r][k].state # "none" => k \in Accepted \cap Receives[r] /\ since[r] # None
                        /\ attempt'[r][k].state = "acknowledged" => Processed(r, k) \/ OpOf[k] = NoOp
      BY <3>1, <2>1, <1>1 DEF AttemptInv
    <3>2. CASE attempt'[r][k] = attempt[r][k]
      BY <3>2, <1>1 DEF AttemptInv
    <3>3. CASE r = s /\ k \in Polled(s)
      <4>0. attempt'[s][k] = [state |-> "delivered", n |-> Counted(s, attempt[s][k].n)]
        BY <3>3, <1>4, PollEffect
      <4>1. attempt'[s][k].state = "delivered"
        BY <4>0
      <4>2. k \in Accepted /\ k \in Receives[s]
        BY <3>3, <2>1, PolledPending
      <4> QED
        BY <4>1, <4>2, <3>3, <2>1, <1>1 DEF AttemptInv
    <3>4. CASE r = s /\ k \notin Polled(s) /\ k \in Lapsed(s)
      <4>0. attempt'[s][k] = [state |-> "expired", n |-> attempt[s][k].n]
        BY <3>4, <1>4, PollEffect
      <4>1. attempt'[s][k].state = "expired"
        BY <4>0
      <4>2. k \in Accepted /\ k \in Receives[s]
        BY <3>4, <2>1, PolledPending
      <4> QED
        BY <4>1, <4>2, <3>4, <2>1, <1>1 DEF AttemptInv
    <3> QED
      BY <3>2, <3>3, <3>4, <1>4, PollEffect
  <2> QED
    BY <2>2, <2>3, <2>4 DEF EventInv
<1>5. ASSUME NEW s \in Subs, Replay(s) PROVE EventInv'
  <2>1. UNCHANGED <<log, offset, attempt, inbox, subs, expired, since, restarts>> /\ replaySeq' \in Nat
    BY <1>5, <1>1 DEF Replay, EventTypeOK
  <2>2. replays' \in Seq([id : Nat, sub : Subs])
    <3>1. [id |-> replaySeq', sub |-> s] \in [id : Nat, sub : Subs]
      BY <2>1
    <3> QED
      BY <3>1, <1>5, <1>1 DEF Replay, EventTypeOK
  <2> QED
    BY <2>1, <2>2, <1>1 DEF EventInv, EventTypeOK, LogInv, AttemptInv, Accepted, Checkpoint, Processed
<1>6. ASSUME NEW s \in Subs, Expire(s) PROVE EventInv'
  BY <1>6, <1>1 DEF Expire, store, EventInv, EventTypeOK, LogInv, AttemptInv, Accepted, Checkpoint, Processed
<1>7. CASE Restart
  BY <1>7, <1>1, EventIqAssumption DEF Restart, store, EventInv, EventTypeOK, LogInv, AttemptInv, Accepted, Checkpoint, Processed
<1>8. ASSUME NEW s \in Subs, NEW m \in Messages, Accept(s, m) PROVE EventInv'
  <2>1. UNCHANGED <<log, replays, subs, replaySeq, expired, since, restarts>>
        /\ attempt' = Marked(s, m, "acknowledged") /\ attempt[s][m].state # "none"
    BY <1>8, AnswerEffect DEF Accept, Answer
  <2>2. /\ offset' \in [Groups -> None .. Len(log)]
        /\ inbox' \in [Groups -> SUBSET {OpOf[k] : k \in Messages}]
        /\ \A g \in Groups : inbox[g] \subseteq inbox'[g]
        /\ OpOf[m] # NoOp => OpOf[m] \in inbox'[GroupOf[s]]
    BY <1>8, AcceptEffect
  <2>3. /\ attempt' \in [Subs -> [Messages -> [state : States, n : Nat]]]
        /\ \A r \in Subs, k \in Messages : attempt'[r][k].n = attempt[r][k].n
    BY <2>1, MarkedEffect DEF States
  <2>4. EventTypeOK'
    BY <2>1, <2>2, <2>3, <1>1 DEF EventTypeOK, Accepted
  <2>5. LogInv'
    BY <2>1, <1>1 DEF LogInv, Accepted
  <2>6. \A r \in Subs : Checkpoint(r) # None => Checkpoint(r)' # None
    <3> SUFFICES ASSUME NEW r \in Subs, Checkpoint(r) # None PROVE Checkpoint(r)' # None
      OBVIOUS
    <3>1. CASE GroupOf[r] = GroupOf[s]
      <4>1. Checkpoint(r)' = Advanced(Checkpoint(s), PlaceOf(m)) /\ Checkpoint(s) = Checkpoint(r)
        BY <3>1, <1>8, AcceptEffect DEF Checkpoint
      <4>2. PlaceOf(m) \in 1 .. Len(log) /\ Len(log) \in Nat
        BY <1>8, AcceptEffect, Places
      <4> QED
        BY <4>1, <4>2 DEF Advanced, None
    <3>2. CASE GroupOf[r] # GroupOf[s]
      BY <3>2, <1>8, AcceptEffect
    <3> QED
      BY <3>1, <3>2
  <2>7. AttemptInv'
    BY <2>1, <2>2, <2>6, AttemptKept
  <2> QED
    BY <2>4, <2>5, <2>7 DEF EventInv
<1>9. ASSUME NEW s \in Subs, NEW m \in Messages, NEW st \in {"retrying", "dead_lettered"},
             attempt' = Marked(s, m, st), attempt[s][m].state # "none",
             UNCHANGED <<log, offset, inbox, replays, subs, replaySeq, expired, since, restarts>>
      PROVE  EventInv'
  <2>1. /\ attempt' \in [Subs -> [Messages -> [state : States, n : Nat]]]
        /\ \A r \in Subs, k \in Messages : attempt'[r][k].n = attempt[r][k].n
    BY <1>9, MarkedEffect DEF States
  <2>2. EventTypeOK'
    BY <2>1, <1>9, <1>1 DEF EventTypeOK, Accepted
  <2>3. LogInv'
    BY <1>9, <1>1 DEF LogInv, Accepted
  <2>4. AttemptInv'
    <3>1. \A r \in Subs : Checkpoint(r) # None => Checkpoint(r)' # None
      BY <1>9 DEF Checkpoint
    <3>2. st # "acknowledged" /\ st \in {"acknowledged", "retrying", "dead_lettered"}
      OBVIOUS
    <3> QED
      BY <3>1, <3>2, <1>9, AttemptKept
  <2> QED
    BY <2>2, <2>3, <2>4 DEF EventInv
<1>10. ASSUME NEW s \in Subs, NEW m \in Messages, Defer(s, m) \/ Reject(s, m) PROVE EventInv'
  <2>1. /\ \E st \in {"retrying", "dead_lettered"} : attempt' = Marked(s, m, st)
        /\ UNCHANGED <<log, offset, inbox, replays, subs, replaySeq, expired, since, restarts>>
    BY <1>10 DEF Defer, Reject
  <2>2. attempt[s][m].state # "none"
    BY <1>10, AnswerEffect DEF Answer
  <2> QED
    BY <2>1, <2>2, <1>9
<1>11. ASSUME NEW s \in Subs, NEW m \in Messages, ResolveDeadLetter(s, m) PROVE EventInv'
  <2>1. /\ attempt' = Marked(s, m, "retrying") /\ attempt[s][m].state # "none"
        /\ UNCHANGED <<log, offset, inbox, replays, subs, replaySeq, expired, since, restarts>>
    BY <1>11 DEF ResolveDeadLetter
  <2> QED
    BY <2>1, <1>9
<1>12. CASE UNCHANGED eventVars
  BY <1>12, <1>1 DEF eventVars, store, EventInv, EventTypeOK, LogInv, AttemptInv, Accepted, Checkpoint, Processed
<1> QED
  BY <1>2, <1>3, <1>4, <1>5, <1>6, <1>7, <1>8, <1>10, <1>11, <1>12 DEF EventNext, ConsumerNext, Answer

\* Each variable keeps its type, no id is accepted twice and no checkpoint lies
\* past the end of the log, whatever consumers answer.
THEOREM EventTypes == EventSpec => []EventTypeOK
<1>1. EventInv => EventTypeOK
  BY DEF EventInv
<1> QED
  BY <1>1, EventStarts, EventStep, PTL DEF EventSpec

\* An operation that a group has performed is not delivered to it again: no
\* order of answers, late answers, answers given twice or dead letters sent
\* again change that.
THEOREM OnceAcceptedCorrect == EventSpec => OnceAccepted
<1>1. EventInv /\ [EventNext]_eventVars => [SuppressedStep]_eventVars
  <2> SUFFICES ASSUME EventInv, EventNext,
                      NEW s \in Subs, NEW m \in Messages, Delivers(s, m),
                      NEW k \in Accepted, NEW r \in Subs,
                      OpOf[k] # NoOp, OpOf[k] = OpOf[m], GroupOf[r] = GroupOf[s],
                      attempt[r][k].state = "acknowledged"
               PROVE  FALSE
    BY DEF SuppressedStep
  <2>1. k \in Messages
    BY DEF Accepted, EventInv, EventTypeOK
  <2>2. Processed(s, m)
    BY <2>1 DEF EventInv, AttemptInv, Processed
  <2>3. attempt'[s][m].state = "delivered" /\ attempt'[s][m] # attempt[s][m]
    BY DEF Delivers
  <2>4. ASSUME NEW q \in Subs, Poll(q) PROVE FALSE
    <3>1. q = s /\ s \in subs
      BY <2>3, <2>4, PollEffect
    <3>2. m \in Lapsed(s) /\ m \notin Polled(s) => attempt'[s][m].state = "expired"
      <4>1. m \in Lapsed(s) /\ m \notin Polled(s) => attempt'[s][m] = [state |-> "expired", n |-> attempt[s][m].n]
        BY <3>1, <2>4, PollEffect
      <4> QED
        BY <4>1
    <3>3. m \in Polled(s)
      BY <2>3, <2>4, <3>1, <3>2, PollEffect
    <3> QED
      BY <3>1, <3>3, <2>2, PolledPending
  <2>5. ASSUME NEW q \in Subs, NEW j \in Messages, NEW st \in {"acknowledged", "retrying", "dead_lettered"},
               attempt' = Marked(q, j, st)
        PROVE  FALSE
    <3>1. st \in States
      BY DEF States
    <3>2. /\ attempt'[q][j] = [state |-> st, n |-> attempt[q][j].n]
          /\ s # q \/ m # j => attempt'[s][m] = attempt[s][m]
      BY <3>1, <2>5, MarkedEffect
    <3>3. attempt'[q][j].state # "delivered"
      BY <3>2
    <3> QED
      BY <3>2, <3>3, <2>3
  <2>6. ASSUME NEW q \in Subs, NEW j \in Messages, Answer(q, j) \/ ResolveDeadLetter(q, j) PROVE FALSE
    BY <2>5, <2>6 DEF Answer, Accept, Defer, Reject, ResolveDeadLetter
  <2>7. attempt' # attempt
    BY <2>3
  <2> QED
    BY <2>4, <2>6, <2>7 DEF EventNext, ConsumerNext, Publish, Subscribe, Replay, Expire, Restart, store
<1> QED
  BY <1>1, EventStarts, EventStep, PTL DEF EventSpec, OnceAccepted

-----------------------------------------------------------------------------
(* Consumers that answer in turn.                                          *)

\* A subscription with a group to itself answers for itself.
LEMMA Alone ==
  ASSUME InTurn, NEW s \in Subs, NEW m
  PROVE  Settled(s, m) <=> \/ Processed(s, m)
                           \/ attempt[s][m].state \in {"acknowledged", "dead_lettered", "expired"}
BY DEF InTurn, Settled

LEMMA AnsweredInTurn ==
  ASSUME InTurn, NEW s \in Subs, NEW m \in Messages, Answer(s, m)
  PROVE  /\ attempt[s][m].state = "delivered"
         /\ \A i \in 1 .. PlaceOf(m) - 1 : ~ Open(s, log[i])
BY DEF InTurn, Answer, Accept, Defer, Reject, MayAnswer

\* A step keeps each attempt, or is a poll of its subscription or the answer to it.
LEMMA Attempts ==
  ASSUME InTurn, EventInv, [ConsumerNext]_eventVars, NEW s \in Subs, NEW m \in Messages,
         attempt'[s][m] # attempt[s][m]
  PROVE  \/ Poll(s) /\ s \in subs /\ m \in Polled(s) /\ s \notin expired /\ attempt'[s][m].state = "delivered"
         \/ Poll(s) /\ s \in subs /\ m \in Lapsed(s) /\ s \in expired /\ attempt'[s][m].state = "expired"
         \/ /\ Answer(s, m) /\ attempt[s][m].state = "delivered"
            /\ attempt'[s][m].state \in {"acknowledged", "retrying", "dead_lettered"}
<1>1. ASSUME NEW q \in Subs, Poll(q)
      PROVE  \/ Poll(s) /\ s \in subs /\ m \in Polled(s) /\ s \notin expired /\ attempt'[s][m].state = "delivered"
             \/ Poll(s) /\ s \in subs /\ m \in Lapsed(s) /\ s \in expired /\ attempt'[s][m].state = "expired"
  <2>1. q = s /\ s \in subs
    BY <1>1, PollEffect
  <2>2. CASE m \in Polled(s)
    <3>1. attempt'[s][m] = [state |-> "delivered", n |-> Counted(s, attempt[s][m].n)] /\ s \notin expired
      BY <1>1, <2>1, <2>2, PollEffect
    <3>2. attempt'[s][m].state = "delivered"
      BY <3>1
    <3> QED
      BY <3>1, <3>2, <1>1, <2>1, <2>2
  <2>3. CASE m \notin Polled(s)
    <3>1. attempt'[s][m] = [state |-> "expired", n |-> attempt[s][m].n] /\ s \in expired /\ m \in Lapsed(s)
      BY <1>1, <2>1, <2>3, PollEffect
    <3>2. attempt'[s][m].state = "expired"
      BY <3>1
    <3> QED
      BY <3>1, <3>2, <1>1, <2>1
  <2> QED
    BY <2>2, <2>3
<1>2. ASSUME NEW q \in Subs, NEW k \in Messages, Answer(q, k)
      PROVE  /\ Answer(s, m) /\ attempt[s][m].state = "delivered"
             /\ attempt'[s][m].state \in {"acknowledged", "retrying", "dead_lettered"}
  <2>1. PICK st \in {"acknowledged", "retrying", "dead_lettered"} : attempt' = Marked(q, k, st)
    BY <1>2, AnswerEffect
  <2>2. st \in States
    BY DEF States
  <2>3. /\ attempt'[q][k] = [state |-> st, n |-> attempt[q][k].n]
        /\ s # q \/ m # k => attempt'[s][m] = attempt[s][m]
    BY <2>1, <2>2, MarkedEffect
  <2>4. attempt'[q][k].state = st /\ q = s /\ k = m
    BY <2>3
  <2> QED
    BY <2>4, <1>2, AnsweredInTurn
<1> QED
  BY <1>1, <1>2 DEF ConsumerNext, eventVars, store, Publish, Subscribe, Replay, Expire, Restart, InTurn

\* What is performed stays performed, the log only grows, and a subscription
\* that has expired stays so.
LEMMA Grown ==
  ASSUME EventInv, [ConsumerNext]_eventVars
  PROVE  /\ \A s \in Subs, m \in Messages : Processed(s, m) => Processed(s, m)'
         /\ \A i \in DOMAIN log : i \in DOMAIN log' /\ log'[i] = log[i]
         /\ \A m \in Accepted : PlaceOf(m)' = PlaceOf(m)
         /\ expired \subseteq expired'
<1>1. GroupOf \in [Subs -> Groups]
  BY EventIqAssumption
<1>2. \A g \in Groups : inbox[g] \subseteq inbox'[g]
  <2>1. ASSUME NEW s \in Subs, NEW m \in Messages, Answer(s, m)
        PROVE  \A g \in Groups : inbox[g] \subseteq inbox'[g]
    BY <2>1, AcceptEffect DEF Answer, Defer, Reject
  <2> QED
    BY <2>1 DEF ConsumerNext, eventVars, store, Publish, Subscribe, Poll, Replay, Expire, Restart
<1>3. CASE \E m \in Messages : Publish(m)
  <2>1. PICK m \in Messages : Publish(m)
    BY <1>3
  <2>2. /\ \A i \in DOMAIN log : i \in DOMAIN log' /\ log'[i] = log[i]
        /\ \A k \in Accepted : PlaceOf(k)' = PlaceOf(k)
    BY <2>1, Published, Places
  <2>3. expired' = expired
    BY <2>1 DEF Publish
  <2> QED
    BY <2>2, <2>3, <1>1, <1>2 DEF Processed
<1>4. CASE ~ \E m \in Messages : Publish(m)
  <2>1. log' = log /\ expired \subseteq expired'
    BY <1>4 DEF ConsumerNext, eventVars, store, Subscribe, Poll, Replay, Expire, Restart,
                Answer, Accept, Defer, Reject
  <2> QED
    BY <2>1, <1>1, <1>2 DEF Processed, PlaceOf
<1> QED
  BY <1>3, <1>4

\* What is settled stays settled.
LEMMA SettledKept ==
  ASSUME InTurn, EventInv, ExpiredInv, [ConsumerNext]_eventVars,
         NEW s \in Subs, NEW m \in Messages, Settled(s, m)
  PROVE  Settled(s, m)'
<1>1. CASE Processed(s, m)
  BY <1>1, Grown DEF Settled
<1>2. CASE attempt[s][m].state \in {"acknowledged", "dead_lettered", "expired"}
  <2>1. attempt'[s][m].state \in {"acknowledged", "dead_lettered", "expired"}
    <3>1. CASE attempt'[s][m] = attempt[s][m]
      BY <3>1, <1>2
    <3>2. CASE attempt'[s][m] # attempt[s][m]
      <4>1. ASSUME s \in subs, m \in Polled(s), s \notin expired PROVE FALSE
        <5>1. attempt[s][m].state \notin {"dead_lettered", "acknowledged"}
          BY <4>1, PolledPending
        <5> QED
          BY <5>1, <4>1, <1>2 DEF ExpiredInv
      <4> QED
        BY <3>2, <4>1, <1>2, Attempts
    <3> QED
      BY <3>1, <3>2
  <2> QED
    BY <2>1 DEF Settled
<1> QED
  BY <1>1, <1>2, Alone

\* The checkpoint of s moves when s subscribes for the first time, and when s
\* accepts a message further on.
LEMMA Checkpoints ==
  ASSUME InTurn, EventInv, ExpiredInv, [ConsumerNext]_eventVars, NEW s \in Subs,
         Checkpoint(s)' # Checkpoint(s) \/ since'[s] # since[s]
  PROVE  \/ /\ since[s] = None /\ Checkpoint(s) = None
            /\ since'[s] = Len(log) /\ Checkpoint(s)' = Len(log)
            /\ UNCHANGED <<log, attempt>>
         \/ \E m \in Messages : /\ Accept(s, m) /\ s \in subs /\ since'[s] = since[s]
                                /\ Checkpoint(s)' = PlaceOf(m) /\ PlaceOf(m) > Checkpoint(s)
                                /\ PlaceOf(m) \in DOMAIN log /\ log[PlaceOf(m)] = m
<1>1. ASSUME NEW q \in Subs, Subscribe(q)
      PROVE  /\ since[s] = None /\ Checkpoint(s) = None
             /\ since'[s] = Len(log) /\ Checkpoint(s)' = Len(log)
             /\ UNCHANGED <<log, attempt>>
  <2>1. q = s
    <3>1. q # s => GroupOf[q] # GroupOf[s]
      BY DEF InTurn
    <3> QED
      BY <3>1, <1>1, SubscribeEffect
  <2>2. since[s] = None
    <3>1. since[s] # None => Checkpoint(s) # None
      BY DEF EventInv, AttemptInv
    <3> QED
      BY <3>1, <2>1, <1>1, SubscribeEffect
  <2>3. Checkpoint(s) = None
    BY <2>2 DEF ExpiredInv
  <2> QED
    BY <2>1, <2>2, <2>3, <1>1, SubscribeEffect DEF Subscribe
<1>2. ASSUME NEW q \in Subs, NEW m \in Messages, Accept(q, m)
      PROVE  /\ Accept(s, m) /\ s \in subs /\ since'[s] = since[s]
             /\ Checkpoint(s)' = PlaceOf(m) /\ PlaceOf(m) > Checkpoint(s)
             /\ PlaceOf(m) \in DOMAIN log /\ log[PlaceOf(m)] = m
  <2>1. q = s
    <3>1. q # s => GroupOf[q] # GroupOf[s]
      BY DEF InTurn
    <3> QED
      BY <3>1, <1>2, AcceptEffect DEF Accept
  <2>2. since'[s] = since[s] /\ s \in subs
    BY <1>2, <2>1 DEF Accept, MayAnswer
  <2>3. Checkpoint(s)' = Advanced(Checkpoint(s), PlaceOf(m))
    BY <1>2, <2>1, AcceptEffect
  <2>4. m \in Accepted
    BY <1>2, AnswerEffect DEF Answer
  <2> QED
    BY <2>1, <2>2, <2>3, <2>4, <1>2, Places DEF Advanced
<1> QED
  BY <1>1, <1>2 DEF ConsumerNext, eventVars, store, Publish, Poll, Replay, Expire, Restart,
                    Answer, Defer, Reject, Checkpoint

LEMMA OpenAheadStep ==
  ASSUME InTurn, EventInv, OpenAhead, ExpiredInv, [ConsumerNext]_eventVars
  PROVE  OpenAhead'
<1> SUFFICES ASSUME NEW s \in Subs, NEW m \in Messages, Open(s, m)'
             PROVE  PlaceOf(m)' > Checkpoint(s)'
  BY DEF OpenAhead
<1>1. m \in Accepted /\ PlaceOf(m)' = PlaceOf(m) /\ PlaceOf(m) > Checkpoint(s) /\ s \in Subs
  <2>1. CASE attempt'[s][m] = attempt[s][m]
    <3>1. Open(s, m)
      BY <2>1 DEF Open
    <3>2. m \in Accepted
      BY <3>1 DEF Open, EventInv, AttemptInv
    <3> QED
      BY <3>1, <3>2, Grown DEF OpenAhead
  <2>2. CASE attempt'[s][m] # attempt[s][m]
    <3>1. CASE s \in subs /\ m \in Polled(s)
      BY <3>1, PolledPending, Grown
    <3>2. CASE Answer(s, m) /\ attempt[s][m].state = "delivered"
      <4>1. Open(s, m) /\ m \in Accepted
        BY <3>2, AnswerEffect DEF Open
      <4> QED
        BY <4>1, Grown DEF OpenAhead
    <3>3. attempt'[s][m].state # "expired"
      BY DEF Open
    <3> QED
      BY <2>2, <3>1, <3>2, <3>3, Attempts
  <2> QED
    BY <2>1, <2>2
<1>2. CASE Checkpoint(s)' = Checkpoint(s)
  BY <1>1, <1>2
<1>3. CASE Checkpoint(s)' # Checkpoint(s)
  <2>1. CASE since[s] = None /\ attempt' = attempt
    BY <2>1 DEF Open, EventInv, AttemptInv
  <2>2. CASE \E k \in Messages : /\ Accept(s, k) /\ Checkpoint(s)' = PlaceOf(k)
                                 /\ PlaceOf(k) \in DOMAIN log /\ log[PlaceOf(k)] = k
    <3>1. PICK k \in Messages : /\ Accept(s, k) /\ Checkpoint(s)' = PlaceOf(k)
                                /\ PlaceOf(k) \in DOMAIN log /\ log[PlaceOf(k)] = k
      BY <2>2
    <3>2. \A i \in 1 .. PlaceOf(k) - 1 : ~ Open(s, log[i])
      BY <3>1, AnsweredInTurn DEF Answer
    <3>3. attempt' = Marked(s, k, "acknowledged") /\ "acknowledged" \in States
      BY <3>1 DEF Accept, States
    <3>4. /\ attempt'[s][k] = [state |-> "acknowledged", n |-> attempt[s][k].n]
          /\ m # k => attempt'[s][m] = attempt[s][m]
      BY <3>3, MarkedEffect
    <3>5. attempt'[s][k].state = "acknowledged"
      BY <3>4
    <3>6. m # k /\ Open(s, m)
      BY <3>4, <3>5 DEF Open
    <3>7. PlaceOf(m) \in DOMAIN log /\ log[PlaceOf(m)] = m /\ DOMAIN log = 1 .. Len(log) /\ Len(log) \in Nat
      BY <1>1, Places
    <3>8. ~ (PlaceOf(m) \in 1 .. PlaceOf(k) - 1)
      BY <3>2, <3>6, <3>7
    <3>9. PlaceOf(m) # PlaceOf(k)
      BY <3>1, <3>6, <3>7
    <3> QED
      BY <3>1, <3>7, <3>8, <3>9, <1>1
  <2> QED
    BY <1>3, <2>1, <2>2, Checkpoints
<1> QED
  BY <1>2, <1>3

LEMMA ExpiredStep ==
  ASSUME InTurn, EventInv, ExpiredInv, [ConsumerNext]_eventVars
  PROVE  ExpiredInv'
<1> SUFFICES ASSUME NEW s \in Subs
             PROVE  /\ since'[s] = None => Checkpoint(s)' = None
                    /\ \A m \in Messages : attempt'[s][m].state = "expired" => s \in expired'
  BY DEF ExpiredInv
<1>1. ASSUME since'[s] = None PROVE Checkpoint(s)' = None
  <2>1. CASE Checkpoint(s)' = Checkpoint(s) /\ since'[s] = since[s]
    BY <1>1, <2>1 DEF ExpiredInv
  <2>2. Len(log) # None
    BY Places DEF None
  <2>3. s \in subs => since[s] # None
    BY DEF EventInv, AttemptInv
  <2> QED
    BY <1>1, <2>1, <2>2, <2>3, Checkpoints
<1>2. ASSUME NEW m \in Messages, attempt'[s][m].state = "expired" PROVE s \in expired'
  <2>1. CASE attempt'[s][m] = attempt[s][m]
    BY <1>2, <2>1, Grown DEF ExpiredInv
  <2>2. CASE attempt'[s][m] # attempt[s][m]
    BY <1>2, <2>2, Attempts, Grown
  <2> QED
    BY <2>1, <2>2
<1> QED
  BY <1>1, <1>2

\* A poll takes the first of what is pending.
LEMMA FirstClosed ==
  ASSUME NEW n \in Nat, NEW S \in SUBSET (1 .. n), NEW k \in Nat,
         NEW i \in S, NEW j \in First(S, k), i < j
  PROVE  i \in First(S, k)
<1> DEFINE Before(x) == {y \in S : y < x}
<1>1. IsFiniteSet(1 .. n)
  BY FS_Interval
<1>2. IsFiniteSet(Before(j)) /\ Before(i) \subseteq Before(j)
  <2>1. Before(j) \subseteq 1 .. n
    OBVIOUS
  <2>2. IsFiniteSet(Before(j))
    BY <1>1, <2>1, FS_Subset
  <2>3. i \in Nat /\ j \in Nat /\ \A y \in S : y \in Nat
    BY DEF First
  <2>4. \A y \in S : y < i => y < j
    BY <2>3
  <2> QED
    BY <2>2, <2>4
<1>3. Cardinality(Before(i)) <= Cardinality(Before(j))
      /\ Cardinality(Before(i)) \in Nat /\ Cardinality(Before(j)) \in Nat
  <2> HIDE DEF Before
  <2> QED
    BY <1>2, FS_Subset, FS_CardinalityType
<1>4. Cardinality(Before(j)) < k
  BY DEF First
<1>5. Cardinality(Before(i)) < k
  <2> HIDE DEF Before
  <2> QED
    BY <1>3, <1>4
<1> QED
  BY <1>5 DEF First

LEMMA GapsStep ==
  ASSUME InTurn, EventInv, ExpiredInv, NoGaps, NoLoss, [ConsumerNext]_eventVars
  PROVE  NoGaps'
<1> SUFFICES ASSUME NEW s \in Subs \ Ordered, since'[s] # None,
                    NEW i \in DOMAIN log', NEW j \in DOMAIN log',
                    since'[s] < i, i < j, log'[i] \in Receives[s],
                    attempt'[s][log'[j]].state # "none",
                    attempt'[s][log'[i]].state = "none", ~ Settled(s, log[i])'
             PROVE  FALSE
  BY DEF NoGaps
<1>0. Len(log) \in Nat /\ DOMAIN log = 1 .. Len(log)
  BY Places
<1>1. EventInv'
  BY EventStep DEF EventNext
<1>2. log'[i] \in Messages /\ log'[j] \in Messages
  BY <1>1 DEF EventInv, EventTypeOK
<1>3. i \in DOMAIN log /\ j \in DOMAIN log /\ log'[i] = log[i] /\ log'[j] = log[j]
  <2>1. CASE log' = log
    BY <2>1
  <2>2. CASE log' # log
    <3>1. PICK m \in Messages : Publish(m)
      BY <2>2 DEF ConsumerNext, eventVars, store, Subscribe, Poll, Replay, Expire, Restart,
                Answer, Accept, Defer, Reject
    <3>2. /\ DOMAIN log' = 1 .. Len(log) + 1 /\ m \notin Accepted /\ log'[Len(log) + 1] = m
          /\ \A q \in DOMAIN log : log'[q] = log[q]
      BY <3>1, Published
    <3>3. attempt'[s][m].state = "none"
      BY <3>1, <3>2 DEF Publish, EventInv, AttemptInv
    <3>4. j # Len(log) + 1
      BY <3>2, <3>3
    <3> QED
      BY <3>2, <3>4, <1>0
  <2> QED
    BY <2>1, <2>2
<1>4. log[i] \in Messages /\ log[j] \in Messages
  BY <1>2, <1>3
<1>5. ~ Settled(s, log[i])
  BY <1>3, <1>4, SettledKept
<1>6. attempt[s][log[i]].state = "none"
  <2>1. CASE attempt'[s][log[i]] = attempt[s][log[i]]
    BY <2>1, <1>3
  <2>2. CASE attempt'[s][log[i]] # attempt[s][log[i]]
    BY <2>2, <1>3, <1>4, Attempts
  <2> QED
    BY <2>1, <2>2
<1>7. since'[s] = since[s]
  <2>1. ASSUME since'[s] # since[s] PROVE FALSE
    <3>1. since'[s] = Len(log)
      BY <2>1, Checkpoints
    <3> QED
      BY <3>1, <1>0, <1>3
  <2> QED
    BY <2>1
<1>8. attempt[s][log[j]].state = "none"
  BY <1>3, <1>5, <1>6, <1>7 DEF NoGaps
<1>9. attempt'[s][log[j]] # attempt[s][log[j]]
  BY <1>3, <1>8
<1>10. /\ s \in subs /\ Poll(s)
       /\ \/ log[j] \in Polled(s) /\ s \notin expired
          \/ log[j] \in Lapsed(s) /\ s \in expired
  BY <1>4, <1>8, <1>9, Attempts
<1>11. Checkpoint(s) \in 0 .. Len(log)
  BY <1>7, CheckpointType
<1>12. i > Checkpoint(s)
  <2>1. ASSUME ~(i > Checkpoint(s)) PROVE FALSE
    <3>1. since[s] \in None .. Len(log)
      BY CheckpointType
    <3>2. i \in since[s] + 1 .. Checkpoint(s)
      BY <2>1, <3>1, <1>0, <1>3, <1>7, <1>11 DEF None
    <3> QED
      BY <3>2, <1>3, <1>5, <1>7 DEF NoLoss, PassesOnlySettled
  <2> QED
    BY <2>1
<1>13. i \in Heads(s)
  <2>1. ~ Processed(s, log[i])
    BY <1>5 DEF Settled
  <2>2. i \in Pending(s)
    BY <2>1, <1>0, <1>3, <1>6, <1>11, <1>12 DEF Pending
  <2> QED
    BY <2>2 DEF Heads
<1>14. log[i] \in Polled(s) \cup Lapsed(s)
  <2>1. CASE s \in expired
    BY <2>1, <1>13 DEF Lapsed
  <2>2. CASE s \notin expired /\ log[j] \in Polled(s)
    <3>1. PICK q \in First(Heads(s), Limit) : log[q] = log[j]
      BY <2>2 DEF Polled
    <3>2. Heads(s) \subseteq Pending(s) /\ Pending(s) \subseteq 1 .. Len(log)
      BY <1>0, <1>11 DEF Heads, Pending
    <3>3. q \in Heads(s)
      BY <3>1 DEF First
    <3>4. q = j
      BY <3>1, <3>2, <3>3, <1>0, <1>3 DEF EventInv, LogInv
    <3>5. i \in First(Heads(s), Limit)
      <4>1. Limit \in Nat /\ Heads(s) \in SUBSET (1 .. Len(log)) /\ j \in First(Heads(s), Limit)
        BY EventIqAssumption, <3>1, <3>2, <3>4
      <4> QED
        BY <4>1, <1>0, <1>13, FirstClosed
    <3> QED
      BY <2>2, <3>5 DEF Polled
  <2> QED
    BY <2>1, <2>2, <1>10
<1>15. attempt'[s][log[i]].state \in {"delivered", "expired"}
  <2>1. CASE log[i] \in Polled(s)
    <3>1. attempt'[s][log[i]] = [state |-> "delivered", n |-> Counted(s, attempt[s][log[i]].n)]
      BY <2>1, <1>4, <1>10, PollEffect
    <3> QED
      BY <3>1
  <2>2. CASE log[i] \notin Polled(s) /\ log[i] \in Lapsed(s)
    <3>1. attempt'[s][log[i]] = [state |-> "expired", n |-> attempt[s][log[i]].n]
      BY <2>2, <1>4, <1>10, PollEffect
    <3> QED
      BY <3>1
  <2> QED
    BY <2>1, <2>2, <1>14
<1> QED
  BY <1>3, <1>15

LEMMA LossStep ==
  ASSUME InTurn, EventInv, ExpiredInv, NoGaps, NoLoss, [ConsumerNext]_eventVars
  PROVE  NoLoss'
<1> SUFFICES ASSUME NEW s \in Subs \ Ordered, since'[s] # None,
                    NEW i \in since'[s] + 1 .. Checkpoint(s)', log'[i] \in Receives[s]
             PROVE  Settled(s, log[i])'
  BY DEF NoLoss, PassesOnlySettled
<1>0. Len(log) \in Nat /\ DOMAIN log = 1 .. Len(log)
      /\ \A q \in DOMAIN log : log'[q] = log[q] /\ log[q] \in Messages
  BY Places, Grown
<1>1. CASE Checkpoint(s)' = Checkpoint(s) /\ since'[s] = since[s]
  <2>1. Checkpoint(s) \in 0 .. Len(log) /\ since[s] \in None .. Len(log)
    BY <1>1, CheckpointType
  <2>2. since[s] # None /\ i \in since[s] + 1 .. Checkpoint(s)
    BY <1>1
  <2>3. since[s] \in 0 .. Len(log)
    BY <2>1, <2>2 DEF None
  <2>4. i \in DOMAIN log
    BY <2>1, <2>2, <2>3, <1>0
  <2>5. log'[i] = log[i] /\ log[i] \in Messages
    BY <2>4, <1>0
  <2>6. Settled(s, log[i])
    BY <2>2, <2>5 DEF NoLoss, PassesOnlySettled
  <2> QED
    BY <2>5, <2>6, SettledKept
<1>2. CASE since'[s] = Len(log) /\ Checkpoint(s)' = Len(log)
  BY <1>0, <1>2
<1>3. CASE \E m \in Messages : /\ Accept(s, m) /\ s \in subs /\ since'[s] = since[s]
                               /\ Checkpoint(s)' = PlaceOf(m) /\ PlaceOf(m) > Checkpoint(s)
                               /\ PlaceOf(m) \in DOMAIN log /\ log[PlaceOf(m)] = m
  <2>1. PICK m \in Messages : /\ Accept(s, m) /\ s \in subs /\ since'[s] = since[s]
                               /\ Checkpoint(s)' = PlaceOf(m) /\ PlaceOf(m) > Checkpoint(s)
                               /\ PlaceOf(m) \in DOMAIN log /\ log[PlaceOf(m)] = m
    BY <1>3
  <2>2. Checkpoint(s) \in 0 .. Len(log) /\ since[s] \in None .. Len(log) /\ since[s] # None
    BY <2>1, CheckpointType
  <2>3. since[s] \in 0 .. Len(log)
    BY <2>2 DEF None
  <2>4. i \in DOMAIN log /\ i \in since[s] + 1 .. PlaceOf(m) /\ i <= PlaceOf(m)
    BY <2>1, <2>3, <1>0
  <2>5. log'[i] = log[i] /\ log[i] \in Messages /\ log[i] \in Receives[s]
    BY <2>4, <1>0
  <2>6. CASE i <= Checkpoint(s)
    <3>1. i \in since[s] + 1 .. Checkpoint(s)
      BY <2>2, <2>3, <2>4, <2>6
    <3>2. Settled(s, log[i])
      BY <3>1, <2>2, <2>5 DEF NoLoss, PassesOnlySettled
    <3> QED
      BY <3>2, <2>5, SettledKept
  <2>7. CASE i = PlaceOf(m)
    <3>1. attempt' = Marked(s, m, "acknowledged") /\ "acknowledged" \in States
      BY <2>1 DEF Accept, States
    <3>2. attempt'[s][m] = [state |-> "acknowledged", n |-> attempt[s][m].n]
      BY <3>1, MarkedEffect
    <3>3. attempt'[s][m].state = "acknowledged"
      BY <3>2
    <3> QED
      BY <3>3, <2>1, <2>5, <2>7 DEF Settled
  <2>8. CASE i < PlaceOf(m)
    <3>1. attempt[s][m].state = "delivered" /\ ~ Open(s, log[i])
      <4>1. i \in 1 .. PlaceOf(m) - 1
        BY <2>4, <2>8, <2>1, <1>0
      <4> QED
        BY <4>1, <2>1, AnsweredInTurn DEF Answer
    <3>2. since[s] < i
      BY <2>3, <2>4
    <3>3. attempt[s][log[i]].state # "none" \/ Settled(s, log[i])
      BY <3>1, <3>2, <2>1, <2>2, <2>4, <2>5, <2>8 DEF NoGaps
    <3>4. attempt[s][log[i]].state \in States
      BY <2>5 DEF EventInv, EventTypeOK
    <3>5. Settled(s, log[i])
      BY <3>1, <3>3, <3>4 DEF Open, States, Settled
    <3> QED
      BY <3>5, <2>5, SettledKept
  <2> QED
    BY <2>1, <2>4, <2>6, <2>7, <2>8, <1>0
<1> QED
  BY <1>1, <1>2, <1>3, Checkpoints

LEMMA InTurnInit ==
  ASSUME EventInit
  PROVE  InTurnInv
<1>1. /\ \A s \in Subs : since[s] = None
      /\ \A s \in Subs, m \in Messages : attempt[s][m].state = "none"
      /\ \A s \in Subs : Checkpoint(s) = None
  BY EventIqAssumption DEF EventInit, Unseen, Checkpoint
<1>2. OpenAhead /\ ExpiredInv
  BY <1>1 DEF OpenAhead, ExpiredInv, Open
<1>3. NoGaps /\ NoLoss
  BY <1>1 DEF NoGaps, NoLoss, PassesOnlySettled
<1> QED
  BY <1>2, <1>3 DEF InTurnInv

LEMMA InTurnStep ==
  ASSUME InTurn
  PROVE  EventInv /\ InTurnInv /\ [ConsumerNext]_eventVars => InTurnInv'
<1> SUFFICES ASSUME EventInv, InTurnInv, [ConsumerNext]_eventVars PROVE InTurnInv'
  OBVIOUS
<1>1. OpenAhead'
  BY OpenAheadStep DEF InTurnInv
<1>2. ExpiredInv'
  BY ExpiredStep DEF InTurnInv
<1>3. NoGaps'
  BY GapsStep DEF InTurnInv
<1>4. NoLoss'
  BY LossStep DEF InTurnInv
<1> QED
  BY <1>1, <1>2, <1>3, <1>4 DEF InTurnInv

\* At-least-once: what the checkpoint passes, of the events that were published
\* for a subscription that does not ask for order, has been answered; across
\* restarts and expiries, for consumers that answer in turn.
THEOREM NoLossCorrect ==
  ASSUME InTurn
  PROVE  ConsumerSpec => []NoLoss
<1>1. EventInit => EventInv /\ InTurnInv
  BY EventStarts, InTurnInit
<1>2. EventInv /\ InTurnInv /\ [ConsumerNext]_eventVars => (EventInv /\ InTurnInv)'
  BY EventStep, InTurnStep DEF EventNext
<1>3. InTurnInv => NoLoss
  BY DEF InTurnInv
<1> QED
  BY <1>1, <1>2, <1>3, PTL DEF ConsumerSpec

\* A delivery that was promised again is ahead of the checkpoint, so that a poll
\* still reaches it; for ordered subscriptions too.
THEOREM RetryCorrect ==
  ASSUME InTurn
  PROVE  ConsumerSpec => []RetryReachable
<1>1. EventInit => EventInv /\ InTurnInv
  BY EventStarts, InTurnInit
<1>2. EventInv /\ InTurnInv /\ [ConsumerNext]_eventVars => (EventInv /\ InTurnInv)'
  BY EventStep, InTurnStep DEF EventNext
<1>3. InTurnInv => RetryReachable
  BY DEF InTurnInv, OpenAhead, RetryReachable, Open
<1> QED
  BY <1>1, <1>2, <1>3, PTL DEF ConsumerSpec

\* An ordered subscription is never handed an event while an earlier one of its
\* key is open there.
THEOREM FifoCorrect ==
  ASSUME InTurn
  PROVE  ConsumerSpec => FifoWithinKey
<1>1. EventInit => EventInv /\ InTurnInv
  BY EventStarts, InTurnInit
<1>2. EventInv /\ InTurnInv /\ [ConsumerNext]_eventVars => (EventInv /\ InTurnInv)'
  BY EventStep, InTurnStep DEF EventNext
<1>3. EventInv /\ InTurnInv /\ [ConsumerNext]_eventVars => [FifoStep]_eventVars
  <2> SUFFICES ASSUME EventInv, OpenAhead, [ConsumerNext]_eventVars,
                      NEW s \in Ordered, NEW m \in Messages, KeyOf[m] # NoKey, Delivers(s, m),
                      NEW i \in 1 .. PlaceOf(m) - 1, KeyOf[log[i]] = KeyOf[m],
                      Open(s, log[i])'
               PROVE  Processed(s, log[i])
    BY DEF InTurnInv, FifoStep
  <2>1. s \in Subs
    BY EventIqAssumption
  <2>2. attempt'[s][m].state = "delivered" /\ attempt'[s][m] # attempt[s][m]
    BY DEF Delivers
  <2>3. Poll(s) /\ s \in subs /\ m \in Polled(s) /\ s \notin expired
    BY <2>1, <2>2, Attempts
  <2>4. /\ m \in Accepted /\ PlaceOf(m) \in Heads(s) /\ PlaceOf(m) \in DOMAIN log
        /\ log[PlaceOf(m)] = m /\ DOMAIN log = 1 .. Len(log) /\ Len(log) \in Nat
    BY <2>3, PolledPending, Places
  <2>5. i \notin Pending(s)
    BY <2>4 DEF Heads
  <2>6. i \in DOMAIN log /\ log[i] \in Messages /\ PlaceOf(log[i]) = i /\ log' = log
    BY <2>3, <2>4, Places DEF Poll
  <2>7. attempt'[s][log[i]].state \in {"delivered", "retrying"}
    BY <2>6 DEF Open
  <2>8. attempt'[s][log[i]] = attempt[s][log[i]]
    <3>1. ASSUME log[i] \in Polled(s) PROVE FALSE
      BY <3>1, <2>3, <2>5, <2>6, PolledPending
    <3>2. ASSUME attempt'[s][log[i]] # attempt[s][log[i]] PROVE FALSE
      BY <3>1, <3>2, <2>1, <2>3, <2>6, PollEffect
    <3> QED
      BY <3>2
  <2>9. Open(s, log[i]) /\ i > Checkpoint(s) /\ log[i] \in Receives[s]
    BY <2>1, <2>6, <2>7, <2>8 DEF Open, OpenAhead, EventInv, AttemptInv
  <2>10. Checkpoint(s) \in None .. Len(log)
    BY <2>1, CheckpointType
  <2>11. i \in Checkpoint(s) + 1 .. Len(log)
    BY <2>4, <2>6, <2>9, <2>10 DEF None
  <2> QED
    BY <2>5, <2>7, <2>8, <2>9, <2>11 DEF Pending
<1> QED
  BY <1>1, <1>2, <1>3, PTL DEF ConsumerSpec, FifoWithinKey

-----------------------------------------------------------------------------
(***************************************************************************)
(* The parts side by side.  What is proved of any workflow is cited of the *)
(* one whose calls end in time, by instantiating the proofs as its module  *)
(* is instantiated.                                                        *)
(***************************************************************************)

OnTimeProofs == INSTANCE WorkflowProofs WITH
  Passes <- OnTime,
  Owner <- [p \in OnTime |-> IF p = order THEN north ELSE IF p = sweepA THEN south ELSE east],
  Call <- [p \in OnTime |-> IF p = order THEN "start" ELSE "sweep"],
  NeedAuth <- {}, GiveAuth <- {}, LeaseMs <- 2, SlowPasses <- FALSE, VersionCap <- 20,
  wf <- timelyWf, pc <- timelyPc, cur <- timelyCur, effects <- timelyEffects,
  crashes <- timelyCrashes, stops <- timelyStops

\* What the proofs assume of the constants is true of those.
LEMMA TimelyAssumption ==
  /\ [p \in OnTime |-> IF p = order THEN north ELSE IF p = sweepA THEN south ELSE east]
       \in [OnTime -> Instances]
  /\ [p \in OnTime |-> IF p = order THEN "start" ELSE "sweep"]
       \in [OnTime -> {"start", "resume", "sweep"}]
  /\ NumSteps \in Nat
  /\ Compensable \subseteq OnTimeProofs!Steps
  /\ {} \subseteq OnTimeProofs!Steps
  /\ 2 \in Nat \ {0}
  /\ Nobody \notin Instances
  /\ FALSE \in BOOLEAN
  /\ MaxCrashes \in Nat /\ MaxStops \in Nat /\ 20 \in Nat
BY WorkflowAssumption, InstancesDiffer DEF Steps, OnTimeProofs!Steps

\* Its calls end in time, each of an instance of its own.
LEMMA TimelyInTime == OnTimeProofs!CallsInTime
BY InstancesDiffer DEF OnTimeProofs!CallsInTime, OnTime

LEMMA TimelyStarts == Timely!Init => OnTimeProofs!Init
BY Zenon DEF Timely!Init, OnTimeProofs!Init, Timely!Fresh, OnTimeProofs!Fresh, Timely!Steps,
             OnTimeProofs!Steps

\* The two instances are of the same definitions.
LEMMA TimelySteps == [Timely!Next]_(Timely!vars) => [OnTimeProofs!Next]_(OnTimeProofs!vars)
BY Zenon
   DEF Timely!Next, OnTimeProofs!Next, Timely!StartLoad, OnTimeProofs!StartLoad,
       Timely!ResumeLoad, OnTimeProofs!ResumeLoad, Timely!SweepList, OnTimeProofs!SweepList,
       Timely!Proceed, OnTimeProofs!Proceed, Timely!StartCreate, OnTimeProofs!StartCreate,
       Timely!Claim, OnTimeProofs!Claim, Timely!Block, OnTimeProofs!Block, Timely!Stop,
       OnTimeProofs!Stop, Timely!Run, OnTimeProofs!Run, Timely!SaveStep,
       OnTimeProofs!SaveStep, Timely!SaveFailure, OnTimeProofs!SaveFailure, Timely!Finish,
       OnTimeProofs!Finish, Timely!Undo, OnTimeProofs!Undo, Timely!SaveUndo,
       OnTimeProofs!SaveUndo, Timely!GiveUp, OnTimeProofs!GiveUp, Timely!Unwound,
       OnTimeProofs!Unwound, Timely!Crash, OnTimeProofs!Crash, Timely!Tick,
       OnTimeProofs!Tick, Timely!Later, OnTimeProofs!Later, Timely!Less1,
       OnTimeProofs!Less1, Timely!LastOf, OnTimeProofs!LastOf, Timely!ToUndo,
       OnTimeProofs!ToUndo, Timely!Ran, OnTimeProofs!Ran, Timely!Blocked,
       OnTimeProofs!Blocked, Timely!NextStep, OnTimeProofs!NextStep, Timely!Remaining,
       OnTimeProofs!Remaining, Timely!WorksOn, OnTimeProofs!WorksOn, Timely!Unclaimed,
       OnTimeProofs!Unclaimed, Timely!Leased, OnTimeProofs!Leased, Timely!Available,
       OnTimeProofs!Available, Timely!Persist, OnTimeProofs!Persist, Timely!Saved,
       OnTimeProofs!Saved, Timely!Current, OnTimeProofs!Current, Timely!End,
       OnTimeProofs!End, Timely!Goto, OnTimeProofs!Goto, Timely!At, OnTimeProofs!At,
       Timely!Exists, OnTimeProofs!Exists, Timely!Working, OnTimeProofs!Working,
       Timely!Fresh, OnTimeProofs!Fresh, Timely!Steps, OnTimeProofs!Steps,
       Timely!historyVars, OnTimeProofs!historyVars, Timely!passVars, OnTimeProofs!passVars,
       Timely!vars, OnTimeProofs!vars

LEMMA TimelyProperty == OnTimeProofs!EffectsMatchRecord => TimelyEffects
BY Zenon
   DEF TimelyEffects, Timely!EffectsMatchRecord, OnTimeProofs!EffectsMatchRecord,
       Timely!Steps, OnTimeProofs!Steps

\* A step of the whole is a step of one part, and the others stand still.
LEMMA StepOfOnePart ==
  ASSUME [CoordinationNext]_<<allVars, consensusVars, stockVars, eventVars>>
  PROVE  /\ [Next]_vars
         /\ [Timely!Next]_(Timely!vars)
         /\ [ConsensusNext]_consensusVars
         /\ [StockNext]_stockVars
         /\ [EventNext]_eventVars
<1>1. timelyVars' = timelyVars => UNCHANGED (Timely!vars)
  BY DEF timelyVars, Timely!vars, Timely!passVars, Timely!historyVars
<1>2. CASE UNCHANGED <<allVars, consensusVars, stockVars, eventVars>>
  BY <1>1, <1>2 DEF allVars
<1>3. CASE MCNext /\ UNCHANGED <<consensusVars, stockVars, eventVars>>
  BY <1>1, <1>3 DEF MCNext, InTime
<1>4. CASE ConsensusNext /\ UNCHANGED <<allVars, stockVars, eventVars>>
  BY <1>1, <1>4 DEF allVars
<1>5. CASE StockNext /\ UNCHANGED <<allVars, consensusVars, eventVars>>
  BY <1>1, <1>5 DEF allVars
<1>6. CASE EventNext /\ UNCHANGED <<allVars, consensusVars, stockVars>>
  BY <1>1, <1>6 DEF allVars
<1> QED
  BY <1>2, <1>3, <1>4, <1>5, <1>6 DEF CoordinationNext

\* What is proved of each part holds of the whole that the run checks.
THEOREM CoordinationOfParts ==
  CoordinationSpec => Spec /\ OnTimeProofs!Spec /\ ConsensusSpec /\ StockSpec /\ EventSpec
<1>1. CoordinationInit => Init /\ OnTimeProofs!Init /\ ConsensusInit /\ StockInit /\ EventInit
  BY TimelyStarts DEF CoordinationInit, MCInit
<1>2. [CoordinationNext]_<<allVars, consensusVars, stockVars, eventVars>>
        => /\ [Next]_vars
           /\ [OnTimeProofs!Next]_(OnTimeProofs!vars)
           /\ [ConsensusNext]_consensusVars
           /\ [StockNext]_stockVars
           /\ [EventNext]_eventVars
  BY StepOfOnePart, TimelySteps
<1> QED
  BY <1>1, <1>2, PTL
     DEF CoordinationSpec, Spec, OnTimeProofs!Spec, ConsensusSpec, StockSpec, EventSpec

\* Every variable of workflow, replicas, stock and EventIQ keeps its type while
\* they run side by side.
THEOREM CoordinationTypesCorrect == CoordinationSpec => []CoordinationTypes
<1> QED
  BY CoordinationOfParts, TypeCorrect, ConsensusTypes, StockTypes, EventTypes, PTL
     DEF CoordinationTypes

\* Of calls that end in time, a start and the sweeps of two other instances:
\* until a crash each step's effect is in the world exactly when the record says
\* that it is complete.
THEOREM TimelyEffectsCorrect == CoordinationSpec => []TimelyEffects
<1>1. OnTimeProofs!CallsInTime
  BY TimelyInTime
<1>2. OnTimeProofs!Spec => []OnTimeProofs!EffectsMatchRecord
  BY <1>1, TimelyAssumption, OnTimeProofs!EffectsCorrect, PTL
<1> QED
  BY <1>2, CoordinationOfParts, TimelyProperty, PTL

LEMMA TimelyClaims == OnTimeProofs!ImplementsExclusiveWork => TimelyExclusiveWork
BY Zenon
   DEF TimelyExclusiveWork, Timely!ImplementsExclusiveWork, OnTimeProofs!ImplementsExclusiveWork,
       Timely!Exclusive!Spec, OnTimeProofs!Exclusive!Spec, Timely!Exclusive!Init,
       OnTimeProofs!Exclusive!Init, Timely!Exclusive!Next, OnTimeProofs!Exclusive!Next,
       Timely!Exclusive!Take, OnTimeProofs!Exclusive!Take, Timely!Exclusive!Lose,
       OnTimeProofs!Exclusive!Lose, Timely!Leaseholders, OnTimeProofs!Leaseholders,
       Timely!Working, OnTimeProofs!Working

\* The leases of the same calls are exclusive: what the store grants implements
\* ExclusiveWork.
THEOREM TimelyClaimsCorrect == CoordinationSpec => TimelyExclusiveWork
<1>1. OnTimeProofs!CallsInTime
  BY TimelyInTime
<1>2. OnTimeProofs!Spec => OnTimeProofs!ImplementsExclusiveWork
  BY <1>1, TimelyAssumption, OnTimeProofs!LeaseImplementsExclusive, PTL
<1> QED
  BY <1>2, CoordinationOfParts, TimelyClaims, PTL

\* The properties of the parts, of the whole: copies that are current and final
\* states that are honest and stay, if no call of the other workflow sweeps; one
\* topology per epoch; the ledger of stock, if settlements wait for each other;
\* one hold for what one process is asked twice; and nothing accepted twice.
THEOREM CoordinationCorrect ==
  ASSUME NoSweeps, SettledInTurn, OneProcessEach
  PROVE  CoordinationSpec =>
           /\ [](CopiesAreCurrent /\ HonestOutcome /\ LedgerExact /\ OneHoldPerOperation)
           /\ TerminalStays
           /\ ImplementsOneTopology /\ ImplementsAtomicStock /\ OnceAccepted
<1> QED
  BY CoordinationOfParts, CopiesCorrect, HonestCorrect, LedgerCorrect, OneHoldCorrect,
     TerminalCorrect, ConsensusImplementsTopology, StockImplementsAtomic, OnceAcceptedCorrect, PTL
=============================================================================
