-------------------------- MODULE BusinessProofs --------------------------
(***************************************************************************)
(* Work orders, and what MCBusiness puts together.                         *)
(*                                                                         *)
(* One work order per key, for any hosts, keys, inputs and calls, however  *)
(* often the store of claims and the log do not answer.  What makes it so  *)
(* is that the log and the answers only ever repeat what was claimed, and  *)
(* that a claim is made once.                                              *)
(***************************************************************************)
EXTENDS MCBusiness, FinanceProofs

\* A claim is for the key of the call that made it.
ClaimsOwnKey ==
  \A k \in DOMAIN InitialClaims : claimed[k] # NoCall => KeyOf[claimed[k]] = k

\* Whoever appends, has appended, or was answered, goes by the claim of its key.
ByTheClaim ==
  /\ \A c \in created : claimed[KeyOf[c]] = c
  /\ \A c \in Creates :
       /\ call[c].at = "append" => claimed[KeyOf[c]] = c
       /\ call[c].order # NoCall => claimed[KeyOf[c]] = call[c].order

\* Calls join calls of the same key.
JoinedSameKey == \A c \in Creates : KeyOf[leads[c]] = KeyOf[c]

IntakeInv == IntakeTypeOK /\ ClaimsOwnKey /\ ByTheClaim /\ JoinedSameKey

-----------------------------------------------------------------------------

\* Keys are where the claims are kept, and calls are told from none.
LEMMA KeysClaimed ==
  /\ \A c \in Creates : KeyOf[c] \in DOMAIN InitialClaims
  /\ NoCall \notin Creates
  BY IntakeAssumption DEF InitialClaims

\* What a call is answered with, the calls that joined it are answered with.
LEMMA AnswerKeepsInv ==
  ASSUME IntakeInv, NEW c \in Creates, NEW order \in Creates \cup {NoCall},
         Answered(c, order), UNCHANGED leads,
         IntakeTypeOK', ClaimsOwnKey',
         \A k \in DOMAIN InitialClaims : claimed[k] # NoCall => claimed'[k] = claimed[k],
         \A d \in created' : claimed'[KeyOf[d]] = d,
         order # NoCall => claimed'[KeyOf[c]] = order
  PROVE  IntakeInv'
  <1>1. JoinedSameKey'
    BY DEF IntakeInv, JoinedSameKey
  <1>2. ASSUME NEW d \in Creates
        PROVE  /\ call'[d].at = "append" => claimed'[KeyOf[d]] = d
               /\ call'[d].order # NoCall => claimed'[KeyOf[d]] = call'[d].order
    <2>1. CASE d = c \/ (call[d].at = "joined" /\ leads[d] = c)
      <3>1. call'[d] = [at |-> "done", order |-> order]
        BY <2>1 DEF Answered
      <3>2. KeyOf[d] = KeyOf[c]
        BY <2>1 DEF IntakeInv, JoinedSameKey
      <3>3. QED
        BY <3>1, <3>2
    <2>2. CASE ~(d = c \/ (call[d].at = "joined" /\ leads[d] = c))
      <3>1. call'[d] = call[d]
        BY <2>2 DEF Answered
      <3>2. /\ call[d].at = "append" => claimed[KeyOf[d]] = d
            /\ call[d].order # NoCall => claimed[KeyOf[d]] = call[d].order
        BY DEF IntakeInv, ByTheClaim
      <3>3. claimed[KeyOf[d]] # NoCall => claimed'[KeyOf[d]] = claimed[KeyOf[d]]
        BY KeysClaimed
      <3>4. QED
        BY <3>1, <3>2, <3>3, KeysClaimed
    <2>3. QED
      BY <2>1, <2>2
  <1>3. ByTheClaim'
    BY <1>2 DEF ByTheClaim
  <1>4. QED
    BY <1>1, <1>3 DEF IntakeInv

\* Answers keep their shape.
LEMMA AnswerTyped ==
  ASSUME IntakeTypeOK, NEW c \in Creates, NEW order \in Creates \cup {NoCall},
         Answered(c, order)
  PROVE  call' \in [Creates -> [at : {"new", "claim", "append", "joined", "done"},
                                order : Creates \cup {NoCall}]]
  BY DEF IntakeTypeOK, Answered

LEMMA IntakeStarts == IntakeInit => IntakeInv
  <1> SUFFICES ASSUME IntakeInit
               PROVE  IntakeInv
    OBVIOUS
  <1>1. IntakeTypeOK
    BY DEF IntakeInit, IntakeTypeOK, NoAnswer, InitialClaims
  <1>2. ClaimsOwnKey /\ JoinedSameKey
    BY DEF IntakeInit, ClaimsOwnKey, JoinedSameKey, InitialClaims
  <1>3. ByTheClaim
    BY DEF IntakeInit, ByTheClaim, NoAnswer
  <1>4. QED
    BY <1>1, <1>2, <1>3 DEF IntakeInv

LEMMA ExecuteKeeps ==
  ASSUME IntakeInv, NEW c \in Creates, Execute(c)
  PROVE  IntakeInv'
  <1>1. IntakeTypeOK'
    BY DEF IntakeInv, IntakeTypeOK, Execute, NoAnswer, Running
  <1>2. ClaimsOwnKey'
    BY DEF IntakeInv, ClaimsOwnKey, Execute
  <1>3. JoinedSameKey'
    BY DEF IntakeInv, IntakeTypeOK, JoinedSameKey, Execute, Running
  <1>4. ByTheClaim'
    BY DEF IntakeInv, IntakeTypeOK, ByTheClaim, Execute, NoAnswer
  <1>5. QED
    BY <1>1, <1>2, <1>3, <1>4 DEF IntakeInv

LEMMA ClaimKeeps ==
  ASSUME IntakeInv, NEW c \in Creates, Claim(c)
  PROVE  IntakeInv'
  <1>1. IntakeTypeOK'
    BY KeysClaimed DEF IntakeInv, IntakeTypeOK, Claim, NoAnswer
  <1>2. ClaimsOwnKey'
    BY KeysClaimed DEF IntakeInv, IntakeTypeOK, ClaimsOwnKey, Claim
  <1>3. JoinedSameKey'
    BY DEF IntakeInv, JoinedSameKey, Claim
  <1>4. ByTheClaim'
    <2>1. \A d \in Creates : claimed[KeyOf[d]] # NoCall => claimed'[KeyOf[d]] = claimed[KeyOf[d]]
      BY KeysClaimed DEF IntakeInv, IntakeTypeOK, Claim, Free
    <2>2. \A d \in created' : claimed'[KeyOf[d]] = d
      BY <2>1, KeysClaimed DEF IntakeInv, IntakeTypeOK, ByTheClaim, Claim
    <2>3. claimed'[KeyOf[c]] = c /\ call'[c] = NoAnswer("append")
      BY KeysClaimed DEF IntakeInv, IntakeTypeOK, Claim
    <2>4. \A d \in Creates \ {c} : call'[d] = call[d]
      BY DEF IntakeInv, IntakeTypeOK, Claim
    <2>5. \A d \in Creates :
            /\ call'[d].at = "append" => claimed'[KeyOf[d]] = d
            /\ call'[d].order # NoCall => claimed'[KeyOf[d]] = call'[d].order
      BY <2>1, <2>3, <2>4, KeysClaimed DEF IntakeInv, ByTheClaim, NoAnswer
    <2>6. QED
      BY <2>2, <2>5 DEF ByTheClaim
  <1>5. QED
    BY <1>1, <1>2, <1>3, <1>4 DEF IntakeInv

LEMMA ResolveKeeps ==
  ASSUME IntakeInv, NEW c \in Creates, Resolve(c)
  PROVE  IntakeInv'
  <1> DEFINE existing == claimed[KeyOf[c]]
             order == IF InputOf[existing] = InputOf[c] THEN existing ELSE NoCall
  <1>1. order \in Creates \cup {NoCall} /\ Answered(c, order)
    BY KeysClaimed DEF IntakeInv, IntakeTypeOK, Resolve
  <1>2. IntakeTypeOK'
    BY <1>1, AnswerTyped DEF IntakeInv, IntakeTypeOK, Resolve
  <1>3. ClaimsOwnKey' /\ \A d \in created' : claimed'[KeyOf[d]] = d
    BY DEF IntakeInv, ClaimsOwnKey, ByTheClaim, Resolve
  <1>4. QED
    BY <1>1, <1>2, <1>3, AnswerKeepsInv DEF Resolve

LEMMA CreateKeeps ==
  ASSUME IntakeInv, NEW c \in Creates, Create(c)
  PROVE  IntakeInv'
  <1>1. claimed[KeyOf[c]] = c
    BY DEF IntakeInv, ByTheClaim, Create
  <1>2. IntakeTypeOK'
    BY AnswerTyped DEF IntakeInv, IntakeTypeOK, Create
  <1>3. ClaimsOwnKey' /\ \A d \in created' : claimed'[KeyOf[d]] = d
    BY <1>1 DEF IntakeInv, ClaimsOwnKey, ByTheClaim, Create
  <1>4. QED
    BY <1>1, <1>2, <1>3, AnswerKeepsInv DEF Create

LEMMA FailureKeeps ==
  ASSUME IntakeInv, NEW c \in Creates, IntakeFails(c)
  PROVE  IntakeInv'
  <1>1. IntakeTypeOK'
    BY AnswerTyped, KeysClaimed DEF IntakeInv, IntakeTypeOK, IntakeFails
  <1>2. \A k \in DOMAIN InitialClaims : claimed[k] # NoCall => claimed'[k] = claimed[k]
    BY KeysClaimed DEF IntakeInv, IntakeTypeOK, IntakeFails, Free
  <1>3. ClaimsOwnKey'
    BY KeysClaimed DEF IntakeInv, IntakeTypeOK, ClaimsOwnKey, IntakeFails
  <1>4. \A d \in created' : claimed'[KeyOf[d]] = d
    <2>1. \A d \in created : claimed'[KeyOf[d]] = d
      BY <1>2, KeysClaimed DEF IntakeInv, IntakeTypeOK, ByTheClaim
    <2>2. \A d \in created' \ created : d = c /\ call[c].at = "append" /\ claimed' = claimed
      BY DEF IntakeFails
    <2>3. QED
      BY <2>1, <2>2 DEF IntakeInv, ByTheClaim
  <1>5. QED
    BY <1>1, <1>2, <1>3, <1>4, AnswerKeepsInv DEF IntakeFails

LEMMA IntakeAlways == IntakeSpec => []IntakeInv
  <1>1. IntakeInv /\ [IntakeNext]_intakeVars => IntakeInv'
    <2> SUFFICES ASSUME IntakeInv, [IntakeNext]_intakeVars
                 PROVE  IntakeInv'
      OBVIOUS
    <2>1. CASE UNCHANGED intakeVars
      BY <2>1 DEF intakeVars, IntakeInv, IntakeTypeOK, ClaimsOwnKey, ByTheClaim, JoinedSameKey
    <2>2. CASE IntakeNext
      BY <2>2, ExecuteKeeps, ClaimKeeps, ResolveKeeps, CreateKeeps, FailureKeeps DEF IntakeNext
    <2>3. QED
      BY <2>1, <2>2
  <1>2. QED
    BY <1>1, IntakeStarts, PTL DEF IntakeSpec

-----------------------------------------------------------------------------

\* The claims, the calls and the log of created work orders keep their types.
THEOREM IntakeTypes == IntakeSpec => []IntakeTypeOK
  <1>1. IntakeInv => IntakeTypeOK
    BY DEF IntakeInv
  <1>2. QED
    BY <1>1, IntakeAlways, PTL

\* createWorkOrderUseCase ends at one work order for a key, whichever hosts,
\* retries and joined calls race for it and whichever of them fail.
THEOREM OneOrderCorrect == IntakeSpec => []OneOrderPerKey
  <1>1. IntakeInv => OneOrderPerKey
    <2> SUFFICES ASSUME IntakeInv
                 PROVE  OneOrderPerKey
      OBVIOUS
    <2>1. \A c, d \in created : KeyOf[c] = KeyOf[d] => c = d
      BY DEF IntakeInv, ByTheClaim
    <2>2. ASSUME NEW c \in Creates, call[c].order # NoCall
          PROVE  /\ KeyOf[call[c].order] = KeyOf[c]
                 /\ \A d \in created : KeyOf[d] = KeyOf[c] => call[c].order = d
      BY <2>2, KeysClaimed DEF IntakeInv, ByTheClaim, ClaimsOwnKey
    <2>3. QED
      BY <2>1, <2>2 DEF OneOrderPerKey
  <1>2. QED
    BY <1>1, IntakeAlways, PTL

-----------------------------------------------------------------------------
(* The replay of a log: what Folded is, event by event.                    *)

After(events, summary, a, st, n) ==
  IF n <= a THEN summary ELSE Reduced(st[n - 1], events[n], n)

IsReplay(events, summary, a, b, st) ==
  st = [n \in 0 .. b |-> After(events, summary, a, st, n)]

LEMMA ReplayExists ==
  ASSUME NEW events, NEW summary, NEW a \in Nat, NEW b \in Nat
  PROVE  \E st : IsReplay(events, summary, a, b, st)
<1> DEFINE P == {k \in Nat : \E st : IsReplay(events, summary, a, k, st)}
<1>1. 0 \in P
  <2> DEFINE st == [k \in 0 .. 0 |-> summary]
  <2>1. st = [k \in 0 .. 0 |-> After(events, summary, a, st, k)]
    BY DEF After
  <2> QED
    BY <2>1 DEF IsReplay
<1>2. ASSUME NEW k \in Nat, k \in P PROVE k + 1 \in P
  <2>1. PICK st : IsReplay(events, summary, a, k, st)
    BY <1>2
  <2> DEFINE new == [j \in 0 .. k + 1 |-> After(events, summary, a, st, j)]
  <2>2. \A j \in 0 .. k : st[j] = new[j]
    BY <2>1 DEF IsReplay
  <2>3. \A j \in 0 .. k + 1 : After(events, summary, a, st, j) = After(events, summary, a, new, j)
    <3>1. \A j \in 0 .. k + 1 : ~(j <= a) => j - 1 \in 0 .. k
      OBVIOUS
    <3> HIDE DEF new
    <3> QED
      BY <2>2, <3>1 DEF After
  <2>4. new = [j \in 0 .. k + 1 |-> After(events, summary, a, new, j)]
    BY <2>3
  <2>5. IsReplay(events, summary, a, k + 1, new)
    BY <2>4 DEF IsReplay
  <2> QED
    BY <2>5
<1>3. Nat \subseteq P
  <2> HIDE DEF P
  <2> QED
    BY <1>1, <1>2, NatSetInduction
<1> QED
  BY <1>3

LEMMA FoldedSteps ==
  ASSUME NEW events, NEW summary, NEW a \in Nat, NEW b \in Nat
  PROVE  \E st : /\ Folded(events, summary, a, b) = st[b]
                 /\ \A n \in 0 .. b : st[n] = After(events, summary, a, st, n)
<1> DEFINE st == CHOOSE st : IsReplay(events, summary, a, b, st)
<1>1. IsReplay(events, summary, a, b, st)
  BY ReplayExists
<1>2. Folded(events, summary, a, b) = st[b]
  BY DEF Folded, IsReplay, After
<1> HIDE DEF st
<1>3. \A n \in 0 .. b : st[n] = After(events, summary, a, st, n)
  BY <1>1 DEF IsReplay
<1> QED
  BY <1>2, <1>3

\* A replay of no event changes nothing, and each event is applied to what the
\* events before it gave.
LEMMA FoldedNone ==
  ASSUME NEW events, NEW summary, NEW a \in Nat
  PROVE  Folded(events, summary, a, a) = summary
<1>1. PICK st : /\ Folded(events, summary, a, a) = st[a]
                /\ \A n \in 0 .. a : st[n] = After(events, summary, a, st, n)
  BY FoldedSteps
<1> QED
  BY <1>1 DEF After

LEMMA FoldedNext ==
  ASSUME NEW events, NEW summary, NEW a \in Nat, NEW b \in Nat, a <= b
  PROVE  Folded(events, summary, a, b + 1)
           = Reduced(Folded(events, summary, a, b), events[b + 1], b + 1)
<1>1. PICK st : /\ Folded(events, summary, a, b) = st[b]
                /\ \A n \in 0 .. b : st[n] = After(events, summary, a, st, n)
  BY FoldedSteps
<1>2. PICK su : /\ Folded(events, summary, a, b + 1) = su[b + 1]
                /\ \A n \in 0 .. b + 1 : su[n] = After(events, summary, a, su, n)
  <2>1. b + 1 \in Nat
    OBVIOUS
  <2> QED
    BY <2>1, FoldedSteps
<1> DEFINE P == {n \in Nat : n <= b => st[n] = su[n]}
<1>3. 0 \in P
  BY <1>1, <1>2 DEF After
<1>4. ASSUME NEW n \in Nat, n \in P PROVE n + 1 \in P
  <2>1. CASE n + 1 <= b
    <3>1. n \in 0 .. b /\ n + 1 \in 0 .. b /\ n + 1 \in 0 .. b + 1 /\ (n + 1) - 1 = n
      BY <2>1
    <3>2. st[n] = su[n]
      BY <1>4, <3>1
    <3>3. st[n + 1] = After(events, summary, a, st, n + 1) /\ su[n + 1] = After(events, summary, a, su, n + 1)
      BY <3>1, <1>1, <1>2
    <3> QED
      BY <3>1, <3>2, <3>3 DEF After
  <2> QED
    BY <2>1
<1>5. Nat \subseteq P
  <2> HIDE DEF P
  <2> QED
    BY <1>3, <1>4, NatSetInduction
<1>6. st[b] = su[b]
  BY <1>5
<1>7. su[b + 1] = Reduced(su[b], events[b + 1], b + 1)
  <2>1. b + 1 \in 0 .. b + 1 /\ ~(b + 1 <= a) /\ (b + 1) - 1 = b
    OBVIOUS
  <2> QED
    BY <2>1, <1>2 DEF After
<1> QED
  BY <1>1, <1>2, <1>6, <1>7

\* A replay that begins where another ended goes on with it.
LEMMA FoldedOn ==
  ASSUME NEW events, NEW summary, NEW a \in Nat, NEW b \in Nat, a <= b
  PROVE  Folded(events, summary, 0, b)
           = Folded(events, Folded(events, summary, 0, a), a, b)
<1> DEFINE base == Folded(events, summary, 0, a)
           P == {n \in Nat : a <= n => Folded(events, summary, 0, n) = Folded(events, base, a, n)}
<1>1. 0 \in P
  BY FoldedNone
<1>2. ASSUME NEW n \in Nat, n \in P PROVE n + 1 \in P
  <2>1. CASE a <= n
    <3> HIDE DEF base
    <3>1. Folded(events, summary, 0, n) = Folded(events, base, a, n)
      BY <2>1, <1>2
    <3>2. Folded(events, summary, 0, n + 1) = Reduced(Folded(events, summary, 0, n), events[n + 1], n + 1)
      BY FoldedNext
    <3>3. Folded(events, base, a, n + 1) = Reduced(Folded(events, base, a, n), events[n + 1], n + 1)
      BY <2>1, FoldedNext
    <3> QED
      BY <3>1, <3>2, <3>3
  <2>2. CASE a = n + 1
    BY <2>2, FoldedNone
  <2>3. CASE ~(a <= n + 1)
    BY <2>3
  <2> QED
    BY <2>1, <2>2, <2>3
<1>3. Nat \subseteq P
  <2> HIDE DEF P
  <2> QED
    BY <1>1, <1>2, NatSetInduction
<1> QED
  BY <1>3

SameUpTo(events, more, b) == \A n \in 1 .. b : more[n] = events[n]

\* The replay of the first b events depends on no others.
LEMMA FoldedPrefix ==
  ASSUME NEW events, NEW more, NEW summary, NEW b \in Nat, SameUpTo(events, more, b)
  PROVE  Folded(more, summary, 0, b) = Folded(events, summary, 0, b)
<1> DEFINE P == {n \in Nat : n <= b => Folded(more, summary, 0, n) = Folded(events, summary, 0, n)}
<1>1. 0 \in P
  BY FoldedNone
<1>2. ASSUME NEW n \in Nat, n \in P PROVE n + 1 \in P
  <2>1. CASE n + 1 <= b
    <3>1. n + 1 \in 1 .. b /\ n <= b
      BY <2>1
    <3>2. more[n + 1] = events[n + 1]
      BY <3>1 DEF SameUpTo
    <3>3. Folded(more, summary, 0, n) = Folded(events, summary, 0, n)
      BY <3>1, <1>2
    <3>4. Folded(more, summary, 0, n + 1) = Reduced(Folded(more, summary, 0, n), more[n + 1], n + 1)
      BY FoldedNext
    <3>5. Folded(events, summary, 0, n + 1) = Reduced(Folded(events, summary, 0, n), events[n + 1], n + 1)
      BY FoldedNext
    <3> QED
      BY <3>2, <3>3, <3>4, <3>5
  <2> QED
    BY <2>1
<1>3. Nat \subseteq P
  <2> HIDE DEF P
  <2> QED
    BY <1>1, <1>2, NatSetInduction
<1> QED
  BY <1>3

-----------------------------------------------------------------------------
(* The floor.                                                              *)

Happened(events, s) == \E m \in DOMAIN events : events[m] = Event("completed", s)

\* A summary of at most n events that says no more than the log does.
Typed(summary, n) ==
  summary \in [states : [Steps -> Range(StateAfter) \cup {"pending"}],
               pauses : 0 .. n, milestone : ToSet(Milestones),
               terminal : {"none", "completed", "cancelled"}, last : 0 .. n]
Backed(events, summary) ==
  \A s \in Steps :
    /\ summary.states[s] = "completed" => Happened(events, s)
    /\ summary.states[s] # "pending" => \A d \in DependsOn[s] : Happened(events, d)

\* What an event may say when the log says the rest.
Grounded(events, event) ==
  /\ event \in FloorEvents
  /\ event.type \in DOMAIN StateAfter => \A d \in DependsOn[event.about] : Happened(events, d)
  /\ event \in {Event("order", "completed"), Event("milestone", "ready_for_pickup"),
                Event("milestone", "completed")}
       => \A s \in Steps \ Optional : Happened(events, s)

Replays(summary, n) ==
  /\ summary.last \in 0 .. n
  /\ summary = Folded(log, Routed, 0, summary.last)

LogSound ==
  log \in Seq(FloorEvents) /\ Len(log) <= MaxEvents /\ InDependencyOrder(log)

CacheSound ==
  /\ cache = {} \/ \E summary : cache = {summary}
  /\ \A summary \in cache : Replays(summary, Len(log))

\* What a get started from is of the log as it was then.
ReadsSound ==
  /\ DOMAIN reads = Users
  /\ \A u \in Users : \A read \in reads[u] :
       /\ read.from \in 0 .. Len(log)
       /\ \A summary \in read.base : Replays(summary, read.from)

ViewsSound ==
  /\ DOMAIN view = Users
  /\ \A u \in Users : Typed(view[u], Len(log)) /\ Backed(log, view[u])

FloorInv == LogSound /\ CacheSound /\ ReadsSound /\ ViewsSound /\ view = [u \in Users |-> view[u]]

LEMMA Vocabulary ==
  /\ DOMAIN StateAfter = {"ready", "started", "paused", "resumed", "completed", "blocked"}
  /\ \A type \in DOMAIN StateAfter :
       /\ StateAfter[type] \in Range(StateAfter) /\ StateAfter[type] # "pending"
       /\ StateAfter[type] = "completed" <=> type = "completed"
  /\ ToSet(Milestones) = {"intake", "routed", "in_production", "quality_check",
                          "ready_for_pickup", "completed"}
<1>1. DOMAIN StateAfter = {"ready", "started", "paused", "resumed", "completed", "blocked"}
  BY DEF StateAfter
<1>2. \A type \in DOMAIN StateAfter :
        /\ StateAfter[type] \in Range(StateAfter) /\ StateAfter[type] # "pending"
        /\ StateAfter[type] = "completed" <=> type = "completed"
  <2>1. \A type \in DOMAIN StateAfter : StateAfter[type] \in Range(StateAfter)
    BY DEF Range
  <2> QED
    BY <2>1 DEF StateAfter
<1>3. ToSet(Milestones) = {"intake", "routed", "in_production", "quality_check",
                           "ready_for_pickup", "completed"}
  BY DEF ToSet, Milestones
<1> QED
  BY <1>1, <1>2, <1>3

\* What each event does to a summary.
LEMMA AppliedCases ==
  ASSUME NEW event \in FloorEvents, NEW n \in Nat, NEW summary, Typed(summary, n)
  PROVE  /\ Typed(Applied(summary, event), n + 1)
         /\ Applied(summary, event).last = summary.last
         /\ Applied(summary, event).pauses \in 0 .. summary.pauses + 1
         /\ event.type \in DOMAIN StateAfter
              => /\ event.about \in Steps
                 /\ event = Event(event.type, event.about)
                 /\ Applied(summary, event).states
                      = [summary.states EXCEPT ![event.about] = StateAfter[event.type]]
         /\ event.type \notin DOMAIN StateAfter
              => Applied(summary, event).states = summary.states
<1> DEFINE T == Range(StateAfter) \cup {"pending"}
<1>0. /\ summary.states \in [Steps -> T] /\ summary.pauses \in 0 .. n
      /\ summary.milestone \in ToSet(Milestones)
      /\ summary.terminal \in {"none", "completed", "cancelled"} /\ summary.last \in 0 .. n
      /\ summary = [states |-> summary.states, pauses |-> summary.pauses,
                    milestone |-> summary.milestone, terminal |-> summary.terminal,
                    last |-> summary.last]
  BY DEF Typed
<1>1. CASE \E type \in DOMAIN StateAfter, s \in Steps : event = Event(type, s)
  <2>1. PICK type \in DOMAIN StateAfter, s \in Steps : event = Event(type, s)
    BY <1>1
  <2>2. event.type = type /\ event.about = s
    BY <2>1 DEF Event
  <2> DEFINE states == [summary.states EXCEPT ![s] = StateAfter[type]]
             pauses == summary.pauses + IF type = "paused" THEN 1 ELSE 0
  <2>3. states \in [Steps -> T] /\ pauses \in 0 .. n + 1 /\ pauses \in 0 .. summary.pauses + 1
    BY <1>0, <2>1, Vocabulary
  <2>4. Applied(summary, event)
          = [states |-> states, pauses |-> pauses, milestone |-> summary.milestone,
             terminal |-> summary.terminal, last |-> summary.last]
    <3>1. Applied(summary, event) = [summary EXCEPT !.states = states, !.pauses = pauses]
      <4>1. /\ event.type \in DOMAIN StateAfter
            /\ event.type # "milestone" /\ event.type # "order"
        BY <2>1, <2>2, Vocabulary
      <4>2. Applied(summary, event)
              = [summary EXCEPT !.states[event.about] = StateAfter[event.type],
                                !.pauses = summary.pauses + IF event.type = "paused" THEN 1 ELSE 0]
        BY <4>1 DEF Applied
      <4>3. Applied(summary, event)
              = [summary EXCEPT !.states = [summary.states EXCEPT ![event.about] = StateAfter[event.type]],
                                !.pauses = summary.pauses + IF event.type = "paused" THEN 1 ELSE 0]
        BY <4>2
      <4> QED
        BY <4>3, <2>2
    <3> QED
      BY <3>1, <1>0
  <2>5. summary.last \in 0 .. n + 1
    BY <1>0
  <2> HIDE DEF states, pauses, T
  <2>6. Typed(Applied(summary, event), n + 1)
    BY <2>3, <2>4, <2>5, <1>0 DEF Typed, T
  <2> QED
    BY <2>1, <2>2, <2>3, <2>4, <2>6 DEF states
<1>2. CASE \/ \E s \in Steps : event = Event("annotated", s)
           \/ \E milestone \in ToSet(Milestones) : event = Event("milestone", milestone)
           \/ \E terminal \in {"completed", "cancelled"} : event = Event("order", terminal)
  <2>1. /\ event.type \in {"annotated", "milestone", "order"}
        /\ event.type = "milestone" => event.about \in ToSet(Milestones)
        /\ event.type = "order" => event.about \in {"completed", "cancelled"}
    BY <1>2 DEF Event
  <2>2. event.type \notin DOMAIN StateAfter
    BY <2>1, Vocabulary
  <2>3. Applied(summary, event)
          = [states |-> summary.states, pauses |-> summary.pauses,
             milestone |-> IF event.type = "milestone" THEN event.about ELSE summary.milestone,
             terminal |-> IF event.type = "order" THEN event.about ELSE summary.terminal,
             last |-> summary.last]
    BY <1>0, <2>1, <2>2 DEF Applied
  <2>4. summary.last \in 0 .. n + 1 /\ summary.pauses \in 0 .. n + 1
        /\ summary.pauses \in 0 .. summary.pauses + 1
    BY <1>0
  <2> HIDE DEF T
  <2>5. Typed(Applied(summary, event), n + 1)
    BY <2>1, <2>3, <2>4, <1>0 DEF Typed, T
  <2> QED
    BY <2>2, <2>3, <2>4, <2>5
<1> QED
  BY <1>1, <1>2 DEF FloorEvents

\* A grounded event leaves a summary backed.
LEMMA AppliedBacked ==
  ASSUME NEW events, NEW event, Grounded(events, event), NEW n \in Nat, NEW summary,
         Typed(summary, n), Backed(events, summary),
         \A s \in Steps : event = Event("completed", s) => Happened(events, s)
  PROVE  Backed(events, Applied(summary, event))
<1>1. event \in FloorEvents
  BY DEF Grounded
<1>2. CASE event.type \in DOMAIN StateAfter
  <2>1. /\ event.about \in Steps /\ event = Event(event.type, event.about)
        /\ Applied(summary, event).states
             = [summary.states EXCEPT ![event.about] = StateAfter[event.type]]
    BY ONLY AppliedCases, <1>1, <1>2, n \in Nat, Typed(summary, n)
  <2>2. summary.states \in [Steps -> Range(StateAfter) \cup {"pending"}]
    BY DEF Typed
  <2>3. \A d \in DependsOn[event.about] : Happened(events, d)
    BY <1>2 DEF Grounded
  <2>4. StateAfter[event.type] = "completed" => Happened(events, event.about)
    BY <1>2, <2>1, Vocabulary
  <2>5. ASSUME NEW s \in Steps
        PROVE  /\ Applied(summary, event).states[s] = "completed" => Happened(events, s)
               /\ Applied(summary, event).states[s] # "pending"
                    => \A d \in DependsOn[s] : Happened(events, d)
    <3>1. CASE s = event.about
      BY <3>1, <2>1, <2>2, <2>3, <2>4
    <3>2. CASE s # event.about
      BY <3>2, <2>1, <2>2 DEF Backed
    <3> QED
      BY <3>1, <3>2
  <2> QED
    BY <2>5 DEF Backed
<1>3. CASE event.type \notin DOMAIN StateAfter
  <2>1. Applied(summary, event).states = summary.states
    <3>1. summary = [states |-> summary.states, pauses |-> summary.pauses,
                     milestone |-> summary.milestone, terminal |-> summary.terminal,
                     last |-> summary.last]
      BY DEF Typed
    <3>2. Applied(summary, event)
            = IF event.type = "milestone" THEN [summary EXCEPT !.milestone = event.about]
              ELSE IF event.type = "order" THEN [summary EXCEPT !.terminal = event.about]
              ELSE summary
      BY <1>3 DEF Applied
    <3> QED
      BY ONLY <3>1, <3>2
  <2> QED
    BY <2>1 DEF Backed
<1> QED
  BY <1>2, <1>3

\* Every event of a log in order is grounded in it.
LEMMA LogGrounded ==
  ASSUME NEW events \in Seq(FloorEvents), InDependencyOrder(events), NEW n \in 1 .. Len(events)
  PROVE  /\ Grounded(events, events[n])
         /\ \A s \in Steps : events[n] = Event("completed", s) => Happened(events, s)
<1>1. n \in DOMAIN events /\ events[n] \in FloorEvents
  OBVIOUS
<1>2. \A s : (\E m \in 1 .. n - 1 : events[m] = Event("completed", s)) => Happened(events, s)
  BY DEF Happened
<1>3. \A s \in Steps : events[n] = Event("completed", s) => Happened(events, s)
  BY <1>1 DEF Happened
<1> QED
  BY <1>1, <1>2, <1>3 DEF Grounded, InDependencyOrder

\* The replay of the first n events.
LEMMA ReplaySound ==
  ASSUME NEW events \in Seq(FloorEvents), InDependencyOrder(events), NEW n \in 0 .. Len(events)
  PROVE  /\ Typed(Folded(events, Routed, 0, n), n)
         /\ Folded(events, Routed, 0, n).last = n
         /\ Backed(events, Folded(events, Routed, 0, n))
<1> DEFINE F(k) == Folded(events, Routed, 0, k)
           P == {k \in Nat : k <= Len(events) => /\ Typed(F(k), k) /\ F(k).last = k
                                                 /\ Backed(events, F(k))}
<1>0. Len(events) \in Nat
  OBVIOUS
<1>1. 0 \in P
  <2>1. F(0) = Routed
    BY FoldedNone
  <2>2. Typed(Routed, 0) /\ Routed.last = 0 /\ Backed(events, Routed)
    <3>1. "intake" \in ToSet(Milestones)
      BY Vocabulary
    <3> QED
      BY <3>1 DEF Typed, Routed, Backed
  <2> HIDE DEF F
  <2> QED
    BY <2>1, <2>2
<1>2. ASSUME NEW k \in Nat, k \in P PROVE k + 1 \in P
  <2> SUFFICES ASSUME k + 1 <= Len(events)
               PROVE  /\ Typed(F(k + 1), k + 1) /\ F(k + 1).last = k + 1
                      /\ Backed(events, F(k + 1))
    OBVIOUS
  <2>1. Typed(F(k), k) /\ Backed(events, F(k))
    BY <1>2, <1>0
  <2>2. /\ Grounded(events, events[k + 1]) /\ events[k + 1] \in FloorEvents
        /\ \A s \in Steps : events[k + 1] = Event("completed", s) => Happened(events, s)
    <3>1. k + 1 \in 1 .. Len(events)
      BY <1>0
    <3> QED
      BY <3>1, LogGrounded DEF Grounded
  <2> DEFINE a == Applied(F(k), events[k + 1])
  <2>3. F(k + 1) = [a EXCEPT !.last = k + 1]
    BY FoldedNext DEF Reduced
  <2>4. Typed(a, k + 1) /\ Backed(events, a)
    <3> HIDE DEF F
    <3> QED
      BY <2>1, <2>2, AppliedCases, AppliedBacked
  <2> HIDE DEF a, F
  <2>5. Typed(F(k + 1), k + 1) /\ F(k + 1).last = k + 1 /\ F(k + 1).states = a.states
    BY <2>3, <2>4 DEF Typed
  <2> QED
    BY <2>5, <2>4 DEF Backed
<1>3. Nat \subseteq P
  <2> HIDE DEF P
  <2> QED
    BY <1>1, <1>2, NatSetInduction
<1> QED
  BY <1>3, <1>0

LEMMA FloorStarts == FloorInit => FloorInv
<1> SUFFICES ASSUME FloorInit PROVE FloorInv
  OBVIOUS
<1>1. LogSound
  BY FirstLogAssumption DEF FloorInit, LogSound
<1>2. \A u \in Users : view[u] = Folded(log, Routed, 0, Len(log))
  BY DEF FloorInit
<1>3. Len(log) \in 0 .. Len(log)
  BY <1>1 DEF LogSound
<1>4. ViewsSound /\ view = [u \in Users |-> view[u]]
  BY <1>1, <1>2, <1>3, ReplaySound DEF ViewsSound, LogSound, FloorInit
<1>5. CacheSound /\ ReadsSound
  BY DEF FloorInit, CacheSound, ReadsSound
<1> QED
  BY <1>1, <1>4, <1>5 DEF FloorInv

\* A longer log replays the same, and says what the shorter one said.
LEMMA LogGrows ==
  ASSUME LogSound, NEW event \in FloorEvents, log' = Append(log, event)
  PROVE  /\ Len(log) \in Nat /\ Len(log') = Len(log) + 1 /\ log' \in Seq(FloorEvents)
         /\ DOMAIN log = 1 .. Len(log) /\ DOMAIN log' = 1 .. Len(log) + 1
         /\ \A m \in DOMAIN log : log'[m] = log[m]
         /\ log'[Len(log) + 1] = event
         /\ \A s : Happened(log, s) => Happened(log', s)
         /\ \A n \in 0 .. Len(log) : Folded(log', Routed, 0, n) = Folded(log, Routed, 0, n)
<1>1. /\ Len(log) \in Nat /\ Len(log') = Len(log) + 1 /\ log' \in Seq(FloorEvents)
      /\ DOMAIN log = 1 .. Len(log) /\ DOMAIN log' = 1 .. Len(log) + 1
      /\ \A m \in DOMAIN log : log'[m] = log[m]
      /\ log'[Len(log) + 1] = event
  BY DEF LogSound
<1>2. \A s : Happened(log, s) => Happened(log', s)
  BY <1>1 DEF Happened
<1>3. ASSUME NEW n \in 0 .. Len(log)
      PROVE  Folded(log', Routed, 0, n) = Folded(log, Routed, 0, n)
  <2>1. n \in Nat /\ SameUpTo(log, log', n)
    BY <1>1 DEF SameUpTo
  <2> QED
    BY <2>1, FoldedPrefix
<1> QED
  BY <1>1, <1>2, <1>3

\* Appending a grounded event.
LEMMA AppendKeepsInv ==
  ASSUME FloorInv, NEW u \in Users, NEW event, Grounded(log, event), AppendEvent(u, event)
  PROVE  FloorInv'
<1>0. event \in FloorEvents /\ LogSound
  BY DEF Grounded, FloorInv
<1>1. log' = Append(log, event) /\ Len(log) < MaxEvents /\ cache' = cache /\ reads' = reads
  BY DEF AppendEvent
<1>2. /\ Len(log) \in Nat /\ Len(log') = Len(log) + 1 /\ log' \in Seq(FloorEvents)
      /\ DOMAIN log = 1 .. Len(log) /\ DOMAIN log' = 1 .. Len(log) + 1
      /\ \A m \in DOMAIN log : log'[m] = log[m]
      /\ log'[Len(log) + 1] = event
      /\ \A s : Happened(log, s) => Happened(log', s)
      /\ \A n \in 0 .. Len(log) : Folded(log', Routed, 0, n) = Folded(log, Routed, 0, n)
  BY <1>0, <1>1, LogGrows
<1>3. InDependencyOrder(log)'
  <2>1. ASSUME NEW n \in 1 .. Len(log) + 1, NEW s,
               n <= Len(log) => \E m \in 1 .. n - 1 : log[m] = Event("completed", s),
               n = Len(log) + 1 => Happened(log, s)
        PROVE  \E m \in 1 .. n - 1 : log'[m] = Event("completed", s)
    <3>1. CASE n <= Len(log)
      <4>1. PICK m \in 1 .. n - 1 : log[m] = Event("completed", s)
        BY <2>1, <3>1
      <4>2. m \in DOMAIN log
        BY <3>1, <1>2
      <4> QED
        BY <4>1, <4>2, <1>2
    <3>2. CASE n = Len(log) + 1
      <4>1. PICK m \in DOMAIN log : log[m] = Event("completed", s)
        BY <2>1, <3>2 DEF Happened
      <4>2. m \in 1 .. n - 1
        BY <3>2, <1>2
      <4> QED
        BY <4>1, <4>2, <1>2
    <3> QED
      BY <3>1, <3>2, <1>2
  <2> DEFINE Ends == {Event("order", "completed"), Event("milestone", "ready_for_pickup"),
                      Event("milestone", "completed")}
  <2>2. ASSUME NEW n \in DOMAIN log'
        PROVE  /\ log'[n].type \in DOMAIN StateAfter
                    => \A d \in DependsOn[log'[n].about] :
                         \E m \in 1 .. n - 1 : log'[m] = Event("completed", d)
               /\ log'[n] \in Ends
                    => \A s \in Steps \ Optional :
                         \E m \in 1 .. n - 1 : log'[m] = Event("completed", s)
    <3> HIDE DEF Ends
    <3>1. n \in 1 .. Len(log) + 1
      BY <1>2
    <3>2. CASE n <= Len(log)
      <4>1. n \in DOMAIN log /\ log'[n] = log[n]
        BY <3>1, <3>2, <1>2
      <4>2. /\ log[n].type \in DOMAIN StateAfter
                 => \A d \in DependsOn[log[n].about] :
                      \E m \in 1 .. n - 1 : log[m] = Event("completed", d)
            /\ log[n] \in Ends
                 => \A s \in Steps \ Optional :
                      \E m \in 1 .. n - 1 : log[m] = Event("completed", s)
        BY <4>1, <1>0 DEF LogSound, InDependencyOrder, Ends
      <4> QED
        BY <4>1, <4>2, <3>1, <3>2, <1>2, <2>1
    <3>3. CASE n = Len(log) + 1
      <4>1. log'[n] = event
        BY <3>3, <1>2
      <4>2. /\ event.type \in DOMAIN StateAfter => \A d \in DependsOn[event.about] : Happened(log, d)
            /\ event \in Ends => \A s \in Steps \ Optional : Happened(log, s)
        BY DEF Grounded, Ends
      <4>3. ~(n <= Len(log))
        BY <3>3, <1>2
      <4> QED
        BY <4>1, <4>2, <4>3, <3>1, <3>3, <2>1
    <3> QED
      BY <3>1, <3>2, <3>3, <1>2
  <2> QED
    BY <2>2 DEF InDependencyOrder
<1>4. LogSound'
  BY <1>1, <1>2, <1>3, FloorAssumption DEF LogSound
<1>5. \A summary, n : n \in 0 .. Len(log) /\ Replays(summary, n)
                        => Replays(summary, n)' /\ Replays(summary, Len(log))'
  BY <1>2 DEF Replays
<1>6. CacheSound'
  <2>1. Len(log) \in 0 .. Len(log)
    BY <1>2
  <2> QED
    BY <2>1, <1>1, <1>5 DEF FloorInv, CacheSound
<1>7. ReadsSound'
  <2>1. \A n \in 0 .. Len(log) : n \in 0 .. Len(log')
    BY <1>2
  <2> QED
    BY <2>1, <1>1, <1>5 DEF FloorInv, ReadsSound
<1>8. ViewsSound' /\ view' = [v \in Users |-> view'[v]]
  <2>1. \A v \in Users : Typed(view[v], Len(log)) /\ Backed(log, view[v])
    BY DEF FloorInv, ViewsSound
  <2>2. \A v \in Users : Typed(view[v], Len(log')) /\ Backed(log', view[v])
    <3>1. ASSUME NEW v \in Users PROVE Typed(view[v], Len(log'))
      <4>1. 0 .. Len(log) \subseteq 0 .. Len(log')
        BY <1>2
      <4> QED
        BY <4>1, <2>1 DEF Typed
    <3> QED
      BY <3>1, <2>1, <1>2 DEF Backed
  <2>3. Typed(Applied(view[u], event), Len(log')) /\ Backed(log', Applied(view[u], event))
    <3>1. Typed(Applied(view[u], event), Len(log'))
      <4>1. Typed(view[u], Len(log)) /\ Len(log) \in Nat /\ Len(log') = Len(log) + 1
        BY <1>2, <2>1
      <4>2. Typed(Applied(view[u], event), Len(log) + 1)
        BY <1>0, <4>1, AppliedCases
      <4> QED
        BY <4>1, <4>2
    <3>2. Grounded(log', event)
      BY <1>2 DEF Grounded
    <3>3. \A s \in Steps : event = Event("completed", s) => Happened(log', s)
      <4>1. Len(log) + 1 \in DOMAIN log'
        BY <1>2
      <4> QED
        BY <4>1, <1>2 DEF Happened
    <3>4. Typed(view[u], Len(log)) /\ Backed(log', view[u])
      BY <2>1, <2>2
    <3> QED
      BY <3>1, <3>2, <3>3, <3>4, <1>2, AppliedBacked
  <2>4. view' = [view EXCEPT ![u] = Applied(view[u], event)] \/ view' = view
    BY DEF AppendEvent
  <2> QED
    BY <2>2, <2>3, <2>4 DEF FloorInv, ViewsSound
<1> QED
  BY <1>4, <1>6, <1>7, <1>8 DEF FloorInv

\* An answer is the replay of as many events as the log had.
LEMMA ReplyKeepsInv ==
  ASSUME FloorInv, NEW u \in Users, AnswerGet(u)
  PROVE  FloorInv'
<1>1. PICK read \in reads[u], n \in 0 .. Len(log) :
        /\ n >= read.from
        /\ \/ /\ read.base = {}
              /\ cache' = {Folded(log, Routed, 0, n)}
              /\ view' = [view EXCEPT ![u] = Folded(log, Routed, 0, n)]
           \/ \E base \in read.base :
                LET result == Folded(log, base, TailFrom(base), n) IN
                /\ cache' = IF n > TailFrom(base) THEN {result} ELSE cache
                /\ view' = [view EXCEPT ![u] = result]
  BY DEF AnswerGet
<1>2. log' = log /\ reads' = [reads EXCEPT ![u] = {}]
  BY DEF AnswerGet
<1>3. log \in Seq(FloorEvents) /\ InDependencyOrder(log) /\ Len(log) \in Nat
  BY DEF FloorInv, LogSound
<1> DEFINE result == Folded(log, Routed, 0, n)
<1>4. Typed(result, n) /\ result.last = n /\ Backed(log, result)
  BY <1>3, ReplaySound
<1>5. Replays(result, Len(log)) /\ Typed(result, Len(log))
  <2>1. 0 .. n \subseteq 0 .. Len(log)
    BY <1>3
  <2>2. Replays(result, Len(log))
    BY <1>4 DEF Replays
  <2> HIDE DEF result
  <2> QED
    BY <2>1, <2>2, <1>4 DEF Typed
<1>6. ASSUME NEW base \in read.base
      PROVE  Folded(log, base, TailFrom(base), n) = result
  <2>1. Replays(base, read.from) /\ read.from \in Nat
    BY <1>3 DEF FloorInv, ReadsSound
  <2>2. base.last \in Nat /\ base.last <= n /\ base = Folded(log, Routed, 0, base.last)
    BY <2>1, <1>1 DEF Replays
  <2>3. result = Folded(log, Folded(log, Routed, 0, base.last), base.last, n)
    BY <2>2, FoldedOn
  <2> QED
    BY <2>2, <2>3 DEF TailFrom
<1> HIDE DEF result
<1>7. (cache' = {result} \/ cache' = cache) /\ view' = [view EXCEPT ![u] = result]
  BY <1>1, <1>6 DEF result
<1>8. CacheSound'
  BY <1>7, <1>5, <1>2 DEF FloorInv, CacheSound, Replays
<1>9. ReadsSound'
  BY <1>2 DEF FloorInv, ReadsSound, Replays
<1>10. ViewsSound' /\ view' = [v \in Users |-> view'[v]]
  BY <1>7, <1>5, <1>4, <1>2 DEF FloorInv, ViewsSound
<1> QED
  BY <1>8, <1>9, <1>10, <1>2 DEF FloorInv, LogSound

\* What a caller's snapshot says of the steps, the log says.
LEMMA CommandsGrounded ==
  ASSUME FloorInv, NEW u \in Users, NEW s \in Steps,
         MarkReady(u, s) \/ AdvanceStep(u, s) \/ Annotate(u, s)
  PROVE  \E event : Grounded(log, event) /\ AppendEvent(u, event)
<1>0. Backed(log, view[u])
  BY DEF FloorInv, ViewsSound
<1>1. ASSUME NEW type \in DOMAIN StateAfter, \A d \in DependsOn[s] : Happened(log, d)
      PROVE  Grounded(log, Event(type, s))
  <2>1. Event(type, s) \in FloorEvents
    BY DEF FloorEvents
  <2>2. Event(type, s).type = type /\ Event(type, s).about = s
    BY DEF Event
  <2>3. Event(type, s) \notin {Event("order", "completed"), Event("milestone", "ready_for_pickup"),
                               Event("milestone", "completed")}
    <3>1. type # "order" /\ type # "milestone"
      BY Vocabulary
    <3> QED
      BY <3>1 DEF Event
  <2> QED
    BY <2>1, <2>2, <2>3, <1>1 DEF Grounded
<1>2. CASE MarkReady(u, s)
  <2>1. \A d \in DependsOn[s] : Happened(log, d)
    <3>1. DependsOn[s] \subseteq Steps
      BY FloorAssumption
    <3> QED
      BY <3>1, <1>0, <1>2 DEF MarkReady, DependenciesSatisfied, Backed
  <2>2. "ready" \in DOMAIN StateAfter
    BY Vocabulary
  <2> QED
    BY <2>1, <2>2, <1>1, <1>2 DEF MarkReady
<1>3. CASE AdvanceStep(u, s)
  <2>1. PICK command \in Commands :
          view[u].states[s] \in command.from /\ AppendEvent(u, Event(command.emits, s))
    BY <1>3 DEF AdvanceStep
  <2>2. "pending" \notin command.from /\ command.emits \in DOMAIN StateAfter
    BY Vocabulary DEF Commands
  <2>3. \A d \in DependsOn[s] : Happened(log, d)
    BY <1>0, <2>1, <2>2 DEF Backed
  <2> QED
    BY <2>1, <2>2, <2>3, <1>1
<1>4. CASE Annotate(u, s)
  <2>1. Event("annotated", s) \in FloorEvents
    BY DEF FloorEvents
  <2>2. Event("annotated", s).type \notin DOMAIN StateAfter
    BY Vocabulary DEF Event
  <2>3. Event("annotated", s) \notin {Event("order", "completed"), Event("milestone", "ready_for_pickup"),
                                      Event("milestone", "completed")}
    BY DEF Event
  <2> QED
    BY <2>1, <2>2, <2>3, <1>4 DEF Annotate, Grounded
<1> QED
  BY <1>2, <1>3, <1>4

LEMMA EndsGrounded ==
  ASSUME FloorInv, NEW u \in Users,
         AdvanceMilestone(u) \/ CompleteOrder(u) \/ CancelOrder(u)
  PROVE  \E event : Grounded(log, event) /\ AppendEvent(u, event)
<1>0. Backed(log, view[u])
  BY DEF FloorInv, ViewsSound
<1>1. \A S : S \subseteq Steps /\ AllCompleted(u, S) => \A s \in S : Happened(log, s)
  BY <1>0 DEF AllCompleted, Backed
<1>2. CASE AdvanceMilestone(u)
  <2>1. Milestone(u) \in ToSet(Milestones)
    BY Vocabulary DEF Milestone
  <2>2. Milestone(u) \in {"completed", "ready_for_pickup"}
          => \A s \in Steps \ Optional : Happened(log, s)
    <3>1. CASE AllCompleted(u, Steps)
      BY <3>1, <1>1
    <3>2. CASE AllCompleted(u, Steps \ Optional)
      BY <3>2, <1>1
    <3>3. CASE ~AllCompleted(u, Steps) /\ ~AllCompleted(u, Steps \ Optional)
      BY <3>3 DEF Milestone
    <3> QED
      BY <3>1, <3>2, <3>3
  <2>3. Grounded(log, Event("milestone", Milestone(u)))
    <3> DEFINE m == Milestone(u)
    <3> HIDE DEF m
    <3>1. m \in ToSet(Milestones)
      BY <2>1 DEF m
    <3>2. m \in {"completed", "ready_for_pickup"} => \A s \in Steps \ Optional : Happened(log, s)
      BY <2>2 DEF m
    <3>3. Event("milestone", m) \in FloorEvents
      BY <3>1 DEF FloorEvents
    <3>4. Event("milestone", m).type \notin DOMAIN StateAfter
      BY Vocabulary DEF Event
    <3>5. Event("milestone", m) \in {Event("order", "completed"), Event("milestone", "ready_for_pickup"),
                                     Event("milestone", "completed")}
            => m \in {"completed", "ready_for_pickup"}
      BY DEF Event
    <3>6. Grounded(log, Event("milestone", m))
      BY <3>2, <3>3, <3>4, <3>5 DEF Grounded
    <3> QED
      BY <3>6 DEF m
  <2> QED
    BY <2>3, <1>2 DEF AdvanceMilestone
<1>3. ASSUME NEW terminal \in {"completed", "cancelled"},
             terminal = "completed" => \A s \in Steps \ Optional : Happened(log, s)
      PROVE  Grounded(log, Event("order", terminal))
  <2>1. Event("order", terminal) \in FloorEvents
    BY DEF FloorEvents
  <2>2. Event("order", terminal).type \notin DOMAIN StateAfter
    BY Vocabulary DEF Event
  <2>3. Event("order", terminal) \in {Event("order", "completed"), Event("milestone", "ready_for_pickup"),
                                      Event("milestone", "completed")}
          => terminal = "completed"
    BY DEF Event
  <2> QED
    BY <2>1, <2>2, <2>3, <1>3 DEF Grounded
<1>4. CASE CompleteOrder(u)
  BY <1>1, <1>3, <1>4 DEF CompleteOrder
<1>5. CASE CancelOrder(u)
  BY <1>3, <1>5 DEF CancelOrder
<1> QED
  BY <1>2, <1>4, <1>5

LEMMA FloorStep == FloorInv /\ [FloorNext]_floorVars => FloorInv'
<1> SUFFICES ASSUME FloorInv, [FloorNext]_floorVars PROVE FloorInv'
  OBVIOUS
<1>1. ASSUME NEW u \in Users, CallGet(u) PROVE FloorInv'
  <2>1. reads' = [reads EXCEPT ![u] = {[base |-> cache, from |-> Len(log)]}]
        /\ UNCHANGED <<log, cache, view>>
    BY <1>1 DEF CallGet
  <2>2. Len(log) \in 0 .. Len(log)
    BY DEF FloorInv, LogSound
  <2>3. ReadsSound'
    BY <2>1, <2>2 DEF FloorInv, ReadsSound, CacheSound, Replays
  <2> QED
    BY <2>1, <2>3 DEF FloorInv, LogSound, CacheSound, ViewsSound, Replays
<1>2. ASSUME NEW u \in Users, CallRefresh(u) PROVE FloorInv'
  <2>1. /\ reads' = [reads EXCEPT ![u] = {[base |-> {}, from |-> Len(log)]}]
        /\ cache' = {} /\ UNCHANGED <<log, view>>
    BY <1>2 DEF CallRefresh
  <2>2. Len(log) \in 0 .. Len(log)
    BY DEF FloorInv, LogSound
  <2>3. ReadsSound'
    BY <2>1, <2>2 DEF FloorInv, ReadsSound, Replays
  <2> QED
    BY <2>1, <2>3 DEF FloorInv, LogSound, CacheSound, ViewsSound, Replays
<1>3. CASE Invalidate \/ UNCHANGED floorVars
  BY <1>3 DEF Invalidate, floorVars, FloorInv, LogSound, CacheSound, ReadsSound, ViewsSound, Replays
<1>4. ASSUME NEW u \in Users,
             \/ \E s \in Steps : MarkReady(u, s) \/ AdvanceStep(u, s) \/ Annotate(u, s)
             \/ AdvanceMilestone(u) \/ CompleteOrder(u) \/ CancelOrder(u)
      PROVE  FloorInv'
  BY <1>4, CommandsGrounded, EndsGrounded, AppendKeepsInv
<1> QED
  BY <1>1, <1>2, <1>3, <1>4, ReplyKeepsInv DEF FloorNext

\* However gets, refreshes and invalidations of a work order's summary overlap,
\* with any number of users and events, what is cached is a replay of the log.
THEOREM CacheCorrect == FloorSpec => []CacheIsAReplay
<1>1. FloorInv => CacheIsAReplay
  BY DEF FloorInv, CacheSound, Replays, CacheIsAReplay
<1> QED
  BY <1>1, FloorStarts, FloorStep, PTL DEF FloorSpec

\* No step is worked on, no work order completed and no milestone announced
\* before the log has what it stands on, whatever snapshots callers go by.
THEOREM DependenciesCorrect == FloorSpec => []DependenciesFirst
<1>1. FloorInv => DependenciesFirst
  BY DEF FloorInv, LogSound, DependenciesFirst
<1> QED
  BY <1>1, FloorStarts, FloorStep, PTL DEF FloorSpec

\* The log is of events, and snapshots and the cache are summaries of no more of
\* them than it has.
THEOREM FloorTypes == FloorSpec => []FloorTypeOK
<1>1. FloorInv => FloorTypeOK
  <2> SUFFICES ASSUME FloorInv PROVE FloorTypeOK
    OBVIOUS
  <2>1. log \in Seq(FloorEvents) /\ Len(log) <= MaxEvents /\ InDependencyOrder(log) /\ Len(log) \in Nat
    BY DEF FloorInv, LogSound
  <2>2. \A summary : Typed(summary, Len(log)) => summary \in Summary
    BY DEF Typed, Summary
  <2>3. ASSUME NEW n \in 0 .. Len(log), NEW summary, Replays(summary, n)
        PROVE  summary \in Summary
    <3>1. summary.last \in 0 .. Len(log) /\ 0 .. summary.last \subseteq 0 .. Len(log)
      BY <2>1, <2>3 DEF Replays
    <3>2. Typed(summary, summary.last)
      BY <2>1, <2>3, <3>1, ReplaySound DEF Replays
    <3>3. Typed(summary, Len(log))
      BY <3>1, <3>2 DEF Typed
    <3> QED
      BY <3>3, <2>2
  <2>4. \A summary \in cache : summary \in Summary
    BY <2>1, <2>3 DEF FloorInv, CacheSound
  <2>5. Cardinality(cache) <= 1
    <3>1. CASE cache = {}
      BY <3>1, FS_EmptySet
    <3>2. ASSUME NEW summary, cache = {summary} PROVE Cardinality(cache) <= 1
      BY <3>2, FS_Singleton
    <3> QED
      BY <3>1, <3>2 DEF FloorInv, CacheSound
  <2>6. view \in [Users -> Summary]
    BY <2>2 DEF FloorInv, ViewsSound
  <2>7. \A u \in Users : \A read \in reads[u] : read.from <= Len(log) /\ read.base \subseteq Summary
    BY <2>1, <2>3 DEF FloorInv, ReadsSound
  <2> QED
    BY <2>1, <2>4, <2>5, <2>6, <2>7 DEF FloorTypeOK
<1> QED
  BY <1>1, FloorStarts, FloorStep, PTL DEF FloorSpec

-----------------------------------------------------------------------------
(* The specification of MCBusiness: a book, a close, a work order, the      *)
(* creation of work orders and the application of cash side by side.        *)

\* The ways in which a step of the whole is a step of one part and leaves the
\* others alone.
LEMMA StepOfOnePart ==
  ASSUME [BusinessNext]_allVars
  PROVE  /\ [LedgerNext]_ledgerVars
         /\ [CloseNext]_closeVars
         /\ [FloorNext]_floorVars
         /\ [IntakeNext]_intakeVars
         /\ [CashNext]_cashVars
<1>1. CASE UNCHANGED allVars
  BY <1>1 DEF allVars
<1>2. CASE /\ \E c \in Posters : PosterNext(c)
           /\ UNCHANGED <<closeVars, floorVars, intakeVars, cashVars>>
  BY <1>2 DEF LedgerNext
<1>3. CASE /\ PosterNext(clerk) \/ \E c \in Closers : CloserNext(c)
           /\ UNCHANGED <<closeVars, floorVars, intakeVars, cashVars>>
  BY <1>3, ClerkPosts DEF LedgerNext
<1>4. CASE CloseNext /\ UNCHANGED <<ledgerVars, floorVars, intakeVars, cashVars>>
  BY <1>4
<1>5. CASE FloorNext /\ UNCHANGED <<ledgerVars, closeVars, intakeVars, cashVars>>
  BY <1>5
<1>6. CASE IntakeNext /\ UNCHANGED <<ledgerVars, closeVars, floorVars, cashVars>>
  BY <1>6
<1>7. CASE /\ CashCrash \/ \E c \in CashCalls : CommandNext(c)
           /\ UNCHANGED <<ledgerVars, closeVars, floorVars, intakeVars>>
  BY <1>7 DEF CashNext
<1> QED
  BY <1>1, <1>2, <1>3, <1>4, <1>5, <1>6, <1>7 DEF BusinessNext

\* What is proved of each component holds of the whole that the run checks.
THEOREM BusinessOfParts ==
  BusinessSpec => LedgerSpec /\ CloseSpec /\ FloorSpec /\ IntakeSpec /\ CashSpec
<1>1. BusinessInit => LedgerInit /\ CloseInit /\ FloorInit /\ IntakeInit /\ CashInit
  BY DEF BusinessInit
<1> QED
  BY <1>1, StepOfOnePart, PTL
     DEF BusinessSpec, LedgerSpec, CloseSpec, FloorSpec, IntakeSpec, CashSpec

\* Every variable of the five components keeps its type while they run side
\* by side; a posting is tried no more often than MAX_APPEND_RETRIES says.
THEOREM BusinessTypesCorrect == BusinessSpec => []BusinessTypes
<1> QED
  BY BusinessOfParts, LedgerTypes, CloseTypes, IntakeTypes, FloorTypes, CashTypes, PTL
     DEF BusinessTypes

\* The properties of the parts, of the whole: the book implements Journal and
\* its marks are true, closes are signed off with their blocking tasks completed,
\* floors follow their dependencies out of a cache that is a replay, an order is
\* made once, and cash converges, within what was billed and received as far as
\* AmountsWithin says.
THEOREM BusinessCorrect ==
  BusinessSpec =>
    /\ [](MarkedIsReversed /\ SignedOffIsDone /\ CacheIsAReplay /\ DependenciesFirst)
    /\ [](OneOrderPerKey /\ CommandsConverge /\ AmountsWithin)
    /\ ImplementsJournal
<1> QED
  BY BusinessOfParts, MarksCorrect, SignOffCorrect, CacheCorrect, DependenciesCorrect,
     OneOrderCorrect, ConvergenceCorrect, AmountsCorrect, LedgerImplementsJournal, PTL
=============================================================================
