-------------------------- MODULE CashApplication --------------------------
(***************************************************************************)
(* Applying cash to open items in ReceivablesIQ.                           *)
(*   packages/receivablesiq/src/engine.ts                                  *)
(*   packages/receivablesiq/src/kernel/projection.ts                       *)
(*   packages/receivablesiq/src/kernel/matching.ts                         *)
(*   packages/receivablesiq/src/ports.ts                                   *)
(*                                                                         *)
(* The journal of one tenant is the truth; a command replays it, judges    *)
(* what it is asked by that replay, and appends its facts one by one, with *)
(* an await before each.  The journal is durable, the process that works   *)
(* on it may crash.  Items and receipts of one customer and one currency   *)
(* have been recorded before, and no command is backdated.  Items are      *)
(* numbered in the order of their ids and due dates.                       *)
(***************************************************************************)
EXTENDS Totals, Sequences

CONSTANTS
  Items, Original,      \* open items (numbers), and the amount of each
  Receipts, Received,   \* cash receipts, and the amount of each
  RemittanceRefs,       \* the items that each receipt refers to
  CashCalls, InputTo,    \* the calls callers make, retries included, and their input
  MaxCashCrashes        \* bound: crashes of the process

\* An input has op, key and receipt and targets ("apply"), receipt and ordered
\* ("auto"), of ("reverse"), or item and amount ("write-off").
Explicit(c) == InputTo[c].op # "auto"

\* A key names one command.  An amount may be below zero, and an application may
\* name an item more than once.  What is not recorded is refused anyhow.
ASSUME CashAssumption ==
  /\ IsFiniteSet(Items) /\ Items = 1 .. Cardinality(Items)
  /\ MaxCashCrashes \in Nat
  /\ Original \in [Items -> Nat] /\ Received \in [Receipts -> Nat]
  /\ DOMAIN InputTo = CashCalls
  /\ \A c, d \in CashCalls : InputTo[c].key = InputTo[d].key => InputTo[c] = InputTo[d]
  /\ \A c \in CashCalls : InputTo[c].op \in {"apply", "auto", "reverse", "write-off"}
  /\ \A c \in CashCalls : InputTo[c].op = "apply" =>
       InputTo[c].targets \in Seq([item : Items, amount : Int])
  /\ \A c \in CashCalls : InputTo[c].op \in {"apply", "auto"} => InputTo[c].receipt \in Receipts
  /\ \A c \in CashCalls : InputTo[c].op = "write-off" =>
       InputTo[c].item \in Items /\ InputTo[c].amount \in Int

VARIABLES
  receivables,  \* the entries of the journal
  numbered,     \* the last sequence number given
  applying,     \* applying[c]: what c is at, the facts it appends, and the next one
  alone,        \* whether callers make one call at a time
  cashCrashes

cashVars == <<receivables, numbered, applying, alone, cashCrashes>>

\* at: "new", "ask" (for the key), "number", "append", or how the call ended.
Applying == {"ask", "number", "append"}

CashInit ==
  /\ receivables = {} /\ numbered = 0
  /\ applying = [c \in CashCalls |-> [at |-> "new", facts |-> <<>>, next |-> 1, number |-> 0]]
  /\ alone \in BOOLEAN
  /\ cashCrashes = 0

-----------------------------------------------------------------------------
(* The projection.                                                         *)

NothingApplied ==
  [open |-> Original, unapplied |-> Received,
   made |-> {}, reversed |-> {}, writtenOff |-> {}]

Consumed(state, i, units) == [state EXCEPT !.open[i] = @ - units]

Moved(state, fact, units) ==
  [Consumed(state, fact.item, units) EXCEPT !.unapplied[fact.receipt] = @ - units]

Target(state, id) == CHOOSE e \in state.made : e.key = id

\* Mutant: every reversal gives the amount back.
ReversibleAgain(state, id) == \E e \in state.made : e.key = id

\* An application is given back once, however many reversals name it.
Reversible(state, id) == id \notin state.reversed /\ \E e \in state.made : e.key = id

Reduce(state, e) ==
  IF e.fact.kind = "application.made"
    THEN [Moved(state, e.fact, e.fact.amount) EXCEPT !.made = @ \cup {e}]
  ELSE IF e.fact.kind = "writeoff.recorded"
    THEN [Consumed(state, e.fact.item, e.fact.amount)
            EXCEPT !.writtenOff = @ \cup {e.fact.item}]
  ELSE IF Reversible(state, e.fact.of)
    THEN LET made == Target(state, e.fact.of).fact
         IN  [Moved(state, made, -made.amount) EXCEPT !.reversed = @ \cup {e.fact.of}]
  ELSE state

\* One entry of S, if there is any.
ReduceOne(state, S) == IF S = {} THEN state ELSE Reduce(state, CHOOSE e \in S : TRUE)

\* The entries in the order of their numbers, up to number m.
Replayed(entries, m) ==
  LET after[n \in 0 .. m] ==
        IF n = 0 THEN NothingApplied
        ELSE ReduceOne(after[n - 1], {e \in entries : e.number = n})
  IN after[m]

ReplayTo == Replayed(receivables, numbered)

-----------------------------------------------------------------------------
(* The cascade of matchers: the items it finds for a receipt, or none.     *)

Candidates(state) == {i \in Items \ state.writtenOff : state.open[i] # 0}

OpenSum(state, S) == TotalOf(state.open, S)

UpTo(S, i) == {j \in S : j <= i}
Before(S, i) == {j \in S : j < i}
NthOf(S, n) == CHOOSE i \in S : Cardinality(UpTo(S, i)) = n

\* The search takes the candidates in order and stops at zero and below it.
Solutions(state, r) ==
  {S \in SUBSET Candidates(state) \ {{}} :
     /\ OpenSum(state, S) = state.unapplied[r] /\ state.unapplied[r] >= 0
     /\ \A i \in S : UpTo(S, i) = S \/ OpenSum(state, UpTo(S, i)) < state.unapplied[r]}

OldestFirst(state, r) ==
  {i \in Candidates(state) : \A j \in UpTo(Candidates(state), i) :
     OpenSum(state, Before(Candidates(state), j)) < state.unapplied[r]}

\* The first matcher that finds anything decides, and refuses if it finds two.
MatchCascade(state, r, ordered) ==
  LET byReference == Candidates(state) \cap RemittanceRefs[r]
      byAmount == {i \in Candidates(state) : state.open[i] = state.unapplied[r]}
      bySum == Solutions(state, r)
  IN  CASE byReference # {} -> IF Cardinality(byReference) = 1 THEN byReference ELSE {}
        [] byReference = {} /\ byAmount # {} ->
             IF Cardinality(byAmount) = 1 THEN byAmount ELSE {}
        [] byReference = {} /\ byAmount = {} /\ bySum # {} ->
             IF Cardinality(bySum) = 1 THEN UNION bySum ELSE {}
        [] OTHER -> IF ordered THEN OldestFirst(state, r) ELSE {}

\* The matched items in order, each with what it takes of what remains.
Built(state, r, S) ==
  LET remaining(i) == state.unapplied[r] - OpenSum(state, Before(S, i))
      taken == {i \in S : \A j \in UpTo(S, i) : state.open[j] > 0 /\ remaining(j) > 0}
      taking(i) == IF remaining(i) < state.open[i] THEN remaining(i) ELSE state.open[i]
  IN  [n \in 1 .. Cardinality(taken) |->
         [item |-> NthOf(taken, n), amount |-> taking(NthOf(taken, n))]]

-----------------------------------------------------------------------------
(* What a command appends, and whether it may, judged by the replay.       *)

Made(input, targets) ==
  [n \in DOMAIN targets |->
     [kind |-> "application.made", receipt |-> input.receipt,
      item |-> targets[n].item, amount |-> targets[n].amount]]

FactsOf(input) ==
  CASE input.op = "apply" -> Made(input, input.targets)
    [] input.op = "reverse" -> <<[kind |-> "application.reversed", of |-> input.of]>>
    [] input.op = "write-off" ->
         <<[kind |-> "writeoff.recorded", item |-> input.item, amount |-> input.amount]>>

Matched(input, state) == MatchCascade(state, input.receipt, input.ordered)

Facts(input, state) ==
  IF input.op = "auto" THEN Made(input, Built(state, input.receipt, Matched(input, state)))
  ELSE FactsOf(input)

\* Each allocation within its item, and all of them within the receipt.
WithinBudget(state, r, facts) ==
  /\ \A n \in DOMAIN facts : facts[n].amount <= state.open[facts[n].item]
  /\ TotalOf([n \in DOMAIN facts |-> facts[n].amount], DOMAIN facts) <= state.unapplied[r]

Accepted(input, state) ==
  CASE input.op = "apply" -> /\ input.targets # <<>>
                             /\ WithinBudget(state, input.receipt, FactsOf(input))
    [] input.op = "auto" -> /\ Matched(input, state) # {}
                            /\ WithinBudget(state, input.receipt, Facts(input, state))
    [] input.op = "reverse" -> Reversible(state, input.of)
    [] input.op = "write-off" -> input.amount <= state.open[input.item]

\* The allocations of one command have keys of their own.
KeyAt(c, n) ==
  IF InputTo[c].op \in {"apply", "auto"} THEN <<InputTo[c].key, n>> ELSE <<InputTo[c].key, 0>>

Taken(key) == \E e \in receivables : e.key = key

-----------------------------------------------------------------------------

Project(c) ==
  /\ applying[c].at = "new"
  /\ alone => \A d \in CashCalls : applying[d].at \notin Applying
  /\ LET state == ReplayTo
         facts == Facts(InputTo[c], state)
     IN  applying' = [applying EXCEPT ![c] =
           IF ~Accepted(InputTo[c], state) THEN [@ EXCEPT !.at = "refused"]
           ELSE [at |-> IF facts = <<>> THEN "answered" ELSE "ask",
                 facts |-> facts, next |-> 1, number |-> 0]]
  /\ UNCHANGED <<receivables, numbered, alone, cashCrashes>>

Advance(c) ==
  applying' = [applying EXCEPT ![c] =
    IF @.next = Len(@.facts) THEN [@ EXCEPT !.at = "answered"]
    ELSE [@ EXCEPT !.at = "ask", !.next = applying[c].next + 1]]

\* A fact whose key is there already is skipped.
AskForKey(c) ==
  /\ applying[c].at = "ask"
  /\ IF Taken(KeyAt(c, applying[c].next)) THEN Advance(c)
     ELSE applying' = [applying EXCEPT ![c].at = "number"]
  /\ UNCHANGED <<receivables, numbered, alone, cashCrashes>>

NextSequence(c) ==
  /\ applying[c].at = "number"
  /\ numbered' = numbered + 1
  /\ applying' = [applying EXCEPT ![c].at = "append", ![c].number = numbered']
  /\ UNCHANGED <<receivables, alone, cashCrashes>>

\* Mutant: the store relies on the question before.
RefusesNone(key) == FALSE

\* The store asks for the key again, and throws if it has been taken since.
Refuses(key) == Taken(key)

AppendFact(c) ==
  LET key == KeyAt(c, applying[c].next)
  IN  /\ applying[c].at = "append"
      /\ IF Refuses(key)
           THEN /\ applying' = [applying EXCEPT ![c].at = "failed"]
                /\ UNCHANGED receivables
           ELSE /\ receivables' = receivables \cup
                     {[number |-> applying[c].number, key |-> key,
                       fact |-> applying[c].facts[applying[c].next]]}
                /\ Advance(c)
      /\ UNCHANGED <<numbered, alone, cashCrashes>>

\* The process crashes with the calls it was at.
CashCrash ==
  /\ cashCrashes < MaxCashCrashes
  /\ \E c \in CashCalls : applying[c].at \in Applying
  /\ applying' = [c \in CashCalls |->
       IF applying[c].at \in Applying THEN [applying[c] EXCEPT !.at = "lost"] ELSE applying[c]]
  /\ cashCrashes' = cashCrashes + 1
  /\ UNCHANGED <<receivables, numbered, alone>>

\* A caller that had no answer, or a throw, makes the call again.
TryAgain(c) ==
  /\ applying[c].at \in {"lost", "failed"}
  /\ applying' = [applying EXCEPT ![c].at = "new"]
  /\ UNCHANGED <<receivables, numbered, alone, cashCrashes>>

CommandNext(c) ==
  Project(c) \/ AskForKey(c) \/ NextSequence(c) \/ AppendFact(c) \/ TryAgain(c)

CashNext == CashCrash \/ \E c \in CashCalls : CommandNext(c)

CashSpec == CashInit /\ [][CashNext]_cashVars

-----------------------------------------------------------------------------

\* Entries have numbers that were given, each its own, and a call stands at one
\* of its facts.
CashTypeOK ==
  /\ numbered \in Nat /\ \A e \in receivables : e.number \in 1 .. numbered
  /\ \A e, f \in receivables : e.number = f.number => e = f
  /\ \A c \in CashCalls :
       /\ applying[c].at \in Applying \cup {"new", "refused", "answered", "failed", "lost"}
       /\ applying[c].at \in Applying => applying[c].next \in DOMAIN applying[c].facts
  /\ alone \in BOOLEAN /\ cashCrashes \in 0 .. MaxCashCrashes

\* "A replayed command converges, never doubles" (engine.ts, appendFact): no
\* key has two entries, however calls and retries race or crash between their
\* allocations, and a command that was answered has each of its facts in the
\* journal, whoever appended it.  A match made afresh by a retry is not meant:
\* its facts are others under the same keys.
CommandsConverge ==
  /\ \A e, f \in receivables : e.key = f.key => e = f
  /\ \A c \in CashCalls : applying[c].at = "answered" /\ Explicit(c) =>
       \A n \in DOMAIN applying[c].facts :
         \E e \in receivables : e.key = KeyAt(c, n) /\ e.fact = applying[c].facts[n]

\* Nobody pays or writes off less than nothing.
NoneNegative ==
  \A c \in CashCalls :
    /\ InputTo[c].op = "apply" =>
         \A n \in DOMAIN InputTo[c].targets : InputTo[c].targets[n].amount >= 0
    /\ InputTo[c].op = "write-off" => InputTo[c].amount >= 0

\* An application names an item once.
NamesOnce ==
  \A c \in CashCalls : InputTo[c].op = "apply" =>
    \A m, n \in DOMAIN InputTo[c].targets :
      InputTo[c].targets[m].item = InputTo[c].targets[n].item => m = n

NoneOverdrawn ==
  /\ \A i \in Items : ReplayTo.open[i] >= 0
  /\ \A r \in Receipts : ReplayTo.unapplied[r] >= 0

\* Of commands without negative amounts, reversals that race give an amount back
\* once: no item is open for more than its document says and no receipt has more
\* left than was received.  If besides calls are made one at a time and no
\* application names an item twice, no crash between two allocations, retry,
\* reversal or write-off applies more than an item or a receipt has.
AmountsWithin ==
  NoneNegative =>
    /\ \A i \in Items : ReplayTo.open[i] <= Original[i]
    /\ \A r \in Receipts : ReplayTo.unapplied[r] <= Received[r]
    /\ alone /\ NamesOnce => NoneOverdrawn
=============================================================================
