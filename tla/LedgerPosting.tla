--------------------------- MODULE LedgerPosting ---------------------------
(***************************************************************************)
(* Posting, reversing, closing and reopening in one book of LedgerIQ.      *)
(*   packages/ledgeriq/src/runtime/ledgerRuntime.ts                        *)
(*   packages/ledgeriq/src/kernel/validation.ts, gates 5, 9 and 26         *)
(*   packages/ledgeriq/src/kernel/period.ts                                *)
(*   packages/ledgeriq/src/memory/inMemoryLedgerStore.ts                   *)
(*                                                                         *)
(* Several runtimes share a store.  A call of one of them is a sequence of *)
(* awaited reads and writes of the store, each of them a step; each may    *)
(* fail, a write also after it took effect, and a runtime that crashes is  *)
(* one all whose calls fail.  A runtime lets one posting to a book through *)
(* at a time; its closes and reopens do not queue.  The gates that look at *)
(* the proposal alone, and the governance decisions, are left out: they    *)
(* refuse, and a refusal changes nothing.  One journal code is modelled:   *)
(* an entry's sequence number is its place in the journal.                 *)
(***************************************************************************)
EXTENDS Integers, Sequences

CONSTANTS
  Runtimes,
  Posters, Closers,  \* the calls under way: post and reverse; close and reopen
  RuntimeOf,         \* RuntimeOf[c]: the runtime that c is a call of
  Proposals,         \* what callers post; a key may come with several contents
  LastPeriod,        \* the periods are 1 .. LastPeriod
  FirstStates,       \* the states the periods may start in
  ReversalPeriods,   \* the periods callers reverse into
  NoEntry,           \* reversalOf: undefined
  MaxAppendRetries

Periods == 1 .. LastPeriod

\* The keys are those of Proposals and, for each of them, that of its reversal.
Plain == {p.key : p \in Proposals}
ReversalKey(key) == <<"reversal", key>>
Keys == Plain \cup {ReversalKey(key) : key \in Plain}

Proposal == [key : Keys, period : Periods, type : {"standard", "adjusting", "reversal"},
             of : Plain \cup {NoEntry}]

PeriodStates == {"future", "open", "pending-close", "closed", "permanently-closed"}

ASSUME LedgerAssumption ==
  /\ RuntimeOf \in [Posters \cup Closers -> Runtimes]
  /\ Proposals \subseteq Proposal
  /\ LastPeriod \in Nat \ {0}
  /\ ReversalPeriods \subseteq Periods
  /\ FirstStates \subseteq [Periods -> PeriodStates]
  /\ MaxAppendRetries \in Nat

VARIABLES
  entries,      \* the store's entries, in order; bookVersion is their number
  reversed,     \* the keys of those whose reversedBy is set
  periodState,  \* periodState[p]
  posting,      \* posting[c]: what each call of post or reverse is at
  closing       \* closing[c]: the same for closePeriod and reopenPeriod

VARIABLE claims \* history: the proposals a caller was told are posted

storeVars == <<entries, reversed, periodState>>
ledgerVars == <<entries, reversed, periodState, posting, closing, claims>>

\* at: "idle", "queued", then before each await: "version", "find", "append",
\* "mark".  seen: the state of the period in the snapshot.
IdlePoster == [at |-> "idle"]
IdleCloser == [at |-> "idle"]

Entries == {entries[n] : n \in DOMAIN entries}
WithKey(key) == {e \in Entries : e.key = key}

LedgerInit ==
  /\ entries = <<>> /\ reversed = {}
  /\ periodState \in FirstStates
  /\ posting = [c \in Posters |-> IdlePoster]
  /\ closing = [c \in Closers |-> IdleCloser]
  /\ claims = {}

-----------------------------------------------------------------------------
(* post and reverse                                                        *)

Step(c, call) ==
  /\ posting' = [posting EXCEPT ![c] = call]
  /\ UNCHANGED closing

Enter(c, proposal, marks) ==
  /\ posting[c].at = "idle"
  /\ Step(c, [at |-> "queued", proposal |-> proposal, marks |-> marks, tries |-> 0])
  /\ UNCHANGED <<storeVars, claims>>

CallPost(c) == \E proposal \in Proposals : Enter(c, proposal, FALSE)

\* reverse looks at its target before it queues, and names the period itself.
CallReverse(c) ==
  \E e \in Entries, period \in ReversalPeriods :
    /\ e.key \in Plain
    /\ e.key \notin reversed
    /\ Enter(c, [key |-> ReversalKey(e.key), period |-> period,
                 type |-> "reversal", of |-> e.key], TRUE)

\* One posting at a time in each runtime: `serialized'.
Turn(c) ==
  \A d \in Posters \ {c} :
    RuntimeOf[d] = RuntimeOf[c] => posting[d].at \in {"idle", "queued"}

\* loadSnapshot, to getAllPeriodStates
LoadPeriods(c, call) ==
  Step(c, [at |-> "version", proposal |-> call.proposal, marks |-> call.marks,
           tries |-> call.tries, seen |-> periodState[call.proposal.period]])

BeginPosting(c) ==
  /\ posting[c].at = "queued"
  /\ Turn(c)
  /\ LoadPeriods(c, posting[c])
  /\ UNCHANGED <<storeVars, claims>>

LoadVersion(c) ==
  /\ posting[c].at = "version"
  /\ Step(c, [at |-> "find", proposal |-> posting[c].proposal, marks |-> posting[c].marks,
              tries |-> posting[c].tries, seen |-> posting[c].seen,
              version |-> Len(entries)])
  /\ UNCHANGED <<storeVars, claims>>

\* periodAdmitsEntry
Admits(state, type) ==
  \/ state = "open"
  \/ state = "pending-close" /\ type = "adjusting"

\* existingForKey
Found(proposal) == WithKey(proposal.key)

\* Gate 26: a reversal names an entry that is not marked as reversed.
MayReverse(proposal) ==
  proposal.of # NoEntry => WithKey(proposal.of) # {} /\ proposal.of \notin reversed

\* The rest of the snapshot, and the gates: replayed, refused, or on to the append.
Validate(c) ==
  LET call == posting[c]
      proposal == call.proposal
      passes == Admits(call.seen, proposal.type) /\ MayReverse(proposal)
  IN
  /\ call.at = "find"
  /\ \/ /\ Found(proposal) = {} /\ passes
        /\ Step(c, [call EXCEPT !.at = "append"])
        /\ UNCHANGED claims
     \/ /\ Found(proposal) = {} => ~passes
        /\ Step(c, IdlePoster)
        /\ claims' = claims \cup (Found(proposal) \cap {proposal})
  /\ UNCHANGED storeVars

\* Mutant: a store that appends whatever the book's version is.
UnchangedOrNot(c) == Len(entries) >= posting[c].version

Unchanged(c) == Len(entries) = posting[c].version

Appended(c) ==
  /\ Unchanged(c)
  /\ entries' = Append(entries, posting[c].proposal)

\* appendEntry, and the answer of a posting that has nothing to mark.
AppendEntry(c) ==
  LET call == posting[c] IN
  /\ call.at = "append"
  /\ Appended(c)
  /\ Step(c, IF call.marks THEN [call EXCEPT !.at = "mark"] ELSE IdlePoster)
  /\ claims' = IF call.marks THEN claims ELSE claims \cup {call.proposal}
  /\ UNCHANGED <<reversed, periodState>>

\* Mutant: off by one, once more than it says.
TriesLeftOneMore(c) == posting[c].tries <= MaxAppendRetries

TriesLeft(c) == posting[c].tries < MaxAppendRetries

\* The store answers that the book has changed: load again, a few times.
Conflict(c) ==
  LET call == posting[c] IN
  /\ call.at = "append"
  /\ ~Unchanged(c)
  /\ IF TriesLeft(c)
     THEN LoadPeriods(c, [call EXCEPT !.tries = @ + 1])
     ELSE Step(c, IdlePoster)
  /\ UNCHANGED <<storeVars, claims>>

\* Mutant: the reversal is marked instead of its target.
MarkedOfReversal(proposal) == proposal.key

MarkedOf(proposal) == proposal.of

MarkReversed(c) ==
  /\ posting[c].at = "mark"
  /\ reversed' = reversed \cup {MarkedOf(posting[c].proposal)}
  /\ Step(c, IdlePoster)
  /\ claims' = claims \cup {posting[c].proposal}
  /\ UNCHANGED <<entries, periodState>>

\* The store does not answer, or its answer is lost: STORE_UNAVAILABLE.
PostingFails(c) ==
  /\ posting[c].at # "idle"
  /\ Step(c, IdlePoster)
  /\ \/ UNCHANGED <<entries, reversed>>
     \/ posting[c].at = "append" /\ Appended(c) /\ UNCHANGED reversed
     \/ /\ posting[c].at = "mark"
        /\ reversed' = reversed \cup {MarkedOf(posting[c].proposal)}
        /\ UNCHANGED entries
  /\ UNCHANGED <<periodState, claims>>

-----------------------------------------------------------------------------
(* closePeriod and reopenPeriod                                            *)

Move(c, call) ==
  /\ closing' = [closing EXCEPT ![c] = call]
  /\ UNCHANGED <<entries, reversed, posting, claims>>

\* findTransition, for the two states these calls move a period to.
Leads(from, to) ==
  \/ to = "closed" /\ from \in {"open", "pending-close"}
  \/ to = "open" /\ from \in {"future", "pending-close", "closed"}

CallTransition(c) ==
  \E p \in Periods, to \in {"closed", "open"} :
    /\ closing[c].at = "idle"
    /\ Leads(periodState[p], to)
    /\ Move(c, [at |-> IF to = "closed" THEN "earlier" ELSE "apply", period |-> p,
                from |-> periodState[p], to |-> to, next |-> 1])
    /\ UNCHANGED periodState

\* The book-and-period of every posting between its gates and its answer.
InFlight(runtime) ==
  {posting[c].proposal.period :
     c \in {d \in Posters : RuntimeOf[d] = runtime /\ posting[d].at \in {"append", "mark"}}}

\* One earlier period after the other must not be open.
CheckEarlier(c) ==
  LET call == closing[c] IN
  /\ call.at = "earlier" /\ call.next < call.period
  /\ Move(c, IF periodState[call.next] \in {"open", "pending-close"} THEN IdleCloser
             ELSE [call EXCEPT !.next = @ + 1])
  /\ UNCHANGED periodState

\* Then the runtime's own appends are looked at.
CheckInFlight(c) ==
  LET call == closing[c] IN
  /\ call.at = "earlier" /\ call.next = call.period
  /\ Move(c, IF call.period \in InFlight(RuntimeOf[c]) THEN IdleCloser
             ELSE [call EXCEPT !.at = "apply"])
  /\ UNCHANGED periodState

Still(c) == periodState[closing[c].period] = closing[c].from

\* appendPeriodStateTransition, whose answer may be lost.
ApplyTransition(c) ==
  /\ closing[c].at = "apply"
  /\ periodState' = IF Still(c)
                    THEN [periodState EXCEPT ![closing[c].period] = closing[c].to]
                    ELSE periodState
  /\ Move(c, IdleCloser)

TransitionFails(c) ==
  /\ closing[c].at # "idle"
  /\ Move(c, IdleCloser)
  /\ UNCHANGED periodState

-----------------------------------------------------------------------------

PosterNext(c) ==
  \/ CallPost(c) \/ CallReverse(c)
  \/ BeginPosting(c) \/ LoadVersion(c) \/ Validate(c)
  \/ AppendEntry(c) \/ Conflict(c) \/ MarkReversed(c) \/ PostingFails(c)

CloserNext(c) ==
  \/ CallTransition(c) \/ CheckEarlier(c) \/ CheckInFlight(c)
  \/ ApplyTransition(c) \/ TransitionFails(c)

LedgerNext ==
  \/ \E c \in Posters : PosterNext(c)
  \/ \E c \in Closers : CloserNext(c)

LedgerSpec == LedgerInit /\ [][LedgerNext]_ledgerVars

-----------------------------------------------------------------------------
(* Properties                                                              *)

PosterCall ==
  [at : {"idle"}]
    \cup [at : {"queued"}, proposal : Proposal, marks : BOOLEAN, tries : 0 .. MaxAppendRetries]
    \cup [at : {"version"}, proposal : Proposal, marks : BOOLEAN,
          tries : 0 .. MaxAppendRetries, seen : PeriodStates]
    \cup [at : {"find", "append", "mark"}, proposal : Proposal, marks : BOOLEAN,
          tries : 0 .. MaxAppendRetries, seen : PeriodStates, version : Nat]

CloserCall ==
  [at : {"idle"}]
    \cup [at : {"earlier", "apply"}, period : Periods, from : PeriodStates,
          to : {"open", "closed"}, next : Periods]

LedgerTypeOK ==
  /\ entries \in Seq(Proposal)
  /\ reversed \subseteq Plain
  /\ periodState \in [Periods -> PeriodStates]
  /\ posting \in [Posters -> PosterCall]
  /\ closing \in [Closers -> CloserCall]
  /\ claims \subseteq Proposal

\* However many runtimes post to the book, retry, conflict and lose answers,
\* an idempotency key posts once, the journal only grows, and whoever was told
\* that an entry is posted, at once or by a replay, finds it in the journal.
Book == INSTANCE Journal WITH Entry <- Proposal, journal <- entries, claimed <- claims
ImplementsJournal == Book!Spec

\* An entry marked as reversed has its reversal in the journal.
MarkedIsReversed ==
  \A key \in reversed : \E e \in Entries : e.of = key /\ e.type = "reversal"

\* "An entry is reversed at most once."
ReversedAtMostOnce ==
  \A e, f \in Entries : e.of # NoEntry /\ e.of = f.of => e = f
=============================================================================
