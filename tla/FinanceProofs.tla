--------------------------- MODULE FinanceProofs ----------------------------
(***************************************************************************)
(* What is proved of the finance engines: of the posting of LedgerIQ, of   *)
(* the close of CloseIQ and of the cash application of ReceivablesIQ.      *)
(***************************************************************************)
EXTENDS LedgerPosting, CloseCycle, CashApplication, TotalsProofs

-----------------------------------------------------------------------------
(***************************************************************************)
(* What those who post to a book can rely on, for any runtimes, calls,     *)
(* periods, keys and contents, however often the store does not answer:    *)
(* a key posts once, the journal only grows, an answer that an entry is    *)
(* posted is true, and a mark of reversal has its reversal.                *)
(***************************************************************************)

\* What is known of a call from what it has read: its proposal's key was in
\* none of the entries of the version it read, and a reversal that is about to
\* be marked is in the journal.
SoundIn(call, journal) ==
  /\ call.at # "idle" /\ call.marks
       => call.proposal.type = "reversal" /\ call.proposal.of \in Plain
  /\ call.at \in {"find", "append", "mark"} => call.version <= Len(journal)
  /\ call.at = "append"
       => \A n \in 1 .. call.version : journal[n].key # call.proposal.key
  /\ call.at = "mark" => call.marks /\ call.proposal \in {journal[n] : n \in DOMAIN journal}

CallsSound == \A c \in Posters : SoundIn(posting[c], entries)

LedgerInv == LedgerTypeOK /\ CallsSound /\ MarkedIsReversed

\* The effect of a call's step on the book.
Tells ==
  \E e \in Entries \cap Proposal :
    claims' = claims \cup {e} /\ UNCHANGED <<entries, reversed>>
Posts == \E e \in Proposal : Book!Post(e) /\ UNCHANGED reversed
Marks ==
  \E e \in Entries \cap Proposal :
    /\ e.type = "reversal" /\ e.of \in Plain
    /\ reversed' = reversed \cup {e.of}
    /\ claims' \in {claims, claims \cup {e}}
    /\ UNCHANGED entries
Effect == UNCHANGED <<entries, reversed, claims>> \/ Tells \/ Posts \/ Marks

\* A step of c: it has become `new', with that effect.
MovesTo(c, new) ==
  /\ new \in PosterCall
  /\ posting' = [posting EXCEPT ![c] = new]
  /\ Effect
  /\ SoundIn(new, entries')
  /\ UNCHANGED <<periodState, closing>>

-----------------------------------------------------------------------------
(* Calls and their records                                                 *)

\* What a call is, by where it is.
LEMMA CallShapes ==
  ASSUME NEW call \in PosterCall
  PROVE  /\ call.at \in {"idle", "queued", "version", "find", "append", "mark"}
         /\ call.at # "idle" => /\ call.proposal \in Proposal /\ call.marks \in BOOLEAN
                                /\ call.tries \in 0 .. MaxAppendRetries
         /\ call.at \in {"version", "find", "append", "mark"} => call.seen \in PeriodStates
         /\ call.at \in {"find", "append", "mark"} =>
              /\ call.version \in Nat
              /\ call \in [at : {"find", "append", "mark"}, proposal : Proposal,
                           marks : BOOLEAN, tries : 0 .. MaxAppendRetries,
                           seen : PeriodStates, version : Nat]
  BY DEF PosterCall

LEMMA IdleSound == IdlePoster \in PosterCall /\ SoundIn(IdlePoster, entries')
  BY DEF IdlePoster, PosterCall, SoundIn

\* The journal has grown by what was posted, if anything.
LEMMA EffectGrows ==
  ASSUME LedgerTypeOK, Effect
  PROVE  UNCHANGED entries \/ \E e \in Proposal : entries' = Append(entries, e)
  BY DEF Effect, Tells, Posts, Marks, Book!Post

\* What is in the journal stays in it, at its place.
LEMMA EntriesStay ==
  ASSUME entries \in Seq(Proposal),
         UNCHANGED entries \/ \E e \in Proposal : entries' = Append(entries, e)
  PROVE  /\ entries' \in Seq(Proposal) /\ Len(entries) <= Len(entries')
         /\ \A n \in 1 .. Len(entries) : entries'[n] = entries[n]
         /\ Entries \subseteq Entries'
  <1>1. CASE UNCHANGED entries
    BY <1>1 DEF Entries
  <1>2. ASSUME NEW e \in Proposal, entries' = Append(entries, e)
        PROVE  /\ entries' \in Seq(Proposal) /\ Len(entries) <= Len(entries')
               /\ \A n \in 1 .. Len(entries) : entries'[n] = entries[n]
    BY <1>2
  <1>3. ASSUME NEW e \in Proposal, entries' = Append(entries, e)
        PROVE  Entries \subseteq Entries'
    BY <1>2, <1>3 DEF Entries
  <1>4. QED
    BY <1>1, <1>2, <1>3

\* So that what is known of a call stays known.
LEMMA SoundStays ==
  ASSUME entries \in Seq(Proposal),
         UNCHANGED entries \/ \E e \in Proposal : entries' = Append(entries, e),
         NEW call \in PosterCall, SoundIn(call, entries)
  PROVE  SoundIn(call, entries')
  <1>1. /\ entries' \in Seq(Proposal) /\ Len(entries) <= Len(entries')
        /\ \A n \in 1 .. Len(entries) : entries'[n] = entries[n]
        /\ Entries \subseteq Entries'
    BY EntriesStay
  <1>2. CASE call.at \in {"idle", "queued", "version"}
    BY <1>2 DEF SoundIn
  <1>3. CASE call.at \in {"find", "append", "mark"}
    <2>1. call.version \in Nat /\ call.version <= Len(entries)
      BY <1>3, CallShapes DEF SoundIn
    <2>2. call.version <= Len(entries')
      BY <1>1, <2>1
    <2>3. call.at = "append"
            => \A n \in 1 .. call.version : entries'[n].key # call.proposal.key
      BY <1>1, <2>1 DEF SoundIn
    <2>4. QED
      BY <1>1, <1>3, <2>2, <2>3 DEF SoundIn
  <1>4. QED
    BY <1>2, <1>3, CallShapes

-----------------------------------------------------------------------------
(* Each action is such a step                                              *)

\* Posting what may be posted, of any kind and from any period.
LEMMA EnterSteps ==
  ASSUME LedgerInv, NEW c \in Posters, NEW proposal \in Proposal, NEW marks \in BOOLEAN,
         Enter(c, proposal, marks),
         marks => proposal.type = "reversal" /\ proposal.of \in Plain
  PROVE  \E new : MovesTo(c, new)
  <1> DEFINE new == [at |-> "queued", proposal |-> proposal, marks |-> marks, tries |-> 0]
  <1>1. new \in PosterCall
    BY LedgerAssumption DEF PosterCall
  <1>2. SoundIn(new, entries')
    BY DEF SoundIn
  <1>3. QED
    BY <1>1, <1>2 DEF Enter, Step, MovesTo, Effect, storeVars

LEMMA CallPostSteps ==
  ASSUME LedgerInv, NEW c \in Posters, CallPost(c)
  PROVE  \E new : MovesTo(c, new)
  BY EnterSteps, LedgerAssumption DEF CallPost

LEMMA CallReverseSteps ==
  ASSUME LedgerInv, NEW c \in Posters, CallReverse(c)
  PROVE  \E new : MovesTo(c, new)
  <1>1. PICK e \in Entries, month \in ReversalPeriods :
          /\ e.key \in Plain
          /\ Enter(c, [key |-> ReversalKey(e.key), period |-> month,
                       type |-> "reversal", of |-> e.key], TRUE)
    BY DEF CallReverse
  <1>2. [key |-> ReversalKey(e.key), period |-> month, type |-> "reversal", of |-> e.key]
          \in Proposal
    BY <1>1, LedgerAssumption DEF Proposal, Keys
  <1>3. QED
    BY <1>1, <1>2, EnterSteps

\* loadSnapshot keeps what the call is about.
LEMMA LoadSteps ==
  ASSUME LedgerInv, NEW c \in Posters, NEW call,
         call.proposal \in Proposal, call.marks \in BOOLEAN,
         call.tries \in 0 .. MaxAppendRetries,
         call.marks => call.proposal.type = "reversal" /\ call.proposal.of \in Plain,
         LoadPeriods(c, call), UNCHANGED <<storeVars, claims>>
  PROVE  \E new : MovesTo(c, new)
  <1> DEFINE new == [at |-> "version", proposal |-> call.proposal, marks |-> call.marks,
                     tries |-> call.tries, seen |-> periodState[call.proposal.period]]
  <1>1. periodState[call.proposal.period] \in PeriodStates
    BY DEF LedgerInv, LedgerTypeOK, Proposal
  <1>2. new \in PosterCall
    BY <1>1 DEF PosterCall
  <1>3. SoundIn(new, entries')
    BY DEF SoundIn
  <1>4. QED
    BY <1>2, <1>3 DEF LoadPeriods, Step, MovesTo, Effect, storeVars

LEMMA BeginSteps ==
  ASSUME LedgerInv, NEW c \in Posters, BeginPosting(c)
  PROVE  \E new : MovesTo(c, new)
  <1>1. posting[c] \in PosterCall /\ posting[c].at = "queued" /\ SoundIn(posting[c], entries)
    BY DEF BeginPosting, LedgerInv, LedgerTypeOK, CallsSound
  <1>2. QED
    BY <1>1, CallShapes, LoadSteps DEF BeginPosting, SoundIn

LEMMA VersionSteps ==
  ASSUME LedgerInv, NEW c \in Posters, LoadVersion(c)
  PROVE  \E new : MovesTo(c, new)
  <1> DEFINE call == posting[c]
             new == [at |-> "find", proposal |-> call.proposal, marks |-> call.marks,
                     tries |-> call.tries, seen |-> call.seen, version |-> Len(entries)]
  <1>1. call \in PosterCall /\ call.at = "version" /\ SoundIn(call, entries)
    BY DEF LoadVersion, LedgerInv, LedgerTypeOK, CallsSound
  <1>2. Len(entries) \in Nat /\ UNCHANGED entries
    BY DEF LedgerInv, LedgerTypeOK, LoadVersion, storeVars
  <1>3. new \in PosterCall
    BY <1>1, <1>2, CallShapes DEF PosterCall
  <1>4. SoundIn(new, entries')
    BY <1>1, <1>2 DEF SoundIn
  <1>5. QED
    BY <1>3, <1>4 DEF LoadVersion, Step, MovesTo, Effect, storeVars

LEMMA ValidateSteps ==
  ASSUME LedgerInv, NEW c \in Posters, Validate(c)
  PROVE  \E new : MovesTo(c, new)
  <1> DEFINE call == posting[c]
  <1>1. call \in PosterCall /\ call.at = "find" /\ SoundIn(call, entries)
    BY DEF Validate, LedgerInv, LedgerTypeOK, CallsSound
  <1>2. entries \in Seq(Proposal) /\ UNCHANGED storeVars
    BY DEF Validate, LedgerInv, LedgerTypeOK
  <1>3. CASE /\ Found(call.proposal) = {}
             /\ Step(c, [call EXCEPT !.at = "append"])
             /\ UNCHANGED claims
    <2> DEFINE new == [call EXCEPT !.at = "append"]
    <2>1. call \in [at : {"find", "append", "mark"}, proposal : Proposal, marks : BOOLEAN,
                    tries : 0 .. MaxAppendRetries, seen : PeriodStates, version : Nat]
      BY <1>1, CallShapes
    <2>2. /\ new \in PosterCall /\ new.at = "append"
          /\ new.proposal = call.proposal /\ new.marks = call.marks /\ new.version = call.version
      BY <2>1 DEF PosterCall
    <2>3. \A n \in 1 .. Len(entries) : entries[n].key # call.proposal.key
      BY <1>2, <1>3 DEF Found, WithKey, Entries
    <2>4. call.version \in Nat /\ call.version <= Len(entries)
      BY <1>1, <2>1 DEF SoundIn
    <2>5. \A n \in 1 .. call.version : entries[n].key # call.proposal.key
      BY <1>2, <2>3, <2>4
    <2>6. SoundIn(new, entries)
      BY <1>1, <2>2, <2>4, <2>5 DEF SoundIn
    <2>7. SoundIn(new, entries')
      BY <1>2, <2>2, <2>6, SoundStays DEF storeVars
    <2>8. QED
      BY <1>2, <1>3, <2>2, <2>7 DEF Step, MovesTo, Effect, storeVars
  <1>4. CASE /\ Step(c, IdlePoster)
             /\ claims' = claims \cup (Found(call.proposal) \cap {call.proposal})
    <2>1. \/ UNCHANGED claims
          \/ call.proposal \in Entries /\ claims' = claims \cup {call.proposal}
      BY <1>4 DEF Found, WithKey
    <2>2. call.proposal \in Proposal
      BY <1>1, CallShapes
    <2>3. Effect
      BY <1>2, <2>1, <2>2 DEF Effect, Tells, storeVars
    <2>4. QED
      BY <1>2, <1>4, <2>3, IdleSound DEF Step, MovesTo, storeVars
  <1>5. QED
    BY <1>3, <1>4 DEF Validate

\* An append against the version the key was looked for in is a post.
LEMMA AppendPosts ==
  ASSUME LedgerInv, NEW c \in Posters, posting[c].at = "append", Appended(c),
         claims' \in {claims, claims \cup {posting[c].proposal}}, UNCHANGED reversed
  PROVE  /\ posting[c].proposal \in Proposal
         /\ Book!Post(posting[c].proposal)
         /\ Posts
  <1> DEFINE call == posting[c]
  <1>1. call \in PosterCall /\ SoundIn(call, entries) /\ entries \in Seq(Proposal)
    BY DEF LedgerInv, LedgerTypeOK, CallsSound
  <1>2. call.proposal \in Proposal
    BY <1>1, CallShapes
  <1>3. \A n \in DOMAIN entries : entries[n].key # call.proposal.key
    BY <1>1 DEF SoundIn, Appended, Unchanged
  <1>4. Book!Post(call.proposal)
    BY <1>3 DEF Book!Post, Book!Posted, Appended
  <1>5. QED
    BY <1>2, <1>4 DEF Posts

LEMMA AppendSteps ==
  ASSUME LedgerInv, NEW c \in Posters, AppendEntry(c)
  PROVE  \E new : MovesTo(c, new)
  <1> DEFINE call == posting[c]
  <1>1. call \in PosterCall /\ call.at = "append" /\ SoundIn(call, entries) /\ entries \in Seq(Proposal)
    BY DEF AppendEntry, LedgerInv, LedgerTypeOK, CallsSound
  <1>2. Posts /\ call.proposal \in Proposal /\ entries' = Append(entries, call.proposal)
    BY AppendPosts DEF AppendEntry, Appended
  <1>3. CASE ~call.marks
    BY <1>2, <1>3, IdleSound DEF AppendEntry, Step, MovesTo, Effect
  <1>4. CASE call.marks
    <2> DEFINE new == [call EXCEPT !.at = "mark"]
    <2>1. call \in [at : {"find", "append", "mark"}, proposal : Proposal, marks : BOOLEAN,
                    tries : 0 .. MaxAppendRetries, seen : PeriodStates, version : Nat]
      BY <1>1, CallShapes
    <2>2. /\ new \in PosterCall /\ new.at = "mark"
          /\ new.proposal = call.proposal /\ new.marks = call.marks /\ new.version = call.version
      BY <2>1 DEF PosterCall
    <2>3. call.version \in Nat /\ call.version <= Len(entries')
      BY <1>1, <1>2, <2>1 DEF SoundIn
    <2>4. call.proposal \in Entries'
      <3>1. /\ Len(entries) + 1 \in DOMAIN entries'
            /\ entries'[Len(entries) + 1] = call.proposal
        BY <1>1, <1>2
      <3>2. QED
        BY <3>1 DEF Entries
    <2>5. SoundIn(new, entries')
      BY <1>1, <1>4, <2>2, <2>3, <2>4 DEF SoundIn, Entries
    <2>6. QED
      BY <1>2, <1>4, <2>2, <2>5 DEF AppendEntry, Step, MovesTo, Effect
  <1>5. QED
    BY <1>3, <1>4

LEMMA ConflictSteps ==
  ASSUME LedgerInv, NEW c \in Posters, Conflict(c)
  PROVE  \E new : MovesTo(c, new)
  <1> DEFINE call == posting[c]
             again == [call EXCEPT !.tries = @ + 1]
  <1>1. call \in PosterCall /\ call.at = "append" /\ SoundIn(call, entries)
    BY DEF Conflict, LedgerInv, LedgerTypeOK, CallsSound
  <1>2. CASE TriesLeft(c)
    <2>1. call \in [at : {"find", "append", "mark"}, proposal : Proposal, marks : BOOLEAN,
                    tries : 0 .. MaxAppendRetries, seen : PeriodStates, version : Nat]
      BY <1>1, CallShapes
    <2>2. /\ again.proposal = call.proposal /\ again.marks = call.marks
          /\ again.tries \in 0 .. MaxAppendRetries
      BY <1>2, <2>1, LedgerAssumption DEF TriesLeft
    <2>3. LoadPeriods(c, again) /\ UNCHANGED <<storeVars, claims>>
      BY <1>2 DEF Conflict
    <2>4. /\ again.proposal \in Proposal /\ again.marks \in BOOLEAN
          /\ again.marks => again.proposal.type = "reversal" /\ again.proposal.of \in Plain
      BY <1>1, <2>1, <2>2 DEF SoundIn
    <2> HIDE DEF again
    <2>5. QED
      BY <2>2, <2>3, <2>4, LoadSteps
  <1>3. CASE ~TriesLeft(c)
    BY <1>3, IdleSound DEF Conflict, Step, MovesTo, Effect, storeVars
  <1>4. QED
    BY <1>2, <1>3

\* The mark is for an entry whose reversal is in the journal.
LEMMA MarkMarks ==
  ASSUME LedgerInv, NEW c \in Posters, posting[c].at = "mark",
         reversed' = reversed \cup {MarkedOf(posting[c].proposal)},
         claims' \in {claims, claims \cup {posting[c].proposal}}, UNCHANGED entries
  PROVE  Marks
  <1> DEFINE call == posting[c]
  <1>1. call \in PosterCall /\ SoundIn(call, entries)
    BY DEF LedgerInv, LedgerTypeOK, CallsSound
  <1>2. call.proposal \in Proposal /\ call.proposal \in Entries
    BY <1>1, CallShapes DEF SoundIn, Entries
  <1>3. call.proposal.type = "reversal" /\ call.proposal.of \in Plain
    BY <1>1 DEF SoundIn
  <1>4. QED
    BY <1>2, <1>3 DEF Marks, MarkedOf

LEMMA MarkSteps ==
  ASSUME LedgerInv, NEW c \in Posters, MarkReversed(c)
  PROVE  \E new : MovesTo(c, new)
  <1>1. Marks
    BY MarkMarks DEF MarkReversed
  <1>2. QED
    BY <1>1, IdleSound DEF MarkReversed, Step, MovesTo, Effect

LEMMA FailureSteps ==
  ASSUME LedgerInv, NEW c \in Posters, PostingFails(c)
  PROVE  \E new : MovesTo(c, new)
  <1>1. Effect
    <2>1. CASE UNCHANGED <<entries, reversed>>
      BY <2>1 DEF PostingFails, Effect
    <2>2. CASE posting[c].at = "append" /\ Appended(c) /\ UNCHANGED reversed
      BY <2>2, AppendPosts DEF PostingFails, Effect
    <2>3. CASE /\ posting[c].at = "mark"
               /\ reversed' = reversed \cup {MarkedOf(posting[c].proposal)}
               /\ UNCHANGED entries
      BY <2>3, MarkMarks DEF PostingFails, Effect
    <2>4. QED
      BY <2>1, <2>2, <2>3 DEF PostingFails
  <1>2. QED
    BY <1>1, IdleSound DEF PostingFails, Step, MovesTo

LEMMA PosterSteps ==
  ASSUME LedgerInv, NEW c \in Posters, PosterNext(c)
  PROVE  \E new : MovesTo(c, new)
  BY CallPostSteps, CallReverseSteps, BeginSteps, VersionSteps, ValidateSteps,
     AppendSteps, ConflictSteps, MarkSteps, FailureSteps DEF PosterNext

-----------------------------------------------------------------------------
(* The closers touch nothing but periods                                   *)

LEMMA CloserSteps ==
  ASSUME LedgerInv, NEW c \in Closers, CloserNext(c)
  PROVE  /\ UNCHANGED <<entries, reversed, posting, claims>>
         /\ periodState' \in [Periods -> PeriodStates]
         /\ \E call \in CloserCall : closing' = [closing EXCEPT ![c] = call]
  <1>1. closing[c] \in CloserCall /\ periodState \in [Periods -> PeriodStates]
    BY DEF LedgerInv, LedgerTypeOK
  <1>2. IdleCloser \in CloserCall
    BY DEF IdleCloser, CloserCall
  <1>3. CASE CallTransition(c)
    <2>1. PICK p \in Periods, to \in {"closed", "open"} :
            Move(c, [at |-> IF to = "closed" THEN "earlier" ELSE "apply", period |-> p,
                     from |-> periodState[p], to |-> to, next |-> 1])
      BY <1>3 DEF CallTransition
    <2>2. [at |-> IF to = "closed" THEN "earlier" ELSE "apply", period |-> p,
           from |-> periodState[p], to |-> to, next |-> 1] \in CloserCall
      BY <1>1, LedgerAssumption DEF CloserCall, Periods
    <2>3. QED
      BY <1>1, <1>3, <2>1, <2>2 DEF CallTransition, Move
  <1>4. CASE CheckEarlier(c)
    <2>1. [closing[c] EXCEPT !.next = @ + 1] \in CloserCall
      <3>1. closing[c].at = "earlier" /\ closing[c].next < closing[c].period
        BY <1>4 DEF CheckEarlier
      <3>2. /\ closing[c] \in [at : {"earlier", "apply"}, period : Periods, from : PeriodStates,
                               to : {"open", "closed"}, next : Periods]
        BY <1>1, <3>1 DEF CloserCall
      <3>3. closing[c].next + 1 \in Periods
        BY <3>1, <3>2, LedgerAssumption DEF Periods
      <3> QED
        BY <3>2, <3>3 DEF CloserCall
    <2>2. QED
      BY <1>1, <1>2, <1>4, <2>1 DEF CheckEarlier, Move
  <1>5. CASE CheckInFlight(c)
    <2>1. [closing[c] EXCEPT !.at = "apply"] \in CloserCall
      BY <1>1, <1>5 DEF CheckInFlight, CloserCall
    <2>2. QED
      BY <1>1, <1>2, <1>5, <2>1 DEF CheckInFlight, Move
  <1>6. CASE ApplyTransition(c)
    <2>1. closing[c].to \in PeriodStates
      BY <1>1, <1>6 DEF ApplyTransition, CloserCall, PeriodStates
    <2>2. QED
      BY <1>1, <1>2, <1>6, <2>1 DEF ApplyTransition, Move
  <1>7. CASE TransitionFails(c)
    BY <1>1, <1>2, <1>7 DEF TransitionFails, Move
  <1>8. QED
    BY <1>3, <1>4, <1>5, <1>6, <1>7 DEF CloserNext

-----------------------------------------------------------------------------
(* The invariant                                                           *)

LEMMA LedgerStarts == LedgerInit => LedgerInv
  <1> SUFFICES ASSUME LedgerInit
               PROVE  LedgerInv
    OBVIOUS
  <1>1. LedgerTypeOK
    BY LedgerAssumption
    DEF LedgerInit, LedgerTypeOK, IdlePoster, IdleCloser, PosterCall, CloserCall
  <1>2. CallsSound /\ MarkedIsReversed
    BY DEF LedgerInit, CallsSound, SoundIn, IdlePoster, MarkedIsReversed
  <1>3. QED
    BY <1>1, <1>2 DEF LedgerInv

LEMMA StepsKeep ==
  ASSUME LedgerInv, NEW c \in Posters, NEW new, MovesTo(c, new)
  PROVE  LedgerInv'
  <1>1. entries \in Seq(Proposal) /\ posting \in [Posters -> PosterCall] /\ LedgerTypeOK
    BY DEF LedgerInv, LedgerTypeOK
  <1>2. UNCHANGED entries \/ \E e \in Proposal : entries' = Append(entries, e)
    BY <1>1, EffectGrows DEF MovesTo
  <1>3. entries' \in Seq(Proposal) /\ Entries \subseteq Entries'
    BY <1>1, <1>2, EntriesStay
  <1>4. reversed' \subseteq Plain /\ claims' \subseteq Proposal
    BY <1>1 DEF LedgerTypeOK, MovesTo, Effect, Tells, Posts, Marks, Book!Post
  <1>5. posting' \in [Posters -> PosterCall]
    BY <1>1 DEF MovesTo
  <1>6. LedgerTypeOK'
    BY <1>1, <1>3, <1>4, <1>5 DEF LedgerTypeOK, MovesTo
  <1>7. CallsSound'
    <2> SUFFICES ASSUME NEW d \in Posters
                 PROVE  SoundIn(posting'[d], entries')
      BY DEF CallsSound
    <2>1. CASE d = c
      <3>1. posting'[d] = new
        BY <1>1, <2>1 DEF MovesTo
      <3>2. QED
        BY <3>1 DEF MovesTo
    <2>2. CASE d # c
      <3>1. posting'[d] = posting[d]
        BY <1>1, <2>2 DEF MovesTo
      <3>2. \A call \in PosterCall : SoundIn(call, entries) => SoundIn(call, entries')
        BY <1>1, <1>2, SoundStays
      <3>3. posting[d] \in PosterCall /\ SoundIn(posting[d], entries)
        BY <1>1 DEF LedgerInv, CallsSound
      <3>4. QED
        BY <3>1, <3>2, <3>3
    <2>3. QED
      BY <2>1, <2>2
  <1>8. MarkedIsReversed'
    <2>1. \A key \in reversed : \E e \in Entries' : e.of = key /\ e.type = "reversal"
      BY <1>3 DEF LedgerInv, MarkedIsReversed
    <2>2. \A key \in reversed' \ reversed : \E e \in Entries' : e.of = key /\ e.type = "reversal"
      BY <1>3 DEF MovesTo, Effect, Tells, Posts, Marks
    <2>3. QED
      BY <2>1, <2>2 DEF MarkedIsReversed
  <1>9. QED
    BY <1>6, <1>7, <1>8 DEF LedgerInv

LEMMA LedgerAlways == LedgerSpec => []LedgerInv
  <1>1. LedgerInv /\ [LedgerNext]_ledgerVars => LedgerInv'
    <2> SUFFICES ASSUME LedgerInv, [LedgerNext]_ledgerVars
                 PROVE  LedgerInv'
      OBVIOUS
    <2>1. CASE UNCHANGED ledgerVars
      BY <2>1 DEF ledgerVars, LedgerInv, LedgerTypeOK, CallsSound, SoundIn, MarkedIsReversed,
                  Entries
    <2>2. ASSUME NEW c \in Posters, PosterNext(c)
          PROVE  LedgerInv'
      BY <2>2, PosterSteps, StepsKeep
    <2>3. ASSUME NEW c \in Closers, CloserNext(c)
          PROVE  LedgerInv'
      <3>1. /\ UNCHANGED <<entries, reversed, posting, claims>>
            /\ periodState' \in [Periods -> PeriodStates]
            /\ \E call \in CloserCall : closing' = [closing EXCEPT ![c] = call]
        BY <2>3, CloserSteps
      <3>2. LedgerTypeOK'
        BY <3>1 DEF LedgerInv, LedgerTypeOK
      <3>3. CallsSound' /\ MarkedIsReversed'
        BY <3>1 DEF LedgerInv, CallsSound, SoundIn, MarkedIsReversed, Entries
      <3>4. QED
        BY <3>2, <3>3 DEF LedgerInv
    <2>4. QED
      BY <2>1, <2>2, <2>3 DEF LedgerNext
  <1>2. QED
    BY <1>1, LedgerStarts, PTL DEF LedgerSpec

-----------------------------------------------------------------------------

\* The store, the calls under way and what callers were told keep their types.
THEOREM LedgerTypes == LedgerSpec => []LedgerTypeOK
  <1>1. LedgerInv => LedgerTypeOK
    BY DEF LedgerInv
  <1>2. QED
    BY <1>1, LedgerAlways, PTL

\* markReversed comes after the append of the reversal it is for, also when
\* either of them is all that came of the call.
THEOREM MarksCorrect == LedgerSpec => []MarkedIsReversed
  <1>1. LedgerInv => MarkedIsReversed
    BY DEF LedgerInv
  <1>2. QED
    BY <1>1, LedgerAlways, PTL

\* The snapshot's version makes looking for the key and appending one step:
\* the runtimes together implement the journal that Journal specifies.
THEOREM LedgerImplementsJournal == LedgerSpec => ImplementsJournal
  <1>1. LedgerInit => Book!Init
    BY DEF LedgerInit, Book!Init
  <1>2. LedgerInv /\ [LedgerNext]_ledgerVars => [Book!Next]_<<entries, claims>>
    <2> SUFFICES ASSUME LedgerInv, [LedgerNext]_ledgerVars
                 PROVE  [Book!Next]_<<entries, claims>>
      OBVIOUS
    <2>1. CASE UNCHANGED ledgerVars
      BY <2>1 DEF ledgerVars
    <2>2. ASSUME NEW c \in Posters, PosterNext(c)
          PROVE  [Book!Next]_<<entries, claims>>
      <3>1. Effect
        BY <2>2, PosterSteps DEF MovesTo
      <3>2. CASE UNCHANGED <<entries, reversed, claims>>
        BY <3>2
      <3>3. CASE Tells
        BY <3>3 DEF Tells, Book!Next, Book!Claim, Book!Posted, Entries
      <3>4. CASE Posts
        BY <3>4 DEF Posts, Book!Next
      <3>5. CASE Marks
        BY <3>5 DEF Marks, Book!Next, Book!Claim, Book!Posted, Entries
      <3>6. QED
        BY <3>1, <3>2, <3>3, <3>4, <3>5 DEF Effect
    <2>3. ASSUME NEW c \in Closers, CloserNext(c)
          PROVE  [Book!Next]_<<entries, claims>>
      BY <2>3, CloserSteps
    <2>4. QED
      BY <2>1, <2>2, <2>3 DEF LedgerNext
  <1>3. QED
    BY <1>1, <1>2, LedgerAlways, PTL DEF LedgerSpec, ImplementsJournal, Book!Spec

-----------------------------------------------------------------------------
(***************************************************************************)
(* What stands behind a decision and behind a sign-off, for any tasks,     *)
(* accounts, adjustments, people and decisions, in whatever order the      *)
(* people of a close do what they do: a decision is used for one item, and *)
(* a signed-off close has its blocking tasks done.                         *)
(***************************************************************************)

\* A task was completed after its predecessors, which stay settled.
CompletedInOrder == \A t \in Tasks : task[t].status = "completed" => PredecessorsSettled(t)

SignedIsDone == period.process \in Signed => BlockingDone

CloseInv == CloseTypeOK /\ OneDecisionOneItem /\ CompletedInOrder /\ SignedIsDone

-----------------------------------------------------------------------------

\* Predecessors are tasks.
LEMMA PredecessorsTasks ==
  ASSUME NEW t \in Tasks, NEW p \in ToSetOf(Predecessors[t])
  PROVE  p \in Tasks
  BY CloseAssumption DEF ToSetOf

LEMMA CloseStarts == CloseInit => CloseInv
  <1> SUFFICES ASSUME CloseInit
               PROVE  CloseInv
    OBVIOUS
  <1>1. CloseTypeOK
    BY DEF CloseInit, Instantiated, CloseTypeOK, TaskStatus, AdjustmentState, ProcessState
  <1>2. OneDecisionOneItem
    BY DEF CloseInit, Instantiated, OneDecisionOneItem, Signed
  <1>3. CompletedInOrder /\ SignedIsDone
    BY DEF CloseInit, Instantiated, CompletedInOrder, SignedIsDone, Signed
  <1>4. QED
    BY <1>1, <1>2, <1>3 DEF CloseInv

\* Nothing unsettles a task: whatever its predecessors were, they still are.
LEMMA SettledStays ==
  ASSUME CloseTypeOK, CompletedInOrder, task' \in [Tasks -> [status : TaskStatus,
           startedBy : People \cup {Nobody}, completedBy : People \cup {Nobody}]],
         \A t \in Tasks : task[t].status \in Settled => task'[t] = task[t],
         \A t \in Tasks : task'[t].status = "completed" =>
           task[t].status = "completed" \/ PredecessorsSettled(t)
  PROVE  /\ CompletedInOrder'
         /\ BlockingDone => BlockingDone'
  <1>1. \A t \in Tasks : PredecessorsSettled(t) => PredecessorsSettled(t)'
    BY PredecessorsTasks DEF PredecessorsSettled
  <1>2. CompletedInOrder'
    BY <1>1 DEF CompletedInOrder
  <1>3. BlockingDone => BlockingDone'
    BY CloseAssumption DEF BlockingDone, Settled
  <1>4. QED
    BY <1>2, <1>3

\* A fresh decision, used for an item, keeps what the uses say.
LEMMA AuthorizesOnce ==
  ASSUME CloseTypeOK, OneDecisionOneItem, NEW by, NEW ref, NEW preparedBy,
         NEW item \in Tasks \cup Adjustments \cup {"close"},
         Authorizes(by, ref, item, preparedBy)
  PROVE  /\ uses' \subseteq Decisions \X (Tasks \cup Adjustments \cup {"close"})
         /\ \A u, v \in uses' : u[1] = v[1] => u = v
         /\ \E u \in uses' : u[2] = item
         /\ uses \subseteq uses'
  <1>1. /\ uses' = uses \cup {<<ref, item>>} /\ ref \in Decisions
        /\ \A u \in uses : u[1] # ref
    BY DEF Authorizes, Fresh
  <1>2. uses' \subseteq Decisions \X (Tasks \cup Adjustments \cup {"close"})
    BY <1>1 DEF CloseTypeOK
  <1>3. \A u, v \in uses : u[1] = v[1] => u = v
    BY DEF OneDecisionOneItem
  <1>4. <<ref, item>>[1] = ref /\ <<ref, item>>[2] = item
    OBVIOUS
  <1>5. \A u, v \in uses' : u[1] = v[1] => u = v
    BY <1>1, <1>3, <1>4
  <1>6. QED
    BY <1>1, <1>2, <1>4, <1>5

-----------------------------------------------------------------------------

LEMMA TasksKeep ==
  ASSUME CloseInv, TaskNext
  PROVE  CloseInv'
  <1> USE DEF OnlyTasks
  <1>1. PICK t \in Tasks, by \in People :
          StartTask(t, by) \/ CompleteTask(t, by) \/ \E ref \in Decisions : WaiveTask(t, by, ref)
    BY DEF TaskNext
  <1>2. UNCHANGED <<account, candidate, adjustment, period>>
    BY <1>1 DEF StartTask, CompleteTask, WaiveTask
  <1>3. task' \in [Tasks -> [status : TaskStatus, startedBy : People \cup {Nobody},
                             completedBy : People \cup {Nobody}]]
    <2> DEFINE One == [status : TaskStatus, startedBy : People \cup {Nobody},
                       completedBy : People \cup {Nobody}]
    <2>1. task \in [Tasks -> One]
      BY DEF CloseInv, CloseTypeOK
    <2>2. \E new \in One : task' = [task EXCEPT ![t] = new]
      <3>1. CASE StartTask(t, by)
        <4>1. [task[t] EXCEPT !.status = "in-progress", !.startedBy = by] \in One
          BY <2>1 DEF TaskStatus
        <4>2. QED
          BY <3>1, <4>1 DEF StartTask
      <3>2. CASE CompleteTask(t, by)
        <4>1. [task[t] EXCEPT !.status = "completed", !.completedBy = by] \in One
          BY <2>1 DEF TaskStatus, Settled
        <4>2. QED
          BY <3>2, <4>1 DEF CompleteTask
      <3>3. CASE \E ref \in Decisions : WaiveTask(t, by, ref)
        <4>1. [status |-> "waived", startedBy |-> Nobody, completedBy |-> Nobody] \in One
          BY DEF TaskStatus, Settled
        <4>2. QED
          BY <3>3, <4>1 DEF WaiveTask
      <3>4. QED
        BY <1>1, <3>1, <3>2, <3>3
    <2>3. QED
      BY <2>1, <2>2
  <1>4. /\ \A s \in Tasks : task[s].status \in Settled => task'[s] = task[s]
        /\ \A s \in Tasks : task'[s].status = "completed" =>
             task[s].status = "completed" \/ PredecessorsSettled(s)
    BY <1>1 DEF CloseInv, CloseTypeOK, StartTask, CompleteTask, WaiveTask, Settled
  <1>5. CompletedInOrder' /\ SignedIsDone'
    BY <1>2, <1>3, <1>4, SettledStays DEF CloseInv, SignedIsDone
  <1>6. CloseTypeOK' /\ OneDecisionOneItem'
    <2>1. CASE UNCHANGED uses /\ \A s \in Tasks : task'[s].status = "waived" => task[s].status = "waived"
      BY <1>2, <1>3, <2>1 DEF CloseInv, CloseTypeOK, OneDecisionOneItem
    <2>2. ASSUME NEW ref \in Decisions, WaiveTask(t, by, ref)
          PROVE  CloseTypeOK' /\ OneDecisionOneItem'
      <3>1. /\ uses' \subseteq Decisions \X (Tasks \cup Adjustments \cup {"close"})
            /\ \A u, v \in uses' : u[1] = v[1] => u = v
            /\ \E u \in uses' : u[2] = t
            /\ uses \subseteq uses'
        BY <2>2, AuthorizesOnce DEF CloseInv, WaiveTask
      <3>2. \A s \in Tasks : task'[s].status = "waived" => s = t \/ task[s].status = "waived"
        BY <2>2 DEF CloseInv, CloseTypeOK, WaiveTask
      <3>3. CloseTypeOK'
        BY <1>2, <1>3, <3>1 DEF CloseInv, CloseTypeOK
      <3>4. OneDecisionOneItem'
        BY <1>2, <3>1, <3>2 DEF CloseInv, OneDecisionOneItem
      <3>5. QED
        BY <3>3, <3>4
    <2>3. CASE StartTask(t, by) \/ CompleteTask(t, by)
      <3>1. UNCHANGED uses
        BY <2>3 DEF StartTask, CompleteTask
      <3>2. task'[t].status \in {"in-progress", "completed"}
        <4>1. CASE StartTask(t, by)
          BY <4>1 DEF CloseInv, CloseTypeOK, StartTask
        <4>2. CASE CompleteTask(t, by)
          BY <4>2 DEF CloseInv, CloseTypeOK, CompleteTask
        <4> QED
          BY <2>3, <4>1, <4>2
      <3>3. \A s \in Tasks : s # t => task'[s] = task[s]
        BY <2>3 DEF CloseInv, CloseTypeOK, StartTask, CompleteTask
      <3>4. \A s \in Tasks : task'[s].status = "waived" => task[s].status = "waived"
        BY <3>2, <3>3
      <3>5. QED
        BY <2>1, <3>1, <3>4
    <2>4. QED
      BY <1>1, <2>2, <2>3
  <1>7. QED
    BY <1>5, <1>6 DEF CloseInv

\* A reconciliation that is computed again, and one that is certified.
LEMMA AccountChanged ==
  ASSUME NEW S, NEW B, NEW f \in [Accounts -> [state : S, balance : B, certified : B]],
         NEW a \in Accounts, NEW st \in S, NEW b \in B
  PROVE  /\ [f EXCEPT ![a] = [@ EXCEPT !.balance = b, !.state = st]]
              \in [Accounts -> [state : S, balance : B, certified : B]]
         /\ [f EXCEPT ![a] = [@ EXCEPT !.certified = b, !.state = st]]
              \in [Accounts -> [state : S, balance : B, certified : B]]
  OBVIOUS

LEMMA AccountsKeep ==
  ASSUME CloseInv, AccountNext
  PROVE  CloseInv'
  <1>1. PICK a \in Accounts : ComputeReconciliation(a) \/ ProposeCertification(a) \/ Certify(a)
    BY DEF AccountNext
  <1>2. UNCHANGED <<task, adjustment, period, uses>>
    BY <1>1 DEF ComputeReconciliation, ProposeCertification, Certify
  <1>3. /\ account' \in [Accounts -> [state : Computed \cup {"absent", "certified", "certification-void"},
                                      balance : Balances \cup {NoBalance},
                                      certified : Balances \cup {NoBalance}]]
        /\ candidate' \in [Accounts -> Balances \cup {NoBalance}]
    <2>0. /\ account \in [Accounts -> [state : Computed \cup {"absent", "certified", "certification-void"},
                                        balance : Balances \cup {NoBalance},
                                        certified : Balances \cup {NoBalance}]]
          /\ candidate \in [Accounts -> Balances \cup {NoBalance}]
      BY DEF CloseInv, CloseTypeOK
    <2>1. CASE ComputeReconciliation(a)
      <3>1. PICK balance \in Balances, state \in Outcomes :
              account' = [account EXCEPT ![a] =
                [@ EXCEPT !.balance = balance, !.state = Recomputed(account[a], balance, state)]]
        BY <2>1 DEF ComputeReconciliation
      <3>2. Recomputed(account[a], balance, state)
              \in Computed \cup {"absent", "certified", "certification-void"}
        BY CloseAssumption DEF Recomputed
      <3>3. candidate' = candidate
        BY <2>1 DEF ComputeReconciliation
      <3>4. QED
        BY <2>0, <3>1, <3>2, <3>3, AccountChanged
    <2>2. CASE ProposeCertification(a)
      <3>1. account' = account /\ candidate' = [candidate EXCEPT ![a] = account[a].balance]
        BY <2>2 DEF ProposeCertification
      <3>2. account[a].balance \in Balances \cup {NoBalance}
        BY <2>0
      <3>3. QED
        BY <2>0, <3>1, <3>2
    <2>3. CASE Certify(a)
      <3>1. /\ account' = [account EXCEPT ![a] = [@ EXCEPT !.certified = candidate[a],
                                                          !.state = "certified"]]
            /\ candidate' = candidate
        BY <2>3 DEF Certify
      <3>2. candidate[a] \in Balances \cup {NoBalance}
        BY <2>0
      <3>3. QED
        BY <2>0, <3>1, <3>2, AccountChanged
    <2>4. QED
      BY <1>1, <2>1, <2>2, <2>3
  <1>4. CloseTypeOK'
    BY <1>2, <1>3 DEF CloseInv, CloseTypeOK
  <1>5. OneDecisionOneItem'
    BY <1>2 DEF CloseInv, OneDecisionOneItem
  <1>6. CompletedInOrder' /\ SignedIsDone'
    BY <1>2 DEF CloseInv, CompletedInOrder, SignedIsDone, PredecessorsSettled, BlockingDone
  <1>7. QED
    BY <1>4, <1>5, <1>6 DEF CloseInv

\* Every state an adjustment is moved to is one of its states, and those that
\* need a decision are only reached from one that has it, or by authorizing.
LEMMA TransitionsSound ==
  ASSUME NEW from \in AdjustmentState, NEW to \in Transitions(from)
  PROVE  /\ to \in AdjustmentState
         /\ to \in {"submitted-as-proposal", "posted-confirmed", "refused-by-ledger"}
              => from \in {"authorized", "submitted-as-proposal",
                           "posted-confirmed", "refused-by-ledger"}
  BY DEF AdjustmentState, Transitions

LEMMA AdjustmentsKeep ==
  ASSUME CloseInv, AdjustmentNext
  PROVE  CloseInv'
  <1>1. PICK i \in Adjustments, by \in People :
          \/ \E to \in AdjustmentState : TransitionAdjustment(i, to, by)
          \/ \E ref \in Decisions : AuthorizeAdjustment(i, by, ref)
    BY DEF AdjustmentNext
  <1>2. UNCHANGED <<task, account, candidate, period>>
    BY <1>1 DEF TransitionAdjustment, AuthorizeAdjustment
  <1>3. CompletedInOrder' /\ SignedIsDone'
    BY <1>2 DEF CloseInv, CompletedInOrder, SignedIsDone, PredecessorsSettled, BlockingDone
  <1>4. adjustment' \in [Adjustments -> [state : AdjustmentState, preparedBy : People \cup {Nobody}]]
    BY <1>1 DEF CloseInv, CloseTypeOK, TransitionAdjustment, AuthorizeAdjustment, AdjustmentState
  <1>5. ASSUME NEW to \in AdjustmentState, TransitionAdjustment(i, to, by)
        PROVE  CloseTypeOK' /\ OneDecisionOneItem'
    <2> DEFINE Deciding == {"authorized", "submitted-as-proposal",
                            "posted-confirmed", "refused-by-ledger"}
    <2>1. adjustment[i].state \in AdjustmentState
      BY DEF CloseInv, CloseTypeOK
    <2>2. to \in Deciding => adjustment[i].state \in Deciding
      BY <1>5, <2>1, TransitionsSound DEF TransitionAdjustment
    <2>3. \A j \in Adjustments : adjustment'[j].state \in Deciding => adjustment[j].state \in Deciding
      BY <1>5, <2>2 DEF CloseInv, CloseTypeOK, TransitionAdjustment
    <2>4. UNCHANGED uses
      BY <1>5 DEF TransitionAdjustment
    <2>5. QED
      BY <1>2, <1>4, <2>3, <2>4 DEF CloseInv, CloseTypeOK, OneDecisionOneItem
  <1>6. ASSUME NEW ref \in Decisions, AuthorizeAdjustment(i, by, ref)
        PROVE  CloseTypeOK' /\ OneDecisionOneItem'
    <2>1. /\ uses' \subseteq Decisions \X (Tasks \cup Adjustments \cup {"close"})
          /\ \A u, v \in uses' : u[1] = v[1] => u = v
          /\ \E u \in uses' : u[2] = i
          /\ uses \subseteq uses'
      BY <1>6, AuthorizesOnce DEF CloseInv, AuthorizeAdjustment
    <2>2. \A j \in Adjustments : j # i => adjustment'[j] = adjustment[j]
      BY <1>6 DEF CloseInv, CloseTypeOK, AuthorizeAdjustment
    <2>3. CloseTypeOK'
      BY <1>2, <1>4, <2>1 DEF CloseInv, CloseTypeOK
    <2>4. OneDecisionOneItem'
      BY <1>2, <2>1, <2>2 DEF CloseInv, OneDecisionOneItem
    <2>5. QED
      BY <2>3, <2>4
  <1>7. QED
    BY <1>1, <1>3, <1>5, <1>6 DEF CloseInv

LEMMA PeriodKeeps ==
  ASSUME CloseInv, PeriodNext
  PROVE  CloseInv'
  <1>1. UNCHANGED <<task, account, candidate, adjustment>>
    BY DEF PeriodNext, AssessReadiness, RequestPeriodClose, RecordPeriodCloseOutcome, RecordSignOff
  <1>2. CompletedInOrder'
    BY <1>1 DEF CloseInv, CompletedInOrder, PredecessorsSettled
  <1>3. CASE AssessReadiness \/ RequestPeriodClose \/ RecordPeriodCloseOutcome
    <2>1. UNCHANGED uses
      BY <1>3 DEF AssessReadiness, RequestPeriodClose, RecordPeriodCloseOutcome
    <2>2. /\ period'.process \in ProcessState
          /\ period'.process \in Signed => period.process \in Signed
      <3>1. CASE AssessReadiness
        BY <3>1 DEF AssessReadiness, CloseInv, CloseTypeOK
      <3>2. CASE RequestPeriodClose
        BY <3>2 DEF RequestPeriodClose, CloseInv, CloseTypeOK, ProcessState, Signed
      <3>3. CASE RecordPeriodCloseOutcome
        BY <3>3 DEF RecordPeriodCloseOutcome, CloseInv, CloseTypeOK, ProcessState, Signed
      <3>4. QED
        BY <1>3, <3>1, <3>2, <3>3
    <2>3. CloseTypeOK' /\ OneDecisionOneItem' /\ SignedIsDone'
      BY <1>1, <2>1, <2>2 DEF CloseInv, CloseTypeOK, OneDecisionOneItem, SignedIsDone, BlockingDone
    <2>4. QED
      BY <1>2, <2>3 DEF CloseInv
  <1>4. ASSUME NEW by \in People, NEW ref \in Decisions, RecordSignOff(by, ref)
        PROVE  CloseInv'
    <2>1. /\ uses' \subseteq Decisions \X (Tasks \cup Adjustments \cup {"close"})
          /\ \A u, v \in uses' : u[1] = v[1] => u = v
          /\ \E u \in uses' : u[2] = "close"
          /\ uses \subseteq uses'
      BY <1>4, AuthorizesOnce DEF CloseInv, RecordSignOff
    <2>2. BlockingDone' /\ period'.process \in ProcessState
      BY <1>1, <1>4 DEF RecordSignOff, BlockingDone, CloseInv, CloseTypeOK, ProcessState
    <2>3. CloseTypeOK'
      BY <1>1, <2>1, <2>2 DEF CloseInv, CloseTypeOK
    <2>4. OneDecisionOneItem'
      BY <1>1, <2>1 DEF CloseInv, OneDecisionOneItem
    <2>5. QED
      BY <1>2, <2>2, <2>3, <2>4 DEF CloseInv, SignedIsDone
  <1>5. QED
    BY <1>3, <1>4 DEF PeriodNext

LEMMA CloseAlways == CloseSpec => []CloseInv
  <1>1. CloseInv /\ [CloseNext]_closeVars => CloseInv'
    <2> SUFFICES ASSUME CloseInv, [CloseNext]_closeVars
                 PROVE  CloseInv'
      OBVIOUS
    <2>1. CASE UNCHANGED closeVars
      BY <2>1 DEF closeVars, CloseInv, CloseTypeOK, OneDecisionOneItem, CompletedInOrder,
                  SignedIsDone, PredecessorsSettled, BlockingDone
    <2>2. CASE CloseNext
      BY <2>2, TasksKeep, AccountsKeep, AdjustmentsKeep, PeriodKeeps DEF CloseNext
    <2>3. QED
      BY <2>1, <2>2
  <1>2. QED
    BY <1>1, CloseStarts, PTL DEF CloseSpec

-----------------------------------------------------------------------------

\* Tasks, reconciliations, adjustments and uses of decisions keep their types.
THEOREM CloseTypes == CloseSpec => []CloseTypeOK
  <1>1. CloseInv => CloseTypeOK
    BY DEF CloseInv
  <1>2. QED
    BY <1>1, CloseAlways, PTL

\* consumedGovernanceRefs binds a decision to one item, and what needed a
\* decision has one, over waivers, adjustments and the sign-off together.
THEOREM DecisionsCorrect == CloseSpec => []OneDecisionOneItem
  <1>1. CloseInv => OneDecisionOneItem
    BY DEF CloseInv
  <1>2. QED
    BY <1>1, CloseAlways, PTL

\* recordSignOff and requestPeriodClose come after all blocking tasks are
\* completed, none of them waived, each after its predecessors were completed or
\* waived; nothing undoes any of that.  Neither looks at required tasks that do
\* not block.
THEOREM SignOffCorrect == CloseSpec => []SignedOffIsDone
  <1>1. CloseInv => SignedOffIsDone
    BY CloseAssumption DEF CloseInv, SignedIsDone, SignedOffIsDone, BlockingDone, CompletedInOrder
  <1>2. QED
    BY <1>1, CloseAlways, PTL

-----------------------------------------------------------------------------
(***************************************************************************)
(* A command of ReceivablesIQ that is made again converges and never       *)
(* doubles, for any commands, amounts and interleaving of their calls and  *)
(* any number of crashes.                                                  *)
(***************************************************************************)

Stages == Applying \cup {"new", "refused", "answered", "failed", "lost"}

\* The calls are records of four fields; what facts a matcher finds is open.
CallsShaped ==
  /\ DOMAIN applying = CashCalls
  /\ \A c \in CashCalls : /\ DOMAIN applying[c] = {"at", "facts", "next", "number"}
                         /\ applying[c].at \in Stages

\* An explicit command at work or answered has the facts its input says, and
\* stands at one of them.
FactsKnown ==
  \A c \in CashCalls : Explicit(c) =>
    /\ applying[c].at \in Applying \cup {"answered"} =>
         applying[c].facts = FactsOf(InputTo[c])
    /\ applying[c].at \in Applying =>
         applying[c].next \in DOMAIN FactsOf(InputTo[c])

KeysUnique == \A e, f \in receivables : e.key = f.key => e = f

\* Under the key of an explicit command's fact, there is that fact.
EntriesTrue ==
  \A e \in receivables : \A c \in CashCalls : Explicit(c) =>
    \A n \in DOMAIN FactsOf(InputTo[c]) :
      e.key = KeyAt(c, n) => e.fact = FactsOf(InputTo[c])[n]

\* What a call has passed is in the journal.
PassedTaken ==
  \A c \in CashCalls : Explicit(c) => \A n \in DOMAIN FactsOf(InputTo[c]) :
    (applying[c].at \in Applying /\ n < applying[c].next) \/ applying[c].at = "answered"
      => Taken(KeyAt(c, n))

CashInv == CallsShaped /\ FactsKnown /\ KeysUnique /\ EntriesTrue /\ PassedTaken

-----------------------------------------------------------------------------

\* The facts of an explicit command are a sequence that is not empty unless
\* its input names no target.
LEMMA FactsAreASequence ==
  ASSUME NEW c \in CashCalls, Explicit(c)
  PROVE  /\ Len(FactsOf(InputTo[c])) \in Nat
         /\ DOMAIN FactsOf(InputTo[c]) = 1 .. Len(FactsOf(InputTo[c]))
         /\ InputTo[c].op # "apply" => DOMAIN FactsOf(InputTo[c]) = {1}
<1>1. CASE InputTo[c].op = "apply"
  <2> DEFINE targets == InputTo[c].targets
  <2>1. targets \in Seq([item : Items, amount : Int])
    BY <1>1, CashAssumption
  <2>2. FactsOf(InputTo[c]) = Made(InputTo[c], targets)
    BY <1>1 DEF FactsOf
  <2>3. /\ DOMAIN Made(InputTo[c], targets) = 1 .. Len(targets)
        /\ Len(targets) \in Nat
    BY <2>1 DEF Made
  <2>4. Len(Made(InputTo[c], targets)) = Len(targets)
    BY <2>3
  <2>5. QED
    BY <1>1, <2>2, <2>3, <2>4
<1>2. CASE InputTo[c].op = "reverse"
  BY <1>2 DEF FactsOf
<1>3. CASE InputTo[c].op = "write-off"
  BY <1>3 DEF FactsOf
<1>4. QED
  BY <1>1, <1>2, <1>3, CashAssumption DEF Explicit

\* The keys of two facts are the same only for one fact of one command.
LEMMA KeysNameFacts ==
  ASSUME NEW c \in CashCalls, NEW d \in CashCalls, Explicit(c),
         NEW n \in DOMAIN FactsOf(InputTo[c]), NEW k, KeyAt(d, k) = KeyAt(c, n)
  PROVE  /\ InputTo[d] = InputTo[c]
         /\ Explicit(d)
         /\ k \in DOMAIN FactsOf(InputTo[d]) => k = n
<1>1. InputTo[d].key = InputTo[c].key
  BY DEF KeyAt
<1>2. InputTo[d] = InputTo[c]
  BY <1>1, CashAssumption
<1>3. Explicit(d)
  BY <1>2 DEF Explicit
<1>4. CASE InputTo[c].op = "apply"
  BY <1>2, <1>3, <1>4 DEF KeyAt
<1>5. CASE InputTo[c].op # "apply"
  BY <1>2, <1>3, <1>5, FactsAreASequence
<1>6. QED
  BY <1>2, <1>3, <1>4, <1>5

\* What a call that goes on looks like.
LEMMA AdvanceShape ==
  ASSUME NEW c \in CashCalls, CallsShaped, Advance(c)
  PROVE  /\ DOMAIN applying' = CashCalls
         /\ \A d \in CashCalls \ {c} : applying'[d] = applying[d]
         /\ DOMAIN applying'[c] = {"at", "facts", "next", "number"}
         /\ applying'[c].facts = applying[c].facts
         /\ applying[c].next = Len(applying[c].facts) => applying'[c].at = "answered"
         /\ applying[c].next # Len(applying[c].facts) =>
              applying'[c].at = "ask" /\ applying'[c].next = applying[c].next + 1
  BY DEF Advance, CallsShaped

LEMMA CashInvInit == CashInit => CashInv
<1> SUFFICES ASSUME CashInit PROVE CashInv
  OBVIOUS
<1>1. CallsShaped
  BY DEF CashInit, CallsShaped, Stages
<1>2. QED
  BY <1>1 DEF CashInit, CashInv, FactsKnown, KeysUnique, EntriesTrue, PassedTaken, Applying

\* Nothing is lost when entries stay and one call c moves: the invariant holds
\* if it holds of c.
LEMMA OneCallMoves ==
  ASSUME CashInv, UNCHANGED receivables, NEW c \in CashCalls, CallsShaped',
         \A d \in CashCalls \ {c} : applying'[d] = applying[d],
         Explicit(c) =>
           /\ applying'[c].at \in Applying \cup {"answered"} =>
                applying'[c].facts = FactsOf(InputTo[c])
           /\ applying'[c].at \in Applying =>
                applying'[c].next \in DOMAIN FactsOf(InputTo[c])
           /\ \A n \in DOMAIN FactsOf(InputTo[c]) :
                (applying'[c].at \in Applying /\ n < applying'[c].next)
                  \/ applying'[c].at = "answered"  => Taken(KeyAt(c, n))
  PROVE  CashInv'
<1>1. FactsKnown'
  BY DEF CashInv, FactsKnown, Explicit
<1>2. KeysUnique' /\ EntriesTrue'
  BY DEF CashInv, KeysUnique, EntriesTrue, Explicit, KeyAt
<1>3. PassedTaken'
  BY DEF CashInv, PassedTaken, Taken, Explicit, KeyAt
<1>4. QED
  BY <1>1, <1>2, <1>3 DEF CashInv

LEMMA ProjectStep ==
  ASSUME CashInv, NEW c \in CashCalls, Project(c)
  PROVE  CashInv'
<1> DEFINE state == ReplayTo
           facts == Facts(InputTo[c], state)
<1>1. DOMAIN applying' = CashCalls /\ \A d \in CashCalls \ {c} : applying'[d] = applying[d]
  BY DEF Project, CashInv, CallsShaped
<1>2. CASE ~Accepted(InputTo[c], state)
  <2>1. applying'[c] = [applying[c] EXCEPT !.at = "refused"]
    BY <1>2 DEF Project, CashInv, CallsShaped
  <2>2. applying'[c].at = "refused" /\ CallsShaped'
    BY <1>1, <2>1 DEF CashInv, CallsShaped, Stages
  <2>3. QED
    BY <1>1, <2>2, OneCallMoves DEF Project, Applying
<1>3. CASE Accepted(InputTo[c], state)
  <2>1. applying'[c] = [at |-> IF facts = <<>> THEN "answered" ELSE "ask",
                        facts |-> facts, next |-> 1, number |-> 0]
    BY <1>3 DEF Project, CashInv, CallsShaped
  <2>2. CallsShaped'
    BY <1>1, <2>1 DEF CashInv, CallsShaped, Stages, Applying
  <2>3. ASSUME Explicit(c)
        PROVE  /\ facts = FactsOf(InputTo[c])
               /\ facts = <<>> => DOMAIN FactsOf(InputTo[c]) = {}
               /\ facts # <<>> => 1 \in DOMAIN FactsOf(InputTo[c])
    <3>1. facts = FactsOf(InputTo[c])
      BY <2>3 DEF Facts, Explicit
    <3>2. CASE InputTo[c].op = "apply"
      BY <2>3, <3>1, <3>2, FactsAreASequence, CashAssumption DEF FactsOf, Made
    <3>3. CASE InputTo[c].op # "apply"
      BY <2>3, <3>1, <3>3, FactsAreASequence
    <3>4. QED
      BY <3>1, <3>2, <3>3
  <2>4. ASSUME Explicit(c), NEW n \in DOMAIN FactsOf(InputTo[c])
        PROVE  n >= 1 /\ n \in Nat
    BY <2>4, FactsAreASequence
  <2>5. QED
    BY <1>1, <2>1, <2>2, <2>3, <2>4, OneCallMoves DEF Project, Applying
<1>4. QED
  BY <1>2, <1>3

LEMMA AskStep ==
  ASSUME CashInv, NEW c \in CashCalls, AskForKey(c)
  PROVE  CashInv'
<1>1. CASE Taken(KeyAt(c, applying[c].next))
  <2>1. Advance(c) /\ applying[c].at = "ask" /\ UNCHANGED receivables
    BY <1>1 DEF AskForKey
  <2>2. CallsShaped'
    BY <2>1, AdvanceShape DEF CashInv, CallsShaped, Stages, Applying
  <2>3. ASSUME Explicit(c)
        PROVE  /\ applying[c].facts = FactsOf(InputTo[c])
               /\ applying[c].next \in 1 .. Len(FactsOf(InputTo[c]))
               /\ \A n \in 1 .. Len(FactsOf(InputTo[c])) :
                    n <= applying[c].next => Taken(KeyAt(c, n))
    BY <1>1, <2>1, <2>3, FactsAreASequence
       DEF CashInv, FactsKnown, PassedTaken, Applying
  <2>4. QED
    BY <2>1, <2>2, <2>3, AdvanceShape, FactsAreASequence, OneCallMoves DEF CashInv, Applying
<1>2. CASE ~Taken(KeyAt(c, applying[c].next))
  <2>1. /\ applying' = [applying EXCEPT ![c].at = "number"]
        /\ applying[c].at = "ask" /\ UNCHANGED receivables
    BY <1>2 DEF AskForKey
  <2>2. /\ CallsShaped' /\ applying'[c].at = "number"
        /\ applying'[c].facts = applying[c].facts /\ applying'[c].next = applying[c].next
        /\ \A d \in CashCalls \ {c} : applying'[d] = applying[d]
    BY <2>1 DEF CashInv, CallsShaped, Stages, Applying
  <2>3. QED
    BY <2>1, <2>2, OneCallMoves DEF CashInv, FactsKnown, PassedTaken, Applying
<1>3. QED
  BY <1>1, <1>2

LEMMA NumberStep ==
  ASSUME CashInv, NEW c \in CashCalls, NextSequence(c)
  PROVE  CashInv'
<1>1. applying[c].at = "number" /\ UNCHANGED receivables
  BY DEF NextSequence
<1>2. /\ CallsShaped' /\ applying'[c].at = "append"
      /\ applying'[c].facts = applying[c].facts /\ applying'[c].next = applying[c].next
      /\ \A d \in CashCalls \ {c} : applying'[d] = applying[d]
  BY DEF NextSequence, CashInv, CallsShaped, Stages, Applying
<1>3. QED
  BY <1>1, <1>2, OneCallMoves DEF CashInv, FactsKnown, PassedTaken, Applying

\* An append that the store takes adds one fact under a new key.
LEMMA AppendStep ==
  ASSUME CashInv, NEW c \in CashCalls, AppendFact(c)
  PROVE  CashInv'
<1> DEFINE key == KeyAt(c, applying[c].next)
           new == [number |-> applying[c].number, key |-> key,
                   fact |-> applying[c].facts[applying[c].next]]
<1>1. CASE Refuses(key)
  <2>1. applying' = [applying EXCEPT ![c].at = "failed"] /\ UNCHANGED receivables
    BY <1>1 DEF AppendFact
  <2>2. /\ CallsShaped' /\ applying'[c].at = "failed"
        /\ \A d \in CashCalls \ {c} : applying'[d] = applying[d]
    BY <2>1 DEF CashInv, CallsShaped, Stages
  <2>3. QED
    BY <2>1, <2>2, OneCallMoves DEF Applying
<1>2. CASE ~Refuses(key)
  <2>1. /\ applying[c].at = "append" /\ ~Taken(key)
        /\ receivables' = receivables \cup {new} /\ Advance(c)
    BY <1>2 DEF AppendFact, Refuses
  <2>2. CallsShaped'
    BY <2>1, AdvanceShape DEF CashInv, CallsShaped, Stages, Applying
  <2>3. KeysUnique'
    BY <2>1 DEF CashInv, KeysUnique, Taken
  <2>4. ASSUME Explicit(c)
        PROVE  /\ applying[c].facts = FactsOf(InputTo[c])
               /\ applying[c].next \in DOMAIN FactsOf(InputTo[c])
    BY <2>1, <2>4 DEF CashInv, FactsKnown, Applying
  <2>5. EntriesTrue'
    <3> SUFFICES ASSUME NEW d \in CashCalls, Explicit(d),
                        NEW n \in DOMAIN FactsOf(InputTo[d]), new.key = KeyAt(d, n)
                 PROVE  new.fact = FactsOf(InputTo[d])[n]
      BY <2>1 DEF CashInv, EntriesTrue, Explicit, KeyAt
    <3>1. InputTo[c] = InputTo[d] /\ Explicit(c)
      BY KeysNameFacts
    <3>2. applying[c].next = n
      BY <2>4, <3>1, KeysNameFacts
    <3>3. QED
      BY <2>4, <3>1, <3>2
  <2>6. \A d \in CashCalls : \A n : Taken(KeyAt(d, n)) => Taken(KeyAt(d, n))'
    BY <2>1 DEF Taken, KeyAt
  <2>7. \A n : n = applying[c].next => Taken(KeyAt(c, n))'
    <3> SUFFICES ASSUME NEW n, n = applying[c].next PROVE \E e \in receivables' : e.key = KeyAt(c, n)
      BY DEF Taken, KeyAt
    <3>1. new \in receivables' /\ new.key = KeyAt(c, n)
      BY <2>1
    <3>2. QED
      BY <3>1
  <2>8. ASSUME Explicit(c)
        PROVE  \A n \in 1 .. Len(FactsOf(InputTo[c])) :
                 n <= applying[c].next => Taken(KeyAt(c, n))'
    <3> SUFFICES ASSUME NEW n \in 1 .. Len(FactsOf(InputTo[c])), n <= applying[c].next
                 PROVE  Taken(KeyAt(c, n))'
      OBVIOUS
    <3>1. DOMAIN FactsOf(InputTo[c]) = 1 .. Len(FactsOf(InputTo[c]))
      BY <2>8, FactsAreASequence
    <3>2. CASE n = applying[c].next
      BY <2>7, <3>2
    <3>3. CASE n # applying[c].next
      <4>1. n < applying[c].next
        BY <2>4, <2>8, <3>1, <3>3, FactsAreASequence
      <4>2. Taken(KeyAt(c, n))
        BY <2>1, <2>8, <3>1, <4>1 DEF CashInv, PassedTaken, Applying
      <4>3. QED
        BY <2>6, <4>2
    <3>4. QED
      BY <3>2, <3>3
  <2>9. FactsKnown'
    <3> SUFFICES ASSUME NEW d \in CashCalls, Explicit(d)
                 PROVE  /\ applying'[d].at \in Applying \cup {"answered"} =>
                             applying'[d].facts = FactsOf(InputTo[d])
                        /\ applying'[d].at \in Applying =>
                             applying'[d].next \in DOMAIN FactsOf(InputTo[d])
      BY DEF FactsKnown, Explicit
    <3>1. CASE d # c
      BY <2>1, <3>1, AdvanceShape DEF CashInv, FactsKnown
    <3>2. CASE d = c
      BY <2>1, <2>4, <3>2, AdvanceShape, FactsAreASequence DEF CashInv, Applying
    <3>3. QED
      BY <3>1, <3>2
  <2>10. PassedTaken'
    <3> SUFFICES ASSUME NEW d \in CashCalls, Explicit(d), NEW n \in DOMAIN FactsOf(InputTo[d]),
                        \/ applying'[d].at \in Applying /\ n < applying'[d].next
                        \/ applying'[d].at = "answered"
                 PROVE  Taken(KeyAt(d, n))'
      BY DEF PassedTaken, Explicit
    <3>1. CASE d # c
      <4>1. applying'[d] = applying[d]
        BY <2>1, <3>1, AdvanceShape DEF CashInv
      <4>2. Taken(KeyAt(d, n))
        BY <4>1 DEF CashInv, PassedTaken
      <4>3. QED
        BY <2>6, <4>2
    <3>2. CASE d = c
      <4>1. n \in 1 .. Len(FactsOf(InputTo[c])) /\ n <= applying[c].next
        BY <2>1, <2>4, <3>2, AdvanceShape, FactsAreASequence DEF CashInv, Applying
      <4>2. QED
        BY <2>8, <3>2, <4>1
    <3>3. QED
      BY <3>1, <3>2
  <2>11. QED
    BY <2>2, <2>3, <2>5, <2>9, <2>10 DEF CashInv
<1>3. QED
  BY <1>1, <1>2

LEMMA TryAgainStep ==
  ASSUME CashInv, NEW c \in CashCalls, TryAgain(c)
  PROVE  CashInv'
<1>1. /\ CallsShaped' /\ applying'[c].at = "new" /\ UNCHANGED receivables
      /\ \A d \in CashCalls \ {c} : applying'[d] = applying[d]
  BY DEF TryAgain, CashInv, CallsShaped, Stages
<1>2. QED
  BY <1>1, OneCallMoves DEF Applying

LEMMA CrashStep == CashInv /\ CashCrash => CashInv'
<1> SUFFICES ASSUME CashInv, CashCrash PROVE CashInv'
  OBVIOUS
<1>1. UNCHANGED receivables
  BY DEF CashCrash
<1>2. \A c \in CashCalls :
        /\ applying[c].at \in Applying => applying'[c] = [applying[c] EXCEPT !.at = "lost"]
        /\ applying[c].at \notin Applying => applying'[c] = applying[c]
  BY DEF CashCrash
<1>3. CallsShaped'
  BY <1>2 DEF CashCrash, CashInv, CallsShaped, Stages
<1>4. \A c \in CashCalls : applying[c].at \in Applying => applying'[c].at = "lost"
  BY <1>2 DEF CashInv, CallsShaped
<1>5. FactsKnown' /\ PassedTaken'
  BY <1>1, <1>2, <1>4 DEF CashInv, FactsKnown, PassedTaken, Taken, KeyAt, Explicit, Applying
<1>6. KeysUnique' /\ EntriesTrue'
  BY <1>1 DEF CashInv, KeysUnique, EntriesTrue, KeyAt, Explicit
<1>7. QED
  BY <1>3, <1>5, <1>6 DEF CashInv

\* The invariant is preserved by every step.
LEMMA CashInvStep == CashInv /\ [CashNext]_cashVars => CashInv'
<1> SUFFICES ASSUME CashInv, [CashNext]_cashVars PROVE CashInv'
  OBVIOUS
<1>1. CASE CashCrash
  BY <1>1, CrashStep
<1>2. ASSUME NEW c \in CashCalls, CommandNext(c) PROVE CashInv'
  BY <1>2, ProjectStep, AskStep, NumberStep, AppendStep, TryAgainStep DEF CommandNext
<1>3. CASE UNCHANGED cashVars
  BY <1>3 DEF cashVars, CashInv, CallsShaped, FactsKnown, KeysUnique, EntriesTrue,
              PassedTaken, Taken, KeyAt, Explicit
<1>4. QED
  BY <1>1, <1>2, <1>3 DEF CashNext

\* No key has two entries, and whoever was answered has its facts in the
\* journal, whichever call appended them.
LEMMA InvConverges == CashInv => CommandsConverge
<1> SUFFICES ASSUME CashInv PROVE CommandsConverge
  OBVIOUS
<1>1. ASSUME NEW c \in CashCalls, applying[c].at = "answered", Explicit(c),
             NEW n \in DOMAIN applying[c].facts
      PROVE  \E e \in receivables : e.key = KeyAt(c, n) /\ e.fact = applying[c].facts[n]
  <2>1. applying[c].facts = FactsOf(InputTo[c])
    BY <1>1 DEF CashInv, FactsKnown
  <2>2. Taken(KeyAt(c, n))
    BY <1>1, <2>1 DEF CashInv, PassedTaken
  <2>3. QED
    BY <1>1, <2>1, <2>2 DEF CashInv, EntriesTrue, Taken
<1>2. QED
  BY <1>1 DEF CashInv, KeysUnique, CommandsConverge

\* A replayed command converges and never doubles (engine.ts, appendFact).
THEOREM ConvergenceCorrect == CashSpec => []CommandsConverge
<1>1. CashSpec => []CashInv
  BY CashInvInit, CashInvStep, PTL DEF CashSpec
<1>2. QED
  BY <1>1, InvConverges, PTL


-----------------------------------------------------------------------------
(***************************************************************************)
(* No application takes more than there is, for any items, receipts,       *)
(* amounts and calls, on the conditions that AmountsWithin states.  First  *)
(* the replay of a journal, entry by entry.                                *)
(***************************************************************************)

NumberedAs(E, n) == {e \in E : e.number = n}

ReplayedAt(E, st, n) ==
  IF n = 0 THEN NothingApplied ELSE ReduceOne(st[n - 1], NumberedAs(E, n))

IsReplayOf(E, m, st) == st = [n \in 0 .. m |-> ReplayedAt(E, st, n)]

LEMMA ReplayOfExists ==
  ASSUME NEW E, NEW m \in Nat
  PROVE  \E st : IsReplayOf(E, m, st)
<1> DEFINE P == {k \in Nat : \E st : IsReplayOf(E, k, st)}
<1>1. 0 \in P
  <2> DEFINE st == [k \in 0 .. 0 |-> NothingApplied]
  <2>1. st = [k \in 0 .. 0 |-> ReplayedAt(E, st, k)]
    BY DEF ReplayedAt
  <2> QED
    BY <2>1 DEF IsReplayOf
<1>2. ASSUME NEW k \in Nat, k \in P PROVE k + 1 \in P
  <2>1. PICK st : IsReplayOf(E, k, st)
    BY <1>2
  <2> DEFINE new == [j \in 0 .. k + 1 |-> ReplayedAt(E, st, j)]
  <2>2. \A j \in 0 .. k : st[j] = new[j]
    BY <2>1 DEF IsReplayOf
  <2>3. \A j \in 0 .. k + 1 : ReplayedAt(E, st, j) = ReplayedAt(E, new, j)
    <3>1. \A j \in 0 .. k + 1 : j # 0 => j - 1 \in 0 .. k
      OBVIOUS
    <3> HIDE DEF new
    <3> QED
      BY <2>2, <3>1 DEF ReplayedAt
  <2>4. new = [j \in 0 .. k + 1 |-> ReplayedAt(E, new, j)]
    BY <2>3
  <2>5. IsReplayOf(E, k + 1, new)
    BY <2>4 DEF IsReplayOf
  <2> QED
    BY <2>5
<1>3. Nat \subseteq P
  <2> HIDE DEF P
  <2> QED
    BY <1>1, <1>2, NatSetInduction
<1> QED
  BY <1>3

\* st is the replay of E at each number up to m; E and D agree up to m.
Follows(E, m, st) == \A n \in 0 .. m : st[n] = ReplayedAt(E, st, n)
SameTo(E, D, m) == \A n \in 1 .. m : NumberedAs(E, n) = NumberedAs(D, n)

\* The projection is where a replay of all the entries ends.
LEMMA ReplayedSteps ==
  ASSUME NEW E, NEW m \in Nat
  PROVE  \E st : /\ Replayed(E, m) = st[m]
                 /\ Follows(E, m, st)
<1> DEFINE st == CHOOSE st : IsReplayOf(E, m, st)
<1>1. IsReplayOf(E, m, st)
  BY ReplayOfExists
<1>2. Replayed(E, m) = st[m]
  BY DEF Replayed, IsReplayOf, ReplayedAt, NumberedAs
<1> HIDE DEF st
<1>3. \A n \in 0 .. m : st[n] = ReplayedAt(E, st, n)
  BY <1>1 DEF IsReplayOf
<1> QED
  BY <1>2, <1>3 DEF Follows

\* What two replays that agree on the entries up to a number give there.
LEMMA ReplaysAgree ==
  ASSUME NEW E, NEW D, NEW m \in Nat, SameTo(E, D, m),
         NEW st, Follows(E, m, st), NEW su, Follows(D, m, su)
  PROVE  st[m] = su[m]
<1> DEFINE P == {n \in Nat : n <= m => st[n] = su[n]}
<1>1. 0 \in P
  BY DEF Follows, ReplayedAt
<1>2. ASSUME NEW n \in Nat, n \in P PROVE n + 1 \in P
  <2>1. CASE n + 1 <= m
    <3>1. n + 1 \in 0 .. m /\ n + 1 \in 1 .. m /\ n <= m /\ (n + 1) - 1 = n /\ n + 1 # 0
      BY <2>1
    <3>2. st[n] = su[n] /\ NumberedAs(E, n + 1) = NumberedAs(D, n + 1)
      BY <1>2, <3>1 DEF SameTo
    <3>3. st[n + 1] = ReplayedAt(E, st, n + 1) /\ su[n + 1] = ReplayedAt(D, su, n + 1)
      BY <3>1 DEF Follows
    <3> QED
      BY <3>1, <3>2, <3>3 DEF ReplayedAt
  <2> QED
    BY <2>1
<1>3. Nat \subseteq P
  <2> HIDE DEF P
  <2> QED
    BY <1>1, <1>2, NatSetInduction
<1> QED
  BY <1>3

LEMMA ReplayedNone ==
  ASSUME NEW E
  PROVE  Replayed(E, 0) = NothingApplied
<1>1. PICK st : /\ Replayed(E, 0) = st[0]
                /\ Follows(E, 0, st)
  BY ReplayedSteps
<1> QED
  BY <1>1 DEF Follows, ReplayedAt

LEMMA ReplayedNext ==
  ASSUME NEW E, NEW m \in Nat
  PROVE  Replayed(E, m + 1) = ReduceOne(Replayed(E, m), NumberedAs(E, m + 1))
<1>1. PICK st : /\ Replayed(E, m) = st[m]
                /\ Follows(E, m, st)
  BY ReplayedSteps
<1>2. PICK su : /\ Replayed(E, m + 1) = su[m + 1]
                /\ Follows(E, m + 1, su)
  <2>1. m + 1 \in Nat
    OBVIOUS
  <2> QED
    BY <2>1, ReplayedSteps
<1>3. st[m] = su[m]
  <2>1. Follows(E, m, su) /\ SameTo(E, E, m)
    BY <1>2 DEF Follows, SameTo
  <2> QED
    BY <1>1, <2>1, ReplaysAgree
<1>4. su[m + 1] = ReplayedAt(E, su, m + 1) /\ (m + 1) - 1 = m /\ m + 1 # 0
  BY <1>2 DEF Follows
<1> QED
  BY <1>1, <1>2, <1>3, <1>4 DEF ReplayedAt

LEMMA ReplayedSame ==
  ASSUME NEW E, NEW D, NEW m \in Nat, \A n \in 1 .. m : NumberedAs(E, n) = NumberedAs(D, n)
  PROVE  Replayed(E, m) = Replayed(D, m)
<1>1. PICK st : /\ Replayed(E, m) = st[m]
                /\ Follows(E, m, st)
  BY ReplayedSteps
<1>2. PICK su : /\ Replayed(D, m) = su[m]
                /\ Follows(D, m, su)
  BY ReplayedSteps
<1>3. SameTo(E, D, m)
  BY DEF SameTo
<1> QED
  BY <1>1, <1>2, <1>3, ReplaysAgree

-----------------------------------------------------------------------------
(* What an entry does to the projection.                                   *)

ValidFact(fact) ==
  /\ fact.kind \in {"application.made", "application.reversed", "writeoff.recorded"}
  /\ fact.kind = "application.made" =>
       fact.item \in Items /\ fact.receipt \in Receipts /\ fact.amount \in Nat
  /\ fact.kind = "writeoff.recorded" => fact.item \in Items /\ fact.amount \in Nat

ApplicationsIn(E) == {e \in E : e.fact.kind = "application.made"}
KeysIn(E) == {e.key : e \in ApplicationsIn(E)}

\* The projections of the entries E.
States(E) ==
  [open : [Items -> Int], unapplied : [Receipts -> Int], made : SUBSET ApplicationsIn(E),
   reversed : SUBSET KeysIn(E), writtenOff : SUBSET Items]

\* The record of a projection after an item, and a receipt, were drawn upon.
DrawnOn(amount, x, units) == [amount EXCEPT ![x] = amount[x] - units]

\* What is given back leaves nothing below zero.
LEMMA GivenBack ==
  ASSUME NEW S, NEW f \in [S -> Int], \A y \in S : f[y] >= 0, NEW x \in S, NEW n \in Nat
  PROVE  \A y \in S : DrawnOn(f, x, -n)[y] >= 0
<1>1. f[x] - (-n) \in Int /\ f[x] - (-n) >= 0
  OBVIOUS
<1> QED
  BY <1>1 DEF DrawnOn

LEMMA ConsumedFields ==
  ASSUME NEW E, NEW s \in States(E), NEW i, NEW units
  PROVE  Consumed(s, i, units)
           = [open |-> DrawnOn(s.open, i, units), unapplied |-> s.unapplied,
              made |-> s.made, reversed |-> s.reversed, writtenOff |-> s.writtenOff]
  BY DEF States, Consumed, DrawnOn

LEMMA MovedFields ==
  ASSUME NEW E, NEW s \in States(E), NEW fact, NEW units
  PROVE  Moved(s, fact, units)
           = [open |-> DrawnOn(s.open, fact.item, units),
              unapplied |-> DrawnOn(s.unapplied, fact.receipt, units),
              made |-> s.made, reversed |-> s.reversed, writtenOff |-> s.writtenOff]
<1> DEFINE c == Consumed(s, fact.item, units)
<1>1. c = [open |-> DrawnOn(s.open, fact.item, units), unapplied |-> s.unapplied,
           made |-> s.made, reversed |-> s.reversed, writtenOff |-> s.writtenOff]
  BY ConsumedFields
<1>2. Moved(s, fact, units) = [c EXCEPT !.unapplied[fact.receipt] = c.unapplied[fact.receipt] - units]
  BY DEF Moved
<1> HIDE DEF c
<1> QED
  BY <1>1, <1>2 DEF DrawnOn

LEMMA DrawnOnTyped ==
  ASSUME NEW S, NEW amount \in [S -> Int], NEW x \in S, NEW units \in Int
  PROVE  /\ DrawnOn(amount, x, units) \in [S -> Int]
         /\ DrawnOn(amount, x, units)[x] = amount[x] - units
         /\ \A y \in S \ {x} : DrawnOn(amount, x, units)[y] = amount[y]
  BY DEF DrawnOn

LEMMA MadeFields ==
  ASSUME NEW E, NEW s \in States(E), NEW e \in E, ValidFact(e.fact),
         e.fact.kind = "application.made"
  PROVE  /\ Reduce(s, e) \in States(E)
         /\ Reduce(s, e).open = DrawnOn(s.open, e.fact.item, e.fact.amount)
         /\ Reduce(s, e).unapplied = DrawnOn(s.unapplied, e.fact.receipt, e.fact.amount)
         /\ Reduce(s, e).made = s.made \cup {e}
         /\ Reduce(s, e).reversed = s.reversed
<1> DEFINE m == Moved(s, e.fact, e.fact.amount)
<1>1. m = [open |-> DrawnOn(s.open, e.fact.item, e.fact.amount),
           unapplied |-> DrawnOn(s.unapplied, e.fact.receipt, e.fact.amount),
           made |-> s.made, reversed |-> s.reversed, writtenOff |-> s.writtenOff]
  BY MovedFields
<1>2. Reduce(s, e) = [m EXCEPT !.made = m.made \cup {e}]
  BY DEF Reduce
<1> HIDE DEF m
<1>3. Reduce(s, e) = [open |-> DrawnOn(s.open, e.fact.item, e.fact.amount),
                      unapplied |-> DrawnOn(s.unapplied, e.fact.receipt, e.fact.amount),
                      made |-> s.made \cup {e}, reversed |-> s.reversed,
                      writtenOff |-> s.writtenOff]
  BY <1>1, <1>2
<1>4. e \in ApplicationsIn(E)
  BY DEF ApplicationsIn
<1>5. /\ DrawnOn(s.open, e.fact.item, e.fact.amount) \in [Items -> Int]
      /\ DrawnOn(s.unapplied, e.fact.receipt, e.fact.amount) \in [Receipts -> Int]
  <2>1. /\ s.open \in [Items -> Int] /\ s.unapplied \in [Receipts -> Int]
        /\ e.fact.item \in Items /\ e.fact.receipt \in Receipts /\ e.fact.amount \in Int
    BY DEF ValidFact, States
  <2> QED
    BY <2>1, DrawnOnTyped
<1> QED
  BY <1>3, <1>4, <1>5 DEF States

LEMMA WrittenOffFields ==
  ASSUME NEW E, NEW s \in States(E), NEW e \in E, ValidFact(e.fact),
         e.fact.kind = "writeoff.recorded"
  PROVE  /\ Reduce(s, e) \in States(E)
         /\ Reduce(s, e).open = DrawnOn(s.open, e.fact.item, e.fact.amount)
         /\ Reduce(s, e).unapplied = s.unapplied
         /\ Reduce(s, e).made = s.made
         /\ Reduce(s, e).reversed = s.reversed
<1> DEFINE m == Consumed(s, e.fact.item, e.fact.amount)
<1>1. m = [open |-> DrawnOn(s.open, e.fact.item, e.fact.amount), unapplied |-> s.unapplied,
           made |-> s.made, reversed |-> s.reversed, writtenOff |-> s.writtenOff]
  BY ConsumedFields
<1>2. Reduce(s, e) = [m EXCEPT !.writtenOff = m.writtenOff \cup {e.fact.item}]
  BY DEF Reduce
<1> HIDE DEF m
<1>3. Reduce(s, e) = [open |-> DrawnOn(s.open, e.fact.item, e.fact.amount),
                      unapplied |-> s.unapplied, made |-> s.made, reversed |-> s.reversed,
                      writtenOff |-> s.writtenOff \cup {e.fact.item}]
  BY <1>1, <1>2
<1>4. DrawnOn(s.open, e.fact.item, e.fact.amount) \in [Items -> Int]
  BY DrawnOnTyped DEF ValidFact, States
<1> QED
  BY <1>3, <1>4 DEF States, ValidFact

\* A reversal gives an application back, or does nothing.
LEMMA ReversedFields ==
  ASSUME NEW E, \A e \in E : ValidFact(e.fact),
         NEW s \in States(E), NEW e \in E, e.fact.kind = "application.reversed"
  PROVE  \/ Reduce(s, e) = s
         \/ \E t \in s.made :
              /\ t.key \notin s.reversed
              /\ t.fact.item \in Items /\ t.fact.receipt \in Receipts /\ t.fact.amount \in Nat
              /\ Reduce(s, e) \in States(E)
              /\ Reduce(s, e).open = DrawnOn(s.open, t.fact.item, -t.fact.amount)
              /\ Reduce(s, e).unapplied = DrawnOn(s.unapplied, t.fact.receipt, -t.fact.amount)
              /\ Reduce(s, e).made = s.made
              /\ Reduce(s, e).reversed = s.reversed \cup {t.key}
<1>1. CASE ~Reversible(s, e.fact.of)
  BY <1>1 DEF Reduce
<1>2. CASE Reversible(s, e.fact.of)
  <2> DEFINE t == Target(s, e.fact.of)
             m == Moved(s, t.fact, -t.fact.amount)
  <2>1. t \in s.made /\ t.key = e.fact.of /\ e.fact.of \notin s.reversed
    BY <1>2 DEF Reversible, Target
  <2>2. m = [open |-> DrawnOn(s.open, t.fact.item, -t.fact.amount),
             unapplied |-> DrawnOn(s.unapplied, t.fact.receipt, -t.fact.amount),
             made |-> s.made, reversed |-> s.reversed, writtenOff |-> s.writtenOff]
    BY MovedFields
  <2>3. Reduce(s, e) = [m EXCEPT !.reversed = m.reversed \cup {e.fact.of}]
    BY <1>2 DEF Reduce
  <2> HIDE DEF m, t
  <2>4. Reduce(s, e) =
          [open |-> DrawnOn(s.open, t.fact.item, -t.fact.amount),
           unapplied |-> DrawnOn(s.unapplied, t.fact.receipt, -t.fact.amount),
           made |-> s.made, reversed |-> s.reversed \cup {t.key}, writtenOff |-> s.writtenOff]
    BY <2>1, <2>2, <2>3
  <2>5. /\ t \in ApplicationsIn(E) /\ t.key \in KeysIn(E)
        /\ t.fact.item \in Items /\ t.fact.receipt \in Receipts /\ t.fact.amount \in Nat
    BY <2>1 DEF States, ApplicationsIn, KeysIn, ValidFact
  <2>6. /\ DrawnOn(s.open, t.fact.item, -t.fact.amount) \in [Items -> Int]
        /\ DrawnOn(s.unapplied, t.fact.receipt, -t.fact.amount) \in [Receipts -> Int]
    <3>1. /\ s.open \in [Items -> Int] /\ s.unapplied \in [Receipts -> Int]
          /\ -t.fact.amount \in Int
      BY <2>5 DEF States
    <3> QED
      BY <2>5, <3>1, DrawnOnTyped
  <2>7. Reduce(s, e) \in States(E)
    BY <2>4, <2>5, <2>6 DEF States
  <2> QED
    BY <2>1, <2>4, <2>5, <2>7
<1> QED
  BY <1>1, <1>2

-----------------------------------------------------------------------------
(* No item is open, and no receipt unapplied, for more than its document   *)
(* says less the applications that stand.                                  *)

ValidEntries(E) ==
  /\ \A e \in E : ValidFact(e.fact)
  /\ \A e, f \in E : e.key = f.key => e = f

AmountIn(E) == [e \in ApplicationsIn(E) |-> e.fact.amount]

Standing(s) == {e \in s.made : e.key \notin s.reversed}
StandingOf(s, i) == {e \in Standing(s) : e.fact.item = i}
StandingFrom(s, r) == {e \in Standing(s) : e.fact.receipt = r}

Covered(E, s) ==
  /\ s \in States(E) /\ IsFiniteSet(s.made)
  /\ \A i \in Items : s.open[i] + TotalOf(AmountIn(E), StandingOf(s, i)) <= Original[i]
  /\ \A r \in Receipts :
       s.unapplied[r] + TotalOf(AmountIn(E), StandingFrom(s, r)) <= Received[r]

\* Standing applications are finitely many, and their amounts natural.
LEMMA StandingTotals ==
  ASSUME NEW E, ValidEntries(E), NEW s \in States(E), IsFiniteSet(s.made),
         NEW T \in SUBSET s.made
  PROVE  /\ IsFiniteSet(T)
         /\ \A e \in T : AmountIn(E)[e] \in Nat /\ AmountIn(E)[e] = e.fact.amount
         /\ TotalOf(AmountIn(E), T) \in Nat
<1>1. IsFiniteSet(T)
  BY FS_Subset
<1>2. \A e \in T : AmountIn(E)[e] \in Nat /\ AmountIn(E)[e] = e.fact.amount
  BY DEF States, ApplicationsIn, AmountIn, ValidEntries, ValidFact
<1> HIDE DEF AmountIn
<1> QED
  BY <1>1, <1>2, TotalNat

\* With one application more, the total grows by no more than its amount.
LEMMA StandingGrows ==
  ASSUME NEW E, ValidEntries(E), NEW s \in States(E), IsFiniteSet(s.made),
         NEW T \in SUBSET s.made, NEW e \in ApplicationsIn(E),
         NEW U \in SUBSET (T \cup {e})
  PROVE  /\ TotalOf(AmountIn(E), U) \in Nat
         /\ TotalOf(AmountIn(E), U) <= TotalOf(AmountIn(E), T) + e.fact.amount
         /\ e \notin U => TotalOf(AmountIn(E), U) <= TotalOf(AmountIn(E), T)
<1> DEFINE F == AmountIn(E)
<1>1. IsFiniteSet(T) /\ TotalOf(F, T) \in Nat /\ \A d \in T : F[d] \in Nat
  BY StandingTotals
<1>2. F[e] = e.fact.amount /\ e.fact.amount \in Nat
  BY DEF ApplicationsIn, AmountIn, ValidEntries, ValidFact
<1>3. IsFiniteSet(T \cup {e}) /\ IsFiniteSet(T \ {e}) /\ IsFiniteSet(U)
  BY <1>1, FS_AddElement, FS_RemoveElement, FS_Subset
<1> HIDE DEF F
<1>4. TotalOf(F, T \cup {e}) <= TotalOf(F, T) + F[e]
  <2>1. CASE e \in T
    <3>1. TotalOf(F, T \cup {e}) = TotalOf(F, T)
      <4>1. T \cup {e} = T
        BY <2>1
      <4> QED
        BY <4>1
    <3>2. F[e] \in Nat
      BY <1>2
    <3> QED
      BY <1>1, <3>1, <3>2
  <2>2. CASE e \notin T
    <3>1. TotalOf(F, T \cup {e}) = F[e] + TotalOf(F, T)
      <4>1. \A d \in T \cup {e} : F[d] \in Int
        BY <1>1, <1>2
      <4> QED
        BY <1>1, <2>2, <4>1, TotalAdd
    <3>2. F[e] \in Nat
      BY <1>2
    <3> QED
      BY <1>1, <3>1, <3>2
  <2> QED
    BY <2>1, <2>2
<1>5. TotalOf(F, U) <= TotalOf(F, T \cup {e}) /\ TotalOf(F, T \cup {e}) \in Nat
  <2>1. \A d \in T \cup {e} : F[d] \in Nat
    BY <1>1, <1>2
  <2> QED
    BY <1>3, <2>1, TotalSubset, TotalNat
<1>6. TotalOf(F, U) \in Nat
  <2>1. \A d \in U : F[d] \in Nat
    BY <1>1, <1>2
  <2> QED
    BY <1>3, <2>1, TotalNat
<1>7. ASSUME e \notin U PROVE TotalOf(F, U) <= TotalOf(F, T)
  <2>1. U \in SUBSET T
    BY <1>7
  <2> QED
    BY <1>1, <2>1, TotalSubset
<1> QED
  BY <1>1, <1>2, <1>4, <1>5, <1>6, <1>7 DEF F

LEMMA MadeCovered ==
  ASSUME NEW E, ValidEntries(E), NEW s, Covered(E, s), NEW e \in E,
         e.fact.kind = "application.made"
  PROVE  Covered(E, Reduce(s, e))
<1> DEFINE u == Reduce(s, e)
           F == AmountIn(E)
           a == e.fact.amount
<1>1. /\ e \in ApplicationsIn(E) /\ ValidFact(e.fact)
      /\ e.fact.item \in Items /\ e.fact.receipt \in Receipts /\ a \in Nat
  BY DEF ApplicationsIn, ValidEntries, ValidFact
<1>2. /\ s \in States(E) /\ IsFiniteSet(s.made)
      /\ s.open \in [Items -> Int] /\ s.unapplied \in [Receipts -> Int]
  BY DEF Covered, States
<1>3. /\ u \in States(E) /\ u.made = s.made \cup {e} /\ u.reversed = s.reversed
      /\ u.open = DrawnOn(s.open, e.fact.item, a)
      /\ u.unapplied = DrawnOn(s.unapplied, e.fact.receipt, a)
  BY <1>1, <1>2, MadeFields
<1> HIDE DEF u, F, a
<1>4. IsFiniteSet(u.made)
  BY <1>2, <1>3, FS_AddElement
<1>5. ASSUME NEW T \in SUBSET s.made, NEW U \in SUBSET (T \cup {e})
      PROVE  /\ TotalOf(F, T) \in Nat /\ TotalOf(F, U) \in Nat
             /\ TotalOf(F, U) <= TotalOf(F, T) + a
             /\ e \notin U => TotalOf(F, U) <= TotalOf(F, T)
  BY <1>1, <1>2, StandingTotals, StandingGrows DEF F, a
<1>6. ASSUME NEW i \in Items PROVE u.open[i] + TotalOf(F, StandingOf(u, i)) <= Original[i]
  <2>1. /\ StandingOf(s, i) \in SUBSET s.made
        /\ StandingOf(u, i) \in SUBSET (StandingOf(s, i) \cup {e})
        /\ i # e.fact.item => e \notin StandingOf(u, i)
    BY <1>3 DEF StandingOf, Standing
  <2>2. s.open[i] + TotalOf(F, StandingOf(s, i)) <= Original[i] /\ s.open[i] \in Int
    BY <1>2 DEF Covered, F
  <2>3. IF i = e.fact.item THEN u.open[i] = s.open[i] - a ELSE u.open[i] = s.open[i]
    BY <1>1, <1>2, <1>3 DEF DrawnOn
  <2>4. Original[i] \in Nat
    BY CashAssumption
  <2> QED
    BY <1>1, <1>5, <2>1, <2>2, <2>3, <2>4
<1>7. ASSUME NEW r \in Receipts
      PROVE  u.unapplied[r] + TotalOf(F, StandingFrom(u, r)) <= Received[r]
  <2>1. /\ StandingFrom(s, r) \in SUBSET s.made
        /\ StandingFrom(u, r) \in SUBSET (StandingFrom(s, r) \cup {e})
        /\ r # e.fact.receipt => e \notin StandingFrom(u, r)
    BY <1>3 DEF StandingFrom, Standing
  <2>2. s.unapplied[r] + TotalOf(F, StandingFrom(s, r)) <= Received[r] /\ s.unapplied[r] \in Int
    BY <1>2 DEF Covered, F
  <2>3. IF r = e.fact.receipt THEN u.unapplied[r] = s.unapplied[r] - a
                              ELSE u.unapplied[r] = s.unapplied[r]
    BY <1>1, <1>2, <1>3 DEF DrawnOn
  <2>4. Received[r] \in Nat
    BY CashAssumption
  <2> QED
    BY <1>1, <1>5, <2>1, <2>2, <2>3, <2>4
<1> QED
  BY <1>3, <1>4, <1>6, <1>7 DEF Covered, F, u

LEMMA WrittenOffCovered ==
  ASSUME NEW E, ValidEntries(E), NEW s, Covered(E, s), NEW e \in E,
         e.fact.kind = "writeoff.recorded"
  PROVE  Covered(E, Reduce(s, e))
<1> DEFINE u == Reduce(s, e)
           a == e.fact.amount
<1>1. ValidFact(e.fact) /\ e.fact.item \in Items /\ a \in Nat
  BY DEF ValidEntries, ValidFact
<1>2. s \in States(E) /\ s.open \in [Items -> Int]
  BY DEF Covered, States
<1>3. /\ u \in States(E) /\ u.made = s.made /\ u.reversed = s.reversed
      /\ u.open = DrawnOn(s.open, e.fact.item, a) /\ u.unapplied = s.unapplied
  BY <1>1, <1>2, WrittenOffFields
<1> HIDE DEF u, a
<1>4. /\ \A i : StandingOf(u, i) = StandingOf(s, i)
      /\ \A r : StandingFrom(u, r) = StandingFrom(s, r)
  BY <1>3 DEF StandingOf, StandingFrom, Standing
<1>5. ASSUME NEW i \in Items
      PROVE  u.open[i] + TotalOf(AmountIn(E), StandingOf(u, i)) <= Original[i]
  <2>1. s.open[i] + TotalOf(AmountIn(E), StandingOf(s, i)) <= Original[i] /\ s.open[i] \in Int
    BY <1>2 DEF Covered
  <2>2. u.open[i] = s.open[i] - a \/ u.open[i] = s.open[i]
    BY <1>1, <1>2, <1>3 DEF DrawnOn
  <2>3. Original[i] \in Nat
    BY CashAssumption
  <2>4. TotalOf(AmountIn(E), StandingOf(s, i)) \in Nat
    <3>1. StandingOf(s, i) \in SUBSET s.made
      BY DEF StandingOf, Standing
    <3> QED
      BY <1>2, <3>1, StandingTotals DEF Covered
  <2> QED
    BY <1>1, <1>4, <2>1, <2>2, <2>3, <2>4
<1> QED
  BY <1>3, <1>4, <1>5 DEF Covered, u

\* A reversal gives back what stands no longer.
LEMMA ReversedCovered ==
  ASSUME NEW E, ValidEntries(E), NEW s, Covered(E, s), NEW e \in E,
         e.fact.kind = "application.reversed"
  PROVE  Covered(E, Reduce(s, e))
<1> DEFINE u == Reduce(s, e)
           F == AmountIn(E)
<1>1. s \in States(E) /\ IsFiniteSet(s.made) /\ \A d \in E : ValidFact(d.fact)
  BY DEF Covered, ValidEntries
<1>2. CASE u = s
  BY <1>2
<1>3. ASSUME NEW t \in s.made, t.key \notin s.reversed,
             t.fact.item \in Items /\ t.fact.receipt \in Receipts /\ t.fact.amount \in Nat,
             u \in States(E),
             u.open = DrawnOn(s.open, t.fact.item, -t.fact.amount),
             u.unapplied = DrawnOn(s.unapplied, t.fact.receipt, -t.fact.amount),
             u.made = s.made, u.reversed = s.reversed \cup {t.key}
      PROVE  Covered(E, u)
  <2> HIDE DEF u, F
  <2> DEFINE a == t.fact.amount
  <2>1. -a \in Int /\ s.open \in [Items -> Int] /\ s.unapplied \in [Receipts -> Int]
    BY <1>1, <1>3 DEF States
  <2>2. Standing(u) = Standing(s) \ {t} /\ t \in Standing(s)
    <3>1. \A d \in s.made : d.key = t.key => d = t
      BY <1>1, <1>3 DEF States, ApplicationsIn, ValidEntries
    <3> QED
      BY <1>3, <3>1 DEF Standing
  <2>3. ASSUME NEW T \in SUBSET s.made
        PROVE  /\ TotalOf(F, T) \in Nat /\ TotalOf(F, T \ {t}) \in Int
               /\ t \in T => TotalOf(F, T) = a + TotalOf(F, T \ {t})
    <3>1. /\ IsFiniteSet(T) /\ TotalOf(F, T) \in Nat
          /\ \A d \in T : F[d] \in Nat /\ F[d] = d.fact.amount
      BY <1>1, StandingTotals DEF F
    <3>2. T \ {t} \in SUBSET s.made
      OBVIOUS
    <3>3. TotalOf(F, T \ {t}) \in Nat
      BY <1>1, <3>2, StandingTotals DEF F
    <3>4. \A d \in T : TotalOf(F, T) = F[d] + TotalOf(F, T \ {d})
      <4>1. \A d \in T : F[d] \in Int
        BY <3>1
      <4> QED
        BY <3>1, <4>1, TotalTaken
    <3> QED
      BY <3>1, <3>3, <3>4
  <2>4. ASSUME NEW i \in Items PROVE u.open[i] + TotalOf(F, StandingOf(u, i)) <= Original[i]
    <3>1. StandingOf(s, i) \in SUBSET s.made
      BY DEF StandingOf, Standing
    <3>2. s.open[i] + TotalOf(F, StandingOf(s, i)) <= Original[i] /\ s.open[i] \in Int
      BY <2>1 DEF Covered, F
    <3>3. Original[i] \in Nat
      BY CashAssumption
    <3>4. CASE i = t.fact.item
      <4>1. t \in StandingOf(s, i) /\ StandingOf(u, i) = StandingOf(s, i) \ {t}
        BY <2>2, <3>4 DEF StandingOf
      <4>2. u.open[i] = s.open[i] + a
        BY <1>3, <2>1, <3>4 DEF DrawnOn
      <4> QED
        BY <1>3, <2>3, <3>1, <3>2, <3>3, <4>1, <4>2
    <3>5. CASE i # t.fact.item
      <4>1. StandingOf(u, i) = StandingOf(s, i)
        BY <2>2, <3>5 DEF StandingOf
      <4>2. u.open[i] = s.open[i]
        BY <1>3, <2>1, <3>5 DEF DrawnOn
      <4> QED
        BY <3>2, <4>1, <4>2
    <3> QED
      BY <3>4, <3>5
  <2>5. ASSUME NEW r \in Receipts
        PROVE  u.unapplied[r] + TotalOf(F, StandingFrom(u, r)) <= Received[r]
    <3>1. StandingFrom(s, r) \in SUBSET s.made
      BY DEF StandingFrom, Standing
    <3>2. s.unapplied[r] + TotalOf(F, StandingFrom(s, r)) <= Received[r] /\ s.unapplied[r] \in Int
      BY <2>1 DEF Covered, F
    <3>3. Received[r] \in Nat
      BY CashAssumption
    <3>4. CASE r = t.fact.receipt
      <4>1. t \in StandingFrom(s, r) /\ StandingFrom(u, r) = StandingFrom(s, r) \ {t}
        BY <2>2, <3>4 DEF StandingFrom
      <4>2. u.unapplied[r] = s.unapplied[r] + a
        BY <1>3, <2>1, <3>4 DEF DrawnOn
      <4> QED
        BY <1>3, <2>3, <3>1, <3>2, <3>3, <4>1, <4>2
    <3>5. CASE r # t.fact.receipt
      <4>1. StandingFrom(u, r) = StandingFrom(s, r)
        BY <2>2, <3>5 DEF StandingFrom
      <4>2. u.unapplied[r] = s.unapplied[r]
        BY <1>3, <2>1, <3>5 DEF DrawnOn
      <4> QED
        BY <3>2, <4>1, <4>2
    <3> QED
      BY <3>4, <3>5
  <2> QED
    BY <1>1, <1>3, <2>4, <2>5 DEF Covered, F
<1> QED
  BY <1>1, <1>2, <1>3, ReversedFields

LEMMA NothingCovered ==
  ASSUME NEW E
  PROVE  Covered(E, NothingApplied)
<1> DEFINE s == NothingApplied
<1>1. s.open = Original /\ s.unapplied = Received /\ s.made = {} /\ s.reversed = {}
  BY DEF NothingApplied
<1>2. s \in States(E)
  BY CashAssumption DEF NothingApplied, States
<1> HIDE DEF s
<1>3. /\ \A i : StandingOf(s, i) = {}
      /\ \A r : StandingFrom(s, r) = {}
  BY <1>1 DEF StandingOf, StandingFrom, Standing
<1>4. IsFiniteSet(s.made)
  BY <1>1, FS_EmptySet
<1>5. /\ \A i \in Items : Original[i] \in Nat
      /\ \A r \in Receipts : Received[r] \in Nat
  BY CashAssumption
<1>6. TotalOf(AmountIn(E), {}) = 0
  BY TotalEmpty
<1> QED
  BY <1>1, <1>2, <1>3, <1>4, <1>5, <1>6 DEF Covered, s

LEMMA OneCovered ==
  ASSUME NEW E, ValidEntries(E), NEW s, Covered(E, s), NEW S \in SUBSET E
  PROVE  Covered(E, ReduceOne(s, S))
<1>1. CASE S = {}
  BY <1>1 DEF ReduceOne
<1>2. CASE S # {}
  <2> DEFINE e == CHOOSE e \in S : TRUE
  <2>1. e \in E /\ ReduceOne(s, S) = Reduce(s, e)
    BY <1>2 DEF ReduceOne
  <2> HIDE DEF e
  <2>2. e.fact.kind \in {"application.made", "application.reversed", "writeoff.recorded"}
    BY <2>1 DEF ValidEntries, ValidFact
  <2> QED
    BY <2>1, <2>2, MadeCovered, WrittenOffCovered, ReversedCovered
<1> QED
  BY <1>1, <1>2

LEMMA ReplayCovered ==
  ASSUME NEW E, ValidEntries(E), NEW m \in Nat
  PROVE  Covered(E, Replayed(E, m))
<1> DEFINE P == {n \in Nat : Covered(E, Replayed(E, n))}
<1>1. 0 \in P
  BY ReplayedNone, NothingCovered
<1>2. ASSUME NEW n \in Nat, n \in P PROVE n + 1 \in P
  <2>1. NumberedAs(E, n + 1) \in SUBSET E
    BY DEF NumberedAs
  <2>2. Covered(E, ReduceOne(Replayed(E, n), NumberedAs(E, n + 1)))
    BY <1>2, <2>1, OneCovered
  <2> QED
    BY <2>2, ReplayedNext
<1>3. Nat \subseteq P
  <2> HIDE DEF P
  <2> QED
    BY <1>1, <1>2, NatSetInduction
<1> QED
  BY <1>3

\* A covered projection has nothing open or unapplied beyond its document.
LEMMA CoveredBounded ==
  ASSUME NEW E, ValidEntries(E), NEW s, Covered(E, s)
  PROVE  /\ \A i \in Items : s.open[i] \in Int /\ s.open[i] <= Original[i]
         /\ \A r \in Receipts : s.unapplied[r] \in Int /\ s.unapplied[r] <= Received[r]
<1>1. /\ s \in States(E) /\ IsFiniteSet(s.made)
      /\ s.open \in [Items -> Int] /\ s.unapplied \in [Receipts -> Int]
  BY DEF Covered, States
<1>2. /\ \A i : StandingOf(s, i) \in SUBSET s.made
      /\ \A r : StandingFrom(s, r) \in SUBSET s.made
  BY DEF StandingOf, StandingFrom, Standing
<1>3. /\ \A i : TotalOf(AmountIn(E), StandingOf(s, i)) \in Nat
      /\ \A r : TotalOf(AmountIn(E), StandingFrom(s, r)) \in Nat
  BY <1>1, <1>2, StandingTotals
<1>4. /\ \A i \in Items : Original[i] \in Nat
      /\ \A r \in Receipts : Received[r] \in Nat
  BY CashAssumption
<1> QED
  BY <1>1, <1>3, <1>4 DEF Covered

-----------------------------------------------------------------------------
(* What a command appends, and that what it has left to append is there to *)
(* be taken.                                                               *)

AmountsOf(facts) == [n \in DOMAIN facts |-> facts[n].amount]

ShapeSeq(facts) ==
  /\ Len(facts) \in Nat /\ DOMAIN facts = 1 .. Len(facts)
  /\ facts = [n \in 1 .. Len(facts) |-> facts[n]]

FactSeq(facts) ==
  /\ Len(facts) \in Nat /\ DOMAIN facts = 1 .. Len(facts)
  /\ facts = [n \in 1 .. Len(facts) |-> facts[n]]
  /\ \A n \in 1 .. Len(facts) : ValidFact(facts[n])

\* The facts from k on are allocations of one receipt to different items, none
\* more than its item and all together not more than the receipt, or one
\* reversal, or one write-off that is not more than its item.
Allocates(s, r, facts, k) ==
  /\ \A n \in k .. Len(facts) :
       /\ facts[n].kind = "application.made" /\ facts[n].receipt = r
       /\ facts[n].amount <= s.open[facts[n].item]
  /\ \A m, n \in k .. Len(facts) : facts[m].item = facts[n].item => m = n
  /\ TotalOf(AmountsOf(facts), k .. Len(facts)) <= s.unapplied[r]

Affordable(s, facts, k) ==
  \/ \E r \in Receipts : Allocates(s, r, facts, k)
  \/ Len(facts) = 1 /\ facts[1].kind = "application.reversed"
  \/ /\ Len(facts) = 1 /\ facts[1].kind = "writeoff.recorded"
     /\ facts[1].amount <= s.open[facts[1].item]

\* Targets: a sequence of items and amounts, which name each item once if they
\* are distinct.
Targets(targets) ==
  /\ Len(targets) \in Nat /\ DOMAIN targets = 1 .. Len(targets)
  /\ \A n \in 1 .. Len(targets) : targets[n].item \in Items /\ targets[n].amount \in Int

Natural(targets) == \A n \in 1 .. Len(targets) : targets[n].amount \in Nat
Distinct(targets) ==
  \A m, n \in 1 .. Len(targets) : targets[m].item = targets[n].item => m = n

LEMMA MadeShape ==
  ASSUME NEW input, NEW targets, Targets(targets)
  PROVE  /\ ShapeSeq(Made(input, targets)) /\ Len(Made(input, targets)) = Len(targets)
         /\ \A n \in 1 .. Len(targets) :
              Made(input, targets)[n] =
                [kind |-> "application.made", receipt |-> input.receipt,
                 item |-> targets[n].item, amount |-> targets[n].amount]
<1> DEFINE facts == Made(input, targets)
           N == Len(targets)
<1>1. /\ N \in Nat /\ DOMAIN facts = 1 .. N
      /\ \A n \in 1 .. N :
           facts[n] = [kind |-> "application.made", receipt |-> input.receipt,
                       item |-> targets[n].item, amount |-> targets[n].amount]
  BY DEF Targets, Made
<1>2. facts = [n \in 1 .. N |-> facts[n]]
  BY DEF Made, Targets
<1>3. Len(facts) = N
  <2> HIDE DEF facts, N
  <2> QED
    BY <1>1, <1>2
<1>4. ShapeSeq(facts)
  <2>1. facts = [n \in 1 .. Len(facts) |-> facts[n]]
    BY <1>2, <1>3
  <2> HIDE DEF facts, N
  <2> QED
    BY <1>1, <1>3, <2>1 DEF ShapeSeq
<1> QED
  BY <1>1, <1>3, <1>4

LEMMA MadeAffordable ==
  ASSUME NEW input, input.receipt \in Receipts, NEW targets, Targets(targets), NEW s,
         Natural(targets),
         WithinBudget(s, input.receipt, Made(input, targets))
  PROVE  /\ FactSeq(Made(input, targets))
         /\ Distinct(targets) => Affordable(s, Made(input, targets), 1)
<1> DEFINE facts == Made(input, targets)
           N == Len(targets)
<1>1. /\ N \in Nat /\ ShapeSeq(facts) /\ Len(facts) = N
      /\ \A n \in 1 .. N :
           facts[n] = [kind |-> "application.made", receipt |-> input.receipt,
                       item |-> targets[n].item, amount |-> targets[n].amount]
  BY MadeShape DEF Targets
<1>2. FactSeq(facts)
  <2> HIDE DEF facts
  <2>1. ASSUME NEW n \in 1 .. N PROVE ValidFact(facts[n])
    <3>1. targets[n].item \in Items /\ targets[n].amount \in Nat
      BY DEF Targets, Natural
    <3>2. /\ facts[n].kind = "application.made" /\ facts[n].receipt = input.receipt
          /\ facts[n].item = targets[n].item /\ facts[n].amount = targets[n].amount
      <4> DEFINE fact == [kind |-> "application.made", receipt |-> input.receipt,
                          item |-> targets[n].item, amount |-> targets[n].amount]
      <4>1. facts[n] = fact
        BY <1>1
      <4>2. /\ fact.kind = "application.made" /\ fact.receipt = input.receipt
            /\ fact.item = targets[n].item /\ fact.amount = targets[n].amount
        OBVIOUS
      <4> HIDE DEF fact
      <4> QED
        BY <4>1, <4>2
    <3> QED
      BY <3>1, <3>2 DEF ValidFact
  <2> HIDE DEF N
  <2> QED
    BY <1>1, <2>1 DEF ShapeSeq, FactSeq
<1>3. ASSUME Distinct(targets) PROVE Allocates(s, input.receipt, facts, 1)
  <2>1. /\ \A n \in DOMAIN facts : facts[n].amount <= s.open[facts[n].item]
        /\ TotalOf(AmountsOf(facts), DOMAIN facts) <= s.unapplied[input.receipt]
    BY DEF WithinBudget, AmountsOf
  <2> HIDE DEF facts
  <2> QED
    BY <1>1, <1>3, <2>1 DEF ShapeSeq, Allocates, Distinct
<1> QED
  BY <1>2, <1>3 DEF Affordable

\* The cascade finds items, and what is taken of them is natural.
LEMMA MatchesItems ==
  ASSUME NEW s, NEW r, NEW ordered
  PROVE  MatchCascade(s, r, ordered) \in SUBSET Items
<1>1. /\ Candidates(s) \in SUBSET Items
      /\ Candidates(s) \cap RemittanceRefs[r] \in SUBSET Items
      /\ {i \in Candidates(s) : s.open[i] = s.unapplied[r]} \in SUBSET Items
      /\ OldestFirst(s, r) \in SUBSET Items
  BY DEF Candidates, OldestFirst
<1>2. UNION Solutions(s, r) \in SUBSET Items
  BY DEF Candidates, Solutions
<1> QED
  BY <1>1, <1>2 DEF MatchCascade

LEMMA BuiltTargets ==
  ASSUME NEW E, NEW s \in States(E), NEW r \in Receipts, NEW S \in SUBSET Items
  PROVE  Targets(Built(s, r, S)) /\ Natural(Built(s, r, S)) /\ Distinct(Built(s, r, S))
<1> DEFINE remaining(i) == s.unapplied[r] - OpenSum(s, Before(S, i))
           taken == {i \in S : \A j \in UpTo(S, i) : s.open[j] > 0 /\ remaining(j) > 0}
           taking(i) == IF remaining(i) < s.open[i] THEN remaining(i) ELSE s.open[i]
           N == Cardinality(taken)
           K == Cardinality(Items)
<1>1. IsFiniteSet(Items) /\ Items = 1 .. K /\ K \in Nat
  BY CashAssumption, FS_CardinalityType
<1>2. s.open \in [Items -> Int] /\ s.unapplied[r] \in Int
  BY DEF States
<1>3. ASSUME NEW i \in Items PROVE remaining(i) \in Int
  <2>1. IsFiniteSet(Before(S, i)) /\ Before(S, i) \in SUBSET Items
    BY <1>1, FS_Subset DEF Before
  <2>2. \A j \in Before(S, i) : s.open[j] \in Int
    BY <1>2, <2>1
  <2>3. TotalOf(s.open, Before(S, i)) \in Int
    BY <2>1, <2>2, TotalTaken
  <2> QED
    BY <1>2, <2>3 DEF OpenSum
<1>4. taken \in SUBSET (1 .. K)
  BY <1>1
<1>5. /\ N \in Nat
      /\ [k \in 1 .. N |-> Nth(taken, k)] \in Bijection(1 .. N, taken)
  <2> HIDE DEF taken, K
  <2> QED
    BY <1>1, <1>4, Numbering
<1>6. ASSUME NEW i \in taken PROVE i \in Items /\ taking(i) \in Nat
  <2>1. i \in Items /\ i \in UpTo(S, i)
    BY <1>1 DEF UpTo
  <2>2. s.open[i] > 0 /\ remaining(i) > 0 /\ s.open[i] \in Int /\ remaining(i) \in Int
    BY <1>2, <1>3, <1>6, <2>1
  <2> HIDE DEF remaining, taken
  <2> QED
    BY <2>1, <2>2
<1>7. Built(s, r, S) = [n \in 1 .. N |-> [item |-> NthOf(taken, n), amount |-> taking(NthOf(taken, n))]]
  BY DEF Built
<1> HIDE DEF remaining, taking, taken, N, K
<1>8. \A n \in 1 .. N : NthOf(taken, n) = Nth(taken, n)
  BY DEF NthOf, Nth, UpTo
<1>9. /\ \A n \in 1 .. N : NthOf(taken, n) \in taken
      /\ \A m, n \in 1 .. N : NthOf(taken, m) = NthOf(taken, n) => m = n
  BY <1>5, <1>8 DEF Bijection, Injection, IsInjective
<1>10. /\ Len(Built(s, r, S)) = N /\ DOMAIN Built(s, r, S) = 1 .. N
       /\ \A n \in 1 .. N : /\ Built(s, r, S)[n].item = NthOf(taken, n)
                            /\ Built(s, r, S)[n].amount = taking(NthOf(taken, n))
  BY <1>5, <1>7
<1> QED
  BY <1>5, <1>6, <1>9, <1>10 DEF Targets, Natural, Distinct

\* What is built is a sequence, whatever the projection is.
LEMMA BuiltShape ==
  ASSUME NEW s, NEW r, NEW S \in SUBSET Items, NEW input
  PROVE  ShapeSeq(Made(input, Built(s, r, S)))
<1> DEFINE built == Built(s, r, S)
           facts == Made(input, built)
<1>1. PICK N \in Nat : DOMAIN built = 1 .. N
  <2> DEFINE remaining(i) == s.unapplied[r] - OpenSum(s, Before(S, i))
             taken == {i \in S : \A j \in UpTo(S, i) : s.open[j] > 0 /\ remaining(j) > 0}
  <2>1. IsFiniteSet(taken)
    <3>1. taken \in SUBSET Items /\ IsFiniteSet(Items)
      BY CashAssumption
    <3> HIDE DEF taken
    <3> QED
      BY <3>1, FS_Subset
  <2>2. DOMAIN built = 1 .. Cardinality(taken)
    BY DEF Built
  <2> HIDE DEF taken, built
  <2> QED
    BY <2>1, <2>2, FS_CardinalityType
<1> HIDE DEF built
<1>2. facts = [n \in 1 .. N |-> facts[n]] /\ DOMAIN facts = 1 .. N
  BY <1>1 DEF Made
<1> HIDE DEF facts
<1>3. Len(facts) = N
  BY <1>2
<1> QED
  BY <1>2, <1>3 DEF ShapeSeq, facts, built

\* The targets of an application and the amount of a write-off.
LEMMA AskedTargets ==
  ASSUME NEW c \in CashCalls, InputTo[c].op = "apply"
  PROVE  /\ InputTo[c].receipt \in Receipts /\ Targets(InputTo[c].targets)
         /\ NoneNegative => Natural(InputTo[c].targets)
         /\ NamesOnce => Distinct(InputTo[c].targets)
<1> DEFINE targets == InputTo[c].targets
           T == [item : Items, amount : Int]
<1>1. InputTo[c].receipt \in Receipts /\ targets \in Seq(T)
  BY CashAssumption
<1>2. /\ NoneNegative => \A n \in DOMAIN targets : targets[n].amount >= 0
      /\ NamesOnce => \A m, n \in DOMAIN targets : targets[m].item = targets[n].item => m = n
  BY DEF NoneNegative, NamesOnce
<1> HIDE DEF targets, T
<1>3. /\ Len(targets) \in Nat /\ DOMAIN targets = 1 .. Len(targets)
      /\ \A n \in 1 .. Len(targets) : targets[n] \in T
  BY <1>1
<1>4. \A n \in 1 .. Len(targets) : targets[n].item \in Items /\ targets[n].amount \in Int
  BY <1>3 DEF T
<1>5. Targets(targets)
  BY <1>3, <1>4 DEF Targets
<1>6. NoneNegative => Natural(targets)
  BY <1>2, <1>3, <1>4 DEF Natural
<1>7. NamesOnce => Distinct(targets)
  BY <1>2, <1>3 DEF Distinct
<1> QED
  BY <1>1, <1>5, <1>6, <1>7 DEF targets

\* Whatever a command asks, its facts are a sequence.
LEMMA FactsShaped ==
  ASSUME NEW c \in CashCalls, NEW s
  PROVE  ShapeSeq(Facts(InputTo[c], s))
<1>1. CASE InputTo[c].op = "apply"
  <2>1. Facts(InputTo[c], s) = Made(InputTo[c], InputTo[c].targets)
    BY <1>1 DEF Facts, FactsOf
  <2> QED
    BY <1>1, <2>1, AskedTargets, MadeShape
<1>2. CASE InputTo[c].op = "auto"
  <2>1. Facts(InputTo[c], s) = Made(InputTo[c], Built(s, InputTo[c].receipt, Matched(InputTo[c], s)))
    BY <1>2 DEF Facts
  <2>2. Matched(InputTo[c], s) \in SUBSET Items
    BY MatchesItems DEF Matched
  <2> QED
    BY <2>1, <2>2, BuiltShape
<1>3. CASE InputTo[c].op = "reverse"
  BY <1>3 DEF Facts, FactsOf, ShapeSeq
<1>4. CASE InputTo[c].op = "write-off"
  BY <1>4 DEF Facts, FactsOf, ShapeSeq
<1> QED
  BY <1>1, <1>2, <1>3, <1>4, CashAssumption

\* What is accepted is valid, and there to be taken if it names items once.
LEMMA AcceptedAffordable ==
  ASSUME NEW E, NEW s, Covered(E, s), NEW c \in CashCalls, Accepted(InputTo[c], s), NoneNegative
  PROVE  /\ FactSeq(Facts(InputTo[c], s))
         /\ NamesOnce => Affordable(s, Facts(InputTo[c], s), 1)
<1> DEFINE input == InputTo[c]
<1>1. s \in States(E)
  BY DEF Covered
<1>2. CASE input.op = "apply"
  <2>1. /\ input.receipt \in Receipts /\ Targets(input.targets) /\ Natural(input.targets)
        /\ NamesOnce => Distinct(input.targets)
    BY <1>2, AskedTargets
  <2>2. /\ Facts(input, s) = Made(input, input.targets)
        /\ WithinBudget(s, input.receipt, Made(input, input.targets))
    BY <1>2 DEF Facts, FactsOf, Accepted
  <2> QED
    BY <2>1, <2>2, MadeAffordable
<1>3. CASE input.op = "auto"
  <2>1. input.receipt \in Receipts
    BY <1>3, CashAssumption
  <2> DEFINE built == Built(s, input.receipt, Matched(input, s))
  <2>2. Targets(built) /\ Natural(built) /\ Distinct(built)
    BY <1>1, <2>1, MatchesItems, BuiltTargets DEF Matched
  <2>3. Facts(input, s) = Made(input, built) /\ WithinBudget(s, input.receipt, Facts(input, s))
    BY <1>3 DEF Facts, Accepted
  <2> HIDE DEF built
  <2> QED
    BY <2>1, <2>2, <2>3, MadeAffordable
<1>4. CASE input.op = "reverse"
  <2>1. Facts(input, s) = <<[kind |-> "application.reversed", of |-> input.of]>>
    BY <1>4 DEF Facts, FactsOf
  <2> QED
    BY <2>1 DEF FactSeq, ValidFact, Affordable
<1>5. CASE input.op = "write-off"
  <2>1. Facts(input, s)
          = <<[kind |-> "writeoff.recorded", item |-> input.item, amount |-> input.amount]>>
    BY <1>5 DEF Facts, FactsOf
  <2>2. input.item \in Items /\ input.amount \in Nat
    <3>1. input.item \in Items /\ input.amount \in Int /\ input.amount >= 0
      BY <1>5, CashAssumption DEF NoneNegative
    <3> QED
      BY <3>1
  <2>3. input.amount <= s.open[input.item]
    BY <1>5 DEF Accepted
  <2> QED
    BY <2>1, <2>2, <2>3 DEF FactSeq, ValidFact, Affordable
<1> QED
  BY <1>2, <1>3, <1>4, <1>5, CashAssumption

\* The total of what is left is the next amount and the total of the rest.
LEMMA AmountsTail ==
  ASSUME NEW facts, FactSeq(facts), NEW k \in 1 .. Len(facts),
         \A n \in k .. Len(facts) : facts[n].kind = "application.made"
  PROVE  /\ facts[k].amount \in Nat
         /\ TotalOf(AmountsOf(facts), k + 1 .. Len(facts)) \in Nat
         /\ TotalOf(AmountsOf(facts), k .. Len(facts))
              = facts[k].amount + TotalOf(AmountsOf(facts), k + 1 .. Len(facts))
<1> DEFINE F == AmountsOf(facts)
           N == Len(facts)
<1>1. \A n \in k .. N : F[n] = facts[n].amount /\ F[n] \in Nat
  BY DEF FactSeq, ValidFact, AmountsOf
<1>2. N \in Nat /\ IsFiniteSet(k .. N) /\ IsFiniteSet(k + 1 .. N)
  <2>1. N \in Nat /\ k \in 1 .. N
    BY DEF FactSeq
  <2> HIDE DEF N
  <2>2. k \in Int /\ k + 1 \in Int /\ N \in Int
    BY <2>1
  <2> QED
    BY <2>1, <2>2, FS_Interval
<1> HIDE DEF F, N
<1>3. k \in k .. N /\ (k .. N) \ {k} = k + 1 .. N
  BY <1>2 DEF N
<1>4. TotalOf(F, k .. N) = F[k] + TotalOf(F, (k .. N) \ {k})
  <2>1. \A n \in k .. N : F[n] \in Int
    BY <1>1
  <2> QED
    BY <1>2, <1>3, <2>1, TotalTaken
<1>5. TotalOf(F, k + 1 .. N) \in Nat
  <2>1. \A n \in k + 1 .. N : F[n] \in Nat
    BY <1>1, <1>2
  <2> QED
    BY <1>2, <2>1, TotalNat
<1> QED
  BY <1>1, <1>3, <1>4, <1>5 DEF F, N

\* A fact that is skipped leaves what comes after it affordable.
LEMMA AffordableAfter ==
  ASSUME NEW E, NEW s \in States(E), NEW facts, FactSeq(facts), NEW k \in 1 .. Len(facts),
         k # Len(facts), Affordable(s, facts, k)
  PROVE  Affordable(s, facts, k + 1)
<1>1. Len(facts) \in Nat /\ Len(facts) # 1 /\ k \in Nat
  <2> DEFINE N == Len(facts)
  <2>1. N \in Nat /\ k \in 1 .. N /\ k # N
    BY DEF FactSeq
  <2> HIDE DEF N
  <2>2. N # 1 /\ k \in Nat
    BY <2>1
  <2> QED
    BY <2>1, <2>2 DEF N
<1>2. PICK r \in Receipts : Allocates(s, r, facts, k)
  BY <1>1 DEF Affordable
<1>3. \A n \in k + 1 .. Len(facts) : n \in k .. Len(facts)
  BY <1>1
<1>4. TotalOf(AmountsOf(facts), k + 1 .. Len(facts)) <= s.unapplied[r]
  <2>1. /\ facts[k].amount \in Nat
        /\ TotalOf(AmountsOf(facts), k + 1 .. Len(facts)) \in Nat
        /\ TotalOf(AmountsOf(facts), k .. Len(facts))
             = facts[k].amount + TotalOf(AmountsOf(facts), k + 1 .. Len(facts))
    BY <1>2, AmountsTail DEF Allocates
  <2>2. TotalOf(AmountsOf(facts), k .. Len(facts)) <= s.unapplied[r] /\ s.unapplied[r] \in Int
    BY <1>2 DEF Allocates, States
  <2> QED
    BY <2>1, <2>2
<1>5. Allocates(s, r, facts, k + 1)
  BY <1>2, <1>3, <1>4 DEF Allocates
<1> QED
  BY <1>5 DEF Affordable

NothingOwed(s) ==
  /\ \A i \in Items : s.open[i] >= 0
  /\ \A r \in Receipts : s.unapplied[r] >= 0

\* An affordable fact leaves no item and no receipt below zero, and what comes
\* after it affordable.
LEMMA AffordableReduced ==
  ASSUME NEW E, \A d \in E : ValidFact(d.fact), NEW s \in States(E), NothingOwed(s),
         NEW facts, FactSeq(facts), NEW k \in 1 .. Len(facts), Affordable(s, facts, k),
         NEW e \in E, e.fact = facts[k]
  PROVE  /\ NothingOwed(Reduce(s, e))
         /\ k # Len(facts) => Affordable(Reduce(s, e), facts, k + 1)
<1> DEFINE u == Reduce(s, e)
<1>1. /\ Len(facts) \in Nat /\ k \in Nat /\ ValidFact(e.fact)
      /\ s.open \in [Items -> Int] /\ s.unapplied \in [Receipts -> Int]
  BY DEF FactSeq, States
<1>2. ASSUME NEW r \in Receipts, Allocates(s, r, facts, k)
      PROVE  /\ NothingOwed(u)
             /\ k # Len(facts) => Affordable(u, facts, k + 1)
  <2> DEFINE a == e.fact.amount
             i == e.fact.item
             rest == TotalOf(AmountsOf(facts), k + 1 .. Len(facts))
  <2>1. k \in k .. Len(facts) /\ e.fact.kind = "application.made" /\ e.fact.receipt = r
    BY <1>1, <1>2 DEF Allocates
  <2>2. i \in Items /\ a \in Nat /\ a <= s.open[i]
    BY <1>1, <1>2, <2>1 DEF ValidFact, Allocates
  <2>3. u.open = DrawnOn(s.open, i, a) /\ u.unapplied = DrawnOn(s.unapplied, r, a)
    BY <1>1, <2>1, MadeFields
  <2>4. a + rest <= s.unapplied[r] /\ rest \in Nat
    BY <1>2, AmountsTail DEF Allocates
  <2> HIDE DEF u, a, i, rest
  <2>5. /\ \A j \in Items : u.open[j] = IF j = i THEN s.open[j] - a ELSE s.open[j]
        /\ \A q \in Receipts :
             u.unapplied[q] = IF q = r THEN s.unapplied[q] - a ELSE s.unapplied[q]
    BY <1>1, <2>2, <2>3 DEF DrawnOn
  <2>6. NothingOwed(u)
    <3>1. ASSUME NEW j \in Items PROVE u.open[j] >= 0
      <4>1. s.open[j] \in Int /\ s.open[j] >= 0
        BY <1>1 DEF NothingOwed
      <4> QED
        BY <2>2, <2>5, <4>1
    <3>2. ASSUME NEW q \in Receipts PROVE u.unapplied[q] >= 0
      <4>1. s.unapplied[q] \in Int /\ s.unapplied[q] >= 0
        BY <1>1 DEF NothingOwed
      <4>2. a \in Nat /\ rest \in Nat /\ a + rest <= s.unapplied[r]
        BY <2>2, <2>4
      <4>3. u.unapplied[q] = IF q = r THEN s.unapplied[q] - a ELSE s.unapplied[q]
        BY <2>5
      <4> QED
        BY ONLY <4>1, <4>2, <4>3
    <3> QED
      BY <3>1, <3>2 DEF NothingOwed
  <2>7. ASSUME k # Len(facts) PROVE Allocates(u, r, facts, k + 1)
    <3>1. \A n \in k + 1 .. Len(facts) :
            n \in k .. Len(facts) /\ n \in 1 .. Len(facts) /\ n # k
      BY <1>1
    <3>2. \A n \in k + 1 .. Len(facts) :
            facts[n].kind = "application.made" /\ facts[n].receipt = r
            /\ facts[n].item # i /\ facts[n].item \in Items
            /\ facts[n].amount <= s.open[facts[n].item]
      BY <1>2, <2>1, <3>1 DEF Allocates, FactSeq, ValidFact, i
    <3>3. rest <= u.unapplied[r]
      BY <1>1, <2>2, <2>4, <2>5
    <3> QED
      BY <1>2, <2>5, <3>1, <3>2, <3>3 DEF Allocates, rest
  <2> QED
    BY <2>6, <2>7 DEF Affordable
<1>3. CASE Len(facts) = 1 /\ facts[1].kind = "application.reversed"
  <2>1. k = 1 /\ k = Len(facts) /\ e.fact.kind = "application.reversed"
    BY <1>1, <1>3
  <2>2. CASE u = s
    BY <2>1, <2>2
  <2>3. ASSUME NEW t \in s.made,
               t.fact.item \in Items, t.fact.receipt \in Receipts, t.fact.amount \in Nat,
               u.open = DrawnOn(s.open, t.fact.item, -t.fact.amount),
               u.unapplied = DrawnOn(s.unapplied, t.fact.receipt, -t.fact.amount)
        PROVE  NothingOwed(u)
    <3> HIDE DEF u
    <3>1. s.open \in [Items -> Int] /\ s.unapplied \in [Receipts -> Int]
      BY <1>1
    <3>2. /\ \A j \in Items : s.open[j] >= 0
          /\ \A q \in Receipts : s.unapplied[q] >= 0
      BY <1>1 DEF NothingOwed
    <3>3. \A j \in Items : u.open[j] >= 0
      BY ONLY <2>3, <3>1, <3>2, GivenBack
    <3>4. \A q \in Receipts : u.unapplied[q] >= 0
      BY ONLY <2>3, <3>1, <3>2, GivenBack
    <3> QED
      BY <3>3, <3>4 DEF NothingOwed
  <2> QED
    BY <2>1, <2>2, <2>3, ReversedFields
<1>4. CASE Len(facts) = 1 /\ facts[1].kind = "writeoff.recorded"
             /\ facts[1].amount <= s.open[facts[1].item]
  <2> DEFINE a == e.fact.amount
             i == e.fact.item
  <2>1. k = 1 /\ k = Len(facts) /\ e.fact.kind = "writeoff.recorded"
    BY <1>1, <1>4
  <2>2. i \in Items /\ a \in Nat /\ a <= s.open[i]
    BY <1>1, <1>4, <2>1 DEF ValidFact
  <2>3. u.open = DrawnOn(s.open, i, a) /\ u.unapplied = s.unapplied
    BY <1>1, <2>1, WrittenOffFields
  <2> HIDE DEF u, a, i
  <2>4. \A j \in Items : u.open[j] = IF j = i THEN s.open[j] - a ELSE s.open[j]
    BY <1>1, <2>2, <2>3 DEF DrawnOn
  <2>5. NothingOwed(u)
    BY <1>1, <2>2, <2>3, <2>4 DEF NothingOwed
  <2> QED
    BY <2>1, <2>5 DEF u
<1> QED
  BY <1>2, <1>3, <1>4 DEF Affordable

-----------------------------------------------------------------------------
(* The invariant.                                                          *)

\* A number is given once: to an entry, or to a call that is to append one.
NumbersGiven ==
  /\ numbered \in Nat
  /\ \A e \in receivables : e.number \in 1 .. numbered
  /\ \A e, f \in receivables : e.number = f.number => e = f
  /\ \A c \in CashCalls : applying[c].at = "append" =>
       /\ applying[c].number \in 1 .. numbered
       /\ \A e \in receivables : e.number # applying[c].number
       /\ \A d \in CashCalls \ {c} :
            applying[d].at = "append" => applying[d].number # applying[c].number

\* A call at work has facts, valid ones if no amount is negative, and stands at
\* one of them.
Prepared(call) ==
  call.at \in Applying =>
    /\ ShapeSeq(call.facts) /\ call.next \in 1 .. Len(call.facts)
    /\ NoneNegative => FactSeq(call.facts)

FactsValid ==
  /\ NoneNegative => \A e \in receivables : ValidFact(e.fact)
  /\ \A c \in CashCalls : Prepared(applying[c])

\* Callers that make one call at a time, of commands that are well made.
Careful == alone /\ NoneNegative /\ NamesOnce

\* The call of careful callers that is at work can afford what it has left to
\* append, and has the last number.
AffordsIt(call, s, last) ==
  /\ call.at \in Applying => Affordable(s, call.facts, call.next)
  /\ call.at = "append" => call.number = last

OneAtATime ==
  Careful =>
    /\ \A c, d \in CashCalls :
         applying[c].at \in Applying /\ applying[d].at \in Applying => c = d
    /\ NothingOwed(ReplayTo)
    /\ \A c \in CashCalls : AffordsIt(applying[c], ReplayTo, numbered)

Bounds == alone \in BOOLEAN /\ cashCrashes \in 0 .. MaxCashCrashes

AmountsInv == CashInv /\ NumbersGiven /\ FactsValid /\ OneAtATime /\ Bounds

LEMMA JournalCovered ==
  ASSUME AmountsInv, NoneNegative
  PROVE  ValidEntries(receivables) /\ Covered(receivables, ReplayTo)
<1>1. ValidEntries(receivables)
  BY DEF AmountsInv, CashInv, KeysUnique, FactsValid, ValidEntries
<1>2. numbered \in Nat
  BY DEF AmountsInv, NumbersGiven
<1> QED
  BY <1>1, <1>2, ReplayCovered DEF ReplayTo

\* No number is replayed before its entry is there.
LEMMA ReplayStays ==
  ASSUME AmountsInv, UNCHANGED receivables, numbered' \in {numbered, numbered + 1}
  PROVE  ReplayTo' = ReplayTo
<1>1. numbered \in Nat /\ \A e \in receivables : e.number \in 1 .. numbered
  BY DEF AmountsInv, NumbersGiven
<1>2. Replayed(receivables, numbered + 1) = Replayed(receivables, numbered)
  <2>1. NumberedAs(receivables, numbered + 1) = {}
    BY <1>1 DEF NumberedAs
  <2> QED
    BY <1>1, <2>1, ReplayedNext DEF ReduceOne
<1> QED
  BY <1>2 DEF ReplayTo

LEMMA AmountsStart == CashInit => AmountsInv
<1> SUFFICES ASSUME CashInit PROVE AmountsInv
  OBVIOUS
<1>1. CashInv
  BY CashInvInit
<1>2. NumbersGiven /\ FactsValid
  BY DEF CashInit, NumbersGiven, FactsValid, Prepared, Applying
<1>3. ReplayTo = NothingApplied
  BY ReplayedNone DEF CashInit, ReplayTo
<1>4. NothingOwed(ReplayTo)
  BY <1>3, CashAssumption DEF NothingOwed, NothingApplied
<1>5. OneAtATime
  BY <1>4 DEF CashInit, OneAtATime, AffordsIt, Applying
<1>6. Bounds
  BY CashAssumption DEF CashInit, Bounds
<1> QED
  BY <1>1, <1>2, <1>5, <1>6 DEF AmountsInv

\* One call goes on, and appends nothing.
LEMMA CallGoesOn ==
  ASSUME AmountsInv, CashInv', NEW c \in CashCalls, UNCHANGED <<receivables, alone, cashCrashes>>,
         numbered' \in {numbered, numbered + 1},
         \A d \in CashCalls \ {c} : applying'[d] = applying[d],
         Prepared(applying'[c]),
         applying'[c].at = "append" => applying'[c].number = numbered' /\ numbered' = numbered + 1,
         numbered' = numbered + 1 => applying'[c].at = "append",
         Careful /\ applying'[c].at \in Applying =>
           /\ \A d \in CashCalls \ {c} : applying[d].at \notin Applying
           /\ Affordable(ReplayTo, applying'[c].facts, applying'[c].next)
  PROVE  AmountsInv'
<1>1. numbered \in Nat /\ numbered' \in Nat
  BY DEF AmountsInv, NumbersGiven
<1>2. NumbersGiven'
  <2>1. \A e \in receivables' : e.number \in 1 .. numbered /\ e.number \in 1 .. numbered'
    BY <1>1 DEF AmountsInv, NumbersGiven
  <2>2. \A e, f \in receivables' : e.number = f.number => e = f
    BY DEF AmountsInv, NumbersGiven
  <2>3. ASSUME NEW d \in CashCalls, d # c, applying'[d].at = "append"
        PROVE  /\ applying'[d].number \in 1 .. numbered
               /\ applying'[d].number \in 1 .. numbered'
               /\ \A e \in receivables : e.number # applying'[d].number
               /\ \A b \in CashCalls \ {c, d} :
                    applying'[b].at = "append" => applying'[b].number # applying'[d].number
    BY <1>1, <2>3 DEF AmountsInv, NumbersGiven
  <2>4. ASSUME applying'[c].at = "append"
        PROVE  /\ applying'[c].number = numbered + 1 /\ numbered' = numbered + 1
               /\ applying'[c].number \in 1 .. numbered'
               /\ \A e \in receivables : e.number # applying'[c].number
               /\ \A d \in CashCalls \ {c} :
                    applying'[d].at = "append" => applying'[d].number # applying'[c].number
    <3>1. applying'[c].number = numbered + 1 /\ numbered' = numbered + 1
      BY <2>4
    <3>2. \A e \in receivables : e.number \in 1 .. numbered
      BY <2>1
    <3> QED
      BY <1>1, <2>3, <3>1, <3>2
  <2>5. ASSUME NEW d \in CashCalls, applying'[d].at = "append"
        PROVE  /\ applying'[d].number \in 1 .. numbered'
               /\ \A e \in receivables : e.number # applying'[d].number
               /\ \A b \in CashCalls \ {d} :
                    applying'[b].at = "append" => applying'[b].number # applying'[d].number
    <3>1. CASE d = c
      BY <2>4, <2>5, <3>1
    <3>2. CASE d # c
      BY <2>3, <2>4, <2>5, <3>2
    <3> QED
      BY <3>1, <3>2
  <2> QED
    BY <1>1, <2>1, <2>2, <2>5 DEF NumbersGiven
<1>3. FactsValid'
  BY DEF AmountsInv, FactsValid
<1>4. OneAtATime'
  <2> SUFFICES ASSUME Careful PROVE OneAtATime'
    BY DEF OneAtATime, Careful
  <2>1. ReplayTo' = ReplayTo
    BY ReplayStays
  <2>2. /\ \A b, d \in CashCalls :
             applying[b].at \in Applying /\ applying[d].at \in Applying => b = d
        /\ NothingOwed(ReplayTo)
        /\ \A d \in CashCalls : AffordsIt(applying[d], ReplayTo, numbered)
    BY DEF AmountsInv, OneAtATime
  <2>3. \A b, d \in CashCalls :
          applying'[b].at \in Applying /\ applying'[d].at \in Applying => b = d
    BY <2>2
  <2>4. AffordsIt(applying'[c], ReplayTo, numbered')
    BY DEF AffordsIt
  <2>5. ASSUME NEW d \in CashCalls, d # c PROVE AffordsIt(applying'[d], ReplayTo, numbered')
    <3>1. applying'[d] = applying[d] /\ AffordsIt(applying[d], ReplayTo, numbered)
      BY <2>2, <2>5
    <3>2. CASE numbered' = numbered
      BY <3>1, <3>2
    <3>3. CASE numbered' = numbered + 1
      <4>1. applying[d].at \notin Applying
        BY <2>5, <3>3 DEF Applying
      <4> QED
        BY <3>1, <4>1 DEF AffordsIt, Applying
    <3> QED
      BY <3>2, <3>3
  <2> QED
    BY <2>1, <2>2, <2>3, <2>4, <2>5 DEF OneAtATime
<1> QED
  BY <1>2, <1>3, <1>4 DEF AmountsInv, Bounds

LEMMA ProjectKeeps ==
  ASSUME AmountsInv, NEW c \in CashCalls, Project(c)
  PROVE  AmountsInv'
<1> DEFINE state == ReplayTo
           facts == Facts(InputTo[c], state)
<1>1. /\ CashInv' /\ UNCHANGED <<receivables, numbered, alone, cashCrashes>>
      /\ \A d \in CashCalls \ {c} : applying'[d] = applying[d]
      /\ alone => \A d \in CashCalls : applying[d].at \notin Applying
  BY ProjectStep DEF Project, AmountsInv, CashInv, CallsShaped
<1>2. CASE ~Accepted(InputTo[c], state)
  <2>1. applying'[c] = [applying[c] EXCEPT !.at = "refused"]
    BY <1>2 DEF Project, AmountsInv, CashInv, CallsShaped
  <2>2. applying'[c].at = "refused"
    BY <2>1 DEF AmountsInv, CashInv, CallsShaped
  <2>3. Prepared(applying'[c]) /\ numbered' # numbered + 1
    BY <1>1, <2>2 DEF Prepared, Applying, AmountsInv, NumbersGiven
  <2> QED
    BY <1>1, <2>2, <2>3, CallGoesOn DEF Applying
<1>3. CASE Accepted(InputTo[c], state)
  <2>1. applying'[c] = [at |-> IF facts = <<>> THEN "answered" ELSE "ask",
                        facts |-> facts, next |-> 1, number |-> 0]
    BY <1>3 DEF Project, AmountsInv, CashInv, CallsShaped
  <2>2. /\ ShapeSeq(facts) /\ (NoneNegative => FactSeq(facts))
        /\ Careful => Affordable(state, facts, 1)
    BY <1>3, JournalCovered, FactsShaped, AcceptedAffordable DEF Careful
  <2> HIDE DEF facts, state
  <2>3. facts # <<>> => 1 \in 1 .. Len(facts)
    BY <2>2 DEF ShapeSeq
  <2>4. Prepared(applying'[c]) /\ numbered' # numbered + 1
    BY <1>1, <2>1, <2>2, <2>3 DEF Prepared, Applying, AmountsInv, NumbersGiven
  <2>5. applying'[c].at # "append"
    BY <2>1
  <2>6. Careful => /\ Affordable(ReplayTo, applying'[c].facts, applying'[c].next)
                   /\ \A d \in CashCalls : applying[d].at \notin Applying
    BY <1>1, <2>1, <2>2 DEF state, Careful
  <2> QED
    BY <1>1, <2>4, <2>5, <2>6, CallGoesOn
<1> QED
  BY <1>2, <1>3

\* A call of careful callers that is at work is the only one.
LEMMA AloneAtWork ==
  ASSUME AmountsInv, NEW c \in CashCalls, applying[c].at \in Applying
  PROVE  /\ ShapeSeq(applying[c].facts) /\ applying[c].next \in 1 .. Len(applying[c].facts)
         /\ NoneNegative => FactSeq(applying[c].facts)
         /\ Careful => /\ \A d \in CashCalls \ {c} : applying[d].at \notin Applying
                       /\ Affordable(ReplayTo, applying[c].facts, applying[c].next)
                       /\ applying[c].at = "append" => applying[c].number = numbered
  BY DEF AmountsInv, FactsValid, Prepared, OneAtATime, AffordsIt

LEMMA AskKeeps ==
  ASSUME AmountsInv, NEW c \in CashCalls, AskForKey(c)
  PROVE  AmountsInv'
<1> DEFINE facts == applying[c].facts
           n == applying[c].next
<1>1. /\ CashInv' /\ UNCHANGED <<receivables, numbered, alone, cashCrashes>>
      /\ applying[c].at \in Applying /\ numbered' # numbered + 1
  BY AskStep DEF AskForKey, AmountsInv, Applying, NumbersGiven
<1>2. /\ ShapeSeq(facts) /\ n \in 1 .. Len(facts)
      /\ NoneNegative => FactSeq(facts)
      /\ Careful => /\ \A d \in CashCalls \ {c} : applying[d].at \notin Applying
                    /\ Affordable(ReplayTo, facts, n)
  BY <1>1, AloneAtWork
<1>3. CASE Taken(KeyAt(c, n))
  <2>1. Advance(c) /\ CallsShaped
    BY <1>3 DEF AskForKey, AmountsInv, CashInv
  <2>2. /\ \A d \in CashCalls \ {c} : applying'[d] = applying[d]
        /\ applying'[c].facts = facts
        /\ n = Len(facts) => applying'[c].at = "answered"
        /\ n # Len(facts) => applying'[c].at = "ask" /\ applying'[c].next = n + 1
    BY <2>1, AdvanceShape
  <2> HIDE DEF facts, n
  <2>3. n # Len(facts) => n + 1 \in 1 .. Len(facts)
    BY <1>2 DEF ShapeSeq
  <2>4. Prepared(applying'[c]) /\ applying'[c].at # "append"
    BY <1>2, <2>2, <2>3 DEF Prepared, Applying
  <2>5. ASSUME Careful, applying'[c].at \in Applying
        PROVE  Affordable(ReplayTo, applying'[c].facts, applying'[c].next)
    <3>1. n # Len(facts) /\ applying'[c].facts = facts /\ applying'[c].next = n + 1
      BY <2>2, <2>5 DEF Applying
    <3>2. ReplayTo \in States(receivables) /\ NoneNegative
      BY <2>5, JournalCovered DEF Covered, Careful
    <3>3. Affordable(ReplayTo, facts, n + 1)
      BY <1>2, <2>5, <3>1, <3>2, AffordableAfter
    <3> QED
      BY <3>1, <3>3
  <2> QED
    BY <1>1, <1>2, <2>2, <2>4, <2>5, CallGoesOn
<1>4. CASE ~Taken(KeyAt(c, n))
  <2>1. applying' = [applying EXCEPT ![c].at = "number"]
    BY <1>4 DEF AskForKey
  <2>2. /\ applying'[c].at = "number" /\ applying'[c].facts = facts /\ applying'[c].next = n
        /\ \A d \in CashCalls \ {c} : applying'[d] = applying[d]
    BY <2>1 DEF AmountsInv, CashInv, CallsShaped
  <2> HIDE DEF facts, n
  <2> QED
    BY <1>1, <1>2, <2>2, CallGoesOn DEF Prepared
<1> QED
  BY <1>3, <1>4

LEMMA NumberKeeps ==
  ASSUME AmountsInv, NEW c \in CashCalls, NextSequence(c)
  PROVE  AmountsInv'
<1>1. /\ CashInv' /\ UNCHANGED <<receivables, alone, cashCrashes>> /\ numbered' = numbered + 1
      /\ applying[c].at \in Applying
  BY NumberStep DEF NextSequence, AmountsInv, Applying
<1>2. /\ applying'[c].at = "append" /\ applying'[c].number = numbered'
      /\ applying'[c].facts = applying[c].facts /\ applying'[c].next = applying[c].next
      /\ \A d \in CashCalls \ {c} : applying'[d] = applying[d]
  BY DEF NextSequence, AmountsInv, CashInv, CallsShaped
<1>3. Prepared(applying'[c])
  BY <1>1, <1>2, AloneAtWork DEF Prepared
<1> QED
  BY <1>1, <1>2, <1>3, AloneAtWork, CallGoesOn

LEMMA TryAgainKeeps ==
  ASSUME AmountsInv, NEW c \in CashCalls, TryAgain(c)
  PROVE  AmountsInv'
<1>1. /\ CashInv' /\ UNCHANGED <<receivables, numbered, alone, cashCrashes>>
      /\ numbered' # numbered + 1
  <2>1. CashInv'
    BY TryAgainStep DEF AmountsInv
  <2>2. UNCHANGED <<receivables, numbered, alone, cashCrashes>>
    BY DEF TryAgain
  <2>3. numbered \in Nat
    BY DEF AmountsInv, NumbersGiven
  <2> QED
    BY <2>1, <2>2, <2>3
<1>2. applying'[c].at = "new" /\ \A d \in CashCalls \ {c} : applying'[d] = applying[d]
  BY DEF TryAgain, AmountsInv, CashInv, CallsShaped
<1>3. Prepared(applying'[c]) /\ applying'[c].at \notin Applying /\ applying'[c].at # "append"
  BY <1>2 DEF Prepared, Applying
<1> QED
  BY <1>1, <1>2, <1>3, CallGoesOn

LEMMA CrashKeeps ==
  ASSUME AmountsInv, CashCrash
  PROVE  AmountsInv'
<1>1. /\ CashInv' /\ UNCHANGED <<receivables, numbered, alone>>
      /\ cashCrashes < MaxCashCrashes /\ cashCrashes' = cashCrashes + 1
  BY CrashStep DEF CashCrash, AmountsInv
<1>2. \A c \in CashCalls : applying'[c].at \notin Applying
  <2>1. \A c \in CashCalls :
          applying'[c] = IF applying[c].at \in Applying THEN [applying[c] EXCEPT !.at = "lost"]
                         ELSE applying[c]
    BY DEF CashCrash
  <2>2. \A c \in CashCalls : applying[c].at \in Applying => applying'[c].at = "lost"
    BY <2>1 DEF AmountsInv, CashInv, CallsShaped
  <2> QED
    BY <2>1, <2>2 DEF Applying
<1>3. NumbersGiven' /\ FactsValid'
  BY <1>1, <1>2 DEF AmountsInv, NumbersGiven, FactsValid, Prepared, Applying
<1>4. OneAtATime'
  <2>1. ReplayTo' = ReplayTo
    BY <1>1, ReplayStays
  <2> QED
    BY <1>1, <1>2, <2>1 DEF AmountsInv, OneAtATime, Careful, AffordsIt, Applying
<1>5. Bounds'
  BY <1>1, CashAssumption DEF AmountsInv, Bounds
<1> QED
  BY <1>1, <1>3, <1>4, <1>5 DEF AmountsInv

\* An append that the store takes is the last of the replay of a caller that is
\* alone.
LEMMA AppendKeeps ==
  ASSUME AmountsInv, NEW c \in CashCalls, AppendFact(c)
  PROVE  AmountsInv'
<1> DEFINE call == applying[c]
           key == KeyAt(c, call.next)
           new == [number |-> call.number, key |-> key, fact |-> call.facts[call.next]]
<1>1. /\ CashInv' /\ CashInv /\ UNCHANGED <<numbered, alone, cashCrashes>>
      /\ call.at = "append" /\ call.at \in Applying /\ numbered \in Nat
  <2>1. CashInv' /\ CashInv
    BY AppendStep DEF AmountsInv
  <2>2. UNCHANGED <<numbered, alone, cashCrashes>> /\ call.at = "append"
    BY DEF AppendFact
  <2> QED
    BY <2>1, <2>2 DEF AmountsInv, NumbersGiven, Applying
<1>2. /\ ShapeSeq(call.facts) /\ call.next \in 1 .. Len(call.facts)
      /\ NoneNegative => FactSeq(call.facts)
      /\ Careful => /\ \A d \in CashCalls \ {c} : applying[d].at \notin Applying
                    /\ Affordable(ReplayTo, call.facts, call.next)
                    /\ call.number = numbered
  BY <1>1, AloneAtWork
<1>3. CASE Refuses(key)
  <2>1. applying' = [applying EXCEPT ![c].at = "failed"] /\ UNCHANGED receivables
    BY <1>3 DEF AppendFact
  <2>2. applying'[c].at = "failed" /\ \A d \in CashCalls \ {c} : applying'[d] = applying[d]
    BY <1>1, <2>1 DEF CashInv, CallsShaped
  <2>3. Prepared(applying'[c]) /\ applying'[c].at \notin Applying /\ applying'[c].at # "append"
    BY <2>2 DEF Prepared, Applying
  <2>4. numbered' # numbered + 1
    BY <1>1
  <2> QED
    BY <1>1, <2>1, <2>2, <2>3, <2>4, CallGoesOn
<1>4. CASE ~Refuses(key)
  <2>1. receivables' = receivables \cup {new} /\ Advance(c)
    BY <1>4 DEF AppendFact
  <2>2. /\ new.number = call.number /\ new.fact = call.facts[call.next]
        /\ NoneNegative => ValidFact(call.facts[call.next])
    BY <1>2 DEF FactSeq
  <2>3. /\ \A d \in CashCalls \ {c} : applying'[d] = applying[d]
        /\ applying'[c].facts = call.facts
        /\ call.next = Len(call.facts) => applying'[c].at = "answered"
        /\ call.next # Len(call.facts) =>
             applying'[c].at = "ask" /\ applying'[c].next = call.next + 1
    BY <1>1, <2>1, AdvanceShape DEF CashInv
  <2>4. applying'[c].at # "append" /\ (applying'[c].at \in Applying => call.next # Len(call.facts))
    BY <2>3 DEF Applying
  <2>5. /\ call.number \in 1 .. numbered
        /\ \A e \in receivables : e.number # call.number /\ e.number \in 1 .. numbered
        /\ \A e, f \in receivables : e.number = f.number => e = f
        /\ \A d \in CashCalls \ {c} :
             applying[d].at = "append" => applying[d].number # call.number
    BY <1>1 DEF AmountsInv, NumbersGiven
  <2> HIDE DEF call, key, new
  <2>6. NumbersGiven'
    <3>1. ASSUME NEW d \in CashCalls, applying'[d].at = "append"
          PROVE  /\ applying'[d].number \in 1 .. numbered
                 /\ \A e \in receivables' : e.number # applying'[d].number
                 /\ \A b \in CashCalls \ {d} :
                      applying'[b].at = "append" => applying'[b].number # applying'[d].number
      <4>1. d # c /\ applying'[d] = applying[d]
        BY <2>3, <2>4, <3>1
      <4>2. /\ applying[d].number \in 1 .. numbered
            /\ \A e \in receivables : e.number # applying[d].number
            /\ \A b \in CashCalls \ {d} :
                 applying[b].at = "append" => applying[b].number # applying[d].number
        BY <3>1, <4>1 DEF AmountsInv, NumbersGiven
      <4>3. applying[d].number # new.number
        BY <2>2, <2>5, <3>1, <4>1
      <4> QED
        BY <2>1, <2>3, <2>4, <4>1, <4>2, <4>3
    <3>2. \A e, f \in receivables' : e.number = f.number => e = f
      BY <2>1, <2>2, <2>5
    <3>3. \A e \in receivables' : e.number \in 1 .. numbered
      BY <2>1, <2>2, <2>5
    <3> QED
      BY <1>1, <3>1, <3>2, <3>3 DEF NumbersGiven
  <2>7. FactsValid'
    <3>1. NoneNegative => \A e \in receivables' : ValidFact(e.fact)
      BY <2>1, <2>2 DEF AmountsInv, FactsValid
    <3>2. Prepared(applying'[c])
      <4>1. call.next # Len(call.facts) => call.next + 1 \in 1 .. Len(call.facts)
        BY <1>2 DEF ShapeSeq
      <4> QED
        BY <1>2, <2>3, <2>4, <4>1 DEF Prepared
    <3>3. \A d \in CashCalls \ {c} : Prepared(applying'[d])
      BY <2>3 DEF AmountsInv, FactsValid
    <3> QED
      BY <3>1, <3>2, <3>3 DEF FactsValid
  <2>8. OneAtATime'
    <3> SUFFICES ASSUME Careful PROVE OneAtATime'
      BY <1>1 DEF OneAtATime, Careful
    <3>n. NoneNegative
      BY DEF Careful
    <3> DEFINE s == ReplayTo
               m == numbered - 1
    <3>1. /\ call.number = numbered /\ m \in Nat /\ m + 1 = numbered
          /\ \A d \in CashCalls \ {c} : applying[d].at \notin Applying
          /\ Affordable(s, call.facts, call.next) /\ NothingOwed(s)
      BY <1>1, <1>2, <2>5 DEF AmountsInv, OneAtATime
    <3>2. /\ \A n \in 1 .. m : NumberedAs(receivables', n) = NumberedAs(receivables, n)
          /\ NumberedAs(receivables, numbered) = {}
          /\ NumberedAs(receivables', numbered) = {new}
      BY <2>1, <2>2, <2>5, <3>1 DEF NumberedAs
    <3>3. s = Replayed(receivables, m)
      <4>1. Replayed(receivables, m + 1) = ReduceOne(Replayed(receivables, m), {})
        BY <3>1, <3>2, ReplayedNext
      <4> QED
        BY <3>1, <4>1 DEF ReduceOne, ReplayTo
    <3>4. Replayed(receivables', m) = s
      BY <3>1, <3>2, <3>3, ReplayedSame
    <3>5. ReplayTo' = Reduce(s, new)
      <4>1. Replayed(receivables', m + 1) = ReduceOne(s, {new})
        <5>1. Replayed(receivables', m + 1)
                = ReduceOne(Replayed(receivables', m), NumberedAs(receivables', m + 1))
          BY <3>1, ReplayedNext
        <5>2. NumberedAs(receivables', m + 1) = {new}
          BY <3>1, <3>2
        <5> QED
          BY ONLY <5>1, <5>2, <3>4
      <4>2. ReduceOne(s, {new}) = Reduce(s, new)
        <5>1. (CHOOSE e \in {new} : TRUE) = new
          OBVIOUS
        <5> QED
          BY <5>1 DEF ReduceOne
      <4> QED
        BY <1>1, <3>1, <4>1, <4>2 DEF ReplayTo
    <3>6. ValidEntries(receivables')
      BY <1>1, <2>7, <3>n DEF CashInv, KeysUnique, FactsValid, ValidEntries
    <3>7. s \in States(receivables')
      BY <3>1, <3>4, <3>6, ReplayCovered DEF Covered
    <3>8. new \in receivables' /\ \A e \in receivables' : ValidFact(e.fact)
      BY <2>1, <3>6 DEF ValidEntries
    <3> HIDE DEF s
    <3>9. /\ NothingOwed(Reduce(s, new))
          /\ call.next # Len(call.facts) => Affordable(Reduce(s, new), call.facts, call.next + 1)
      BY <1>2, <2>2, <3>1, <3>7, <3>8, <3>n, AffordableReduced
    <3>10. AffordsIt(applying'[c], Reduce(s, new), numbered)
      BY <2>3, <2>4, <3>9 DEF AffordsIt
    <3>11. \A d \in CashCalls \ {c} :
             applying'[d].at \notin Applying /\ AffordsIt(applying'[d], Reduce(s, new), numbered)
      BY <2>3, <3>1 DEF AffordsIt, Applying
    <3> QED
      BY <1>1, <3>5, <3>9, <3>10, <3>11 DEF OneAtATime
  <2>9. Bounds'
    BY <1>1 DEF AmountsInv, Bounds
  <2> QED
    BY <1>1, <2>6, <2>7, <2>8, <2>9 DEF AmountsInv
<1> QED
  BY <1>3, <1>4

LEMMA AmountsAlways == CashSpec => []AmountsInv
<1>1. AmountsInv /\ [CashNext]_cashVars => AmountsInv'
  <2> SUFFICES ASSUME AmountsInv, [CashNext]_cashVars PROVE AmountsInv'
    OBVIOUS
  <2>1. CASE CashCrash
    BY <2>1, CrashKeeps
  <2>2. ASSUME NEW c \in CashCalls, CommandNext(c) PROVE AmountsInv'
    BY <2>2, ProjectKeeps, AskKeeps, NumberKeeps, AppendKeeps, TryAgainKeeps DEF CommandNext
  <2>3. CASE UNCHANGED cashVars
    <3>1. CashInv'
      BY <2>3, CashInvStep DEF AmountsInv
    <3>2. ReplayTo' = ReplayTo
      BY <2>3 DEF cashVars, ReplayTo
    <3> QED
      BY <2>3, <3>1, <3>2 DEF cashVars, AmountsInv, NumbersGiven, FactsValid, OneAtATime, Careful, Bounds
  <2> QED
    BY <2>1, <2>2, <2>3 DEF CashNext
<1> QED
  BY <1>1, AmountsStart, PTL DEF CashSpec

\* Entries have numbers that were given, each its own, and a call stands at one
\* of its facts.
THEOREM CashTypes == CashSpec => []CashTypeOK
<1>1. AmountsInv => CashTypeOK
  <2> SUFFICES ASSUME AmountsInv PROVE CashTypeOK
    OBVIOUS
  <2>1. /\ numbered \in Nat /\ \A e \in receivables : e.number \in 1 .. numbered
        /\ \A e, f \in receivables : e.number = f.number => e = f
    BY DEF AmountsInv, NumbersGiven
  <2>2. \A c \in CashCalls :
          /\ applying[c].at \in Applying \cup {"new", "refused", "answered", "failed", "lost"}
          /\ applying[c].at \in Applying => applying[c].next \in DOMAIN applying[c].facts
    BY DEF AmountsInv, CashInv, CallsShaped, Stages, FactsValid, Prepared, ShapeSeq
  <2> QED
    BY <2>1, <2>2 DEF AmountsInv, Bounds, CashTypeOK
<1> QED
  BY <1>1, AmountsAlways, PTL

\* Of commands without negative amounts: whatever calls race, no item is open for
\* more than its document says and no receipt has more left than was received;
\* and if calls are made one at a time and name an item once, no crash, retry,
\* reversal or write-off applies more than there is (projection.ts, I-1;
\* engine.ts, "Budget and boundary checks").
THEOREM AmountsCorrect == CashSpec => []AmountsWithin
<1>1. AmountsInv => AmountsWithin
  <2> SUFFICES ASSUME AmountsInv, NoneNegative
               PROVE  /\ \A i \in Items : ReplayTo.open[i] <= Original[i]
                      /\ \A r \in Receipts : ReplayTo.unapplied[r] <= Received[r]
                      /\ alone /\ NamesOnce => NoneOverdrawn
    BY DEF AmountsWithin
  <2>1. /\ \A i \in Items : ReplayTo.open[i] <= Original[i]
        /\ \A r \in Receipts : ReplayTo.unapplied[r] <= Received[r]
    BY JournalCovered, CoveredBounded
  <2>2. alone /\ NamesOnce => NothingOwed(ReplayTo)
    BY DEF AmountsInv, OneAtATime, Careful
  <2> QED
    BY <2>1, <2>2 DEF NoneOverdrawn, NothingOwed
<1> QED
  BY <1>1, AmountsAlways, PTL
=============================================================================
