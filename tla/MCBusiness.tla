----------------------------- MODULE MCBusiness -----------------------------
(***************************************************************************)
(* Small instances of the ledger, of a period close and of a work order.   *)
(* They share no state: a behaviour is of one part, calls of two runtimes  *)
(* that post to one book ("posts"), a call that posts and one that closes  *)
(* and reopens periods ("closes"), the people of one close with either its *)
(* certifications or its adjustments ("certify", "adjust"), the people of  *)
(* one work order ("floor"), callers that create work orders ("intake"),   *)
(* or callers that apply cash to open items ("cash").                      *)
(***************************************************************************)
EXTENDS LedgerPosting, CloseCycle, WorkOrderFloor, WorkOrderIntake, CashApplication

CONSTANTS north, south, clerk, cook, keeper, invoice, accrual,
          prepare, review, ann, engine, cut, pack, first, again, changed, elsewhere

ASSUME ClerkPosts == clerk \in Posters

VARIABLE part

allVars == <<part, ledgerVars, closeVars, floorVars, intakeVars, cashVars>>

MCRuntimeOf == [c \in Posters \cup Closers |-> IF c = cook THEN south ELSE north]
MCProposals ==
  {[key |-> invoice, period |-> 1, type |-> "standard", of |-> NoEntry],
   [key |-> accrual, period |-> 1, type |-> "adjusting", of |-> invoice]}
MCFirstStates == {<<"open", "open">>, <<"pending-close", "open">>}

MaxJournal == 3   \* bound: entries that two runtimes append

MCPredecessors == [t \in Tasks |-> IF t = review THEN <<prepare>> ELSE <<>>]
MCReviewer == [t \in Tasks |-> Nobody]

MCDependsOn == [s \in Steps |-> IF s = pack THEN {cut} ELSE {}]

MCFirstLog == <<Event("ready", cut), Event("started", cut)>>

MCHostOf == [c \in Creates |-> IF c = elsewhere THEN south ELSE north]
MCKeyOf == [c \in Creates |-> invoice]
MCInputOf == [c \in Creates |-> IF c = changed THEN cook ELSE clerk]

\* Two allocations made twice, two reversals of the first, two matches and a
\* write-off; the first four race.
Allocation ==
  [op |-> "apply", key |-> 1, receipt |-> "wire",
   targets |-> <<[item |-> 1, amount |-> 2], [item |-> 2, amount |-> 1]>>]
Inputs ==
  <<Allocation, Allocation,
    [op |-> "reverse", key |-> 2, of |-> <<1, 1>>],
    [op |-> "reverse", key |-> 3, of |-> <<1, 1>>],
    [op |-> "auto", key |-> 4, receipt |-> "wire", ordered |-> TRUE],
    [op |-> "auto", key |-> 5, receipt |-> "cheque", ordered |-> FALSE],
    [op |-> "write-off", key |-> 6, item |-> 1, amount |-> 1]>>
MCInputTo == [c \in CashCalls |-> Inputs[c]]
Racing == 1 .. 4
MCOriginal == [i \in Items |-> 2]
MCReceived == [r \in Receipts |-> IF r = "wire" THEN 3 ELSE 2]
MCRemittanceRefs == [r \in Receipts |-> IF r = "cheque" THEN {2} ELSE {}]

\* One application of what the receipt has to one item, in two allocations.
MCTwiceInputTo ==
  [c \in CashCalls |->
     [op |-> "apply", key |-> 1, receipt |-> "wire",
      targets |-> <<[item |-> 1, amount |-> 2], [item |-> 1, amount |-> 1]>>]]

BusinessInit ==
  /\ part \in {"posts", "closes", "certify", "adjust", "floor", "intake", "cash"}
  /\ LedgerInit /\ CloseInit /\ FloorInit /\ IntakeInit /\ CashInit
  \* Where the periods start matters most where they change.
  /\ part # "cash" => alone
  /\ part # "closes" => periodState = <<"open", "open">>

BusinessNext ==
  /\ \/ /\ part = "posts"
        /\ \E c \in Posters : PosterNext(c)
        /\ Len(entries') <= MaxJournal
        /\ UNCHANGED <<closeVars, floorVars, intakeVars, cashVars>>
     \/ /\ part = "closes"
        /\ PosterNext(clerk) \/ \E c \in Closers : CloserNext(c)
        /\ UNCHANGED <<closeVars, floorVars, intakeVars, cashVars>>
     \/ /\ part \in {"certify", "adjust"} /\ CloseNext
        /\ part = "certify" => UNCHANGED adjustment
        /\ part = "adjust" => UNCHANGED <<account, candidate>>
        /\ UNCHANGED <<ledgerVars, floorVars, intakeVars, cashVars>>
     \/ /\ part = "floor" /\ FloorNext
        /\ UNCHANGED <<ledgerVars, closeVars, intakeVars, cashVars>>
     \/ /\ part = "intake" /\ IntakeNext
        /\ UNCHANGED <<ledgerVars, closeVars, floorVars, cashVars>>
     \/ /\ part = "cash"
        /\ (alone /\ CashCrash) \/ \E c \in CashCalls : (alone \/ c \in Racing) /\ CommandNext(c)
        /\ UNCHANGED <<ledgerVars, closeVars, floorVars, intakeVars>>
  /\ UNCHANGED part

BusinessSpec == BusinessInit /\ [][BusinessNext]_allVars

\* The variables of the modules have their types, a posting's retries and
\* a close's walk over earlier periods within their bounds.
BusinessTypes == LedgerTypeOK /\ CloseTypeOK /\ IntakeTypeOK /\ FloorTypeOK /\ CashTypeOK
=============================================================================
