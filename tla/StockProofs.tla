---------------------------- MODULE StockProofs ----------------------------
(***************************************************************************)
(* The promises of stock, for any reserves, settlements, processes and     *)
(* quantities: the reserved figure is the sum of the live holds, a repeat  *)
(* holds once, and calls that interleave at each of their awaits happen as *)
(* if they were one step each.  The first and the last are of hosts that   *)
(* settle a reservation by one call at a time, in processes that live to   *)
(* the end of it; the second of hosts that serve one operation in one      *)
(* process.                                                                *)
(***************************************************************************)
EXTENDS StockReservations, TotalsProofs

SettledInTurn == ~Overlapping /\ \A c \in Settlements : Process[c] \notin Mortal
OneProcessEach == \A r, s \in Requests : SameOperation(r, s) => Process[r] = Process[s]

\* Who holds the version that is the ledger's holds the position that is.
SeenInv ==
  \A c \in Calls : /\ basis[c].version <= pos.version
                   /\ basis[c].version = pos.version => basis[c] = pos

\* An attempt is made while there are attempts left.
TriesInv == \A r \in Requests : at[r] \in {"idle", "list", "read", "save"} => tries[r] < MaxAttempts

\* A reservation is in the store once the call that creates it is over, and
\* what is settled is in the store.
PlaceInv ==
  /\ \A r \in Requests : /\ status[r] # "none" => at[r] = "granted"
                         /\ at[r] # "mark"
  /\ \A c \in Settlements : at[c] \in UnderWay => status[Target[c]] # "none"

StockInv == StockTypeOK /\ SeenInv /\ TriesInv /\ PlaceInv

\* What a settlement settles is held, and by no other settled meanwhile.
SettlingInv ==
  \A c \in Settlements :
    /\ at[c] \in {"idle", "refused", "settled", "read", "save", "mark"}
    /\ at[c] \in UnderWay =>
         /\ status[Target[c]] = "held"
         /\ \A d \in Settling(Target[c]) : d = c

\* Of one operation one call at a time is served, and it goes on past the check
\* of repeats when no other holds.
OperationInv ==
  \A r, s \in Requests : SameOperation(r, s) /\ r # s =>
    /\ at[r] \in UnderWay => at[s] \notin UnderWay
    /\ at[r] \in UnderWay \ {"list"} => status[s] # "held"
    /\ status[r] = "held" => status[s] # "held"

-----------------------------------------------------------------------------

LEMMA StockStarts == StockInit => StockInv /\ SettlingInv /\ OperationInv
BY StockAssumption DEF StockInit, StockInv, StockTypeOK, SeenInv, TriesInv, PlaceInv, SettlingInv,
   OperationInv, Position, UnderWay, Answers, Calls, Settling

\* What two calls disagree on, they are.
LEMMA StockTypesKept ==
  ASSUME StockInv, [StockNext]_stockVars
  PROVE  StockTypeOK'
<1> USE StockAssumption DEF StockInv, StockTypeOK, Position, Answers, UnderWay, MoveTo, Calls
<1>1. ASSUME NEW r \in Requests, Begin(r) \/ ReserveStep(r)
      PROVE  StockTypeOK'
  <2>1. CASE Begin(r) \/ List(r) \/ RefuseShort(r)
    <3>1. CASE Begin(r)
      BY <3>1 DEF Begin
    <3>2. CASE List(r)
      BY <3>2 DEF List
    <3>3. CASE RefuseShort(r)
      BY <3>3 DEF RefuseShort
    <3> QED
      BY <2>1, <3>1, <3>2, <3>3
  <2>2. CASE Read(r)
    BY <2>2 DEF Read, ReadPosition
  <2>3. CASE Hold(r)
    BY <2>3 DEF Hold, SavePosition
  <2>4. CASE Conflict(r)
    <3>1. tries[r] + 1 \in 0 .. MaxAttempts
      BY <2>4 DEF Conflict, TriesInv
    <3>2. tries' = [tries EXCEPT ![r] = tries[r] + 1]
      BY <2>4 DEF Conflict
    <3>3. tries' \in [Requests -> 0 .. MaxAttempts]
      BY <3>1, <3>2
    <3> QED
      BY <2>4, <3>3 DEF Conflict
  <2>5. CASE RecordHold(r)
    BY <2>5 DEF RecordHold
  <2> QED
    BY <1>1, <2>1, <2>2, <2>3, <2>4, <2>5 DEF ReserveStep
<1>2. ASSUME NEW c \in Settlements, Get(c) \/ SettleStep(c)
      PROVE  StockTypeOK'
  <2>1. CASE Get(c) \/ SettleConflict(c)
    <3>1. CASE Get(c)
      BY <3>1 DEF Get
    <3>2. CASE SettleConflict(c)
      BY <3>2 DEF SettleConflict
    <3> QED
      BY <2>1, <3>1, <3>2
  <2>2. CASE ReadAgain(c)
    BY <2>2 DEF ReadAgain, ReadPosition
  <2>3. CASE Settle(c)
    <3>1. Freed(c) \in Int /\ Taken(c) \in Int
      BY DEF Freed, Taken
    <3> QED
      BY <2>3, <3>1 DEF Settle, SavePosition
  <2>4. CASE Mark(c)
    BY <2>4 DEF Mark
  <2> QED
    BY <1>2, <2>1, <2>2, <2>3, <2>4 DEF SettleStep
<1>3. ASSUME NEW p \in Processes, Perish(p)
      PROVE  StockTypeOK'
  BY <1>3 DEF Perish
<1>4. CASE UNCHANGED stockVars
  BY <1>4 DEF stockVars
<1> QED
  BY <1>1, <1>2, <1>3, <1>4 DEF StockNext

LEMMA SeenKept ==
  ASSUME StockInv, [StockNext]_stockVars
  PROVE  SeenInv'
<1> USE StockAssumption DEF StockInv, StockTypeOK, Position, MoveTo, Calls, SeenInv
<1>1. ASSUME UNCHANGED <<pos, basis>>
      PROVE  SeenInv'
  BY <1>1
<1>2. ASSUME NEW c \in Calls, basis' = [basis EXCEPT ![c] = pos], pos' = pos
      PROVE  SeenInv'
  BY <1>2
<1>3. ASSUME NEW onHand, NEW reserved, SavePosition(onHand, reserved), basis' = basis
      PROVE  SeenInv'
  BY <1>3 DEF SavePosition
<1>4. ASSUME NEW r \in Requests, Begin(r) \/ ReserveStep(r)
      PROVE  SeenInv'
  <2>1. CASE Hold(r)
    BY <1>3, <2>1 DEF Hold
  <2>2. CASE Read(r)
    BY <1>2, <2>2 DEF Read, ReadPosition
  <2>3. CASE Begin(r) \/ List(r) \/ RefuseShort(r) \/ Conflict(r) \/ RecordHold(r)
    BY <1>1, <2>3 DEF Begin, List, RefuseShort, Conflict, RecordHold
  <2> QED
    BY <1>4, <2>1, <2>2, <2>3 DEF ReserveStep
<1>5. ASSUME NEW c \in Settlements, Get(c) \/ SettleStep(c)
      PROVE  SeenInv'
  <2>1. CASE Settle(c)
    BY <1>3, <2>1 DEF Settle
  <2>2. CASE ReadAgain(c)
    BY <1>2, <2>2 DEF ReadAgain, ReadPosition
  <2>3. CASE Get(c) \/ SettleConflict(c) \/ Mark(c)
    BY <1>1, <2>3 DEF Get, SettleConflict, Mark
  <2> QED
    BY <1>5, <2>1, <2>2, <2>3 DEF SettleStep
<1>6. ASSUME (\E p \in Processes : Perish(p)) \/ UNCHANGED stockVars
      PROVE  SeenInv'
  BY <1>1, <1>6 DEF Perish, stockVars
<1> QED
  BY <1>4, <1>5, <1>6 DEF StockNext

LEMMA PlaceKept ==
  ASSUME StockInv, [StockNext]_stockVars
  PROVE  TriesInv' /\ PlaceInv'
<1> USE StockAssumption DEF StockInv, StockTypeOK, MoveTo, Calls, TriesInv, PlaceInv
<1>1. ASSUME NEW r \in Requests, Begin(r) \/ ReserveStep(r)
      PROVE  TriesInv' /\ PlaceInv'
  <2>1. CASE Conflict(r)
    <3>1. /\ \A s \in Requests : tries'[s] = IF s = r THEN tries[r] + 1 ELSE tries[s]
          /\ \A s \in Requests : at'[s] = IF s # r THEN at[s]
                                        ELSE IF LastTry(r) THEN "contended" ELSE "list"
          /\ \A c \in Settlements : at'[c] = at[c]
          /\ status' = status /\ at[r] = "save"
      BY <2>1 DEF Conflict
    <3>2. ~LastTry(r) => tries[r] + 1 < MaxAttempts
      BY DEF LastTry
    <3> QED
      BY <3>1, <3>2
  <2>2. CASE Begin(r) \/ List(r) \/ RefuseShort(r) \/ RecordHold(r)
    BY <2>2 DEF Begin, List, RefuseShort, RecordHold, Answers
  <2>3. CASE Read(r) \/ Hold(r)
    BY <2>3 DEF Read, ReadPosition, Hold
  <2> QED
    BY <1>1, <2>1, <2>2, <2>3 DEF ReserveStep
<1>2. ASSUME NEW c \in Settlements, Get(c) \/ SettleStep(c)
      PROVE  TriesInv' /\ PlaceInv'
  <2>1. tries' = tries /\ \A r \in Requests : at'[r] = at[r]
    BY <1>2 DEF Get, SettleStep, ReadAgain, ReadPosition, Settle, SettleConflict, Mark
  <2>2. \A r \in Requests : status'[r] # "none" <=> status[r] # "none"
    <3>1. CASE Mark(c)
      BY <3>1 DEF Mark, UnderWay
    <3> QED
      BY <1>2, <3>1 DEF Get, SettleStep, ReadAgain, ReadPosition, Settle, SettleConflict
  <2>3. \A d \in Settlements : at'[d] \in UnderWay => at[d] \in UnderWay \/ status[Target[d]] # "none"
    BY <1>2 DEF Get, SettleStep, ReadAgain, ReadPosition, Settle, SettleConflict, Mark, UnderWay
  <2> QED
    BY <2>1, <2>2, <2>3
<1>3. ASSUME NEW p \in Processes, Perish(p)
      PROVE  TriesInv' /\ PlaceInv'
  BY <1>3 DEF Perish, UnderWay
<1>4. CASE UNCHANGED stockVars
  BY <1>4 DEF stockVars
<1> QED
  BY <1>1, <1>2, <1>3, <1>4 DEF StockNext

LEMMA StockStep == StockInv /\ [StockNext]_stockVars => StockInv'
BY StockTypesKept, SeenKept, PlaceKept DEF StockInv

\* The position, the store, the calls and their attempts have their types, and a
\* reserve makes MAX_RESERVE_ATTEMPTS attempts at most.
THEOREM StockTypes == StockSpec => []StockTypeOK
<1>1. StockInv => StockTypeOK
  BY DEF StockInv
<1> QED
  BY <1>1, StockStarts, StockStep, PTL DEF StockSpec

-----------------------------------------------------------------------------
(* One hold of an operation                                                *)

LEMMA OperationStep ==
  ASSUME OneProcessEach, StockInv, OperationInv, [StockNext]_stockVars
  PROVE  OperationInv'
<1> USE StockAssumption DEF StockInv, StockTypeOK, MoveTo, Calls, OneProcessEach
<1>0. \A r, s \in Requests : SameOperation(r, s) => SameOperation(s, r)
  BY DEF SameOperation
<1>1. ASSUME NEW r \in Requests, Begin(r) \/ ReserveStep(r)
      PROVE  OperationInv'
  <2>0. /\ \A s \in Requests : s # r => at'[s] = at[s] /\ status'[s] = status[s]
        /\ RecordHold(r) \/ status' = status
    BY <1>1 DEF Begin, ReserveStep, List, Read, ReadPosition, RefuseShort, Hold, Conflict, RecordHold
  <2>1. CASE Begin(r)
    <3>1. \A s \in Requests : SameOperation(r, s) /\ at[s] \in UnderWay => at'[r] = "joined"
      BY <1>0, <2>1 DEF Begin, InFlight
    <3>2. at'[r] \in {"joined", "list"} /\ status' = status
      BY <2>1 DEF Begin
    <3> QED
      BY <1>0, <2>0, <3>1, <3>2 DEF OperationInv, UnderWay
  <2>2. CASE List(r)
    <3>1. \A s \in Requests : SameOperation(r, s) /\ status[s] = "held" => at'[r] = "duplicate"
      BY <2>2 DEF List, Repeats
    <3>2. at[r] = "list" /\ at'[r] \in {"duplicate", "read"} /\ status' = status
      BY <2>2 DEF List
    <3> QED
      BY <1>0, <2>0, <3>1, <3>2 DEF OperationInv, UnderWay
  <2>3. CASE RecordHold(r)
    <3>1. at[r] = "record" /\ at'[r] = "granted" /\ status'[r] = "held"
      BY <2>3 DEF RecordHold
    <3> QED
      BY <1>0, <2>0, <3>1 DEF OperationInv, UnderWay
  <2>4. CASE Read(r) \/ RefuseShort(r) \/ Hold(r) \/ Conflict(r)
    <3>1. /\ at[r] \in UnderWay \ {"list"} /\ status' = status
          /\ at'[r] \in UnderWay \cup {"short", "contended"}
      BY <2>4 DEF Read, ReadPosition, RefuseShort, Hold, Conflict, UnderWay
    <3> QED
      BY <1>0, <2>0, <3>1 DEF OperationInv, UnderWay
  <2> QED
    BY <1>1, <2>1, <2>2, <2>3, <2>4 DEF ReserveStep
<1>2. ASSUME \A r \in Requests : at'[r] = at[r] \/ at'[r] \notin UnderWay,
             \A r \in Requests : status'[r] = "held" => status[r] = "held"
      PROVE  OperationInv'
  BY <1>2 DEF OperationInv
<1>3. ASSUME NEW c \in Settlements, Get(c) \/ SettleStep(c)
      PROVE  OperationInv'
  <2>1. \A r \in Requests : at'[r] = at[r]
    BY <1>3 DEF Get, SettleStep, ReadAgain, ReadPosition, Settle, SettleConflict, Mark
  <2>2. \A r \in Requests : status'[r] = "held" => status[r] = "held"
    <3>1. CASE Mark(c)
      BY <3>1 DEF Mark
    <3> QED
      BY <1>3, <3>1 DEF Get, SettleStep, ReadAgain, ReadPosition, Settle, SettleConflict
  <2> QED
    BY <1>2, <2>1, <2>2
<1>4. ASSUME (\E p \in Processes : Perish(p)) \/ UNCHANGED stockVars
      PROVE  OperationInv'
  <2>1. /\ \A r \in Requests : at'[r] = at[r] \/ at'[r] \notin UnderWay
        /\ status' = status
    BY <1>4 DEF Perish, UnderWay, stockVars
  <2> QED
    BY <1>2, <2>1
<1> QED
  BY <1>1, <1>3, <1>4 DEF StockNext

\* A repeat of an operation holds the material once, whatever reserves join,
\* retry after conflicts, crash or are settled meanwhile, where one operation is
\* served by one process (execute's inFlight is a map of the process).
THEOREM OneHoldCorrect ==
  ASSUME OneProcessEach
  PROVE  StockSpec => []OneHoldPerOperation
<1>1. StockInv /\ OperationInv /\ [StockNext]_stockVars => StockInv' /\ OperationInv'
  BY StockStep, OperationStep
<1>2. StockInv /\ OperationInv => OneHoldPerOperation
  <2> SUFFICES ASSUME StockInv, OperationInv, NEW r \in Live, NEW s \in Live,
                      SameOperation(r, s), "lost" \notin {at[r], at[s]}, r # s
               PROVE  FALSE
    BY DEF OneHoldPerOperation
  <2>1. /\ r \in Requests /\ s \in Requests /\ SameOperation(s, r)
        /\ status[r] = "held" \/ at[r] = "record"
        /\ status[s] = "held" \/ at[s] = "record"
    BY DEF Live, SameOperation
  <2> QED
    BY <2>1 DEF OperationInv, UnderWay
<1> QED
  BY <1>1, <1>2, StockStarts, PTL DEF StockSpec

-----------------------------------------------------------------------------
(* The reserved figure                                                     *)

LEMMA SettlingStep ==
  ASSUME SettledInTurn, StockInv, SettlingInv, [StockNext]_stockVars
  PROVE  SettlingInv'
<1> USE StockAssumption DEF StockInv, StockTypeOK, MoveTo, Calls, SettledInTurn
<1>1. ASSUME NEW r \in Requests, Begin(r) \/ ReserveStep(r)
      PROVE  SettlingInv'
  <2>1. /\ \A c \in Settlements : at'[c] = at[c]
        /\ \A s \in Requests : status[s] = "held" => status'[s] = "held"
    BY <1>1 DEF Begin, ReserveStep, List, Read, ReadPosition, RefuseShort, Hold, Conflict, RecordHold
  <2> QED
    BY <2>1 DEF SettlingInv, Settling
<1>2. ASSUME NEW c \in Settlements, Get(c) \/ SettleStep(c)
      PROVE  SettlingInv'
  <2>0. /\ \A d \in Settlements : d # c => at'[d] = at[d]
        /\ Mark(c) \/ status' = status
    BY <1>2 DEF Get, SettleStep, ReadAgain, ReadPosition, Settle, SettleConflict, Mark
  <2>1. CASE Get(c)
    <3>1. /\ at'[c] \in {"read", "refused"} /\ status' = status
          /\ \A d \in Settlements : Target[d] = Target[c] => at[d] \notin UnderWay
          /\ at'[c] = "read" => status[Target[c]] = "held"
      BY <2>1 DEF Get, Settling, Settleable
    <3> QED
      BY <2>0, <3>1 DEF SettlingInv, Settling, UnderWay
  <2>2. CASE ReadAgain(c) \/ Settle(c) \/ SettleConflict(c)
    <3>1. /\ at[c] \in UnderWay /\ at'[c] \in {"save", "mark", "idle"}
          /\ status' = status
      BY <2>2 DEF ReadAgain, ReadPosition, Settle, SettleConflict, UnderWay
    <3> QED
      BY <2>0, <3>1 DEF SettlingInv, Settling, UnderWay
  <2>3. CASE Mark(c)
    <3>1. /\ at[c] = "mark" /\ at'[c] = "settled"
          /\ \A r \in Requests : r # Target[c] => status'[r] = status[r]
      BY <2>3 DEF Mark
    <3>2. \A d \in Settlements : d # c /\ at[d] \in UnderWay => Target[d] # Target[c]
      BY <3>1 DEF SettlingInv, Settling, UnderWay
    <3> QED
      BY <2>0, <3>1, <3>2 DEF SettlingInv, Settling, UnderWay
  <2> QED
    BY <1>2, <2>1, <2>2, <2>3 DEF SettleStep
<1>3. ASSUME (\E p \in Processes : Perish(p)) \/ UNCHANGED stockVars
      PROVE  SettlingInv'
  <2>1. /\ \A c \in Settlements : at'[c] = at[c]
        /\ status' = status
    BY <1>3 DEF Perish, stockVars
  <2> QED
    BY <2>1 DEF SettlingInv, Settling
<1> QED
  BY <1>1, <1>2, <1>3 DEF StockNext

\* What a step is of the ledger: a hold that is granted, a hold that is settled,
\* or nothing.
Granting(r) ==
  /\ r \notin Live \cup Spent
  /\ Oversell[r] \/ pos.reserved + Qty[r] <= pos.onHand
  /\ Live' = Live \cup {r} /\ Spent' = Spent
  /\ pos'.onHand = pos.onHand /\ pos'.reserved = pos.reserved + Qty[r]

Ending(r) ==
  /\ r \in Live
  /\ Live' = Live \ {r} /\ Spent' = Spent \cup {r}
  /\ pos'.onHand <= pos.onHand /\ pos'.reserved = pos.reserved - Qty[r]

Standing == Live' = Live /\ Spent' = Spent /\ pos'.onHand = pos.onHand
            /\ pos'.reserved = pos.reserved

\* Whose hold is live and whose is settled, by request.
OverOf(r) == \/ status[r] \in {"released", "consumed"}
             \/ \E c \in Settlements : Target[c] = r /\ at[c] \in {"mark", "lost"}
HeldBy(r) == status[r] = "held" \/ at[r] \in {"record", "lost"}

LEMMA HoldEffect ==
  ASSUME SettledInTurn, StockInv, SettlingInv, NEW r \in Requests, Hold(r)
  PROVE  Granting(r)
<1> USE StockAssumption DEF StockInv, StockTypeOK, MoveTo, Calls
<1>1. /\ at[r] = "save" /\ at'[r] = "record" /\ status' = status
      /\ \A c \in Calls : c # r => at'[c] = at[c]
  BY DEF Hold
<1>2. basis[r] = pos
  BY DEF Hold, Unchanged, SeenInv
<1>3. status[r] = "none"
  BY <1>1 DEF PlaceInv
<1>4. \A c \in Settlements : Target[c] = r => at[c] \notin {"mark", "lost"}
  BY <1>3 DEF SettlingInv, UnderWay
<1>5. r \notin Live \cup Spent
  BY <1>1, <1>3, <1>4 DEF Live, Spent
<1>6. \A c \in Settlements : at'[c] = at[c]
  BY <1>1
<1>7. Spent' = Spent
  BY <1>1, <1>6 DEF Spent
<1>8. Live' = Live \cup {r}
  BY <1>1, <1>5, <1>7 DEF Live
<1>9. /\ pos'.onHand = pos.onHand /\ pos'.reserved = pos.reserved + Qty[r]
      /\ Oversell[r] \/ pos.reserved + Qty[r] <= pos.onHand
  BY <1>2 DEF Hold, SavePosition, Refused, Short, Position
<1> QED
  BY <1>5, <1>7, <1>8, <1>9 DEF Granting

LEMMA SettleEffect ==
  ASSUME SettledInTurn, StockInv, SettlingInv, NEW c \in Settlements, Settle(c)
  PROVE  Ending(Target[c])
<1> USE StockAssumption DEF StockInv, StockTypeOK, MoveTo, Calls
<1> DEFINE r == Target[c]
<1>1. /\ at[c] = "save" /\ at'[c] = "mark" /\ status' = status
      /\ \A d \in Calls : d # c => at'[d] = at[d]
  BY DEF Settle
<1>2. basis[c] = pos
  BY DEF Settle, Unchanged, SeenInv
<1>3. /\ r \in Requests /\ status[r] = "held"
      /\ \A d \in Settlements : Target[d] = r => at[d] \notin {"mark", "lost"}
  BY <1>1 DEF SettlingInv, Settling, UnderWay
<1>4. r \in Live /\ r \notin Spent
  BY <1>3 DEF Live, Spent
<1>5. \A s \in Requests : at'[s] = at[s]
  BY <1>1
<1>6. Spent' = Spent \cup {r}
  BY <1>1, <1>3 DEF Spent
<1>7. Live' = Live \ {r}
  BY <1>1, <1>5, <1>6 DEF Live
<1>8. pos'.onHand <= pos.onHand /\ pos'.reserved = pos.reserved - Qty[r]
  <2>1. Taken(c) \in Nat /\ Freed(c) = Qty[r]
    BY DEF Taken, Freed
  <2> QED
    BY <1>2, <2>1 DEF Settle, SavePosition, Position
<1> QED
  BY <1>4, <1>6, <1>7, <1>8 DEF Ending

LEMMA OtherEffect ==
  ASSUME SettledInTurn, StockInv, SettlingInv, [StockNext]_stockVars,
         \A r \in Requests : ~Hold(r), \A c \in Settlements : ~Settle(c)
  PROVE  Standing
<1> USE StockAssumption DEF StockInv, StockTypeOK, MoveTo, Calls, SettledInTurn
<1>1. ASSUME pos' = pos, \A r \in Requests : (OverOf(r) <=> OverOf(r)') /\ (HeldBy(r) <=> HeldBy(r)')
      PROVE  Standing
  <2>1. Spent' = Spent
    BY <1>1 DEF Spent, OverOf
  <2>2. Live' = Live
    BY <1>1, <2>1 DEF Live, HeldBy
  <2> QED
    BY <1>1, <2>1, <2>2 DEF Standing
<1>2. ASSUME pos' = pos, status' = status,
             \A r \in Requests : at'[r] \in {"record", "lost"} <=> at[r] \in {"record", "lost"},
             \A c \in Settlements : at'[c] \in {"mark", "lost"} <=> at[c] \in {"mark", "lost"}
      PROVE  Standing
  BY <1>1, <1>2 DEF OverOf, HeldBy
<1>3. ASSUME NEW r \in Requests, Begin(r) \/ ReserveStep(r)
      PROVE  Standing
  <2>1. CASE RecordHold(r)
    <3>1. /\ at[r] = "record" /\ at'[r] = "granted" /\ status'[r] = "held" /\ pos' = pos
          /\ \A s \in Requests : s # r => at'[s] = at[s] /\ status'[s] = status[s]
          /\ \A c \in Settlements : at'[c] = at[c]
      BY <2>1 DEF RecordHold
    <3>2. status[r] = "none"
      BY <3>1 DEF PlaceInv
    <3> QED
      BY <1>1, <3>1, <3>2 DEF OverOf, HeldBy
  <2>2. CASE Begin(r) \/ List(r) \/ RefuseShort(r) \/ Conflict(r) \/ Read(r)
    <3>1. /\ pos' = pos /\ status' = status
          /\ {at[r], at'[r]} \cap {"record", "lost"} = {}
          /\ \A c \in Calls : c # r => at'[c] = at[c]
      BY <2>2 DEF Begin, List, RefuseShort, Conflict, Read, ReadPosition
    <3>2. r \notin Settlements
      OBVIOUS
    <3> QED
      BY <1>2, <3>1, <3>2
  <2> QED
    BY <1>3, <2>1, <2>2 DEF ReserveStep
<1>4. ASSUME NEW c \in Settlements, Get(c) \/ SettleStep(c)
      PROVE  Standing
  <2>1. CASE Mark(c)
    <3>1. /\ at[c] = "mark" /\ at'[c] = "settled" /\ pos' = pos
          /\ \A d \in Calls : d # c => at'[d] = at[d]
          /\ status' = [status EXCEPT ![Target[c]] = Kind[c]]
      BY <2>1 DEF Mark
    <3>2. /\ status[Target[c]] = "held" /\ status'[Target[c]] \in {"released", "consumed"}
          /\ \A r \in Requests : r # Target[c] => status'[r] = status[r]
      BY <3>1 DEF SettlingInv, UnderWay
    <3>3. at[Target[c]] = "granted" /\ \A r \in Requests : at'[r] = at[r]
      BY <3>1, <3>2 DEF PlaceInv
    <3>4. \A r \in Requests : OverOf(r) <=> OverOf(r)'
      BY <3>1, <3>2 DEF OverOf
    <3>5. Spent' = Spent /\ Target[c] \in Spent
      BY <3>1, <3>4 DEF Spent, OverOf
    <3>6. Live' = Live
      BY <3>2, <3>3, <3>5 DEF Live
    <3> QED
      BY <3>1, <3>5, <3>6 DEF Standing
  <2>2. CASE Get(c) \/ ReadAgain(c) \/ SettleConflict(c)
    <3>1. /\ pos' = pos /\ status' = status
          /\ {at[c], at'[c]} \cap {"mark", "lost"} = {}
          /\ \A d \in Calls : d # c => at'[d] = at[d]
      BY <2>2 DEF Get, ReadAgain, ReadPosition, SettleConflict
    <3>2. c \notin Requests
      OBVIOUS
    <3> QED
      BY <1>2, <3>1, <3>2
  <2> QED
    BY <1>4, <2>1, <2>2 DEF SettleStep
<1>5. ASSUME NEW p \in Processes, Perish(p)
      PROVE  Standing
  <2>1. /\ pos' = pos /\ status' = status
        /\ \A c \in Settlements : at'[c] = at[c]
        /\ \A r \in Requests : at'[r] = at[r] \/ at'[r] = IF at[r] \in HalfDone THEN "lost" ELSE "dead"
        /\ \A r \in Requests : at'[r] # at[r] => at[r] \in UnderWay
    BY <1>5 DEF Perish
  <2>2. \A r \in Requests : at[r] # "mark"
    BY DEF PlaceInv
  <2> QED
    BY <1>2, <2>1, <2>2 DEF HalfDone, UnderWay
<1>6. CASE UNCHANGED stockVars
  BY <1>2, <1>6 DEF stockVars
<1> QED
  BY <1>3, <1>4, <1>5, <1>6 DEF StockNext

LEMMA StockEffect ==
  ASSUME SettledInTurn, StockInv, SettlingInv, [StockNext]_stockVars
  PROVE  \/ \E r \in Requests : Granting(r) \/ Ending(r)
         \/ Standing
<1>1. \A c \in Settlements : Target[c] \in Requests
  BY StockAssumption
<1> QED
  BY <1>1, HoldEffect, SettleEffect, OtherEffect

LEMMA LiveIsFinite ==
  /\ IsFiniteSet(Live) /\ \A r \in Requests : Qty[r] \in Int
  /\ \A r \in Requests : r \notin Live => TotalOf(Qty, Live \cup {r}) = TotalOf(Qty, Live) + Qty[r]
  /\ \A r \in Live : TotalOf(Qty, Live \ {r}) = TotalOf(Qty, Live) - Qty[r]
  /\ TotalOf(Qty, Live) \in Int
<1>1. Live \subseteq Requests /\ IsFiniteSet(Requests)
  BY StockAssumption DEF Live
<1>2. IsFiniteSet(Live)
  BY <1>1, FS_Subset
<1>3. \A r \in Requests : Qty[r] \in Int
  BY StockAssumption
<1>4. TotalOf(Qty, Live) \in Int
      /\ \A r \in Live : TotalOf(Qty, Live) = Qty[r] + TotalOf(Qty, Live \ {r})
  <2>1. \A r \in Live : Qty[r] \in Int
    BY <1>1, <1>3
  <2> QED
    BY <1>2, <2>1, TotalTaken
<1>5. \A r \in Live : TotalOf(Qty, Live \ {r}) \in Int
  <2> TAKE r \in Live
  <2>1. IsFiniteSet(Live \ {r}) /\ \A s \in Live \ {r} : Qty[s] \in Int
    BY <1>1, <1>2, <1>3, FS_Subset
  <2> QED
    BY <2>1, TotalTaken
<1>6. \A r \in Requests : r \notin Live => TotalOf(Qty, Live \cup {r}) = Qty[r] + TotalOf(Qty, Live)
  <2> SUFFICES ASSUME NEW r \in Requests, r \notin Live
               PROVE  TotalOf(Qty, Live \cup {r}) = Qty[r] + TotalOf(Qty, Live)
    OBVIOUS
  <2>1. \A s \in Live \cup {r} : Qty[s] \in Int
    BY <1>1, <1>3
  <2> QED
    BY <1>2, <2>1, TotalAdd
<1>7. \A a, b, c \in Int : (a = b + c => c = a - b) /\ b + c = c + b
  OBVIOUS
<1>8. \A r \in Requests : r \notin Live => TotalOf(Qty, Live \cup {r}) = TotalOf(Qty, Live) + Qty[r]
  BY ONLY <1>3, <1>4, <1>6, <1>7
<1>9. \A r \in Live : TotalOf(Qty, Live \ {r}) = TotalOf(Qty, Live) - Qty[r]
  <2> SUFFICES ASSUME NEW r \in Live
               PROVE  TotalOf(Qty, Live \ {r}) = TotalOf(Qty, Live) - Qty[r]
    OBVIOUS
  <2>1. /\ TotalOf(Qty, Live) \in Int /\ Qty[r] \in Int /\ TotalOf(Qty, Live \ {r}) \in Int
        /\ TotalOf(Qty, Live) = Qty[r] + TotalOf(Qty, Live \ {r})
    BY <1>1, <1>3, <1>4, <1>5
  <2> QED
    BY ONLY <2>1, <1>7
<1> QED
  BY <1>2, <1>3, <1>4, <1>8, <1>9

LEMMA LedgerStep ==
  ASSUME SettledInTurn, StockInv, SettlingInv, LedgerExact, [StockNext]_stockVars
  PROVE  LedgerExact'
<1>1. CASE \E r \in Requests : Granting(r)
  BY <1>1, LiveIsFinite DEF Granting, LedgerExact
<1>2. CASE \E r \in Requests : Ending(r)
  BY <1>2, LiveIsFinite DEF Ending, LedgerExact
<1>3. CASE Standing
  BY <1>3 DEF Standing, LedgerExact
<1> QED
  BY <1>1, <1>2, <1>3, StockEffect

LEMMA LedgerStarts ==
  ASSUME StockInit
  PROVE  LedgerExact /\ Live = {} /\ Spent = {} /\ pos.onHand = OnHand
<1>1. Live = {} /\ Spent = {}
  BY StockAssumption DEF StockInit, Live, Spent, Calls
<1> QED
  BY <1>1, TotalEmpty DEF StockInit, LedgerExact

\* The reserved figure of the ledger is the sum of the live holds, to the
\* thousandth, whatever calls interleave at each of their awaits and whatever
\* reserves crash in between, where settlements of one reservation come one
\* after the other and are not cut off.
THEOREM LedgerCorrect ==
  ASSUME SettledInTurn
  PROVE  StockSpec => []LedgerExact
<1>1. /\ StockInit => StockInv /\ SettlingInv /\ LedgerExact
      /\ StockInv /\ SettlingInv /\ LedgerExact /\ [StockNext]_stockVars
           => StockInv' /\ SettlingInv' /\ LedgerExact'
  BY StockStarts, LedgerStarts, StockStep, SettlingStep, LedgerStep
<1> QED
  BY <1>1, PTL DEF StockSpec

\* Each call that is answered happened as if in one step: a hold is granted only
\* out of what is on hand and not held, unless overselling was asked for, and
\* is settled once.
THEOREM StockImplementsAtomic ==
  ASSUME SettledInTurn
  PROVE  StockSpec => ImplementsAtomicStock
<1>1. /\ StockInit => StockInv /\ SettlingInv /\ LedgerExact
      /\ StockInv /\ SettlingInv /\ LedgerExact /\ [StockNext]_stockVars
           => StockInv' /\ SettlingInv' /\ LedgerExact'
  BY StockStarts, LedgerStarts, StockStep, SettlingStep, LedgerStep
<1>2. StockInit => Atomic!Init
  BY LedgerStarts, StockAssumption DEF Atomic!Init
<1>3. StockInv /\ SettlingInv /\ LedgerExact /\ [StockNext]_stockVars
        => [Atomic!Next]_<<pos.onHand, Live, Spent>>
  <2> SUFFICES ASSUME StockInv, SettlingInv, LedgerExact, [StockNext]_stockVars
               PROVE  [Atomic!Next]_<<pos.onHand, Live, Spent>>
    OBVIOUS
  <2>1. ASSUME NEW r \in Requests, Granting(r)
        PROVE  Atomic!Reserve(r)
    <3>1. Atomic!TotalOf(Qty, Live) = TotalOf(Qty, Live)
      BY DEF Atomic!TotalOf, TotalOf, Atomic!MapThenSumSet, MapThenSumSet,
         Atomic!MapThenFoldSet, MapThenFoldSet
    <3> QED
      BY <2>1, <3>1 DEF Granting, LedgerExact, Atomic!Reserve
  <2>2. ASSUME NEW r \in Requests, Ending(r)
        PROVE  Atomic!Settle(r)
    BY <2>2 DEF Ending, Atomic!Settle
  <2>3. CASE Standing
    BY <2>3 DEF Standing
  <2> QED
    BY <2>1, <2>2, <2>3, StockEffect DEF Atomic!Next
<1> QED
  BY <1>1, <1>2, <1>3, PTL DEF StockSpec, ImplementsAtomicStock, Atomic!Spec

=============================================================================
