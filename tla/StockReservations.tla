------------------------- MODULE StockReservations -------------------------
(***************************************************************************)
(* InventoryIQ's promises of one material at one location: reserve,        *)
(* release and consume, over a ledger with compare-and-set positions and a *)
(* separate store of reservations.                                         *)
(*   packages/inventoryiq/src/reservations.ts, inMemory.ts                 *)
(*                                                                         *)
(* Each use case awaits between its reads and its two writes, so a call is *)
(* several actions: what it does between two awaits, in one.  Quantities   *)
(* are the thousandths the code adds in.  A reservation's id is that of    *)
(* the request that created it: a request creates one at most.             *)
(***************************************************************************)
EXTENDS Integers, FiniteSets, Totals

CONSTANTS
  Requests,      \* calls of reserve
  Settlements,   \* calls of release and consume
  Processes,     \* the processes of the host
  Mortal,        \* those of them that may crash
  Process,       \* Process[c]: the process that serves call c
  Order,         \* Order[r]: workOrderId
  Qty,           \* Qty[r]: quantity
  Oversell,      \* Oversell[r]: allowOversell
  Target,        \* Target[c]: the reservation that c settles
  Kind,          \* Kind[c]: "released" or "consumed"
  Used,          \* Used[c]: what a consume reports as actual
  OnHand,        \* what is on hand to begin with
  MaxAttempts,   \* MAX_RESERVE_ATTEMPTS
  Overlapping    \* may two settlements of one reservation be under way at once?

Calls == Requests \cup Settlements

ASSUME StockAssumption ==
  /\ IsFiniteSet(Requests) /\ Requests \cap Settlements = {}
  /\ Mortal \subseteq Processes
  /\ Process \in [Calls -> Processes]
  /\ Qty \in [Requests -> Nat]
  /\ Oversell \in [Requests -> BOOLEAN]
  /\ Target \in [Settlements -> Requests]
  /\ Kind \in [Settlements -> {"released", "consumed"}]
  /\ Used \in [Settlements -> Nat]
  /\ OnHand \in Nat /\ MaxAttempts \in Nat \ {0}
  /\ Overlapping \in BOOLEAN

VARIABLES
  pos,       \* the stock position of the ledger
  status,    \* the reservation store; "none" is "not in it"
  at,        \* where each call is, or how it ended
  basis,     \* the position as each call read it
  tries      \* `attempt' of each reserve

stockVars == <<pos, status, at, basis, tries>>

Position == [onHand : Int, reserved : Int, version : Nat]
Answers == {"granted", "duplicate", "joined", "short", "contended"}
UnderWay == {"list", "read", "save", "record", "mark"}

StockInit ==
  /\ pos = [onHand |-> OnHand, reserved |-> 0, version |-> 0]
  /\ status = [r \in Requests |-> "none"]
  /\ at = [c \in Calls |-> "idle"]
  /\ basis = [c \in Calls |-> pos]
  /\ tries = [r \in Requests |-> 0]

MoveTo(c, place) == at' = [at EXCEPT ![c] = place]

-----------------------------------------------------------------------------
(* The ledger                                                              *)

\* The version a call read is still the ledger's.
Unchanged(c) == pos.version = basis[c].version

\* savePosition, when it does not conflict; the ledger counts the version.
SavePosition(onHand, reserved) ==
  pos' = [onHand |-> onHand, reserved |-> reserved, version |-> pos.version + 1]

ReadPosition(c, place) ==
  /\ basis' = [basis EXCEPT ![c] = pos]
  /\ MoveTo(c, place)
  /\ UNCHANGED <<pos, status, tries>>

-----------------------------------------------------------------------------
(* reserve                                                                 *)

SameOperation(r, s) == Order[r] = Order[s] /\ Qty[r] = Qty[s]

\* Mutant: nobody joins a call that is already being served.
InFlightNever(r) == {}

InFlight(r) == {s \in Requests : /\ SameOperation(r, s)
                                 /\ Process[r] = Process[s]
                                 /\ at[s] \in UnderWay}

\* execute: join the same operation in flight in this process, or start one.
Begin(r) ==
  /\ at[r] = "idle"
  /\ MoveTo(r, IF InFlight(r) # {} THEN "joined" ELSE "list")
  /\ UNCHANGED <<pos, status, basis, tries>>

Repeats(r) == \E s \in Requests : SameOperation(r, s) /\ status[s] = "held"

\* A repeat of an operation whose hold is live returns that hold.
List(r) ==
  /\ at[r] = "list"
  /\ MoveTo(r, IF Repeats(r) THEN "duplicate" ELSE "read")
  /\ UNCHANGED <<pos, status, basis, tries>>

Read(r) == at[r] = "read" /\ ReadPosition(r, "save")

\* Mutant: what is already promised is not subtracted.
ShortOnHand(r) == Qty[r] > basis[r].onHand

Short(r) == Qty[r] > basis[r].onHand - basis[r].reserved

Refused(r) == Short(r) /\ ~Oversell[r]

\* insufficient_stock, judged on the position that was read.
RefuseShort(r) ==
  /\ at[r] = "save"
  /\ Refused(r)
  /\ MoveTo(r, "short")
  /\ UNCHANGED <<pos, status, basis, tries>>

\* The position first, conditionally; the reservation only after it.
Hold(r) ==
  /\ at[r] = "save"
  /\ ~Refused(r)
  /\ Unchanged(r)
  /\ SavePosition(basis[r].onHand, basis[r].reserved + Qty[r])
  /\ MoveTo(r, "record")
  /\ UNCHANGED <<status, basis, tries>>

\* Mutant: one attempt too many.
LastTryOneMore(r) == tries[r] + 1 > MaxAttempts

LastTry(r) == tries[r] + 1 >= MaxAttempts

\* StockConflictError: from the top again, or concurrent_modification.
Conflict(r) ==
  /\ at[r] = "save"
  /\ ~Refused(r)
  /\ ~Unchanged(r)
  /\ tries' = [tries EXCEPT ![r] = @ + 1]
  /\ MoveTo(r, IF LastTry(r) THEN "contended" ELSE "list")
  /\ UNCHANGED <<pos, status, basis>>

RecordHold(r) ==
  /\ at[r] = "record"
  /\ status' = [status EXCEPT ![r] = "held"]
  /\ MoveTo(r, "granted")
  /\ UNCHANGED <<pos, basis, tries>>

-----------------------------------------------------------------------------
(* release and consume                                                     *)

Settling(r) == {c \in Settlements : Target[c] = r /\ at[c] \in UnderWay}

\* Mutant: a settlement does not ask whether the hold is still live.
SettleableAny(r) == status[r] # "none"

Settleable(r) == status[r] = "held"

\* The reservation is read first: unknown and already_settled end the call.
Get(c) ==
  /\ at[c] = "idle"
  /\ Overlapping \/ Settling(Target[c]) = {}
  /\ status[Target[c]] # "none"
  /\ MoveTo(c, IF Settleable(Target[c]) THEN "read" ELSE "refused")
  /\ UNCHANGED <<pos, status, basis, tries>>

ReadAgain(c) == at[c] = "read" /\ ReadPosition(c, "save")

\* Reserved drops by what was reserved, on hand by what was used.
Freed(c) == Qty[Target[c]]
Taken(c) == IF Kind[c] = "consumed" THEN Used[c] ELSE 0

Settle(c) ==
  /\ at[c] = "save"
  /\ Unchanged(c)
  /\ SavePosition(basis[c].onHand - Taken(c), basis[c].reserved - Freed(c))
  /\ MoveTo(c, "mark")
  /\ UNCHANGED <<status, basis, tries>>

\* StockConflictError goes to the caller, who may call again.
SettleConflict(c) ==
  /\ at[c] = "save"
  /\ ~Unchanged(c)
  /\ MoveTo(c, "idle")
  /\ UNCHANGED <<pos, status, basis, tries>>

\* The whole record that was read is written back, with its new status.
Mark(c) ==
  /\ at[c] = "mark"
  /\ status' = [status EXCEPT ![Target[c]] = Kind[c]]
  /\ MoveTo(c, "settled")
  /\ UNCHANGED <<pos, basis, tries>>

\* Where a call has written the position and not yet the reservation.
HalfDone == {"record", "mark"}

\* A process dies, and its calls and its inFlight map with it.  What a call was
\* still going to record is lost.
Perish(p) ==
  /\ p \in Mortal
  /\ \E c \in Calls : Process[c] = p /\ at[c] \in UnderWay
  /\ at' = [c \in Calls |-> IF Process[c] # p \/ at[c] \notin UnderWay THEN at[c]
                           ELSE IF at[c] \in HalfDone THEN "lost" ELSE "dead"]
  /\ UNCHANGED <<pos, status, basis, tries>>

ReserveStep(r) == List(r) \/ Read(r) \/ RefuseShort(r) \/ Hold(r) \/ Conflict(r) \/ RecordHold(r)
SettleStep(c) == ReadAgain(c) \/ Settle(c) \/ SettleConflict(c) \/ Mark(c)

StockNext ==
  \/ \E r \in Requests : Begin(r) \/ ReserveStep(r)
  \/ \E c \in Settlements : Get(c) \/ SettleStep(c)
  \/ \E p \in Processes : Perish(p)

StockSpec == StockInit /\ [][StockNext]_stockVars

-----------------------------------------------------------------------------
(* Properties                                                              *)

StockTypeOK ==
  /\ pos \in Position
  /\ status \in [Requests -> {"none", "held", "released", "consumed"}]
  /\ at \in [Calls -> {"idle", "dead", "lost", "refused", "settled"} \cup Answers \cup UnderWay]
  /\ basis \in [Calls -> Position]
  /\ tries \in [Requests -> 0 .. MaxAttempts]

\* A hold is live from the write of the position to the write that settles it.
Spent == {r \in Requests : \/ status[r] \in {"released", "consumed"}
                             \/ \E c \in Settlements : Target[c] = r /\ at[c] \in {"mark", "lost"}}
Live == {r \in Requests : status[r] = "held" \/ at[r] \in {"record", "lost"}} \ Spent

\* The reserved figure of the ledger is the sum of the live holds, to the
\* thousandth, whatever reserves, releases and consumes interleave.  A crash
\* leaves what its hold was going to record reserved, and nothing else.
LedgerExact == pos.reserved = TotalOf(Qty, Live)

\* Never short: the holds that are recorded are all in the reserved figure.
LedgerCoversHolds == TotalOf(Qty, {r \in Requests : status[r] = "held"} \ Spent) <= pos.reserved

\* Repeats of one operation hold the material once, but for what was lost in a
\* crash, which a repeat cannot find.
OneHoldPerOperation ==
  \A r, s \in Live : SameOperation(r, s) /\ "lost" \notin {at[r], at[s]} => r = s

\* The ledger as if each call were one step.
Atomic == INSTANCE AtomicStock
  WITH onHand <- pos.onHand, holds <- Live, spent <- Spent
ImplementsAtomicStock == Atomic!Spec
=============================================================================
