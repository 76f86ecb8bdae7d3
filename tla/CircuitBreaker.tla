--------------------------- MODULE CircuitBreaker ---------------------------
(***************************************************************************)
(* One circuit of the in-memory breaker and the calls made through it.     *)
(*   packages/platform-runtime/src/resilienceRuntime.ts, run and reset     *)
(*                                                                         *)
(* `run' awaits the work between its two halves, so that a call may end in *)
(* another state of the circuit than it began in.  The clock is kept as    *)
(* what remains of the open period.                                        *)
(***************************************************************************)
EXTENDS Integers, FiniteSets

CONSTANTS
  Calls,             \* the calls that may be under way at one time
  FailureThreshold,  \* consecutive failures that open the circuit
  SuccessThreshold,  \* successes that close it
  OpenFor            \* openDurationMs

ASSUME BreakerAssumption ==
  /\ IsFiniteSet(Calls)
  /\ FailureThreshold \in Nat \ {0}
  /\ SuccessThreshold \in Nat \ {0}
  /\ OpenFor \in Nat \ {0}

VARIABLES
  circuit,  \* the CircuitRecord, with openedAt as `wait', the time still to go
  calls,    \* calls[c]: "idle", or the state of the circuit when c was let through
  healthy   \* whether the dependency works; the environment's

breakerVars == <<circuit, calls, healthy>>

States == {"closed", "open", "half-open"}

BreakerInit ==
  /\ circuit = [state |-> "closed", failures |-> 0, successes |-> 0, wait |-> 0]
  /\ calls = [c \in Calls |-> "idle"]
  /\ healthy = TRUE

\* `transition'; to the same state it does nothing.
Moved(record, to) ==
  IF record.state = to THEN record
  ELSE [state |-> to, failures |-> 0, successes |-> 0,
        wait |-> IF to = "open" THEN OpenFor ELSE record.wait]

-----------------------------------------------------------------------------

\* A call that finds the circuit closed, or half open, goes through.
LetThrough == circuit.state # "open"

Begin(c) ==
  /\ calls[c] = "idle"
  /\ LetThrough
  /\ calls' = [calls EXCEPT ![c] = circuit.state]
  /\ UNCHANGED <<circuit, healthy>>

\* The first call after the open period moves the circuit and goes through.
\* One before the end of it is refused with a CircuitOpenError: no change.
Probe(c) ==
  /\ calls[c] = "idle"
  /\ circuit.state = "open" /\ circuit.wait = 0
  /\ circuit' = Moved(circuit, "half-open")
  /\ calls' = [calls EXCEPT ![c] = "half-open"]
  /\ UNCHANGED healthy

\* Mutant: the successes of a half-open circuit are not counted.
OnSuccessUncounted(record) == [record EXCEPT !.failures = 0]

OnSuccess(record) ==
  IF record.state # "half-open" THEN [record EXCEPT !.failures = 0]
  ELSE IF record.successes + 1 >= SuccessThreshold THEN Moved(record, "closed")
  ELSE [record EXCEPT !.successes = @ + 1]

Succeed(c) ==
  /\ calls[c] # "idle"
  /\ healthy
  /\ circuit' = OnSuccess(circuit)
  /\ calls' = [calls EXCEPT ![c] = "idle"]
  /\ UNCHANGED healthy

OnFailure(record) ==
  IF record.state = "half-open" THEN Moved(record, "open")
  ELSE LET counted == [record EXCEPT !.failures = @ + 1] IN
       IF counted.failures >= FailureThreshold THEN Moved(counted, "open") ELSE counted

FailTransiently(c) ==
  /\ calls[c] # "idle"
  /\ ~healthy
  /\ circuit' = OnFailure(circuit)
  /\ calls' = [calls EXCEPT ![c] = "idle"]
  /\ UNCHANGED healthy

\* The request was wrong, not the dependency: nothing is counted.
FailForGoodReason(c) ==
  /\ calls[c] # "idle"
  /\ calls' = [calls EXCEPT ![c] = "idle"]
  /\ UNCHANGED <<circuit, healthy>>

ResetCircuit ==
  /\ circuit' = Moved(circuit, "closed")
  /\ UNCHANGED <<calls, healthy>>

\* Time passes, which matters while the circuit is open.
OpenTick ==
  /\ circuit.wait > 0
  /\ circuit' = [circuit EXCEPT !.wait = @ - 1]
  /\ UNCHANGED <<calls, healthy>>

Change ==
  /\ healthy' = ~healthy
  /\ UNCHANGED <<circuit, calls>>

BreakerNext ==
  \/ \E c \in Calls : \/ Begin(c) \/ Probe(c)
                      \/ Succeed(c) \/ FailTransiently(c) \/ FailForGoodReason(c)
  \/ ResetCircuit \/ OpenTick \/ Change

BreakerSpec == BreakerInit /\ [][BreakerNext]_breakerVars

-----------------------------------------------------------------------------
(* Properties                                                              *)

\* The type; an open circuit may go on counting the failures of calls that
\* began before it opened, one for each of them at most.
BreakerTypeOK ==
  /\ circuit \in [state : States, failures : Nat, successes : 0 .. SuccessThreshold - 1,
                  wait : 0 .. OpenFor]
  /\ calls \in [Calls -> {"idle", "closed", "half-open"}]
  /\ healthy \in BOOLEAN

\* A dependency that is back for good has a closed circuit for good, whatever
\* calls from before the outage end late and whatever state the outage left,
\* if callers go on calling and not every request of theirs is a wrong one.
Recovers == <>[]healthy => <>[](circuit.state = "closed")
=============================================================================
