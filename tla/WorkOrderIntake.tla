-------------------------- MODULE WorkOrderIntake --------------------------
(***************************************************************************)
(* Idempotent creation of work orders in WorkOrderIQ.                      *)
(*   packages/workorderiq/src/core/intake/createWorkOrderUseCase.ts        *)
(*   packages/workorderiq/src/core/intake/idempotency.ts                   *)
(*                                                                         *)
(* Hosts share a durable store of claims and an event log.  A call claims  *)
(* its key and then appends to the log, and both may fail, before or after *)
(* they took effect.  Only calls with a key and with valid input are       *)
(* modelled: the others claim nothing.  A work order is known by the call  *)
(* that generated its id.                                                  *)
(***************************************************************************)
EXTENDS FiniteSets

CONSTANTS
  Creates,              \* the calls callers make, retries included
  HostOf, KeyOf, InputOf, \* of each call; the fingerprint is the input itself
  NoCall

ASSUME IntakeAssumption ==
  /\ DOMAIN HostOf = Creates /\ DOMAIN KeyOf = Creates /\ DOMAIN InputOf = Creates
  /\ NoCall \notin Creates

VARIABLES
  claimed,  \* claimed[k]: the call whose work order has key k, or NoCall
  created,  \* the work orders in the log
  call,     \* call[c]: what c is at
  leads     \* leads[c]: the call under way that c has joined, itself if none

intakeVars == <<claimed, created, call, leads>>

\* at: "new", "claim", "append", "joined", "done"; order: the work order of the
\* draft that c was answered with, NoCall if it was refused or failed.
NoAnswer(at) == [at |-> at, order |-> NoCall]

InitialClaims == [k \in {KeyOf[c] : c \in Creates} |-> NoCall]

IntakeInit ==
  /\ claimed = InitialClaims
  /\ created = {}
  /\ call = [c \in Creates |-> NoAnswer("new")]
  /\ leads = [c \in Creates |-> c]

-----------------------------------------------------------------------------

\* inFlight.get: a call of the same host with the same key.
Running(c) ==
  {d \in Creates \ {c} : /\ HostOf[d] = HostOf[c] /\ KeyOf[d] = KeyOf[c]
                         /\ call[d].at \in {"claim", "append"}}

\* A call joins one under way, whatever its input, or goes to claim its key.
Execute(c) ==
  /\ call[c].at = "new"
  /\ \/ /\ Running(c) = {}
        /\ call' = [call EXCEPT ![c] = NoAnswer("claim")]
        /\ UNCHANGED leads
     \/ \E d \in Running(c) :
          /\ call' = [call EXCEPT ![c] = NoAnswer("joined")]
          /\ leads' = [leads EXCEPT ![c] = d]
  /\ UNCHANGED <<claimed, created>>

\* The answer of c is the answer of all that have joined it.
Answered(c, order) ==
  call' = [d \in Creates |->
             IF d = c \/ (call[d].at = "joined" /\ leads[d] = c)
             THEN [at |-> "done", order |-> order] ELSE call[d]]

\* Mutant: the claim is made without looking.
FreeAlways(k) == TRUE

Free(k) == claimed[k] = NoCall

Claim(c) ==
  /\ call[c].at = "claim"
  /\ Free(KeyOf[c])
  /\ claimed' = [claimed EXCEPT ![KeyOf[c]] = c]
  /\ call' = [call EXCEPT ![c] = NoAnswer("append")]
  /\ UNCHANGED <<created, leads>>

\* Somebody has the key: the same input gets its work order, another one is refused.
Resolve(c) ==
  LET existing == claimed[KeyOf[c]] IN
  /\ call[c].at = "claim"
  /\ ~Free(KeyOf[c])
  /\ Answered(c, IF InputOf[existing] = InputOf[c] THEN existing ELSE NoCall)
  /\ UNCHANGED <<claimed, created, leads>>

Create(c) ==
  /\ call[c].at = "append"
  /\ created' = created \cup {c}
  /\ Answered(c, c)
  /\ UNCHANGED <<claimed, leads>>

\* The store or the log does not answer, or its answer is lost.
IntakeFails(c) ==
  /\ call[c].at \in {"claim", "append"}
  /\ \/ UNCHANGED <<claimed, created>>
     \/ /\ call[c].at = "claim" /\ Free(KeyOf[c])
        /\ claimed' = [claimed EXCEPT ![KeyOf[c]] = c]
        /\ UNCHANGED created
     \/ /\ call[c].at = "append"
        /\ created' = created \cup {c}
        /\ UNCHANGED claimed
  /\ Answered(c, NoCall)
  /\ UNCHANGED leads

IntakeNext ==
  \E c \in Creates : Execute(c) \/ Claim(c) \/ Resolve(c) \/ Create(c) \/ IntakeFails(c)

IntakeSpec == IntakeInit /\ [][IntakeNext]_intakeVars

-----------------------------------------------------------------------------
(* Properties                                                              *)

IntakeTypeOK ==
  /\ claimed \in [DOMAIN InitialClaims -> Creates \cup {NoCall}]
  /\ created \subseteq Creates
  /\ call \in [Creates -> [at : {"new", "claim", "append", "joined", "done"},
                           order : Creates \cup {NoCall}]]
  /\ leads \in [Creates -> Creates]

\* "Both paths end at one work order": a key has one work order in the log at
\* most, and whoever is answered with a work order is answered with that of
\* its key, over joined calls, several hosts, retries and lost answers.
OneOrderPerKey ==
  /\ \A c, d \in created : KeyOf[c] = KeyOf[d] => c = d
  /\ \A c \in Creates :
       call[c].order # NoCall =>
         /\ KeyOf[call[c].order] = KeyOf[c]
         /\ \A d \in created : KeyOf[d] = KeyOf[c] => call[c].order = d
=============================================================================
