--------------------------- MODULE MCCoordination ---------------------------
(***************************************************************************)
(* Small instances of what the parties of the suite coordinate: workflows  *)
(* of several instances (MCPrimeWorkflow), replicas (ActivationConsensus), *)
(* the calls that promise one material (StockReservations), and consumers  *)
(* of one group that answer late (EventIq).  They share no state: a        *)
(* behaviour is of the part it has chosen, and the others stand still.     *)
(* One replica votes, and no outcome reaches it.                           *)
(***************************************************************************)
EXTENDS MCPrimeWorkflow, ActivationConsensus, MCStockReservations, MCEventIq

CONSTANTS west, stray,            \* a fourth replica, and a voter outside the set
          plain, dense            \* topology versions

-----------------------------------------------------------------------------

CoordinationInit == MCInit /\ ConsensusInit /\ StockInit /\ EventInit

CoordinationNext ==
  \/ MCNext /\ UNCHANGED <<consensusVars, stockVars, eventVars>>
  \/ /\ part = "topology" /\ ConsensusNext
     /\ active'[west] = NotActive
     /\ UNCHANGED <<allVars, stockVars, eventVars>>
  \/ /\ part = "stock" /\ StockNext
     /\ UNCHANGED <<allVars, consensusVars, eventVars>>
  \/ /\ part = "delivery" /\ EventNext
     /\ UNCHANGED <<allVars, consensusVars, stockVars>>

CoordinationSpec ==
  /\ CoordinationInit
  /\ [][CoordinationNext]_<<allVars, consensusVars, stockVars, eventVars>>
  /\ MCFairness

CoordinationTypes == TypeOK /\ ConsensusTypeOK /\ StockTypeOK /\ EventTypeOK
=============================================================================
