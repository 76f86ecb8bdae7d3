----------------------------- MODULE MCJobQueue -----------------------------
(***************************************************************************)
(* Small instances of JobQueue: an urgent and an ordinary job of one type, *)
(* a job of another type, a worker of one bulkhead and a worker of both.   *)
(***************************************************************************)
EXTENDS JobQueue

CONSTANTS nest, cut, parse, floor, any, forge, receipt

MCJobType == [j \in Jobs |-> IF j = parse THEN receipt ELSE forge]
MCPriority == [j \in Jobs |-> IF j = cut THEN 1 ELSE 0]
MCServes == [w \in Workers |-> IF w = any THEN {forge, receipt} ELSE {forge}]
=============================================================================
