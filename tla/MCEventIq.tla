----------------------------- MODULE MCEventIq -----------------------------
(***************************************************************************)
(* Small instances of EventIq.  Messages: `cut' and `ship' share an        *)
(* ordering key and `price' has none; `ship' and `price' describe one      *)
(* operation.                                                              *)
(***************************************************************************)
EXTENDS EventIq

CONSTANTS cut, price, ship, floor, audit, group, archive, jacket, billing

MCOneGroup == [s \in Subs |-> group]
MCTwoGroups == [s \in Subs |-> IF s = audit THEN archive ELSE group]
MCReceives == [s \in Subs |-> IF s = audit /\ s \notin Ordered THEN Messages \ {cut} ELSE Messages]
MCKeyOf == [m \in Messages |-> IF m = price THEN NoKey ELSE jacket]
MCOpOf == [m \in Messages |-> IF m = cut THEN NoOp ELSE billing]
MCTries == [s \in Subs |-> IF s \in AtMostOnce THEN 1 ELSE 2]
MCSplit == [s \in Subs |-> IF s = audit THEN {ship} ELSE Messages]
=============================================================================
