--------------------------- MODULE MCScanAssembly ---------------------------
(***************************************************************************)
(* How long the packets are that TLC tries: one point or two, and at one   *)
(* tooth also a packet that is too short.                                  *)
(***************************************************************************)
EXTENDS ScanAssembly

MCParamLens ==
  [tooth \in ToothNumbers |-> IF tooth = 2 THEN {5, 11} ELSE {9, 11}]
=============================================================================
