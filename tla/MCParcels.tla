------------------------------- MODULE MCParcels -------------------------------
(* Constants of the small instances of Parcels. *)
EXTENDS Parcels

CONSTANTS c1, c2, c3, w1, w2

==============================================================================
