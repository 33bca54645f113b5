---------------------------- MODULE MCSubscriptions ----------------------------
(* Constants of the small instances of Subscriptions. *)
EXTENDS Subscriptions

CONSTANTS s1, s2, k1, k2

OneEach == [s \in Subs |-> IF s = s1 THEN k1 ELSE k2]

==============================================================================
