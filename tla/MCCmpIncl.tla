----------------------------- MODULE MCCmpIncl ------------------------------
(* Maps of addresses to sets and banks for the instances of CmpIncl.        *)
EXTENDS CmpIncl, TLC

CONSTANTS a1, a2, a3, s1, s2, b1, b2

OneSet == [a \in Addrs |-> s1]
TwoSets == [a \in Addrs |-> IF a = a1 THEN s1 ELSE s2]
ThreadApart == [a \in Addrs |-> IF a = a3 THEN s2 ELSE s1]
OneBank == [a \in Addrs |-> b1]
TwoBanks == [a \in Addrs |-> IF a = a1 THEN b1 ELSE b2]
=============================================================================
