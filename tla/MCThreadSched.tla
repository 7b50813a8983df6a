--------------------------- MODULE MCThreadSched ---------------------------
(* As many threads as cores, each at home on the core of its number.       *)
EXTENDS ThreadSched

MCHost == [t \in Thread |-> t]
=============================================================================
