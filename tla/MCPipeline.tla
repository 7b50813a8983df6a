----------------------------- MODULE MCPipeline -----------------------------
(* Two contexts, each of which writes what the other one reads or writes;  *)
(* the second has a branch first, so that a wrong path precedes its store. *)
EXTENDS Pipeline, TLC

CONSTANTS x, y

Op(kind, a) == [kind |-> kind, addr |-> a]
MCProgram ==
  [t \in Ctxt |-> IF t = 0 THEN <<Op("store", x), Op("load", y)>>
                  ELSE <<Op("branch", x), Op("store", y), Op("unsafe", x)>>]
MCWrongOps == {Op("store", x), Op("load", y)}

(* The objects of the pool are interchangeable. *)
Symmetry == Permutations(Instr)
=============================================================================
