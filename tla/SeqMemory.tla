----------------------------- MODULE SeqMemory -----------------------------
(***************************************************************************)
(* What a core promises its software: the memory operations of each        *)
(* hardware context take effect one at a time and in program order, and a  *)
(* load returns what the last store to its address wrote, whichever        *)
(* context that store came from: sequential consistency within the core.   *)
(***************************************************************************)
EXTENDS Integers, Sequences, FiniteSetsExt

CONSTANTS Ctxt, Addr, Program

VARIABLES mem, done   (* memory; context -> the operations that took effect *)

vars == <<mem, done>>

MemoryOps(t) == {p \in DOMAIN Program[t] : Program[t][p].kind # "branch"}
Initial == <<0, 0>>

Init ==
  /\ mem = [a \in Addr |-> Initial]
  /\ done = [t \in Ctxt |-> <<>>]

(* The next operation of t in program order. *)
Left(t) == {p \in MemoryOps(t) : \A k \in DOMAIN done[t] : done[t][k].pos # p}

Load(t, p) ==
  /\ Program[t][p].kind = "load"
  /\ done' = [done EXCEPT ![t] = Append(@, [pos |-> p, val |-> mem[Program[t][p].addr]])]
  /\ UNCHANGED mem

Store(t, p) ==
  /\ Program[t][p].kind # "load"
  /\ mem' = [mem EXCEPT ![Program[t][p].addr] = <<t, p>>]
  /\ done' = [done EXCEPT ![t] = Append(@, [pos |-> p, val |-> <<t, p>>])]

Next ==
  \E t \in Ctxt :
    /\ Left(t) # {}
    /\ \/ Load(t, Min(Left(t)))
       \/ Store(t, Min(Left(t)))

Spec == Init /\ [][Next]_vars
=============================================================================
