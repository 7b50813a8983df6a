----------------------------- MODULE MCFifoLink -----------------------------
(* Two links: a bandwidth link on which each message takes two cycles, and *)
(* a plain link that holds one message and has no latency of its own.     *)
EXTENDS FifoLink

CONSTANTS bw, plain

MCLatency == [l \in Event |-> IF l = bw THEN 1 ELSE 0]
MCMaxSize == [l \in Event |-> IF l = bw THEN 0 ELSE 1]
MCSendEvery == [l \in Event |-> IF l = bw THEN 2 ELSE 0]
=============================================================================
