------------------------------ MODULE FifoLink ------------------------------
(***************************************************************************)
(* FIFO links (src/mem-hier/link.cc) composed with the event queue of the  *)
(* memory hierarchy: every link owns one event object, its transmit event, *)
(* and schedules it only while is_enqueued() says it is idle.  A link of   *)
(* positive send_every is a bandwidth_fifo_link_t, the others are plain    *)
(* fifo_link_t.  Grant cycles are kept relative to the current cycle.      *)
(***************************************************************************)
EXTENDS MEventQ

CONSTANTS
  Msg,          (* the messages, each on at most one link at a time        *)
  latency,      (* link -> its default latency                             *)
  max_size,     (* link -> the most messages it holds, 0 for no limit      *)
  send_every,   (* link -> cycles a message occupies it, 0 for no limit    *)
  Lats,         (* the latencies senders ask for, 0 for the default        *)
  Costs         (* the send_cycles senders ask for, 0 for the default      *)

Link == Event
delta_cycles == 1

ASSUME LinkAssumption ==
  /\ {latency, max_size, send_every} \subseteq [Link -> Nat]
  /\ Lats \subseteq Nat /\ Costs \subseteq Nat

VARIABLES
  queue,            (* link -> message_queue with grant_cycle_list         *)
  next_send_cycle,  (* link -> cycles until a bandwidth link is free       *)
  phase             (* link -> how far its transmit_message() has come     *)

linkVars == <<queue, next_send_cycle, phase>>
vars == <<queueVars, linkVars>>

Entry == [msg : Msg, grant : Nat]
Sent(m) == \E l \in Link : \E i \in DOMAIN queue[l] : queue[l][i].msg = m

LinkInit ==
  /\ Init
  /\ queue = [l \in Link |-> <<>>]
  /\ next_send_cycle = [l \in Link |-> 0]
  /\ phase = [l \in Link |-> "begin"]

OneOf(x, default) == IF x = 0 THEN default ELSE x

(* What a bandwidth link adds to the latency: the wait until it is free    *)
(* and, without cut-through, the cycles the message occupies it.           *)
ExtraLat(l, cost, cutthrough) ==
  IF send_every[l] = 0 THEN 0
  ELSE next_send_cycle[l] + (IF cutthrough THEN 0 ELSE OneOf(cost, send_every[l]) - 1)

(* send(), by a device outside advance_cycle() or by one that a message    *)
(* has just reached.  A full link answers StallPoll and nothing changes.   *)
Send(l, m, lat, cost, cutthrough) ==
  LET delay == OneOf(lat, latency[l]) + ExtraLat(l, cost, cutthrough)
  IN /\ ~Sent(m)
     /\ (max_size[l] = 0 \/ Len(queue[l]) < max_size[l])
     /\ stack = <<>> => ~advancing
     /\ ~Running(l)
     /\ queue' = [queue EXCEPT ![l] = Append(@, [msg |-> m, grant |-> delay])]
     /\ next_send_cycle' =
          IF send_every[l] = 0 THEN next_send_cycle
          ELSE [next_send_cycle EXCEPT ![l] = @ + OneOf(cost, send_every[l])]
     /\ IF enqueued[l] THEN UNCHANGED queueVars ELSE Enqueue(l, delay)
     /\ UNCHANGED phase

(* The link whose transmit_message() is the innermost call.                *)
Active(l) == stack # <<>> /\ stack[Len(stack)].event = l

(* The front message has been granted and its destination takes it.        *)
Deliver(l) ==
  /\ Active(l)
  /\ phase[l] \in {"begin", "served"}
  /\ queue[l] # <<>>
  /\ Head(queue[l]).grant = 0
  /\ queue' = [queue EXCEPT ![l] = Tail(@)]
  /\ phase' = [phase EXCEPT ![l] = "served"]
  /\ UNCHANGED <<queueVars, next_send_cycle>>

(* Mutants of Requeue: a cycle late; only a link that is empty.            *)
RequeueLate(l) ==
  /\ Active(l)
  /\ \/ phase[l] = "begin" /\ queue[l] # <<>>
     \/ phase[l] = "served"
  /\ EnqueueSlot(l, IF queue[l] = <<>> THEN delta_cycles
                    ELSE Head(queue[l]).grant + delta_cycles)
  /\ phase' = [phase EXCEPT ![l] = "done"]
  /\ UNCHANGED <<queue, next_send_cycle>>
RequeueEmpty(l) ==
  /\ Active(l)
  /\ \/ phase[l] = "begin" /\ queue[l] # <<>>
     \/ phase[l] = "served"
  /\ IF queue[l] = <<>> THEN EnqueueSlot(l, delta_cycles) ELSE UNCHANGED queueVars
  /\ phase' = [phase EXCEPT ![l] = "done"]
  /\ UNCHANGED <<queue, next_send_cycle>>

(* The loop ends: the destination refuses the front message, or none is    *)
(* left, or the next one has to wait.  The event is scheduled again.       *)
Requeue(l) ==
  /\ Active(l)
  /\ \/ phase[l] = "begin" /\ queue[l] # <<>>
     \/ phase[l] = "served"
  /\ EnqueueSlot(l, IF queue[l] = <<>> THEN delta_cycles
                    ELSE OneOf(Head(queue[l]).grant, delta_cycles))
  /\ phase' = [phase EXCEPT ![l] = "done"]
  /\ UNCHANGED <<queue, next_send_cycle>>

(* transmit_message() returns, at once if the link is empty.               *)
TransmitReturns(l) ==
  /\ Active(l)
  /\ phase[l] = "done" \/ (phase[l] = "begin" /\ queue[l] = <<>>)
  /\ Return
  /\ phase' = [phase EXCEPT ![l] = "begin"]
  /\ UNCHANGED <<queue, next_send_cycle>>

(* Mutant of Closer: cycles that have passed are counted on.               *)
CloserOn(n) == n - 1

Closer(n) == IF n = 0 THEN 0 ELSE n - 1

(* A cycle begins: what is relative to the current cycle comes closer.     *)
NextCycle ==
  /\ AdvanceCycle
  /\ queue' = [l \in Link |->
                 [i \in DOMAIN queue[l] |->
                    [queue[l][i] EXCEPT !.grant = Closer(@)]]]
  /\ next_send_cycle' = [l \in Link |-> Closer(next_send_cycle[l])]
  /\ UNCHANGED phase

RunQueue == (FireNext \/ EndOfList) /\ UNCHANGED linkVars

LinkNext ==
  \/ \E l \in Link, m \in Msg, lat \in Lats, cost \in Costs, cut \in BOOLEAN :
       Send(l, m, lat, cost, cut)
  \/ \E l \in Link : Deliver(l) \/ Requeue(l) \/ TransmitReturns(l)
  \/ NextCycle
  \/ RunQueue

(* The simulator keeps running cycles and finishes every call; a           *)
(* destination does not refuse a message for ever.                         *)
Fairness ==
  /\ WF_vars(NextCycle)
  /\ WF_vars(RunQueue)
  /\ \A l \in Link : /\ WF_vars(Requeue(l))
                     /\ WF_vars(TransmitReturns(l))
                     /\ SF_vars(Deliver(l))

LinkSpec == LinkInit /\ [][LinkNext]_vars /\ Fairness

-----------------------------------------------------------------------------
(* Properties                                                              *)

(* Every variable has its type, and the queue's have theirs.               *)
LinkTypeOK ==
  /\ TypeOK
  /\ queue \in [Link -> Seq(Entry)]
  /\ next_send_cycle \in [Link -> Nat]
  /\ phase \in [Link -> {"begin", "served", "done"}]

(* Between cycles the transmit event of a link with messages is scheduled, *)
(* for no later than the grant of its first message, or for the next cycle *)
(* if that message could have gone already: send() may therefore leave an  *)
(* event that is marked enqueued alone.                                    *)
WakesInTime ==
  ~advancing /\ stack = <<>> =>
    \A l \in Link : queue[l] # <<>> =>
      /\ Left(l) > 0
      /\ Left(l) <= OneOf(Head(queue[l]).grant, delta_cycles)

(* A message that a link has taken reaches its destination.                *)
EventuallyDelivered == \A m \in Msg : Sent(m) ~> ~Sent(m)
=============================================================================
