------------------------------- MODULE Timers -------------------------------
(***************************************************************************)
(* What the event queue of the memory hierarchy promises its callers: an   *)
(* event set with a delay fires when exactly that many cycles have passed, *)
(* and the clock does not move on while a due event has not fired.  The    *)
(* one excuse is for delays beyond the queue's horizon: such an event may  *)
(* be lost if another one is waiting with the very same time left.         *)
(***************************************************************************)
EXTENDS Integers

CONSTANTS
  Event,    (* the event objects                                           *)
  Delays,   (* the delays callers use                                      *)
  Horizon   (* the longest delay for which nothing can be lost             *)

VARIABLES
  left,     (* the cycles an event still has to wait, or Unset             *)
  lost      (* the events that were set and will never fire                *)

tvars == <<left, lost>>

Unset == -1

Init ==
  /\ left = [e \in Event |-> Unset]
  /\ lost = {}

Set(e, d) ==
  /\ left[e] = Unset
  /\ left' = [left EXCEPT ![e] = d]
  /\ lost' = lost \ {e}

(* A zero delay fires within the call that sets it: nothing is left to do. *)
SetAndFire(e) ==
  /\ left[e] = Unset
  /\ lost' = lost \ {e}
  /\ UNCHANGED left

Lose(e, d) ==
  /\ left[e] = Unset
  /\ d > Horizon
  /\ \E f \in Event : left[f] = d
  /\ lost' = lost \union {e}
  /\ UNCHANGED left

Fire(e) ==
  /\ left[e] = 0
  /\ left' = [left EXCEPT ![e] = Unset]
  /\ UNCHANGED lost

Tick ==
  /\ \A e \in Event : left[e] # 0
  /\ left' = [e \in Event |-> IF left[e] = Unset THEN Unset ELSE left[e] - 1]
  /\ UNCHANGED lost

Next ==
  \/ \E e \in Event : SetAndFire(e) \/ Fire(e)
  \/ \E e \in Event, d \in Delays \ {0} : Set(e, d) \/ Lose(e, d)
  \/ Tick

Spec == Init /\ [][Next]_tvars
=============================================================================
