------------------------------ MODULE MEventQ ------------------------------
(***************************************************************************)
(* The event queue of the memory hierarchy (src/mem-hier/meventq.cc) with  *)
(* the event objects it holds (src/mem-hier/event.cc): a circular window   *)
(* of lists, one per cycle, and a std::set of the events that lie beyond   *)
(* it.  The handlers of events are left open: while one runs it may        *)
(* enqueue itself or any other event, with a zero delay even run it on the *)
(* spot, so that handlers nest.                                            *)
(***************************************************************************)
EXTENDS Integers, Sequences

CONSTANTS
  Event,         (* the event objects                                      *)
  window_size,   (* the slots of the circular window                       *)
  Delays         (* the delays callers use                                 *)

ASSUME WindowAssumption == window_size \in Nat \ {0, 1}
ASSUME DelaysAssumption == Delays \subseteq Nat

VARIABLES
  window,        (* slot -> the list of events due in that cycle           *)
  last_created,  (* the slot of the current cycle                          *)
  long_events,   (* the events beyond the window                           *)
  cycle,         (* long event -> the cycles it has left (0 for the others) *)
  enqueued,      (* the member enqueued of an event                        *)
  advancing,     (* is advance_cycle() in progress?                        *)
  firing,        (* the events advance_cycle() detached and has yet to run *)
  stack,         (* the do_event() calls in progress, innermost last       *)
  lost,          (* history: events the std::set refused                   *)
  spent,         (* history: events marked enqueued after they ran         *)
  before         (* history: pairs of held events in the order of enqueue  *)

queueVars == <<window, last_created, long_events, cycle, enqueued, advancing,
               firing, stack, lost, spent, before>>

Slots == 0 .. window_size - 1
Frame == [event : Event, nested : BOOLEAN]

Elements(s) == {s[i] : i \in DOMAIN s}

InWindow(e) == \E s \in Slots : e \in Elements(window[s])
Running(e) == \E i \in DOMAIN stack : stack[i].event = e

(* The queue will run e: it is in a slot, beyond the window, or about to   *)
(* be run by the advance_cycle() in progress.                              *)
Held(e) == InWindow(e) \/ e \in long_events \/ e \in Elements(firing)

(* The pairs that make e the last to be enqueued.                          *)
Later(e) == {f \in Event : Held(f)} \X {e}

Init ==
  /\ window = [s \in Slots |-> <<>>]
  /\ last_created = 0
  /\ long_events = {}
  /\ cycle = [e \in Event |-> 0]
  /\ enqueued = [e \in Event |-> FALSE]
  /\ advancing = FALSE
  /\ firing = <<>>
  /\ stack = <<>>
  /\ lost = {}
  /\ spent = {}
  /\ before = {}

-----------------------------------------------------------------------------
(* insert() and enqueue()                                                  *)

(* Mutants of Slot: one too early; the window does not wrap around.        *)
SlotEarly(c, now) == (c + now - 1) % window_size
SlotUnwrapped(c, now) == c + now

(* The slot of the event due in c cycles.                                  *)
Slot(c, now) == (c + now) % window_size

(* Callers enqueue an event that the queue does not hold: a new one, the   *)
(* running one, or one that is_enqueued() says is idle.  They run outside  *)
(* advance_cycle() or in a handler.                                        *)
MayEnqueue(e) ==
  /\ ~Held(e)
  /\ stack = <<>> => ~advancing
  /\ Running(e) => stack[Len(stack)].event = e

(* requeue(0): the event runs within insert(), and its do_event() first    *)
(* marks it dequeued.                                                      *)
EnqueueNow(e) ==
  /\ MayEnqueue(e)
  /\ ~Running(e)
  /\ enqueued' = [enqueued EXCEPT ![e] = FALSE]
  /\ stack' = Append(stack, [event |-> e, nested |-> TRUE])
  /\ lost' = lost \ {e}
  /\ spent' = spent \ {e}
  /\ UNCHANGED <<window, last_created, long_events, cycle, advancing, firing, before>>

(* A delay that reaches beyond the window.  The set is ordered by the time *)
(* left and holds one event of each.                                       *)
EnqueueLong(e, d) ==
  /\ MayEnqueue(e)
  /\ d > window_size
  /\ enqueued' = [enqueued EXCEPT ![e] = TRUE]
  /\ spent' = spent \ {e}
  /\ IF \E f \in long_events : cycle[f] = d
       THEN lost' = lost \union {e} /\ UNCHANGED <<long_events, cycle, before>>
       ELSE /\ long_events' = long_events \union {e}
            /\ cycle' = [cycle EXCEPT ![e] = d]
            /\ lost' = lost \ {e}
            /\ before' = before \union Later(e)
  /\ UNCHANGED <<window, last_created, advancing, firing, stack>>

EnqueueSlot(e, d) ==
  /\ MayEnqueue(e)
  /\ d \in 1 .. window_size
  /\ enqueued' = [enqueued EXCEPT ![e] = TRUE]
  /\ window' = [window EXCEPT ![Slot(d, last_created)] = Append(@, e)]
  /\ lost' = lost \ {e}
  /\ spent' = spent \ {e}
  /\ before' = before \union Later(e)
  /\ UNCHANGED <<last_created, long_events, cycle, advancing, firing, stack>>

Enqueue(e, d) ==
  \/ d = 0 /\ EnqueueNow(e)
  \/ EnqueueLong(e, d)
  \/ EnqueueSlot(e, d)

(* do_event() returns, to advance_cycle() or to the enqueue() that called  *)
(* insert(), which marks the event enqueued.                               *)
Return ==
  /\ stack # <<>>
  /\ LET e == stack[Len(stack)].event
         nested == stack[Len(stack)].nested
     IN /\ enqueued' = [enqueued EXCEPT ![e] = nested \/ @]
        /\ spent' = IF nested /\ ~Held(e) /\ e \notin lost
                      THEN spent \union {e} ELSE spent
  /\ stack' = SubSeq(stack, 1, Len(stack) - 1)
  /\ UNCHANGED <<window, last_created, long_events, cycle, advancing, firing,
                 lost, before>>

-----------------------------------------------------------------------------
(* advance_cycle()                                                         *)

(* Mutants of Reached: one cycle early; one late; never.                   *)
ReachedEarly == {e \in long_events : cycle[e] - 1 <= window_size}
ReachedLate == {e \in long_events : cycle[e] < window_size}
ReachedNever == {e \in long_events : FALSE}

(* The long events that come within reach of the window in this cycle.     *)
Reached == {e \in long_events : cycle[e] - 1 < window_size}

(* The slots after the reached events have been inserted.                  *)
WindowWithReached(now) ==
  [s \in Slots |->
     LET new == {e \in Reached : Slot(cycle[e] - 1, now) = s}
     IN IF new = {} THEN window[s]
        ELSE Append(window[s], CHOOSE e \in new : TRUE)]

(* A cycle begins: the long events move closer and the list of the new     *)
(* current slot is detached.  The code asserts that the slot of the cycle  *)
(* that ends is empty.                                                     *)
AdvanceCycle ==
  /\ ~advancing
  /\ stack = <<>>
  /\ window[last_created] = <<>>
  /\ LET now == (last_created + 1) % window_size
         slots == WindowWithReached(now)
     IN /\ last_created' = now
        /\ firing' = slots[now]
        /\ window' = [slots EXCEPT ![now] = <<>>]
        /\ advancing' = (slots[now] # <<>>)
  /\ cycle' = [e \in Event |-> IF e \in long_events \ Reached THEN cycle[e] - 1 ELSE 0]
  /\ long_events' = long_events \ Reached
  /\ UNCHANGED <<enqueued, stack, lost, spent, before>>

(* The next event of the detached list runs.                               *)
FireNext ==
  /\ advancing
  /\ stack = <<>>
  /\ firing # <<>>
  /\ firing' = Tail(firing)
  /\ stack' = <<[event |-> Head(firing), nested |-> FALSE]>>
  /\ enqueued' = [enqueued EXCEPT ![Head(firing)] = FALSE]
  /\ before' = {p \in before : Head(firing) \notin {p[1], p[2]}}
  /\ UNCHANGED <<window, last_created, long_events, cycle, advancing, lost, spent>>

(* The list is done.  Events that were put in the current slot meanwhile   *)
(* are run now; otherwise advance_cycle() returns.                         *)
EndOfList ==
  /\ advancing
  /\ stack = <<>>
  /\ firing = <<>>
  /\ firing' = window[last_created]
  /\ window' = [window EXCEPT ![last_created] = <<>>]
  /\ advancing' = (window[last_created] # <<>>)
  /\ UNCHANGED <<last_created, long_events, cycle, enqueued, stack, lost, spent, before>>

Next ==
  \/ \E e \in Event, d \in Delays : Enqueue(e, d)
  \/ Return
  \/ AdvanceCycle
  \/ FireNext
  \/ EndOfList

Spec == Init /\ [][Next]_queueVars

-----------------------------------------------------------------------------
(* Properties                                                              *)

(* Every variable has its type.                                            *)
TypeOK ==
  /\ window \in [Slots -> Seq(Event)]
  /\ last_created \in Slots
  /\ long_events \subseteq Event
  /\ cycle \in [Event -> Nat]
  /\ enqueued \in [Event -> BOOLEAN]
  /\ advancing \in BOOLEAN
  /\ firing \in Seq(Event)
  /\ stack \in Seq(Frame)
  /\ lost \subseteq Event
  /\ spent \subseteq Event
  /\ before \subseteq Event \X Event

(* advance_cycle() asserts that no event of the cycle that ends is still   *)
(* in its slot (src/mem-hier/meventq.cc:65).                               *)
SlotOfTheCycleIsEmpty == ~advancing => window[last_created] = <<>>

(* is_enqueued(), on which FIFO links and buses decide whether to schedule *)
(* their event, tells the truth: the queue holds what is marked and marks  *)
(* what it holds, except for events refused by the set of long events and  *)
(* for events that ran within their own enqueue().                         *)
MarkIsTrue ==
  \A e \in Event :
    /\ Held(e) => enqueued[e]
    /\ enqueued[e] => Held(e) \/ e \in lost \/ e \in spent

Ordered(s) == \A i, j \in DOMAIN s : i < j => <<s[i], s[j]>> \in before

(* Events due in the same cycle run in the order in which they were        *)
(* enqueued, those that came from beyond the window included.              *)
SameCycleInOrder ==
  Ordered(firing) /\ \A s \in Slots : Ordered(window[s])

(* The cycles the queue will let pass before it runs e.                    *)
Distance(s) == IF s >= last_created THEN s - last_created
               ELSE s - last_created + window_size
Left(e) ==
  IF e \in Elements(firing) THEN 0
  ELSE IF InWindow(e)
         THEN Distance(CHOOSE s \in Slots : e \in Elements(window[s]))
  ELSE IF e \in long_events THEN cycle[e] ELSE -1

T == INSTANCE Timers WITH Horizon <- window_size, left <- [e \in Event |-> Left(e)],
                          lost <- lost

(* The queue keeps the promise of Timers: no event fires early or late,    *)
(* none fires twice, and only long events with equal delays are lost.      *)
FiresOnTime == T!Spec
=============================================================================
