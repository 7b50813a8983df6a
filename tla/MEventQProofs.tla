--------------------------- MODULE MEventQProofs ---------------------------
(***************************************************************************)
(* The event queue and the links on it.  For every set of events, every    *)
(* window of two slots or more and every set of delays that leaves out a   *)
(* full turn of the window (the delay with which the queue goes wrong, see *)
(* the run meventq_window), the queue keeps the promise of Timers and the  *)
(* order of events due together.  The invariant behind it says where an    *)
(* event can be: in one place, once, and never in the current slot.  Links *)
(* whose longest wait stays within the window wake in time, because their  *)
(* event is never refused by the set of long events, and because a call    *)
(* in progress has enqueued it exactly when its loop is done.              *)
(***************************************************************************)
EXTENDS FifoLink, FiniteSets, FiniteSetTheorems, SequenceTheorems, TLAPS

(* A sequence that holds nothing twice.                                    *)
Injective(s) == \A i, j \in DOMAIN s : s[i] = s[j] => i = j

(* An event is in one slot, in the set of long events or on the detached   *)
(* list, and only once.                                                    *)
OnePlace ==
  /\ \A s \in Slots : Injective(window[s])
  /\ Injective(firing)
  /\ \A s, t \in Slots : s # t => Elements(window[s]) \cap Elements(window[t]) = {}
  /\ \A s \in Slots : /\ Elements(window[s]) \cap long_events = {}
                      /\ Elements(window[s]) \cap Elements(firing) = {}
  /\ long_events \cap Elements(firing) = {}

(* Long events lie beyond the window, no two of them with the same time    *)
(* left; the current slot is empty; nothing is detached between cycles.    *)
Reach ==
  /\ \A e \in long_events : cycle[e] >= window_size
  /\ \A e, f \in long_events : cycle[e] = cycle[f] => e = f
  /\ window[last_created] = <<>>
  /\ ~advancing => firing = <<>>

IInv == TypeOK /\ OnePlace /\ Reach

-----------------------------------------------------------------------------
(* Sequences                                                               *)

(* What Append and Tail do to the elements of a sequence.                  *)
LEMMA AppendElements ==
  ASSUME NEW S, NEW s \in Seq(S), NEW e \in S
  PROVE  /\ Append(s, e) \in Seq(S)
         /\ Elements(Append(s, e)) = Elements(s) \union {e}
         /\ Injective(s) /\ e \notin Elements(s) => Injective(Append(s, e))
<1>1. /\ Append(s, e) \in Seq(S)
      /\ Len(s) \in Nat
      /\ DOMAIN s = 1 .. Len(s)
      /\ DOMAIN Append(s, e) = 1 .. Len(s) + 1
      /\ \A i \in 1 .. Len(s) : Append(s, e)[i] = s[i]
      /\ Append(s, e)[Len(s) + 1] = e
  BY AppendProperties
<1>2. 1 .. Len(s) + 1 = (1 .. Len(s)) \union {Len(s) + 1}
  BY <1>1
<1>3. Elements(Append(s, e)) = Elements(s) \union {e}
  <2>1. ASSUME NEW x \in Elements(Append(s, e))
        PROVE  x \in Elements(s) \union {e}
    BY <1>1, <1>2 DEF Elements
  <2>2. Elements(s) \subseteq Elements(Append(s, e))
    BY <1>1, <1>2 DEF Elements
  <2>3. e \in Elements(Append(s, e))
    <3>1. Len(s) + 1 \in DOMAIN Append(s, e)
      BY <1>1
    <3> QED
      BY <3>1, <1>1 DEF Elements
  <2> QED
    BY <2>1, <2>2, <2>3
<1>4. ASSUME Injective(s), e \notin Elements(s)
      PROVE  Injective(Append(s, e))
  <2> SUFFICES ASSUME NEW i \in 1 .. Len(s) + 1, NEW j \in 1 .. Len(s) + 1,
                      Append(s, e)[i] = Append(s, e)[j]
               PROVE  i = j
    BY <1>1 DEF Injective
  <2>1. CASE i \in 1 .. Len(s) /\ j \in 1 .. Len(s)
    BY <2>1, <1>1, <1>4 DEF Injective
  <2>2. CASE i = Len(s) + 1 /\ j \in 1 .. Len(s)
    BY <2>2, <1>1, <1>4 DEF Elements
  <2>3. CASE j = Len(s) + 1 /\ i \in 1 .. Len(s)
    BY <2>3, <1>1, <1>4 DEF Elements
  <2> QED
    BY <2>1, <2>2, <2>3, <1>2
<1> QED
  BY <1>1, <1>3, <1>4

LEMMA TailElements ==
  ASSUME NEW S, NEW s \in Seq(S), s # <<>>, Injective(s)
  PROVE  /\ Head(s) \in S /\ Head(s) \in Elements(s)
         /\ Tail(s) \in Seq(S)
         /\ Elements(Tail(s)) = Elements(s) \ {Head(s)}
         /\ Injective(Tail(s))
<1>1. /\ Head(s) \in S
      /\ Tail(s) \in Seq(S)
      /\ Len(s) \in Nat /\ Len(s) >= 1
      /\ DOMAIN s = 1 .. Len(s)
      /\ Head(s) = s[1]
      /\ DOMAIN Tail(s) = 1 .. Len(s) - 1
      /\ \A i \in 1 .. Len(s) - 1 : Tail(s)[i] = s[i + 1]
  BY HeadTailProperties
<1>2. 1 \in DOMAIN s /\ Head(s) \in Elements(s)
  BY <1>1 DEF Elements
<1>3. Elements(Tail(s)) = Elements(s) \ {Head(s)}
  <2>1. ASSUME NEW x \in Elements(Tail(s))
        PROVE  x \in Elements(s) \ {Head(s)}
    <3>1. PICK i \in 1 .. Len(s) - 1 : x = s[i + 1]
      BY <2>1, <1>1 DEF Elements
    <3>2. i + 1 \in DOMAIN s /\ i + 1 # 1
      BY <1>1
    <3>3. s[i + 1] # s[1]
      BY <3>2, <1>2 DEF Injective
    <3> QED
      BY <3>1, <3>2, <3>3, <1>1 DEF Elements
  <2>2. ASSUME NEW x \in Elements(s) \ {Head(s)}
        PROVE  x \in Elements(Tail(s))
    <3>1. PICK i \in 1 .. Len(s) : x = s[i]
      BY <2>2, <1>1 DEF Elements
    <3>2. i - 1 \in 1 .. Len(s) - 1 /\ (i - 1) + 1 = i
      BY <3>1, <2>2, <1>1
    <3>3. Tail(s)[i - 1] = s[i]
      BY <3>2, <1>1
    <3> QED
      BY <3>1, <3>2, <3>3, <1>1 DEF Elements
  <2> QED
    BY <2>1, <2>2
<1>4. Injective(Tail(s))
  <2> SUFFICES ASSUME NEW i \in 1 .. Len(s) - 1, NEW j \in 1 .. Len(s) - 1,
                      Tail(s)[i] = Tail(s)[j]
               PROVE  i = j
    BY <1>1 DEF Injective
  <2>1. i + 1 \in 1 .. Len(s) /\ j + 1 \in 1 .. Len(s) /\ s[i + 1] = s[j + 1]
    BY <1>1
  <2>2. i + 1 = j + 1
    BY <2>1, <1>1 DEF Injective
  <2> QED
    BY <2>2
<1> QED
  BY <1>1, <1>2, <1>3, <1>4

LEMMA EmptyElements == Elements(<<>>) = {} /\ Injective(<<>>)
  BY DEF Elements, Injective

LEMMA SomeElement ==
  ASSUME NEW S, NEW s \in Seq(S)
  PROVE  /\ Elements(s) \subseteq S
         /\ Elements(s) = {} <=> s = <<>>
<1>1. DOMAIN s = 1 .. Len(s) /\ Len(s) \in Nat /\ \A i \in 1 .. Len(s) : s[i] \in S
  BY LenProperties, ElementOfSeq
<1>2. CASE s = <<>>
  BY <1>2, EmptyElements
<1>3. CASE s # <<>>
  <2>1. 1 \in DOMAIN s
    BY <1>3, <1>1, EmptySeq
  <2> QED
    BY <2>1, <1>1, <1>3 DEF Elements
<1> QED
  BY <1>2, <1>3

-----------------------------------------------------------------------------
(* Slots                                                                   *)

(* The remainders the queue takes: the slot of a delay within the window,  *)
(* and the slot of the next cycle.                                         *)
LEMMA SlotOf ==
  ASSUME NEW now \in Slots, NEW c \in Nat, c <= window_size
  PROVE  /\ Slot(c, now) \in Slots
         /\ Slot(c, now) = IF c + now < window_size THEN c + now
                           ELSE c + now - window_size
<1>1. window_size \in Nat /\ window_size > 1 /\ now \in Nat /\ now < window_size
  BY WindowAssumption DEF Slots
<1>2. \A n \in Nat : n < window_size => n % window_size = n
  BY <1>1
<1>3. \A n \in Nat : n >= window_size /\ n < 2 * window_size =>
        n % window_size = n - window_size
  BY <1>1
<1> QED
  BY <1>1, <1>2, <1>3 DEF Slot, Slots

(* What Left is, wherever the event is.                                    *)
LeftFacts ==
  /\ \A e \in Event : e \in Elements(firing) => Left(e) = 0
  /\ \A e \in Event, s \in Slots :
       e \in Elements(window[s]) => Left(e) = Distance(s)
  /\ \A e \in Event : e \in long_events => Left(e) = cycle[e]
  /\ \A e \in Event : ~Held(e) => Left(e) = -1

LEMMA LeftIs == OnePlace => LeftFacts
<1> SUFFICES ASSUME OnePlace PROVE LeftFacts
  OBVIOUS
<1>1. \A e \in Event : e \in Elements(firing) => Left(e) = 0
  BY DEF Left
<1>2. ASSUME NEW e \in Event, NEW s \in Slots, e \in Elements(window[s])
      PROVE  Left(e) = Distance(s)
  <2>1. e \notin Elements(firing) /\ InWindow(e)
    BY <1>2 DEF OnePlace, InWindow
  <2>2. \A t \in Slots : e \in Elements(window[t]) => t = s
    BY <1>2 DEF OnePlace
  <2>3. (CHOOSE t \in Slots : e \in Elements(window[t])) = s
    BY <1>2, <2>2
  <2> QED
    BY <2>1, <2>3 DEF Left
<1>3. ASSUME NEW e \in Event, e \in long_events
      PROVE  Left(e) = cycle[e]
  <2>1. e \notin Elements(firing) /\ ~InWindow(e)
    BY <1>3 DEF OnePlace, InWindow
  <2> QED
    BY <1>3, <2>1 DEF Left
<1>4. ASSUME NEW e \in Event, ~Held(e)
      PROVE  Left(e) = -1
  BY <1>4 DEF Left, Held
<1> QED
  BY <1>1, <1>2, <1>3, <1>4 DEF LeftFacts

LEMMA LeftIsNext == OnePlace' => LeftFacts'
  BY LeftIs, PTL

-----------------------------------------------------------------------------
(* The steps                                                               *)

(* The slot an enqueued event goes to, and what it does to the slots.      *)
LEMMA EnqueueSlotFacts ==
  ASSUME IInv, NEW e \in Event, NEW d \in Nat, d # window_size, EnqueueSlot(e, d)
  PROVE  /\ d > 0 /\ d < window_size
         /\ ~Held(e)
         /\ \E s \in Slots :
              /\ s # last_created
              /\ Distance(s) = d
              /\ window' = [window EXCEPT ![s] = Append(window[s], e)]
              /\ window'[s] = Append(window[s], e)
              /\ window'[s] \in Seq(Event)
              /\ Elements(window'[s]) = Elements(window[s]) \union {e}
              /\ Injective(window'[s])
              /\ \A t \in Slots \ {s} : window'[t] = window[t]
<1>1. d > 0 /\ d < window_size
  BY WindowAssumption DEF EnqueueSlot
<1>2. ~Held(e)
  BY DEF EnqueueSlot, MayEnqueue
<1> DEFINE s == Slot(d, last_created)
<1>3. last_created \in Slots /\ window \in [Slots -> Seq(Event)]
  BY DEF IInv, TypeOK
<1>5. last_created \in Nat /\ last_created < window_size /\ window_size \in Nat
  BY <1>3, WindowAssumption DEF Slots
<1>4. s \in Slots /\ s = IF d + last_created < window_size THEN d + last_created
                         ELSE d + last_created - window_size
  <2>1. d <= window_size
    BY <1>1, <1>5
  <2> QED
    BY <2>1, <1>1, <1>3, SlotOf
<1>6. s # last_created /\ Distance(s) = d
  BY <1>1, <1>4, <1>5 DEF Distance
<1>7. window' = [window EXCEPT ![s] = Append(window[s], e)]
  BY DEF EnqueueSlot
<1>8. e \notin Elements(window[s]) /\ Injective(window[s])
  BY <1>2, <1>4 DEF Held, InWindow, IInv, OnePlace
<1>9. window'[s] = Append(window[s], e) /\ \A t \in Slots \ {s} : window'[t] = window[t]
  BY <1>3, <1>4, <1>7
<1>10. /\ Append(window[s], e) \in Seq(Event)
       /\ Elements(Append(window[s], e)) = Elements(window[s]) \union {e}
       /\ Injective(Append(window[s], e))
  <2>1. window[s] \in Seq(Event)
    BY <1>3, <1>4
  <2> QED
    BY <2>1, <1>8, AppendElements
<1> HIDE DEF s
<1> QED
  BY <1>1, <1>2, <1>4, <1>6, <1>7, <1>9, <1>10

(* The new cycle: the slot of the old one receives the long events that    *)
(* come within reach, at most one of them, and the list of the new one is  *)
(* detached.                                                               *)
LEMMA AdvanceFacts ==
  ASSUME IInv, AdvanceCycle
  PROVE  /\ firing = <<>>
         /\ last_created' \in Slots
         /\ last_created' = IF last_created = window_size - 1 THEN 0
                            ELSE last_created + 1
         /\ last_created' # last_created
         /\ \A e \in Reached : cycle[e] = window_size
         /\ \A e, f \in Reached : e = f
         /\ window' \in [Slots -> Seq(Event)]
         /\ window'[last_created'] = <<>>
         /\ Elements(window'[last_created]) = Reached
         /\ Injective(window'[last_created])
         /\ \A s \in Slots \ {last_created, last_created'} : window'[s] = window[s]
         /\ firing' = window[last_created']
<1> DEFINE now == (last_created + 1) % window_size
           slots == WindowWithReached(now)
<1>1. /\ last_created \in Slots /\ window \in [Slots -> Seq(Event)]
      /\ long_events \subseteq Event /\ cycle \in [Event -> Nat]
  BY DEF IInv, TypeOK
<1>2. /\ last_created \in Nat /\ last_created < window_size
      /\ window_size \in Nat /\ window_size > 1
  BY <1>1, WindowAssumption DEF Slots
<1>3. /\ now \in Slots
      /\ now = IF last_created = window_size - 1 THEN 0 ELSE last_created + 1
  <2>1. Slot(1, last_created) = now
    BY <1>2 DEF Slot
  <2>2. 1 \in Nat /\ 1 <= window_size
    BY <1>2
  <2>3. /\ Slot(1, last_created) \in Slots
        /\ Slot(1, last_created) = IF 1 + last_created < window_size
             THEN 1 + last_created ELSE 1 + last_created - window_size
    BY <1>1, <2>2, SlotOf
  <2> QED
    BY <1>2, <2>1, <2>3
<1>4. now # last_created
  BY <1>2, <1>3
<1>5. \A e \in Reached : e \in Event /\ cycle[e] = window_size
  BY <1>1, <1>2 DEF Reached, IInv, Reach
<1>6. \A e, f \in Reached : e = f
  BY <1>5 DEF Reached, IInv, Reach
<1>7. Slot(window_size - 1, now) = last_created
  <2>1. window_size - 1 \in Nat /\ window_size - 1 <= window_size
    BY <1>2
  <2>2. Slot(window_size - 1, now) =
          IF (window_size - 1) + now < window_size THEN (window_size - 1) + now
          ELSE (window_size - 1) + now - window_size
    BY <1>3, <2>1, SlotOf
  <2> QED
    BY <1>2, <1>3, <2>2
<1>8. \A s \in Slots : slots[s] =
        LET new == {e \in Reached : Slot(cycle[e] - 1, now) = s}
        IN IF new = {} THEN window[s] ELSE Append(window[s], CHOOSE e \in new : TRUE)
  BY DEF WindowWithReached
<1>9. \A s \in Slots \ {last_created} : slots[s] = window[s]
  <2> SUFFICES ASSUME NEW s \in Slots \ {last_created} PROVE slots[s] = window[s]
    OBVIOUS
  <2>1. {e \in Reached : Slot(cycle[e] - 1, now) = s} = {}
    BY <1>5, <1>7
  <2> QED
    BY <2>1, <1>8
<1>10. window[last_created] = <<>>
  BY DEF IInv, Reach
<1>11. /\ slots[last_created] \in Seq(Event)
       /\ Elements(slots[last_created]) = Reached
       /\ Injective(slots[last_created])
  <2>1. {e \in Reached : Slot(cycle[e] - 1, now) = last_created} = Reached
    BY <1>5, <1>7
  <2>2. CASE Reached = {}
    <3>1. slots[last_created] = <<>>
      BY <1>1, <1>8, <1>10, <2>1, <2>2
    <3> QED
      BY <3>1, <2>2, EmptyElements, EmptySeq
  <2>3. CASE Reached # {}
    <3> DEFINE r == CHOOSE e \in Reached : TRUE
    <3>1. r \in Reached /\ Reached = {r} /\ r \in Event
      BY <2>3, <1>5, <1>6
    <3>2. slots[last_created] = Append(window[last_created], r)
      BY <1>1, <1>8, <2>1, <2>3
    <3> HIDE DEF r
    <3>3. /\ window[last_created] \in Seq(Event)
          /\ Elements(window[last_created]) = {}
          /\ Injective(window[last_created])
      BY <1>1, <1>10, EmptyElements
    <3>4. /\ Append(window[last_created], r) \in Seq(Event)
          /\ Elements(Append(window[last_created], r)) =
               Elements(window[last_created]) \union {r}
          /\ Injective(Append(window[last_created], r))
      BY <3>1, <3>3, AppendElements
    <3> QED
      BY <3>1, <3>2, <3>3, <3>4
  <2> QED
    BY <2>2, <2>3
<1>12. /\ last_created' = now
       /\ firing' = slots[now]
       /\ window' = [slots EXCEPT ![now] = <<>>]
  BY DEF AdvanceCycle
<1>13. slots \in [Slots -> Seq(Event)]
  <2>1. \A s \in Slots : slots[s] \in Seq(Event)
    BY <1>1, <1>9, <1>11
  <2>2. slots = [s \in Slots |-> slots[s]]
    BY DEF WindowWithReached
  <2> QED
    BY <2>1, <2>2
<1>14. firing = <<>>
  BY DEF IInv, Reach, AdvanceCycle
<1> HIDE DEF slots, now
<1>15. /\ window' \in [Slots -> Seq(Event)]
       /\ window'[now] = <<>>
       /\ \A s \in Slots \ {now} : window'[s] = slots[s]
  <2>1. <<>> \in Seq(Event)
    BY EmptySeq
  <2> QED
    BY <2>1, <1>3, <1>12, <1>13
<1>16. window'[last_created] = slots[last_created]
  BY <1>1, <1>4, <1>15
<1>17. firing' = window[last_created']
  BY <1>3, <1>4, <1>9, <1>12
<1> QED
  BY <1>3, <1>4, <1>5, <1>6, <1>9, <1>11, <1>12, <1>14, <1>15, <1>16, <1>17

LEMMA InitIInv == Init => IInv
<1> SUFFICES ASSUME Init PROVE IInv
  OBVIOUS
<1>1. 0 \in Slots /\ 0 \in Nat
  BY WindowAssumption DEF Slots
<1>2. \A s \in Slots : window[s] = <<>>
  BY DEF Init
<1>3. TypeOK
  BY <1>1, EmptySeq DEF Init, TypeOK
<1>4. OnePlace
  BY <1>2, EmptyElements DEF Init, OnePlace
<1>5. Reach
  BY <1>1, <1>2 DEF Init, Reach
<1> QED
  BY <1>3, <1>4, <1>5 DEF IInv

(* The running call returns: the places of events do not change.           *)
LEMMA ReturnType ==
  ASSUME TypeOK, Return
  PROVE  TypeOK'
<1> DEFINE e == stack[Len(stack)].event
<1>1. /\ Len(stack) \in Nat /\ Len(stack) >= 1
      /\ stack[Len(stack)] \in Frame
  BY EmptySeq, LenProperties, ElementOfSeq DEF TypeOK, Return
<1>2. e \in Event /\ stack[Len(stack)].nested \in BOOLEAN
  BY <1>1 DEF Frame
<1>3. stack' \in Seq(Frame)
  BY <1>1, SubSeqProperties DEF TypeOK, Return
<1>4. enqueued' \in [Event -> BOOLEAN]
  BY <1>2 DEF TypeOK, Return
<1>5. spent' \subseteq Event
  BY <1>2 DEF TypeOK, Return
<1> QED
  BY <1>3, <1>4, <1>5 DEF TypeOK, Return

LEMMA EnqueueType ==
  ASSUME IInv, NEW e \in Event, NEW d \in Nat, d # window_size, Enqueue(e, d)
  PROVE  TypeOK'
<1>1. Later(e) \subseteq Event \X Event
  BY DEF Later
<1>2. CASE EnqueueNow(e)
  <2>1. [event |-> e, nested |-> TRUE] \in Frame
    BY DEF Frame
  <2>2. stack' \in Seq(Frame)
    BY <1>2, <2>1, AppendProperties DEF EnqueueNow, IInv, TypeOK
  <2> QED
    BY <1>2, <2>2 DEF EnqueueNow, IInv, TypeOK
<1>3. CASE EnqueueLong(e, d)
  BY <1>1, <1>3 DEF EnqueueLong, IInv, TypeOK
<1>4. CASE EnqueueSlot(e, d)
  <2>1. window' \in [Slots -> Seq(Event)]
    <3>1. PICK s \in Slots :
            /\ window' = [window EXCEPT ![s] = Append(window[s], e)]
            /\ window'[s] = Append(window[s], e)
            /\ window'[s] \in Seq(Event)
      BY <1>4, EnqueueSlotFacts
    <3> QED
      BY <3>1 DEF IInv, TypeOK
  <2> QED
    BY <1>1, <1>4, <2>1 DEF EnqueueSlot, IInv, TypeOK
<1> QED
  BY <1>2, <1>3, <1>4 DEF Enqueue

(* An event is enqueued, with any delay but a full turn.                   *)
LEMMA EnqueueKeeps ==
  ASSUME IInv, NEW e \in Event, NEW d \in Nat, d # window_size, Enqueue(e, d)
  PROVE  IInv'
<1>1. TypeOK'
  BY EnqueueType
<1>2. CASE EnqueueNow(e)
  BY <1>1, <1>2 DEF EnqueueNow, IInv, OnePlace, Reach
<1>3. CASE EnqueueLong(e, d)
  <2>1. /\ ~Held(e) /\ d > window_size /\ d \in Nat /\ window_size \in Nat
        /\ UNCHANGED <<window, last_created, advancing, firing>>
    BY <1>3, WindowAssumption DEF EnqueueLong, MayEnqueue
  <2>2. CASE \E f \in long_events : cycle[f] = d
    <3>1. UNCHANGED <<long_events, cycle>>
      BY <1>3, <2>2 DEF EnqueueLong
    <3>2. OnePlace' /\ Reach'
      BY <2>1, <3>1 DEF IInv, OnePlace, Reach
    <3> QED
      BY <1>1, <3>2 DEF IInv
  <2>3. CASE ~ \E f \in long_events : cycle[f] = d
    <3>1. /\ long_events' = long_events \union {e}
          /\ cycle' = [cycle EXCEPT ![e] = d]
      BY <1>3, <2>3 DEF EnqueueLong
    <3>2. OnePlace'
      BY <2>1, <3>1 DEF IInv, OnePlace, Held, InWindow
    <3>3. e \notin long_events
      BY <2>1 DEF Held
    <3>4. cycle'[e] = d /\ \A f \in long_events : cycle'[f] = cycle[f]
      BY <3>1, <3>3 DEF IInv, TypeOK
    <3>5. Reach'
      BY <2>1, <2>3, <3>1, <3>3, <3>4 DEF IInv, Reach
    <3> QED
      BY <1>1, <3>2, <3>5 DEF IInv
  <2> QED
    BY <2>2, <2>3
<1>4. CASE EnqueueSlot(e, d)
  <2>1. PICK s \in Slots :
          /\ s # last_created
          /\ Elements(window'[s]) = Elements(window[s]) \union {e}
          /\ Injective(window'[s])
          /\ \A t \in Slots \ {s} : window'[t] = window[t]
    BY <1>4, EnqueueSlotFacts
  <2>2. /\ ~Held(e)
        /\ UNCHANGED <<last_created, long_events, cycle, advancing, firing>>
    BY <1>4 DEF EnqueueSlot, MayEnqueue
  <2>3. OnePlace'
    <3>1. \A t \in Slots : Injective(window'[t])
      BY <2>1 DEF IInv, OnePlace
    <3>2. \A t, u \in Slots : t # u =>
            Elements(window'[t]) \cap Elements(window'[u]) = {}
      BY <2>1, <2>2 DEF IInv, OnePlace, Held, InWindow
    <3>3. \A t \in Slots : /\ Elements(window'[t]) \cap long_events = {}
                           /\ Elements(window'[t]) \cap Elements(firing) = {}
      BY <2>1, <2>2 DEF IInv, OnePlace, Held, InWindow
    <3> QED
      BY <3>1, <3>2, <3>3, <2>2 DEF IInv, OnePlace
  <2>4. Reach'
    BY <2>1, <2>2 DEF IInv, Reach, TypeOK
  <2> QED
    BY <1>1, <2>3, <2>4 DEF IInv
<1> QED
  BY <1>2, <1>3, <1>4 DEF Enqueue

(* The other steps of the queue.                                           *)
LEMMA RunKeeps ==
  ASSUME IInv, Return \/ AdvanceCycle \/ FireNext \/ EndOfList \/ UNCHANGED queueVars
  PROVE  IInv'
<1>1. CASE Return
  <2>1. TypeOK'
    BY <1>1, ReturnType DEF IInv
  <2> QED
    BY <1>1, <2>1 DEF Return, IInv, OnePlace, Reach
<1>2. CASE AdvanceCycle
  <2> DEFINE now == last_created'
  <2>1. /\ firing = <<>>
        /\ now \in Slots
        /\ now # last_created
        /\ \A e \in Reached : cycle[e] = window_size
        /\ window' \in [Slots -> Seq(Event)]
        /\ window'[now] = <<>>
        /\ Elements(window'[last_created]) = Reached
        /\ Injective(window'[last_created])
        /\ \A s \in Slots \ {last_created, now} : window'[s] = window[s]
        /\ firing' = window[now]
    BY <1>2, AdvanceFacts
  <2>2. /\ long_events' = long_events \ Reached
        /\ cycle' = [e \in Event |-> IF e \in long_events \ Reached
                                       THEN cycle[e] - 1 ELSE 0]
        /\ advancing' = (firing' # <<>>)
        /\ UNCHANGED <<enqueued, stack, lost, spent, before>>
    BY <1>2 DEF AdvanceCycle
  <2> HIDE DEF now
  <2>3. Reached \subseteq long_events
    BY DEF Reached
  <2>4. TypeOK'
    <3>1. cycle' \in [Event -> Nat]
      <4>1. \A e \in long_events : cycle[e] \in Nat /\ cycle[e] - 1 \in Nat
        BY WindowAssumption DEF IInv, TypeOK, Reach
      <4> QED
        BY <2>2, <4>1 DEF IInv, TypeOK
    <3>2. firing' \in Seq(Event)
      BY <2>1 DEF IInv, TypeOK
    <3>3. advancing' \in BOOLEAN
      BY <2>2
    <3> QED
      BY <2>1, <2>2, <3>1, <3>2, <3>3 DEF IInv, TypeOK, now
  <2>5. OnePlace'
    <3>1. Elements(window'[now]) = {} /\ Injective(window'[now])
      BY <2>1, EmptyElements
    <3>2. last_created \in Slots
      BY DEF IInv, TypeOK
    <3>3. \A s \in Slots : Injective(window'[s])
      BY <2>1, <3>1 DEF IInv, OnePlace
    <3>4. Injective(firing')
      BY <2>1 DEF IInv, OnePlace
    <3>5. \A s, t \in Slots : s # t =>
            Elements(window'[s]) \cap Elements(window'[t]) = {}
      <4> SUFFICES ASSUME NEW s \in Slots, NEW t \in Slots, s # t
                   PROVE  Elements(window'[s]) \cap Elements(window'[t]) = {}
        OBVIOUS
      <4>1. CASE s = now \/ t = now
        BY <4>1, <3>1
      <4>2. CASE s # now /\ t # now /\ s # last_created /\ t # last_created
        BY <4>2, <2>1 DEF IInv, OnePlace
      <4>3. CASE s = last_created /\ t # now
        BY <4>3, <2>1, <2>3 DEF IInv, OnePlace
      <4>4. CASE t = last_created /\ s # now
        BY <4>4, <2>1, <2>3 DEF IInv, OnePlace
      <4> QED
        BY <4>1, <4>2, <4>3, <4>4
    <3>6. ASSUME NEW s \in Slots
          PROVE  /\ Elements(window'[s]) \cap long_events' = {}
                 /\ Elements(window'[s]) \cap Elements(firing') = {}
      <4>1. CASE s = now
        BY <4>1, <3>1
      <4>2. CASE s = last_created
        BY <4>2, <2>1, <2>2, <2>3 DEF IInv, OnePlace
      <4>3. CASE s # now /\ s # last_created
        BY <4>3, <2>1, <2>2 DEF IInv, OnePlace
      <4> QED
        BY <4>1, <4>2, <4>3
    <3>7. long_events' \cap Elements(firing') = {}
      BY <2>1, <2>2 DEF IInv, OnePlace
    <3> QED
      BY <3>3, <3>4, <3>5, <3>6, <3>7 DEF OnePlace
  <2>6. Reach'
    <3>1. /\ window_size \in Nat /\ long_events \subseteq Event
          /\ \A e \in long_events : cycle[e] \in Nat /\ cycle[e] >= window_size
          /\ \A e, f \in long_events : cycle[e] = cycle[f] => e = f
      BY WindowAssumption DEF IInv, TypeOK, Reach
    <3>2. \A e \in long_events' : /\ e \in long_events
                                  /\ cycle'[e] = cycle[e] - 1
                                  /\ cycle[e] - 1 >= window_size
      BY <2>2, <3>1 DEF Reached
    <3>3. \A e, f \in long_events' : cycle'[e] = cycle'[f] => e = f
      BY <3>1, <3>2
    <3>4. window'[last_created'] = <<>>
      BY <2>1 DEF now
    <3>5. ~advancing' => firing' = <<>>
      BY <2>2
    <3> QED
      BY <3>2, <3>3, <3>4, <3>5 DEF Reach
  <2> QED
    BY <2>4, <2>5, <2>6 DEF IInv
<1>3. CASE FireNext
  <2>1. /\ firing \in Seq(Event) /\ firing # <<>> /\ Injective(firing)
        /\ firing' = Tail(firing)
        /\ UNCHANGED <<window, last_created, long_events, cycle, advancing, lost, spent>>
    BY <1>3 DEF FireNext, IInv, TypeOK, OnePlace
  <2>2. /\ Head(firing) \in Event
        /\ firing' \in Seq(Event)
        /\ Elements(firing') = Elements(firing) \ {Head(firing)}
        /\ Injective(firing')
    BY <2>1, TailElements
  <2>3. stack' \in Seq(Frame)
    <3>1. [event |-> Head(firing), nested |-> FALSE] \in Frame
      BY <2>2 DEF Frame
    <3> QED
      BY <1>3, <3>1 DEF FireNext
  <2>4. TypeOK'
    BY <1>3, <2>1, <2>2, <2>3 DEF FireNext, IInv, TypeOK
  <2>5. OnePlace'
    BY <2>1, <2>2 DEF IInv, OnePlace
  <2>6. Reach'
    BY <1>3, <2>1 DEF FireNext, IInv, Reach
  <2> QED
    BY <2>4, <2>5, <2>6 DEF IInv
<1>4. CASE EndOfList
  <2>1. /\ firing = <<>> /\ firing' = <<>> /\ advancing' = FALSE
        /\ window' = window
        /\ UNCHANGED <<last_created, long_events, cycle, enqueued, stack, lost, spent, before>>
    BY <1>4 DEF EndOfList, IInv, TypeOK, Reach
  <2>2. TypeOK'
    BY <2>1 DEF IInv, TypeOK
  <2>3. OnePlace' /\ Reach'
    BY <2>1 DEF IInv, OnePlace, Reach
  <2> QED
    BY <2>2, <2>3 DEF IInv
<1>5. CASE UNCHANGED queueVars
  BY <1>5 DEF queueVars, IInv, TypeOK, OnePlace, Reach
<1> QED
  BY <1>1, <1>2, <1>3, <1>4, <1>5

LEMMA IInvStep ==
  ASSUME IInv, window_size \notin Delays, [Next]_queueVars
  PROVE  IInv'
<1>1. \A d \in Delays : d \in Nat /\ d # window_size
  BY DelaysAssumption
<1> QED
  BY <1>1, EnqueueKeeps, RunKeeps DEF Next

-----------------------------------------------------------------------------
(* The theorems                                                            *)

(* Every variable keeps its type.                                          *)
THEOREM TypeCorrect == ASSUME window_size \notin Delays PROVE Spec => []TypeOK
<1>1. Init => IInv
  BY InitIInv
<1>2. IInv /\ [Next]_queueVars => IInv'
  BY IInvStep
<1>3. IInv => TypeOK
  BY DEF IInv
<1> QED
  BY <1>1, <1>2, <1>3, PTL DEF Spec

(* The assertion of advance_cycle() holds: when a cycle ends, its slot is  *)
(* empty.                                                                  *)
THEOREM NothingLeftBehind ==
  ASSUME window_size \notin Delays PROVE Spec => []SlotOfTheCycleIsEmpty
<1>1. Init => IInv
  BY InitIInv
<1>2. IInv /\ [Next]_queueVars => IInv'
  BY IInvStep
<1>3. IInv => SlotOfTheCycleIsEmpty
  BY DEF IInv, Reach, SlotOfTheCycleIsEmpty
<1> QED
  BY <1>1, <1>2, <1>3, PTL DEF Spec

(* A new cycle moves events but keeps hold of them.                        *)
LEMMA AdvanceKeeps ==
  ASSUME IInv, AdvanceCycle, NEW e \in Event
  PROVE  Held(e)' <=> Held(e)
<1>1. /\ firing = <<>>
      /\ last_created' \in Slots
      /\ last_created' # last_created
      /\ window'[last_created'] = <<>>
      /\ Elements(window'[last_created]) = Reached
      /\ \A s \in Slots \ {last_created, last_created'} : window'[s] = window[s]
      /\ firing' = window[last_created']
  BY AdvanceFacts
<1>2. /\ last_created \in Slots /\ window[last_created] = <<>>
      /\ Elements(<<>>) = {}
      /\ Reached \subseteq long_events
      /\ long_events' = long_events \ Reached
  BY EmptyElements DEF IInv, TypeOK, Reach, Reached, AdvanceCycle
<1>3. ASSUME Held(e) PROVE Held(e)'
  <2>1. CASE e \in long_events
    BY <2>1, <1>1, <1>2 DEF Held, InWindow
  <2>2. CASE \E s \in Slots : e \in Elements(window[s])
    BY <2>2, <1>1, <1>2 DEF Held, InWindow
  <2> QED
    BY <2>1, <2>2, <1>1, <1>2, <1>3 DEF Held, InWindow
<1>4. ASSUME Held(e)' PROVE Held(e)
  <2>1. CASE e \in long_events' \/ e \in Elements(firing')
    BY <2>1, <1>1, <1>2 DEF Held, InWindow
  <2>2. CASE \E s \in Slots : e \in Elements(window'[s])
    BY <2>2, <1>1, <1>2 DEF Held, InWindow
  <2> QED
    BY <2>1, <2>2, <1>4 DEF Held, InWindow
<1> QED
  BY <1>3, <1>4

(* Marks and places change together.                                       *)
LEMMA EnqueueMarks ==
  ASSUME IInv, MarkIsTrue,
         NEW e \in Event, NEW d \in Nat, d # window_size, Enqueue(e, d)
  PROVE  MarkIsTrue'
<1> DEFINE Told(x) == /\ Held(x) => enqueued[x]
                      /\ enqueued[x] => Held(x) \/ x \in lost \/ x \in spent
<1> SUFFICES ASSUME NEW x \in Event PROVE Told(x)'
  BY DEF MarkIsTrue
<1>0. Told(x)
  BY DEF MarkIsTrue
<1>t. enqueued \in [Event -> BOOLEAN]
  BY DEF IInv, TypeOK
<1>1. CASE EnqueueNow(e)
  <2>1. /\ Held(x)' <=> Held(x)
        /\ ~Held(e)
        /\ lost' = lost \ {e} /\ spent' = spent \ {e}
        /\ enqueued' = [enqueued EXCEPT ![e] = FALSE]
    BY <1>1 DEF EnqueueNow, MayEnqueue, Held, InWindow
  <2> QED
    BY <1>0, <1>t, <2>1
<1>2. CASE EnqueueLong(e, d)
  <2>1. /\ ~Held(e)
        /\ spent' = spent \ {e}
        /\ enqueued' = [enqueued EXCEPT ![e] = TRUE]
        /\ UNCHANGED <<window, firing>>
    BY <1>2 DEF EnqueueLong, MayEnqueue
  <2>2. CASE long_events' = long_events /\ lost' = lost \union {e}
    <3>1. Held(x)' <=> Held(x)
      BY <2>1, <2>2 DEF Held, InWindow
    <3> QED
      BY <1>0, <1>t, <2>1, <2>2, <3>1
  <2>3. CASE long_events' = long_events \union {e} /\ lost' = lost \ {e}
    <3>1. Held(x)' <=> (Held(x) \/ x = e)
      BY <2>1, <2>3 DEF Held, InWindow
    <3> QED
      BY <1>0, <1>t, <2>1, <2>3, <3>1
  <2> QED
    BY <1>2, <2>2, <2>3 DEF EnqueueLong
<1>3. CASE EnqueueSlot(e, d)
  <2>1. PICK s \in Slots :
          /\ Elements(window'[s]) = Elements(window[s]) \union {e}
          /\ \A t \in Slots \ {s} : window'[t] = window[t]
    BY <1>3, EnqueueSlotFacts
  <2>2. /\ enqueued' = [enqueued EXCEPT ![e] = TRUE]
        /\ lost' = lost \ {e} /\ spent' = spent \ {e}
        /\ UNCHANGED <<long_events, firing>>
    BY <1>3 DEF EnqueueSlot
  <2>3. Held(x)' <=> (Held(x) \/ x = e)
    BY <2>1, <2>2 DEF Held, InWindow
  <2> QED
    BY <1>0, <1>t, <2>2, <2>3
<1> QED
  BY <1>1, <1>2, <1>3 DEF Enqueue

LEMMA RunMarks ==
  ASSUME IInv, MarkIsTrue,
         Return \/ AdvanceCycle \/ FireNext \/ EndOfList \/ UNCHANGED queueVars
  PROVE  MarkIsTrue'
<1> DEFINE Told(x) == /\ Held(x) => enqueued[x]
                      /\ enqueued[x] => Held(x) \/ x \in lost \/ x \in spent
<1> SUFFICES ASSUME NEW x \in Event PROVE Told(x)'
  BY DEF MarkIsTrue
<1>0. Told(x)
  BY DEF MarkIsTrue
<1>t. enqueued \in [Event -> BOOLEAN]
  BY DEF IInv, TypeOK
<1>1. CASE Return
  <2> DEFINE e == stack[Len(stack)].event
             nested == stack[Len(stack)].nested
  <2>1. /\ enqueued' = [enqueued EXCEPT ![e] = nested \/ @]
        /\ spent' = IF nested /\ ~Held(e) /\ e \notin lost
                      THEN spent \union {e} ELSE spent
        /\ UNCHANGED <<window, long_events, firing, lost>>
    BY <1>1 DEF Return
  <2>2. Held(x)' <=> Held(x)
    BY <2>1 DEF Held, InWindow
  <2> HIDE DEF e, nested
  <2>3. CASE x = e
    <3>1. enqueued'[x] <=> (nested \/ enqueued[x])
      BY <2>1, <2>3, <1>t
    <3> QED
      BY <1>0, <2>1, <2>2, <2>3, <3>1
  <2>4. CASE x # e
    <3>1. enqueued'[x] = enqueued[x]
      BY <2>1, <2>4, <1>t
    <3> QED
      BY <1>0, <2>1, <2>2, <2>4, <3>1
  <2> QED
    BY <2>3, <2>4
<1>2. CASE AdvanceCycle
  <2>1. Held(x)' <=> Held(x)
    BY <1>2, AdvanceKeeps
  <2> QED
    BY <1>0, <1>2, <2>1 DEF AdvanceCycle
<1>3. CASE FireNext
  <2> DEFINE h == Head(firing)
  <2>1. /\ firing \in Seq(Event) /\ firing # <<>> /\ Injective(firing)
        /\ firing' = Tail(firing)
        /\ enqueued' = [enqueued EXCEPT ![h] = FALSE]
        /\ UNCHANGED <<window, long_events, lost, spent>>
    BY <1>3 DEF FireNext, IInv, TypeOK, OnePlace
  <2>2. h \in Event /\ h \in Elements(firing) /\ Elements(firing') = Elements(firing) \ {h}
    BY <2>1, TailElements
  <2> HIDE DEF h
  <2>3. Held(x)' <=> (Held(x) /\ x # h)
    BY <2>1, <2>2 DEF Held, InWindow, IInv, OnePlace
  <2> QED
    BY <1>0, <1>t, <2>1, <2>2, <2>3
<1>4. CASE EndOfList
  <2>1. /\ window' = window /\ firing' = firing
        /\ UNCHANGED <<long_events, enqueued, lost, spent>>
    BY <1>4 DEF EndOfList, IInv, TypeOK, Reach
  <2>2. Held(x)' <=> Held(x)
    BY <2>1 DEF Held, InWindow
  <2> QED
    BY <1>0, <2>1, <2>2
<1>5. CASE UNCHANGED queueVars
  <2>1. Held(x)' <=> Held(x)
    BY <1>5 DEF queueVars, Held, InWindow
  <2> QED
    BY <1>0, <1>5, <2>1 DEF queueVars
<1> QED
  BY <1>1, <1>2, <1>3, <1>4, <1>5

LEMMA InitMarks == Init => MarkIsTrue
  BY EmptyElements DEF Init, MarkIsTrue, Held, InWindow

(* The mark that links and buses read tells whether the queue holds the    *)
(* event, but for the two exceptions.                                      *)
THEOREM MarkTold == ASSUME window_size \notin Delays PROVE Spec => []MarkIsTrue
<1>1. Init => IInv /\ MarkIsTrue
  BY InitIInv, InitMarks
<1>2. IInv /\ MarkIsTrue /\ [Next]_queueVars => IInv' /\ MarkIsTrue'
  <2>1. \A d \in Delays : d \in Nat /\ d # window_size
    BY DelaysAssumption
  <2> QED
    BY <2>1, IInvStep, EnqueueMarks, RunMarks DEF Next
<1> QED
  BY <1>1, <1>2, PTL DEF Spec

-----------------------------------------------------------------------------
(* The order of events due in the same cycle                               *)

(* An event joins a list as its last: every event of the list was enqueued *)
(* before it.                                                              *)
LEMMA EnqueueOrder ==
  ASSUME IInv, SameCycleInOrder,
         NEW e \in Event, NEW d \in Nat, d # window_size, Enqueue(e, d)
  PROVE  SameCycleInOrder'
<1>1. before \subseteq before'
  BY DEF Enqueue, EnqueueNow, EnqueueLong, EnqueueSlot
<1>2. firing' = firing
  BY DEF Enqueue, EnqueueNow, EnqueueLong, EnqueueSlot
<1>3. CASE window' = window
  BY <1>1, <1>2, <1>3 DEF SameCycleInOrder, Ordered
<1>4. CASE EnqueueSlot(e, d)
  <2>1. PICK s \in Slots :
          /\ window'[s] = Append(window[s], e)
          /\ \A t \in Slots \ {s} : window'[t] = window[t]
    BY <1>4, EnqueueSlotFacts
  <2>2. window[s] \in Seq(Event)
    BY DEF IInv, TypeOK
  <2>3. /\ Len(window[s]) \in Nat
        /\ DOMAIN window[s] = 1 .. Len(window[s])
        /\ DOMAIN window'[s] = 1 .. Len(window[s]) + 1
        /\ \A i \in 1 .. Len(window[s]) : window'[s][i] = window[s][i] /\ window[s][i] \in Event
        /\ window'[s][Len(window[s]) + 1] = e
    BY <2>1, <2>2, AppendProperties, ElementOfSeq, LenProperties
  <2>4. \A i \in 1 .. Len(window[s]) : <<window[s][i], e>> \in before'
    <3>1. before' = before \union Later(e)
      BY <1>4 DEF EnqueueSlot
    <3>2. \A i \in 1 .. Len(window[s]) : Held(window[s][i])
      BY <2>3 DEF Held, InWindow, Elements
    <3> QED
      BY <2>3, <3>1, <3>2 DEF Later
  <2>5. Ordered(window[s])'
    <3> SUFFICES ASSUME NEW i \in DOMAIN window'[s], NEW j \in DOMAIN window'[s], i < j
                 PROVE  <<window'[s][i], window'[s][j]>> \in before'
      BY DEF Ordered
    <3>1. i \in 1 .. Len(window[s])
      BY <2>3
    <3>2. CASE j \in 1 .. Len(window[s])
      BY <1>1, <2>3, <3>1, <3>2 DEF SameCycleInOrder, Ordered
    <3>3. CASE j = Len(window[s]) + 1
      BY <2>3, <2>4, <3>1, <3>3
    <3> QED
      BY <2>3, <3>2, <3>3
  <2>6. \A t \in Slots \ {s} : Ordered(window[t])'
    BY <1>1, <2>1 DEF SameCycleInOrder, Ordered
  <2>7. Ordered(firing)'
    BY <1>1, <1>2 DEF SameCycleInOrder, Ordered
  <2> QED
    BY <1>4, <2>5, <2>6, <2>7 DEF SameCycleInOrder, EnqueueSlot
<1> QED
  BY <1>3, <1>4 DEF Enqueue, EnqueueNow, EnqueueLong

(* The list of a slot is detached as it is; what comes from beyond the     *)
(* window comes alone and into an empty slot; an event that has run was    *)
(* the first of its list, and appears in it no more.                       *)
LEMMA RunOrder ==
  ASSUME IInv, SameCycleInOrder,
         Return \/ AdvanceCycle \/ FireNext \/ EndOfList \/ UNCHANGED queueVars
  PROVE  SameCycleInOrder'
<1>1. CASE Return \/ UNCHANGED queueVars
  BY <1>1 DEF Return, queueVars, SameCycleInOrder, Ordered
<1>2. CASE AdvanceCycle
  <2>1. PICK old \in Slots, now \in Slots : old = last_created /\ now = last_created'
    BY <1>2, AdvanceFacts DEF IInv, TypeOK
  <2>2. /\ \A e, f \in Reached : e = f
        /\ window'[now] = <<>>
        /\ window'[old] \in Seq(Event)
        /\ Elements(window'[old]) = Reached
        /\ Injective(window'[old])
        /\ \A s \in Slots \ {old, now} : window'[s] = window[s]
        /\ firing' = window[now]
    BY <1>2, <2>1, AdvanceFacts
  <2>3. before' = before
    BY <1>2 DEF AdvanceCycle
  <2>4. Ordered(window[old])'
    <3>1. \A i, j \in DOMAIN window'[old] : i = j
      <4>1. \A i \in DOMAIN window'[old] : window'[old][i] \in Reached
        BY <2>2 DEF Elements
      <4> QED
        BY <2>2, <4>1 DEF Injective
    <3>2. DOMAIN window'[old] \subseteq Nat
      BY <2>2
    <3> QED
      BY <3>1, <3>2 DEF Ordered
  <2>5. Ordered(window[now])'
    <3>1. \A i \in DOMAIN <<>> : FALSE
      BY EmptyElements DEF Elements
    <3> QED
      BY <2>2, <3>1 DEF Ordered
  <2>6. \A s \in Slots \ {old, now} : Ordered(window[s])'
    BY <2>2, <2>3 DEF SameCycleInOrder, Ordered
  <2>7. Ordered(firing)'
    BY <2>2, <2>3 DEF SameCycleInOrder, Ordered
  <2> QED
    BY <2>4, <2>5, <2>6, <2>7 DEF SameCycleInOrder, Slots
<1>3. CASE FireNext
  <2> DEFINE h == Head(firing)
  <2>1. /\ firing \in Seq(Event) /\ firing # <<>> /\ Injective(firing)
        /\ firing' = Tail(firing)
        /\ window' = window
        /\ before' = {p \in before : h \notin {p[1], p[2]}}
    BY <1>3 DEF FireNext, IInv, TypeOK, OnePlace
  <2>2. /\ Len(firing) \in Nat /\ Len(firing) >= 1
        /\ DOMAIN firing = 1 .. Len(firing) /\ h = firing[1]
        /\ DOMAIN firing' = 1 .. Len(firing) - 1
        /\ \A i \in 1 .. Len(firing) - 1 : firing'[i] = firing[i + 1]
    BY <2>1, HeadTailProperties
  <2>3. h \in Elements(firing)
    BY <2>1, TailElements
  <2> HIDE DEF h
  <2>4. Ordered(firing)'
    <3> SUFFICES ASSUME NEW i \in DOMAIN firing', NEW j \in DOMAIN firing', i < j
                 PROVE  <<firing'[i], firing'[j]>> \in before'
      BY DEF Ordered
    <3>1. /\ firing'[i] = firing[i + 1] /\ firing'[j] = firing[j + 1]
          /\ i + 1 \in DOMAIN firing /\ j + 1 \in DOMAIN firing /\ i + 1 < j + 1
          /\ 1 \in DOMAIN firing /\ i + 1 # 1 /\ j + 1 # 1
      BY <2>2
    <3>2. <<firing[i + 1], firing[j + 1]>> \in before
      BY <3>1 DEF SameCycleInOrder, Ordered
    <3>3. firing[i + 1] # h /\ firing[j + 1] # h
      BY <2>1, <2>2, <3>1 DEF Injective
    <3> QED
      BY <2>1, <3>1, <3>2, <3>3
  <2>5. \A s \in Slots : Ordered(window[s])'
    <3> SUFFICES ASSUME NEW s \in Slots,
                        NEW i \in DOMAIN window[s], NEW j \in DOMAIN window[s], i < j
                 PROVE  <<window[s][i], window[s][j]>> \in before'
      BY <2>1 DEF Ordered
    <3>1. <<window[s][i], window[s][j]>> \in before
      BY DEF SameCycleInOrder, Ordered
    <3>2. h \notin Elements(window[s])
      BY <2>3 DEF IInv, OnePlace
    <3>3. window[s][i] # h /\ window[s][j] # h
      BY <3>2 DEF Elements
    <3> QED
      BY <2>1, <3>1, <3>3
  <2> QED
    BY <2>1, <2>4, <2>5 DEF SameCycleInOrder
<1>4. CASE EndOfList
  <2>1. window' = window /\ firing' = firing /\ before' = before
    BY <1>4 DEF EndOfList, IInv, TypeOK, Reach
  <2> QED
    BY <2>1 DEF SameCycleInOrder, Ordered
<1> QED
  BY <1>1, <1>2, <1>3, <1>4

(* Events due in the same cycle run in the order of their enqueue().       *)
THEOREM OrderKept ==
  ASSUME window_size \notin Delays PROVE Spec => []SameCycleInOrder
<1>1. Init => IInv /\ SameCycleInOrder
  <2>1. Init => SameCycleInOrder
    <3>1. \A i \in DOMAIN <<>> : FALSE
      BY EmptyElements DEF Elements
    <3> QED
      BY <3>1 DEF Init, SameCycleInOrder, Ordered
  <2> QED
    BY <2>1, InitIInv
<1>2. IInv /\ SameCycleInOrder /\ [Next]_queueVars => IInv' /\ SameCycleInOrder'
  <2>1. \A d \in Delays : d \in Nat /\ d # window_size
    BY DelaysAssumption
  <2> QED
    BY <2>1, IInvStep, EnqueueOrder, RunOrder DEF Next
<1> QED
  BY <1>1, <1>2, PTL DEF Spec

-----------------------------------------------------------------------------
(* The queue implements Timers                                             *)

(* How far the time left is from the current slot.                         *)
LEMMA DistanceIs ==
  ASSUME NEW now \in Slots, now = last_created, NEW s \in Slots
  PROVE  /\ Distance(s) \in Nat
         /\ Distance(s) = 0 <=> s = now
         /\ Distance(s) < window_size
BY WindowAssumption DEF Slots, Distance

LEMMA LeftRange ==
  ASSUME IInv, NEW e \in Event
  PROVE  /\ Left(e) \in Nat \union {-1}
         /\ Left(e) = -1 <=> ~Held(e)
         /\ Left(e) = 0 <=> e \in Elements(firing)
<1>1. LeftFacts
  BY LeftIs DEF IInv
<1>2. last_created \in Slots /\ \A x \in long_events : cycle[x] \in Nat /\ cycle[x] > 0
  BY WindowAssumption DEF IInv, TypeOK, Reach
<1>3. CASE e \in Elements(firing)
  BY <1>1, <1>3 DEF LeftFacts, Held
<1>4. CASE e \in long_events
  <2>1. Left(e) \in Nat /\ Left(e) > 0 /\ Held(e)
    BY <1>1, <1>2, <1>4 DEF LeftFacts, Held
  <2>2. e \notin Elements(firing)
    BY <1>4 DEF IInv, OnePlace
  <2> QED
    BY <2>1, <2>2
<1>5. CASE InWindow(e)
  <2>1. PICK s \in Slots : e \in Elements(window[s])
    BY <1>5 DEF InWindow
  <2>2. s # last_created
    BY <2>1, EmptyElements DEF IInv, Reach
  <2>3. Left(e) \in Nat /\ Left(e) # 0
    BY <1>1, <1>2, <2>1, <2>2, DistanceIs DEF LeftFacts
  <2>4. e \notin Elements(firing) /\ Held(e)
    BY <1>5, <2>1 DEF IInv, OnePlace, Held
  <2> QED
    BY <2>3, <2>4
<1>6. CASE ~Held(e)
  BY <1>1, <1>6 DEF LeftFacts, Held
<1> QED
  BY <1>3, <1>4, <1>5, <1>6 DEF Held

(* Where nothing moves, no time passes.                                    *)
LEMMA SameLeft ==
  ASSUME UNCHANGED <<window, last_created, long_events, cycle, firing>>,
         NEW e \in Event
  PROVE  Left(e)' = Left(e)
BY DEF Left, InWindow, Distance

(* A new cycle brings every event that is held closer by one.              *)
LEMMA OneCloser ==
  ASSUME IInv, IInv', AdvanceCycle, NEW e \in Event
  PROVE  /\ Left(e) # 0
         /\ Left(e)' = IF Left(e) = -1 THEN -1 ELSE Left(e) - 1
<1>1. /\ firing = <<>>
      /\ last_created' \in Slots
      /\ last_created' = IF last_created = window_size - 1 THEN 0
                         ELSE last_created + 1
      /\ \A x \in Reached : cycle[x] = window_size
      /\ Elements(window'[last_created]) = Reached
      /\ \A s \in Slots \ {last_created, last_created'} : window'[s] = window[s]
      /\ firing' = window[last_created']
  BY AdvanceFacts
<1>2. LeftFacts /\ LeftFacts'
  BY LeftIs, LeftIsNext DEF IInv
<1>3. /\ last_created \in Slots
      /\ last_created \in Nat /\ last_created < window_size
      /\ window_size \in Nat /\ window_size > 1
      /\ Reached \subseteq long_events
      /\ long_events' = long_events \ Reached
      /\ \A x \in long_events' : x \in Event => cycle'[x] = cycle[x] - 1
      /\ \A x \in long_events : cycle[x] \in Nat /\ cycle[x] >= window_size
  BY WindowAssumption DEF IInv, TypeOK, Reach, Reached, AdvanceCycle, Slots
<1>4. Left(e) # 0
  BY <1>1, LeftRange, EmptyElements
<1>5. CASE e \in Reached
  <2>1. Left(e) = window_size
    BY <1>1, <1>2, <1>3, <1>5 DEF LeftFacts
  <2>2. PICK old \in Slots : old = last_created
    BY <1>3
  <2>3. e \in Elements(window'[old])
    BY <1>1, <1>5, <2>2
  <2>4. Left(e)' = Distance(old)'
    BY <1>2, <2>3 DEF LeftFacts
  <2>5. Distance(old)' = window_size - 1
    BY <1>1, <1>3, <2>2 DEF Distance
  <2> QED
    BY <1>3, <1>4, <2>1, <2>4, <2>5
<1>6. CASE e \in long_events \ Reached
  <2>1. Left(e) = cycle[e] /\ Left(e)' = cycle'[e]
    BY <1>2, <1>3, <1>6 DEF LeftFacts
  <2> QED
    BY <1>3, <1>4, <1>6, <2>1
<1>7. CASE InWindow(e)
  <2>1. PICK s \in Slots : e \in Elements(window[s])
    BY <1>7 DEF InWindow
  <2>2. s # last_created
    BY <2>1, EmptyElements DEF IInv, Reach
  <2>3. Left(e) = Distance(s) /\ s \in Nat /\ s < window_size
    BY <1>2, <1>3, <2>1 DEF LeftFacts, Slots
  <2>4. CASE s = last_created'
    <3>1. Left(e)' = 0
      BY <1>1, <1>2, <2>1, <2>4 DEF LeftFacts
    <3>2. Distance(s) = 1
      BY <1>1, <1>3, <2>2, <2>3, <2>4 DEF Distance
    <3> QED
      BY <1>4, <2>3, <3>1, <3>2
  <2>5. CASE s # last_created'
    <3>1. Left(e)' = Distance(s)'
      BY <1>1, <1>2, <2>1, <2>2, <2>5 DEF LeftFacts
    <3>2. Distance(s)' = Distance(s) - 1 /\ Distance(s) # -1
      BY <1>1, <1>3, <2>2, <2>3, <2>5 DEF Distance
    <3> QED
      BY <1>4, <2>3, <3>1, <3>2
  <2> QED
    BY <2>4, <2>5
<1>8. CASE ~Held(e)
  <2>1. ~Held(e)'
    BY <1>8, AdvanceKeeps
  <2>2. Left(e) = -1 /\ Left(e)' = -1
    BY <1>2, <1>8, <2>1 DEF LeftFacts
  <2> QED
    BY <1>4, <2>2
<1>9. e \notin Elements(firing)
  BY <1>1, EmptyElements
<1> QED
  BY <1>5, <1>6, <1>7, <1>8, <1>9 DEF Held

(* An event enqueued within the window has its delay left, the others what *)
(* they had.                                                               *)
LEMMA SlotLeft ==
  ASSUME IInv, IInv', NEW e \in Event, NEW d \in Nat, d # window_size,
         EnqueueSlot(e, d)
  PROVE  /\ Left(e) = -1 /\ Left(e)' = d
         /\ ~Held(e) /\ Held(e)'
         /\ \A x \in Event \ {e} : Left(x)' = Left(x) /\ (Held(x)' <=> Held(x))
<1>1. LeftFacts /\ LeftFacts'
  BY LeftIs, LeftIsNext DEF IInv
<1>2. PICK s \in Slots :
        /\ Distance(s) = d
        /\ Elements(window'[s]) = Elements(window[s]) \union {e}
        /\ \A t \in Slots \ {s} : window'[t] = window[t]
  BY EnqueueSlotFacts
<1>3. ~Held(e) /\ UNCHANGED <<last_created, long_events, cycle, firing>>
  BY DEF EnqueueSlot, MayEnqueue
<1>4. \A t \in Slots : Distance(t)' = Distance(t)
  BY <1>3 DEF Distance
<1>5. Left(e) = -1 /\ Left(e)' = d /\ Held(e)'
  BY <1>1, <1>2, <1>3, <1>4 DEF LeftFacts, Held, InWindow
<1>6. ASSUME NEW x \in Event \ {e} PROVE Held(x)' <=> Held(x)
  BY <1>2, <1>3, <1>6 DEF Held, InWindow
<1>7. ASSUME NEW x \in Event \ {e} PROVE Left(x)' = Left(x)
  <2>1. CASE InWindow(x)
    <3>1. PICK t \in Slots : x \in Elements(window[t])
      BY <2>1 DEF InWindow
    <3>2. x \in Elements(window'[t])
      BY <1>2, <3>1
    <3> QED
      BY <1>1, <1>4, <3>1, <3>2 DEF LeftFacts
  <2>2. CASE x \in long_events \/ x \in Elements(firing)
    BY <1>1, <1>3, <2>2 DEF LeftFacts
  <2>3. CASE ~Held(x)
    <3>1. ~Held(x)'
      BY <1>6, <2>3
    <3> QED
      BY <1>1, <2>3, <3>1 DEF LeftFacts
  <2> QED
    BY <2>1, <2>2, <2>3 DEF Held
<1> QED
  BY <1>3, <1>5, <1>6, <1>7

(* The event that runs was due, and the queue no longer holds it.          *)
LEMMA FireLeft ==
  ASSUME IInv, IInv', FireNext
  PROVE  \E h \in Event :
           /\ h = Head(firing)
           /\ Left(h) = 0 /\ Left(h)' = -1 /\ ~Held(h)'
           /\ \A x \in Event \ {h} : Left(x)' = Left(x) /\ (Held(x)' <=> Held(x))
<1>1. LeftFacts /\ LeftFacts'
  BY LeftIs, LeftIsNext DEF IInv
<1>2. /\ firing \in Seq(Event) /\ firing # <<>> /\ Injective(firing)
      /\ firing' = Tail(firing)
      /\ UNCHANGED <<window, last_created, long_events, cycle>>
  BY DEF FireNext, IInv, TypeOK, OnePlace
<1>3. PICK h \in Event : /\ h = Head(firing) /\ h \in Elements(firing)
                         /\ Elements(firing') = Elements(firing) \ {h}
  BY <1>2, TailElements
<1>4. Left(h) = 0
  BY <1>1, <1>3 DEF LeftFacts
<1>5. ~Held(h)'
  BY <1>2, <1>3 DEF Held, InWindow, IInv, OnePlace
<1>6. Left(h)' = -1
  BY <1>1, <1>3, <1>5 DEF LeftFacts
<1>7. ASSUME NEW x \in Event \ {h}
      PROVE  Left(x)' = Left(x) /\ (Held(x)' <=> Held(x))
  BY <1>2, <1>3, <1>7 DEF Left, Held, InWindow, Distance
<1> QED
  BY <1>3, <1>4, <1>5, <1>6, <1>7

LEMMA InitPromise == Init => T!Init
<1> SUFFICES ASSUME Init PROVE T!Init
  OBVIOUS
<1>1. \A e \in Event : Left(e) = -1
  <2> SUFFICES ASSUME NEW e \in Event PROVE Left(e) = -1
    OBVIOUS
  <2>1. /\ Elements(firing) = {} /\ e \notin long_events
        /\ \A s \in Slots : Elements(window[s]) = {}
    BY EmptyElements DEF Init
  <2> QED
    BY <2>1 DEF Left, InWindow
<1>2. lost = {}
  BY DEF Init
<1> QED
  BY <1>1, <1>2 DEF T!Init, T!Unset

(* A step that moves nothing and loses nothing is a step of Timers that    *)
(* changes nothing.                                                        *)
LEMMA Stutter ==
  ASSUME UNCHANGED <<window, last_created, long_events, cycle, firing, lost>>
  PROVE  UNCHANGED T!tvars
<1>1. \A e \in Event : Left(e)' = Left(e)
  BY SameLeft
<1> QED
  BY <1>1 DEF T!tvars

(* Every step of the queue is a step of Timers.                            *)
LEMMA StepPromise ==
  ASSUME IInv, IInv', window_size \notin Delays, [Next]_queueVars
  PROVE  [T!Next]_(T!tvars)
<1>1. LeftFacts /\ LeftFacts'
  BY LeftIs, LeftIsNext DEF IInv
<1>2. ASSUME NEW e \in Event, NEW d \in Delays, EnqueueNow(e)
      PROVE  T!Next
  <2>1. Left(e) = -1 /\ lost' = lost \ {e}
    BY <1>1, <1>2 DEF LeftFacts, EnqueueNow, MayEnqueue
  <2>2. \A x \in Event : Left(x)' = Left(x)
    BY <1>2, SameLeft DEF EnqueueNow
  <2>3. T!SetAndFire(e)
    BY <2>1, <2>2 DEF T!SetAndFire, T!Unset
  <2> QED
    BY <2>3 DEF T!Next
<1>3. ASSUME NEW e \in Event, NEW d \in Delays, EnqueueLong(e, d)
      PROVE  T!Next
  <2>1. /\ Left(e) = -1 /\ ~Held(e) /\ d > window_size /\ d \in Delays \ {0}
        /\ UNCHANGED <<window, last_created, firing>>
    BY <1>1, <1>3, WindowAssumption DEF LeftFacts, EnqueueLong, MayEnqueue
  <2>2. CASE \E f \in long_events : cycle[f] = d
    <3>1. PICK f \in long_events : cycle[f] = d
      BY <2>2
    <3>2. f \in Event /\ Left(f) = d
      BY <1>1, <3>1 DEF LeftFacts, IInv, TypeOK
    <3>3. lost' = lost \union {e} /\ UNCHANGED <<long_events, cycle>>
      BY <1>3, <2>2 DEF EnqueueLong
    <3>4. \A x \in Event : Left(x)' = Left(x)
      BY <2>1, <3>3, SameLeft
    <3>5. T!Lose(e, d)
      BY <2>1, <3>2, <3>3, <3>4 DEF T!Lose, T!Unset
    <3> QED
      BY <2>1, <3>5 DEF T!Next
  <2>3. CASE ~ \E f \in long_events : cycle[f] = d
    <3>1. /\ long_events' = long_events \union {e}
          /\ cycle' = [cycle EXCEPT ![e] = d]
          /\ lost' = lost \ {e}
      BY <1>3, <2>3 DEF EnqueueLong
    <3>2. Left(e)' = d
      BY <1>1, <3>1 DEF LeftFacts, IInv, TypeOK
    <3>3. ASSUME NEW x \in Event \ {e} PROVE Left(x)' = Left(x)
      <4>1. cycle'[x] = cycle[x] /\ (x \in long_events' <=> x \in long_events)
        BY <3>1 DEF IInv, TypeOK
      <4> QED
        BY <2>1, <4>1 DEF Left, InWindow, Distance
    <3>4. T!Set(e, d)
      BY <2>1, <3>1, <3>2, <3>3 DEF T!Set, T!Unset
    <3> QED
      BY <2>1, <3>4 DEF T!Next
  <2> QED
    BY <2>2, <2>3
<1>4. ASSUME NEW e \in Event, NEW d \in Delays, EnqueueSlot(e, d)
      PROVE  T!Next
  <2>1. d \in Delays \ {0} /\ lost' = lost \ {e} /\ d \in Nat /\ d # window_size
    BY <1>4, WindowAssumption, DelaysAssumption DEF EnqueueSlot
  <2>2. /\ Left(e) = -1 /\ Left(e)' = d
        /\ \A x \in Event \ {e} : Left(x)' = Left(x)
    BY <1>4, <2>1, SlotLeft
  <2>3. T!Set(e, d)
    BY <2>1, <2>2 DEF T!Set, T!Unset
  <2> QED
    BY <2>1, <2>3 DEF T!Next
<1>5. CASE Return
  <2>1. UNCHANGED <<window, last_created, long_events, cycle, firing, lost>>
    BY <1>5 DEF Return
  <2> QED
    BY <2>1, Stutter
<1>6. CASE AdvanceCycle
  <2>1. \A x \in Event : /\ Left(x) # 0
                         /\ Left(x)' = IF Left(x) = -1 THEN -1 ELSE Left(x) - 1
    BY <1>6, OneCloser
  <2>2. lost' = lost
    BY <1>6 DEF AdvanceCycle
  <2>3. T!Tick
    BY <2>1, <2>2 DEF T!Tick, T!Unset
  <2> QED
    BY <2>3 DEF T!Next
<1>7. CASE FireNext
  <2>1. PICK h \in Event : /\ Left(h) = 0 /\ Left(h)' = -1
                           /\ \A x \in Event \ {h} : Left(x)' = Left(x)
    BY <1>7, FireLeft
  <2>2. lost' = lost
    BY <1>7 DEF FireNext
  <2>3. T!Fire(h)
    BY <2>1, <2>2 DEF T!Fire, T!Unset
  <2> QED
    BY <2>1, <2>3 DEF T!Next
<1>8. CASE EndOfList
  <2>1. window[last_created] = <<>> /\ window \in [Slots -> Seq(Event)]
    BY DEF IInv, TypeOK, Reach
  <2>2. /\ window' = window /\ firing' = firing
        /\ UNCHANGED <<last_created, long_events, cycle, lost>>
    BY <1>8, <2>1 DEF EndOfList
  <2> QED
    BY <2>2, Stutter
<1>9. CASE UNCHANGED queueVars
  <2>1. UNCHANGED <<window, last_created, long_events, cycle, firing, lost>>
    BY <1>9 DEF queueVars
  <2> QED
    BY <2>1, Stutter
<1> QED
  BY <1>2, <1>3, <1>4, <1>5, <1>6, <1>7, <1>8, <1>9 DEF Next, Enqueue

(* The queue implements Timers: an event fires exactly when its delay has  *)
(* passed, once, and only long events with equal delays are lost.          *)
THEOREM PromiseKept == ASSUME window_size \notin Delays PROVE Spec => FiresOnTime
<1>1. Init => IInv /\ T!Init
  BY InitIInv, InitPromise
<1>2. IInv /\ [Next]_queueVars => IInv'
  BY IInvStep
<1>3. IInv /\ IInv' /\ [Next]_queueVars => [T!Next]_(T!tvars)
  BY StepPromise
<1> QED
  BY <1>1, <1>2, <1>3, PTL DEF Spec, FiresOnTime, T!Spec

-----------------------------------------------------------------------------
(* The links                                                               *)

(* How many messages a link can hold, at most.                             *)
Capacity(l) == IF max_size[l] = 0 THEN Cardinality(Msg) ELSE max_size[l]

(* No link ever asks for a delay of a full turn of the window or more:     *)
(* plain links because their latencies are shorter, bandwidth links        *)
(* because the backlog they can build up is, where no message occupies a   *)
(* link for more than C cycles.                                            *)
InReach(C) ==
  \A l \in Link, lat \in Lats :
    LET longest == OneOf(lat, latency[l])
    IN IF send_every[l] = 0 THEN longest < window_size
       ELSE /\ max_size[l] = 0 => IsFiniteSet(Msg)
            /\ \A cost \in Costs : OneOf(cost, send_every[l]) <= C
            /\ longest + (Capacity(l) + 1) * C <= window_size

(* What waits on the links.  A bandwidth link is free no later than a      *)
(* message's grant and what was sent after it allow.                       *)
TrafficType ==
  /\ queue \in [Link -> Seq(Entry)]
  /\ next_send_cycle \in [Link -> Nat]
  /\ phase \in [Link -> {"begin", "served", "done"}]
Apart(q) == \A i, j \in DOMAIN q : q[i].msg = q[j].msg => i = j
Granted(q) == \A i \in DOMAIN q : q[i].grant < window_size
FreeBy(q, n, C) ==
  /\ n <= (Len(q) + 1) * C
  /\ \A i \in 1 .. Len(q) : n <= q[i].grant + (Len(q) - i + 1) * C
Backlog(C) ==
  \A l \in Link :
    /\ Apart(queue[l]) /\ Granted(queue[l])
    /\ max_size[l] # 0 => Len(queue[l]) <= max_size[l]
    /\ send_every[l] # 0 => FreeBy(queue[l], next_send_cycle[l], C)
Traffic(C) == TrafficType /\ Backlog(C)

(* A link's call is in progress once at most; it has enqueued the link's   *)
(* event exactly when its loop is done, and began with a message if it is  *)
(* nested in a send().                                                     *)
OneCall == \A i, j \in DOMAIN stack : stack[i].event = stack[j].event => i = j
Phases ==
  \A l \in Link :
    /\ ~Running(l) => phase[l] = "begin"
    /\ Running(l) => (Held(l) <=> phase[l] = "done")
    /\ \A i \in DOMAIN stack :
         stack[i].event = l /\ stack[i].nested /\ phase[l] = "begin" => queue[l] # <<>>

(* When the event of a link is due: for its first message.                 *)
Soon(q) == IF q = <<>> THEN delta_cycles ELSE OneOf(Head(q).grant, delta_cycles)
Wakes ==
  \A l \in Link : /\ Held(l) => Left(l) <= Soon(queue[l])
                  /\ queue[l] # <<>> /\ ~Running(l) => Held(l)
NothingLost == long_events = {} /\ lost = {} /\ spent = {}

QueueInv == IInv /\ MarkIsTrue /\ NothingLost
CallInv == OneCall /\ Phases /\ Wakes
LinkInv(C) == QueueInv /\ CallInv /\ Traffic(C)

(* Products the backlog needs.                                             *)
LEMMA Products ==
  ASSUME NEW a \in Nat, NEW b \in Nat, NEW c \in Nat
  PROVE  /\ a * c \in Nat
         /\ (a + 1) * c = a * c + c
         /\ a <= b => a * c <= b * c
<1>1. a * c \in Nat /\ (a + 1) * c = a * c + c
  OBVIOUS
<1>2. ASSUME a <= b PROVE a * c <= b * c
  <2>1. PICK k \in Nat : b = a + k
    <3>1. b - a \in Nat /\ b = a + (b - a)
      BY <1>2
    <3> QED
      BY <3>1
  <2>2. (a + k) * c = a * c + k * c /\ k * c \in Nat /\ a * c \in Nat
    OBVIOUS
  <2> QED
    BY <2>1, <2>2
<1> QED
  BY <1>1, <1>2

(* Messages that differ are no more than there are messages.               *)
LEMMA ApartLength ==
  ASSUME NEW q \in Seq(Entry), Apart(q), IsFiniteSet(Msg)
  PROVE  Len(q) <= Cardinality(Msg)
<1> DEFINE f == [i \in 1 .. Len(q) |-> q[i].msg]
<1>1. Len(q) \in Nat /\ DOMAIN q = 1 .. Len(q) /\ \A i \in 1 .. Len(q) : q[i] \in Entry
  BY LenProperties, ElementOfSeq
<1>2. f \in Injection(1 .. Len(q), Msg)
  <2>1. f \in [1 .. Len(q) -> Msg]
    BY <1>1 DEF Entry
  <2>2. IsInjective(f)
    BY <1>1 DEF Apart, IsInjective
  <2> QED
    BY <2>1, <2>2 DEF Injection
<1>3. Cardinality(1 .. Len(q)) = Len(q)
  <2>1. 1 \in Int /\ Len(q) \in Int
    BY <1>1
  <2>2. Cardinality(1 .. Len(q)) = IF 1 > Len(q) THEN 0 ELSE Len(q) - 1 + 1
    BY <2>1, FS_Interval
  <2> QED
    BY <1>1, <2>2
<1> HIDE DEF f
<1>4. Cardinality(1 .. Len(q)) <= Cardinality(Msg)
  BY <1>2, FS_Injection
<1> QED
  BY <1>3, <1>4

LEMMA SoonIs ==
  ASSUME NEW q \in Seq(Entry), Granted(q)
  PROVE  Soon(q) \in Nat /\ Soon(q) >= 1 /\ Soon(q) < window_size
<1>1. CASE q = <<>>
  BY <1>1, WindowAssumption DEF Soon, delta_cycles
<1>2. CASE q # <<>>
  <2>1. 1 \in DOMAIN q /\ Head(q) = q[1] /\ Head(q) \in Entry
    BY <1>2, HeadTailProperties
  <2>2. Head(q).grant \in Nat /\ Head(q).grant < window_size
    BY <2>1 DEF Granted, Entry
  <2> QED
    BY <1>2, <2>2, WindowAssumption DEF Soon, OneOf, delta_cycles
<1> QED
  BY <1>1, <1>2

(* The delay of a message that is sent does not reach a full turn, and the *)
(* backlog stays within what the link can hold.                            *)
LEMMA SendTraffic ==
  ASSUME NEW C \in Nat, InReach(C), Traffic(C),
         NEW l \in Link, NEW m \in Msg, NEW lat \in Lats, NEW cost \in Costs,
         NEW cut \in BOOLEAN, Send(l, m, lat, cost, cut)
  PROVE  /\ Traffic(C)'
         /\ \E delay \in Nat :
              /\ delay = OneOf(lat, latency[l]) + ExtraLat(l, cost, cut)
              /\ delay < window_size
              /\ queue'[l] = Append(queue[l], [msg |-> m, grant |-> delay])
              /\ \A k \in Link \ {l} : queue'[k] = queue[k]
<1> DEFINE longest == OneOf(lat, latency[l])
           extra == ExtraLat(l, cost, cut)
           delay == longest + extra
           q == queue[l]
           entry == [msg |-> m, grant |-> delay]
           n == next_send_cycle[l]
           c == OneOf(cost, send_every[l])
<1>1. /\ latency[l] \in Nat /\ max_size[l] \in Nat /\ send_every[l] \in Nat
      /\ lat \in Nat /\ cost \in Nat
  BY LinkAssumption
<1>2. longest \in Nat /\ c \in Nat /\ (send_every[l] # 0 => c >= 1)
  BY <1>1 DEF OneOf
<1>3. /\ queue \in [Link -> Seq(Entry)] /\ next_send_cycle \in [Link -> Nat]
      /\ phase \in [Link -> {"begin", "served", "done"}]
      /\ q \in Seq(Entry) /\ n \in Nat
  BY DEF Traffic, TrafficType
<1>4. /\ ~Sent(m)
      /\ max_size[l] = 0 \/ Len(q) < max_size[l]
      /\ queue' = [queue EXCEPT ![l] = Append(q, entry)]
      /\ next_send_cycle' = IF send_every[l] = 0 THEN next_send_cycle
                            ELSE [next_send_cycle EXCEPT ![l] = n + c]
      /\ phase' = phase
  BY DEF Send
<1>5. extra \in Nat /\ (send_every[l] = 0 => extra = 0)
                    /\ (send_every[l] # 0 => extra >= n /\ extra <= n + c - 1)
  BY <1>2, <1>3 DEF ExtraLat
<1> HIDE DEF longest, extra, c, n
<1>6. delay \in Nat /\ entry \in Entry
  BY <1>2, <1>5 DEF Entry
<1>7. /\ Append(q, entry) \in Seq(Entry)
      /\ Len(q) \in Nat /\ Len(Append(q, entry)) = Len(q) + 1
      /\ DOMAIN q = 1 .. Len(q) /\ DOMAIN Append(q, entry) = 1 .. Len(q) + 1
      /\ \A i \in 1 .. Len(q) : Append(q, entry)[i] = q[i] /\ q[i] \in Entry
      /\ Append(q, entry)[Len(q) + 1] = entry
  <2> HIDE DEF q, entry
  <2> QED
    BY <1>3, <1>6, AppendProperties, LenProperties, ElementOfSeq
<1>8. /\ queue'[l] = Append(q, entry)
      /\ \A k \in Link \ {l} : queue'[k] = queue[k]
      /\ \A k \in Link \ {l} : next_send_cycle'[k] = next_send_cycle[k]
      /\ send_every[l] # 0 => next_send_cycle'[l] = n + c
  <2> HIDE DEF entry
  <2> QED
    BY <1>3, <1>4
<1>9. TrafficType'
  <2>1. queue' \in [Link -> Seq(Entry)]
    <3> HIDE DEF q, entry
    <3> QED
      BY <1>3, <1>4, <1>7
  <2>2. next_send_cycle' \in [Link -> Nat]
    BY <1>2, <1>3, <1>4
  <2> QED
    BY <1>3, <1>4, <2>1, <2>2 DEF TrafficType
<1>10. Apart(queue'[l])
  <2>1. \A i \in 1 .. Len(q) : q[i].msg # m
    BY <1>7, <1>4 DEF Sent
  <2>2. entry.msg = m /\ Apart(q)
    BY DEF Traffic, Backlog
  <2> SUFFICES ASSUME NEW i \in 1 .. Len(q) + 1, NEW j \in 1 .. Len(q) + 1,
                      queue'[l][i].msg = queue'[l][j].msg
               PROVE  i = j
    BY <1>7, <1>8 DEF Apart
  <2> HIDE DEF q, entry
  <2>3. i \in 1 .. Len(q) \/ i = Len(q) + 1
    BY <1>7
  <2>4. j \in 1 .. Len(q) \/ j = Len(q) + 1
    BY <1>7
  <2>5. CASE i \in 1 .. Len(q) /\ j \in 1 .. Len(q)
    BY <1>7, <1>8, <2>2, <2>5 DEF Apart
  <2>6. CASE i = Len(q) + 1 /\ j \in 1 .. Len(q)
    BY <1>7, <1>8, <2>1, <2>2, <2>6
  <2>7. CASE j = Len(q) + 1 /\ i \in 1 .. Len(q)
    BY <1>7, <1>8, <2>1, <2>2, <2>7
  <2> QED
    BY <2>3, <2>4, <2>5, <2>6, <2>7
<1>11. max_size[l] # 0 => Len(queue'[l]) <= max_size[l]
  BY <1>1, <1>4, <1>7, <1>8
<1>12. send_every[l] # 0 => FreeBy(q, n, C)
  BY DEF Traffic, Backlog, n
<1>13. ASSUME send_every[l] # 0
       PROVE  /\ c <= C
              /\ n + c <= (Len(q) + 1) * C + C
              /\ delay < window_size
  <2>1. c <= C /\ c >= 1 /\ longest + (Capacity(l) + 1) * C <= window_size
    BY <1>13, <1>2 DEF InReach, c, longest
  <2>2. Len(q) + 1 <= Capacity(l) /\ Capacity(l) \in Nat
    <3>1. CASE max_size[l] # 0
      BY <3>1, <1>1, <1>7, <1>8, <1>11 DEF Capacity
    <3>2. CASE max_size[l] = 0
      <4>1. IsFiniteSet(Msg)
        BY <1>13, <3>2 DEF InReach
      <4>2. queue'[l] \in Seq(Entry)
        BY <1>9 DEF TrafficType
      <4>3. Len(queue'[l]) <= Cardinality(Msg)
        <5> HIDE DEF q, entry
        <5> QED
          BY <1>10, <4>1, <4>2, ApartLength
      <4> QED
        BY <3>2, <4>1, <4>3, <1>7, <1>8, FS_CardinalityType DEF Capacity
    <3> QED
      BY <3>1, <3>2
  <2>3. n <= (Len(q) + 1) * C
    BY <1>12, <1>13 DEF FreeBy
  <2>4. (Len(q) + 1) * C <= Capacity(l) * C /\ (Len(q) + 1) * C \in Nat
    BY SMTT(30), <1>7, <2>2, Products
  <2>5. (Capacity(l) + 1) * C = Capacity(l) * C + C /\ Capacity(l) * C \in Nat
    BY <2>2, Products
  <2>6. window_size \in Nat
    BY WindowAssumption
  <2> HIDE DEF q
  <2> QED
    BY SMTT(30), <1>2, <1>3, <1>5, <1>13, <2>1, <2>3, <2>4, <2>5, <2>6 DEF n
<1>14. delay < window_size
  <2>1. CASE send_every[l] = 0
    <3>1. longest < window_size
      BY <2>1 DEF InReach, longest
    <3> QED
      BY <2>1, <3>1, <1>2, <1>5
  <2> QED
    BY <2>1, <1>13
<1>15. Granted(queue'[l])
  <2>1. Granted(q) /\ entry.grant = delay
    BY DEF Traffic, Backlog
  <2> HIDE DEF q, entry, delay
  <2>2. \A i \in 1 .. Len(q) + 1 : i \in 1 .. Len(q) \/ i = Len(q) + 1
    BY <1>7
  <2> QED
    BY <1>7, <1>8, <1>14, <2>1, <2>2 DEF Granted
<1>16. send_every[l] # 0 => FreeBy(queue'[l], next_send_cycle'[l], C)
  <2> SUFFICES ASSUME send_every[l] # 0 PROVE FreeBy(queue'[l], n + c, C)
    BY <1>8
  <2>1. /\ n <= (Len(q) + 1) * C
        /\ \A i \in 1 .. Len(q) : n <= q[i].grant + (Len(q) - i + 1) * C
    BY <1>12 DEF FreeBy
  <2>2. n \in Nat /\ c \in Nat /\ c <= C /\ n + c <= (Len(q) + 1) * C + C
    BY <1>2, <1>3, <1>13 DEF n
  <2>3. entry.grant = delay /\ delay >= n /\ delay \in Nat
    BY <1>2, <1>3, <1>5, <1>6 DEF n
  <2> HIDE DEF q, entry, delay
  <2>4. (Len(q) + 1 + 1) * C = (Len(q) + 1) * C + C
    BY <1>7, Products
  <2>5. ASSUME NEW i \in 1 .. Len(q)
        PROVE  n + c <= queue'[l][i].grant + (Len(q) + 1 - i + 1) * C
    <3>1. (Len(q) - i + 1) \in Nat /\ Len(q) + 1 - i + 1 = (Len(q) - i + 1) + 1
      BY <1>7
    <3>2. ((Len(q) - i + 1) + 1) * C = (Len(q) - i + 1) * C + C
          /\ (Len(q) - i + 1) * C \in Nat
      BY <3>1, Products
    <3>3. queue'[l][i] = q[i] /\ q[i].grant \in Nat
      BY <1>7, <1>8 DEF Entry
    <3> QED
      BY SMTT(30), <2>1, <2>2, <3>1, <3>2, <3>3
  <2>6. n + c <= queue'[l][Len(q) + 1].grant + (Len(q) + 1 - (Len(q) + 1) + 1) * C
    <3>1. Len(q) + 1 - (Len(q) + 1) + 1 = 1 /\ 1 * C = C
      BY <1>7
    <3>2. queue'[l][Len(q) + 1].grant = delay
      BY <1>7, <1>8, <2>3
    <3> QED
      BY <2>2, <2>3, <3>1, <3>2
  <2>7. \A i \in 1 .. Len(q) + 1 : i \in 1 .. Len(q) \/ i = Len(q) + 1
    BY <1>7
  <2>8. Len(queue'[l]) = Len(q) + 1
    BY <1>7, <1>8
  <2>9. n + c <= (Len(queue'[l]) + 1) * C
    BY <2>2, <2>4, <2>8
  <2>10. ASSUME NEW i \in 1 .. Len(queue'[l])
         PROVE  n + c <= queue'[l][i].grant + (Len(queue'[l]) - i + 1) * C
    <3>1. CASE i \in 1 .. Len(q)
      BY SMTT(30), <2>5, <2>8, <3>1
    <3>2. CASE i = Len(q) + 1
      BY <2>6, <2>8, <3>2
    <3> QED
      BY <2>7, <2>8, <3>1, <3>2
  <2> QED
    BY <2>9, <2>10 DEF FreeBy
<1>17. Backlog(C)'
  <2> HIDE DEF q, entry, delay
  <2> QED
    BY <1>8, <1>10, <1>11, <1>15, <1>16 DEF Traffic, Backlog
<1> HIDE DEF entry
<1>18. delay = OneOf(lat, latency[l]) + ExtraLat(l, cost, cut)
  BY DEF longest, extra
<1> QED
  BY <1>6, <1>8, <1>9, <1>14, <1>17, <1>18 DEF Traffic, entry

(* A message that is delivered was granted, so the link is free when those *)
(* behind it allow.                                                        *)
LEMMA DeliverTraffic ==
  ASSUME NEW C \in Nat, Traffic(C), NEW l \in Link, Deliver(l)
  PROVE  /\ Traffic(C)'
         /\ \A k \in Link \ {l} : queue'[k] = queue[k] /\ phase'[k] = phase[k]
         /\ phase'[l] = "served"
<1> DEFINE q == queue[l]
<1>1. /\ queue \in [Link -> Seq(Entry)] /\ next_send_cycle \in [Link -> Nat]
      /\ phase \in [Link -> {"begin", "served", "done"}]
      /\ q \in Seq(Entry)
  BY DEF Traffic, TrafficType
<1>2. /\ q # <<>> /\ Head(q).grant = 0
      /\ queue' = [queue EXCEPT ![l] = Tail(q)]
      /\ phase' = [phase EXCEPT ![l] = "served"]
      /\ next_send_cycle' = next_send_cycle
  BY DEF Deliver
<1>3. /\ Tail(q) \in Seq(Entry)
      /\ Len(q) \in Nat /\ Len(q) >= 1 /\ Len(Tail(q)) = Len(q) - 1
      /\ DOMAIN q = 1 .. Len(q) /\ DOMAIN Tail(q) = 1 .. Len(q) - 1
      /\ Head(q) = q[1]
      /\ \A i \in 1 .. Len(q) - 1 : Tail(q)[i] = q[i + 1]
  <2> HIDE DEF q
  <2> QED
    BY <1>1, <1>2, HeadTailProperties, LenProperties
<1> HIDE DEF q
<1>4. /\ queue'[l] = Tail(q)
      /\ \A k \in Link \ {l} : queue'[k] = queue[k] /\ phase'[k] = phase[k]
      /\ phase'[l] = "served"
  BY <1>1, <1>2
<1>5. TrafficType'
  BY <1>1, <1>2, <1>3 DEF TrafficType
<1>6. /\ Apart(q) /\ Granted(q) /\ (max_size[l] # 0 => Len(q) <= max_size[l])
      /\ send_every[l] # 0 => FreeBy(q, next_send_cycle[l], C)
  BY DEF Traffic, Backlog, q
<1>7. \A i \in 1 .. Len(q) - 1 : i + 1 \in 1 .. Len(q)
  BY <1>3
<1>8. Apart(Tail(q)) /\ Granted(Tail(q))
  <2>1. ASSUME NEW i \in 1 .. Len(q) - 1, NEW j \in 1 .. Len(q) - 1,
               Tail(q)[i].msg = Tail(q)[j].msg
        PROVE  i = j
    <3>1. i + 1 = j + 1
      BY <1>3, <1>6, <1>7, <2>1 DEF Apart
    <3> QED
      BY <3>1
  <2> QED
    BY <1>3, <1>6, <1>7, <2>1 DEF Apart, Granted
<1>9. max_size[l] # 0 => Len(Tail(q)) <= max_size[l]
  <2>1. max_size[l] \in Nat
    BY LinkAssumption
  <2> QED
    BY <1>3, <1>6, <2>1
<1>10. send_every[l] # 0 => FreeBy(Tail(q), next_send_cycle[l], C)
  <2> SUFFICES ASSUME send_every[l] # 0 PROVE FreeBy(Tail(q), next_send_cycle[l], C)
    OBVIOUS
  <2>1. /\ next_send_cycle[l] \in Nat
        /\ \A i \in 1 .. Len(q) :
             next_send_cycle[l] <= q[i].grant + (Len(q) - i + 1) * C
    BY <1>1, <1>6 DEF FreeBy
  <2>2. next_send_cycle[l] <= (Len(Tail(q)) + 1) * C
    <3>1. 1 \in 1 .. Len(q) /\ Len(q) - 1 + 1 = Len(Tail(q)) + 1 /\ q[1].grant = 0
      BY <1>2, <1>3
    <3>2. (Len(Tail(q)) + 1) * C \in Nat
      BY <1>3
    <3> QED
      BY <2>1, <3>1, <3>2
  <2>3. ASSUME NEW i \in 1 .. Len(Tail(q))
        PROVE  next_send_cycle[l] <= Tail(q)[i].grant + (Len(Tail(q)) - i + 1) * C
    <3>1. i + 1 \in 1 .. Len(q) /\ Tail(q)[i] = q[i + 1]
          /\ Len(q) - (i + 1) + 1 = Len(Tail(q)) - i + 1
      BY <1>3
    <3> QED
      BY <2>1, <3>1
  <2> QED
    BY <2>2, <2>3 DEF FreeBy
<1>11. Backlog(C)'
  BY <1>2, <1>4, <1>8, <1>9, <1>10 DEF Traffic, Backlog
<1> QED
  BY <1>4, <1>5, <1>11 DEF Traffic

(* What is relative to the cycle comes closer together.                    *)
LEMMA CycleTraffic ==
  ASSUME NEW C \in Nat, Traffic(C), NextCycle
  PROVE  /\ Traffic(C)'
         /\ \A l \in Link :
              /\ queue'[l] = <<>> <=> queue[l] = <<>>
              /\ Soon(queue'[l]) = IF Soon(queue[l]) = 1 THEN 1 ELSE Soon(queue[l]) - 1
<1>1. /\ queue \in [Link -> Seq(Entry)] /\ next_send_cycle \in [Link -> Nat]
      /\ phase \in [Link -> {"begin", "served", "done"}]
  BY DEF Traffic, TrafficType
<1>2. \A n \in Nat : Closer(n) \in Nat /\ Closer(n) = IF n = 0 THEN 0 ELSE n - 1
  BY DEF Closer
<1>3. ASSUME NEW l \in Link
      PROVE  /\ queue'[l] \in Seq(Entry)
             /\ Len(queue'[l]) = Len(queue[l]) /\ Len(queue[l]) \in Nat
             /\ DOMAIN queue'[l] = 1 .. Len(queue[l])
             /\ DOMAIN queue[l] = 1 .. Len(queue[l])
             /\ \A i \in 1 .. Len(queue[l]) :
                  /\ queue[l][i] \in Entry
                  /\ queue'[l][i].msg = queue[l][i].msg
                  /\ queue'[l][i].grant = Closer(queue[l][i].grant)
  <2> DEFINE q == queue[l]
             r == [i \in DOMAIN q |-> [q[i] EXCEPT !.grant = Closer(@)]]
  <2>1. q \in Seq(Entry) /\ queue'[l] = r
    BY <1>1 DEF NextCycle
  <2>2. Len(q) \in Nat /\ DOMAIN q = 1 .. Len(q) /\ \A i \in 1 .. Len(q) : q[i] \in Entry
    <3> HIDE DEF q
    <3> QED
      BY <2>1, LenProperties, ElementOfSeq
  <2> HIDE DEF q
  <2>3. ASSUME NEW i \in 1 .. Len(q)
        PROVE  r[i] \in Entry /\ r[i].msg = q[i].msg /\ r[i].grant = Closer(q[i].grant)
    <3>1. q[i] \in Entry /\ r[i] = [q[i] EXCEPT !.grant = Closer(q[i].grant)]
      BY <2>2
    <3> QED
      BY <3>1, <1>2 DEF Entry
  <2>4. r \in [1 .. Len(q) -> Entry]
    BY <2>2, <2>3
  <2> HIDE DEF r
  <2>5. r \in Seq(Entry) /\ Len(r) = Len(q) /\ DOMAIN r = 1 .. Len(q)
    BY <2>2, <2>4, IsASeq, LenProperties
  <2> QED
    BY <2>1, <2>2, <2>3, <2>5 DEF q
<1>4. \A l \in Link : next_send_cycle'[l] = Closer(next_send_cycle[l])
  BY DEF NextCycle
<1>5. TrafficType'
  <2>1. queue' = [l \in Link |-> queue'[l]] /\ next_send_cycle' = [l \in Link |-> next_send_cycle'[l]]
    BY DEF NextCycle
  <2>2. \A l \in Link : queue'[l] \in Seq(Entry) /\ next_send_cycle'[l] \in Nat
    BY <1>1, <1>2, <1>3, <1>4
  <2>3. phase' = phase
    BY DEF NextCycle
  <2> QED
    BY <1>1, <2>1, <2>2, <2>3 DEF TrafficType
<1>6. ASSUME NEW l \in Link
      PROVE  /\ Apart(queue'[l]) /\ Granted(queue'[l])
             /\ max_size[l] # 0 => Len(queue'[l]) <= max_size[l]
             /\ send_every[l] # 0 => FreeBy(queue'[l], next_send_cycle'[l], C)
  <2> DEFINE q == queue[l]
             r == queue'[l]
             n == next_send_cycle[l]
  <2>1. /\ Apart(q) /\ Granted(q)
        /\ max_size[l] # 0 => Len(q) <= max_size[l]
        /\ send_every[l] # 0 => FreeBy(q, n, C)
    BY DEF Traffic, Backlog
  <2>2. /\ Len(r) = Len(q) /\ Len(q) \in Nat
        /\ DOMAIN r = 1 .. Len(q) /\ DOMAIN q = 1 .. Len(q)
        /\ \A i \in 1 .. Len(q) : /\ q[i].grant \in Nat
                                  /\ r[i].msg = q[i].msg
                                  /\ r[i].grant = Closer(q[i].grant)
    BY <1>3 DEF Entry
  <2>3. n \in Nat /\ next_send_cycle'[l] = Closer(n) /\ window_size \in Nat
    BY <1>1, <1>4, WindowAssumption
  <2> HIDE DEF q, r, n
  <2>4. Apart(r)
    BY <2>1, <2>2 DEF Apart
  <2>5. Granted(r)
    <3>1. ASSUME NEW i \in 1 .. Len(q)
          PROVE  r[i].grant \in Nat /\ r[i].grant <= q[i].grant
      <4>1. q[i].grant \in Nat /\ r[i].grant = Closer(q[i].grant)
        BY <2>2
      <4>2. r[i].grant = IF q[i].grant = 0 THEN 0 ELSE q[i].grant - 1
        BY <1>2, <4>1
      <4> QED
        BY <4>1, <4>2
    <3>2. \A i \in 1 .. Len(q) : q[i].grant < window_size
      BY <2>1, <2>2 DEF Granted
    <3>3. \A i \in 1 .. Len(q) : r[i].grant < window_size
      BY <2>2, <2>3, <3>1, <3>2
    <3> QED
      BY <2>2, <3>3 DEF Granted
  <2>6. ASSUME FreeBy(q, n, C) PROVE FreeBy(r, Closer(n), C)
    <3>1. Closer(n) <= n /\ Closer(n) \in Nat /\ (n > 0 => Closer(n) = n - 1)
      BY <1>2, <2>3
    <3>2. Closer(n) <= (Len(r) + 1) * C
      <4>1. (Len(q) + 1) * C \in Nat /\ n <= (Len(q) + 1) * C
        BY <2>2, <2>6, Products DEF FreeBy
      <4> QED
        BY <2>2, <2>3, <3>1, <4>1
    <3>3. ASSUME NEW i \in 1 .. Len(r)
          PROVE  Closer(n) <= r[i].grant + (Len(r) - i + 1) * C
      <4> DEFINE rest == (Len(q) - i + 1) * C
                 g == q[i].grant
      <4>1. Len(q) - i + 1 \in Nat /\ rest \in Nat
        <5>1. Len(q) - i + 1 \in Nat
          BY <2>2, <3>3
        <5> QED
          BY <5>1, Products
      <4>2. g \in Nat /\ n <= g + rest /\ r[i].grant = Closer(g)
        BY <2>2, <2>6, <3>3 DEF FreeBy
      <4>3. (Len(r) - i + 1) * C = rest
        BY <2>2
      <4> HIDE DEF rest, g
      <4>4. Closer(n) <= Closer(g) + rest
        <5>1. Closer(n) = IF n = 0 THEN 0 ELSE n - 1
          BY <1>2, <2>3
        <5>2. Closer(g) = IF g = 0 THEN 0 ELSE g - 1
          BY <1>2, <4>2
        <5> QED
          BY <2>3, <4>1, <4>2, <5>1, <5>2
      <4> QED
        BY <4>2, <4>3, <4>4
    <3> QED
      BY <3>2, <3>3 DEF FreeBy
  <2>7. max_size[l] # 0 => Len(r) <= max_size[l]
    BY <2>1, <2>2
  <2> QED
    BY <2>1, <2>3, <2>4, <2>5, <2>6, <2>7 DEF r
<1>7. Backlog(C)'
  BY <1>6 DEF Backlog
<1>8. ASSUME NEW l \in Link
      PROVE  /\ queue'[l] = <<>> <=> queue[l] = <<>>
             /\ Soon(queue'[l]) = IF Soon(queue[l]) = 1 THEN 1 ELSE Soon(queue[l]) - 1
  <2>1. /\ queue[l] \in Seq(Entry) /\ queue'[l] \in Seq(Entry)
        /\ Len(queue'[l]) = Len(queue[l])
    BY <1>1, <1>3
  <2>2. queue'[l] = <<>> <=> queue[l] = <<>>
    BY <2>1, EmptySeq
  <2>3. CASE queue[l] = <<>>
    BY <2>2, <2>3 DEF Soon, delta_cycles
  <2>4. CASE queue[l] # <<>>
    <3>1. 1 \in 1 .. Len(queue[l]) /\ Head(queue[l]) = queue[l][1] /\ Head(queue'[l]) = queue'[l][1]
      BY <2>1, <2>2, <2>4, EmptySeq, HeadTailProperties
    <3>2. /\ Head(queue[l]).grant \in Nat
          /\ Head(queue'[l]).grant = Closer(Head(queue[l]).grant)
      BY <1>3, <3>1 DEF Entry
    <3>3. PICK g \in Nat : g = Head(queue[l]).grant
      BY <3>2
    <3>4. Soon(queue[l]) = IF g = 0 THEN 1 ELSE g
      BY <2>4, <3>3 DEF Soon, OneOf, delta_cycles
    <3>5. Soon(queue'[l]) = IF Closer(g) = 0 THEN 1 ELSE Closer(g)
      BY <2>2, <2>4, <3>2, <3>3 DEF Soon, OneOf, delta_cycles
    <3>6. Closer(g) = IF g = 0 THEN 0 ELSE g - 1
      BY <1>2
    <3>7. Soon(queue'[l]) = IF Soon(queue[l]) = 1 THEN 1 ELSE Soon(queue[l]) - 1
      BY <3>4, <3>5, <3>6
    <3> QED
      BY <2>2, <3>7
  <2> QED
    BY <2>2, <2>3, <2>4
<1> QED
  BY <1>5, <1>7, <1>8 DEF Traffic

(* A call begins within another, or returns.                               *)
LEMMA Push ==
  ASSUME TypeOK, OneCall, NEW e \in Event, NEW nested \in BOOLEAN, ~Running(e),
         stack' = Append(stack, [event |-> e, nested |-> nested])
  PROVE  /\ OneCall'
         /\ \A x \in Event : Running(x)' <=> Running(x) \/ x = e
         /\ \A i \in DOMAIN stack' : stack'[i].event # e =>
              i \in DOMAIN stack /\ stack'[i] = stack[i]
<1> DEFINE frame == [event |-> e, nested |-> nested]
<1>1. stack \in Seq(Frame) /\ frame \in Frame /\ frame.event = e
  BY DEF TypeOK, Frame
<1> HIDE DEF frame
<1>2. /\ Len(stack) \in Nat /\ DOMAIN stack = 1 .. Len(stack)
      /\ DOMAIN stack' = 1 .. Len(stack) + 1
      /\ \A i \in 1 .. Len(stack) : stack'[i] = stack[i]
      /\ stack'[Len(stack) + 1] = frame
  <2>1. stack' = Append(stack, frame)
    BY DEF frame
  <2> QED
    BY <1>1, <2>1, AppendProperties, LenProperties
<1>3. \A i \in 1 .. Len(stack) + 1 : i \in 1 .. Len(stack) \/ i = Len(stack) + 1
  BY <1>2
<1>4. Len(stack) + 1 \in 1 .. Len(stack) + 1 /\ 1 .. Len(stack) \subseteq 1 .. Len(stack) + 1
  BY <1>2
<1>5. \A i \in 1 .. Len(stack) : stack[i].event # e
  BY <1>2 DEF Running
<1>6. OneCall'
  BY <1>1, <1>2, <1>3, <1>5 DEF OneCall
<1>7. \A x \in Event : Running(x)' <=> Running(x) \/ x = e
  BY <1>1, <1>2, <1>3, <1>4 DEF Running
<1> QED
  BY <1>1, <1>2, <1>3, <1>6, <1>7

LEMMA Pop ==
  ASSUME TypeOK, OneCall, stack # <<>>, stack' = SubSeq(stack, 1, Len(stack) - 1)
  PROVE  /\ OneCall'
         /\ \A x \in Event : Running(x)' <=> Running(x) /\ x # stack[Len(stack)].event
         /\ \A i \in DOMAIN stack' : i \in DOMAIN stack /\ stack'[i] = stack[i]
         /\ Len(stack) \in DOMAIN stack
<1>1. /\ stack \in Seq(Frame) /\ Len(stack) \in Nat /\ Len(stack) >= 1
      /\ DOMAIN stack = 1 .. Len(stack)
  BY EmptySeq, LenProperties DEF TypeOK
<1>2. /\ DOMAIN stack' = 1 .. Len(stack) - 1
      /\ \A i \in 1 .. Len(stack) - 1 : stack'[i] = stack[i]
  BY SMTT(30), <1>1, SubSeqProperties, LenProperties
<1>3. \A i \in 1 .. Len(stack) : i \in 1 .. Len(stack) - 1 <=> i # Len(stack)
  <2>1. \A n \in Nat : \A i \in 1 .. n : i \in 1 .. n - 1 <=> i # n
    OBVIOUS
  <2> QED
    BY <1>1, <2>1
<1>4. 1 .. Len(stack) - 1 \subseteq 1 .. Len(stack) /\ Len(stack) \in 1 .. Len(stack)
  BY <1>1
<1>5. OneCall'
  BY SMTT(30), <1>1, <1>2, <1>4 DEF OneCall
<1>6. \A x \in Event : Running(x)' <=> Running(x) /\ x # stack[Len(stack)].event
  BY <1>1, <1>2, <1>3, <1>4 DEF Running, OneCall
<1> QED
  BY <1>1, <1>2, <1>4, <1>5, <1>6

LEMMA ActiveRuns ==
  ASSUME TypeOK, NEW l \in Link, Active(l)
  PROVE  Running(l) /\ stack # <<>> /\ stack[Len(stack)].event = l
<1>1. Len(stack) \in DOMAIN stack
  BY EmptySeq, LenProperties DEF TypeOK, Active
<1> QED
  BY <1>1 DEF Active, Running

LEMMA NoCall == stack = <<>> => \A x \in Event : ~Running(x)
<1>1. \A i \in DOMAIN <<>> : FALSE
  BY EmptyElements DEF Elements
<1> QED
  BY <1>1 DEF Running

LEMMA InitLink == ASSUME NEW C \in Nat, LinkInit PROVE LinkInv(C)
<1>1. QueueInv
  BY InitIInv, InitMarks DEF LinkInit, QueueInv, NothingLost, Init
<1>2. stack = <<>> /\ \A i \in DOMAIN <<>> : FALSE
  BY EmptyElements DEF LinkInit, Init, Elements
<1>3. \A l \in Link : ~Held(l) /\ queue[l] = <<>> /\ phase[l] = "begin"
                      /\ next_send_cycle[l] = 0
  BY EmptyElements DEF LinkInit, Init, Held, InWindow, Link
<1>4. CallInv
  BY <1>2, <1>3, NoCall DEF CallInv, OneCall, Phases, Wakes, Link
<1>5. TrafficType
  BY EmptySeq DEF LinkInit, TrafficType
<1>6. Len(<<>>) = 0 /\ (0 + 1) * C = C
  BY EmptySeq
<1>7. ASSUME NEW l \in Link
      PROVE  /\ Apart(queue[l]) /\ Granted(queue[l])
             /\ max_size[l] # 0 => Len(queue[l]) <= max_size[l]
             /\ send_every[l] # 0 => FreeBy(queue[l], next_send_cycle[l], C)
  <2>1. max_size[l] \in Nat
    BY LinkAssumption
  <2>2. FreeBy(<<>>, 0, C)
    BY <1>6 DEF FreeBy
  <2> QED
    BY <1>2, <1>3, <1>6, <2>1, <2>2 DEF Apart, Granted
<1> QED
  BY <1>1, <1>4, <1>5, <1>7 DEF LinkInv, Traffic, Backlog

(* A message is sent: the link's event is set for it, unless it is already *)
(* marked, and then it is due no later.                                    *)
LEMMA SendKeeps ==
  ASSUME NEW C \in Nat, InReach(C), LinkInv(C),
         NEW l \in Link, NEW m \in Msg, NEW lat \in Lats, NEW cost \in Costs,
         NEW cut \in BOOLEAN, Send(l, m, lat, cost, cut)
  PROVE  LinkInv(C)'
<1>1. /\ IInv /\ MarkIsTrue /\ NothingLost /\ OneCall /\ Phases /\ Wakes /\ Traffic(C)
      /\ TypeOK /\ l \in Event
  BY DEF LinkInv, QueueInv, CallInv, IInv, Link
<1>2. PICK delay \in Nat :
        /\ delay = OneOf(lat, latency[l]) + ExtraLat(l, cost, cut)
        /\ delay < window_size
        /\ queue'[l] = Append(queue[l], [msg |-> m, grant |-> delay])
        /\ \A k \in Link \ {l} : queue'[k] = queue[k]
  BY <1>1, SendTraffic
<1>3. Traffic(C)'
  BY <1>1, SendTraffic
<1>4. ~Running(l) /\ phase' = phase
  BY DEF Send
<1>5. queue[l] \in Seq(Entry) /\ Granted(queue[l]) /\ queue'[l] \in Seq(Entry)
  BY <1>1, <1>3 DEF Traffic, TrafficType, Backlog
<1>6. /\ queue'[l] # <<>>
      /\ queue[l] # <<>> => Head(queue'[l]) = Head(queue[l])
      /\ queue[l] = <<>> => Head(queue'[l]).grant = delay
  <2> DEFINE entry == [msg |-> m, grant |-> delay]
  <2>1. /\ entry \in Entry /\ entry.grant = delay
        /\ queue'[l] = Append(queue[l], entry)
    BY <1>2 DEF Entry
  <2> HIDE DEF entry
  <2>2. /\ Len(queue[l]) \in Nat /\ Len(queue'[l]) = Len(queue[l]) + 1
        /\ \A i \in 1 .. Len(queue[l]) : queue'[l][i] = queue[l][i]
        /\ queue'[l][Len(queue[l]) + 1] = entry
    BY <1>5, <2>1, AppendProperties, LenProperties
  <2>3. queue'[l] # <<>> /\ Head(queue'[l]) = queue'[l][1]
    BY <1>5, <2>2, EmptySeq, HeadTailProperties
  <2>4. CASE queue[l] # <<>>
    <3>1. 1 \in 1 .. Len(queue[l]) /\ Head(queue[l]) = queue[l][1]
      BY <1>5, <2>2, <2>4, EmptySeq, HeadTailProperties
    <3> QED
      BY <2>2, <2>3, <2>4, <3>1
  <2>5. CASE queue[l] = <<>>
    BY <1>5, <2>1, <2>2, <2>3, <2>5, EmptySeq
  <2> QED
    BY <2>3, <2>4, <2>5
<1>7. ASSUME enqueued[l], UNCHANGED queueVars
      PROVE  QueueInv' /\ CallInv'
  <2>1. UNCHANGED <<window, last_created, long_events, cycle, firing, stack, lost, spent, enqueued>>
    BY <1>7 DEF queueVars
  <2>2. QueueInv'
    BY <1>1, <1>7, <2>1, RunKeeps, RunMarks DEF QueueInv, NothingLost
  <2>3. Held(l)
    BY <1>1, <1>7 DEF MarkIsTrue, NothingLost
  <2>4. \A x \in Event : (Held(x)' <=> Held(x)) /\ Left(x)' = Left(x)
                         /\ (Running(x)' <=> Running(x))
    BY <2>1, SameLeft DEF Held, InWindow, Running
  <2>5. Left(l) <= Soon(queue[l]) /\ Left(l) \in Int
    BY <1>1, <2>3, LeftRange DEF Wakes
  <2>6. Soon(queue[l]) <= Soon(queue'[l]) /\ Soon(queue[l]) \in Nat /\ Soon(queue'[l]) \in Nat
    <3>1. CASE queue[l] # <<>>
      BY <1>5, <1>6, <3>1, SoonIs DEF Soon
    <3>2. CASE queue[l] = <<>>
      BY <1>2, <1>6, <3>2 DEF Soon, OneOf, delta_cycles
    <3> QED
      BY <3>1, <3>2
  <2>7. Wakes'
    <3>1. Left(l)' <= Soon(queue[l])'
      BY <1>1, <2>4, <2>5, <2>6
    <3> QED
      BY <1>1, <1>2, <1>4, <2>3, <2>4, <3>1 DEF Wakes, Link
  <2>8. OneCall' /\ Phases'
    BY <1>1, <1>2, <1>4, <1>6, <2>1, <2>4 DEF OneCall, Phases, Link
  <2> QED
    BY <2>2, <2>7, <2>8 DEF CallInv
<1>8. ASSUME ~enqueued[l], Enqueue(l, delay)
      PROVE  QueueInv' /\ CallInv'
  <2>1. ~Held(l) /\ queue[l] = <<>>
    BY <1>1, <1>4, <1>8 DEF MarkIsTrue, Wakes
  <2>2. delay # window_size
    BY <1>2, WindowAssumption
  <2>3. IInv' /\ MarkIsTrue'
    BY <1>1, <1>8, <2>2, EnqueueKeeps, EnqueueMarks
  <2>4. ~EnqueueLong(l, delay)
    BY <1>2, WindowAssumption DEF EnqueueLong
  <2>5. NothingLost'
    BY <1>1, <1>8, <2>4 DEF Enqueue, EnqueueNow, EnqueueSlot, NothingLost
  <2>6. CASE delay = 0 /\ EnqueueNow(l)
    <3>1. /\ stack' = Append(stack, [event |-> l, nested |-> TRUE])
          /\ UNCHANGED <<window, last_created, long_events, cycle, firing>>
      BY <2>6 DEF EnqueueNow
    <3>2. /\ OneCall'
          /\ \A x \in Event : Running(x)' <=> Running(x) \/ x = l
          /\ \A i \in DOMAIN stack' : stack'[i].event # l =>
               i \in DOMAIN stack /\ stack'[i] = stack[i]
      BY <1>1, <1>4, <3>1, Push
    <3>3. \A x \in Event : (Held(x)' <=> Held(x)) /\ Left(x)' = Left(x)
      BY <3>1, SameLeft DEF Held, InWindow
    <3>4. Phases'
      BY ZenonT(40), <1>1, <1>2, <1>4, <1>6, <2>1, <3>2, <3>3 DEF Phases, Link
    <3>5. Wakes'
      BY <1>1, <1>2, <2>1, <3>2, <3>3 DEF Wakes, Link
    <3> QED
      BY <2>3, <2>5, <3>2, <3>4, <3>5 DEF QueueInv, CallInv
  <2>7. CASE EnqueueSlot(l, delay)
    <3>1. /\ Left(l)' = delay /\ Held(l)'
          /\ \A x \in Event \ {l} : Left(x)' = Left(x) /\ (Held(x)' <=> Held(x))
      BY <1>1, <2>2, <2>3, <2>7, SlotLeft
    <3>2. stack' = stack /\ delay # 0
      BY <2>7 DEF EnqueueSlot
    <3>3. \A x \in Event : Running(x)' <=> Running(x)
      BY <3>2 DEF Running
    <3>4. Left(l)' <= Soon(queue[l])'
      BY <1>2, <1>6, <2>1, <3>1, <3>2 DEF Soon, OneOf
    <3>5. OneCall' /\ Phases'
      BY <1>1, <1>2, <1>4, <1>6, <3>1, <3>2, <3>3 DEF OneCall, Phases, Link
    <3>6. Wakes'
      BY <1>1, <1>2, <3>1, <3>3, <3>4 DEF Wakes, Link
    <3> QED
      BY <2>3, <2>5, <3>5, <3>6 DEF QueueInv, CallInv
  <2> QED
    BY <1>8, <2>4, <2>6, <2>7 DEF Enqueue
<1>9. IF enqueued[l] THEN UNCHANGED queueVars ELSE Enqueue(l, delay)
  BY <1>2 DEF Send
<1> QED
  BY <1>3, <1>7, <1>8, <1>9 DEF LinkInv

(* The other steps of a link's call.                                       *)
LEMMA DeliverKeeps ==
  ASSUME NEW C \in Nat, LinkInv(C), NEW l \in Link, Deliver(l)
  PROVE  LinkInv(C)'
<1>1. /\ IInv /\ MarkIsTrue /\ NothingLost /\ OneCall /\ Phases /\ Wakes /\ Traffic(C)
      /\ TypeOK /\ l \in Event
  BY DEF LinkInv, QueueInv, CallInv, IInv, Link
<1>2. /\ Traffic(C)'
      /\ \A k \in Link \ {l} : queue'[k] = queue[k] /\ phase'[k] = phase[k]
      /\ phase'[l] = "served"
  BY <1>1, DeliverTraffic
<1>3. UNCHANGED queueVars /\ Active(l) /\ phase[l] \in {"begin", "served"}
  BY DEF Deliver
<1>4. UNCHANGED <<window, last_created, long_events, cycle, firing, stack, lost, spent, enqueued>>
  BY <1>3 DEF queueVars
<1>5. QueueInv'
  BY <1>1, <1>3, <1>4, RunKeeps, RunMarks DEF QueueInv, NothingLost
<1>6. \A x \in Event : (Held(x)' <=> Held(x)) /\ Left(x)' = Left(x)
                       /\ (Running(x)' <=> Running(x))
  BY <1>4, SameLeft DEF Held, InWindow, Running
<1>7. Running(l) /\ ~Held(l)
  BY <1>1, <1>3, ActiveRuns DEF Phases
<1>8. OneCall' /\ Phases'
  BY <1>1, <1>2, <1>4, <1>6, <1>7 DEF OneCall, Phases, Link
<1>9. Wakes'
  BY <1>1, <1>2, <1>6, <1>7 DEF Wakes, Link
<1> QED
  BY <1>2, <1>5, <1>8, <1>9 DEF LinkInv, CallInv

LEMMA RequeueKeeps ==
  ASSUME NEW C \in Nat, LinkInv(C), NEW l \in Link, Requeue(l)
  PROVE  LinkInv(C)'
<1>1. /\ IInv /\ MarkIsTrue /\ NothingLost /\ OneCall /\ Phases /\ Wakes /\ Traffic(C)
      /\ TypeOK /\ l \in Event
  BY DEF LinkInv, QueueInv, CallInv, IInv, Link
<1>2. PICK d \in Nat : d = Soon(queue[l]) /\ d >= 1 /\ d < window_size
  <2>1. queue[l] \in Seq(Entry) /\ Granted(queue[l])
    BY <1>1 DEF Traffic, TrafficType, Backlog
  <2> QED
    BY <2>1, SoonIs
<1>3. /\ Active(l) /\ EnqueueSlot(l, d)
      /\ phase' = [phase EXCEPT ![l] = "done"]
      /\ UNCHANGED <<queue, next_send_cycle>>
  BY <1>2 DEF Requeue, Soon
<1>4. d # window_size /\ Enqueue(l, d)
  BY <1>2, <1>3, WindowAssumption DEF Enqueue
<1>5. IInv' /\ MarkIsTrue'
  BY <1>1, <1>4, EnqueueKeeps, EnqueueMarks
<1>6. NothingLost' /\ stack' = stack
  BY <1>1, <1>3 DEF EnqueueSlot, NothingLost
<1>7. /\ Left(l)' = d /\ Held(l)'
      /\ \A x \in Event \ {l} : Left(x)' = Left(x) /\ (Held(x)' <=> Held(x))
  BY <1>1, <1>3, <1>4, <1>5, SlotLeft
<1>8. \A x \in Event : Running(x)' <=> Running(x)
  BY <1>6 DEF Running
<1>9. Running(l)
  BY <1>1, <1>3, ActiveRuns
<1>10. phase \in [Link -> {"begin", "served", "done"}]
  BY <1>1 DEF Traffic, TrafficType
<1>11. phase'[l] = "done" /\ \A k \in Link \ {l} : phase'[k] = phase[k]
  BY <1>3, <1>10
<1>12. Traffic(C)'
  <2>1. phase' \in [Link -> {"begin", "served", "done"}]
    BY <1>3, <1>10
  <2> QED
    BY <1>1, <1>3, <2>1 DEF Traffic, TrafficType, Backlog
<1>13. OneCall' /\ Phases'
  BY <1>1, <1>3, <1>6, <1>7, <1>8, <1>9, <1>11 DEF OneCall, Phases, Link
<1>14. Wakes'
  BY <1>1, <1>2, <1>3, <1>7, <1>8 DEF Wakes, Link
<1> QED
  BY <1>5, <1>6, <1>12, <1>13, <1>14 DEF LinkInv, QueueInv, CallInv

LEMMA ReturnsKeeps ==
  ASSUME NEW C \in Nat, LinkInv(C), NEW l \in Link, TransmitReturns(l)
  PROVE  LinkInv(C)'
<1>1. /\ IInv /\ MarkIsTrue /\ NothingLost /\ OneCall /\ Phases /\ Wakes /\ Traffic(C)
      /\ TypeOK /\ l \in Event
  BY DEF LinkInv, QueueInv, CallInv, IInv, Link
<1>2. /\ Active(l) /\ Return
      /\ phase[l] = "done" \/ (phase[l] = "begin" /\ queue[l] = <<>>)
      /\ phase' = [phase EXCEPT ![l] = "begin"]
      /\ UNCHANGED <<queue, next_send_cycle>>
  BY DEF TransmitReturns
<1>3. Running(l) /\ stack # <<>> /\ stack[Len(stack)].event = l
  BY <1>1, <1>2, ActiveRuns
<1>4. IInv' /\ MarkIsTrue'
  BY <1>1, <1>2, RunKeeps, RunMarks
<1>5. /\ stack' = SubSeq(stack, 1, Len(stack) - 1)
      /\ UNCHANGED <<window, last_created, long_events, cycle, firing, lost>>
  BY <1>2 DEF Return
<1>6. /\ OneCall'
      /\ \A x \in Event : Running(x)' <=> Running(x) /\ x # l
      /\ \A i \in DOMAIN stack' : i \in DOMAIN stack /\ stack'[i] = stack[i]
      /\ Len(stack) \in DOMAIN stack
  BY <1>1, <1>3, <1>5, Pop
<1>7. \A x \in Event : (Held(x)' <=> Held(x)) /\ Left(x)' = Left(x)
  BY <1>5, SameLeft DEF Held, InWindow
<1>8. phase \in [Link -> {"begin", "served", "done"}]
  BY <1>1 DEF Traffic, TrafficType
<1>9. phase'[l] = "begin" /\ \A k \in Link \ {l} : phase'[k] = phase[k]
  BY <1>2, <1>8
<1>10. queue[l] # <<>> => Held(l)
  BY <1>1, <1>2, <1>3 DEF Phases
<1>11. NothingLost'
  <2>1. stack[Len(stack)].nested => Held(l)
    BY <1>1, <1>2, <1>3, <1>6 DEF Phases
  <2>2. spent' = spent
    BY <1>2, <1>3, <2>1 DEF Return
  <2> QED
    BY <1>1, <1>5, <2>2 DEF NothingLost
<1>12. Traffic(C)'
  <2>1. phase' \in [Link -> {"begin", "served", "done"}]
    BY <1>2, <1>8
  <2> QED
    BY <1>1, <1>2, <2>1 DEF Traffic, TrafficType, Backlog
<1>13. Phases'
  <2> SUFFICES ASSUME NEW k \in Link
               PROVE  /\ ~Running(k)' => phase'[k] = "begin"
                      /\ Running(k)' => (Held(k)' <=> phase'[k] = "done")
                      /\ \A i \in DOMAIN stack' :
                           stack'[i].event = k /\ stack'[i].nested /\ phase'[k] = "begin"
                             => queue'[k] # <<>>
    BY DEF Phases
  <2>1. CASE k = l
    <3>1. ~Running(k)'
      BY <1>1, <1>6, <2>1
    <3>2. \A i \in DOMAIN stack' : stack'[i].event # k
      BY <3>1 DEF Running
    <3> QED
      BY <1>9, <2>1, <3>1, <3>2
  <2>2. CASE k # l
    BY <1>1, <1>2, <1>6, <1>7, <1>9, <2>2 DEF Phases, Link
  <2> QED
    BY <2>1, <2>2
<1>14. Wakes'
  BY <1>1, <1>2, <1>6, <1>7, <1>10 DEF Wakes, Link
<1> QED
  BY <1>4, <1>6, <1>11, <1>12, <1>13, <1>14 DEF LinkInv, QueueInv, CallInv

(* A cycle begins: events and grants come closer together.                 *)
LEMMA CycleKeeps ==
  ASSUME NEW C \in Nat, LinkInv(C), NextCycle
  PROVE  LinkInv(C)'
<1>1. /\ IInv /\ MarkIsTrue /\ NothingLost /\ OneCall /\ Phases /\ Wakes /\ Traffic(C)
  BY DEF LinkInv, QueueInv, CallInv
<1>2. AdvanceCycle /\ stack = <<>> /\ stack' = stack /\ phase' = phase
      /\ long_events' \subseteq long_events /\ lost' = lost /\ spent' = spent
  BY DEF NextCycle, AdvanceCycle
<1>3. IInv' /\ MarkIsTrue'
  BY <1>1, <1>2, RunKeeps, RunMarks
<1>4. /\ Traffic(C)'
      /\ \A l \in Link :
           /\ queue'[l] = <<>> <=> queue[l] = <<>>
           /\ Soon(queue'[l]) = IF Soon(queue[l]) = 1 THEN 1 ELSE Soon(queue[l]) - 1
  BY <1>1, CycleTraffic
<1>5. \A x \in Event : /\ Held(x)' <=> Held(x)
                       /\ Left(x)' = IF Left(x) = -1 THEN -1 ELSE Left(x) - 1
  BY <1>1, <1>2, <1>3, AdvanceKeeps, OneCloser
<1>6. \A x \in Event : ~Running(x) /\ ~Running(x)'
  BY <1>2, NoCall DEF Running
<1>7. \A i \in DOMAIN stack : FALSE
  BY <1>2, EmptyElements DEF Elements
<1>8. Wakes'
  <2> SUFFICES ASSUME NEW l \in Link
               PROVE  /\ Held(l)' => Left(l)' <= Soon(queue'[l])
                      /\ queue'[l] # <<>> => Held(l)'
    BY DEF Wakes
  <2>1. /\ Soon(queue[l]) \in Nat /\ Soon(queue[l]) >= 1
        /\ Left(l) \in Nat \union {-1} /\ (Left(l) = -1 <=> ~Held(l))
    <3>1. queue[l] \in Seq(Entry) /\ Granted(queue[l])
      BY <1>1 DEF Traffic, TrafficType, Backlog
    <3> QED
      BY <1>1, <3>1, SoonIs, LeftRange DEF Link
  <2>2. /\ Held(l) => Left(l) <= Soon(queue[l])
        /\ queue[l] # <<>> => Held(l)
    BY <1>1, <1>6 DEF Wakes, Link
  <2>3. /\ Held(l)' <=> Held(l)
        /\ Left(l)' = IF Left(l) = -1 THEN -1 ELSE Left(l) - 1
        /\ queue'[l] = <<>> <=> queue[l] = <<>>
        /\ Soon(queue'[l]) = IF Soon(queue[l]) = 1 THEN 1 ELSE Soon(queue[l]) - 1
    BY <1>4, <1>5 DEF Link
  <2> QED
    BY <2>1, <2>2, <2>3
<1>9. OneCall' /\ Phases'
  BY <1>1, <1>2, <1>6, <1>7 DEF OneCall, Phases, Link
<1>10. NothingLost'
  BY <1>1, <1>2 DEF NothingLost
<1> QED
  BY <1>3, <1>4, <1>8, <1>9, <1>10 DEF LinkInv, QueueInv, CallInv

(* An event that is due runs: its link's call begins.                      *)
LEMMA FireKeeps ==
  ASSUME NEW C \in Nat, LinkInv(C), RunQueue
  PROVE  LinkInv(C)'
<1>1. /\ IInv /\ MarkIsTrue /\ NothingLost /\ OneCall /\ Phases /\ Wakes /\ Traffic(C)
      /\ TypeOK
  BY DEF LinkInv, QueueInv, CallInv, IInv
<1>2. /\ FireNext \/ EndOfList
      /\ UNCHANGED <<queue, next_send_cycle, phase>>
  BY DEF RunQueue, linkVars
<1>3. IInv' /\ MarkIsTrue' /\ NothingLost'
  BY <1>1, <1>2, RunKeeps, RunMarks DEF NothingLost, FireNext, EndOfList
<1>4. Traffic(C)'
  BY <1>1, <1>2 DEF Traffic, TrafficType, Backlog
<1>5. stack = <<>> /\ \A x \in Event : ~Running(x)
  BY <1>2, NoCall DEF FireNext, EndOfList
<1>6. CASE FireNext
  <2>1. PICK h \in Event :
          /\ h = Head(firing) /\ ~Held(h)'
          /\ \A x \in Event \ {h} : Left(x)' = Left(x) /\ (Held(x)' <=> Held(x))
    BY <1>1, <1>3, <1>6, FireLeft
  <2>2. stack' = Append(stack, [event |-> h, nested |-> FALSE])
    BY <1>5, <1>6, <2>1 DEF FireNext
  <2>3. /\ OneCall'
        /\ \A x \in Event : Running(x)' <=> x = h
        /\ \A i \in DOMAIN stack' : stack'[i].event # h => i \in DOMAIN stack
    BY <1>1, <1>5, <2>2, Push
  <2>4. \A i \in DOMAIN stack' : ~stack'[i].nested
    <3>1. stack' = <<[event |-> h, nested |-> FALSE]>>
      BY <1>6, <2>1 DEF FireNext
    <3> QED
      BY <3>1
  <2>5. Phases'
    BY <1>1, <1>2, <1>5, <2>1, <2>3, <2>4 DEF Phases, Link
  <2>6. Wakes'
    BY <1>1, <1>2, <1>5, <2>1, <2>3 DEF Wakes, Link
  <2> QED
    BY <1>3, <1>4, <2>3, <2>5, <2>6 DEF LinkInv, QueueInv, CallInv
<1>7. CASE EndOfList
  <2>1. UNCHANGED <<window, last_created, long_events, cycle, firing, stack>>
    BY <1>1, <1>7 DEF EndOfList, IInv, TypeOK, Reach
  <2>2. \A x \in Event : (Held(x)' <=> Held(x)) /\ Left(x)' = Left(x)
                         /\ (Running(x)' <=> Running(x))
    BY <2>1, SameLeft DEF Held, InWindow, Running
  <2>3. OneCall' /\ Phases' /\ Wakes'
    BY <1>1, <1>2, <2>1, <2>2 DEF OneCall, Phases, Wakes, Link
  <2> QED
    BY <1>3, <1>4, <2>3 DEF LinkInv, QueueInv, CallInv
<1> QED
  BY <1>2, <1>6, <1>7

LEMMA LinkStep ==
  ASSUME NEW C \in Nat, InReach(C), LinkInv(C), [LinkNext]_vars
  PROVE  LinkInv(C)'
<1>1. CASE UNCHANGED vars
  BY <1>1 DEF vars, queueVars, linkVars, LinkInv, QueueInv, CallInv, IInv, TypeOK,
       OnePlace, Reach, MarkIsTrue, Held, InWindow, NothingLost, OneCall, Phases,
       Wakes, Left, Distance, Running, Traffic, TrafficType, Backlog
<1> QED
  BY <1>1, SendKeeps, DeliverKeeps, RequeueKeeps, ReturnsKeeps, CycleKeeps, FireKeeps
  DEF LinkNext

LEMMA LinkAlways ==
  ASSUME NEW C \in Nat, InReach(C)
  PROVE  LinkSpec => []LinkInv(C)
<1>1. LinkInit => LinkInv(C)
  BY InitLink
<1>2. LinkInv(C) /\ [LinkNext]_vars => LinkInv(C)'
  BY LinkStep
<1> QED
  BY <1>1, <1>2, PTL DEF LinkSpec

(* The variables of the links and of their queue keep their types.         *)
THEOREM LinkTypeCorrect ==
  ASSUME NEW C \in Nat, InReach(C)
  PROVE  LinkSpec => []LinkTypeOK
<1>1. LinkInv(C) => LinkTypeOK
  BY DEF LinkInv, QueueInv, IInv, Traffic, TrafficType, LinkTypeOK
<1> QED
  BY <1>1, LinkAlways, PTL

(* What send() reads of its event is the whole truth on links: the queue   *)
(* holds what is marked, since nothing is refused and no event runs within *)
(* its own enqueue() without enqueuing itself again.                       *)
THEOREM LinksMarked ==
  ASSUME NEW C \in Nat, InReach(C)
  PROVE  LinkSpec => [](MarkIsTrue /\ \A l \in Link : enqueued[l] => Held(l))
<1>1. LinkInv(C) => MarkIsTrue /\ \A l \in Link : enqueued[l] => Held(l)
  BY DEF LinkInv, QueueInv, NothingLost, MarkIsTrue, Link
<1> QED
  BY <1>1, LinkAlways, PTL

(* Between cycles a link with messages is due in time for the first.       *)
THEOREM LinksWake ==
  ASSUME NEW C \in Nat, InReach(C)
  PROVE  LinkSpec => []WakesInTime
<1>1. LinkInv(C) => WakesInTime
  <2> SUFFICES ASSUME LinkInv(C), ~advancing, stack = <<>>,
                      NEW l \in Link, queue[l] # <<>>
               PROVE  Left(l) > 0 /\ Left(l) <= OneOf(Head(queue[l]).grant, delta_cycles)
    BY DEF WakesInTime
  <2>1. IInv /\ Wakes /\ l \in Event
    BY DEF LinkInv, QueueInv, CallInv, Link
  <2>2. Held(l) /\ Left(l) <= Soon(queue[l])
    BY <2>1, NoCall DEF Wakes
  <2>3. Left(l) \in Nat /\ Left(l) # 0
    BY <2>1, <2>2, LeftRange, EmptyElements DEF IInv, Reach
  <2> QED
    BY <2>2, <2>3 DEF Soon
<1> QED
  BY <1>1, LinkAlways, PTL
=============================================================================
