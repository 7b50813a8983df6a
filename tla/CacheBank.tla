------------------------------ MODULE CacheBank ------------------------------
(***************************************************************************)
(* One bank of a cache (mem-hier/cache_bank.cc): a request queue, a replay *)
(* queue with absolute priority over it, and a wait list of stalled        *)
(* messages that the cache wakes by set or all at once.  The bank serves   *)
(* one message every CyclesPerRequest cycles, driven by one event object   *)
(* (next_request_event) that must be scheduled exactly when there is work. *)
(*                                                                         *)
(* The cache behind the bank is the environment: process_message() may     *)
(* answer any stall status, and when it completes a message it may wake    *)
(* the message's set or every waiter.  It may also wake the bank from      *)
(* outside, while handling a message that does not go through the bank.    *)
(*                                                                         *)
(* Time is relative: busy is request_next minus the current cycle (0 when  *)
(* the bank is free) and event is the number of cycles before              *)
(* next_request_event fires, or NoEvent.                                   *)
(***************************************************************************)
EXTENDS Integers, Sequences, FiniteSets, Functions, Subseq

CONSTANTS
  Messages,         \* messages that may arrive, each at most once
  Sets,             \* indices of the cache (cache_t::get_index)
  SetOf,            \* the index of each message's address
  QueueSize,        \* capacity of each of the three queues; 0 is infinite
  CyclesPerRequest  \* inverse bandwidth of the bank

ASSUME BankAssumption ==
  /\ SetOf \in [Messages -> Sets]
  /\ QueueSize \in Nat
  /\ CyclesPerRequest \in Nat \ {0}

VARIABLES
  request,   \* messages that were never served, in arrival order
  replay,    \* messages to serve again, before any of request
  waiting,   \* messages stalled until a wakeup
  busy,      \* cycles until the bank may serve again
  event,     \* cycles until next_request_event fires, or NoEvent
  served,    \* messages the cache completed (and the bank deleted)
  failed,    \* which ASSERT or FAIL aborted the program, or "no"
  owed       \* history: waiters whose wakeup found the replay queue full

queues == <<request, replay, waiting>>
vars == <<request, replay, waiting, busy, event, served, failed, owed>>

NoEvent == -1

Status == {"StallNone", "StallSetEvent", "StallOtherEvent", "StallPoll"}
Failure == {"no", "event", "bank busy", "queues full", "wait list full"}

Queued == Range(request) \union Range(replay) \union Range(waiting)

Full(q) == QueueSize > 0 /\ Len(q) >= QueueSize

Init ==
  /\ request = <<>> /\ replay = <<>> /\ waiting = <<>>
  /\ busy = 0
  /\ event = NoEvent
  /\ served = {}
  /\ failed = "no"
  /\ owed = {}

-----------------------------------------------------------------------------
(* wakeup(): every waiter of a woken set goes to the back of the replay     *)
(* queue in wait-list order, as long as the replay queue has room.          *)

(* The waiters of wt whose set is in S, as positions. *)
Matching(wt, S) == {i \in 1 .. Len(wt) : SetOf[wt[i]] \in S}

(* Those of them that fit in a replay queue holding n messages. *)
Moved(wt, S, n) ==
  {i \in Matching(wt, S) :
     QueueSize = 0 \/ n + Rank(Matching(wt, S), i) <= QueueSize}

(* The waiters that a wakeup of S leaves behind for want of room. *)
LeftBehind(wt, S, n) ==
  {wt[i] : i \in Matching(wt, S) \ Moved(wt, S, n)}

(* Mutant of WakeDelay: the next cycle, whether or not the bank is busy.    *)
WakeDelayNextCycle == 1

(* The delay wakeup() gives the event when the bank had no work. *)
WakeDelay == IF busy = 0 THEN 1 ELSE busy

(* The cache wakes the waiters of the sets S while the bank is idle or      *)
(* between two services: a wakeup_set or a wakeup_all from the outside.     *)
Wakeup(S) ==
  LET moved == Moved(waiting, S, Len(replay))
      only  == request = <<>> /\ replay = <<>>
  IN  /\ failed = "no"
      /\ Matching(waiting, S) # {}
      /\ replay' = replay \o Pick(waiting, moved)
      /\ waiting' = Drop(waiting, moved)
      /\ owed' = (owed \ Range(Pick(waiting, moved)))
                   \union LeftBehind(waiting, S, Len(replay))
      /\ event' = IF only THEN WakeDelay ELSE event
      /\ failed' = IF only /\ event # NoEvent THEN "event" ELSE "no"
      /\ UNCHANGED <<request, busy, served>>

-----------------------------------------------------------------------------
(* process_message(): the service of one message.                           *)

(* What the cache may wake while it completes message m. *)
WakeChoices(m) == {{}, {SetOf[m]}, Sets}

(* Mutants of Reschedule: an off-by-one in the bandwidth; work in the       *)
(* replay queue forgotten.                                                  *)
RescheduleLate ==
  /\ busy' = CyclesPerRequest + 1
  /\ event' = IF request' = <<>> /\ replay' = <<>>
              THEN NoEvent ELSE CyclesPerRequest + 1

RescheduleRequests ==
  /\ busy' = CyclesPerRequest
  /\ event' = IF request' = <<>> THEN NoEvent ELSE CyclesPerRequest

(* The end of every service: the next one is CyclesPerRequest away if there *)
(* is work left, and the bank is occupied until then.                       *)
Reschedule ==
  /\ busy' = CyclesPerRequest
  /\ event' = IF request' = <<>> /\ replay' = <<>>
              THEN NoEvent ELSE CyclesPerRequest

(* Serve the head m of the request queue rq; the replay queue is empty.     *)
ServeRequest(rq) ==
  LET m == Head(rq) IN
  /\ \E status \in Status :
       \/ /\ status = "StallNone"
          /\ request' = Tail(rq)
          /\ served' = served \union {m}
          /\ \E S \in WakeChoices(m) :
               LET moved == Moved(waiting, S, 0) IN
               /\ replay' = Pick(waiting, moved)
               /\ waiting' = Drop(waiting, moved)
               /\ owed' = (owed \ Range(Pick(waiting, moved)))
                            \union LeftBehind(waiting, S, 0)
          /\ failed' = "no"
       \/ /\ status \in {"StallSetEvent", "StallOtherEvent"}
          /\ ~Full(waiting)
          /\ request' = Tail(rq)
          /\ waiting' = Append(waiting, m)
          /\ failed' = "no"
          /\ UNCHANGED <<replay, served, owed>>
       \/ /\ status = "StallPoll"
          /\ request' = Tail(rq)
          /\ replay' = <<m>>
          /\ failed' = "no"
          /\ UNCHANGED <<waiting, served, owed>>
       \/ /\ status \in {"StallSetEvent", "StallOtherEvent"}
          /\ Full(waiting)
          /\ failed' = "queues full"
          /\ request' = rq
          /\ UNCHANGED <<replay, waiting, served, owed>>
  /\ Reschedule

(* Mutant of Refill: the wait list keeps what it had before the service.    *)
RefillStale(rp, wt, ow) ==
  LET moved == IF Full(replay) THEN Moved(wt, Sets, Len(rp)) ELSE {} IN
  /\ replay' = rp \o Pick(wt, moved)
  /\ waiting' = waiting
  /\ owed' = ow \ Range(Pick(wt, moved))

(* wakeup_all() at the end of a service that began with a full replay queue *)
(* (need_wakeup), on the queues rp and wt the service left; ow is owed.     *)
Refill(rp, wt, ow) ==
  LET moved == IF Full(replay) THEN Moved(wt, Sets, Len(rp)) ELSE {} IN
  /\ replay' = rp \o Pick(wt, moved)
  /\ waiting' = Drop(wt, moved)
  /\ owed' = ow \ Range(Pick(wt, moved))

(* Serve the head of the replay queue.  A wakeup during the service finds   *)
(* the message still at its head.                                           *)
ServeReplay ==
  LET m == Head(replay) IN
  /\ \E status \in Status :
       \/ /\ status = "StallNone"
          /\ served' = served \union {m}
          /\ \E S \in WakeChoices(m) :
               LET moved == Moved(waiting, S, Len(replay)) IN
               Refill(Tail(replay) \o Pick(waiting, moved),
                      Drop(waiting, moved),
                      (owed \ Range(Pick(waiting, moved)))
                        \union LeftBehind(waiting, S, Len(replay)))
          /\ failed' = "no"
       \/ /\ status \in {"StallSetEvent", "StallOtherEvent"}
          /\ ~Full(waiting)
          /\ Refill(Tail(replay), Append(waiting, m), owed)
          /\ failed' = "no"
          /\ UNCHANGED served
       \/ /\ status = "StallPoll"
          /\ replay' = Append(Tail(replay), m)
          /\ failed' = "no"
          /\ UNCHANGED <<waiting, served, owed>>
       \/ /\ status \in {"StallSetEvent", "StallOtherEvent"}
          /\ Full(waiting)
          /\ failed' = "wait list full"
          /\ UNCHANGED <<replay, waiting, served, owed>>
  /\ UNCHANGED request
  /\ Reschedule

-----------------------------------------------------------------------------
(* message_arrival(): a full request queue refuses the message (the link    *)
(* keeps it and asks again); a message that finds the bank without work is  *)
(* served on the spot if the bank is free, else it schedules the event.     *)
Arrive(m) ==
  LET only == request = <<>> /\ replay = <<>> IN
  /\ failed = "no"
  /\ m \notin Queued \union served
  /\ ~Full(request)
  /\ \/ /\ ~only
        /\ request' = Append(request, m)
        /\ UNCHANGED <<replay, waiting, busy, event, served, failed, owed>>
     \/ /\ only /\ busy > 0
        /\ request' = Append(request, m)
        /\ event' = busy
        /\ failed' = IF event # NoEvent THEN "event" ELSE "no"
        /\ UNCHANGED <<replay, waiting, busy, served, owed>>
     \/ /\ only /\ busy = 0 /\ event = NoEvent
        /\ ServeRequest(Append(request, m))
     \/ /\ only /\ busy = 0 /\ event # NoEvent
        /\ failed' = "event"
        /\ UNCHANGED <<queues, busy, event, served, owed>>

(* next_request_event fires: one service.  The queues cannot both be empty  *)
(* and the bank must be free, or the program aborts.                        *)
Fire ==
  /\ failed = "no"
  /\ event = 0
  /\ \/ /\ busy = 0 /\ replay # <<>>
        /\ ServeReplay
     \/ /\ busy = 0 /\ replay = <<>> /\ request # <<>>
        /\ ServeRequest(request)
     \/ /\ busy > 0 \/ (replay = <<>> /\ request = <<>>)
        /\ failed' = "bank busy"
        /\ UNCHANGED <<queues, busy, event, served, owed>>

(* A cycle passes; an event that is due fires before the clock moves on.    *)
Tick ==
  /\ failed = "no"
  /\ event # 0
  /\ busy > 0 \/ event > 0
  /\ busy' = IF busy > 0 THEN busy - 1 ELSE 0
  /\ event' = IF event > 0 THEN event - 1 ELSE NoEvent
  /\ UNCHANGED <<queues, served, failed, owed>>

Next ==
  \/ \E m \in Messages : Arrive(m)
  \/ \E s \in Sets : Wakeup({s})
  \/ Wakeup(Sets)
  \/ Fire
  \/ Tick

Spec == Init /\ [][Next]_vars

(***************************************************************************)
(* Fairness.  The event queue runs every event that is due and the clock   *)
(* advances.  The cache is fair to a message: one that is served again and *)
(* again is not stalled for ever, and a set with waiters is woken (every   *)
(* transient state that stalls a message ends with a message of that set). *)
(***************************************************************************)
FairSpec ==
  /\ Spec
  /\ WF_vars(Tick)
  /\ WF_vars(Fire)
  /\ \A m \in Messages : WF_vars(Arrive(m))
  /\ \A s \in Sets : SF_vars(Wakeup({s}))
  /\ \A m \in Messages : SF_vars((Fire \/ Arrive(m)) /\ m \in served')

-----------------------------------------------------------------------------
TypeOK ==
  /\ request \in Seq(Messages)
  /\ replay \in Seq(Messages)
  /\ waiting \in Seq(Messages)
  /\ busy \in 0 .. CyclesPerRequest
  /\ event \in {NoEvent} \union (0 .. CyclesPerRequest)
  /\ served \in SUBSET Messages
  /\ failed \in Failure
  /\ owed \in SUBSET Messages

(* No lost event and no double one: the event is scheduled exactly while    *)
(* the request or the replay queue holds a message, and never fires before  *)
(* the bank is free.  A missed schedule would leave the bank asleep over a  *)
(* full queue; a second one trips the ASSERTs of cache_bank.cc.             *)
EventIffWork ==
  failed = "no" =>
    /\ event # NoEvent <=> (request # <<>> \/ replay # <<>>)
    /\ event # NoEvent => busy <= event

(* None of the bank's scheduling ASSERTs can fail, and with infinite queues *)
(* none of its capacity ASSERTs either: "the event is not enqueued",        *)
(* "request_next <= now", "some queue is not empty".                        *)
NoSchedulingAssert == failed \notin {"event", "bank busy"}
NoAssert == NoSchedulingAssert /\ (QueueSize = 0 => failed = "no")

(* Message conservation: a message is never duplicated by a wakeup racing   *)
(* its own service, never both completed (and deleted) and still queued,    *)
(* whatever mix of stalls, polls and wakeups it goes through.               *)
NoDuplicate ==
  /\ IsInjective(request) /\ IsInjective(replay) /\ IsInjective(waiting)
  /\ Range(request) \intersect (Range(replay) \union Range(waiting)) = {}
  /\ Range(replay) \intersect Range(waiting) = {}
  /\ Queued \intersect served = {}

(* And never dropped: a message the bank accepted stays in one of its lists *)
(* until the cache completes it.                                            *)
NoLoss == [][Queued \subseteq (Queued' \union served')]_vars

(* The bank does not starve a message: with a fair cache every message that *)
(* arrives is completed.                                                    *)
EveryMessageServed ==
  \A m \in Messages : (m \in Queued) ~> (m \in served)

(* cache_bank.cc of a wakeup that finds the replay queue full: "else    *)
(* replay queue will wakup again when it becomes non-full".  So no waiter   *)
(* owed a wakeup is left on the wait list while the replay queue has room.  *)
OwedWakeupIsRepaid ==
  failed = "no" /\ ~Full(replay) => owed = {}
=============================================================================
