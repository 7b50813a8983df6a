--------------------------- MODULE CacheBankProofs --------------------------
(***************************************************************************)
(* The bank's invariants for any set of messages, any queue size and any   *)
(* bandwidth.  TypeOK is inductive; each other invariant is inductive      *)
(* relative to it.  A service can end in many ways, so what it does to the *)
(* three lists is stated once (ServeRequestEffect, ServeReplayEffect) and  *)
(* used by every invariant.                                                *)
(***************************************************************************)
EXTENDS CacheBank, SubseqProofs

(* The waiters that a wakeup moves are positions of the wait list.          *)
LEMMA MovedPositions ==
  ASSUME NEW wt, NEW S, NEW n
  PROVE  /\ Moved(wt, S, n) \in SUBSET (1 .. Len(wt))
         /\ Moved(wt, S, n) \subseteq Matching(wt, S)
BY DEF Moved, Matching

(* What a wakeup does to the wait list wt: a part of it is moved, the rest  *)
(* stays, nothing is lost or doubled.                                       *)
LEMMA WakeupSplits ==
  ASSUME NEW wt \in Seq(Messages), NEW K \in SUBSET (1 .. Len(wt))
  PROVE  /\ Pick(wt, K) \in Seq(Messages)
         /\ Drop(wt, K) \in Seq(Messages)
         /\ Range(wt) = Range(Pick(wt, K)) \union Range(Drop(wt, K))
         /\ IsInjective(wt) =>
              /\ IsInjective(Pick(wt, K)) /\ IsInjective(Drop(wt, K))
              /\ Range(Pick(wt, K)) \intersect Range(Drop(wt, K)) = {}
BY PickProperties, DropProperties, PickInjective, DropInjective

(* The waiters left behind are messages.                                    *)
LEMMA LeftBehindType ==
  ASSUME NEW wt \in Seq(Messages), NEW S, NEW n
  PROVE  LeftBehind(wt, S, n) \subseteq Messages
BY ElementOfSeq DEF LeftBehind, Matching

(* A sequence of messages holds messages.                                   *)
LEMMA RangeType ==
  ASSUME NEW s \in Seq(Messages)
  PROVE  Range(s) \subseteq Messages
BY RangeOfSeq

-----------------------------------------------------------------------------
(* The three lists, the completed messages and their partition.             *)

(* What NoDuplicate says, of given lists.                                   *)
Apart(rq, rp, wt, done) ==
  /\ IsInjective(rq) /\ IsInjective(rp) /\ IsInjective(wt)
  /\ Range(rq) \intersect (Range(rp) \union Range(wt)) = {}
  /\ Range(rp) \intersect Range(wt) = {}
  /\ (Range(rq) \union Range(rp) \union Range(wt)) \intersect done = {}

All(rq, rp, wt, done) == Range(rq) \union Range(rp) \union Range(wt) \union done

Typed(rq, rp, wt, done) ==
  /\ rq \in Seq(Messages) /\ rp \in Seq(Messages) /\ wt \in Seq(Messages)
  /\ done \in SUBSET Messages

(* The four lists next1 hold the messages of the four lists before, each    *)
(* still in one place.                                                      *)
Conserves(rq, rp, wt, done, rq1, rp1, wt1, done1) ==
  /\ Typed(rq1, rp1, wt1, done1)
  /\ All(rq, rp, wt, done) = All(rq1, rp1, wt1, done1)
  /\ Apart(rq, rp, wt, done) => Apart(rq1, rp1, wt1, done1)

(* A wakeup moves messages from the wait list to the replay queue.          *)
LEMMA WakeupConserves ==
  ASSUME NEW rq, NEW rp, NEW wt, NEW done, Typed(rq, rp, wt, done),
         NEW K \in SUBSET (1 .. Len(wt))
  PROVE  Conserves(rq, rp, wt, done, rq, rp \o Pick(wt, K), Drop(wt, K), done)
<1> DEFINE pk == Pick(wt, K)
           dr == Drop(wt, K)
<1>1. /\ pk \in Seq(Messages) /\ dr \in Seq(Messages)
      /\ Range(wt) = Range(pk) \union Range(dr)
      /\ IsInjective(wt) => /\ IsInjective(pk) /\ IsInjective(dr)
                            /\ Range(pk) \intersect Range(dr) = {}
  BY WakeupSplits DEF Typed
<1> HIDE DEF pk, dr
<1>2. rp \in Seq(Messages)
  BY DEF Typed
<1>3. /\ rp \o pk \in Seq(Messages)
      /\ Range(rp \o pk) = Range(rp) \union Range(pk)
      /\ IsInjective(rp) /\ IsInjective(pk) /\ Range(rp) \intersect Range(pk) = {}
           => IsInjective(rp \o pk)
  BY <1>1, <1>2, ConcatRange
<1>4. Typed(rq, rp \o pk, dr, done)
  BY <1>1, <1>3 DEF Typed
<1>5. All(rq, rp, wt, done) = All(rq, rp \o pk, dr, done)
  BY <1>1, <1>3 DEF All
<1>6. ASSUME Apart(rq, rp, wt, done)
      PROVE  Apart(rq, rp \o pk, dr, done)
  <2>1. IsInjective(rp \o pk) /\ IsInjective(rq) /\ IsInjective(dr)
    BY <1>1, <1>3, <1>6 DEF Apart
  <2>2. /\ Range(rq) \intersect (Range(rp \o pk) \union Range(dr)) = {}
        /\ Range(rp \o pk) \intersect Range(dr) = {}
    BY <1>1, <1>3, <1>6 DEF Apart
  <2>3. (Range(rq) \union Range(rp \o pk) \union Range(dr)) \intersect done = {}
    BY <1>1, <1>3, <1>6 DEF Apart
  <2> QED
    BY <2>1, <2>2, <2>3 DEF Apart
<1> QED
  BY <1>4, <1>5, <1>6 DEF Conserves, pk, dr

(* Two conserving steps in a row conserve.                                  *)
LEMMA ConservesTransitive ==
  ASSUME NEW a, NEW b, NEW c, NEW d, NEW a1, NEW b1, NEW c1, NEW d1,
         NEW a2, NEW b2, NEW c2, NEW d2,
         Conserves(a, b, c, d, a1, b1, c1, d1),
         Conserves(a1, b1, c1, d1, a2, b2, c2, d2)
  PROVE  Conserves(a, b, c, d, a2, b2, c2, d2)
BY DEF Conserves

(* The three ends of the service of the request queue's head: completed,    *)
(* put on the wait list, put on the replay queue.                           *)
LEMMA RequestHeadMoves ==
  ASSUME NEW rq, NEW rp, NEW wt, NEW done, Typed(rq, rp, wt, done), rq # <<>>
  PROVE  /\ Conserves(rq, rp, wt, done,
                      Tail(rq), rp, wt, done \union {Head(rq)})
         /\ Conserves(rq, rp, wt, done,
                      Tail(rq), rp, Append(wt, Head(rq)), done)
         /\ Conserves(rq, rp, wt, done,
                      Tail(rq), Append(rp, Head(rq)), wt, done)
<1> DEFINE m == Head(rq)
           tl == Tail(rq)
<1>1. /\ m \in Messages /\ tl \in Seq(Messages)
      /\ Range(rq) = Range(tl) \union {m}
      /\ IsInjective(rq) => IsInjective(tl) /\ m \notin Range(tl)
  BY TailRange DEF Typed
<1> HIDE DEF m, tl
<1>2. /\ Append(wt, m) \in Seq(Messages)
      /\ Range(Append(wt, m)) = Range(wt) \union {m}
      /\ IsInjective(wt) /\ m \notin Range(wt) => IsInjective(Append(wt, m))
  BY <1>1, AppendRange DEF Typed
<1>3. /\ Append(rp, m) \in Seq(Messages)
      /\ Range(Append(rp, m)) = Range(rp) \union {m}
      /\ IsInjective(rp) /\ m \notin Range(rp) => IsInjective(Append(rp, m))
  BY <1>1, AppendRange DEF Typed
<1>4. Conserves(rq, rp, wt, done, tl, rp, wt, done \union {m})
  <2>1. Typed(tl, rp, wt, done \union {m})
    BY <1>1 DEF Typed
  <2>2. All(rq, rp, wt, done) = All(tl, rp, wt, done \union {m})
    BY <1>1 DEF All
  <2>3. Apart(rq, rp, wt, done) => Apart(tl, rp, wt, done \union {m})
    BY <1>1 DEF Apart
  <2> QED
    BY <2>1, <2>2, <2>3 DEF Conserves
<1>5. Conserves(rq, rp, wt, done, tl, rp, Append(wt, m), done)
  <2>1. Typed(tl, rp, Append(wt, m), done)
    BY <1>1, <1>2 DEF Typed
  <2>2. All(rq, rp, wt, done) = All(tl, rp, Append(wt, m), done)
    BY <1>1, <1>2 DEF All
  <2>3. Apart(rq, rp, wt, done) => Apart(tl, rp, Append(wt, m), done)
    BY <1>1, <1>2 DEF Apart
  <2> QED
    BY <2>1, <2>2, <2>3 DEF Conserves
<1>6. Conserves(rq, rp, wt, done, tl, Append(rp, m), wt, done)
  <2>1. Typed(tl, Append(rp, m), wt, done)
    BY <1>1, <1>3 DEF Typed
  <2>2. All(rq, rp, wt, done) = All(tl, Append(rp, m), wt, done)
    BY <1>1, <1>3 DEF All
  <2>3. Apart(rq, rp, wt, done) => Apart(tl, Append(rp, m), wt, done)
    BY <1>1, <1>3 DEF Apart
  <2> QED
    BY <2>1, <2>2, <2>3 DEF Conserves
<1> QED
  BY <1>4, <1>5, <1>6 DEF m, tl

(* And of the replay queue's head.                                          *)
LEMMA ReplayHeadMoves ==
  ASSUME NEW rq, NEW rp, NEW wt, NEW done, Typed(rq, rp, wt, done), rp # <<>>
  PROVE  /\ Conserves(rq, rp, wt, done,
                      rq, Tail(rp), wt, done \union {Head(rp)})
         /\ Conserves(rq, rp, wt, done,
                      rq, Tail(rp), Append(wt, Head(rp)), done)
         /\ Conserves(rq, rp, wt, done,
                      rq, Append(Tail(rp), Head(rp)), wt, done)
<1> DEFINE m == Head(rp)
           tl == Tail(rp)
<1>1. /\ m \in Messages /\ tl \in Seq(Messages)
      /\ Range(rp) = Range(tl) \union {m}
      /\ IsInjective(rp) => IsInjective(tl) /\ m \notin Range(tl)
  BY TailRange DEF Typed
<1> HIDE DEF m, tl
<1>2. /\ Append(wt, m) \in Seq(Messages)
      /\ Range(Append(wt, m)) = Range(wt) \union {m}
      /\ IsInjective(wt) /\ m \notin Range(wt) => IsInjective(Append(wt, m))
  BY <1>1, AppendRange DEF Typed
<1>3. /\ Append(tl, m) \in Seq(Messages)
      /\ Range(Append(tl, m)) = Range(tl) \union {m}
      /\ IsInjective(tl) /\ m \notin Range(tl) => IsInjective(Append(tl, m))
  BY <1>1, AppendRange
<1>4. Conserves(rq, rp, wt, done, rq, tl, wt, done \union {m})
  <2>1. Typed(rq, tl, wt, done \union {m})
    BY <1>1 DEF Typed
  <2>2. All(rq, rp, wt, done) = All(rq, tl, wt, done \union {m})
    BY <1>1 DEF All
  <2>3. Apart(rq, rp, wt, done) => Apart(rq, tl, wt, done \union {m})
    BY <1>1 DEF Apart
  <2> QED
    BY <2>1, <2>2, <2>3 DEF Conserves
<1>5. Conserves(rq, rp, wt, done, rq, tl, Append(wt, m), done)
  <2>1. Typed(rq, tl, Append(wt, m), done)
    BY <1>1, <1>2 DEF Typed
  <2>2. All(rq, rp, wt, done) = All(rq, tl, Append(wt, m), done)
    BY <1>1, <1>2 DEF All
  <2>3. Apart(rq, rp, wt, done) => Apart(rq, tl, Append(wt, m), done)
    BY <1>1, <1>2 DEF Apart
  <2> QED
    BY <2>1, <2>2, <2>3 DEF Conserves
<1>6. Conserves(rq, rp, wt, done, rq, Append(tl, m), wt, done)
  <2>1. Typed(rq, Append(tl, m), wt, done)
    BY <1>1, <1>3 DEF Typed
  <2>2. All(rq, rp, wt, done) = All(rq, Append(tl, m), wt, done)
    BY <1>1, <1>3 DEF All
  <2>3. Apart(rq, rp, wt, done) => Apart(rq, Append(tl, m), wt, done)
    BY <1>1, <1>3 DEF Apart
  <2> QED
    BY <2>1, <2>2, <2>3 DEF Conserves
<1> QED
  BY <1>4, <1>5, <1>6 DEF m, tl

-----------------------------------------------------------------------------
(* What one service does, whatever the cache answers: the messages of the   *)
(* lists, with rq as the request queue it starts from, are conserved, and   *)
(* only a bounded queue can make it fail.                                   *)
Outcome(rq) ==
  /\ Conserves(rq, replay, waiting, served, request', replay', waiting', served')
  /\ owed' \in SUBSET Messages
  /\ failed' \in {"no", "queues full", "wait list full"}
  /\ QueueSize = 0 => failed' = "no"

(* Only a queue of bounded capacity is ever full.                           *)
LEMMA FullIsBounded ==
  ASSUME NEW q, Full(q)
  PROVE  QueueSize # 0
<1>1. QueueSize > 0
  BY DEF Full
<1>2. QueueSize \in Nat
  BY BankAssumption
<1> QED
  BY <1>1, <1>2

(* process_message() on the head of the request queue rq.                   *)
LEMMA ServeRequestOutcome ==
  ASSUME TypeOK, NEW rq \in Seq(Messages), rq # <<>>, replay = <<>>,
         ServeRequest(rq)
  PROVE  Outcome(rq)
<1> DEFINE m == Head(rq)
<1>1. /\ Typed(rq, replay, waiting, served)
      /\ Conserves(rq, replay, waiting, served,
                   Tail(rq), replay, waiting, served \union {m})
      /\ Conserves(rq, replay, waiting, served,
                   Tail(rq), replay, Append(waiting, m), served)
      /\ Conserves(rq, replay, waiting, served,
                   Tail(rq), Append(replay, m), waiting, served)
  BY RequestHeadMoves DEF TypeOK, Typed
<1>2. Conserves(rq, replay, waiting, served, rq, replay, waiting, served)
  BY <1>1 DEF Conserves
<1>3. waiting \in Seq(Messages) /\ owed \in SUBSET Messages
  BY DEF TypeOK
<1>4. PICK status \in Status :
        \/ /\ status = "StallNone"
           /\ request' = Tail(rq)
           /\ served' = served \union {m}
           /\ \E S \in WakeChoices(m) :
                /\ replay' = Pick(waiting, Moved(waiting, S, 0))
                /\ waiting' = Drop(waiting, Moved(waiting, S, 0))
                /\ owed' = (owed \ Range(Pick(waiting, Moved(waiting, S, 0))))
                             \union LeftBehind(waiting, S, 0)
           /\ failed' = "no"
        \/ /\ ~Full(waiting)
           /\ request' = Tail(rq)
           /\ waiting' = Append(waiting, m)
           /\ failed' = "no"
           /\ UNCHANGED <<replay, served, owed>>
        \/ /\ request' = Tail(rq)
           /\ replay' = <<m>>
           /\ failed' = "no"
           /\ UNCHANGED <<waiting, served, owed>>
        \/ /\ Full(waiting)
           /\ failed' = "queues full"
           /\ request' = rq
           /\ UNCHANGED <<replay, waiting, served, owed>>
  BY DEF ServeRequest
<1> HIDE DEF m
<1>5. CASE /\ request' = Tail(rq)
           /\ served' = served \union {m}
           /\ \E S \in WakeChoices(m) :
                /\ replay' = Pick(waiting, Moved(waiting, S, 0))
                /\ waiting' = Drop(waiting, Moved(waiting, S, 0))
                /\ owed' = (owed \ Range(Pick(waiting, Moved(waiting, S, 0))))
                             \union LeftBehind(waiting, S, 0)
           /\ failed' = "no"
  <2>1. PICK S \in WakeChoices(m) :
                /\ replay' = Pick(waiting, Moved(waiting, S, 0))
                /\ waiting' = Drop(waiting, Moved(waiting, S, 0))
                /\ owed' = (owed \ Range(Pick(waiting, Moved(waiting, S, 0))))
                             \union LeftBehind(waiting, S, 0)
    BY <1>5
  <2> DEFINE K == Moved(waiting, S, 0)
  <2>2. K \in SUBSET (1 .. Len(waiting))
    BY MovedPositions
  <2>3. LeftBehind(waiting, S, 0) \subseteq Messages
    BY <1>3, LeftBehindType
  <2>4. /\ replay' = Pick(waiting, K) /\ waiting' = Drop(waiting, K)
        /\ owed' \in SUBSET Messages
    BY <1>3, <2>1, <2>3
  <2> HIDE DEF K
  <2>5. Pick(waiting, K) \in Seq(Messages)
    BY <1>3, <2>2, PickProperties
  <2>6. replay \o Pick(waiting, K) = Pick(waiting, K)
    BY <2>5, ConcatEmptySeq
  <2>7. Typed(Tail(rq), replay, waiting, served \union {m})
    BY <1>1 DEF Conserves, m
  <2>8. Conserves(Tail(rq), replay, waiting, served \union {m},
                  Tail(rq), replay \o Pick(waiting, K), Drop(waiting, K),
                  served \union {m})
    BY <2>2, <2>7, WakeupConserves
  <2>9. Conserves(rq, replay, waiting, served,
                  Tail(rq), replay', waiting', served \union {m})
    BY <1>1, <2>4, <2>6, <2>8, ConservesTransitive DEF m
  <2> QED
    BY <1>5, <2>4, <2>9 DEF Outcome
<1>6. CASE /\ request' = Tail(rq)
           /\ waiting' = Append(waiting, m)
           /\ failed' = "no"
           /\ UNCHANGED <<replay, served, owed>>
  BY <1>1, <1>3, <1>6 DEF Outcome, m
<1>7. CASE /\ request' = Tail(rq)
           /\ replay' = <<m>>
           /\ failed' = "no"
           /\ UNCHANGED <<waiting, served, owed>>
  <2>1. Append(replay, m) = <<m>>
    OBVIOUS
  <2> QED
    BY <1>1, <1>3, <1>7, <2>1 DEF Outcome, m
<1>8. CASE /\ Full(waiting)
           /\ failed' = "queues full"
           /\ request' = rq
           /\ UNCHANGED <<replay, waiting, served, owed>>
  <2>1. QueueSize # 0
    BY <1>8, FullIsBounded
  <2> QED
    BY <1>2, <1>3, <1>8, <2>1 DEF Outcome
<1> QED
  BY <1>4, <1>5, <1>6, <1>7, <1>8

(* Refill moves more waiters from the lists a service has left.             *)
LEMMA RefillConserves ==
  ASSUME NEW rq, NEW rp, NEW wt, NEW done, Typed(rq, rp, wt, done),
         NEW ow \in SUBSET Messages, Refill(rp, wt, ow)
  PROVE  /\ Conserves(rq, rp, wt, done, rq, replay', waiting', done)
         /\ owed' \in SUBSET Messages
<1> DEFINE K == IF Full(replay) THEN Moved(wt, Sets, Len(rp)) ELSE {}
<1>1. K \in SUBSET (1 .. Len(wt))
  BY MovedPositions
<1>2. /\ replay' = rp \o Pick(wt, K)
      /\ waiting' = Drop(wt, K)
      /\ owed' = ow \ Range(Pick(wt, K))
  BY DEF Refill
<1> HIDE DEF K
<1> QED
  BY <1>1, <1>2, WakeupConserves

(* process_message() on the head of the replay queue.                       *)
LEMMA ServeReplayOutcome ==
  ASSUME TypeOK, replay # <<>>, ServeReplay
  PROVE  Outcome(request)
<1> DEFINE m == Head(replay)
           tl == Tail(replay)
<1>1. /\ Typed(request, replay, waiting, served)
      /\ Conserves(request, replay, waiting, served,
                   request, tl, waiting, served \union {m})
      /\ Conserves(request, replay, waiting, served,
                   request, tl, Append(waiting, m), served)
      /\ Conserves(request, replay, waiting, served,
                   request, Append(tl, m), waiting, served)
  BY ReplayHeadMoves DEF TypeOK, Typed
<1>2. Conserves(request, replay, waiting, served,
                request, replay, waiting, served)
  BY <1>1 DEF Conserves
<1>3. waiting \in Seq(Messages) /\ owed \in SUBSET Messages
  BY DEF TypeOK
<1>4. request' = request
  BY DEF ServeReplay
<1>5. PICK status \in Status :
        \/ /\ status = "StallNone"
           /\ served' = served \union {m}
           /\ \E S \in WakeChoices(m) :
                Refill(tl \o Pick(waiting, Moved(waiting, S, Len(replay))),
                       Drop(waiting, Moved(waiting, S, Len(replay))),
                       (owed \ Range(Pick(waiting,
                                          Moved(waiting, S, Len(replay)))))
                         \union LeftBehind(waiting, S, Len(replay)))
           /\ failed' = "no"
        \/ /\ Refill(tl, Append(waiting, m), owed)
           /\ failed' = "no"
           /\ UNCHANGED served
        \/ /\ replay' = Append(tl, m)
           /\ failed' = "no"
           /\ UNCHANGED <<waiting, served, owed>>
        \/ /\ Full(waiting)
           /\ failed' = "wait list full"
           /\ UNCHANGED <<replay, waiting, served, owed>>
  BY DEF ServeReplay
<1> HIDE DEF m, tl
<1>6. CASE /\ served' = served \union {m}
           /\ \E S \in WakeChoices(m) :
                Refill(tl \o Pick(waiting, Moved(waiting, S, Len(replay))),
                       Drop(waiting, Moved(waiting, S, Len(replay))),
                       (owed \ Range(Pick(waiting,
                                          Moved(waiting, S, Len(replay)))))
                         \union LeftBehind(waiting, S, Len(replay)))
           /\ failed' = "no"
  <2>1. PICK S \in WakeChoices(m) :
          Refill(tl \o Pick(waiting, Moved(waiting, S, Len(replay))),
                 Drop(waiting, Moved(waiting, S, Len(replay))),
                 (owed \ Range(Pick(waiting, Moved(waiting, S, Len(replay)))))
                   \union LeftBehind(waiting, S, Len(replay)))
    BY <1>6
  <2> DEFINE K == Moved(waiting, S, Len(replay))
             ow == (owed \ Range(Pick(waiting, K)))
                     \union LeftBehind(waiting, S, Len(replay))
  <2>2. K \in SUBSET (1 .. Len(waiting))
    BY MovedPositions
  <2>3. ow \in SUBSET Messages
    BY <1>3, LeftBehindType
  <2>4. Refill(tl \o Pick(waiting, K), Drop(waiting, K), ow)
    BY <2>1
  <2> HIDE DEF K, ow
  <2>5. Typed(request, tl, waiting, served \union {m})
    BY <1>1 DEF Conserves
  <2>6. Conserves(request, tl, waiting, served \union {m},
                  request, tl \o Pick(waiting, K), Drop(waiting, K),
                  served \union {m})
    BY <2>2, <2>5, WakeupConserves
  <2>7. Typed(request, tl \o Pick(waiting, K), Drop(waiting, K),
              served \union {m})
    BY <2>6 DEF Conserves
  <2>8. /\ Conserves(request, tl \o Pick(waiting, K), Drop(waiting, K),
                     served \union {m},
                     request, replay', waiting', served \union {m})
        /\ owed' \in SUBSET Messages
    BY <2>3, <2>4, <2>7, RefillConserves
  <2>9. Conserves(request, replay, waiting, served,
                  request, tl \o Pick(waiting, K), Drop(waiting, K),
                  served \union {m})
    BY <1>1, <2>6, ConservesTransitive
  <2>10. Conserves(request, replay, waiting, served,
                   request, replay', waiting', served \union {m})
    BY <2>8, <2>9, ConservesTransitive
  <2> QED
    BY <1>4, <1>6, <2>8, <2>10 DEF Outcome
<1>7. CASE /\ Refill(tl, Append(waiting, m), owed)
           /\ failed' = "no"
           /\ UNCHANGED served
  <2>1. Typed(request, tl, Append(waiting, m), served)
    BY <1>1 DEF Conserves
  <2>2. /\ Conserves(request, tl, Append(waiting, m), served,
                     request, replay', waiting', served)
        /\ owed' \in SUBSET Messages
    BY <1>3, <1>7, <2>1, RefillConserves
  <2>3. Conserves(request, replay, waiting, served,
                  request, replay', waiting', served)
    BY <1>1, <2>2, ConservesTransitive
  <2> QED
    BY <1>4, <1>7, <2>2, <2>3 DEF Outcome
<1>8. CASE /\ replay' = Append(tl, m)
           /\ failed' = "no"
           /\ UNCHANGED <<waiting, served, owed>>
  BY <1>1, <1>3, <1>4, <1>8 DEF Outcome
<1>9. CASE /\ Full(waiting)
           /\ failed' = "wait list full"
           /\ UNCHANGED <<replay, waiting, served, owed>>
  <2>1. QueueSize # 0
    BY <1>9, FullIsBounded
  <2> QED
    BY <1>2, <1>3, <1>4, <1>9, <2>1 DEF Outcome
<1> QED
  BY <1>5, <1>6, <1>7, <1>8, <1>9

-----------------------------------------------------------------------------
(* What one step of the bank does to its lists: nothing, or it moves the    *)
(* messages they hold, or those and one that has just arrived.              *)
ListsMove ==
  \/ UNCHANGED <<queues, served>>
  \/ Conserves(request, replay, waiting, served,
               request', replay', waiting', served')
  \/ \E m \in Messages \ (Queued \union served) :
       Conserves(Append(request, m), replay, waiting, served,
                 request', replay', waiting', served')

(* message_arrival().                                                       *)
LEMMA ArriveMoves ==
  ASSUME TypeOK, NEW m \in Messages, Arrive(m)
  PROVE  ListsMove /\ owed' \in SUBSET Messages /\ failed' \in Failure
<1>1. m \in Messages \ (Queued \union served)
  BY DEF Arrive
<1>2. Append(request, m) \in Seq(Messages) /\ Append(request, m) # <<>>
  BY AppendRange DEF TypeOK
<1>3. Conserves(Append(request, m), replay, waiting, served,
                Append(request, m), replay, waiting, served)
  BY <1>2 DEF TypeOK, Conserves, Typed
<1>4. \/ /\ request' = Append(request, m)
         /\ UNCHANGED <<replay, waiting, served, owed>>
         /\ failed' \in {failed, "event", "no"}
      \/ replay = <<>> /\ ServeRequest(Append(request, m))
      \/ UNCHANGED <<queues, served, owed>> /\ failed' = "event"
  BY DEF Arrive
<1>5. CASE /\ request' = Append(request, m)
           /\ UNCHANGED <<replay, waiting, served, owed>>
           /\ failed' \in {failed, "event", "no"}
  <2>1. ListsMove
    BY <1>1, <1>3, <1>5 DEF ListsMove
  <2> QED
    BY <1>5, <2>1 DEF TypeOK, Failure
<1>6. CASE replay = <<>> /\ ServeRequest(Append(request, m))
  <2>1. Outcome(Append(request, m))
    BY <1>2, <1>6, ServeRequestOutcome
  <2> QED
    BY <1>1, <2>1 DEF ListsMove, Outcome, Failure
<1>7. CASE UNCHANGED <<queues, served, owed>> /\ failed' = "event"
  BY <1>7 DEF ListsMove, queues, TypeOK, Failure
<1> QED
  BY <1>4, <1>5, <1>6, <1>7

(* wakeup() from outside a service.                                         *)
LEMMA WakeupMoves ==
  ASSUME TypeOK, NEW S, Wakeup(S)
  PROVE  ListsMove /\ owed' \in SUBSET Messages /\ failed' \in Failure
<1> DEFINE K == Moved(waiting, S, Len(replay))
<1>1. K \in SUBSET (1 .. Len(waiting))
  BY MovedPositions
<1>2. /\ replay' = replay \o Pick(waiting, K) /\ waiting' = Drop(waiting, K)
      /\ owed' = (owed \ Range(Pick(waiting, K)))
                   \union LeftBehind(waiting, S, Len(replay))
      /\ failed' \in {"event", "no"}
      /\ UNCHANGED <<request, served>>
  BY DEF Wakeup
<1>3. owed' \in SUBSET Messages
  BY <1>2, LeftBehindType DEF TypeOK
<1> HIDE DEF K
<1>4. Typed(request, replay, waiting, served)
  BY DEF TypeOK, Typed
<1>5. Conserves(request, replay, waiting, served,
                request, replay \o Pick(waiting, K), Drop(waiting, K), served)
  BY <1>1, <1>4, WakeupConserves
<1> QED
  BY <1>2, <1>3, <1>5 DEF ListsMove, Failure

(* next_request_event.                                                      *)
LEMMA FireMoves ==
  ASSUME TypeOK, Fire
  PROVE  ListsMove /\ owed' \in SUBSET Messages /\ failed' \in Failure
<1>1. CASE replay # <<>> /\ ServeReplay
  <2>1. Outcome(request)
    BY <1>1, ServeReplayOutcome
  <2> QED
    BY <2>1 DEF ListsMove, Outcome, Failure
<1>2. CASE replay = <<>> /\ request # <<>> /\ ServeRequest(request)
  <2>1. request \in Seq(Messages)
    BY DEF TypeOK
  <2>2. Outcome(request)
    BY <1>2, <2>1, ServeRequestOutcome
  <2> QED
    BY <2>2 DEF ListsMove, Outcome, Failure
<1>3. CASE failed' = "bank busy" /\ UNCHANGED <<queues, served, owed>>
  BY <1>3 DEF ListsMove, Failure, TypeOK
<1> QED
  BY <1>1, <1>2, <1>3 DEF Fire

(* Every step.                                                              *)
LEMMA NextMoves ==
  ASSUME TypeOK, [Next]_vars
  PROVE  ListsMove /\ owed' \in SUBSET Messages /\ failed' \in Failure
<1>1. CASE \E m \in Messages : Arrive(m)
  BY <1>1, ArriveMoves
<1>2. CASE \E S : Wakeup(S)
  BY <1>2, WakeupMoves
<1>3. CASE Fire
  BY <1>3, FireMoves
<1>4. CASE Tick \/ UNCHANGED vars
  BY <1>4 DEF Tick, vars, queues, ListsMove, TypeOK
<1> QED
  BY <1>1, <1>2, <1>3, <1>4 DEF Next

(* The lists of a step hold messages.                                       *)
LEMMA ListsTyped ==
  ASSUME TypeOK, ListsMove
  PROVE  Typed(request, replay, waiting, served)'
BY DEF TypeOK, ListsMove, Conserves, Typed, queues

-----------------------------------------------------------------------------
(* TypeOK is inductive.                                                     *)
LEMMA TypePreserved ==
  ASSUME TypeOK, [Next]_vars
  PROVE  TypeOK'
<1>1. ListsMove /\ owed' \in SUBSET Messages /\ failed' \in Failure
  BY NextMoves
<1>2. Typed(request, replay, waiting, served)'
  BY <1>1, ListsTyped
<1>3. CyclesPerRequest \in Nat \ {0}
  BY BankAssumption
<1>4. busy \in 0 .. CyclesPerRequest /\ event \in {NoEvent} \union (0 .. CyclesPerRequest)
  BY DEF TypeOK
<1>5. /\ busy' \in 0 .. CyclesPerRequest
      /\ event' \in {NoEvent} \union (0 .. CyclesPerRequest)
  <2>1. ASSUME Reschedule
        PROVE  /\ busy' \in 0 .. CyclesPerRequest
               /\ event' \in {NoEvent} \union (0 .. CyclesPerRequest)
    BY <1>3, <2>1 DEF Reschedule
  <2>2. ASSUME NEW m \in Messages, Arrive(m)
        PROVE  /\ busy' \in 0 .. CyclesPerRequest
               /\ event' \in {NoEvent} \union (0 .. CyclesPerRequest)
    <3>1. Reschedule \/ (UNCHANGED busy /\ event' \in {event, busy})
      BY <2>2 DEF Arrive, ServeRequest
    <3> QED
      BY <1>4, <2>1, <3>1
  <2>3. ASSUME NEW S, Wakeup(S)
        PROVE  /\ busy' \in 0 .. CyclesPerRequest
               /\ event' \in {NoEvent} \union (0 .. CyclesPerRequest)
    <3>1. UNCHANGED busy /\ event' \in {event, WakeDelay}
      BY <2>3 DEF Wakeup
    <3>2. WakeDelay \in 0 .. CyclesPerRequest
      BY <1>3, <1>4 DEF WakeDelay
    <3> QED
      BY <1>4, <3>1, <3>2
  <2>4. ASSUME Fire
        PROVE  /\ busy' \in 0 .. CyclesPerRequest
               /\ event' \in {NoEvent} \union (0 .. CyclesPerRequest)
    <3>1. Reschedule \/ UNCHANGED <<busy, event>>
      BY <2>4 DEF Fire, ServeRequest, ServeReplay
    <3> QED
      BY <1>4, <2>1, <3>1
  <2>5. ASSUME Tick
        PROVE  /\ busy' \in 0 .. CyclesPerRequest
               /\ event' \in {NoEvent} \union (0 .. CyclesPerRequest)
    BY <1>3, <1>4, <2>5 DEF Tick, NoEvent
  <2>6. CASE UNCHANGED vars
    BY <1>4, <2>6 DEF vars
  <2> QED
    BY <2>2, <2>3, <2>4, <2>5, <2>6 DEF Next
<1> QED
  BY <1>1, <1>2, <1>5 DEF TypeOK, Typed

(* The bank starts empty, free and without an event.                        *)
LEMMA InitType ==
  ASSUME Init
  PROVE  TypeOK
BY BankAssumption DEF Init, TypeOK, Failure, NoEvent

(* Type correctness.                                                        *)
THEOREM TypeCorrect == Spec => []TypeOK
<1>1. Init => TypeOK
  BY InitType
<1>2. TypeOK /\ [Next]_vars => TypeOK'
  BY TypePreserved
<1> QED
  BY <1>1, <1>2, PTL DEF Spec

-----------------------------------------------------------------------------
(* The scheduling of next_request_event.  A step that fails is the last, so *)
(* EventIffWork speaks of the states before it; NoAssert shows that no      *)
(* scheduling step fails, from EventIffWork of the state before it.         *)

(* A step that ends with Reschedule leaves an event exactly for the work    *)
(* that is left.                                                            *)
LEMMA RescheduleMatchesWork ==
  ASSUME Reschedule
  PROVE  EventIffWork'
BY BankAssumption DEF Reschedule, EventIffWork, NoEvent

(* A wakeup that finds the replay queue empty moves the first waiter at     *)
(* least: even a bounded queue has room for one message.                    *)
LEMMA FirstWaiterMoves ==
  ASSUME NEW wt \in Seq(Messages), NEW S, Matching(wt, S) # {}, replay = <<>>
  PROVE  Moved(wt, S, Len(replay)) # {}
<1> DEFINE M == Matching(wt, S)
<1>1. Len(wt) \in Nat /\ M \in SUBSET (1 .. Len(wt)) /\ Len(replay) = 0
  BY DEF Matching
<1>2. IsFiniteSet(M) /\ M \subseteq Int /\ Cardinality(M) \in Nat
  BY <1>1, Positions
<1>3. Cardinality(M) # 0
  BY <1>2, FS_EmptySet
<1> HIDE DEF M
<1>4. 1 \in 1 .. Cardinality(M)
  BY <1>2, <1>3
<1>5. PICK i \in M : Rank(M, i) = 1
  BY <1>2, <1>4, RankOnto
<1>6. QueueSize = 0 \/ 0 + Rank(M, i) <= QueueSize
  BY <1>5, BankAssumption
<1>7. i \in Moved(wt, S, Len(replay))
  BY <1>1, <1>5, <1>6 DEF Moved, M
<1> QED
  BY <1>7

(* EventIffWork is inductive relative to TypeOK.                            *)
LEMMA SchedulingPreserved ==
  ASSUME TypeOK, EventIffWork, [Next]_vars
  PROVE  EventIffWork'
<1>1. ASSUME NEW m \in Messages, Arrive(m)
      PROVE  EventIffWork'
  <2>1. Append(request, m) # <<>>
    BY AppendRange DEF TypeOK
  <2>2. CASE /\ ~(request = <<>> /\ replay = <<>>)
             /\ request' = Append(request, m)
             /\ UNCHANGED <<replay, waiting, busy, event, served, failed, owed>>
    BY <2>1, <2>2 DEF EventIffWork
  <2>3. CASE /\ busy > 0 /\ request' = Append(request, m)
             /\ event' = busy /\ UNCHANGED busy
    BY <2>1, <2>3 DEF EventIffWork, TypeOK, NoEvent
  <2>4. CASE Reschedule
    BY <2>4, RescheduleMatchesWork
  <2>5. CASE failed' = "event"
    BY <2>5 DEF EventIffWork
  <2> QED
    BY <1>1, <2>2, <2>3, <2>4, <2>5 DEF Arrive, ServeRequest
<1>2. ASSUME NEW S, Wakeup(S)
      PROVE  EventIffWork'
  <2> DEFINE K == Moved(waiting, S, Len(replay))
  <2>1. /\ K \in SUBSET (1 .. Len(waiting)) /\ K \subseteq Matching(waiting, S)
        /\ replay' = replay \o Pick(waiting, K) /\ UNCHANGED <<request, busy>>
    BY <1>2, MovedPositions DEF Wakeup
  <2>2. CASE ~(request = <<>> /\ replay = <<>>)
    <3>1. UNCHANGED event /\ failed = "no"
      BY <1>2, <2>2 DEF Wakeup
    <3>2. Pick(waiting, K) \in Seq(Messages) /\ replay \in Seq(Messages)
      BY <2>1, WakeupSplits DEF TypeOK
    <3> HIDE DEF K
    <3>3. replay' = <<>> => replay = <<>>
      BY <2>1, <3>2, ConcatRange
    <3> QED
      BY <2>1, <2>2, <3>1, <3>3 DEF EventIffWork
  <2>3. CASE request = <<>> /\ replay = <<>>
    <3>1. event' = WakeDelay /\ Matching(waiting, S) # {}
      BY <1>2, <2>3 DEF Wakeup
    <3>2. WakeDelay \in Nat /\ busy <= WakeDelay
      BY DEF WakeDelay, TypeOK
    <3>3. K # {}
      BY <2>3, <3>1, FirstWaiterMoves DEF TypeOK
    <3>4. Pick(waiting, K) # <<>> /\ Pick(waiting, K) \in Seq(Messages)
      BY <2>1, <3>3, PickEmpty, WakeupSplits DEF TypeOK
    <3> HIDE DEF K
    <3>5. replay' # <<>>
      BY <2>1, <3>4, ConcatRange DEF TypeOK
    <3> QED
      BY <2>1, <3>1, <3>2, <3>5 DEF EventIffWork, NoEvent
  <2> QED
    BY <2>2, <2>3
<1>3. ASSUME Fire
      PROVE  EventIffWork'
  <2>1. Reschedule \/ failed' = "bank busy"
    BY <1>3 DEF Fire, ServeRequest, ServeReplay
  <2> QED
    BY <2>1, RescheduleMatchesWork DEF EventIffWork
<1>4. ASSUME Tick
      PROVE  EventIffWork'
  <2>1. /\ failed = "no" /\ event # 0
        /\ busy' = (IF busy > 0 THEN busy - 1 ELSE 0)
        /\ event' = (IF event > 0 THEN event - 1 ELSE NoEvent)
        /\ UNCHANGED <<request, replay>>
    BY <1>4 DEF Tick, queues
  <2>2. busy \in Nat /\ (event = NoEvent \/ event \in Nat)
    BY DEF TypeOK
  <2> QED
    BY <2>1, <2>2 DEF EventIffWork, NoEvent
<1>5. CASE UNCHANGED vars
  BY <1>5 DEF vars, EventIffWork
<1> QED
  BY <1>1, <1>2, <1>3, <1>4, <1>5 DEF Next

(* An event is pending exactly while the bank has work, for any bandwidth,  *)
(* any queue size and whatever the cache answers and wakes.                 *)
THEOREM EventsScheduled == Spec => []EventIffWork
<1>1. Init => EventIffWork
  BY DEF Init, EventIffWork
<1>2. TypeOK /\ EventIffWork /\ [Next]_vars => EventIffWork'
  BY SchedulingPreserved
<1>3. Spec => []TypeOK
  BY TypeCorrect
<1> QED
  BY <1>1, <1>2, <1>3, PTL DEF Spec

-----------------------------------------------------------------------------
(* NoAssert is inductive relative to EventIffWork.                          *)
LEMMA AssertsHold ==
  ASSUME TypeOK, EventIffWork, NoAssert, [Next]_vars
  PROVE  NoAssert'
<1>1. ASSUME NEW rq \in Seq(Messages), Outcome(rq)
      PROVE  NoAssert'
  BY <1>1 DEF Outcome, NoAssert, NoSchedulingAssert
<1>2. ASSUME NEW m \in Messages, Arrive(m)
      PROVE  NoAssert'
  <2>1. Append(request, m) \in Seq(Messages) /\ Append(request, m) # <<>>
    BY AppendRange DEF TypeOK
  <2>2. CASE ~(request = <<>> /\ replay = <<>>) /\ UNCHANGED failed
    BY <2>2 DEF NoAssert, NoSchedulingAssert
  <2>3. CASE request = <<>> /\ replay = <<>>
    <3>1. failed = "no" /\ event = NoEvent
      BY <1>2, <2>3 DEF Arrive, EventIffWork
    <3>2. failed' = "no" \/ ServeRequest(Append(request, m))
      BY <1>2, <2>3, <3>1 DEF Arrive
    <3>3. CASE ServeRequest(Append(request, m))
      BY <1>1, <2>1, <2>3, <3>3, ServeRequestOutcome
    <3> QED
      BY <3>2, <3>3 DEF NoAssert, NoSchedulingAssert
  <2> QED
    BY <1>2, <2>2, <2>3 DEF Arrive
<1>3. ASSUME NEW S, Wakeup(S)
      PROVE  NoAssert'
  <2>1. failed = "no" /\ (request = <<>> /\ replay = <<>> => event = NoEvent)
    BY <1>3 DEF Wakeup, EventIffWork
  <2>2. failed' = "no"
    BY <1>3, <2>1 DEF Wakeup
  <2> QED
    BY <2>2 DEF NoAssert, NoSchedulingAssert
<1>4. ASSUME Fire
      PROVE  NoAssert'
  <2>1. failed = "no" /\ event = 0
    BY <1>4 DEF Fire
  <2>2. busy = 0 /\ ~(replay = <<>> /\ request = <<>>)
    BY <2>1 DEF EventIffWork, NoEvent, TypeOK
  <2>3. \/ replay # <<>> /\ ServeReplay
        \/ replay = <<>> /\ request # <<>> /\ ServeRequest(request)
    <3>1. ~(busy > 0)
      BY <2>2
    <3> QED
      BY <1>4, <2>2, <3>1 DEF Fire
  <2>4. request \in Seq(Messages)
    BY DEF TypeOK
  <2>5. Outcome(request)
    BY <2>3, <2>4, ServeReplayOutcome, ServeRequestOutcome
  <2> QED
    BY <1>1, <2>4, <2>5
<1>5. CASE Tick \/ UNCHANGED vars
  BY <1>5 DEF Tick, vars, NoAssert, NoSchedulingAssert
<1> QED
  BY <1>2, <1>3, <1>4, <1>5 DEF Next

(* None of the bank's scheduling ASSERTs fails, and with infinite queues    *)
(* none of its ASSERTs or FAILs at all.                                     *)
THEOREM AssertsNeverFail == Spec => []NoAssert
<1>1. Init => NoAssert
  BY DEF Init, NoAssert, NoSchedulingAssert
<1>2. TypeOK /\ EventIffWork /\ NoAssert /\ [Next]_vars => NoAssert'
  BY AssertsHold
<1>3. Spec => []TypeOK /\ []EventIffWork
  BY TypeCorrect, EventsScheduled
<1> QED
  BY <1>1, <1>2, <1>3, PTL DEF Spec

-----------------------------------------------------------------------------
(* NoDuplicate is inductive relative to TypeOK.                             *)
LEMMA PartitionPreserved ==
  ASSUME TypeOK, NoDuplicate, [Next]_vars
  PROVE  NoDuplicate'
<1>1. ListsMove
  BY NextMoves
<1>2. Apart(request, replay, waiting, served)
  BY DEF NoDuplicate, Apart, Queued
<1>3. Apart(request', replay', waiting', served')
  <2>1. CASE UNCHANGED <<queues, served>>
    BY <1>2, <2>1 DEF queues
  <2>2. CASE Conserves(request, replay, waiting, served,
                       request', replay', waiting', served')
    BY <1>2, <2>2 DEF Conserves
  <2>3. ASSUME NEW m \in Messages \ (Queued \union served),
               Conserves(Append(request, m), replay, waiting, served,
                         request', replay', waiting', served')
        PROVE  Apart(request', replay', waiting', served')
    <3>1. /\ Range(Append(request, m)) = Range(request) \union {m}
          /\ IsInjective(request) /\ m \notin Range(request)
               => IsInjective(Append(request, m))
      BY AppendRange DEF TypeOK
    <3>2. Apart(Append(request, m), replay, waiting, served)
      BY <1>2, <3>1 DEF Apart, Queued
    <3> QED
      BY <2>3, <3>2 DEF Conserves
  <2> QED
    BY <1>1, <2>1, <2>2, <2>3 DEF ListsMove
<1> QED
  BY <1>3 DEF NoDuplicate, Apart, Queued

(* A message is in one place at a time, once.                               *)
THEOREM MessagesUnique == Spec => []NoDuplicate
<1>1. Init => NoDuplicate
  BY DEF Init, NoDuplicate, Queued, IsInjective, Range
<1>2. TypeOK /\ NoDuplicate /\ [Next]_vars => NoDuplicate'
  BY PartitionPreserved
<1>3. Spec => []TypeOK
  BY TypeCorrect
<1> QED
  BY <1>1, <1>2, <1>3, PTL DEF Spec

(* No step takes a message out of the lists but to complete it.             *)
LEMMA StepKeeps ==
  ASSUME TypeOK, [Next]_vars
  PROVE  Queued \subseteq (Queued' \union served')
<1>1. ListsMove
  BY NextMoves
<1>2. CASE UNCHANGED <<queues, served>>
  BY <1>2 DEF queues, Queued
<1>3. CASE Conserves(request, replay, waiting, served,
                     request', replay', waiting', served')
  BY <1>3 DEF Conserves, All, Queued
<1>4. ASSUME NEW m \in Messages \ (Queued \union served),
             Conserves(Append(request, m), replay, waiting, served,
                       request', replay', waiting', served')
      PROVE  Queued \subseteq (Queued' \union served')
  <2>1. Range(Append(request, m)) = Range(request) \union {m}
    BY AppendRange DEF TypeOK
  <2> QED
    BY <1>4, <2>1 DEF Conserves, All, Queued
<1> QED
  BY <1>1, <1>2, <1>3, <1>4 DEF ListsMove

(* No message the bank has accepted is dropped before the cache completes   *)
(* it.                                                                      *)
THEOREM NothingLost == Spec => NoLoss
<1>1. TypeOK /\ [Next]_vars => Queued \subseteq (Queued' \union served')
  BY StepKeeps
<1>2. Spec => []TypeOK
  BY TypeCorrect
<1> QED
  BY <1>1, <1>2, PTL DEF Spec, NoLoss
=============================================================================
