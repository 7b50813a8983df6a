------------------------ MODULE CmpInclPromiseProofs ------------------------
(***************************************************************************)
(* Proofs about CmpIncl: what it promises, given the invariants IInv and    *)
(* Coh of CmpInclProofs. For every configuration one writer, inclusion,     *)
(* buffers and requests that are not lost, and the implementation of        *)
(* Coherence. For links without bandwidth, where the messages to a bank     *)
(* keep their order (PortInv), no failure. For an L2 with a way for each    *)
(* line (L2Ample), which takes no line back (DataInv), no failure and no    *)
(* store lost.                                                              *)
(***************************************************************************)
EXTENDS CmpInclProofs

-----------------------------------------------------------------------------
(* The properties that hold in every configuration.                         *)

(* What a mark in a view says of a message under way.                       *)
LEMMA Seen ==
  ASSUME NetInv, NEW a, NEW t, NEW p, In(View(a), t, p), t \notin Forwards
  PROVE  \E u \in InFlight :
           /\ u.addr = a
           /\ t \in ToL1 => u.type = t /\ u.dst = p
           /\ t \in ToL2 \ {"WriteBack"} => u.type = t /\ u.src = p
           /\ t = "WriteBack" => u.type \in {"WriteBack", "WriteBackClean"}
               /\ u.src = p
<1>1. PICK u \in InFlight : u.addr = a /\ Mark(u) = <<t, p, p>>
  BY OfView DEF In
<1>2. Proper(u)
  BY TrafficProper
<1>3. u.type \in ToL1 \union ToL2
  BY <1>2, ProperOfMessage
<1> QED
  BY <1>1, <1>3 DEF Mark, Forwards, ToL1, ToL2

LEMMA SeenForward ==
  ASSUME NetInv, NEW a, NEW t \in Forwards, NEW q, NEW p, Sent(View(a), t, q, p)
  PROVE  \E u \in InFlight : u.addr = a /\ u.type = t /\ u.dst = q /\ u.req = p
<1>1. PICK u \in InFlight : u.addr = a /\ Mark(u) = <<t, q, p>>
  BY OfView DEF Sent
<1>2. Proper(u)
  BY TrafficProper
<1>3. u.type \in ToL1 \union ToL2
  BY <1>2, ProperOfMessage
<1> QED
  BY <1>1, <1>3 DEF Mark, Forwards, ToL1, ToL2

LEMMA StateLinesAbsent ==
  ASSUME Coh, NEW p \in L1s, NEW a \in Addrs, l1[p][a] # "NotPresent"
  PROVE  /\ a \in Addrs \ ThreadState /\ LineInv(View(a))
         /\ View(a).lines = [q \in L1s |-> l1[q][a]] /\ View(a).dir = sharers[a]
         /\ View(a).held = HeldBy(l2queue[a])
BY CohParts DEF ThreadStateInv, View, HeldBy

LEMMA CohWriter == IInv /\ Coh => SingleWriter
<1>1. ASSUME IInv, Coh, NEW a \in Addrs, NEW p \in L1s, NEW q \in L1s, p # q,
             l1[p][a] \in {"Exclusive", "Modified"}
      PROVE  l1[q][a] \notin Readable
  <2> DEFINE x == View(a)
  <2>1. LineInv(x) /\ x.lines[p] = l1[p][a] /\ x.lines[q] = l1[q][a]
    BY <1>1, StateLinesAbsent
  <2> HIDE DEF x
  <2>2. ~Sharing(x)
    BY <1>1, <2>1 DEF LineInv, SharingInv, Owned
  <2>3. PICK k \in [L1s -> Int], o \in L1s : ChainInv(x, k, o)
    BY <2>1, <2>2 DEF LineInv, OwningInv
  <2>4. Holds(x, p)
    BY <1>1, <2>1 DEF Holds, Owned
  <2>5. ~Holds(x, q)
    BY <1>1, <2>3, <2>4 DEF ChainInv
  <2>6. x.lines[q] # "Shared" /\ (x.lines[q] = "ShToMod" => In(x, "UpgradeAck", q))
    BY <2>3 DEF ChainInv
  <2> QED
    BY <2>1, <2>5, <2>6 DEF Holds, Owned, Readable
<1> QED
  BY <1>1 DEF SingleWriter

(* A line that an L1 may write is readable in no other L1 (l1[p][a]         *)
(* Exclusive or Modified, as the handlers of both caches intend).           *)
THEOREM OneWriter == Spec => []SingleWriter
BY CohWriter, AlwaysCoh, PTL

(* The directory knows every L1 that can read a line, or has sent for its   *)
(* copy: the sharers field of the L2 line is not behind.                    *)
THEOREM Included == Spec => []Inclusion
<1>1. ASSUME IInv, Coh, NEW a \in Addrs, NEW p \in L1s, l1[p][a] \in Readable
      PROVE  \/ p \in sharers[a]
             \/ \E m \in InFlight : m.addr = a /\ m.dst = p
                                    /\ m.type \in {"ReadExFwd", "Invalidate"}
  <2> DEFINE x == View(a)
  <2>1. LineInv(x) /\ x.lines[p] = l1[p][a] /\ x.dir = sharers[a]
    BY <1>1, StateLinesAbsent DEF Readable
  <2>2. p \in x.dir \/ Owes(x, "ReadExFwd", p)
    BY <1>1, <2>1 DEF LineInv, CopyInv, EntryInv, Present
  <2>3. NetInv
    BY <1>1 DEF IInv
  <2>4. ASSUME Owes(x, "ReadExFwd", p)
        PROVE  \E m \in InFlight : m.addr = a /\ m.dst = p /\ m.type = "ReadExFwd"
    <3>1. PICK r : Sent(x, "ReadExFwd", p, r)
      BY <2>4 DEF Owes
    <3>2. "ReadExFwd" \in Forwards
      BY DEF Forwards
    <3> QED
      BY <2>3, <3>1, <3>2, SeenForward
  <2> QED
    BY <2>1, <2>2, <2>4
<1>2. IInv /\ Coh => Inclusion
  BY <1>1 DEF Inclusion
<1> QED
  BY <1>2, AlwaysCoh, PTL

(* A line in a write-back buffer of an L1 is known to the L2, or the        *)
(* message that frees the buffer is on its way: no buffer leaks.            *)
THEOREM BuffersAnswered == Spec => []WriteBackAnswered
<1>1. ASSUME IInv, Coh, NEW a \in Addrs, NEW p \in L1s, l1[p][a] \in L1Buffered
      PROVE  \E m \in InFlight : m.addr = a /\
               \/ m.src = p /\ m.type \in {"Replace", "WriteBack", "WriteBackClean"}
               \/ m.dst = p /\ m.type \in {"ReplaceAck", "WriteBackAck", "Invalidate"}
  <2> DEFINE x == View(a)
  <2>1. LineInv(x) /\ x.lines[p] = l1[p][a]
    BY <1>1, StateLinesAbsent DEF L1Buffered
  <2>2. NetInv
    BY <1>1 DEF IInv
  <2>3. GoneInv(x, p) /\ AckInv(x, p)
    BY <2>1 DEF LineInv, CopyInv
  <2>4. \/ In(x, "Replace", p) \/ In(x, "WriteBack", p)
        \/ In(x, "ReplaceAck", p) \/ In(x, "WriteBackAck", p)
            \/ In(x, "Invalidate", p)
    <3>1. \/ Leaves(x, p) \/ In(x, "ReplaceAck", p) \/ In(x, "WriteBackAck", p)
          \/ In(x, "Invalidate", p)
      BY <1>1, <2>1, <2>3 DEF AckInv
    <3>2. Leaves(x, p) => In(x, "Replace", p) \/ In(x, "WriteBack", p)
      BY <1>1, <2>1, <2>3 DEF GoneInv, L1Buffered
    <3> QED
      BY <3>1, <3>2
  <2>5. /\ {"Replace", "WriteBack"} \subseteq ToL2 \ Forwards
        /\ {"ReplaceAck", "WriteBackAck", "Invalidate"} \subseteq ToL1 \ Forwards
    BY DEF ToL1, ToL2, Forwards
  <2> HIDE DEF x
  <2>6. \A t : t \notin Forwards /\ In(x, t, p) =>
          \E u \in InFlight :
            /\ u.addr = a
            /\ t \in ToL1 => u.type = t /\ u.dst = p
            /\ t \in ToL2 \ {"WriteBack"} => u.type = t /\ u.src = p
            /\ t = "WriteBack" => u.type \in {"WriteBack", "WriteBackClean"}
                /\ u.src = p
    BY <2>2, Seen DEF x
  <2> QED
    BY <2>4, <2>5, <2>6
<1>2. IInv /\ Coh => WriteBackAnswered
  BY <1>1 DEF WriteBackAnswered
<1> QED
  BY <1>2, AlwaysCoh, PTL

(* No request is lost: while a line of an L1 is in transit, its request or  *)
(* the answer is under way, in the MSHR of the L2 or at the owner.          *)
THEOREM RequestsTracked == Spec => []RequestTracked
<1>1. ASSUME IInv, Coh, NEW a \in Addrs, NEW p \in L1s, l1[p][a] \in L1Transient
      PROVE  \/ \E m \in InFlight : m.addr = a /\
                  \/ m.src = p /\ m.type \in {"Read", "ReadEx", "Upgrade"}
                  \/ m.req = p /\ m.type \in {"ReadFwd", "ReadExFwd"}
                  \/ m.dst = p /\ m.type \in {"DataShared", "DataExclusive",
                      "UpgradeAck"}
                  \/ m.dst = p /\ m.type = "Invalidate" /\ l1[p][a] = "ShToMod"
             \/ \E i \in 1 .. Len(l2queue[a]) : l2queue[a][i].req = p
  <2> DEFINE x == View(a)
  <2>1. LineInv(x) /\ x.lines[p] = l1[p][a] /\ x.held = HeldBy(l2queue[a])
    BY <1>1, StateLinesAbsent DEF L1Transient
  <2>2. NetInv /\ l2queue[a] \in Seq(Queued)
    BY <1>1 DEF IInv, L2Inv, L2Types
  <2> HIDE DEF x
  <2>3. \/ Asking(x, p) \/ Queuing(x, p) \/ Promised(x, p) \/ Answering(x, p)
        \/ x.lines[p] = "ShToMod" /\ In(x, "Invalidate", p)
    BY <1>1, <2>1 DEF LineInv, CopyInv, TrackInv, Serving
  <2>4. /\ {"Read", "ReadEx",
            "Upgrade"} \subseteq ToL2 \ (Forwards \union {"WriteBack"})
        /\ {"DataShared", "DataExclusive", "UpgradeAck", "Invalidate"}
             \subseteq ToL1 \ Forwards
        /\ Forwards = {"ReadFwd", "ReadExFwd"}
    BY DEF ToL1, ToL2, Forwards
  <2>5. \A t : t \notin Forwards /\ In(x, t, p) =>
          \E u \in InFlight :
            /\ u.addr = a
            /\ t \in ToL1 => u.type = t /\ u.dst = p
            /\ t \in ToL2 \ {"WriteBack"} => u.type = t /\ u.src = p
    BY <2>2, Seen DEF x
  <2>6. CASE Asking(x, p)
    BY <2>4, <2>5, <2>6 DEF Asking
  <2>7. CASE Queuing(x, p)
    <3>1. PICK q \in Range(l2queue[a]) : q.req = p
      BY <2>1, <2>7 DEF Queuing, Waits, HeldBy
    <3> QED
      BY <2>2, <3>1 DEF Range
  <2>8. CASE Promised(x, p)
    <3>1. PICK t \in Forwards, q \in L1s : Sent(x, t, q, p)
      BY <2>4, <2>8 DEF Promised
    <3>2. \E u \in InFlight : u.addr = a /\ u.type = t /\ u.dst = q /\ u.req = p
      BY <2>2, <3>1, SeenForward DEF x
    <3> QED
      BY <2>4, <3>2
  <2>9. CASE Answering(x, p)
    BY <2>4, <2>5, <2>9 DEF Answering
  <2>10. CASE x.lines[p] = "ShToMod" /\ In(x, "Invalidate", p)
    BY <2>1, <2>4, <2>5, <2>10
  <2> QED
    BY <2>3, <2>6, <2>7, <2>8, <2>9, <2>10
<1>2. IInv /\ Coh => RequestTracked
  BY <1>1 DEF RequestTracked
<1> QED
  BY <1>2, AlwaysCoh, PTL

-----------------------------------------------------------------------------
(* The implementation of Coherence.                                         *)

(* What Coherence sees of the L1s and of the processors' requests.          *)
RightsOf(lines) == [p \in L1s |-> [a \in Addrs |-> Right(lines[p][a])]]
PendingOf(where) == [p \in L1s |-> {r \in Requests : where[p][r] # "idle"}]

(* A fill in state Shared answers loads only: no store waits for a Read.    *)
LoadsOnly ==
  \A p \in L1s, a \in Addrs :
    l1[p][a] = "InvToShEx" => proc[p][<<"ST", a>>] # "mshr"

(* p loses its right to line v, or to no line when v is none; the requests  *)
(* of done may be answered once its copy of line a is in a state.           *)
Loses(p, v) ==
  \A q \in L1s, a \in Addrs :
    Right(l1'[q][a]) = IF q = p /\ a = v THEN "none" ELSE Right(l1[q][a])
Answerable(a, state, done) ==
  \A r \in done : r[2] = a /\ (\/ a \in ThreadState \/ Right(state) = "write"
                               \/ Right(state) = "read" /\ r[1] = "LD")

LEMMA AbstractAsk ==
  ASSUME L1Types, NEW p \in L1s, NEW r \in Requests, NEW where, where # "idle",
         proc' = [proc EXCEPT ![p][r] = where], NEW v, Loses(p, v)
  PROVE  Abstract!Next
<1> DEFINE lost == {v} \intersect Addrs
<1>1. lost \in {{}} \union {{a} : a \in Addrs}
  OBVIOUS
<1>2. PendingOf(proc') = [PendingOf(proc) EXCEPT ![p] = @ \union {r}]
  <2>1. \A q \in L1s, s \in Requests :
          proc'[q][s] # "idle" <=> proc[q][s] # "idle" \/ (q = p /\ s = r)
    BY DEF L1Types
  <2>2. \A q \in L1s : {s \in Requests : proc'[q][s] # "idle"}
          = {s \in Requests : proc[q][s] # "idle"} \union (IF q = p THEN {r} ELSE {})
    BY <2>1
  <2> QED
    BY <2>2 DEF PendingOf
<1>3. RightsOf(l1') = [RightsOf(l1) EXCEPT ![p] =
                         [a \in Addrs |-> IF a \in lost THEN "none"
                                          ELSE RightsOf(l1)[p][a]]]
  BY DEF RightsOf, Loses
<1> HIDE DEF lost
<1>4. Abstract!Ask(p, r, lost)
  BY <1>2, <1>3 DEF Abstract!Ask, RightsOf, PendingOf
<1>5. r \in Abstract!Requests
  BY DEF Abstract!Requests, Requests
<1> QED
  BY <1>1, <1>4, <1>5 DEF Abstract!Next

(* An L1 that moves its copy of line a and answers the requests of done.    *)
LEMMA AbstractMove ==
  ASSUME L1Types, SingleWriter', NEW p \in L1s, NEW a \in Addrs, NEW state,
         l1' = [l1 EXCEPT ![p][a] = state],
         NEW done \in SUBSET Requests, NEW woken, Answer(p, done, woken),
         Answerable(a, state, done)
  PROVE  Abstract!Next
<1> DEFINE new == Right(state)
           gone == done \intersect {r \in Requests : proc[p][r] # "idle"}
<1>1. new \in {"none", "read", "write"}
  BY DEF Right
<1>2. \A q \in L1s, b \in Addrs :
        l1'[q][b] = IF q = p /\ b = a THEN state ELSE l1[q][b]
  BY DEF L1Types
<1>3. \A q \in L1s \ {p} : (new = "write" => Right(l1[q][a]) = "none")
                           /\ (new = "read" => Right(l1[q][a]) # "write")
  <2> TAKE q \in L1s \ {p}
  <2>1. l1'[q][a] = l1[q][a] /\ l1'[p][a] = state
    BY <1>2
  <2>2. /\ state \in {"Exclusive", "Modified"} => l1[q][a] \notin Readable
        /\ l1[q][a] \in {"Exclusive", "Modified"} => state \notin Readable
    BY <2>1 DEF SingleWriter
  <2> QED
    BY <2>2 DEF Right, Readable
<1>4. RightsOf(l1') = [RightsOf(l1) EXCEPT ![p][a] = new]
  <2>1. \A q \in L1s, b \in Addrs :
          Right(l1'[q][b]) = IF q = p /\ b = a THEN new ELSE Right(l1[q][b])
    BY <1>2
  <2> HIDE DEF new
  <2> QED
    BY <2>1 DEF RightsOf
<1>5. PendingOf(proc') = [PendingOf(proc) EXCEPT ![p] = @ \ gone]
  <2> DEFINE f == [r \in Requests |->
                     IF r \in done THEN "idle"
                     ELSE IF proc[p][r] = "wait"
                         /\ L1SetOf[r[2]] \in woken THEN "replay"
                     ELSE proc[p][r]]
  <2>1. proc' = [proc EXCEPT ![p] = f]
    BY DEF Answer
  <2>2. \A r \in Requests : f[r] # "idle" <=> proc[p][r] # "idle" /\ r \notin done
    OBVIOUS
  <2> HIDE DEF f
  <2>3. \A q \in L1s, r \in Requests :
          proc'[q][r] # "idle" <=> proc[q][r] # "idle" /\ ~(q = p /\ r \in done)
    BY <2>1, <2>2 DEF L1Types
  <2>4. \A q \in L1s : {r \in Requests : proc'[q][r] # "idle"}
          = {r \in Requests : proc[q][r] # "idle"} \ (IF q = p THEN gone ELSE {})
    BY <2>3
  <2> QED
    BY <2>4 DEF PendingOf
<1>6. \A r \in gone : r[2] = a /\ (a \in ThreadState \/ Abstract!Allows(new, r))
  BY DEF Abstract!Allows, Answerable
<1>7. gone \in SUBSET (PendingOf(proc)[p])
  BY DEF PendingOf
<1>8. PICK n, g : n = new /\ g = gone
  OBVIOUS
<1> HIDE DEF gone, new
<1>9. Abstract!Move(p, a, n, g)
  BY <1>3, <1>4, <1>5, <1>6, <1>8 DEF Abstract!Move, RightsOf, PendingOf
<1>10. n \in {"none", "read", "write"} /\ g \in SUBSET (PendingOf(proc)[p])
  BY <1>1, <1>7, <1>8
<1> QED
  BY <1>9, <1>10 DEF Abstract!Next, Abstract!Rights, PendingOf

LEMMA AskedStep ==
  ASSUME IInv, LoadsOnly, NEW p \in L1s, NEW r \in Requests,
         NEW where \in {"replay", "wait", "mshr", "tst"},
         proc' = [proc EXCEPT ![p][r] = where], l1' = l1,
         where = "mshr" /\ r[1] = "ST" => l1[p][r[2]] # "InvToShEx"
  PROVE  Abstract!Next /\ LoadsOnly'
<1>1. L1Types
  BY DEF IInv, L1Inv
<1>2. Loses(p, Unused)
  BY CmpInclAssumption DEF Loses
<1>3. Abstract!Next
  BY <1>1, <1>2, AbstractAsk
<1>4. ASSUME NEW q \in L1s, NEW a \in Addrs, l1'[q][a] = "InvToShEx"
      PROVE  proc'[q][<<"ST", a>>] # "mshr"
  <2>1. <<"ST", a>> \in Requests /\ proc[q][<<"ST", a>>] # "mshr"
    BY <1>4, RequestPairs DEF LoadsOnly
  <2>2. CASE q = p /\ r = <<"ST", a>>
    <3>1. proc'[p][r] = where /\ where # "mshr"
      BY <1>1, <1>4, <2>2 DEF L1Types
    <3> QED
      BY <2>2, <3>1
  <2>3. CASE ~(q = p /\ r = <<"ST", a>>)
    BY <1>1, <2>1, <2>3 DEF L1Types
  <2> QED
    BY <2>2, <2>3
<1> QED
  BY <1>3, <1>4 DEF LoadsOnly

LEMMA AnsweredStep ==
  ASSUME IInv, LoadsOnly, SingleWriter', NEW p \in L1s, NEW a \in Addrs, NEW state,
         l1' = [l1 EXCEPT ![p][a] = state], state = "InvToShEx" => l1[p][a] = state,
         NEW done \in SUBSET Requests, NEW woken, Answer(p, done, woken),
         Answerable(a, state, done)
  PROVE  Abstract!Next /\ LoadsOnly'
<1>1. L1Types
  BY DEF IInv, L1Inv
<1>2. Abstract!Next
  BY <1>1, AbstractMove
<1>3. /\ \A q \in L1s : q # p => proc'[q] = proc[q]
      /\ \A r \in Requests : proc'[p][r] = "mshr" => proc[p][r] = "mshr"
  BY <1>1, AnswerEffect
<1>4. ASSUME NEW q \in L1s, NEW b \in Addrs, l1'[q][b] = "InvToShEx"
      PROVE  proc'[q][<<"ST", b>>] # "mshr"
  <2>1. l1[q][b] = "InvToShEx"
    BY <1>1, <1>4 DEF L1Types
  <2>2. <<"ST", b>> \in Requests /\ proc[q][<<"ST", b>>] # "mshr"
    BY <2>1, RequestPairs DEF LoadsOnly
  <2> QED
    BY <1>3, <2>2
<1> QED
  BY <1>2, <1>4 DEF LoadsOnly

(* A request to the L2, of a line that was not in transit.                  *)
LEMMA MissStep ==
  ASSUME IInv, LoadsOnly, NEW p \in L1s, NEW r \in Requests, NEW v, v # r[2],
         NEW lines, \A a \in Addrs : a # v => lines[a] = l1[p][a],
         lines \in [Addrs -> L1State], v \in Addrs => Right(lines[v]) = "none",
         v \in Addrs => lines[v] \notin L1Transient,
         NEW type, NEW state, NEW first, Ask(p, r, type, state, lines, first),
         l1[p][r[2]] \notin L1Transient, Right(state) = Right(l1[p][r[2]]),
         state = "InvToShEx" => r[1] = "LD"
  PROVE  Abstract!Next /\ LoadsOnly'
<1>1. L1Types /\ \A q \in L1s, a \in Addrs : L1Match(q, a)
  BY DEF IInv, L1Inv
<1>2. /\ proc' = [proc EXCEPT ![p][r] = "mshr"] /\ r[2] \in Addrs
      /\ l1' = [l1 EXCEPT ![p] = [lines EXCEPT ![r[2]] = state]]
  BY RequestOf DEF Ask
<1>3. \A q \in L1s, a \in Addrs :
        l1'[q][a] = IF q # p THEN l1[q][a]
                    ELSE IF a = r[2] THEN state
                    ELSE lines[a]
  BY <1>1, <1>2 DEF L1Types
<1>4. Loses(p, v)
  BY <1>3 DEF Loses
<1>5. Abstract!Next
  <2>1. "mshr" # "idle"
    OBVIOUS
  <2> QED
    BY <1>1, <1>2, <1>4, <2>1, AbstractAsk
<1>6. ASSUME NEW q \in L1s, NEW a \in Addrs, l1'[q][a] = "InvToShEx"
      PROVE  proc'[q][<<"ST", a>>] # "mshr"
  <2>1. <<"ST", a>> \in Requests
    BY RequestPairs
  <2>2. CASE q = p /\ a = r[2]
    <3>1. proc[p][<<"ST", a>>] # "mshr"
      BY <1>1, <2>2 DEF L1Match
    <3>2. r # <<"ST", a>>
      BY <1>3, <1>6, <2>2, RequestOf
    <3> QED
      BY <1>1, <1>2, <2>1, <2>2, <3>1, <3>2 DEF L1Types
  <2>3. CASE ~(q = p /\ a = r[2])
    <3>1. l1[q][a] = "InvToShEx"
      BY <1>3, <1>6, <2>3 DEF L1Transient
    <3>2. proc[q][<<"ST", a>>] # "mshr" /\ ~(q = p /\ r = <<"ST", a>>)
      BY <2>3, <3>1, RequestOf DEF LoadsOnly
    <3> QED
      BY <1>1, <1>2, <2>1, <3>2 DEF L1Types
  <2> QED
    BY <2>2, <2>3
<1> QED
  BY <1>5, <1>6 DEF LoadsOnly

LEMMA MissAsks ==
  ASSUME IInv, LoadsOnly, NEW p \in L1s, NEW r \in Requests,
         NEW type, NEW state,
         (r[1] = "LD" /\ state = "InvToShEx") \/ state = "InvToMod",
         l1[p][r[2]] \in {"NotPresent", "Invalid"}, Miss(p, r, type, state)
  PROVE  Abstract!Next /\ LoadsOnly'
<1> DEFINE absent == l1[p][r[2]] = "NotPresent"
           victims == IF absent THEN L1Victims(p, L1SetOf[r[2]]) ELSE {Unused}
<1>1. CASE \E where \in {"replay", "wait"} : Stall(p, r, where)
  BY <1>1, AskedStep DEF Stall
<1>2. ASSUME NEW v \in victims,
             Ask(p, r, type, state, L1Evict(p, v), L1EvictMsg(p, v))
      PROVE  Abstract!Next /\ LoadsOnly'
  <2>1. L1Types /\ r[2] \in Addrs
    BY RequestOf DEF IInv, L1Inv
  <2>2. v = Unused \/ (v \in Addrs /\ l1[p][v] \in L1Replaceable \union {"Invalid"})
    BY DEF L1Victims, L1Ways
  <2>3. v # r[2]
    <3>1. Unused # r[2]
      BY <2>1, CmpInclAssumption
    <3>2. CASE v # Unused
      <4>1. absent /\ v \in L1Ways(p, L1SetOf[r[2]])
        BY <3>2 DEF L1Victims
      <4> QED
        BY <4>1 DEF L1Ways
    <3> QED
      BY <3>1, <3>2
  <2>4. /\ L1Evict(p, v) \in [Addrs -> L1State]
        /\ \A a \in Addrs : a # v => L1Evict(p, v)[a] = l1[p][a]
    BY <2>1, <2>2, VictimLeaves
  <2>5. v \in Addrs => L1Evict(p, v)[v] \in {"ShToInv", "ModToInv", "NotPresent"}
    BY DEF L1Evict
  <2>6. /\ v \in Addrs => Right(L1Evict(p, v)[v]) = "none"
        /\ v \in Addrs => L1Evict(p, v)[v] \notin L1Transient
    BY <2>5 DEF Right, L1Transient
  <2>7. /\ l1[p][r[2]] \notin L1Transient /\ Right(state) = Right(l1[p][r[2]])
        /\ state = "InvToShEx" => r[1] = "LD"
    BY DEF Right, L1Transient
  <2> QED
    BY <1>2, <2>3, <2>4, <2>6, <2>7, MissStep
<1> HIDE DEF victims
<1>3. \/ \E where \in {"replay", "wait"} : Stall(p, r, where)
      \/ \E v \in victims : Ask(p, r, type, state, L1Evict(p, v), L1EvictMsg(p, v))
  BY DEF Miss, victims
<1> QED
  BY <1>1, <1>2, <1>3

LEMMA HitStep ==
  ASSUME IInv, LoadsOnly, SingleWriter', NEW p \in L1s, NEW r \in Requests,
         NEW state, Hit(p, r, state), state # "InvToShEx",
         \/ Right(state) = "write"
         \/ Right(state) = "read" /\ r[1] = "LD"
  PROVE  Abstract!Next /\ LoadsOnly'
<1>1. r[2] \in Addrs
  BY RequestOf
<1>2. l1' = [l1 EXCEPT ![p][r[2]] = state] /\ Answer(p, {r}, {})
  BY DEF Hit, SetLine
<1>3. {r} \in SUBSET Requests
  OBVIOUS
<1>4. Answerable(r[2], state, {r})
  BY DEF Answerable
<1> QED
  BY <1>1, <1>2, <1>3, <1>4, AnsweredStep

LEMMA LoadAbstract ==
  ASSUME IInv, LoadsOnly, SingleWriter', NEW p \in L1s, NEW a \in Addrs, ProcLD(p, a)
  PROVE  Abstract!Next /\ LoadsOnly'
<1> DEFINE r == <<"LD", a>>
           st == l1[p][a]
<1>1. r \in Requests /\ r[2] = a /\ r[1] = "LD"
  BY RequestPairs
<1> HIDE DEF r
<1>2. CASE st \in {"NotPresent", "Invalid"} /\ Miss(p, r, "Read", "InvToShEx")
  BY <1>1, <1>2, MissAsks
<1>3. CASE Merge(p, r) \/ \E where \in {"replay", "wait"} : Stall(p, r, where)
  BY <1>1, <1>3, AskedStep DEF Stall, Merge
<1>4. CASE st \in {"Shared", "Exclusive", "Modified", "ShToMod"} /\ Hit(p, r, st)
  <2>1. st # "InvToShEx" /\ Right(st) \in {"read", "write"}
    BY <1>4 DEF Right
  <2> QED
    BY <1>1, <1>4, <2>1, HitStep
<1> QED
  BY <1>2, <1>3, <1>4 DEF ProcLD, r

LEMMA StoreAbstract ==
  ASSUME IInv, LoadsOnly, SingleWriter', NEW p \in L1s, NEW a \in Addrs, ProcST(p, a)
  PROVE  Abstract!Next /\ LoadsOnly'
<1> DEFINE r == <<"ST", a>>
           st == l1[p][a]
<1>1. r \in Requests /\ r[2] = a /\ r[1] = "ST"
  BY RequestPairs
<1> HIDE DEF r
<1>2. CASE st \in {"NotPresent", "Invalid"} /\ Miss(p, r, "ReadEx", "InvToMod")
  BY <1>1, <1>2, MissAsks
<1>3. CASE st # "InvToShEx" /\ Merge(p, r)
  BY <1>1, <1>3, AskedStep DEF Merge
<1>4. CASE \E where \in {"replay", "wait"} : Stall(p, r, where)
  BY <1>1, <1>4, AskedStep DEF Stall
<1>5. CASE st = "Shared" /\ Ask(p, r, "Upgrade", "ShToMod", l1[p], <<>>)
  <2>1. /\ Right("ShToMod") = Right(st) /\ st \notin L1Transient
        /\ "ShToMod" # "InvToShEx"
    BY <1>5 DEF Right, L1Transient
  <2>2. Unused \notin Addrs /\ Unused # r[2] /\ l1[p] \in [Addrs -> L1State]
    BY <1>1, CmpInclAssumption DEF IInv, L1Inv, L1Types
  <2>3. \A b \in Addrs : b # Unused => l1[p][b] = l1[p][b]
    OBVIOUS
  <2> QED
    BY <1>1, <1>5, <2>1, <2>2, <2>3, MissStep
<1>6. CASE st \in {"Exclusive", "Modified"} /\ Hit(p, r, "Modified")
  <2>1. "Modified" # "InvToShEx" /\ Right("Modified") = "write"
    BY DEF Right
  <2> QED
    BY <1>1, <1>6, <2>1, HitStep
<1> QED
  BY <1>2, <1>3, <1>4, <1>5, <1>6 DEF ProcST, r

LEMMA ThreadStateAbstract ==
  ASSUME IInv, LoadsOnly, NEW p \in L1s, NEW r \in Requests, ProcTST(p, r)
  PROVE  Abstract!Next /\ LoadsOnly'
BY AskedStep DEF ProcTST

(* The messages that an L1 receives.                                        *)
LEMMA MoveStep ==
  ASSUME IInv, LoadsOnly, SingleWriter', NEW p \in L1s, NEW m, m.addr \in Addrs,
         NEW state, SetLine(p, m.addr, state), state # "InvToShEx",
         NEW out, NEW woken, Received(p, m, out, {}, woken)
  PROVE  Abstract!Next /\ LoadsOnly'
<1>1. Answer(p, {}, woken) /\ l1' = [l1 EXCEPT ![p][m.addr] = state]
  BY DEF Received, SetLine
<1>2. {} \in SUBSET Requests /\ \A a, s : Answerable(a, s, {})
  BY DEF Answerable
<1> QED
  BY <1>1, <1>2, AnsweredStep

LEMMA SameLineStep ==
  ASSUME IInv, LoadsOnly, SingleWriter', NEW p \in L1s, NEW m, m.addr \in Addrs,
           l1' = l1,
         NEW out, NEW woken, Received(p, m, out, {}, woken)
  PROVE  Abstract!Next /\ LoadsOnly'
<1>1. Answer(p, {}, woken) /\ l1' = [l1 EXCEPT ![p][m.addr] = l1[p][m.addr]]
  BY DEF Received, IInv, L1Inv, L1Types
<1>2. {} \in SUBSET Requests /\ \A a, s : Answerable(a, s, {})
  BY DEF Answerable
<1> QED
  BY <1>1, <1>2, AnsweredStep

LEMMA FillStep ==
  ASSUME IInv, LoadsOnly, SingleWriter', NEW p \in L1s, NEW m, m.addr \in Addrs,
         NEW state, Fill(p, m, state),
         \/ state \in {"Exclusive", "Modified"}
         \/ state = "Shared" /\ l1[p][m.addr] = "InvToShEx"
  PROVE  Abstract!Next /\ LoadsOnly'
<1> DEFINE a == m.addr
<1>1. /\ l1' = [l1 EXCEPT ![p][a] = state]
      /\ Answer(p, Held(p, a), L1FreedMshr(p, a))
  BY DEF Fill, SetLine, Received
<1>2. Held(p, a) \in SUBSET Requests
  BY DEF Held
<1>3. ASSUME NEW r \in Held(p, a)
      PROVE  /\ r[2] = a
             /\ Right(state) = "write" \/ (Right(state) = "read" /\ r[1] = "LD")
  <2>1. r \in Requests /\ r[2] = a /\ proc[p][r] = "mshr"
    BY DEF Held
  <2>2. CASE state \in {"Exclusive", "Modified"}
    BY <2>1, <2>2 DEF Right
  <2>3. CASE state = "Shared" /\ l1[p][a] = "InvToShEx"
    <3>1. r # <<"ST", a>>
      BY <2>1, <2>3 DEF LoadsOnly
    <3>2. r[1] = "LD"
      BY <2>1, <3>1, RequestOf
    <3> QED
      BY <2>1, <2>3, <3>2 DEF Right
  <2> QED
    BY <2>2, <2>3
<1>4. state # "InvToShEx" /\ Answerable(a, state, Held(p, a))
  BY <1>3 DEF Answerable
<1> QED
  BY <1>1, <1>2, <1>4, AnsweredStep

LEMMA L1ReceiveAbstract ==
  ASSUME IInv, LoadsOnly, SingleWriter', NEW p \in L1s, NEW m \in Arriving(p),
         L1Receive(p, m)
  PROVE  (Abstract!Next /\ LoadsOnly') \/ UNCHANGED <<l1, proc>>
<1> DEFINE a == m.addr
           st == l1[p][a]
           Good == Abstract!Next /\ LoadsOnly'
<1>1. a \in Addrs
  BY ReceiveFacts DEF Message, IInv
<1>2. \A s \in {"NotPresent", "Invalid", "Shared", "ModToInv"} : s # "InvToShEx"
  OBVIOUS
<1>3. Drop1(p, m) => Good
  BY <1>1, SameLineStep DEF Drop1
<1>4. Release(p, m) => Good
  BY <1>1, MoveStep DEF Release
<1>5. \A where : Fail(where) => UNCHANGED <<l1, proc>>
  BY DEF Fail, l1vars
<1>6. ASSUME L1DataShared(p, m) \/ L1DataExclusive(p, m) \/ L1UpgradeAck(p, m)
      PROVE  Good \/ UNCHANGED <<l1, proc>>
  <2>1. \/ \E state \in {"Exclusive", "Modified"} : Fill(p, m, state)
        \/ Fill(p, m, "Shared") /\ st = "InvToShEx"
        \/ Drop1(p, m) \/ \E where : Fail(where)
    BY <1>6 DEF L1DataShared, L1DataExclusive, L1UpgradeAck
  <2> QED
    BY <1>1, <1>3, <1>5, <2>1, FillStep
<1>7. ASSUME L1Invalidate(p, m)
      PROVE  Good \/ UNCHANGED <<l1, proc>>
  <2>1. \/ Drop1(p, m) \/ Release(p, m) \/ \E where : Fail(where)
        \/ \E state \in {"Invalid", "InvToMod"} : \E out, woken :
             SetLine(p, a, state) /\ Received(p, m, out, {}, woken)
    BY <1>7 DEF L1Invalidate
  <2> QED
    BY <1>1, <1>3, <1>4, <1>5, <2>1, MoveStep
<1>8. ASSUME L1ReadFwd(p, m) \/ L1ReadExFwd(p, m)
      PROVE  Good \/ UNCHANGED <<l1, proc>>
  <2>1. \/ \E where : Fail(where)
        \/ \E out, woken : l1' = l1 /\ Received(p, m, out, {}, woken)
        \/ \E state \in {"Invalid", "Shared", "ModToInv"} : \E out, woken :
             SetLine(p, a, state) /\ Received(p, m, out, {}, woken)
    BY <1>8 DEF L1ReadFwd, L1ReadExFwd
  <2> QED
    BY <1>1, <1>5, <2>1, MoveStep, SameLineStep
<1>9. ASSUME L1WriteBackAck(p, m) \/ L1ReplaceAck(p, m)
      PROVE  Good \/ UNCHANGED <<l1, proc>>
  BY <1>3, <1>4, <1>5, <1>9 DEF L1WriteBackAck, L1ReplaceAck
<1>10. ASSUME L1TSTResp(p, m)
       PROVE  Good
  <2>1. PICK r \in Requests : r[2] = a /\ Received(p, m, <<>>, {r}, {L1SetOf[a]})
    BY <1>10 DEF L1TSTResp
  <2>2. a \in ThreadState /\ l1' = [l1 EXCEPT ![p][a] = st]
    BY <1>10 DEF L1TSTResp, IInv, L1Inv, L1Types
  <2>3. /\ Answer(p, {r}, {L1SetOf[a]}) /\ {r} \in SUBSET Requests
        /\ Answerable(a, st, {r})
    BY <2>1, <2>2 DEF Received, Answerable
  <2> QED
    BY <1>1, <2>2, <2>3, AnsweredStep
<1> QED
  BY <1>6, <1>7, <1>8, <1>9, <1>10 DEF L1Receive

LEMMA StepAbstract ==
  ASSUME IInv, LoadsOnly, SingleWriter', [Next]_vars
  PROVE  /\ [Abstract!Next]_<<RightsOf(l1), PendingOf(proc)>>
         /\ LoadsOnly'
<1>1. ASSUME UNCHANGED <<l1, proc>>
      PROVE  UNCHANGED <<RightsOf(l1), PendingOf(proc)>> /\ LoadsOnly'
  BY <1>1 DEF RightsOf, PendingOf, LoadsOnly
<1>2. ASSUME NEW p \in L1s, NEW a \in Addrs, ProcLD(p, a) \/ ProcST(p, a)
      PROVE  Abstract!Next /\ LoadsOnly'
  BY <1>2, LoadAbstract, StoreAbstract
<1>3. ASSUME NEW p \in L1s, NEW r \in Requests, ProcTST(p, r)
      PROVE  Abstract!Next /\ LoadsOnly'
  BY <1>3, ThreadStateAbstract
<1>4. ASSUME NEW p \in L1s, NEW m \in Arriving(p), L1Receive(p, m)
      PROVE  (Abstract!Next /\ LoadsOnly') \/ UNCHANGED <<l1, proc>>
  BY <1>4, L1ReceiveAbstract
<1>5. ASSUME NEW m, L2Process(m)
      PROVE  UNCHANGED <<l1, proc>>
  <2>1. \A out, woken : Done(m, out, woken) => UNCHANGED <<l1, proc>>
    BY DEF Done, l1vars
  <2>2. /\ Poll(m) => UNCHANGED <<l1, proc>>
        /\ Block(m) => UNCHANGED <<l1, proc>>
        /\ \A where : Fail(where) => UNCHANGED <<l1, proc>>
    BY DEF Poll, Block, Fail, l1vars
  <2>3. /\ \A v, sh : Insert(m, v, sh) => UNCHANGED <<l1, proc>>
        /\ \A out, state, sh : Reply(m, out, state, sh) => UNCHANGED <<l1, proc>>
        /\ \A sh : Collect(m, sh) => UNCHANGED <<l1, proc>>
    BY <2>1, <2>2 DEF Insert, Reply, Collect
  <2>4. /\ \A sh : L2Miss(m, sh) => UNCHANGED <<l1, proc>>
        /\ HandOver(m) => UNCHANGED <<l1, proc>>
        /\ SharerGone(m) => UNCHANGED <<l1, proc>>
    BY <2>1, <2>2, <2>3 DEF L2Miss, HandOver, SharerGone
  <2>5. L2Read(m) \/ L2ReadEx(m) \/ L2Upgrade(m) \/ L2TST(m) => UNCHANGED <<l1, proc>>
    BY <2>1, <2>2, <2>3, <2>4 DEF L2Read, L2ReadEx, L2Upgrade, L2TST
  <2>6. L2Replace(m) \/ L2InvAck(m) \/ L2WriteBack(m) \/ L2FwdAckData(m)
        => UNCHANGED <<l1, proc>>
    BY <2>1, <2>2, <2>3, <2>4 DEF L2Replace, L2InvAck, L2WriteBack, L2FwdAckData
  <2> QED
    BY <1>5, <2>5, <2>6 DEF L2Process
<1>6. ASSUME NEW a \in Addrs, MemoryResponse(a)
      PROVE  UNCHANGED <<l1, proc>>
  BY <1>6 DEF MemoryResponse, l1vars
<1>7. UNCHANGED vars => UNCHANGED <<l1, proc>>
  BY DEF vars, l1vars
<1> QED
  BY <1>1, <1>2, <1>3, <1>4, <1>5, <1>6, <1>7 DEF Next

(* Every step of the protocol is a step of Coherence or leaves the rights   *)
(* and the open requests alone: a load is answered only from a copy that no *)
(* one can write, a store only by the sole owner, at the step of the        *)
(* answer, whatever messages cross.                                         *)
THEOREM Implements == Spec => Coherent
<1>1. Init => LoadsOnly
  BY RequestPairs DEF Init, LoadsOnly
<1>2. Init => Abstract!Init
  <2>1. Init => RightsOf(l1) = [p \in L1s |-> [a \in Addrs |-> "none"]]
    BY DEF Init, RightsOf, Right
  <2>2. Init => PendingOf(proc) = [p \in L1s |-> {}]
    BY DEF Init, PendingOf
  <2> QED
    BY <2>1, <2>2 DEF Abstract!Init, RightsOf, PendingOf
<1>3. IInv /\ Coh => SingleWriter
  BY CohWriter
<1>4. /\ IInv /\ Coh /\ LoadsOnly /\ SingleWriter' /\ [Next]_vars
      => [Abstract!Next]_<<RightsOf(l1), PendingOf(proc)>> /\ LoadsOnly'
  BY StepAbstract
<1> QED
  BY <1>1, <1>2, <1>3, <1>4, AlwaysCoh, PTL
  DEF Spec, Coherent, Abstract!Spec, RightsOf, PendingOf

-----------------------------------------------------------------------------
(* The messages to a bank, without a bandwidth of the links: in the list of *)
(* a port every write-back whose source has left the directory is behind no *)
(* message that ends the time its line is with an L1, and meets the line    *)
(* before the L2 can share it again.                                        *)

(* A stale write-back lives on lent time: who is to get the line from its   *)
(* source has it not yet, so the owner in the directory cannot have ended   *)
(* the time already.                                                        *)
LEMMA OwedAlone ==
  ASSUME NEW x, LineInv(x), NEW p \in L1s, p \notin x.dir, Owes(x, "ReadExFwd", p),
         Holds(x, p)
  PROVE  /\ x.l2 \in Lent
         /\ \A q \in L1s : /\ ~In(x, "FwdAckData", q)
                           /\ q \in x.dir => ~In(x, "WriteBack", q)
<1>1. HomeInv(x) /\ SharingInv(x) /\ OwningInv(x) /\ x.l2 \in L2State
  BY DEF LineInv, LineTypes
<1>2. ~Sharing(x)
  BY <1>1 DEF SharingInv
<1>3. PICK k \in [L1s -> Int], o \in L1s : ChainInv(x, k, o)
  BY <1>1, <1>2 DEF OwningInv
<1>4. x.l2 \in Lent
  BY <1>1, <1>2 DEF Sharing, Lent, L2State, L2Transient, L2Buffered, L2Replaceable
<1>5. \A q \in L1s : ~In(x, "FwdAckData", q)
  BY <1>1, <1>2 DEF HomeInv, Sharing
<1>6. \A q \in L1s : Holds(x, q) => q = p
  BY <1>3 DEF ChainInv
<1>7. \A q \in L1s : q \in x.dir /\ In(x, "WriteBack", q) => Holds(x, q)
  BY DEF Holds
<1> QED
  BY <1>4, <1>5, <1>6, <1>7

LEMMA OutedHolds ==
  ASSUME NEW x, LineInv(x), NEW p \in L1s, In(x, "WriteBack", p), p \notin x.dir
  PROVE  x.lines[p] = "ModToInv" /\ ~Asking(x, p)
<1>1. GoneInv(x, p) /\ TokenInv(x, p)
  BY DEF LineInv, CopyInv
<1>2. x.lines[p] = "ModToInv"
  BY <1>1 DEF GoneInv, Leaves, L1Buffered
<1> QED
  BY <1>1, <1>2 DEF TokenInv, Asking

-----------------------------------------------------------------------------
(* The lists.                                                               *)

LEMMA PromptTail ==
  ASSUME NEW S, NEW s \in Seq(S), s # <<>>, NEW sh, Prompt(sh, s)
  PROVE  /\ Prompt(sh, Tail(s))
         /\ \A n \in Range(Tail(s)) : n \in Range(s) /\ ~Overtaken(sh, Head(s), n)
<1> DEFINE t == Tail(s)
<1>1. /\ Len(s) \in Nat /\ Len(s) # 0 /\ Len(t) = Len(s) - 1 /\ Head(s) = s[1]
      /\ t \in Seq(S) /\ \A i \in 1 .. Len(t) : t[i] = s[i + 1]
  OBVIOUS
<1> HIDE DEF t
<1>2. \A i, j \in 1 .. Len(t) : i < j => ~Overtaken(sh, t[i], t[j])
  <2> SUFFICES ASSUME NEW i \in 1 .. Len(t), NEW j \in 1 .. Len(t), i < j
               PROVE  ~Overtaken(sh, t[i], t[j])
    OBVIOUS
  <2>1. i + 1 \in 1 .. Len(s) /\ j + 1 \in 1 .. Len(s) /\ i + 1 < j + 1
    BY <1>1
  <2> QED
    BY <1>1, <2>1 DEF Prompt
<1>3. \A n \in Range(t) : \E j \in 1 .. Len(s) : 1 < j /\ n = s[j]
  <2> TAKE n \in Range(t)
  <2>1. PICK i \in 1 .. Len(t) : n = t[i]
    BY <1>1 DEF Range
  <2>2. i + 1 \in 1 .. Len(s) /\ 1 < i + 1
    BY <1>1
  <2> QED
    BY <1>1, <2>1, <2>2
<1>4. 1 \in 1 .. Len(s) /\ \A j \in 1 .. Len(s) : s[j] \in Range(s)
  BY <1>1 DEF Range
<1> QED
  BY <1>1, <1>2, <1>3, <1>4 DEF Prompt, t

LEMMA PromptConcat ==
  ASSUME NEW S, NEW s \in Seq(S), NEW t \in Seq(S), NEW sh, Prompt(sh, s),
           Prompt(sh, t),
         \A u \in Range(s), v \in Range(t) : ~Overtaken(sh, u, v)
  PROVE  Prompt(sh, s \o t)
<1> DEFINE w == s \o t
           n == Len(s)
<1>1. /\ w \in Seq(S) /\ Len(w) = n + Len(t) /\ n \in Nat /\ Len(t) \in Nat
      /\ \A i \in 1 .. n + Len(t) : w[i] = IF i <= n THEN s[i] ELSE t[i - n]
  BY ConcatProperties
<1>2. /\ \A i \in 1 .. n : s[i] \in Range(s)
      /\ \A i \in 1 .. Len(t) : t[i] \in Range(t)
  BY DEF Range
<1> HIDE DEF w, n
<1> SUFFICES ASSUME NEW i \in 1 .. n + Len(t), NEW j \in 1 .. n + Len(t), i < j
             PROVE  ~Overtaken(sh, w[i], w[j])
  BY <1>1 DEF Prompt, w
<1>3. CASE j <= n
  <2>1. i \in 1 .. Len(s) /\ j \in 1 .. Len(s)
    BY <1>1, <1>3 DEF n
  <2>2. w[i] = s[i] /\ w[j] = s[j]
    BY <1>1, <1>3
  <2> QED
    BY <2>1, <2>2 DEF Prompt
<1>4. CASE n < i
  <2>1. i - n \in 1 .. Len(t) /\ j - n \in 1 .. Len(t) /\ i - n < j - n
    BY <1>1, <1>4
  <2>2. w[i] = t[i - n] /\ w[j] = t[j - n]
    BY <1>1, <1>4
  <2> QED
    BY <2>1, <2>2 DEF Prompt
<1>5. CASE i <= n /\ n < j
  <2>1. i \in 1 .. n /\ j - n \in 1 .. Len(t)
    BY <1>1, <1>5
  <2>2. w[i] = s[i] /\ w[j] = t[j - n]
    BY <1>1, <1>5
  <2> QED
    BY <1>2, <2>1, <2>2
<1> QED
  BY <1>1, <1>3, <1>4, <1>5

(* The port of a bank is a link, and its messages are to the bank.          *)
LEMMA PortIs ==
  ASSUME ~LinkBandwidth, NEW b \in Banks
  PROVE  Port(b) \in Links /\ b \notin L1s
BY CmpInclAssumption DEF Port, Links

LEMMA PortMessage ==
  ASSUME ~LinkBandwidth, NetInv, NEW b \in Banks, NEW n \in Range(net[Port(b)])
  PROVE  /\ n \in InFlight /\ n.type \in ToL2 /\ n.src \in L1s /\ n.addr \in Addrs
         /\ BankOf[n.addr] = b
<1>1. Proper(n) /\ Link(n) = Port(b) /\ Port(b) \in Links /\ b \notin L1s
  BY PortIs DEF NetInv, Traffic
<1>2. n.dst = b
  BY <1>1 DEF Link, Port
<1>3. n.type \in ToL1 \union ToL2 /\ n.addr \in Addrs
  BY <1>1, ProperOfMessage
<1>4. n.type \in ToL2
  BY <1>1, <1>2, <1>3 DEF Proper
<1>5. n \in InFlight
  BY <1>1 DEF InFlight
<1> QED
  BY <1>1, <1>2, <1>3, <1>4, <1>5 DEF Proper

(* What the caches get does not go through the ports.                       *)
LEMMA PortsSame ==
  ASSUME ~LinkBandwidth, NEW n, Traffic(n), NEW out, Outgoing(out),
         \A v \in Range(out) : v.type \in ToL1, NEW b \in Banks
  PROVE  Post(n, out)[Port(b)] = n[Port(b)]
<1> DEFINE K == {i \in 1 .. Len(out) : Link(out[i]) = Port(b)}
<1>1. Port(b) \in Links /\ b \notin L1s
  BY PortIs
<1>2. out \in Seq(Message) /\ n[Port(b)] \in Seq(Message)
    /\ K \in SUBSET (1 .. Len(out))
  BY <1>1 DEF Outgoing, Traffic
<1>3. ASSUME NEW v \in Range(out)
      PROVE  Link(v) # Port(b)
  <2>1. v.dst \in L1s
    BY <1>3 DEF Outgoing, Proper
  <2> QED
    BY <1>1, <2>1 DEF Link, Port
<1>4. \A i \in 1 .. Len(out) : out[i] \in Range(out)
  BY <1>2 DEF Range
<1>5. K = {}
  BY <1>3, <1>4
<1>6. Pick(out, K) = <<>>
  BY <1>2, <1>5, PickEmpty
<1>7. Post(n, out)[Port(b)] = n[Port(b)] \o Pick(out, K)
  BY <1>1 DEF Post
<1> HIDE DEF K
<1> QED
  BY <1>2, <1>6, <1>7

-----------------------------------------------------------------------------
(* What an L1 does to the ports.                                            *)

(* An L1 sends one message at a time that a port cares for, and writes back *)
(* what it could write.                                                     *)
Parting(m) == m.type = "FwdAckData" \/ WritesBack(m)
Quiet(out) ==
  \A i \in 1 .. Len(out) : WritesBack(out[i]) =>
    /\ out[i].src \in L1s /\ l1[out[i].src][out[i].addr] \in Owned
    /\ \A j \in 1 .. Len(out) : Parting(out[j]) => i = j

LEMMA FreshStale ==
  ASSUME IInv, Coh, NEW p \in L1s, NEW a \in Addrs, l1[p][a] \in Owned,
           p \notin sharers[a]
  PROVE  /\ l2[a] \in Lent
         /\ \A u \in InFlight : u.addr = a => ~Ends(sharers, u)
<1> DEFINE x == View(a)
<1>1. /\ a \in Addrs \ ThreadState /\ LineInv(x) /\ x.lines[p] = l1[p][a]
      /\ x.dir = sharers[a] /\ x.l2 = l2[a] /\ NetInv
  BY StateLinesAbsent DEF Owned, View, IInv
<1>2. \A u \in InFlight : u.addr = a => Mark(u) \in x.msgs /\ Proper(u)
  BY <1>1, InView, TrafficProper
<1> HIDE DEF x
<1>3. Owes(x, "ReadExFwd", p)
  BY <1>1 DEF LineInv, CopyInv, EntryInv, Present, Readable, Owned
<1>4. Holds(x, p)
  BY <1>1 DEF Holds
<1>5. /\ x.l2 \in Lent
      /\ \A q \in L1s : /\ ~In(x, "FwdAckData", q)
                        /\ q \in x.dir => ~In(x, "WriteBack", q)
  BY <1>1, <1>3, <1>4, OwedAlone
<1>6. ASSUME NEW u \in InFlight, u.addr = a, Ends(sharers, u)
      PROVE  FALSE
  <2>1. u.src \in L1s
    BY <1>2, <1>6 DEF Proper, Ends, WritesBack, ToL2
  <2>2. CASE u.type = "FwdAckData"
    <3>1. Mark(u) = <<"FwdAckData", u.src, u.src>>
      BY <2>2 DEF Mark, Forwards, ToL1
    <3> QED
      BY <1>2, <1>5, <1>6, <2>1, <3>1 DEF In
  <2>3. CASE WritesBack(u) /\ u.src \in sharers[a]
    <3>1. Mark(u) = <<"WriteBack", u.src, u.src>>
      BY <2>3 DEF Mark, Forwards, ToL1, WritesBack
    <3> QED
      BY <1>1, <1>2, <1>5, <1>6, <2>1, <2>3, <3>1 DEF In
  <2> QED
    BY <1>6, <2>2, <2>3 DEF Ends
<1> QED
  BY <1>1, <1>5, <1>6

LEMMA PicksOrdered ==
  ASSUME NEW S, NEW s \in Seq(S), NEW K \in SUBSET (1 .. Len(s))
  PROVE  \A i, j \in 1 .. Cardinality(K) :
           i < j => \E k, m \in K : k < m /\ Pick(s, K)[i] = s[k]
               /\ Pick(s, K)[j] = s[m]
<1> SUFFICES ASSUME NEW i \in 1 .. Cardinality(K), NEW j \in 1 .. Cardinality(K),
                      i < j
             PROVE  \E k, m \in K : k < m /\ Pick(s, K)[i] = s[k]
                      /\ Pick(s, K)[j] = s[m]
  OBVIOUS
<1> QED
  BY PickOrdered

LEMMA QuietPick ==
  ASSUME NEW S, NEW s \in Seq(S), NEW K \in SUBSET (1 .. Len(s)), NEW sh, Quiet(s)
  PROVE  Prompt(sh, Pick(s, K))
<1>1. Len(Pick(s, K)) = Cardinality(K)
  BY PickProperties
<1>2. \A i, j \in 1 .. Cardinality(K) :
        i < j => \E k, m \in K : k < m /\ Pick(s, K)[i] = s[k] /\ Pick(s, K)[j] = s[m]
  BY PicksOrdered
<1> SUFFICES ASSUME NEW i \in 1 .. Cardinality(K), NEW j \in 1 .. Cardinality(K),
                      i < j
             PROVE  ~Overtaken(sh, Pick(s, K)[i], Pick(s, K)[j])
  BY <1>1 DEF Prompt
<1>3. PICK k, m \in K : k < m /\ Pick(s, K)[i] = s[k] /\ Pick(s, K)[j] = s[m]
  BY <1>2
<1>4. ~(WritesBack(s[m]) /\ Parting(s[k]))
  BY <1>3 DEF Quiet
<1> QED
  BY <1>3, <1>4 DEF Overtaken, Ends, Stale, Parting

LEMMA QuietStep ==
  ASSUME ~LinkBandwidth, IInv, Coh, PortInv, l2' = l2, sharers' = sharers,
         NEW n, Traffic(n), \A b \in Banks : n[Port(b)] = net[Port(b)],
         NEW out, Outgoing(out), Quiet(out), net' = Post(n, out)
  PROVE  PortInv'
<1> SUFFICES ASSUME NEW b \in Banks
             PROVE  /\ Prompt(sharers, net'[Port(b)])
                    /\ \A m \in Range(net'[Port(b)]) : Stale(sharers, m)
                        => l2[m.addr] \in Lent
  BY DEF PortInv
<1> DEFINE s == net[Port(b)]
           K == {i \in 1 .. Len(out) : Link(out[i]) = Port(b)}
           P == Pick(out, K)
<1>1. /\ Port(b) \in Links /\ s \in Seq(Message) /\ out \in Seq(Message)
      /\ K \in SUBSET (1 .. Len(out)) /\ NetInv
  BY PortIs DEF IInv, NetInv, Traffic, Outgoing
<1>2. net'[Port(b)] = s \o P
  BY <1>1 DEF Post
<1>3. /\ P \in Seq(Message) /\ Len(P) = Cardinality(K)
          /\ Range(P) = {out[k] : k \in K}
  BY <1>1, PickProperties
<1>4. /\ Prompt(sharers, s)
      /\ \A m \in Range(s) : Stale(sharers, m) => l2[m.addr] \in Lent
  BY DEF PortInv
<1>5. \A i \in 1 .. Len(out) : out[i] \in Range(out) /\ out[i].addr \in Addrs
  BY <1>1, ProperOfMessage DEF Range, Outgoing
<1>6. Prompt(sharers, P)
  BY <1>1, QuietPick
<1>7. ASSUME NEW v \in Range(P), Stale(sharers, v)
      PROVE  /\ l2[v.addr] \in Lent
             /\ \A u \in Range(s) : ~Overtaken(sharers, u, v)
  <2>1. PICK k \in 1 .. Len(out) : v = out[k]
    BY <1>3, <1>7
  <2>2. v.src \in L1s /\ v.addr \in Addrs /\ l1[v.src][v.addr] \in Owned
    BY <1>5, <1>7, <2>1 DEF Quiet, Stale
  <2>3. v.src \notin sharers[v.addr]
    BY <1>7 DEF Stale
  <2>4. /\ l2[v.addr] \in Lent
        /\ \A u \in InFlight : u.addr = v.addr => ~Ends(sharers, u)
    BY <2>2, <2>3, FreshStale
  <2>5. Range(s) \subseteq InFlight
    BY <1>1, PortMessage
  <2> QED
    BY <2>4, <2>5 DEF Overtaken
<1> HIDE DEF P, K, s
<1>8. Prompt(sharers, s \o P)
  <2>1. \A u \in Range(s), v \in Range(P) : ~Overtaken(sharers, u, v)
    BY <1>7 DEF Overtaken
  <2> QED
    BY <1>1, <1>3, <1>4, <1>6, <2>1, PromptConcat
<1>9. Range(s \o P) = Range(s) \union Range(P)
  BY <1>1, <1>3, ConcatRange
<1> QED
  BY <1>2, <1>4, <1>7, <1>8, <1>9

LEMMA SilentPorts ==
  ASSUME PortInv, l2' = l2, sharers' = sharers, net' = net
  PROVE  PortInv'
BY DEF PortInv

LEMMA QuietOne ==
  ASSUME NEW m, WritesBack(m) => m.src \in L1s /\ l1[m.src][m.addr] \in Owned
  PROVE  Quiet(<<>>) /\ Quiet(<< m >>)
BY DEF Quiet

LEMMA SecondAppended ==
  ASSUME NEW S, NEW s \in Seq(S), NEW d \in S, Len(s) = 1
  PROVE  Len(Append(s, d)) = 2 /\ Append(s, d)[1] = s[1] /\ Append(s, d)[2] = d
<1>1. Append(s, d) \in Seq(S) /\ Len(Append(s, d)) = Len(s) + 1
  BY AppendProperties
<1>2. Append(s, d)[Len(Append(s, d))] = d
  BY AppendProperties
<1>3. \A i \in 1 .. Len(s) : Append(s, d)[i] = s[i]
  BY AppendProperties
<1>4. 1 \in 1 .. Len(s)
  OBVIOUS
<1> QED
  BY <1>1, <1>2, <1>3, <1>4

LEMMA QuietAppend ==
  ASSUME NEW s, Outgoing(s), NEW d, Proper(d), ~WritesBack(d), ~Parting(d),
         Len(s) = 1, WritesBack(s[1]) => s[1].src \in L1s
             /\ l1[s[1].src][s[1].addr] \in Owned
  PROVE  Quiet(Append(s, d))
<1>1. s \in Seq(Message) /\ d \in Message
  BY DEF Outgoing, Proper
<1> DEFINE w == Append(s, d)
<1>2. Len(w) = 2 /\ w[1] = s[1] /\ w[2] = d
  BY <1>1, SecondAppended
<1> HIDE DEF w
<1> QED
  BY <1>2 DEF Quiet, w

LEMMA QuietNone ==
  ASSUME NEW m, NEW n, ~WritesBack(n), ~WritesBack(m)
  PROVE  Quiet(<< m, n >>)
<1>1. /\ Len(<< m, n >>) = 2 /\ << m, n >>[1] = m /\ << m, n >>[2] = n
  OBVIOUS
<1> QED
  BY <1>1 DEF Quiet

(* A request of a processor.                                                *)
LEMMA AskPorts ==
  ASSUME ~LinkBandwidth, IInv, Coh, PortInv, NEW p \in L1s, NEW r \in Requests,
         NEW type \in {"Read", "ReadEx", "Upgrade"}, NEW state, NEW lines, NEW first,
         Outgoing(first),
         first # <<>> =>
           /\ Len(first) = 1
           /\ WritesBack(first[1]) => first[1].src = p
               /\ l1[p][first[1].addr] \in Owned,
         Ask(p, r, type, state, lines, first)
  PROVE  PortInv'
<1> DEFINE d == Down(type, r[2], p)
<1>1. ~WritesBack(d) /\ ~Parting(d)
  BY DEF WritesBack, Parting, Down, Msg
<1>2. Proper(d)
  BY DownProper, RequestOf DEF ToL2
<1>3. net' = Post(net, Append(first, d)) /\ l2' = l2 /\ sharers' = sharers
  BY DEF Ask, l2vars
<1> HIDE DEF d
<1>4. Quiet(Append(first, d))
  <2>1. CASE first = <<>>
    <3>1. Append(first, d) = << d >>
      BY <2>1
    <3> QED
      BY <1>1, <3>1, QuietOne
  <2>2. CASE first # <<>>
    BY <1>1, <1>2, <2>2, QuietAppend
  <2> QED
    BY <2>1, <2>2
<1>5. Outgoing(Append(first, d))
  BY <1>2, OutgoingAppend
<1>6. Traffic(net)
  BY DEF IInv, NetInv
<1> QED
  BY <1>3, <1>4, <1>5, <1>6, QuietStep

LEMMA MissPorts ==
  ASSUME ~LinkBandwidth, IInv, Coh, PortInv, NEW p \in L1s, NEW r \in Requests,
         NEW type \in {"Read", "ReadEx"}, NEW state, Miss(p, r, type, state)
  PROVE  PortInv'
<1> DEFINE absent == l1[p][r[2]] = "NotPresent"
           victims == IF absent THEN L1Victims(p, L1SetOf[r[2]]) ELSE {Unused}
<1>1. CASE \E where \in {"replay", "wait"} : Stall(p, r, where)
  BY <1>1, SilentPorts DEF Stall, l2vars
<1>2. ASSUME NEW v \in victims,
             Ask(p, r, type, state, L1Evict(p, v), L1EvictMsg(p, v))
      PROVE  PortInv'
  <2>1. L1Types
    BY DEF IInv, L1Inv
  <2>2. v = Unused \/ (v \in Addrs /\ l1[p][v] \in L1Replaceable \union {"Invalid"})
    BY DEF L1Victims, L1Ways
  <2>3. Outgoing(L1EvictMsg(p, v))
    BY <2>1, <2>2, EvictMessage
  <2>4. LET first == L1EvictMsg(p, v) IN
        first # <<>> =>
          /\ Len(first) = 1
          /\ WritesBack(first[1]) => first[1].src = p
              /\ l1[p][first[1].addr] \in Owned
    <3>1. CASE v = Unused \/ l1[p][v] = "Invalid"
      BY <3>1 DEF L1EvictMsg
    <3>2. CASE ~(v = Unused \/ l1[p][v] = "Invalid")
      <4> DEFINE t == CASE l1[p][v] = "Shared" -> "Replace"
                        [] l1[p][v] = "Exclusive" -> "WriteBackClean"
                        [] OTHER -> "WriteBack"
      <4>1. L1EvictMsg(p, v) = << Down(t, v, p) >>
        BY <3>2 DEF L1EvictMsg
      <4>2. t \in {"WriteBack", "WriteBackClean"} => l1[p][v] \in Owned
        BY <2>2, <3>2 DEF Owned, L1Replaceable
      <4> HIDE DEF t
      <4>3. Down(t, v, p).type = t /\ Down(t, v, p).src = p /\ Down(t, v, p).addr = v
        BY DEF Down, Msg
      <4> QED
        BY <4>1, <4>2, <4>3 DEF WritesBack
    <3> QED
      BY <3>1, <3>2
  <2> QED
    BY <1>2, <2>3, <2>4, AskPorts
<1> QED
  BY <1>1, <1>2 DEF Miss

LEMMA ProcPorts ==
  ASSUME ~LinkBandwidth, IInv, Coh, PortInv, NEW p \in L1s, NEW a \in Addrs,
         ProcLD(p, a) \/ ProcST(p, a)
  PROVE  PortInv'
<1>1. <<"LD", a>> \in Requests /\ <<"ST", a>> \in Requests
  BY DEF Requests
<1>2. CASE ProcLD(p, a)
  <2>1. \/ Miss(p, <<"LD", a>>, "Read", "InvToShEx")
        \/ \E where : Stall(p, <<"LD", a>>, where)
        \/ Merge(p, <<"LD", a>>)
        \/ Hit(p, <<"LD", a>>, l1[p][a])
    BY <1>2 DEF ProcLD
  <2> QED
    BY <1>1, <2>1, MissPorts, SilentPorts DEF Stall, Merge, Hit, l2vars
<1>3. CASE ProcST(p, a)
  <2>1. \/ Miss(p, <<"ST", a>>, "ReadEx", "InvToMod")
        \/ \E where : Stall(p, <<"ST", a>>, where)
        \/ Merge(p, <<"ST", a>>)
        \/ Hit(p, <<"ST", a>>, "Modified")
        \/ Ask(p, <<"ST", a>>, "Upgrade", "ShToMod", l1[p], <<>>)
    BY <1>3 DEF ProcST
  <2> QED
    BY <1>1, <2>1, MissPorts, AskPorts, OutgoingNone, SilentPorts
       DEF Stall, Merge, Hit, l2vars
<1> QED
  BY <1>2, <1>3

LEMMA ProcTSTPorts ==
  ASSUME ~LinkBandwidth, IInv, Coh, PortInv, NEW p \in L1s, NEW r \in Requests,
           ProcTST(p, r)
  PROVE  PortInv'
<1> DEFINE type == IF r[1] = "LD" THEN "Read" ELSE "ReadEx"
           d == Down(type, r[2], p)
<1>1. /\ net' = Post(net, << d >>) /\ l2' = l2 /\ sharers' = sharers /\ Traffic(net)
  BY DEF ProcTST, l2vars, IInv, NetInv
<1>2. Proper(d)
  BY DownProper, RequestOf DEF ToL2
<1>3. ~WritesBack(d)
  BY DEF WritesBack, Down, Msg
<1> HIDE DEF d
<1> QED
  BY <1>1, <1>2, <1>3, QuietOne, OutgoingOne, QuietStep

(* A message of the L1s comes from no port.                                 *)
LEMMA ConsumedPorts ==
  ASSUME ~LinkBandwidth, NetInv, NEW p \in L1s, NEW m \in Arriving(p)
  PROVE  /\ Traffic(Consume(m))
         /\ \A b \in Banks : Consume(m)[Port(b)] = net[Port(b)]
<1>1. PICK c \in Links : c[2] = p /\ net[c] # <<>> /\ m = Head(net[c])
  BY DEF Arriving
<1>2. net \in [Links -> Seq(Message)] /\ net[c] \in Seq(Message)
  BY DEF NetInv, Traffic
<1>3. m \in Range(net[c])
  BY <1>1, <1>2, TailRange
<1>4. Consume(m) = [net EXCEPT ![c] = Tail(net[c])]
  BY <1>3 DEF NetInv, Traffic, Consume
<1>5. \A b \in Banks : Port(b) \in Links /\ Port(b) # c
  <2>1. \A b \in Banks : Port(b) \in Links /\ b \notin L1s
    BY PortIs
  <2>2. \A b \in Banks : Port(b)[2] = b
    BY DEF Port
  <2> QED
    BY <1>1, <2>1, <2>2
<1> QED
  BY <1>2, <1>4, <1>5, ArrivingKeeps DEF NetInv

LEMMA ReceivedPorts ==
  ASSUME ~LinkBandwidth, IInv, Coh, PortInv, NEW p \in L1s, NEW m \in Arriving(p),
         NEW out, Outgoing(out), Quiet(out), NEW done, NEW woken,
         Received(p, m, out, done, woken)
  PROVE  PortInv'
<1>1. net' = Post(Consume(m), out) /\ l2' = l2 /\ sharers' = sharers
  BY DEF Received, l2vars
<1>2. Traffic(Consume(m)) /\ \A b \in Banks : Consume(m)[Port(b)] = net[Port(b)]
  BY ConsumedPorts DEF IInv
<1> QED
  BY <1>1, <1>2, QuietStep

LEMMA NothingPorts ==
  ASSUME ~LinkBandwidth, IInv, Coh, PortInv, NEW p \in L1s, NEW m \in Arriving(p),
         NEW done, NEW woken, Received(p, m, <<>>, done, woken)
  PROVE  PortInv'
<1>1. Outgoing(<<>>) /\ Quiet(<<>>)
  BY OutgoingNone DEF Quiet
<1> QED
  BY <1>1, ReceivedPorts

LEMMA InvalidatePorts ==
  ASSUME ~LinkBandwidth, IInv, Coh, PortInv, NEW p \in L1s, NEW m \in Arriving(p),
         L1Invalidate(p, m)
  PROVE  PortInv'
<1> DEFINE a == m.addr
           st == l1[p][a]
           woken == {L1SetOf[a]}
<1>1. a \in Addrs
  BY ReceiveFacts
<1>2. CASE st = "NotPresent" /\ Drop1(p, m)
  BY <1>2, NothingPorts DEF Drop1
<1>3. CASE st \in L1Buffered /\ Release(p, m)
  BY <1>3, NothingPorts DEF Release
<1>4. CASE st = "Invalid" /\ Fail("L1 Invalidate")
  BY <1>4, SilentPorts DEF Fail, l2vars
<1>5. ASSUME NEW type \in {"InvAck", "WriteBack", "WriteBackClean"},
             type # "InvAck" => st \in Owned,
             Received(p, m, << Down(type, a, p) >>, {}, woken)
      PROVE  PortInv'
  <2>1. Outgoing(<< Down(type, a, p) >>)
    BY <1>1, DownProper, OutgoingOne DEF ToL2
  <2>2. Quiet(<< Down(type, a, p) >>)
    <3>1. Down(type, a, p).type = type /\ Down(type, a, p).src = p
        /\ Down(type, a, p).addr = a
      BY DEF Down, Msg
    <3> QED
      BY <1>5, <3>1, QuietOne DEF WritesBack
  <2> QED
    BY <1>5, <2>1, <2>2, ReceivedPorts
<1>6. CASE Received(p, m, << Down("InvAck", a, p), Down("ReadEx", a, p) >>, {}, woken)
  <2>1. Outgoing(<< Down("InvAck", a, p), Down("ReadEx", a, p) >>)
    BY <1>1, DownProper, OutgoingTwo DEF ToL2
  <2>2. Quiet(<< Down("InvAck", a, p), Down("ReadEx", a, p) >>)
    <3>1. ~WritesBack(Down("InvAck", a, p)) /\ ~WritesBack(Down("ReadEx", a, p))
      BY DEF WritesBack, Down, Msg
    <3> QED
      BY <3>1, QuietNone
  <2> QED
    BY <1>6, <2>1, <2>2, ReceivedPorts
<1> QED
  BY <1>2, <1>3, <1>4, <1>5, <1>6 DEF L1Invalidate, Owned

LEMMA ForwardPorts ==
  ASSUME ~LinkBandwidth, IInv, Coh, PortInv, NEW p \in L1s, NEW m \in Arriving(p),
         L1ReadFwd(p, m) \/ L1ReadExFwd(p, m)
  PROVE  PortInv'
<1> DEFINE a == m.addr
           woken == {L1SetOf[a]}
           s == Msg("DataShared", a, p, m.req)
           e == Msg("DataExclusive", a, p, m.req)
           k == Down("FwdAckData", a, p)
<1>1. a \in Addrs /\ m.req \in L1s
  BY ReceiveFacts DEF L1ReadFwd, L1ReadExFwd, Proper
<1>2. ~WritesBack(s) /\ ~WritesBack(e) /\ ~WritesBack(k)
  BY DEF WritesBack, Down, Msg
<1>3. Proper(s) /\ Proper(e) /\ Proper(k)
  BY <1>1, DataProper, DownProper DEF ToL2
<1>4. \/ Received(p, m, << s >>, {}, woken) \/ Received(p, m, << s, k >>, {}, woken)
      \/ Received(p, m, << e >>, {}, woken) \/ \E where : Fail(where)
  BY DEF L1ReadFwd, L1ReadExFwd
<1> HIDE DEF s, e, k, woken
<1>5. /\ Quiet(<< s >>) /\ Quiet(<< e >>) /\ Quiet(<< s, k >>)
      /\ Outgoing(<< s >>) /\ Outgoing(<< e >>) /\ Outgoing(<< s, k >>)
  BY <1>2, <1>3, QuietOne, QuietNone, OutgoingOne, OutgoingTwo
<1>6. CASE \E where : Fail(where)
  BY <1>6, SilentPorts DEF Fail, l2vars
<1> QED
  BY <1>4, <1>5, <1>6, ReceivedPorts

LEMMA ReceivePorts ==
  ASSUME ~LinkBandwidth, IInv, Coh, PortInv, NEW p \in L1s, NEW m \in Arriving(p),
         L1Receive(p, m)
  PROVE  PortInv'
<1>1. CASE L1Invalidate(p, m) \/ L1ReadFwd(p, m) \/ L1ReadExFwd(p, m)
  BY <1>1, InvalidatePorts, ForwardPorts
<1>2. CASE L1DataShared(p, m) \/ L1DataExclusive(p, m) \/ L1UpgradeAck(p, m)
  <2>1. (\E state : Fill(p, m, state)) \/ Drop1(p, m) \/ \E where : Fail(where)
    BY <1>2 DEF L1DataShared, L1DataExclusive, L1UpgradeAck
  <2> QED
    BY <2>1, NothingPorts, SilentPorts DEF Fill, Drop1, Fail, l2vars
<1>3. CASE L1WriteBackAck(p, m) \/ L1ReplaceAck(p, m)
  <2>1. Release(p, m) \/ Drop1(p, m) \/ \E where : Fail(where)
    BY <1>3 DEF L1WriteBackAck, L1ReplaceAck
  <2> QED
    BY <2>1, NothingPorts, SilentPorts DEF Release, Drop1, Fail, l2vars
<1>4. CASE L1TSTResp(p, m)
  BY <1>4, NothingPorts DEF L1TSTResp
<1> QED
  BY <1>1, <1>2, <1>3, <1>4 DEF L1Receive

-----------------------------------------------------------------------------
(* What a bank does to the ports.                                           *)

(* The bank takes a message from its port or from its replay queue, and     *)
(* what ends the time of a line is never on the latter.                     *)
LEMMA TakenPorts ==
  ASSUME ~LinkBandwidth, NetInv, KeptInv, NEW b \in Banks, NEW m \in Ready(b)
  PROVE  /\ \A c \in Banks \ {b} : Taken(m)[Port(c)] = net[Port(c)]
         /\ \/ Taken(m)[Port(b)] = net[Port(b)] /\ ~Parting(m)
            \/ /\ net[Port(b)] # <<>> /\ m = Head(net[Port(b)])
               /\ Taken(m)[Port(b)] = Tail(net[Port(b)])
<1>1. Proper(m) /\ m.dst = b /\ replay[b] \in Seq(Message) /\ b \notin L1s
      /\ net \in [Links -> Seq(Message)]
  BY ReadyKeeps, PortIs DEF NetInv, Stalled, Traffic
<1>2. CASE replay[b] # <<>>
  <2>1. m \in Range(replay[b])
    BY <1>1, <1>2 DEF Ready, Range
  <2>2. m \in InLists(replay, Banks)
    BY <2>1, InSomeList
  <2>3. m.type \in {"Read", "ReadEx", "Upgrade"}
    BY <2>2 DEF KeptInv
  <2> QED
    BY <1>1, <1>2, <2>3 DEF Taken, Parting, WritesBack
<1>3. CASE replay[b] = <<>>
  <2>1. Taken(m) = Consume(m) /\ m \in Arriving(b)
    BY <1>1, <1>3 DEF Taken, Ready
  <2>2. PICK c \in Links : net[c] # <<>> /\ m = Head(net[c])
    BY <2>1 DEF Arriving
  <2>3. m \in Range(net[c])
    BY <1>1, <2>2, TailRange
  <2>4. Link(m) = Port(b) /\ c = Port(b)
    BY <1>1, <2>3 DEF Link, Port, NetInv, Traffic
  <2>5. Consume(m) = [net EXCEPT ![Port(b)] = Tail(net[Port(b)])]
    BY <2>4 DEF Consume
  <2>6. \A d \in Banks : Port(d) \in Links /\ (d # b => Port(d) # Port(b))
    BY PortIs DEF Port
  <2> QED
    BY <1>1, <2>1, <2>2, <2>4, <2>5, <2>6
<1> QED
  BY <1>2, <1>3

(* What a bank that takes m does to the directory, as far as the stale      *)
(* write-backs care: who joins a line had asked for it; who leaves it has   *)
(* given its copy up by m, or has to hand it over; a line is lent until m   *)
(* ends the time.                                                           *)
Leaving == {"Replace", "InvAck", "WriteBack", "WriteBackClean"}
Settles(m) ==
  \A a \in Addrs \ ThreadState :
    /\ \A p \in sharers'[a] \ sharers[a] : Asking(View(a), p)
    /\ \A p \in sharers[a] \ sharers'[a] :
         \/ m.addr = a /\ m.src = p /\ m.type \in Leaving
         \/ Owes(View(a)', "ReadExFwd", p)
    /\ l2[a] \in Lent /\ l2'[a] \notin Lent => m.addr = a /\ Ends(sharers, m)

LEMMA EndsMark ==
  ASSUME NEW u, Proper(u), NEW sh, Ends(sh, u)
  PROVE  /\ u.src \in L1s
         /\ \/ Mark(u) = <<"FwdAckData", u.src, u.src>>
            \/ u.src \in sh[u.addr] /\ Mark(u) = <<"WriteBack", u.src, u.src>>
<1>1. u.src \in L1s
  BY DEF Proper, Ends, WritesBack, ToL2
<1> QED
  BY <1>1 DEF Ends, WritesBack, Mark, Forwards, ToL1

LEMMA StaleMark ==
  ASSUME NEW v, Proper(v), NEW sh, Stale(sh, v)
  PROVE  v.src \in L1s /\ Mark(v) = <<"WriteBack", v.src, v.src>>
           /\ v.src \notin sh[v.addr]
BY DEF Proper, Stale, WritesBack, ToL2, Mark, Forwards, ToL1

(* A write-back that becomes stale is one of a line that is to be handed    *)
(* over, with nothing about that ends the time of the line.                 *)
LEMMA BecomesStale ==
  ASSUME NetInv', Coh', NEW v \in InFlight', v.addr \in Addrs \ ThreadState,
         Stale(sharers', v), Owes(View(v.addr)', "ReadExFwd", v.src)
  PROVE  /\ l2'[v.addr] \in Lent
         /\ \A u \in InFlight' : u.addr = v.addr => ~Ends(sharers', u)
<1> DEFINE a == v.addr
           x == View(a)'
           p == v.src
<1>1. x.dir = sharers'[a] /\ x.l2 = l2'[a] /\ LineInv(x)
  BY DEF View, Coh
<1>2. ASSUME NEW u \in InFlight'
      PROVE  Proper(u) /\ (u.addr = a => Mark(u) \in x.msgs)
  BY DEF NetInv, Traffic, Stalled, InFlight, View
<1> HIDE DEF x
<1>3. p \in L1s /\ p \notin x.dir /\ In(x, "WriteBack", p)
  BY <1>1, <1>2, StaleMark DEF In
<1>4. Owes(x, "ReadExFwd", p)
  BY DEF x
<1>5. Holds(x, p)
  BY <1>1, <1>3, <1>4, OutedHolds DEF Holds
<1>6. /\ x.l2 \in Lent
      /\ \A q \in L1s : /\ ~In(x, "FwdAckData", q)
                        /\ q \in x.dir => ~In(x, "WriteBack", q)
  BY <1>1, <1>3, <1>4, <1>5, OwedAlone
<1>7. ASSUME NEW u \in InFlight', u.addr = a, Ends(sharers', u)
      PROVE  FALSE
  BY <1>1, <1>2, <1>6, <1>7, EndsMark DEF In
<1> QED
  BY <1>1, <1>6, <1>7

(* A step that settles keeps the ports in order.                            *)
LEMMA SettledPorts ==
  ASSUME ~LinkBandwidth, IInv, Coh, IInv', Coh', PortInv, NEW b \in Banks,
           NEW m \in Ready(b),
         \A c \in Banks : net'[Port(c)] = Taken(m)[Port(c)], Settles(m)
  PROVE  PortInv'
<1> SUFFICES ASSUME NEW c \in Banks
             PROVE  /\ Prompt(sharers', net'[Port(c)])
                    /\ \A v \in Range(net'[Port(c)]) :
                         Stale(sharers', v) => l2'[v.addr] \in Lent
  BY DEF PortInv
<1> DEFINE s == net[Port(c)]
           t == net'[Port(c)]
<1>1. /\ Port(c) \in Links /\ NetInv /\ NetInv' /\ Orderly /\ KeptInv
          /\ ThreadStateInv
      /\ s \in Seq(Message) /\ Clear(s) /\ BankOf[m.addr] = b /\ m \in InFlight
      /\ \A a \in Addrs \ ThreadState : LineInv(View(a)) /\ View(a).dir = sharers[a]
  <2>1. NetInv /\ NetInv' /\ Port(c) \in Links
    BY PortIs DEF IInv
  <2>2. Orderly /\ KeptInv /\ ThreadStateInv
      /\ \A a \in Addrs \ ThreadState : LineInv(View(a))
    BY CohParts
  <2>3. s \in Seq(Message) /\ Clear(s)
    BY <2>1, <2>2 DEF NetInv, Traffic, Orderly, Order
  <2>4. BankOf[m.addr] = b /\ m \in InFlight
    BY <2>1, <2>2, ProcessFacts, TakeFlow
  <2> QED
    BY <2>1, <2>2, <2>3, <2>4 DEF View
<1>2. /\ Prompt(sharers, s)
      /\ \A v \in Range(s) : Stale(sharers, v) => l2[v.addr] \in Lent
  BY DEF PortInv
<1>3. \/ t = s /\ (Parting(m) => c # b)
      \/ /\ c = b /\ s # <<>> /\ m = Head(s) /\ t = Tail(s)
  BY <1>1, TakenPorts
<1>4. /\ t \in Seq(Message) /\ Range(t) \subseteq Range(s) /\ Prompt(sharers, t)
      /\ c = b /\ Parting(m) => \A v \in Range(t) :
           ~Wrong(m, v) /\ ~Overtaken(sharers, m, v)
  <2>1. CASE t = s /\ (Parting(m) => c # b)
    BY <1>1, <1>2, <2>1
  <2>2. CASE c = b /\ s # <<>> /\ m = Head(s) /\ t = Tail(s)
    <3> HIDE DEF s, t
    <3>1. Prompt(sharers, Tail(s)) /\ \A v \in Range(Tail(s)) :
            v \in Range(s) /\ ~Overtaken(sharers, Head(s), v)
      BY <1>1, <1>2, <2>2, PromptTail
    <3>2. \A v \in Range(Tail(s)) : ~Wrong(Head(s), v)
      BY <1>1, <2>2, ClearTail
    <3>3. Tail(s) \in Seq(Message)
      BY <1>1, <2>2
    <3> QED
      BY <2>2, <3>1, <3>2, <3>3
  <2> QED
    BY <1>3, <2>1, <2>2
<1>5. ASSUME NEW v \in Range(t)
      PROVE  /\ v \in InFlight /\ v \in InFlight' /\ v.addr \in Addrs
                 /\ BankOf[v.addr] = c
             /\ Proper(v) /\ Mark(v) \in View(v.addr).msgs
             /\ WritesBack(v) => v.addr \notin ThreadState
  <2>1. v \in Range(s)
    BY <1>4
  <2>2. v \in InFlight /\ v.addr \in Addrs /\ BankOf[v.addr] = c
    BY <1>1, <2>1, PortMessage
  <2>3. v \in InFlight'
    BY <1>1 DEF InFlight
  <2> QED
    BY <1>1, <2>2, <2>3, TrafficProper, InView DEF ThreadStateInv, WritesBack
<1> HIDE DEF s, t
<1>6. ASSUME NEW v \in Range(t), Stale(sharers', v), ~Stale(sharers, v)
      PROVE  Owes(View(v.addr)', "ReadExFwd", v.src)
  <2>1. WritesBack(v) /\ v.addr \in Addrs \ ThreadState
    BY <1>5, <1>6 DEF Stale
  <2>2. v.src \in sharers[v.addr] \ sharers'[v.addr]
    BY <1>6 DEF Stale
  <2>3. v.src \in L1s /\ Mark(v) = <<"WriteBack", v.src, v.src>>
    BY <1>5, <1>6, StaleMark
  <2>4. SUFFICES ASSUME m.addr = v.addr, m.src = v.src, m.type \in Leaving
                 PROVE  FALSE
    BY <2>1, <2>2 DEF Settles
  <2>5. CASE m.type \in {"Replace", "InvAck"}
    <3>1. Mark(m) = <<m.type, v.src, v.src>>
      BY <2>4, <2>5 DEF Mark, Forwards, ToL1
    <3>2. Mark(m) \in View(v.addr).msgs
      BY <1>1, <2>4, InView
    <3>3. GoneInv(View(v.addr), v.src)
      BY <1>1, <2>1, <2>3 DEF LineInv, CopyInv
    <3> QED
      BY <1>5, <2>3, <2>5, <3>1, <3>2, <3>3 DEF GoneInv, In
  <2>6. CASE m.type \in {"WriteBack", "WriteBackClean"}
    <3>1. Mark(m) = <<"WriteBack", v.src, v.src>>
      BY <2>4, <2>6 DEF Mark, Forwards, ToL1
    <3>2. c = b /\ Parting(m)
      BY <1>1, <1>5, <2>4, <2>6 DEF Parting, WritesBack
    <3> QED
      BY <1>4, <2>1, <2>3, <2>4, <3>1, <3>2 DEF Wrong, Clash
  <2> QED
    BY <2>4, <2>5, <2>6 DEF Leaving
<1>7. ASSUME NEW v \in Range(t), Stale(sharers', v), ~Stale(sharers, v)
      PROVE  /\ l2'[v.addr] \in Lent
             /\ \A u \in InFlight' : u.addr = v.addr => ~Ends(sharers', u)
  <2>1. v \in InFlight' /\ v.addr \in Addrs \ ThreadState
    BY <1>5, <1>7 DEF Stale
  <2> QED
    BY <1>1, <1>6, <1>7, <2>1, BecomesStale
<1>8. ASSUME NEW v \in Range(t), Stale(sharers', v)
      PROVE  l2'[v.addr] \in Lent
  <2>1. SUFFICES ASSUME Stale(sharers, v), l2'[v.addr] \notin Lent
                 PROVE  FALSE
    BY <1>7, <1>8
  <2>2. l2[v.addr] \in Lent /\ v.addr \in Addrs \ ThreadState
    BY <1>2, <1>4, <1>5, <2>1 DEF Stale
  <2>3. m.addr = v.addr /\ Ends(sharers, m)
    BY <2>1, <2>2 DEF Settles
  <2>4. c = b /\ Parting(m)
    BY <1>1, <1>5, <2>3 DEF Parting, Ends
  <2> QED
    BY <1>4, <2>1, <2>3, <2>4 DEF Overtaken
<1>9. ASSUME NEW u \in Range(t), NEW v \in Range(t), Overtaken(sharers', u, v)
      PROVE  Overtaken(sharers, u, v)
  <2>1. /\ u.addr = v.addr /\ Ends(sharers', u) /\ Stale(sharers', v)
        /\ u \in InFlight' /\ v.addr \in Addrs \ ThreadState
    BY <1>5, <1>9 DEF Overtaken, Stale
  <2>2. Stale(sharers, v)
    BY <1>7, <2>1
  <2>3. SUFFICES ASSUME ~Ends(sharers, u)
                 PROVE  FALSE
    BY <2>1, <2>2 DEF Overtaken
  <2>4. WritesBack(u) /\ u.src \in sharers'[v.addr] \ sharers[v.addr]
    BY <2>1, <2>3 DEF Ends
  <2>5. Asking(View(v.addr), u.src)
    BY <2>1, <2>4 DEF Settles
  <2>6. u.src \in L1s /\ In(View(v.addr), "WriteBack", u.src)
      /\ u.src \notin View(v.addr).dir
    <3>1. u.src \in L1s /\ Mark(u) = <<"WriteBack", u.src, u.src>>
      BY <1>5, <2>1, <2>4, StaleMark DEF Stale
    <3> QED
      BY <1>1, <1>5, <2>1, <2>4, <3>1 DEF In
  <2> QED
    BY <1>1, <2>1, <2>5, <2>6, OutedHolds
<1>10. Prompt(sharers', t)
  <2>1. \A i \in 1 .. Len(t) : t[i] \in Range(t)
    BY <1>4 DEF Range
  <2> QED
    BY <1>4, <1>9, <2>1 DEF Prompt
<1> QED
  BY <1>8, <1>10 DEF t

(* What a bank does with m: it settles m, and takes it and sends messages to *)
(* the L1s, or puts it back, or fails.                                      *)
FromL2(v) == v.type \in ToL1 /\ v.src \in Banks

Handled(m) ==
  /\ Settles(m)
  /\ \/ \E out : /\ Outgoing(out) /\ \A v \in Range(out) : FromL2(v)
                 /\ net' = Post(Taken(m), out) /\ Flows({m}, out)
     \/ net' = Taken(m) /\ Flows({}, <<>>)
     \/ UNCHANGED <<l2, sharers, net, replay, waiting>>

LEMMA DoneHandled ==
  ASSUME IInv, Coh, NEW b \in Banks, NEW m \in Ready(b),
         NEW out, Outgoing(out), \A v \in Range(out) : FromL2(v),
         NEW woken, Done(m, out, woken), Settles(m)
  PROVE  Handled(m)
<1>1. net' = Post(Taken(m), out)
  BY DEF Done
<1>2. Flows({m}, out)
  BY DoneFlow, CohParts DEF IInv
<1> QED
  BY <1>1, <1>2 DEF Handled

LEMMA PutBackHandled ==
  ASSUME IInv, Coh, NEW b \in Banks, NEW m \in Ready(b),
         m.type \in {"Read", "ReadEx", "Upgrade"},
         Poll(m) \/ (Block(m) /\ (m.type = "Upgrade" => l2[m.addr] = "ModToSh"))
  PROVE  Handled(m)
<1>1. net' = Taken(m) /\ l2' = l2 /\ sharers' = sharers
  BY DEF Poll, Block, l2vars
<1>2. Settles(m)
  BY <1>1 DEF Settles
<1>3. Flows({}, <<>>)
  BY PollFlow, BlockFlow, CohParts DEF IInv
<1> QED
  BY <1>1, <1>2, <1>3 DEF Handled

LEMMA FailHandled ==
  ASSUME NEW m, NEW where, Fail(where)
  PROVE  Handled(m)
<1>1. UNCHANGED <<l2, sharers, net, replay, waiting>>
  BY DEF Fail, l2vars, bankvars
<1>2. Settles(m)
  BY <1>1 DEF Settles
<1> QED
  BY <1>1, <1>2 DEF Handled

(* A bank that changes the line of m only.                                  *)
LEMMA LineHandled ==
  ASSUME IInv, Coh, NEW b \in Banks, NEW m \in Ready(b),
         NEW out, Outgoing(out), \A v \in Range(out) : FromL2(v),
         NEW woken, Done(m, out, woken), NEW state, NEW sh, NEW d,
             Line(m.addr, state, sh, d),
         \A p \in sh \ sharers[m.addr] : Asking(View(m.addr), p),
         \A p \in sharers[m.addr] \ sh :
           (m.src = p /\ m.type \in Leaving) \/ Owes(View(m.addr)', "ReadExFwd", p),
         l2[m.addr] \in Lent /\ state \notin Lent => Ends(sharers, m)
  PROVE  Handled(m)
<1>1. m.addr \in Addrs /\ L2Types
  BY ProcessFacts DEF IInv, L2Inv
<1>2. /\ l2'[m.addr] = state /\ sharers'[m.addr] = sh
      /\ \A a \in Addrs \ {m.addr} : l2'[a] = l2[a] /\ sharers'[a] = sharers[a]
  BY <1>1 DEF Line, L2Types
<1>3. ASSUME NEW a \in Addrs \ ThreadState
      PROVE  /\ \A p \in sharers'[a] \ sharers[a] : Asking(View(a), p)
             /\ \A p \in sharers[a] \ sharers'[a] :
                  \/ m.addr = a /\ m.src = p /\ m.type \in Leaving
                  \/ Owes(View(a)', "ReadExFwd", p)
             /\ l2[a] \in Lent /\ l2'[a] \notin Lent => m.addr = a /\ Ends(sharers, m)
  <2>1. CASE a # m.addr
    BY <1>2, <2>1
  <2>2. CASE a = m.addr
    BY <1>2, <2>2
  <2> QED
    BY <2>1, <2>2
<1>4. Settles(m)
  BY <1>3 DEF Settles
<1> QED
  BY <1>4, DoneHandled

(* What the L2 sends is for the L1s.                                        *)
LEMMA UpTyped ==
  ASSUME NEW t \in ToL1, NEW a \in Addrs, NEW p
  PROVE  \A v \in Range(<< Up(t, a, p) >>) : FromL2(v)
BY RangeOne, CmpInclAssumption DEF Up, Msg, FromL2

LEMMA FwdTyped ==
  ASSUME NEW t \in Forwards, NEW a \in Addrs, NEW h, NEW p
  PROVE  \A v \in Range(<< Fwd(t, a, h, p) >>) : FromL2(v)
BY RangeOne, CmpInclAssumption DEF Fwd, Forwards, ToL1, FromL2

LEMMA NoneTyped == \A v \in Range(<<>>) : FromL2(v)
BY DEF Range

LEMMA MulticastTyped ==
  ASSUME NEW t \in ToL1 \ {"ReadFwd", "ReadExFwd"}, NEW a \in Addrs, NEW S
  PROVE  \A v \in Range(Multicast(t, a, S)) : FromL2(v)
<1> DEFINE s == [i \in 1 .. NumL1s |-> Up(t, a, i - 1)]
           K == {i \in 1 .. NumL1s : i - 1 \in S}
<1>1. NumL1s \in Nat
  BY CmpInclAssumption
<1>2. \A i \in 1 .. NumL1s : Up(t, a, i - 1) \in Message /\ FromL2(Up(t, a, i - 1))
  <2> TAKE i \in 1 .. NumL1s
  <2>1. i - 1 \in L1s
    BY <1>1 DEF L1s
  <2>2. Up(t, a, i - 1).type = t /\ Up(t, a, i - 1).src = BankOf[a]
    BY DEF Up, Msg
  <2> QED
    BY <2>1, <2>2, UpProper, CmpInclAssumption DEF Proper, FromL2
<1>3. s \in Seq(Message) /\ Len(s) = NumL1s /\ \A i \in 1 .. NumL1s : FromL2(s[i])
  BY <1>1, <1>2
<1>4. K \in SUBSET (1 .. Len(s))
  BY <1>3
<1> HIDE DEF s, K
<1>5. Range(Pick(s, K)) = {s[k] : k \in K}
  BY <1>3, <1>4, PickProperties
<1> QED
  BY <1>3, <1>4, <1>5 DEF Multicast, s, K

LEMMA ResponsesTyped ==
  ASSUME L2Types, NEW a \in Addrs
  PROVE  \A v \in Range(Responses(a)) : FromL2(v)
<1>1. \A q : /\ Response(a, q).type \in {"UpgradeAck", "DataShared", "DataExclusive"}
             /\ Response(a, q).src = BankOf[a]
  BY DEF Response, Up, Msg
<1>2. \A i \in DOMAIN Responses(a) : Responses(a)[i] = Response(a, l2queue[a][i])
  BY DEF Responses
<1> QED
  BY <1>1, <1>2, CmpInclAssumption DEF Range, ToL1, FromL2

(* Who asks is asking.                                                      *)
LEMMA RequestView ==
  ASSUME IInv, Coh, NEW b \in Banks, NEW m \in Ready(b), m.addr \notin ThreadState,
         m.type \in {"Read", "ReadEx", "Upgrade"}
  PROVE  /\ Asking(View(m.addr), m.src) /\ LineInv(View(m.addr)) /\ m.src \in L1s
         /\ m.addr \in Addrs \ ThreadState /\ sharers[m.addr] \in SUBSET L1s
         /\ View(m.addr).l2 = l2[m.addr] /\ View(m.addr).dir = sharers[m.addr]
         /\ L2Types
BY ProcessedView DEF Asking

LEMMA CollectHandled ==
  ASSUME IInv, Coh, NEW b \in Banks, NEW m \in Ready(b),
         m.addr \notin ThreadState, m.type \in {"ReadEx", "Upgrade"},
             l2[m.addr] = "Shared",
         NEW sh, sharers[m.addr] \subseteq sh,
             sh \subseteq sharers[m.addr] \union {m.src},
         Collect(m, sh)
  PROVE  Handled(m)
<1> DEFINE a == m.addr
           out == Multicast("Invalidate", a, sharers[a] \ {m.src})
<1>1. Asking(View(a), m.src) /\ a \in Addrs
  BY RequestView
<1>2. CASE Poll(m)
  BY <1>2, PutBackHandled
<1>3. CASE /\ Line(a, "ShToMod", sh, dirty[a]) /\ Done(m, out, {L2SetOf[a]})
  <2>1. Outgoing(out) /\ \A v \in Range(out) : FromL2(v)
    BY <1>1, MulticastOutgoing, MulticastTyped DEF ToL1
  <2>2. l2[a] \notin Lent
    BY DEF Lent
  <2> HIDE DEF out
  <2> QED
    BY <1>1, <1>3, <2>1, <2>2, LineHandled
<1> QED
  BY <1>2, <1>3 DEF Collect

LEMMA HandOverHandled ==
  ASSUME IInv, Coh, NEW b \in Banks, NEW m \in Ready(b),
         m.addr \notin ThreadState, m.type \in {"ReadEx", "Upgrade"},
             l2[m.addr] = "Modified",
         HandOver(m)
  PROVE  Handled(m)
<1> DEFINE a == m.addr
           h == FirstSharer(a)
           f == Fwd("ReadExFwd", a, h, m.src)
           out == << f >>
<1>1. /\ Asking(View(a), m.src) /\ a \in Addrs \ ThreadState
          /\ sharers[a] \in SUBSET L1s
      /\ m.src \in L1s
  BY RequestView
<1>2. CASE sharers[a] = {}
  BY <1>2, FailHandled DEF HandOver
<1>3. CASE sharers[a] # {}
  <2>1. h \in L1s
    BY <1>1, <1>3, FirstSharerShares
  <2>2. /\ Done(m, out, {L2SetOf[a]})
        /\ Line(a, "Modified", (sharers[a] \ {h}) \union {m.src}, dirty[a])
    BY <1>3 DEF HandOver, Reply
  <2>3. Outgoing(out) /\ \A v \in Range(out) : FromL2(v)
    BY <1>1, <2>1, FwdSends, FwdTyped DEF Forwards
  <2>4. Range(out) = {f} /\ f.addr = a /\ Mark(f) = <<"ReadExFwd", h, m.src>>
    BY RangeOne, MarkFwd
  <2> HIDE DEF out, f, h
  <2>5. Flows({m}, out)
    BY <2>2, <2>3, DoneFlow, CohParts DEF IInv
  <2>6. f \in InFlight'
    BY <1>1, <2>4, <2>5 DEF Flows, Cached
  <2>7. Mark(f) \in View(a)'.msgs
    BY <2>4, <2>6 DEF View
  <2>8. Owes(View(a)', "ReadExFwd", h)
    BY <1>1, <2>4, <2>7 DEF Owes, Sent
  <2> QED
    BY <1>1, <2>2, <2>3, <2>8, LineHandled DEF Lent
<1> QED
  BY <1>2, <1>3

LEMMA ReadHandled ==
  ASSUME IInv, Coh, NEW b \in Banks, NEW m \in Ready(b),
         L2Read(m), l2[m.addr] # "NotPresent"
  PROVE  Handled(m)
<1> DEFINE a == m.addr
           p == m.src
<1>1. /\ Asking(View(a), p) /\ a \in Addrs \ ThreadState /\ sharers[a] \in SUBSET L1s
      /\ p \in L1s /\ m.type = "Read"
  BY RequestView DEF L2Read
<1>2. CASE Poll(m) \/ Block(m)
  BY <1>1, <1>2, PutBackHandled
<1>3. CASE \E where : Fail(where)
  BY <1>3, FailHandled
<1>4. ASSUME NEW out \in {<<>>, << Up("DataShared", a, p) >>} \union
                           {<< Fwd("ReadFwd", a, h, p) >> : h \in L1s},
             NEW state, l2[a] = state \/ state = "ModToSh",
                 Done(m, out, {L2SetOf[a]}),
             Line(a, state, sharers[a] \union {p}, dirty[a])
      PROVE  Handled(m)
  <2>1. Outgoing(out) /\ \A v \in Range(out) : FromL2(v)
    <3>1. "DataShared" \in ToL1 \ {"ReadFwd", "ReadExFwd"} /\ "ReadFwd" \in Forwards
      BY DEF ToL1, Forwards
    <3>2. CASE out = <<>>
      BY <3>2, OutgoingNone, NoneTyped
    <3>3. CASE out = << Up("DataShared", a, p) >>
      BY <1>1, <3>1, <3>3, UpSends, UpTyped
    <3>4. ASSUME NEW h \in L1s, out = << Fwd("ReadFwd", a, h, p) >>
          PROVE  Outgoing(out) /\ \A v \in Range(out) : FromL2(v)
      BY <1>1, <3>1, <3>4, FwdSends, FwdTyped
    <3> QED
      BY <1>4, <3>2, <3>3, <3>4
  <2>2. ~(l2[a] \in Lent /\ state \notin Lent)
    BY <1>4 DEF Lent
  <2> DEFINE sh == sharers[a] \union {p}
  <2>3. (\A q \in sh \ sharers[a] : Asking(View(a), q)) /\ sharers[a] \ sh = {}
    BY <1>1
  <2>4. Done(m, out, {L2SetOf[a]}) /\ Line(a, state, sh, dirty[a])
    BY <1>4
  <2> HIDE DEF sh
  <2> QED
    BY <2>1, <2>2, <2>3, <2>4, LineHandled
<1>5. sharers[a] # {} => FirstSharer(a) \in L1s
  BY <1>1, FirstSharerShares
<1>6. CASE l2[a] = "Shared"
  BY <1>4, <1>5, <1>6 DEF L2Read, Reply, L2Buffered
<1>7. CASE l2[a] = "Modified"
  BY <1>2, <1>3, <1>4, <1>5, <1>7 DEF L2Read, L2Buffered
<1>8. CASE l2[a] = "ModToSh"
  BY <1>2, <1>4, <1>8 DEF L2Read, L2Buffered
<1>9. CASE l2[a] \notin {"NotPresent", "Shared", "Modified", "ModToSh"}
  BY <1>2, <1>9 DEF L2Read
<1> QED
  BY <1>6, <1>7, <1>8, <1>9

LEMMA InsertHandled ==
  ASSUME IInv, Coh, NEW b \in Banks, NEW m \in Ready(b),
         m.type \in {"Read", "ReadEx"}, l2[m.addr] = "NotPresent",
         NEW v \in L2Victims(L2SetOf[m.addr]), NEW sh \in {{}, {m.src}},
             Insert(m, v, sh)
  PROVE  Handled(m)
<1> DEFINE a == m.addr
           out == IF v = Unused THEN <<>> ELSE Multicast("Invalidate", v, sharers[v])
<1>1. L2Types /\ a \in Addrs /\ \A c \in Addrs \ ThreadState : LineInv(View(c))
  BY ProcessFacts, CohParts DEF IInv, L2Inv
<1>2. \/ v = Unused /\ v \notin Addrs
      \/ v \in Addrs \ ThreadState /\ v # a /\ l2[v] \in {"Shared", "Modified"}
  <2>1. \/ v = Unused
        \/ v \in L2Ways(L2SetOf[m.addr]) \ ThreadState /\ l2[v] \in L2Replaceable
    BY DEF L2Victims
  <2> QED
    BY <2>1, CmpInclAssumption DEF L2Ways, L2Replaceable
<1>3. /\ l2' = [x \in Addrs |-> CASE x = a -> "InvToMod"
                                  [] x = v -> L2Evicted(v)
                                  [] OTHER -> l2[x]]
      /\ sharers' = [sharers EXCEPT ![a] = sh]
      /\ Done(m, out, {L2SetOf[a]})
  BY DEF Insert
<1>4. Outgoing(out) /\ \A w \in Range(out) : FromL2(w)
  <2>1. CASE v = Unused
    BY <2>1, OutgoingNone, NoneTyped
  <2>2. CASE v # Unused
    <3>1. out = Multicast("Invalidate", v, sharers[v]) /\ v \in Addrs
      BY <1>2, <2>2
    <3>2. "Invalidate" \in ToL1 \ {"ReadFwd", "ReadExFwd"}
      BY DEF ToL1
    <3> HIDE DEF out
    <3> QED
      BY <3>1, <3>2, MulticastOutgoing, MulticastTyped
  <2> QED
    BY <2>1, <2>2
<1> HIDE DEF out
<1>5. ASSUME NEW c \in Addrs \ ThreadState
      PROVE  /\ \A p \in sharers'[c] \ sharers[c] : Asking(View(c), p)
             /\ sharers[c] \ sharers'[c] = {}
             /\ l2[c] \in Lent => l2'[c] \in Lent
  <2>1. CASE c = a
    <3>1. Asking(View(a), m.src)
      BY <2>1, RequestView
    <3>2. sharers[a] = {}
      BY <1>1, <2>1 DEF LineInv, HomeInv, View
    <3>3. sharers'[a] = sh
      BY <1>1, <1>3 DEF L2Types
    <3> QED
      BY <2>1, <3>1, <3>2, <3>3 DEF Lent
  <2>2. CASE c # a
    <3>1. sharers'[c] = sharers[c]
      BY <1>1, <1>3, <2>2 DEF L2Types
    <3>2. CASE c # v
      BY <1>3, <2>2, <3>1, <3>2
    <3>3. CASE c = v
      <4>1. l2'[c] = L2Evicted(c)
        BY <1>3, <2>2, <3>3
      <4>2. l2[c] = "Modified" => sharers[c] # {}
        <5>1. View(c).l2 = l2[c] /\ View(c).dir = sharers[c]
          BY DEF View
        <5> QED
          BY <1>1, <5>1, ModifiedHasOwner
      <4>3. l2[c] \in {"Shared", "Modified"}
        BY <1>2, <3>3
      <4> QED
        BY <3>1, <4>1, <4>2, <4>3 DEF L2Evicted, Lent
    <3> QED
      BY <3>2, <3>3
  <2> QED
    BY <2>1, <2>2
<1>6. Settles(m)
  BY <1>5 DEF Settles
<1> QED
  BY <1>3, <1>4, <1>6, DoneHandled

LEMMA MissedHandled ==
  ASSUME IInv, Coh, NEW b \in Banks, NEW m \in Ready(b),
         m.type \in {"Read", "ReadEx"}, l2[m.addr] = "NotPresent",
         NEW sh \in {{}, {m.src}}, L2Miss(m, sh)
  PROVE  Handled(m)
<1>1. Poll(m) \/ Block(m) \/ \E v \in L2Victims(L2SetOf[m.addr]) : Insert(m, v, sh)
  BY DEF L2Miss
<1> QED
  BY <1>1, PutBackHandled, InsertHandled

LEMMA ReadExHandled ==
  ASSUME IInv, Coh, NEW b \in Banks, NEW m \in Ready(b),
         L2ReadEx(m), l2[m.addr] # "NotPresent"
  PROVE  Handled(m)
<1> DEFINE a == m.addr
           p == m.src
           out == << Up("DataExclusive", a, p) >>
<1>1. /\ Asking(View(a), p) /\ a \in Addrs \ ThreadState /\ p \in L1s
      /\ m.type = "ReadEx" /\ a \notin ThreadState
  BY RequestView DEF L2ReadEx
<1>2. CASE l2[a] = "Shared" /\ Reply(m, out, "Modified", {p}) /\ sharers[a] = {}
  <2>1. Outgoing(out) /\ \A v \in Range(out) : FromL2(v)
    BY <1>1, UpSends, UpTyped DEF ToL1
  <2>2. l2[a] \notin Lent
    BY <1>2 DEF Lent
  <2>3. Done(m, out, {L2SetOf[a]}) /\ Line(a, "Modified", {p}, dirty[a])
    BY <1>2 DEF Reply
  <2> HIDE DEF out
  <2> QED
    BY <1>1, <1>2, <2>1, <2>2, <2>3, LineHandled
<1>3. CASE l2[a] = "Shared" /\ Collect(m, sharers[a] \union {p})
  BY <1>1, <1>3, CollectHandled
<1>4. CASE l2[a] = "Modified" /\ HandOver(m)
  BY <1>1, <1>4, HandOverHandled
<1>5. CASE Block(m)
  BY <1>1, <1>5, PutBackHandled
<1> QED
  BY <1>2, <1>3, <1>4, <1>5 DEF L2ReadEx

LEMMA UpgradeHandled ==
  ASSUME IInv, Coh, NEW b \in Banks, NEW m \in Ready(b),
         L2Upgrade(m)
  PROVE  Handled(m)
<1> DEFINE a == m.addr
           p == m.src
           ack == << Up("UpgradeAck", a, p) >>
<1>1. m.type = "Upgrade" /\ a \notin ThreadState
  <2>1. m.type = "Upgrade" /\ m \in InFlight
    BY TakeFlow, CohParts DEF L2Upgrade, IInv
  <2> QED
    BY <2>1, CohParts DEF ThreadStateInv
<1>2. /\ Asking(View(a), p) /\ a \in Addrs \ ThreadState /\ p \in L1s
      /\ l2[a] \in {"Shared", "ShToMod", "ShToInv", "ModToSh"}
  <2>1. In(View(a), "Upgrade", p)
    BY <1>1, ProcessedView
  <2> QED
    BY <1>1, <2>1, RequestView, UpgradeFinds
<1>3. CASE l2[a] = "Shared" /\ Reply(m, ack, "Modified", {p}) /\ sharers[a] = {p}
  <2>1. Outgoing(ack) /\ \A v \in Range(ack) : FromL2(v)
    BY <1>2, UpSends, UpTyped DEF ToL1
  <2>2. l2[a] \notin Lent
    BY <1>3 DEF Lent
  <2>3. Done(m, ack, {L2SetOf[a]}) /\ Line(a, "Modified", {p}, dirty[a])
    BY <1>3 DEF Reply
  <2> HIDE DEF ack
  <2> QED
    BY <1>2, <1>3, <2>1, <2>2, <2>3, LineHandled
<1>4. CASE l2[a] = "Shared" /\ Collect(m, sharers[a])
  BY <1>1, <1>4, CollectHandled
<1>5. CASE Reply(m, <<>>, l2[a], sharers[a])
  <2>1. Done(m, <<>>, {L2SetOf[a]}) /\ Line(a, l2[a], sharers[a], dirty[a])
    BY <1>5 DEF Reply
  <2> QED
    BY <2>1, OutgoingNone, NoneTyped, LineHandled
<1>6. CASE Block(m) /\ l2[a] = "ModToSh"
  BY <1>1, <1>6, PutBackHandled
<1>7. CASE \E where : Fail(where)
  BY <1>7, FailHandled
<1> QED
  BY <1>2, <1>3, <1>4, <1>5, <1>6, <1>7 DEF L2Upgrade

LEMMA TSTHandled ==
  ASSUME IInv, Coh, NEW b \in Banks, NEW m \in Ready(b),
         L2TST(m)
  PROVE  Handled(m)
<1> DEFINE a == m.addr
           out == << Up("DataExclusive", a, m.src) >>
<1>1. m.type \in {"Read", "ReadEx"} /\ a \in Addrs /\ m.src \in L1s
  BY ProcessFacts DEF L2TST
<1>2. CASE l2[a] = "NotPresent" /\ L2Miss(m, {})
  BY <1>1, <1>2, MissedHandled
<1>3. CASE Reply(m, out, l2[a], sharers[a])
  <2>1. Done(m, out, {L2SetOf[a]}) /\ Line(a, l2[a], sharers[a], dirty[a])
    BY <1>3 DEF Reply
  <2>2. Outgoing(out) /\ \A v \in Range(out) : FromL2(v)
    BY <1>1, UpSends, UpTyped DEF ToL1
  <2> HIDE DEF out
  <2> QED
    BY <2>1, <2>2, LineHandled
<1>4. CASE Block(m)
  BY <1>1, <1>4, PutBackHandled
<1>5. CASE \E where : Fail(where)
  BY <1>5, FailHandled
<1> QED
  BY <1>2, <1>3, <1>4, <1>5 DEF L2TST

LEMMA SharerGoneHandled ==
  ASSUME IInv, Coh, NEW b \in Banks, NEW m \in Ready(b),
         m.addr \in Addrs \ ThreadState, m.type \in {"Replace", "InvAck"},
             SharerGone(m)
  PROVE  Handled(m)
<1> DEFINE a == m.addr
           left == sharers[a] \ {m.src}
<1>1. m.type \in Leaving /\ L2Types
  BY DEF Leaving, IInv, L2Inv
<1>2. ASSUME NEW out \in {<<>>, Responses(a)}, NEW woken, Done(m, out, woken),
               NEW state, NEW d,
             NEW sh, sh = left, Line(a, state, sh, d),
                 l2[a] \in {"ShToInv", "ShToMod"}
      PROVE  Handled(m)
  <2>1. Outgoing(out) /\ \A v \in Range(out) : FromL2(v)
    BY <1>1, <1>2, OutgoingNone, NoneTyped, ResponsesOutgoing, ResponsesTyped
  <2>2. l2[a] \notin Lent
    BY <1>2 DEF Lent
  <2>3. sh \ sharers[a] = {} /\ \A p \in sharers[a] \ sh : m.src = p
    BY <1>2
  <2> QED
    BY <1>1, <1>2, <2>1, <2>2, <2>3, LineHandled
<1>3. CASE l2[a] = "ShToInv"
  <2>1. \E state, d, sh, woken : sh = left /\ Line(a, state, sh, d)
      /\ Done(m, <<>>, woken)
    BY <1>3 DEF SharerGone
  <2> QED
    BY <1>2, <1>3, <2>1
<1>4. CASE \E where : Fail(where)
  BY <1>4, FailHandled
<1>5. CASE l2[a] = "ShToMod" /\ Reply(m, <<>>, "ShToMod", left)
  BY <1>2, <1>5 DEF Reply
<1>6. CASE /\ l2[a] = "ShToMod" /\ Line(a, "Modified", left, dirty[a])
           /\ Done(m, Responses(a), L2FreedMshr(a))
  BY <1>2, <1>6
<1> QED
  BY <1>3, <1>4, <1>5, <1>6 DEF SharerGone

LEMMA ReplaceHandled ==
  ASSUME IInv, Coh, NEW b \in Banks, NEW m \in Ready(b),
         L2Replace(m)
  PROVE  Handled(m)
<1> DEFINE a == m.addr
           ack == << Up("ReplaceAck", a, m.src) >>
<1>1. m.type = "Replace" /\ a \in Addrs \ ThreadState /\ m.src \in L1s
    /\ m.type \in Leaving
  <2>1. m.type = "Replace" /\ m \in InFlight
    BY TakeFlow, CohParts DEF L2Replace, IInv
  <2> QED
    BY <2>1, ProcessFacts, CohParts DEF ThreadStateInv, Leaving
<1>2. CASE Reply(m, ack, l2[a], sharers[a] \ {m.src})
  <2> DEFINE sh == sharers[a] \ {m.src}
  <2>1. Done(m, ack, {L2SetOf[a]}) /\ Line(a, l2[a], sh, dirty[a])
    BY <1>2 DEF Reply
  <2>2. Outgoing(ack) /\ \A v \in Range(ack) : FromL2(v)
    BY <1>1, UpSends, UpTyped DEF ToL1
  <2>3. sh \ sharers[a] = {} /\ \A q \in sharers[a] \ sh : m.src = q
    OBVIOUS
  <2> HIDE DEF ack, sh
  <2> QED
    BY <1>1, <2>1, <2>2, <2>3, LineHandled
<1>3. CASE SharerGone(m)
  BY <1>1, <1>3, SharerGoneHandled
<1>4. CASE \E where : Fail(where)
  BY <1>4, FailHandled
<1> QED
  BY <1>2, <1>3, <1>4 DEF L2Replace

LEMMA InvAckHandled ==
  ASSUME IInv, Coh, NEW b \in Banks, NEW m \in Ready(b),
         L2InvAck(m)
  PROVE  Handled(m)
<1> DEFINE a == m.addr
<1>1. m.type = "InvAck" /\ a \in Addrs \ ThreadState
  <2>1. m.type = "InvAck" /\ m \in InFlight
    BY TakeFlow, CohParts DEF L2InvAck, IInv
  <2> QED
    BY <2>1, ProcessFacts, CohParts DEF ThreadStateInv
<1>2. l2[a] = "ModToInv" => sharers[a] # {}
  <2>1. View(a).l2 = l2[a] /\ View(a).dir = sharers[a] /\ LineInv(View(a))
    BY <1>1, ProcessedView
  <2> QED
    BY <2>1, ModifiedHasOwner
<1>3. CASE SharerGone(m)
  BY <1>1, <1>3, SharerGoneHandled
<1>4. CASE \E where : Fail(where)
  BY <1>4, FailHandled
<1> QED
  BY <1>2, <1>3, <1>4 DEF L2InvAck

LEMMA WriteBackHandled ==
  ASSUME IInv, Coh, NEW b \in Banks, NEW m \in Ready(b),
         L2WriteBack(m)
  PROVE  Handled(m)
<1> DEFINE a == m.addr
           p == m.src
           left == sharers[a] \ {p}
           ack == << Up("WriteBackAck", a, p) >>
<1>1. /\ m.type \in {"WriteBack", "WriteBackClean"} /\ a \in Addrs \ ThreadState
          /\ p \in L1s
      /\ m.type \in Leaving
  <2>1. m.type \in {"WriteBack", "WriteBackClean"} /\ m \in InFlight
    BY TakeFlow, CohParts DEF L2WriteBack, IInv
  <2> QED
    BY <2>1, ProcessFacts, CohParts DEF ThreadStateInv, Leaving
<1>2. l2[a] \in {"Modified", "ModToInv"} => \E o \in L1s : sharers[a] = {o}
  <2>1. View(a).l2 = l2[a] /\ View(a).dir = sharers[a] /\ LineInv(View(a))
    BY <1>1, ProcessedView
  <2> QED
    BY <2>1, ModifiedHasOwner
<1>3. p \in sharers[a] => Ends(sharers, m)
  BY <1>1 DEF Ends, WritesBack
<1>4. /\ Outgoing(ack) /\ \A v \in Range(ack) : FromL2(v)
      /\ Outgoing(<<>>) /\ \A v \in Range(<<>>) : FromL2(v)
  BY <1>1, UpSends, UpTyped, OutgoingNone, NoneTyped DEF ToL1
<1> HIDE DEF ack
<1>5. CASE Reply(m, ack, l2[a], sharers[a])
  <2>1. Done(m, ack, {L2SetOf[a]}) /\ Line(a, l2[a], sharers[a], dirty[a])
    BY <1>5 DEF Reply
  <2> QED
    BY <1>4, <2>1, LineHandled
<1>6. ASSUME NEW out \in {ack, <<>>}, NEW woken, Done(m, out, woken), NEW state,
               NEW sh, NEW d,
             sh = left, Line(a, state, sh, d), l2[a] \in Lent /\ state \notin Lent
                 => p \in sharers[a]
      PROVE  Handled(m)
  <2>1. sh \ sharers[a] = {} /\ \A q \in sharers[a] \ sh : m.src = q
    BY <1>6
  <2> QED
    BY <1>1, <1>3, <1>4, <1>6, <2>1, LineHandled
<1>7. CASE l2[a] \in {"Modified", "ModToSh"}
  <2>1. PICK state, d : /\ Line(a, state, left, d) /\ Done(m, ack, {L2SetOf[a]})
                        /\ state = IF l2[a] = "Modified"
                            /\ left = {} THEN "Shared" ELSE l2[a]
    BY <1>7 DEF L2WriteBack, ack
  <2>2. l2[a] \in Lent /\ state \notin Lent => p \in sharers[a]
    BY <1>2, <2>1
  <2> QED
    BY <1>6, <2>1, <2>2
<1>8. CASE /\ l2[a] = "ModToInv" /\ p \in sharers[a] /\ left = {}
           /\ Line(a, "NotPresent", {}, FALSE) /\ Done(m, <<>>, L2FreedBuffer(a))
  BY <1>6, <1>8
<1>9. CASE \E where : Fail(where)
  BY <1>9, FailHandled
<1> QED
  BY <1>5, <1>7, <1>8, <1>9 DEF L2WriteBack, ack

LEMMA FwdAckDataHandled ==
  ASSUME IInv, Coh, NEW b \in Banks, NEW m \in Ready(b),
         L2FwdAckData(m)
  PROVE  Handled(m)
<1> DEFINE a == m.addr
<1>1. a \in Addrs /\ L2Types /\ Ends(sharers, m)
  BY ProcessFacts DEF L2FwdAckData, IInv, L2Inv, Ends
<1>2. CASE Line(a, "Shared", sharers[a], TRUE)
    /\ Done(m, Responses(a), L2FreedMshr(a))
  <2>1. Outgoing(Responses(a)) /\ \A v \in Range(Responses(a)) : FromL2(v)
    BY <1>1, ResponsesOutgoing, ResponsesTyped
  <2> QED
    BY <1>1, <1>2, <2>1, LineHandled
<1>3. CASE \E where : Fail(where)
  BY <1>3, FailHandled
<1> QED
  BY <1>2, <1>3 DEF L2FwdAckData

LEMMA ProcessHandled ==
  ASSUME IInv, Coh, NEW b \in Banks, NEW m \in Ready(b),
         L2Process(m)
  PROVE  Handled(m)
<1>1. CASE (L2Read(m) \/ L2ReadEx(m)) /\ l2[m.addr] = "NotPresent"
  <2>1. m.type \in {"Read", "ReadEx"} /\ L2Miss(m, {m.src})
    BY <1>1 DEF L2Read, L2ReadEx, L2Transient, L2Buffered
  <2> QED
    BY <1>1, <2>1, MissedHandled
<1>2. CASE (L2Read(m) \/ L2ReadEx(m)) /\ l2[m.addr] # "NotPresent"
  BY <1>2, ReadHandled, ReadExHandled
<1>3. CASE L2Upgrade(m) \/ L2TST(m) \/ L2Replace(m) \/ L2InvAck(m) \/ L2WriteBack(m)
           \/ L2FwdAckData(m)
  BY <1>3, UpgradeHandled, TSTHandled, ReplaceHandled, InvAckHandled,
      WriteBackHandled, FwdAckDataHandled
<1> QED
  BY <1>1, <1>2, <1>3 DEF L2Process

LEMMA ProcessPorts ==
  ASSUME ~LinkBandwidth, IInv, Coh, IInv', Coh', PortInv, NEW b \in Banks,
           NEW m \in Ready(b),
         L2Process(m)
  PROVE  PortInv'
<1>1. Handled(m)
  BY ProcessHandled
<1>2. ASSUME NEW out, Outgoing(out), \A v \in Range(out) : FromL2(v),
             net' = Post(Taken(m), out)
      PROVE  PortInv'
  <2>1. Traffic(Taken(m)) /\ \A v \in Range(out) : v.type \in ToL1
    BY <1>2, ReadyKeeps DEF IInv, FromL2
  <2>2. \A c \in Banks : net'[Port(c)] = Taken(m)[Port(c)]
    BY <1>2, <2>1, PortsSame
  <2> QED
    BY <1>1, <2>2, SettledPorts DEF Handled
<1>3. CASE net' = Taken(m)
  BY <1>1, <1>3, SettledPorts DEF Handled
<1>4. CASE UNCHANGED <<l2, sharers, net, replay, waiting>>
  BY <1>4, SilentPorts
<1> QED
  BY <1>1, <1>2, <1>3, <1>4 DEF Handled

LEMMA MemoryPorts ==
  ASSUME ~LinkBandwidth, IInv, Coh, PortInv, NEW a \in Addrs, MemoryResponse(a)
  PROVE  PortInv'
<1>1. L2Types /\ Traffic(net)
  BY DEF IInv, L2Inv, NetInv
<1>2. CASE l2[a] # "InvToMod"
  <2>1. l2' = l2 /\ sharers' = sharers /\ net' = net
    BY <1>2 DEF MemoryResponse
  <2> QED
    BY <2>1, SilentPorts
<1>3. CASE l2[a] = "InvToMod"
  <2>1. Line(a, "Modified", sharers[a], dirty[a]) /\ net' = Post(net, Responses(a))
    BY <1>3 DEF MemoryResponse
  <2>2. sharers' = sharers /\ \A c \in Addrs : l2'[c] = l2[c] \/ l2'[c] = "Modified"
    BY <1>1, <2>1 DEF Line, L2Types
  <2>3. \A b \in Banks : net'[Port(b)] = net[Port(b)]
    BY <1>1, <2>1, ResponsesOutgoing, ResponsesTyped, PortsSame DEF FromL2
  <2>4. \A b \in Banks : \A m \in Range(net[Port(b)]) : m.addr \in Addrs
    BY PortMessage DEF IInv
  <2> QED
    BY <2>2, <2>3, <2>4 DEF PortInv, Lent
<1> QED
  BY <1>2, <1>3

LEMMA StepPorts ==
  ASSUME ~LinkBandwidth, IInv, Coh, IInv', Coh', PortInv, [Next]_vars
  PROVE  PortInv'
<1>1. CASE UNCHANGED vars
  BY <1>1, SilentPorts DEF vars, l2vars
<1> QED
  BY <1>1, ProcPorts, ProcTSTPorts, ReceivePorts, ProcessPorts, MemoryPorts DEF Next

LEMMA InitPorts ==
  ASSUME ~LinkBandwidth, Init
  PROVE  PortInv
<1>1. \A b \in Banks : net[Port(b)] = <<>>
  BY PortIs DEF Init
<1> QED
  BY <1>1 DEF PortInv, Prompt, Range

(* No write-back meets a line that is being taken back from its readers.    *)
LEMMA NoneRecoils ==
  ASSUME ~LinkBandwidth, IInv, Coh, PortInv, NEW b \in Banks, NEW m \in Ready(b)
  PROVE  ~Recoils(m)
<1> DEFINE a == m.addr
           x == View(a)
           p == m.src
<1> SUFFICES ASSUME WritesBack(m), l2[a] = "ShToInv"
             PROVE  FALSE
  BY DEF Recoils
<1>1. a \in Addrs \ ThreadState /\ NetInv /\ KeptInv
  <2>1. NetInv /\ Orderly /\ KeptInv /\ ThreadStateInv
    BY CohParts DEF IInv
  <2>2. m \in InFlight
    BY <2>1, TakeFlow
  <2> QED
    BY <2>1, <2>2, ProcessFacts DEF ThreadStateInv, WritesBack
<1>2. /\ LineInv(x) /\ x.l2 = l2[a] /\ x.dir = sharers[a] /\ p \in L1s
      /\ In(x, "WriteBack", p)
  BY <1>1, ProcessedView DEF WritesBack
<1>3. Stale(sharers, m)
  BY <1>2, WriteBackFinds DEF Stale
<1>4. net[Port(b)] # <<>> /\ m = Head(net[Port(b)])
  BY <1>1, TakenPorts DEF Parting
<1>5. m \in Range(net[Port(b)])
  <2>1. net[Port(b)] \in Seq(Message)
    BY <1>1, PortIs DEF NetInv, Traffic
  <2> QED
    BY <1>4, <2>1, TailRange
<1> QED
  BY <1>3, <1>5 DEF PortInv, Lent

(* Without a bandwidth of the links no handler of an L1 or of the L2 ever   *)
(* ends in FAIL: the messages from an L1 to a bank stay in the order in     *)
(* which they were sent, and a write-back that comes late finds its line    *)
(* where the handler expects it.                                            *)
THEOREM NoFailure == ~LinkBandwidth => (Spec => []NoProtocolError)
<1> SUFFICES ASSUME ~LinkBandwidth
             PROVE  Spec => []NoProtocolError
  OBVIOUS
<1> DEFINE Inv == IInv /\ Coh /\ PortInv /\ NoProtocolError
<1>1. Init => Inv
  BY InitIInv, InitCoh, InitPorts DEF Init, NoProtocolError
<1>2. Inv /\ [Next]_vars => Inv'
  <2> SUFFICES ASSUME Inv, [Next]_vars
               PROVE  Inv'
    OBVIOUS
  <2>1. IInv' /\ Coh'
    BY StepKeeps, StepCoh
  <2>2. PortInv'
    BY <2>1, StepPorts
  <2>3. failed' = "no"
    BY StepCoh, NoneRecoils DEF NoProtocolError
  <2> QED
    BY <2>1, <2>2, <2>3 DEF NoProtocolError
<1> QED
  BY <1>1, <1>2, PTL DEF Spec

-----------------------------------------------------------------------------
(* The last value of a line, in an L2 that has a way for each line: the     *)
(* steps of the L1s.                                                        *)

LEMMA KeptFlight ==
  ASSUME NEW gone, NEW out, Flows(gone, out), NEW n \in InFlight,
           n.addr \notin ThreadState,
         n \notin gone
  PROVE  n \in InFlight'
BY DEF Flows, Cached

LEMMA SentFlight ==
  ASSUME NEW gone, NEW out, Flows(gone, out), NEW v \in Range(out),
           v.addr \notin ThreadState
  PROVE  v \in InFlight'
BY DEF Flows, Cached

LEMMA OwesKept ==
  ASSUME NEW a \in Addrs \ ThreadState, NEW gone, NEW out, Flows(gone, out),
           NEW p \in L1s,
         Owes(View(a), "ReadExFwd", p),
         \A u \in gone : ~(u.type = "ReadExFwd" /\ u.addr = a /\ u.dst = p)
  PROVE  Owes(View(a)', "ReadExFwd", p)
<1>1. PICK r \in L1s : <<"ReadExFwd", p, r>> \in View(a).msgs
  BY DEF Owes, Sent
<1>2. PICK u \in InFlight : u.addr = a /\ Mark(u) = <<"ReadExFwd", p, r>>
  BY <1>1, OfView
<1>3. u.type = "ReadExFwd" /\ u.dst = p
  BY <1>2 DEF Mark, Forwards
<1>4. u \in InFlight'
  BY <1>2, <1>3, KeptFlight
<1>5. <<"ReadExFwd", p, r>> \in View(a)'.msgs
  BY <1>2, <1>4 DEF View
<1> QED
  BY <1>5 DEF Owes, Sent

(* A message that carries the value goes on carrying it.                    *)
LEMMA CarriedOn ==
  ASSUME NEW gone, NEW out, Flows(gone, out), NEW n \in InFlight, Carries(n),
         n.addr \in Addrs \ ThreadState, n.src \in Nodes, n \notin gone,
         \A u \in gone : ~(u.type = "ReadExFwd" /\ u.addr = n.addr /\ u.dst = n.src),
         n.type = "WriteBack" =>
           /\ n.src \in L1s
           /\ n.src \in sharers[n.addr] =>
                \/ n.src \in sharers'[n.addr]
                    \/ Owes(View(n.addr)', "ReadExFwd", n.src)
  PROVE  Valued(n.addr)'
<1>1. n \in InFlight'
  BY KeptFlight
<1>2. Carries(n)'
  <2>1. CASE n.type = "FwdAckData" \/ (n.type = "DataExclusive" /\ n.src \in L1s)
    BY <2>1 DEF Carries
  <2>2. CASE n.type = "WriteBack"
    <3>1. n.src \in sharers'[n.addr] \/ Owes(View(n.addr)', "ReadExFwd", n.src)
      BY <2>2, OwesKept DEF Carries
    <3> QED
      BY <2>2, <3>1 DEF Carries
  <2> QED
    BY <2>1, <2>2 DEF Carries
<1> QED
  BY <1>1, <1>2 DEF Valued

LEMMA ModifiedIsHome ==
  ASSUME Coh, NEW a \in Addrs \ ThreadState, NEW p \in L1s, l1[p][a] = "Modified"
  PROVE  l2[a] # "NotPresent"
<1>1. LineInv(View(a)) /\ View(a).l2 = l2[a] /\ View(a).lines[p] = l1[p][a]
  BY CohParts DEF View
<1> QED
  BY <1>1 DEF LineInv, SharingInv, Sharing, Owned

(* What a step must do to keep DataInv.                                     *)
LEMMA DataStep ==
  ASSUME IInv', Coh', DataInv, \A a \in Addrs : l2'[a] \notin L2Buffered,
         \A a \in Addrs \ ThreadState :
           l2[a] # "NotPresent" => l2'[a] # "NotPresent" /\ (Valued(a) => Valued(a)'),
         \A a \in unsaved' \ unsaved :
           a \in Addrs \ ThreadState /\ \E p \in L1s : l1'[p][a] = "Modified",
         NEW out, InFlight' \subseteq InFlight \union Range(out),
         \A v \in Range(out) :
           v.type = "DataExclusive" /\ v.src \in L1s /\ v.addr \notin ThreadState =>
             l1[v.dst][v.addr] = "InvToMod",
         \A p \in L1s, a \in Addrs : l1'[p][a] = "InvToShEx" => l1[p][a] # "InvToMod"
  PROVE  DataInv'
<1>1. ASSUME NEW a \in unsaved'
      PROVE  a \notin ThreadState /\ l2'[a] # "NotPresent" /\ Valued(a)'
  <2>1. a \in Addrs
    BY <1>1 DEF IInv, HistoryInv
  <2>2. CASE a \in unsaved
    BY <2>1, <2>2 DEF DataInv
  <2>3. CASE a \notin unsaved
    <3>1. a \in Addrs \ ThreadState
      BY <1>1, <2>3
    <3>2. PICK p \in L1s : l1'[p][a] = "Modified"
      BY <1>1, <2>3
    <3>3. LineInv(View(a))' /\ View(a)'.l2 = l2'[a] /\ View(a)'.lines[p] = l1'[p][a]
      BY <3>1 DEF Coh, View
    <3>4. l2'[a] # "NotPresent"
      BY <3>2, <3>3 DEF LineInv, SharingInv, Sharing, Owned
    <3> QED
      BY <3>1, <3>2, <3>4 DEF Valued
  <2> QED
    BY <2>2, <2>3
<1>2. ASSUME NEW n \in InFlight', n.type = "DataExclusive", n.src \in L1s,
             n.addr \notin ThreadState
      PROVE  l1'[n.dst][n.addr] = "InvToMod"
  <2>1. Proper(n) /\ n.addr \in Addrs /\ n.dst \in L1s
    <3>1. Proper(n)
      BY DEF IInv, NetInv, Traffic, Stalled, InFlight
    <3> QED
      BY <1>2, <3>1, ProperOfMessage DEF Proper, ToL1
  <2>2. l1[n.dst][n.addr] = "InvToMod"
    BY <1>2 DEF DataInv
  <2>3. LineInv(View(n.addr))' /\ View(n.addr)'.lines[n.dst] = l1'[n.dst][n.addr]
    BY <1>2, <2>1 DEF Coh, View
  <2>4. Mark(n) = <<"DataExclusive", n.dst, n.dst>> /\ Mark(n) \in View(n.addr)'.msgs
    BY <1>2 DEF Mark, Forwards, ToL1, View
  <2>5. l1'[n.dst][n.addr] \in {"InvToShEx", "InvToMod"}
    BY <2>1, <2>3, <2>4 DEF LineInv, CopyInv, TokenInv, In
  <2> QED
    BY <2>1, <2>2, <2>5
<1> QED
  BY <1>1, <1>2 DEF DataInv

(* Steps of the L1s.                                                        *)
LEMMA L1Data ==
  ASSUME IInv, Coh, IInv', Coh', DataInv, UNCHANGED l2vars,
         NEW gone, NEW out, Flows(gone, out),
         \A u \in gone : u.type \in ToL1,
         \A u \in gone :
           /\ u.addr \in Addrs \ ThreadState
           /\ u.type = "ReadExFwd" \/ (u.type = "DataExclusive" /\ u.src \in L1s)
           => Valued(u.addr)',
         \A p \in L1s, a \in Addrs \ ThreadState :
           l1[p][a] = "Modified" /\ l1'[p][a] # "Modified" => Valued(a)',
         \A a \in unsaved' \ unsaved :
           a \in Addrs \ ThreadState /\ \E p \in L1s : l1'[p][a] = "Modified",
         \A v \in Range(out) :
           v.type = "DataExclusive" /\ v.src \in L1s /\ v.addr \notin ThreadState =>
             l1[v.dst][v.addr] = "InvToMod",
         \A p \in L1s, a \in Addrs : l1'[p][a] = "InvToShEx" => l1[p][a] # "InvToMod"
  PROVE  DataInv'
<1>1. l2' = l2 /\ sharers' = sharers /\ dirty' = dirty
  BY DEF l2vars
<1>2. ASSUME NEW a \in Addrs \ ThreadState, Valued(a)
      PROVE  Valued(a)'
  <2>1. CASE dirty[a]
    BY <1>1, <2>1 DEF Valued
  <2>2. CASE \E p \in L1s : l1[p][a] = "Modified"
    <3>1. PICK p \in L1s : l1[p][a] = "Modified"
      BY <2>2
    <3> QED
      BY <3>1 DEF Valued
  <2>3. ASSUME NEW n \in InFlight, n.addr = a, Carries(n)
        PROVE  Valued(a)'
    <3>1. Proper(n) /\ n.src \in Nodes
      BY TrafficProper, ProperOfMessage DEF IInv
    <3>2. n.type = "WriteBack" => n.src \in L1s
      BY <3>1 DEF Proper, ToL2
    <3>3. CASE n \in gone
      <4>1. n.type = "DataExclusive" /\ n.src \in L1s
        BY <2>3, <3>3 DEF Carries, ToL1
      <4> QED
        BY <2>3, <3>3, <4>1
    <3>4. CASE \E u \in gone : u.type = "ReadExFwd" /\ u.addr = n.addr
        /\ u.dst = n.src
      BY <2>3, <3>4
    <3>5. CASE n \notin gone /\
               \A u \in gone : ~(u.type = "ReadExFwd" /\ u.addr = n.addr
                   /\ u.dst = n.src)
      BY <1>1, <2>3, <3>1, <3>2, <3>5, CarriedOn
    <3> QED
      BY <3>3, <3>4, <3>5
  <2> QED
    BY <1>2, <2>1, <2>2, <2>3 DEF Valued
<1>3. InFlight' \subseteq InFlight \union Range(out)
  BY DEF Flows
<1>4. \A a \in Addrs : l2'[a] \notin L2Buffered
  BY <1>1 DEF DataInv
<1> QED
  BY <1>1, <1>2, <1>3, <1>4, DataStep

Brings(v) == v.type = "FwdAckData" \/ (v.type = "DataExclusive" /\ v.src \in L1s)

LEMMA BroughtOn ==
  ASSUME NEW gone, NEW out, Flows(gone, out), NEW v \in Range(out),
         v.addr \notin ThreadState, Brings(v)
  PROVE  Valued(v.addr)'
<1>1. v \in InFlight'
  BY SentFlight
<1>2. Carries(v)'
  BY DEF Brings, Carries
<1> QED
  BY <1>1, <1>2 DEF Valued

(* The answer m brings p's line to state, and p sends out.                  *)
Lands(p, m, out, state) ==
  /\ l1' = [l1 EXCEPT ![p][m.addr] = state]
  /\ state = "InvToShEx" => l1[p][m.addr] # "InvToMod"
  /\ (l1[p][m.addr] = "Modified" /\ state # "Modified") \/ m.type = "ReadExFwd" =>
       \E v \in Range(out) : v.addr = m.addr /\ Brings(v)
  /\ m.type = "DataExclusive" /\ m.src \in L1s => state = "Modified"
  /\ \A c \in unsaved' \ unsaved : c = m.addr /\ state = "Modified"
  /\ \A v \in Range(out) : v.type = "DataExclusive" =>
       v.addr = m.addr /\ l1[v.dst][v.addr] = "InvToMod"

LEMMA ReceivedData ==
  ASSUME IInv, Coh, IInv', Coh', DataInv, NEW p \in L1s, NEW m \in Arriving(p),
         m.addr \notin ThreadState, NEW out, Outgoing(out), NEW done, NEW woken,
         Received(p, m, out, done, woken), NEW state, Lands(p, m, out, state)
  PROVE  DataInv'
<1> DEFINE a == m.addr
<1> USE DEF Lands
<1>1. m.dst = p /\ m.type \in ToL1 /\ a \in Addrs \ ThreadState
  BY ReceivedView
<1>2. Flows({m}, out) /\ UNCHANGED l2vars
  BY ReceivedFlow, CohParts DEF IInv, Received
<1>3. /\ l1'[p][a] = state
      /\ \A q \in L1s, c \in Addrs : q # p \/ c # a => l1'[q][c] = l1[q][c]
  BY <1>1 DEF IInv, L1Inv, L1Types
<1>4. (\E v \in Range(out) : v.addr = a /\ Brings(v)) => Valued(a)'
  BY <1>1, <1>2, BroughtOn
<1>5. state = "Modified" => Valued(a)'
  BY <1>3 DEF Valued
<1>6. \A u \in {m} : /\ u.type \in ToL1
                     /\ (u.type = "DataExclusive" /\ u.src \in L1s)
                         \/ u.type = "ReadExFwd"
                          => Valued(u.addr)'
  BY <1>1, <1>4, <1>5
<1>7. ASSUME NEW q \in L1s, NEW c \in Addrs \ ThreadState,
             l1[q][c] = "Modified" /\ l1'[q][c] # "Modified"
      PROVE  Valued(c)'
  <2>1. q = p /\ c = a
    BY <1>3, <1>7
  <2> QED
    BY <1>3, <1>4, <1>7, <2>1
<1>8. \A c \in unsaved' \ unsaved :
        c \in Addrs \ ThreadState /\ \E q \in L1s : l1'[q][c] = "Modified"
  BY <1>1, <1>3
<1>9. \A q \in L1s, c \in Addrs : l1'[q][c] = "InvToShEx" => l1[q][c] # "InvToMod"
  BY <1>3
<1> QED
  BY <1>2, <1>6, <1>7, <1>8, <1>9, L1Data

LEMMA FillData ==
  ASSUME IInv, Coh, IInv', Coh', DataInv, LoadsOnly, NEW p \in L1s,
           NEW m \in Arriving(p),
         m.addr \notin ThreadState, NEW state \in {"Shared", "Exclusive", "Modified"},
         l1[p][m.addr] \in L1Transient,
         state # "Modified" => l1[p][m.addr] = "InvToShEx",
         m.type \in {"DataShared", "DataExclusive", "UpgradeAck"},
         Fill(p, m, state)
  PROVE  DataInv'
<1> DEFINE a == m.addr
<1>1. /\ l1' = [l1 EXCEPT ![p][a] = state] /\ a \in Addrs
      /\ Received(p, m, <<>>, Held(p, a), L1FreedMshr(p, a))
      /\ unsaved' = unsaved \union {r[2] : r \in {d \in Held(p, a) : d[1] = "ST"
          /\ d[2] \in Watched}}
  BY ReceiveFacts DEF Fill, SetLine, Remember
<1>2. ASSUME NEW c \in unsaved' \ unsaved
      PROVE  c = a /\ state = "Modified"
  <2>1. PICK r \in Held(p, a) : r[1] = "ST" /\ c = r[2]
    BY <1>1, <1>2
  <2>2. r \in Requests /\ r[2] = a /\ proc[p][r] = "mshr"
    BY DEF Held
  <2>3. r = <<"ST", a>>
    BY <2>1, <2>2, RequestOf
  <2>4. l1[p][a] # "InvToShEx"
    BY <1>1, <2>2, <2>3 DEF LoadsOnly
  <2> QED
    BY <2>1, <2>2, <2>4
<1>3. m.type = "DataExclusive" /\ m.src \in L1s => state = "Modified"
  <2> SUFFICES ASSUME m.type = "DataExclusive", m.src \in L1s
               PROVE  l1[p][a] = "InvToMod"
    OBVIOUS
  <2>1. m \in InFlight /\ m.dst = p
    BY <1>1, ReceivedFlow, OutgoingNone, ReceiveFacts, CohParts DEF IInv
  <2> QED
    BY <2>1 DEF DataInv
<1>4. l1[p][a] # "Modified" /\ state # "InvToShEx"
  BY DEF L1Transient
<1>5. Range(<<>>) = {}
  BY DEF Range
<1>6. Lands(p, m, <<>>, state)
  BY <1>1, <1>2, <1>3, <1>4, <1>5 DEF Lands
<1> QED
  BY <1>1, <1>6, OutgoingNone, ReceivedData

LEMMA StillData ==
  ASSUME DataInv, UNCHANGED <<l1, l2, sharers, dirty, l2queue, unsaved, net, replay,
           waiting>>
  PROVE  DataInv'
<1>1. InFlight' = InFlight /\ l2' = l2 /\ sharers' = sharers /\ dirty' = dirty
  BY DEF InFlight
<1>2. ASSUME NEW a
      PROVE  View(a)' = View(a)
  BY <1>1 DEF View
<1>3. \A m \in InFlight : Carries(m)' = Carries(m)
  BY <1>1, <1>2 DEF Carries
<1>4. \A a \in unsaved : Valued(a)' = Valued(a)
  BY <1>1, <1>3 DEF Valued
<1> QED
  BY <1>1, <1>4 DEF DataInv

LEMMA FailData ==
  ASSUME DataInv, UNCHANGED <<l1, l2vars, unsaved, net, replay, waiting>>
  PROVE  DataInv'
BY StillData DEF l2vars

(* A message that leaves the line.                                          *)
LEMMA DroppedData ==
  ASSUME IInv, Coh, IInv', Coh', DataInv, NEW p \in L1s, NEW m \in Arriving(p),
         m.addr \notin ThreadState, m.type # "ReadExFwd",
         m.type = "DataExclusive" => l1[p][m.addr] = "Modified", Drop1(p, m)
  PROVE  DataInv'
<1> DEFINE a == m.addr
<1>1. /\ l1' = [l1 EXCEPT ![p][a] = l1[p][a]] /\ unsaved' = unsaved
      /\ Received(p, m, <<>>, {}, {L1SetOf[a]})
  BY DEF Drop1, history, IInv, L1Inv, L1Types
<1>2. Range(<<>>) = {}
  BY DEF Range
<1>3. Lands(p, m, <<>>, l1[p][a])
  BY <1>1, <1>2 DEF Lands
<1> QED
  BY <1>1, <1>3, OutgoingNone, ReceivedData

LEMMA ReleasedData ==
  ASSUME IInv, Coh, IInv', Coh', DataInv, NEW p \in L1s, NEW m \in Arriving(p),
         m.addr \notin ThreadState, m.type \in Lates, l1[p][m.addr] \in L1Buffered,
         Release(p, m)
  PROVE  DataInv'
<1>1. /\ l1' = [l1 EXCEPT ![p][m.addr] = "NotPresent"] /\ unsaved' = unsaved
      /\ Received(p, m, <<>>, {}, L1FreedBuffer(p, m.addr))
  BY DEF Release, SetLine, Remember
<1>2. Range(<<>>) = {} /\ l1[p][m.addr] # "Modified" /\ "NotPresent" # "InvToShEx"
      /\ m.type \notin {"DataExclusive", "ReadExFwd"}
  BY DEF Range, L1Buffered, Lates
<1>3. Lands(p, m, <<>>, "NotPresent")
  BY <1>1, <1>2 DEF Lands
<1> QED
  BY <1>1, <1>3, OutgoingNone, ReceivedData

LEMMA FailedData ==
  ASSUME DataInv, NEW where, Fail(where)
  PROVE  DataInv'
<1>1. UNCHANGED <<l1, l2vars, unsaved, net, replay, waiting>>
  BY DEF Fail, l1vars, bankvars, history
<1> QED
  BY <1>1, FailData

LEMMA AnsweredData ==
  ASSUME IInv, Coh, IInv', Coh', DataInv, LoadsOnly, NEW p \in L1s,
           NEW m \in Arriving(p),
         L1DataShared(p, m) \/ L1DataExclusive(p, m) \/ L1UpgradeAck(p, m)
  PROVE  DataInv'
<1> DEFINE a == m.addr
           st == l1[p][a]
<1>1. CASE \E where : Fail(where)
  BY <1>1, FailedData
<1>2. m.addr \notin ThreadState
  BY ReceivedView DEF L1DataShared, L1DataExclusive, L1UpgradeAck
<1>3. CASE Drop1(p, m) /\ st = "Modified"
  <2>1. m.type # "ReadExFwd"
    BY DEF L1DataShared, L1DataExclusive, L1UpgradeAck
  <2> QED
    BY <1>2, <1>3, <2>1, DroppedData
<1>4. CASE \E state \in {"Shared", "Exclusive", "Modified"} :
             /\ st \in L1Transient /\ (state # "Modified" => st = "InvToShEx")
             /\ Fill(p, m, state)
  <2>1. m.type \in {"DataShared", "DataExclusive", "UpgradeAck"}
    BY DEF L1DataShared, L1DataExclusive, L1UpgradeAck
  <2> QED
    BY <1>2, <1>4, <2>1, FillData
<1>5. {"InvToShEx", "InvToMod", "ShToMod"} \subseteq L1Transient
  BY DEF L1Transient
<1>6. CASE L1DataShared(p, m)
  BY <1>1, <1>3, <1>4, <1>5, <1>6 DEF L1DataShared
<1>7. CASE L1DataExclusive(p, m)
  BY <1>1, <1>3, <1>4, <1>5, <1>7 DEF L1DataExclusive
<1>8. CASE L1UpgradeAck(p, m)
  BY <1>1, <1>3, <1>4, <1>5, <1>8 DEF L1UpgradeAck
<1> QED
  BY <1>6, <1>7, <1>8

LEMMA RecalledClean ==
  ASSUME IInv, Coh, DataInv, NEW p \in L1s, NEW m \in Arriving(p),
           m.type = "Invalidate"
  PROVE  l1[p][m.addr] \notin Owned
<1> DEFINE x == View(m.addr)
<1>1. /\ m.addr \in Addrs /\ LineInv(x) /\ x.lines[p] = l1[p][m.addr]
          /\ x.l2 = l2[m.addr]
      /\ In(x, "Invalidate", p)
  BY ReceivedView DEF Forwards, View
<1>2. x.l2 \notin L2Buffered
  BY <1>1 DEF DataInv
<1>3. x.l2 = "ShToMod" \/ x.lines[p] \in L1Buffered
  BY <1>1, <1>2 DEF LineInv, CopyInv, RecallInv, L2Buffered
<1>4. CASE x.l2 = "ShToMod"
  BY <1>1, <1>4 DEF LineInv, SharingInv, Sharing
<1>5. CASE x.lines[p] \in L1Buffered
  BY <1>1, <1>5 DEF L1Buffered, Owned
<1> QED
  BY <1>3, <1>4, <1>5

LEMMA InvalidateData ==
  ASSUME IInv, Coh, IInv', Coh', DataInv, NEW p \in L1s, NEW m \in Arriving(p),
         L1Invalidate(p, m)
  PROVE  DataInv'
<1> DEFINE a == m.addr
           st == l1[p][a]
<1>1. m.type = "Invalidate"
  BY DEF L1Invalidate
<1>2. m.addr \in Addrs \ ThreadState
  BY <1>1, ReceivedView
<1>3. st \notin Owned
  BY <1>1, RecalledClean
<1>4. CASE Drop1(p, m)
  BY <1>1, <1>2, <1>4, DroppedData
<1>5. CASE Release(p, m) /\ st \in L1Buffered
  BY <1>1, <1>2, <1>5, ReleasedData DEF Lates
<1>6. CASE \E where : Fail(where)
  BY <1>6, FailedData
<1>7. ASSUME NEW state \in {"Invalid", "InvToMod"}, SetLine(p, a, state),
               unsaved' = unsaved,
             NEW out \in {<< Down("InvAck", a, p) >>,
                          << Down("InvAck", a, p), Down("ReadEx", a, p) >>},
             Received(p, m, out, {}, {L1SetOf[a]}), st # "Modified"
      PROVE  DataInv'
  <2>1. Proper(Down("InvAck", a, p)) /\ Proper(Down("ReadEx", a, p))
    BY <1>2, DownProper DEF ToL2
  <2>2. Outgoing(out)
      /\ \A v \in Range(out) : v \in {Down("InvAck", a, p), Down("ReadEx", a, p)}
    BY <2>1, OutgoingOne, OutgoingTwo, RangeOne, RangeTwo
  <2>3. \A v \in Range(out) : v.type # "DataExclusive"
    BY <2>2 DEF Down, Msg
  <2>4. \A c \in unsaved' \ unsaved : c = a /\ state = "Modified"
    BY <1>7
  <2>5. l1' = [l1 EXCEPT ![p][a] = state] /\ state # "InvToShEx"
    BY <1>7 DEF SetLine
  <2>6. Lands(p, m, out, state)
    BY <1>1, <1>7, <2>3, <2>4, <2>5 DEF Lands
  <2> QED
    BY <1>2, <1>7, <2>2, <2>6, ReceivedData
<1>8. CASE st = "Shared"
  BY <1>7, <1>8 DEF L1Invalidate, Remember, L1Buffered
<1>9. CASE st = "ShToMod"
  BY <1>7, <1>9 DEF L1Invalidate, history, L1Buffered
<1> QED
  BY <1>3, <1>4, <1>5, <1>6, <1>8, <1>9 DEF L1Invalidate, Owned

LEMMA ForwardData ==
  ASSUME IInv, Coh, IInv', Coh', DataInv, NEW p \in L1s, NEW m \in Arriving(p),
         L1ReadFwd(p, m)
  PROVE  DataInv'
<1> DEFINE a == m.addr
           st == l1[p][a]
           data == Msg("DataShared", a, p, m.req)
           ack == Down("FwdAckData", a, p)
<1>1. m.type = "ReadFwd"
  BY DEF L1ReadFwd
<1>2. m.addr \in Addrs \ ThreadState /\ m.req \in L1s
  BY <1>1, ReceivedView DEF Forwards
<1>3. Proper(data) /\ Proper(ack)
  BY <1>2, DataProper, DownProper DEF ToL2
<1>4. data.type = "DataShared" /\ ack.type = "FwdAckData" /\ ack.addr = a
  BY DEF Msg, Down
<1> HIDE DEF data, ack
<1>5. CASE \E where : Fail(where)
  BY <1>5, FailedData
<1>6. CASE /\ l1' = l1 /\ unsaved' = unsaved
           /\ Received(p, m, << data >>, {}, {L1SetOf[a]})
  <2>1. Outgoing(<< data >>) /\ Range(<< data >>) = {data}
    BY <1>3, OutgoingOne, RangeOne
  <2>2. l1' = [l1 EXCEPT ![p][a] = st]
    BY <1>2, <1>6 DEF IInv, L1Inv, L1Types
  <2>3. Lands(p, m, << data >>, st)
    BY <1>1, <1>4, <1>6, <2>1, <2>2 DEF Lands
  <2> QED
    BY <1>2, <1>6, <2>1, <2>3, ReceivedData
<1>7. ASSUME st \in {"Exclusive", "Modified", "ModToInv"},
             NEW state \in {"ModToInv", "Shared"}, SetLine(p, a, state),
                 unsaved' = unsaved,
             Received(p, m, << data, ack >>, {}, {L1SetOf[a]})
      PROVE  DataInv'
  <2>1. Outgoing(<< data, ack >>) /\ Range(<< data, ack >>) = {data, ack}
    BY <1>3, OutgoingTwo, RangeTwo
  <2>2. \E v \in Range(<< data, ack >>) : v.addr = a /\ Brings(v)
    BY <1>4, <2>1 DEF Brings
  <2>3. \A v \in Range(<< data, ack >>) : v.type # "DataExclusive"
    BY <1>4, <2>1
  <2>4. \A c \in unsaved' \ unsaved : c = a /\ state = "Modified"
    BY <1>7
  <2>5. l1' = [l1 EXCEPT ![p][a] = state] /\ state # "InvToShEx"
    BY <1>7 DEF SetLine
  <2>6. Lands(p, m, << data, ack >>, state)
    BY <1>1, <2>2, <2>3, <2>4, <2>5 DEF Lands
  <2> QED
    BY <1>2, <1>7, <2>1, <2>6, ReceivedData
<1> QED
  BY <1>5, <1>6, <1>7 DEF L1ReadFwd, history, data, ack

LEMMA HandOnData ==
  ASSUME IInv, Coh, IInv', Coh', DataInv, NEW p \in L1s, NEW m \in Arriving(p),
         L1ReadExFwd(p, m)
  PROVE  DataInv'
<1> DEFINE a == m.addr
           st == l1[p][a]
           data == Msg("DataExclusive", a, p, m.req)
<1>1. m.type = "ReadExFwd"
  BY DEF L1ReadExFwd
<1>2. /\ m.addr \in Addrs \ ThreadState /\ m.req \in L1s /\ LineInv(View(a))
      /\ Sent(View(a), "ReadExFwd", p, m.req) /\ View(a).lines[m.req] = l1[m.req][a]
  BY <1>1, ReceivedView DEF Forwards, View
<1>3. l1[m.req][a] = "InvToMod"
  BY <1>2 DEF LineInv, CopyInv, TokenInv
<1>4. /\ Proper(data) /\ data.addr = a /\ data.dst = m.req
          /\ data.type = "DataExclusive"
      /\ data.src = p
  BY <1>2, DataProper DEF Msg
<1> HIDE DEF data
<1>5. CASE \E where : Fail(where)
  BY <1>5, FailedData
<1>6. ASSUME NEW state \in {"ModToInv", "Invalid"}, SetLine(p, a, state),
               unsaved' = unsaved,
             Received(p, m, << data >>, {}, {L1SetOf[a]})
      PROVE  DataInv'
  <2>1. Outgoing(<< data >>) /\ Range(<< data >>) = {data}
    BY <1>4, OutgoingOne, RangeOne
  <2>2. \E v \in Range(<< data >>) : v.addr = a /\ Brings(v)
    BY <1>4, <2>1 DEF Brings
  <2>3. \A v \in Range(<< data >>) : v.addr = a /\ l1[v.dst][v.addr] = "InvToMod"
    BY <1>3, <1>4, <2>1
  <2>4. \A c \in unsaved' \ unsaved : c = a /\ state = "Modified"
    BY <1>6
  <2>5. l1' = [l1 EXCEPT ![p][a] = state] /\ state # "InvToShEx"
    BY <1>6 DEF SetLine
  <2>6. Lands(p, m, << data >>, state)
    BY <1>1, <2>2, <2>3, <2>4, <2>5 DEF Lands
  <2> QED
    BY <1>2, <1>6, <2>1, <2>6, ReceivedData
<1> QED
  BY <1>5, <1>6 DEF L1ReadExFwd, history, data

LEMMA AckedData ==
  ASSUME IInv, Coh, IInv', Coh', DataInv, NEW p \in L1s, NEW m \in Arriving(p),
         L1WriteBackAck(p, m) \/ L1ReplaceAck(p, m)
  PROVE  DataInv'
<1>1. m.type \in {"WriteBackAck", "ReplaceAck"}
  BY DEF L1WriteBackAck, L1ReplaceAck
<1>2. m.addr \in Addrs \ ThreadState /\ m.type \in Lates
  BY <1>1, ReceivedView DEF Lates
<1>3. CASE Drop1(p, m)
  BY <1>1, <1>2, <1>3, DroppedData
<1>4. CASE Release(p, m) /\ l1[p][m.addr] \in L1Buffered
  BY <1>2, <1>4, ReleasedData
<1>5. CASE \E where : Fail(where)
  BY <1>5, FailedData
<1> QED
  BY <1>3, <1>4, <1>5 DEF L1WriteBackAck, L1ReplaceAck, L1Buffered

LEMMA TSTRespData ==
  ASSUME IInv, Coh, IInv', Coh', DataInv, NEW p \in L1s, NEW m \in Arriving(p),
         L1TSTResp(p, m)
  PROVE  DataInv'
<1>1. PICK r : Received(p, m, <<>>, {r}, {L1SetOf[m.addr]})
  BY DEF L1TSTResp
<1>2. Flows({m}, <<>>) /\ UNCHANGED l2vars
  BY <1>1, ReceivedFlow, OutgoingNone, CohParts DEF IInv, Received
<1>3. /\ l1' = l1 /\ unsaved' = unsaved /\ m.addr \in ThreadState /\ m.type \in ToL1
  BY DEF L1TSTResp, history, ToL1
<1>4. Range(<<>>) = {}
  BY DEF Range
<1> QED
  BY <1>2, <1>3, <1>4, L1Data

LEMMA L1ReceiveData ==
  ASSUME IInv, Coh, IInv', Coh', DataInv, LoadsOnly, NEW p \in L1s,
           NEW m \in Arriving(p),
         L1Receive(p, m)
  PROVE  DataInv'
BY AnsweredData, InvalidateData, ForwardData, HandOnData, AckedData, TSTRespData
    DEF L1Receive

LEMMA OwnerKnown ==
  ASSUME Coh, NEW p \in L1s, NEW a \in Addrs \ ThreadState, l1[p][a] \in Owned
  PROVE  p \in sharers[a] \/ Owes(View(a), "ReadExFwd", p)
<1> DEFINE x == View(a)
<1>1. LineInv(x) /\ x.lines[p] = l1[p][a] /\ x.dir = sharers[a]
  BY DEF Coh, View
<1> HIDE DEF x
<1> QED
  BY <1>1 DEF LineInv, CopyInv, EntryInv, Present, Readable, Owned, x

(* A miss of p, and the line that gives it its way.                         *)
Makes(p, a, lines, first) ==
  /\ l1[p][a] # "Modified"
  /\ \A c \in Addrs :
       /\ lines[c] = "InvToShEx" => l1[p][c] # "InvToMod"
       /\ l1[p][c] = "Modified" /\ lines[c] # "Modified"
           => Down("WriteBack", c, p) \in Range(first)
  /\ \A v \in Range(first) : v.type # "DataExclusive"

LEMMA AskData ==
  ASSUME IInv, Coh, IInv', Coh', DataInv, NEW p \in L1s, NEW r \in Requests,
         NEW type \in {"Read", "ReadEx", "Upgrade"},
             NEW state \in {"InvToShEx", "InvToMod", "ShToMod"},
         state = "InvToShEx" => l1[p][r[2]] # "InvToMod",
         NEW lines \in [Addrs -> L1State], NEW first, Outgoing(first),
         Makes(p, r[2], lines, first), Ask(p, r, type, state, lines, first)
  PROVE  DataInv'
<1> DEFINE a == r[2]
           d == Down(type, a, p)
           out == Append(first, d)
<1>1. r[2] \in Addrs /\ Proper(d) /\ d.type # "DataExclusive"
  BY RequestOf, DownProper DEF ToL2, Down, Msg
<1>2. UNCHANGED <<l2vars, bankvars, unsaved>> /\ net' = Post(net, out)
  BY DEF Ask, history
<1>3. l1' = [l1 EXCEPT ![p] = [lines EXCEPT ![a] = state]]
  BY DEF Ask
<1> HIDE DEF d
<1>4. Outgoing(out) /\ Range(out) = Range(first) \union {d}
  <2>1. first \in Seq(Message) /\ d \in Message
    BY <1>1 DEF Outgoing, Proper
  <2> QED
    BY <1>1, <2>1, OutgoingAppend, AppendRange
<1>5. Flows({}, out)
  BY <1>2, <1>4, PostedFlow, CohParts DEF IInv
<1> HIDE DEF out
<1>6. /\ l1'[p][a] = state /\ \A c \in Addrs \ {a} : l1'[p][c] = lines[c]
      /\ \A q \in L1s \ {p}, c \in Addrs : l1'[q][c] = l1[q][c]
  BY <1>1, <1>3 DEF IInv, L1Inv, L1Types
<1>7. ASSUME NEW q \in L1s, NEW c \in Addrs \ ThreadState,
             l1[q][c] = "Modified", l1'[q][c] # "Modified"
      PROVE  Valued(c)'
  <2>1. q = p /\ c # a /\ lines[c] # "Modified"
    BY <1>6, <1>7 DEF Makes
  <2> DEFINE e == Down("WriteBack", c, p)
  <2>2. e \in Range(out)
    BY <1>4, <1>7, <2>1 DEF Makes
  <2>3. e.type = "WriteBack" /\ e.addr = c /\ e.src = p
    BY DEF Down, Msg
  <2> HIDE DEF e
  <2>4. e \in InFlight'
    BY <1>5, <1>7, <2>2, <2>3, SentFlight
  <2>5. p \in sharers[c] \/ Owes(View(c), "ReadExFwd", p)
    BY <1>7, <2>1, OwnerKnown DEF Owned
  <2>6. p \in sharers'[c] \/ Owes(View(c)', "ReadExFwd", p)
    BY <1>2, <1>5, <2>5, OwesKept DEF l2vars
  <2>7. Carries(e)'
    BY <2>3, <2>6 DEF Carries
  <2> QED
    BY <2>3, <2>4, <2>7 DEF Valued
<1>8. \A q \in L1s, c \in Addrs : l1'[q][c] = "InvToShEx" => l1[q][c] # "InvToMod"
  BY <1>6 DEF Makes
<1>9. \A v \in Range(out) : v.type # "DataExclusive"
  BY <1>1, <1>4 DEF Makes
<1> QED
  BY <1>2, <1>5, <1>7, <1>8, <1>9, L1Data

LEMMA MissData ==
  ASSUME IInv, Coh, IInv', Coh', DataInv, NEW p \in L1s, NEW r \in Requests,
         NEW type \in {"Read", "ReadEx"}, NEW state \in {"InvToShEx", "InvToMod"},
         l1[p][r[2]] \in {"NotPresent", "Invalid"}, Miss(p, r, type, state)
  PROVE  DataInv'
<1> DEFINE absent == l1[p][r[2]] = "NotPresent"
           victims == IF absent THEN L1Victims(p, L1SetOf[r[2]]) ELSE {Unused}
<1>1. CASE \E where \in {"replay", "wait"} : Stall(p, r, where)
  BY <1>1, FailData DEF Stall, history, bankvars
<1>2. ASSUME NEW v \in victims,
             Ask(p, r, type, state, L1Evict(p, v), L1EvictMsg(p, v))
      PROVE  DataInv'
  <2>1. L1Types
    BY DEF IInv, L1Inv
  <2>2. v = Unused \/ (v \in Addrs /\ l1[p][v] \in L1Replaceable \union {"Invalid"})
    BY DEF L1Victims, L1Ways
  <2>3. Outgoing(L1EvictMsg(p, v)) /\ L1Evict(p, v) \in [Addrs -> L1State]
    BY <2>1, <2>2, EvictMessage, VictimLeaves
  <2>4. \A u \in Range(L1EvictMsg(p, v)) : u.type # "DataExclusive"
    <3>1. CASE v = Unused \/ l1[p][v] = "Invalid"
      BY <3>1 DEF L1EvictMsg, Range
    <3>2. CASE ~(v = Unused \/ l1[p][v] = "Invalid")
      <4> DEFINE t == CASE l1[p][v] = "Shared" -> "Replace"
                        [] l1[p][v] = "Exclusive" -> "WriteBackClean"
                        [] OTHER -> "WriteBack"
      <4>1. L1EvictMsg(p, v) = << Down(t, v, p) >>
        BY <3>2 DEF L1EvictMsg
      <4>2. t # "DataExclusive"
        OBVIOUS
      <4> HIDE DEF t
      <4>3. Down(t, v, p).type = t
        BY DEF Down, Msg
      <4> QED
        BY <4>1, <4>2, <4>3, RangeOne
    <3> QED
      BY <3>1, <3>2
  <2>5. ASSUME NEW c \in Addrs, l1[p][c] = "Modified", L1Evict(p, v)[c] # "Modified"
        PROVE  Down("WriteBack", c, p) \in Range(L1EvictMsg(p, v))
    <3>1. c = v
      BY <2>5 DEF L1Evict
    <3>2. L1EvictMsg(p, v) = << Down("WriteBack", c, p) >>
      BY <2>5, <3>1, CmpInclAssumption DEF L1EvictMsg
    <3> QED
      BY <3>2, RangeOne
  <2>6. \A c \in Addrs : L1Evict(p, v)[c] = "InvToShEx" => l1[p][c] # "InvToMod"
    BY DEF L1Evict
  <2>7. Makes(p, r[2], L1Evict(p, v), L1EvictMsg(p, v))
    BY <2>4, <2>5, <2>6 DEF Makes
  <2> QED
    BY <1>2, <2>3, <2>7, AskData
<1> QED
  BY <1>1, <1>2 DEF Miss

LEMMA HitData ==
  ASSUME IInv, Coh, IInv', Coh', DataInv, NEW p \in L1s, NEW r \in Requests,
         r[2] \notin ThreadState,
             NEW state \in {"Shared", "Exclusive", "Modified", "ShToMod"},
         state = l1[p][r[2]] \/ state = "Modified", r[1] = "ST" => state = "Modified",
         Hit(p, r, state)
  PROVE  DataInv'
<1> DEFINE a == r[2]
<1>1. a \in Addrs
  BY RequestOf
<1>2. /\ l1'[p][a] = state
      /\ \A q \in L1s, c \in Addrs : q # p \/ c # a => l1'[q][c] = l1[q][c]
  BY <1>1 DEF Hit, SetLine, IInv, L1Inv, L1Types
<1>3. UNCHANGED <<l2vars, bankvars, net>>
  BY DEF Hit
<1>4. \A c \in unsaved' \ unsaved : c = a /\ state = "Modified"
  BY DEF Hit, Remember
<1>5. Flows({}, <<>>)
  BY <1>3 DEF Flows, InFlight, bankvars, Cached, Range
<1>6. Range(<<>>) = {}
  BY DEF Range
<1>7. \A q \in L1s, c \in Addrs : /\ l1'[q][c] = "InvToShEx" => l1[q][c] # "InvToMod"
                                  /\ l1[q][c] = "Modified" => l1'[q][c] = "Modified"
  BY <1>2
<1> QED
  BY <1>1, <1>2, <1>3, <1>4, <1>5, <1>6, <1>7, L1Data

LEMMA ProcData ==
  ASSUME IInv, Coh, IInv', Coh', DataInv, NEW p \in L1s, NEW a \in Addrs,
         ProcLD(p, a) \/ ProcST(p, a)
  PROVE  DataInv'
<1>1. <<"LD", a>> \in Requests /\ <<"ST", a>> \in Requests
  BY DEF Requests
<1>2. ASSUME NEW r \in Requests, Merge(p, r) \/ \E where : Stall(p, r, where)
      PROVE  DataInv'
  BY <1>2, FailData DEF Stall, Merge, history, bankvars
<1>3. CASE ProcLD(p, a)
  <2> DEFINE r == <<"LD", a>>
  <2>1. a \notin ThreadState /\ r[2] = a /\ r[1] = "LD"
    BY <1>3 DEF ProcLD
  <2>2. \/ l1[p][a] \in {"NotPresent", "Invalid"} /\ Miss(p, r, "Read", "InvToShEx")
        \/ Merge(p, r) \/ \E where : Stall(p, r, where)
        \/ l1[p][a] \in {"Shared", "Exclusive", "Modified", "ShToMod"}
            /\ Hit(p, r, l1[p][a])
    BY <1>3 DEF ProcLD
  <2> HIDE DEF r
  <2> QED
    BY <1>1, <1>2, <2>1, <2>2, MissData, HitData DEF r
<1>4. CASE ProcST(p, a)
  <2> DEFINE r == <<"ST", a>>
  <2>1. a \notin ThreadState /\ r[2] = a /\ r[1] = "ST"
    BY <1>4 DEF ProcST
  <2>2. \/ l1[p][a] \in {"NotPresent", "Invalid"} /\ Miss(p, r, "ReadEx", "InvToMod")
        \/ Merge(p, r) \/ \E where : Stall(p, r, where)
        \/ Hit(p, r, "Modified")
        \/ l1[p][a] = "Shared" /\ Ask(p, r, "Upgrade", "ShToMod", l1[p], <<>>)
    BY <1>4 DEF ProcST
  <2>3. Makes(p, a, l1[p], <<>>) \/ l1[p][a] # "Shared"
    BY DEF Makes, Range
  <2>4. l1[p] \in [Addrs -> L1State]
    BY DEF IInv, L1Inv, L1Types
  <2> HIDE DEF r
  <2> QED
    BY <1>1, <1>2, <2>1, <2>2, <2>3, <2>4, MissData, HitData, AskData, OutgoingNone
        DEF r
<1> QED
  BY <1>3, <1>4

LEMMA ProcTSTData ==
  ASSUME IInv, Coh, IInv', Coh', DataInv, NEW p \in L1s, NEW r \in Requests,
           ProcTST(p, r)
  PROVE  DataInv'
<1> DEFINE type == IF r[1] = "LD" THEN "Read" ELSE "ReadEx"
           d == Down(type, r[2], p)
<1>1. net' = Post(net, << d >>) /\ UNCHANGED <<l1, l2vars, bankvars, unsaved>>
  BY DEF ProcTST, history
<1>2. Proper(d) /\ d.type # "DataExclusive"
  BY DownProper, RequestOf DEF ToL2, Down, Msg
<1> HIDE DEF d
<1>3. Outgoing(<< d >>) /\ Range(<< d >>) = {d}
  BY <1>2, OutgoingOne, RangeOne
<1>4. Flows({}, << d >>)
  BY <1>1, <1>3, PostedFlow, CohParts DEF IInv
<1> QED
  BY <1>1, <1>2, <1>3, <1>4, L1Data

-----------------------------------------------------------------------------
(* The steps of the L2 and of main memory.                                  *)

(* What the L2 does to the lines, in an L2 that never replaces any.         *)
LinesKept ==
  \A a \in Addrs : /\ l2'[a] \notin L2Buffered
                   /\ l2[a] # "NotPresent" => l2'[a] # "NotPresent"
                       /\ (dirty[a] => dirty'[a])

(* Steps of the L2 and of main memory.                                      *)
LEMMA HomeData ==
  ASSUME IInv, Coh, IInv', Coh', DataInv, l1' = l1, unsaved' = unsaved, LinesKept,
         NEW gone, NEW out, Flows(gone, out), \A v \in Range(out) : FromL2(v),
         \A u \in gone : u.type \in ToL2,
         \A n \in InFlight : n.addr \notin ThreadState /\ Carries(n)
             /\ ~dirty'[n.addr] =>
           /\ n \notin gone
           /\ n.type = "WriteBack" /\ n.src \in sharers[n.addr] =>
                n.src \in sharers'[n.addr] \/ Owes(View(n.addr)', "ReadExFwd", n.src)
  PROVE  DataInv'
<1>1. ASSUME NEW a \in Addrs \ ThreadState, l2[a] # "NotPresent", Valued(a)
      PROVE  Valued(a)'
  <2>1. CASE dirty[a]
    BY <1>1, <2>1 DEF LinesKept, Valued
  <2>2. CASE \E p \in L1s : l1[p][a] = "Modified"
    BY <2>2 DEF Valued
  <2>3. ASSUME NEW n \in InFlight, n.addr = a, Carries(n), ~dirty'[a]
        PROVE  Valued(a)'
    <3>1. Proper(n) /\ n.src \in Nodes
      BY TrafficProper, ProperOfMessage DEF IInv
    <3>2. n.type = "WriteBack" => n.src \in L1s
      BY <3>1 DEF Proper, ToL2
    <3>3. \A u \in gone : u.type # "ReadExFwd"
      BY DEF ToL2
    <3> QED
      BY <2>3, <3>1, <3>2, <3>3, CarriedOn
  <2> QED
    BY <1>1, <2>1, <2>2, <2>3 DEF Valued
<1>2. InFlight' \subseteq InFlight \union Range(out)
  BY DEF Flows
<1>3. \A v \in Range(out) : v.src \notin L1s
  BY CmpInclAssumption DEF FromL2
<1>4. \A a \in Addrs : l2'[a] \notin L2Buffered
  BY DEF LinesKept
<1>5. \A a \in Addrs \ ThreadState :
        l2[a] # "NotPresent" => l2'[a] # "NotPresent" /\ (Valued(a) => Valued(a)')
  BY <1>1 DEF LinesKept
<1>6. \A p \in L1s, a \in Addrs : l1'[p][a] = "InvToShEx" => l1[p][a] # "InvToMod"
  OBVIOUS
<1> QED
  BY <1>2, <1>3, <1>4, <1>5, <1>6, DataStep

(* A message of the owner that brings the value is the end of its own.      *)
Steady(m) ==
  /\ l1' = l1 /\ unsaved' = unsaved /\ LinesKept
  /\ Carries(m) => dirty'[m.addr]

LEMMA ProcessData ==
  ASSUME IInv, Coh, IInv', Coh', DataInv, NEW b \in Banks, NEW m \in Ready(b),
         Handled(m), Steady(m)
  PROVE  DataInv'
<1>1. /\ NetInv /\ Orderly /\ KeptInv /\ Lone(InFlight) /\ m \in InFlight
          /\ m.type \in ToL2
      /\ m.addr \in Addrs /\ m.src \in L1s
  <2>1. NetInv /\ Orderly /\ KeptInv
    BY CohParts DEF IInv
  <2> QED
    BY <2>1, TakeFlow, ProcessFacts, InFlightIs DEF Orderly, Order
<1>2. PICK gone, out : /\ gone \subseteq {m} /\ Flows(gone, out)
                       /\ \A v \in Range(out) : FromL2(v)
  <2>1. CASE \E out : Flows({m}, out) /\ \A v \in Range(out) : FromL2(v)
    BY <2>1
  <2>2. CASE Flows({}, <<>>)
    BY <2>2, NoneTyped
  <2>3. CASE UNCHANGED <<net, replay, waiting>>
    <3>1. Flows({}, <<>>)
      BY <2>3 DEF Flows, InFlight, Cached, Range
    <3> QED
      BY <3>1, NoneTyped
  <2> QED
    BY <2>1, <2>2, <2>3 DEF Handled
<1>3. ASSUME NEW n \in InFlight, n.addr \notin ThreadState, Carries(n),
               ~dirty'[n.addr]
      PROVE  /\ n \notin gone
             /\ n.type = "WriteBack" /\ n.src \in sharers[n.addr] =>
                  n.src \in sharers'[n.addr]
                      \/ Owes(View(n.addr)', "ReadExFwd", n.src)
  <2> DEFINE a == n.addr
             x == View(a)
             p == n.src
  <2>1. n # m
    BY <1>3 DEF Steady
  <2>2. Proper(n) /\ a \in Addrs \ ThreadState /\ LineInv(x)
    <3>1. Proper(n)
      BY <1>1, TrafficProper
    <3> QED
      BY <1>3, <3>1, ProperOfMessage DEF Coh
  <2>3. ASSUME n.type = "WriteBack", p \in sharers[a], p \notin sharers'[a],
               ~Owes(View(a)', "ReadExFwd", p)
        PROVE  FALSE
    <3>1. p \in L1s
      BY <2>2, <2>3 DEF Proper, ToL2
    <3>2. m.addr = a /\ m.src = p /\ m.type \in Leaving
      BY <2>2, <2>3 DEF Handled, Settles
    <3>3. Mark(n) = <<"WriteBack", p, p>> /\ Mark(n) \in x.msgs /\ Mark(m) \in x.msgs
      BY <1>1, <2>2, <2>3, <3>2, InView DEF Mark, Forwards, ToL1
    <3>4. CASE m.type \in {"WriteBack", "WriteBackClean"}
      <4>1. Mark(m) = <<"WriteBack", p, p>>
        BY <3>2, <3>4 DEF Mark, Forwards, ToL1
      <4> QED
        BY <1>1, <2>1, <2>2, <3>2, <3>3, <4>1 DEF Lone
    <3>5. CASE m.type \in {"Replace", "InvAck"}
      <4>1. Mark(m) = <<m.type, p, p>>
        BY <3>2, <3>5 DEF Mark, Forwards, ToL1
      <4>2. In(x, "WriteBack", p) /\ In(x, m.type, p)
        BY <3>3, <4>1 DEF In
      <4> QED
        BY <2>2, <3>1, <3>5, <4>2 DEF LineInv, CopyInv, GoneInv
    <3> QED
      BY <3>2, <3>4, <3>5 DEF Leaving
  <2> QED
    BY <1>2, <2>1, <2>3
<1>4. \A u \in gone : u.type \in ToL2
  BY <1>1, <1>2
<1>5. l1' = l1 /\ unsaved' = unsaved /\ LinesKept
  BY DEF Steady
<1> QED
  BY <1>2, <1>3, <1>4, <1>5, HomeData

(* A line that is not in the L2 finds a way for it.                         *)
LEMMA WayLeft ==
  ASSUME L2Ample, NEW a \in Addrs, l2[a] = "NotPresent"
  PROVE  L2Victims(L2SetOf[a]) = {Unused}
<1> DEFINE s == L2SetOf[a]
           lines == {c \in Addrs : L2SetOf[c] = s}
<1>1. s \in Sets
  BY CmpInclAssumption
<1>2. IsFiniteSet(lines) /\ Cardinality(lines) <= L2Assoc
  BY <1>1 DEF L2Ample
<1>3. L2Ways(s) \subseteq lines \ {a} /\ a \in lines
  BY DEF L2Ways
<1> HIDE DEF lines
<1>4. IsFiniteSet(lines \ {a}) /\ Cardinality(lines \ {a}) = Cardinality(lines) - 1
  BY <1>2, <1>3, FS_RemoveElement
<1>5. IsFiniteSet(L2Ways(s)) /\ Cardinality(L2Ways(s)) <= Cardinality(lines \ {a})
  BY <1>3, <1>4, FS_Subset
<1>6. Cardinality(lines) \in Nat /\ Cardinality(L2Ways(s)) \in Nat /\ L2Assoc \in Nat
  BY <1>2, <1>5, FS_CardinalityType, CmpInclAssumption
<1>7. Cardinality(L2Ways(s)) < L2Assoc
  BY <1>2, <1>4, <1>5, <1>6
<1> QED
  BY <1>7 DEF L2Victims

LEMMA PutBackSteady ==
  ASSUME DataInv, NEW m, m.type \in {"Read", "ReadEx", "Upgrade"}, Poll(m) \/ Block(m)
  PROVE  Steady(m)
BY DEF Poll, Block, Steady, LinesKept, DataInv, l1vars, l2vars, history, Carries

LEMMA LineSteady ==
  ASSUME IInv, DataInv, NEW m, m.addr \in Addrs, NEW out, NEW woken,
           Done(m, out, woken),
         unsaved' = unsaved, NEW state, NEW sh, NEW d, Line(m.addr, state, sh, d),
         state \notin L2Buffered, l2[m.addr] # "NotPresent" => state # "NotPresent",
         dirty[m.addr] \/ Carries(m) => d
  PROVE  Steady(m)
<1>1. /\ l2'[m.addr] = state /\ dirty'[m.addr] = d
      /\ \A c \in Addrs : c # m.addr => l2'[c] = l2[c] /\ dirty'[c] = dirty[c]
  BY DEF Line, IInv, L2Inv, L2Types
<1>2. LinesKept
  BY <1>1 DEF LinesKept, DataInv
<1> QED
  BY <1>1, <1>2 DEF Steady, Done, l1vars

LEMMA InsertSteady ==
  ASSUME IInv, DataInv, NEW m, m.addr \in Addrs, ~Carries(m),
           l2[m.addr] = "NotPresent",
         NEW sh, Insert(m, Unused, sh)
  PROVE  Steady(m)
<1>1. Unused \notin Addrs /\ unsaved' = unsaved /\ l1' = l1
  BY CmpInclAssumption DEF Insert, SavedByEviction, Done, l1vars
<1>2. l2'[m.addr] = "InvToMod" /\ \A c \in Addrs : c # m.addr => l2'[c] = l2[c]
  BY <1>1 DEF Insert
<1>3. \A c \in Addrs : c # m.addr => (dirty[c] => dirty'[c])
  BY <1>1 DEF Insert
<1>4. LinesKept
  BY <1>2, <1>3 DEF LinesKept, DataInv, L2Buffered
<1> QED
  BY <1>1, <1>4 DEF Steady

LEMMA MissSteady ==
  ASSUME L2Ample, IInv, DataInv, NEW m, m.addr \in Addrs,
           m.type \in {"Read", "ReadEx"},
         l2[m.addr] = "NotPresent", NEW sh, L2Miss(m, sh)
  PROVE  Steady(m)
<1>1. ~Carries(m)
  BY DEF Carries
<1>2. L2Victims(L2SetOf[m.addr]) = {Unused}
  BY WayLeft
<1> QED
  BY <1>1, <1>2, InsertSteady, PutBackSteady DEF L2Miss

LEMMA RequestSteady ==
  ASSUME L2Ample, IInv, Coh, DataInv, NEW b \in Banks, NEW m \in Ready(b),
         L2Read(m) \/ L2ReadEx(m) \/ L2Upgrade(m) \/ L2TST(m)
  PROVE  Steady(m) \/ \E where : Fail(where)
<1> DEFINE a == m.addr
           st == l2[a]
<1>1. a \in Addrs /\ m.type \in {"Read", "ReadEx", "Upgrade"} /\ st \notin L2Buffered
  BY ProcessFacts DEF L2Read, L2ReadEx, L2Upgrade, L2TST, DataInv
<1>2. ~Carries(m)
  BY <1>1 DEF Carries
<1>3. Poll(m) \/ Block(m) => Steady(m)
  BY <1>1, PutBackSteady
<1>4. ASSUME NEW out, NEW woken, Done(m, out, woken), unsaved' = unsaved, NEW state,
               NEW sh,
             Line(a, state, sh, dirty[a]),
             state \in {"Shared", "Modified", "ModToSh", "ShToMod", st}
      PROVE  Steady(m)
  BY <1>1, <1>2, <1>4, LineSteady DEF L2Buffered
<1>5. ASSUME NEW out, NEW state \in {"Shared", "Modified", "ModToSh", "ShToMod", st},
               NEW sh,
             Reply(m, out, state, sh)
      PROVE  Steady(m)
  BY <1>4, <1>5 DEF Reply
<1>6. ASSUME NEW sh, Collect(m, sh)
      PROVE  Steady(m)
  <2>1. CASE L2MshrsFull
    BY <1>3, <1>6, <2>1 DEF Collect
  <2>2. CASE ~L2MshrsFull
    BY <1>4, <1>6, <2>2 DEF Collect
  <2> QED
    BY <2>1, <2>2
<1>7. ASSUME HandOver(m)
      PROVE  Steady(m) \/ \E where : Fail(where)
  BY <1>5, <1>7 DEF HandOver
<1>8. ASSUME NEW sh, L2Miss(m, sh), st = "NotPresent", m.type # "Upgrade"
      PROVE  Steady(m)
  BY <1>1, <1>8, MissSteady
<1> HIDE DEF st
<1>9. CASE L2Read(m)
  BY <1>3, <1>4, <1>5, <1>8, <1>9 DEF L2Read, st
<1>10. CASE L2ReadEx(m)
  BY <1>3, <1>5, <1>6, <1>7, <1>8, <1>10 DEF L2ReadEx, st
<1>11. CASE L2Upgrade(m)
  <2>1. m.type = "Upgrade" /\ m \in InFlight
    BY <1>11, TakeFlow, CohParts DEF L2Upgrade, IInv
  <2>2. a \notin ThreadState
    BY <2>1, CohParts DEF ThreadStateInv
  <2>3. In(View(a), "Upgrade", m.src)
    BY <2>1, <2>2, ProcessedView
  <2>4. st # "NotPresent"
    BY <2>1, <2>2, <2>3, RequestView, UpgradeFinds DEF st
  <2> QED
    BY <1>3, <1>5, <1>6, <1>7, <1>11, <2>4 DEF L2Upgrade, st
<1>12. CASE L2TST(m)
  BY <1>3, <1>5, <1>8, <1>12 DEF L2TST, st
<1> QED
  BY <1>9, <1>10, <1>11, <1>12

LEMMA AnswerSteady ==
  ASSUME IInv, Coh, DataInv, NEW b \in Banks, NEW m \in Ready(b),
         L2Replace(m) \/ L2InvAck(m) \/ L2WriteBack(m) \/ L2FwdAckData(m)
  PROVE  Steady(m) \/ \E where : Fail(where)
<1> DEFINE a == m.addr
           st == l2[a]
           p == m.src
<1>1. a \in Addrs /\ st \notin L2Buffered
    /\ m.type \in {"Replace", "InvAck", "WriteBack", "WriteBackClean", "FwdAckData"}
  BY ProcessFacts DEF L2Replace, L2InvAck, L2WriteBack, L2FwdAckData, DataInv
<1>2. a \in Addrs \ ThreadState /\ LineInv(View(a)) /\ View(a).l2 = st /\ p \in L1s
  <2>1. m \in InFlight
    BY TakeFlow, CohParts DEF IInv
  <2>2. a \notin ThreadState
    BY <1>1, <2>1, CohParts DEF ThreadStateInv
  <2> QED
    BY <2>2, ProcessedView
<1>3. ASSUME NEW out, NEW woken, Done(m, out, woken), unsaved' = unsaved, NEW state,
               NEW sh,
             NEW d, Line(a, state, sh, d), dirty[a] \/ Carries(m) => d,
             state \in {"Shared", "Modified", "ModToSh", "ShToMod", st}
      PROVE  Steady(m)
  BY <1>1, <1>3, LineSteady DEF L2Buffered
<1>4. ASSUME NEW out, NEW state \in {"Shared", "Modified", "ModToSh", "ShToMod", st},
               NEW sh,
             Reply(m, out, state, sh), ~Carries(m)
      PROVE  Steady(m)
  BY <1>3, <1>4 DEF Reply
<1>5. ASSUME SharerGone(m), ~Carries(m)
      PROVE  Steady(m) \/ \E where : Fail(where)
  BY <1>1, <1>3, <1>4, <1>5 DEF SharerGone, L2Buffered
<1>6. st \in {"NotPresent", "InvToMod", "Shared", "ShToMod"}
    => ~Owes(View(a), "ReadExFwd", p)
  BY <1>2 DEF LineInv, SharingInv, Sharing
<1> HIDE DEF st
<1>7. CASE L2Replace(m)
  <2>1. ~Carries(m)
    BY <1>7 DEF L2Replace, Carries
  <2> QED
    BY <1>4, <1>5, <1>7, <2>1 DEF L2Replace, st
<1>8. CASE L2InvAck(m)
  <2>1. ~Carries(m)
    BY <1>8 DEF L2InvAck, Carries
  <2> QED
    BY <1>1, <1>5, <1>8, <2>1 DEF L2InvAck, st, L2Buffered
<1>9. CASE L2WriteBack(m)
  <2> DEFINE left == sharers[a] \ {p}
             d == dirty[a] \/ m.type = "WriteBack"
             ack == << Up("WriteBackAck", a, p) >>
  <2>1. Carries(m) => m.type = "WriteBack"
      /\ (p \in sharers[a] \/ Owes(View(a), "ReadExFwd", p))
    BY <1>9 DEF L2WriteBack, Carries
  <2>2. CASE /\ st \in {"NotPresent", "InvToMod", "Shared", "ShToMod"}
      /\ p \notin sharers[a]
             /\ Reply(m, ack, st, sharers[a])
    BY <1>4, <1>6, <2>1, <2>2
  <2>3. CASE /\ st \in {"Modified", "ModToSh"}
             /\ Line(a, IF st = "Modified" /\ left = {} THEN "Shared" ELSE st, left,
                 d)
             /\ Done(m, ack, {L2SetOf[a]}) /\ unsaved' = unsaved
    BY <1>3, <2>1, <2>3
  <2> QED
    BY <1>1, <1>9, <2>2, <2>3 DEF L2WriteBack, st, L2Buffered
<1>10. CASE L2FwdAckData(m)
  <2>1. CASE l2[a] = "ModToSh"
    <3>1. /\ Done(m, Responses(a), L2FreedMshr(a)) /\ unsaved' = unsaved
          /\ Line(a, "Shared", sharers[a], TRUE)
      BY <1>10, <2>1 DEF L2FwdAckData
    <3> QED
      BY <1>3, <3>1
  <2>2. CASE l2[a] # "ModToSh"
    BY <1>10, <2>2 DEF L2FwdAckData
  <2> QED
    BY <2>1, <2>2
<1> QED
  BY <1>7, <1>8, <1>9, <1>10

LEMMA ProcessedData ==
  ASSUME L2Ample, IInv, Coh, IInv', Coh', DataInv, NEW b \in Banks,
           NEW m \in Ready(b),
         L2Process(m)
  PROVE  DataInv'
<1>1. CASE \E where : Fail(where)
  BY <1>1, FailedData
<1>2. CASE Steady(m)
  BY <1>2, ProcessHandled, ProcessData
<1> QED
  BY <1>1, <1>2, RequestSteady, AnswerSteady DEF L2Process

LEMMA MemoryData ==
  ASSUME IInv, Coh, IInv', Coh', DataInv, NEW a \in Addrs, MemoryResponse(a)
  PROVE  DataInv'
<1>1. CASE l2[a] # "InvToMod"
  BY <1>1, StillData DEF MemoryResponse, l1vars, bankvars, history
<1>2. CASE l2[a] = "InvToMod"
  <2> DEFINE out == Responses(a)
  <2>1. /\ net' = Post(net, out) /\ Wake(replay, L2FreedMshr(a))
            /\ UNCHANGED <<l1vars, history>>
        /\ Line(a, "Modified", sharers[a], dirty[a])
    BY <1>2 DEF MemoryResponse
  <2>2. L2Types /\ NetInv /\ Orderly /\ KeptInv
    BY CohParts DEF IInv, L2Inv
  <2>3. (\A v \in Range(out) : FromL2(v)) /\ Outgoing(out)
    BY <2>2, ResponsesTyped, ResponsesOutgoing
  <2> HIDE DEF out
  <2>4. Flows({}, out)
    <3>1. Everywhere(net, replay, waiting) = InFlight
      BY InFlightIs
    <3> QED
      BY <2>1, <2>2, <2>3, <3>1, WakingFlow DEF NetInv, Orderly
  <2>5. LinesKept
    BY <1>2, <2>1, <2>2 DEF Line, LinesKept, DataInv, L2Types, L2Buffered
  <2>6. sharers' = sharers /\ l1' = l1 /\ unsaved' = unsaved
    BY <2>1, <2>2 DEF Line, L2Types, l1vars, history
  <2> QED
    BY <2>3, <2>4, <2>5, <2>6, HomeData
<1> QED
  BY <1>1, <1>2

LEMMA StepData ==
  ASSUME L2Ample, IInv, Coh, IInv', Coh', DataInv, LoadsOnly, [Next]_vars
  PROVE  DataInv'
<1>1. CASE UNCHANGED vars
  BY <1>1, FailData DEF vars, l1vars, l2vars, bankvars, history
<1> QED
  BY <1>1, ProcData, ProcTSTData, L1ReceiveData, ProcessedData, MemoryData DEF Next

LEMMA InitData ==
  ASSUME Init
  PROVE  DataInv
<1>1. InFlight = {}
  BY DEF Init, InFlight, Range
<1> QED
  BY <1>1 DEF Init, DataInv, L2Buffered

LEMMA DataHeld == IInv /\ DataInv => WrittenDataHeld
<1> SUFFICES ASSUME IInv, DataInv, NEW a \in unsaved
             PROVE  \/ l2[a] # "NotPresent" /\ dirty[a]
                    \/ \E p \in L1s : l1[p][a] = "Modified"
                    \/ \E m \in InFlight : m.addr = a /\
                         \/ m.type \in {"WriteBack", "FwdAckData"}
                         \/ m.type = "DataExclusive" /\ m.src \in L1s
  BY DEF WrittenDataHeld
<1>1. l2[a] # "NotPresent" /\ Valued(a)
  BY DEF DataInv
<1> QED
  BY <1>1 DEF Valued, Carries

LEMMA AlwaysData ==
  ASSUME L2Ample
  PROVE  Spec => [](IInv /\ DataInv /\ NoProtocolError)
<1> DEFINE Inv == IInv /\ Coh /\ LoadsOnly /\ DataInv /\ NoProtocolError
<1>1. Init => Inv
  BY InitIInv, InitCoh, InitData, RequestPairs DEF Init, NoProtocolError, LoadsOnly
<1>2. Inv /\ [Next]_vars => Inv'
  <2> SUFFICES ASSUME Inv, [Next]_vars
               PROVE  Inv'
    OBVIOUS
  <2>1. IInv' /\ Coh'
    BY StepKeeps, StepCoh
  <2>2. LoadsOnly'
    BY <2>1, CohWriter, PTL, StepAbstract
  <2>3. DataInv'
    BY <2>1, StepData
  <2>4. ASSUME NEW b \in Banks, NEW m \in Ready(b)
        PROVE  ~Recoils(m)
    BY ProcessFacts DEF Recoils, DataInv, L2Buffered
  <2>5. failed' = "no"
    BY <2>4, StepCoh DEF NoProtocolError
  <2> QED
    BY <2>1, <2>2, <2>3, <2>5 DEF NoProtocolError
<1>3. Inv => IInv /\ DataInv /\ NoProtocolError
  OBVIOUS
<1> QED
  BY <1>1, <1>2, <1>3, PTL DEF Spec

(* In an L2 that has a way for each of its lines no store is lost: a        *)
(* watched line whose last store is not in main memory is in a dirty L2     *)
(* line, Modified in an L1, or on its way to the L2 or to the next owner,   *)
(* whatever write-backs, forwards and hand-overs cross.                     *)
THEOREM WrittenDataKept == L2Ample => (Spec => []WrittenDataHeld)
<1> SUFFICES ASSUME L2Ample
             PROVE  Spec => []WrittenDataHeld
  OBVIOUS
<1> QED
  BY AlwaysData, DataHeld, PTL

(* Such an L2 takes no line back, so that no write-back finds it in         *)
(* ShToInv: no handler ends in FAIL, with a bandwidth of the links too.     *)
THEOREM AmpleNeverFails == L2Ample => (Spec => []NoProtocolError)
<1> SUFFICES ASSUME L2Ample
             PROVE  Spec => []NoProtocolError
  OBVIOUS
<1> QED
  BY AlwaysData, PTL
=============================================================================
