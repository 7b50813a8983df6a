--------------------------- MODULE CmpInclProofs ----------------------------
(***************************************************************************)
(* Proofs about CmpIncl, for any number of L1s, banks, lines and buffers,   *)
(* with and without a bandwidth of the links. First the invariant IInv:     *)
(* types, where the messages are, the agreement of MSHRs, line states and   *)
(* requests. Then the invariant Coh of CmpInclInv: what a change of a line  *)
(* in the caches and the directory does to LineInv, what sending and        *)
(* receiving does to the order of the messages, and that every handler is   *)
(* such a change. CmpInclPromiseProofs says what follows from the two.      *)
(***************************************************************************)
EXTENDS CmpInclInv, SubseqProofs

(* A message is addressed as the directions of the protocol prescribe, and *)
(* a forward names an L1 to give the data to.                              *)
Proper(m) ==
  /\ m \in Message
  /\ m.type \in ToL2 => m.src \in L1s /\ m.dst = BankOf[m.addr]
  /\ m.type \in ToL1 => m.dst \in L1s
  /\ m.type \in ToL1 \ {"DataShared", "DataExclusive"} => m.src = BankOf[m.addr]
  /\ m.type \in {"ReadFwd", "ReadExFwd"} => m.req \in L1s

(* What the links n may hold, what the lists q of the banks may hold, and   *)
(* what a handler may send.                                                 *)
Traffic(n) ==
  /\ n \in [Links -> Seq(Message)]
  /\ \A c \in Links : \A m \in Range(n[c]) : Proper(m) /\ Link(m) = c
Stalled(q) ==
  /\ q \in [Banks -> Seq(Message)]
  /\ \A b \in Banks : \A m \in Range(q[b]) : Proper(m) /\ m.dst = b
Outgoing(out) ==
  out \in Seq(Message) /\ \A m \in Range(out) : Proper(m)

NetInv == Traffic(net) /\ Stalled(replay) /\ Stalled(waiting)

L1Types ==
  /\ l1 \in [L1s -> [Addrs -> L1State]]
  /\ l1mshr \in [L1s -> SUBSET Addrs]
  /\ proc \in [L1s -> [Requests -> RequestState]]

(* The MSHR of a line in an L1, its state and the requests it holds agree.  *)
L1Match(p, a) ==
  /\ a \in l1mshr[p] <=> l1[p][a] \in L1Transient
  /\ a \in l1mshr[p] <=> \E op \in {"LD", "ST"} : proc[p][<<op, a>>] = "mshr"

L1Inv == L1Types /\ \A p \in L1s, a \in Addrs : L1Match(p, a)

L2Types ==
  /\ l2 \in [Addrs -> L2State]
  /\ sharers \in [Addrs -> SUBSET L1s]
  /\ dirty \in [Addrs -> BOOLEAN]
  /\ l2mshr \in SUBSET Addrs
  /\ l2queue \in [Addrs -> Seq(Queued)]
  /\ memory \in SUBSET Addrs

L2Match(a) ==
  /\ a \in l2mshr <=> l2[a] \in L2Transient
  /\ a \notin l2mshr => l2queue[a] = <<>>

L2Inv == L2Types /\ \A a \in Addrs : L2Match(a)

HistoryInv ==
  /\ unsaved \in SUBSET Addrs
  /\ loaded \in [L1s -> SUBSET Addrs]

IInv == NetInv /\ L1Inv /\ L2Inv /\ HistoryInv

-----------------------------------------------------------------------------
(* Messages.                                                                *)

LEMMA ProperOfMessage ==
  ASSUME NEW m, Proper(m)
  PROVE  /\ m \in Message /\ m.addr \in Addrs /\ m.src \in Nodes /\ m.dst \in Nodes
         /\ m.req \in Nodes /\ m.type \in ToL1 \union ToL2
BY DEF Proper, Message

LEMMA DownProper ==
  ASSUME NEW type \in ToL2, NEW a \in Addrs, NEW p \in L1s
  PROVE  Proper(Down(type, a, p))
BY CmpInclAssumption DEF Proper, Down, Msg, Message, Nodes, ToL1, ToL2

LEMMA UpProper ==
  ASSUME NEW type \in ToL1 \ {"ReadFwd", "ReadExFwd"}, NEW a \in Addrs, NEW p \in L1s
  PROVE  Proper(Up(type, a, p))
BY CmpInclAssumption DEF Proper, Up, Msg, Message, Nodes, ToL1, ToL2

LEMMA DataProper ==
  ASSUME NEW type \in {"DataShared", "DataExclusive"}, NEW a \in Addrs,
         NEW p \in L1s, NEW q \in L1s
  PROVE  Proper(Msg(type, a, p, q))
BY DEF Proper, Msg, Message, Nodes, ToL1, ToL2

LEMMA FwdProper ==
  ASSUME NEW type \in {"ReadFwd", "ReadExFwd"}, NEW a \in Addrs,
         NEW p \in L1s, NEW q \in L1s
  PROVE  Proper(Fwd(type, a, p, q))
BY CmpInclAssumption DEF Proper, Fwd, Message, Nodes, ToL1, ToL2

LEMMA OutgoingNone == Outgoing(<<>>)
BY EmptySeq DEF Outgoing, Range

LEMMA OutgoingOne ==
  ASSUME NEW m, Proper(m)
  PROVE  Outgoing(<< m >>)
<1>1. m \in Message
  BY DEF Proper
<1>2. << m >> \in Seq(Message) /\ \A i \in DOMAIN << m >> : << m >>[i] = m
  BY <1>1
<1> QED
  BY <1>2 DEF Outgoing, Range

LEMMA OutgoingTwo ==
  ASSUME NEW m, NEW n, Proper(m), Proper(n)
  PROVE  Outgoing(<< m, n >>)
<1>1. m \in Message /\ n \in Message
  BY DEF Proper
<1>2. << m, n >> \in Seq(Message)
    /\ \A i \in DOMAIN << m, n >> : << m, n >>[i] \in {m, n}
  BY <1>1
<1> QED
  BY <1>2 DEF Outgoing, Range

LEMMA OutgoingAppend ==
  ASSUME NEW out, NEW m, Outgoing(out), Proper(m)
  PROVE  Outgoing(Append(out, m))
<1>1. m \in Message /\ out \in Seq(Message)
  BY DEF Proper, Outgoing
<1>2. Append(out, m) \in Seq(Message) /\ Range(Append(out, m)) = Range(out) \union {m}
  BY <1>1, AppendRange
<1> QED
  BY <1>2 DEF Outgoing

(* What is sent goes to its link, behind what is there.                     *)
LEMMA PostKeeps ==
  ASSUME NEW n, Traffic(n), NEW out, Outgoing(out)
  PROVE  Traffic(Post(n, out))
<1> DEFINE K(c) == {i \in 1 .. Len(out) : Link(out[i]) = c}
           P(c) == Pick(out, K(c))
<1>1. ASSUME NEW c \in Links
      PROVE  /\ n[c] \o P(c) \in Seq(Message)
             /\ \A m \in Range(n[c] \o P(c)) : Proper(m) /\ Link(m) = c
  <2>1. out \in Seq(Message) /\ K(c) \in SUBSET (1 .. Len(out))
      /\ n[c] \in Seq(Message)
    BY DEF Outgoing, Traffic
  <2>2. P(c) \in Seq(Message) /\ Range(P(c)) = {out[k] : k \in K(c)}
    BY <2>1, PickProperties
  <2> HIDE DEF P
  <2>3. n[c] \o P(c) \in Seq(Message)
      /\ Range(n[c] \o P(c)) = Range(n[c]) \union Range(P(c))
    BY <2>1, <2>2, ConcatRange
  <2>4. \A k \in K(c) : out[k] \in Range(out) /\ Link(out[k]) = c
    BY <2>1 DEF Range
  <2> QED
    BY <2>2, <2>3, <2>4 DEF Outgoing, Traffic
<1>2. Post(n, out) = [c \in Links |-> n[c] \o P(c)]
  BY DEF Post
<1> HIDE DEF P
<1> QED
  BY <1>1, <1>2 DEF Traffic

(* A message next on a link into a node is for that node, and the links     *)
(* without it are still in order.                                           *)
LEMMA ArrivingKeeps ==
  ASSUME Traffic(net), NEW n, NEW m \in Arriving(n)
  PROVE  Proper(m) /\ m.dst = n /\ Traffic(Consume(m))
<1>1. PICK c \in Links : c[2] = n /\ net[c] # <<>> /\ m = Head(net[c])
  BY DEF Arriving
<1>2. net[c] \in Seq(Message)
  BY DEF Traffic
<1>3. /\ Tail(net[c]) \in Seq(Message)
      /\ Range(net[c]) = Range(Tail(net[c])) \union {m}
  BY <1>1, <1>2, TailRange
<1>4. Proper(m) /\ Link(m) = c
  BY <1>3 DEF Traffic
<1>5. m.dst = n
  BY <1>1, <1>4 DEF Link
<1>6. Consume(m) = [net EXCEPT ![c] = Tail(net[c])]
  BY <1>4 DEF Consume
<1>7. Traffic(Consume(m))
  BY <1>3, <1>6 DEF Traffic
<1> QED
  BY <1>4, <1>5, <1>7

LEMMA ReadyKeeps ==
  ASSUME NetInv, NEW b \in Banks, NEW m \in Ready(b)
  PROVE  Proper(m) /\ m.dst = b /\ Traffic(Taken(m)) /\ Stalled(Rest(m))
<1>1. replay[b] \in Seq(Message) /\ Traffic(net) /\ Stalled(replay)
  BY DEF NetInv, Stalled
<1>2. CASE replay[b] = <<>>
  <2>1. m \in Arriving(b)
    BY <1>2 DEF Ready
  <2>2. Proper(m) /\ m.dst = b /\ Traffic(Consume(m))
    BY <1>1, <2>1, ArrivingKeeps
  <2>3. Taken(m) = Consume(m) /\ Rest(m) = replay
    BY <1>1, <1>2, <2>2 DEF Taken, Rest, Stalled
  <2> QED
    BY <1>1, <2>2, <2>3
<1>3. CASE replay[b] # <<>>
  <2>1. m = Head(replay[b])
    BY <1>3 DEF Ready
  <2>2. /\ Tail(replay[b]) \in Seq(Message)
        /\ Range(replay[b]) = Range(Tail(replay[b])) \union {m}
    BY <1>1, <1>3, <2>1, TailRange
  <2>3. Proper(m) /\ m.dst = b
    BY <1>1, <2>2 DEF Stalled
  <2>4. Taken(m) = net /\ Rest(m) = [replay EXCEPT ![b] = Tail(replay[b])]
    BY <1>3, <2>3 DEF Taken, Rest
  <2>5. Stalled(Rest(m))
    BY <1>1, <2>2, <2>4 DEF Stalled
  <2> QED
    BY <1>1, <2>3, <2>4, <2>5
<1> QED
  BY <1>2, <1>3

LEMMA WakeKeeps ==
  ASSUME Stalled(waiting), NEW rp, Stalled(rp), NEW sets, Wake(rp, sets)
  PROVE  Stalled(replay') /\ Stalled(waiting')
<1>1. ASSUME NEW b \in Banks
      PROVE  /\ rp[b] \o Pick(waiting[b], Woken(b, sets)) \in Seq(Message)
             /\ \A m \in Range(rp[b] \o Pick(waiting[b], Woken(b, sets))) :
                  Proper(m) /\ m.dst = b
             /\ Drop(waiting[b], Woken(b, sets)) \in Seq(Message)
             /\ \A m \in Range(Drop(waiting[b], Woken(b, sets))) :
                  Proper(m) /\ m.dst = b
  <2> DEFINE W == waiting[b]
             K == Woken(b, sets)
  <2>1. /\ W \in Seq(Message) /\ rp[b] \in Seq(Message)
        /\ \A m \in Range(W) \union Range(rp[b]) : Proper(m) /\ m.dst = b
    BY DEF Stalled
  <2>2. K \in SUBSET (1 .. Len(W))
    BY DEF Woken
  <2> HIDE DEF W, K
  <2>3. Pick(W, K) \in Seq(Message) /\ Drop(W, K) \in Seq(Message)
    BY <2>1, <2>2, PickProperties, DropProperties
  <2>4. Range(W) = Range(Pick(W, K)) \union Range(Drop(W, K))
    BY <2>1, <2>2, DropProperties
  <2>5. /\ rp[b] \o Pick(W, K) \in Seq(Message)
        /\ Range(rp[b] \o Pick(W, K)) = Range(rp[b]) \union Range(Pick(W, K))
    BY <2>1, <2>3, ConcatRange
  <2> QED
    BY <2>1, <2>3, <2>4, <2>5 DEF W, K
<1> QED
  BY <1>1 DEF Wake, Stalled

-----------------------------------------------------------------------------
(* The ends of a handler: what they leave in order.                         *)

LEMMA ReceivedKeeps ==
  ASSUME NetInv, L2Inv, NEW p \in L1s, NEW m \in Arriving(p),
         NEW out, Outgoing(out), NEW done, NEW woken, Received(p, m, out, done, woken)
  PROVE  NetInv' /\ L2Inv'
<1>1. Traffic(net')
  BY ArrivingKeeps, PostKeeps DEF NetInv, Received
<1>2. Stalled(replay)' /\ Stalled(waiting)'
  BY DEF NetInv, Received, bankvars, Stalled
<1>3. L2Inv'
  BY DEF Received, l2vars, L2Inv, L2Types, L2Match
<1> QED
  BY <1>1, <1>2, <1>3 DEF NetInv, Traffic

LEMMA DoneKeeps ==
  ASSUME NetInv, L1Inv, NEW b \in Banks, NEW m \in Ready(b),
         NEW out, Outgoing(out), NEW woken, Done(m, out, woken)
  PROVE  NetInv' /\ L1Inv'
<1>1. Traffic(Taken(m)) /\ Stalled(Rest(m))
  BY ReadyKeeps
<1>2. Traffic(net')
  BY <1>1, PostKeeps DEF Done
<1>3. Stalled(replay') /\ Stalled(waiting')
  BY <1>1, WakeKeeps DEF Done, NetInv
<1>4. L1Inv'
  BY DEF Done, l1vars, L1Inv, L1Types, L1Match
<1> QED
  BY <1>2, <1>3, <1>4 DEF NetInv, Traffic, Stalled

LEMMA PollKeeps ==
  ASSUME IInv, NEW b \in Banks, NEW m \in Ready(b), Poll(m)
  PROVE  IInv'
<1>1. Proper(m) /\ m.dst = b /\ Traffic(Taken(m)) /\ Stalled(Rest(m))
  BY ReadyKeeps DEF IInv
<1>2. m \in Message /\ Rest(m)[b] \in Seq(Message)
  BY <1>1 DEF Proper, Stalled
<1>3. /\ Append(Rest(m)[b], m) \in Seq(Message)
      /\ Range(Append(Rest(m)[b], m)) = Range(Rest(m)[b]) \union {m}
  BY <1>2, AppendRange
<1>4. replay' = [replay EXCEPT ![b] = Append(Rest(m)[b], m)]
  BY <1>1 DEF Poll
<1>5. Stalled(replay)'
  BY <1>1, <1>3, <1>4 DEF Stalled, IInv, NetInv
<1>6. Traffic(net)' /\ Stalled(waiting)'
  BY <1>1 DEF Poll, Traffic, Stalled, IInv, NetInv
<1>7. L1Inv' /\ L2Inv' /\ HistoryInv'
  BY DEF Poll, IInv, L1Inv, L1Types, L1Match, L2Inv, L2Types, L2Match, HistoryInv,
         l1vars, l2vars, history
<1> QED
  BY <1>5, <1>6, <1>7 DEF IInv, NetInv

LEMMA BlockKeeps ==
  ASSUME IInv, NEW b \in Banks, NEW m \in Ready(b), Block(m)
  PROVE  IInv'
<1>1. Proper(m) /\ m.dst = b /\ Traffic(Taken(m)) /\ Stalled(Rest(m))
  BY ReadyKeeps DEF IInv
<1>2. m \in Message /\ waiting[b] \in Seq(Message)
  BY <1>1 DEF Proper, Stalled, IInv, NetInv
<1>3. /\ Append(waiting[b], m) \in Seq(Message)
      /\ Range(Append(waiting[b], m)) = Range(waiting[b]) \union {m}
  BY <1>2, AppendRange
<1>4. waiting' = [waiting EXCEPT ![b] = Append(waiting[b], m)]
  BY <1>1 DEF Block
<1>5. Stalled(waiting)'
  BY <1>1, <1>3, <1>4 DEF Stalled, IInv, NetInv
<1>6. Traffic(net)' /\ Stalled(replay)'
  BY <1>1 DEF Block, Traffic, Stalled, IInv, NetInv
<1>7. L1Inv' /\ L2Inv' /\ HistoryInv'
  BY DEF Block, IInv, L1Inv, L1Types, L1Match, L2Inv, L2Types, L2Match, HistoryInv,
         l1vars, l2vars, history
<1> QED
  BY <1>5, <1>6, <1>7 DEF IInv, NetInv

LEMMA FailKeeps ==
  ASSUME IInv, NEW where, Fail(where)
  PROVE  IInv'
BY DEF Fail, IInv, NetInv, Traffic, Stalled, L1Inv, L1Types, L1Match, L2Inv, L2Types,
       L2Match, HistoryInv, l1vars, l2vars, bankvars, history

-----------------------------------------------------------------------------
(* The L1s.                                                                 *)

LEMMA RequestPairs ==
  ASSUME NEW a \in Addrs, NEW op \in {"LD", "ST"}
  PROVE  <<op, a>> \in Requests /\ <<op, a>>[2] = a
BY DEF Requests

LEMMA AnswerEffect ==
  ASSUME L1Types, NEW p \in L1s, NEW done, NEW woken, Answer(p, done, woken)
  PROVE  /\ proc' \in [L1s -> [Requests -> RequestState]]
         /\ \A q \in L1s : q # p => proc'[q] = proc[q]
         /\ \A r \in Requests :
              proc'[p][r] = "mshr" <=> proc[p][r] = "mshr" /\ r \notin done
<1> DEFINE f == [r \in Requests |->
                   IF r \in done THEN "idle"
                   ELSE IF proc[p][r] = "wait"
                       /\ L1SetOf[r[2]] \in woken THEN "replay"
                   ELSE proc[p][r]]
<1>1. proc' = [proc EXCEPT ![p] = f]
  BY DEF Answer
<1>2. f \in [Requests -> RequestState]
  BY DEF L1Types, RequestState
<1>3. proc'[p] = f /\ \A q \in L1s : q # p => proc'[q] = proc[q]
  BY <1>1 DEF L1Types
<1>4. \A r \in Requests : f[r] = "mshr" <=> proc[p][r] = "mshr" /\ r \notin done
  OBVIOUS
<1>5. proc' \in [L1s -> [Requests -> RequestState]]
  BY <1>1, <1>2 DEF L1Types
<1> QED
  BY <1>3, <1>4, <1>5

(* A line that stays in transit or stays out of it, while no request of an  *)
(* MSHR is answered.                                                        *)
LEMMA LineKeeps ==
  ASSUME L1Inv, NEW p \in L1s, NEW a \in Addrs, NEW state \in L1State,
         l1' = [l1 EXCEPT ![p][a] = state], UNCHANGED l1mshr,
         state \in L1Transient <=> l1[p][a] \in L1Transient,
         NEW done, \A r \in Requests : r \in done => proc[p][r] # "mshr",
         NEW woken, Answer(p, done, woken)
  PROVE  L1Inv'
<1>1. /\ proc' \in [L1s -> [Requests -> RequestState]]
      /\ \A q \in L1s : q # p => proc'[q] = proc[q]
      /\ \A r \in Requests : proc'[p][r] = "mshr" <=> proc[p][r] = "mshr"
  BY AnswerEffect DEF L1Inv
<1>2. L1Types'
  BY <1>1 DEF L1Inv, L1Types
<1>3. ASSUME NEW q \in L1s, NEW x \in Addrs
      PROVE  L1Match(q, x)'
  <2>1. L1Match(q, x)
    BY DEF L1Inv
  <2>2. l1'[q][x] \in L1Transient <=> l1[q][x] \in L1Transient
    BY DEF L1Inv, L1Types
  <2>3. \A op \in {"LD", "ST"} :
          proc'[q][<<op, x>>] = "mshr" <=> proc[q][<<op, x>>] = "mshr"
    BY <1>1, RequestPairs
  <2> QED
    BY <2>1, <2>2, <2>3 DEF L1Match
<1> QED
  BY <1>2, <1>3 DEF L1Inv

LEMMA RememberKeeps ==
  ASSUME HistoryInv, NEW p \in L1s, NEW done \in SUBSET Requests, NEW gone,
         Remember(p, done, gone)
  PROVE  HistoryInv'
<1> DEFINE LD == {r[2] : r \in {d \in done : d[1] = "LD" /\ d[2] \in Watched}}
           ST == {r[2] : r \in {d \in done : d[1] = "ST" /\ d[2] \in Watched}}
<1>1. LD \subseteq Addrs /\ ST \subseteq Addrs
  BY DEF Requests
<1>2. loaded' = [loaded EXCEPT ![p] = (loaded[p] \union LD) \ gone]
  BY DEF Remember
<1>3. unsaved' = unsaved \union ST
  BY DEF Remember
<1> HIDE DEF LD, ST
<1> QED
  BY <1>1, <1>2, <1>3 DEF HistoryInv

(* A message that is dropped.                                               *)
LEMMA Drop1Keeps ==
  ASSUME IInv, NEW p \in L1s, NEW m \in Arriving(p), Drop1(p, m)
  PROVE  IInv'
<1>1. NetInv' /\ L2Inv'
  BY OutgoingNone, ReceivedKeeps DEF Drop1, IInv
<1>2. Answer(p, {}, {L1SetOf[m.addr]}) /\ UNCHANGED <<l1, l1mshr, history>>
  BY DEF Drop1, Received
<1>3. HistoryInv'
  BY <1>2 DEF HistoryInv, history, IInv
<1>4. /\ proc' \in [L1s -> [Requests -> RequestState]]
      /\ \A q \in L1s : q # p => proc'[q] = proc[q]
      /\ \A r \in Requests : proc'[p][r] = "mshr" <=> proc[p][r] = "mshr"
  BY <1>2, AnswerEffect DEF IInv, L1Inv
<1>5. \A q \in L1s, r \in Requests : proc'[q][r] = "mshr" <=> proc[q][r] = "mshr"
  BY <1>4
<1>6. L1Inv'
  BY <1>2, <1>4, <1>5, RequestPairs DEF L1Inv, L1Types, L1Match, IInv
<1> QED
  BY <1>1, <1>3, <1>6 DEF IInv

(* A message that changes a line in the cache or in a buffer.               *)
LEMMA ReceivedLineKeeps ==
  ASSUME IInv, NEW p \in L1s, NEW m \in Arriving(p), NEW state \in L1State,
         SetLine(p, m.addr, state), UNCHANGED l1mshr,
         state \in L1Transient <=> l1[p][m.addr] \in L1Transient,
         NEW out, Outgoing(out), NEW woken, Received(p, m, out, {}, woken),
         (\E gone : Remember(p, {}, gone)) \/ UNCHANGED history
  PROVE  IInv'
<1>1. NetInv' /\ L2Inv'
  BY ReceivedKeeps DEF IInv
<1>2. HistoryInv'
  BY RememberKeeps DEF IInv, HistoryInv, history
<1>3. m.addr \in Addrs
  BY ArrivingKeeps, ProperOfMessage DEF IInv, NetInv
<1>4. L1Inv'
  BY <1>3, LineKeeps DEF SetLine, Received, IInv
<1> QED
  BY <1>1, <1>2, <1>4 DEF IInv

LEMMA SameLine ==
  ASSUME L1Types, NEW p \in L1s, NEW a \in Addrs, UNCHANGED l1
  PROVE  SetLine(p, a, l1[p][a]) /\ l1[p][a] \in L1State
BY DEF SetLine, L1Types

(* The answer to a miss: the MSHR and its requests go with the transient    *)
(* state.                                                                   *)
LEMMA FillKeeps ==
  ASSUME IInv, NEW p \in L1s, NEW m \in Arriving(p),
         NEW state \in L1State \ L1Transient, Fill(p, m, state)
  PROVE  IInv'
<1> DEFINE a == m.addr
           done == Held(p, a)
<1>1. Received(p, m, <<>>, done, L1FreedMshr(p, a)) /\ Remember(p, done, {})
      /\ l1' = [l1 EXCEPT ![p][a] = state] /\ l1mshr' = [l1mshr EXCEPT ![p] = @ \ {a}]
  BY DEF Fill, SetLine
<1>2. NetInv' /\ L2Inv'
  BY <1>1, OutgoingNone, ReceivedKeeps DEF IInv
<1>3. done \in SUBSET Requests
  BY DEF Held
<1>4. HistoryInv'
  BY <1>1, <1>3, RememberKeeps DEF IInv
<1>5. a \in Addrs
  BY ArrivingKeeps, ProperOfMessage DEF IInv, NetInv
<1>6. \A r \in Requests : r \in done <=> r[2] = a /\ proc[p][r] = "mshr"
  BY DEF Held
<1> HIDE DEF done, a
<1>7. /\ proc' \in [L1s -> [Requests -> RequestState]]
      /\ \A q \in L1s : q # p => proc'[q] = proc[q]
      /\ \A r \in Requests :
           proc'[p][r] = "mshr" <=> proc[p][r] = "mshr" /\ r \notin done
  BY <1>1, AnswerEffect DEF Received, IInv, L1Inv
<1>8. L1Types'
  BY <1>1, <1>5, <1>7 DEF IInv, L1Inv, L1Types
<1>9. ASSUME NEW q \in L1s, NEW x \in Addrs
      PROVE  L1Match(q, x)'
  <2>1. L1Match(q, x)
    BY DEF IInv, L1Inv
  <2>2. CASE q = p /\ x = a
    <3>1. l1'[q][x] = state /\ x \notin l1mshr'[q]
      BY <1>1, <1>5, <2>2 DEF IInv, L1Inv, L1Types
    <3>2. \A op \in {"LD", "ST"} : proc'[q][<<op, x>>] # "mshr"
      BY <1>6, <1>7, <2>2, RequestPairs
    <3> QED
      BY <3>1, <3>2 DEF L1Match
  <2>3. CASE ~(q = p /\ x = a)
    <3>1. l1'[q][x] = l1[q][x] /\ (x \in l1mshr'[q] <=> x \in l1mshr[q])
      BY <1>1, <1>5, <2>3 DEF IInv, L1Inv, L1Types
    <3>2. \A op \in {"LD", "ST"} :
            proc'[q][<<op, x>>] = "mshr" <=> proc[q][<<op, x>>] = "mshr"
      BY ZenonT(40), <1>6, <1>7, <2>3, RequestPairs
    <3> QED
      BY <2>1, <3>1, <3>2 DEF L1Match
  <2> QED
    BY <2>2, <2>3
<1>10. L1Inv'
  BY <1>8, <1>9 DEF L1Inv
<1> QED
  BY <1>2, <1>4, <1>10 DEF IInv

LEMMA ReceiveFacts ==
  ASSUME IInv, NEW p \in L1s, NEW m \in Arriving(p)
  PROVE  Proper(m) /\ m.dst = p /\ m.addr \in Addrs /\ l1[p][m.addr] \in L1State
BY ArrivingKeeps, ProperOfMessage DEF IInv, NetInv, L1Inv, L1Types

LEMMA DataKeeps ==
  ASSUME IInv, NEW p \in L1s, NEW m \in Arriving(p),
         L1DataShared(p, m) \/ L1DataExclusive(p, m) \/ L1UpgradeAck(p, m)
  PROVE  IInv'
<1>1. {"Shared", "Exclusive", "Modified"} \subseteq L1State \ L1Transient
  BY DEF L1State, L1Replaceable, L1Transient
<1>2. \/ \E state \in {"Shared", "Exclusive", "Modified"} : Fill(p, m, state)
      \/ Drop1(p, m)
      \/ \E where : Fail(where)
  BY DEF L1DataShared, L1DataExclusive, L1UpgradeAck
<1> QED
  BY <1>1, <1>2, FillKeeps, Drop1Keeps, FailKeeps

LEMMA ReleaseKeeps ==
  ASSUME IInv, NEW p \in L1s, NEW m \in Arriving(p), Release(p, m),
         l1[p][m.addr] \in L1Buffered
  PROVE  IInv'
<1>1. "NotPresent" \in L1State /\ "NotPresent" \notin L1Transient
      /\ l1[p][m.addr] \notin L1Transient
  BY DEF L1State, L1Transient, L1Buffered
<1>2. /\ SetLine(p, m.addr, "NotPresent") /\ UNCHANGED l1mshr
      /\ Received(p, m, <<>>, {}, L1FreedBuffer(p, m.addr))
      /\ Remember(p, {}, {m.addr})
  BY DEF Release
<1> QED
  BY <1>1, <1>2, OutgoingNone, ReceivedLineKeeps

LEMMA InvalidateKeeps ==
  ASSUME IInv, NEW p \in L1s, NEW m \in Arriving(p), L1Invalidate(p, m)
  PROVE  IInv'
<1> DEFINE a == m.addr
           st == l1[p][a]
           woken == {L1SetOf[a]}
<1>1. a \in Addrs
  BY ReceiveFacts
<1>2. "Invalid" \in L1State /\ "InvToMod" \in L1State
  BY DEF L1State, L1Transient
<1>3. CASE \/ st = "NotPresent" /\ Drop1(p, m)
           \/ st \in L1Buffered /\ Release(p, m)
           \/ st = "Invalid" /\ Fail("L1 Invalidate")
  BY <1>3, Drop1Keeps, ReleaseKeeps, FailKeeps
<1>4. ASSUME NEW type \in {"InvAck", "WriteBack", "WriteBackClean"},
             st \in {"Shared", "Exclusive", "Modified"}, SetLine(p, a, "Invalid"),
             Received(p, m, << Down(type, a, p) >>, {}, woken),
             Remember(p, {}, {a}), UNCHANGED l1mshr
      PROVE  IInv'
  <2>1. Outgoing(<< Down(type, a, p) >>)
    BY <1>1, DownProper, OutgoingOne DEF ToL2
  <2>2. "Invalid" \in L1Transient <=> st \in L1Transient
    BY <1>4 DEF L1Transient
  <2> QED
    BY <1>2, <1>4, <2>1, <2>2, ReceivedLineKeeps
<1>5. CASE /\ st = "ShToMod" /\ SetLine(p, a, "InvToMod")
           /\ Received(p, m, << Down("InvAck", a, p), Down("ReadEx", a, p) >>, {},
               woken)
           /\ UNCHANGED <<l1mshr, history>>
  <2>1. Outgoing(<< Down("InvAck", a, p), Down("ReadEx", a, p) >>)
    BY <1>1, DownProper, OutgoingTwo DEF ToL2
  <2>2. "InvToMod" \in L1Transient <=> st \in L1Transient
    BY <1>5 DEF L1Transient
  <2> QED
    BY <1>2, <1>5, <2>1, <2>2, ReceivedLineKeeps
<1> QED
  BY <1>3, <1>4, <1>5 DEF L1Invalidate

LEMMA ForwardKeeps ==
  ASSUME IInv, NEW p \in L1s, NEW m \in Arriving(p), L1ReadFwd(p, m)
           \/ L1ReadExFwd(p, m)
  PROVE  IInv'
<1> DEFINE a == m.addr
           st == l1[p][a]
           woken == {L1SetOf[a]}
<1>1. a \in Addrs /\ st \in L1State /\ L1Types
  BY ReceiveFacts DEF IInv, L1Inv
<1>2. m.req \in L1s
  BY ReceiveFacts DEF L1ReadFwd, L1ReadExFwd, Proper
<1>3. ASSUME NEW new \in L1State, new \in L1Transient <=> st \in L1Transient,
             SetLine(p, a, new), UNCHANGED <<l1mshr, history>>,
             NEW out, Outgoing(out), Received(p, m, out, {}, woken)
      PROVE  IInv'
  BY <1>3, ReceivedLineKeeps
<1>4. ASSUME UNCHANGED <<l1, l1mshr, history>>,
             NEW out, Outgoing(out), Received(p, m, out, {}, woken)
      PROVE  IInv'
  BY <1>1, <1>3, <1>4, SameLine
<1>5. /\ Outgoing(<< Msg("DataShared", a, p, m.req) >>)
      /\ Outgoing(<< Msg("DataExclusive", a, p, m.req) >>)
      /\ Outgoing(<< Msg("DataShared", a, p, m.req), Down("FwdAckData", a, p) >>)
  <2>1. Proper(Down("FwdAckData", a, p))
    BY <1>1, DownProper DEF ToL2
  <2>2. Proper(Msg("DataShared", a, p, m.req))
      /\ Proper(Msg("DataExclusive", a, p, m.req))
    BY <1>1, <1>2, DataProper
  <2> QED
    BY <2>1, <2>2, OutgoingOne, OutgoingTwo
<1>6. CASE L1ReadFwd(p, m)
  <2>1. CASE /\ st \in {"Shared", "ShToMod", "ShToInv"}
             /\ Received(p, m, << Msg("DataShared", a, p, m.req) >>, {}, woken)
             /\ UNCHANGED <<l1, l1mshr, history>>
    BY <1>4, <1>5, <2>1
  <2>2. CASE /\ st \in {"Exclusive", "Modified", "ModToInv"}
             /\ SetLine(p, a, IF st = "ModToInv" THEN st ELSE "Shared")
             /\ Received(p, m, << Msg("DataShared", a, p, m.req),
                                  Down("FwdAckData", a, p) >>, {}, woken)
             /\ UNCHANGED <<l1mshr, history>>
    <3> DEFINE new == IF st = "ModToInv" THEN st ELSE "Shared"
    <3>1. new \in L1State /\ (new \in L1Transient <=> st \in L1Transient)
      BY <2>2 DEF L1State, L1Transient, L1Replaceable, L1Buffered
    <3> HIDE DEF new
    <3> QED
      BY <1>3, <1>5, <2>2, <3>1 DEF new
  <2>3. CASE Fail("L1 ReadFwd")
    BY <2>3, FailKeeps
  <2> QED
    BY <1>6, <2>1, <2>2, <2>3 DEF L1ReadFwd
<1>7. CASE L1ReadExFwd(p, m)
  <2>1. CASE /\ st \in {"Exclusive", "Modified", "ModToInv"}
             /\ SetLine(p, a, IF st = "ModToInv" THEN st ELSE "Invalid")
             /\ Received(p, m, << Msg("DataExclusive", a, p, m.req) >>, {}, woken)
             /\ UNCHANGED <<l1mshr, history>>
    <3> DEFINE new == IF st = "ModToInv" THEN st ELSE "Invalid"
    <3>1. new \in L1State /\ (new \in L1Transient <=> st \in L1Transient)
      BY <2>1 DEF L1State, L1Transient, L1Replaceable, L1Buffered
    <3> HIDE DEF new
    <3> QED
      BY <1>3, <1>5, <2>1, <3>1 DEF new
  <2>2. CASE Fail("L1 ReadExFwd")
    BY <2>2, FailKeeps
  <2> QED
    BY <1>7, <2>1, <2>2 DEF L1ReadExFwd
<1> QED
  BY <1>6, <1>7

LEMMA AckKeeps ==
  ASSUME IInv, NEW p \in L1s, NEW m \in Arriving(p),
         L1WriteBackAck(p, m) \/ L1ReplaceAck(p, m)
  PROVE  IInv'
<1>1. \/ l1[p][m.addr] \in L1Buffered /\ Release(p, m)
      \/ Drop1(p, m)
      \/ \E where : Fail(where)
  BY DEF L1WriteBackAck, L1ReplaceAck, L1Buffered
<1> QED
  BY <1>1, ReleaseKeeps, Drop1Keeps, FailKeeps

LEMMA TSTRespKeeps ==
  ASSUME IInv, NEW p \in L1s, NEW m \in Arriving(p), L1TSTResp(p, m)
  PROVE  IInv'
<1>1. PICK r \in Requests : /\ proc[p][r] = "tst"
                            /\ Received(p, m, <<>>, {r}, {L1SetOf[m.addr]})
  BY DEF L1TSTResp
<1>2. UNCHANGED <<l1, l1mshr, history>>
  BY DEF L1TSTResp
<1>3. NetInv' /\ L2Inv'
  BY <1>1, OutgoingNone, ReceivedKeeps DEF IInv
<1>4. HistoryInv'
  BY <1>2 DEF IInv, HistoryInv, history
<1>5. /\ m.addr \in Addrs /\ L1Types
      /\ SetLine(p, m.addr, l1[p][m.addr]) /\ l1[p][m.addr] \in L1State
  BY <1>2, ReceiveFacts, SameLine DEF IInv, L1Inv
<1>6. L1Inv'
  BY <1>1, <1>2, <1>5, LineKeeps DEF SetLine, Received, IInv
<1> QED
  BY <1>3, <1>4, <1>6 DEF IInv

LEMMA L1ReceiveKeeps ==
  ASSUME IInv, NEW p \in L1s, NEW m \in Arriving(p), L1Receive(p, m)
  PROVE  IInv'
BY DataKeeps, InvalidateKeeps, ForwardKeeps, AckKeeps, TSTRespKeeps DEF L1Receive

(* The processors' requests.                                                *)
LEMMA RequestOf ==
  ASSUME NEW r \in Requests
  PROVE  /\ r[2] \in Addrs /\ r[1] \in {"LD", "ST"} /\ r = <<r[1], r[2]>>
         /\ \A op, a : r = <<op, a>> <=> r[1] = op /\ r[2] = a
BY DEF Requests

LEMMA ServedIdle ==
  ASSUME NEW p, NEW r, Served(p, r)
  PROVE  proc[p][r] # "mshr"
BY DEF Served

LEMMA StallKeeps ==
  ASSUME IInv, NEW p \in L1s, NEW r \in Requests, NEW where \in {"replay", "wait"},
         proc[p][r] # "mshr", Stall(p, r, where)
  PROVE  IInv'
<1>1. proc' = [proc EXCEPT ![p][r] = where] /\ UNCHANGED <<l1, l1mshr>>
  BY DEF Stall
<1>2. where \in RequestState /\ where # "mshr"
  BY DEF RequestState
<1>3. L1Types'
  BY <1>1, <1>2 DEF IInv, L1Inv, L1Types
<1>4. \A q \in L1s, x \in Requests : proc'[q][x] = "mshr" <=> proc[q][x] = "mshr"
  BY <1>1, <1>2 DEF IInv, L1Inv, L1Types
<1>5. L1Inv'
  BY <1>1, <1>3, <1>4, RequestPairs DEF IInv, L1Inv, L1Match
<1>6. NetInv' /\ L2Inv' /\ HistoryInv'
  BY DEF Stall, IInv, NetInv, Traffic, Stalled, L2Inv, L2Types, L2Match, HistoryInv,
         l2vars, bankvars, history
<1> QED
  BY <1>5, <1>6 DEF IInv

LEMMA MergeKeeps ==
  ASSUME IInv, NEW p \in L1s, NEW r \in Requests, l1[p][r[2]] \in L1Transient,
         Merge(p, r)
  PROVE  IInv'
<1>1. proc' = [proc EXCEPT ![p][r] = "mshr"] /\ UNCHANGED <<l1, l1mshr>>
  BY DEF Merge
<1>2. r[2] \in Addrs /\ r[2] \in l1mshr[p]
  BY RequestOf DEF IInv, L1Inv, L1Match
<1>3. L1Types'
  BY <1>1 DEF IInv, L1Inv, L1Types, RequestState
<1>4. /\ \A q \in L1s, x \in Requests : proc[q][x] = "mshr" => proc'[q][x] = "mshr"
      /\ \A q \in L1s, x \in Requests :
           proc'[q][x] = "mshr" => proc[q][x] = "mshr" \/ (q = p /\ x = r)
  BY <1>1 DEF IInv, L1Inv, L1Types
<1>5. ASSUME NEW q \in L1s, NEW a \in Addrs
      PROVE  L1Match(q, a)'
  <2>1. L1Match(q, a)
    BY DEF IInv, L1Inv
  <2>2. (\E op \in {"LD", "ST"} : proc[q][<<op, a>>] = "mshr")
          => (\E op \in {"LD", "ST"} : proc'[q][<<op, a>>] = "mshr")
    BY <1>4, RequestPairs
  <2>3. ASSUME NEW op \in {"LD", "ST"}, proc'[q][<<op, a>>] = "mshr"
        PROVE  a \in l1mshr[q]
    <3>1. proc[q][<<op, a>>] = "mshr" \/ (q = p /\ <<op, a>> = r)
      BY ZenonT(40), <1>4, <2>3, RequestPairs
    <3> QED
      BY <1>2, <2>1, <3>1, RequestPairs DEF L1Match
  <2> QED
    BY <1>1, <2>1, <2>2, <2>3 DEF L1Match
<1>6. NetInv' /\ L2Inv' /\ HistoryInv'
  BY DEF Merge, IInv, NetInv, Traffic, Stalled, L2Inv, L2Types, L2Match, HistoryInv,
         l2vars, bankvars, history
<1> QED
  BY <1>3, <1>5, <1>6 DEF IInv, L1Inv

LEMMA HitKeeps ==
  ASSUME IInv, NEW p \in L1s, NEW r \in Requests, proc[p][r] # "mshr",
         NEW state \in L1State, state \in L1Transient <=> l1[p][r[2]] \in L1Transient,
         Hit(p, r, state)
  PROVE  IInv'
<1>1. r[2] \in Addrs
  BY RequestOf
<1>2. L1Inv'
  BY <1>1, LineKeeps DEF Hit, SetLine, IInv
<1>3. HistoryInv'
  BY RememberKeeps DEF Hit, IInv
<1>4. NetInv' /\ L2Inv'
  BY DEF Hit, IInv, NetInv, Traffic, Stalled, L2Inv, L2Types, L2Match, l2vars,
      bankvars
<1> QED
  BY <1>2, <1>3, <1>4 DEF IInv

(* The lines after an eviction: what was in transit still is, and so is     *)
(* nothing else.                                                            *)
LEMMA VictimLeaves ==
  ASSUME L1Types, NEW p \in L1s, NEW v,
         v = Unused \/ (v \in Addrs /\ l1[p][v] \in L1Replaceable \union {"Invalid"})
  PROVE  /\ L1Evict(p, v) \in [Addrs -> L1State]
         /\ \A a \in Addrs : L1Evict(p,
             v)[a] \in L1Transient <=> l1[p][a] \in L1Transient
         /\ \A a \in Addrs : a # v => L1Evict(p, v)[a] = l1[p][a]
<1> DEFINE lines == L1Evict(p, v)
<1>1. lines \in [Addrs -> L1State]
  BY DEF L1Evict, L1Types, L1State, L1Buffered
<1>2. \A a \in Addrs : a # v => lines[a] = l1[p][a]
  BY DEF L1Evict
<1>3. ASSUME v \in Addrs, v # Unused
      PROVE  lines[v] \notin L1Transient /\ l1[p][v] \notin L1Transient
  BY <1>3 DEF L1Evict, L1Transient, L1Replaceable
<1>4. v = Unused => v \notin Addrs
  BY CmpInclAssumption
<1> HIDE DEF lines
<1>5. \A a \in Addrs : lines[a] \in L1Transient <=> l1[p][a] \in L1Transient
  BY <1>2, <1>3, <1>4
<1> QED
  BY <1>1, <1>2, <1>5 DEF lines

LEMMA EvictMessage ==
  ASSUME L1Types, NEW p \in L1s, NEW v, v = Unused \/ v \in Addrs
  PROVE  Outgoing(L1EvictMsg(p, v))
<1>1. CASE v = Unused \/ l1[p][v] = "Invalid"
  BY <1>1, OutgoingNone DEF L1EvictMsg
<1>2. CASE v \in Addrs /\ v # Unused /\ l1[p][v] # "Invalid"
  <2> DEFINE type == CASE l1[p][v] = "Shared" -> "Replace"
                       [] l1[p][v] = "Exclusive" -> "WriteBackClean"
                       [] OTHER -> "WriteBack"
  <2>1. type \in ToL2
    BY DEF ToL2
  <2>2. L1EvictMsg(p, v) = << Down(type, v, p) >>
    BY <1>2 DEF L1EvictMsg
  <2> HIDE DEF type
  <2> QED
    BY <1>2, <2>1, <2>2, DownProper, OutgoingOne
<1> QED
  BY <1>1, <1>2

LEMMA AskKeeps ==
  ASSUME IInv, NEW p \in L1s, NEW r \in Requests,
         NEW type \in {"Read", "ReadEx", "Upgrade"}, NEW state \in L1Transient,
         NEW lines \in [Addrs -> L1State],
         \A a \in Addrs : lines[a] \in L1Transient <=> l1[p][a] \in L1Transient,
         NEW first, Outgoing(first), Ask(p, r, type, state, lines, first)
  PROVE  IInv'
<1>1. r[2] \in Addrs /\ state \in L1State
  BY RequestOf DEF L1State
<1>2. /\ l1' = [l1 EXCEPT ![p] = [lines EXCEPT ![r[2]] = state]]
      /\ l1mshr' = [l1mshr EXCEPT ![p] = @ \union {r[2]}]
      /\ proc' = [proc EXCEPT ![p][r] = "mshr"]
      /\ net' = Post(net, Append(first, Down(type, r[2], p)))
      /\ UNCHANGED <<l2vars, bankvars, history>>
  BY DEF Ask
<1>3. Outgoing(Append(first, Down(type, r[2], p)))
  BY <1>1, DownProper, OutgoingAppend DEF ToL2
<1>4. NetInv'
  BY SMTT(30), <1>2, <1>3, PostKeeps DEF IInv, NetInv, Traffic, Stalled, bankvars
<1>5. L2Inv' /\ HistoryInv'
  BY <1>2 DEF IInv, L2Inv, L2Types, L2Match, HistoryInv, l2vars, history
<1>6. L1Types'
  <2>1. [lines EXCEPT ![r[2]] = state] \in [Addrs -> L1State]
    BY <1>1
  <2> QED
    BY <1>1, <1>2, <2>1 DEF IInv, L1Inv, L1Types, RequestState
<1>7. ASSUME NEW q \in L1s, NEW a \in Addrs
      PROVE  L1Match(q, a)'
  <2>1. L1Match(q, a)
    BY DEF IInv, L1Inv
  <2>2. CASE q = p /\ a = r[2]
    <3>1. l1'[q][a] = state /\ a \in l1mshr'[q]
      BY <1>1, <1>2, <2>2 DEF IInv, L1Inv, L1Types
    <3>2. r = <<r[1], a>> /\ r[1] \in {"LD", "ST"}
      BY <2>2, RequestOf
    <3>3. proc'[q][r] = "mshr"
      BY <1>2, <2>2 DEF IInv, L1Inv, L1Types
    <3>4. \E op \in {"LD", "ST"} : proc'[q][<<op, a>>] = "mshr"
      BY <3>2, <3>3
    <3> QED
      BY <3>1, <3>4 DEF L1Match
  <2>3. CASE ~(q = p /\ a = r[2])
    <3>1. /\ l1'[q][a] \in L1Transient <=> l1[q][a] \in L1Transient
          /\ a \in l1mshr'[q] <=> a \in l1mshr[q]
      BY <1>1, <1>2, <2>3 DEF IInv, L1Inv, L1Types
    <3>2. \A op \in {"LD", "ST"} : proc'[q][<<op, a>>] = proc[q][<<op, a>>]
      BY <1>2, <2>3, RequestOf, RequestPairs DEF IInv, L1Inv, L1Types
    <3> QED
      BY <2>1, <3>1, <3>2 DEF L1Match
  <2> QED
    BY <2>2, <2>3
<1> QED
  BY <1>4, <1>5, <1>6, <1>7 DEF IInv, L1Inv

LEMMA MissKeeps ==
  ASSUME IInv, NEW p \in L1s, NEW r \in Requests, proc[p][r] # "mshr",
         NEW type \in {"Read", "ReadEx"}, NEW state \in L1Transient,
             Miss(p, r, type, state)
  PROVE  IInv'
<1> DEFINE absent == l1[p][r[2]] = "NotPresent"
           victims == IF absent THEN L1Victims(p, L1SetOf[r[2]]) ELSE {Unused}
<1>1. CASE \E where \in {"replay", "wait"} : Stall(p, r, where)
  BY <1>1, StallKeeps
<1>2. ASSUME NEW v \in victims,
             Ask(p, r, type, state, L1Evict(p, v), L1EvictMsg(p, v))
      PROVE  IInv'
  <2>1. v = Unused \/ (v \in Addrs /\ l1[p][v] \in L1Replaceable \union {"Invalid"})
    BY DEF L1Victims, L1Ways
  <2>2. L1Types
    BY DEF IInv, L1Inv
  <2>3. /\ L1Evict(p, v) \in [Addrs -> L1State]
        /\ \A a \in Addrs : L1Evict(p,
            v)[a] \in L1Transient <=> l1[p][a] \in L1Transient
    BY <2>1, <2>2, VictimLeaves
  <2>4. Outgoing(L1EvictMsg(p, v))
    BY <2>1, <2>2, EvictMessage
  <2> QED
    BY <1>2, <2>3, <2>4, AskKeeps
<1> HIDE DEF victims
<1>3. \/ \E where \in {"replay", "wait"} : Stall(p, r, where)
      \/ \E v \in victims : Ask(p, r, type, state, L1Evict(p, v), L1EvictMsg(p, v))
  BY DEF Miss, victims
<1> QED
  BY <1>1, <1>2, <1>3

LEMMA LoadKeeps ==
  ASSUME IInv, NEW p \in L1s, NEW a \in Addrs, ProcLD(p, a)
  PROVE  IInv'
<1> DEFINE r == <<"LD", a>>
           st == l1[p][a]
<1>1. r \in Requests /\ r[2] = a
  BY RequestPairs
<1>2. proc[p][r] # "mshr"
  BY ServedIdle DEF ProcLD
<1>3. st \in L1State
  BY DEF IInv, L1Inv, L1Types
<1> HIDE DEF r
<1>4. CASE Miss(p, r, "Read", "InvToShEx")
  BY <1>1, <1>2, <1>4, MissKeeps DEF L1Transient
<1>5. CASE \E where \in {"replay", "wait"} : Stall(p, r, where)
  BY <1>1, <1>2, <1>5, StallKeeps
<1>6. CASE st \in {"InvToMod", "InvToShEx"} /\ Merge(p, r)
  BY <1>1, <1>6, MergeKeeps DEF L1Transient
<1>7. CASE Hit(p, r, st)
  BY <1>1, <1>2, <1>3, <1>7, HitKeeps
<1> QED
  BY <1>4, <1>5, <1>6, <1>7 DEF ProcLD, r

LEMMA StoreKeeps ==
  ASSUME IInv, NEW p \in L1s, NEW a \in Addrs, ProcST(p, a)
  PROVE  IInv'
<1> DEFINE r == <<"ST", a>>
           st == l1[p][a]
<1>1. r \in Requests /\ r[2] = a
  BY RequestPairs
<1>2. proc[p][r] # "mshr"
  BY ServedIdle DEF ProcST
<1> HIDE DEF r
<1>3. CASE Miss(p, r, "ReadEx", "InvToMod")
  BY <1>1, <1>2, <1>3, MissKeeps DEF L1Transient
<1>4. CASE \E where \in {"replay", "wait"} : Stall(p, r, where)
  BY <1>1, <1>2, <1>4, StallKeeps
<1>5. CASE st \in {"InvToMod", "ShToMod"} /\ Merge(p, r)
  BY <1>1, <1>5, MergeKeeps DEF L1Transient
<1>6. CASE Ask(p, r, "Upgrade", "ShToMod", l1[p], <<>>)
  <2>1. l1[p] \in [Addrs -> L1State] /\ "ShToMod" \in L1Transient
    BY DEF IInv, L1Inv, L1Types, L1Transient
  <2> QED
    BY <1>1, <1>6, <2>1, OutgoingNone, AskKeeps
<1>7. CASE st \in {"Exclusive", "Modified"} /\ Hit(p, r, "Modified")
  <2>1. "Modified" \in L1State /\ ("Modified" \in L1Transient <=> st \in L1Transient)
    BY <1>7 DEF L1State, L1Replaceable, L1Transient
  <2> QED
    BY <1>1, <1>2, <1>7, <2>1, HitKeeps
<1> QED
  BY <1>3, <1>4, <1>5, <1>6, <1>7 DEF ProcST, r

LEMMA ThreadStateAccessKeeps ==
  ASSUME IInv, NEW p \in L1s, NEW r \in Requests, ProcTST(p, r)
  PROVE  IInv'
<1> DEFINE type == IF r[1] = "LD" THEN "Read" ELSE "ReadEx"
<1>1. proc[p][r] # "mshr"
  BY ServedIdle DEF ProcTST
<1>2. /\ proc' = [proc EXCEPT ![p][r] = "tst"]
      /\ net' = Post(net, << Down(type, r[2], p) >>)
      /\ UNCHANGED <<l1, l1mshr, l2vars, bankvars, history>>
  BY DEF ProcTST
<1>3. type \in ToL2 /\ r[2] \in Addrs
  BY RequestOf DEF ToL2
<1> HIDE DEF type
<1>4. Outgoing(<< Down(type, r[2], p) >>)
  BY <1>3, DownProper, OutgoingOne
<1>5. NetInv'
  BY <1>2, <1>4, PostKeeps DEF IInv, NetInv, Traffic, Stalled, bankvars
<1>6. L2Inv' /\ HistoryInv'
  BY <1>2 DEF IInv, L2Inv, L2Types, L2Match, HistoryInv, l2vars, history
<1>7. L1Types'
  BY <1>2 DEF IInv, L1Inv, L1Types, RequestState
<1>8. \A q \in L1s, x \in Requests : proc'[q][x] = "mshr" <=> proc[q][x] = "mshr"
  BY <1>1, <1>2 DEF IInv, L1Inv, L1Types
<1>9. L1Inv'
  BY <1>2, <1>7, <1>8, RequestPairs DEF IInv, L1Inv, L1Match
<1> QED
  BY <1>5, <1>6, <1>9 DEF IInv

-----------------------------------------------------------------------------
(* The L2.                                                                  *)

LEMMA ProcessFacts ==
  ASSUME IInv, NEW b \in Banks, NEW m \in Ready(b)
  PROVE  /\ Proper(m) /\ m \in Message /\ m.dst = b /\ m.addr \in Addrs
         /\ m.type \in ToL2 /\ m.src \in L1s /\ BankOf[m.addr] = b
         /\ l2[m.addr] \in L2State /\ sharers[m.addr] \in SUBSET L1s
         /\ dirty[m.addr] \in BOOLEAN /\ l2queue[m.addr] \in Seq(Queued)
<1>1. Proper(m) /\ m.dst = b
  BY ReadyKeeps DEF IInv
<1>2. m \in Message /\ m.addr \in Addrs /\ m.type \in ToL1 \union ToL2
  BY <1>1, ProperOfMessage
<1>3. m.type \in ToL2
  BY <1>1, <1>2, CmpInclAssumption DEF Proper
<1> QED
  BY <1>1, <1>2, <1>3 DEF Proper, IInv, L2Inv, L2Types

LEMMA RequestQueued ==
  ASSUME NEW m, m.type \in {"Read", "ReadEx", "Upgrade"}, m.src \in L1s
  PROVE  Request(m) \in Queued /\ << Request(m) >> \in Seq(Queued)
BY DEF Request, Queued

(* The line, and the MSHR as the handler leaves it.                         *)
LEMMA LineChanges ==
  ASSUME L2Inv, NEW a \in Addrs, NEW state \in L2State, NEW sh \in SUBSET L1s,
         NEW d \in BOOLEAN, Line(a, state, sh, d), memory' \in SUBSET Addrs,
         \/ NoMshr /\ (state \in L2Transient <=> l2[a] \in L2Transient)
         \/ state \in L2Transient /\ \E queue \in Seq(Queued) : AllocateMshr(a, queue)
         \/ state \notin L2Transient /\ FreeMshr(a)
  PROVE  L2Inv'
<1>1. /\ l2' = [l2 EXCEPT ![a] = state] /\ sharers' = [sharers EXCEPT ![a] = sh]
      /\ dirty' = [dirty EXCEPT ![a] = d]
  BY DEF Line
<1>2. /\ l2' \in [Addrs -> L2State] /\ sharers' \in [Addrs -> SUBSET L1s]
      /\ dirty' \in [Addrs -> BOOLEAN]
  BY <1>1 DEF L2Inv, L2Types
<1>3. CASE NoMshr /\ (state \in L2Transient <=> l2[a] \in L2Transient)
  BY <1>1, <1>2, <1>3 DEF NoMshr, L2Inv, L2Types, L2Match
<1>4. ASSUME NEW queue \in Seq(Queued), state \in L2Transient, AllocateMshr(a, queue)
      PROVE  L2Inv'
  BY <1>1, <1>2, <1>4 DEF AllocateMshr, L2Inv, L2Types, L2Match
<1>5. CASE state \notin L2Transient /\ FreeMshr(a)
  <2>1. <<>> \in Seq(Queued)
    OBVIOUS
  <2> QED
    BY <1>1, <1>2, <1>5, <2>1 DEF FreeMshr, L2Inv, L2Types, L2Match
<1> QED
  BY <1>3, <1>4, <1>5

(* A line with sharers has a first one.                                     *)
LEMMA FirstSharerShares ==
  ASSUME NEW a \in Addrs, sharers[a] \in SUBSET L1s, sharers[a] # {}
  PROVE  FirstSharer(a) \in sharers[a]
<1> DEFINE S == sharers[a]
<1>1. IsFiniteSet(S) /\ S \subseteq Int
  <2>1. IsFiniteSet(L1s) /\ L1s \subseteq Int
    BY CmpInclAssumption, FS_Interval DEF L1s
  <2> QED
    BY <2>1, FS_Subset
<1> HIDE DEF S
<1>2. Cardinality(S) \in Nat /\ Cardinality(S) # 0
  <2>1. Cardinality(S) \in Nat
    BY <1>1, FS_CardinalityType
  <2>2. S # {}
    BY DEF S
  <2> QED
    BY <1>1, <2>1, <2>2, FS_EmptySet
<1>3. PICK k \in S : Rank(S, k) = 1
  <2>1. 1 \in 1 .. Cardinality(S)
    BY <1>2
  <2> QED
    BY <1>1, <2>1, RankOnto
<1>4. ASSUME NEW q \in S, q < k
      PROVE  FALSE
  <2>1. Rank(S, q) < Rank(S, k)
    BY <1>1, <1>4, RankMonotonic
  <2>2. Rank(S, q) \in 1 .. Cardinality(S)
    BY <1>1, RankBound
  <2> QED
    BY <1>2, <1>3, <2>1, <2>2
<1>5. \A q \in S : k <= q
  BY <1>1, <1>4
<1>6. \E x \in S : \A q \in S : x <= q
  BY <1>5
<1> QED
  BY <1>6 DEF FirstSharer, S

LEMMA MulticastOutgoing ==
  ASSUME NEW type \in ToL1 \ {"ReadFwd", "ReadExFwd"}, NEW a \in Addrs, NEW S
  PROVE  Outgoing(Multicast(type, a, S))
<1> DEFINE s == [i \in 1 .. NumL1s |-> Up(type, a, i - 1)]
           K == {i \in 1 .. NumL1s : i - 1 \in S}
<1>1. ASSUME NEW i \in 1 .. NumL1s
      PROVE  Proper(Up(type, a, i - 1)) /\ Up(type, a, i - 1) \in Message
  <2>1. i - 1 \in L1s
    BY CmpInclAssumption DEF L1s
  <2>2. Proper(Up(type, a, i - 1))
    BY <2>1, UpProper
  <2> QED
    BY <2>2 DEF Proper
<1>2. s \in Seq(Message) /\ Len(s) = NumL1s /\ \A i \in 1 .. NumL1s : Proper(s[i])
  <2>1. s \in [1 .. NumL1s -> Message] /\ \A i \in 1 .. NumL1s : Proper(s[i])
    BY <1>1
  <2>2. NumL1s \in Nat
    BY CmpInclAssumption
  <2> QED
    BY <2>1, <2>2
<1>3. K \in SUBSET (1 .. Len(s))
  BY <1>2
<1> HIDE DEF s, K
<1>4. Pick(s, K) \in Seq(Message) /\ Range(Pick(s, K)) = {s[k] : k \in K}
  BY <1>2, <1>3, PickProperties
<1>5. \A m \in Range(Pick(s, K)) : Proper(m)
  BY <1>2, <1>3, <1>4
<1> QED
  BY <1>4, <1>5 DEF Outgoing, Multicast, s, K

LEMMA ResponsesOutgoing ==
  ASSUME L2Types, NEW a \in Addrs
  PROVE  Outgoing(Responses(a))
<1> DEFINE queue == l2queue[a]
<1>1. queue \in Seq(Queued) /\ Len(queue) \in Nat
  BY DEF L2Types
<1>2. ASSUME NEW i \in 1 .. Len(queue)
      PROVE  Proper(Response(a, queue[i])) /\ Response(a, queue[i]) \in Message
  <2> DEFINE type == CASE queue[i].type = "Upgrade"
      /\ l2[a] = "ShToMod" -> "UpgradeAck"
                       [] queue[i].type = "Read" /\ l2[a] = "ModToSh" -> "DataShared"
                       [] OTHER -> "DataExclusive"
  <2>1. queue[i] \in Queued
    BY <1>1
  <2>2. queue[i].req \in L1s
    BY <2>1 DEF Queued
  <2>3. type \in ToL1 \ {"ReadFwd", "ReadExFwd"}
    BY DEF ToL1
  <2>4. Response(a, queue[i]) = Up(type, a, queue[i].req)
    BY DEF Response
  <2> HIDE DEF type, queue
  <2>5. Proper(Response(a, queue[i]))
    BY <2>2, <2>3, <2>4, UpProper
  <2> QED
    BY <2>5 DEF Proper
<1> HIDE DEF queue
<1> DEFINE out == [i \in 1 .. Len(queue) |-> Response(a, queue[i])]
<1>3. out \in [1 .. Len(queue) -> Message]
    /\ \A i \in 1 .. Len(queue) : Proper(out[i])
  BY <1>2
<1>4. out \in Seq(Message) /\ Len(out) = Len(queue)
  BY <1>1, <1>3
<1>5. Outgoing(out)
  BY <1>3 DEF Outgoing, Range, out
<1> QED
  BY <1>5 DEF Responses, queue

(* The end of a request that the L2 completes, whatever it does to the      *)
(* line.                                                                    *)
LEMMA DoneLineKeeps ==
  ASSUME IInv, NEW b \in Banks, NEW m \in Ready(b), NEW out, Outgoing(out), NEW woken,
         Done(m, out, woken), unsaved' \in SUBSET unsaved, memory' \in SUBSET Addrs,
         NEW state \in L2State, NEW sh \in SUBSET L1s, NEW d \in BOOLEAN,
         Line(m.addr, state, sh, d),
         \/ NoMshr /\ (state \in L2Transient <=> l2[m.addr] \in L2Transient)
         \/ /\ state \in L2Transient
            /\ \E queue \in Seq(Queued) : AllocateMshr(m.addr, queue)
         \/ state \notin L2Transient /\ FreeMshr(m.addr)
  PROVE  IInv'
<1>1. NetInv' /\ L1Inv'
  BY DoneKeeps DEF IInv
<1>2. L2Inv'
  <2>1. m.addr \in Addrs
    BY ProcessFacts
  <2> QED
    BY <2>1, LineChanges DEF IInv
<1>3. HistoryInv'
  BY DEF Done, IInv, HistoryInv
<1> QED
  BY <1>1, <1>2, <1>3 DEF IInv

LEMMA ReplyKeeps ==
  ASSUME IInv, NEW b \in Banks, NEW m \in Ready(b), NEW out, Outgoing(out),
         NEW state \in L2State, state \in L2Transient <=> l2[m.addr] \in L2Transient,
         NEW sh \in SUBSET L1s, Reply(m, out, state, sh)
  PROVE  IInv'
<1>1. memory' \in SUBSET Addrs /\ unsaved' \in SUBSET unsaved
  BY DEF Reply, NoMshr, IInv, L2Inv, L2Types
<1>2. dirty[m.addr] \in BOOLEAN
  BY ProcessFacts
<1> QED
  BY <1>1, <1>2, DoneLineKeeps DEF Reply

LEMMA CollectKeeps ==
  ASSUME IInv, NEW b \in Banks, NEW m \in Ready(b),
         m.type \in {"ReadEx", "Upgrade"}, NEW sh \in SUBSET L1s, Collect(m, sh)
  PROVE  IInv'
<1> DEFINE out == Multicast("Invalidate", m.addr, sharers[m.addr] \ {m.src})
<1>1. CASE L2MshrsFull
  BY <1>1, PollKeeps DEF Collect
<1>2. CASE ~L2MshrsFull
  <2>1. /\ Line(m.addr, "ShToMod", sh, dirty[m.addr])
        /\ AllocateMshr(m.addr, << Request(m) >>)
        /\ Done(m, out, {L2SetOf[m.addr]}) /\ UNCHANGED <<memory, unsaved>>
    BY <1>2 DEF Collect
  <2>2. m.addr \in Addrs /\ m.src \in L1s /\ dirty[m.addr] \in BOOLEAN
    BY ProcessFacts
  <2>3. << Request(m) >> \in Seq(Queued)
    BY <2>2, RequestQueued
  <2>4. Outgoing(out)
    BY <2>2, MulticastOutgoing DEF ToL1
  <2>5. "ShToMod" \in L2State /\ "ShToMod" \in L2Transient
    BY DEF L2State, L2Transient
  <2>6. memory' \in SUBSET Addrs /\ unsaved' \in SUBSET unsaved
    BY <2>1 DEF IInv, L2Inv, L2Types
  <2> HIDE DEF out
  <2> QED
    BY <2>1, <2>2, <2>3, <2>4, <2>5, <2>6, DoneLineKeeps
<1> QED
  BY <1>1, <1>2

(* A new line takes an MSHR and a way; the line that gives way leaves no    *)
(* MSHR behind, for it was not in transit.                                  *)
LEMMA InsertKeeps ==
  ASSUME IInv, NEW b \in Banks, NEW m \in Ready(b),
         m.type \in {"Read", "ReadEx", "Upgrade"}, l2[m.addr] = "NotPresent",
         NEW v \in L2Victims(L2SetOf[m.addr]), NEW sh \in SUBSET L1s, Insert(m, v, sh)
  PROVE  IInv'
<1> DEFINE a == m.addr
           out == IF v = Unused THEN <<>> ELSE Multicast("Invalidate", v, sharers[v])
<1>1. a \in Addrs /\ m.src \in L1s
  BY ProcessFacts
<1>2. v = Unused \/ (v \in Addrs /\ v # a /\ l2[v] \in L2Replaceable)
  BY DEF L2Victims, L2Ways, L2Replaceable
<1>3. v = Unused => v \notin Addrs
  BY CmpInclAssumption
<1>4. Outgoing(out)
  BY <1>2, OutgoingNone, MulticastOutgoing DEF ToL1
<1>5. /\ l2' = [x \in Addrs |-> CASE x = a -> "InvToMod"
                                  [] x = v -> L2Evicted(v)
                                  [] OTHER -> l2[x]]
      /\ sharers' = [sharers EXCEPT ![a] = sh]
      /\ dirty' = [x \in Addrs |->
                     dirty[x] /\ x # a /\ ~(x = v /\ sharers[x] = {})]
      /\ unsaved' = unsaved \ SavedByEviction(v)
      /\ AllocateMshr(a, << Request(m) >>)
      /\ memory' = memory \union {a}
      /\ Done(m, out, {L2SetOf[a]})
  BY DEF Insert
<1> HIDE DEF out, a
<1>6. NetInv' /\ L1Inv'
  BY <1>4, <1>5, DoneKeeps DEF IInv
<1>7. HistoryInv'
  BY <1>5 DEF Done, IInv, HistoryInv
<1>8. L2Evicted(v) \in L2State /\ L2Evicted(v) \notin L2Transient
  BY DEF L2Evicted, L2State, L2Transient, L2Buffered
<1>9. << Request(m) >> \in Seq(Queued)
  BY <1>1, RequestQueued
<1>10. "InvToMod" \in L2State /\ "InvToMod" \in L2Transient
  BY DEF L2State, L2Transient
<1>11. L2Types'
  <2>1. l2' \in [Addrs -> L2State]
    BY <1>5, <1>8, <1>10 DEF IInv, L2Inv, L2Types
  <2>2. sharers' \in [Addrs -> SUBSET L1s] /\ dirty' \in [Addrs -> BOOLEAN]
    BY <1>5 DEF IInv, L2Inv, L2Types
  <2>3. /\ l2mshr' \in SUBSET Addrs /\ l2queue' \in [Addrs -> Seq(Queued)]
        /\ memory' \in SUBSET Addrs
    BY <1>1, <1>5, <1>9 DEF AllocateMshr, IInv, L2Inv, L2Types
  <2> QED
    BY <2>1, <2>2, <2>3 DEF L2Types
<1>12. ASSUME NEW x \in Addrs
       PROVE  L2Match(x)'
  <2>1. L2Match(x)
    BY DEF IInv, L2Inv
  <2>2. CASE x = a
    <3>1. l2'[x] = "InvToMod"
      BY <1>2, <1>3, <1>5, <2>2
    <3>2. x \in l2mshr'
      BY <1>5, <2>2 DEF AllocateMshr
    <3> QED
      BY <1>10, <3>1, <3>2 DEF L2Match
  <2>3. CASE x # a
    <3>1. l2'[x] \in L2Transient <=> l2[x] \in L2Transient
      <4>1. CASE x = v
        BY <1>2, <1>3, <1>5, <1>8, <2>3, <4>1 DEF L2Transient, L2Replaceable
      <4>2. CASE x # v
        BY <1>5, <2>3, <4>2
      <4> QED
        BY <4>1, <4>2
    <3>2. (x \in l2mshr' <=> x \in l2mshr) /\ l2queue'[x] = l2queue[x]
      BY <1>5, <2>3 DEF AllocateMshr, IInv, L2Inv, L2Types
    <3> QED
      BY <2>1, <3>1, <3>2 DEF L2Match
  <2> QED
    BY <2>2, <2>3
<1> QED
  BY <1>6, <1>7, <1>11, <1>12 DEF IInv, L2Inv

LEMMA L2MissKeeps ==
  ASSUME IInv, NEW b \in Banks, NEW m \in Ready(b),
         m.type \in {"Read", "ReadEx", "Upgrade"}, l2[m.addr] = "NotPresent",
         NEW sh \in SUBSET L1s, L2Miss(m, sh)
  PROVE  IInv'
<1>1. \/ Poll(m) \/ Block(m)
      \/ \E v \in L2Victims(L2SetOf[m.addr]) : Insert(m, v, sh)
  BY DEF L2Miss
<1> QED
  BY <1>1, PollKeeps, BlockKeeps, InsertKeeps

LEMMA L2ReadKeeps ==
  ASSUME IInv, NEW b \in Banks, NEW m \in Ready(b), L2Read(m)
  PROVE  IInv'
<1> DEFINE a == m.addr
           p == m.src
           st == l2[a]
<1>1. /\ a \in Addrs /\ p \in L1s /\ dirty[a] \in BOOLEAN
          /\ l2queue[a] \in Seq(Queued)
      /\ sharers[a] \in SUBSET L1s /\ sharers[a] \union {p} \in SUBSET L1s
  BY ProcessFacts
<1>2. m.type = "Read"
  BY DEF L2Read
<1>3. sharers[a] # {} => FirstSharer(a) \in L1s
  BY <1>1, FirstSharerShares
<1>4. sharers[a] # {} => Outgoing(<< Fwd("ReadFwd", a, FirstSharer(a), p) >>)
  BY <1>1, <1>3, FwdProper, OutgoingOne
<1>5. Outgoing(<< Up("DataShared", a, p) >>)
  BY <1>1, UpProper, OutgoingOne DEF ToL1
<1>6. CASE st = "NotPresent" /\ L2Miss(m, {p})
  BY <1>1, <1>2, <1>6, L2MissKeeps
<1>7. CASE /\ st = "Shared"
           /\ Reply(m, IF L2ReadFwd /\ sharers[a] # {}
                       THEN << Fwd("ReadFwd", a, FirstSharer(a), p) >>
                       ELSE << Up("DataShared", a, p) >>,
                    "Shared", sharers[a] \union {p})
  <2> DEFINE out == IF L2ReadFwd /\ sharers[a] # {}
                    THEN << Fwd("ReadFwd", a, FirstSharer(a), p) >>
                    ELSE << Up("DataShared", a, p) >>
  <2>1. Outgoing(out)
    BY <1>4, <1>5
  <2>2. "Shared" \in L2State /\ ("Shared" \in L2Transient <=> st \in L2Transient)
    BY <1>7 DEF L2State, L2Replaceable
  <2> HIDE DEF out
  <2> QED
    BY <1>1, <1>7, <2>1, <2>2, ReplyKeeps DEF out
<1>8. CASE Poll(m) \/ Block(m) \/ Fail("L2 Read")
  BY <1>8, PollKeeps, BlockKeeps, FailKeeps
<1>9. ASSUME NEW out, Outgoing(out), NEW queue \in Seq(Queued),
             Line(a, "ModToSh", sharers[a] \union {p}, dirty[a]),
                 AllocateMshr(a, queue),
             Done(m, out, {L2SetOf[a]}), UNCHANGED <<memory, unsaved>>
      PROVE  IInv'
  <2>1. "ModToSh" \in L2State /\ "ModToSh" \in L2Transient
    BY DEF L2State, L2Transient
  <2>2. memory' \in SUBSET Addrs /\ unsaved' \in SUBSET unsaved
    BY <1>9 DEF IInv, L2Inv, L2Types
  <2> QED
    BY <1>1, <1>9, <2>1, <2>2, DoneLineKeeps
<1>10. CASE /\ sharers[a] # {}
            /\ Line(a, "ModToSh", sharers[a] \union {p}, dirty[a])
            /\ AllocateMshr(a, <<>>)
            /\ Done(m, << Fwd("ReadFwd", a, FirstSharer(a), p) >>, {L2SetOf[a]})
            /\ UNCHANGED <<memory, unsaved>>
  <2>1. <<>> \in Seq(Queued)
    OBVIOUS
  <2> QED
    BY <1>4, <1>9, <1>10, <2>1
<1>11. CASE /\ st = "ModToSh"
            /\ Line(a, st, sharers[a] \union {p}, dirty[a])
            /\ AllocateMshr(a, Append(l2queue[a], Request(m)))
            /\ Done(m, <<>>, {L2SetOf[a]})
            /\ UNCHANGED <<memory, unsaved>>
  <2>1. Append(l2queue[a], Request(m)) \in Seq(Queued)
    BY <1>1, <1>2, RequestQueued
  <2> QED
    BY <1>9, <1>11, <2>1, OutgoingNone
<1> QED
  BY <1>6, <1>7, <1>8, <1>10, <1>11 DEF L2Read

LEMMA HandOverKeeps ==
  ASSUME IInv, NEW b \in Banks, NEW m \in Ready(b), l2[m.addr] = "Modified",
           HandOver(m)
  PROVE  IInv'
<1> DEFINE a == m.addr
           out == << Fwd("ReadExFwd", a, FirstSharer(a), m.src) >>
           sh == (sharers[a] \ {FirstSharer(a)}) \union {m.src}
<1>1. CASE sharers[a] = {}
  BY <1>1, FailKeeps DEF HandOver
<1>2. CASE sharers[a] # {}
  <2>1. a \in Addrs /\ m.src \in L1s /\ sharers[a] \in SUBSET L1s
    BY ProcessFacts
  <2>2. FirstSharer(a) \in L1s
    BY <1>2, <2>1, FirstSharerShares
  <2>3. Outgoing(out)
    BY <2>1, <2>2, FwdProper, OutgoingOne
  <2>4. sh \in SUBSET L1s
    BY <2>1
  <2>5. "Modified" \in L2State
    BY DEF L2State, L2Replaceable
  <2>6. Reply(m, out, "Modified", sh)
    BY <1>2 DEF HandOver
  <2> HIDE DEF out, sh
  <2> QED
    BY <2>3, <2>4, <2>5, <2>6, ReplyKeeps
<1> QED
  BY <1>1, <1>2

LEMMA L2ReadExKeeps ==
  ASSUME IInv, NEW b \in Banks, NEW m \in Ready(b), L2ReadEx(m)
  PROVE  IInv'
<1> DEFINE a == m.addr
           p == m.src
           st == l2[a]
<1>1. /\ a \in Addrs /\ p \in L1s /\ sharers[a] \union {p} \in SUBSET L1s
      /\ {p} \in SUBSET L1s /\ m.type = "ReadEx"
  BY ProcessFacts DEF L2ReadEx
<1>2. CASE st = "NotPresent" /\ L2Miss(m, {p})
  BY <1>1, <1>2, L2MissKeeps
<1>3. CASE st = "Shared" /\ Reply(m, << Up("DataExclusive", a, p) >>, "Modified", {p})
  <2>1. Outgoing(<< Up("DataExclusive", a, p) >>)
    BY <1>1, UpProper, OutgoingOne DEF ToL1
  <2>2. "Modified" \in L2State /\ ("Modified" \in L2Transient <=> st \in L2Transient)
    BY <1>3 DEF L2State, L2Replaceable, L2Transient
  <2> QED
    BY <1>1, <1>3, <2>1, <2>2, ReplyKeeps
<1>4. CASE Collect(m, sharers[a] \union {p})
  BY <1>1, <1>4, CollectKeeps
<1>5. CASE st = "Modified" /\ HandOver(m)
  BY <1>5, HandOverKeeps
<1>6. CASE Block(m)
  BY <1>6, BlockKeeps
<1> QED
  BY <1>2, <1>3, <1>4, <1>5, <1>6 DEF L2ReadEx

LEMMA L2UpgradeKeeps ==
  ASSUME IInv, NEW b \in Banks, NEW m \in Ready(b), L2Upgrade(m)
  PROVE  IInv'
<1> DEFINE a == m.addr
           p == m.src
           st == l2[a]
<1>1. /\ a \in Addrs /\ p \in L1s /\ sharers[a] \in SUBSET L1s
      /\ {p} \in SUBSET L1s /\ m.type = "Upgrade" /\ st \in L2State
  BY ZenonT(40), ProcessFacts DEF L2Upgrade
<1>2. CASE st = "NotPresent" /\ L2Miss(m, {p})
  BY <1>1, <1>2, L2MissKeeps
<1>3. CASE st = "Shared" /\ Reply(m, << Up("UpgradeAck", a, p) >>, "Modified", {p})
  <2>1. Outgoing(<< Up("UpgradeAck", a, p) >>)
    BY <1>1, UpProper, OutgoingOne DEF ToL1
  <2>2. "Modified" \in L2State /\ ("Modified" \in L2Transient <=> st \in L2Transient)
    BY <1>3 DEF L2State, L2Replaceable, L2Transient
  <2> QED
    BY <1>1, <1>3, <2>1, <2>2, ReplyKeeps
<1>4. CASE Collect(m, sharers[a])
  BY <1>1, <1>4, CollectKeeps
<1>5. CASE Reply(m, <<>>, st, sharers[a])
  BY <1>1, <1>5, OutgoingNone, ReplyKeeps
<1>6. CASE st = "Modified" /\ HandOver(m)
  BY <1>6, HandOverKeeps
<1>7. CASE Block(m) \/ Fail("L2 Upgrade")
  BY <1>7, BlockKeeps, FailKeeps
<1> QED
  BY <1>2, <1>3, <1>4, <1>5, <1>6, <1>7 DEF L2Upgrade

LEMMA L2TSTKeeps ==
  ASSUME IInv, NEW b \in Banks, NEW m \in Ready(b), L2TST(m)
  PROVE  IInv'
<1> DEFINE a == m.addr
           st == l2[a]
<1>1. /\ a \in Addrs /\ m.src \in L1s /\ sharers[a] \in SUBSET L1s /\ st \in L2State
      /\ m.type \in {"Read", "ReadEx"}
  BY ProcessFacts DEF L2TST
<1>2. CASE st = "NotPresent" /\ L2Miss(m, {})
  BY <1>1, <1>2, L2MissKeeps
<1>3. CASE Reply(m, << Up("DataExclusive", a, m.src) >>, st, sharers[a])
  <2>1. Outgoing(<< Up("DataExclusive", a, m.src) >>)
    BY <1>1, UpProper, OutgoingOne DEF ToL1
  <2> QED
    BY <1>1, <1>3, <2>1, ReplyKeeps
<1>4. CASE Block(m) \/ Fail("L2 TST")
  BY <1>4, BlockKeeps, FailKeeps
<1> QED
  BY <1>2, <1>3, <1>4 DEF L2TST

(* An L1 has given its copy up: the last one frees the buffer, or gives the *)
(* line to the one that waits for it.                                       *)
LEMMA SharerGoneKeeps ==
  ASSUME IInv, NEW b \in Banks, NEW m \in Ready(b), SharerGone(m)
  PROVE  IInv'
<1> DEFINE a == m.addr
           left == sharers[a] \ {m.src}
<1>1. a \in Addrs /\ left \in SUBSET L1s /\ dirty[a] \in BOOLEAN /\ L2Types
  BY ProcessFacts DEF IInv, L2Inv
<1>2. /\ {"NotPresent", "ShToInv", "ShToMod", "Modified"} \subseteq L2State
      /\ "ShToMod" \in L2Transient
      /\ {"NotPresent", "ShToInv", "Modified"} \intersect L2Transient = {}
  BY DEF L2State, L2Transient, L2Buffered, L2Replaceable
<1> HIDE DEF left
<1>3. ASSUME NEW out, Outgoing(out), NEW woken, NEW d \in BOOLEAN,
               NEW sh \in SUBSET L1s,
             NEW state \in {"NotPresent", "ShToInv"},
             l2[a] = "ShToInv", Line(a, state, sh, d), Done(m, out, woken), NoMshr,
             UNCHANGED unsaved
      PROVE  IInv'
  <2>1. memory' \in SUBSET Addrs /\ unsaved' \in SUBSET unsaved
    BY <1>1, <1>3 DEF NoMshr, L2Types
  <2> QED
    BY <1>2, <1>3, <2>1, DoneLineKeeps
<1>4. CASE /\ l2[a] = "ShToInv"
           /\ IF left = {} THEN Line(a, "NotPresent", {}, FALSE)
                            ELSE Line(a, "ShToInv", left, dirty[a])
           /\ Done(m, <<>>, IF left = {} THEN L2FreedBuffer(a) ELSE {L2SetOf[a]})
           /\ NoMshr /\ UNCHANGED unsaved
  <2>1. CASE left = {}
    <3>1. Line(a, "NotPresent", {}, FALSE) /\ Done(m, <<>>, L2FreedBuffer(a))
      BY <1>4, <2>1
    <3> QED
      BY <1>3, <1>4, <3>1, OutgoingNone
  <2>2. CASE left # {}
    <3>1. Line(a, "ShToInv", left, dirty[a]) /\ Done(m, <<>>, {L2SetOf[a]})
      BY <1>4, <2>2
    <3> QED
      BY <1>1, <1>3, <1>4, <3>1, OutgoingNone
  <2> QED
    BY <2>1, <2>2
<1>5. CASE l2[a] = "ShToMod" /\ Reply(m, <<>>, "ShToMod", left)
  BY <1>1, <1>2, <1>5, OutgoingNone, ReplyKeeps
<1>6. CASE /\ Line(a, "Modified", left, dirty[a]) /\ FreeMshr(a)
           /\ Done(m, Responses(a), L2FreedMshr(a)) /\ UNCHANGED <<memory, unsaved>>
  <2>1. memory' \in SUBSET Addrs /\ unsaved' \in SUBSET unsaved
    BY <1>1, <1>6 DEF L2Types
  <2> QED
    BY <1>1, <1>2, <1>6, <2>1, ResponsesOutgoing, DoneLineKeeps
<1>7. CASE Fail("L2 is_only_one_sharer")
  BY <1>7, FailKeeps
<1> QED
  BY <1>4, <1>5, <1>6, <1>7 DEF SharerGone, left

LEMMA L2ReplaceKeeps ==
  ASSUME IInv, NEW b \in Banks, NEW m \in Ready(b), L2Replace(m)
  PROVE  IInv'
<1> DEFINE a == m.addr
           st == l2[a]
<1>1. CASE Reply(m, << Up("ReplaceAck", a, m.src) >>, st, sharers[a] \ {m.src})
  <2>1. a \in Addrs /\ m.src \in L1s /\ sharers[a] \ {m.src} \in SUBSET L1s
        /\ st \in L2State
    BY ProcessFacts
  <2>2. Outgoing(<< Up("ReplaceAck", a, m.src) >>)
    BY <2>1, UpProper, OutgoingOne DEF ToL1
  <2> QED
    BY <1>1, <2>1, <2>2, ReplyKeeps
<1>2. CASE SharerGone(m) \/ Fail("L2 Replace")
  BY <1>2, SharerGoneKeeps, FailKeeps
<1> QED
  BY <1>1, <1>2 DEF L2Replace

(* The line leaves its write-back buffer for main memory.                   *)
LEMMA GoneKeeps ==
  ASSUME IInv, NEW b \in Banks, NEW m \in Ready(b), l2[m.addr] = "ModToInv",
         Line(m.addr, "NotPresent", {}, FALSE), unsaved' \in SUBSET unsaved,
         NEW woken, Done(m, <<>>, woken), NoMshr
  PROVE  IInv'
<1>1. "NotPresent" \in L2State
    /\ ("NotPresent" \in L2Transient <=> l2[m.addr] \in L2Transient)
  BY DEF L2State, L2Transient
<1>2. memory' \in SUBSET Addrs
  BY DEF NoMshr, IInv, L2Inv, L2Types
<1> QED
  BY <1>1, <1>2, OutgoingNone, DoneLineKeeps

LEMMA L2InvAckKeeps ==
  ASSUME IInv, NEW b \in Banks, NEW m \in Ready(b), L2InvAck(m)
  PROVE  IInv'
<1> DEFINE a == m.addr
<1>1. CASE SharerGone(m) \/ \E where : Fail(where)
  BY <1>1, SharerGoneKeeps, FailKeeps
<1>2. CASE /\ l2[a] = "ModToInv" /\ Line(a, "NotPresent", {}, FALSE)
           /\ unsaved' = IF dirty[a] THEN unsaved \ {a} ELSE unsaved
           /\ Done(m, <<>>, L2FreedBuffer(a)) /\ NoMshr
  <2>1. unsaved' \in SUBSET unsaved
    BY <1>2
  <2> QED
    BY <1>2, <2>1, GoneKeeps
<1> QED
  BY <1>1, <1>2 DEF L2InvAck

LEMMA L2WriteBackKeeps ==
  ASSUME IInv, NEW b \in Banks, NEW m \in Ready(b), L2WriteBack(m)
  PROVE  IInv'
<1> DEFINE a == m.addr
           p == m.src
           st == l2[a]
           left == sharers[a] \ {p}
           d == dirty[a] \/ m.type = "WriteBack"
           ack == << Up("WriteBackAck", a, p) >>
<1>1. /\ a \in Addrs /\ p \in L1s /\ st \in L2State /\ left \in SUBSET L1s
      /\ sharers[a] \in SUBSET L1s /\ d \in BOOLEAN
  BY ProcessFacts
<1>2. Outgoing(ack)
  BY <1>1, UpProper, OutgoingOne DEF ToL1
<1>3. CASE Reply(m, ack, st, sharers[a])
  BY <1>1, <1>2, <1>3, ReplyKeeps
<1>4. CASE \E where : Fail(where)
  BY <1>4, FailKeeps
<1>5. CASE /\ st \in {"Modified", "ModToSh"}
           /\ Line(a, IF st = "Modified" /\ left = {} THEN "Shared" ELSE st, left, d)
           /\ Done(m, ack, {L2SetOf[a]})
           /\ NoMshr /\ UNCHANGED unsaved
  <2> DEFINE new == IF st = "Modified" /\ left = {} THEN "Shared" ELSE st
  <2>1. new \in L2State /\ (new \in L2Transient <=> st \in L2Transient)
    BY <1>1 DEF L2State, L2Transient, L2Replaceable
  <2>2. memory' \in SUBSET Addrs /\ unsaved' \in SUBSET unsaved
    BY <1>5 DEF NoMshr, IInv, L2Inv, L2Types
  <2>3. Line(a, new, left, d) /\ Done(m, ack, {L2SetOf[a]}) /\ NoMshr
    BY <1>5
  <2> HIDE DEF new, left, d, ack
  <2> QED
    BY <1>1, <1>2, <2>1, <2>2, <2>3, DoneLineKeeps
<1>6. CASE /\ st = "ModToInv" /\ Line(a, "NotPresent", {}, FALSE)
           /\ unsaved' = IF d THEN unsaved \ {a} ELSE unsaved
           /\ Done(m, <<>>, L2FreedBuffer(a)) /\ NoMshr
  <2>1. unsaved' \in SUBSET unsaved
    BY <1>6
  <2> QED
    BY <1>6, <2>1, GoneKeeps
<1> QED
  BY <1>3, <1>4, <1>5, <1>6 DEF L2WriteBack

LEMMA L2FwdAckDataKeeps ==
  ASSUME IInv, NEW b \in Banks, NEW m \in Ready(b), L2FwdAckData(m)
  PROVE  IInv'
<1> DEFINE a == m.addr
<1>1. CASE l2[a] = "ModToSh"
  <2>1. /\ Line(a, "Shared", sharers[a], TRUE) /\ FreeMshr(a)
        /\ Done(m, Responses(a), L2FreedMshr(a)) /\ UNCHANGED <<memory, unsaved>>
    BY <1>1 DEF L2FwdAckData
  <2>2. a \in Addrs /\ sharers[a] \in SUBSET L1s /\ L2Types
    BY ProcessFacts DEF IInv, L2Inv
  <2>3. "Shared" \in L2State /\ "Shared" \notin L2Transient /\ TRUE \in BOOLEAN
    BY DEF L2State, L2Transient, L2Replaceable
  <2>4. memory' \in SUBSET Addrs /\ unsaved' \in SUBSET unsaved
    BY <2>1, <2>2 DEF L2Types
  <2> QED
    BY <2>1, <2>2, <2>3, <2>4, ResponsesOutgoing, DoneLineKeeps
<1>2. CASE l2[a] # "ModToSh"
  BY <1>2, FailKeeps DEF L2FwdAckData
<1> QED
  BY <1>1, <1>2

LEMMA L2ProcessKeeps ==
  ASSUME IInv, NEW b \in Banks, NEW m \in Ready(b), L2Process(m)
  PROVE  IInv'
BY L2ReadKeeps, L2ReadExKeeps, L2UpgradeKeeps, L2TSTKeeps, L2ReplaceKeeps,
   L2InvAckKeeps, L2WriteBackKeeps, L2FwdAckDataKeeps DEF L2Process

(* Main memory's answer frees the MSHR of a line on its way in.             *)
LEMMA MemoryResponseKeeps ==
  ASSUME IInv, NEW a \in Addrs, MemoryResponse(a)
  PROVE  IInv'
<1>1. memory' \in SUBSET Addrs /\ L2Inv /\ L2Types
  BY DEF MemoryResponse, IInv, L2Inv, L2Types
<1>2. CASE l2[a] = "InvToMod"
  <2>1. /\ Line(a, "Modified", sharers[a], dirty[a]) /\ FreeMshr(a)
        /\ net' = Post(net, Responses(a)) /\ Wake(replay, L2FreedMshr(a))
        /\ UNCHANGED <<l1vars, history>>
    BY <1>2 DEF MemoryResponse
  <2>2. sharers[a] \in SUBSET L1s /\ dirty[a] \in BOOLEAN
    BY <1>1 DEF L2Types
  <2>3. "Modified" \in L2State /\ "Modified" \notin L2Transient
    BY DEF L2State, L2Transient, L2Replaceable
  <2>4. L2Inv'
    BY <1>1, <2>1, <2>2, <2>3, LineChanges
  <2>5. Traffic(net')
    BY <1>1, <2>1, ResponsesOutgoing, PostKeeps DEF IInv, NetInv
  <2>6. Stalled(replay') /\ Stalled(waiting')
    BY <2>1, WakeKeeps DEF IInv, NetInv
  <2>7. L1Inv' /\ HistoryInv'
    BY <2>1 DEF IInv, L1Inv, L1Types, L1Match, HistoryInv, l1vars, history
  <2> QED
    BY <2>4, <2>5, <2>6, <2>7 DEF IInv, NetInv, Traffic, Stalled
<1>3. CASE l2[a] # "InvToMod"
  <2>1. UNCHANGED <<l1vars, l2, sharers, dirty, l2mshr, l2queue, bankvars, net,
      history>>
    BY <1>3 DEF MemoryResponse
  <2> QED
    BY <1>1, <2>1 DEF IInv, NetInv, Traffic, Stalled, L1Inv, L1Types, L1Match, L2Inv,
       L2Types, L2Match, HistoryInv, l1vars, bankvars, history
<1> QED
  BY <1>2, <1>3

-----------------------------------------------------------------------------
LEMMA InitIInv == Init => IInv
<1> SUFFICES ASSUME Init PROVE IInv
  OBVIOUS
<1>1. <<>> \in Seq(Message) /\ <<>> \in Seq(Queued) /\ Range(<<>>) = {}
  BY EmptySeq DEF Range
<1>2. NetInv
  BY <1>1 DEF Init, NetInv, Traffic, Stalled
<1>3. L1Inv
  <2>1. "NotPresent" \in L1State /\ "NotPresent" \notin L1Transient
        /\ "idle" \in RequestState
    BY DEF L1State, L1Transient, RequestState
  <2>2. L1Types
    BY <2>1 DEF Init, L1Types
  <2>3. \A p \in L1s, a \in Addrs : L1Match(p, a)
    BY <2>1, RequestPairs DEF Init, L1Match
  <2> QED
    BY <2>2, <2>3 DEF L1Inv
<1>4. L2Inv
  <2>1. "NotPresent" \in L2State /\ "NotPresent" \notin L2Transient
    BY DEF L2State, L2Transient
  <2> QED
    BY <1>1, <2>1 DEF Init, L2Inv, L2Types, L2Match
<1>5. HistoryInv
  BY DEF Init, HistoryInv
<1> QED
  BY <1>2, <1>3, <1>4, <1>5 DEF IInv

LEMMA StepKeeps == IInv /\ [Next]_vars => IInv'
<1> SUFFICES ASSUME IInv, [Next]_vars PROVE IInv'
  OBVIOUS
<1>1. ASSUME NEW p \in L1s, NEW a \in Addrs, ProcLD(p, a) \/ ProcST(p, a)
      PROVE  IInv'
  BY <1>1, LoadKeeps, StoreKeeps
<1>2. ASSUME NEW p \in L1s, NEW r \in Requests, ProcTST(p, r)
      PROVE  IInv'
  BY <1>2, ThreadStateAccessKeeps
<1>3. ASSUME NEW p \in L1s, NEW m \in Arriving(p), L1Receive(p, m)
      PROVE  IInv'
  BY <1>3, L1ReceiveKeeps
<1>4. ASSUME NEW b \in Banks, NEW m \in Ready(b), L2Process(m)
      PROVE  IInv'
  BY <1>4, L2ProcessKeeps
<1>5. ASSUME NEW a \in Addrs, MemoryResponse(a)
      PROVE  IInv'
  BY <1>5, MemoryResponseKeeps
<1>6. CASE UNCHANGED vars
  BY <1>6 DEF vars, l1vars, l2vars, bankvars, history, IInv, NetInv, Traffic, Stalled,
     L1Inv, L1Types, L1Match, L2Inv, L2Types, L2Match, HistoryInv
<1> QED
  BY <1>1, <1>2, <1>3, <1>4, <1>5, <1>6 DEF Next

LEMMA AlwaysIInv == Spec => []IInv
BY InitIInv, StepKeeps, PTL DEF Spec

(* Every variable of the protocol keeps its type.                           *)
THEOREM TypeCorrect == Spec => []TypeOK
<1>1. IInv => TypeOK
  BY DEF IInv, NetInv, Traffic, Stalled, L1Inv, L1Types, L2Inv, L2Types, HistoryInv,
      TypeOK
<1> QED
  BY <1>1, AlwaysIInv, PTL

(* An MSHR is allocated exactly for the lines in transit, in the L1s and in *)
(* the L2, and holds requests exactly then: whatever a handler does to a    *)
(* line it does to its MSHR.                                                *)
THEOREM MshrsMatch == Spec => []MshrMatches
<1>1. ASSUME IInv, NEW p \in L1s
      PROVE  /\ l1mshr[p] = {a \in Addrs : l1[p][a] \in L1Transient}
             /\ l1mshr[p] = {a \in Addrs : Held(p, a) # {}}
  <2>1. l1mshr[p] \subseteq Addrs
    BY <1>1 DEF IInv, L1Inv, L1Types
  <2>2. ASSUME NEW a \in Addrs
        PROVE  /\ a \in l1mshr[p] <=> l1[p][a] \in L1Transient
               /\ a \in l1mshr[p] <=> Held(p, a) # {}
    <3>1. L1Match(p, a)
      BY <1>1 DEF IInv, L1Inv
    <3>2. Held(p, a) # {} <=> \E op \in {"LD", "ST"} : proc[p][<<op, a>>] = "mshr"
      BY RequestOf, RequestPairs DEF Held
    <3> QED
      BY <3>1, <3>2 DEF L1Match
  <2> QED
    BY <2>1, <2>2
<1>2. ASSUME IInv
      PROVE  /\ l2mshr = {a \in Addrs : l2[a] \in L2Transient}
             /\ \A a \in Addrs \ l2mshr : l2queue[a] = <<>>
  BY <1>2 DEF IInv, L2Inv, L2Types, L2Match
<1>3. IInv => MshrMatches
  BY <1>1, <1>2 DEF MshrMatches
<1> QED
  BY <1>3, AlwaysIInv, PTL

-----------------------------------------------------------------------------
(* One line. Late, Fits, Moves and Serves describe what a step does to the  *)
(* view x of a line: an L1 moves its copy to another state, or the L2       *)
(* changes its line, its sharers and its queue; the messages minus are      *)
(* taken and plus are sent. Each lemma shows for one such change that       *)
(* LineInv holds in the view y after it.                                    *)

Late(x, p) ==
  In(x, "Invalidate", p) \/ In(x, "ReplaceAck", p) \/ In(x, "WriteBackAck", p)

(* A step may add the messages plus: they are new, and in order. *)
Fits(x, plus) ==
  /\ plus \intersect x.msgs = {}
  /\ \A p \in L1s :
       /\ <<"UpgradeAck", p, p>> \in plus =>
            ~Owes(x, "ReadFwd", p) /\ ~Owes(x, "ReadExFwd", p) /\ ~Late(x, p)
       /\ \A r \in L1s :
            <<"ReadFwd", p, r>> \in plus \/ <<"ReadExFwd", p, r>> \in plus
                => ~Late(x, p)
       /\ <<"Upgrade", p, p>> \in plus => ~In(x, "InvAck", p)
       /\ <<"WriteBack", p, p>> \in plus => ~In(x, "FwdAckData", p)

Moves(x, y, p, state, minus, plus) ==
  /\ y.lines = [x.lines EXCEPT ![p] = state]
  /\ y.l2 = x.l2 /\ y.dir = x.dir /\ y.held = x.held
  /\ y.msgs = (x.msgs \ minus) \union plus

Serves(x, y, state, dir, held, minus, plus) ==
  /\ y.lines = x.lines /\ y.l2 = state /\ y.dir = dir /\ y.held = held
  /\ y.msgs = (x.msgs \ minus) \union plus

LEMMA HomeKeeps ==
  ASSUME NEW x, NEW y, HomeInv(x), x.dir \subseteq L1s, y.l2 = x.l2, y.dir = x.dir,
    y.held = x.held,
         \A q \in x.dir : Recalled(x, q) => Recalled(y, q),
         \A q \in L1s : In(y, "FwdAckData", q) => x.l2 = "ModToSh",
         \A q, r \in L1s : In(y, "FwdAckData", q) /\ In(y, "FwdAckData", r) => q = r
  PROVE  HomeInv(y)
<1>1. /\ y.l2 = "NotPresent" => y.dir = {} /\ y.held = {}
      /\ y.l2 = "Shared" => y.held = {}
  BY DEF HomeInv
<1>2. y.l2 = "InvToMod" =>
       \E r \in L1s, t \in {"Read", "ReadEx"} : y.dir = {r} /\ y.held = {<<t, r>>}
  BY DEF HomeInv
<1>3. y.l2 = "ShToMod" =>
       \E r \in y.dir, t \in {"ReadEx", "Upgrade"} :
         /\ y.held = {<<t, r>>} /\ y.dir # {r}
         /\ \A q \in y.dir \ {r} : Recalled(y, q)
  BY DEF HomeInv
<1>4. y.l2 = "ShToInv" => y.held = {} /\ y.dir # {} /\ \A q \in y.dir : Recalled(y, q)
  BY DEF HomeInv
<1>5. /\ y.l2 \in {"Modified", "ModToInv"} => y.held = {}
          /\ \E o \in L1s : y.dir = {o}
      /\ y.l2 = "ModToInv" => \A q \in y.dir : Recalled(y, q)
  BY DEF HomeInv
<1>6. /\ y.l2 = "ModToSh" => y.held \subseteq {"Read"} \X L1s
      /\ \A p \in L1s : In(y, "FwdAckData", p) => y.l2 = "ModToSh"
      /\ \A p, q \in L1s : In(y, "FwdAckData", p) /\ In(y, "FwdAckData", q) => p = q
  BY DEF HomeInv
<1> QED
  BY <1>1, <1>2, <1>3, <1>4, <1>5, <1>6 DEF HomeInv

LEMMA SharedCopy ==
  ASSUME NEW x, LineInv(x), NEW p \in L1s,
         \/ x.lines[p] = "Shared"
         \/ x.lines[p] = "ShToMod" /\ ~In(x, "UpgradeAck", p)
  PROVE  /\ Sharing(x) /\ p \in x.dir
         /\ x.l2 \in {"Shared", "ShToMod", "ShToInv", "ModToSh"}
         /\ ~Leaves(x, p)
<1>1. Sharing(x)
  BY DEF LineInv, OwningInv, ChainInv
<1>2. p \in x.dir
  BY <1>1 DEF LineInv, CopyInv, EntryInv, Present, Readable, SharingInv, Owes
<1>3. x.l2 # "NotPresent"
  BY <1>2 DEF LineInv, HomeInv
<1>4. x.l2 # "InvToMod"
  <2> SUFFICES ASSUME x.l2 = "InvToMod" PROVE FALSE
    OBVIOUS
  <2>1. PICK t \in {"Read", "ReadEx"} : x.held = {<<t, p>>}
    BY <1>2 DEF LineInv, HomeInv
  <2>2. Waits(x, "Read", p) \/ Waits(x, "ReadEx", p)
    BY <2>1 DEF Waits
  <2> QED
    BY <2>2 DEF LineInv, CopyInv, TokenInv
<1>5. ~Leaves(x, p)
  BY DEF LineInv, CopyInv, GoneInv, Readable
<1> QED
  BY <1>1, <1>2, <1>3, <1>4, <1>5 DEF Sharing

LEMMA OwnedCopy ==
  ASSUME NEW x, LineInv(x), NEW p \in L1s, x.lines[p] \in Owned
  PROVE  /\ ~Sharing(x) /\ x.l2 \in {"Modified", "ModToInv", "ModToSh"}
         /\ ~Leaves(x, p) /\ ~Serving(x, p) /\ ~Asking(x, p)
         /\ \A q \in L1s : ~In(x, "FwdAckData", q)
<1>1. ~Sharing(x)
  BY DEF LineInv, SharingInv
<1>2. x.l2 \in {"Modified", "ModToInv", "ModToSh"}
  BY <1>1 DEF LineInv, LineTypes, L2State, L2Transient, L2Buffered, L2Replaceable,
     Sharing
<1>3. ~Leaves(x, p)
  BY DEF LineInv, CopyInv, GoneInv, Readable, Owned
<1>4. ~Serving(x, p) /\ ~Asking(x, p)
  BY DEF LineInv, CopyInv, TokenInv, Serving, Queuing, Promised, Answering, Asking,
     Owned
<1>5. \A q \in L1s : ~In(x, "FwdAckData", q)
  BY <1>1 DEF LineInv, HomeInv, Sharing
<1> QED
  BY <1>1, <1>2, <1>3, <1>4, <1>5

(* A miss. *)
LEMMA AskLine ==
  ASSUME NEW x, NEW y, LineInv(x), NEW p \in L1s, NEW t, NEW s,
         \/ t = "Read" /\ s = "InvToShEx"
         \/ t = "ReadEx" /\ s = "InvToMod",
         x.lines[p] \in {"NotPresent", "Invalid"},
         Moves(x, y, p, s, {}, {Plain(t, p)})
  PROVE  LineInv(y) /\ Fits(x, {Plain(t, p)})
<1>1. /\ LineTypes(x) /\ \A q \in L1s : CopyInv(x, q)
      /\ HomeInv(x) /\ SharingInv(x) /\ OwningInv(x)
  BY DEF LineInv
<1>2. /\ y.l2 = x.l2 /\ y.dir = x.dir /\ y.held = x.held
      /\ y.lines[p] = s /\ \A q \in L1s \ {p} : y.lines[q] = x.lines[q]
  BY <1>1 DEF Moves, LineTypes
<1>3. \A u, q : In(y, u, q) <=> In(x, u, q) \/ (u = t /\ q = p)
  BY DEF Moves, In, Plain
<1>4. \A u, q, r : u \in {"ReadFwd", "ReadExFwd"} =>
        (Sent(y, u, q, r) <=> Sent(x, u, q, r))
  BY DEF Moves, Sent, Plain
<1>5. \A u, q : Waits(y, u, q) <=> Waits(x, u, q)
  BY <1>2 DEF Waits
<1>6. LineTypes(y)
  BY <1>1, <1>2 DEF Moves, LineTypes, L1State, L1Replaceable, L2State, L2Transient,
     L2Buffered, L2Replaceable, Owned, L1Buffered, L1Transient
<1>7. \A q \in L1s : TokenInv(y, q)
  BY <1>1, <1>2, <1>3, <1>4, <1>5 DEF CopyInv, TokenInv, OneTokenInv, GoneInv, Asking,
     Serving, Queuing, Promised, Answering, Leaves, Owned, L1Buffered
<1>8. \A q \in L1s : OneTokenInv(y, q)
  BY <1>1, <1>2, <1>3, <1>4, <1>5 DEF CopyInv, TokenInv, OneTokenInv, Asking, Serving,
     Queuing, Promised, Answering
<1>9. \A q \in L1s : TrackInv(y, q)
  BY <1>1, <1>2, <1>3, <1>4, <1>5 DEF CopyInv, TrackInv, Asking, Serving, Queuing,
     Promised, Answering, L1Transient, Owned, L1Buffered
<1>10. \A q \in L1s : GoneInv(y, q)
  BY <1>1, <1>2, <1>3, <1>4, <1>5 DEF CopyInv, GoneInv, TokenInv, Leaves, Asking,
     Serving, Queuing, Promised, Answering, L1Buffered, Readable, Owned
<1>11. \A q \in L1s : AckInv(y, q)
  BY <1>1, <1>2, <1>3, <1>4, <1>5 DEF CopyInv, AckInv, Leaves, L1Buffered, Owned
<1>12. \A q \in L1s : RecallInv(y, q)
  BY <1>1, <1>2, <1>3, <1>4, <1>5 DEF CopyInv, RecallInv, Leaves, L1Buffered, Queuing,
     Owned
<1>13. \A q \in L1s : EntryInv(y, q)
  BY <1>1, <1>2, <1>3, <1>4, <1>5 DEF CopyInv, EntryInv, Leaves, Present, Readable,
     Owes, Serving, Queuing, Promised, Answering, Owned, L1Buffered
<1>14. \A q \in x.dir : Recalled(x, q) => Recalled(y, q)
  BY <1>1, <1>2, <1>3, <1>4, <1>5 DEF LineTypes, Recalled, Leaves, L1Buffered, Owned,
     Readable, CopyInv, GoneInv
<1>15. HomeInv(y)
  <2>1. /\ \A q \in L1s : In(y, "FwdAckData", q) => x.l2 = "ModToSh"
        /\ \A q, r \in L1s : In(y, "FwdAckData", q) /\ In(y, "FwdAckData", r) => q = r
    BY <1>1, <1>2, <1>3, <1>4, <1>5 DEF HomeInv
  <2> QED
    BY <1>1, <1>2, <1>14, <2>1, HomeKeeps DEF LineTypes
<1>16. SharingInv(y)
  BY <1>1, <1>2, <1>3, <1>4, <1>5 DEF SharingInv, Sharing, Owned, Owes
<1>17. OwningInv(y)
  <2> SUFFICES ASSUME ~Sharing(y)
               PROVE  \E k \in [L1s -> Int], o \in L1s : ChainInv(y, k, o)
    BY DEF OwningInv
  <2>1. ~Sharing(x)
    BY <1>1, <1>2, <1>3, <1>4, <1>5 DEF Sharing
  <2>2. PICK k \in [L1s -> Int], o \in L1s : ChainInv(x, k, o)
    BY <2>1, <1>1 DEF OwningInv
  <2>3. ChainInv(y, k, o)
    BY <2>2, <1>1, <1>2, <1>3, <1>4, <1>5 DEF ChainInv, Holds, Expects, Owes, Owned,
       Sharing
  <2> QED
    BY <2>3
<1>18. Fits(x, {Plain(t, p)})
  BY <1>1 DEF Fits, Late, In, Plain, CopyInv, TokenInv, GoneInv, AckInv, RecallInv,
     Leaves, Readable, Owned
<1> QED
  BY <1>6, <1>7, <1>8, <1>9, <1>10, <1>11, <1>12, <1>13, <1>15, <1>16, <1>17, <1>18
     DEF LineInv, CopyInv

(* A store to a shared line. *)
LEMMA AskUpgrade ==
  ASSUME NEW x, NEW y, LineInv(x), NEW p \in L1s,
         x.lines[p] = "Shared",
         Moves(x, y, p, "ShToMod", {}, {Plain("Upgrade", p)})
  PROVE  LineInv(y) /\ Fits(x, {Plain("Upgrade", p)})
<1>1. /\ LineTypes(x) /\ \A q \in L1s : CopyInv(x, q)
      /\ HomeInv(x) /\ SharingInv(x) /\ OwningInv(x)
  BY DEF LineInv
<1>2. /\ y.l2 = x.l2 /\ y.dir = x.dir /\ y.held = x.held
      /\ y.lines[p] = "ShToMod" /\ \A q \in L1s \ {p} : y.lines[q] = x.lines[q]
  BY <1>1 DEF Moves, LineTypes
<1>3. \A u, q : In(y, u, q) <=> In(x, u, q) \/ (u = "Upgrade" /\ q = p)
  BY DEF Moves, In, Plain
<1>4. \A u, q, r : u \in {"ReadFwd", "ReadExFwd"} =>
        (Sent(y, u, q, r) <=> Sent(x, u, q, r))
  BY DEF Moves, Sent, Plain
<1>5. \A u, q : Waits(y, u, q) <=> Waits(x, u, q)
  BY <1>2 DEF Waits
<1>6. LineTypes(y)
  BY <1>1, <1>2 DEF Moves, LineTypes, L1State, L1Replaceable, L2State, L2Transient,
     L2Buffered, L2Replaceable, Owned, L1Buffered, L1Transient
<1>7. \A q \in L1s : TokenInv(y, q)
  BY <1>1, <1>2, <1>3, <1>4, <1>5 DEF CopyInv, TokenInv, OneTokenInv, GoneInv, Asking,
     Serving, Queuing, Promised, Answering, Leaves, Owned, L1Buffered
<1>8. \A q \in L1s : OneTokenInv(y, q)
  BY <1>1, <1>2, <1>3, <1>4, <1>5 DEF CopyInv, TokenInv, OneTokenInv, Asking, Serving,
     Queuing, Promised, Answering
<1>9. \A q \in L1s : TrackInv(y, q)
  BY <1>1, <1>2, <1>3, <1>4, <1>5 DEF CopyInv, TrackInv, Asking, Serving, Queuing,
     Promised, Answering, L1Transient, Owned, L1Buffered
<1>10. \A q \in L1s : GoneInv(y, q)
  BY <1>1, <1>2, <1>3, <1>4, <1>5 DEF CopyInv, GoneInv, TokenInv, Leaves, Asking,
     Serving, Queuing, Promised, Answering, L1Buffered, Readable, Owned
<1>11. \A q \in L1s : AckInv(y, q)
  BY <1>1, <1>2, <1>3, <1>4, <1>5 DEF CopyInv, AckInv, Leaves, L1Buffered, Owned
<1>12. \A q \in L1s : RecallInv(y, q)
  BY <1>1, <1>2, <1>3, <1>4, <1>5 DEF CopyInv, RecallInv, Leaves, L1Buffered, Queuing,
     Owned
<1>13. \A q \in L1s : EntryInv(y, q)
  BY <1>1, <1>2, <1>3, <1>4, <1>5 DEF CopyInv, EntryInv, Leaves, Present, Readable,
     Owes, Serving, Queuing, Promised, Answering, Owned, L1Buffered
<1>14. \A q \in x.dir : Recalled(x, q) => Recalled(y, q)
  BY <1>1, <1>2, <1>3, <1>4, <1>5 DEF LineTypes, Recalled, Leaves, L1Buffered, Owned,
     Readable, CopyInv, GoneInv
<1>15. HomeInv(y)
  <2>1. /\ \A q \in L1s : In(y, "FwdAckData", q) => x.l2 = "ModToSh"
        /\ \A q, r \in L1s : In(y, "FwdAckData", q) /\ In(y, "FwdAckData", r) => q = r
    BY <1>1, <1>2, <1>3, <1>4, <1>5 DEF HomeInv
  <2> QED
    BY <1>1, <1>2, <1>14, <2>1, HomeKeeps DEF LineTypes
<1>16. SharingInv(y)
  BY <1>1, <1>2, <1>3, <1>4, <1>5 DEF SharingInv, Sharing, Owned, Owes
<1>17. OwningInv(y)
  BY <1>1, <1>2, <1>3, <1>4, <1>5 DEF OwningInv, Sharing, ChainInv, Holds, Expects,
     Owes, Owned, L1Buffered
<1>18. Fits(x, {Plain("Upgrade", p)})
  BY <1>1 DEF Fits, Late, In, Plain, CopyInv, TokenInv, GoneInv, AckInv, RecallInv,
     Leaves, Readable, Owned
<1> QED
  BY <1>6, <1>7, <1>8, <1>9, <1>10, <1>11, <1>12, <1>13, <1>15, <1>16, <1>17, <1>18
     DEF LineInv, CopyInv

(* A shared line, one of the owner, an invalid one gives up its way. *)
LEMMA EvictShared ==
  ASSUME NEW x, NEW y, LineInv(x), NEW p \in L1s,
         x.lines[p] = "Shared",
         Moves(x, y, p, "ShToInv", {}, {Plain("Replace", p)})
  PROVE  LineInv(y) /\ Fits(x, {Plain("Replace", p)})
<1>1. /\ LineTypes(x) /\ \A q \in L1s : CopyInv(x, q)
      /\ HomeInv(x) /\ SharingInv(x) /\ OwningInv(x)
  BY DEF LineInv
<1>2. /\ y.l2 = x.l2 /\ y.dir = x.dir /\ y.held = x.held
      /\ y.lines[p] = "ShToInv" /\ \A q \in L1s \ {p} : y.lines[q] = x.lines[q]
  BY <1>1 DEF Moves, LineTypes
<1>3. \A u, q : In(y, u, q) <=> In(x, u, q) \/ (u = "Replace" /\ q = p)
  BY DEF Moves, In, Plain
<1>4. \A u, q, r : u \in {"ReadFwd", "ReadExFwd"} =>
        (Sent(y, u, q, r) <=> Sent(x, u, q, r))
  BY DEF Moves, Sent, Plain
<1>5. \A u, q : Waits(y, u, q) <=> Waits(x, u, q)
  BY <1>2 DEF Waits
<1>6. /\ Sharing(x) /\ p \in x.dir /\ ~Leaves(x, p)
      /\ x.l2 \in {"Shared", "ShToMod", "ShToInv", "ModToSh"}
  BY SharedCopy
<1>7. LineTypes(y)
  BY <1>1, <1>2 DEF Moves, LineTypes, L1State, L1Replaceable, L2State, L2Transient,
     L2Buffered, L2Replaceable, Owned, L1Buffered, L1Transient
<1>8. \A q \in L1s : TokenInv(y, q)
  BY <1>1, <1>2, <1>3, <1>4, <1>5, <1>6 DEF CopyInv, TokenInv, OneTokenInv, GoneInv,
     Asking, Serving, Queuing, Promised, Answering, Leaves, Owned, L1Buffered
<1>9. \A q \in L1s : OneTokenInv(y, q)
  BY <1>1, <1>2, <1>3, <1>4, <1>5, <1>6 DEF CopyInv, TokenInv, OneTokenInv, Asking,
     Serving, Queuing, Promised, Answering
<1>10. \A q \in L1s : TrackInv(y, q)
  BY <1>1, <1>2, <1>3, <1>4, <1>5, <1>6 DEF CopyInv, TrackInv, Asking, Serving,
      Queuing,
     Promised, Answering, L1Transient, Owned, L1Buffered
<1>11. \A q \in L1s : GoneInv(y, q)
  BY <1>1, <1>2, <1>3, <1>4, <1>5, <1>6 DEF CopyInv, GoneInv, TokenInv, Leaves,
      Asking,
     Serving, Queuing, Promised, Answering, L1Buffered, Readable, Owned
<1>12. \A q \in L1s : AckInv(y, q)
  BY <1>1, <1>2, <1>3, <1>4, <1>5, <1>6 DEF CopyInv, AckInv, Leaves, L1Buffered, Owned
<1>13. \A q \in L1s : RecallInv(y, q)
  BY <1>1, <1>2, <1>3, <1>4, <1>5, <1>6 DEF CopyInv, RecallInv, Leaves, L1Buffered,
     Queuing, Owned
<1>14. \A q \in L1s : EntryInv(y, q)
  BY <1>1, <1>2, <1>3, <1>4, <1>5, <1>6 DEF CopyInv, EntryInv, Leaves, Present,
     Readable, Owes, Serving, Queuing, Promised, Answering, Owned, L1Buffered
<1>15. \A q \in x.dir : Recalled(x, q) => Recalled(y, q)
  BY <1>1, <1>2, <1>3, <1>4, <1>5, <1>6 DEF LineTypes, Recalled, Leaves, L1Buffered,
     Owned, Readable, CopyInv, GoneInv
<1>16. HomeInv(y)
  <2>1. /\ \A q \in L1s : In(y, "FwdAckData", q) => x.l2 = "ModToSh"
        /\ \A q, r \in L1s : In(y, "FwdAckData", q) /\ In(y, "FwdAckData", r) => q = r
    BY <1>1, <1>2, <1>3, <1>4, <1>5, <1>6 DEF HomeInv
  <2> QED
    BY <1>1, <1>2, <1>15, <2>1, HomeKeeps DEF LineTypes
<1>17. SharingInv(y)
  BY <1>1, <1>2, <1>3, <1>4, <1>5, <1>6 DEF SharingInv, Sharing, Owned, Owes
<1>18. OwningInv(y)
  BY <1>1, <1>2, <1>3, <1>4, <1>5, <1>6 DEF OwningInv, Sharing, ChainInv, Holds,
     Expects, Owes, Owned, L1Buffered
<1>19. Fits(x, {Plain("Replace", p)})
  BY <1>1 DEF Fits, Late, In, Plain, CopyInv, TokenInv, GoneInv, AckInv, RecallInv,
     Leaves, Readable, Owned
<1> QED
  BY <1>7, <1>8, <1>9, <1>10, <1>11, <1>12, <1>13, <1>14, <1>16, <1>17, <1>18, <1>19
     DEF LineInv, CopyInv

LEMMA EvictOwned ==
  ASSUME NEW x, NEW y, LineInv(x), NEW p \in L1s,
         x.lines[p] \in Owned,
         Moves(x, y, p, "ModToInv", {}, {Plain("WriteBack", p)})
  PROVE  LineInv(y) /\ Fits(x, {Plain("WriteBack", p)})
<1>1. /\ LineTypes(x) /\ \A q \in L1s : CopyInv(x, q)
      /\ HomeInv(x) /\ SharingInv(x) /\ OwningInv(x)
  BY DEF LineInv
<1>2. /\ y.l2 = x.l2 /\ y.dir = x.dir /\ y.held = x.held
      /\ y.lines[p] = "ModToInv" /\ \A q \in L1s \ {p} : y.lines[q] = x.lines[q]
  BY <1>1 DEF Moves, LineTypes
<1>3. \A u, q : In(y, u, q) <=> In(x, u, q) \/ (u = "WriteBack" /\ q = p)
  BY DEF Moves, In, Plain
<1>4. \A u, q, r : u \in {"ReadFwd", "ReadExFwd"} =>
        (Sent(y, u, q, r) <=> Sent(x, u, q, r))
  BY DEF Moves, Sent, Plain
<1>5. \A u, q : Waits(y, u, q) <=> Waits(x, u, q)
  BY <1>2 DEF Waits
<1>6. /\ ~Sharing(x) /\ x.l2 \in {"Modified", "ModToInv", "ModToSh"}
      /\ ~Leaves(x, p) /\ ~Serving(x, p) /\ ~Asking(x, p)
      /\ \A q \in L1s : ~In(x, "FwdAckData", q)
  BY OwnedCopy
<1>7. LineTypes(y)
  BY <1>1, <1>2 DEF Moves, LineTypes, L1State, L1Replaceable, L2State, L2Transient,
     L2Buffered, L2Replaceable, Owned, L1Buffered, L1Transient
<1>8. \A q \in L1s : TokenInv(y, q)
  BY <1>1, <1>2, <1>3, <1>4, <1>5, <1>6 DEF CopyInv, TokenInv, OneTokenInv, GoneInv,
     Asking, Serving, Queuing, Promised, Answering, Leaves, Owned, L1Buffered
<1>9. \A q \in L1s : OneTokenInv(y, q)
  BY <1>1, <1>2, <1>3, <1>4, <1>5, <1>6 DEF CopyInv, TokenInv, OneTokenInv, Asking,
     Serving, Queuing, Promised, Answering
<1>10. \A q \in L1s : TrackInv(y, q)
  BY <1>1, <1>2, <1>3, <1>4, <1>5, <1>6 DEF CopyInv, TrackInv, Asking, Serving,
      Queuing,
     Promised, Answering, L1Transient, Owned, L1Buffered
<1>11. \A q \in L1s : GoneInv(y, q)
  BY <1>1, <1>2, <1>3, <1>4, <1>5, <1>6 DEF CopyInv, GoneInv, TokenInv, Leaves,
      Asking,
     Serving, Queuing, Promised, Answering, L1Buffered, Readable, Owned
<1>12. \A q \in L1s : AckInv(y, q)
  BY <1>1, <1>2, <1>3, <1>4, <1>5, <1>6 DEF CopyInv, AckInv, Leaves, L1Buffered, Owned
<1>13. \A q \in L1s : RecallInv(y, q)
  BY <1>1, <1>2, <1>3, <1>4, <1>5, <1>6 DEF CopyInv, RecallInv, Leaves, L1Buffered,
     Queuing, Owned
<1>14. \A q \in L1s : EntryInv(y, q)
  BY <1>1, <1>2, <1>3, <1>4, <1>5, <1>6 DEF CopyInv, EntryInv, Leaves, Present,
     Readable, Owes, Serving, Queuing, Promised, Answering, Owned, L1Buffered
<1>15. \A q \in x.dir : Recalled(x, q) => Recalled(y, q)
  BY <1>1, <1>2, <1>3, <1>4, <1>5, <1>6 DEF LineTypes, Recalled, Leaves, L1Buffered,
     Owned, Readable, CopyInv, GoneInv
<1>16. HomeInv(y)
  <2>1. /\ \A q \in L1s : In(y, "FwdAckData", q) => x.l2 = "ModToSh"
        /\ \A q, r \in L1s : In(y, "FwdAckData", q) /\ In(y, "FwdAckData", r) => q = r
    BY <1>1, <1>2, <1>3, <1>4, <1>5, <1>6 DEF HomeInv
  <2> QED
    BY <1>1, <1>2, <1>15, <2>1, HomeKeeps DEF LineTypes
<1>17. SharingInv(y)
  BY <1>1, <1>2, <1>3, <1>4, <1>5, <1>6 DEF SharingInv, Sharing, Owned, Owes
<1>18. OwningInv(y)
  <2> SUFFICES ASSUME ~Sharing(y)
               PROVE  \E k \in [L1s -> Int], o \in L1s : ChainInv(y, k, o)
    BY DEF OwningInv
  <2>1. ~Sharing(x)
    BY <1>1, <1>2, <1>3, <1>4, <1>5, <1>6 DEF Sharing
  <2>2. PICK k \in [L1s -> Int], o \in L1s : ChainInv(x, k, o)
    BY <2>1, <1>1 DEF OwningInv
  <2>3. ChainInv(y, k, o)
    BY <2>2, <1>1, <1>2, <1>3, <1>4, <1>5, <1>6 DEF ChainInv, Holds, Expects, Owes,
       Owned, Sharing
  <2> QED
    BY <2>3
<1>19. Fits(x, {Plain("WriteBack", p)})
  BY <1>1, <1>6 DEF Fits, Late, In, Plain, CopyInv, TokenInv, GoneInv, AckInv,
     RecallInv, Leaves, Readable, Owned
<1> QED
  BY <1>7, <1>8, <1>9, <1>10, <1>11, <1>12, <1>13, <1>14, <1>16, <1>17, <1>18, <1>19
     DEF LineInv, CopyInv

LEMMA EvictInvalid ==
  ASSUME NEW x, NEW y, LineInv(x), NEW p \in L1s,
         x.lines[p] = "Invalid",
         Moves(x, y, p, "NotPresent", {}, {})
  PROVE  LineInv(y)
<1>1. /\ LineTypes(x) /\ \A q \in L1s : CopyInv(x, q)
      /\ HomeInv(x) /\ SharingInv(x) /\ OwningInv(x)
  BY DEF LineInv
<1>2. /\ y.l2 = x.l2 /\ y.dir = x.dir /\ y.held = x.held
      /\ y.lines[p] = "NotPresent" /\ \A q \in L1s \ {p} : y.lines[q] = x.lines[q]
  BY <1>1 DEF Moves, LineTypes
<1>3. \A u, q : In(y, u, q) <=> In(x, u, q)
  BY DEF Moves, In, Plain
<1>4. \A u, q, r : u \in {"ReadFwd", "ReadExFwd"} =>
        (Sent(y, u, q, r) <=> Sent(x, u, q, r))
  BY DEF Moves, Sent, Plain
<1>5. \A u, q : Waits(y, u, q) <=> Waits(x, u, q)
  BY <1>2 DEF Waits
<1>6. LineTypes(y)
  BY <1>1, <1>2 DEF Moves, LineTypes, L1State, L1Replaceable, L2State, L2Transient,
     L2Buffered, L2Replaceable, Owned, L1Buffered, L1Transient
<1>7. \A q \in L1s : TokenInv(y, q)
  BY <1>1, <1>2, <1>3, <1>4, <1>5 DEF CopyInv, TokenInv, OneTokenInv, GoneInv, Asking,
     Serving, Queuing, Promised, Answering, Leaves, Owned, L1Buffered
<1>8. \A q \in L1s : OneTokenInv(y, q)
  BY <1>1, <1>2, <1>3, <1>4, <1>5 DEF CopyInv, TokenInv, OneTokenInv, Asking, Serving,
     Queuing, Promised, Answering
<1>9. \A q \in L1s : TrackInv(y, q)
  BY <1>1, <1>2, <1>3, <1>4, <1>5 DEF CopyInv, TrackInv, Asking, Serving, Queuing,
     Promised, Answering, L1Transient, Owned, L1Buffered
<1>10. \A q \in L1s : GoneInv(y, q)
  BY <1>1, <1>2, <1>3, <1>4, <1>5 DEF CopyInv, GoneInv, TokenInv, Leaves, Asking,
     Serving, Queuing, Promised, Answering, L1Buffered, Readable, Owned
<1>11. \A q \in L1s : AckInv(y, q)
  BY <1>1, <1>2, <1>3, <1>4, <1>5 DEF CopyInv, AckInv, Leaves, L1Buffered, Owned
<1>12. \A q \in L1s : RecallInv(y, q)
  BY <1>1, <1>2, <1>3, <1>4, <1>5 DEF CopyInv, RecallInv, Leaves, L1Buffered, Queuing,
     Owned
<1>13. \A q \in L1s : EntryInv(y, q)
  BY <1>1, <1>2, <1>3, <1>4, <1>5 DEF CopyInv, EntryInv, Leaves, Present, Readable,
     Owes, Serving, Queuing, Promised, Answering, Owned, L1Buffered
<1>14. \A q \in x.dir : Recalled(x, q) => Recalled(y, q)
  BY <1>1, <1>2, <1>3, <1>4, <1>5 DEF LineTypes, Recalled, Leaves, L1Buffered, Owned,
     Readable, CopyInv, GoneInv
<1>15. HomeInv(y)
  <2>1. /\ \A q \in L1s : In(y, "FwdAckData", q) => x.l2 = "ModToSh"
        /\ \A q, r \in L1s : In(y, "FwdAckData", q) /\ In(y, "FwdAckData", r) => q = r
    BY <1>1, <1>2, <1>3, <1>4, <1>5 DEF HomeInv
  <2> QED
    BY <1>1, <1>2, <1>14, <2>1, HomeKeeps DEF LineTypes
<1>16. SharingInv(y)
  BY <1>1, <1>2, <1>3, <1>4, <1>5 DEF SharingInv, Sharing, Owned, Owes
<1>17. OwningInv(y)
  <2> SUFFICES ASSUME ~Sharing(y)
               PROVE  \E k \in [L1s -> Int], o \in L1s : ChainInv(y, k, o)
    BY DEF OwningInv
  <2>1. ~Sharing(x)
    BY <1>1, <1>2, <1>3, <1>4, <1>5 DEF Sharing
  <2>2. PICK k \in [L1s -> Int], o \in L1s : ChainInv(x, k, o)
    BY <2>1, <1>1 DEF OwningInv
  <2>3. ChainInv(y, k, o)
    BY <2>2, <1>1, <1>2, <1>3, <1>4, <1>5 DEF ChainInv, Holds, Expects, Owes, Owned,
       Sharing
  <2> QED
    BY <2>3
<1> QED
  BY <1>6, <1>7, <1>8, <1>9, <1>10, <1>11, <1>12, <1>13, <1>15, <1>16, <1>17
     DEF LineInv, CopyInv

(* A store to a line of the owner. *)
LEMMA WriteOwned ==
  ASSUME NEW x, NEW y, LineInv(x), NEW p \in L1s,
         x.lines[p] \in Owned,
         Moves(x, y, p, "Modified", {}, {})
  PROVE  LineInv(y)
<1>1. /\ LineTypes(x) /\ \A q \in L1s : CopyInv(x, q)
      /\ HomeInv(x) /\ SharingInv(x) /\ OwningInv(x)
  BY DEF LineInv
<1>2. /\ y.l2 = x.l2 /\ y.dir = x.dir /\ y.held = x.held
      /\ y.lines[p] = "Modified" /\ \A q \in L1s \ {p} : y.lines[q] = x.lines[q]
  BY <1>1 DEF Moves, LineTypes
<1>3. \A u, q : In(y, u, q) <=> In(x, u, q)
  BY DEF Moves, In, Plain
<1>4. \A u, q, r : u \in {"ReadFwd", "ReadExFwd"} =>
        (Sent(y, u, q, r) <=> Sent(x, u, q, r))
  BY DEF Moves, Sent, Plain
<1>5. \A u, q : Waits(y, u, q) <=> Waits(x, u, q)
  BY <1>2 DEF Waits
<1>6. /\ ~Sharing(x) /\ x.l2 \in {"Modified", "ModToInv", "ModToSh"}
      /\ ~Leaves(x, p) /\ ~Serving(x, p) /\ ~Asking(x, p)
      /\ \A q \in L1s : ~In(x, "FwdAckData", q)
  BY OwnedCopy
<1>7. LineTypes(y)
  BY <1>1, <1>2 DEF Moves, LineTypes, L1State, L1Replaceable, L2State, L2Transient,
     L2Buffered, L2Replaceable, Owned, L1Buffered, L1Transient
<1>8. \A q \in L1s : TokenInv(y, q)
  BY <1>1, <1>2, <1>3, <1>4, <1>5, <1>6 DEF CopyInv, TokenInv, OneTokenInv, GoneInv,
     Asking, Serving, Queuing, Promised, Answering, Leaves, Owned, L1Buffered
<1>9. \A q \in L1s : OneTokenInv(y, q)
  BY <1>1, <1>2, <1>3, <1>4, <1>5, <1>6 DEF CopyInv, TokenInv, OneTokenInv, Asking,
     Serving, Queuing, Promised, Answering
<1>10. \A q \in L1s : TrackInv(y, q)
  BY <1>1, <1>2, <1>3, <1>4, <1>5, <1>6 DEF CopyInv, TrackInv, Asking, Serving,
      Queuing,
     Promised, Answering, L1Transient, Owned, L1Buffered
<1>11. \A q \in L1s : GoneInv(y, q)
  BY <1>1, <1>2, <1>3, <1>4, <1>5, <1>6 DEF CopyInv, GoneInv, TokenInv, Leaves,
      Asking,
     Serving, Queuing, Promised, Answering, L1Buffered, Readable, Owned
<1>12. \A q \in L1s : AckInv(y, q)
  BY <1>1, <1>2, <1>3, <1>4, <1>5, <1>6 DEF CopyInv, AckInv, Leaves, L1Buffered, Owned
<1>13. \A q \in L1s : RecallInv(y, q)
  BY <1>1, <1>2, <1>3, <1>4, <1>5, <1>6 DEF CopyInv, RecallInv, Leaves, L1Buffered,
     Queuing, Owned
<1>14. \A q \in L1s : EntryInv(y, q)
  BY <1>1, <1>2, <1>3, <1>4, <1>5, <1>6 DEF CopyInv, EntryInv, Leaves, Present,
     Readable, Owes, Serving, Queuing, Promised, Answering, Owned, L1Buffered
<1>15. \A q \in x.dir : Recalled(x, q) => Recalled(y, q)
  BY <1>1, <1>2, <1>3, <1>4, <1>5, <1>6 DEF LineTypes, Recalled, Leaves, L1Buffered,
     Owned, Readable, CopyInv, GoneInv
<1>16. HomeInv(y)
  <2>1. /\ \A q \in L1s : In(y, "FwdAckData", q) => x.l2 = "ModToSh"
        /\ \A q, r \in L1s : In(y, "FwdAckData", q) /\ In(y, "FwdAckData", r) => q = r
    BY <1>1, <1>2, <1>3, <1>4, <1>5, <1>6 DEF HomeInv
  <2> QED
    BY <1>1, <1>2, <1>15, <2>1, HomeKeeps DEF LineTypes
<1>17. SharingInv(y)
  BY <1>1, <1>2, <1>3, <1>4, <1>5, <1>6 DEF SharingInv, Sharing, Owned, Owes
<1>18. OwningInv(y)
  <2> SUFFICES ASSUME ~Sharing(y)
               PROVE  \E k \in [L1s -> Int], o \in L1s : ChainInv(y, k, o)
    BY DEF OwningInv
  <2>1. ~Sharing(x)
    BY <1>1, <1>2, <1>3, <1>4, <1>5, <1>6 DEF Sharing
  <2>2. PICK k \in [L1s -> Int], o \in L1s : ChainInv(x, k, o)
    BY <2>1, <1>1 DEF OwningInv
  <2>3. ChainInv(y, k, o)
    BY <2>2, <1>1, <1>2, <1>3, <1>4, <1>5, <1>6 DEF ChainInv, Holds, Expects, Owes,
       Owned, Sharing
  <2> QED
    BY <2>3
<1> QED
  BY <1>7, <1>8, <1>9, <1>10, <1>11, <1>12, <1>13, <1>14, <1>16, <1>17, <1>18
     DEF LineInv, CopyInv

(* The data, or the right to write, arrives. *)
LEMMA FillShared ==
  ASSUME NEW x, NEW y, LineInv(x), NEW p \in L1s,
         In(x, "DataShared", p),
         x.lines[p] = "InvToShEx",
         Moves(x, y, p, "Shared", {Plain("DataShared", p)}, {})
  PROVE  LineInv(y)
<1>1. /\ LineTypes(x) /\ \A q \in L1s : CopyInv(x, q)
      /\ HomeInv(x) /\ SharingInv(x) /\ OwningInv(x)
  BY DEF LineInv
<1>2. /\ y.l2 = x.l2 /\ y.dir = x.dir /\ y.held = x.held
      /\ y.lines[p] = "Shared" /\ \A q \in L1s \ {p} : y.lines[q] = x.lines[q]
  BY <1>1 DEF Moves, LineTypes
<1>3. \A u, q : In(y, u, q) <=> In(x, u, q) /\ ~(u = "DataShared" /\ q = p)
  BY DEF Moves, In, Plain
<1>4. \A u, q, r : u \in {"ReadFwd", "ReadExFwd"} =>
        (Sent(y, u, q, r) <=> Sent(x, u, q, r))
  BY DEF Moves, Sent, Plain
<1>5. \A u, q : Waits(y, u, q) <=> Waits(x, u, q)
  BY <1>2 DEF Waits
<1>6. LineTypes(y)
  BY <1>1, <1>2 DEF Moves, LineTypes, L1State, L1Replaceable, L2State, L2Transient,
     L2Buffered, L2Replaceable, Owned, L1Buffered, L1Transient
<1>7. \A q \in L1s : TokenInv(y, q)
  BY <1>1, <1>2, <1>3, <1>4, <1>5 DEF CopyInv, TokenInv, OneTokenInv, GoneInv, Asking,
     Serving, Queuing, Promised, Answering, Leaves, Owned, L1Buffered
<1>8. \A q \in L1s : OneTokenInv(y, q)
  BY <1>1, <1>2, <1>3, <1>4, <1>5 DEF CopyInv, TokenInv, OneTokenInv, Asking, Serving,
     Queuing, Promised, Answering
<1>9. \A q \in L1s : TrackInv(y, q)
  BY <1>1, <1>2, <1>3, <1>4, <1>5 DEF CopyInv, TrackInv, Asking, Serving, Queuing,
     Promised, Answering, L1Transient, Owned, L1Buffered
<1>10. \A q \in L1s : GoneInv(y, q)
  BY <1>1, <1>2, <1>3, <1>4, <1>5 DEF CopyInv, GoneInv, TokenInv, Leaves, Asking,
     Serving, Queuing, Promised, Answering, L1Buffered, Readable, Owned
<1>11. \A q \in L1s : AckInv(y, q)
  BY <1>1, <1>2, <1>3, <1>4, <1>5 DEF CopyInv, AckInv, Leaves, L1Buffered, Owned
<1>12. \A q \in L1s : RecallInv(y, q)
  BY <1>1, <1>2, <1>3, <1>4, <1>5 DEF CopyInv, RecallInv, Leaves, L1Buffered, Queuing,
     Owned
<1>13. \A q \in L1s : EntryInv(y, q)
  BY <1>1, <1>2, <1>3, <1>4, <1>5 DEF CopyInv, EntryInv, Leaves, Present, Readable,
     Owes, Serving, Queuing, Promised, Answering, Owned, L1Buffered
<1>14. \A q \in x.dir : Recalled(x, q) => Recalled(y, q)
  BY <1>1, <1>2, <1>3, <1>4, <1>5 DEF LineTypes, Recalled, Leaves, L1Buffered, Owned,
     Readable, CopyInv, GoneInv
<1>15. HomeInv(y)
  <2>1. /\ \A q \in L1s : In(y, "FwdAckData", q) => x.l2 = "ModToSh"
        /\ \A q, r \in L1s : In(y, "FwdAckData", q) /\ In(y, "FwdAckData", r) => q = r
    BY <1>1, <1>2, <1>3, <1>4, <1>5 DEF HomeInv
  <2> QED
    BY <1>1, <1>2, <1>14, <2>1, HomeKeeps DEF LineTypes
<1>16. SharingInv(y)
  BY <1>1, <1>2, <1>3, <1>4, <1>5 DEF SharingInv, Sharing, Owned, Owes
<1>17. OwningInv(y)
  BY <1>1, <1>2, <1>3, <1>4, <1>5 DEF OwningInv, Sharing, ChainInv, Holds, Expects,
     Owes, Owned, L1Buffered
<1> QED
  BY <1>6, <1>7, <1>8, <1>9, <1>10, <1>11, <1>12, <1>13, <1>15, <1>16, <1>17
     DEF LineInv, CopyInv

LEMMA FillOwned ==
  ASSUME NEW x, NEW y, LineInv(x), NEW p \in L1s, NEW t, NEW s,
         \/ t = "DataExclusive" /\ x.lines[p] = "InvToShEx" /\ s = "Exclusive"
         \/ t = "DataExclusive" /\ x.lines[p] = "InvToMod" /\ s = "Modified"
         \/ t = "UpgradeAck" /\ x.lines[p] = "ShToMod" /\ s = "Modified",
         In(x, t, p),
         Moves(x, y, p, s, {Plain(t, p)}, {})
  PROVE  LineInv(y)
<1>1. /\ LineTypes(x) /\ \A q \in L1s : CopyInv(x, q)
      /\ HomeInv(x) /\ SharingInv(x) /\ OwningInv(x)
  BY DEF LineInv
<1>2. /\ y.l2 = x.l2 /\ y.dir = x.dir /\ y.held = x.held
      /\ y.lines[p] = s /\ \A q \in L1s \ {p} : y.lines[q] = x.lines[q]
  BY <1>1 DEF Moves, LineTypes
<1>3. \A u, q : In(y, u, q) <=> In(x, u, q) /\ ~(u = t /\ q = p)
  BY DEF Moves, In, Plain
<1>4. \A u, q, r : u \in {"ReadFwd", "ReadExFwd"} =>
        (Sent(y, u, q, r) <=> Sent(x, u, q, r))
  BY DEF Moves, Sent, Plain
<1>5. \A u, q : Waits(y, u, q) <=> Waits(x, u, q)
  BY <1>2 DEF Waits
<1>6. LineTypes(y)
  BY <1>1, <1>2 DEF Moves, LineTypes, L1State, L1Replaceable, L2State, L2Transient,
     L2Buffered, L2Replaceable, Owned, L1Buffered, L1Transient
<1>7. \A q \in L1s : TokenInv(y, q)
  BY <1>1, <1>2, <1>3, <1>4, <1>5 DEF CopyInv, TokenInv, OneTokenInv, GoneInv, Asking,
     Serving, Queuing, Promised, Answering, Leaves, Owned, L1Buffered
<1>8. \A q \in L1s : OneTokenInv(y, q)
  BY <1>1, <1>2, <1>3, <1>4, <1>5 DEF CopyInv, TokenInv, OneTokenInv, Asking, Serving,
     Queuing, Promised, Answering
<1>9. \A q \in L1s : TrackInv(y, q)
  BY <1>1, <1>2, <1>3, <1>4, <1>5 DEF CopyInv, TrackInv, Asking, Serving, Queuing,
     Promised, Answering, L1Transient, Owned, L1Buffered
<1>10. \A q \in L1s : GoneInv(y, q)
  BY <1>1, <1>2, <1>3, <1>4, <1>5 DEF CopyInv, GoneInv, TokenInv, Leaves, Asking,
     Serving, Queuing, Promised, Answering, L1Buffered, Readable, Owned
<1>11. \A q \in L1s : AckInv(y, q)
  BY <1>1, <1>2, <1>3, <1>4, <1>5 DEF CopyInv, AckInv, Leaves, L1Buffered, Owned
<1>12. \A q \in L1s : RecallInv(y, q)
  BY <1>1, <1>2, <1>3, <1>4, <1>5 DEF CopyInv, RecallInv, Leaves, L1Buffered, Queuing,
     Owned
<1>13. \A q \in L1s : EntryInv(y, q)
  BY <1>1, <1>2, <1>3, <1>4, <1>5 DEF CopyInv, EntryInv, Leaves, Present, Readable,
     Owes, Serving, Queuing, Promised, Answering, Owned, L1Buffered
<1>14. \A q \in x.dir : Recalled(x, q) => Recalled(y, q)
  BY <1>1, <1>2, <1>3, <1>4, <1>5 DEF LineTypes, Recalled, Leaves, L1Buffered, Owned,
     Readable, CopyInv, GoneInv
<1>15. HomeInv(y)
  <2>1. /\ \A q \in L1s : In(y, "FwdAckData", q) => x.l2 = "ModToSh"
        /\ \A q, r \in L1s : In(y, "FwdAckData", q) /\ In(y, "FwdAckData", r) => q = r
    BY <1>1, <1>2, <1>3, <1>4, <1>5 DEF HomeInv
  <2> QED
    BY <1>1, <1>2, <1>14, <2>1, HomeKeeps DEF LineTypes
<1>16. SharingInv(y)
  BY <1>1, <1>2, <1>3, <1>4, <1>5 DEF SharingInv, Sharing, Owned, Owes
<1>17. OwningInv(y)
  BY <1>1, <1>2, <1>3, <1>4, <1>5 DEF OwningInv, Sharing, ChainInv, Holds, Expects,
     Owes, Owned, L1Buffered
<1> QED
  BY <1>6, <1>7, <1>8, <1>9, <1>10, <1>11, <1>12, <1>13, <1>15, <1>16, <1>17
     DEF LineInv, CopyInv

(* An Invalidate takes a shared copy, the copy of the owner, or a copy that is
   to be upgraded: the L1 asks again. *)

LEMMA InvalidateShared ==
  ASSUME NEW x, NEW y, LineInv(x), NEW p \in L1s,
         In(x, "Invalidate", p),
         x.lines[p] = "Shared",
         ~Owes(x, "ReadFwd", p), ~Owes(x, "ReadExFwd", p), ~In(x, "UpgradeAck", p),
         Moves(x, y, p, "Invalid", {Plain("Invalidate", p)}, {Plain("InvAck", p)})
  PROVE  LineInv(y) /\ Fits(x, {Plain("InvAck", p)})
<1>1. /\ LineTypes(x) /\ \A q \in L1s : CopyInv(x, q)
      /\ HomeInv(x) /\ SharingInv(x) /\ OwningInv(x)
  BY DEF LineInv
<1>2. /\ y.l2 = x.l2 /\ y.dir = x.dir /\ y.held = x.held
      /\ y.lines[p] = "Invalid" /\ \A q \in L1s \ {p} : y.lines[q] = x.lines[q]
  BY <1>1 DEF Moves, LineTypes
<1>3. \A u, q : In(y, u, q) <=>
        (In(x, u, q) /\ ~(u = "Invalidate" /\ q = p)) \/ (u = "InvAck" /\ q = p)
  BY DEF Moves, In, Plain
<1>4. \A u, q, r : u \in {"ReadFwd", "ReadExFwd"} =>
        (Sent(y, u, q, r) <=> Sent(x, u, q, r))
  BY DEF Moves, Sent, Plain
<1>5. \A u, q : Waits(y, u, q) <=> Waits(x, u, q)
  BY <1>2 DEF Waits
<1>6. /\ Sharing(x) /\ p \in x.dir /\ ~Leaves(x, p)
      /\ x.l2 \in {"Shared", "ShToMod", "ShToInv", "ModToSh"}
  BY SharedCopy
<1>7. x.l2 \in {"ShToMod", "ShToInv"}
  BY <1>1, <1>2, <1>3, <1>4, <1>5, <1>6 DEF CopyInv, RecallInv
<1>8. LineTypes(y)
  BY <1>1, <1>2 DEF Moves, LineTypes, L1State, L1Replaceable, L2State, L2Transient,
     L2Buffered, L2Replaceable, Owned, L1Buffered, L1Transient
<1>9. \A q \in L1s : TokenInv(y, q)
  BY <1>1, <1>2, <1>3, <1>4, <1>5, <1>6, <1>7 DEF CopyInv, TokenInv, OneTokenInv,
     GoneInv, Asking, Serving, Queuing, Promised, Answering, Leaves, Owned, L1Buffered
<1>10. \A q \in L1s : OneTokenInv(y, q)
  BY <1>1, <1>2, <1>3, <1>4, <1>5, <1>6, <1>7 DEF CopyInv, TokenInv, OneTokenInv,
     Asking, Serving, Queuing, Promised, Answering
<1>11. \A q \in L1s : TrackInv(y, q)
  BY <1>1, <1>2, <1>3, <1>4, <1>5, <1>6, <1>7 DEF CopyInv, TrackInv, Asking, Serving,
     Queuing, Promised, Answering, L1Transient, Owned, L1Buffered
<1>12. \A q \in L1s : GoneInv(y, q)
  BY <1>1, <1>2, <1>3, <1>4, <1>5, <1>6, <1>7 DEF CopyInv, GoneInv, TokenInv, Leaves,
     Asking, Serving, Queuing, Promised, Answering, L1Buffered, Readable, Owned
<1>13. \A q \in L1s : AckInv(y, q)
  BY <1>1, <1>2, <1>3, <1>4, <1>5, <1>6, <1>7 DEF CopyInv, AckInv, Leaves, L1Buffered,
     Owned
<1>14. \A q \in L1s : RecallInv(y, q)
  BY <1>1, <1>2, <1>3, <1>4, <1>5, <1>6, <1>7 DEF CopyInv, RecallInv, Leaves,
     L1Buffered, Queuing, Owned
<1>15. \A q \in L1s : EntryInv(y, q)
  BY <1>1, <1>2, <1>3, <1>4, <1>5, <1>6, <1>7 DEF CopyInv, EntryInv, Leaves, Present,
     Readable, Owes, Serving, Queuing, Promised, Answering, Owned, L1Buffered
<1>16. \A q \in x.dir : Recalled(x, q) => Recalled(y, q)
  BY <1>1, <1>2, <1>3, <1>4, <1>5, <1>6, <1>7 DEF LineTypes, Recalled, Leaves,
     L1Buffered, Owned, Readable, CopyInv, GoneInv
<1>17. HomeInv(y)
  <2>1. /\ \A q \in L1s : In(y, "FwdAckData", q) => x.l2 = "ModToSh"
        /\ \A q, r \in L1s : In(y, "FwdAckData", q) /\ In(y, "FwdAckData", r) => q = r
    BY <1>1, <1>2, <1>3, <1>4, <1>5, <1>6, <1>7 DEF HomeInv
  <2> QED
    BY <1>1, <1>2, <1>16, <2>1, HomeKeeps DEF LineTypes
<1>18. SharingInv(y)
  BY <1>1, <1>2, <1>3, <1>4, <1>5, <1>6, <1>7 DEF SharingInv, Sharing, Owned, Owes
<1>19. OwningInv(y)
  BY <1>1, <1>2, <1>3, <1>4, <1>5, <1>6, <1>7 DEF OwningInv, Sharing, ChainInv, Holds,
     Expects, Owes, Owned, L1Buffered
<1>20. Fits(x, {Plain("InvAck", p)})
  BY <1>1 DEF Fits, Late, In, Plain, CopyInv, TokenInv, GoneInv, AckInv, RecallInv,
     Leaves, Readable, Owned
<1> QED
  BY <1>8, <1>9, <1>10, <1>11, <1>12, <1>13, <1>14, <1>15, <1>17, <1>18, <1>19, <1>20
     DEF LineInv, CopyInv

LEMMA InvalidateOwned ==
  ASSUME NEW x, NEW y, LineInv(x), NEW p \in L1s,
         In(x, "Invalidate", p),
         x.lines[p] \in Owned,
         ~Owes(x, "ReadFwd", p), ~Owes(x, "ReadExFwd", p), ~In(x, "UpgradeAck", p),
         Moves(x, y, p, "Invalid", {Plain("Invalidate", p)}, {Plain("WriteBack", p)})
  PROVE  LineInv(y) /\ Fits(x, {Plain("WriteBack", p)})
<1>1. /\ LineTypes(x) /\ \A q \in L1s : CopyInv(x, q)
      /\ HomeInv(x) /\ SharingInv(x) /\ OwningInv(x)
  BY DEF LineInv
<1>2. /\ y.l2 = x.l2 /\ y.dir = x.dir /\ y.held = x.held
      /\ y.lines[p] = "Invalid" /\ \A q \in L1s \ {p} : y.lines[q] = x.lines[q]
  BY <1>1 DEF Moves, LineTypes
<1>3. \A u, q : In(y, u, q) <=>
        (In(x, u, q) /\ ~(u = "Invalidate" /\ q = p)) \/ (u = "WriteBack" /\ q = p)
  BY DEF Moves, In, Plain
<1>4. \A u, q, r : u \in {"ReadFwd", "ReadExFwd"} =>
        (Sent(y, u, q, r) <=> Sent(x, u, q, r))
  BY DEF Moves, Sent, Plain
<1>5. \A u, q : Waits(y, u, q) <=> Waits(x, u, q)
  BY <1>2 DEF Waits
<1>6. /\ ~Sharing(x) /\ x.l2 \in {"Modified", "ModToInv", "ModToSh"}
      /\ ~Leaves(x, p) /\ ~Serving(x, p) /\ ~Asking(x, p)
      /\ \A q \in L1s : ~In(x, "FwdAckData", q)
  BY OwnedCopy
<1>7. p \in x.dir /\ x.l2 = "ModToInv"
  BY <1>1, <1>2, <1>3, <1>4, <1>5, <1>6 DEF CopyInv, RecallInv, Owned, L1Buffered,
     Sharing
<1>8. LineTypes(y)
  BY <1>1, <1>2 DEF Moves, LineTypes, L1State, L1Replaceable, L2State, L2Transient,
     L2Buffered, L2Replaceable, Owned, L1Buffered, L1Transient
<1>9. \A q \in L1s : TokenInv(y, q)
  BY <1>1, <1>2, <1>3, <1>4, <1>5, <1>6, <1>7 DEF CopyInv, TokenInv, OneTokenInv,
     GoneInv, Asking, Serving, Queuing, Promised, Answering, Leaves, Owned, L1Buffered
<1>10. \A q \in L1s : OneTokenInv(y, q)
  BY <1>1, <1>2, <1>3, <1>4, <1>5, <1>6, <1>7 DEF CopyInv, TokenInv, OneTokenInv,
     Asking, Serving, Queuing, Promised, Answering
<1>11. \A q \in L1s : TrackInv(y, q)
  BY <1>1, <1>2, <1>3, <1>4, <1>5, <1>6, <1>7 DEF CopyInv, TrackInv, Asking, Serving,
     Queuing, Promised, Answering, L1Transient, Owned, L1Buffered
<1>12. \A q \in L1s : GoneInv(y, q)
  BY <1>1, <1>2, <1>3, <1>4, <1>5, <1>6, <1>7 DEF CopyInv, GoneInv, TokenInv, Leaves,
     Asking, Serving, Queuing, Promised, Answering, L1Buffered, Readable, Owned
<1>13. \A q \in L1s : AckInv(y, q)
  BY <1>1, <1>2, <1>3, <1>4, <1>5, <1>6, <1>7 DEF CopyInv, AckInv, Leaves, L1Buffered,
     Owned
<1>14. \A q \in L1s : RecallInv(y, q)
  BY <1>1, <1>2, <1>3, <1>4, <1>5, <1>6, <1>7 DEF CopyInv, RecallInv, Leaves,
     L1Buffered, Queuing, Owned
<1>15. \A q \in L1s : EntryInv(y, q)
  BY <1>1, <1>2, <1>3, <1>4, <1>5, <1>6, <1>7 DEF CopyInv, EntryInv, Leaves, Present,
     Readable, Owes, Serving, Queuing, Promised, Answering, Owned, L1Buffered
<1>16. \A q \in x.dir : Recalled(x, q) => Recalled(y, q)
  BY <1>1, <1>2, <1>3, <1>4, <1>5, <1>6, <1>7 DEF LineTypes, Recalled, Leaves,
     L1Buffered, Owned, Readable, CopyInv, GoneInv
<1>17. HomeInv(y)
  <2>1. /\ \A q \in L1s : In(y, "FwdAckData", q) => x.l2 = "ModToSh"
        /\ \A q, r \in L1s : In(y, "FwdAckData", q) /\ In(y, "FwdAckData", r) => q = r
    BY <1>1, <1>2, <1>3, <1>4, <1>5, <1>6, <1>7 DEF HomeInv
  <2> QED
    BY <1>1, <1>2, <1>16, <2>1, HomeKeeps DEF LineTypes
<1>18. SharingInv(y)
  BY <1>1, <1>2, <1>3, <1>4, <1>5, <1>6, <1>7 DEF SharingInv, Sharing, Owned, Owes
<1>19. OwningInv(y)
  BY <1>1, <1>2, <1>3, <1>4, <1>5, <1>6, <1>7 DEF OwningInv, Sharing, ChainInv, Holds,
     Expects, Owes, Owned, L1Buffered
<1>20. Fits(x, {Plain("WriteBack", p)})
  BY <1>1, <1>6 DEF Fits, Late, In, Plain, CopyInv, TokenInv, GoneInv, AckInv,
     RecallInv, Leaves, Readable, Owned
<1> QED
  BY <1>8, <1>9, <1>10, <1>11, <1>12, <1>13, <1>14, <1>15, <1>17, <1>18, <1>19, <1>20
     DEF LineInv, CopyInv

LEMMA InvalidateAsking ==
  ASSUME NEW x, NEW y, LineInv(x), NEW p \in L1s,
         In(x, "Invalidate", p),
         x.lines[p] = "ShToMod",
         ~Owes(x, "ReadFwd", p), ~Owes(x, "ReadExFwd", p), ~In(x, "UpgradeAck", p),
         Moves(x, y, p, "InvToMod", {Plain("Invalidate", p)}, {Plain("InvAck", p),
           Plain("ReadEx", p)})
  PROVE  LineInv(y) /\ Fits(x, {Plain("InvAck", p), Plain("ReadEx", p)})
<1>1. /\ LineTypes(x) /\ \A q \in L1s : CopyInv(x, q)
      /\ HomeInv(x) /\ SharingInv(x) /\ OwningInv(x)
  BY DEF LineInv
<1>2. /\ y.l2 = x.l2 /\ y.dir = x.dir /\ y.held = x.held
      /\ y.lines[p] = "InvToMod" /\ \A q \in L1s \ {p} : y.lines[q] = x.lines[q]
  BY <1>1 DEF Moves, LineTypes
<1>3. \A u, q : In(y, u, q) <=>
        (In(x, u, q) /\ ~(u = "Invalidate" /\ q = p))
         \/ (u \in {"InvAck", "ReadEx"} /\ q = p)
  BY DEF Moves, In, Plain
<1>4. \A u, q, r : u \in {"ReadFwd", "ReadExFwd"} =>
        (Sent(y, u, q, r) <=> Sent(x, u, q, r))
  BY DEF Moves, Sent, Plain
<1>5. \A u, q : Waits(y, u, q) <=> Waits(x, u, q)
  BY <1>2 DEF Waits
<1>6. /\ Sharing(x) /\ p \in x.dir /\ ~Leaves(x, p)
      /\ x.l2 \in {"Shared", "ShToMod", "ShToInv", "ModToSh"}
  BY SharedCopy
<1>7. x.l2 \in {"ShToMod", "ShToInv"} /\ ~Serving(x, p)
  BY <1>1, <1>2, <1>3, <1>4, <1>5, <1>6 DEF CopyInv, RecallInv, TokenInv, Serving,
     Queuing, Promised, Answering
<1>8. LineTypes(y)
  BY <1>1, <1>2 DEF Moves, LineTypes, L1State, L1Replaceable, L2State, L2Transient,
     L2Buffered, L2Replaceable, Owned, L1Buffered, L1Transient
<1>9. \A q \in L1s : TokenInv(y, q)
  BY <1>1, <1>2, <1>3, <1>4, <1>5, <1>6, <1>7 DEF CopyInv, TokenInv, OneTokenInv,
     GoneInv, Asking, Serving, Queuing, Promised, Answering, Leaves, Owned, L1Buffered
<1>10. \A q \in L1s : OneTokenInv(y, q)
  BY <1>1, <1>2, <1>3, <1>4, <1>5, <1>6, <1>7 DEF CopyInv, TokenInv, OneTokenInv,
     Asking, Serving, Queuing, Promised, Answering
<1>11. \A q \in L1s : TrackInv(y, q)
  BY <1>1, <1>2, <1>3, <1>4, <1>5, <1>6, <1>7 DEF CopyInv, TrackInv, Asking, Serving,
     Queuing, Promised, Answering, L1Transient, Owned, L1Buffered
<1>12. \A q \in L1s : GoneInv(y, q)
  BY <1>1, <1>2, <1>3, <1>4, <1>5, <1>6, <1>7 DEF CopyInv, GoneInv, TokenInv, Leaves,
     Asking, Serving, Queuing, Promised, Answering, L1Buffered, Readable, Owned
<1>13. \A q \in L1s : AckInv(y, q)
  BY <1>1, <1>2, <1>3, <1>4, <1>5, <1>6, <1>7 DEF CopyInv, AckInv, Leaves, L1Buffered,
     Owned
<1>14. \A q \in L1s : RecallInv(y, q)
  BY <1>1, <1>2, <1>3, <1>4, <1>5, <1>6, <1>7 DEF CopyInv, RecallInv, Leaves,
     L1Buffered, Queuing, Owned
<1>15. \A q \in L1s : EntryInv(y, q)
  BY <1>1, <1>2, <1>3, <1>4, <1>5, <1>6, <1>7 DEF CopyInv, EntryInv, Leaves, Present,
     Readable, Owes, Serving, Queuing, Promised, Answering, Owned, L1Buffered
<1>16. \A q \in x.dir : Recalled(x, q) => Recalled(y, q)
  BY <1>1, <1>2, <1>3, <1>4, <1>5, <1>6, <1>7 DEF LineTypes, Recalled, Leaves,
     L1Buffered, Owned, Readable, CopyInv, GoneInv
<1>17. HomeInv(y)
  <2>1. /\ \A q \in L1s : In(y, "FwdAckData", q) => x.l2 = "ModToSh"
        /\ \A q, r \in L1s : In(y, "FwdAckData", q) /\ In(y, "FwdAckData", r) => q = r
    BY <1>1, <1>2, <1>3, <1>4, <1>5, <1>6, <1>7 DEF HomeInv
  <2> QED
    BY <1>1, <1>2, <1>16, <2>1, HomeKeeps DEF LineTypes
<1>18. SharingInv(y)
  BY <1>1, <1>2, <1>3, <1>4, <1>5, <1>6, <1>7 DEF SharingInv, Sharing, Owned, Owes
<1>19. OwningInv(y)
  BY <1>1, <1>2, <1>3, <1>4, <1>5, <1>6, <1>7 DEF OwningInv, Sharing, ChainInv, Holds,
     Expects, Owes, Owned, L1Buffered
<1>20. Fits(x, {Plain("InvAck", p), Plain("ReadEx", p)})
  BY <1>1 DEF Fits, Late, In, Plain, CopyInv, TokenInv, GoneInv, AckInv, RecallInv,
     Leaves, Readable, Owned
<1> QED
  BY <1>8, <1>9, <1>10, <1>11, <1>12, <1>13, <1>14, <1>15, <1>17, <1>18, <1>19, <1>20
     DEF LineInv, CopyInv

(* The message that frees a write-back buffer: nothing of the line is left in p. *)
LEMMA ReleaseLine ==
  ASSUME NEW x, NEW y, LineInv(x), NEW p \in L1s,
    NEW t \in {"Invalidate", "ReplaceAck", "WriteBackAck"},
         In(x, t, p),
         x.lines[p] \in L1Buffered,
         ~Owes(x, "ReadFwd", p), ~Owes(x, "ReadExFwd", p), ~In(x, "UpgradeAck", p),
         Moves(x, y, p, "NotPresent", {Plain(t, p)}, {})
  PROVE  LineInv(y)
<1>1. /\ LineTypes(x) /\ \A q \in L1s : CopyInv(x, q)
      /\ HomeInv(x) /\ SharingInv(x) /\ OwningInv(x)
  BY DEF LineInv
<1>2. /\ y.l2 = x.l2 /\ y.dir = x.dir /\ y.held = x.held
      /\ y.lines[p] = "NotPresent" /\ \A q \in L1s \ {p} : y.lines[q] = x.lines[q]
  BY <1>1 DEF Moves, LineTypes
<1>3. \A u, q : In(y, u, q) <=> In(x, u, q) /\ ~(u = t /\ q = p)
  BY DEF Moves, In, Plain
<1>4. \A u, q, r : u \in {"ReadFwd", "ReadExFwd"} =>
        (Sent(y, u, q, r) <=> Sent(x, u, q, r))
  BY DEF Moves, Sent, Plain
<1>5. \A u, q : Waits(y, u, q) <=> Waits(x, u, q)
  BY <1>2 DEF Waits
<1>6. In(x, "WriteBack", p) => x.l2 = "ModToInv"
  BY <1>1, <1>2, <1>3, <1>4, <1>5 DEF CopyInv, RecallInv, AckInv, GoneInv, Leaves,
     L1Buffered, SharingInv, Sharing, HomeInv
<1>7. LineTypes(y)
  BY <1>1, <1>2 DEF Moves, LineTypes, L1State, L1Replaceable, L2State, L2Transient,
     L2Buffered, L2Replaceable, Owned, L1Buffered, L1Transient
<1>8. \A q \in L1s : TokenInv(y, q)
  BY <1>1, <1>2, <1>3, <1>4, <1>5, <1>6 DEF CopyInv, TokenInv, OneTokenInv, GoneInv,
     Asking, Serving, Queuing, Promised, Answering, Leaves, Owned, L1Buffered
<1>9. \A q \in L1s : OneTokenInv(y, q)
  BY <1>1, <1>2, <1>3, <1>4, <1>5, <1>6 DEF CopyInv, TokenInv, OneTokenInv, Asking,
     Serving, Queuing, Promised, Answering
<1>10. \A q \in L1s : TrackInv(y, q)
  BY <1>1, <1>2, <1>3, <1>4, <1>5, <1>6 DEF CopyInv, TrackInv, Asking, Serving,
      Queuing,
     Promised, Answering, L1Transient, Owned, L1Buffered
<1>11. \A q \in L1s : GoneInv(y, q)
  BY <1>1, <1>2, <1>3, <1>4, <1>5, <1>6 DEF CopyInv, GoneInv, TokenInv, Leaves,
      Asking,
     Serving, Queuing, Promised, Answering, L1Buffered, Readable, Owned, AckInv,
     RecallInv, EntryInv, Present
<1>12. \A q \in L1s : AckInv(y, q)
  BY <1>1, <1>2, <1>3, <1>4, <1>5, <1>6 DEF CopyInv, AckInv, Leaves, L1Buffered, Owned
<1>13. \A q \in L1s : RecallInv(y, q)
  BY <1>1, <1>2, <1>3, <1>4, <1>5, <1>6 DEF CopyInv, RecallInv, Leaves, L1Buffered,
     Queuing, Owned, AckInv
<1>14. \A q \in L1s : EntryInv(y, q)
  BY <1>1, <1>2, <1>3, <1>4, <1>5, <1>6 DEF CopyInv, EntryInv, Leaves, Present,
     Readable, Owes, Serving, Queuing, Promised, Answering, Owned, L1Buffered
<1>15. \A q \in x.dir : Recalled(x, q) => Recalled(y, q)
  BY <1>1, <1>2, <1>3, <1>4, <1>5, <1>6 DEF LineTypes, Recalled, Leaves, L1Buffered,
     CopyInv, GoneInv, AckInv, RecallInv, TokenInv, EntryInv, Present, Readable,
     Serving, Queuing, Promised, Answering
<1>16. HomeInv(y)
  <2>1. /\ \A q \in L1s : In(y, "FwdAckData", q) => x.l2 = "ModToSh"
        /\ \A q, r \in L1s : In(y, "FwdAckData", q) /\ In(y, "FwdAckData", r) => q = r
    BY <1>1, <1>2, <1>3, <1>4, <1>5, <1>6 DEF HomeInv
  <2> QED
    BY <1>1, <1>2, <1>15, <2>1, HomeKeeps DEF LineTypes
<1>17. SharingInv(y)
  BY <1>1, <1>2, <1>3, <1>4, <1>5, <1>6 DEF SharingInv, Sharing, Owned, Owes
<1>18. OwningInv(y)
  <2> SUFFICES ASSUME ~Sharing(y)
               PROVE  \E k \in [L1s -> Int], o \in L1s : ChainInv(y, k, o)
    BY DEF OwningInv
  <2>1. ~Sharing(x)
    BY <1>1, <1>2, <1>3, <1>4, <1>5, <1>6 DEF Sharing
  <2>2. PICK k \in [L1s -> Int], o \in L1s : ChainInv(x, k, o)
    BY <2>1, <1>1 DEF OwningInv
  <2>3. ChainInv(y, k, o)
    BY <2>2, <1>1, <1>2, <1>3, <1>4, <1>5, <1>6 DEF ChainInv, Holds, Expects, Owes,
       Owned, Sharing
  <2> QED
    BY <2>3
<1> QED
  BY <1>7, <1>8, <1>9, <1>10, <1>11, <1>12, <1>13, <1>14, <1>16, <1>17, <1>18
     DEF LineInv, CopyInv

(* A forward to a sharer, to the owner, and the hand-over of the right to write. *)
LEMMA ForwardShared ==
  ASSUME NEW x, NEW y, LineInv(x), NEW p \in L1s, NEW h \in L1s,
         Sent(x, "ReadFwd", p, h),
         x.lines[p] \in {"Shared", "ShToMod", "ShToInv"},
         ~In(x, "UpgradeAck", p),
         Moves(x, y, p, x.lines[p], {<<"ReadFwd", p, h>>}, {Plain("DataShared", h)})
  PROVE  LineInv(y) /\ Fits(x, {Plain("DataShared", h)})
<1>1. /\ LineTypes(x) /\ \A q \in L1s : CopyInv(x, q)
      /\ HomeInv(x) /\ SharingInv(x) /\ OwningInv(x)
  BY DEF LineInv
<1>2. /\ y.l2 = x.l2 /\ y.dir = x.dir /\ y.held = x.held
      /\ y.lines[p] = x.lines[p] /\ \A q \in L1s \ {p} : y.lines[q] = x.lines[q]
  BY <1>1 DEF Moves, LineTypes
<1>3. \A u, q : In(y, u, q) <=>
        (In(x, u, q) /\ ~(u = "ReadFwd" /\ q = p /\ q = h))
         \/ (u = "DataShared" /\ q = h)
  BY DEF Moves, In, Plain
<1>4. \A u, q, r : u \in {"ReadFwd", "ReadExFwd"} =>
        (Sent(y, u, q, r) <=> Sent(x, u, q, r) /\ ~(u = "ReadFwd" /\ q = p /\ r = h))
  BY DEF Moves, Sent, Plain
<1>5. \A u, q : Waits(y, u, q) <=> Waits(x, u, q)
  BY <1>2 DEF Waits
<1>6. Sharing(x)
  BY <1>1, <1>2, <1>3, <1>4, <1>5 DEF CopyInv, TokenInv, GoneInv, Leaves, OwningInv,
     ChainInv, Owes, Holds, Expects, Owned, Sharing, LineTypes, L2State, L2Transient,
     L2Buffered, L2Replaceable
<1>7. LineTypes(y)
  BY <1>1, <1>2 DEF Moves, LineTypes, L1State, L1Replaceable, L2State, L2Transient,
     L2Buffered, L2Replaceable, Owned, L1Buffered, L1Transient
<1>8. \A q \in L1s : TokenInv(y, q)
  BY <1>1, <1>2, <1>3, <1>4, <1>5, <1>6 DEF CopyInv, TokenInv, OneTokenInv, GoneInv,
     Asking, Serving, Queuing, Promised, Answering, Leaves, Owned, L1Buffered
<1>9. \A q \in L1s : OneTokenInv(y, q)
  BY <1>1, <1>2, <1>3, <1>4, <1>5, <1>6 DEF CopyInv, TokenInv, OneTokenInv, Asking,
     Serving, Queuing, Promised, Answering
<1>10. \A q \in L1s : TrackInv(y, q)
  BY <1>1, <1>2, <1>3, <1>4, <1>5, <1>6 DEF CopyInv, TrackInv, Asking, Serving,
      Queuing,
     Promised, Answering, L1Transient, Owned, L1Buffered
<1>11. \A q \in L1s : GoneInv(y, q)
  BY <1>1, <1>2, <1>3, <1>4, <1>5, <1>6 DEF CopyInv, GoneInv, TokenInv, Leaves,
      Asking,
     Serving, Queuing, Promised, Answering, L1Buffered, Readable, Owned
<1>12. \A q \in L1s : AckInv(y, q)
  BY <1>1, <1>2, <1>3, <1>4, <1>5, <1>6 DEF CopyInv, AckInv, Leaves, L1Buffered, Owned
<1>13. \A q \in L1s : RecallInv(y, q)
  BY <1>1, <1>2, <1>3, <1>4, <1>5, <1>6 DEF CopyInv, RecallInv, Leaves, L1Buffered,
     Queuing, Owned
<1>14. \A q \in L1s : EntryInv(y, q)
  BY <1>1, <1>2, <1>3, <1>4, <1>5, <1>6 DEF CopyInv, EntryInv, Leaves, Present,
     Readable, Owes, Serving, Queuing, Promised, Answering, Owned, L1Buffered
<1>15. \A q \in x.dir : Recalled(x, q) => Recalled(y, q)
  BY <1>1, <1>2, <1>3, <1>4, <1>5, <1>6 DEF LineTypes, Recalled, Leaves, L1Buffered,
     Owned, Readable, CopyInv, GoneInv
<1>16. HomeInv(y)
  <2>1. /\ \A q \in L1s : In(y, "FwdAckData", q) => x.l2 = "ModToSh"
        /\ \A q, r \in L1s : In(y, "FwdAckData", q) /\ In(y, "FwdAckData", r) => q = r
    BY <1>1, <1>2, <1>3, <1>4, <1>5, <1>6 DEF HomeInv
  <2> QED
    BY <1>1, <1>2, <1>15, <2>1, HomeKeeps DEF LineTypes
<1>17. SharingInv(y)
  BY <1>1, <1>2, <1>3, <1>4, <1>5, <1>6 DEF SharingInv, Sharing, Owned, Owes
<1>18. OwningInv(y)
  BY <1>1, <1>2, <1>3, <1>4, <1>5, <1>6 DEF OwningInv, Sharing
<1>19. Fits(x, {Plain("DataShared", h)})
  BY <1>1 DEF Fits, Late, In, Plain, CopyInv, OneTokenInv, Promised, Answering, Sent
<1> QED
  BY <1>7, <1>8, <1>9, <1>10, <1>11, <1>12, <1>13, <1>14, <1>16, <1>17, <1>18, <1>19
     DEF LineInv, CopyInv

LEMMA ForwardOwned ==
  ASSUME NEW x, NEW y, LineInv(x), NEW p \in L1s, NEW h \in L1s, NEW s,
         Sent(x, "ReadFwd", p, h),
         \/ x.lines[p] \in Owned /\ s = "Shared"
         \/ x.lines[p] = "ModToInv" /\ s = "ModToInv",
         ~In(x, "UpgradeAck", p),
         Moves(x, y, p, s, {<<"ReadFwd", p, h>>}, {Plain("DataShared", h),
           Plain("FwdAckData", p)})
  PROVE  LineInv(y) /\ Fits(x, {Plain("DataShared", h), Plain("FwdAckData", p)})
<1>1. /\ LineTypes(x) /\ \A q \in L1s : CopyInv(x, q)
      /\ HomeInv(x) /\ SharingInv(x) /\ OwningInv(x)
  BY DEF LineInv
<1>2. /\ y.l2 = x.l2 /\ y.dir = x.dir /\ y.held = x.held
      /\ y.lines[p] = s /\ \A q \in L1s \ {p} : y.lines[q] = x.lines[q]
  BY <1>1 DEF Moves, LineTypes
<1>3. \A u, q : In(y, u, q) <=>
        (In(x, u, q) /\ ~(u = "ReadFwd" /\ q = p /\ q = h))
            \/ (u = "DataShared" /\ q = h)
         \/ (u = "FwdAckData" /\ q = p)
  BY DEF Moves, In, Plain
<1>4. \A u, q, r : u \in {"ReadFwd", "ReadExFwd"} =>
        (Sent(y, u, q, r) <=> Sent(x, u, q, r) /\ ~(u = "ReadFwd" /\ q = p /\ r = h))
  BY DEF Moves, Sent, Plain
<1>5. \A u, q : Waits(y, u, q) <=> Waits(x, u, q)
  BY <1>2 DEF Waits
<1>6. ~Sharing(x)
  BY <1>1, <1>2, <1>3, <1>4, <1>5 DEF SharingInv, Owes
<1>7. PICK k \in [L1s -> Int], o \in L1s : ChainInv(x, k, o)
  BY <1>1, <1>2, <1>3, <1>4, <1>5, <1>6 DEF OwningInv
<1>8. x.l2 = "ModToSh" /\ p = o
  BY <1>1, <1>2, <1>3, <1>4, <1>5, <1>6, <1>7 DEF ChainInv, Owes, LineTypes, L2State,
     L2Transient, L2Buffered, L2Replaceable, Sharing
<1>9. \A q \in L1s : ~In(x, "FwdAckData", q)
  BY <1>1, <1>2, <1>3, <1>4, <1>5, <1>6, <1>7, <1>8 DEF Sharing
<1>10. Sharing(y)
  BY <1>1, <1>2, <1>3, <1>4, <1>5, <1>6, <1>7, <1>8, <1>9 DEF Sharing
<1>11. Holds(x, p) /\ \A q, r \in L1s : ~Sent(x, "ReadExFwd", q, r)
  BY <1>1, <1>2, <1>3, <1>4, <1>5, <1>6, <1>7, <1>8, <1>9, <1>10 DEF Holds, ChainInv,
     Owes
<1>12. LineTypes(y)
  BY <1>1, <1>2 DEF Moves, LineTypes, L1State, L1Replaceable, L2State, L2Transient,
     L2Buffered, L2Replaceable, Owned, L1Buffered, L1Transient
<1>13. \A q \in L1s : TokenInv(y, q)
  BY <1>1, <1>2, <1>3, <1>4, <1>5, <1>6, <1>7, <1>8, <1>9, <1>10, <1>11 DEF CopyInv,
     TokenInv, OneTokenInv, GoneInv, Asking, Serving, Queuing, Promised, Answering,
     Leaves, Owned, L1Buffered
<1>14. \A q \in L1s : OneTokenInv(y, q)
  BY <1>1, <1>2, <1>3, <1>4, <1>5, <1>6, <1>7, <1>8, <1>9, <1>10, <1>11 DEF CopyInv,
     TokenInv, OneTokenInv, Asking, Serving, Queuing, Promised, Answering
<1>15. \A q \in L1s : TrackInv(y, q)
  BY <1>1, <1>2, <1>3, <1>4, <1>5, <1>6, <1>7, <1>8, <1>9, <1>10, <1>11 DEF CopyInv,
     TrackInv, Asking, Serving, Queuing, Promised, Answering, L1Transient, Owned,
     L1Buffered
<1>16. \A q \in L1s : GoneInv(y, q)
  BY <1>1, <1>2, <1>3, <1>4, <1>5, <1>6, <1>7, <1>8, <1>9, <1>10, <1>11 DEF CopyInv,
     GoneInv, TokenInv, Leaves, Asking, Serving, Queuing, Promised, Answering,
     L1Buffered, Readable, Owned
<1>17. \A q \in L1s : AckInv(y, q)
  BY <1>1, <1>2, <1>3, <1>4, <1>5, <1>6, <1>7, <1>8, <1>9, <1>10, <1>11 DEF CopyInv,
     AckInv, Leaves, L1Buffered, Owned
<1>18. \A q \in L1s : RecallInv(y, q)
  BY <1>1, <1>2, <1>3, <1>4, <1>5, <1>6, <1>7, <1>8, <1>9, <1>10, <1>11 DEF CopyInv,
     RecallInv, Leaves, L1Buffered, Queuing, Owned
<1>19. \A q \in L1s : EntryInv(y, q)
  BY <1>1, <1>2, <1>3, <1>4, <1>5, <1>6, <1>7, <1>8, <1>9, <1>10, <1>11 DEF CopyInv,
     EntryInv, Leaves, Present, Readable, Owes, Serving, Queuing, Promised, Answering,
     Owned, L1Buffered
<1>20. \A q \in x.dir : Recalled(x, q) => Recalled(y, q)
  BY <1>1, <1>2, <1>3, <1>4, <1>5, <1>6, <1>7, <1>8, <1>9, <1>10, <1>11 DEF LineTypes,
     Recalled, Leaves, L1Buffered, Owned, Readable, CopyInv, GoneInv
<1>21. HomeInv(y)
  <2>1. /\ \A q \in L1s : In(y, "FwdAckData", q) => x.l2 = "ModToSh"
        /\ \A q, r \in L1s : In(y, "FwdAckData", q) /\ In(y, "FwdAckData", r) => q = r
    BY <1>1, <1>2, <1>3, <1>4, <1>5, <1>6, <1>7, <1>8, <1>9, <1>10, <1>11 DEF HomeInv
  <2> QED
    BY <1>1, <1>2, <1>20, <2>1, HomeKeeps DEF LineTypes
<1>22. SharingInv(y)
  BY <1>1, <1>2, <1>3, <1>4, <1>5, <1>6, <1>7, <1>8, <1>9, <1>10, <1>11
      DEF SharingInv,
     ChainInv, Owes, Holds, CopyInv, EntryInv, TokenInv, GoneInv, Leaves, Present,
     Serving, Queuing, Promised, Answering, Owned, Readable
<1>23. OwningInv(y)
  BY <1>1, <1>2, <1>3, <1>4, <1>5, <1>6, <1>7, <1>8, <1>9, <1>10, <1>11 DEF OwningInv
<1>24. Fits(x, {Plain("DataShared", h), Plain("FwdAckData", p)})
  BY <1>1, <1>9 DEF Fits, Late, In, Plain, CopyInv, OneTokenInv, Promised, Answering,
     Sent, HomeInv, Sharing
<1> QED
  BY <1>12, <1>13, <1>14, <1>15, <1>16, <1>17, <1>18, <1>19, <1>21, <1>22, <1>23,
      <1>24
     DEF LineInv, CopyInv

LEMMA HandOn ==
  ASSUME NEW x, NEW y, LineInv(x), NEW p \in L1s, NEW h \in L1s, NEW s,
         Sent(x, "ReadExFwd", p, h),
         \/ x.lines[p] \in Owned /\ s = "Invalid"
         \/ x.lines[p] = "ModToInv" /\ s = "ModToInv",
         ~In(x, "UpgradeAck", p),
         Moves(x, y, p, s, {<<"ReadExFwd", p, h>>}, {Plain("DataExclusive", h)})
  PROVE  LineInv(y) /\ Fits(x, {Plain("DataExclusive", h)})
<1>1. /\ LineTypes(x) /\ \A q \in L1s : CopyInv(x, q)
      /\ HomeInv(x) /\ SharingInv(x) /\ OwningInv(x)
  BY DEF LineInv
<1>2. /\ y.l2 = x.l2 /\ y.dir = x.dir /\ y.held = x.held
      /\ y.lines[p] = s /\ \A q \in L1s \ {p} : y.lines[q] = x.lines[q]
  BY <1>1 DEF Moves, LineTypes
<1>3. \A u, q : In(y, u, q) <=>
        (In(x, u, q) /\ ~(u = "ReadExFwd" /\ q = p /\ q = h))
         \/ (u = "DataExclusive" /\ q = h)
  BY DEF Moves, In, Plain
<1>4. \A u, q, r : u \in {"ReadFwd", "ReadExFwd"} =>
        (Sent(y, u, q, r) <=> Sent(x, u, q, r)
            /\ ~(u = "ReadExFwd" /\ q = p /\ r = h))
  BY DEF Moves, Sent, Plain
<1>5. \A u, q : Waits(y, u, q) <=> Waits(x, u, q)
  BY <1>2 DEF Waits
<1>6. ~Sharing(x)
  BY <1>1, <1>2, <1>3, <1>4, <1>5 DEF SharingInv, Owes
<1>7. PICK k \in [L1s -> Int], o \in L1s : ChainInv(x, k, o)
  BY <1>1, <1>2, <1>3, <1>4, <1>5, <1>6 DEF OwningInv
<1>8. Holds(x, p) /\ p # h /\ k[p] < k[h] /\ p \notin x.dir
  BY <1>1, <1>2, <1>3, <1>4, <1>5, <1>6, <1>7 DEF Holds, ChainInv, Owes
<1>9. LineTypes(y)
  BY <1>1, <1>2 DEF Moves, LineTypes, L1State, L1Replaceable, L2State, L2Transient,
     L2Buffered, L2Replaceable, Owned, L1Buffered, L1Transient
<1>10. \A q \in L1s : TokenInv(y, q)
  BY <1>1, <1>2, <1>3, <1>4, <1>5, <1>6, <1>7, <1>8 DEF CopyInv, TokenInv,
      OneTokenInv,
     GoneInv, Asking, Serving, Queuing, Promised, Answering, Leaves, Owned, L1Buffered
<1>11. \A q \in L1s : OneTokenInv(y, q)
  BY <1>1, <1>2, <1>3, <1>4, <1>5, <1>6, <1>7, <1>8 DEF CopyInv, TokenInv,
      OneTokenInv,
     Asking, Serving, Queuing, Promised, Answering
<1>12. \A q \in L1s : TrackInv(y, q)
  BY <1>1, <1>2, <1>3, <1>4, <1>5, <1>6, <1>7, <1>8 DEF CopyInv, TrackInv, Asking,
     Serving, Queuing, Promised, Answering, L1Transient, Owned, L1Buffered
<1>13. \A q \in L1s : GoneInv(y, q)
  BY <1>1, <1>2, <1>3, <1>4, <1>5, <1>6, <1>7, <1>8 DEF CopyInv, GoneInv, TokenInv,
     Leaves, Asking, Serving, Queuing, Promised, Answering, L1Buffered, Readable,
         Owned
<1>14. \A q \in L1s : AckInv(y, q)
  BY <1>1, <1>2, <1>3, <1>4, <1>5, <1>6, <1>7, <1>8 DEF CopyInv, AckInv, Leaves,
     L1Buffered, Owned
<1>15. \A q \in L1s : RecallInv(y, q)
  BY <1>1, <1>2, <1>3, <1>4, <1>5, <1>6, <1>7, <1>8 DEF CopyInv, RecallInv, Leaves,
     L1Buffered, Queuing, Owned
<1>16. \A q \in L1s : EntryInv(y, q)
  BY <1>1, <1>2, <1>3, <1>4, <1>5, <1>6, <1>7, <1>8 DEF CopyInv, EntryInv, Leaves,
     Present, Readable, Owes, Serving, Queuing, Promised, Answering, Owned,
         L1Buffered,
     TokenInv
<1>17. \A q \in x.dir : Recalled(x, q) => Recalled(y, q)
  BY <1>1, <1>2, <1>3, <1>4, <1>5, <1>6, <1>7, <1>8 DEF LineTypes, Recalled, Leaves,
     L1Buffered, Owned, Readable, CopyInv, GoneInv
<1>18. HomeInv(y)
  <2>1. /\ \A q \in L1s : In(y, "FwdAckData", q) => x.l2 = "ModToSh"
        /\ \A q, r \in L1s : In(y, "FwdAckData", q) /\ In(y, "FwdAckData", r) => q = r
    BY <1>1, <1>2, <1>3, <1>4, <1>5, <1>6, <1>7, <1>8 DEF HomeInv
  <2> QED
    BY <1>1, <1>2, <1>17, <2>1, HomeKeeps DEF LineTypes
<1>19. SharingInv(y)
  BY <1>1, <1>2, <1>3, <1>4, <1>5, <1>6, <1>7, <1>8 DEF SharingInv, Sharing, Owned,
      Owes
<1>20. OwningInv(y)
  <2>1. \A q \in L1s : Holds(x, q) => q = p
    BY <1>1, <1>2, <1>3, <1>4, <1>5, <1>6, <1>7, <1>8 DEF ChainInv
  <2>2. ~In(x, "DataExclusive", p) /\ ~Owes(y, "ReadFwd", p)
      /\ ~Owes(y, "ReadExFwd", p)
    BY <1>1, <1>2, <1>3, <1>4, <1>5, <1>6, <1>7, <1>8 DEF ChainInv, Owes, CopyInv,
       TokenInv, Owned
  <2>3. \A q \in L1s : Holds(y, q) => q = h
    BY <2>1, <2>2, <1>1, <1>2, <1>3, <1>4, <1>5, <1>6, <1>7, <1>8 DEF Holds, Owes,
        Owned
  <2>4. \A q \in L1s \ {p} : Expects(x, q) => Expects(y, q)
    BY <2>1, <1>1, <1>2, <1>3, <1>4, <1>5, <1>6, <1>7, <1>8 DEF Holds, Expects
  <2>5. \A q, r \in L1s : Sent(y, "ReadExFwd", q, r) =>
         /\ Sent(x, "ReadExFwd", q, r) /\ k[q] < k[r] /\ k[r] <= k[o] /\ Expects(y, q)
         /\ q \notin x.dir /\ k[h] <= k[q]
    BY <2>4, <1>1, <1>2, <1>3, <1>4, <1>5, <1>6, <1>7, <1>8 DEF ChainInv
  <2>6. p # o /\ k[h] <= k[o]
    BY <1>1, <1>2, <1>3, <1>4, <1>5, <1>6, <1>7, <1>8 DEF ChainInv
  <2>7. \A q \in L1s : Expects(y, q) => Expects(x, q)
    BY <2>3, <1>1, <1>2, <1>3, <1>4, <1>5, <1>6, <1>7, <1>8 DEF Expects
  <2>8. ChainInv(y, k, o)
    BY <2>7, <2>3, <2>4, <2>5, <2>6, <1>1, <1>2, <1>3, <1>4, <1>5, <1>6, <1>7, <1>8
       DEF ChainInv, Owes
  <2> QED
    BY <2>8 DEF OwningInv
<1>21. Fits(x, {Plain("DataExclusive", h)})
  BY <1>1 DEF Fits, Late, In, Plain, CopyInv, OneTokenInv, Promised, Answering, Sent
<1> QED
  BY <1>9, <1>10, <1>11, <1>12, <1>13, <1>14, <1>15, <1>16, <1>18, <1>19, <1>20, <1>21
     DEF LineInv, CopyInv

(* The L2 sends for a line. *)
LEMMA MissLine ==
  ASSUME NEW x, NEW y, LineInv(x), NEW p \in L1s, NEW t \in {"Read", "ReadEx"},
         In(x, t, p),
         x.l2 = "NotPresent",
         Serves(x, y, "InvToMod", {p}, {<<t, p>>}, {Plain(t, p)}, {})
  PROVE  LineInv(y)
<1>1. /\ LineTypes(x) /\ \A q \in L1s : CopyInv(x, q)
      /\ HomeInv(x) /\ SharingInv(x) /\ OwningInv(x)
  BY DEF LineInv
<1>2. /\ y.lines = x.lines /\ y.l2 = "InvToMod"
      /\ y.dir = {p} /\ y.held = {<<t, p>>}
  BY <1>1 DEF Serves, LineTypes
<1>3. \A u, q : In(y, u, q) <=> In(x, u, q) /\ ~(u = t /\ q = p)
  BY DEF Serves, In, Plain
<1>4. \A u, q, r : u \in {"ReadFwd", "ReadExFwd"} =>
        (Sent(y, u, q, r) <=> Sent(x, u, q, r))
  BY DEF Serves, Sent, Plain
<1>5. \A u, q : Waits(y, u, q) <=> u = t /\ q = p
  BY <1>2 DEF Waits
<1>6. Sharing(x) /\ Sharing(y)
  BY <1>1, <1>2, <1>3, <1>4, <1>5 DEF Sharing
<1>7. x.dir = {} /\ x.held = {}
  BY <1>1, <1>2, <1>3, <1>4, <1>5, <1>6 DEF HomeInv
<1>8. \A q \in L1s : ~In(x, "FwdAckData", q) /\ ~In(x, "InvAck", q)
  BY <1>1, <1>2, <1>3, <1>4, <1>5, <1>6, <1>7 DEF HomeInv, CopyInv, GoneInv
<1>9. \A u, q : ~Waits(x, u, q)
  BY <1>1, <1>2, <1>3, <1>4, <1>5, <1>6, <1>7, <1>8 DEF Waits
<1>10. LineTypes(y)
  BY <1>1, <1>2 DEF Serves, LineTypes, L1State, L1Replaceable, L2State, L2Transient,
     L2Buffered, L2Replaceable, Owned, L1Buffered, L1Transient
<1>11. \A q \in L1s : TokenInv(y, q)
  BY <1>1, <1>2, <1>3, <1>4, <1>5, <1>6, <1>7, <1>8, <1>9 DEF CopyInv, TokenInv,
     OneTokenInv, GoneInv, Asking, Serving, Queuing, Promised, Answering, Leaves,
         Owned,
     L1Buffered
<1>12. \A q \in L1s : OneTokenInv(y, q)
  BY <1>1, <1>2, <1>3, <1>4, <1>5, <1>6, <1>7, <1>8, <1>9 DEF CopyInv, TokenInv,
     OneTokenInv, Asking, Serving, Queuing, Promised, Answering, GoneInv, Leaves
<1>13. \A q \in L1s : TrackInv(y, q)
  BY <1>1, <1>2, <1>3, <1>4, <1>5, <1>6, <1>7, <1>8, <1>9 DEF CopyInv, TrackInv,
      Asking,
     Serving, Queuing, Promised, Answering, L1Transient, Owned, L1Buffered, TokenInv
<1>14. \A q \in L1s : GoneInv(y, q)
  BY <1>1, <1>2, <1>3, <1>4, <1>5, <1>6, <1>7, <1>8, <1>9 DEF CopyInv, GoneInv,
     TokenInv, Leaves, Asking, Serving, Queuing, Promised, Answering, L1Buffered,
     Readable, Owned
<1>15. \A q \in L1s : AckInv(y, q)
  BY <1>1, <1>2, <1>3, <1>4, <1>5, <1>6, <1>7, <1>8, <1>9 DEF CopyInv, AckInv, Leaves,
     L1Buffered, Owned, TokenInv
<1>16. \A q \in L1s : RecallInv(y, q)
  BY <1>1, <1>2, <1>3, <1>4, <1>5, <1>6, <1>7, <1>8, <1>9 DEF CopyInv, RecallInv,
     Leaves, L1Buffered, Queuing, Owned, TokenInv
<1>17. \A q \in L1s : EntryInv(y, q)
  BY <1>1, <1>2, <1>3, <1>4, <1>5, <1>6, <1>7, <1>8, <1>9 DEF CopyInv, EntryInv,
      Leaves,
     Present, Readable, Owes, Serving, Queuing, Promised, Answering, Owned,
         L1Buffered,
     TokenInv
<1>18. HomeInv(y)
  BY <1>1, <1>2, <1>3, <1>4, <1>5, <1>6, <1>7, <1>8, <1>9 DEF HomeInv, Recalled,
      Leaves,
     L1Buffered
<1>19. SharingInv(y)
  BY <1>1, <1>2, <1>3, <1>4, <1>5, <1>6, <1>7, <1>8, <1>9 DEF SharingInv, Sharing,
     Owned, Owes, CopyInv, TokenInv
<1>20. OwningInv(y)
  BY <1>1, <1>2, <1>3, <1>4, <1>5, <1>6, <1>7, <1>8, <1>9 DEF OwningInv, Sharing,
     ChainInv, Holds, Expects, Owes, Owned, L1Buffered
<1> QED
  BY <1>10, <1>11, <1>12, <1>13, <1>14, <1>15, <1>16, <1>17, <1>18, <1>19, <1>20
     DEF LineInv, CopyInv

(* A line of the L2 gives up its way: its sharers lose their copies. *)
LEMMA EvictHome ==
  ASSUME NEW x, NEW y, LineInv(x), NEW s,
         \/ x.l2 = "Shared" /\ s = "ShToInv"
         \/ x.l2 = "Modified" /\ s = "ModToInv",
         x.dir # {},
         Serves(x, y, s, x.dir, x.held, {}, {Plain("Invalidate", q) : q \in x.dir})
  PROVE  LineInv(y) /\ Fits(x, {Plain("Invalidate", q) : q \in x.dir})
<1>1. /\ LineTypes(x) /\ \A q \in L1s : CopyInv(x, q)
      /\ HomeInv(x) /\ SharingInv(x) /\ OwningInv(x)
  BY DEF LineInv
<1>2. /\ y.lines = x.lines /\ y.l2 = s
      /\ y.dir = x.dir /\ y.held = x.held
  BY <1>1 DEF Serves, LineTypes
<1>3. \A u, q : In(y, u, q) <=> In(x, u, q) \/ (u = "Invalidate" /\ q \in x.dir)
  BY DEF Serves, In, Plain
<1>4. \A u, q, r : u \in {"ReadFwd", "ReadExFwd"} =>
        (Sent(y, u, q, r) <=> Sent(x, u, q, r))
  BY DEF Serves, Sent, Plain
<1>5. \A u, q : Waits(y, u, q) <=> Waits(x, u, q)
  BY <1>2 DEF Waits
<1>6. Sharing(x) <=> Sharing(y)
  BY <1>1, <1>2, <1>3, <1>4, <1>5 DEF Sharing
<1>7. \A q \in L1s : ~In(x, "FwdAckData", q) /\ ~In(x, "InvAck", q)
  BY <1>1, <1>2, <1>3, <1>4, <1>5, <1>6 DEF HomeInv, CopyInv, GoneInv
<1>8. x.held = {} /\ \A u, q : ~Waits(x, u, q)
  BY <1>1, <1>2, <1>3, <1>4, <1>5, <1>6, <1>7 DEF HomeInv, Waits
<1>9. LineTypes(y)
  BY <1>1, <1>2 DEF Serves, LineTypes, L1State, L1Replaceable, L2State, L2Transient,
     L2Buffered, L2Replaceable, Owned, L1Buffered, L1Transient
<1>10. \A q \in L1s : TokenInv(y, q)
  BY <1>1, <1>2, <1>3, <1>4, <1>5, <1>6, <1>7, <1>8 DEF CopyInv, TokenInv,
      OneTokenInv,
     GoneInv, Asking, Serving, Queuing, Promised, Answering, Leaves, Owned, L1Buffered
<1>11. \A q \in L1s : OneTokenInv(y, q)
  BY <1>1, <1>2, <1>3, <1>4, <1>5, <1>6, <1>7, <1>8 DEF CopyInv, TokenInv,
      OneTokenInv,
     Asking, Serving, Queuing, Promised, Answering, GoneInv, Leaves
<1>12. \A q \in L1s : TrackInv(y, q)
  BY <1>1, <1>2, <1>3, <1>4, <1>5, <1>6, <1>7, <1>8 DEF CopyInv, TrackInv, Asking,
     Serving, Queuing, Promised, Answering, L1Transient, Owned, L1Buffered, TokenInv
<1>13. \A q \in L1s : GoneInv(y, q)
  BY <1>1, <1>2, <1>3, <1>4, <1>5, <1>6, <1>7, <1>8 DEF CopyInv, GoneInv, TokenInv,
     Leaves, Asking, Serving, Queuing, Promised, Answering, L1Buffered, Readable,
         Owned
<1>14. \A q \in L1s : AckInv(y, q)
  BY <1>1, <1>2, <1>3, <1>4, <1>5, <1>6, <1>7, <1>8 DEF CopyInv, AckInv, Leaves,
     L1Buffered, Owned, TokenInv
<1>15. \A q \in L1s : RecallInv(y, q)
  BY <1>1, <1>2, <1>3, <1>4, <1>5, <1>6, <1>7, <1>8 DEF CopyInv, RecallInv, Leaves,
     L1Buffered, Queuing, Owned, TokenInv
<1>16. \A q \in L1s : EntryInv(y, q)
  BY <1>1, <1>2, <1>3, <1>4, <1>5, <1>6, <1>7, <1>8 DEF CopyInv, EntryInv, Leaves,
     Present, Readable, Owes, Serving, Queuing, Promised, Answering, Owned,
         L1Buffered,
     TokenInv
<1>17. HomeInv(y)
  BY <1>1, <1>2, <1>3, <1>4, <1>5, <1>6, <1>7, <1>8 DEF HomeInv, Recalled, Leaves,
     L1Buffered
<1>18. SharingInv(y)
  BY <1>1, <1>2, <1>3, <1>4, <1>5, <1>6, <1>7, <1>8 DEF SharingInv, Sharing, Owned,
     Owes, CopyInv, TokenInv
<1>19. OwningInv(y)
  <2> SUFFICES ASSUME ~Sharing(y)
               PROVE  \E k \in [L1s -> Int], o \in L1s : ChainInv(y, k, o)
    BY DEF OwningInv
  <2>1. ~Sharing(x)
    BY <1>1, <1>2, <1>3, <1>4, <1>5, <1>6, <1>7, <1>8 DEF Sharing
  <2>2. PICK k \in [L1s -> Int], o \in L1s : ChainInv(x, k, o)
    BY <2>1, <1>1 DEF OwningInv
  <2>3. ChainInv(y, k, o)
    BY <2>2, <1>1, <1>2, <1>3, <1>4, <1>5, <1>6, <1>7, <1>8 DEF ChainInv, Holds,
       Expects, Owes, Owned, Sharing
  <2> QED
    BY <2>3
<1>20. Fits(x, {Plain("Invalidate", q) : q \in x.dir})
  BY <1>1 DEF Fits, Late, In, Plain, CopyInv, OneTokenInv, Asking, Serving, Answering,
     Promised, Queuing, Sent, AckInv, RecallInv, LineTypes
<1> QED
  BY <1>9, <1>10, <1>11, <1>12, <1>13, <1>14, <1>15, <1>16, <1>17, <1>18, <1>19, <1>20
     DEF LineInv, CopyInv

LEMMA EvictUnused ==
  ASSUME NEW x, NEW y, LineInv(x), x.l2 = "Shared", x.dir = {},
         Serves(x, y, "NotPresent", {}, x.held, {}, {})
  PROVE  LineInv(y)
<1>1. /\ LineTypes(x) /\ \A q \in L1s : CopyInv(x, q)
      /\ HomeInv(x) /\ SharingInv(x) /\ OwningInv(x)
  BY DEF LineInv
<1>2. /\ y.lines = x.lines /\ y.l2 = "NotPresent"
      /\ y.dir = {} /\ y.held = x.held
  BY <1>1 DEF Serves, LineTypes
<1>3. \A u, q : In(y, u, q) <=> In(x, u, q)
  BY DEF Serves, In, Plain
<1>4. \A u, q, r : u \in {"ReadFwd", "ReadExFwd"} =>
        (Sent(y, u, q, r) <=> Sent(x, u, q, r))
  BY DEF Serves, Sent, Plain
<1>5. \A u, q : Waits(y, u, q) <=> Waits(x, u, q)
  BY <1>2 DEF Waits
<1>6. Sharing(x) /\ Sharing(y)
  BY <1>1, <1>2, <1>3, <1>4, <1>5 DEF Sharing
<1>7. x.held = {} /\ \A q \in L1s : ~In(x, "FwdAckData", q)
  BY <1>1, <1>2, <1>3, <1>4, <1>5, <1>6 DEF HomeInv
<1>8. LineTypes(y)
  BY <1>1, <1>2 DEF Serves, LineTypes, L1State, L1Replaceable, L2State, L2Transient,
     L2Buffered, L2Replaceable, Owned, L1Buffered, L1Transient
<1>9. \A q \in L1s : TokenInv(y, q)
  BY <1>1, <1>2, <1>3, <1>4, <1>5, <1>6, <1>7 DEF CopyInv, TokenInv, OneTokenInv,
     GoneInv, Asking, Serving, Queuing, Promised, Answering, Leaves, Owned, L1Buffered
<1>10. \A q \in L1s : OneTokenInv(y, q)
  BY <1>1, <1>2, <1>3, <1>4, <1>5, <1>6, <1>7 DEF CopyInv, TokenInv, OneTokenInv,
     Asking, Serving, Queuing, Promised, Answering, GoneInv, Leaves
<1>11. \A q \in L1s : TrackInv(y, q)
  BY <1>1, <1>2, <1>3, <1>4, <1>5, <1>6, <1>7 DEF CopyInv, TrackInv, Asking, Serving,
     Queuing, Promised, Answering, L1Transient, Owned, L1Buffered, TokenInv
<1>12. \A q \in L1s : GoneInv(y, q)
  BY <1>1, <1>2, <1>3, <1>4, <1>5, <1>6, <1>7 DEF CopyInv, GoneInv, TokenInv, Leaves,
     Asking, Serving, Queuing, Promised, Answering, L1Buffered, Readable, Owned
<1>13. \A q \in L1s : AckInv(y, q)
  BY <1>1, <1>2, <1>3, <1>4, <1>5, <1>6, <1>7 DEF CopyInv, AckInv, Leaves, L1Buffered,
     Owned, TokenInv
<1>14. \A q \in L1s : RecallInv(y, q)
  BY <1>1, <1>2, <1>3, <1>4, <1>5, <1>6, <1>7 DEF CopyInv, RecallInv, Leaves,
     L1Buffered, Queuing, Owned, TokenInv
<1>15. \A q \in L1s : EntryInv(y, q)
  BY <1>1, <1>2, <1>3, <1>4, <1>5, <1>6, <1>7 DEF CopyInv, EntryInv, Leaves, Present,
     Readable, Owes, Serving, Queuing, Promised, Answering, Owned, L1Buffered,
         TokenInv
<1>16. HomeInv(y)
  BY <1>1, <1>2, <1>3, <1>4, <1>5, <1>6, <1>7 DEF HomeInv, Recalled, Leaves,
      L1Buffered
<1>17. SharingInv(y)
  BY <1>1, <1>2, <1>3, <1>4, <1>5, <1>6, <1>7 DEF SharingInv, Sharing, Owned, Owes,
     CopyInv, TokenInv
<1>18. OwningInv(y)
  BY <1>1, <1>2, <1>3, <1>4, <1>5, <1>6, <1>7 DEF OwningInv, Sharing, ChainInv, Holds,
     Expects, Owes, Owned, L1Buffered
<1> QED
  BY <1>8, <1>9, <1>10, <1>11, <1>12, <1>13, <1>14, <1>15, <1>16, <1>17, <1>18
     DEF LineInv, CopyInv

(* A Read of a shared line, of one that has an owner, of one whose owner was
   already asked. *)

LEMMA ReadShared ==
  ASSUME NEW x, NEW y, LineInv(x), NEW p \in L1s,
         In(x, "Read", p),
         x.l2 = "Shared",
         Serves(x, y, "Shared", x.dir \union {p}, x.held, {Plain("Read", p)},
           {Plain("DataShared", p)})
  PROVE  LineInv(y) /\ Fits(x, {Plain("DataShared", p)})
<1>1. /\ LineTypes(x) /\ \A q \in L1s : CopyInv(x, q)
      /\ HomeInv(x) /\ SharingInv(x) /\ OwningInv(x)
  BY DEF LineInv
<1>2. /\ y.lines = x.lines /\ y.l2 = "Shared"
      /\ y.dir = x.dir \union {p} /\ y.held = x.held
  BY <1>1 DEF Serves, LineTypes
<1>3. \A u, q : In(y, u, q) <=>
        (In(x, u, q) /\ ~(u = "Read" /\ q = p)) \/ (u = "DataShared" /\ q = p)
  BY DEF Serves, In, Plain
<1>4. \A u, q, r : u \in {"ReadFwd", "ReadExFwd"} =>
        (Sent(y, u, q, r) <=> Sent(x, u, q, r))
  BY DEF Serves, Sent, Plain
<1>5. \A u, q : Waits(y, u, q) <=> Waits(x, u, q)
  BY <1>2 DEF Waits
<1>6. Sharing(x) /\ Sharing(y)
  BY <1>1, <1>2, <1>3, <1>4, <1>5 DEF Sharing
<1>7. \A q \in L1s : ~In(x, "FwdAckData", q) /\ ~In(x, "InvAck", q)
  BY <1>1, <1>2, <1>3, <1>4, <1>5, <1>6 DEF HomeInv, CopyInv, GoneInv
<1>8. LineTypes(y)
  BY <1>1, <1>2 DEF Serves, LineTypes, L1State, L1Replaceable, L2State, L2Transient,
     L2Buffered, L2Replaceable, Owned, L1Buffered, L1Transient
<1>9. \A q \in L1s : TokenInv(y, q)
  BY <1>1, <1>2, <1>3, <1>4, <1>5, <1>6, <1>7 DEF CopyInv, TokenInv, OneTokenInv,
     GoneInv, Asking, Serving, Queuing, Promised, Answering, Leaves, Owned, L1Buffered
<1>10. \A q \in L1s : OneTokenInv(y, q)
  BY <1>1, <1>2, <1>3, <1>4, <1>5, <1>6, <1>7 DEF CopyInv, TokenInv, OneTokenInv,
     Asking, Serving, Queuing, Promised, Answering, GoneInv, Leaves
<1>11. \A q \in L1s : TrackInv(y, q)
  BY <1>1, <1>2, <1>3, <1>4, <1>5, <1>6, <1>7 DEF CopyInv, TrackInv, Asking, Serving,
     Queuing, Promised, Answering, L1Transient, Owned, L1Buffered, TokenInv
<1>12. \A q \in L1s : GoneInv(y, q)
  BY <1>1, <1>2, <1>3, <1>4, <1>5, <1>6, <1>7 DEF CopyInv, GoneInv, TokenInv, Leaves,
     Asking, Serving, Queuing, Promised, Answering, L1Buffered, Readable, Owned
<1>13. \A q \in L1s : AckInv(y, q)
  BY <1>1, <1>2, <1>3, <1>4, <1>5, <1>6, <1>7 DEF CopyInv, AckInv, Leaves, L1Buffered,
     Owned, TokenInv
<1>14. \A q \in L1s : RecallInv(y, q)
  BY <1>1, <1>2, <1>3, <1>4, <1>5, <1>6, <1>7 DEF CopyInv, RecallInv, Leaves,
     L1Buffered, Queuing, Owned, TokenInv
<1>15. \A q \in L1s : EntryInv(y, q)
  BY <1>1, <1>2, <1>3, <1>4, <1>5, <1>6, <1>7 DEF CopyInv, EntryInv, Leaves, Present,
     Readable, Owes, Serving, Queuing, Promised, Answering, Owned, L1Buffered,
         TokenInv
<1>16. HomeInv(y)
  BY <1>1, <1>2, <1>3, <1>4, <1>5, <1>6, <1>7 DEF HomeInv, Recalled, Leaves,
      L1Buffered
<1>17. SharingInv(y)
  BY <1>1, <1>2, <1>3, <1>4, <1>5, <1>6, <1>7 DEF SharingInv, Sharing, Owned, Owes,
     CopyInv, TokenInv
<1>18. OwningInv(y)
  BY <1>1, <1>2, <1>3, <1>4, <1>5, <1>6, <1>7 DEF OwningInv, Sharing, ChainInv, Holds,
     Expects, Owes, Owned, L1Buffered
<1>19. Fits(x, {Plain("DataShared", p)})
  BY <1>1 DEF Fits, Late, In, Plain, CopyInv, OneTokenInv, Asking, Serving, Answering,
     Promised, Queuing, Sent, AckInv, RecallInv, LineTypes
<1> QED
  BY <1>8, <1>9, <1>10, <1>11, <1>12, <1>13, <1>14, <1>15, <1>16, <1>17, <1>18, <1>19
     DEF LineInv, CopyInv

LEMMA ReadForwarded ==
  ASSUME NEW x, NEW y, LineInv(x), NEW p \in L1s, NEW h \in L1s,
         In(x, "Read", p),
         x.l2 = "Shared",
         h \in x.dir,
         Serves(x, y, "Shared", x.dir \union {p}, x.held, {Plain("Read", p)},
           {<<"ReadFwd", h, p>>})
  PROVE  LineInv(y) /\ Fits(x, {<<"ReadFwd", h, p>>})
<1>1. /\ LineTypes(x) /\ \A q \in L1s : CopyInv(x, q)
      /\ HomeInv(x) /\ SharingInv(x) /\ OwningInv(x)
  BY DEF LineInv
<1>2. /\ y.lines = x.lines /\ y.l2 = "Shared"
      /\ y.dir = x.dir \union {p} /\ y.held = x.held
  BY <1>1 DEF Serves, LineTypes
<1>3. \A u, q : In(y, u, q) <=>
        (In(x, u, q) /\ ~(u = "Read" /\ q = p)) \/ (u = "ReadFwd" /\ q = h /\ q = p)
  BY DEF Serves, In, Plain
<1>4. \A u, q, r : u \in {"ReadFwd", "ReadExFwd"} =>
        (Sent(y, u, q, r) <=> Sent(x, u, q, r) \/ (u = "ReadFwd" /\ q = h /\ r = p))
  BY DEF Serves, Sent, Plain
<1>5. \A u, q : Waits(y, u, q) <=> Waits(x, u, q)
  BY <1>2 DEF Waits
<1>6. Sharing(x) /\ Sharing(y)
  BY <1>1, <1>2, <1>3, <1>4, <1>5 DEF Sharing
<1>7. \A q \in L1s : ~In(x, "FwdAckData", q) /\ ~In(x, "InvAck", q)
  BY <1>1, <1>2, <1>3, <1>4, <1>5, <1>6 DEF HomeInv, CopyInv, GoneInv
<1>8. x.lines[h] \notin {"ModToInv", "NotPresent", "Invalid"}
  BY <1>1, <1>2, <1>3, <1>4, <1>5, <1>6, <1>7 DEF CopyInv, EntryInv, TokenInv,
      GoneInv,
     Present, Serving, Queuing, Promised, Answering, Leaves, Readable, L1Buffered,
     SharingInv
<1>9. LineTypes(y)
  BY <1>1, <1>2 DEF Serves, LineTypes, L1State, L1Replaceable, L2State, L2Transient,
     L2Buffered, L2Replaceable, Owned, L1Buffered, L1Transient
<1>10. \A q \in L1s : TokenInv(y, q)
  BY <1>1, <1>2, <1>3, <1>4, <1>5, <1>6, <1>7, <1>8 DEF CopyInv, TokenInv,
      OneTokenInv,
     GoneInv, Asking, Serving, Queuing, Promised, Answering, Leaves, Owned, L1Buffered
<1>11. \A q \in L1s : OneTokenInv(y, q)
  BY <1>1, <1>2, <1>3, <1>4, <1>5, <1>6, <1>7, <1>8 DEF CopyInv, TokenInv,
      OneTokenInv,
     Asking, Serving, Queuing, Promised, Answering, GoneInv, Leaves
<1>12. \A q \in L1s : TrackInv(y, q)
  BY <1>1, <1>2, <1>3, <1>4, <1>5, <1>6, <1>7, <1>8 DEF CopyInv, TrackInv, Asking,
     Serving, Queuing, Promised, Answering, L1Transient, Owned, L1Buffered, TokenInv
<1>13. \A q \in L1s : GoneInv(y, q)
  BY <1>1, <1>2, <1>3, <1>4, <1>5, <1>6, <1>7, <1>8 DEF CopyInv, GoneInv, TokenInv,
     Leaves, Asking, Serving, Queuing, Promised, Answering, L1Buffered, Readable,
         Owned
<1>14. \A q \in L1s : AckInv(y, q)
  BY <1>1, <1>2, <1>3, <1>4, <1>5, <1>6, <1>7, <1>8 DEF CopyInv, AckInv, Leaves,
     L1Buffered, Owned, TokenInv
<1>15. \A q \in L1s : RecallInv(y, q)
  BY <1>1, <1>2, <1>3, <1>4, <1>5, <1>6, <1>7, <1>8 DEF CopyInv, RecallInv, Leaves,
     L1Buffered, Queuing, Owned, TokenInv
<1>16. \A q \in L1s : EntryInv(y, q)
  BY <1>1, <1>2, <1>3, <1>4, <1>5, <1>6, <1>7, <1>8 DEF CopyInv, EntryInv, Leaves,
     Present, Readable, Owes, Serving, Queuing, Promised, Answering, Owned,
         L1Buffered,
     TokenInv
<1>17. HomeInv(y)
  BY <1>1, <1>2, <1>3, <1>4, <1>5, <1>6, <1>7, <1>8 DEF HomeInv, Recalled, Leaves,
     L1Buffered
<1>18. SharingInv(y)
  BY <1>1, <1>2, <1>3, <1>4, <1>5, <1>6, <1>7, <1>8 DEF SharingInv, Sharing, Owned,
     Owes, CopyInv, TokenInv
<1>19. OwningInv(y)
  BY <1>1, <1>2, <1>3, <1>4, <1>5, <1>6, <1>7, <1>8 DEF OwningInv, Sharing, ChainInv,
     Holds, Expects, Owes, Owned, L1Buffered
<1>20. Fits(x, {<<"ReadFwd", h, p>>})
  BY <1>1 DEF Fits, Late, In, Plain, CopyInv, OneTokenInv, Asking, Serving, Answering,
     Promised, Queuing, Sent, AckInv, RecallInv, LineTypes
<1> QED
  BY <1>9, <1>10, <1>11, <1>12, <1>13, <1>14, <1>15, <1>16, <1>17, <1>18, <1>19, <1>20
     DEF LineInv, CopyInv

LEMMA ReadModified ==
  ASSUME NEW x, NEW y, LineInv(x), NEW p \in L1s, NEW h \in L1s,
         In(x, "Read", p),
         x.l2 = "Modified",
         h \in x.dir,
         Serves(x, y, "ModToSh", x.dir \union {p}, {}, {Plain("Read", p)},
           {<<"ReadFwd", h, p>>})
  PROVE  LineInv(y) /\ Fits(x, {<<"ReadFwd", h, p>>})
<1>1. /\ LineTypes(x) /\ \A q \in L1s : CopyInv(x, q)
      /\ HomeInv(x) /\ SharingInv(x) /\ OwningInv(x)
  BY DEF LineInv
<1>2. /\ y.lines = x.lines /\ y.l2 = "ModToSh"
      /\ y.dir = x.dir \union {p} /\ y.held = {}
  BY <1>1 DEF Serves, LineTypes
<1>3. \A u, q : In(y, u, q) <=>
        (In(x, u, q) /\ ~(u = "Read" /\ q = p)) \/ (u = "ReadFwd" /\ q = h /\ q = p)
  BY DEF Serves, In, Plain
<1>4. \A u, q, r : u \in {"ReadFwd", "ReadExFwd"} =>
        (Sent(y, u, q, r) <=> Sent(x, u, q, r) \/ (u = "ReadFwd" /\ q = h /\ r = p))
  BY DEF Serves, Sent, Plain
<1>5. \A u, q : Waits(y, u, q) <=> FALSE
  BY <1>2 DEF Waits
<1>6. ~Sharing(x) /\ x.held = {} /\ \A q \in L1s : ~In(x, "FwdAckData", q)
  BY <1>1, <1>2, <1>3, <1>4, <1>5 DEF Sharing, HomeInv
<1>7. ~Sharing(y)
  BY <1>1, <1>2, <1>3, <1>4, <1>5, <1>6 DEF Sharing
<1>8. PICK k \in [L1s -> Int], o \in L1s : ChainInv(x, k, o)
  BY <1>1, <1>2, <1>3, <1>4, <1>5, <1>6, <1>7 DEF OwningInv
<1>9. x.dir = {o} /\ Expects(x, o) /\ \A q, r \in L1s : ~Sent(x, "ReadFwd", q, r)
  BY <1>1, <1>2, <1>3, <1>4, <1>5, <1>6, <1>7, <1>8 DEF ChainInv, Expects, Holds,
     CopyInv, EntryInv, GoneInv, Present, Serving, Queuing, Promised, Answering,
         Leaves,
     HomeInv, Owned, Readable, Waits, Owes
<1>10. \A q \in L1s : ~In(x, "FwdAckData", q) /\ ~In(x, "InvAck", q)
  BY <1>1, <1>2, <1>3, <1>4, <1>5, <1>6, <1>7, <1>8, <1>9 DEF HomeInv, CopyInv,
      GoneInv
<1>11. x.held = {} /\ \A u, q : ~Waits(x, u, q)
  BY <1>1, <1>2, <1>3, <1>4, <1>5, <1>6, <1>7, <1>8, <1>9, <1>10 DEF HomeInv, Waits
<1>12. /\ x.lines[p] \in {"InvToShEx", "InvToMod", "ShToMod"}
      /\ ~Leaves(x, p) /\ ~Serving(x, p)
  BY <1>1, <1>2, <1>3, <1>4, <1>5, <1>6, <1>7, <1>8, <1>9, <1>10, <1>11 DEF CopyInv,
     TokenInv, GoneInv, OneTokenInv, Asking, Leaves, L1Buffered, Readable
<1>13. LineTypes(y)
  BY <1>1, <1>2 DEF Serves, LineTypes, L1State, L1Replaceable, L2State, L2Transient,
     L2Buffered, L2Replaceable, Owned, L1Buffered, L1Transient
<1>14. \A q \in L1s : TokenInv(y, q)
  BY <1>1, <1>2, <1>3, <1>4, <1>5, <1>6, <1>7, <1>8, <1>9, <1>10, <1>11, <1>12
     DEF CopyInv, TokenInv, OneTokenInv, GoneInv, Asking, Serving, Queuing, Promised,
     Answering, Leaves, Owned, L1Buffered
<1>15. \A q \in L1s : OneTokenInv(y, q)
  BY <1>1, <1>2, <1>3, <1>4, <1>5, <1>6, <1>7, <1>8, <1>9, <1>10, <1>11, <1>12
     DEF CopyInv, TokenInv, OneTokenInv, Asking, Serving, Queuing, Promised,
         Answering,
     GoneInv, Leaves
<1>16. \A q \in L1s : TrackInv(y, q)
  BY <1>1, <1>2, <1>3, <1>4, <1>5, <1>6, <1>7, <1>8, <1>9, <1>10, <1>11, <1>12
     DEF CopyInv, TrackInv, Asking, Serving, Queuing, Promised, Answering,
         L1Transient,
     Owned, L1Buffered, TokenInv
<1>17. \A q \in L1s : GoneInv(y, q)
  BY <1>1, <1>2, <1>3, <1>4, <1>5, <1>6, <1>7, <1>8, <1>9, <1>10, <1>11, <1>12
     DEF CopyInv, GoneInv, TokenInv, Leaves, Asking, Serving, Queuing, Promised,
     Answering, L1Buffered, Readable, Owned
<1>18. \A q \in L1s : AckInv(y, q)
  BY <1>1, <1>2, <1>3, <1>4, <1>5, <1>6, <1>7, <1>8, <1>9, <1>10, <1>11, <1>12
     DEF CopyInv, AckInv, Leaves, L1Buffered, Owned, TokenInv
<1>19. \A q \in L1s : RecallInv(y, q)
  BY <1>1, <1>2, <1>3, <1>4, <1>5, <1>6, <1>7, <1>8, <1>9, <1>10, <1>11, <1>12
     DEF CopyInv, RecallInv, Leaves, L1Buffered, Queuing, Owned, TokenInv
<1>20. \A q \in L1s : EntryInv(y, q)
  BY <1>1, <1>2, <1>3, <1>4, <1>5, <1>6, <1>7, <1>8, <1>9, <1>10, <1>11, <1>12
     DEF CopyInv, EntryInv, Leaves, Present, Readable, Owes, Serving, Queuing,
         Promised,
     Answering, Owned, L1Buffered, TokenInv
<1>21. HomeInv(y)
  BY <1>1, <1>2, <1>3, <1>4, <1>5, <1>6, <1>7, <1>8, <1>9, <1>10, <1>11, <1>12
     DEF HomeInv, Recalled, Leaves, L1Buffered
<1>22. SharingInv(y)
  BY <1>1, <1>2, <1>3, <1>4, <1>5, <1>6, <1>7, <1>8, <1>9, <1>10, <1>11, <1>12
     DEF SharingInv, Sharing, Owned, Owes, CopyInv, TokenInv
<1>23. OwningInv(y)
  <2>1. h = o /\ ~Expects(x, p) /\ p # h
    BY <1>1, <1>2, <1>3, <1>4, <1>5, <1>6, <1>7, <1>8, <1>9, <1>10, <1>11, <1>12
       DEF Expects, Holds, Owned, Owes, Serving, Promised, Answering, Leaves
  <2>2. x.lines[h] = "ModToInv" => Holds(x, h)
    BY <2>1, <1>1, <1>2, <1>3, <1>4, <1>5, <1>6, <1>7, <1>8, <1>9, <1>10, <1>11, <1>12
       DEF CopyInv, TokenInv, Expects
  <2>3. In(x, "WriteBack", h) => x.lines[h] = "ModToInv"
    BY <2>1, <2>2, <1>1, <1>2, <1>3, <1>4, <1>5, <1>6, <1>7, <1>8, <1>9, <1>10, <1>11,
       <1>12 DEF CopyInv, GoneInv, Leaves, L1Buffered
  <2>4. \A q \in L1s : Holds(y, q) <=> Holds(x, q)
    BY <2>1, <2>2, <2>3, <1>1, <1>2, <1>3, <1>4, <1>5, <1>6, <1>7, <1>8, <1>9, <1>10,
       <1>11, <1>12 DEF Holds, Owes, Owned, Leaves
  <2>5. \A q \in L1s : Expects(y, q) <=> Expects(x, q)
    BY <2>1, <2>2, <2>3, <2>4, <1>1, <1>2, <1>3, <1>4, <1>5, <1>6, <1>7, <1>8, <1>9,
       <1>10, <1>11, <1>12 DEF Expects
  <2>6. ChainInv(y, k, o)
    BY <2>1, <2>2, <2>3, <2>4, <2>5, <1>1, <1>2, <1>3, <1>4, <1>5, <1>6, <1>7, <1>8,
       <1>9, <1>10, <1>11, <1>12 DEF ChainInv, Owes
  <2> QED
    BY <2>6 DEF OwningInv
<1>24. Fits(x, {<<"ReadFwd", h, p>>})
  BY <1>1 DEF Fits, Late, In, Plain, CopyInv, OneTokenInv, Asking, Serving, Answering,
     Promised, Queuing, Sent, AckInv, RecallInv, LineTypes
<1> QED
  BY <1>13, <1>14, <1>15, <1>16, <1>17, <1>18, <1>19, <1>20, <1>21, <1>22, <1>23,
      <1>24
     DEF LineInv, CopyInv

LEMMA ReadQueued ==
  ASSUME NEW x, NEW y, LineInv(x), NEW p \in L1s,
         In(x, "Read", p),
         x.l2 = "ModToSh",
         Serves(x, y, "ModToSh", x.dir \union {p}, x.held \union {<<"Read", p>>},
           {Plain("Read", p)}, {})
  PROVE  LineInv(y)
<1>1. /\ LineTypes(x) /\ \A q \in L1s : CopyInv(x, q)
      /\ HomeInv(x) /\ SharingInv(x) /\ OwningInv(x)
  BY DEF LineInv
<1>2. /\ y.lines = x.lines /\ y.l2 = "ModToSh"
      /\ y.dir = x.dir \union {p} /\ y.held = x.held \union {<<"Read", p>>}
  BY <1>1 DEF Serves, LineTypes
<1>3. \A u, q : In(y, u, q) <=> In(x, u, q) /\ ~(u = "Read" /\ q = p)
  BY DEF Serves, In, Plain
<1>4. \A u, q, r : u \in {"ReadFwd", "ReadExFwd"} =>
        (Sent(y, u, q, r) <=> Sent(x, u, q, r))
  BY DEF Serves, Sent, Plain
<1>5. \A u, q : Waits(y, u, q) <=> Waits(x, u, q) \/ (u = "Read" /\ q = p)
  BY <1>2 DEF Waits
<1>6. Sharing(x) <=> Sharing(y)
  BY <1>1, <1>2, <1>3, <1>4, <1>5 DEF Sharing
<1>7. /\ x.lines[p] \in {"InvToShEx", "InvToMod", "ShToMod"}
      /\ ~Leaves(x, p) /\ ~Serving(x, p)
  BY <1>1, <1>2, <1>3, <1>4, <1>5, <1>6 DEF CopyInv, TokenInv, GoneInv, OneTokenInv,
     Asking, Leaves, L1Buffered, Readable
<1>8. ~Expects(x, p)
  BY <1>1, <1>2, <1>3, <1>4, <1>5, <1>6, <1>7 DEF Expects, Holds, Owned, Owes,
      Serving,
     Promised, Answering, Leaves
<1>9. LineTypes(y)
  BY <1>1, <1>2 DEF Serves, LineTypes, L1State, L1Replaceable, L2State, L2Transient,
     L2Buffered, L2Replaceable, Owned, L1Buffered, L1Transient
<1>10. \A q \in L1s : TokenInv(y, q)
  BY <1>1, <1>2, <1>3, <1>4, <1>5, <1>6, <1>7, <1>8 DEF CopyInv, TokenInv,
      OneTokenInv,
     GoneInv, Asking, Serving, Queuing, Promised, Answering, Leaves, Owned, L1Buffered
<1>11. \A q \in L1s : OneTokenInv(y, q)
  BY <1>1, <1>2, <1>3, <1>4, <1>5, <1>6, <1>7, <1>8 DEF CopyInv, TokenInv,
      OneTokenInv,
     Asking, Serving, Queuing, Promised, Answering, GoneInv, Leaves
<1>12. \A q \in L1s : TrackInv(y, q)
  BY <1>1, <1>2, <1>3, <1>4, <1>5, <1>6, <1>7, <1>8 DEF CopyInv, TrackInv, Asking,
     Serving, Queuing, Promised, Answering, L1Transient, Owned, L1Buffered, TokenInv
<1>13. \A q \in L1s : GoneInv(y, q)
  BY <1>1, <1>2, <1>3, <1>4, <1>5, <1>6, <1>7, <1>8 DEF CopyInv, GoneInv, TokenInv,
     Leaves, Asking, Serving, Queuing, Promised, Answering, L1Buffered, Readable,
         Owned
<1>14. \A q \in L1s : AckInv(y, q)
  BY <1>1, <1>2, <1>3, <1>4, <1>5, <1>6, <1>7, <1>8 DEF CopyInv, AckInv, Leaves,
     L1Buffered, Owned, TokenInv
<1>15. \A q \in L1s : RecallInv(y, q)
  BY <1>1, <1>2, <1>3, <1>4, <1>5, <1>6, <1>7, <1>8 DEF CopyInv, RecallInv, Leaves,
     L1Buffered, Queuing, Owned, TokenInv
<1>16. \A q \in L1s : EntryInv(y, q)
  BY <1>1, <1>2, <1>3, <1>4, <1>5, <1>6, <1>7, <1>8 DEF CopyInv, EntryInv, Leaves,
     Present, Readable, Owes, Serving, Queuing, Promised, Answering, Owned,
         L1Buffered,
     TokenInv
<1>17. HomeInv(y)
  BY <1>1, <1>2, <1>3, <1>4, <1>5, <1>6, <1>7, <1>8 DEF HomeInv, Recalled, Leaves,
     L1Buffered
<1>18. SharingInv(y)
  BY <1>1, <1>2, <1>3, <1>4, <1>5, <1>6, <1>7, <1>8 DEF SharingInv, Sharing, Owned,
     Owes, CopyInv, TokenInv
<1>19. OwningInv(y)
  <2> SUFFICES ASSUME ~Sharing(y)
               PROVE  \E k \in [L1s -> Int], o \in L1s : ChainInv(y, k, o)
    BY DEF OwningInv
  <2>1. ~Sharing(x)
    BY <1>1, <1>2, <1>3, <1>4, <1>5, <1>6, <1>7, <1>8 DEF Sharing
  <2>2. PICK k \in [L1s -> Int], o \in L1s : ChainInv(x, k, o)
    BY <2>1, <1>1 DEF OwningInv
  <2>3. ChainInv(y, k, o)
    BY <2>2, <1>1, <1>2, <1>3, <1>4, <1>5, <1>6, <1>7, <1>8 DEF ChainInv, Holds,
       Expects, Owes, Owned, Sharing, Leaves
  <2> QED
    BY <2>3
<1> QED
  BY <1>9, <1>10, <1>11, <1>12, <1>13, <1>14, <1>15, <1>16, <1>17, <1>18, <1>19
     DEF LineInv, CopyInv

(* The requester has or will have the only copy. *)
LEMMA GrantAlone ==
  ASSUME NEW x, NEW y, LineInv(x), NEW p \in L1s, NEW t, NEW g,
         \/ t = "ReadEx" /\ g = "DataExclusive" /\ x.dir = {}
         \/ t = "Upgrade" /\ g = "UpgradeAck" /\ x.dir = {p},
         In(x, t, p),
         x.l2 = "Shared",
         Serves(x, y, "Modified", {p}, x.held, {Plain(t, p)}, {Plain(g, p)})
  PROVE  LineInv(y) /\ Fits(x, {Plain(g, p)})
<1>1. /\ LineTypes(x) /\ \A q \in L1s : CopyInv(x, q)
      /\ HomeInv(x) /\ SharingInv(x) /\ OwningInv(x)
  BY DEF LineInv
<1>2. /\ y.lines = x.lines /\ y.l2 = "Modified"
      /\ y.dir = {p} /\ y.held = x.held
  BY <1>1 DEF Serves, LineTypes
<1>3. \A u, q : In(y, u, q) <=> (In(x, u, q) /\ ~(u = t /\ q = p)) \/ (u = g /\ q = p)
  BY DEF Serves, In, Plain
<1>4. \A u, q, r : u \in {"ReadFwd", "ReadExFwd"} =>
        (Sent(y, u, q, r) <=> Sent(x, u, q, r))
  BY DEF Serves, Sent, Plain
<1>5. \A u, q : Waits(y, u, q) <=> Waits(x, u, q)
  BY <1>2 DEF Waits
<1>6. Sharing(x) /\ ~Sharing(y)
  BY <1>1, <1>2, <1>3, <1>4, <1>5 DEF Sharing
<1>7. \A q \in L1s : ~In(x, "FwdAckData", q) /\ ~In(x, "InvAck", q)
  BY <1>1, <1>2, <1>3, <1>4, <1>5, <1>6 DEF HomeInv, CopyInv, GoneInv
<1>8. /\ x.lines[p] \in {"InvToShEx", "InvToMod", "ShToMod"}
      /\ ~Leaves(x, p) /\ ~Serving(x, p)
  BY <1>1, <1>2, <1>3, <1>4, <1>5, <1>6, <1>7 DEF CopyInv, TokenInv, GoneInv,
     OneTokenInv, Asking, Leaves, L1Buffered, Readable
<1>9. \A q \in L1s \ {p} : ~Present(x, q)
  BY <1>1, <1>2, <1>3, <1>4, <1>5, <1>6, <1>7, <1>8 DEF CopyInv, EntryInv, SharingInv
<1>10. \A q, r \in L1s : ~Sent(x, "ReadFwd", q, r) /\ ~Sent(x, "ReadExFwd", q, r)
  BY <1>1, <1>2, <1>3, <1>4, <1>5, <1>6, <1>7, <1>8, <1>9 DEF Present, Serving,
      Promised
<1>11. PICK j \in [L1s -> Int] : \A q \in L1s : j[q] = 0
  <2>1. [q \in L1s |-> 0] \in [L1s -> Int]
    OBVIOUS
  <2> QED
    BY <2>1
<1>12. LineTypes(y)
  BY <1>1, <1>2 DEF Serves, LineTypes, L1State, L1Replaceable, L2State, L2Transient,
     L2Buffered, L2Replaceable, Owned, L1Buffered, L1Transient
<1>13. \A q \in L1s : TokenInv(y, q)
  BY <1>1, <1>2, <1>3, <1>4, <1>5, <1>6, <1>7, <1>8, <1>9, <1>10, <1>11 DEF CopyInv,
     TokenInv, OneTokenInv, GoneInv, Asking, Serving, Queuing, Promised, Answering,
     Leaves, Owned, L1Buffered
<1>14. \A q \in L1s : OneTokenInv(y, q)
  BY <1>1, <1>2, <1>3, <1>4, <1>5, <1>6, <1>7, <1>8, <1>9, <1>10, <1>11 DEF CopyInv,
     TokenInv, OneTokenInv, Asking, Serving, Queuing, Promised, Answering, GoneInv,
     Leaves
<1>15. \A q \in L1s : TrackInv(y, q)
  BY <1>1, <1>2, <1>3, <1>4, <1>5, <1>6, <1>7, <1>8, <1>9, <1>10, <1>11 DEF CopyInv,
     TrackInv, Asking, Serving, Queuing, Promised, Answering, L1Transient, Owned,
     L1Buffered, TokenInv
<1>16. \A q \in L1s : GoneInv(y, q)
  BY <1>1, <1>2, <1>3, <1>4, <1>5, <1>6, <1>7, <1>8, <1>9, <1>10, <1>11 DEF CopyInv,
     GoneInv, TokenInv, Leaves, Asking, Serving, Queuing, Promised, Answering,
     L1Buffered, Readable, Owned
<1>17. \A q \in L1s : AckInv(y, q)
  BY <1>1, <1>2, <1>3, <1>4, <1>5, <1>6, <1>7, <1>8, <1>9, <1>10, <1>11 DEF CopyInv,
     AckInv, Leaves, L1Buffered, Owned, TokenInv
<1>18. \A q \in L1s : RecallInv(y, q)
  BY <1>1, <1>2, <1>3, <1>4, <1>5, <1>6, <1>7, <1>8, <1>9, <1>10, <1>11 DEF CopyInv,
     RecallInv, Leaves, L1Buffered, Queuing, Owned, TokenInv
<1>19. \A q \in L1s : EntryInv(y, q)
  BY <1>1, <1>2, <1>3, <1>4, <1>5, <1>6, <1>7, <1>8, <1>9, <1>10, <1>11 DEF CopyInv,
     EntryInv, Leaves, Present, Readable, Owes, Serving, Queuing, Promised, Answering,
     Owned, L1Buffered, TokenInv
<1>20. HomeInv(y)
  BY <1>1, <1>2, <1>3, <1>4, <1>5, <1>6, <1>7, <1>8, <1>9, <1>10, <1>11 DEF HomeInv,
     Recalled, Leaves, L1Buffered
<1>21. SharingInv(y)
  BY <1>1, <1>2, <1>3, <1>4, <1>5, <1>6, <1>7, <1>8, <1>9, <1>10, <1>11
      DEF SharingInv,
     Sharing, Owned, Owes, CopyInv, TokenInv
<1>22. OwningInv(y)
  <2>1. \A q \in L1s \ {p} : x.lines[q] \notin Readable /\ ~Answering(x, q)
    BY <1>1, <1>2, <1>3, <1>4, <1>5, <1>6, <1>7, <1>8, <1>9, <1>10, <1>11 DEF Present,
       Serving
  <2>2. \A q \in L1s : Holds(y, q) => q = p
    BY <2>1, <1>1, <1>2, <1>3, <1>4, <1>5, <1>6, <1>7, <1>8, <1>9, <1>10, <1>11
       DEF Holds, Owes, Owned, Readable, Answering
  <2>3. \A q \in L1s : Expects(y, q) => q = p
    BY <2>1, <2>2, <1>1, <1>2, <1>3, <1>4, <1>5, <1>6, <1>7, <1>8, <1>9, <1>10, <1>11
       DEF Expects
  <2>4. x.lines[p] = "ShToMod" => g = "UpgradeAck"
    BY <2>1, <2>2, <2>3, <1>1, <1>2, <1>3, <1>4, <1>5, <1>6, <1>7, <1>8, <1>9, <1>10,
       <1>11 DEF CopyInv, TokenInv
  <2>5. ChainInv(y, j, p)
    BY <2>1, <2>2, <2>3, <2>4, <1>1, <1>2, <1>3, <1>4, <1>5, <1>6, <1>7, <1>8, <1>9,
       <1>10, <1>11 DEF ChainInv, Owes, Readable, Answering, Serving
  <2> QED
    BY <2>5 DEF OwningInv
<1>23. Fits(x, {Plain(g, p)})
  BY <1>1, <1>8, <1>10 DEF Fits, Late, In, Plain, CopyInv, AckInv, RecallInv, Owes,
     Sent, Serving, Answering, L1Buffered
<1> QED
  BY <1>12, <1>13, <1>14, <1>15, <1>16, <1>17, <1>18, <1>19, <1>20, <1>21, <1>22,
      <1>23
     DEF LineInv, CopyInv

(* The copies of the other sharers are called in. *)
LEMMA CollectLine ==
  ASSUME NEW x, NEW y, LineInv(x), NEW p \in L1s, NEW t, NEW s,
         \/ t = "ReadEx" /\ x.dir # {} /\ s = x.dir \union {p}
         \/ t = "Upgrade" /\ p \in x.dir /\ x.dir # {p} /\ s = x.dir,
         In(x, t, p),
         x.l2 = "Shared",
         Serves(x, y, "ShToMod", s, {<<t, p>>}, {Plain(t, p)},
           {Plain("Invalidate", q) : q \in x.dir \ {p}})
  PROVE  LineInv(y) /\ Fits(x, {Plain("Invalidate", q) : q \in x.dir \ {p}})
<1>1. /\ LineTypes(x) /\ \A q \in L1s : CopyInv(x, q)
      /\ HomeInv(x) /\ SharingInv(x) /\ OwningInv(x)
  BY DEF LineInv
<1>2. /\ y.lines = x.lines /\ y.l2 = "ShToMod"
      /\ y.dir = s /\ y.held = {<<t, p>>}
  BY <1>1 DEF Serves, LineTypes
<1>3. \A u, q : In(y, u, q) <=>
        (In(x, u, q) /\ ~(u = t /\ q = p)) \/ (u = "Invalidate" /\ q \in x.dir \ {p})
  BY DEF Serves, In, Plain
<1>4. \A u, q, r : u \in {"ReadFwd", "ReadExFwd"} =>
        (Sent(y, u, q, r) <=> Sent(x, u, q, r))
  BY DEF Serves, Sent, Plain
<1>5. \A u, q : Waits(y, u, q) <=> u = t /\ q = p
  BY <1>2 DEF Waits
<1>6. Sharing(x) /\ Sharing(y)
  BY <1>1, <1>2, <1>3, <1>4, <1>5 DEF Sharing
<1>7. \A q \in L1s : ~In(x, "FwdAckData", q) /\ ~In(x, "InvAck", q)
  BY <1>1, <1>2, <1>3, <1>4, <1>5, <1>6 DEF HomeInv, CopyInv, GoneInv
<1>8. x.held = {} /\ \A u, q : ~Waits(x, u, q)
  BY <1>1, <1>2, <1>3, <1>4, <1>5, <1>6, <1>7 DEF HomeInv, Waits
<1>9. /\ x.lines[p] \in {"InvToShEx", "InvToMod", "ShToMod"}
      /\ ~Leaves(x, p) /\ ~Serving(x, p)
  BY <1>1, <1>2, <1>3, <1>4, <1>5, <1>6, <1>7, <1>8 DEF CopyInv, TokenInv, GoneInv,
     OneTokenInv, Asking, Leaves, L1Buffered, Readable
<1>10. t = "ReadEx" => p \notin x.dir
  BY <1>1, <1>2, <1>3, <1>4, <1>5, <1>6, <1>7, <1>8, <1>9 DEF CopyInv, TokenInv,
     EntryInv, Present, Readable
<1>11. LineTypes(y)
  BY <1>1, <1>2 DEF Serves, LineTypes, L1State, L1Replaceable, L2State, L2Transient,
     L2Buffered, L2Replaceable, Owned, L1Buffered, L1Transient
<1>12. \A q \in L1s : TokenInv(y, q)
  BY <1>1, <1>2, <1>3, <1>4, <1>5, <1>6, <1>7, <1>8, <1>9, <1>10 DEF CopyInv,
      TokenInv,
     OneTokenInv, GoneInv, Asking, Serving, Queuing, Promised, Answering, Leaves,
         Owned,
     L1Buffered
<1>13. \A q \in L1s : OneTokenInv(y, q)
  BY <1>1, <1>2, <1>3, <1>4, <1>5, <1>6, <1>7, <1>8, <1>9, <1>10 DEF CopyInv,
      TokenInv,
     OneTokenInv, Asking, Serving, Queuing, Promised, Answering, GoneInv, Leaves
<1>14. \A q \in L1s : TrackInv(y, q)
  BY <1>1, <1>2, <1>3, <1>4, <1>5, <1>6, <1>7, <1>8, <1>9, <1>10 DEF CopyInv,
      TrackInv,
     Asking, Serving, Queuing, Promised, Answering, L1Transient, Owned, L1Buffered,
     TokenInv
<1>15. \A q \in L1s : GoneInv(y, q)
  BY <1>1, <1>2, <1>3, <1>4, <1>5, <1>6, <1>7, <1>8, <1>9, <1>10 DEF CopyInv, GoneInv,
     TokenInv, Leaves, Asking, Serving, Queuing, Promised, Answering, L1Buffered,
     Readable, Owned
<1>16. \A q \in L1s : AckInv(y, q)
  BY <1>1, <1>2, <1>3, <1>4, <1>5, <1>6, <1>7, <1>8, <1>9, <1>10 DEF CopyInv, AckInv,
     Leaves, L1Buffered, Owned, TokenInv
<1>17. \A q \in L1s : RecallInv(y, q)
  BY <1>1, <1>2, <1>3, <1>4, <1>5, <1>6, <1>7, <1>8, <1>9, <1>10 DEF CopyInv,
      RecallInv,
     Leaves, L1Buffered, Queuing, Owned, TokenInv
<1>18. \A q \in L1s : EntryInv(y, q)
  BY <1>1, <1>2, <1>3, <1>4, <1>5, <1>6, <1>7, <1>8, <1>9, <1>10 DEF CopyInv,
      EntryInv,
     Leaves, Present, Readable, Owes, Serving, Queuing, Promised, Answering, Owned,
     L1Buffered, TokenInv
<1>19. HomeInv(y)
  BY <1>1, <1>2, <1>3, <1>4, <1>5, <1>6, <1>7, <1>8, <1>9, <1>10 DEF HomeInv,
      Recalled,
     Leaves, L1Buffered
<1>20. SharingInv(y)
  BY <1>1, <1>2, <1>3, <1>4, <1>5, <1>6, <1>7, <1>8, <1>9, <1>10 DEF SharingInv,
     Sharing, Owned, Owes, CopyInv, TokenInv
<1>21. OwningInv(y)
  BY <1>1, <1>2, <1>3, <1>4, <1>5, <1>6, <1>7, <1>8, <1>9, <1>10 DEF OwningInv,
      Sharing,
     ChainInv, Holds, Expects, Owes, Owned, L1Buffered
<1>22. Fits(x, {Plain("Invalidate", q) : q \in x.dir \ {p}})
  BY <1>1 DEF Fits, Late, In, Plain, CopyInv, RecallInv, LineTypes
<1> QED
  BY <1>11, <1>12, <1>13, <1>14, <1>15, <1>16, <1>17, <1>18, <1>19, <1>20, <1>21,
      <1>22
     DEF LineInv, CopyInv

(* The owner is told to hand the line to p, the new owner. *)
LEMMA HandLineOver ==
  ASSUME NEW x, NEW y, LineInv(x), NEW p \in L1s, NEW h \in L1s,
         In(x, "ReadEx", p),
         x.l2 = "Modified",
         h \in x.dir,
         Serves(x, y, "Modified", {p}, x.held, {Plain("ReadEx", p)},
           {<<"ReadExFwd", h, p>>})
  PROVE  LineInv(y) /\ Fits(x, {<<"ReadExFwd", h, p>>})
<1>1. /\ LineTypes(x) /\ \A q \in L1s : CopyInv(x, q)
      /\ HomeInv(x) /\ SharingInv(x) /\ OwningInv(x)
  BY DEF LineInv
<1>2. /\ y.lines = x.lines /\ y.l2 = "Modified"
      /\ y.dir = {p} /\ y.held = x.held
  BY <1>1 DEF Serves, LineTypes
<1>3. \A u, q : In(y, u, q) <=>
        (In(x, u, q) /\ ~(u = "ReadEx" /\ q = p))
            \/ (u = "ReadExFwd" /\ q = h /\ q = p)
  BY DEF Serves, In, Plain
<1>4. \A u, q, r : u \in {"ReadFwd", "ReadExFwd"} =>
        (Sent(y, u, q, r) <=> Sent(x, u, q, r) \/ (u = "ReadExFwd" /\ q = h /\ r = p))
  BY DEF Serves, Sent, Plain
<1>5. \A u, q : Waits(y, u, q) <=> Waits(x, u, q)
  BY <1>2 DEF Waits
<1>6. ~Sharing(x) /\ x.held = {} /\ \A q \in L1s : ~In(x, "FwdAckData", q)
  BY <1>1, <1>2, <1>3, <1>4, <1>5 DEF Sharing, HomeInv
<1>7. ~Sharing(y)
  BY <1>1, <1>2, <1>3, <1>4, <1>5, <1>6 DEF Sharing
<1>8. PICK k \in [L1s -> Int], o \in L1s : ChainInv(x, k, o)
  BY <1>1, <1>2, <1>3, <1>4, <1>5, <1>6, <1>7 DEF OwningInv
<1>9. x.dir = {o} /\ Expects(x, o) /\ \A q, r \in L1s : ~Sent(x, "ReadFwd", q, r)
  BY <1>1, <1>2, <1>3, <1>4, <1>5, <1>6, <1>7, <1>8 DEF ChainInv, Expects, Holds,
     CopyInv, EntryInv, GoneInv, Present, Serving, Queuing, Promised, Answering,
         Leaves,
     HomeInv, Owned, Readable, Waits, Owes
<1>10. \A q \in L1s : ~In(x, "FwdAckData", q) /\ ~In(x, "InvAck", q)
  BY <1>1, <1>2, <1>3, <1>4, <1>5, <1>6, <1>7, <1>8, <1>9 DEF HomeInv, CopyInv,
      GoneInv
<1>11. x.held = {} /\ \A u, q : ~Waits(x, u, q)
  BY <1>1, <1>2, <1>3, <1>4, <1>5, <1>6, <1>7, <1>8, <1>9, <1>10 DEF HomeInv, Waits
<1>12. /\ x.lines[p] \in {"InvToShEx", "InvToMod", "ShToMod"}
      /\ ~Leaves(x, p) /\ ~Serving(x, p)
  BY <1>1, <1>2, <1>3, <1>4, <1>5, <1>6, <1>7, <1>8, <1>9, <1>10, <1>11 DEF CopyInv,
     TokenInv, GoneInv, OneTokenInv, Asking, Leaves, L1Buffered, Readable
<1>13. PICK j \in [L1s -> Int] : j[p] = k[o] + 1 /\ \A q \in L1s \ {p} : j[q] = k[q]
<2>1. [k EXCEPT ![p] = k[o] + 1] \in [L1s -> Int]
    OBVIOUS
  <2> QED
    BY <2>1
<1>14. LineTypes(y)
  BY <1>1, <1>2 DEF Serves, LineTypes, L1State, L1Replaceable, L2State, L2Transient,
     L2Buffered, L2Replaceable, Owned, L1Buffered, L1Transient
<1>15. \A q \in L1s : TokenInv(y, q)
  BY <1>1, <1>2, <1>3, <1>4, <1>5, <1>6, <1>7, <1>8, <1>9, <1>10, <1>11, <1>12, <1>13
     DEF CopyInv, TokenInv, OneTokenInv, GoneInv, Asking, Serving, Queuing, Promised,
     Answering, Leaves, Owned, L1Buffered
<1>16. \A q \in L1s : OneTokenInv(y, q)
  BY <1>1, <1>2, <1>3, <1>4, <1>5, <1>6, <1>7, <1>8, <1>9, <1>10, <1>11, <1>12, <1>13
     DEF CopyInv, TokenInv, OneTokenInv, Asking, Serving, Queuing, Promised,
         Answering,
     GoneInv, Leaves
<1>17. \A q \in L1s : TrackInv(y, q)
  BY <1>1, <1>2, <1>3, <1>4, <1>5, <1>6, <1>7, <1>8, <1>9, <1>10, <1>11, <1>12, <1>13
     DEF CopyInv, TrackInv, Asking, Serving, Queuing, Promised, Answering,
         L1Transient,
     Owned, L1Buffered, TokenInv
<1>18. \A q \in L1s : GoneInv(y, q)
  BY <1>1, <1>2, <1>3, <1>4, <1>5, <1>6, <1>7, <1>8, <1>9, <1>10, <1>11, <1>12, <1>13
     DEF CopyInv, GoneInv, TokenInv, Leaves, Asking, Serving, Queuing, Promised,
     Answering, L1Buffered, Readable, Owned
<1>19. \A q \in L1s : AckInv(y, q)
  BY <1>1, <1>2, <1>3, <1>4, <1>5, <1>6, <1>7, <1>8, <1>9, <1>10, <1>11, <1>12, <1>13
     DEF CopyInv, AckInv, Leaves, L1Buffered, Owned, TokenInv
<1>20. \A q \in L1s : RecallInv(y, q)
  BY <1>1, <1>2, <1>3, <1>4, <1>5, <1>6, <1>7, <1>8, <1>9, <1>10, <1>11, <1>12, <1>13
     DEF CopyInv, RecallInv, Leaves, L1Buffered, Queuing, Owned, TokenInv
<1>21. \A q \in L1s : EntryInv(y, q)
  BY <1>1, <1>2, <1>3, <1>4, <1>5, <1>6, <1>7, <1>8, <1>9, <1>10, <1>11, <1>12, <1>13
     DEF CopyInv, EntryInv, Leaves, Present, Readable, Owes, Serving, Queuing,
         Promised,
     Answering, Owned, L1Buffered, TokenInv
<1>22. HomeInv(y)
  BY <1>1, <1>2, <1>3, <1>4, <1>5, <1>6, <1>7, <1>8, <1>9, <1>10, <1>11, <1>12, <1>13
     DEF HomeInv, Recalled, Leaves, L1Buffered
<1>23. SharingInv(y)
  BY <1>1, <1>2, <1>3, <1>4, <1>5, <1>6, <1>7, <1>8, <1>9, <1>10, <1>11, <1>12, <1>13
     DEF SharingInv, Sharing, Owned, Owes, CopyInv, TokenInv
<1>24. OwningInv(y)
  <2>1. h = o /\ ~Expects(x, p) /\ p # h
    BY <1>1, <1>2, <1>3, <1>4, <1>5, <1>6, <1>7, <1>8, <1>9, <1>10, <1>11, <1>12,
        <1>13
       DEF Expects, Holds, Owned, Owes, Serving, Promised, Answering, Leaves
  <2>2. x.lines[h] = "ModToInv" => Holds(x, h)
    BY <2>1, <1>1, <1>2, <1>3, <1>4, <1>5, <1>6, <1>7, <1>8, <1>9, <1>10, <1>11,
        <1>12,
       <1>13 DEF CopyInv, TokenInv, Expects
  <2>3. In(x, "WriteBack", h) => x.lines[h] = "ModToInv"
    BY <2>1, <2>2, <1>1, <1>2, <1>3, <1>4, <1>5, <1>6, <1>7, <1>8, <1>9, <1>10, <1>11,
       <1>12, <1>13 DEF CopyInv, GoneInv, Leaves, L1Buffered
  <2>4. \A q \in L1s : Holds(y, q) <=> Holds(x, q)
    BY <2>1, <2>2, <2>3, <1>1, <1>2, <1>3, <1>4, <1>5, <1>6, <1>7, <1>8, <1>9, <1>10,
       <1>11, <1>12, <1>13 DEF Holds, Owes, Owned, Leaves
  <2>5. \A q \in L1s \ {p} : Expects(x, q) <=> Expects(y, q)
    BY <2>1, <2>2, <2>3, <2>4, <1>1, <1>2, <1>3, <1>4, <1>5, <1>6, <1>7, <1>8, <1>9,
       <1>10, <1>11, <1>12, <1>13 DEF Expects
  <2>6. \A q, r \in L1s : Sent(x, "ReadExFwd", q, r) => q # p /\ r # p
    BY <2>1, <2>2, <2>3, <2>4, <2>5, <1>1, <1>2, <1>3, <1>4, <1>5, <1>6, <1>7, <1>8,
       <1>9, <1>10, <1>11, <1>12, <1>13 DEF ChainInv, Expects
  <2>7. \A q, r \in L1s : Sent(y, "ReadExFwd", q, r) =>
         j[q] < j[r] /\ j[r] <= j[p] /\ Expects(y, q) /\ q # p
    BY <2>1, <2>2, <2>3, <2>4, <2>5, <2>6, <1>1, <1>2, <1>3, <1>4, <1>5, <1>6, <1>7,
       <1>8, <1>9, <1>10, <1>11, <1>12, <1>13 DEF ChainInv
  <2>8. \A i \in L1s : Holds(y, i) =>
         /\ j[i] <= j[p]
         /\ \A q, r \in L1s : Sent(y, "ReadExFwd", q, r) => j[i] <= j[q]
    BY <2>1, <2>2, <2>3, <2>4, <2>5, <2>6, <2>7, <1>1, <1>2, <1>3, <1>4, <1>5, <1>6,
       <1>7, <1>8, <1>9, <1>10, <1>11, <1>12, <1>13 DEF ChainInv, Expects
  <2>9. \A q, r, s, t \in L1s :
         Sent(y, "ReadExFwd", q, r) /\ Sent(y, "ReadExFwd", s, t) =>
         (q = s /\ r = t) \/ j[r] <= j[s] \/ j[t] <= j[q]
    BY <2>1, <2>2, <2>3, <2>4, <2>5, <2>6, <2>7, <2>8, <1>1, <1>2, <1>3, <1>4, <1>5,
       <1>6, <1>7, <1>8, <1>9, <1>10, <1>11, <1>12, <1>13 DEF ChainInv
  <2>10. \A q \in L1s : x.lines[q] # "Shared" /\ ~In(x, "DataShared", q)
         /\ (x.lines[q] = "ShToMod" => In(x, "UpgradeAck", q))
    BY <2>1, <2>2, <2>3, <2>4, <2>5, <2>6, <2>7, <2>8, <2>9, <1>1, <1>2, <1>3, <1>4,
       <1>5, <1>6, <1>7, <1>8, <1>9, <1>10, <1>11, <1>12, <1>13 DEF ChainInv
  <2>11. ChainInv(y, j, p)
    BY <2>1, <2>2, <2>3, <2>4, <2>5, <2>6, <2>7, <2>8, <2>9, <2>10, <1>1, <1>2, <1>3,
       <1>4, <1>5, <1>6, <1>7, <1>8, <1>9, <1>10, <1>11, <1>12, <1>13 DEF ChainInv,
           Owes
  <2> QED
    BY <2>11 DEF OwningInv
<1>25. Fits(x, {<<"ReadExFwd", h, p>>})
  BY <1>1 DEF Fits, Late, In, Plain, CopyInv, OneTokenInv, Asking, Serving, Answering,
     Promised, Queuing, Sent, AckInv, RecallInv, LineTypes
<1> QED
  BY <1>14, <1>15, <1>16, <1>17, <1>18, <1>19, <1>20, <1>21, <1>22, <1>23, <1>24,
      <1>25
     DEF LineInv, CopyInv

(* The L2 drops an Upgrade: the copy to be upgraded has been called in. *)
LEMMA DropUpgrade ==
  ASSUME NEW x, NEW y, LineInv(x), NEW p \in L1s,
         In(x, "Upgrade", p),
         x.l2 \in {"ShToInv", "ShToMod"},
         Serves(x, y, x.l2, x.dir, x.held, {Plain("Upgrade", p)}, {})
  PROVE  LineInv(y)
<1>1. /\ LineTypes(x) /\ \A q \in L1s : CopyInv(x, q)
      /\ HomeInv(x) /\ SharingInv(x) /\ OwningInv(x)
  BY DEF LineInv
<1>2. /\ y.lines = x.lines /\ y.l2 = x.l2
      /\ y.dir = x.dir /\ y.held = x.held
  BY <1>1 DEF Serves, LineTypes
<1>3. \A u, q : In(y, u, q) <=> In(x, u, q) /\ ~(u = "Upgrade" /\ q = p)
  BY DEF Serves, In, Plain
<1>4. \A u, q, r : u \in {"ReadFwd", "ReadExFwd"} =>
        (Sent(y, u, q, r) <=> Sent(x, u, q, r))
  BY DEF Serves, Sent, Plain
<1>5. \A u, q : Waits(y, u, q) <=> Waits(x, u, q)
  BY <1>2 DEF Waits
<1>6. Sharing(x) /\ Sharing(y)
  BY <1>1, <1>2, <1>3, <1>4, <1>5 DEF Sharing
<1>7. x.lines[p] = "ShToMod" => In(x, "Invalidate", p)
  <2> SUFFICES ASSUME x.lines[p] = "ShToMod" PROVE In(x, "Invalidate", p)
    OBVIOUS
  <2>1. ~In(x, "UpgradeAck", p) /\ ~Serving(x, p)
    BY <1>1, <1>2, <1>3, <1>4, <1>5, <1>6 DEF SharingInv, CopyInv, OneTokenInv, Asking
  <2>2. p \in x.dir /\ ~Leaves(x, p)
    BY <2>1, SharedCopy
  <2>3. Recalled(x, p)
    BY <2>1, <2>2, <1>1, <1>2, <1>3, <1>4, <1>5, <1>6 DEF HomeInv, Serving, Queuing,
       Waits
  <2> QED
    BY <2>2, <2>3 DEF Recalled
<1>8. LineTypes(y)
  BY <1>1, <1>2 DEF Serves, LineTypes, L1State, L1Replaceable, L2State, L2Transient,
     L2Buffered, L2Replaceable, Owned, L1Buffered, L1Transient
<1>9. \A q \in L1s : TokenInv(y, q)
  BY <1>1, <1>2, <1>3, <1>4, <1>5, <1>6, <1>7 DEF CopyInv, TokenInv, OneTokenInv,
     GoneInv, Asking, Serving, Queuing, Promised, Answering, Leaves, Owned, L1Buffered
<1>10. \A q \in L1s : OneTokenInv(y, q)
  BY <1>1, <1>2, <1>3, <1>4, <1>5, <1>6, <1>7 DEF CopyInv, TokenInv, OneTokenInv,
     Asking, Serving, Queuing, Promised, Answering, GoneInv, Leaves
<1>11. \A q \in L1s : TrackInv(y, q)
  BY <1>1, <1>2, <1>3, <1>4, <1>5, <1>6, <1>7 DEF CopyInv, TrackInv, Asking, Serving,
     Queuing, Promised, Answering, L1Transient, Owned, L1Buffered, TokenInv
<1>12. \A q \in L1s : GoneInv(y, q)
  BY <1>1, <1>2, <1>3, <1>4, <1>5, <1>6, <1>7 DEF CopyInv, GoneInv, TokenInv, Leaves,
     Asking, Serving, Queuing, Promised, Answering, L1Buffered, Readable, Owned
<1>13. \A q \in L1s : AckInv(y, q)
  BY <1>1, <1>2, <1>3, <1>4, <1>5, <1>6, <1>7 DEF CopyInv, AckInv, Leaves, L1Buffered,
     Owned, TokenInv
<1>14. \A q \in L1s : RecallInv(y, q)
  BY <1>1, <1>2, <1>3, <1>4, <1>5, <1>6, <1>7 DEF CopyInv, RecallInv, Leaves,
     L1Buffered, Queuing, Owned, TokenInv
<1>15. \A q \in L1s : EntryInv(y, q)
  BY <1>1, <1>2, <1>3, <1>4, <1>5, <1>6, <1>7 DEF CopyInv, EntryInv, Leaves, Present,
     Readable, Owes, Serving, Queuing, Promised, Answering, Owned, L1Buffered,
         TokenInv
<1>16. \A q \in x.dir : Recalled(x, q) => Recalled(y, q)
  BY <1>1, <1>2, <1>3, <1>4, <1>5, <1>6, <1>7 DEF LineTypes, Recalled, Leaves,
     L1Buffered, Owned, Readable, CopyInv, GoneInv
<1>17. HomeInv(y)
  <2>1. /\ \A q \in L1s : In(y, "FwdAckData", q) => x.l2 = "ModToSh"
        /\ \A q, r \in L1s : In(y, "FwdAckData", q) /\ In(y, "FwdAckData", r) => q = r
    BY <1>1, <1>2, <1>3, <1>4, <1>5, <1>6, <1>7 DEF HomeInv
  <2> QED
    BY <1>1, <1>2, <1>16, <2>1, HomeKeeps DEF LineTypes
<1>18. SharingInv(y)
  BY <1>1, <1>2, <1>3, <1>4, <1>5, <1>6, <1>7 DEF SharingInv, Sharing, Owned, Owes,
     CopyInv, TokenInv
<1>19. OwningInv(y)
  BY <1>1, <1>2, <1>3, <1>4, <1>5, <1>6, <1>7 DEF OwningInv, Sharing, ChainInv, Holds,
     Expects, Owes, Owned, L1Buffered
<1> QED
  BY <1>8, <1>9, <1>10, <1>11, <1>12, <1>13, <1>14, <1>15, <1>17, <1>18, <1>19
     DEF LineInv, CopyInv

(* The line comes from main memory. *)
LEMMA MemoryAnswers ==
  ASSUME NEW x, NEW y, LineInv(x), NEW r \in L1s, NEW t \in {"Read", "ReadEx"},
         x.l2 = "InvToMod",
         x.held = {<<t, r>>},
         Serves(x, y, "Modified", x.dir, {}, {}, {Plain("DataExclusive", r)})
  PROVE  LineInv(y) /\ Fits(x, {Plain("DataExclusive", r)})
<1>1. /\ LineTypes(x) /\ \A q \in L1s : CopyInv(x, q)
      /\ HomeInv(x) /\ SharingInv(x) /\ OwningInv(x)
  BY DEF LineInv
<1>2. /\ y.lines = x.lines /\ y.l2 = "Modified"
      /\ y.dir = x.dir /\ y.held = {}
  BY <1>1 DEF Serves, LineTypes
<1>3. \A u, q : In(y, u, q) <=> In(x, u, q) \/ (u = "DataExclusive" /\ q = r)
  BY DEF Serves, In, Plain
<1>4. \A u, q, i : u \in {"ReadFwd", "ReadExFwd"} =>
        (Sent(y, u, q, i) <=> Sent(x, u, q, i))
  BY DEF Serves, Sent, Plain
<1>5. \A u, q : Waits(y, u, q) <=> FALSE
  BY <1>2 DEF Waits
<1>6. Sharing(x) /\ ~Sharing(y)
  BY <1>1, <1>2, <1>3, <1>4, <1>5 DEF Sharing
<1>7. \A q \in L1s : ~In(x, "FwdAckData", q) /\ ~In(x, "InvAck", q)
  BY <1>1, <1>2, <1>3, <1>4, <1>5, <1>6 DEF HomeInv, CopyInv, GoneInv
<1>8. \A u, q : Waits(x, u, q) <=> (u = t /\ q = r)
  BY DEF Waits
<1>9. x.dir = {r}
  <2>1. PICK i \in L1s, u \in {"Read", "ReadEx"} : x.dir = {i} /\ x.held = {<<u, i>>}
    BY <1>1, <1>2, <1>3, <1>4, <1>5, <1>6, <1>7, <1>8 DEF HomeInv
  <2>2. <<u, i>> \in {<<t, r>>}
    BY <2>1
  <2> QED
    BY <2>1, <2>2
<1>10. /\ x.lines[r] \in {"InvToShEx", "InvToMod"}
      /\ ~Leaves(x, r) /\ ~Promised(x, r) /\ ~Answering(x, r) /\ ~Asking(x, r)
  BY <1>1, <1>2, <1>3, <1>4, <1>5, <1>6, <1>7, <1>8, <1>9 DEF CopyInv, TokenInv,
     GoneInv, OneTokenInv, Serving, Queuing
<1>11. \A q \in L1s \ {r} : ~Present(x, q)
  BY <1>1, <1>2, <1>3, <1>4, <1>5, <1>6, <1>7, <1>8, <1>9, <1>10 DEF CopyInv,
      EntryInv,
     SharingInv
<1>12. \A q, i \in L1s : ~Sent(x, "ReadFwd", q, i) /\ ~Sent(x, "ReadExFwd", q, i)
  BY <1>1, <1>2, <1>3, <1>4, <1>5, <1>6, <1>7, <1>8, <1>9, <1>10, <1>11 DEF Present,
     Serving, Promised
<1>13. PICK j \in [L1s -> Int] : \A q \in L1s : j[q] = 0
  <2>1. [q \in L1s |-> 0] \in [L1s -> Int]
    OBVIOUS
  <2> QED
    BY <2>1
<1>14. LineTypes(y)
  BY <1>1, <1>2 DEF Serves, LineTypes, L1State, L1Replaceable, L2State, L2Transient,
     L2Buffered, L2Replaceable, Owned, L1Buffered, L1Transient
<1>15. \A q \in L1s : TokenInv(y, q)
  BY <1>1, <1>2, <1>3, <1>4, <1>5, <1>6, <1>7, <1>8, <1>9, <1>10, <1>11, <1>12, <1>13
     DEF CopyInv, TokenInv, OneTokenInv, GoneInv, Asking, Serving, Queuing, Promised,
     Answering, Leaves, Owned, L1Buffered
<1>16. \A q \in L1s : OneTokenInv(y, q)
  BY <1>1, <1>2, <1>3, <1>4, <1>5, <1>6, <1>7, <1>8, <1>9, <1>10, <1>11, <1>12, <1>13
     DEF CopyInv, TokenInv, OneTokenInv, Asking, Serving, Queuing, Promised,
         Answering,
     GoneInv, Leaves
<1>17. \A q \in L1s : TrackInv(y, q)
  BY <1>1, <1>2, <1>3, <1>4, <1>5, <1>6, <1>7, <1>8, <1>9, <1>10, <1>11, <1>12, <1>13
     DEF CopyInv, TrackInv, Asking, Serving, Queuing, Promised, Answering,
         L1Transient,
     Owned, L1Buffered, TokenInv
<1>18. \A q \in L1s : GoneInv(y, q)
  BY <1>1, <1>2, <1>3, <1>4, <1>5, <1>6, <1>7, <1>8, <1>9, <1>10, <1>11, <1>12, <1>13
     DEF CopyInv, GoneInv, TokenInv, Leaves, Asking, Serving, Queuing, Promised,
     Answering, L1Buffered, Readable, Owned
<1>19. \A q \in L1s : AckInv(y, q)
  BY <1>1, <1>2, <1>3, <1>4, <1>5, <1>6, <1>7, <1>8, <1>9, <1>10, <1>11, <1>12, <1>13
     DEF CopyInv, AckInv, Leaves, L1Buffered, Owned, TokenInv
<1>20. \A q \in L1s : RecallInv(y, q)
  BY <1>1, <1>2, <1>3, <1>4, <1>5, <1>6, <1>7, <1>8, <1>9, <1>10, <1>11, <1>12, <1>13
     DEF CopyInv, RecallInv, Leaves, L1Buffered, Queuing, Owned, TokenInv
<1>21. \A q \in L1s : EntryInv(y, q)
  BY <1>1, <1>2, <1>3, <1>4, <1>5, <1>6, <1>7, <1>8, <1>9, <1>10, <1>11, <1>12, <1>13
     DEF CopyInv, EntryInv, Leaves, Present, Readable, Owes, Serving, Queuing,
         Promised,
     Answering, Owned, L1Buffered, TokenInv
<1>22. HomeInv(y)
  BY <1>1, <1>2, <1>3, <1>4, <1>5, <1>6, <1>7, <1>8, <1>9, <1>10, <1>11, <1>12, <1>13
     DEF HomeInv, Recalled, Leaves, L1Buffered
<1>23. SharingInv(y)
  BY <1>1, <1>2, <1>3, <1>4, <1>5, <1>6, <1>7, <1>8, <1>9, <1>10, <1>11, <1>12, <1>13
     DEF SharingInv, Sharing, Owned, Owes, CopyInv, TokenInv
<1>24. OwningInv(y)
  <2>1. \A q \in L1s \ {r} : x.lines[q] \notin Readable /\ ~Answering(x, q)
    BY <1>1, <1>2, <1>3, <1>4, <1>5, <1>6, <1>7, <1>8, <1>9, <1>10, <1>11, <1>12,
        <1>13
       DEF Present, Serving
  <2>2. \A q \in L1s : Holds(y, q) => q = r
    BY <2>1, <1>1, <1>2, <1>3, <1>4, <1>5, <1>6, <1>7, <1>8, <1>9, <1>10, <1>11,
        <1>12,
       <1>13 DEF Holds, Owes, Owned, Readable, Answering
  <2>3. \A q \in L1s : Expects(y, q) => q = r
    BY <2>1, <2>2, <1>1, <1>2, <1>3, <1>4, <1>5, <1>6, <1>7, <1>8, <1>9, <1>10, <1>11,
       <1>12, <1>13 DEF Expects
  <2>4. ChainInv(y, j, r)
    BY <2>1, <2>2, <2>3, <1>1, <1>2, <1>3, <1>4, <1>5, <1>6, <1>7, <1>8, <1>9, <1>10,
       <1>11, <1>12, <1>13 DEF ChainInv, Owes, Readable, Answering, Serving
  <2> QED
    BY <2>4 DEF OwningInv
<1>25. Fits(x, {Plain("DataExclusive", r)})
  BY <1>1, <1>10 DEF Fits, Late, In, Plain, Answering
<1> QED
  BY <1>14, <1>15, <1>16, <1>17, <1>18, <1>19, <1>20, <1>21, <1>22, <1>23, <1>24,
      <1>25
     DEF LineInv, CopyInv

(* A sharer gives up its copy by itself. *)
LEMMA ReplaceShared ==
  ASSUME NEW x, NEW y, LineInv(x), NEW p \in L1s,
         In(x, "Replace", p),
         x.l2 \in {"Shared", "ModToSh"},
         Serves(x, y, x.l2, x.dir \ {p}, x.held, {Plain("Replace", p)},
           {Plain("ReplaceAck", p)})
  PROVE  LineInv(y) /\ Fits(x, {Plain("ReplaceAck", p)})
<1>1. /\ LineTypes(x) /\ \A q \in L1s : CopyInv(x, q)
      /\ HomeInv(x) /\ SharingInv(x) /\ OwningInv(x)
  BY DEF LineInv
<1>2. /\ y.lines = x.lines /\ y.l2 = x.l2
      /\ y.dir = x.dir \ {p} /\ y.held = x.held
  BY <1>1 DEF Serves, LineTypes
<1>3. \A u, q : In(y, u, q) <=>
        (In(x, u, q) /\ ~(u = "Replace" /\ q = p)) \/ (u = "ReplaceAck" /\ q = p)
  BY DEF Serves, In, Plain
<1>4. \A u, q, r : u \in {"ReadFwd", "ReadExFwd"} =>
        (Sent(y, u, q, r) <=> Sent(x, u, q, r))
  BY DEF Serves, Sent, Plain
<1>5. \A u, q : Waits(y, u, q) <=> Waits(x, u, q)
  BY <1>2 DEF Waits
<1>6. Sharing(x) <=> Sharing(y)
  BY <1>1, <1>2, <1>3, <1>4, <1>5 DEF Sharing
<1>7. x.lines[p] = "ShToInv" /\ ~In(x, "WriteBack", p)
  BY <1>1, <1>2, <1>3, <1>4, <1>5, <1>6 DEF CopyInv, GoneInv, Leaves, L1Buffered
<1>8. LineTypes(y)
  BY <1>1, <1>2 DEF Serves, LineTypes, L1State, L1Replaceable, L2State, L2Transient,
     L2Buffered, L2Replaceable, Owned, L1Buffered, L1Transient
<1>9. \A q \in L1s : TokenInv(y, q)
  BY <1>1, <1>2, <1>3, <1>4, <1>5, <1>6, <1>7 DEF CopyInv, TokenInv, OneTokenInv,
     GoneInv, Asking, Serving, Queuing, Promised, Answering, Leaves, Owned, L1Buffered
<1>10. \A q \in L1s : OneTokenInv(y, q)
  BY <1>1, <1>2, <1>3, <1>4, <1>5, <1>6, <1>7 DEF CopyInv, TokenInv, OneTokenInv,
     Asking, Serving, Queuing, Promised, Answering, GoneInv, Leaves
<1>11. \A q \in L1s : TrackInv(y, q)
  BY <1>1, <1>2, <1>3, <1>4, <1>5, <1>6, <1>7 DEF CopyInv, TrackInv, Asking, Serving,
     Queuing, Promised, Answering, L1Transient, Owned, L1Buffered, TokenInv
<1>12. \A q \in L1s : GoneInv(y, q)
  BY <1>1, <1>2, <1>3, <1>4, <1>5, <1>6, <1>7 DEF CopyInv, GoneInv, TokenInv, Leaves,
     Asking, Serving, Queuing, Promised, Answering, L1Buffered, Readable, Owned
<1>13. \A q \in L1s : AckInv(y, q)
  BY <1>1, <1>2, <1>3, <1>4, <1>5, <1>6, <1>7 DEF CopyInv, AckInv, Leaves, L1Buffered,
     Owned, RecallInv, GoneInv
<1>14. \A q \in L1s : RecallInv(y, q)
  BY <1>1, <1>2, <1>3, <1>4, <1>5, <1>6, <1>7 DEF CopyInv, RecallInv, Leaves,
     L1Buffered, Queuing, Owned, TokenInv
<1>15. \A q \in L1s : EntryInv(y, q)
  BY <1>1, <1>2, <1>3, <1>4, <1>5, <1>6, <1>7 DEF CopyInv, EntryInv, Leaves, Present,
     Readable, Owes, Serving, Queuing, Promised, Answering, Owned, L1Buffered,
         TokenInv
<1>16. HomeInv(y)
  BY <1>1, <1>2, <1>3, <1>4, <1>5, <1>6, <1>7 DEF HomeInv, Recalled, Leaves,
      L1Buffered
<1>17. SharingInv(y)
  BY <1>1, <1>2, <1>3, <1>4, <1>5, <1>6, <1>7 DEF SharingInv, Sharing, Owned, Owes,
     CopyInv, TokenInv
<1>18. OwningInv(y)
  <2> SUFFICES ASSUME ~Sharing(y)
               PROVE  \E k \in [L1s -> Int], o \in L1s : ChainInv(y, k, o)
    BY DEF OwningInv
  <2>1. ~Sharing(x)
    BY <1>1, <1>2, <1>3, <1>4, <1>5, <1>6, <1>7 DEF Sharing
  <2>2. PICK k \in [L1s -> Int], o \in L1s : ChainInv(x, k, o)
    BY <2>1, <1>1 DEF OwningInv
  <2>3. ChainInv(y, k, o)
    BY <2>2, <1>1, <1>2, <1>3, <1>4, <1>5, <1>6, <1>7 DEF ChainInv, Holds, Expects,
       Owes, Owned, Sharing
  <2> QED
    BY <2>3
<1>19. Fits(x, {Plain("ReplaceAck", p)})
  BY <1>1 DEF Fits, Late, In, Plain, CopyInv, TokenInv, GoneInv, AckInv, RecallInv,
     Leaves, Readable, Owned
<1> QED
  BY <1>8, <1>9, <1>10, <1>11, <1>12, <1>13, <1>14, <1>15, <1>16, <1>17, <1>18, <1>19
     DEF LineInv, CopyInv

(* A copy that was called in is given up: for a line that leaves the L2, and
   for a requester, who is served when it was the last one. *)

LEMMA GoneEvicted ==
  ASSUME NEW x, NEW y, LineInv(x), NEW p \in L1s, NEW t \in {"Replace", "InvAck"},
    NEW s,
         In(x, t, p),
         ~In(x, "Upgrade", p),
         x.l2 = "ShToInv",
         \/ x.dir = {p} /\ s = "NotPresent"
         \/ x.dir # {p} /\ s = "ShToInv",
         Serves(x, y, s, x.dir \ {p}, x.held, {Plain(t, p)}, {})
  PROVE  LineInv(y)
<1>1. /\ LineTypes(x) /\ \A q \in L1s : CopyInv(x, q)
      /\ HomeInv(x) /\ SharingInv(x) /\ OwningInv(x)
  BY DEF LineInv
<1>2. /\ y.lines = x.lines /\ y.l2 = s
      /\ y.dir = x.dir \ {p} /\ y.held = x.held
  BY <1>1 DEF Serves, LineTypes
<1>3. \A u, q : In(y, u, q) <=> In(x, u, q) /\ ~(u = t /\ q = p)
  BY DEF Serves, In, Plain
<1>4. \A u, q, r : u \in {"ReadFwd", "ReadExFwd"} =>
        (Sent(y, u, q, r) <=> Sent(x, u, q, r))
  BY DEF Serves, Sent, Plain
<1>5. \A u, q : Waits(y, u, q) <=> Waits(x, u, q)
  BY <1>2 DEF Waits
<1>6. Sharing(x) /\ Sharing(y)
  BY <1>1, <1>2, <1>3, <1>4, <1>5 DEF Sharing
<1>7. \A q \in L1s : ~In(x, "FwdAckData", q)
  BY <1>1, <1>2, <1>3, <1>4, <1>5, <1>6 DEF HomeInv
<1>8. p \in x.dir /\ ~Serving(x, p) /\ ~Present(x, p)
  BY <1>1, <1>2, <1>3, <1>4, <1>5, <1>6, <1>7 DEF CopyInv, GoneInv, Leaves,
      L1Buffered,
     Present
<1>9. Recalled(x, p)
  BY <1>1, <1>2, <1>3, <1>4, <1>5, <1>6, <1>7, <1>8 DEF HomeInv
<1>10. /\ x.lines[p] \in L1Buffered <=> In(x, "Invalidate", p)
      /\ ~In(x, "WriteBack", p) /\ \A u \in {"InvAck", "Replace"} : In(x, u, p)
          => u = t
  BY <1>1, <1>2, <1>3, <1>4, <1>5, <1>6, <1>7, <1>8, <1>9 DEF CopyInv, GoneInv,
     Recalled, Leaves
<1>11. LineTypes(y)
  BY <1>1, <1>2 DEF Serves, LineTypes, L1State, L1Replaceable, L2State, L2Transient,
     L2Buffered, L2Replaceable, Owned, L1Buffered, L1Transient
<1>12. \A q \in L1s : TokenInv(y, q)
  BY <1>1, <1>2, <1>3, <1>4, <1>5, <1>6, <1>7, <1>8, <1>9, <1>10 DEF CopyInv,
      TokenInv,
     OneTokenInv, GoneInv, Asking, Serving, Queuing, Promised, Answering, Leaves,
         Owned,
     L1Buffered
<1>13. \A q \in L1s : OneTokenInv(y, q)
  BY <1>1, <1>2, <1>3, <1>4, <1>5, <1>6, <1>7, <1>8, <1>9, <1>10 DEF CopyInv,
      TokenInv,
     OneTokenInv, Asking, Serving, Queuing, Promised, Answering, GoneInv, Leaves
<1>14. \A q \in L1s : TrackInv(y, q)
  BY <1>1, <1>2, <1>3, <1>4, <1>5, <1>6, <1>7, <1>8, <1>9, <1>10 DEF CopyInv,
      TrackInv,
     Asking, Serving, Queuing, Promised, Answering, L1Transient, Owned, L1Buffered,
     TokenInv
<1>15. \A q \in L1s : GoneInv(y, q)
  BY <1>1, <1>2, <1>3, <1>4, <1>5, <1>6, <1>7, <1>8, <1>9, <1>10 DEF CopyInv, GoneInv,
     TokenInv, Leaves, Asking, Serving, Queuing, Promised, Answering, L1Buffered,
     Readable, Owned
<1>16. \A q \in L1s : AckInv(y, q)
  BY <1>1, <1>2, <1>3, <1>4, <1>5, <1>6, <1>7, <1>8, <1>9, <1>10 DEF CopyInv, AckInv,
     Leaves, L1Buffered, Owned, TokenInv
<1>17. \A q \in L1s : RecallInv(y, q)
  BY <1>1, <1>2, <1>3, <1>4, <1>5, <1>6, <1>7, <1>8, <1>9, <1>10 DEF CopyInv,
      RecallInv,
     Leaves, L1Buffered, Queuing, Owned, TokenInv
<1>18. \A q \in L1s : EntryInv(y, q)
  BY <1>1, <1>2, <1>3, <1>4, <1>5, <1>6, <1>7, <1>8, <1>9, <1>10 DEF CopyInv,
      EntryInv,
     Leaves, Present, Readable, Owes, Serving, Queuing, Promised, Answering, Owned,
     L1Buffered, TokenInv
<1>19. HomeInv(y)
  BY <1>1, <1>2, <1>3, <1>4, <1>5, <1>6, <1>7, <1>8, <1>9, <1>10 DEF HomeInv,
      Recalled,
     Leaves, L1Buffered
<1>20. SharingInv(y)
  BY <1>1, <1>2, <1>3, <1>4, <1>5, <1>6, <1>7, <1>8, <1>9, <1>10 DEF SharingInv,
     Sharing, Owned, Owes, CopyInv, TokenInv
<1>21. OwningInv(y)
  BY <1>1, <1>2, <1>3, <1>4, <1>5, <1>6, <1>7, <1>8, <1>9, <1>10 DEF OwningInv,
      Sharing,
     ChainInv, Holds, Expects, Owes, Owned, L1Buffered
<1> QED
  BY <1>11, <1>12, <1>13, <1>14, <1>15, <1>16, <1>17, <1>18, <1>19, <1>20, <1>21
     DEF LineInv, CopyInv

LEMMA GoneCollected ==
  ASSUME NEW x, NEW y, LineInv(x), NEW p \in L1s, NEW t \in {"Replace", "InvAck"},
         In(x, t, p),
         ~In(x, "Upgrade", p),
         x.l2 = "ShToMod",
         \A r : x.dir \ {p} # {r},
         Serves(x, y, "ShToMod", x.dir \ {p}, x.held, {Plain(t, p)}, {})
  PROVE  LineInv(y)
<1>1. /\ LineTypes(x) /\ \A q \in L1s : CopyInv(x, q)
      /\ HomeInv(x) /\ SharingInv(x) /\ OwningInv(x)
  BY DEF LineInv
<1>2. /\ y.lines = x.lines /\ y.l2 = "ShToMod"
      /\ y.dir = x.dir \ {p} /\ y.held = x.held
  BY <1>1 DEF Serves, LineTypes
<1>3. \A u, q : In(y, u, q) <=> In(x, u, q) /\ ~(u = t /\ q = p)
  BY DEF Serves, In, Plain
<1>4. \A u, q, r : u \in {"ReadFwd", "ReadExFwd"} =>
        (Sent(y, u, q, r) <=> Sent(x, u, q, r))
  BY DEF Serves, Sent, Plain
<1>5. \A u, q : Waits(y, u, q) <=> Waits(x, u, q)
  BY <1>2 DEF Waits
<1>6. Sharing(x) /\ Sharing(y)
  BY <1>1, <1>2, <1>3, <1>4, <1>5 DEF Sharing
<1>7. \A q \in L1s : ~In(x, "FwdAckData", q)
  BY <1>1, <1>2, <1>3, <1>4, <1>5, <1>6 DEF HomeInv
<1>8. p \in x.dir /\ ~Serving(x, p) /\ ~Present(x, p)
  BY <1>1, <1>2, <1>3, <1>4, <1>5, <1>6, <1>7 DEF CopyInv, GoneInv, Leaves,
      L1Buffered,
     Present
<1>9. /\ Recalled(x, p)
      /\ \E r \in x.dir, v \in {"ReadEx", "Upgrade"} :
           /\ r # p /\ x.held = {<<v, r>>} /\ \A q \in x.dir \ {r} : Recalled(x, q)
  BY <1>1, <1>2, <1>3, <1>4, <1>5, <1>6, <1>7, <1>8 DEF HomeInv, Serving, Queuing,
      Waits
<1>10. /\ x.lines[p] \in L1Buffered <=> In(x, "Invalidate", p)
      /\ ~In(x, "WriteBack", p) /\ \A u \in {"InvAck", "Replace"} : In(x, u, p)
          => u = t
  BY <1>1, <1>2, <1>3, <1>4, <1>5, <1>6, <1>7, <1>8, <1>9 DEF CopyInv, GoneInv,
     Recalled, Leaves
<1>11. LineTypes(y)
  BY <1>1, <1>2 DEF Serves, LineTypes, L1State, L1Replaceable, L2State, L2Transient,
     L2Buffered, L2Replaceable, Owned, L1Buffered, L1Transient
<1>12. \A q \in L1s : TokenInv(y, q)
  BY <1>1, <1>2, <1>3, <1>4, <1>5, <1>6, <1>7, <1>8, <1>9, <1>10 DEF CopyInv,
      TokenInv,
     OneTokenInv, GoneInv, Asking, Serving, Queuing, Promised, Answering, Leaves,
         Owned,
     L1Buffered
<1>13. \A q \in L1s : OneTokenInv(y, q)
  BY <1>1, <1>2, <1>3, <1>4, <1>5, <1>6, <1>7, <1>8, <1>9, <1>10 DEF CopyInv,
      TokenInv,
     OneTokenInv, Asking, Serving, Queuing, Promised, Answering, GoneInv, Leaves
<1>14. \A q \in L1s : TrackInv(y, q)
  BY <1>1, <1>2, <1>3, <1>4, <1>5, <1>6, <1>7, <1>8, <1>9, <1>10 DEF CopyInv,
      TrackInv,
     Asking, Serving, Queuing, Promised, Answering, L1Transient, Owned, L1Buffered,
     TokenInv
<1>15. \A q \in L1s : GoneInv(y, q)
  BY <1>1, <1>2, <1>3, <1>4, <1>5, <1>6, <1>7, <1>8, <1>9, <1>10 DEF CopyInv, GoneInv,
     TokenInv, Leaves, Asking, Serving, Queuing, Promised, Answering, L1Buffered,
     Readable, Owned
<1>16. \A q \in L1s : AckInv(y, q)
  BY <1>1, <1>2, <1>3, <1>4, <1>5, <1>6, <1>7, <1>8, <1>9, <1>10 DEF CopyInv, AckInv,
     Leaves, L1Buffered, Owned, TokenInv
<1>17. \A q \in L1s : RecallInv(y, q)
  BY <1>1, <1>2, <1>3, <1>4, <1>5, <1>6, <1>7, <1>8, <1>9, <1>10 DEF CopyInv,
      RecallInv,
     Leaves, L1Buffered, Queuing, Owned, TokenInv
<1>18. \A q \in L1s : EntryInv(y, q)
  BY <1>1, <1>2, <1>3, <1>4, <1>5, <1>6, <1>7, <1>8, <1>9, <1>10 DEF CopyInv,
      EntryInv,
     Leaves, Present, Readable, Owes, Serving, Queuing, Promised, Answering, Owned,
     L1Buffered, TokenInv
<1>19. HomeInv(y)
  BY <1>1, <1>2, <1>3, <1>4, <1>5, <1>6, <1>7, <1>8, <1>9, <1>10 DEF HomeInv,
      Recalled,
     Leaves
<1>20. SharingInv(y)
  BY <1>1, <1>2, <1>3, <1>4, <1>5, <1>6, <1>7, <1>8, <1>9, <1>10 DEF SharingInv,
     Sharing, Owned, Owes, CopyInv, TokenInv
<1>21. OwningInv(y)
  BY <1>1, <1>2, <1>3, <1>4, <1>5, <1>6, <1>7, <1>8, <1>9, <1>10 DEF OwningInv,
      Sharing,
     ChainInv, Holds, Expects, Owes, Owned, L1Buffered
<1> QED
  BY <1>11, <1>12, <1>13, <1>14, <1>15, <1>16, <1>17, <1>18, <1>19, <1>20, <1>21
     DEF LineInv, CopyInv

(* e is all there is in S. *)
Sole(S, e) == S = {e}

LEMMA GoneLast ==
  ASSUME NEW x, NEW y, LineInv(x), NEW p \in L1s, NEW t \in {"Replace", "InvAck"},
    NEW r \in L1s, NEW v, NEW g,
         In(x, t, p),
         ~In(x, "Upgrade", p),
         x.l2 = "ShToMod",
         Sole(x.dir \ {p}, r),
         Sole(x.held, <<v, r>>),
         \/ v = "Upgrade" /\ g = "UpgradeAck"
         \/ v = "ReadEx" /\ g = "DataExclusive",
         Serves(x, y, "Modified", {r}, {}, {Plain(t, p)}, {Plain(g, r)})
  PROVE  LineInv(y) /\ Fits(x, {Plain(g, r)})
<1>1. /\ LineTypes(x) /\ \A q \in L1s : CopyInv(x, q)
      /\ HomeInv(x) /\ SharingInv(x) /\ OwningInv(x)
  BY DEF LineInv
<1>0. x.dir \ {p} = {r} /\ x.held = {<<v, r>>}
  BY DEF Sole
<1>2. /\ y.lines = x.lines /\ y.l2 = "Modified"
      /\ y.dir = {r} /\ y.held = {}
  BY <1>0, <1>1 DEF Serves, LineTypes
<1>3. \A u, q : In(y, u, q) <=> (In(x, u, q) /\ ~(u = t /\ q = p)) \/ (u = g /\ q = r)
  BY <1>0 DEF Serves, In, Plain
<1>4. \A u, q, i : u \in {"ReadFwd", "ReadExFwd"} =>
        (Sent(y, u, q, i) <=> Sent(x, u, q, i))
  BY DEF Serves, Sent, Plain
<1>5. \A u, q : Waits(y, u, q) <=> FALSE
  BY <1>2 DEF Waits
<1>6. Sharing(x) /\ ~Sharing(y)
  BY <1>0, <1>1, <1>2, <1>3, <1>4, <1>5 DEF Sharing
<1>7. \A q \in L1s : ~In(x, "FwdAckData", q)
  BY <1>0, <1>1, <1>2, <1>3, <1>4, <1>5, <1>6 DEF HomeInv
<1>8. p \in x.dir /\ ~Serving(x, p) /\ ~Present(x, p)
  BY <1>0, <1>1, <1>2, <1>3, <1>4, <1>5, <1>6, <1>7 DEF CopyInv, GoneInv, Leaves,
      L1Buffered,
     Present
<1>9. \A u, q : Waits(x, u, q) <=> (u = v /\ q = r)
  BY <1>0 DEF Waits
<1>10. r # p /\ Recalled(x, p)
  BY <1>0, <1>1, <1>2, <1>3, <1>4, <1>5, <1>6, <1>7, <1>8, <1>9 DEF HomeInv, Serving,
      Queuing,
     Waits
<1>11. /\ x.lines[p] \in L1Buffered <=> In(x, "Invalidate", p)
      /\ ~In(x, "WriteBack", p) /\ \A u \in {"InvAck", "Replace"} : In(x, u, p)
          => u = t
  BY <1>0, <1>1, <1>2, <1>3, <1>4, <1>5, <1>6, <1>7, <1>8, <1>9, <1>10 DEF CopyInv,
      GoneInv,
     Recalled, Leaves
<1>12. /\ x.lines[r] \in {"InvToMod", "ShToMod"} /\ ~In(x, "Invalidate", r)
      /\ ~Leaves(x, r) /\ ~Promised(x, r) /\ ~Answering(x, r) /\ ~Asking(x, r)
  BY <1>0, <1>1, <1>2, <1>3, <1>4, <1>5, <1>6, <1>7, <1>8, <1>9, <1>10, <1>11
      DEF CopyInv,
     TokenInv, GoneInv, OneTokenInv, Serving, Queuing, RecallInv
<1>13. \A q \in L1s \ {r} : ~Present(x, q)
  BY <1>0, <1>1, <1>2, <1>3, <1>4, <1>5, <1>6, <1>7, <1>8, <1>9, <1>10, <1>11, <1>12
     DEF CopyInv, EntryInv, SharingInv
<1>14. \A q, i \in L1s : ~Sent(x, "ReadFwd", q, i) /\ ~Sent(x, "ReadExFwd", q, i)
  BY <1>0, <1>1, <1>2, <1>3, <1>4, <1>5, <1>6, <1>7, <1>8, <1>9, <1>10, <1>11, <1>12,
      <1>13
     DEF Present, Serving, Promised
<1>15. PICK j \in [L1s -> Int] : \A q \in L1s : j[q] = 0
  <2>1. [q \in L1s |-> 0] \in [L1s -> Int]
    OBVIOUS
  <2> QED
    BY <2>1
<1>16. ~Late(x, r) /\ ~Owes(x, "ReadFwd", r) /\ ~Owes(x, "ReadExFwd", r)
  BY <1>0, <1>1, <1>2, <1>3, <1>4, <1>5, <1>6, <1>7, <1>8, <1>9, <1>10, <1>11, <1>12,
      <1>13,
     <1>14, <1>15 DEF Late, CopyInv, AckInv, Owes
<1>17. LineTypes(y)
  BY <1>0, <1>1, <1>2 DEF Serves, LineTypes, L1State, L1Replaceable, L2State,
      L2Transient,
     L2Buffered, L2Replaceable, Owned, L1Buffered, L1Transient
<1>18. \A q \in L1s : TokenInv(y, q)
  BY <1>0, <1>1, <1>2, <1>3, <1>4, <1>5, <1>6, <1>7, <1>8, <1>9, <1>10, <1>11, <1>12,
      <1>13,
     <1>14, <1>15, <1>16 DEF CopyInv, TokenInv, OneTokenInv, GoneInv, Asking, Serving,
     Queuing, Promised, Answering, Leaves, Owned, L1Buffered
<1>19. \A q \in L1s : OneTokenInv(y, q)
  BY <1>0, <1>1, <1>2, <1>3, <1>4, <1>5, <1>6, <1>7, <1>8, <1>9, <1>10, <1>11, <1>12,
      <1>13,
     <1>14, <1>15, <1>16 DEF CopyInv, TokenInv, OneTokenInv, Asking, Serving, Queuing,
     Promised, Answering, GoneInv, Leaves
<1>20. \A q \in L1s : TrackInv(y, q)
  BY <1>0, <1>1, <1>2, <1>3, <1>4, <1>5, <1>6, <1>7, <1>8, <1>9, <1>10, <1>11, <1>12,
      <1>13,
     <1>14, <1>15, <1>16 DEF CopyInv, TrackInv, Asking, Serving, Queuing, Promised,
     Answering, L1Transient, Owned, L1Buffered, TokenInv
<1>21. \A q \in L1s : GoneInv(y, q)
  BY <1>0, <1>1, <1>2, <1>3, <1>4, <1>5, <1>6, <1>7, <1>8, <1>9, <1>10, <1>11, <1>12,
      <1>13,
     <1>14, <1>15, <1>16 DEF CopyInv, GoneInv, TokenInv, Leaves, Asking, Serving,
     Queuing, Promised, Answering, L1Buffered, Readable, Owned
<1>22. \A q \in L1s : AckInv(y, q)
  BY <1>0, <1>1, <1>2, <1>3, <1>4, <1>5, <1>6, <1>7, <1>8, <1>9, <1>10, <1>11, <1>12,
      <1>13,
     <1>14, <1>15, <1>16 DEF CopyInv, AckInv, Leaves, L1Buffered, Owned, TokenInv
<1>23. \A q \in L1s : RecallInv(y, q)
  BY <1>0, <1>1, <1>2, <1>3, <1>4, <1>5, <1>6, <1>7, <1>8, <1>9, <1>10, <1>11, <1>12,
      <1>13,
     <1>14, <1>15, <1>16 DEF CopyInv, RecallInv, Leaves, L1Buffered, Queuing, Owned,
     TokenInv
<1>24. \A q \in L1s : EntryInv(y, q)
  BY <1>0, <1>1, <1>2, <1>3, <1>4, <1>5, <1>6, <1>7, <1>8, <1>9, <1>10, <1>11, <1>12,
      <1>13,
     <1>14, <1>15, <1>16 DEF CopyInv, EntryInv, Leaves, Present, Readable, Owes,
     Serving, Queuing, Promised, Answering, Owned, L1Buffered, TokenInv
<1>25. HomeInv(y)
  BY <1>0, <1>1, <1>2, <1>3, <1>4, <1>5, <1>6, <1>7, <1>8, <1>9, <1>10, <1>11, <1>12,
      <1>13,
     <1>14, <1>15, <1>16 DEF HomeInv, Recalled, Leaves, L1Buffered
<1>26. SharingInv(y)
  BY <1>0, <1>1, <1>2, <1>3, <1>4, <1>5, <1>6, <1>7, <1>8, <1>9, <1>10, <1>11, <1>12,
      <1>13,
     <1>14, <1>15, <1>16 DEF SharingInv, Sharing, Owned, Owes, CopyInv, TokenInv
<1>27. OwningInv(y)
  <2>1. \A q \in L1s \ {r} : x.lines[q] \notin Readable /\ ~Answering(x, q)
    BY <1>0, <1>1, <1>2, <1>3, <1>4, <1>5, <1>6, <1>7, <1>8, <1>9, <1>10, <1>11,
        <1>12, <1>13,
       <1>14, <1>15, <1>16 DEF Present, Serving
  <2>2. \A q \in L1s : Holds(y, q) => q = r
    BY <2>1, <1>1, <1>2, <1>3, <1>4, <1>5, <1>6, <1>7, <1>8, <1>9, <1>10, <1>11,
        <1>12,
       <1>13, <1>14, <1>15, <1>16 DEF Holds, Owes, Owned, Readable, Answering
  <2>3. \A q \in L1s : Expects(y, q) => q = r
    BY <2>1, <2>2, <1>1, <1>2, <1>3, <1>4, <1>5, <1>6, <1>7, <1>8, <1>9, <1>10, <1>11,
       <1>12, <1>13, <1>14, <1>15, <1>16 DEF Expects
  <2>4. x.lines[r] = "ShToMod" => g = "UpgradeAck"
    BY <1>0, <1>1, <1>2, <1>3, <1>4, <1>5, <1>6, <1>7, <1>8, <1>9, <1>10, <1>11,
        <1>12, <1>13,
       <1>14, <1>15, <1>16 DEF CopyInv, TokenInv
  <2>5. ChainInv(y, j, r)
    BY <2>1, <2>2, <2>3, <2>4, <1>1, <1>2, <1>3, <1>4, <1>5, <1>6, <1>7, <1>8, <1>9,
       <1>10, <1>11, <1>12, <1>13, <1>14, <1>15, <1>16 DEF ChainInv, Owes, Readable,
       Answering, Serving
  <2> QED
    BY <2>5 DEF OwningInv
<1>28. Fits(x, {Plain(g, r)})
  BY <1>12, <1>16 DEF Fits, Late, In, Plain, Answering
<1> QED
  BY <1>17, <1>18, <1>19, <1>20, <1>21, <1>22, <1>23, <1>24, <1>25, <1>26, <1>27,
      <1>28
     DEF LineInv, CopyInv

(* The write-back of an L1 that the directory no longer has, and of the owner of
   a line that is Modified, was forwarded, or was called in. *)

LEMMA StaleWriteBack ==
  ASSUME NEW x, NEW y, LineInv(x), NEW p \in L1s,
         In(x, "WriteBack", p),
         p \notin x.dir,
         Serves(x, y, x.l2, x.dir, x.held, {Plain("WriteBack", p)},
           {Plain("WriteBackAck", p)})
  PROVE  LineInv(y) /\ Fits(x, {Plain("WriteBackAck", p)})
<1>1. /\ LineTypes(x) /\ \A q \in L1s : CopyInv(x, q)
      /\ HomeInv(x) /\ SharingInv(x) /\ OwningInv(x)
  BY DEF LineInv
<1>2. /\ y.lines = x.lines /\ y.l2 = x.l2
      /\ y.dir = x.dir /\ y.held = x.held
  BY <1>1 DEF Serves, LineTypes
<1>3. \A u, q : In(y, u, q) <=>
        (In(x, u, q) /\ ~(u = "WriteBack" /\ q = p)) \/ (u = "WriteBackAck" /\ q = p)
  BY DEF Serves, In, Plain
<1>4. \A u, q, r : u \in {"ReadFwd", "ReadExFwd"} =>
        (Sent(y, u, q, r) <=> Sent(x, u, q, r))
  BY DEF Serves, Sent, Plain
<1>5. \A u, q : Waits(y, u, q) <=> Waits(x, u, q)
  BY <1>2 DEF Waits
<1>6. Sharing(x) <=> Sharing(y)
  BY <1>1, <1>2, <1>3, <1>4, <1>5 DEF Sharing
<1>7. LineTypes(y)
  BY <1>1, <1>2 DEF Serves, LineTypes, L1State, L1Replaceable, L2State, L2Transient,
     L2Buffered, L2Replaceable, Owned, L1Buffered, L1Transient
<1>8. \A q \in L1s : TokenInv(y, q)
  BY <1>1, <1>2, <1>3, <1>4, <1>5, <1>6 DEF CopyInv, TokenInv, OneTokenInv, GoneInv,
     Asking, Serving, Queuing, Promised, Answering, Leaves, Owned, L1Buffered
<1>9. \A q \in L1s : OneTokenInv(y, q)
  BY <1>1, <1>2, <1>3, <1>4, <1>5, <1>6 DEF CopyInv, TokenInv, OneTokenInv, Asking,
     Serving, Queuing, Promised, Answering, GoneInv, Leaves
<1>10. \A q \in L1s : TrackInv(y, q)
  BY <1>1, <1>2, <1>3, <1>4, <1>5, <1>6 DEF CopyInv, TrackInv, Asking, Serving,
      Queuing,
     Promised, Answering, L1Transient, Owned, L1Buffered, TokenInv
<1>11. \A q \in L1s : GoneInv(y, q)
  BY <1>1, <1>2, <1>3, <1>4, <1>5, <1>6 DEF CopyInv, GoneInv, TokenInv, Leaves,
      Asking,
     Serving, Queuing, Promised, Answering, L1Buffered, Readable, Owned
<1>12. \A q \in L1s : AckInv(y, q)
  BY <1>1, <1>2, <1>3, <1>4, <1>5, <1>6 DEF CopyInv, AckInv, Leaves, L1Buffered,
      Owned,
     RecallInv, GoneInv
<1>13. \A q \in L1s : RecallInv(y, q)
  BY <1>1, <1>2, <1>3, <1>4, <1>5, <1>6 DEF CopyInv, RecallInv, Leaves, L1Buffered,
     Queuing, Owned, TokenInv
<1>14. \A q \in L1s : EntryInv(y, q)
  BY <1>1, <1>2, <1>3, <1>4, <1>5, <1>6 DEF CopyInv, EntryInv, Leaves, Present,
     Readable, Owes, Serving, Queuing, Promised, Answering, Owned, L1Buffered,
         TokenInv
<1>15. \A q \in x.dir : Recalled(x, q) => Recalled(y, q)
  BY <1>1, <1>2, <1>3, <1>4, <1>5, <1>6 DEF LineTypes, Recalled, Leaves, L1Buffered,
     Owned, Readable, CopyInv, GoneInv
<1>16. HomeInv(y)
  <2>1. /\ \A q \in L1s : In(y, "FwdAckData", q) => x.l2 = "ModToSh"
        /\ \A q, r \in L1s : In(y, "FwdAckData", q) /\ In(y, "FwdAckData", r) => q = r
    BY <1>1, <1>2, <1>3, <1>4, <1>5, <1>6 DEF HomeInv
  <2> QED
    BY <1>1, <1>2, <1>15, <2>1, HomeKeeps DEF LineTypes
<1>17. SharingInv(y)
  BY <1>1, <1>2, <1>3, <1>4, <1>5, <1>6 DEF SharingInv, Sharing, Owned, Owes, CopyInv,
     TokenInv
<1>18. OwningInv(y)
  <2> SUFFICES ASSUME ~Sharing(y)
               PROVE  \E k \in [L1s -> Int], o \in L1s : ChainInv(y, k, o)
    BY DEF OwningInv
  <2>1. ~Sharing(x)
    BY <1>1, <1>2, <1>3, <1>4, <1>5, <1>6 DEF Sharing
  <2>2. PICK k \in [L1s -> Int], o \in L1s : ChainInv(x, k, o)
    BY <2>1, <1>1 DEF OwningInv
  <2>3. ChainInv(y, k, o)
    BY <2>2, <1>1, <1>2, <1>3, <1>4, <1>5, <1>6 DEF ChainInv, Holds, Expects, Owes,
       Owned, Sharing
  <2> QED
    BY <2>3
<1>19. Fits(x, {Plain("WriteBackAck", p)})
  BY <1>1 DEF Fits, Late, In, Plain, CopyInv, TokenInv, GoneInv, AckInv, RecallInv,
     Leaves, Readable, Owned
<1> QED
  BY <1>7, <1>8, <1>9, <1>10, <1>11, <1>12, <1>13, <1>14, <1>16, <1>17, <1>18, <1>19
     DEF LineInv, CopyInv

LEMMA WriteBackLast ==
  ASSUME NEW x, NEW y, LineInv(x), NEW p \in L1s,
         In(x, "WriteBack", p),
         p \in x.dir,
         x.l2 = "Modified",
         Serves(x, y, "Shared", {}, x.held, {Plain("WriteBack", p)},
           {Plain("WriteBackAck", p)})
  PROVE  LineInv(y) /\ Fits(x, {Plain("WriteBackAck", p)})
<1>1. /\ LineTypes(x) /\ \A q \in L1s : CopyInv(x, q)
      /\ HomeInv(x) /\ SharingInv(x) /\ OwningInv(x)
  BY DEF LineInv
<1>2. /\ y.lines = x.lines /\ y.l2 = "Shared"
      /\ y.dir = {} /\ y.held = x.held
  BY <1>1 DEF Serves, LineTypes
<1>3. \A u, q : In(y, u, q) <=>
        (In(x, u, q) /\ ~(u = "WriteBack" /\ q = p)) \/ (u = "WriteBackAck" /\ q = p)
  BY DEF Serves, In, Plain
<1>4. \A u, q, r : u \in {"ReadFwd", "ReadExFwd"} =>
        (Sent(y, u, q, r) <=> Sent(x, u, q, r))
  BY DEF Serves, Sent, Plain
<1>5. \A u, q : Waits(y, u, q) <=> Waits(x, u, q)
  BY <1>2 DEF Waits
<1>6. ~Sharing(x) /\ Sharing(y)
  BY <1>1, <1>2, <1>3, <1>4, <1>5 DEF Sharing
<1>7. \A q \in L1s : ~In(x, "FwdAckData", q)
  BY <1>1, <1>2, <1>3, <1>4, <1>5, <1>6 DEF HomeInv
<1>8. PICK k \in [L1s -> Int], o \in L1s : ChainInv(x, k, o)
  BY <1>1, <1>2, <1>3, <1>4, <1>5, <1>6, <1>7 DEF OwningInv
<1>9. x.lines[p] = "ModToInv" /\ Holds(x, p) /\ x.dir = {p} /\ o = p
  BY <1>1, <1>2, <1>3, <1>4, <1>5, <1>6, <1>7, <1>8 DEF CopyInv, GoneInv, Leaves,
     L1Buffered, Holds, ChainInv
<1>10. \A q, r \in L1s : ~Sent(x, "ReadExFwd", q, r)
  BY <1>1, <1>2, <1>3, <1>4, <1>5, <1>6, <1>7, <1>8, <1>9 DEF ChainInv
<1>11. LineTypes(y)
  BY <1>1, <1>2 DEF Serves, LineTypes, L1State, L1Replaceable, L2State, L2Transient,
     L2Buffered, L2Replaceable, Owned, L1Buffered, L1Transient
<1>12. \A q \in L1s : TokenInv(y, q)
  BY <1>1, <1>2, <1>3, <1>4, <1>5, <1>6, <1>7, <1>8, <1>9, <1>10 DEF CopyInv,
      TokenInv,
     OneTokenInv, GoneInv, Asking, Serving, Queuing, Promised, Answering, Leaves,
         Owned,
     L1Buffered
<1>13. \A q \in L1s : OneTokenInv(y, q)
  BY <1>1, <1>2, <1>3, <1>4, <1>5, <1>6, <1>7, <1>8, <1>9, <1>10 DEF CopyInv,
      TokenInv,
     OneTokenInv, Asking, Serving, Queuing, Promised, Answering, GoneInv, Leaves
<1>14. \A q \in L1s : TrackInv(y, q)
  BY <1>1, <1>2, <1>3, <1>4, <1>5, <1>6, <1>7, <1>8, <1>9, <1>10 DEF CopyInv,
      TrackInv,
     Asking, Serving, Queuing, Promised, Answering, L1Transient, Owned, L1Buffered,
     TokenInv
<1>15. \A q \in L1s : GoneInv(y, q)
  BY <1>1, <1>2, <1>3, <1>4, <1>5, <1>6, <1>7, <1>8, <1>9, <1>10 DEF CopyInv, GoneInv,
     TokenInv, Leaves, Asking, Serving, Queuing, Promised, Answering, L1Buffered,
     Readable, Owned
<1>16. \A q \in L1s : AckInv(y, q)
  BY <1>1, <1>2, <1>3, <1>4, <1>5, <1>6, <1>7, <1>8, <1>9, <1>10 DEF CopyInv, AckInv,
     Leaves, L1Buffered, Owned, RecallInv, GoneInv
<1>17. \A q \in L1s : RecallInv(y, q)
  BY <1>1, <1>2, <1>3, <1>4, <1>5, <1>6, <1>7, <1>8, <1>9, <1>10 DEF CopyInv,
      RecallInv,
     Leaves, L1Buffered, Queuing, Owned, TokenInv
<1>18. \A q \in L1s : EntryInv(y, q)
  BY <1>1, <1>2, <1>3, <1>4, <1>5, <1>6, <1>7, <1>8, <1>9, <1>10 DEF CopyInv,
      EntryInv,
     Leaves, Present, Readable, Owes, Serving, Queuing, Promised, Answering, Owned,
     L1Buffered, TokenInv
<1>19. HomeInv(y)
  BY <1>1, <1>2, <1>3, <1>4, <1>5, <1>6, <1>7, <1>8, <1>9, <1>10 DEF HomeInv,
      Recalled,
     Leaves, L1Buffered
<1>20. SharingInv(y)
  BY <1>1, <1>2, <1>3, <1>4, <1>5, <1>6, <1>7, <1>8, <1>9, <1>10 DEF SharingInv, Owes,
     Holds, ChainInv, CopyInv, TokenInv, Owned
<1>21. OwningInv(y)
  BY <1>1, <1>2, <1>3, <1>4, <1>5, <1>6, <1>7, <1>8, <1>9, <1>10 DEF OwningInv,
      Sharing,
     ChainInv, Holds, Expects, Owes, Owned, L1Buffered
<1>22. Fits(x, {Plain("WriteBackAck", p)})
  BY <1>1 DEF Fits, Late, In, Plain, CopyInv, TokenInv, GoneInv, AckInv, RecallInv,
     Leaves, Readable, Owned
<1> QED
  BY <1>11, <1>12, <1>13, <1>14, <1>15, <1>16, <1>17, <1>18, <1>19, <1>20, <1>21,
      <1>22
     DEF LineInv, CopyInv

LEMMA WriteBackForwarded ==
  ASSUME NEW x, NEW y, LineInv(x), NEW p \in L1s,
         In(x, "WriteBack", p),
         p \in x.dir,
         x.l2 = "ModToSh",
         Serves(x, y, "ModToSh", x.dir \ {p}, x.held, {Plain("WriteBack", p)},
           {Plain("WriteBackAck", p)})
  PROVE  LineInv(y) /\ Fits(x, {Plain("WriteBackAck", p)})
<1>1. /\ LineTypes(x) /\ \A q \in L1s : CopyInv(x, q)
      /\ HomeInv(x) /\ SharingInv(x) /\ OwningInv(x)
  BY DEF LineInv
<1>2. /\ y.lines = x.lines /\ y.l2 = "ModToSh"
      /\ y.dir = x.dir \ {p} /\ y.held = x.held
  BY <1>1 DEF Serves, LineTypes
<1>3. \A u, q : In(y, u, q) <=>
        (In(x, u, q) /\ ~(u = "WriteBack" /\ q = p)) \/ (u = "WriteBackAck" /\ q = p)
  BY DEF Serves, In, Plain
<1>4. \A u, q, r : u \in {"ReadFwd", "ReadExFwd"} =>
        (Sent(y, u, q, r) <=> Sent(x, u, q, r))
  BY DEF Serves, Sent, Plain
<1>5. \A u, q : Waits(y, u, q) <=> Waits(x, u, q)
  BY <1>2 DEF Waits
<1>6. Sharing(x) <=> Sharing(y)
  BY <1>1, <1>2, <1>3, <1>4, <1>5 DEF Sharing
<1>7. x.lines[p] = "ModToInv" /\ Holds(x, p)
  BY <1>1, <1>2, <1>3, <1>4, <1>5, <1>6 DEF CopyInv, GoneInv, Leaves, L1Buffered,
      Holds
<1>8. LineTypes(y)
  BY <1>1, <1>2 DEF Serves, LineTypes, L1State, L1Replaceable, L2State, L2Transient,
     L2Buffered, L2Replaceable, Owned, L1Buffered, L1Transient
<1>9. \A q \in L1s : TokenInv(y, q)
  BY <1>1, <1>2, <1>3, <1>4, <1>5, <1>6, <1>7 DEF CopyInv, TokenInv, OneTokenInv,
     GoneInv, Asking, Serving, Queuing, Promised, Answering, Leaves, Owned, L1Buffered
<1>10. \A q \in L1s : OneTokenInv(y, q)
  BY <1>1, <1>2, <1>3, <1>4, <1>5, <1>6, <1>7 DEF CopyInv, TokenInv, OneTokenInv,
     Asking, Serving, Queuing, Promised, Answering, GoneInv, Leaves
<1>11. \A q \in L1s : TrackInv(y, q)
  BY <1>1, <1>2, <1>3, <1>4, <1>5, <1>6, <1>7 DEF CopyInv, TrackInv, Asking, Serving,
     Queuing, Promised, Answering, L1Transient, Owned, L1Buffered, TokenInv
<1>12. \A q \in L1s : GoneInv(y, q)
  BY <1>1, <1>2, <1>3, <1>4, <1>5, <1>6, <1>7 DEF CopyInv, GoneInv, TokenInv, Leaves,
     Asking, Serving, Queuing, Promised, Answering, L1Buffered, Readable, Owned
<1>13. \A q \in L1s : AckInv(y, q)
  BY <1>1, <1>2, <1>3, <1>4, <1>5, <1>6, <1>7 DEF CopyInv, AckInv, Leaves, L1Buffered,
     Owned, RecallInv, GoneInv
<1>14. \A q \in L1s : RecallInv(y, q)
  BY <1>1, <1>2, <1>3, <1>4, <1>5, <1>6, <1>7 DEF CopyInv, RecallInv, Leaves,
     L1Buffered, Queuing, Owned, TokenInv
<1>15. \A q \in L1s : EntryInv(y, q)
  BY <1>1, <1>2, <1>3, <1>4, <1>5, <1>6, <1>7 DEF CopyInv, EntryInv, Leaves, Present,
     Readable, Owes, Serving, Queuing, Promised, Answering, Owned, L1Buffered,
         TokenInv
<1>16. HomeInv(y)
  BY <1>1, <1>2, <1>3, <1>4, <1>5, <1>6, <1>7 DEF HomeInv, Recalled, Leaves,
      L1Buffered
<1>17. SharingInv(y)
  BY <1>1, <1>2, <1>3, <1>4, <1>5, <1>6, <1>7 DEF SharingInv, Sharing, Owned, Owes,
     CopyInv, TokenInv
<1>18. OwningInv(y)
  <2> SUFFICES ASSUME ~Sharing(y)
               PROVE  \E k \in [L1s -> Int], o \in L1s : ChainInv(y, k, o)
    BY DEF OwningInv
  <2>1. ~Sharing(x)
    BY <1>1, <1>2, <1>3, <1>4, <1>5, <1>6, <1>7 DEF Sharing
  <2>2. PICK k \in [L1s -> Int], o \in L1s : ChainInv(x, k, o)
    BY <2>1, <1>1 DEF OwningInv
  <2>3. ChainInv(y, k, o)
    BY <2>2, <1>1, <1>2, <1>3, <1>4, <1>5, <1>6, <1>7 DEF ChainInv, Holds, Expects,
       Owes, Owned, Sharing
  <2> QED
    BY <2>3
<1>19. Fits(x, {Plain("WriteBackAck", p)})
  BY <1>1 DEF Fits, Late, In, Plain, CopyInv, TokenInv, GoneInv, AckInv, RecallInv,
     Leaves, Readable, Owned
<1> QED
  BY <1>8, <1>9, <1>10, <1>11, <1>12, <1>13, <1>14, <1>15, <1>16, <1>17, <1>18, <1>19
     DEF LineInv, CopyInv

LEMMA WriteBackRecalled ==
  ASSUME NEW x, NEW y, LineInv(x), NEW p \in L1s,
         In(x, "WriteBack", p),
         x.dir = {p},
         x.l2 = "ModToInv",
         Serves(x, y, "NotPresent", {}, x.held, {Plain("WriteBack", p)}, {})
  PROVE  LineInv(y)
<1>1. /\ LineTypes(x) /\ \A q \in L1s : CopyInv(x, q)
      /\ HomeInv(x) /\ SharingInv(x) /\ OwningInv(x)
  BY DEF LineInv
<1>2. /\ y.lines = x.lines /\ y.l2 = "NotPresent"
      /\ y.dir = {} /\ y.held = x.held
  BY <1>1 DEF Serves, LineTypes
<1>3. \A u, q : In(y, u, q) <=> In(x, u, q) /\ ~(u = "WriteBack" /\ q = p)
  BY DEF Serves, In, Plain
<1>4. \A u, q, r : u \in {"ReadFwd", "ReadExFwd"} =>
        (Sent(y, u, q, r) <=> Sent(x, u, q, r))
  BY DEF Serves, Sent, Plain
<1>5. \A u, q : Waits(y, u, q) <=> Waits(x, u, q)
  BY <1>2 DEF Waits
<1>6. ~Sharing(x) /\ Sharing(y)
  BY <1>1, <1>2, <1>3, <1>4, <1>5 DEF Sharing
<1>7. \A q \in L1s : ~In(x, "FwdAckData", q)
  BY <1>1, <1>2, <1>3, <1>4, <1>5, <1>6 DEF HomeInv
<1>8. PICK k \in [L1s -> Int], o \in L1s : ChainInv(x, k, o)
  BY <1>1, <1>2, <1>3, <1>4, <1>5, <1>6, <1>7 DEF OwningInv
<1>9. Holds(x, p) /\ o = p
  BY <1>1, <1>2, <1>3, <1>4, <1>5, <1>6, <1>7, <1>8 DEF CopyInv, GoneInv, Leaves,
     L1Buffered, Holds, ChainInv
<1>10. /\ Recalled(x, p) /\ ~Serving(x, p) /\ ~Present(x, p)
      /\ (x.lines[p] \in L1Buffered <=> In(x, "Invalidate", p))
  BY <1>1, <1>2, <1>3, <1>4, <1>5, <1>6, <1>7, <1>8, <1>9 DEF HomeInv, CopyInv,
      GoneInv,
     Leaves, Recalled, Present
<1>11. \A q, r \in L1s : ~Sent(x, "ReadExFwd", q, r)
  BY <1>1, <1>2, <1>3, <1>4, <1>5, <1>6, <1>7, <1>8, <1>9, <1>10 DEF ChainInv
<1>12. x.held = {} /\ \A u, q : ~Waits(x, u, q)
  BY <1>1, <1>2, <1>3, <1>4, <1>5, <1>6, <1>7, <1>8, <1>9, <1>10, <1>11 DEF HomeInv,
     Waits
<1>13. LineTypes(y)
  BY <1>1, <1>2 DEF Serves, LineTypes, L1State, L1Replaceable, L2State, L2Transient,
     L2Buffered, L2Replaceable, Owned, L1Buffered, L1Transient
<1>14. \A q \in L1s : TokenInv(y, q)
  BY <1>1, <1>2, <1>3, <1>4, <1>5, <1>6, <1>7, <1>8, <1>9, <1>10, <1>11, <1>12
     DEF CopyInv, TokenInv, OneTokenInv, GoneInv, Asking, Serving, Queuing, Promised,
     Answering, Leaves, Owned, L1Buffered
<1>15. \A q \in L1s : OneTokenInv(y, q)
  BY <1>1, <1>2, <1>3, <1>4, <1>5, <1>6, <1>7, <1>8, <1>9, <1>10, <1>11, <1>12
     DEF CopyInv, TokenInv, OneTokenInv, Asking, Serving, Queuing, Promised,
         Answering,
     GoneInv, Leaves
<1>16. \A q \in L1s : TrackInv(y, q)
  BY <1>1, <1>2, <1>3, <1>4, <1>5, <1>6, <1>7, <1>8, <1>9, <1>10, <1>11, <1>12
     DEF CopyInv, TrackInv, Asking, Serving, Queuing, Promised, Answering,
         L1Transient,
     Owned, L1Buffered, TokenInv
<1>17. \A q \in L1s : GoneInv(y, q)
  BY <1>1, <1>2, <1>3, <1>4, <1>5, <1>6, <1>7, <1>8, <1>9, <1>10, <1>11, <1>12
     DEF CopyInv, GoneInv, TokenInv, Leaves, Asking, Serving, Queuing, Promised,
     Answering, L1Buffered, Readable, Owned
<1>18. \A q \in L1s : AckInv(y, q)
  BY <1>1, <1>2, <1>3, <1>4, <1>5, <1>6, <1>7, <1>8, <1>9, <1>10, <1>11, <1>12
     DEF CopyInv, AckInv, Leaves, L1Buffered, Owned, TokenInv
<1>19. \A q \in L1s : RecallInv(y, q)
  BY <1>1, <1>2, <1>3, <1>4, <1>5, <1>6, <1>7, <1>8, <1>9, <1>10, <1>11, <1>12
     DEF CopyInv, RecallInv, Leaves, L1Buffered, Queuing, Owned, GoneInv
<1>20. \A q \in L1s : EntryInv(y, q)
  BY <1>1, <1>2, <1>3, <1>4, <1>5, <1>6, <1>7, <1>8, <1>9, <1>10, <1>11, <1>12
     DEF CopyInv, EntryInv, Leaves, Present, Readable, Owes, Serving, Queuing,
         Promised,
     Answering, Owned, L1Buffered, TokenInv
<1>21. HomeInv(y)
  BY <1>1, <1>2, <1>3, <1>4, <1>5, <1>6, <1>7, <1>8, <1>9, <1>10, <1>11, <1>12
     DEF HomeInv, Recalled, Leaves, L1Buffered
<1>22. SharingInv(y)
  BY <1>1, <1>2, <1>3, <1>4, <1>5, <1>6, <1>7, <1>8, <1>9, <1>10, <1>11, <1>12
     DEF SharingInv, Owes, Holds, ChainInv, Serving, Answering, Owned, Present,
         Readable
<1>23. OwningInv(y)
  BY <1>1, <1>2, <1>3, <1>4, <1>5, <1>6, <1>7, <1>8, <1>9, <1>10, <1>11, <1>12
     DEF OwningInv, Sharing, ChainInv, Holds, Expects, Owes, Owned, L1Buffered
<1> QED
  BY <1>13, <1>14, <1>15, <1>16, <1>17, <1>18, <1>19, <1>20, <1>21, <1>22, <1>23
     DEF LineInv, CopyInv

(* The owner of a line has shared it. *)
LEMMA ForwardDone ==
  ASSUME NEW x, NEW y, LineInv(x), NEW p \in L1s,
         In(x, "FwdAckData", p),
         ~In(x, "WriteBack", p),
         x.l2 = "ModToSh",
         Serves(x, y, "Shared", x.dir, {}, {Plain("FwdAckData", p)},
           {Plain("DataShared", h) : h \in {i \in L1s : <<"Read", i>> \in x.held}})
  PROVE  /\ LineInv(y)
         /\ Fits(x, {Plain("DataShared",
             h) : h \in {i \in L1s : <<"Read", i>> \in x.held}})
<1>1. /\ LineTypes(x) /\ \A q \in L1s : CopyInv(x, q)
      /\ HomeInv(x) /\ SharingInv(x) /\ OwningInv(x)
  BY DEF LineInv
<1>2. /\ y.lines = x.lines /\ y.l2 = "Shared"
      /\ y.dir = x.dir /\ y.held = {}
  BY <1>1 DEF Serves, LineTypes
<1>3. \A u, q : In(y, u, q) <=>
        (In(x, u, q) /\ ~(u = "FwdAckData" /\ q = p))
         \/ (u = "DataShared" /\ Waits(x, "Read", q))
  BY <1>1 DEF Serves, In, Plain, LineTypes, Waits
<1>4. \A u, q, r : u \in {"ReadFwd", "ReadExFwd"} =>
        (Sent(y, u, q, r) <=> Sent(x, u, q, r))
  BY DEF Serves, Sent, Plain
<1>5. \A u, q : Waits(y, u, q) <=> FALSE
  BY <1>2 DEF Waits
<1>6. Sharing(x) /\ Sharing(y)
  BY <1>1, <1>2, <1>3, <1>4, <1>5 DEF Sharing
<1>7. \A u, q : Waits(x, u, q) => u = "Read"
  BY <1>1, <1>2, <1>3, <1>4, <1>5, <1>6 DEF HomeInv, Waits
<1>8. ~(x.lines[p] = "ModToInv" /\ p \in x.dir)
  BY <1>1, <1>2, <1>3, <1>4, <1>5, <1>6, <1>7 DEF CopyInv, TokenInv, EntryInv,
      GoneInv,
     Present, Serving, Queuing, Promised, Answering, Leaves, L1Buffered, Readable
<1>9. LineTypes(y)
  BY <1>1, <1>2 DEF Serves, LineTypes, L1State, L1Replaceable, L2State, L2Transient,
     L2Buffered, L2Replaceable, Owned, L1Buffered, L1Transient
<1>10. \A q \in L1s : TokenInv(y, q)
  BY <1>1, <1>2, <1>3, <1>4, <1>5, <1>6, <1>7, <1>8 DEF CopyInv, TokenInv,
      OneTokenInv,
     GoneInv, Asking, Serving, Queuing, Promised, Answering, Leaves, Owned, L1Buffered
<1>11. \A q \in L1s : OneTokenInv(y, q)
  BY <1>1, <1>2, <1>3, <1>4, <1>5, <1>6, <1>7, <1>8 DEF CopyInv, TokenInv,
      OneTokenInv,
     Asking, Serving, Queuing, Promised, Answering, GoneInv, Leaves
<1>12. \A q \in L1s : TrackInv(y, q)
  BY <1>1, <1>2, <1>3, <1>4, <1>5, <1>6, <1>7, <1>8 DEF CopyInv, TrackInv, Asking,
     Serving, Queuing, Promised, Answering, L1Transient, Owned, L1Buffered, TokenInv
<1>13. \A q \in L1s : GoneInv(y, q)
  BY <1>1, <1>2, <1>3, <1>4, <1>5, <1>6, <1>7, <1>8 DEF CopyInv, GoneInv, TokenInv,
     Leaves, Asking, Serving, Queuing, Promised, Answering, L1Buffered, Readable,
         Owned
<1>14. \A q \in L1s : AckInv(y, q)
  BY <1>1, <1>2, <1>3, <1>4, <1>5, <1>6, <1>7, <1>8 DEF CopyInv, AckInv, Leaves,
     L1Buffered, Owned, TokenInv
<1>15. \A q \in L1s : RecallInv(y, q)
  BY <1>1, <1>2, <1>3, <1>4, <1>5, <1>6, <1>7, <1>8 DEF CopyInv, RecallInv, Leaves,
     L1Buffered, Queuing, Owned, TokenInv
<1>16. \A q \in L1s : EntryInv(y, q)
  BY <1>1, <1>2, <1>3, <1>4, <1>5, <1>6, <1>7, <1>8 DEF CopyInv, EntryInv, Leaves,
     Present, Readable, Owes, Serving, Queuing, Promised, Answering, Owned,
         L1Buffered,
     TokenInv
<1>17. HomeInv(y)
  BY <1>1, <1>2, <1>3, <1>4, <1>5, <1>6, <1>7, <1>8 DEF HomeInv, Recalled, Leaves,
     L1Buffered
<1>18. SharingInv(y)
  BY <1>1, <1>2, <1>3, <1>4, <1>5, <1>6, <1>7, <1>8 DEF SharingInv, HomeInv, Owes,
     CopyInv, TokenInv
<1>19. OwningInv(y)
  BY <1>1, <1>2, <1>3, <1>4, <1>5, <1>6, <1>7, <1>8 DEF OwningInv, Sharing, ChainInv,
     Holds, Expects, Owes, Owned, L1Buffered
<1>20. Fits(x,
    {Plain("DataShared", h) : h \in {i \in L1s : <<"Read", i>> \in x.held}})
  BY <1>1 DEF Fits, Late, In, Plain, CopyInv, OneTokenInv, Serving, Queuing,
      Answering,
     Waits, LineTypes
<1> QED
  BY <1>9, <1>10, <1>11, <1>12, <1>13, <1>14, <1>15, <1>16, <1>17, <1>18, <1>19, <1>20
     DEF LineInv, CopyInv

-----------------------------------------------------------------------------
(* The order of the messages.                                               *)

(* The order of a list of messages: nothing to check in an empty one or in  *)
(* one of a single message, a part of a list in order is in order, and so   *)
(* is a list with another behind it that may follow it.                     *)
LEMMA ClearNone == Clear(<<>>)
BY DEF Clear

LEMMA ClearOne ==
  ASSUME NEW m
  PROVE  Clear(<< m >>)
BY DEF Clear

LEMMA ClearTwo ==
  ASSUME NEW m, NEW n, ~Wrong(m, n)
  PROVE  Clear(<< m, n >>)
<1>1. Len(<< m, n >>) = 2 /\ << m, n >>[1] = m /\ << m, n >>[2] = n
  OBVIOUS
<1>2. \A i, j \in 1 .. 2 : i < j => i = 1 /\ j = 2
  OBVIOUS
<1> QED
  BY <1>1, <1>2 DEF Clear

LEMMA ClearTail ==
  ASSUME NEW S, NEW s \in Seq(S), s # <<>>, Clear(s)
  PROVE  Clear(Tail(s)) /\ \A n \in Range(Tail(s)) : ~Wrong(Head(s), n)
<1> DEFINE t == Tail(s)
<1>1. /\ Len(s) \in Nat /\ Len(s) # 0 /\ Len(t) = Len(s) - 1 /\ Head(s) = s[1]
      /\ t \in Seq(S) /\ \A i \in 1 .. Len(t) : t[i] = s[i + 1]
  OBVIOUS
<1> HIDE DEF t
<1>2. \A i, j \in 1 .. Len(t) : i < j => ~Wrong(t[i], t[j])
  <2> SUFFICES ASSUME NEW i \in 1 .. Len(t), NEW j \in 1 .. Len(t), i < j
               PROVE  ~Wrong(t[i], t[j])
    OBVIOUS
  <2>1. i + 1 \in 1 .. Len(s) /\ j + 1 \in 1 .. Len(s) /\ i + 1 < j + 1
    BY <1>1
  <2> QED
    BY <1>1, <2>1 DEF Clear
<1>3. \A n \in Range(t) : \E j \in 1 .. Len(s) : 1 < j /\ n = s[j]
  <2> TAKE n \in Range(t)
  <2>1. PICK i \in 1 .. Len(t) : n = t[i]
    BY <1>1 DEF Range
  <2>2. i + 1 \in 1 .. Len(s) /\ 1 < i + 1
    BY <1>1
  <2> QED
    BY <1>1, <2>1, <2>2
<1>4. 1 \in 1 .. Len(s)
  BY <1>1
<1> QED
  BY <1>1, <1>2, <1>3, <1>4 DEF Clear, t

LEMMA ClearPick ==
  ASSUME NEW S, NEW s \in Seq(S), Clear(s), NEW K \in SUBSET (1 .. Len(s))
  PROVE  Clear(Pick(s, K))
<1>1. Len(Pick(s, K)) = Cardinality(K)
  BY PickProperties
<1> SUFFICES ASSUME NEW i \in 1 .. Cardinality(K), NEW j \in 1 .. Cardinality(K),
                      i < j
             PROVE  ~Wrong(Pick(s, K)[i], Pick(s, K)[j])
  BY <1>1 DEF Clear
<1>2. PICK k, m \in K : k < m /\ Pick(s, K)[i] = s[k] /\ Pick(s, K)[j] = s[m]
  BY PickOrdered
<1> QED
  BY <1>2 DEF Clear

LEMMA ClearConcat ==
  ASSUME NEW S, NEW s \in Seq(S), NEW t \in Seq(S), Clear(s), Clear(t),
         \A u \in Range(s), v \in Range(t) : ~Wrong(u, v)
  PROVE  Clear(s \o t)
<1> DEFINE w == s \o t
           n == Len(s)
<1>1. /\ w \in Seq(S) /\ Len(w) = n + Len(t) /\ n \in Nat /\ Len(t) \in Nat
      /\ \A i \in 1 .. n + Len(t) : w[i] = IF i <= n THEN s[i] ELSE t[i - n]
  BY ConcatProperties
<1>2. /\ \A i \in 1 .. n : s[i] \in Range(s)
      /\ \A i \in 1 .. Len(t) : t[i] \in Range(t)
  BY DEF Range
<1> HIDE DEF w, n
<1> SUFFICES ASSUME NEW i \in 1 .. n + Len(t), NEW j \in 1 .. n + Len(t), i < j
             PROVE  ~Wrong(w[i], w[j])
  BY <1>1 DEF Clear, w
<1>3. CASE j <= n
  BY <1>1, <1>3 DEF Clear, n
<1>4. CASE n < i
  <2>1. i - n \in 1 .. Len(t) /\ j - n \in 1 .. Len(t) /\ i - n < j - n
    BY <1>1, <1>4
  <2>2. w[i] = t[i - n] /\ w[j] = t[j - n]
    BY <1>1, <1>4
  <2> QED
    BY <2>1, <2>2 DEF Clear
<1>5. CASE i <= n /\ n < j
  <2>1. i \in 1 .. n /\ j - n \in 1 .. Len(t)
    BY <1>1, <1>5
  <2>2. w[i] = s[i] /\ w[j] = t[j - n]
    BY <1>1, <1>5
  <2> QED
    BY <1>2, <2>1, <2>2
<1> QED
  BY <1>1, <1>3, <1>4, <1>5

LEMMA ClearAppend ==
  ASSUME NEW S, NEW s \in Seq(S), NEW m \in S, Clear(s),
           \A u \in Range(s) : ~Wrong(u, m)
  PROVE  Clear(Append(s, m))
<1>1. /\ Len(Append(s, m)) = Len(s) + 1 /\ Len(s) \in Nat
      /\ \A i \in 1 .. Len(s) : Append(s, m)[i] = s[i]
      /\ Append(s, m)[Len(s) + 1] = m
  BY AppendProperties
<1>2. \A i \in 1 .. Len(s) : s[i] \in Range(s)
  BY DEF Range
<1> SUFFICES ASSUME NEW i \in 1 .. Len(s) + 1, NEW j \in 1 .. Len(s) + 1, i < j
             PROVE  ~Wrong(Append(s, m)[i], Append(s, m)[j])
  BY <1>1 DEF Clear
<1>3. i \in 1 .. Len(s)
  BY <1>1
<1>4. CASE j = Len(s) + 1
  BY <1>1, <1>2, <1>3, <1>4
<1>5. CASE j \in 1 .. Len(s)
  BY <1>1, <1>3, <1>5 DEF Clear
<1> QED
  BY <1>1, <1>4, <1>5

(* A message that may not follow itself stands in such a list once.         *)
LEMMA ClearOnce ==
  ASSUME NEW S, NEW s \in Seq(S), Clear(s), NEW i \in 1 .. Len(s),
           NEW j \in 1 .. Len(s),
         Wrong(s[i], s[i]), s[i] = s[j]
  PROVE  i = j
<1>1. i < j \/ j < i \/ i = j
  OBVIOUS
<1> QED
  BY <1>1 DEF Clear

(* The messages that the order is about.                                    *)
Cached(M) == {m \in M : m.addr \notin ThreadState}

LEMMA InSomeList ==
  ASSUME NEW q, NEW D, NEW m
  PROVE  m \in InLists(q, D) <=> \E d \in D : m \in Range(q[d])
BY DEF InLists

LEMMA InFlightIs == InFlight = Everywhere(net, replay, waiting)
BY DEF InFlight, Everywhere, InLists

LEMMA WrongSame ==
  ASSUME NEW m, m.addr \notin ThreadState
  PROVE  Wrong(m, m)
BY DEF Wrong, Clash

LEMMA LinkOfProper ==
  ASSUME NEW m, Proper(m)
  PROVE  Link(m) \in Links
<1>1. /\ m.type \in ToL1 \union ToL2 /\ m.src \in L1s \union Banks /\ m.addr \in Addrs
      /\ BankOf[m.addr] \in Banks /\ Banks \intersect L1s = {}
  BY ProperOfMessage, CmpInclAssumption DEF Nodes
<1>2. CASE m.dst \in L1s
  BY <1>1, <1>2 DEF Link, Links
<1>3. CASE m.dst \notin L1s
  <2>1. m.src \in L1s /\ m.dst \in Banks
    BY <1>1, <1>3 DEF Proper
  <2> QED
    BY <2>1, <1>3 DEF Link, Links
<1> QED
  BY <1>2, <1>3

(* Sending: the new messages are on the links, behind the others.           *)
LEMMA PostFlow ==
  ASSUME NEW n, Traffic(n), NEW out, Outgoing(out)
  PROVE  InLists(Post(n, out), Links) = InLists(n, Links) \union Range(out)
<1> DEFINE K(c) == {i \in 1 .. Len(out) : Link(out[i]) = c}
           P(c) == Pick(out, K(c))
<1>1. ASSUME NEW c \in Links
      PROVE  Range(Post(n,
               out)[c]) = Range(n[c]) \union {v \in Range(out) : Link(v) = c}
  <2>1. out \in Seq(Message) /\ K(c) \in SUBSET (1 .. Len(out))
      /\ n[c] \in Seq(Message)
    BY DEF Outgoing, Traffic
  <2>2. P(c) \in Seq(Message) /\ Range(P(c)) = {out[k] : k \in K(c)}
    BY <2>1, PickProperties
  <2>3. Post(n, out)[c] = n[c] \o P(c)
    BY DEF Post
  <2> HIDE DEF P
  <2>4. Range(n[c] \o P(c)) = Range(n[c]) \union Range(P(c))
    BY <2>1, <2>2, ConcatRange
  <2>5. {out[k] : k \in K(c)} = {v \in Range(out) : Link(v) = c}
    BY <2>1 DEF Range
  <2> QED
    BY <2>2, <2>3, <2>4, <2>5
<1>2. \A v \in Range(out) : Link(v) \in Links
  BY LinkOfProper DEF Outgoing
<1>3. \A m : m \in InLists(Post(n, out), Links) <=>
               \E c \in Links : m \in Range(n[c]) \/ (m \in Range(out) /\ Link(m) = c)
  BY <1>1, InSomeList
<1>4. \A m : m \in InLists(n, Links) <=> \E c \in Links : m \in Range(n[c])
  BY InSomeList
<1> QED
  BY <1>2, <1>3, <1>4

LEMMA PostClear ==
  ASSUME NEW n, Traffic(n), NEW out, Outgoing(out), Clear(out),
         NEW c \in Links, Clear(n[c]),
         \A u \in Range(n[c]), v \in Range(out) : ~Wrong(u, v)
  PROVE  Clear(Post(n, out)[c])
<1> DEFINE K == {i \in 1 .. Len(out) : Link(out[i]) = c}
           P == Pick(out, K)
<1>1. out \in Seq(Message) /\ K \in SUBSET (1 .. Len(out)) /\ n[c] \in Seq(Message)
  BY DEF Outgoing, Traffic
<1>2. P \in Seq(Message) /\ Range(P) = {out[k] : k \in K}
  BY <1>1, PickProperties
<1>3. Clear(P)
  BY <1>1, ClearPick
<1>4. Post(n, out)[c] = n[c] \o P
  BY DEF Post
<1> HIDE DEF P, K
<1>5. Range(P) \subseteq Range(out)
  <2>1. \A k \in K : out[k] \in Range(out)
    BY <1>1 DEF Range
  <2> QED
    BY <1>2, <2>1
<1>6. Clear(n[c] \o P)
  BY <1>1, <1>2, <1>3, <1>5, ClearConcat
<1> QED
  BY <1>4, <1>6

(* Different positions of a list in order hold different messages.          *)
LEMMA ClearLone ==
  ASSUME NEW S, NEW s \in Seq(S), Clear(s)
  PROVE  Lone(Range(s))
<1> SUFFICES ASSUME NEW i \in 1 .. Len(s), NEW j \in 1 .. Len(s),
                    s[i].addr = s[j].addr, s[i].addr \notin ThreadState,
                    Mark(s[i]) = Mark(s[j])
             PROVE  s[i] = s[j]
  BY DEF Lone, Range
<1>1. Wrong(s[i], s[j]) /\ Wrong(s[j], s[i])
  BY DEF Wrong, Clash
<1>2. i < j \/ j < i \/ i = j
  OBVIOUS
<1> QED
  BY <1>1, <1>2 DEF Clear

LEMMA PostOrder ==
  ASSUME NEW n, NEW rp, NEW w, Traffic(n), Order(n, rp, w), NEW out, Outgoing(out),
         Clear(out), \A u \in Everywhere(n, rp, w), v \in Range(out) : ~Wrong(u, v)
  PROVE  Order(Post(n, out), rp, w)
<1> DEFINE N == InLists(Post(n, out), Links)
<1>1. N = InLists(n, Links) \union Range(out)
  BY PostFlow
<1>2. \A c \in Links : Clear(Post(n, out)[c])
  <2> TAKE c \in Links
  <2>1. Range(n[c]) \subseteq Everywhere(n, rp, w)
    BY InSomeList DEF Everywhere
  <2>2. Clear(n[c])
    BY DEF Order
  <2> QED
    BY <2>1, <2>2, PostClear
<1>3. Lone(Range(out))
  BY ClearLone DEF Outgoing
<1> HIDE DEF N
<1>4. Everywhere(Post(n, out), rp, w) = Everywhere(n, rp, w) \union Range(out)
  BY <1>1 DEF Everywhere, N
<1>5. \A u \in Everywhere(n, rp, w), v \in Range(out) :
        u.addr = v.addr /\ u.addr \notin ThreadState => Mark(u) # Mark(v)
  BY DEF Wrong, Clash
<1>6. Lone(Everywhere(Post(n, out), rp, w))
  BY <1>3, <1>4, <1>5 DEF Lone, Order
<1>7. \A u \in Everywhere(n, rp, w) \intersect Range(out) : u.addr \in ThreadState
  BY <1>5
<1>8. Apart(N, InLists(rp, Banks)) /\ Apart(N, InLists(w, Banks))
  BY <1>1, <1>7 DEF Apart, Order, Everywhere
<1> QED
  BY <1>2, <1>6, <1>8 DEF Order, N

LEMMA LessOrder ==
  ASSUME NEW n, NEW rp, NEW w, Order(n, rp, w), NEW n2, NEW rp2, NEW w2,
         InLists(n2, Links) \subseteq InLists(n, Links),
         InLists(rp2, Banks) \subseteq InLists(rp, Banks),
         InLists(w2, Banks) \subseteq InLists(w, Banks),
         \A c \in Links : Clear(n2[c]), \A b \in Banks : Clear(rp2[b]) /\ Clear(w2[b])
  PROVE  Order(n2, rp2, w2)
<1>1. Everywhere(n2, rp2, w2) \subseteq Everywhere(n, rp, w)
  BY DEF Everywhere
<1>2. Lone(Everywhere(n2, rp2, w2))
  BY <1>1 DEF Lone, Order
<1>3. /\ Apart(InLists(n2, Links), InLists(rp2, Banks))
      /\ Apart(InLists(n2, Links), InLists(w2, Banks))
      /\ Apart(InLists(rp2, Banks), InLists(w2, Banks))
  BY DEF Apart, Order
<1> QED
  BY <1>2, <1>3 DEF Order

(* Taking the first message of a list.                                      *)
LEMMA HeadTaken ==
  ASSUME NEW D, NEW q \in [D -> Seq(Message)], NEW d \in D, q[d] # <<>>,
         \A e \in D : Clear(q[e]), \A e \in D \ {d} : Head(q[d]) \notin Range(q[e])
  PROVE  /\ \A e \in D : Clear([q EXCEPT ![d] = Tail(q[d])][e])
         /\ Head(q[d]) \in InLists(q, D)
         /\ InLists([q EXCEPT ![d] = Tail(q[d])], D) \subseteq InLists(q, D)
         /\ Cached(InLists([q EXCEPT ![d] = Tail(q[d])], D)) =
              Cached(InLists(q, D)) \ {Head(q[d])}
         /\ \A m \in Range(Tail(q[d])) : ~Wrong(Head(q[d]), m)
<1> DEFINE m == Head(q[d])
           r == [q EXCEPT ![d] = Tail(q[d])]
<1>1. /\ Range(q[d]) = Range(Tail(q[d])) \union {m}
      /\ Clear(Tail(q[d])) /\ \A n \in Range(Tail(q[d])) : ~Wrong(m, n)
  BY TailRange, ClearTail
<1>2. r[d] = Tail(q[d]) /\ \A e \in D \ {d} : r[e] = q[e]
  OBVIOUS
<1> HIDE DEF m, r
<1>3. m.addr \notin ThreadState => m \notin Range(r[d])
  BY <1>1, <1>2, WrongSame
<1>4. \A n : n \in InLists(r, D) <=> \E e \in D : n \in Range(r[e])
  BY InSomeList
<1>5. \A n : n \in InLists(q, D) <=> \E e \in D : n \in Range(q[e])
  BY InSomeList
<1>6. \A n : n.addr \notin ThreadState =>
               (n \in InLists(r, D) <=> n \in InLists(q, D) /\ n # m)
  <2> TAKE n
  <2> SUFFICES ASSUME n.addr \notin ThreadState
               PROVE  n \in InLists(r, D) <=> n \in InLists(q, D) /\ n # m
    OBVIOUS
  <2>1. ASSUME n = m PROVE n \notin InLists(r, D)
    <3>1. n \notin Range(r[d])
      BY <1>3, <2>1
    <3>2. \A e \in D \ {d} : n \notin Range(r[e])
      BY <1>2, <2>1 DEF m
    <3> QED
      BY <1>4, <3>1, <3>2
  <2>2. ASSUME n # m PROVE \A e \in D : n \in Range(r[e]) <=> n \in Range(q[e])
    BY <1>1, <1>2, <2>2
  <2> QED
    BY <1>4, <1>5, <2>1, <2>2
<1>7. m \in InLists(q, D) /\ InLists(r, D) \subseteq InLists(q, D)
  BY <1>1, <1>2, <1>4, <1>5
<1>8. \A e \in D : Clear(r[e])
  BY <1>1, <1>2
<1>9. Cached(InLists(r, D)) = Cached(InLists(q, D)) \ {m}
  BY <1>6, <1>7 DEF Cached
<1> QED
  BY <1>1, <1>7, <1>8, <1>9 DEF m, r

(* A message taken from its link is gone, and the others keep their order. *)
LEMMA ConsumeFlow ==
  ASSUME NetInv, Orderly, NEW n, NEW m \in Arriving(n)
  PROVE  /\ m \in InLists(net, Links)
         /\ Order(Consume(m), replay, waiting)
         /\ InLists(Consume(m), Links) \subseteq InLists(net, Links)
         /\ Cached(InLists(Consume(m), Links)) = Cached(InLists(net, Links)) \ {m}
         /\ \A u \in Range(net[Link(m)]) : u = m \/ ~Wrong(m, u)
<1>1. PICK c \in Links : c[2] = n /\ net[c] # <<>> /\ m = Head(net[c])
  BY DEF Arriving
<1>2. net \in [Links -> Seq(Message)] /\ \A d \in Links : Clear(net[d])
  BY DEF NetInv, Traffic, Orderly, Order
<1>3. Range(net[c]) = Range(Tail(net[c])) \union {m}
  BY <1>1, <1>2, TailRange
<1>4. Link(m) = c /\ \A e \in Links \ {c} : m \notin Range(net[e])
  BY <1>3 DEF NetInv, Traffic
<1>5. Consume(m) = [net EXCEPT ![c] = Tail(net[c])]
  BY <1>4 DEF Consume
<1>6. /\ \A e \in Links : Clear([net EXCEPT ![c] = Tail(net[c])][e])
      /\ Head(net[c]) \in InLists(net, Links)
      /\ InLists([net EXCEPT ![c] = Tail(net[c])], Links) \subseteq InLists(net,
          Links)
      /\ Cached(InLists([net EXCEPT ![c] = Tail(net[c])], Links)) =
           Cached(InLists(net, Links)) \ {Head(net[c])}
      /\ \A u \in Range(Tail(net[c])) : ~Wrong(Head(net[c]), u)
  BY <1>1, <1>2, <1>4, HeadTaken
<1>7. /\ m \in InLists(net, Links)
      /\ InLists(Consume(m), Links) \subseteq InLists(net, Links)
      /\ Cached(InLists(Consume(m), Links)) = Cached(InLists(net, Links)) \ {m}
      /\ \A c2 \in Links : Clear(Consume(m)[c2])
  BY <1>1, <1>5, <1>6
<1>8. Order(Consume(m), replay, waiting)
  <2>1. Order(net, replay, waiting) /\ \A b \in Banks : Clear(replay[b])
      /\ Clear(waiting[b])
    BY DEF Orderly, Order
  <2> QED
    BY <1>7, <2>1, LessOrder
<1>9. \A u \in Range(net[Link(m)]) : u = m \/ ~Wrong(m, u)
  BY <1>1, <1>3, <1>4, <1>6
<1> QED
  BY <1>7, <1>8, <1>9

(* So is one that a bank takes.                                             *)
LEMMA TakeFlow ==
  ASSUME NetInv, Orderly, NEW b \in Banks, NEW m \in Ready(b)
  PROVE  /\ m \in InFlight /\ m \notin Cached(InLists(waiting, Banks))
         /\ Order(Taken(m), Rest(m), waiting)
         /\ Everywhere(Taken(m), Rest(m), waiting) \subseteq InFlight
         /\ InLists(Rest(m), Banks) \subseteq InLists(replay, Banks)
         /\ Cached(Everywhere(Taken(m), Rest(m), waiting)) = Cached(InFlight) \ {m}
<1>1. Proper(m) /\ m.dst = b /\ replay \in [Banks -> Seq(Message)]
  BY ReadyKeeps DEF NetInv, Stalled
<1>3. /\ Apart(InLists(net, Links), InLists(replay, Banks))
      /\ Apart(InLists(net, Links), InLists(waiting, Banks))
      /\ Apart(InLists(replay, Banks), InLists(waiting, Banks))
      /\ Order(net, replay, waiting)
      /\ \A c \in Banks : Clear(replay[c]) /\ Clear(waiting[c])
      /\ \A c \in Links : Clear(net[c])
  BY DEF Orderly, Order
<1>4. CASE replay[b] = <<>>
  <2>1. m \in Arriving(b)
    BY <1>4 DEF Ready
  <2>2. Taken(m) = Consume(m) /\ Rest(m) = replay
    BY <1>1, <1>4 DEF Taken, Rest
  <2>3. /\ m \in InLists(net, Links)
        /\ Order(Consume(m), replay, waiting)
        /\ InLists(Consume(m), Links) \subseteq InLists(net, Links)
        /\ Cached(InLists(Consume(m), Links)) = Cached(InLists(net, Links)) \ {m}
    BY <2>1, ConsumeFlow
  <2>4. m \notin Cached(InLists(replay, Banks))
      /\ m \notin Cached(InLists(waiting, Banks))
    BY <1>3, <2>3 DEF Apart, Cached
  <2>5. Cached(Everywhere(Consume(m), replay, waiting)) = Cached(InFlight) \ {m}
    <3> DEFINE A2 == InLists(Consume(m), Links)
               A == InLists(net, Links)
               B == InLists(replay, Banks)
               C == InLists(waiting, Banks)
    <3>1. Cached(A2) = Cached(A) \ {m} /\ m \notin Cached(B) /\ m \notin Cached(C)
      BY <2>3, <2>4
    <3> HIDE DEF A2, A, B, C
    <3>2. /\ Cached(A2 \union B \union C) = Cached(A2) \union Cached(B) \union Cached(C)
          /\ Cached(A \union B \union C) = Cached(A) \union Cached(B) \union Cached(C)
      BY DEF Cached
    <3>3. Cached(A2 \union B \union C) = Cached(A \union B \union C) \ {m}
      BY <3>1, <3>2
    <3> QED
      BY <3>3, InFlightIs DEF Everywhere, A2, A, B, C
  <2>6. m \in InFlight /\ Everywhere(Consume(m), replay, waiting) \subseteq InFlight
    BY <2>3, InFlightIs DEF Everywhere
  <2> QED
    BY <2>2, <2>3, <2>4, <2>5, <2>6
<1>5. CASE replay[b] # <<>>
  <2>1. m = Head(replay[b])
    BY <1>5 DEF Ready
  <2>2. Taken(m) = net /\ Rest(m) = [replay EXCEPT ![b] = Tail(replay[b])]
    BY <1>1, <1>5 DEF Taken, Rest
  <2>3. \A e \in Banks \ {b} : Head(replay[b]) \notin Range(replay[e])
    BY <1>1, <2>1 DEF NetInv, Stalled
  <2>4. /\ \A e \in Banks : Clear([replay EXCEPT ![b] = Tail(replay[b])][e])
        /\ Head(replay[b]) \in InLists(replay, Banks)
        /\ InLists([replay EXCEPT ![b] = Tail(replay[b])], Banks)
             \subseteq InLists(replay, Banks)
        /\ Cached(InLists([replay EXCEPT ![b] = Tail(replay[b])], Banks)) =
             Cached(InLists(replay, Banks)) \ {Head(replay[b])}
    BY <1>1, <1>3, <1>5, <2>3, HeadTaken
  <2>5. /\ m \in InLists(replay, Banks)
        /\ InLists(Rest(m), Banks) \subseteq InLists(replay, Banks)
        /\ Cached(InLists(Rest(m), Banks)) = Cached(InLists(replay, Banks)) \ {m}
        /\ \A e \in Banks : Clear(Rest(m)[e])
    BY <2>1, <2>2, <2>4
  <2>6. m \notin Cached(InLists(net, Links))
      /\ m \notin Cached(InLists(waiting, Banks))
    BY <1>3, <2>5 DEF Apart, Cached
  <2>7. Order(net, Rest(m), waiting)
    BY <1>3, <2>5, LessOrder
  <2>8. Cached(Everywhere(net, Rest(m), waiting)) = Cached(InFlight) \ {m}
    <3> DEFINE A2 == InLists(Rest(m), Banks)
               A == InLists(replay, Banks)
               B == InLists(net, Links)
               C == InLists(waiting, Banks)
    <3>1. Cached(A2) = Cached(A) \ {m} /\ m \notin Cached(B) /\ m \notin Cached(C)
      BY <2>5, <2>6
    <3> HIDE DEF A2, A, B, C
    <3>2. /\ Cached(B \union A2 \union C) = Cached(B) \union Cached(A2) \union Cached(C)
          /\ Cached(B \union A \union C) = Cached(B) \union Cached(A) \union Cached(C)
      BY DEF Cached
    <3>3. Cached(B \union A2 \union C) = Cached(B \union A \union C) \ {m}
      BY <3>1, <3>2
    <3> QED
      BY <3>3, InFlightIs DEF Everywhere, A2, A, B, C
  <2>9. m \in InFlight /\ Everywhere(net, Rest(m), waiting) \subseteq InFlight
    BY <2>5, InFlightIs DEF Everywhere
  <2> QED
    BY <2>2, <2>5, <2>6, <2>7, <2>8, <2>9
<1> QED
  BY <1>4, <1>5

(* Requests may stand in any order, as long as each stands once.            *)
LEMMA RequestsInOrder ==
  ASSUME NEW u, NEW v, u.type \in {"Read", "ReadEx", "Upgrade"}, Wrong(u, v)
  PROVE  u.addr = v.addr /\ u.addr \notin ThreadState /\ Mark(u) = Mark(v)
<1>1. Mark(u)[1] = u.type
  BY DEF Mark, Forwards, ToL1
<1> QED
  BY <1>1 DEF Wrong, Clash, Behind, Lates, Forwards

(* A wakeup moves messages from the wait lists to the replay queues.        *)
LEMMA WakeFlow ==
  ASSUME NEW n, NEW rp, NEW sets, Order(n, rp, waiting), Stalled(rp),
           Stalled(waiting),
         \A m \in InLists(rp, Banks) \union InLists(waiting, Banks) :
           m.type \in {"Read", "ReadEx", "Upgrade"},
         Wake(rp, sets)
  PROVE  /\ Order(n, replay', waiting')
         /\ Everywhere(n, replay', waiting') = Everywhere(n, rp, waiting)
         /\ InLists(replay', Banks) \subseteq InLists(rp,
             Banks) \union InLists(waiting, Banks)
         /\ \A m \in InLists(waiting', Banks) :
              m \in InLists(waiting, Banks) /\ L2SetOf[m.addr] \notin sets
<1> DEFINE W(b) == waiting[b]
           K(b) == Woken(b, sets)
           P(b) == Pick(W(b), K(b))
           R(b) == Drop(W(b), K(b))
<1>1. ASSUME NEW b \in Banks
      PROVE  /\ W(b) \in Seq(Message) /\ rp[b] \in Seq(Message)
                 /\ K(b) \in SUBSET (1 .. Len(W(b)))
             /\ \A m \in Range(W(b)) \union Range(rp[b]) : m.dst = b
             /\ Clear(W(b)) /\ Clear(rp[b])
  BY DEF Stalled, Order, Woken
<1>2. ASSUME NEW b \in Banks
      PROVE  /\ P(b) \in Seq(Message) /\ R(b) \in Seq(Message)
             /\ Range(P(b)) = {W(b)[k] : k \in K(b)}
             /\ Range(R(b)) = {W(b)[k] : k \in (1 .. Len(W(b))) \ K(b)}
             /\ Range(W(b)) = Range(P(b)) \union Range(R(b))
             /\ Clear(P(b)) /\ Clear(R(b))
  <2>1. /\ W(b) \in Seq(Message) /\ K(b) \in SUBSET (1 .. Len(W(b))) /\ Clear(W(b))
        /\ (1 .. Len(W(b))) \ K(b) \in SUBSET (1 .. Len(W(b)))
    BY <1>1
  <2> DEFINE J == (1 .. Len(W(b))) \ K(b)
  <2>2. R(b) = Pick(W(b), J)
    BY DEF Drop
  <2> HIDE DEF W, K, J
  <2>3. P(b) \in Seq(Message) /\ Range(P(b)) = {W(b)[k] : k \in K(b)} /\ Clear(P(b))
    BY <2>1, PickProperties, ClearPick
  <2>4. /\ Pick(W(b), J) \in Seq(Message)
            /\ Range(Pick(W(b), J)) = {W(b)[k] : k \in J}
        /\ Clear(Pick(W(b), J))
    BY <2>1, PickProperties, ClearPick DEF J
  <2>5. Range(W(b)) = Range(P(b)) \union Range(R(b))
    BY <2>1, DropProperties
  <2> HIDE DEF P, R
  <2> QED
    BY <2>2, <2>3, <2>4, <2>5 DEF J
<1>3. ASSUME NEW b \in Banks
      PROVE  replay'[b] = rp[b] \o P(b) /\ waiting'[b] = R(b)
  BY DEF Wake
<1>4. ASSUME NEW b \in Banks, NEW m \in Range(P(b)), m \in Range(R(b))
      PROVE  m.addr \in ThreadState
  <2>1. PICK i \in K(b) : m = W(b)[i]
    BY <1>2, <1>4
  <2>2. PICK j \in (1 .. Len(W(b))) \ K(b) : m = W(b)[j]
    BY <1>2, <1>4
  <2>3. i \in 1 .. Len(W(b)) /\ j \in 1 .. Len(W(b)) /\ i # j
    BY <1>1, <2>1, <2>2
  <2>4. W(b) \in Seq(Message) /\ Clear(W(b))
    BY <1>1
  <2> HIDE DEF W, K
  <2> QED
    BY <2>1, <2>2, <2>3, <2>4, WrongSame, ClearOnce
<1>5. ASSUME NEW b \in Banks, NEW m \in Range(R(b))
      PROVE  L2SetOf[m.addr] \notin sets
  <2>1. PICK j \in (1 .. Len(W(b))) \ K(b) : m = W(b)[j]
    BY <1>2, <1>5
  <2> QED
    BY <2>1 DEF Woken
<1> HIDE DEF W, P, R, K
<1>6. ASSUME NEW b \in Banks PROVE Range(rp[b] \o P(b)) = Range(rp[b]) \union Range(P(b))
  BY <1>1, <1>2, ConcatRange
<1>7. \A m : /\ m \in InLists(replay', Banks) <=>
                  \E b \in Banks : m \in Range(rp[b]) \/ m \in Range(P(b))
             /\ m \in InLists(waiting', Banks) <=> \E b \in Banks : m \in Range(R(b))
  <2>1. \A b \in Banks : /\ Range(replay'[b]) = Range(rp[b]) \union Range(P(b))
                         /\ Range(waiting'[b]) = Range(R(b))
    BY <1>3, <1>6
  <2> QED
    BY <2>1 DEF InLists
<1>8. \A m : /\ m \in InLists(rp, Banks) <=> \E b \in Banks : m \in Range(rp[b])
             /\ m \in InLists(waiting, Banks) <=>
                  \E b \in Banks : m \in Range(P(b)) \/ m \in Range(R(b))
  BY <1>2, InSomeList DEF W
<1>9. /\ InLists(replay', Banks) \union InLists(waiting', Banks) =
           InLists(rp, Banks) \union InLists(waiting, Banks)
      /\ InLists(waiting', Banks) \subseteq InLists(waiting, Banks)
      /\ InLists(rp, Banks) \subseteq InLists(replay', Banks)
      /\ InLists(replay', Banks) \subseteq InLists(rp, Banks) \union InLists(waiting,
          Banks)
  BY <1>7, <1>8
<1>10. Everywhere(n, replay', waiting') = Everywhere(n, rp, waiting)
  BY <1>9 DEF Everywhere
<1>11. /\ Lone(Everywhere(n, rp, waiting)) /\ \A c \in Links : Clear(n[c])
       /\ Apart(InLists(n, Links), InLists(rp, Banks))
       /\ Apart(InLists(n, Links), InLists(waiting, Banks))
       /\ Apart(InLists(rp, Banks), InLists(waiting, Banks))
  BY DEF Order
<1>12. /\ Apart(InLists(n, Links), InLists(replay', Banks))
       /\ Apart(InLists(n, Links), InLists(waiting', Banks))
  BY <1>9, <1>11 DEF Apart
<1>13. Apart(InLists(replay', Banks), InLists(waiting', Banks))
  <2> SUFFICES ASSUME NEW m \in InLists(replay', Banks),
                        m \in InLists(waiting', Banks)
               PROVE  m.addr \in ThreadState
    BY DEF Apart
  <2>1. PICK b \in Banks : m \in Range(R(b))
    BY <1>7
  <2>2. PICK c \in Banks : m \in Range(rp[c]) \/ m \in Range(P(c))
    BY <1>7
  <2>3. CASE m \in Range(rp[c])
    BY <1>8, <1>9, <1>11, <2>3 DEF Apart
  <2>4. CASE m \in Range(P(c))
    <3>1. m.dst = c /\ m.dst = b
      BY <1>1, <1>2, <2>1, <2>4
    <3> QED
      BY <1>4, <2>1, <2>4, <3>1
  <2> QED
    BY <2>2, <2>3, <2>4
<1>14. ASSUME NEW b \in Banks
       PROVE  Clear(replay'[b]) /\ Clear(waiting'[b])
  <2>1. \A u \in Range(rp[b]), v \in Range(P(b)) : ~Wrong(u, v)
    <3> SUFFICES ASSUME NEW u \in Range(rp[b]), NEW v \in Range(P(b)), Wrong(u, v)
                 PROVE  FALSE
      OBVIOUS
    <3>1. u \in InLists(rp, Banks) /\ v \in InLists(waiting, Banks)
      BY <1>8
    <3>2. u.addr = v.addr /\ u.addr \notin ThreadState /\ Mark(u) = Mark(v)
      BY <3>1, RequestsInOrder
    <3>3. u = v
      BY <1>11, <3>1, <3>2 DEF Lone, Everywhere
    <3> QED
      BY <1>11, <3>1, <3>2, <3>3 DEF Apart
  <2>2. Clear(rp[b] \o P(b))
    BY <1>1, <1>2, <2>1, ClearConcat
  <2> QED
    BY <1>2, <1>3, <2>2
<1> QED
  BY <1>5, <1>7, <1>9, <1>10, <1>11, <1>12, <1>13, <1>14 DEF Order

(* The messages after a step that takes those of gone and sends out, and    *)
(* when out may be sent.                                                    *)
Flows(gone, out) ==
  /\ InFlight' \subseteq InFlight \union Range(out)
  /\ Cached(InFlight') = (Cached(InFlight) \ gone) \union Cached(Range(out))
Sendable(out) ==
  Clear(out) /\ \A u \in InFlight, v \in Range(out) : ~Wrong(u, v)

LEMMA FlowOf ==
  ASSUME NEW n, NEW rp, NEW w, NEW gone, NEW out,
         Everywhere(n, rp, w) \subseteq InFlight,
         Cached(Everywhere(n, rp, w)) = Cached(InFlight) \ gone,
         InFlight' = Everywhere(n, rp, w) \union Range(out)
  PROVE  Flows(gone, out)
<1>1. Cached(Everywhere(n, rp, w) \union Range(out)) =
        Cached(Everywhere(n, rp, w)) \union Cached(Range(out))
  BY DEF Cached
<1>2. InFlight' \subseteq InFlight \union Range(out)
  OBVIOUS
<1> QED
  BY <1>1, <1>2 DEF Flows

LEMMA PostEverywhere ==
  ASSUME NEW n, NEW rp, NEW w, Traffic(n), NEW out, Outgoing(out)
  PROVE  Everywhere(Post(n, out), rp, w) = Everywhere(n, rp, w) \union Range(out)
BY PostFlow DEF Everywhere

LEMMA ReceivedFlow ==
  ASSUME NetInv, Orderly, NEW p \in L1s, NEW m \in Arriving(p), NEW out,
           Outgoing(out),
         NEW done, NEW woken, Received(p, m, out, done, woken)
  PROVE  m \in InFlight /\ Flows({m}, out) /\ (Sendable(out) => Orderly')
<1>1. /\ m \in InLists(net, Links)
      /\ Order(Consume(m), replay, waiting)
      /\ InLists(Consume(m), Links) \subseteq InLists(net, Links)
      /\ Cached(InLists(Consume(m), Links)) = Cached(InLists(net, Links)) \ {m}
  BY ConsumeFlow
<1>2. Traffic(Consume(m))
  BY ArrivingKeeps DEF NetInv
<1>3. net' = Post(Consume(m), out) /\ replay' = replay /\ waiting' = waiting
  BY DEF Received, bankvars
<1>4. /\ m \in InFlight
      /\ Everywhere(Consume(m), replay, waiting) \subseteq InFlight
  BY <1>1, InFlightIs DEF Everywhere
<1>5. Cached(Everywhere(Consume(m), replay, waiting)) = Cached(InFlight) \ {m}
  <2>1. m \notin Cached(InLists(replay, Banks))
      /\ m \notin Cached(InLists(waiting, Banks))
    BY <1>1 DEF Apart, Cached, Orderly, Order
  <2> DEFINE A2 == InLists(Consume(m), Links)
             A == InLists(net, Links)
             B == InLists(replay, Banks)
             C == InLists(waiting, Banks)
  <2>2. Cached(A2) = Cached(A) \ {m} /\ m \notin Cached(B) /\ m \notin Cached(C)
    BY <1>1, <2>1
  <2> HIDE DEF A2, A, B, C
  <2>3. /\ Cached(A2 \union B \union C) = Cached(A2) \union Cached(B) \union Cached(C)
        /\ Cached(A \union B \union C) = Cached(A) \union Cached(B) \union Cached(C)
    BY DEF Cached
  <2>4. Cached(A2 \union B \union C) = Cached(A \union B \union C) \ {m}
    BY <2>2, <2>3
  <2> QED
    BY <2>4, InFlightIs DEF Everywhere, A2, A, B, C
<1>6. InFlight' = Everywhere(net', replay', waiting')
  BY InFlightIs DEF InFlight, Everywhere, InLists
<1>7. InFlight' = Everywhere(Consume(m), replay, waiting) \union Range(out)
  BY <1>2, <1>3, <1>6, PostEverywhere
<1>8. Flows({m}, out)
  BY <1>4, <1>5, <1>7, FlowOf
<1>9. ASSUME Sendable(out) PROVE Orderly'
  <2>1. /\ Clear(out)
        /\ \A u \in Everywhere(Consume(m), replay, waiting),
            v \in Range(out) : ~Wrong(u, v)
    BY <1>4, <1>9 DEF Sendable
  <2>2. Order(Post(Consume(m), out), replay, waiting)
    BY <1>1, <1>2, <2>1, PostOrder
  <2> QED
    BY <1>3, <2>2 DEF Orderly
<1> QED
  BY <1>4, <1>8, <1>9

LEMMA PostedFlow ==
  ASSUME NetInv, Orderly, NEW out, Outgoing(out), net' = Post(net, out),
         UNCHANGED bankvars
  PROVE  Flows({}, out) /\ (Sendable(out) => Orderly')
<1>1. net' = Post(net, out) /\ replay' = replay /\ waiting' = waiting /\ Traffic(net)
  BY DEF bankvars, NetInv
<1>2. InFlight' = Everywhere(net', replay', waiting')
  BY InFlightIs DEF InFlight, Everywhere, InLists
<1>3. InFlight' = Everywhere(net, replay, waiting) \union Range(out)
  BY <1>1, <1>2, PostEverywhere
<1>4. /\ Everywhere(net, replay, waiting) \subseteq InFlight
      /\ Cached(Everywhere(net, replay, waiting)) = Cached(InFlight) \ {}
  BY InFlightIs
<1>5. Flows({}, out)
  BY <1>3, <1>4, FlowOf
<1>6. ASSUME Sendable(out) PROVE Orderly'
  <2>1. /\ Clear(out) /\ Order(net, replay, waiting)
        /\ \A u \in Everywhere(net, replay, waiting), v \in Range(out) : ~Wrong(u, v)
    BY <1>4, <1>6 DEF Sendable, Orderly
  <2>2. Order(Post(net, out), replay, waiting)
    BY <1>1, <2>1, PostOrder
  <2> QED
    BY <1>1, <2>2 DEF Orderly
<1> QED
  BY <1>5, <1>6

(* A bank that is done, and main memory's answer, also wake waiters.        *)
LEMMA WakingFlow ==
  ASSUME NEW n, Traffic(n), NEW rp, Stalled(rp), Stalled(waiting),
         Order(n, rp, waiting), KeptInv,
             InLists(rp, Banks) \subseteq InLists(replay, Banks),
         NEW gone, Everywhere(n, rp, waiting) \subseteq InFlight,
         Cached(Everywhere(n, rp, waiting)) = Cached(InFlight) \ gone,
         NEW out, Outgoing(out), NEW sets, net' = Post(n, out), Wake(rp, sets)
  PROVE  /\ Flows(gone, out) /\ (Sendable(out) => Orderly')
         /\ \A m \in InLists(replay', Banks) \union InLists(waiting', Banks) :
              m.type \in {"Read", "ReadEx", "Upgrade"}
         /\ \A m \in InLists(waiting', Banks) :
              m \in InLists(waiting, Banks) /\ L2SetOf[m.addr] \notin sets
<1>1. \A m \in InLists(rp, Banks) \union InLists(waiting, Banks) :
        m.type \in {"Read", "ReadEx", "Upgrade"}
  BY DEF KeptInv
<1>2. ASSUME NEW n2, Order(n2, rp, waiting)
      PROVE  /\ Order(n2, replay', waiting')
             /\ Everywhere(n2, replay', waiting') = Everywhere(n2, rp, waiting)
             /\ InLists(replay', Banks) \subseteq InLists(rp,
                 Banks) \union InLists(waiting, Banks)
             /\ \A m \in InLists(waiting', Banks) :
                  m \in InLists(waiting, Banks) /\ L2SetOf[m.addr] \notin sets
  BY <1>1, <1>2, WakeFlow
<1>4. InFlight' = Everywhere(Post(n, out), replay', waiting')
  BY DEF InFlight, Everywhere, InLists
<1>6. Everywhere(Post(n, out), replay', waiting') =
        Everywhere(n, replay', waiting') \union Range(out)
  BY PostFlow DEF Everywhere
<1>7. InFlight' = Everywhere(n, rp, waiting) \union Range(out)
  BY <1>2, <1>4, <1>6
<1>8. Flows(gone, out)
  BY <1>7, FlowOf
<1>9. ASSUME Sendable(out) PROVE Orderly'
  <2>1. Order(Post(n, out), rp, waiting)
    BY <1>9, PostOrder DEF Sendable
  <2> QED
    BY <1>2, <2>1 DEF Orderly
<1>10. /\ \A m \in InLists(replay', Banks) \union InLists(waiting', Banks) :
            m.type \in {"Read", "ReadEx", "Upgrade"}
       /\ \A m \in InLists(waiting', Banks) :
            m \in InLists(waiting, Banks) /\ L2SetOf[m.addr] \notin sets
  BY <1>1, <1>2
<1> QED
  BY <1>8, <1>9, <1>10

LEMMA DoneFlow ==
  ASSUME NetInv, Orderly, KeptInv, NEW b \in Banks, NEW m \in Ready(b),
         NEW out, Outgoing(out), NEW sets, Done(m, out, sets)
  PROVE  /\ m \in InFlight /\ Flows({m}, out) /\ (Sendable(out) => Orderly')
         /\ \A u \in InLists(replay', Banks) \union InLists(waiting', Banks) :
              u.type \in {"Read", "ReadEx", "Upgrade"}
         /\ \A u \in InLists(waiting', Banks) :
              u \in InLists(waiting, Banks) /\ L2SetOf[u.addr] \notin sets
<1>1. Traffic(Taken(m)) /\ Stalled(Rest(m)) /\ Stalled(waiting)
  BY ReadyKeeps DEF NetInv
<1>2. /\ m \in InFlight
      /\ Order(Taken(m), Rest(m), waiting)
      /\ Everywhere(Taken(m), Rest(m), waiting) \subseteq InFlight
      /\ InLists(Rest(m), Banks) \subseteq InLists(replay, Banks)
      /\ Cached(Everywhere(Taken(m), Rest(m), waiting)) = Cached(InFlight) \ {m}
  BY TakeFlow
<1>3. net' = Post(Taken(m), out) /\ Wake(Rest(m), sets)
  BY DEF Done
<1> QED
  BY <1>1, <1>2, <1>3, WakingFlow

(* A request that a bank puts back, behind the others of a list.            *)
LEMMA Appended ==
  ASSUME NEW q \in [Banks -> Seq(Message)], NEW b \in Banks, NEW m \in Message,
         \A c \in Banks : Clear(q[c]), m \notin Cached(InLists(q, Banks)),
         \A u \in InLists(q, Banks) : u.type \in {"Read", "ReadEx", "Upgrade"},
         Lone(InLists(q, Banks) \union {m})
  PROVE  /\ \A c \in Banks : Clear([q EXCEPT ![b] = Append(q[b], m)][c])
         /\ InLists([q EXCEPT ![b] = Append(q[b], m)], Banks) = InLists(q,
             Banks) \union {m}
<1> DEFINE r == [q EXCEPT ![b] = Append(q[b], m)]
<1>1. Range(Append(q[b], m)) = Range(q[b]) \union {m}
  BY AppendRange
<1>2. r[b] = Append(q[b], m) /\ \A c \in Banks \ {b} : r[c] = q[c]
  OBVIOUS
<1>3. \A u \in Range(q[b]) : ~Wrong(u, m)
  <2> SUFFICES ASSUME NEW u \in Range(q[b]), Wrong(u, m) PROVE FALSE
    OBVIOUS
  <2>1. u \in InLists(q, Banks)
    BY InSomeList
  <2>2. u.addr = m.addr /\ u.addr \notin ThreadState /\ Mark(u) = Mark(m)
    BY <2>1, RequestsInOrder
  <2>3. u = m
    BY <2>1, <2>2 DEF Lone
  <2> QED
    BY <2>1, <2>2, <2>3 DEF Cached
<1>4. Clear(Append(q[b], m))
  BY <1>3, ClearAppend
<1> HIDE DEF r
<1>5. \A c \in Banks : Clear(r[c])
  BY <1>2, <1>4
<1>6. \A u : u \in InLists(r, Banks) <=> \E c \in Banks : u \in Range(r[c])
  BY InSomeList
<1>7. \A u : u \in InLists(q, Banks) <=> \E c \in Banks : u \in Range(q[c])
  BY InSomeList
<1>8. InLists(r, Banks) = InLists(q, Banks) \union {m}
  BY <1>1, <1>2, <1>6, <1>7
<1> QED
  BY <1>5, <1>8 DEF r

LEMMA PutBackFacts ==
  ASSUME NetInv, Orderly, KeptInv, NEW b \in Banks, NEW m \in Ready(b)
  PROVE  /\ m \in Message /\ m.dst = b
         /\ Rest(m) \in [Banks -> Seq(Message)] /\ waiting \in [Banks -> Seq(Message)]
         /\ \A c \in Banks : Clear(Rest(m)[c]) /\ Clear(waiting[c])
         /\ m \notin Cached(InLists(Rest(m), Banks))
         /\ m \notin Cached(InLists(waiting, Banks))
         /\ m \notin Cached(InLists(Taken(m), Links))
         /\ \A u \in InLists(Rest(m), Banks) \union InLists(waiting, Banks) :
              u.type \in {"Read", "ReadEx", "Upgrade"}
         /\ Lone(InFlight)
         /\ InLists(Rest(m), Banks) \union {m} \subseteq InFlight
         /\ InLists(waiting, Banks) \union {m} \subseteq InFlight
<1>1. /\ m \in InFlight
      /\ Order(Taken(m), Rest(m), waiting)
      /\ Everywhere(Taken(m), Rest(m), waiting) \subseteq InFlight
      /\ InLists(Rest(m), Banks) \subseteq InLists(replay, Banks)
      /\ Cached(Everywhere(Taken(m), Rest(m), waiting)) = Cached(InFlight) \ {m}
  BY TakeFlow
<1>2. m \notin Cached(Everywhere(Taken(m), Rest(m), waiting))
  BY <1>1
<1>3. /\ m \notin Cached(InLists(Rest(m), Banks))
      /\ m \notin Cached(InLists(waiting, Banks))
      /\ m \notin Cached(InLists(Taken(m), Links))
  BY <1>2 DEF Cached, Everywhere
<1>4. Lone(InFlight)
  BY InFlightIs DEF Orderly, Order
<1>5. /\ m \in Message /\ m.dst = b
      /\ Rest(m) \in [Banks -> Seq(Message)] /\ waiting \in [Banks -> Seq(Message)]
  BY ReadyKeeps DEF Stalled, NetInv, Proper
<1> QED
  BY <1>1, <1>3, <1>4, <1>5 DEF Order, Everywhere, KeptInv

LEMMA PutBackFlow ==
  ASSUME NetInv, Orderly, KeptInv, NEW b \in Banks, NEW m \in Ready(b),
         NEW rp, NEW w, net' = Taken(m), replay' = rp, waiting' = w,
         InLists(rp, Banks) \union InLists(w, Banks) =
           InLists(Rest(m), Banks) \union InLists(waiting, Banks) \union {m},
         \A c \in Banks : Clear(rp[c]) /\ Clear(w[c]),
         Apart(InLists(rp, Banks), InLists(w, Banks))
  PROVE  Orderly' /\ Flows({}, <<>>)
<1>1. /\ m \in InFlight
      /\ Order(Taken(m), Rest(m), waiting)
      /\ Everywhere(Taken(m), Rest(m), waiting) \subseteq InFlight
      /\ Cached(Everywhere(Taken(m), Rest(m), waiting)) = Cached(InFlight) \ {m}
  BY TakeFlow
<1>2. InFlight' = Everywhere(Taken(m), rp, w)
  BY DEF InFlight, Everywhere, InLists
<1>3. Everywhere(Taken(m), rp, w) = Everywhere(Taken(m), Rest(m), waiting) \union {m}
  BY DEF Everywhere
<1>4. Cached(Everywhere(Taken(m), rp, w)) = Cached(InFlight)
  BY <1>1, <1>3 DEF Cached
<1>5. Everywhere(Taken(m), rp, w) \subseteq InFlight
  BY <1>1, <1>3
<1>6. Range(<<>>) = {}
  BY DEF Range
<1>7. Flows({}, <<>>)
  BY <1>2, <1>4, <1>5, <1>6 DEF Flows, Cached
<1>8. Lone(InFlight) /\ m \notin Cached(InLists(Taken(m), Links))
  BY PutBackFacts
<1>9. Lone(Everywhere(Taken(m), rp, w))
  BY <1>5, <1>8 DEF Lone
<1>10. /\ Apart(InLists(Taken(m), Links), InLists(rp, Banks))
       /\ Apart(InLists(Taken(m), Links), InLists(w, Banks))
  BY <1>1, <1>8 DEF Order, Apart, Cached
<1>11. \A c \in Links : Clear(Taken(m)[c])
  BY <1>1 DEF Order
<1>12. Order(Taken(m), rp, w)
  BY <1>9, <1>10, <1>11 DEF Order
<1> QED
  BY <1>7, <1>12 DEF Orderly

LEMMA PollFlow ==
  ASSUME NetInv, Orderly, KeptInv, NEW b \in Banks, NEW m \in Ready(b),
         m.type \in {"Read", "ReadEx", "Upgrade"}, Poll(m)
  PROVE  Orderly' /\ Flows({}, <<>>) /\ KeptInv'
<1>1. /\ m \in Message /\ m.dst = b
      /\ Rest(m) \in [Banks -> Seq(Message)] /\ waiting \in [Banks -> Seq(Message)]
      /\ \A c \in Banks : Clear(Rest(m)[c]) /\ Clear(waiting[c])
      /\ m \notin Cached(InLists(Rest(m), Banks))
      /\ m \notin Cached(InLists(waiting, Banks))
      /\ \A u \in InLists(Rest(m), Banks) \union InLists(waiting, Banks) :
           u.type \in {"Read", "ReadEx", "Upgrade"}
      /\ Lone(InFlight)
      /\ InLists(Rest(m), Banks) \union {m} \subseteq InFlight
  BY PutBackFacts
<1> DEFINE r == [Rest(m) EXCEPT ![b] = Append(Rest(m)[b], m)]
<1>2. net' = Taken(m) /\ replay' = r /\ waiting' = waiting
  BY <1>1 DEF Poll, Rest
<1>3. Lone(InLists(Rest(m), Banks) \union {m})
  BY <1>1 DEF Lone
<1>4. /\ \A c \in Banks : Clear(r[c])
      /\ InLists(r, Banks) = InLists(Rest(m), Banks) \union {m}
  BY <1>1, <1>3, Appended
<1> HIDE DEF r
<1>5. Apart(InLists(Rest(m), Banks), InLists(waiting, Banks))
  BY TakeFlow DEF Order
<1>6. Apart(InLists(r, Banks), InLists(waiting, Banks))
  BY <1>1, <1>4, <1>5 DEF Apart, Cached
<1>7. InLists(r, Banks) \union InLists(waiting, Banks) =
        InLists(Rest(m), Banks) \union InLists(waiting, Banks) \union {m}
  BY <1>4
<1>8. Orderly' /\ Flows({}, <<>>)
  BY <1>1, <1>2, <1>4, <1>6, <1>7, PutBackFlow
<1>9. l2' = l2
  BY DEF Poll, l2vars
<1>10. KeptInv'
  BY <1>1, <1>2, <1>4, <1>9 DEF KeptInv
<1> QED
  BY <1>8, <1>10

LEMMA BlockFlow ==
  ASSUME NetInv, Orderly, KeptInv, NEW b \in Banks, NEW m \in Ready(b),
         m.type \in {"Read", "ReadEx", "Upgrade"}, Block(m),
         m.type = "Upgrade" => l2[m.addr] = "ModToSh"
  PROVE  Orderly' /\ Flows({}, <<>>) /\ KeptInv'
<1>1. /\ m \in Message /\ m.dst = b
      /\ Rest(m) \in [Banks -> Seq(Message)] /\ waiting \in [Banks -> Seq(Message)]
      /\ \A c \in Banks : Clear(Rest(m)[c]) /\ Clear(waiting[c])
      /\ m \notin Cached(InLists(Rest(m), Banks))
      /\ m \notin Cached(InLists(waiting, Banks))
      /\ \A u \in InLists(Rest(m), Banks) \union InLists(waiting, Banks) :
           u.type \in {"Read", "ReadEx", "Upgrade"}
      /\ Lone(InFlight)
      /\ InLists(waiting, Banks) \union {m} \subseteq InFlight
  BY PutBackFacts
<1> DEFINE r == [waiting EXCEPT ![b] = Append(waiting[b], m)]
<1>2. net' = Taken(m) /\ replay' = Rest(m) /\ waiting' = r
  BY <1>1 DEF Block
<1>3. Lone(InLists(waiting, Banks) \union {m})
  BY <1>1 DEF Lone
<1>4. /\ \A c \in Banks : Clear(r[c])
      /\ InLists(r, Banks) = InLists(waiting, Banks) \union {m}
  BY <1>1, <1>3, Appended
<1> HIDE DEF r
<1>5. Apart(InLists(Rest(m), Banks), InLists(waiting, Banks))
  BY TakeFlow DEF Order
<1>6. Apart(InLists(Rest(m), Banks), InLists(r, Banks))
  BY <1>1, <1>4, <1>5 DEF Apart, Cached
<1>7. InLists(Rest(m), Banks) \union InLists(r, Banks) =
        InLists(Rest(m), Banks) \union InLists(waiting, Banks) \union {m}
  BY <1>4
<1>8. Orderly' /\ Flows({}, <<>>)
  BY <1>1, <1>2, <1>4, <1>6, <1>7, PutBackFlow
<1>9. l2' = l2
  BY DEF Block, l2vars
<1>10. KeptInv'
  BY <1>1, <1>2, <1>4, <1>9 DEF KeptInv
<1> QED
  BY <1>8, <1>10

-----------------------------------------------------------------------------
(* From messages to views.                                                  *)

(* What the messages of M say of line a.                                    *)
Marks(M, a) == {Mark(u) : u \in {w \in M : w.addr = a}}

LEMMA FlowMarks ==
  ASSUME Lone(InFlight), NEW a \in Addrs \ ThreadState, NEW gone,
           gone \subseteq InFlight,
         NEW out, Flows(gone, out)
  PROVE  View(a)'.msgs = (View(a).msgs \ Marks(gone, a)) \union Marks(Range(out), a)
<1>1. View(a).msgs = Marks(InFlight, a) /\ View(a)'.msgs = Marks(InFlight', a)
  BY DEF View, Marks
<1>2. \A u : u.addr = a
    => (u \in InFlight' <=> (u \in InFlight /\ u \notin gone) \/ u \in Range(out))
  <2> TAKE u
  <2> HAVE u.addr = a
  <2>1. \A M : u \in Cached(M) <=> u \in M
    BY DEF Cached
  <2>2. u \in Cached(InFlight') <=> (u \in Cached(InFlight) /\ u \notin gone)
      \/ u \in Cached(Range(out))
    BY DEF Flows
  <2> QED
    BY <2>1, <2>2
<1>3. ASSUME NEW u \in InFlight, u.addr = a, u \notin gone
      PROVE  Mark(u) \notin Marks(gone, a)
  BY <1>3 DEF Lone, Marks
<1>4. \A t : t \in Marks(InFlight', a) <=> \E u : u \in InFlight' /\ u.addr = a
    /\ t = Mark(u)
  BY DEF Marks
<1>5. \A t : t \in Marks(InFlight, a) <=> \E u : u \in InFlight /\ u.addr = a
    /\ t = Mark(u)
  BY DEF Marks
<1>6. \A t : t \in Marks(gone, a) <=> \E u : u \in gone /\ u.addr = a /\ t = Mark(u)
  BY DEF Marks
<1>7. \A t : t \in Marks(Range(out), a) <=> \E u : u \in Range(out) /\ u.addr = a
    /\ t = Mark(u)
  BY DEF Marks
<1>8. ASSUME NEW t \in Marks(InFlight', a)
      PROVE  t \in (Marks(InFlight, a) \ Marks(gone, a)) \union Marks(Range(out), a)
  BY <1>2, <1>3, <1>4, <1>5, <1>7, <1>8
<1>9. ASSUME NEW t \in (Marks(InFlight, a) \ Marks(gone, a)) \union Marks(Range(out),
               a)
      PROVE  t \in Marks(InFlight', a)
  BY <1>2, <1>4, <1>5, <1>6, <1>7, <1>9
<1> QED
  BY <1>1, <1>8, <1>9

LEMMA FitsNone ==
  ASSUME NEW x
  PROVE  Fits(x, {})
BY DEF Fits

LEMMA SendableNone == Sendable(<<>>)
<1>1. Range(<<>>) = {}
  BY DEF Range
<1> QED
  BY <1>1, ClearNone DEF Sendable

LEMMA TrafficProper ==
  ASSUME NetInv, NEW m \in InFlight
  PROVE  Proper(m)
BY DEF NetInv, Traffic, Stalled, InFlight

LEMMA MarkShape ==
  ASSUME NEW m, Proper(m)
  PROVE  /\ m.type # "WriteBackClean" => Mark(m)[1] = m.type
         /\ m.type = "WriteBackClean" => Mark(m)[1] = "WriteBack"
         /\ Mark(m) \in (ToL1 \union ToL2) \X L1s \X L1s
         /\ Mark(m)[1] \notin Forwards => Mark(m) = Plain(Mark(m)[1], Mark(m)[2])
         /\ m.type \in ToL1 => Mark(m)[2] = m.dst
         /\ m.type \in ToL2 => Mark(m)[2] = m.src
<1>1. m.type \in ToL1 \union ToL2
  BY ProperOfMessage
<1>2. CASE m.type \in Forwards
  <2>1. Mark(m) = <<m.type, m.dst, m.req>> /\ m.dst \in L1s /\ m.req \in L1s
    BY <1>2 DEF Forwards, Mark, Proper, ToL1
  <2>2. m.type \notin ToL2 /\ m.type # "WriteBackClean"
    BY <1>2 DEF Forwards, ToL2
  <2> QED
    BY <1>1, <1>2, <2>1, <2>2
<1>3. CASE m.type \in ToL1 \ Forwards
  <2>1. Mark(m) = <<m.type, m.dst, m.dst>> /\ m.dst \in L1s
    BY <1>3 DEF Mark, Proper
  <2>2. m.type \notin ToL2 /\ m.type # "WriteBackClean"
    BY <1>3 DEF ToL1, ToL2
  <2> QED
    BY <1>1, <2>1, <2>2 DEF Plain
<1>4. CASE m.type \in ToL2
  <2>1. m.type \notin ToL1 /\ m.type \notin Forwards /\ m.src \in L1s
    BY <1>4 DEF ToL1, ToL2, Forwards, Proper
  <2>2. CASE m.type = "WriteBackClean"
    <3>1. Mark(m) = <<"WriteBack", m.src, m.src>> /\ "WriteBack" \in ToL2
      BY <2>1, <2>2 DEF Mark, ToL2
    <3> QED
      BY <2>1, <2>2, <3>1 DEF Plain
  <2>3. CASE m.type # "WriteBackClean"
    <3>1. Mark(m) = <<m.type, m.src, m.src>>
      BY <2>1, <2>3 DEF Mark
    <3> QED
      BY <1>4, <2>1, <2>3, <3>1 DEF Plain
  <2> QED
    BY <2>2, <2>3
<1> QED
  BY <1>1, <1>2, <1>3, <1>4

LEMMA FitsSendable ==
  ASSUME NetInv, NEW out, Outgoing(out), Clear(out),
         \A a \in Addrs \ ThreadState : Fits(View(a), Marks(Range(out), a))
  PROVE  Sendable(out)
<1> SUFFICES ASSUME NEW u \in InFlight, NEW v \in Range(out), Wrong(u, v)
             PROVE  FALSE
  BY DEF Sendable
<1>1. Proper(u) /\ Proper(v)
  BY TrafficProper DEF Outgoing
<1> DEFINE a == v.addr
           x == View(a)
           plus == Marks(Range(out), a)
           p == Mark(v)[2]
<1>2. a \in Addrs \ ThreadState /\ u.addr = a /\ Clash(Mark(u), Mark(v))
  BY <1>1, ProperOfMessage DEF Wrong
<1>3. Mark(u) \in x.msgs /\ Mark(v) \in plus
  BY <1>2 DEF View, Marks
<1>4. Fits(x, plus)
  BY <1>2
<1>5. /\ Mark(u) \in (ToL1 \union ToL2) \X L1s \X L1s
          /\ Mark(v) \in (ToL1 \union ToL2) \X L1s \X L1s
      /\ Mark(u)[1] \notin Forwards => Mark(u) = Plain(Mark(u)[1], Mark(u)[2])
      /\ Mark(v)[1] \notin Forwards => Mark(v) = Plain(Mark(v)[1], Mark(v)[2])
  BY <1>1, MarkShape
<1> DEFINE s == Mark(u)
           t == Mark(v)
<1> HIDE DEF x, plus, a, s, t
<1>6. s \in x.msgs /\ t \in plus /\ Clash(s, t) /\ p = t[2]
      /\ s \in (ToL1 \union ToL2) \X L1s \X L1s
          /\ t \in (ToL1 \union ToL2) \X L1s \X L1s
      /\ (s[1] \notin Forwards => s = Plain(s[1], s[2]))
      /\ (t[1] \notin Forwards => t = Plain(t[1], t[2]))
  BY <1>2, <1>3, <1>5 DEF s, t
<1> HIDE DEF p
<1>7. s # t /\ p \in L1s
  BY <1>4, <1>6 DEF Fits
<1>8. s[2] = p /\ <<s[1], t[1]>> \in Behind
  BY <1>6, <1>7 DEF Clash
<1>9. CASE s[1] \in Lates /\ t[1] \in Forwards
  <2>1. Late(x, p)
    BY <1>6, <1>8, <1>9 DEF Late, In, Lates, Forwards, Plain
  <2>2. PICK r \in L1s : t = <<t[1], p, r>>
    BY <1>6
  <2> QED
    BY <1>4, <1>6, <1>7, <1>9, <2>1, <2>2 DEF Fits, Forwards
<1>10. CASE s[1] \in Lates /\ t[1] = "UpgradeAck"
  <2>1. Late(x, p)
    BY <1>6, <1>8, <1>10 DEF Late, In, Lates, Forwards, Plain
  <2>2. t = <<"UpgradeAck", p, p>>
    BY <1>6, <1>10 DEF Forwards, Plain
  <2> QED
    BY <1>4, <1>6, <1>7, <2>1, <2>2 DEF Fits
<1>11. CASE s[1] \in Forwards /\ t[1] = "UpgradeAck"
  <2>1. PICK r \in L1s : s = <<s[1], p, r>>
    BY <1>6, <1>8
  <2>2. Owes(x, "ReadFwd", p) \/ Owes(x, "ReadExFwd", p)
    BY <1>6, <1>11, <2>1 DEF Owes, Sent, Forwards
  <2>3. t = <<"UpgradeAck", p, p>>
    BY <1>6, <1>11 DEF Forwards, Plain
  <2> QED
    BY <1>4, <1>6, <1>7, <2>2, <2>3 DEF Fits
<1>12. CASE s[1] = "InvAck" /\ t[1] = "Upgrade"
  <2>1. t = <<"Upgrade", p, p>> /\ In(x, "InvAck", p)
    BY <1>6, <1>8, <1>12 DEF Forwards, Plain, In
  <2> QED
    BY <1>4, <1>6, <1>7, <2>1 DEF Fits
<1>13. CASE s[1] = "FwdAckData" /\ t[1] = "WriteBack"
  <2>1. t = <<"WriteBack", p, p>> /\ In(x, "FwdAckData", p)
    BY <1>6, <1>8, <1>13 DEF Forwards, Plain, In
  <2> QED
    BY <1>4, <1>6, <1>7, <2>1 DEF Fits
<1> QED
  BY <1>8, <1>9, <1>10, <1>11, <1>12, <1>13 DEF Behind

LEMMA MarksNone ==
  ASSUME NEW a
  PROVE  Marks({}, a) = {} /\ Marks(Range(<<>>), a) = {}
<1>1. Range(<<>>) = {}
  BY DEF Range
<1> QED
  BY <1>1 DEF Marks

LEMMA MarksOther ==
  ASSUME NEW M, NEW a, \A m \in M : m.addr # a
  PROVE  Marks(M, a) = {}
BY DEF Marks

LEMMA RangeOne ==
  ASSUME NEW m
  PROVE  Range(<< m >>) = {m}
<1>1. DOMAIN << m >> = {1} /\ << m >>[1] = m
  OBVIOUS
<1> QED
  BY <1>1 DEF Range

LEMMA RangeTwo ==
  ASSUME NEW m, NEW n
  PROVE  Range(<< m, n >>) = {m, n}
<1>1. DOMAIN << m, n >> = {1, 2} /\ << m, n >>[1] = m /\ << m, n >>[2] = n
  OBVIOUS
<1> QED
  BY <1>1 DEF Range

LEMMA MarksOne ==
  ASSUME NEW m, NEW a, m.addr = a
  PROVE  Marks({m}, a) = {Mark(m)} /\ Marks(Range(<< m >>), a) = {Mark(m)}
BY RangeOne DEF Marks

LEMMA MarksTwo ==
  ASSUME NEW m, NEW n, NEW a, m.addr = a, n.addr = a
  PROVE  Marks(Range(<< m, n >>), a) = {Mark(m), Mark(n)}
BY RangeTwo DEF Marks

(* What the messages that the caches send say.                              *)
LEMMA MarkDown ==
  ASSUME NEW type \in ToL2 \ {"WriteBackClean"}, NEW a, NEW p
  PROVE  Down(type, a, p).addr = a /\ Mark(Down(type, a, p)) = Plain(type, p)
BY DEF Down, Msg, Mark, Plain, Forwards, ToL1, ToL2

LEMMA MarkClean ==
  ASSUME NEW a, NEW p
  PROVE  /\ Down("WriteBackClean", a, p).addr = a
         /\ Mark(Down("WriteBackClean", a, p)) = Plain("WriteBack", p)
BY DEF Down, Msg, Mark, Plain, Forwards, ToL1

LEMMA MarkUp ==
  ASSUME NEW type \in ToL1 \ {"ReadFwd", "ReadExFwd"}, NEW a, NEW p
  PROVE  Up(type, a, p).addr = a /\ Mark(Up(type, a, p)) = Plain(type, p)
BY DEF Up, Msg, Mark, Plain, Forwards

LEMMA MarkData ==
  ASSUME NEW type \in {"DataShared", "DataExclusive"}, NEW a, NEW p, NEW q
  PROVE  Msg(type, a, p, q).addr = a /\ Mark(Msg(type, a, p, q)) = Plain(type, q)
BY DEF Msg, Mark, Plain, Forwards, ToL1

LEMMA MarkFwd ==
  ASSUME NEW type \in {"ReadFwd", "ReadExFwd"}, NEW a, NEW p, NEW q
  PROVE  Fwd(type, a, p, q).addr = a /\ Mark(Fwd(type, a, p, q)) = <<type, p, q>>
BY DEF Fwd, Mark, Forwards

LEMMA UpApart ==
  ASSUME NEW s \in ToL1 \ {"ReadFwd", "ReadExFwd"},
           NEW t \in ToL1 \ {"ReadFwd", "ReadExFwd"},
         NEW a, NEW p, NEW q, p # q
  PROVE  ~Wrong(Up(s, a, p), Up(t, a, q))
<1>1. Mark(Up(s, a, p)) = <<s, p, p>> /\ Mark(Up(t, a, q)) = <<t, q, q>>
  BY MarkUp DEF Plain
<1> QED
  BY <1>1 DEF Wrong, Clash

(* A message to each L1 of a set, each about its own L1.                    *)
LEMMA MulticastSends ==
  ASSUME NEW type \in ToL1 \ {"ReadFwd", "ReadExFwd"}, NEW a \in Addrs,
           NEW S \in SUBSET L1s
  PROVE  /\ Outgoing(Multicast(type, a, S)) /\ Clear(Multicast(type, a, S))
         /\ \A m \in Range(Multicast(type, a, S)) : m.addr = a
         /\ Marks(Range(Multicast(type, a, S)), a) = {Plain(type, q) : q \in S}
<1> DEFINE s == [i \in 1 .. NumL1s |-> Up(type, a, i - 1)]
           K == {i \in 1 .. NumL1s : i - 1 \in S}
<1>1. NumL1s \in Nat
  BY CmpInclAssumption
<1>2. \A i \in 1 .. NumL1s : Up(type, a, i - 1) \in Message
  <2> TAKE i \in 1 .. NumL1s
  <2>1. i - 1 \in L1s
    BY <1>1 DEF L1s
  <2> QED
    BY <2>1, UpProper DEF Proper
<1>3. s \in Seq(Message) /\ Len(s) = NumL1s
  BY <1>1, <1>2
<1>4. K \in SUBSET (1 .. Len(s))
  BY <1>3
<1>5. Clear(s)
  <2> SUFFICES ASSUME NEW i \in 1 .. NumL1s, NEW j \in 1 .. NumL1s, i < j
               PROVE  ~Wrong(Up(type, a, i - 1), Up(type, a, j - 1))
    BY <1>3 DEF Clear
  <2>1. i - 1 # j - 1
    BY <1>1
  <2> QED
    BY <2>1, UpApart
<1>6. Range(Pick(s, K)) = {s[k] : k \in K}
  <2> HIDE DEF s, K
  <2> QED
    BY <1>3, <1>4, PickProperties
<1>7. Clear(Pick(s, K))
  <2> HIDE DEF s, K
  <2> QED
    BY <1>3, <1>4, <1>5, ClearPick
<1>8. {s[k] : k \in K} = {Up(type, a, q) : q \in S}
  <2>1. \A k \in K : s[k] = Up(type, a, k - 1) /\ k - 1 \in S
    OBVIOUS
  <2>2. \A q \in S : q + 1 \in K /\ (q + 1) - 1 = q
    BY <1>1 DEF L1s
  <2>3. \A q \in S : s[q + 1] = Up(type, a, q)
    BY <2>2
  <2> HIDE DEF s, K
  <2> QED
    BY <2>1, <2>2, <2>3
<1>9. Range(Multicast(type, a, S)) = {Up(type, a, q) : q \in S}
  BY <1>6, <1>8 DEF Multicast
<1>10. \A q \in S : Up(type, a, q).addr = a /\ Mark(Up(type, a, q)) = Plain(type, q)
  BY MarkUp
<1>11. Marks({Up(type, a, q) : q \in S}, a) = {Plain(type, q) : q \in S}
  BY <1>10 DEF Marks
<1> QED
  BY <1>7, <1>9, <1>10, <1>11, MulticastOutgoing DEF Multicast

(* The answers to the requests of an MSHR that asks each L1 once.           *)
LEMMA ResponsesSend ==
  ASSUME L2Types, NEW a \in Addrs, IsInjective(l2queue[a]),
         \A q, r \in Range(l2queue[a]) : q.req = r.req => q = r
  PROVE  /\ Outgoing(Responses(a)) /\ Clear(Responses(a))
         /\ \A m \in Range(Responses(a)) : m.addr = a
         /\ Marks(Range(Responses(a)),
             a) = {Mark(Response(a, q)) : q \in Range(l2queue[a])}
<1> DEFINE queue == l2queue[a]
           type(q) == CASE q.type = "Upgrade" /\ l2[a] = "ShToMod" -> "UpgradeAck"
                       [] q.type = "Read" /\ l2[a] = "ModToSh" -> "DataShared"
                       [] OTHER -> "DataExclusive"
<1>1. queue \in Seq(Queued) /\ Len(queue) \in Nat
  BY DEF L2Types
<1>2. \A q : Response(a, q) = Up(type(q), a, q.req)
    /\ type(q) \in ToL1 \ {"ReadFwd", "ReadExFwd"}
  <2> TAKE q
  <2>1. type(q) \in {"UpgradeAck", "DataShared", "DataExclusive"}
    OBVIOUS
  <2>2. Response(a, q) = Up(type(q), a, q.req)
    BY DEF Response
  <2> HIDE DEF type
  <2> QED
    BY <2>1, <2>2 DEF ToL1
<1> HIDE DEF type
<1>3. \A q : Response(a, q).addr = a
  BY <1>2, MarkUp
<1>4. \A i, j \in 1 .. Len(queue) : queue[i].req = queue[j].req => i = j
  <2>1. \A i \in 1 .. Len(queue) : queue[i] \in Range(queue) /\ i \in DOMAIN queue
    BY <1>1 DEF Range
  <2> QED
    BY <2>1 DEF IsInjective
<1>5. /\ Len(Responses(a)) = Len(queue)
      /\ \A i \in 1 .. Len(queue) : Responses(a)[i] = Response(a, queue[i])
      /\ DOMAIN Responses(a) = 1 .. Len(queue) /\ DOMAIN queue = 1 .. Len(queue)
  BY <1>1 DEF Responses
<1>6. Clear(Responses(a))
  <2> SUFFICES ASSUME NEW i \in 1 .. Len(queue), NEW j \in 1 .. Len(queue), i < j
               PROVE  ~Wrong(Response(a, queue[i]), Response(a, queue[j]))
    BY <1>5 DEF Clear
  <2>1. queue[i].req # queue[j].req
    BY <1>1, <1>4
  <2> QED
    BY <1>2, <2>1, UpApart
<1>7. Range(Responses(a)) = {Response(a, q) : q \in Range(queue)}
  BY <1>5 DEF Range
<1>8. Marks({Response(a, q) : q \in Range(queue)},
    a) = {Mark(Response(a, q)) : q \in Range(queue)}
  BY <1>3 DEF Marks
<1> HIDE DEF queue
<1> QED
  BY <1>3, <1>6, <1>7, <1>8, ResponsesOutgoing DEF queue

LEMMA CohParts ==
  ASSUME Coh
  PROVE  /\ Orderly /\ KeptInv /\ QueueInv /\ MemoryInv /\ ThreadStateInv
         /\ Lone(InFlight)
         /\ \A a \in Addrs \ ThreadState : LineInv(View(a)) /\ LineTypes(View(a))
BY InFlightIs DEF Coh, Orderly, Order, LineInv

(* The view of a line that a step leaves alone.                             *)
LEMMA SameView ==
  ASSUME NEW a, \A p \in L1s : l1'[p][a] = l1[p][a],
         l2'[a] = l2[a], sharers'[a] = sharers[a], l2queue'[a] = l2queue[a],
         View(a)'.msgs = View(a).msgs
  PROVE  View(a)' = View(a)
BY DEF View

(* What a step has to show for the lines and for the order.                 *)
LEMMA LinesStep ==
  ASSUME NetInv, NEW out, Outgoing(out), Clear(out), Sendable(out) => Orderly',
         \A a \in Addrs \ ThreadState :
           LineInv(View(a)') /\ Fits(View(a), Marks(Range(out), a))
  PROVE  Orderly' /\ \A a \in Addrs \ ThreadState : LineInv(View(a))'
<1>1. Sendable(out)
  BY FitsSendable
<1> QED
  BY <1>1

(* Nothing about thread state but what its requests and the L2 do.          *)
LEMMA ThreadStateStep ==
  ASSUME ThreadStateInv, NEW out, InFlight' \subseteq InFlight \union Range(out),
         \A v \in Range(out) : v.addr \in ThreadState =>
           v.type \in {"Read", "ReadEx", "DataExclusive"},
         \A a \in ThreadState :
           /\ \A p \in L1s : l1'[p][a] = l1[p][a]
           /\ l2'[a] = l2[a] /\ sharers'[a] = sharers[a] /\ l2queue'[a] = l2queue[a]
  PROVE  ThreadStateInv'
BY DEF ThreadStateInv

LEMMA MovesOf ==
  ASSUME NEW p \in L1s, NEW a \in Addrs, l1 \in [L1s -> [Addrs -> L1State]],
         NEW state, l1' = [l1 EXCEPT ![p][a] = state],
         UNCHANGED l2vars, NEW minus, NEW plus,
         View(a)'.msgs = (View(a).msgs \ minus) \union plus
  PROVE  Moves(View(a), View(a)', p, state, minus, plus)
<1>1. l2' = l2 /\ sharers' = sharers /\ l2queue' = l2queue
  BY DEF l2vars
<1>2. \A q \in L1s : l1'[q][a] = IF q = p THEN state ELSE l1[q][a]
  OBVIOUS
<1>3. [q \in L1s |-> l1'[q][a]] = [[q \in L1s |-> l1[q][a]] EXCEPT ![p] = state]
  BY <1>2
<1>4. /\ View(a).lines = [q \in L1s |-> l1[q][a]]
      /\ View(a)'.lines = [q \in L1s |-> l1'[q][a]]
      /\ View(a)'.l2 = View(a).l2 /\ View(a)'.dir = View(a).dir
      /\ View(a)'.held = View(a).held
  BY <1>1 DEF View
<1> QED
  BY <1>3, <1>4 DEF Moves

(* An L1 that receives a message about line a and changes that line only.   *)
LEMMA ReceivedStep ==
  ASSUME IInv, Coh, NEW p \in L1s, NEW m \in Arriving(p),
           NEW a \in Addrs \ ThreadState,
         m.addr = a, NEW out, Outgoing(out), Clear(out),
             \A v \in Range(out) : v.addr = a,
         NEW done, NEW woken, Received(p, m, out, done, woken),
         NEW state, l1' = [l1 EXCEPT ![p][a] = state],
         Moves(View(a), View(a)', p, state, {Mark(m)}, Marks(Range(out), a)) =>
           LineInv(View(a)') /\ Fits(View(a), Marks(Range(out), a))
  PROVE  Coh'
<1>1. NetInv /\ l1 \in [L1s -> [Addrs -> L1State]]
  BY DEF IInv, L1Inv, L1Types
<1>2. /\ Orderly /\ KeptInv /\ QueueInv /\ MemoryInv /\ ThreadStateInv
      /\ Lone(InFlight)
      /\ \A b \in Addrs \ ThreadState : LineInv(View(b)) /\ LineTypes(View(b))
  BY CohParts
<1>3. m \in InFlight /\ Flows({m}, out) /\ (Sendable(out) => Orderly')
  BY <1>1, <1>2, ReceivedFlow
<1>4. /\ UNCHANGED l2vars
      /\ l2' = l2 /\ sharers' = sharers /\ l2queue' = l2queue /\ memory' = memory
      /\ replay' = replay /\ waiting' = waiting
  BY DEF Received, l2vars, bankvars
<1>5. {m} \subseteq InFlight
  BY <1>3
<1>6. ASSUME NEW b \in Addrs \ ThreadState
      PROVE  View(b)'.msgs = (View(b).msgs \ Marks({m}, b)) \union Marks(Range(out),
               b)
  BY <1>2, <1>3, <1>5, FlowMarks
<1>7. ASSUME NEW b \in Addrs \ ThreadState
      PROVE  LineInv(View(b)') /\ Fits(View(b), Marks(Range(out), b))
  <2>1. CASE b = a
    <3>1. Marks({m}, a) = {Mark(m)}
      BY MarksOne
    <3>2. View(a)'.msgs = (View(a).msgs \ {Mark(m)}) \union Marks(Range(out), a)
      BY <1>6, <3>1
    <3>3. Moves(View(a), View(a)', p, state, {Mark(m)}, Marks(Range(out), a))
      BY <1>1, <1>4, <3>2, MovesOf
    <3> QED
      BY <2>1, <3>3
  <2>2. CASE b # a
    <3>1. Marks({m}, b) = {} /\ Marks(Range(out), b) = {}
      BY <2>2, MarksOther
    <3>2. View(b)'.msgs = View(b).msgs
      BY <1>6, <3>1
    <3>3. \A q \in L1s : l1'[q][b] = l1[q][b]
      BY <1>1, <2>2
    <3>4. View(b)' = View(b)
      BY <1>4, <3>2, <3>3, SameView
    <3> QED
      BY <1>2, <3>1, <3>4, FitsNone
  <2> QED
    BY <2>1, <2>2
<1>8. Orderly' /\ \A b \in Addrs \ ThreadState : LineInv(View(b))'
  BY <1>1, <1>3, <1>7, LinesStep
<1>9. ThreadStateInv'
  <2>1. \A b \in ThreadState : \A q \in L1s : l1'[q][b] = l1[q][b]
    BY <1>1, CmpInclAssumption
  <2>2. InFlight' \subseteq InFlight \union Range(out)
    BY <1>3 DEF Flows
  <2> QED
    BY <1>2, <1>4, <2>1, <2>2, ThreadStateStep
<1>10. KeptInv' /\ QueueInv' /\ MemoryInv'
  BY <1>2, <1>4 DEF KeptInv, QueueInv, MemoryInv
<1> QED
  BY <1>8, <1>9, <1>10 DEF Coh

HeldBy(queue) == {<<q.type, q.req>> : q \in Range(queue)}

LEMMA ServesOf ==
  ASSUME L2Types, NEW a \in Addrs, UNCHANGED l1, NEW state, NEW sh, NEW queue,
         l2'[a] = state, sharers'[a] = sh, l2queue'[a] = queue,
         NEW minus, NEW plus, View(a)'.msgs = (View(a).msgs \ minus) \union plus
  PROVE  Serves(View(a), View(a)', state, sh, HeldBy(queue), minus, plus)
<1>1. /\ View(a)'.lines = View(a).lines
      /\ View(a)'.l2 = state /\ View(a)'.dir = sh
      /\ View(a)'.held = HeldBy(queue)
  BY DEF View, HeldBy
<1> QED
  BY <1>1 DEF Serves

(* A bank that lets line L2SetOf[a] go on keeps no Upgrade too long.        *)
LEMMA KeptStep ==
  ASSUME KeptInv, NEW woken,
         \A u \in InLists(replay', Banks) \union InLists(waiting', Banks) :
           u.type \in {"Read", "ReadEx", "Upgrade"},
         \A u \in InLists(waiting', Banks) :
           u \in InLists(waiting, Banks) /\ L2SetOf[u.addr] \notin woken,
         \A u \in InLists(waiting, Banks) :
           l2'[u.addr] = l2[u.addr] \/ L2SetOf[u.addr] \in woken
               \/ l2[u.addr] # "ModToSh"
  PROVE  KeptInv'
<1>1. \A u \in InLists(waiting', Banks) : u.type = "Upgrade"
    => l2'[u.addr] = "ModToSh"
  BY DEF KeptInv
<1> QED
  BY <1>1 DEF KeptInv

LEMMA WaitingAddrs ==
  ASSUME NetInv, NEW u \in InLists(waiting, Banks)
  PROVE  u.addr \in Addrs
<1>1. PICK b \in Banks : u \in Range(waiting[b])
  BY InSomeList
<1> QED
  BY <1>1, ProperOfMessage DEF NetInv, Stalled

(* A bank that completes a message about line a and changes that line only. *)
LEMMA DoneStep ==
  ASSUME IInv, Coh, NEW b \in Banks, NEW m \in Ready(b),
           NEW a \in Addrs \ ThreadState,
         m.addr = a, NEW out, Outgoing(out), Clear(out),
             \A v \in Range(out) : v.addr = a,
         NEW woken, L2SetOf[a] \in woken, Done(m, out, woken),
         NEW state, NEW sh, NEW d, Line(a, state, sh, d),
         NEW queue \in Seq(Queued), IsInjective(queue),
         l2queue' = [l2queue EXCEPT ![a] = queue], memory' = memory,
         state = l2[a] \/ l2[a] # "InvToMod",
         Serves(View(a), View(a)', state, sh, HeldBy(queue), {Mark(m)},
             Marks(Range(out), a))
           => LineInv(View(a)') /\ Fits(View(a), Marks(Range(out), a))
  PROVE  Coh'
<1>1. NetInv /\ L2Types
  BY DEF IInv, L2Inv
<1>2. /\ Orderly /\ KeptInv /\ QueueInv /\ MemoryInv /\ ThreadStateInv
      /\ Lone(InFlight)
      /\ \A c \in Addrs \ ThreadState : LineInv(View(c)) /\ LineTypes(View(c))
  BY CohParts
<1>3. /\ m \in InFlight /\ Flows({m}, out) /\ (Sendable(out) => Orderly')
      /\ \A u \in InLists(replay', Banks) \union InLists(waiting', Banks) :
           u.type \in {"Read", "ReadEx", "Upgrade"}
      /\ \A u \in InLists(waiting', Banks) :
           u \in InLists(waiting, Banks) /\ L2SetOf[u.addr] \notin woken
  BY <1>1, <1>2, DoneFlow
<1>4. /\ UNCHANGED l1
      /\ l2'[a] = state /\ sharers'[a] = sh /\ l2queue'[a] = queue
      /\ \A c \in Addrs \ {a} :
           l2'[c] = l2[c] /\ sharers'[c] = sharers[c] /\ l2queue'[c] = l2queue[c]
  BY <1>1 DEF Done, l1vars, Line, L2Types
<1>5. {m} \subseteq InFlight
  BY <1>3
<1>6. ASSUME NEW c \in Addrs \ ThreadState
      PROVE  View(c)'.msgs = (View(c).msgs \ Marks({m}, c)) \union Marks(Range(out),
               c)
  BY <1>2, <1>3, <1>5, FlowMarks
<1>7. ASSUME NEW c \in Addrs \ ThreadState
      PROVE  LineInv(View(c)') /\ Fits(View(c), Marks(Range(out), c))
  <2>1. CASE c = a
    <3>1. Marks({m}, a) = {Mark(m)}
      BY MarksOne
    <3>2. View(a)'.msgs = (View(a).msgs \ {Mark(m)}) \union Marks(Range(out), a)
      BY <1>6, <3>1
    <3>3. Serves(View(a), View(a)', state, sh, HeldBy(queue), {Mark(m)},
        Marks(Range(out), a))
      BY <1>1, <1>4, <3>2, ServesOf
    <3> QED
      BY <2>1, <3>3
  <2>2. CASE c # a
    <3>1. Marks({m}, c) = {} /\ Marks(Range(out), c) = {}
      BY <2>2, MarksOther
    <3>2. View(c)'.msgs = View(c).msgs
      BY <1>6, <3>1
    <3>3. View(c)' = View(c)
      BY <1>4, <2>2, <3>2, SameView
    <3> QED
      BY <1>2, <3>1, <3>3, FitsNone
  <2> QED
    BY <2>1, <2>2
<1>8. Orderly' /\ \A c \in Addrs \ ThreadState : LineInv(View(c))'
  BY <1>1, <1>3, <1>7, LinesStep
<1>9. ThreadStateInv'
  <2>1. ThreadState \subseteq Addrs \ {a}
      /\ \A v \in Range(out) : v.addr \notin ThreadState
    BY CmpInclAssumption
  <2>2. InFlight' \subseteq InFlight \union Range(out)
    BY <1>3 DEF Flows
  <2> QED
    BY <1>2, <1>4, <2>1, <2>2, ThreadStateStep
<1>10. KeptInv'
  BY <1>1, <1>2, <1>3, <1>4, WaitingAddrs, KeptStep
<1>11. QueueInv' /\ MemoryInv'
  <2>1. QueueInv'
    BY <1>2, <1>4 DEF QueueInv
  <2>2. MemoryInv'
    BY <1>1, <1>2, <1>4 DEF MemoryInv, L2Types
  <2> QED
    BY <2>1, <2>2
<1> QED
  BY <1>8, <1>9, <1>10, <1>11 DEF Coh

(* The L2 puts a request back: nothing has happened.                        *)
LEMMA PutBackStep ==
  ASSUME IInv, Coh, NEW b \in Banks, NEW m \in Ready(b),
         m.type \in {"Read", "ReadEx", "Upgrade"},
         Poll(m) \/ (Block(m) /\ (m.type = "Upgrade" => l2[m.addr] = "ModToSh"))
  PROVE  Coh'
<1>1. NetInv
  BY DEF IInv
<1>2. /\ Orderly /\ KeptInv /\ QueueInv /\ MemoryInv /\ ThreadStateInv
      /\ Lone(InFlight)
      /\ \A a \in Addrs \ ThreadState : LineInv(View(a)) /\ LineTypes(View(a))
  BY CohParts
<1>3. Orderly' /\ Flows({}, <<>>) /\ KeptInv'
  BY <1>1, <1>2, PollFlow, BlockFlow
<1>4. UNCHANGED l1 /\ UNCHANGED <<l2, sharers, l2queue, memory>>
  BY DEF Poll, Block, l1vars, l2vars
<1>5. ASSUME NEW a \in Addrs \ ThreadState
      PROVE  LineInv(View(a))'
  <2>1. Marks({}, a) = {} /\ Marks(Range(<<>>), a) = {} /\ {} \subseteq InFlight
    BY MarksNone
  <2>2. View(a)'.msgs = (View(a).msgs \ Marks({}, a)) \union Marks(Range(<<>>), a)
    BY <1>2, <1>3, <2>1, FlowMarks
  <2>3. View(a)' = View(a)
    BY <1>4, <2>1, <2>2, SameView
  <2> QED
    BY <1>2, <2>3
<1>6. Range(<<>>) = {}
  BY DEF Range
<1>7. InFlight' \subseteq InFlight \union Range(<<>>)
  BY <1>3 DEF Flows
<1>8. ThreadStateInv'
  BY <1>2, <1>4, <1>6, <1>7, ThreadStateStep
<1>9. QueueInv' /\ MemoryInv'
  BY <1>2, <1>4 DEF QueueInv, MemoryInv
<1> QED
  BY <1>3, <1>5, <1>8, <1>9 DEF Coh

LEMMA FailStep ==
  ASSUME Coh, NEW where, Fail(where)
  PROVE  Coh'
<1>1. UNCHANGED <<l1, l2, sharers, l2queue, memory, replay, waiting, net>>
  BY DEF Fail, l1vars, l2vars, bankvars
<1>2. InFlight' = InFlight
  BY <1>1 DEF InFlight
<1>3. \A a : View(a)' = View(a)
  BY <1>1, <1>2 DEF View
<1> QED
  BY <1>1, <1>2, <1>3 DEF Coh, Orderly, KeptInv, QueueInv, MemoryInv, ThreadStateInv

-----------------------------------------------------------------------------
(* The handlers of the L1.                                                  *)

(* Every L1 handler finds the line in a state that it accepts.              *)
LEMMA InvalidateFinds ==
  ASSUME NEW x, LineInv(x), NEW p \in L1s, In(x, "Invalidate", p)
  PROVE  x.lines[p] \notin {"NotPresent", "Invalid"}
<1>1. /\ LineTypes(x) /\ TokenInv(x, p) /\ GoneInv(x, p) /\ RecallInv(x, p)
          /\ EntryInv(x, p)
  BY DEF LineInv, CopyInv
<1> SUFFICES ASSUME x.lines[p] \in {"NotPresent", "Invalid"} PROVE FALSE
  OBVIOUS
<1>2. x.lines[p] \notin Readable /\ x.lines[p] \notin L1Buffered
  BY DEF Readable, L1Buffered
<1>3. p \in x.dir /\ ~Leaves(x, p)
  BY <1>1, <1>2 DEF RecallInv, GoneInv
<1>4. ~Serving(x, p)
  BY <1>1 DEF TokenInv, Serving, Queuing, Promised, Answering
<1> QED
  BY <1>1, <1>2, <1>3, <1>4 DEF EntryInv, Present

LEMMA ForwardFinds ==
  ASSUME NEW x, LineInv(x), NEW p \in L1s, Owes(x, "ReadFwd", p),
           ~In(x, "UpgradeAck", p)
  PROVE  x.lines[p] \notin {"NotPresent", "Invalid"}
<1>1. /\ LineTypes(x) /\ \A q \in L1s : TokenInv(x, q) /\ GoneInv(x, q)
      /\ SharingInv(x) /\ OwningInv(x)
  BY DEF LineInv, CopyInv
<1>2. CASE Sharing(x)
  BY <1>1, <1>2 DEF SharingInv
<1>3. CASE ~Sharing(x)
  <2>1. PICK k \in [L1s -> Int], o \in L1s : ChainInv(x, k, o)
    BY <1>1, <1>3 DEF OwningInv
  <2>2. p = o /\ x.l2 = "ModToSh"
    BY <1>1, <1>3, <2>1 DEF ChainInv, Owes, Sharing, LineTypes, L2State, L2Transient,
                            L2Buffered, L2Replaceable
  <2>3. Expects(x, p)
    BY <2>1, <2>2 DEF ChainInv
  <2>4. In(x, "WriteBack", p) => x.lines[p] \in L1Buffered
    BY <1>1, <2>2 DEF GoneInv
  <2> QED
    BY <1>1, <2>3, <2>4 DEF Expects, Holds, TokenInv, Owned, L1Buffered
<1> QED
  BY <1>2, <1>3

LEMMA HandOnFinds ==
  ASSUME NEW x, LineInv(x), NEW p \in L1s, Owes(x, "ReadExFwd", p),
           ~In(x, "UpgradeAck", p)
  PROVE  x.lines[p] \notin {"NotPresent", "Invalid", "Shared", "ShToMod", "ShToInv"}
<1>1. /\ LineTypes(x) /\ \A q \in L1s : TokenInv(x, q)
      /\ SharingInv(x) /\ OwningInv(x)
  BY DEF LineInv, CopyInv
<1>2. ~Sharing(x)
  BY <1>1 DEF SharingInv
<1>3. PICK k \in [L1s -> Int], o \in L1s : ChainInv(x, k, o)
  BY <1>1, <1>2 DEF OwningInv
<1>4. Expects(x, p) /\ p \notin x.dir
  BY <1>3 DEF ChainInv, Owes
<1> QED
  BY <1>1, <1>4 DEF Expects, Holds, TokenInv, Owned

LEMMA InView ==
  ASSUME NEW a, NEW m \in InFlight, m.addr = a
  PROVE  Mark(m) \in View(a).msgs
BY DEF View

LEMMA OfView ==
  ASSUME NEW a, NEW t \in View(a).msgs
  PROVE  \E u \in InFlight : u.addr = a /\ Mark(u) = t
BY DEF View

(* Whatever may not be behind a message of the L2 is not under way to the   *)
(* L1 that the message has reached.                                         *)
LEMMA NoneAhead ==
  ASSUME NetInv, Orderly, NEW p \in L1s, NEW m \in Arriving(p),
           NEW a \in Addrs \ ThreadState,
         m.addr = a, m.type \in ToL1 \ {"DataShared", "DataExclusive"},
         NEW t \in ToL1 \ {"DataShared", "DataExclusive"}, <<m.type, t>> \in Behind,
             NEW r
  PROVE  <<t, p, r>> \notin View(a).msgs
<1> SUFFICES ASSUME <<t, p, r>> \in View(a).msgs PROVE FALSE
  OBVIOUS
<1>1. PICK u \in InFlight : u.addr = a /\ Mark(u) = <<t, p, r>>
  BY OfView
<1>2. Proper(u) /\ Proper(m) /\ m.dst = p
  BY TrafficProper, ArrivingKeeps DEF NetInv
<1>3. u.type = t /\ u.dst = p
  <2>1. "WriteBack" \notin ToL1 /\ t # "WriteBack"
    BY DEF ToL1
  <2>2. u.type = t
    BY <1>1, <1>2, <2>1, MarkShape
  <2> QED
    BY <1>1, <1>2, <2>2, MarkShape
<1>4. Link(u) = Link(m)
  BY <1>1, <1>2, <1>3 DEF Proper, Link
<1>5. u \in Range(net[Link(m)])
  <2>1. u \notin InLists(replay, Banks) /\ u \notin InLists(waiting, Banks)
    BY <1>3, CmpInclAssumption, InSomeList DEF NetInv, Stalled
  <2>2. u \in InLists(net, Links)
    BY <1>1, <2>1, InFlightIs DEF Everywhere
  <2>3. PICK c \in Links : u \in Range(net[c])
    BY <2>2, InSomeList
  <2> QED
    BY <1>4, <2>3 DEF NetInv, Traffic
<1>6. u = m \/ ~Wrong(m, u)
  BY <1>5, ConsumeFlow
<1>7. u # m
  BY <1>3 DEF Behind, Lates, Forwards
<1>8. Mark(m)[1] = m.type /\ Mark(m)[2] = p
  <2>1. m.type # "WriteBackClean"
    BY DEF ToL1
  <2> QED
    BY <1>2, <2>1, MarkShape
<1>9. Wrong(m, u)
  BY <1>1, <1>8 DEF Wrong, Clash
<1> QED
  BY <1>6, <1>7, <1>9

LEMMA LateAlone ==
  ASSUME NetInv, Orderly, NEW p \in L1s, NEW m \in Arriving(p),
           NEW a \in Addrs \ ThreadState,
         m.addr = a, m.type \in Lates
  PROVE  /\ ~Owes(View(a), "ReadFwd", p) /\ ~Owes(View(a), "ReadExFwd", p)
         /\ ~In(View(a), "UpgradeAck", p)
<1>1. /\ m.type \in ToL1 \ {"DataShared", "DataExclusive"}
      /\ {"ReadFwd", "ReadExFwd", "UpgradeAck"} \subseteq ToL1 \ {"DataShared",
          "DataExclusive"}
      /\ \A t \in {"ReadFwd", "ReadExFwd", "UpgradeAck"} : <<m.type, t>> \in Behind
  BY DEF Lates, ToL1, Behind, Forwards
<1>2. \A t \in {"ReadFwd", "ReadExFwd", "UpgradeAck"}, r \in L1s :
        <<t, p, r>> \notin View(a).msgs
  BY <1>1, NoneAhead
<1> QED
  BY <1>2 DEF Owes, Sent, In

LEMMA ForwardAlone ==
  ASSUME NetInv, Orderly, NEW p \in L1s, NEW m \in Arriving(p),
           NEW a \in Addrs \ ThreadState,
         m.addr = a, m.type \in Forwards
  PROVE  ~In(View(a), "UpgradeAck", p)
<1>1. /\ m.type \in ToL1 \ {"DataShared", "DataExclusive"}
      /\ "UpgradeAck" \in ToL1 \ {"DataShared", "DataExclusive"}
      /\ <<m.type, "UpgradeAck">> \in Behind
  BY DEF ToL1, Behind, Forwards
<1> QED
  BY <1>1, NoneAhead DEF In

(* What a message that an L1 receives says of its line.                     *)
LEMMA ReceivedView ==
  ASSUME IInv, Coh, NEW p \in L1s, NEW m \in Arriving(p),
         m.addr \notin ThreadState \/ m.type # "DataExclusive"
  PROVE  /\ m.addr \in Addrs \ ThreadState /\ LineInv(View(m.addr))
         /\ l1 \in [L1s -> [Addrs -> L1State]]
         /\ NetInv /\ Orderly /\ View(m.addr).lines[p] = l1[p][m.addr]
         /\ m.dst = p /\ m.type \in ToL1 /\ l1[p][m.addr] \in L1State
         /\ m.type \notin Forwards => In(View(m.addr), m.type, p)
             /\ Mark(m) = Plain(m.type, p)
         /\ m.type \in Forwards => /\ m.req \in L1s
             /\ Sent(View(m.addr), m.type, p, m.req)
                                   /\ Mark(m) = <<m.type, p, m.req>>
<1>1. NetInv /\ l1 \in [L1s -> [Addrs -> L1State]]
  BY DEF IInv, L1Inv, L1Types
<1>2. Orderly /\ ThreadStateInv /\ \A a \in Addrs \ ThreadState : LineInv(View(a))
  BY CohParts
<1>3. Proper(m) /\ m.dst = p /\ m.addr \in Addrs /\ l1[p][m.addr] \in L1State
  BY ReceiveFacts
<1>4. m \in InFlight
  BY <1>1, <1>2, ConsumeFlow, InFlightIs DEF Everywhere
<1>5. m.type \in ToL1
  <2>1. m.type \in ToL1 \union ToL2 /\ m.addr \in Addrs
    BY <1>3, ProperOfMessage
  <2>2. BankOf[m.addr] \notin L1s
    BY <2>1, CmpInclAssumption
  <2> QED
    BY <1>3, <2>1, <2>2 DEF Proper
<1>6. m.addr \notin ThreadState
  BY <1>2, <1>4, <1>5 DEF ThreadStateInv, ToL1
<1>7. View(m.addr).lines[p] = l1[p][m.addr]
  BY DEF View
<1>8. Mark(m) \in View(m.addr).msgs
  BY <1>4, InView
<1>9. m.type \notin Forwards => In(View(m.addr), m.type, p)
    /\ Mark(m) = Plain(m.type, p)
  BY <1>3, <1>5, <1>8 DEF Mark, In, Plain
<1>10. m.type \in Forwards => /\ m.req \in L1s /\ Sent(View(m.addr), m.type, p, m.req)
                              /\ Mark(m) = <<m.type, p, m.req>>
  BY <1>3, <1>8 DEF Mark, Sent, Proper, Forwards
<1> QED
  BY <1>1, <1>2, <1>3, <1>5, <1>6, <1>7, <1>9, <1>10

LEMMA ReceivedLine ==
  ASSUME IInv, Coh, NEW p \in L1s, NEW m \in Arriving(p),
           m.addr \in Addrs \ ThreadState,
         NEW out, Outgoing(out), Clear(out), \A v \in Range(out) : v.addr = m.addr,
         NEW plus, Marks(Range(out), m.addr) = plus, NEW woken,
             Received(p, m, out, {}, woken),
         NEW state, l1' = [l1 EXCEPT ![p][m.addr] = state],
         Moves(View(m.addr), View(m.addr)', p, state, {Mark(m)}, plus) =>
           LineInv(View(m.addr)') /\ Fits(View(m.addr), plus)
  PROVE  Coh' /\ failed' = failed
<1>1. Coh'
  BY ReceivedStep
<1> QED
  BY <1>1 DEF Received

LEMMA ReceivedKept ==
  ASSUME NEW p, NEW m, NEW out, NEW done, NEW woken, Received(p, m, out, done, woken)
  PROVE  failed' = failed
BY DEF Received

(* The answer to a request.                                                 *)
LEMMA DataCoh ==
  ASSUME IInv, Coh, NEW p \in L1s, NEW m \in Arriving(p),
         L1DataShared(p, m) \/ L1DataExclusive(p, m) \/ L1UpgradeAck(p, m)
  PROVE  Coh' /\ failed' = failed
<1> DEFINE a == m.addr
           x == View(a)
<1>1. m.addr \notin ThreadState \/ m.type # "DataExclusive"
  BY DEF L1DataShared, L1DataExclusive, L1UpgradeAck
<1>2. /\ a \in Addrs \ ThreadState /\ LineInv(x) /\ x.lines[p] = l1[p][a]
      /\ m.type \notin Forwards => In(x, m.type, p) /\ Mark(m) = Plain(m.type, p)
  BY <1>1, ReceivedView
<1>3. TokenInv(x, p)
  BY <1>2 DEF LineInv, CopyInv
<1>4. PICK state :
        /\ Fill(p, m, state)
        /\ \/ m.type = "DataShared" /\ x.lines[p] = "InvToShEx" /\ state = "Shared"
           \/ m.type = "DataExclusive" /\ x.lines[p] = "InvToShEx"
               /\ state = "Exclusive"
           \/ m.type = "DataExclusive" /\ x.lines[p] = "InvToMod"
               /\ state = "Modified"
           \/ m.type = "UpgradeAck" /\ x.lines[p] = "ShToMod" /\ state = "Modified"
  <2>1. m.type \in {"DataShared", "DataExclusive", "UpgradeAck"} => In(x, m.type, p)
    BY <1>2 DEF Forwards
  <2>2. CASE L1DataShared(p, m)
    BY <1>2, <1>3, <2>1, <2>2 DEF L1DataShared, TokenInv
  <2>3. CASE L1DataExclusive(p, m)
    BY <1>2, <1>3, <2>1, <2>3 DEF L1DataExclusive, TokenInv
  <2>4. CASE L1UpgradeAck(p, m)
    BY <1>2, <1>3, <2>1, <2>4 DEF L1UpgradeAck, TokenInv
  <2> QED
    BY <2>2, <2>3, <2>4
<1>5. /\ Received(p, m, <<>>, Held(p, a), L1FreedMshr(p, a))
      /\ l1' = [l1 EXCEPT ![p][a] = state]
  BY <1>4 DEF Fill, SetLine
<1>6. In(x, m.type, p) /\ Mark(m) = Plain(m.type, p)
  BY <1>2, <1>4 DEF Forwards
<1>7. Marks(Range(<<>>), a) = {}
  BY MarksNone
<1>8. Moves(x, x', p, state, {Mark(m)}, {}) => LineInv(x')
  BY <1>2, <1>4, <1>6, FillShared, FillOwned
<1>9. Moves(View(a), View(a)', p, state, {Mark(m)}, Marks(Range(<<>>), a)) =>
        LineInv(View(a)') /\ Fits(View(a), Marks(Range(<<>>), a))
  BY <1>7, <1>8, FitsNone
<1>10. \A v \in Range(<<>>) : v.addr = a
  BY DEF Range
<1>11. Coh'
  BY <1>2, <1>5, <1>9, <1>10, OutgoingNone, ClearNone, ReceivedStep
<1> QED
  BY <1>5, <1>11 DEF Received

(* The message that frees a write-back buffer.                              *)
LEMMA ReleaseCoh ==
  ASSUME IInv, Coh, NEW p \in L1s, NEW m \in Arriving(p), m.type \in Lates,
         l1[p][m.addr] \in L1Buffered, Release(p, m)
  PROVE  Coh' /\ failed' = failed
<1> DEFINE a == m.addr
           x == View(a)
<1>1. m.type \notin Forwards /\ m.type # "DataExclusive"
  BY DEF Lates, Forwards
<1>2. /\ a \in Addrs \ ThreadState /\ LineInv(x) /\ x.lines[p] = l1[p][a] /\ NetInv
          /\ Orderly
      /\ In(x, m.type, p) /\ Mark(m) = Plain(m.type, p)
  BY <1>1, ReceivedView
<1>3. ~Owes(x, "ReadFwd", p) /\ ~Owes(x, "ReadExFwd", p) /\ ~In(x, "UpgradeAck", p)
  BY <1>2, LateAlone
<1>4. /\ Received(p, m, <<>>, {}, L1FreedBuffer(p, a))
      /\ l1' = [l1 EXCEPT ![p][a] = "NotPresent"]
  BY DEF Release, SetLine
<1>5. Moves(x, x', p, "NotPresent", {Plain(m.type, p)}, {}) => LineInv(x')
  BY <1>2, <1>3, ReleaseLine DEF Lates
<1>6. Moves(View(a), View(a)', p, "NotPresent", {Mark(m)}, Marks(Range(<<>>), a)) =>
        LineInv(View(a)') /\ Fits(View(a), Marks(Range(<<>>), a))
  BY <1>2, <1>5, MarksNone, FitsNone
<1>7. \A v \in Range(<<>>) : v.addr = a
  BY DEF Range
<1>8. Coh'
  BY <1>2, <1>4, <1>6, <1>7, OutgoingNone, ClearNone, ReceivedStep
<1> QED
  BY <1>4, <1>8 DEF Received

LEMMA AckCoh ==
  ASSUME IInv, Coh, NEW p \in L1s, NEW m \in Arriving(p),
         L1WriteBackAck(p, m) \/ L1ReplaceAck(p, m)
  PROVE  Coh' /\ failed' = failed
<1>1. m.type \in {"WriteBackAck", "ReplaceAck"}
  BY DEF L1WriteBackAck, L1ReplaceAck
<1>2. m.type # "DataExclusive" /\ m.type \notin Forwards /\ m.type \in Lates
  BY <1>1 DEF Forwards, Lates
<1>3. /\ LineInv(View(m.addr)) /\ View(m.addr).lines[p] = l1[p][m.addr]
      /\ In(View(m.addr), m.type, p)
  BY <1>2, ReceivedView
<1>4. AckInv(View(m.addr), p)
  BY <1>3 DEF LineInv, CopyInv
<1>5. /\ m.type = "WriteBackAck" => l1[p][m.addr] = "ModToInv"
      /\ m.type = "ReplaceAck" => l1[p][m.addr] = "ShToInv"
  BY <1>3, <1>4 DEF AckInv
<1>6. l1[p][m.addr] \in L1Buffered /\ Release(p, m)
  BY <1>1, <1>5 DEF L1WriteBackAck, L1ReplaceAck, L1Buffered
<1> QED
  BY <1>2, <1>6, ReleaseCoh

(* The L2 takes the line back.                                              *)
LEMMA InvalidateCoh ==
  ASSUME IInv, Coh, NEW p \in L1s, NEW m \in Arriving(p), L1Invalidate(p, m)
  PROVE  Coh' /\ failed' = failed
<1> DEFINE a == m.addr
           x == View(a)
           woken == {L1SetOf[a]}
<1>1. m.type = "Invalidate" /\ m.type \notin Forwards /\ m.type # "DataExclusive"
    /\ m.type \in Lates
  BY DEF L1Invalidate, Lates, Forwards
<1>2. /\ a \in Addrs \ ThreadState /\ LineInv(x) /\ x.lines[p] = l1[p][a] /\ NetInv
          /\ Orderly
      /\ In(x, "Invalidate", p) /\ Mark(m) = Plain("Invalidate", p)
  BY <1>1, ReceivedView
<1>3. ~Owes(x, "ReadFwd", p) /\ ~Owes(x, "ReadExFwd", p) /\ ~In(x, "UpgradeAck", p)
  BY <1>1, <1>2, LateAlone
<1>4. l1[p][a] \notin {"NotPresent", "Invalid"}
  BY <1>2, InvalidateFinds
<1> HIDE DEF x, woken
<1>5. CASE l1[p][a] = "Shared"
  <2> DEFINE out == << Down("InvAck", a, p) >>
  <2>1. /\ Received(p, m, out, {}, woken)
        /\ l1' = [l1 EXCEPT ![p][a] = "Invalid"]
    BY <1>5 DEF L1Invalidate, SetLine, L1Buffered, woken
  <2>2. Down("InvAck", a, p).addr = a
      /\ Mark(Down("InvAck", a, p)) = Plain("InvAck", p)
    BY MarkDown DEF ToL2
  <2>3. Outgoing(out) /\ Clear(out) /\ Range(out) = {Down("InvAck", a, p)}
    BY <1>2, DownProper, OutgoingOne, ClearOne, RangeOne DEF ToL2
  <2>4. Marks(Range(out), a) = {Plain("InvAck", p)}
    BY <2>2, MarksOne
  <2>5. Moves(x, x', p, "Invalid", {Mark(m)}, {Plain("InvAck", p)}) =>
          LineInv(x') /\ Fits(x, {Plain("InvAck", p)})
    BY <1>2, <1>3, <1>5, InvalidateShared DEF x
  <2> HIDE DEF out
  <2>6. Coh'
    BY <1>2, <2>1, <2>2, <2>3, <2>4, <2>5, ReceivedLine DEF x
  <2> QED
    BY <2>1, <2>6, ReceivedKept
<1>6. CASE l1[p][a] \in Owned
  <2>1. PICK type \in {"WriteBack", "WriteBackClean"} :
          /\ Received(p, m, << Down(type, a, p) >>, {}, woken)
          /\ l1' = [l1 EXCEPT ![p][a] = "Invalid"]
    BY <1>6 DEF L1Invalidate, SetLine, L1Buffered, woken, Owned
  <2> DEFINE out == << Down(type, a, p) >>
  <2>2. Down(type, a, p).addr = a /\ Mark(Down(type, a, p)) = Plain("WriteBack", p)
    BY MarkDown, MarkClean DEF ToL2
  <2>3. Outgoing(out) /\ Clear(out) /\ Range(out) = {Down(type, a, p)}
    BY <1>2, DownProper, OutgoingOne, ClearOne, RangeOne DEF ToL2
  <2>4. Marks(Range(out), a) = {Plain("WriteBack", p)}
    BY <2>2, MarksOne
  <2>5. Moves(x, x', p, "Invalid", {Mark(m)}, {Plain("WriteBack", p)}) =>
          LineInv(x') /\ Fits(x, {Plain("WriteBack", p)})
    BY <1>2, <1>3, <1>6, InvalidateOwned DEF x
  <2>6. Received(p, m, out, {}, woken)
    BY <2>1
  <2> HIDE DEF out
  <2>7. Coh'
    BY <1>2, <2>1, <2>2, <2>3, <2>4, <2>5, <2>6, ReceivedLine DEF x
  <2> QED
    BY <2>6, <2>7, ReceivedKept
<1>7. CASE l1[p][a] = "ShToMod"
  <2> DEFINE out == << Down("InvAck", a, p), Down("ReadEx", a, p) >>
  <2>1. /\ Received(p, m, out, {}, woken)
        /\ l1' = [l1 EXCEPT ![p][a] = "InvToMod"]
    BY <1>7 DEF L1Invalidate, SetLine, L1Buffered, woken
  <2>2. /\ Down("InvAck", a, p).addr = a
            /\ Mark(Down("InvAck", a, p)) = Plain("InvAck", p)
        /\ Down("ReadEx", a, p).addr = a
            /\ Mark(Down("ReadEx", a, p)) = Plain("ReadEx", p)
    BY MarkDown DEF ToL2
  <2>3. ~Wrong(Down("InvAck", a, p), Down("ReadEx", a, p))
    BY <2>2 DEF Wrong, Clash, Plain, Behind, Lates, Forwards
  <2>4. Outgoing(out) /\ Clear(out)
    BY <1>2, <2>3, DownProper, OutgoingTwo, ClearTwo DEF ToL2
  <2>5. \A v \in Range(out) : v.addr = a
    BY <2>2, RangeTwo
  <2>6. Marks(Range(out), a) = {Plain("InvAck", p), Plain("ReadEx", p)}
    BY <2>2, MarksTwo
  <2>7. Moves(x, x', p, "InvToMod", {Mark(m)},
      {Plain("InvAck", p), Plain("ReadEx", p)}) =>
          LineInv(x') /\ Fits(x, {Plain("InvAck", p), Plain("ReadEx", p)})
    BY <1>2, <1>3, <1>7, InvalidateAsking DEF x
  <2> HIDE DEF out
  <2>8. Coh'
    BY <1>2, <2>1, <2>4, <2>5, <2>6, <2>7, ReceivedLine DEF x
  <2> QED
    BY <2>1, <2>8, ReceivedKept
<1>8. CASE l1[p][a] \in L1Buffered
  <2>1. Release(p, m)
    BY <1>8 DEF L1Invalidate, L1Buffered
  <2> QED
    BY <1>1, <1>8, <2>1, ReleaseCoh
<1> QED
  BY <1>4, <1>5, <1>6, <1>7, <1>8 DEF L1Invalidate, Owned

(* The L2 asks for a copy on behalf of an L1.                               *)
LEMMA ForwardCoh ==
  ASSUME IInv, Coh, NEW p \in L1s, NEW m \in Arriving(p), L1ReadFwd(p, m)
  PROVE  Coh' /\ failed' = failed
<1> DEFINE a == m.addr
           x == View(a)
           woken == {L1SetOf[a]}
           h == m.req
           data == Msg("DataShared", a, p, h)
           ack == Down("FwdAckData", a, p)
<1>1. m.type = "ReadFwd" /\ m.type \in Forwards /\ m.type # "DataExclusive"
  BY DEF L1ReadFwd, Forwards
<1>2. /\ a \in Addrs \ ThreadState /\ LineInv(x) /\ x.lines[p] = l1[p][a] /\ NetInv
          /\ Orderly
      /\ h \in L1s /\ Sent(x, "ReadFwd", p, h) /\ Mark(m) = <<"ReadFwd", p, h>>
      /\ l1 \in [L1s -> [Addrs -> L1State]]
  BY <1>1, ReceivedView
<1>3. ~In(x, "UpgradeAck", p)
  BY <1>1, <1>2, ForwardAlone
<1>4. l1[p][a] \notin {"NotPresent", "Invalid"}
  BY <1>2, <1>3, ForwardFinds DEF Owes
<1>5. /\ data.addr = a /\ Mark(data) = Plain("DataShared", h)
      /\ ack.addr = a /\ Mark(ack) = Plain("FwdAckData", p)
      /\ Proper(data) /\ Proper(ack)
  BY <1>2, MarkData, MarkDown, DataProper, DownProper DEF ToL2
<1> HIDE DEF x, woken
<1>6. CASE l1[p][a] \in {"Shared", "ShToMod", "ShToInv"}
  <2> DEFINE out == << data >>
             s == l1[p][a]
  <2>1. Received(p, m, out, {}, woken) /\ l1' = l1
    BY <1>6 DEF L1ReadFwd, woken
  <2>2. l1' = [l1 EXCEPT ![p][a] = s]
    BY <1>2, <2>1
  <2> HIDE DEF data, ack
  <2>3. Outgoing(out) /\ Clear(out) /\ Range(out) = {data}
    BY <1>5, OutgoingOne, ClearOne, RangeOne
  <2>4. Marks(Range(out), a) = {Plain("DataShared", h)}
    BY <1>5, MarksOne
  <2>5. Moves(x, x', p, s, {Mark(m)}, {Plain("DataShared", h)}) =>
          LineInv(x') /\ Fits(x, {Plain("DataShared", h)})
    BY <1>2, <1>3, <1>6, ForwardShared DEF x
  <2> HIDE DEF out, s
  <2>6. Coh'
    BY <1>2, <1>5, <2>1, <2>2, <2>3, <2>4, <2>5, ReceivedLine DEF x
  <2> QED
    BY <2>1, <2>6, ReceivedKept
<1>7. CASE l1[p][a] \in Owned \union {"ModToInv"}
  <2> DEFINE out == << data, ack >>
             s == IF l1[p][a] = "ModToInv" THEN "ModToInv" ELSE "Shared"
  <2>1. /\ Received(p, m, out, {}, woken)
        /\ l1' = [l1 EXCEPT ![p][a] = s]
    BY <1>7 DEF L1ReadFwd, SetLine, woken, Owned
  <2>2. ~Wrong(data, ack)
    BY <1>5 DEF Wrong, Clash, Plain, Behind, Lates, Forwards
  <2> HIDE DEF data, ack
  <2>3. Outgoing(out) /\ Clear(out) /\ Range(out) = {data, ack}
    BY <1>5, <2>2, OutgoingTwo, ClearTwo, RangeTwo
  <2>4. Marks(Range(out), a) = {Plain("DataShared", h), Plain("FwdAckData", p)}
    BY <1>5, MarksTwo
  <2>5. \/ x.lines[p] \in Owned /\ s = "Shared"
        \/ x.lines[p] = "ModToInv" /\ s = "ModToInv"
    BY <1>2, <1>7 DEF Owned, x
  <2> HIDE DEF s
  <2>6. Moves(x, x', p, s, {Mark(m)},
      {Plain("DataShared", h), Plain("FwdAckData", p)}) =>
          LineInv(x') /\ Fits(x, {Plain("DataShared", h), Plain("FwdAckData", p)})
    BY <1>2, <1>3, <2>5, ForwardOwned DEF x
  <2> HIDE DEF out
  <2>7. Coh'
    BY <1>2, <1>5, <2>1, <2>3, <2>4, <2>6, ReceivedLine DEF x
  <2> QED
    BY <2>1, <2>7, ReceivedKept
<1> QED
  BY <1>4, <1>6, <1>7 DEF L1ReadFwd, Owned

(* The L2 hands the line over to another L1.                                *)
LEMMA HandOnCoh ==
  ASSUME IInv, Coh, NEW p \in L1s, NEW m \in Arriving(p), L1ReadExFwd(p, m)
  PROVE  Coh' /\ failed' = failed
<1> DEFINE a == m.addr
           x == View(a)
           woken == {L1SetOf[a]}
           h == m.req
           data == Msg("DataExclusive", a, p, h)
           out == << data >>
           s == IF l1[p][a] = "ModToInv" THEN "ModToInv" ELSE "Invalid"
<1>1. m.type = "ReadExFwd" /\ m.type \in Forwards /\ m.type # "DataExclusive"
  BY DEF L1ReadExFwd, Forwards
<1>2. /\ a \in Addrs \ ThreadState /\ LineInv(x) /\ x.lines[p] = l1[p][a] /\ NetInv
          /\ Orderly
      /\ h \in L1s /\ Sent(x, "ReadExFwd", p, h) /\ Mark(m) = <<"ReadExFwd", p, h>>
  BY <1>1, ReceivedView
<1>3. ~In(x, "UpgradeAck", p)
  BY <1>1, <1>2, ForwardAlone
<1>4. l1[p][a] \notin {"NotPresent", "Invalid", "Shared", "ShToMod", "ShToInv"}
  BY <1>2, <1>3, HandOnFinds DEF Owes
<1>5. data.addr = a /\ Mark(data) = Plain("DataExclusive", h) /\ Proper(data)
  BY <1>2, MarkData, DataProper
<1> HIDE DEF x, woken
<1>6. /\ Received(p, m, out, {}, woken) /\ l1[p][a] \in Owned \union {"ModToInv"}
      /\ l1' = [l1 EXCEPT ![p][a] = s]
  BY <1>4 DEF L1ReadExFwd, SetLine, woken, Owned
<1> HIDE DEF data
<1>7. Outgoing(out) /\ Clear(out) /\ Range(out) = {data}
  BY <1>5, OutgoingOne, ClearOne, RangeOne
<1>8. Marks(Range(out), a) = {Plain("DataExclusive", h)}
  BY <1>5, MarksOne
<1>9. \/ x.lines[p] \in Owned /\ s = "Invalid"
      \/ x.lines[p] = "ModToInv" /\ s = "ModToInv"
  BY <1>2, <1>6 DEF Owned, x
<1> HIDE DEF s
<1>10. Moves(x, x', p, s, {Mark(m)}, {Plain("DataExclusive", h)}) =>
         LineInv(x') /\ Fits(x, {Plain("DataExclusive", h)})
  BY <1>2, <1>3, <1>9, HandOn DEF x
<1> HIDE DEF out
<1>11. Coh'
  BY <1>2, <1>5, <1>6, <1>7, <1>8, <1>10, ReceivedLine DEF x
<1> QED
  BY <1>6, <1>11, ReceivedKept

(* A step that leaves lines, directory and messages alone.                  *)
LEMMA SilentStep ==
  ASSUME Coh, UNCHANGED <<l1, l2, sharers, l2queue, memory, replay, waiting, net>>
  PROVE  Coh'
<1>1. InFlight' = InFlight
  BY DEF InFlight
<1>2. \A a : View(a)' = View(a)
  BY <1>1 DEF View
<1> QED
  BY <1>1, <1>2 DEF Coh, Orderly, KeptInv, QueueInv, MemoryInv, ThreadStateInv

(* A step about thread state.                                               *)
LEMMA StateStep ==
  ASSUME IInv, Coh, NEW gone \in SUBSET InFlight, NEW out, Outgoing(out), Clear(out),
         Flows(gone, out), Sendable(out) => Orderly', KeptInv', MemoryInv',
         \A m \in gone : m.addr \in ThreadState,
         \A v \in Range(out) :
           v.addr \in ThreadState /\ v.type \in {"Read", "ReadEx", "DataExclusive"},
         \A a \in Addrs, p \in L1s : l1'[p][a] = l1[p][a],
         \A a \in Addrs \ ThreadState :
           l2'[a] = l2[a] /\ sharers'[a] = sharers[a] /\ l2queue'[a] = l2queue[a],
         \A a \in ThreadState :
           /\ l2'[a] \in {"NotPresent", "InvToMod", "Modified"} /\ sharers'[a] = {}
           /\ \A q \in Range(l2queue'[a]) : q.type \in {"Read", "ReadEx"}
  PROVE  Coh'
<1>1. NetInv
  BY DEF IInv
<1>2. /\ QueueInv /\ ThreadStateInv /\ Lone(InFlight)
      /\ \A a \in Addrs \ ThreadState : LineInv(View(a))
  BY CohParts
<1>3. ASSUME NEW a \in Addrs \ ThreadState
      PROVE  LineInv(View(a)') /\ Fits(View(a), Marks(Range(out), a))
  <2>1. Marks(gone, a) = {} /\ Marks(Range(out), a) = {}
    BY MarksOther
  <2>2. View(a)'.msgs = (View(a).msgs \ Marks(gone, a)) \union Marks(Range(out), a)
    BY <1>2, FlowMarks
  <2>3. View(a)'.msgs = View(a).msgs
    BY <2>1, <2>2
  <2>4. View(a)' = View(a)
    BY <2>3, SameView
  <2> QED
    BY <1>2, <2>1, <2>4, FitsNone
<1>4. Orderly' /\ \A a \in Addrs \ ThreadState : LineInv(View(a))'
  BY <1>1, <1>3, LinesStep
<1>5. InFlight' \subseteq InFlight \union Range(out)
  BY DEF Flows
<1>6. ThreadState \subseteq Addrs
  BY CmpInclAssumption
<1>7. ThreadStateInv'
  BY <1>2, <1>5, <1>6 DEF ThreadStateInv
<1>8. QueueInv'
  BY <1>2 DEF QueueInv
<1> QED
  BY <1>4, <1>7, <1>8 DEF Coh

LEMMA TSTRespCoh ==
  ASSUME IInv, Coh, NEW p \in L1s, NEW m \in Arriving(p), L1TSTResp(p, m)
  PROVE  Coh' /\ failed' = failed
<1>1. PICK r : Received(p, m, <<>>, {r}, {L1SetOf[m.addr]})
  BY DEF L1TSTResp
<1>2. m.addr \in ThreadState /\ l1' = l1
  BY DEF L1TSTResp
<1>3. NetInv /\ Orderly /\ KeptInv /\ MemoryInv /\ ThreadStateInv
  BY CohParts DEF IInv
<1>4. /\ m \in InFlight /\ Flows({m}, <<>>) /\ (Sendable(<<>>) => Orderly')
  BY <1>1, <1>3, OutgoingNone, ReceivedFlow
<1>5. /\ l2' = l2 /\ sharers' = sharers /\ l2queue' = l2queue /\ memory' = memory
      /\ replay' = replay /\ waiting' = waiting
  BY <1>1 DEF Received, l2vars, bankvars
<1>6. Range(<<>>) = {} /\ {m} \subseteq InFlight
  BY <1>4 DEF Range
<1>7. KeptInv' /\ MemoryInv'
  BY <1>3, <1>5 DEF KeptInv, MemoryInv
<1>8. \A a \in ThreadState :
        /\ l2[a] \in {"NotPresent", "InvToMod", "Modified"} /\ sharers[a] = {}
        /\ \A q \in Range(l2queue[a]) : q.type \in {"Read", "ReadEx"}
  BY <1>3 DEF ThreadStateInv
<1>9. Coh'
  BY <1>2, <1>4, <1>5, <1>6, <1>7, <1>8, OutgoingNone, ClearNone, StateStep
<1> QED
  BY <1>1, <1>9 DEF Received

(* Whatever an L1 receives, no handler fails.                               *)
LEMMA L1ReceiveCoh ==
  ASSUME IInv, Coh, NEW p \in L1s, NEW m \in Arriving(p), L1Receive(p, m)
  PROVE  Coh' /\ failed' = failed
BY DataCoh, InvalidateCoh, ForwardCoh, HandOnCoh, AckCoh, TSTRespCoh DEF L1Receive

-----------------------------------------------------------------------------
(* The handlers of the L2.                                                  *)

(* What a message that a bank serves says of its line.                      *)
LEMMA ProcessedView ==
  ASSUME IInv, Coh, NEW b \in Banks, NEW m \in Ready(b), m.addr \notin ThreadState
  PROVE  /\ m.addr \in Addrs \ ThreadState /\ LineInv(View(m.addr)) /\ m \in InFlight
         /\ NetInv /\ Orderly /\ KeptInv /\ L2Types
         /\ View(m.addr).l2 = l2[m.addr] /\ View(m.addr).dir = sharers[m.addr]
         /\ View(m.addr).held = HeldBy(l2queue[m.addr])
         /\ l2queue[m.addr] \in Seq(Queued) /\ IsInjective(l2queue[m.addr])
         /\ l2[m.addr] \in L2State /\ sharers[m.addr] \in SUBSET L1s
         /\ m.src \in L1s /\ m.type \in ToL2 /\ m.dst = b /\ BankOf[m.addr] = b
         /\ m.type # "WriteBackClean" =>
              In(View(m.addr), m.type, m.src) /\ Mark(m) = Plain(m.type, m.src)
         /\ m.type \in {"WriteBack", "WriteBackClean"} =>
              In(View(m.addr), "WriteBack", m.src)
                  /\ Mark(m) = Plain("WriteBack", m.src)
<1>1. NetInv /\ L2Types
  BY DEF IInv, L2Inv
<1>2. Orderly /\ KeptInv /\ QueueInv
    /\ \A a \in Addrs \ ThreadState : LineInv(View(a))
  BY CohParts
<1>3. /\ m.addr \in Addrs /\ m.src \in L1s /\ m.type \in ToL2 /\ m.dst = b
          /\ BankOf[m.addr] = b
      /\ l2queue[m.addr] \in Seq(Queued) /\ l2[m.addr] \in L2State
      /\ sharers[m.addr] \in SUBSET L1s
  BY ProcessFacts
<1>4. m \in InFlight
  BY <1>1, <1>2, TakeFlow
<1>5. /\ View(m.addr).l2 = l2[m.addr] /\ View(m.addr).dir = sharers[m.addr]
      /\ View(m.addr).held = HeldBy(l2queue[m.addr])
  BY DEF View, HeldBy
<1>6. Mark(m) \in View(m.addr).msgs
  BY <1>4, InView
<1>7. m.type \notin ToL1
  BY <1>3 DEF ToL1, ToL2
<1>8. Mark(m) = Plain(IF m.type = "WriteBackClean" THEN "WriteBack" ELSE m.type,
    m.src)
  BY <1>7 DEF Mark, Plain, ToL1, Forwards
<1>9. /\ m.type # "WriteBackClean" =>
           In(View(m.addr), m.type, m.src) /\ Mark(m) = Plain(m.type, m.src)
      /\ m.type \in {"WriteBack", "WriteBackClean"} =>
           In(View(m.addr), "WriteBack", m.src) /\ Mark(m) = Plain("WriteBack", m.src)
  BY <1>6, <1>8 DEF In, Plain
<1>10. IsInjective(l2queue[m.addr])
  BY <1>2, <1>3 DEF QueueInv
<1> QED
  BY <1>1, <1>2, <1>3, <1>4, <1>5, <1>9, <1>10

(* DoneStep and what the rest of the system sees.                           *)
LEMMA DoneLine ==
  ASSUME IInv, Coh, NEW b \in Banks, NEW m \in Ready(b),
           m.addr \in Addrs \ ThreadState,
         NEW out, Outgoing(out), Clear(out), \A v \in Range(out) : v.addr = m.addr,
         NEW plus, Marks(Range(out), m.addr) = plus,
         NEW woken, L2SetOf[m.addr] \in woken, Done(m, out, woken),
         NEW state, NEW sh, NEW d, Line(m.addr, state, sh, d),
         NEW queue \in Seq(Queued), IsInjective(queue), NEW held,
             HeldBy(queue) = held,
         l2queue' = [l2queue EXCEPT ![m.addr] = queue], memory' = memory,
         state = l2[m.addr] \/ l2[m.addr] # "InvToMod",
         Serves(View(m.addr), View(m.addr)', state, sh, held, {Mark(m)}, plus)
           => LineInv(View(m.addr)') /\ Fits(View(m.addr), plus)
  PROVE  Coh' /\ failed' = failed
<1>1. Coh'
  BY DoneStep
<1> QED
  BY <1>1 DEF Done

LEMMA ReplyLine ==
  ASSUME IInv, Coh, NEW b \in Banks, NEW m \in Ready(b),
           m.addr \in Addrs \ ThreadState,
         NEW out, Outgoing(out), Clear(out), \A v \in Range(out) : v.addr = m.addr,
         NEW plus, Marks(Range(out), m.addr) = plus,
         NEW state, NEW sh, NEW woken, L2SetOf[m.addr] \in woken, Done(m, out, woken),
         NEW d, Line(m.addr, state, sh, d), NoMshr,
         state = l2[m.addr] \/ l2[m.addr] # "InvToMod",
         Serves(View(m.addr), View(m.addr)', state, sh, View(m.addr).held, {Mark(m)},
             plus)
           => LineInv(View(m.addr)') /\ Fits(View(m.addr), plus)
  PROVE  Coh' /\ failed' = failed
<1> DEFINE queue == l2queue[m.addr]
<1>1. /\ queue \in Seq(Queued) /\ IsInjective(queue) /\ L2Types
      /\ View(m.addr).held = HeldBy(queue)
  BY ProcessedView
<1>2. l2queue' = l2queue /\ memory' = memory
  BY DEF NoMshr
<1>3. l2queue' = [l2queue EXCEPT ![m.addr] = queue]
  BY <1>1, <1>2 DEF L2Types
<1> HIDE DEF queue
<1> QED
  BY <1>1, <1>2, <1>3, DoneLine

LEMMA OwnSetWoken ==
  ASSUME NEW a \in Addrs
  PROVE  /\ L2SetOf[a] \in {L2SetOf[a]} /\ L2SetOf[a] \in L2FreedMshr(a)
         /\ L2SetOf[a] \in L2FreedBuffer(a)
BY CmpInclAssumption DEF L2FreedMshr, L2FreedBuffer

(* Every handler of the L2 finds the line in a state that it accepts, but   *)
(* the write-back of an L1 that the directory no longer has.                *)
LEMMA UpgradeFinds ==
  ASSUME NEW x, LineInv(x), NEW p \in L1s, In(x, "Upgrade", p)
  PROVE  /\ x.l2 \in {"Shared", "ShToMod", "ShToInv", "ModToSh"}
         /\ x.l2 = "Shared" => p \in x.dir
<1>1. TokenInv(x, p) /\ OneTokenInv(x, p) /\ GoneInv(x, p)
  BY DEF LineInv, CopyInv
<1>2. ~In(x, "UpgradeAck", p)
  BY <1>1 DEF OneTokenInv, Asking, Serving, Answering
<1>3. CASE x.lines[p] = "ShToMod"
  BY <1>2, <1>3, SharedCopy
<1>4. CASE In(x, "InvAck", p)
  BY <1>1, <1>4 DEF GoneInv
<1> QED
  BY <1>1, <1>3, <1>4 DEF TokenInv

LEMMA ModifiedHasOwner ==
  ASSUME NEW x, LineInv(x), x.l2 \in {"Modified", "ModToInv"}
  PROVE  x.held = {} /\ \E o \in L1s : x.dir = {o}
BY DEF LineInv, HomeInv

LEMMA WriteBackFinds ==
  ASSUME NEW x, LineInv(x), NEW p \in L1s, In(x, "WriteBack", p), p \in x.dir
  PROVE  x.l2 \in {"Modified", "ModToSh", "ModToInv"}
<1>1. GoneInv(x, p) /\ HomeInv(x) /\ SharingInv(x) /\ x.l2 \in L2State
  BY DEF LineInv, CopyInv, LineTypes
<1>2. CASE x.lines[p] = "ModToInv"
  <2>1. Sharing(x) => In(x, "FwdAckData", p)
    BY <1>1, <1>2 DEF SharingInv
  <2>2. In(x, "FwdAckData", p) => x.l2 = "ModToSh"
    BY <1>1 DEF HomeInv
  <2> QED
    BY <1>1, <2>1, <2>2 DEF Sharing, L2State, L2Transient, L2Buffered, L2Replaceable
<1>3. CASE x.lines[p] # "ModToInv"
  BY <1>1, <1>3 DEF GoneInv, Leaves, L1Buffered
<1> QED
  BY <1>2, <1>3

LEMMA CollectFinds ==
  ASSUME NEW x, LineInv(x), NEW p \in L1s, In(x, "InvAck", p) \/ In(x, "Replace", p),
         x.l2 = "ShToMod"
  PROVE  \E r \in x.dir \ {p}, t \in {"ReadEx", "Upgrade"} : x.held = {<<t, r>>}
<1>1. GoneInv(x, p) /\ HomeInv(x) /\ LineTypes(x)
  BY DEF LineInv, CopyInv
<1>2. PICK r \in x.dir, t \in {"ReadEx", "Upgrade"} : x.held = {<<t, r>>}
  BY <1>1 DEF HomeInv
<1>3. Serving(x, r)
  BY <1>2 DEF Serving, Queuing, Waits
<1>4. ~Serving(x, p)
  BY <1>1 DEF GoneInv, Leaves
<1> QED
  BY <1>2, <1>3, <1>4

LEMMA ReplaceAlone ==
  ASSUME NEW x, LineInv(x), NEW p \in L1s, In(x, "Replace", p)
  PROVE  ~In(x, "Upgrade", p)
<1>1. TokenInv(x, p) /\ GoneInv(x, p)
  BY DEF LineInv, CopyInv
<1> QED
  BY <1>1 DEF TokenInv, GoneInv, Leaves, Readable

(* What may not be behind an answer of an L1 is not under way from that L1. *)
LEMMA AnswerAlone ==
  ASSUME NetInv, Orderly, KeptInv, NEW b \in Banks, NEW m \in Ready(b),
         m.addr \in Addrs \ ThreadState, m.type \in {"InvAck", "FwdAckData"},
         NEW t, <<m.type, t>> \in Behind, In(View(m.addr), t, m.src)
  PROVE  t = "Upgrade" /\ l2[m.addr] = "ModToSh"
<1> DEFINE a == m.addr
           p == m.src
<1>1. PICK u \in InFlight : u.addr = a /\ Mark(u) = <<t, p, p>>
  BY OfView DEF In
<1>2. Proper(u) /\ Proper(m) /\ m.dst = b
  BY <1>1, TrafficProper, ReadyKeeps
<1>3. \/ m.type = "InvAck" /\ t = "Upgrade"
      \/ m.type = "FwdAckData" /\ t = "WriteBack"
  BY DEF Behind, Lates, Forwards
<1>4. Mark(m) = <<m.type, p, p>>
  BY DEF Mark, ToL1, Forwards
<1>5. u.type = t \/ u.type = "WriteBackClean"
  BY <1>1, <1>2, <1>3, MarkShape
<1>6. u.type \in ToL2 /\ m.type \in ToL2 /\ u.type # m.type
  BY <1>3, <1>5 DEF ToL2
<1>7. u.src = p /\ u.dst = b /\ Link(u) = Link(m)
  <2>1. u.src = p
    BY <1>1, <1>2, <1>6, MarkShape
  <2>2. u.dst = b
    BY <1>1, <1>2, <1>6 DEF Proper
  <2> QED
    BY <1>2, <2>1, <2>2 DEF Link
<1>8. Wrong(m, u)
  BY <1>1, <1>3, <1>4 DEF Wrong, Clash
<1>9. replay[b] = <<>>
  <2>1. SUFFICES ASSUME replay[b] # <<>> PROVE FALSE
    OBVIOUS
  <2>2. m = Head(replay[b]) /\ replay[b] \in Seq(Message)
    BY <2>1 DEF Ready, NetInv, Stalled
  <2>3. m \in Range(replay[b])
    BY <2>1, <2>2 DEF Range
  <2>4. m \in InLists(replay, Banks)
    BY <2>3, InSomeList
  <2> QED
    BY <1>3, <2>4 DEF KeptInv
<1>10. m \in Arriving(b)
  BY <1>9 DEF Ready
<1>11. u \notin Range(net[Link(m)])
  BY <1>8, <1>6, <1>10, ConsumeFlow
<1>12. u \notin InLists(net, Links)
  BY <1>7, <1>11, InSomeList DEF NetInv, Traffic
<1>13. u \notin InLists(replay, Banks)
  <2>1. SUFFICES ASSUME u \in InLists(replay, Banks) PROVE FALSE
    OBVIOUS
  <2>2. PICK c \in Banks : u \in Range(replay[c])
    BY <2>1, InSomeList
  <2>3. c = b
    BY <1>7, <2>2 DEF NetInv, Stalled
  <2> QED
    BY <1>9, <2>2, <2>3 DEF Range
<1>14. u \in InLists(waiting, Banks)
  BY <1>1, <1>12, <1>13, InFlightIs DEF Everywhere
<1> QED
  BY <1>1, <1>3, <1>5, <1>14 DEF KeptInv

LEMMA SharersCount ==
  ASSUME NEW S \in SUBSET L1s
  PROVE  /\ Cardinality(S) \in Nat /\ (Cardinality(S) = 0 <=> S = {})
         /\ Cardinality(S) = 1 <=> \E r : S = {r}
<1>1. IsFiniteSet(L1s)
  BY CmpInclAssumption, FS_Interval DEF L1s
<1>2. IsFiniteSet(S)
  BY <1>1, FS_Subset
<1> QED
  BY <1>2, FS_CardinalityType, FS_EmptySet, FS_Singleton

(* The answers to the requests of an MSHR that all get the same.            *)
LEMMA ResponsesOf ==
  ASSUME L2Types, NEW a \in Addrs, IsInjective(l2queue[a]),
         NEW g \in {"DataShared", "DataExclusive", "UpgradeAck"},
         \A q \in Range(l2queue[a]) : Response(a, q) = Up(g, a, q.req),
         NEW t, \A q \in Range(l2queue[a]) : q.type = t
  PROVE  /\ Outgoing(Responses(a)) /\ Clear(Responses(a))
         /\ \A m \in Range(Responses(a)) : m.addr = a
         /\ Marks(Range(Responses(a)),
             a) = {Plain(g, q.req) : q \in Range(l2queue[a])}
<1>1. \A q \in Range(l2queue[a]) : q = [type |-> t, req |-> q.req]
  <2>1. l2queue[a] \in Seq(Queued)
    BY DEF L2Types
  <2>2. Range(l2queue[a]) \subseteq Queued
    BY <2>1 DEF Range
  <2> QED
    BY <2>2 DEF Queued
<1>2. \A q, r \in Range(l2queue[a]) : q.req = r.req => q = r
  BY <1>1
<1>3. /\ Outgoing(Responses(a)) /\ Clear(Responses(a))
      /\ \A m \in Range(Responses(a)) : m.addr = a
      /\ Marks(Range(Responses(a)),
          a) = {Mark(Response(a, q)) : q \in Range(l2queue[a])}
  BY <1>2, ResponsesSend
<1>4. \A q \in Range(l2queue[a]) : Mark(Response(a, q)) = Plain(g, q.req)
  BY MarkUp DEF ToL1
<1> QED
  BY <1>3, <1>4

LEMMA HeldByNone == HeldBy(<<>>) = {} /\ IsInjective(<<>>) /\ <<>> \in Seq(Queued)
BY DEF HeldBy, Range, IsInjective

(* The source of m has given its copy up.                                   *)
LEMMA SharerGoneCoh ==
  ASSUME IInv, Coh, NEW b \in Banks, NEW m \in Ready(b),
           m.addr \in Addrs \ ThreadState,
         m.type \in {"Replace", "InvAck"}, SharerGone(m)
  PROVE  Coh' /\ failed' = failed
<1> DEFINE a == m.addr
           x == View(a)
           p == m.src
           left == sharers[a] \ {p}
<1>1. /\ LineInv(x) /\ x.l2 = l2[a] /\ x.dir = sharers[a]
          /\ x.held = HeldBy(l2queue[a])
      /\ NetInv /\ Orderly /\ KeptInv /\ L2Types
      /\ l2queue[a] \in Seq(Queued) /\ IsInjective(l2queue[a])
      /\ sharers[a] \in SUBSET L1s /\ p \in L1s
      /\ In(x, m.type, p) /\ Mark(m) = Plain(m.type, p)
  BY ProcessedView
<1>2. ~In(x, "Upgrade", p)
  <2>1. CASE m.type = "Replace"
    BY <1>1, <2>1, ReplaceAlone
  <2>2. CASE m.type = "InvAck"
    <3>1. <<m.type, "Upgrade">> \in Behind
      BY <2>2 DEF Behind
    <3>2. In(x, "Upgrade", p) => l2[a] = "ModToSh"
      BY <1>1, <2>2, <3>1, AnswerAlone
    <3> QED
      BY <3>2 DEF SharerGone
  <2> QED
    BY <2>1, <2>2
<1>3. L2SetOf[a] \in {L2SetOf[a]} /\ L2SetOf[a] \in L2FreedMshr(a)
    /\ L2SetOf[a] \in L2FreedBuffer(a)
  BY OwnSetWoken
<1>4. Cardinality(left) \in Nat /\ (Cardinality(left) = 0 <=> left = {})
      /\ (Cardinality(left) = 1 <=> \E r : left = {r})
  BY <1>1, SharersCount
<1>5. Outgoing(<<>>) /\ Clear(<<>>) /\ Marks(Range(<<>>), a) = {}
    /\ \A v \in Range(<<>>) : v.addr = a
  <2>1. \A v \in Range(<<>>) : v.addr = a
    BY DEF Range
  <2> QED
    BY <2>1, OutgoingNone, ClearNone, MarksNone
<1> HIDE DEF x, left
<1>6. CASE l2[a] = "ShToInv"
  <2> DEFINE woken == IF left = {} THEN L2FreedBuffer(a) ELSE {L2SetOf[a]}
             state == IF left = {} THEN "NotPresent" ELSE "ShToInv"
             d == IF left = {} THEN FALSE ELSE dirty[a]
  <2>1. Done(m, <<>>, woken) /\ Line(a, state, left, d) /\ NoMshr
    BY <1>6 DEF SharerGone, left
  <2>2. L2SetOf[a] \in woken
    BY <1>3
  <2>3. \/ x.dir = {p} /\ state = "NotPresent"
        \/ x.dir # {p} /\ state = "ShToInv"
    <3>1. p \in x.dir
      <4>1. GoneInv(x, p) /\ RecallInv(x, p)
        BY <1>1 DEF LineInv, CopyInv
      <4>2. x.lines[p] \in L1Buffered /\ In(x, "InvAck", p) => In(x, "Replace", p)
          \/ In(x, "WriteBack", p)
        BY <4>1 DEF GoneInv, Leaves, L1Buffered
      <4> QED
        BY <1>1, <4>1, <4>2 DEF GoneInv, Leaves
    <3> QED
      BY <1>1, <3>1 DEF left
  <2> HIDE DEF woken, state, d
  <2>4. Serves(x, x', state, left, x.held, {Mark(m)}, {}) => LineInv(x')
      /\ Fits(x, {})
    BY <1>1, <1>2, <1>6, <2>3, GoneEvicted, FitsNone DEF x, left
  <2> QED
    BY <1>1, <1>5, <1>6, <2>1, <2>2, <2>4, ReplyLine DEF x
<1>7. CASE l2[a] = "ShToMod"
  <2>1. PICK r \in left, t \in {"ReadEx", "Upgrade"} : x.held = {<<t, r>>}
    BY <1>1, <1>7, CollectFinds DEF left
  <2> DEFINE many == Reply(m, <<>>, "ShToMod", left)
             one == /\ Line(a, "Modified", left, dirty[a]) /\ FreeMshr(a)
                    /\ Done(m, Responses(a), L2FreedMshr(a))
                    /\ UNCHANGED <<memory, unsaved>>
  <2>0. (Cardinality(left) > 1 /\ many) \/ (Cardinality(left) = 1 /\ one)
    <3>1. l2[a] # "ShToInv"
      BY <1>7
    <3>2. \/ Cardinality(left) > 1 /\ many
          \/ Cardinality(left) = 1 /\ one
          \/ left = {}
      BY <3>1, ZenonT(40) DEF SharerGone, left
    <3> QED
      BY <2>1, <3>2
  <2> HIDE DEF many, one
  <2>2. CASE Cardinality(left) > 1 /\ many
    <3>1. Done(m, <<>>, {L2SetOf[a]}) /\ Line(a, "ShToMod", left, dirty[a]) /\ NoMshr
      BY <2>2 DEF Reply, many
    <3>2. \A i : x.dir \ {p} # {i}
      <4>1. x.dir \ {p} = left
        BY <1>1 DEF left
      <4>2. Cardinality(left) # 1
        BY <1>4, <2>2
      <4> QED
        BY <1>4, <4>1, <4>2
    <3>3. Serves(x, x', "ShToMod", left, x.held, {Mark(m)}, {}) => LineInv(x')
        /\ Fits(x, {})
      BY <1>1, <1>2, <1>7, <3>2, GoneCollected, FitsNone DEF x, left
    <3> QED
      BY <1>1, <1>3, <1>5, <1>7, <3>1, <3>3, ReplyLine DEF x
  <2>3. CASE Cardinality(left) = 1 /\ one
    <3> DEFINE g == IF t = "Upgrade" THEN "UpgradeAck" ELSE "DataExclusive"
               out == Responses(a)
    <3>1. left = {r} /\ r \in L1s
      BY <1>1, <1>4, <2>3 DEF left
    <3>2. /\ Line(a, "Modified", {r}, dirty[a]) /\ FreeMshr(a)
          /\ Done(m, out, L2FreedMshr(a)) /\ memory' = memory
      BY <2>3, <3>1 DEF one
    <3>3. \A q \in Range(l2queue[a]) : q.type = t /\ q.req = r
      <4>1. \A q \in Range(l2queue[a]) : <<q.type, q.req>> \in x.held
        BY <1>1 DEF HeldBy
      <4> QED
        BY <2>1, <4>1
    <3>4. \A q \in Range(l2queue[a]) : Response(a, q) = Up(g, a, q.req)
      BY <1>7, <3>3 DEF Response
    <3>5. Range(l2queue[a]) # {}
      BY <1>1, <2>1 DEF HeldBy
    <3>6. g \in {"DataShared", "DataExclusive", "UpgradeAck"}
      OBVIOUS
    <3>7. \/ t = "Upgrade" /\ g = "UpgradeAck"
          \/ t = "ReadEx" /\ g = "DataExclusive"
      OBVIOUS
    <3> HIDE DEF g
    <3>8. /\ Outgoing(out) /\ Clear(out) /\ \A v \in Range(out) : v.addr = a
          /\ Marks(Range(out), a) = {Plain(g, q.req) : q \in Range(l2queue[a])}
      BY <1>1, <3>3, <3>4, <3>6, ResponsesOf
    <3>9. Marks(Range(out), a) = {Plain(g, r)}
      BY <3>3, <3>5, <3>8
    <3>10. l2queue' = [l2queue EXCEPT ![a] = <<>>]
      BY <3>2 DEF FreeMshr
    <3>11. Serves(x, x', "Modified", {r}, {}, {Mark(m)}, {Plain(g, r)}) =>
             LineInv(x') /\ Fits(x, {Plain(g, r)})
      <4>1. /\ LineInv(x) /\ In(x, m.type, p) /\ ~In(x, "Upgrade", p)
            /\ Sole(x.dir \ {p}, r) /\ x.l2 = "ShToMod" /\ Sole(x.held, <<t, r>>)
            /\ r \in L1s /\ p \in L1s /\ m.type \in {"Replace", "InvAck"}
        BY <1>1, <1>2, <1>7, <2>1, <3>1 DEF left, Sole
      <4>2. \A y : Serves(x, y, "Modified", {r}, {}, {Plain(m.type, p)},
          {Plain(g, r)}) =>
              LineInv(y) /\ Fits(x, {Plain(g, r)})
        BY <3>7, <4>1, GoneLast
      <4> QED
        BY <1>1, <4>2
    <3> HIDE DEF out
    <3> QED
      BY <1>1, <1>3, <1>7, <3>2, <3>8, <3>9, <3>10, <3>11, HeldByNone, DoneLine DEF x
  <2> QED
    BY <2>0, <2>2, <2>3
<1> QED
  BY <1>6, <1>7 DEF SharerGone

LEMMA ReplaceCoh ==
  ASSUME IInv, Coh, NEW b \in Banks, NEW m \in Ready(b), L2Replace(m)
  PROVE  Coh' /\ failed' = failed
<1> DEFINE a == m.addr
           x == View(a)
           p == m.src
           out == << Up("ReplaceAck", a, p) >>
<1>1. m.type = "Replace" /\ a \notin ThreadState
  <2>1. m.type = "Replace" /\ m \in InFlight
    BY TakeFlow, CohParts DEF L2Replace, IInv
  <2> QED
    BY <2>1, CohParts DEF ThreadStateInv
<1>2. /\ a \in Addrs \ ThreadState /\ LineInv(x) /\ x.l2 = l2[a] /\ x.dir = sharers[a]
      /\ p \in L1s /\ In(x, "Replace", p) /\ Mark(m) = Plain("Replace", p)
  BY <1>1, ProcessedView
<1>3. GoneInv(x, p)
  BY <1>2 DEF LineInv, CopyInv
<1>4. l2[a] \in {"Shared", "ShToMod", "ShToInv", "ModToSh"}
  BY <1>2, <1>3 DEF GoneInv
<1>5. CASE l2[a] \in {"Shared", "ModToSh"}
  <2> DEFINE state == l2[a]
             sh == sharers[a] \ {p}
  <2>1. Done(m, out, {L2SetOf[a]}) /\ Line(a, state, sh, dirty[a]) /\ NoMshr
    BY <1>5 DEF L2Replace, Reply, SharerGone
  <2>2. Up("ReplaceAck", a, p).addr = a
      /\ Mark(Up("ReplaceAck", a, p)) = Plain("ReplaceAck", p)
    BY MarkUp DEF ToL1
  <2>3. Outgoing(out) /\ Clear(out) /\ \A v \in Range(out) : v.addr = a
    BY <1>2, <2>2, UpProper, OutgoingOne, ClearOne, RangeOne DEF ToL1
  <2>4. Marks(Range(out), a) = {Plain("ReplaceAck", p)}
    BY <2>2, MarksOne
  <2> HIDE DEF out, x
  <2>5. Serves(x, x', state, sh, x.held, {Mark(m)}, {Plain("ReplaceAck", p)}) =>
          LineInv(x') /\ Fits(x, {Plain("ReplaceAck", p)})
    BY <1>2, <1>5, ReplaceShared DEF x
  <2> HIDE DEF sh
  <2> QED
    BY <1>2, <1>5, <2>1, <2>3, <2>4, <2>5, OwnSetWoken, ReplyLine DEF x
<1>6. CASE l2[a] \in {"ShToMod", "ShToInv"}
  BY <1>1, <1>2, <1>6, SharerGoneCoh DEF L2Replace
<1> QED
  BY <1>4, <1>5, <1>6

LEMMA InvAckCoh ==
  ASSUME IInv, Coh, NEW b \in Banks, NEW m \in Ready(b), L2InvAck(m)
  PROVE  Coh' /\ failed' = failed
<1>1. m.type = "InvAck" /\ m.addr \notin ThreadState
  <2>1. m.type = "InvAck" /\ m \in InFlight
    BY TakeFlow, CohParts DEF L2InvAck, IInv
  <2> QED
    BY <2>1, CohParts DEF ThreadStateInv
<1>2. /\ m.addr \in Addrs \ ThreadState /\ LineInv(View(m.addr)) /\ m.src \in L1s
      /\ View(m.addr).l2 = l2[m.addr] /\ In(View(m.addr), "InvAck", m.src)
  BY <1>1, ProcessedView
<1>3. l2[m.addr] \in {"ShToMod", "ShToInv"}
  BY <1>2 DEF LineInv, CopyInv, GoneInv
<1> QED
  BY <1>1, <1>2, <1>3, SharerGoneCoh DEF L2InvAck

(* The acknowledgement of a write-back.                                     *)
LEMMA AckSends ==
  ASSUME NEW a \in Addrs, NEW p \in L1s, NEW t \in {"WriteBackAck", "ReplaceAck"}
  PROVE  /\ Outgoing(<< Up(t, a, p) >>) /\ Clear(<< Up(t, a, p) >>)
         /\ \A v \in Range(<< Up(t, a, p) >>) : v.addr = a
         /\ Marks(Range(<< Up(t, a, p) >>), a) = {Plain(t, p)}
<1>1. Up(t, a, p).addr = a /\ Mark(Up(t, a, p)) = Plain(t, p)
  BY MarkUp DEF ToL1
<1> QED
  BY <1>1, UpProper, OutgoingOne, ClearOne, RangeOne, MarksOne DEF ToL1

LEMMA NothingSent ==
  ASSUME NEW a
  PROVE  /\ Outgoing(<<>>) /\ Clear(<<>>) /\ \A v \in Range(<<>>) : v.addr = a
         /\ Marks(Range(<<>>), a) = {}
<1>1. Range(<<>>) = {}
  BY DEF Range
<1> QED
  BY <1>1, OutgoingNone, ClearNone, MarksNone

(* The one message that aborts the program: a write-back of a line that is  *)
(* being taken back from its readers.                                       *)
Recoils(m) == WritesBack(m) /\ l2[m.addr] = "ShToInv"

LEMMA WriteBackCoh ==
  ASSUME IInv, Coh, NEW b \in Banks, NEW m \in Ready(b), L2WriteBack(m)
  PROVE  Coh' /\ (failed' = failed \/ (failed' = "L2 WriteBack" /\ Recoils(m)))
<1> DEFINE a == m.addr
           x == View(a)
           p == m.src
           st == l2[a]
           left == sharers[a] \ {p}
           d == dirty[a] \/ m.type = "WriteBack"
           ack == << Up("WriteBackAck", a, p) >>
           plus == {Plain("WriteBackAck", p)}
<1>1. m.type \in {"WriteBack", "WriteBackClean"} /\ a \notin ThreadState
  <2>1. m.type \in {"WriteBack", "WriteBackClean"} /\ m \in InFlight
    BY TakeFlow, CohParts DEF L2WriteBack, IInv
  <2> QED
    BY <2>1, CohParts DEF ThreadStateInv
<1>2. /\ a \in Addrs \ ThreadState /\ LineInv(x) /\ x.l2 = l2[a] /\ x.dir = sharers[a]
      /\ p \in L1s /\ In(x, "WriteBack", p) /\ Mark(m) = Plain("WriteBack", p)
      /\ l2[a] \in L2State
  BY <1>1, ProcessedView
<1>3. /\ Outgoing(ack) /\ Clear(ack) /\ \A v \in Range(ack) : v.addr = a
      /\ Marks(Range(ack), a) = plus
  BY <1>2, AckSends
<1>4. st \in {"Modified", "ModToInv"} => \E o \in L1s : sharers[a] = {o}
  BY <1>2, ModifiedHasOwner
<1>5. p \in sharers[a] => st \in {"Modified", "ModToSh", "ModToInv"}
  BY <1>2, WriteBackFinds
<1>6. CASE st = "ShToInv"
  BY <1>1, <1>6, FailStep DEF L2WriteBack, Fail, Recoils, WritesBack
<1>7. CASE p \notin sharers[a] /\ st # "ShToInv"
  <2>1. /\ Done(m, ack, {L2SetOf[a]}) /\ NoMshr
        /\ \E e : Line(a, st, sharers[a], e)
    <3>1. CASE st \in {"Modified", "ModToSh"}
      <4>1. left = sharers[a]
        BY <1>7
      <4>2. ~(st = "Modified" /\ left = {})
        BY <1>4, <4>1
      <4>3. /\ Line(a, IF st = "Modified" /\ left = {} THEN "Shared" ELSE st, left, d)
            /\ Done(m, ack, {L2SetOf[a]}) /\ NoMshr
        BY <3>1 DEF L2WriteBack
      <4> QED
        BY <4>1, <4>2, <4>3
    <3>2. CASE st \notin {"Modified", "ModToSh"}
      BY <1>7, <3>2 DEF L2WriteBack, Reply
    <3> QED
      BY <3>1, <3>2
  <2>2. PICK e : Line(a, st, sharers[a], e)
    BY <2>1
  <2> HIDE DEF ack, x
  <2>3. Serves(x, x', st, sharers[a], x.held, {Mark(m)}, plus) => LineInv(x')
      /\ Fits(x, plus)
    BY <1>2, <1>7, StaleWriteBack DEF x
  <2> HIDE DEF plus
  <2> QED
    BY <1>2, <1>3, <2>1, <2>2, <2>3, OwnSetWoken, ReplyLine DEF x
<1>8. CASE p \in sharers[a] /\ st = "Modified"
  <2>1. left = {}
    BY <1>4, <1>8
  <2>2. Line(a, "Shared", {}, d) /\ Done(m, ack, {L2SetOf[a]}) /\ NoMshr
    BY <1>8, <2>1 DEF L2WriteBack
  <2> HIDE DEF ack, x
  <2>3. Serves(x, x', "Shared", {}, x.held, {Mark(m)}, plus) => LineInv(x')
      /\ Fits(x, plus)
    BY <1>2, <1>8, WriteBackLast DEF x
  <2> HIDE DEF plus, d
  <2> QED
    BY <1>2, <1>3, <1>8, <2>2, <2>3, OwnSetWoken, ReplyLine DEF x
<1>9. CASE p \in sharers[a] /\ st = "ModToSh"
  <2>1. Line(a, "ModToSh", left, d) /\ Done(m, ack, {L2SetOf[a]}) /\ NoMshr
    BY <1>9 DEF L2WriteBack
  <2> HIDE DEF ack, x
  <2>3. Serves(x, x', "ModToSh", left, x.held, {Mark(m)}, plus) =>
          LineInv(x') /\ Fits(x, plus)
    BY <1>2, <1>9, WriteBackForwarded DEF x
  <2> HIDE DEF plus, d, left
  <2> QED
    BY <1>2, <1>3, <1>9, <2>1, <2>3, OwnSetWoken, ReplyLine DEF x
<1>10. CASE p \in sharers[a] /\ st = "ModToInv"
  <2>1. left = {} /\ x.dir = {p}
    BY <1>2, <1>4, <1>10
  <2>2. Line(a, "NotPresent", {}, FALSE) /\ Done(m, <<>>, L2FreedBuffer(a)) /\ NoMshr
    BY <1>10, <2>1 DEF L2WriteBack
  <2> HIDE DEF ack, x
  <2>3. Serves(x, x', "NotPresent", {}, x.held, {Mark(m)}, {}) => LineInv(x')
      /\ Fits(x, {})
    BY <1>2, <1>10, <2>1, WriteBackRecalled, FitsNone DEF x
  <2>4. /\ Outgoing(<<>>) /\ Clear(<<>>) /\ \A v \in Range(<<>>) : v.addr = a
        /\ Marks(Range(<<>>), a) = {}
    BY NothingSent
  <2> QED
    BY <1>2, <1>10, <2>2, <2>3, <2>4, OwnSetWoken, ReplyLine DEF x
<1> QED
  BY <1>5, <1>6, <1>7, <1>8, <1>9, <1>10

LEMMA FwdAckDataCoh ==
  ASSUME IInv, Coh, NEW b \in Banks, NEW m \in Ready(b), L2FwdAckData(m)
  PROVE  Coh' /\ failed' = failed
<1> DEFINE a == m.addr
           x == View(a)
           p == m.src
           out == Responses(a)
           plus == {Plain("DataShared",
               h) : h \in {i \in L1s : <<"Read", i>> \in x.held}}
<1>1. m.type = "FwdAckData" /\ a \notin ThreadState
  <2>1. m.type = "FwdAckData" /\ m \in InFlight
    BY TakeFlow, CohParts DEF L2FwdAckData, IInv
  <2> QED
    BY <2>1, CohParts DEF ThreadStateInv
<1>2. /\ a \in Addrs \ ThreadState /\ LineInv(x) /\ x.l2 = l2[a] /\ x.dir = sharers[a]
      /\ p \in L1s /\ In(x, "FwdAckData", p) /\ Mark(m) = Plain("FwdAckData", p)
      /\ x.held = HeldBy(l2queue[a]) /\ IsInjective(l2queue[a]) /\ L2Types
      /\ NetInv /\ Orderly /\ KeptInv
  BY <1>1, ProcessedView
<1>3. l2[a] = "ModToSh" /\ x.held \subseteq {"Read"} \X L1s
  BY <1>2 DEF LineInv, HomeInv
<1>4. ~In(x, "WriteBack", p)
  <2>1. <<m.type, "WriteBack">> \in Behind
    BY <1>1 DEF Behind
  <2> QED
    BY <1>1, <1>2, <2>1, AnswerAlone
<1>5. /\ Line(a, "Shared", sharers[a], TRUE) /\ FreeMshr(a)
      /\ Done(m, out, L2FreedMshr(a)) /\ memory' = memory
  BY <1>3 DEF L2FwdAckData
<1>6. \A q \in Range(l2queue[a]) : q.type = "Read" /\ q.req \in L1s
  <2>1. \A q \in Range(l2queue[a]) : <<q.type, q.req>> \in x.held
    BY <1>2 DEF HeldBy
  <2> QED
    BY <1>3, <2>1
<1>7. \A q \in Range(l2queue[a]) : Response(a, q) = Up("DataShared", a, q.req)
  BY <1>3, <1>6 DEF Response
<1>8. /\ Outgoing(out) /\ Clear(out) /\ \A v \in Range(out) : v.addr = a
      /\ Marks(Range(out), a) = {Plain("DataShared", q.req) : q \in Range(l2queue[a])}
  BY <1>2, <1>6, <1>7, ResponsesOf
<1>9. {Plain("DataShared", q.req) : q \in Range(l2queue[a])} = plus
  <2>1. \A i \in L1s : <<"Read",
      i>> \in x.held <=> \E q \in Range(l2queue[a]) : q.req = i
    <3> TAKE i \in L1s
    <3>1. <<"Read", i>> \in x.held <=>
            \E q \in Range(l2queue[a]) : <<"Read", i>> = <<q.type, q.req>>
      BY <1>2 DEF HeldBy
    <3> QED
      BY <1>6, <3>1
  <2> HIDE DEF x, a
  <2> QED
    BY <1>6, <2>1
<1>10. l2queue' = [l2queue EXCEPT ![a] = <<>>]
  BY <1>5 DEF FreeMshr
<1> HIDE DEF x
<1>11. Serves(x, x', "Shared", sharers[a], {}, {Mark(m)}, plus) => LineInv(x')
    /\ Fits(x, plus)
  BY <1>2, <1>3, <1>4, ForwardDone DEF x
<1>12. Marks(Range(out), a) = plus
  BY <1>8, <1>9
<1> HIDE DEF out, plus
<1> QED
  BY <1>2, <1>3, <1>5, <1>8, <1>10, <1>11, <1>12, OwnSetWoken, HeldByNone, DoneLine
      DEF x

LEMMA UpSends ==
  ASSUME NEW a \in Addrs, NEW p \in L1s, NEW t \in ToL1 \ {"ReadFwd", "ReadExFwd"}
  PROVE  /\ Outgoing(<< Up(t, a, p) >>) /\ Clear(<< Up(t, a, p) >>)
         /\ \A v \in Range(<< Up(t, a, p) >>) : v.addr = a
         /\ Marks(Range(<< Up(t, a, p) >>), a) = {Plain(t, p)}
<1>1. Up(t, a, p).addr = a /\ Mark(Up(t, a, p)) = Plain(t, p)
  BY MarkUp
<1> QED
  BY <1>1, UpProper, OutgoingOne, ClearOne, RangeOne, MarksOne

LEMMA FwdSends ==
  ASSUME NEW a \in Addrs, NEW h \in L1s, NEW p \in L1s, NEW t \in Forwards
  PROVE  /\ Outgoing(<< Fwd(t, a, h, p) >>) /\ Clear(<< Fwd(t, a, h, p) >>)
         /\ \A v \in Range(<< Fwd(t, a, h, p) >>) : v.addr = a
         /\ Marks(Range(<< Fwd(t, a, h, p) >>), a) = {<<t, h, p>>}
<1>1. Fwd(t, a, h, p).addr = a /\ Mark(Fwd(t, a, h, p)) = <<t, h, p>>
  BY MarkFwd DEF Forwards
<1>2. Proper(Fwd(t, a, h, p))
  BY FwdProper DEF Forwards
<1> QED
  BY <1>1, <1>2, OutgoingOne, ClearOne, RangeOne, MarksOne

LEMMA HeldByOne ==
  ASSUME NEW m, m.type \in {"Read", "ReadEx", "Upgrade"}, m.src \in L1s
  PROVE  /\ << Request(m) >> \in Seq(Queued) /\ IsInjective(<< Request(m) >>)
         /\ HeldBy(<< Request(m) >>) = {<<m.type, m.src>>}
<1>1. Range(<< Request(m) >>) = {Request(m)}
  BY RangeOne
<1>2. Request(m).type = m.type /\ Request(m).req = m.src
  BY DEF Request
<1>3. IsInjective(<< Request(m) >>)
  BY DEF IsInjective
<1> QED
  BY <1>1, <1>2, <1>3, RequestQueued DEF HeldBy

LEMMA HeldByAppend ==
  ASSUME NEW m, m.type \in {"Read", "ReadEx", "Upgrade"}, m.src \in L1s,
         NEW queue \in Seq(Queued), IsInjective(queue),
             <<m.type, m.src>> \notin HeldBy(queue)
  PROVE  /\ Append(queue, Request(m)) \in Seq(Queued)
         /\ IsInjective(Append(queue, Request(m)))
         /\ HeldBy(Append(queue, Request(m))) = HeldBy(queue) \union {<<m.type,
             m.src>>}
<1> DEFINE e == Request(m)
           q2 == Append(queue, e)
<1>1. e.type = m.type /\ e.req = m.src /\ e \in Queued
  BY RequestQueued DEF Request
<1>2. q2 \in Seq(Queued) /\ Len(q2) = Len(queue) + 1 /\ q2[Len(queue) + 1] = e
      /\ \A i \in 1 .. Len(queue) : q2[i] = queue[i]
  BY <1>1
<1>3. DOMAIN queue = 1 .. Len(queue) /\ DOMAIN q2 = 1 .. Len(q2) /\ Len(queue) \in Nat
  BY <1>2
<1> HIDE DEF q2, e
<1>4. Range(q2) = Range(queue) \union {e}
  BY <1>2, <1>3 DEF Range
<1>5. e \notin Range(queue)
  BY <1>1 DEF HeldBy
<1>6. \A i \in 1 .. Len(queue) : queue[i] # e
  BY <1>3, <1>5 DEF Range
<1>7. IsInjective(q2)
  BY <1>2, <1>3, <1>6 DEF IsInjective
<1>8. HeldBy(q2) = HeldBy(queue) \union {<<m.type, m.src>>}
  BY <1>1, <1>4 DEF HeldBy
<1> QED
  BY <1>2, <1>7, <1>8 DEF q2, e

LEMMA PutBackCoh ==
  ASSUME IInv, Coh, NEW b \in Banks, NEW m \in Ready(b),
         m.type \in {"Read", "ReadEx", "Upgrade"},
         Poll(m) \/ (Block(m) /\ (m.type = "Upgrade" => l2[m.addr] = "ModToSh"))
  PROVE  Coh' /\ failed' = failed
BY PutBackStep DEF Poll, Block

LEMMA CollectCoh ==
  ASSUME IInv, Coh, NEW b \in Banks, NEW m \in Ready(b), m.addr \notin ThreadState,
         l2[m.addr] = "Shared", NEW sh, Collect(m, sh),
         \/ m.type = "ReadEx" /\ sharers[m.addr] # {}
            /\ sh = sharers[m.addr] \union {m.src}
         \/ m.type = "Upgrade" /\ m.src \in sharers[m.addr]
             /\ sharers[m.addr] # {m.src}
            /\ sh = sharers[m.addr]
  PROVE  Coh' /\ failed' = failed
<1> DEFINE a == m.addr
           x == View(a)
           p == m.src
           t == m.type
           S == sharers[a] \ {p}
           out == Multicast("Invalidate", a, S)
           plus == {Plain("Invalidate", q) : q \in S}
           queue == << Request(m) >>
<1>1. t \in {"Read", "ReadEx", "Upgrade"} /\ t # "WriteBackClean"
  OBVIOUS
<1>2. /\ a \in Addrs \ ThreadState /\ LineInv(x) /\ x.l2 = l2[a] /\ x.dir = sharers[a]
      /\ p \in L1s /\ In(x, t, p) /\ Mark(m) = Plain(t, p)
          /\ sharers[a] \in SUBSET L1s
  BY <1>1, ProcessedView
<1>3. CASE L2MshrsFull
  <2>1. Poll(m)
    BY <1>3 DEF Collect
  <2> QED
    BY <1>1, <2>1, PutBackCoh
<1>4. CASE ~L2MshrsFull
  <2>1. /\ Line(a, "ShToMod", sh, dirty[a]) /\ AllocateMshr(a, queue)
        /\ Done(m, out, {L2SetOf[a]}) /\ memory' = memory
    BY <1>4 DEF Collect
  <2>2. S \in SUBSET L1s
    BY <1>2
  <2>3. /\ Outgoing(out) /\ Clear(out) /\ \A v \in Range(out) : v.addr = a
        /\ Marks(Range(out), a) = plus
    <3> HIDE DEF S
    <3> QED
      BY <1>2, <2>2, MulticastSends DEF ToL1
  <2>4. l2queue' = [l2queue EXCEPT ![a] = queue]
    BY <2>1 DEF AllocateMshr
  <2>5. queue \in Seq(Queued) /\ IsInjective(queue) /\ HeldBy(queue) = {<<t, p>>}
    BY <1>1, <1>2, HeldByOne
  <2> HIDE DEF x
  <2>6. Serves(x, x', "ShToMod", sh, {<<t, p>>}, {Mark(m)}, plus) =>
          LineInv(x') /\ Fits(x, plus)
    BY <1>2, CollectLine DEF x
  <2> HIDE DEF out, plus, queue
  <2> QED
    BY <1>2, <2>1, <2>3, <2>4, <2>5, <2>6, OwnSetWoken, DoneLine DEF x
<1> QED
  BY <1>3, <1>4

LEMMA HandOverCoh ==
  ASSUME IInv, Coh, NEW b \in Banks, NEW m \in Ready(b), m.addr \notin ThreadState,
         m.type = "ReadEx", l2[m.addr] = "Modified", HandOver(m)
  PROVE  Coh' /\ failed' = failed
<1> DEFINE a == m.addr
           x == View(a)
           p == m.src
           h == FirstSharer(a)
           out == << Fwd("ReadExFwd", a, h, p) >>
           plus == {<<"ReadExFwd", h, p>>}
<1>1. /\ a \in Addrs \ ThreadState /\ LineInv(x) /\ x.l2 = l2[a] /\ x.dir = sharers[a]
      /\ p \in L1s /\ In(x, "ReadEx", p) /\ Mark(m) = Plain("ReadEx", p)
      /\ sharers[a] \in SUBSET L1s
  BY ProcessedView
<1>2. PICK o \in L1s : sharers[a] = {o}
  BY <1>1, ModifiedHasOwner
<1>3. h = o /\ h \in sharers[a] /\ h \in L1s /\ sharers[a] # {}
  BY <1>1, <1>2, FirstSharerShares
<1>4. Reply(m, out, "Modified", (sharers[a] \ {h}) \union {p})
  BY <1>3 DEF HandOver
<1>5. (sharers[a] \ {h}) \union {p} = {p}
  BY <1>2, <1>3
<1>6. Line(a, "Modified", {p}, dirty[a]) /\ Done(m, out, {L2SetOf[a]}) /\ NoMshr
  BY <1>4, <1>5 DEF Reply
<1> HIDE DEF h, x
<1>7. /\ Outgoing(out) /\ Clear(out) /\ \A v \in Range(out) : v.addr = a
      /\ Marks(Range(out), a) = plus
  <2>1. "ReadExFwd" \in Forwards
    BY DEF Forwards
  <2> QED
    BY <1>1, <1>3, <2>1, FwdSends
<1>8. Serves(x, x', "Modified", {p}, x.held, {Mark(m)}, plus) => LineInv(x')
    /\ Fits(x, plus)
  BY <1>1, <1>3, HandLineOver DEF x
<1> HIDE DEF out, plus
<1> QED
  BY <1>1, <1>6, <1>7, <1>8, OwnSetWoken, ReplyLine DEF x

LEMMA GrantCoh ==
  ASSUME IInv, Coh, NEW b \in Banks, NEW m \in Ready(b), m.addr \notin ThreadState,
         l2[m.addr] = "Shared", NEW g,
         \/ m.type = "ReadEx" /\ g = "DataExclusive" /\ sharers[m.addr] = {}
         \/ m.type = "Upgrade" /\ g = "UpgradeAck" /\ sharers[m.addr] = {m.src},
         Reply(m, << Up(g, m.addr, m.src) >>, "Modified", {m.src})
  PROVE  Coh' /\ failed' = failed
<1> DEFINE a == m.addr
           x == View(a)
           p == m.src
           t == m.type
           out == << Up(g, a, p) >>
           plus == {Plain(g, p)}
<1>1. t # "WriteBackClean" /\ g \in ToL1 \ {"ReadFwd", "ReadExFwd"}
  BY DEF ToL1
<1>2. /\ a \in Addrs \ ThreadState /\ LineInv(x) /\ x.l2 = l2[a] /\ x.dir = sharers[a]
      /\ p \in L1s /\ In(x, t, p) /\ Mark(m) = Plain(t, p)
  BY <1>1, ProcessedView
<1>3. Line(a, "Modified", {p}, dirty[a]) /\ Done(m, out, {L2SetOf[a]}) /\ NoMshr
  BY DEF Reply
<1> HIDE DEF x
<1>4. /\ Outgoing(out) /\ Clear(out) /\ \A v \in Range(out) : v.addr = a
      /\ Marks(Range(out), a) = plus
  BY <1>1, <1>2, UpSends
<1>5. Serves(x, x', "Modified", {p}, x.held, {Mark(m)}, plus) => LineInv(x')
    /\ Fits(x, plus)
  BY <1>2, GrantAlone DEF x
<1> HIDE DEF out, plus
<1> QED
  BY <1>2, <1>3, <1>4, <1>5, OwnSetWoken, ReplyLine DEF x

LEMMA ReadExCoh ==
  ASSUME IInv, Coh, NEW b \in Banks, NEW m \in Ready(b), L2ReadEx(m),
         l2[m.addr] # "NotPresent"
  PROVE  Coh' /\ failed' = failed
<1> DEFINE a == m.addr
           p == m.src
           st == l2[a]
<1>1. m.type = "ReadEx" /\ a \notin ThreadState
  BY DEF L2ReadEx
<1>2. st \in L2State
  BY <1>1, ProcessedView
<1>3. CASE st = "Shared" /\ sharers[a] = {}
  BY <1>1, <1>3, GrantCoh DEF L2ReadEx, L2Transient, L2Buffered
<1>4. CASE st = "Shared" /\ sharers[a] # {}
  <2>1. Collect(m, sharers[a] \union {p})
    BY <1>4 DEF L2ReadEx, L2Transient, L2Buffered
  <2> QED
    BY <1>1, <1>4, <2>1, CollectCoh
<1>5. CASE st = "Modified"
  <2>1. HandOver(m)
    BY <1>5 DEF L2ReadEx, L2Transient, L2Buffered
  <2> QED
    BY <1>1, <1>5, <2>1, HandOverCoh
<1>6. CASE st \in L2Transient \union L2Buffered
  <2>1. Block(m)
    BY <1>6 DEF L2ReadEx, L2Transient, L2Buffered
  <2> QED
    BY <1>1, <2>1, PutBackCoh
<1> QED
  BY <1>2, <1>3, <1>4, <1>5, <1>6 DEF L2State, L2Replaceable

LEMMA UpgradeCoh ==
  ASSUME IInv, Coh, NEW b \in Banks, NEW m \in Ready(b), L2Upgrade(m)
  PROVE  Coh' /\ failed' = failed
<1> DEFINE a == m.addr
           x == View(a)
           p == m.src
           st == l2[a]
<1>1. m.type = "Upgrade" /\ a \notin ThreadState
  <2>1. m.type = "Upgrade" /\ m \in InFlight
    BY TakeFlow, CohParts DEF L2Upgrade, IInv
  <2> QED
    BY <2>1, CohParts DEF ThreadStateInv
<1>2. /\ a \in Addrs \ ThreadState /\ LineInv(x) /\ x.l2 = l2[a] /\ x.dir = sharers[a]
      /\ p \in L1s /\ In(x, "Upgrade", p) /\ Mark(m) = Plain("Upgrade", p)
  BY <1>1, ProcessedView
<1>3. /\ st \in {"Shared", "ShToMod", "ShToInv", "ModToSh"}
      /\ st = "Shared" => p \in sharers[a]
  BY <1>2, UpgradeFinds
<1>4. CASE st = "Shared" /\ sharers[a] = {p}
  BY <1>1, <1>4, GrantCoh DEF L2Upgrade
<1>5. CASE st = "Shared" /\ sharers[a] # {p}
  <2>1. Collect(m, sharers[a]) /\ p \in sharers[a]
    BY <1>3, <1>5 DEF L2Upgrade
  <2> QED
    BY <1>1, <1>5, <2>1, CollectCoh
<1>6. CASE st \in {"ShToInv", "ShToMod"}
  <2>1. Line(a, st, sharers[a], dirty[a]) /\ Done(m, <<>>, {L2SetOf[a]}) /\ NoMshr
    BY <1>6 DEF L2Upgrade, Reply
  <2> HIDE DEF x
  <2>2. Serves(x, x', st, sharers[a], x.held, {Mark(m)}, {}) => LineInv(x')
      /\ Fits(x, {})
    BY <1>2, <1>6, DropUpgrade, FitsNone DEF x
  <2> QED
    BY <1>2, <2>1, <2>2, NothingSent, OwnSetWoken, ReplyLine DEF x
<1>7. CASE st = "ModToSh"
  <2>1. Block(m)
    BY <1>7 DEF L2Upgrade
  <2> QED
    BY <1>1, <1>7, <2>1, PutBackCoh
<1> QED
  BY <1>3, <1>4, <1>5, <1>6, <1>7

LEMMA ReadNotQueued ==
  ASSUME NEW x, LineInv(x), NEW p \in L1s, In(x, "Read", p)
  PROVE  <<"Read", p>> \notin x.held
<1>1. OneTokenInv(x, p)
  BY DEF LineInv, CopyInv
<1> QED
  BY <1>1 DEF OneTokenInv, Asking, Serving, Queuing, Waits

LEMMA ReadSharedCoh ==
  ASSUME IInv, Coh, NEW b \in Banks, NEW m \in Ready(b), L2Read(m),
           l2[m.addr] = "Shared"
  PROVE  Coh' /\ failed' = failed
<1> DEFINE a == m.addr
           x == View(a)
           p == m.src
           h == FirstSharer(a)
           sh == sharers[a] \union {p}
<1>1. m.type = "Read" /\ a \notin ThreadState
  BY DEF L2Read
<1>2. /\ a \in Addrs \ ThreadState /\ LineInv(x) /\ x.l2 = l2[a] /\ x.dir = sharers[a]
      /\ p \in L1s /\ In(x, "Read", p) /\ Mark(m) = Plain("Read", p)
      /\ sharers[a] \in SUBSET L1s
  BY <1>1, ProcessedView
<1>3. CASE L2ReadFwd /\ sharers[a] # {}
  <2> DEFINE out == << Fwd("ReadFwd", a, h, p) >>
             plus == {<<"ReadFwd", h, p>>}
  <2>1. h \in sharers[a] /\ h \in L1s
    BY <1>2, <1>3, FirstSharerShares
  <2>2. Line(a, "Shared", sh, dirty[a]) /\ Done(m, out, {L2SetOf[a]}) /\ NoMshr
    BY <1>3 DEF L2Read, Reply, L2Buffered
  <2> HIDE DEF h, x
  <2>3. "ReadFwd" \in Forwards
    BY DEF Forwards
  <2>4. /\ Outgoing(out) /\ Clear(out) /\ \A v \in Range(out) : v.addr = a
        /\ Marks(Range(out), a) = plus
    BY <1>2, <2>1, <2>3, FwdSends
  <2>5. Serves(x, x', "Shared", sh, x.held, {Mark(m)}, plus) => LineInv(x')
      /\ Fits(x, plus)
    BY <1>2, <2>1, ReadForwarded DEF x
  <2> HIDE DEF out, plus, sh
  <2> QED
    BY <1>2, <2>2, <2>4, <2>5, OwnSetWoken, ReplyLine DEF x
<1>4. CASE ~(L2ReadFwd /\ sharers[a] # {})
  <2> DEFINE out == << Up("DataShared", a, p) >>
             plus == {Plain("DataShared", p)}
  <2>1. Line(a, "Shared", sh, dirty[a]) /\ Done(m, out, {L2SetOf[a]}) /\ NoMshr
    BY <1>4 DEF L2Read, Reply, L2Buffered
  <2> HIDE DEF x
  <2>2. "DataShared" \in ToL1 \ {"ReadFwd", "ReadExFwd"}
    BY DEF ToL1
  <2>3. /\ Outgoing(out) /\ Clear(out) /\ \A v \in Range(out) : v.addr = a
        /\ Marks(Range(out), a) = plus
    BY <1>2, <2>2, UpSends
  <2>4. Serves(x, x', "Shared", sh, x.held, {Mark(m)}, plus) => LineInv(x')
      /\ Fits(x, plus)
    BY <1>2, ReadShared DEF x
  <2> HIDE DEF out, plus, sh
  <2> QED
    BY <1>2, <2>1, <2>3, <2>4, OwnSetWoken, ReplyLine DEF x
<1> QED
  BY <1>3, <1>4

LEMMA ReadModifiedCoh ==
  ASSUME IInv, Coh, NEW b \in Banks, NEW m \in Ready(b), L2Read(m),
         l2[m.addr] = "Modified"
  PROVE  Coh' /\ failed' = failed
<1> DEFINE a == m.addr
           x == View(a)
           p == m.src
           h == FirstSharer(a)
           sh == sharers[a] \union {p}
           out == << Fwd("ReadFwd", a, h, p) >>
           plus == {<<"ReadFwd", h, p>>}
<1>1. m.type = "Read" /\ a \notin ThreadState
  BY DEF L2Read
<1>2. /\ a \in Addrs \ ThreadState /\ LineInv(x) /\ x.l2 = l2[a] /\ x.dir = sharers[a]
      /\ p \in L1s /\ In(x, "Read", p) /\ Mark(m) = Plain("Read", p)
      /\ sharers[a] \in SUBSET L1s
  BY <1>1, ProcessedView
<1>3. CASE L2MshrsFull
  <2>1. Poll(m)
    BY <1>3 DEF L2Read, L2Buffered
  <2> QED
    BY <1>1, <2>1, PutBackCoh
<1>4. CASE ~L2MshrsFull
  <2>1. sharers[a] # {}
    BY <1>2, ModifiedHasOwner
  <2>2. h \in sharers[a] /\ h \in L1s
    BY <1>2, <2>1, FirstSharerShares
  <2>3. /\ Line(a, "ModToSh", sh, dirty[a]) /\ AllocateMshr(a, <<>>)
        /\ Done(m, out, {L2SetOf[a]}) /\ memory' = memory
    BY <1>4, <2>1 DEF L2Read, L2Buffered
  <2>4. l2queue' = [l2queue EXCEPT ![a] = <<>>]
    BY <2>3 DEF AllocateMshr
  <2> HIDE DEF h, x
  <2>5. "ReadFwd" \in Forwards
    BY DEF Forwards
  <2>6. /\ Outgoing(out) /\ Clear(out) /\ \A v \in Range(out) : v.addr = a
        /\ Marks(Range(out), a) = plus
    BY <1>2, <2>2, <2>5, FwdSends
  <2>7. Serves(x, x', "ModToSh", sh, {}, {Mark(m)}, plus) => LineInv(x')
      /\ Fits(x, plus)
    BY <1>2, <2>2, ReadModified DEF x
  <2> HIDE DEF out, plus, sh
  <2> QED
    BY <1>2, <2>3, <2>4, <2>6, <2>7, HeldByNone, OwnSetWoken, DoneLine DEF x
<1> QED
  BY <1>3, <1>4

LEMMA ReadModToShCoh ==
  ASSUME IInv, Coh, NEW b \in Banks, NEW m \in Ready(b), L2Read(m),
         l2[m.addr] = "ModToSh"
  PROVE  Coh' /\ failed' = failed
<1> DEFINE a == m.addr
           x == View(a)
           p == m.src
           sh == sharers[a] \union {p}
           queue == Append(l2queue[a], Request(m))
           held == x.held \union {<<"Read", p>>}
<1>1. m.type = "Read" /\ a \notin ThreadState
  BY DEF L2Read
<1>2. /\ a \in Addrs \ ThreadState /\ LineInv(x) /\ x.l2 = l2[a] /\ x.dir = sharers[a]
      /\ p \in L1s /\ In(x, "Read", p) /\ Mark(m) = Plain("Read", p)
      /\ x.held = HeldBy(l2queue[a])
      /\ l2queue[a] \in Seq(Queued) /\ IsInjective(l2queue[a])
  BY <1>1, ProcessedView
<1>3. CASE Len(l2queue[a]) >= L2Requests
  <2>1. Poll(m)
    BY <1>3 DEF L2Read, L2Buffered
  <2> QED
    BY <1>1, <2>1, PutBackCoh
<1>4. CASE ~(Len(l2queue[a]) >= L2Requests)
  <2>1. /\ Line(a, "ModToSh", sh, dirty[a]) /\ AllocateMshr(a, queue)
        /\ Done(m, <<>>, {L2SetOf[a]}) /\ memory' = memory
    BY <1>4 DEF L2Read, L2Buffered
  <2>2. l2queue' = [l2queue EXCEPT ![a] = queue]
    BY <2>1 DEF AllocateMshr
  <2>3. <<"Read", p>> \notin HeldBy(l2queue[a])
    BY <1>2, ReadNotQueued
  <2>4. queue \in Seq(Queued) /\ IsInjective(queue) /\ HeldBy(queue) = held
    BY <1>1, <1>2, <2>3, HeldByAppend
  <2> HIDE DEF x
  <2>5. Serves(x, x', "ModToSh", sh, held, {Mark(m)}, {}) => LineInv(x')
      /\ Fits(x, {})
    BY <1>2, ReadQueued, FitsNone DEF x
  <2> HIDE DEF queue, sh, held
  <2> QED
    BY <1>2, <2>1, <2>2, <2>4, <2>5, NothingSent, OwnSetWoken, DoneLine DEF x
<1> QED
  BY <1>3, <1>4

LEMMA ReadCoh ==
  ASSUME IInv, Coh, NEW b \in Banks, NEW m \in Ready(b), L2Read(m),
         l2[m.addr] # "NotPresent"
  PROVE  Coh' /\ failed' = failed
<1>1. m.type = "Read" /\ m.addr \notin ThreadState
  BY DEF L2Read
<1>2. l2[m.addr] \in L2State
  BY <1>1, ProcessedView
<1>3. CASE l2[m.addr] \in {"InvToMod", "ShToMod"} \union L2Buffered
  <2>1. Block(m)
    BY <1>3 DEF L2Read, L2Buffered
  <2> QED
    BY <1>1, <2>1, PutBackCoh
<1> QED
  BY <1>2, <1>3, ReadSharedCoh, ReadModifiedCoh, ReadModToShCoh
     DEF L2State, L2Replaceable, L2Transient, L2Buffered

(* A miss in the L2: the line of m.addr is on its way from memory, the line *)
(* of v goes to a write-back buffer and is taken back from the L1s.         *)
LEMMA InsertCoh ==
  ASSUME IInv, Coh, NEW b \in Banks, NEW m \in Ready(b),
           m.type \in {"Read", "ReadEx"},
         l2[m.addr] = "NotPresent", NEW v \in L2Victims(L2SetOf[m.addr]), NEW sh,
         \/ m.addr \in ThreadState /\ sh = {}
         \/ m.addr \notin ThreadState /\ sh = {m.src},
         Insert(m, v, sh)
  PROVE  Coh' /\ failed' = failed
<1> DEFINE a == m.addr
           out == IF v = Unused THEN <<>> ELSE Multicast("Invalidate", v, sharers[v])
           queue == << Request(m) >>
<1>1. NetInv /\ L2Types
  BY DEF IInv, L2Inv
<1>2. /\ Orderly /\ KeptInv /\ QueueInv /\ MemoryInv /\ ThreadStateInv
      /\ Lone(InFlight) /\ \A c \in Addrs \ ThreadState : LineInv(View(c))
  BY CohParts
<1>3. a \in Addrs /\ m.src \in L1s
  BY ProcessFacts
<1>4. \/ v = Unused
      \/ v \in Addrs \ ThreadState /\ v # a /\ l2[v] \in {"Shared", "Modified"}
  <2>1. \/ v = Unused
        \/ v \in L2Ways(L2SetOf[m.addr]) \ ThreadState /\ l2[v] \in L2Replaceable
    BY DEF L2Victims
  <2> QED
    BY <2>1 DEF L2Ways, L2Replaceable
<1>5. v = Unused => v \notin Addrs
  BY CmpInclAssumption
<1>6. v # Unused =>
        /\ Outgoing(out) /\ Clear(out) /\ \A w \in Range(out) : w.addr = v
        /\ Marks(Range(out), v) = {Plain("Invalidate", q) : q \in sharers[v]}
  <2>1. v # Unused => out = Multicast("Invalidate", v, sharers[v])
                      /\ sharers[v] \in SUBSET L1s
    BY <1>1, <1>4 DEF L2Types
  <2>2. "Invalidate" \in ToL1 \ {"ReadFwd", "ReadExFwd"}
    BY DEF ToL1
  <2> HIDE DEF out
  <2> QED
    BY <1>4, <2>1, <2>2, MulticastSends
<1>7. v = Unused => out = <<>>
  OBVIOUS
<1>8. Outgoing(out) /\ Clear(out) /\ \A w \in Range(out) : w.addr = v
  <2>1. CASE v = Unused
    <3>1. /\ Outgoing(<<>>) /\ Clear(<<>>) /\ \A w \in Range(<<>>) : w.addr = v
      BY NothingSent
    <3> HIDE DEF out
    <3> QED
      BY <1>7, <2>1, <3>1
  <2> QED
    BY <1>6, <2>1
<1>9. /\ l2' = [x \in Addrs |-> CASE x = a -> "InvToMod"
                                  [] x = v -> L2Evicted(v)
                                  [] OTHER -> l2[x]]
      /\ sharers' = [sharers EXCEPT ![a] = sh]
      /\ l2queue' = [l2queue EXCEPT ![a] = queue]
      /\ memory' = memory \union {a}
      /\ Done(m, out, {L2SetOf[a]})
  BY DEF Insert, AllocateMshr
<1>10. queue \in Seq(Queued) /\ IsInjective(queue)
    /\ HeldBy(queue) = {<<m.type, m.src>>}
  BY <1>3, HeldByOne
<1>11. \A q \in Range(queue) : q.type = m.type
  BY RangeOne DEF Request
<1> HIDE DEF out, queue
<1>12. /\ m \in InFlight /\ Flows({m}, out) /\ (Sendable(out) => Orderly')
       /\ \A u \in InLists(replay', Banks) \union InLists(waiting', Banks) :
            u.type \in {"Read", "ReadEx", "Upgrade"}
       /\ \A u \in InLists(waiting', Banks) :
            u \in InLists(waiting, Banks) /\ L2SetOf[u.addr] \notin {L2SetOf[a]}
  BY <1>1, <1>2, <1>8, <1>9, DoneFlow
<1>13. /\ l2'[a] = "InvToMod" /\ sharers'[a] = sh /\ l2queue'[a] = queue
       /\ v # Unused => l2'[v] = L2Evicted(v)
       /\ \A c \in Addrs \ {a} : sharers'[c] = sharers[c] /\ l2queue'[c] = l2queue[c]
       /\ \A c \in Addrs \ {a, v} : l2'[c] = l2[c]
       /\ UNCHANGED l1 /\ failed' = failed
  BY <1>1, <1>3, <1>4, <1>5, <1>9 DEF Done, l1vars, L2Types
<1>14. ASSUME NEW c \in Addrs \ ThreadState
       PROVE  View(c)'.msgs = (View(c).msgs \ Marks({m}, c)) \union Marks(Range(out),
                c)
  <2>1. {m} \subseteq InFlight
    BY <1>12
  <2> QED
    BY <1>2, <1>12, <2>1, FlowMarks
<1>15. ASSUME NEW c \in Addrs \ ThreadState
       PROVE  LineInv(View(c)') /\ Fits(View(c), Marks(Range(out), c))
  <2>1. CASE c = a
    <3> DEFINE p == m.src
               x == View(a)
    <3>1. v # a
      BY <1>3, <1>4, <1>5
    <3>2. Marks(Range(out), a) = {} /\ Marks({m}, a) = {Mark(m)}
      BY <1>8, <3>1, MarksOne, MarksOther
    <3>3. View(a)'.msgs = (View(a).msgs \ {Mark(m)}) \union {}
      BY <1>14, <2>1, <3>2
    <3>4. Serves(x, x', "InvToMod", sh, HeldBy(queue), {Mark(m)}, {})
      BY <1>1, <1>3, <1>13, <3>3, ServesOf
    <3>5. /\ LineInv(x) /\ x.l2 = "NotPresent" /\ p \in L1s /\ In(x, m.type, p)
          /\ Mark(m) = Plain(m.type, p)
      <4>1. a \notin ThreadState
        BY <2>1
      <4> QED
        BY <4>1, ProcessedView
    <3>6. sh = {p}
      BY <2>1
    <3> HIDE DEF x
    <3>7. Serves(x, x', "InvToMod", {p}, {<<m.type, p>>}, {Plain(m.type, p)}, {})
      BY <1>10, <3>4, <3>5, <3>6
    <3>8. LineInv(x')
      BY <3>5, <3>7, MissLine
    <3> QED
      BY <2>1, <3>2, <3>8, FitsNone DEF x
  <2>2. CASE c = v
    <3> DEFINE x == View(v)
               plus == {Plain("Invalidate", q) : q \in sharers[v]}
    <3>1. v # Unused /\ v # a /\ l2[v] \in {"Shared", "Modified"}
      BY <1>4, <1>5, <2>2
    <3>2. Marks({m}, v) = {} /\ Marks(Range(out), v) = plus
      BY <1>6, <3>1, MarksOther
    <3> HIDE DEF plus
    <3>3. View(v)'.msgs = (View(v).msgs \ {}) \union plus
      BY <1>14, <2>2, <3>2
    <3>4. l2'[v] = L2Evicted(v) /\ sharers'[v] = sharers[v]
        /\ l2queue'[v] = l2queue[v]
      BY <1>13, <2>2, <3>1
    <3>5. Serves(x, x', L2Evicted(v), sharers[v], HeldBy(l2queue[v]), {}, plus)
      BY <1>1, <1>13, <2>2, <3>3, <3>4, ServesOf
    <3>6. /\ LineInv(x) /\ x.l2 = l2[v] /\ x.dir = sharers[v]
          /\ x.held = HeldBy(l2queue[v])
      BY <1>2, <2>2 DEF View, HeldBy
    <3>7. l2[v] = "Modified" => sharers[v] # {}
      BY <3>6, ModifiedHasOwner
    <3> HIDE DEF x
    <3>8. CASE sharers[v] = {}
      <4>1. L2Evicted(v) = "NotPresent" /\ plus = {} /\ l2[v] = "Shared"
        <5>1. L2Evicted(v) = "NotPresent"
          BY <3>8 DEF L2Evicted
        <5>2. plus = {}
          BY <3>8 DEF plus
        <5> QED
          BY <3>1, <3>7, <3>8, <5>1, <5>2
      <4>2. Serves(x, x', "NotPresent", {}, x.held, {}, {})
        BY <3>5, <3>6, <3>8, <4>1
      <4>3. x.dir = {}
        BY <3>6, <3>8
      <4>4. LineInv(x')
        BY <3>6, <4>1, <4>2, <4>3, EvictUnused
      <4> QED
        BY <2>2, <3>2, <4>1, <4>4, FitsNone DEF x
    <3>9. CASE sharers[v] # {}
      <4> DEFINE s == L2Evicted(v)
      <4>1. \/ x.l2 = "Shared" /\ s = "ShToInv"
            \/ x.l2 = "Modified" /\ s = "ModToInv"
        BY <3>1, <3>6, <3>9 DEF L2Evicted
      <4> HIDE DEF s
      <4>2. Serves(x, x', s, x.dir, x.held, {},
          {Plain("Invalidate", q) : q \in x.dir})
        BY <3>5, <3>6 DEF s, plus
      <4>3. LineInv(x') /\ Fits(x, {Plain("Invalidate", q) : q \in x.dir})
        BY <3>6, <3>9, <4>1, <4>2, EvictHome
      <4> QED
        BY <2>2, <3>2, <3>6, <4>3 DEF x, plus
    <3> QED
      BY <3>8, <3>9
  <2>3. CASE c # a /\ c # v
    <3>1. Marks({m}, c) = {} /\ Marks(Range(out), c) = {}
      BY <1>8, <2>3, MarksOther
    <3>2. View(c)'.msgs = View(c).msgs
      BY <1>14, <3>1
    <3>3. View(c)' = View(c)
      BY <1>13, <2>3, <3>2, SameView
    <3> QED
      BY <1>2, <3>1, <3>3, FitsNone
  <2> QED
    BY <2>1, <2>2, <2>3
<1>16. Orderly' /\ \A c \in Addrs \ ThreadState : LineInv(View(c))'
  BY <1>1, <1>8, <1>12, <1>15, LinesStep
<1>17. ThreadStateInv'
  <2>1. InFlight' \subseteq InFlight \union Range(out)
    BY <1>12 DEF Flows
  <2>2. \A w \in Range(out) : w.addr \notin ThreadState
    <3>1. \A w \in Range(out) : w.addr \in Addrs
      BY <1>8, ProperOfMessage DEF Outgoing
    <3> QED
      BY <1>4, <1>5, <1>8, <3>1
  <2>3. \A n \in InFlight' :
          n.addr \in ThreadState => n.type \in {"Read", "ReadEx", "DataExclusive"}
    BY <1>2, <2>1, <2>2 DEF ThreadStateInv
  <2>4. ASSUME NEW c \in ThreadState
        PROVE  /\ \A p \in L1s : l1'[p][c] = "NotPresent"
               /\ l2'[c] \in {"NotPresent", "InvToMod", "Modified"}
                   /\ sharers'[c] = {}
               /\ \A q \in Range(l2queue'[c]) : q.type \in {"Read", "ReadEx"}
    <3>1. c \in Addrs /\ c # v
      BY <1>4, <1>5, CmpInclAssumption
    <3>2. CASE c = a
      BY <1>2, <1>11, <1>13, <3>2 DEF ThreadStateInv
    <3>3. CASE c # a
      BY <1>2, <1>13, <3>1, <3>3 DEF ThreadStateInv
    <3> QED
      BY <3>2, <3>3
  <2> QED
    BY <2>3, <2>4 DEF ThreadStateInv
<1>18. KeptInv'
  <2>1. ASSUME NEW u \in InLists(waiting, Banks)
        PROVE  l2'[u.addr] = l2[u.addr] \/ l2[u.addr] # "ModToSh"
    <3>1. u.addr \in Addrs
      BY <1>1, WaitingAddrs
    <3>2. u.addr = a => l2[u.addr] # "ModToSh"
      OBVIOUS
    <3>3. u.addr = v => l2[u.addr] # "ModToSh"
      BY <1>4, <1>5, <3>1
    <3>4. u.addr \in Addrs \ {a, v} => l2'[u.addr] = l2[u.addr]
      BY <1>13
    <3> QED
      BY <3>1, <3>2, <3>3, <3>4
  <2> QED
    BY <1>2, <1>12, <2>1, KeptStep
<1>19. QueueInv'
  BY <1>2, <1>10, <1>13 DEF QueueInv
<1>20. MemoryInv'
  <2>1. ASSUME NEW c \in memory'
        PROVE  l2'[c] = "InvToMod"
    <3>1. CASE c = a
      BY <1>13, <3>1
    <3>2. CASE c # a
      <4>1. c \in memory /\ c \in Addrs /\ l2[c] = "InvToMod"
        BY <1>1, <1>2, <1>9, <3>2 DEF MemoryInv, L2Types
      <4>2. c # v
        BY <1>4, <1>5, <4>1
      <4> QED
        BY <1>13, <3>2, <4>1, <4>2
    <3> QED
      BY <3>1, <3>2
  <2> QED
    BY <2>1 DEF MemoryInv
<1> QED
  BY <1>13, <1>16, <1>17, <1>18, <1>19, <1>20 DEF Coh

LEMMA MissCoh ==
  ASSUME IInv, Coh, NEW b \in Banks, NEW m \in Ready(b),
           m.type \in {"Read", "ReadEx"},
         l2[m.addr] = "NotPresent", NEW sh,
         \/ m.addr \in ThreadState /\ sh = {}
         \/ m.addr \notin ThreadState /\ sh = {m.src},
         L2Miss(m, sh)
  PROVE  Coh' /\ failed' = failed
<1>1. CASE Poll(m) \/ Block(m)
  BY <1>1, PutBackCoh
<1>2. CASE \E v \in L2Victims(L2SetOf[m.addr]) : Insert(m, v, sh)
  BY <1>2, InsertCoh
<1> QED
  BY <1>1, <1>2 DEF L2Miss

LEMMA StateClear ==
  ASSUME NEW out, Outgoing(out), \A v \in Range(out) : v.addr \in ThreadState
  PROVE  Clear(out)
<1>1. out \in Seq(Message)
  BY DEF Outgoing
<1>2. \A i \in 1 .. Len(out) : out[i] \in Range(out)
  BY <1>1 DEF Range
<1> QED
  BY <1>2 DEF Clear, Wrong

LEMMA StateLines ==
  ASSUME Coh, NEW a \in ThreadState
  PROVE  /\ a \in Addrs /\ l2[a] \in {"NotPresent", "InvToMod", "Modified"}
         /\ sharers[a] = {}
         /\ \A q \in Range(l2queue[a]) : q.type \in {"Read", "ReadEx"}
BY CohParts, CmpInclAssumption DEF ThreadStateInv

LEMMA TSTCoh ==
  ASSUME IInv, Coh, NEW b \in Banks, NEW m \in Ready(b), L2TST(m)
  PROVE  Coh' /\ failed' = failed
<1> DEFINE a == m.addr
           out == << Up("DataExclusive", a, m.src) >>
<1>1. m.type \in {"Read", "ReadEx"} /\ a \in ThreadState
  BY DEF L2TST
<1>2. /\ a \in Addrs /\ l2[a] \in {"NotPresent", "InvToMod", "Modified"}
      /\ sharers[a] = {}
  BY <1>1, StateLines
<1>3. CASE l2[a] = "NotPresent"
  BY <1>1, <1>3, MissCoh DEF L2TST
<1>4. CASE l2[a] = "InvToMod"
  BY <1>1, <1>4, PutBackCoh DEF L2TST
<1>5. CASE l2[a] = "Modified"
  <2>1. /\ Done(m, out, {L2SetOf[a]}) /\ Line(a, l2[a], sharers[a], dirty[a])
            /\ NoMshr
    BY <1>5 DEF L2TST, Reply
  <2>2. NetInv /\ Orderly /\ KeptInv /\ MemoryInv /\ L2Types
      /\ ThreadState \subseteq Addrs
    BY CohParts, CmpInclAssumption DEF IInv, L2Inv
  <2>3. m.src \in L1s
    BY ProcessFacts, <1>1 DEF ToL2
  <2>4. /\ Outgoing(out) /\ \A v \in Range(out) : v.addr = a
            /\ v.type = "DataExclusive"
    <3>1. Outgoing(out)
      BY <1>2, <2>3, UpProper, OutgoingOne DEF ToL1
    <3>2. Range(out) = {Up("DataExclusive", a, m.src)}
      BY RangeOne
    <3> HIDE DEF out
    <3> QED
      BY <3>1, <3>2 DEF Up, Msg
  <2> HIDE DEF out
  <2>5. Clear(out)
    BY <1>1, <2>4, StateClear
  <2>6. /\ m \in InFlight /\ Flows({m}, out) /\ (Sendable(out) => Orderly')
        /\ \A u \in InLists(replay', Banks) \union InLists(waiting', Banks) :
             u.type \in {"Read", "ReadEx", "Upgrade"}
        /\ \A u \in InLists(waiting', Banks) :
             u \in InLists(waiting, Banks) /\ L2SetOf[u.addr] \notin {L2SetOf[a]}
    BY <2>1, <2>2, <2>4, DoneFlow
  <2>7. /\ l1' = l1 /\ l2' = l2 /\ sharers' = sharers /\ l2queue' = l2queue
        /\ memory' = memory /\ failed' = failed
    <3>1. l2' = l2 /\ sharers' = sharers
      BY <1>2, <2>1, <2>2 DEF Line, L2Types
    <3> QED
      BY <2>1, <3>1 DEF Done, NoMshr, l1vars
  <2>8. KeptInv' /\ MemoryInv'
    <3>1. KeptInv'
      BY <2>2, <2>6, <2>7, KeptStep
    <3> QED
      BY <2>2, <2>7, <3>1 DEF MemoryInv
  <2>9. {m} \subseteq InFlight
    BY <2>6
  <2>10. \A c \in ThreadState :
           /\ l2[c] \in {"NotPresent", "InvToMod", "Modified"} /\ sharers[c] = {}
           /\ \A q \in Range(l2queue[c]) : q.type \in {"Read", "ReadEx"}
    BY StateLines
  <2> QED
    BY <1>1, <2>4, <2>5, <2>6, <2>7, <2>8, <2>9, <2>10, StateStep
<1> QED
  BY <1>2, <1>3, <1>4, <1>5

(* No message to the L2 is rejected, but for one write-back.                *)
LEMMA L2ProcessCoh ==
  ASSUME IInv, Coh, NEW b \in Banks, NEW m \in Ready(b), L2Process(m)
  PROVE  Coh' /\ (failed' = failed \/ (failed' = "L2 WriteBack" /\ Recoils(m)))
<1>1. CASE L2Read(m)
  <2>1. m.type = "Read" /\ m.addr \notin ThreadState
    BY <1>1 DEF L2Read
  <2>2. CASE l2[m.addr] = "NotPresent"
    <3>1. L2Miss(m, {m.src})
      BY <1>1, <2>2 DEF L2Read, L2Buffered
    <3> QED
      BY <2>1, <2>2, <3>1, MissCoh
  <2> QED
    BY <1>1, <2>2, ReadCoh
<1>2. CASE L2ReadEx(m)
  <2>1. m.type = "ReadEx" /\ m.addr \notin ThreadState
    BY <1>2 DEF L2ReadEx
  <2>2. CASE l2[m.addr] = "NotPresent"
    <3>1. L2Miss(m, {m.src})
      BY <1>2, <2>2 DEF L2ReadEx, L2Transient, L2Buffered
    <3> QED
      BY <2>1, <2>2, <3>1, MissCoh
  <2> QED
    BY <1>2, <2>2, ReadExCoh
<1> QED
  BY <1>1, <1>2, UpgradeCoh, TSTCoh, ReplaceCoh, InvAckCoh, WriteBackCoh,
      FwdAckDataCoh
     DEF L2Process

(* Main memory's answer, what it does to the lists of messages.             *)
LEMMA MemoryFlow ==
  ASSUME NetInv, Orderly, KeptInv, NEW out, Outgoing(out), net' = Post(net, out),
         NEW sets, Wake(replay, sets)
  PROVE  /\ Flows({}, out) /\ (Sendable(out) => Orderly')
         /\ \A m \in InLists(replay', Banks) \union InLists(waiting', Banks) :
              m.type \in {"Read", "ReadEx", "Upgrade"}
         /\ \A m \in InLists(waiting', Banks) :
              m \in InLists(waiting, Banks) /\ L2SetOf[m.addr] \notin sets
<1>1. Traffic(net) /\ Stalled(replay) /\ Stalled(waiting)
  BY DEF NetInv
<1>2. Order(net, replay, waiting)
  BY DEF Orderly
<1>3. /\ Everywhere(net, replay, waiting) \subseteq InFlight
      /\ Cached(Everywhere(net, replay, waiting)) = Cached(InFlight) \ {}
  BY InFlightIs
<1> QED
  BY <1>1, <1>2, <1>3, WakingFlow

LEMMA MemoryLineCoh ==
  ASSUME IInv, Coh, NEW a \in Addrs \ ThreadState, a \in memory, MemoryResponse(a)
  PROVE  Coh' /\ failed' = failed
<1> DEFINE x == View(a)
           out == Responses(a)
<1>1. NetInv /\ L2Types
  BY DEF IInv, L2Inv
<1>2. /\ Orderly /\ KeptInv /\ QueueInv /\ MemoryInv /\ ThreadStateInv
      /\ Lone(InFlight) /\ \A c \in Addrs \ ThreadState : LineInv(View(c))
  BY CohParts
<1>3. l2[a] = "InvToMod"
  BY <1>2 DEF MemoryInv
<1>4. /\ LineInv(x) /\ x.l2 = "InvToMod" /\ x.dir = sharers[a]
      /\ x.held = HeldBy(l2queue[a]) /\ IsInjective(l2queue[a])
  BY <1>2, <1>3 DEF View, HeldBy, QueueInv
<1>5. PICK r \in L1s, t \in {"Read", "ReadEx"} : x.held = {<<t, r>>}
  BY <1>4 DEF LineInv, HomeInv
<1> DEFINE plus == {Plain("DataExclusive", r)}
<1>6. /\ Line(a, "Modified", sharers[a], dirty[a]) /\ FreeMshr(a)
      /\ net' = Post(net, out) /\ Wake(replay, L2FreedMshr(a))
      /\ l1' = l1 /\ failed' = failed /\ memory' = memory \ {a}
  BY <1>3 DEF MemoryResponse, l1vars
<1>7. \A q \in Range(l2queue[a]) : q.type = t /\ q.req = r
  <2>1. \A q \in Range(l2queue[a]) : <<q.type, q.req>> \in x.held
    BY <1>4 DEF HeldBy
  <2> QED
    BY <1>5, <2>1
<1>8. \A q \in Range(l2queue[a]) : Response(a, q) = Up("DataExclusive", a, q.req)
  BY <1>3, <1>7 DEF Response
<1>9. Range(l2queue[a]) # {}
  BY <1>4, <1>5 DEF HeldBy
<1>10. /\ Outgoing(out) /\ Clear(out) /\ \A v \in Range(out) : v.addr = a
       /\ Marks(Range(out),
           a) = {Plain("DataExclusive", q.req) : q \in Range(l2queue[a])}
  BY <1>1, <1>4, <1>7, <1>8, ResponsesOf
<1>11. Marks(Range(out), a) = plus
  BY <1>7, <1>9, <1>10
<1>12. l2queue' = [l2queue EXCEPT ![a] = <<>>]
  BY <1>6 DEF FreeMshr
<1> HIDE DEF x, out, plus
<1>13. /\ Flows({}, out) /\ (Sendable(out) => Orderly')
       /\ \A u \in InLists(replay', Banks) \union InLists(waiting', Banks) :
            u.type \in {"Read", "ReadEx", "Upgrade"}
       /\ \A u \in InLists(waiting', Banks) :
            u \in InLists(waiting, Banks) /\ L2SetOf[u.addr] \notin L2FreedMshr(a)
  BY <1>1, <1>2, <1>6, <1>10, MemoryFlow
<1>14. /\ l2'[a] = "Modified" /\ sharers'[a] = sharers[a] /\ l2queue'[a] = <<>>
       /\ \A c \in Addrs \ {a} :
            l2'[c] = l2[c] /\ sharers'[c] = sharers[c] /\ l2queue'[c] = l2queue[c]
  BY <1>1, <1>6, <1>12 DEF Line, L2Types
<1>15. ASSUME NEW c \in Addrs \ ThreadState
       PROVE  LineInv(View(c)') /\ Fits(View(c), Marks(Range(out), c))
  <2>1. Marks({}, c) = {} /\ {} \subseteq InFlight
    BY MarksNone
  <2>2. View(c)'.msgs = (View(c).msgs \ {}) \union Marks(Range(out), c)
    BY <1>2, <1>13, <2>1, FlowMarks
  <2>3. CASE c = a
    <3>1. View(a)'.msgs = (View(a).msgs \ {}) \union plus
      BY <1>11, <2>2, <2>3
    <3>2. Serves(x, x', "Modified", sharers[a], HeldBy(<<>>), {}, plus)
      BY <1>1, <1>6, <1>14, <3>1, ServesOf DEF x
    <3>3. Serves(x, x', "Modified", x.dir, {}, {}, {Plain("DataExclusive", r)})
      BY <1>4, <3>2, HeldByNone DEF plus
    <3>4. LineInv(x') /\ Fits(x, {Plain("DataExclusive", r)})
      BY <1>4, <1>5, <3>3, MemoryAnswers
    <3> QED
      BY <1>11, <2>3, <3>4 DEF x, plus
  <2>4. CASE c # a
    <3>1. Marks(Range(out), c) = {}
      BY <1>10, <2>4, MarksOther
    <3>2. View(c)'.msgs = View(c).msgs
      BY <2>2, <3>1
    <3>3. View(c)' = View(c)
      BY <1>6, <1>14, <2>4, <3>2, SameView
    <3> QED
      BY <1>2, <3>1, <3>3, FitsNone
  <2> QED
    BY <2>3, <2>4
<1>16. Orderly' /\ \A c \in Addrs \ ThreadState : LineInv(View(c))'
  BY <1>1, <1>10, <1>13, <1>15, LinesStep
<1>17. ThreadStateInv'
  <2>1. ThreadState \subseteq Addrs \ {a}
      /\ \A v \in Range(out) : v.addr \notin ThreadState
    BY <1>10, CmpInclAssumption
  <2>2. InFlight' \subseteq InFlight \union Range(out)
    BY <1>13 DEF Flows
  <2> QED
    BY <1>2, <1>6, <1>14, <2>1, <2>2, ThreadStateStep
<1>18. KeptInv'
  <2>1. \A u \in InLists(waiting, Banks) : l2'[u.addr] = l2[u.addr]
      \/ l2[u.addr] # "ModToSh"
    BY <1>1, <1>3, <1>14, WaitingAddrs
  <2> QED
    BY <1>2, <1>13, <2>1, KeptStep
<1>19. QueueInv'
  BY <1>2, <1>14, HeldByNone DEF QueueInv
<1>20. MemoryInv'
  BY <1>1, <1>2, <1>6, <1>14 DEF MemoryInv, L2Types
<1> QED
  BY <1>6, <1>16, <1>17, <1>18, <1>19, <1>20 DEF Coh

LEMMA MemoryStateCoh ==
  ASSUME IInv, Coh, NEW a \in ThreadState, a \in memory, MemoryResponse(a)
  PROVE  Coh' /\ failed' = failed
<1> DEFINE out == Responses(a)
<1>1. /\ NetInv /\ Orderly /\ KeptInv /\ MemoryInv /\ L2Types
      /\ ThreadState \subseteq Addrs /\ a \in Addrs
  BY CohParts, CmpInclAssumption DEF IInv, L2Inv
<1>2. l2[a] = "InvToMod"
  BY <1>1 DEF MemoryInv
<1>3. /\ Line(a, "Modified", sharers[a], dirty[a]) /\ FreeMshr(a)
      /\ net' = Post(net, out) /\ Wake(replay, L2FreedMshr(a))
      /\ l1' = l1 /\ failed' = failed /\ memory' = memory \ {a}
  BY <1>2 DEF MemoryResponse, l1vars
<1>4. Outgoing(out)
  BY <1>1, ResponsesOutgoing
<1>5. \A v \in Range(out) : v.addr = a /\ v.type = "DataExclusive"
  <2>1. ASSUME NEW i \in DOMAIN out
        PROVE  out[i].addr = a /\ out[i].type = "DataExclusive"
    <3>1. l2queue[a] \in Seq(Queued) /\ i \in 1 .. Len(l2queue[a])
      BY <1>1 DEF Responses, L2Types
    <3>2. out[i] = Response(a, l2queue[a][i]) /\ l2queue[a][i] \in Range(l2queue[a])
      BY <3>1 DEF Responses, Range
    <3> HIDE DEF out
    <3> QED
      BY <1>2, <3>2 DEF Response, Up, Msg
  <2> HIDE DEF out
  <2> QED
    BY <2>1 DEF Range
<1>6. l2queue' = [l2queue EXCEPT ![a] = <<>>] /\ Range(<<>>) = {}
  BY <1>3 DEF FreeMshr, Range
<1> HIDE DEF out
<1>7. Clear(out)
  BY <1>4, <1>5, StateClear
<1>8. /\ Flows({}, out) /\ (Sendable(out) => Orderly')
      /\ \A u \in InLists(replay', Banks) \union InLists(waiting', Banks) :
           u.type \in {"Read", "ReadEx", "Upgrade"}
      /\ \A u \in InLists(waiting', Banks) :
           u \in InLists(waiting, Banks) /\ L2SetOf[u.addr] \notin L2FreedMshr(a)
  BY <1>1, <1>3, <1>4, MemoryFlow
<1>9. /\ l2'[a] = "Modified" /\ sharers'[a] = sharers[a] /\ l2queue'[a] = <<>>
      /\ \A c \in Addrs \ {a} :
           l2'[c] = l2[c] /\ sharers'[c] = sharers[c] /\ l2queue'[c] = l2queue[c]
  BY <1>1, <1>3, <1>6 DEF Line, L2Types
<1>10. KeptInv' /\ MemoryInv'
  <2>1. \A u \in InLists(waiting, Banks) : l2'[u.addr] = l2[u.addr]
      \/ l2[u.addr] # "ModToSh"
    BY <1>1, <1>2, <1>9, WaitingAddrs
  <2>2. KeptInv'
    BY <1>1, <1>8, <2>1, KeptStep
  <2>3. MemoryInv'
    BY <1>1, <1>3, <1>9 DEF MemoryInv, L2Types
  <2> QED
    BY <2>2, <2>3
<1>11. \A c \in ThreadState :
         /\ l2'[c] \in {"NotPresent", "InvToMod", "Modified"} /\ sharers'[c] = {}
         /\ \A q \in Range(l2queue'[c]) : q.type \in {"Read", "ReadEx"}
  <2> TAKE c \in ThreadState
  <2>1. CASE c = a
    BY <1>6, <1>9, <2>1, StateLines
  <2>2. CASE c # a
    BY <1>1, <1>9, <2>2, StateLines
  <2> QED
    BY <2>1, <2>2
<1>12. {} \in SUBSET InFlight /\ \A c \in Addrs \ ThreadState : c \in Addrs \ {a}
  OBVIOUS
<1> QED
  BY <1>3, <1>4, <1>5, <1>7, <1>8, <1>9, <1>10, <1>11, <1>12, StateStep

LEMMA MemoryCoh ==
  ASSUME IInv, Coh, NEW a \in Addrs, MemoryResponse(a)
  PROVE  Coh' /\ failed' = failed
<1>1. a \in memory
  BY DEF MemoryResponse
<1> QED
  BY <1>1, MemoryLineCoh, MemoryStateCoh

-----------------------------------------------------------------------------
(* The requests of the processors.                                          *)

LEMMA MovesAt ==
  ASSUME NEW p \in L1s, NEW a \in Addrs, NEW state,
         \A q \in L1s : l1'[q][a] = IF q = p THEN state ELSE l1[q][a],
         UNCHANGED l2vars, NEW minus, NEW plus,
         View(a)'.msgs = (View(a).msgs \ minus) \union plus
  PROVE  Moves(View(a), View(a)', p, state, minus, plus)
<1>1. l2' = l2 /\ sharers' = sharers /\ l2queue' = l2queue
  BY DEF l2vars
<1>2. [q \in L1s |-> l1'[q][a]] = [[q \in L1s |-> l1[q][a]] EXCEPT ![p] = state]
  OBVIOUS
<1>3. /\ View(a).lines = [q \in L1s |-> l1[q][a]]
      /\ View(a)'.lines = [q \in L1s |-> l1'[q][a]]
      /\ View(a)'.l2 = View(a).l2 /\ View(a)'.dir = View(a).dir
      /\ View(a)'.held = View(a).held
  BY <1>1 DEF View
<1> QED
  BY <1>2, <1>3 DEF Moves

About(s, v) == \A w \in Range(s) : w.addr = v

(* The messages of a miss in an L1.                                         *)
LEMMA AskSends ==
  ASSUME NEW p \in L1s, NEW a \in Addrs, NEW t \in {"Read", "ReadEx", "Upgrade"},
         NEW v, v # a, NEW first, Outgoing(first), Clear(first),
         About(first, v), NEW m, m = Down(t, a, p)
  PROVE  /\ Outgoing(Append(first, m)) /\ Clear(Append(first, m))
         /\ \A w \in Range(Append(first, m)) : w.addr \in {a, v}
         /\ Marks(Range(Append(first, m)), a) = {Plain(t, p)}
         /\ Marks(Range(Append(first, m)), v) = Marks(Range(first), v)
<1> DEFINE out == Append(first, m)
<1>1. m.addr = a /\ Mark(m) = Plain(t, p) /\ Proper(m) /\ m \in Message
  BY MarkDown, DownProper, ProperOfMessage DEF ToL2
<1> HIDE DEF out
<1>2. out = Append(first, m) /\ first \in Seq(Message)
  BY DEF out, Outgoing
<1>3. Outgoing(out)
  BY <1>1, <1>2, OutgoingAppend
<1>4. \A u \in Range(first) : ~Wrong(u, m)
  BY <1>1 DEF Wrong, About
<1>5. Clear(out)
  BY <1>1, <1>2, <1>4, ClearAppend
<1>6. Range(out) = Range(first) \union {m}
  <2>1. /\ Len(first) \in Nat /\ DOMAIN first = 1 .. Len(first)
        /\ DOMAIN out = 1 .. Len(first) + 1 /\ out[Len(first) + 1] = m
        /\ \A i \in 1 .. Len(first) : out[i] = first[i]
    BY <1>1, <1>2
  <2> QED
    BY <2>1 DEF Range
<1>7. Marks(Range(out), a) = {Plain(t, p)}
  <2>1. {w \in Range(out) : w.addr = a} = {m}
    BY <1>1, <1>6 DEF About
  <2> QED
    BY <1>1, <2>1 DEF Marks
<1>8. Marks(Range(out), v) = Marks(Range(first), v)
  BY <1>1, <1>6 DEF Marks
<1> QED
  BY <1>1, <1>3, <1>5, <1>6, <1>7, <1>8 DEF out, About

(* An L1 asks for a line and gives v up, or no line.                        *)
LEMMA AskStep ==
  ASSUME IInv, Coh, NEW p \in L1s, NEW a \in Addrs \ ThreadState,
         NEW t \in {"Read", "ReadEx", "Upgrade"}, NEW s,
         NEW lines \in [Addrs -> L1State],
         NEW v, v \notin Addrs \/ v \in Addrs \ ThreadState, v # a,
         \A c \in Addrs : c # v => lines[c] = l1[p][c],
         NEW first, Outgoing(first), Clear(first), \A w \in Range(first) : w.addr = v,
         l1' = [l1 EXCEPT ![p] = [lines EXCEPT ![a] = s]],
         net' = Post(net, Append(first, Down(t, a, p))),
             UNCHANGED <<l2vars, bankvars>>,
         Moves(View(a), View(a)', p, s, {}, {Plain(t, p)}) =>
           LineInv(View(a)') /\ Fits(View(a), {Plain(t, p)}),
         v \in Addrs /\ Moves(View(v), View(v)', p, lines[v], {},
             Marks(Range(first), v)) =>
           LineInv(View(v)') /\ Fits(View(v), Marks(Range(first), v))
  PROVE  Coh'
<1> DEFINE m == Down(t, a, p)
           out == Append(first, m)
<1>1. NetInv /\ l1 \in [L1s -> [Addrs -> L1State]]
  BY DEF IInv, L1Inv, L1Types
<1>2. /\ Orderly /\ KeptInv /\ QueueInv /\ MemoryInv /\ ThreadStateInv
      /\ Lone(InFlight) /\ \A c \in Addrs \ ThreadState : LineInv(View(c))
  BY CohParts
<1>3. net' = Post(net, out) /\ About(first, v) /\ m = Down(t, a, p)
  BY DEF About
<1> HIDE DEF m
<1>4. /\ Outgoing(out) /\ Clear(out) /\ \A w \in Range(out) : w.addr \in {a, v}
      /\ Marks(Range(out), a) = {Plain(t, p)}
      /\ Marks(Range(out), v) = Marks(Range(first), v)
  BY <1>3, AskSends
<1> HIDE DEF out
<1>5. Flows({}, out) /\ (Sendable(out) => Orderly')
  BY <1>1, <1>2, <1>3, <1>4, PostedFlow
<1>6. /\ \A q \in L1s : l1'[q][a] = IF q = p THEN s ELSE l1[q][a]
      /\ v \in Addrs
          => \A q \in L1s : l1'[q][v] = IF q = p THEN lines[v] ELSE l1[q][v]
      /\ \A c \in Addrs \ {a, v}, q \in L1s : l1'[q][c] = l1[q][c]
  BY <1>1
<1>7. /\ l2' = l2 /\ sharers' = sharers /\ l2queue' = l2queue /\ memory' = memory
      /\ replay' = replay /\ waiting' = waiting
  BY DEF l2vars, bankvars
<1>8. ASSUME NEW c \in Addrs \ ThreadState
      PROVE  LineInv(View(c)') /\ Fits(View(c), Marks(Range(out), c))
  <2>1. Marks({}, c) = {} /\ {} \subseteq InFlight
    BY MarksNone
  <2>2. View(c)'.msgs = (View(c).msgs \ {}) \union Marks(Range(out), c)
    BY <1>2, <1>5, <2>1, FlowMarks
  <2>3. CASE c = a
    <3>1. View(a)'.msgs = (View(a).msgs \ {}) \union {Plain(t, p)}
      BY <1>4, <2>2, <2>3
    <3>2. Moves(View(a), View(a)', p, s, {}, {Plain(t, p)})
      BY <1>6, <3>1, MovesAt
    <3> QED
      BY <1>4, <2>3, <3>2
  <2>4. CASE c = v
    <3>1. View(v)'.msgs = (View(v).msgs \ {}) \union Marks(Range(first), v)
      BY <1>4, <2>2, <2>4
    <3>2. Moves(View(v), View(v)', p, lines[v], {}, Marks(Range(first), v))
      BY <1>6, <2>4, <3>1, MovesAt
    <3> QED
      BY <1>4, <2>4, <3>2
  <2>5. CASE c \notin {a, v}
    <3>1. Marks(Range(out), c) = {}
      BY <1>4, <2>5, MarksOther
    <3>2. View(c)'.msgs = View(c).msgs
      BY <2>2, <3>1
    <3>3. View(c)' = View(c)
      BY <1>6, <1>7, <2>5, <3>2, SameView
    <3> QED
      BY <1>2, <3>1, <3>3, FitsNone
  <2> QED
    BY <2>3, <2>4, <2>5
<1>9. Orderly' /\ \A c \in Addrs \ ThreadState : LineInv(View(c))'
  BY <1>1, <1>4, <1>5, <1>8, LinesStep
<1>10. ThreadStateInv'
  <2>1. InFlight' \subseteq InFlight \union Range(out)
    BY <1>5 DEF Flows
  <2>2. ThreadState \subseteq Addrs \ {a, v}
    BY CmpInclAssumption
  <2>3. \A w \in Range(out) : w.addr \notin ThreadState
    BY <1>4, <2>2
  <2> QED
    BY <1>2, <1>6, <1>7, <2>1, <2>2, <2>3, ThreadStateStep
<1>11. KeptInv' /\ QueueInv' /\ MemoryInv'
  BY <1>2, <1>7 DEF KeptInv, QueueInv, MemoryInv
<1> QED
  BY <1>9, <1>10, <1>11 DEF Coh

(* An L1 that gives v up: its new state, and what it says.                  *)
LEMMA EvictSends ==
  ASSUME Coh, L1Types, NEW p \in L1s, NEW v \in Addrs,
         l1[p][v] \in L1Replaceable \union {"Invalid"}, NEW y
  PROVE  LET first == L1EvictMsg(p, v)
         IN  /\ Outgoing(first) /\ Clear(first) /\ \A w \in Range(first) : w.addr = v
             /\ Moves(View(v), y, p, L1Evict(p, v)[v], {}, Marks(Range(first), v)) =>
                  LineInv(y) /\ Fits(View(v), Marks(Range(first), v))
<1> DEFINE x == View(v)
           first == L1EvictMsg(p, v)
           s == L1Evict(p, v)[v]
<1>1. v # Unused /\ v \notin ThreadState
  BY CohParts, CmpInclAssumption DEF ThreadStateInv, L1Replaceable
<1>2. LineInv(x) /\ x.lines[p] = l1[p][v]
  BY <1>1, CohParts DEF View
<1>3. CASE l1[p][v] = "Invalid"
  <2>1. first = <<>> /\ s = "NotPresent"
    BY <1>3 DEF L1EvictMsg, L1Evict
  <2> HIDE DEF x, first, s
  <2>2. /\ Outgoing(first) /\ Clear(first) /\ \A w \in Range(first) : w.addr = v
        /\ Marks(Range(first), v) = {}
    BY <2>1, NothingSent
  <2>3. Moves(x, y, p, s, {}, {}) => LineInv(y) /\ Fits(x, {})
    BY <1>2, <1>3, <2>1, EvictInvalid, FitsNone
  <2> QED
    BY <2>2, <2>3 DEF x, first, s
<1>4. ASSUME NEW t \in ToL2, NEW u, first = << Down(t, v, p) >>,
             Mark(Down(t, v, p)) = Plain(u, p),
             Moves(x, y, p, s, {}, {Plain(u, p)}) => LineInv(y)
                 /\ Fits(x, {Plain(u, p)})
      PROVE  /\ Outgoing(first) /\ Clear(first) /\ \A w \in Range(first) : w.addr = v
             /\ Moves(x, y, p, s, {}, Marks(Range(first), v)) =>
                  LineInv(y) /\ Fits(x, Marks(Range(first), v))
  <2> HIDE DEF x, first, s
  <2>1. Down(t, v, p).addr = v
    BY DEF Down, Msg
  <2>2. Outgoing(<< Down(t, v, p) >>)
    BY DownProper, OutgoingOne
  <2>3. \A w \in Range(<< Down(t, v, p) >>) : w.addr = v
    BY <2>1, RangeOne
  <2>4. Marks(Range(first), v) = {Plain(u, p)}
    BY <1>4, <2>1, MarksOne
  <2>5. Clear(<< Down(t, v, p) >>)
    BY ClearOne
  <2> QED
    BY <1>4, <2>2, <2>3, <2>4, <2>5
<1>5. CASE l1[p][v] = "Shared"
  <2>1. first = << Down("Replace", v, p) >> /\ s = "ShToInv" /\ "Replace" \in ToL2
    BY <1>1, <1>5 DEF L1EvictMsg, L1Evict, ToL2
  <2>2. Mark(Down("Replace", v, p)) = Plain("Replace", p)
    BY MarkDown DEF ToL2
  <2> HIDE DEF x, first, s
  <2>3. Moves(x, y, p, s, {}, {Plain("Replace", p)}) =>
          LineInv(y) /\ Fits(x, {Plain("Replace", p)})
    BY <1>2, <1>5, <2>1, EvictShared
  <2> QED
    BY <1>4, <2>1, <2>2, <2>3 DEF x, first, s
<1>6. CASE l1[p][v] \in {"Exclusive", "Modified"}
  <2> DEFINE t == IF l1[p][v] = "Exclusive" THEN "WriteBackClean" ELSE "WriteBack"
  <2>1. first = << Down(t, v, p) >> /\ s = "ModToInv" /\ t \in ToL2
    BY <1>1, <1>6 DEF L1EvictMsg, L1Evict, ToL2
  <2>2. Mark(Down(t, v, p)) = Plain("WriteBack", p)
    BY MarkDown, MarkClean DEF ToL2
  <2> HIDE DEF x, first, s, t
  <2>3. Moves(x, y, p, s, {}, {Plain("WriteBack", p)}) =>
          LineInv(y) /\ Fits(x, {Plain("WriteBack", p)})
    BY <1>2, <1>6, <2>1, EvictOwned DEF Owned
  <2> QED
    BY <1>4, <2>1, <2>2, <2>3 DEF x, first, s
<1> QED
  BY <1>3, <1>5, <1>6 DEF L1Replaceable

LEMMA AskMoves ==
  ASSUME NEW x, LineInv(x), NEW p \in L1s, NEW t, NEW s, NEW y,
         \/ t = "Read" /\ s = "InvToShEx" /\ x.lines[p] \in {"NotPresent", "Invalid"}
         \/ t = "ReadEx" /\ s = "InvToMod" /\ x.lines[p] \in {"NotPresent", "Invalid"}
         \/ t = "Upgrade" /\ s = "ShToMod" /\ x.lines[p] = "Shared",
         Moves(x, y, p, s, {}, {Plain(t, p)})
  PROVE  LineInv(y) /\ Fits(x, {Plain(t, p)})
BY AskLine, AskUpgrade

LEMMA MissAskCoh ==
  ASSUME IInv, Coh, NEW p \in L1s, NEW r \in Requests, r[2] \notin ThreadState,
         NEW type, NEW state,
         \/ type = "Read" /\ state = "InvToShEx"
         \/ type = "ReadEx" /\ state = "InvToMod",
         l1[p][r[2]] \in {"NotPresent", "Invalid"}, NEW v,
         v = Unused \/ (v \in Addrs /\ l1[p][v] \in L1Replaceable \union {"Invalid"}),
         v # r[2], Ask(p, r, type, state, L1Evict(p, v), L1EvictMsg(p, v))
  PROVE  Coh' /\ failed' = failed
<1> DEFINE a == r[2]
           lines == L1Evict(p, v)
           first == L1EvictMsg(p, v)
<1>1. a \in Addrs \ ThreadState /\ L1Types
  BY RequestOf DEF IInv, L1Inv
<1>2. /\ lines \in [Addrs -> L1State] /\ \A c \in Addrs : c # v => lines[c] = l1[p][c]
  BY <1>1, VictimLeaves
<1>3. v = Unused => v \notin Addrs /\ first = <<>>
  BY CmpInclAssumption DEF L1EvictMsg
<1>4. v \in Addrs => v \notin ThreadState
  BY <1>3, CohParts DEF ThreadStateInv, L1Replaceable
<1>5. /\ l1' = [l1 EXCEPT ![p] = [lines EXCEPT ![a] = state]]
      /\ net' = Post(net, Append(first, Down(type, a, p)))
      /\ UNCHANGED <<l2vars, bankvars>> /\ failed' = failed
  BY DEF Ask
<1>6. LineInv(View(a)) /\ View(a).lines[p] = l1[p][a]
  BY <1>1, CohParts DEF View
<1>7. Moves(View(a), View(a)', p, state, {}, {Plain(type, p)}) =>
        LineInv(View(a)') /\ Fits(View(a), {Plain(type, p)})
  BY <1>6, AskMoves
<1> HIDE DEF lines, first
<1>8. /\ Outgoing(first) /\ Clear(first) /\ \A w \in Range(first) : w.addr = v
      /\ v \in Addrs
          /\ Moves(View(v), View(v)', p, lines[v], {}, Marks(Range(first), v)) =>
           LineInv(View(v)') /\ Fits(View(v), Marks(Range(first), v))
  <2>1. CASE v = Unused
    BY <1>3, <2>1, NothingSent
  <2>2. CASE v \in Addrs
    BY <1>1, <1>3, <2>2, EvictSends DEF lines, first
  <2> QED
    BY <2>1, <2>2
<1>9. type \in {"Read", "ReadEx", "Upgrade"}
  OBVIOUS
<1>10. Coh'
  BY <1>1, <1>2, <1>3, <1>4, <1>5, <1>7, <1>8, <1>9, AskStep
<1> QED
  BY <1>5, <1>10

LEMMA UpgradeAskCoh ==
  ASSUME IInv, Coh, NEW p \in L1s, NEW r \in Requests, r[2] \notin ThreadState,
         l1[p][r[2]] = "Shared", Ask(p, r, "Upgrade", "ShToMod", l1[p], <<>>)
  PROVE  Coh' /\ failed' = failed
<1> DEFINE a == r[2]
<1>1. a \in Addrs \ ThreadState /\ l1[p] \in [Addrs -> L1State]
  BY RequestOf DEF IInv, L1Inv, L1Types
<1>2. /\ l1' = [l1 EXCEPT ![p] = [l1[p] EXCEPT ![a] = "ShToMod"]]
      /\ net' = Post(net, Append(<<>>, Down("Upgrade", a, p)))
      /\ UNCHANGED <<l2vars, bankvars>> /\ failed' = failed
  BY DEF Ask
<1>3. LineInv(View(a)) /\ View(a).lines[p] = l1[p][a]
  BY <1>1, CohParts DEF View
<1>4. Moves(View(a), View(a)', p, "ShToMod", {}, {Plain("Upgrade", p)}) =>
        LineInv(View(a)') /\ Fits(View(a), {Plain("Upgrade", p)})
  BY <1>3, AskMoves
<1>5. Unused \notin Addrs /\ Unused # a
  BY <1>1, CmpInclAssumption
<1>6. /\ Outgoing(<<>>) /\ Clear(<<>>) /\ \A w \in Range(<<>>) : w.addr = Unused
  BY NothingSent
<1>7. Coh'
  BY <1>1, <1>2, <1>4, <1>5, <1>6, AskStep
<1> QED
  BY <1>2, <1>7

LEMMA MissProcCoh ==
  ASSUME IInv, Coh, NEW p \in L1s, NEW r \in Requests, r[2] \notin ThreadState,
         NEW type, NEW state,
         \/ type = "Read" /\ state = "InvToShEx"
         \/ type = "ReadEx" /\ state = "InvToMod",
         l1[p][r[2]] \in {"NotPresent", "Invalid"}, Miss(p, r, type, state)
  PROVE  Coh' /\ failed' = failed
<1> DEFINE absent == l1[p][r[2]] = "NotPresent"
           victims == IF absent THEN L1Victims(p, L1SetOf[r[2]]) ELSE {Unused}
<1>1. CASE \E where \in {"replay", "wait"} : Stall(p, r, where)
  BY <1>1, SilentStep DEF Stall, l2vars, bankvars
<1>2. ASSUME NEW v \in victims,
             Ask(p, r, type, state, L1Evict(p, v), L1EvictMsg(p, v))
      PROVE  Coh' /\ failed' = failed
  <2>1. r[2] \in Addrs
    BY RequestOf
  <2>2. v = Unused \/ (v \in Addrs /\ l1[p][v] \in L1Replaceable \union {"Invalid"})
    BY DEF L1Victims, L1Ways
  <2>3. v # r[2]
    <3>1. Unused # r[2]
      BY <2>1, CmpInclAssumption
    <3>2. CASE v # Unused
      <4>1. absent /\ v \in L1Ways(p, L1SetOf[r[2]])
        BY <3>2 DEF L1Victims
      <4> QED
        BY <4>1 DEF L1Ways
    <3> QED
      BY <3>1, <3>2
  <2> QED
    BY <1>2, <2>2, <2>3, MissAskCoh
<1> HIDE DEF victims
<1>3. \/ \E where \in {"replay", "wait"} : Stall(p, r, where)
      \/ \E v \in victims : Ask(p, r, type, state, L1Evict(p, v), L1EvictMsg(p, v))
  BY DEF Miss, victims
<1> QED
  BY <1>1, <1>2, <1>3

LEMMA SameMsgs ==
  ASSUME UNCHANGED <<net, replay, waiting>>
  PROVE  InFlight' = InFlight /\ \A a : View(a)'.msgs = View(a).msgs
<1>1. InFlight' = InFlight
  BY DEF InFlight
<1> QED
  BY <1>1 DEF View

(* A store hits.                                                            *)
LEMMA WriteCoh ==
  ASSUME IInv, Coh, NEW p \in L1s, NEW r \in Requests, r[2] \notin ThreadState,
         l1[p][r[2]] \in Owned, Hit(p, r, "Modified")
  PROVE  Coh' /\ failed' = failed
<1> DEFINE a == r[2]
<1>1. a \in Addrs \ ThreadState /\ l1 \in [L1s -> [Addrs -> L1State]] /\ NetInv
  BY RequestOf DEF IInv, L1Inv, L1Types
<1>2. /\ l1' = [l1 EXCEPT ![p][a] = "Modified"] /\ failed' = failed
      /\ UNCHANGED l2vars /\ net' = net /\ replay' = replay /\ waiting' = waiting
  BY DEF Hit, SetLine, bankvars
<1>3. /\ l2' = l2 /\ sharers' = sharers /\ l2queue' = l2queue /\ memory' = memory
  BY <1>2 DEF l2vars
<1>4. /\ Orderly /\ KeptInv /\ QueueInv /\ MemoryInv /\ ThreadStateInv
      /\ \A c \in Addrs \ ThreadState : LineInv(View(c))
  BY CohParts
<1>5. InFlight' = InFlight /\ \A c : View(c)'.msgs = View(c).msgs
  BY <1>2, SameMsgs
<1>6. /\ \A q \in L1s : l1'[q][a] = IF q = p THEN "Modified" ELSE l1[q][a]
      /\ \A c \in Addrs \ {a}, q \in L1s : l1'[q][c] = l1[q][c]
  BY <1>1, <1>2
<1>7. ASSUME NEW c \in Addrs \ ThreadState
      PROVE  LineInv(View(c)')
  <2>1. CASE c = a
    <3>1. View(a)'.msgs = (View(a).msgs \ {}) \union {}
      BY <1>5
    <3>2. Moves(View(a), View(a)', p, "Modified", {}, {})
      BY <1>1, <1>2, <1>6, <3>1, MovesAt
    <3>3. LineInv(View(a)) /\ View(a).lines[p] \in Owned
      BY <1>1, <1>4 DEF View
    <3> QED
      BY <2>1, <3>2, <3>3, WriteOwned
  <2>2. CASE c # a
    <3>1. View(c)' = View(c)
      BY <1>3, <1>5, <1>6, <2>2, SameView
    <3> QED
      BY <1>4, <3>1
  <2> QED
    BY <2>1, <2>2
<1>8. ThreadStateInv'
  <2>1. \A c \in ThreadState : c \in Addrs \ {a}
    BY CmpInclAssumption
  <2> QED
    BY <1>3, <1>4, <1>5, <1>6, <2>1 DEF ThreadStateInv
<1>9. Orderly' /\ KeptInv' /\ QueueInv' /\ MemoryInv'
  BY <1>2, <1>3, <1>4 DEF Orderly, KeptInv, QueueInv, MemoryInv
<1> QED
  BY <1>2, <1>7, <1>8, <1>9 DEF Coh

LEMMA LoadHitCoh ==
  ASSUME IInv, Coh, NEW p \in L1s, NEW r \in Requests, Hit(p, r, l1[p][r[2]])
  PROVE  Coh' /\ failed' = failed
<1>1. l1' = l1
  BY RequestOf DEF Hit, SetLine, IInv, L1Inv, L1Types
<1> QED
  BY <1>1, SilentStep DEF Hit, l2vars, bankvars

LEMMA LoadCoh ==
  ASSUME IInv, Coh, NEW p \in L1s, NEW a \in Addrs, ProcLD(p, a)
  PROVE  Coh' /\ failed' = failed
<1> DEFINE r == <<"LD", a>>
           st == l1[p][a]
<1>1. r \in Requests /\ r[2] = a /\ a \notin ThreadState
  BY RequestPairs DEF ProcLD
<1> HIDE DEF r
<1>2. CASE st \in {"NotPresent", "Invalid"} /\ Miss(p, r, "Read", "InvToShEx")
  BY <1>1, <1>2, MissProcCoh
<1>3. CASE Merge(p, r) \/ \E where \in {"replay", "wait"} : Stall(p, r, where)
  BY <1>3, SilentStep DEF Stall, Merge, l2vars, bankvars
<1>4. CASE Hit(p, r, st)
  BY <1>1, <1>4, LoadHitCoh
<1> QED
  BY <1>2, <1>3, <1>4 DEF ProcLD, r

LEMMA StoreCoh ==
  ASSUME IInv, Coh, NEW p \in L1s, NEW a \in Addrs, ProcST(p, a)
  PROVE  Coh' /\ failed' = failed
<1> DEFINE r == <<"ST", a>>
           st == l1[p][a]
<1>1. r \in Requests /\ r[2] = a /\ a \notin ThreadState
  BY RequestPairs DEF ProcST
<1> HIDE DEF r
<1>2. CASE st \in {"NotPresent", "Invalid"} /\ Miss(p, r, "ReadEx", "InvToMod")
  BY <1>1, <1>2, MissProcCoh
<1>3. CASE Merge(p, r) \/ \E where \in {"replay", "wait"} : Stall(p, r, where)
  BY <1>3, SilentStep DEF Stall, Merge, l2vars, bankvars
<1>4. CASE st = "Shared" /\ Ask(p, r, "Upgrade", "ShToMod", l1[p], <<>>)
  BY <1>1, <1>4, UpgradeAskCoh
<1>5. CASE st \in {"Exclusive", "Modified"} /\ Hit(p, r, "Modified")
  BY <1>1, <1>5, WriteCoh DEF Owned
<1> QED
  BY <1>2, <1>3, <1>4, <1>5 DEF ProcST, r

LEMMA ThreadStateAccessCoh ==
  ASSUME IInv, Coh, NEW p \in L1s, NEW r \in Requests, ProcTST(p, r)
  PROVE  Coh' /\ failed' = failed
<1> DEFINE t == IF r[1] = "LD" THEN "Read" ELSE "ReadEx"
           out == << Down(t, r[2], p) >>
<1>1. r[2] \in ThreadState /\ r[2] \in Addrs /\ t \in {"Read", "ReadEx"} /\ t \in ToL2
  BY CmpInclAssumption DEF ProcTST, ToL2
<1>2. /\ net' = Post(net, out) /\ l1' = l1 /\ UNCHANGED <<l2vars, bankvars>>
      /\ failed' = failed
  BY DEF ProcTST
<1> HIDE DEF t
<1>3. Outgoing(out)
  BY <1>1, DownProper, OutgoingOne
<1>4. \A v \in Range(out) : v.addr = r[2] /\ v.type = t
  <2>1. Range(out) = {Down(t, r[2], p)}
    BY RangeOne
  <2> HIDE DEF out
  <2> QED
    BY <2>1 DEF Down, Msg
<1> HIDE DEF out
<1>5. Clear(out)
  BY <1>1, <1>3, <1>4, StateClear
<1>6. NetInv /\ Orderly /\ KeptInv /\ MemoryInv
  BY CohParts DEF IInv
<1>7. Flows({}, out) /\ (Sendable(out) => Orderly')
  BY <1>2, <1>3, <1>6, PostedFlow
<1>8. /\ l2' = l2 /\ sharers' = sharers /\ l2queue' = l2queue /\ memory' = memory
      /\ replay' = replay /\ waiting' = waiting
  BY <1>2 DEF l2vars, bankvars
<1>9. KeptInv' /\ MemoryInv'
  BY <1>6, <1>8 DEF KeptInv, MemoryInv
<1>10. \A a \in ThreadState :
         /\ l2[a] \in {"NotPresent", "InvToMod", "Modified"} /\ sharers[a] = {}
         /\ \A q \in Range(l2queue[a]) : q.type \in {"Read", "ReadEx"}
  BY StateLines
<1>11. {} \in SUBSET InFlight
  OBVIOUS
<1> QED
  BY <1>1, <1>2, <1>3, <1>4, <1>5, <1>7, <1>8, <1>9, <1>10, <1>11, StateStep

-----------------------------------------------------------------------------
(* The invariant holds.                                                     *)

LEMMA InitCoh == Init => Coh
<1> SUFFICES ASSUME Init PROVE Coh
  OBVIOUS
<1>1. Range(<<>>) = {}
  BY DEF Range
<1>2. /\ \A c \in Links : net[c] = <<>>
      /\ \A b \in Banks : replay[b] = <<>> /\ waiting[b] = <<>>
  BY DEF Init
<1>3. /\ InLists(net, Links) = {} /\ InLists(replay, Banks) = {}
      /\ InLists(waiting, Banks) = {}
  BY <1>1, <1>2, InSomeList
<1>4. InFlight = {}
  BY <1>3, InFlightIs DEF Everywhere
<1>5. Orderly
  BY <1>2, <1>3, ClearNone DEF Orderly, Order, Everywhere, Lone, Apart
<1>6. KeptInv /\ MemoryInv
  BY <1>3 DEF KeptInv, MemoryInv, Init
<1>7. QueueInv
  BY HeldByNone DEF QueueInv, Init
<1>8. ThreadStateInv
  BY <1>1, <1>4, CmpInclAssumption DEF ThreadStateInv, Init
<1>9. ASSUME NEW a \in Addrs \ ThreadState
      PROVE  LineInv(View(a))
  <2> DEFINE x == View(a)
  <2>1. /\ x.lines = [p \in L1s |-> "NotPresent"] /\ x.l2 = "NotPresent" /\ x.dir = {}
        /\ x.held = {} /\ x.msgs = {}
    <3>1. x.lines = [p \in L1s |-> l1[p][a]] /\ x.l2 = l2[a] /\ x.dir = sharers[a]
          /\ x.held = HeldBy(l2queue[a]) /\ x.msgs = Marks(InFlight, a)
      BY DEF View, HeldBy, Marks
    <3>2. Marks(InFlight, a) = {}
      BY <1>4, MarksNone
    <3> QED
      BY <3>1, <3>2, HeldByNone DEF Init
  <2> HIDE DEF x
  <2>2. \A t, p : ~In(x, t, p) /\ ~Waits(x, t, p)
    BY <2>1 DEF In, Waits
  <2>3. \A t, p, q : ~Sent(x, t, p, q)
    BY <2>1 DEF Sent
  <2>4. \A p \in L1s : x.lines[p] = "NotPresent"
    BY <2>1
  <2>5. \A p \in L1s : ~Serving(x, p) /\ ~Asking(x, p) /\ ~Leaves(x, p)
      /\ ~Present(x, p)
                       /\ ~Queuing(x, p) /\ ~Promised(x, p) /\ ~Answering(x, p)
    BY <2>2, <2>3, <2>4 DEF Serving, Asking, Leaves, Present, Queuing, Promised,
        Answering,
       Readable
  <2>6. LineTypes(x)
    BY <2>1 DEF LineTypes, L1State, L2State
  <2>7. \A p \in L1s : CopyInv(x, p)
    BY <2>1, <2>2, <2>3, <2>4, <2>5 DEF CopyInv, TokenInv, OneTokenInv, TrackInv,
        GoneInv,
       AckInv, RecallInv, EntryInv, L1Transient, L1Buffered, Readable
  <2>8. HomeInv(x)
    BY <2>1, <2>2 DEF HomeInv
  <2>9. SharingInv(x)
    BY <2>2, <2>3, <2>4 DEF SharingInv, Owned, Owes
  <2>10. OwningInv(x)
    BY <2>1 DEF OwningInv, Sharing
  <2> QED
    BY <2>6, <2>7, <2>8, <2>9, <2>10 DEF LineInv, x
<1> QED
  BY <1>5, <1>6, <1>7, <1>8, <1>9 DEF Coh

(* Every step keeps the invariant, and the only one that aborts the program *)
(* is a write-back that meets a Shared line being taken back.               *)
LEMMA StepCoh ==
  ASSUME IInv, Coh, [Next]_vars
  PROVE  /\ Coh'
         /\ \/ failed' = failed
            \/ /\ failed' = "L2 WriteBack"
               /\ \E b \in Banks : \E m \in Ready(b) : Recoils(m)
<1>1. ASSUME NEW p \in L1s, NEW a \in Addrs, ProcLD(p, a) \/ ProcST(p, a)
      PROVE  Coh' /\ failed' = failed
  BY <1>1, LoadCoh, StoreCoh
<1>2. ASSUME NEW p \in L1s, NEW r \in Requests, ProcTST(p, r)
      PROVE  Coh' /\ failed' = failed
  BY <1>2, ThreadStateAccessCoh
<1>3. ASSUME NEW p \in L1s, NEW m \in Arriving(p), L1Receive(p, m)
      PROVE  Coh' /\ failed' = failed
  BY <1>3, L1ReceiveCoh
<1>4. ASSUME NEW b \in Banks, NEW m \in Ready(b), L2Process(m)
      PROVE  Coh' /\ (failed' = failed \/ (failed' = "L2 WriteBack" /\ Recoils(m)))
  BY <1>4, L2ProcessCoh
<1>5. ASSUME NEW a \in Addrs, MemoryResponse(a)
      PROVE  Coh' /\ failed' = failed
  BY <1>5, MemoryCoh
<1>6. CASE UNCHANGED vars
  <2>1. /\ UNCHANGED <<l1, l2, sharers, l2queue, memory, replay, waiting, net>>
        /\ failed' = failed
    BY <1>6 DEF vars, l1vars, l2vars, bankvars
  <2> QED
    BY <2>1, SilentStep
<1> QED
  BY <1>1, <1>2, <1>3, <1>4, <1>5, <1>6 DEF Next

LEMMA AlwaysCoh == Spec => [](IInv /\ Coh)
<1>1. IInv /\ Coh /\ [Next]_vars => (IInv /\ Coh)'
  BY StepKeeps, StepCoh
<1>2. Init => IInv /\ Coh
  BY InitIInv, InitCoh
<1> QED
  BY <1>1, <1>2, PTL DEF Spec

(* Whatever the numbers of L1s, banks and lines, at most one of the         *)
(* messages that the L1s and the L2 reject with FAIL is ever met: a         *)
(* write-back of a line that the L2 is taking back from its sharers         *)
(* (ShToInv).                                                               *)
THEOREM OneFailureOnly == Spec => [](failed \in {"no", "L2 WriteBack"})
<1>1. /\ IInv /\ Coh /\ [Next]_vars /\ failed \in {"no", "L2 WriteBack"}
      => (failed \in {"no", "L2 WriteBack"})'
  BY StepCoh
<1>2. Init => failed \in {"no", "L2 WriteBack"}
  BY DEF Init
<1> QED
  BY <1>1, <1>2, AlwaysCoh, PTL DEF Spec
=============================================================================
