------------------------------- MODULE CmpIncl -------------------------------
(***************************************************************************)
(* The cmp_incl coherence protocol: private L1 caches (data or             *)
(* instruction) over one shared, inclusive, banked L2 with a full-map      *)
(* directory, on a crossbar of one FIFO link per (source, destination).    *)
(*                                                                         *)
(* An action is one call of process_message() on one cache, with the       *)
(* trigger() it makes, the messages trigger() sends and the wakeups that    *)
(* follow.  Time is abstracted: any link may deliver next.  An L1 message  *)
(* that stalls stays at the head of its link; an L2 one goes to the wait   *)
(* list or to the replay queue of its bank (CacheBank models one bank with *)
(* its clock; here its request queue is the links into it).                *)
(*                                                                         *)
(* A failed ASSERT or FAIL aborts the program: failed holds its place.     *)
(***************************************************************************)
EXTENDS Integers, Sequences, FiniteSets, Functions, Subseq

CONSTANTS
  NumL1s,          \* L1 caches, with interconnect ids 0 .. NumL1s - 1
  Banks,           \* banks of the L2
  Addrs,           \* line addresses
  ThreadState,     \* addresses of saved thread state, not cached in the L1s
  Sets,            \* cache sets
  L1SetOf, L2SetOf,   \* the set of an address in an L1, in the L2
  BankOf,          \* the L2 bank of an address
  L1Assoc, L2Assoc,            \* ways of a set
  L1Mshrs, L2Mshrs,            \* MSHRs of a cache
  L1Requests, L2Requests,      \* requests one MSHR holds
  L1WriteBacks, L2WriteBacks,  \* write-back buffers of a cache
  L2ReadFwd,       \* the L2 forwards reads of Shared lines to a sharer
  LinkBandwidth,   \* the links have a bandwidth (cmp_interconnect_bw_addr)
  Watched,         \* addresses whose data the history variables follow
  MaxOutstanding   \* bound: requests a processor has in its L1 at a time

L1s == 0 .. NumL1s - 1
Nodes == L1s \union Banks

(* A link of limited bandwidth delays a message by the traffic before it;   *)
(* without the limit every message to the L2 takes the same time, so they   *)
(* arrive in the order they were sent, whoever sent them.                   *)
Links ==
  (Banks \X L1s) \union (L1s \X L1s) \union
    (IF LinkBandwidth THEN L1s \X Banks ELSE {<<b, b>> : b \in Banks})

Requests == {"LD", "ST"} \X Addrs

(* In the place of a victim: a way that holds no line yet.                  *)
Unused == "unused"

ASSUME CmpInclAssumption ==
  /\ NumL1s \in Nat \ {0}
  /\ Banks \intersect L1s = {}
  /\ ThreadState \subseteq Addrs /\ Watched \subseteq Addrs /\ Unused \notin Addrs
  /\ L1SetOf \in [Addrs -> Sets]
  /\ L2SetOf \in [Addrs -> Sets]
  /\ BankOf \in [Addrs -> Banks]
  /\ \A a, b \in Addrs : L2SetOf[a] = L2SetOf[b] => BankOf[a] = BankOf[b]
  /\ {L1Assoc, L2Assoc, L1Mshrs, L2Mshrs, L1Requests, L2Requests,
      L1WriteBacks, L2WriteBacks} \subseteq Nat \ {0}
  /\ {L2ReadFwd, LinkBandwidth} \subseteq BOOLEAN

VARIABLES
  l1,       \* l1[p][a]: state of a in L1 p, its write-back buffer included
  l1mshr,   \* l1mshr[p]: addresses with an MSHR in L1 p
  proc,     \* proc[p][<<op, a>>]: where the processor's request stands
  l2,       \* l2[a]: state of a in the L2, its write-back buffer included
  sharers,  \* sharers[a]: the directory entry of the L2 line
  dirty,    \* dirty[a]: the L2 line differs from main memory
  l2mshr,   \* addresses with an MSHR in the L2
  l2queue,  \* l2queue[a]: requests that the L2's MSHR for a holds
  replay,   \* replay[b]: replay queue of an L2 bank
  waiting,  \* waiting[b]: wait list of an L2 bank
  net,      \* net[<<src, dst>>]: messages on the link from src to dst
  memory,   \* addresses of reads outstanding in main memory
  unsaved,  \* history: addresses stored to since memory was last written
  loaded,   \* history: loaded[p], lines p loaded and no ProcInvalidate took
  failed    \* the ASSERT or FAIL that aborted the program, or "no"

l1vars == <<l1, l1mshr, proc>>
l2vars == <<l2, sharers, dirty, l2mshr, l2queue, memory>>
bankvars == <<replay, waiting>>
history == <<unsaved, loaded>>
vars == <<l1vars, l2vars, bankvars, net, history, failed>>

L1Transient == {"InvToMod", "InvToShEx", "ShToMod"}
L1Buffered == {"ModToInv", "ShToInv"}
L1Replaceable == {"Shared", "Exclusive", "Modified"}
L1State == {"NotPresent", "Invalid"} \union L1Transient \union L1Buffered
             \union L1Replaceable

L2Transient == {"InvToMod", "ShToMod", "ModToSh"}
L2Buffered == {"ModToInv", "ShToInv"}
L2Replaceable == {"Shared", "Modified"}
L2State == {"NotPresent"} \union L2Transient \union L2Buffered
             \union L2Replaceable

(* "idle": none, or still in the L1's request queue; "replay", "wait":      *)
(* stalled in the L1's bank; "mshr": held by an MSHR; "tst": a thread-state *)
(* request that bypassed the L1.                                            *)
RequestState == {"idle", "replay", "wait", "mshr", "tst"}

ToL2 == {"Read", "ReadEx", "Upgrade", "Replace", "WriteBack",
         "WriteBackClean", "InvAck", "FwdAckData"}
ToL1 == {"DataShared", "DataExclusive", "Invalidate", "ReadFwd", "ReadExFwd",
         "UpgradeAck", "ReplaceAck", "WriteBackAck"}

Message == [type : ToL2 \union ToL1, addr : Addrs, src : Nodes, dst : Nodes,
            req : Nodes]
Queued == [type : {"Read", "ReadEx", "Upgrade"}, req : L1s]

-----------------------------------------------------------------------------
(* Messages and links.                                                      *)

(* The requester field matters in forwards only: it says who gets the data. *)
Msg(type, a, src, dst) ==
  [type |-> type, addr |-> a, src |-> src, dst |-> dst, req |-> src]
Fwd(type, a, dst, req) ==
  [type |-> type, addr |-> a, src |-> BankOf[a], dst |-> dst, req |-> req]

Down(type, a, p) == Msg(type, a, p, BankOf[a])
Up(type, a, p) == Msg(type, a, BankOf[a], p)

Link(m) ==
  IF m.dst \in L1s \/ LinkBandwidth THEN <<m.src, m.dst>> ELSE <<m.dst, m.dst>>

(* The links n once the messages of the sequence out are sent. *)
Post(n, out) ==
  [c \in Links |-> n[c] \o Pick(out, {i \in 1 .. Len(out) : Link(out[i]) = c})]

(* The links without m, which is at the head of its own. *)
Consume(m) == [net EXCEPT ![Link(m)] = Tail(@)]

(* The heads of the links into node n. *)
Arriving(n) ==
  {Head(net[c]) : c \in {d \in Links : d[2] = n /\ net[d] # <<>>}}

Fail(where) ==
  /\ failed' = where
  /\ UNCHANGED <<l1vars, l2vars, bankvars, net, history>>

Init ==
  /\ l1 = [p \in L1s |-> [a \in Addrs |-> "NotPresent"]]
  /\ l1mshr = [p \in L1s |-> {}]
  /\ proc = [p \in L1s |-> [r \in Requests |-> "idle"]]
  /\ l2 = [a \in Addrs |-> "NotPresent"]
  /\ sharers = [a \in Addrs |-> {}]
  /\ dirty = [a \in Addrs |-> FALSE]
  /\ l2mshr = {}
  /\ l2queue = [a \in Addrs |-> <<>>]
  /\ replay = [b \in Banks |-> <<>>]
  /\ waiting = [b \in Banks |-> <<>>]
  /\ net = [c \in Links |-> <<>>]
  /\ memory = {}
  /\ unsaved = {}
  /\ loaded = [p \in L1s |-> {}]
  /\ failed = "no"

-----------------------------------------------------------------------------
(* The L1 caches.                                                           *)

SetLine(p, a, state) == l1' = [l1 EXCEPT ![p][a] = state]

L1Ways(p, s) ==
  {a \in Addrs : L1SetOf[a] = s /\ l1[p][a] \notin {"NotPresent"} \union L1Buffered}
L1Buffers(p) == {a \in Addrs : l1[p][a] \in L1Buffered}
Held(p, a) == {r \in Requests : r[2] = a /\ proc[p][r] = "mshr"}

L1MshrsFull(p) == Cardinality(l1mshr[p]) >= L1Mshrs
L1BuffersFull(p) == Cardinality(L1Buffers(p)) >= L1WriteBacks
L1RequestsFull(p, a) == Cardinality(Held(p, a)) >= L1Requests

(* Sets a wakeup reaches when an MSHR or a write-back buffer of p is freed: *)
(* all of them if it was the last one in use, and always the line's own.    *)
L1FreedMshr(p, a) == IF L1MshrsFull(p) THEN Sets ELSE {L1SetOf[a]}
L1FreedBuffer(p, a) == IF L1BuffersFull(p) THEN Sets ELSE {L1SetOf[a]}

(* The processor's requests after p answers those of done and wakes the     *)
(* waiters of the sets woken.                                               *)
Answer(p, done, woken) ==
  proc' = [proc EXCEPT ![p] =
    [r \in Requests |->
       IF r \in done THEN "idle"
       ELSE IF proc[p][r] = "wait" /\ L1SetOf[r[2]] \in woken THEN "replay"
       ELSE proc[p][r]]]

(* What the answers to done add to the history, less the lines that a       *)
(* ProcInvalidate takes back.                                               *)
Remember(p, done, invalidated) ==
  /\ loaded' = [loaded EXCEPT ![p] =
       (@ \union {r[2] : r \in {d \in done : d[1] = "LD" /\ d[2] \in Watched}})
         \ invalidated]
  /\ unsaved' = unsaved \union
       {r[2] : r \in {d \in done : d[1] = "ST" /\ d[2] \in Watched}}

(* The end of a message from the network that p completed: it leaves its    *)
(* link, out is sent, and the sets woken get their waiters back.            *)
Received(p, m, out, done, woken) ==
  /\ net' = Post(Consume(m), out)
  /\ Answer(p, done, woken)
  /\ UNCHANGED <<l2vars, bankvars, failed>>

(* donothing: the message is dropped.                                       *)
Drop1(p, m) ==
  /\ Received(p, m, <<>>, {}, {L1SetOf[m.addr]})
  /\ UNCHANGED <<l1, l1mshr, history>>

(* A request of the processor that stalls, and one that hits.               *)
Stall(p, r, where) ==
  /\ proc' = [proc EXCEPT ![p][r] = where]
  /\ UNCHANGED <<l1, l1mshr, l2vars, bankvars, net, history, failed>>

Hit(p, r, state) ==
  /\ SetLine(p, r[2], state)
  /\ Answer(p, {r}, {})
  /\ Remember(p, {r}, {})
  /\ UNCHANGED <<l1mshr, l2vars, bankvars, net, failed>>

(* A request joins the MSHR of a line that is already on its way.           *)
Merge(p, r) ==
  /\ proc' = [proc EXCEPT ![p][r] = "mshr"]
  /\ UNCHANGED <<l1, l1mshr, l2vars, bankvars, net, history, failed>>

(* A request that needs the L2: MSHR, message down, transient state.        *)
Ask(p, r, type, state, lines, first) ==
  /\ l1' = [l1 EXCEPT ![p] = [lines EXCEPT ![r[2]] = state]]
  /\ l1mshr' = [l1mshr EXCEPT ![p] = @ \union {r[2]}]
  /\ proc' = [proc EXCEPT ![p][r] = "mshr"]
  /\ net' = Post(net, Append(first, Down(type, r[2], p)))
  /\ UNCHANGED <<l2vars, bankvars, history, failed>>

(* insert_new_line(): an unused way or an Invalid line if there is one,     *)
(* else a replaceable line, which moves to a write-back buffer.             *)
L1Victims(p, s) ==
  LET ways == L1Ways(p, s)
      free == {v \in ways : l1[p][v] = "Invalid"}
                \union (IF Cardinality(ways) < L1Assoc THEN {Unused} ELSE {})
  IN  IF free # {} THEN free
      ELSE {v \in ways : l1[p][v] \in L1Replaceable}

(* The lines of p, and the message sent, when v gives up its way.           *)
L1Evict(p, v) ==
  [a \in Addrs |-> IF a # v THEN l1[p][a]
                   ELSE CASE l1[p][a] = "Shared" -> "ShToInv"
                          [] l1[p][a] \in {"Exclusive", "Modified"} -> "ModToInv"
                          [] OTHER -> "NotPresent"]

(* Mutants of L1EvictMsg: a line that was written, or is only shared, leaves *)
(* as a clean exclusive one.                                                *)
L1EvictMsgClean(p, v) ==
  IF v = Unused \/ l1[p][v] = "Invalid" THEN <<>>
  ELSE << Down(IF l1[p][v] = "Shared" THEN "Replace" ELSE "WriteBackClean",
               v, p) >>

L1EvictMsgNoReplace(p, v) ==
  IF v = Unused \/ l1[p][v] = "Invalid" THEN <<>>
  ELSE << Down(IF l1[p][v] = "Modified" THEN "WriteBack" ELSE "WriteBackClean",
               v, p) >>

L1EvictMsg(p, v) ==
  IF v = Unused \/ l1[p][v] = "Invalid" THEN <<>>
  ELSE << Down(CASE l1[p][v] = "Shared" -> "Replace"
                 [] l1[p][v] = "Exclusive" -> "WriteBackClean"
                 [] OTHER -> "WriteBack", v, p) >>

(* A miss: stall for want of a buffer, a way or an MSHR, else ask the L2.   *)
Miss(p, r, type, state) ==
  LET a == r[2]
      absent == l1[p][a] = "NotPresent"
      victims == IF absent THEN L1Victims(p, L1SetOf[a]) ELSE {Unused}
  IN  \/ /\ absent /\ L1BuffersFull(p)
         /\ Stall(p, r, "replay")
      \/ /\ ~(absent /\ L1BuffersFull(p)) /\ victims = {}
         /\ Stall(p, r, "wait")
      \/ /\ ~(absent /\ L1BuffersFull(p)) /\ victims # {} /\ L1MshrsFull(p)
         /\ Stall(p, r, "replay")
      \/ /\ ~(absent /\ L1BuffersFull(p)) /\ ~L1MshrsFull(p)
         /\ \E v \in victims :
              Ask(p, r, type, state, L1Evict(p, v), L1EvictMsg(p, v))

(* A bank of the L1 serves request r: one on its replay queue, or a new one *)
(* when that queue is empty (requests of one set share a bank).             *)
Served(p, r) ==
  /\ failed = "no"
  /\ \/ proc[p][r] = "replay"
     \/ /\ proc[p][r] = "idle"
        /\ Cardinality({q \in Requests : proc[p][q] # "idle"}) < MaxOutstanding
        /\ \A q \in Requests :
             L1SetOf[q[2]] = L1SetOf[r[2]] => proc[p][q] # "replay"

ProcLD(p, a) ==
  LET r == <<"LD", a>>  st == l1[p][a] IN
  /\ a \notin ThreadState
  /\ Served(p, r)
  /\ \/ /\ st \in {"NotPresent", "Invalid"}
        /\ Miss(p, r, "Read", "InvToShEx")
     \/ /\ st \in {"InvToMod", "InvToShEx"}
        /\ IF L1RequestsFull(p, a) THEN Stall(p, r, "replay") ELSE Merge(p, r)
     \/ /\ st \in {"Shared", "Exclusive", "Modified", "ShToMod"}
        /\ Hit(p, r, st)
     \/ /\ st \in L1Buffered
        /\ Stall(p, r, "wait")

ProcST(p, a) ==
  LET r == <<"ST", a>>  st == l1[p][a] IN
  /\ a \notin ThreadState
  /\ Served(p, r)
  /\ \/ /\ st \in {"NotPresent", "Invalid"}
        /\ Miss(p, r, "ReadEx", "InvToMod")
     \/ /\ st = "InvToMod"
        /\ IF L1RequestsFull(p, a) THEN Stall(p, r, "replay") ELSE Merge(p, r)
     \/ /\ st = "Shared"
        /\ IF L1MshrsFull(p) THEN Stall(p, r, "replay")
           ELSE Ask(p, r, "Upgrade", "ShToMod", l1[p], <<>>)
     \/ /\ st = "ShToMod"
        /\ IF L1RequestsFull(p, a) THEN Stall(p, r, "wait") ELSE Merge(p, r)
     \/ /\ st \in {"Exclusive", "Modified"}
        /\ Hit(p, r, "Modified")
     \/ /\ st \in {"InvToShEx"} \union L1Buffered
        /\ Stall(p, r, "wait")

(* A thread-state access bypasses the lines and the MSHRs.                  *)
ProcTST(p, r) ==
  /\ r[2] \in ThreadState
  /\ Served(p, r)
  /\ proc' = [proc EXCEPT ![p][r] = "tst"]
  /\ net' = Post(net, << Down(IF r[1] = "LD" THEN "Read" ELSE "ReadEx",
                              r[2], p) >>)
  /\ UNCHANGED <<l1, l1mshr, l2vars, bankvars, history, failed>>

L1TSTResp(p, m) ==
  /\ m.type \in {"DataShared", "DataExclusive"} /\ m.addr \in ThreadState
  /\ \E r \in {q \in Requests : q[2] = m.addr /\ proc[p][q] = "tst"} :
       Received(p, m, <<>>, {r}, {L1SetOf[m.addr]})
  /\ UNCHANGED <<l1, l1mshr, history>>

(* The answer to p's miss or upgrade: every request of the MSHR completes.  *)
Fill(p, m, state) ==
  LET a == m.addr IN
  /\ SetLine(p, a, state)
  /\ l1mshr' = [l1mshr EXCEPT ![p] = @ \ {a}]
  /\ Received(p, m, <<>>, Held(p, a), L1FreedMshr(p, a))
  /\ Remember(p, Held(p, a), {})

L1DataShared(p, m) ==
  LET st == l1[p][m.addr] IN
  /\ m.type = "DataShared" /\ m.addr \notin ThreadState
  /\ \/ st = "InvToShEx" /\ Fill(p, m, "Shared")
     \/ st = "Modified" /\ Drop1(p, m)
     \/ st \notin {"InvToShEx", "Modified"} /\ Fail("L1 DataShared")

L1DataExclusive(p, m) ==
  LET st == l1[p][m.addr] IN
  /\ m.type = "DataExclusive" /\ m.addr \notin ThreadState
  /\ \/ st = "InvToShEx" /\ Fill(p, m, "Exclusive")
     \/ st = "InvToMod" /\ Fill(p, m, "Modified")
     \/ st = "Modified" /\ Drop1(p, m)
     \/ st \notin {"InvToShEx", "InvToMod", "Modified"}
          /\ Fail("L1 DataExclusive")

L1UpgradeAck(p, m) ==
  LET st == l1[p][m.addr] IN
  /\ m.type = "UpgradeAck"
  /\ \/ st = "ShToMod" /\ Fill(p, m, "Modified")
     \/ st = "Modified" /\ Drop1(p, m)
     \/ st \notin {"ShToMod", "Modified"} /\ Fail("L1 UpgradeAck")

(* A write-back buffer is freed by an acknowledgement, or by an Invalidate that *)
(* crossed the write-back.                                                  *)
Release(p, m) ==
  LET a == m.addr IN
  /\ SetLine(p, a, "NotPresent")
  /\ Received(p, m, <<>>, {}, L1FreedBuffer(p, a))
  /\ Remember(p, {}, {a})
  /\ UNCHANGED l1mshr

(* The L2 takes the line back.  A line on its way in (InvToMod, InvToShEx)  *)
(* leaves the message at the head of its link until the data has come.      *)
L1Invalidate(p, m) ==
  LET a == m.addr  st == l1[p][a] IN
  /\ m.type = "Invalidate"
  /\ \/ st = "NotPresent" /\ Drop1(p, m)
     \/ /\ st = "Shared"
        /\ SetLine(p, a, "Invalid")
        /\ Received(p, m, << Down("InvAck", a, p) >>, {}, {L1SetOf[a]})
        /\ Remember(p, {}, {a})
        /\ UNCHANGED l1mshr
     \/ /\ st \in {"Exclusive", "Modified"}
        /\ SetLine(p, a, "Invalid")
        /\ Received(p, m,
             << Down(IF st = "Modified" THEN "WriteBack" ELSE "WriteBackClean",
                     a, p) >>, {}, {L1SetOf[a]})
        /\ Remember(p, {}, {a})
        /\ UNCHANGED l1mshr
     \/ /\ st = "ShToMod"
        /\ SetLine(p, a, "InvToMod")
        /\ Received(p, m, << Down("InvAck", a, p), Down("ReadEx", a, p) >>,
                    {}, {L1SetOf[a]})
        /\ UNCHANGED <<l1mshr, history>>
     \/ st \in L1Buffered /\ Release(p, m)
     \/ st = "Invalid" /\ Fail("L1 Invalidate")

(* The L2 asks for a copy on behalf of m.req.                               *)
L1ReadFwd(p, m) ==
  LET a == m.addr  st == l1[p][a]
      data == Msg("DataShared", a, p, m.req)
      ack  == Down("FwdAckData", a, p) IN
  /\ m.type = "ReadFwd"
  /\ \/ /\ st \in {"Shared", "ShToMod", "ShToInv"}
        /\ Received(p, m, << data >>, {}, {L1SetOf[a]})
        /\ UNCHANGED <<l1, l1mshr, history>>
     \/ /\ st \in {"Exclusive", "Modified", "ModToInv"}
        /\ SetLine(p, a, IF st = "ModToInv" THEN st ELSE "Shared")
        /\ Received(p, m, << data, ack >>, {}, {L1SetOf[a]})
        /\ UNCHANGED <<l1mshr, history>>
     \/ st \in {"NotPresent", "Invalid"} /\ Fail("L1 ReadFwd")

(* The L2 hands the line over to m.req.                                     *)
L1ReadExFwd(p, m) ==
  LET a == m.addr  st == l1[p][a] IN
  /\ m.type = "ReadExFwd"
  /\ \/ /\ st \in {"Exclusive", "Modified", "ModToInv"}
        /\ SetLine(p, a, IF st = "ModToInv" THEN st ELSE "Invalid")
        /\ Received(p, m, << Msg("DataExclusive", a, p, m.req) >>, {}, {L1SetOf[a]})
        /\ UNCHANGED <<l1mshr, history>>
     \/ st \in {"NotPresent", "Invalid", "Shared", "ShToMod", "ShToInv"}
          /\ Fail("L1 ReadExFwd")

L1WriteBackAck(p, m) ==
  LET st == l1[p][m.addr] IN
  /\ m.type = "WriteBackAck"
  /\ \/ st = "ModToInv" /\ Release(p, m)
     \/ /\ st \in {"NotPresent", "Invalid", "InvToMod", "InvToShEx", "Shared",
                   "Modified"}
        /\ Drop1(p, m)
     \/ st \in {"Exclusive", "ShToMod", "ShToInv"} /\ Fail("L1 WriteBackAck")

L1ReplaceAck(p, m) ==
  LET st == l1[p][m.addr] IN
  /\ m.type = "ReplaceAck"
  /\ \/ st = "ShToInv" /\ Release(p, m)
     \/ st = "Modified" /\ Drop1(p, m)
     \/ st \notin {"ShToInv", "Modified"} /\ Fail("L1 ReplaceAck")

-----------------------------------------------------------------------------
(* The L2.                                                                  *)

L2Ways(s) == {a \in Addrs : L2SetOf[a] = s /\ l2[a] \notin {"NotPresent"} \union L2Buffered}
L2Buffers == {a \in Addrs : l2[a] \in L2Buffered}

L2MshrsFull == Cardinality(l2mshr) >= L2Mshrs
L2BuffersFull == Cardinality(L2Buffers) >= L2WriteBacks

L2FreedMshr(a) == IF L2MshrsFull THEN Sets ELSE {L2SetOf[a]}
L2FreedBuffer(a) == IF L2BuffersFull THEN Sets ELSE {L2SetOf[a]}

(* The messages bank b may serve: the head of its replay queue, or with an  *)
(* empty replay queue one that is next on a link into the bank.             *)
Ready(b) == IF replay[b] # <<>> THEN {Head(replay[b])} ELSE Arriving(b)

(* The links and the replay queues once the bank has taken m.               *)
Taken(m) == IF replay[m.dst] = <<>> THEN Consume(m) ELSE net
Rest(m) ==
  [replay EXCEPT ![m.dst] = IF @ = <<>> THEN <<>> ELSE Tail(@)]

(* Mutant of Woken: wakeups are lost.                                       *)
WokenNone(b, sets) == {}

(* Every bank moves the waiters of the sets woken to the replay queues rp.  *)
Woken(b, sets) ==
  {i \in 1 .. Len(waiting[b]) : L2SetOf[waiting[b][i].addr] \in sets}

Wake(rp, sets) ==
  /\ replay' = [b \in Banks |-> rp[b] \o Pick(waiting[b], Woken(b, sets))]
  /\ waiting' = [b \in Banks |-> Drop(waiting[b], Woken(b, sets))]

(* The L2 completes m, sends out and wakes the sets woken.                  *)
Done(m, out, woken) ==
  /\ net' = Post(Taken(m), out)
  /\ Wake(Rest(m), woken)
  /\ UNCHANGED <<l1vars, loaded, failed>>

(* Mutant of Poll: the message that should be served again is forgotten.    *)
PollDropped(m) ==
  /\ net' = Taken(m)
  /\ replay' = Rest(m)
  /\ UNCHANGED <<l1vars, l2vars, waiting, history, failed>>

(* StallPoll and StallSetEvent.                                             *)
Poll(m) ==
  /\ net' = Taken(m)
  /\ replay' = [replay EXCEPT ![m.dst] = Append(Rest(m)[m.dst], m)]
  /\ UNCHANGED <<l1vars, l2vars, waiting, history, failed>>

Block(m) ==
  /\ net' = Taken(m)
  /\ replay' = Rest(m)
  /\ waiting' = [waiting EXCEPT ![m.dst] = Append(@, m)]
  /\ UNCHANGED <<l1vars, l2vars, history, failed>>

(* The new state, directory entry and dirty bit of the line of a.           *)
Line(a, state, sh, d) ==
  /\ l2' = [l2 EXCEPT ![a] = state]
  /\ sharers' = [sharers EXCEPT ![a] = sh]
  /\ dirty' = [dirty EXCEPT ![a] = d]

NoMshr == UNCHANGED <<l2mshr, l2queue, memory>>

AllocateMshr(a, queue) ==
  /\ l2mshr' = l2mshr \union {a}
  /\ l2queue' = [l2queue EXCEPT ![a] = queue]

(* Mutant of FreeMshr: the requests are popped, the MSHR stays allocated.   *)
FreeMshrLeak(a) ==
  /\ l2mshr' = l2mshr
  /\ l2queue' = [l2queue EXCEPT ![a] = <<>>]

FreeMshr(a) ==
  /\ l2mshr' = l2mshr \ {a}
  /\ l2queue' = [l2queue EXCEPT ![a] = <<>>]

(* Mutant of Request: the answer will go to the message's destination.      *)
RequestDst(m) == [type |-> m.type, req |-> m.dst]

Request(m) == [type |-> m.type, req |-> m.src]

(* Mutant of Multicast: the loop over the L1s starts at 1.                  *)
MulticastFromOne(type, a, S) ==
  Pick([i \in 1 .. NumL1s |-> Up(type, a, i - 1)],
       {i \in 2 .. NumL1s : i - 1 \in S})

(* One message of a type to each L1 of S, in id order.                      *)
Multicast(type, a, S) ==
  Pick([i \in 1 .. NumL1s |-> Up(type, a, i - 1)],
       {i \in 1 .. NumL1s : i - 1 \in S})

(* send_request_forward() picks the sharer with the lowest id.              *)
FirstSharer(a) == CHOOSE p \in sharers[a] : \A q \in sharers[a] : p <= q

(* perform_mshr_requests(): the answer to each request of the MSHR, by the  *)
(* state the line has before the message is processed.                      *)
Response(a, q) ==
  Up(CASE q.type = "Upgrade" /\ l2[a] = "ShToMod" -> "UpgradeAck"
       [] q.type = "Read" /\ l2[a] = "ModToSh" -> "DataShared"
       [] OTHER -> "DataExclusive", a, q.req)

Responses(a) == [i \in 1 .. Len(l2queue[a]) |-> Response(a, l2queue[a][i])]

(* insert_new_line(): the ways that may give way to an address of set s.    *)
L2Victims(s) ==
  LET ways == L2Ways(s) IN
  IF Cardinality(ways) < L2Assoc THEN {Unused}
  ELSE {v \in ways \ ThreadState : l2[v] \in L2Replaceable}

(* Mutant of L2Evicted: no write-back buffer, whoever has a copy.           *)
L2EvictedAtOnce(v) == "NotPresent"

(* Where the line of v goes: to a write-back buffer if the L1s have copies. *)
L2Evicted(v) ==
  IF sharers[v] = {} THEN "NotPresent"
  ELSE IF l2[v] = "Shared" THEN "ShToInv" ELSE "ModToInv"

(* Main memory gets the data of v when a Modified line without sharers goes.*)
SavedByEviction(v) ==
  IF v # Unused /\ l2[v] = "Modified" /\ sharers[v] = {} /\ dirty[v]
  THEN {v} ELSE {}

Insert(m, v, sh) ==
  LET a == m.addr IN
  /\ l2' = [x \in Addrs |-> CASE x = a -> "InvToMod"
                              [] x = v -> L2Evicted(v)
                              [] OTHER -> l2[x]]
  /\ sharers' = [sharers EXCEPT ![a] = sh]
  /\ dirty' = [x \in Addrs |->
                 dirty[x] /\ x # a /\ ~(x = v /\ sharers[x] = {})]
  /\ unsaved' = unsaved \ SavedByEviction(v)
  /\ AllocateMshr(a, << Request(m) >>)
  /\ memory' = memory \union {a}
  /\ Done(m, IF v = Unused THEN <<>> ELSE Multicast("Invalidate", v, sharers[v]),
          {L2SetOf[a]})

(* Mutant of L2Miss: the requester is not entered in the directory.         *)
L2MissUnmarked(m, sh) ==
  LET victims == L2Victims(L2SetOf[m.addr]) IN
  \/ /\ L2BuffersFull \/ L2MshrsFull
     /\ Poll(m)
  \/ /\ ~L2BuffersFull /\ ~L2MshrsFull /\ victims = {}
     /\ Block(m)
  \/ /\ ~L2BuffersFull /\ ~L2MshrsFull
     /\ \E v \in victims : Insert(m, v, {})

L2Miss(m, sh) ==
  LET victims == L2Victims(L2SetOf[m.addr]) IN
  \/ /\ L2BuffersFull \/ L2MshrsFull
     /\ Poll(m)
  \/ /\ ~L2BuffersFull /\ ~L2MshrsFull /\ victims = {}
     /\ Block(m)
  \/ /\ ~L2BuffersFull /\ ~L2MshrsFull
     /\ \E v \in victims : Insert(m, v, sh)

(* Mutants of Collect: the answer does not wait for the acknowledgements;   *)
(* the requester itself is invalidated too.                                 *)
CollectEager(m, sh) ==
  LET a == m.addr IN
  /\ Line(a, "Modified", {m.src}, dirty[a])
  /\ Done(m, Append(Multicast("Invalidate", a, sharers[a] \ {m.src}),
                    Up(IF m.type = "Upgrade" THEN "UpgradeAck"
                       ELSE "DataExclusive", a, m.src)), {L2SetOf[a]})
  /\ NoMshr /\ UNCHANGED unsaved

CollectAll(m, sh) ==
  LET a == m.addr IN
  IF L2MshrsFull THEN Poll(m)
  ELSE /\ Line(a, "ShToMod", sh, dirty[a])
       /\ AllocateMshr(a, << Request(m) >>)
       /\ Done(m, Multicast("Invalidate", a, sharers[a]), {L2SetOf[a]})
       /\ UNCHANGED <<memory, unsaved>>

(* The line waits for the acknowledgements of the other sharers.            *)
Collect(m, sh) ==
  LET a == m.addr IN
  IF L2MshrsFull THEN Poll(m)
  ELSE /\ Line(a, "ShToMod", sh, dirty[a])
       /\ AllocateMshr(a, << Request(m) >>)
       /\ Done(m, Multicast("Invalidate", a, sharers[a] \ {m.src}), {L2SetOf[a]})
       /\ UNCHANGED <<memory, unsaved>>

(* The L2 answers m at once and changes its line only.                      *)
Reply(m, out, state, sh) ==
  /\ Line(m.addr, state, sh, dirty[m.addr])
  /\ Done(m, out, {L2SetOf[m.addr]})
  /\ NoMshr /\ UNCHANGED unsaved

L2Read(m) ==
  LET a == m.addr  p == m.src  st == l2[a] IN
  /\ m.type = "Read" /\ a \notin ThreadState
  /\ \/ st = "NotPresent" /\ L2Miss(m, {p})
     \/ /\ st = "Shared"
        /\ Reply(m, IF L2ReadFwd /\ sharers[a] # {}
                    THEN << Fwd("ReadFwd", a, FirstSharer(a), p) >>
                    ELSE << Up("DataShared", a, p) >>,
                 "Shared", sharers[a] \union {p})
     \/ /\ st = "Modified" /\ L2MshrsFull
        /\ Poll(m)
     \/ /\ st = "Modified" /\ ~L2MshrsFull /\ sharers[a] # {}
        /\ Line(a, "ModToSh", sharers[a] \union {p}, dirty[a])
        /\ AllocateMshr(a, <<>>)
        /\ Done(m, << Fwd("ReadFwd", a, FirstSharer(a), p) >>, {L2SetOf[a]})
        /\ UNCHANGED <<memory, unsaved>>
     \/ /\ st = "Modified" /\ ~L2MshrsFull /\ sharers[a] = {}
        /\ Fail("L2 Read")
     \/ /\ st = "ModToSh"
        /\ IF Len(l2queue[a]) >= L2Requests THEN Poll(m)
           ELSE /\ Line(a, st, sharers[a] \union {p}, dirty[a])
                /\ AllocateMshr(a, Append(l2queue[a], Request(m)))
                /\ Done(m, <<>>, {L2SetOf[a]})
                /\ UNCHANGED <<memory, unsaved>>
     \/ st \in {"InvToMod", "ShToMod"} \union L2Buffered /\ Block(m)

(* A Modified line is handed from its owner to the requester.               *)
HandOver(m) ==
  LET a == m.addr IN
  IF sharers[a] = {} THEN Fail("L2 ReadExFwd")
  ELSE Reply(m, << Fwd("ReadExFwd", a, FirstSharer(a), m.src) >>, "Modified",
             (sharers[a] \ {FirstSharer(a)}) \union {m.src})

L2ReadEx(m) ==
  LET a == m.addr  p == m.src  st == l2[a] IN
  /\ m.type = "ReadEx" /\ a \notin ThreadState
  /\ \/ st = "NotPresent" /\ L2Miss(m, {p})
     \/ /\ st = "Shared" /\ sharers[a] = {}
        /\ Reply(m, << Up("DataExclusive", a, p) >>, "Modified", {p})
     \/ /\ st = "Shared" /\ sharers[a] # {}
        /\ Collect(m, sharers[a] \union {p})
     \/ st = "Modified" /\ HandOver(m)
     \/ st \in L2Transient \union L2Buffered /\ Block(m)

(* An Upgrade that finds the line being invalidated is dropped: the L1 will *)
(* see the Invalidate and ask again.                                        *)
L2Upgrade(m) ==
  LET a == m.addr  p == m.src  st == l2[a] IN
  /\ m.type = "Upgrade"
  /\ \/ st = "NotPresent" /\ L2Miss(m, {p})
     \/ /\ st = "Shared" /\ sharers[a] = {p}
        /\ Reply(m, << Up("UpgradeAck", a, p) >>, "Modified", {p})
     \/ /\ st = "Shared" /\ p \in sharers[a] /\ sharers[a] # {p}
        /\ Collect(m, sharers[a])
     \/ st = "Shared" /\ p \notin sharers[a] /\ Fail("L2 Upgrade")
     \/ /\ st \in {"ShToInv", "ShToMod"}
        /\ Reply(m, <<>>, st, sharers[a])
     \/ st = "Modified" /\ HandOver(m)
     \/ st = "ModToSh" /\ Block(m)
     \/ st \in {"InvToMod", "ModToInv"} /\ Fail("L2 Upgrade")

L2TST(m) ==
  LET a == m.addr  st == l2[a] IN
  /\ m.type \in {"Read", "ReadEx"} /\ a \in ThreadState
  /\ \/ st = "NotPresent" /\ L2Miss(m, {})
     \/ st \in {"InvToMod", "ModToInv"} /\ Block(m)
     \/ /\ st = "Modified"
        /\ Reply(m, << Up("DataExclusive", a, m.src) >>, st, sharers[a])
     \/ st \in {"Shared", "ShToInv", "ShToMod", "ModToSh"} /\ Fail("L2 TST")

(* Main memory's answer does not go through the bank.                       *)
MemoryResponse(a) ==
  /\ failed = "no"
  /\ a \in memory
  /\ memory' = memory \ {a}
  /\ IF l2[a] = "InvToMod"
     THEN /\ Line(a, "Modified", sharers[a], dirty[a])
          /\ FreeMshr(a)
          /\ net' = Post(net, Responses(a))
          /\ Wake(replay, L2FreedMshr(a))
          /\ UNCHANGED <<l1vars, history, failed>>
     ELSE /\ failed' = "L2 DataResponse"
          /\ UNCHANGED <<l1vars, l2, sharers, dirty, l2mshr, l2queue, bankvars,
                         net, history>>

(* The source of m has given its copy up.                                   *)
SharerGone(m) ==
  LET a == m.addr  left == sharers[a] \ {m.src} IN
  \/ /\ l2[a] = "ShToInv"
     /\ IF left = {} THEN Line(a, "NotPresent", {}, FALSE)
                     ELSE Line(a, "ShToInv", left, dirty[a])
     /\ Done(m, <<>>, IF left = {} THEN L2FreedBuffer(a) ELSE {L2SetOf[a]})
     /\ NoMshr /\ UNCHANGED unsaved
  \/ /\ l2[a] = "ShToMod" /\ Cardinality(left) > 1
     /\ Reply(m, <<>>, "ShToMod", left)
  \/ /\ l2[a] = "ShToMod" /\ Cardinality(left) = 1
     /\ Line(a, "Modified", left, dirty[a])
     /\ FreeMshr(a)
     /\ Done(m, Responses(a), L2FreedMshr(a))
     /\ UNCHANGED <<memory, unsaved>>
  \/ /\ l2[a] = "ShToMod" /\ left = {}
     /\ Fail("L2 is_only_one_sharer")

L2Replace(m) ==
  LET a == m.addr  st == l2[a] IN
  /\ m.type = "Replace"
  /\ \/ /\ st \in {"Shared", "ModToSh"}
        /\ Reply(m, << Up("ReplaceAck", a, m.src) >>, st, sharers[a] \ {m.src})
     \/ SharerGone(m)
     \/ st \in {"NotPresent", "InvToMod", "Modified", "ModToInv"}
          /\ Fail("L2 Replace")

L2InvAck(m) ==
  LET a == m.addr  st == l2[a] IN
  /\ m.type = "InvAck"
  /\ \/ SharerGone(m)
     \/ /\ st = "ModToInv" /\ sharers[a] = {}
        /\ Line(a, "NotPresent", {}, FALSE)
        /\ unsaved' = IF dirty[a] THEN unsaved \ {a} ELSE unsaved
        /\ Done(m, <<>>, L2FreedBuffer(a))
        /\ NoMshr
     \/ st = "ModToInv" /\ sharers[a] # {} /\ Fail("L2 writeback_if_dirty")
     \/ st \notin {"ShToInv", "ShToMod", "ModToInv"} /\ Fail("L2 InvAck")

(* WriteBack and WriteBackClean.  A write-back that crossed a forward finds *)
(* its source no longer in the directory: its data is dropped.              *)
L2WriteBack(m) ==
  LET a == m.addr  p == m.src  st == l2[a]
      left == sharers[a] \ {p}
      d    == dirty[a] \/ m.type = "WriteBack"
      ack  == << Up("WriteBackAck", a, p) >>
  IN
  /\ m.type \in {"WriteBack", "WriteBackClean"}
  /\ \/ /\ st \in {"NotPresent", "InvToMod", "Shared", "ShToMod", "ModToInv"}
        /\ p \notin sharers[a]
        /\ Reply(m, ack, st, sharers[a])
     \/ /\ st \in {"InvToMod", "Shared", "ShToMod"} /\ p \in sharers[a]
        /\ Fail("L2 requester_is_sharer")
     \/ /\ st \in {"Modified", "ModToSh"}
        /\ Line(a, IF st = "Modified" /\ left = {} THEN "Shared" ELSE st, left, d)
        /\ Done(m, ack, {L2SetOf[a]})
        /\ NoMshr /\ UNCHANGED unsaved
     \/ /\ st = "ModToInv" /\ p \in sharers[a] /\ left = {}
        /\ Line(a, "NotPresent", {}, FALSE)
        /\ unsaved' = IF d THEN unsaved \ {a} ELSE unsaved
        /\ Done(m, <<>>, L2FreedBuffer(a))
        /\ NoMshr
     \/ /\ st = "ModToInv" /\ p \in sharers[a] /\ left # {}
        /\ Fail("L2 writeback_if_dirty")
     \/ st = "ShToInv" /\ Fail("L2 WriteBack")

(* The owner has given its data to the first reader; the L2 serves the rest.*)
L2FwdAckData(m) ==
  LET a == m.addr IN
  /\ m.type = "FwdAckData"
  /\ IF l2[a] = "ModToSh"
     THEN /\ Line(a, "Shared", sharers[a], TRUE)
          /\ FreeMshr(a)
          /\ Done(m, Responses(a), L2FreedMshr(a))
          /\ UNCHANGED <<memory, unsaved>>
     ELSE Fail("L2 FwdAckData")

-----------------------------------------------------------------------------
ProcRequest(p, r) ==
  \/ r[1] = "LD" /\ ProcLD(p, r[2])
  \/ r[1] = "ST" /\ ProcST(p, r[2])
  \/ ProcTST(p, r)

L1Receive(p, m) ==
  \/ L1DataShared(p, m) \/ L1DataExclusive(p, m) \/ L1UpgradeAck(p, m)
  \/ L1Invalidate(p, m) \/ L1ReadFwd(p, m) \/ L1ReadExFwd(p, m)
  \/ L1WriteBackAck(p, m) \/ L1ReplaceAck(p, m) \/ L1TSTResp(p, m)

L2Process(m) ==
  \/ L2Read(m) \/ L2ReadEx(m) \/ L2Upgrade(m) \/ L2TST(m)
  \/ L2Replace(m) \/ L2InvAck(m) \/ L2WriteBack(m) \/ L2FwdAckData(m)

Next ==
  \/ \E p \in L1s, a \in Addrs : ProcLD(p, a) \/ ProcST(p, a)
  \/ \E p \in L1s, r \in Requests : ProcTST(p, r)
  \/ \E p \in L1s : failed = "no" /\ \E m \in Arriving(p) : L1Receive(p, m)
  \/ \E b \in Banks : failed = "no" /\ \E m \in Ready(b) : L2Process(m)
  \/ \E a \in Addrs : MemoryResponse(a)

Spec == Init /\ [][Next]_vars

(***************************************************************************)
(* Fairness.  Every link delivers and offers a stalled message again every *)
(* delta_cycles; a bank with work is scheduled, and its request queue is a *)
(* FIFO, so a link whose messages it could take again and again is not     *)
(* passed over for ever; main memory answers; a bank of an L1 serves its   *)
(* replay queue before new requests.  Nothing makes a processor issue a    *)
(* new request.                                                            *)
(***************************************************************************)
Deliver(p, c) ==
  /\ failed = "no" /\ net[c] # <<>>
  /\ L1Receive(p, Head(net[c]))

Serve(b) == failed = "no" /\ \E m \in Ready(b) : L2Process(m)

TakeFrom(b, c) ==
  /\ failed = "no" /\ replay[b] = <<>> /\ net[c] # <<>>
  /\ L2Process(Head(net[c]))

Retry(p, r) == proc[p][r] = "replay" /\ ProcRequest(p, r)

FairSpec ==
  /\ Spec
  /\ \A p \in L1s : \A c \in {d \in Links : d[2] = p} : WF_vars(Deliver(p, c))
  /\ \A b \in Banks : WF_vars(Serve(b))
  /\ \A b \in Banks : \A c \in {d \in Links : d[2] = b} : SF_vars(TakeFrom(b, c))
  /\ \A a \in Addrs : WF_vars(MemoryResponse(a))
  /\ \A p \in L1s : \A r \in Requests : WF_vars(Retry(p, r))

-----------------------------------------------------------------------------
TypeOK ==
  /\ l1 \in [L1s -> [Addrs -> L1State]]
  /\ l1mshr \in [L1s -> SUBSET Addrs]
  /\ proc \in [L1s -> [Requests -> RequestState]]
  /\ l2 \in [Addrs -> L2State]
  /\ sharers \in [Addrs -> SUBSET L1s]
  /\ dirty \in [Addrs -> BOOLEAN]
  /\ l2mshr \in SUBSET Addrs
  /\ l2queue \in [Addrs -> Seq(Queued)]
  /\ replay \in [Banks -> Seq(Message)]
  /\ waiting \in [Banks -> Seq(Message)]
  /\ net \in [Links -> Seq(Message)]
  /\ memory \in SUBSET Addrs
  /\ unsaved \in SUBSET Addrs
  /\ loaded \in [L1s -> SUBSET Addrs]

(* No message meets a state that its handler rejects, no ASSERT of a       *)
(* handler fails: the protocol has no hole, whatever crosses whatever.     *)
NoProtocolError == failed = "no"

Readable == {"Shared", "Exclusive", "Modified", "ShToMod"}

(* Single writer or many readers.                                          *)
SingleWriter ==
  \A a \in Addrs, p, q \in L1s :
    p # q /\ l1[p][a] \in {"Exclusive", "Modified"} => l1[q][a] \notin Readable

(* The rights that the L1 states give, and the processors' open requests:   *)
(* every step of the protocol is a step of Coherence.  A load is answered   *)
(* only from a copy that no one can write, a store only by the sole owner,  *)
(* at the very step of the answer.                                          *)
Right(state) ==
  CASE state \in {"Exclusive", "Modified"} -> "write"
    [] state \in {"Shared", "ShToMod"} -> "read"
    [] OTHER -> "none"

Abstract ==
  INSTANCE Coherence WITH
    Caches <- L1s,
    Uncached <- ThreadState,
    right <- [p \in L1s |-> [a \in Addrs |-> Right(l1[p][a])]],
    pending <- [p \in L1s |-> {r \in Requests : proc[p][r] # "idle"}]

Coherent == Abstract!Spec

InFlight ==
  UNION ({Range(net[c]) : c \in Links} \union {Range(replay[b]) : b \in Banks}
         \union {Range(waiting[b]) : b \in Banks})

(* Inclusion: the directory knows every L1 that can read a line, or has    *)
(* already sent for the copy.                                              *)
Inclusion ==
  \A p \in L1s, a \in Addrs :
    l1[p][a] \in Readable =>
      \/ p \in sharers[a]
      \/ \E m \in InFlight : m.addr = a /\ m.dst = p
                             /\ m.type \in {"ReadExFwd", "Invalidate"}

(* An MSHR is allocated exactly for the lines in transit, and holds        *)
(* requests exactly then.                                                  *)
MshrMatches ==
  /\ \A p \in L1s :
       /\ l1mshr[p] = {a \in Addrs : l1[p][a] \in L1Transient}
       /\ l1mshr[p] = {a \in Addrs : Held(p, a) # {}}
  /\ l2mshr = {a \in Addrs : l2[a] \in L2Transient}
  /\ \A a \in Addrs \ l2mshr : l2queue[a] = <<>>

(* No request is lost: while a line of an L1 is in transit, its request or *)
(* the answer is somewhere, or an Invalidate that will make it ask again.  *)
RequestTracked ==
  \A p \in L1s, a \in Addrs :
    l1[p][a] \in L1Transient =>
      \/ \E m \in InFlight : m.addr = a /\
           \/ m.src = p /\ m.type \in {"Read", "ReadEx", "Upgrade"}
           \/ m.req = p /\ m.type \in {"ReadFwd", "ReadExFwd"}
           \/ m.dst = p /\ m.type \in {"DataShared", "DataExclusive", "UpgradeAck"}
           \/ m.dst = p /\ m.type = "Invalidate" /\ l1[p][a] = "ShToMod"
      \/ \E i \in 1 .. Len(l2queue[a]) : l2queue[a][i].req = p

(* No write-back buffer leaks: the line in it is known to the L2 or the    *)
(* message that frees it is on its way.                                    *)
WriteBackAnswered ==
  \A p \in L1s, a \in Addrs :
    l1[p][a] \in L1Buffered =>
      \E m \in InFlight : m.addr = a /\
        \/ m.src = p /\ m.type \in {"Replace", "WriteBack", "WriteBackClean"}
        \/ m.dst = p /\ m.type \in {"ReplaceAck", "WriteBackAck", "Invalidate"}

(* No store is lost: while main memory is behind, the last value is in a   *)
(* Modified line, in a dirty L2 line or in a message with the data.        *)
WrittenDataHeld ==
  \A a \in unsaved :
    \/ l2[a] # "NotPresent" /\ dirty[a]
    \/ \E p \in L1s : l1[p][a] = "Modified"
    \/ \E m \in InFlight : m.addr = a /\
         \/ m.type \in {"WriteBack", "FwdAckData"}
         \/ m.type = "DataExclusive" /\ m.src \in L1s

(* Every request a processor makes is answered.                            *)
EveryRequestAnswered ==
  \A p \in L1s, r \in Requests : proc[p][r] # "idle" ~> proc[p][r] = "idle"

(* common/mem_hier_iface.h: the processor is told when a range that may    *)
(* have supplied speculative loads is invalidated.  So a line it loaded    *)
(* and heard nothing of is still in its L1.                                *)
LoadsAreWatched ==
  \A p \in L1s : \A a \in loaded[p] : l1[p][a] \in Readable \union L1Buffered
=============================================================================
