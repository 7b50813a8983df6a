----------------------------- MODULE CmpInclInv -----------------------------
(***************************************************************************)
(* Why CmpIncl is coherent: the invariant behind SingleWriter, Inclusion,  *)
(* RequestTracked, WriteBackAnswered and the implementation of Coherence.  *)
(*                                                                         *)
(* The protocol treats every address by itself, so the invariant is stated *)
(* of one line: View(a) is what the caches, the directory, the queue of    *)
(* the MSHR and the messages under way say of address a.  Between lines    *)
(* there is only the order of the messages on the links (Orderly).         *)
(* CmpInclProofs shows that every step of CmpIncl keeps Coh.  PortInv and  *)
(* DataInv need more of the configuration: see CmpInclPromiseProofs.       *)
(***************************************************************************)
EXTENDS CmpIncl

Owned == {"Exclusive", "Modified"}

-----------------------------------------------------------------------------
(* The view of a line.  A message is its type, the L1 it concerns and the   *)
(* L1 that gets the data of a forward: who sent the data is of no           *)
(* consequence, nor is it whether a line that is written back was written.  *)

Forwards == {"ReadFwd", "ReadExFwd"}

Mark(m) ==
  IF m.type \in Forwards THEN <<m.type, m.dst, m.req>>
  ELSE IF m.type \in ToL1 THEN <<m.type, m.dst, m.dst>>
  ELSE IF m.type = "WriteBackClean" THEN <<"WriteBack", m.src, m.src>>
  ELSE <<m.type, m.src, m.src>>

Plain(t, p) == <<t, p, p>>

View(a) ==
  [lines |-> [p \in L1s |-> l1[p][a]],
   l2    |-> l2[a],
   dir   |-> sharers[a],
   held  |-> {<<q.type, q.req>> : q \in Range(l2queue[a])},
   msgs  |-> {Mark(m) : m \in {n \in InFlight : n.addr = a}}]

(* In the view x: a message of type t about p, a forward to q for r, a      *)
(* request of p in the queue of the MSHR.                                   *)
In(x, t, p) == <<t, p, p>> \in x.msgs
Sent(x, t, q, r) == <<t, q, r>> \in x.msgs
Waits(x, t, p) == <<t, p>> \in x.held

(* Where the request of p stands: on its way, in the MSHR, passed on to an  *)
(* owner, answered.                                                         *)
Asking(x, p) == In(x, "Read", p) \/ In(x, "ReadEx", p) \/ In(x, "Upgrade", p)
Queuing(x, p) ==
  Waits(x, "Read", p) \/ Waits(x, "ReadEx", p) \/ Waits(x, "Upgrade", p)
Promised(x, p) ==
  \E q \in L1s : Sent(x, "ReadFwd", q, p) \/ Sent(x, "ReadExFwd", q, p)
Answering(x, p) ==
  In(x, "DataShared", p) \/ In(x, "DataExclusive", p) \/ In(x, "UpgradeAck", p)
Serving(x, p) == Queuing(x, p) \/ Promised(x, p) \/ Answering(x, p)

(* p has said that it gives its copy up; p still has to pass one on; p has  *)
(* a copy or will get one; its copy is being taken back or is gone.         *)
Leaves(x, p) == In(x, "InvAck", p) \/ In(x, "Replace", p) \/ In(x, "WriteBack", p)
Owes(x, t, p) == \E r \in L1s : Sent(x, t, p, r)
Present(x, p) == x.lines[p] \in Readable \/ Serving(x, p)
Recalled(x, p) ==
  In(x, "Invalidate", p) \/ (Leaves(x, p) /\ x.lines[p] \notin L1Buffered)

-----------------------------------------------------------------------------
(* The invariant of one line, per L1.                                       *)

(* A request, or what became of it, finds its line in transit. *)
TokenInv(x, p) ==
  /\ \/ In(x, "Read", p) \/ Waits(x, "Read", p) \/ In(x, "DataShared", p)
     \/ \E q \in L1s : Sent(x, "ReadFwd", q, p)
     => x.lines[p] = "InvToShEx"
  /\ \/ In(x, "ReadEx", p) \/ Waits(x, "ReadEx", p)
     \/ \E q \in L1s : Sent(x, "ReadExFwd", q, p)
     => x.lines[p] = "InvToMod"
  /\ In(x, "DataExclusive", p) => x.lines[p] \in {"InvToShEx", "InvToMod"}
  /\ Waits(x, "Upgrade", p) \/ In(x, "UpgradeAck", p) => x.lines[p] = "ShToMod"
  /\ In(x, "Upgrade", p) =>
       \/ x.lines[p] = "ShToMod"
       \/ x.lines[p] = "InvToMod" /\ In(x, "ReadEx", p) /\ In(x, "InvAck", p)

(* There is one request of p for a line at a time, in one place. *)
OneTokenInv(x, p) ==
  /\ Asking(x, p) => ~Serving(x, p)
  /\ Queuing(x, p) => ~Promised(x, p) /\ ~Answering(x, p)
  /\ Promised(x, p) => ~Answering(x, p)
  /\ ~(In(x, "DataShared", p) /\ In(x, "DataExclusive", p))
  /\ \A q, r \in L1s :
       /\ Sent(x, "ReadFwd", q, p) /\ Sent(x, "ReadFwd", r, p) => q = r
       /\ Sent(x, "ReadExFwd", q, p) /\ Sent(x, "ReadExFwd", r, p) => q = r

(* No request is lost. *)
TrackInv(x, p) ==
  x.lines[p] \in L1Transient =>
    \/ Asking(x, p) \/ Serving(x, p)
    \/ x.lines[p] = "ShToMod" /\ In(x, "Invalidate", p)

(* A copy that was given up is given up once, and the directory knows. *)
GoneInv(x, p) ==
  /\ ~(In(x, "InvAck", p) /\ In(x, "Replace", p))
  /\ ~(In(x, "InvAck", p) /\ In(x, "WriteBack", p))
  /\ ~(In(x, "Replace", p) /\ In(x, "WriteBack", p))
  /\ Leaves(x, p) => x.lines[p] \notin Readable /\ ~Serving(x, p)
  /\ Leaves(x, p) /\ x.lines[p] \notin L1Buffered =>
       /\ p \in x.dir /\ x.l2 \in {"ShToMod", "ShToInv", "ModToInv"}
       /\ ~In(x, "Invalidate", p)
  /\ Leaves(x, p) /\ x.lines[p] = "ShToInv" => In(x, "Replace", p)
  /\ Leaves(x, p) /\ x.lines[p] = "ModToInv" => In(x, "WriteBack", p)
  /\ In(x, "Replace", p) =>
       p \in x.dir /\ x.l2 \in {"Shared", "ShToMod", "ShToInv", "ModToSh"}
  /\ In(x, "InvAck", p) => x.l2 \in {"ShToMod", "ShToInv"}
  /\ In(x, "WriteBack", p) /\ x.lines[p] \notin L1Buffered => x.l2 = "ModToInv"

(* A line in a write-back buffer waits for the message that frees it. *)
AckInv(x, p) ==
  /\ In(x, "ReplaceAck", p) => x.lines[p] = "ShToInv"
  /\ In(x, "WriteBackAck", p) => x.lines[p] = "ModToInv"
  /\ In(x, "ReplaceAck", p) \/ In(x, "WriteBackAck", p) =>
       ~Leaves(x, p) /\ p \notin x.dir /\ ~In(x, "Invalidate", p)
  /\ x.lines[p] \in L1Buffered =>
       \/ Leaves(x, p) \/ In(x, "ReplaceAck", p) \/ In(x, "WriteBackAck", p)
       \/ In(x, "Invalidate", p)

(* An Invalidate goes to a sharer, or meets a copy given up by itself. *)
RecallInv(x, p) ==
  /\ In(x, "Invalidate", p) =>
       \/ p \in x.dir /\ x.l2 \in {"ShToMod", "ShToInv", "ModToInv"}
       \/ x.lines[p] \in L1Buffered /\ ~Leaves(x, p) /\ p \notin x.dir
  /\ Queuing(x, p) => ~In(x, "Invalidate", p)

(* The directory is right about p, but for a hand-over that p will learn of.*)
EntryInv(x, p) ==
  /\ Present(x, p) => p \in x.dir \/ Owes(x, "ReadExFwd", p)
  /\ p \in x.dir => Present(x, p) \/ Leaves(x, p)

CopyInv(x, p) ==
  /\ TokenInv(x, p) /\ OneTokenInv(x, p) /\ TrackInv(x, p) /\ GoneInv(x, p)
  /\ AckInv(x, p) /\ RecallInv(x, p) /\ EntryInv(x, p)

-----------------------------------------------------------------------------
(* The invariant of one line, of the L2 and of the L1s together.            *)

(* No L1 may write the line, or one could and its owner has given it away.  *)
Sharing(x) ==
  \/ x.l2 \in {"NotPresent", "InvToMod", "Shared", "ShToMod", "ShToInv"}
  \/ x.l2 = "ModToSh" /\ \E p \in L1s : In(x, "FwdAckData", p)

(* What the state of the L2 line says of its sharers and of its MSHR. *)
HomeInv(x) ==
  /\ x.l2 = "NotPresent" => x.dir = {} /\ x.held = {}
  /\ x.l2 = "InvToMod" =>
       \E r \in L1s, t \in {"Read", "ReadEx"} : x.dir = {r} /\ x.held = {<<t, r>>}
  /\ x.l2 = "Shared" => x.held = {}
  /\ x.l2 = "ShToMod" =>
       \E r \in x.dir, t \in {"ReadEx", "Upgrade"} :
         /\ x.held = {<<t, r>>} /\ x.dir # {r}
         /\ \A q \in x.dir \ {r} : Recalled(x, q)
  /\ x.l2 = "ShToInv" => x.held = {} /\ x.dir # {} /\ \A q \in x.dir : Recalled(x, q)
  /\ x.l2 \in {"Modified", "ModToInv"} => x.held = {} /\ \E o \in L1s : x.dir = {o}
  /\ x.l2 = "ModToInv" => \A q \in x.dir : Recalled(x, q)
  /\ x.l2 = "ModToSh" => x.held \subseteq {"Read"} \X L1s
  /\ \A p \in L1s : In(x, "FwdAckData", p) => x.l2 = "ModToSh"
  /\ \A p, q \in L1s : In(x, "FwdAckData", p) /\ In(x, "FwdAckData", q) => p = q

(* While the line is shared no right to write exists or is under way. *)
SharingInv(x) == Sharing(x) =>
  \A p \in L1s :
    /\ x.lines[p] \notin Owned /\ ~In(x, "DataExclusive", p) /\ ~In(x, "UpgradeAck", p)
    /\ ~Owes(x, "ReadExFwd", p)
    /\ Owes(x, "ReadFwd", p) =>
         x.lines[p] \notin {"ModToInv", "NotPresent", "Invalid"} /\ x.l2 # "ModToSh"
    /\ x.lines[p] = "ModToInv" /\ p \in x.dir => In(x, "FwdAckData", p)

(* p has the right to write, or will get it without another's doing, or has *)
(* put it in its write-back buffer and still has to pass it on.             *)
Holds(x, p) ==
  \/ x.lines[p] \in Owned \/ In(x, "DataExclusive", p) \/ In(x, "UpgradeAck", p)
  \/ In(x, "WriteBack", p) /\ p \in x.dir
  \/ x.lines[p] = "ModToInv" /\ (Owes(x, "ReadFwd", p) \/ Owes(x, "ReadExFwd", p))

Expects(x, p) == Holds(x, p) \/ \E q \in L1s : Sent(x, "ReadExFwd", q, p)

(* The hand-overs under way form a chain, from the L1 that holds the right  *)
(* to write to o, the owner in the directory: k ranks the L1s along it.     *)
ChainInv(x, k, o) ==
  /\ x.l2 \in {"Modified", "ModToInv"} =>
       x.dir = {o} /\ \A p \in L1s : ~Owes(x, "ReadFwd", p)
  /\ x.l2 = "ModToSh" => Owes(x, "ReadFwd", o) /\ Expects(x, o)
  /\ \A q, r \in L1s : Sent(x, "ReadFwd", q, r) => q = o
  /\ \A r, s \in L1s : Sent(x, "ReadFwd", o, r) /\ Sent(x, "ReadFwd", o, s) => r = s
  /\ \A p \in L1s : /\ x.lines[p] # "Shared" /\ ~In(x, "DataShared", p)
                    /\ x.lines[p] = "ShToMod" => In(x, "UpgradeAck", p)
  /\ \A p, q \in L1s : Holds(x, p) /\ Holds(x, q) => p = q
  /\ \A p \in L1s : Expects(x, p) /\ p \in x.dir => p = o
  /\ \A q, r \in L1s : Sent(x, "ReadExFwd", q, r) =>
       k[q] < k[r] /\ k[r] <= k[o] /\ Expects(x, q) /\ q \notin x.dir
  /\ \A h \in L1s : Holds(x, h) =>
       /\ k[h] <= k[o]
       /\ \A q, r \in L1s : Sent(x, "ReadExFwd", q, r) => k[h] <= k[q]
  /\ \A q, r, s, t \in L1s : Sent(x, "ReadExFwd", q, r) /\ Sent(x, "ReadExFwd", s, t) =>
       (q = s /\ r = t) \/ k[r] <= k[s] \/ k[t] <= k[q]

OwningInv(x) == ~Sharing(x) => \E k \in [L1s -> Int], o \in L1s : ChainInv(x, k, o)

LineTypes(x) ==
  /\ x.lines \in [L1s -> L1State] /\ x.l2 \in L2State /\ x.dir \subseteq L1s
  /\ x.held \subseteq {"Read", "ReadEx", "Upgrade"} \X L1s

LineInv(x) ==
  /\ LineTypes(x) /\ \A p \in L1s : CopyInv(x, p)
  /\ HomeInv(x) /\ SharingInv(x) /\ OwningInv(x)

-----------------------------------------------------------------------------
(* The order of the messages.                                               *)

(* Of two messages about one line and one L1, the second type may not be    *)
(* behind the first: a forward finds the copy that an Invalidate or the     *)
(* acknowledgement of a write-back takes away, an Upgrade is served before  *)
(* the InvAck of the copy it wants to write.                                *)
Lates == {"Invalidate", "ReplaceAck", "WriteBackAck"}
Behind ==
  (Lates \X (Forwards \union {"UpgradeAck"}))
    \union (Forwards \X {"UpgradeAck"})
    \union {<<"InvAck", "Upgrade">>, <<"FwdAckData", "WriteBack">>}

Clash(u, v) == u = v \/ (u[2] = v[2] /\ <<u[1], v[1]>> \in Behind)

Wrong(m, n) ==
  m.addr = n.addr /\ m.addr \notin ThreadState /\ Clash(Mark(m), Mark(n))

Clear(s) == \A i, j \in 1 .. Len(s) : i < j => ~Wrong(s[i], s[j])

InLists(q, D) == UNION {Range(q[d]) : d \in D}
Everywhere(n, rp, w) ==
  InLists(n, Links) \union InLists(rp, Banks) \union InLists(w, Banks)

(* No two messages say the same of a line, and none is in two places. *)
Lone(M) ==
  \A m, n \in M : /\ m.addr = n.addr /\ m.addr \notin ThreadState
                  /\ Mark(m) = Mark(n)
                  => m = n
Apart(M, N) == \A m \in M \intersect N : m.addr \in ThreadState

Order(n, rp, w) ==
  /\ \A c \in Links : Clear(n[c])
  /\ \A b \in Banks : Clear(rp[b]) /\ Clear(w[b])
  /\ Lone(Everywhere(n, rp, w))
  /\ Apart(InLists(n, Links), InLists(rp, Banks))
  /\ Apart(InLists(n, Links), InLists(w, Banks))
  /\ Apart(InLists(rp, Banks), InLists(w, Banks))

Orderly == Order(net, replay, waiting)

(* The banks hold back requests only, and an Upgrade only while the line is *)
(* on its way from Modified to Shared.                                      *)
KeptInv ==
  /\ \A m \in InLists(replay, Banks) \union InLists(waiting, Banks) :
       m.type \in {"Read", "ReadEx", "Upgrade"}
  /\ \A m \in InLists(waiting, Banks) : m.type = "Upgrade" => l2[m.addr] = "ModToSh"

(* Each L1 has one request in the queue of an MSHR. *)
QueueInv == \A a \in Addrs \ ThreadState : IsInjective(l2queue[a])

MemoryInv == \A a \in memory : l2[a] = "InvToMod"

(* Thread state bypasses the L1s and is never shared. *)
ThreadStateInv ==
  /\ \A a \in ThreadState :
       /\ \A p \in L1s : l1[p][a] = "NotPresent"
       /\ l2[a] \in {"NotPresent", "InvToMod", "Modified"} /\ sharers[a] = {}
       /\ \A q \in Range(l2queue[a]) : q.type \in {"Read", "ReadEx"}
  /\ \A m \in InFlight :
       m.addr \in ThreadState => m.type \in {"Read", "ReadEx", "DataExclusive"}

Coh ==
  /\ Orderly /\ KeptInv /\ QueueInv /\ MemoryInv /\ ThreadStateInv
  /\ \A a \in Addrs \ ThreadState : LineInv(View(a))

-----------------------------------------------------------------------------
(* The messages to a bank, without a bandwidth of the links.                *)

(* All messages to the bank are then in one list, its port.  A write-back   *)
(* whose source is no longer in the directory is stale; it must meet the    *)
(* line before the L2 may share it again or let it go, which the owner's    *)
(* own write-back or answer to a ReadFwd ends in.                           *)
WritesBack(m) == m.type \in {"WriteBack", "WriteBackClean"}
Stale(sh, m) == WritesBack(m) /\ m.src \notin sh[m.addr]
Ends(sh, m) == m.type = "FwdAckData" \/ (WritesBack(m) /\ m.src \in sh[m.addr])

Lent == {"Modified", "ModToSh", "ModToInv"}

(* n is stale, behind the message that ends the time it has.                *)
Overtaken(sh, m, n) == m.addr = n.addr /\ Ends(sh, m) /\ Stale(sh, n)
Prompt(sh, s) == \A i, j \in 1 .. Len(s) : i < j => ~Overtaken(sh, s[i], s[j])

Port(b) == <<b, b>>

PortInv ==
  \A b \in Banks :
    /\ Prompt(sharers, net[Port(b)])
    /\ \A m \in Range(net[Port(b)]) : Stale(sharers, m) => l2[m.addr] \in Lent

-----------------------------------------------------------------------------
(* The values of the lines, in an L2 that has a way for each line.          *)

L2Ample ==
  \A s \in Sets : LET lines == {a \in Addrs : L2SetOf[a] = s} IN
                  IsFiniteSet(lines) /\ Cardinality(lines) <= L2Assoc

(* The messages that bring the last value: to the L2, from an owner that    *)
(* has the line still or must pass it on, and from an owner to the next.    *)
Carries(m) ==
  \/ m.type = "FwdAckData"
  \/ m.type = "DataExclusive" /\ m.src \in L1s
  \/ /\ m.type = "WriteBack"
     /\ m.src \in sharers[m.addr] \/ Owes(View(m.addr), "ReadExFwd", m.src)

Valued(a) ==
  \/ dirty[a]
  \/ \E p \in L1s : l1[p][a] = "Modified"
  \/ \E m \in InFlight : m.addr = a /\ Carries(m)

DataInv ==
  /\ \A a \in Addrs : l2[a] \notin L2Buffered
  /\ unsaved \intersect ThreadState = {}
  /\ \A a \in unsaved : l2[a] # "NotPresent" /\ Valued(a)
  /\ \A m \in InFlight :
       m.type = "DataExclusive" /\ m.src \in L1s /\ m.addr \notin ThreadState =>
         l1[m.dst][m.addr] = "InvToMod"
=============================================================================
