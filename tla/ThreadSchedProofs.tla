------------------------- MODULE ThreadSchedProofs -------------------------
(***************************************************************************)
(* The safety properties of ThreadSched, for every number of cores and     *)
(* threads and every preempt timer.  Two regimes are covered: cores stay   *)
(* in service, wherever the threads are at home; or cores come and go and  *)
(* thread i is at home on core i, as initialize_vanilla_logical() has it   *)
(* when there are no more threads than cores.  With both at once           *)
(* enable_core() loses threads.                                            *)
(***************************************************************************)
EXTENDS ThreadSched, SubseqProofs

HomesAreSafe == MaxDisables = 0 \/ \A t \in Thread : host[t] = t

(* A thread waits once, for the core it is placed on.                      *)
WaitsOnce ==
  \A c \in Core :
    /\ IsInjective(wait_list[c])
    /\ \A t \in Elements(wait_list[c]) : vcpu_2_pcpu[t] = c

(* The chip records a core for the threads that are on it, none for those  *)
(* that wait.                                                              *)
Recorded ==
  \A t \in Thread :
    /\ \A c \in Core : t_ctxt[t] = c <=> Runs(t, c)
    /\ t_ctxt[t] = None <=> t \in Elements(wait_list[vcpu_2_pcpu[t]])

(* No thread is placed on a core that is out of service, and one that is   *)
(* still there has been asked to leave.                                    *)
OutOfService ==
  /\ \A t \in Thread : vcpu_2_pcpu[t] \notin disabled_core
  /\ \A c \in disabled_core : seq[c].mai # None => seq[c].reason = "DISABLE_CORE"
  /\ disables = 0 => disabled_core = {}

IInv == TypeOK /\ WaitsOnce /\ Recorded /\ OutOfService /\ StalledWhenAway

-----------------------------------------------------------------------------
(* Lists of threads                                                        *)

LEMMA ElementsAreRange == ASSUME NEW s PROVE Elements(s) = Range(s)
BY DEF Elements, Range

(* A set of threads in the order of their numbers: each is in it once.     *)
LEMMA InOrderLists ==
  ASSUME NEW S \in SUBSET Thread
  PROVE  /\ IsFiniteSet(S)
         /\ InOrder(S) \in Seq(S) /\ InOrder(S) \in Seq(Thread)
         /\ Len(InOrder(S)) = Cardinality(S)
         /\ IsInjective(InOrder(S))
         /\ Elements(InOrder(S)) = S
<1> DEFINE c == Cardinality(S)
           at(i) == CHOOSE t \in S : Rank(S, t) = i
<1>1. IsFiniteSet(S) /\ S \subseteq Int
  <2>1. IsFiniteSet(Thread) /\ Thread \subseteq Nat
    BY CoreAssumption
  <2>2. IsFiniteSet(S)
    BY <2>1, FS_Subset
  <2> QED
    BY <2>1, <2>2
<1>2. c \in Nat
  BY <1>1, FS_CardinalityType
<1>3. \A i \in 1 .. c : at(i) \in S /\ Rank(S, at(i)) = i
  <2> TAKE i \in 1 .. c
  <2>1. \E t \in S : Rank(S, t) = i
    BY <1>1, RankOnto
  <2> QED
    BY <2>1
<1>4. \A t \in S : Rank(S, t) \in 1 .. c
  BY <1>1, RankBound
<1>5. \A t \in S : at(Rank(S, t)) = t
  <2> TAKE t \in S
  <2>1. at(Rank(S, t)) \in S /\ Rank(S, at(Rank(S, t))) = Rank(S, t)
    BY <1>3, <1>4
  <2> DEFINE u == at(Rank(S, t))
  <2>2. u \in S /\ Rank(S, u) = Rank(S, t)
    BY <2>1
  <2> HIDE DEF u
  <2>3. u = t
    BY <1>1, <2>2, RankInjective
  <2> QED
    BY <2>3 DEF u
<1>6. InOrder(S) = [i \in 1 .. c |-> at(i)]
  BY DEF InOrder
<1> HIDE DEF at, c
<1>7. InOrder(S) \in Seq(S) /\ Len(InOrder(S)) = c /\ DOMAIN InOrder(S) = 1 .. c
  BY <1>2, <1>3, <1>6
<1>8. InOrder(S) \in Seq(Thread)
  BY <1>7
<1>9. IsInjective(InOrder(S))
  BY <1>3, <1>6, <1>7 DEF IsInjective
<1>10. Elements(InOrder(S)) = S
  BY <1>3, <1>4, <1>5, <1>6, <1>7 DEF Elements
<1> QED
  BY <1>1, <1>7, <1>8, <1>9, <1>10 DEF c

(* What is left of a list without the threads of S.                        *)
Leaves(s, r, S) ==
  r \in Seq(Thread) /\ IsInjective(r) /\ Elements(r) = Elements(s) \ S

LEMMA DropLeaves ==
  ASSUME NEW s \in Seq(Thread), IsInjective(s), NEW S, NEW K,
         K = {i \in DOMAIN s : s[i] \in S}
  PROVE  Leaves(s, Drop(s, K), S)
<1> DEFINE R == (1 .. Len(s)) \ K
<1>1. K \in SUBSET (1 .. Len(s)) /\ R \in SUBSET (1 .. Len(s)) /\ DOMAIN s = 1 .. Len(s)
  OBVIOUS
<1>2. Drop(s, K) \in Seq(Thread) /\ IsInjective(Drop(s, K))
  BY <1>1, DropProperties, DropInjective
<1>3. Range(Pick(s, R)) = {s[k] : k \in R}
  BY <1>1, PickProperties
<1>4. Drop(s, K) = Pick(s, R)
  BY DEF Drop
<1>5. {s[k] : k \in R} = Elements(s) \ S
  BY <1>1 DEF Elements
<1> QED
  BY <1>2, <1>3, <1>4, <1>5, ElementsAreRange DEF Leaves

(* A list that the threads of another one follow.                          *)
Joined(s, u, r) ==
  r \in Seq(Thread) /\ IsInjective(r) /\ Elements(r) = Elements(s) \union Elements(u)

LEMMA ConcatJoins ==
  ASSUME NEW s \in Seq(Thread), NEW u \in Seq(Thread), IsInjective(s), IsInjective(u),
         Elements(s) \intersect Elements(u) = {}
  PROVE  Joined(s, u, s \o u)
BY ConcatRange, ElementsAreRange DEF Joined

LEMMA OneThread ==
  ASSUME NEW t \in Thread
  PROVE  <<t>> \in Seq(Thread) /\ IsInjective(<<t>>) /\ Elements(<<t>>) = {t}
BY DEF IsInjective, Elements

LEMMA AppendJoins ==
  ASSUME NEW s \in Seq(Thread), IsInjective(s), NEW t \in Thread, t \notin Elements(s)
  PROVE  Joined(s, <<t>>, Append(s, t))
BY AppendRange, OneThread, ElementsAreRange DEF Joined

LEMMA TailLeaves ==
  ASSUME NEW s \in Seq(Thread), IsInjective(s), s # <<>>
  PROVE  /\ Head(s) \in Thread /\ Head(s) \in Elements(s)
         /\ Leaves(s, Tail(s), {Head(s)})
BY TailRange, ElementsAreRange DEF Leaves

LEMMA NoThreads ==
  /\ <<>> \in Seq(Thread) /\ IsInjective(<<>>) /\ Elements(<<>>) = {}
  /\ \A s \in Seq(Thread) : Elements(s) = {} => s = <<>>
<1>1. <<>> \in Seq(Thread) /\ IsInjective(<<>>) /\ Elements(<<>>) = {}
  BY DEF IsInjective, Elements
<1>2. ASSUME NEW s \in Seq(Thread), s # <<>>
      PROVE  Elements(s) # {}
  <2>1. s[1] \in Elements(s)
    BY <1>2 DEF Elements
  <2> QED
    BY <2>1
<1> QED
  BY <1>1, <1>2
-----------------------------------------------------------------------------
(* Sequencers                                                              *)

(* A request changes no more than the reason and leaves a switch in        *)
(* progress alone.                                                         *)
AskedOnly(s, why, a) ==
  /\ a \in Sequencer /\ a.mai = s.mai
  /\ a.reason = "DISABLE_CORE" \/ (a.reason = s.reason \/ a.reason = why)
  /\ "DISABLE_CORE" \in {s.reason, why} => a.reason = "DISABLE_CORE"
  /\ a.state \in {"OUT", "IN"} <=> s.state \in {"OUT", "IN"}

LEMMA AskedIs ==
  ASSUME NEW s \in Sequencer, NEW why \in Reason
  PROVE  AskedOnly(s, why, Asked(s, why))
BY PreemptAssumption DEF AskedOnly, Asked, Prioritized, Sequencer, SwitchState, Reason

(* An early interrupt put on record is a request like the others.          *)
LEMMA AskedEarlyIs ==
  ASSUME NEW s \in Sequencer, s.early < MaxEarly
  PROVE  AskedOnly(s, "PAUSED_THREAD_INTERRUPT", AskedEarly(s))
<1> DEFINE a == Asked(s, "PAUSED_THREAD_INTERRUPT")
<1>1. AskedOnly(s, "PAUSED_THREAD_INTERRUPT", a)
  BY AskedIs DEF Reason
<1>2. a.early = s.early /\ s.early + 1 \in 0 .. MaxEarly
  BY BoundAssumption DEF Asked, Sequencer
<1> HIDE DEF a
<1>3. AskedEarly(s) = [a EXCEPT !.early = @ + 1]
  BY DEF AskedEarly, a
<1> QED
  BY <1>1, <1>2, <1>3 DEF AskedOnly, Sequencer

LongerOnly(s, a) ==
  a \in Sequencer /\ a.mai = s.mai /\ a.state = s.state /\ a.reason = s.reason

LEMMA LongerIs ==
  ASSUME NEW s \in Sequencer
  PROVE  LongerOnly(s, Longer(s))
<1>1. thread_preempt \in Nat
  BY PreemptAssumption
<1> QED
  BY <1>1 DEF LongerOnly, Longer, Sequencer

SwitchedIn(t, a) == a \in Sequencer /\ a.mai = t /\ a.state = "IN"

LEMMA SwitchedIs ==
  ASSUME NEW s \in Sequencer
  PROVE  /\ \A t \in Thread : SwitchedIn(t, SwitchedTo(s, t))
         /\ SwitchedTo(s, None) \in Sequencer /\ SwitchedTo(s, None).mai = None
<1>1. thread_preempt \in Nat /\ None \notin Thread
  BY PreemptAssumption, CoreAssumption
<1>2. s.early \in 0 .. MaxEarly /\ OneLess(s.early) \in 0 .. MaxEarly
  BY BoundAssumption DEF Sequencer, OneLess
<1>3. ASSUME NEW t \in Thread
      PROVE  SwitchedIn(t, SwitchedTo(s, t))
  BY <1>1, <1>2 DEF SwitchedIn, SwitchedTo, Entered, Sequencer, Reason, SwitchState
<1>4. thread_preempt + 1 \in 0 .. thread_preempt + 1
  BY <1>1
<1>5. SwitchedTo(s, None) = [s EXCEPT !.mai = None, !.last = thread_preempt + 1]
  BY DEF SwitchedTo
<1>6. SwitchedTo(s, None) \in Sequencer /\ SwitchedTo(s, None).mai = None
  BY <1>4, <1>5 DEF Sequencer
<1> QED
  BY <1>3, <1>6
-----------------------------------------------------------------------------
(* The initial state                                                       *)

LEMMA InitIInv == Init => IInv
<1> SUFFICES ASSUME Init PROVE IInv
  OBVIOUS
<1> DEFINE own(c) == {t \in Thread : host[t] = c}
<1>1. \A c \in Core : own(c) \in SUBSET Thread
  OBVIOUS
<1>2. \A c \in Core : /\ InOrder(own(c)) \in Seq(Thread) /\ IsInjective(InOrder(own(c)))
                      /\ Elements(InOrder(own(c))) = own(c)
  BY <1>1, InOrderLists
<1> DEFINE l(c) == InOrder(own(c))
<1>3. \A c \in Core : l(c) # <<>> =>
        Head(l(c)) \in own(c) /\ Leaves(l(c), Tail(l(c)), {Head(l(c))})
  BY <1>2, TailLeaves
<1>4. /\ wait_list = [c \in Core |-> IF l(c) = <<>> THEN <<>> ELSE Tail(l(c))]
      /\ seq = [c \in Core |-> [mai |-> IF l(c) = <<>> THEN None ELSE Head(l(c)),
                               state |-> "NONE", reason |-> "NONE", last |-> 0,
                               early |-> 0]]
  BY DEF Init
<1>5. /\ vcpu_2_pcpu = host /\ disabled_core = {} /\ disables = 0
      /\ t_ctxt = [t \in Thread |-> IF Waiting(t) THEN None ELSE host[t]]
      /\ paused = {t \in Thread : Waiting(t)} /\ raise_early_interrupt = Thread
  BY DEF Init
<1>6. \A c \in Core : Elements(l(c)) = own(c)
  BY <1>2
<1> HIDE DEF l, own
<1>7. ASSUME NEW c \in Core
      PROVE  /\ wait_list[c] \in Seq(Thread) /\ IsInjective(wait_list[c])
             /\ seq[c] \in Sequencer /\ seq[c].state = "NONE"
             /\ \A t \in Thread : t \in own(c) <=> t \in Elements(wait_list[c]) \/ Runs(t, c)
             /\ \A t \in Elements(wait_list[c]) : ~Runs(t, c)
             /\ Elements(wait_list[c]) \subseteq own(c)
             /\ seq[c].mai # None => seq[c].mai \in own(c)
  <2>0. thread_preempt \in Nat /\ MaxEarly \in Nat /\ None \notin Thread
    BY PreemptAssumption, BoundAssumption, CoreAssumption
  <2>1. own(c) \subseteq Thread
    BY DEF own
  <2>2. CASE l(c) = <<>>
    BY <2>0, <2>1, <2>2, <1>4, <1>6, NoThreads
       DEF Sequencer, Runs, SwitchState, Reason
  <2>3. CASE l(c) # <<>>
    <3>1. wait_list[c] = Tail(l(c)) /\ seq[c].mai = Head(l(c))
      BY <2>3, <1>4
    <3>2. Head(l(c)) \in own(c) /\ Leaves(l(c), Tail(l(c)), {Head(l(c))})
      BY <2>3, <1>3
    <3>3. seq[c] \in Sequencer /\ seq[c].state = "NONE"
      BY <2>0, <2>1, <2>3, <3>1, <3>2, <1>4 DEF Sequencer, SwitchState, Reason
    <3> QED
      BY <2>0, <2>1, <3>1, <3>2, <3>3, <1>6 DEF Runs, Leaves
  <2> QED
    BY <2>2, <2>3
<1>8. \A t \in Thread : host[t] \in Core /\ \A c \in Core : t \in own(c) <=> host[t] = c
  BY HostAssumption DEF own
<1>9. TypeOK
  <2>1. wait_list \in [Core -> Seq(Thread)] /\ seq \in [Core -> Sequencer]
    BY <1>7, <1>4
  <2> QED
    BY <2>1, <1>5, <1>8, HostAssumption, BoundAssumption DEF TypeOK
<1>10. \A t \in Thread : Waiting(t) <=> t \in Elements(wait_list[host[t]])
  BY <1>7, <1>8 DEF Waiting
<1>11. WaitsOnce
  BY <1>5, <1>7, <1>8 DEF WaitsOnce, own
<1>12. Recorded
  <2>1. None \notin Core
    BY CoreAssumption
  <2>2. ASSUME NEW t \in Thread
        PROVE  t_ctxt[t] = IF t \in Elements(wait_list[host[t]]) THEN None ELSE host[t]
    BY <1>5, <1>10
  <2>3. ASSUME NEW t \in Thread, NEW c \in Core
        PROVE  t_ctxt[t] = c <=> Runs(t, c)
    <3>1. Runs(t, c) => host[t] = c /\ t \notin Elements(wait_list[c])
      BY <1>7, <1>8
    <3>2. host[t] = c /\ t \notin Elements(wait_list[c]) => Runs(t, c)
      BY <1>7, <1>8
    <3> QED
      BY <2>1, <2>2, <3>1, <3>2
  <2> QED
    BY <2>1, <2>2, <2>3, <1>5, <1>8 DEF Recorded
<1>13. OutOfService
  BY <1>5 DEF OutOfService
<1>14. StalledWhenAway
  BY <1>5, <1>7, <1>8, <1>10 DEF StalledWhenAway
<1> QED
  BY <1>9, <1>11, <1>12, <1>13, <1>14 DEF IInv
-----------------------------------------------------------------------------
(* Steps that leave every thread where it is                               *)

(* A thread is on one core or waits for one.                               *)
LEMMA OnePlace ==
  ASSUME IInv, NEW t \in Thread
  PROVE  /\ \A c, d \in Core : Runs(t, c) /\ Runs(t, d) => c = d
         /\ \A c, d \in Core : Runs(t, c) => t \notin Elements(wait_list[d])
         /\ \A c, d \in Core : t \in Elements(wait_list[c]) /\ t \in Elements(wait_list[d]) => c = d
<1>1. None \notin Core
  BY CoreAssumption
<1> QED
  BY <1>1 DEF IInv, Recorded, WaitsOnce, Runs

Stays(c) ==
  /\ seq'[c].mai = seq[c].mai
  /\ seq[c].reason = "DISABLE_CORE" => seq'[c].reason = "DISABLE_CORE"

LEMMA StayingKeeps ==
  ASSUME IInv, seq' \in [Core -> Sequencer], \A c \in Core : Stays(c),
         UNCHANGED <<wait_list, vcpu_2_pcpu, t_ctxt, disabled_core, disables>>,
         paused' \subseteq Thread, raise_early_interrupt' \subseteq Thread
  PROVE  TypeOK' /\ WaitsOnce' /\ Recorded' /\ OutOfService'
<1>1. TypeOK'
  BY DEF IInv, TypeOK
<1>2. WaitsOnce'
  BY DEF IInv, WaitsOnce, Elements
<1>3. Recorded'
  BY DEF IInv, Recorded, Runs, Stays, Elements
<1>4. OutOfService'
  BY DEF IInv, OutOfService, Stays, TypeOK
<1> QED
  BY <1>1, <1>2, <1>3, <1>4

(* One sequencer changes, neither its thread nor whether it switches.      *)
SameSwitch(s, a) ==
  /\ a \in Sequencer /\ a.mai = s.mai
  /\ s.reason = "DISABLE_CORE" => a.reason = "DISABLE_CORE"
  /\ a.state \in {"OUT", "IN"} <=> s.state \in {"OUT", "IN"}

LEMMA SameSwitchKeeps ==
  ASSUME IInv, NEW c \in Core, NEW a, SameSwitch(seq[c], a), seq' = [seq EXCEPT ![c] = a],
         UNCHANGED <<wait_list, vcpu_2_pcpu, t_ctxt, disabled_core, disables, paused>>,
         raise_early_interrupt' \subseteq Thread
  PROVE  IInv'
<1>1. seq \in [Core -> Sequencer] /\ paused \subseteq Thread
  BY DEF IInv, TypeOK
<1>2. seq' \in [Core -> Sequencer] /\ \A d \in Core : Stays(d)
  BY <1>1 DEF SameSwitch, Stays
<1>3. TypeOK' /\ WaitsOnce' /\ Recorded' /\ OutOfService'
  BY <1>1, <1>2, StayingKeeps
<1>4. StalledWhenAway'
  BY <1>1 DEF IInv, StalledWhenAway, SameSwitch, Runs, Elements
<1> QED
  BY <1>3, <1>4 DEF IInv

LEMMA RunningSteps ==
  ASSUME IInv, NEW c \in Core,
         \/ RunCycle(c) \/ OwnInterrupt(c) \/ HandleInterrupt(c)
         \/ \E why \in {"IDLE_ENTER", "EXCEPTION"} : Request(c, why)
  PROVE  IInv'
<1>1. seq[c] \in Sequencer /\ raise_early_interrupt \subseteq Thread
  BY DEF IInv, TypeOK
<1>2. LongerOnly(seq[c], Longer(seq[c]))
  BY <1>1, LongerIs
<1>3. CASE RunCycle(c)
  <2> DEFINE a == IF Longer(seq[c]).last = thread_preempt
                  THEN Asked(Longer(seq[c]), "LONG_RUNNING") ELSE Longer(seq[c])
  <2>1. AskedOnly(Longer(seq[c]), "LONG_RUNNING", Asked(Longer(seq[c]), "LONG_RUNNING"))
    BY <1>2, AskedIs DEF LongerOnly, Reason
  <2>2. SameSwitch(seq[c], a)
    BY <1>2, <2>1 DEF LongerOnly, AskedOnly, SameSwitch
  <2>3. seq' = [seq EXCEPT ![c] = a]
    BY <1>3 DEF RunCycle
  <2> HIDE DEF a
  <2> QED
    BY <1>1, <1>3, <2>2, <2>3, SameSwitchKeeps DEF RunCycle
<1>4. CASE OwnInterrupt(c)
  <2> DEFINE a == [Longer(seq[c]) EXCEPT !.state = "HANDLING_INTERRUPT"]
  <2>1. SameSwitch(seq[c], a)
    BY <1>2, <1>4 DEF LongerOnly, SameSwitch, Sequencer, SwitchState, OwnInterrupt, In
  <2>2. seq' = [seq EXCEPT ![c] = a]
    BY <1>4 DEF OwnInterrupt
  <2> HIDE DEF a
  <2> QED
    BY <1>1, <1>4, <2>1, <2>2, SameSwitchKeeps DEF OwnInterrupt
<1>5. CASE HandleInterrupt(c)
  <2> DEFINE s == [Longer(seq[c]) EXCEPT !.state = "NONE"]
             a == IF s.reason # "NONE" THEN [s EXCEPT !.state = "CHECK_YIELD"]
                  ELSE IF s.last >= thread_preempt THEN Asked(s, "LONG_RUNNING")
                  ELSE IF s.early > 0 THEN AskedEarly([s EXCEPT !.early = @ - 1])
                  ELSE s
  <2>1. SameSwitch(seq[c], s) /\ [s EXCEPT !.state = "CHECK_YIELD"] \in Sequencer
    BY <1>2, <1>5 DEF LongerOnly, SameSwitch, Sequencer, SwitchState, HandleInterrupt, In
  <2>2. AskedOnly(s, "LONG_RUNNING", Asked(s, "LONG_RUNNING"))
    BY <2>1, AskedIs DEF SameSwitch, Reason
  <2> DEFINE e == [s EXCEPT !.early = @ - 1]
  <2>7. s.early > 0 => /\ e \in Sequencer /\ e.early < MaxEarly
                       /\ e.mai = s.mai /\ e.state = s.state /\ e.reason = s.reason
    <3> HIDE DEF s
    <3>1. s \in Sequencer /\ s.early \in 0 .. MaxEarly
      BY <2>1 DEF SameSwitch, Sequencer
    <3> QED
      BY <3>1, BoundAssumption DEF Sequencer
  <2>8. s.early > 0 => AskedOnly(e, "PAUSED_THREAD_INTERRUPT", AskedEarly(e))
    <3> HIDE DEF s, e
    <3> QED
      BY <2>7, AskedEarlyIs
  <2>3. seq[c].state \notin {"OUT", "IN"}
    BY <1>5 DEF HandleInterrupt, In
  <2>4. [s EXCEPT !.state = "CHECK_YIELD"].state = "CHECK_YIELD"
        /\ [s EXCEPT !.state = "CHECK_YIELD"].mai = s.mai
        /\ [s EXCEPT !.state = "CHECK_YIELD"].reason = s.reason
    BY <2>1 DEF SameSwitch, Sequencer
  <2>5. seq' = [seq EXCEPT ![c] = a]
    BY <1>5 DEF HandleInterrupt
  <2> HIDE DEF s
  <2>9. s.early > 0 => SameSwitch(seq[c], AskedEarly(e))
    <3> HIDE DEF e
    <3> QED
      BY <2>1, <2>3, <2>7, <2>8 DEF AskedOnly, SameSwitch
  <2>6. SameSwitch(seq[c], a)
    BY <2>1, <2>2, <2>3, <2>4, <2>9 DEF AskedOnly, SameSwitch
  <2> HIDE DEF a
  <2> QED
    BY <1>1, <1>5, <2>5, <2>6, SameSwitchKeeps DEF HandleInterrupt
<1>6. ASSUME NEW why \in {"IDLE_ENTER", "EXCEPTION"}, Request(c, why)
      PROVE  IInv'
  <2>1. AskedOnly(seq[c], why, Asked(seq[c], why))
    BY <1>1, AskedIs DEF Reason
  <2>2. SameSwitch(seq[c], Asked(seq[c], why))
    BY <2>1 DEF AskedOnly, SameSwitch
  <2>3. seq' = [seq EXCEPT ![c] = Asked(seq[c], why)]
    BY <1>6 DEF Request
  <2> QED
    BY <1>1, <1>6, <2>2, <2>3, SameSwitchKeeps DEF Request
<1> QED
  BY <1>3, <1>4, <1>5, <1>6
LEMMA CheckYieldKeeps ==
  ASSUME IInv, NEW c \in Core, CheckYield(c)
  PROVE  IInv'
<1>1. /\ seq \in [Core -> Sequencer] /\ paused \subseteq Thread
      /\ raise_early_interrupt \subseteq Thread /\ thread_preempt \in Nat
  BY PreemptAssumption DEF IInv, TypeOK
<1>2. seq[c].mai # None /\ seq[c].state = "CHECK_YIELD" /\ seq[c].mai \in Thread
  BY <1>1 DEF CheckYield, In, Sequencer
<1>3. CASE thread_yield(c, seq[c].reason)
  <2>1. seq' = [seq EXCEPT ![c].state = "OUT"] /\ paused' = paused \union {seq[c].mai}
        /\ raise_early_interrupt' = raise_early_interrupt \union {seq[c].mai}
    BY <1>3 DEF CheckYield
  <2>2. seq' \in [Core -> Sequencer] /\ \A d \in Core : Stays(d)
    BY <1>1, <2>1 DEF Sequencer, SwitchState, Stays
  <2>3. TypeOK' /\ WaitsOnce' /\ Recorded' /\ OutOfService'
    BY <1>1, <1>2, <2>1, <2>2, StayingKeeps DEF CheckYield
  <2>4. ASSUME NEW d \in Core, NEW t \in Thread
        PROVE  /\ t \in Elements(wait_list[d]) => t \in paused'
               /\ Runs(t, d)' => (t \in paused' <=> seq'[d].state \in {"OUT", "IN"})
    <3>1. Runs(t, d)' <=> Runs(t, d)
      BY <2>2 DEF Runs, Stays
    <3>2. d # c => seq'[d] = seq[d]
      BY <1>1, <2>1
    <3>3. seq'[c].state = "OUT"
      BY <1>1, <2>1 DEF Sequencer
    <3>4. Runs(t, d) /\ d # c => t # seq[c].mai
      BY <1>2, OnePlace DEF Runs
    <3>5. Runs(t, c) => t = seq[c].mai
      BY DEF Runs
    <3> QED
      BY <2>1, <3>1, <3>2, <3>3, <3>4, <3>5 DEF IInv, StalledWhenAway
  <2>5. StalledWhenAway'
    BY <2>4 DEF StalledWhenAway, CheckYield, Elements
  <2> QED
    BY <2>3, <2>5 DEF IInv
<1>4. CASE ~thread_yield(c, seq[c].reason)
  <2> DEFINE a == [seq[c] EXCEPT !.state = "NONE", !.reason = "NONE",
                     !.last = IF seq[c].reason = "LONG_RUNNING" THEN 0 ELSE @]
  <2>1. SameSwitch(seq[c], a)
    <3>1. seq[c] \in Sequencer /\ 0 \in 0 .. thread_preempt + 1
      BY <1>1
    <3>2. seq[c].reason # "DISABLE_CORE"
      BY <1>4 DEF thread_yield
    <3>3. a \in Sequencer /\ a.mai = seq[c].mai /\ a.state = "NONE"
      BY <3>1 DEF Sequencer, SwitchState, Reason
    <3> QED
      BY <1>2, <3>2, <3>3 DEF SameSwitch
  <2>2. seq' = [seq EXCEPT ![c] = a]
    BY <1>4 DEF CheckYield
  <2> HIDE DEF a
  <2> QED
    BY <1>1, <1>4, <2>1, <2>2, SameSwitchKeeps DEF CheckYield
<1> QED
  BY <1>3, <1>4

LEMMA SwitchInKeeps ==
  ASSUME IInv, NEW c \in Core, SwitchIn(c)
  PROVE  IInv'
<1>1. /\ seq \in [Core -> Sequencer] /\ paused \subseteq Thread
      /\ raise_early_interrupt \subseteq Thread
  BY DEF IInv, TypeOK
<1>2. seq[c].mai # None /\ seq[c].state = "IN" /\ seq[c].mai \in Thread
  BY <1>1 DEF SwitchIn, In, Sequencer
<1>3. seq' = [seq EXCEPT ![c].state = "NONE"] /\ paused' = paused \ {seq[c].mai}
  BY DEF SwitchIn
<1>4. seq' \in [Core -> Sequencer] /\ \A d \in Core : Stays(d)
  BY <1>1, <1>3 DEF Sequencer, SwitchState, Stays
<1>5. TypeOK' /\ WaitsOnce' /\ Recorded' /\ OutOfService'
  BY <1>1, <1>3, <1>4, StayingKeeps DEF SwitchIn
<1>6. ASSUME NEW d \in Core, NEW t \in Thread
      PROVE  /\ t \in Elements(wait_list[d]) => t \in paused'
             /\ Runs(t, d)' => (t \in paused' <=> seq'[d].state \in {"OUT", "IN"})
  <2>1. Runs(t, d)' <=> Runs(t, d)
    BY <1>4 DEF Runs, Stays
  <2>2. d # c => seq'[d] = seq[d]
    BY <1>1, <1>3
  <2>3. seq'[c].state = "NONE"
    BY <1>1, <1>3 DEF Sequencer
  <2>4. Runs(t, d) /\ d # c => t # seq[c].mai
    BY <1>2, OnePlace DEF Runs
  <2>5. t \in Elements(wait_list[d]) => t # seq[c].mai
    BY <1>2, OnePlace DEF Runs
  <2>6. Runs(t, c) => t = seq[c].mai
    BY DEF Runs
  <2> QED
    BY <1>3, <2>1, <2>2, <2>3, <2>4, <2>5, <2>6 DEF IInv, StalledWhenAway
<1>7. StalledWhenAway'
  BY <1>6 DEF StalledWhenAway, SwitchIn, Elements
<1> QED
  BY <1>5, <1>7 DEF IInv
-----------------------------------------------------------------------------
(* Interrupts for stalled threads                                          *)

LEMMA ToFrontKeeps ==
  ASSUME IInv, NEW t \in Thread, t_ctxt[t] = None, ToFront(vcpu_2_pcpu[t], t),
         UNCHANGED <<vcpu_2_pcpu, t_ctxt, paused, disabled_core, disables>>,
         raise_early_interrupt' \subseteq Thread
  PROVE  IInv'
<1> DEFINE c == vcpu_2_pcpu[t]
           l == wait_list[c]
<1>1. /\ seq \in [Core -> Sequencer] /\ c \in Core /\ paused \subseteq Thread
      /\ wait_list \in [Core -> Seq(Thread)]
  BY DEF IInv, TypeOK
<1>2. t \in Elements(l) /\ IsInjective(l)
  BY <1>1 DEF IInv, Recorded, WaitsOnce
<1>3. AskedOnly(seq[c], "PAUSED_THREAD_INTERRUPT", seq'[c]) /\ \A d \in Core \ {c} : seq'[d] = seq[d]
  <2>1. AskedOnly(seq[c], "PAUSED_THREAD_INTERRUPT", AskedEarly(seq[c]))
    BY <1>1, AskedEarlyIs DEF ToFront
  <2> QED
    BY <1>1, <2>1 DEF ToFront
<1>4. /\ wait_list'[c] \in Seq(Thread) /\ IsInjective(wait_list'[c])
      /\ Elements(wait_list'[c]) = Elements(l)
  <2> DEFINE K == {i \in DOMAIN l : l[i] = t}
             r == Drop(l, K)
  <2>1. K = {i \in DOMAIN l : l[i] \in {t}}
    OBVIOUS
  <2>2. Leaves(l, r, {t})
    BY <1>1, <1>2, <2>1, DropLeaves
  <2>3. <<t>> \in Seq(Thread) /\ IsInjective(<<t>>) /\ Elements(<<t>>) = {t}
    BY OneThread
  <2>4. Joined(<<t>>, r, <<t>> \o r)
    BY <2>2, <2>3, ConcatJoins DEF Leaves
  <2>5. wait_list'[c] = IF Len(l) = 1 THEN l ELSE <<t>> \o r
    BY <1>1 DEF ToFront, Without
  <2> HIDE DEF r, K
  <2> QED
    BY <1>1, <1>2, <2>2, <2>3, <2>4, <2>5 DEF Leaves, Joined
<1>5. \A d \in Core \ {c} : wait_list'[d] = wait_list[d]
  BY <1>1 DEF ToFront
<1>6. wait_list' \in [Core -> Seq(Thread)]
  BY <1>1, <1>4, <1>5 DEF ToFront
<1>7. \A d \in Core : /\ Elements(wait_list'[d]) = Elements(wait_list[d])
                      /\ IsInjective(wait_list'[d])
  BY <1>4, <1>5 DEF IInv, WaitsOnce
<1>8. seq' \in [Core -> Sequencer]
  BY <1>1, <1>3 DEF ToFront, AskedOnly
<1>9. \A d \in Core : /\ seq'[d].mai = seq[d].mai
                      /\ seq[d].reason = "DISABLE_CORE" => seq'[d].reason = "DISABLE_CORE"
                      /\ seq'[d].state \in {"OUT", "IN"} <=> seq[d].state \in {"OUT", "IN"}
  BY <1>3 DEF AskedOnly
<1> HIDE DEF c, l
<1>10. TypeOK'
  BY <1>6, <1>8 DEF IInv, TypeOK
<1>11. WaitsOnce'
  BY <1>7 DEF IInv, WaitsOnce
<1>12. Recorded'
  BY <1>7, <1>9 DEF IInv, TypeOK, Recorded, Runs
<1>13. OutOfService'
  BY <1>9 DEF IInv, OutOfService, TypeOK
<1>14. StalledWhenAway'
  BY <1>7, <1>9 DEF IInv, StalledWhenAway, Runs
<1> QED
  BY <1>10, <1>11, <1>12, <1>13, <1>14 DEF IInv

LEMMA InspectInterruptKeeps ==
  ASSUME IInv, NEW t \in Thread, InspectInterrupt(t)
  PROVE  IInv'
<1>1. raise_early_interrupt' \subseteq Thread
  BY DEF IInv, TypeOK, InspectInterrupt
<1>2. CASE t_ctxt[t] = None
  BY <1>1, <1>2, ToFrontKeeps DEF InspectInterrupt
<1>3. CASE t_ctxt[t] # None
  <2>1. UNCHANGED <<seq, wait_list, vcpu_2_pcpu, t_ctxt, paused, disabled_core, disables>>
    BY <1>3 DEF InspectInterrupt
  <2>2. seq' \in [Core -> Sequencer] /\ (\A c \in Core : Stays(c)) /\ paused' \subseteq Thread
    BY <2>1 DEF IInv, TypeOK, Stays
  <2>3. TypeOK' /\ WaitsOnce' /\ Recorded' /\ OutOfService'
    BY <1>1, <2>1, <2>2, StayingKeeps
  <2>4. StalledWhenAway'
    BY <2>1 DEF IInv, StalledWhenAway, Runs, Elements
  <2> QED
    BY <2>3, <2>4 DEF IInv
<1> QED
  BY <1>2, <1>3

LEMMA SynchronousInterruptKeeps ==
  ASSUME IInv, NEW t \in Thread, SynchronousInterrupt(t)
  PROVE  IInv'
<1>1. raise_early_interrupt' \subseteq Thread
  BY DEF IInv, TypeOK, SynchronousInterrupt
<1>2. CASE t_ctxt[t] = None
  BY <1>1, <1>2, ToFrontKeeps DEF SynchronousInterrupt
<1>3. CASE t_ctxt[t] # None
  <2> DEFINE c == t_ctxt[t]
  <2>1. /\ seq \in [Core -> Sequencer] /\ paused \subseteq Thread /\ c \in Core
    BY <1>3 DEF IInv, TypeOK
  <2>2. seq[c].mai = t
    BY <2>1 DEF IInv, Recorded, Runs
  <2>3. seq' = [seq EXCEPT ![c].state = "HANDLING_INTERRUPT"] /\ paused' = paused \ {t}
        /\ UNCHANGED <<wait_list, vcpu_2_pcpu, t_ctxt, disabled_core, disables>>
    BY <1>3, <2>2 DEF SynchronousInterrupt
  <2> HIDE DEF c
  <2>4. seq' \in [Core -> Sequencer] /\ \A d \in Core : Stays(d)
    BY <2>1, <2>3 DEF Sequencer, SwitchState, Stays
  <2>5. TypeOK' /\ WaitsOnce' /\ Recorded' /\ OutOfService'
    BY <1>1, <2>1, <2>3, <2>4, StayingKeeps
  <2>6. ASSUME NEW d \in Core, NEW u \in Thread
        PROVE  /\ u \in Elements(wait_list[d]) => u \in paused'
               /\ Runs(u, d)' => (u \in paused' <=> seq'[d].state \in {"OUT", "IN"})
    <3>1. Runs(u, d)' <=> Runs(u, d)
      BY <2>4 DEF Runs, Stays
    <3>2. d # c => seq'[d] = seq[d]
      BY <2>1, <2>3
    <3>3. seq'[c].state = "HANDLING_INTERRUPT"
      BY <2>1, <2>3 DEF Sequencer
    <3>4. Runs(u, d) /\ d # c => u # t
      BY <2>1, <2>2, OnePlace DEF Runs
    <3>5. u \in Elements(wait_list[d]) => u # t
      BY <2>1, <2>2, OnePlace DEF Runs
    <3>6. Runs(u, c) => u = t
      BY <2>2 DEF Runs
    <3> QED
      BY <2>3, <3>1, <3>2, <3>3, <3>4, <3>5, <3>6 DEF IInv, StalledWhenAway
  <2>7. StalledWhenAway'
    BY <2>3, <2>6 DEF StalledWhenAway, Elements
  <2> QED
    BY <2>5, <2>7 DEF IInv
<1> QED
  BY <1>2, <1>3
-----------------------------------------------------------------------------
(* Steps that move threads                                                 *)

LEMMA SwitchOutKeeps ==
  ASSUME IInv, NEW c \in Core, SwitchOut(c)
  PROVE  IInv'
<1> DEFINE t == seq[c].mai
           to == vcpu_2_pcpu[t]
           idle == seq[to].mai = None
           waiting == IF idle THEN wait_list
                      ELSE [wait_list EXCEPT ![to] = Append(@, t)]
           next == IF waiting[c] = <<>> THEN None ELSE Head(waiting[c])
           left == [seq EXCEPT ![c] = [@ EXCEPT !.state = "NONE", !.reason = "NONE"]]
<1>1. /\ seq \in [Core -> Sequencer] /\ paused \subseteq Thread
      /\ wait_list \in [Core -> Seq(Thread)] /\ None \notin Core \union Thread
      /\ raise_early_interrupt \subseteq Thread /\ vcpu_2_pcpu \in [Thread -> Core]
  BY SMTT(30), CoreAssumption DEF IInv, TypeOK
<1>2. seq[c].mai # None /\ seq[c].state = "OUT" /\ t \in Thread /\ to \in Core
  BY ZenonT(40), <1>1 DEF SwitchOut, In, Sequencer
<1>3. UNCHANGED <<vcpu_2_pcpu, paused, raise_early_interrupt, disabled_core, disables>>
  BY DEF SwitchOut
<1>4. CASE ~thread_yield(c, seq[c].reason)
  <2>1. seq' = [seq EXCEPT ![c] = SwitchedTo(seq[c], t)] /\ UNCHANGED <<wait_list, t_ctxt>>
    BY <1>4 DEF SwitchOut
  <2>2. SwitchedIn(t, SwitchedTo(seq[c], t))
    BY ZenonT(40), <1>1, <1>2, SwitchedIs
  <2>3. SameSwitch(seq[c], SwitchedTo(seq[c], t))
    BY <1>2, <1>4, <2>2 DEF SwitchedIn, SameSwitch, thread_yield
  <2> HIDE DEF t
  <2> QED
    BY <1>1, <1>3, <2>1, <2>3, SameSwitchKeeps
<1>5. CASE thread_yield(c, seq[c].reason)
  <2>1. wait_list' = IF next = None THEN waiting ELSE [waiting EXCEPT ![c] = Tail(@)]
    BY <1>5 DEF SwitchOut
  <2>2. seq' = [d \in Core |->
                 IF d = c THEN SwitchedTo(left[c], next)
                 ELSE IF d = to /\ idle THEN SwitchedTo(seq[d], t)
                 ELSE seq[d]]
    BY ZenonT(40), <1>5 DEF SwitchOut
  <2>3. t_ctxt' = [u \in Thread |->
                    IF u = next THEN c
                    ELSE IF u = t THEN (IF idle THEN to ELSE None)
                    ELSE t_ctxt[u]]
    BY <1>5 DEF SwitchOut
  <2>4. idle => to # c
    BY <1>2
  <2>5. /\ \A d \in Core : t \notin Elements(wait_list[d])
        /\ \A d \in Core : Runs(t, d) => d = c
    BY <1>2, OnePlace DEF Runs
  <2>6. left[c] \in Sequencer
    BY ZenonT(40), <1>1 DEF Sequencer, SwitchState, Reason
  <2> HIDE DEF left
  <2>7. ASSUME NEW d \in Core
        PROVE  /\ waiting[d] \in Seq(Thread) /\ IsInjective(waiting[d])
               /\ Elements(waiting[d]) = IF ~idle /\ d = to THEN Elements(wait_list[d]) \union {t}
                                         ELSE Elements(wait_list[d])
    <3>1. wait_list[d] \in Seq(Thread) /\ IsInjective(wait_list[d])
      BY <1>1 DEF IInv, WaitsOnce
    <3>2. waiting[d] = IF ~idle /\ d = to THEN Append(wait_list[d], t) ELSE wait_list[d]
      BY <1>1, <1>2
    <3>3. Joined(wait_list[d], <<t>>, Append(wait_list[d], t)) /\ Elements(<<t>>) = {t}
      BY <1>2, <2>5, <3>1, AppendJoins, OneThread
    <3> HIDE DEF waiting, idle, to, t
    <3> QED
      BY <3>1, <3>2, <3>3 DEF Joined
  <2>8. waiting \in [Core -> Seq(Thread)]
    BY <1>1, <1>2, <2>7
  <2> HIDE DEF waiting
  <2>9. next # None => next \in Thread /\ next \in Elements(waiting[c])
                       /\ Leaves(waiting[c], Tail(waiting[c]), {next})
    BY <2>7, TailLeaves
  <2>10. next = None => Elements(waiting[c]) = {}
    <3>1. waiting[c] # <<>> => Head(waiting[c]) \in Thread
      BY <2>7, TailLeaves
    <3> QED
      BY <1>1, <3>1, NoThreads
  <2> HIDE DEF next
  <2>11. next \in Thread \union {None}
    BY <2>9
  <2>12. wait_list' \in [Core -> Seq(Thread)]
    BY <2>1, <2>8, <2>9 DEF Leaves
  <2>13. ASSUME NEW d \in Core
         PROVE  /\ IsInjective(wait_list'[d])
                /\ \A u \in Thread :
                     u \in Elements(wait_list'[d]) <=>
                       /\ u \in Elements(wait_list[d]) \/ (~idle /\ d = to /\ u = t)
                       /\ ~(d = c /\ u = next)
                /\ Elements(wait_list'[d]) \subseteq Thread
    <3>1. wait_list'[d] = IF next # None /\ d = c THEN Tail(waiting[c]) ELSE waiting[d]
      BY <2>1, <2>8
    <3>2. IsInjective(wait_list'[d])
          /\ Elements(wait_list'[d]) = Elements(waiting[d]) \ (IF d = c THEN {next} ELSE {})
      <4> HIDE DEF idle, to, t
      <4>1. CASE next # None /\ d = c
        BY <3>1, <4>1, <2>9 DEF Leaves
      <4>2. CASE ~(next # None /\ d = c)
        BY <3>1, <4>2, <2>7, <2>10
      <4> QED
        BY <4>1, <4>2
    <3>3. Elements(wait_list'[d]) \subseteq Thread
      BY <2>12, ElementsAreRange DEF Elements
    <3> HIDE DEF idle, to, t
    <3>4. ASSUME NEW u \in Thread
          PROVE  u \in Elements(wait_list'[d]) <=>
                   /\ u \in Elements(wait_list[d]) \/ (~idle /\ d = to /\ u = t)
                   /\ ~(d = c /\ u = next)
      <4>1. u \in Elements(waiting[d]) <=>
              u \in Elements(wait_list[d]) \/ (~idle /\ d = to /\ u = t)
        <5>1. CASE ~idle /\ d = to
          BY <2>7, <5>1
        <5>2. CASE ~(~idle /\ d = to)
          BY <2>7, <5>2
        <5> QED
          BY <5>1, <5>2
      <4> QED
        BY <3>2, <4>1
    <3> QED
      BY <3>2, <3>3, <3>4
  <2>14. \A d \in Core : /\ seq'[d] \in Sequencer
                         /\ seq'[d].mai = IF d = c THEN next
                                          ELSE IF d = to /\ idle THEN t ELSE seq[d].mai
                         /\ d = c /\ next # None => seq'[d].state = "IN"
                         /\ d # c /\ d = to /\ idle => seq'[d].state = "IN"
                         /\ d # c /\ ~(d = to /\ idle) => seq'[d] = seq[d]
    <3> TAKE d \in Core
    <3>1. /\ \A u \in Thread : SwitchedIn(u, SwitchedTo(left[c], u))
          /\ SwitchedTo(left[c], None) \in Sequencer /\ SwitchedTo(left[c], None).mai = None
      BY <2>6, SwitchedIs
    <3>2. SwitchedIn(t, SwitchedTo(seq[d], t))
      BY <1>1, <1>2, SwitchedIs
    <3> HIDE DEF idle, to, t
    <3> QED
      BY <1>1, <2>2, <2>11, <3>1, <3>2 DEF SwitchedIn
  <2>15. next # None => /\ vcpu_2_pcpu[next] = c
                        /\ \A d \in Core : Runs(next, d) => next = t /\ to = c /\ ~idle
                        /\ next \in Elements(wait_list[c]) \/ (next = t /\ to = c /\ ~idle)
    <3> SUFFICES ASSUME next # None
                 PROVE  /\ vcpu_2_pcpu[next] = c
                        /\ \A d \in Core : Runs(next, d) => next = t /\ to = c /\ ~idle
                        /\ next \in Elements(wait_list[c]) \/ (next = t /\ to = c /\ ~idle)
      OBVIOUS
    <3>1. next \in Elements(wait_list[c]) \/ (next = t /\ to = c /\ ~idle)
      BY <2>7, <2>9
    <3>2. next \in Elements(wait_list[c]) => vcpu_2_pcpu[next] = c
      BY DEF IInv, WaitsOnce
    <3>3. next \in Elements(wait_list[c]) => \A d \in Core : ~Runs(next, d)
      BY <2>9, OnePlace
    <3> QED
      BY <3>1, <3>2, <3>3
  <2>16. TypeOK'
    <3>1. seq' \in [Core -> Sequencer]
      BY <2>2, <2>14
    <3>2. t_ctxt' \in [Thread -> Core \union {None}]
      BY <1>2, <2>3 DEF IInv, TypeOK
    <3> QED
      BY <1>3, <2>12, <3>1, <3>2 DEF IInv, TypeOK
  <2>17. WaitsOnce'
    <3> SUFFICES ASSUME NEW d \in Core, NEW u \in Elements(wait_list'[d])
                 PROVE  vcpu_2_pcpu[u] = d
      BY <1>3, <2>13 DEF WaitsOnce, Elements
    <3>1. u \in Thread /\ (u \in Elements(wait_list[d]) \/ (d = to /\ u = t))
      BY <2>13
    <3> QED
      BY <3>1 DEF IInv, WaitsOnce
  <2>18. Recorded'
    <3> SUFFICES ASSUME NEW u \in Thread
                 PROVE  /\ \A d \in Core : t_ctxt'[u] = d <=> seq'[d].mai = u
                        /\ t_ctxt'[u] = None <=> u \in Elements(wait_list'[vcpu_2_pcpu[u]])
      BY <1>3 DEF Recorded, Runs, Elements
    <3>1. vcpu_2_pcpu[u] \in Core
      BY <1>1
    <3>2. /\ \A d \in Core : t_ctxt[u] = d <=> Runs(u, d)
          /\ t_ctxt[u] = None <=> u \in Elements(wait_list[vcpu_2_pcpu[u]])
      BY DEF IInv, Recorded
    <3>3. CASE u = next
      <4>1. t_ctxt'[u] = c /\ u # None
        BY <2>3, <3>3, <1>1
      <4>2. u \notin Elements(wait_list'[vcpu_2_pcpu[u]])
        BY <3>3, <4>1, <2>13, <2>15
      <4>3. ASSUME NEW d \in Core, d # c PROVE seq'[d].mai # u
        <5>1. ~(d = to /\ idle /\ u = t)
          BY <3>3, <4>1, <4>3, <2>15, <2>5
        <5>2. seq[d].mai = u => FALSE
          BY <3>3, <4>1, <4>3, <2>15, <2>5 DEF Runs
        <5> QED
          BY <2>14, <4>3, <5>1, <5>2
      <4>4. seq'[c].mai = u
        BY <2>14, <3>3
      <4> QED
        BY <1>1, <4>1, <4>2, <4>3, <4>4
    <3>4. CASE u # next /\ u = t
      <4>1. seq'[c].mai # u
        BY <2>14, <3>4
      <4>2. \A d \in Core : d # c => (seq'[d].mai = u <=> d = to /\ idle)
        BY <2>14, <2>5, <3>4 DEF Runs
      <4>3. t_ctxt'[u] = IF idle THEN to ELSE None
        BY <2>3, <3>4
      <4>4. u \in Elements(wait_list'[to]) <=> ~idle
        BY <2>13, <2>5, <3>4, <1>2
      <4> QED
        BY <1>1, <1>2, <2>4, <3>4, <4>1, <4>2, <4>3, <4>4
    <3>5. CASE u # next /\ u # t
      <4>1. t_ctxt'[u] = t_ctxt[u]
        BY <2>3, <3>5
      <4>2. u \in Elements(wait_list'[vcpu_2_pcpu[u]]) <=> u \in Elements(wait_list[vcpu_2_pcpu[u]])
        BY <2>13, <3>1, <3>5
      <4>3. ASSUME NEW d \in Core PROVE seq'[d].mai = u <=> Runs(u, d)
        <5>1. u # None
          BY <1>1
        <5> QED
          BY <2>14, <3>5, <5>1 DEF Runs
      <4> QED
        BY <3>2, <4>1, <4>2, <4>3
    <3> QED
      BY <3>3, <3>4, <3>5
  <2>19. OutOfService'
    <3>1. to \notin disabled_core
      BY <1>2 DEF IInv, OutOfService
    <3>2. c \in disabled_core => next = None
      BY <2>9, <2>15 DEF IInv, OutOfService
    <3>3. disabled_core \subseteq Core
      BY DEF IInv, TypeOK
    <3>4. ASSUME NEW d \in disabled_core, seq'[d].mai # None
          PROVE  seq'[d].reason = "DISABLE_CORE"
      <4>1. d \in Core /\ d # c /\ d # to
        BY <3>1, <3>2, <3>3, <3>4, <2>14
      <4>2. seq'[d] = seq[d]
        BY <4>1, <2>14
      <4> QED
        BY <3>4, <4>2 DEF IInv, OutOfService
    <3> QED
      BY <1>3, <3>4 DEF IInv, OutOfService
  <2>20. StalledWhenAway'
    <3>1. t \in paused
      BY <1>2 DEF IInv, StalledWhenAway, Runs
    <3>2. next # None => next \in paused
      BY <2>9, <2>15, <3>1 DEF IInv, StalledWhenAway
    <3>3. ASSUME NEW d \in Core, NEW u \in Thread
          PROVE  /\ u \in Elements(wait_list'[d]) => u \in paused
                 /\ seq'[d].mai = u => (u \in paused <=> seq'[d].state \in {"OUT", "IN"})
      <4>1. u \in Elements(wait_list'[d]) => u \in paused
        BY <2>13, <3>1 DEF IInv, StalledWhenAway
      <4>2. CASE d = c
        BY <1>1, <2>14, <3>2, <4>1, <4>2
      <4>3. CASE d # c /\ d = to /\ idle
        BY <2>14, <3>1, <4>1, <4>3
      <4>4. CASE d # c /\ ~(d = to /\ idle)
        <5>1. seq'[d] = seq[d]
          BY <2>14, <4>4
        <5> QED
          BY <4>1, <5>1 DEF IInv, StalledWhenAway, Runs
      <4> QED
        BY <4>2, <4>3, <4>4
    <3> QED
      BY <1>3, <3>3 DEF StalledWhenAway, Runs, Elements
  <2> QED
    BY SMTT(30), <2>16, <2>17, <2>18, <2>19, <2>20 DEF IInv
<1> QED
  BY <1>4, <1>5
LEMMA DisableCoreKeeps ==
  ASSUME IInv, NEW c \in Core, DisableCore(c)
  PROVE  IInv'
<1> DEFINE moved == {t \in Thread : vcpu_2_pcpu[t] = c}
           enabled == Core \ (disabled_core \union {c})
<1>1. /\ seq \in [Core -> Sequencer] /\ wait_list \in [Core -> Seq(Thread)]
      /\ vcpu_2_pcpu \in [Thread -> Core] /\ MaxDisables \in Nat /\ disables \in 0 .. MaxDisables
  BY BoundAssumption DEF IInv, TypeOK
<1>2. PICK f \in [moved -> enabled] :
        /\ vcpu_2_pcpu' = [t \in Thread |-> IF t \in DOMAIN f THEN f[t] ELSE vcpu_2_pcpu[t]]
        /\ wait_list' = [d \in Core |->
             IF d = c THEN <<>>
             ELSE wait_list[d] \o InOrder({t \in DOMAIN f :
                    f[t] = d /\ t \in Elements(wait_list[c])})]
  BY DEF DisableCore, Proxies
<1> DEFINE come(d) == {t \in moved : f[t] = d /\ t \in Elements(wait_list[c])}
<1>3. \A t \in Thread : vcpu_2_pcpu'[t] = IF t \in moved THEN f[t] ELSE vcpu_2_pcpu[t]
  BY <1>2
<1>4. \A t \in moved : f[t] \in enabled
  BY <1>2
<1>5. \A d \in Core : Elements(wait_list[d]) \subseteq Thread
  BY <1>1 DEF Elements
<1>6. ASSUME NEW d \in Core
      PROVE  /\ wait_list'[d] \in Seq(Thread) /\ IsInjective(wait_list'[d])
             /\ Elements(wait_list'[d]) = IF d = c THEN {} ELSE Elements(wait_list[d]) \union come(d)
  <2>1. CASE d = c
    BY <1>2, <2>1, NoThreads
  <2>2. CASE d # c
    <3>1. wait_list[d] \in Seq(Thread) /\ IsInjective(wait_list[d])
      BY <1>1 DEF IInv, WaitsOnce
    <3>2. come(d) \in SUBSET Thread
      OBVIOUS
    <3>3. wait_list'[d] = wait_list[d] \o InOrder(come(d))
      BY <1>2, <2>2
    <3>4. Elements(wait_list[d]) \intersect come(d) = {}
      BY <2>2 DEF IInv, WaitsOnce
    <3> HIDE DEF come
    <3>5. /\ InOrder(come(d)) \in Seq(Thread) /\ IsInjective(InOrder(come(d)))
          /\ Elements(InOrder(come(d))) = come(d)
      BY <3>2, InOrderLists
    <3>6. Joined(wait_list[d], InOrder(come(d)), wait_list[d] \o InOrder(come(d)))
      BY <3>1, <3>4, <3>5, ConcatJoins
    <3> QED
      BY <2>2, <3>3, <3>5, <3>6 DEF Joined
  <2> QED
    BY <2>1, <2>2
<1>7. AskedOnly(seq[c], "DISABLE_CORE", Asked(seq[c], "DISABLE_CORE"))
  BY <1>1, AskedIs DEF Reason
<1>8. \A d \in Core : /\ seq'[d] \in Sequencer /\ seq'[d].mai = seq[d].mai
                      /\ d # c => seq'[d] = seq[d]
                      /\ seq'[d].state \in {"OUT", "IN"} <=> seq[d].state \in {"OUT", "IN"}
      /\ seq'[c].reason = "DISABLE_CORE"
  BY <1>1, <1>7 DEF DisableCore, AskedOnly
<1>9. /\ disabled_core' = disabled_core \union {c} /\ disables' = disables + 1
      /\ disables < MaxDisables /\ UNCHANGED <<t_ctxt, paused, raise_early_interrupt>>
  BY DEF DisableCore
<1>10. TypeOK'
  <2>1. seq' \in [Core -> Sequencer]
    BY <1>1, <1>8 DEF DisableCore
  <2>2. wait_list' \in [Core -> Seq(Thread)]
    BY <1>2, <1>6
  <2>3. vcpu_2_pcpu' \in [Thread -> Core]
    BY <1>1, <1>2, <1>3, <1>4
  <2>4. disables' \in 0 .. MaxDisables
    BY <1>1, <1>9
  <2> QED
    BY <1>9, <2>1, <2>2, <2>3, <2>4 DEF IInv, TypeOK
<1>11. WaitsOnce'
  <2> SUFFICES ASSUME NEW d \in Core, NEW t \in Elements(wait_list'[d])
               PROVE  vcpu_2_pcpu'[t] = d
    BY <1>6 DEF WaitsOnce, Elements
  <2>1. d # c /\ (t \in Elements(wait_list[d]) \/ t \in come(d))
    BY <1>6
  <2>2. CASE t \in Elements(wait_list[d])
    <3>1. t \in Thread /\ vcpu_2_pcpu[t] = d
      BY <1>5, <2>2 DEF IInv, WaitsOnce
    <3> QED
      BY <1>3, <2>1, <3>1
  <2>3. CASE t \in come(d)
    BY <1>3, <2>3
  <2> QED
    BY <2>1, <2>2, <2>3
<1>12. Recorded'
  <2> SUFFICES ASSUME NEW t \in Thread
               PROVE  /\ \A d \in Core : t_ctxt[t] = d <=> Runs(t, d)
                      /\ t_ctxt[t] = None <=> t \in Elements(wait_list'[vcpu_2_pcpu'[t]])
    BY <1>8, <1>9 DEF Recorded, Runs, Elements
  <2>1. /\ \A d \in Core : t_ctxt[t] = d <=> Runs(t, d)
        /\ t_ctxt[t] = None <=> t \in Elements(wait_list[vcpu_2_pcpu[t]])
    BY DEF IInv, Recorded
  <2>2. CASE t \in moved
    <3>1. f[t] \in Core /\ f[t] # c /\ vcpu_2_pcpu'[t] = f[t] /\ vcpu_2_pcpu[t] = c
      BY <1>3, <1>4, <2>2
    <3>2. t \notin Elements(wait_list[f[t]])
      BY <3>1 DEF IInv, WaitsOnce
    <3>3. Elements(wait_list'[f[t]]) = Elements(wait_list[f[t]]) \union come(f[t])
      BY <1>6, <3>1
    <3>4. t \in Elements(wait_list'[f[t]]) <=> t \in Elements(wait_list[c])
      BY <2>2, <3>2, <3>3
    <3> QED
      BY <2>1, <3>1, <3>4
  <2>3. CASE t \notin moved
    <3>1. vcpu_2_pcpu'[t] = vcpu_2_pcpu[t] /\ vcpu_2_pcpu[t] # c /\ vcpu_2_pcpu[t] \in Core
      BY <1>1, <1>3, <2>3
    <3>2. t \in Elements(wait_list'[vcpu_2_pcpu[t]]) <=> t \in Elements(wait_list[vcpu_2_pcpu[t]])
      BY <1>6, <2>3, <3>1
    <3> QED
      BY <2>1, <3>1, <3>2
  <2> QED
    BY <2>2, <2>3
<1>13. OutOfService'
  <2>1. \A t \in Thread : vcpu_2_pcpu'[t] \notin disabled_core'
    BY <1>3, <1>4, <1>9 DEF IInv, OutOfService
  <2>2. \A d \in disabled_core' : seq'[d].mai # None => seq'[d].reason = "DISABLE_CORE"
    BY <1>8, <1>9 DEF IInv, OutOfService, TypeOK
  <2>3. disables' # 0
    BY <1>1, <1>9
  <2> QED
    BY <2>1, <2>2, <2>3 DEF OutOfService
<1>14. StalledWhenAway'
  <2> SUFFICES ASSUME NEW d \in Core, NEW t \in Thread
               PROVE  /\ t \in Elements(wait_list'[d]) => t \in paused
                      /\ Runs(t, d) => (t \in paused <=> seq'[d].state \in {"OUT", "IN"})
    BY <1>8, <1>9 DEF StalledWhenAway, Runs, Elements
  <2>1. t \in Elements(wait_list'[d]) => t \in Elements(wait_list[d]) \union Elements(wait_list[c])
    BY <1>6
  <2> QED
    BY <1>8, <2>1 DEF IInv, StalledWhenAway
<1> QED
  BY <1>10, <1>11, <1>12, <1>13, <1>14 DEF IInv

LEMMA EnableCoreKeeps ==
  ASSUME HomesAreSafe, IInv, NEW c \in Core, EnableCore(c)
  PROVE  IInv'
<1> DEFINE own == {t \in Thread : host[t] = c}
           back == {t \in own : t \in Elements(wait_list[vcpu_2_pcpu[t]])}
<1>1. /\ seq \in [Core -> Sequencer] /\ wait_list \in [Core -> Seq(Thread)]
      /\ vcpu_2_pcpu \in [Thread -> Core] /\ MaxDisables \in Nat /\ disables \in 0 .. MaxDisables
      /\ t_ctxt \in [Thread -> Core \union {None}] /\ None \notin Core \union Thread
  BY BoundAssumption, CoreAssumption DEF IInv, TypeOK
<1>2. c \in disabled_core /\ seq[c].mai = None
  BY DEF EnableCore, EnableDue, EnableAsserts
<1>3. \A t \in own : t = c
  <2>1. MaxDisables # 0
    BY <1>1, <1>2 DEF IInv, OutOfService
  <2> QED
    BY <2>1 DEF HomesAreSafe
<1>4. UNCHANGED <<paused, raise_early_interrupt, disables>> /\ disabled_core' = disabled_core \ {c}
  BY DEF EnableCore
<1>5. \A t \in Thread : vcpu_2_pcpu'[t] = IF t \in own THEN c ELSE vcpu_2_pcpu[t]
  BY <1>3 DEF EnableCore
<1>6. \A t \in Thread : t_ctxt'[t] = IF t \in back THEN c ELSE t_ctxt[t]
  BY DEF EnableCore
<1>7. \A d \in Core : /\ wait_list[d] \in Seq(Thread) /\ IsInjective(wait_list[d])
                      /\ Elements(wait_list[d]) \subseteq Thread
                      /\ \A t \in Elements(wait_list[d]) : vcpu_2_pcpu[t] = d
  BY <1>1 DEF IInv, WaitsOnce, Elements
<1>8. \A d \in Core : Leaves(wait_list[d], wait_list'[d], back)
  <2> TAKE d \in Core
  <2> DEFINE K == {i \in DOMAIN wait_list[d] :
                     wait_list[d][i] \in back /\ vcpu_2_pcpu[wait_list[d][i]] = d}
  <2>1. wait_list'[d] = Drop(wait_list[d], K)
    BY DEF EnableCore
  <2>2. \A i \in DOMAIN wait_list[d] : wait_list[d][i] \in Elements(wait_list[d])
    BY DEF Elements
  <2>3. K = {i \in DOMAIN wait_list[d] : wait_list[d][i] \in back}
    BY <1>7, <2>2
  <2> HIDE DEF K, back
  <2> QED
    BY <1>7, <2>1, <2>3, DropLeaves
<1>9. back # {} => back = {c} /\ c \in Thread
  BY <1>3
<1>10. Elements(wait_list[c]) = {}
  BY <1>2, <1>7 DEF IInv, OutOfService
<1>11. /\ \A d \in Core : d # c => seq'[d] = seq[d]
       /\ back = {} => seq'[c] = seq[c]
       /\ back # {} => SwitchedIn(c, seq'[c])
       /\ seq' \in [Core -> Sequencer]
  <2>1. CASE back = {}
    <3>1. seq' = seq
      BY <2>1 DEF EnableCore
    <3> QED
      BY <1>1, <2>1, <3>1
  <2>2. CASE back # {}
    <3>1. seq' = [seq EXCEPT ![c] = SwitchedTo(seq[c], InOrder(back)[Cardinality(back)])]
      BY <2>2 DEF EnableCore
    <3>2. back = {c} /\ c \in Thread /\ back \in SUBSET Thread
      BY <1>9, <2>2
    <3> HIDE DEF back
    <3>3. Cardinality(back) = 1
      BY <3>2, FS_Singleton
    <3>4. InOrder(back) \in Seq(back) /\ Len(InOrder(back)) = 1
      BY <3>2, <3>3, InOrderLists
    <3>5. InOrder(back)[1] = c
      BY <3>2, <3>4
    <3>6. SwitchedIn(c, SwitchedTo(seq[c], c))
      BY <1>1, <3>2, SwitchedIs
    <3> QED
      BY <1>1, <2>2, <3>1, <3>3, <3>5, <3>6 DEF SwitchedIn
  <2> QED
    BY <2>1, <2>2
<1>12. \A t \in back : /\ t \in Thread /\ t_ctxt[t] = None /\ t \in paused
                       /\ \A d \in Core : ~Runs(t, d)
  <2> TAKE t \in back
  <2>1. t \in Thread /\ t \in Elements(wait_list[vcpu_2_pcpu[t]]) /\ vcpu_2_pcpu[t] \in Core
    BY <1>1
  <2>2. t_ctxt[t] = None /\ t \in paused
    BY <2>1 DEF IInv, Recorded, StalledWhenAway
  <2> QED
    BY <1>1, <2>1, <2>2 DEF IInv, Recorded
<1>13. \A t \in own : t \notin back => t_ctxt[t] # None
  BY DEF IInv, Recorded
<1> HIDE DEF back
<1>14. TypeOK'
  <2>1. wait_list' \in [Core -> Seq(Thread)]
    BY <1>8 DEF EnableCore, Leaves
  <2>2. vcpu_2_pcpu' \in [Thread -> Core]
    BY <1>1, <1>5 DEF EnableCore
  <2>3. t_ctxt' \in [Thread -> Core \union {None}]
    BY <1>1, <1>6 DEF EnableCore
  <2> QED
    BY <1>4, <1>11, <2>1, <2>2, <2>3 DEF IInv, TypeOK
<1>15. \A d \in Core : \A t \in Elements(wait_list'[d]) :
         t \in Elements(wait_list[d]) /\ t \notin back /\ t \in Thread /\ vcpu_2_pcpu[t] = d
  BY <1>7, <1>8 DEF Leaves
<1>16. \A d \in Core : \A t \in Elements(wait_list'[d]) : t \notin own
  <2> TAKE d \in Core
  <2> TAKE t \in Elements(wait_list'[d])
  <2>1. t \in Elements(wait_list[d]) /\ t \notin back /\ vcpu_2_pcpu[t] = d
    BY <1>15
  <2> QED
    BY <2>1 DEF back
<1>17. WaitsOnce'
  <2>1. \A d \in Core : IsInjective(wait_list'[d])
    BY <1>8 DEF Leaves
  <2>2. \A d \in Core : \A t \in Elements(wait_list'[d]) : vcpu_2_pcpu'[t] = d
    BY <1>5, <1>15, <1>16
  <2> QED
    BY <2>1, <2>2 DEF WaitsOnce, Elements
<1>18. Recorded'
  <2> SUFFICES ASSUME NEW t \in Thread
               PROVE  /\ \A d \in Core : t_ctxt'[t] = d <=> seq'[d].mai = t
                      /\ t_ctxt'[t] = None <=> t \in Elements(wait_list'[vcpu_2_pcpu'[t]])
    BY DEF Recorded, Runs, Elements
  <2>1. /\ \A d \in Core : t_ctxt[t] = d <=> seq[d].mai = t
        /\ t_ctxt[t] = None <=> t \in Elements(wait_list[vcpu_2_pcpu[t]])
    BY DEF IInv, Recorded, Runs
  <2>2. Elements(wait_list'[c]) = {}
    BY <1>8, <1>10 DEF Leaves
  <2>3. CASE t \in back
    <3>1. t = c /\ t_ctxt'[t] = c /\ vcpu_2_pcpu'[t] = c
      BY <1>5, <1>6, <1>9, <2>3 DEF back
    <3>2. seq'[c].mai = t
      BY <1>11, <2>3, <3>1 DEF SwitchedIn
    <3>3. \A d \in Core : d # c => seq'[d].mai # t
      BY <1>11, <1>12, <2>3 DEF Runs
    <3> QED
      BY <1>1, <2>2, <3>1, <3>2, <3>3
  <2>4. CASE t \notin back
    <3>1. t_ctxt'[t] = t_ctxt[t]
      BY <1>6, <2>4
    <3>2. ASSUME NEW d \in Core PROVE seq'[d].mai = t <=> seq[d].mai = t
      <4>1. CASE d = c /\ back # {}
        <5>1. seq'[d].mai = c /\ t # c
          BY <1>9, <1>11, <2>4, <4>1 DEF SwitchedIn
        <5> QED
          BY <1>1, <1>2, <4>1, <5>1
      <4>2. CASE ~(d = c /\ back # {})
        BY <1>11, <4>2
      <4> QED
        BY <4>1, <4>2
    <3>3. CASE t \in own
      <4>1. t_ctxt[t] # None
        BY <1>13, <2>4, <3>3
      <4>2. t \notin Elements(wait_list'[vcpu_2_pcpu'[t]])
        BY <1>5, <2>2, <3>3
      <4> QED
        BY <2>1, <3>1, <3>2, <4>1, <4>2
    <3>4. CASE t \notin own
      <4>1. vcpu_2_pcpu'[t] = vcpu_2_pcpu[t] /\ vcpu_2_pcpu[t] \in Core
        BY <1>1, <1>5, <3>4
      <4>2. t \in Elements(wait_list'[vcpu_2_pcpu[t]]) <=> t \in Elements(wait_list[vcpu_2_pcpu[t]])
        BY <1>8, <2>4, <4>1 DEF Leaves
      <4> QED
        BY <2>1, <3>1, <3>2, <4>1, <4>2
    <3> QED
      BY <3>3, <3>4
  <2> QED
    BY <2>3, <2>4
<1>19. OutOfService'
  <2>1. \A t \in Thread : vcpu_2_pcpu'[t] \notin disabled_core'
    BY <1>4, <1>5 DEF IInv, OutOfService
  <2>2. \A d \in disabled_core' : seq'[d] = seq[d] /\ d \in disabled_core
    BY <1>4, <1>11 DEF IInv, TypeOK
  <2> QED
    BY <1>4, <2>1, <2>2 DEF IInv, OutOfService
<1>20. StalledWhenAway'
  <2> SUFFICES ASSUME NEW d \in Core, NEW t \in Thread
               PROVE  /\ t \in Elements(wait_list'[d]) => t \in paused
                      /\ seq'[d].mai = t => (t \in paused <=> seq'[d].state \in {"OUT", "IN"})
    BY <1>4 DEF StalledWhenAway, Runs, Elements
  <2>1. t \in Elements(wait_list'[d]) => t \in paused
    BY <1>15 DEF IInv, StalledWhenAway
  <2>2. CASE d = c /\ back # {}
    <3>1. c \in paused
      BY <1>9, <1>12, <2>2
    <3> QED
      BY <1>11, <2>1, <2>2, <3>1 DEF SwitchedIn
  <2>3. CASE ~(d = c /\ back # {})
    <3>1. seq'[d] = seq[d]
      BY <1>11, <2>3
    <3> QED
      BY <2>1, <3>1 DEF IInv, StalledWhenAway, Runs
  <2> QED
    BY <2>2, <2>3
<1> QED
  BY <1>14, <1>17, <1>18, <1>19, <1>20 DEF IInv
-----------------------------------------------------------------------------
(* The theorems                                                            *)

LEMMA StepKeeps ==
  ASSUME HomesAreSafe, IInv, [Next]_vars
  PROVE  IInv'
<1>1. CASE UNCHANGED vars
  BY <1>1 DEF vars, IInv, TypeOK, WaitsOnce, Recorded, OutOfService, StalledWhenAway,
              Runs, Elements
<1>2. ASSUME NEW c \in Core, CoreStep(c) \/ OwnInterrupt(c)
      PROVE  IInv'
  BY <1>2, RunningSteps, CheckYieldKeeps, SwitchOutKeeps, SwitchInKeeps DEF CoreStep
<1>3. ASSUME NEW c \in Core, NEW why \in {"IDLE_ENTER", "EXCEPTION"}, Request(c, why)
      PROVE  IInv'
  BY <1>3, RunningSteps
<1> QED
  BY <1>1, <1>2, <1>3, DisableCoreKeeps, EnableCoreKeeps, InspectInterruptKeeps,
     SynchronousInterruptKeeps DEF Next

LEMMA AlwaysIInv == ASSUME HomesAreSafe PROVE Spec => []IInv
<1>1. IInv /\ [Next]_vars => IInv'
  BY StepKeeps
<1> QED
  BY <1>1, InitIInv, PTL DEF Spec

(* Every variable of the scheduler keeps its type.                         *)
THEOREM TypeCorrect == ASSUME HomesAreSafe PROVE Spec => []TypeOK
<1>1. IInv => TypeOK
  BY DEF IInv
<1> QED
  BY <1>1, AlwaysIInv, PTL

(* A thread is on one core or waits once for one: no step of a switch, no  *)
(* interrupt and no core that comes or goes loses it or doubles it.        *)
THEOREM NeverLostNorDoubled == ASSUME HomesAreSafe PROVE Spec => []PlacedOnce
<1>1. ASSUME IInv, NEW t \in Thread
      PROVE  Cardinality({c \in Core : Runs(t, c)}) +
             Cardinality({w \in Core \X (1 .. Cardinality(Thread)) :
                            /\ w[2] \in DOMAIN wait_list[w[1]]
                            /\ wait_list[w[1]][w[2]] = t}) = 1
  <2> DEFINE on == {c \in Core : Runs(t, c)}
             at == {w \in Core \X (1 .. Cardinality(Thread)) :
                      /\ w[2] \in DOMAIN wait_list[w[1]]
                      /\ wait_list[w[1]][w[2]] = t}
  <2>1. /\ wait_list \in [Core -> Seq(Thread)] /\ vcpu_2_pcpu[t] \in Core
        /\ t_ctxt[t] \in Core \union {None} /\ None \notin Core
        /\ \A c \in Core : t_ctxt[t] = c <=> Runs(t, c)
        /\ t_ctxt[t] = None <=> t \in Elements(wait_list[vcpu_2_pcpu[t]])
    BY <1>1, CoreAssumption DEF IInv, TypeOK, Recorded
  <2>2. CASE t_ctxt[t] # None
    <3>1. on = {t_ctxt[t]}
      BY <2>1, <2>2
    <3>2. \A c \in Core : t \notin Elements(wait_list[c])
      BY <1>1, <2>1, <2>2, OnePlace
    <3>3. at = {}
      BY <3>2 DEF Elements
    <3> HIDE DEF on, at
    <3>4. Cardinality(on) = 1
      BY <3>1, FS_Singleton
    <3>5. Cardinality(at) = 0
      BY <3>3, FS_EmptySet
    <3>6. Cardinality(on) + Cardinality(at) = 1
      BY <3>4, <3>5
    <3> QED
      BY <3>6 DEF on, at
  <2>3. CASE t_ctxt[t] = None
    <3> DEFINE c == vcpu_2_pcpu[t]
               l == wait_list[c]
    <3>1. on = {}
      BY <2>1, <2>3
    <3>2. l \in Seq(Thread) /\ IsInjective(l) /\ t \in Elements(l) /\ DOMAIN l = 1 .. Len(l)
      BY <1>1, <2>1, <2>3 DEF IInv, WaitsOnce
    <3>3. Len(l) \in Nat /\ Len(l) <= Cardinality(Thread) /\ Cardinality(Thread) \in Nat
      <4> DEFINE D == 1 .. Len(l)
      <4>1. IsFiniteSet(Thread) /\ Cardinality(Thread) \in Nat
        BY CoreAssumption, FS_CardinalityType
      <4>2. IsFiniteSet(D) /\ Cardinality(D) = Len(l) /\ Len(l) \in Nat
        BY <3>2, FS_Interval
      <4>3. l \in Injection(D, Thread)
        BY <3>2 DEF Injection
      <4> HIDE DEF D, l
      <4> QED
        BY <4>1, <4>2, <4>3, FS_Injection
    <3>4. PICK i \in 1 .. Len(l) : l[i] = t
      BY <3>2 DEF Elements
    <3>5. i \in 1 .. Cardinality(Thread)
      BY <3>3
    <3>6. at = {<<c, i>>}
      <4>1. <<c, i>> \in at
        BY <2>1, <3>2, <3>4, <3>5
      <4>2. ASSUME NEW w \in at PROVE w = <<c, i>>
        <5>1. w[1] \in Core /\ w[2] \in DOMAIN wait_list[w[1]] /\ wait_list[w[1]][w[2]] = t
              /\ w = <<w[1], w[2]>>
          OBVIOUS
        <5>2. t \in Elements(wait_list[w[1]])
          BY <5>1 DEF Elements
        <5>3. w[1] = c
          BY <1>1, <5>1, <5>2 DEF IInv, WaitsOnce
        <5>4. w[2] = i
          BY <5>1, <5>3, <3>2, <3>4 DEF IsInjective
        <5> QED
          BY <5>1, <5>3, <5>4
      <4> HIDE DEF at
      <4> QED
        BY <4>1, <4>2
    <3> HIDE DEF on, at
    <3>7. Cardinality(on) = 0
      BY <3>1, FS_EmptySet
    <3>8. Cardinality(at) = 1
      BY <3>6, FS_Singleton
    <3>9. Cardinality(on) + Cardinality(at) = 1
      BY <3>7, <3>8
    <3> QED
      BY <3>9 DEF on, at
  <2> QED
    BY <2>2, <2>3
<1>2. IInv => PlacedOnce
  BY <1>1 DEF PlacedOnce
<1> QED
  BY <1>2, AlwaysIInv, PTL

(* The chip's record agrees with the sequencers, and a waiting thread      *)
(* waits where it is placed, for a core in service.                        *)
THEOREM RecordKept == ASSUME HomesAreSafe PROVE Spec => []RecordAgrees
<1>1. IInv => RecordAgrees
  BY DEF IInv, Recorded, OutOfService, RecordAgrees
<1> QED
  BY <1>1, AlwaysIInv, PTL

(* A thread is stalled exactly while it waits or is on its way.            *)
THEOREM StallsAgree == ASSUME HomesAreSafe PROVE Spec => []StalledWhenAway
<1>1. IInv => StalledWhenAway
  BY DEF IInv
<1> QED
  BY <1>1, AlwaysIInv, PTL

(* The assertions of enable_core() hold whenever the disable timer brings  *)
(* a core back.                                                            *)
THEOREM EnablingIsSafe == ASSUME HomesAreSafe PROVE Spec => []EnableIsSafe
<1>1. ASSUME IInv, NEW c \in Core, EnableDue(c)
      PROVE  EnableAsserts(c)
  <2>1. c \in disabled_core /\ seq[c].mai = None
    BY <1>1 DEF EnableDue, IInv, OutOfService
  <2>2. \A t \in Thread : vcpu_2_pcpu[t] # c
    BY <1>1, <2>1 DEF IInv, OutOfService
  <2>3. wait_list[c] \in Seq(Thread)
    BY <1>1 DEF IInv, TypeOK
  <2>4. Elements(wait_list[c]) = {}
    <3>1. Elements(wait_list[c]) \subseteq Thread
      BY <2>3 DEF Elements
    <3> QED
      BY <1>1, <2>2, <3>1 DEF IInv, WaitsOnce
  <2>5. wait_list[c] = <<>>
    BY <2>3, <2>4, NoThreads
  <2> QED
    BY <2>1, <2>2, <2>5 DEF EnableAsserts
<1>2. IInv => EnableIsSafe
  BY <1>1 DEF EnableIsSafe
<1> QED
  BY <1>2, AlwaysIInv, PTL
=============================================================================
