---------------------------- MODULE ThreadSched ----------------------------
(***************************************************************************)
(* The base policy that places threads (Simics processors) on cores:       *)
(* src/processor/csp_alg/base_alg.cc under thread_scheduler.cc, the switch *)
(* machinery of every sequencer (sequencer.cc), the map the chip keeps     *)
(* (chip.cc) and the stalls of the memory driver (mem_driver.cc).  Cores   *)
(* have one context.  The regime is that in which threads are stalled,     *)
(* use_processor off (sequencer.cc:527,2303; it is on by default), with    *)
(* neither thread hopping nor a long preempt nor no_os_pause, so that      *)
(* every thread may be preempted.  Simulated time is kept up to the        *)
(* preempt timer only.                                                     *)
(***************************************************************************)
EXTENDS Subseq

CONSTANTS
  Core,           (* the cores, 0 .. num_ctxt - 1                          *)
  Thread,         (* the threads, 0 .. num_threads - 1                     *)
  host,           (* vcpu_host_pcpu: thread -> the core it belongs to      *)
  None,           (* no thread, no core                                    *)
  thread_preempt, (* the cycles between two requests of the preempt timer  *)
  PausedInterrupt,(* g_conf_paused_vcpu_interrupt                          *)
  MaxEarly,       (* bound: the early interrupts a core has on record      *)
  MaxDisables     (* bound: how often cores are disabled                   *)

ASSUME CoreAssumption ==
  /\ Core \subseteq Nat /\ Thread \subseteq Nat
  /\ IsFiniteSet(Core) /\ IsFiniteSet(Thread)
  /\ None \notin Core \union Thread
ASSUME HostAssumption == host \in [Thread -> Core]
ASSUME PreemptAssumption == thread_preempt \in Nat \ {0}
ASSUME BoundAssumption == MaxEarly \in Nat /\ MaxDisables \in Nat

VARIABLES
  seq,            (* core -> its sequencer: mai[0], thread_switch_state,   *)
                  (*   thread_yield_reason, last_thread_switch and         *)
                  (*   early_interrupt_queue                               *)
  wait_list,      (* core -> the threads that wait for it                  *)
  vcpu_2_pcpu,    (* thread -> the core it is placed on                    *)
  t_ctxt,         (* thread -> the core the chip has on record for it      *)
  paused,         (* the threads the memory driver stalls                  *)
  raise_early_interrupt, (* those whose next interrupt is passed on        *)
  disabled_core,  (* the cores taken out of service                        *)
  disables        (* how often a core was disabled                         *)

vars == <<seq, wait_list, vcpu_2_pcpu, t_ctxt, paused, raise_early_interrupt,
          disabled_core, disables>>

(* The reasons of the code that make a difference: IDLE_ENTER stands for   *)
(* all those the policy honours when a thread waits, EXCEPTION for those   *)
(* it never does.                                                          *)
Reason == {"NONE", "LONG_RUNNING", "IDLE_ENTER", "PAUSED_THREAD_INTERRUPT",
           "EXCEPTION", "DISABLE_CORE"}

(* OUT and IN stand for the START and WAIT states of a switch: the pipe    *)
(* drains or the thread's state is moved, for any time.                    *)
SwitchState == {"NONE", "CHECK_YIELD", "OUT", "IN", "HANDLING_INTERRUPT"}

Sequencer == [mai : Thread \union {None}, state : SwitchState, reason : Reason,
              last : 0 .. thread_preempt + 1, early : 0 .. MaxEarly]

Elements(s) == {s[i] : i \in DOMAIN s}
Waiting(t) == \E c \in Core : t \in Elements(wait_list[c])

Without(s, t) == Drop(s, {i \in DOMAIN s : s[i] = t})

(* The members of a set of threads in the order of their numbers.          *)
InOrder(S) ==
  [i \in 1 .. Cardinality(S) |-> CHOOSE t \in S : Rank(S, t) = i]

(* initialize_vanilla_logical(): the first thread of every core runs.      *)
Init ==
  /\ wait_list = [c \in Core |->
       LET own == InOrder({t \in Thread : host[t] = c})
       IN IF own = <<>> THEN <<>> ELSE Tail(own)]
  /\ seq = [c \in Core |->
       LET own == InOrder({t \in Thread : host[t] = c})
       IN [mai |-> IF own = <<>> THEN None ELSE Head(own),
           state |-> "NONE", reason |-> "NONE", last |-> 0, early |-> 0]]
  /\ vcpu_2_pcpu = host
  /\ t_ctxt = [t \in Thread |-> IF Waiting(t) THEN None ELSE host[t]]
  /\ paused = {t \in Thread : Waiting(t)}
  /\ raise_early_interrupt = Thread
  /\ disabled_core = {}
  /\ disables = 0

-----------------------------------------------------------------------------
(* What the parts of the code do to a sequencer                            *)

(* Mutant of Prioritized: first come, first served.                        *)
PrioritizedOld(new, old) == old

Prioritized(new, old) == IF new = "DISABLE_CORE" THEN new ELSE old

(* potential_thread_switch()                                               *)
Asked(s, why) ==
  [s EXCEPT !.reason = IF @ = "NONE" THEN why ELSE Prioritized(why, @),
            !.state = IF @ = "NONE" THEN "CHECK_YIELD" ELSE @]

(* ... and the count of early interrupts the core keeps with such a one.   *)
AskedEarly(s) == [Asked(s, "PAUSED_THREAD_INTERRUPT") EXCEPT !.early = @ + 1]

OneLess(n) == IF n = 0 THEN 0 ELSE n - 1

(* A thread comes in: its core starts over, one early interrupt less.      *)
Entered(s, t) ==
  [mai |-> t, state |-> "IN", reason |-> "NONE", last |-> 0, early |-> OneLess(s.early)]

(* Mutant of SwitchedTo: a core that is left idle keeps its thread.        *)
SwitchedToStays(s, t) == IF t = None THEN s ELSE Entered(s, t)

(* switch_to_thread(): a core that is left idle keeps its switch state.    *)
(* Its time runs on and is not read: it is past the timer at once.         *)
SwitchedTo(s, t) ==
  IF t = None THEN [s EXCEPT !.mai = None, !.last = thread_preempt + 1]
  ELSE Entered(s, t)

(* Mutant of Longer: time is not reset with the timer.                     *)
LongerOn(s) == [s EXCEPT !.last = @ + 1]

(* Time counts up to the cycle in which the timer has been missed.         *)
Longer(s) == [s EXCEPT !.last = IF @ > thread_preempt THEN @ ELSE @ + 1]

(* Mutant of thread_yield: the timer is not honoured.                      *)
thread_yieldIdle(c, why) ==
  \/ why = "DISABLE_CORE"
  \/ wait_list[c] # <<>> /\ why \in {"IDLE_ENTER", "PAUSED_THREAD_INTERRUPT"}

(* thread_yield(): does the policy want the thread of core c to leave?     *)
thread_yield(c, why) ==
  \/ why = "DISABLE_CORE"
  \/ /\ wait_list[c] # <<>>
     /\ why \in {"LONG_RUNNING", "IDLE_ENTER", "PAUSED_THREAD_INTERRUPT"}

-----------------------------------------------------------------------------
(* check_for_thread_switch(), one action per switch state                  *)

In(c, state) == seq[c].mai # None /\ seq[c].state = state

(* A cycle of a thread that runs: the timer is compared for equality.      *)
RunCycle(c) ==
  /\ In(c, "NONE")
  /\ seq' = [seq EXCEPT ![c] =
       IF Longer(@).last = thread_preempt THEN Asked(Longer(@), "LONG_RUNNING")
       ELSE Longer(@)]
  /\ UNCHANGED <<wait_list, vcpu_2_pcpu, t_ctxt, paused, raise_early_interrupt,
                 disabled_core, disables>>

(* The thread that runs has an interrupt pending; the timer is not read.   *)
OwnInterrupt(c) ==
  /\ PausedInterrupt
  /\ In(c, "NONE")
  /\ seq' = [seq EXCEPT ![c] = [Longer(@) EXCEPT !.state = "HANDLING_INTERRUPT"]]
  /\ UNCHANGED <<wait_list, vcpu_2_pcpu, t_ctxt, paused, raise_early_interrupt,
                 disabled_core, disables>>

(* The interrupt is handled.  A reason given meanwhile is looked at, else  *)
(* the timer, else an early interrupt on record is asked for once more.    *)
HandleInterrupt(c) ==
  /\ In(c, "HANDLING_INTERRUPT")
  /\ seq' = [seq EXCEPT ![c] =
       LET s == [Longer(@) EXCEPT !.state = "NONE"]
       IN IF s.reason # "NONE" THEN [s EXCEPT !.state = "CHECK_YIELD"]
          ELSE IF s.last >= thread_preempt THEN Asked(s, "LONG_RUNNING")
          ELSE IF s.early > 0 THEN AskedEarly([s EXCEPT !.early = @ - 1])
          ELSE s]
  /\ UNCHANGED <<wait_list, vcpu_2_pcpu, t_ctxt, paused, raise_early_interrupt,
                 disabled_core, disables>>

(* The policy is asked.  If it agrees the thread is stalled and the pipe   *)
(* drains; a refused preempt timer starts again.                           *)
CheckYield(c) ==
  /\ In(c, "CHECK_YIELD")
  /\ IF thread_yield(c, seq[c].reason)
       THEN /\ seq' = [seq EXCEPT ![c].state = "OUT"]
            /\ paused' = paused \union {seq[c].mai}
            /\ raise_early_interrupt' = raise_early_interrupt \union {seq[c].mai}
       ELSE /\ seq' = [seq EXCEPT ![c] =
                 [seq[c] EXCEPT !.state = "NONE", !.reason = "NONE",
                                !.last = IF seq[c].reason = "LONG_RUNNING" THEN 0 ELSE @]]
            /\ UNCHANGED <<paused, raise_early_interrupt>>
  /\ UNCHANGED <<wait_list, vcpu_2_pcpu, t_ctxt, disabled_core, disables>>

(* switch_out_epilogue() and ready_for_switch(): the policy is asked once  *)
(* more.  The thread goes where it is placed, to run there if that core is *)
(* idle and to wait otherwise, and the first waiting thread comes in.      *)
SwitchOut(c) ==
  /\ In(c, "OUT")
  /\ LET t == seq[c].mai
         to == vcpu_2_pcpu[t]
         idle == seq[to].mai = None
         waiting == IF idle THEN wait_list
                    ELSE [wait_list EXCEPT ![to] = Append(@, t)]
         next == IF waiting[c] = <<>> THEN None ELSE Head(waiting[c])
         left == [seq EXCEPT ![c] = [@ EXCEPT !.state = "NONE", !.reason = "NONE"]]
     IN IF thread_yield(c, seq[c].reason)
          THEN /\ wait_list' = IF next = None THEN waiting
                               ELSE [waiting EXCEPT ![c] = Tail(@)]
               /\ seq' = [d \in Core |->
                    IF d = c THEN SwitchedTo(left[c], next)
                    ELSE IF d = to /\ idle THEN SwitchedTo(seq[d], t)
                    ELSE seq[d]]
               /\ t_ctxt' = [u \in Thread |->
                    IF u = next THEN c
                    ELSE IF u = t THEN (IF idle THEN to ELSE None)
                    ELSE t_ctxt[u]]
          ELSE /\ seq' = [seq EXCEPT ![c] = SwitchedTo(@, t)]
               /\ UNCHANGED <<wait_list, t_ctxt>>
  /\ UNCHANGED <<vcpu_2_pcpu, paused, raise_early_interrupt, disabled_core, disables>>

(* Mutant of SwitchIn: the stall is not released.                          *)
SwitchInStalled(c) ==
  /\ In(c, "IN")
  /\ seq' = [seq EXCEPT ![c].state = "NONE"]
  /\ UNCHANGED <<paused, raise_early_interrupt, wait_list, vcpu_2_pcpu, t_ctxt,
                 disabled_core, disables>>

(* switch_in_epilogue(): the thread runs.  A reason given meanwhile stays. *)
SwitchIn(c) ==
  /\ In(c, "IN")
  /\ seq' = [seq EXCEPT ![c].state = "NONE"]
  /\ paused' = paused \ {seq[c].mai}
  /\ raise_early_interrupt' = raise_early_interrupt \ {seq[c].mai}
  /\ UNCHANGED <<wait_list, vcpu_2_pcpu, t_ctxt, disabled_core, disables>>

-----------------------------------------------------------------------------
(* Requests from outside                                                   *)

(* The thread itself gives a reason: it goes idle, spins or traps.         *)
Request(c, why) ==
  /\ In(c, "NONE") \/ In(c, "HANDLING_INTERRUPT")
  /\ seq' = [seq EXCEPT ![c] = Asked(@, why)]
  /\ UNCHANGED <<wait_list, vcpu_2_pcpu, t_ctxt, paused, raise_early_interrupt,
                 disabled_core, disables>>

(* handle_interrupt_thread(): a waiting thread is brought to the front and *)
(* the core it waits for is asked to switch.  MaxEarly bounds the count.   *)
ToFront(c, t) ==
  /\ seq[c].early < MaxEarly
  /\ wait_list' = [wait_list EXCEPT ![c] =
       IF Len(@) = 1 THEN @ ELSE <<t>> \o Without(@, t)]
  /\ seq' = [seq EXCEPT ![c] = AskedEarly(@)]

(* A stalled thread receives an interrupt: inspect_interrupt() finds it    *)
(* pending, and acts for threads that are on no core only.                 *)
InspectInterrupt(t) ==
  /\ PausedInterrupt
  /\ t \in paused \intersect raise_early_interrupt
  /\ raise_early_interrupt' = raise_early_interrupt \ {t}
  /\ IF t_ctxt[t] = None THEN ToFront(vcpu_2_pcpu[t], t)
     ELSE UNCHANGED <<seq, wait_list>>
  /\ UNCHANGED <<vcpu_2_pcpu, t_ctxt, paused, disabled_core, disables>>

(* A cross call of another thread: interrupt_on_running_thread() releases  *)
(* a thread that is on its way out or in, whatever the switch had done.    *)
SynchronousInterrupt(t) ==
  /\ PausedInterrupt
  /\ t \in paused \intersect raise_early_interrupt
  /\ raise_early_interrupt' = raise_early_interrupt \ {t}
  /\ IF t_ctxt[t] = None
       THEN ToFront(vcpu_2_pcpu[t], t) /\ UNCHANGED paused
       ELSE /\ seq' = [seq EXCEPT ![t_ctxt[t]].state = "HANDLING_INTERRUPT"]
            /\ paused' = paused \ {seq[t_ctxt[t]].mai}
            /\ UNCHANGED wait_list
  /\ UNCHANGED <<vcpu_2_pcpu, t_ctxt, disabled_core, disables>>

-----------------------------------------------------------------------------
(* simulate_enable_disable_core()                                          *)

(* Mutant of Proxies: cores disabled before count as enabled.              *)
ProxiesAny(c, moved) == [moved -> Core \ {c}]

(* get_proxy_core() for every thread of a core, in the order of their      *)
(* numbers: one of the enabled cores with the shortest wait list, which    *)
(* those that went before have made longer.                                *)
Proxies(c, moved) ==
  LET enabled == Core \ (disabled_core \union {c})
      length(f, d, t) == Len(wait_list[d]) +
        Cardinality({u \in moved : u < t /\ f[u] = d /\ u \in Elements(wait_list[c])})
  IN {f \in [moved -> enabled] :
        \A t \in moved : \A d \in enabled : length(f, f[t], t) <= length(f, d, t)}

(* The running thread of the core is asked to leave; its threads are       *)
(* placed elsewhere and those that wait for it wait there.  The policy     *)
(* asserts that some core is left.                                         *)
DisableCore(c) ==
  /\ disables < MaxDisables
  /\ c \notin disabled_core
  /\ Core \ disabled_core # {c}
  /\ \E f \in Proxies(c, {t \in Thread : vcpu_2_pcpu[t] = c}) :
       /\ vcpu_2_pcpu' = [t \in Thread |-> IF t \in DOMAIN f THEN f[t] ELSE vcpu_2_pcpu[t]]
       /\ wait_list' = [d \in Core |->
            IF d = c THEN <<>>
            ELSE wait_list[d] \o InOrder({t \in DOMAIN f :
                   f[t] = d /\ t \in Elements(wait_list[c])})]
  /\ seq' = [seq EXCEPT ![c] = Asked(@, "DISABLE_CORE")]
  /\ disabled_core' = disabled_core \union {c}
  /\ disables' = disables + 1
  /\ UNCHANGED <<t_ctxt, paused, raise_early_interrupt>>

(* The core returns to service, after a period that outlasts the switch    *)
(* asked for when it was disabled.                                         *)
EnableDue(c) == c \in disabled_core /\ ~(seq[c].mai # None /\ seq[c].reason = "DISABLE_CORE")

(* What enable_core() asserts.                                             *)
EnableAsserts(c) ==
  /\ wait_list[c] = <<>>
  /\ seq[c].mai = None
  /\ \A t \in Thread : host[t] = c => vcpu_2_pcpu[t] # c

(* Its own threads are placed on it again; those that wait elsewhere run.  *)
EnableCore(c) ==
  /\ EnableDue(c)
  /\ EnableAsserts(c)
  /\ LET own == {t \in Thread : host[t] = c}
         back == {t \in own : t \in Elements(wait_list[vcpu_2_pcpu[t]])}
     IN /\ wait_list' = [d \in Core |->
             Drop(wait_list[d],
                  {i \in DOMAIN wait_list[d] :
                     wait_list[d][i] \in back /\ vcpu_2_pcpu[wait_list[d][i]] = d})]
        /\ seq' = IF back = {} THEN seq
                  ELSE [seq EXCEPT ![c] =
                          SwitchedTo(@, InOrder(back)[Cardinality(back)])]
        /\ t_ctxt' = [t \in Thread |-> IF t \in back THEN c ELSE t_ctxt[t]]
        /\ vcpu_2_pcpu' = [t \in Thread |-> IF t \in own THEN t ELSE vcpu_2_pcpu[t]]
  /\ disabled_core' = disabled_core \ {c}
  /\ UNCHANGED <<paused, raise_early_interrupt, disables>>

CoreStep(c) ==
  RunCycle(c) \/ HandleInterrupt(c) \/ CheckYield(c) \/ SwitchOut(c) \/ SwitchIn(c)

Next ==
  \/ \E c \in Core : \/ CoreStep(c) \/ OwnInterrupt(c)
                     \/ DisableCore(c) \/ EnableCore(c)
                     \/ \E why \in {"IDLE_ENTER", "EXCEPTION"} : Request(c, why)
  \/ \E t \in Thread : InspectInterrupt(t) \/ SynchronousInterrupt(t)

(* Every core is stepped in every cycle.  Between its interrupts and traps *)
(* a thread executes, and cross calls do not hit every attempt to switch   *)
(* it out.  The disable timer brings every core back.                      *)
Fairness ==
  \A c \in Core : /\ WF_vars(CoreStep(c))
                  /\ SF_vars(RunCycle(c))
                  /\ SF_vars(SwitchOut(c))
                  /\ WF_vars(EnableCore(c))

Spec == Init /\ [][Next]_vars /\ Fairness

-----------------------------------------------------------------------------
(* Properties                                                              *)

(* Every variable has its type.                                            *)
TypeOK ==
  /\ seq \in [Core -> Sequencer]
  /\ wait_list \in [Core -> Seq(Thread)]
  /\ vcpu_2_pcpu \in [Thread -> Core]
  /\ t_ctxt \in [Thread -> Core \union {None}]
  /\ paused \subseteq Thread /\ raise_early_interrupt \subseteq Thread
  /\ disabled_core \subseteq Core
  /\ disables \in 0 .. MaxDisables

Runs(t, c) == seq[c].mai = t

(* No thread is lost or doubled while cores come and go: it is on one core *)
(* or waits, once, for one.                                                *)
PlacedOnce ==
  \A t \in Thread :
    Cardinality({c \in Core : Runs(t, c)}) +
    Cardinality({w \in Core \X (1 .. Cardinality(Thread)) :
                   /\ w[2] \in DOMAIN wait_list[w[1]]
                   /\ wait_list[w[1]][w[2]] = t}) = 1

(* The chip's record of a thread agrees with the sequencers, and a thread  *)
(* waits for the core it is placed on, which is in service: the interrupt  *)
(* code looks for a thread there and asserts that it finds it.             *)
RecordAgrees ==
  \A t \in Thread :
    /\ \A c \in Core : t_ctxt[t] = c <=> Runs(t, c)
    /\ t_ctxt[t] = None =>
         /\ t \in Elements(wait_list[vcpu_2_pcpu[t]])
         /\ vcpu_2_pcpu[t] \notin disabled_core

(* A thread is stalled while it waits or is on its way, and not while it   *)
(* runs or handles an interrupt (asserted at src/processor/sequencer.cc:610). *)
StalledWhenAway ==
  \A c \in Core, t \in Thread :
    /\ t \in Elements(wait_list[c]) => t \in paused
    /\ Runs(t, c) => (t \in paused <=> seq[c].state \in {"OUT", "IN"})

(* When the disable timer brings a core back, the assertions of            *)
(* enable_core() hold (src/processor/csp_alg/base_alg.cc:350,351,360).     *)
EnableIsSafe == \A c \in Core : EnableDue(c) => EnableAsserts(c)

(* "thread_yield() is called every PREEMPT_CYCLES"                         *)
(* (src/processor/sequencer.cc:462): the timer is never passed unseen.     *)
AskedEveryPreempt ==
  \A c \in Core : In(c, "NONE") => seq[c].last <= thread_preempt

(* A thread that waits gets to run, unless a timer is passed unseen.       *)
EveryThreadRuns ==
  \A t \in Thread :
    Waiting(t) ~> \/ \E c \in Core : Runs(t, c) /\ seq[c].state = "NONE"
                  \/ ~AskedEveryPreempt
=============================================================================
