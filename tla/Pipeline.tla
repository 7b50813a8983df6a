------------------------------ MODULE Pipeline ------------------------------
(***************************************************************************)
(* One core (src/processor/sequencer.cc, dynamic.cc) whose hardware        *)
(* contexts share an instruction window, a load queue, a store queue and a *)
(* store buffer.  Instructions come and go out of order across contexts;   *)
(* branches, faults, interrupts and full queues squash a context's         *)
(* youngest instructions; an instruction object is recycled once nothing   *)
(* is outstanding for it.  unsafe_load() answers true for every load, so   *)
(* loads go to memory only as the oldest instruction of their context and  *)
(* with the store buffer empty, and the bypass paths are never taken.      *)
(***************************************************************************)
EXTENDS Window, FiniteSets

CONSTANTS
  Ctxt,         (* the hardware contexts, numbers                          *)
  Addr,
  Program,      (* context -> its instructions: [kind, addr] records       *)
  WrongOps,     (* the instructions a wrong path may hold                  *)
  Instr,        (* the pool of dynamic_instr_t objects                     *)
  window_size, load_size, store_size, stbuf_size,
  MaxTraps      (* bound: the faults and interrupts of a behaviour         *)

ASSUME InstrAssumption == None \notin Instr
ASSUME SizeAssumption ==
  /\ {window_size, load_size, store_size, stbuf_size} \subseteq Nat \ {0}
  /\ MaxTraps \in Nat
ASSUME ProgramAssumption ==
  LET op == [kind : {"branch", "load", "store", "unsafe"}, addr : Addr]
  IN Program \in [Ctxt -> Seq(op)] /\ WrongOps \subseteq op

VARIABLES
  instr,          (* object -> its fields                                  *)
  iwindow, ldq, stq, st_buffer,
  fetch,          (* context -> what the speculative pc points to          *)
  fetch_status,   (* context -> why it may not fetch                       *)
  ivec,           (* context -> an interrupt is pending                    *)
  retired,        (* context -> how many instructions it committed         *)
  mem, done,      (* memory, and the operations that took effect           *)
  traps           (* how many faults and interrupts there have been        *)

queues == <<iwindow, ldq, stq>>
vars == <<instr, iwindow, ldq, stq, st_buffer, fetch, fetch_status, ivec,
          retired, mem, done, traps>>

Ops == WrongOps \cup UNION {{Program[t][p] : p \in DOMAIN Program[t]} : t \in Ctxt}
Loads == {"load"}
Stores == {"store", "unsafe"}   (* unsafe: an immediate-release store *)
Before == {"FETCH", "DECODE", "WAIT", "EXECUTE"}
(* What faulted has the stage it faulted in beside it, except_pstage. *)
Exception(where) ==
  CASE where = "FETCH" -> "FETCH_EXCEPTION" [] where = "EXECUTE" -> "EXECUTE_EXCEPTION"
    [] OTHER -> "REEXEC_EXCEPTION"
SpecException(where) ==
  CASE where = "FETCH" -> "FETCH_SPEC_EXCEPTION"
    [] where = "EXECUTE" -> "EXECUTE_SPEC_EXCEPTION"
    [] OTHER -> "REEXEC_SPEC_EXCEPTION"
Exceptions == {"FETCH_EXCEPTION", "EXECUTE_EXCEPTION", "REEXEC_EXCEPTION"}
SpecExceptions ==
  {"FETCH_SPEC_EXCEPTION", "EXECUTE_SPEC_EXCEPTION", "REEXEC_SPEC_EXCEPTION"}
Faulty == Exceptions \cup SpecExceptions
(* Nobody knows yet what these do. *)
Undecoded == {"FETCH", "FETCH_EXCEPTION", "FETCH_SPEC_EXCEPTION"}
PastExecute == {"MEM", "SAFE", "PROGRESS", "REEXEC", "COMMIT"} \cup Faulty
InBuffer == {"INSERT", "MEM_HIER", "DONE"}

NoOp == [kind |-> "none", addr |-> None]
Dead == [tid |-> None, pos |-> 0, op |-> NoOp, wrong |-> FALSE, miss |-> FALSE,
         stage |-> "END", slot |-> -1, lsq_slot |-> -1, prev |-> None,
         next |-> None, outstanding |-> {}]

Init ==
  /\ instr = [i \in Instr |-> Dead]
  /\ iwindow = EmptyWindow(window_size)
  /\ ldq = EmptyWindow(load_size)
  /\ stq = EmptyWindow(store_size)
  /\ st_buffer = EmptyWindow(stbuf_size)
  /\ fetch = [t \in Ctxt |-> [pos |-> 1, wrong |-> FALSE]]
  /\ fetch_status = [t \in Ctxt |-> {}]
  /\ ivec = [t \in Ctxt |-> FALSE]
  /\ retired = [t \in Ctxt |-> 0]
  /\ mem = [a \in Addr |-> <<0, 0>>]
  /\ done = [t \in Ctxt |-> <<>>]
  /\ traps = 0
-----------------------------------------------------------------------------
(* Walks over a window that look for a context's entries. *)
Own(q, t) == {s \in Reach(q) : instr[q.w[s]].tid = t}
empty_ctxt(q, t) == Own(q, t) = {}
OldestOf(q, t) == q.w[OldestSlot(q, Own(q, t))]
tail(t) ==
  IF empty_ctxt(iwindow, t) THEN None
  ELSE iwindow.w[YoungestSlot(iwindow, Own(iwindow, t))]

(* What follows p for the fetch unit: its predicted successor, or its      *)
(* actual one once it has executed.  A faulting instruction has no actual  *)
(* successor yet, so that fetch goes astray.                               *)
WrongPath == [pos |-> 0, wrong |-> TRUE]
Committed(t) == [pos |-> retired[t] + 1, wrong |-> FALSE]
Successor(f, p) ==
  IF f[p].wrong \/ f[p].miss \/ f[p].stage \in Faulty
  THEN WrongPath
  ELSE [pos |-> f[p].pos + 1, wrong |-> FALSE]
fix_spec_state(f, t, p) == IF p = None THEN Committed(t) ELSE Successor(f, p)

Unlinked(f, gone) ==
  [i \in Instr |->
     IF i \in gone THEN [Dead EXCEPT !.outstanding = f[i].outstanding]
     ELSE [f[i] EXCEPT !.prev = IF @ \in gone THEN None ELSE @,
                       !.next = IF @ \in gone THEN None ELSE @]]

(* reassign_window_slot() and reassign_lsq_slot() *)
Reassigned(f, q, moved) ==
  [i \in Instr |->
     IF moved /\ \E s \in DOMAIN q.w : q.w[s] = i
     THEN [f[i] EXCEPT !.slot = SlotOf(q, i)] ELSE f[i]]

(* Mutant of ReassignedLsq: nobody is told of a new slot. *)
ReassignedLsqNever(f, q, moved) == f

ReassignedLsq(f, q, moved) ==
  [i \in Instr |->
     IF moved /\ \E s \in DOMAIN q.w : q.w[s] = i
     THEN [f[i] EXCEPT !.lsq_slot = SlotOf(q, i)] ELSE f[i]]

(* kill_all(): i and every younger instruction of its context leave the    *)
(* window; the oldest of them in a memory queue squashes that queue.  f is *)
(* what the caller made of the instructions, status of the fetch status.   *)
MemSquash(f, q, kinds, i, killed) ==
  LET t == f[i].tid
      there == {j \in killed : f[j].op.kind \in kinds /\ f[j].lsq_slot # -1}
      first == iwindow.w[OldestSlot(iwindow, {f[j].slot : j \in there})]
      own == {j \in Instr : f[j].tid = t}
  IN IF there = {} THEN [queue |-> q, moved |-> FALSE]
     ELSE [queue |-> Squashed(q, f[first].lsq_slot, own),
           moved |-> NeedCollapse(q, f[first].lsq_slot, own)]

kill_all(i, f, status) ==
  LET t == f[i].tid
      own == {j \in Instr : f[j].tid = t}
      killed == {iwindow.w[s] : s \in SquashRange(iwindow, f[i].slot)} \cap own
      loads == MemSquash(f, ldq, Loads, i, killed)
      stores == MemSquash(f, stq, Stores, i, killed)
  IN /\ iwindow' = Squashed(iwindow, f[i].slot, own)
     /\ ldq' = loads.queue
     /\ stq' = stores.queue
     /\ instr' = ReassignedLsq(
                   ReassignedLsq(
                     Reassigned(Unlinked(f, killed), iwindow',
                                NeedCollapse(iwindow, f[i].slot, own)),
                     ldq', loads.moved),
                   stq', stores.moved)
     /\ fetch' = [fetch EXCEPT ![t] = fix_spec_state(f, t, f[i].prev)]
     /\ fetch_status' = [status EXCEPT ![t] = @ \ {"GPC_UNKNOWN"}]

(* get_next_d_instr()->kill_all(), if there is a next one. *)
KillNext(i, f, status) ==
  IF f[i].next # None THEN kill_all(f[i].next, f, status)
  ELSE instr' = f /\ fetch_status' = status /\ UNCHANGED <<queues, fetch>>
(* A store writes memory: apply_store_changes(), or the host's commit.     *)
TakeEffect(i) ==
  LET t == instr[i].tid
      val == <<t, instr[i].pos>>
  IN /\ mem' = [mem EXCEPT ![instr[i].op.addr] = val]
     /\ done' = [done EXCEPT ![t] = Append(@, [pos |-> instr[i].pos, val |-> val])]
-----------------------------------------------------------------------------
(* start(): a free object enters the window behind its context's youngest  *)
(* instruction and asks the instruction cache.  handle_interrupt() comes   *)
(* first in a cycle, so an interrupt that can be taken is.                 *)
Free == {i \in Instr : instr[i].stage = "END" /\ instr[i].outstanding = {}}
CanTake(t) == ivec[t] /\ empty_ctxt(st_buffer, t) /\ empty_ctxt(iwindow, t)
Fetch(t) ==
  /\ fetch_status[t] = {}
  /\ slot_avail(iwindow)
  /\ fetch[t].wrong \/ fetch[t].pos <= Len(Program[t])
  /\ ~CanTake(t)
  /\ \E i \in Free, op \in IF fetch[t].wrong THEN WrongOps ELSE {Program[t][fetch[t].pos]} :
       /\ iwindow' = Inserted(iwindow, i)
       /\ LET new == [Dead EXCEPT !.tid = t, !.pos = fetch[t].pos, !.op = op,
                                  !.wrong = fetch[t].wrong, !.stage = "FETCH",
                                  !.slot = iwindow'.last_created, !.prev = tail(t),
                                  !.outstanding = {"MEM_HIER"}]
          IN instr' = [j \in Instr |-> IF j = i THEN new
                                      ELSE IF j = tail(t) THEN [instr[j] EXCEPT !.next = i]
                                      ELSE instr[j]]
  /\ fetch_status' = [fetch_status EXCEPT ![t] = @ \cup {"GPC_UNKNOWN"}]
  /\ UNCHANGED <<ldq, stq, st_buffer, fetch, ivec, retired, mem, done, traps>>

(* pre_decode(), when the instruction cache answers: a memory instruction  *)
(* enters its queue, and a full queue kills it; otherwise the speculative  *)
(* pc advances, rightly or not after a branch.                             *)
PreDecode(i) ==
  LET t == instr[i].tid
      q == IF instr[i].op.kind \in Loads THEN ldq ELSE stq
      memory == instr[i].op.kind # "branch"
      why == IF instr[i].op.kind \in Loads THEN "LDQ_FULL" ELSE "STQ_FULL"
  IN /\ instr[i].stage = "FETCH"
     /\ IF memory /\ ~slot_avail(q)
        THEN kill_all(i, [instr EXCEPT ![i].outstanding = {}],
                         [fetch_status EXCEPT ![t] = @ \cup {why}])
        ELSE /\ \E miss \in IF memory THEN {FALSE} ELSE BOOLEAN :
                  LET now == [instr[i] EXCEPT !.stage = "DECODE", !.outstanding = {"EVENTQ"},
                                              !.miss = miss,
                                              !.lsq_slot = IF memory THEN Inserted(q, i).last_created
                                                           ELSE @]
                  IN /\ instr' = [instr EXCEPT ![i] = now]
                     /\ fetch' = [fetch EXCEPT ![t] = Successor(instr', i)]
             /\ ldq' = IF instr[i].op.kind \in Loads THEN Inserted(ldq, i) ELSE ldq
             /\ stq' = IF instr[i].op.kind \in Stores THEN Inserted(stq, i) ELSE stq
             /\ fetch_status' = [fetch_status EXCEPT ![t] = @ \ {"GPC_UNKNOWN"}]
             /\ UNCHANGED iwindow
     /\ UNCHANGED <<st_buffer, ivec, retired, mem, done, traps>>

(* The event queue wakes a decoded instruction, and schedule() issues it.  *)
Rename(i) ==
  /\ instr[i].stage = "DECODE"
  /\ instr' = [instr EXCEPT ![i].stage = "WAIT", ![i].outstanding = {}]
  /\ UNCHANGED <<queues, st_buffer, fetch, fetch_status, ivec, retired, mem, done, traps>>

Issue(i) ==
  /\ instr[i].stage = "WAIT"
  /\ instr' = [instr EXCEPT ![i].stage = "EXECUTE", ![i].outstanding = {"EVENTQ"}]
  /\ UNCHANGED <<queues, st_buffer, fetch, fetch_status, ivec, retired, mem, done, traps>>

(* execute(), when the functional unit is done.  A branch that went wrong  *)
(* squashes what follows it; a memory instruction waits to be its          *)
(* context's oldest, or is issued again if the host had no access yet.     *)
Execute(i) ==
  LET t == instr[i].tid
      into == CASE instr[i].op.kind = "branch" -> "COMMIT"
                [] instr[i].op.kind = "load" -> "SAFE"
                [] OTHER -> "MEM"
      f == [instr EXCEPT ![i].stage = into, ![i].outstanding = {}, ![i].miss = FALSE]
      status == [fetch_status EXCEPT ![t] = @ \ {"STALL_UNTIL_EMPTY"}]
  IN /\ instr[i].stage = "EXECUTE"
     /\ IF ~instr[i].miss
        THEN /\ \/ instr' = f
                \/ /\ instr[i].op.kind # "branch"
                   /\ instr' = [f EXCEPT ![i].stage = "WAIT"]
             /\ UNCHANGED <<queues, fetch, fetch_status>>
        ELSE IF f[i].next # None THEN kill_all(f[i].next, f, status)
        ELSE /\ instr' = f
             /\ fetch' = [fetch EXCEPT ![t] = Successor(f, i)]
             /\ fetch_status' = status
             /\ UNCHANGED queues
     /\ UNCHANGED <<st_buffer, ivec, retired, mem, done, traps>>

(* preparefor_exception() of an instruction that faulted as it was fetched, *)
(* executed or re-executed.  It is speculative to the host while it is on  *)
(* a wrong path or behind a branch that has not executed.                  *)
speculative(i) ==
  \/ instr[i].wrong
  \/ \E s \in Own(iwindow, instr[i].tid) :
       /\ Age(iwindow, s) < Age(iwindow, instr[i].slot)
       /\ instr[iwindow.w[s]].op.kind = "branch"
       /\ instr[iwindow.w[s]].stage # "COMMIT"
preparefor_exception(i, where) ==
  /\ instr[i].wrong \/ traps < MaxTraps
  /\ traps' = IF instr[i].wrong THEN traps ELSE traps + 1
  /\ KillNext(i, [instr EXCEPT ![i].outstanding = {},
                     ![i].stage = IF speculative(i) THEN SpecException(where)
                                  ELSE Exception(where)],
                  [fetch_status EXCEPT ![instr[i].tid] = @ \cup {"STALL_UNTIL_EMPTY"}])

(* What the decoder rejects is in the place of what could not be fetched:  *)
(* no queue and not the speculative pc know of it.                         *)
Fault(i) ==
  /\ instr[i].stage \in {"FETCH", "EXECUTE"}
  /\ preparefor_exception(i, instr[i].stage)
  /\ UNCHANGED <<st_buffer, ivec, retired, mem, done>>

(* execute_after_release(): the host executes a memory instruction once    *)
(* more.  It is done, and a load has read memory now; or it stalls and is  *)
(* tried again in the next cycle; or it faults.                            *)
execute_after_release(i) ==
  \/ /\ instr' = [instr EXCEPT ![i].stage = "COMMIT", ![i].outstanding = {}]
     /\ done' = IF instr[i].op.kind = "load"
                THEN [done EXCEPT ![instr[i].tid] =
                        Append(@, [pos |-> instr[i].pos, val |-> mem[instr[i].op.addr]])]
                ELSE done
     /\ UNCHANGED <<queues, fetch, fetch_status, traps>>
  \/ /\ instr' = [instr EXCEPT ![i].stage = "REEXEC", ![i].outstanding = {"EVENTQ"}]
     /\ UNCHANGED <<queues, fetch, fetch_status, traps, done>>
  \/ preparefor_exception(i, "REEXEC") /\ UNCHANGED done

(* The memory hierarchy answers, or the event queue wakes what stalled.    *)
(* What was squashed meanwhile only stops being outstanding.               *)
MemHierDone(i) ==
  /\ instr[i].stage \in {"PROGRESS", "REEXEC"}
  /\ execute_after_release(i)
  /\ UNCHANGED <<st_buffer, ivec, retired, mem>>

StoreDone(i) ==
  /\ instr[i].stage = "MEM_HIER"
  /\ instr' = [instr EXCEPT ![i].stage = "DONE", ![i].outstanding = {}]
  /\ UNCHANGED <<queues, st_buffer, fetch, fetch_status, ivec, retired, mem, done, traps>>

DeadWakeup(i) ==
  /\ instr[i].stage = "END" /\ instr[i].outstanding # {}
  /\ instr' = [instr EXCEPT ![i].outstanding = {}]
  /\ UNCHANGED <<queues, st_buffer, fetch, fetch_status, ivec, retired, mem, done, traps>>
-----------------------------------------------------------------------------
(* process_instr_for_commit(), for the oldest instruction of a context.    *)
Oldest(t, i) == ~empty_ctxt(iwindow, t) /\ i = OldestOf(iwindow, t)

KillSpeculative(t, i) ==
  /\ Oldest(t, i)
  /\ instr[i].wrong /\ instr[i].stage \in PastExecute
  /\ kill_all(i, instr, fetch_status)
  /\ UNCHANGED <<st_buffer, ivec, retired, mem, done, traps>>

(* Mutant of Access: it does not wait for the store buffer. *)
AccessEarly(t, i) ==
  /\ Oldest(t, i)
  /\ ~instr[i].wrong
  /\ instr[i].stage \in {"SAFE", "MEM"}
  /\ IF instr[i].op.kind = "store"
     THEN execute_after_release(i)
     ELSE /\ instr' = [instr EXCEPT ![i].stage = "PROGRESS", ![i].outstanding = {"MEM_HIER"}]
          /\ UNCHANGED <<queues, fetch, fetch_status, done, traps>>
  /\ UNCHANGED <<st_buffer, ivec, retired, mem>>

(* safe_ld_mem_access() and st_mem_access(): loads and immediate-release   *)
(* stores go to memory, other stores are re-executed at once.              *)
Access(t, i) ==
  /\ Oldest(t, i)
  /\ ~instr[i].wrong
  /\ instr[i].stage \in {"SAFE", "MEM"}
  /\ IF instr[i].op.kind = "store"
     THEN execute_after_release(i)
     ELSE /\ empty(st_buffer)
          /\ instr' = [instr EXCEPT ![i].stage = "PROGRESS", ![i].outstanding = {"MEM_HIER"}]
          /\ UNCHANGED <<queues, fetch, fetch_status, done, traps>>
  /\ UNCHANGED <<st_buffer, ivec, retired, mem>>

(* dequeue() and mark_dead(): i leaves the window and its memory queue,    *)
(* and becomes what left says.                                             *)
Dequeue(i, left) ==
  LET load == instr[i].op.kind \in Loads /\ instr[i].stage \notin Undecoded
      store == instr[i].op.kind \in Stores /\ instr[i].stage \notin Undecoded
      f == [Unlinked(instr, {i}) EXCEPT ![i] = left]
  IN /\ iwindow' = Popped(iwindow, i)
     /\ ldq' = IF load THEN Popped(ldq, i) ELSE ldq
     /\ stq' = IF store THEN Popped(stq, i) ELSE stq
     /\ instr' = ReassignedLsq(
                   ReassignedLsq(Reassigned(f, iwindow', Moves(iwindow, i)),
                                 ldq', load /\ Moves(ldq, i)),
                   stq', store /\ Moves(stq, i))

(* retire() of an instruction that is done.  A store moves to the store    *)
(* buffer; an immediate-release store takes effect as the host commits it. *)
Retire(t, i) ==
  /\ Oldest(t, i)
  /\ ~instr[i].wrong
  /\ instr[i].stage = "COMMIT"
  /\ instr[i].op.kind = "store" => ~full(st_buffer)
  /\ instr[i].op.kind = "unsafe" => empty_ctxt(st_buffer, t)
  /\ IF instr[i].op.kind = "store"
     THEN /\ Dequeue(i, [Dead EXCEPT !.tid = t, !.pos = instr[i].pos,
                                     !.op = instr[i].op, !.stage = "INSERT"])
          /\ st_buffer' = Inserted(st_buffer, i)
     ELSE Dequeue(i, Dead) /\ UNCHANGED st_buffer
  /\ retired' = [retired EXCEPT ![t] = instr[i].pos]
  /\ IF instr[i].op.kind = "unsafe" THEN TakeEffect(i) ELSE UNCHANGED <<mem, done>>
  /\ UNCHANGED <<fetch, fetch_status, ivec, traps>>

(* retire() of a fault: the handler runs, and comes back to the            *)
(* instruction.  What was only speculative is tried again from the stage   *)
(* it faulted in.                                                          *)
RetireFault(t, i) ==
  /\ Oldest(t, i)
  /\ ~instr[i].wrong
  /\ \/ /\ instr[i].stage \in Exceptions
        /\ Dequeue(i, Dead)
        /\ fetch' = [fetch EXCEPT ![t] = Committed(t)]
        /\ fetch_status' = [fetch_status EXCEPT ![t] = @ \ {"GPC_UNKNOWN"}]
     \/ /\ instr[i].stage \in SpecExceptions
        /\ instr' = [instr EXCEPT
             ![i].stage = CASE @ = SpecException("FETCH") -> "FETCH"
                            [] @ = SpecException("EXECUTE") -> "WAIT"
                            [] OTHER -> "REEXEC",
             ![i].outstanding = CASE instr[i].stage = SpecException("FETCH") -> {"MEM_HIER"}
                                  [] instr[i].stage = SpecException("EXECUTE") -> {}
                                  [] OTHER -> {"EVENTQ"}]
        /\ fetch_status' = [fetch_status EXCEPT ![t] = @ \ {"STALL_UNTIL_EMPTY"}]
        /\ UNCHANGED <<queues, fetch>>
  /\ UNCHANGED <<st_buffer, ivec, retired, mem, done, traps>>

(* st_buffer_t::advance_cycle(), for one context: its oldest store goes to *)
(* memory, and leaves once memory has answered.                            *)
StBuffer(t) ==
  /\ ~empty_ctxt(st_buffer, t)
  /\ LET i == OldestOf(st_buffer, t)
     IN \/ /\ instr[i].stage = "INSERT"
           /\ instr' = [instr EXCEPT ![i].stage = "MEM_HIER", ![i].outstanding = {"MEM_HIER"}]
           /\ UNCHANGED <<st_buffer, mem, done>>
        \/ /\ instr[i].stage = "DONE"
           /\ instr' = [instr EXCEPT ![i] = Dead]
           /\ st_buffer' = Popped(st_buffer, i)
           /\ TakeEffect(i)
  /\ UNCHANGED <<queues, fetch, fetch_status, ivec, retired, traps>>
-----------------------------------------------------------------------------
(* front_end_status(): what no longer holds stops no fetch.                *)
FrontEnd(t) ==
  /\ fetch_status' = [fetch_status EXCEPT ![t] = @ \
       ((IF empty_ctxt(iwindow, t) THEN {"STALL_UNTIL_EMPTY"} ELSE {})
        \cup (IF full(ldq) THEN {} ELSE {"LDQ_FULL"})
        \cup (IF full(stq) THEN {} ELSE {"STQ_FULL"}))]
  /\ fetch_status' # fetch_status
  /\ UNCHANGED <<instr, queues, st_buffer, fetch, ivec, retired, mem, done, traps>>

Interrupt(t) ==
  /\ traps < MaxTraps /\ ~ivec[t]
  /\ ivec' = [ivec EXCEPT ![t] = TRUE]
  /\ traps' = traps + 1
  /\ UNCHANGED <<instr, queues, st_buffer, fetch, fetch_status, retired, mem, done>>

(* handle_interrupt(): taken once the context's own window and buffer are  *)
(* empty.  Until then squash_inflight_instructions() kills the head of the *)
(* window if it is this context's and has not executed, and otherwise what *)
(* follows the head, whichever context that is.                            *)
Take(t) ==
  /\ CanTake(t)
  /\ ivec' = [ivec EXCEPT ![t] = FALSE]
  /\ fetch' = [fetch EXCEPT ![t] = Committed(t)]
  /\ UNCHANGED <<instr, queues, st_buffer, fetch_status, retired, mem, done, traps>>

(* Mutant of PrepareForInterrupt: a head that has executed is killed too. *)
PrepareForInterruptAny(t) ==
  /\ ivec[t] /\ empty_ctxt(st_buffer, t) /\ ~empty_ctxt(iwindow, t)
  /\ LET h == head(iwindow)
         status == [fetch_status EXCEPT ![t] = @ \cup {"STALL_UNTIL_EMPTY"}]
     IN IF instr[h].tid = t
        THEN kill_all(h, instr, status)
        ELSE KillNext(h, instr, status)
  /\ UNCHANGED <<st_buffer, ivec, retired, mem, done, traps>>

PrepareForInterrupt(t) ==
  /\ ivec[t] /\ empty_ctxt(st_buffer, t) /\ ~empty_ctxt(iwindow, t)
  /\ LET h == head(iwindow)
         status == [fetch_status EXCEPT ![t] = @ \cup {"STALL_UNTIL_EMPTY"}]
     IN IF instr[h].tid = t /\ instr[h].stage \in Before
        THEN kill_all(h, instr, status)
        ELSE KillNext(h, instr, status)
  /\ UNCHANGED <<st_buffer, ivec, retired, mem, done, traps>>

Step(i) ==
  \/ PreDecode(i) \/ Rename(i) \/ Issue(i) \/ Execute(i)
  \/ MemHierDone(i) \/ StoreDone(i) \/ DeadWakeup(i)
Finish(t, i) ==
  \/ KillSpeculative(t, i) \/ Access(t, i) \/ Retire(t, i) \/ RetireFault(t, i)
Cycle(t) ==
  \/ Fetch(t) \/ StBuffer(t) \/ FrontEnd(t) \/ Take(t) \/ PrepareForInterrupt(t)
(* The programs have run: nothing is left to do.                           *)
Finished ==
  /\ \A t \in Ctxt : retired[t] = Len(Program[t])
  /\ empty(iwindow) /\ empty(st_buffer)
  /\ UNCHANGED vars

Next ==
  \/ \E i \in Instr : Step(i) \/ Fault(i)
  \/ \E t \in Ctxt : Cycle(t) \/ Interrupt(t) \/ \E i \in Instr : Finish(t, i)
  \/ Finished

Spec == Init /\ [][Next]_vars
-----------------------------------------------------------------------------
Fields ==
  [tid : Ctxt \cup {None}, pos : Nat, op : Ops \cup {NoOp}, wrong : BOOLEAN,
   miss : BOOLEAN, stage : Before \cup PastExecute \cup InBuffer \cup {"END"},
   slot : Int, lsq_slot : Int, prev : Instr \cup {None}, next : Instr \cup {None},
   outstanding : SUBSET {"EVENTQ", "MEM_HIER"}]

(* Every variable has the type its declaration in the code gives it, and   *)
(* no object has two things outstanding.                                   *)
TypeOK ==
  /\ instr \in [Instr -> Fields]
  /\ \A i \in Instr : Cardinality(instr[i].outstanding) <= 1
  /\ iwindow \in WindowType(Instr, window_size)
  /\ ldq \in WindowType(Instr, load_size) /\ stq \in WindowType(Instr, store_size)
  /\ st_buffer \in WindowType(Instr, stbuf_size)
  /\ fetch \in [Ctxt -> [pos : Nat, wrong : BOOLEAN]]
  /\ fetch_status \in
       [Ctxt -> SUBSET {"GPC_UNKNOWN", "STALL_UNTIL_EMPTY", "LDQ_FULL", "STQ_FULL"}]
  /\ ivec \in [Ctxt -> BOOLEAN] /\ retired \in [Ctxt -> Nat] /\ traps \in 0 .. MaxTraps

(* The instruction window and the store buffer have no holes, and an       *)
(* instruction in flight is in the one slot of the window it recorded,     *)
(* also after another context's instructions were taken from between:      *)
(* squash() and every walk rely on it.                                     *)
InFlight(i) == instr[i].stage \in Before \cup PastExecute
WindowTrue ==
  /\ NoHoles(iwindow) /\ NoHoles(st_buffer)
  /\ \A i \in Instr : InFlight(i) => instr[i].slot \in DOMAIN iwindow.w
  /\ \A i \in Instr, s \in DOMAIN iwindow.w :
       iwindow.w[s] = i <=> InFlight(i) /\ instr[i].slot = s

(* The same of the load and the store queue, which squash() enters at the  *)
(* slot its oldest victim recorded.                                        *)
LsqTrue ==
  \A q \in {ldq, stq} :
    /\ NoHoles(q)
    /\ \A s \in DOMAIN q.w : q.w[s] # None => instr[q.w[s]].lsq_slot = s

(* A context's entries of the load and store queues are its decoded loads  *)
(* and stores of the window, in the window's order, and the links between  *)
(* its instructions follow that order.                                     *)
Queued(q, t, kinds) ==
  /\ {q.w[s] : s \in Own(q, t)} =
       {i \in {iwindow.w[s] : s \in Own(iwindow, t)} :
          instr[i].op.kind \in kinds /\ instr[i].stage \notin Undecoded}
  /\ \A r, s \in Own(q, t) :
       Age(q, r) < Age(q, s) =>
         Age(iwindow, instr[q.w[r]].slot) < Age(iwindow, instr[q.w[s]].slot)
Linked(t) ==
  LET own == Own(iwindow, t)
  IN \A s \in own :
       LET older == {r \in own : Age(iwindow, r) < Age(iwindow, s)}
           younger == {r \in own : Age(iwindow, s) < Age(iwindow, r)}
           i == instr[iwindow.w[s]]
       IN /\ i.prev = IF older = {} THEN None
                      ELSE iwindow.w[YoungestSlot(iwindow, older)]
          /\ i.next = IF younger = {} THEN None
                      ELSE iwindow.w[OldestSlot(iwindow, younger)]
QueuesAgree ==
  \A t \in Ctxt : Queued(ldq, t, Loads) /\ Queued(stq, t, Stores) /\ Linked(t)

(* The operations of a context take effect in program order, and loads     *)
(* return what the last store wrote, whatever was squashed and refetched   *)
(* on the way and although the contexts share every queue.                 *)
Memory == INSTANCE SeqMemory
Sequential == Memory!Spec

(* What went to memory as its context's oldest is never squashed: it       *)
(* retires, or its re-execution faults before it takes effect, and then    *)
(* nothing but that same instruction is fetched next.                      *)
Started(i) ==
  /\ instr[i].op.kind \in {"load", "unsafe"}
  /\ instr[i].stage \in {"PROGRESS", "REEXEC", "COMMIT",
                        Exception("REEXEC"), SpecException("REEXEC")}
Refetched(i) ==
  /\ instr[i].stage = Exception("REEXEC")
  /\ fetch'[instr[i].tid] = [pos |-> instr[i].pos, wrong |-> FALSE]
StartedIsKept ==
  [][\A i \in Instr : Started(i) =>
       \/ Started(i)' \/ Refetched(i)
       \/ retired'[instr[i].tid] = instr[i].pos]_vars

=============================================================================
