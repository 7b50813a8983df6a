# A verification model of dmr3d

dmr3d (ms2sim, a cycle-level simulator of SPARC chip multiprocessors, hooked up
to a DRAM simulator) is one C++ program driven by a host full-system simulator.
Its parts are coupled by calls and callbacks, and by events on a queue that
advances one cycle at a time. There are no threads in the program: the
concurrency that matters is that of the *simulated* machine, whose caches, links
and processors interleave their messages in orders nobody writes a test for.
A wrong interleaving ends in a failed ASSERT deep in a run of days, in a
simulated processor that never gets its data, or in results that are silently
off.

This directory holds TLA+ modules of the parts that can be checked, TLC runs on
small instances, and theorems that TLAPS checks for every instance. All paths
are relative to `src/`.

## 1. Inventory

### Memory hierarchy (`mem-hier/`)

| Component | State | Operations | What is hard | What makes it correct |
|---|---|---|---|---|
| **Cache bank** `cache_bank.cc` | request queue, replay queue, wait list, `request_next`, one event object | `message_arrival`, `process_message`, `wakeup_set`, `wakeup_all` | the cache calls the wakeups from inside the service of a message that is still queued; one event object serves all schedules; full queues | an event is pending exactly while there is work; no message is lost, doubled or starved |
| **L1 cache** `protocols/cmp_incl/cmp_incl_l1_cache.cc` | line states, MSHRs, write-back buffers | `get_action` and `trigger` on a request of the processor or a message | every message may meet every state; a stalled message holds back its link | every (state, message) pair that can occur is handled; inclusion; requests answered |
| **L2 cache and directory** `cmp_incl_l2_cache.cc` | line states, sharers, dirty bits, MSHRs, write-back buffers | `get_action` and `trigger` on a message of an L1 or an answer of memory | write-backs cross forwards, upgrades cross invalidations, evictions wait for acknowledgements | single writer; no store lost; no MSHR leaked |
| **Cache frame** `tcache.cc`, `mshr.cc`, `line.cc` | tags, write-back buffers, MSHR list | lookup, victim choice, allocate/free, wakeups | the last buffer freed must wake everybody | buffers match the lines in transit |
| **Crossbar** `interconnect.cc`, `link.cc` | one FIFO link per (source, destination), its event | `send`, `transmit_message` | refused messages are retried and block what is behind them | in-order, exactly-once delivery |
| **Processor port** `proc.cc`, `common/mem_hier_iface.h` | outstanding requests | `make_request`, `message_arrival`, invalidate callback | the processor speculates on loads | told of every invalidation of what it may have loaded |
| **Event queue** `meventq.cc`, `event.cc` | circular window of slots, heap of long events | `insert`, `advance_cycle`, `enqueue`, `requeue` | boundary of the window, equal long delays, handlers that delete their event | each event fires once, when due |
| **Memory** `mainmem.cc`, `dram.cc` | outstanding transactions | arrival, completion callbacks | completion with zero extra delay runs a handler at once | each read answered once |
| **Other protocols** | | | `cmp_incl_wt` is compiled; `cmp_excl`, `cmp_excl_3l`, `cmp_incl_3l`, `unip_two` are not | the same contract |
| **Construction, drivers, buses, meshes, prefetch, SMS, traces, profiles** | | | start-up code, other topologies, statistics | |

### Processor (`processor/`)

The instruction pipeline (`dynamic.cc`, `iwindow.cc`, `sequencer.cc`,
`fetch_buffer.cc`), the load and store queues shared by hardware contexts
(`lsq.cc`, `st_buffer.cc`), the thread scheduler with its policies
(`thread_scheduler.cc`, `csp_alg/`), branch prediction, and the wrappers around
the host's architectural state. Hard: squash of one context's entries in a queue
shared with another, circular windows that are full or empty, a thread that is
switched twice. Correct when program order is respected per context and a
thread runs on one context at most.

| Component | State | Operations | What is hard | What makes it correct |
|---|---|---|---|---|
| **Instruction window** `window.cc`, `iwindow.cc` | a circular buffer of instruction objects, `last_created`, `last_committed` | `insert`, `pop_head`, `squash`, `collapse` | contexts share it: entries leave from the middle, and the rest move | no holes; each instruction knows its slot |
| **Load and store queues, store buffer** `lsq.cc`, `st_buffer.cc` | three more such buffers | insert at decode, pop at retire, squash with the window; drain in order per context | entered at a slot recorded long ago | they hold a context's loads and stores, in its order |
| **Pipeline** `dynamic.cc`, `sequencer.cc`, `ctrl_flow.cc`, `eventq.cc` | a stage, links and outstanding answers per instruction; fetch status per context | `fetch`, `pre_decode`, `execute`, `retire`, `kill_all`, `handle_interrupt` | mispredictions, faults, interrupts and full queues squash at any stage; answers arrive for dead instructions | operations take effect once, in program order |
| **Thread scheduler** `thread_scheduler.cc`, `csp_alg/base_alg.cc`, `chip.cc`, `sequencer.cc` | wait list per core, a placement per thread, a switch state per core | `thread_yield`, `ready_for_switch`, `disable_core`, `enable_core`, interrupts for stalled threads | the situation changes between the decision to switch and the switch | a thread is on one core or in one list, and runs again |

### The rest

`common/` is configuration, statistics and checkpoint plumbing. `power/` is
third-party power and area estimation.

How they interact: a processor's `make_request` puts a message on its L1's bank
(`message_arrival`). The bank serves it (`process_message`), the L1 looks its
line up, calls `trigger`, which may evict, allocate an MSHR and send messages
on a link. The link delivers to the L2's bank in `delta_cycles`, and so on.
A message that cannot be served is stalled by a status: *poll* (try again),
*set event* (wait for a wakeup of the set) or *other event*. Messages from the
L2 do not go through the L1's banks: a stalled one stays on its link.

`PROJECT.json` lists each component with its status, and under `hazards` what
in this code a test would hardly reach, each with the property that covers it
or the reason none does yet.

## 2. Modules

| Module | What it is |
|---|---|
| `Subseq` | the part of a sequence at a set of positions, and the rest: what a wakeup moves and leaves, and what a collapse keeps |
| `CacheBank` | one bank, with its clock and its event |
| `CmpIncl` | the cmp_incl protocol: L1s, L2, directory, banks of the L2, crossbar, memory |
| `Coherence` | what a coherence protocol promises, with no messages in it |
| `MEventQ` | the event queue with its event objects and the handlers in progress |
| `Timers` | what an event queue promises: timers that fire when due |
| `FifoLink` | FIFO links, plain and with limited bandwidth, on `MEventQ` |
| `Window` | the circular buffer under the instruction window, the queues and the store buffer |
| `Pipeline` | one core whose contexts share all four, from fetch to memory |
| `SeqMemory` | what a core promises its software: sequential consistency |
| `ThreadSched` | threads, cores, the base policy, the switch states and the stalls |
| `MCCacheBank`, `MCCmpIncl`, `MCFifoLink`, `MCPipeline`, `MCThreadSched` | constants of the instances |
| `CmpInclInv` | the inductive invariants of `CmpIncl` |
| `SubseqProofs`, `CacheBankProofs`, `CoherenceProofs`, `CmpInclProofs`, `ThreadSchedProofs` | theorems about the module of the name |
| `CmpInclPromiseProofs` | what `CmpIncl` promises, in every configuration, with links without bandwidth, and with an L2 that has a way for each line |
| `PipelineProofs` | theorems about `Window` and, on top of them, `Pipeline` |
| `MEventQProofs` | theorems about `MEventQ` and, on top of them, `FifoLink` |

`CmpIncl` refines `Coherence`: `CmpIncl!Coherent` is `Coherence!Spec` under the
mapping that reads each L1 state as a right (none, read, write) and each open
request of a processor as pending. TLC checks it as a property, and it is proved
(`Implements`). `MEventQ` refines `Timers` (`FiresOnTime`, proved too): an event's timer is
the number of cycles the queue will let pass before it runs it. `Pipeline`
refines `SeqMemory` (`Sequential`, proved too): memory and the list of operations
that took effect are variables of both. `FifoLink` extends `MEventQ`, and its links are
the events.

### CacheBank

`request`, `replay` and `waiting` are the three lists of `cache_bank_t`; `busy`
is `request_next` minus the current cycle; `event` is the delay left on
`next_request_event`. `failed` names the ASSERT or FAIL that stopped the
program. `owed` is a history variable: the waiters that a wakeup left behind
because the replay queue was full.

| Action | Code |
|---|---|
| `Arrive(m)` | `message_arrival`, with the service it makes on the spot if the bank is free |
| `Wakeup(S)` | `wakeup_set`, `wakeup_all` called from outside a service |
| `Fire` | the event handler: one `process_message`, for a replayed message (`ServeReplay`) or a new one (`ServeRequest`) |
| `Tick` | one cycle of the event queue |

The cache is the environment: the status it answers is any of the four, and when
it completes a message it may wake nothing, the message's set or all sets. This
covers every cache of the repository.

### CmpIncl

One action is one call of a cache's `process_message`: its guard is the state of
the line, its effect what `trigger` assigns, sends and wakes. An operator per
message type lists every state of the line, and the states the code sends to
`error` are explicit: they set `failed`, so a reachable one is reported by
`NoProtocolError` rather than hidden by a disabled action. The same is done for
ASSERTs of the helpers (an empty sharer list in `send_request_forward`, sharers
left in `writeback_if_dirty`, ...).

| Variable | Code |
|---|---|
| `l1`, `l2` | the line's state, or the state of its entry in a write-back buffer |
| `l1mshr`, `l2mshr`, `l2queue` | MSHRs and the requests they hold |
| `proc` | where each request of a processor stands: none, stalled in a bank, in an MSHR |
| `sharers`, `dirty` | directory entry and dirty bit |
| `replay`, `waiting` | the L2 banks' lists |
| `net` | the links |
| `memory` | reads that main memory has not answered |
| `unsaved`, `loaded` | history: lines stored to since memory was written; lines a processor loaded and heard nothing of |

Abstractions, each of which admits at least what the code does:
* *Time.* Any link may deliver next and any bank may serve next. With
  `cmp_interconnect_bw_addr` = 0, the default, all messages to a bank take the
  same time and arrive in the order sent (`LinkBandwidth = FALSE`: one queue per
  bank); with a limit each link keeps its own order.
* *Victim.* Any replaceable line may be evicted where the code takes the least
  recently used one (or, with `evict_singlets`, another).
* *Data.* No values: `unsaved` says whether memory is behind, and the data is
  where `dirty`, `Modified` and the data messages say.
* *L1 banks.* A stalled request is `replay` or `wait`; the order among the
  stalled requests of one bank is any order.
* *Thread state.* Addresses of saved contexts bypass the L1 lines
  (`tstate_l1_bypass`) and are never evicted from the L2 (`keep_thread_state`).

### MEventQ and FifoLink

`window` is the array of lists, a list a sequence; `last_created` the slot of the
current cycle; `long_events` and `cycle` the std::set and the field it is ordered
by; `enqueued` the mark. `advance_cycle()` is not atomic, because it calls
handlers: `AdvanceCycle` counts the long events down and detaches the list of
the new cycle into `firing`, `FireNext` calls the next `do_event()`, and
`EndOfList` looks whether the slot was filled again. `stack` holds the
`do_event()` calls in progress, `nested` telling those made from `insert()` with
a zero delay, after which `enqueue()` sets the mark (`Return`). `lost`, `spent`
and `before` are history: events the set refused, events marked after they ran,
and the order in which the held events were enqueued.

The delays used must not contain `window_size` itself. The configuration never
asks for one, and the theorems state it as their assumption. The side
configuration `MEventQWindow.cfg` does use it, and TLC finds the ASSERT at
`meventq.cc:65` failing.

`FifoLink` adds `queue` (messages with their grant cycles) and
`next_send_cycle`, both relative to the current cycle, and `phase`, the place of
`transmit_message()` in its loop. A destination may take a message (`Deliver`) or
refuse it (`Requeue` with the message still at the front). Delays stay inside
the window, and a destination does not send on the link it receives from: in the
crossbar each direction has a link of its own. The links of the crossbar have no
limit on their messages; a limited link is modelled in its plain form only,
because a bandwidth link would book its cycles before it refuses.

### Window and Pipeline

`Window` has the operators of `window_t` over a record: slots, `last_created`,
`last_committed`. `Popped` is `pop_head()` of any entry, `Squashed` the common
form of `iwindow_t::squash()` and `memq_t::squash()`, `Collapsed` is
`collapse()`. `Reach` is the set of slots a walk from the head visits, and `Age`
their order.

`Pipeline` has one record per `dynamic_instr_t` object, a member of a pool:

| Field or variable | Code |
|---|---|
| `stage`, `outstanding` | `pstage` and `st_buffer_entry`; `PENDING_EVENTQ` or `PENDING_MEM_HIER` |
| `slot`, `lsq_slot`, `prev`, `next` | the members of these names |
| `pos`, `op`, `wrong`, `miss` | its place in its context's program, what it does, whether it is on a wrong path, whether its prediction is wrong |
| `iwindow`, `ldq`, `stq`, `st_buffer` | the shared buffers |
| `fetch`, `fetch_status` | the speculative pc; the reasons not to fetch |
| `ivec`, `retired`, `mem`, `done` | interrupt pending; instructions committed; memory; operations that took effect |

| Action | Code |
|---|---|
| `Fetch` | `sequencer_t::start`, `dynamic_instr_t::insert` and `fetch` |
| `PreDecode` | the answer of the instruction cache: `pre_decode`, with `kill_all` when a queue is full |
| `Rename`, `Issue`, `Execute` | the events and the scheduler; `execute`, which goes back to `WAIT` when the host has no access yet |
| `Fault` | `preparefor_exception` from `fetch`, `decode` or `execute` |
| `Access`, `Retire`, `RetireFault`, `KillSpeculative` | `process_instr_for_commit` of a context's oldest instruction, with the two kinds of faults in `retire` |
| `MemHierDone` | the memory hierarchy answers, or the event queue wakes a stalled access: `execute_after_release`, which commits, stalls again or faults |
| `StoreDone`, `DeadWakeup` | answers for the store buffer and for dead instructions |
| `StBuffer` | `st_buffer_t::advance_cycle` for one context |
| `Take`, `PrepareForInterrupt` | `handle_interrupt`, `squash_inflight_instructions` |

Abstractions. The phases of a cycle may come in any order, except that an
interrupt that can be taken is taken before a fetch. Instruction objects are
interchangeable: any free one may be used. The decode and rename delays are one,
a full window is a guard of `Fetch`, and every fetch asks the instruction cache.
A wrong path holds any of `WrongOps`. Register values and dependences are left
out, so that any instruction may execute when it has been issued.

A fault keeps the stage it came from beside it, as `except_pstage` does:
`FETCH_EXCEPTION`, `EXECUTE_EXCEPTION`, `REEXEC_EXCEPTION`, and the same with `SPEC`
for what the host calls speculative, which is tried again from that stage when it
is the oldest. An instruction that faulted before it was decoded (`Undecoded`) is in
no queue. A decode fault is a fetch fault whose answer takes longer: neither knows
of the queues nor of the next pc. A store that memory has not seen yet also goes
through `execute_after_release`, from `Access`.

Left out are sync instructions: their squash and stall in `pre_decode` and
`execute` (`dynamic.cc:469`), the exemption of one past execution from the squash
before an interrupt (`sequencer.cc:844`), and run-ahead, which is off. So are
instructions the simulator's decoder does not know (`dynamic.cc:333`), the period in
which a context has interrupts disabled, and the disambiguation predictor, which is
off, with the count of stores it reads (`lsq.cc:157`, set back to the squashed
instruction's although other contexts have entries in between). One path of a fault
has no model because it ends in an ASSERT: `retire()` of a speculative *decode*
fault calls `decode()` again (`dynamic.cc:1103`), which looks at the `event` that
`pre_decode()` left, the same fault, so that the ASSERT at line 1106 fails whatever
the host would answer now.

`dynamic.cc:1840` makes `unsafe_load()` true for every load, so that a load goes
to memory only as its context's oldest instruction and with an empty store
buffer: `stq_snoop()`, the snoop of the store buffer and the replay of loads by
`invalidate_address()` cannot be reached, and are not modelled. The host's part
(what is speculative, when a store becomes visible) is external.

### ThreadSched

`seq` holds a record per core: the thread on it (`mai`), `thread_switch_state`,
`thread_yield_reason`, `last_thread_switch` and `early_interrupt_queue` (`early`).
`wait_list` and `vcpu_2_pcpu` are the policy's, `t_ctxt` the chip's record, `paused`
and `raise_early_interrupt` the memory driver's. One action per case of `check_for_thread_switch()`; START and
WAIT states are one, since both only last. `InspectInterrupt`,
`SynchronousInterrupt` and `Request` are the calls from outside,
`DisableCore` and `EnableCore` those of the disable timer.

The mode is that in which the memory driver stalls threads, `use_processor` off
(`sequencer.cc:527`, `2303`, `chip.cc:594`): by default it is on, and then no thread
is stalled. So `StalledWhenAway` is a statement about this mode only.
`paused_vcpu_interrupt`, off by default, is a constant (`PausedInterrupt`), and the run
sets it. For the rest the defaults hold: `no_os_pause` and `long_thread_preempt` off,
no thread hopping, one context per core.

`early` counts the early interrupts a core was asked for and has not switched for.
A core that has handled an interrupt of its own and has nothing else to do asks for
the one on record again, which takes one from the count and adds one. `MaxEarly`
bounds the count, in the guard of the step that adds to it (`ToFront`). The time of
an idle core runs on and is not read, so that `last` is past the timer at once.

A core returns only after the switch that empties it (`EnableDue`). This is an
assumption, that the disable period is longer than a switch: the code compares
cycles only (`disable_timer.cc:112`).

## 3. Runs

| Run | Instance | Question and answer |
|---|---|---|
| `bank` | 4 messages in 2 sets, infinite queues, 1 service per 2 cycles | nothing lost, doubled or starved; no ASSERT fails |
| `incl` | 2 L1s; lines a1, a2 conflict in every direct-mapped cache; a3 is thread state; 1 MSHR and 1 write-back buffer each | the protocol has no hole; inclusion; MSHRs and write-back buffers are never leaked; no request is lost; implements Coherence |
| `incl_data` | 2 L1s, 2 lines, an L2 that holds both, 2 L2 MSHRs, reads of Shared lines forwarded | the last value stored is always held somewhere |
| `incl_live` | 3 L1s, 1 line, 2 requests per processor, 1 request per L1 MSHR, reads of Shared lines forwarded | one writer at a time; every request is answered |
| `meventq` | 3 events, a window of 3, delays 0, 1, 2, 4, 5 | every event fires once and when due; the mark is right; same-cycle events run in order |
| `fifo_link` | a bandwidth link of 2 cycles per message and a plain link of one message, 2 messages, a window of 8 | a link with messages wakes in time and delivers |
| `sched` | 3 cores, 2 threads, the timer at 2 cycles, at most 2 early interrupts on record, 2 disables | threads are neither lost nor doubled nor left stalled; each runs again |
| `pipeline` | 2 contexts, 5 instructions, a pool and a window of 3, queues and a store buffer of 2, one fault or interrupt | shared queues whole; no squash reaches what went to memory; sequential consistency; no deadlock |
| `bank_finite` | queues of 2 | *violated*: an owed wakeup is never repaid |
| `incl_dirty` | an L2 that evicts | *violated*: a dirty Shared line is dropped |
| `incl_loads` | | *violated*: the processor is not told of a line given away |
| `incl_starve` | 1 L2 MSHR, 2 lines | *violated*: polling starves the answer it waits for |

Three more configurations are kept beside these. They show what happens outside
what the runs assume, and each violates its property:
* `CmpInclBandwidth.cfg` (with `MCCmpIncl`, property `NoProtocolError`): with a
  bandwidth limit on the links and 3 L1s, the clean write-back of a former owner
  reaches the L2 in `StateShToInv`, which rejects it
  (`cmp_incl_l2_cache.cc:565`). The default has no limit.
* `MEventQWindow.cfg` (with `MEventQ`, property `SlotOfTheCycleIsEmpty`): a delay of
  exactly `window_size`.
* `ThreadSchedTimer.cfg` (with `MCThreadSched`, property `AskedEveryPreempt`): the
  comment at `sequencer.cc:462` says that `thread_yield()` is called every
  `PREEMPT_CYCLES`, but the cycle in which the timer comes due may find an
  interrupt pending and leave before the comparison for equality at line 501; if
  it returns to the running state with the policy having refused, the timer is
  past its mark for good.

Why the bounds are enough. A bank's behaviour depends on an empty, a
one-element or a longer queue, and on waiters of the woken set and of another:
four messages, two per set. In the protocol a transaction of one line involves
a requester, an owner or sharer and the L2; eviction needs a second line in the
same set; the third L1 of `incl_live` distinguishes the sharer served first from
one that waits behind it. Caches of one way and one MSHR are the smallest, and
so meet their limits in every behaviour. Instances with associativity 2 and two
requests per processor (648 thousand states) and with 3 L1s and 2 lines with
in-order links (explored beyond 2 million states, not to the end) showed no
error. `MaxOutstanding` is the only bound on behaviour there: a processor keeps at
most that many requests in its L1.

In the event queue two events can be due together or nest, and a third
distinguishes order; the delays lie on both sides of the window's edge and two
long ones can become equal. A link's event concerns itself and one other that
shares the queue. In the pipeline the window is smaller than the program of both
contexts together, so that it wraps, fills and is shared; each context reads or
writes what the other writes; a branch precedes a store, so that there are wrong
paths; one trap is enough to interrupt each point of the rest (`MaxTraps`; faults on a wrong
path are not counted). The
scheduler needs a core that is idle, one that is disabled and one that remains;
`MaxDisables` bounds how often, and two lets a core return and another go. A timer
of two cycles and two early interrupts (`MaxEarly`) are enough for a core that has
handled an interrupt to find its time not up and one still on record.

`CHECK_DEADLOCK FALSE` is set where the system may really stop: a bank that has
served its messages, processors that need not ask, a failed ASSERT that ends the
program. The event queue, the links, the scheduler and the pipeline are checked
for deadlock; the pipeline has a step `Finished` for programs that have run.

### Properties

The `CacheBank` properties say that the event is pending exactly while the bank
has work (`EventIffWork`), that no ASSERT can fail (`NoAssert`), and that
messages are conserved (`NoDuplicate`, `NoLoss`, `EveryMessageServed`).
`OwedWakeupIsRepaid` is the claim of a comment, and fails.

The `CmpIncl` properties: no reachable (state, message) pair is rejected
(`NoProtocolError`); single writer, as an implementation of `Coherence` that also
says that a request is answered at the very step at which its L1 has the right
(`Coherent`, and `SingleWriter` as an invariant); the directory knows each copy
or has sent for it (`Inclusion`); MSHRs match lines in transit (`MshrMatches`);
each line in transit has its request or answer somewhere (`RequestTracked`);
each write-back buffer has the message that will free it (`WriteBackAnswered`);
no store is lost (`WrittenDataHeld`); every request is answered
(`EveryRequestAnswered`); the processor hears of what it loaded
(`LoadsAreWatched`, which fails).

The `MEventQ` properties relate the queue to what its callers believe:
`FiresOnTime` (refinement of `Timers`), `MarkIsTrue`, the order within a cycle
(`SameCycleInOrder`) and the code's own ASSERT (`SlotOfTheCycleIsEmpty`).
`FifoLink` adds `WakesInTime`, which is why `send()` may leave a pending event
alone, and `EventuallyDelivered`.

The `Pipeline` properties: the window and the store buffer have no holes and
instructions know their slots (`WindowTrue`), also in the load and store queues
(`LsqTrue`); the queues hold exactly a context's decoded loads and stores, in its
order, and the links follow that order (`QueuesAgree`); memory is sequentially
consistent, whatever is squashed and refetched (`Sequential`); no squash reaches what went to
memory: it retires, or its own re-execution faults before it takes effect, and then
its context fetches that same instruction next (`StartedIsKept`). This rests on the
interrupt code sparing executed instructions, on a fault or misprediction squashing
younger ones only, and on nothing having retired past an access that is open.
`Sequential` is a safety property: a load, an interrupt or a fetch that waits for ever
for a buffer to empty is caught by TLC's check for deadlock.

What the passing runs and the theorems exclude or excuse: a bandwidth of the links
together with evictions of the L2 (`CmpIncl`), a delay of the window's size, events
refused by the set of long events and events marked after they ran (`MEventQ`: `lost`
and `spent` are excused by name), a timer passed unseen (`EveryThreadRuns`), and a
disable period shorter than a switch. The first two and the timer are shown by the
side configurations above.

The `ThreadSched` properties: a thread is in one place (`PlacedOnce`), the three
records of where agree (`RecordAgrees`), stalls match switches
(`StalledWhenAway`), the ASSERTs of `enable_core()` hold (`EnableIsSafe`), and a
thread that waits runs again unless a timer was passed unseen
(`EveryThreadRuns`).

### Fairness

*Bank.* The event queue runs what is due and the clock moves (weak fairness of
`Fire` and `Tick`). The cache does not stall one message for ever while serving
it again and again, and a set with waiters is woken: strong fairness, which the
protocol justifies because each transient state ends with a message of that set,
and which `incl_live` does not assume but derives from the protocol itself.

*Protocol.* Links deliver and retry (`Deliver`), banks with work are scheduled
(`Serve`: `EventIffWork` is why), a bank's request queue is a FIFO so no link
into it is passed over for ever (`TakeFrom`), memory answers, an L1's bank
serves its replay queue. Processors need never issue a request. `TakeFrom`
helps a link only when the bank's replay queue is empty again and again, as in
the code: a polled request that never succeeds keeps it non-empty, which is what
`incl_starve` shows and why `incl_live` has a single line.

*Links.* The simulator runs cycles and finishes its calls (weak fairness of
`NextCycle`, `RunQueue`, `Requeue`, `TransmitReturns`). A destination does not
refuse a message for ever (strong fairness of `Deliver`), which for the cache
banks is `bank`'s result.

*Scheduler.* Every core is stepped in every cycle (weak fairness of its steps).
Strong fairness is assumed of `RunCycle`, since a thread executes between its
interrupts and traps, and of `SwitchOut`, since cross calls do not hit every
attempt to switch a thread out. The disable timer brings every core back (weak
fairness of `EnableCore`).

`MEventQ` and `Pipeline` state safety only.

### Findings

Four disagreements between the code and what it says of itself, each with a
counterexample, are in `PROJECT.json` under `findings`:
1. *Dirty data dropped.* Eviction of a Shared line in the L2 ignores its dirty
   bit (`cmp_incl_l2_cache.cc:520`). With `cache_data` off, the default, only
   the write traffic is wrong; with it on, so is the data.
2. *Starvation.* A polled request stays ahead of the message that would free the
   MSHR it waits for (`cache_bank.cc:148`). The default has 16 MSHRs, and needs
   that many lines on their way from their owners at once.
3. *Missed invalidations.* `ReadExFwd` takes a line without `ProcInvalidate`
   (`cmp_incl_l1_cache.cc:507`).
4. *Finite queues* may leave owed waiters behind (`cache_bank.cc:124`).

## 4. Proofs

| Module | Theorem | For all |
|---|---|---|
| `CacheBankProofs` | `TypeCorrect`, `EventsScheduled`, `AssertsNeverFail`, `MessagesUnique`, `NothingLost` | message sets, set maps, queue sizes, bandwidths |
| `CmpInclProofs` | `TypeCorrect`, `MshrsMatch`, `OneFailureOnly` | L1s, banks, lines, associativities, MSHRs, buffers, with and without a limit of the links |
| `CmpInclPromiseProofs` | `OneWriter`, `Included`, `RequestsTracked`, `BuffersAnswered`, `Implements` | the same |
| | `NoFailure` | the same, links without bandwidth |
| | `WrittenDataKept`, `AmpleNeverFails` | the same, an L2 with a way for each line |
| `CoherenceProofs` | `TypeCorrect`, `SoleWriter` | caches and addresses |
| `MEventQProofs` | `TypeCorrect`, `NothingLeftBehind`, `MarkTold`, `PromiseKept`, `OrderKept` | events, window sizes, delays other than the window's size |
| | `LinkTypeCorrect`, `LinksMarked`, `LinksWake` | links, latencies, sizes and bandwidths within reach of the window |
| `PipelineProofs` | `InsertedWhole`, `PoppedWhole`, `SquashedWhole`, `PoppedEntries`, `CollapsedEntries`, and the order of the entries (`InsertedOrder`, `PoppedShrinks`, `SquashedShrinks`) | window sizes and contents |
| | `TypeCorrect`, `WindowSound`, `LsqSound`, `QueuesSound`, `StartedKept`, `SequentiallyConsistent` | contexts, programs, wrong paths, sizes, pools, traps |
| `ThreadSchedProofs` | `TypeCorrect`, `NeverLostNorDoubled`, `RecordKept`, `StallsAgree`, `EnablingIsSafe` | cores, threads, homes as below, periods and disables |
| `SubseqProofs` | `PickProperties`, `DropProperties`, `PickEmpty`, and what they rest on | sequences and sets of positions |

### The bank

The only assumption of the bank is `BankAssumption`: the set of a message is a set, the
queue size a natural number, the bandwidth a positive one. `TypeOK` is
inductive. `EventIffWork` is inductive with `TypeOK`: it needs both its halves,
because a service leaves `busy = event` and a wakeup of an idle bank with
`busy > 0` must not schedule an earlier event. `NoAssert` needs `EventIffWork`
(an ASSERT fails exactly if an event is pending without work, or fires on a busy
bank) and nothing else, but only with infinite queues for the capacity ASSERTs.
`NoDuplicate` is inductive with `TypeOK`; its step is a lemma on lists: if the
positions moved and those kept partition the wait list and the lists were
disjoint and without repetition, the new ones are. `NoLoss` follows by the same
partition. The properties of `Pick` rest on `Rank` being a bijection between a
finite set of positions and an initial segment of the naturals, proved without
induction of our own: the library's theorems on cardinality do it.

### The protocol

`MshrsMatch` needs no knowledge of what the other caches do. Its invariant says
of each cache apart that its MSHR is allocated exactly in the states in which a
request is under way, and of each message that its type fits its direction
(`Proper`), with which `TypeOK` is inductive: one case per action, and under it
one per row of the state table. `CmpInclAssumption` asks that `Unused` is no address.

All else rests on `Coh` (`CmpInclInv`). The protocol treats each address by
itself, so most of `Coh` speaks of `View(a)`: the state of line `a` in each
cache, its sharers, the queue of its MSHR, and the messages about it, wherever
they are, without their order. Of the view it says (`LineInv`):
* `CopyInv`, of each L1: there is one request of it, or what became of the
  request, and it finds the line in the state that waits for it; a copy is given
  up once; a line in a write-back buffer waits for the message that frees it; the
  directory has the L1 exactly while it has a copy, will get one or has a message
  under way that gives it up.
* `HomeInv`: what each state of the L2's line says of the sharers and of the
  request in the MSHR.
* `SharingInv`: while the line is shared no right to write exists or is under way.
* `OwningInv`: otherwise the right to write is in one place. An owner that gets a
  `ReadExFwd` before its own data has come passes the line on when it has, so
  that the hand-overs under way form a chain from the L1 that holds the right to
  the owner in the directory. `ChainInv` ranks the L1s along it; a step adds a
  link at the one end or takes one from the other.

A view without order is not enough, because some messages about a line must not
overtake others: a forward must find the copy that an `Invalidate` or the
acknowledgement of a write-back takes away. `Orderly` says so of each pair of
types on each link and in each list of a bank (`Behind`), and that no message is in
two places; it is the only part that looks at sequences. The proof is arranged
accordingly. A first group of lemmas says what sending, receiving, stalling and
waking do to the order; a second, what each change of a view does to `LineInv`, with
one lemma per row of the state tables that a message can meet; a third
that each handler is such a change. Last come the handlers of thread state, which
bypass the L1s. TLC checked `Coh` to the end on the constants of `incl_data` before
it was proved.

`Implements` follows from `Coh` and one more fact, that a request which waits in an L1's
MSHR beside a read is a read (`LoadsOnly`): a load is answered only where no other L1 can
write, a store only by the one writer, at the step at which the L1 answers.
`SoleWriter` is the abstract theorem about any implementation.

`OneFailureOnly` says that of the FAILs of the state tables and the ASSERTs only one
can be reached, the one that `CmpInclBandwidth.cfg` reaches: a write-back that
meets `StateShToInv` in the L2. It depends on the configuration whether it is reached,
so that `NoProtocolError` is no theorem without a hypothesis; `CmpInclPromiseProofs`
has two that suffice, each with an invariant on top of `Coh`:
* Without a bandwidth of the links, the default, the messages to a bank are in
  one list. `PortInv`: a write-back whose source has left the directory meets the
  line before the L2 shares it again, since nothing that ends the time of the
  line with the L1s is ahead of it in the list.
* With a way of the L2 for each line (`L2Ample`) it never takes a line back and is
  never in `StateShToInv`. `L2Ample` is also what `WrittenDataKept` needs: with
  evictions `WrittenDataHeld` is false (`incl_dirty`). `DataInv`: a value that is not
  in main memory is in a dirty line of the L2, a Modified line of an L1, or in a
  message that brings it to the L2 or to the next owner. The constants of
  `incl_data` satisfy `L2Ample`, and those of all runs of `CmpIncl` leave the bandwidth
  off. TLC checked `PortInv` on the constants of `incl` and `incl_data`, and `DataInv`
  on `incl_data` with and without a bandwidth, with 3 L1s and one line, and with
  one line and a bandwidth.

### The event queue and the links

`PromiseKept` is the refinement of `Timers`, one step per action of the queue. It
rests on an invariant of four parts. An event is in one place: in one slot,
once, or among the long events, or in the list being run. A long event has at
least a window's length to go, so that it can only enter the window, never be
overtaken by it, and no two have the same time left. The slot of the cycle that
ends is empty, or `advance_cycle()` is still running what was in it. And the
frames of the stack agree with what is marked. The arithmetic is in lemmas on
the distance between slots modulo the window's size. It assumes
`window_size \notin Delays`, without which it is false. `OrderKept` needs no
more: an insertion appends, and a long event enters the window at the slot of the
cycle that ends, which that invariant knows to be empty, so that it is ahead of
all that is enqueued for its cycle later.

`LinksWake` rests on a bound of the backlog. A bandwidth link books its cycles when
a message is sent, so that a link with `n` messages may be booked for
`(n + 1) * C` cycles, where `C` is the most that one message occupies the link. The
hypothesis `InReach(C)` says that this, with the link's latency, stays within the
window; for a link without bandwidth, the default, it says only that the latency
does, and the window is twice the latency of main memory (`mem_hier.cc:111`). A
longer delay would reach the window's edge, which `MEventQ` cannot bear. The
invariant relates the booking to the grants of the messages behind it
(`FreeBy`), and the events to the calls in progress: a link's event is pending,
no later than its first message is due, unless its `transmit_message()` runs.

### The pipeline

The first part of `PipelineProofs` shows for every size that the operations of the circular buffer
keep it whole: what `WindowTrue` and `LsqTrue` ask of it after each step of the
pipeline. The argument is by age: stepping from the head is a bijection between
slots and ages, a squash takes a suffix of the ages, `pop_head()` shifts a prefix,
and `collapse()` is the `Pick` of `SubseqProofs` on the walk. The second part
leaves the slots behind: `Older(q, a, b)` says that entry `a` comes before
`b` in the walk, and each operation is characterised by the entries it adds or
takes and by keeping `Older` among the rest (`Shrunk`).

The rest has one inductive invariant, `IInv`, checked by TLC on the
instance of `pipeline` before it was proved. Its parts, and what they are for:
* `Shape`: the window holds what is in flight, each queue the decoded
  instructions of its kind, in the window's order context by context; slots are
  as recorded; `prev` and `next` are neighbours in that order. It implies
  `WindowTrue`, `LsqTrue` and `QueuesAgree`. A squash takes a suffix of one
  context from the window, and the same suffix of each queue because the order
  agrees; a retirement takes the first of its context from both.
* `StartedFirst`: what went to memory is the oldest of its context and not on a
  wrong path. This is why no squash reaches it (`StartedIsKept`): squashes start at
  the successor of something, at an instruction before its execution, or at one
  on a wrong path. If it is taken out by its own fault, it is the one after what
  has retired, and so what is fetched next.
* `Course` and `Front`: what is not on a wrong path follows the program without a
  gap from what has retired, and so does the fetch unit, behind the youngest
  instruction. `Front` is what makes a refetch after a squash start where it
  must; it needs that an instruction which stops the fetch of its context
  (undecoded, or `Faulty`) is its youngest, and that the status says so; a fault
  after memory answered becomes the youngest by squashing what followed it.
* `Buffered` and `DoneTrue`: the store buffer holds retired stores in program
  order, none of a context with an access under way; what took effect is exactly
  what retired and left the buffer, and the load that memory answered. So each
  effect is that of the first operation of its context that is left, which is
  the step of `SeqMemory`.

Every action has a lemma that it keeps `IInv`, keeps what started as `StartedIsKept`
says, and takes a step of `SeqMemory` or none (`Good`). The outcomes of
`execute_after_release` are one lemma (`ReleaseGood`), used where a store is accessed and
where memory answers, and faults of every stage rest on `PrepareGood`. The assumptions are those of
`Pipeline`: sizes of at least one, a natural number of traps, programs of known
operations.

### The scheduler

The invariant of `ThreadSchedProofs` is `TypeOK`, that a thread waits once and
only in the list of the core it is placed on (`WaitsOnce`), that the records agree
state by state of a switch (`Recorded`), that what is out of service has no list
and no thread (`OutOfService`), and `StalledWhenAway`. Together they are inductive.

All five theorems have the hypothesis `HomesAreSafe`: either no core is ever
disabled, or thread `i` is at home on core `i`, as the program sets it up when
there are no more threads than cores. `enable_core()` fetches back the threads whose
home is the core, but records them on the core of their own number
(`base_alg.cc:369`), so that with other homes a thread is switched to one core and
placed on another. The hazard is listed; the run stays within the hypothesis.

### Only model-checked

* `NoProtocolError` of `CmpIncl` with a bandwidth and an L2 that evicts, and
  `WrittenDataHeld` with an L2 that evicts: both are false there, as shown above.
* `AskedEveryPreempt`, `OwedWakeupIsRepaid` and `LoadsAreWatched`, which fail.
* All liveness (`EveryMessageServed`, `EveryRequestAnswered`,
  `EventuallyDelivered`, `EveryThreadRuns`), which is out of the prover's reach,
  as is ENABLED.

No module uses RECURSIVE operators, and no theorem is by induction over data.

## 5. Not modelled, and the plan

Not modelled: flush requests of I/O devices and prefetches in the caches, tag
arithmetic and LRU order, warm-up, statistics, the protocols that the build
leaves out, start-up code, the host interface, `power/`, and DRAMSim2 (an empty
submodule, whose callbacks only are known).

`cmp_incl_wt` is compiled but unfinished, and a model of it would stop at its
first eviction. Its L2 gives a line that is replaced the state `StateShToInv`
(`cmp_incl_wt_l2_cache.cc:59`), for which `trigger()` has no case, and rejects
`InvAck` in every state; the L1's `PendingWrite` rejects `Invalidate`; updates go to
the sharers only when there are none (line 370). Without evictions its table has
no races left to check.

Of the processor: thread hopping and the policies other than the base one,
branch predictors, functional units, register renaming, traces and checkpoints.

In order:
1. **Done.** `CacheBank` and its proofs; `CmpIncl` and `Coherence`.
2. **Done.** `MEventQ` with its refinement and proofs; `FifoLink`.
3. **Done.** `Window`, `Pipeline`, `SeqMemory`, and the lemmas on windows.
4. **Done.** `ThreadSched` for the base policy.
5. **Done.** Proofs: all safety properties of `Pipeline` with the refinement of
   `SeqMemory`, of `ThreadSched`, of `MEventQ` and `FifoLink`.
6. **Done.** The coherence of `CmpIncl` for any number of caches: all its safety
   properties and the refinement of `Coherence`.
7. Return stack repair, tag and index arithmetic and spatial patterns as pure
   algorithms against reference definitions.
