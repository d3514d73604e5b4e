# A TLA+ verification of the QP/lwIP dining-philosophers example

This directory models the firmware in `src/Source`: the dining-philosophers
application on an STM32F2xx board, with the QP event framework (QF), its
preemptive kernel (QK) and state-machine processor (QEP), the Ethernet driver,
the active object that runs lwIP, and the HTTP server. TLC checks the modules
on small instances; TLAPS proves the theorems of the `*_proofs` modules for all
values of the constants. `PROJECT.json` relates every
definition to the lines it models and lists the runs, the hazards and the
findings.

## 1. The system

Everything runs on one processor and one stack. An *active object* is a state
machine with an event queue and a unique priority. QK runs the highest-priority
active object that has an event; each event is handled in one
*run-to-completion step*, which only active objects of higher priority and
interrupts preempt. Events are either static or taken from a pool and counted
by reference.

| Component | State | Operations | Interacts with |
|---|---|---|---|
| `Philo` x 5 (`philo.c`), priorities 2..6 (`main.c` has n + 2) | state thinking / hungry / eating, a time event | TIMEOUT, EAT; posts HUNGRY, publishes DONE | Table, time events |
| `Table` (`table.c`), highest priority | `fork[]`, `isHungry[]` | HUNGRY, DONE; publishes EAT. DISPLAY_*; posts SEND_UDP | Philo, LwIPMgr |
| `LwIPMgr` (`lwipmgr.c`), priority 1 | UDP pcb, IP addresses, timers | SEND_UDP, RX_READY, RX_OVERRUN, SLOW_TICK; UDP and CGI callbacks | Table, driver, lwIP |
| Ethernet driver (`eth_driver.c`, part of `stm32f2x7_eth.c`) | two descriptor rings shared with the MAC's DMA, scan state, interrupt mask | interrupt handler, receive and transmit paths | DMA, LwIPMgr |
| QF queues (`qa_*.c`, `qeq_*.c`) | front event, ring buffer, free counts | postFIFO, postLIFO, get | everybody |
| QF pools, publication, garbage collection (`qf_*.c`, `qmp_*.c`, `qa_defer.c`) | free list, reference counters | new, post, publish, defer, recall, gc | everybody |
| QF time events (`qf_tick.c`, `qte_*.c`) | linked list, counters | arm, disarm, rearm, tick | SysTick, Philo, LwIPMgr |
| QK (`qk*.c`, the Cortex-M port) | ready set, current priority, ceiling, interrupt nesting | schedule, mutex, PendSV | everybody |
| QEP (`qhsm_*.c`) | active state, `temp` | init, dispatch, isIn | the state handlers of every active object |
| HTTP server (`httpd.c`, `fs.c`) | per connection: position in the file and in its tags, retries; open files | lwIP's callbacks accept, recv, sent, poll, err | lwIP's TCP, inside a step of LwIPMgr |
| BSP (`bsp.c`) | - | SysTick and EXTI0 handlers, start-up, `Q_onAssert` | QF, Table |

What is hard in it: preemption in the middle of a transition (Table runs
between the exit action of one state and the entry action of the next);
bookkeeping in one object about five others; an event shared by several queues
while its publisher still posts it; interrupts between the choice of an active
object and the fetching of its event; a list that is unlinked while it is
walked; a DMA that writes descriptors, suspends and resumes while the driver
reads them; pools and queues whose exhaustion stops the board; a transition
between any two states of a hierarchy that the processor can only explore by
asking handlers, each answer overwriting the last; a reply written in pieces of
whatever size memory and the client allow, by callbacks that may come after the
connection was closed.

## 2. Modules

| Module | Models | Abstract specification |
|---|---|---|
| `DPP` | Philo, Table, queues, time events, ticks, EXTI0 | `Dining` (refined) |
| `QEQueue` | the queue of an active object and the raw queue | `Deque` (refined) |
| `QHsm` | the hierarchical state-machine processor | statechart semantics (`Expected`) |
| `QPSet` | the two-level priority sets of `qpset.h`, used by the next two | - |
| `QKernel` | QK and the Cortex-M interrupt path | - |
| `QFEvents` | life of a pool event | - |
| `QTimeEvt` | time events and `QF_tick` | `Timers` (refined) |
| `EthDriver` | driver and both DMA engines | - |
| `LwIPMgr` | LwIPMgr, its part of Table, the medium pool | - |
| `Httpd` | the HTTP server, its file table, TCP as it sees it | the reply (`Reply`) |
| `QActive_proofs` | theorems about `QHsm` and `QEQueue`, the two halves of an active object (`QActive` in `qf.h`) | - |
| `DPP_proofs`, `QKernel_proofs`, `QFEvents_proofs`, `QTimeEvt_proofs`, `EthDriver_proofs`, `LwIPMgr_proofs`, `Httpd_proofs` | theorems about the module named | - |
| `MC*` | extend a module for TLC; the `.cfg` files give the constants | - |

A critical section, or a stretch of code that nothing relevant preempts, is one
action. An assertion that fails is modelled as in the code: `Q_onAssert` stops
the system, so a `status` variable leaves `"running"` and nothing happens any
more. Definitions whose comment says *Mutant* are not part of a specification:
they are faulty forms of the definition after them, with which a property of
the module is seen to fail. Constants marked *bound* are not in the code and
limit the state space. `TypeOK` documents the types of each module; they are part
of the proofs.

### DPP

`state`, `timer`, `fork`, `isHungry` are the fields of the same names (`timer`
is the counter of the time event). `queue`, `pc` and `ev` stand for the kernel:
an active object takes an event (`Sched`), its step is cut where it posts or
publishes, and an action of an active object needs every higher one to be idle
(`At`), which is QK's scheduling. A tick can come anywhere. Active objects are
named by priority minus 2, so Table is `N_PHILO`.

- `ThinkingTimeout`/`EnterHungry` and `EatingTimeout`/`EnterThinking` are the
  two halves of a transition around its post; `TableDone`/`TableDoneLeft` those
  of the DONE handler around its first publication.
- `Asserting` collects the assertions of a step: those of a handler halt with
  `"failed"`, a full queue with `"overflow"`.
- `QF_publish` of EAT is one action: Table outranks all subscribers. (A tick
  between two of its posts would only put a TIMEOUT before instead of behind an
  EAT.) `QFEvents` takes the publication apart.
- Left out: Table's TERMINATE signal, which nothing sends; its DISPLAY_*
  signals (in `LwIPMgr`); the LCD. The event of EXTI0 carries `MAX_PUB_SIG`,
  which no handler knows; its interrupt is not enabled in this build
  (`BSP_EXTI_Init` is commented out) but its handler is there, and the run lets
  it fire when no event of its waits for Table.
- The small event pool is not a variable: `BlocksInUse` counts its blocks from
  the events in queues and in handling and the references that publishers keep.
  All philosophers get the same EATs in the same order, so an EAT's block is
  in use as long as the philosopher furthest behind has not handled it.

### QEQueue

All fields of `QEQueue`, plus the active object's bit in `QK_readySet_`. Each
post and get is a critical section and an action. `got` and `failed` record
what the caller sees.

### QHsm

A machine is any assignment of superstates and nested initial transitions to
`N_STATES` states, chosen in `Init`; the handlers are asked for them as in the
code, and decide freely about events. `state`, `temp`, `t`, `s`, `path`, `ip`
are the variables of the code; each round of a loop is an action. A handler
without an exit or entry action returns its superstate and so overwrites
`temp`; the model lets each call do so or not. `log` records the exit and entry
signals sent, and `Expected` says, from the hierarchy alone, what they must be.
QP's transition to self or from a superstate leaves and enters the main source
again only in the case source = target; a transition between a state and one
around it is local, and `Scope` says so.
`Ancestors` and `Leaf` are recursive functions on the hierarchy, which `WellFormed`
requires to be one: states are numbered from the top state inward, at most
`MAX_NEST` deep, and an initial transition leads inward. `HsmInit`, `HsmNext`
and the like carry the prefix so that `QActive_proofs` can extend this module
and `QEQueue`.

### QPSet

A byte is the set of its bits, the lookup tables are the functions they
tabulate, and the number of bits in a byte is the constant `WIDTH`.

### QKernel

The ready set is a `QPSet64`; with `WIDTH` 2 three priorities need two subsets.
`frames` is the stack of activations of `QK_sched_`, each with its `pin`, and
where it is: about to *get* its event or *run*ning; `isrs` the stack of
interrupt handlers. Queues are counts. Interrupts occur only in phase `"run"`:
`QF_onStartup` enables them after `initialize()`. PendSV has the lowest
priority, so it runs when no handler is left; the transition to the task level
by SVC is part of it. The mutex is compiled in and not used by this
application.

### QFEvents

One pool, one signal to which active objects subscribe and unsubscribe at will.
`QF_publish` reads the subscription list one byte at a time and outside of
critical sections (`PublishRead`); with `WIDTH` 1 the two active objects are in
different bytes. Nobody may be subscribed: then `QF_publish` itself collects
the event. Contexts (active objects and an
interrupt) interleave at every critical section without regard to priorities,
which includes what QK allows. `arg` is the event a call of publish, recall or
gc works on, that is, a reference on the stack. `QF_gc` and `QMPool_put` are
two critical sections (`Gc`, `Put`), as in the code.

### QTimeEvt

`listHead`, `next`, `ctr`, `interval`, `linked` (the reference counter the code
uses for that purpose) and the local variables of `QF_tick`. Each visit of a
list element is an action; a visit that posts is three (up to the end of the
critical section, the post, the rest). `QF_tick` must not be preempted by a
task (`qf.h`, 884-887) and runs in SysTick here, and the interrupt that could
preempt it touches no time event; so arming happens only outside the walk. An
interrupt handler that armed a time event of its own during the walk could
insert at the head and make `Q_ASSERT(prev != 0)` fail; none exists here.

### EthDriver

The descriptor bits OWN, FS, LS, ES; the DMA's and the driver's positions in
both rings; the flags of DMASR that the driver tests. The DMA engines
(`RxSegment`, `RxSuspend`, `TxSend`, `TxSuspend`) are external and taken from
what the driver relies on; a suspended engine goes on only when its poll demand
register is written. What the code is found to do:

- No descriptor ever gets its IC bit, so the transmit interrupt flag and
  `LWIP_TX_READY` do not occur; with `LINK_STATS`, `eth_driver_init` enables
  `ETH_DMA_IT_TU | ETH_DMA_IT_TU` (line 207), one of which must be a slip.
- `ethernetif_init` overwrites `linkoutput`; `ethernetif_output`, the queue
  `l_txq` and the sending loop of `eth_driver_write` are dead code.
- The RO flag is tested and never cleared, so after one overrun every receive
  interrupt posts `LWIP_RX_OVERRUN` as well.
- `low_level_transmit` returns nothing although its comment (330-331) promises
  an `err_t`, and it copies into the buffer before the OWN bit is tested.
- With the transmit ring full, the copy destroys the oldest frame that waits to
  be sent, and the new one is not sent either; `FramesIntact` says that this is
  the only case.
- Frames span descriptors only if longer than 1524 bytes.

### LwIPMgr

The receive ring is a sequence of frames; a frame is a UDP datagram to port 777,
a CGI request with a text, or any other (which may carry a DHCP answer). Table
is reduced to its display signals and preempts LwIPMgr whenever it has one. Of
lwIP, `udp_input`'s choice of a pcb is modelled: once `udp_rx_handler` has
connected the pcb, only its peer is heard, and nothing ever disconnects it, so
the first sender owns the port. The event of a publication is freed at the end
of `QF_publish`, after Table has run. `TcpTimer`, `ArpTimer` and AutoIP have no
effect on this state. `sys_now` always returns 0 (`bsp.c`, 344-346).

### Httpd

`pcb` is what lwIP keeps of a connection: its state, which callbacks are set,
and the bytes in the send buffer; `hs` is `struct http_state`; `inuse` the
entries of `fs_memory`. lwIP calls one callback at a time, so `cb` is the only
call in progress; `send_data` is cut at the rounds of its loop, because it can
fail to end (finding 3). A file is a short sequence of bytes in which a tag is
one byte, since `send_data` never leaves its loop inside a tag: all of a file
is in flash, and the parser only stops at a complete tag or at the end. Every
`tcp_write` may be refused, for the piece asked for and for each half tried
after it. `DYNAMIC_HTTP_HEADERS` is off in this build. Accepting without memory
for a state is no step. What the code is found to do:

- The comments of `httpd.c` have tags replaced; the tag itself stays in the
  reply and the insert follows it (section 4). `Reply` says what the code sends,
  so `StreamIntact` is about the integrity of the stream and does not show that
  the comments are right, which they are not.
- A tag at the very end of a file gets no insert: the loop ends with
  `parse_left` before `TAG_SENDING` is reached again. The files of this server
  end in text (`ssi_demo.shtm` in `</HTML>`); `LastIsText` assumes it, and
  without it `StreamIntact` would be false.
- `http_recv` without a file does not free the pbuf. It cannot happen as long
  as `LWIP_MAX_OPEN_FILES` (10) is not less than `MEMP_NUM_TCP_PCB` (10) and no
  handle leaks; `NoPbufLeak` depends on both.
- After `close_conn` the poll callback stays set, and the next poll aborts the
  connection although the client may not have acknowledged all yet: a slow
  client can lose the end of its reply. `StreamIntact` is about what is given
  to TCP.

## 3. Runs

| Run | Bounds | Distinct states | What it shows |
|---|---|---|---|
| `dpp` | 5 philosophers, think 4 / eat 2 (5000 / 2000 ticks in the code), queues of 5, 1 tick per busy period, EXTI0 once at a time | 275,782 | safety, the small pool, refinement of `Dining`, no starvation |
| `qeq` | ring of 4, two events | 8,577 | the ring implements a double-ended queue |
| `qk` | 3 active objects, 2 nested interrupts, 9 demands per busy period, 2 locks per step | 183,449 | kernel safety with a two-level ready set, and every event is served |
| `events` | 2 blocks, 2 active objects and an interrupt, 4 references per event, 2 bytes of subscriptions | 5,656,633 | reference counting and the pool |
| `time_events` | 3 time events, up to 2 ticks | 42,434 | the list implements independent timers |
| `qhsm` | all machines of 5 states, nesting up to 5 with the top | 608,975 | transitions run the right actions, `path[]` suffices, calls end |
| `eth` | receive ring 3, frames of up to 3 segments, transmit ring 2 | 590,640 | ring alignment, whole frames, bounded interrupts, what overwrites a frame, reception resumes, frames leave |
| `eth_frame_sits` | receive ring 2 | (violation) | finding 1 |
| `lwip` | 2 peers, 1 address, 4 blocks, queue of 10, at most 3 datagrams per read | 276,393 | text events, answers, display |
| `text_burst` | at most 4 datagrams per read | (violation) | finding 2 |
| `httpd` | 2 connections, a page of 6 bytes with two tags and a file of 3, insert of 2, send buffer 3, abort at the 3rd poll | 480,540 | replies intact, nothing leaked or used after it was freed, where `send_data` can be caught in its loop, and that connections end unless it is |
| `httpd_full` | as `httpd`, 1 connection | (violation) | finding 3 |

Why the bounds are enough. Five philosophers are those of the code; times enter
only through their order and ratio, and a busy period of one tick is half of
`EAT_TIME` here where it is 1/2000 in the code (a tick is 0.1 ms); the proofs
make no such assumption. A ring of 4 entries is filled, emptied and wrapped in
both directions; three priorities are the least for nested preemption with one
active object held back, two nested interrupts for a handler inside a handler.
Three time events give an unlinking at the front, in the middle and at the end
of the list, also in one walk. A receive ring of 3 with frames of 1 to 3
segments has every alignment of a frame to the end of the ring, frames cut off
by a full ring, and scans that meet half a frame. Two transmit descriptors are
the fewest with a ring that is neither empty nor full. Five states with up to
four levels of nesting give all seven cases of `QHsm_dispatch`, with two levels
left to exit and to enter in the last of them. A send buffer as long as one
file, half of the other, and smaller than what two pieces need, has every way to
cut a reply: its first 3 bytes and the tag behind them do not fit at once, so
the buffer is full in front of the first tag, where `send_data` must not be
caught, and a tag with its insert fills it exactly, which leads to finding 3.
The only thing it is too small for, a refused write that succeeds with
half of its bytes (that takes 4), is in the proofs. Two polls
with a call of `send_data` before the abort leave room for the stalled client of
finding 3. Three datagrams per read is the largest
number the pool of 4 sustains, four the first that it does not.

Deadlock is checked except where the system may really stop: `qeq` (a failed
assertion) and `events` (a pool that runs out asserts).

### Properties

- **DPP**: `MutualExclusion`; `ForksMatchOwners` (a fork is USED exactly when
  a philosopher has it or an EAT or DONE about it is in flight);
  `NoAssertionFails` (with `HandlerAssertionsHold`, the part that needs no
  timing); `NobodyForgotten` (between events Table owes nobody two
  free forks); `SmallPoolSuffices` (with five philosophers at most one block for
  each and those of EXTI0, of the 20 there are; the bound is reached);
  `ImplementsDining`; `NoStarvation`.
- **QEQueue**: `HeadBehindUsed`, `ImplementsDeque`. (`ReadyIffEvents`, that the
  ready bit follows the front event, is not in the run; it is proved.)
- **QKernel**: `GetFindsEvent`, `RunToCompletion`, `NoPriorityInversion`,
  `MutexProtects`, `EventsServed`.
- **QFEvents**: `RefCtrExact`, `EachBlockAccounted`, `AssertionsHold`.
- **QTimeEvt**: `ListExact`, `ImplementsTimers`, `DisarmedLeaves`.
- **QHsm**: `TransitionExact`, `EntryPathFits`, `IsInExact`,
  `RunsToCompletion`.
- **EthDriver**: `RxRingAligned`, `WholeFrames`, `IrqEventsBounded`,
  `FramesIntact`, `ReceptionResumes`, `HandedOverSent`.
- **LwIPMgr**: `TextEvtsAccounted`, `TextPoolSuffices`, `AnswersToSender`,
  `AddressShown`.
- **Httpd**: `StreamIntact` (no byte of a file or an insert is lost, repeated or
  out of order, however writes are cut or refused); `NoStaleState`,
  `HandlesExact`, `NoPbufLeak`; `CaughtBehindTag` (the loop of finding 3 needs a
  full send buffer and a tag before the one at hand); `ConnectionEnds`.

`ConnectionEnds` has a condition: every connection ends *unless `send_data` is
caught* in the loop of finding 3, for this connection or for another, since then
no callback of any connection runs again. `CaughtBehindTag` says where that can
happen, so the two together mean: as long as pages have at most one tag, every
connection ends, whatever the clients and the memory do; with two tags or more,
as in the `ssi_demo.shtm` of this server, a client that stalls at the wrong
moment ends it all. The page of the run `httpd` has two tags, so both sides of
the condition occur. Every connection has an entry of `fs_memory` there:
without one, a client could repeat its request for ever, since each request sets
`retries` back.

`NoStarvation` holds because a philosopher thinks longer than he eats: with
thinking/eating 5/2, 3/2 and 1/1 TLC confirms it, with 1/2, 1/3 and 2/5 two
neighbours take turns and starve the one between them. Its
hypothesis is that the processor is idle again and again: a storm of EXTI0
keeps Table busy for ever.

### Fairness

- `DPP`, `LwIPMgr`: `WF(Run)`, the processor executes whenever something can
  run, and the tick comes (`SysTick` is periodic and enabled for good): `WF` in
  `LwIPMgr`, `SF` in `DPP`, where the bound on ticks per busy period disables
  it for a while each time EXTI0 makes the processor busy.
- `QHsm`: `WF(HsmStep)`, every handler returns.
- `Httpd`: `WF(send_data)`, and `SF` of the poll of each connection, which
  lwIP's timer calls again and again between other callbacks. Nothing is
  assumed of the clients or of memory.
- `QKernel`: `WF(Progress)`, which includes that run-to-completion steps end;
  bounded demands within a busy period stand for a processor that catches up.
- `QTimeEvt`: ticks come (`WF(TickBegin)`) and a walk goes on (`WF(Walk)`).
- `EthDriver`: `WF` of the driver's steps, of the interrupt and of the transmit
  DMA; `SF(StackDone)`, since lwIP's processing of one frame or timer ends
  although it may send frames any number of times. Nothing is assumed about
  frames arriving.
- `AddressShown` states as its hypothesis that LwIPMgr is idle again and again:
  on a saturated wire the loop of `eth_driver_read` need not end. The slow tick
  (in `EthDriver` and `LwIPMgr`) is assumed not to come again before the last
  one is processed.

## 4. Findings

1. `eth_frame_sits` (comment and code differ). The comment in
   `eth_driver_read` (218-221) explains its loop as the cure for packets that
   "sit there". The loop ends at the first NULL of `low_level_receive`, and a
   bad frame or a failed `pbuf_alloc` gives NULL too; the frames behind it sit
   there until another frame arrives.
2. `text_burst` (bug). Four datagrams to port 777 in one `eth_driver_read`
   exhaust the medium pool of 4 blocks (three waiting answers and the datagram
   on display), and the assertion of `QF_new_` ("pool must not run out of
   events") stops the board.
3. `httpd_full` (bug). "If the send buffer is full, return now" (`httpd.c`, 741)
   is only tested when parsed data waits to be sent. If the insert of a tag has
   just filled the send buffer and the poll timer comes before an
   acknowledgement, `send_data` goes on to the next tag with `len` 0;
   `tcp_write` of nothing succeeds, and the loop does not end. LwIPMgr is stuck
   in that step, so neither the network nor the display works any more.
   `CaughtBehindTag` holds, so pages with a single tag are safe.

One more disagreement has no run of its own. `httpd.c` says that tags are
replaced "with strings provided by an include handler" (41-43), that TAG_SENDING
is "Sending tag replacement string" (143), and that `send_data` must "scan for
tags and replace them with insert strings" (701-702), and `httpd.h` (103-104)
that the string replaces the whole tag. The code sets `tag_end` to the position
behind the tag (911) and sends the file up to there, the tag included, then the
insert: the client gets both. A browser does not show the tag, which is an HTML
comment. `Reply` in `Httpd` is the reply as the code makes it.

## 5. Proofs

Every proof has the same outline. The properties that the runs check are not
inductive, so each module states an inductive invariant `IInv` (`QueueInv` and
`HsmInv` in `QActive_proofs`), first checked by TLC and then proved: `Init` implies it, every action preserves it (one lemma
per action or group of actions), and it implies the properties. Constants are
arbitrary values that satisfy the assumption named; the bounds of the runs are
not used, except where a constant marked *bound* occurs in the model itself.

| Module | Assumption | Theorems |
|---|---|---|
| `DPP_proofs` | `PhiloAssumption`; for two theorems `ShortBusyPeriods`, `QueuesSized` | `Typing`, `Bookkeeping`, `NeighboursExclude`, `HandlersSafe`, `EverybodyRemembered`, `NeverHalts`, `PoolSuffices`, `Refinement` |
| `QActive_proofs` | `QHsmAssumption` | `ProcessorTypes`, `TransitionsExact`, `PathNeverOverrun`, `QueriesExact` |
| | `QueueAssumption` | `RingConsistent`, `ReadyBitExact`, `QueueIsDeque` |
| `QKernel_proofs` | `KernelAssumption`, `WidthAssumption` | `TypeCorrect`, `ReadySetExact`, `GetNeverFails`, `StepsRunToCompletion`, `PreemptionNeverLate`, `CeilingProtects` |
| `QFEvents_proofs` | `EventAssumption`, `WidthAssumption` | `TypeCorrect`, `ReferencesCounted`, `BlocksAccounted`, `NoAssertionFails` |
| `QTimeEvt_proofs` | `TimeEvtAssumption` | `TypeCorrect`, `ListCorrect`, `TicksAreTimers` |
| `EthDriver_proofs` | `EthAssumption` | `TypeCorrect`, `RingAligned`, `FramesWhole`, `IrqBounded`, `BuffersIntact` |
| `LwIPMgr_proofs` | `MgrAssumption` | `TypeCorrect`, `TextsAccounted`, `AnswersReachSender`, `PoolAndQueueSuffice` |
| `Httpd_proofs` | `HttpdAssumption`, `LastIsText` | `TypeCorrect`, `StreamsIntact`, `ArgumentsValid`, `FilesAccounted`, `PbufsFreed`, `CaughtOnlyBehindTags` |

The theorem `Invariance` of a module (a lemma in `DPP_proofs`) is
`Spec => []IInv`; for `QHsm` it is the lemma `HsmAlways`.

### DPP_proofs

Assumption: `PhiloAssumption` (at least two philosophers, positive times,
natural queue lengths and bounds). The results are for every number of
philosophers, all times and all queue lengths, with EXTI0 and with overflow;
only `NeverHalts` and `PoolSuffices` need the two conditions given below.

The invariants are not inductive by themselves: that neighbours exclude each
other depends on Table's forks, those on the EAT and DONE events in flight, and
those on where each philosopher and Table are in their steps. The inductive
invariant `IInv` is the conjunction of

- `TypeOK`, and `status # "failed"`;
- `TableInv`: a HUNGRY or DONE is alone and first in Table's queue or is being
  handled, and its sender stands right behind the post; all else in that queue
  is from EXTI0;
- `PhiloInv`: for each philosopher, at most one TIMEOUT and one EAT for him is
  on its way; an EAT only while he waits, has no request pending and
  `isHungry` is 0; an armed timer or a TIMEOUT never while he is hungry;
- `ForksMatchOwners`;
- `WaitingInv`: while Table is in the middle of DONE only the left neighbour
  can be waiting with two free forks.

Each action has its own lemma. `Typing`, `Bookkeeping`, `NeighboursExclude`,
`HandlersSafe` and `EverybodyRemembered` follow; `Refinement` maps every step
to a step of one philosopher in `Dining` or to none, and uses
`MutualExclusion` where he starts to eat.

`NeverHalts` and `PoolSuffices` are about limits, and need timing:
`ShortBusyPeriods` (a busy period has fewer ticks than a meal; in the code a
meal is seconds) and `QueuesSized` (a queue holds `N_PHILO` events besides the
front one, as in `main.c`, and EXTI0 does not fire while more wait for Table
than fit, which is a bound of the model: nothing in the code limits a button).
The invariant `RoomInv` adds to `IInv`

- `EatsInv`: in the queue of a philosopher and in his hands, no EAT is there
  twice, and each is about a philosopher who is `Current`: he has yet to take
  that EAT, or he takes it now, or he has started to eat in this busy period
  and cannot finish in it, since `timer + busyTicks` exceeds the bound on the
  period, a sum that a tick leaves as it is;
- `ApartInv`: two neighbours are never both in the middle of publishing DONE,
  for the same reason;
- `LoadInv`: the events that wait for Table and the one it has in hand.

So Table never publishes an EAT that is still in a queue; all events in a queue
are distinct, there are `N_PHILO + 1` of them, and the new one is not among
them, which leaves room (`RoomForNew`, by counting). For the pool, the EATs a
philosopher wants name owners of forks and the DONEs kept by their publishers
name publishers; neither set has two neighbours, so each has at most every
second philosopher (`EverySecond`). The bound
`2 * (N_PHILO \div 2) + 1 + MAX_EXTI` is `N_PHILO + MAX_EXTI` for an odd number
of philosophers such as five; for an even number it is one more, and TLC
reaches it with two and four.

### QActive_proofs, part 1: QHsm

Assumption: `QHsmAssumption`, at least one state and a path array
(`QEP_MAX_NEST_DEPTH_`, here `MAX_NEST`, 6 in the code) of at least the two
entries that `QHsm_dispatch` writes for every transition. The results are for any number of states, every
hierarchy nested no deeper than the array is long, every assignment of initial
transitions and every choice of handlers with and without exit and entry actions.

The three properties compare the C code, which only ever asks one handler for
one superstate and keeps a path of limited length, with what the hierarchy alone
prescribes. First come facts about a hierarchy:

- the recursions of `Ancestors` and `Leaf` have a solution (`AncestorsExist`,
  `LeafExists`), and from the top state inward a set closed under the step
  holds all states (`InwardInduction`): that is the induction, with a set in the
  place of a predicate and a least counterexample in its proof;
- the states around a state form a chain (`AncestorsTransitive`,
  `AncestorsLinear`) as long as its nesting (`AncestorsCount`);
- listing a set outward or inward, one more state is appended when it lies
  outside or inside all of the others (`UpAppend`, `DownAppend`).

`HsmInv` is `Typed` and, by the place in the code (`pc`),

- `AtRest`: a machine at rest is in the state its last transition led to, its log
  is the one expected and the last query had the right answer;
- `InTransition`: the source is a state around the one the machine was in;
- `Exiting`: the log tells the states to be exited so far, from the inside out and
  no other (`Logged`); `path` is the chain of superstates of the target as far as
  it was explored (`Chain`) and leaves none out (`Covers`), and the common state
  sought is not among those already excluded;
- `Entering`: all that had to be exited is exited, and states are entered down
  to the one before `path[ip]` (`EnteredTo`), which is where the target, or the
  next target of the initial transitions, is reached when `ip` runs out.

It is inductive, one lemma per action. The cases of `QHsm_dispatch` that find
the innermost common state end in `ScopeIs`: a state around source and target,
with none inside it around both, is the `Scope` of the statechart. At rest the
invariant contains `TransitionExact` and `IsInExact`. `EntryPathFits` follows
from `ChainBound`: every entry of a chain is one level farther out, so a chain is no
longer than its first entry is nested deep.

### QActive_proofs, part 2: QEQueue

Assumption: `QueueAssumption` (a natural length, NULL not an event). `QueueInv` is
`TypeOK`, `ReadyIffEvents` and `HeadBehindUsed` (`head` lies behind the used
entries, counted downwards modulo the length; the front event is there when
any entry is used). `RingConsistent` proves it, `QueueIsDeque` the
refinement: the sequence read off the ring from `tail` to `head` changes as a
deque's does.

### QKernel_proofs

For every number of active objects up to `WIDTH * WIDTH` (64 in the code), every
`WIDTH`, every depth of interrupts and preemption, any number of demands, and
mutexes of any ceiling nested in any way. First the arithmetic of the priority
sets: a priority is determined by its subset and its bit there (`Digits`,
`DigitsUnique`), so inserting, removing and `findMax` on two levels are those of
a set (`InsertReady`, `RemoveReady`, `FindMaxReady`). `IInv` then says

- `ReadyExact`: the ready set has exactly the active objects with events, and
  the upper level exactly the subsets that are not empty;
- `PhaseInv`, `IsrInv`: interrupts only after `QF_onStartup`; `QK_intNest_`
  counts the handlers between entry and exit, and a handler on its way out has
  triggered PendSV;
- `FrameInv` of the stack of activations: each has the priority of the one below
  as its `pin` and a higher one itself (`StackInv`), one about to fetch has an
  event (`EventInv`: only an active object takes from its own queue, and it
  cannot be entered twice), none runs at or below a ceiling locked below it
  (`HoldInv`), and the ceiling is the highest of those locked, with what each
  unlocking restores being the highest of those locked before (`CeilingInv`);
- `QK_currPrio_` is the priority of the activation on top;
- `UrgentRuns`: with no handler active and no PendSV pending, no event waits
  above both the current priority and the ceiling.

`CeilingInv` is what makes one global `QK_ceilingPrio_` work for all mutexes:
the value each saves is that of the locks still held, whoever took them.

### QFEvents_proofs

For every number of active objects, any finite set of blocks and any width of a
subscription byte. `IInv` counts: a block in the free list or owned by the
context that allocated it has no reference, any other has at least one and
`refCtr` is their number (`CountInv`); the free list has no block twice and its
length is `nFree` (`FreeInv`); a context has an argument exactly at the places
where it needs one (`PhaseInv`); a bit of a subscription byte, also in a copy
read a while ago, is an active object (`SubscrInv`); a block on its way to the
pool has one reference left, which is the call's own, and a recalled event is
still referred to by the queue (`CallInv`). The number of references is a
sum of cardinalities, so most of the work is in lemmas on how a queue, a
variable or a call changes it by one.

### QTimeEvt_proofs

For any finite set of time events. `IInv` says that a number `n` and an injective
sequence `f` of `n` time events exist that the links run through from
`listHead` to NULL, that these are the linked ones, and that during a tick
`cursor` is one of them (or the end) and `prev` the one before
(`ListIs`, `WalkIs`); that armed time events are linked (`ArmedLinked`) and
nothing is walked outside of `QF_tick` (`PhaseInv`). Linking puts a new head
before `f`, unlinking takes the element under the cursor out of `f` wherever
it is (`LinkStep`, `UnlinkStep`). `ListExact` and `ToVisit` are stated with a
recursive function along the links (`Path`); `PathIs` proves that it has the
value `f` says. `TicksAreTimers` is the refinement: the beginning of the walk is
the tick of all timers at once, because `ToVisit` then has every linked time
event; each visit takes exactly the cursor out of `ToVisit` and so leaves what
`Remain` and `Owed` say of the others, and of that one it changes the counter
just as the abstract tick has done already; the post is the delivery.

### EthDriver_proofs

For rings of every length, frames of up to any number of segments that fit, and
with or without memory for pbufs. Positions in the receive ring are counted back
from the DMA (`Ago(k)`, the descriptor written `k` segments ago). `IInv` says
that for some `c` the CPU owns exactly the last `c` (`OwnerInv`); that these
make up frames, of which only the oldest may have lost its beginning, to the
release loop, and only the newest its end (`SegmentInv`); that the segments
scanned so far are the oldest and of one frame (`ScanInv`); the same for one
run of descriptors in the transmit ring (`TxInv`); and that the receive
interrupt is enabled, or RX_READY is queued, or the frames are being read, with
an RX_READY between any two RX_OVERRUN (`IrqInv`). Each step moves `c` or the
number of segments scanned by one, or rotates the view (`Ago` after a segment is
that of one more before). `BuffersIntact` is an action property: the transmit
descriptor at hand belongs to the DMA only if the run is the whole ring.

### LwIPMgr_proofs

For any numbers of peers, addresses, blocks and queue entries. `IInv` relates
the pool to the events in the queues and in handling (`Accounted`), the display
signals in Table's queue to the step LwIPMgr is in (`TableInv`), the answers in
the queue to the connected peer (`SenderInv`), and the queue to the receive
interrupt (`ReadInv`: at most one RX_READY, answers only before it, at most one
RX_OVERRUN on each side of it, no more answers than datagrams of the
last reading). From the last follows a bound on the length of the queue, and so
`PoolAndQueueSuffice`: under `BURST < N_TEXT` and `BURST + 3 <= Q_LEN` nothing
asserts. Finding 2 is the case `BURST = N_TEXT`.

### Httpd_proofs

For any insert and any set of files in which no page ends in a tag
(`LastIsText`), any sizes of send buffer and segment, and any set of
connections. `IInv` has a part for each connection: `SocketInv` (the
callback argument is set exactly while the state is allocated, the state of a
request has a file handle) and `StreamInv` (what was written is the reply up to
the piece that the fields of `http_state` say, with the insert of the tag in
progress up to `tag_index`), a part for the call in progress (`CallInv`) and
`HandlesExact`. `StreamsIntact` needs the reply for every file: `Reply` is a
recursive function, and that the recursion has a solution is proved with a least
counterexample. `PbufsFreed` assumes what the configuration of lwIP provides,
`Cardinality(Conn) <= MAX_OPEN_FILES`, and follows from `HandlesExact` by
counting.

`CaughtOnlyBehindTags` needs a second invariant, `LoopInv`: nothing of a page is
in the send buffer before some of it is parsed (`Unsent`); between two tags the
parsed part ends in a tag (`AfterTag`); and when the parse loop has nothing to
write with, the send buffer is full and, if a tag is at hand, there is one before
it (`NoRoomFor`). The point is the entry into the loop: with parsed bytes left to
send, a full send buffer makes `send_data` return, so it enters without room only
with `parsed` at the end of a tag whose insert is complete.

### Only model-checked

Liveness under fairness is out of the prover's reach (and so is `ENABLED`):
`NoStarvation`, `EventsServed`, `DisarmedLeaves`, `ReceptionResumes`,
`HandedOverSent`, `RunsToCompletion`, `ConnectionEnds` (with its condition; where
the condition can fail is proved) and `AddressShown` stay with TLC for good. Every invariant and every refinement that a passing run checks
is proved. The prover cannot instantiate a rule of induction; where an induction is
needed, a least counterexample takes its place (`PathIs`, `UpToExists`,
`AncestorsExist`), or a set that is closed under the step (`InwardInduction`).

## 6. Not modelled

- `QFsm_*`, the processor of flat machines, which nothing uses here.
- Registration of active objects (`QF_add_`, before the kernel starts) and their
  removal, which never happens.
- Of the HTTP server the parsing of requests and parameters and the texts of the
  SSI handler; of lwIP all but `udp_input`, `udp_connect` and what the HTTP
  server sees of TCP. lwIP is third-party code, and a model of TCP would be a
  project of its own.
- QS tracing (only with `Q_SPY`), the vanilla kernel (not in this build).
- Register set-up, StdPeriph, CMSIS, LCD, LEDs, start-up code: they move bytes
  to hardware.

## 7. Plan

1. Done: `DPP` with `Dining`, `QEQueue` with `Deque`, `QKernel` on `QPSet`,
   `QFEvents` with subscriptions, `QTimeEvt` with `Timers`, `QHsm`,
   `EthDriver`, `LwIPMgr`, `Httpd`; proofs of all their invariants and
   refinements.
2. Possible models: the ring buffer of QS; the vanilla kernel as an alternative
   to `QKernel` under the same properties.
