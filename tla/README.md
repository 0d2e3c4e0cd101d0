# A verification of the ch32 peripheral library and its programs

The repository is a bare-metal library for the CH32V307 (RISC-V)
microcontroller, `src/v307/perlib`, with a small IP stack on top of it, and a
set of programs, `src/v307/snippets`. Most of these have one main loop, a few
interrupt handlers, and hardware (DMA engines, timers, shift registers) that runs
beside them. One runs FreeRTOS, whose kernel is in the repository with a port of
its own, and one is a web server with an Ethernet driver of its own. What goes
wrong in such code goes wrong between two stores, and that is what the modules
here are about.

## 1. The system

### Parts, their state and their operations

`perlib` and the programs upon it:

| Part | State | Operations | Talks to |
|---|---|---|---|
| Ethernet driver, receive half (`perlib/eth.c` 368-389, 550-570) | `rx_descriptor[4]`, `rx_buff`, `rx_descriptor_ptr` | `eth_receive` | the receive DMA, through the descriptors |
| Ethernet driver, transmit half (`eth.c` 391-416, 572-592) | `tx_descriptor[2]`, `tx_buff`, `tx_descriptor_ptr` | `eth_transmit` | the transmit DMA, through the descriptors, DMASR and DMATPDR |
| Ethernet set-up (`eth.c`, the rest) | registers of the MAC, the DMA and the PHY | `eth_init`, `eth_start`, `eth_read_phy_reg`, `eth_write_phy_reg`, `eth_phy_init` | called by `brieip_init` |
| `brieip` (`perlib/brieip.c`) | `buff_set` (a frame buffer and a count), own MAC and IP address | `brieip_init`, `brieip_process` | both halves of the driver |
| checksum (`brieip.c` 252-272) | locals | `calculate_cs` | `brieip` |
| ETH interrupt handler (`snippets/brieip/main.c`) | DMASR | `ETH_IRQHandler` | prints with `usart_put_str`; `eth_transmit` writes DMASR too |
| timers (`perlib/tim.c`, `tim_hd.c`) | `tim6_ticks`, `tim7_ticks`, the timer's registers | `tim_init`, `tim_set_freq`, switching, `tim_delay_ms`, the two handlers | any code that waits |
| SysTick (`perlib/systick.c`) | `ticks` | `systick_delay_ms`, `SysTick_Handler` | any code that waits |
| USART (`perlib/usart.c`) | DATAR, STATR, control registers | `usart_init`, `usart_put_*`, `usart_get_char`, flags, switching | main programs and handlers alike |
| clock tree (`perlib/rcc.c`) | RCC registers, `system_clk` | `rcc_init`, `rcc_deinit`, `rcc_periph_*` | everything, at start; `baud_init` |
| GPIO (`perlib/gpio.c`) | port registers | `gpio_init`, `gpio_set`, `gpio_high`, `gpio_low`, `gpio_tgl` | LEDs; pins of USART |
| FreeRTOS example (`snippets/freertos/main.c`) | two tasks that blink | `gpio_tgl`, `vTaskDelay` | FreeRTOS, GPIO |

FreeRTOS (`snippets/freertos/rtos_src`, third party, with a port for this
processor):

| Part | State | Operations |
|---|---|---|
| scheduler (`tasks.c`, `list.c`) | ready, delayed, overflow, pending, suspended and terminated lists; the tick count; every TCB | delays, suspension, priorities, notifications, `vTaskSuspendAll` and back, ticks, the switch |
| tasks coming and going (`tasks.c`) | TCBs and stacks, counts | `xTaskCreate`, `vTaskDelete`, the idle task, `vTaskList`, `xTaskGetHandle` |
| port (`port.c`, `portASM.S`) | `uxCriticalNesting`, `mscratch`, saved contexts | critical sections, masks, `SysTick_Handler`, `SW_Handler`, `pxPortInitialiseStack` |
| queues, semaphores, mutexes (`queue.c`) | a ring or a count, two waiting lists, `cTxLock`, `cRxLock`; the registry | send, receive, peek, overwrite, give, take, from tasks and handlers; creation, deletion, names; sets |
| software timers (`timers.c`) | two lists, the command queue | the daemon, every command, pended functions |
| event groups (`event_groups.c`) | bits, a waiting list | set, clear, wait, sync, delete |
| stream and message buffers (`stream_buffer.c`) | a ring of bytes, one waiting task at each end | send, receive, from tasks and handlers, reset, trigger level, delete |
| `heap_2.c`, `heap_4.c` | a free list | `pvPortMalloc`, `vPortFree`, statistics |
| co-routines (`croutine.c`) | ready, delayed, pending lists | scheduling, delays, queues of co-routines |

The web example (`snippets/web`, on the closed-source wchnet library):

| Part | State | Operations |
|---|---|---|
| settings (`HTTPS.c`, `main.c`) | three pages of flash, their copies | restore, read, take over a form, save |
| server (`HTTPS.c`, `main.c`) | sockets, the request buffer, the page buffer | `Web_Server`, `WCHNET_HandleSockInt` |
| Ethernet driver (`eth_driver.c`) | descriptor rings, MAC and PHY registers, flags between handler and loop | set-up, transmission, flow control, the search for a link |

Left alone: `vendor/` (read for the meaning of register bits),
`portable/Common/mpu_wrappers.c`, `startup.s`, `nvic.c`, `general.c`.

### What is hard, and what makes each part correct

* **Receive ring.** `eth_receive` and the DMA each walk the ring with a pointer
  of their own and never compare them; all they share is one bit per
  descriptor. Correct: the two never get out of phase, no buffer changes while it
  is copied, frames are taken in the order they were stored, and lost only when
  all buffers are taken. A descriptor that `eth_receive` refuses is never given
  back.
* **Transmit ring.** The DMA falls asleep when it meets a descriptor that is not
  its own, which may be just before that descriptor becomes its own. Correct: no
  wake-up is lost, each frame goes out with its own size, in order, and nothing
  is written into a descriptor the DMA has still to send.
* **brieip.** The answer is built in place over the request, and the frame
  received last is handled again at *every* poll, the answer included. Correct:
  one answer per ping, to the one who asked, with this host's name on it.
* **Checksum, delays.** Counters that wrap, sums that carry. Correct: they end,
  with the right sum, and not much too early or late.
* **Handlers.** They acknowledge, print and echo by reading and writing registers
  that hardware and main program change meanwhile. Correct: what can be lost is
  bounded, and nothing else is.
* **Set-up.** Registers that keep what was in them, resets that take their time,
  settings without a clock. Correct: what runs in the end is what was asked for,
  and never on an earlier program's leftovers.
* **Scheduler.** Handlers and ticks come at any time, also while the scheduler is
  suspended, and put off what they did. Correct: each task in one list, the
  highest ready one running, delays exact across the wrap of the tick count, no
  notification lost, everyone's turn coming.
* **Queues.** A queue is locked while a task enters its waiting list; handlers
  then only count. Correct: a bounded sequence, no lost wake-up, no call failing
  before its time, the mutex's holder as high as who waits.
* **Upon the kernel.** Timers never early, none forgotten; all of those
  whose bits are there woken; no byte lost in a stream; no byte of the heap lost
  or given twice; nobody's stack freed under them; regions closed against
  interrupts.
* **Web example.** Power may fail between two words of flash; requests come
  several in a buffer; handler and loop share flags and registers. Correct:
  no settings lost but those being written, every request answered with its own
  page, reception and the PHY's clock always turned on again.

`PROJECT.json` lists the hazards at their lines with the properties that would
catch them.

## 2. The modules

| Module | Models | Checked in |
|---|---|---|
| `EthRing` | the ring both halves of the driver are built on, with lemmas about it | |
| `FrameFifo` | what each half promises: a bounded queue (abstract) | `eth_rx`, `eth_tx` |
| `EthRx`, `EthTx` | `eth_receive`, `eth_transmit` and the DMA; each implements `FrameFifo` | `eth_rx*`, `eth_tx` |
| `EthRxProofs`, `EthTxProofs` | theorems about the rings | |
| `Brieip` | `brieip_process` over two such queues | `programs` |
| `WebConfig`, `WebServer` | settings in flash; requests, pages and sockets | `programs` |
| `WchSetup`, `WchRx`, `WchLink` | the web example's driver: set-up and transmission; reception; the link | `programs` |
| `Checksum`, `EthIrq`, `TimDelay`, `TimSetup`, `Systick` | `calculate_cs`; `ETH_IRQHandler`; delays; timer set-up | `drivers` |
| `UsartPrint`, `UsartEcho`, `Serial` | printing, the echo, USART set-up | `drivers` |
| `Rcc`, `Mii`, `Gpio`, `EthSetup` | clock tree, PHY registers, pins, `eth_init` | `drivers` |
| `Kernel` | the scheduler's state and what each critical section does to it, as operators | all below |
| `Tasks` | tasks that make any call of `tasks.c` | `tasks*` |
| `MessageQueues` | what queues promise: bounded sequences (abstract) | `queue` |
| `Queues` | `queue.c` under tasks and handlers; implements `MessageQueues` | `queue`, `mutex*` |
| `Timers`, `EventGroups`, `StreamBuffer` | what is built upon the kernel | `services` |
| `QueueAdmin`, `QueueSets`, `TaskLife` | queues and tasks that come and go, sets of queues | `services` |
| `Heaps`, `CoRoutines`, `Port`, `Blink` | both heaps, co-routines, the port, the example | `services` |
| `KernelProofs` | what each operation of `Kernel` does to the lists, as lemmas | |
| `TasksProofs`, `QueuesProofs` | theorems about `Tasks` and `Queues` | |
| `MCPrograms`, `MCDrivers`, `MCServices` | instances of parts that share no state, side by side; the first two hold the theorems about their parts | |
| `MCQueues` | instances of `Queues`; `Tasks` is run as it is | |

**How the parts come together.** `Brieip` runs over the two queues that `EthRx` and
`EthTx` are shown to implement. `Tasks`, `Queues`, `Timers`, `EventGroups`,
`TaskLife` and `Blink` extend `Kernel` and share its lists and its tick and switch
handlers; `CoRoutines` has its own lists with the same insertion. `StreamBuffer`
rests on notifications, which `Tasks` checks, and abstracts them to a bit.
Parts that share no state are in one run: the variable `part` says which of them a
behaviour is about, the others stay as they began. Nothing is lost by that, as
no step of one can matter to the other, and it lets one run ask one kind of
question of many small parts.

**Conventions.** Variables have the names of the C variables and registers they stand
for (`rdes0`, `tx_buff`, `pxCurrentTCB`, `uxCriticalNesting`); the others are
program counters (`pc`, `doing`), hardware state (`dma`, `shift`), and history
variables, marked `history`. A function is one action where nothing that
matters can come in between, and as many as it has accesses to shared memory or
registers where something can. In the kernel a critical section is one action,
and so is a stretch with the scheduler suspended when only the scheduler could
come between; what handlers and ticks do meanwhile is put off by the code itself
(`xPendedTicks`, `xPendingReadyList`, `cTxLock`) and modelled so. Definitions
headed "Mistake:" are not part of any specification: each is one action with a
plausible bug in it, and shows that some property notices.

### Module by module

**EthRx.** The four steps of `eth_receive` are the test of `rdes0` (372-376), the
copy (377-378), the hand-over `rdes0 = OWN` (385) and the step of the pointer
(386-389). The buffer's content is the number of the filling that wrote it. A
`"bad"` frame is a damaged one, a `"long"` one takes two buffers (1537 to 2048
bytes). `DMAOMR` is computed as `eth_dma_init` does, since one of its bits
decides whether damaged frames are stored; `LsBit` reads the bit the
enumeration in fact names.

**EthTx.** Each store of `eth_transmit` is a step: copy, size, OWN, the write to
DMASR, the poll demand, the pointer. The DMA reads a descriptor with its whole
frame (store-and-forward is on), sends it, gives the descriptor back, and
sleeps on one that is not its own. `Init` is what the first `eth_init` leaves:
`eth_dmatxdesc_init` ors into `tdes0` (578), so that OWN is clear only because the
start-up code clears `.bss`; a second `eth_init` over frames not yet sent is left out.

**EthSetup.** `eth_init` function by function, over registers that are sets of bits; an
earlier program or an earlier `eth_init` may have left anything in them, and frames
come in meanwhile. `eth_filter_init` only ors in zeros: what clears the filter is the
reset alone. Frames before the reset still go to an earlier program's buffers.

**Brieip.** A frame is a record of the fields that are tested or overwritten; MAC and
IP address of a host are one name. `sum` is whether `calculate_cs` over the ICMP part
gives zero, which for an odd number of bytes depends on the byte behind the packet
(`residue`). An echo reply left in the buffer is not accepted again; an ARP
frame is.

**Checksum.** A byte is a digit to the base `Base`, a word is two digits, the sum has the
width of two words; all arithmetic is modulo those widths.

**EthIrq.** The six tests in their order, each acknowledged by a read and a write.
**TimDelay, Systick.** Counters modulo `Ticks`; another handler that lasts over a
period's end is an actor of its own. **TimSetup.** `tim_init` step by step, with the
preload and shadow registers of the timer: what it counts with changes at an
update. `tim_enable_irq` clears the enable bit exactly as `tim_disable_irq` does,
and the property says so.

**UsartPrint, UsartEcho, Serial.** A data register, a shift register and the line; a
handler suspends whoever it interrupts. `Serial` is `usart_init` with the clocks and
pins it needs: a register without a clock keeps nothing. A second `usart_init` does
not disable the USART first; without `rcc_init` the divider is zero;
`usart_num_3` has no registers (`switch_usart` gives 0).

**Rcc, Mii, Gpio.** `rcc_deinit` and `rcc_init` against sources that become ready or
never do. In `Mii`, whether the fields of MACMIIAR outlast an access is left open
(`keeps`), since the source ors into it. In `Gpio`, the four bits of a pin, with shift
counts beyond the register.

**Kernel.** One record `k` has the variables of `tasks.c` and the TCB fields; an
operator per critical section, handler or suspended stretch. Lists are
sequences, `pxIndex` and all; the tick count wraps at `Ticks`, the overflow
count at `Overflows`. The idle task is one of the tasks.

**Tasks.** Every call of the scheduler's, split at its critical sections; `pc` says
between which two a task is. `xTaskCatchUpTicks` reads and writes `xPendedTicks` with
the tick handler free to come between. `GetState` (`eTaskGetState`) tells a
pending-ready task as blocked, whatever its comment says; `GetInfo` takes a task
that waits for a notification without a time-out for suspended; `StatesAgree`
states exactly that difference. Creating a task, and deleting the running one, has
a switch behind its critical section, which is a step of its own (`AddedYield`,
`DeleteYield`); the first reads the new task's control block for it (`made`), which
may have been deleted and freed by then.

**Queues.** The loops of the blocking calls with their three exits, the two halves of
`prvUnlockQueue` apart, aborted waits, priority inheritance and what a time-out
takes back of it. Items are kept where the pointers say (`cells`, `writeTo`,
`readFrom`), and `FifoSpec` maps them to a sequence. **QueueAdmin.** Creation with
its overflow tests on a small word, and the registry, access by access.
**QueueSets.** Names of members posted to the set's queue, also when a queue is locked.

**Timers.** What the daemon does with one reading of the tick count is one step: the
lists are its own. Everybody else sends commands; `left` counts for each timer what
is really left. Who starts a timer reads the tick count ahead of the sending
(`Message`). `SetReloadMode` writes the timer directly, not by a command.
**EventGroups.** Deletion wakes all waiters with no bits. Two still read the group
when it is freed (`Late`): a wait whose time-out had passed but whose task had not
run yet, and an `xEventGroupSetBits` that has resumed the scheduler and then reads
the bits for its result (622-624, `SetReturns`), if whom it woke deletes the group.
**StreamBuffer.** The copy, the moving of head or tail, the test whether the other
one waits and the telling are steps of their own; the two sides interleave anywhere,
and while one has the scheduler suspended for the telling, handlers do. Lowering the
trigger level tells nobody (`eased`). A deleted buffer is followed by another one in its
place, and a notification outlives it.

**TaskLife.** Each allocation and each freeing is a step, in which a task may itself be
deleted (`lost` is memory nobody frees then). The walks through the lists move
`pxIndex`, so the next task in turn is passed over once. `vTaskList` sizes its array by
one reading and fills it by another. **Port.** Whose code runs (`running`), on which
stack (`sp`, `mscratch`), with which frame saved where; registers are the frame.
**Heaps.** Blocks with addresses; sizes modulo `Word`. In `heap_4.c` a task may be
preempted within `vPortFree` and between the halves of `vPortGetHeapStats`; its loop
tests for the end only behind a block, so with nothing free it goes `astray`.
**CoRoutines.** The scheduler and the macros; handlers between any two critical
sections, and between the test for room and the wait of `xQueueCRSend` (`pc` is
`"full"`): `prvIsQueueFull` ends a critical section, and the port then turns interrupts
on, as in `Port`. A handler that comes there leaves the co-routine asleep with room in
the queue (`Block`), and one that takes the neighbour out of the list that the
co-routine is being put into may ruin it (`Breaks`): nothing is said of what follows.

**WebConfig.** Every flash word is a step and power may fail before it.
**WebServer.** The scan for method words, the page with its parameters filled in, the
sending in parts with retries. **WchSetup, WchRx, WchLink.** The main loop's
accesses to shared registers and flags one by one, the handler anywhere among
them.

### What is assumed of the hardware, the compiler and the library

None of this is in the repository; it is from how the code uses them.

* The receive DMA holds back at a descriptor that is not its own, drops the
  frame, and tries that descriptor again with the next frame. A frame that runs
  out of descriptors half-way ends with the error bit; the error bit is not set
  merely because a frame takes two buffers.
* The transmit DMA's look at OWN and its decision to sleep are one step; a poll
  demand wakes it.
* Stores reach memory in program order. The build uses no optimisation, and the
  descriptors are in uncached RAM.
* In the programs without FreeRTOS, interrupts have equal priorities. In the
  kernel SysTick and the software interrupt have the same one; other handlers
  that call the kernel may interrupt them where it does not mask them (`Port`).
* The timer's own handler is far shorter than a period. `ETH_IRQHandler` is not:
  it prints up to 28 characters, 2.4 ms at 115200 baud.
* While the echo handler runs at most one further character comes in, and a
  character is read, or its flag cleared, before the one after the next is
  complete.
* A critical section masks every handler; the pending bit of the software
  interrupt is taken when nothing masks it.
* FreeRTOS as the example configures it: pre-emption, time slicing,
  `configASSERT` empty, no tickless idle, dynamic allocation only. Applications
  keep to the documentation: no blocking call with the scheduler suspended, a
  mutex given back by its holder, one sender and one receiver per stream buffer,
  a set as long as its members together.
* wchnet may accept, deliver, take any part of what is sent, and report the
  end of a connection, but only when the main loop calls it.
* The PHY of the web example may answer anything at any read; the wait for PLL3,
  which has no bound, ends.

## 3. What is checked

In each run all interleavings of the steps are explored. Runs take up to two or
three minutes.

| Run | States | Shows |
|---|---|---|
| `eth_rx` | 5 764 | `Inv`: the closed descriptors are one stretch between the two pointers, with the right fillings. `CopyStable`, `MissOnlyWhenFull`, `WedgeIsPermanent`; `FifoSpec`: the ring implements the queue; `TakenUnlessWedged`: nothing else stops reception |
| `eth_rx_errors`, `eth_rx_whole` | violations | findings 1 and 2 |
| `eth_tx` | 761 | `Inv`, `NoLostWakeup`, `WireInOrder`, `OwnedUntouched`, `DropOnlyWhenFull`, `FifoSpec`, `AllSent` |
| `programs` | 432 136 | `Inv` of `Brieip` (own name, answers that fit), of the settings, the server, and the driver's three parts; `EchoAtMostOnce`; `GoesOn`: every ping answered, the program starts, the loop is come back to, reception and the PHY's clock turned on again; `ArpNeverSettles` |
| `drivers` | 112 372 | `Inv` of each of twelve parts; `WaitsMs`, `DelayEnds`; `LoopsEnd`: initialisations and the checksum end when they can; `Served`: what is printed is sent, what is typed is echoed, an event that comes alone is reported |
| `tasks` | 574 565 | `Inv`: lists, every task in one place, suspended ones stay so, both queries of a state agree. `HighestRunning`, `DelaysRight`, `NotificationKept`; `TurnComes`: time slices |
| `tasks_resume` | violation | finding 3 |
| `queue` | 1 699 252 | `Inv` with locks that are brief and waits that are right; `NoLostWakeup`, `HighestRunning`, `FailsInTime`; `FifoSpec`: `queue.c` implements `MessageQueues` |
| `mutex` | 1 220 380 | `Inv`: the held ones counted, priorities restored; `NoLostWakeup`; `Inherited` |
| `mutex_yield` | violation | finding 4 |
| `services` | 2 393 071 | `PartsRight`: the timers' lists, both heaps, co-routines, tasks and queues that come and go, sets, the port, the LED; `NeverEarly`, `SleepsRightly`; `Meeting`: nobody forgotten in an event group; `Streaming`: bytes and messages in order, nobody stuck |

**The bounds, and why they are enough.**

*Rings.* Three descriptors, six frames or seven calls: driven round at least twice,
so that every descriptor is reused and both pointers wrap; three are the least
for which a stretch has a middle, and the proofs cover every size. `Brieip`: two
peers, rings of 1, three frames: one in the buffer, one waiting and one that
may be lost or come in between.

*Drivers.* `Checksum`: base 4 keeps a carry out of one word and out of the
folding, odd sizes, the wrap of the counter; header bytes are extreme ones. Three
events in `EthIrq`: the one being handled, one before and one after. `TimDelay`:
count modulo 5, three lost periods a call. `Systick`: modulo 8, bursts of 2:
every start, length and place of the wrap. The USART parts have more characters
than there are places. `Serial`: two settings, two calls of `usart_init`.
`TimSetup` counts modulo 3.

*Kernel.* `Tasks`: two tasks and the idle one, two priorities, tick count modulo 4,
one tick pending, the scheduler suspended but not twice over: each list can be
empty, of one, or shared; a delay may end before, at or behind the wrap. Two tasks
make every pair of caller and callee; a third adds only its turn. `Queues`: queues
of one place and of two, two tasks, two handlers, uses chosen so that each of
receivers, peekers and senders wait; waits over the wrap, `Overflows` 2.
Handlers send to a locked queue up to `Length` times (a bound: the code counts on to 127).
Mutexes: three tasks of three priorities, two mutexes: nested and crossed giving
back.

*Services.* `Timers`: modulo 4, periods 1 and 2, a queue of 1, a daemon up to one tick
late (`MaxLate`), so that an expiry can be missed and made up for on either
side of the wrap. `EventGroups`: four tasks, two that meet, modulo 5. `StreamBuffer`:
rings that hold two bytes, one or two at a time, bytes numbered modulo 3, two
trigger levels, messages with their length. `Heaps`: 22 and 23 bytes,
alignment 2, headers of 2, `size_t` modulo 64, at most four allocations of `heap_4.c`:
a block can be split and joined at both sides. `CoRoutines`: three, one queue
of two, modulo 3, a lag of one. `TaskLife`: three tasks, two priorities, memory for
three. `Port`: the first task and one created later, two regions open at most.
`QueueAdmin`: two tasks, two handles and names, a registry of 2, sizes modulo 16.
`QueueSets`: queues of 2 and 1, two senders, lock counts up to `MaxSince` 2 (the code's
limit of INT8_MAX is not reached). `Blink`: modulo 7.

*Web.* Pages of two or three words, forms that are whole, swapped, cut, encoded and
too long, two faults. Three sockets, two tries, two deliveries, a time-out. Rings of
four and of two descriptors; the counts of the link search down to 1 to 3.

Bounds that cap behaviour are named: `MaxFrames`, `MaxCalls`, `MaxEvents`,
`MaxOther`, `MaxHandlers`, `MaxChars`, `MaxNotify`, `MaxNest`, `MaxPended`,
`MaxWaited`, `MaxCount`, `MaxLate`, `MaxLag`, `MaxAllocations`, `MaxOpen`,
`MaxSince`, `MaxFaults`, `MaxTries`, `MaxReceived`, `MaxTimeouts`, `Room`.
Deadlock checking is on in `tasks`, `queue` and `mutex`, where the tick always comes; in
the others the environment runs out of frames, events or characters, so the
runs say `CHECK_DEADLOCK FALSE` and liveness is stated instead where it matters.

**Fairness.** `main` is a `while(1)`: what it polls goes on (weak fairness of its
steps). A call of `eth_transmit` that began ends; nobody must call it. The
controller finishes what it was given. Handlers run to their end, and an
enabled interrupt is taken; timers tick. In `TimDelay` polling and the timer, and
in the web driver the main loop's steps, are strongly fair, because a handler
may disable them again and again, though each time only for a while. In `Tasks` the
tick count goes on, the software interrupt is taken, nobody keeps the scheduler
suspended for ever, and a task that has put itself among the suspended ones,
deleted itself or created another comes to the switch behind it; nobody must call
anything. Nothing is assumed of the wire, of who
types, of power or of events.

### What the checks found

1. *`eth_rx_errors`.* `eth_dma_init` sets `eth_fef` under the comment "discard
   error frames" (`eth.c` 537-538); the bit forwards them. A damaged frame is
   stored, `eth_receive` refuses its descriptor and does not return it, and by
   `WedgeIsPermanent` reception is over until the next `eth_init`.
2. *`eth_rx_whole`.* `eth_dmarxdesc_ls` (298) is given the first-descriptor bit's
   position, so "is last desc" (374) is not what is tested, and the first part
   of a frame of two buffers is taken for all of it; the second wedges the ring.
3. *`tasks_resume`.* `prvTaskIsTaskSuspended` (`tasks.c` 1841) cannot tell a
   suspended task from one that waits for a notification without a time-out;
   `vTaskResume` then wakes the latter, with no notification.
4. *`mutex_yield`.* Giving back the last mutex ends an inherited priority; if
   somebody of no higher priority waits for it, the switch that this calls for
   is not asked for (`queue.c` 904-926).

One more disagreement has no run of its own; `services` states it as the exception
`spared`. `xQueueCRSend` disables interrupts "to prevent an interrupt removing
something from the queue between the check to see if the queue is full and blocking
on the queue" (`queue.c` 2475-2477), but the check, `prvIsQueueFull`, leaves a
critical section, and with it interrupts are on again (2440, `port.c` 261-264). An
item that a handler takes there finds nobody waiting: the co-routine sleeps, with
room in the queue, until its time is over or another item is taken.

Other behaviour that the properties state as it is, since no text says otherwise,
or since the exception is written into the property:

* *perlib.* A packet of odd size is judged by the byte behind it; `calculate_cs`
  never returns for size 65535; an ARP frame is answered for ever and whomever
  it asked for; events may be acknowledged unreported (`NeverSilent` says how far);
  `tim_delay_ms` overshoots by a round if other handlers keep it from polling over
  two counted ticks; `systick_delay_ms` may not wait at all over the wrap, or for ever
  if its deadline is the last count; one character of a handler may be
  overwritten per character of the main program; the first period behind
  `tim_set_freq` has the old rate (`changed`); `tim_enable_irq` switches the
  interrupt off (`switched`); the speed of a running USART may be wrong while
  `usart_init` is called again (`garbled`).
* *Kernel.* `xTaskCreate` reads the new task's priority when the task may be gone
  (`made`): it then yields or does not, and no property depends on which. A tick
  that comes between the read and the write of `xTaskCatchUpTicks` is lost; a call may fail before its time because the one before it was aborted;
  a critical section that ends within a masked region turns interrupts on
  (`leaky`); memory of a task deleted in the middle of `xTaskCreate` or
  `vTaskDelete` stays allocated (`lost`); `vTaskList` may write past its array when a
  task was deleted between its two readings and another created behind them; two tasks
  that change the queue registry at once may take one entry, and a name that finds
  no free entry is silently not kept (`overlapped`); a queue that gets a message
  during `xQueueRemoveFromSet` confuses its set (`torn`).
* *Upon the kernel.* A task whose wait timed out, or that has just set bits, may look
  into a freed event group (`late`); a lowered trigger level wakes nobody (`eased`); `vPortGetHeapStats` follows a wild
  pointer when nothing is free; a handler between the two critical sections of a
  co-routine's call makes one with a time-out fail at once; two calls in one handler,
  or room made while a sender is on its way to sleep, may leave a co-routine waiting
  (`spared`); a handler in the middle of an insertion may ruin a list (`broken`); a
  handler that clears a stream buffer's waiting task between the test and the telling
  makes the latter write to no task (`"nobody"`, where the model stops);
  of two toggles with a tick in the middle one is lost (`split`).
* *Web.* The flags are the first word written, so a page that was cut short counts
  as whole at the next start (`hurt`); names are taken as sent, `+` stays `+`; what is
  saved takes effect at the next start. Requests that come together are all answered with
  the page of the first of each method. A time-out makes one more configured
  socket, and when none is free the old number is used. The main loop's
  read-modify-write of MACCR may undo the duplex mode that the handler set
  (`overlapped`); a change of the link between the handler's look and its clearing of
  the flag is missed (`missed`); a reset that takes longer than it is waited for undoes the
  set-up (`late`).

## 4. What is proved

With TLAPS, for every number of descriptors `Num >= 1` (`NumAssumption`), every
bound on frames or calls, and every set of frame kinds (`RxAssumption`,
`TxAssumption`):

* receive ring (`EthRxProofs`): `RxInvariant` (types, ring, fillings),
  `RxCopyStable`, `RxInOrder`, `RxMissOnlyWhenFull`, `RxWedgeIsPermanent`, and
  `RxImplementsFifo`;
* transmit ring (`EthTxProofs`): `TxInvariant`, `TxNoLostWakeup`,
  `TxWireInOrder`, `TxOwnedUntouched`, `TxDropOnlyWhenFull`, and
  `TxImplementsFifo`.

*The argument.* The interesting properties are not inductive: that `eth_receive`
copies the right filling depends on where the DMA stands, which depends on which
descriptors are closed. The invariant says it all at once. `RingInv`: the
closed descriptors are exactly the stretch from `Oldest` to `dma_cur`, and there
are `filled - taken` of them; when the two pointers meet the count tells an empty
ring from a full one. `FillingsInv` (`FramesInv` on the transmit side): a buffer
in the stretch holds the frame its distance from the oldest calls for. On the
transmit side `NoLostWakeup` is carried along. The action properties follow from the
invariant in the state before the step; the refinement from the same, with one
lemma that the mapped queue is the run of numbers after the last one taken, and
one that each step appends to it, takes its head, or leaves it.
`EthRing` has, behind its definitions, the arithmetic of the ring (a step grows a
stretch at one end or shrinks it at the other) and of such runs, so the ring
proofs never unfold `Dist`.

The scheduler (`KernelProofs`, `TasksProofs`): `TasksInv` (the lists belong together,
every task is in one of them, both ways to ask for a task's state agree but where
named, a stopped task stays stopped), `TasksHighestRunning`, `TasksDelaysRight` and
`TasksNotificationKept`, for any tasks and priorities, every width of the tick count
and every bound on ticks put off, nesting and values (`KernelAssumption`,
`TasksAssumption`). They are stated under `~Stray`: `vTaskResume` is called only
for tasks that `vTaskSuspend` has stopped. Without it they are false, and a run
shows how (`tasks_resume`): a task that waits for a notification without a
time-out is in the list of the suspended, too, and a stray resume takes it out
of its wait, so a later check finds it ready, or notified where nothing came.

*The argument.* `KernelProofs` describes every operation of `tasks.c` on the lists by
what it makes of five sets (ready, delayed, suspended, terminated, put off) and by
how many ticks each delayed task has left, `Dist`, which hides whether the task is in
this round of the count or the next: a tick takes one from everybody and wakes
those with one left, and `xTaskResumeAll` does it as often as ticks were put off.
The lists are sound (`Sound`: nobody twice, sorted, the ready lists under
`uxTopReadyPriority`) whatever the time is; `Timely` says that nobody's time has
passed and `xNextTaskUnblockTime` is no later than the first. Both are kept by
every operation. `TasksProofs!IInv` adds what the calls in progress know:

* `Kernels`: the lists are sound and timely, and nothing is put off while the scheduler
  runs, without which a tick would wake too few;
* `Everybody`: who is in no list is not there or is in the hands of
  `xTaskAbortDelay`, which is between taking it out and making it ready;
* `Phases`: only the running task suspends the scheduler, so nobody else moves
  what it has in hand, and `xTaskCatchUpTicks` has read no more than there is;
* `Running`: nobody ready is above the running task, *or* the switch is asked for,
  *or* a yield is pending until the scheduler goes on, *or* the task is about to
  ask, behind a call that suspended or deleted it or created the one above.
  `HighestRunning` alone is not inductive: the second and third case are what
  makes it true again after `xTaskResumeAll`;
* `Stopping`: who is stopped neither is put off nor waits for a notification, so no
  handler wakes it;
* `Notified`, `Delayed`: the two properties, the second over `Dist`.

TLC checked `IInv` on the instance of `tasks` before it was proved. Each action has
one lemma (`...Keeps`), and the steps that neither switch nor resume share
`StepParts`, which leaves `Everybody`, `Running`, `Stopping` and `Notified` to them.

The queues (`QueuesProofs`), for all tasks, priorities, queues, lengths, uses, handlers
and widths of the tick count (`QueuesAssumption`, which the source justifies line by
line: a mutex has one place, is never peeked at or reset, and handlers keep off it):

| Theorem | Of what | Under |
|---|---|---|
| `QueuesStorage` | types, calls under way, ring of storage | |
| `QueuesImplementFifo` | refinement of `MessageQueues` | |
| `QueuesLists` | `ListsRight`, `OnePlace`, `LockedBriefly` | |
| `QueuesHeld` | `HeldRight`: mutexes counted, inheritance ends | |
| `QueuesInv` | all of `Inv`, with `WaitsRight` | `MaxWaited < Ticks` |
| `QueuesFailInTime` | `FailsInTime` | `MaxWaited < Ticks` |
| `QueuesHighestRunning` | `HighestRunning` | `Mutexes = {}` |
| `QueuesNoLostWakeup` | `NoLostWakeup` | `ResetsSmall` |

*The hypotheses.* None of them is there for the prover's sake.

* `MaxWaited < Ticks`: no call is under way for a whole round of the tick count. A task
  that is kept from running for longer than that cannot tell how much of its time
  has passed, as far as `xNumOfOverflows` does not tell it. Every run satisfies it.
* `Mutexes = {}`: with mutexes it is false (`mutex_yield`, finding 4).
* `ResetsSmall`: only queues of one place are reset. `xQueueGenericReset` wakes one
  sender (`queue.c` 290-300, "one should be unblocked"), however many places it makes:
  with a queue of two places, two senders that wait and a third task that resets
  it, TLC finds in 24 steps a sender that goes on waiting for a free place. The runs
  reset the queue of one place only, and the theorem says that length and use are all
  it depends on.

*The argument.* The last part of `KernelProofs` says of each operation on a list of waiting
tasks what it does for its user (who is moved, who stays, what is left of whose
time, whether a switch is called for), and the rest never unfolds a list. The
invariant comes in layers, each inductive together with those above it:

* `StorageInv`: `pcReadFrom` and `pcWriteTo` are as far apart as there are items, so that
  what is read is what was written; enough for the refinement.
* `ListsInv`: the kernel's lists are sound and timely (`KernelRight`), every call is at a
  step at which its task can be (`AtRight`: who is neither ready nor in a list of waiting
  tasks is in the hands of `xTaskAbortDelay`; who holds the scheduler suspended is the
  current task), and a lock belongs to it (`LocksRight`).
* `MutexInv`: the holder noted in a mutex, the items in it and the count of its holder
  agree, and nobody who holds none has a priority that is not its own. It needs that
  only a receiver waits for a mutex (`TakersRight`).
* `OnTimeInv`: what is left of a call, what it was when its time-out was last looked at,
  and the ticks since then, those put off included, add up to what was asked. Both
  `WaitsRight` and `FailsInTime` follow from it; by itself the former is not
  inductive, since it says nothing of a task that was woken and will wait again.
* `LateInv`: who has given up has had all its ticks, or was aborted; the note of an
  abortion may be taken by the call after it (`cut`).
* `TopRuns`: nobody ready is above the running task, or a switch or a pending yield is on
  its way, or the task is about to yield; the scheduler suspended included.
* `WakesInv`: items and free places are no more than tasks on their way to them plus
  wake-ups noted in the locks, and who is in a list waits for what it is the list of.
  The count is what matters: a task on its way may find its item gone, but then
  whoever took it counts for one less.

TLC checked every layer on the instances of the runs before it was proved. Each
action has its lemma where a layer can be disturbed (`...Lists`, `...Times`, `...Wakes`),
and what several actions share has one of its own (`SucceedEffect`, `UnlockEffect`, ...).

The programs are proved in `MCPrograms`: `ProgramsInv` (`Inv`: all six parts) and
`ProgramsEchoAtMostOnce`, for all peers, frames, forms, requests, templates, rings, waits
and bounds that satisfy `ProgramsAssumption` and `OwnAddressAssumption`. What these ask
beyond types: nobody else sends with this host's address (`brieip.c` does not look, and
would answer its own answer); a name and a password fit into what their lengths
are kept in; the defaults say something; a word put into a page is no parameter itself.
While one part moves the others stay as they began (`PartsGo`), so what is proved of a
part holds of the instance.

* `Brieip`: `BrieipRight`. A ping in the buffer is outstanding as long as it has not been
  handled, and what has been handled is never again accepted as a ping, since the
  answer was built over it; that needs that it did not come from this host. A checksum
  cannot both be right and come out right with a byte too many (`FitInd`).
* `WebConfig`: `ConfigRight`. The calls that are left to make say what the pages will
  hold: whoever writes a page has erased it, every word of a page before the current
  one is written, and nothing behind it touches it again (`TodoInd`). What a form makes
  of the pages is right because `DataLocate` finds the keys wherever they are in order
  (`KeysFound`) and `URLDecode` undoes the browser's encoding (`DecodesEncoded`), each by
  a smallest counterexample: of the places of the keys, of the characters that are left.
* `WebServer`: `ServerRight`. `SocketInd`: what is said to have come in did, and who is served
  is what it was accepted as, whatever the library reports meanwhile. `AnswerInd`:
  what has been sent and what is being sent are the header and then the page that
  `HtmlBuffer` holds; answers and words left to look for add up to those of the
  request, which is why no request of a buffer is passed over.
* `WchRx`: `WchRxRight`. While the handler runs it has already told the main loop of the
  descriptor it missed, and what the loop is about to write has the negotiated mode
  unless the handler came in between. The descriptors that are not the
  controller's are those from the library's pointer up to its own (`RingInd`).
* `WchLink`: `WchLinkRight`. The search needs the types of its counts only (`LinkSearch`).
* `WchSetup`: `SetupRight`. A register is set once its step is passed (`RegsInd`); the
  descriptors of the controller are as many as frames were handed over and not
  sent, the next frame to send lies where the controller stands, and it sleeps only
  over an empty ring or with the driver about to wake it (`TxInd`).

TLC checked these invariants on the instance before they were proved.

The drivers of `perlib` are proved in `MCDrivers`: `DriversInv` (`Inv`: all twelve parts)
and `DriversWaitMs` (`WaitsMs`), for all sizes, bounds, pins, lengths, contents and
speeds that satisfy `SizesAssumption`. What that asks beyond types: `Base` is even, as
256 is (over an odd one the counter, which goes up in twos, would wrap round to an odd
place); the clocks are multiples of the speeds, with dividers that fit into BRR,
as 144 and 72 MHz are of 9600 and 115200 (a divider that is rounded gives a speed
that is not quite the one asked for); pins are below 16.

* `Checksum`: `ChecksumRight`. The sum in the loop is that of the words in front of `i`
  (`LoopInv`); a fold keeps what is left of it over `Word - 1` and does not make zero of
  what is not (`FoldInv`, `SameRest`), and only one word has both in common with the
  sum: its ones' complement sum (`OnesSumIs`). An odd size adds the byte behind the
  packet, and a byte is less than a round, so the result is another one unless
  that byte is zero. The complement, filled in, makes a multiple of `Word - 1`
  of the sum (`PassInv`).
* `EthIrq`: `IrqReports`, and the bound on events. A flag that is set stands for an
  event not yet reported, except between its report and its clearing; a flag that
  was set on entry stays set until the handler comes to it, or went together with
  one before it, which was reported.
* `TimDelay`, `Systick`: SysTick's count is where the ticks since the call have brought
  it, up to two rounds, the first loop is only run across the wrap, and the second
  has not passed its deadline unread. The timer has counted the updates that
  `tim_delay_ms` has seen, and the one it has not; each period that ended behind
  another handler may carry the count past `ms` by a round, and nothing else does
  (`Slack`), which bounds the delay.
* `UsartPrint`: `PrintWhole`. What the main program overwrites between its test and its
  write is the last character of a handler that has come and gone (`PutInv`).
* `UsartEcho`: `EchoInOrder`. What is sent back last is what came in last, or the one
  before when that came while the handler was busy (`EchoInv`).
* `Rcc`, `Mii`, `Gpio`, `Serial`, `TimSetup`, `EthSetup`: how far the initialisation has
  come, and what is so of the registers then (`RccInd`, `MiiInd`, `SerialInd`, ...).

*Induction.* What `Kept`, `Without`, `Insert` and `ReplayTicks` compute is proved by
induction over the items or ticks, stated of the set of numbers for which it holds
(`KernelProofs!Induct`); what `MapThenSumSet` computes, which the community modules
define by a recursive function over the subsets, by taking a smallest counterexample
(`MCDrivers!SetInduct`, `SumStep`: one element at a time, whichever it is). What
`FlattenSeq` and `URLDecode` compute is proved likewise, since both are defined by a
recursive function (`MCPrograms!FlatsExist`, `FlattenAt`, `DecodingExists`).

*Only model-checked*: liveness under fairness, and `ENABLED`, which the prover does not
do, so of `drivers` `DelayEnds`, `LoopsEnd` and `Served`; what recursive operators compute (the
walks through strings and lists in modules that only runs use); `services`; and of `Queues` `Inherited`, which does not hold for every use: a task
whose inherited priority ends while it waits for another mutex gets a new value in
its event item but keeps its place in the list (`tasks.c` 4291-4297), so it may be woken
before one of higher priority, take the mutex and hold it at its own low priority. TLC
finds this with three tasks when the highest, too, waits for both mutexes and gives
up one of them; in the uses of the run it waits for one only.

## 5. What is not modelled

* `startup.s`, `nvic.c`, `general.c`: vector table and memory set-up, two register
  writes, a counted loop. `vendor/`: read for bit meanings.
* Of `perlib`: options in an IP header and packets whose IP length is below
  their headers (`brieip.c` 135, 141); `usart_put_uint32`; timer 7, which differs in
  where it clears its flag; the reset bits and PLL3 setters of `rcc.c`; the control and
  compare registers of SysTick. The example programs that only call the library.
* Of FreeRTOS: what the configuration leaves out and no part here needs (tickless
  idle, run-time statistics, thread-local storage, static allocation, trace
  numbers); the byte copying of items; `mpu_wrappers.c`, since the port has no
  privilege levels. `heap_4.c`, `croutine.c` and queue sets are modelled though the
  example does not compile them.
* Of the web example: wchnet itself (closed source); the driver's code for other
  PHYs; the wording of pages and headers, of which only parameters, lengths and types
  count; the parsing of numbers in forms.

## 6. Plan

Done: all of the above. Next, in this order:

1. Proofs: `QueueSets!NamesRight` for any
   queues and lengths; `Port!NestingRight` and `InterruptsOn`.
2. `Brieip` over `EthRx` and `EthTx` themselves in place of the queues; `EthIrq`
   printing through `UsartPrint` and delaying `TimDelay`.
3. Detail: IP lengths and options in `Brieip`, timer 7.
