# A TLA+ model of the Bare_Metal platform software

The repository is the bare-metal software of the Faraday A600 platform: board
and CPU support, drivers for Faraday's peripherals with their test programs,
and a port of FreeRTOS with FreeRTOS+TCP. Most of it is sequential register
programming. The part where several actors share state, and where the order of
their steps decides whether the system works, is the Ethernet driver under
FreeRTOS (`src/freeRTOS/FreeRTOS-Plus-TCP/User/`), and that is the core of this
project, together with the link handling it depends on. The second such part is
the eMMC command queue (`src/drivers/FTSDC021/core/ftsdc021_cqhci.c`, below
`CQ`), where one sender, the completion interrupt and the hardware's engine
share a few bit maps; the third is the I2C master
(`src/drivers/FTIIC010/I2C.c`, below `I2C`), where a caller and an interrupt
handler share one status word.

File names below are relative to `src/freeRTOS/FreeRTOS-Plus-TCP/` unless they
begin with `src/`; `NI` is `User/NetworkInterface.c`, `PHY` is
`User/phyHandling.c`.

## 1. Inventory

### The Ethernet driver

**Transmit path** (NI:316-357, 663-772). *State*: the ring of TX descriptors
(`txdes0` with the OWN bit, `txdes3` with the buffer), `xETH.TxDesc` where the
next frame goes, `DMATxDescToClear` where reclaiming goes on, and the counting
semaphore `xTXDescriptorSemaphore`. *Operations*: `xNetworkInterfaceOutput`,
called by the IP task, takes a token, fills a descriptor, sets OWN, advances,
and writes a poll demand; `vClearTXBuffers`, called by the EMAC task, releases
the buffers of sent frames and gives the tokens back; the DMA engine sends and
clears OWN. *Hard*: the EMAC task preempts the IP task between any two of its
steps and works from snapshots of `TxDesc` and of the semaphore; the DMA engine
runs in parallel with both. *Correct when*: no descriptor is overwritten while
in use, no buffer is released while the DMA engine may read it, no token or
buffer is lost or doubled, frames go out in order, a call returns.

**Receive path** (NI:518-581, 851-986). *State*: the ring of RX descriptors
(`RXPKT_RDY`, `rxdes3`), `xETH.RxDesc`, the event queue of the IP task.
*Operations*: `prvNetworkInterfaceInput` takes one frame: it may be refused, it
needs a fresh buffer (waits up to 250 ms), an event must fit the queue (waits
up to 250 ms), then the descriptor goes back to the DMA engine. *Hard*: partial
failures in the middle with two buffers in hand; the waits let the IP task run.
*Correct when*: every buffer is in one place, none is received into after it was
passed on, frames stay in order, driver and DMA engine do not lose each other
on the ring.

**EMAC handler task and interrupt** (NI:284-313, 1182-1279,
`User/ftgmac030_hal_eth.c`:604-634). *State*: the word `ulISREvents`, the task's
notification count, the MAC's interrupt mask. *Operations*: the interrupt
handler acknowledges, sets a bit per event and notifies; the task sleeps unless
there are events, drains the RX ring with the MAC's interrupts masked, calls
`vClearTXBuffers`, checks the link. *Hard*: the event word is changed by a
handler and a task; sleeping races with the interrupt. *Correct when*: no event
is slept on or lost, the two paths run only as they expect to, nothing starves.

**Network buffer pool** (`Source/BufferAllocation_1.c`). A free list and a
counting semaphore beside it, used by all tasks; correct when a buffer is never
in two hands.

**PHY handling** (`User/phyHandling.c`, NI:442-458, 1059-1143). *State*: the mask
of ports with link, a timer that says when the PHYs are looked at again, whether
the MAC is started, whether the IP task has the interface. *Operations*:
`xPhyCheckLinkStatus` compares the PHYs with the mask when the timer has expired
and no frame came in; `prvEthernetUpdateConfig` stops the MAC without link, and
with link restarts the negotiation on all ports, polls them for up to 3 s, reads
their links and starts the MAC; `xNetworkInterfaceInitialise` does so once by
force, and reports failure to the IP task, which retries, until there is a link.
*Hard*: the restart takes the links down that it is to confirm; BMSR latches a
loss until it is read; MDIO reads may fail; some ports are done in time and
others are not. *Correct when*: each change of the mask is followed by a
re-configuration, a link means a started MAC, the mask comes to tell the truth.

**TCP/IP stack** (`Source/`, vendored). For the driver it is the IP task: it
takes events, takes, keeps and releases buffers, and sends. **Echo servers and
client** (`User/TCPServer.c` and others) are applications of its sockets.

### The eMMC command queue

*State*: `queue_tag` (tags in use), `queue_wait` (tags not rung yet) and its
count, the task descriptors `CQSlots`, whether the engine is on, the engine's
registers TDBR (rung), DPT (queued in the device) and TCN (completed).
*Operations*: `cqhci_send_command` takes the lowest free tag, writes the
descriptor, marks the tag used and rings a batch of tags now and then; now and
then it halts the engine and discards tasks first; `cqhci_off` and `cqhci_on`
switch the engine off and on around commands sent without it; `cqhci_irq` frees
the tags of completed tasks; after a timeout `error_recovery` resets everything.
*Hard*: the interrupt changes `queue_tag` between any two steps of the sender;
the bit maps of driver and controller are cleared by different operations; rung
tasks run in any order but for barriers; waiting commands are rung only by later
ones. *Correct when*: a used tag stands for a task that will end, a descriptor
is not overwritten while the engine may read it, commands on the same blocks are
not run at once, calls return, a completion frees the tag it belongs to.

### The I2C master

*State*: `dev->status`, polling or interrupt mode, the number of index bytes, the
controller's CR, SR, DR, BSTMR and FIFO. *Operations*: transfers
(`I2C_MasterTransfer`, `I2C_MasterReceive`), the two combined formats, bursts
(`I2C_MasterBurstTX`, `I2C_MasterBurstRX`), the handler `I2C_Master_ISR`,
`I2C_Init`, `I2C_RequestIRQ`. *Hard*: each byte is a clear of `dev->status`, a
write to CR and a loop that looks at `dev->status` a limited number of times,
while the handler overwrites it; a byte may outlast its loop, and its answer
then comes in the middle of a later one; calls that fail leave the bus, the
controller and the status as they are. *Correct when*: a call that reports
success moved all its bytes, the data is what the slave sent, no answer is lost,
no byte goes to a bus that was given up.

### The rest of the repository

| Part | State and operations | What is hard |
|------|----------------------|--------------|
| SD/eMMC host, `src/drivers/FTSDC021` | one command at a time, ADMA table | error paths; mostly sequential |
| GMAC test driver, `src/drivers/FTGMAC030` | rings with frames of several descriptors, TFTP/ARP client | partial failure in the middle of a frame |
| Time base, `src/board/jiffies.c`, `timer.c` | 32-bit counter extended by software | overflow, missed periods |
| DMA controller, `src/drivers/FTDMAC030` | channels, descriptor chains | little concurrency |
| UART, SPI, SSP, GPIO, PWM, watchdog, LCD, AES, flash drivers | register sequences | none that a model would show |
| Board, CPU, boot, interrupt controllers, C library, FAT, menus, QC, benchmarks, vendored kernel and demos | | out of scope, see PROJECT.json |

## 2. Modules

    NetBuffers          who holds each network buffer (the ledger `owner`)
      EmacTx            transmit path: IP task, EMAC task, TX DMA engine
        EmacTxRefinement  implements TxFifo, a bounded queue
        EmacTxProofs      theorems
      EmacRx            receive path: EMAC task, RX DMA engine, IP task
        EmacRxRefinement  implements RxFifo, a lossy queue
        EmacRxProofs      theorems
      Emac              both paths, the handler task, the interrupt
        EmacProofs        theorems: both paths inside the driver
        EmacEventProofs   theorems: event word, notification, interrupts
    Phy                 port mask, negotiation, periodic check, start without link
      Link                what the driver relies on about the link (abstract)
      PhyProofs           theorems
    Cqhci               eMMC command queue: sender, interrupt, engine
      CqhciProofs       theorems
    I2cMaster           I2C transfers, interrupt handler, controller and bus
      I2cMasterProofs   theorems: which bytes were moved
      I2cDataProofs     theorems: types, data, answers, framing
    MCEmacTx, MCEmacRx, MCEmac, MCPhy, MCCqhci, MCI2cMaster   instances for TLC

**The ledger.** The driver is zero-copy: buffers change hands instead of being
copied. `owner[b]` says whose `b` is. Only membership of the free list is state
of the code; the other values name the pointer the buffer was last stored in,
so that the modules can state that pointers and ledger agree. A descriptor that
held a released buffer, or two that held the same one, would contradict it.

**EmacTx.** One action per step of the code that another actor can tell apart:
`OutputCall`/`OutputNoLink` (the test of the link mask), `OutputTake` and
`OutputTimeout` (the semaphore), `OutputFill` (`txdes3`), `OutputSetOwn`,
`OutputAdvance` (`xETH.TxDesc`), `OutputKick` (poll demand); `ClearStart` (the
two snapshots), `ClearOne` (one iteration), `ClearEnd`. An iteration of
`vClearTXBuffers` is one action because nothing that runs meanwhile looks at
what it changes: the IP task has the lower priority, and the DMA engine leaves
alone what it does not own. The DMA engine (`DmaSend`, `DmaSuspend`) and the
hardware's side of the link are external and modelled as the driver uses them:
the engine walks the chain, suspends at a descriptor it does not own, and looks
again at a poll demand or when it is enabled. In this module `vClearTXBuffers`
may start at any time, which is more than the driver does.

**EmacRx.** `prvNetworkInterfaceInput` by its branches: `LookNone`, `LookEmpty`
(length 0 after the CRC is subtracted), `LookFrame`, `GetNew`/`GetTimeout`,
`SendEvent`/`SendTimeout`, `GiveBuffer`, `GiveDescriptor`. A frame is one of
four kinds; how `xMayAcceptPacket` decides is left out. The IP task moves only
when the EMAC task is outside the function or blocked in one of its two waits.

**Emac.** Adds `ulISREvents` (`events`), the MAC's status and mask (`isr`,
`ier`), the notification count and the loop of `prvEMACHandlerTask`. It EXTENDS
both paths and conjoins their actions with its own variables. The statement
`ulISREvents &= ~EMAC_IF_TX_EVENT` is two steps, a load (`TxTest`) and a store
(`TxBegin`), because the interrupt is enabled there; the one for the RX bit is a
single step because the MAC's interrupts are masked.

**TxFifo and RxFifo** say what the two paths promise. `TxFifo` is a bounded queue:
`fifoQueue`, the buffers from `DMATxDescToClear` on, grows when OWN is set, its
sent part grows when the DMA engine clears OWN, and buffers leave it in order.
`RxFifo` is a lossy queue: `fifoArrived`, the frames in the ring whose fate
`prvNetworkInterfaceInput` has not decided, followed by the event queue of the
IP task. It keeps the other events of that queue too (`Post`), and so their
order among the frames.

**Left out of these modules.** Frame contents and lengths; logging; the error
bit `EMAC_IF_ERR_EVENT`, which no handler ever sets; copying builds
(`ipconfigZERO_COPY_*` = 0); a start-up without link, which is in `Phy`; the
registers that `HAL_ETH_ConfigMAC` rewrites. A ring of one descriptor is
excluded by `NTxAssumption`: the test `uxCount != ETH_TXBUFNB` needs at least
two (the code's own advice is at least four, NI:209). Calls of
`xNetworkInterfaceOutput` from two tasks are excluded as well: only the IP task
makes them in this repository, although the public `FreeRTOS_OutputARPRequest`
would let another task do it.

**Cqhci.** `cqhci_send_command` by its steps: `SendCommand`; the polling of
`get_next_tag` one tag at a time (`PollBusy`, `PollFree`, `PollTimeout`), since
the interrupt may free a tag that was passed already; `TooLong`, the early return
that leaves a descriptor written and its tag unused; the read-modify-write of
`queue_tag` as a load and a store (`SetTagLoad`, `SetTagStore`), since it is the
masking of the interrupt around it (`iste`) that makes it safe; `Queue` with the
random threshold; `WaitDone`. `SendAfterDiscard` and the `Discard` actions are
`cqhci_discard_task_test`, `OffStart` to `On` are `cqhci_off( 1 )` and
`cqhci_on`. The random numbers of the code are choices; a command addresses one
block range (`Overlapping` says which ranges have blocks in common) or is a direct
command, which waits for its task too if it finds `cqe_wait_task_done` still set.
A slot of which nobody will read the descriptor any more holds `NoTask`.

The engine and its registers are external: a rung task completes once the tasks
its barriers make it wait for have (`after`), its TDBR bit is cleared and its TCN
bit set; an interrupt follows as long as TCN is not empty and `ISTE` is set,
later at the engine's discretion (coalescing); TCN keeps its bits while the
engine is halted, since only writing 1 clears them; a reset clears everything.
What the device has queued is any subset of the tasks that may start.

**Phy and Link.** `Phy` has one task that configures the link: at boot the IP
task in `xNetworkInterfaceInitialise`, afterwards the handler task. `Restart`,
`Sweep` (one turn over the ports), `ReadStatus` and `Start` are the negotiation
and what follows it, `Stop` the other branch; `Reception`, `Expire` and
`CheckLink` are `xPhyCheckLinkStatus`; `InitRetry` is the retry of the IP task.
`Sweep`, `ReadStatus` and `CheckLink` take the set `F` of ports whose MDIO read
fails: `CheckLink` skips them, the other two take whatever the variable held
(`G`). The PHYs are external: partners come and go, negotiations complete, a
loss of the link is latched. `Link` says in four actions what `EmacTx` assumes:
its `Change` is `LinkChange` there, its other actions are `UpdateConfig`, and
`PhyImplementsLink` ties the two components together. Left out: discovery, speed
and duplex mode, and `xPhyFixedValue`, which `AutoNegotiation` = ENABLE (NI:376)
makes dead code.

**I2cMaster.** A call is a `script` of bytes, each with the bits CR is written
with (`kind`); the operators `Transfer`, `Receive`, `CombinedEeprom` and
`Combined` spell out the four functions. Every byte goes through `ClearStatus`,
`WriteCr` and turns of the loop of `I2C_CheckStatus`, after each of which the
call goes on (`ByteDone`, `LastDone`), looks again (`WaitAgain`) or runs out of
tests (`GiveUp`). Bursts have their own actions, since they read several bytes
from the FIFO at once. `Isr` is the handler; it is one step because the caller
does not run meanwhile. `clean` records that nothing was outstanding when a call
gave its first byte, and `acked` which of its bytes the bus has acknowledged:
two history variables that no action of the code looks at.

The controller is external, with these assumptions: BB is up while it has
something to send or the bus is held; TD of a byte with STOP shows after the
STOP; a refused byte sets TD and NACK together; AL comes without TD; BSTTHOD is
set once in a burst; a byte without START on a free bus can only be refused.

## 3. What is checked

| Run | Bounds | Shows |
|-----|--------|-------|
| `emac_tx` | 3 descriptors, 4 buffers | ring, tokens, pointers, snapshots, ledger and DMA engine agree at every step; the ring implements `TxFifo` |
| `emac_rx` | 3 descriptors, 5 buffers, queue of 2, all kinds of frames | no buffer lost, doubled, or written after it left; until an empty frame comes, the ring is in step and ring and event queue implement `RxFifo` |
| `emac` | 2 + 1 descriptors, 4 buffers | no lost wake-up; at most one sent descriptor stays unreclaimed; only the store of NI:1257 loses an RX event; the driver implements `EmacTx` and `EmacRx` |
| `emac_live` | 2 + 1 descriptors, 2 buffers, fair | no starved call, accepted frames are sent, every TX event is handled, received frames are looked at when nothing is transmitted |
| `emac_rx_event` | violation | see findings |
| `emac_release` | violation, fair | see findings |
| `cqhci` | 4 tags and tag 31, commands that do not overlap, 1 halt, fair | a used tag stands for a task that somebody will finish; the invariant used by the proofs; a call of `cqhci_send_command` returns |
| `cqhci_on` | 4 tags and tag 31, 4 blocks, no halt | no descriptor is overwritten, no two tasks on the same blocks at once, waiting tags are never all that is left |
| `cqhci_done` | violation, 1 halt | see findings |
| `cqhci_drain` | violation, fair | see findings |
| `i2c` | calls of up to 2 bytes, FIFO of 2, 1 or 2 index bytes, both speeds | counts returned are true, data arrives in order, no answer is lost, polled calls start clean, bytes are framed by START and STOP |
| `phy` | 3 ports, fair | the mask and the MAC behave as `Link` says; the link settles |

**Why the bounds are enough.** Three TX descriptors show an empty, a wrapping
and a full ring, a descriptor in the middle, and the two coincidences of the
pointers (empty and full); with four buffers the ring can be full while a fourth
call waits with a buffer in hand. Three RX descriptors with five buffers leave a
pool of two, which runs dry; a queue of two runs full. `MaxNotify` caps the
notification count: a higher count only wakes the task once more without an
event, which the 100 ms timeout does anyway. The EMAC safety results do not rest on
these bounds: they are proved for all sizes (section 5). Buffers are
interchangeable, so the runs without liveness use symmetry.

For the command queue, the doorbell's threshold is a random number modulo
`queue_depth - 1`. With two or three tags it is at most 1, every command is rung
at once and nothing ever waits in `queue_wait`; four tags are the fewest with
which the doorbells are batched: the threshold is at most 2, so that one command
waits unrung while up to three others are with the engine. `cqhci` and `cqhci_on`
both have four. In `cqhci` a caller waits for a tag, for the direct command
before it or for its own task while another command is unrung, and the discarding
or the switching off that its one halt allows falls anywhere in between. Its commands use
blocks of their own and set no barriers (`Overlapping` and `Barriers` leave them
out) to keep the liveness check small: a barrier makes a task wait only for tasks
rung before it, which never wait for it. Overlaps and the barriers they make
are in `cqhci_on`, with four block ranges, as many as tags, so that any pattern
of overlaps occurs; barriers set for other reasons only add order, and the proofs
have all of them.
`MaxHalts` bounds how often the engine is halted; one halt shows what a halt can
leave behind. `Claimed` and `Serialised` are stated for an engine that was never
halted: after a halt they fail for the reason `cqhci_done` shows.

For I2C, two data bytes give a first, a last and a middle position (the index and
address bytes come before them), a threshold below and at the count, and a burst
that fills the FIFO; high speed adds a byte that nobody acknowledges. Two index
bytes are the longest index. A byte may outlast any number of calls. `MaxLeft` = 0
lets a call begin only once no bytes of an earlier burst are left in the FIFO,
because the handler or `I2C_Init` took them: they would only matter to bursts, of
which the properties then say nothing. Three ports
let the port whose bit decides the interval (PHY:634) be up or down, and one
change while another is negotiating.

**Findings.** Each is a line of the repository that the code does not keep.

* *A lost RX event* (`emac_rx_event`). The read-modify-write of NI:1257 runs
  with the interrupt enabled; an RX bit set in between is removed by the store.
  The frame waits in the ring until another frame arrives. NI:181 calls the word
  the "bit map of outstanding ETH interrupt events". `RxLostOnlyByStore` says
  that there is no other way to lose one: a mended read-modify-write is enough.
* *A stranded TX buffer* (`emac_release`). The frame can be sent, and its
  interrupt handled, before `xETH.TxDesc` moves past its descriptor; then
  `vClearTXBuffers` stops in front of it. NI:303 says the buffers are released
  "once they're sent". `AtMostOneStranded` and `TxEventHandled` say how bad it
  gets: one descriptor, until the next transmission.
* *A stale completion* (`cqhci_done`). `cqhci_off` forgets the used tags
  (CQ:78) but leaves TCN, where coalescing may have held back completions. After
  `cqhci_on` the handler frees, with an old bit, the tag of a task that is
  running: "wait task complete" (CQ:679) ends too early. It rests on the
  controller keeping TCN while it is halted, and takes a halt
  (`ClearTagIsDoneUnhalted`).
* *A queue that does not drain* (`cqhci_drain`). The last commands stay in
  `queue_wait` unless the random threshold says otherwise, and
  `while (cqhci_get_queued_tasks());` of the performance test
  (`src/drivers/FTSDC021/test/ftsdc021_test.c:1734`) rings nothing.

The comment of NI:327, that `uxCount` is the number of descriptors given to the
DMA engine, is inexact: it also counts a token just taken, and the comparison
with `txLastDescriptor` makes up for it (see `TxTokens`).

A frame whose byte count is that of the CRC alone ("empty") makes
`prvNetworkInterfaceInput` advance without giving the descriptor back, after
which driver and DMA engine are out of step; `RxInStep` holds as long as no such
frame has been received (`NoEmptyFrame`), and `RxFifo` promises an order only
that long (`intact`). Whether the MAC can report such a frame cannot be told from
the source, so it is not listed as a finding. The ledger properties are checked,
and proved, with such frames too.

**What the I2C and PHY models show beyond their properties.** None of these
contradicts a line of the repository, so they are not findings, but whoever
changes the code should know them.

* In interrupt mode the busy test (I2C:245) reads `dev->status` as the last
  interrupt left it. If that one saw BB, every later call is refused, and
  `I2C_Init` does not clear the word.
* A transfer that fails returns without STOP, but for the address byte of
  `I2C_MasterReceive` (I2C:279).
* `I2C_MasterReceive` sends STOP after the first of two index bytes (I2C:307) and
  gives the second to a bus that was left; `Framed` leaves this case out.
* Bursts have no busy test: bytes that a burst leaves in the FIFO when it times
  out are read by the next one. A threshold above the count makes a burst read in
  interrupt mode return zeros. Both are excluded in `DataIsTrue`.
* `num` = 0 makes `num-1` wrap in every function but `I2C_MasterReceive`
  (I2C:587), and the counts of BSTMR have 6 bits (I2C:417), so that a longer burst
  is cut short and still returns `num`. The model's calls keep within both limits.
* A PHY that needs more than 3 s to negotiate makes check, restart and timeout
  repeat for ever, because each restart takes the other ports' links down too.
* Every received frame postpones the look at the PHYs (PHY:603-608). A mask that
  misses a link is not corrected while traffic comes in, and without a link in it
  nothing is sent. Both premises of `LinkSettles` were found by dropping them.
* Speed and duplex mode are only read in a negotiation, from ports that were done
  in time. A port that completes later leaves the MAC as it was configured.

## 4. Fairness

`Fairness` of `Emac`: the DMA engine, the interrupt and the EMAC task get weak
fairness: the hardware runs in parallel, an enabled interrupt is taken, and the
EMAC task has the highest priority and only blocks with timeouts. A call of
`xNetworkInterfaceOutput` that has begun, and the taking of queued events, get
strong fairness: the EMAC task sleeps for up to 100 ms whenever it has nothing
to do, and the IP task runs then. No fairness is assumed of anything the
environment decides: a frame, a packet to send, a change of the link, a buffer
the stack holds on to.

The liveness properties assume `Quiet`, that frames stop arriving some day: as
long as they come faster than they are drained, NI:1247 does not leave its loop,
and the tasks below starve. That is a property of the code and not of the model:
refused frames are recycled without a blocking call.

`FairSpec` of `Cqhci`: the sender's thread, the engine and the interrupt get weak
fairness. Tasks do not fail, a task that may run is run, and coalescing has a
time limit: the driver programs 32 (CQ:161) and later a random value that it
keeps from being zero (CQ:689). The polling loops are steps that read again and
change nothing or only `next_tag`, so weak fairness does not make them succeed.
No fairness is assumed of new commands or of switching the engine off.

`Fairness` of `Phy`: the handler task has the highest priority, so an update of
the configuration goes on and an expired timer is acted on (weak fairness of
`UpdateConfig` and `Check`); time passes (`Expire`); the IP task retries every
3 s (`InitRetry`); a port that has a partner completes its negotiation
(`Complete`). `LinkSettles` adds two premises: `Calm`, that from some time on no
cable or link comes or goes, MDIO answers and no negotiation outlasts its 3 s;
and strong fairness of an undisturbed `CheckLink`, that traffic leaves pauses.
`I2cMaster` states no fairness: its loops are bounded, and whether the bus
answers is nobody's promise.

## 5. What is proved

TLAPS checks these for every value of the constants that satisfies the named
assumptions (`NoBufAssumption`, `NTxAssumption`, `NRxAssumption`,
`EvLenAssumption`, `KindsAssumption`, `MaxNotifyAssumption`, `DepthAssumption`,
`MaxHaltsAssumption`, `FlagsAssumption`, `BlocksAssumption`, `PhyAssumption`,
`I2cAssumption`), that is for every size of ring, pool and queue, number of ports and length of
transfer.

* **EmacTxProofs.** `TxInv` is inductive (`TxInvariance`), and from it follow
  type correctness, `TxNoOverwrite` (the `configASSERT` of NI:708 and more),
  `TxDmaSafe`, `TxLedger`, `TxTokens`, `TxSnapshot` and `TxDmaInStep`. None of the properties is inductive
  alone: that a descriptor may be overwritten follows from the token only if the
  tokens taken equal the distance of the two pointers (`TxTokens`), and if a
  descriptor holds a buffer exactly when it lies between them or is being filled
  (`TxSlots`); that reclaiming keeps this needs the snapshots to be exact
  (`TxSnapshot`), and that the DMA engine clears only what was submitted needs
  it to be in step (`TxDmaInStep`). `TxInv` is their conjunction. The proof has
  a step per action, and lemmas about distances on the ring. `TxImplements` proves
  the refinement of `TxFifo`: with `TxInv`, each step appends to the queue
  (`QueueLonger`), removes its head (`QueueShorter`), advances what was sent or
  leaves all as it is (`StepIsQueueStep`). That the DMA engine's position gives
  what was sent is `TxDmaInStep`; that a buffer is not accepted while it is in
  the queue is the ledger.
* **EmacRxProofs.** `RxInv` is inductive (`RxInvariance`): the ledger together
  with what the function holds at each of its steps (`RxWork`). `RxTypeOK`,
  `RxDmaSafe` and `RxLedger` follow. `RxStaysInStep` is proved beside it, with the
  condition `NoEmptyFrame` inside the property. `RxImplements` proves the
  refinement of `RxFifo`. Until an empty frame comes, the frames not decided are
  those from the descriptor being looked at up to the DMA engine's position
  (`RingIs`, from `RxInStep`), so an arrival lengthens the sequence at its end
  (`ReceiveArrives`), and a decision shortens it at its head (`DecideShortens`).
  Only an acceptable frame is sent as an event (`GoodFrame`), and its buffer is
  neither in the ring nor queued already (the ledger). Once an empty frame has
  come it stays recorded (`EmptyStays`) and nothing is promised.
* **EmacProofs.** `EmacInv` is inductive for the composed driver
  (`EmacInvariance`): both invariants at once, over one ledger, and the program
  counters of the callees agree with the loop's. With it every step of the
  driver is a step of `EmacTx` or a stutter (`EmacImplementsTx`), and a step of
  `EmacRx` or a stutter (`EmacImplementsRx`): what one path does is to the other
  a buffer changing hands that its specification allows. So the driver implements
  the two queues as well (`DriverSendsInOrder`, `DriverDeliversInOrder`).
* **EmacEventProofs.** `EventInv` is inductive (`EventInvariance`): `EmacInv`, the
  type of the loop's variables, `NoLostWakeUp` and `OneSent`. That the task never
  sleeps on a recorded event without a notification (`WakeUpsAreNotLost`) rests on
  the handler notifying whenever it sets a bit, and on the task testing the word
  before it waits. That at most one sent descriptor is stranded (`StrandedIsOne`)
  rests on `TxInv`: a TX event is outstanding from each sending until
  `vClearTXBuffers` has begun, and that leaves a sent descriptor only where
  `txLastDescriptor` stops it, of which there is one. `OnlyTheStoreLoses` is an
  action property, proved step by step (`RxEventStep`): a reception raises the
  interrupt, the handler moves it to the event word, the bit is cleared there only
  when the draining begins, and that ends only at a descriptor without a frame
  (`DrainEndsEmpty`). Of all steps only the store at NI:1257 is left.
* **PhyProofs.** Every step of `Phy` is a step of `Link` or a stutter
  (`LinkImplemented`), and outside a re-configuration a link means a started MAC
  (`ServedEver`). Both rest on the mask being changed by nobody between a report
  of `CheckLink` and the re-configuration.
* **I2cMasterProofs.** `I2cInv` is inductive: of a call that began clean, the byte
  it waits for is on its way, moved or refused, and the bits that say so are in SR
  or in `dev->status`, never in both and never of another byte. `CountIsTrueEver`
  and `PolledStartsCleanEver` follow.
* **I2cDataProofs.** `TypeInv` gives `I2cTypeOK`: that every access to a byte of
  a call is within it needs to know where `pos` is at each program counter.
  `ByteInv` adds to `I2cInv` what each byte finds and leaves: the direction and
  the hold of the bus, its answer in SR or in `dev->status`, and the bytes read
  before it in the caller's buffer. `BurstInv` says how the bytes of a burst are
  split, in their order, among the FIFO, `gData_buf` and the caller's buffer,
  whether the handler has taken none of them, those up to the threshold, or all.
  `NoAnswerLostEver`, `FramedEver` and `DataIsTrueEver` follow. All rest on the
  shape of the byte sequences (`ScriptShape`): a byte follows only one after which
  the bus is held, or begins with START, and the read bytes of a call are all of
  1 .. `num`. `Framed` excludes `I2C_MasterReceive` with two index bytes
  because a byte follows there on a bus that was left.
* **CqhciProofs.** `CqInv` is inductive (`CqInvariance`), and from it follow
  `CqTypeOK`, `NoGhostTag`, `Claimed` and `Serialised`. That no
  freed tag comes back needs `queue_tag` to stay as it is between its load and
  its store, because the interrupt is disabled there (`SenderInv`).
  That a used tag's descriptor is not overwritten needs waiting, rung and
  completed tags to be disjoint and all in `queue_tag`, or an interrupt would
  free one still in use (`TagInv`). That tasks on the same blocks keep their
  order needs it to be known before they are rung: of two of them one waits at
  most, and it is a barrier if the other is rung (`SerialInv`). `TagsComeBackEver`
  adds that `wait_count` counts what waits and stays below `queue_depth`
  (`WaitInv`), so that of the used tags some have been rung. `RungBeforeAwaited`
  is the counterpart for the other two loops of `cqhci_send_command`: the doorbell
  is rung with a direct command and with a command that is waited for
  (`RungInv`), so what is waited for is in the engine or completed.
  `ClearTagIsDoneUnhalted` proves the property that `cqhci_done` refutes as long
  as the engine has not been halted, and so names the cause of that finding.

**Only model-checked.** The liveness properties (`OutputNotStarved`,
`FramesAreSent`, `TxEventHandled`, `ReceptionAlone`, `SendReturns`,
`LinkSettles`): the prover does no liveness under fairness. They rest on the
bounds of section 3 (of `SendReturns`, `TagsComeBackEver` and `RungBeforeAwaited`
prove for every depth that no loop waits for a task nobody has rung; that the
loop then ends is what the run adds). Every invariant, action property and refinement that a
passing run checks is proved.

## 6. Not modelled, and what is left

* *`error_recovery` in the eMMC interrupt handler* (CQ:371). It resets the engine
  and runs the host driver's reset, card scan and mode switches from inside the
  handler, between any two steps of the sender. A model needs the host driver's
  command path. Read from the source: an error between the load and the store of
  `queue_tag` (CQ:654) makes the store bring back tags the recovery cleared.
  Together with `cqhci_disable` and `cqhci_enable` this would be the next step.
* *The counting semaphore of the buffer pool* beside its free list: `NetBuffers`
  takes and releases in one step. The code changes both around a critical section;
  a module with separate steps could be shown to implement it.
* *Speed and duplex mode* of the PHYs: what a PHY negotiates is not in the source.
* *The slave side of the I2C test* (`I2C_test.c`), a byte-by-byte register script.
* *The stand-alone GMAC test driver*: polled rings, a simpler variant of the ones
  modelled. *Jiffies, timers*: a few lines of sequential arithmetic.
* *The SD/eMMC host driver, DMA controller, UART, SPI and the other peripherals*:
  register sequences with busy waits, in which nothing runs concurrently.
* *The vendored code* (FreeRTOS, FreeRTOS+TCP, the demos, FAT, C library,
  benchmarks) makes up most of the lines of the repository. The models use the
  kernel's semaphores, queues and notifications and the stack's calls as the
  driver does, and are not about their insides.
