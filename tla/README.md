# QCC_GUI in TLA+

QCC_GUI is a PySide6 program that commands a QCC (a UDP device that fronts 96
QTRM modules), shows what they answer, reprograms their flash over the same
link and measures the link with a burn test. The repository also holds the
bootloader firmware of a QTRM with its drivers (SmartFusion2, SoftConsole). This
directory models the logic that decides *which command may be in flight, who
owns the connection, what an answer means and what ends up in the flash*,
model-checks it with TLC and proves its main invariants with TLAPS. Every definition is translated from the code; `PROJECT.json` lists, for
each one, the file and lines it stands for, and for each property the run that
checks it and a defect that breaks it.

## 1. The system

| component | state | operations | interacts through |
|---|---|---|---|
| Remote Programming session (`apps/remote_prog_controller.py`) | running operation, two mode-step flags (the gate), one reusable timer, upload phase, cursor, 96 x chunks ack matrix, target | nine operations, received frames, four timers, cancel | signals to the tab and the main window, frames to the worker |
| Remote Programming tab (`tabs/remote_programming_tab.py`) | its copies of gate, Step 1, Program lock, session flag | buttons, target selector, three slots | requests to main window, slots of the controller's signals |
| Command dispatch (`main_window.py`) | `_awaiting_kind`, `_pending_timer`, single-QTRM targets | send, resend tick, timeout, answer | every tab, the worker, the frame logger |
| Auto-resend toggles (header panel, Link Test, Status, Dwell tabs) | a QTimer each | click, tick, stop | calls back into the dispatch |
| Connection bar and mock QCC windows (`main_window.py`, `connection_settings.py`, `apps/*_app.py`) | four fields, the settings file, remembered values, listeners | edit, connect, open, close, restart | Qt's synchronous change signals |
| Burn test (`core/burn_test_worker.py`, `burn_test_logger.py`) | worker thread, pending map, log file | start, stop, send/receive loop | borrows lock and port; posted signals |
| UDP worker (`core/udp_worker.py`) | sockets, `_running`, last send time | run, send_frame, stop | posted `frame_received`, `status`, `error` |
| Frame logger (`core/frame_logger.py`) | active, one pending query, its timer | log_tx, log_rx, start, stop | called first in `_on_frame_received` |
| Bootloader (`main.c`, `user_functions.c`) | command or receiving, packet index, SPI flash and directory, pins | commands, bit stream, IAP, pin switch | UART lines of the QCC, the drivers |
| System services (`mss_sys_services.c`, `mss_comblk.c`) | request in progress, state and indices of the COMM_BLK, saved registers | 40 services, events, ISP pages, completion handlers | System Controller, interrupts, clock registers |
| UART driver (`mss_uart.c`) | transmit buffer and index, status field, handlers, mode bits | send, receive, configure, ISR | FIFOs, interrupts |
| DMA driver (`mss_hpdma.c`) | ring of descriptors, blocks left, state | start, pause, resume, abort, two handlers | controller, interrupts |
| eNVM driver (`mss_nvm.c`) | call's offset, page, locks; ENVM_CR | write, unlock, read counter | other masters, the design's protection |
| SPI driver (`mss_spi.c`) | master transfer; slave buffers, indices, handlers | frames, blocks, slave set-up, ISR | the other end of the bus, interrupts |
| Serial flash driver (`micron.c`) | page loop | erase, program, read, status | the flash, which outlives a reset |
| Pin drivers (`mss_gpio.c`, `core_gpio.c`) | output, direction and interrupt registers | set, drive, configure | handlers of the pins |
| RC settings, packets, filters, display, plots, build | | | |

What is hard in it: one GUI thread, but timers, posted signals, synchronous
signals between widgets and *modal dialogs in the middle of a slot*, which run
a nested event loop, interleave freely; two worker threads post frames that
outlive them; UDP loses, delays and reorders; the QTRMs write flash from what
they happen to receive, a chunk at a time and with FIFOs that overflow while
the flash is busy; interrupt handlers read and write what a driver's thread is
halfway through; hardware goes on when the processor starts again; and the same
fact (a session runs, a target is overridden) is kept in several objects.

What makes the components correct:

* session: lock, tab and controller agree; the timer belongs to the operation;
  a stream only advances over acked chunks; a pass is not lost; it ends;
* dispatch: one command at a time with its own watchdog and target; nothing
  steals the lock; a tab says what happened to its command; waits end;
* connection and mocks: a connection matches the bar; overrides are undone;
* burn test: holds lock and port for its run; its log outlives the last row;
* bootloader: acks count what was stored; a good upload is the image in flash;
  the golden image is left alone; a reception ends;
* drivers: a result speaks of this very call; what is reported as sent, moved,
  programmed or erased is; registers, locks and pins are put back.

## 2. Modules

| module | models | status |
|---|---|---|
| `RemoteProgController` | the session, the tab's button rules, the lock as the session sees it | done |
| `CommandDispatch` | the lock with commands, toggles, sessions, burn tests, dialogs, connection, frames | done |
| `TestTargets` | Connection bar, settings, the two mock windows | done |
| `MC...` | small instances of each | done |
| `..._proofs` | the theorems of each; `RemoteProgramming_proofs` also those of `RemoteProgController`, `MCFirmwareDrivers_proofs` those of `QtrmBootloader` and of the firmware as a whole, `FirmwareDrivers_proofs` those of `MssNvm`, `MicronFlash`, `MssHpdma`, `MssUart` and `GpioPorts`, `WorkerThreads_proofs` those of link, log and burn test, `SystemServices_proofs` those of the system services | done |
| `QtrmBootloader` | `main` and `user_functions.c` in every QTRM, the UART lines | done |
| `BitStreamReception` | what the bootloaders promise about an announced upload (abstract) | done |
| `RemoteProgramming` | composes `RemoteProgController` and `QtrmBootloader` through the QCC | done |
| `ClockSwitching`, `SystemServices` | clock dividers as pure functions; services over the COMM_BLK | done |
| `MssUart`, `MssHpdma`, `MssNvm`, `MssSpi`, `MicronFlash`, `GpioPorts` | a driver each | done |
| `MCFirmwareDrivers` | bootloader and drivers, each explored on its own | done |
| `UdpWorker` | the socket thread of a connection, and the slots that start and end it | done |
| `FrameLogger`, `UdpLink` | the data log as operators; worker and log composed; `UdpFrames` holds what both name | done |
| `BurnTestWorker` | the burn test's thread, its log, the counter of message numbers | done |
| `MCWorkerThreads` | link, log and burn test, each explored on its own | done |

### RemoteProgController

An action is one event of the Qt loop with every slot it calls. `finish` is
`_finish` with `session_finished` delivered to tab and main window; `Begin` is
the click, `_rp_start` and the controller's `start_*`. A frame is abstracted to
the ack or reply each QTRM's slot carries; `Reaches` states declaratively where
the in-order slot loop gets to. A frame a worker has posted reaches the session
whether or not the connection is still up; without a worker the send of the next
chunk raises, after the cursor moved, and the slots behind are lost (`Seen`).
`sent` is what the last step handed to the worker. `announces` counts
the 20 ms single shots of `start_upload` that have not fired. Send failures are
dialogs in tail position, hence separate events. An image is non-empty (the tab
refuses others). Texts, row signals and pills are left out.

### CommandDispatch

The table `_COMMANDS` enters by shape: with an auto-resend toggle (latched
before or after the first send), with a single-QTRM target, answered by a bare
frame, or plain. `begin_wait`, `TakeTarget`, `response_timeout`,
`resend_tick`, `CommandFrame` are the methods of those names. Dialogs that
suspend a slot are a stack: while it is not empty clicks are held back, but
timers and signals go on; the top is what can be closed. Tail-position dialogs
change nothing and are left out. Frames posted by the worker survive its stop.
The burn test posts `error` and `stopped` in that order; a confirmation is only
answered after its own event loop has delivered earlier posts. Losing the
connection while the burn test asks for confirmation ends the slot in an
AttributeError: the toggles are off, the log stays open, nothing starts. A
fire-and-forget soft reset changes none of this state. Opening a mock connects
and is `connect` here, also during a burn test, as in the code.

### TestTargets

Qt emits `textChanged`/`valueChanged` synchronously and only for a new value,
so `edit`, `open_clicked` and `window_closed` contain all that the change
triggers: drop the connection, save unless an override is in force, move the
responder. In `window_closed` the address is restored while the port's override
flag is still up, so it is saved only if the port then changes too. The port a
probe finds depends on other processes: any port. Leaving the program closes
the responder, then the tester, then restarts from the settings file; a crash
skips the closing. GUI Listen Port and GUI Source Port behave alike and are one
field. The history variables say what the operator meant (`real`) and whether
the mock opened first was closed while the other was open (`crossed`).

### QtrmBootloader and BitStreamReception

`mode[q]` is where the one thread of a QTRM is: polling for a command, in
`recieve_bit_stream`, writing a chunk, in an IAP call, in the fabric's hands, or
hung. Bytes come in *cells*, a command or a part of a chunk; the FIFO of the UART
holds a few while the thread is busy and the rest is lost. `receive`,
`write_to_spi` and `receive_timeout` are the three ways through the loop of
`recieve_bit_stream`; `write_to_spi` includes the ack and the end of the
reception. `wait_for_new_request` checks neither header nor checksum, so a cell
of an image may be taken for any command (`Parse`, bounded by `MaxMisreads`). A
power cycle forgets all but the flash, and may leave the chunk or the directory
that was being written erased. A golden flag is 0, 1 or another value (`Flags`),
which the code's two tests of it tell apart; an announce of no chunks ends at once
and still updates the directory if its flag says so. The abstract module promises that chunks
are acknowledged `0 .. n - 1`, each once and in order, until the bootloader gives
up with another packet; the mapping (`Promise`) takes the announced total, the
index, and the acks among the packets under way.

### RemoteProgramming

The two modules above with the QCC between them (external: the repository holds
only what the GUI sends and parses). `Relay` takes what the controller `sent` in
this very step to every line, as a whole or not at all; `Answer` hands the GUI a
frame with the packets of some lines; `LoseAnswer` loses one. `fresh` is the
history that makes the promise true: nothing of an earlier upload was under way
when this one started. Without it the code stores a cancelled upload's rest, or
counts a stale ack (section 5). The session starts past
the mode steps and addresses all QTRMs.

### The drivers

A driver's function is cut where its code lets an interrupt, the hardware or
another master in: at each access to a register that such a party also changes.
A handler of the code is one action unless it is long enough for the hardware to
change between its parts (`mss_spi_isr`, one action per `if`). `...Upset` and
`gpioTorn` are histories of the sequences in which the code is known to go wrong
(section 5); a property speaks of all others, and each name of such a sequence
is noted at the step where it happens.

* `SystemServices`: `call`, `prepare`, `start`, `finish` are the parts of a
  service around its wait; the COMM_BLK handler's states are those of
  `mss_comblk.c`. A request is an opcode cell and one for the rest, a response
  carries the tag of its call. `ClockSwitching` holds the divider arithmetic of
  `determine_seq`, `clk_switching_fix` and `revert_clk_config` on every device.
* `MssUart`: transmission by polling, by interrupt and by FIFO, with every
  setting's bits; `Collected` and `store_status` are the read and the write of
  the status field. `config_baud_divisors` is a function of clock and rate; no
  property is about its result.
* `MssHpdma`: ring, refill from the completion handler, pauses, errors, aborts;
  the driver may be initialised again between any two calls.
* `MssNvm`: range check against five device maps, access to two blocks, a step
  per page programmed, verified or unlocked. The address given to the controller
  stands for its page in the block: that `NVM_unlock` leaves the bit in that
  selects the block (section 5) is assumed not to matter to the controller.
* `MssSpi`: both roles, frame and block mode, command and response, overruns;
  the driver may be initialised again after use.
* `MicronFlash`: a function is the sequence of commands it sends and its waits;
  the flash obeys only when idle and, to change, when write enabled.
* `GpioPorts`: a function is the sequence of its register accesses; the
  configuration register, which no handler touches, is changed in one. A pin is torn
  when a handler sets it while a write that sets it too is left, or between the
  read and the write of its register; a call that sets it itself mends it.

### UdpWorker, FrameLogger, UdpLink

A `UdpWorker` object is shared by the GUI thread (`send_frame`, `stop`) and its
own (`run`), without a lock. CPython (3.10 on) switches threads at calls and loops, so a
step is the code between two such points that touch what the other side sees:
`_send_sock` exists before its bind (`half`), `_running` is set after the binds
(`SetRunning`), `_last_send_time` is stamped before `sendto` (`SendFrame`,
`SendTo`) and used up after `recvfrom` (`Receive`, `Emit`). `Emit` takes test,
subtraction and reset as one step: no call lies between them. A send is named by
its message number, also where the code keeps a time; `seen` says which sends came
before `recv_time`, so a negative time is one whose send was not seen. The GUI
thread is inside `stop` (`stopping`) until the thread is over or has overwritten
the stop. A reply may be of any age and come twice. Signals of all workers wait in
one queue. The status signal is disconnected before a stop: what a thread emits
after that is lost, what it posted before is not.

`FrameLogger` has one operator per method with all it calls; `fails` is an
OSError of a row's write. `UdpLink` joins them as the signals do: `frame_sent` is
emitted inside `send_frame` (`Sent`), `frame_received` is queued (`Received`).

### BurnTestWorker

`at[r]` is where the thread of run r is in its loop: draining replies, between
`peek_message_number` and `build_header`, evicting, flushing. `table` is `pending`
in insertion order. Time (the pace, staleness, the 10 Hz tick) may come at any
turn. `TakeNumber` is any other frame the window builds meanwhile: it can send
during a run after a mock was opened and a late frame cleared the lock
(`CommandDispatch`), or after a stop gave up waiting. `carried` is the number each
key's frame really had. `on_burn_error` is the failed bind with the dialog before the
stop. Which frames the tab repaints, rates and error counts are left out.

## 3. Runs

| run | instance | shows |
|---|---|---|
| session | 2 QTRMs, two scopes: the whole session with 1 chunk and 1 pending single shot; uploads of up to 3 chunks with 2 single shots, from the states in which both mode steps have succeeded, connected or about to be | lock, timer, tab and gate agree; Step 1's target is held; operations end (`SessionsEnd`); the stream only advances over acked chunks, under late, duplicate and failed acks |
| late_chunk | the whole session with one chunk | **violated**: the uncancelled single shot sends a chunk outside an upload |
| step_targets | same | **violated**: Step 2 before Step 1 and another target in between open the gate |
| single_target | one chunk, QTRM target | **violated**: a complete upload to one QTRM is reported incomplete |
| command_dispatch | one command of each shape, 2 QTRMs, 2 posted frames | lock, watchdog, target, session and verdict agree; log follows the run; no stealing; waits end |
| silence_is_real | same | **violated**: with the data log on, an answered CHIP_ID_READ times out |
| burn_lock | same | **violated**: a stale frame clears a burn test's lock |
| test_targets | 2 addresses, 2 ports, 2 local settings, both mocks (symmetric values) | connections match the bar; first-opened-closed-last restores; the responder follows the port |
| remote_programming | 2 QTRMs, 2 chunks of 2 cells, FIFO of 1 cell, 2 uploads, 1 lost frame or answer, cancel and grace pass at any point | an ok outcome of a fresh upload means that every QTRM holds the image; an ack counted is a chunk stored |
| firmware | the constants of `MCFirmwareDrivers.cfg`, one part at a time | the properties of the bootloader and of every driver |
| saved_is_real | same as test_targets | **violated**: the other order leaves 127.0.0.1 in bar and file |
| threads | 2 connections or 2 burn tests, 2 frames, 2 posted signals, a second socket to send from; one part at a time | a stopped worker has let go of the port; one row per query, and an OK row is timed by its own query; every burn test frame is accounted for once; no row is lost on its way to the file; a dead link is noticed and a pending query ends |

Why these bounds: two QTRMs are the least that can disagree and the least of
which one is not the target; three chunks give a first, a middle and a last one,
and a stale ack on either side of the cursor; one chunk suffices where the ack
matrix is not the question. Two pending single shots are what a cancel and a new
upload within 20 ms leave. Two posted frames allow a stale one before an answer.
Two values per field are enough for every change to be visible. What the bounds
cut off is covered by the theorems, which hold for every value.

`firmware` explores one part (`focus`) per behaviour while the others rest in an
initial state. The parts have disjoint variables and no action of one reads
another's, so a product of all would only repeat the same steps. The properties
of every part are checked together. The bounds of the parts: twice as many blocks as
descriptors make every descriptor be refilled and are the most the driver moves; a page and a bit of data, offsets
before a protected region, before a reserved page and before the second block
make every comparison of the range check matter; FIFOs shorter than the messages
fill and drain in the middle; two pins per register and four pins give a handler
a register of its own and a shared one; one reset of the flash comes at any point
of a first call and is met by a second; one misread, one reset and totals up to
two let a bootloader meet every packet in every mode.

`remote_programming`: a FIFO of one cell and chunks of two make a chunk lose its
tail at a busy bootloader; two uploads let what a first one left meet a second.
Resets and misreads are off there (the `firmware` run has them): a power cycle
in the middle makes `fresh` meaningless. `GoldenBlocks` is 0 because the GUI
addresses one image only.

`threads` explores one part per behaviour too: the link without a log, the link
with one, a burn test, or a burn test for whose frames few message numbers are
left. All they share is the counter of message numbers, which either module
lets the other side move at any time (`TakeNumber`, `SendFrame`). To stay small a
part begins where some of the bounds are used up: the link has one frame left to
send, or one connection, a burn test is the second of two, or has one number
left. So within one part two connections let an old worker meet a new one, two
sends let a reply be timed against the other one, a second burn test starts from
what a first one left, and another frame's number falls between a peek and its
frame. Two posted signals let an old one wait in front of a new one; the bound on
rows limits duplicates and strangers.

Fairness: in the windows the only assumption is that Qt delivers the timeout of a
timer that stays armed (weak fairness of the session's timers and of the
watchdog). Nothing is assumed of the operator, the network, the QCC or the resend
timers.
`WaitsEnd` therefore excepts a command whose toggle keeps renewing its wait, and
`SessionsEnd` excepts a streaming upload, which has no timer in the code.
In `UdpLink` a thread that can go on does, posted signals are delivered, a slot
that runs goes on and the log's single-shot timer fires; operator and network owe
nothing (`NothingLingers`). Nothing is assumed of the burn test.
In the firmware: a line delivers what was sent, a bootloader that receives goes
on polling (its loop counts to its timeout: `ReceptionEnds`), a thread that may
go on does, an enabled interrupt is taken, and the System Controller answers
(`ServiceReturns`, which excepts a zeroize, after which there is no device).

Deadlock is checked in every run but `firmware` and `threads`, which stop when the bounds on calls, connections and frames are used up.

## 4. Proofs

Each proofs module has one inductive invariant (`IInv`, or the name given below), proved from `Init` and
for every action, and the properties as its consequences. The assumptions are
the modules' own ASSUMEs on the constants (non-empty bounds; command kinds
distinct from the two session names; `None` distinct from what it stands in
for).

* **RemoteProgramming_proofs**, the session's controller, for any number of QTRMs, chunks and
  single shots: the type invariant, `LockMatchesSession`, `TimerMatchesOp`,
  `TabMirrorsController`, `NeverRefused`, `StepOneTargetHeld`,
  `AckedBelowCursor`, `FirstChunkScheduled`, and the action properties
  `PassIsFinal` and `StreamIsAckDriven`. They are not inductive alone:
  `UploadShape` ties the cursor to the image (the single shot resets it to 0,
  which is below the image's length only because a pending single shot implies
  an announced image), `TabShape` says Program locks only under an open gate,
  `StepOneShape` extends the target's lock to the time Step 1 is in flight.
* **CommandDispatch_proofs**, for any command table, QTRMs and queue length:
  the type invariant, `WatchdogMatches`, `TargetLatched`, `SessionHoldsLock`,
  `VerdictIsEarned`, `LogFollowsRun` and `NoStealing`. `ConfirmShape` is the
  heart: while the confirmation is open no click gets through, so the lock can
  only be a resend tick's; it needs `DialogShape` (only signals open dialogs on
  top of another). `RunShape` says a running burn test has posted no end yet.
* **TestTargets_proofs**, for any addresses, ports and settings:
  the type invariant, `ConnectionIsCurrent`, `NestedUseRestores` and the action
  property `ResponderFollowsPort`. `FirstShape` says that, until the order is
  crossed, what the first opened mock remembers is the operator's own target.

* **MCFirmwareDrivers_proofs**, the bootloaders, for any set of them, chunk size, FIFO,
  region size and number of misreads and resets: `BootTypeOK`, the action property
  `RegionsKept` and the refinement `ReceptionsRefine` (safety: the abstract module
  has no fairness). `BootInv` is `BootTypes`, which makes every field of the reception
  and every cell a value of its set, and `BootShape`, which ties the mode to the
  reception: a total is announced exactly while receiving or writing, a chunk is
  being written only after the index went up, and the index stays below the total
  until the last chunk. The mapping needs just that: without it `write_to_spi`
  could acknowledge a number the abstract reception has not reached. Each action
  is one abstract step (announce, acknowledge, give up, another packet, a packet
  taken) or a stutter.
* **FirmwareDrivers_proofs**, the embedded memory, for every device map, protection, offset and length:
  `NvmSound` and `NvmTypeOK`. `NvmInv` says what is known between the range check and the return:
  the check passed (`Checked`), the blocks the range reaches into are held
  (`Asking`, `Access`), how far the page loop has come (`Progress`) and that just
  the pages before it were programmed, verified, locked or unlocked (`Done`), and
  that a lock asked for is kept or warned about (`Locking`). The lemmas under it
  are the arithmetic of pages: a write ends with the page or with the data
  (`RemainingLength`, `TurnsPage`), it leaves no byte of the buffer unset
  (`BufferFilled`), and a byte range that passes the check lies in pages that may
  be written whole (`RangeWritable`, because every map's regions are whole pages:
  `WholePages`). The type needs `CrRaised` besides: ENVM_CR is raised just while a
  call that may program is under way.
* **FirmwareDrivers_proofs**, the DMA, for every ring size and number of blocks:
  `CompletedMeansMoved` and `HpdmaTypeOK`. `DmaInv` says that, unless the transfer is one the ring
  cannot take, there are counts g of blocks given to the hardware, m moved and h
  handled with h <= m <= g (`Counts`, `Moved`, `DmaGiven`), and that each descriptor
  holds the block `Occupant` names: the latest given one that falls on its slot.
  The fields the handler reads (`next`, `blocks`, `current_desc`) follow from g and h, so it
  reports completion just when h is the whole transfer. The type needs `DmaRange`
  besides: the fill loop goes on only while a descriptor of the ring is left.
* **FirmwareDrivers_proofs**, the flash, for every size of the page, the block, the sector and
  the flash, every address and length: `FlashSound` and
  `FlashTypeOK` (by `FlashTypes`: target and index of the page loop go on together). What counts is what the flash
  holds once it has *settled*: neither a wait nor the completion of an operation
  changes it, so a restart of the MSS in mid-function leaves the next function
  with a known starting point. `FlashInv` gives, for each stage of each function,
  what that is and whether the flash is known to be idle and write enabled; a
  command that changes cells is sent only in a stage where it is both. The lemmas
  under it are the arithmetic of a page (`WithinPage`, `PageBytes`): a program
  that ends with its page does not wrap, so it adds just its bytes to those
  written before (`PartGrows`).
* **FirmwareDrivers_proofs**, the UART, for FIFOs of every size, any messages and
  settings, and an interrupt between any two steps of a call: `UartSound` and
  `UartTypeOK`. `UartInv` says that what is on the wire, in the shift register, in
  the FIFO and still to be written are, one after the other, the bytes asked for
  (`Stream`; what is still to be written, `ToWrite`, is a polling call's rest or the
  interrupt's, from the index on). A polling call has the transmitter to itself and
  fills only an empty FIFO (`Uses`), so no write is cut short, and the handler that
  fills it with the next part moves just that part (`PartFilled`). `Emptied` carries
  the look at LSR through `MSS_UART_tx_complete`: nothing was in the transmitter, and
  nothing is until the call returns unless a handler came between, which is the race
  the property excepts. `Sample` says the same of the status field.
* **FirmwareDrivers_proofs**, the pins, for a port of any width, registers of any
  width that divides it (the code's are 32 pins, and 8, 16 or 32 to a register), any
  calls and a handler that sets any pin between any two accesses: `PinsAsAsked` and
  `GpioTypeOK`. `PortInv` relates the registers to the accesses left of a call:
  every access left leads to the level asked for (`LeadsTo`), every pin that none of
  them sets is already as asked (`Untouched`), what was read is what was asked of
  each other pin of the register (`StillHeld`), all save the torn pins, and a read
  comes just before its write (`Sequenced`). A call is right if its accesses lead to
  what it asks for and touch all that it changes (`AsksFor`), shown function by
  function; that the writes of `GPIO_set_outputs` together cover the port is where
  the width of the bus enters (`FirstsCover`).
* **MssSpi_proofs**, for FIFOs of every size (the transmit FIFO of two cells at
  least), any transfers, buffers and transactions: `SpiSound` and `SpiTypeOK`.
  As a master (`MasterInv`): the frames between the two indices of a transfer are
  those in flight, the first of them answered, the others unsent (`InFlight`), no
  more than the receive FIFO holds; so it never overruns and each answer is read in
  its turn (`Reads`). As a slave (`SlaveInv`), while nothing is upset: between two
  transactions nothing was read and the transmit FIFO holds the beginning of what is
  owed (`Stays`; `Primed`); while one is open, what the master heard and then the
  FIFO are the beginning of it, and what was read and then the receive FIFO are
  what the master has sent (`Talks`, `Told`, `Heard`); from its release until the
  handler looks, only the second is needed (`Waits`); while the block handler runs
  it has just that (`Hands`) and, unless another transaction came, the next is
  already primed (`Handles`). That last part does not ask that nothing is upset: it
  is what makes the driver right again after a disturbed transaction. `Shape` ties
  the enabled interrupts to mode and command handler. The lemmas under it say what
  a fill appends and which indices it leaves (`Standing` says what the indices mean
  at a place of the answer), and what a read appends to the buffer.
* **RemoteProgramming_proofs**, a session with them, for any number of QTRMs, chunks, cells of a
  chunk, FIFO cells, uploads, faults and resets: `OkMeansImage` and
  `AckMeansStored`. Nothing in the bootloader looks at a chunk's index, so the
  proof counts. Every cell of an upload has a *place*: the announce 0, then the
  cells of the chunks in order. `ProgInv` (about uploads that are `fresh`) says:
  the stream was sent up to a place L, and what is on the lines are the cells
  that end there (`OnLine`); of what a bootloader heard everything up to P is
  gone, and its FIFO holds cells of higher places in ascending order (`Coming`);
  it took at most P cells since its announce, and if it took just P of them they
  were the cells 1 to P, the full chunks are in the flash at their places and the
  rest is in the buffer (`Reading`); chunk i is acknowledged only when i + 1
  chunks' cells are gone (`Earned`). Two facts close the argument. The stream goes
  on only when some QTRM has acknowledged the chunk in flight, so all it sent has
  left the lines (`StreamAnswer`): places never pass the cursor. And the ack of
  the last chunk needs as many cells taken as there are places, so none was
  missed, and that one ack vouches for the whole image: that is why an upload is
  complete in every QTRM although an ack of an earlier chunk alone proves
  nothing about a QTRM that lost cells. Losses of the FIFO, timeouts and resets
  can only lower the count.

* **WorkerThreads_proofs**, for any number of connections, burn tests, frames,
  signals and rows, with one socket or two (assumed: at least one frame, and that
  `None` is no row): `PortIsFree`, `RowsSound`, `FramesAccounted` and `LogIsComplete`.
  For the link, `LinkInv`: a thread that holds the port or will is the current
  worker's or an excepted one (`PortShape`); a frame is on the network only after
  its send has succeeded (`SendShape`); since the current stamp, and since the
  pending query was sent, every other send has failed (`StampShape`), so a reply on
  its way carries the time of its own send or of a later one (`ReplyShape`), and of
  a later one only if that failed or the reply belongs to no pending query.
  For the burn test, `BurnInv`: the number a run has looked at is above all it sent
  under, though the counter may have moved on (`KeysFresh`); keys in the table and
  rows that answer are each a frame's, once, and together they are all frames
  (`RowsMatch`), with the counters as their sizes (`CountsMatch`). The file needs
  the order of everything under way: file, posted batches and hand are consecutive
  parts of the rows made (`ChainOf`), the queue holds signals of the latest run
  only, its end last (`QueueShape`), and only the current run works (`OneRun`), all
  of it as long as no run has survived its stop. The lemmas `Chain...` say how the
  chain moves when rows are made, posted and delivered.

* **SystemServices_proofs**, for every transmit FIFO of at least two cells, any
  exercised calls and any number of calls, events and pages: `SysTypeOK`,
  `LeavesNothingBehind`, `AnswerIsOurs` and `ClocksRestored`. `SysInv` follows the
  one command that is not an ISP's: it is in the transmit FIFO (`InTx`), with the
  controller (`InCtl`), on its way back (`InRx`) or in the caller's buffer, in one
  of these at most, and only while its thread waits (`Sent`). On its way back its
  data bytes are the cells behind its opcode (`DataAt`), so nothing the controller
  sends on its own comes between them; what the buffer holds is either a digest
  error's byte or the beginning of that response (`Result`), and the handler that
  wakes the thread runs just when the response is whole. `Turn` says who has the
  turn: the waiting thread or an ISP, which never gives it back. `Registers`
  follows the raised timing and clock selection from the preparation to the
  return or to the end of an ISP, `Locked` the eNVM between the two services of a
  plan, and `Clocks` what of the dividers is remembered until the freeze ends
  (`Undoable`, by device). The lemmas under it say what each driver function does
  to its record (`RxRequest`, `RxElsewhere`, `TxElsewhere`, `StartSends`).

* **MCFirmwareDrivers_proofs**, the firmware, for all sizes of all its parts:
  `TypeOK` of the composition. `PartsBehave` says that a behaviour of the firmware
  is, seen from each part, one of that part alone, fairness included: `focus` only
  picks the part that moves, and the others stutter. So what is proved of a part on
  its own holds of the firmware (`FirmwareSafe` collects it), and the type of the
  composition is that of its parts.

Only proved, for every instance, and in no run of their own: `NeverRefused`,
`AckedBelowCursor`, `FirstChunkScheduled` and `PassIsFinal` of the session, which
TLC had confirmed before they were proved.

Only model-checked: the liveness properties (`SessionsEnd`, `WaitsEnd`,
`ReceptionEnds`, `ServiceReturns`, `NothingLingers`),
which the prover cannot treat; and the violations. `NvmInv`, `DmaInv`, `FlashInv`, `UartInv`, `BootInv`, `ProgInv`,
`LinkInv`, `BurnInv`, `SysInv`, `MasterInv`, `SlaveInv` and `PortInv` were themselves checked with TLC before they were proved.

## 5. Where code and documentation disagree

The violation runs are listed as findings in `PROJECT.json`, each with the line
that says otherwise. Met while modelling, without a run of their own:

* A mock opened while connected reconnects to 127.0.0.1; the comment says an
  existing connection is left alone (`main_window.py:1093`).
* GUI Listen/Source Port edited while a mock is open is not saved.
* The responder keeps a stale listener if its field was edited to the new port
  before the QCC Port moved there; the tester never follows.
* A failed bind drops the worker only; a running session, toggles and the lock
  stay.
* After a cancel the bootloader is still receiving and takes the next announce
  for data; it writes chunks in arrival order and ignores their index. A stale
  ack, a late first chunk of a cancelled upload, or an IAP result (which
  `parse_slot` reads as an ack) can make an upload ok that is not: `fresh`.
* A stop before the thread has set `_running = True` is overwritten
  (`udp_worker.py:88`): `_disconnect` gives up after two seconds and the port
  stays bound, against the comment that stop "blocks until the thread actually
  exits" (`main_window.py:912`); `lost` in the model.
* A "Stopped" or a failed bind in the queue does not say whose it is: the end of an
  older worker can take the new connection down (`main_window.py:984`, `:1005`).
* A send between `recvfrom` and the subtraction makes the reply's time negative
  (`udp_worker.py:115`; `past` is FALSE in the model).
* A number that the window takes between the burn test's `peek_message_number` and
  its `build_header` (`burn_test_worker.py:233`) files the frame under another
  frame's number: its reply is UNSOLICITED and the frame ends as a TIMEOUT.
* `send_frame` may send on the second socket before it is bound; the bind then
  fails (`udp_worker.py:83`, `early`).
* A failed bind of an older worker makes the window forget a running one without
  a stop (`main_window.py:1005`, `dropped`); a worker left listening, by that or
  by an overwritten stop (`lost`), takes replies of the new one and may time them
  with a stamp of its own: `OkRowTimedRight` excepts both.
* A send that fails leaves its stamp for a reply that comes before the exception
  is handled (`udp_worker.py:139`).
* After a write error `log_tx` leaves a pending query and a timer in a log that is
  closed (`frame_logger.py:190`); the next start drops both harmlessly.
* The mode steps latch on any frame that answers (`remote_prog_controller.py:603`).

In the firmware, none of it with a run of its own; the histories named in the
models set these sequences apart:

* `user_functions.c`: image bytes are taken for commands where nothing is
  received; a golden image of 1023 chunks or more overruns the other one, which is
  only printed (`:184`); `iap_program` spins for good unless the result is 6;
  `image_is_golden == 1` (`:176`) and its truth (`:62`, `:331`) differ for other
  flag values.
* `mss_sys_services.c:390` says that the dividers are put back after a flash
  freeze, an IAP and a digest check; the code does it after the freeze only. The
  clock error path of an IAP does not put back ENVM_CR and FACC2; an IAP prepared
  while an ISP runs saves the changed registers; an ISP never clears
  `g_request_in_progress`.
* `mss_comblk.c`: a byte 0xF1 in a response is taken for a digest error and the
  caller hangs; a digest error between the response and its reading overwrites it;
  initialisation during an ISP leaves its pages in the FIFO.
* `mss_uart.c`: the status field's read and write are torn by the handler (`:388`);
  `MSS_UART_tx_complete` looks at LSR before the size; `MSS_UART_irq_tx` sets the
  size before the index; `MSS_UART_disable_irq` sets every bit of IEM (`:506`); the
  fraction of the baud rate may be 64, one more than its field holds (`:1380`).
* `mss_hpdma.c`: more than eight blocks run past the ring (`:334`), a short
  transfer over before the start returns is started again (`:175`), an abort does
  not stop a pending interrupt.
* `mss_nvm.c`: on the first 010 devices the page lock is dropped without a warning
  (`:189`); offset 0x7FFFF is refused; `NVM_unlock` uses the unreduced offset in
  block 1 (`:436`) where `write_nvm` reduces it (`:649`).
* `mss_spi.c`: the release of the slave select is cleared after its handler, which
  loses a second one (`:1316`); recovery from an overflow forgets a pending one;
  the size passed to the block handler may exceed the buffer (`:1282`); the calls of
  the frame mode take the command handler away but leave its response (`:644`,
  `:702`), which no release takes back, so later transactions still hear it.
  `RecoversAtRelease` excepts that; the proof brought it up. It also showed that a
  transaction which began too early is over only when the release of the latest one
  is handled (`spiBlock.last`), which two transactions, TLC's bound, cannot tell.
  The interrupt comes every half FIFO, so a FIFO is assumed to have two frames (32
  in the code).
* `micron.c`: the last wait of `FLASH_program` may spin for good (`:508`);
  `FLASH_read_device_id` does not wait for a busy flash.
* `mss_gpio.c:168`, `core_gpio.c:145`: a handler that sets a pin between a read and
  a write is undone, and the assertion after the write may then fail.

## 6. Not modelled

* **Of the threads**: the pace and rates of the burn test, CSV columns, display
  and the JSON file of `rc_settings.py`.
* **Byte layouts and parsing** (`packet.py`, `bootloader_packet.py`,
  `qtrm_filter.py`): constant frames, checked by the repository's tests. What
  splitting an image and parsing an answer do is in `RemoteProgramming`.
* **Bytes the mocks answer with, display, plots, exports, ping, temperature
  conversion, packaging**: no state that more than one step of one actor touches.
* **QCC**: not in the repository; `RemoteProgramming` assumes that it relays a
  frame to every line in order and passes answers on, and that it does not start
  a second upload's frames before the first one's cells have left.
* **Firmware start-up, CMSIS and register headers, timer accessors, board
  configuration**: definitions and single accesses. Of the modelled drivers, getters without an effect and
  calls that only write a register that nothing else here reads are left out.
* **Bit streams' content**: authentication and programming are the System
  Controller's (external); the models let it answer either way.
