# A verification of irda-utils

The repository holds the user-space side of Linux-IrDA: the driver for one
PCMCIA card, the tools that bind the kernel's IrDA stack to hardware, a protocol
analyser, and a number of small programs around them. This directory models the
parts of it with state that outlives a call, checks the models with TLC on
small instances and proves the main results with TLAPS for every instance.

Line numbers refer to the files under `src/irda-utils/` unless another path is
given. `PROJECT.json` maps every definition to the lines it stands for.

## 1. Inventory

### ircard_cs (`pcmcia/ircard_cs.c`, `ircard_cs.h`): driver of the IBM 31T1502

*State.* Per card a `dev_link_t` (flags, resources of the socket, release
timer) and an `ircard_cb`: the transmit queue `tx_q` (`ptr`, `len`, `free`,
`tail` and `MAX_WINDOW` slots that describe frames in the card's shared memory),
the speed, and the interface flags (`tbusy`, `start`). The chip has four banks
of registers behind one window; which is selected is state as well.

*Operations.* `ircard_attach`, `ircard_config`, `ircard_event` (insertion,
removal, suspend, resume, reset), `ircard_release` from a timer,
`ircard_detach`, module load and unload; `ircard_net_open`/`_close`,
`ircard_hard_xmit`, `ircard_interrupt` with `ircard_xmit_complete` and
`ircard_receive_complete`, `ircard_change_speed`, `ircard_wait_until_sent`.

*Interactions.* The network layer calls `hard_xmit`, IrLAP changes the speed
after `wait_until_sent`, the chip interrupts, Card Services reports events. At
speeds up to 115200 the `irport` driver sends instead.

*Hard.* A completion interrupt between any two steps of `hard_xmit`; nothing
tests the limits of the queue; the decision "next frame, turn around, or
neither" (965) is taken from counters that another context changes; a fixed
delay before a speed change; a card that goes away, comes back or is reset in
the middle of anything; a release timer racing all of it.

*Correct* means: frames leave in order, once, none forgotten; the queue never
overflows; half duplex; the card listens again after a turn; what the
configuration reserved is given back once and only once.

### irattach (`irattach/irattach.c`, `util.c`)

*State.* Globals for the tty (`devfd`, `termsave`/`termvalid`, `initdisc`), the
interface name, the pid file; outside, the tty's line discipline and termios,
the interfaces' flags and `/proc/sys/net/irda/discovery`.

*Operations.* `main`: open the tty or load the module and find its interfaces,
fork, set the signal handlers, `start_tty`, attach a dongle, bring the interface
up, wait. `cleanup` is the signal handler and the common way out.

*Hard.* A signal at any step, also inside `cleanup`, which then starts again
from its beginning; every system call may fail half way; several instances share
the list of interfaces and the pid file.

*Correct*: however it ends, the tty is as it was found, the interface is down
and the process is gone; one process per interface.

### irdadump (`irdadump/`)

* `netbuf.c`: the buffer the decoders work on. `put`, `push`, `pull`, `trim`,
  `reserve`, `recycle`, `realloc`. Correct: a string of bytes changed at its
  ends, whatever is reallocated or moved underneath.
* `irlap.c`, `irlmp.c`: decoders with memory. A table of 15 LSAP connections, a
  cache of the slot found last, the last IAS query, and sequence numbers per
  direction to count lost frames. The input is what a capture saw: frames are
  missed and repeated. Correct: a connection is decoded as the service it leads
  to, and slots do not outlive their link.
* `capture.c`, `irdadump.c`, `main.c`: packet socket, capture files, the loop.
  State: the log, the position in it, and two time values with two pointers that
  change places. Correct: the log holds what was shown, wherever the program is
  stopped, and can be shown again.
* `obex.c`, `ircomm.c`: decoders of one frame, without memory.

### Smaller programs

| Part | State and operations | Hard | Correct |
| --- | --- | --- | --- |
| `tekram/irkbd.c` | driver of a keyboard and mouse dock that is polled: state, watchdog timer, `connected`, one frame buffer; all work is done in the handlers of `SIGIO` and `SIGALRM` | handlers that interrupt each other, a lost timer, a disconnect in the middle | polls on, passes every input on once |
| `psion/irpsion5.c` | sends files (header with the size, `ACK Y`, data, close) or receives them | files that change, a connection that breaks, two sides that wait for each other | what is stored is a prefix; "Sent" is stored; it ends |
| `irsockets/irdaspray.c` | test traffic: transmitter and receiver processes, a server that forks | full sockets, exits and `wait()` in any order, descriptors never closed | every frame comes back once; all processes end |
| other `irsockets/` | one system-call sequence each; `oldies/` is superseded | | |
| `../smcinit` | three programs that write the configuration of a bridge and of a SuperIO chip | order of the writes, a failure or a kill half way, values that do not fit | configured and locked when it says so |
| `findchip/` | probes configuration ports with the keys of all chips | a chip left unlocked, taken for another, or changed | looks only, and tells the truth |
| `irdaping/irdaping.c` | test frames by `SIGALRM`, answers counted | a lost, late or repeated answer | |
| `irnetd/irnetd.c` | listens and passes connections to the kernel | | |
| `../irda/src` | an IAS query repeated `count` times with a delay | | |
| `smcinit/` | older, nearly identical copies of two programs of `../smcinit` | | |
| `etc/`, `man/`, `ethereal/`, `../www`, `../CVSROOT` | configuration, documents, a patch, the web site, CVS administration | | |

`PROJECT.json` lists these parts with their state of modelling, and under
`hazards` what is hard to test in them, at the line where it bites.

## 2. Modules

| Module | Stands for |
| --- | --- |
| `IrcardTx` | the data path of ircard_cs, with IrLAP, irport and the chip as environment |
| `IrcardTxInv` | its inductive invariant and the capacity it needs |
| `IrcardTxProofs` | the proofs |
| `IrcardLink`, `IrcardLinkProofs` | the life of one instance of ircard_cs; proofs |
| `Irattach`, `MCIrattach`, `IrattachProofs` | irattach processes side by side; instances; proofs |
| `NetBuf`, `ByteDeque`, `NetBufProofs` | netbuf.c; the byte string it implements; proofs |
| `LsapTracker`, `MCLsapTracker`, `LsapTrackerProofs` | irdadump's connection table beside the traffic it watches; instances; proofs |
| `SuperIO` | a machine: bridge, SuperIO chip, the program that runs on it |
| `SmcInit`, `FindChip` | smcinit, tosh2450-smcinit and tosh1800-smcinit; findchip |
| `SuperIOTools`, `MCSuperIOTools`, `SuperIOProofs` | these programs one after the other on one machine, and what they promise; the machines; proofs |
| `Psion` | irpsion5 on both ends of a link |
| `Spray` | irdaspray's client instances, its server and the children |
| `Kbd` | irkbd beside the dock |
| `Capture` | irdadump recording and reading back |
| `MCPrograms` | the last four: a behaviour is that of one of them |
| `TransferProofs`, `ProgramsProofs` | proofs about `Psion` and `Spray`; about `Capture` and `Kbd` |

Definitions named after C functions (`set_mcr`, `find_connection`,
`parse_irlmp`, ...) are the functions. Definitions whose comment begins with
"Mutant" are not part of any specification: each is a slip one could make in the
definition that follows it, and shows that a property notices it.

### IrcardTx

`ptr`, `len`, `free`, `tail` and `queue` are the fields of `tx_q`; `shm` says
which frame each unit of shared memory holds, so that an overlap or a wrong
`tail` shows up as a wrong frame on the air; `reg` is the chip's MCR (bank and
enable bits) with the set of registers ever accessed in a wrong bank; `dma`,
`pend` and `rx` are the chip; `msr`, `bogus` and `saved` are the locals of
`ircard_interrupt`.

`ircard_hard_xmit` is three actions, cut where it gives up exclusion: `XmitEnter`
takes `tbusy` (786-799), `XmitBody` copies and registers the frame and perhaps
starts the transmitter under `idev->lock` (801-845), `XmitLeave` returns. The
interrupt is `IrqEnter`, `ServeTx` or `ServeRx` once per turn of the loop, and
`IrqPoll`; the lock is held throughout, so nothing that takes it runs meanwhile,
but the chip does. The register helpers (`DmaWriteRegs`, `ReceiveRegs`, ...)
follow the sequence of bank switches in the code. `LapChangeSpeed` and
`CardReset` call `ircard_change_speed`. IrLAP takes turns: a window of frames,
then silence until an answer or its final timer; the answer may come after the
timer (`LapTimeout` and then `ChipRx`), which is how a poll can be overtaken.

`ircard_wait_until_sent` (`LapWait`, `WaitUntilSentReturns`) ends at any time: it
sleeps 60 ms, or less, and looks at nothing. So a speed change meets any state of
the queue. The history variable `cut` records what it cuts off: `"frames"` when
frames were queued, which are lost but do no harm; `"TX"` when a completion was
reported and not yet served. That completion is then counted against the new
queue, and the counters are wrong from there on (section 6). The properties of the
queue are therefore stated while the behaviour is `Intact`, that is, up to such a
speed change.

What is assumed of the environment: the network layer has one frame at a time
inside `hard_start_xmit` (it calls a device from one bottom half). `tbusy` does not
ensure that, as `ircard_xmit_complete` clears it under a running `hard_xmit` (957).
The guard `xmit = NoFrame` of `XmitEnter` is this assumption; with callers on two
processors frames could change places.

Left out: frame contents, statistics, the counters of the receive ring (a
received frame is dropped, an overrun or the answer awaited), and
`ircard_net_close` in the middle of a transfer.

### IrcardLink

One action per event and per entry point; each runs to its end.
`ircard_config`'s loop over the configuration table is the relation `Scan`
between the entry it stops at, the entry `link->io` describes and the ports that
are reserved. `io` and `req` differ when the loop goes on after a success.
Timing is free: a card may come back, be unbound or the module unloaded while the
release timer is pending. Nothing takes that timer out of the list, so when a link
is freed its timer becomes `stray`, and `StrayFires` is `ircard_release` called with
memory that is no longer the link's: nothing comes of it, or the next link, whose
memory it is by now, is released. (A crash ends the behaviour.)

### Irattach

`pc` is the place in `main` or `cleanup`. `Signal` is enabled at every step: it
kills the process before line 745 and enters `cleanup` after it, also from inside
`cleanup`. Kinds of processes: on a tty, on a named interface, on a module; the
processes forked for a module's further interfaces are "spare" until then.

### NetBuf

Pointers are offsets from `head`. `ByteDeque` is the abstract specification;
`DequeSpec` is refinement under `n <- Length, msg <- Message`, which are the
length and the bytes of the window, or nothing from a put that found no memory
until the buffer is recycled: such a put counts as the loss of the message.
Every reallocation may fail. `MaxSize` bounds how often the buffer grows.

### LsapTracker

`tr` is the program's memory (`conn`, `last_ias`, `conn_cache`), the other
variables are the truth: the link, the connections that exist, the queries that
are open. `Capture` hands a frame to `parse_irlap_frame` once, not at all or
twice. The four flags of a slot are one service: they are always copied together.

### SuperIO, SmcInit, FindChip

A register is the set of its bits. `open` says that the chip is in configuration
state; a read of a locked chip, or of a port where none is, gives 0xff. An access
(select a register, read or write it) is one step, and `Kill` is enabled between
any two. An initialiser is a table of accesses (`SmcTable`, `Tosh2450Table`,
`Tosh1800Table`, `BridgeTable`), written as `(register & keep) | put` with or
without reading back, and the steps that walk through it. findchip is a sequence
of tries, each of them `Knock`, `Read`, `Relock`; what its probe functions compute
from the registers is in the operators named after them. Left out: the half duplex
delay and the revision, messages, and the two `ioperm` calls that cannot fail
after the first. `Recognised` and `NameOf` are the comparisons of the three probe
functions, over any register contents; `Identified` applies them to what `In` reads.

Three assumptions are named where they are declared, and TLC evaluates them on the
constants of the run. `ArgsAssumption`: numbers on a command line have sixteen
bits. `ExitAssumption` and `IdAssumption` are what the tables of the programs take
for granted about the hardware: which byte ends the configuration state; that only
an LPC47N227 has the ids the initialisers look for; and that of findchip's
protocols the one of its own kind fits a chip, and no other. That last is a real
condition: a chip with registers like those of another would be reported twice.

### Psion

Unit `i` of file `n` is `<<n, i>>`, so that a piece in the wrong place shows.
`SendHeader`, `SendAwaitAck`, `SendData`, `SendLast` are the parts of `sendfile`
between two blocking calls, `ReceiveHeader` to `ReceiveDone` those of
`handle_client`. A connection that ends loses any part of what was not read.
`FileChanges` is somebody who writes to the file.

### Spray

`inst`, `tx` and `rx` are the processes of an instance, `child` those of the
server. A socket holds at most `SockCap` frames per direction; it closes when the
last process that has it is gone. `nofork` records a failed `fork`.

### Kbd

`stack` holds the activations of the two signal handlers, the running one last;
a handler is not interrupted by its own signal. A subframe is two steps: the state
or the input (`ParseFrame`), then the timer (`ArmTimer`), which some responses do
without (`LEDOK` stands for them). `frame` is the buffer of the driver, `irlink` the
connection with what is on its way. The dock puts something that starts the timer
into every answer: an answer of other responses only would end the polling.

### Capture

The log is the sequence of `write`s. `host` chooses the byte order of the host and
the option `-d`. `DiffTime` follows the assignments of `print_diff_time`, which
leaves its result in the older of the two time values; the float it prints is taken
to be exact (it has 24 bits, so differences above some seconds are rounded). For each
frame the line is made, the record written, and then the line printed (`CaptureFrame`,
three times `WritePiece`, `PrintLine`), with a stop possible anywhere. A write may be
short: `capwrite_dump` tests for less than zero only and goes on. A reader that comes
to such a place in the middle of a log takes the bytes that follow for the rest of the
record (`ReadAstray`); what it shows then is left open.

## 3. Runs

| Run | Instance | Shows |
| --- | --- | --- |
| `netbuf` | two byte values, operations of 0 to 2 bytes, growth from 2 to 5 bytes, failing `realloc` | `IInv` (the window survives a failed put, though not always inside the block), `Layout` (the picture of `netbuf.h`), `DequeSpec` (refinement of `ByteDeque`) |
| `ircard_tx` | window 2, three slots, frames of one and two units, speed changes at any time, card resets, 4 frames | `IInv`, `RingFits`, `CountsAgree`, `Transmitting`, `HalfDuplex`, `TxRegisters`, `InOrder` |
| `ircard_tx_live` | window 2, 3 frames, no resets | `Drains`, `ListensAgain` |
| `ircard_tx_speed` | as `ircard_tx`, without resets | `SafeToChangeSpeed` is violated: see 6 |
| `ircard_link` | two configuration entries | `HeldWhileConfigured`, `ConfiguredHolds`, `RemovedIsReleased` |
| `irattach` | a tty process and a named-interface process, two signals each | `TtyRestored`, `IInv`, `CleanupEnds` |
| `irattach_module` | a module with two interfaces, two forked processes, a named interface | `InterfaceStopped` |
| `lsap` | two slots, two addresses, four connections; frames missed and repeated | `IInv`, `Sound`, `NoZombies` |
| `lsap_valid` | three slots, every frame captured once | violated: see 6 |
| `superio` | 126 machines, four command lines of smcinit, five of tosh1800-smcinit, two of findchip | `ConfiguredWhenDone`, `ValidLast`, `LeavesLocked`, `OnlyLooks`, `ReportsTrue` |
| `programs` | one of the four small programs per behaviour | `ReceivedPrefix`, `SentIsStored`, `SenderEnds`; `EchoConserved`, `ReceivedTotal`, `AllEnd`; `InputOnce`, `KeepsPolling`; `DiffTrue`, `LogTrue` |
| `capture_readback` | three frames | violated: see 6 |

*Why the bounds are enough.* `ircard_tx`: window 2 lets frames queue behind one
another and a poll join them, three slots is the least that Capacity allows, so
an off-by-one overflows; four frames cover a full window, a turnaround and a
second turn; the loop of the interrupt gives up after one extra round
(`BogusLimit`), far earlier than the 10 of the code, so the early exit happens
often. The proofs of section 5 remove all these bounds for the invariants.
`netbuf`: counts 0 to 2 over a block of 2 meet headroom and tailroom zero, too
small and just enough. `ircard_link`: with two entries the loop over the table goes on
after a success and a failure; beyond that there is only `MaxOpens`, which lets a device
be registered twice (493). `irattach`: two signals are the least that interrupt a cleanup; more only
repeat it from its beginning. `lsap`: two slots fill up, so "no more space" and
reuse happen; two connections share a selector on either side.

`superio` needs no bound: programs follow one another without end. The machines
are every chip and port findchip knows, the laptops of the initialisers with the
right and the wrong hub, port and chip id, with all unknown registers zero or one;
the command lines include a channel the chip cannot hold, ports beyond what CR25
expresses, and ports and an interrupt with bits that smcinit masks or compares. `programs`, *Psion*: two files of 0 to 3 units that grow or
shrink by one (`MaxChange`), a buffer of 2 and a transport of 2: files end before,
at and behind the end of a buffer, and the sender blocks. *Spray*: sockets that
hold one frame, four frames for the single echo client, so that all of transmitter,
both directions and the child fill up; one frame each for two instances; the
server starts at its limit of descriptors, one or two below it. *Kbd*: two inputs, one
disconnect, two commands or answers under way (`MaxUnread`). *Capture*: three frames, of which the second and third start
from what the difference before left behind, and a second of two microseconds, so
that every borrow happens; one short write (`MaxShort`), which can be that of any piece.

The type invariants of `NetBuf`, `IrcardTx`, `Irattach` and `LsapTracker` are part of
their `IInv`, checked and proved with it.

Deadlock is not checked in irattach's runs and in `programs`, whose processes
exit.

## 4. Fairness

* `IrcardTx`: weak fairness of each step of the driver that is under way, of the
  interrupt (the line stays asserted until the cause is served), of the bottom
  half that calls `hard_xmit` (every completion marks it, 979) and of the
  chip finishing a transfer. Strong fairness of `XmitBody`, which waits for a lock
  the interrupt handler takes again and again: the interrupted processor runs
  between two interrupts. IrLAP is not assumed to do anything.
* `IrcardLink`: a started timer runs; Card Services reports a removal.
* `Irattach`: the scheduler runs every process. Signals are not fair.
* `MCPrograms`: weak fairness of every process, each with all its steps together:
  sender and receiver of `Psion`; per instance of `Spray` the parent, the
  transmitter and the child of the server, and the listening process. A connection
  that will not be accepted is refused (`Refused`, `Unaccepted`). For `Kbd` the
  driver runs, an armed timer expires, and the dock answers. Links break, files
  change and forks fail without being fair.

## 5. Proofs

All by induction over the steps: `Init => IInv`, `IInv /\ [Next]_vars => IInv'`,
`IInv => P`, one case per action. Every safety property of sections 2 and 3 that is
proved holds for every value of the constants with the assumptions named here; the
constants are otherwise only of their types (`...Assumption` in each module).

* **NetBufProofs.** `IInv` is type, `data + len = tail`, `end = truesize`, and
  `tail <= end` until a put has failed (`WindowAlways`). It gives
  `LayoutAlways`, the layout of netbuf.h until a put has failed, and
  `BufferIsDeque`: every step of netbuf.c is a step of `ByteDeque` or a stutter,
  a failed put being the loss of the message, for every block size and count.
* **IrcardTxProofs.** `RingFits` is not inductive: that the slots suffice depends
  on how many frames IrLAP may still send. `LoadInv` bounds the *load*, the slots
  used plus the frames on their way plus the credit, by the window plus one, and
  by one when an answer is pending; that only a turnaround or a speed change
  resets `free` is in `QueueInv` (`len = 0` and nothing on its way imply
  `free = 0`), which also ties the transmitter to slot `ptr`. `WaitInv` says that
  while IrLAP waits nothing is added, `IrqInv` that the loop serves pending
  causes, in bank 0. These two hold always; `QueueInv` and `LoadInv` hold while the
  behaviour is `Intact`, and whoever proves a step has to show that only
  `LapChangeSpeed` with a completion pending ends that (`CutGrows`: it never begins
  again). From it: `RingAlwaysFits`, `CountsAlwaysAgree`, `AlwaysTransmitting`,
  `AlwaysHalfDuplex`. Assumed (`Capacity`): a window plus one frame fits in the slots
  and in the memory. The code tests neither. IrLAP's window of 7 plus one is exactly
  the 8 slots of the code; the memory is only nearly enough, since 8 frames of 2050
  bytes are 16 bytes more than its 0x4000, so the theorem covers that card only for
  windows that are not all of frames of the full length.
  `TxRegistersInBank` goes through the sequence of bank switches of every helper;
  that `ServeTx` finds bank 0 selected is part of `IrqInv`. `FramesInOrder`, an
  action property, needs the whole way of a frame in one formula: `OrderInv` lists
  the frames in the slots, the one inside `ircard_hard_xmit` and those in the
  device queue, and says that they follow the last one on the air, one by one and
  up to the last one made (in growing order only, once some have been cut off).
  `MemoryInv` says that the units of a slot in shared memory still hold the frame
  the slot was made for, which rests on `RingFits`; `XmitFast` that without resets no
  frame is inside `ircard_hard_xmit` at a speed irport serves.
* **IrcardLinkProofs.** Both directions hold for every configuration table and any
  timing, the stray timer of a freed link included: window, interrupt and
  configuration, and the ports that `link->io` describes, are held only by a link
  marked configured (`LinkOwnsWhatItDescribes`), and a link marked configured holds
  its window, its interrupt and those ports (`ConfiguredLinkHolds`). They are proved
  together (`LinkInv`): `ircard_release` leaves nothing that `link->io` describes,
  whatever it began with, and `ircard_config` ends with a release or with everything
  held. That nothing at all stays
  reserved is false (section 7).
* **IrattachProofs.** `TtyInv`: what is changed on the tty was saved before and
  the tty is open, by place in the program; and cleanup's order is such that
  starting over is harmless (`TtyInvariant`, `TtyAlwaysRestored`), for any number
  of processes and signals. `InterfaceAlwaysStopped`: several processes may manage
  one interface, and one may bring it up again after another has taken it down. So
  `StopInv` says that an interface that is up, though a process past its `ifdown`
  managed it, has another process that is running or about to call `ifdown`.
* **LsapTrackerProofs.** `NeverZombies`: if the capture has the DISC of every
  link, a valid slot belongs to the present link, whatever else is missed or
  repeated. `LsapInvariant` and `AlwaysSound`: if one side does all the asking and
  no IAS frame is missed, a valid slot has the service of its connection. The
  invariant that is needed, `LastIasInv`: `last_ias` is the open question, or a
  selector together with the service behind it.
* **SuperIOProofs.** All five properties of the run `superio`, for all machines and
  command lines, any sequence of programs and any kills. From `ExitAssumption` and
  `IdAssumption` (section 2), in four invariants:
  - `LockInv` says by place in the program that a chip that was found locked is
    locked, or, between a key and its exit byte, that the program still has the very
    byte to write that locks it (`LocksAgain`: `LeavesLocked`).
  - `RegsInv`: the registers are those of a machine, but for the logical device, the
    bank, and, on a chip with one of the initialisers' ids, the registers of their
    tables. None of these is an id, so a chip is recognised by what was built in.
  - `SetupInv`: a table is only written to a chip that is open and has the right id
    (`FoundInv`); the entries before the present one hold (`TableInv`, with
    `OtherEntries`: no register is written twice, so an entry stays); the same for
    the bridge and the decoded ports (`BridgeInv`, `DecodeInv`). When the last entry
    holds, `SmcHeld`, `Tosh2450Held` and `Tosh1800Held` turn bits into what was asked
    for: `Configured` (`ConfiguredWhenDone`), `ValidIsLast` (`ValidLast`).
  - `ReportInv`: once findchip has printed, no try that is still ahead fits the chip.
    `FoundIsThere` (0xff is the id of no chip, so what is identified is there and
    open) and `Fitting` (the one try that fits) give `FindchipOnlyLooks`
    (`OnlyLooks`) and `FindchipReportsTrue` (`ReportsTrue`).
  None of this uses the values findchip prints besides name and port: these are sums
  over sets of bits (`Num`, a fold) and would need induction over data.
* **TransferProofs.** *irpsion5*: neither `ReceivedPrefix` nor `SentIsStored`
  says anything about what is between the two programs. `FileInv` does, per file:
  a connection is made for it once (`OneConnection`); until the header is answered
  nothing else is under way (`Announces`); then both sides agree on the size, and
  stored and under way together are the units up to the position of the sender
  (`Transfers`); a connection that is over, and did not fail, has stored what was
  announced (`ClosedIsStored`). From it `PsionReceivesPrefix` and
  `PsionSentIsStored`, for any number and size of files, any buffer, files that
  change. *irdaspray*: `EchoConserved` is inductive only with the order of things
  in every place (`Echoes`: each queue follows the one before it) and with what
  has not begun yet being empty (`Accounts`, which also ties the receiver's total
  to its count); `SprayEchoConserved`, `SprayReceivedTotal`.
* **ProgramsProofs.** *Capture*: `ClockInv` says which of the two time values
  is the time of the last frame when `print_diff_time` has left its result in the
  other, `LogInv` how long the log is at each of the three writes, `PrintInv` that one
  record at most is ahead of the lines printed, `ReadInv` that a reader is at the start
  of a record until it goes astray (`DiffAlwaysTrue`, for the lines of a recorder;
  `LogAlwaysTrue`). *Kbd*:
  `Budget` counts the inputs passed on, those under way, that of the frame a
  handler is about to parse, and the repetitions a disconnect still allows:
  together at most those made plus two per disconnect (`InputPassedOnOnce`).
  The specifications here, `PsionSpec` and so on, are those of one program, without
  fairness; the run `programs` interleaves nothing between them.

*Model-checked only.* Liveness (`Drains`, `ListensAgain`, `CleanupEnds`,
`RemovedIsReleased`, `SenderEnds`, `AllEnd`, `KeepsPolling`) is beyond the prover.
Every invariant and every other action property of a passing run is proved.

## 6. Disagreements the runs show

* `find_connection` trusts its cache without looking at `valid`; a connection that
  is made again is then not the one that is invalidated (`lsap_valid`).
* `irdadump -r` is to show a capture file (main.c:137), but on a little-endian host
  it filters all of it away: the protocol in the file is in network order, and
  irdadump.c:244 compares it as it is, where line 271 converts it
  (`capture_readback`).

* `ircard_wait_until_sent` "should put the currently thread to sleep until all data
  have been sent, so it is safe to change the speed" (ircard_cs.c:1292); it sleeps
  60 ms (1300). At 576 kb/s that is two frames of 2048 bytes, of a window of seven. If a
  completion is pending when the speed changes, it is counted against the new queue and
  `tx_q.len` is -1 (`ircard_tx_speed`). "Reset hardware" would clear it, but lines
  735-736 write 0x07 where 0x70 is the command.

## 7. Seen while modelling, without a run

* ircard_cs.c:1365: `cleanup_module` within 50 ms of a removal frees a link whose release
  timer is pending, and the timer then runs on freed memory (`StrayFires`; insert,
  configure, remove, unload). The comment at 187 has the structures freed when the
  device is released.
* ircard_cs.c:537: a link detached while it is configured "is marked so that when the
  release() function is called, that will trigger a proper detach()" (212), but
  `ircard_release` does not look at the mark, and the link stays.
* ircard_cs.c:363: with two table entries, ports of the first stay reserved after the
  second fails, because `link->io` no longer describes them and `ReleaseIO` is given
  others. So `HeldWhileConfigured` speaks of described ports only.
* ircard_cs.c:524: "If the device is still open, this will be postponed until it is
  closed" (508), but `link->open` is never set: the timer takes window, interrupt and
  configuration of an open interface.
* irattach.c:377: any interface that appears while `modprobe` runs is taken for the
  module's, and two processes manage it.
* netbuf.c:148: a failed put has already moved `tail`, which stays beyond `end`.
* ircard_cs.c:1008 and 1200: `RESET` is written and `MSR` read in a bank other
  than their own (ircard_cs.h:49); `TxRegisters` leaves these two out.
* ircard_cs.c:581-582: `self->stop` is never read. 591: the result of
  `RequestConfiguration` is not looked at on resume.
* ircard_cs.c:493 and 508: a card inserted again registers its device twice.
* irattach.c:201: cleanup takes down an interface that was up before. 336: the
  bound of `get_devlist` is tested one name too late. All instances share one pid
  file (util.c:145).
* irlmp.c:402: with two asking sides `Sound` fails, since there is one `last_ias`.
* irlap.c:791: `irlap_init` clears one slot only.
* irdadump.c:52: no option sets `config_print_lost_frames`, so that the report of lost
  frames is never made; it is not modelled for that reason. If it were made: the numbers
  start at zero, which is taken for a frame seen (irlap.c:36), are not reset by a new
  connection, and a frame that follows a lost one is called a retransmission (372, 385).
* irdadump.c:169-171 and 295: with `-d` and `-w` together the time written to the
  log is the time difference. capture.c:229-233: a short write is not noticed, and the
  log cannot be read beyond it. main.c:112: `-s` falls through to `-t`. The end of a
  log is reported as an error.
* ../smcinit/tosh1800-smcinit.c:489: `onebyte &= ~0x38 | 0x08` does not set the mode
  the comment at 486 names. 398: an unknown port is reported as enabled. 560: the
  result of the configuration is ignored. 703: `-b` skips the decoding as well.
* ../smcinit/smcinit.c:372, 459 and tosh2450-smcinit.c:147: after a failure the chip
  stays in configuration state. 277-278: bits of `-s` and `-f` below 3 and above 11
  are masked before anything is compared, so 0x13fc is silently 0x3f8; and all of
  `-i` goes to CR28, whose upper half is the interrupt of the other UART. 466: without `-t` the exit status is not
  initialised. The bridge decodes 0x130 whatever `-f` says.
* findchip.c:125: ports up to 0x3fe are asked for, and a FIR port above is touched
  (smc.c:126). winbond.c:368: `info.dma` is not set when the channels differ.
  smc.c:84: the probe changes the bank of a controller that may be in use.
* irpsion5.c:652: `-s -- f1 f2` skips f1. 129: after five times `EAGAIN` the list of
  devices was never filled in. 350: a broken connection looks like "Sent". 499: when
  a file shrinks both sides wait for ever.
* irdaspray.c:292: `(i < 0) && (i > len)` is never true. 623, 637: the -1 of a failed
  call is added to the total. 794: the server never closes a connection it has
  given to a child, and stops when it has no descriptor left. `-b` is not compared
  with the buffer.
* irkbd.c:213: `connected = 1` may overwrite an earlier disconnect. 327: data and a
  disconnect that come together are one signal, and the disconnect is never
  noticed; of two frames read together only the first is parsed; a second signal
  then blocks in `recv`, inside the handler (`KeepsPolling` excludes it). 440: `INIT_KBD` is overwritten at once.
* irdaping.c: the summary prints the number of packets sent as those received.

## 8. Not modelled, and the plan

Not to be modelled: wording and layout of output, option parsing, build files,
documents, the web site, `irsockets/oldies`, the one-call demonstration programs,
the OBEX and IrCOMM decoders beyond the lengths they consume. The kernel, Card
Services, IrLAP, irport, modprobe and the chips are environment, modelled from how
the code uses them.

Next, in this order:

1. irdaping, irnetd and the control program's repeated query: lost and repeated
   answers against counters.
2. ircard_cs: `ircard_net_close` in the data path, and the composition of the data
   path with the events of `IrcardLink`.
3. findchip: the values it prints against the registers, for every register
   contents; this needs `Num` characterised bit by bit rather than as a fold.
