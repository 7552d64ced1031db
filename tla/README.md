# kokura in TLA+

kokura is a Game Boy and Game Boy Color emulator written in Rust, with a debugger, a
record/replay facility, link-cable emulation between several machines in one process, and C,
Python and command-line front ends. This directory holds TLA+ models of its logic, the TLC
configurations that check them on small instances, and TLAPS proofs of the properties that
matter most. Every definition is a translation of the Rust source; `PROJECT.json` maps each one
to its lines.

To check a run: `tlc -config <cfg> <module>.tla`, with the pairs listed under *Runs*. To check
a proof: `tlapm <module>.tla`, for `Iteration` and each module named `...Proofs`.

## Inventory

`core` is `src/crates/kokura-core/src`, `debug` is `src/crates/kokura-debug/src`.

| Component | State | Operations | Interacts with | Hard part | What makes it correct |
|---|---|---|---|---|---|
| DMG-07 adapter (`debug/link.rs`) | phase, byte index, connected ports, replies, rate, size, captures, broadcast packet, FF runs | `transfer` of one byte with every port | runner, ports | 4 phases of byte-serial protocol, one packet of latency | broadcast = what was sent, restart iff requested, indices in bounds |
| Link runner (`debug/link.rs`) | topology, active pair, targets, deadline | `run_frames`, `pump_instructions`, two machine loops | sessions, adapter | order of steps and exchanges over many calls, stops, peer switched mid-step | frames as asked, no drift, exchanges are rendezvous |
| Serial port (`core/serial.rs`) | SB, SC, accumulator, bits left, busy | register writes, tick, whole bytes | clock, runner, interrupts | four ways for a byte to end | one interrupt per byte, exact bit time |
| Timer (`core/timer.rs`) | divider, TIMA, TMA, TAC, reload delay | cycle, register writes | clock, interrupts | writes inside the reload window, two implementations | exact reload, equal implementations |
| Frame clock (`core/lib.rs`) | phase, frames, LCD, speed, freeze | `run_frame`, `run_slice`, `run_audio_slice` | PPU, CPU | LCD and speed switched while a loop waits | phase = PPU position, bounded calls return |
| CPU step (`core/lib.rs`, `interrupt.rs`, `joypad.rs`) | PC, SP, IME, EI delay, HALT, HALT bug, IE, IF, A, F | step, service, EI/DI/RETI/HALT/STOP, arithmetic | every device | order of acknowledge, push, wake-up; flags | nothing enabled is lost, priority, results of an adder |
| OAM DMA, HDMA (`core/lib.rs`, `dma.rs`) | source, progress, delays, blocks left | arm, tick, block per HBlank, cancel | PPU, CPU bus | restarts, halted CPU, chunking | every byte copied once, in order |
| PPU timing and STAT (`core/ppu`) | LY, cycles in line, mode, STAT line | tick, LCDC/STAT/LYC writes | interrupts, HDMA | shared STAT line | interrupt on rising edge only |
| Picture (`core/ppu`) | sprites latched, window row, plane | latch, draw a line, redraw | memory, save states | registers written between latch and line | front sprite shows, a redraw changes nothing |
| Clock advance (`core/lib.rs`) | remaining cycles by domain | `advance_clocks`, fast twin | all devices | chunk boundaries, double speed | same result as cycle by cycle |
| Mappers (`core/mbc`) | bank registers, RAM enable, flash, EEPROM, clocks | register writes, reads, tick | cartridge RAM | unlock sequences, latches | nothing stored is lost unreported, clocks keep time |
| Bus, memory, palettes (`core/lib.rs`, `memory.rs`) | VRAM/WRAM banks, flat image, palettes | reads, writes, gates, loads | every device | images refreshed on switch only | a read gives what was stored |
| APU (`core/apu.rs`) | channels, wave RAM, sequencer, frame queue | tick, writes, drain | clock | three switches per channel, queue at its limit | status bits tell the truth, queue = newest frames |
| Save state (`core/state.rs`) | file of the machine | save, load, validate | machine | fields left out, parts that do not fit | what is loaded is consistent |
| Session (`debug/session.rs`) | stop reason, baselines, checkpoints, bank tracking, event log, counters | run, step, rewind, load, set stops, reports | machine, runner | what is stale after a rewind or a load | rewinds go to the machine's past, reports tell the log |
| Command line (`kokura-cli/src/run.rs`) | stage, cursor, files, captured sound, baselines | run a job, compare recordings, follow up | session | stops, triggers and ends of stages meet | outputs hold what was asked for |
| Bridge (`kokura-bridge`) | work queue, functions, blocks, marks | decompile | - | roots found late, overlaps | what runs is decoded |
| Diagnostics, C API, Python | - | rules over a report; wrappers | session | - | - |

The machine is single-threaded: what is concurrent is the devices inside a machine (interleaved
with the program by the clock), the machines under one link runner, and the host between calls.

## Plan

The modules, in the order in which they were written; a module composes those it extends or
instantiates.

1. The link: `Dmg07Adapter`, `Dmg07Broadcast` (abstract), `Dmg07History`; `SerialPort`, `Serial`,
   `LinkCable` (extends `SerialPort`); `LinkSchedule`; `Dmg07Link` (extends `LinkSchedule`,
   instantiates `Dmg07Adapter`).
2. The machine's core: `Timer`, `FrameClock`, `CpuStep`, `Dma`.
3. Display, time and sound: `PpuTiming`, `Ppu`, `ClockAdvance` (display, transfers and loops under
   both clock loops, implements `FrameClock`), `Scanline`, `Apu`.
4. Memory: `Bus`; the mappers in `Cartridge`, `RtcMbc3`, `RtcHuC3`, `EepromMbc7`, `FlashMbc6`.
5. The host: `DebugSession`, `SessionEvents`, `CliRun`, `Opcodes`, `Alu`, `Decompile`.

6. Proofs, one module for each module of a run or for a component of its own: `LinksProofs`,
   `LinkScheduleProofs`, `DevicesProofs`, `MachineProofs`, `ClockProofs`, `CartridgeProofs`,
   `DebugSessionProofs`; what the proofs about loops share is `Iteration`.

What is left is to prove more: the files of a job (`JobsDoAsAsked`).

## Models

### Link

**Dmg07Adapter** is `Dmg07Adapter` of `link.rs`: one action per phase (`transfer_ping`,
`_confirm`, `_payload`, `_restart`), each with everything the handler does, `begin_transmission`
and `restart_ping` included. The connection mask is the set of connected ports; a `Vec<u8>` is a
function on its indices. Games are what `Offered` lets them send: in discovery any reply of
`Replies`, elsewhere any byte of `Payload`. **Dmg07History** adds what was on the wire;
**Dmg07Broadcast** is the promise, in stages and rounds, with no bytes.

**SerialPort** gives the register record and what each operation makes of it; **Serial** lets one
machine's program, clock, cable, device and peer act on it in any order. **LinkCable** joins the
ports of the sessions by the pair the topology selects. `StepSession` is one iteration of the
runner's loop: refresh the pair, step a session, exchange, stop. Which session steps is left open
there and given by **LinkSchedule**: the eligible session with the fewest CPU cycles. Its step
moves the frame by no more than the CPU (half in double speed, not at all in a freeze), or starts
it again where the game wrote LCDC (`lib.rs:1074`) and the LCD went on or off or was off; `Lost` is
the time a session has spent that counts for none of its frames. **Dmg07Link** drives the adapter
by that schedule: the byte goes to all ports, if all are armed on the external clock and the
slowest machine has reached the deadline. The microsecond arithmetic of the deadlines is kept, with
its rounding. A state loaded between calls takes a machine back some frames and any of its lost
time; the deadline stays, so the wait is bounded by the protocol's longest delay and what was taken
back since the last byte (`rewound`), and a byte may be due as soon as the next call begins
(`loaded`).

### Devices and time

**Timer** is `tick` cycle by cycle with the register writes between cycles, and beside it
`tick_fast`; both are recursive functions over the turns of their loops.

**FrameClock** has a step as its action: what the instruction wrote (`Effects`), then the clocks.
Time inside a step is not divided; the frozen cycles of a speed switch and the stall of an HBlank
DMA block are counted as the code counts them. A loop is a record of what it has left.
**ClockAdvance** divides it: `advance_clocks` and `advance_clocks_fast` as recursive functions over
their chunks, with the display and both transfers in the state. A step
longer than a line is a general-purpose transfer's, which ends the HBlank transfer (`WithinLine`); its frame phase and loops implement
`FrameClock` (`ImplementsFrameClock`).

**CpuStep** makes a step an action: an interrupt entry, an idle step, or an instruction of the kind
that matters (EI, DI, RETI, HALT, STOP, a store to IE, IF or P1, any other). `FinishStep` is the
end of every step, in which time passes, devices request and an EI falls due. The push of an
interrupt entry is a store like any other. The history `grant` says which instruction last turned
interrupts on; the properties compare it with `ime`. What the other instructions compute is
**Alu** (accumulator and flags, against an adder built of full adders) and how long they are, how
they leave and how many clocks they take is **Opcodes**.

**Dma** has the two transfer engines, advanced by chunks of cycles; the end of a chunk may be the
start of an HBlank. Each byte of OAM is where it came from, each HDMA address a block. The CPU is
its control writes, its sleep, and its own writes to OAM, which a running transfer drops.

**PpuTiming** is the display as a function of position and registers, as in the code, which stores
no mode; **Ppu** puts register writes, loads and chunks of time on it, with the STAT line as one
latch. **Scanline** is what the lines look like: sprites found as the line begins, dots fetched
when its transfer ends, the whole picture again after a load. Tiles, maps and screen are scaled; a
colour is what selects it.

**Apu** plays one channel at a time (they share only the sequencer), or listens to the queue: each
register write with its side effects, the chunks of `tick`, the sequencer's lengths, sweep and
envelopes, the wave's current byte, the noise register, power. Levels and filters are left out;
frames are numbers, in the order generated.

### Memory

**Bus** has one address for each window, echo and kind of register. `Lets` is the gate (display
mode, running transfer), `Peek` what a read gives, `Write` the store with everything it switches;
the flat image is kept beside the banks as the code keeps it. Loads take a state's parts one by
one, any of which may not fit. The history `stored` is what was last stored in each cell.

**Cartridge** is the bank registers and RAM of eleven controllers, with the dirty flag, save files
and states; control writes are real addresses and values, so that ranges and masks count.
**RtcMbc3** and **RtcHuC3** are the clocks, brought up to date only when looked at, against a clock
driven every second; **EepromMbc7** is driven edge by edge, **FlashMbc6** command by command,
each with a history of what the commands given should have done.

### Host

**DebugSession** is a session over a deterministic machine (its state is how far it is and the keys
it has seen): runs, single steps, breakpoints, watch baselines, event stops, checkpoints, eviction,
rewinds by hand and on stops. **SessionEvents** is what a session makes of the traces of its steps:
the log, counters, bank switches and pending far calls, thrash, changes of the picture, slices and
the bank profile. **CliRun** is a job of the command line: stages with triggers, a run under
observation, the masks of a link job, the comparison of two recordings and the run after a
mismatch. **Decompile** walks a bank as the bridge does (roots, calls, jumps, data, functions
recovered, blocks, dominators, marks) beside a processor that may start at any root, take any
interrupt and run into the HALT bug, and finds its targets itself; both use the instructions of
**Opcodes**.

`PROJECT.json` lists, for every property of every run, a slip a change to the code could make
(an operator beside the definition it changes) under which TLC reports that property.

## Runs

One run checks several parts side by side: `part` picks the one at work, the others keep one of
their initial states, so the states add up and do not multiply.

| Run | Config (module) | Parts | Shows |
|---|---|---|---|
| links | `MC_Links.cfg` | adapter, cable | no index leaves its buffer, what is broadcast is what was on the wire a packet ago, restart iff requested and then honoured, implementation of `Dmg07Broadcast`; exchanges are rendezvous of the selected pair and none possible is missed, except in the step in which the host switched |
| dmg07_link | `MC_Dmg07Link.cfg` | schedule, adapter driven by it | drift bound at mixed rates and restarted frames, frames as asked, no session a step ahead of an eligible one, calls return unless a session keeps losing time; no byte is overdue, the wait is bounded, all ports or none, packets keep their period |
| devices | `MC_Devices.cfg` | OAM DMA, HDMA, timer, frame clock, serial port, sound | OAM ends as the page last asked for and in time, blocks in order; reload window and `tick_fast` = `tick`; phase is position; bits in time, one interrupt per byte; channel switches agree, sweeps fit, wave, noise and queue; what is begun ends |
| machine | `MC_Machine.cfg` | CPU, display, bus | interrupts on iff granted, EI HALT served, no request lost or served out of turn, no wake-up lost; STAT interrupt = rising edge, each line once, both ticks and the prediction agree; one memory |
| clock | `MC_Clock.cfg` | - | both clock loops do the same to every device, and implement `FrameClock` |
| cartridge | `MC_Cartridge.cfg` | RAM, two clocks, EEPROM, flash | saves are kept, clocks keep time, memories follow their commands |
| session | `MC_Session.cfg` | session, events, job | a baseline is stale only behind a stop, rewinds go to the machine's own past; log, counters and reports tell the same story; outputs of jobs |
| host | `MC_Host.cfg` | tables, ROMs, ALU, picture | the opcode tables agree, what runs is decoded, results and decimal adjustment, the front sprite shows and a redraw agrees |
| link_cable_host | `MC_LinkCableHost.cfg` (`MC_Links`) | cable | **violation**: the host can be its own peer |
| frame_clock_lcdc | `MC_FrameClockOff.cfg` (`FrameClock`) | - | **violation**: `run_frame` need not return |
| cpu_ei | `MC_CpuEi.cfg` (`CpuStep`) | - | **violation**: a repeated EI survives an interrupt entry |
| session_key | `MC_SessionKey.cfg` (`MC_Session`) | session | **violation**: after a rewind, a capture is skipped by the key of a future given up |

The type invariants are part of the inductive invariants that are proved (*Proofs*), for all
constants, and are not repeated as runs.

### Bounds

* Adapter: two sessions (the other ports are always absent), packet sizes 1 and 2 (a size of 0 in
  the reply is clamped), six replies: enough for every branch of `transfer_ping`; payload 7 or FF,
  the only value the code tests for. More sessions are covered by the proofs.
* Cable: three sessions, two exchanges, one debugged session.
* Schedule: two sessions, frames of 5 cycles, steps in single and double speed, a frozen one and one
  that starts its frame again, up to 3 cycles lost by a session (`MaxLost`: beyond it the session
  makes no step, and `RunReturns` promises nothing); several calls up to `MaxFrames` 3, which ends
  the behaviours, so deadlock is not checked there.
* Adapter timing: two calls of a frame of 20 cycles, delays of two to four, a period of ten: the
  first packet of the game begins by cycle 26 and the second by 36. One session
  is stopped or one state loaded (`MaxRewinds` 1), not both. One cost of a step is enough, as
  deadlines are in cycles; the proof has all. Games always arm on the external clock when they arm
  (`PortUses`).
* Serial: a bit of 3 cycles with chunks below, at and above it and one that ends a byte at once;
  an accumulator of 5 bits, which the longest chunk plus a remainder does not exceed (in the code
  512 and 16 bits, and one advance is at most some 16,400 cycles).
* Timer: 5-bit divider, 2-bit TIMA, all four clock selects, reload delay below the fastest period
  as in the code (4 of 16 cycles); chunks to 14 cycles contain several edges and reloads.
* Frame clock: frames of 10 dots, steps of 2 and 6 cycles, a freeze of 4.
* DMA: an OAM of 3 bytes, delay and byte of 2 cycles, chunks of 1 and 3 that end inside and beyond
  both; an accumulator to 4, as tight as the code's callers must keep it; 5 source and 2 VRAM
  blocks, so that transfers of up to 4 wrap. An HDMA address is in blocks: the 16 bytes of one
  are copied without interruption.
* Sound: pitches 0 to 2, so that a sweep can overflow at once, later or never; volumes and lengths
  of one step; a wave of two bytes; noise of three bits, two in narrow mode; queues of one to three
  frames and six frames generated. The sequencer has its eight steps. Only the wave is played
  by a colour machine, the others by a DMG one, which also takes lengths with the power off. The
  proof holds for all sizes; what it needs of them is that periods are not zero, that a wave has
  two samples to a byte, and that narrow mode's bits are at least two and fewer than the register's.
* CPU: one device and the joypad; one line of P1, in both groups, so that either can pull it low.
* Display: lines of 7 dots, two of three visible, chunks of 2 and 6; geometries with scroll, window
  and sprites that move the mode. Clock: lines of 8 dots, one of two visible, steps of 2, 4 and
  12 cycles, the last longer than a line, a freeze of 4, transfers of up to 2 bytes and 2 blocks.
* Bus: a program reaches one of eight groups of addresses that share a cell, a bank or a gate; two
  accesses in a step; bytes 1 and 2; two WRAM banks to switch.
* Cartridge: one byte per RAM bank, two banks, twelve control writes, one for each range and mask;
  clocks of 2 by 2 by 2 units and two days, so that every carry and the day overflow happen.
  EEPROM: addresses and words of two bits, seven edges of a command (`MaxSent`). Flash: every
  command of the chip with up to `MaxWrites` 7 writes, enough for unlock, command, second unlock.
* Session: frames of two steps, up to three frames, two keys, two futures (`MaxGeneration`), one
  change of settings. Events: one event of each way of counting, six programs of five steps, three
  banks, two reversals in a row that are suspicious, three addresses remembered, two checkpoints
  kept: each is reached and passed. Jobs: three
  stage jobs, three observed ones, one link job and the comparisons of recordings of three and
  four frames that part in state, watch or slice at any frame; two steps to a frame.
* Host: all opcodes with every second byte; ten operands, those where half carries, carries and the
  decimal digits turn; ROMs of 8 bytes, five of them free among six opcodes (return, jumps, call,
  and others), or among HALT, RST 0, a jump and a load of two bytes, for the HALT bug, and two ROMs
  made for overlapping recovered functions; a screen of 4 by 3 dots, tiles of two, maps of two by
  two, three sprites of which two fit a line, two writes.

### Fairness

`links` assumes the runner keeps being called and the games keep arming. `dmg07_link` assumes a
call that can step does (a `while` loop): a call then returns, unless the game of a session keeps
taking time that counts for no frame, as in run `frame_clock_lcdc`. In `devices`, HBlanks keep
coming (the LCD is on), every instruction ends by advancing the clocks, and a frame loop that can
step does and one that cannot returns; no fairness is assumed of what the game does, and a CPU that
sleeps for good and a byte of a port the runner holds attached are excluded in the property itself.
`machine` assumes that whoever runs the machine goes on stepping it, not that a device ever
requests. The other runs check safety only.

## Proofs

The proofs hold for every value of the constants that satisfies the named assumptions.

* `Iteration`: induction stated about a set of numbers (the library's takes an operator), from the
  least element of a set; the sequence of states of a loop exists and is what a recursive function
  computes (`LoopStates`); quotient and remainder of a count that is carried on by one or by many.
* `LinksProofs`, the adapter: the record has its shape and every index its buffer (`AdapterShape`), by the
  invariant `Shape`, which adds to the types what the FF runs can be (zero, or the byte index) and
  what is on record of the wire; captures and broadcast equal the wire (`OnePacketLatency`);
  restart pending iff requested (`RestartExactly`), for which the runs must be tied to the wire;
  and the refinement of `Dmg07Broadcast` (`AdapterRefinesBroadcast`), step by step.
  `PlayersAnsweredStart`, by `Membership`: what discovery has heard of the replies is the wire, and
  from player 1's first start byte on its own membership is that at the start of the ping.
* `LinkScheduleProofs`: `CallsGiveFramesAsked`, `EligibleWaitOneStep` (from the choice of the
  fewest cycles, at any rates) and `NoDrift`. Drift needs an invariant that
  relates cycles, frames and targets: between calls, that the frames run since linking are the
  same for all, so that a session ahead in cycles began its frames earlier or has lost time for
  them; lost time is never given back (`StepLoses`), so a head start never shrinks
  (`HeadstartGrows`). `DeadlinesAreKept`, the
  adapter under this schedule, by `LinkInv`: where in its packet the adapter is and how far the
  deadline has come from the start of the game's packet (`PacketsRun`), beside the two invariants,
  that no byte is overdue between steps and that the slowest machine is never more than the
  longest delay, and what it was taken back, from the deadline.
* `LinksProofs`, the cable: `CableSwaps`, that a byte ends only by its game's write or by a swap of
  two ends on opposite clocks, one of them the host's, and that two ends that could swap have
  done so unless the host switched to them in the very last step; they swap in the next. The
  invariant `CableInv` is that property with the types, over one step of a session, its exchange
  and its stop.
* `DevicesProofs`, timer: `ReloadIsPunctual` (the window's length is tied to a count of cycles, and
  the timer at zero is kept through DIV and TAC edges) and `InterruptsAndPeriods` over it, in which
  whole periods are counted by a division. It includes that `tick_fast` is `tick`: up to the next
  edge a cycle only moves the divider (`NextCycle`, from where a bit of a count of half periods
  falls), so a jump is a stretch of cycles (`Stretch`), and each turn of one loop is a number of
  turns of the other (`TicksMeet`, by induction over the turns).
* `DevicesProofs`, frame clock and port: `FramesFollowThePicture`, inductive with the ranges of
  the two counters; `BytesKeepTime`, from `PortInv`: what is accumulated and what is shifted out
  make up the cycles since the byte began, and nothing is cut by the width of the accumulator as
  long as a chunk and a remainder fit it.
* `DevicesProofs`, transfers: `WholePageCopied`, by the invariant that behind the progress of a
  transfer lies a copy of its page; `CopyIsPunctual`, by an account of the cycles gone: those of the
  delay, of the bytes copied and of the accumulator, which the assumption on chunks keeps from
  saturating; `CountersInRange`, the types of both engines, for which an armed transfer must have
  blocks left; `TransfersArrive`, by `BInv`: source and destination are what was asked for moved on
  by the blocks sent, with both wraps.
* `DevicesProofs`, sound: `SoundKeepsItsWord`, by `SoundInv`: switches that move together, a byte
  that is the one of its place, a checked pitch that fits, counts below their periods, and a noise
  register that is awake. In narrow mode the low bits go round by themselves, so awake means there
  that they are not all zero; that is why a width changed under a note voids the promise until the
  next trigger. That time may be cut anywhere is proved cycle by cycle: a chunk that ends within a
  channel's wait, at its deadline or periods behind it does what one cycle less and one more do
  (`OneMoreCycle`), so a chunk is its cycles (`ChunkIsCycles`), and so is a tick (`TickIsCycles`).
* `MachineProofs`, CPU: `InterruptsOnlyWhenGranted` and `HaltIsServed`, from the types and the two
  properties together: the delay is 1 only right after EI, so a HALT that finds it 0 has the `ime`
  the program chose; `NoRequestIsLost` needs `BugWaits` besides: a suppressed fetch waits behind
  its HALT, or behind the one entry that an EI before it allows.
* `MachineProofs`, display: `StatInterrupts` and `FramesDrawEveryLine`, by `LcdInv`: the latch is
  the signal except where a write moved the mode behind it, and the lines drawn are those whose
  mode 3 has gone by. A chunk of time ends with its mode at the latest, which is what keeps a line
  from passing unseen.
* `MachineProofs`, display: `TimeIsCutAnywhere`, that `tick`, its fast twin and one dot at a time
  come to the same picture and the same interrupts, and that the next event is where it is
  predicted. A chunk leaves what its dots leave one by one (`QuietChunk`), since only its last dot
  can change mode or line; the loops are compared by induction over their turns.
* `ClockProofs`: `LoopsAreAlike`, that `advance_clocks` and its fast twin do the same to every
  device, and `ClockIsFrameClock`, the refinement of `FrameClock`. `Reached` relates a state of
  the loop to its start: the cycles left, what each device got of them at the step's speed, and the
  phase and position moved by the same amount. `Room` bounds what HBlank blocks add within a line
  (one per step), so the loop ends within its turns; the twins agree as an HBlank is entered
  exactly where a line is drawn.
* `MachineProofs`, bus: `BanksAreOneMemory`, by `BusInv`: each place holds what was last stored in
  its cell, and the flat image shows the banks selected. A store, a switch, a transfer or a part
  loaded changes one cell, all of an image, or nothing.
* `CartridgeProofs`: `NoStoreIsLost`, by `RamInv`: RAM and file have the same banks, and the byte
  `write_ram` compares is the byte it stores, so a change is always seen. `CommandsAreFollowed`: the
  EEPROM by `EepromInv`, which says that under a chip select what is collected is what was sent
  since the first one, through the command and the word behind it; the flash by `FlashInv`. The
  chip's own six-write history leaves out the bytes programmed, so it is not the tail of what the
  game wrote; it agrees with it back to a write that ended a program command, and no command of
  the chip contains such a write except as its last, so no command can be put together across a
  programmed byte.
* `CartridgeProofs`: `ClocksNeverDrift`, that the clocks of MBC3 and HuC3 show what a clock driven
  every second shows. Bringing them up to date at once carries by divisions; it is additive
  (`LaterDivision`, `Carried`), and one second at once is a second of the reference, so by
  induction over the seconds missed both are the same.
* `DebugSessionProofs`: `SessionKeepsItsPast`, the invariant `IInv`: captures go forward in index and
  generation, lie at the ends of due frames, and those that are not superseded are of the
  machine's own past; `RewindsServe` from it; and `NoChangeOverlooked`, for all windows watched.
  `ReportsTellWhatHappened` is the event log (`EventsAreTold`), for any programs, banks, thresholds
  and bounds with bank 1 among the banks (`EventsAssumption`). Its invariant `EventInv` has the
  types and a part for each report, each kept by a step given the types: a counter is what the log
  tells from where it was last started over; switches into and out of a bank differ by where the
  bank is; far calls pending are the thunks entered in this run, and two around each other do not
  come from one bank, so that a return takes off its own call; the score of reversals needs the
  length of the last row and that of the longest, the score of repetition the last window and the
  best one; changes seen need the last frame shown to be the one compared with, and what a frame
  begun holds; and checkpoints lie in the order of the log and, within a run, of its steps, so that
  the slices telescope (`TotalOfDifferences`).

Only model-checked, and why:

* liveness under fairness: calls return (`RunReturns`), what is begun ends (`EverythingEnds`), a
  wake-up is not lost (`NoLostWakeup`), a restart is honoured and no index leaves its buffer until
  then (`AdapterKeepsToProtocol`, whose safety parts `BufferShape` and `StartMembership` are
  proved by `AdapterShape` and `PlayersAnsweredStart`);
* what is defined by a fold over its data or by an operator that calls itself, about which the
  provers cannot induct (a recursive function they can, by `Iteration`): the picture, the
  decompiler's walk and the tables (`PictureIsRight`, `ListingIsRight`, `TablesAgree`) and the adder
  (`ResultsAreRight`);
* the jobs of the command line (`JobsDoAsAsked`), whose outputs are folded from lists.

## Differences found

* `session.rs:2141` says a non-host session is selected; only index 0 is excluded, so a host that
  is not session 0 can select itself, and then no byte is exchanged (run `link_cable_host`).
* `lib.rs:1768` says frame slices keep moving with the LCD off; a game that writes FF40 more often
  than once a frame with the LCD off keeps the phase near zero, and `run_frame` does not return
  (run `frame_clock_lcdc`), nor do the link runner's loops, which wait on the same frame counter
  (`link.rs:621`, `797`). It returns once the writes stop or the LCD stays on.
* `lib.rs:1541` says an interrupt entry disables IME. EI sets its delay also when interrupts are
  on, and the delay counts through the entry, so EI followed at once by an interrupt enters the
  handler with interrupts on (run `cpu_ei`). `ImeIffGranted` names this case: the EI then counts
  as executed after the entry.
* `session.rs:5865` says a checkpoint is captured unless the same frame and cycle was just
  captured. `rewind_frames` leaves the key of the last capture behind, so a replayed future that
  comes to that frame and cycle is neither captured nor compared (run `session_key`).

Seen on the way, and in the models as the code has it:

* *CPU.* EI, EI puts the enable off by one more step; EI, HALT with a request pending takes the
  HALT bug into the handler (`HaltBugOvertaken`); F4 runs as CALL NC.
* *Save states.* A file has neither the EI delay nor the HALT bug nor the progress of OAM DMA; a
  load copies the dirty flag with the RAM, so a restored state can be clean and yet not be what the
  save file holds; `machine.load_state` itself checks neither version nor ROM (its callers do);
  a rewind sets the machine's fields itself and leaves the session's `last_iflag` as it was.
* *Cartridge.* A short save file clears the dirty flag; MBC7's EEPROM and MBC6's flash are in no
  battery save; EWEN and EWDS leave the command open until chip select falls; a camera capture
  begun again keeps the delay left; MBC3 and HuC3 ignore a host clock that goes back, Tama5 takes
  any change; MBC6 shows its identity on after an erase from identity mode.
* *Bus.* The flat image of the banks is never read back; a transfer from above E000 does not block
  a colour bus, and one from FFxx reads mirrors of the registers, which can be stale; FF46 is
  refused on DMG while a transfer runs; timed reads of STAT and LY pass the gate of a transfer; a
  palette index moves on behind a write refused.
* *Picture.* A flipped sprite found while sprites were tall and drawn while they are not takes its
  row from below zero (`ppu/mod.rs:1000`): in a release build it shows rows of the tile before,
  with overflow checks it panics. A load redraws with the LCD off too; LCDC bit 0 blanks the
  background in both modes; sprites go by X in colour mode as well.
* *Sound.* A power-off or a smaller queue loses frames without counting them as dropped; a noise
  period shifted out of 16 bits becomes the shortest; the noise register can run empty once its
  width was changed in a note; the comment at `apu.rs:840` has a trigger force a zero sample,
  which `trigger_channel` does not; the array of boot registers (`apu.rs:174`) is an entry short.
* *Session.* `run_frames` starts its baselines over and clears the stop, but the counters of
  mapper and sound live on through runs, those of freezes until a load; the log is never cleared,
  so the first slice after a load spans events from before; samples of slices across runs come
  to zero; a thunk left after a plain switch inside it is not recognised as left; ApuMasterToggle
  and WaveRamWrite count as MMIO in slices but have no bucket in the heat map; an execution
  breakpoint at the current PC stops again at once.
* *Jobs.* No frames asked for still run one step under observation; a file saved by a trigger is
  overwritten by the stage's own end state at the same path; a frame cut by a stop counts as
  a frame in triggers and numbers; a stop in a stage with conditional snapshots is forgotten by
  the next frame's run; a tag that never matches leaves the initial baseline; the state named
  for frame f after a mismatch has f + 1 frames behind it; `oam_dma` never fires for slices of HDMA
  only and `irq_service` fires on requests too; unequal numbers of checkpoints give the window 0 to 0.
* *Decompiler.* Behind a HALT with a request pending and interrupts off, an instruction of several
  bytes reads its own opcode as an operand and its last operand is executed, which no listing shows
  (`lib.rs:3917` tests it): `ExecutedIsDecoded` promises nothing behind one, as behind a load or
  store of a fixed address; instructions of one byte run twice and are covered. RET cc ends a block
  without an edge to the next; the entry is taken to be the lowest address; the next instruction
  gets an edge even if it is another root; the walk ends at a load or store of a fixed address that
  `decompile.rs:1665` goes past; blocks without predecessors keep every block as dominator;
  functions recovered may be refused for overlap.

## Not modelled

* Sound levels, routing and filters, the camera's picture and the accelerometer's values: numbers
  without control.
* Which registers and addresses an instruction names: the interpreter's largest part is a table
  of such moves, and what they are is what the opcode says.
* The C API and the Python binding: each function is one call of the machine or the session, which
  are modelled; what they add is a handle and strings.
* Diagnostics rules, report builders, symbol files and source maps, ABI checks, names and text of
  the decompiler, encoders of images, sound and video, parsing of arguments and job files:
  functions of a finished input, with no state that lives on.
* The encoding of state files: taken to keep what it is given.
