# A verification project for Caprice32 (libretro-cap32)

Caprice32 emulates the Amstrad CPC and Plus computers as a *libretro core*: a
library that a front end (RetroArch) drives frame by frame. This directory holds
TLA+ modules that model parts of it, TLC configurations that check them on small
instances, and theorems about them that TLAPS proves for all values of the
constants. Paths below are relative to the source tree `src/`.

## 1. The system and its parts

One thread runs everything. `retro_run` polls the inputs, handles events and calls
`retro_loop`, which runs `z80_execute` until a frame is complete. Each Z80 instruction
calls the macro `z80_wait_states` once or more, which advances, in this order, the
CRTC and gate array, the PSG, the floppy controller's overrun timer and the tape.
Port accesses (`z80_IN_handler`, `z80_OUT_handler`) call the devices' handlers.
Between frames the front end may change disks or tapes, reset, save, load and
restore. There are no threads, yet five parties interleave: the emulated program,
the devices' clocks, the user, the front end and the automatic typing of commands.
Most of the state is C globals that any of them may change at any time.

| component | state it keeps | operations | what makes it correct |
|---|---|---|---|
| floppy controller (`cap32/fdc.c`) | phase, byte counter, command, result, transfer buffer pointers, timer, per-drive status | `fdc_write_data`, `fdc_read_data`, `fdc_read_status`, the 15 commands, motor, timer | the phase protocol holds under any order of accesses; results describe what happened; a transfer ends; buffers are not overrun |
| disk images (`cap32/slots.c`) | tracks, sectors, `altered`, the difference file | load, save, eject, format, diff, diff load | what was written comes back; a refused file changes nothing |
| snapshots (`cap32/slots.c`) | none of its own; reads and sets the whole machine | save, load | saving and loading is the identity on the machine |
| file of changes (`cap32/slots.c`) | the tracks of a disk that differ from its image | `dsk_diff`, `dsk_diff_load` | the disk that is inserted again is the one that was taken out, or as much of it as the format can hold |
| tape (`cap32/tape.c`, `slots.c`) | image, block pointer, stage, pulse counters, level, cycle count, play and motor | insert, eject, rewind, play, stop, `Tape_UpdateLevel` | the signal on the tape is played exactly once, on time, and ends |
| CPC core (`cap32/cap32.c`) | gate array, PPI, memory banks, keyboard matrix, CRTC registers | port handlers, reset, main loop, disk attach and detach | the bank table agrees with the registers; reset restores all of it |
| Z80 (`cap32/z80.c`) | registers, interrupt state | instructions, interrupt acceptance | interrupts are neither lost nor taken twice |
| CRTC and gate array timing (`cap32/crtc.c`) | counters, sync, interrupt counter | one step per microsecond | counters stay in range; the interrupt counter follows HSYNC and VSYNC |
| ASIC (`cap32/asic.c`) | lock state, DMA channels, sprites, palette | unlock bytes, DMA cycles, page access | the unlock sequence is recognised from any prefix; DMA lists and CPU writes interleave |
| PSG (`cap32/psg.c`) | registers, envelope, buffers | register writes, synthesizers | envelope and counters in range |
| automatic typing (`cap32/kbdauto.c`) | buffer, position, wait counter | feed, one step per frame | every key that is pressed is released; the text is typed once |
| user interface (`retro_keyboard.c`, `retro_ui.c`) | virtual keyboard, click and composed key | one step per frame | a click that ends releases its key |
| disk control (`libretro/retro_disk_control.c`) | list of images, index, tray, unit | the libretro disk control calls | the tray and the index agree with what is inserted |
| events and autorun (`libretro/retro_events.c`) | event flags, delays | per-frame event step | an event fires once per press; autorun starts after the machine is ready |
| core entry points (`libretro/libretro-core.c`) | configuration, paths | load, run, reset, serialize, unload | calls in any legal order |
| cartridges, light guns, rendering, sound mixing, GUI, string and file helpers, databases, catalogue scanner | tables and buffers | pure or drawing functions | not behaviour of the kind modelled here |

How they interact, as far as the hard behaviours go:

- the CPU moves data one byte at a time through the FDC ports while the timer in
  `z80.c` moves the byte in the CPU's place if it is late, and the front end may
  eject the disk between two bytes;
- the tape runs only while both the program's motor bit and the user's play button
  are on, and it stops itself;
- `retro_disk_control.c` calls `tape_insert`, `tape_eject`, `attach_disk` and
  `detach_disk`, and the autorun sequence (`ev_autorun_prepare`) rewinds the tape and
  feeds the keyboard buffer, whose text can press play;
- the gate array counts the CRTC's HSYNCs and is reset by its VSYNC; the processor, whose
  instructions drive both, takes the interrupts and may rewrite the registers in between;
- the mode, ROM and RAM ports, the ASIC behind its lock, resets, a new configuration and
  snapshots all rebuild one map of four read and four write pointers, or parts of it;
- the user's keyboard, the pads, the virtual keyboard and the typist press keys of one
  matrix, and hand it to each other by three pointers to handlers (`ev_set`);
- the DMA channels run one line at a time while the program rewrites their registers, and
  share one field that names the cause of an interrupt;
- `emulator_reset` touches every device at any moment.

There is no concurrency in the sense of data races, and no messages are lost;
the hazards are *interleavings of calls*, *state that outlives what it refers to*,
*steps that fail half way* and *counters at their limits*. `PROJECT.json` lists them,
each at its line, with the properties that watch it.

## 2. The modules

| module | models | extends or instantiates |
|---|---|---|
| `FDC` | the floppy controller, its drive, its timer, its ports, disk changes and reset; also with a disk that stays (`GuestSpec`) or is changed between transfers only (`PatientSpec`) | |
| `FDCProtocol` | the protocol a program may rely on: parameters, transfer, result, in bytes | instantiated by `FDC` |
| `MC_FDC` | instances of `FDC`: disks and command bytes | `FDC` |
| `FDC_proofs` | theorems about `FDC` | `FDC`, TLAPS |
| `Tape` | the tape player, its slot, the motor and the user | |
| `TapeSignal` | what a tape player promises: the recorded signal, in order, and a play button it releases itself only at the end | instantiated by `Tape` |
| `MC_Tape` | instances of `Tape`: short tapes with every kind of block | `Tape` |
| `Tape_proofs` | theorems about `Tape` | `Tape`, TLAPS |
| `DiskControl` | the image list, the tray, the two devices as they see them, and the files of changes | |
| `MC_DiskControl` | an instance of `DiskControl`: mixed playlists and all kinds of files | `DiskControl` |
| `DiskControl_proofs` | theorems about `DiskControl` | `DiskControl`, TLAPS |
| `CRTC` | the counters of the CRTC, of the gate array and of the monitor, as operators on one record | |
| `Interrupts` | the processor that drives them, takes interrupts, writes registers, and the frames shown | `CRTC` |
| `MC_Interrupts` | instances of `Interrupts`: small lines and frames, and lines longer than the monitor's | `Interrupts` |
| `Interrupts_proofs` | theorems about `Interrupts` and `CRTC` | `Interrupts`, TLAPS |
| `Memory` | RAM banking, ROM paging, the ASIC's lock and register page, resets, configurations, snapshots | |
| `MC_Memory` | the root of the run of `Memory` | `Memory` |
| `Memory_proofs` | theorems about `Memory` | `Memory`, TLAPS |
| `Input` | the keyboard matrix and the four parties that press its keys | |
| `MC_Input` | an instance of `Input`: a shifted letter, two texts, two buttons, two assignments | `Input` |
| `Input_proofs` | theorems about `Input` | `Input`, TLAPS |
| `DiskDiff` | a disk in drive A, its changes, and the file that keeps them | |
| `DiskStore` | what is promised of the changes made to a disk | instantiated by `DiskDiff` |
| `MC_DiskDiff` | instances of `DiskDiff`: two sides, tracks of several lengths | `DiskDiff` |
| `DiskDiff_proofs` | theorems about `DiskDiff` | `DiskDiff`, TLAPS |
| `AsicDMA` | the DMA channels and their interrupt causes, and the program that uses them | |
| `MC_AsicDMA` | an instance of `AsicDMA`: two lists | `AsicDMA` |
| `AsicDMA_proofs` | theorems about `AsicDMA` | `AsicDMA`, TLAPS |

### FDC

State is the C state under its own name: `phase`, `byte_count`, `cmd` (which fixes
`cmd_length`, `cmd_direction` and `cmd_handler`), `res_length`, `command[1..8]`, `res`
(the result registers, with ST0 to ST2 as sets of bit names), `flags`, `seekDone` and
`statusChanged` (the per-drive flag bits), `motor`, `led`, `timeout`, `delay`
(`read_status_delay`), `buf` (the three buffer variables), `gp` (the IDs that write ID
collects), and the drive: `head`, `sec` (`current_sector`), `atrk` (`active_track`) and
`disk`. Three history variables record what properties compare with: `dirty`,
`timedOut`, `differs`.

A handler runs to completion within the port access that triggers it, so it is one
action: `ReceiveCommand` (first byte), `ReceiveParameter` (the last one runs the
handler), `TransferByte`, `fdc_read_status`, `ReadResult`, `Tick` (`z80_wait_states`),
`SwitchMotor`, `emulator_reset`, `ChangeDisk`. A transfer in progress is a record
(`Transfer`) that operators named after the C functions transform, and `Store` makes it
the next state; so the order of the code's assignments is kept although one action
does all of them.

Abstractions. Bytes of sectors are left out: what matters is *where* the next byte is
(`buf.ptr`, `buf.mem`), how a scanned byte compares, and whether data was modified. Byte
arithmetic is modulo `ByteMod` and sector sizes are `Unit * 2^N`. Pointers to freed or
missing memory are named (`own`, `mem`, `Nowhere`) instead of followed. A handler that
never returns, or divides by zero, leads to the phase `"DEAD"`. The four bytes of a
sector ID count as one step of write ID. Drive B never holds a disk, and the write
protection and flip attributes are never set by this program, so they are left out.

### FDCProtocol

Four variables: the mode, the bytes left in it, the result bytes owed, and whether a
command has been taken since the last reset, so that a command cannot end early under
the pretext of a reset. `FDC` implements it under the mapping `Mode`, `Left`, `Owed`,
`Fresh`; `Shapes` is the table of parameter and result counts.

### Tape

State: the image (`pbTapeImage`, `pbTapeImageEnd`), `pbTapeBlock` (as a byte offset `blk`,
with `live` telling whether it points into the present image), the stage and level,
the counters `dwTapePulseCycles`, `dwTapePulseCount`, `dwTapeDataCount`, the shift register,
the pulse table position, `iTapeCycleCount`, the play button and the motor. History:
`recorded` (the reference signal of the tape), `heard` (level and length of every
interval since the rewind), `elapsed` (cycles run), `lost`, and `finished`, which tells that it
was the running tape, not a hand or a reset, that released the play button last.

Blocks have byte lengths because three functions compute them separately
(`InsertSize`, `SkipSize`, `DoneSize`); the contents of a data block are bytes of
`ByteBits` bits. `Blocks` is the set of all blocks with the fields the format gives them, and
`Files` may be any set of sequences of them (`TapeAssumption`). `Signal` is a reference
definition of what is recorded on a tape, written block by block without stages.
`TapeSignal` lets the user press and release the button at any moment, but only `Finish`,
with the whole signal heard, may set `finished`: a player that stops by itself in mid tape
does not implement it. `Run(cost)` is the tape's part of
`z80_wait_states`, with the cost of the instruction as its argument. A step that reads
through a pointer into a freed image, or takes data for a block, sets `lost`, and
nothing is modelled after it. Lengths are fixed-point with `HalfWord` fractions and
products are taken modulo `HalfWord^2`, as `CYCLE_ADJUST` does with 2^16 and 2^32.
`tape_insert_voc` is called by nothing and is left out, and so is a file that fails to
be read half way.

### DiskControl

State: the fields of `dc_storage` that matter (`files`, `count`, `index`, `unit`,
`eject_state`), `driveA` as far as this component sees it (its file, whether its contents
differ from the file, `altered`), `savdif` (whose changes `savdif_name` is to hold), the
tape in memory, and `diffs` (the disks whose changes are saved, which outlives a
session). One action per call of the interface (`retro_set_eject_state`,
`retro_set_image_index`, `retro_add_image_index`, `retro_replace_image_index`, and
`RemoveImage` for its null argument), one per kind of content the core is loaded with,
`Unload` (`retro_deinit`) and `WriteDisk`. The front end obeys `libretro.h:2856` and 2869:
it selects, replaces and removes only with the tray open. The status becomes `"crashed"`
where the code follows a null pointer and `"overflow"` where it writes behind the list;
nothing is modelled after that. History: `written`, the disks the machine wrote to, and
`early`, which tells that an image was inserted while the tray was open (replacing the
selected image does, and a tape loaded as content never closes the tray).
Two images of the same base name share a file of changes; such lists are left out.

### CRTC and Interrupts

`CRTC` holds no variables: its operators, named after the functions of `crtc.c`, take
and return the record that `Interrupts` keeps as `crtc` (the fields of `t_CRTC`, the
interrupt counter `ga` and VSYNC delay `hs` of the gate array, the monitor's counts and
`z80.int_pending`). The boolean fields that steer the counters are members of
one set, `flags`. `crtc_cycle` composes the stages in the order of the C function, and
the two functions that act one and two characters after a line has begun are counters
(`instSL`, `instMR`) instead of function pointers. Register writes do at once what
`z80_OUT_handler` does at once (`WriteR4`, `WriteR7`, `WriteR9`).

`Interrupts` adds the processor. An instruction waits, acts on a port, waits again and
then looks at interrupts, as the macros of `z80.c` do; `cpu.todo` says what follows
after `cpu.wait` microseconds, and `Microsecond` is one turn of `z80_wait_states`. The
front end resumes the machine, or resets it, whenever a frame is shown.

Abstractions. What is drawn is left out, and with it the display addresses, colours and
modes. The monitor's flywheel, which adapts the length of its lines to HSYNC, is a
choice among the lengths `Beam`. The firmware's values are in the registers at once
after a reset. The vector of mode 2 does not change the modelled state. The record
also carries counters that only properties read: `steady` and `calm` (frames since the
registers, or the interrupt counter, were disturbed), the lines of the last frame and
of its VSYNC, and the interrupts raised between the last two VSYNCs.

### Memory

The record `cpc` holds the paging registers and pointers of `cap32.c` under their names,
`read` and `write` are `membank_read` and `membank_write`. `ga_memory_manager` fills them
in the code's order (RAM, lower ROM, register page, upper ROM), and the table of banks is
kept apart from the bank number (`table`, `RAM_bank`), because the code refills it only
when the number changes. `ModePort`, `RamPort`, `RomPort` and `RegisterPort` are the
handlers; `Build`, `emulator_reset` and `Restore` are a new configuration, a reset and a
snapshot that is loaded, replayed through the ports; two more actions are the two ways in
which a load fails half way.

Abstractions. Pages are names, RAM is counted in banks of 64 KB, and bytes are written
without the two bits that select the register behind the port. A byte sent to the lock
is its position in the unlock sequence. Behind the end of that table the code compares
with whatever follows it, so either outcome is possible (`beyond`). The Multiface is
unreachable (`CPC.mf2` is never set). History: `selected` and `mixed`, which say whether
a ROM has been selected since the reset and whether a snapshot has changed the model;
`heard`, the bytes of the key since the lock was synchronised; and the map that a
snapshot would bring back, kept with it.

### Input

State: `matrix` (the keys that are down), `events` (the three handler pointers as one
mode, as `ev_set` always sets them together), `typist` (`kbdauto.c` and the autorun
delay), `user` (keys and buttons that are held, `btnPAD`), `screen` (the virtual keyboard
with the pending click). `Run` is one call of `retro_run` in its order: the machine
sees the matrix for a frame, the handler in place reads the pads, the user interface
deals with the click of the frame before. Between two calls keys go up and down, and the
front end may reset, change options or insert a tape.

The history `seen` holds what the machine saw while a text was typed, whether anything
else touched the matrix (`alone`), and the keys whose release got lost (`left`). `Hosts`
bounds resets, changes of options and tapes. Combinations that do not reach the matrix,
the menu and the light guns are left out.

### DiskDiff and DiskStore

A track is its number of sectors, their IDs and flags (`info`), the size they are read with
(`real`) and their data; the file is a function on the places of the tracks that differ, each with a mark that its data
are cut short. `detach_disk`
writes it, `attach_disk` loads the image and applies it. `SaveFails` leaves any beginning of
the file, with its last track whole or torn: the old file is truncated before the new one is
written, and the result is ignored. `Lose` is a program that dies, or a disk that is
replaced without being detached.

`DiskStore` has the disk in the drive and the disk as it will be found (`kept`), with one
parameter, `Saved`: which tracks of a disk survive at all. `DiskDiff` defines `Saved` by the
cases listed in section 5 and implements `DiskStore` with `kept <- dsk_diff_load(diff, Image)`.

### AsicDMA

State: the channels (`asic.dma.ch`), the control register `dcsr`, the automatic clearing of
interrupts and `irq_cause`. One `asic_dma_cycle` runs all enabled channels in order, as in
every line of the screen whose HSYNC lasts at least three characters: `crtc.c:705` calls it
when HSYNC has counted three. A "line" of this module is such a line. Instructions are records, addresses count words. The
reference is not a machine: `Unrolled` writes a list out line by line with its loops
repeated, `Played` does so for every address and prescaler, and the history `seen` compares
this with what the sound chip gets. Only control instructions carry flags
(`ChannelAssumption`), as their opcodes are 4xxx.

## 3. The runs

| run | question | instance | distinct states |
|---|---|---|---|
| `fdc_control` | do phase, byte count and command stay consistent with invalid commands, both units, out-of-range cylinders, motor, resets and disk changes at any time? | 2 cylinders, 2 sectors | 592,000 |
| `fdc_transfers` | is the protocol of `FDCProtocol` kept through read, write, read track, scan and write ID, on a disk the host may eject | 2 cylinders, a disk with 2 sectors whose IDs have head 1 | 400,000 |
| `fdc_guest` | are results truthful, is every byte inside its sector, and do transfers end, with a CPU that is late at any byte? | weak, marked, foreign and missing sectors; EOT 1, 3 and 4; N 0 and 1 | 411,000 |
| `tape_player` | is exactly the recorded signal played, on time, to its end? | 4 tapes, all block types, one with an unsupported block | 27,000 |
| `disk_control` | do tray, selection and devices agree, and are written disks kept, under every legal order of calls? | a list of 3, two disks, a damaged one, a tape, a cartridge, an archive; playlists of 2 and 4 | 969,000 |
| `interrupts` | do frames, VSYNC and interrupts come as the registers ask, and does no frame and no HALT last for ever, with register writes, EI, DI and resets at any microsecond? | lines of 4 characters, frames of 10 lines, an interrupt every 6 | 332,000 |
| `memory` | do reads and writes go where the hardware's would, and do snapshots bring the map back? | a 664 and a Plus, 64 and 256 KB, a key of 3 bytes | 301,000 |
| `input` | do keys get stuck, is the text typed as written, and does the typist give the keyboard back? | three keys, two texts, two buttons, two assignments, one call of the front end | 555,000 |
| `disk_diff` | does a disk that is ejected and inserted again have what was written, with saves that fail anywhere? | 2 sides of 2 tracks, lengths 4, 6, 4 and not formatted | 77,000 |
| `asic_dma` | do the channels play their lists, name the right cause and stop? | two channels, two lists, 2 writes | 65,000 |
| `bug_altered`, `bug_cutoff` | expected violations, see section 5 | | |

The bounds: `ByteMod = 8` and up to 4 sectors are enough for R to wrap past EOT, for
a search to visit every sector twice and for a transfer to cross several sectors and
the end of a track; `OverrunTimeout = 1` gives the CPU four ticks for the first byte
and one for the others, so each byte can be late or not; `Args` offers matching and
missing IDs, EOT below, at and beyond the last sector. On the tape a byte has two
bits, a millisecond four cycles, and instructions take one or two cycles, so
intervals end in the middle of instructions; `HalfWord = 64` keeps the proportions of
the fixed-point scale. `IdleBound` bounds how far the cycle count is followed below
zero, which only happens when play is pressed at the end of a tape.

A list of three is the shortest in which removal in the middle, a duplicate before
the replaced entry and a stale pointer behind the last one differ. The two good disks
are interchangeable (`Symmetry`): the playlists are closed under exchanging them and the
run checks only invariants.

The widths of the CRTC's counters are constants: a frame of ten lines (two of them the
adjustment of register 5) in lines of four characters, two or three interrupts to a
frame, and VSYNC that can be switched off (register 7 out of reach) while the
monitor cuts frames off at `MaxVSync`. An instruction takes a microsecond, so every
character is a moment at which a register may change. `SlTop` bounds only what is counted
for the properties and for the raster interrupt, above every line of a frame.
The frequencies of the properties hold once three frames have passed undisturbed
(`steady`, `calm`), which the run does reach: their mutants break them.

In `memory` the byte values are one per case of the handlers: both ROMs on, the upper
one off, both off, of which the last two, once the lock is open, move the lower ROM or map the
register page; and a RAM configuration with all four quarters in the second expansion bank.
Two RAM sizes let the RAM shrink under a mapped bank. Theorems cover all other values.

In `input` one letter needs Shift, a text has it twice, and the texts hold all special
characters. The virtual keyboard offers Shift, which composes; `Hosts = 1` lets a
reset, option or tape restart or abandon a text once, at any frame of it, or give the fire
button the other of its two keys while it is held. The run starts with one of the two
assignments (`McInit`); the theorems cover all of them, and any number of calls.

In `disk_diff` the tracks are one that survives, one whose length differs from side 0, one
behind it, and one not formatted; a program may write or reformat each. In `asic_dma` a
list has a loop with a pause and an interrupt in it; the other a pause between two loads.
Two writes interrupt a list, or two, in every order.

`fdc_guest`, `interrupts`, `memory`, `input` and `disk_diff` check deadlock. In the other
runs the model stops on purpose: a
handler that does not return (`"DEAD"`), a lost player, a crash and an overflow are states
after which nothing is modelled, and channels that have all stopped wait for a program
that has used up `Writes`.

What the properties say, besides the type invariants:

- `ProtocolInv`: parameters never exceed the command, results never exceed the result
  buffer, only transfer commands execute, the scan flag lives only during a scan, the
  LED is off when the controller is idle;
- `ImplementsProtocol`: every step is a step of `FDCProtocol` or invisible to it;
- `OverrunReported`: a read that lost a byte to the timer, however early, says so;
- `NotFoundRewinds`: a missing sector, also the third of a multi-sector transfer, leaves the
  sector index at zero, and the result names one reason at most, bad or wrong cylinder;
- `EndReached`: End of Cylinder comes only with the last sector and without an error;
- `InTrack`, `WriteStaysInSector`: the next byte lies within the allocated track, and a
  byte written within the sector named by the command;
- `TransferEnds` (liveness): an execution phase ends;
- `PointersInImage`: the three size tables agree, and tables and data are read inside
  their block;
- `OnTime`: what was heard is never behind by a whole wait state: an interval starts at most
  one wait state late, two behind an interval of no length, and lateness does not add up;
- `ImplementsSignal`: stages, pauses, stops and starts never add, drop or change an
  interval, and the player releases the play button by itself only at the end (`finished`
  tells its release from the user's);
- `TapeEnds` (liveness): the play button comes up;
- `OpenIsEmpty`, `ClosedHoldsSelection`: an open tray leaves nothing in either device, a
  closed one has the selected image in the right one, although the unit is remembered
  separately from the list and read before it is changed;
- `WritesKept`: changes to a disk are in the drive and will be saved, or are saved and come
  back, across sessions;
- `FrameLength`, `VSyncLength`, `InterruptsPerFrame`: a frame has the lines, a VSYNC the
  lines and a VSYNC period the interrupts that the registers ask for, although requests
  pass through delayed functions and five flags and a counter is guarded by a margin;
- `FrameEnds` (liveness): `z80_execute` always finishes a frame, also without VSYNC, as long
  as the CRTC's lines are no longer than the monitor's (`bug_cutoff` and section 5 for those
  that are);
- `HaltWakes` (liveness): a halted processor with interrupts enabled, or with EI still to
  take effect, goes on if the registers give it interrupts at all;
- `WriteMapAgrees`, `ReadMapAgrees`: the map is what the hardware would show, stated from
  the registers alone, although handlers rewrite parts of it;
- `RamInMachine`: no mapped bank lies past the RAM, also when a load changes its size and fails;
- `OnlyPlusUnlocks`, `UnlockNeedsKey`: the lock opens only on a Plus and only after every
  byte of the sequence but the last, which is free in the code, has been sent;
- `SnapshotRestoresMap`: a snapshot of a CPC, loaded into the same CPC, brings back its map;
- `NoStuckKeys`: a key is down because somebody holds it or because its release got lost in
  one of five named ways;
- `TypedAsWritten`: while nothing else touches the matrix, the machine sees the text as
  it is written, equal letters apart;
- `TypingEnds` (liveness): the user gets the keyboard back;
- `ImplementsStore`: the file of changes keeps what `Saved` says, and a failure costs the
  tracks after it and tears one at most;
- `PlaysList`: every line brings what the list, written out, has there;
- `CausePending`: a vector that names a channel names one that has not been acknowledged;
- `ListsEnd` (liveness): the channels stop.

Fairness. `FairGuest` has weak fairness of `Tick` and of nothing else: the CPU need
never serve a transfer, but as long as the emulator runs it executes instructions,
and every instruction runs the timer. `FairSpec` of `Tape` has weak fairness of
`RunTape` for the same reason. It is written with the guard `CanRun` in place of
ENABLED, which TLC cannot evaluate in reasonable time for this action; the two agree
because every `RunTape` step changes a variable. The program need not switch the motor
on, nor the user press anything. `FairSpec` of `Interrupts` has weak fairness of
`Next`: some step is always possible, since the emulator waits for nothing, and which
instruction comes next is left open. `Spec` of `Input` has weak fairness of `Typing`,
the frames in which the typist is served: the front end calls `retro_run` for ever;
it promises nothing of the pads or of the user. `Spec` of `AsicDMA` has weak fairness of
`asic_dma_cycle`, which `crtc.c:705` calls in every line, at the third character of its HSYNC:
it assumes a program that keeps an HSYNC of at least three characters in its lines. One that
sets a shorter HSYNC, or none, stops the channels, and nothing is promised of it.

## 4. The proofs

Eight modules hold the proofs. `FDC_proofs` proves, for every value of the constants that satisfies
`SizeAssumption`, `TimeoutAssumption`, `GuestAssumption` and `DiskAssumption`:

- `ControlTypes`: `Spec => []ControlTypeOK`;
- `ProtocolSafe`: `Spec => []ProtocolInv`;
- `OverrunSafe`: `Spec => []OverrunReported`;
- `Implementation`: `Spec => Protocol!Spec`;
- `TypeCorrect`, `EndSafe`: `Spec => []TypeOK` and `Spec => []EndReached`;
- `NotFoundSafe`: `Spec => []NotFoundRewinds`, if no image has a sector that is itself stored
  with the bit No Data (`PlainImages`), which would be reported although nothing is missing;
- `InTrackSafe`, `WriteSafe`, `BufferSafe`: `PatientSpec => []P` for `InTrack`,
  `WriteStaysInSector` and `BufferLive` (a transfer never goes through a pointer to a freed
  track), if `LaidImages` and `Modest`.

The run `fdc_guest` begins with a disk in the drive; `Spec` begins without and reaches those
states by `ChangeDisk`.

`ProtocolInv` is not inductive alone: a step in the result phase relies on
`byte_count` being a number and on the result register being a record with its
fields, and `OverrunReported` speaks only of completed commands. The inductive
invariant is `IInv == ControlInv /\ OverrunInv`. `ControlInv` adds the types of the
control variables and the domain of `res`. `OverrunInv` adds what holds *during* a
transfer: a read that has timed out carries the OVERRUN flag, since only the end of
the transfer clears it.

The handlers are large, but the invariant needs little of them. Every operator that
transforms the transfer record gets a lemma `...Leads`, which says that it yields a
transfer record again, in an allowed phase and with the flags it may change
(`Leads`, `LeadsScan`, `LeadsRead`). They build up from `Finish` and `Fail` through
`StartRead`, the sector search and the `cmd_` functions to `Byte` and `Handle`. From those,
one lemma per action (`...Keeps`) proves that the invariant is preserved, and one
(`...Protocol`) that the action is a step of `FDCProtocol` or a stutter. The last steps
combine them with PTL.

The data come second. `DataInv` types the registers, the disk and the buffers, and says of a
write ID at work that it still gets as many bytes as IDs are missing from the new table
(`Collecting`); it goes through the same operators with lemmas `...Type`. The search over a
table, which is a function defined by recursion (`Searches`), keeps whatever its step keeps
(`SearchKeeps`). Two more invariants rest on it. `EndInv`: a read or a write at work has not set
EN, and a write no error at all; `DoneEnds` shows that what ends without an error ends at EOT.
`FindInv`: a command at work has not set ND; the search fails only with the index at zero
(`FindRewinds`), and a sector once found is found again (`FoundStays`), so that ND is not set
in the second look of a transfer that goes on.

Where the bytes of a transfer lie comes last, for the machines for which the code needs none of
the checks it lacks. `LaidImages`: a formatted track owns its data; each of its sectors, in all
its versions, lies in that data, is at least as long as its N says and has a number from 1 to
&FD; the rest of the table is blank. `Modest`: the program formats nothing, asks for no sector 0,
which a blank entry would answer, and for no transfer of length 0. `PatientSpec`: the host
resets at any time, but changes the disk between two transfers only. All three are needed:
a write to a sector shorter than its N goes on into the next one, and the rest of what leads out
of the track (a format, a transfer of length 0, a disk ejected in a transfer, a write that
reaches the end of the data) is in section 5. They hold of the instance of `fdc_guest`, whose
`GuestSpec` is a special case (`GuestIsPatient`). The inductive invariant is
`IInv /\ DataInv /\ InsideInv`. `InsideInv` says that the disk is still laid, that R and N of a
command come from `Args`, and of a transfer (`InTransfer`) that its pointer lies in the data of a
track and before their end. Of a write or a scan it says too that something is left to transfer
and ends before those data do; of a write, that it also ends before the sector its ID names;
of a search, that its R is a number a sector can have. The work is in what comes between two
sectors: a sector that is found lies in the track (`FindAt`), also after R has been counted on.

`Memory_proofs` proves, for every value of the constants of `Memory` (any RAM size, any bytes,
any length of the unlock sequence), all the properties that the run `memory` checks, and
the type invariant:

- `TypeCorrect`, `WritesGoWhereTheyShould`, `ReadsShowWhatTheyShould`, `MapInsideRam`,
  `CpcStaysLocked`: `Spec => []P` for `TypeOK`, `WriteMapAgrees`, `ReadMapAgrees`,
  `RamInMachine`, `OnlyPlusUnlocks`;
- `KeyIsNeeded`, `SnapshotsRestore`: the action properties `UnlockNeedsKey` and
  `SnapshotRestoresMap`.

None of them is inductive. The write map agrees with the registers only because the table of
banks was last filled for the bank the registers ask for, which depends on the RAM size;
the read map only because the pointers to the ROMs follow the registers. The
inductive invariant is `IInv == Safe(cpc) /\ SnapOK`, and `Safe` has six named parts: the
type `Machine`; `BankOK` (the table, the bank number and the registers agree); `PagesOK`
(the register page and the slot of the lower ROM are functions of the second mode
register, and a machine that is no Plus has never written it); `RomsOK` (the pointers are
those the registers name, unless a snapshot has changed the model); `MapOK` (the map is a
function of registers and pointers; after a reset the pointer to the upper ROM may be any);
and `LockOK` (every byte before the lock's position has been heard). `SnapOK` says that the
map kept as history is a function of the registers in the snapshot, which is why
replaying them is enough. One lemma per handler (`ModePortSafe`, `RamPortSafe`, `RomPortSafe`,
`RegisterPortSafe`, `ResetSafe`, `BuildSafe`, `RestoreSafe`) shows that it keeps `Safe`; the
lemmas `RemapOK` and `ManagerOK` do the memory manager once for all of them, and
`TableIsHardware` that the table of eight rows is the rule of the banking chip.

`DiskControl_proofs` proves, for lists of any length and any files that satisfy
`ListAssumption`, the four invariants of the run `disk_control`: `ListTypes` (`TypeOK`),
`TrayEmpties` (`OpenIsEmpty`), `TrayHolds` (`ClosedHoldsSelection`) and `NoWriteLost`
(`WritesKept`). They need each other, and four facts more, so that `IInv` is the conjunction of

- `OffOK`: nothing is in a device when the core is unloaded, so loading content loses nothing;
- `DriveOK`: `savdif_name` belongs to the disk in the drive, and a disk that is altered, or
  whose changes have been saved, differs from its file;
- `ClosedOK`: with the tray closed both devices are empty, or the selected image is one of
  the list, `unit` names its device and the other device is empty. This is what makes
  `get_image_unit` harmless, which returns the unit from before: opening the tray ejects by it;
- `SavedOK`, the core of `WritesKept`: an attach happens only with an empty drive, because
  an open tray leaves it empty.

There is one lemma per call (`OpenOK`, `CloseOK`, `SetIndexOK`, `AddOK`, `RemoveOK`, `ReplaceOK`, ...).

`DiskDiff_proofs` proves, for any image, geometry and point of failure, `TypeCorrect`
(`TypeOK`), `Refinement` (`Spec => ImplementsStore`) and `SizesOfOneSize` (if all formatted tracks
have sectors of one size, `SizesKept` of section 5 holds after all). The mapping of the
refinement reads the file back (`kept <- dsk_diff_load(diff, Image)`), so the step lemma is about
what a whole save and load does to a disk: `FitsWhen` says when a track is accepted, `KeptSaved`
that loading what was saved gives `Saved`, and `KeptBefore` and `KeptUpTo` what a file that
ends early gives. The type of the file, that no track follows a track that is cut, is what
keeps a torn track the last.

`Tape_proofs` proves, for any set of files, constants and costs, `TypeCorrect` (`TypeOK`) and
`Pointers` (`PointersInImage`), and under a hypothesis each `OnTimeSafe` (`OnTime`) and `Refinement`
(`Spec => ImplementsSignal`). All four come from one inductive invariant (`Invariance`): the
player is *detached* (no image), *stray* (lost at an unsupported block), *stopped* behind the last
block, or has *reached* interval k of block i, and then its counters are those of that
interval (`On`) and it has heard exactly the signal up to there. The argument has four layers:

- a block has an offset, and the three size tables find the next one from it (`SizesAgree`,
  `BlockHere`, `NextBlock`);
- what is recorded on a block is its parts one after the other, each of known length
  (`RecordedIs`, `PartsOf`), and the signal is the blocks one after the other (`FlattenLays`, `SignalIs`);
- a step of the player goes from interval k to k + 1 of a block (`PilotStep`, `TableStep`, `BitStep`,
  `SampleStep`, `PauseStep`) or finds the first interval of a later one (`NextBlock`, `BlockDone`), and
  plays the level and length recorded there; only where there is no later block does it release
  the button, which is where `TapeSignal` allows `finished` to be set;
- the cycles that have run are the sum of the lengths heard less what is left of the last
  (`DurationIs`, `Timed`).

The hypotheses are `PilotsSound`, that no pilot tone has zero pulses (the code's counter would wrap,
see `PlaysRecorded` in section 5), and for `OnTime` also `Unhurried`, that no pulse or sample is shorter
than the longest wait state, since only one interval ends per wait state. Both are true of the
files and costs of the run `tape_player`, and `Unhurried` of recorded tapes: their pulses take
hundreds of cycles.

`Input_proofs` proves `InputTypes` (`TypeOK`) and `KeysReleased` (`NoStuckKeys`) for any table of
characters, texts, assignments and virtual keyboard that satisfy `KeyAssumption` and
`BoundAssumption`. `NoStuckKeys` is inductive but for the types: `IInv` says of the record
`Now`, which the handlers transform, that it is one of `States` and that `matrix` is within `Held`,
the keys that somebody is to release. A handler is not one step of the specification but a
function that is composed with others inside `Run`, so there is one lemma per handler, which
says that it keeps `OK` for *any* record (`UpdateOK` for one step of the typist, `AutorunOK`,
`ButtonsOK`, `CombinationOK`, `ClickOK`, ...), and the lemmas of the actions compose them.
The type of the typist carries the one fact that is not a type: while `old` is set, the
cursor is on a character with keys, not on a sign or past the end of a shorter text. Without it a
release would lift other keys than were pressed.

`TypingSafe` (`TypedAsWritten`) needs a second invariant, as what the machine sees in a frame depends
on the frame before. `Ready` holds when the machine has just looked: the matrix is what
the typist presses, and what was seen is what is written (`Written`) up to the cursor. `Faithful` holds
before it looks: looking would make it so. Every step of the typist takes `Ready` to
`Faithful`, and the look takes `Faithful` to `Ready` (lemmas `...Faithful`). It takes that every
character has a key besides Shift (`KeyAssumption`): a character made of Shift alone would not be
seen.

`AsicDMA_proofs` proves `ChannelTypes` (`TypeOK`), `VectorsTrue` (`CausePending`) and `ListsPlayed`
(`PlaysList`) for any memory, lists, registers and number of writes (`ChannelAssumption`), the
last also from `ListAssumption`, that every address has a STOP at or after it. A vector is right only
because cause and interrupt flags change together, in a channel's line and in the program's
acknowledgement alike, and because a reset or a rewritten register leaves both alone; so
`IInv` couples them (`Pending`), and the predicate `Line` is kept through the lines of the
three channels one after the other (`LineOK`). Addresses take the arithmetic of their
two halves (`WrittenInWords`, `AdvanceInWords`): a channel may be moved in the middle of its list.

`ListsPlayed` compares a machine with counters to a list written out, and neither has the
other's state. Its invariant `LInv` says that what a channel still has to bring is the rest of
its pause, then what the list brings after k lines (`Left`), where k lines lead to the place
of the channel (`Positioned`). A place is the next instruction together with one of two
situations: going through the list for the first time, with the counter of the loop that is open,
if any (`Passing`), or in the q-th repetition of a body, with the counter lowered by q
(`Repeating`). The argument has four layers:

- the recursion of `Unrolled` exists and goes through stages that only append (`UnrolledIs`,
  `StagesRemain`), which gives a table of the line where each instruction is and says what the
  copies of a body bring (`PlanIs`, `BodyLines`);
- in a place, the lines of the next instruction are next in the list, and STOP brings the last
  (`Brings`);
- an instruction leads from a place to a place, as many lines on as it brings (`Moves`, with one
  lemma each for going on, for a loop that goes back and for what is inside it);
- a pause has as many lines left as `Rest` says (`PauseIs`, `ExecuteRest`), so that each line of a
  channel takes one element off what is left (`PauseLeft`, `ExecuteLeft`).

Registers that the program writes start a new list from whatever pause and counter are left
(`BeginTold`); the control register leaves every place alone (`SameLeft`).

`Interrupts_proofs` proves, for any widths of the counters, registers, programs and monitor
(`InstructionAssumption`, `RegisterAssumption`, and the assumption on the widths in `CRTC`):

- `CountersBounded`: `Spec => []TypeOK`;
- `FramesHaveTheirLines`: `Spec => [](Proper(crtc.R) => FrameLength)`;
- `VSyncHasItsLines`: `Spec => [](Proper(crtc.R) /\ Fits(crtc.R) => VSyncLength)`;
- `InterruptsCounted`: `Spec => []InterruptsPerFrame` while the registers are also `Brief` and
  the gate array has taken the VSYNC of the present frame (`Done(crtc) >= Begin(crtc.R) + 2`).

The last three need `LineMod > 2`. The registers change in the course of a behaviour, so what
they must be is said of the present ones; the firmware's values on a real machine (64
characters, 39 lines of 8, VSYNC at line 30 for 8 or 16 lines, HSYNC of 14 characters at 46) satisfy all
of it, and so do those of the run `interrupts`. `Proper`: lines of three characters or more,
registers within their widths, and no adjustment of a frame that is a single line. `Fits`:
register 7 names a line of the frame, as many lines after its start as a VSYNC may have or more,
and the frame has room for the VSYNC. `Brief`: HSYNC ends in its line, after the first
character, and two of them come between the start of VSYNC and the end of the frame. TLC shows
that they are needed: lines of two characters leave no time for the second delayed function, with
registers 4 and 9 at 0 the adjustment meets the last line again, and a VSYNC that began before
a register was written may last into a frame whose own VSYNC begins at once. The line
of the last hypothesis is needed too. A program that starts a VSYNC by hand in the last line
of a frame and ends the line with two writes to register 9 leaves a request for the
adjustment behind; the next frame is short, contains a VSYNC all the same, and the count
from there is only replaced at the VSYNC of the third frame.

For `CountersBounded`: counters that are compared for equality only, such as the gate array's with
`IntLines`, run away as soon as one step skips the value; that none does needs the order of the
stages of `crtc_cycle`. Each stage has a lemma that it keeps the record in `Counters` and
does not begin a line (`Keeps`), so that the mark for it (`newscan`), which is set and used
within one microsecond, never survives it.

For the lengths, each stage has a second lemma that says exactly what it makes of the fields and
flags (`CharCounted`, `LineEnded`, `Delayed`, `ScanStarted`, `FrameRestarted`, `RasterCounted`,
`RasterWatched`, `Adjusted`, `LineCounted`, `ScanEnded`); `WithinLine` and `LineScanned` compose
them for a microsecond within a line and for one that begins a line. The inductive invariant is
`IInv /\ TimedInv /\ PacedInv`:

- `Framed`, of a frame after the first restart: what the delayed functions have still to do is
  given by the place in the line (`Aligned`), and from the second restart on the requests are given
  by the place in the frame, in the character lines (`Regular`) or in the adjustment
  (`Adjusting`); the lines counted are the number of the character line times the lines each
  has, plus the raster line. So the request to restart comes after exactly `Lines(R)` lines.
- `Synced`: the comparison with register 7 agrees with the counters (`Right`), and VSYNC is at its
  place (`InPlace`): on from line `Begin(R)` for `VSyncLines(R)` lines with its width counted
  from 0, off elsewhere, but for a VSYNC from before, whose width has `Left` lines to go, which
  end before the place.
- `Paced`: the ASIC's scan line is the line of the frame, HSYNC is at its place in the line
  (`InLine`) or, in the first lines of the first steady frame, will be there before
  `SyncMod` lines are over (`Astray`), and then `Counting`: the delay of VSYNC, the counter of the gate
  array and the interrupts so far are functions of the lines since VSYNC was taken (`Since`,
  `Raised`).

A register write and a reset set `steady` back (`Disturbed`), and every other step leaves the timing
alone (`Effects`, `GateEffects`). Two lemmas do the arithmetic: `DivStep`, the successor of a
number divided by 52, and `OneMoreRaised`, that one more line raises one interrupt more exactly
where the gate array raises it.

Recursion. The induction theorems of the library take an operator as a parameter, which the
provers cannot instantiate. Where a proof needs induction it uses the form with sets (lemma
`Induction`, from the well-foundedness of the naturals), and where it needs that a recursively
defined function exists, the lemma `Recursion`. Sums and concatenations are therefore written
as recursive functions over an initial segment of the naturals, not with the folds of the
community modules, whose arguments are operators.

Model-checked only:

- `InTrack` and `WriteStaysInSector` of `FDC` outside the hypotheses above are false, not open;
  every one of the three counts for the code, not for the proof;
- `InterruptsPerFrame` at the start of a frame whose VSYNC has not been taken yet: true of the
  instance of `interrupts`, false in general as told above;
- all liveness properties, as the prover has no fairness.

## 5. Where the code and its documentation disagree

Two of these have a run that expects the violation:

| run | the source says | the code does |
|---|---|---|
| `bug_altered` | `fdc.c:606`: "indicate that the image has been modified" | a multi-sector write whose next sector is missing leaves `altered` clear, and the data is lost on eject |
| `bug_cutoff` | `crtc.c:1386`: "above maximum scanline count?" | the count is compared for equality, at the ends of CRTC lines only: with lines longer than the monitor's and no VSYNC it steps over the limit, and the frame never ends |

The next have a property in their module but no run. To see the violation, give the
property to TLC on the instance named, in place of the properties of that run:

| property | instance | the source says | the code does |
|---|---|---|---|
| `OnlyRealOverruns` (invariant) | `bug_altered` with `Opcodes <- ReadAndWrite`, `Args <- Narrow` | `cap32.h:112`, OVERRUN_flag: "data transfer timed out" | a write that timed out leaves the flag set, and the next read, served in time, reports Overrun |
| `ScanCompares` (invariant) | `bug_altered` with `Opcodes <- JustScan`, `Args <- Narrow` | `fdc.c:520`: "reset Scan Equal Hit" | the command code is masked to 5 bits and compared with 7-bit codes, so no scan ever compares |
| `BufferLive` (invariant) | `bug_altered` with `Opcodes <- JustRead`, `Args <- Narrow`, `SPECIFICATION Spec` | `fdc.c:297`: "pointer to sector data" | a disk ejected during a transfer is freed under the transfer |
| `PauseOpposite` (invariant) | `tape_player` with `Files <- OnlySpeech` | `tape.c:260`, 572: "start with a 1ms level opposite to the one last played" | a pause after a direct recording keeps the last sample's level |
| `PlaysRecorded` (invariant) | `tape_player` with `Files <- EmptyTone` | `tape.c:377`: "is the pilot tone still playing?" | a count of 0 wraps to 2^32 - 1 |
| `RemovalKeepsSelection` (property) | `disk_control` | `libretro.h:2877`: "Index 1 will be removed, and the new index is 3." | removing an image shifts the list but never the index |
| `RomSurvives` (property) | `memory` | `slots.c:203`: "upper ROM number" | on a Plus the saved number is a cartridge page, and replaying page 3 through the port selects page 1 |
| `SizesKept` (invariant) | `disk_diff` with `Image <- MixedImage`, `Stale = 1` | `slots.c:732`: "sector size in bytes", "weak sectors support" | the size comes from the buffer of the last track that was loaded, so sectors get weak versions they do not have, or lose them; with sectors of one size it holds (`SizesOfOneSize`) |

Others are in the model, or next to it, without a property.

Floppy controller, tape and disk control:

- an overrun of a write is never reported (`fdc.c:512` sets the timer, nothing tests the flag);
- the wrap at the end of a track is `>` for writes and `>=` for reads (547, 667), so a write
  that does not stop at a sector end may write one byte behind the track;
- a scan keeps STP = 0 although the controller has only 1 and 2 (1054), and then never advances;
- write ID takes the sector count unchecked (578), leaves `size` and `weak_versions` of
  new sectors at 0 so that the next read divides by zero (581, 189), and keeps a
  dangling data pointer when the new track does not fit (573);
- `find_sector` compares a stale table entry before it checks the range (236);
- `&= 0x40` in two conditions drops the data error bit of ST2 (324, 340);
- a transfer of length 0 (N = 0, DTL = 0) counts below zero and lasts 2^32 bytes (550, 670);
- `CYCLE_ADJUST` (`tape.c:50`) multiplies in 32 bits, so lengths above 57343 become very short;
- replacing any image but the last crashes in the search for duplicates, which meets the
  null pointer of the replaced entry itself (`retro_disk_control.c:558`);
- replacing the selected image inserts it with the tray open (234); closing the tray then
  loads it again without saving what was written in between; this is what `early` excludes
  from `WritesKept`;
- the image list accepts an entry more than it can hold (254);
- the index for "no disk" that `libretro.h:2857` describes is refused (203);
- after loading a tape as content the tray counts as open, although "the initial state is
  'not ejected'" (164);
- ejecting a tape does not release play and leaves `pbTapeBlock` dangling
  (`slots.c:1074`); rewinding after it reads a null pointer; a refused file does the
  same (`slots.c:1197`).

Timing and interrupts:

- the raster interrupt of the ASIC is tested in the ELSE of the gate array's count of 52
  (`crtc.c:684`), so it is lost on the lines where that counter wraps;
- a reset in the middle of an HSYNC leaves `inHSYNC`, which is not a field of `t_CRTC`.

Memory:

- a reset clears the number of the upper ROM but not `pbExpansionROM` (`cap32.c:1172`), and
  shows BASIC directly (1207): the next write to the mode port brings the old ROM back; this is
  what `selected` excludes from `ReadMapAgrees`;
- the position in the unlock sequence runs past the end of its table (`asic.c:101`), and the
  next byte is compared with what lies behind;
- a byte that does not match leaves the position where it is, and the last byte is free (109),
  so the sequence that locks is followed by any byte that unlocks again;
- `slots.c:135` compares the size of a snapshot in bytes with a RAM size in kilobytes;
- the model is changed after the ports have been replayed on the old model, so that ROM
  pointers and lock are those of another machine (`mixed`);
- a snapshot of a Plus loads the built-in cartridge over the one in use (`cap32.c:1095`);
- the second mode register, the lock and the register page are not in snapshots.

Keyboard:

- F9 ends automatic typing with a key pressed (`retro_events.c:768`); the release of a key
  is ignored while another handler is in place (`_ev_key_null`); a text fed in the middle of a
  character forgets its key (`kbdauto.c:523`); the assignment of buttons changes under
  buttons that are held (`libretro-core.c:871`); a click that begins before the last has ended
  overwrites `last_key` (`retro_keyboard.c:256`). These are the five ways of `NoStuckKeys`;
- a composed Shift is released before the key that it is for is pressed (`retro_keyboard.c:273`);
- with autorun on, any change of an option types again, in the middle of a game
  (`libretro-core.c:884`);
- a fed text is copied without a bound (`kbdauto.c:521`), and a character without a key
  indexes the table with -1 (554).

File of changes; these cases make up `Saved`:

- a track that was formatted with another number of sectors ends the load there, silently, and
  the next save is made from what was loaded, so the tracks behind it are lost for good
  (`slots.c:709`);
- the size table is read without the side (695), and sizes that are no multiple of 256 are
  rounded when written and when read (582, 695);
- the request for random data errors is kept in the number of sides, and a header with it
  is refused (671);
- a track whose IDs or flags alone have changed is not saved (550);
- after a write ID that frees a track or shrinks it, `dsk_diff` reads freed memory or past
  its end; the model stops short of this.

DMA channels:

- an interrupt of a channel never reaches the processor: `int_pending` is not set
  (`asic.c:188`), although the comment at 133 asks for it;
- STOP leaves the enable bit in the control register (197), acknowledging leaves the interrupt
  bits (507), and the acknowledge bits are in the order opposite to the documented one (500,
  482);
- the interrupt bits of all other channels are cleared, or all of them: a complement is
  missing (255);
- acknowledging one channel makes the cause a raster interrupt though another is pending
  (501), and a raster interrupt that comes while a cause is set is reported as the channel's (245);
- a pause and a loop counter survive the writing of a new address (`PlaysList` takes them into
  account).

## 6. What is left

The plan of this project has been carried out as far as the list below. What a next
step would add, in this order:

1. The rest of a snapshot: whether saving and loading is the identity on the devices. The PPI's
   ports are written before its control register clears them (`slots.c:213`), HALT and a
   pending EI are not saved; a model would list some eighty fields to say so.
2. `TransferEnds`' safety core: a byte count that never rises within a sector.

## 7. Not modelled, and why

- The instruction set of the Z80: data processing, one instruction at a time; a model
  would transliterate the tables of `z80.c`. What it does to the devices, the order of waiting,
  port access and interrupt, is in `Interrupts`.
- The PSG and the sound mixers, the renderers, sprites, palettes, pixel conversion and
  back ends: they turn state into samples or pixels and change nothing that others read.
- PPI, printer and palette ports: they store a byte each.
- Parsers of disk images, cartridges and VOC files, the catalogue scanner, the detection of
  loaders and formats, the game database: functions from a file to a table, without a state
  that outlives the call. Their inputs are files, whose bytes a small instance cannot
  cover, and they have no interleaving.
- Light guns: comparisons of pixels.
- `libretro-common`, `microui`, ROMs, pictures and fonts: vendored code and data. They make up
  most of the lines of the repository.
- Unit tests, tools and build files.
