# GBoy: specifications and proofs

TLA+ specifications of GBoy, a Game Boy emulator in C with SDL3 (`src/`), the
TLC runs that check them and the proofs that TLAPS checks. Paths below are those
of the repository; a name with a line is the code a definition translates, and
`PROJECT.json` gives the lines for every definition (`map`).

Contents: 1 inventory, 2 modules and correspondence, 3 runs, 4 fairness,
5 proofs, 6 findings, 7 what is not modelled, 8 plan.

## 1. Inventory

The program has two threads. The **UI thread** is `main`: it polls SDL events,
dispatches them to window handlers (key presses call the API of `gboy.h`), and
calls `renderer_update`, which runs the registered callbacks (`window_update`,
`debugger_update`). The **emulation thread** is created by `gboy_poweron` and
runs `emulation_loop`: one CPU cycle, four PPU cycles and a snapshot for the
debugger per turn, under `emulation_mutex`, then a busy wait.

| component | state it keeps | operations | what makes it correct |
|---|---|---|---|
| control, `gboy.c` | active flag, clock speed, pending steps, thread handle, mutex, condition | `gboy_init/cleanup/poweron/poweroff/step/set_clock_speed/get_clock_speed`, `load_rom`, `eject_cart`, `emulation_loop` | one thread, no lost wake-up, power off returns, teardown only without a thread, a paused emulator runs only the steps it was given |
| pacing, `gboy.c` | target, increment, remainder, accumulator | part of `emulation_loop` | no drift, never ahead of the clock, a pause is not made up for |
| LCD, `lcd.c` | three frames, three indices, stale flag, `data_mutex` | `lcd_write_pixel`, `lcd_frame_complete`, `lcd_request_draw_buffer` | a buffer has one owner, only whole frames are shown, newest frame wins |
| renderer, `display/renderer.c` | five callback slots, leader, mutex | register, deregister, enable, set leader, update | callbacks of the copied list, no lock held while calling back |
| debugger, `debugger.c` | window, mode and its dirty flag, slots and their dirty flags, two read/write locks | open, close, update (UI), update_slot_values (emulation), keys | locks live while used, every changed slot is drawn once, keys do to the clock speed what they say |
| PPU, `ppu/` | registers copied from the MMU, mode in STAT, dot count, selected objects, two pixel FIFOs, fetcher | `ppu_execute`, one dot | 154 lines a frame, 160 pixels a line in order, ten objects sorted by x, stalls end |
| FIFO, `utility/fifo.c` | ring buffer | push, pop, peek, ranges, overwrite, drop | a bounded queue |
| MMU, `memory/mmu.c` | VRAM, OAM, work RAM banks, registers, cartridge pointer | `mmu_read`, `mmu_write`, load and eject | every address has one region, VRAM and OAM locked to the CPU in their modes, register masks |
| CPU and ALU, `cpu/` | registers, sticky status | `cpu_execute`, one opcode per cycle | 8 and 16 bit arithmetic with flags, stack discipline, an error is reported for ever |
| cartridge, `memory/cartridge/` | ROM, RAM, bank registers, paths | create, read, write, save, free; MBC1 and the discrete decoder | addresses stay inside the arrays, what was taken is freed on every failure, RAM survives |
| events and windows, `events/`, `display/window.c` | ten registered windows | register, poll, dispatch, convert | an event reaches the window it names, if that still exists |
| textures, text boxes, key codes, assets, logger | SDL objects and tables | | wrappers, no logic of their own |

**Interactions.** The UI thread changes the emulation thread's state only through
`gboy.h`, under the recursive `emulation_mutex`; steps and resumes signal
`emulation_step_condition`. A CPU error makes the emulation thread a caller of
the same API. The two threads meet again in the LCD buffers (atomics above a
speed boundary, `data_mutex` below it, and `gboy_get_clock_speed`, which both
call first) and in the debugger's slots. Locks nest in the order emulation, then
LCD, renderer, debugger; `renderer_update` releases its mutex before it calls back.

**Hard behaviours.** A signal for a thread that is not waiting; a power off that
joins a thread which may be waiting, spinning or failing; a speed that moves
between the test that chooses a path and the access it protects; two swaps of
one index at the same time; rounding that adds up; windows that close inside
their own handlers; cartridge creation that fails half-way. `PROJECT.json` lists
them at their lines under `hazards`, with the property that catches each or the
reason none does.

## 2. Modules

| module | contents |
|---|---|
| `Stepper` | abstract: what `gboy.h` promises of an emulator, without its thread |
| `Gboy` | control of the emulation thread; `GboyInv` its inductive invariant, `MCGboy` the TLC instance, `GboyProofs` the proofs |
| `Lcd` | the frame buffers and `window_update`; `LcdInv`, `MCLcd` likewise; proofs in `DisplayProofs` |
| `Pacing` | time in `emulation_loop`; `MCPacing`, `PacingProofs` |
| `Ppu` | the pixel processing unit with its fetcher, dot by dot; `PpuInv`, `MCPpu`, `PpuProofs` |
| `Queue` | abstract: a bounded sequence of bytes, what `utility/fifo.h` promises |
| `Fifo` | the ring buffer of `utility/fifo.c`; `MCFifo`, `FifoProofs` |
| `Debugger` | the debugger between the two threads; `MCDebugger` (with a history), `DebuggerInv`, `DebuggerProofs` |
| `Ui` | the main loop, events, windows, text boxes, render callbacks, and what the machine and the debugger acquire from them; `UiInv`, `MCUi`; proofs in `DisplayProofs` |
| `Mbc` | the two bank controllers, as operators on a record |
| `Mmu` | the memory management unit over `Mbc`, as operators on a record |
| `Memory` | `Mmu` with the cartridge, its files and the failures of every call; `MCMemory` (with the history), `MemoryInv`, `MemoryProofs` |
| `Alu` | the functions of `alu.c`, without state |
| `Cpu` | the instructions over `Alu`; `CpuInv`, `MCCpu`, `CpuProofs` (of `Alu` and `Cpu`) |

**Gboy.** Variables are the fields of `m_ctx` (`gboy.c:30-50`), `phase` (where each
emulation thread is in its loop), `call`/`joinee`/`cleaning` (where each caller is
inside `gboy_poweroff` or `gboy_cleanup`), `cpuFailed` (`m_status` of `cpu.c`) and
a cycle counter. A critical section that cannot block is one action, because all
it touches is guarded by `emulation_mutex`; the mutex is recursive, so nested
calls belong to the action of the outer call. `gboy_poweroff` is three steps: the
section (`PowerOff`), reading the handle after the unlock (`BeginJoin`), and the
return of `SDL_WaitThread` (`Join`). The wait is `Wait` and `SpuriousWake`; what
happens after it is decided by `Exit` and `Cycle`. Once a thread is in the
`if (clock_speed == 0)` branch a resume does not take it out, which
`InPauseBranch` expresses. Refused calls have no action: they change nothing.
`SDL_SignalCondition`, `SDL_WaitCondition` and `SDL_WaitThread` are modelled from
their use and marked external.

**Stepper** has a power flag, a speed, tokens, the failure flag and the cycle
counter. `Gboy` implements it with the mapping in `Abstract`: the threads, the
condition and the joins disappear. It says that without a token no cycle of a
paused emulator runs, none runs with the power off, and an emulator that may run
does.

**Lcd.** A pixel holds the number of the frame that wrote it. `lcd_write_pixel` is
`BeginPixel` (choice of the path, lock) and `StorePixel`; `lcd_frame_complete` is
`CompleteFrame` (the exchange) and `MarkFresh` (the store of the flag);
`lcd_request_draw_buffer` is `Request`, then `CheckStale`, `TakeReady`, `MarkStale`
on the normal path or `LockForCopy`, `CopyPixel`, `EndCopy` on the debug path;
`Decide`, `DrawPixel` and `Present` are the rest of `window_update`. The emulation
thread holds `emulation_mutex` from `BeginCycle` to `EndCycle`, so
`gboy_get_clock_speed` of the UI thread (`Request`, `Decide`) and
`gboy_set_clock_speed` need the emulation thread at `free`. The value the atomic
exchange returns is stored into `write_index` in the same action: the UI thread
does not read `write_index` on the path on which it may run in between.

**Pacing.** The locals of `emulation_loop` and the performance counter. `Execute`
is one turn under the mutex, `Advance` the new target, `Spin` the end of the busy
loop; a thread may be late by any amount at every point. Three history variables
remember the target, the accumulator and the number of cycles since the speed
last changed.

**Ppu.** One action of `Dot` is one call of `ppu_execute`: the modes are split by
what the call does (`HBlankWait`/`HBlankEnd`, `VBlankWait`/`VBlankLine`/`VBlankEnd`,
`OamFetch`/`OamSelect`, `Draw`). `draw()` is `Drawn`, the composition of its stages
in the order of the code: objects (`ObjStage`), which may return early, the change
between background and window (`WindowStage`), the pixel (`PixelStage`), the fetch
(`BkgStage`). `regs`, `ly`, `mode`, `lycEq` are registers in `m_io`, which
`fetch_registers` and `write_registers` copy on every dot; `scan` and `draw` are
the structures of `m_ctx` of that name, `draw` with the fetcher and both FIFOs.
The FIFOs are sequences here, which `Fifo` justifies. The CPU writes registers and
object memory between any two dots; the code lets it do so between every fourth
and fifth, so the model has all its behaviours. Colours, palettes, scrolling (SCX,
SCY), the map and data addresses but for an object's row, and the
store of `fetcher_x` in `switch_mode`, which the reset of `draw` overwrites, are left
out. A pixel takes three bytes (`PixelBytes`), the size of the packed
structure. `raster`, `firstFrame` and `elapsed` are history: how many pixels of the frame
were written, whether it is the first one since the start, which begins in the horizontal
blank of line 0, and the dots of the line. The CPU does not write LY and the
mode bits of STAT: `hw_registers.h:134-135` calls them read-only, though
`mmu_io_write` stores whatever it is given.

**Fifo.** The three pointers are positions in the buffer. Each function of `fifo.c`
is an operator on a FIFO and an action; `fifo_pop`, `fifo_pop_range` call their
peek and `fifo_drop`, which `take` expresses. The contents between the two
positions, oldest first, are the queue of `Queue`; the return codes and the bytes
handed out are the same variables in both.

**Debugger.** One variable per field that both threads touch, and a program counter
for each thread (`emu`, `ui`). The emulation thread's part of `debugger_update_slot_values`
is `EmuAsk` (is it open), `EmuLockMode`, `EmuReadMode`, `EmuLockSlots`, `EmuStore`: the
UI thread may act between any two of them. On the UI thread `debugger_open` is
`OpenLocks` to `OpenRegister` with a failure at each step that leads to `Cleanup`;
`debugger_update` is `FetchMode`, `ClearModeDirty`, `CopySlots`, `DrawSections`, one
action for each of its critical sections; a mode key of a paused machine (`PressMode`,
`AskSpeed`) goes on through `UiStore` to the same update. What the registers hold is
`Reading(mode, cycles, slot)`, so that a text tells which mode and which cycle it is
from. `MCDebugger` remembers in `closed` that the window the emulation thread saw has
been destroyed since. `Play`, `Pause`, `StepKey`, `Faster`, `SpeedKey` are the keys as they act on
clock speed and steps. The control of the emulation thread is reduced to these two
numbers; `Gboy` has the rest. The keys of the machine's own window are in `Ui`.

**Ui.** Everything on the UI thread runs to completion, so one record `app` holds the
state of all modules, each C function is an operator on it, and an action is `Startup`,
`PollEvent` (one event with all its handlers), `RendererUpdate` or `Cleanup` of `main.c`.
`Post` queues an event, also for a window that is about to be destroyed.
The systems of SDL count references: `video` and `ttf` are what is referred to (`refs`) and,
as history, how many of these nobody will give back (`lost`). The parameter
`fail` names the one call that fails. A use of a destroyed window or text box, which
would be undefined in C, sets `bad`. The specification is `MainSpec`: `DisplayProofs`
extends `Lcd` as well, whose own is called `Spec`.

**Mbc, Mmu, Memory.** A byte is tagged with where it comes from (`"rom"`, `"value"`,
`"boot"`, `"junk"` for memory that nothing initialised), which tells apart all that a
wrong translation could confuse. Memories are functions on the few offsets that the
instance uses, with the sizes and the boundaries of the hardware. An MBC1 mask is a
remainder, because the numbers of banks are powers of two. `MmuWrite` is the set of
outcomes of a write: one, but for a write behind the last bank of the work RAM
(`BehindWram`), which may land in any memory. `LoadRom(f, fail)` is
`gboy_load_rom` with the whole of `cartridge_create` and `mbc_create`; `heap` counts
what is allocated, `ptr` says what a pointer leads to. `cartridge_save` is `SaveBegin`, which
copies the RAM and opens the file and so empties it, `SaveWrite`, which writes up to the
next place where writing may be interrupted (`TornLengths` and the end), and `SaveEnd`, a
success only if every byte was written; `saving` is the copy in between. The copy itself is
one step: `mbc_dump_ram` takes no lock, and only a test calls `cartridge_save`, so that
whoever does must hold the machine while it copies. `Restart` is the end of the program at
any moment, in the middle of a save, too. Only the program writes the files of its saves. `ControllerWrite` is
`cartridge_write` on the bank registers: no bus reaches them (finding list, section 6).

**Alu, Cpu.** `Alu` translates `alu.c` function by function. A step of `Cpu` is one
`cpu_execute`; its instruction is taken from `Program[k]`, a set, so that one run has
very many programs. The families of handlers that differ in a register only are one
operator (`IncDec8`, `Accumulate`, `Rotate`, ...), chosen by `Perform` and `Prefixed`
from the opcode as the two tables do; `Perform` leaves the arithmetic and logic to `Compute`
and the moves of bytes to `Load`.

## 3. Runs

| run | instance | shows |
|---|---|---|
| `gboy` | one caller, two thread identities, speeds 0, 1, 2, three pending steps | `TypeOK` (the step counter does not wrap), `OneThread`, `NoMissedWakeup`, `SafeTeardown`, the invariant `Inv`, `PowerOffReturns`, `ImplementsStepper` |
| `gboy_error` | the same | `ErrorLocksUp` is violated (finding 1) |
| `lcd` | two pixels, three frames, speeds 0, 1, 2, 3 around and at a boundary of 2 | `BuffersDistinct`, `NoDataRace`, the invariant `Inv`, `NormalFrameIsWhole` (with the history variable `slowed` of `MCLcd`), `StreamedFrameIsDrawn` (but for one case at exactly the boundary) |
| `lcd_race` | the same, speed above the boundary throughout | `FrameNeverRegresses` is violated (finding 2) |
| `pacing` | frequency 5, speeds that divide it, do not, and exceed it, 12 ticks | `Inv`, `NoDrift`, `NeverEarly` |
| `ppu` | tiles of two pixels, fetches of two steps, lines of five pixels and 32 dots, two visible lines of four, four objects of which two fit; three object memories; the window switched and moved (columns 0 and 3) up to dot 16 of a line | the invariant `Inv`, `BkgFifoInOrder`, `LayerAligned`, `PixelsInPlace`, `FramesAreWhole` (all but the first), `SelectionLacksEntryZero`, `AllObjsFetched`, `LineTakesLineDots`, `FramesComplete` |
| `ppu_objects` | the same, the objects switched instead of the window | `AllObjsFetched` is violated (finding 3) |
| `fifo` | capacity 3, two byte values, arrays of up to five bytes | `Inv`, `ImplementsQueue` |
| `debugger` | two modes of three and two slots in two and one sections, two cycles, speeds 0 to 2, one pending step | `TextIsFresh` (no store is lost), `LocksLastWhileOpen` (an update finds and keeps its locks unless the window it saw is destroyed), `ForcedUpdate` (a mode key of a paused machine shows the registers of the new mode), `HandlersReturn` |
| `ui` | a registry of two windows, two callbacks, two text boxes, four events of every kind, every failure | `NothingDeadIsUsed`, `ClosedMeansReleased`, `CloseEndsProgram` |
| `memory` | seven ROM files, one for each path of `mbc_create`; 21 addresses at the ends of the regions; four writes; every failure; a save interrupted before the first byte, after a bank or before it is closed | `NothingLeaks`, `InBounds`, `ReadsLastWrite`, `SaveRestores` (what the last save to open the file wrote, whole or torn) |
| `cpu` | programs of four instructions, the third any of both tables of opcodes; seven data addresses around the wrap of the address space, stacks on both sides of it and across it | `AluAgrees`, `StackHolds`, `PcFollows` |

Bounds. Two thread identities are enough for a thread that is created while
another one exists; a third adds none. Three pending steps cover a counter that
is zero, about to be consumed, and more than one behind; callers wait at the
bound (`MaxPending`, in `StepIfPaused`). The cycle counter is kept modulo three
so that a cycle is a visible step of `Stepper`. Two pixels make a frame that can
be half old and half new; three frames fill the three buffers and come back to
the first. Twelve ticks hold several periods of the accumulator at each speed.
Tiles of two pixels leave two positions within a tile, so that objects and window
begin inside one and at its edge, and the FIFO holds two tiles as it does on the
hardware; a fetch of two steps is ready before there is room for it, as one of
seven steps is with tiles of eight; two of four objects on a line make the limit bite; dot 16 (`MidLineBound`)
lies behind the tests and stalls of the first tiles and is early enough for the
line to end in its 32 dots (`LineTakesLineDots` is proved for the sizes of the hardware).
A ring of three with arrays of up to five bytes has
data that ends at the end of the buffer, crosses it, fills it and floods it.
In `debugger` two cycles give three readings: the one on screen, one that is
stored during an update and one after it; the section of the CPU window has a slot that
is not copied, as the code has (the carry flag). In `ui` four events open and close the
debugger and the window with one event left that names the closed window; five window
identities are never used up. In `memory` the registers of MBC1 select banks
beyond the 8 of one cartridge and within the 128 of another; a
write to STAT, SVBK or a bank register and two accesses around it fit the four writes. A
file torn after one bank (`TornLengths`) has cells of the RAM before and behind its end, and
earlier saves of other contents, whole or torn, come before it.
In `cpu` the first two steps choose registers, flags and a stack, the third tries every
opcode, the last one looks at the stack again; addresses 65534 and 65535 next to 0 and
255 make stack, program counter and displacement wrap; with SP = 1 the next word pushed has
its low byte at 65535 and its high byte at 0.
`CHECK_DEADLOCK FALSE` appears where the program ends: after `gboy_cleanup` (`Gboy`,
`Ui`) and at the end of a program of `Cpu`.

`PROJECT.json` names for every property of a passing run a mutant, a plausible
slip in the code (a signal not sent, an `if` for the `while` around the wait, a
lost remainder, ...), under which the run fails.

## 4. Fairness

In `Gboy`: weak fairness of each thread's own steps (`Run`, and `Finish` for
a caller that is already inside `gboy_poweroff` or `gboy_cleanup`). The operating
system schedules every runnable thread, and a mutex is held for a bounded time.
No caller ever has to make a call, spurious wake-ups are not fair, and time is
not required to pass in `Pacing`, which has no liveness property.

In `Debugger`: weak fairness of the emulation thread's steps (`EmuNext`) and of those
of a call of the UI thread that has begun (`UiContinue`), for the same reason. No key
is ever pressed by fairness. In `Ui`: weak fairness of `Main`, since `main` loops until
it is told to end; no event has to come. `Memory` and `Cpu` state none.

In `Ppu`: weak fairness of `Dot`, since `emulation_loop` calls `ppu_execute` four
times in every turn. `FramesComplete` is stated under `CpuQuiet`: from some time on
the CPU leaves LCDC, the window registers and the object memory alone and the unit
is enabled. A CPU that changes them on every dot may keep a line from ending.

## 5. Proofs

`GboyProofs` (for every set of threads, speeds and bounds, under `OneCaller`: the
API has one caller, as `main.c` makes it):
- `Invariance`: `Inv` holds in every state. `OneThread` and `NoMissedWakeup` are
  not inductive. That a wake-up is not lost needs to know of a thread on its way
  to the wait: if the flag is clear and the speed zero, a step is pending for it
  (`StepInv`); that there is one thread needs to know which caller is about to
  join it (`ThreadInv`, `CallInv`).
- `TypeCorrect` (`TypeOK`), `SingleThread` (`OneThread`), `TeardownIsSafe`
  (`SafeTeardown`), `Safety` (the three with `NoMissedWakeup`) follow.
- `Refinement`: the initial states and every step map to `Stepper`.

`DisplayProofs`, of `Lcd` (for every number of pixels and frames, every boundary and every set
of speeds): `Invariance`, `Distinct` (`BuffersDistinct`) and `Safety` (with `NoDataRace`). The
invariant says which thread holds `data_mutex` where, and that the speed cannot
cross the boundary upwards under a thread that has chosen its path. `WholeFrames`
(`NormalFrameIsWhole`) adds, as long as the debug path was never taken, what every buffer
holds (`WholeInv`): the two that are not being written are whole, the third shows its
frame up to the pixel the writer has reached. `StreamedIsDrawn` (`StreamedFrameIsDrawn`)
has no hypothesis: it says in which single case, at exactly the boundary speed, a streamed
frame is not drawn (section 6, `gboy.c:423`).

`DisplayProofs`, of `Ui` (for every number of text boxes, every size of the event and the
renderer's registries, any number of windows and of events, under its `SizesAssumption`):
`NoUseAfterDestroy` (`NothingDeadIsUsed`) and `NothingIsLeft` (`ClosedMeansReleased`). The
inductive invariant `MainInv` says what is held between two handlers (`Resting`): each open
window is registered once and has its owner's handler, each callback stands on a window
that exists, and SDL's systems have exactly the references these windows and text boxes need
and those that a failing `calloc` lost. Inside a handler it does not
hold, so that there is one lemma per C function, on what it does and on what is left when a call in it
fails (`CreateEffect`, `OpenEffect`, `GboyInitEffect`, ...); `Opening` and `Starting` describe
the half-made debugger and machine that a failure gives back. `CreatedInv` counts the
windows that were and still may be made, so that a created window is a new one. The slot a registry
chooses is its smallest free one, which exists (`MinMember`); that a window has one entry is a
cardinality (`EntriesCounted`).

`PacingProofs` (for every frequency and every set of speeds, under `SpeedsFit`:
the speeds fit the 32 bits of `prev_clock_speed`): `Invariance`, `Punctual`
(`NeverEarly`) and `Safety` (with `NoDrift`). The invariant is an equation, speed times distance
plus accumulator equals cycles times frequency plus the initial accumulator.

`PpuProofs` (for all sizes under `SizesAssumption`, whatever the CPU writes and
when): `Invariance`, `RasterOrder` (`PixelsInPlace`), `WholeFrames`
(`FramesAreWhole`; the first frame is whole but for line 0), `Aligned` (`LayerAligned`). One lemma per stage of `draw()`
shows that it keeps `DrawOK`, whose last conjunct is the alignment; `RasterInv`
says for each mode how far the screen is written, which is what the two action
properties need of the mode a line is in.

Beyond these, with a part of the invariant each and a hypothesis about what the CPU
writes while a line is under way, which is needed:
- `SelectionRight` (`SelectionLacksEntryZero`), if bit 0 of LCDC is left alone during the scan.
  `PickInv` says that the selection is an injective choice of the visible entries behind
  the scan, all of them or the first ones when it is full; that the exchange chain of
  `oam()` keeps the choice and sorts it (`InsertSorted`) is an induction over the chain,
  made on the set of positions it has reached (`SegmentInduction`).
- `BkgInOrder` (`BkgFifoInOrder`) and `ObjsFetched` (`AllObjsFetched`), if the objects are not
  switched while a line is drawn. `PipeInv` describes a fetch under way: it is of the tile
  behind the FIFO, or the pipeline stalls for an object that is there.
- `LineInTime` (`LineTakesLineDots`), if no register is written while a line is drawn, for
  all sizes under `DotsSuffice`. `DotsLeft` bounds the dots the rest of the line takes; one
  lemma per stage shows that a dot lowers it by one (`ShownPays`, `WindowPays`, `ObjectPays`,
  `DrawnPays`). With the sizes of the hardware (40 entries, 160 pixels, tiles of 8, fetches
  of 7 dots, 10 objects) drawing ends after 80 + 160 + 8 + 14 + 130 = 392 of the 456 dots,
  and a fetch is not longer than its pixels last (7 <= 9).

`FifoProofs` (for every capacity, set of bytes and length of arrays):
`Invariance`, and `Refinement`, `Spec => ImplementsQueue` in full, since `Queue`
states no fairness. One lemma per function says what it does to the contents
(`DroppedOK`, `AppendedOK`, `PeekedOK`, `OverwrittenOK`, ...); they rest on two
facts about positions, that moving on by at most the capacity wraps once and that
moving twice is moving by the sum (`Wrapped`, `WrappedTwice`).

`DebuggerProofs` (for every set of modes, slots and sections and every reading, under
`SlotsAssumption`): `Invariance`, `NeverStale` (`TextIsFresh`) and `LocksExist`
(`LocksLastWhileOpen`, of `MCSpec`, whose history says whether the window was destroyed
during the update; `ClosedInv` says that without that the window, and so both locks, are
still there). `TextIsFresh` speaks of the moments between two updates only; the
invariant says what an update has achieved after each of its critical sections
(`UpdateInv`): a store that comes between the copy and the drawing leaves its slot
dirty, and it is for that reason not lost. `HeldInv` orders what exists: a callback
stands on its window, the window on its locks. `ModeKeyShowsItsMode` (`ForcedUpdate`, of
`MCSpec`, whose history says that such an update is under way) needs `FilledAssumption`:
what is copied for a section is what is stored for it. `ForcedInv` says that from the
question for the speed on, which waits for the emulation thread's cycle to end, that thread
stores for the new mode only, and that the mode stays dirty until every section is drawn.

`MemoryProofs` (for all files, headers and failures, every address and every value that
is a byte; the files may name any number of banks): `Invariance`, `NoLeak`
(`NothingLeaks`) and `NeverOutside` (`InBounds`). The invariant ties the size of the
arrays to the number of banks (`WellFormed`) and what is allocated to what is pointed at
(`Balanced`). One lemma per function of the chain says what it takes on success and
gives back on failure (`AllocStep`, `DldMade`, `Mbc1Made`, `MbcCreateStep`,
`RestoreRamStep`, `FreedCartridge`); `ByTypeMade` covers the case without a break.

Two more are about the history that `MCMemory` keeps, and so theorems of `MCSpec`, for
every value of the same constants (`MCSpec` bounds the writes by `MaxWrites`, any number):
- `RamIsRestored` (`SaveRestores`). `FileInv` says that the cartridge of a ROM has at all
  times the cells its header says, so that the file of an earlier cartridge fits, and that
  the file holds a first part of what the last save to open it found, all of it once that
  save was done. A save that fails before it opens the file leaves file and history alone.
- `LastWriteIsRead` (`ReadsLastWrite`), until a write goes behind the work RAM. `CellInv`
  gives every cell of the memory its place: 8 banks of work RAM, of which an address reaches
  one by SVBK and by the echo, every bank of the cartridge's RAM, and the rest by address.
  The property is not inductive, since it speaks of the banks that are selected now, and a
  write to SVBK or to a bank register selects another, whose cells were written before.
  That two cells never share a place, or two places a cell, are `WorkInjective`,
  `CartInjective` and `OtherInjective`; that an address is written and read at the cell of
  its place are `PlaceOfWork` and `PlaceOfCart`, and `OtherRead` and `OtherWrite`.

`CpuProofs` (for every program, every set of data addresses and, where no program is
involved, all bytes and words):
- `AdcIsExact`, `SbcIsExact`, `Add16IsExact`, `RotationsUndo`: results and carries are
  those of the integers. `AluIsRight` (`AluAgrees`) has all the equations of the run, half
  carry, logic and single bits included.
- `CpuInvariance`: every instruction keeps bytes and words where they belong (`Machines`)
  and what calls and pushes left on the stack in its two cells (`FrameInv`). There is a
  lemma per family of handlers, and the tables are taken apart arm by arm (`Perform`,
  `Compute`, `Load`, `Prefixed`).
- `ReturnsToItsCall` (`StackHolds`) follows from `FrameInv` and the families that touch SP, also
  where a word lies across the end of the address space; of POP AF it says A and the flags;
  `CounterFollows` (`PcFollows`) from what each family does to PC, also where it wraps.

Only model-checked: the liveness properties (`PowerOffReturns`, `FramesComplete`,
`HandlersReturn`, `CloseEndsProgram` and the fairness part of `ImplementsStepper`),
which are out of the prover's reach. Every safety property of a passing run is proved,
some under a hypothesis about what the CPU or the user does, which is named above.

## 6. Findings

With a run:
1. `gboy.c:407`: the error path meant to lock up the emulation thread keeps it
   running when the emulator is paused already (`gboy_error`).
2. `lcd.c:137`: the race described as dropping a frame can show an older frame
   again (`lcd_race`).
3. `ppu/ppu.c:672`: an object whose column is passed while objects are off is waited for
   until the end of the line, and the objects behind it are not drawn, although
   `ppu.c:405-406` says that all objects of a column are fetched (`ppu_objects`).

Read in the code while modelling it, without a run of their own. Unless something else
is said the models do what the code does.

Control and LCD
- `gboy.h:18`: `gboy_cleanup` "from any thread" destroys mutex and condition under a
  caller that is still joining the emulation thread (`Gboy` has several callers,
  runs and proofs one, as `main.c` makes it).
- `gboy.c:148` closes the debugger before `gboy.c:150` powers off, although `gboy.h:18`
  says that emulation is stopped first; `gboy.c:104-106`: a condition that could not be
  created is no error; `gboy.c:450`: the result of `SDL_PushEvent` is not looked at.
- `gboy.c:423`: at exactly 100000 cycles per second `lcd.c:73` streams frames into
  one buffer that `window_update` does not draw again (the exception of
  `StreamedFrameIsDrawn`, which the `lcd` run reaches).

PPU
- `ppu/ppu.c:529`: the room of the object FIFO is counted in bytes where
  `fifo_pop_range` counts pixels, so that pixels of overlapping objects are mixed from
  uninitialised memory.
- `ppu/ppu.c:723`: the precedence of `&` and `!=` decides the height of objects by the
  wrong bit; a flipped object gets a negative row.
- `ppu/ppu.c:380-402`: objects that are switched off during the fetch of an object leave the
  fetcher with the object's data, which `bkg_rendering` then pushes as background (the
  hypothesis of `BkgInOrder`).
- `ppu/ppu.c:266`: the first frame is reported complete without line 0, since the zeroed
  context starts in the horizontal blank of this line (`FramesAreWhole` counts it out).
- `ppu/ppu.c:277`: a line begins with dot one, so the object scan never looks at
  entry 0, although `ppu.c:276` and `ppu.c:324` speak of all 40 objects: where it lies on the
  line it is lost (`SelectionLacksEntryZero`).
- `ppu/ppu.c:258`: the dot count runs at twice its speed in the vertical blank,
  whose lines end after 228 dots (`VBlankWait`).
- `ppu/ppu.c:689`: the column within the window subtracts the window's start from
  a counter that begins there, and wraps below zero.

Debugger
- `debugger.c:214`: between the question whether the debugger is open and the locks of
  `debugger.c:216` and `debugger.c:244` the UI thread may close it and destroy the locks, or
  do so while they are held (`Close` has no guard). `LocksLastWhileOpen` says that this is the
  only way to lose them.
- `debugger.c:526`: 21 slots are copied where slots 0 to 21 are in use (the comment
  there says 18-21 for the flags): the carry flag is never shown.
- `debugger.c:976`: a mode key of a running machine that is paused before its next cycle
  leaves the slots of the old mode; `UiStore` may overwrite newer values by older ones
  when a granted step comes in between.
- `debugger.c:1024`: the right key reads the speed and sets it in two sections; a CPU
  error that pauses the machine in between is resumed (`Gboy` has CPU errors, `Debugger`
  has not). `debugger.c:1010`: space with no
  speed remembered sets speed zero.

Windows and events
- `window.c:58`, `textbox.c:50`: a failing `calloc` keeps the reference to SDL's video or
  TTF system, since `window_destroy` and `textbox_destroy` do nothing for a NULL handle
  (`ClosedMeansReleased` counts exactly one lost reference for each, and no other).
- `texture.c:113-116`: a failure between lock and unlock leaves the texture locked.
- `event.c:607-638`: no value is returned for an event of an unknown type.

Memory
- `cartridge_save` is called by a test only
  (`tests/memory/cartridge/int_test_cartridge.c:226`): a game's RAM is never saved, and
  `SaveRestores` is about the function, which the environment of `Memory` calls.
  `cartridge.c:310`: the old file is emptied before the new one is written: a write that
  fails or is interrupted leaves a first part of the new save and nothing of the old one,
  and the next cartridge takes it without a word (`mbc.c:197-198` copies what there is).
- `mmu.c:177`: a write to the ROM area never reaches the bank registers. `mmu.c:276`: bank
  numbers of the upper work RAM run from 1 to 8, and bank 8 is behind the array.
- `mbc.c:88`: the case of a ROM-only cartridge has no `break`; the case it falls into is
  harmless for it (`NothingLeaks`). `mbc.c:234`, `dld.c:54`: `malloc` is not checked.

CPU
- `cpu.c:187`, `cpu.c:492`: POP AF stores the popped word unmasked: the low nibble of F, which
  `registers.h:50` says is always zero and for which `registers.h:63` and
  `tests/cpu/unit_test_registers.c:5` give a masking setter, becomes what was on the stack (a
  CALL and a POP AF are enough), and a PUSH AF writes it back (`StackHolds` says nothing of
  these bits).
- `cpu.c:226`: CP stores the difference in A. CB 38 to 3F shift left. `alu.c:284-285`: the
  comparison binds before the mask in `alu_da`. `registers.h:14` calls SP the next empty
  slot, but a push decrements first. After an undefined opcode `m_status` is never reset.
  Many opcodes are undefined, among them JP, AND, OR, ADC, SBC, 16 bit DEC and CB 80 on.

## 7. Not modelled

Inside the modelled parts: a second `gboy_init` after a cleanup (`main` does
not do it); the PPU's error path in `t_cycle` (the mode is two bits wide and
every value has a case, so `ppu_execute` never reports one); colours, palettes,
scrolling and the map and data addresses of tiles; a CPU that writes LY or the mode bits;
the accessors of `mmu.c` for single registers, whose values `Ppu` has; the layout of the
debugger's text; `renderer_set_leader`, which nothing calls; the mutex of the renderer,
which only the UI thread takes; a write behind the work RAM that would hit more than the
unit's own memories (with the variables of `mmu.c:21-27` in their order or in the reverse
one, `m_cart` is out of its reach); the title and licensee in a cartridge's header and the
paths of files; what `texture_draw` and `textbox` draw.

The composition of all parts is not one module: they meet in `gboy.h` and the MMU, and a
product of the state spaces is out of TLC's reach. `Gboy` stands for what calls of the API
do, `Debugger` and `Lcd` take from it that the emulation thread holds `emulation_mutex`
through a cycle, `Ui` that all API calls come from one thread, and `Ppu` and `Cpu`
may be given any memory that `Memory` may hold.

Key codes, assets, build tools, tests and the vendored logger have no behaviour a
model would add to.

## 8. Plan

Every module of the plan is written and its safety properties are proved. What is left are
sharper statements of what holds already:
- `BkgInOrder` and `ObjsFetched` assume that objects are not switched while a line is drawn. The
  first may need only that no object fetch is under way at the switch.
- `LineInTime` assumes that no register is written while a line is drawn; with writes a bound
  on the dots that grows with their number would say more.
