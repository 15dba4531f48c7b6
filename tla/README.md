# A TLA+ model of gamebore

This directory models gamebore, a Game Boy emulator in C, in TLA+: the devices
of the emulated machine, the order in which `gb_machine_step` drives them, the
event loop of the window around it, the memory unit, the rendering of a line,
the instruction decoder and the processor with its whole instruction set.
TLC checks the modules on small instances; TLAPS proves for every instance nearly
all their safety properties, that the composed machine implements the
specifications its components were proved under, and what the processor's
arithmetic, decoder and stack do for every operand and program.

## 1. The system

The emulator is one thread. GLUT's event loop (`gbdisp_run`) delivers key
events and a timer event; the timer event calls `gb_disp_prepare_frame`, which
calls `gb_machine_step` until a picture is ready. One step is four calls:

    ticks = gb_CPU_step();            one instruction
    gb_INPUT_step();                  answer a request for the keys
    gb_INTERRUPT_step(ticks);         timers, LCD controller, dispatch
    gb_DISPLAY_render_line(ticks);    scan the current line if it is due

There are no threads and no locks. What makes the program hard is that every
device changes a little state per step, that the program being emulated may
write any device register between two steps, and that results of one step (an
interrupt flag, a halted CPU, a stale mode, a remembered line) are used many
steps later.

| Component | State | Operations | What makes it correct |
|---|---|---|---|
| LCD controller (interrupts.c) | mode, mode clock, LY, LYC, STAT, display switch | mode switch per step, register stores | mode fits the line, no mode overstays, one VBLANK request per blank |
| Interrupt control (interrupts.c, cpu.c) | IME, IE, IF, HALT/STOP flags, PC, stack | request, execute, EI, DI, HALT, STOP, RETI | prompt dispatch, priority, nothing lost, HALT waits and wakes, what frees a STOP |
| Timers (interrupts.c) | tick total, DIV, TIMA, TMA, TAC, next ticks | update per step, stores, rebase | counters neither fall behind nor stop |
| Keypad (input.c) | pressed keys, JOYP | key event, answer | the program is answered and interrupted |
| Memory unit (memory.c) | memory view, cells | load, store, 16-bit store, OAM transfer | what the program sees is a plain memory with documented exceptions |
| Cartridge (cart.c) | ROM banks, selector | write hook | ROM never changes, the window shows a whole bank |
| Display (display.c) | last line, background and sprites of a line | scan test, background, sprite collection, sort, drawing | every line once and in order, a seamless background, sprite priorities |
| Window (gbore-win) | screen_ready, key events, timer | timer event, key event, presentation | whole pictures, a responsive window |
| CPU arithmetic (cpu.c) | A, flags, byte operands | ALU, DAA, rotates, shifts, bits, counters | bytes compose into wide and decimal arithmetic, loops keep their carry |
| CPU loads, jumps, stack (cpu.c) | registers, PC, SP, memory | instruction handlers, interrupt entry | PC stays on instructions, the stack gives back what it got, interrupts leave no trace |
| Decoder (dispatch_tables.c, opcodes.inc) | handler table | build once, look up | each opcode gets the handler and size of its one definition |
| Debug tracer, Win32 window, tests | - | - | not modelled |

Interactions: the devices share memory cells (I/O ports) with the program; the
timers, the LCD controller and the keypad request interrupts by setting bits of
IF and clearing the waiting flag of HALT; dispatch pushes PC and jumps; the
display reads LY and the mode that the controller left; the frame loop runs
until the display marks the picture ready.

## 2. Modules

| Module | Models | Composes |
|---|---|---|
| `GameBoy` | instruction costs, the stages of a machine step, the interrupt bits | |
| `LcdController` | `gb_INTERRUPT_step` without timers and dispatch | `GameBoy` |
| `LcdAlone` | the controller with an arbitrary program; its properties | `LcdController` |
| `Raster` | abstract: a beam that scans lines and asks for VBLANK | |
| `Display` | `gb_DISPLAY_can_scan`, line rendering, `screen_ready`, timer event | `LcdController` |
| `Frames` | the window, a user, the frame loop; its properties | `Display` |
| `InterruptControl` | `gb_INTERRUPT_request`, `gb_INTERRUPT_execute`, EI, DI, HALT, STOP, RET, RETI | `GameBoy` |
| `InterruptsAlone` | interrupt control with arbitrary devices; its properties | `InterruptControl` |
| `Timers`, `TimersAlone` | `gb_INTERRUPT_update_timers`; its properties | `GameBoy` |
| `Keypad` | input.c | `GameBoy` |
| `Machine` | everything above in one frame loop | `Display`, `InterruptControl`, `Timers`, `Keypad` |
| `Watched` | `Machine` with history variables; the components' specifications it implements | `Machine`, `LcdAlone` and, by instances, `InterruptsAlone`, `TimersAlone`, `Frames` |
| `AddressMap` | the section table and its assumptions | |
| `Memory` | memory.c and cart.c | `AddressMap` |
| `Bus` | abstract: what the program sees of the memory | `AddressMap` |
| `Sprites` | `gb_DISPLAY_render_line`: background tiles, then sprites | |
| `Binary` | bytes, their bits, signs | |
| `Decoder` | dispatch_tables.c and opcodes.inc: patterns, build order, the 256 slots | `Binary` |
| `Alu` | the arithmetic of cpu.c | `Binary` |
| `Cpu` | `gb_CPU_initialize`, `gb_CPU_step`, `gb_CPU_interrupt` and every handler but HALT and STOP | `Alu`, `Decoder` |
| `CpuPrograms` | the processor from power-on with a cartridge of 29 routines; its properties | `Cpu` |
| `MC*` | constants for TLC | |
| `LcdProofs`, `InterruptProofs` | theorems | `LcdAlone`, `InterruptsAlone` |
| `TimersProofs`, `MemoryProofs`, `SpritesProofs` | theorems | `TimersAlone`, `Memory`, `Sprites` |
| `FramesProofs` | theorems | `Frames`, `LcdProofs` |
| `MachineProofs` | theorems | `Watched`, `LcdProofs`, and the instances' proof modules |
| `CpuProofs` | theorems about the arithmetic, the decoder, the processor and its stack | `CpuPrograms` |

Names follow the source: a variable `display_modeclock` is the field of that
name, an action `EndVblank` is the branch `case gb_LCDC_VBLANK`. PROJECT.json
maps each definition to its lines. One instruction is one action; one call of
`gb_machine_step` is one action per call in it, and the variable `stage` names
the next call. A component's action takes the set R of interrupts it requests,
so that a composition can pass them on to `RequestAndExecute`.

Operators marked "Slip:" stand beside an action and are not used by any
specification: each is the action with one plausible mistake, kept to show that
the property named for it does depend on the code.

### Abstractions

- **LCD**: mode lengths, line counts and the width of the mode clock are
  constants. STAT keeps its enable bits, its coincidence bit and its mode bits
  (the code lets programs overwrite the last two, although interrupts.h calls
  them read only; the model allows it too).
- **Interrupts**: PC is the kind of place it points at. The stack holds the
  places pushed by interrupts; the program keeps its own pushes and pops paired
  and SP in plain RAM. The dispatch's cost is not counted, as in the code.
- **Timers**: the rebase at 2^63 happens at `TickTop`. TIMA's increment is
  always 1, as in the code.
- **Keypad**: a key line is a member of a set. The window's key repeat is off;
  its queue of key events is bounded by `MaxEvents` and delivered whole before
  the timer event, so that a tap may begin and end unseen.
- **Memory**: sections, pages and banks are a few words long. I/O ports the
  devices write by themselves belong to the device modules.
- **Line rendering**: a sprite's pixel records whose it is, a background pixel
  which pixel of which tile it shows; colours are left out.
- **Processor**: registers, flags and addresses have their real widths. The
  memory holds what a program has written, 0 elsewhere, over a ROM that ignores
  stores; the side effects of ports, banks and the echo are those of `Memory`,
  and `Cpu` uses only plain RAM and the upper RAM reached by LDH. The handlers
  are operators from a state to the next, called by name through the table that
  `Decoder` builds; the cartridge (`Code`) is the only part that is not
  translated from the source.

## 3. Runs

| Run | Module | Bounds | Shows |
|---|---|---|---|
| lcd | MCLcd | 3 visible + 3 blank lines, costs 1 and 6, clock wraps at 16 | `ModeLine`, `NoModeOverstays`, `Raster` implemented, `VblankRecurs` |
| frames | MCFrames | 3 + 2 lines, costs 2 and 3 against modes of 3 to 8 | `PresentedWhole`, `ScanKeepsUp`, `DrawnInOrder`, `KeysAreDelivered` |
| interrupts | MCInterrupts | 2 HALTs, 1 STOP, nesting 2 (3 frames), 3 sources | `HaltWaitsInPlace`, `HaltHasOwner`, `ServedByPriority`, `RequestsAreKept`, `StopStaysJammed`, `VblankIsServed` |
| timers | MCTimers | 2-bit ports, rebase at 16, two selects, costs 1, 4, 6 against a period of 4 | `DivOnTime`, `TimaOnTime`, `TimerKeepsFiring` |
| machine | MCMachine | 2 + 1 lines, one HALT, one key with two queued events, timer and LCD at once | `PromptDispatch` of the composition, `HaltWakes`, `DeafForEver` |
| memory | MCMemory | 28 addresses, 0 to 4 banks, two store instructions | `RomIsPermanent`, `WindowShowsBank`, `Bus` implemented |
| sprites | MCSprites | 3 sprites, 2 per line, tiles of 2x2; a 3x3 map, 8 tile codes, scrolls that wrap | `RowsExist`, `EachOnce`, `LimitKeepsLeftmost`, `TableOrderBreaksTies`, `TilingIsSeamless` |
| cpu | MCCpu | 29 routines, words of bytes around every boundary, one interrupt anywhere | `DecodingIsExact`, seven properties of what routines compute, `InstructionsStayAligned`, `StackKeepsValues`, `InterruptsAreTransparent`, `RoutinesEnd` |
| halt_isr, tima_overflow, bank_select, sprite_priority | | as above | disagreements, section 6 |

Why the bounds are enough. Three visible lines give a first, a middle and a
last one, and the blank a first, a middle and a last one. Costs are chosen so
that a mode ends exactly on its limit, late, or within one instruction; the
clock wraps while the display is off. Two HALT sites and a nesting of two are
the least in which a handler halts inside a halted program and is itself
interrupted. A rebase at 16 falls between any two updates of either counter.
The memory targets are both ends of every kind of section a store may straddle,
and after two store instructions every pair of effects (a switch and a
transfer, a store and its echo, ...) has occurred. Three sprites, two drawn,
are one over the limit with every order of coordinates. The routines use every
handler of opcodes.inc but HALT and STOP, every ALU operation and every group of
the CB page, with operands at each carry and sign; an interrupt may come before
any instruction of a routine called with one of `Corners`. `MaxNest`,
`MaxStores`, `MaxEvents`, `MaxInterrupts` and the small sets of stored values are
the only bounds that are not parameters of the code. Memory, sprites and the
routines of the processor end, so their runs do not check for deadlock; all
others do.

### Fairness

The emulator's thread runs for ever and never blocks: weak fairness of the
emulator's actions together (`Next` or `Emulator`), never of one branch. The
user owes nothing: `KeyArrives` and `KeyEvent` have no fairness. Liveness
properties state what they ask of the program: `VblankRecurs` and
`KeysAreDelivered` that it leaves the display on and does not keep clearing LY,
`VblankIsServed` that it keeps enabling interrupts, `TimerKeepsFiring` that it
leaves the running timer alone, `HaltWakes` that the display or the timer runs.
`RoutinesEnd` assumes weak fairness of `Instruction` alone: `gb_machine_step` runs
one instruction in every call, whatever interrupts come between.

## 4. Proofs

`LcdProofs` proves for every screen, every length of the modes, every width of
the clock and every set of instruction costs that satisfy `LcdAssumption`
(a mode is at least as long as the OAM read, the clock does not wrap within a
mode and one instruction, both true of the constants in interrupts.h):

- `LcdTypeCorrect`, `ModeAgreesWithLine`, `ModesEndInTime`: the invariant is
  `LcdTypes /\ ModeLine /\ NoModeOverstays` (`LcdInv`), a statement about the
  controller's own variables, so that the proofs of `Frames` and `Machine` use
  the same lemmas; `LcdAlone` adds the type of its counter of blanks.
  `ModeLine` alone is not inductive: that a blank which continues stays below the screen needs the
  range of LY, and that `Stay` keeps the clock below its limit needs the
  assumption that the clock cannot wrap on the way. There is one lemma per
  side: `LcdStoreKeepsInv` for the program's stores, `LcdStepKeepsInv` with one
  case per branch of the mode machine, both over `EnterKeepsInv`.
- `LcdImplementsRaster`: under that invariant each step is a step of `Raster`
  or a stutter (`StepIsRasterStep`); a line's end is one `Advance`, the end of
  the OAM and VRAM reads is a stutter, and the display switch is `PowerOff` and
  `PowerOn`.

`InterruptProofs` proves for every set of HALT and STOP instructions and any
nesting: `TypeCorrect`, `DispatchIsPrompt`, `WaitingStaysInPlace`, `HaltIsOwned`,
`PriorityIsKept`, `NoRequestIsLost` and `JamsLast`. `HaltHasOwner` is not inductive
by itself: the invariant adds that a set flag's owner is a HALT instruction and what
holds in the middle of a step, before dispatch. `JamsLast` proves `StopStaysJammed`:
a STOP that waits with KEYPAD pending and masked is freed by no request, no handler
and no EI, only by a store of the program to IE or IF; at the STOP itself, with
interrupts disabled, there is none. `FirstIsServed` shows that the scan of the
five bits finds the one that outranks all others, and `StepEffect` what
`RequestAndExecute` does in each case.

`TimersProofs` proves for every period, interval, width and set of costs that
satisfy `TimersAssumption` (an instruction and a period together fit below the
rebase): `TimersTypeCorrect`, `TimaStaysOnTime`, `DivStaysOnTime`. The invariant
is `TypeOK /\ SteadySelect /\ TimaOnTime`; the heart of it is that a rebase
moves the counter and the tick it last acted on by the same amount, so that
their distance, all that the comparison in the code looks at, stays as it was.

`MemoryProofs` proves for every table of sections the code's own validation
accepts, every number and size of banks and every content of the cartridge:

- `MemoryTypeCorrect`, `RomStaysPermanent`, `WindowStaysInCartridge`. The
  invariant adds `ViewShape`: after any number of switches the view differs from
  the initial one in the window's base alone. Without it a store through an
  arbitrary view could reach any cell.
- `MemoryImplementsBus`: each byte stored is found by its section, its effect on
  cells, echo and bank is one `Bus` write (`StoreIsWrite`), and a transfer is a
  sequence of them. What it needs of the addresses is that two of them share a
  cell only if they are echoes of each other.

`SpritesProofs` proves for every table of sprites, every size of tiles and
screen and every limit: `SpritesTypeCorrect`, `RowsAlwaysExist`,
`EachExactlyOnce`, `LimitDropsRightmost`, `FirstInTableWins`. The invariant says
what each phase has done so far: the sprites collected are just those on the
line from the counter on (`CollectedFrom`), the sorted ones stand in the order
of drawing and the rest still in that of the table (`SortedUpTo`, which is what
makes the sort stable), and each pixel of a drawn sprite shows it or a later one
(`DrawnUpTo`). `MovedElement` states what the insertion does to each place.
`BackgroundHasNoSeam` proves `TilingIsSeamless` for every size of tiles and map,
every even number of tile codes and every scroll position: `PlaceOnMap` finds
the place of a screen position on the map repeated without end, and
`FlippedIsSigned` shows that flipping the top bit of a code and counting from
the middle of the tile data is adding the code as a signed number.

`FramesProofs` proves, under the assumptions of `LcdProofs` alone, for every
number of lines and every set of costs: `FramesTypeCorrect`, `ScanIsNeverLate`,
`PicturesAreWhole` and `LinesAreDrawnInOrder`. The properties themselves say
nothing of the calls between two lines or of a picture half drawn. `FramesInv`
adds what the frame loop guarantees between two calls (`Looping`: no picture is
ready in the middle of a step; `Noticed`: the controller sees a change of LCDC in
the same step), where the beam is when a picture is ready (`Ready`), and for a
frame left alone that either nothing of the new picture is drawn and the beam is
on its way to line 0 (`Beginning`) or just the lines down to `last_LY` are, with
the beam on that line or newly on the next (`Underway`). A picture presented is
`Ready`, so of the two it is `Underway` with the last line drawn.

`MachineProofs` proves of the composition, for every program, cost, raster,
timer and user: `MachineTypeCorrect`; `MachineDispatchIsPrompt`, the
`PromptDispatch` that the run checks, here with all devices requesting in their
real order; `MachineKeepsRaster`, that the controller's invariants survive in the
machine; and `WaitingSwitchesNothing`, the safety half of `HaltWakes`: while a
program waits in HALT neither display nor timer is switched off. `MachineInv`
is `TypeOK`, `LcdInv` and three facts about interrupts: requests are served one
call earlier than `PromptDispatch` asks (`Served`), a waiting CPU stands at a
HALT with nothing to serve (`WaitsInPlace`), and the stack of interrupted places
is bounded (`NestingBound`). The lemmas about the controller are those of
`LcdProofs`; `FirstIsServed` comes from an instance of `InterruptProofs`.

The machine implements its components. `InterruptsAlone`, `TimersAlone`, `LcdAlone`
and `Frames` were checked and proved with an environment that may do anything its
actions allow: any device requests any interrupt, any program stores anything. What
is proved of them is true of the emulator only if the composition drives each no
differently. `Watched` states that: it adds to `Machine` the history variables the
components' specifications have and instantiates each with its own view of `stage`
(the calls a component takes no part in pass while its stage stands still).
`HistoryIsFree` proves that the history restricts nothing: every step of `Machine`
is a step of `Watched` for some history, and the other way round.
`MachineImplementsComponents` proves that a watched machine satisfies the safety
specification (`SafetySpec`: initial states and steps, without fairness) of the
interrupt control, of the timers and of the frame hand-over, every call of
`gb_machine_step`, every key event and every presentation being a step of theirs or
a stutter. `MachineKeepsControl`, `MachineKeepsTime` and `MachineKeepsPictures` are
then the theorems of the component modules, read inside the machine: HALT waits in
place and its flag has an owner, dispatch keeps the priorities and loses no request,
a jammed STOP stays so, DIV and TIMA stay on time under the conditions of `DivOnTime`
and `TimaOnTime` (no instruction longer than their period or interval), the scan keeps up and pictures are presented whole and in
order. No run of the project checks `Watched`, whose state space is too large for a
short run; with `MaxNest` 1, `MaxEvents` 2 and the other constants of MCMachine, TLC
finds `ComponentsImplemented` true in its 3.1 million states.

`DeafStays` proves the property `DeafForEver` that the run `machine` checks: a machine
that waits in HALT with display and timer off and no answer due stays so whatever the
user does; `DeafHangsTheWindow`, that it completes no picture and so never gets to
another key event. `Deaf` is inductive on top of `MachineInv` only with its clause
about the display mode: a switched-off display still takes one step to reach
DISABLED.

`CpuProofs` has four parts. The first proves what the arithmetic of cpu.c computes
for every byte, word and carry; the run `cpu` evaluates whole routines on words of
`Corners` only. `AdcIsExact`, `AddIsExact`, `SbcIsExact` and `SubIsExact` relate
result and carry to the integer sum or difference. From them follow the idioms
that rest on the carry of one instruction being right for the next:
`WordsAddByBytes`, `WordsSubtractByBytes`, `ShiftsDouble`, `ShiftsHalve`, and
`DaaAfterAdc` and `DaaAfterSbc`, that DAA's correction by the flags the last
instruction left gives the decimal sum or difference with its carry (through
`SumCorrected` and `DifferenceCorrected`, digit by digit). `AddHlAddsByBytes` and
`AddSpAddsByte` state that the 16-bit instructions agree with the byte ones, the
half carry of ADD HL and the signed operand of ADD SP included; `CompareOrders`,
`CountingKeepsCarry` and `RotatesUndo` what loops and rotations rely on. Bytes and
words are given by their bounds (`IsByte`, `IsWord`), since the provers write out
an interval such as 0..65535. The logic and bit instructions are proved by the
bits of their operands: `BytesAreBits` shows that a byte and the set of its one
bits determine each other, and from it follow `LogicIsBitwise`, `BitsAreOneByOne`
and the idioms of the run's routines `XorSwap`, `BothWays` and `CopyBit`
(`XorExchanges`, `MasksBothWays`).

The second part is the decoder. `DecoderIsExact` proves `DecodingIsExact`, which the
run checks on the built table. Its invariant `TableInv` says what every slot holds
when the first n entries are in (`Holds`); `MatchesAreFits` shows that the masks a
pattern is parsed to match just what the pattern says, as long as not all eight
characters are free, when the byte that counts the matches would wrap to 0; and
`Meant` reads the definition an opcode belongs to off its bits, so that
`OnlyTheMeant`, `TheMeantFits` and `NoneMeant` replace a comparison of each pattern
with each other.

The third part, `ProcessorTypeCorrect`, holds for every cartridge and every program:
`Executed` and `gb_CPU_interrupt` take processors (`IsCpu`: registers of their widths,
memory of bytes within RAM) to processors, an instruction costs 4 to 24 ticks in steps
of 4 and leaves the lower half of F clear. There is one lemma per group of handlers.
The invariant needs the table, for an opcode runs what its slot holds (`EntriesFit`),
and that no operand or pair is wider than its register, wherever the handlers wrap.

The fourth part is the stack. `StoresAreRead`, `WordsAreRead` and `AssignedIsRead` say
what is read after a store to RAM or to a register and what else has not changed;
`Pushed`, `Popped`, `CallLeaves` and `ReturnFinds` what push, pop, call and return
make of them. `CallsReturn` and `InterruptsReturn` follow: whatever runs in between,
if it hands back SP and the two bytes at it, RET resumes after the call, and RETI
resumes the interrupted program with interrupts enabled. Both ask that the two bytes
lie in RAM: with SP just above the ROM the emulator, as the console, loses the address
(`WordInRam`).

Model-checked only:

- All liveness: `VblankRecurs`, `KeysAreDelivered`, `VblankIsServed`,
  `TimerKeepsFiring`, `HaltWakes` and `RoutinesEnd` (fairness and ENABLED are
  outside the proof system).
- The keypad's lines, which are a fold over the queue of key events: what a fold
  yields for every input needs induction over data, and the induction theorems take
  an operator as a parameter, which the provers cannot instantiate.
- What whole routines compute or keep (`AdditionIsWide`, `SubtractionIsWide`,
  `DecimalsAddAndSubtract`, `ShiftsAreWide`, `CarrySurvivesCounting`, `BitsCombine`,
  `StackKeepsValues`, `CopyIsComplete`, `InstructionsStayAligned`,
  `InterruptsAreTransparent`): an inductive invariant would have to describe the
  processor at each of some 200 addresses of the 29 routines, which is running them
  by hand, and says nothing of another cartridge. `CpuProofs` proves, for every
  operand and program, the steps these properties are made of.

## 5. Not modelled

- The debug tracer (gbdebug.c) reads the machine's state and prints it.
- The GDI window in wingb.c is an alternative the program does not use.
- Texture upload, resizing, the command line and shut-down of gbore-win do not
  touch the machine.
- Bit planes and palettes (`gb_DISPLAY_get_tile_px`, `gb_DISPLAY_get_DMG_color`)
  turn a pixel's place into a colour without any state. The code draws no
  window layer, so there is none to model.
- Sound and serial transfer exist only as ports.
- `gb_CART_destroy` and allocation failures; reading them we noted that main
  frees `ROM_file` twice (gamebore_exe.c:96 and 128, the pointer is not cleared)
  and that the internal memory kept in `_private` (memory.c:120) is never freed.
- Handlers called with an operand no program of the model has: a STOP whose
  second byte is not 0, and opcodes without a handler, both of which are
  assertions in the code.

## 6. Where the code and its comments disagree

Each of the first four has a run whose trace shows it.

1. `halt_isr` - a HALT in the handler of the interrupt that ended another HALT
   does not halt: cpu.c:597 decides by the one flag HALT, still set by the
   outer one, against cpu.c:587. The outer one then halts again on return.
2. `tima_overflow` - TIMA is reloaded when it would become FFh
   (interrupts.c:159), not on overflow (interrupts.h:174).
3. `bank_select` - the zero test of the bank number masks with Fh
   (cart.c:181): bank 10h cannot be selected (cart.c:170-173).
4. `sprite_priority` - sprites are drawn by ascending X, so the right one is
   above (display.c:360, against display.c:220-222).

Others, modelled as the code has them and stated here without a run:

- The coincidence flag lasts one step: it is set only when LY changes to LYC
  and cleared at the next step (interrupts.c:299-303, against
  interrupts.h:158-170).
- KEYPAD is requested when the program asks for the keys, pressed or not
  (input.c:82, 87), not on a key's transition (interrupts.h:150).
- A taken conditional CALL costs 24 ticks, a taken conditional RET and LD (nn),SP
  20 (cpu.c:509, 536, 178), against "no instruction is > 16 ticks"
  (interrupts.c:94): each leaves DIV behind by what exceeds 16. `DivOnTime` states that nothing
  else does. DIV moves every 16 ticks, 16 times as often as its comment says
  (interrupts.h:54).
- IN_RANGE excludes its end: a store at 3FFFh selects no bank (cart.c:169,
  against cart.c:141).
- A cartridge of one bank leaves the window writable (cart.c:113); external
  RAM is never mapped, for `EXT_RAM_banks_n` is never set (cart.c:119), though
  README.md speaks of switchable RAM.
- BIT n,(HL) writes back what it read (cpu.c:385-399): on DIV, LY, the DMA port
  or ROM this has the effect of a store.
- A sprite that starts above the screen is never drawn (display.c:275: the
  byte wraps); with more than the limit at one X the first of the table are
  left out; the OBJ enable bit is ignored; flipped 8x16 sprites keep their two
  tiles in place (display.c:203-204).
- STOP waits on while KEYPAD is pending, whatever is requested (`StopStaysJammed`),
  and goes on at any request while it is not: the flag is assigned the bit instead
  of its negation (interrupts.c:31). The comment in
  gb_STOP says it "seems to be broken" (cpu.c:620).
- `gb_CPU_initialize` loads AF, F, BC, DE and HL from the addresses 1, B8h, 13h,
  D8h and 14Dh of the cartridge (cpu.c:31-37), not with these numbers.
- HALT with an interrupt already in IF waits for another request; HALT with
  display and timer off waits for ever, and so does the window, since
  `gb_disp_prepare_frame` returns only with a picture (gamebore_exe.c:140).

## 7. Plan

Done in this order: LCD controller and raster; interrupt control; proofs of
both; display and window; timers; keypad and machine; memory, cartridge and
bus; sprites; decoder and processor; background; proofs of the timers, the
memory and the sprites; proofs of the frames, the machine, the arithmetic and
the background; the machine as an implementation of its components; proofs of the
decoder, the processor's types and its stack. Next:

1. `Cpu` over `Memory` instead of plain RAM, for programs that run code in the
   switchable bank.
2. That a handler which pushes what it uses and pops it in the opposite order is
   transparent, for any number of registers, from `Pushed` and `Popped`.
3. Liveness inside `Machine`: that a display left on wakes a HALT for every raster,
   by a decreasing distance to the next blank instead of a run.
