# TLA+ models of the 6502 microcontroller

This directory models the emulator in TLA+: a virtual MOS 6502, the bus that
connects it to RAM, ROM and an IO chip, and the threads of the IO chip. TLC checks the
modules on small instances, and TLAPS proves the theorems listed below for every value of
the constants. File and line references are to the repository's `src/`, `include/`
and `docs/`.

## 1. The system

| component | state | operations | interacts with |
|---|---|---|---|
| Bus (`bus.cpp`) | attached devices, `int_irq`, `int_nmi`, `int_res`, `mutex_int`, `cv_int` | `read_byte`, `read_word`, `write_byte`, `write_word`, `int_irq`, `int_nmi`, `int_res`, `attach_*` | called by the CPU and by every thread of the IO chip |
| RAM, ROM (`rammodule.h`, `rommodule.h`, `busdevice.h`) | bytes | `read`, `write`, `copy`, `flash` | behind the bus |
| CPU (`cpu.cpp`) | A, X, Y, SP, PC, STATUS, `exit_state`, `shutdown`, dispatch table | `start`, `cycle`, the `op_*` methods, `handle_irq`, `handle_nmi`, `handle_res`, `op_wai` | one thread; polls the interrupt flags, sleeps on `cv_int` |
| Draw pipeline (`iochip.cpp`) | argument registers, queue, brush, VRAM | `write` to `kIODrawMethod`, `thread_drawing` | CPU thread, drawing thread, main thread (`stop`) |
| Shapes (`iochip.cpp`) | VRAM, orientation | `draw_rectangle`, `draw_square`, `draw_dot`, `draw_line` | called by the drawing thread |
| Event sources (`iochip.cpp`) | `event_type`, keyboard, clock, timer and counter registers, `worker_threads` | key events, `thread_clock`, `thread_timer`, `thread_counter` | raise IRQ through the bus |
| Audio (`iochip.cpp`) | three channels, their caches | `update_audio` | CPU thread, SFML |
| Rendering (`iochip.cpp`) | window | `thread_render` | reads VRAM and control |
| Lifecycle (`iochip.cpp`, `main.cpp`) | `shutdown`, threads | `start`, `stop`, joins | main thread |
| Program in ROM (`main.cpp`) | zero page, audio channel, timer | `rom_main`, `rom_irq` and the routines they call, as bytes | runs on the CPU, drives the IO chip |
| Pong (`examples/c/pong.cpp`) | rackets, scores, ball | the interrupt handler | the game the program in ROM translates |

What makes this code hard to test: interrupt flags and condition variables are shared by
six threads and one more for every timer or counter started, and both notifiers (`Bus::int_*`, `IOChip::write`) store and notify
without the mutex of the waiter; interrupts, BRK and calls nest at any instruction on a
stack page that wraps; the instruction set is a large table with byte arithmetic at its
boundaries; shapes are clipped by three different tests; the five kinds of event share one
byte and one interrupt line; the program in ROM is 672 bytes of machine code written by hand.
The hazards are listed with their lines in `PROJECT.json`.

What makes each component correct:

* Bus: an address reaches one device, and a byte read is the last byte written there.
* CPU, interrupts: a raised line stays pending until it is accepted, an IRQ is accepted only
  with I clear, nothing pending is overlooked, saved contexts come back whole.
* CPU, instructions: results and flags agree with the integers and with the documentation;
  nothing but the operand and the stack is written.
* Draw pipeline: every committed method is executed once, in order, with the arguments
  and brush of its commit.
* Shapes: nothing outside VRAM is written; the shapes have the pixels they should have.
* Event sources, audio, lifecycle: each event reaches its handler; each channel gets the
  settings written to it; `stop` returns and no source outlives the chip.
* Program in ROM: it plays the game of `pong.cpp`, draws each frame as the game has left it
  and always returns to its loop with interrupts enabled.
* Pong: the ball stays in the court, which its unsigned coordinates do not see to; a racket in
  the right place lets no ball through; a game ends when a score reaches the winning one.

## 2. The modules

```
Bytes ── Bus ── CPU ─┬─ CPUInterrupts (refines Interrupts) ── MCWait
                     ├─ CPUContexts ─┐
                     ├─ ISA ─────────┴─ MCCPU
                     └─ PongRom (refines Pong) ── MCRom
Bytes ─┬─ DrawPipeline (refines Drawing) ── MCDraw
       ├─ Shapes ── MCShapes
       ├─ Pong ── MCPong
       ├─ IOThreads ─┬─ IOChip ── MCIO
       └─ Audio ─────┘
BytesProofs ─┬─ CPUProofs ── ISAProofs ── ContextsProofs        DrawProofs
             ├─ ShapesProofs
             ├─ IOProofs
             └─ PongProofs
```

**Bytes** has the unsigned 8 and 16 bit numbers, the bits of STATUS and words in memory order.

**Bus** is `bus.cpp` with the storage modules: `resolve_address_to_device`, the read and
write methods, the ignored writes to ROM. Memory is the function of the bytes stored since
power-on; a byte that is not in it has its power-on value. A word at the last address of a
device is read past its buffer in the code: the constant `Garbage` is the byte found there.

**CPU** is `cpu.cpp` with the interrupt lines. The thread's steps lie between two accesses to
state it shares: polling `int_irq`, `int_nmi` and `int_res` (three places of `cycle`, three of
`op_wai`), the handler that clears the flag, fetch and execution of one instruction (one
action per `op_*` method), the predicate of WAI, the release of its mutex with the start of the
sleep, a spurious wakeup. A device raises an interrupt in two steps, `raise_flag` and
`notify_one`, as `Bus::int_irq` does without the mutex. `dispatch_table` is built from
the constructor's lines in their order, so a later line for the same opcode wins. `op_bvc`
and the four accumulator methods have no action because no opcode leads to them.
`op_illegal` stops the thread. STATUS is the set of its bits.

**Interrupts** is what interrupt lines promise, with three variables and no program.
**CPUInterrupts** shows that `CPU` implements it, and states what WAI promises.
**CPUContexts** adds a history of the contexts that are on the stack: `frames`, oldest
first. An interrupt, BRK or JSR appends one; an instruction that pulls drops every context from the
first one on that loses a byte; TXS and a reset drop them all. It also states what a program owes
its contexts (`StackDiscipline`, `IRQDiscipline`, `HandlersRestore`), as the CPU enforces none of it.
**ISA** states the results, flags, writes and lengths of instructions. **MCCPU** has programs for both.

**DrawPipeline** is `IOChip::write` for the argument registers and `kIODrawMethod`,
`thread_drawing`, the closing of the window and `stop` as far as it ends that thread.
`draw_pipeline_mutex` makes push, pop and the size test atomic; `draw_mutex` is taken by
the drawing thread only and has no variable. The wait is four places: the predicate,
the moment between it and the sleep, the sleep, the test of `shutdown` after it. A shape is one
entry in `vram`. **Drawing** is the same without threads; the refinement maps `todo` to the
instruction in execution followed by the queue.

**Shapes** is the four `draw_*` methods as functions from VRAM offsets to brushes, for both
orientations. Loops that write cells in order are sets of cells, with the last writer where
rows of a square overlap; the line keeps its loop as a recursive function, with the
error term doubled, since the float only takes multiples of 1/2.

**IOThreads** is what the IO chip does with threads. Keyboard, clocks, timers and counters
store `event_type` and then raise the IRQ, in two steps (a key press in three, with its code
between); the handler clears the flag, reads the type and, for a key, the code, in three more.
`worker_threads` is the vector of threads, with the source of each and its place in its loop. The
main thread starts the clocks and then the two threads of the window, turns key presses into
events, and in `stop` waits for the rendering thread, notifies the drawing thread and joins it,
joins the workers that were in the vector when its loop began and clears the vector; destroying a
thread that was not joined ends the program ("aborted"). Of the drawing thread `IOThreads` has the
wait for `condition_draw` - before the sleep and asleep are two places, so that the
notification can be lost between them - and its end. The program on the
CPU goes on writing clocks, timers and counters meanwhile. Time is left out: a sleep may end at
any moment. Writing a timer or counter has a second outcome, the end of the program: their
registers are past the end of `memory`, and `push_back` may run while another thread uses the
vector, which C++ leaves undefined.

**Audio** is `update_audio`: the decoder, the cache and the four steps that apply
what differs from it, with the sounds as `sf::Sound` defines them. Two histories tell what was
written since power-on: `used`, the channels, and `varied`, the settings that some byte had other than byte 0,
with which the cache begins. **IOChip** puts the two together: a write of the program starts a thread or updates a sound.

**Pong** is `pong.cpp`: each interrupt handler is one step, since handlers run with interrupts
masked and the main program does nothing. `Frame` is the sequence of methods that
`handle_clock` commits. The court is given by constants.

**PongRom** is the machine with the program of `main.cpp`: its routines as the bytes of the
source, run by `CPU` instruction by instruction. It instantiates `Pong` with the constants of
the program in ROM and `game` replaced by what the zero page, the audio register and the timer
register hold when a routine ends; at each RTI that is what the handler of `pong.cpp` makes of
the game its event found, and no other step changes it. `entry` is the game at the moment an interrupt was accepted,
`commits` what the handler has committed since.

The program in ROM and `pong.cpp` differ where `Pong` has constants: the ball starts at
(32, 18) in ROM and at (18, 32) in `pong.cpp`; the long beep is D9 in ROM and E3 in `pong.cpp`; ROM beeps at the walls as well
(`WALLS_BEEP`). They draw the scores in different ways, so `Court` is shared and the scores are
`draw_score` and `rom_score`. `draw_score` gives both score lines the length of `score1`, so
the right player's score is never shown.

Operators introduced by a comment that begins "A slip:" are plausible mistakes in the
operator that follows them. No specification uses them; each property of a passing run has one
that breaks it (`PROJECT.json`, "mutants").

## 3. The runs

| run | what it asks | bounds |
|---|---|---|
| `cpu` | Do contexts survive, IRQ handlers not nest, RTI and RTS restore what was interrupted, with IRQ and NMI at every point? Does every opcode compute, set flags, write and advance as documented? | nine programs under interrupts, with one device and `MaxStack` 3; one program for every opcode and an illegal one, with three pairs of A and operand and two values of STATUS, and the boundary bytes for ADC, SBC and CMP |
| `lines` | Does the CPU implement the lines, accept everything acceptable, and does every sleep of WAI end while a device goes on raising? | six endless programs, two of them with WAI, and programs that stop at an illegal opcode, which together execute every other instruction; all three lines, `MaxStack` 3 |
| `draw` | Is what is painted what was committed, is nothing fetched from an empty queue, does the thread draw and end when it is awake? | three commits, one argument register, two bytes |
| `shapes` | Is VRAM respected, are squares rectangles, lines near the ideal and reversible? | coordinates and sizes at and beyond the edges, both orientations |
| `io` | Does every event reach a handler, does a sole channel have its settings, do sources end when they are switched off, does `stop` end the others and return? | one clock, one timer, one counter; programs that write the clock, the timer, both, the counter, or a channel; a key press with the clock and with the timer; one or two writes, three to the channel |
| `pong` | Does the ball stay in the court, does a racket defend its side, does no ball get stuck, is each frame on the screen? | a court of 8 by 5, rackets of 2, two points to win |
| `rom` | Does the program in ROM play Pong, draw each frame and return to its loop? | power-on, and 37 games under way, each with an event that takes a different path through the routines |

A passing run may check many properties: `cpu` has those of `CPU`, `CPUContexts` and `ISA`. Its
programs for the opcodes begin by moving the stack pointer to where `MaxStack` silences the
device, so each of them is one execution from there on.

`MaxStack` stops devices from raising while more than that many bytes are stacked, so that
interrupts nest two deep (an NMI inside an IRQ handler inside a subroutine or a BRK) and not
for ever; the third context would repeat what the second shows. `MaxCommits` bounds the
commits: three are enough for a colour, a shape and a colour that comes too late, with the
registers overwritten in between. What a shape paints does not depend on what VRAM holds, so
every behaviour of `Shapes` is one call.

`MaxKeys` and `MaxWrites` bound the key presses and writes in `io`, for each program. A key press
meets a clock and a timer at every moment; two writes are enough to switch a source on and off, to start
two threads for one counter, and to start a timer before and during `stop`; three writes to
a channel are one that leaves a setting as the cache has it, one that varies it and one that
changes it back. `audio_documented` has the program that writes two channels. The
programs write different registers because the sources do not interact but through
`event_type`, the flag and the vector, which every program shares with the clock. One
case is out of these bounds: two threads of a counter ended by one write, which takes a third write.

The court of `pong` is small so that every position of ball and rackets occurs at every
score; every branch of the handlers is taken, a wall and a racket or a goal at once included.
`WINNING_SCORE` 2 has a game that goes on after a point and one that is won.

In `rom` the games under way are those that meet a branch of the routines: the ball next to
a wall, to both ends of both rackets, to each goal, to a wall and a goal at once; rackets at
the ends of the screen with each key; a game just won by either player. They have the ball where
its diagonal moves can take it from the start. An event begins at either instruction of the
main loop. The behaviour of each event ends in the loop, with the memory of the next game.

`InterruptTransparent` speaks of handlers that restore A, X and Y, as those of the run do. It excepts B,
which `op_rti` loads from the stack (see below), and the half of the stack page below the
stack pointer, which belongs to nobody.

`SoleChannelAsSet` says exactly what a sole channel does: a setting that some byte varied is the one
of the last byte, a setting that no byte varied is that of a new `sf::Sound`, and a tone is heard if
the last volume is not 0 and the wave was varied, since only then the sound has a buffer. That the
second and third of these are not what `iochip.h` says is the finding of `sole_channel`.

Deadlock is not checked in the runs where the system may stop: after an illegal opcode, after
`stop` and the end of `main`, with a CPU asleep and no device that raises, after the one call
of `Shapes`.

### Disagreements with the documentation

| run | the code | the documentation |
|---|---|---|
| `wait_ends` | an interrupt between WAI's predicate and its sleep does not wake the CPU | README: "it now waits until the next interrupt happens" |
| `draw_lost` | a method committed between the predicate of the drawing thread and its sleep stays in the queue until another one is committed | `iochip.h:178`: writing "will commit the action and execute the corresponding method" |
| `audio_documented` | the three channels share one cache: a setting is not applied if the last write to any channel had it, so a channel plays on after it was silenced | `iochip.h:146`: "Setting the volume to 0 will stop playing the audio" |
| `sole_channel` | the cache begins as byte 0 while no sound has a buffer: a program whose first byte for its only channel is C9 (100%, sine) gets no tone | `iochip.h:136`, `:143`: channels "which can each play a configurable sound", "Wave function (sine, square, saw, triangle)"; only volume 0 stops it (`:146`) |
| `branches_documented` | a taken branch adds its byte unsigned: F0 leads 240 bytes forwards | `6502.txt:237`: "byte number is treated as a signed number" |

Other places where the code and its documentation differ are modelled as the code has them. They are constant
facts about one line each, which the reader sees as well as a run would, so no run is spent
on them:

* Shifts in accumulator mode modify the memory at the address in PC (`cpu.cpp:70`; `6502.txt:159`).
* Post-indexed indirect reads one byte of the pointer (`cpu.cpp:394`; `6502.txt:227`).
* BIT takes S and V from A & M (`cpu.cpp:494`; `cpu.h:376`).
* B6 is indexed with X (`cpu.cpp:180`; `cpu.h:706`).
* RTI after BRK leaves B set, and later hardware frames carry it (`cpu.cpp:760`; `cpu.h:137`).
* SBC takes one off when C is set (`cpu.cpp:770`). Here the documents disagree with each other:
  `6502.txt:1685` takes one off when C is clear, `cpu.h:890` has A - M - C.
* Opcode 50 is defined twice, and EOR Absolute,X wins (`cpu.cpp:120`). The documents give 50 to both
  BVC and EOR (`cpu.h:444` and `:606`, `6502.txt:559` and `:722`); 5D is in neither table.

A lost notification also concerns `stop`: when it falls between the predicate of the drawing
thread and its sleep, `stop` joins for ever. No document promises that `stop` returns, so this
is no finding: `DrawingEnds` and `StopReturns` hold of the code, and both name it as their exception.

The program in ROM relies on two of these facts: it subtracts with CLC before SBC, and
its branches only lead forwards.

### Fairness

The CPU thread has weak fairness: while it is neither blocked nor returned the scheduler
runs it (`FairSpec` of `CPU`, with ENABLED written out as `CPUCanRun`). A device that has set a
flag goes on to `notify_one`. No device has to raise, and no spurious wakeup has to happen.
`TickingSpec` adds devices that raise again and again, as `thread_clock` does while
its clock is on. In `DrawPipeline` the drawing thread, a started `notify_one` and the
steps of `stop` are weakly fair; the program does not have to commit and nobody has to close
the window. In `IOThreads` each thread that is not asleep for good is weakly fair - the main
thread, the rendering thread, every worker, for which a sleep ends, and the handler, since the
programs of this machine do not mask interrupts for ever. The drawing thread is fair in falling
asleep and in returning once it is awake and `shutdown` is set; only a notification has to wake
it. Nobody has to commit a method, to press a key, to close
the window or to write a register, and the CPU need not halt. `Pong` has a fair
`clock_tick`: the clock that `main` switches on. `RomFairSpec` has the fairness of the CPU.
All of these are threads of the operating system that run without priority.

## 4. What is proved

| module | theorem | argument |
|---|---|---|
| `CPUProofs` | `ReadAfterWrite`: a byte written to an attached RAM or IO chip is read back, and no other address reads differently | case split over the device an address resolves to; devices do not overlap |
| `CPUProofs` | `TypeCorrect`, `ConstantBit`: registers keep their widths, memory holds bytes, bit 5 of STATUS stays set | `Good`, the conjunction of both, is inductive: op_plp and op_rti need the bit to be set again, every other instruction needs that it changes only its own flags; one lemma per group of instructions |
| `CPUProofs` | `LinesImplemented`: the CPU implements the safety part of `Interrupts` | invariant `PollInv`: when a poll found its flag set, the flag is still set, because only the CPU thread clears flags, and an IRQ is being served only with I clear; then each action is a step of `Interrupts` or leaves its variables alone |
| `CPUProofs` | `InterruptRoundTrip`: popping a saved context returns the status, PC and SP that were saved, at every stack pointer, the wrap included | three slots of the stack page are distinct; `BitsFromBits` and `HalvesMakeWord` |
| `ISAProofs` | `AdditionCorrect`: ADC gives sum, carry, overflow, sign and zero | `Adds`: the sum of two bytes and a carry in linear arithmetic, with the test of the three signs split into cases |
| `ISAProofs` | `ComparisonsCorrect`: CMP, CPX, CPY order unsigned bytes | the 16-bit difference of two bytes is below 0x100 exactly without a borrow |
| `ISAProofs` | `ShiftsCorrect`: operand, result and carries form one number of nine bits | `ShiftLeaves`, on the byte read back by `ReadAfterWrite`; needs the RAM attached, since a write to an open address is lost |
| `ISAProofs` | `SequenceCorrect`: the next instruction is the one after the operand bytes | one lemma per group of instructions; the wrap of PC at the end of the address space |
| `ISAProofs` | `WritesConfined`: an instruction writes its operand address and the slots it pushes, and nothing else | `WritesIn`, composed over the bytes that are pushed |
| `ISAProofs` | `FlagsCorrect`: no opcode changes a flag outside its column; S and Z describe the result | `Documented` for each group of instructions; the seven masks differ |
| `ContextsProofs` | `ContextsStayIntact`: a saved context stays byte for byte in its slots until it is popped | `ContextsInv`, see below |
| `ContextsProofs` | `SubroutinesReturn`, `InterruptsTransparent`: RTS and RTI restore what JSR and the interrupt saved | the same invariant: the bytes that are pulled are those of the context on top |
| `ContextsProofs` | `IRQsDoNotNest`: at most one IRQ context is on the stack | `IRQsMasked`: while an IRQ context is saved, I is set, and it is set in every status byte saved above it |
| `DrawProofs` | `FetchSafe`, `DrawTypeCorrect` | `FetchFindsInstruction` is not inductive: `WaitEndsForAReason` adds that after the wait the queue is nonempty or `shutdown` is set, and `InScope` that an instruction is held exactly while it is executed |
| `DrawProofs` | `DrawingImplemented`: the pipeline implements `Drawing`, for any number of commits | the same invariant; a commit appends to `todo`, a fetch leaves it, an execution removes its head |
| `ShapesProofs` | `PaintingsStayInVRAM`: no byte as coordinate or size leads outside VRAM | linear arithmetic for each orientation |
| `ShapesProofs` | `SquaresAreRectangles`: a square that fits in width is the rectangle with equal sides | an offset determines its row and column, so the last writer is the only one, and the test of 0x900 is the test of the last row |
| `ShapesProofs` | `OutlinesEnclose`: the body of a rectangle is the rectangle one pixel inside it, clipped or not | the pixels of a rectangle are where its columns and its rows meet, and the clipped columns and rows of the inner rectangle are those of the outer one without its edges |
| `ShapesProofs` | `LinesNearIdeal`: a line has one pixel per step of its longer side, each within half a pixel of the ideal line | by induction over the recursive function: after k steps along the longer side, dx, and m across, the doubled error is dx - 2 dy k + 2 dx m, and the loop keeps it in 0 .. 2 dx - 1; offsets determine pixels, so their number is that of the steps |
| `ShapesProofs` | `LinesReverse`: a line is the same from either end | the swaps bring both calls to the same loop |
| `IOProofs` | `NotForgotten`: a raised event is not lost, for any number of keys, writes and sources | inductive as it stands: the flag is cleared only by the handler, which is then about to read |
| `IOProofs` | `Silenced`: after the joins of `stop` no thread of the chip raises an event | `StopInv`: from the moment `main` leaves the event loop `shutdown` is set, and once `stop` has cleared the vector it holds only timers and counters that were started since, none of them past its test of `shutdown` |
| `IOProofs` | `ThreadsTypeCorrect`: the variables of `IOThreads` keep their types for any programs | one lemma per group of variables, over all threads |
| `IOProofs` | `StopDestroysReturned`: clearing the vector destroys only threads that have returned | `JoinsDone`: the loop's position is at most the end it took, which is at most the length of the vector, and the threads passed have returned and run no more; appending keeps it |
| `IOProofs` | `SoleChannel`: of the settings of a program's only channel, those it ever varied are as it wrote them last, the others are those of a new sound, and it is heard exactly if it is not silenced and its wave was varied | `SoleInv`: while one channel is in use the cache is that channel's byte, decoded, and before that byte 0 with new sounds and nothing varied; then the four steps of `update_audio` leave what the new byte says, applied or skipped, and a setting that equals the cache without ever having been varied is still a new sound's |
| `PongProofs` | `TypeCorrect`, `BallStaysIn`, `ScoresStayBounded` | `IInv` adds the range of the rackets to the three properties; inside `handle_clock` none of them holds, and each helper establishes what the next one needs (`NotWon`, `BallMoved`, `BallTurned`), which is where the order of the helpers matters |
| `PongProofs` | `FramesStayOn`: no frame draws outside the screen | a frame is a concatenation of pieces in `Seq(Shown)`; the invariant keeps the computed ends from wrapping |
| `PongProofs` | `RacketsDefend`: a racket always in the row of the ball concedes no point | `Defended1`, `Defended2`: the ball is on the court's side of the racket and moves away when next to it. `HitRacket1` and `HitRacket2` look after the move, so a step keeps them if the racket covers the ball in the state it leads to; `PongAssumption` has the ball start off the column where the right racket returns it |

`BytesProofs` holds the lemmas about bytes and words the others cite. The assumptions are
those of the modules: `CPUAssumption` (programs are images of bytes, devices raise known
lines), `DrawAssumption` (`kIODrawArg1` is a register, methods are bytes),
`ShapesAssumption` (arguments are bytes), `ThreadsAssumption` and `AudioAssumption` (sources are
registers of the chip, bytes are bytes), `PongAssumption` (a court at most 255 wide and high with
room for the rackets, the ball between them and the score lines) and those of `Bus`. TLC evaluates them in every run.

### The stack

`ContextsInv` adds to `Good` and `PollInv` that a running CPU has met no illegal opcode (`Quiet`)
and that every context on the list is *live*: its bytes are in its slots, and the stack pointer
is at least its size below it, counted down the ring of 256 slots. `FramesIntact` alone is not
inductive: it does not say that the next push writes elsewhere. A push writes the slots from the
stack pointer down, so it reaches a live context only after going once around the page; a pull
moves the stack pointer up, and it either stays below a context or takes one of its bytes,
and then `Drop` has removed that context and those above it.

These theorems hold for every program, device and number of nested contexts, on a machine with its
RAM attached, as `main` attaches it, and under duties that only a program can keep:

* `StackDiscipline`: the contexts and what is pushed on them fit the stack page but for one slot,
  and no store goes into a context. The stack pointer wraps without notice, so a program that
  stacks more overwrites its oldest context; this is the hazard at `cpu.cpp:397`.
* `IRQDiscipline`, for `IRQsDoNotNest`: while an IRQ is handled the program does not execute CLI, pulls
  no STATUS without I, and executes RTI only to return from the latest interrupt.
* `HandlersRestore`, for `InterruptsTransparent`: at its RTI a handler has restored A, X, Y and
  memory. That PC, SP and STATUS come back is what the theorem adds.

The nine programs under interrupts keep all three in every state: with `Programs <- Interrupted` and
the three names as the INVARIANTS of `MCCPU.cfg` TLC finds no violation. None of them constrains a device or the moment of an interrupt.

### What is only model-checked

* The liveness properties, which the provers cannot do: `LinesLive`, `IRQServed`,
  `WaitEndsWhenTicking`, `DrawnWhenAwake`, `DrawingEnds`, `KeyHandled`, `ClockServed`,
  `SwitchedOffStops`, `StopReturns`, `BallCrosses`, `RoutinesReturn`.
* `RomPlaysPong` and `FrameDrawn`: an execution of some hundred instructions per event.

Every other property of a passing run is a theorem. The line of `draw_line` is a recursive
function; its theorems use induction in the form that a nonempty set of
naturals has a least element, instead of the library's induction rules.

## 5. What is not modelled

* Rendering: what `thread_render` draws in the window is output. Its end is in `IOThreads`, because
  `stop` waits for it.
* The orientation a committed shape is drawn with: it is read when the shape is drawn, and the
  documentation does not say which one is meant.
* `dump_state`, the sample buffers of the audio, the copying of ROM images: they change no
  state that the properties speak of. `update_audio` may run before `load_audio_buffers`, since the
  CPU thread starts before `IOChip::start`; no property is about it.
* The modifiers of a key and the flags of the control register but the orientation
  (`keyboard_disabled` among them): they are stored, and no code reads them.
* Timers and counters are at 0x910 to 0x915, past the 0x910 bytes of `memory`: what writing
  them overwrites depends on the layout of the class. `IOThreads` lets any such write end the
  program.
* `thread_counter` never decrements what it reads; with time left out a counter is
  a source that repeats until its register is 0.
* Writes of the program to `event_type` or `keycode`: the program in ROM has none.
* Direct writes to VRAM by the program while the drawing thread paints: bytes of the same
  array, without an order the program could rely on.
* Nothing sets `CPU::shutdown`: after the window is closed `main` waits for a CPU that halts only
  on an illegal opcode (`halts`, `main_returns`).
* The assembly examples and C++ experiments, apart from `pong.cpp`.

## 6. Plan

1. Theorems: that the games of `PongRom` refine `Pong` for one routine (the rackets), with the
   instruction lemmas of `ISAProofs`; the paintings of a program that changes the brush, from
   `DrawingImplemented` and the theorems on shapes together.
2. **PongRom** with the threads of `IOThreads` in place of saved games: events that arrive while a
   handler runs, which `CPUContexts` and `IOThreads` treat separately now.
3. **DrawPipeline** with the orientation, once the documentation says which one a shape is to have.
