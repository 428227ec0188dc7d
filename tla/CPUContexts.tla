---------------------------- MODULE CPUContexts ----------------------------
(***************************************************************************)
(* The CPU with a history of the contexts saved on its stack, to state     *)
(* what interrupts and subroutine calls promise the code they interrupt.   *)
(*                                                                         *)
(* `frames' lists the contexts that were pushed and that nothing popped    *)
(* yet, oldest first: by handle_irq, handle_nmi, handle_brk and op_jsr.    *)
(***************************************************************************)
EXTENDS CPU, FiniteSets

VARIABLE
  frames     \* kind, the registers to come back to, the memory, the status byte

ctxVars == <<cpu, mem, int, at, serving, raising, frames>>

Down(sp, n) == (sp - n) % \h100
Up(sp, n)   == (sp + n) % \h100

FrameSize(kind) == IF kind = "jsr" THEN 2 ELSE 3

(* The stack slots a context occupies, and those freed by popping n bytes. *)
Slots(f)   == {Down(f.cpu.SP, i) : i \in 0 .. FrameSize(f.kind) - 1}
Popped(n)  == {Up(cpu.SP, i) : i \in 1 .. n}

Save(kind, c, status) ==
  frames' = Append(frames, [kind |-> kind, cpu |-> c, mem |-> mem, status |-> status])

(* A context, and those saved after it, are gone as soon as one of its bytes is popped. *)
Drop(n) ==
  LET Alive(f) == Slots(f) \cap Popped(n) = {}
  IN  \E k \in 0 .. Len(frames) :
        /\ \A i \in 1 .. k : Alive(frames[i])
        /\ k < Len(frames) => ~Alive(frames[k + 1])
        /\ frames' = SubSeq(frames, 1, k)

PoppedBytes == [pla |-> 1, plp |-> 1, rts |-> 2, rti |-> 3]
PushedBytes == [pha |-> 1, php |-> 1, jsr |-> 2, brk |-> 3]

Entering(l) == serving /\ at \in PollPlace /\ Polled[at] = l

(* What the step that leads to the next state does to the saved contexts. *)
Track ==
  CASE Entering("irq") /\ serving # serving' -> Save("irq", cpu, cpu.STATUS)
    [] Entering("nmi") /\ serving # serving' -> Save("nmi", cpu, cpu.STATUS)
    [] Entering("res") /\ serving # serving' -> frames' = <<>>
    [] at = "fetch" /\ at' # at ->
         CASE instruction.code = "brk" ->
                Save("brk", [fetched EXCEPT !.PC = U16(@ + 1)], cpu.STATUS \cup {kMaskBreak})
           [] instruction.code = "jsr" -> Save("jsr", fetched, cpu.STATUS)
           [] instruction.code = "txs" -> frames' = <<>>
           [] instruction.code \in DOMAIN PoppedBytes -> Drop(PoppedBytes[instruction.code])
           [] OTHER -> UNCHANGED frames
    [] OTHER -> UNCHANGED frames

CtxInit == Init /\ frames = <<>>
CtxNext == Next /\ Track
CtxSpec == CtxInit /\ [][CtxNext]_ctxVars

-----------------------------------------------------------------------------
OnStack(f, i)  == read_byte(mem, kStackBase + Down(f.cpu.SP, i))

(* The top context is the one that popping n bytes now would use up exactly. *)
TopIs(kinds, n) ==
  /\ frames # <<>>
  /\ frames[Len(frames)].kind \in kinds
  /\ frames[Len(frames)].cpu.SP = Up(cpu.SP, n)

Top == frames[Len(frames)]

(* The part of the memory a program relies on: not the free slots of the    *)
(* stack, which are the half of the ring of 256 below the stack pointer.    *)
FreeSlots(sp) == {kStackBase + Down(sp, i) : i \in 0 .. 127}

SameMemory(m1, m2, sp) ==
  \A a \in (DOMAIN m1 \cup DOMAIN m2) \ FreeSlots(sp) : read_byte(m1, a) = read_byte(m2, a)

-----------------------------------------------------------------------------
(***************************************************************************)
(* What a program owes the contexts on its stack.  The CPU enforces none   *)
(* of it: the stack pointer wraps in its page without notice, and stores   *)
(* reach the stack page like any other.                                    *)
(***************************************************************************)

(* The bytes between a context and the top of the stack, its own included, *)
(* and those that the next step of the CPU pushes.                         *)
Stacked(f) == (f.cpu.SP - cpu.SP) % \h100

Pushing ==
  CASE at = "fetch" /\ instruction.code \in DOMAIN PushedBytes -> PushedBytes[instruction.code]
    [] Entering("irq") \/ Entering("nmi") -> 3
    [] OTHER -> 0

(* The stack does not go once around its page, and no store hits a context. *)
StackDiscipline ==
  \A i \in 1 .. Len(frames) :
    /\ Stacked(frames[i]) + Pushing <= \hFF
    /\ at = "fetch" /\ instruction.code \in {"sta", "stx", "sty", "inc", "dec",
                                            "asl", "lsr", "rol", "ror"}
         => \A s \in Slots(frames[i]) : src # kStackBase + s

(* While an IRQ is handled the program does not clear I, pulls no STATUS   *)
(* without I, and executes RTI only to return from the latest interrupt.   *)
IRQDiscipline ==
  at = "fetch" /\ (\E i \in 1 .. Len(frames) : frames[i].kind = "irq")
    => /\ instruction.code # "cli"
       /\ instruction.code = "plp"
            => kMaskInterrupt \in Bits(read_byte(mem, kStackBase + Up(cpu.SP, 1)))
       /\ instruction.code = "rti" => TopIs({"irq", "nmi", "brk"}, 3)

(* At its RTI a handler has restored A, X, Y and the memory it was given. *)
HandlersRestore ==
  at = "fetch" /\ instruction.code = "rti" /\ TopIs({"irq", "nmi", "brk"}, 3)
    => /\ <<cpu.A, cpu.X, cpu.Y>> = <<Top.cpu.A, Top.cpu.X, Top.cpu.Y>>
       /\ SameMemory(mem, Top.mem, Top.cpu.SP)

-----------------------------------------------------------------------------

(***************************************************************************)
(* Every context that was saved and not popped is still in the stack page, *)
(* byte for byte, at the slots its handler used, whatever interrupts,      *)
(* calls, pushes and pulls came in between (stack_push_byte,               *)
(* stack_push_word, handle_irq, handle_nmi, handle_brk, op_jsr).           *)
(***************************************************************************)
FramesIntact ==
  \A i \in 1 .. Len(frames) :
    LET f == frames[i]
    IN  IF f.kind = "jsr"
        THEN MkWord(OnStack(f, 1), OnStack(f, 0)) = U16(f.cpu.PC - 1)
        ELSE /\ MkWord(OnStack(f, 1), OnStack(f, 0)) = f.cpu.PC
             /\ Bits(OnStack(f, 2)) = f.status

(***************************************************************************)
(* An IRQ handler that leaves the I flag alone is never interrupted by     *)
(* another IRQ, even if an NMI comes and returns meanwhile: at most one    *)
(* IRQ context is on the stack (cycle's test of I, handle_irq and          *)
(* handle_nmi setting it, op_rti restoring it).                            *)
(***************************************************************************)
NoNestedIRQ == Cardinality({i \in 1 .. Len(frames) : frames[i].kind = "irq"}) <= 1

(***************************************************************************)
(* An interrupt is transparent to the code it interrupts: when RTI uses up *)
(* the context on top of the stack, the program goes on with the registers *)
(* and the memory it had when handle_irq, handle_nmi or op_brk saved it;   *)
(* for handlers that restore A, X and Y themselves.  B is excepted: op_rti *)
(* loads it from the stack.                                                *)
(***************************************************************************)
InterruptTransparent ==
  [][at = "fetch" /\ at' # at /\ instruction.code = "rti" /\ TopIs({"irq", "nmi", "brk"}, 3)
       => /\ cpu' = [Top.cpu EXCEPT !.STATUS = cpu'.STATUS]
          /\ cpu'.STATUS \ {kMaskBreak} = Top.cpu.STATUS \ {kMaskBreak}
          /\ SameMemory(mem', Top.mem, cpu'.SP)]_ctxVars

(***************************************************************************)
(* RTS continues after the JSR whose return address is on top of the stack *)
(* and leaves the stack as JSR found it (op_jsr pushes PC - 1, op_rts adds *)
(* one), also when interrupts came in between.                             *)
(***************************************************************************)
SubroutineReturns ==
  [][at = "fetch" /\ at' # at /\ instruction.code = "rts" /\ TopIs({"jsr"}, 2)
       => cpu'.PC = Top.cpu.PC /\ cpu'.SP = Top.cpu.SP]_ctxVars
=============================================================================
