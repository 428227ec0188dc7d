-------------------------------- MODULE CPU --------------------------------
(***************************************************************************)
(* The virtual MOS 6502 (src/src/cpu.cpp, src/include/cpu.h) with the      *)
(* interrupt lines of the bus (Bus::int_irq, int_nmi and int_res).         *)
(*                                                                         *)
(* One thread runs CPU::start.  Every pass through CPU::cycle polls the    *)
(* three interrupt flags, then fetches and executes one instruction; WAI   *)
(* sleeps on the condition variable cv_int.  The other threads of the      *)
(* program, here `Devices', raise interrupts: each stores TRUE to an       *)
(* atomic flag and then calls notify_one, in two steps, holding no lock.   *)
(*                                                                         *)
(* The steps of the CPU thread are what it does between two accesses to    *)
(* state the devices share with it: the load of a flag, the handler that   *)
(* clears the flag again, the fetch and execution of an instruction, the   *)
(* evaluation of WAI's predicate and the start of its sleep.               *)
(*                                                                         *)
(* op_bvc and op_asl_acc, op_lsr_acc, op_rol_acc and op_ror_acc have no    *)
(* action: no opcode of the dispatch table leads to them.                  *)
(***************************************************************************)
EXTENDS Bus, Sequences

CONSTANTS
  Programs,    \* the images the ROM module may be loaded with
  Devices,     \* the threads that raise interrupts
  Lines,       \* per device, the interrupt lines it raises
  MaxStack     \* no interrupt is raised while more than MaxStack bytes are stacked

Line == {"irq", "nmi", "res"}

ASSUME CPUAssumption ==
  /\ \A p \in Programs : IsMemory(p)
  /\ Lines \in [Devices -> SUBSET Line]
  /\ MaxStack \in Nat

VARIABLES
  cpu,       \* the registers A, X, Y, SP, PC, STATUS and the two halt conditions
  mem,       \* what was stored on the bus since power-on
  int,       \* int_irq, int_nmi and int_res
  at,        \* where the CPU thread is in start, cycle and op_wai
  serving,   \* the flag polled last was found set; its handler runs next
  raising    \* per device, the line whose flag it has set and not yet notified

vars == <<cpu, mem, int, at, serving, raising>>

-----------------------------------------------------------------------------
(* Interrupt vectors and the stack page. *)
kVecIRQ == \hFFFE
kVecBRK == \hFFFE
kVecNMI == \hFFFA
kVecRES == \hFFFC

kStackBase  == \h0100
kStackReset == \hFF

(***************************************************************************)
(* The places of the CPU thread.  A "cycle_x" or "wai_x" place is the poll *)
(* of flag x; "fetch" is the rest of the cycle.  In op_wai, "wai_test"     *)
(* evaluates the predicate, "wai_sleep" has found it FALSE and has not yet *)
(* released mutex_int, and "wai_blocked" waits for a notification.         *)
(***************************************************************************)
PollPlace == {"cycle_irq", "cycle_nmi", "cycle_res", "wai_nmi", "wai_res", "wai_irq"}
Place     == PollPlace \cup {"fetch", "wai_test", "wai_sleep", "wai_blocked", "stopped"}

Polled == [cycle_irq |-> "irq", cycle_nmi |-> "nmi", cycle_res |-> "res",
           wai_nmi   |-> "nmi", wai_res   |-> "res", wai_irq   |-> "irq"]
(* A slip: cycle does not poll int_nmi. *)
AfterNoNmi == [cycle_irq |-> "cycle_res", cycle_nmi |-> "cycle_res", cycle_res |-> "fetch",
               wai_nmi   |-> "wai_res",   wai_res   |-> "wai_irq",   wai_irq   |-> "cycle_irq"]

After  == [cycle_irq |-> "cycle_nmi", cycle_nmi |-> "cycle_res", cycle_res |-> "fetch",
           wai_nmi   |-> "wai_res",   wai_res   |-> "wai_irq",   wai_irq   |-> "cycle_irq"]

CPUState == [A : Byte, X : Byte, Y : Byte, SP : Byte, PC : Word, STATUS : SUBSET Masks,
             illegal_opcode : BOOLEAN, shutdown : BOOLEAN]

TypeOK ==
  /\ cpu \in CPUState
  /\ IsMemory(mem)
  /\ int \in [Line -> BOOLEAN]
  /\ at \in Place
  /\ serving \in BOOLEAN
  /\ raising \in [Devices -> Line \cup {"none"}]

-----------------------------------------------------------------------------
(***************************************************************************)
(* The stack: s.SP is the stack pointer, s.mem the memory, s.value what    *)
(* the last pop returned.                                                  *)
(***************************************************************************)
Stack(c, m) == [SP |-> c.SP, mem |-> m, value |-> 0]

stack_push_byte(s, value) ==
  [s EXCEPT !.mem = write_byte(s.mem, kStackBase + s.SP, value),
            !.SP  = IF s.SP = 0 THEN kStackReset ELSE s.SP - 1]

(* A slip: the low byte is pushed first. *)
stack_push_word_lo_first(s, value) == stack_push_byte(stack_push_byte(s, Lo(value)), Hi(value))

stack_push_word(s, value) == stack_push_byte(stack_push_byte(s, Hi(value)), Lo(value))

stack_pop_byte(s) ==
  LET sp == IF s.SP = \hFF THEN 0 ELSE s.SP + 1
  IN  [s EXCEPT !.SP = sp, !.value = read_byte(s.mem, kStackBase + sp)]

stack_pop_word(s) ==
  LET lo == stack_pop_byte(s)
      hi == stack_pop_byte(lo)
  IN  [hi EXCEPT !.value = MkWord(lo.value, hi.value)]

(***************************************************************************)
(* Interrupt entry: what handle_irq, handle_brk and handle_nmi have in     *)
(* common.  `status' is the byte saved in the frame.                       *)
(***************************************************************************)
SavedFrame(c, m, status) == stack_push_byte(stack_push_word(Stack(c, m), c.PC), FromBits(status))

(* A slip: interrupts stay enabled in a handler. *)
EnteredUnmasked(c, s, vector) == [c EXCEPT !.SP = s.SP, !.PC = read_word(s.mem, vector)]

Entered(c, s, vector) ==
  [c EXCEPT !.SP = s.SP, !.STATUS = @ \cup {kMaskInterrupt}, !.PC = read_word(s.mem, vector)]

(* The registers after handle_res. *)
ResetState(c, m) ==
  [c EXCEPT !.A = 0, !.X = 0, !.Y = 0, !.PC = read_word(m, kVecRES), !.SP = kStackReset,
            !.STATUS = {kMaskConstant}, !.illegal_opcode = FALSE]

(* The state at the start of CPU::start: the program is in ROM and the     *)
(* constructor has run handle_res.                                         *)
Init ==
  /\ mem \in Programs
  /\ cpu = ResetState([A |-> 0, X |-> 0, Y |-> 0, SP |-> 0, PC |-> 0, STATUS |-> {},
                       illegal_opcode |-> FALSE, shutdown |-> FALSE], mem)
  /\ int = [l \in Line |-> FALSE]
  /\ at = "cycle_irq"
  /\ serving = FALSE
  /\ raising = [d \in Devices |-> "none"]

-----------------------------------------------------------------------------
(* The loop condition of CPU::start: an illegal opcode ends the CPU thread. *)
start_returns ==
  /\ at = "cycle_irq" /\ ~serving
  /\ cpu.shutdown \/ cpu.illegal_opcode
  /\ at' = "stopped"
  /\ UNCHANGED <<cpu, mem, int, serving, raising>>

(* A slip: the test of I is inverted. *)
PollInverted ==
  /\ at \in PollPlace /\ ~serving
  /\ at = "cycle_irq" => ~cpu.shutdown /\ ~cpu.illegal_opcode
  /\ IF int[Polled[at]] /\ (Polled[at] = "irq" => kMaskInterrupt \in cpu.STATUS)
     THEN serving' = TRUE /\ at' = at
     ELSE serving' = FALSE /\ at' = After[at]
  /\ UNCHANGED <<cpu, mem, int, raising>>

(* The load of one interrupt flag by cycle or op_wai; int_irq only if I is clear. *)
Poll ==
  /\ at \in PollPlace /\ ~serving
  /\ at = "cycle_irq" => ~cpu.shutdown /\ ~cpu.illegal_opcode
  /\ IF int[Polled[at]] /\ (Polled[at] = "irq" => kMaskInterrupt \notin cpu.STATUS)
     THEN serving' = TRUE /\ at' = at
     ELSE serving' = FALSE /\ at' = After[at]
  /\ UNCHANGED <<cpu, mem, int, raising>>

(* A slip: a handler clears every flag, not its own. *)
HandleAll(l) ==
  /\ serving /\ at \in PollPlace /\ Polled[at] = l
  /\ int' = [x \in Line |-> FALSE]
  /\ serving' = FALSE
  /\ at' = After[at]
  /\ UNCHANGED raising

(* Common to the three handlers: the flag is cleared and the poll goes on. *)
Handle(l) ==
  /\ serving /\ at \in PollPlace /\ Polled[at] = l
  /\ int' = [int EXCEPT ![l] = FALSE]
  /\ serving' = FALSE
  /\ at' = After[at]
  /\ UNCHANGED raising

handle_irq ==
  /\ Handle("irq")
  /\ LET s == SavedFrame(cpu, mem, cpu.STATUS)
     IN  cpu' = Entered(cpu, s, kVecIRQ) /\ mem' = s.mem

handle_nmi ==
  /\ Handle("nmi")
  /\ LET s == SavedFrame(cpu, mem, cpu.STATUS)
     IN  cpu' = Entered(cpu, s, kVecNMI) /\ mem' = s.mem

handle_res ==
  /\ Handle("res")
  /\ cpu' = ResetState(cpu, mem)
  /\ UNCHANGED mem

-----------------------------------------------------------------------------
(***************************************************************************)
(* The dispatch table: the DEFINE_OPCODE lines of the constructor in their *)
(* order, a later line overriding an earlier one for the same opcode.      *)
(***************************************************************************)
DefineOpcodes ==
  <<<<\h00, "brk", "implied">>, <<\h01, "ora", "pre_indexed_indirect">>, <<\h02, "wai", "implied">>,
    <<\h05, "ora", "absolute_zero">>, <<\h06, "asl", "absolute_zero">>, <<\h08, "php", "implied">>,
    <<\h09, "ora", "immediate">>, <<\h0A, "asl", "accumulator">>, <<\h0D, "ora", "absolute">>,
    <<\h0E, "asl", "absolute">>, <<\h10, "bpl", "immediate">>,
    <<\h11, "ora", "post_indexed_indirect">>, <<\h15, "ora", "x_indexed_zero">>,
    <<\h16, "asl", "x_indexed_zero">>, <<\h18, "clc", "implied">>, <<\h19, "ora", "y_indexed">>,
    <<\h1D, "ora", "x_indexed">>, <<\h1E, "asl", "x_indexed">>, <<\h20, "jsr", "absolute">>,
    <<\h21, "and", "pre_indexed_indirect">>, <<\h24, "bit", "absolute_zero">>,
    <<\h25, "and", "absolute_zero">>, <<\h26, "rol", "absolute_zero">>, <<\h28, "plp", "implied">>,
    <<\h29, "and", "immediate">>, <<\h2A, "rol", "accumulator">>, <<\h2C, "bit", "absolute">>,
    <<\h2D, "and", "absolute">>, <<\h2E, "rol", "absolute">>, <<\h30, "bmi", "immediate">>,
    <<\h31, "and", "post_indexed_indirect">>, <<\h35, "and", "x_indexed_zero">>,
    <<\h36, "rol", "x_indexed_zero">>, <<\h38, "sec", "implied">>, <<\h39, "and", "y_indexed">>,
    <<\h3D, "and", "x_indexed">>, <<\h3E, "rol", "x_indexed">>, <<\h40, "rti", "implied">>,
    <<\h41, "eor", "pre_indexed_indirect">>, <<\h45, "eor", "absolute_zero">>,
    <<\h46, "lsr", "absolute_zero">>, <<\h48, "pha", "implied">>, <<\h49, "eor", "immediate">>,
    <<\h4A, "lsr", "accumulator">>, <<\h4C, "jmp", "absolute">>, <<\h4D, "eor", "absolute">>,
    <<\h4E, "lsr", "absolute">>, <<\h50, "bvc", "immediate">>,
    <<\h51, "eor", "post_indexed_indirect">>, <<\h55, "eor", "x_indexed_zero">>,
    <<\h56, "lsr", "x_indexed_zero">>, <<\h58, "cli", "implied">>, <<\h59, "eor", "y_indexed">>,
    <<\h50, "eor", "x_indexed">>, <<\h5E, "lsr", "x_indexed">>, <<\h60, "rts", "implied">>,
    <<\h61, "adc", "pre_indexed_indirect">>, <<\h65, "adc", "absolute_zero">>,
    <<\h66, "ror", "absolute_zero">>, <<\h68, "pla", "implied">>, <<\h69, "adc", "immediate">>,
    <<\h6A, "ror", "accumulator">>, <<\h6C, "jmp", "indirect">>, <<\h6D, "adc", "absolute">>,
    <<\h6E, "ror", "absolute">>, <<\h70, "bvs", "immediate">>,
    <<\h71, "adc", "post_indexed_indirect">>, <<\h75, "adc", "x_indexed_zero">>,
    <<\h76, "ror", "x_indexed_zero">>, <<\h78, "sei", "implied">>, <<\h79, "adc", "y_indexed">>,
    <<\h7D, "adc", "x_indexed">>, <<\h7E, "ror", "x_indexed">>,
    <<\h81, "sta", "pre_indexed_indirect">>, <<\h84, "sty", "absolute_zero">>,
    <<\h85, "sta", "absolute_zero">>, <<\h86, "stx", "absolute_zero">>, <<\h88, "dey", "implied">>,
    <<\h8A, "txa", "implied">>, <<\h8C, "sty", "absolute">>, <<\h8D, "sta", "absolute">>,
    <<\h8E, "stx", "absolute">>, <<\h90, "bcc", "immediate">>,
    <<\h91, "sta", "post_indexed_indirect">>, <<\h94, "sty", "x_indexed_zero">>,
    <<\h95, "sta", "x_indexed_zero">>, <<\h96, "stx", "y_indexed_zero">>, <<\h98, "tya", "implied">>,
    <<\h99, "sta", "y_indexed">>, <<\h9A, "txs", "implied">>, <<\h9D, "sta", "x_indexed">>,
    <<\hA0, "ldy", "immediate">>, <<\hA1, "lda", "pre_indexed_indirect">>,
    <<\hA2, "ldx", "immediate">>, <<\hA4, "ldy", "absolute_zero">>, <<\hA5, "lda", "absolute_zero">>,
    <<\hA6, "ldx", "absolute_zero">>, <<\hA8, "tay", "implied">>, <<\hA9, "lda", "immediate">>,
    <<\hAA, "tax", "implied">>, <<\hAC, "ldy", "absolute">>, <<\hAD, "lda", "absolute">>,
    <<\hAE, "ldx", "absolute">>, <<\hB0, "bcs", "immediate">>,
    <<\hB1, "lda", "post_indexed_indirect">>, <<\hB4, "ldy", "x_indexed_zero">>,
    <<\hB5, "lda", "x_indexed_zero">>, <<\hB6, "ldx", "x_indexed_zero">>, <<\hB8, "clv", "implied">>,
    <<\hB9, "lda", "y_indexed">>, <<\hBA, "tsx", "implied">>, <<\hBC, "ldy", "x_indexed">>,
    <<\hBD, "lda", "x_indexed">>, <<\hBE, "ldx", "y_indexed">>, <<\hC0, "cpy", "immediate">>,
    <<\hC1, "cmp", "pre_indexed_indirect">>, <<\hC4, "cpy", "absolute_zero">>,
    <<\hC5, "cmp", "absolute_zero">>, <<\hC6, "dec", "absolute_zero">>, <<\hC8, "iny", "implied">>,
    <<\hC9, "cmp", "immediate">>, <<\hCA, "dex", "implied">>, <<\hCC, "cpy", "absolute">>,
    <<\hCD, "cmp", "absolute">>, <<\hCE, "dec", "absolute">>, <<\hD0, "bne", "immediate">>,
    <<\hD1, "cmp", "post_indexed_indirect">>, <<\hD5, "cmp", "x_indexed_zero">>,
    <<\hD6, "dec", "x_indexed_zero">>, <<\hD8, "cld", "implied">>, <<\hD9, "cmp", "y_indexed">>,
    <<\hDD, "cmp", "x_indexed">>, <<\hDE, "dec", "x_indexed">>, <<\hE0, "cpx", "immediate">>,
    <<\hE1, "sbc", "pre_indexed_indirect">>, <<\hE4, "cpx", "absolute_zero">>,
    <<\hE5, "sbc", "absolute_zero">>, <<\hE6, "inc", "absolute_zero">>, <<\hE8, "inx", "implied">>,
    <<\hE9, "sbc", "immediate">>, <<\hEA, "nop", "implied">>, <<\hEC, "cpx", "absolute">>,
    <<\hED, "sbc", "absolute">>, <<\hEE, "inc", "absolute">>, <<\hF0, "beq", "immediate">>,
    <<\hF1, "sbc", "post_indexed_indirect">>, <<\hF5, "sbc", "x_indexed_zero">>,
    <<\hF6, "inc", "x_indexed_zero">>, <<\hF8, "sed", "implied">>, <<\hF9, "sbc", "y_indexed">>,
    <<\hFD, "sbc", "x_indexed">>, <<\hFE, "inc", "x_indexed">>>>

dispatch_table ==
  [hexcode \in Byte |->
     LET rows == {i \in 1 .. Len(DefineOpcodes) : DefineOpcodes[i][1] = hexcode}
     IN  IF rows = {}
         THEN [code |-> "illegal", addr |-> "implied"]
         ELSE LET last == CHOOSE i \in rows : \A j \in rows : j <= i
              IN  [code |-> DefineOpcodes[last][2], addr |-> DefineOpcodes[last][3]]]

(***************************************************************************)
(* Addressing modes: the bytes by which the mode advances PC, and the      *)
(* address it returns when PC is p.  JMP's indirect mode advances PC by    *)
(* one only; the indexed zero page modes do not wrap to the zero page; the *)
(* post-indexed mode reads one byte of the pointer.                        *)
(***************************************************************************)
(* A slip: y_indexed skips one byte of its two. *)
OperandBytesShort(mode) ==
  CASE mode \in {"implied", "accumulator"}  -> 0
    [] mode \in {"absolute", "x_indexed"}   -> 2
    [] OTHER                                -> 1

OperandBytes(mode) ==
  CASE mode \in {"implied", "accumulator"}             -> 0
    [] mode \in {"absolute", "x_indexed", "y_indexed"} -> 2
    [] OTHER                                           -> 1

Source(c, m, mode, p) ==
  CASE mode = "immediate"             -> p
    [] mode = "absolute"              -> read_word(m, p)
    [] mode = "absolute_zero"         -> read_byte(m, p)
    [] mode = "accumulator"           -> c.A
    [] mode = "x_indexed"             -> U16(read_word(m, p) + c.X)
    [] mode = "y_indexed"             -> U16(read_word(m, p) + c.Y)
    [] mode = "x_indexed_zero"        -> read_byte(m, p) + c.X
    [] mode = "y_indexed_zero"        -> read_byte(m, p) + c.Y
    [] mode = "indirect"              -> read_word(m, read_word(m, p))
    [] mode = "pre_indexed_indirect"  -> read_word(m, U8(read_byte(m, p) + c.X))
    [] mode = "post_indexed_indirect" -> read_byte(m, read_byte(m, p)) + c.Y
    [] OTHER                          -> 0

(***************************************************************************)
(* The rest of CPU::cycle: fetch, addressing mode, instruction.  `fetched' *)
(* is the register file as the instruction finds it and `src' its operand  *)
(* address.                                                                *)
(***************************************************************************)
instruction == dispatch_table[read_byte(mem, cpu.PC)]
fetched     == [cpu EXCEPT !.PC = U16(@ + 1 + OperandBytes(instruction.addr))]
src         == Source(cpu, mem, instruction.addr, U16(cpu.PC + 1))
operand     == read_byte(mem, src)

Executing(code) == at = "fetch" /\ instruction.code = code

Retire(c, m) ==
  /\ cpu' = c /\ mem' = m
  /\ at' = "cycle_irq"
  /\ UNCHANGED <<int, serving, raising>>

(* Flags of a STATUS: one flag set to a condition; S and Z set from a byte. *)
Flag(status, mask, on) == IF on THEN status \cup {mask} ELSE status \ {mask}
Negative(v)            == HasBit(v, kMaskSign)
SignZero(status, v)    == Flag(Flag(status, kMaskSign, Negative(v)), kMaskZero, v = 0)

C(c) == IF kMaskCarry \in c.STATUS THEN 1 ELSE 0

(* The instruction leaves v in a register, or at its operand address, and  *)
(* sets S and Z from it.                                                   *)
AssignA(v) == Retire([fetched EXCEPT !.A = v, !.STATUS = SignZero(@, v)], mem)
(* A slip: Z is not cleared by a value other than zero. *)
AssignXKeepZero(v) ==
  Retire([fetched EXCEPT !.X = v,
            !.STATUS = Flag(@, kMaskSign, Negative(v)) \cup (IF v = 0 THEN {kMaskZero} ELSE {})],
         mem)
AssignX(v) == Retire([fetched EXCEPT !.X = v, !.STATUS = SignZero(@, v)], mem)
AssignY(v) == Retire([fetched EXCEPT !.Y = v, !.STATUS = SignZero(@, v)], mem)
Modify(v)  == Retire([fetched EXCEPT !.STATUS = SignZero(@, v)], write_byte(mem, src, v))

(* As Modify, for the shifts: the bit shifted out becomes C. *)
Shift(v, carry) ==
  Retire([fetched EXCEPT !.STATUS = Flag(SignZero(@, v), kMaskCarry, carry)],
         write_byte(mem, src, v))

SetFlag(mask, on) == Retire([fetched EXCEPT !.STATUS = Flag(@, mask, on)], mem)

Branch(taken) == Retire([fetched EXCEPT !.PC = IF taken THEN U16(@ + operand) ELSE @], mem)

(* A slip: the difference is a byte. *)
CompareByte(v) ==
  LET result == U8(v - operand)
  IN  Retire([fetched EXCEPT !.STATUS =
                Flag(SignZero(@, result), kMaskCarry, result < \h100)], mem)

Compare(v) ==
  LET result == U16(v - operand)
  IN  Retire([fetched EXCEPT !.STATUS =
                Flag(SignZero(@, U8(result)), kMaskCarry, result < \h100)], mem)

-----------------------------------------------------------------------------
(* Instructions, one action for each op_ method. *)
op_illegal == Executing("illegal") /\ Retire([fetched EXCEPT !.illegal_opcode = TRUE], mem)

(* A slip: V is set when the sign of A changes, whatever the operand's. *)
op_adc_sign_change ==
  LET tmp      == operand + cpu.A + C(cpu)
      overflow == Negative(cpu.A) # Negative(tmp)
      binary(status) == Flag(Flag(Flag(status, kMaskSign, Negative(tmp)),
                                  kMaskOverflow, overflow), kMaskCarry, tmp > \hFF)
  IN  /\ Executing("adc")
      /\ Retire([fetched EXCEPT !.A = U8(tmp),
                   !.STATUS = Flag(IF kMaskDecimal \in @ THEN @ ELSE binary(@),
                                   kMaskZero, U8(tmp) = 0)], mem)

(* In decimal mode only A and Z are computed. *)
op_adc ==
  LET tmp      == operand + cpu.A + C(cpu)
      overflow == Negative(cpu.A) = Negative(operand) /\ Negative(cpu.A) # Negative(tmp)
      binary(status) == Flag(Flag(Flag(status, kMaskSign, Negative(tmp)),
                                  kMaskOverflow, overflow), kMaskCarry, tmp > \hFF)
  IN  /\ Executing("adc")
      /\ Retire([fetched EXCEPT !.A = U8(tmp),
                   !.STATUS = Flag(IF kMaskDecimal \in @ THEN @ ELSE binary(@),
                                   kMaskZero, U8(tmp) = 0)], mem)

op_and == Executing("and") /\ AssignA(ByteAnd(cpu.A, operand))
op_asl == Executing("asl") /\ Shift(U8(2 * operand), Negative(operand))
op_bcc == Executing("bcc") /\ Branch(kMaskCarry \notin cpu.STATUS)
op_bcs == Executing("bcs") /\ Branch(kMaskCarry \in cpu.STATUS)
op_beq == Executing("beq") /\ Branch(kMaskZero \in cpu.STATUS)

op_bit ==
  LET res == ByteAnd(operand, cpu.A)
  IN  /\ Executing("bit")
      /\ Retire([fetched EXCEPT !.STATUS =
                   Flag(SignZero(@, res), kMaskOverflow, HasBit(res, \h40))], mem)

op_bmi == Executing("bmi") /\ Branch(kMaskSign \in cpu.STATUS)
op_bne == Executing("bne") /\ Branch(kMaskZero \notin cpu.STATUS)
op_bpl == Executing("bpl") /\ Branch(kMaskSign \notin cpu.STATUS)

op_brk ==
  /\ Executing("brk")
  /\ LET c == [fetched EXCEPT !.PC = U16(@ + 1)]
         s == SavedFrame(c, mem, c.STATUS \cup {kMaskBreak})
     IN  Retire(Entered(c, s, kVecBRK), s.mem)

op_bvs == Executing("bvs") /\ Branch(kMaskOverflow \in cpu.STATUS)
op_clc == Executing("clc") /\ SetFlag(kMaskCarry, FALSE)
op_cld == Executing("cld") /\ SetFlag(kMaskDecimal, FALSE)
op_cli == Executing("cli") /\ SetFlag(kMaskInterrupt, FALSE)
op_clv == Executing("clv") /\ SetFlag(kMaskOverflow, FALSE)
op_cmp == Executing("cmp") /\ Compare(cpu.A)
op_cpx == Executing("cpx") /\ Compare(cpu.X)
op_cpy == Executing("cpy") /\ Compare(cpu.Y)
op_dec == Executing("dec") /\ Modify(U8(operand - 1))
op_dex == Executing("dex") /\ AssignX(U8(cpu.X - 1))
op_dey == Executing("dey") /\ AssignY(U8(cpu.Y - 1))
op_eor == Executing("eor") /\ AssignA(ByteXor(cpu.A, operand))

(* A slip: the result is stored without its wrap. *)
op_inc_no_wrap == Executing("inc") /\ Modify(operand + 1)
op_inc == Executing("inc") /\ Modify(U8(operand + 1))
op_inx == Executing("inx") /\ AssignX(U8(cpu.X + 1))
op_iny == Executing("iny") /\ AssignY(U8(cpu.Y + 1))
op_jmp == Executing("jmp") /\ Retire([fetched EXCEPT !.PC = src], mem)

op_jsr ==
  /\ Executing("jsr")
  /\ LET s == stack_push_word(Stack(cpu, mem), U16(fetched.PC - 1))
     IN  Retire([fetched EXCEPT !.SP = s.SP, !.PC = src], s.mem)

op_lda == Executing("lda") /\ AssignA(operand)
op_ldx == Executing("ldx") /\ AssignX(operand)
op_ldy == Executing("ldy") /\ AssignY(operand)
op_lsr == Executing("lsr") /\ Shift(operand \div 2, HasBit(operand, \h01))
op_nop == Executing("nop") /\ Retire(fetched, mem)
op_ora == Executing("ora") /\ AssignA(ByteOr(cpu.A, operand))

Push(value) ==
  LET s == stack_push_byte(Stack(cpu, mem), value)
  IN  Retire([fetched EXCEPT !.SP = s.SP], s.mem)

op_pha == Executing("pha") /\ Push(cpu.A)
op_php == Executing("php") /\ Push(FromBits(cpu.STATUS \cup {kMaskBreak}))

op_pla ==
  /\ Executing("pla")
  /\ LET s == stack_pop_byte(Stack(cpu, mem))
     IN  Retire([fetched EXCEPT !.SP = s.SP, !.A = s.value,
                                !.STATUS = SignZero(@, s.value)], mem)

(* A slip: the constant bit is popped like the others. *)
op_plp_no_constant ==
  /\ Executing("plp")
  /\ LET s == stack_pop_byte(Stack(cpu, mem))
     IN  Retire([fetched EXCEPT !.SP = s.SP, !.STATUS = Bits(s.value) \ {kMaskBreak}], mem)

op_plp ==
  /\ Executing("plp")
  /\ LET s == stack_pop_byte(Stack(cpu, mem))
     IN  Retire([fetched EXCEPT !.SP = s.SP, !.STATUS =
                   (Bits(s.value) \cup {kMaskConstant}) \ {kMaskBreak}], mem)

op_rol ==
  LET shifted == 2 * operand + C(cpu)
  IN  Executing("rol") /\ Shift(U8(shifted), shifted > \hFF)

(* A slip: C enters below bit 8 and is shifted to bit 6. *)
op_ror_low ==
  LET shifted == operand + \h80 * C(cpu)
  IN  Executing("ror") /\ Shift(U8(shifted \div 2), HasBit(shifted, \h01))

op_ror ==
  LET shifted == operand + \h100 * C(cpu)
  IN  Executing("ror") /\ Shift(U8(shifted \div 2), HasBit(shifted, \h01))

(* A slip: RTI adds one to the address as RTS does. *)
op_rti_plus_one ==
  /\ Executing("rti")
  /\ LET status == stack_pop_byte(Stack(cpu, mem))
         pc     == stack_pop_word(status)
     IN  Retire([fetched EXCEPT !.SP = pc.SP, !.PC = U16(pc.value + 1),
                                !.STATUS = Bits(status.value) \cup {kMaskConstant}], mem)

op_rti ==
  /\ Executing("rti")
  /\ LET status == stack_pop_byte(Stack(cpu, mem))
         pc     == stack_pop_word(status)
     IN  Retire([fetched EXCEPT !.SP = pc.SP, !.PC = pc.value,
                                !.STATUS = Bits(status.value) \cup {kMaskConstant}], mem)

(* A slip: RTS does not step over the last byte of JSR. *)
op_rts_same ==
  /\ Executing("rts")
  /\ LET pc == stack_pop_word(Stack(cpu, mem))
     IN  Retire([fetched EXCEPT !.SP = pc.SP, !.PC = pc.value], mem)

op_rts ==
  /\ Executing("rts")
  /\ LET pc == stack_pop_word(Stack(cpu, mem))
     IN  Retire([fetched EXCEPT !.SP = pc.SP, !.PC = U16(pc.value + 1)], mem)

(* The decimal flag changes nothing. *)
op_sbc ==
  LET tmp      == U16(cpu.A - operand - C(cpu))
      res      == U8(tmp)
      overflow == Negative(cpu.A) # Negative(res) /\ Negative(cpu.A) # Negative(operand)
  IN  /\ Executing("sbc")
      /\ Retire([fetched EXCEPT !.A = res, !.STATUS =
                   Flag(Flag(SignZero(@, res), kMaskOverflow, overflow),
                        kMaskCarry, tmp < \h100)], mem)

op_sec == Executing("sec") /\ SetFlag(kMaskCarry, TRUE)
op_sed == Executing("sed") /\ SetFlag(kMaskDecimal, TRUE)
op_sei == Executing("sei") /\ SetFlag(kMaskInterrupt, TRUE)
op_sta == Executing("sta") /\ Retire(fetched, write_byte(mem, src, cpu.A))
op_stx == Executing("stx") /\ Retire(fetched, write_byte(mem, src, cpu.X))
op_sty == Executing("sty") /\ Retire(fetched, write_byte(mem, src, cpu.Y))
op_tax == Executing("tax") /\ AssignX(cpu.A)
op_tay == Executing("tay") /\ AssignY(cpu.A)
op_tsx == Executing("tsx") /\ AssignX(cpu.SP)
op_txa == Executing("txa") /\ AssignA(cpu.X)
op_txs == Executing("txs") /\ Retire([fetched EXCEPT !.SP = cpu.X], mem)
op_tya == Executing("tya") /\ AssignA(cpu.Y)

-----------------------------------------------------------------------------
(* WAI, step by step: it is fetched and mutex_int is locked. *)
op_wai ==
  /\ Executing("wai")
  /\ cpu' = fetched
  /\ at' = "wai_test"
  /\ UNCHANGED <<mem, int, serving, raising>>

(* The predicate of cv_int.wait. *)
wai_test ==
  /\ at = "wai_test"
  /\ at' = IF \E l \in Line : int[l] THEN "wai_nmi" ELSE "wai_sleep"
  /\ UNCHANGED <<cpu, mem, int, serving, raising>>

(* wait releases mutex_int and starts to wait for a notification. *)
wai_sleep ==
  /\ at = "wai_sleep"
  /\ at' = "wai_blocked"
  /\ UNCHANGED <<cpu, mem, int, serving, raising>>

(* A condition variable may wake its waiter with no notification. *)
spurious_wakeup ==
  /\ at = "wai_blocked"
  /\ at' = "wai_test"
  /\ UNCHANGED <<cpu, mem, int, serving, raising>>

-----------------------------------------------------------------------------
(* Bus::int_irq, int_nmi and int_res: the store of the flag, ...           *)
(* MaxStack bounds the model: it keeps interrupts from nesting for ever.   *)
raise_flag(d, l) ==
  /\ raising[d] = "none"
  /\ kStackReset - cpu.SP <= MaxStack
  /\ int' = [int EXCEPT ![l] = TRUE]
  /\ raising' = [raising EXCEPT ![d] = l]
  /\ UNCHANGED <<cpu, mem, at, serving>>

(* A slip: the device does not notify. *)
notify_none(d) ==
  /\ raising[d] # "none"
  /\ raising' = [raising EXCEPT ![d] = "none"]
  /\ UNCHANGED <<cpu, mem, int, at, serving>>

(* ... then notify_one, which wakes the CPU thread only if it waits already. *)
notify_one(d) ==
  /\ raising[d] # "none"
  /\ raising' = [raising EXCEPT ![d] = "none"]
  /\ at' = IF at = "wai_blocked" THEN "wai_test" ELSE at
  /\ UNCHANGED <<cpu, mem, int, serving>>

-----------------------------------------------------------------------------
Instructions ==
  \/ op_illegal \/ op_adc \/ op_and \/ op_asl \/ op_bcc \/ op_bcs \/ op_beq \/ op_bit
  \/ op_bmi \/ op_bne \/ op_bpl \/ op_brk \/ op_bvs \/ op_clc \/ op_cld \/ op_cli
  \/ op_clv \/ op_cmp \/ op_cpx \/ op_cpy \/ op_dec \/ op_dex \/ op_dey \/ op_eor
  \/ op_inc \/ op_inx \/ op_iny \/ op_jmp \/ op_jsr \/ op_lda \/ op_ldx \/ op_ldy
  \/ op_lsr \/ op_nop \/ op_ora \/ op_pha \/ op_php \/ op_pla \/ op_plp \/ op_rol
  \/ op_ror \/ op_rti \/ op_rts \/ op_sbc \/ op_sec \/ op_sed \/ op_sei \/ op_sta
  \/ op_stx \/ op_sty \/ op_tax \/ op_tay \/ op_tsx \/ op_txa \/ op_txs \/ op_tya
  \/ op_wai

CPUThread == start_returns \/ Poll \/ handle_irq \/ handle_nmi \/ handle_res
             \/ Instructions \/ wai_test \/ wai_sleep

Next ==
  \/ CPUThread
  \/ spurious_wakeup
  \/ \E d \in Devices : notify_one(d) \/ \E l \in Lines[d] : raise_flag(d, l)

Spec == Init /\ [][Next]_vars

(***************************************************************************)
(* The scheduler runs every thread that can run: the CPU thread, and a     *)
(* device that has set a flag goes on to its notify_one.  Nothing forces a *)
(* device to raise an interrupt, nor a wakeup to happen spuriously.        *)
(*                                                                         *)
(* The first conjunct is WF_vars(CPUThread) with ENABLED spelled out: the  *)
(* CPU thread has a step unless it has returned or waits in cv_int.        *)
(***************************************************************************)
CPUCanRun == at \notin {"wai_blocked", "stopped"}

Fairness ==
  /\ []<>~CPUCanRun \/ []<><<CPUThread>>_vars
  /\ \A d \in Devices : WF_vars(notify_one(d))

FairSpec == Spec /\ Fairness
=============================================================================
