-------------------------------- MODULE ISA --------------------------------
(***************************************************************************)
(* What src/include/cpu.h and src/docs/6502.txt promise of the             *)
(* instructions, stated on the steps that execute them: arithmetic against *)
(* the integers, the flag columns of the instruction headers, which bytes  *)
(* an instruction may write, and where the next one is fetched.            *)
(***************************************************************************)
EXTENDS CPU

Executes(codes) == at = "fetch" /\ at' # at /\ instruction.code \in codes

(* A flag after the step, as a number and as a truth value. *)
Carry1         == C(cpu')
IsSet(c, mask) == mask \in c.STATUS

-----------------------------------------------------------------------------
(***************************************************************************)
(* Outside decimal mode ADC adds: A and C together hold the unsigned sum,  *)
(* V tells whether the signed sum leaves the range of a byte, S and Z      *)
(* describe A (op_adc).                                                    *)
(***************************************************************************)
AdcAdds ==
  [][Executes({"adc"}) /\ ~IsSet(cpu, kMaskDecimal)
       => LET signed == Signed(cpu.A) + Signed(operand) + C(cpu)
          IN  /\ cpu'.A + \h100 * Carry1 = cpu.A + operand + C(cpu)
              /\ IsSet(cpu', kMaskOverflow) <=> signed \notin -128 .. 127
              /\ IsSet(cpu', kMaskSign) <=> cpu'.A > 127
              /\ IsSet(cpu', kMaskZero) <=> cpu'.A = 0]_vars

(***************************************************************************)
(* CMP, CPX and CPY order two unsigned bytes: C is set if no borrow is     *)
(* needed, Z if they are equal, S is bit 7 of the difference; no register  *)
(* changes (op_cmp, op_cpx, op_cpy compute in a uint16_t).                 *)
(***************************************************************************)
ComparesOrder ==
  [][Executes({"cmp", "cpx", "cpy"})
       => LET register == CASE instruction.code = "cmp" -> cpu.A
                            [] instruction.code = "cpx" -> cpu.X
                            [] OTHER                    -> cpu.Y
          IN  /\ IsSet(cpu', kMaskCarry) <=> register >= operand
              /\ IsSet(cpu', kMaskZero) <=> register = operand
              /\ IsSet(cpu', kMaskSign) <=> U8(register - operand) > 127
              /\ <<cpu'.A, cpu'.X, cpu'.Y>> = <<cpu.A, cpu.X, cpu.Y>>]_vars

(***************************************************************************)
(* A shift of a byte of RAM loses no bit: the byte, C before, the result   *)
(* and C after balance (op_asl, op_lsr, op_rol, op_ror).                   *)
(***************************************************************************)
ShiftsLoseNoBit ==
  [][Executes({"asl", "lsr", "rol", "ror"}) /\ src < kSizeRAM
       => LET result == read_byte(mem', src)
          IN  CASE instruction.code = "asl" -> 2 * operand = \h100 * Carry1 + result
                [] instruction.code = "lsr" -> operand = 2 * result + Carry1
                [] instruction.code = "rol" -> 2 * operand + C(cpu) = \h100 * Carry1 + result
                [] OTHER -> operand + \h100 * C(cpu) = 2 * result + Carry1]_vars

(***************************************************************************)
(* The columns "N Z C I D V" of the instruction headers in                 *)
(* src/include/cpu.h; PLA's is the one of op_pla (its header leaves N and  *)
(* Z out).                                                                 *)
(***************************************************************************)
FlagColumns(code) ==
  CASE code \in {"adc", "sbc"} -> {kMaskSign, kMaskZero, kMaskCarry, kMaskOverflow}
    [] code \in {"asl", "lsr", "rol", "ror", "cmp", "cpx", "cpy"} ->
         {kMaskSign, kMaskZero, kMaskCarry}
    [] code = "bit" -> {kMaskSign, kMaskZero, kMaskOverflow}
    [] code \in {"and", "dec", "dex", "dey", "eor", "inc", "inx", "iny", "lda", "ldx", "ldy",
                 "ora", "pla", "tax", "tay", "tsx", "txa", "tya"} -> {kMaskSign, kMaskZero}
    [] code \in {"clc", "sec"} -> {kMaskCarry}
    [] code \in {"cld", "sed"} -> {kMaskDecimal}
    [] code \in {"cli", "sei", "brk"} -> {kMaskInterrupt}
    [] code = "clv" -> {kMaskOverflow}
    [] code \in {"plp", "rti"} -> Masks \ {kMaskConstant}
    [] OTHER -> {}

(***************************************************************************)
(* An instruction changes no flag outside its column, and S and Z, where   *)
(* they are in its column with a single destination, describe what it left *)
(* there (the op_ methods and the headers of src/include/cpu.h).           *)
(***************************************************************************)
FlagsAsDocumented ==
  [][at = "fetch" /\ at' # at
       => LET code == instruction.code
              Describes(v) == /\ IsSet(cpu', kMaskSign) <=> v > 127
                              /\ IsSet(cpu', kMaskZero) <=> v = 0
          IN  /\ cpu.STATUS \ FlagColumns(code) = cpu'.STATUS \ FlagColumns(code)
              /\ code \in {"and", "eor", "ora", "lda", "pla", "txa", "tya", "sbc"}
                   => Describes(cpu'.A)
              /\ code \in {"ldx", "tax", "tsx", "inx", "dex"} => Describes(cpu'.X)
              /\ code \in {"ldy", "tay", "iny", "dey"} => Describes(cpu'.Y)]_vars

-----------------------------------------------------------------------------
(* How many bytes an instruction pushes. *)
Pushes(code) ==
  CASE code = "brk" -> 3
    [] code = "jsr" -> 2
    [] code \in {"pha", "php"} -> 1
    [] OTHER -> 0

(***************************************************************************)
(* An instruction writes its operand address if it stores or modifies, the *)
(* stack slots it pushes, and nothing else; and never the ROM module.      *)
(***************************************************************************)
WritesOnlyOperandAndStack ==
  [][at = "fetch" /\ at' # at
       => LET code    == instruction.code
              written == {a \in DOMAIN mem' : read_byte(mem', a) # read_byte(mem, a)}
              stacked == {kStackBase + ((cpu.SP - i) % \h100) : i \in 0 .. Pushes(code) - 1}
              target  == IF code \in {"sta", "stx", "sty", "inc", "dec",
                                      "asl", "lsr", "rol", "ror"} THEN {src} ELSE {}
          IN  /\ written \subseteq stacked \cup target
              /\ \A a \in written : a < kAddrROM]_vars

(***************************************************************************)
(* Instructions that do not transfer control are followed by the next one: *)
(* PC advances by the column "No. Bytes" of the instruction headers, which *)
(* depends on the addressing mode; a branch not taken likewise.            *)
(***************************************************************************)
InstructionBytes(mode) ==
  CASE mode \in {"implied", "accumulator"} -> 1
    [] mode \in {"absolute", "x_indexed", "y_indexed"} -> 3
    [] OTHER -> 2

BranchTaken(code) ==
  CASE code = "bcc" -> ~IsSet(cpu, kMaskCarry)
    [] code = "bcs" -> IsSet(cpu, kMaskCarry)
    [] code = "beq" -> IsSet(cpu, kMaskZero)
    [] code = "bne" -> ~IsSet(cpu, kMaskZero)
    [] code = "bmi" -> IsSet(cpu, kMaskSign)
    [] code = "bpl" -> ~IsSet(cpu, kMaskSign)
    [] code = "bvs" -> IsSet(cpu, kMaskOverflow)
    [] OTHER        -> FALSE

FollowedByNext ==
  [][at = "fetch" /\ at' # at /\ ~BranchTaken(instruction.code)
       /\ instruction.code \notin {"jmp", "jsr", "rts", "rti", "brk"}
       => cpu'.PC = U16(cpu.PC + InstructionBytes(instruction.addr))]_vars

(***************************************************************************)
(* Bit 5 of STATUS is "Supposed to be logical 1 at all times"              *)
(* (src/docs/6502.txt), also after PLP and RTI loaded a byte without it.   *)
(***************************************************************************)
ConstantFlagSet == kMaskConstant \in cpu.STATUS

-----------------------------------------------------------------------------
(***************************************************************************)
(* Documentation of relative addressing (src/docs/6502.txt): the byte of a *)
(* taken branch "is treated as a signed number" and counted from the next  *)
(* instruction.  The op_b methods add it unsigned (op_bcc and the others). *)
(***************************************************************************)
BranchesAsDocumented ==
  [][at = "fetch" /\ at' # at /\ BranchTaken(instruction.code)
       => cpu'.PC = U16(cpu.PC + 2 + Signed(operand))]_vars
=============================================================================
