----------------------------- MODULE ISAProofs -----------------------------
(***************************************************************************)
(* Proofs of what module ISA promises of the instructions, for every       *)
(* program, memory and set of devices: arithmetic, comparisons, shifts,    *)
(* flag columns, the bytes an instruction writes and the place of the next *)
(* one.                                                                    *)
(*                                                                         *)
(* Each theorem is a promise about single steps.  It needs the type        *)
(* invariant and the constant bit (Good, AlwaysGood), that a step from     *)
(* "fetch" to another place executes one instruction (FetchExecutes), that *)
(* the instruction is the one the opcode names (OpCodes), and a case       *)
(* distinction over the instructions, in families that share an action.    *)
(***************************************************************************)
EXTENDS CPUProofs

-----------------------------------------------------------------------------
(* What the instructions promise. *)

(* A step from "fetch" to another place executes an instruction. *)
LEMMA FetchExecutes ==
  ASSUME [Next]_vars, at = "fetch", at' # at
  PROVE  Instructions
<1>1. at \notin PollPlace
  BY DEF PollPlace
<1>2. ~start_returns /\ ~Poll /\ ~wai_test /\ ~wai_sleep /\ ~spurious_wakeup
  BY <1>1 DEF start_returns, Poll, wai_test, wai_sleep, spurious_wakeup
<1>3. ~handle_irq /\ ~handle_nmi /\ ~handle_res
  BY <1>1 DEF handle_irq, handle_nmi, handle_res, Handle
<1>4. \A d \in Devices : ~notify_one(d) /\ \A l \in Lines[d] : ~raise_flag(d, l)
  BY DEF notify_one, raise_flag
<1>5. ~UNCHANGED vars
  BY DEF vars
<1> QED
  BY <1>2, <1>3, <1>4, <1>5 DEF Next, CPUThread

(* The action of each instruction executes the opcodes that name it. *)
LEMMA OpCodes ==
  /\ op_illegal => instruction.code = "illegal"
  /\ op_adc => instruction.code = "adc"
  /\ op_and => instruction.code = "and"
  /\ op_asl => instruction.code = "asl"
  /\ op_bcc => instruction.code = "bcc"
  /\ op_bcs => instruction.code = "bcs"
  /\ op_beq => instruction.code = "beq"
  /\ op_bit => instruction.code = "bit"
  /\ op_bmi => instruction.code = "bmi"
  /\ op_bne => instruction.code = "bne"
  /\ op_bpl => instruction.code = "bpl"
  /\ op_brk => instruction.code = "brk"
  /\ op_bvs => instruction.code = "bvs"
  /\ op_clc => instruction.code = "clc"
  /\ op_cld => instruction.code = "cld"
  /\ op_cli => instruction.code = "cli"
  /\ op_clv => instruction.code = "clv"
  /\ op_cmp => instruction.code = "cmp"
  /\ op_cpx => instruction.code = "cpx"
  /\ op_cpy => instruction.code = "cpy"
  /\ op_dec => instruction.code = "dec"
  /\ op_dex => instruction.code = "dex"
  /\ op_dey => instruction.code = "dey"
  /\ op_eor => instruction.code = "eor"
  /\ op_inc => instruction.code = "inc"
  /\ op_inx => instruction.code = "inx"
  /\ op_iny => instruction.code = "iny"
  /\ op_jmp => instruction.code = "jmp"
  /\ op_jsr => instruction.code = "jsr"
  /\ op_lda => instruction.code = "lda"
  /\ op_ldx => instruction.code = "ldx"
  /\ op_ldy => instruction.code = "ldy"
  /\ op_lsr => instruction.code = "lsr"
  /\ op_nop => instruction.code = "nop"
  /\ op_ora => instruction.code = "ora"
  /\ op_pha => instruction.code = "pha"
  /\ op_php => instruction.code = "php"
  /\ op_pla => instruction.code = "pla"
  /\ op_plp => instruction.code = "plp"
  /\ op_rol => instruction.code = "rol"
  /\ op_ror => instruction.code = "ror"
  /\ op_rti => instruction.code = "rti"
  /\ op_rts => instruction.code = "rts"
  /\ op_sbc => instruction.code = "sbc"
  /\ op_sec => instruction.code = "sec"
  /\ op_sed => instruction.code = "sed"
  /\ op_sei => instruction.code = "sei"
  /\ op_sta => instruction.code = "sta"
  /\ op_stx => instruction.code = "stx"
  /\ op_sty => instruction.code = "sty"
  /\ op_tax => instruction.code = "tax"
  /\ op_tay => instruction.code = "tay"
  /\ op_tsx => instruction.code = "tsx"
  /\ op_txa => instruction.code = "txa"
  /\ op_txs => instruction.code = "txs"
  /\ op_tya => instruction.code = "tya"
  /\ op_wai => instruction.code = "wai"
BY DEF op_illegal, op_adc, op_and, op_asl, op_bcc, op_bcs, op_beq, op_bit, op_bmi, op_bne, op_bpl,
       op_brk, op_bvs, op_clc, op_cld, op_cli, op_clv, op_cmp, op_cpx, op_cpy, op_dec, op_dex,
       op_dey, op_eor, op_inc, op_inx, op_iny, op_jmp, op_jsr, op_lda, op_ldx, op_ldy, op_lsr,
       op_nop, op_ora, op_pha, op_php, op_pla, op_plp, op_rol, op_ror, op_rti, op_rts, op_sbc,
       op_sec, op_sed, op_sei, op_sta, op_stx, op_sty, op_tax, op_tay, op_tsx, op_txa, op_txs,
       op_tya, op_wai, Executing

(* The masks are eight different numbers. *)
LEMMA MasksDiffer ==
  /\ kMaskSign # kMaskOverflow /\ kMaskSign # kMaskZero /\ kMaskSign # kMaskCarry
  /\ kMaskOverflow # kMaskZero /\ kMaskOverflow # kMaskCarry /\ kMaskZero # kMaskCarry
  /\ kMaskDecimal \notin {kMaskSign, kMaskOverflow, kMaskZero, kMaskCarry}
  /\ kMaskInterrupt \notin {kMaskSign, kMaskOverflow, kMaskZero, kMaskCarry, kMaskDecimal}
  /\ kMaskConstant \notin {kMaskSign, kMaskOverflow, kMaskZero, kMaskCarry, kMaskDecimal,
                           kMaskInterrupt}
  /\ kMaskBreak \notin {kMaskSign, kMaskOverflow, kMaskZero, kMaskCarry, kMaskDecimal,
                        kMaskInterrupt, kMaskConstant}
BY SMT DEF kMaskSign, kMaskOverflow, kMaskConstant, kMaskBreak, kMaskDecimal,
           kMaskInterrupt, kMaskZero, kMaskCarry

(* What setting one flag does to a flag. *)
LEMMA FlagSet ==
  ASSUME NEW S, NEW mask, NEW on
  PROVE  /\ mask \in Flag(S, mask, on) <=> on
         /\ \A m : m # mask => (m \in Flag(S, mask, on) <=> m \in S)
BY DEF Flag

(* S and Z after they are set from a byte, and the other flags. *)
LEMMA SignZeroSet ==
  ASSUME NEW S, NEW v
  PROVE  /\ kMaskSign \in SignZero(S, v) <=> Negative(v)
         /\ kMaskZero \in SignZero(S, v) <=> v = 0
         /\ \A m : m \notin {kMaskSign, kMaskZero} => (m \in SignZero(S, v) <=> m \in S)
<1> DEFINE S1 == Flag(S, kMaskSign, Negative(v))
<1>1. /\ kMaskSign \in S1 <=> Negative(v)
      /\ \A m : m # kMaskSign => (m \in S1 <=> m \in S)
  BY FlagSet
<1> HIDE DEF S1
<1>2. SignZero(S, v) = IF v = 0 THEN S1 \cup {kMaskZero} ELSE S1 \ {kMaskZero}
  BY DEF SignZero, S1, Flag
<1> QED
  BY <1>1, <1>2, MasksDiffer

(* Bit 7 of a byte. *)
LEMMA NegativeByte == \A v \in Byte : Negative(v) <=> v > 127
BY SMT, ByteBounds DEF Negative, HasBit, kMaskSign

(* The steps of a CPU that keeps Good. *)
LEMMA AlwaysGood == Spec => []Good
<1>1. Init => Good
  BY InitGood
<1>2. Good /\ [Next]_vars => Good'
  BY NextGood
<1> QED
  BY <1>1, <1>2, PTL DEF Spec

(* Every property below is of the steps of a well-typed CPU. *)
LEMMA InstructionParts ==
  ASSUME TypeOK
  PROVE  /\ cpu \in CPUState /\ IsMemory(mem) /\ fetched \in CPUState
         /\ src \in Word /\ operand \in Byte
         /\ fetched.A = cpu.A /\ fetched.X = cpu.X /\ fetched.Y = cpu.Y
         /\ fetched.SP = cpu.SP /\ fetched.STATUS = cpu.STATUS
         /\ fetched.PC = U16(cpu.PC + 1 + OperandBytes(instruction.addr))
         /\ cpu.A \in Byte /\ cpu.X \in Byte /\ cpu.Y \in Byte /\ cpu.SP \in Byte
         /\ cpu.PC \in Word /\ cpu.STATUS \subseteq Masks
<1>1. cpu \in CPUState /\ IsMemory(mem)
  BY DEF TypeOK
<1>2. fetched \in CPUState /\ src \in Word /\ operand \in Byte
  BY FetchType
<1>3. /\ fetched.A = cpu.A /\ fetched.X = cpu.X /\ fetched.Y = cpu.Y
      /\ fetched.SP = cpu.SP /\ fetched.STATUS = cpu.STATUS
      /\ fetched.PC = U16(cpu.PC + 1 + OperandBytes(instruction.addr))
  BY <1>1 DEF fetched, CPUState
<1> QED
  BY <1>1, <1>2, <1>3 DEF CPUState

(* The carry as a number. *)
LEMMA CarryBit == \A c : /\ C(c) \in {0, 1}
                         /\ C(c) = 1 <=> kMaskCarry \in c.STATUS
BY DEF C

-----------------------------------------------------------------------------
(* The sum of two bytes and a carry, and what its bit 7 tells of the signed *)
(* sum.                                                                      *)
Adds(a, b, c) ==
  LET tmp    == b + a + c
      signed == Signed(a) + Signed(b) + c
  IN  /\ U8(tmp) + \h100 * (IF tmp > \hFF THEN 1 ELSE 0) = a + b + c
      /\ U8(tmp) \in Byte
      /\ Negative(tmp) <=> U8(tmp) > 127
      /\ (Negative(a) = Negative(b) /\ Negative(a) # Negative(tmp)) <=> signed \notin -128 .. 127

(* It is so for all of them. *)
LEMMA Addition ==
  ASSUME NEW a \in Byte, NEW b \in Byte, NEW c \in {0, 1}
  PROVE  Adds(a, b, c)
<1> DEFINE tmp == b + a + c
<1>1. a \in Int /\ 0 <= a /\ a <= 255 /\ b \in Int /\ 0 <= b /\ b <= 255
  BY ByteBounds
<1>2. tmp \in Int /\ 0 <= tmp /\ tmp <= 511
  BY SMT, <1>1
<1>3. /\ U8(tmp) = (IF tmp > 255 THEN tmp - 256 ELSE tmp)
  <2> HIDE DEF tmp
  <2> QED
    BY SMT, <1>2 DEF U8
<1>4. Negative(tmp) <=> (127 < tmp /\ tmp < 256) \/ 383 < tmp
  <2> HIDE DEF tmp
  <2> QED
    BY SMT, <1>2 DEF Negative, HasBit, kMaskSign
<1>5. (Negative(a) <=> a > 127) /\ (Negative(b) <=> b > 127)
  BY NegativeByte
<1>6. Negative(tmp) <=> U8(tmp) > 127
  BY SMT, <1>2, <1>3, <1>4
<1>7. U8(tmp) \in Byte
  BY <1>2, U8Type
<1>8. Negative(a) \in BOOLEAN /\ Negative(b) \in BOOLEAN /\ Negative(tmp) \in BOOLEAN
  BY DEF Negative, HasBit
<1>9. (Negative(a) = Negative(b) /\ Negative(a) # Negative(tmp))
        <=> ((a > 127 <=> b > 127) /\ ~(a > 127 <=> ((127 < tmp /\ tmp < 256) \/ 383 < tmp)))
  <2> HIDE DEF tmp
  <2> QED
    BY <1>4, <1>5, <1>8, Zenon
<1>10. ((a > 127 <=> b > 127) /\ ~(a > 127 <=> ((127 < tmp /\ tmp < 256) \/ 383 < tmp)))
        <=> Signed(a) + Signed(b) + c \notin -128 .. 127
  BY SMT, <1>1 DEF Signed
<1>11. U8(tmp) + \h100 * (IF tmp > \hFF THEN 1 ELSE 0) = a + b + c
  BY SMT, <1>1, <1>3
<1> QED
  BY <1>6, <1>7, <1>9, <1>10, <1>11 DEF Adds

(* What AdcAdds says of a step. *)
AdcAddsStep ==
  Executes({"adc"}) /\ ~IsSet(cpu, kMaskDecimal)
    => LET signed == Signed(cpu.A) + Signed(operand) + C(cpu)
       IN  /\ cpu'.A + \h100 * Carry1 = cpu.A + operand + C(cpu)
           /\ IsSet(cpu', kMaskOverflow) <=> signed \notin -128 .. 127
           /\ IsSet(cpu', kMaskSign) <=> cpu'.A > 127
           /\ IsSet(cpu', kMaskZero) <=> cpu'.A = 0

(* It holds of every step. *)
LEMMA AdcStep == TypeOK /\ [Next]_vars => [AdcAddsStep]_vars
<1> SUFFICES ASSUME TypeOK, [Next]_vars, Executes({"adc"}), ~IsSet(cpu, kMaskDecimal)
             PROVE  AdcAddsStep
  BY DEF AdcAddsStep
<1> DEFINE tmp      == operand + cpu.A + C(cpu)
           overflow == Negative(cpu.A) = Negative(operand) /\ Negative(cpu.A) # Negative(tmp)
           S1 == Flag(cpu.STATUS, kMaskSign, Negative(tmp))
           S2 == Flag(S1, kMaskOverflow, overflow)
           S3 == Flag(S2, kMaskCarry, tmp > \hFF)
           S4 == Flag(S3, kMaskZero, U8(tmp) = 0)
<1>1. op_adc
  BY FetchExecutes, OpCodes DEF Executes, Instructions
<1>2. cpu' = [fetched EXCEPT !.A = U8(tmp),
                 !.STATUS = Flag(IF kMaskDecimal \in fetched.STATUS THEN fetched.STATUS
                                 ELSE Flag(Flag(Flag(fetched.STATUS, kMaskSign, Negative(tmp)),
                                       kMaskOverflow, overflow), kMaskCarry, tmp > \hFF),
                                 kMaskZero, U8(tmp) = 0)]
  BY <1>1 DEF op_adc, Retire
<1>3. kMaskDecimal \notin cpu.STATUS /\ fetched.STATUS = cpu.STATUS /\ fetched \in CPUState
  BY InstructionParts DEF IsSet
<1>4. cpu'.A = U8(tmp) /\ cpu'.STATUS = S4
  <2> HIDE DEF tmp, overflow
  <2> QED
    BY <1>2, <1>3 DEF CPUState
<1>5. /\ kMaskSign \in S4 <=> Negative(tmp)
      /\ kMaskOverflow \in S4 <=> overflow
      /\ kMaskCarry \in S4 <=> tmp > \hFF
      /\ kMaskZero \in S4 <=> U8(tmp) = 0
  <2> HIDE DEF tmp, overflow
  <2>1. kMaskSign \in S1 <=> Negative(tmp)
    BY FlagSet
  <2> HIDE DEF S1
  <2>2. (kMaskSign \in S2 <=> kMaskSign \in S1) /\ (kMaskOverflow \in S2 <=> overflow)
    BY FlagSet, MasksDiffer
  <2> HIDE DEF S2
  <2>3. /\ (kMaskSign \in S3 <=> kMaskSign \in S2)
        /\ (kMaskOverflow \in S3 <=> kMaskOverflow \in S2)
        /\ (kMaskCarry \in S3 <=> tmp > \hFF)
    BY MasksDiffer DEF Flag
  <2> HIDE DEF S3
  <2>4. /\ (kMaskSign \in S4 <=> kMaskSign \in S3)
        /\ (kMaskOverflow \in S4 <=> kMaskOverflow \in S3)
        /\ (kMaskCarry \in S4 <=> kMaskCarry \in S3) /\ (kMaskZero \in S4 <=> U8(tmp) = 0)
    BY MasksDiffer DEF Flag
  <2> QED
    BY <2>1, <2>2, <2>3, <2>4
<1>6. Carry1 = IF tmp > \hFF THEN 1 ELSE 0
  <2> HIDE DEF tmp
  <2> QED
    BY <1>4, <1>5 DEF Carry1, C
<1>7. cpu.A \in Byte /\ operand \in Byte /\ C(cpu) \in {0, 1}
  BY InstructionParts, CarryBit
<1>8. /\ U8(tmp) + \h100 * (IF tmp > \hFF THEN 1 ELSE 0) = cpu.A + operand + C(cpu)
      /\ Negative(tmp) <=> U8(tmp) > 127
      /\ overflow <=> Signed(cpu.A) + Signed(operand) + C(cpu) \notin -128 .. 127
  <2>1. Adds(cpu.A, operand, C(cpu))
    BY <1>7, Addition
  <2> QED
    BY <2>1 DEF Adds
<1> HIDE DEF tmp, overflow, S4
<1> QED
  BY <1>4, <1>5, <1>6, <1>8 DEF AdcAddsStep, IsSet

(***************************************************************************)
(* ADC adds for every operand, accumulator and carry.                      *)
(***************************************************************************)
THEOREM AdditionCorrect == Spec => AdcAdds
<1>1. AdcAdds <=> [][AdcAddsStep]_vars
  BY DEF AdcAdds, AdcAddsStep
<1> QED
  BY <1>1, TypeCorrect, AdcStep, PTL DEF Spec

-----------------------------------------------------------------------------
(* A comparison in 16 bits orders two bytes. *)
LEMMA Difference ==
  ASSUME NEW v \in Byte, NEW b \in Byte
  PROVE  /\ U16(v - b) < \h100 <=> v >= b
         /\ U8(U16(v - b)) = U8(v - b)
         /\ U8(v - b) \in Byte
         /\ U8(v - b) = 0 <=> v = b
<1>1. v \in Int /\ 0 <= v /\ v <= 255 /\ b \in Int /\ 0 <= b /\ b <= 255
  BY ByteBounds
<1>2. U16(v - b) = (IF v < b THEN v - b + 65536 ELSE v - b)
  BY SMT, <1>1 DEF U16
<1>3. U8(v - b) = (IF v < b THEN v - b + 256 ELSE v - b)
  BY SMT, <1>1 DEF U8
<1>4. U8(U16(v - b)) = (IF v < b THEN v - b + 256 ELSE v - b)
  BY SMT, <1>1, <1>2 DEF U8
<1>5. U8(v - b) \in Byte
  BY <1>1, U8Type
<1>6. (U16(v - b) < \h100 <=> v >= b) /\ (U8(v - b) = 0 <=> v = b)
  BY SMT, <1>1, <1>2, <1>3
<1> QED
  BY <1>3, <1>4, <1>5, <1>6

(* What a comparison of register v leaves. *)
Compared(v) ==
  /\ IsSet(cpu', kMaskCarry) <=> v >= operand
  /\ IsSet(cpu', kMaskZero) <=> v = operand
  /\ IsSet(cpu', kMaskSign) <=> U8(v - operand) > 127
  /\ <<cpu'.A, cpu'.X, cpu'.Y>> = <<cpu.A, cpu.X, cpu.Y>>

(* So does Compare for each register. *)
LEMMA CompareOrders ==
  ASSUME TypeOK, NEW v \in Byte, Compare(v)
  PROVE  Compared(v)
<1> DEFINE result == U16(v - operand)
           S1 == SignZero(cpu.STATUS, U8(result))
           S2 == Flag(S1, kMaskCarry, result < \h100)
<1>1. cpu' = [fetched EXCEPT !.STATUS = Flag(SignZero(fetched.STATUS, U8(result)),
                                             kMaskCarry, result < \h100)]
  BY DEF Compare, Retire
<1>2. fetched.STATUS = cpu.STATUS /\ fetched \in CPUState
  BY InstructionParts
<1>3. cpu'.STATUS = S2 /\ cpu'.A = fetched.A /\ cpu'.X = fetched.X /\ cpu'.Y = fetched.Y
  <2> HIDE DEF result
  <2> QED
    BY <1>1, <1>2 DEF CPUState
<1>4. /\ kMaskSign \in S1 <=> Negative(U8(result))
      /\ kMaskZero \in S1 <=> U8(result) = 0
  BY SignZeroSet
<1>5. /\ kMaskSign \in S2 <=> kMaskSign \in S1
      /\ kMaskZero \in S2 <=> kMaskZero \in S1
      /\ kMaskCarry \in S2 <=> result < \h100
  <2> HIDE DEF S1, result
  <2> QED
    BY MasksDiffer DEF Flag
<1>6. operand \in Byte
  BY InstructionParts
<1>7. /\ result < \h100 <=> v >= operand
      /\ U8(result) = U8(v - operand)
      /\ U8(v - operand) \in Byte
      /\ U8(v - operand) = 0 <=> v = operand
  BY <1>6, Difference
<1> HIDE DEF result, S1, S2
<1>8. Negative(U8(result)) <=> U8(v - operand) > 127
  BY <1>7, NegativeByte
<1> QED
  BY <1>3, <1>4, <1>5, <1>7, <1>8, InstructionParts DEF Compared, IsSet

(* What ComparesOrder says of a step. *)
ComparesStep ==
  Executes({"cmp", "cpx", "cpy"})
    => LET register == CASE instruction.code = "cmp" -> cpu.A
                         [] instruction.code = "cpx" -> cpu.X
                         [] OTHER                    -> cpu.Y
       IN  /\ IsSet(cpu', kMaskCarry) <=> register >= operand
           /\ IsSet(cpu', kMaskZero) <=> register = operand
           /\ IsSet(cpu', kMaskSign) <=> U8(register - operand) > 127
           /\ <<cpu'.A, cpu'.X, cpu'.Y>> = <<cpu.A, cpu.X, cpu.Y>>

(* It holds of every step. *)
LEMMA CompareStep == TypeOK /\ [Next]_vars => [ComparesStep]_vars
<1> SUFFICES ASSUME TypeOK, [Next]_vars, Executes({"cmp", "cpx", "cpy"})
             PROVE  ComparesStep
  BY DEF ComparesStep
<1>1. Instructions
  BY FetchExecutes DEF Executes
<1>2. CASE instruction.code = "cmp"
  <2>1. op_cmp
    BY <1>1, <1>2, OpCodes DEF Instructions
  <2>2. Compared(cpu.A)
    BY <2>1, InstructionParts, CompareOrders DEF op_cmp
  <2> QED
    BY <1>2, <2>2 DEF Compared, ComparesStep
<1>3. CASE instruction.code = "cpx"
  <2>1. op_cpx
    BY <1>1, <1>3, OpCodes DEF Instructions
  <2>2. Compared(cpu.X)
    BY <2>1, InstructionParts, CompareOrders DEF op_cpx
  <2> QED
    BY <1>3, <2>2 DEF Compared, ComparesStep
<1>4. CASE instruction.code = "cpy"
  <2>1. op_cpy
    BY <1>1, <1>4, OpCodes DEF Instructions
  <2>2. Compared(cpu.Y)
    BY <2>1, InstructionParts, CompareOrders DEF op_cpy
  <2> QED
    BY <1>4, <2>2 DEF Compared, ComparesStep
<1> QED
  BY <1>2, <1>3, <1>4 DEF Executes

(***************************************************************************)
(* CMP, CPX and CPY order two unsigned bytes, whatever they are.           *)
(***************************************************************************)
THEOREM ComparisonsCorrect == Spec => ComparesOrder
<1>1. ComparesOrder <=> [][ComparesStep]_vars
  BY DEF ComparesOrder, ComparesStep
<1> QED
  BY <1>1, TypeCorrect, CompareStep, PTL DEF Spec

-----------------------------------------------------------------------------
(* What the shifts make of an operand and a carry. *)
Balanced(b, c) ==
  LET rolled == 2 * b + c
      whole  == b + \h100 * c
  IN  /\ 2 * b = \h100 * (IF Negative(b) THEN 1 ELSE 0) + U8(2 * b)
      /\ b = 2 * (b \div 2) + (IF HasBit(b, \h01) THEN 1 ELSE 0)
      /\ rolled = \h100 * (IF rolled > \hFF THEN 1 ELSE 0) + U8(rolled)
      /\ whole = 2 * U8(whole \div 2) + (IF HasBit(whole, \h01) THEN 1 ELSE 0)

(* Nothing is lost. *)
LEMMA ShiftArithmetic ==
  ASSUME NEW b \in Byte, NEW c \in {0, 1}
  PROVE  Balanced(b, c)
<1>1. b \in Int /\ 0 <= b /\ b <= 255
  BY ByteBounds
<1>2. 2 * b = \h100 * (IF Negative(b) THEN 1 ELSE 0) + U8(2 * b)
  <2>1. Negative(b) <=> b > 127
    BY NegativeByte
  <2> QED
    BY SMT, <1>1, <2>1 DEF U8
<1>3. b = 2 * (b \div 2) + (IF HasBit(b, \h01) THEN 1 ELSE 0)
  BY SMT, <1>1 DEF HasBit
<1>4. 2 * b + c = \h100 * (IF 2 * b + c > \hFF THEN 1 ELSE 0) + U8(2 * b + c)
  BY SMT, <1>1 DEF U8
<1>5. b + \h100 * c = 2 * U8((b + \h100 * c) \div 2)
                        + (IF HasBit(b + \h100 * c, \h01) THEN 1 ELSE 0)
  <2> DEFINE n == b + \h100 * c
  <2>1. n \in Int /\ 0 <= n /\ n <= 511
    BY SMT, <1>1
  <2> HIDE DEF n
  <2>2. n = 2 * U8(n \div 2) + (IF HasBit(n, \h01) THEN 1 ELSE 0)
    BY SMT, <2>1 DEF U8, HasBit
  <2> QED
    BY <2>2 DEF n
<1> QED
  BY <1>2, <1>3, <1>4, <1>5 DEF Balanced

(* An address of RAM reads as it was written. *)
LEMMA RAMKeeps ==
  ASSUME "RAM" \in Attached, NEW m, IsMemory(m), NEW a \in Word, a < kSizeRAM, NEW v \in Byte
  PROVE  read_byte(write_byte(m, a, v), a) = v
<1>1. resolve_address_to_device(a) = "RAM"
  BY SMT, WordBounds DEF resolve_address_to_device, kAddrIO, kAddrROM, kSizeRAM
<1> QED
  BY <1>1, ReadAfterWrite

(* The carry a shift leaves, and what its operand address reads afterwards. *)
LEMMA ShiftLeaves ==
  ASSUME TypeOK, "RAM" \in Attached, src < kSizeRAM, NEW v \in Byte, NEW carry, Shift(v, carry)
  PROVE  /\ read_byte(mem', src) = v
         /\ Carry1 = IF carry THEN 1 ELSE 0
<1> DEFINE S1 == SignZero(fetched.STATUS, v)
<1>1. /\ cpu' = [fetched EXCEPT !.STATUS = Flag(SignZero(fetched.STATUS, v), kMaskCarry, carry)]
      /\ mem' = write_byte(mem, src, v)
  BY DEF Shift, Retire
<1>2. fetched \in CPUState /\ IsMemory(mem) /\ src \in Word
  BY InstructionParts
<1>3. cpu'.STATUS = Flag(S1, kMaskCarry, carry)
  BY <1>1, <1>2 DEF CPUState
<1> HIDE DEF S1
<1>4. kMaskCarry \in cpu'.STATUS <=> carry
  BY <1>3, FlagSet
<1>5. read_byte(mem', src) = v
  BY <1>1, <1>2, RAMKeeps
<1> QED
  BY <1>4, <1>5 DEF Carry1, C

(* What ShiftsLoseNoBit says of a step. *)
ShiftsStep ==
  Executes({"asl", "lsr", "rol", "ror"}) /\ src < kSizeRAM
    => LET result == read_byte(mem', src)
       IN  CASE instruction.code = "asl" -> 2 * operand = \h100 * Carry1 + result
             [] instruction.code = "lsr" -> operand = 2 * result + Carry1
             [] instruction.code = "rol" -> 2 * operand + C(cpu) = \h100 * Carry1 + result
             [] OTHER -> operand + \h100 * C(cpu) = 2 * result + Carry1

(* It holds of every step. *)
LEMMA ShiftStep == "RAM" \in Attached /\ Good /\ [Next]_vars => [ShiftsStep]_vars
<1> SUFFICES ASSUME "RAM" \in Attached, Good, [Next]_vars,
                    Executes({"asl", "lsr", "rol", "ror"}), src < kSizeRAM
             PROVE  ShiftsStep
  BY DEF ShiftsStep
<1>1. Instructions
  BY FetchExecutes DEF Executes
<1>2. TypeOK /\ operand \in Byte /\ C(cpu) \in {0, 1}
  BY InstructionParts, CarryBit DEF Good
<1> DEFINE rolled == 2 * operand + C(cpu)
           whole  == operand + \h100 * C(cpu)
<1>3. /\ 2 * operand = \h100 * (IF Negative(operand) THEN 1 ELSE 0) + U8(2 * operand)
      /\ operand = 2 * (operand \div 2) + (IF HasBit(operand, \h01) THEN 1 ELSE 0)
      /\ rolled = \h100 * (IF rolled > \hFF THEN 1 ELSE 0) + U8(rolled)
      /\ whole = 2 * U8(whole \div 2) + (IF HasBit(whole, \h01) THEN 1 ELSE 0)
  <2>1. Balanced(operand, C(cpu))
    BY <1>2, ShiftArithmetic
  <2> QED
    BY <2>1 DEF Balanced
<1>4. U8(2 * operand) \in Byte /\ operand \div 2 \in Byte /\ U8(rolled) \in Byte
      /\ U8(whole \div 2) \in Byte
  BY OperandArithmetic
<1>5. CASE instruction.code = "asl"
  <2>1. Shift(U8(2 * operand), Negative(operand))
    BY <1>1, <1>5, OpCodes DEF Instructions, op_asl
  <2>2. /\ read_byte(mem', src) = U8(2 * operand)
        /\ Carry1 = IF Negative(operand) THEN 1 ELSE 0
    BY <1>2, <1>4, <2>1, ShiftLeaves
  <2> QED
    BY <1>3, <1>5, <2>2 DEF ShiftsStep
<1>6. CASE instruction.code = "lsr"
  <2>1. Shift(operand \div 2, HasBit(operand, \h01))
    BY <1>1, <1>6, OpCodes DEF Instructions, op_lsr
  <2>2. /\ read_byte(mem', src) = operand \div 2
        /\ Carry1 = IF HasBit(operand, \h01) THEN 1 ELSE 0
    BY <1>2, <1>4, <2>1, ShiftLeaves
  <2> QED
    BY <1>3, <1>6, <2>2 DEF ShiftsStep
<1>7. CASE instruction.code = "rol"
  <2>1. Shift(U8(rolled), rolled > \hFF)
    BY <1>1, <1>7, OpCodes DEF Instructions, op_rol
  <2>2. /\ read_byte(mem', src) = U8(rolled)
        /\ Carry1 = IF rolled > \hFF THEN 1 ELSE 0
    <3> DEFINE carry == rolled > \hFF
    <3>1. Shift(U8(rolled), carry)
      BY <2>1
    <3> HIDE DEF carry
    <3>2. read_byte(mem', src) = U8(rolled) /\ Carry1 = IF carry THEN 1 ELSE 0
      BY <1>2, <1>4, <3>1, ShiftLeaves
    <3> QED
      BY <3>2 DEF carry
  <2> QED
    BY <1>3, <1>7, <2>2 DEF ShiftsStep
<1>8. CASE instruction.code = "ror"
  <2>1. Shift(U8(whole \div 2), HasBit(whole, \h01))
    BY <1>1, <1>8, OpCodes DEF Instructions, op_ror
  <2>2. /\ read_byte(mem', src) = U8(whole \div 2)
        /\ Carry1 = IF HasBit(whole, \h01) THEN 1 ELSE 0
    <3> HIDE DEF whole
    <3> QED
      BY <1>2, <1>4, <2>1, ShiftLeaves
  <2> QED
    BY <1>3, <1>8, <2>2 DEF ShiftsStep
<1> QED
  BY <1>5, <1>6, <1>7, <1>8 DEF Executes

(***************************************************************************)
(* The shifts lose no bit, for every operand and carry, on a machine with  *)
(* its RAM attached: what they shift out of the byte is C.                 *)
(***************************************************************************)
THEOREM ShiftsCorrect == "RAM" \in Attached => (Spec => ShiftsLoseNoBit)
<1>1. ShiftsLoseNoBit <=> [][ShiftsStep]_vars
  BY DEF ShiftsLoseNoBit, ShiftsStep
<1> SUFFICES ASSUME "RAM" \in Attached PROVE Spec => ShiftsLoseNoBit
  OBVIOUS
<1>2. Good /\ [Next]_vars => [ShiftsStep]_vars
  BY ShiftStep
<1> QED
  BY <1>1, <1>2, AlwaysGood, PTL DEF Spec

-----------------------------------------------------------------------------
(* Instructions that assign a register leave PC behind their operand. *)
LEMMA AssignPC ==
  ASSUME TypeOK, NEW v, AssignA(v) \/ AssignX(v) \/ AssignY(v)
  PROVE  cpu'.PC = fetched.PC
BY InstructionParts DEF AssignA, AssignX, AssignY, Retire, CPUState

(* So do those that retire with another STATUS, SP or both. *)
LEMMA StatusPC ==
  ASSUME TypeOK, NEW c, NEW m, Retire(c, m), NEW sp, NEW S,
         \/ c = fetched
         \/ c = [fetched EXCEPT !.SP = sp]
         \/ c = [fetched EXCEPT !.STATUS = S]
         \/ c = [fetched EXCEPT !.SP = sp, !.STATUS = S]
         \/ \E a : c = [fetched EXCEPT !.A = a, !.STATUS = S]
         \/ \E a : c = [fetched EXCEPT !.SP = sp, !.A = a, !.STATUS = S]
         \/ c = [fetched EXCEPT !.illegal_opcode = TRUE]
  PROVE  cpu'.PC = fetched.PC
BY InstructionParts DEF Retire, CPUState

(* PC after an instruction that does not transfer control. *)
LEMMA SequentialPC ==
  ASSUME TypeOK, Instructions, ~BranchTaken(instruction.code),
         instruction.code \notin {"jmp", "jsr", "rts", "rti", "brk"}
  PROVE  cpu'.PC = fetched.PC
<1>1. ~op_jmp /\ ~op_jsr /\ ~op_rts /\ ~op_rti /\ ~op_brk
  BY OpCodes
<1>2. CASE op_and \/ op_eor \/ op_ora \/ op_lda \/ op_txa \/ op_tya
  BY <1>2, AssignPC DEF op_and, op_eor, op_ora, op_lda, op_txa, op_tya
<1>3. CASE op_ldx \/ op_dex \/ op_inx \/ op_tax \/ op_tsx
  BY <1>3, AssignPC DEF op_ldx, op_dex, op_inx, op_tax, op_tsx
<1>4. CASE op_ldy \/ op_dey \/ op_iny \/ op_tay
  BY <1>4, AssignPC DEF op_ldy, op_dey, op_iny, op_tay
<1>5. CASE op_inc \/ op_dec
  BY <1>5, StatusPC DEF op_inc, op_dec, Modify
<1>6. CASE op_asl \/ op_lsr \/ op_rol \/ op_ror
  BY <1>6, StatusPC DEF op_asl, op_lsr, op_rol, op_ror, Shift
<1>7. CASE op_bcc \/ op_bcs \/ op_beq \/ op_bmi \/ op_bne \/ op_bpl \/ op_bvs
  <2>1. CASE op_bcc
    <3>1. ~BranchTaken("bcc")
      BY <2>1, OpCodes
    <3> QED
      BY <2>1, <3>1, InstructionParts DEF op_bcc, Branch, Retire, BranchTaken, IsSet, CPUState
  <2>2. CASE op_bcs
    <3>1. ~BranchTaken("bcs")
      BY <2>2, OpCodes
    <3> QED
      BY <2>2, <3>1, InstructionParts DEF op_bcs, Branch, Retire, BranchTaken, IsSet, CPUState
  <2>3. CASE op_beq
    <3>1. ~BranchTaken("beq")
      BY <2>3, OpCodes
    <3> QED
      BY <2>3, <3>1, InstructionParts DEF op_beq, Branch, Retire, BranchTaken, IsSet, CPUState
  <2>4. CASE op_bmi
    <3>1. ~BranchTaken("bmi")
      BY <2>4, OpCodes
    <3> QED
      BY <2>4, <3>1, InstructionParts DEF op_bmi, Branch, Retire, BranchTaken, IsSet, CPUState
  <2>5. CASE op_bne
    <3>1. ~BranchTaken("bne")
      BY <2>5, OpCodes
    <3> QED
      BY <2>5, <3>1, InstructionParts DEF op_bne, Branch, Retire, BranchTaken, IsSet, CPUState
  <2>6. CASE op_bpl
    <3>1. ~BranchTaken("bpl")
      BY <2>6, OpCodes
    <3> QED
      BY <2>6, <3>1, InstructionParts DEF op_bpl, Branch, Retire, BranchTaken, IsSet, CPUState
  <2>7. CASE op_bvs
    <3>1. ~BranchTaken("bvs")
      BY <2>7, OpCodes
    <3> QED
      BY <2>7, <3>1, InstructionParts DEF op_bvs, Branch, Retire, BranchTaken, IsSet, CPUState
  <2> QED
    BY <1>7, <2>1, <2>2, <2>3, <2>4, <2>5, <2>6, <2>7
<1>8. CASE op_clc \/ op_cld \/ op_cli \/ op_clv \/ op_sec \/ op_sed \/ op_sei
  BY <1>8, StatusPC DEF op_clc, op_cld, op_cli, op_clv, op_sec, op_sed, op_sei, SetFlag
<1>9. CASE op_cmp \/ op_cpx \/ op_cpy
  BY <1>9, StatusPC DEF op_cmp, op_cpx, op_cpy, Compare
<1>10. CASE op_sta \/ op_stx \/ op_sty \/ op_nop
  BY <1>10, StatusPC DEF op_sta, op_stx, op_sty, op_nop
<1>11. CASE op_pha \/ op_php
  BY <1>11, StatusPC DEF op_pha, op_php, Push
<1>12. CASE op_adc \/ op_sbc \/ op_bit
  BY <1>12, InstructionParts DEF op_adc, op_sbc, op_bit, Retire, CPUState
<1>13. CASE op_pla \/ op_plp
  BY <1>13, InstructionParts DEF op_pla, op_plp, Retire, CPUState
<1>14. CASE op_illegal \/ op_txs
  BY <1>14, StatusPC DEF op_illegal, op_txs
<1>15. CASE op_wai
  BY <1>15 DEF op_wai
<1> QED
  BY <1>1, <1>2, <1>3, <1>4, <1>5, <1>6, <1>7, <1>8, <1>9, <1>10, <1>11, <1>12, <1>13, <1>14,
     <1>15 DEF Instructions

(* What FollowedByNext says of a step. *)
FollowedStep ==
  at = "fetch" /\ at' # at /\ ~BranchTaken(instruction.code)
    /\ instruction.code \notin {"jmp", "jsr", "rts", "rti", "brk"}
    => cpu'.PC = U16(cpu.PC + InstructionBytes(instruction.addr))

(* It holds of every step. *)
LEMMA SequenceStep == TypeOK /\ [Next]_vars => [FollowedStep]_vars
<1> SUFFICES ASSUME TypeOK, [Next]_vars, at = "fetch", at' # at,
                    ~BranchTaken(instruction.code),
                    instruction.code \notin {"jmp", "jsr", "rts", "rti", "brk"}
             PROVE  cpu'.PC = U16(cpu.PC + InstructionBytes(instruction.addr))
  BY DEF FollowedStep
<1>1. cpu'.PC = fetched.PC
  BY FetchExecutes, SequentialPC
<1>2. fetched.PC = U16(cpu.PC + 1 + OperandBytes(instruction.addr)) /\ cpu.PC \in Word
  BY InstructionParts
<1>3. \A mode : InstructionBytes(mode) = 1 + OperandBytes(mode) /\ OperandBytes(mode) \in 0 .. 2
  BY DEF InstructionBytes, OperandBytes
<1>4. \A p \in Word, n \in 0 .. 2 : p + 1 + n = p + (1 + n)
  BY SMT, WordBounds
<1> QED
  BY <1>1, <1>2, <1>3, <1>4

(***************************************************************************)
(* Every instruction that does not transfer control is followed by the one *)
(* behind its operand bytes, wherever it stands, the end of the address    *)
(* space included.                                                         *)
(***************************************************************************)
THEOREM SequenceCorrect == Spec => FollowedByNext
<1>1. FollowedByNext <=> [][FollowedStep]_vars
  BY DEF FollowedByNext, FollowedStep
<1> QED
  BY <1>1, TypeCorrect, SequenceStep, PTL DEF Spec

-----------------------------------------------------------------------------
(* From memory m to memory n no address outside T and none of ROM reads    *)
(* differently.                                                            *)
WritesIn(m, n, T) ==
  \A b \in Word : read_byte(n, b) # read_byte(m, b) => b \in T /\ b < kAddrROM

(* A byte written to the bus changes what its address reads, at most.      *)
LEMMA WriteTouches ==
  ASSUME NEW m, IsMemory(m), NEW a \in Word, NEW v \in Byte
  PROVE  WritesIn(m, write_byte(m, a, v), {a})
<1> DEFINE dev == resolve_address_to_device(a)
<1>1. CASE dev \notin Attached \/ dev = "ROM"
  <2>1. write_byte(m, a, v) = m
    BY <1>1 DEF write_byte, DeviceWrite
  <2> QED
    BY <2>1 DEF WritesIn
<1>2. CASE dev \in Attached \ {"ROM"}
  <2>1. \A b \in Word : read_byte(write_byte(m, a, v), b) = IF b = a THEN v ELSE read_byte(m, b)
    BY <1>2, ReadAfterWrite
  <2>2. a < kAddrROM
    <3>1. a \in Int /\ kAddrROM \in Int
      BY WordBounds, SMT DEF kAddrROM
    <3>2. ~(a >= kAddrROM)
      <4>1. a >= kAddrROM => ~(a < kAddrIO)
        BY <3>1, SMT DEF kAddrROM, kAddrIO
      <4> QED
        BY <1>2, <4>1 DEF resolve_address_to_device
    <3> QED
      BY <3>1, <3>2, SMT
  <2> QED
    BY <2>1, <2>2 DEF WritesIn
<1> QED
  BY <1>1, <1>2

(* A push touches the slot that SP selects. *)
LEMMA PushTouches ==
  ASSUME NEW s, IsStack(s), NEW v \in Byte
  PROVE  LET t == stack_push_byte(s, v)
         IN  WritesIn(s.mem, t.mem, {kStackBase + s.SP}) /\ t.SP = Pushed(s.SP) /\ IsStack(t)
<1>1. s.SP \in Byte /\ IsMemory(s.mem)
  BY DEF IsStack
<1>2. kStackBase + s.SP \in Word
  BY <1>1, SlotType
<1>3. /\ stack_push_byte(s, v).mem = write_byte(s.mem, kStackBase + s.SP, v)
      /\ stack_push_byte(s, v).SP = Pushed(s.SP)
  BY DEF stack_push_byte, IsStack, Pushed
<1>4. WritesIn(s.mem, write_byte(s.mem, kStackBase + s.SP, v), {kStackBase + s.SP})
  BY <1>1, <1>2, WriteTouches
<1> QED
  BY <1>3, <1>4, PushByteType

(* What two writes touch. *)
LEMMA WritesCompose ==
  ASSUME NEW m, NEW n, NEW o, NEW T, NEW U, WritesIn(m, n, T), WritesIn(n, o, U)
  PROVE  WritesIn(m, o, T \cup U)
BY DEF WritesIn

(* The slots below the stack pointer. *)
PushSlots(n) == {kStackBase + ((cpu.SP - i) % \h100) : i \in 0 .. n - 1}

(* The first three are those the pushes go through. *)
LEMMA SlotsPushed ==
  ASSUME cpu.SP \in Byte
  PROVE  /\ PushSlots(1) = {kStackBase + cpu.SP}
         /\ PushSlots(2) = {kStackBase + cpu.SP, kStackBase + Pushed(cpu.SP)}
         /\ PushSlots(3) = {kStackBase + cpu.SP, kStackBase + Pushed(cpu.SP),
                        kStackBase + Pushed(Pushed(cpu.SP))}
<1> DEFINE sp == cpu.SP
           slot(i) == kStackBase + ((sp - i) % \h100)
<1>1. sp \in Int /\ 0 <= sp /\ sp <= 255
  BY ByteBounds
<1> HIDE DEF sp
<1>2. (sp - 0) % 256 = sp
  BY SMT, <1>1
<1>3. (sp - 1) % 256 = Pushed(sp)
  BY SMT, <1>1 DEF Pushed, kStackReset
<1>4. (sp - 2) % 256 = Pushed(Pushed(sp))
  BY SMT, <1>1 DEF Pushed, kStackReset
<1>5. /\ slot(0) = kStackBase + sp /\ slot(1) = kStackBase + Pushed(sp)
      /\ slot(2) = kStackBase + Pushed(Pushed(sp))
  BY <1>2, <1>3, <1>4
<1>6. 0 .. 1 - 1 = {0} /\ 0 .. 2 - 1 = {0, 1} /\ 0 .. 3 - 1 = {0, 1, 2}
  BY SMT
<1> HIDE DEF slot
<1>7. \A n : PushSlots(n) = {slot(i) : i \in 0 .. n - 1}
  BY DEF PushSlots, slot, sp
<1>8. /\ PushSlots(1) = {slot(0)} /\ PushSlots(2) = {slot(0), slot(1)}
      /\ PushSlots(3) = {slot(0), slot(1), slot(2)}
  BY <1>6, <1>7
<1> QED
  BY <1>5, <1>8 DEF sp

(* The address that an instruction stores to or modifies. *)
Target(code) ==
  IF code \in {"sta", "stx", "sty", "inc", "dec", "asl", "lsr", "rol", "ror"} THEN {src} ELSE {}

(* A word pushed, and an interrupt frame. *)
LEMMA PushWordTouches ==
  ASSUME NEW s, IsStack(s), NEW w \in Word
  PROVE  LET t == stack_push_word(s, w)
         IN  /\ WritesIn(s.mem, t.mem, {kStackBase + s.SP, kStackBase + Pushed(s.SP)})
             /\ t.SP = Pushed(Pushed(s.SP)) /\ IsStack(t)
<1> DEFINE t1 == stack_push_byte(s, Hi(w))
           t2 == stack_push_byte(t1, Lo(w))
           slot(sp) == {kStackBase + sp}
<1>1. Hi(w) \in Byte /\ Lo(w) \in Byte
  BY HalvesType
<1>2. WritesIn(s.mem, t1.mem, slot(s.SP)) /\ t1.SP = Pushed(s.SP) /\ IsStack(t1)
  BY <1>1, PushTouches
<1> HIDE DEF t1
<1>3. WritesIn(t1.mem, t2.mem, slot(t1.SP)) /\ t2.SP = Pushed(t1.SP) /\ IsStack(t2)
  BY <1>1, <1>2, PushTouches
<1> HIDE DEF t2
<1>4. WritesIn(s.mem, t2.mem, slot(s.SP) \cup slot(t1.SP))
  BY <1>2, <1>3, WritesCompose
<1>5. slot(s.SP) \cup slot(t1.SP) = {kStackBase + s.SP, kStackBase + Pushed(s.SP)}
  BY <1>2
<1>6. stack_push_word(s, w) = t2
  BY DEF stack_push_word, t2, t1
<1> QED
  BY <1>2, <1>3, <1>4, <1>5, <1>6

(* The memory after an instruction. *)
LEMMA InstructionWrites ==
  ASSUME Good, Instructions
  PROVE  WritesIn(mem, mem', PushSlots(Pushes(instruction.code)) \cup Target(instruction.code))
<1> DEFINE code == instruction.code
           T == PushSlots(Pushes(code)) \cup Target(code)
<1>1. TypeOK /\ IsMemory(mem) /\ src \in Word /\ cpu.SP \in Byte /\ fetched \in CPUState
  BY InstructionParts DEF Good
<1>2. mem' = mem => WritesIn(mem, mem', T)
  BY DEF WritesIn
<1>3. ASSUME NEW v \in Byte, mem' = write_byte(mem, src, v),
             code \in {"sta", "stx", "sty", "inc", "dec", "asl", "lsr", "rol", "ror"}
      PROVE  WritesIn(mem, mem', T)
  <2>1. WritesIn(mem, mem', {src})
    BY <1>1, <1>3, WriteTouches
  <2>2. src \in T
    BY <1>3 DEF Target
  <2> HIDE DEF T
  <2> QED
    BY <2>1, <2>2 DEF WritesIn
<1>4. CASE op_and \/ op_eor \/ op_ora \/ op_lda \/ op_txa \/ op_tya
  BY <1>2, <1>4 DEF op_and, op_eor, op_ora, op_lda, op_txa, op_tya, AssignA, Retire
<1>5. CASE op_ldx \/ op_dex \/ op_inx \/ op_tax \/ op_tsx
  BY <1>2, <1>5 DEF op_ldx, op_dex, op_inx, op_tax, op_tsx, AssignX, Retire
<1>6. CASE op_ldy \/ op_dey \/ op_iny \/ op_tay
  BY <1>2, <1>6 DEF op_ldy, op_dey, op_iny, op_tay, AssignY, Retire
<1>7. CASE op_bcc \/ op_bcs \/ op_beq \/ op_bmi \/ op_bne \/ op_bpl \/ op_bvs
  BY <1>2, <1>7 DEF op_bcc, op_bcs, op_beq, op_bmi, op_bne, op_bpl, op_bvs, Branch, Retire
<1>8. CASE op_clc \/ op_cld \/ op_cli \/ op_clv \/ op_sec \/ op_sed \/ op_sei
  BY <1>2, <1>8 DEF op_clc, op_cld, op_cli, op_clv, op_sec, op_sed, op_sei, SetFlag, Retire
<1>9. CASE op_cmp \/ op_cpx \/ op_cpy
  BY <1>2, <1>9 DEF op_cmp, op_cpx, op_cpy, Compare, Retire
<1>10. CASE op_adc \/ op_sbc \/ op_bit
  BY <1>2, <1>10 DEF op_adc, op_sbc, op_bit, Retire
<1>11. CASE op_pla \/ op_plp \/ op_rti \/ op_rts
  BY <1>2, <1>11 DEF op_pla, op_plp, op_rti, op_rts, Retire
<1>12. CASE op_illegal \/ op_nop \/ op_jmp \/ op_txs \/ op_wai
  BY <1>2, <1>12 DEF op_illegal, op_nop, op_jmp, op_txs, op_wai, Retire
<1>13. CASE op_sta \/ op_stx \/ op_sty
  BY <1>3, <1>13, RegisterArithmetic, OpCodes DEF op_sta, op_stx, op_sty, Retire
<1>14. CASE op_inc \/ op_dec
  BY <1>3, <1>14, OperandArithmetic, OpCodes DEF op_inc, op_dec, Modify, Retire
<1>15. CASE op_asl \/ op_lsr \/ op_rol \/ op_ror
  <2>1. code \in {"asl", "lsr", "rol", "ror"}
    BY <1>15, OpCodes
  <2>2. CASE op_asl
    BY <1>3, <2>1, <2>2, OperandArithmetic DEF op_asl, Shift, Retire
  <2>3. CASE op_lsr
    BY <1>3, <2>1, <2>3, OperandArithmetic DEF op_lsr, Shift, Retire
  <2>4. CASE op_rol
    BY <1>3, <2>1, <2>4, OperandArithmetic DEF op_rol, Shift, Retire
  <2>5. CASE op_ror
    BY <1>3, <2>1, <2>5, OperandArithmetic DEF op_ror, Shift, Retire
  <2> QED
    BY <1>15, <2>2, <2>3, <2>4, <2>5
<1>16. CASE op_pha \/ op_php
  <2>1. PICK v \in Byte : mem' = stack_push_byte(Stack(cpu, mem), v).mem
    BY <1>16, RegisterArithmetic, FromBitsType DEF op_pha, op_php, Push, Retire
  <2>2. IsStack(Stack(cpu, mem)) /\ Stack(cpu, mem).SP = cpu.SP /\ Stack(cpu, mem).mem = mem
    BY StackGood DEF Stack
  <2>3. WritesIn(mem, mem', {kStackBase + cpu.SP})
    BY <2>1, <2>2, PushTouches
  <2>4. Pushes(code) = 1
    BY <1>16, OpCodes DEF Pushes
  <2>5. PushSlots(1) = {kStackBase + cpu.SP}
    BY <1>1, SlotsPushed
  <2> QED
    BY <2>3, <2>4, <2>5 DEF WritesIn
<1>17. CASE op_jsr
  <2> DEFINE w == U16(fetched.PC - 1)
  <2>1. mem' = stack_push_word(Stack(cpu, mem), w).mem
    BY <1>17 DEF op_jsr, Retire
  <2>2. IsStack(Stack(cpu, mem)) /\ Stack(cpu, mem).SP = cpu.SP /\ Stack(cpu, mem).mem = mem
    BY StackGood DEF Stack
  <2>3. w \in Word
    <3>1. fetched.PC - 1 \in Int
      BY <1>1, NextToWord DEF CPUState
    <3> QED
      BY <3>1, U16Type
  <2> HIDE DEF w
  <2>4. WritesIn(mem, mem', {kStackBase + cpu.SP, kStackBase + Pushed(cpu.SP)})
    BY <2>1, <2>2, <2>3, PushWordTouches
  <2>5. Pushes(code) = 2
    BY <1>17, OpCodes DEF Pushes
  <2>6. PushSlots(2) = {kStackBase + cpu.SP, kStackBase + Pushed(cpu.SP)}
    BY <1>1, SlotsPushed
  <2> QED
    BY <2>4, <2>5, <2>6 DEF WritesIn
<1>18. CASE op_brk
  <2> DEFINE c  == [fetched EXCEPT !.PC = U16(fetched.PC + 1)]
             s0 == Stack(c, mem)
             s2 == stack_push_word(s0, c.PC)
             s3 == stack_push_byte(s2, FromBits(c.STATUS \cup {kMaskBreak}))
  <2>1. mem' = s3.mem
    BY <1>18 DEF op_brk, Retire, SavedFrame
  <2>2. c.PC \in Word /\ c.SP = cpu.SP
    <3>1. fetched.PC + 1 \in Int
      BY <1>1, NextToWord DEF CPUState
    <3>2. U16(fetched.PC + 1) \in Word
      BY <3>1, U16Type
    <3> QED
      BY <1>1, <3>2, InstructionParts DEF CPUState
  <2>3. IsStack(s0) /\ s0.SP = cpu.SP /\ s0.mem = mem
    BY <1>1, <2>2, StackType DEF Stack
  <2>4. FromBits(c.STATUS \cup {kMaskBreak}) \in Byte
    BY FromBitsType
  <2> HIDE DEF s0, c
  <2>5. /\ WritesIn(mem, s2.mem, {kStackBase + cpu.SP, kStackBase + Pushed(cpu.SP)})
        /\ s2.SP = Pushed(Pushed(cpu.SP)) /\ IsStack(s2)
    BY <2>2, <2>3, PushWordTouches
  <2> HIDE DEF s2
  <2>6. WritesIn(s2.mem, s3.mem, {kStackBase + s2.SP})
    BY <2>4, <2>5, PushTouches
  <2> HIDE DEF s3
  <2>7. Pushes(code) = 3
    BY <1>18, OpCodes DEF Pushes
  <2>8. PushSlots(3) = {kStackBase + cpu.SP, kStackBase + Pushed(cpu.SP),
                    kStackBase + Pushed(Pushed(cpu.SP))}
    BY <1>1, SlotsPushed
  <2> QED
    BY <2>1, <2>5, <2>6, <2>7, <2>8 DEF WritesIn
<1> QED
  BY <1>4, <1>5, <1>6, <1>7, <1>8, <1>9, <1>10, <1>11, <1>12, <1>13, <1>14, <1>15, <1>16,
     <1>17, <1>18 DEF Instructions

(* What WritesOnlyOperandAndStack says of a step. *)
WritesStep ==
  at = "fetch" /\ at' # at
    => LET code    == instruction.code
           written == {a \in DOMAIN mem' : read_byte(mem', a) # read_byte(mem, a)}
           stacked == {kStackBase + ((cpu.SP - i) % \h100) : i \in 0 .. Pushes(code) - 1}
           target  == IF code \in {"sta", "stx", "sty", "inc", "dec",
                                   "asl", "lsr", "rol", "ror"} THEN {src} ELSE {}
       IN  /\ written \subseteq stacked \cup target
           /\ \A a \in written : a < kAddrROM

(* It holds of every step. *)
LEMMA WriteStep == Good /\ [Next]_vars => [WritesStep]_vars
<1> SUFFICES ASSUME Good, [Next]_vars, at = "fetch", at' # at
             PROVE  WritesStep
  BY DEF WritesStep
<1>1. Good' /\ Instructions
  BY NextGood, FetchExecutes
<1>2. DOMAIN mem' \subseteq Word
  BY <1>1 DEF Good, TypeOK, IsMemory
<1>3. WritesIn(mem, mem', PushSlots(Pushes(instruction.code)) \cup Target(instruction.code))
  BY <1>1, InstructionWrites
<1> QED
  BY <1>2, <1>3 DEF WritesStep, WritesIn, PushSlots, Target

(***************************************************************************)
(* No instruction changes what any address reads but its operand address   *)
(* and the stack slots that it pushes, and none changes ROM, whatever the  *)
(* devices attached, the memory and the stack pointer.                     *)
(***************************************************************************)
THEOREM WritesConfined == Spec => WritesOnlyOperandAndStack
<1>1. WritesOnlyOperandAndStack <=> [][WritesStep]_vars
  BY DEF WritesOnlyOperandAndStack, WritesStep
<1> QED
  BY <1>1, AlwaysGood, WriteStep, PTL DEF Spec

-----------------------------------------------------------------------------
(* Two sets of flags that agree outside a column. *)
Within(S, T, column) == S \ column = T \ column

(* Setting a flag of a column changes no flag outside it. *)
LEMMA FlagInColumn ==
  ASSUME NEW S, NEW T, NEW mask, NEW on, NEW column, mask \in column, Within(S, T, column)
  PROVE  Within(S, Flag(T, mask, on), column)
BY DEF Within, Flag

(* Setting S and Z likewise. *)
LEMMA SignZeroInColumn ==
  ASSUME NEW S, NEW v, NEW column, kMaskSign \in column, kMaskZero \in column
  PROVE  Within(S, SignZero(S, v), column)
BY DEF Within, SignZero, Flag

(* What S and Z are after an instruction that leaves v in a register. *)
Describes(v) == /\ IsSet(cpu', kMaskSign) <=> v > 127
                /\ IsSet(cpu', kMaskZero) <=> v = 0

(* S and Z set from a byte describe it. *)
LEMMA SignZeroDescribes ==
  ASSUME NEW S, NEW v \in Byte, cpu'.STATUS = SignZero(S, v)
  PROVE  Describes(v)
BY SignZeroSet, NegativeByte DEF Describes, IsSet

(* The flags outside the column of the instruction. *)
OthersKept(column) == Within(cpu.STATUS, cpu'.STATUS, column)

(* Loads, transfers and logical instructions. *)
LEMMA AssignFlags ==
  ASSUME TypeOK, NEW v \in Byte, AssignA(v) \/ AssignX(v) \/ AssignY(v)
  PROVE  /\ OthersKept({kMaskSign, kMaskZero})
         /\ AssignA(v) => Describes(cpu'.A)
         /\ AssignX(v) => Describes(cpu'.X)
         /\ AssignY(v) => Describes(cpu'.Y)
<1>1. /\ cpu'.STATUS = SignZero(cpu.STATUS, v)
      /\ AssignA(v) => cpu'.A = v
      /\ AssignX(v) => cpu'.X = v
      /\ AssignY(v) => cpu'.Y = v
  BY InstructionParts DEF AssignA, AssignX, AssignY, Retire, CPUState
<1>2. Describes(v)
  BY <1>1, SignZeroDescribes
<1> DEFINE column == {kMaskSign, kMaskZero}
<1>3. kMaskSign \in column /\ kMaskZero \in column
  OBVIOUS
<1> HIDE DEF column
<1>4. Within(cpu.STATUS, SignZero(cpu.STATUS, v), column)
  BY <1>3, SignZeroInColumn
<1>5. OthersKept(column)
  BY <1>1, <1>4 DEF OthersKept
<1> QED
  BY <1>1, <1>2, <1>5 DEF column

(* Increments, decrements, shifts and comparisons. *)
LEMMA ModifyFlags ==
  ASSUME TypeOK, NEW v
  PROVE  Modify(v) => OthersKept({kMaskSign, kMaskZero})
<1> DEFINE column == {kMaskSign, kMaskZero}
<1>1. Modify(v) => cpu'.STATUS = SignZero(cpu.STATUS, v)
  BY InstructionParts DEF Modify, Retire, CPUState
<1>2. kMaskSign \in column /\ kMaskZero \in column
  OBVIOUS
<1> HIDE DEF column
<1>3. Within(cpu.STATUS, SignZero(cpu.STATUS, v), column)
  BY <1>2, SignZeroInColumn
<1>4. Modify(v) => OthersKept(column)
  BY <1>1, <1>3 DEF OthersKept
<1> QED
  BY <1>4 DEF column

(* The shifts and the comparisons set C besides. *)
LEMMA SignZeroCarry ==
  ASSUME NEW v, NEW carry, cpu'.STATUS = Flag(SignZero(cpu.STATUS, v), kMaskCarry, carry)
  PROVE  OthersKept({kMaskSign, kMaskZero, kMaskCarry})
<1> DEFINE column == {kMaskSign, kMaskZero, kMaskCarry}
           S1     == SignZero(cpu.STATUS, v)
<1>1. kMaskSign \in column /\ kMaskZero \in column /\ kMaskCarry \in column
  OBVIOUS
<1> HIDE DEF column
<1>2. Within(cpu.STATUS, S1, column)
  BY <1>1, SignZeroInColumn
<1> HIDE DEF S1
<1>3. Within(cpu.STATUS, Flag(S1, kMaskCarry, carry), column)
  BY <1>1, <1>2, FlagInColumn
<1>4. OthersKept(column)
  BY <1>3 DEF OthersKept, S1
<1> QED
  BY <1>4 DEF column

(* The shifts. *)
LEMMA ShiftFlags ==
  ASSUME TypeOK, NEW v, NEW carry, Shift(v, carry)
  PROVE  OthersKept({kMaskSign, kMaskZero, kMaskCarry})
<1>1. cpu'.STATUS = Flag(SignZero(cpu.STATUS, v), kMaskCarry, carry)
  BY InstructionParts DEF Shift, Retire, CPUState
<1> QED
  BY <1>1, SignZeroCarry

(* The comparisons. *)
LEMMA CompareFlags ==
  ASSUME TypeOK, NEW v, Compare(v)
  PROVE  OthersKept({kMaskSign, kMaskZero, kMaskCarry})
<1> DEFINE result == U16(v - operand)
           below  == result < \h100
<1>1. cpu'.STATUS = Flag(SignZero(cpu.STATUS, U8(result)), kMaskCarry, below)
  <2>1. cpu' = [fetched EXCEPT !.STATUS = Flag(SignZero(fetched.STATUS, U8(result)),
                                               kMaskCarry, below)]
    BY DEF Compare, Retire
  <2> HIDE DEF below, result
  <2> QED
    BY <2>1, InstructionParts DEF CPUState
<1> HIDE DEF below, result
<1> QED
  BY <1>1, SignZeroCarry

(* ADC, in binary and in decimal mode. *)
LEMMA AdcFlags ==
  ASSUME TypeOK, op_adc
  PROVE  OthersKept({kMaskSign, kMaskZero, kMaskCarry, kMaskOverflow})
<1> DEFINE tmp      == operand + cpu.A + C(cpu)
           overflow == Negative(cpu.A) = Negative(operand) /\ Negative(cpu.A) # Negative(tmp)
           above    == tmp > \hFF
           zero     == U8(tmp) = 0
           S1 == Flag(cpu.STATUS, kMaskSign, Negative(tmp))
           S2 == Flag(S1, kMaskOverflow, overflow)
           S3 == Flag(S2, kMaskCarry, above)
           S  == IF kMaskDecimal \in cpu.STATUS THEN cpu.STATUS ELSE S3
           column == {kMaskSign, kMaskZero, kMaskCarry, kMaskOverflow}
<1>1. cpu'.STATUS = Flag(S, kMaskZero, zero)
  <2>1. cpu' = [fetched EXCEPT !.A = U8(tmp),
                  !.STATUS = Flag(IF kMaskDecimal \in fetched.STATUS THEN fetched.STATUS
                                  ELSE Flag(Flag(Flag(fetched.STATUS, kMaskSign, Negative(tmp)),
                                        kMaskOverflow, overflow), kMaskCarry, above),
                                  kMaskZero, zero)]
    BY DEF op_adc, Retire
  <2> HIDE DEF tmp, overflow, above, zero
  <2> QED
    BY <2>1, InstructionParts DEF CPUState
<1> HIDE DEF overflow, above, zero
<1>2. kMaskSign \in column /\ kMaskZero \in column /\ kMaskCarry \in column
      /\ kMaskOverflow \in column
  OBVIOUS
<1> HIDE DEF column
<1>3. Within(cpu.STATUS, cpu.STATUS, column)
  BY DEF Within
<1>4. Within(cpu.STATUS, S1, column)
  BY <1>2, <1>3, FlagInColumn
<1> HIDE DEF S1
<1>5. Within(cpu.STATUS, S2, column)
  BY <1>2, <1>4, FlagInColumn
<1> HIDE DEF S2
<1>6. Within(cpu.STATUS, S3, column)
  BY <1>2, <1>5, FlagInColumn
<1> HIDE DEF S3
<1>7. Within(cpu.STATUS, S, column)
  BY <1>3, <1>6
<1> HIDE DEF S
<1>8. Within(cpu.STATUS, Flag(S, kMaskZero, zero), column)
  BY <1>2, <1>7, FlagInColumn
<1>9. OthersKept(column)
  BY <1>1, <1>8 DEF OthersKept
<1> QED
  BY <1>9 DEF column

(* SBC. *)
LEMMA SbcFlags ==
  ASSUME TypeOK, op_sbc
  PROVE  /\ OthersKept({kMaskSign, kMaskZero, kMaskCarry, kMaskOverflow})
         /\ Describes(cpu'.A)
<1> DEFINE tmp      == U16(cpu.A - operand - C(cpu))
           res      == U8(tmp)
           overflow == Negative(cpu.A) # Negative(res) /\ Negative(cpu.A) # Negative(operand)
           below    == tmp < \h100
           S1 == SignZero(cpu.STATUS, res)
           S2 == Flag(S1, kMaskOverflow, overflow)
           S3 == Flag(S2, kMaskCarry, below)
           column == {kMaskSign, kMaskZero, kMaskCarry, kMaskOverflow}
<1>1. cpu'.STATUS = S3 /\ cpu'.A = res
  <2>1. cpu' = [fetched EXCEPT !.A = res,
                  !.STATUS = Flag(Flag(SignZero(fetched.STATUS, res), kMaskOverflow, overflow),
                                  kMaskCarry, below)]
    BY DEF op_sbc, Retire
  <2> HIDE DEF res, overflow, below
  <2> QED
    BY <2>1, InstructionParts DEF CPUState
<1>2. res \in Byte
  <2>1. cpu.A \in Byte /\ operand \in Byte /\ C(cpu) \in {0, 1}
    BY InstructionParts, CarryBit
  <2>2. cpu.A - operand - C(cpu) \in Int
    BY SMT, <2>1, ByteBounds
  <2>3. tmp \in Int
    BY <2>2, U16Type, WordBounds
  <2> QED
    BY <2>3, U8Type
<1> HIDE DEF overflow, below, res
<1>3. kMaskSign \in column /\ kMaskZero \in column /\ kMaskCarry \in column
      /\ kMaskOverflow \in column
  OBVIOUS
<1> HIDE DEF column
<1>4. Within(cpu.STATUS, S1, column)
  BY <1>3, SignZeroInColumn
<1>5. (kMaskSign \in S1 <=> res > 127) /\ (kMaskZero \in S1 <=> res = 0)
  BY <1>2, SignZeroSet, NegativeByte
<1> HIDE DEF S1
<1>6. Within(cpu.STATUS, S2, column)
  BY <1>3, <1>4, FlagInColumn
<1>7. (kMaskSign \in S2 <=> kMaskSign \in S1) /\ (kMaskZero \in S2 <=> kMaskZero \in S1)
  BY FlagSet, MasksDiffer
<1> HIDE DEF S2
<1>8. Within(cpu.STATUS, S3, column)
  BY <1>3, <1>6, FlagInColumn
<1>9. (kMaskSign \in S3 <=> kMaskSign \in S2) /\ (kMaskZero \in S3 <=> kMaskZero \in S2)
  BY FlagSet, MasksDiffer
<1> HIDE DEF S3
<1>10. OthersKept(column)
  BY <1>1, <1>8 DEF OthersKept
<1>11. Describes(cpu'.A)
  BY <1>1, <1>5, <1>7, <1>9 DEF Describes, IsSet
<1> QED
  BY <1>10, <1>11 DEF column

(* BIT. *)
LEMMA BitFlags ==
  ASSUME TypeOK, op_bit
  PROVE  OthersKept({kMaskSign, kMaskZero, kMaskOverflow})
<1> DEFINE res    == ByteAnd(operand, cpu.A)
           S1     == SignZero(cpu.STATUS, res)
           column == {kMaskSign, kMaskZero, kMaskOverflow}
<1>1. cpu'.STATUS = Flag(S1, kMaskOverflow, HasBit(res, \h40))
  <2>1. cpu' = [fetched EXCEPT !.STATUS = Flag(SignZero(fetched.STATUS, res),
                                               kMaskOverflow, HasBit(res, \h40))]
    BY DEF op_bit, Retire
  <2> HIDE DEF res
  <2> QED
    BY <2>1, InstructionParts DEF CPUState
<1>2. kMaskSign \in column /\ kMaskZero \in column /\ kMaskOverflow \in column
  OBVIOUS
<1> HIDE DEF column
<1>3. Within(cpu.STATUS, S1, column)
  BY <1>2, SignZeroInColumn
<1> DEFINE sixth == HasBit(res, \h40)
<1> HIDE DEF sixth
<1>4. cpu'.STATUS = Flag(S1, kMaskOverflow, sixth)
  BY <1>1 DEF sixth
<1> HIDE DEF S1
<1>5. Within(cpu.STATUS, Flag(S1, kMaskOverflow, sixth), column)
  BY <1>2, <1>3, FlagInColumn
<1>6. OthersKept(column)
  BY <1>4, <1>5 DEF OthersKept
<1> QED
  BY <1>6 DEF column

(* The flag instructions. *)
LEMMA SetFlagFlags ==
  ASSUME TypeOK, NEW mask, NEW on, SetFlag(mask, on)
  PROVE  OthersKept({mask})
<1>1. cpu'.STATUS = Flag(cpu.STATUS, mask, on)
  BY InstructionParts DEF SetFlag, Retire, CPUState
<1> QED
  BY <1>1 DEF OthersKept, Within, Flag

(* PLA, PLP, RTI and BRK. *)
LEMMA PullFlags ==
  ASSUME Good
  PROVE  /\ op_pla => OthersKept({kMaskSign, kMaskZero}) /\ Describes(cpu'.A)
         /\ op_plp \/ op_rti => OthersKept(Masks \ {kMaskConstant})
         /\ op_brk => OthersKept({kMaskInterrupt})
<1>1. TypeOK /\ kMaskConstant \in cpu.STATUS
  BY DEF Good, ConstantFlagSet
<1> DEFINE s == stack_pop_byte(Stack(cpu, mem))
<1>2. s.value \in Byte
  BY StackGood, PopByteType
<1> HIDE DEF s
<1>3. ASSUME op_pla PROVE OthersKept({kMaskSign, kMaskZero}) /\ Describes(cpu'.A)
  <2>1. cpu'.STATUS = SignZero(cpu.STATUS, s.value) /\ cpu'.A = s.value
    BY <1>1, <1>3, InstructionParts DEF op_pla, Retire, CPUState, s
  <2>2. Describes(s.value)
    BY <1>2, <2>1, SignZeroDescribes
  <2> DEFINE column == {kMaskSign, kMaskZero}
  <2>3. kMaskSign \in column /\ kMaskZero \in column
    OBVIOUS
  <2> HIDE DEF column
  <2>4. Within(cpu.STATUS, SignZero(cpu.STATUS, s.value), column)
    BY <2>3, SignZeroInColumn
  <2>5. OthersKept(column)
    BY <2>1, <2>4 DEF OthersKept
  <2> QED
    BY <2>1, <2>2, <2>5 DEF column
<1>4. ASSUME op_plp \/ op_rti PROVE OthersKept(Masks \ {kMaskConstant})
  <2>1. \/ cpu'.STATUS = (Bits(s.value) \cup {kMaskConstant}) \ {kMaskBreak}
        \/ cpu'.STATUS = Bits(s.value) \cup {kMaskConstant}
    BY <1>1, <1>4, InstructionParts DEF op_plp, op_rti, Retire, CPUState, s
  <2>2. cpu'.STATUS \subseteq Masks /\ kMaskConstant \in cpu'.STATUS
    BY <2>1, BitsType, MaskType, MasksDiffer
  <2>3. cpu.STATUS \subseteq Masks
    BY <1>1, InstructionParts
  <2> QED
    BY <1>1, <2>2, <2>3 DEF OthersKept, Within
<1>5. ASSUME op_brk PROVE OthersKept({kMaskInterrupt})
  <2>1. cpu'.STATUS = cpu.STATUS \cup {kMaskInterrupt}
    BY <1>1, <1>5, InstructionParts DEF op_brk, Retire, Entered, CPUState
  <2> QED
    BY <2>1 DEF OthersKept, Within
<1> QED
  BY <1>3, <1>4, <1>5

(* The other instructions leave STATUS as it is. *)
LEMMA StatusKept ==
  ASSUME TypeOK,
         \/ op_bcc \/ op_bcs \/ op_beq \/ op_bmi \/ op_bne \/ op_bpl \/ op_bvs
         \/ op_jmp \/ op_jsr \/ op_rts \/ op_nop \/ op_pha \/ op_php \/ op_illegal
         \/ op_sta \/ op_stx \/ op_sty \/ op_txs \/ op_wai
  PROVE  cpu'.STATUS = cpu.STATUS
<1>1. fetched \in CPUState /\ fetched.STATUS = cpu.STATUS
  BY InstructionParts
<1>2. CASE op_bcc \/ op_bcs \/ op_beq \/ op_bmi \/ op_bne \/ op_bpl \/ op_bvs
  BY <1>1, <1>2 DEF op_bcc, op_bcs, op_beq, op_bmi, op_bne, op_bpl, op_bvs, Branch, Retire,
                    CPUState
<1>3. CASE op_jmp \/ op_jsr \/ op_rts \/ op_nop
  BY <1>1, <1>3 DEF op_jmp, op_jsr, op_rts, op_nop, Retire, CPUState
<1>4. CASE op_pha \/ op_php \/ op_illegal \/ op_txs \/ op_wai
  BY <1>1, <1>4 DEF op_pha, op_php, op_illegal, op_txs, op_wai, Push, Retire, CPUState
<1>5. CASE op_sta \/ op_stx \/ op_sty
  BY <1>1, <1>5 DEF op_sta, op_stx, op_sty, Retire, CPUState
<1> QED
  BY <1>2, <1>3, <1>4, <1>5

(* What FlagsAsDocumented says of an instruction. *)
Documented(code) ==
  /\ OthersKept(FlagColumns(code))
  /\ code \in {"and", "eor", "ora", "lda", "pla", "txa", "tya", "sbc"} => Describes(cpu'.A)
  /\ code \in {"ldx", "tax", "tsx", "inx", "dex"} => Describes(cpu'.X)
  /\ code \in {"ldy", "tay", "iny", "dey"} => Describes(cpu'.Y)

(* The instructions that assign a register, ... *)
LEMMA LoadsDocumented ==
  ASSUME Good,
         \/ op_and \/ op_eor \/ op_ora \/ op_lda \/ op_ldx \/ op_ldy
         \/ op_dex \/ op_dey \/ op_inx \/ op_iny
         \/ op_tax \/ op_tay \/ op_tsx \/ op_txa \/ op_tya
  PROVE  Documented(instruction.code)
<1> DEFINE code == instruction.code
<1>1. TypeOK
  BY DEF Good
<1>2. FlagColumns(code) = {kMaskSign, kMaskZero}
  BY OpCodes DEF FlagColumns
<1>3. CASE op_and \/ op_eor \/ op_ora \/ op_lda \/ op_txa \/ op_tya
  <2>1. code \in {"and", "eor", "ora", "lda", "txa", "tya"}
    BY <1>3, OpCodes
  <2>2. \E v \in Byte : AssignA(v)
    BY <1>3, RegisterArithmetic, OperandArithmetic, BitsType, FromBitsType
       DEF op_and, op_eor, op_ora, op_lda, op_txa, op_tya, ByteAnd, ByteOr, ByteXor
  <2>3. OthersKept({kMaskSign, kMaskZero}) /\ Describes(cpu'.A)
    BY <1>1, <2>2, AssignFlags
  <2> QED
    BY <1>2, <2>1, <2>3 DEF Documented
<1>4. CASE op_ldx \/ op_dex \/ op_inx \/ op_tax \/ op_tsx
  <2>1. code \in {"ldx", "tax", "tsx", "inx", "dex"}
    BY <1>4, OpCodes
  <2>2. \E v \in Byte : AssignX(v)
    BY <1>4, RegisterArithmetic, OperandArithmetic DEF op_ldx, op_dex, op_inx, op_tax, op_tsx
  <2>3. OthersKept({kMaskSign, kMaskZero}) /\ Describes(cpu'.X)
    BY <1>1, <2>2, AssignFlags
  <2> QED
    BY <1>2, <2>1, <2>3 DEF Documented
<1>5. CASE op_ldy \/ op_dey \/ op_iny \/ op_tay
  <2>1. code \in {"ldy", "tay", "iny", "dey"}
    BY <1>5, OpCodes
  <2>2. \E v \in Byte : AssignY(v)
    BY <1>5, RegisterArithmetic, OperandArithmetic DEF op_ldy, op_dey, op_iny, op_tay
  <2>3. OthersKept({kMaskSign, kMaskZero}) /\ Describes(cpu'.Y)
    BY <1>1, <2>2, AssignFlags
  <2> QED
    BY <1>2, <2>1, <2>3 DEF Documented
<1> QED
  BY <1>3, <1>4, <1>5

(* ... those that modify memory, compare or compute, ... *)
LEMMA ComputationsDocumented ==
  ASSUME Good,
         \/ op_inc \/ op_dec \/ op_asl \/ op_lsr \/ op_rol \/ op_ror
         \/ op_cmp \/ op_cpx \/ op_cpy \/ op_adc \/ op_sbc \/ op_bit
  PROVE  Documented(instruction.code)
<1> DEFINE code == instruction.code
<1>1. TypeOK
  BY DEF Good
<1>2. CASE op_inc \/ op_dec
  <2>1. code \in {"inc", "dec"}
    BY <1>2, OpCodes
  <2>2. OthersKept({kMaskSign, kMaskZero})
    BY <1>1, <1>2, ModifyFlags DEF op_inc, op_dec
  <2> QED
    BY <2>1, <2>2 DEF Documented, FlagColumns
<1>3. CASE op_asl \/ op_lsr \/ op_rol \/ op_ror
  <2>1. code \in {"asl", "lsr", "rol", "ror"}
    BY <1>3, OpCodes
  <2>2. \E v : \E carry : Shift(v, carry)
    BY <1>3 DEF op_asl, op_lsr, op_rol, op_ror
  <2>3. OthersKept({kMaskSign, kMaskZero, kMaskCarry})
    BY <1>1, <2>2, ShiftFlags
  <2> QED
    BY <2>1, <2>3 DEF Documented, FlagColumns
<1>4. CASE op_cmp \/ op_cpx \/ op_cpy
  <2>1. code \in {"cmp", "cpx", "cpy"}
    BY <1>4, OpCodes
  <2>2. OthersKept({kMaskSign, kMaskZero, kMaskCarry})
    BY <1>1, <1>4, CompareFlags DEF op_cmp, op_cpx, op_cpy
  <2> QED
    BY <2>1, <2>2 DEF Documented, FlagColumns
<1>5. CASE op_adc
  <2>1. code = "adc"
    BY <1>5, OpCodes
  <2> QED
    BY <1>1, <1>5, <2>1, AdcFlags DEF Documented, FlagColumns
<1>6. CASE op_sbc
  <2>1. code = "sbc"
    BY <1>6, OpCodes
  <2> QED
    BY <1>1, <1>6, <2>1, SbcFlags DEF Documented, FlagColumns
<1>7. CASE op_bit
  <2>1. code = "bit"
    BY <1>7, OpCodes
  <2> QED
    BY <1>1, <1>7, <2>1, BitFlags DEF Documented, FlagColumns
<1> QED
  BY <1>2, <1>3, <1>4, <1>5, <1>6, <1>7

(* ... those of the flags and of the stack, ... *)
LEMMA FlagsDocumented ==
  ASSUME Good,
         \/ op_clc \/ op_cld \/ op_cli \/ op_clv \/ op_sec \/ op_sed \/ op_sei
         \/ op_pla \/ op_plp \/ op_rti \/ op_brk
  PROVE  Documented(instruction.code)
<1> DEFINE code == instruction.code
<1>1. TypeOK
  BY DEF Good
<1>2. CASE op_clc \/ op_sec
  <2>1. code \in {"clc", "sec"} /\ OthersKept({kMaskCarry})
    BY <1>1, <1>2, OpCodes, SetFlagFlags DEF op_clc, op_sec
  <2> QED
    BY <2>1 DEF Documented, FlagColumns
<1>3. CASE op_cld \/ op_sed
  <2>1. code \in {"cld", "sed"} /\ OthersKept({kMaskDecimal})
    BY <1>1, <1>3, OpCodes, SetFlagFlags DEF op_cld, op_sed
  <2> QED
    BY <2>1 DEF Documented, FlagColumns
<1>4. CASE op_cli \/ op_sei
  <2>1. code \in {"cli", "sei"} /\ OthersKept({kMaskInterrupt})
    BY <1>1, <1>4, OpCodes, SetFlagFlags DEF op_cli, op_sei
  <2> QED
    BY <2>1 DEF Documented, FlagColumns
<1>5. CASE op_clv
  <2>1. code = "clv" /\ OthersKept({kMaskOverflow})
    BY <1>1, <1>5, OpCodes, SetFlagFlags DEF op_clv
  <2> QED
    BY <2>1 DEF Documented, FlagColumns
<1>6. CASE op_pla
  <2>1. code = "pla"
    BY <1>6, OpCodes
  <2> QED
    BY <1>6, <2>1, PullFlags DEF Documented, FlagColumns
<1>7. CASE op_plp \/ op_rti
  <2>1. code \in {"plp", "rti"}
    BY <1>7, OpCodes
  <2> QED
    BY <1>7, <2>1, PullFlags DEF Documented, FlagColumns
<1>8. CASE op_brk
  <2>1. code = "brk"
    BY <1>8, OpCodes
  <2> QED
    BY <1>8, <2>1, PullFlags DEF Documented, FlagColumns
<1> QED
  BY <1>2, <1>3, <1>4, <1>5, <1>6, <1>7, <1>8

(* ... and those that leave STATUS alone. *)
LEMMA OthersDocumented ==
  ASSUME Good,
         \/ op_bcc \/ op_bcs \/ op_beq \/ op_bmi \/ op_bne \/ op_bpl \/ op_bvs
         \/ op_jmp \/ op_jsr \/ op_rts \/ op_nop \/ op_pha \/ op_php \/ op_illegal
         \/ op_sta \/ op_stx \/ op_sty \/ op_txs \/ op_wai
  PROVE  Documented(instruction.code)
<1>1. cpu'.STATUS = cpu.STATUS
  BY StatusKept DEF Good
<1>2. OthersKept(FlagColumns(instruction.code))
  BY <1>1 DEF OthersKept, Within
<1>3. instruction.code \in {"bcc", "bcs", "beq", "bmi", "bne", "bpl", "bvs", "jmp", "jsr", "rts",
                            "nop", "pha", "php", "illegal", "sta", "stx", "sty", "txs", "wai"}
  BY OpCodes
<1> QED
  BY <1>2, <1>3 DEF Documented

(* What FlagsAsDocumented says of a step. *)
FlagsStep ==
  at = "fetch" /\ at' # at
    => LET code == instruction.code
           Description(v) == /\ IsSet(cpu', kMaskSign) <=> v > 127
                             /\ IsSet(cpu', kMaskZero) <=> v = 0
       IN  /\ cpu.STATUS \ FlagColumns(code) = cpu'.STATUS \ FlagColumns(code)
           /\ code \in {"and", "eor", "ora", "lda", "pla", "txa", "tya", "sbc"}
                => Description(cpu'.A)
           /\ code \in {"ldx", "tax", "tsx", "inx", "dex"} => Description(cpu'.X)
           /\ code \in {"ldy", "tay", "iny", "dey"} => Description(cpu'.Y)

(* It holds of every step. *)
LEMMA FlagStep == Good /\ [Next]_vars => [FlagsStep]_vars
<1> SUFFICES ASSUME Good, [Next]_vars, at = "fetch", at' # at
             PROVE  FlagsStep
  BY DEF FlagsStep
<1>1. Instructions
  BY FetchExecutes
<1>2. Documented(instruction.code)
  BY <1>1, LoadsDocumented, ComputationsDocumented, FlagsDocumented, OthersDocumented
     DEF Instructions
<1> QED
  BY <1>2 DEF Documented, OthersKept, Within, Describes, FlagsStep

(***************************************************************************)
(* No instruction changes a flag outside the column of its header, and S   *)
(* and Z describe the register that a load, a transfer, a logical          *)
(* instruction, an increment or SBC leaves its result in.                  *)
(***************************************************************************)
THEOREM FlagsCorrect == Spec => FlagsAsDocumented
<1>1. FlagsAsDocumented <=> [][FlagsStep]_vars
  BY DEF FlagsAsDocumented, FlagsStep
<1> QED
  BY <1>1, AlwaysGood, FlagStep, PTL DEF Spec
=============================================================================
