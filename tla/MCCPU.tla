------------------------------- MODULE MCCPU -------------------------------
(***************************************************************************)
(* Programs for the CPU of two kinds.  Small programs under interrupts:    *)
(* main programs of one or two instructions that use the stack, the I flag *)
(* or the interrupts, ended by an illegal opcode; an NMI handler that      *)
(* returns at once, and an IRQ handler that uses A and the stack and       *)
(* restores A.  And one program for every opcode and for several values of *)
(* A, of the operand and of STATUS: it moves the stack pointer to where    *)
(* the device is silent, stores the operand at $0010 and a pointer to it   *)
(* at $0012, loads A, X, Y and STATUS, and executes the instruction with   *)
(* operand bytes that make every addressing mode reach $0010.              *)
(***************************************************************************)
EXTENDS CPUContexts, ISA, TLC

(* Bytes laid out from an address, and a word as two of them. *)
Image(start, bytes) == [a \in start .. start + Len(bytes) - 1 |-> bytes[a - start + 1]]

MainStart == \h4920
NmiStart  == \h4960
IrqStart  == \h4970
SubStart  == \h4980

Vectors == Image(kVecNMI, <<Lo(NmiStart), Hi(NmiStart), Lo(MainStart), Hi(MainStart),
                            Lo(IrqStart), Hi(IrqStart)>>)

CLI == <<\h58>>
SEI == <<\h78>>
PHA == <<\h48>>
PLA == <<\h68>>
PHP == <<\h08>>
PLP == <<\h28>>
BRK == <<\h00, \hEA>>
WAI == <<\h02>>
RTI == <<\h40>>
RTS == <<\h60>>
TXS == <<\h9A>>
Halt == <<\hFF>>
LDA(v)    == <<\hA9, v>>
STA(zero) == <<\h85, zero>>
LDX(v)    == <<\hA2, v>>
LDY(v)    == <<\hA0, v>>
JSR == <<\h20, Lo(SubStart), Hi(SubStart)>>

Program(main, nmi, irq) ==
  Image(MainStart, main) @@ Image(NmiStart, nmi) @@ Image(IrqStart, irq)
    @@ Image(SubStart, RTS) @@ Vectors

-----------------------------------------------------------------------------
(* The programs under interrupts. *)

Mains == {PHA \o PLA, PHP \o PLP, SEI \o CLI, SEI \o WAI, WAI, BRK, JSR, PLA \o PHA, PHA \o JSR}

(* A handler that uses A and gives it back, and one that returns at once. *)
IrqHandler == PHA \o LDA(\h80) \o PLA \o RTI
NmiHandler == RTI

Interrupted == {Program(main \o Halt, NmiHandler, IrqHandler) : main \in Mains}

-----------------------------------------------------------------------------
(* The programs for the opcodes. *)

(* The first TXS makes SP 0, which silences the device. *)
Setup(a, m, status) ==
  TXS \o LDX(\h80) \o TXS \o LDA(m) \o STA(\h10) \o LDA(\h10) \o STA(\h12)
    \o LDX(2) \o LDY(2) \o LDA(status) \o PHA \o LDA(a) \o PLP

(* Operand bytes for an addressing mode: with X = 2 they lead to $0010. *)
Operands(mode, m) ==
  CASE mode \in {"implied", "accumulator"} -> <<>>
    [] mode = "immediate" -> <<m>>
    [] mode = "absolute" -> <<\h10, 0>>
    [] mode \in {"x_indexed", "y_indexed"} -> <<\h0E, 0>>
    [] mode \in {"x_indexed_zero", "y_indexed_zero"} -> <<\h0E>>
    [] mode = "indirect" -> <<\h12, 0>>
    [] mode = "pre_indexed_indirect" -> <<\h10>>
    [] mode = "post_indexed_indirect" -> <<\h12>>
    [] OTHER -> <<\h10>>

(* A program that ends in an instruction, or at the next illegal opcode. *)
TestOf(a, m, status, bytes) == Program(Setup(a, m, status) \o bytes, Halt, Halt)

Executed(hexcode, a, m, status) ==
  TestOf(a, m, status, <<hexcode>> \o Operands(dispatch_table[hexcode].addr, m))

(* 5D is not in the table. *)
Opcodes == {DefineOpcodes[i][1] : i \in DOMAIN DefineOpcodes} \cup {\h5D}
OpcodesOf(codes, mode) ==
  {b \in Opcodes : dispatch_table[b].code \in codes /\ dispatch_table[b].addr = mode}
Boundary == {\h00, \h01, \h7F, \h80, \hFF}

AllOpcodes ==
  {Executed(b, p[1], p[2], status) :
     b \in Opcodes, p \in {<<\h01, \h7F>>, <<\h80, \hFF>>, <<\h80, \h00>>}, status \in {\h00, \hC7}}
  \cup
  {Executed(b, a, m, status) :
     b \in OpcodesOf({"adc", "sbc", "cmp"}, "immediate"),
     a \in Boundary, m \in Boundary, status \in {\h00, \h01, \h09}}

(* Instructions that write, given an address in ROM. *)
RomWriters ==
  {TestOf(\h01, \h7F, 0, <<b, Lo(IrqStart), Hi(IrqStart)>>) :
     b \in OpcodesOf({"sta", "stx", "sty", "inc", "ror"}, "absolute")}

MCPrograms == Interrupted \cup AllOpcodes \cup RomWriters

(* Every branch, taken or not, forwards and backwards. *)
Branching ==
  {TestOf(0, 0, status, <<b, m>>) :
     b \in OpcodesOf({"bcc", "bcs", "beq", "bmi", "bne", "bpl", "bvs"}, "immediate"),
     m \in {\h10, \hF0}, status \in {\h00, \hC7}}

IrqNmi  == [d \in Devices |-> {"irq", "nmi"}]
NoLines == [d \in Devices |-> {}]

(* Uninitialised storage; no program of these runs reads it. *)
MCGarbage == [d \in Device |-> 0]
=============================================================================
