------------------------------- MODULE MCWait -------------------------------
(***************************************************************************)
(* Programs that loop for ever, for the liveness of the interrupt lines    *)
(* and of WAI, and programs that stop after one instruction.               *)
(***************************************************************************)
EXTENDS CPUInterrupts, TLC

Image(start, bytes) == [a \in start .. start + Len(bytes) - 1 |-> bytes[a - start + 1]]

MainStart == \h4920
NmiStart  == \h4930
IrqStart  == \h4940
SubStart  == \h4948

Vectors == Image(kVecNMI, <<Lo(NmiStart), Hi(NmiStart), Lo(MainStart), Hi(MainStart),
                            Lo(IrqStart), Hi(IrqStart)>>)

NOP == <<\hEA>>
SEI == <<\h78>>
CLI == <<\h58>>
WAI == <<\h02>>
RTI == <<\h40>>
BRK == <<\h00, \hEA>>
JMP(address) == <<\h4C, Lo(address), Hi(address)>>

(* A main program that repeats its body; handlers that return at once. *)
Loop(body) ==
  Image(MainStart, body \o JMP(MainStart)) @@ Image(NmiStart, RTI) @@ Image(IrqStart, RTI)
    @@ Vectors

Polling == {Loop(NOP), Loop(SEI \o CLI), Loop(BRK), Loop(SEI)}
Waiting == {Loop(WAI), Loop(SEI \o WAI)}
Looping == Polling \cup Waiting

(***************************************************************************)
(* For each instruction that is not in the loops a program that executes   *)
(* it and then an illegal opcode; the operands are at $0010.  JSR calls a  *)
(* routine that returns.  A reset starts a program again and keeps the     *)
(* registers, so those that count set their register or byte first.        *)
(***************************************************************************)
Ending(bytes) ==
  Image(MainStart, bytes \o <<\hFF>>) @@ Image(NmiStart, RTI) @@ Image(IrqStart, RTI)
    @@ Image(SubStart, <<\h60>>) @@ Vectors

Implied == {"clc", "cld", "clv", "pha", "php", "pla", "plp", "sec", "sed", "tax", "tay", "tsx",
            "txa", "txs", "tya"}
Branches == {"bcc", "bcs", "beq", "bmi", "bne", "bpl", "bvs"}
ZeroPage == {"adc", "and", "asl", "bit", "cmp", "cpx", "cpy", "eor", "lda", "ldx", "ldy",
             "lsr", "ora", "rol", "ror", "sbc", "sta", "stx", "sty"}

OpcodesOf(codes, mode) ==
  {b \in Byte : dispatch_table[b].code \in codes /\ dispatch_table[b].addr = mode}

Stopping ==
  {Ending(<<b>>) : b \in OpcodesOf(Implied, "implied")}
    \cup {Ending(<<b, 0>>) : b \in OpcodesOf(Branches, "immediate")}
    \cup {Ending(<<b, \h10>>) : b \in OpcodesOf(ZeroPage, "absolute_zero")}
    \cup {Ending(<<\h20, Lo(SubStart), Hi(SubStart)>>), Ending(<<\hA2, 0, \hE8, \hCA>>),
          Ending(<<\hA0, 0, \hC8, \h88>>), Ending(<<\h85, \h10, \hE6, \h10, \hC6, \h10>>)}

MCPrograms == Looping \cup Stopping

AllLines == [d \in Devices |-> Line]

MCGarbage == [d \in Device |-> 0]
=============================================================================
