--------------------------- MODULE CPUInterrupts ---------------------------
(***************************************************************************)
(* The CPU implements the interrupt lines of module Interrupts, and what   *)
(* WAI promises a program that waits for them.                             *)
(***************************************************************************)
EXTENDS CPU

InterruptLines == INSTANCE Interrupts WITH
  pending <- {l \in Line : int[l]},
  masked  <- kMaskInterrupt \in cpu.STATUS,
  stopped <- at = "stopped"

(***************************************************************************)
(* Every step of CPU and bus is one of the interrupt lines' steps or none: *)
(* no handler, instruction or device clears a flag but handle_irq,         *)
(* handle_nmi and handle_res their own, and handle_irq never runs with I   *)
(* set (cycle, op_wai, Bus::int_irq, int_nmi, int_res).                    *)
(***************************************************************************)
LinesSafety == InterruptLines!ISafety

(***************************************************************************)
(* A CPU that no lost notification leaves asleep in op_wai accepts every   *)
(* raised NMI and reset, and every IRQ that the I flag does not mask any   *)
(* more (the polls of cycle before every instruction, and of op_wai).      *)
(***************************************************************************)
LinesLive == []<>(at # "wai_blocked") => InterruptLines!ILive

(***************************************************************************)
(* A pending IRQ is not overlooked by a program that masks it now and      *)
(* then, nor starved by NMIs: if I is clear at cycle's first poll again    *)
(* and again, int_irq does not stay set.                                   *)
(***************************************************************************)
IRQServed ==
  []<>(at = "cycle_irq" /\ kMaskInterrupt \notin cpu.STATUS) => []<>(~int["irq"])

(***************************************************************************)
(* README: WAI "waits until the next interrupt happens".  A CPU blocked in *)
(* op_wai whose predicate has become true goes on.                         *)
(***************************************************************************)
WaitEnds == (at = "wai_blocked" /\ \E l \in Line : int[l]) ~> at # "wai_blocked"

(***************************************************************************)
(* If a device raises its interrupts again and again, as thread_clock does *)
(* while its clock is switched on, no sleep of WAI lasts, in spite of lost *)
(* wakeups: some notification comes while the CPU thread is blocked.       *)
(***************************************************************************)
Ticking == \A d \in Devices : []<><<\E l \in Lines[d] : raise_flag(d, l)>>_vars

WaitEndsWhenTicking == Ticking => (at = "wai_blocked" ~> at # "wai_blocked")
=============================================================================
