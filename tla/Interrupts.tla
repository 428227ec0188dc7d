----------------------------- MODULE Interrupts -----------------------------
(***************************************************************************)
(* What the interrupt lines promise, whatever the program: a line that was *)
(* raised stays pending until the CPU accepts it; accepting clears that    *)
(* line and no other; an IRQ is accepted only while the I flag is clear;   *)
(* accepting an IRQ or an NMI sets I and a reset clears it; and a CPU that *)
(* runs accepts what is pending.  Raising a line that is pending already   *)
(* adds nothing.                                                           *)
(***************************************************************************)
EXTENDS FiniteSets

Line == {"irq", "nmi", "res"}

VARIABLES
  pending,    \* the lines raised and not accepted
  masked,     \* the I flag
  stopped     \* the CPU thread has returned

ivars == <<pending, masked, stopped>>

IInit ==
  /\ pending = {}
  /\ masked = FALSE
  /\ stopped = FALSE

Raise(l) ==
  /\ pending' = pending \cup {l}
  /\ UNCHANGED <<masked, stopped>>

Accept(l) ==
  /\ ~stopped
  /\ l \in pending
  /\ l = "irq" => ~masked
  /\ pending' = pending \ {l}
  /\ masked' = (l # "res")
  /\ UNCHANGED stopped

(* An instruction accepts nothing, and may change the I flag. *)
Instruction ==
  /\ ~stopped
  /\ masked' \in BOOLEAN
  /\ UNCHANGED <<pending, stopped>>

Stop ==
  /\ stopped' = TRUE
  /\ UNCHANGED <<pending, masked>>

INext ==
  \/ \E l \in Line : Raise(l) \/ Accept(l)
  \/ Instruction
  \/ Stop

ISafety == IInit /\ [][INext]_ivars

(* A pending line is accepted unless it stops being acceptable. *)
ILive == \A l \in Line : WF_ivars(Accept(l))

ISpec == ISafety /\ ILive
=============================================================================
