----------------------------- MODULE Interrupts -----------------------------
(***************************************************************************)
(* core/src/interrupt.rs.  Every device holds a clone of one Rc<Cell>, the *)
(* interrupt flags, and sets bits in it; the controller adds IME and IE.   *)
(***************************************************************************)
EXTENDS Integers

VARIABLE interrupt_flags   \* IF: the requested interrupts

Requested(flags, irqs) == flags \cup irqs

\* InterruptController::clear: writing a 1 to a bit of IF acknowledges it.
Acknowledged(flags, irqs) == flags \ irqs

IrqPending(ime, ie, flags) == ime /\ ie \cap flags # {}
=============================================================================
