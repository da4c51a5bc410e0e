-------------------------------- MODULE Mask ---------------------------------
(***************************************************************************)
(* The running mask, which every receiving program keeps in a uint8_t.     *)
(* Slot n of the stream goes under mask n % Modulus, and the one under     *)
(* mask 0 carries no data.                                                 *)
(***************************************************************************)
EXTENDS Integers, Sequences

CONSTANT Modulus  \* values of the uint8_t: 256 in the code

ASSUME ModulusAssumption == Modulus \in Nat /\ Modulus >= 2

\* What the programs are to print: the bytes are those of slots lo + 1 .. hi
\* that carry data, in order.
InSlotOrder(bytes) == \A j, l \in DOMAIN bytes : j < l => bytes[j].slot < bytes[l].slot
SlotsOf(bytes) == {bytes[j].slot : j \in DOMAIN bytes}
DataBetween(lo, hi) == {slot \in (lo + 1) .. hi : slot % Modulus # 0}
DataSlots(bytes, lo, hi) == InSlotOrder(bytes) /\ SlotsOf(bytes) = DataBetween(lo, hi)
=============================================================================
