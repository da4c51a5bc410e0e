------------------------------- MODULE HexDump -------------------------------
(***************************************************************************)
(* hex_dump, of which each Linux program has a copy: of a chunk that was   *)
(* decoded, at most DumpMax bytes are printed, and "truncated" for the     *)
(* rest.  The programs keep nothing they have printed; the models keep     *)
(* what was decoded, and which positions of it were left out.              *)
(***************************************************************************)
EXTENDS Integers, Sequences

CONSTANT DumpMax  \* max_show: 128, and 64 in ks959_libusb_probe

ASSUME DumpAssumption == DumpMax \in Nat

\* The positions left out of a chunk that follows n bytes decoded before.
LeftOut_Short(n, bytes) == {n + j : j \in DumpMax .. Len(bytes)}
LeftOut(n, bytes) == {n + j : j \in (DumpMax + 1) .. Len(bytes)}

\* What is left out are ends of chunks: each byte of it is in a run that follows
\* DumpMax bytes printed together, run and bytes being at most one chunk.
TailsOnly(cut, chunk_size) ==
  \A p \in cut :
    \E start \in 0 .. (p - DumpMax - 1) :
      /\ p - start <= chunk_size
      /\ ((start + 1) .. (start + DumpMax)) \cap cut = {}
      /\ (start + DumpMax + 1) .. p \subseteq cut
=============================================================================
