------------------------------ MODULE IfIndex -------------------------------
(***************************************************************************)
(* The interface index of a PON (internal/snmp/ifindex.go), by which every *)
(* walk of a PON is addressed, and from which discovery and the search     *)
(* index get board and PON back.  Shifts and masks of the code are         *)
(* products, quotients and remainders of powers of two; an int of 64 bits  *)
(* does not overflow here.                                                 *)
(***************************************************************************)
EXTENDS Integers

\* (1 << 28) + (slot << 16) + (port << 8); the shelf is not used.
CalculateIfIndex(slot, port) == 268435456 + slot * 65536 + port * 256

\* ParseIfIndex: the board, and the PON.
ParseSlot(ifIndex) == (ifIndex \div 65536) % 256
ParsePort(ifIndex) == (ifIndex \div 256) % 256

\* What fits into the eight bits of each.
Byte == 0 .. 255

=============================================================================
