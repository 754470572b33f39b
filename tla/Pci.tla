--------------------------------- MODULE Pci ---------------------------------
(***************************************************************************)
(* The enumeration of pci.c: three nested loops over bus, slot and         *)
(* function, each of which asks for register 0 of one function through the *)
(* address and data ports.  The loop variables keep their C widths.        *)
(***************************************************************************)
EXTENDS Naturals

CONSTANTS
  Buses, Slots, Funcs,   \* 256, 32 and 8 in the code
  BusRange,              \* values of uint16_t, the type of bus
  SlotRange,             \* values of uint8_t, the type of slot and func
  ConfigBytes,           \* bytes of a function's configuration space: 256
  Devices                \* the functions that answer, as <<bus, slot, func>>

ASSUME PciAssumption ==
  /\ Buses \in Nat /\ Slots \in Nat \ {0} /\ Funcs \in Nat \ {0}
  /\ BusRange \in Nat /\ BusRange > Buses
  /\ SlotRange \in Nat /\ SlotRange > Slots /\ SlotRange > Funcs
  /\ ConfigBytes \in Nat \ {0}
  /\ Devices \subseteq (0..(Buses - 1)) \X (0..(Slots - 1)) \X (0..(Funcs - 1))

\* pci_read's address: the fields next to each other, as its shifts put them,
\* with the offset rounded down to a double word.
ConfigAddress(bus, slot, func, offset) ==
  ((bus * Slots + slot) * Funcs + func) * ConfigBytes + (offset - (offset % 4))

\* The host bridge takes the address apart again; register 0 of a function
\* that is not there reads as all ones.
Selected(address) ==
  LET f == address \div ConfigBytes
  IN <<f \div (Slots * Funcs), (f \div Funcs) % Slots, f % Funcs>>

Answers(address) == Selected(address) \in Devices

\* The next round of the loops.  uint16_t holds 256; a uint8_t would not.
NextBus(bus) == (bus + 1) % BusRange

NextRound(at) ==
  LET func == (at[3] + 1) % SlotRange
      slot == (at[2] + 1) % SlotRange
  IN IF func < Funcs THEN <<at[1], at[2], func>>
     ELSE IF slot < Slots THEN <<at[1], slot, 0>>
     ELSE <<NextBus(at[1]), 0, 0>>

=============================================================================
