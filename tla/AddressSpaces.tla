---------------------------- MODULE AddressSpaces ----------------------------
(***************************************************************************)
(* What the virtual memory manager promises: address spaces that are       *)
(* independent of each other.  Each is a map from slots (what is left of a *)
(* virtual page number) to translations; mapping and unmapping change one  *)
(* slot of the current space, a clone is a copy made at one moment.        *)
(***************************************************************************)
CONSTANTS Spaces, Slots, Translations, Absent, First

VARIABLES current, space

vars == <<current, space>>

Init ==
  /\ current = First
  /\ space = [d \in Spaces |-> [s \in Slots |-> Absent]]

Map(s, t) ==
  /\ space' = [space EXCEPT ![current][s] = t]
  /\ UNCHANGED current

Clone(src, d) ==
  /\ space[d] = [s \in Slots |-> Absent]
  /\ space' = [space EXCEPT ![d] = space[src]]
  /\ UNCHANGED current

Switch(d) ==
  /\ current' = d
  /\ UNCHANGED space

Next ==
  \/ \E s \in Slots, t \in Translations \cup {Absent} : Map(s, t)
  \/ \E src, d \in Spaces : Clone(src, d)
  \/ \E d \in Spaces : Switch(d)

Spec == Init /\ [][Next]_vars

=============================================================================
