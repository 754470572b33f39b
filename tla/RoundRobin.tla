----------------------------- MODULE RoundRobin -----------------------------
(***************************************************************************)
(* What the scheduler of task.c promises, with stacks, registers and list  *)
(* links left out: the tasks take turns in a ring, the newest task is put  *)
(* at the start of the ring, and the turn moves on as long as there is a   *)
(* task.                                                                   *)
(***************************************************************************)
EXTENDS Naturals, Sequences

CONSTANTS
  Tasks,    \* the tasks that can be created
  NoTask    \* nobody's turn yet

VARIABLES
  ring,     \* the tasks created so far, the newest one first
  turn      \* the task whose turn it is, or NoTask

ringVars == <<ring, turn>>

InRing == {ring[i] : i \in DOMAIN ring}

RingInit ==
  /\ ring = << >>
  /\ turn = NoTask

\* The first task gets the turn, every other one the place in front.
Join(t) ==
  /\ t \notin InRing
  /\ ring' = <<t>> \o ring
  /\ turn' = IF turn = NoTask THEN t ELSE turn

Follows(i) == IF i = Len(ring) THEN 1 ELSE i + 1

\* The turn moves to the next task of the ring.
Pass ==
  /\ \E i \in DOMAIN ring : ring[i] = turn /\ turn' = ring[Follows(i)]
  /\ UNCHANGED ring

RingNext == Pass \/ \E t \in Tasks : Join(t)

\* Without the promise that the turn goes on moving, and with it.
RingSafety == RingInit /\ [][RingNext]_ringVars
RingSpec == RingSafety /\ WF_ringVars(Pass)

=============================================================================
