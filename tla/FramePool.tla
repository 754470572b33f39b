------------------------------ MODULE FramePool ------------------------------
(***************************************************************************)
(* What the page allocator of memory.c promises its callers, with          *)
(* addresses, links and headers left out: a stack of page frames from      *)
(* which one frame at a time is taken, and to which a taken frame may be   *)
(* given back.  A frame is in one place only, the frame given back last is *)
(* the one taken next, and asking an empty pool for a frame stops the      *)
(* machine for good.                                                       *)
(***************************************************************************)
EXTENDS Naturals, Sequences

CONSTANT FrameCount   \* number of page frames init_memory found

VARIABLES
  stack,     \* the free frames, the next one to be taken first
  used,      \* the frames some caller holds
  stopped    \* alloc_page found the pool empty and halts for ever

poolVars == <<stack, used, stopped>>

Frames == 1..FrameCount

PoolInit ==
  /\ stack = [i \in Frames |-> FrameCount - i + 1]
  /\ used = {}
  /\ stopped = FALSE

\* A frame leaves the top of the stack and belongs to the caller.
Take ==
  /\ ~stopped
  /\ stack # << >>
  /\ used' = used \cup {Head(stack)}
  /\ stack' = Tail(stack)
  /\ UNCHANGED stopped

\* A caller gives one of its frames back.
Give ==
  /\ ~stopped
  /\ \E f \in used :
       /\ used' = used \ {f}
       /\ stack' = <<f>> \o stack
  /\ UNCHANGED stopped

\* Nothing is left to take.
Stop ==
  /\ stack = << >>
  /\ stopped' = TRUE
  /\ UNCHANGED <<stack, used>>

PoolNext == Take \/ Give \/ Stop

PoolSpec == PoolInit /\ [][PoolNext]_poolVars

=============================================================================
