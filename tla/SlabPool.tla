------------------------------ MODULE SlabPool ------------------------------
(***************************************************************************)
(* What a slab allocator promises to its clients: a block is either free   *)
(* or with the client it was given to, a request fails only when no block  *)
(* is free, and no block comes from nowhere.                               *)
(***************************************************************************)
CONSTANTS Blocks, None

VARIABLES
  pool,   \* the free blocks
  held,   \* the blocks that clients have
  got     \* what the last request was given, None if nothing

vars == <<pool, held, got>>

Init == pool = {} /\ held = {} /\ got = None

(* New blocks join the pool. *)
Donate ==
  /\ pool \subseteq pool' /\ pool' \subseteq Blocks \ held
  /\ UNCHANGED <<held, got>>

Take ==
  \E b \in pool :
    /\ pool' = pool \ {b}
    /\ held' = held \cup {b}
    /\ got' = b

TakeNothing ==
  /\ pool = {}
  /\ got' = None
  /\ UNCHANGED <<pool, held>>

(* A client returns a block. *)
Return ==
  \E b \in held :
    /\ held' = held \ {b}
    /\ pool' = pool \cup {b}
    /\ UNCHANGED got

Next == Donate \/ Take \/ TakeNothing \/ Return

Spec == Init /\ [][Next]_vars
=============================================================================
