--------------------------- MODULE MCWaitingRoom ---------------------------
(* Small instances of WaitingRoom for TLC. *)
EXTENDS WaitingRoom, TLC

CONSTANTS u1, u2, u3

\* One slot, room for two in the queue.
OneSlot == {[maxConcurrent |-> 1, maxQueueSize |-> 2]}
\* One slot and a longer or a shorter queue, or two slots.  Two of three users
\* fill the room with the shorter queue, and the third is turned away.
Resized == {[maxConcurrent |-> 1, maxQueueSize |-> 2],
            [maxConcurrent |-> 1, maxQueueSize |-> 1],
            [maxConcurrent |-> 2, maxQueueSize |-> 1]}

Symmetry == Permutations(Users)
=============================================================================
