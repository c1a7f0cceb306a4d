--------------------------- MODULE AtomicReplace ---------------------------
(***************************************************************************)
(* What a caller of d3::fs_util::WriteAllAtomic relies on, with no files   *)
(* in it: one register whose content is replaced as a whole.  A save is in *)
(* flight from its call to its return; its new content takes effect in one *)
(* step; a save that returns true has taken effect, one that returns false *)
(* has not, and a power loss ends a save without saying which.             *)
(*                                                                         *)
(* Contents are numbered in the order in which they were handed to a save, *)
(* so "newer" is ">"; 0 is "nothing was ever saved".                       *)
(***************************************************************************)
EXTENDS Naturals

VARIABLES
    power,      \* the program is running
    committed,  \* the content a recovery finds
    pending,    \* the content of the save in flight, 0 when there is none
    acked       \* the newest content a save has reported as saved

vars == <<power, committed, pending, acked>>

Init == /\ power = FALSE
        /\ committed \in {0, 1}
        /\ pending = 0
        /\ acked = committed

PowerOn == /\ ~power
           /\ power' = TRUE
           /\ UNCHANGED <<committed, pending, acked>>

\* WriteAllAtomic is called with content nobody has saved before.
Call == /\ power /\ pending = 0
        /\ pending' \in Nat
        /\ pending' > committed /\ pending' > acked
        /\ UNCHANGED <<power, committed, acked>>

\* The replacement, all of it at once.
Replace == /\ pending # 0
           /\ committed' = pending
           /\ UNCHANGED <<power, pending, acked>>

ReturnTrue == /\ pending # 0
              /\ committed = pending
              /\ acked' = pending
              /\ pending' = 0
              /\ UNCHANGED <<power, committed>>

ReturnFalse == /\ pending # 0
               /\ committed # pending
               /\ pending' = 0
               /\ UNCHANGED <<power, committed, acked>>

PowerLoss == /\ power
             /\ power' = FALSE
             /\ pending' = 0
             /\ UNCHANGED <<committed, acked>>

\* The owner throws the content away between two saves; an older one may be
\* found in its place.
Discard == /\ power /\ pending = 0
           /\ committed' \in Nat /\ committed' <= committed
           /\ acked' = 0
           /\ UNCHANGED <<power, pending>>

Next == PowerOn \/ Call \/ Replace \/ ReturnTrue \/ ReturnFalse \/ PowerLoss \/ Discard

Spec == Init /\ [][Next]_vars
=============================================================================
