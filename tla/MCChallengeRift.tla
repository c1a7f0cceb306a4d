-------------------------- MODULE MCChallengeRift --------------------------
(* ChallengeRift on a small card, for TLC. *)
EXTENDS ChallengeRift

MCRifts   == 0..2
MCNumbers == 0..2
MCLocal   == {0, 2}

Chosen(active, dump, lo, hi) ==
    [active |-> active, random |-> lo # hi, dump |-> dump,
     range_start |-> lo, range_end |-> hi]

\* One rift with copies; a random one of the first two, or just the last,
\* without; or all off.
MCChoices ==
    {Chosen(TRUE, TRUE, 0, 0), Chosen(TRUE, FALSE, 0, 1), Chosen(TRUE, FALSE, 2, 2),
     Chosen(FALSE, FALSE, 0, 0)}
=============================================================================
