--------------------------- MODULE MCRuntimeApply ---------------------------
(***************************************************************************)
(* RuntimeApply for TLC: configurations that differ in a few switches, in  *)
(* the season, the resolution or the event flags.                          *)
(***************************************************************************)
EXTENDS RuntimeApply

Choices(fixed, free, seasons, targets, flags) ==
    [on : {fixed \cup s : s \in SUBSET free}, season : seasons, target : targets,
     mode : {"Disabled"}, events : SUBSET flags]

\* What an apply changes in the running game, and what needs a restart.
MCConfigs ==
    Choices({"exp_scheduler", "events.active"},
            {"rare_cheats.active", "infinite_mp", "seasons.active"},
            {29, 30}, {1080}, {"SoulShards"})
    \cup
    Choices({"seasons.active", "overlays.active"},
            {"resolution_hack.active", "spoof_docked",
             "buildlocker_watermark"},
            {30}, {1080, 2160}, {})
    \cup
    Choices({}, {"spoof_ptr"}, {30}, {1080}, {})
    \cup
    Choices({"spoof_ptr"}, {"debug.active", "tagnx"}, {30}, {1080}, {})
=============================================================================
