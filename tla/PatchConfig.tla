----------------------------- MODULE PatchConfig -----------------------------
(***************************************************************************)
(* The configuration record (source/program/config.hpp) and the parts of   *)
(* config.cpp that compute on it: the season-to-event map and the          *)
(* normalisation that every load, save and apply goes through.             *)
(*                                                                         *)
(* A switch of PatchConfig is an element of Settings and is in c.on when   *)
(* it is on.  A number that only matters as "the same or not" (a speed     *)
(* multiplier, the handheld scale) is a switch too: on when it is not the  *)
(* value that leaves the game alone.                                       *)
(***************************************************************************)
EXTENDS Integers

CONSTANTS
    Seasons,    \* season numbers the user may choose
    Targets     \* vertical output resolutions the user may choose

ASSUME SeasonsAssumption == Seasons \subseteq 1..200
ASSUME TargetsAssumption == Targets \subseteq 720..2160

CheatSettings ==
    {"rare_cheats.active", "infinite_mp", "super_god_mode", "move_speed",
     "equip_any_slot", "instant_portal", "easy_kill_damage"}

DebugSettings ==
    {"debug.active", "enable_crashes", "enable_pubfile_dump",
     "enable_error_traces", "enable_debug_flags", "tagnx",
     "enable_exception_handler", "enable_oe_notification_hook"}

\* The [gui] fields that build_runtime_apply holds back from a live apply;
\* the language is one of them, but has a banner of its own.
GuiSettings == {"gui.enabled", "gui.visible", "gui.left_stick"}
HeldBack == GuiSettings \cup {"gui.language_override"}

Settings ==
    CheatSettings \cup DebugSettings \cup HeldBack \cup
    {"overlays.active", "buildlocker_watermark", "events.active",
     "seasons.active", "allow_online", "spoof_ptr", "challenge_rifts.active",
     "resolution_hack.active", "output_handheld_scale", "spoof_docked",
     "exp_scheduler", "loot_modifiers.active"}

\* D3HACK_SEASON_EVENT_FLAGS.
EventFlags ==
    {"IgrEnabled", "AnniversaryEnabled", "EasterEggWorldEnabled",
     "DoubleRiftKeystones", "DoubleBloodShards", "DoubleTreasureGoblins",
     "DoubleBountyBags", "RoyalGrandeur", "LegacyOfNightmares",
     "TriunesWill", "Pandemonium", "KanaiPowers", "TrialsOfTempests",
     "ShadowClones", "FourthKanaisCubeSlot", "EtherealItems", "SoulShards",
     "SwarmRifts", "SanctifiedItems", "DarkAlchemy", "NestingPortals"}

SeasonEventMapMode == {"MapOnly", "OverlayConfig", "Disabled"}

PatchConfigs ==
    [on : SUBSET Settings, season : Seasons, target : Targets,
     mode : SeasonEventMapMode, events : SUBSET EventFlags]

\* The member initialisers of PatchConfig.
Defaults ==
    [on |-> {"rare_cheats.active", "infinite_mp", "move_speed", "instant_portal",
             "events.active", "seasons.active", "resolution_hack.active",
             "output_handheld_scale", "exp_scheduler", "overlays.active",
             "debug.active", "enable_error_traces", "gui.enabled"},
     season |-> 30, target |-> 1080, mode |-> "Disabled",
     events |-> {"DoubleRiftKeystones", "DoubleBloodShards",
                 "DoubleTreasureGoblins", "DoubleBountyBags", "DarkAlchemy"}]

(***************************************************************************)
(* BuildSeasonEventMap: the theme of every season that has one.  The flag  *)
(* table's default_map column leaves DarkAlchemy on in every one of them.  *)
(***************************************************************************)
MappedSeasons == (14..22) \cup (24..37)

SeasonTheme(season) ==
    CASE season = 14 -> {"DoubleTreasureGoblins"}
      [] season = 15 -> {"DoubleBountyBags"}
      [] season = 16 -> {"RoyalGrandeur"}
      [] season = 17 -> {"LegacyOfNightmares"}
      [] season = 18 -> {"TriunesWill"}
      [] season \in {19, 35} -> {"Pandemonium"}
      [] season \in {20, 31, 37} -> {"KanaiPowers"}
      [] season = 21 -> {"TrialsOfTempests"}
      [] season \in {22, 33} -> {"ShadowClones", "FourthKanaisCubeSlot"}
      [] season \in {24, 32} -> {"EtherealItems"}
      [] season \in {25, 30, 36} -> {"SoulShards"}
      [] season = 26 -> {"SwarmRifts"}
      [] season \in {27, 34} -> {"SanctifiedItems"}
      [] season = 28 -> {}
      [] season = 29 -> {"NestingPortals"}

BuildSeasonEventMap(season) == SeasonTheme(season) \cup {"DarkAlchemy"}

\* The conditions under which ApplySeasonEventMapIfNeeded rewrites the flags.
MapApplies(c) ==
    /\ c.mode # "Disabled"
    /\ "seasons.active" \in c.on
    /\ c.season \in MappedSeasons

\* Mutant: the map is added to what is there in every mode.
ApplySeasonEventMapAlwaysAdds(c) ==
    IF MapApplies(c) THEN [c EXCEPT !.events = BuildSeasonEventMap(c.season) \cup @]
    ELSE c

ApplySeasonEventMapIfNeeded(c) ==
    IF ~MapApplies(c) THEN c
    ELSE IF c.mode = "OverlayConfig"
         THEN [c EXCEPT !.events = BuildSeasonEventMap(c.season) \cup @]
         ELSE [c EXCEPT !.events = BuildSeasonEventMap(c.season)]

\* ApplyTable reads every key of a table over the defaults, a missing one
\* leaving its default, and applies the season map last.
ApplyTable(c) == ApplySeasonEventMapIfNeeded(c)

\* NormalizePatchConfig writes the record out as a table, which has every key
\* (BuildPatchConfigTable), and reads that table back over the defaults.
NormalizePatchConfig(c) == ApplyTable(c)
=============================================================================
