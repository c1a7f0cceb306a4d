-------------------------- MODULE MCConfigSession --------------------------
(***************************************************************************)
(* ConfigSession for TLC.  The configurations differ from the defaults in  *)
(* the switches of Free, the season, the mode and the event flags; the     *)
(* flags that no season and no user touches are all on or all off.         *)
(***************************************************************************)
EXTENDS ConfigSession

CONSTANTS Free, Modes

Themes == UNION {BuildSeasonEventMap(n) : n \in Seasons \cap MappedSeasons}
Others == Defaults.events \ (Themes \cup OwnFlags)

MCConfigs ==
    [on : {(Defaults.on \ Free) \cup s : s \in SUBSET Free}, season : Seasons,
     target : Targets, mode : Modes \cup {"Disabled"},
     events : {e \cup o : e \in SUBSET (Themes \cup OwnFlags), o \in {{}, Others}}]
=============================================================================
