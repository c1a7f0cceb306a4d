----------------------------- MODULE MCPubFiles -----------------------------
(***************************************************************************)
(* PubFiles for TLC: two configurations that differ in every field.        *)
(***************************************************************************)
EXTENDS PubFiles, TLC

CONSTANTS s29, s30

MCSeasons == {s29, s30}

Configuration(events, seasons, season, flags) ==
    [x \in Fields |-> CASE x = "events.active" -> events
                        [] x = "seasons.active" -> seasons
                        [] x = "current_season" -> season
                        [] OTHER -> IF x \in flags THEN "on" ELSE "off"]

MCConfigs == {Configuration("on", "on", s29, Flags), Configuration("off", "off", s30, {})}
=============================================================================
