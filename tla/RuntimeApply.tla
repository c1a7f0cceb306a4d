---------------------------- MODULE RuntimeApply ----------------------------
(***************************************************************************)
(* How a configuration reaches the running game: MainInit installs hooks   *)
(* and patches once per boot (main.cpp, hook_registry.cpp, the hooks/      *)
(* headers, d3/patches.cpp), ApplyPatchConfigRuntime changes what can be   *)
(* changed afterwards and says what needs a restart (runtime_apply.cpp),   *)
(* and GameCommonData::Initialize arms the seasonal gate for each game.    *)
(***************************************************************************)
EXTENDS PatchConfig

CONSTANT Configs        \* the configurations considered

ASSUME ConfigsAssumption == Configs \subseteq PatchConfigs

VARIABLES
    running,    \* MainInit has run since the last power-on
    global,     \* global_config
    image,      \* hooks and code patches present in the game's image
    xvars,      \* the game's own variables, as the mod has set them
    target,     \* output height the display-mode patches were built from
    gate,       \* g_dynamic_seasonal_patch_applied
    game,       \* the kind of game GameCommonData was last set up for
    result,     \* restart_required of the last ApplyPatchConfigRuntime
    \* observation only
    noted       \* restart notes reported since boot

vars == <<running, global, image, xvars, target, gate, game, result, noted>>

\* Everything the mod may put into the image.
Features ==
    {"EquipAny", "VarRes", "ForceAncient", "MoveSpeed", "SpoofDocked",
     "FontDraw", "OeNotifications", "ResolutionHooks", "ChallengeRift", "PubFileDump",
     "ErrorTraces", "TagNx", "LobbyHooks", "InstantPortal", "InfiniteMp",
     "CrashPatches", "HideOnline", "EasyKill", "HandheldScale",
     "ExceptionHandler", "BuildLocker"}

Stock == 0      \* a number the mod has left as the game has it

On(c, s) == s \in c.on
When(condition, thing) == IF condition THEN {thing} ELSE {}

(***************************************************************************)
(* Boot: what each set-up routine puts into the image.                     *)
(***************************************************************************)
InfiniteMp(c) ==
    On(c, "rare_cheats.active") /\ (On(c, "super_god_mode") \/ On(c, "infinite_mp"))

BuildLocker(c) == {"overlays.active", "buildlocker_watermark"} \subseteq c.on

\* Built in (D3HACK_ENABLE_UTILITY_DEBUG_HOOKS); the command-line hooks are not.
SetupUtilityDebugHooks(c) ==
    When(On(c, "debug.active"), "FontDraw") \cup
    When(On(c, "enable_oe_notification_hook"), "OeNotifications")

\* Two of the hooks stand for their kind: EquipAny for hooks whose callback
\* tests its own switch, MoveSpeed for those that only test the section's.
SetupUtilityHooks(c) ==
    When({"rare_cheats.active", "equip_any_slot"} \subseteq c.on, "EquipAny") \cup
    When(On(c, "resolution_hack.active"), "VarRes") \cup
    When(On(c, "loot_modifiers.active"), "ForceAncient") \cup
    When({"rare_cheats.active", "move_speed"} \subseteq c.on, "MoveSpeed") \cup
    When(On(c, "spoof_docked"), "SpoofDocked") \cup
    SetupUtilityDebugHooks(c)

SetupResolutionHooks(c) == When(On(c, "resolution_hack.active"), "ResolutionHooks")

EnabledDebuggingHooks(c) ==
    \/ On(c, "challenge_rifts.active")
    \/ /\ On(c, "debug.active")
       /\ c.on \cap (DebugSettings \ {"debug.active", "enable_crashes"}) # {}

SetupDebuggingHooks(c) ==
    IF ~EnabledDebuggingHooks(c) THEN {}
    ELSE When(On(c, "challenge_rifts.active"), "ChallengeRift") \cup
         When({"debug.active", "enable_pubfile_dump"} \subseteq c.on, "PubFileDump") \cup
         When({"debug.active", "enable_error_traces"} \subseteq c.on, "ErrorTraces") \cup
         When({"debug.active", "tagnx"} \subseteq c.on, "TagNx")

SetupLobbyHooks(c) == When(On(c, "enable_crashes"), "LobbyHooks")

\* One representative of the code cheats, all written once and never undone.
PortCheatCodes(c) ==
    When({"rare_cheats.active", "instant_portal"} \subseteq c.on, "InstantPortal")

PatchBase(c) ==
    PortCheatCodes(c) \cup
    When(InfiniteMp(c), "InfiniteMp") \cup
    When(On(c, "enable_crashes"), "CrashPatches") \cup
    When(~On(c, "allow_online"), "HideOnline") \cup
    When({"rare_cheats.active", "easy_kill_damage"} \subseteq c.on, "EasyKill")

\* LoadPatchConfig latches g_rt_scale, MainInit the exception handler.
BootImage(c) ==
    When(On(c, "output_handheld_scale"), "HandheldScale") \cup
    When(On(c, "enable_exception_handler"), "ExceptionHandler") \cup
    SetupUtilityHooks(c) \cup SetupResolutionHooks(c) \cup
    SetupDebuggingHooks(c) \cup SetupLobbyHooks(c) \cup
    When(BuildLocker(c), "BuildLocker") \cup PatchBase(c)

\* MaxResolutionHackOutputTarget: it depends on a mode of the game's own, which
\* the mod reads each time and never sets.
OutputCaps == {1440, 2160}

PatchResolutionTargets(c, cap) ==
    IF ~On(c, "resolution_hack.active") THEN Stock
    ELSE IF c.target > cap THEN cap ELSE c.target

\* What a boot may build the display modes from.
BootTargets(c) == {PatchResolutionTargets(c, cap) : cap \in OutputCaps}

(***************************************************************************)
(* The game's XVars.  PatchBase sets four from the configuration; the two  *)
(* dynamic patches set the others when their section is on.                *)
(***************************************************************************)
XVars == [ptr : BOOLEAN, sched : BOOLEAN, rift : BOOLEAN, override : BOOLEAN,
          season : Seasons \cup {Stock}, themed : BOOLEAN,
          events : SUBSET EventFlags]

StockXVars == [ptr |-> FALSE, sched |-> FALSE, rift |-> FALSE,
               override |-> FALSE, season |-> Stock, themed |-> FALSE,
               events |-> {}]

PatchDynamicEvents(x, c) ==
    IF On(c, "events.active") THEN [x EXCEPT !.themed = TRUE, !.events = c.events]
    ELSE x

PatchDynamicSeasonal(x, c) ==
    IF On(c, "seasons.active") THEN [x EXCEPT !.season = c.season] ELSE x

\* Mutant: the PTR flag can be switched on at run time, never off.
SetServiceXVarsEnableOnly(x, c) ==
    [x EXCEPT !.ptr = @ \/ On(c, "spoof_ptr"), !.sched = On(c, "exp_scheduler")]

SetServiceXVars(x, c) ==
    [x EXCEPT !.ptr = On(c, "spoof_ptr"), !.sched = On(c, "exp_scheduler")]

BootXVars(c) ==
    LET x == PatchDynamicSeasonal(PatchDynamicEvents(StockXVars, c), c)
    IN  [SetServiceXVars(x, c) EXCEPT !.rift = On(c, "challenge_rifts.active"),
                                      !.override = On(c, "seasons.active")]

Games == {"none", "plain", "seasonal"}

(***************************************************************************)
(* Restart notes.  A rule reports a change of its field, whatever the      *)
(* field's section; the last is about the two output heights.              *)
(***************************************************************************)

\* Mutant: the rule for SpoofDocked is missing.
k_restart_rules_without_docked ==
    {<<"resolution_hack.active", "Resolution hack">>,
     <<"output_handheld_scale", "Resolution hack">>,
     <<"enable_crashes", "Crash hooks">>,
     <<"allow_online", "AllowOnlinePlay">>,
     <<"tagnx", "SpoofNetworkFunctions">>,
     <<"enable_debug_flags", "Debug flags">>,
     <<"enable_exception_handler", "Exception handler">>,
     <<"enable_oe_notification_hook", "OE notifications">>}

k_restart_rules ==
    {<<"resolution_hack.active", "Resolution hack">>,
     <<"output_handheld_scale", "Resolution hack">>,
     <<"spoof_docked", "Spoof docked">>,
     <<"enable_crashes", "Crash hooks">>,
     <<"allow_online", "AllowOnlinePlay">>,
     <<"tagnx", "SpoofNetworkFunctions">>,
     <<"enable_debug_flags", "Debug flags">>,
     <<"enable_exception_handler", "Exception handler">>,
     <<"enable_oe_notification_hook", "OE notifications">>}

Notes == {rule[2] : rule \in k_restart_rules} \cup
         {"Resolution targets", "BuildLocker", "Events", "Seasons"}

Changed(a, b, s) == On(a, s) # On(b, s)

\* Mutant: a section that is off is reported, not one that is switched off.
RestartNotesOfState(prev, c) ==
    When(~BuildLocker(c), "BuildLocker") \cup
    When(~On(c, "events.active"), "Events") \cup When(~On(c, "seasons.active"), "Seasons")

RestartNotes(prev, c) ==
    When(BuildLocker(prev) /\ ~BuildLocker(c), "BuildLocker") \cup
    When(On(prev, "events.active") /\ ~On(c, "events.active"), "Events") \cup
    When(On(prev, "seasons.active") /\ ~On(c, "seasons.active"), "Seasons") \cup
    {rule[2] : rule \in {r \in k_restart_rules : Changed(prev, c, r[1])}} \cup
    When(prev.target # c.target \/ Changed(prev, c, "output_handheld_scale"),
         "Resolution targets")

TypeOK ==
    /\ running \in BOOLEAN
    /\ global \in Configs
    /\ image \subseteq Features
    /\ xvars \in XVars
    /\ target \in Targets \cup OutputCaps \cup {Stock}
    /\ gate \in BOOLEAN
    /\ game \in Games
    /\ result \in BOOLEAN
    /\ noted \subseteq Notes

Init ==
    /\ running = FALSE
    /\ global \in Configs
    /\ image = {} /\ xvars = StockXVars /\ target = Stock
    /\ gate = FALSE /\ game = "none"
    /\ result = FALSE /\ noted = {}

(***************************************************************************)
(* Actions                                                                 *)
(***************************************************************************)

\* MainInit, from LoadPatchConfig to the end of PatchBase.
MainInit(c) ==
    /\ ~running
    /\ running' = TRUE
    /\ global' = c
    /\ image' = BootImage(c)
    /\ xvars' = BootXVars(c)
    /\ target' \in BootTargets(c)
    /\ gate' = FALSE /\ game' = "none"
    /\ result' = FALSE /\ noted' = {}

\* Mutant: the patch is armed without a look at the configuration.
SetDynamicSeasonalPatchArmedBlindly(c, armed) == gate' = armed

\* SetDynamicSeasonalPatchArmed, given the configuration it reads.
SetDynamicSeasonalPatchArmed(c, armed) == gate' = (armed /\ On(c, "seasons.active"))

\* Mutant: the patch is treated as enable-only, like BuildLocker.
PatchInfiniteMpEnableOnly(img, prev, c) ==
    img \cup When(InfiniteMp(c) /\ ~InfiniteMp(prev), "InfiniteMp")

\* PatchInfiniteMp, called when the effective switch changes.
PatchInfiniteMp(img, prev, c) ==
    IF InfiniteMp(prev) = InfiniteMp(c) THEN img
    ELSE IF InfiniteMp(c) THEN img \cup {"InfiniteMp"}
    ELSE img \ {"InfiniteMp"}

\* PatchDynamicSeasonal ends by disarming the patch; switching the section
\* off calls UpdateDynamicSeasonalForSpawn(nullptr).
ApplySeasonalGate(prev, c) ==
    IF On(c, "seasons.active") \/ On(prev, "seasons.active")
    THEN SetDynamicSeasonalPatchArmed(c, FALSE)
    ELSE UNCHANGED gate

ApplyPatchConfigRuntime(c) ==
    /\ running
    /\ global' = c
    /\ xvars' = PatchDynamicSeasonal(PatchDynamicEvents(SetServiceXVars(xvars, c), c), c)
    /\ image' = PatchInfiniteMp(image, global, c) \cup
                When(BuildLocker(c) /\ ~BuildLocker(global), "BuildLocker")
    /\ ApplySeasonalGate(global, c)
    /\ result' = (RestartNotes(global, c) # {})
    /\ noted' = noted \cup RestartNotes(global, c)
    /\ UNCHANGED <<running, target, game>>

\* The seasonal bit of the game's creation flags decides; "none" stands for
\* the call without parameters.
UpdateDynamicSeasonalForSpawn(kind) ==
    SetDynamicSeasonalPatchArmed(global, kind = "seasonal")

\* The hook of GameCommonData::Initialize, then the game's own code.
GameCommonDataInit(kind) ==
    /\ running
    /\ UpdateDynamicSeasonalForSpawn(kind)
    /\ game' = kind
    /\ UNCHANGED <<running, global, image, xvars, target, result, noted>>

PowerOff ==
    /\ running
    /\ running' = FALSE
    /\ image' = {} /\ xvars' = StockXVars /\ target' = Stock
    /\ gate' = FALSE /\ game' = "none"
    /\ result' = FALSE /\ noted' = {}
    /\ UNCHANGED global

Next ==
    \/ \E c \in Configs : MainInit(c) \/ ApplyPatchConfigRuntime(c)
    \/ \E kind \in Games : GameCommonDataInit(kind)
    \/ PowerOff

Spec == Init /\ [][Next]_vars

(***************************************************************************)
(* What is in effect, and what a boot with the same configuration would    *)
(* put in effect.                                                          *)
(***************************************************************************)
\* Hooks whose callback reads global_config act only while it says so.  The
\* callbacks of ResolutionHooks do not read it: installed, they act.
LiveGate ==
    [EquipAny      |-> {"rare_cheats.active", "equip_any_slot"},
     MoveSpeed     |-> {"rare_cheats.active"},
     VarRes        |-> {"resolution_hack.active"},
     SpoofDocked   |-> {"spoof_docked"},
     PubFileDump   |-> {"enable_pubfile_dump"},
     ChallengeRift |-> {"challenge_rifts.active"}]

InEffect(f) ==
    f \in image /\ (f \in DOMAIN LiveGate => LiveGate[f] \subseteq global.on)

Stale(f) == InEffect(f) # (f \in BootImage(global))

\* The features a restart note stands for.
NoteOf ==
    [ResolutionHooks |-> "Resolution hack", VarRes |-> "Resolution hack",
     HandheldScale |-> "Resolution hack", SpoofDocked |-> "Spoof docked",
     CrashPatches |-> "Crash hooks", LobbyHooks |-> "Crash hooks",
     HideOnline |-> "AllowOnlinePlay", BuildLocker |-> "BuildLocker",
     ExceptionHandler |-> "Exception handler",
     OeNotifications |-> "OE notifications", TagNx |-> "SpoofNetworkFunctions"]

\* The debug section is not what it was at boot: FontDraw is installed exactly
\* when it was on.
DebugSectionMoved == ("FontDraw" \in image) # On(global, "debug.active")

(***************************************************************************)
(* Properties                                                              *)
(***************************************************************************)

\* PatchInfiniteMp is undone and redone at run time: through any sequence of
\* applies, the patch is in the image exactly when the configuration in force
\* asks for it (section on, and InfiniteMP or SuperGodMode).
InfiniteMpFollowsConfig == running => ("InfiniteMp" \in image <=> InfiniteMp(global))

\* The NOP over the game's seasonal test is in place only in a game created
\* as seasonal, and never while the seasons section is off, in whatever order
\* applies and games come.
GateOnlyInSeasonalGame == gate => game = "seasonal" /\ On(global, "seasons.active")

\* The XVars that ApplyPatchConfigRuntime can update never lag behind the
\* configuration; season and events follow it while their section is on.
XVarsFollowConfig ==
    running =>
        /\ xvars.ptr <=> On(global, "spoof_ptr")
        /\ xvars.sched <=> On(global, "exp_scheduler")
        /\ On(global, "seasons.active") => xvars.season = global.season
        /\ On(global, "events.active") => xvars.themed /\ xvars.events = global.events

\* A feature that a restart rule watches never differs silently from what a
\* reboot with the same configuration would give: since boot, some apply has
\* reported its note.  The one exception is TagNx, whose hook needs the debug
\* section too while its rule watches tagnx alone: it may be out of step
\* unreported, but only while the section is not what it was at
\* boot: config_schema.cpp marks that one RuntimeSafe.  Includes the output
\* height, under either cap, and what Events and Seasons leave behind.
NoSilentStaleness ==
    running =>
        /\ \A f \in DOMAIN NoteOf :
              Stale(f) => \/ NoteOf[f] \in noted
                          \/ f = "TagNx" /\ DebugSectionMoved
        /\ target \notin BootTargets(global) =>
              {"Resolution targets", "Resolution hack"} \cap noted # {}
        /\ xvars.themed /\ ~On(global, "events.active") => "Events" \in noted
        /\ xvars.season # Stock /\ ~On(global, "seasons.active") => "Seasons" \in noted

\* Only the start of a seasonal game arms the gate; an apply in the middle of
\* one can only disarm it (patches.cpp: OFF until the next GameCommonData::
\* Initialize).
ArmedOnlyBySpawn == [][~gate /\ gate' => game' = "seasonal" /\ UNCHANGED <<global, running>>]_vars

\* Applying what is already in force, a second click on Apply, does nothing to
\* the game, whatever has been applied before, and asks for no restart; the
\* seasonal gate alone may be disarmed until the next game.
ReapplyIsIdle ==
    [][ApplyPatchConfigRuntime(global) =>
          ~result' /\ (gate' => gate) /\ UNCHANGED <<image, xvars, target, noted>>]_vars
=============================================================================
