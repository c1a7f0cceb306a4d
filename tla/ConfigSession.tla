--------------------------- MODULE ConfigSession ---------------------------
(***************************************************************************)
(* The configuration as the user works on it: the file on the SD card, the *)
(* working copy that the config window edits (Overlay::ui_config_), and    *)
(* the window's Reload, Revert, Apply and Save buttons                     *)
(* (gui2/ui/windows/config_window.cpp), on top of RuntimeApply.            *)
(*                                                                         *)
(* AtomicFile has the steps of a save; here a save that completes replaces *)
(* the file, one that reports failure leaves it, and a power cut in the    *)
(* middle may also leave no file.                                          *)
(***************************************************************************)
EXTENDS RuntimeApply

CONSTANT OwnFlags       \* event flags that the user ticks or writes in the file

ASSUME SessionAssumption ==
    /\ OwnFlags \subseteq EventFlags
    /\ Defaults \in Configs
    /\ \A c \in Configs : NormalizePatchConfig(c) \in Configs
    /\ \A c, g \in Configs :
          [c EXCEPT !.on = (@ \ HeldBack) \cup (g.on \cap HeldBack)] \in Configs

VARIABLES
    disk,                   \* what config.toml says
    readable,               \* the file exists and parses
    ready,                  \* ui_config_initialized_
    cfg,                    \* ui_config_, the working copy
    dirty,                  \* ui_dirty_
    restart_required,       \* the window's restart_required_ banner
    lang_restart_pending    \* the window's language banner

window == <<ready, cfg, dirty, restart_required, lang_restart_pending>>
card == <<disk, readable>>
sessionVars == <<vars, card, window>>

SessionTypeOK ==
    /\ TypeOK
    /\ disk \in Configs /\ cfg \in Configs
    /\ {readable, ready, dirty, restart_required, lang_restart_pending} \subseteq BOOLEAN

SessionInit ==
    /\ Init /\ global = Defaults
    /\ disk \in {c \in Configs : c.events \subseteq OwnFlags}
    /\ readable \in BOOLEAN
    /\ cfg = Defaults
    /\ ready = FALSE /\ dirty = FALSE
    /\ restart_required = FALSE /\ lang_restart_pending = FALSE

\* LoadFromPath parses the file and hands its table to ApplyTable.
LoadFromPath(file) == ApplyTable(file)

LoadPatchConfig == IF readable THEN LoadFromPath(disk) ELSE Defaults

Boot == MainInit(LoadPatchConfig) /\ UNCHANGED <<card, window>>

\* All that the window holds is gone with the process.
Reset ==
    /\ ready' = FALSE /\ dirty' = FALSE
    /\ restart_required' = FALSE /\ lang_restart_pending' = FALSE
    /\ UNCHANGED cfg

Shutdown == PowerOff /\ Reset /\ UNCHANGED card

GameStart == /\ \E kind \in Games : GameCommonDataInit(kind)
             /\ UNCHANGED <<card, window>>

\* The first frame after LoadPatchConfig copies global_config.
EnsureConfigLoaded ==
    /\ running /\ ~ready
    /\ ready' = TRUE /\ cfg' = global /\ dirty' = FALSE
    /\ UNCHANGED <<vars, card, restart_required, lang_restart_pending>>

\* The window's widgets exist only while the GUI is on in the working copy
\* (imgui_render_enabled) and in global_config.
Rendered == running /\ ready /\ On(cfg, "gui.enabled") /\ On(global, "gui.enabled")

(***************************************************************************)
(* Editing.  A widget is greyed out while its section is off.              *)
(***************************************************************************)
SectionOf(s) ==
    CASE s \in CheatSettings -> "rare_cheats.active"
      [] s \in DebugSettings -> "debug.active"
      [] s \in {"allow_online", "spoof_ptr"} -> "seasons.active"
      [] s \in {"output_handheld_scale", "spoof_docked", "exp_scheduler"} ->
            "resolution_hack.active"
      [] s = "buildlocker_watermark" -> "overlays.active"
      [] OTHER -> s

Editable(s) == SectionOf(s) = s \/ On(cfg, SectionOf(s))

LanguageDiffers(c, g) == Changed(c, g, "gui.language_override")

\* Mutant: the widget's result is not passed to mark_dirty.
EditQuietly(c) ==
    /\ Rendered
    /\ cfg' = c /\ cfg' \in Configs
    /\ lang_restart_pending' = IF LanguageDiffers(c, cfg) THEN LanguageDiffers(c, global)
                               ELSE lang_restart_pending
    /\ UNCHANGED <<vars, card, ready, dirty, restart_required>>

\* What every widget does with its new value.
Edit(c) ==
    /\ Rendered
    /\ cfg' = c /\ cfg' \in Configs
    /\ dirty' = TRUE
    /\ lang_restart_pending' = IF LanguageDiffers(c, cfg) THEN LanguageDiffers(c, global)
                               ELSE lang_restart_pending
    /\ UNCHANGED <<vars, card, ready, restart_required>>

EditSwitch(s) ==
    /\ Editable(s)
    /\ Edit([cfg EXCEPT !.on = IF s \in @ THEN @ \ {s} ELSE @ \cup {s}])

EditSeason(n) ==
    /\ On(cfg, "seasons.active") /\ n # cfg.season
    /\ Edit([cfg EXCEPT !.season = n])

\* SnapOutputTarget may put the slider back on the value it had.
EditTarget(t) == On(cfg, "resolution_hack.active") /\ Edit([cfg EXCEPT !.target = t])

EditMode(m) == Edit([cfg EXCEPT !.mode = m])

\* A checkbox, or one of the bulk buttons on the rows the filter shows: tick
\* them, untick them, or put back what global_config has.
EditEvents(rows) ==
    /\ On(cfg, "events.active")
    /\ \E e \in {cfg.events \cup rows, cfg.events \ rows,
                 (cfg.events \ rows) \cup (global.events \cap rows)} :
          e # cfg.events /\ Edit([cfg EXCEPT !.events = e])

(***************************************************************************)
(* The buttons                                                             *)
(***************************************************************************)

build_runtime_apply(requested) ==
    [requested EXCEPT !.on = (@ \ HeldBack) \cup (global.on \cap HeldBack)]

\* Mutant: gui.visible does not count as pending.
gui_pending_enabled_only(requested) == Changed(requested, global, "gui.enabled")

gui_pending(requested) == \E s \in GuiSettings : Changed(requested, global, s)

\* Mutant: the language banner is left as the last edit set it.
TakeInWithoutLanguage(c) ==
    /\ ApplyPatchConfigRuntime(build_runtime_apply(c))
    /\ restart_required' = (result' \/ gui_pending(c))
    /\ cfg' = c
    /\ dirty' = FALSE
    /\ UNCHANGED <<ready, card, lang_restart_pending>>

\* What Reload and Apply do with the configuration they have normalised.
TakeIn(c) ==
    /\ ApplyPatchConfigRuntime(build_runtime_apply(c))
    /\ restart_required' = (result' \/ gui_pending(c))
    /\ cfg' = c
    /\ lang_restart_pending' = LanguageDiffers(c, global)
    /\ dirty' = FALSE
    /\ UNCHANGED <<ready, card>>

\* A missing or unreadable file only raises a notification.
Reload ==
    /\ Rendered /\ readable
    /\ TakeIn(NormalizePatchConfig(LoadFromPath(disk)))

Revert ==
    /\ Rendered
    /\ cfg' = global
    /\ dirty' = FALSE /\ restart_required' = FALSE /\ lang_restart_pending' = FALSE
    /\ UNCHANGED <<vars, card, ready>>

Apply == Rendered /\ TakeIn(NormalizePatchConfig(cfg))

\* Mutant: the configuration in force is saved instead of the one shown.
SavePatchConfigToPathGlobal == disk' = NormalizePatchConfig(global) /\ readable' = TRUE

SavePatchConfigToPath == disk' = NormalizePatchConfig(cfg) /\ readable' = TRUE

\* The working copy stays as it is and stays marked; a failed save is a
\* notification.
Save ==
    /\ Rendered
    /\ SavePatchConfigToPath
    /\ lang_restart_pending' = LanguageDiffers(cfg, global)
    /\ UNCHANGED <<vars, ready, cfg, dirty, restart_required>>

\* Power lost inside WriteAllAtomic, between the two renames.
PowerCutInSave == Rendered /\ PowerOff /\ Reset /\ readable' = FALSE /\ UNCHANGED disk

SessionNext ==
    \/ Boot \/ Shutdown \/ GameStart \/ EnsureConfigLoaded
    \/ \E s \in Settings : EditSwitch(s)
    \/ \E n \in Seasons : EditSeason(n)
    \/ \E t \in Targets : EditTarget(t)
    \/ \E m \in SeasonEventMapMode : EditMode(m)
    \/ \E rows \in SUBSET OwnFlags : EditEvents(rows)
    \/ Reload \/ Revert \/ Apply \/ Save \/ PowerCutInSave

SessionSpec == SessionInit /\ [][SessionNext]_sessionVars

(***************************************************************************)
(* Properties                                                              *)
(***************************************************************************)

WithoutHeldBack(c) == [c EXCEPT !.on = @ \ HeldBack]

\* Without the "UNSAVED changes" mark, what the window shows is what the game
\* runs with, up to the [gui] settings that wait for a restart.
CleanMeansInForce ==
    running /\ ready /\ ~dirty => WithoutHeldBack(cfg) = WithoutHeldBack(global)

\* A [gui] switch that was applied but waits for a restart is announced by the
\* banner until it is edited, reverted or applied again.
PendingGuiIsAnnounced ==
    running /\ ready /\ ~dirty /\ cfg.on \cap GuiSettings # global.on \cap GuiSettings
        => restart_required

\* The language banner is lit exactly while the language shown is not the one
\* the game was started with, across edits and all four buttons.
LanguageBannerIsExact ==
    running /\ ready => (lang_restart_pending <=> LanguageDiffers(cfg, global))

\* In MapOnly mode the game's event flags are the season's theme and nothing
\* else, whatever the user ticked, saved, reloaded or applied.
MapOnlyIsTheTheme ==
    running /\ On(global, "events.active") /\ global.mode = "MapOnly" /\ MapApplies(global)
        => xvars.events = BuildSeasonEventMap(global.season)

\* The [gui] settings are those of the boot until the next boot (README:
\* "boot-latched").
GuiSettingsAreBootLatched ==
    [][running /\ running' => HeldBack \cap global.on = HeldBack \cap global'.on]_sessionVars

\* What a save leaves in the file is what an apply of the same working copy
\* would have put in force; and a window without the "UNSAVED changes" mark
\* has been normalised, so that the next boot gives exactly what it shows.
SavedIsWhatBoots ==
    [][disk' # disk /\ running' =>
          /\ LoadFromPath(disk') = NormalizePatchConfig(cfg)
          /\ ~dirty => LoadFromPath(disk') = cfg]_sessionVars

\* A click on Apply in a window without the mark, a second click for one, does
\* nothing to the game and reports nothing of it, after any sequence of edits,
\* applies, reloads and reverts: only a [gui] switch that still waits for its
\* restart lights the banner.
CleanApplyIsIdle ==
    [][Apply /\ ~dirty =>
          /\ UNCHANGED <<global, image, xvars, target, noted>>
          /\ restart_required' <=> gui_pending(cfg)]_sessionVars

\* README: "OverlayConfig: apply the map, then OR with flags in your config".
\* Every flag is the season's or one of the user's (or of the defaults).
OverlayIsMapPlusOwnFlags ==
    running /\ On(global, "events.active") /\ global.mode = "OverlayConfig" /\ MapApplies(global)
        => xvars.events \subseteq
              BuildSeasonEventMap(global.season) \cup OwnFlags \cup Defaults.events
=============================================================================
