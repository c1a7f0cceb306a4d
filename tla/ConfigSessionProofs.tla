------------------------ MODULE ConfigSessionProofs ------------------------
(***************************************************************************)
(* ConfigSession for every set of configurations.  A session only drives   *)
(* RuntimeApply through its own steps, so that module's theorems hold of   *)
(* it; the window's marks and banners are added to its invariant.          *)
(***************************************************************************)
EXTENDS ConfigSession, RuntimeApplyProofs

\* global_config is always in normal form while the game runs.
GlobalIsNormal == running => NormalizePatchConfig(global) = global

\* So is the working copy while nothing is marked as unsaved.
CleanIsNormal == running /\ ready /\ ~dirty => NormalizePatchConfig(cfg) = cfg

SessionInv ==
    /\ IndInv
    /\ SessionTypeOK
    /\ ready => running
    /\ ~ready => ~lang_restart_pending
    /\ GlobalIsNormal
    /\ CleanIsNormal
    /\ CleanMeansInForce
    /\ PendingGuiIsAnnounced
    /\ LanguageBannerIsExact

(***************************************************************************)
(* Normalisation                                                           *)
(***************************************************************************)
\* ApplySeasonEventMapIfNeeded touches the event flags only.
LEMMA NormalizeFields ==
    ASSUME NEW c \in Configs
    PROVE  LET n == NormalizePatchConfig(c) IN
           /\ n \in Configs
           /\ n.on = c.on /\ n.season = c.season /\ n.mode = c.mode /\ n.target = c.target
           /\ n.events = IF ~MapApplies(c) THEN c.events
                         ELSE IF c.mode = "OverlayConfig"
                              THEN BuildSeasonEventMap(c.season) \cup c.events
                              ELSE BuildSeasonEventMap(c.season)
  BY ConfigsAssumption, SessionAssumption
     DEF NormalizePatchConfig, ApplyTable, ApplySeasonEventMapIfNeeded, PatchConfigs

\* Two configurations with equal fields are equal.
LEMMA SameFields ==
    ASSUME NEW a \in Configs, NEW b \in Configs,
           a.on = b.on, a.season = b.season, a.mode = b.mode, a.target = b.target,
           a.events = b.events
    PROVE  a = b
  BY ConfigsAssumption DEF PatchConfigs

\* Normalising twice is normalising once: what is saved, loaded and
\* normalised again is what was normalised first.
LEMMA NormalizeIdempotent ==
    ASSUME NEW c \in Configs
    PROVE  NormalizePatchConfig(NormalizePatchConfig(c)) = NormalizePatchConfig(c)
<1> DEFINE n == NormalizePatchConfig(c)
           m == NormalizePatchConfig(n)
<1>1. /\ n \in Configs
      /\ n.on = c.on /\ n.season = c.season /\ n.mode = c.mode /\ n.target = c.target
      /\ n.events = IF ~MapApplies(c) THEN c.events
                    ELSE IF c.mode = "OverlayConfig"
                         THEN BuildSeasonEventMap(c.season) \cup c.events
                         ELSE BuildSeasonEventMap(c.season)
  BY NormalizeFields
<1>2. MapApplies(n) <=> MapApplies(c)
  BY <1>1 DEF MapApplies
<1> HIDE DEF n
<1>3. /\ m \in Configs
      /\ m.on = n.on /\ m.season = n.season /\ m.mode = n.mode /\ m.target = n.target
      /\ m.events = IF ~MapApplies(n) THEN n.events
                    ELSE IF n.mode = "OverlayConfig"
                         THEN BuildSeasonEventMap(n.season) \cup n.events
                         ELSE BuildSeasonEventMap(n.season)
  BY <1>1, NormalizeFields
<1> HIDE DEF m
<1>4. m.events = n.events
  BY <1>1, <1>2, <1>3
<1>5. m = n
  BY <1>1, <1>3, <1>4, SameFields
<1> QED
  BY <1>5 DEF m, n

\* What is handed to the running game: the request, but for the held-back
\* settings, and still in normal form.
LEMMA RuntimeFields ==
    ASSUME NEW c \in Configs, global \in Configs
    PROVE  LET r == build_runtime_apply(c) IN
           /\ r \in Configs
           /\ r.on = (c.on \ HeldBack) \cup (global.on \cap HeldBack)
           /\ r.season = c.season /\ r.mode = c.mode /\ r.target = c.target
           /\ r.events = c.events
  BY SessionAssumption, ConfigsAssumption DEF build_runtime_apply, PatchConfigs

\* What build_runtime_apply hands on stays normalised: the held-back [gui]
\* fields do not take part in the season map.
LEMMA RuntimeIsNormal ==
    ASSUME NEW c \in Configs, global \in Configs, NormalizePatchConfig(c) = c
    PROVE  NormalizePatchConfig(build_runtime_apply(c)) = build_runtime_apply(c)
<1> DEFINE r == build_runtime_apply(c)
           n == NormalizePatchConfig(r)
<1>1. /\ r \in Configs
      /\ r.on = (c.on \ HeldBack) \cup (global.on \cap HeldBack)
      /\ r.season = c.season /\ r.mode = c.mode /\ r.target = c.target
      /\ r.events = c.events
  BY RuntimeFields
<1> HIDE DEF r
<1>2. "seasons.active" \notin HeldBack
  BY DEF HeldBack, GuiSettings
<1>3. MapApplies(r) <=> MapApplies(c)
  BY <1>1, <1>2 DEF MapApplies
<1>4. c.events = IF ~MapApplies(c) THEN c.events
                 ELSE IF c.mode = "OverlayConfig"
                      THEN BuildSeasonEventMap(c.season) \cup c.events
                      ELSE BuildSeasonEventMap(c.season)
  BY NormalizeFields
<1>5. /\ n \in Configs
      /\ n.on = r.on /\ n.season = r.season /\ n.mode = r.mode /\ n.target = r.target
      /\ n.events = IF ~MapApplies(r) THEN r.events
                    ELSE IF r.mode = "OverlayConfig"
                         THEN BuildSeasonEventMap(r.season) \cup r.events
                         ELSE BuildSeasonEventMap(r.season)
  BY <1>1, NormalizeFields
<1> HIDE DEF n
<1>6. n.events = r.events
  BY <1>1, <1>3, <1>4, <1>5
<1>7. n = r
  BY <1>1, <1>5, <1>6, SameFields
<1> QED
  BY <1>7 DEF n, r

(***************************************************************************)
(* The invariant                                                           *)
(***************************************************************************)
LEMMA DefaultsNormal == NormalizePatchConfig(Defaults) = Defaults
  BY DEF NormalizePatchConfig, ApplyTable, ApplySeasonEventMapIfNeeded, MapApplies, Defaults

\* LoadPatchConfig ends with a normalised configuration, file or no file.
LEMMA LoadedIsNormal ==
    ASSUME SessionTypeOK
    PROVE  LoadPatchConfig \in Configs /\ NormalizePatchConfig(LoadPatchConfig) = LoadPatchConfig
<1>1. CASE readable
  BY <1>1, NormalizeFields, NormalizeIdempotent
     DEF SessionTypeOK, LoadPatchConfig, LoadFromPath, NormalizePatchConfig, ApplyTable
<1>2. CASE ~readable
  BY <1>2, SessionAssumption, DefaultsNormal DEF LoadPatchConfig
<1> QED
  BY <1>1, <1>2

\* The invariant holds at power-on.
LEMMA SessionInitInv == SessionInit => SessionInv
<1> SUFFICES ASSUME SessionInit PROVE SessionInv
  OBVIOUS
<1>1. IndInv /\ TypeOK
  BY InitInv DEF SessionInit, IndInv
<1>2. SessionTypeOK
  BY <1>1, SessionAssumption DEF SessionInit, SessionTypeOK
<1> QED
  BY <1>1, <1>2 DEF SessionInit, Init, SessionInv, GlobalIsNormal, CleanIsNormal, CleanMeansInForce,
                    PendingGuiIsAnnounced, LanguageBannerIsExact

\* Every step of a session is a step of RuntimeApply or leaves it alone.
LEMMA SessionStep ==
    ASSUME SessionInv, [SessionNext]_sessionVars
    PROVE  [Next]_vars
<1>0. SessionTypeOK /\ TypeOK
  BY DEF SessionInv, SessionTypeOK
<1>1. CASE Boot
  BY <1>0, <1>1, LoadedIsNormal DEF Boot, Next
<1>2. CASE Shutdown \/ PowerCutInSave
  BY <1>2 DEF Shutdown, PowerCutInSave, Next
<1>3. CASE GameStart
  BY <1>3 DEF GameStart, Next
<1>4. ASSUME NEW c \in Configs, TakeIn(c) PROVE Next
  BY <1>0, <1>4, RuntimeFields DEF TakeIn, Next, TypeOK
<1>5. CASE Reload
  <2>1. LoadFromPath(disk) \in Configs
    BY <1>0, NormalizeFields DEF LoadFromPath, NormalizePatchConfig, ApplyTable, SessionTypeOK
  <2> QED
    BY <1>4, <1>5, <2>1, NormalizeFields DEF Reload
<1>6. CASE Apply
  BY <1>0, <1>4, <1>6, NormalizeFields DEF Apply, SessionTypeOK
<1>7. CASE EnsureConfigLoaded \/ Revert \/ Save
  BY <1>7 DEF EnsureConfigLoaded, Revert, Save
<1>8. ASSUME NEW c, Edit(c) PROVE UNCHANGED vars
  BY <1>8 DEF Edit
<1>9. CASE \/ \E s \in Settings : EditSwitch(s)
           \/ \E n \in Seasons : EditSeason(n)
           \/ \E t \in Targets : EditTarget(t)
           \/ \E m \in SeasonEventMapMode : EditMode(m)
           \/ \E rows \in SUBSET OwnFlags : EditEvents(rows)
  BY <1>8, <1>9 DEF EditSwitch, EditSeason, EditTarget, EditMode, EditEvents
<1>10. CASE UNCHANGED sessionVars
  BY <1>10 DEF sessionVars
<1> QED
  BY <1>1, <1>2, <1>3, <1>5, <1>6, <1>7, <1>9, <1>10 DEF SessionNext

\* Changed is a Boolean, which the provers need to be told.
LEMMA LanguageBoolean == \A a, b, s : Changed(a, b, s) \in BOOLEAN
  BY DEF Changed

\* A widget (Edit, with mark_dirty) keeps the invariant.
LEMMA EditInv ==
    ASSUME SessionInv, NEW c, Edit(c), IndInv'
    PROVE  SessionInv'
<1>1. /\ UNCHANGED <<running, global, disk, readable, ready, restart_required>>
      /\ cfg' = c /\ c \in Configs /\ dirty' = TRUE /\ running /\ ready
      /\ lang_restart_pending' = IF LanguageDiffers(c, cfg) THEN LanguageDiffers(c, global)
                                 ELSE lang_restart_pending
  BY DEF Edit, vars, card, Rendered
<1>2. lang_restart_pending' \in BOOLEAN
  BY <1>1, LanguageBoolean DEF LanguageDiffers, SessionInv, SessionTypeOK
<1>3. SessionTypeOK'
  BY <1>1, <1>2 DEF SessionInv, SessionTypeOK, IndInv
<1>4. LanguageBannerIsExact'
  BY <1>1, OnBoolean DEF SessionInv, LanguageBannerIsExact, LanguageDiffers, Changed
<1> QED
  BY <1>1, <1>3, <1>4
     DEF SessionInv, GlobalIsNormal, CleanIsNormal, CleanMeansInForce, PendingGuiIsAnnounced

\* The common part of Reload and Apply keeps the invariant.
LEMMA TakeInInv ==
    ASSUME SessionInv, Rendered, NEW c \in Configs, NormalizePatchConfig(c) = c, TakeIn(c), IndInv'
    PROVE  SessionInv'
<1> DEFINE r == build_runtime_apply(c)
<1>1. /\ UNCHANGED <<running, ready, disk, readable>>
      /\ global' = r /\ cfg' = c /\ dirty' = FALSE /\ running /\ ready
      /\ restart_required' = (result' \/ gui_pending(c))
      /\ lang_restart_pending' = LanguageDiffers(c, global)
  BY DEF TakeIn, ApplyPatchConfigRuntime, card, Rendered
<1>2. /\ global \in Configs /\ result' \in BOOLEAN
      /\ SessionTypeOK
  BY DEF SessionInv, SessionTypeOK, TypeOK, IndInv
<1>3. /\ r \in Configs
      /\ r.on = (c.on \ HeldBack) \cup (global.on \cap HeldBack)
      /\ r.season = c.season /\ r.mode = c.mode /\ r.target = c.target
      /\ r.events = c.events
  BY <1>2, RuntimeFields
<1>4. GlobalIsNormal'
  BY <1>1, <1>2, RuntimeIsNormal DEF GlobalIsNormal
<1> HIDE DEF r
<1>5. SessionTypeOK'
  BY <1>1, <1>2, LanguageBoolean DEF SessionTypeOK, LanguageDiffers, gui_pending, IndInv
<1>6. CleanMeansInForce'
  <2>1. /\ WithoutHeldBack(c) = [c EXCEPT !.on = c.on \ HeldBack]
        /\ WithoutHeldBack(r) = [r EXCEPT !.on = r.on \ HeldBack]
        /\ r.on \ HeldBack = c.on \ HeldBack
    BY <1>3 DEF WithoutHeldBack
  <2>2. WithoutHeldBack(c) = WithoutHeldBack(r)
    BY <1>3, <2>1, ConfigsAssumption DEF PatchConfigs
  <2> QED
    BY <1>1, <2>2 DEF CleanMeansInForce, WithoutHeldBack
<1>7. PendingGuiIsAnnounced'
  <2>1. SUFFICES ASSUME c.on \cap GuiSettings # r.on \cap GuiSettings PROVE gui_pending(c)
    BY <1>1 DEF PendingGuiIsAnnounced
  <2>2. PICK s \in GuiSettings : ~(s \in c.on <=> s \in r.on)
    BY <2>1
  <2>3. ~(s \in c.on <=> s \in global.on)
    BY <1>3, <2>2 DEF HeldBack
  <2> QED
    BY <2>3, OnBoolean DEF gui_pending, Changed, On
<1>8. LanguageBannerIsExact'
  <2>1. "gui.language_override" \in HeldBack
    BY DEF HeldBack
  <2>2. On(r, "gui.language_override") <=> On(global, "gui.language_override")
    BY <1>3, <2>1 DEF On
  <2> QED
    BY <1>1, <2>2, OnBoolean DEF LanguageBannerIsExact, LanguageDiffers, Changed
<1>9. CleanIsNormal'
  BY <1>1 DEF CleanIsNormal
<1> QED
  BY <1>1, <1>4, <1>5, <1>6, <1>7, <1>8, <1>9 DEF SessionInv

\* Every action of the session keeps the invariant.
LEMMA SessionNextInv == SessionInv /\ [SessionNext]_sessionVars => SessionInv'
<1> SUFFICES ASSUME SessionInv, [SessionNext]_sessionVars PROVE SessionInv'
  OBVIOUS
<1>1. IndInv'
  BY SessionStep, NextInv DEF SessionInv
<1>2. /\ SessionTypeOK /\ (ready => running) /\ TypeOK'
      /\ disk \in Configs /\ cfg \in Configs /\ global \in Configs
  BY <1>1 DEF SessionInv, SessionTypeOK, TypeOK, IndInv
<1>3. CASE Boot
  <2>1. UNCHANGED <<card, window>> /\ global' = LoadPatchConfig /\ ~running /\ ~ready
    BY <1>2, <1>3 DEF Boot, MainInit
  <2> QED
    BY <1>1, <1>2, <2>1, LoadedIsNormal
       DEF SessionInv, SessionTypeOK, GlobalIsNormal, CleanIsNormal, CleanMeansInForce,
           PendingGuiIsAnnounced, LanguageBannerIsExact, card, window
<1>4. CASE Shutdown \/ PowerCutInSave
  <2>1. /\ ~running' /\ ~ready' /\ ready' \in BOOLEAN /\ dirty' \in BOOLEAN /\ readable' \in BOOLEAN
        /\ restart_required' \in BOOLEAN /\ lang_restart_pending' \in BOOLEAN
        /\ ~lang_restart_pending' /\ cfg' = cfg /\ disk' = disk
    BY <1>2, <1>4 DEF Shutdown, PowerCutInSave, PowerOff, Reset, card, SessionTypeOK
  <2> QED
    BY <1>1, <1>2, <2>1
       DEF SessionInv, SessionTypeOK, GlobalIsNormal, CleanIsNormal, CleanMeansInForce,
           PendingGuiIsAnnounced, LanguageBannerIsExact
<1>5. CASE GameStart
  BY <1>1, <1>2, <1>5
     DEF GameStart, GameCommonDataInit, SessionInv, SessionTypeOK, GlobalIsNormal, CleanIsNormal,
         CleanMeansInForce, PendingGuiIsAnnounced, LanguageBannerIsExact, card, window
<1>6. CASE EnsureConfigLoaded
  BY <1>1, <1>2, <1>6
     DEF EnsureConfigLoaded, vars, card, SessionInv, SessionTypeOK, GlobalIsNormal, CleanIsNormal,
         CleanMeansInForce, PendingGuiIsAnnounced, LanguageBannerIsExact,
         LanguageDiffers, Changed
<1>7. CASE \/ \E s \in Settings : EditSwitch(s)
           \/ \E n \in Seasons : EditSeason(n)
           \/ \E t \in Targets : EditTarget(t)
           \/ \E m \in SeasonEventMapMode : EditMode(m)
           \/ \E rows \in SUBSET OwnFlags : EditEvents(rows)
  <2>1. PICK c : Edit(c)
    BY <1>7 DEF EditSwitch, EditSeason, EditTarget, EditMode, EditEvents
  <2> QED
    BY <1>1, <2>1, EditInv
<1>8. CASE Reload
  <2>1. LoadFromPath(disk) \in Configs
    BY <1>2, NormalizeFields DEF LoadFromPath, NormalizePatchConfig, ApplyTable
  <2> QED
    BY <1>1, <1>8, <2>1, NormalizeFields, NormalizeIdempotent, TakeInInv DEF Reload
<1>9. CASE Apply
  BY <1>1, <1>2, <1>9, NormalizeFields, NormalizeIdempotent, TakeInInv DEF Apply
<1>10. CASE Revert
  BY <1>1, <1>2, <1>10
     DEF Revert, Rendered, vars, card, SessionInv, SessionTypeOK, GlobalIsNormal, CleanIsNormal,
         CleanMeansInForce, PendingGuiIsAnnounced, LanguageBannerIsExact,
         LanguageDiffers, Changed
<1>11. CASE Save
  <2>1. lang_restart_pending' \in BOOLEAN
    BY <1>11, LanguageBoolean DEF Save, LanguageDiffers
  <2> QED
    BY <1>1, <1>2, <1>11, <2>1, NormalizeFields
       DEF Save, SavePatchConfigToPath, Rendered, vars, SessionInv, SessionTypeOK,
           GlobalIsNormal, CleanIsNormal, CleanMeansInForce, PendingGuiIsAnnounced, LanguageBannerIsExact
<1>12. CASE UNCHANGED sessionVars
  BY <1>1, <1>2, <1>12
     DEF sessionVars, vars, card, window, SessionInv, SessionTypeOK, GlobalIsNormal, CleanIsNormal,
         CleanMeansInForce, PendingGuiIsAnnounced, LanguageBannerIsExact
<1> QED
  BY <1>3, <1>4, <1>5, <1>6, <1>7, <1>8, <1>9, <1>10, <1>11, <1>12 DEF SessionNext

\* The invariant of the config window, its file and the running game: every
\* configuration in force is normalised, and the banners are in step with it.
THEOREM SessionInvariance == SessionSpec => []SessionInv
  BY SessionInitInv, SessionNextInv, PTL DEF SessionSpec

\* Type correctness of the window, the file and the running game.
THEOREM SessionTypeCorrect == SessionSpec => []SessionTypeOK
<1>1. SessionInv => SessionTypeOK
  BY DEF SessionInv
<1> QED
  BY <1>1, SessionInvariance, PTL

\* A session drives the game only through ApplyPatchConfigRuntime and the
\* boot: it implements RuntimeApply, and inherits its theorems.
THEOREM SessionImplementsRuntimeApply == SessionSpec => Spec
<1>1. SessionInit => Init
  BY DEF SessionInit
<1>2. SessionInv /\ [SessionNext]_sessionVars => [Next]_vars
  BY SessionStep
<1> QED
  BY <1>1, <1>2, SessionInvariance, PTL DEF SessionSpec, Spec

\* No clean window shows something else than what the game runs with.
THEOREM CleanWindow == SessionSpec => []CleanMeansInForce
<1>1. SessionInv => CleanMeansInForce
  BY DEF SessionInv
<1> QED
  BY <1>1, SessionInvariance, PTL

\* gui_pending reaches the banner in every order of edits and buttons.
THEOREM GuiBanner == SessionSpec => []PendingGuiIsAnnounced
<1>1. SessionInv => PendingGuiIsAnnounced
  BY DEF SessionInv
<1> QED
  BY <1>1, SessionInvariance, PTL

\* lang_restart_pending_ is right after every edit and every button.
THEOREM LanguageBanner == SessionSpec => []LanguageBannerIsExact
<1>1. SessionInv => LanguageBannerIsExact
  BY DEF SessionInv
<1> QED
  BY <1>1, SessionInvariance, PTL

\* NormalizePatchConfig on every path to the game makes MapOnly exact.
THEOREM MapOnlyExact == SessionSpec => []MapOnlyIsTheTheme
<1>1. SessionInv => MapOnlyIsTheTheme
  <2> SUFFICES ASSUME SessionInv, running, On(global, "events.active"),
                      global.mode = "MapOnly", MapApplies(global)
               PROVE  xvars.events = BuildSeasonEventMap(global.season)
    BY DEF MapOnlyIsTheTheme
  <2>1. global \in Configs /\ NormalizePatchConfig(global) = global
    BY DEF SessionInv, SessionTypeOK, TypeOK, GlobalIsNormal
  <2>2. global.events = BuildSeasonEventMap(global.season)
    BY <2>1, NormalizeFields
  <2>3. xvars.events = global.events
    BY DEF SessionInv, IndInv, XVarsFollowConfig
  <2> QED
    BY <2>2, <2>3
<1> QED
  BY <1>1, SessionInvariance, PTL

\* build_runtime_apply keeps the [gui] settings of the boot.
THEOREM GuiLatched == SessionSpec => GuiSettingsAreBootLatched
<1>1. SessionInv /\ [SessionNext]_sessionVars =>
         [running /\ running' => HeldBack \cap global.on = HeldBack \cap global'.on]_sessionVars
  <2> SUFFICES ASSUME SessionInv, SessionNext, running, running'
               PROVE  HeldBack \cap global.on = HeldBack \cap global'.on
    BY DEF sessionVars, vars
  <2>1. global \in Configs /\ disk \in Configs /\ cfg \in Configs
    BY DEF SessionInv, SessionTypeOK, TypeOK
  <2>2. ASSUME NEW c \in Configs, TakeIn(c) PROVE HeldBack \cap global.on = HeldBack \cap global'.on
    BY <2>1, <2>2, RuntimeFields DEF TakeIn, ApplyPatchConfigRuntime
  <2>3. CASE Reload
    <3>1. LoadFromPath(disk) \in Configs
      BY <2>1, NormalizeFields DEF LoadFromPath, NormalizePatchConfig, ApplyTable
    <3> QED
      BY <2>2, <2>3, <3>1, NormalizeFields DEF Reload
  <2>4. CASE Apply
    BY <2>1, <2>2, <2>4, NormalizeFields DEF Apply
  <2>5. CASE Boot \/ Shutdown \/ PowerCutInSave
    BY <2>5 DEF Boot, MainInit, Shutdown, PowerCutInSave, PowerOff
  <2>6. CASE GameStart \/ EnsureConfigLoaded \/ Revert \/ Save
    BY <2>6 DEF GameStart, GameCommonDataInit, EnsureConfigLoaded, Revert, Save, vars
  <2>7. ASSUME NEW c, Edit(c) PROVE global' = global
    BY <2>7 DEF Edit, vars
  <2> QED
    BY <2>3, <2>4, <2>5, <2>6, <2>7
       DEF SessionNext, EditSwitch, EditSeason, EditTarget, EditMode, EditEvents
<1> QED
  BY <1>1, SessionInvariance, PTL DEF SessionSpec, GuiSettingsAreBootLatched

\* SavePatchConfigToPath followed by LoadPatchConfig is NormalizePatchConfig,
\* and changes nothing of a window without the mark.
THEOREM SaveRoundTrip == SessionSpec => SavedIsWhatBoots
<1>1. SessionInv /\ [SessionNext]_sessionVars =>
         [disk' # disk /\ running' =>
             /\ LoadFromPath(disk') = NormalizePatchConfig(cfg)
             /\ ~dirty => LoadFromPath(disk') = cfg]_sessionVars
  <2> SUFFICES ASSUME SessionInv, SessionNext, disk' # disk
               PROVE  /\ LoadFromPath(disk') = NormalizePatchConfig(cfg)
                      /\ ~dirty => LoadFromPath(disk') = cfg
    BY DEF sessionVars, card
  <2>1. cfg \in Configs
    BY DEF SessionInv, SessionTypeOK
  <2>2. ~(Boot \/ Shutdown \/ GameStart \/ EnsureConfigLoaded \/ Revert \/ PowerCutInSave)
    BY DEF Boot, Shutdown, GameStart, EnsureConfigLoaded, Revert, PowerCutInSave, card
  <2>3. ~Reload /\ ~Apply
    BY DEF Reload, Apply, TakeIn, card
  <2>4. \A c : ~Edit(c)
    BY DEF Edit, card
  <2>5. Save
    BY <2>2, <2>3, <2>4
       DEF SessionNext, EditSwitch, EditSeason, EditTarget, EditMode, EditEvents
  <2>6. disk' = NormalizePatchConfig(cfg)
    BY <2>5 DEF Save, SavePatchConfigToPath
  <2>7. LoadFromPath(disk') = NormalizePatchConfig(cfg)
    BY <2>1, <2>6, NormalizeIdempotent DEF LoadFromPath, NormalizePatchConfig, ApplyTable
  <2>8. ~dirty => NormalizePatchConfig(cfg) = cfg
    BY <2>5 DEF Save, Rendered, SessionInv, CleanIsNormal
  <2> QED
    BY <2>7, <2>8
<1> QED
  BY <1>1, SessionInvariance, PTL DEF SessionSpec, SavedIsWhatBoots

\* What Apply hands on of a window without the mark is what is in force.
LEMMA CleanIsGlobal ==
    ASSUME SessionInv, Apply, ~dirty
    PROVE  /\ NormalizePatchConfig(cfg) = cfg
           /\ build_runtime_apply(cfg) = global
<1> DEFINE r == build_runtime_apply(cfg)
<1>1. /\ running /\ ready /\ cfg \in Configs /\ global \in Configs
      /\ NormalizePatchConfig(cfg) = cfg
      /\ WithoutHeldBack(cfg) = WithoutHeldBack(global)
  BY DEF Apply, Rendered, SessionInv, SessionTypeOK, TypeOK, CleanIsNormal, CleanMeansInForce
<1>2. /\ r \in Configs
      /\ r.on = (cfg.on \ HeldBack) \cup (global.on \cap HeldBack)
      /\ r.season = cfg.season /\ r.mode = cfg.mode /\ r.target = cfg.target
      /\ r.events = cfg.events
  BY <1>1, RuntimeFields
<1>3. /\ cfg.on \ HeldBack = global.on \ HeldBack
      /\ cfg.season = global.season /\ cfg.mode = global.mode
      /\ cfg.target = global.target /\ cfg.events = global.events
  <2>1. ASSUME NEW c \in Configs
        PROVE  LET w == WithoutHeldBack(c) IN
               /\ w.on = c.on \ HeldBack /\ w.season = c.season /\ w.mode = c.mode
               /\ w.target = c.target /\ w.events = c.events
    BY ConfigsAssumption DEF WithoutHeldBack, PatchConfigs
  <2> QED
    BY <1>1, <2>1
<1> HIDE DEF r
<1>4. r.on = global.on
  BY <1>2, <1>3
<1>5. r = global
  BY <1>1, <1>2, <1>3, <1>4, SameFields
<1> QED
  BY <1>1, <1>5 DEF r

\* A second click on Apply does nothing: NormalizePatchConfig and
\* build_runtime_apply give back what is in force, and that is not applied anew.
THEOREM SecondApplyIsIdle == SessionSpec => CleanApplyIsIdle
<1>1. SessionInv /\ [SessionNext]_sessionVars =>
         [Apply /\ ~dirty =>
             /\ UNCHANGED <<global, image, xvars, target, noted>>
             /\ restart_required' <=> gui_pending(cfg)]_sessionVars
  <2> SUFFICES ASSUME SessionInv, Apply, ~dirty
               PROVE  /\ UNCHANGED <<global, image, xvars, target, noted>>
                      /\ restart_required' <=> gui_pending(cfg)
    OBVIOUS
  <2>1. TakeIn(cfg) /\ ApplyPatchConfigRuntime(global)
    BY CleanIsGlobal DEF Apply, TakeIn
  <2>2. ~result' /\ UNCHANGED <<image, xvars, target, noted>>
    BY <2>1, ReapplyStep DEF SessionInv
  <2>3. global' = global
    BY <2>1 DEF ApplyPatchConfigRuntime
  <2>4. restart_required' <=> gui_pending(cfg)
    BY <2>1, <2>2 DEF TakeIn
  <2> QED
    BY <2>2, <2>3, <2>4
<1> QED
  BY <1>1, SessionInvariance, PTL DEF SessionSpec, CleanApplyIsIdle

\* What RuntimeApply promises of every configuration handed to it holds of the
\* window's clicks: after any Reload, Revert, Apply, Save, boot or power cut the
\* undoable patch, the gate and the XVars are as global_config says, what cannot
\* follow has been reported, only a seasonal game arms the gate, and an apply of
\* what is in force leaves the game alone.
THEOREM ClicksKeepTheRuntimeSound ==
    SessionSpec => /\ [](/\ InfiniteMpFollowsConfig
                         /\ GateOnlyInSeasonalGame
                         /\ XVarsFollowConfig
                         /\ NoSilentStaleness)
                   /\ ArmedOnlyBySpawn
                   /\ ReapplyIsIdle
<1>1. /\ Spec => []InfiniteMpFollowsConfig
      /\ Spec => []GateOnlyInSeasonalGame
      /\ Spec => []XVarsFollowConfig
      /\ Spec => []NoSilentStaleness
  BY InfiniteMpInStep, GateInSeasonalGame, XVarsInStep, StalenessIsReported
<1> QED
  BY <1>1, SessionImplementsRuntimeApply, SpawnArms, ReapplyDoesNothing, PTL
=============================================================================
