------------------------- MODULE RuntimeApplyProofs -------------------------
(***************************************************************************)
(* RuntimeApply for every set of configurations: the image, the XVars and  *)
(* the seasonal gate never drift from global_config unreported.            *)
(***************************************************************************)
EXTENDS RuntimeApply, TLAPS

\* Why the exception for TagNx in NoSilentStaleness is no wider: until its note
\* is reported its switch is the one MainInit saw, and the hook is there if the
\* debug section was on as well, which FontDraw remembers.
TagNxTracked ==
    running /\ NoteOf["TagNx"] \notin noted =>
        ("TagNx" \in image <=> "FontDraw" \in image /\ "tagnx" \in global.on)

\* The properties hold each other up only through the types and the origin of
\* TagNx: their conjunction is inductive.
IndInv ==
    /\ TagNxTracked
    /\ TypeOK
    /\ InfiniteMpFollowsConfig
    /\ GateOnlyInSeasonalGame
    /\ XVarsFollowConfig
    /\ NoSilentStaleness

\* Every configuration considered has the fields of PatchConfig.
LEMMA ConfigFields ==
    ASSUME NEW c \in Configs
    PROVE  /\ c.on \subseteq Settings /\ c.season \in Seasons
           /\ c.target \in Targets /\ c.events \subseteq EventFlags
  BY ConfigsAssumption DEF PatchConfigs

\* What MainInit installs is a set of known features.
LEMMA BootImageType ==
    ASSUME NEW c \in Configs
    PROVE  BootImage(c) \subseteq Features
  BY DEF BootImage, SetupUtilityHooks, SetupUtilityDebugHooks, SetupResolutionHooks,
         SetupDebuggingHooks, SetupLobbyHooks, PatchBase, PortCheatCodes,
         When, Features

\* SetupDebuggingHooks does not return early when TagNx is wanted.
LEMMA EnabledForTagNx ==
    ASSUME NEW c, {"debug.active", "tagnx"} \subseteq c.on
    PROVE  EnabledDebuggingHooks(c)
  BY DEF EnabledDebuggingHooks, DebugSettings, On

\* When MainInit installs each feature that a restart note stands for.
LEMMA BootImageTracked ==
    ASSUME NEW c
    PROVE  /\ "ResolutionHooks" \in BootImage(c) <=> "resolution_hack.active" \in c.on
           /\ "VarRes" \in BootImage(c) <=> "resolution_hack.active" \in c.on
           /\ "HandheldScale" \in BootImage(c) <=> "output_handheld_scale" \in c.on
           /\ "SpoofDocked" \in BootImage(c) <=> "spoof_docked" \in c.on
           /\ "CrashPatches" \in BootImage(c) <=> "enable_crashes" \in c.on
           /\ "LobbyHooks" \in BootImage(c) <=> "enable_crashes" \in c.on
           /\ "HideOnline" \in BootImage(c) <=> "allow_online" \notin c.on
           /\ "BuildLocker" \in BootImage(c) <=> BuildLocker(c)
           /\ "ExceptionHandler" \in BootImage(c) <=> "enable_exception_handler" \in c.on
           /\ "OeNotifications" \in BootImage(c) <=> "enable_oe_notification_hook" \in c.on
           /\ "TagNx" \in BootImage(c) <=> {"debug.active", "tagnx"} \subseteq c.on
           /\ "FontDraw" \in BootImage(c) <=> "debug.active" \in c.on
           /\ "InfiniteMp" \in BootImage(c) <=> InfiniteMp(c)
  BY EnabledForTagNx DEF BootImage, SetupUtilityHooks, SetupUtilityDebugHooks, SetupResolutionHooks,
         SetupDebuggingHooks, SetupLobbyHooks, PatchBase, PortCheatCodes,
         When, On

\* On is a Boolean, which the provers need to be told.
LEMMA OnBoolean == \A c, s : On(c, s) \in BOOLEAN
  BY SMT DEF On

\* What each of the three XVar updates keeps and changes.
LEMMA ServiceXVars ==
    ASSUME NEW c \in Configs, NEW x \in XVars
    PROVE  LET y == SetServiceXVars(x, c) IN
           /\ y \in XVars
           /\ (y.ptr <=> On(c, "spoof_ptr")) /\ (y.sched <=> On(c, "exp_scheduler"))
           /\ y.season = x.season /\ y.themed = x.themed /\ y.events = x.events
  BY OnBoolean DEF SetServiceXVars, XVars

\* What PatchDynamicEvents changes and what it leaves alone.
LEMMA EventXVars ==
    ASSUME NEW c \in Configs, NEW x \in XVars
    PROVE  LET y == PatchDynamicEvents(x, c) IN
           /\ y \in XVars
           /\ y.ptr = x.ptr /\ y.sched = x.sched /\ y.season = x.season
           /\ On(c, "events.active") => y.themed /\ y.events = c.events
           /\ ~On(c, "events.active") => y.themed = x.themed
  BY ConfigFields DEF PatchDynamicEvents, XVars

\* What PatchDynamicSeasonal changes and what it leaves alone.
LEMMA SeasonalXVars ==
    ASSUME NEW c \in Configs, NEW x \in XVars
    PROVE  LET y == PatchDynamicSeasonal(x, c) IN
           /\ y \in XVars
           /\ y.ptr = x.ptr /\ y.sched = x.sched
           /\ y.themed = x.themed /\ y.events = x.events
           /\ On(c, "seasons.active") => y.season = c.season
           /\ ~On(c, "seasons.active") => y.season = x.season
  BY ConfigFields DEF PatchDynamicSeasonal, XVars

\* The XVars that PatchBase leaves are in step with the configuration.
LEMMA BootXVarsFollow ==
    ASSUME NEW c \in Configs
    PROVE  LET y == BootXVars(c) IN
           /\ y \in XVars
           /\ (y.ptr <=> On(c, "spoof_ptr")) /\ (y.sched <=> On(c, "exp_scheduler"))
           /\ IF On(c, "events.active") THEN y.themed /\ y.events = c.events ELSE ~y.themed
           /\ y.season = IF On(c, "seasons.active") THEN c.season ELSE Stock
<1> DEFINE e == PatchDynamicEvents(StockXVars, c)
           s == PatchDynamicSeasonal(e, c)
           v == SetServiceXVars(s, c)
<1>1. StockXVars \in XVars /\ StockXVars.season = Stock /\ StockXVars.themed = FALSE
  BY DEF StockXVars, XVars, Stock
<1>2. /\ e \in XVars /\ e.season = Stock
      /\ On(c, "events.active") => e.themed /\ e.events = c.events
      /\ ~On(c, "events.active") => e.themed = FALSE
  BY <1>1, EventXVars
<1> HIDE DEF e
<1>3. /\ s \in XVars /\ s.themed = e.themed /\ s.events = e.events
      /\ On(c, "seasons.active") => s.season = c.season
      /\ ~On(c, "seasons.active") => s.season = Stock
  BY <1>2, SeasonalXVars
<1> HIDE DEF s
<1>4. /\ v \in XVars /\ (v.ptr <=> On(c, "spoof_ptr")) /\ (v.sched <=> On(c, "exp_scheduler"))
      /\ v.themed = s.themed /\ v.events = s.events /\ v.season = s.season
  BY <1>3, ServiceXVars
<1> HIDE DEF v
<1> DEFINE p == On(c, "challenge_rifts.active")
           q == On(c, "seasons.active")
<1>5. p \in BOOLEAN /\ q \in BOOLEAN
         /\ BootXVars(c) = [v EXCEPT !.rift = p, !.override = q]
  BY OnBoolean DEF BootXVars, v, s, e
<1> HIDE DEF p, q
<1>6. /\ BootXVars(c) \in XVars
      /\ BootXVars(c).ptr = v.ptr /\ BootXVars(c).sched = v.sched
      /\ BootXVars(c).themed = v.themed /\ BootXVars(c).events = v.events
      /\ BootXVars(c).season = v.season
  BY <1>4, <1>5 DEF XVars
<1> QED
  BY <1>2, <1>3, <1>4, <1>6

\* The invariant holds at power-on.
LEMMA InitInv == Init => IndInv
<1> SUFFICES ASSUME Init PROVE IndInv
  OBVIOUS
<1>1. TypeOK
  BY DEF Init, TypeOK, StockXVars, XVars, Stock, Games
<1> QED
  BY <1>1 DEF Init, IndInv, InfiniteMpFollowsConfig, GateOnlyInSeasonalGame,
              XVarsFollowConfig, NoSilentStaleness, TagNxTracked

\* A boot leaves nothing stale: the image is the one a reboot would give.
LEMMA BootFresh ==
    ASSUME NEW c \in Configs, MainInit(c)
    PROVE  /\ InfiniteMpFollowsConfig' /\ XVarsFollowConfig' /\ NoSilentStaleness'
           /\ TagNxTracked'
<1>1. InfiniteMpFollowsConfig'
  BY BootImageTracked DEF MainInit, InfiniteMpFollowsConfig
<1>2. XVarsFollowConfig'
  BY BootXVarsFollow DEF MainInit, XVarsFollowConfig
<1>3. \A f \in DOMAIN NoteOf : ~Stale(f)'
  BY BootImageTracked DEF MainInit, NoteOf, Stale, InEffect, LiveGate, On
<1>4. ~(xvars'.themed /\ ~On(c, "events.active"))
  BY BootXVarsFollow DEF MainInit
<1>5. ~(xvars'.season # Stock /\ ~On(c, "seasons.active"))
  BY BootXVarsFollow DEF MainInit
<1>6. TagNxTracked'
  BY BootImageTracked DEF MainInit, TagNxTracked
<1> QED
  BY <1>1, <1>2, <1>3, <1>4, <1>5, <1>6 DEF MainInit, NoSilentStaleness

\* What ApplyPatchConfigRuntime does to each feature: only the InfiniteMp and
\* BuildLocker patches can come, only InfiniteMp can go.
LEMMA ApplyImage ==
    ASSUME IndInv, NEW c \in Configs, ApplyPatchConfigRuntime(c)
    PROVE  /\ image' \subseteq Features
           /\ "InfiniteMp" \in image' <=> InfiniteMp(c)
           /\ "BuildLocker" \in image' <=>
                 "BuildLocker" \in image \/ (BuildLocker(c) /\ ~BuildLocker(global))
           /\ \A f : f \notin {"InfiniteMp", "BuildLocker"} => (f \in image' <=> f \in image)
<1>1. /\ "InfiniteMp" \in image <=> InfiniteMp(global)
      /\ image \subseteq Features
  BY DEF IndInv, InfiniteMpFollowsConfig, ApplyPatchConfigRuntime, TypeOK
<1>2. {"InfiniteMp", "BuildLocker"} \subseteq Features
  BY DEF Features
<1> QED
  BY <1>1, <1>2 DEF ApplyPatchConfigRuntime, PatchInfiniteMp, When

\* A rule that does not fire: its switch has not changed.
LEMMA RuleFires ==
    ASSUME NEW a, NEW b, NEW rule \in k_restart_rules, Changed(a, b, rule[1])
    PROVE  rule[2] \in RestartNotes(a, b)
  BY DEF RestartNotes

\* RestartNotes reports known notes only.
LEMMA NotesType ==
    ASSUME NEW a, NEW b
    PROVE  RestartNotes(a, b) \subseteq Notes
  BY DEF RestartNotes, Notes, When

\* A changed field that has a rule gives the rule's note.
LEMMA RulesCover ==
    ASSUME NEW a, NEW b
    PROVE  /\ "Resolution hack" \notin RestartNotes(a, b) =>
                 /\ On(a, "resolution_hack.active") <=> On(b, "resolution_hack.active")
                 /\ On(a, "output_handheld_scale") <=> On(b, "output_handheld_scale")
           /\ "Spoof docked" \notin RestartNotes(a, b) =>
                 (On(a, "spoof_docked") <=> On(b, "spoof_docked"))
           /\ "Crash hooks" \notin RestartNotes(a, b) =>
                 (On(a, "enable_crashes") <=> On(b, "enable_crashes"))
           /\ "AllowOnlinePlay" \notin RestartNotes(a, b) =>
                 (On(a, "allow_online") <=> On(b, "allow_online"))
           /\ "Exception handler" \notin RestartNotes(a, b) =>
                 (On(a, "enable_exception_handler") <=> On(b, "enable_exception_handler"))
           /\ "OE notifications" \notin RestartNotes(a, b) =>
                 (On(a, "enable_oe_notification_hook") <=> On(b, "enable_oe_notification_hook"))
           /\ "SpoofNetworkFunctions" \notin RestartNotes(a, b) =>
                 (On(a, "tagnx") <=> On(b, "tagnx"))
<1>1. \A rule \in k_restart_rules :
         rule[2] \notin RestartNotes(a, b) => (On(a, rule[1]) <=> On(b, rule[1]))
  BY RuleFires, OnBoolean DEF Changed
<1>2. /\ <<"resolution_hack.active", "Resolution hack">> \in k_restart_rules
      /\ <<"output_handheld_scale", "Resolution hack">> \in k_restart_rules
      /\ <<"spoof_docked", "Spoof docked">> \in k_restart_rules
      /\ <<"enable_crashes", "Crash hooks">> \in k_restart_rules
      /\ <<"allow_online", "AllowOnlinePlay">> \in k_restart_rules
      /\ <<"enable_exception_handler", "Exception handler">> \in k_restart_rules
      /\ <<"enable_oe_notification_hook", "OE notifications">> \in k_restart_rules
      /\ <<"tagnx", "SpoofNetworkFunctions">> \in k_restart_rules
  BY DEF k_restart_rules
<1> QED
  BY <1>1, <1>2

\* The XVars after an apply.
LEMMA ApplyXVars ==
    ASSUME IndInv, NEW c \in Configs, ApplyPatchConfigRuntime(c)
    PROVE  /\ xvars' \in XVars
           /\ (xvars'.ptr <=> On(c, "spoof_ptr")) /\ (xvars'.sched <=> On(c, "exp_scheduler"))
           /\ IF On(c, "events.active") THEN xvars'.themed /\ xvars'.events = c.events
              ELSE xvars'.themed = xvars.themed
           /\ xvars'.season = IF On(c, "seasons.active") THEN c.season ELSE xvars.season
<1> DEFINE v == SetServiceXVars(xvars, c)
           e == PatchDynamicEvents(v, c)
<1>1. xvars \in XVars
  BY DEF IndInv, TypeOK
<1>2. /\ v \in XVars /\ (v.ptr <=> On(c, "spoof_ptr")) /\ (v.sched <=> On(c, "exp_scheduler"))
      /\ v.season = xvars.season /\ v.themed = xvars.themed /\ v.events = xvars.events
  BY <1>1, ServiceXVars
<1> HIDE DEF v
<1>3. /\ e \in XVars /\ e.ptr = v.ptr /\ e.sched = v.sched /\ e.season = v.season
      /\ On(c, "events.active") => e.themed /\ e.events = c.events
      /\ ~On(c, "events.active") => e.themed = v.themed
  BY <1>2, EventXVars
<1> HIDE DEF e
<1>4. xvars' = PatchDynamicSeasonal(e, c)
  BY DEF ApplyPatchConfigRuntime, e, v
<1> QED
  BY <1>2, <1>3, <1>4, SeasonalXVars

\* An apply that does not report SpoofNetworkFunctions changes neither tagnx nor
\* the two hooks that remember it and the debug section of the last boot.
LEMMA ApplyTagNx ==
    ASSUME IndInv, NEW c \in Configs, ApplyPatchConfigRuntime(c)
    PROVE  TagNxTracked'
<1> SUFFICES ASSUME NoteOf["TagNx"] \notin noted'
             PROVE  "TagNx" \in image' <=> "FontDraw" \in image' /\ "tagnx" \in c.on
  BY DEF ApplyPatchConfigRuntime, TagNxTracked
<1>1. /\ running /\ NoteOf["TagNx"] = "SpoofNetworkFunctions"
      /\ "SpoofNetworkFunctions" \notin RestartNotes(global, c)
      /\ "SpoofNetworkFunctions" \notin noted
  BY DEF ApplyPatchConfigRuntime, NoteOf
<1>2. "TagNx" \in image <=> "FontDraw" \in image /\ "tagnx" \in global.on
  BY <1>1 DEF IndInv, TagNxTracked
<1>3. "tagnx" \in global.on <=> "tagnx" \in c.on
  BY <1>1, RulesCover DEF On
<1> QED
  BY <1>2, <1>3, ApplyImage

\* ApplyPatchConfigRuntime keeps every tracked feature in step or reports it.
LEMMA ApplyKeepsStaleness ==
    ASSUME IndInv, NEW c \in Configs, ApplyPatchConfigRuntime(c)
    PROVE  NoSilentStaleness'
<1> DEFINE N == RestartNotes(global, c)
<1>1. /\ running /\ global' = c /\ noted' = noted \cup N /\ target' = target
      /\ NoSilentStaleness
  BY DEF ApplyPatchConfigRuntime, IndInv
<1>2. ASSUME NEW f \in DOMAIN NoteOf \ {"TagNx"}, NoteOf[f] \notin noted' PROVE ~Stale(f)'
  <2>1. ~Stale(f) /\ NoteOf[f] \notin N
    BY <1>1, <1>2 DEF NoSilentStaleness
  <2>2. f \notin {"InfiniteMp", "BuildLocker"} => (f \in image' <=> f \in image)
    BY ApplyImage
  <2> HIDE DEF N
  <2>3. CASE f \in {"ResolutionHooks", "VarRes"}
    <3>1. NoteOf[f] = "Resolution hack"
      <4>1. NoteOf["ResolutionHooks"] = "Resolution hack" /\ NoteOf["VarRes"] = "Resolution hack"
        BY DEF NoteOf
      <4> QED
        BY <2>3, <4>1
    <3>2. On(global, "resolution_hack.active") <=> On(c, "resolution_hack.active")
      BY <2>1, <3>1, RulesCover DEF N
    <3> QED
      BY <1>1, <2>1, <2>2, <2>3, <3>2, BootImageTracked DEF Stale, InEffect, LiveGate, On
  <2>4. CASE f = "HandheldScale"
    <3>1. On(global, "output_handheld_scale") <=> On(c, "output_handheld_scale")
      BY <2>1, <2>4, RulesCover DEF NoteOf, N
    <3> QED
      BY <1>1, <2>1, <2>2, <2>4, <3>1, BootImageTracked DEF Stale, InEffect, LiveGate, On
  <2>5. CASE f = "SpoofDocked"
    <3>1. On(global, "spoof_docked") <=> On(c, "spoof_docked")
      BY <2>1, <2>5, RulesCover DEF NoteOf, N
    <3> QED
      BY <1>1, <2>1, <2>2, <2>5, <3>1, BootImageTracked DEF Stale, InEffect, LiveGate, On
  <2>6. CASE f \in {"CrashPatches", "LobbyHooks"}
    <3>1. NoteOf[f] = "Crash hooks"
      <4>1. NoteOf["CrashPatches"] = "Crash hooks" /\ NoteOf["LobbyHooks"] = "Crash hooks"
        BY DEF NoteOf
      <4> QED
        BY <2>6, <4>1
    <3>2. On(global, "enable_crashes") <=> On(c, "enable_crashes")
      BY <2>1, <3>1, RulesCover DEF N
    <3> QED
      BY <1>1, <2>1, <2>2, <2>6, <3>2, BootImageTracked DEF Stale, InEffect, LiveGate, On
  <2>7. CASE f = "HideOnline"
    <3>1. On(global, "allow_online") <=> On(c, "allow_online")
      BY <2>1, <2>7, RulesCover DEF NoteOf, N
    <3> QED
      BY <1>1, <2>1, <2>2, <2>7, <3>1, BootImageTracked DEF Stale, InEffect, LiveGate, On
  <2>8. CASE f = "ExceptionHandler"
    <3>1. On(global, "enable_exception_handler") <=> On(c, "enable_exception_handler")
      BY <2>1, <2>8, RulesCover DEF NoteOf, N
    <3> QED
      BY <1>1, <2>1, <2>2, <2>8, <3>1, BootImageTracked DEF Stale, InEffect, LiveGate, On
  <2>9. CASE f = "OeNotifications"
    <3>1. On(global, "enable_oe_notification_hook") <=> On(c, "enable_oe_notification_hook")
      BY <2>1, <2>9, RulesCover DEF NoteOf, N
    <3> QED
      BY <1>1, <2>1, <2>2, <2>9, <3>1, BootImageTracked DEF Stale, InEffect, LiveGate, On
  <2>10. CASE f = "BuildLocker"
    <3>1. ~(BuildLocker(global) /\ ~BuildLocker(c))
      BY <2>1, <2>10 DEF NoteOf, N, RestartNotes, When
    <3>2. "BuildLocker" \in image' <=>
             "BuildLocker" \in image \/ (BuildLocker(c) /\ ~BuildLocker(global))
      BY ApplyImage
    <3> QED
      BY <1>1, <2>1, <2>10, <3>1, <3>2, BootImageTracked DEF Stale, InEffect, LiveGate
  <2> QED
    BY <2>3, <2>4, <2>5, <2>6, <2>7, <2>8, <2>9, <2>10 DEF NoteOf
<1>3. ASSUME target \notin BootTargets(c)
      PROVE  {"Resolution targets", "Resolution hack"} \cap noted' # {}
  <2>1. CASE {"Resolution targets", "Resolution hack"} \cap noted # {}
    BY <1>1, <2>1
  <2>2. CASE target \in BootTargets(global)
    <3>1. \/ global.target # c.target
          \/ ~(On(global, "resolution_hack.active") <=> On(c, "resolution_hack.active"))
      BY <1>3, <2>2 DEF BootTargets, PatchResolutionTargets
    <3>2. global.target # c.target => "Resolution targets" \in N
      BY DEF RestartNotes, When
    <3> QED
      BY <1>1, <3>1, <3>2, RulesCover
  <2> QED
    BY <1>1, <2>1, <2>2 DEF NoSilentStaleness
<1>4. ASSUME xvars'.themed, ~On(c, "events.active") PROVE "Events" \in noted'
  <2>1. xvars.themed
    BY <1>4, ApplyXVars
  <2>2. On(global, "events.active") => "Events" \in N
    BY <1>4 DEF RestartNotes, When
  <2> QED
    BY <1>1, <1>4, <2>1, <2>2 DEF NoSilentStaleness
<1>5. ASSUME xvars'.season # Stock, ~On(c, "seasons.active") PROVE "Seasons" \in noted'
  <2>1. xvars.season # Stock
    BY <1>5, ApplyXVars
  <2>2. On(global, "seasons.active") => "Seasons" \in N
    BY <1>5 DEF RestartNotes, When
  <2> QED
    BY <1>1, <1>5, <2>1, <2>2 DEF NoSilentStaleness
<1>6. ASSUME NoteOf["TagNx"] \notin noted', ~DebugSectionMoved' PROVE ~Stale("TagNx")'
  <2>1. "TagNx" \in image' <=> "FontDraw" \in image' /\ "tagnx" \in c.on
    BY <1>1, <1>6, ApplyTagNx DEF TagNxTracked, ApplyPatchConfigRuntime
  <2>2. "FontDraw" \in image' <=> "debug.active" \in c.on
    BY <1>1, <1>6 DEF DebugSectionMoved, On
  <2> QED
    BY <1>1, <2>1, <2>2, BootImageTracked DEF Stale, InEffect, LiveGate
<1> HIDE DEF N
<1> QED
  BY <1>1, <1>2, <1>3, <1>4, <1>5, <1>6 DEF NoSilentStaleness

\* A game start and a power-off leave image, XVars and notes as they are, or
\* empty them.
LEMMA SpawnInv ==
    ASSUME IndInv, NEW kind \in Games, GameCommonDataInit(kind)
    PROVE  IndInv'
<1>1. /\ UNCHANGED <<running, global, image, xvars, target, result, noted>>
      /\ game' = kind /\ (gate' <=> kind = "seasonal" /\ On(global, "seasons.active"))
      /\ gate' \in BOOLEAN
  BY OnBoolean DEF GameCommonDataInit, UpdateDynamicSeasonalForSpawn, SetDynamicSeasonalPatchArmed
<1>2. TypeOK' /\ GateOnlyInSeasonalGame'
  BY <1>1 DEF IndInv, TypeOK, GateOnlyInSeasonalGame
<1>3. InfiniteMpFollowsConfig' /\ XVarsFollowConfig' /\ NoSilentStaleness' /\ TagNxTracked'
  BY <1>1 DEF IndInv, InfiniteMpFollowsConfig, XVarsFollowConfig,
              NoSilentStaleness, TagNxTracked, DebugSectionMoved, Stale, InEffect
<1> QED
  BY <1>2, <1>3 DEF IndInv

\* ApplyPatchConfigRuntime keeps the invariant.
LEMMA ApplyInv ==
    ASSUME IndInv, NEW c \in Configs, ApplyPatchConfigRuntime(c)
    PROVE  IndInv'
<1>1. TypeOK
  BY DEF IndInv
<1>2. gate' \in BOOLEAN /\ (gate' => gate /\ ~On(global, "seasons.active"))
  BY <1>1 DEF ApplyPatchConfigRuntime, ApplySeasonalGate,
              SetDynamicSeasonalPatchArmed, TypeOK
<1>3. GateOnlyInSeasonalGame'
  BY <1>2 DEF IndInv, GateOnlyInSeasonalGame
<1>4. /\ running' = running /\ running /\ target' = target /\ game' = game /\ global' = c
      /\ result' = (RestartNotes(global, c) # {})
      /\ noted' = noted \cup RestartNotes(global, c)
  BY DEF ApplyPatchConfigRuntime
<1>5. result' \in BOOLEAN /\ noted' \subseteq Notes
  BY <1>1, <1>4, NotesType DEF TypeOK
<1>6. TypeOK'
  BY <1>1, <1>2, <1>4, <1>5, ApplyImage, ApplyXVars DEF TypeOK
<1>7. InfiniteMpFollowsConfig'
  BY <1>4, ApplyImage DEF InfiniteMpFollowsConfig
<1>8. XVarsFollowConfig'
  BY <1>4, ApplyXVars DEF XVarsFollowConfig
<1> QED
  BY <1>3, <1>6, <1>7, <1>8, ApplyKeepsStaleness, ApplyTagNx DEF IndInv

\* MainInit establishes the invariant.
LEMMA BootInv ==
    ASSUME IndInv, NEW c \in Configs, MainInit(c)
    PROVE  IndInv'
<1>1. BootTargets(c) \subseteq Targets \cup OutputCaps \cup {Stock}
  BY ConfigFields DEF BootTargets, PatchResolutionTargets
<1>2. TypeOK'
  BY <1>1, BootImageType, BootXVarsFollow DEF MainInit, TypeOK, Games
<1>3. GateOnlyInSeasonalGame'
  BY DEF MainInit, GateOnlyInSeasonalGame
<1> QED
  BY <1>2, <1>3, BootFresh DEF IndInv

\* Every action keeps the invariant.
LEMMA NextInv == IndInv /\ [Next]_vars => IndInv'
<1> SUFFICES ASSUME IndInv, [Next]_vars PROVE IndInv'
  OBVIOUS
<1>1. ASSUME NEW c \in Configs, MainInit(c) PROVE IndInv'
  BY <1>1, BootInv
<1>2. ASSUME NEW c \in Configs, ApplyPatchConfigRuntime(c) PROVE IndInv'
  BY <1>2, ApplyInv
<1>3. ASSUME NEW kind \in Games, GameCommonDataInit(kind) PROVE IndInv'
  BY <1>3, SpawnInv
<1>4. CASE PowerOff
  <2>1. TypeOK'
    BY <1>4 DEF IndInv, PowerOff, TypeOK, StockXVars, XVars, Stock, Games
  <2> QED
    BY <1>4, <2>1 DEF PowerOff, IndInv, InfiniteMpFollowsConfig,
              GateOnlyInSeasonalGame, XVarsFollowConfig, NoSilentStaleness, TagNxTracked
<1>5. CASE UNCHANGED vars
  <2>1. UNCHANGED <<running, global, image, xvars, target, gate, game, result, noted>>
    BY <1>5 DEF vars
  <2>2. TypeOK' /\ InfiniteMpFollowsConfig' /\ GateOnlyInSeasonalGame' /\ XVarsFollowConfig'
    BY <2>1 DEF IndInv, TypeOK, InfiniteMpFollowsConfig, GateOnlyInSeasonalGame,
                XVarsFollowConfig
  <2>3. NoSilentStaleness' /\ TagNxTracked'
    BY <2>1 DEF IndInv, NoSilentStaleness, TagNxTracked, DebugSectionMoved, Stale, InEffect
  <2> QED
    BY <2>2, <2>3 DEF IndInv
<1> QED
  BY <1>1, <1>2, <1>3, <1>4, <1>5 DEF Next

\* The inductive invariant of boot, applies and games.
THEOREM Invariance == Spec => []IndInv
  BY InitInv, NextInv, PTL DEF Spec

\* global_config, the image, the XVars, the gate and the notes keep their types
\* through every boot, apply and game start.
THEOREM TypeCorrect == Spec => []TypeOK
<1>1. IndInv => TypeOK
  BY DEF IndInv
<1> QED
  BY <1>1, Invariance, PTL

\* PatchInfiniteMp is applied and undone in step with global_config by
\* ApplyPatchConfigRuntime.
THEOREM InfiniteMpInStep == Spec => []InfiniteMpFollowsConfig
<1>1. IndInv => InfiniteMpFollowsConfig
  BY DEF IndInv
<1> QED
  BY <1>1, Invariance, PTL

\* SetDynamicSeasonalPatchArmed leaves the NOP in place in seasonal games only.
THEOREM GateInSeasonalGame == Spec => []GateOnlyInSeasonalGame
<1>1. IndInv => GateOnlyInSeasonalGame
  BY DEF IndInv
<1> QED
  BY <1>1, Invariance, PTL

\* The XVars ApplyPatchConfigRuntime writes follow global_config.
THEOREM XVarsInStep == Spec => []XVarsFollowConfig
<1>1. IndInv => XVarsFollowConfig
  BY DEF IndInv
<1> QED
  BY <1>1, Invariance, PTL

\* Whatever the sequence of applies, no feature under a rule of
\* k_restart_rules is out of step with a reboot unreported, but for TagNx while
\* the debug section is not what it was at boot.
THEOREM StalenessIsReported == Spec => []NoSilentStaleness
<1>1. IndInv => NoSilentStaleness
  BY DEF IndInv
<1> QED
  BY <1>1, Invariance, PTL

\* Only GameCommonData::Initialize of a seasonal game arms the gate.
THEOREM SpawnArms == Spec => ArmedOnlyBySpawn
<1>1. IndInv /\ [Next]_vars =>
         [~gate /\ gate' => game' = "seasonal" /\ UNCHANGED <<global, running>>]_vars
  <2> SUFFICES ASSUME IndInv, Next, ~gate, gate'
               PROVE  game' = "seasonal" /\ UNCHANGED <<global, running>>
    BY DEF vars
  <2>1. \A c \in Configs : ~MainInit(c)
    BY DEF MainInit
  <2>2. \A c \in Configs : ~ApplyPatchConfigRuntime(c)
    BY DEF ApplyPatchConfigRuntime, ApplySeasonalGate, SetDynamicSeasonalPatchArmed
  <2>3. ~PowerOff
    BY DEF PowerOff
  <2>4. PICK kind \in Games : GameCommonDataInit(kind)
    BY <2>1, <2>2, <2>3 DEF Next
  <2> QED
    BY <2>4 DEF GameCommonDataInit, UpdateDynamicSeasonalForSpawn, SetDynamicSeasonalPatchArmed
<1> QED
  BY <1>1, Invariance, PTL DEF Spec, ArmedOnlyBySpawn
-----------------------------------------------------------------------------

\* No rule sees a difference between a configuration and itself.
LEMMA NoNotesForTheSame == ASSUME NEW c PROVE RestartNotes(c, c) = {}
<1>1. \A s : ~Changed(c, c, s)
  BY DEF Changed
<1> QED
  BY <1>1 DEF RestartNotes, When

\* The XVars are the same if each of their fields is.
LEMMA SameXVars ==
    ASSUME NEW x \in XVars, NEW y \in XVars,
           x.ptr = y.ptr, x.sched = y.sched, x.rift = y.rift, x.override = y.override,
           x.season = y.season, x.themed = y.themed, x.events = y.events
    PROVE  x = y
  BY DEF XVars

\* The XVars that an apply leaves alone.
LEMMA ApplyKeepsBootXVars ==
    ASSUME IndInv, NEW c \in Configs, ApplyPatchConfigRuntime(c)
    PROVE  /\ xvars'.rift = xvars.rift /\ xvars'.override = xvars.override
           /\ ~On(c, "events.active") => xvars'.events = xvars.events
<1> DEFINE v == SetServiceXVars(xvars, c)
           e == PatchDynamicEvents(v, c)
<1>1. xvars \in XVars
  BY DEF IndInv, TypeOK
<1>2. v \in XVars /\ v.rift = xvars.rift /\ v.override = xvars.override /\ v.events = xvars.events
  BY <1>1, ServiceXVars DEF SetServiceXVars, XVars
<1> HIDE DEF v
<1>3. /\ e \in XVars /\ e.rift = v.rift /\ e.override = v.override
      /\ ~On(c, "events.active") => e.events = v.events
  BY <1>2, EventXVars DEF PatchDynamicEvents, XVars
<1> HIDE DEF e
<1>4. xvars' = PatchDynamicSeasonal(e, c)
  BY DEF ApplyPatchConfigRuntime, e, v
<1> QED
  BY <1>2, <1>3, <1>4 DEF PatchDynamicSeasonal, XVars

\* Applying the configuration in force leaves the game alone.
LEMMA ReapplyStep ==
    ASSUME IndInv, ApplyPatchConfigRuntime(global)
    PROVE  ~result' /\ (gate' => gate) /\ UNCHANGED <<image, xvars, target, noted>>
<1>1. /\ running /\ global \in Configs /\ target' = target
      /\ result' = (RestartNotes(global, global) # {})
      /\ noted' = noted \cup RestartNotes(global, global)
      /\ image' = PatchInfiniteMp(image, global, global) \cup
                    When(BuildLocker(global) /\ ~BuildLocker(global), "BuildLocker")
  BY DEF ApplyPatchConfigRuntime, IndInv, TypeOK
<1>2. ~result' /\ noted' = noted
  BY <1>1, NoNotesForTheSame
<1>3. image' = image
  BY <1>1 DEF PatchInfiniteMp, When
<1>4. gate' => gate
  BY DEF ApplyPatchConfigRuntime, ApplySeasonalGate, SetDynamicSeasonalPatchArmed
<1>5. xvars' = xvars
  <2>1. /\ xvars \in XVars
        /\ xvars.ptr <=> On(global, "spoof_ptr")
        /\ xvars.sched <=> On(global, "exp_scheduler")
        /\ On(global, "seasons.active") => xvars.season = global.season
        /\ On(global, "events.active") => xvars.themed /\ xvars.events = global.events
    BY <1>1 DEF IndInv, TypeOK, XVarsFollowConfig
  <2>2. /\ xvars' \in XVars
        /\ (xvars'.ptr <=> On(global, "spoof_ptr"))
        /\ (xvars'.sched <=> On(global, "exp_scheduler"))
        /\ IF On(global, "events.active") THEN xvars'.themed /\ xvars'.events = global.events
           ELSE xvars'.themed = xvars.themed
        /\ xvars'.season = IF On(global, "seasons.active") THEN global.season ELSE xvars.season
    BY <1>1, ApplyXVars
  <2>3. /\ xvars'.rift = xvars.rift /\ xvars'.override = xvars.override
        /\ ~On(global, "events.active") => xvars'.events = xvars.events
    BY <1>1, ApplyKeepsBootXVars
  <2>4. xvars'.events = xvars.events /\ xvars'.season = xvars.season
    BY <2>1, <2>2, <2>3
  <2>5. {xvars.ptr, xvars.sched, xvars.themed, xvars'.ptr, xvars'.sched, xvars'.themed}
           \subseteq BOOLEAN
    BY <2>1, <2>2 DEF XVars
  <2>6. xvars'.ptr = xvars.ptr /\ xvars'.sched = xvars.sched
    BY <2>1, <2>2, <2>5
  <2>7. xvars'.themed = xvars.themed
    BY <2>1, <2>2, <2>5
  <2> QED
    BY <2>1, <2>2, <2>3, <2>4, <2>6, <2>7, SameXVars
<1> QED
  BY <1>1, <1>2, <1>3, <1>4, <1>5

\* Apply is idempotent: a second one changes nothing in the game and reports
\* nothing, for every configuration and every history of applies.
THEOREM ReapplyDoesNothing == Spec => ReapplyIsIdle
<1>1. IndInv /\ [Next]_vars =>
         [ApplyPatchConfigRuntime(global) =>
             ~result' /\ (gate' => gate) /\ UNCHANGED <<image, xvars, target, noted>>]_vars
  BY ReapplyStep
<1> QED
  BY <1>1, Invariance, PTL DEF Spec, ReapplyIsIdle
=============================================================================
