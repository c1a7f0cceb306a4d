------------------------- MODULE OverlayInputProofs -------------------------
(***************************************************************************)
(* Proofs about OverlayInput, for a hold of any number of frames.          *)
(***************************************************************************)
EXTENDS OverlayInput, TLAPS

Overlays == [visible : BOOLEAN, open : BOOLEAN]
Swipes   == [active : BOOLEAN, triggered : BOOLEAN, start : Zones]

\* Bring-up happens in order.
BringupInv ==
    /\ backend => loaded
    /\ built => shell /\ loaded
    /\ block => built
    /\ BackendIsComplete
    /\ loaded /\ enabled => boot.enabled
    /\ NothingBeforeShell

\* A visible overlay has its window open.
OverlayInv == (ov.visible \/ ~loaded) => ov.open

\* What a gesture has done is remembered until it ends.
GestureInv ==
    /\ flips > 0 => flips = 1 /\ ~armed
    /\ opens > 0 => opens = 1 /\ swipe.active /\ swipe.triggered

\* Every remembered texture below the count is one of the last window.
SwapchainInv ==
    /\ count = IF size < kMaxSwapchainTextures THEN size ELSE kMaxSwapchainTextures
    /\ \A i \in Slots : i < count => textures[i] = window

IndInv ==
    /\ TypeOK /\ BringupInv /\ SwapchainInv /\ OverlayInv /\ GestureInv
    /\ BlockMatchesOverlay

-----------------------------------------------------------------------------

\* set_overlay_visible_persist keeps the type of the overlay state.
LEMMA PersistType ==
    ASSUME NEW o \in Overlays, NEW v \in BOOLEAN
    PROVE  /\ set_overlay_visible_persist(o, v) \in Overlays
           /\ set_overlay_visible_persist(o, v).visible = v
           /\ set_overlay_visible_persist(o, v).open = (o.open \/ (v /\ ~o.visible))
BY DEF set_overlay_visible_persist, Overlays

\* set_overlay_visible_persist never closes the config window.
LEMMA PersistOpens ==
    ASSUME NEW o \in Overlays, o.visible => o.open, NEW v \in BOOLEAN
    PROVE  LET p == set_overlay_visible_persist(o, v) IN p.visible => p.open
BY PersistType DEF Overlays

\* TrackSwipe keeps the type of the statics of DetectOverlaySwipe.
LEMMA TrackSwipeType ==
    ASSUME NEW s \in Swipes, NEW t \in Touches
    PROVE  /\ TrackSwipe(s, t) \in Swipes
           /\ t # "up" /\ s.active => TrackSwipe(s, t) = s
           /\ t # "up" => TrackSwipe(s, t).active
<1>1. CASE t = "up"
  BY <1>1 DEF TrackSwipe, Swipes
<1>2. CASE t # "up"
  <2>1. t \in Zones
    BY <1>2 DEF Touches
  <2> QED BY <1>2, <2>1 DEF TrackSwipe, Swipes
<1> QED BY <1>1, <1>2

\* A swipe keeps a visible overlay's window open, and a touch that has opened
\* the overlay does not do so again.
LEMMA SwipeStep ==
    ASSUME NEW o \in Overlays, o.visible => o.open,
           NEW s \in Swipes, NEW t \in Touches, shell \in BOOLEAN
    PROVE  LET d == DetectOverlaySwipe(o, s, t)
           IN  /\ d.ov \in Overlays /\ d.swipe \in Swipes /\ d.opened \in BOOLEAN
               /\ d.ov.visible => d.ov.open
               /\ d.opened => /\ t # "up"
                              /\ d.swipe.active /\ d.swipe.triggered
                              /\ ~(s.active /\ s.triggered)
               /\ t # "up" /\ s.active /\ s.triggered => d.swipe = s
<1> DEFINE k == TrackSwipe(s, t)
           p == set_overlay_visible_persist(o, TRUE)
           d == DetectOverlaySwipe(o, s, t)
<1>1. /\ k \in Swipes
      /\ t # "up" /\ s.active => k = s
      /\ t # "up" => k.active
    BY TrackSwipeType
<1>2. p \in Overlays /\ p.visible /\ p.open
    BY PersistType, PersistOpens
<1>3. [k EXCEPT !.triggered = TRUE] \in Swipes
      /\ [k EXCEPT !.triggered = TRUE].triggered
      /\ [k EXCEPT !.triggered = TRUE].active = k.active
    BY <1>1 DEF Swipes
<1> HIDE DEF k, p
<1>4. \/ d = [ov |-> o, swipe |-> s, opened |-> FALSE]
      \/ /\ d = [ov |-> p, swipe |-> [k EXCEPT !.triggered = TRUE], opened |-> TRUE]
         /\ t # "up" /\ ~k.triggered
      \/ d = [ov |-> o, swipe |-> k, opened |-> FALSE]
    BY DEF DetectOverlaySwipe, Swiped, k, p
<1> HIDE DEF d
<1>5. CASE d = [ov |-> o, swipe |-> s, opened |-> FALSE]
    BY <1>5 DEF d
<1>6. CASE /\ d = [ov |-> p, swipe |-> [k EXCEPT !.triggered = TRUE], opened |-> TRUE]
           /\ t # "up" /\ ~k.triggered
  <2>1. d.ov = p /\ d.swipe = [k EXCEPT !.triggered = TRUE] /\ d.opened = TRUE
    BY <1>6
  <2>2. ~(s.active /\ s.triggered)
    BY <1>1, <1>6
  <2> QED BY <1>1, <1>2, <1>3, <1>6, <2>1, <2>2 DEF d
<1>7. CASE d = [ov |-> o, swipe |-> k, opened |-> FALSE]
  <2>1. d.ov = o /\ d.swipe = k /\ d.opened = FALSE
    BY <1>7
  <2> QED BY <1>1, <2>1 DEF d
<1> QED BY <1>4, <1>5, <1>6, <1>7

\* What a frame that draws leaves: typed, and open whenever visible.
LEMMA UseStep ==
    ASSUME NEW o \in Overlays, NEW w \in Widgets
    PROVE  LET u == HideIfNoneOpen(Use(o, w))
           IN  u \in Overlays /\ (u.visible => u.open)
<1>1. Use(o, w) \in Overlays
  <2>1. CASE w = "hide"
    BY <2>1, PersistType DEF Use
  <2>2. CASE w # "hide"
    BY <2>2 DEF Use, Overlays
  <2> QED BY <2>1, <2>2
<1>2. ASSUME NEW u \in Overlays
      PROVE  HideIfNoneOpen(u) \in Overlays
             /\ (HideIfNoneOpen(u).visible => HideIfNoneOpen(u).open)
  BY <1>2, PersistType DEF HideIfNoneOpen
<1> QED BY <1>1, <1>2

\* The part of the invariant that the bring-up alone keeps.
StageInv == BringupTypeOK /\ BackendIsComplete /\ SwapchainInv

\* Before the game starts nothing is remembered.
LEMMA StageInit == BringupInit => StageInv
<1> SUFFICES ASSUME BringupInit PROVE StageInv
    OBVIOUS
<1>1. BringupTypeOK
  <2>1. textures \in [Slots -> 0..MaxWindows]
    BY SwapchainAssumption DEF BringupInit
  <2>2. window \in 0..MaxWindows /\ size \in WindowSizes \cup {0}
        /\ count \in 0..kMaxSwapchainTextures
    BY SwapchainAssumption DEF BringupInit
  <2>3. {installed, procs, device, queue, cmd_buf, sys_heap, shell, ctx,
         cpp_loaded, backend, requested, base_loaded, attempted, built} \subseteq BOOLEAN
    BY DEF BringupInit
  <2> QED BY <2>1, <2>2, <2>3 DEF BringupTypeOK
<1>2. BackendIsComplete /\ SwapchainInv
    BY SwapchainAssumption DEF BringupInit, BackendIsComplete, SwapchainInv, Slots
<1> QED BY <1>1, <1>2 DEF StageInv

\* A frame brings up the stages in order, and the fonts not before the shell.
LEMMA StageStep ==
    ASSUME StageInv, Bringup
    PROVE  /\ StageInv'
           /\ shell' = shell
           /\ built' => built \/ shell
<1>1. BringupTypeOK'
  <2>1. {installed, procs, device, queue, cmd_buf, sys_heap, shell, ctx,
         cpp_loaded, backend, requested, base_loaded, attempted, built} \subseteq BOOLEAN
    BY DEF StageInv, BringupTypeOK
  <2>2. /\ ctx' \in BOOLEAN /\ queue' \in BOOLEAN
        /\ UNCHANGED <<installed, procs, device, cmd_buf, sys_heap, shell, base_loaded>>
    BY DEF Bringup, CreateContext
  <2>3. cpp_loaded' \in BOOLEAN /\ backend' \in BOOLEAN
    BY <2>1, <2>2 DEF Bringup, LoadCppProcsOnce, InitBackend
  <2>4. requested' \in BOOLEAN /\ attempted' \in BOOLEAN /\ built' \in BOOLEAN
    BY <2>1 DEF Bringup, PrepareFonts
  <2>5. UNCHANGED <<window, size, count, textures>>
    BY DEF Bringup
  <2> QED BY <2>1, <2>2, <2>3, <2>4, <2>5 DEF StageInv, BringupTypeOK
<1>2. BackendIsComplete'
    BY DEF StageInv, BringupTypeOK, BackendIsComplete, Bringup, CreateContext,
       LoadCppProcsOnce, InitBackend, PrepareFonts
<1>3. SwapchainInv' /\ shell' = shell
    BY DEF StageInv, SwapchainInv, Bringup
<1>4. built' => built \/ shell
    BY DEF Bringup, PrepareFonts
<1> QED BY <1>1, <1>2, <1>3, <1>4 DEF StageInv

\* What the game and the system do between two frames.
LEMMA BetweenStep ==
    ASSUME StageInv, BetweenFrames
    PROVE  StageInv' /\ UNCHANGED <<shell, backend, built>>
<1>1. ASSUME NEW d \in BOOLEAN, DeviceGetProcAddress(d)
      PROVE  StageInv' /\ UNCHANGED <<shell, backend, built>>
  BY <1>1 DEF DeviceGetProcAddress, StageInv, BringupTypeOK, BackendIsComplete,
     SwapchainInv, stages, fonts, swapchain
<1>2. ASSUME CmdBufInitialize PROVE StageInv' /\ UNCHANGED <<shell, backend, built>>
  BY <1>2 DEF CmdBufInitialize, StageInv, BringupTypeOK, BackendIsComplete,
     SwapchainInv, stages, fonts, swapchain
<1>3. ASSUME NEW n \in WindowSizes, WindowBuilderSetTextures(n)
      PROVE  StageInv' /\ UNCHANGED <<shell, backend, built>>
  <2>1. n \in Nat \ {0} /\ kMaxSwapchainTextures \in Nat \ {0} /\ MaxWindows \in Nat
    BY SwapchainAssumption
  <2>2. /\ window' = window + 1 /\ window < MaxWindows /\ size' = n
        /\ count' = IF n < kMaxSwapchainTextures THEN n ELSE kMaxSwapchainTextures
        /\ textures' = [i \in Slots |-> IF i < n THEN window + 1 ELSE textures[i]]
        /\ UNCHANGED <<objects, sys_heap, shell, stages, fonts>>
    BY <1>3 DEF WindowBuilderSetTextures, RememberTextures
  <2>3. window \in 0..MaxWindows /\ textures \in [Slots -> 0..MaxWindows]
    BY DEF StageInv, BringupTypeOK
  <2>4. window' \in 0..MaxWindows
    BY <2>1, <2>2, <2>3
  <2>5. textures' \in [Slots -> 0..MaxWindows]
    BY <2>2, <2>3, <2>4
  <2>6. count' \in 0..kMaxSwapchainTextures
    BY <2>1, <2>2
  <2>7. BringupTypeOK'
    BY <1>3, <2>2, <2>4, <2>5, <2>6
       DEF StageInv, BringupTypeOK, objects, stages, fonts
  <2>8. SwapchainInv'
    BY <2>1, <2>2 DEF SwapchainInv, Slots
  <2>9. BackendIsComplete'
    BY <2>2 DEF StageInv, BackendIsComplete, objects, stages, fonts
  <2> QED BY <2>2, <2>7, <2>8, <2>9 DEF StageInv, stages, fonts
<1>4. ASSUME SystemHeapReady PROVE StageInv' /\ UNCHANGED <<shell, backend, built>>
  BY <1>4 DEF SystemHeapReady, StageInv, BringupTypeOK, BackendIsComplete,
     SwapchainInv, objects, stages, fonts, swapchain
<1>5. ASSUME SharedFontLoads PROVE StageInv' /\ UNCHANGED <<shell, backend, built>>
  BY <1>5 DEF SharedFontLoads, StageInv, BringupTypeOK, BackendIsComplete,
     SwapchainInv, objects, stages, fonts, swapchain
<1> QED BY <1>1, <1>2, <1>3, <1>4, <1>5 DEF BetweenFrames

\* The invariant holds before the first frame.
LEMMA InitInv == Init => IndInv
<1> SUFFICES ASSUME Init PROVE IndInv
    OBVIOUS
<1>1. TypeOK
  <2>1. swipe \in Swipes /\ ov \in Overlays
    BY DEF Init, Swipes, Overlays, Zones
  <2>2. /\ BringupTypeOK
        /\ {font_uploaded, loaded, enabled, armed, block, left, held, drawn} \subseteq BOOLEAN
        /\ boot \in GuiSettings /\ touch \in Touches
    BY StageInit DEF Init, Touches, StageInv
  <2>3. hold \in 0..HoldFrames /\ flips \in 0..2 /\ opens \in 0..2
    BY HoldFramesAssumption DEF Init
  <2> QED BY <2>1, <2>2, <2>3 DEF TypeOK, Swipes, Overlays
<1>2. OverlayInv /\ GestureInv /\ BlockMatchesOverlay /\ NothingBeforeShell
    BY DEF Init, OverlayInv, GestureInv, BlockMatchesOverlay, NothingBeforeShell
<1>3. BringupInv /\ SwapchainInv
    BY <1>2, StageInit DEF Init, BringupInit, StageInv, BringupInv
<1> QED BY <1>1, <1>2, <1>3 DEF IndInv

-----------------------------------------------------------------------------

\* A frame that runs the overlay, from the state EnsureConfigLoaded leaves.
LEMMA UiStep ==
    ASSUME IndInv, NEW o \in Overlays, o.visible => o.open,
           NEW w \in Widgets, UiFrame(o, w),
           touch' \in Touches, held' \in BOOLEAN,
           shell, boot.enabled
    PROVE  /\ {font_uploaded', enabled', armed', block', left', drawn'} \subseteq BOOLEAN
           /\ ov' \in Overlays /\ (ov'.visible => ov'.open)
           /\ swipe' \in Swipes
           /\ hold' \in 0..HoldFrames
           /\ flips' \in 0..2 /\ (flips' > 0 => flips' = 1 /\ ~armed')
           /\ opens' \in 0..2
           /\ opens' > 0 => opens' = 1 /\ swipe'.active /\ swipe'.triggered
           /\ block' => drawn' /\ ov'.visible
           /\ drawn' /\ ov'.visible => block'
           /\ left' => block'
<1> DEFINE d       == DetectOverlaySwipe(o, swipe, touch')
           both    == shell /\ CombineNpadState(held')
           toggled == IF Toggles(both) THEN set_overlay_visible_persist(d.ov, ~d.ov.visible)
                      ELSE d.ov
           shown   == font_uploaded /\ toggled.visible
           after   == IF shown THEN HideIfNoneOpen(Use(toggled, w)) ELSE toggled
<1>t. /\ {shell, font_uploaded, armed} \subseteq BOOLEAN
      /\ boot.allow_left_stick_passthrough \in BOOLEAN
      /\ swipe \in Swipes /\ hold \in 0..HoldFrames /\ flips \in 0..2 /\ opens \in 0..2
    BY DEF IndInv, TypeOK, Swipes, GuiSettings
<1>g. /\ flips > 0 => flips = 1 /\ ~armed
      /\ opens > 0 => opens = 1 /\ swipe.active /\ swipe.triggered
    BY DEF IndInv, GestureInv
<1>1. /\ d.ov \in Overlays /\ d.swipe \in Swipes /\ d.opened \in BOOLEAN
      /\ d.ov.visible => d.ov.open
      /\ d.opened => /\ touch' # "up"
                     /\ d.swipe.active /\ d.swipe.triggered
                     /\ ~(swipe.active /\ swipe.triggered)
      /\ touch' # "up" /\ swipe.active /\ swipe.triggered => d.swipe = swipe
    BY <1>t, SwipeStep
<1>2. /\ hold' = HeldFor(both) /\ armed' = Armed(both)
      /\ ov' = after
      /\ enabled' = (w # "disable")
      /\ swipe' = d.swipe
      /\ block' = (font_uploaded /\ after.visible)
      /\ left' = (font_uploaded /\ boot.allow_left_stick_passthrough /\ after.visible)
      /\ font_uploaded' \in BOOLEAN
      /\ drawn' = shown
      /\ flips' = IF ~both THEN 0
                  ELSE IF Toggles(both) /\ flips < 2 THEN flips + 1 ELSE flips
      /\ opens' = IF touch' = "up" THEN 0
                  ELSE IF d.opened /\ opens < 2 THEN opens + 1 ELSE opens
    BY DEF UiFrame
<1>b. both \in BOOLEAN
    BY DEF CombineNpadState
<1> HIDE DEF d, both
<1>3. toggled \in Overlays /\ (toggled.visible => toggled.open)
  <2>1. (~d.ov.visible) \in BOOLEAN
    BY <1>1 DEF Overlays
  <2> QED BY <1>1, <2>1, PersistType, PersistOpens
<1> HIDE DEF toggled
<1>4. after \in Overlays /\ (after.visible => after.open)
    BY <1>3, UseStep
<1>5. shown \in BOOLEAN /\ after.visible \in BOOLEAN
    BY <1>t, <1>3, <1>4 DEF Overlays
<1> HIDE DEF shown
<1>6. hold' \in 0..HoldFrames
    BY <1>t, <1>2, <1>b, HoldFramesAssumption DEF HeldFor
<1>7. flips' \in 0..2 /\ (flips' > 0 => flips' = 1 /\ ~armed')
  <2>1. Toggles(both) => armed
    BY DEF Toggles
  <2>2. armed' = (~both \/ (armed /\ ~Toggles(both)))
    BY <1>2 DEF Armed
  <2>3. CASE ~both
    BY <2>3, <1>2
  <2>4. CASE both /\ Toggles(both)
    <3>1. flips = 0
      BY <1>t, <1>g, <2>1, <2>4
    <3>2. flips' = 1
      BY <1>2, <2>4, <3>1
    <3>3. ~armed'
      BY <2>2, <2>4
    <3> QED BY <3>2, <3>3
  <2>5. CASE both /\ ~Toggles(both)
    <3>1. flips' = flips
      BY <1>2, <2>5
    <3>2. ~armed => ~armed'
      BY <2>2, <2>5
    <3> QED BY <1>t, <1>g, <3>1, <3>2
  <2> QED BY <2>3, <2>4, <2>5
<1>8. /\ opens' \in 0..2
      /\ opens' > 0 => opens' = 1 /\ swipe'.active /\ swipe'.triggered
    BY <1>t, <1>g, <1>1, <1>2
<1>9. armed' \in BOOLEAN
    BY <1>t, <1>2, <1>b DEF Armed
<1>10. drawn' /\ ov'.visible => block'
    BY <1>2 DEF shown
<1>11. block' => drawn' /\ ov'.visible
  <2>1. after.visible => toggled.visible \/ shown
    BY DEF after
  <2> QED BY <1>2, <2>1 DEF shown
<1> HIDE DEF after
<1> QED BY <1>t, <1>1, <1>2, <1>4, <1>5, <1>6, <1>7, <1>8, <1>9, <1>10, <1>11

\* OnPresent keeps the invariant, on both of its paths.
LEMMA FrameStep == ASSUME IndInv, Frame PROVE IndInv'
<1> DEFINE o  == IF loaded THEN ov ELSE [ov EXCEPT !.visible = boot.visible]
           on == IF loaded THEN enabled ELSE boot.enabled
<1>t. /\ {shell, backend, built, font_uploaded, loaded, enabled, armed,
          block, left, held, drawn} \subseteq BOOLEAN
      /\ boot \in GuiSettings
      /\ ov \in Overlays /\ swipe \in Swipes /\ hold \in 0..HoldFrames
      /\ flips \in 0..2 /\ opens \in 0..2
    BY DEF IndInv, TypeOK, BringupTypeOK, Overlays, Swipes
<1>s. /\ StageInv' /\ shell' = shell
      /\ built' => built \/ shell
  <2>1. StageInv /\ Bringup
    BY DEF IndInv, TypeOK, BringupInv, StageInv, Frame
  <2> QED BY <2>1, StageStep
<1>1. o \in Overlays /\ (o.visible => o.open) /\ (~loaded => o.open)
  <2>1. CASE loaded
    BY <2>1, <1>t DEF IndInv, OverlayInv, Overlays
  <2>2. CASE ~loaded
    BY <2>2, <1>t DEF IndInv, OverlayInv, Overlays, GuiSettings
  <2> QED BY <2>1, <2>2
<1>2. on \in BOOLEAN /\ (on => boot.enabled)
    BY <1>t DEF IndInv, BringupInv, GuiSettings
<1>3. /\ held' \in BOOLEAN /\ touch' \in Touches
      /\ {shell', backend', built', loaded'} \subseteq BOOLEAN
      /\ shell' = shell /\ boot' = boot
      /\ loaded' = (loaded \/ backend')
      /\ backend' => loaded'
      /\ built' => shell /\ loaded'
    BY <1>t, <1>s DEF Frame, NextFinger, IndInv, BringupInv, StageInv, BringupTypeOK,
       BackendIsComplete
<1>k. built => built'
    BY <1>t DEF Frame, Bringup, PrepareFonts
<1>4. \/ built' /\ on /\ \E w \in Widgets : UiFrame(o, w)
      \/ /\ ~(built' /\ on)
         /\ ov' = IF loaded' THEN o ELSE ov
         /\ enabled' = IF loaded' THEN on ELSE enabled
         /\ drawn' = FALSE
         /\ opens' = IF touch' = "up" THEN 0 ELSE opens
         /\ UNCHANGED <<pad, swipe, flags, font_uploaded>>
    BY DEF Frame
<1> HIDE DEF o, on
<1>5. CASE built' /\ on /\ \E w \in Widgets : UiFrame(o, w)
  <2>1. PICK w \in Widgets : UiFrame(o, w)
    BY <1>5
  <2>2. /\ {font_uploaded', enabled', armed', block', left', drawn'} \subseteq BOOLEAN
        /\ ov' \in Overlays /\ (ov'.visible => ov'.open)
        /\ swipe' \in Swipes
        /\ hold' \in 0..HoldFrames
        /\ flips' \in 0..2 /\ (flips' > 0 => flips' = 1 /\ ~armed')
        /\ opens' \in 0..2
        /\ opens' > 0 => opens' = 1 /\ swipe'.active /\ swipe'.triggered
        /\ block' => drawn' /\ ov'.visible
        /\ drawn' /\ ov'.visible => block'
        /\ left' => block'
    BY <1>1, <1>2, <1>3, <1>5, <2>1, UiStep
  <2>3. TypeOK'
    BY <1>t, <1>s, <1>3, <2>2 DEF TypeOK, StageInv, Overlays, Swipes
  <2>4. BringupInv' /\ SwapchainInv'
    BY <1>2, <1>s, <1>3, <1>5 DEF BringupInv, NothingBeforeShell, StageInv
  <2>5. OverlayInv' /\ GestureInv' /\ BlockMatchesOverlay'
    BY <1>3, <1>5, <2>2 DEF OverlayInv, GestureInv, BlockMatchesOverlay
  <2> QED BY <2>3, <2>4, <2>5 DEF IndInv
<1>6. CASE /\ ~(built' /\ on)
           /\ ov' = IF loaded' THEN o ELSE ov
           /\ enabled' = IF loaded' THEN on ELSE enabled
           /\ drawn' = FALSE
           /\ opens' = IF touch' = "up" THEN 0 ELSE opens
           /\ UNCHANGED <<pad, swipe, flags, font_uploaded>>
  <2>1. TypeOK'
    <3>1. ov' \in Overlays /\ enabled' \in BOOLEAN
      BY <1>t, <1>1, <1>2, <1>6
    <3>2. opens' \in 0..2
      BY <1>t, <1>6
    <3>3. /\ hold' \in 0..HoldFrames /\ flips' \in 0..2 /\ swipe' \in Swipes
          /\ {armed', block', left', font_uploaded', drawn'} \subseteq BOOLEAN
      BY <1>t, <1>6 DEF pad, flags
    <3> QED BY <1>t, <1>s, <1>3, <3>1, <3>2, <3>3 DEF TypeOK, StageInv, Overlays, Swipes
  <2>2. BringupInv' /\ SwapchainInv'
    BY <1>t, <1>s, <1>2, <1>3, <1>6, <1>k
       DEF IndInv, BringupInv, NothingBeforeShell, StageInv, pad, flags, on
  <2>3. OverlayInv'
    BY <1>1, <1>3, <1>6 DEF IndInv, OverlayInv
  <2>4. GestureInv'
    BY <1>t, <1>6 DEF IndInv, GestureInv, pad
  <2>5. block' => ~enabled'
    <3>1. block => built /\ loaded
      BY DEF IndInv, BringupInv, NothingBeforeShell
    <3> QED BY <1>3, <1>6, <1>k, <3>1 DEF flags
  <2>6. BlockMatchesOverlay'
    BY <1>6, <2>5 DEF IndInv, BlockMatchesOverlay, flags
  <2> QED BY <2>1, <2>2, <2>3, <2>4, <2>6 DEF IndInv
<1> QED BY <1>4, <1>5, <1>6

\* What neither draws nor reads input leaves the overlay's part alone.
LEMMA OverlayKept ==
    ASSUME IndInv, UNCHANGED overlay, StageInv',
           shell => shell',
           backend' = backend, built' = built
    PROVE  IndInv'
<1>1. TypeOK'
    BY DEF IndInv, TypeOK, StageInv, overlay, pad, finger, flags
<1>2. BringupInv'
    BY DEF IndInv, BringupInv, StageInv, NothingBeforeShell, overlay, pad, finger, flags
<1>3. OverlayInv' /\ GestureInv' /\ BlockMatchesOverlay'
    BY DEF IndInv, OverlayInv, GestureInv, BlockMatchesOverlay, overlay, pad, finger, flags
<1> QED BY <1>1, <1>2, <1>3 DEF IndInv, StageInv

\* ShellInitialize keeps the invariant.
LEMMA ShellStep == ASSUME IndInv, ShellInitialize PROVE IndInv'
<1>1. shell' = TRUE /\ UNCHANGED overlay /\ backend' = backend /\ built' = built
    BY DEF ShellInitialize, bringup, stages, fonts
<1>2. StageInv'
    BY DEF IndInv, TypeOK, BringupInv, StageInv, BringupTypeOK, BackendIsComplete,
       SwapchainInv, ShellInitialize, bringup, objects, stages, fonts, swapchain
<1> QED BY <1>1, <1>2, OverlayKept

\* The game's calls between frames keep it.
LEMMA GameStepsStep == ASSUME IndInv, GameSteps PROVE IndInv'
<1>1. StageInv
    BY DEF IndInv, TypeOK, BringupInv, StageInv
<1>2. StageInv' /\ UNCHANGED <<shell, backend, built>> /\ UNCHANGED overlay
    BY <1>1, BetweenStep DEF GameSteps
<1> QED BY <1>2, OverlayKept

\* The invariant does not depend on more than vars.
LEMMA StutterStep == ASSUME IndInv, UNCHANGED vars PROVE IndInv'
<1>1. UNCHANGED <<shell, backend, built>> /\ UNCHANGED overlay
    BY DEF vars, bringup, stages, fonts
<1>2. StageInv'
    BY DEF IndInv, TypeOK, BringupInv, StageInv, BringupTypeOK, BackendIsComplete,
       SwapchainInv, vars, bringup, objects, stages, fonts, swapchain
<1> QED BY <1>1, <1>2, OverlayKept

\* IndInv holds after every frame.
THEOREM Invariance == Spec => []IndInv
<1>1. IndInv /\ [Next]_vars => IndInv'
  BY FrameStep, ShellStep, GameStepsStep, StutterStep DEF Next
<1> QED BY InitInv, <1>1, PTL DEF Spec

\* The overlay's state keeps its types.
THEOREM TypeCorrect == Spec => []TypeOK
BY Invariance, PTL DEF IndInv

\* While the GUI is on, input is blocked only for an overlay that the last
\* frame has drawn and that is still up with its window open.
THEOREM BlockInStep == Spec => []BlockMatchesOverlay
BY Invariance, PTL DEF IndInv

\* A hold of + and - toggles once, however many frames half a second takes.
THEOREM OneToggle == Spec => []GestureTogglesOnce
<1>1. IndInv => GestureTogglesOnce
  BY DEF IndInv, TypeOK, GestureInv, GestureTogglesOnce
<1> QED BY Invariance, <1>1, PTL

\* A touch opens the overlay at most once.
THEOREM OneOpen == Spec => []TouchOpensOnce
<1>1. IndInv => TouchOpensOnce
  BY DEF IndInv, TypeOK, GestureInv, TouchOpensOnce
<1> QED BY Invariance, <1>1, PTL

\* Nothing is sampled, drawn or blocked before the game's shell is up.
THEOREM ShellFirst == Spec => []NothingBeforeShell
<1>1. IndInv => NothingBeforeShell
  BY DEF IndInv, BringupInv
<1> QED BY Invariance, <1>1, PTL

\* The backend is only started on what the wrappers have remembered.
THEOREM BackendInOrder == Spec => []BackendIsComplete
<1>1. IndInv => BackendIsComplete
  BY DEF IndInv, BringupInv
<1> QED BY Invariance, <1>1, PTL

\* The texture drawn to is the presented one, for windows of any size.
THEOREM TextureIsCurrent == Spec => []TargetIsCurrent
<1>1. IndInv => TargetIsCurrent
  <2> SUFFICES ASSUME IndInv, NEW index \in 0..(size - 1)
               PROVE  GetSwapchainTextureForBackend(index) =
                          IF index < kMaxSwapchainTextures THEN window ELSE 0
    BY DEF TargetIsCurrent
  <2>1. size \in Nat /\ kMaxSwapchainTextures \in Nat \ {0}
    BY SwapchainAssumption DEF IndInv, TypeOK, BringupTypeOK
  <2>2. index < count <=> index < kMaxSwapchainTextures
    BY <2>1 DEF IndInv, SwapchainInv
  <2>3. CASE index < kMaxSwapchainTextures
    <3>1. index \in Slots
      BY <2>1, <2>3 DEF Slots
    <3> QED BY <2>2, <2>3, <3>1 DEF IndInv, SwapchainInv, GetSwapchainTextureForBackend
  <2>4. CASE ~(index < kMaxSwapchainTextures)
    BY <2>2, <2>4 DEF GetSwapchainTextureForBackend
  <2> QED BY <2>3, <2>4
<1> QED BY Invariance, <1>1, PTL

-----------------------------------------------------------------------------
(* What OverlayComesUp and GestureGetsThrough ask for, one frame at a time. *)
(* TLC checks that it is reached under fairness; that each frame does its   *)
(* part, whatever has gone before, is proved.                               *)

\* The one attempt at the atlas is never spent without an atlas.
AttemptCounts == attempted <=> built

\* Nothing but a frame touches either flag, and a frame sets both or none.
LEMMA AttemptStep == AttemptCounts /\ [Next]_vars => AttemptCounts'
<1> SUFFICES ASSUME AttemptCounts, [Next]_vars PROVE AttemptCounts'
    OBVIOUS
<1>1. CASE Frame
    BY <1>1 DEF AttemptCounts, Frame, Bringup, PrepareFonts
<1>2. CASE ShellInitialize \/ UNCHANGED vars
    BY <1>2 DEF AttemptCounts, ShellInitialize, vars, bringup, fonts
<1>3. CASE GameSteps
    BY <1>3 DEF AttemptCounts, GameSteps, BetweenFrames, DeviceGetProcAddress,
       CmdBufInitialize, WindowBuilderSetTextures, SystemHeapReady, SharedFontLoads, fonts
<1> QED BY <1>1, <1>2, <1>3 DEF Next

\* Once the game has what the overlay needs, one frame starts the backend and
\* asks for the font, and one frame after the font is there builds the atlas:
\* no frame before, on whatever it failed, has spent an attempt.
THEOREM OneFrameIsEnough ==
    Spec => [][Frame /\ device /\ cmd_buf /\ shell /\ (ctx \/ sys_heap)
                  => /\ ctx' /\ backend'
                     /\ built' \/ requested'
                     /\ base_loaded => built']_vars
<1> DEFINE A == Frame /\ device /\ cmd_buf /\ shell /\ (ctx \/ sys_heap)
                  => /\ ctx' /\ backend'
                     /\ built' \/ requested'
                     /\ base_loaded => built'
<1>1. Init => AttemptCounts
    BY DEF Init, BringupInit, AttemptCounts
<1>2. AttemptCounts /\ IndInv => A
  <2> SUFFICES ASSUME AttemptCounts, IndInv, Frame, device, cmd_buf, shell, ctx \/ sys_heap
               PROVE  /\ ctx' /\ backend'
                      /\ built' \/ requested'
                      /\ base_loaded => built'
      OBVIOUS
  <2>1. ctx' /\ queue' /\ backend'
      BY DEF Frame, Bringup, CreateContext, InitBackend
  <2>2. PrepareFonts
      BY DEF Frame, Bringup
  <2>3. {base_loaded, built, attempted} \subseteq BOOLEAN
      BY DEF IndInv, TypeOK, BringupTypeOK
  <2> QED BY <2>1, <2>2, <2>3 DEF PrepareFonts, AttemptCounts
<1> QED BY <1>1, <1>2, AttemptStep, Invariance, PTL DEF Spec

\* A frame that finds + and - down counts, or toggles when the count is full,
\* whether the game is kept from these buttons or not.
THEOREM EveryFrameCounts ==
    Spec => [][Frame /\ built /\ loaded /\ enabled /\ armed /\ held'
                  => \/ armed' /\ hold' = hold + 1 /\ hold' < HoldFrames
                     \/ flips' > 0]_vars
<1> DEFINE A == Frame /\ built /\ loaded /\ enabled /\ armed /\ held'
                  => \/ armed' /\ hold' = hold + 1 /\ hold' < HoldFrames
                     \/ flips' > 0
<1>1. IndInv => A
  <2> SUFFICES ASSUME IndInv, Frame, built, loaded, enabled, armed, held'
               PROVE  \/ armed' /\ hold' = hold + 1 /\ hold' < HoldFrames
                      \/ flips' > 0
      OBVIOUS
  <2>1. shell /\ hold \in 0..HoldFrames /\ flips \in 0..2 /\ HoldFrames \in Nat \ {0}
      BY HoldFramesAssumption DEF IndInv, TypeOK, BringupInv
  <2>2. built'
      BY DEF Frame, Bringup, PrepareFonts
  <2>3. PICK o \in {ov}, w \in Widgets : UiFrame(o, w)
      BY <2>2 DEF Frame
  <2>4. /\ hold' = HeldFor(TRUE) /\ armed' = Armed(TRUE)
        /\ flips' = IF Toggles(TRUE) /\ flips < 2 THEN flips + 1 ELSE flips
      BY <2>1, <2>3 DEF UiFrame, CombineNpadState
  <2>5. /\ HeldFor(TRUE) = IF hold < HoldFrames THEN hold + 1 ELSE hold
        /\ Toggles(TRUE) <=> HeldFor(TRUE) >= HoldFrames
      BY DEF HeldFor, Toggles
  <2>6. CASE HeldFor(TRUE) >= HoldFrames
    <3>1. flips' = IF flips < 2 THEN flips + 1 ELSE flips
        BY <2>4, <2>5, <2>6
    <3> QED BY <2>1, <3>1
  <2>7. CASE ~(HeldFor(TRUE) >= HoldFrames)
    <3>0. ~Toggles(TRUE)
        BY <2>7 DEF Toggles
    <3>1. Armed(TRUE) = TRUE
        BY <3>0 DEF Armed, Toggles, HeldFor
    <3>2. armed'
        BY <2>4, <3>1
    <3>3. hold' = hold + 1 /\ hold' < HoldFrames
        BY <2>1, <2>4, <2>7 DEF HeldFor
    <3> QED BY <3>2, <3>3
  <2> QED BY <2>6, <2>7
<1> QED BY <1>1, Invariance, PTL DEF Spec

=============================================================================
