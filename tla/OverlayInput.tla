---------------------------- MODULE OverlayInput ----------------------------
(***************************************************************************)
(* Who gets the controller: the overlay or the game.  One action, Frame,   *)
(* is the present hook OnPresent (gui2/imgui_overlay.cpp) with all that it *)
(* calls: the bring-up (NvnBringup), the two gestures that show and hide   *)
(* the overlay, Overlay::UpdateFrame (gui2/ui/overlay.cpp) and the two     *)
(* flags that the nn::hid hooks read (HidBlock has their threads).         *)
(*                                                                         *)
(* The player's input is a choice of each frame: whether + and - are held, *)
(* where the finger is, and which widget of a drawn overlay is used.       *)
(***************************************************************************)
EXTENDS NvnBringup

CONSTANT HoldFrames     \* frames of holding + and - that make up half a second

ASSUME HoldFramesAssumption == HoldFrames \in Nat \ {0}

VARIABLES
    font_uploaded,      \* g_font_uploaded
    boot,               \* global_config.gui, latched at boot
    loaded,             \* ui_config_initialized_
    enabled,            \* ui_config_.gui.enabled, in the working copy
    ov,                 \* overlay_visible_, and open_ of the config window
    hold, armed,        \* g_overlay_toggle_hold_s and g_overlay_toggle_armed
    swipe,              \* the static state of DetectOverlaySwipe
    block, left,        \* the flags that the nn::hid hooks read
    held, touch,        \* the player: + and - both down; zone of the finger
    \* observation only
    drawn,              \* the last frame drew the overlay's windows
    flips,              \* toggles by + and - since they were last not both held
    opens               \* times this touch has opened the overlay

pad     == <<hold, armed, flips>>
finger  == <<touch, swipe, opens>>
flags   == <<block, left>>
overlay == <<font_uploaded, boot, loaded, enabled, ov, pad, finger, flags, held, drawn>>
vars    == <<shell, bringup, overlay>>

\* Zones of the touch panel: near enough to the left edge to start a swipe,
\* or far enough from there, without leaving the band, to complete one.
Zones   == {"edge", "mid", "far"}
Touches == Zones \cup {"up"}

\* What the player can do to a drawn overlay: X or Hide overlay or a swipe of
\* the docked window; close the config window or hide all; open it or show
\* all; untick Enabled (or reload a file that says so); nothing of interest.
Widgets == {"none", "hide", "close", "show", "disable"}

GuiSettings == [enabled : BOOLEAN, visible : BOOLEAN,
                allow_left_stick_passthrough : BOOLEAN]

TypeOK ==
    /\ BringupTypeOK
    /\ {font_uploaded, loaded, enabled, armed, block, left, held, drawn} \subseteq BOOLEAN
    /\ boot \in GuiSettings
    /\ ov \in [visible : BOOLEAN, open : BOOLEAN]
    /\ hold \in 0..HoldFrames
    /\ swipe \in [active : BOOLEAN, triggered : BOOLEAN, start : Zones]
    /\ touch \in Touches
    /\ flips \in 0..2 /\ opens \in 0..2

Init ==
    /\ BringupInit
    /\ font_uploaded = FALSE
    /\ boot \in GuiSettings
    /\ loaded = FALSE /\ enabled = TRUE
    /\ ov = [visible |-> TRUE, open |-> TRUE]
    /\ hold = 0 /\ armed = TRUE
    /\ swipe = [active |-> FALSE, triggered |-> FALSE, start |-> "edge"]
    /\ block = FALSE /\ left = FALSE
    /\ held = FALSE /\ touch = "up"
    /\ drawn = FALSE /\ flips = 0 /\ opens = 0

-----------------------------------------------------------------------------

set_overlay_visible_persist(o, v) ==
    [visible |-> v, open |-> o.open \/ (v /\ ~o.visible)]

\* The finger as DetectOverlaySwipe sees it while the overlay is hidden.
TrackSwipeAlways(s, t) ==       \* mutant: no early return for an untouched panel
    IF s.active THEN s ELSE [active |-> TRUE, triggered |-> FALSE, start |-> t]

TrackSwipe(s, t) ==
    IF t = "up" THEN [s EXCEPT !.active = FALSE, !.triggered = FALSE]
    ELSE IF s.active THEN s
    ELSE [active |-> TRUE, triggered |-> FALSE, start |-> t]

SwipedAgain(s, t) == s.start = "edge" /\ t = "far"   \* mutant: not s_swipe_triggered

Swiped(s, t) == ~s.triggered /\ s.start = "edge" /\ t = "far"

DetectOverlaySwipe(o, s, t) ==
    LET tracked == TrackSwipe(s, t)
    IN  IF ~shell \/ o.visible THEN [ov |-> o, swipe |-> s, opened |-> FALSE]
        ELSE IF t # "up" /\ Swiped(tracked, t)
        THEN [ov |-> set_overlay_visible_persist(o, TRUE),
              swipe |-> [tracked EXCEPT !.triggered = TRUE], opened |-> TRUE]
        ELSE [ov |-> o, swipe |-> tracked, opened |-> FALSE]

\* The pad is read inside a passthrough guard: the hooks do not blank it.
CombineNpadStateUnguarded(both) == both /\ ~block         \* mutant: no guard

CombineNpadState(both) == both

\* hold and armed after a frame that reads the two buttons as `both'.
HeldFor(both) ==
    IF ~both THEN 0 ELSE IF hold < HoldFrames THEN hold + 1 ELSE hold

TogglesUnarmed(both) == both /\ HeldFor(both) >= HoldFrames   \* mutant: not armed

Toggles(both) == both /\ HeldFor(both) >= HoldFrames /\ armed

Armed(both) == ~both \/ (armed /\ ~Toggles(both))

\* UpdateFrame hides an overlay that has no window open (any_open).
HideNever(o) == o                                    \* mutant: no any_open

HideIfNoneOpen(o) == IF o.open THEN o ELSE set_overlay_visible_persist(o, FALSE)

Use(o, w) ==
    CASE w = "hide"  -> set_overlay_visible_persist(o, FALSE)
      [] w = "close" -> [o EXCEPT !.open = FALSE]
      [] w = "show"  -> [o EXCEPT !.open = TRUE]
      [] OTHER       -> o

-----------------------------------------------------------------------------

\* A finger comes down anywhere, moves, or leaves the panel.
NextFinger == touch' \in Touches

\* The part of OnPresent that is skipped while the overlay cannot be drawn.
UiFrame(o, w) ==
    LET swiped   == DetectOverlaySwipe(o, swipe, touch')
        both     == shell /\ CombineNpadState(held')
        toggled  == IF Toggles(both)
                    THEN set_overlay_visible_persist(swiped.ov, ~swiped.ov.visible)
                    ELSE swiped.ov
        can_draw == font_uploaded
        shown    == can_draw /\ toggled.visible
        after    == IF shown THEN HideIfNoneOpen(Use(toggled, w)) ELSE toggled
    IN  /\ ~shown => w = "none"
        /\ w = "disable" => toggled.open        \* a box in the config window
        /\ hold' = HeldFor(both)
        /\ armed' = Armed(both)
        /\ ov' = after
        /\ enabled' = (w # "disable")
        /\ swipe' = swiped.swipe
        /\ block' = (can_draw /\ after.visible)
        /\ left' = (can_draw /\ boot.allow_left_stick_passthrough /\ after.visible)
        /\ font_uploaded' \in BOOLEAN
        /\ drawn' = shown
        /\ flips' = IF ~both THEN 0
                    ELSE IF Toggles(both) /\ flips < 2 THEN flips + 1 ELSE flips
        /\ opens' = IF touch' = "up" THEN 0
                    ELSE IF swiped.opened /\ opens < 2 THEN opens + 1 ELSE opens

Frame ==
    /\ held' \in BOOLEAN
    /\ NextFinger
    /\ Bringup
    /\ loaded' = (loaded \/ backend')           \* EnsureConfigLoaded
    /\ LET o  == IF loaded THEN ov ELSE [ov EXCEPT !.visible = boot.visible]
           on == IF loaded THEN enabled ELSE boot.enabled
       IN  \/ /\ built' /\ on
              /\ \E w \in Widgets : UiFrame(o, w)
           \/ /\ ~(built' /\ on)
              /\ ov' = IF loaded' THEN o ELSE ov
              /\ enabled' = IF loaded' THEN on ELSE enabled
              /\ drawn' = FALSE
              /\ opens' = IF touch' = "up" THEN 0 ELSE opens
              /\ UNCHANGED <<pad, swipe, flags, font_uploaded>>
    /\ UNCHANGED boot

\* The hook after the game's ShellInitialize sets g_ptMainRWindow.
ShellInitialize ==
    /\ ~shell
    /\ shell' = TRUE
    /\ UNCHANGED <<bringup, overlay>>

GameSteps == BetweenFrames /\ UNCHANGED overlay

Next == Frame \/ ShellInitialize \/ GameSteps

Spec == Init /\ [][Next]_vars

\* The game presents frame after frame, and a font that was asked for loads.
FairSpec ==
    Spec /\ WF_vars(Frame) /\ WF_vars(requested /\ SharedFontLoads /\ UNCHANGED overlay)

-----------------------------------------------------------------------------

(* As long as the GUI is on, the game loses the controller exactly for an  *)
(* overlay that the player sees and can close: input is blocked only if    *)
(* the last frame drew the overlay and it is still up with its window      *)
(* open, and a frame that draws it and leaves it up blocks.  The left      *)
(* stick is only let through a block.  Of a GUI that has been switched     *)
(* off, whose last block nothing lifts, GuiOffReleasesInput speaks.        *)
BlockMatchesOverlay ==
    /\ block /\ enabled => drawn /\ ov.visible /\ ov.open
    /\ drawn /\ ov.visible => block
    /\ left => block

(* Holding + and - toggles the overlay once, however long they are held:   *)
(* g_overlay_toggle_armed is only set again by letting go.                 *)
GestureTogglesOnce == flips <= 1

(* One touch opens the overlay at most once: after a swipe has opened it,  *)
(* hiding it with the finger still down does not open it again.            *)
TouchOpensOnce == opens <= 1

(* "Avoid calling into hid early; wait until the game has completed shell  *)
(* initialization": no gesture is sampled, no window drawn and no input    *)
(* blocked before the shell is up and the configuration is loaded.         *)
NothingBeforeShell ==
    hold > 0 \/ swipe.active \/ drawn \/ block => shell /\ loaded /\ boot.enabled

(* The way out: while the overlay works, a player who holds + and - long   *)
(* enough toggles it, also while the hooks keep these buttons from the     *)
(* game.                                                                   *)
GestureGetsThrough ==
    (built /\ loaded /\ enabled /\ held /\ armed)
        ~> (flips > 0 \/ ~held \/ ~enabled)

(* What the comment on InstallHidHooks says, input is blocked "while the   *)
(* GUI is focused": once the GUI is switched off, the game gets its input  *)
(* back.                                                                   *)
GuiOffReleasesInput == (loaded /\ ~enabled) ~> ~block

=============================================================================
