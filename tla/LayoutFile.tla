----------------------------- MODULE LayoutFile -----------------------------
(***************************************************************************)
(* gui_layout.ini: the overlay's window layout and theme, from the user's  *)
(* change to the SD card (gui2/ui/overlay.cpp).  Unlike config.toml it is  *)
(* saved without anybody asking: every frame ends in AfterFrame, which     *)
(* calls WriteAllAtomic when something is marked, takes the marks away     *)
(* only when that succeeds, and so tries again with every frame; and the   *)
(* user may have the file deleted, which no save does.                     *)
(*                                                                         *)
(* ImGui (external) marks a moved window by a timer, counts it down at the *)
(* start of a frame and asks for a save when it expires; handing out the   *)
(* settings text stops the timer.                                          *)
(***************************************************************************)
EXTENDS AtomicFile

CONSTANT SavingRate     \* frames from the first change to ImGui's request

ASSUME SavingRateAssumption == SavingRate \in Nat \ {0}

VARIABLES
    gui,                \* imgui_render_enabled: frames are rendered
    phase,              \* which half of the frame comes next
    timer,              \* ImGui's SettingsDirtyTimer, in frames
    want,               \* io.WantSaveIniSettings
    dirty,              \* layout_dirty_
    layout_loaded,      \* layout_loaded_
    default_applied,    \* layout_default_applied_
    \* observation only
    unsaved,            \* changed since the last text was made
    sound,              \* from now on every call to the card succeeds
    wiped,              \* the newest text made before the last reset that left no file
    leftover,           \* that reset left a ".bak"
    asked               \* a reset has asked for the default layout, none applied since

marks == <<timer, want, dirty>>
flags == <<layout_loaded, default_applied>>
overlay == <<gui, phase, marks, flags, unsaved>>
resets == <<wiped, leftover, asked>>
layoutVars == <<vars, overlay, sound, resets>>

LayoutTypeOK ==
    /\ TypeOK
    /\ phase \in {"update", "after"}
    /\ timer \in 0..SavingRate
    /\ {gui, want, dirty, layout_loaded, default_applied} \subseteq BOOLEAN
    /\ {unsaved, sound, leftover, asked} \subseteq BOOLEAN
    /\ wiped \in 0..MaxSaves
    /\ unsaved => text < MaxSaves

LayoutInit ==
    /\ Init
    /\ gui = FALSE /\ phase = "update"
    /\ timer = 0 /\ want = FALSE /\ dirty = FALSE
    /\ layout_loaded = FALSE /\ default_applied = FALSE
    /\ unsaved = FALSE /\ sound = FALSE
    /\ wiped = 0 /\ leftover = FALSE /\ asked = FALSE

\* The file is read when the ImGui context is made, which also clears the
\* marks and the flags; LoadPatchConfig of AtomicFile does the same reading.
OnImGuiContextCreated ==
    /\ LoadPatchConfig
    /\ gui' \in BOOLEAN
    /\ layout_loaded' = (loaded' # Absent)
    /\ UNCHANGED <<phase, marks, default_applied, unsaved, sound, resets>>

should_apply_default_layout == ~layout_loaded /\ ~default_applied

\* DeleteLayoutFile: whether there is a file to delete, and whether that works,
\* is not looked at, and ".bak" is left where it is.
DeleteLayoutFile ==
    /\ DeleteFile(path, path')
    /\ wiped' = IF path' = Absent THEN text ELSE wiped
    /\ leftover' = IF path' = Absent THEN bak # Absent ELSE leftover
    /\ acked' = IF path' = path THEN acked ELSE 0
    /\ outcome' = "none"
    /\ UNCHANGED <<tmp, bak, pc, text, loaded, before>>

Inputs == {"none", "move", "theme", "save", "reset"}

\* The first half of a frame, with at most one thing the user does: move a
\* window, choose a theme, ask for a save or for the default layout.
UpdateFrame(input, visible) ==
    LET expires == timer = 1
        applies == visible /\ should_apply_default_layout
        changes == input # "none" \/ applies
    IN  /\ pc = "idle" /\ gui /\ phase = "update"
        /\ changes => text < MaxSaves
        /\ input # "none" => visible
        /\ IF input = "reset" THEN DeleteLayoutFile ELSE UNCHANGED <<vars, wiped, leftover>>
        /\ asked' = ((asked \/ input = "reset") /\ ~applies)
        /\ timer' = IF timer > 1 THEN timer - 1
                    ELSE IF input = "move" THEN SavingRate ELSE 0
        /\ want' = (want \/ expires \/ input \in {"save", "reset"})
        /\ dirty' = (dirty \/ input \in {"theme", "save", "reset"} \/ applies)
        /\ layout_loaded' = (layout_loaded /\ input # "reset")
        /\ default_applied' = (applies \/ (default_applied /\ input # "reset"))
        /\ unsaved' = (unsaved \/ changes)
        /\ phase' = "after"
        /\ UNCHANGED <<gui, sound>>

\* Mutant: the marks are taken away when the text has been made.
AfterFrameClearsEarly ==
    /\ pc = "idle" /\ phase = "after"
    /\ phase' = "update"
    /\ IF dirty \/ want
       THEN /\ SaveText(IF unsaved THEN text + 1 ELSE text)
            /\ unsaved' = FALSE
            /\ timer' = 0 /\ want' = FALSE /\ dirty' = FALSE
       ELSE UNCHANGED <<vars, marks, unsaved>>
    /\ UNCHANGED <<gui, flags, sound, resets>>

\* The second half: nothing marked, no memory for the text, or a save.  A text
\* that is tried again has the number it had.
AfterFrame ==
    /\ pc = "idle" /\ phase = "after"
    /\ phase' = "update"
    /\ IF dirty \/ want
       THEN /\ timer' = 0
            /\ \/ SaveText(IF unsaved THEN text + 1 ELSE text) /\ unsaved' = FALSE
               \/ ~sound /\ UNCHANGED <<vars, unsaved>>
       ELSE UNCHANGED <<vars, timer, unsaved>>
    /\ UNCHANGED <<gui, want, dirty, flags, sound, resets>>

\* What a card without faults does with the call that WriteAllAtomic is at.
CardWorks ==
    /\ pc \in {"DeleteTmp", "Cleanup"} => tmp' = Absent
    /\ pc \in {"DeleteBak", "Finish"} => bak' = Absent
    /\ pc \in {"EnsureDirs", "OpenTmp", "WriteTmp"} => pc' \notin {"idle", "Cleanup"}
    /\ pc = "CreateTmp" /\ tmp = Absent => pc' = "OpenTmp"
    /\ pc = "CheckPath" => (pc' = "DeleteBak" <=> path # Absent)
    /\ pc = "Backup" /\ RenameOk(path, bak) => pc' = "Install"
    /\ pc = "Install" /\ RenameOk(tmp, path) => pc' = "Finish"
    /\ pc = "Restore" /\ RenameOk(bak, path) => bak' = Absent

\* Mutant: any end of a save takes the marks away.
SaveStepClearsAlways ==
    /\ Step
    /\ sound => CardWorks
    /\ IF pc' = "idle"
       THEN want' = FALSE /\ dirty' = FALSE /\ layout_loaded' = TRUE
       ELSE UNCHANGED <<want, dirty, layout_loaded>>
    /\ UNCHANGED <<gui, phase, timer, default_applied, unsaved, sound, resets>>

\* One step of WriteAllAtomic; AfterFrame goes on when it returns.
SaveStep ==
    /\ Step
    /\ sound => CardWorks
    /\ IF pc' = "idle" /\ outcome' = "saved"
       THEN want' = FALSE /\ dirty' = FALSE /\ layout_loaded' = TRUE
       ELSE UNCHANGED <<want, dirty, layout_loaded>>
    /\ UNCHANGED <<gui, phase, timer, default_applied, unsaved, sound, resets>>

\* The user switches the GUI off; it cannot be switched on again until the
\* next start.
SwitchOff ==
    /\ pc = "idle" /\ phase = "update" /\ gui
    /\ gui' = FALSE
    /\ UNCHANGED <<vars, phase, marks, flags, unsaved, sound, resets>>

\* Everything in memory is gone, and with it what was not saved or applied.
LayoutPowerLoss ==
    /\ PowerLoss
    /\ gui' = FALSE /\ phase' = "update"
    /\ timer' = 0 /\ want' = FALSE /\ dirty' = FALSE
    /\ layout_loaded' = FALSE /\ default_applied' = FALSE
    /\ unsaved' = FALSE /\ asked' = FALSE
    /\ UNCHANGED <<sound, wiped, leftover>>

CardRecovers == ~sound /\ sound' = TRUE /\ UNCHANGED <<vars, overlay, resets>>

LayoutNext ==
    \/ OnImGuiContextCreated
    \/ \E input \in Inputs, visible \in BOOLEAN : UpdateFrame(input, visible)
    \/ AfterFrame \/ SaveStep \/ SwitchOff \/ LayoutPowerLoss \/ CardRecovers

LayoutSpec == LayoutInit /\ [][LayoutNext]_layoutVars

\* The present thread goes on presenting, and a save it has called goes on.
PresentThread ==
    \/ \E input \in Inputs, visible \in BOOLEAN : UpdateFrame(input, visible)
    \/ AfterFrame \/ SaveStep

FairLayoutSpec == LayoutSpec /\ WF_layoutVars(PresentThread)

(***************************************************************************)
(* Properties                                                              *)
(***************************************************************************)

\* As long as something is not on the card, something is marked: a change
\* since the last text, or a text whose save failed, is never forgotten,
\* whichever of the marks and the timer announced it.
NothingForgotten ==
    pc = "idle" /\ phase = "update" /\ (unsaved \/ outcome = "failed")
        => timer > 0 \/ want \/ dirty

\* A start comes up with no layout, or with one no older than the last that
\* was reported as saved and, once a reset has removed the file, none from
\* before the reset, whatever saves fail after it: not even a ".bak" that an
\* earlier save could not delete comes back, unless it was there at the reset.
BootLoadsNothingStale ==
    outcome = "booted" /\ pc = "idle" /\ loaded # Absent
        => loaded >= acked /\ (loaded > wiped \/ leftover)

\* overlay.cpp:818 offers to "Reset GUI layout to defaults?".  Until a frame has
\* applied the default layout the overlay goes on meaning to; and once the file
\* has been removed, no start loads a layout from before the reset, not even one
\* that an earlier save has left as ".bak".  (What ConfigWindow asks for in the
\* frame of the reset itself is for windows ImGui has never seen,
\* ImGuiCond_FirstUseEver, and comes before AfterFrame has ImGui forget the old
\* layout.)
ResetIsForGood ==
    /\ asked => should_apply_default_layout
    /\ outcome = "booted" /\ pc = "idle" /\ loaded # Absent => loaded > wiped

\* Whatever earlier attempts have failed at and left on the card, once the
\* card works every change is saved, unless power is lost or the GUI is off.
EventuallySaved ==
    sound /\ gui /\ (unsaved \/ outcome = "failed")
        ~> (~unsaved /\ outcome = "saved") \/ ~gui
=============================================================================
