--------------------------- MODULE NumberSettings ---------------------------
(***************************************************************************)
(* The numbers of the configuration, from the file or the window's widgets *)
(* to global_config and back to the file (config.cpp, config_schema.cpp,   *)
(* config_window.cpp).  The file is written by hand, so that a key may be  *)
(* missing or give any number; most widgets let any number be typed, too.  *)
(*                                                                         *)
(* The record has one number of each kind: a count capped by the state of  *)
(* the game (target), percentages with a step (handheld) and in a pair     *)
(* (min_scale, max_scale), a pair of counts (range_start, range_end), and  *)
(* a factor (move_speed).  handheld and move_speed are in hundredths.      *)
(* ConfigSession has the windows' marks and the rest of the settings.      *)
(***************************************************************************)
EXTENDS Integers

CONSTANTS
    None,       \* a key that the file does not have, or that is not a number
    NaN,        \* the number nan, which TOML has
    Word,       \* u32 numbers are below Word
    Files,      \* what the file may say
    Typed,      \* the numbers that the player types or slides to
    Shown(_)    \* bound: the working copies that are explored

Keys == {"target", "handheld", "min_scale", "max_scale",
         "range_start", "range_end", "move_speed"}

\* The target may also be given as a text: "1080p", "4k", or any digits.
FileKeys == Keys \cup {"target_text"}

ASSUME NumbersAssumption ==
    /\ None \notin Int /\ NaN \notin Int /\ None # NaN
    /\ Word \in Int /\ Word > 9999
    /\ Typed \subseteq Int /\ \A v \in Typed : -Word < v /\ v < Word
    /\ Files \subseteq [FileKeys -> Int \cup {None, NaN}]
    /\ \A t \in Files : t.target_text \in (1..Word - 1) \cup {None}

VARIABLES
    running,    \* the game runs, and the window has been opened
    dev_mem,    \* *g_ptDevMemMode # 0
    file,       \* the numbers in config.toml
    global,     \* global_config
    cfg,        \* Overlay::ui_config_, the working copy
    \* observation only
    touched,    \* what the player has changed in the window
    as_booted   \* global is what the boot has made of the file

vars == <<running, dev_mem, file, global, cfg, touched, as_booted>>

\* The member initialisers of PatchConfig.
Defaults ==
    [target |-> 1080, handheld |-> 8000, min_scale |-> 85, max_scale |-> 100,
     range_start |-> 0, range_end |-> 20, move_speed |-> 250]

(***************************************************************************)
(* Reading a number                                                        *)
(***************************************************************************)
\* std::clamp, for which nan is between any two numbers.
Clamp(v, lo, hi) == IF v = NaN THEN NaN ELSE IF v < lo THEN lo ELSE IF v > hi THEN hi ELSE v

\* static_cast<u32> of a number between -Word and Word: a negative one wraps,
\* and nan becomes what the processor makes of it.
ToU32(v) == IF v = NaN THEN 0 ELSE IF v < 0 THEN v + Word ELSE v

ReadU32(v, fallback, lo, hi) == IF v = None THEN fallback ELSE ToU32(Clamp(v, lo, hi))

ReadDouble(v, fallback, lo, hi) == IF v = None THEN fallback ELSE Clamp(v, lo, hi)

Round1Decimal(v) == IF v = NaN THEN NaN ELSE ((v + 5) \div 10) * 10

(***************************************************************************)
(* The schema's setters, which take what is finite and clamped             *)
(***************************************************************************)
kMaxDefault == 1440
kMaxDevMem == 2160

MaxResolutionHackOutputTarget == IF dev_mem THEN kMaxDevMem ELSE kMaxDefault

SetReshackOutputTarget(c, v) ==
    [c EXCEPT !.target = IF v < MaxResolutionHackOutputTarget THEN v
                         ELSE MaxResolutionHackOutputTarget]

\* Mutant: adds a whole step before it cuts to steps, not half of one.
NormalizeHandheldScaleUp(v) ==
    IF v <= 0 THEN 0 ELSE Clamp(((Clamp(v, 4000, 10000) + 500) \div 500) * 500, 4000, 10000)

NormalizeHandheldScale(v) ==
    IF v <= 0 THEN 0 ELSE Clamp(((Clamp(v, 4000, 10000) + 250) \div 500) * 500, 4000, 10000)

\* Up to 1 the number is a fraction, above it a percentage.
SetReshackOutputHandheldScale(c, v) ==
    [c EXCEPT !.handheld = NormalizeHandheldScale(IF v > 0 /\ v <= 100 THEN v * 100 ELSE v)]

SetReshackMinResScale(c, v) ==
    LET low == Clamp(v, 10, 100)
    IN  [c EXCEPT !.min_scale = low, !.max_scale = IF @ < low THEN low ELSE @]

\* Mutant: the lower bound stays where it is.
SetReshackMaxResScaleAlone(c, v) == [c EXCEPT !.max_scale = Clamp(v, 10, 100)]

SetReshackMaxResScale(c, v) ==
    LET high == Clamp(v, 10, 100)
    IN  [c EXCEPT !.max_scale = high, !.min_scale = IF high < @ THEN high ELSE @]

Finite(v) == v \notin {None, NaN}

\* A text counts when no number is there, and is not clamped.
ApplyOutputTarget(c, t) ==
    IF Finite(t.target) THEN SetReshackOutputTarget(c, Clamp(t.target, 720, 2160))
    ELSE IF t.target = None /\ t.target_text # None THEN SetReshackOutputTarget(c, t.target_text)
    ELSE c

\* The entries of the schema in its order; the older settings follow.
ApplyTomlTable(c, t) ==
    LET a == ApplyOutputTarget(c, t)
        b == IF Finite(t.handheld)
             THEN SetReshackOutputHandheldScale(a, Clamp(t.handheld, 0, 10000)) ELSE a
        d == IF Finite(t.min_scale) THEN SetReshackMinResScale(b, Clamp(t.min_scale, 10, 100)) ELSE b
    IN  IF Finite(t.max_scale) THEN SetReshackMaxResScale(d, Clamp(t.max_scale, 10, 100)) ELSE d

\* PatchConfig::ApplyTable on a record that has its defaults.
ApplyTable(t) ==
    LET c == ApplyTomlTable(Defaults, t)
        start == ReadU32(t.range_start, c.range_start, 0, 999)
        end == ReadU32(t.range_end, c.range_end, 0, 999)
    IN  [c EXCEPT !.range_start = IF start > end THEN end ELSE start,
                  !.range_end = IF start > end THEN start ELSE end,
                  !.move_speed = ReadDouble(t.move_speed, @, 10, 1000)]

\* Mutant: the range is not written.
BuildPatchConfigTableWithoutRange(c) ==
    [k \in FileKeys |-> IF k \in Keys \ {"range_start", "range_end"} THEN c[k] ELSE None]

\* Every key, as it is, except that the factor gets one decimal.
BuildPatchConfigTable(c) ==
    [k \in FileKeys |-> IF k = "target_text" THEN None
                        ELSE IF k = "move_speed" THEN Round1Decimal(c[k]) ELSE c[k]]

NormalizePatchConfig(c) == ApplyTable(BuildPatchConfigTable(c))

(***************************************************************************)
(* Boot, and the file while the game is off                                *)
(***************************************************************************)
Init ==
    /\ running = FALSE /\ dev_mem = FALSE
    /\ file \in Files
    /\ global = Defaults /\ cfg = Defaults
    /\ touched = {} /\ as_booted = TRUE

\* LoadPatchConfig, and the first frame, which copies global_config.
Boot ==
    /\ ~running /\ running' = TRUE
    /\ global' = ApplyTable(file) /\ cfg' = global'
    /\ touched' = {} /\ as_booted' = TRUE
    /\ UNCHANGED <<dev_mem, file>>

PowerOff ==
    running /\ running' = FALSE /\ UNCHANGED <<dev_mem, file, global, cfg, touched, as_booted>>

EditFile ==
    /\ ~running /\ file' \in Files
    /\ UNCHANGED <<running, dev_mem, global, cfg, touched, as_booted>>

\* The game's own flag, which it sets when it pleases.
SetDevMem ==
    dev_mem' = ~dev_mem /\ UNCHANGED <<running, file, global, cfg, touched, as_booted>>

(***************************************************************************)
(* The window                                                              *)
(***************************************************************************)
Widget(c, keys) ==
    /\ running /\ Shown(c)
    /\ cfg' = c /\ touched' = touched \cup keys
    /\ UNCHANGED <<running, dev_mem, file, global, as_booted>>

Distance(a, b) == IF a < b THEN b - a ELSE a - b

\* The nearest of the usual heights, when it is near.
SnapOutputTarget(v) ==
    LET near == {t \in {720, 900, 1080, 1440, 1800, 2160} : Distance(v, t) <= 20}
    IN  IF near = {} THEN v ELSE CHOOSE t \in near : TRUE

\* The u32 as the slider's int.
AsInt(v) == IF 2 * v < Word THEN v ELSE v - Word

EditTarget(v) == Widget([cfg EXCEPT !.target = ToU32(SnapOutputTarget(v))], {"target"})

\* Drawing the slider lowers a target above what it goes up to.
RenderTarget ==
    /\ AsInt(cfg.target) > MaxResolutionHackOutputTarget
    /\ Widget([cfg EXCEPT !.target = MaxResolutionHackOutputTarget], {})

\* The box "auto", and the slider, which does clamp.
EditHandheld(v) ==
    \/ cfg.handheld > 0 /\ Widget([cfg EXCEPT !.handheld = 0], {"handheld"})
    \/ cfg.handheld <= 0 /\ Widget([cfg EXCEPT !.handheld = 8000], {"handheld"})
    \/ /\ cfg.handheld > 0
       /\ Widget([cfg EXCEPT !.handheld = NormalizeHandheldScale(Clamp(v, 4000, 10000))],
                 {"handheld"})

EditScales(v) ==
    \/ Widget([cfg EXCEPT !.min_scale = v, !.max_scale = IF v > @ THEN v ELSE @],
              {"min_scale", "max_scale"})
    \/ Widget([cfg EXCEPT !.max_scale = v, !.min_scale = IF v < @ THEN v ELSE @],
              {"min_scale", "max_scale"})

\* Which end is which is only settled when the range is applied or saved.
EditRange(v) ==
    \E end \in {"range_start", "range_end"} :
       Widget([cfg EXCEPT ![end] = IF v < 0 THEN 0 ELSE v], {"range_start", "range_end"})

EditSpeed(v) == Widget([cfg EXCEPT !.move_speed = v], {"move_speed"})

\* Reload and Apply both take in a normalised record.
TakeIn(c) ==
    /\ running /\ global' = c /\ cfg' = c /\ as_booted' = FALSE
    /\ UNCHANGED <<running, dev_mem, file>>

Reload == TakeIn(NormalizePatchConfig(ApplyTable(file))) /\ touched' = {}

Apply == TakeIn(NormalizePatchConfig(cfg)) /\ UNCHANGED touched

Revert ==
    running /\ cfg' = global /\ UNCHANGED <<running, dev_mem, file, global, touched, as_booted>>

SavePatchConfigToPath == file' = BuildPatchConfigTable(NormalizePatchConfig(cfg))

Save ==
    /\ running /\ SavePatchConfigToPath
    /\ UNCHANGED <<running, dev_mem, global, cfg, touched, as_booted>>

Next ==
    \/ Boot \/ PowerOff \/ EditFile \/ SetDevMem
    \/ \E v \in Typed : \/ EditTarget(v) \/ EditHandheld(v) \/ EditScales(v)
                        \/ EditRange(v) \/ EditSpeed(v)
    \/ RenderTarget \/ Reload \/ Apply \/ Revert \/ Save

Spec == Init /\ [][Next]_vars

(***************************************************************************)
(* Properties                                                              *)
(***************************************************************************)

\* "Auto", or 40 to 100 percent in steps of five.
HandheldSteps == {0} \cup {500 * n : n \in 8..20}

Legal(c) ==
    /\ c.target \in 1..kMaxDevMem
    /\ c.handheld \in HandheldSteps
    /\ c.min_scale \in 10..100 /\ c.max_scale \in c.min_scale..100
    /\ c.range_start \in 0..999 /\ c.range_end \in c.range_start..999
    /\ c.move_speed \in (10..1000) \cup {NaN}

\* Whatever the file says and whatever is typed, in whatever order the two
\* ends of a pair are moved: the numbers that the hooks read are in their
\* bounds, and no pair is upside down.  (A factor that the file gives as nan
\* stays nan: only the schema's reader asks whether a number is finite.)  The
\* lower bound of the target holds from the first Apply or Reload on: a boot
\* takes a target that is given as a text as it is.
InForceIsLegal == Legal(global) /\ (as_booted \/ global.target >= 720)

\* A save from the window changes no number in the file that the player has
\* left alone, through any number of edits of the others, applies, reverts and
\* earlier saves.  There are three exceptions: a target that needs the developer
\* mode is lost or comes back with it, one below 720 is raised to it, and a
\* factor gets one decimal.
UntouchedIsKept ==
    [][running /\ file' # file =>
         \A k \in Keys \ touched :
            LET before == ApplyTable(file)[k]
                after == ApplyTable(file')[k]
            IN  \/ after = before
                \/ k = "target" /\ (before > kMaxDefault \/ after > kMaxDefault)
                \/ k = "target" /\ before < 720 /\ after = 720
                \/ k = "move_speed" /\ after = Round1Decimal(before)]_vars

\* What a save writes is read as what Apply would put in force: normalising,
\* writing and reading once more change none of the numbers, so that neither
\* a restart nor a second save moves them.  (The game's developer mode may be
\* another one by then, and with it the cap of the target.)
SavedNumbersBoot == [][Save => ApplyTable(file') = NormalizePatchConfig(cfg)]_vars
=============================================================================
