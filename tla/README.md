# A TLA+ model of d3hack

d3hack is a Nintendo Switch module that is loaded into Diablo III and changes
it from inside: it patches code, hooks functions of the game and of the system
libraries, replaces files that the game would get from a server, and draws an
ImGui overlay over the game's frames. There is one process, with the threads
the game has; the module only runs when one of them calls something it hooked.

This directory models the parts of it that keep state of their own: the
configuration and how it reaches file, window and running game, the overlay,
how it comes up and the input it takes from the game, the files it keeps on the
SD card, the answers of the publisher's server that it replaces, and the
challenge rifts. Every module is checked with TLC, and every safety property that
the passing runs check is proved with TLAPS.

All paths below are relative to `src/source/program/` unless they start with
another directory of `src/`.

## 1. The system

| component | source | state | operations |
|---|---|---|---|
| Atomic file writer | `fs_util.cpp` | a file with its `.tmp` and `.bak` on the SD card | `WriteAllAtomic`, `ReadAll` |
| Configuration | `config.{hpp,cpp}`, `config_schema.*` | `global_config`; the record `PatchConfig` | load at boot, load from a path, normalise, save; the season-to-event map |
| Boot | `main.cpp`, `hook_registry.*` | which hooks are installed | `MainInit` |
| Code patches | `d3/patches.*` | patched instructions; the seasonal gate's flag | patch, unpatch, arm, disarm |
| Runtime apply | `runtime_apply.*` | none of its own: `global_config`, the image, the game's XVars | `ApplyPatchConfigRuntime` |
| Utility, resolution and lobby hooks | `d3/hooks/{util,resolution,lobby}.hpp` | little | callbacks that test `global_config` |
| Config window | `gui2/ui/windows/config_window.cpp` | working copy, dirty mark, two restart banners | widgets; Reload, Revert, Apply, Save |
| Overlay | `gui2/ui/overlay.cpp`, `window.cpp` | visible, focus, windows, layout file | `UpdateFrame`, show/hide, layout save |
| Present hook and gestures | `gui2/imgui_overlay.cpp` | bring-up flags, statics of both gestures | `OnPresent`, once per frame |
| HID block | `gui2/input/hid_block.cpp` | four atomics | the `nn::hid` hooks; the passthrough guard; two setters |
| Challenge rifts | `d3/util.cpp`, `d3/hooks/debug.hpp` | copies on the card, two remembered challenge numbers, players' reward state | callback and parser hooks, reward hooks |
| Publisher files | `d3/hooks/season_events.hpp`, `d3/util.cpp` | copies on the card | three retrieval callbacks |
| NVN hooks | `gui2/backend/nvn_hooks.cpp` | device, queue, command buffer, the window's textures | the wrappers the game calls instead of the driver |
| ImGui memory, fonts | `gui2/memory/`, `gui2/fonts/` | which allocator; the attempt at the font atlas | once per frame until done |
| Notifications, keyboard, translations | `gui2/ui/` | queues and text buffers | per frame |
| Network tag, exceptions, logging, memory | `tagnx.cpp`, `exception_handler.cpp`, `logging.cpp`, `log_once.cpp`, `boot_report.cpp`, ... | little | wrappers |
| exlaunch | `src/source/lib/` | trampoline pool, read-write mappings | hook, patch, relocate |

How they meet:

* `MainInit` loads the configuration and installs hooks and patches by it.
  After that `global_config` changes in one way only: the config window calls
  `ApplyPatchConfigRuntime`, which redoes what can be redone and returns
  whether something has to wait for a restart.
* The config window works on a copy of `global_config` and saves that copy
  through `WriteAllAtomic`; the next boot loads the file.
* The present hook reads the pad, shows and hides the overlay, runs
  its windows and sets two flags; the HID hooks, on the game's threads, read
  these flags. The overlay's own reads go through the same hooks, past them by
  means of a guard.
* The game's start of a game arms the seasonal gate (by `global_config`), an
  apply may disarm it.
* The callback of the weekly challenge reads files, parses them with the
  game's parser, which is hooked too, and hands them to the game. The reward
  hooks use the number that the parser hook has seen last.
* The hooks of the publisher's files run when the game gets an answer from the
  server; they read `global_config` while the present thread may assign it.
* The game creates device, queue, command buffer and windows through wrappers
  of `nvn_hooks.cpp`; `OnPresent` brings ImGui up on what they have
  remembered.
* Every frame ends in `Overlay::AfterFrame`, which saves the window layout
  through `WriteAllAtomic` when ImGui or the overlay has marked a change.

What is hard here: two threads and four atomics without a lock; settings that
are in force from different moments on (at once, from the next boot, only while
another one is on), so that file, window, `global_config`, image and game can
disagree; a configuration that changes field by field under its readers; saves
that nobody asks for and that are retried with every frame; power loss in the middle of a save; an input hook that has to keep
the pad from the game and still hear the gesture that ends it; bring-up steps
that come in many orders; and hooks that see the module's own calls.
`PROJECT.json` lists each place with the property that is about it.

What makes each component correct, in short:

* writer: nothing acknowledged is lost, nothing torn is ever read;
* configuration: saving and loading give what an apply would have put in force;
* runtime apply: what can follow follows, what cannot is reported;
* config window: its marks and banners tell the truth;
* present hook: while the GUI is on, blocked input means that there is an overlay
  to close, and the way to close it works; one gesture does one thing; nothing runs too early;
* HID block: the game gets no more than the flags allow, the overlay gets all;
* layout: no change is forgotten, whatever has failed before;
* numbers: whatever is written or typed, what the hooks read is in bounds, and
  what the player leaves alone stays;
* publisher files: a copy is the server's, what is handed on as good is the
  newest, and the mod's own text is made of values in force at that moment;
* bring-up: nothing runs before what it needs, everything transient is retried,
  and the overlay draws to the window on the screen;
* challenge rifts: without copies, the rift is one of the range in force.

## 2. Modules

    AtomicReplace <--refined by-- AtomicFile <- LayoutFile <- LayoutFileProofs
    PatchConfig <- RuntimeApply <- ConfigSession <- ConfigSessionProofs
                        ^---- RuntimeApplyProofs <----'
    NvnBringup <- OverlayInput <- OverlayInputProofs
    NumberSettings <- NumberSettingsProofs
    HidBlock       <- HidBlockProofs
    PubFiles       <- PubFilesProofs
    ChallengeRift  <- ChallengeRiftProofs

(`A <- B`: B extends A.) Each `MC...` module gives the constants of one module
values for TLC. Definitions keep the names of the code where TLA+ allows.
A definition whose comment begins with "Mutant" is a variant of the one after
it with a plausible mistake; no specification uses it. Each property of a
passing run is violated when one such variant is put in place, so that it does
say something about the code.

**AtomicReplace, AtomicFile.** `WriteAllAtomic` with one action per `nn::fs`
call. Each call may fail, and `PowerLoss` may come between any two; a
failed write may leave the file created, or partly written (`Torn`). Texts are
numbered in the order of the saves. `AtomicReplace` is what a caller
relies on: a register that is replaced in one step, where a save that returns
false has replaced nothing and one cut off by a power loss may have done
either. `AtomicFile` implements it with `Recoverable`, the text under the path
or else under `.bak`, as the register. This says what is on the card, not what is loaded: the loader never
looks at `.bak`, so that after power was lost between the two renames the
defaults are in force although the text is still there. That is why
`BootLoadsNothingStale` (in LayoutFile) has its exception for `Absent`.

**LayoutFile.** `gui_layout.ini` and the automatic saves, on top of AtomicFile's
steps: ImGui's timer and its request (`timer`, `want`), the overlay's
`layout_dirty_`, `layout_loaded_` and `layout_default_applied_`, and a frame in two halves,
`UpdateFrame` with what the user does and `AfterFrame` with the save. A save goes
on call by call (`SaveStep`), and the marks are taken away only when it returns
true. The reset deletes the file, which in `AtomicReplace` is `Discard`, and leaves `.bak`
where it is. What a reset promised outlives the file, so it is kept for the properties:
`wiped`, the newest text made before the last reset that removed the file,
`leftover`, whether that reset left a `.bak`, and `asked`, that the default layout has
been asked for and not yet applied.
`CardRecovers` is the moment from which every call to the card succeeds.

**PatchConfig.** The record. A switch is in `c.on` when it is on; a number that
the rest only compares is a switch too ("not the game's own value"). The season
map is the code's table, all twenty-three seasons of it. `NormalizePatchConfig`
writes the record as a table and reads it back over the defaults, which here
comes down to the season map.

**RuntimeApply.** `MainInit(c)`, `ApplyPatchConfigRuntime(c)`,
`GameCommonDataInit(kind)` and `PowerOff`. `image` is the set of hooks and
patches; `BootImage` says, routine by routine, which ones a configuration
installs, and each restart rule is a pair of `k_restart_rules`. Of hooks that
are installed and tested alike one stands for its kind: `EquipAny` for
callbacks that test their own switch, `MoveSpeed` for those that test their
section, `InstantPortal` for code cheats without an undo. The bytes that carry
the season into the game's code go with the XVar of the same value. `InEffect`
says what a hook in the image does under the configuration now in force, and
`Stale` compares that to a boot. The callbacks of the resolution hooks test
nothing, so that once installed they act (`LiveGate` does not list them). The
height is put under the cap of the game's developer mode, which the source does not
decide: either cap of `OutputCaps` may be met (`BootTargets`). The network tag is installed
if the debug section and `tagnx` are both on, and its rule watches only the
second; `DebugSectionMoved` says that the section is not what it was at boot.

**ConfigSession.** RuntimeApply and the window on top of it: one action per
kind of widget, and one per button. A widget can be used only while its
section is on and the GUI is on. `build_runtime_apply` holds back the `[gui]`
settings. A save here is one step that completes, fails (no change) or is cut
off by a power loss that leaves no readable file; AtomicFile has the steps.

**NumberSettings.** One number of each kind from file to hooks and back: a height
with a cap that depends on the game's developer mode, a percentage with a step
which may be given as a fraction, a pair of bounds, a range of counts, and a factor
with one decimal. `ApplyTable` and `BuildPatchConfigTable` are reader and writer;
the widgets leave in the working copy whatever can be typed into them, wrapped to
`Word` where the code casts to `u32`. The number nan is kept apart from the
others, since `std::clamp` hands it through. A target may also be a text
(`"1080p"`), which is not held to the lower bound: a boot takes it as it is, and
the first Apply or Reload raises it to 720 (`as_booted` in `InForceIsLegal`).

**NvnBringup.** What the wrappers of `nvn_hooks.cpp` remember, in any order of
the game's calls, with windows that are replaced by larger and smaller ones; and
`Bringup`, the part of `OnPresent` before its first drawn frame: allocator and
context, function table, backend, font atlas.

**OverlayInput.** NvnBringup with the rest of `OnPresent`: one action, `Frame`, is
`OnPresent` with everything it calls, in its order; the others are the game's own
calls and the hook that sees the game's shell come up. Every
frame chooses what the player holds, where the finger is, and which widget of the
drawn overlay is used. Three zones of the
touch panel are enough: a swipe starts in one and ends in another. `flips` and
`opens` count for the properties only.

**HidBlock.** Every load, store and read-modify-write of the four atomics is a
step. Game threads run `GetGamepadBlockMode`; the present thread takes and
releases nested guards, sets the flags, and makes reads of its own. `seen`
records the modes that were in force since a call began. The loads with weaker
memory orders add no outcome: depth and owner matter only to the thread that
wrote them, and what a game thread reads of the two flags it could also read by
being scheduled earlier.

**PubFiles.** The three retrieval hooks. A hook runs in steps: create the copy,
write it, or load it if there is no answer; test the switch; build the mod's text
field by field; hand everything to the game. Between any two of them
`ApplyPatchConfigRuntime` may be assigning `global_config`, one field at a time
in any order (`Assign`). A copy may fail to be created, or be written in part.
`answered`, `heard`, `kept`, `seen` are for the properties only.

**ChallengeRift.** `Download` is the server's answer, as the game parses it;
`ChallengeRiftCallback` is the hook that replaces it, with a choice for every
file that may be absent, unreadable or unparseable; `OpenChallengeRift` and
`HandleChallengeRewards` are the reward hooks with the game's code: the second
rearms the player, lets the game's handler run and remember, and makes it forget.
`allowed` is for the property: copies have been allowed at some time.
One server request is under way at a time. That the game gives one reward per
challenge number, and remembers that number in a player's save beyond a
reboot, is the game's and modelled from how the hooks use it. The contents of
`rift_data` are fixed in a run.

## 3. What is checked

Passing runs:

| run | distinct states | what it shows |
|---|---|---|
| `LayoutFile` | 125 518 | for `WriteAllAtomic` with any call failing and power lost between any two: nothing torn is read, nothing acknowledged is lost, and a save is all or nothing for whoever looks at both files (`ImplementsAtomicReplace`); for the layout as its caller: no boot loads a layout older than the last acknowledged, nor, after a reset that left no `.bak`, one from before the reset (`BootLoadsNothingStale`); no change is forgotten (`NothingForgotten`), and once the card works all changes are saved (`EventuallySaved`) |
| `NumberSettings` | 1 045 052 | numbers in force are in their bounds and no pair is upside down, whatever the file says and is typed; a save changes no number the player has left alone (`UntouchedIsKept`, with its three exceptions), and what has once been saved and booted is what every further save and boot gives (`SavedNumbersBoot`) |
| `RuntimeApply` | 230 089 | an undoable patch, the XVars and the gate follow the configuration through any sequence of boots, applies and games; what a restart rule watches and cannot follow has been reported (`NoSilentStaleness`), but for the network tag while the debug section is not what it was at boot |
| `ConfigSessionTheme` | 29 320 | in `MapOnly` mode the game's flags are the season's; what is saved is what boots, and, without the "unsaved" mark, exactly what the window shows |
| `ConfigSessionGui` | 116 680 | without the "unsaved" mark the window shows what is in force; pending `[gui]` changes and the language are announced; an Apply with nothing to apply changes and reports nothing (`CleanApplyIsIdle`) |
| `OverlayInput` | 111 008 | the backend starts on a loaded table and complete objects, the overlay draws to the window on the screen and comes up once it can (liveness); while the GUI is on, input is blocked only by an overlay that the last frame has drawn and that is still open, and a visible one that was drawn blocks; one hold toggles once, one touch opens once; nothing is sampled, drawn or blocked before shell and configuration; the gesture gets through (liveness) |
| `HidBlock` | 817 035 | no game thread is handed more than some mode in force during its call allowed, and exactly the mode if the flags stood still (`StillFlagsDecide`); the present thread reads what its guards say; no check aborts |
| `PubFiles` | 3 310 080 | a copy is the server's and the newest that was written; an error becomes good only by a copy or an override; the mod's text is made of values that were in force during the call, and so is the decision to use it |
| `ChallengeRift` | 1 263 537 | a user who never allows copies is only served rifts of the range in force, whatever files fail and however often the range is changed |

Runs in which TLC finds that the code does other than it says of itself (the
trace is the evidence; `PROJECT.json` quotes the lines):

* `LayoutFileReset`: the reset of the layout clears `layout_loaded_`, but also asks for a
  save, and the save at the end of that frame sets it again, so that unless the save
  fails the default layout is never applied. The other half of `ResetIsForGood` fails
  by itself too: a `.bak` that a save could not delete survives the reset, and when the
  rename of a later save fails, `WriteAllAtomic` moves it back to the path, for the next
  boot to load. `BootLoadsNothingStale` shows that an old layout comes back in no other way.
* `ConfigSessionOverlay`: in `OverlayConfig` mode the season's flags become part
  of the configuration; after the next change of season they count as the
  user's own and stay on, in the file too.
* `OverlayInputGuiOff`: switching the GUI off from inside the overlay skips, from
  then on, the code that would give the game its input back.

Other places where the code and what it says of itself part, found while
modelling and visible in the models' actions, without a run of their own:

* The restart banner (`gui2/ui/windows/config_window.cpp:1500`; `src/README.md:362`)
  is replaced by each apply's own result: an unrelated second apply clears the
  note of a change that still waits.
* The schema (`config_schema.cpp:241`) and the restart rules: `enable_error_traces` and
  `enable_pubfile_dump` are marked `RestartRequired` and have no rule, so that applying a
  change of them reports nothing and installs nothing until a boot. The debug section's
  switch is marked `RuntimeSafe` and decides at boot whether the network tag's hooks are
  installed: the exception in `NoSilentStaleness`.
* Rearming of the rewards (`d3/hooks/debug.hpp:497`; "test runs always begin in an
  eligible state", line 1169) takes one less than the number the parser has seen last. With a
  `config` of `rift_data` the game runs with another number, drawn afterwards, which
  may be the rearmed one; and number 1 is rearmed to 1.
* The target height: the schema's lower bound, 720, is not applied to one given
  as a text (`config_schema.cpp:344`).

The type invariants of the modules (`TypeOK`, `LayoutTypeOK`, `SessionTypeOK`) are
proved for all values of the constants; only OverlayInput's, the largest, is also
checked by a run.

Bounds, and why they are enough:

* `MaxSaves = 4`, `SavingRate = 2` (LayoutFile). An interrupted save can leave `.tmp` or
  `.bak` behind; the next one meets them; a third can fail on them; the state
  of the files then is one that earlier saves could leave too. A timer of two
  frames has a frame in which it runs and one in which it expires.
* Configurations. The rules treat each setting by itself, except for a section and
  its members, two patches with two switches, and mode, season and flags. A run
  varies the settings of such a group together and leaves the rest as they are.
  Two seasons are enough for a change of season and two resolutions for a
  change of resolution; a run with the other seasons would repeat the same
  steps, and the proofs cover them.
* NumberSettings. The groups of numbers do not look at one another, so a file has
  the keys of one group and the window changes one group at a time (`Shown`).
  Numbers typed: a negative one, one inside most bounds, one that is near a usual
  height and above the others' bounds. The file's: below, inside and above each
  bound, nan, and no number. `Word = 2^16` stands for `2^32`; every bound of the
  code is below it.
* `HoldFrames = 2` (1 in the violation run): a hold that is too short, one that
  is just long enough, and one that goes on. Two slots for textures, windows of
  one texture and of three, two windows: smaller than the slots, larger, and each
  replaced by the other.
* Two game threads, `MaxNest = 2`. The code takes its guards one at a time, but
  the guard is written to nest, and two show an inner and an outer one. Game
  threads do not act on one another; the proofs are for any number and depth.
  Their symmetry is used; all properties of that run are safety properties.
* PubFiles: two texts of the server (an old and a new one), two configurations that
  differ in every field, one event flag. The fields are read one by one in the same way.
* ChallengeRift: three indexes of which two have a file, three numbers (0 is "none",
  1 is the boundary of the rearming, 2 is above it), one player (the hooks treat each
  alike), four configurations: with copies; without, a random rift of the first
  two or just the last; and off. A range that has no file, and a file outside of each
  range, are among them.

Fairness. The game presents frame after frame for as long as it runs: weak
fairness of `Frame` in OverlayInput, and of `PresentThread`, a half of a frame or
the next call of a save, in LayoutFile. The system loads the shared font once it
has been asked for it. Nothing is assumed of the player, of the order or time of the
game's calls, or of the card: `EventuallySaved` is about a card that works from
some moment on (`sound`), whatever it did before. No run switches deadlock checking off.

## 4. What is proved

Each `...Proofs` module proves an inductive invariant of its module,
for every value of the constants that the named assumptions allow, and the
properties from it; `PROJECT.json` lists the theorems.

* **LayoutFileProofs**, first for AtomicFile. The properties are not inductive,
  since what a half-done save has changed is only known with the step it is at.
  `Progress` adds this: up to the second rename the old text is recoverable and
  older than the new one, `.tmp` holds the whole new text from the write to the
  rename, and after it the path does. `Ordered` relates the text acknowledged,
  the recoverable one and the last. `Refinement` maps each step to a step of
  `AtomicReplace` or to a stutter; only the move of `.tmp` into place is `Replace`.
  Then for LayoutFile: every step of it is a step of AtomicFile, a deletion or
  none, so the same invariant holds (`LayoutPromises`, `LayoutRefinement`), and
  `MarkInv` and `RetryInv` say which mark stands for which unsaved change,
  `WipeInv` what the last reset has left behind: if it left no `.bak`, every text
  on the card is newer, and `BootIsFresh` follows. `RegisterPromises` is about the
  abstract side: `AtomicReplace` alone, whoever implements it, implies that what was
  acknowledged survives. The safety half of `EventuallySaved` is proved as well:
  a save ends after at most twelve calls (`SaveEnds`, by a rank on its steps), and
  one that starts on a card that works succeeds, whatever earlier failures left in its way
  (`SoundSaveSucceeds`; `OnItsWay` is what it needs at each step).
  Assumptions: `MaxSaves` and `SavingRate` are positive.
* **RuntimeApplyProofs.** The conjunction of the properties is inductive, the
  central one being `NoSilentStaleness`: if a feature was in step before an
  apply and no note is reported for it, the two configurations agree on the switches it
  depends on (`RulesCover`), so that it is in step after it. `BootImageTracked`
  says which switches these are. The network tag depends on one more, the debug
  section, so that it has a part of its own (`TagNxTracked`, `ApplyTagNx`).
  `ReapplyDoesNothing` rests on the gate and the XVars already following the
  configuration in force. Assumption: `Configs` are well-typed.
* **ConfigSessionProofs.** First that every step of the window is a step of
  RuntimeApply or leaves it alone (`SessionImplementsRuntimeApply`), so
  that the four invariants above, `ArmedOnlyBySpawn` and `ReapplyIsIdle` carry over
  (`ClicksKeepTheRuntimeSound`). The invariant adds that the
  configuration in force is always normalised (`GlobalIsNormal`), which rests on
  `NormalizeIdempotent` and on the held-back settings taking no part in
  the season map. `CleanIsNormal` says that a clean working copy is normalised too, so
  that applying it changes nothing (`SecondApplyIsIdle`, from `ReapplyStep`).
  Assumption: `Configs` is closed under what the code does
  to a configuration.
* **NumberSettingsProofs.** `TableIsLegal`: reading any table over the defaults
  gives legal numbers, because each setter keeps `SchemaLegal` and a pair is put in
  order last. Whatever the widgets leave in the working copy is a table again
  (`RecordIsATable`), without a text, so that what is applied is legal
  and above the target's lower bound. `UntouchedKept` rests on a second invariant:
  `KeptInv` says for each number the player has left alone what the working copy and
  the configuration in force still have of the file. Number by number, what is
  legal comes back from a table as it was (`HandheldStays`, `ScalesStay`,
  `RangeStays`, `SpeedStays`); so normalising loses nothing (`NormalizingKeeps`),
  and what is saved says the same as the file before (`SavingKeeps`). The target and
  the factor are why `KeptInv` is weaker than equality: a target from 1440 on depends on
  the developer mode at the time, one below 720 is as good as 720, and a
  factor may already have lost its decimals. `SavedNumbersStay` is the fixed point of the
  same lemmas: normalising twice is normalising once (`NormalizingTwice`). Assumption: the file's entries are numbers, nan,
  a text below `Word` or nothing.
* **OverlayInputProofs.** The invariant adds the order of the bring-up, the
  textures of the last window (`SwapchainInv`), that a
  visible overlay has its window open, that input is blocked only after a frame has
  been drawn, and that a gesture that has acted is not
  armed again before it ends. `SwipeStep`, `UseStep` and `UiStep` follow the
  stages of a frame. The safety halves of the two liveness properties are proved too: once the
  game has what the overlay needs a single frame brings it up as far as the font
  allows, because the flag of the one attempt is never set without an atlas
  (`AttemptCounts`, `OneFrameIsEnough`), and each frame of a hold counts or toggles
  (`EveryFrameCounts`). Assumptions: `HoldFrames` and the slots are positive, a window
  has at least one texture.
* **HidBlockProofs.** `GuardInv` gives depth and owner for each step of the guard,
  `PresentInv` what the present thread has loaded and why that still holds, and
  `ReaderInv` what each reader has seen so far; together they show that a game
  thread that reads an owner never finds itself. `BlockedInv` is the converse of
  `ReaderInv`, what a reader must have seen to have loaded a block; with it a call during
  which the flags stand still gets exactly their mode. Assumptions: the threads and
  the token 0 are distinct, `MaxNest` is positive.
* **PubFilesProofs.** `TextInv` and `ResultInv` say for each step of a hook where the
  text and the result in hand come from, `SeenInv` that `seen` holds every value
  its fields have had. Assumption: `Configs` assign a value to each field.
* **ChallengeRiftProofs.** `RiftInv` adds that, as long as copies have never been
  allowed, the card has none, so that what the callback picks is a file of the range or what the
  server sent. Assumption: rifts and numbers are natural, 0 and 1 among the numbers.

Proved and not run, since a run could only repeat it: `FailedSaveKeepsOldText`,
`ArmedOnlyBySpawn`, `ReapplyIsIdle` (`CleanApplyIsIdle` is its form in the window),
`GuiSettingsAreBootLatched` and the type invariants named above.

Only model-checked: the three liveness properties (`EventuallySaved`,
`GestureGetsThrough`, `OverlayComesUp`). They follow from weak fairness, whose definition
contains ENABLED, which this prover does not expand; two of them also count down
a constant, which is an induction. Their safety halves, that each step does
its part and none undoes it, are proved.

## 5. What is not modelled

Of about 58 000 lines more than two thirds are declarations: the game's
types (`d3/types/`), the headers of NVN and of the system (`src/include/`). They
have no behaviour, and no definition here stands for them. Of the rest:

* The race of an apply with the start of a game (`d3/patches.cpp:43`): each is a
  step. Both write one instruction, which the processor reads whole.
* Strings of `global_config` that are read while they are assigned: undefined in
  C++. The hooks of PubFiles read none.
* Of the numbers: the aliases of keys, the extra display numbers, the texture
  clamp, the loot numbers and the season's number, which go through the same
  readers. A season given as nan becomes 0, below its minimum of 1.
* The season tags that the reward hooks set around a save and a grant.
* The window's layout, scrolling and docked swipe; the translation of pad, touch,
  mouse and keyboard into ImGui events; fonts' contents; cropping and drawing.
* What callbacks compute about the game's own data (item rolls, display modes,
  traces), and the instructions that a patch writes.
* Code that cannot run: the texture hooks of `d3/hooks/nvn.hpp` and
  `GfxGetDesiredDisplayModeHook`, which nothing installs; the rebuild of a font
  atlas once built; the early return of the publisher's hooks for a
  configuration that is not loaded.
* The file systems themselves. `nn::fs::CreateFile` refuses an existing file, and
  what it makes has its size and not yet its text; a write may stop anywhere; a
  rename is atomic. The game's `FileCreate`, used for the copies, is taken to
  empty a file that exists.
* Lobby hooks, tag spoofing, exception handler, logging, memory wrappers,
  translations, notifications, keyboard: constants, output, wrappers or the state of one thread,
  with no protocol between them. Where installation depends on the
  configuration it is in RuntimeApply.
* exlaunch, loader, relocation table: shared with other projects.

## 6. What is left

1. **RiftRewards**: a tag is put back on every way out of the reward hooks.
2. **SeasonalGate**: arming and disarming by two threads, step by step, against the
   flag and the patched instruction.
3. **Notifications**: the queue and its timers.
4. **exlaunch**: trampoline pool and read-write mappings.
