-------------------------- MODULE LayoutFileProofs --------------------------
(***************************************************************************)
(* Proofs about WriteAllAtomic and about the layout, its caller, for every *)
(* number of texts.                                                        *)
(***************************************************************************)
EXTENDS LayoutFile, TLAPS

(***************************************************************************)
(* WriteAllAtomic.  The properties of AtomicFile are not inductive: what a *)
(* half-finished save has done so far is only known together with the step *)
(* it has reached.                                                         *)
(***************************************************************************)
\* The steps that run between the written temp file and its move into place.
Written == {"CheckPath", "DeleteBak", "Backup", "Install"}

\* While a save runs, a recovery still finds the text that was there before,
\* until the second rename; then it finds the new one.
Progress ==
    /\ pc \in Steps \ {"Finish"} => Recoverable = before /\ before < text /\ acked < text
    /\ pc = "Finish" => path = text
    /\ pc \in Written => tmp = text
    /\ pc \in {"DeleteBak", "Backup"} => path # Absent

Ordered ==
    /\ Recoverable >= acked
    /\ Recoverable <= text
    /\ acked <= text
    /\ pc \in Steps => 0 < text

IndInv ==
    /\ TypeOK
    /\ NoTornFile
    /\ Ordered
    /\ Progress
    /\ FailedSaveKeepsOldText
    /\ BootIsNoOlder

\* The initial card, empty or with the user's own file, satisfies the invariant.
LEMMA InitInv == Init => IndInv
BY MaxSavesAssumption
   DEF Init, IndInv, TypeOK, NoTornFile, Ordered, Progress, FailedSaveKeepsOldText, BootIsNoOlder,
          Recoverable, Absent, Torn, Whole, Steps, Written, files

\* Every call, every step of WriteAllAtomic, failing or not, every power loss
\* and every boot preserves it.
LEMMA NextInv == IndInv /\ [Next]_vars => IndInv'
<1> SUFFICES ASSUME IndInv, [Next]_vars PROVE IndInv'
    OBVIOUS
<1> USE MaxSavesAssumption
    DEF IndInv, TypeOK, NoTornFile, Ordered, Progress, FailedSaveKeepsOldText, BootIsNoOlder,
          Recoverable, Absent, Torn, Whole, Steps, Written, files
<1>1. CASE Call
    BY <1>1 DEF Call, SaveText
<1>2. CASE EnsureConfigRootDirs
    BY <1>2 DEF EnsureConfigRootDirs, Goto, Return
<1>3. CASE DeleteTmp
    BY <1>3 DEF DeleteTmp, Goto, Return, DeleteFile
<1>4. CASE CreateTmp
    BY <1>4 DEF CreateTmp, Goto, Return
<1>5. CASE OpenTmp
    BY <1>5 DEF OpenTmp, Goto, Return
<1>6. CASE WriteTmp
    BY <1>6 DEF WriteTmp, Goto, Return
<1>7. CASE CheckPath
    BY <1>7 DEF CheckPath, Goto, Return, DoesFileExist
<1>8. CASE DeleteBak
    BY <1>8 DEF DeleteBak, Goto, Return, DeleteFile
<1>9. CASE Backup
    BY <1>9 DEF Backup, Goto, Return, RenameOk
<1>10. CASE Install
    BY <1>10 DEF Install, Goto, Return, RenameOk
<1>11. CASE Restore
    BY <1>11 DEF Restore, Goto, Return, RenameOk
<1>12. CASE Cleanup
    BY <1>12 DEF Cleanup, Goto, Return, DeleteFile
<1>13. CASE Finish
    BY <1>13 DEF Finish, Goto, Return, DeleteFile
<1>14. CASE PowerLoss
    BY <1>14 DEF PowerLoss
<1>15. CASE LoadPatchConfig
    BY <1>15 DEF LoadPatchConfig, DoesFileExist
<1>16. CASE UNCHANGED vars
    BY <1>16 DEF vars
<1> QED
    BY <1>1, <1>2, <1>3, <1>4, <1>5, <1>6, <1>7, <1>8, <1>9, <1>10, <1>11, <1>12, <1>13, <1>14, <1>15, <1>16 DEF Next, Step

\* The inductive invariant holds in every reachable state.
THEOREM Invariance == Spec => []IndInv
BY InitInv, NextInv, PTL DEF Spec

\* Type correctness of the model of WriteAllAtomic.
THEOREM TypeCorrect == Spec => []TypeOK
<1>1. IndInv => TypeOK
    BY DEF IndInv
<1> QED
    BY <1>1, Invariance, PTL

\* No half-written text ever reaches the file or its backup.
THEOREM NeverTorn == Spec => []NoTornFile
<1>1. IndInv => NoTornFile
    BY DEF IndInv
<1> QED
    BY <1>1, Invariance, PTL

\* Whatever fails afterwards, a text WriteAllAtomic acknowledged, or a newer
\* one, can be recovered from the card.
THEOREM Durability == Spec => []SavedTextSurvives
<1>1. IndInv => SavedTextSurvives
    BY DEF IndInv, Ordered, SavedTextSurvives
<1> QED
    BY <1>1, Invariance, PTL

\* A save that reports failure has not replaced the old text.
THEOREM FailureIsClean == Spec => []FailedSaveKeepsOldText
<1>1. IndInv => FailedSaveKeepsOldText
    BY DEF IndInv
<1> QED
    BY <1>1, Invariance, PTL

\* The initial card maps to an initial register.
LEMMA InitRefines == Init => Register!Init
BY DEF Init, Register!Init, Recoverable, Absent, Steps

\* Every step maps to a step of the register or leaves it alone: the move of
\* the temp file into place replaces its content, the last step of a save
\* returns true, the other ways out return false.
LEMMA NextRefines == IndInv /\ IndInv' /\ [Next]_vars => [Register!Next]_Register!vars
<1> SUFFICES ASSUME IndInv, IndInv', [Next]_vars PROVE [Register!Next]_Register!vars
    OBVIOUS
<1> USE MaxSavesAssumption
    DEF IndInv, TypeOK, NoTornFile, Ordered, Progress, Recoverable, Absent, Torn,
        Whole, Steps, Written, files, Register!Next, Register!vars
<1>1. CASE Call
    BY <1>1 DEF Call, SaveText, Register!Call
<1>2. CASE EnsureConfigRootDirs
    BY <1>2 DEF EnsureConfigRootDirs, Goto, Return, Register!ReturnFalse
<1>3. CASE DeleteTmp
    BY <1>3 DEF DeleteTmp, Goto, Return, DeleteFile
<1>4. CASE CreateTmp
    BY <1>4 DEF CreateTmp, Goto, Return, Register!ReturnFalse
<1>5. CASE OpenTmp
    BY <1>5 DEF OpenTmp, Goto, Return
<1>6. CASE WriteTmp
    BY <1>6 DEF WriteTmp, Goto, Return
<1>7. CASE CheckPath
    BY <1>7 DEF CheckPath, Goto, Return, DoesFileExist
<1>8. CASE DeleteBak
    BY <1>8 DEF DeleteBak, Goto, Return, DeleteFile
<1>9. CASE Backup
    BY <1>9 DEF Backup, Goto, Return, RenameOk
<1>10. CASE Install
    BY <1>10 DEF Install, Goto, Return, RenameOk, Register!Replace
<1>11. CASE Restore
    BY <1>11 DEF Restore, Goto, Return, RenameOk
<1>12. CASE Cleanup
    BY <1>12 DEF Cleanup, Goto, Return, DeleteFile, Register!ReturnFalse
<1>13. CASE Finish
    BY <1>13 DEF Finish, Goto, Return, DeleteFile, Register!ReturnTrue
<1>14. CASE PowerLoss
    BY <1>14 DEF PowerLoss, Register!PowerLoss
<1>15. CASE LoadPatchConfig
    BY <1>15 DEF LoadPatchConfig, DoesFileExist, Register!PowerOn
<1>16. CASE UNCHANGED vars
    BY <1>16 DEF vars
<1> QED
    BY <1>1, <1>2, <1>3, <1>4, <1>5, <1>6, <1>7, <1>8, <1>9, <1>10, <1>11, <1>12, <1>13, <1>14, <1>15, <1>16 DEF Next, Step

\* WriteAllAtomic, with its failures and with power losses at any point, is an
\* atomic register as far as what can be recovered from the card goes.
THEOREM Refinement == Spec => ImplementsAtomicReplace
BY InitRefines, NextRefines, Invariance, PTL DEF Spec, ImplementsAtomicReplace, Register!Spec

(***************************************************************************)
(* The layout.  A file that is saved again after a failure and that the    *)
(* user may delete keeps every promise of WriteAllAtomic, and no change of *)
(* the layout is forgotten.                                                *)
(***************************************************************************)
\* A text whose save failed is newer than what is on the card.
RetryInv ==
    pc = "idle" /\ outcome = "failed" => Recoverable < text /\ acked < text

\* A backup that the deletion of the file uncovers is an older text.
BakInv == bak <= text /\ (path # Absent => bak <= path)

\* What is marked is what is not saved, in both halves of the frame.
MarkInv ==
    /\ timer > 0 => unsaved
    /\ pc = "idle" => (timer > 0 \/ want \/ dirty <=> unsaved \/ outcome = "failed")
    /\ pc \in Steps => /\ ~unsaved /\ phase = "update"
                       /\ want \/ dirty
    /\ pc = "off" => /\ ~unsaved /\ phase = "update"
                     /\ timer = 0 /\ ~want /\ ~dirty

\* After a reset that left no file, only a backup that was there then can bring
\* back what it removed: texts made since are newer, and what the next save
\* moves aside or puts in place is one of those.
WipeInv ==
    /\ wiped <= text
    /\ pc \in Steps => wiped < text
    /\ pc = "idle" /\ outcome = "failed" => wiped < text
    /\ ~leftover => (path # Absent => path > wiped) /\ (bak # Absent => bak > wiped)
    /\ BootLoadsNothingStale

LayoutInv == IndInv /\ BakInv /\ LayoutTypeOK /\ RetryInv /\ MarkInv /\ WipeInv

\* The invariant holds before the first boot.
LEMMA LayoutInitInv == LayoutInit => LayoutInv
<1> SUFFICES ASSUME LayoutInit PROVE LayoutInv
    OBVIOUS
<1>1. IndInv
    BY InitInv DEF LayoutInit
<1>2. pc = "off" /\ outcome = "none" /\ bak = 0 /\ text \in {0, 1} /\ path \in {0, 1}
    BY DEF LayoutInit, Init, Absent
<1>3. LayoutTypeOK
  <2>1. TypeOK /\ 0 \in 0..SavingRate /\ 0 \in 0..MaxSaves
      BY <1>1, SavingRateAssumption, MaxSavesAssumption DEF IndInv
  <2> QED BY <2>1 DEF LayoutInit, LayoutTypeOK
<1>4. BakInv /\ RetryInv /\ WipeInv
    BY <1>2 DEF BakInv, RetryInv, WipeInv, BootLoadsNothingStale, LayoutInit, Absent, Steps
<1>5. MarkInv
    BY <1>2 DEF LayoutInit, MarkInv, Steps
<1> QED BY <1>1, <1>3, <1>4, <1>5 DEF LayoutInv

\* The backup of every step of AtomicFile is one of the texts that were there.
LEMMA BakStep == ASSUME IndInv, BakInv, [Next]_vars PROVE BakInv'
<1> USE MaxSavesAssumption
    DEF IndInv, TypeOK, Ordered, BakInv, Recoverable, Absent, Torn, Whole, files
<1>1. CASE Call
    BY <1>1 DEF Call, SaveText
<1>2. CASE Step
    BY <1>2 DEF Step, EnsureConfigRootDirs, DeleteTmp, CreateTmp, OpenTmp, WriteTmp,
       CheckPath, DeleteBak, Backup, Install, Restore, Cleanup, Finish, Goto, Return, DeleteFile,
       Progress, Steps, Written, RenameOk
<1>3. CASE PowerLoss \/ LoadPatchConfig \/ UNCHANGED vars
    BY <1>3 DEF PowerLoss, LoadPatchConfig, vars
<1> QED BY <1>1, <1>2, <1>3 DEF Next

\* A step of a save, a power loss and a boot bring nothing of what the last
\* reset removed.
LEMMA WipeStep ==
    ASSUME LayoutInv, Step \/ PowerLoss \/ LoadPatchConfig \/ UNCHANGED vars,
           UNCHANGED <<wiped, leftover>>
    PROVE  WipeInv'
<1> USE MaxSavesAssumption
    DEF LayoutInv, LayoutTypeOK, IndInv, TypeOK, Progress, BootIsNoOlder, WipeInv,
        BootLoadsNothingStale, Absent, Torn, Whole, Steps, Written, files
<1>1. CASE EnsureConfigRootDirs \/ DeleteTmp \/ CreateTmp \/ OpenTmp \/ WriteTmp \/ CheckPath
    BY <1>1 DEF EnsureConfigRootDirs, DeleteTmp, CreateTmp, OpenTmp, WriteTmp, CheckPath,
       Goto, Return
<1>2. CASE DeleteBak
    BY <1>2 DEF DeleteBak, DeleteFile, Goto
<1>3. CASE Backup
    BY <1>3 DEF Backup, RenameOk, Goto
<1>4. CASE Install
    BY <1>4 DEF Install, RenameOk, Goto
<1>5. CASE Restore
    BY <1>5 DEF Restore, RenameOk, Goto
<1>6. CASE Cleanup
    BY <1>6 DEF Cleanup, Return
<1>7. CASE Finish
    BY <1>7 DEF Finish, DeleteFile, Return
<1>8. CASE PowerLoss
    BY <1>8 DEF PowerLoss
<1>9. CASE LoadPatchConfig
  <2>1. loaded' \in {path, Absent} /\ UNCHANGED <<path, bak, text, acked>>
      BY <1>9 DEF LoadPatchConfig
  <2>2. outcome' = "booted" /\ pc' = "idle"
      BY <1>9 DEF LoadPatchConfig
  <2>3. loaded' # Absent => loaded' > wiped \/ leftover
      BY <2>1
  <2>4. BootIsNoOlder'
      BY <1>9, NextInv DEF Next
  <2> QED BY <2>1, <2>2, <2>3, <2>4
<1>10. CASE UNCHANGED vars
    BY <1>10 DEF vars
<1> QED BY <1>1, <1>2, <1>3, <1>4, <1>5, <1>6, <1>7, <1>8, <1>9, <1>10 DEF Step

-----------------------------------------------------------------------------

\* Boot and power loss.
LEMMA PowerStep ==
    ASSUME LayoutInv, OnImGuiContextCreated \/ LayoutPowerLoss
    PROVE  LayoutInv'
<1>1. [Next]_vars
    BY DEF OnImGuiContextCreated, LayoutPowerLoss, Next
<1>2. IndInv' /\ BakInv'
    BY <1>1, NextInv, BakStep DEF LayoutInv
<1>3. outcome' \in {"booted", "lost"} /\ WipeInv'
    BY WipeStep
    DEF OnImGuiContextCreated, LayoutPowerLoss, LoadPatchConfig, PowerLoss, resets
<1>4. LayoutTypeOK'
  <2>1. CASE OnImGuiContextCreated
    <3>1. text' = text
        BY <2>1 DEF OnImGuiContextCreated, LoadPatchConfig
    <3> QED BY <1>2, <2>1, <3>1
        DEF LayoutInv, IndInv, LayoutTypeOK, OnImGuiContextCreated, marks, resets
  <2>2. CASE LayoutPowerLoss
    <3>1. TypeOK' /\ 0 \in 0..SavingRate
        BY <1>2, SavingRateAssumption DEF IndInv
    <3> QED BY <2>2, <3>1 DEF LayoutInv, LayoutTypeOK, LayoutPowerLoss, PowerLoss
  <2> QED BY <2>1, <2>2
<1>5. RetryInv' /\ MarkInv'
    BY <1>3 DEF LayoutInv, RetryInv, MarkInv, LayoutTypeOK, OnImGuiContextCreated,
       LayoutPowerLoss, LoadPatchConfig, PowerLoss, marks, Steps
<1> QED BY <1>2, <1>3, <1>4, <1>5 DEF LayoutInv

\* The user deletes the file between two saves.
LEMMA DeleteStep ==
    ASSUME LayoutInv, pc = "idle", DeleteLayoutFile
    PROVE  IndInv' /\ BakInv' /\ WipeInv' /\ wiped' \in 0..MaxSaves /\ leftover' \in BOOLEAN
<1>1. IndInv' /\ BakInv'
    BY MaxSavesAssumption
    DEF LayoutInv, DeleteLayoutFile, DeleteFile, IndInv, BakInv, TypeOK, NoTornFile, Ordered,
        Progress, FailedSaveKeepsOldText, BootIsNoOlder, Recoverable, Absent, Torn, Whole,
        Steps, Written
<1>2. wiped \in 0..MaxSaves /\ text \in 0..MaxSaves /\ leftover \in BOOLEAN
    BY DEF LayoutInv, LayoutTypeOK, TypeOK
<1>3. wiped' \in {wiped, text} /\ leftover' \in BOOLEAN
    BY <1>2 DEF DeleteLayoutFile
<1>4. WipeInv'
  <2>1. UNCHANGED <<bak, pc, text>> /\ outcome' = "none" /\ pc' = "idle"
      BY DEF DeleteLayoutFile
  <2>2. /\ wiped <= text
        /\ ~leftover => (path # Absent => path > wiped) /\ (bak # Absent => bak > wiped)
      BY DEF LayoutInv, WipeInv
  <2>3. CASE path' = Absent
    <3>1. wiped' = text /\ (~leftover' => bak = Absent)
        BY <2>3 DEF DeleteLayoutFile
    <3> QED BY <1>2, <2>1, <2>3, <3>1 DEF WipeInv, BootLoadsNothingStale, Steps
  <2>4. CASE path' = path /\ path # Absent
      BY <1>2, <2>1, <2>2, <2>4 DEF DeleteLayoutFile, WipeInv, BootLoadsNothingStale, Steps
  <2> QED BY <2>3, <2>4 DEF DeleteLayoutFile, DeleteFile
<1> QED BY <1>1, <1>2, <1>3, <1>4

\* The first half of a frame.
LEMMA UpdateStep ==
    ASSUME LayoutInv, NEW input \in Inputs, NEW visible \in BOOLEAN,
           UpdateFrame(input, visible)
    PROVE  LayoutInv'
<1>1. /\ pc = "idle" /\ phase' = "after"
      /\ IF input = "reset" THEN DeleteLayoutFile ELSE UNCHANGED <<vars, wiped, leftover>>
    BY DEF UpdateFrame
<1>2. IndInv' /\ BakInv' /\ WipeInv' /\ wiped' \in 0..MaxSaves /\ leftover' \in BOOLEAN
  <2>1. CASE input = "reset"
    BY <1>1, <2>1, DeleteStep
  <2>2. CASE input # "reset"
    <3>1. UNCHANGED vars /\ UNCHANGED <<wiped, leftover>>
        BY <1>1, <2>2
    <3> QED BY <3>1, NextInv, BakStep, WipeStep DEF LayoutInv, LayoutTypeOK
  <2> QED BY <2>1, <2>2
<1>3. pc' = "idle" /\ text' = text
    BY <1>1 DEF DeleteLayoutFile, vars
<1>4. timer' \in 0..SavingRate
    BY SavingRateAssumption DEF LayoutInv, LayoutTypeOK, UpdateFrame
<1>5. unsaved' <=> unsaved \/ input # "none" \/ (visible /\ should_apply_default_layout)
    BY DEF UpdateFrame
<1>6. unsaved' => text < MaxSaves
    BY <1>5 DEF LayoutInv, LayoutTypeOK, UpdateFrame
<1>7. LayoutTypeOK'
    BY <1>1, <1>2, <1>3, <1>4, <1>5, <1>6
    DEF IndInv, LayoutInv, LayoutTypeOK, UpdateFrame, should_apply_default_layout
<1>8. ASSUME input # "reset" PROVE RetryInv' /\ MarkInv'
  <2>1. UNCHANGED <<path, bak, acked, outcome, text>>
      BY <1>1, <1>8 DEF vars, files
  <2>2. RetryInv'
      BY <1>1, <1>3, <2>1 DEF LayoutInv, RetryInv, Recoverable
  <2>3. /\ want' <=> want \/ timer = 1 \/ input = "save"
        /\ dirty' <=> dirty \/ input \in {"theme", "save"}
                            \/ (visible /\ should_apply_default_layout)
        /\ timer' = IF timer > 1 THEN timer - 1 ELSE IF input = "move" THEN SavingRate ELSE 0
      BY <1>8 DEF UpdateFrame
  <2>4. timer \in Nat /\ SavingRate > 0
      BY SavingRateAssumption DEF LayoutInv, LayoutTypeOK
  <2>5. input \in {"none", "move", "theme", "save"}
      BY <1>8 DEF Inputs
  <2>6. /\ timer > 0 => unsaved
        /\ timer > 0 \/ want \/ dirty <=> unsaved \/ outcome = "failed"
      BY <1>1 DEF LayoutInv, MarkInv
  <2>7. timer' > 0 => unsaved'
      BY <1>5, <2>3, <2>4, <2>6
  <2>8. want' \/ dirty' => unsaved' \/ outcome' = "failed"
      BY <1>5, <2>1, <2>3, <2>4, <2>6
  <2>9. unsaved' => timer' > 0 \/ want' \/ dirty'
    <3>0. unsaved' => unsaved \/ (visible /\ should_apply_default_layout) \/ input # "none"
      BY <1>5
    <3>1. CASE unsaved \/ (visible /\ should_apply_default_layout)
      BY <3>1, <1>5, <2>3, <2>4, <2>6
    <3>2. CASE input # "none"
      BY <3>2, <2>3, <2>4, <2>5
    <3> QED BY <3>0, <3>1, <3>2
  <2>10. outcome' = "failed" => timer' > 0 \/ want' \/ dirty'
      BY <2>1, <2>3, <2>4, <2>6
  <2>11. MarkInv'
      BY <1>3, <2>7, <2>8, <2>9, <2>10 DEF MarkInv, Steps
  <2> QED BY <2>2, <2>11
<1>9. ASSUME input = "reset" PROVE RetryInv' /\ MarkInv'
  <2>1. outcome' = "none" /\ unsaved' /\ dirty'
      BY <1>1, <1>9 DEF DeleteLayoutFile, UpdateFrame
  <2> QED BY <1>3, <2>1 DEF RetryInv, MarkInv, Steps
<1>10. RetryInv' /\ MarkInv'
    BY <1>8, <1>9
<1> QED BY <1>2, <1>7, <1>10 DEF LayoutInv

\* A save of a new text, or of the one whose save failed.
LEMMA SaveTextInv ==
    ASSUME LayoutInv, NEW n \in Whole, SaveText(n),
           Recoverable < n, acked < n, text <= n, wiped < n,
           UNCHANGED <<wiped, leftover>>
    PROVE  IndInv' /\ BakInv' /\ WipeInv'
<1>1. IndInv' /\ BakInv'
  BY MaxSavesAssumption
  DEF LayoutInv, SaveText, IndInv, BakInv, TypeOK, NoTornFile, Ordered, Progress, FailedSaveKeepsOldText,
      BootIsNoOlder, Recoverable, Absent, Torn, Whole, Steps, Written, files
<1>2. WipeInv'
  <2>1. text' = n /\ pc' = "EnsureDirs" /\ UNCHANGED <<path, bak, wiped, leftover>>
      BY DEF SaveText, files
  <2>2. wiped \in 0..MaxSaves /\ n \in Nat
      BY MaxSavesAssumption DEF LayoutInv, LayoutTypeOK, Whole
  <2>3. ~leftover => (path # Absent => path > wiped) /\ (bak # Absent => bak > wiped)
      BY DEF LayoutInv, WipeInv
  <2> QED BY <2>1, <2>2, <2>3 DEF WipeInv, BootLoadsNothingStale
<1> QED BY <1>1, <1>2

\* The second half of a frame.
LEMMA AfterStep ==
    ASSUME LayoutInv, AfterFrame
    PROVE  LayoutInv'
<1>1. pc = "idle" /\ phase' = "update"
    BY DEF AfterFrame
<1>2. CASE UNCHANGED vars /\ UNCHANGED unsaved
  <2>1. IndInv' /\ BakInv' /\ WipeInv'
      BY <1>2, NextInv, BakStep, WipeStep DEF LayoutInv, AfterFrame, resets
  <2>2. timer' \in {0, timer} /\ (want \/ dirty \/ timer' = timer)
      BY DEF AfterFrame
  <2>3. /\ UNCHANGED <<gui, want, dirty, flags, sound, wiped, leftover, asked>>
        /\ UNCHANGED <<path, bak, pc, text, acked, outcome>>
      BY <1>2 DEF AfterFrame, vars, files, resets
  <2>4. LayoutTypeOK'
      BY <1>1, <1>2, <2>1, <2>2, <2>3, SavingRateAssumption
      DEF LayoutInv, IndInv, LayoutTypeOK, flags
  <2>5. RetryInv' /\ MarkInv'
      BY <1>1, <1>2, <2>2, <2>3
      DEF LayoutInv, LayoutTypeOK, RetryInv, MarkInv, Recoverable, Steps
  <2> QED BY <2>1, <2>4, <2>5 DEF LayoutInv
<1>3. CASE (dirty \/ want) /\ SaveText(IF unsaved THEN text + 1 ELSE text) /\ unsaved' = FALSE
  <2> DEFINE n == IF unsaved THEN text + 1 ELSE text
  <2>1. text \in 0..MaxSaves /\ acked \in 0..MaxSaves /\ Recoverable <= text /\ acked <= text
      BY DEF LayoutInv, IndInv, TypeOK, Ordered
  <2>2. ~unsaved => outcome = "failed"
      BY <1>1, <1>3 DEF LayoutInv, MarkInv
  <2>3. Recoverable \in Int
      BY DEF LayoutInv, IndInv, TypeOK, Recoverable, Whole, Absent, Torn
  <2>0. wiped \in 0..MaxSaves /\ wiped <= text /\ (outcome = "failed" => wiped < text)
      BY <1>1 DEF LayoutInv, LayoutTypeOK, WipeInv
  <2>4. n \in Whole /\ Recoverable < n /\ acked < n /\ text <= n /\ wiped < n
    <3>1. CASE unsaved
      BY <2>0, <2>1, <2>3, <3>1, MaxSavesAssumption DEF LayoutInv, LayoutTypeOK, Whole
    <3>2. CASE ~unsaved
      BY <1>1, <2>0, <2>1, <2>2, <2>3, <3>2, MaxSavesAssumption DEF LayoutInv, RetryInv, Whole
    <3> QED BY <3>1, <3>2
  <2>5. SaveText(n)
      BY <1>3
  <2>6. IndInv' /\ BakInv' /\ WipeInv'
      BY <2>4, <2>5, SaveTextInv DEF AfterFrame, resets
  <2>7. pc' = "EnsureDirs" /\ timer' = 0
      BY <1>3 DEF AfterFrame, SaveText
  <2>8. UNCHANGED <<gui, want, dirty, flags, sound, wiped, leftover, asked>>
      BY DEF AfterFrame, resets
  <2>9. LayoutTypeOK'
    <3>1. TypeOK' /\ 0 \in 0..SavingRate
        BY <2>6, SavingRateAssumption DEF IndInv
    <3> QED BY <1>1, <1>3, <2>7, <2>8, <3>1 DEF LayoutInv, LayoutTypeOK, flags
  <2>10. RetryInv' /\ MarkInv'
      BY <1>1, <1>3, <2>7, <2>8, SavingRateAssumption DEF RetryInv, MarkInv, Steps
  <2> QED BY <2>6, <2>9, <2>10 DEF LayoutInv
<1> QED BY <1>2, <1>3 DEF AfterFrame

\* A step of a save: only its successful end takes the marks away.
LEMMA SaveStepInv ==
    ASSUME LayoutInv, SaveStep
    PROVE  LayoutInv'
<1>1. Step /\ IndInv' /\ BakInv' /\ WipeInv'
    BY NextInv, BakStep, WipeStep DEF LayoutInv, SaveStep, Next, resets
<1>2. /\ pc \in Steps
      /\ text' = text
      /\ \/ pc' \in Steps
         \/ pc' = "idle" /\ outcome' \in {"saved", "failed"}
    BY <1>1 DEF Step, EnsureConfigRootDirs, DeleteTmp, CreateTmp, OpenTmp, WriteTmp, CheckPath,
       DeleteBak, Backup, Install, Restore, Cleanup, Finish, Goto, Return, Steps
<1>3. outcome' = "failed" /\ pc' = "idle" => Recoverable' < text' /\ acked' < text'
  <2>1. pc # "Finish" => before < text /\ acked < text
      BY <1>2 DEF LayoutInv, IndInv, Progress
  <2>2. pc' = "idle" /\ outcome' = "failed" =>
           pc # "Finish" /\ acked' = acked /\ before' = before
      BY <1>1 DEF Step, EnsureConfigRootDirs, DeleteTmp, CreateTmp, OpenTmp, WriteTmp,
         CheckPath, DeleteBak, Backup, Install, Restore, Cleanup, Finish, Goto, Return
  <2> QED BY <1>1, <1>2, <2>1, <2>2 DEF IndInv, FailedSaveKeepsOldText
<1>4. LayoutTypeOK'
    BY <1>1, <1>2 DEF LayoutInv, IndInv, LayoutTypeOK, SaveStep, resets
<1>5. MarkInv'
    BY <1>2 DEF LayoutInv, LayoutTypeOK, MarkInv, SaveStep, Steps
<1> QED BY <1>1, <1>3, <1>4, <1>5 DEF LayoutInv, RetryInv

\* Every step keeps the invariant.
LEMMA LayoutNextInv == LayoutInv /\ [LayoutNext]_layoutVars => LayoutInv'
<1> SUFFICES ASSUME LayoutInv, [LayoutNext]_layoutVars PROVE LayoutInv'
    OBVIOUS
<1>1. CASE SwitchOff \/ CardRecovers \/ UNCHANGED layoutVars
  <2>1. UNCHANGED vars
      BY <1>1 DEF SwitchOff, CardRecovers, layoutVars
  <2>3. UNCHANGED <<phase, timer, want, dirty, flags, unsaved, wiped, leftover, asked>>
      BY <1>1 DEF SwitchOff, CardRecovers, layoutVars, overlay, marks, resets
  <2>2. IndInv' /\ BakInv' /\ WipeInv'
      BY <2>1, <2>3, NextInv, BakStep, WipeStep DEF LayoutInv
  <2>4. gui' \in BOOLEAN /\ sound' \in BOOLEAN
      BY <1>1 DEF LayoutInv, LayoutTypeOK, SwitchOff, CardRecovers, layoutVars, overlay
  <2> QED BY <2>1, <2>2, <2>3, <2>4
      DEF LayoutInv, IndInv, LayoutTypeOK, RetryInv, MarkInv, Recoverable, vars, files, flags
<1>2. CASE LayoutNext
    BY <1>1, <1>2, PowerStep, UpdateStep, AfterStep, SaveStepInv DEF LayoutNext
<1> QED BY <1>1, <1>2

-----------------------------------------------------------------------------

\* The invariant holds in every reachable state.
THEOREM LayoutInvariance == LayoutSpec => []LayoutInv
BY LayoutInitInv, LayoutNextInv, PTL DEF LayoutSpec

\* Type correctness of the overlay's side of the file.
THEOREM LayoutTypeCorrect == LayoutSpec => []LayoutTypeOK
<1>1. LayoutInv => LayoutTypeOK
    BY DEF LayoutInv
<1> QED BY <1>1, LayoutInvariance, PTL

\* No change of the layout is forgotten: as long as it is not on the card,
\* one of the marks, or ImGui's timer, will bring the next attempt.
THEOREM ChangesAreRemembered == LayoutSpec => []NothingForgotten
<1>1. LayoutInv => NothingForgotten
    BY DEF LayoutInv, MarkInv, NothingForgotten
<1> QED BY <1>1, LayoutInvariance, PTL

\* Whatever saves fail after a reset, the layout it removed does not come back
\* at a later start, unless it left a ".bak" of it.
THEOREM BootIsFresh == LayoutSpec => []BootLoadsNothingStale
<1>1. LayoutInv => BootLoadsNothingStale
    BY DEF LayoutInv, WipeInv
<1> QED BY <1>1, LayoutInvariance, PTL

\* The promises of WriteAllAtomic survive retries of the same text and the
\* deletion of the file by the user.
THEOREM LayoutPromises ==
    LayoutSpec => [](NoTornFile /\ SavedTextSurvives /\ FailedSaveKeepsOldText)
<1>1. LayoutInv => NoTornFile /\ SavedTextSurvives /\ FailedSaveKeepsOldText
    BY DEF LayoutInv, IndInv, Ordered, SavedTextSurvives
<1> QED BY <1>1, LayoutInvariance, PTL

\* Every step of the overlay is one of the register's or leaves it alone: a
\* retry is a call, the deletion of the file throws the content away.
LEMMA LayoutNextRefines ==
    LayoutInv /\ LayoutInv' /\ [LayoutNext]_layoutVars => [Register!Next]_Register!vars
<1> SUFFICES ASSUME LayoutInv, LayoutInv', [LayoutNext]_layoutVars
             PROVE  [Register!Next]_Register!vars
    OBVIOUS
<1>1. CASE [Next]_vars
    BY <1>1, NextRefines DEF LayoutInv
<1>2. CASE pc = "idle" /\ DeleteLayoutFile
  <2>1. CASE path' = path
    <3>1. Recoverable' = Recoverable /\ acked' = acked /\ pc' = pc /\ text' = text
        BY <1>2, <2>1 DEF DeleteLayoutFile, Recoverable
    <3> QED BY <3>1 DEF Register!vars
  <2>2. CASE path' # path
    <3>1. /\ path # Absent /\ path' = Absent /\ bak' = bak
          /\ acked' = 0 /\ pc' = "idle"
        BY <1>2, <2>2 DEF DeleteLayoutFile, DeleteFile
    <3>2. Recoverable = path /\ Recoverable' = bak
        BY <3>1 DEF Recoverable
    <3>3. bak \in Nat /\ bak <= path
        BY <3>1, MaxSavesAssumption
        DEF LayoutInv, IndInv, BakInv, TypeOK, NoTornFile, Absent, Torn, Whole
    <3>4. Register!Discard
        BY <1>2, <3>1, <3>2, <3>3 DEF Register!Discard, Steps
    <3> QED BY <3>4 DEF Register!Next
  <2> QED BY <2>1, <2>2
<1>3. ASSUME NEW n \in Whole, SaveText(n), Recoverable < n, acked < n
      PROVE  [Register!Next]_Register!vars
  <2>1. Register!Call
      BY <1>3, MaxSavesAssumption
      DEF SaveText, LayoutInv, IndInv, TypeOK, NoTornFile, Recoverable, Absent, Torn, Whole,
          Steps, files, Register!Call
  <2> QED BY <2>1 DEF Register!Next
<1>4. CASE OnImGuiContextCreated \/ SaveStep \/ SwitchOff \/ LayoutPowerLoss \/ CardRecovers
           \/ UNCHANGED layoutVars
    BY <1>1, <1>4 DEF OnImGuiContextCreated, SaveStep, SwitchOff, LayoutPowerLoss, CardRecovers,
       layoutVars, Next
<1>5. ASSUME NEW input \in Inputs, NEW visible \in BOOLEAN, UpdateFrame(input, visible)
      PROVE  [Register!Next]_Register!vars
  <2>1. pc = "idle" /\ (DeleteLayoutFile \/ UNCHANGED vars)
      BY <1>5 DEF UpdateFrame
  <2> QED BY <1>1, <1>2, <2>1
<1>6. CASE AfterFrame
  <2>1. UNCHANGED vars \/ SaveText(IF unsaved THEN text + 1 ELSE text)
      BY <1>6 DEF AfterFrame
  <2>2. ASSUME SaveText(IF unsaved THEN text + 1 ELSE text), ~UNCHANGED vars
        PROVE  [Register!Next]_Register!vars
    <3> DEFINE n == IF unsaved THEN text + 1 ELSE text
    <3>1. pc = "idle" /\ (~unsaved => outcome = "failed")
      <4>1. pc = "idle" /\ (dirty \/ want)
        <5>1. ~(dirty \/ want) => UNCHANGED vars
            BY <1>6 DEF AfterFrame
        <5> QED BY <2>2, <5>1 DEF SaveText
      <4> QED BY <4>1 DEF LayoutInv, MarkInv
    <3>2. text \in 0..MaxSaves /\ acked \in 0..MaxSaves /\ Recoverable <= text /\ acked <= text
        BY DEF LayoutInv, IndInv, TypeOK, Ordered
    <3>3. Recoverable \in Int
        BY DEF LayoutInv, IndInv, TypeOK, Recoverable, Whole, Absent, Torn
    <3>4. n \in Whole /\ Recoverable < n /\ acked < n
      <4>1. CASE unsaved
        BY <3>2, <3>3, <4>1, MaxSavesAssumption DEF LayoutInv, LayoutTypeOK, Whole
      <4>2. CASE ~unsaved
        BY <3>1, <3>2, <3>3, <4>2, MaxSavesAssumption DEF LayoutInv, RetryInv, Whole
      <4> QED BY <4>1, <4>2
    <3>5. SaveText(n)
        BY <2>2
    <3> QED BY <1>3, <3>4, <3>5
  <2> QED BY <1>1, <2>1, <2>2
<1> QED BY <1>4, <1>5, <1>6 DEF LayoutNext

\* The layout file is an atomic register that its owner may empty.
THEOREM LayoutRefinement == LayoutSpec => ImplementsAtomicReplace
<1>1. LayoutInit => Register!Init
    BY InitRefines DEF LayoutInit
<1> QED BY <1>1, LayoutNextRefines, LayoutInvariance, PTL
        DEF LayoutSpec, ImplementsAtomicReplace, Register!Spec

-----------------------------------------------------------------------------

\* What the register by itself promises: its content is never older than what
\* has been acknowledged, and what is being saved is newer than both.
RegisterInv ==
    LET pending == IF pc \in Steps THEN text ELSE 0
    IN  /\ Recoverable \in Nat /\ acked \in Nat /\ pending \in Nat
        /\ Recoverable >= acked
        /\ pending # 0 => pending > acked

\* Whoever implements the register keeps what it has acknowledged: nothing of
\* WriteAllAtomic but the refinement is used, so that the register says enough.
THEOREM RegisterPromises == ImplementsAtomicReplace => []SavedTextSurvives
<1> DEFINE pending == IF pc \in Steps THEN text ELSE 0
<1>1. Register!Init => RegisterInv
    BY DEF Register!Init, RegisterInv
<1>2. RegisterInv /\ [Register!Next]_Register!vars => RegisterInv'
  <2> SUFFICES ASSUME RegisterInv, [Register!Next]_Register!vars PROVE RegisterInv'
      OBVIOUS
  <2>0. /\ Recoverable \in Nat /\ acked \in Nat /\ pending \in Nat
        /\ Recoverable >= acked
        /\ pending # 0 => pending > acked
      BY DEF RegisterInv
  <2> SUFFICES /\ Recoverable' \in Nat /\ acked' \in Nat /\ pending' \in Nat
               /\ Recoverable' >= acked'
               /\ pending' # 0 => pending' > acked'
      BY DEF RegisterInv
  <2>1. CASE Register!PowerOn \/ UNCHANGED Register!vars
      BY <2>0, <2>1 DEF Register!PowerOn, Register!vars
  <2>2. CASE Register!Call
      BY <2>0, <2>2 DEF Register!Call
  <2>3. CASE Register!Replace
      BY <2>0, <2>3 DEF Register!Replace
  <2>4. CASE Register!ReturnTrue \/ Register!ReturnFalse
      BY <2>0, <2>4 DEF Register!ReturnTrue, Register!ReturnFalse
  <2>5. CASE Register!PowerLoss
      BY <2>0, <2>5 DEF Register!PowerLoss
  <2>6. CASE Register!Discard
      BY <2>0, <2>6 DEF Register!Discard
  <2> QED BY <2>1, <2>2, <2>3, <2>4, <2>5, <2>6 DEF Register!Next
<1>3. RegisterInv => SavedTextSurvives
    BY DEF RegisterInv, SavedTextSurvives
<1> QED BY <1>1, <1>2, <1>3, PTL DEF ImplementsAtomicReplace, Register!Spec

-----------------------------------------------------------------------------
(* What EventuallySaved asks for, one step at a time.  TLC checks that it   *)
(* is reached under fairness; that no step leads away from it, for any      *)
(* number of texts, is proved.                                              *)

\* How many calls WriteAllAtomic can still make, at most.
CallsLeft ==
    [s \in Steps \cup {"idle", "off"} |->
        CASE s = "EnsureDirs" -> 12 [] s = "DeleteTmp" -> 11 [] s = "CreateTmp" -> 10
          [] s = "OpenTmp" -> 9     [] s = "WriteTmp" -> 8   [] s = "CheckPath" -> 7
          [] s = "DeleteBak" -> 6   [] s = "Backup" -> 5     [] s = "Install" -> 4
          [] s = "Restore" -> 3     [] s = "Cleanup" -> 2    [] s = "Finish" -> 1
          [] OTHER -> 0]

\* The steps of a save, as far as they go forward.
LEMMA StepForward ==
    ASSUME Step
    PROVE  /\ pc \in Steps /\ pc' \in Steps \cup {"idle"}
           /\ CallsLeft[pc'] < CallsLeft[pc]
<1>1. /\ pc = "EnsureDirs" => pc' \in {"DeleteTmp", "idle"}
      /\ pc = "DeleteTmp"  => pc' = "CreateTmp"
      /\ pc = "CreateTmp"  => pc' \in {"OpenTmp", "idle"}
      /\ pc = "OpenTmp"    => pc' \in {"WriteTmp", "Cleanup"}
      /\ pc = "WriteTmp"   => pc' \in {"CheckPath", "Cleanup"}
      /\ pc = "CheckPath"  => pc' \in {"DeleteBak", "Install"}
      /\ pc = "DeleteBak"  => pc' = "Backup"
      /\ pc = "Backup"     => pc' \in {"Install", "Cleanup"}
      /\ pc = "Install"    => pc' \in {"Finish", "Restore"}
      /\ pc = "Restore"    => pc' = "Cleanup"
      /\ pc \in {"Cleanup", "Finish"} => pc' = "idle"
      /\ pc \in Steps
    BY DEF Step, EnsureConfigRootDirs, DeleteTmp, CreateTmp, OpenTmp, WriteTmp, CheckPath,
       DeleteBak, Backup, Install, Restore, Cleanup, Finish, Goto, Return, Steps
<1>2. /\ CallsLeft["EnsureDirs"] = 12 /\ CallsLeft["DeleteTmp"] = 11
      /\ CallsLeft["CreateTmp"] = 10  /\ CallsLeft["OpenTmp"] = 9
      /\ CallsLeft["WriteTmp"] = 8    /\ CallsLeft["CheckPath"] = 7
      /\ CallsLeft["DeleteBak"] = 6   /\ CallsLeft["Backup"] = 5
      /\ CallsLeft["Install"] = 4     /\ CallsLeft["Restore"] = 3
      /\ CallsLeft["Cleanup"] = 2     /\ CallsLeft["Finish"] = 1
      /\ CallsLeft["idle"] = 0
    BY DEF CallsLeft, Steps
<1> HIDE DEF CallsLeft
<1>3. CallsLeft[pc'] < CallsLeft[pc]
    BY <1>1, <1>2 DEF Steps
<1> QED BY <1>1, <1>3 DEF Steps

\* No failure makes WriteAllAtomic go round: whatever becomes of its calls, it
\* returns after at most twelve.
THEOREM SaveEnds == LayoutSpec => [][SaveStep => CallsLeft[pc'] < CallsLeft[pc]]_layoutVars
<1>1. SaveStep => CallsLeft[pc'] < CallsLeft[pc]
    BY StepForward DEF SaveStep
<1> QED BY <1>1, PTL DEF LayoutSpec

\* Where a save is that has met no failure: every save at its call, and one
\* that the card has failed before if that has left nothing in its way.
OnItsWay ==
    /\ pc \in Steps \ {"Restore", "Cleanup"}
    /\ pc = "CreateTmp" => tmp = Absent
    /\ pc \in {"DeleteBak", "Backup"} => path # Absent
    /\ pc = "Backup" => bak = Absent
    /\ pc = "Install" => path = Absent

\* On a card that works a save that starts succeeds, whatever earlier saves
\* and power losses have left there: stale temp files, backups, no file.
THEOREM SoundSaveSucceeds ==
    LayoutSpec => [][sound /\ OnItsWay /\ SaveStep
                        => OnItsWay' \/ (pc' = "idle" /\ outcome' = "saved")]_layoutVars
<1> DEFINE A == sound /\ OnItsWay /\ SaveStep
                   => OnItsWay' \/ (pc' = "idle" /\ outcome' = "saved")
<1>1. LayoutInv => A
  <2> SUFFICES ASSUME LayoutInv, sound, OnItsWay, SaveStep
               PROVE  OnItsWay' \/ (pc' = "idle" /\ outcome' = "saved")
      OBVIOUS
  <2>0. Step /\ CardWorks
      BY DEF SaveStep
  <2> USE DEF OnItsWay, CardWorks, Steps
  <2>1. CASE EnsureConfigRootDirs
      BY <2>0, <2>1 DEF EnsureConfigRootDirs, Goto, Return
  <2>2. CASE DeleteTmp
      BY <2>0, <2>2 DEF DeleteTmp, Goto
  <2>3. CASE CreateTmp \/ OpenTmp \/ WriteTmp
      BY <2>0, <2>3 DEF CreateTmp, OpenTmp, WriteTmp, Goto, Return
  <2>4. CASE CheckPath
      BY <2>0, <2>4 DEF CheckPath, Goto, files
  <2>5. CASE DeleteBak
      BY <2>0, <2>5 DEF DeleteBak, Goto
  <2>6. CASE Backup
      BY <2>0, <2>6 DEF Backup, RenameOk, Goto
  <2>7. CASE Install
    <3>1. tmp # Absent
        BY <2>7, MaxSavesAssumption
        DEF Install, LayoutInv, IndInv, Progress, Ordered, Written, TypeOK, Absent
    <3> QED BY <2>0, <2>7, <3>1 DEF Install, RenameOk, Goto
  <2>8. CASE Finish
      BY <2>8 DEF Finish, Return
  <2> QED BY <2>0, <2>1, <2>2, <2>3, <2>4, <2>5, <2>6, <2>7, <2>8
          DEF Step, Restore, Cleanup
<1> QED BY <1>1, LayoutInvariance, PTL DEF LayoutSpec
=============================================================================
