----------------------------- MODULE AtomicFile -----------------------------
(***************************************************************************)
(* d3::fs_util::WriteAllAtomic (source/program/fs_util.cpp) and the loader *)
(* that reads its result back at boot (source/program/config.cpp).  The    *)
(* same routine saves config.toml and gui_layout.ini; this is one such     *)
(* file, with its ".tmp" and ".bak" siblings on the SD card.               *)
(*                                                                         *)
(* Every nn::fs call is one step, so that the console can lose power (or   *)
(* the application can be killed) between any two of them, and every call  *)
(* may fail.  Texts are numbered in the order in which they are saved.     *)
(***************************************************************************)
EXTENDS Integers

CONSTANT MaxSaves       \* bound on the texts ever saved

ASSUME MaxSavesAssumption == MaxSaves \in Nat \ {0}

VARIABLES
    path, tmp, bak,     \* the three files: Absent, Torn or a text's number
    pc,                 \* where the present thread is in WriteAllAtomic
    text,               \* number of the last text handed to a save
    loaded,             \* the text the configuration in memory came from
    \* observation only
    acked,              \* the newest text a save has reported as saved
    before,             \* what a recovery would have found before this save
    outcome             \* what the last save, boot or power loss left behind

files == <<path, tmp, bak>>
vars  == <<path, tmp, bak, pc, text, loaded, acked, before, outcome>>

Absent == 0     \* no such file
Torn   == -1    \* a file without its whole text: created, not (fully) written
Whole  == 1..MaxSaves

Steps == {"EnsureDirs", "DeleteTmp", "CreateTmp", "OpenTmp", "WriteTmp",
          "CheckPath", "DeleteBak", "Backup", "Install", "Restore",
          "Cleanup", "Finish"}

TypeOK ==
    /\ path \in Whole \cup {Absent, Torn}
    /\ tmp \in Whole \cup {Absent, Torn}
    /\ bak \in Whole \cup {Absent, Torn}
    /\ pc \in Steps \cup {"idle", "off"}
    /\ text \in 0..MaxSaves
    /\ loaded \in Whole \cup {Absent}
    /\ acked \in 0..MaxSaves
    /\ before \in Whole \cup {Absent, Torn}
    /\ outcome \in {"none", "saved", "failed", "lost", "booted"}

\* A fresh card, or one with a configuration the user put there.
Init ==
    /\ path \in {Absent, 1}
    /\ tmp = Absent /\ bak = Absent
    /\ pc = "off"
    /\ text = path
    /\ loaded = Absent
    /\ acked = path
    /\ before = path
    /\ outcome = "none"

(***************************************************************************)
(* The file system as the code uses it.  A call that fails changes nothing *)
(* (the code tests its result); RenameFile refuses an existing target.     *)
(***************************************************************************)
DeleteFile(f, f2) == f2 \in {f, Absent}

\* GetEntryType: an I/O error makes an existing file look missing.
DoesFileExist(f, answer) == answer \in (IF f = Absent THEN {FALSE} ELSE {TRUE, FALSE})

RenameOk(from, to) == from # Absent /\ to = Absent

\* What someone repairing the card by hand finds.
Recoverable == IF path # Absent THEN path ELSE bak

(***************************************************************************)
(* WriteAllAtomic, step by step.                                           *)
(***************************************************************************)
SaveText(n) ==
    /\ pc = "idle"
    /\ text' = n
    /\ pc' = "EnsureDirs"
    /\ before' = Recoverable
    /\ UNCHANGED <<files, loaded, acked, outcome>>

\* A caller with a new text.
Call == text < MaxSaves /\ SaveText(text + 1)

Return(result) ==
    /\ pc' = "idle"
    /\ outcome' = result
    /\ UNCHANGED <<text, loaded, before>>

Goto(step) ==
    /\ pc' = step
    /\ UNCHANGED <<text, loaded, acked, before, outcome>>

EnsureConfigRootDirs ==
    /\ pc = "EnsureDirs"
    /\ UNCHANGED files
    /\ \/ Goto("DeleteTmp")
       \/ Return("failed") /\ UNCHANGED acked

DeleteTmp ==
    /\ pc = "DeleteTmp"
    /\ DeleteFile(tmp, tmp')
    /\ UNCHANGED <<path, bak>>
    /\ Goto("CreateTmp")

\* CreateFile refuses an existing file; the new one has its size, not its text.
CreateTmp ==
    /\ pc = "CreateTmp"
    /\ UNCHANGED <<path, bak>>
    /\ \/ tmp = Absent /\ tmp' = Torn /\ Goto("OpenTmp")
       \/ UNCHANGED <<tmp, acked>> /\ Return("failed")

OpenTmp ==
    /\ pc = "OpenTmp"
    /\ UNCHANGED files
    /\ Goto("WriteTmp") \/ Goto("Cleanup")

\* Mutant: the result of WriteFile is not looked at.
WriteTmpUnchecked ==
    /\ pc = "WriteTmp"
    /\ UNCHANGED <<path, bak>>
    /\ tmp' \in {tmp, text}
    /\ Goto("CheckPath")

\* Written with the flush option, flushed again and closed.
WriteTmp ==
    /\ pc = "WriteTmp"
    /\ UNCHANGED <<path, bak>>
    /\ \/ tmp' = text /\ Goto("CheckPath")
       \/ UNCHANGED tmp /\ Goto("Cleanup")

CheckPath ==
    /\ pc = "CheckPath"
    /\ UNCHANGED files
    /\ \E exists \in BOOLEAN :
          /\ DoesFileExist(path, exists)
          /\ Goto(IF exists THEN "DeleteBak" ELSE "Install")

DeleteBak ==
    /\ pc = "DeleteBak"
    /\ DeleteFile(bak, bak')
    /\ UNCHANGED <<path, tmp>>
    /\ Goto("Backup")

\* Mutant: the old file is deleted to make room, not kept as ".bak".
BackupByDelete ==
    /\ pc = "Backup"
    /\ path' = Absent
    /\ UNCHANGED <<tmp, bak>>
    /\ Goto("Install")

Backup ==
    /\ pc = "Backup"
    /\ UNCHANGED tmp
    /\ \/ RenameOk(path, bak) /\ bak' = path /\ path' = Absent /\ Goto("Install")
       \/ UNCHANGED <<path, bak>> /\ Goto("Cleanup")

\* Mutant: a failed move into place is retried as an in-place rewrite.
InstallInPlace ==
    /\ pc = "Install"
    /\ UNCHANGED bak
    /\ \/ RenameOk(tmp, path) /\ path' = tmp /\ tmp' = Absent /\ Goto("Finish")
       \/ path' = text /\ UNCHANGED tmp /\ Goto("Restore")

Install ==
    /\ pc = "Install"
    /\ UNCHANGED bak
    /\ \/ RenameOk(tmp, path) /\ path' = tmp /\ tmp' = Absent /\ Goto("Finish")
       \/ UNCHANGED <<path, tmp>> /\ Goto("Restore")

\* Put the backup back, if there is one and it can be seen and moved.
Restore ==
    /\ pc = "Restore"
    /\ UNCHANGED tmp
    /\ \/ RenameOk(bak, path) /\ path' = bak /\ bak' = Absent
       \/ UNCHANGED <<path, bak>>
    /\ Goto("Cleanup")

Cleanup ==
    /\ pc = "Cleanup"
    /\ DeleteFile(tmp, tmp')
    /\ UNCHANGED <<path, bak, acked>>
    /\ Return("failed")

Finish ==
    /\ pc = "Finish"
    /\ DeleteFile(bak, bak')
    /\ UNCHANGED <<path, tmp>>
    /\ acked' = text
    /\ Return("saved")

(***************************************************************************)
(* Power loss, and LoadPatchConfig at the next boot.  A file that cannot   *)
(* be found, or whose text does not parse, leaves the built-in defaults; a *)
(* file that cannot be opened or read trips EXL_ASSERT, and the console is *)
(* restarted.  The ".tmp" and ".bak" files are never looked at.            *)
(***************************************************************************)
PowerLoss ==
    /\ pc # "off"
    /\ pc' = "off"
    /\ outcome' = "lost"
    /\ UNCHANGED <<files, text, loaded, acked, before>>

\* Mutant: the loader falls back to ".bak" whenever it does not see the file.
LoadPatchConfigOrBackup ==
    /\ pc = "off"
    /\ pc' = "idle"
    /\ outcome' = "booted"
    /\ \E exists \in BOOLEAN :
          /\ DoesFileExist(path, exists)
          /\ loaded' = IF exists /\ path # Torn THEN path
                       ELSE IF bak # Torn THEN bak ELSE Absent
    /\ UNCHANGED <<files, text, acked, before>>

LoadPatchConfig ==
    /\ pc = "off"
    /\ pc' = "idle"
    /\ outcome' = "booted"
    /\ \E exists \in BOOLEAN :
          /\ DoesFileExist(path, exists)
          /\ loaded' = IF exists /\ path # Torn THEN path ELSE Absent
    /\ UNCHANGED <<files, text, acked, before>>

Step == \/ EnsureConfigRootDirs \/ DeleteTmp \/ CreateTmp \/ OpenTmp
        \/ WriteTmp \/ CheckPath \/ DeleteBak \/ Backup \/ Install
        \/ Restore \/ Cleanup \/ Finish

Next == Call \/ Step \/ PowerLoss \/ LoadPatchConfig

Spec == Init /\ [][Next]_vars

(***************************************************************************)
(* Properties                                                              *)
(***************************************************************************)

\* Neither the file nor its backup is ever a half-written text, whatever
\* call of WriteAllAtomic fails and wherever power is lost.
NoTornFile == path # Torn /\ bak # Torn

\* What WriteAllAtomic reported as saved survives every later failure, failed
\* save and power loss: the file, or the backup when the file is missing,
\* holds that text or a newer one.
SavedTextSurvives == Recoverable >= acked

\* A save that returns false (fs_util.cpp: every early return) leaves the
\* text that was there before it, in place or as the backup.
FailedSaveKeepsOldText == outcome = "failed" /\ pc = "idle" => Recoverable = before

\* LoadPatchConfig comes up with the built-in defaults or with a text no
\* older than the last acknowledged save; acknowledged texts that the owner of
\* the file has deleted do not count (LayoutFile says what does).
BootIsNoOlder ==
    outcome = "booted" /\ pc = "idle" /\ loaded # Absent => loaded >= acked

\* WriteAllAtomic implements the atomic register: what a recovery finds is
\* the register, the text of a running call is the pending one.
Register == INSTANCE AtomicReplace WITH
    power     <- pc # "off",
    committed <- Recoverable,
    pending   <- IF pc \in Steps THEN text ELSE 0,
    acked     <- acked

ImplementsAtomicReplace == Register!Spec
=============================================================================
