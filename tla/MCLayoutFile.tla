---------------------------- MODULE MCLayoutFile ----------------------------
(* LayoutFile for TLC: four texts are enough for a save over a stale ".bak" *)
(* that follows a save interrupted between its two renames.                 *)
EXTENDS LayoutFile
=============================================================================
