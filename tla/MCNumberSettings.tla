-------------------------- MODULE MCNumberSettings --------------------------
(***************************************************************************)
(* NumberSettings for TLC.  The numbers are read, checked and written in   *)
(* four groups that do not look at one another, so a file has the keys of  *)
(* one group only, and the window changes one group at a time.             *)
(***************************************************************************)
EXTENDS NumberSettings

Heights == {700, 2160}
Texts == {480, 3000}
Scales == {NaN, 80, 4300}
Percents == {None, NaN, 5, 90}
Ends == {None, NaN, 500, 2000}
Speeds == {NaN, 123}
MCTyped == {-5, 50, 1790}

Unsaid == [k \in FileKeys |-> None]

MCFiles ==
    {[Unsaid EXCEPT !.target = v] : v \in Heights} \cup
    {[Unsaid EXCEPT !.target_text = v] : v \in Texts} \cup
    {[Unsaid EXCEPT !.handheld = v] : v \in Scales} \cup
    {[Unsaid EXCEPT !.min_scale = v, !.max_scale = w] : v, w \in Percents} \cup
    {[Unsaid EXCEPT !.range_start = v, !.range_end = w] : v, w \in Ends} \cup
    {[Unsaid EXCEPT !.move_speed = v] : v \in Speeds}

Group == {{"target"}, {"handheld"}, {"min_scale", "max_scale"},
          {"range_start", "range_end"}, {"move_speed"}}

OneGroup(c) == \E g \in Group : \A k \in Keys \ g : c[k] = Defaults[k]
=============================================================================
