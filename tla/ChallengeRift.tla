--------------------------- MODULE ChallengeRift ---------------------------
(***************************************************************************)
(* Challenge rifts without a server: the callback hook that puts files of  *)
(* the SD card in place of the server's answer (PopulateChallengeRiftData, *)
(* d3/util.cpp), the parser hook that keeps copies of every challenge blob *)
(* it sees and remembers the challenge number, and the hooks that make a   *)
(* repeated run count for a reward (d3/hooks/debug.hpp).                   *)
(*                                                                         *)
(* The files of PopulateChallengeRiftData go through the same parser, so   *)
(* that its hook sees them too.  Data files are named by a number: the     *)
(* index of a rift in rift_data, or a challenge number in the copies.      *)
(***************************************************************************)
EXTENDS Integers

CONSTANTS
    Rifts,          \* indexes of the data files that rift_data may hold
    Numbers,        \* challenge numbers
    Players,
    confLocal,      \* the number in the config blob of rift_data, or None
    local,          \* the data files that rift_data does hold
    Choices         \* configurations the user applies

None == -1

\* ApplyTable swaps a range given the wrong way round.
Configs == {c \in [active : BOOLEAN, random : BOOLEAN, dump : BOOLEAN,
                   range_start : Rifts, range_end : Rifts] :
               c.range_start <= c.range_end}

ASSUME ChallengeRiftAssumption ==
    /\ Rifts \subseteq Nat
    /\ Numbers \subseteq Nat /\ {0, 1} \subseteq Numbers
    /\ confLocal \in Numbers \cup {None} /\ local \subseteq Rifts
    /\ Choices \subseteq Configs

VARIABLES
    conf,               \* global_config: challenge_rifts, and enable_pubfile_dump
    hooked,             \* the hooks are in the image (active at boot)
    confCache, cache,   \* pubfiles: the copies, by number
    s_last,             \* s_last_challenge_num, of the parser hook
    g_last,             \* g_last_challenge_number, of the reward hooks
    inbox,              \* the answer of the server that the callback will see
    weekly,             \* the number the game runs with, None before the first
    last,               \* nLastRewardChallengeNumber of every player
    \* observation only
    served,             \* the data blob the game got under this configuration
    allowed             \* EnablePubFileDump has been on at some time

config == <<conf, hooked>>
copies == <<confCache, cache>>
seen   == <<s_last, g_last>>
vars   == <<config, copies, seen, inbox, weekly, last, served, allowed>>

Names == Rifts \cup Numbers
Bad   == [from |-> "bad", id |-> 0]             \* a blob that does not parse
Local(i)  == [from |-> "rift_data", id |-> i]
Online(n) == [from |-> "server", id |-> n]
Blobs == {Bad} \cup {Local(i) : i \in Rifts} \cup {Online(n) : n \in Numbers}
NoBlob == [from |-> "none", id |-> 0]

\* What a config blob is here: its challenge number, or one that does not parse.
BadConf == -2
ConfBlobs == Numbers \cup {BadConf}

TypeOK ==
    /\ conf \in Choices /\ hooked \in BOOLEAN
    /\ confCache \in ConfBlobs \cup {None}
    /\ cache \in [Names -> Blobs \cup {NoBlob}]
    /\ s_last \in Numbers /\ g_last \in Numbers
    /\ inbox \in Numbers \cup {None}
    /\ weekly \in Numbers \cup {None}
    /\ last \in [Players -> Nat]
    /\ served \in Blobs \cup {NoBlob}
    /\ allowed \in BOOLEAN

Init ==
    /\ conf \in Choices /\ hooked = conf.active
    /\ confCache = None /\ cache = [n \in Names |-> NoBlob]
    /\ s_last = 0 /\ g_last = 0
    /\ inbox = None /\ weekly = None
    /\ last = [p \in Players |-> 0]
    /\ served = NoBlob /\ allowed = conf.dump

-----------------------------------------------------------------------------
(* The parser hook.                                                        *)

\* WriteTestFile: done, not begun, or stopped in the middle.
WriteTestFile(old, new, bad) == {old, new, bad}

\* Copies after the parser has seen config blob c and data blob d, by the
\* name that each is kept under; a blob that does not parse is not kept.
CacheChallengeRiftRaw(c, d, name) ==
    IF ~conf.dump THEN UNCHANGED copies
    ELSE /\ confCache' \in IF c \in Numbers THEN WriteTestFile(confCache, c, BadConf)
                           ELSE {confCache}
         /\ IF d \in {Bad, NoBlob} THEN UNCHANGED cache
            ELSE \E b \in WriteTestFile(cache[name], d, Bad) :
                    cache' = [cache EXCEPT ![name] = b]

SetLastChallengeNumber(n) == g_last' = IF n # 0 THEN n ELSE g_last

\* One config blob (or None), then one data blob (or NoBlob).
ParsePartialFromString(c, d) ==
    LET num == IF c \in Numbers THEN c ELSE s_last
    IN  /\ s_last' = num
        /\ IF c \in Numbers THEN SetLastChallengeNumber(c) ELSE UNCHANGED g_last
        /\ CacheChallengeRiftRaw(c, d, num)

-----------------------------------------------------------------------------

\* The user applies a configuration; the hooks stay as they are.
Configure(c) ==
    /\ conf' = c
    /\ allowed' = (allowed \/ c.dump)
    /\ served' = NoBlob
    /\ UNCHANGED <<hooked, copies, seen, inbox, weekly, last>>

\* Off and on again: what is in memory is lost, the players' saves are not.
Reboot ==
    /\ hooked' = conf.active
    /\ s_last' = 0 /\ g_last' = 0 /\ inbox' = None /\ weekly' = None
    /\ served' = NoBlob
    /\ UNCHANGED <<conf, copies, last, allowed>>

\* The server answers a request: the game parses the blobs of challenge n.
Download(n) ==
    /\ inbox = None
    /\ inbox' = n
    /\ IF hooked THEN ParsePartialFromString(n, Online(n)) ELSE UNCHANGED <<seen, copies>>
    /\ UNCHANGED <<config, weekly, last, served, allowed>>

\* What PopulateDataWithFallback may come up with: the copy, the file of
\* rift_data, or nothing; a file that is there may fail to be read.
Sources(copy, file, nothing) ==
    {s \in {[blob |-> copy, cached |-> TRUE], [blob |-> file, cached |-> FALSE]} :
        s.blob # nothing} \cup {[blob |-> nothing, cached |-> FALSE]}

\* Mutant: one past the range.
PicksPastEnd ==
    IF conf.random THEN {i \in Rifts : conf.range_start <= i /\ i <= conf.range_end + 1}
    ELSE {conf.range_start}

Picks ==
    IF conf.random THEN {i \in Rifts : conf.range_start <= i /\ i <= conf.range_end}
    ELSE {conf.range_start}

\* The number in the config that the game is handed: of the copy (anything,
\* if it did not parse), or a random one with a config of rift_data.
NumberOf(c) == IF c.cached /\ c.blob \in Numbers THEN {c.blob} ELSE Numbers

\* What the game gets when the callback hook calls the original with success.
Deliver(number, blob) == weekly' = number /\ served' = blob

\* The result says that both blobs were found; not that they parsed.
PopulateChallengeRiftData(pick, c, number) ==
    LET cache_pick == IF c.cached THEN number ELSE pick
        file       == IF pick \in local THEN Local(pick) ELSE NoBlob
    IN  \E d \in Sources(cache[cache_pick], file, NoBlob) :
        /\ ParsePartialFromString(c.blob, d.blob)
        /\ IF c.blob # None /\ d.blob # NoBlob
           THEN Deliver(number, d.blob)
           ELSE IF inbox # None
           \* The answer of the server stands, with what was overwritten so far.
           THEN Deliver(IF c.blob # None THEN number ELSE inbox,
                        IF d.blob # NoBlob THEN d.blob ELSE Online(inbox))
           ELSE UNCHANGED <<weekly, served>>

ChallengeRiftCallback ==
    /\ IF hooked /\ conf.active
       THEN \E pick \in Picks, c \in Sources(confCache, confLocal, None) :
            \E number \in NumberOf(c) : PopulateChallengeRiftData(pick, c, number)
       ELSE /\ IF inbox # None THEN Deliver(inbox, Online(inbox))
               ELSE UNCHANGED <<weekly, served>>
            /\ UNCHANGED <<seen, copies>>
    /\ inbox' = None
    /\ UNCHANGED <<config, last, allowed>>

-----------------------------------------------------------------------------
(* Rewards: the game gives one for each challenge number, by the number it *)
(* remembers for a player.                                                 *)

GetCurrentChallengeNumber ==
    IF g_last # 0 THEN g_last ELSE IF weekly \notin {0, None} THEN weekly ELSE 1

Rearmed(n) == IF n > 1 THEN n - 1 ELSE 1

Active == hooked /\ conf.active

\* The hook of OpenChallengeRift, then the game's own code.
OpenChallengeRift ==
    /\ weekly # None
    /\ last' = IF Active THEN [p \in Players |-> Rearmed(GetCurrentChallengeNumber)]
               ELSE last
    /\ UNCHANGED <<config, copies, seen, inbox, weekly, served, allowed>>

\* The game's own handler: it remembers the number it has rewarded.
Remembered(l, p) == [l EXCEPT ![p] = weekly]

\* The hook of ChallengeRiftHandleChallengeRewards: the game's handler runs
\* with a number that is rewound, and what it remembers is forgotten.
HandleChallengeRewards(p) ==
    /\ weekly # None
    /\ last' = IF Active
               THEN LET rewound == [last EXCEPT ![p] = Rearmed(GetCurrentChallengeNumber)]
                    IN  [Remembered(rewound, p) EXCEPT ![p] = 1]
               ELSE Remembered(last, p)
    /\ UNCHANGED <<config, copies, seen, inbox, weekly, served, allowed>>

Next ==
    \/ \E c \in Choices : Configure(c)
    \/ Reboot
    \/ \E n \in Numbers : Download(n)
    \/ ChallengeRiftCallback
    \/ OpenChallengeRift
    \/ \E p \in Players : HandleChallengeRewards(p)

Spec == Init /\ [][Next]_vars

-----------------------------------------------------------------------------

\* The game was given no file of rift_data but one that the configuration asks
\* for: the first of the range, or one inside it when rifts are random.
FromRange ==
    served.from = "rift_data" =>
        /\ conf.range_start <= served.id /\ served.id <= conf.range_end
        /\ ~conf.random => served.id = conf.range_start

\* Copies take the place of what the range asks for; but a user who never
\* allows them, by EnablePubFileDump, is only served from the range in force,
\* through every change of the configuration, answer of the server, file that
\* cannot be read and reboot.
RangeWithoutDump == ~allowed => FromRange
=============================================================================
