------------------------------ MODULE PubFiles ------------------------------
(***************************************************************************)
(* The files the game's publisher serves (config, seasons, blacklist) and  *)
(* the hooks that stand between the online service's answer and the game   *)
(* (d3/hooks/season_events.hpp): each keeps a copy of what the server says *)
(* on the SD card, answers from the copy when the server does not, and     *)
(* puts the mod's own text in its place while the feature is switched on.  *)
(*                                                                         *)
(* The game hands over one answer at a time.  Meanwhile the present thread *)
(* may assign global_config (ApplyPatchConfigRuntime), which is read       *)
(* without a lock: it changes field by field, in an order nobody fixes,    *)
(* between the hook's reads.  A hook runs only after LoadPatchConfig, so   *)
(* its early return for an unready configuration is never taken.           *)
(***************************************************************************)
EXTENDS Naturals

CONSTANTS
    Flags,      \* event flags of [events] that the config text carries
    Seasons,    \* season numbers, as values
    Configs,    \* the configurations considered
    MaxTexts    \* bound on the answers that carry a text

Fields == {"events.active", "seasons.active", "current_season"} \cup Flags
Values == {"on", "off"} \cup Seasons
Unread == "unread"
Files == {"config", "seasons", "blacklist"}

ASSUME PubFilesAssumption ==
    /\ MaxTexts \in Nat
    /\ Configs \subseteq [Fields -> Values]
    /\ Unread \notin Values

VARIABLES
    on,             \* the game is running
    global,         \* global_config, a field at a time
    incoming, todo, \* the configuration being assigned and its fields to go
    named,          \* files whose name gives a path for the copy
    copy,           \* the copies on the SD card
    pc, file,       \* the hook that is running and where it is
    result, text,   \* what it will hand to the game
    own,            \* the fields its own text has been built from
    \* observation only
    answered,       \* the server's result of the answer in hand
    heard,          \* the newest text the server sent for each file
    kept,           \* that text has been written out completely
    seen,           \* the values that the fields it reads had while it ran
    sent            \* number of texts the server has sent

config == <<global, incoming, todo>>
hook == <<file, result, text, own, answered>>
history == <<heard, kept, sent>>
vars == <<on, config, named, copy, pc, hook, history, seen>>

\* "text" is the whole body of a good answer, "page" that of an error answer,
\* "part" a piece of one or an empty file, "own" the mod's text.
Texts == [kind : {"none", "part", "text", "page", "own"}, n : 0..MaxTexts]
None == [kind |-> "none", n |-> 0]
Part == [kind |-> "part", n |-> 0]
Own  == [kind |-> "own", n |-> 0]

\* What the hook of a file reads of global_config: its switch and its fields.
Switch(f) == IF f = "config" THEN "events.active" ELSE "seasons.active"
Reads(f) == CASE f = "config" -> Flags
              [] f = "seasons" -> {"current_season"}
              [] f = "blacklist" -> {}
Concerns(f, x) == x \in Reads(f) \/ (f # "blacklist" /\ x = Switch(f))

Steps == {"create", "write", "load", "switch", "test", "build", "orig"}
Nothing == [x \in Fields |-> Unread]

TypeOK ==
    /\ on \in BOOLEAN
    /\ global \in [Fields -> Values] /\ incoming \in Configs
    /\ todo \subseteq Fields /\ named \subseteq Files
    /\ copy \in [Files -> Texts] /\ heard \in [Files -> Texts]
    /\ pc \in Steps \cup {"idle"} /\ file \in Files
    /\ {result, answered} \subseteq {"ok", "error"}
    /\ text \in Texts
    /\ own \in [Fields -> Values \cup {Unread}]
    /\ kept \in [Files -> BOOLEAN]
    /\ seen \in [Fields -> SUBSET Values]
    /\ sent \in 0..MaxTexts

\* BuildPubfileCachePath: the config file's name is fixed; the other two come
\* from the command line and may have no usable last part.
Init ==
    /\ on = FALSE
    /\ incoming \in Configs /\ global = incoming /\ todo = {}
    /\ named \in {f \in SUBSET Files : "config" \in f}
    /\ copy = [f \in Files |-> None] /\ heard = copy
    /\ pc = "idle" /\ file = "config"
    /\ result = "ok" /\ answered = "ok" /\ text = None /\ own = Nothing
    /\ kept = [f \in Files |-> FALSE]
    /\ seen = [x \in Fields |-> {}]
    /\ sent = 0

(***************************************************************************)
(* The configuration.                                                      *)
(***************************************************************************)
LoadPatchConfig(c) ==
    /\ ~on
    /\ on' = TRUE
    /\ global' = c /\ incoming' = c /\ todo' = {}
    /\ UNCHANGED <<named, copy, pc, hook, history, seen>>

ApplyPatchConfigRuntime(c) ==
    /\ on /\ todo = {} /\ c # incoming
    /\ incoming' = c /\ todo' = Fields
    /\ UNCHANGED <<on, global, named, copy, pc, hook, history, seen>>

\* One member of the assignment global_config = config.
Assign(x) ==
    /\ on /\ x \in todo
    /\ global' = [global EXCEPT ![x] = incoming[x]]
    /\ todo' = todo \ {x}
    /\ seen' = IF pc = "idle" \/ ~Concerns(file, x) THEN seen
               ELSE [seen EXCEPT ![x] = @ \cup {incoming[x]}]
    /\ UNCHANGED <<on, incoming, named, copy, pc, hook, history>>

(***************************************************************************)
(* ConfigFileRetrieved, SeasonsFileRetrieved and BlacklistFileRetrieved.   *)
(***************************************************************************)
Overridable(f) == f # "blacklist"
Override(f) == IF Overridable(f) THEN "switch" ELSE "build"

\* The server answers, with a text or without one.
Answer(f, r, hasData) ==
    /\ on /\ pc = "idle"
    /\ hasData => sent < MaxTexts
    /\ file' = f /\ result' = r /\ answered' = r
    /\ text' = IF hasData THEN [kind |-> IF r = "ok" THEN "text" ELSE "page", n |-> sent + 1]
               ELSE None
    /\ sent' = IF hasData THEN sent + 1 ELSE sent
    /\ heard' = IF hasData THEN [heard EXCEPT ![f] = text'] ELSE heard
    /\ kept' = IF hasData THEN [kept EXCEPT ![f] = FALSE] ELSE kept
    /\ pc' = IF f \notin named THEN Override(f) ELSE IF hasData THEN "create" ELSE "load"
    /\ own' = Nothing
    /\ seen' = [x \in Fields |-> IF Concerns(f, x) THEN {global[x]} ELSE {}]
    /\ UNCHANGED <<on, config, named, copy>>

AfterCache == IF result = "ok" THEN Override(file) ELSE "load"

\* CachePubfile, up to the file being open: FileCreate empties the old copy.
CreateCopy ==
    /\ pc = "create"
    /\ \E c \in {copy[file], Part} :
          /\ copy' = [copy EXCEPT ![file] = c]
          /\ pc' = AfterCache \/ (c # None /\ pc' = "write")
    /\ UNCHANGED <<on, config, named, hook, history, seen>>

\* ... and FileWrite, which may write a part, or nothing.
WriteCopy ==
    /\ pc = "write"
    /\ \/ /\ copy' = [copy EXCEPT ![file] = text]
          /\ kept' = [kept EXCEPT ![file] = TRUE]
       \/ /\ \E c \in {copy[file], Part} : copy' = [copy EXCEPT ![file] = c]
          /\ UNCHANGED kept
    /\ pc' = AfterCache
    /\ UNCHANGED <<on, config, named, hook, heard, sent, seen>>

\* Mutant: an answer that cannot be bridged is reported as good all the same.
LoadCachedPubfileAlways ==
    /\ pc = "load"
    /\ result' = "ok"
    /\ text' = copy[file]
    /\ pc' = Override(file)
    /\ UNCHANGED <<on, config, named, copy, file, own, answered, history, seen>>

\* Mutant: the file is looked for at its own path and read from the config's.
LoadCachedPubfileConfig ==
    /\ pc = "load"
    /\ \/ /\ copy[file] # None
          /\ result' = "ok"
          /\ text' \in {copy["config"], None}
       \/ UNCHANGED <<result, text>>
    /\ pc' = Override(file)
    /\ UNCHANGED <<on, config, named, copy, file, own, answered, history, seen>>

\* The string that takes the copy may turn out empty for want of memory.
LoadCachedPubfile ==
    /\ pc = "load"
    /\ \/ /\ copy[file] # None
          /\ result' = "ok"
          /\ text' \in {copy[file], None}
       \/ UNCHANGED <<result, text>>
    /\ pc' = Override(file)
    /\ UNCHANGED <<on, config, named, copy, file, own, answered, history, seen>>

TestSwitch ==
    /\ pc = "switch"
    /\ IF global[Switch(file)] = "on" THEN pc' = "test" /\ result' = "ok"
       ELSE pc' = "orig" /\ UNCHANGED result
    /\ UNCHANGED <<on, config, named, copy, file, text, own, answered, history, seen>>

\* OverrideConfigIfNeeded and OverrideSeasonsIfNeeded look at it once more.
TestSwitchAgain ==
    /\ pc = "test"
    /\ pc' = IF global[Switch(file)] = "on" THEN "build" ELSE "orig"
    /\ UNCHANGED <<on, config, named, copy, hook, history, seen>>

\* Mutant: the field is taken from the configuration being assigned.
ReadFieldAhead(x) ==
    /\ pc = "build" /\ x \in Reads(file) /\ own[x] = Unread
    /\ own' = [own EXCEPT ![x] = incoming[x]]
    /\ UNCHANGED <<on, config, named, copy, pc, file, result, text, answered, history, seen>>

\* BuildConfigSwapString and BuildSeasonSwapString read their fields one by one.
ReadField(x) ==
    /\ pc = "build" /\ x \in Reads(file) /\ own[x] = Unread
    /\ own' = [own EXCEPT ![x] = global[x]]
    /\ UNCHANGED <<on, config, named, copy, pc, file, result, text, answered, history, seen>>

\* Mutant: the copy is written again with the text the game gets.
ReplaceBlzStringAndCopy ==
    /\ pc = "build"
    /\ \A x \in Reads(file) : own[x] # Unread
    /\ text' \in {Own, None}
    /\ copy' = [copy EXCEPT ![file] = text']
    /\ pc' = "orig"
    /\ UNCHANGED <<on, config, named, file, result, own, answered, history, seen>>

\* The blacklist keeps its result.
ReplaceBlzString ==
    /\ pc = "build"
    /\ \A x \in Reads(file) : own[x] # Unread
    /\ text' \in {Own, None}
    /\ pc' = "orig"
    /\ UNCHANGED <<on, config, named, copy, file, result, own, answered, history, seen>>

\* The game takes the result and the text.
Orig ==
    /\ pc = "orig"
    /\ pc' = "idle"
    /\ result' = "ok" /\ answered' = "ok" /\ text' = None /\ own' = Nothing
    /\ file' = "config"
    /\ seen' = [x \in Fields |-> {}]
    /\ UNCHANGED <<on, config, named, copy, history>>

PowerOff ==
    /\ on
    /\ on' = FALSE
    /\ pc' = "idle"
    /\ result' = "ok" /\ answered' = "ok" /\ text' = None /\ own' = Nothing
    /\ file' = "config"
    /\ seen' = [x \in Fields |-> {}]
    /\ todo' = {}
    /\ UNCHANGED <<global, incoming, named, copy, history>>

HookStep ==
    \/ CreateCopy \/ WriteCopy \/ LoadCachedPubfile
    \/ TestSwitch \/ TestSwitchAgain
    \/ \E x \in Fields : ReadField(x)
    \/ ReplaceBlzString \/ Orig

Next ==
    \/ \E c \in Configs : LoadPatchConfig(c) \/ ApplyPatchConfigRuntime(c)
    \/ \E x \in Fields : Assign(x)
    \/ \E f \in Files, r \in {"ok", "error"}, hasData \in BOOLEAN : Answer(f, r, hasData)
    \/ HookStep \/ PowerOff

Spec == Init /\ [][Next]_vars

(***************************************************************************)
(* Properties                                                              *)
(***************************************************************************)

\* The copy is the server's, never the mod's: once a text has been written
\* whole, the copy is that text and stays it through overrides, changes of
\* the configuration, outages and restarts, until the server sends another.
CopyIsTheServers ==
    \A f \in Files : copy[f].kind # "own" /\ (kept[f] => copy[f] = heard[f])

\* A server's text that the game gets as good is the newest one the server
\* sent, from the answer or from the copy, unless that one was not written.
GoodTextIsTheNewest ==
    pc = "orig" /\ result = "ok" /\ text.kind \in {"text", "page", "part"}
        => text = heard[file] \/ ~kept[file]

\* The game is told "good" only for a good answer, for a copy, or while the
\* switch was on; replacing the blacklist forges no result.
NoFalseSuccess ==
    pc = "orig" /\ result = "ok"
        => \/ answered = "ok" \/ copy[file] # None
           \/ Overridable(file) /\ "on" \in seen[Switch(file)]

\* Every field in the mod's text, and the switch that called for it, had that
\* value at some moment of this very call; a text that is not replaced means
\* that the switch was off at one.
TextIsOfTheMoment ==
    pc = "orig" =>
        /\ \A x \in Fields : own[x] # Unread => own[x] \in seen[x]
        /\ Overridable(file) /\ text = Own => "on" \in seen[Switch(file)]
        /\ Overridable(file) /\ text \notin {Own, None}
              => seen[Switch(file)] # {"on"}
=============================================================================
