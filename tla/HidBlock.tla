------------------------------ MODULE HidBlock ------------------------------
(***************************************************************************)
(* gui2/input/hid_block.cpp: the nn::hid hooks that keep the pad from the  *)
(* game while the overlay is up, and the passthrough guard with which the  *)
(* overlay's own reads get past them.                                      *)
(*                                                                         *)
(* Four atomics, no lock: every load, store and read-modify-write is a     *)
(* step of its own, interleaved between the present thread, which sets the *)
(* flags and holds the guards, and the game's threads, which read the pad  *)
(* through the hooks.  (The weaker orders of the loads add nothing: depth  *)
(* and owner matter only to the thread that wrote them.)                   *)
(***************************************************************************)
EXTENDS Integers

CONSTANTS
    Game,           \* the game's threads
    Present,        \* the thread of OnPresent: sets flags, holds guards
    NoThread,       \* the token 0
    MaxNest         \* bound on guards held inside one another

ASSUME HidBlockAssumption ==
    /\ Present \notin Game
    /\ NoThread \notin Game \cup {Present}
    /\ MaxNest \in Nat \ {0}

Threads == Game \cup {Present}

VARIABLES
    block, allow,   \* g_block_gamepad_input_to_game, g_allow_left_stick_passthrough
    depth, owner,   \* g_hid_passthrough_depth, g_hid_passthrough_thread
    pc,             \* where each thread is in GetGamepadBlockMode
    allow_left,     \* what each thread has loaded of allow
    mode,           \* what its last GetGamepadBlockMode returned
    nest,           \* guards that the present thread holds
    step,           \* where it is in a guard's constructor or destructor, or a setter
    want,           \* the flags that it is setting
    aborted,        \* an EXL_ABORT_UNLESS fired
    seen            \* observation: the modes in force since the thread's call began

flags  == <<block, allow>>
guard  == <<depth, owner, nest>>
reader == <<pc, allow_left, mode>>
vars   == <<flags, guard, reader, step, want, aborted, seen>>

Modes   == {"None", "Full", "LeftStickOnly"}
Loads   == {"block", "allow", "depth", "thread"}
Steps   == {"idle", "owner", "sub", "depth", "clear", "allow"}

\* What UpdateFrame hands to the setters: the stick is only let through a block.
Flags == {f \in [block : BOOLEAN, allow : BOOLEAN] : f.allow => f.block}

\* The mode that the two flags stand for, to a thread without a guard.
ModeOf(b, a) ==
    IF ~b THEN "None" ELSE IF a THEN "LeftStickOnly" ELSE "Full"

\* What the hooks hand on of the real state in each mode.
Delivered(m) ==
    CASE m = "None"          -> {"buttons", "left stick", "right stick",
                                 "mouse", "keyboard"}
      [] m = "LeftStickOnly" -> {"left stick"}
      [] m = "Full"          -> {}

TypeOK ==
    /\ block \in BOOLEAN /\ allow \in BOOLEAN
    /\ depth \in 0..MaxNest /\ owner \in {NoThread, Present}
    /\ pc \in [Threads -> Loads \cup {"idle"}]
    /\ allow_left \in [Threads -> BOOLEAN]
    /\ mode \in [Threads -> Modes]
    /\ nest \in 0..MaxNest
    /\ step \in Steps
    /\ want \in Flags
    /\ aborted \in BOOLEAN
    /\ seen \in [Threads -> SUBSET Modes]

Init ==
    /\ block = FALSE /\ allow = FALSE
    /\ depth = 0 /\ owner = NoThread
    /\ pc = [t \in Threads |-> "idle"]
    /\ allow_left = [t \in Threads |-> FALSE]
    /\ mode = [t \in Threads |-> "None"]
    /\ nest = 0 /\ step = "idle"
    /\ want = [block |-> FALSE, allow |-> FALSE]
    /\ aborted = FALSE
    /\ seen = [t \in Threads |-> {"None"}]

-----------------------------------------------------------------------------
(* GetGamepadBlockMode: four loads.                                        *)

Goto(t, l) == pc' = [pc EXCEPT ![t] = l]

Return(t, m) == Goto(t, "idle") /\ mode' = [mode EXCEPT ![t] = m]

BlockedFully(t) == "Full"       \* mutant: the passthrough of the stick is forgotten

Blocked(t) == IF allow_left[t] THEN "LeftStickOnly" ELSE "Full"

Call(t) ==
    /\ pc[t] = "idle"
    /\ t = Present => step = "idle"
    /\ Goto(t, "block")
    /\ seen' = [seen EXCEPT ![t] = {ModeOf(block, allow)}]
    /\ UNCHANGED <<allow_left, mode>>

LoadBlock(t) ==
    /\ pc[t] = "block"
    /\ IF block THEN Goto(t, "allow") /\ UNCHANGED mode ELSE Return(t, "None")
    /\ UNCHANGED <<allow_left, seen>>

LoadAllow(t) ==
    /\ pc[t] = "allow"
    /\ allow_left' = [allow_left EXCEPT ![t] = allow]
    /\ Goto(t, "depth")
    /\ UNCHANGED <<mode, seen>>

LoadDepth(t) ==
    /\ pc[t] = "depth"
    /\ IF depth > 0 THEN Goto(t, "thread") /\ UNCHANGED mode ELSE Return(t, Blocked(t))
    /\ UNCHANGED <<allow_left, seen>>

LoadThreadAnyOwner(t) ==        \* mutant: does not compare the tokens
    /\ pc[t] = "thread"
    /\ Return(t, IF owner # NoThread THEN "None" ELSE Blocked(t))
    /\ UNCHANGED <<allow_left, seen>>

LoadThread(t) ==
    /\ pc[t] = "thread"
    /\ Return(t, IF owner = t THEN "None" ELSE Blocked(t))
    /\ UNCHANGED <<allow_left, seen>>

GetGamepadBlockMode(t) ==
    /\ Call(t) \/ LoadBlock(t) \/ LoadAllow(t) \/ LoadDepth(t) \/ LoadThread(t)
    /\ UNCHANGED <<flags, guard, step, want, aborted>>

-----------------------------------------------------------------------------
(* The present thread.  It runs one thing at a time.                       *)

At(s) == step = s /\ pc[Present] = "idle"

\* An aborted program takes no further step.
Check(ok) == aborted' = ~ok

\* ScopedHidPassthroughForOverlay(): fetch_add, then the owner is set or read.
Enter ==
    /\ At("idle") /\ nest < MaxNest
    /\ depth' = depth + 1
    /\ nest' = nest + 1
    /\ step' = "owner"
    /\ UNCHANGED <<owner, flags, want, aborted>>

EnterOwnerNever ==              \* mutant: the constructor does not record the thread
    /\ At("owner")
    /\ step' = "idle"
    /\ UNCHANGED <<depth, nest, owner, flags, want, aborted>>

EnterOwner ==
    /\ At("owner")
    /\ IF depth = 1 THEN owner' = Present /\ UNCHANGED aborted
       ELSE Check(owner = Present) /\ UNCHANGED owner
    /\ step' = "idle"
    /\ UNCHANGED <<depth, nest, flags, want>>

\* ~ScopedHidPassthroughForOverlay(): checks the owner, fetch_sub, and the
\* outermost guard resets both.
Leave ==
    /\ At("idle") /\ nest > 0
    /\ Check(owner \in {NoThread, Present})
    /\ step' = "sub"
    /\ UNCHANGED <<guard, flags, want>>

FetchSubClearAlways ==          \* mutant: resets with an outer guard still held
    /\ At("sub")
    /\ depth' = depth - 1
    /\ nest' = nest - 1
    /\ Check(depth > 0)
    /\ step' = "depth"
    /\ UNCHANGED <<owner, flags, want>>

FetchSub ==
    /\ At("sub")
    /\ depth' = depth - 1
    /\ nest' = nest - 1
    /\ Check(depth > 0)
    /\ step' = IF depth <= 1 THEN "depth" ELSE "idle"
    /\ UNCHANGED <<owner, flags, want>>

StoreDepth ==
    /\ At("depth")
    /\ depth' = 0
    /\ step' = "clear"
    /\ UNCHANGED <<nest, owner, flags, want, aborted>>

ClearOwner ==
    /\ At("clear")
    /\ owner' = NoThread
    /\ step' = "idle"
    /\ UNCHANGED <<depth, nest, flags, want, aborted>>

\* OnPresent: SetBlockGamepadInputToGame, then SetAllowLeftStickPassthrough.
SetBlockGamepadInputToGame ==
    /\ At("idle") /\ nest = 0
    /\ want' \in Flags
    /\ block' = want'.block
    /\ step' = "allow"
    /\ UNCHANGED <<guard, allow, aborted>>

SetAllowLeftStickPassthrough ==
    /\ At("allow")
    /\ allow' = want.allow
    /\ step' = "idle"
    /\ UNCHANGED <<guard, block, want, aborted>>

PresentThread ==
    /\ \/ Enter \/ EnterOwner
       \/ Leave \/ FetchSub \/ StoreDepth \/ ClearOwner
       \/ SetBlockGamepadInputToGame \/ SetAllowLeftStickPassthrough
    /\ seen' = [t \in Threads |-> IF pc[t] = "idle" THEN seen[t]
                                  ELSE seen[t] \cup {ModeOf(block', allow')}]
    /\ UNCHANGED reader

Next ==
    /\ ~aborted
    /\ PresentThread \/ \E t \in Threads : GetGamepadBlockMode(t)

Spec == Init /\ [][Next]_vars

-----------------------------------------------------------------------------

(* A game thread is never handed more of the pad than the flags allowed at *)
(* some moment of its call: the present thread's guard, taken and released *)
(* while the call is between two loads, lets nothing slip through.         *)
GameNeverOverGranted ==
    \A t \in Game : pc[t] = "idle" =>
        \E m \in seen[t] : Delivered(mode[t]) \subseteq Delivered(m)

(* A call during which the flags stood still gets exactly what they say,   *)
(* whatever the present thread does with its guard meanwhile: the game is  *)
(* not shut out of more than they shut it out of, either.                  *)
StillFlagsDecide ==
    \A t \in Game, m \in Modes :
        pc[t] = "idle" /\ seen[t] = {m} => mode[t] = m

(* The present thread reads the real pad whenever it holds a guard, nested *)
(* or not, and exactly what the flags say when it holds none: "while held, *)
(* the calling thread is allowed to query hid state even if input is       *)
(* blocked".                                                               *)
GuardDecidesForPresent ==
    [][pc[Present] # "idle" /\ pc'[Present] = "idle" =>
         mode'[Present] = IF nest > 0 THEN "None" ELSE ModeOf(block, allow)]_vars

(* No check of the guard's constructor or destructor aborts the game, in   *)
(* any order of guards taken and released by the present thread.           *)
NeverAborts == ~aborted

=============================================================================
