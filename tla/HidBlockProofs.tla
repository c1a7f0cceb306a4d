--------------------------- MODULE HidBlockProofs ---------------------------
(***************************************************************************)
(* Proofs about HidBlock, for any number of game threads and any nesting   *)
(* of guards.                                                              *)
(***************************************************************************)
EXTENDS HidBlock, TLAPS

\* The two guard atomics at each step of the present thread.
GuardInv ==
    /\ depth = nest
    /\ step \in {"idle", "allow"} => owner = IF nest > 0 THEN Present ELSE NoThread
    /\ step = "owner" => nest > 0 /\ (nest > 1 => owner = Present)
    /\ step = "sub" => nest > 0 /\ owner = Present
    /\ step \in {"depth", "clear"} => nest = 0
    /\ ~aborted

\* What the present thread has learned half-way through a call still holds.
PresentInv ==
    LET l == pc[Present]
    IN  /\ l # "idle" => step = "idle"
        /\ l \in {"allow", "depth", "thread"} => block
        /\ l \in {"depth", "thread"} => allow_left[Present] = allow
        /\ l = "thread" => nest > 0

\* A call has seen the mode now in force, and one that lets the left stick
\* through if it has loaded that.
ReaderInv ==
    \A t \in Threads : pc[t] # "idle" =>
        /\ ModeOf(block, allow) \in seen[t]
        /\ pc[t] \in {"depth", "thread"} /\ allow_left[t] =>
              seen[t] \cap {"None", "LeftStickOnly"} # {}

\* Conversely, one that has loaded a block has seen one, and one that has
\* loaded that the stick is not let through has seen a mode without it.
BlockedInv ==
    \A t \in Threads :
        /\ pc[t] \in {"allow", "depth", "thread"} => \E m \in seen[t] : m # "None"
        /\ pc[t] \in {"depth", "thread"} /\ ~allow_left[t] =>
              \E m \in seen[t] : m # "LeftStickOnly"

IndInv == TypeOK /\ GuardInv /\ PresentInv /\ ReaderInv /\ GameNeverOverGranted

StillInv == BlockedInv /\ StillFlagsDecide

-----------------------------------------------------------------------------

\* The threads and the token 0 are distinct.
LEMMA ThreadFacts == /\ Present \in Threads
                     /\ \A t \in Game : t \in Threads /\ t # Present
                     /\ NoThread \notin Threads
BY HidBlockAssumption DEF Threads

\* The modes in order of what they hand on.
LEMMA DeliveredOrder ==
    /\ \A m : Delivered("Full") \subseteq Delivered(m)
    /\ Delivered("LeftStickOnly") \subseteq Delivered("None")
BY DEF Delivered

\* The two flags always stand for one of the three modes.
LEMMA ModeOfModes == ASSUME NEW b, NEW a PROVE ModeOf(b, a) \in Modes
BY DEF ModeOf, Modes

\* The invariant holds before the hooks are installed.
LEMMA InitInv == Init => IndInv
<1> SUFFICES ASSUME Init PROVE IndInv
    OBVIOUS
<1>1. TypeOK
  <2>1. want \in Flags
    BY DEF Init, Flags
  <2>2. seen \in [Threads -> SUBSET Modes]
    BY DEF Init, Modes
  <2>3. /\ pc \in [Threads -> Loads \cup {"idle"}]
        /\ allow_left \in [Threads -> BOOLEAN]
        /\ mode \in [Threads -> Modes]
    BY DEF Init, Modes
  <2>4. depth \in 0..MaxNest /\ nest \in 0..MaxNest /\ step \in Steps
    BY HidBlockAssumption DEF Init, Steps
  <2> QED BY <2>1, <2>2, <2>3, <2>4 DEF Init, TypeOK
<1>2. GuardInv
    BY DEF Init, GuardInv
<1>3. PresentInv /\ ReaderInv
    BY ThreadFacts DEF Init, PresentInv, ReaderInv
<1>4. GameNeverOverGranted
    BY ThreadFacts DEF Init, GameNeverOverGranted
<1> QED BY <1>1, <1>2, <1>3, <1>4 DEF IndInv

-----------------------------------------------------------------------------

\* A load of one thread touches neither the atomics nor another thread.
LEMMA ReadStep ==
    ASSUME IndInv, ~aborted, NEW t \in Threads, GetGamepadBlockMode(t)
    PROVE  IndInv'
<1> USE DEF GetGamepadBlockMode
<1>a. Blocked(t) \in Modes
    BY DEF Blocked, Modes
<1>1. TypeOK'
    BY <1>a, ModeOfModes DEF IndInv, TypeOK, Call, LoadBlock, LoadAllow, LoadDepth,
       LoadThread, Goto, Return, Loads, Modes, flags, guard
<1>2. GuardInv'
    BY DEF IndInv, GuardInv, flags, guard
<1>3. PresentInv'
  <2>1. CASE t # Present
    BY <2>1, ThreadFacts DEF IndInv, TypeOK, PresentInv, Call, LoadBlock, LoadAllow,
       LoadDepth, LoadThread, Goto, Return, flags, guard
  <2>2. CASE t = Present
    BY <2>2, ThreadFacts DEF IndInv, TypeOK, GuardInv, PresentInv, Call, LoadBlock,
       LoadAllow, LoadDepth, LoadThread, Goto, Return, flags, guard
  <2> QED BY <2>1, <2>2
<1>4. ReaderInv'
  <2> SUFFICES ASSUME NEW u \in Threads, pc'[u] # "idle"
               PROVE  /\ ModeOf(block, allow) \in seen'[u]
                      /\ pc'[u] \in {"depth", "thread"} /\ allow_left'[u] =>
                            seen'[u] \cap {"None", "LeftStickOnly"} # {}
      BY DEF ReaderInv, flags
  <2>1. CASE u # t
    BY <2>1 DEF IndInv, TypeOK, ReaderInv, Call, LoadBlock, LoadAllow, LoadDepth,
       LoadThread, Goto, Return
  <2>2. CASE u = t
    <3>1. CASE Call(t)
      BY <2>2, <3>1 DEF IndInv, TypeOK, Call, Goto
    <3>2. CASE LoadBlock(t)
      BY <2>2, <3>2 DEF IndInv, TypeOK, ReaderInv, LoadBlock, Goto, Return
    <3>3. CASE LoadAllow(t)
      <4>1. allow => ModeOf(block, allow) \in {"None", "LeftStickOnly"}
        BY DEF ModeOf
      <4> QED BY <2>2, <3>3, <4>1 DEF IndInv, TypeOK, ReaderInv, LoadAllow, Goto
    <3>4. CASE LoadDepth(t)
      BY <2>2, <3>4 DEF IndInv, TypeOK, ReaderInv, LoadDepth, Goto, Return
    <3>5. CASE LoadThread(t)
      BY <2>2, <3>5 DEF IndInv, TypeOK, ReaderInv, LoadThread, Goto, Return
    <3> QED BY <3>1, <3>2, <3>3, <3>4, <3>5
  <2> QED BY <2>1, <2>2
<1>5. GameNeverOverGranted'
  <2> SUFFICES ASSUME NEW g \in Game, pc'[g] = "idle"
               PROVE  \E m \in seen'[g] : Delivered(mode'[g]) \subseteq Delivered(m)
      BY DEF GameNeverOverGranted
  <2>0. g \in Threads /\ g # Present
      BY ThreadFacts
  <2>1. CASE g # t
    BY <2>0, <2>1 DEF IndInv, TypeOK, GameNeverOverGranted, Call, LoadBlock, LoadAllow,
       LoadDepth, LoadThread, Goto, Return
  <2>2. CASE g = t
    <3>1. pc[t] # "idle" /\ seen' = seen
      BY <2>0, <2>2 DEF IndInv, TypeOK, Call, LoadBlock, LoadAllow, LoadDepth, LoadThread,
         Goto, Return
    <3>2. ModeOf(block, allow) \in seen[t]
      BY <3>1 DEF IndInv, ReaderInv
    <3>3. ASSUME mode'[t] = Blocked(t), pc[t] \in {"depth", "thread"}
          PROVE  \E m \in seen[t] : Delivered(mode'[t]) \subseteq Delivered(m)
      <4>1. CASE allow_left[t]
        <5>1. PICK m \in seen[t] : m \in {"None", "LeftStickOnly"}
          BY <3>3, <4>1 DEF IndInv, ReaderInv
        <5> QED BY <3>3, <4>1, <5>1, DeliveredOrder DEF Blocked
      <4>2. CASE ~allow_left[t]
        BY <3>2, <3>3, <4>2, DeliveredOrder DEF Blocked
      <4> QED BY <4>1, <4>2
    <3>4. CASE LoadBlock(t)
      <4>1. ~block /\ mode'[t] = "None"
        BY <2>2, <3>4 DEF IndInv, TypeOK, LoadBlock, Goto, Return
      <4> QED BY <2>2, <3>1, <3>2, <4>1 DEF ModeOf
    <3>5. CASE LoadDepth(t)
      <4>1. mode'[t] = Blocked(t) /\ pc[t] = "depth"
        BY <2>2, <3>5 DEF IndInv, TypeOK, LoadDepth, Goto, Return
      <4> QED BY <2>2, <3>1, <3>3, <4>1
    <3>6. CASE LoadThread(t)
      <4>1. owner # t
        BY <2>0, <2>2, ThreadFacts DEF IndInv, TypeOK
      <4>2. mode'[t] = Blocked(t) /\ pc[t] = "thread"
        BY <3>6, <4>1 DEF IndInv, TypeOK, LoadThread, Return
      <4> QED BY <2>2, <3>1, <3>3, <4>2
    <3> QED
      BY <2>2, <3>1, <3>4, <3>5, <3>6 DEF IndInv, TypeOK, Call, LoadAllow, Goto
  <2> QED BY <2>1, <2>2
<1> QED BY <1>1, <1>2, <1>3, <1>4, <1>5 DEF IndInv

\* A step of the present thread outside a call: it may change the flags and
\* the guard, and every call under way sees the flags it leaves.
LEMMA PresentStep ==
    ASSUME IndInv, ~aborted, PresentThread
    PROVE  IndInv'
<1> USE DEF PresentThread, At
<1>1. TypeOK'
  <2>1. seen' \in [Threads -> SUBSET Modes]
    BY ModeOfModes DEF IndInv, TypeOK
  <2>2. UNCHANGED reader /\ pc[Present] = "idle"
    BY DEF Enter, EnterOwner, Leave, FetchSub, StoreDepth, ClearOwner,
       SetBlockGamepadInputToGame, SetAllowLeftStickPassthrough
  <2>3. block' \in BOOLEAN /\ allow' \in BOOLEAN /\ want' \in Flags
    BY DEF IndInv, TypeOK, Enter, EnterOwner, Leave, FetchSub, StoreDepth, ClearOwner,
       SetBlockGamepadInputToGame, SetAllowLeftStickPassthrough, flags, Flags
  <2>4. /\ depth' \in 0..MaxNest /\ nest' \in 0..MaxNest
        /\ owner' \in {NoThread, Present}
        /\ step' \in Steps /\ aborted' \in BOOLEAN
    BY HidBlockAssumption DEF IndInv, TypeOK, GuardInv, Enter, EnterOwner, Leave, FetchSub,
       StoreDepth, ClearOwner, SetBlockGamepadInputToGame, SetAllowLeftStickPassthrough,
       Check, guard, Steps
  <2> QED BY <2>1, <2>2, <2>3, <2>4 DEF IndInv, TypeOK, reader
<1>2. GuardInv'
    BY HidBlockAssumption DEF IndInv, TypeOK, GuardInv, Enter, EnterOwner, Leave, FetchSub,
       StoreDepth, ClearOwner, SetBlockGamepadInputToGame, SetAllowLeftStickPassthrough,
       Check, guard
<1>3. PresentInv'
    BY DEF PresentInv, Enter, EnterOwner, Leave, FetchSub, StoreDepth, ClearOwner,
       SetBlockGamepadInputToGame, SetAllowLeftStickPassthrough, reader
<1>4. ReaderInv'
  <2> SUFFICES ASSUME NEW t \in Threads, pc[t] # "idle"
               PROVE  /\ ModeOf(block', allow') \in seen'[t]
                      /\ pc[t] \in {"depth", "thread"} /\ allow_left[t] =>
                            seen'[t] \cap {"None", "LeftStickOnly"} # {}
      BY DEF ReaderInv, reader, ModeOf
  <2>1. seen'[t] = seen[t] \cup {ModeOf(block', allow')}
    OBVIOUS
  <2> QED BY <2>1 DEF IndInv, ReaderInv
<1>5. GameNeverOverGranted'
    BY ThreadFacts DEF IndInv, GameNeverOverGranted, reader
<1> QED BY <1>1, <1>2, <1>3, <1>4, <1>5 DEF IndInv

\* The invariant does not depend on more than vars.
LEMMA StutterStep == ASSUME IndInv, UNCHANGED vars PROVE IndInv'
BY DEF IndInv, TypeOK, GuardInv, PresentInv, ReaderInv, GameNeverOverGranted, ModeOf,
   vars, flags, guard, reader

\* IndInv holds in every state, whatever the interleaving.
THEOREM Invariance == Spec => []IndInv
<1>1. IndInv /\ [Next]_vars => IndInv'
  BY ReadStep, PresentStep, StutterStep DEF Next
<1> QED BY InitInv, <1>1, PTL DEF Spec

\* The atomics and the threads' registers keep their types: in particular
\* the depth is never negative.
THEOREM TypeCorrect == Spec => []TypeOK
BY Invariance, PTL DEF IndInv

\* No game thread is handed more of the pad than the flags allowed at some
\* moment of its call, for any number of threads and any interleaving.
THEOREM GameIsolation == Spec => []GameNeverOverGranted
BY Invariance, PTL DEF IndInv

\* The checks in the guard's constructor and destructor never fire.
THEOREM NoAbort == Spec => []NeverAborts
<1>1. IndInv => NeverAborts
  BY DEF IndInv, GuardInv, NeverAborts
<1> QED BY Invariance, <1>1, PTL

\* Before the hooks are installed no call has been made.
LEMMA StillInit == Init => StillInv
BY ThreadFacts DEF Init, StillInv, BlockedInv, StillFlagsDecide

\* A load keeps what its thread has seen in step with what it has loaded.
LEMMA StillReadStep ==
    ASSUME IndInv, StillInv, NEW t \in Threads, GetGamepadBlockMode(t)
    PROVE  StillInv'
<1> USE DEF GetGamepadBlockMode
<1>1. BlockedInv'
  <2> SUFFICES ASSUME NEW u \in Threads
               PROVE  /\ pc'[u] \in {"allow", "depth", "thread"} =>
                            \E m \in seen'[u] : m # "None"
                      /\ pc'[u] \in {"depth", "thread"} /\ ~allow_left'[u] =>
                            \E m \in seen'[u] : m # "LeftStickOnly"
      BY DEF BlockedInv
  <2>1. CASE u # t
    BY <2>1 DEF IndInv, TypeOK, StillInv, BlockedInv, Call, LoadBlock, LoadAllow,
       LoadDepth, LoadThread, Goto, Return
  <2>2. CASE u = t
    <3>1. CASE Call(t)
      BY <2>2, <3>1 DEF IndInv, TypeOK, Call, Goto
    <3>2. CASE LoadBlock(t)
      BY <2>2, <3>2 DEF IndInv, TypeOK, ReaderInv, LoadBlock, Goto, Return, ModeOf
    <3>3. CASE LoadAllow(t)
      BY <2>2, <3>3 DEF IndInv, TypeOK, ReaderInv, StillInv, BlockedInv, LoadAllow, Goto,
         ModeOf
    <3>4. CASE LoadDepth(t)
      BY <2>2, <3>4 DEF IndInv, TypeOK, StillInv, BlockedInv, LoadDepth, Goto, Return
    <3>5. CASE LoadThread(t)
      BY <2>2, <3>5 DEF IndInv, TypeOK, LoadThread, Goto, Return
    <3> QED BY <3>1, <3>2, <3>3, <3>4, <3>5
  <2> QED BY <2>1, <2>2
<1>2. StillFlagsDecide'
  <2> SUFFICES ASSUME NEW g \in Game, NEW m \in Modes, pc'[g] = "idle", seen'[g] = {m}
               PROVE  mode'[g] = m
      BY DEF StillFlagsDecide
  <2>0. g \in Threads /\ g # Present
      BY ThreadFacts
  <2>1. CASE g # t
    BY <2>0, <2>1 DEF IndInv, TypeOK, StillInv, StillFlagsDecide, Call, LoadBlock,
       LoadAllow, LoadDepth, LoadThread, Goto, Return
  <2>2. CASE g = t
    <3>1. pc[t] # "idle" /\ seen' = seen
      BY <2>0, <2>2 DEF IndInv, TypeOK, Call, LoadBlock, LoadAllow, LoadDepth, LoadThread,
         Goto, Return
    <3>2. m = ModeOf(block, allow)
      BY <2>2, <3>1 DEF IndInv, ReaderInv
    <3>3. ASSUME pc[t] \in {"depth", "thread"}
          PROVE  Blocked(t) = m
      <4>1. m # "None"
        BY <2>2, <3>1, <3>3 DEF StillInv, BlockedInv
      <4>2. CASE allow_left[t]
        <5>1. m # "Full"
          BY <2>2, <3>1, <3>3, <4>2 DEF IndInv, ReaderInv
        <5> QED BY <4>1, <4>2, <5>1 DEF Blocked, Modes
      <4>3. CASE ~allow_left[t]
        <5>1. m # "LeftStickOnly"
          BY <2>2, <3>1, <3>3, <4>3 DEF StillInv, BlockedInv
        <5> QED BY <4>1, <4>3, <5>1 DEF Blocked, Modes
      <4> QED BY <4>2, <4>3
    <3>4. CASE LoadBlock(t)
      <4>1. ~block /\ mode'[t] = "None"
        BY <2>2, <3>4 DEF IndInv, TypeOK, LoadBlock, Goto, Return
      <4> QED BY <2>2, <3>2, <4>1 DEF ModeOf
    <3>5. CASE LoadDepth(t)
      <4>1. mode'[t] = Blocked(t) /\ pc[t] = "depth"
        BY <2>2, <3>5 DEF IndInv, TypeOK, LoadDepth, Goto, Return
      <4> QED BY <2>2, <3>3, <4>1
    <3>6. CASE LoadThread(t)
      <4>1. owner # t
        BY <2>0, <2>2, ThreadFacts DEF IndInv, TypeOK
      <4>2. mode'[t] = Blocked(t) /\ pc[t] = "thread"
        BY <3>6, <4>1 DEF IndInv, TypeOK, LoadThread, Return
      <4> QED BY <2>2, <3>3, <4>2
    <3> QED
      BY <2>2, <3>1, <3>4, <3>5, <3>6 DEF IndInv, TypeOK, Call, LoadAllow, Goto
  <2> QED BY <2>1, <2>2
<1> QED BY <1>1, <1>2 DEF StillInv

\* A call under way has seen all that it had, and more; one that has ended
\* sees nothing of what follows.
LEMMA StillPresentStep ==
    ASSUME IndInv, StillInv, PresentThread
    PROVE  StillInv'
<1>1. ASSUME NEW t \in Threads
      PROVE  seen[t] \subseteq seen'[t] /\ (pc[t] = "idle" => seen'[t] = seen[t])
    BY DEF PresentThread
<1>2. UNCHANGED reader
    BY DEF PresentThread
<1>3. BlockedInv'
    BY <1>1, <1>2 DEF StillInv, BlockedInv, reader
<1>4. StillFlagsDecide'
    BY <1>1, <1>2, ThreadFacts DEF StillInv, StillFlagsDecide, reader
<1> QED BY <1>3, <1>4 DEF StillInv

\* A call during which the flags stood still gets exactly their mode, for any
\* number of threads and whatever becomes of the guard meanwhile.
THEOREM StillFlagsAreObeyed == Spec => []StillFlagsDecide
<1>1. IndInv /\ StillInv /\ [Next]_vars => StillInv'
  <2>1. ASSUME IndInv, StillInv, Next PROVE StillInv'
    BY <2>1, StillReadStep, StillPresentStep DEF Next
  <2>2. ASSUME StillInv, UNCHANGED vars PROVE StillInv'
    BY <2>2 DEF StillInv, BlockedInv, StillFlagsDecide, vars, reader
  <2> QED BY <2>1, <2>2
<1>2. StillInv => StillFlagsDecide
  BY DEF StillInv
<1> QED BY StillInit, Invariance, <1>1, <1>2, PTL DEF Spec

\* The guard counts itself exactly, and the last one leaves nothing behind that
\* would let a later read past the block.
THEOREM GuardsAreReleased ==
    Spec => [](depth = nest /\ (nest = 0 /\ step = "idle" => owner = NoThread))
<1>1. IndInv => depth = nest /\ (nest = 0 /\ step = "idle" => owner = NoThread)
  BY DEF IndInv, GuardInv
<1> QED BY Invariance, <1>1, PTL

\* The present thread reads the pad exactly as its guards and the flags say.
THEOREM GuardDecides == Spec => GuardDecidesForPresent
<1> DEFINE A == pc[Present] # "idle" /\ pc'[Present] = "idle" =>
                  mode'[Present] = IF nest > 0 THEN "None" ELSE ModeOf(block, allow)
<1>1. IndInv /\ [Next]_vars => [A]_vars
  <2> SUFFICES ASSUME IndInv, Next, pc[Present] # "idle", pc'[Present] = "idle"
               PROVE  mode'[Present] = IF nest > 0 THEN "None" ELSE ModeOf(block, allow)
      OBVIOUS
  <2>1. ~PresentThread
    BY DEF PresentThread, reader
  <2>2. PICK t \in Threads : GetGamepadBlockMode(t)
    BY <2>1 DEF Next
  <2>3. t = Present
    BY <2>2, ThreadFacts DEF GetGamepadBlockMode, IndInv, TypeOK, Call, LoadBlock, LoadAllow,
       LoadDepth, LoadThread, Goto, Return
  <2>4. CASE LoadBlock(Present)
    BY <2>4, ThreadFacts DEF IndInv, TypeOK, LoadBlock, Goto, Return, ModeOf
  <2>5. CASE LoadDepth(Present)
    BY <2>5, ThreadFacts DEF IndInv, TypeOK, GuardInv, PresentInv, LoadDepth, Goto, Return,
       Blocked, ModeOf
  <2>6. CASE LoadThread(Present)
    BY <2>6, ThreadFacts DEF IndInv, TypeOK, GuardInv, PresentInv, LoadThread, Goto, Return
  <2> QED
    BY <2>2, <2>3, <2>4, <2>5, <2>6, ThreadFacts DEF GetGamepadBlockMode, IndInv, TypeOK,
       Call, LoadAllow, Goto
<1> QED BY Invariance, <1>1, PTL DEF Spec, GuardDecidesForPresent

=============================================================================
