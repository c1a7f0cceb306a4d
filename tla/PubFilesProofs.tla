--------------------------- MODULE PubFilesProofs ---------------------------
(***************************************************************************)
(* Proofs about PubFiles, for any configurations and any number of texts.  *)
(***************************************************************************)
EXTENDS PubFiles, TLAPS

\* Where the text in hand comes from at each step of a hook.
TextInv ==
    /\ \A f \in Files : heard[f].kind \notin {"own", "part"}
    /\ pc \in {"create", "write"} => text = heard[file] /\ text # None /\ ~kept[file]
    /\ pc \in Steps \ {"orig"} => text.kind # "own"
    /\ pc \in Steps /\ text.kind \in {"text", "page", "part"}
          => text = heard[file] \/ ~kept[file]

\* How a result became good.
ResultInv ==
    /\ pc \in {"create", "write", "load"} => result = answered
    /\ pc \in Steps /\ result = "ok"
          => \/ answered = "ok" \/ copy[file] # None
             \/ pc \in {"test", "build", "orig"} /\ Overridable(file)
                /\ "on" \in seen[Switch(file)]

\* What a hook has read is among the values seen, as is what it would read now.
SeenInv ==
    pc \in Steps =>
        /\ \A x \in Fields : Concerns(file, x) => global[x] \in seen[x]
        /\ \A x \in Fields : own[x] # Unread => own[x] \in seen[x]
        /\ pc \in {"switch", "test"} => Overridable(file)
        /\ pc \in {"test", "build"} /\ Overridable(file) => "on" \in seen[Switch(file)]
        /\ pc = "orig" /\ Overridable(file) /\ text = Own => "on" \in seen[Switch(file)]
        /\ pc = "orig" /\ Overridable(file) /\ text \notin {Own, None}
              => \E v \in seen[Switch(file)] : v # "on"

\* Nothing runs while the power is off.
PowerInv == ~on => pc = "idle"

IndInv == TypeOK /\ PowerInv /\ CopyIsTheServers /\ TextInv /\ ResultInv /\ SeenInv

\* The switch of a file is one of the fields its hook is concerned with.
LEMMA SwitchFacts ==
    /\ \A f : Switch(f) \in Fields
    /\ \A f : Overridable(f) => Concerns(f, Switch(f))
    /\ \A f \in Files : \A x : x \in Reads(f) => x \in Fields /\ Concerns(f, x)
BY DEF Switch, Fields, Concerns, Overridable, Reads, Files

\* The kinds of text are told apart by their names.
LEMMA TextFacts ==
    /\ None \in Texts /\ Part \in Texts /\ Own \in Texts
    /\ None.kind = "none" /\ Part.kind = "part" /\ Own.kind = "own"
BY PubFilesAssumption DEF None, Part, Own, Texts

\* The invariant holds before the first boot.
LEMMA InitInv == Init => IndInv
<1> SUFFICES ASSUME Init PROVE IndInv
    OBVIOUS
<1>1. TypeOK
  <2>1. incoming \in Configs /\ global \in [Fields -> Values]
      BY PubFilesAssumption DEF Init
  <2>2. named \subseteq Files /\ file \in Files
      BY DEF Init, Files
  <2>3. copy \in [Files -> Texts] /\ heard \in [Files -> Texts]
      BY TextFacts DEF Init
  <2>4. own \in [Fields -> Values \cup {Unread}] /\ seen \in [Fields -> SUBSET Values]
      BY DEF Init, Nothing
  <2>5. kept \in [Files -> BOOLEAN] /\ sent \in 0..MaxTexts
      BY PubFilesAssumption DEF Init
  <2>6. text \in Texts /\ todo \subseteq Fields
      BY TextFacts DEF Init
  <2> QED BY <2>1, <2>2, <2>3, <2>4, <2>5, <2>6 DEF Init, TypeOK
<1>2. CopyIsTheServers /\ TextInv
    BY TextFacts DEF Init, CopyIsTheServers, TextInv, Steps
<1>3. ResultInv /\ SeenInv /\ PowerInv
    BY DEF Init, ResultInv, SeenInv, PowerInv, Steps
<1> QED BY <1>1, <1>2, <1>3 DEF IndInv

-----------------------------------------------------------------------------

\* Nothing that happens to the configuration disturbs the copies or the text
\* in hand.
LEMMA ConfigStep ==
    ASSUME IndInv,
           \/ \E c \in Configs : LoadPatchConfig(c) \/ ApplyPatchConfigRuntime(c)
           \/ \E x \in Fields : Assign(x)
    PROVE  IndInv'
<1>1. /\ UNCHANGED <<named, copy, pc, hook, history>>
      /\ pc = "idle" \/ (on /\ on')
    BY DEF IndInv, PowerInv, LoadPatchConfig, ApplyPatchConfigRuntime, Assign, hook, history
<1>2. TypeOK'
  <2>1. ASSUME NEW c \in Configs, LoadPatchConfig(c) \/ ApplyPatchConfigRuntime(c)
        PROVE  TypeOK'
      BY <2>1, PubFilesAssumption
      DEF IndInv, TypeOK, LoadPatchConfig, ApplyPatchConfigRuntime, hook, history
  <2>2. ASSUME NEW x \in Fields, Assign(x)
        PROVE  TypeOK'
    <3>1. incoming[x] \in Values
        BY PubFilesAssumption DEF IndInv, TypeOK
    <3> QED BY <2>2, <3>1 DEF IndInv, TypeOK, Assign, hook, history
  <2> QED BY <2>1, <2>2
<1>3. PowerInv' /\ CopyIsTheServers' /\ TextInv'
    BY <1>1 DEF IndInv, PowerInv, CopyIsTheServers, TextInv, hook, history
<1>4. \A x \in Fields : seen[x] \subseteq seen'[x]
    BY DEF IndInv, TypeOK, LoadPatchConfig, ApplyPatchConfigRuntime, Assign
<1>5. ResultInv'
    BY <1>1, <1>4, SwitchFacts DEF IndInv, ResultInv, hook
<1>6. SeenInv'
  <2> SUFFICES ASSUME pc \in Steps PROVE SeenInv'
      BY <1>1 DEF SeenInv
  <2>1. \A x \in Fields : Concerns(file, x) => global'[x] \in seen'[x]
    <3>1. ASSUME NEW c \in Configs, ApplyPatchConfigRuntime(c)
          PROVE  \A x \in Fields : Concerns(file, x) => global'[x] \in seen'[x]
        BY <3>1 DEF IndInv, SeenInv, ApplyPatchConfigRuntime
    <3>2. ASSUME NEW y \in Fields, Assign(y)
          PROVE  \A x \in Fields : Concerns(file, x) => global'[x] \in seen'[x]
        BY <3>2 DEF IndInv, TypeOK, SeenInv, Assign, Steps
    <3>3. ASSUME NEW c \in Configs, LoadPatchConfig(c) PROVE FALSE
        BY <3>3 DEF IndInv, PowerInv, LoadPatchConfig, Steps
    <3> QED BY <3>1, <3>2, <3>3
  <2> QED BY <2>1, <1>1, <1>4, SwitchFacts DEF IndInv, SeenInv, hook
<1> QED BY <1>2, <1>3, <1>5, <1>6 DEF IndInv

\* A new answer starts a hook whose text is the newest.
LEMMA AnswerStep ==
    ASSUME IndInv, NEW f \in Files, NEW r \in {"ok", "error"}, NEW hasData \in BOOLEAN,
           Answer(f, r, hasData)
    PROVE  IndInv'
<1>1. text' \in Texts /\ sent' \in 0..MaxTexts /\ (hasData => text'.kind \in {"text", "page"})
    BY PubFilesAssumption, TextFacts DEF IndInv, TypeOK, Answer, Texts
<1>2. pc' \in {"create", "load", "switch", "build"}
    BY DEF Answer, Override
<1>3. TypeOK'
  <2>1. seen' \in [Fields -> SUBSET Values]
      BY DEF IndInv, TypeOK, Answer
  <2>2. heard' \in [Files -> Texts] /\ kept' \in [Files -> BOOLEAN]
      BY <1>1 DEF IndInv, TypeOK, Answer
  <2>3. own' \in [Fields -> Values \cup {Unread}]
      BY DEF Answer, Nothing
  <2>4. /\ on' \in BOOLEAN /\ named' \subseteq Files /\ copy' \in [Files -> Texts]
        /\ global' \in [Fields -> Values] /\ incoming' \in Configs /\ todo' \subseteq Fields
        /\ file' \in Files /\ {result', answered'} \subseteq {"ok", "error"}
      BY DEF IndInv, TypeOK, Answer, config
  <2> QED BY <1>1, <1>2, <2>1, <2>2, <2>3, <2>4 DEF TypeOK, Steps
<1>4. CopyIsTheServers'
    BY DEF IndInv, TypeOK, CopyIsTheServers, Answer
<1>5. TextInv'
  <2>1. text' = None \/ (hasData /\ text' = heard'[f] /\ ~kept'[f])
      BY DEF IndInv, TypeOK, Answer
  <2>2. \A g \in Files : heard'[g].kind \notin {"own", "part"}
      BY <1>1 DEF IndInv, TypeOK, TextInv, Answer
  <2>3. pc' = "create" => hasData
      BY DEF Answer, Override
  <2>4. file' = f
      BY DEF Answer
  <2>5. text'.kind # "own"
      BY <1>1, <2>1, TextFacts DEF Answer
  <2> QED BY <1>1, <1>2, <2>1, <2>2, <2>3, <2>4, <2>5, TextFacts DEF TextInv
<1>6. ResultInv' /\ PowerInv'
    BY DEF IndInv, ResultInv, PowerInv, Answer
<1>7. SeenInv'
  <2>1. pc' = "switch" => Overridable(f)
      BY DEF Answer, Override
  <2>2. pc' = "build" => ~Overridable(f)
      BY DEF Answer, Override
  <2> QED BY <1>2, <2>1, <2>2 DEF IndInv, TypeOK, SeenInv, Answer, config, Nothing
<1> QED BY <1>3, <1>4, <1>5, <1>6, <1>7 DEF IndInv

\* The copy is written from the text the server sent, before anything else
\* can have taken its place.
LEMMA CacheStep ==
    ASSUME IndInv, CreateCopy \/ WriteCopy
    PROVE  IndInv'
<1>1. /\ pc' \in {"write", "load", "switch", "build"} /\ pc \in {"create", "write"}
      /\ pc' = "switch" => Overridable(file)
      /\ pc' = "build" => ~Overridable(file)
    BY DEF CreateCopy, WriteCopy, AfterCache, Override
<1>2. /\ copy' \in [Files -> Texts] /\ kept' \in [Files -> BOOLEAN]
      /\ \A f \in Files \ {file} : copy'[f] = copy[f] /\ kept'[f] = kept[f]
      /\ kept'[file] => copy'[file] = text
      /\ copy'[file] \in {copy[file], Part, text}
      /\ pc' = "write" => ~kept'[file]
    BY <1>1, TextFacts
    DEF IndInv, TypeOK, TextInv, CreateCopy, WriteCopy, AfterCache, Override, history
<1>3. UNCHANGED <<on, config, named, file, result, text, own, answered, heard, sent, seen>>
    BY DEF CreateCopy, WriteCopy, hook, history
<1>4. text = heard[file] /\ text # None /\ text.kind # "own"
    BY <1>1 DEF IndInv, TextInv, Steps
<1>5. TypeOK' /\ PowerInv'
    BY <1>1, <1>2, <1>3 DEF IndInv, TypeOK, PowerInv, config, Steps
<1>6. CopyIsTheServers'
    BY <1>2, <1>3, <1>4, TextFacts DEF IndInv, TypeOK, CopyIsTheServers
<1>7. TextInv'
    BY <1>1, <1>2, <1>3, <1>4 DEF IndInv, TextInv, Steps
<1>8. ResultInv'
    BY <1>1, <1>2, <1>3, <1>4, TextFacts DEF IndInv, TypeOK, ResultInv, Steps
<1>9. SeenInv'
    BY <1>1, <1>3 DEF IndInv, SeenInv, config, Steps
<1> QED BY <1>5, <1>6, <1>7, <1>8, <1>9 DEF IndInv

\* A copy that is used is the newest text, if that has been written.
LEMMA LoadStep ==
    ASSUME IndInv, LoadCachedPubfile
    PROVE  IndInv'
<1>1. /\ pc = "load" /\ pc' \in {"switch", "build"}
      /\ pc' = "switch" => Overridable(file)
      /\ pc' = "build" => ~Overridable(file)
    BY DEF LoadCachedPubfile, Override
<1>2. UNCHANGED <<on, config, named, copy, file, own, answered, history, seen>>
    BY DEF LoadCachedPubfile
<1>3. copy[file] \in Texts /\ copy[file].kind # "own" /\ (kept[file] => copy[file] = heard[file])
    BY DEF IndInv, TypeOK, CopyIsTheServers
<1>4. /\ text' \in {text, copy[file], None}
      /\ result' \in {result, "ok"}
      /\ result' # result => copy[file] # None
    BY DEF LoadCachedPubfile
<1>5. TypeOK' /\ PowerInv' /\ CopyIsTheServers'
    BY <1>1, <1>2, <1>3, <1>4, TextFacts
    DEF IndInv, TypeOK, PowerInv, CopyIsTheServers, config, history, Steps
<1>6. TextInv'
    BY <1>1, <1>2, <1>3, <1>4, TextFacts DEF IndInv, TextInv, history, Steps
<1>7. ResultInv'
    BY <1>1, <1>2, <1>4 DEF IndInv, ResultInv, Steps
<1>8. SeenInv'
    BY <1>1, <1>2 DEF IndInv, SeenInv, config, Steps
<1> QED BY <1>5, <1>6, <1>7, <1>8 DEF IndInv

\* The two looks at the switch.
LEMMA SwitchStep ==
    ASSUME IndInv, TestSwitch \/ TestSwitchAgain
    PROVE  IndInv'
<1>1. /\ pc \in {"switch", "test"} /\ pc' \in {"test", "build", "orig"}
      /\ pc' # "orig" => global[Switch(file)] = "on" \/ pc = "test"
      /\ pc' = "orig" => global[Switch(file)] # "on"
      /\ result' \in {result, "ok"}
      /\ result' # result => global[Switch(file)] = "on" /\ pc' = "test"
      /\ UNCHANGED <<on, config, named, copy, file, text, own, answered, history, seen>>
    BY DEF TestSwitch, TestSwitchAgain, hook
<1>2. /\ Overridable(file) /\ global[Switch(file)] \in seen[Switch(file)]
      /\ pc = "test" => "on" \in seen[Switch(file)]
    BY <1>1, SwitchFacts DEF IndInv, SeenInv, Steps
<1>3. TypeOK' /\ PowerInv' /\ CopyIsTheServers'
    BY <1>1 DEF IndInv, TypeOK, PowerInv, CopyIsTheServers, config, history, Steps
<1>4. TextInv'
    BY <1>1 DEF IndInv, TextInv, history, Steps
<1>5. ResultInv'
    BY <1>1, <1>2 DEF IndInv, ResultInv, Steps
<1>6. SeenInv'
  <2>1. text # Own
      BY <1>1, TextFacts DEF IndInv, TextInv, Steps
  <2> QED BY <1>1, <1>2, <2>1 DEF IndInv, SeenInv, config, Steps
<1> QED BY <1>3, <1>4, <1>5, <1>6 DEF IndInv

\* The mod's own text.
LEMMA BuildStep ==
    ASSUME IndInv, (\E x \in Fields : ReadField(x)) \/ ReplaceBlzString
    PROVE  IndInv'
<1>1. ASSUME NEW x \in Fields, ReadField(x) PROVE IndInv'
  <2> USE <1>1 DEF ReadField
  <2>1. global[x] \in seen[x] /\ global[x] \in Values
      BY SwitchFacts DEF IndInv, TypeOK, SeenInv, Steps
  <2>2. TypeOK' /\ PowerInv' /\ CopyIsTheServers'
      BY <2>1 DEF IndInv, TypeOK, PowerInv, CopyIsTheServers, config, history
  <2>3. TextInv' /\ ResultInv'
      BY DEF IndInv, TextInv, ResultInv, history
  <2>4. SeenInv'
      BY <2>1 DEF IndInv, TypeOK, SeenInv, config
  <2> QED BY <2>2, <2>3, <2>4 DEF IndInv
<1>2. ASSUME ReplaceBlzString PROVE IndInv'
  <2> USE <1>2 DEF ReplaceBlzString
  <2>1. TypeOK' /\ PowerInv' /\ CopyIsTheServers'
      BY TextFacts DEF IndInv, TypeOK, PowerInv, CopyIsTheServers, config, history, Steps
  <2>2. TextInv' /\ ResultInv'
      BY TextFacts DEF IndInv, TextInv, ResultInv, history, Steps
  <2>3. SeenInv'
      BY DEF IndInv, SeenInv, config, Steps
  <2> QED BY <2>1, <2>2, <2>3 DEF IndInv
<1> QED BY <1>1, <1>2

\* The end of a hook, by its return or by the power.
LEMMA EndStep ==
    ASSUME IndInv, Orig \/ PowerOff
    PROVE  IndInv'
<1>1. /\ pc' = "idle" /\ result' = "ok" /\ answered' = "ok" /\ text' = None
      /\ own' = Nothing /\ file' = "config" /\ seen' = [x \in Fields |-> {}]
      /\ todo' \subseteq todo /\ on' \in BOOLEAN
      /\ UNCHANGED <<global, incoming, named, copy, history>>
    BY DEF IndInv, TypeOK, Orig, PowerOff, config
<1>2. TypeOK'
    BY <1>1, TextFacts DEF IndInv, TypeOK, history, Nothing, Files
<1>3. PowerInv' /\ CopyIsTheServers' /\ TextInv' /\ ResultInv' /\ SeenInv'
    BY <1>1 DEF IndInv, PowerInv, CopyIsTheServers, TextInv, ResultInv, SeenInv, history, Steps
<1> QED BY <1>2, <1>3 DEF IndInv

\* Every step keeps the invariant.
LEMMA NextInv == IndInv /\ [Next]_vars => IndInv'
<1> SUFFICES ASSUME IndInv, [Next]_vars PROVE IndInv'
    OBVIOUS
<1>1. CASE Next
    BY <1>1, ConfigStep, AnswerStep, CacheStep, LoadStep, SwitchStep, BuildStep, EndStep
    DEF Next, HookStep
<1>2. CASE UNCHANGED vars
    BY <1>2 DEF vars, config, hook, history, IndInv, TypeOK, PowerInv, CopyIsTheServers,
       TextInv, ResultInv, SeenInv
<1> QED BY <1>1, <1>2

\* The invariant gives the four properties of the hooks.
LEMMA InvImplies ==
    IndInv => /\ GoodTextIsTheNewest /\ NoFalseSuccess /\ TextIsOfTheMoment
<1> SUFFICES ASSUME IndInv
             PROVE  GoodTextIsTheNewest /\ NoFalseSuccess /\ TextIsOfTheMoment
    OBVIOUS
<1>1. GoodTextIsTheNewest
    BY DEF IndInv, TextInv, GoodTextIsTheNewest, Steps
<1>2. NoFalseSuccess
    BY DEF IndInv, ResultInv, NoFalseSuccess, Steps
<1>3. TextIsOfTheMoment
    BY DEF IndInv, SeenInv, TextIsOfTheMoment, Steps
<1> QED BY <1>1, <1>2, <1>3

-----------------------------------------------------------------------------

\* PubFiles.TypeOK holds for any configurations and any number of texts.
THEOREM PubFilesTypeCorrect == Spec => []TypeOK
<1>1. IndInv => TypeOK
    BY DEF IndInv
<1> QED BY <1>1, InitInv, NextInv, PTL DEF Spec

\* The copies on the card are the server's texts, never the mod's own, in
\* every run of any length (season_events.hpp: the copy is written before the
\* override).
THEOREM CopiesAreTheServers == Spec => []CopyIsTheServers
<1>1. IndInv => CopyIsTheServers
    BY DEF IndInv
<1> QED BY <1>1, InitInv, NextInv, PTL DEF Spec

\* What the game takes as a good text of the server is its newest, if that
\* one was written out.
THEOREM GoodTextsAreTheNewest == Spec => []GoodTextIsTheNewest
<1> QED BY InitInv, NextInv, InvImplies, PTL DEF Spec

\* No error of the server becomes a success without a copy or an override.
THEOREM ErrorsAreHandedOn == Spec => []NoFalseSuccess
<1> QED BY InitInv, NextInv, InvImplies, PTL DEF Spec

\* However an assignment of global_config interleaves with a hook's reads,
\* each value the hook acts on was in force during that call.
THEOREM ReadsAreOfTheMoment == Spec => []TextIsOfTheMoment
<1> QED BY InitInv, NextInv, InvImplies, PTL DEF Spec
=============================================================================
