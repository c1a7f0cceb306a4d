------------------------ MODULE NumberSettingsProofs ------------------------
(***************************************************************************)
(* Whatever numbers the file gives and the player types, those in force    *)
(* are legal.  Everything that reaches global_config comes out of          *)
(* ApplyTable; so the central lemma is that ApplyTable makes a legal       *)
(* record of any table.                                                    *)
(***************************************************************************)
EXTENDS NumberSettings, TLAPS

Tables ==
    {t \in [FileKeys -> Int \cup {None, NaN}] : t.target_text \in (1..Word - 1) \cup {None}}

\* The record while the setters work on it.
Records ==
    [target : Int, handheld : Int, min_scale : Int, max_scale : Int,
     range_start : Int, range_end : Int, move_speed : Int \cup {NaN}]

LEMMA Marks == None \notin Int /\ NaN \notin Int /\ None # NaN
BY NumbersAssumption

\* What division by a step gives.
LEMMA StepsOf ==
    ASSUME NEW u \in 4250..10250
    PROVE  u \div 500 \in 8..20
OBVIOUS

\* A handheld scale comes out as "auto" or as a step of five percent.
LEMMA HandheldIsAStep ==
    ASSUME NEW v \in Int
    PROVE  NormalizeHandheldScale(v) \in HandheldSteps
<1>1. CASE v <= 0
  BY <1>1 DEF NormalizeHandheldScale, HandheldSteps
<1>2. CASE v > 0
  <2> DEFINE w == Clamp(v, 4000, 10000)
             q == (w + 250) \div 500
  <2>1. w \in 4000..10000
    <3>1. v # NaN
      BY Marks
    <3> QED
      BY <3>1 DEF Clamp
  <2> HIDE DEF w
  <2>2. q \in 8..20
    <3> DEFINE u == w + 250
    <3>1. u \in 4250..10250
      BY <2>1
    <3> HIDE DEF u
    <3>2. u \div 500 \in 8..20
      BY <3>1, StepsOf
    <3> QED
      BY <3>2 DEF u
  <2> HIDE DEF q
  <2>3. q * 500 \in 4000..10000
    BY <2>2
  <2>4. Clamp(q * 500, 4000, 10000) = 500 * q
    BY <2>2, <2>3, Marks DEF Clamp
  <2>5. NormalizeHandheldScale(v) = 500 * q
    BY <1>2, <2>4 DEF NormalizeHandheldScale, q, w
  <2> QED
    BY <2>2, <2>5 DEF HandheldSteps
<1> QED
  BY <1>1, <1>2

LEMMA StepsAreNumbers == HandheldSteps \subseteq Int
BY DEF HandheldSteps

\* What the schema's setters keep.
SchemaLegal(c) ==
    /\ c \in Records
    /\ c.target \in 1..kMaxDevMem
    /\ c.handheld \in HandheldSteps
    /\ c.min_scale \in 10..100 /\ c.max_scale \in c.min_scale..100

LEMMA DefaultsLegal == SchemaLegal(Defaults)
<1>1. 8000 \in HandheldSteps
  BY 8000 = 500 * 16 DEF HandheldSteps
<1> QED
  BY <1>1 DEF SchemaLegal, Defaults, Records, kMaxDevMem

\* What the setter of the output target may be given.
Outputs == 1..Word - 1

LEMMA TargetSetter ==
    ASSUME NEW c, SchemaLegal(c), NEW v \in Outputs
    PROVE  SchemaLegal(SetReshackOutputTarget(c, v))
<1> DEFINE w == IF v < MaxResolutionHackOutputTarget THEN v ELSE MaxResolutionHackOutputTarget
<1>1. w \in 1..kMaxDevMem
  BY NumbersAssumption DEF Outputs, MaxResolutionHackOutputTarget, kMaxDefault, kMaxDevMem
<1>2. SetReshackOutputTarget(c, v) = [c EXCEPT !.target = w]
  BY DEF SetReshackOutputTarget
<1> HIDE DEF w
<1> DEFINE r == SetReshackOutputTarget(c, v)
<1>3. /\ r.target = w /\ r.handheld = c.handheld
      /\ r.min_scale = c.min_scale /\ r.max_scale = c.max_scale
  BY <1>2 DEF SchemaLegal, Records
<1>4. r \in Records
  <2>1. w \in Int
    BY <1>1 DEF kMaxDevMem
  <2> QED
    BY <1>2, <2>1 DEF SchemaLegal, Records
<1> HIDE DEF r
<1>5. SchemaLegal(r)
  BY <1>1, <1>3, <1>4 DEF SchemaLegal
<1> QED
  BY <1>5 DEF r

\* A number is within the schema's bounds, a text within those of u32.
LEMMA OutputTargetIsLegal ==
    ASSUME NEW t \in Tables
    PROVE  SchemaLegal(ApplyOutputTarget(Defaults, t))
<1> DEFINE v == t.target
           x == t.target_text
<1>1. v \in Int \cup {None, NaN} /\ x \in (1..Word - 1) \cup {None}
  BY DEF Tables, FileKeys, Keys
<1>2. ApplyOutputTarget(Defaults, t) =
        IF Finite(v) THEN SetReshackOutputTarget(Defaults, Clamp(v, 720, 2160))
        ELSE IF v = None /\ x # None THEN SetReshackOutputTarget(Defaults, x)
        ELSE Defaults
  BY DEF ApplyOutputTarget
<1> HIDE DEF v, x
<1>3. CASE Finite(v)
  <2> DEFINE w == Clamp(v, 720, 2160)
  <2>1. w \in Outputs
    BY <1>1, <1>3, Marks, NumbersAssumption DEF Finite, Clamp, Outputs
  <2> HIDE DEF w
  <2>2. SchemaLegal(SetReshackOutputTarget(Defaults, w))
    BY <2>1, DefaultsLegal, TargetSetter
  <2> QED
    BY <1>2, <1>3, <2>2 DEF w
<1>4. CASE ~Finite(v) /\ v = None /\ x # None
  <2>1. x \in Outputs
    BY <1>1, <1>4 DEF Outputs
  <2>2. SchemaLegal(SetReshackOutputTarget(Defaults, x))
    BY <2>1, DefaultsLegal, TargetSetter
  <2> QED
    BY <1>2, <1>4, <2>2
<1>5. CASE ~Finite(v) /\ ~(v = None /\ x # None)
  BY <1>2, <1>5, DefaultsLegal
<1> QED
  BY <1>3, <1>4, <1>5

LEMMA HandheldSetter ==
    ASSUME NEW c, SchemaLegal(c), NEW v \in Int
    PROVE  SchemaLegal(SetReshackOutputHandheldScale(c, v))
<1> DEFINE w == IF v > 0 /\ v <= 100 THEN v * 100 ELSE v
           h == NormalizeHandheldScale(w)
<1>1. w \in Int
  OBVIOUS
<1> HIDE DEF w
<1>2. h \in HandheldSteps
  BY <1>1, HandheldIsAStep
<1>4. SetReshackOutputHandheldScale(c, v) = [c EXCEPT !.handheld = h]
  BY DEF SetReshackOutputHandheldScale, w
<1> HIDE DEF h
<1>3. h \in Int
  BY <1>2, StepsAreNumbers
<1> QED
  BY <1>2, <1>3, <1>4 DEF SchemaLegal, Records

LEMMA MinSetter ==
    ASSUME NEW c, SchemaLegal(c), NEW v \in Int
    PROVE  SchemaLegal(SetReshackMinResScale(c, v))
<1> DEFINE low == Clamp(v, 10, 100)
<1>1. low \in 10..100
  BY Marks DEF Clamp
<1> HIDE DEF low
<1> DEFINE high == IF c.max_scale < low THEN low ELSE c.max_scale
<1>2. SetReshackMinResScale(c, v) = [c EXCEPT !.min_scale = low, !.max_scale = high]
  BY DEF SetReshackMinResScale, low
<1>3. high \in low..100
  BY <1>1 DEF SchemaLegal
<1> HIDE DEF high
<1> DEFINE r == SetReshackMinResScale(c, v)
<1>4. /\ r.target = c.target /\ r.handheld = c.handheld
      /\ r.min_scale = low /\ r.max_scale = high
  BY <1>2 DEF SchemaLegal, Records
<1>5. r \in Records
  <2>1. low \in Int /\ high \in Int
    BY <1>1, <1>3
  <2> QED
    BY <1>2, <2>1 DEF SchemaLegal, Records
<1> HIDE DEF r
<1>6. SchemaLegal(r)
  BY <1>1, <1>3, <1>4, <1>5 DEF SchemaLegal
<1> QED
  BY <1>6 DEF r

LEMMA MaxSetter ==
    ASSUME NEW c, SchemaLegal(c), NEW v \in Int
    PROVE  SchemaLegal(SetReshackMaxResScale(c, v))
<1> DEFINE high == Clamp(v, 10, 100)
<1>1. high \in 10..100
  BY Marks DEF Clamp
<1> HIDE DEF high
<1> DEFINE low == IF high < c.min_scale THEN high ELSE c.min_scale
<1>2. SetReshackMaxResScale(c, v) = [c EXCEPT !.max_scale = high, !.min_scale = low]
  BY DEF SetReshackMaxResScale, high
<1>3. low \in 10..100 /\ high \in low..100
  BY <1>1 DEF SchemaLegal
<1> HIDE DEF low
<1> DEFINE r == SetReshackMaxResScale(c, v)
<1>4. /\ r.target = c.target /\ r.handheld = c.handheld
      /\ r.min_scale = low /\ r.max_scale = high
  BY <1>2 DEF SchemaLegal, Records
<1>5. r \in Records
  <2>1. low \in Int /\ high \in Int
    BY <1>1, <1>3
  <2> QED
    BY <1>2, <2>1 DEF SchemaLegal, Records
<1> HIDE DEF r
<1>6. SchemaLegal(r)
  BY <1>1, <1>3, <1>4, <1>5 DEF SchemaLegal
<1> QED
  BY <1>6 DEF r

\* The schema's entries, in the order in which they are read.
LEMMA SchemaIsLegal ==
    ASSUME NEW t \in Tables
    PROVE  SchemaLegal(ApplyTomlTable(Defaults, t))
<1> DEFINE a == ApplyOutputTarget(Defaults, t)
           b == IF Finite(t.handheld)
                THEN SetReshackOutputHandheldScale(a, Clamp(t.handheld, 0, 10000)) ELSE a
           d == IF Finite(t.min_scale)
                THEN SetReshackMinResScale(b, Clamp(t.min_scale, 10, 100)) ELSE b
           e == IF Finite(t.max_scale)
                THEN SetReshackMaxResScale(d, Clamp(t.max_scale, 10, 100)) ELSE d
<1>1. /\ Finite(t.handheld) => t.handheld \in Int
      /\ Finite(t.min_scale) => t.min_scale \in Int
      /\ Finite(t.max_scale) => t.max_scale \in Int
  BY DEF Tables, FileKeys, Keys, Finite
<1>2. SchemaLegal(a)
  BY OutputTargetIsLegal
<1> HIDE DEF a
<1>3. SchemaLegal(b)
  <2>1. CASE Finite(t.handheld)
    <3> DEFINE v == t.handheld
               w == Clamp(v, 0, 10000)
    <3>1. v \in Int
      BY <1>1, <2>1
    <3> HIDE DEF v
    <3>2. w \in Int
      BY <3>1, Marks DEF Clamp
    <3> HIDE DEF w
    <3>3. SchemaLegal(SetReshackOutputHandheldScale(a, w))
      BY <3>2, <1>2, HandheldSetter
    <3> QED
      BY <2>1, <3>3 DEF v, w
  <2>2. CASE ~Finite(t.handheld)
    BY <2>2, <1>2
  <2> QED
    BY <2>1, <2>2
<1> HIDE DEF b
<1>4. SchemaLegal(d)
  <2>1. CASE Finite(t.min_scale)
    <3> DEFINE v == t.min_scale
               w == Clamp(v, 10, 100)
    <3>1. v \in Int
      BY <1>1, <2>1
    <3> HIDE DEF v
    <3>2. w \in Int
      BY <3>1, Marks DEF Clamp
    <3> HIDE DEF w
    <3>3. SchemaLegal(SetReshackMinResScale(b, w))
      BY <3>2, <1>3, MinSetter
    <3> QED
      BY <2>1, <3>3 DEF v, w
  <2>2. CASE ~Finite(t.min_scale)
    BY <2>2, <1>3
  <2> QED
    BY <2>1, <2>2
<1> HIDE DEF d
<1>5. SchemaLegal(e)
  <2>1. CASE Finite(t.max_scale)
    <3> DEFINE v == t.max_scale
               w == Clamp(v, 10, 100)
    <3>1. v \in Int
      BY <1>1, <2>1
    <3> HIDE DEF v
    <3>2. w \in Int
      BY <3>1, Marks DEF Clamp
    <3> HIDE DEF w
    <3>3. SchemaLegal(SetReshackMaxResScale(d, w))
      BY <3>2, <1>4, MaxSetter
    <3> QED
      BY <2>1, <3>3 DEF v, w
  <2>2. CASE ~Finite(t.max_scale)
    BY <2>2, <1>4
  <2> QED
    BY <2>1, <2>2
<1>6. ApplyTomlTable(Defaults, t) = e
  BY DEF ApplyTomlTable, a, b, d
<1> HIDE DEF e
<1> QED
  BY <1>5, <1>6

\* An end of the range is a count below a thousand, nan included.
Ends == 0..999

LEMMA EndInBounds ==
    ASSUME NEW v \in Int \cup {None, NaN}, NEW fallback \in Ends
    PROVE  ReadU32(v, fallback, 0, 999) \in Ends
<1> USE DEF Ends
<1>1. CASE v = None
  BY <1>1 DEF ReadU32
<1>2. CASE v = NaN
  BY <1>2, Marks DEF ReadU32, Clamp, ToU32
<1>3. CASE v \in Int
  <2>1. Clamp(v, 0, 999) \in 0..999
    BY <1>3, Marks DEF Clamp
  <2> QED
    BY <1>3, <2>1, Marks DEF ReadU32, ToU32
<1> QED
  BY <1>1, <1>2, <1>3

LEMMA FactorInBounds ==
    ASSUME NEW v \in Int \cup {None, NaN}
    PROVE  ReadDouble(v, 250, 10, 1000) \in (10..1000) \cup {NaN}
<1>1. CASE v = None
  BY <1>1 DEF ReadDouble
<1>2. CASE v = NaN
  BY <1>2, Marks DEF ReadDouble, Clamp
<1>3. CASE v \in Int
  BY <1>3, Marks DEF ReadDouble, Clamp
<1> QED
  BY <1>1, <1>2, <1>3

\* The schema leaves the other settings at their defaults.
LEMMA SchemaLeavesOthers ==
    ASSUME NEW t
    PROVE  LET c == ApplyTomlTable(Defaults, t)
           IN  c.range_start = 0 /\ c.range_end = 20 /\ c.move_speed = 250
BY DEF ApplyTomlTable, ApplyOutputTarget, Defaults, SetReshackOutputTarget, SetReshackOutputHandheldScale,
       SetReshackMinResScale, SetReshackMaxResScale

\* Reading a table gives legal numbers, whatever is in it.
LEMMA TableIsLegal ==
    ASSUME NEW t \in Tables
    PROVE  ApplyTable(t) \in Records /\ Legal(ApplyTable(t))
<1> DEFINE c == ApplyTomlTable(Defaults, t)
           start == ReadU32(t.range_start, c.range_start, 0, 999)
           end == ReadU32(t.range_end, c.range_end, 0, 999)
           speed == ReadDouble(t.move_speed, c.move_speed, 10, 1000)
           first == IF start > end THEN end ELSE start
           last == IF start > end THEN start ELSE end
           n == [c EXCEPT !.range_start = first, !.range_end = last, !.move_speed = speed]
<1>1. SchemaLegal(c)
  BY SchemaIsLegal
<1>2. c.range_start = 0 /\ c.range_end = 20 /\ c.move_speed = 250
  BY SchemaLeavesOthers
<1>3. t.range_start \in Int \cup {None, NaN} /\ t.range_end \in Int \cup {None, NaN}
      /\ t.move_speed \in Int \cup {None, NaN}
  BY DEF Tables, FileKeys, Keys
<1> HIDE DEF c
<1>4. start \in 0..999 /\ end \in 0..999
  <2> DEFINE v == t.range_start
             w == t.range_end
  <2>1. v \in Int \cup {None, NaN} /\ w \in Int \cup {None, NaN}
    BY <1>3
  <2> HIDE DEF v, w
  <2>2. 0 \in Ends /\ 20 \in Ends
    BY DEF Ends
  <2>3. ReadU32(v, 0, 0, 999) \in Ends
    BY <2>1, <2>2, EndInBounds
  <2>4. ReadU32(w, 20, 0, 999) \in Ends
    BY <2>1, <2>2, EndInBounds
  <2> QED
    BY <1>2, <2>3, <2>4 DEF v, w, Ends
<1>5. speed \in (10..1000) \cup {NaN}
  <2> DEFINE v == t.move_speed
  <2>1. v \in Int \cup {None, NaN}
    BY <1>3
  <2> HIDE DEF v
  <2>2. ReadDouble(v, 250, 10, 1000) \in (10..1000) \cup {NaN}
    BY <2>1, FactorInBounds
  <2> QED
    BY <1>2, <2>2 DEF v
<1>6. ApplyTable(t) = n
  BY DEF ApplyTable, c
<1> HIDE DEF start, end, speed
<1>7. first \in 0..999 /\ last \in 0..999 /\ first <= last
  BY <1>4
<1> HIDE DEF first, last
<1>8. n \in Records
  <2>1. first \in Int /\ last \in Int /\ speed \in Int \cup {NaN}
    BY <1>5, <1>7
  <2> QED
    BY <1>1, <2>1 DEF SchemaLegal, Records
<1>9. /\ n.target = c.target /\ n.handheld = c.handheld
      /\ n.min_scale = c.min_scale /\ n.max_scale = c.max_scale
      /\ n.range_start = first /\ n.range_end = last /\ n.move_speed = speed
  BY <1>1 DEF SchemaLegal, Records
<1> HIDE DEF n
<1>10. Legal(n)
  <2>1. n.range_end \in n.range_start..999
    BY <1>7, <1>9
  <2>2. n.max_scale \in n.min_scale..100
    BY <1>1, <1>9 DEF SchemaLegal
  <2> QED
    BY <1>1, <1>5, <1>7, <1>9, <2>1, <2>2 DEF SchemaLegal, Legal
<1> QED
  BY <1>6, <1>8, <1>10 DEF n

\* A record written out is a table without a text, whatever the widgets have
\* put into it.
LEMMA RecordIsATable ==
    ASSUME NEW c \in Records
    PROVE  BuildPatchConfigTable(c) \in Tables /\ BuildPatchConfigTable(c).target_text = None
<1>1. Round1Decimal(c.move_speed) \in Int \cup {NaN}
  BY DEF Records, Round1Decimal
<1>2. \A k \in Keys : c[k] \in Int \cup {NaN}
  BY DEF Records, Keys
<1>3. BuildPatchConfigTable(c) \in [FileKeys -> Int \cup {None, NaN}]
  BY <1>1, <1>2 DEF FileKeys, BuildPatchConfigTable
<1>4. BuildPatchConfigTable(c).target_text = None
  BY DEF FileKeys, BuildPatchConfigTable
<1> QED
  BY <1>3, <1>4 DEF Tables

\* Without a text the lower bound of the target holds as well.
LEMMA NumberTarget ==
    ASSUME NEW t \in Tables, t.target_text = None
    PROVE  ApplyTable(t).target >= 720
<1> DEFINE v == t.target
           a == ApplyOutputTarget(Defaults, t)
<1>1. ApplyTable(t).target = a.target
  <2>1. SchemaLegal(a) /\ a \in Records
    BY OutputTargetIsLegal DEF SchemaLegal
  <2> HIDE DEF a
  <2>2. ApplyTomlTable(Defaults, t).target = a.target
    BY <2>1 DEF ApplyTomlTable, a, Records, SetReshackOutputHandheldScale,
                SetReshackMinResScale, SetReshackMaxResScale
  <2> QED
    BY <2>2, SchemaIsLegal DEF ApplyTable, SchemaLegal, Records
<1>2. v \in Int \cup {None, NaN}
  BY DEF Tables, FileKeys, Keys
<1>3. a.target = IF Finite(v) THEN SetReshackOutputTarget(Defaults, Clamp(v, 720, 2160)).target
                 ELSE 1080
  BY DEF ApplyOutputTarget, Defaults
<1> HIDE DEF v
<1>4. a.target >= 720
  <2> HIDE DEF a
  <2>1. CASE Finite(v)
    <3> DEFINE w == Clamp(v, 720, 2160)
    <3>1. w \in 720..2160
      BY <1>2, <2>1, Marks DEF Finite, Clamp
    <3> HIDE DEF w
    <3>2. SetReshackOutputTarget(Defaults, w).target >= 720
      BY <3>1 DEF SetReshackOutputTarget, Defaults, MaxResolutionHackOutputTarget,
                  kMaxDefault, kMaxDevMem
    <3> QED
      BY <1>3, <2>1, <3>2 DEF w
  <2>2. CASE ~Finite(v)
    BY <1>3, <2>2
  <2> QED
    BY <2>1, <2>2
<1> QED
  BY <1>1, <1>4

LEMMA NormalizedIsLegal ==
    ASSUME NEW c \in Records
    PROVE  /\ NormalizePatchConfig(c) \in Records /\ Legal(NormalizePatchConfig(c))
           /\ NormalizePatchConfig(c).target >= 720
BY RecordIsATable, TableIsLegal, NumberTarget DEF NormalizePatchConfig

(***************************************************************************)
(* The inductive invariant: the working copy may hold any numbers, the     *)
(* configuration in force only legal ones.                                 *)
(***************************************************************************)
IndInv ==
    /\ file \in Tables
    /\ cfg \in Records /\ global \in Records
    /\ InForceIsLegal

LEMMA InitIndInv == Init => IndInv
<1> SUFFICES ASSUME Init PROVE IndInv
  OBVIOUS
<1>1. file \in Tables
  BY NumbersAssumption DEF Init, Tables
<1>2. Defaults \in Records /\ Legal(Defaults)
  BY DefaultsLegal DEF SchemaLegal, Defaults, Legal
<1> QED
  BY <1>1, <1>2 DEF Init, IndInv, InForceIsLegal

\* Each widget leaves a record of numbers.
LEMMA WidgetsKeepRecords ==
    ASSUME IndInv, NEW v \in Typed,
           EditTarget(v) \/ EditHandheld(v) \/ EditScales(v) \/ EditRange(v) \/ EditSpeed(v)
    PROVE  IndInv'
<1>1. v \in Int /\ Word \in Int
  BY NumbersAssumption
<1>2. UNCHANGED <<file, global, as_booted>>
  BY DEF EditTarget, EditHandheld, EditScales, EditRange, EditSpeed, Widget
<1>3. cfg' \in Records
  <2>1. CASE EditTarget(v)
    <3>1. SnapOutputTarget(v) \in Int
      <4> DEFINE near == {t \in {720, 900, 1080, 1440, 1800, 2160} : Distance(v, t) <= 20}
      <4>1. near # {} => (CHOOSE t \in near : TRUE) \in near
        OBVIOUS
      <4> QED
        BY <1>1, <4>1 DEF SnapOutputTarget
    <3>2. ToU32(SnapOutputTarget(v)) \in Int
      BY <1>1, <3>1 DEF ToU32
    <3>3. cfg' = [cfg EXCEPT !.target = ToU32(SnapOutputTarget(v))]
      BY <2>1 DEF EditTarget, Widget
    <3> QED
      BY <3>2, <3>3 DEF IndInv, Records
  <2>2. CASE EditHandheld(v)
    <3> DEFINE w == Clamp(v, 4000, 10000)
    <3>1. w \in Int
      BY <1>1, Marks DEF Clamp
    <3> HIDE DEF w
    <3>2. NormalizeHandheldScale(w) \in Int
      BY <3>1, HandheldIsAStep, StepsAreNumbers
    <3>3. \E h \in Int : cfg' = [cfg EXCEPT !.handheld = h]
      BY <2>2, <3>2 DEF EditHandheld, Widget, w
    <3> QED
      BY <3>3 DEF IndInv, Records
  <2>3. CASE EditScales(v)
    BY <1>1, <2>3 DEF EditScales, Widget, IndInv, Records
  <2>4. CASE EditRange(v)
    <3>1. PICK end \in {"range_start", "range_end"} :
             cfg' = [cfg EXCEPT ![end] = IF v < 0 THEN 0 ELSE v]
      BY <2>4 DEF EditRange, Widget
    <3>2. (IF v < 0 THEN 0 ELSE v) \in Int
      BY <1>1
    <3> QED
      BY <3>1, <3>2 DEF IndInv, Records
  <2>5. CASE EditSpeed(v)
    BY <1>1, <2>5 DEF EditSpeed, Widget, IndInv, Records
  <2> QED
    BY <2>1, <2>2, <2>3, <2>4, <2>5
<1> QED
  BY <1>2, <1>3 DEF IndInv, InForceIsLegal, Legal

LEMMA NextIndInv == IndInv /\ [Next]_vars => IndInv'
<1> SUFFICES ASSUME IndInv, [Next]_vars PROVE IndInv'
  OBVIOUS
<1>1. CASE Boot
  <2>1. ApplyTable(file) \in Records /\ Legal(ApplyTable(file))
    BY TableIsLegal DEF IndInv
  <2> QED
    BY <1>1, <2>1 DEF Boot, IndInv, InForceIsLegal
<1>2. CASE PowerOff
  BY <1>2 DEF PowerOff, IndInv, InForceIsLegal
<1>3. CASE EditFile
  BY <1>3, NumbersAssumption DEF EditFile, IndInv, InForceIsLegal, Tables
<1>4. CASE SetDevMem
  BY <1>4 DEF SetDevMem, IndInv, InForceIsLegal
<1>5. CASE \E v \in Typed : EditTarget(v) \/ EditHandheld(v) \/ EditScales(v)
                            \/ EditRange(v) \/ EditSpeed(v)
  BY <1>5, WidgetsKeepRecords
<1>6. CASE RenderTarget
  <2>1. MaxResolutionHackOutputTarget \in Int
    BY DEF MaxResolutionHackOutputTarget, kMaxDefault, kMaxDevMem
  <2>2. cfg' = [cfg EXCEPT !.target = MaxResolutionHackOutputTarget] /\ UNCHANGED <<file, global, as_booted>>
    BY <1>6 DEF RenderTarget, Widget
  <2> QED
    BY <2>1, <2>2 DEF IndInv, InForceIsLegal, Records
<1>7. CASE Reload
  <2>1. ApplyTable(file) \in Records
    BY TableIsLegal DEF IndInv
  <2>2. NormalizePatchConfig(ApplyTable(file)) \in Records
        /\ Legal(NormalizePatchConfig(ApplyTable(file)))
        /\ NormalizePatchConfig(ApplyTable(file)).target >= 720
    BY <2>1, NormalizedIsLegal
  <2> QED
    BY <1>7, <2>2 DEF Reload, TakeIn, IndInv, InForceIsLegal
<1>8. CASE Apply
  <2>1. /\ NormalizePatchConfig(cfg) \in Records /\ Legal(NormalizePatchConfig(cfg))
        /\ NormalizePatchConfig(cfg).target >= 720
    BY NormalizedIsLegal DEF IndInv
  <2> QED
    BY <1>8, <2>1 DEF Apply, TakeIn, IndInv, InForceIsLegal
<1>9. CASE Revert
  BY <1>9 DEF Revert, IndInv, InForceIsLegal
<1>10. CASE Save
  <2>1. BuildPatchConfigTable(NormalizePatchConfig(cfg)) \in Tables
    BY NormalizedIsLegal, RecordIsATable DEF IndInv
  <2> QED
    BY <1>10, <2>1 DEF Save, SavePatchConfigToPath, IndInv, InForceIsLegal
<1>11. CASE UNCHANGED vars
  BY <1>11 DEF vars, IndInv, InForceIsLegal
<1> QED
  BY <1>1, <1>2, <1>3, <1>4, <1>5, <1>6, <1>7, <1>8, <1>9, <1>10, <1>11 DEF Next

\* Whatever the file says and whatever the player types, the numbers in force
\* are in their bounds and no pair is upside down; and the target is at least
\* 720 once something has been applied or reloaded.
THEOREM NumbersAreLegal == Spec => []InForceIsLegal
<1>1. IndInv => InForceIsLegal
  BY DEF IndInv
<1> QED
  BY <1>1, InitIndInv, NextIndInv, PTL DEF Spec

(***************************************************************************)
(* Saving keeps what the player has left alone.  What a table says of each *)
(* number by itself, whatever the game's developer mode is:                *)
(***************************************************************************)
ReadHandheld(t) ==
    IF Finite(t.handheld)
    THEN LET v == Clamp(t.handheld, 0, 10000)
         IN  NormalizeHandheldScale(IF v > 0 /\ v <= 100 THEN v * 100 ELSE v)
    ELSE 8000
LowOf(t) == IF Finite(t.min_scale) THEN Clamp(Clamp(t.min_scale, 10, 100), 10, 100) ELSE 85
HighOf(t) == IF Finite(t.max_scale) THEN Clamp(Clamp(t.max_scale, 10, 100), 10, 100) ELSE 100
ReadMin(t) == IF HighOf(t) < LowOf(t) THEN HighOf(t) ELSE LowOf(t)
StartOf(t) == ReadU32(t.range_start, 0, 0, 999)
EndOf(t) == ReadU32(t.range_end, 20, 0, 999)
ReadStart(t) == IF StartOf(t) > EndOf(t) THEN EndOf(t) ELSE StartOf(t)
ReadEnd(t) == IF StartOf(t) > EndOf(t) THEN StartOf(t) ELSE EndOf(t)
ReadSpeed(t) == ReadDouble(t.move_speed, 250, 10, 1000)
RawTarget(t) ==
    IF Finite(t.target) THEN Clamp(t.target, 720, 2160)
    ELSE IF t.target = None /\ t.target_text # None THEN t.target_text ELSE 1080

LEMMA ScaleEnds ==
    ASSUME NEW t \in Tables
    PROVE  LowOf(t) \in 10..100 /\ HighOf(t) \in 10..100
<1>1. t.min_scale \in Int \cup {None, NaN} /\ t.max_scale \in Int \cup {None, NaN}
  BY DEF Tables, FileKeys, Keys
<1>2. \A v \in Int : Clamp(Clamp(v, 10, 100), 10, 100) \in 10..100
  BY Marks DEF Clamp
<1> QED
  BY <1>1, <1>2 DEF LowOf, HighOf, Finite

\* ApplyTable reads each of them so, but for the cap on the target.
LEMMA FieldsOf ==
    ASSUME NEW t \in Tables
    PROVE  LET n == ApplyTable(t)
           IN  /\ n.handheld = ReadHandheld(t)
               /\ n.min_scale = ReadMin(t) /\ n.max_scale = HighOf(t)
               /\ n.range_start = ReadStart(t) /\ n.range_end = ReadEnd(t)
               /\ n.move_speed = ReadSpeed(t)
               /\ n.target = IF RawTarget(t) < MaxResolutionHackOutputTarget
                             THEN RawTarget(t) ELSE MaxResolutionHackOutputTarget
<1> DEFINE a == ApplyOutputTarget(Defaults, t)
           b == IF Finite(t.handheld)
                THEN SetReshackOutputHandheldScale(a, Clamp(t.handheld, 0, 10000)) ELSE a
           d == IF Finite(t.min_scale)
                THEN SetReshackMinResScale(b, Clamp(t.min_scale, 10, 100)) ELSE b
           e == IF Finite(t.max_scale)
                THEN SetReshackMaxResScale(d, Clamp(t.max_scale, 10, 100)) ELSE d
           cap == MaxResolutionHackOutputTarget
<1>1. a = [Defaults EXCEPT !.target = IF RawTarget(t) < cap THEN RawTarget(t) ELSE cap]
  <2>1. cap \in {1440, 2160}
    BY DEF MaxResolutionHackOutputTarget, kMaxDefault, kMaxDevMem
  <2> HIDE DEF cap
  <2>2. Defaults = [Defaults EXCEPT !.target = IF 1080 < cap THEN 1080 ELSE cap]
    BY <2>1 DEF Defaults
  <2> QED
    BY <2>2 DEF ApplyOutputTarget, SetReshackOutputTarget, RawTarget, cap
<1>2. /\ a.target = IF RawTarget(t) < cap THEN RawTarget(t) ELSE cap
      /\ a.handheld = 8000 /\ a.min_scale = 85 /\ a.max_scale = 100
      /\ DOMAIN a = Keys
  BY <1>1 DEF Defaults, Keys
<1> HIDE DEF a, cap
<1>3. /\ b.target = a.target /\ b.handheld = ReadHandheld(t)
      /\ b.min_scale = 85 /\ b.max_scale = 100
      /\ DOMAIN b = Keys
  BY <1>2 DEF SetReshackOutputHandheldScale, ReadHandheld, Keys
<1> HIDE DEF b
<1>4. /\ d.target = a.target /\ d.handheld = ReadHandheld(t)
      /\ d.min_scale = LowOf(t) /\ d.max_scale = 100
      /\ DOMAIN d = Keys
  <2>1. ~(100 < LowOf(t))
    BY ScaleEnds
  <2> QED
    BY <1>3, <2>1 DEF SetReshackMinResScale, LowOf, Keys
<1> HIDE DEF d
<1>5. /\ e.target = a.target /\ e.handheld = ReadHandheld(t)
      /\ e.min_scale = ReadMin(t) /\ e.max_scale = HighOf(t)
      /\ DOMAIN e = Keys
  <2>1. ~Finite(t.max_scale) => ReadMin(t) = LowOf(t) /\ HighOf(t) = 100
    BY ScaleEnds DEF ReadMin, HighOf
  <2> QED
    BY <1>4, <2>1 DEF SetReshackMaxResScale, ReadMin, HighOf, Keys
<1>6. ApplyTomlTable(Defaults, t) = e
  BY DEF ApplyTomlTable, a, b, d
<1> HIDE DEF e
<1>7. e.range_start = 0 /\ e.range_end = 20 /\ e.move_speed = 250
  BY <1>6, SchemaLeavesOthers
<1>8. ApplyTable(t) = [e EXCEPT !.range_start = ReadStart(t), !.range_end = ReadEnd(t),
                                !.move_speed = ReadSpeed(t)]
  BY <1>6, <1>7 DEF ApplyTable, ReadStart, ReadEnd, ReadSpeed, StartOf, EndOf
<1> QED
  BY <1>2, <1>5, <1>8 DEF Keys, cap

(***************************************************************************)
(* The way through the file, for a number that is legal: written and read  *)
(* again it is the same, and a factor that has one decimal keeps it.       *)
(***************************************************************************)
LEMMA StepStays ==
    ASSUME NEW n \in 8..20
    PROVE  (500 * n + 250) \div 500 = n
OBVIOUS

LEMMA HandheldStays ==
    ASSUME NEW h \in HandheldSteps, NEW t, t.handheld = h
    PROVE  ReadHandheld(t) = h
<1>1. h \in Int /\ Finite(h)
  BY StepsAreNumbers, Marks DEF Finite
<1>2. CASE h = 0
  <2>1. Clamp(h, 0, 10000) = 0
    BY <1>2, Marks DEF Clamp
  <2> QED
    BY <1>1, <1>2, <2>1 DEF ReadHandheld, NormalizeHandheldScale
<1>3. CASE h # 0
  <2>1. PICK n \in 8..20 : h = 500 * n
    BY <1>3 DEF HandheldSteps
  <2>2. h \in 4000..10000
    BY <2>1
  <2>3. Clamp(h, 0, 10000) = h /\ Clamp(h, 4000, 10000) = h
    BY <2>2, Marks DEF Clamp
  <2>4. ((h + 250) \div 500) * 500 = h
    BY <2>1, StepStays
  <2>5. NormalizeHandheldScale(h) = h
    BY <2>2, <2>3, <2>4 DEF NormalizeHandheldScale
  <2>6. ~(h > 0 /\ h <= 100)
    BY <2>2
  <2>7. ReadHandheld(t) = NormalizeHandheldScale(h)
    <3>1. ReadHandheld(t) = LET v == Clamp(h, 0, 10000)
                            IN  NormalizeHandheldScale(IF v > 0 /\ v <= 100 THEN v * 100 ELSE v)
      BY <1>1 DEF ReadHandheld
    <3>2. Clamp(h, 0, 10000) = h
      BY <2>3
    <3> QED
      BY <2>6, <3>1, <3>2
  <2> QED
    BY <2>5, <2>7
<1> QED
  BY <1>2, <1>3

LEMMA ScalesStay ==
    ASSUME NEW t, t.min_scale \in 10..100, t.max_scale \in t.min_scale..100
    PROVE  ReadMin(t) = t.min_scale /\ HighOf(t) = t.max_scale
<1> DEFINE low == t.min_scale
           high == t.max_scale
<1>1. Finite(low) /\ Finite(high)
  BY Marks DEF Finite
<1>2. Clamp(low, 10, 100) = low /\ Clamp(high, 10, 100) = high
  BY Marks DEF Clamp
<1>3. LowOf(t) = low /\ HighOf(t) = high
  BY <1>1, <1>2 DEF LowOf, HighOf
<1> QED
  BY <1>3 DEF ReadMin

LEMMA RangeStays ==
    ASSUME NEW t, t.range_start \in 0..999, t.range_end \in t.range_start..999
    PROVE  ReadStart(t) = t.range_start /\ ReadEnd(t) = t.range_end
<1> DEFINE start == t.range_start
           end == t.range_end
<1>1. \A v \in 0..999 : \A f \in {0, 20} : ReadU32(v, f, 0, 999) = v
  BY Marks DEF ReadU32, Clamp, ToU32
<1>2. start \in 0..999 /\ end \in start..999
  OBVIOUS
<1> HIDE DEF start, end
<1>3. end \in 0..999 /\ ~(start > end)
  BY <1>2
<1>4. ReadU32(start, 0, 0, 999) = start
  BY <1>1, <1>2
<1>5. ReadU32(end, 20, 0, 999) = end
  BY <1>1, <1>3
<1>6. StartOf(t) = start /\ EndOf(t) = end
  BY <1>4, <1>5 DEF StartOf, EndOf, start, end
<1> QED
  BY <1>3, <1>6 DEF ReadStart, ReadEnd, start, end

Factors == (10..1000) \cup {NaN}

LEMMA TensStay ==
    ASSUME NEW m \in Int
    PROVE  (10 * m + 5) \div 10 = m
OBVIOUS

LEMMA TenthsOf ==
    ASSUME NEW u \in 10..1000
    PROVE  (u + 5) \div 10 \in 1..100
OBVIOUS

LEMMA SpeedStays ==
    ASSUME NEW s \in Factors
    PROVE  /\ Round1Decimal(s) \in Factors
           /\ Round1Decimal(Round1Decimal(s)) = Round1Decimal(s)
           /\ \A t : t.move_speed = s => ReadSpeed(t) = s
<1>1. \A t : t.move_speed = s => ReadSpeed(t) = s
  BY Marks DEF Factors, ReadSpeed, ReadDouble, Clamp
<1>2. CASE s = NaN
  BY <1>1, <1>2 DEF Round1Decimal, Factors
<1>3. CASE s # NaN
  <2>1. PICK m \in 1..100 : m = (s + 5) \div 10
    BY <1>3, TenthsOf DEF Factors
  <2>2. Round1Decimal(s) = 10 * m
    BY <1>3, <2>1 DEF Round1Decimal
  <2>3. 10 * m \in 10..1000 /\ 10 * m # NaN
    BY Marks
  <2>4. Round1Decimal(10 * m) = 10 * m
    BY <2>3, TensStay DEF Round1Decimal
  <2> QED
    BY <1>1, <2>2, <2>3, <2>4 DEF Factors
<1> QED
  BY <1>2, <1>3

(***************************************************************************)
(* What a configuration c has of the file t, but for the settings in ks.   *)
(* A target from 1440 on depends on the developer mode at the time, and    *)
(* one below 720 is as good as 720; a factor may have lost its decimals.   *)
(***************************************************************************)
Kept(c, t, ks) ==
    /\ "handheld" \notin ks => c.handheld = ReadHandheld(t)
    /\ "min_scale" \notin ks => c.min_scale = ReadMin(t) /\ c.max_scale = HighOf(t)
    /\ "range_start" \notin ks => c.range_start = ReadStart(t) /\ c.range_end = ReadEnd(t)
    /\ "move_speed" \notin ks =>
          c.move_speed \in Factors
          /\ Round1Decimal(c.move_speed) = Round1Decimal(ReadSpeed(t))
    /\ "target" \notin ks =>
          IF RawTarget(t) < 1440
          THEN c.target = RawTarget(t) \/ (c.target <= 720 /\ RawTarget(t) <= 720)
          ELSE c.target \in 1440..2160

\* What is read is legal, number by number.
LEMMA ReadingsOf ==
    ASSUME NEW t \in Tables
    PROVE  /\ ReadHandheld(t) \in HandheldSteps
           /\ ReadMin(t) \in 10..100 /\ HighOf(t) \in ReadMin(t)..100
           /\ ReadStart(t) \in 0..999 /\ ReadEnd(t) \in ReadStart(t)..999
           /\ ReadSpeed(t) \in Factors
           /\ RawTarget(t) \in Int
<1>1. Legal(ApplyTable(t))
  BY TableIsLegal
<1>2. t.target \in Int \cup {None, NaN} /\ t.target_text \in Int \cup {None}
  BY NumbersAssumption DEF Tables, FileKeys, Keys
<1>3. RawTarget(t) \in Int
  <2>1. CASE Finite(t.target)
    <3>1. t.target \in Int
      BY <1>2, <2>1 DEF Finite
    <3>2. \A v \in Int : Clamp(v, 720, 2160) \in Int
      BY Marks DEF Clamp
    <3> QED
      BY <2>1, <3>1, <3>2 DEF RawTarget
  <2>2. CASE ~Finite(t.target)
    BY <1>2, <2>2 DEF RawTarget
  <2> QED
    BY <2>1, <2>2
<1> DEFINE n == ApplyTable(t)
<1>4. /\ n.handheld = ReadHandheld(t)
      /\ n.min_scale = ReadMin(t) /\ n.max_scale = HighOf(t)
      /\ n.range_start = ReadStart(t) /\ n.range_end = ReadEnd(t)
      /\ n.move_speed = ReadSpeed(t)
  BY FieldsOf
<1>5. /\ n.handheld \in HandheldSteps
      /\ n.min_scale \in 10..100 /\ n.max_scale \in n.min_scale..100
      /\ n.range_start \in 0..999 /\ n.range_end \in n.range_start..999
      /\ n.move_speed \in Factors
  BY <1>1 DEF Legal, Factors
<1> HIDE DEF n
<1> QED
  BY <1>3, <1>4, <1>5

\* A record that is written and read again.
LEMMA WrittenIsRead ==
    ASSUME NEW c \in Records
    PROVE  LET b == BuildPatchConfigTable(c)
           IN  /\ b \in Tables
               /\ \A k \in Keys \ {"move_speed"} : b[k] = c[k]
               /\ b.move_speed = Round1Decimal(c.move_speed)
               /\ RawTarget(b) = Clamp(c.target, 720, 2160)
<1> DEFINE b == BuildPatchConfigTable(c)
<1>1. b \in Tables
  BY RecordIsATable
<1>2. \A k \in Keys \ {"move_speed"} : b[k] = c[k]
  BY DEF BuildPatchConfigTable, FileKeys, Keys
<1>3. b.move_speed = Round1Decimal(c.move_speed)
  BY DEF BuildPatchConfigTable, FileKeys, Keys
<1>4. b.target = c.target /\ c.target \in Int
  BY <1>2 DEF Keys, Records
<1>5. Finite(c.target)
  BY <1>4, Marks DEF Finite
<1>6. RawTarget(b) = Clamp(c.target, 720, 2160)
  BY <1>4, <1>5 DEF RawTarget
<1> QED
  BY <1>1, <1>2, <1>3, <1>6

\* Normalising a record, as Apply, Reload and Save do, loses nothing of it.
LEMMA NormalizingKeeps ==
    ASSUME NEW c \in Records, NEW t \in Tables, NEW ks, Kept(c, t, ks)
    PROVE  /\ Kept(NormalizePatchConfig(c), t, ks)
           /\ "move_speed" \notin ks =>
                 NormalizePatchConfig(c).move_speed = Round1Decimal(ReadSpeed(t))
<1> DEFINE b == BuildPatchConfigTable(c)
           n == NormalizePatchConfig(c)
           cap == MaxResolutionHackOutputTarget
<1>1. /\ b \in Tables /\ RawTarget(b) = Clamp(c.target, 720, 2160)
      /\ b.handheld = c.handheld
      /\ b.min_scale = c.min_scale /\ b.max_scale = c.max_scale
      /\ b.range_start = c.range_start /\ b.range_end = c.range_end
      /\ b.move_speed = Round1Decimal(c.move_speed)
  BY WrittenIsRead DEF Keys
<1>2. /\ n.handheld = ReadHandheld(b)
      /\ n.min_scale = ReadMin(b) /\ n.max_scale = HighOf(b)
      /\ n.range_start = ReadStart(b) /\ n.range_end = ReadEnd(b)
      /\ n.move_speed = ReadSpeed(b)
      /\ n.target = IF RawTarget(b) < cap THEN RawTarget(b) ELSE cap
  <2> HIDE DEF b
  <2>1. n = ApplyTable(b)
    BY DEF NormalizePatchConfig, b
  <2> HIDE DEF n, cap
  <2> QED
    BY <1>1, <2>1, FieldsOf DEF cap
<1>3. /\ ReadHandheld(t) \in HandheldSteps
      /\ ReadMin(t) \in 10..100 /\ HighOf(t) \in ReadMin(t)..100
      /\ ReadStart(t) \in 0..999 /\ ReadEnd(t) \in ReadStart(t)..999
      /\ ReadSpeed(t) \in Factors
      /\ RawTarget(t) \in Int
  BY ReadingsOf
<1>4. c.target \in Int /\ cap \in {1440, 2160}
  BY DEF Records, MaxResolutionHackOutputTarget, kMaxDefault, kMaxDevMem
<1> HIDE DEF b, n, cap
<1>5. "handheld" \notin ks => n.handheld = ReadHandheld(t)
  BY <1>1, <1>2, <1>3, HandheldStays DEF Kept
<1>6. "min_scale" \notin ks => n.min_scale = ReadMin(t) /\ n.max_scale = HighOf(t)
  <2> SUFFICES ASSUME "min_scale" \notin ks
               PROVE  n.min_scale = ReadMin(t) /\ n.max_scale = HighOf(t)
    OBVIOUS
  <2>1. b.min_scale = ReadMin(t) /\ b.max_scale = HighOf(t)
    BY <1>1 DEF Kept
  <2>2. ReadMin(b) = ReadMin(t) /\ HighOf(b) = HighOf(t)
    BY <1>3, <2>1, ScalesStay
  <2> QED
    BY <1>2, <2>2
<1>7. "range_start" \notin ks => n.range_start = ReadStart(t) /\ n.range_end = ReadEnd(t)
  <2> SUFFICES ASSUME "range_start" \notin ks
               PROVE  n.range_start = ReadStart(t) /\ n.range_end = ReadEnd(t)
    OBVIOUS
  <2>1. b.range_start = ReadStart(t) /\ b.range_end = ReadEnd(t)
    BY <1>1 DEF Kept
  <2>2. ReadStart(b) = ReadStart(t) /\ ReadEnd(b) = ReadEnd(t)
    BY <1>3, <2>1, RangeStays
  <2> QED
    BY <1>2, <2>2
<1>8. ASSUME "move_speed" \notin ks
      PROVE  /\ n.move_speed \in Factors
             /\ n.move_speed = Round1Decimal(ReadSpeed(t))
             /\ Round1Decimal(n.move_speed) = Round1Decimal(ReadSpeed(t))
  <2> DEFINE r == Round1Decimal(ReadSpeed(t))
  <2>1. r \in Factors /\ Round1Decimal(r) = r
    BY <1>3, SpeedStays
  <2>2. b.move_speed = r
    BY <1>1, <1>8 DEF Kept
  <2> HIDE DEF r
  <2>3. ReadSpeed(b) = r
    BY <2>1, <2>2, SpeedStays
  <2> QED
    BY <1>2, <2>1, <2>3 DEF r
<1>9. ASSUME "target" \notin ks
      PROVE  IF RawTarget(t) < 1440
             THEN n.target = RawTarget(t) \/ (n.target <= 720 /\ RawTarget(t) <= 720)
             ELSE n.target \in 1440..2160
  <2> DEFINE w == Clamp(c.target, 720, 2160)
             r == RawTarget(t)
  <2>1. w = IF c.target < 720 THEN 720 ELSE IF c.target > 2160 THEN 2160 ELSE c.target
    BY <1>4, Marks DEF Clamp
  <2>2. n.target = IF w < cap THEN w ELSE cap
    BY <1>1, <1>2
  <2>3. IF r < 1440 THEN c.target = r \/ (c.target <= 720 /\ r <= 720)
        ELSE c.target \in 1440..2160
    BY <1>9 DEF Kept
  <2>4. r \in Int
    BY <1>3
  <2> HIDE DEF w, r
  <2>5. IF r < 1440 THEN n.target = r \/ (n.target <= 720 /\ r <= 720)
        ELSE n.target \in 1440..2160
    BY <1>4, <2>1, <2>2, <2>3, <2>4
  <2> QED
    BY <2>5 DEF r
<1>10. Kept(n, t, ks)
  BY <1>5, <1>6, <1>7, <1>8, <1>9 DEF Kept
<1> QED
  BY <1>8, <1>10 DEF n

\* What the file u says is what the file t has said, but for the settings in
\* ks, the decimals of the factor, and what the bounds do to the target.
SaysTheSame(u, t, ks) ==
    /\ "handheld" \notin ks => ReadHandheld(u) = ReadHandheld(t)
    /\ "min_scale" \notin ks => ReadMin(u) = ReadMin(t) /\ HighOf(u) = HighOf(t)
    /\ "range_start" \notin ks => ReadStart(u) = ReadStart(t) /\ ReadEnd(u) = ReadEnd(t)
    /\ "move_speed" \notin ks => ReadSpeed(u) = Round1Decimal(ReadSpeed(t))
    /\ "target" \notin ks =>
          IF RawTarget(t) < 1440
          THEN RawTarget(u) = IF RawTarget(t) < 720 THEN 720 ELSE RawTarget(t)
          ELSE RawTarget(u) \in 1440..2160

LEMMA SavingKeeps ==
    ASSUME NEW c \in Records, NEW t \in Tables, NEW ks, Kept(c, t, ks)
    PROVE  LET u == BuildPatchConfigTable(NormalizePatchConfig(c))
           IN  u \in Tables /\ SaysTheSame(u, t, ks)
<1> DEFINE n == NormalizePatchConfig(c)
           u == BuildPatchConfigTable(n)
<1>1. n \in Records /\ Legal(n) /\ n.target >= 720
  BY NormalizedIsLegal
<1>2. /\ Kept(n, t, ks)
      /\ "move_speed" \notin ks => n.move_speed = Round1Decimal(ReadSpeed(t))
  BY NormalizingKeeps
<1> HIDE DEF n
<1>3. /\ u \in Tables /\ RawTarget(u) = Clamp(n.target, 720, 2160)
      /\ u.handheld = n.handheld
      /\ u.min_scale = n.min_scale /\ u.max_scale = n.max_scale
      /\ u.range_start = n.range_start /\ u.range_end = n.range_end
      /\ u.move_speed = Round1Decimal(n.move_speed)
  BY <1>1, WrittenIsRead DEF Keys
<1> HIDE DEF u
<1>4. "handheld" \notin ks => ReadHandheld(u) = ReadHandheld(t)
  <2>1. ReadHandheld(u) = n.handheld
    BY <1>1, <1>3, HandheldStays DEF Legal
  <2> QED
    BY <1>2, <2>1 DEF Kept
<1>5. "min_scale" \notin ks => ReadMin(u) = ReadMin(t) /\ HighOf(u) = HighOf(t)
  <2>1. ReadMin(u) = n.min_scale /\ HighOf(u) = n.max_scale
    <3>1. u.min_scale \in 10..100 /\ u.max_scale \in u.min_scale..100
      BY <1>1, <1>3 DEF Legal
    <3> QED
      BY <1>3, <3>1, ScalesStay
  <2> QED
    BY <1>2, <2>1 DEF Kept
<1>6. "range_start" \notin ks => ReadStart(u) = ReadStart(t) /\ ReadEnd(u) = ReadEnd(t)
  <2>1. ReadStart(u) = n.range_start /\ ReadEnd(u) = n.range_end
    <3>1. u.range_start \in 0..999 /\ u.range_end \in u.range_start..999
      BY <1>1, <1>3 DEF Legal
    <3> QED
      BY <1>3, <3>1, RangeStays
  <2> QED
    BY <1>2, <2>1 DEF Kept
<1>7. "move_speed" \notin ks => ReadSpeed(u) = Round1Decimal(ReadSpeed(t))
  <2> SUFFICES ASSUME "move_speed" \notin ks
               PROVE  ReadSpeed(u) = Round1Decimal(ReadSpeed(t))
    OBVIOUS
  <2> DEFINE r == Round1Decimal(ReadSpeed(t))
  <2>1. r \in Factors /\ Round1Decimal(r) = r
    BY ReadingsOf, SpeedStays
  <2>2. u.move_speed = Round1Decimal(r)
    BY <1>2, <1>3
  <2> HIDE DEF r
  <2>3. ReadSpeed(u) = r
    BY <2>1, <2>2, SpeedStays
  <2> QED
    BY <2>3 DEF r
<1>8. "target" \notin ks =>
         IF RawTarget(t) < 1440
         THEN RawTarget(u) = IF RawTarget(t) < 720 THEN 720 ELSE RawTarget(t)
         ELSE RawTarget(u) \in 1440..2160
  <2> SUFFICES ASSUME "target" \notin ks
               PROVE  IF RawTarget(t) < 1440
                      THEN RawTarget(u) = IF RawTarget(t) < 720 THEN 720 ELSE RawTarget(t)
                      ELSE RawTarget(u) \in 1440..2160
    OBVIOUS
  <2> DEFINE v == n.target
             r == RawTarget(t)
  <2>1. r \in Int
    BY ReadingsOf
  <2>2. v \in Int
    BY <1>1 DEF Records
  <2>3. v \in 720..2160
    <3>1. v \in 1..2160 /\ v >= 720
      BY <1>1 DEF Legal, kMaxDevMem
    <3> QED
      BY <2>2, <3>1
  <2>4. IF r < 1440 THEN v = r \/ (v <= 720 /\ r <= 720) ELSE v \in 1440..2160
    BY <1>2 DEF Kept
  <2>5. RawTarget(u) = Clamp(v, 720, 2160)
    BY <1>3
  <2> HIDE DEF v, r
  <2>6. Clamp(v, 720, 2160) = v
    BY <2>3, Marks DEF Clamp
  <2>7. IF r < 1440 THEN v = IF r < 720 THEN 720 ELSE r ELSE v \in 1440..2160
    BY <2>1, <2>3, <2>4
  <2> QED
    BY <2>5, <2>6, <2>7 DEF r
<1> QED
  BY <1>3, <1>4, <1>5, <1>6, <1>7, <1>8 DEF SaysTheSame, u, n

\* What is kept of a file is kept of one that says the same.
LEMMA KeptOfTheSame ==
    ASSUME NEW c \in Records, NEW t \in Tables, NEW u \in Tables, NEW ks,
           Kept(c, t, ks), SaysTheSame(u, t, ks)
    PROVE  Kept(c, u, ks)
<1>1. "move_speed" \notin ks =>
         c.move_speed \in Factors
         /\ Round1Decimal(c.move_speed) = Round1Decimal(ReadSpeed(u))
  BY ReadingsOf, SpeedStays DEF Kept, SaysTheSame
<1>2. c.target \in Int /\ RawTarget(t) \in Int /\ RawTarget(u) \in Int
  BY ReadingsOf DEF Records
<1>3. "target" \notin ks =>
         IF RawTarget(u) < 1440
         THEN c.target = RawTarget(u) \/ (c.target <= 720 /\ RawTarget(u) <= 720)
         ELSE c.target \in 1440..2160
  BY <1>2 DEF Kept, SaysTheSame
<1> QED
  BY <1>1, <1>3 DEF Kept, SaysTheSame

\* What the boot makes of a file keeps all of it.
LEMMA BootKeeps ==
    ASSUME NEW t \in Tables
    PROVE  Kept(ApplyTable(t), t, {})
<1> DEFINE n == ApplyTable(t)
           r == RawTarget(t)
           cap == MaxResolutionHackOutputTarget
<1>1. /\ n.handheld = ReadHandheld(t)
      /\ n.min_scale = ReadMin(t) /\ n.max_scale = HighOf(t)
      /\ n.range_start = ReadStart(t) /\ n.range_end = ReadEnd(t)
      /\ n.move_speed = ReadSpeed(t)
      /\ n.target = IF r < cap THEN r ELSE cap
  BY FieldsOf
<1>2. ReadSpeed(t) \in Factors /\ r \in Int
  BY ReadingsOf
<1>3. cap \in {1440, 2160}
  BY DEF MaxResolutionHackOutputTarget, kMaxDefault, kMaxDevMem
<1> HIDE DEF n, r, cap
<1>4. n.target \in Int /\ (IF r < 1440 THEN n.target = r ELSE n.target \in 1440..2160)
  BY <1>1, <1>2, <1>3
<1> QED
  BY <1>1, <1>2, <1>4 DEF Kept, n, r

KeptInv ==
    /\ running => Kept(cfg, file, touched) /\ Kept(global, file, touched)
    /\ "min_scale" \in touched <=> "max_scale" \in touched
    /\ "range_start" \in touched <=> "range_end" \in touched

LEMMA InitKept == Init => KeptInv
BY DEF Init, KeptInv

\* Changing what is marked as touched keeps the rest.
LEMMA ChangingKeeps ==
    ASSUME KeptInv, running, UNCHANGED <<running, file, global>>,
           NEW keys \in {{"target"}, {"handheld"}, {"min_scale", "max_scale"},
                         {"range_start", "range_end"}, {"move_speed"}},
           touched' = touched \cup keys,
           \A k \in Keys \ keys : cfg'[k] = cfg[k]
    PROVE  KeptInv'
<1>1. Kept(cfg, file, touched) /\ Kept(global, file, touched)
  BY DEF KeptInv
<1>2. Kept(cfg', file, touched') /\ Kept(global, file, touched')
  BY <1>1 DEF Kept, Keys
<1>3. /\ "min_scale" \in touched' <=> "max_scale" \in touched'
      /\ "range_start" \in touched' <=> "range_end" \in touched'
  BY DEF KeptInv
<1> QED
  BY <1>2, <1>3 DEF KeptInv

\* Each widget marks what it changes.
LEMMA WidgetsKeep ==
    ASSUME IndInv, KeptInv, NEW v \in Typed,
           EditTarget(v) \/ EditHandheld(v) \/ EditScales(v) \/ EditRange(v) \/ EditSpeed(v)
    PROVE  KeptInv'
<1>1. running /\ UNCHANGED <<running, file, global>>
  BY DEF EditTarget, EditHandheld, EditScales, EditRange, EditSpeed, Widget
<1>2. DOMAIN cfg = Keys
  BY DEF IndInv, Records, Keys
<1>3. CASE EditTarget(v)
  <2>1. touched' = touched \cup {"target"} /\ \A k \in Keys \ {"target"} : cfg'[k] = cfg[k]
    BY <1>2, <1>3 DEF EditTarget, Widget
  <2> QED
    BY <1>1, <2>1, ChangingKeeps
<1>4. CASE EditHandheld(v)
  <2>1. touched' = touched \cup {"handheld"} /\ \A k \in Keys \ {"handheld"} : cfg'[k] = cfg[k]
    BY <1>2, <1>4 DEF EditHandheld, Widget
  <2> QED
    BY <1>1, <2>1, ChangingKeeps
<1>5. CASE EditScales(v)
  <2>1. /\ touched' = touched \cup {"min_scale", "max_scale"}
        /\ \A k \in Keys \ {"min_scale", "max_scale"} : cfg'[k] = cfg[k]
    BY <1>2, <1>5 DEF EditScales, Widget
  <2> QED
    BY <1>1, <2>1, ChangingKeeps
<1>6. CASE EditRange(v)
  <2>1. /\ touched' = touched \cup {"range_start", "range_end"}
        /\ \A k \in Keys \ {"range_start", "range_end"} : cfg'[k] = cfg[k]
    BY <1>2, <1>6 DEF EditRange, Widget
  <2> QED
    BY <1>1, <2>1, ChangingKeeps
<1>7. CASE EditSpeed(v)
  <2>1. /\ touched' = touched \cup {"move_speed"}
        /\ \A k \in Keys \ {"move_speed"} : cfg'[k] = cfg[k]
    BY <1>2, <1>7 DEF EditSpeed, Widget
  <2> QED
    BY <1>1, <2>1, ChangingKeeps
<1> QED
  BY <1>3, <1>4, <1>5, <1>6, <1>7

\* A target that drawing the slider lowers is one from 1440 on.
LEMMA DrawingKeeps ==
    ASSUME IndInv, KeptInv, RenderTarget
    PROVE  KeptInv'
<1> DEFINE cap == MaxResolutionHackOutputTarget
<1>1. /\ running /\ AsInt(cfg.target) > cap
      /\ cfg' = [cfg EXCEPT !.target = cap] /\ touched' = touched
      /\ UNCHANGED <<running, file, global>>
  BY DEF RenderTarget, Widget
<1>2. cap \in {1440, 2160}
  BY DEF MaxResolutionHackOutputTarget, kMaxDefault, kMaxDevMem
<1>3. cfg \in Records /\ cfg.target \in Int /\ Word \in Int /\ Word > 0 /\ RawTarget(file) \in Int
  BY NumbersAssumption, ReadingsOf DEF IndInv, Records
<1> HIDE DEF cap
<1>4. cfg.target > 1440
  BY <1>1, <1>2, <1>3 DEF AsInt
<1>5. Kept(cfg, file, touched) /\ Kept(global, file, touched)
  BY <1>1 DEF KeptInv
<1>6. "target" \notin touched => ~(RawTarget(file) < 1440)
  BY <1>3, <1>4, <1>5 DEF Kept
<1>7. cfg'.target = cap /\ \A k \in Keys \ {"target"} : cfg'[k] = cfg[k]
  BY <1>1, <1>3 DEF Records, Keys
<1>8. cap \in 1440..2160
  BY <1>2
<1>9. Kept(cfg', file, touched)
  BY <1>5, <1>6, <1>7, <1>8 DEF Kept, Keys
<1> QED
  BY <1>1, <1>5, <1>9 DEF KeptInv

LEMMA NextKept == IndInv /\ KeptInv /\ [Next]_vars => KeptInv'
<1> SUFFICES ASSUME IndInv, KeptInv, [Next]_vars PROVE KeptInv'
  OBVIOUS
<1>1. file \in Tables /\ cfg \in Records /\ global \in Records
  BY DEF IndInv
<1>2. CASE Boot
  BY <1>1, <1>2, BootKeeps DEF Boot, KeptInv
<1>3. CASE PowerOff
  BY <1>3 DEF PowerOff, KeptInv
<1>4. CASE EditFile
  BY <1>4 DEF EditFile, KeptInv
<1>5. CASE SetDevMem
  BY <1>5 DEF SetDevMem, KeptInv
<1>6. CASE \E v \in Typed : EditTarget(v) \/ EditHandheld(v) \/ EditScales(v)
                            \/ EditRange(v) \/ EditSpeed(v)
  BY <1>6, WidgetsKeep
<1>7. CASE RenderTarget
  BY <1>7, DrawingKeeps
<1>8. CASE Reload
  <2> DEFINE c == ApplyTable(file)
  <2>1. c \in Records /\ Kept(c, file, {})
    BY <1>1, TableIsLegal, BootKeeps
  <2>2. Kept(NormalizePatchConfig(c), file, {})
    <3> HIDE DEF c
    <3> QED
      BY <1>1, <2>1, NormalizingKeeps
  <2> QED
    BY <1>8, <2>2 DEF Reload, TakeIn, KeptInv
<1>9. CASE Apply
  <2>1. running /\ Kept(cfg, file, touched)
    BY <1>9 DEF Apply, TakeIn, KeptInv
  <2>2. Kept(NormalizePatchConfig(cfg), file, touched)
    BY <1>1, <2>1, NormalizingKeeps
  <2> QED
    BY <1>9, <2>2 DEF Apply, TakeIn, KeptInv
<1>10. CASE Revert
  BY <1>10 DEF Revert, KeptInv
<1>11. CASE Save
  <2>1. running /\ Kept(cfg, file, touched) /\ Kept(global, file, touched)
    BY <1>11 DEF Save, KeptInv
  <2>2. file' \in Tables /\ SaysTheSame(file', file, touched)
    BY <1>1, <1>11, <2>1, SavingKeeps DEF Save, SavePatchConfigToPath
  <2>3. Kept(cfg, file', touched) /\ Kept(global, file', touched)
    BY <1>1, <2>1, <2>2, KeptOfTheSame
  <2> QED
    BY <1>11, <2>3 DEF Save, KeptInv
<1>12. CASE UNCHANGED vars
  BY <1>12 DEF vars, KeptInv
<1> QED
  BY <1>2, <1>3, <1>4, <1>5, <1>6, <1>7, <1>8, <1>9, <1>10, <1>11, <1>12 DEF Next

\* What two files that say the same are read as.
LEMMA ReadTheSame ==
    ASSUME NEW t \in Tables, NEW u \in Tables, NEW ks, SaysTheSame(u, t, ks),
           "min_scale" \in ks <=> "max_scale" \in ks,
           "range_start" \in ks <=> "range_end" \in ks,
           NEW k \in Keys \ ks
    PROVE  LET before == ApplyTable(t)[k]
               after == ApplyTable(u)[k]
           IN  \/ after = before
               \/ k = "target" /\ (before > kMaxDefault \/ after > kMaxDefault)
               \/ k = "target" /\ before < 720 /\ after = 720
               \/ k = "move_speed" /\ after = Round1Decimal(before)
<1> DEFINE m == ApplyTable(t)
           n == ApplyTable(u)
           r == RawTarget(t)
           q == RawTarget(u)
           cap == MaxResolutionHackOutputTarget
<1>1. /\ m.handheld = ReadHandheld(t) /\ n.handheld = ReadHandheld(u)
      /\ m.min_scale = ReadMin(t) /\ n.min_scale = ReadMin(u)
      /\ m.max_scale = HighOf(t) /\ n.max_scale = HighOf(u)
      /\ m.range_start = ReadStart(t) /\ n.range_start = ReadStart(u)
      /\ m.range_end = ReadEnd(t) /\ n.range_end = ReadEnd(u)
      /\ m.move_speed = ReadSpeed(t) /\ n.move_speed = ReadSpeed(u)
      /\ m.target = IF r < cap THEN r ELSE cap
      /\ n.target = IF q < cap THEN q ELSE cap
  BY FieldsOf
<1>2. cap \in {1440, 2160} /\ r \in Int /\ q \in Int
  BY ReadingsOf DEF MaxResolutionHackOutputTarget, kMaxDefault, kMaxDevMem
<1> HIDE DEF m, n, r, q, cap
<1>3. CASE k = "target"
  <2>1. IF r < 1440 THEN q = IF r < 720 THEN 720 ELSE r ELSE q \in 1440..2160
    BY <1>3 DEF SaysTheSame, r, q
  <2>2. \/ n.target = m.target
        \/ m.target > 1440 \/ n.target > 1440
        \/ m.target < 720 /\ n.target = 720
    BY <1>1, <1>2, <2>1
  <2> QED
    BY <1>3, <2>2 DEF m, n, kMaxDefault
<1>4. CASE k = "move_speed"
  <2>1. n.move_speed = Round1Decimal(m.move_speed)
    BY <1>1, <1>4 DEF SaysTheSame
  <2> QED
    BY <1>4, <2>1 DEF m, n
<1>5. CASE k \notin {"target", "move_speed"}
  <2>1. n[k] = m[k]
    BY <1>1, <1>5 DEF SaysTheSame, Keys
  <2> QED
    BY <2>1 DEF m, n
<1> QED
  BY <1>3, <1>4, <1>5

\* No widget writes the file.
LEMMA WidgetsLeaveTheFile ==
    ASSUME NEW v \in Typed,
           EditTarget(v) \/ EditHandheld(v) \/ EditScales(v) \/ EditRange(v) \/ EditSpeed(v)
    PROVE  file' = file
<1>1. running /\ UNCHANGED <<running, file, global>>
  BY DEF EditTarget, EditHandheld, EditScales, EditRange, EditSpeed, Widget
<1> QED
  BY <1>1

\* While the game runs only a save changes the file.
LEMMA OnlySaveWrites ==
    ASSUME running, Next, file' # file
    PROVE  Save
<1>1. Boot \/ EditFile => ~running
  BY DEF Boot, EditFile
<1>2. PowerOff \/ SetDevMem \/ RenderTarget \/ Reload \/ Apply \/ Revert => file' = file
  BY DEF PowerOff, SetDevMem, RenderTarget, Widget, Reload, Apply, TakeIn, Revert
<1> QED
  BY <1>1, <1>2, WidgetsLeaveTheFile DEF Next

\* A save changes no number in the file that the player has left alone,
\* through any number of edits of the others, applies, reverts and saves.
THEOREM UntouchedKept == Spec => UntouchedIsKept
<1> DEFINE Step == running /\ file' # file =>
              \A k \in Keys \ touched :
                 LET before == ApplyTable(file)[k]
                     after == ApplyTable(file')[k]
                 IN  \/ after = before
                     \/ k = "target" /\ (before > kMaxDefault \/ after > kMaxDefault)
                     \/ k = "target" /\ before < 720 /\ after = 720
                     \/ k = "move_speed" /\ after = Round1Decimal(before)
<1>1. IndInv /\ KeptInv /\ [Next]_vars => [Step]_vars
  <2> SUFFICES ASSUME IndInv, KeptInv, Next, running, file' # file,
                      NEW k \in Keys \ touched
               PROVE  LET before == ApplyTable(file)[k]
                          after == ApplyTable(file')[k]
                      IN  \/ after = before
                          \/ k = "target" /\ (before > kMaxDefault \/ after > kMaxDefault)
                          \/ k = "target" /\ before < 720 /\ after = 720
                          \/ k = "move_speed" /\ after = Round1Decimal(before)
    OBVIOUS
  <2>1. Save
    BY OnlySaveWrites
  <2>2. file \in Tables /\ cfg \in Records /\ Kept(cfg, file, touched)
    BY DEF IndInv, KeptInv
  <2>3. file' \in Tables /\ SaysTheSame(file', file, touched)
    BY <2>1, <2>2, SavingKeeps DEF Save, SavePatchConfigToPath
  <2> QED
    BY <2>2, <2>3, ReadTheSame DEF KeptInv
<1>2. Spec => []IndInv
  BY InitIndInv, NextIndInv, PTL DEF Spec
<1>3. Spec => []KeptInv
  BY <1>2, InitKept, NextKept, PTL DEF Spec
<1> QED
  BY <1>1, <1>2, <1>3, PTL DEF Spec, UntouchedIsKept

(***************************************************************************)
(* Normalising is idempotent: a record that has gone through the file once *)
(* comes back from it unchanged.                                           *)
(***************************************************************************)
\* A factor that has been rounded and clamped has one decimal.
LEMMA ReadTenths ==
    ASSUME NEW v \in Int \cup {NaN}, NEW t, t.move_speed = Round1Decimal(v)
    PROVE  ReadSpeed(t) \in Factors /\ Round1Decimal(ReadSpeed(t)) = ReadSpeed(t)
<1>1. CASE v = NaN
  <2>1. NaN \in Factors /\ Round1Decimal(NaN) = NaN
    BY DEF Factors, Round1Decimal
  <2>2. ReadSpeed(t) = NaN
    BY <1>1, <2>1, SpeedStays
  <2> QED
    BY <2>1, <2>2
<1>2. CASE v # NaN
  <2> DEFINE m == (v + 5) \div 10
  <2>1. m \in Int /\ t.move_speed = m * 10
    BY <1>2 DEF Round1Decimal
  <2> HIDE DEF m
  <2>2. m * 10 \in Int /\ m * 10 # None /\ m * 10 # NaN
    BY <2>1, Marks
  <2>3. ReadSpeed(t) = IF m * 10 < 10 THEN 10 ELSE IF m * 10 > 1000 THEN 1000 ELSE m * 10
    BY <2>1, <2>2 DEF ReadSpeed, ReadDouble, Clamp
  <2>4. PICK k \in 1..100 : ReadSpeed(t) = 10 * k
    <3>1. CASE m * 10 < 10
      BY <2>3, <3>1
    <3>2. CASE m * 10 > 1000
      BY <2>3, <3>2
    <3>3. CASE ~(m * 10 < 10) /\ ~(m * 10 > 1000)
      <4>1. m \in 1..100
        BY <2>1, <3>3
      <4> QED
        BY <2>3, <3>3, <4>1
    <3> QED
      BY <3>1, <3>2, <3>3
  <2>5. 10 * k \in 10..1000 /\ 10 * k # NaN
    BY Marks
  <2>6. Round1Decimal(10 * k) = 10 * k
    BY <2>5, TensStay DEF Round1Decimal
  <2> QED
    BY <2>4, <2>5, <2>6 DEF Factors
<1> QED
  BY <1>1, <1>2

\* Two records are the same if all their numbers are.
LEMMA SameRecord ==
    ASSUME NEW a \in Records, NEW b \in Records,
           a.target = b.target, a.handheld = b.handheld,
           a.min_scale = b.min_scale, a.max_scale = b.max_scale,
           a.range_start = b.range_start, a.range_end = b.range_end,
           a.move_speed = b.move_speed
    PROVE  a = b
BY DEF Records

LEMMA NormalizingTwice ==
    ASSUME NEW c \in Records
    PROVE  ApplyTable(BuildPatchConfigTable(NormalizePatchConfig(c))) = NormalizePatchConfig(c)
<1> DEFINE n == NormalizePatchConfig(c)
           b == BuildPatchConfigTable(c)
           u == BuildPatchConfigTable(n)
           m == ApplyTable(u)
           cap == MaxResolutionHackOutputTarget
<1>1. n \in Records /\ Legal(n) /\ n.target >= 720
  BY NormalizedIsLegal
<1>2. b \in Tables /\ b.move_speed = Round1Decimal(c.move_speed)
  BY WrittenIsRead
<1>3. n.move_speed = ReadSpeed(b)
      /\ n.target = IF RawTarget(b) < cap THEN RawTarget(b) ELSE cap
  BY <1>2, FieldsOf DEF NormalizePatchConfig
<1>4. n.move_speed \in Factors /\ Round1Decimal(n.move_speed) = n.move_speed
  <2>1. c.move_speed \in Int \cup {NaN}
    BY DEF Records
  <2> HIDE DEF n, b
  <2> QED
    BY <1>2, <1>3, <2>1, ReadTenths
<1>5. cap \in {1440, 2160}
  BY DEF MaxResolutionHackOutputTarget, kMaxDefault, kMaxDevMem
<1>6. n.target \in 720..2160 /\ ~(n.target > cap)
  <2>1. RawTarget(b) \in Int
    BY <1>2, ReadingsOf
  <2> HIDE DEF n, b, cap
  <2>2. n.target \in Int /\ n.target >= 720
    BY <1>1 DEF Records
  <2> DEFINE v == n.target
  <2>3. /\ v \in Int /\ v >= 720
        /\ v = IF RawTarget(b) < cap THEN RawTarget(b) ELSE cap
    BY <1>3, <2>2
  <2> HIDE DEF v
  <2>4. v \in 720..2160 /\ ~(v > cap)
    BY <1>5, <2>1, <2>3
  <2> QED
    BY <2>4 DEF v
<1> HIDE DEF n, b
<1>7. /\ u \in Tables /\ RawTarget(u) = Clamp(n.target, 720, 2160)
      /\ u.handheld = n.handheld
      /\ u.min_scale = n.min_scale /\ u.max_scale = n.max_scale
      /\ u.range_start = n.range_start /\ u.range_end = n.range_end
      /\ u.move_speed = n.move_speed
  BY <1>1, <1>4, WrittenIsRead DEF Keys
<1> HIDE DEF u
<1>8. /\ m.handheld = ReadHandheld(u)
      /\ m.min_scale = ReadMin(u) /\ m.max_scale = HighOf(u)
      /\ m.range_start = ReadStart(u) /\ m.range_end = ReadEnd(u)
      /\ m.move_speed = ReadSpeed(u)
      /\ m.target = IF RawTarget(u) < cap THEN RawTarget(u) ELSE cap
  BY <1>7, FieldsOf
<1>9. m \in Records
  BY <1>7, TableIsLegal
<1> HIDE DEF m, cap
<1>10. m.target = n.target
  <2> DEFINE v == n.target
  <2>1. v \in 720..2160 /\ ~(v > cap)
    BY <1>6
  <2>2. m.target = IF RawTarget(u) < cap THEN RawTarget(u) ELSE cap
    BY <1>8
  <2>3. RawTarget(u) = Clamp(v, 720, 2160)
    BY <1>7
  <2> HIDE DEF v
  <2>4. RawTarget(u) = v
    BY <2>1, <2>3, Marks DEF Clamp
  <2>5. m.target = v
    BY <1>5, <2>1, <2>2, <2>4
  <2> QED
    BY <2>5 DEF v
<1>11. m.handheld = n.handheld
  BY <1>1, <1>7, <1>8, HandheldStays DEF Legal
<1>12. m.min_scale = n.min_scale /\ m.max_scale = n.max_scale
  <2>1. u.min_scale \in 10..100 /\ u.max_scale \in u.min_scale..100
    BY <1>1, <1>7 DEF Legal
  <2> QED
    BY <1>7, <1>8, <2>1, ScalesStay
<1>13. m.range_start = n.range_start /\ m.range_end = n.range_end
  <2>1. u.range_start \in 0..999 /\ u.range_end \in u.range_start..999
    BY <1>1, <1>7 DEF Legal
  <2> QED
    BY <1>7, <1>8, <2>1, RangeStays
<1>14. m.move_speed = n.move_speed
  BY <1>4, <1>7, <1>8, SpeedStays
<1>15. m = n
  BY <1>1, <1>9, <1>10, <1>11, <1>12, <1>13, <1>14, SameRecord
<1> QED
  BY <1>15 DEF m, n, u

\* What a save writes is what a boot reads: no number moves by being saved,
\* loaded and saved again.
THEOREM SavedNumbersStay == Spec => SavedNumbersBoot
<1>1. IndInv /\ [Next]_vars => [Save => ApplyTable(file') = NormalizePatchConfig(cfg)]_vars
  <2> SUFFICES ASSUME IndInv, Save
               PROVE  ApplyTable(file') = NormalizePatchConfig(cfg)
    OBVIOUS
  <2>1. file' = BuildPatchConfigTable(NormalizePatchConfig(cfg))
    BY DEF Save, SavePatchConfigToPath
  <2> QED
    BY <2>1, NormalizingTwice DEF IndInv
<1>2. Spec => []IndInv
  BY InitIndInv, NextIndInv, PTL DEF Spec
<1> QED
  BY <1>1, <1>2, PTL DEF Spec, SavedNumbersBoot
=============================================================================
