------------------------ MODULE ChallengeRiftProofs ------------------------
(***************************************************************************)
(* Proofs about ChallengeRift for any card, server, number of players and  *)
(* set of configurations.  What the game is served depends on the copies;  *)
(* the invariant that is missing from the properties is that there are no  *)
(* copies as long as the configurations have not allowed any.              *)
(***************************************************************************)
EXTENDS ChallengeRift, TLAPS

NoCopies == confCache = None /\ \A n \in Names : cache[n] = NoBlob

RiftInv ==
    /\ TypeOK
    /\ conf.dump => allowed
    /\ ~allowed => NoCopies /\ FromRange

\* Local blobs have a data file's name; no blob is the absent one.
LEMMA BlobFacts ==
    /\ Bad \in Blobs /\ NoBlob \notin Blobs
    /\ \A i \in Rifts : Local(i) \in Blobs
    /\ \A n \in Numbers : Online(n) \in Blobs
    /\ \A b \in Blobs : b.from = "rift_data" => \E i \in Rifts : b = Local(i)
<1>1. NoBlob \notin Blobs
  <2>1. \A b \in Blobs : b.from # "none"
      BY DEF Blobs, Bad, Local, Online
  <2> QED BY <2>1 DEF NoBlob
<1>2. \A b \in Blobs : b.from = "rift_data" => \E i \in Rifts : b = Local(i)
    BY DEF Blobs, Bad, Local, Online
<1> QED BY <1>1, <1>2 DEF Blobs

\* The card and the game before anything has happened.
LEMMA RiftInitInv == Init => RiftInv
<1> SUFFICES ASSUME Init PROVE RiftInv
    OBVIOUS
<1>1. TypeOK
    BY ChallengeRiftAssumption DEF Init, TypeOK, Configs
<1>2. NoCopies /\ FromRange
    BY DEF Init, NoCopies, FromRange, NoBlob
<1>3. conf.dump => allowed
    BY DEF Init
<1> QED BY <1>1, <1>2, <1>3 DEF RiftInv

\* The parser hook: what it keeps are blobs, and it keeps none unasked.
LEMMA ParseStep ==
    ASSUME TypeOK, NEW c \in ConfBlobs \cup {None}, NEW d \in Blobs \cup {NoBlob},
           ParsePartialFromString(c, d)
    PROVE  /\ s_last' \in Numbers /\ g_last' \in Numbers
           /\ confCache' \in ConfBlobs \cup {None}
           /\ cache' \in [Names -> Blobs \cup {NoBlob}]
           /\ ~conf.dump => confCache' = confCache /\ cache' = cache
<1> DEFINE num == IF c \in Numbers THEN c ELSE s_last
<1>1. num \in Numbers /\ num \in Names
    BY DEF TypeOK, Names
<1>2. s_last' \in Numbers /\ g_last' \in Numbers
    BY DEF TypeOK, ParsePartialFromString, SetLastChallengeNumber
<1>3. CacheChallengeRiftRaw(c, d, num)
    BY DEF ParsePartialFromString
<1> HIDE DEF num
<1>4. CASE ~conf.dump
    BY <1>2, <1>3, <1>4 DEF CacheChallengeRiftRaw, TypeOK, copies
<1>5. CASE conf.dump
  <2>2. confCache' \in ConfBlobs \cup {None}
      BY <1>3, <1>5 DEF CacheChallengeRiftRaw, WriteTestFile, TypeOK, ConfBlobs
  <2>3. cache' \in [Names -> Blobs \cup {NoBlob}]
    <3>1. CASE d \in {Bad, NoBlob}
        BY <1>3, <1>5, <3>1 DEF CacheChallengeRiftRaw, TypeOK
    <3>2. CASE d \notin {Bad, NoBlob}
      <4>1. PICK b \in WriteTestFile(cache[num], d, Bad) : cache' = [cache EXCEPT ![num] = b]
          BY <1>3, <1>5, <3>2 DEF CacheChallengeRiftRaw
      <4>2. b \in Blobs \cup {NoBlob}
          BY <1>1, <4>1, BlobFacts DEF WriteTestFile, TypeOK
      <4> QED BY <1>1, <4>1, <4>2 DEF TypeOK
    <3> QED BY <3>1, <3>2
  <2> QED BY <1>2, <1>5, <2>2, <2>3
<1> QED BY <1>4, <1>5

-----------------------------------------------------------------------------

\* The callback hook hands the game blobs, and without copies only blobs of
\* rift_data that the range allows.
LEMMA CallbackInv ==
    ASSUME RiftInv, ChallengeRiftCallback
    PROVE  RiftInv'
<1>0. TypeOK
    BY DEF RiftInv
<1>1. /\ UNCHANGED <<conf, hooked, last, allowed>>
      /\ inbox' = None
    BY DEF ChallengeRiftCallback, config
<1>2. conf'.dump => allowed'
    BY <1>1 DEF RiftInv
<1>3. inbox # None => inbox \in Numbers /\ Online(inbox) \in Blobs
    BY <1>0, BlobFacts DEF TypeOK
<1>4. CASE UNCHANGED <<seen, copies>> /\
           \/ inbox # None /\ Deliver(inbox, Online(inbox))
           \/ UNCHANGED <<weekly, served>>
  <2>1. TypeOK'
      BY <1>0, <1>1, <1>3, <1>4 DEF TypeOK, Deliver, seen, copies
  <2>2. NoCopies' <=> NoCopies
      BY <1>4 DEF NoCopies, copies
  <2>3. FromRange => FromRange'
      BY <1>1, <1>4 DEF FromRange, Deliver, Online
  <2> QED BY <1>1, <1>2, <2>1, <2>2, <2>3 DEF RiftInv
<1>5. CASE \E pick \in Picks, c \in Sources(confCache, confLocal, None) :
           \E number \in NumberOf(c) : PopulateChallengeRiftData(pick, c, number)
  <2>1. PICK pick \in Picks, c \in Sources(confCache, confLocal, None) :
             \E number \in NumberOf(c) : PopulateChallengeRiftData(pick, c, number)
      BY <1>5
  <2>2. PICK number \in NumberOf(c) : PopulateChallengeRiftData(pick, c, number)
      BY <2>1
  <2> DEFINE cache_pick == IF c.cached THEN number ELSE pick
             file       == IF pick \in local THEN Local(pick) ELSE NoBlob
  <2>3. PICK d \in Sources(cache[cache_pick], file, NoBlob) :
             /\ ParsePartialFromString(c.blob, d.blob)
             /\ \/ Deliver(number, d.blob) /\ d.blob # NoBlob
                \/ /\ inbox # None
                   /\ Deliver(IF c.blob # None THEN number ELSE inbox,
                              IF d.blob # NoBlob THEN d.blob ELSE Online(inbox))
                \/ UNCHANGED <<weekly, served>>
      BY <2>2 DEF PopulateChallengeRiftData
  <2>4. conf \in Configs
      BY <1>0, ChallengeRiftAssumption DEF TypeOK
  <2>5. /\ pick \in Rifts
        /\ conf.range_start <= pick /\ pick <= conf.range_end
        /\ ~conf.random => pick = conf.range_start
      BY <2>1, <2>4, ChallengeRiftAssumption DEF Picks, Configs
  <2>6. c.blob \in ConfBlobs \cup {None} /\ number \in Numbers
      BY <1>0, <2>1, <2>2, ChallengeRiftAssumption DEF TypeOK, Sources, NumberOf, ConfBlobs
  <2>7. cache_pick \in Names
      BY <2>5, <2>6 DEF Names
  <2>8. file \in Blobs \cup {NoBlob}
      BY <2>5, BlobFacts
  <2> HIDE DEF cache_pick, file
  <2>9. d.blob \in Blobs \cup {NoBlob}
      BY <1>0, <2>3, <2>7, <2>8 DEF TypeOK, Sources
  <2>10. /\ s_last' \in Numbers /\ g_last' \in Numbers
         /\ confCache' \in ConfBlobs \cup {None}
         /\ cache' \in [Names -> Blobs \cup {NoBlob}]
         /\ ~conf.dump => confCache' = confCache /\ cache' = cache
      BY <1>0, <2>3, <2>6, <2>9, ParseStep
  <2>11. weekly' \in Numbers \cup {None} /\ served' \in Blobs \cup {NoBlob}
    <3>1. CASE Deliver(number, d.blob) /\ d.blob # NoBlob
        BY <2>6, <2>9, <3>1 DEF Deliver
    <3>2. CASE inbox # None /\ Deliver(IF c.blob # None THEN number ELSE inbox,
                                       IF d.blob # NoBlob THEN d.blob ELSE Online(inbox))
        BY <1>3, <2>6, <2>9, <3>2 DEF Deliver
    <3>3. CASE UNCHANGED <<weekly, served>>
        BY <1>0, <3>3 DEF TypeOK
    <3> QED BY <2>3, <3>1, <3>2, <3>3
  <2>12. TypeOK'
      BY <1>0, <1>1, <2>10, <2>11 DEF TypeOK
  <2>13. ASSUME ~allowed' PROVE NoCopies' /\ FromRange'
    <3>1. NoCopies /\ FromRange /\ NoCopies'
        BY <1>1, <2>10, <2>13 DEF RiftInv, NoCopies
    <3>2. cache[cache_pick] = NoBlob
        BY <2>7, <3>1 DEF NoCopies
    <3>3. d.blob \in {file, NoBlob}
        BY <2>3, <3>2 DEF Sources
    <3>4. d.blob \in {Local(pick), NoBlob}
        BY <3>3 DEF file
    <3>5. UNCHANGED <<weekly, served>> => FromRange'
        BY <1>1, <3>1 DEF FromRange
    <3>6. served' \in {Local(pick), Online(inbox)} => FromRange'
        BY <1>1, <2>5 DEF FromRange, Local, Online
    <3>7. UNCHANGED <<weekly, served>> \/ served' \in {Local(pick), Online(inbox)}
        BY <2>3, <3>4 DEF Deliver
    <3> QED BY <3>1, <3>5, <3>6, <3>7
  <2> QED BY <1>2, <2>12, <2>13 DEF RiftInv
<1> QED BY <1>4, <1>5 DEF ChallengeRiftCallback

\* The answer of the server, parsed under its own number.
LEMMA DownloadInv ==
    ASSUME RiftInv, NEW n \in Numbers, Download(n)
    PROVE  RiftInv'
<1>1. /\ UNCHANGED <<conf, hooked, weekly, last, served, allowed>>
      /\ inbox' = n
      /\ ParsePartialFromString(n, Online(n)) \/ UNCHANGED <<seen, copies>>
    BY DEF Download, config
<1>2. TypeOK
    BY DEF RiftInv
<1>3. /\ s_last' \in Numbers /\ g_last' \in Numbers
      /\ confCache' \in ConfBlobs \cup {None}
      /\ cache' \in [Names -> Blobs \cup {NoBlob}]
      /\ ~conf.dump => confCache' = confCache /\ cache' = cache
  <2>1. CASE ParsePartialFromString(n, Online(n))
      BY <1>2, <2>1, ParseStep, BlobFacts DEF ConfBlobs
  <2>2. CASE UNCHANGED <<seen, copies>>
      BY <1>2, <2>2 DEF TypeOK, seen, copies
  <2> QED BY <1>1, <2>1, <2>2
<1>4. TypeOK'
    BY <1>1, <1>2, <1>3 DEF TypeOK
<1>5. ~allowed' => NoCopies' /\ FromRange'
    BY <1>1, <1>3 DEF RiftInv, NoCopies, FromRange
<1>6. conf'.dump => allowed'
    BY <1>1 DEF RiftInv
<1> QED BY <1>4, <1>5, <1>6 DEF RiftInv

\* Only the players' numbers change in a step that satisfies this.
PlayersStep ==
    /\ UNCHANGED <<config, copies, seen, inbox, weekly, served, allowed>>
    /\ last' \in [Players -> Nat]

\* They are not what RiftInv is about.
LEMMA PlayersInv == ASSUME RiftInv, PlayersStep PROVE RiftInv'
<1>1. TypeOK'
    BY DEF RiftInv, TypeOK, PlayersStep, config, copies, seen
<1>2. (NoCopies => NoCopies') /\ (FromRange => FromRange')
    BY DEF NoCopies, FromRange, PlayersStep, config, copies
<1> QED BY <1>1, <1>2 DEF RiftInv, PlayersStep, config

\* Opening and completing a rift leave every player with a number.
LEMMA RewardsStep ==
    ASSUME RiftInv, OpenChallengeRift \/ \E p \in Players : HandleChallengeRewards(p)
    PROVE  PlayersStep
<1>1. TypeOK /\ weekly \in Nat /\ last \in [Players -> Nat]
    BY ChallengeRiftAssumption DEF RiftInv, TypeOK, OpenChallengeRift,
       HandleChallengeRewards
<1>2. GetCurrentChallengeNumber \in Nat
    BY <1>1, ChallengeRiftAssumption DEF TypeOK, GetCurrentChallengeNumber
<1>3. Rearmed(GetCurrentChallengeNumber) \in Nat
    BY <1>2 DEF Rearmed
<1> DEFINE r == Rearmed(GetCurrentChallengeNumber)
<1> HIDE DEF r
<1>4. CASE OpenChallengeRift
    BY <1>1, <1>3, <1>4 DEF OpenChallengeRift, PlayersStep
<1>5. ASSUME NEW p \in Players, HandleChallengeRewards(p) PROVE PlayersStep
  <2>1. last' = IF Active THEN [Remembered([last EXCEPT ![p] = r], p) EXCEPT ![p] = 1]
                ELSE Remembered(last, p)
      BY <1>5 DEF HandleChallengeRewards, r
  <2>2. last' \in [Players -> Nat]
      BY <1>1, <1>3, <2>1 DEF Remembered, r
  <2> QED BY <1>5, <2>2 DEF HandleChallengeRewards, PlayersStep
<1> QED BY <1>4, <1>5

\* Every action keeps the invariant.
LEMMA RiftNextInv == RiftInv /\ [Next]_vars => RiftInv'
<1> SUFFICES ASSUME RiftInv, [Next]_vars PROVE RiftInv'
    OBVIOUS
<1>1. ASSUME NEW c \in Choices, Configure(c) PROVE RiftInv'
  <2>1. /\ conf' = c /\ served' = NoBlob /\ allowed' = (allowed \/ c.dump)
        /\ UNCHANGED <<hooked, copies, seen, inbox, weekly, last>>
      BY <1>1 DEF Configure
  <2>2. TypeOK'
      BY <2>1, ChallengeRiftAssumption DEF RiftInv, TypeOK, Configs, copies, seen
  <2>3. (NoCopies => NoCopies') /\ FromRange'
      BY <2>1 DEF NoCopies, FromRange, NoBlob, copies
  <2> QED BY <2>1, <2>2, <2>3 DEF RiftInv
<1>2. CASE Reboot
  <2>1. /\ s_last' = 0 /\ g_last' = 0 /\ inbox' = None /\ weekly' = None
        /\ hooked' = conf.active /\ served' = NoBlob
        /\ UNCHANGED <<conf, copies, last, allowed>>
      BY <1>2 DEF Reboot
  <2>2. TypeOK'
      BY <2>1, ChallengeRiftAssumption DEF RiftInv, TypeOK, copies, Configs
  <2>3. (NoCopies => NoCopies') /\ FromRange'
      BY <2>1 DEF NoCopies, FromRange, NoBlob, copies
  <2> QED BY <2>1, <2>2, <2>3 DEF RiftInv
<1>3. ASSUME OpenChallengeRift \/ \E p \in Players : HandleChallengeRewards(p)
      PROVE  RiftInv'
    BY <1>3, RewardsStep, PlayersInv
<1>4. CASE UNCHANGED vars
    BY <1>4 DEF RiftInv, TypeOK, NoCopies, FromRange, vars, config, copies, seen
<1> QED BY <1>1, <1>2, <1>3, <1>4, DownloadInv, CallbackInv DEF Next

\* The invariant of the copies, the server's answers and the players.
THEOREM RiftInvariance == Spec => []RiftInv
BY RiftInitInv, RiftNextInv, PTL DEF Spec

\* Type correctness: the parser hook, the copies and the callback only ever
\* exchange blobs and challenge numbers, whatever a half-written copy parses to.
THEOREM RiftTypeCorrect == Spec => []TypeOK
<1>1. RiftInv => TypeOK
    BY DEF RiftInv
<1> QED BY <1>1, RiftInvariance, PTL

\* Without EnablePubFileDump, PopulateChallengeRiftData follows the range of
\* the configuration in force, for any range and any files of rift_data.
THEOREM RangeIsFollowed == Spec => []RangeWithoutDump
<1>1. RiftInv => RangeWithoutDump
    BY DEF RiftInv, RangeWithoutDump
<1> QED BY <1>1, RiftInvariance, PTL
=============================================================================
