--------------------------- MODULE Mailers_proofs ---------------------------
(***************************************************************************)
(* Proofs about the two parts that mail on a timer of their own: the daily *)
(* digest, for any number of floods, days, re-dated floods, restarts and   *)
(* jumps of the clock, and the staleness watchdog, for any set of replicas *)
(* and any number of references and faults.                                *)
(***************************************************************************)
EXTENDS DigestScheduler, StalenessWatchdog, FiniteSetTheorems, SequenceTheorems, TLAPS

(***************************************************************************)
(* What a mail of the digest lists.                                        *)
(***************************************************************************)

\* A flood that is listed for a day is dated on it, or has been re-dated since.
ListedFor(floods, d) ==
  \A f \in floods : f \in redated \/ (date[f] # Unknown /\ InDay(date[f], d))

MailInv ==
  /\ list \subseteq Floods /\ redated \subseteq Floods
  /\ date \in [Floods -> Times \cup {Unknown}]
  /\ mails \in [Days -> Seq(SUBSET Floods)]
  /\ at = "building" => early \subseteq OfDay(day)
  /\ at = "mailing" => /\ ListedFor(list, day)
                       /\ early \subseteq list \/ Cardinality(list) = MaxLimit
  /\ \A d \in Days : \A i \in 1..Len(mails[d]) : ListedFor(mails[d][i], d)

\* A day ends before any later one begins.
LEMMA DaysInOrder ==
  ASSUME NEW m \in Nat, NEW n \in Nat, m < n
  PROVE  /\ m * DayLength \in Nat /\ n * DayLength \in Nat
         /\ (m + 1) * DayLength = m * DayLength + DayLength
         /\ (m + 1) * DayLength <= n * DayLength
<1>1. DayLength \in Nat \ {0} /\ m + 1 <= n
  BY DigestAssumption
<1>2. PICK k \in Nat : n = m + 1 + k
  <2>1. n - (m + 1) \in Nat /\ n = m + 1 + (n - (m + 1))
    BY <1>1
  <2> QED
    BY <2>1
<1>3. n * DayLength = (m + 1) * DayLength + k * DayLength
  BY <1>1, <1>2
<1>4. /\ k * DayLength >= 0 /\ k * DayLength \in Int
      /\ m * DayLength \in Nat /\ n * DayLength \in Nat
      /\ (m + 1) * DayLength = m * DayLength + DayLength
  BY <1>1, <1>2
<1> QED
  BY <1>1, <1>3, <1>4

\* The days are half open, and so have no moment in common.
LEMMA DaysDisjoint ==
  ASSUME NEW d \in Nat, NEW e \in Nat, NEW t \in Int, InDay(t, d), InDay(t, e)
  PROVE  d = e
<1>1. DayLength \in Nat \ {0}
  BY DigestAssumption
<1>2. ~(d < e)
  BY <1>1, DaysInOrder DEF InDay
<1>3. ~(e < d)
  BY <1>1, DaysInOrder DEF InDay
<1> QED
  BY <1>2, <1>3

\* A list cut short has as many floods as a list can have.
LEMMA FullOrWhole ==
  ASSUME IsFiniteSet(Floods), NEW d, NEW floods, IsDigest(floods, d)
  PROVE  OfDay(d) \subseteq floods \/ Cardinality(floods) = MaxLimit
<1>1. floods \subseteq OfDay(d) /\ OfDay(d) \subseteq Floods
  BY DEF IsDigest, OfDay
<1>2. IsFiniteSet(OfDay(d))
  BY <1>1, FS_Subset
<1>3. /\ Cardinality(OfDay(d)) \in Nat /\ Cardinality(floods) \in Nat
      /\ floods # OfDay(d) => Cardinality(floods) < Cardinality(OfDay(d))
  BY <1>1, <1>2, FS_Subset, FS_CardinalityType
<1>4. Clamped(DigestLimit) = MaxLimit /\ MaxLimit \in Nat
  BY DigestAssumption DEF Clamped, DigestLimit
<1>5. Cardinality(floods) \in {MaxLimit, Cardinality(OfDay(d))}
  <2> DEFINE S == {MaxLimit, Cardinality(OfDay(d))}
  <2>1. \E x \in S : \A y \in S : x <= y
    BY <1>3, <1>4
  <2>2. Min(S) \in S
    BY <2>1 DEF Min
  <2> QED
    BY <1>4, <2>2 DEF IsDigest
<1> QED
  BY <1>1, <1>3, <1>5

LEMMA MailInit == DigestInit => MailInv
<1> SUFFICES ASSUME DigestInit PROVE MailInv
  OBVIOUS
<1>1. \A d \in Days : mails[d] = <<>>
  BY DEF DigestInit
<1>2. mails \in [Days -> Seq(SUBSET Floods)]
  BY DEF DigestInit
<1> QED
  BY <1>1, <1>2 DEF DigestInit, MailInv

\* A write of a date leaves every list as it was, or makes the flood a re-dated one.
LEMMA IngestKeepsLists ==
  ASSUME MailInv, NEW f \in Floods, NEW t \in Times, Ingest(f, t),
         NEW floods \in SUBSET Floods, NEW d, ListedFor(floods, d)
  PROVE  ListedFor(floods, d)'
<1> SUFFICES ASSUME NEW g \in floods
             PROVE  g \in redated' \/ (date'[g] # Unknown /\ InDay(date'[g], d))
  BY DEF ListedFor, InDay
<1>1. g \in Floods /\ (g \in redated \/ (date[g] # Unknown /\ InDay(date[g], d)))
  BY DEF ListedFor
<1>2. redated \subseteq redated'
  BY DEF Ingest
<1>3. CASE g = f
  BY <1>1, <1>2, <1>3 DEF Ingest
<1>4. CASE g # f
  <2>1. date'[g] = date[g]
    BY <1>1, <1>4 DEF MailInv, Ingest
  <2> QED
    BY <1>1, <1>2, <2>1
<1> QED
  BY <1>3, <1>4

\* Where the table and the mails stay, so does what is true of them.
LEMMA MailsKept ==
  ASSUME MailInv, UNCHANGED <<date, redated, mails>>
  PROVE  /\ (redated \subseteq Floods)' /\ (date \in [Floods -> Times \cup {Unknown}])'
         /\ (mails \in [Days -> Seq(SUBSET Floods)])'
         /\ \A floods, d : ListedFor(floods, d) <=> ListedFor(floods, d)'
         /\ (\A d \in Days : \A i \in 1..Len(mails[d]) : ListedFor(mails[d][i], d))'
<1>1. \A floods, d : ListedFor(floods, d) <=> ListedFor(floods, d)'
  BY DEF ListedFor, InDay
<1> QED
  BY <1>1 DEF MailInv

LEMMA MailNext ==
  ASSUME IsFiniteSet(Floods), MailInv, [DigestNext]_digestVars
  PROVE  MailInv'
<1>1. CASE StartDigest \/ DigestFails \/ Stop
  <2>1. UNCHANGED <<date, redated, mails>> /\ at' \in {"waiting", "down"}
    BY <1>1 DEF StartDigest, DigestFails, Stop, Arm, sendVars, tableVars
  <2>2. (list \subseteq Floods)'
    BY <1>1 DEF MailInv, StartDigest, DigestFails, Stop, sendVars
  <2> QED
    BY <2>1, <2>2, MailsKept DEF MailInv
<1>2. CASE Fire
  <2>1. UNCHANGED <<date, redated, mails, list>> /\ at' = "building"
    BY <1>2 DEF Fire, tableVars
  <2>2. (early \subseteq OfDay(day))'
    BY <1>2, <2>1 DEF Fire, OfDay, InDay
  <2> QED
    BY <2>1, <2>2, MailsKept DEF MailInv
<1>3. CASE Build
  <2>1. UNCHANGED <<date, redated, mails, day, early>> /\ at = "building" /\ at' = "mailing"
    BY <1>3 DEF Build, tableVars
  <2>2. IsDigest(list', day)
    BY <1>3 DEF Build
  <2>3. list' \subseteq OfDay(day) /\ OfDay(day) \subseteq Floods
    BY <2>2 DEF IsDigest, OfDay
  <2>4. ListedFor(list', day)
    BY <2>3 DEF ListedFor, OfDay
  <2>5. OfDay(day) \subseteq list' \/ Cardinality(list') = MaxLimit
    BY <2>2, FullOrWhole
  <2>6. early \subseteq OfDay(day)
    BY <2>1 DEF MailInv
  <2>7. ListedFor(list, day)'
    BY <2>1, <2>4 DEF ListedFor, InDay
  <2>8. (early \subseteq list \/ Cardinality(list) = MaxLimit)'
    BY <2>1, <2>5, <2>6
  <2>9. (list \subseteq Floods)'
    BY <2>3
  <2> QED
    BY <2>1, <2>7, <2>8, <2>9, MailsKept DEF MailInv
<1>4. CASE Mail
  <2>1. /\ UNCHANGED <<date, redated, day>> /\ at = "mailing" /\ at' = "waiting"
        /\ list' = {} /\ mails' = [mails EXCEPT ![day] = Append(@, list)]
    BY <1>4 DEF Mail, Arm, tableVars
  <2>2. ListedFor(list, day) /\ list \in SUBSET Floods
    BY <2>1 DEF MailInv
  <2>3. mails \in [Days -> Seq(SUBSET Floods)]
    BY DEF MailInv
  <2>4. (mails \in [Days -> Seq(SUBSET Floods)])'
    <3>1. CASE day \in Days
      <4>1. mails[day] \in Seq(SUBSET Floods)
        BY <3>1, <2>3
      <4>2. Append(mails[day], list) \in Seq(SUBSET Floods)
        BY <4>1, <2>2, AppendProperties
      <4> QED
        BY <2>1, <2>3, <4>2
    <3>2. CASE day \notin Days
      BY <2>1, <2>3, <3>2
    <3> QED
      BY <3>1, <3>2
  <2>5. ASSUME NEW d \in Days, NEW i \in 1..Len(mails'[d])
        PROVE  ListedFor(mails'[d][i], d)
    <3>1. mails[d] \in Seq(SUBSET Floods)
      BY <2>3
    <3>2. CASE d = day
      <4>1. mails'[d] = Append(mails[d], list)
        BY <2>1, <2>3, <3>2
      <4>2. /\ Len(mails'[d]) = Len(mails[d]) + 1 /\ Len(mails[d]) \in Nat
            /\ \A j \in 1..Len(mails[d]) : mails'[d][j] = mails[d][j]
            /\ mails'[d][Len(mails[d]) + 1] = list
        BY <4>1, <3>1, <2>2, AppendProperties, LenProperties
      <4>3. CASE i = Len(mails[d]) + 1
        BY <4>2, <4>3, <2>2, <3>2
      <4>4. CASE i \in 1..Len(mails[d])
        BY <4>2, <4>4 DEF MailInv
      <4> QED
        BY <4>2, <4>3, <4>4
    <3>3. CASE d # day
      <4>1. mails'[d] = mails[d]
        BY <2>1, <2>3, <3>3
      <4> QED
        BY <4>1 DEF MailInv
    <3> QED
      BY <3>2, <3>3
  <2>6. (\A d \in Days : \A i \in 1..Len(mails[d]) : ListedFor(mails[d][i], d))'
    BY <2>1, <2>5 DEF ListedFor, InDay
  <2> QED
    BY <2>1, <2>4, <2>6 DEF MailInv
<1>5. ASSUME NEW f \in Floods, NEW t \in Times, Ingest(f, t)
      PROVE  MailInv'
  <2>1. /\ UNCHANGED <<at, day, list, mails>> /\ early' = early \ {f}
        /\ date' = [date EXCEPT ![f] = t]
        /\ redated' \subseteq redated \cup {f}
    BY <1>5 DEF Ingest
  <2>2. (redated \subseteq Floods)' /\ (date \in [Floods -> Times \cup {Unknown}])'
    BY <2>1 DEF MailInv
  <2>3. at = "building" => (early \subseteq OfDay(day))'
    <3> SUFFICES ASSUME at = "building", NEW g \in early'
                 PROVE  g \in OfDay(day)'
      OBVIOUS
    <3>1. g # f /\ g \in OfDay(day)
      BY <2>1 DEF MailInv
    <3>2. g \in Floods /\ date'[g] = date[g]
      BY <2>1, <3>1 DEF MailInv, OfDay
    <3> QED
      BY <2>1, <3>1, <3>2 DEF OfDay, InDay
  <2>4. at = "mailing" => ListedFor(list, day)'
    <3> SUFFICES ASSUME at = "mailing" PROVE ListedFor(list, day)'
      OBVIOUS
    <3>1. ListedFor(list, day) /\ list \in SUBSET Floods
      BY DEF MailInv
    <3>2. \A g \in list : g \in redated' \/ (date'[g] # Unknown /\ InDay(date'[g], day))
      BY <1>5, <3>1, IngestKeepsLists DEF ListedFor, InDay
    <3> QED
      BY <2>1, <3>2 DEF ListedFor, InDay
  <2>5. ASSUME NEW d \in Days, NEW i \in 1..Len(mails[d])
        PROVE  \A g \in mails[d][i] : g \in redated' \/ (date'[g] # Unknown /\ InDay(date'[g], d))
    <3>1. ListedFor(mails[d][i], d) /\ mails[d] \in Seq(SUBSET Floods)
      BY DEF MailInv
    <3>2. mails[d][i] \in SUBSET Floods
      BY <3>1, ElementOfSeq
    <3> QED
      BY <1>5, <3>1, <3>2, IngestKeepsLists DEF ListedFor, InDay
  <2>6. (\A d \in Days : \A i \in 1..Len(mails[d]) : ListedFor(mails[d][i], d))'
    BY <2>1, <2>5 DEF ListedFor, InDay
  <2>7. at = "mailing" => (early \subseteq list \/ Cardinality(list) = MaxLimit)'
    BY <2>1 DEF MailInv
  <2> QED
    BY <2>1, <2>2, <2>3, <2>4, <2>6, <2>7 DEF MailInv
<1>6. CASE Tick \/ (\E t \in Times : Jump(t)) \/ UNCHANGED digestVars
  <2>1. UNCHANGED <<date, redated, mails, at, day, list, early>>
    BY <1>6 DEF Tick, Jump, digestVars, sendVars, tableVars
  <2>2. OfDay(day)' = OfDay(day)
    BY <2>1 DEF OfDay, InDay
  <2>3. ListedFor(list, day)' <=> ListedFor(list, day)
    BY <2>1 DEF ListedFor, InDay
  <2> QED
    BY <2>1, <2>2, <2>3, MailsKept DEF MailInv
<1> QED
  BY <1>1, <1>2, <1>3, <1>4, <1>5, <1>6 DEF DigestNext

LEMMA MailImplies == MailInv => MailIsItsDay
<1> SUFFICES ASSUME MailInv,
                    NEW d \in Days, NEW e \in Days, d # e,
                    NEW i \in DOMAIN mails[d], NEW j \in DOMAIN mails[e],
                    NEW f \in mails[d][i] \cap mails[e][j], f \notin redated
             PROVE  FALSE
  BY DEF MailInv, MailIsItsDay
<1>1. mails[d] \in Seq(SUBSET Floods) /\ mails[e] \in Seq(SUBSET Floods)
  BY DEF MailInv
<1>2. i \in 1..Len(mails[d]) /\ j \in 1..Len(mails[e])
  BY <1>1, LenProperties
<1>3. ListedFor(mails[d][i], d) /\ ListedFor(mails[e][j], e)
  BY <1>2 DEF MailInv
<1>4. InDay(date[f], d) /\ InDay(date[f], e)
  BY <1>3 DEF ListedFor
<1>5. f \in Floods
  BY <1>1, <1>2, ElementOfSeq
<1>6. date[f] \in Int
  BY <1>5, DigestAssumption DEF MailInv, Times, Unknown
<1>7. d \in Nat /\ e \in Nat
  BY DigestAssumption DEF Days
<1> QED
  BY <1>4, <1>6, <1>7, DaysDisjoint

\* A flood stored before the mail of its day is built is in it, unless it is full; and
\* no flood is in the mails of two days unless it was given another date, however
\* often BuildTodayDigest runs, fails, or is run again after a restart or a clock jump.
THEOREM MailsAreTheirDays ==
  ASSUME IsFiniteSet(Floods)
  PROVE  DigestSpec => []MailIsItsDay
<1>1. DigestInit => MailInv
  BY MailInit
<1>2. MailInv /\ [DigestNext]_digestVars => MailInv'
  BY MailNext
<1>3. MailInv => MailIsItsDay
  BY MailImplies
<1> QED
  BY <1>1, <1>2, <1>3, PTL DEF DigestSpec

(***************************************************************************)
(* The clock and the timer.                                                *)
(***************************************************************************)

\* The day of a moment is the one it lies in.
LEMMA DayOfTime ==
  ASSUME NEW t \in Nat
  PROVE  DayOf(t) \in Nat /\ InDay(t, DayOf(t))
<1>1. DayLength \in Nat \ {0}
  BY DigestAssumption
<1>2. DayOf(t) \in Int /\ DayOf(t) * DayLength <= t
  BY <1>1 DEF DayOf
<1>3. t < (DayOf(t) + 1) * DayLength
  BY <1>1 DEF DayOf
<1>4. DayOf(t) >= 0
  BY <1>1 DEF DayOf
<1> QED
  BY <1>2, <1>3, <1>4 DEF InDay

\* A wall clock reading within the bound lies on one of the days.
LEMMA DayOfReading ==
  ASSUME NEW t \in Times
  PROVE  t \in Nat /\ DayOf(t) \in Days
<1>1. DayLength \in Nat \ {0} /\ LastDay \in Nat /\ LastDay + 1 \in Nat
  BY DigestAssumption
<1>2. (LastDay + 1) * DayLength \in Nat
  BY <1>1
<1>3. t \in Nat /\ t < (LastDay + 1) * DayLength
  BY <1>2 DEF Times
<1>4. DayOf(t) \in Nat /\ InDay(t, DayOf(t))
  BY <1>3, DayOfTime
<1>5. ~(LastDay + 1 < DayOf(t)) /\ LastDay + 1 # DayOf(t)
  BY <1>1, <1>2, <1>3, <1>4, DaysInOrder DEF InDay
<1> QED
  BY <1>1, <1>3, <1>4, <1>5 DEF Days

\* The hour of a day is on that day, and the hours follow each other.
LEMMA HoursInOrder ==
  ASSUME NEW d \in Nat
  PROVE  /\ HourOf(d) \in Nat /\ InDay(HourOf(d), d)
         /\ HourOf(d + 1) = HourOf(d) + DayLength
         /\ \A e \in Nat : d < e => HourOf(d + 1) <= HourOf(e)
<1>1. DayLength \in Nat \ {0} /\ Hour \in Nat /\ Hour < DayLength
  BY DigestAssumption
<1>2. d * DayLength \in Nat /\ (d + 1) * DayLength = d * DayLength + DayLength
  BY <1>1, DaysInOrder, d < d + 1
<1>3. HourOf(d) \in Nat /\ InDay(HourOf(d), d) /\ HourOf(d + 1) = HourOf(d) + DayLength
  BY <1>1, <1>2 DEF HourOf, InDay
<1>4. ASSUME NEW e \in Nat, d < e
      PROVE  HourOf(d + 1) <= HourOf(e)
  BY <1>1, <1>4, DaysInOrder DEF HourOf
<1> QED
  BY <1>3, <1>4

\* nextRun gives the first hour after now: that of a day, with none in between.
LEMMA NextHour ==
  ASSUME NEW t \in Nat
  PROVE  /\ UntilNextRun(t) \in 1..DayLength
         /\ \E e \in Nat : t + UntilNextRun(t) = HourOf(e)
         /\ \A d \in Nat : HourOf(d) > t => t + UntilNextRun(t) <= HourOf(d)
<1> DEFINE e == DayOf(t)
<1>1. DayLength \in Nat \ {0} /\ Hour \in Nat /\ Hour < DayLength
  BY DigestAssumption
<1>2. e \in Nat /\ InDay(t, e)
  BY DayOfTime
<1>3. /\ HourOf(e) \in Nat /\ HourOf(e + 1) = HourOf(e) + DayLength
      /\ HourOf(e) = e * DayLength + Hour
      /\ e * DayLength \in Nat /\ (e + 1) * DayLength = e * DayLength + DayLength
  <2>1. e + 1 \in Nat /\ e < e + 1
    BY <1>2
  <2>2. e * DayLength \in Nat /\ (e + 1) * DayLength = e * DayLength + DayLength
    BY <1>2, <2>1, DaysInOrder
  <2>3. HourOf(e) \in Nat /\ HourOf(e + 1) = HourOf(e) + DayLength
    BY <1>2, HoursInOrder
  <2> QED
    BY <2>2, <2>3 DEF HourOf
<1>4. UntilNextRun(t) = IF HourOf(e) > t THEN HourOf(e) - t ELSE HourOf(e) + DayLength - t
  BY DEF UntilNextRun
<1>5. UntilNextRun(t) \in 1..DayLength
  BY <1>1, <1>2, <1>3, <1>4 DEF InDay
<1>6. ASSUME NEW d \in Nat, HourOf(d) > t
      PROVE  t + UntilNextRun(t) <= HourOf(d)
  <2>1. HourOf(d) \in Nat
    BY HoursInOrder
  <2>2. d < e => FALSE
    <3> SUFFICES ASSUME d < e PROVE FALSE
      OBVIOUS
    <3>1. (d + 1) * DayLength <= e * DayLength /\ InDay(HourOf(d), d)
      BY <1>2, DaysInOrder, HoursInOrder
    <3> QED
      BY <1>1, <1>2, <1>3, <1>6, <2>1, <3>1 DEF InDay
  <2>3. CASE d = e
    BY <1>3, <1>4, <1>6, <2>3
  <2>4. CASE e < d
    <3>1. HourOf(e + 1) <= HourOf(d)
      BY <1>2, <2>4, HoursInOrder
    <3> QED
      BY <1>1, <1>3, <1>4, <2>1, <3>1
  <2> QED
    BY <1>2, <2>2, <2>3, <2>4
<1>7. \E f \in Nat : t + UntilNextRun(t) = HourOf(f)
  BY <1>1, <1>2, <1>3, <1>4
<1> QED
  BY <1>5, <1>6, <1>7

\* At the hour of a day it is that day.
LEMMA AtTheHour ==
  ASSUME NEW d \in Nat
  PROVE  DayOf(HourOf(d)) = d
<1>1. HourOf(d) \in Nat /\ InDay(HourOf(d), d)
  BY HoursInOrder
<1>2. DayOf(HourOf(d)) \in Nat /\ InDay(HourOf(d), DayOf(HourOf(d)))
  BY <1>1, DayOfTime
<1> QED
  BY <1>1, <1>2, DaysDisjoint

(***************************************************************************)
(* Types.                                                                  *)
(***************************************************************************)

LEMMA DigestTypeInit == DigestInit => DigestTypeOK
<1> SUFFICES ASSUME DigestInit PROVE DigestTypeOK
  OBVIOUS
<1>1. 0 \in Times /\ 0 \in Days
  <2>1. DayLength \in Nat \ {0} /\ LastDay \in Nat
    BY DigestAssumption
  <2>2. (LastDay + 1) * DayLength = LastDay * DayLength + DayLength /\ LastDay * DayLength \in Nat
    BY <2>1
  <2> QED
    BY <2>1, <2>2 DEF Times, Days
<1>2. mails \in [Days -> Seq(SUBSET Floods)]
  BY DEF DigestInit
<1> QED
  BY <1>1, <1>2, DigestAssumption DEF DigestInit, DigestTypeOK

\* A timer is armed for no more than a day.
LEMMA ArmTypes ==
  ASSUME DigestTypeOK, Arm
  PROVE  at' = "waiting" /\ timer' \in 1..DayLength
<1>1. now \in Nat
  BY DayOfReading DEF DigestTypeOK
<1> QED
  BY <1>1, NextHour DEF Arm

LEMMA DigestTypeNext == DigestTypeOK /\ [DigestNext]_digestVars => DigestTypeOK'
<1> SUFFICES ASSUME DigestTypeOK, [DigestNext]_digestVars PROVE DigestTypeOK'
  OBVIOUS
<1> USE DigestAssumption
<1>0. DayOf(now) \in Days
  BY DayOfReading DEF DigestTypeOK
<1>1. CASE StartDigest
  BY <1>1, ArmTypes DEF StartDigest, DigestTypeOK, sendVars, tableVars
<1>2. CASE Fire
  BY <1>0, <1>2 DEF Fire, DigestTypeOK, OfDay, tableVars
<1>3. CASE Build
  BY <1>3 DEF Build, DigestTypeOK, tableVars
<1>4. CASE DigestFails
  BY <1>4, ArmTypes DEF DigestFails, DigestTypeOK, tableVars
<1>5. CASE Mail
  <2>1. Append(mails[day], list) \in Seq(SUBSET Floods)
    BY AppendProperties DEF DigestTypeOK
  <2>2. mails' \in [Days -> Seq(SUBSET Floods)]
    BY <1>5, <2>1 DEF Mail, DigestTypeOK
  <2>3. /\ UNCHANGED <<now, day, tried, date, written, redated, excused, jumps>>
        /\ list' = {} /\ early' = {}
    BY <1>5 DEF Mail, tableVars
  <2>4. at' = "waiting" /\ timer' \in 0..DayLength
    BY <1>5, ArmTypes DEF Mail
  <2> QED
    BY <2>2, <2>3, <2>4 DEF DigestTypeOK
<1>6. CASE Stop
  BY <1>0, <1>6 DEF Stop, DigestTypeOK, tableVars
<1>7. ASSUME NEW f \in Floods, NEW t \in Times, Ingest(f, t)
      PROVE  DigestTypeOK'
  BY <1>7 DEF Ingest, DigestTypeOK
<1>8. CASE Tick
  <2>1. now' \in Times /\ DayOf(now') \in Days
    BY <1>8, DayOfReading DEF Tick
  <2> QED
    BY <1>8, <2>1 DEF Tick, DigestTypeOK, sendVars, tableVars
<1>9. ASSUME NEW t \in Times, Jump(t)
      PROVE  DigestTypeOK'
  BY <1>9 DEF Jump, DigestTypeOK, sendVars, tableVars
<1>10. CASE UNCHANGED digestVars
  BY <1>10 DEF digestVars, DigestTypeOK
<1> QED
  BY <1>1, <1>2, <1>3, <1>4, <1>5, <1>6, <1>7, <1>8, <1>9, <1>10 DEF DigestNext

\* The wall clock and the timer stay within their bounds, for every length of a day.
THEOREM DigestTypeCorrect == DigestSpec => []DigestTypeOK
<1> QED
  BY DigestTypeInit, DigestTypeNext, PTL DEF DigestSpec

(***************************************************************************)
(* One mail a day.                                                         *)
(***************************************************************************)

Count(b) == IF b THEN 1 ELSE 0

\* The mails of a day that may still be sent without another jump: the digest in
\* hand, the one of its hour, and one of a timer that a jump has put out of step.
InHand(d) == at \in {"building", "mailing"} /\ day = d
HourToCome(d) == HourOf(d) > now \/ (at = "waiting" /\ now + timer = HourOf(d))
OffHour(d) == at = "waiting" /\ now + timer # HourOf(d) /\ InDay(now + timer, d)

Planned(d) == Count(InHand(d)) + Count(HourToCome(d)) + Count(OffHour(d))

CadenceInv == \A d \in Days : Len(mails[d]) + Planned(d) <= 1 + 2 * jumps

LEMMA CadenceInit == DigestInit => CadenceInv
<1> SUFFICES ASSUME DigestInit, NEW d \in Days PROVE Len(mails[d]) + Planned(d) <= 1 + 2 * jumps
  BY DEF CadenceInv
<1>1. mails[d] = <<>> /\ jumps = 0 /\ at = "down"
  BY DEF DigestInit
<1>2. ~InHand(d) /\ ~OffHour(d)
  BY <1>1 DEF InHand, OffHour
<1> QED
  BY <1>1, <1>2 DEF Planned, Count

\* Whatever plans no new mail and sends none keeps the bound.
LEMMA PlannedLess ==
  ASSUME DigestTypeOK, CadenceInv, NEW d \in Days, UNCHANGED <<mails, jumps>>,
         InHand(d)' => InHand(d), HourToCome(d)' => HourToCome(d), OffHour(d)' => OffHour(d)
  PROVE  Len(mails'[d]) + Planned(d)' <= 1 + 2 * jumps'
<1>1. Len(mails[d]) \in Nat /\ jumps \in Nat
  BY LenProperties DEF DigestTypeOK
<1>2. Planned(d)' <= Planned(d) /\ Planned(d) \in Nat /\ Planned(d)' \in Nat
  BY DEF Planned, Count
<1> QED
  BY <1>1, <1>2 DEF CadenceInv

\* A timer that is armed is for an hour to come.
LEMMA ArmPlans ==
  ASSUME DigestTypeOK, NEW d \in Days, Arm, now' = now
  PROVE  ~InHand(d)' /\ (HourToCome(d)' => HourToCome(d)) /\ ~OffHour(d)'
<1>1. now \in Nat /\ d \in Nat
  BY DayOfReading, DigestAssumption DEF DigestTypeOK, Days
<1>2. at' = "waiting" /\ timer' = UntilNextRun(now) /\ timer' \in 1..DayLength
  BY <1>1, NextHour DEF Arm
<1>3. PICK e \in Nat : now + timer' = HourOf(e)
  BY <1>1, <1>2, NextHour
<1>4. HourOf(d) \in Nat /\ HourOf(e) \in Nat /\ InDay(HourOf(e), e)
  BY <1>1, HoursInOrder
<1>5. InDay(now + timer', d) => d = e
  BY <1>1, <1>3, <1>4, DaysDisjoint
<1>6. ~OffHour(d)'
  BY <1>3, <1>5 DEF OffHour, HourOf, InDay
<1>7. HourToCome(d)' => HourToCome(d)
  BY <1>1, <1>2, <1>4, DigestAssumption DEF HourToCome, HourOf
<1> QED
  BY <1>2, <1>6, <1>7 DEF InHand

LEMMA CadenceNext == DigestTypeOK /\ CadenceInv /\ [DigestNext]_digestVars => CadenceInv'
<1> SUFFICES ASSUME DigestTypeOK, CadenceInv, [DigestNext]_digestVars, NEW d \in Days
             PROVE  (Len(mails[d]) + Planned(d) <= 1 + 2 * jumps)'
  BY DEF CadenceInv, Days
<1>0. /\ now \in Nat /\ d \in Nat /\ HourOf(d) \in Nat /\ HourOf(d)' = HourOf(d)
      /\ timer \in Nat /\ jumps \in Nat /\ InDay(HourOf(d), d)
      /\ \A t : InDay(t, d)' <=> InDay(t, d)
  BY DayOfReading, HoursInOrder, DigestAssumption DEF DigestTypeOK, Days, HourOf, InDay
<1>a. mails[d] \in Seq(SUBSET Floods) /\ Len(mails[d]) \in Nat
  BY LenProperties DEF DigestTypeOK
<1>1. CASE StartDigest \/ DigestFails
  <2>1. UNCHANGED <<mails, jumps, now>> /\ Arm
    BY <1>1 DEF StartDigest, DigestFails, sendVars
  <2> QED
    BY <2>1, ArmPlans, PlannedLess
<1>2. CASE Fire
  <2>1. /\ UNCHANGED <<mails, jumps, now, timer>> /\ at = "waiting" /\ timer = 0
        /\ at' = "building" /\ day' = DayOf(now)
    BY <1>2 DEF Fire
  <2>2. CASE d = DayOf(now)
    <3>1. InDay(now, d)
      BY <1>0, <2>2, DayOfTime
    <3>2. ~InHand(d) /\ ~OffHour(d)' /\ (HourToCome(d)' => HourToCome(d))
      BY <1>0, <2>1 DEF InHand, OffHour, HourToCome
    <3>3. OffHour(d) \/ (HourToCome(d) /\ ~HourToCome(d)')
      BY <1>0, <2>1, <3>1 DEF OffHour, HourToCome
    <3>4. Planned(d)' <= Planned(d) /\ Planned(d) \in Nat /\ Planned(d)' \in Nat
      BY <3>2, <3>3 DEF Planned, Count
    <3> QED
      BY <1>0, <1>a, <2>1, <3>4 DEF CadenceInv
  <2>3. CASE d # DayOf(now)
    <3>1. ~InHand(d)' /\ ~OffHour(d)' /\ (HourToCome(d)' => HourToCome(d))
      BY <1>0, <2>1, <2>3 DEF InHand, OffHour, HourToCome
    <3> QED
      BY <2>1, <3>1, PlannedLess
  <2> QED
    BY <2>2, <2>3
<1>3. CASE Build
  <2>1. UNCHANGED <<mails, jumps, now, timer, day>> /\ at = "building" /\ at' = "mailing"
    BY <1>3 DEF Build
  <2>2. (InHand(d)' => InHand(d)) /\ (HourToCome(d)' => HourToCome(d)) /\ ~OffHour(d)'
    BY <1>0, <2>1 DEF InHand, OffHour, HourToCome
  <2> QED
    BY <2>1, <2>2, PlannedLess
<1>4. CASE Mail
  <2>1. /\ UNCHANGED <<jumps, now, day>> /\ at = "mailing" /\ Arm
        /\ mails' = [mails EXCEPT ![day] = Append(@, list)]
    BY <1>4 DEF Mail
  <2>2. ~InHand(d)' /\ (HourToCome(d)' => HourToCome(d)) /\ ~OffHour(d)'
    BY <2>1, ArmPlans
  <2>3. Planned(d)' + Count(InHand(d)) <= Planned(d) /\ Planned(d) \in Nat /\ Planned(d)' \in Nat
    BY <2>2 DEF Planned, Count
  <2>4. mails \in [Days -> Seq(SUBSET Floods)] /\ list \in SUBSET Floods
    BY DEF DigestTypeOK
  <2>5. CASE d = day
    <3>1. mails'[d] = Append(mails[d], list)
      BY <2>1, <2>4, <2>5
    <3>2. Len(mails'[d]) = Len(mails[d]) + 1
      BY <1>a, <2>4, <3>1, AppendProperties
    <3>3. Count(InHand(d)) = 1
      BY <2>1, <2>5 DEF InHand, Count
    <3> QED
      BY <1>0, <1>a, <2>1, <2>3, <3>2, <3>3 DEF CadenceInv
  <2>6. CASE d # day
    <3>1. mails'[d] = mails[d]
      BY <2>1, <2>4, <2>6
    <3>2. Planned(d)' <= Planned(d) /\ Planned(d) \in Nat /\ Planned(d)' \in Nat
      BY <2>2 DEF Planned, Count
    <3>3. Len(mails[d]) + Planned(d) <= 1 + 2 * jumps
      BY DEF CadenceInv
    <3>4. jumps' = jumps /\ Len(mails'[d]) = Len(mails[d])
      BY <2>1, <3>1
    <3> QED
      BY <1>0, <1>a, <3>2, <3>3, <3>4
  <2> QED
    BY <2>5, <2>6
<1>5. CASE Stop
  <2>1. UNCHANGED <<mails, jumps, now, day>> /\ at' = "down"
    BY <1>5 DEF Stop
  <2>2. ~InHand(d)' /\ (HourToCome(d)' => HourToCome(d)) /\ ~OffHour(d)'
    BY <1>0, <2>1 DEF InHand, OffHour, HourToCome
  <2> QED
    BY <2>1, <2>2, PlannedLess
<1>6. CASE (\E f \in Floods, t \in Times : Ingest(f, t)) \/ UNCHANGED digestVars
  <2>1. UNCHANGED <<mails, jumps, now, timer, day, at>>
    BY <1>6 DEF Ingest, digestVars
  <2>2. /\ InHand(d)' <=> InHand(d)
        /\ HourToCome(d)' <=> HourToCome(d)
        /\ OffHour(d)' <=> OffHour(d)
    BY <1>0, <2>1 DEF InHand, OffHour, HourToCome
  <2> QED
    BY <2>1, <2>2, PlannedLess
<1>7. CASE Tick
  <2>1. /\ UNCHANGED <<mails, jumps, day, at>> /\ now' = now + 1
        /\ at = "waiting" => timer' = timer - 1
    BY <1>7 DEF Tick, sendVars
  <2>2. at = "waiting" => timer' \in Int /\ now' + timer' = now + timer
    BY <1>0, <2>1
  <2>3. InHand(d)' <=> InHand(d)
    BY <2>1 DEF InHand
  <2>4. OffHour(d)' <=> OffHour(d)
    BY <1>0, <2>1, <2>2 DEF OffHour
  <2>5. HourToCome(d)' => HourToCome(d)
    BY <1>0, <2>1, <2>2 DEF HourToCome
  <2> QED
    BY <2>1, <2>3, <2>4, <2>5, PlannedLess
<1>8. ASSUME NEW t \in Times, Jump(t)
      PROVE  (Len(mails[d]) + Planned(d) <= 1 + 2 * jumps)'
  <2>1. UNCHANGED <<mails, timer, day, at>> /\ jumps' = jumps + 1
    BY <1>8 DEF Jump, sendVars
  <2>2. InHand(d)' <=> InHand(d)
    BY <2>1 DEF InHand
  <2>3. Planned(d)' <= Planned(d) + 2 /\ Planned(d) \in Nat /\ Planned(d)' \in Nat
    BY <2>2 DEF Planned, Count
  <2> QED
    BY <1>0, <1>a, <2>1, <2>3 DEF CadenceInv
<1> QED
  BY <1>1, <1>2, <1>3, <1>4, <1>5, <1>6, <1>7, <1>8 DEF DigestNext

(***************************************************************************)
(* No day without an attempt.                                              *)
(***************************************************************************)

\* While the clock has not jumped: the hours gone by are accounted for, the hour
\* that has come is the one of the timer, and the timer skips none to come.
AttemptInv ==
  jumps = 0 => \A d \in Days :
    /\ HourOf(d) < now => d \in excused \cup tried
    /\ HourOf(d) = now => d \in excused \cup tried \/ (at = "waiting" /\ timer = 0)
    /\ at = "waiting" /\ HourOf(d) > now => now + timer <= HourOf(d)

LEMMA AttemptInit == DigestInit => AttemptInv
<1> SUFFICES ASSUME DigestInit, NEW d \in Days
             PROVE  ~(HourOf(d) < now) /\ (HourOf(d) = now => d \in excused) /\ at # "waiting"
  BY DEF AttemptInv
<1>1. now = 0 /\ at = "down" /\ excused = (IF Hour = 0 THEN {0} ELSE {})
  BY DEF DigestInit
<1>2. d \in Nat /\ HourOf(d) \in Nat /\ 0 \in Nat
  BY HoursInOrder, DigestAssumption DEF Days
<1>3. HourOf(0) = Hour /\ Hour \in Nat /\ DayLength \in Nat \ {0}
  BY DigestAssumption DEF HourOf
<1>4. 0 < d => HourOf(d) > 0
  <2>1. HourOf(0 + 1) = HourOf(0) + DayLength /\ (0 < d => HourOf(0 + 1) <= HourOf(d))
    BY <1>2, HoursInOrder
  <2> QED
    BY <1>2, <1>3, <2>1
<1> QED
  BY <1>1, <1>2, <1>3, <1>4

LEMMA AttemptNext == DigestTypeOK /\ AttemptInv /\ [DigestNext]_digestVars => AttemptInv'
<1> SUFFICES ASSUME DigestTypeOK, AttemptInv, [DigestNext]_digestVars, jumps' = 0, NEW d \in Days
             PROVE  /\ HourOf(d) < now' => d \in excused' \cup tried'
                    /\ HourOf(d) = now' =>
                         d \in excused' \cup tried' \/ (at' = "waiting" /\ timer' = 0)
                    /\ at' = "waiting" /\ HourOf(d) > now' => now' + timer' <= HourOf(d)
  BY DEF AttemptInv, HourOf, Days
<1>0. /\ now \in Nat /\ d \in Nat /\ HourOf(d) \in Nat /\ timer \in Nat /\ jumps \in Nat
      /\ DayOf(HourOf(d)) = d
  <2>1. d \in Nat
    BY DigestAssumption DEF Days
  <2>2. now \in Nat /\ timer \in Nat /\ jumps \in Nat
    BY DayOfReading, DigestAssumption DEF DigestTypeOK
  <2>3. HourOf(d) \in Nat /\ DayOf(HourOf(d)) = d
    BY <2>1, HoursInOrder, AtTheHour
  <2> QED
    BY <2>1, <2>2, <2>3
<1>a. jumps = 0
  BY <1>0 DEF DigestNext, digestVars, StartDigest, Fire, Build, DigestFails, Mail, Stop, Ingest, Tick, Jump
<1>b. /\ HourOf(d) < now => d \in excused \cup tried
      /\ HourOf(d) = now => d \in excused \cup tried \/ (at = "waiting" /\ timer = 0)
      /\ at = "waiting" /\ HourOf(d) > now => now + timer <= HourOf(d)
  BY <1>a DEF AttemptInv
<1>1. CASE StartDigest \/ DigestFails \/ Mail
  <2>1. UNCHANGED <<now, excused, tried>> /\ Arm /\ at # "waiting"
    BY <1>1 DEF StartDigest, DigestFails, Mail, sendVars
  <2>2. HourOf(d) > now => now + timer' <= HourOf(d)
    BY <1>0, <2>1, NextHour DEF Arm
  <2> QED
    BY <1>b, <2>1, <2>2
<1>2. CASE Fire
  <2>1. /\ UNCHANGED <<now, excused>> /\ tried' = tried \cup {DayOf(now)}
        /\ at' = "building"
    BY <1>2 DEF Fire
  <2> QED
    BY <1>0, <1>b, <2>1
<1>3. CASE Build
  BY <1>3, <1>b DEF Build
<1>4. CASE Stop
  <2>1. /\ UNCHANGED <<now, tried>> /\ at' = "down"
        /\ excused' = IF at = "waiting" /\ timer = 0 THEN excused \cup {DayOf(now)} ELSE excused
    BY <1>4 DEF Stop
  <2> QED
    BY <1>0, <1>b, <2>1
<1>5. CASE (\E f \in Floods, t \in Times : Ingest(f, t)) \/ UNCHANGED digestVars
  BY <1>5, <1>b DEF Ingest, digestVars
<1>6. CASE Tick
  <2>1. /\ now' = now + 1 /\ tried' = tried /\ at' = at
        /\ at = "waiting" => timer > 0 /\ timer' = timer - 1
        /\ excused' = IF now' = HourOf(DayOf(now')) /\ at # "waiting"
                      THEN excused \cup {DayOf(now')} ELSE excused
    BY <1>6 DEF Tick, sendVars
  <2>2. HourOf(d) < now' => d \in excused' \cup tried'
    BY <1>0, <1>b, <2>1
  <2>3. HourOf(d) = now' => d \in excused' \cup tried' \/ (at' = "waiting" /\ timer' = 0)
    BY <1>0, <1>b, <2>1
  <2>4. at' = "waiting" /\ HourOf(d) > now' => now' + timer' <= HourOf(d)
    BY <1>0, <1>b, <2>1
  <2> QED
    BY <2>2, <2>3, <2>4
<1>7. ASSUME NEW t \in Times, Jump(t)
      PROVE  FALSE
  BY <1>0, <1>7 DEF Jump
<1> QED
  BY <1>1, <1>2, <1>3, <1>4, <1>5, <1>6, <1>7 DEF DigestNext

\* The digest goes out once a day, and two more times for each jump of the clock,
\* through restarts at any moment and sends of any outcome; and while the clock does
\* not jump, no hour passes without an attempt unless the goroutine was down or busy.
THEOREM OneMailADay == DigestSpec => []DailyCadence
<1> DEFINE Inv == DigestTypeOK /\ CadenceInv /\ AttemptInv
<1>1. DigestInit => Inv
  BY DigestTypeInit, CadenceInit, AttemptInit
<1>2. Inv /\ [DigestNext]_digestVars => Inv'
  BY DigestTypeNext, CadenceNext, AttemptNext
<1>3. Inv => DailyCadence
  <2> SUFFICES ASSUME Inv PROVE DailyCadence
    OBVIOUS
  <2>1. ASSUME NEW d \in Days
        PROVE  Len(mails[d]) <= 1 + 2 * jumps
    <3>1. Len(mails[d]) \in Nat /\ jumps \in Nat /\ Planned(d) \in Nat
      BY LenProperties DEF DigestTypeOK, Planned, Count
    <3> QED
      BY <3>1 DEF CadenceInv
  <2> QED
    BY <2>1 DEF AttemptInv, DailyCadence
<1> QED
  BY <1>1, <1>2, <1>3, PTL DEF DigestSpec

(***************************************************************************)
(* The staleness watchdog.                                                 *)
(***************************************************************************)

USE BoundsAssumption

Working == {"claiming", "sending", "releasing"}

\* A replica in the middle of a tick works on a real reference.
WorkHasReference ==
  /\ stale => ref \in Refs
  /\ \A r \in Replicas : pc[r] \in Working => mine[r] \in Refs

\* The row of a reported reference stays, because nobody is in a position to
\* release it: this is what makes OneAlertPerReference inductive.
ReportedIsSettled ==
  \A k \in Refs : acked[k] > 0 =>
    /\ k \in claims
    /\ \A r \in Replicas : Sending(r) => mine[r] # k

IInv ==
  /\ TypeOK /\ WorkHasReference
  /\ ClaimIsExclusive /\ ReportedIsSettled /\ OneAlertPerReference

\* Refs is kept folded: the steps only use that 0..MaxRefs adds None to it.
LEMMA RefsFact == /\ \A k \in 0..MaxRefs : k # 0 => k \in Refs
                  /\ Refs \subseteq 0..MaxRefs /\ 0 \in 0..MaxRefs
                  /\ \A k \in 0..MaxRefs : k < MaxRefs => k + 1 \in Refs
BY DEF Refs

LEMMA ReferenceStep ==
  TypeOK /\ WorkHasReference /\ [Next]_vars => WorkHasReference'
<1> SUFFICES ASSUME TypeOK, WorkHasReference, [Next]_vars PROVE WorkHasReference'
  OBVIOUS
<1> USE RefsFact DEF TypeOK, WorkHasReference, Working, None
<1>1. CASE UNCHANGED vars
  BY <1>1 DEF vars
<1>2. CASE NewReference
  BY <1>2 DEF NewReference
<1>3. CASE TurnsStale
  BY <1>3 DEF TurnsStale
<1>4. ASSUME NEW r \in Replicas, TickSends(r) PROVE WorkHasReference'
  BY <1>4 DEF TickSends, ShouldSend, Goto
<1>5. ASSUME NEW r \in Replicas,
             Start(r) \/ TickResets(r) \/ SendFails(r) \/ Crash(r)
      PROVE  WorkHasReference'
  BY <1>5 DEF Start, TickResets, SendFails, AfterFailedSend, Crash, Goto
<1>6. ASSUME NEW r \in Replicas,
             Claim(r) \/ SendOK(r) \/ Release(r) \/ ClaimFails(r) \/ ReleaseFails(r)
      PROVE  WorkHasReference'
  BY <1>6 DEF Claim, SendOK, Release, ClaimFails, ReleaseFails, Goto, Continue
<1>7. QED
  BY <1>1, <1>2, <1>3, <1>4, <1>5, <1>6 DEF Next, Step, Fault

LEMMA TypeStep == TypeOK /\ WorkHasReference /\ [Next]_vars => TypeOK'
<1> SUFFICES ASSUME TypeOK, WorkHasReference, [Next]_vars PROVE TypeOK'
  OBVIOUS
<1> USE RefsFact DEF TypeOK, WorkHasReference, Working, None
<1>1. CASE UNCHANGED vars
  BY <1>1 DEF vars
<1>2. CASE NewReference
  BY <1>2 DEF NewReference
<1>3. CASE TurnsStale
  BY <1>3 DEF TurnsStale
<1>4. ASSUME NEW r \in Replicas, Start(r) PROVE TypeOK'
  BY <1>4 DEF Start, Goto
<1>5. ASSUME NEW r \in Replicas, Step(r) PROVE TypeOK'
  <2>1. CASE TickSends(r)
    BY <2>1 DEF TickSends, ShouldSend, Goto
  <2>2. CASE TickResets(r)
    BY <2>2 DEF TickResets
  <2>3. CASE Claim(r)
    BY <2>3 DEF Claim, Goto, Continue
  <2>4. CASE SendOK(r)
    <3>1. pc[r] = "sending" /\ mine[r] \in Refs /\ acked[mine[r]] + 1 \in Nat
      BY <2>4 DEF SendOK
    <3>2. acked' \in [Refs -> Nat] /\ reached' \subseteq Refs
      BY <2>4, <3>1 DEF SendOK
    <3>3. last' \in [Replicas -> 0..MaxRefs] /\ mine' \in [Replicas -> 0..MaxRefs]
      BY <2>4 DEF SendOK, Continue
    <3>4. QED
      BY <2>4, <3>2, <3>3 DEF SendOK, Goto, Continue
  <2>5. CASE Release(r)
    BY <2>5 DEF Release, Goto, Continue
  <2>6. QED
    BY <1>5, <2>1, <2>2, <2>3, <2>4, <2>5 DEF Step
<1>6. ASSUME NEW r \in Replicas, Fault(r) PROVE TypeOK'
  <2>0. CountFault => faults' \in 0..MaxFaults
    BY DEF CountFault
  <2>1. CASE ClaimFails(r)
    BY <2>0, <2>1 DEF ClaimFails, Goto, Continue
  <2>2. CASE SendFails(r)
    BY <2>0, <2>2 DEF SendFails, AfterFailedSend, Goto
  <2>3. CASE ReleaseFails(r)
    BY <2>0, <2>3 DEF ReleaseFails, Goto, Continue
  <2>4. CASE Crash(r)
    BY <2>0, <2>4 DEF Crash, Goto
  <2>5. QED
    BY <1>6, <2>1, <2>2, <2>3, <2>4 DEF Fault
<1>7. QED
  BY <1>1, <1>2, <1>3, <1>4, <1>5, <1>6 DEF Next

LEMMA InitIInv == Init => IInv
<1> SUFFICES ASSUME Init PROVE IInv
  OBVIOUS
<1>1. /\ ref = 0 /\ stale = FALSE /\ faults = 0 /\ claims = {}
      /\ reached = {} /\ crashed = {} /\ lost = {}
  BY DEF Init
<1>2. \A r \in Replicas : pc[r] = "idle"
  BY DEF Init
<1>3. /\ pc \in [Replicas -> {"down", "idle", "claiming", "sending", "releasing"}]
      /\ mine \in [Replicas -> 0..MaxRefs] /\ last \in [Replicas -> 0..MaxRefs]
  BY RefsFact DEF Init, None
<1>4. acked \in [Refs -> Nat] /\ \A k \in Refs : acked[k] = 0
  BY DEF Init
<1>5. TypeOK
  <2>1. ref \in 0..MaxRefs /\ faults \in 0..MaxFaults
    BY <1>1
  <2>2. QED
    BY <1>1, <1>3, <1>4, <2>1 DEF TypeOK
<1>6. WorkHasReference
  BY <1>1, <1>2 DEF WorkHasReference, Working
<1>7. ClaimIsExclusive /\ ReportedIsSettled /\ OneAlertPerReference
  BY <1>2, <1>4 DEF ClaimIsExclusive, Sending, ReportedIsSettled, OneAlertPerReference
<1>8. QED
  BY <1>5, <1>6, <1>7 DEF IInv

\* Type correctness of the watchdogs and their claims (watchdog.go).
THEOREM WatchdogTypeCorrect == Spec => []TypeOK
<1>1. Init => TypeOK /\ WorkHasReference
  BY InitIInv DEF IInv
<1>2. QED
  BY <1>1, TypeStep, ReferenceStep, PTL DEF Spec

\* One claim per reference: only the replica that inserted the row sends.
LEMMA ExclusiveStep == IInv /\ [Next]_vars => ClaimIsExclusive'
<1> SUFFICES ASSUME IInv, [Next]_vars PROVE ClaimIsExclusive'
  OBVIOUS
<1> USE DEF IInv, TypeOK, WorkHasReference, Working, ClaimIsExclusive, Sending
<1>1. CASE UNCHANGED vars
  BY <1>1 DEF vars
<1>2. CASE NewReference \/ TurnsStale
  BY <1>2 DEF NewReference, TurnsStale
<1>3. ASSUME NEW r \in Replicas, Start(r) \/ TickSends(r) \/ TickResets(r)
      PROVE  ClaimIsExclusive'
  BY <1>3 DEF Start, TickSends, TickResets, Goto
<1>4. ASSUME NEW r \in Replicas, Claim(r) PROVE ClaimIsExclusive'
  BY <1>4 DEF Claim, Claimable, Goto, Continue
<1>5. ASSUME NEW r \in Replicas, SendOK(r) \/ Release(r) PROVE ClaimIsExclusive'
  BY <1>5 DEF SendOK, Release, Goto, Continue
<1>6. ASSUME NEW r \in Replicas, ClaimFails(r) \/ ReleaseFails(r)
      PROVE  ClaimIsExclusive'
  BY <1>6 DEF ClaimFails, ReleaseFails, Goto, Continue
<1>7. ASSUME NEW r \in Replicas, SendFails(r) PROVE ClaimIsExclusive'
  BY <1>7 DEF SendFails, AfterFailedSend, Goto
<1>8. ASSUME NEW r \in Replicas, Crash(r) PROVE ClaimIsExclusive'
  BY <1>8 DEF Crash, Goto
<1>9. QED
  BY <1>1, <1>2, <1>3, <1>4, <1>5, <1>6, <1>7, <1>8 DEF Next, Step, Fault

\* Two reports of a reference need two claims of it, and the first stays.
LEMMA ReportStep == IInv /\ [Next]_vars => ReportedIsSettled' /\ OneAlertPerReference'
<1> SUFFICES ASSUME IInv, [Next]_vars
             PROVE  ReportedIsSettled' /\ OneAlertPerReference'
  OBVIOUS
<1> USE DEF IInv, TypeOK, WorkHasReference, Working, ClaimIsExclusive, Sending,
            ReportedIsSettled, OneAlertPerReference
<1>1. CASE UNCHANGED vars
  BY <1>1 DEF vars
<1>2. CASE NewReference \/ TurnsStale
  BY <1>2 DEF NewReference, TurnsStale
<1>3. ASSUME NEW r \in Replicas, Start(r) \/ TickSends(r) \/ TickResets(r)
      PROVE  ReportedIsSettled' /\ OneAlertPerReference'
  BY <1>3 DEF Start, TickSends, TickResets, Goto
<1>4. ASSUME NEW r \in Replicas, Claim(r)
      PROVE  ReportedIsSettled' /\ OneAlertPerReference'
  BY <1>4 DEF Claim, Claimable, Goto, Continue
<1>5. ASSUME NEW r \in Replicas, SendOK(r)
      PROVE  ReportedIsSettled' /\ OneAlertPerReference'
  <2>1. pc[r] = "sending" /\ mine[r] \in Refs
    BY <1>5 DEF SendOK
  <2>2. acked[mine[r]] = 0
    BY <2>1
  <2>3. acked' = [acked EXCEPT ![mine[r]] = 1] /\ claims' = claims
    BY <1>5, <2>1, <2>2 DEF SendOK
  <2>4. \A s \in Replicas : Sending(s)' => Sending(s) /\ s # r /\ mine'[s] = mine[s]
    BY <1>5 DEF SendOK, Goto, Continue
  <2>5. QED
    BY <2>1, <2>3, <2>4
<1>6. ASSUME NEW r \in Replicas, Release(r)
      PROVE  ReportedIsSettled' /\ OneAlertPerReference'
  BY <1>6 DEF Release, Goto, Continue
<1>7. ASSUME NEW r \in Replicas, ClaimFails(r) \/ ReleaseFails(r)
      PROVE  ReportedIsSettled' /\ OneAlertPerReference'
  BY <1>7 DEF ClaimFails, ReleaseFails, Goto, Continue
<1>8. ASSUME NEW r \in Replicas, SendFails(r)
      PROVE  ReportedIsSettled' /\ OneAlertPerReference'
  BY <1>8 DEF SendFails, AfterFailedSend, Goto
<1>9. ASSUME NEW r \in Replicas, Crash(r)
      PROVE  ReportedIsSettled' /\ OneAlertPerReference'
  BY <1>9 DEF Crash, Goto
<1>10. QED
  BY <1>1, <1>2, <1>3, <1>4, <1>5, <1>6, <1>7, <1>8, <1>9 DEF Next, Step, Fault

LEMMA Inductive == Spec => []IInv
<1>1. Init => IInv
  BY InitIInv
<1>2. IInv /\ [Next]_vars => IInv'
  BY TypeStep, ReferenceStep, ExclusiveStep, ReportStep DEF IInv
<1>3. QED
  BY <1>1, <1>2, PTL DEF Spec

\* A replica that sends, or takes its claim back, owns the alert_dedupe row
\* alone (TryRecordStalenessAlert, ReleaseStalenessAlertClaim).
THEOREM ClaimsExclude == Spec => []ClaimIsExclusive
<1>1. IInv => ClaimIsExclusive
  BY DEF IInv
<1>2. QED
  BY <1>1, Inductive, PTL

\* Over all replicas, restarts and retries, at most one staleness alert per
\* reference is reported sent.
THEOREM OneAlert == Spec => []OneAlertPerReference
<1>1. IInv => OneAlertPerReference
  BY DEF IInv
<1>2. QED
  BY <1>1, Inductive, PTL
=============================================================================
