-------------------------- MODULE DigestScheduler --------------------------
(***************************************************************************)
(* The daily flood digest (internal/digest): a process that waits for the  *)
(* hour, lists the floods of the day and mails them, over a table that     *)
(* ingestion keeps writing.                                                *)
(*                                                                         *)
(* now is the UTC wall clock in hours since the first midnight. The timer  *)
(* runs on the monotonic clock: a jump of the wall clock, or a host that   *)
(* slept, does not move it.                                                *)
(***************************************************************************)
EXTENDS Integers, Sequences, FiniteSets, SequencesExt, FiniteSetsExt

CONSTANTS
  Floods,        \* flood events
  DayLength,     \* hours in a day, scaled
  Hour,          \* DIGEST_SCHEDULE_HOUR
  MaxLimit,      \* the longest list ListEvents gives
  DefaultLimit,  \* the list it gives for a limit outside 1..MaxLimit
  LastDay,       \* bound: days
  MaxJumps,      \* bound: clock jumps
  MaxWrites      \* bound: writes of a flood with a new date

ASSUME DigestAssumption ==
  /\ DayLength \in Nat \ {0} /\ Hour \in 0..DayLength - 1
  /\ MaxLimit \in Nat \ {0} /\ DefaultLimit \in 1..MaxLimit
  /\ LastDay \in Nat /\ MaxJumps \in Nat /\ MaxWrites \in Nat

VARIABLES
  now,      \* wall clock
  at,       \* the goroutine: down, waiting, building, mailing
  timer,    \* hours left on the timer
  day,      \* startOfUTCDay of the time the digest is built for
  list,     \* the floods in it
  date,     \* event_date of each stored flood
  mails,    \* day -> the lists mailed on it
  excused,  \* ghost: days whose hour the goroutine could not act on
  tried,    \* ghost: days a digest was begun for
  jumps,    \* ghost: number of clock jumps
  written,  \* ghost: number of such writes
  redated,  \* ghost: floods whose date was changed
  early     \* ghost: floods of the day when building began, not written since

digestVars == <<now, at, timer, day, list, date, mails, excused, tried, jumps,
                written, redated, early>>
tableVars == <<date, written, redated>>
sendVars == <<day, list, early, mails, tried>>

Days == 0..LastDay
Times == 0..(LastDay + 1) * DayLength - 1
Unknown == -1  \* not stored, or event_date NULL

DayOf(t) == t \div DayLength

\* When the digest of a day is due.
HourOf(d) == d * DayLength + Hour

DigestTypeOK ==
  /\ now \in Times /\ day \in Days /\ timer \in 0..DayLength
  /\ at \in {"down", "waiting", "building", "mailing"}
  /\ list \subseteq Floods /\ early \subseteq Floods /\ redated \subseteq Floods
  /\ date \in [Floods -> Times \cup {Unknown}] /\ written \in 0..MaxWrites
  /\ mails \in [Days -> Seq(SUBSET Floods)]
  /\ excused \subseteq Days /\ tried \subseteq Days /\ jumps \in 0..MaxJumps

DigestInit ==
  /\ now = 0 /\ at = "down" /\ timer = 0 /\ day = 0 /\ list = {} /\ early = {}
  /\ date = [f \in Floods |-> Unknown] /\ written = 0 /\ redated = {}
  /\ mails = [d \in Days |-> <<>>] /\ excused = (IF Hour = 0 THEN {0} ELSE {}) /\ tried = {} /\ jumps = 0

\* Faulty variant: a candidate that is not after now stands.
UntilNextRunSame(t) == LET c == HourOf(DayOf(t)) IN
  IF c < t THEN c + DayLength - t ELSE c - t

\* Faulty variant: the next day is never taken.
UntilNextRunToday(t) == HourOf(DayOf(t)) - t

\* nextRun: the next occurrence of the hour strictly after t, as a duration.
UntilNextRun(t) == LET c == HourOf(DayOf(t)) IN
  IF c > t THEN c - t ELSE c + DayLength - t

\* Faulty variant: the day includes the midnight that ends it.
InDayClosed(t, d) == d * DayLength <= t /\ t <= (d + 1) * DayLength

\* DateFrom and DateTo: from midnight to before the next one.
InDay(t, d) == d * DayLength <= t /\ t < (d + 1) * DayLength

\* What the WHERE clause leaves; a NULL date is in no day.
OfDay(d) == {f \in Floods : date[f] # Unknown /\ InDay(date[f], d)}

\* ListEvents falls back to its default for a limit it does not allow.
Clamped(limit) == IF limit \in 1..MaxLimit THEN limit ELSE DefaultLimit

\* maxDigestEvents: the longest list there is.
DigestLimit == MaxLimit

\* BuildTodayDigest: the floods of the day, the latest ones when there are too many.
\* The total of ListEvents is ignored.
IsDigest(floods, d) ==
  /\ floods \subseteq OfDay(d)
  /\ Cardinality(floods) = Min({Clamped(DigestLimit), Cardinality(OfDay(d))})
  /\ \A f \in floods, g \in OfDay(d) \ floods : date[f] >= date[g]

Arm == at' = "waiting" /\ timer' = UntilNextRun(now)

\* The server starts, with recipients configured.
StartDigest ==
  /\ at = "down" /\ Arm
  /\ UNCHANGED <<now, sendVars, tableVars, excused, jumps>>

\* The timer fires and the time is read.
Fire ==
  /\ at = "waiting" /\ timer = 0 /\ at' = "building"
  /\ day' = DayOf(now) /\ tried' = tried \cup {day'} /\ early' = OfDay(day')
  /\ UNCHANGED <<now, timer, list, mails, tableVars, excused, jumps>>

Build ==
  /\ at = "building" /\ at' = "mailing"
  /\ \E floods \in SUBSET Floods : IsDigest(floods, day) /\ list' = floods
  /\ UNCHANGED <<now, timer, day, early, mails, tried, tableVars, excused, jumps>>

\* A failed query or a failed send is logged; the next day's run is independent.
DigestFails ==
  /\ at \in {"building", "mailing"} /\ Arm
  /\ list' = {} /\ early' = {}
  /\ UNCHANGED <<now, day, mails, tried, tableVars, excused, jumps>>

\* The mail service accepts the mail, whatever the client learns of it.
Mail ==
  /\ at = "mailing" /\ Arm
  /\ mails' = [mails EXCEPT ![day] = Append(@, list)]
  /\ list' = {} /\ early' = {}
  /\ UNCHANGED <<now, day, tried, tableVars, excused, jumps>>

\* A shutdown or a crash; a timer that fires at the same moment may lose.
Stop ==
  /\ at # "down" /\ at' = "down"
  /\ excused' = IF at = "waiting" /\ timer = 0 THEN excused \cup {DayOf(now)} ELSE excused
  /\ timer' = 0 /\ list' = {} /\ early' = {}
  /\ UNCHANGED <<now, day, mails, tried, tableVars, jumps>>

\* Ingestion stores a flood, or a new date of one.
Ingest(f, t) ==
  /\ written < MaxWrites /\ date[f] # t
  /\ date' = [date EXCEPT ![f] = t] /\ written' = written + 1
  /\ redated' = IF date[f] = Unknown THEN redated ELSE redated \cup {f}
  /\ early' = early \ {f}
  /\ UNCHANGED <<now, at, timer, day, list, mails, tried, excused, jumps>>

\* An hour passes. A timer that is due fires first; a query or a send may take long.
Tick ==
  /\ now + 1 \in Times /\ now' = now + 1
  /\ at = "waiting" => timer > 0
  /\ timer' = IF at = "waiting" THEN timer - 1 ELSE timer
  /\ excused' = IF now' = HourOf(DayOf(now')) /\ at # "waiting"
                THEN excused \cup {DayOf(now')} ELSE excused
  /\ UNCHANGED <<at, sendVars, tableVars, jumps>>

\* The wall clock is set, or the host slept.
Jump(t) ==
  /\ jumps < MaxJumps /\ t # now
  /\ now' = t /\ jumps' = jumps + 1
  /\ UNCHANGED <<at, timer, sendVars, tableVars, excused>>

DigestNext ==
  \/ StartDigest \/ Fire \/ Build \/ DigestFails \/ Mail \/ Stop \/ Tick
  \/ \E f \in Floods, t \in Times : Ingest(f, t)
  \/ \E t \in Times : Jump(t)

DigestSpec == DigestInit /\ [][DigestNext]_digestVars

(***************************************************************************)
(* Properties.                                                             *)
(***************************************************************************)

\* "One message per day": nothing but a jump of the clock causes a second mail,
\* neither a restart around the hour nor a send that ended in an error, and a jump
\* causes two at most: the timer that was running fires at the wrong hour, and the
\* next one at the hour. While the clock does not jump, the digest of a day is at
\* least attempted, unless the server was down, or busy with the digest before, when
\* the hour came.
DailyCadence ==
  /\ \A d \in Days : Len(mails[d]) <= 1 + 2 * jumps
  /\ jumps = 0 =>
       \A d \in Days : HourOf(d) < now => d \in excused \cup tried

\* A flood that was stored in time is in the list of its day, which is cut short
\* only when full, and no flood is in the mails of two days, not even one dated at
\* midnight, unless its date was changed between them.
MailIsItsDay ==
  /\ at = "mailing" => early \subseteq list \/ Cardinality(list) = MaxLimit
  /\ \A d, e \in Days : d # e =>
       \A i \in DOMAIN mails[d], j \in DOMAIN mails[e] :
         mails[d][i] \cap mails[e][j] \subseteq redated
=============================================================================
