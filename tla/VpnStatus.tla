----------------------------- MODULE VpnStatus -----------------------------
(***************************************************************************)
(* What VpnStatus collects under the lock of its class: the log buffer and *)
(* the history of byte counts (TrafficHistory).                            *)
(*                                                                         *)
(* Any thread may log: an item takes the time when it is made and enters   *)
(* the buffer when its thread gets the lock, later items possibly before   *)
(* it.  Every running session reports its own byte count.  The clock is    *)
(* the wall clock, which somebody may set back.                            *)
(*                                                                         *)
(* An item is its time.  Cached lines, items inserted if unique and        *)
(* clearLog belong to the status service and the launcher, which the app   *)
(* does not use.  Bytes out are counted like bytes in.                     *)
(***************************************************************************)
EXTENDS Integers, SequencesExt

CONSTANTS MaxLogEntries,   \* MAXLOGENTRIES, 1000
          Minute, Hour,    \* TIME_PERIOD_MINTUES and _HOURS, in ticks
          PeriodsToKeep,   \* PERIODS_TO_KEEP, 5
          Reporters,       \* the sessions that report
          MaxClock, MaxEvents, MaxBytes   \* bounds

ASSUME MaxLogEntriesAssumption == MaxLogEntries \in Nat \ {0}
ASSUME PeriodAssumption ==
    /\ Minute \in Nat \ {0} /\ Hour \in Nat \ {0} /\ Hour >= 2 * Minute
    /\ Hour <= MaxClock
    /\ PeriodsToKeep \in Nat \ {0}
ASSUME BoundsAssumption ==
    MaxClock \in Nat /\ MaxEvents \in Nat /\ MaxBytes \in Nat

Times == 0 .. MaxClock
None == -1

ASSUME ReportersAssumption == None \notin Reporters

VARIABLES
    clock,
    logbuffer, made,      \* an item some thread has made but not entered
    total,                \* bytes each session has received
    seconds, minutes, hours,
    lastSecond, lastMinute,  \* times of the points last passed on
    \* history
    setBack,              \* the clock was set back
    events,               \* items made and bytes reported so far
    reporter, turns,      \* who reported last, how often that changed
    counted               \* the sum of the differences

log == <<logbuffer, made>>
traffic == <<total, seconds, minutes, hours, lastSecond, lastMinute, reporter,
             turns, counted>>
vars == <<clock, setBack, log, traffic, events>>

(* Timestamps are far from 0, the time of no point.                        *)
Points == [time : Times, bytes : 0 .. MaxBytes]

TypeOK ==
    /\ clock \in Times /\ setBack \in BOOLEAN
    /\ logbuffer \in Seq(Times) /\ made \in Times \cup {None}
    /\ events \in 0 .. MaxEvents
    /\ total \in [Reporters -> 0 .. MaxBytes]
    /\ seconds \in Seq(Points) /\ minutes \in Seq(Points) /\ hours \in Seq(Points)
    /\ lastSecond \in Times /\ lastMinute \in Times
    /\ turns \in 0 .. MaxEvents
    /\ counted \in 0 .. MaxEvents * MaxBytes

Init ==
    /\ clock = Hour /\ setBack = FALSE
    /\ logbuffer = << >> /\ made = None
    /\ total = [r \in Reporters |-> 0]
    /\ seconds = << >> /\ minutes = << >> /\ hours = << >>
    /\ lastSecond = 0 /\ lastMinute = 0
    /\ reporter = None /\ turns = 0 /\ counted = 0 /\ events = 0

-----------------------------------------------------------------------------
(* The wall clock.                                                         *)
Tick ==
    /\ clock < MaxClock /\ clock' = clock + 1
    /\ UNCHANGED <<setBack, log, traffic, events>>

SetClockBack ==
    /\ ~setBack /\ setBack' = TRUE
    /\ clock' \in Hour .. clock - 1
    /\ UNCHANGED <<log, traffic, events>>

-----------------------------------------------------------------------------
(* The log.                                                                *)

(* Mutant: an older item goes in front of the first newer one seen from    *)
(* the end.                                                                *)
InsertLogItemByLogTime_FromEnd(time) ==
    IF \E i \in DOMAIN logbuffer : logbuffer[i] > time
    THEN InsertAt(logbuffer,
                  CHOOSE i \in DOMAIN logbuffer :
                      /\ logbuffer[i] > time
                      /\ \A j \in DOMAIN logbuffer : logbuffer[j] > time => j <= i,
                  time)
    ELSE Append(logbuffer, time)

(* insertLogItemByLogTime: at the end, or before the first later item.     *)
InsertLogItemByLogTime(time) ==
    IF logbuffer = << >> \/ Last(logbuffer) <= time
    THEN Append(logbuffer, time)
    ELSE InsertAt(logbuffer,
                  CHOOSE i \in DOMAIN logbuffer :
                      /\ logbuffer[i] > time
                      /\ \A j \in DOMAIN logbuffer : logbuffer[j] > time => i <= j,
                  time)

(* A buffer half as large again is cut down to its newest items.           *)
Trim(buffer) ==
    IF Len(buffer) > MaxLogEntries + MaxLogEntries \div 2
    THEN SubSeq(buffer, Len(buffer) - MaxLogEntries + 1, Len(buffer))
    ELSE buffer

(* A thread makes an item and loses the processor.                         *)
MakeLogItem ==
    /\ made = None /\ events < MaxEvents
    /\ made' = clock /\ events' = events + 1
    /\ UNCHANGED <<clock, setBack, logbuffer, traffic>>

NewLogItem(time) ==
    /\ logbuffer' = Trim(InsertLogItemByLogTime(time))
    /\ UNCHANGED <<clock, setBack, traffic>>

LateLogItem == made # None /\ NewLogItem(made) /\ made' = None /\ UNCHANGED events

PromptLogItem ==
    /\ events < MaxEvents /\ events' = events + 1
    /\ NewLogItem(clock)
    /\ UNCHANGED made

-----------------------------------------------------------------------------
(* The byte counts.                                                        *)

(* Mutant: the difference to the oldest point kept.                        *)
Diff_Oldest(bytes) ==
    LET last == IF seconds = << >> THEN 0 ELSE Head(seconds).bytes
    IN  IF bytes > last THEN bytes - last ELSE 0

(* getDiffIn of LastDiff: never negative.                                  *)
Diff(bytes) ==
    LET last == IF seconds = << >> THEN 0 ELSE Last(seconds).bytes
    IN  IF bytes > last THEN bytes - last ELSE 0

Recent(points, period) ==
    LET kept[i \in 0 .. Len(points)] ==
            IF i = 0 THEN << >>
            ELSE IF (clock - points[i].time) \div period < PeriodsToKeep
                 THEN Append(kept[i - 1], points[i])
                 ELSE kept[i - 1]
    IN  kept[Len(points)]

(* Mutant: a period has passed when it has the length of one.              *)
NewPeriod_ByLength(last, period) == clock - last >= period

(* The first point of a new period goes to the next level, and the old     *)
(* points of this level are forgotten (removeAndAverage).                  *)
NewPeriod(last, period) == clock \div period > last \div period

(* removeAndAverage of the minutes, which have a new point.                *)
PassToHours(points, new) ==
    IF NewPeriod(lastMinute, Hour)
    THEN /\ hours' = Append(hours, new)
         /\ lastMinute' = clock
         /\ minutes' = Recent(points, Hour)
    ELSE minutes' = points /\ UNCHANGED <<hours, lastMinute>>

AddDataPoint(new) ==
    IF NewPeriod(lastSecond, Minute)
    THEN /\ lastSecond' = clock
         /\ PassToHours(Append(minutes, new), new)
         /\ seconds' = Recent(Append(seconds, new), Minute)
    ELSE /\ seconds' = Append(seconds, new)
         /\ UNCHANGED <<minutes, hours, lastSecond, lastMinute>>

(* Mutant: the native counter is added to what was counted.                *)
UpdateByteCount_Sums(r, more) ==
    /\ events < MaxEvents /\ total[r] + more <= MaxBytes
    /\ total' = [total EXCEPT ![r] = @ + more]
    /\ counted' = counted + total'[r]
    /\ AddDataPoint([time |-> clock, bytes |-> counted'])
    /\ events' = events + 1
    /\ reporter' = r
    /\ turns' = IF reporter \in {None, r} THEN turns ELSE turns + 1
    /\ UNCHANGED <<clock, setBack, log>>

(* pollStatus of session r: updateByteCount with what it has received.     *)
UpdateByteCount(r, more) ==
    /\ events < MaxEvents /\ total[r] + more <= MaxBytes
    /\ total' = [total EXCEPT ![r] = @ + more]
    /\ counted' = counted + Diff(total'[r])
    /\ AddDataPoint([time |-> clock, bytes |-> total'[r]])
    /\ events' = events + 1
    /\ reporter' = r
    /\ turns' = IF reporter \in {None, r} THEN turns ELSE turns + 1
    /\ UNCHANGED <<clock, setBack, log>>

Next ==
    \/ Tick \/ SetClockBack
    \/ MakeLogItem \/ LateLogItem \/ PromptLogItem
    \/ \E r \in Reporters, more \in 0 .. MaxBytes : UpdateByteCount(r, more)

Spec == Init /\ [][Next]_vars

-----------------------------------------------------------------------------
(* The log is in the order of the times at which its items were made,      *)
(* though threads enter them out of order, and it stays within bounds.     *)
LogIsOrdered ==
    /\ \A i, j \in DOMAIN logbuffer : i < j => logbuffer[i] <= logbuffer[j]
    /\ Len(logbuffer) <= MaxLogEntries + MaxLogEntries \div 2

(* Points of the two finer levels are forgotten: none is older, by more    *)
(* than a period, than the time for which its level is kept.  A clock set  *)
(* back stops that until it has caught up.  Hours are kept for ever.       *)
OldPointsForgotten ==
    ~setBack =>
        /\ \A p \in ToSet(seconds) :
             (Last(seconds).time - p.time) \div Minute <= PeriodsToKeep
        /\ \A p \in ToSet(minutes) :
             (Last(minutes).time - p.time) \div Hour <= PeriodsToKeep

(* A level has one point of each period, however the clock is set.         *)
OnePointPerPeriod ==
    /\ \A i, j \in DOMAIN minutes :
         i < j => minutes[i].time \div Minute < minutes[j].time \div Minute
    /\ \A i, j \in DOMAIN hours :
         i < j => hours[i].time \div Hour < hours[j].time \div Hour

(* No traffic is left out of the next level: the minute of every point is  *)
(* among the minutes, the hour of every minute among the hours.            *)
LevelsAgree ==
    ~setBack =>
        /\ \A p \in ToSet(seconds) : \E q \in ToSet(minutes) :
             q.time \div Minute = p.time \div Minute
        /\ \A p \in ToSet(minutes) : \E q \in ToSet(hours) :
             q.time \div Hour = p.time \div Hour

(* The history thins out with age and loses nothing: old seconds and       *)
(* minutes are forgotten, and only when the next level has their period,   *)
(* once.                                                                   *)
HistoryThins == OldPointsForgotten /\ OnePointPerPeriod /\ LevelsAgree

(* The differences given to the listeners add up to what one session has   *)
(* received, and after a replacement, when the count starts again from     *)
(* zero, to no more than it and the one before it have.  (No session       *)
(* reports after its replacement has: pollStatus does not post itself.)    *)
DiffsAddUp ==
    /\ turns = 0 /\ reporter # None => counted = total[reporter]
    /\ turns = 1 => \E r \in Reporters \ {reporter} :
                      counted <= total[r] + total[reporter]
=============================================================================
