------------------------------- MODULE NtpTime -------------------------------
(***************************************************************************)
(* The clock of the socket (main/ntp/ntp_time.c): system time, time zone,  *)
(* ESP-IDF's SNTP client, and obtain_time, by which app_main waits for the *)
(* first answer.  A behaviour is one boot: the system time outlives a      *)
(* reset of the chip, the time zone does not.                              *)
(*                                                                         *)
(* Time counts seconds modulo a week of Days days of Minutes minutes of    *)
(* Seconds seconds; that the year is 2016 or later is the flag valid.      *)
(***************************************************************************)
EXTENDS Naturals

CONSTANTS
  Days, Minutes, Seconds,
  Offset,       \* seconds between local time and UTC ("UTC-7")
  RETRY_COUNT,  \* retry_count of obtain_time
  WAIT          \* seconds it waits between two looks at the clock

Week == Days * Minutes * Seconds
Time == 0 .. Week - 1

ASSUME NtpTimeAssumption ==
  /\ Days \in Nat \ {0} /\ Minutes \in Nat \ {0} /\ Seconds \in Nat \ {0}
  /\ Offset \in Nat
  /\ RETRY_COUNT \in Nat \ {0} /\ WAIT \in Nat \ {0}
  /\ Week \in Nat \ {0}

VARIABLES
  utc,     \* system time
  valid,   \* its year is 2016 or later
  zone,    \* TZ has been set
  sntp,    \* the SNTP client runs
  obtain,  \* where app_main is in obtain_time
  retry,   \* its local variables: retry,
  left,    \* seconds left of vTaskDelay,
  read,    \* now,
  seen     \* and timeinfo.tm_year >= 116

ntpVars == <<utc, valid, zone, sntp, obtain, retry, left, read, seen>>
clock   == <<utc, valid>>
locals  == <<retry, left, read, seen>>

Stages == {"before", "check", "wait", "synced", "unsynced"}

\* localtime_r: UTC as long as no time zone is set.
local == (utc + IF zone THEN Offset ELSE 0) % Week

MinuteOf(t) == (t \div Seconds) % Minutes
DayOf(t)    == t \div (Seconds * Minutes)     \* 0 is Monday

\* localTime->tm_wday counts from Sunday.
tm_wday == (DayOf(local) + 1) % Days

\* Mutant: the day of the week is not converted.
TodayFromSunday(days) == tm_wday \in days

\* dayOfWeek is converted so that Monday is 0, as in the schedule's code.
is_today_selected(days) ==
  (IF tm_wday = 0 THEN Days - 1 ELSE tm_wday - 1) \in days

NtpInit ==
  /\ utc \in Time /\ valid \in BOOLEAN
  /\ zone = FALSE /\ sntp = FALSE
  /\ obtain = "before"
  /\ retry = 0 /\ left = 0 /\ read = 0 /\ seen = FALSE

\* One second: the system time and the delay of app_main.
Advance ==
  /\ obtain = "check" /\ seen => utc = read  \* it does not dawdle for 2 seconds
  /\ utc' = (utc + 1) % Week
  /\ left' = IF left = 0 THEN 0 ELSE left - 1
  /\ UNCHANGED <<valid, zone, sntp, obtain, retry, read, seen>>

-----------------------------------------------------------------------------
(* Mutants of obtain_time.                                                 *)

\* sntp_stop is forgotten.
SetTimeOnly ==
  /\ obtain = "check" /\ seen
  /\ utc' = read /\ read' = 0
  /\ obtain' = "synced"
  /\ UNCHANGED <<valid, zone, sntp, retry, left, seen>>

\* The loop does not count its rounds.
WaitForever ==
  /\ obtain = "check" /\ ~seen /\ retry + 1 < RETRY_COUNT
  /\ left' = WAIT
  /\ obtain' = "wait"
  /\ UNCHANGED <<clock, zone, sntp, retry, read, seen>>

-----------------------------------------------------------------------------
(* obtain_time                                                             *)

\* initialize_sntp, setenv("TZ", ...), tzset.
BeginObtain ==
  /\ obtain = "before"
  /\ sntp' = TRUE /\ zone' = TRUE
  /\ obtain' = "check"
  /\ UNCHANGED <<clock, locals>>

\* tm_year < 2016 - 1900 && ++retry < retry_count: another delay.
Wait ==
  /\ obtain = "check" /\ ~seen /\ retry + 1 < RETRY_COUNT
  /\ retry' = retry + 1
  /\ left' = WAIT
  /\ obtain' = "wait"
  /\ UNCHANGED <<clock, zone, sntp, read, seen>>

ReadTime ==
  /\ obtain = "wait" /\ left = 0
  /\ seen' = valid
  /\ read' = IF valid THEN utc ELSE 0  \* not used otherwise
  /\ obtain' = "check"
  /\ UNCHANGED <<clock, zone, sntp, retry, left>>

\* The error is logged; the SNTP client is left running.
GiveUp ==
  /\ obtain = "check" /\ ~seen /\ retry + 1 = RETRY_COUNT
  /\ retry' = retry + 1
  /\ obtain' = "unsynced"
  /\ UNCHANGED <<clock, zone, sntp, left, read, seen>>

\* settimeofday with the time that was read, and sntp_stop.
SetTime ==
  /\ obtain = "check" /\ seen
  /\ utc' = read /\ read' = 0
  /\ sntp' = FALSE
  /\ obtain' = "synced"
  /\ UNCHANGED <<valid, zone, retry, left, seen>>

ObtainStep == Wait \/ ReadTime \/ GiveUp \/ SetTime

\* The SNTP client sets the system time at once: the first answer to any time,
\* later ones by a second at most.
SntpAnswers ==
  /\ sntp
  /\ valid' = TRUE
  /\ utc' \in IF valid THEN {(utc + 1) % Week, (utc + Week - 1) % Week} ELSE Time
  /\ UNCHANGED <<zone, sntp, obtain, locals>>

-----------------------------------------------------------------------------
NtpTypeOK ==
  /\ utc \in Time /\ read \in Time
  /\ valid \in BOOLEAN /\ zone \in BOOLEAN /\ sntp \in BOOLEAN /\ seen \in BOOLEAN
  /\ obtain \in Stages
  /\ retry \in 0 .. RETRY_COUNT /\ left \in 0 .. WAIT

\* Once obtain_time has found the time, the clock that the schedules compare with
\* is right, local, and only ever ticks: no answer still under way moves it.
ClockStays ==
  [][obtain = "synced" =>
       /\ valid /\ zone
       /\ utc' \in {utc, (utc + 1) % Week} /\ zone' = zone]_ntpVars
=============================================================================
