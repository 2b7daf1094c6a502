----------------------------- MODULE ButtonTask -----------------------------
(***************************************************************************)
(* The button (main/task/button/button_task.c): a task polls the pin and   *)
(* tells a press, a hold (SmartConfig) and a long hold (wipe the           *)
(* configuration) apart by the ticks between the first poll that sees it   *)
(* down and the first that sees it up again.                               *)
(*                                                                         *)
(* Between two polls the task sleeps with vTaskDelayUntil, which counts    *)
(* from the wake-up before: polls that were missed while a handler was     *)
(* blocked are made up for at once.  Tick counts are unsigned and wrap.    *)
(* What the handlers do is in RelayControl and Provisioning.               *)
(***************************************************************************)
EXTENDS Integers

CONSTANTS
  WRAP,      \* a TickType_t counts modulo WRAP
  Interval,  \* delay_interval
  Smart,     \* hold_threshold_smart_config
  Config,    \* hold_threshold_config
  Slack,     \* ticks for which a poll that is due may be kept from running
  MaxDown,   \* bound: ticks the button is held down
  MaxLag     \* bound: ticks a handler leaves the polls behind

\* A hold and a blocked handler are shorter than 2^32 ticks, 497 days.
ASSUME ButtonTaskAssumption ==
  /\ WRAP \in Nat /\ Interval \in Nat \ {0} /\ Slack \in Nat
  /\ Smart \in Nat /\ Config \in Nat /\ MaxDown \in Nat /\ MaxLag \in Nat
  /\ Smart < Config
  /\ MaxDown + MaxLag + 2 * (Interval + Slack) < WRAP

Ticks == 0 .. WRAP - 1

VARIABLES
  tick,              \* xTickCount
  down,              \* the button is held down: its level is 0
  buttonState,
  press_start_time,
  last_wake_time,
  pc,                \* "poll", "sleep", or the handler that runs
  late,              \* ticks the poll that is due has been kept from running
  held,              \* history: how long the button is down, or was
  gap,               \* history: it went up and down again between two polls
  muffled,           \* history: it went down while the task was not polling for it
  pushed             \* history: it went down since the last event

vars == <<tick, down, buttonState, press_start_time, last_wake_time, pc, late,
          held, gap, muffled, pushed>>
button  == <<buttonState, press_start_time>>
history == <<held, gap, muffled, pushed>>

Handlers == {"press", "hold", "config"}

Init ==
  /\ tick = 0
  /\ down \in BOOLEAN
  /\ buttonState = "IDLE" /\ press_start_time = 0
  /\ last_wake_time = 0
  /\ pc = "poll" /\ late = 0
  /\ held = 0 /\ gap = FALSE /\ muffled = FALSE /\ pushed = down

\* Mutant: the interval is taken for ticks.
IntervalInTicks == 3 * Interval

delay_interval == Interval

\* vTaskDelayUntil: the task sleeps if its next wake-up is still to come.
vTaskDelayUntil ==
  LET wake == (last_wake_time + delay_interval) % WRAP IN
  /\ last_wake_time' = wake
  /\ pc' = IF (wake < last_wake_time) = (tick < last_wake_time)
             THEN IF wake > tick THEN "sleep" ELSE "poll"
             ELSE IF wake < last_wake_time THEN "sleep" ELSE "poll"

Elapsed == (tick - press_start_time) % WRAP

-----------------------------------------------------------------------------
(***************************************************************************)
(* Mutants: the bugs the properties are tested against.                    *)
(***************************************************************************)

\* The start of the press is computed without wrapping.
PollIdleNoWrap ==
  /\ pc = "poll" /\ buttonState = "IDLE"
  /\ IF down
       THEN /\ buttonState' = "PRESSED" /\ press_start_time' = tick + 1
            /\ gap' = FALSE
       ELSE UNCHANGED <<button, gap>>
  /\ vTaskDelayUntil
  /\ late' = 0
  /\ UNCHANGED <<tick, down, held, muffled, pushed>>

\* The end of the hold is computed instead of its length.
EventByEnd ==
  IF tick >= press_start_time + Config THEN "config"
  ELSE IF tick >= press_start_time + Smart THEN "hold" ELSE "press"

\* The state is left as it was after an event.
PollUpKeepsState ==
  /\ pc = "poll" /\ buttonState = "PRESSED" /\ ~down
  /\ pc' = IF Elapsed >= Config THEN "config"
           ELSE IF Elapsed >= Smart THEN "hold" ELSE "press"
  /\ pushed' = FALSE /\ held' = 0
  /\ late' = 0
  /\ UNCHANGED <<tick, down, button, last_wake_time, gap, muffled>>

\* There is no case for BUTTON_HOLD.
PollHoldIgnored ==
  /\ pc = "poll" /\ buttonState = "HOLD"
  /\ vTaskDelayUntil
  /\ late' = 0
  /\ UNCHANGED <<tick, down, button, history>>

-----------------------------------------------------------------------------
(* buttonTask: one poll, the switch over the state, and the delay.         *)

PollIdle ==
  /\ pc = "poll" /\ buttonState = "IDLE"
  /\ IF down
       THEN /\ buttonState' = "PRESSED" /\ press_start_time' = tick
            /\ gap' = FALSE
       ELSE UNCHANGED <<button, gap>>
  /\ vTaskDelayUntil
  /\ late' = 0
  /\ UNCHANGED <<tick, down, held, muffled, pushed>>

PollDown ==
  /\ pc = "poll" /\ buttonState = "PRESSED" /\ down
  /\ vTaskDelayUntil
  /\ late' = 0
  /\ UNCHANGED <<tick, down, button, history>>

\* The event a release stands for.
Event ==
  IF Elapsed >= Config THEN "config"
  ELSE IF Elapsed >= Smart THEN "hold" ELSE "press"

\* The state is set before the handler is called.
PollUp ==
  /\ pc = "poll" /\ buttonState = "PRESSED" /\ ~down
  /\ buttonState' = IF Event = "press" THEN "IDLE" ELSE "HOLD"
  /\ pc' = Event
  /\ pushed' = FALSE /\ held' = 0
  /\ late' = 0
  /\ UNCHANGED <<tick, down, press_start_time, last_wake_time, gap, muffled>>

PollHold ==
  /\ pc = "poll" /\ buttonState = "HOLD"
  /\ buttonState' = IF down THEN "HOLD" ELSE "IDLE"
  /\ vTaskDelayUntil
  /\ late' = 0
  /\ UNCHANGED <<tick, down, press_start_time, history>>

\* handle_button_press, handle_button_hold or handle_button_hold_config returns.
HandlerReturns ==
  /\ pc \in Handlers
  /\ vTaskDelayUntil
  /\ UNCHANGED <<tick, down, button, late, history>>

-----------------------------------------------------------------------------
(* The user and the kernel's tick.                                         *)

Push ==
  /\ ~down /\ down' = TRUE
  /\ held' = 0 /\ pushed' = TRUE
  /\ gap' = (buttonState = "PRESSED")
  /\ muffled' = (pc \in Handlers \/ buttonState = "HOLD")
  /\ UNCHANGED <<tick, button, last_wake_time, pc, late>>

Release ==
  /\ down /\ down' = FALSE
  /\ UNCHANGED <<tick, button, last_wake_time, pc, late, history>>

\* The polls that have been missed.
Behind == (tick - last_wake_time) % WRAP

Tick ==
  /\ pc = "poll" => late < Slack
  /\ pc \in Handlers => Behind < MaxLag
  /\ down => held < MaxDown
  /\ tick' = (tick + 1) % WRAP
  /\ pc' = IF pc = "sleep" /\ tick' = last_wake_time THEN "poll" ELSE pc
  /\ late' = IF pc = "poll" THEN late + 1 ELSE late
  /\ held' = IF down THEN held + 1 ELSE held
  /\ UNCHANGED <<down, button, last_wake_time, gap, muffled, pushed>>

Poll == PollIdle \/ PollDown \/ PollUp \/ PollHold

Next == Poll \/ HandlerReturns \/ Push \/ Release \/ Tick

Spec == Init /\ [][Next]_vars

(***************************************************************************)
(* Time passes, the task is scheduled, and its handlers return (they wait  *)
(* for the websocket client's lock, which RelayControl says when it is     *)
(* given back).  Nothing is assumed of the user.                           *)
(***************************************************************************)
FairSpec == Spec /\ WF_vars(Poll) /\ WF_vars(HandlerReturns) /\ WF_vars(Tick)

-----------------------------------------------------------------------------
\* Types of the button's state and of the clocks.
TypeOK ==
  /\ tick \in Ticks /\ last_wake_time \in Ticks /\ press_start_time \in Ticks
  /\ down \in BOOLEAN /\ buttonState \in {"IDLE", "PRESSED", "HOLD"}
  /\ pc \in {"poll", "sleep"} \cup Handlers
  /\ late \in 0 .. Slack /\ held \in 0 .. MaxDown
  /\ gap \in BOOLEAN /\ muffled \in BOOLEAN /\ pushed \in BOOLEAN

\* How far the polls can misjudge a press at either end.
Slop == Interval + Slack

\* The configuration is wiped, or SmartConfig started, only by a hold that was as
\* long as its threshold, give or take one poll: across the wrap of the tick count
\* and however long earlier handlers were blocked.  It is never taken for a shorter
\* one unless it began while the task was in a handler.  Two presses with a gap
\* that no poll has seen count as one.
HoldsAreMeasured ==
  [][PollUp /\ ~gap =>
       /\ pc' = "config" => held + Slop >= Config
       /\ pc' = "hold" => held + Slop >= Smart
       /\ ~muffled => /\ pc' = "press" => held < Smart + Slop
                      /\ pc' = "hold" => held < Config + Slop]_vars

\* Each event has a press of its own: neither the polls that are made up for at
\* once after a handler, nor the release of a hold, repeat one.
OneEventPerPress == [][pc' \in Handlers /\ pc # pc' => pushed]_vars

\* No press that outlasts a poll is missed, unless it began in a handler, or the
\* task had not yet seen the release of the hold before it.
PressesAreSeen ==
  [][Release /\ ~gap /\ ~muffled /\ held > Slop => buttonState = "PRESSED"]_vars

\* Once the button is left alone the task gets back to waiting for a press.
ListensAgain == <>[](~down) => <>[](buttonState = "IDLE")
=============================================================================
