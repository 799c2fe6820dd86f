---------------------------- MODULE AccessSchedule ----------------------------
(***************************************************************************)
(* Weekly access windows (rbac/schedule.ts), after the instant was         *)
(* converted to the wall clock of the schedule's time zone.                *)
(***************************************************************************)
EXTENDS Naturals

CONSTANT DayMinutes   \* minutes of a day, 1440 in the code

ASSUME ScheduleAssumption == DayMinutes \in Nat \ {0}

Days    == 0..6
Minutes == 0..(DayMinutes - 1)

\* parseSchedule(): at least one day, and an end that is not the start.
ScheduleWindow ==
  {win \in [days : SUBSET Days \ {{}}, start : Minutes, end : Minutes] : win.start # win.end}

\* Mutant: the early part of a window that crosses midnight is looked for on
\* the day the window is listed for.
inWindow_SameDay(win, day, minutes) ==
  /\ day \in win.days
  /\ IF win.start < win.end THEN minutes >= win.start /\ minutes < win.end
     ELSE minutes >= win.start \/ minutes < win.end

\* isWithinSchedule() for one window.
inWindow(win, day, minutes) ==
  IF win.start < win.end
  THEN day \in win.days /\ minutes >= win.start /\ minutes < win.end
  ELSE \/ day \in win.days /\ minutes >= win.start
       \/ (day + 6) % 7 \in win.days /\ minutes < win.end

\* The minutes of the week that a window is open: it opens at `start' on each
\* of its days and closes when the clock next shows `end'.
OpenMinutes(win) ==
  LET length == (DayMinutes + win.end - win.start) % DayMinutes IN
  {(d * DayMinutes + win.start + k) % (7 * DayMinutes) : d \in win.days, k \in 0..(length - 1)}

\* "22:00-02:00 on Friday covers Friday 22:00 to Saturday 02:00": the test
\* on weekday and minute agrees with the minutes of the week a window covers,
\* over midnight and over the end of the week.
WindowsMatchClock ==
  \A win \in ScheduleWindow, day \in Days, minutes \in Minutes :
    inWindow(win, day, minutes) <=> (day * DayMinutes + minutes) \in OpenMinutes(win)
=============================================================================
