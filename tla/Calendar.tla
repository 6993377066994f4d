------------------------------ MODULE Calendar ------------------------------
(***************************************************************************)
(* When an Agendado trigger fires: cronPatternFor of                        *)
(* packages/engine/src/scheduler.ts, and the schedule composeSchedule of    *)
(* packages/web/src/store.ts shows for it.  A pattern is the record of its  *)
(* fields; a set stands for the days a field lists or leaves open.          *)
(***************************************************************************)
EXTENDS Integers

CONSTANTS
  Unset,       \* an optional field that is not there
  Malformed    \* the text of a time that is not two numbers and a colon

Weekdays  == 0 .. 6       \* Sunday is 0
MonthDays == 1 .. 31

(* Of two numbers of up to two digits, those that are a time of day. *)
TimesOfDay == [h : 0 .. 23, m : 0 .. 59]

(* TriggerConfig of an Agendado, with some of the times. *)
TriggerConfig(times) ==
  [freq : {Unset, "Diario", "Dias uteis", "Semanal", "Mensal"},
   time : times,
   weekday : {Unset} \cup MonthDays \cup Weekdays]

(* What a flow can be saved with. *)
zTriggerConfig(times) ==
  {c \in TriggerConfig(times) : c.weekday \in {Unset} \cup Weekdays}

----------------------------------------------------------------------------

parseHourMinute(time) ==
  IF time \in TimesOfDay THEN time ELSE [h |-> 9, m |-> 0]

(* The weekday doubles as the day of the month of a Mensal. *)
DayIn(config, days) == IF config.weekday \in days THEN config.weekday ELSE 1

freqOf(config) == IF config.freq = Unset THEN "Diario" ELSE config.freq

cronPatternFor(config) ==
  LET freq == freqOf(config)
  IN [at  |-> parseHourMinute(config.time),
      dom |-> IF freq = "Mensal" THEN {DayIn(config, MonthDays)} ELSE MonthDays,
      dow |-> CASE freq = "Dias uteis" -> 1 .. 5
                [] freq = "Semanal"    -> {DayIn(config, Weekdays)}
                [] OTHER               -> Weekdays]

(* The preview tells frequency and time, as they are written. *)
composeSchedule(config) ==
  [freq |-> freqOf(config),
   time |-> IF config.time = Unset THEN [h |-> 9, m |-> 0] ELSE config.time]

----------------------------------------------------------------------------

(* Of two dates, told by their days of the month and the week, a pattern    *)
(* fires on those whose both days it lists.                                *)
FiresOn(pattern, dom, dow) == dom \in pattern.dom /\ dow \in pattern.dow

(* The days on which an Agendado is documented to fire (scheduler.ts:170).  *)
Documented(config, dom, dow) ==
  CASE config.freq \in {"Diario", Unset} -> TRUE
    [] config.freq = "Dias uteis" -> dow \notin {0, 6}
    [] config.freq = "Semanal" ->
         dow = IF config.weekday \in Weekdays THEN config.weekday ELSE 1
    [] config.freq = "Mensal" ->
         dom = IF config.weekday \in MonthDays THEN config.weekday ELSE 1

(* Whatever the time and the day of a config say, its pattern is one that    *)
(* croner accepts and the month has a date for.                            *)
PatternIsValid(config) ==
  LET p == cronPatternFor(config)
  IN /\ p.at \in TimesOfDay
     /\ p.dom # {} /\ p.dow # {}
     /\ p.dom \subseteq MonthDays /\ p.dow \subseteq Weekdays

(* The preview names the time at which the trigger fires, if that is a time. *)
PreviewIsTrue(config) ==
  config.time = Unset \/ config.time \in TimesOfDay =>
    composeSchedule(config).time = cronPatternFor(config).at
=============================================================================
