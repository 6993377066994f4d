---------------------------- MODULE MCScheduler ----------------------------
(* Instances of Scheduler and Calendar for TLC. *)
EXTENDS Scheduler, Calendar, TLC

CONSTANTS f1, t1, t2

OneFlow == [t \in Triggers |-> f1]

(* Times at the ends of a day and past them. *)
SomeTimes ==
  {Unset, Malformed} \cup [h : {0, 9, 23, 24}, m : {0, 59, 60}]

(* Every schedule has a valid pattern that fires on the documented days, at  *)
(* the time its preview shows.                                             *)
ASSUME CalendarIsRight ==
  \A config \in TriggerConfig(SomeTimes) :
    /\ PatternIsValid(config) /\ PreviewIsTrue(config)
    /\ \A dom \in MonthDays, dow \in Weekdays :
         FiresOn(cronPatternFor(config), dom, dow) <=> Documented(config, dom, dow)

(* But a flow cannot be saved with a Mensal past the sixth of the month,     *)
(* which domain.ts:16 and scheduler.ts:174 let fire on any day of it.       *)
ASSUME SavedMensalIsEarly ==
  \A config \in zTriggerConfig(SomeTimes) :
    config.freq = "Mensal" => cronPatternFor(config).dom \subseteq 1 .. 6

Symmetry == Permutations(Triggers)
=============================================================================
