\* Two triggers of one flow, re-armed once each, of every kind that fires by
\* itself, with up to one tick of an arm waiting beside the one in flight.
SPECIFICATION SchedulerSpec
CONSTANTS
  f1 = f1 t1 = t1 t2 = t2
  Unset = Unset Malformed = Malformed
  FlowIds = {f1}
  Triggers = {t1, t2}
  FlowOf <- OneFlow
  Kinds = {"Agendado", "Intervalo", "Webhook"}
  MaxArms = 1
  MaxWaits = 1
SYMMETRY Symmetry
INVARIANTS InertUntilPlayed DormantIsSilent AwakeStaysArmed
