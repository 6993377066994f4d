----------------------------- MODULE AuthProbe -----------------------------
(***************************************************************************)
(* The auth pre-flight (packages/engine/src/auth.ts): one tiny claude run  *)
(* whose output, exit, spawn error, timer and abort signal race to settle  *)
(* a verdict, which the guard's admission then reads.                      *)
(*                                                                         *)
(* A line of output is the kind foldLine makes of it; stderr and a chunk   *)
(* that ends in mid-line count the same way.                               *)
(***************************************************************************)
EXTENDS Integers, FiniteSets

CONSTANTS FakeMode   \* LOOM_RUNNER=fake: nothing is spawned

VARIABLES
  probe,    \* "none", "running" or "settled"
  child,    \* "none", "alive" or "gone"
  scan,     \* what foldLine has seen
  cached,   \* the published status: "none", "ok" or "failed"
  (* history *)
  first     \* the first verdict of the probe: "none", "ok" or "failed"

probeVars == <<probe, child, scan, cached, first>>

(* A sign of life (the init handshake or a result that is no error), a sign *)
(* of failure (a result or a line that is an error, text that reads like a *)
(* login failure, on stderr too), and anything else.                       *)
Lines == {"alive", "error", "noise"}

ProbeInit ==
  /\ probe = "none" /\ child = "none" /\ scan = {}
  /\ cached = "none" /\ first = "none"

FoldLine(line) == IF line = "noise" THEN scan ELSE scan \cup {line}

(* A failure seen wins, then the exit; a clean exit needs a sign of life.   *)
Verdict(seen, exit) ==
  IF /\ "error" \notin seen
     /\ exit = "zero"
     /\ "alive" \in seen
  THEN "ok" ELSE "failed"

(* finish, and publish right behind it: the listeners, the timer and the    *)
(* scan go.                                                                *)
Settle(verdict) ==
  /\ probe' = "settled" /\ scan' = {}
  /\ cached' = verdict
  /\ first' = IF first = "none" THEN verdict ELSE first

(* preflight: the fake runner needs no probe; a spawn that throws is a      *)
(* verdict already.                                                        *)
StartProbe ==
  /\ probe = "none"
  /\ \/ FakeMode /\ Settle("ok") /\ UNCHANGED child
     \/ ~ FakeMode /\ Settle("failed") /\ UNCHANGED child
     \/ /\ ~ FakeMode
        /\ probe' = "running" /\ child' = "alive" /\ scan' = {}
        /\ UNCHANGED <<cached, first>>

Output(line) ==
  /\ probe = "running" /\ child = "alive"
  /\ scan' = FoldLine(line)
  /\ UNCHANGED <<probe, child, cached, first>>

(* Fault: the exit of a child whose probe timed out still counts. *)
ExitLate(exit, tail) ==
  /\ child = "alive"
  /\ child' = "gone"
  /\ Settle(Verdict(FoldLine(tail), exit))

(* The child exits; a last unterminated line is folded first. *)
Exit(exit, tail) ==
  /\ child = "alive"
  /\ child' = "gone"
  /\ IF probe = "running"
     THEN Settle(Verdict(FoldLine(tail), exit))
     ELSE UNCHANGED <<probe, scan, cached, first>>

ChildError ==
  /\ probe = "running"
  /\ Settle("failed")
  /\ child' = "gone"

(* Fault: the timer kills the child and waits for its exit. *)
GiveUpOnExit ==
  /\ probe = "running" /\ child = "gone"
  /\ Settle("failed")
  /\ UNCHANGED child

(* PROBE_TIMEOUT_MS, or main's abort signal after as long: the child is     *)
(* killed, but its exit is not waited for.                                 *)
GiveUp ==
  /\ probe = "running"
  /\ Settle("failed")
  /\ UNCHANGED child

ProbeNext ==
  \/ \E line \in Lines : Output(line)
  \/ \E exit \in {"zero", "code", "signal"}, tail \in Lines : Exit(exit, tail)
  \/ ChildError
  \/ GiveUp

(* isReady *)
Ready == cached = "ok"

ProbeTypeOK ==
  /\ probe \in {"none", "running", "settled"}
  /\ child \in {"none", "alive", "gone"}
  /\ scan \subseteq Lines
  /\ cached \in {"none", "ok", "failed"} /\ first \in {"none", "ok", "failed"}
=============================================================================
