----------------------------- MODULE Terminals -----------------------------
(***************************************************************************)
(* Agent runs in tmux panes (packages/engine/src/terminals.ts): runInPane   *)
(* types one shell line, blocks on a tmux wait-for channel and reads the    *)
(* exit code back from the session's environment; an abort or the watchdog  *)
(* sends Ctrl-C and, after a grace period, signals the channel itself.      *)
(*                                                                         *)
(* Every tmux command is a process of its own that the engine awaits, so a  *)
(* call of runInPane is a sequence of actions.  The channels belong to the  *)
(* tmux server and are shared by all panes; the exit codes belong to the    *)
(* session of a pane.  The calls in one pane do not overlap: a node runs    *)
(* once per cycle and a cycle joins its runs (module Orchestrator).         *)
(*                                                                         *)
(* The registry keeps one entry per pane.  A call, a browser that opens the *)
(* terminal and one that types into it look the entry up, or make it, and   *)
(* bring its session up; a teardown kills the session and drops the entry   *)
(* under whoever holds it.                                                  *)
(***************************************************************************)
EXTENDS Integers, Sequences

CONSTANTS
  Panes, Runs,
  PaneOf,      \* [Runs -> Panes]
  Links,       \* [Runs -> SUBSET Panes]: the term:// contexts of its node
  Killable,    \* bound: the panes that may be torn down
  Abortable,   \* bound: the runs that may be aborted
  Viewed,      \* bound: the panes that browsers open
  MaxSeq       \* bound: calls in a pane since its entry was made

ASSUME TerminalsAssumption ==
  /\ PaneOf \in [Runs -> Panes] /\ Links \in [Runs -> SUBSET Panes]
  /\ Killable \subseteq Panes /\ Viewed \subseteq Panes
  /\ Abortable \subseteq Runs
  /\ MaxSeq \in Nat

Seqs     == 1 .. MaxSeq
Causes   == {"abort", "watchdog"}

(* RunStatus, and apart from the other errors the one of a pane in which     *)
(* nothing was launched (degraded).                                         *)
Statuses == {"ok", "error", "degraded", "killed", "timeout"}

VARIABLES
  session,     \* panes that have a tmux session
  shown,       \* the status of the pane's entry, "gone" without one
  runSeq,      \* entry.runSeq; 0 without an entry
  typed,       \* per pane: runs whose lines the shell has yet to finish
  rc,          \* per pane: the seqs whose LOOM_RC_<seq> is set to zero
  woken,       \* channels signalled while nobody waited
  call,        \* per run: where its runInPane is
  held,        \* runs whose entry is still the registry's
  seq,         \* ... the seq it took, which names its channel
  aborted,     \* runs whose signal is aborted
  heard,       \* runInPane's own aborted: its listener has run
  timedOut,    \* runs whose watchdog went off
  grace,       \* <<run, cause>>: an interrupt in its grace period
  status,      \* per run: what runAgent makes of runInPane's result
  (* history *)
  late,        \* runs aborted when their call had stopped listening
  earned,      \* runs whose own command ended with code zero
  stray        \* panes whose session a call without its entry has typed in

paneVars == <<session, shown, runSeq, typed, rc, stray>>
stopVars == <<aborted, heard, timedOut, late>>
callVars == <<call, held, seq>>
runVars  == <<status, earned>>
termVars == <<paneVars, woken, callVars, stopVars, grace, runVars>>

TerminalsInit ==
  /\ session = {} /\ shown = [p \in Panes |-> "gone"]
  /\ held = {} /\ stray = {}
  /\ runSeq = [p \in Panes |-> 0]
  /\ typed = [p \in Panes |-> <<>>]
  /\ rc = [p \in Panes |-> {}]
  /\ woken = {}
  /\ call = [r \in Runs |-> "new"]
  /\ seq = [r \in Runs |-> 0]
  /\ aborted = {} /\ heard = {} /\ timedOut = {} /\ grace = {} /\ late = {}
  /\ status = [r \in Runs |-> "none"]
  /\ earned = {}

----------------------------------------------------------------------------
(* The tmux server *)

Waiters(c) == {r \in Runs : call[r] = "waiting" /\ seq[r] = c}

(* wait-for -S: releases every waiter; without one the channel is left      *)
(* woken, or, if it was, forgotten.                                        *)
Signal(c) ==
  /\ call' = [r \in Runs |-> IF r \in Waiters(c) THEN "reading" ELSE call[r]]
  /\ woken' = IF Waiters(c) = {} /\ c \notin woken THEN woken \cup {c}
              ELSE woken \ {c}

(* Ctrl-C: the shell drops the line it is at, or its command ignores the    *)
(* interrupt; lines typed ahead may be flushed with it.                     *)
CtrlC(p) ==
  \E n \in 0 .. Len(typed[p]) : typed' = [typed EXCEPT ![p] = SubSeq(@, 1, n)]

----------------------------------------------------------------------------
(* Entries and sessions *)

(* getEntry, or makeEntry. *)
Entry(p) == IF shown[p] = "gone" THEN "idle" ELSE shown[p]

(* bringUp: has-session, new-session, has-session again.  The session is    *)
(* there in the end, whatever teardown has dropped the entry meanwhile,     *)
(* unless tmux fails.                                                      *)
BringUp(p) == session' = session \cup {p}

(* ensure, of a terminal that may have no entry yet. *)
Ensure(p) ==
  /\ shown' = [shown EXCEPT ![p] = Entry(p)]
  /\ BringUp(p)

(* terminal.open is one step here: what a teardown does to a bring-up, the  *)
(* calls show.                                                             *)
Open(p) ==
  /\ p \in Viewed \ session
  /\ Ensure(p)
  /\ UNCHANGED <<runSeq, typed, rc, stray, woken, callVars, stopVars, grace,
                 runVars>>

(* terminal.input in a pane that is not alive; what is typed is the user's  *)
(* own command, which no call waits for.                                   *)
Send(p) ==
  /\ p \in Viewed /\ (shown[p] = "gone" \/ p \notin session)
  /\ Ensure(p)
  /\ UNCHANGED <<runSeq, typed, rc, stray, woken, callVars, stopVars, grace,
                 runVars>>

----------------------------------------------------------------------------
(* runAgent and runInPane *)

(* setOwnership of some panes: an entry that is gone is made again. *)
Owned(panes, s) == [p \in Panes |-> IF p \in panes THEN s ELSE shown[p]]

(* The orchestrator's claimTerminals, then runAgent claims the run's pane;   *)
(* the two give up theirs in the same order, whoever else uses them.       *)
claimTerminals(r) == shown' = Owned(Links[r] \cup {PaneOf[r]}, "busy")

releaseTerminals(r) == shown' = Owned(Links[r] \cup {PaneOf[r]}, "idle")

(* runInPane returns, and the run's status is derived in the same turn. *)
Return(r, s) ==
  /\ call' = [call EXCEPT ![r] = "returned"]
  /\ status' = [status EXCEPT ![r] = s]
  /\ held' = held \ {r}

CanCall(r) ==
  /\ call[r] = "new"
  /\ \A q \in Runs : PaneOf[q] = PaneOf[r] => call[q] \in {"new", "done"}

(* runAgent: ensure, setOwnership, and runInPane looks the entry up; the     *)
(* number it is at goes with the call.  The bring-up of that first ensure   *)
(* is left to the one runInPane makes next.                                *)
Claim(r) ==
  LET p == PaneOf[r]
  IN /\ CanCall(r)
     /\ claimTerminals(r)
     /\ held' = held \cup {r}
     /\ seq' = [seq EXCEPT ![r] = runSeq[p]]
     /\ call' = [call EXCEPT ![r] = "ensuring"]
     /\ UNCHANGED <<session, runSeq, typed, rc, stray, woken, stopVars, grace,
                    runVars>>

(* runInPane's own ensure is through: the call takes the next number of the *)
(* entry it holds.                                                         *)
Start(r) ==
  LET p == PaneOf[r]
  IN /\ call[r] = "ensuring" /\ seq[r] < MaxSeq
     /\ BringUp(p)
     /\ seq' = [seq EXCEPT ![r] = @ + 1]
     /\ runSeq' = IF r \in held THEN [runSeq EXCEPT ![p] = seq[r] + 1]
                  ELSE runSeq
     /\ call' = [call EXCEPT ![r] = "typing"]
     /\ UNCHANGED <<shown, typed, rc, stray, woken, held, stopVars,
                    grace, runVars>>

(* ... or the entry is not alive: tmux failed, or a teardown ended after    *)
(* the session came up.                                                    *)
StartDegraded(r) ==
  /\ call[r] = "ensuring"
  /\ UNCHANGED session \/ (r \notin held /\ BringUp(PaneOf[r]))
  /\ Return(r, "degraded")
  /\ UNCHANGED <<shown, runSeq, typed, rc, stray, woken, seq, stopVars, grace,
                 earned>>

(* send-keys: the line goes behind whatever the shell has still to do. *)
Type(r) ==
  LET p == PaneOf[r]
  IN /\ call[r] = "typing"
     /\ \/ /\ p \in session
           /\ typed' = [typed EXCEPT ![p] = Append(@, r)]
           /\ stray' = IF r \in held THEN stray ELSE stray \cup {p}
           /\ call' = [call EXCEPT ![r] = "typed"]
           /\ UNCHANGED <<held, status>>
        \/ /\ p \notin session
           /\ Return(r, "degraded")
           /\ UNCHANGED <<typed, stray>>
     /\ UNCHANGED <<session, shown, runSeq, rc, woken, seq, stopVars, grace,
                    earned>>

(* The signal is looked at, the watchdog set, and the call blocks on its    *)
(* channel, unless that was signalled already.                             *)
Block(r) ==
  /\ call[r] = "typed"
  /\ IF r \in aborted
       THEN /\ CtrlC(PaneOf[r]) /\ grace' = grace \cup {<<r, "abort">>}
            /\ heard' = heard \cup {r}
       ELSE UNCHANGED <<typed, grace, heard>>
  /\ call' = [call EXCEPT ![r] = IF seq[r] \in woken THEN "reading" ELSE "waiting"]
  /\ woken' = woken \ {seq[r]}
  /\ UNCHANGED <<session, shown, runSeq, rc, stray, held, seq,
                 aborted, timedOut, late, runVars>>

(* Fault: Ctrl-C and no more. *)
InterruptOnly(r, cause) ==
  CtrlC(PaneOf[r]) /\ UNCHANGED grace

(* interrupt: Ctrl-C now, the channel after the grace period. *)
Interrupt(r, cause) ==
  /\ CtrlC(PaneOf[r])
  /\ grace' = grace \cup {<<r, cause>>}

(* The phases in which nothing hears an abort any more, although the run has *)
(* not settled and still holds its lease.                                  *)
Deaf == {"recovering", "tidying", "returned"}

(* The guard aborts the run's signal: before the call blocks, while it does  *)
(* or before the engine has seen the release, or when the listener is gone  *)
(* and the call, or runAgent after it, is at one of its last awaits.        *)
Abort(r) ==
  /\ r \in Abortable \ aborted
  /\ call[r] \notin {"new", "done"}
  /\ aborted' = aborted \cup {r}
  /\ IF call[r] \in {"waiting", "reading"}
       THEN Interrupt(r, "abort") /\ heard' = heard \cup {r}
       ELSE UNCHANGED <<typed, grace, heard>>
  /\ late' = IF call[r] \in Deaf THEN late \cup {r} ELSE late
  /\ UNCHANGED <<session, shown, runSeq, rc, stray, woken, callVars,
                 timedOut, runVars>>

(* The wall-clock watchdog goes off. *)
Watchdog(r) ==
  /\ call[r] \in {"waiting", "reading"} /\ r \notin timedOut
  /\ timedOut' = timedOut \cup {r}
  /\ Interrupt(r, "watchdog")
  /\ UNCHANGED <<session, shown, runSeq, rc, stray, woken, callVars,
                 aborted, heard, late, runVars>>

GraceOver(r, cause) ==
  /\ <<r, cause>> \in grace
  /\ grace' = grace \ {<<r, cause>>}
  /\ Signal(seq[r])
  /\ UNCHANGED <<paneVars, held, seq, stopVars, runVars>>

(* The engine sees the release: the watchdog is cleared and the listener     *)
(* removed.                                                                *)
Unblock(r) ==
  /\ call[r] = "reading"
  /\ call' = [call EXCEPT ![r] = "recovering"]
  /\ UNCHANGED <<paneVars, woken, held, seq, stopVars, grace, runVars>>

(* Fault: the abort is looked at last. *)
OutcomeCodeFirst(r) ==
  IF seq[r] \in rc[PaneOf[r]] THEN "ok"
  ELSE IF r \in heard THEN "killed"
  ELSE IF r \in timedOut THEN "timeout" ELSE "error"

(* What the flags and the exit code come to. *)
Outcome(r) ==
  IF r \in heard THEN "killed"
  ELSE IF r \in timedOut THEN "timeout"
  ELSE IF seq[r] \in rc[PaneOf[r]] THEN "ok" ELSE "error"

(* show-environment: the exit code is read.  Nothing the status is made of   *)
(* changes until runInPane returns, so it is decided here.                  *)
Read(r) ==
  /\ call[r] = "recovering"
  /\ call' = [call EXCEPT ![r] = "tidying"]
  /\ status' = [status EXCEPT ![r] = Outcome(r)]
  /\ UNCHANGED <<paneVars, woken, held, seq, stopVars, grace, earned>>

(* set-environment -u: the variable is dropped, and the call returns. *)
Tidy(r) ==
  /\ call[r] = "tidying"
  /\ Return(r, status[r])
  /\ rc' = [rc EXCEPT ![PaneOf[r]] = @ \ {seq[r]}]
  /\ UNCHANGED <<session, shown, runSeq, typed, stray, woken, seq, stopVars,
                 grace, earned>>

(* runAgent has captured the pane and collected the artifacts: it gives up   *)
(* the terminal and settles the run with the status derived before.         *)
Settle(r) ==
  /\ call[r] = "returned"
  /\ call' = [call EXCEPT ![r] = "done"]
  /\ releaseTerminals(r)
  /\ UNCHANGED <<session, runSeq, typed, rc, stray, woken, held, seq, stopVars,
                 grace, runVars>>

----------------------------------------------------------------------------
(* The pane *)

(* Fault: the exit code is set in the server's environment, which all       *)
(* sessions share.                                                         *)
CommandEndsGlobal(p, zero) ==
  LET r     == Head(typed[p])
      added == IF zero THEN {seq[r]} ELSE {}
  IN /\ typed[p] # <<>>
     /\ typed' = [typed EXCEPT ![p] = Tail(@)]
     /\ earned' = IF zero THEN earned \cup {r} ELSE earned
     /\ rc' = [q \in Panes |-> (rc[q] \ {seq[r]}) \cup added]
     /\ Signal(seq[r])
     /\ UNCHANGED <<session, shown, runSeq, stray, held, seq, stopVars,
                    grace, status>>

(* The shell ends the command it is at, sets the variable to its exit code  *)
(* and signals.                                                            *)
CommandEnds(p, zero) ==
  LET r     == Head(typed[p])
      added == IF zero THEN {seq[r]} ELSE {}
  IN /\ typed[p] # <<>>
     /\ typed' = [typed EXCEPT ![p] = Tail(@)]
     /\ earned' = IF zero THEN earned \cup {r} ELSE earned
     /\ rc' = [rc EXCEPT ![p] = (@ \ {seq[r]}) \cup added]
     /\ Signal(seq[r])
     /\ UNCHANGED <<session, shown, runSeq, stray, held, seq, stopVars,
                    grace, status>>

(* kill-session, with the shell and the environment it had; the entry goes  *)
(* and the numbering of the pane starts over.  A pane without an entry is   *)
(* not found.                                                              *)
dispose(p) ==
  /\ p \in Killable /\ shown[p] # "gone"
  /\ session' = session \ {p}
  /\ shown' = [shown EXCEPT ![p] = "gone"]
  /\ held' = held \ {r \in Runs : PaneOf[r] = p}
  /\ stray' = stray \ {p}
  /\ runSeq' = [runSeq EXCEPT ![p] = 0]
  /\ typed' = [typed EXCEPT ![p] = <<>>]
  /\ rc' = [rc EXCEPT ![p] = {}]
  /\ UNCHANGED <<woken, call, seq, stopVars, grace, runVars>>

----------------------------------------------------------------------------

(* What the engine does by itself: its awaits return, its timers go off. *)
EngineStep(r) ==
  \/ Start(r) \/ StartDegraded(r)
  \/ Type(r) \/ Block(r) \/ Watchdog(r)
  \/ Unblock(r) \/ Read(r) \/ Tidy(r) \/ Settle(r)
  \/ \E cause \in Causes : GraceOver(r, cause)

TerminalsNext ==
  \/ \E r \in Runs : Claim(r) \/ Abort(r) \/ EngineStep(r)
  \/ \E p \in Panes : Open(p) \/ Send(p) \/ dispose(p)
  \/ \E p \in Panes : \E zero \in BOOLEAN : CommandEnds(p, zero)

(* The command in the pane may never end and nobody need abort it.  The     *)
(* engine takes finitely many steps in a run, so fairness of their          *)
(* disjunction is fairness of each: every await of its own returns and      *)
(* every timer goes off.                                                    *)
TerminalsFairness == WF_termVars(\E r \in Runs : EngineStep(r))

TerminalsSpec == TerminalsInit /\ [][TerminalsNext]_termVars /\ TerminalsFairness

----------------------------------------------------------------------------
(* Properties *)

(* Every variable keeps its type. *)
TerminalsTypeOK ==
  /\ session \subseteq Panes /\ stray \subseteq Panes
  /\ shown \in [Panes -> {"gone", "idle", "busy"}]
  /\ runSeq \in [Panes -> 0 .. MaxSeq]
  /\ typed \in [Panes -> Seq(Runs)]
  /\ rc \in [Panes -> SUBSET Seqs]
  /\ woken \subseteq Seqs
  /\ call \in [Runs -> {"new", "ensuring", "typing", "typed", "waiting",
                       "reading", "recovering", "tidying", "returned", "done"}]
  /\ held \subseteq Runs
  /\ seq \in [Runs -> 0 .. MaxSeq]
  /\ aborted \subseteq Runs /\ heard \subseteq Runs
  /\ timedOut \subseteq Runs /\ late \subseteq Runs
  /\ grace \subseteq Runs \X Causes
  /\ status \in [Runs -> Statuses \cup {"none"}]
  /\ earned \subseteq Runs

(* A run comes out as ok only if its own command ended with exit code zero, *)
(* whoever's signal released it and whatever the pane ran before (the exit  *)
(* code recovery of runInPane).  Where a call types on after a teardown has *)
(* dropped its entry it fails: the next entry gives the number out again.   *)
OkIsEarned ==
  [][\A r \in Runs : status'[r] = "ok" /\ status[r] # "ok" =>
       r \in earned \/ PaneOf[r] \in stray]_termVars

(* A run that the guard aborted comes out as killed, whether the abort came  *)
(* before the call blocked or raced the command's own end and the watchdog. *)
(* Two exceptions: a run that was never launched, and an abort that comes   *)
(* once the call has removed its listener (terminals.ts:617), which is      *)
(* lost although the run is still to settle.                                *)
AbortedIsKilled ==
  \A r \in aborted :
    status[r] \in {"none", "killed", "degraded"} \/ r \in late

(* Every call of runInPane returns, although the command may hang, the      *)
(* pane be torn down under it, and other runs use its channel.  A run makes *)
(* one call, so in the end no call is in flight.                           *)
EveryCallReturns ==
  <>[](\A r \in Runs : call[r] \in {"new", "done"})

(* A run nobody has interrupted is released only once its own command has   *)
(* ended: the channel is unique per run, "so a foreign signal never settles *)
(* us early" (terminals.ts:551).                                           *)
SettledByOwn ==
  \A r \in Runs : call[r] = "reading" /\ r \notin aborted \cup timedOut =>
    \A i \in DOMAIN typed[PaneOf[r]] : typed[PaneOf[r]][i] # r
=============================================================================
