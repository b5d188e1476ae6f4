------------------------------- MODULE Recovery -------------------------------
(***************************************************************************)
(* The recovery layer of src-tauri/src/reliability: the RecoveryGuard of    *)
(* each webview and overlay, the two handlers that recreate them, the CDP   *)
(* reconnect loop and the watchdog of a pane's child process.               *)
(*                                                                          *)
(* A handler holds its guard from the event to the outcome, so the events   *)
(* of one resource are handled one at a time; a surface may fail at any     *)
(* moment, between the two steps of its own recovery too, and the platform  *)
(* may report one failure twice.  The program wires none of these           *)
(* operations to its windows yet.                                           *)
(***************************************************************************)
EXTENDS Integers

CONSTANTS
  Kinds,       \* surfaces each pane has: "webview", "overlay"
  Panes,       \* panes with a browser and a child process
  MaxRetries,  \* RecoveryGuard.max_retries
  CdpAttempts, \* ReconnectPolicy.max_attempts
  Base, Cap, Factor,  \* BackoffSchedule
  Exits,       \* exit statuses a child may have: <<"code" or "signal", number>>
  MaxFailures  \* bound: failures of each surface

ASSUME RecoveryAssumption ==
  /\ MaxRetries \in Nat /\ CdpAttempts \in Nat /\ MaxFailures \in Nat
  /\ Base \in Nat /\ Cap \in Nat /\ Factor \in Nat \ {0}
  /\ Exits \subseteq {"code", "signal"} \X Nat

Resources == Kinds \X Panes

VARIABLES
  up,         \* the surface exists
  synced,     \* its bounds (overlay) or session (webview) have been restored
  pending,    \* failure events reported and not yet handled
  failures,   \* failures so far
  phase,      \* where the handler of each resource stands
  attempts,   \* RecoveryGuard.attempts
  recovering, \* RecoveryGuard.recovering
  delay,      \* the delay of the last Recover decision
  outcome,    \* what the last event came to
  cdp,        \* the CDP session and where run_reconnect stands
  done,       \* attempts_done of run_reconnect, the winning one included
  offered     \* panes whose user was offered a respawn

surfaceVars == <<up, synced, pending, failures, phase, attempts, recovering,
                 delay, outcome>>
cdpVars == <<cdp, done>>
vars == <<surfaceVars, cdpVars, offered>>

(* BackoffSchedule::delay_for: base * factor^n, never more than the cap.   *)
Least(a, b) == IF a <= b THEN a ELSE b
Delay[n \in Nat] == IF n = 0 THEN Least(Base, Cap)
                    ELSE Least(Factor * Delay[n - 1], Cap)

TypeOK ==
  /\ up \in [Resources -> BOOLEAN] /\ synced \in [Resources -> BOOLEAN]
  /\ recovering \in [Resources -> BOOLEAN]
  /\ pending \in [Resources -> 0..2 * MaxFailures]
  /\ failures \in [Resources -> 0..MaxFailures]
  /\ phase \in [Resources -> {"idle", "recreate", "restore"}]
  /\ attempts \in [Resources -> 0..MaxRetries]
  /\ delay \in [Resources -> 0..Cap]
  /\ outcome \in [Resources ->
       {"none", "recovered", "skipped", "gaveUp", "failed"}]
  /\ cdp \in {"connected", "lost", "planning", "connecting", "degraded"}
  /\ done \in 0..CdpAttempts
  /\ offered \subseteq Panes

Init ==
  /\ up = [r \in Resources |-> TRUE] /\ synced = [r \in Resources |-> TRUE]
  /\ pending = [r \in Resources |-> 0] /\ failures = [r \in Resources |-> 0]
  /\ phase = [r \in Resources |-> "idle"]
  /\ attempts = [r \in Resources |-> 0]
  /\ recovering = [r \in Resources |-> FALSE]
  /\ delay = [r \in Resources |-> 0]
  /\ outcome = [r \in Resources |-> "none"]
  /\ cdp = "connected" /\ done = 0
  /\ offered = {}

-----------------------------------------------------------------------------
(* Webviews and overlays.                                                  *)

(* The surface fails; the event is reported once or twice.                 *)
SurfaceFails(r) ==
  /\ up[r] /\ failures[r] < MaxFailures
  /\ up' = [up EXCEPT ![r] = FALSE]
  /\ synced' = [synced EXCEPT ![r] = FALSE]
  /\ failures' = [failures EXCEPT ![r] = @ + 1]
  /\ \E n \in {1, 2} : pending' = [pending EXCEPT ![r] = @ + n]
  /\ UNCHANGED <<phase, attempts, recovering, delay, outcome, cdpVars, offered>>

(* RecoveryGuard::on_failure                                               *)
Decision(r) ==
  IF recovering[r] THEN "duplicate"
  ELSE IF attempts[r] >= MaxRetries THEN "giveUp" ELSE "recover"

(* The handler takes an event and asks the guard.                          *)
TakeEvent(r) ==
  /\ pending[r] > 0 /\ phase[r] = "idle"
  /\ pending' = [pending EXCEPT ![r] = @ - 1]
  /\ \/ /\ Decision(r) = "duplicate"
        /\ outcome' = [outcome EXCEPT ![r] = "skipped"]
        /\ UNCHANGED <<phase, attempts, recovering, delay>>
     \/ /\ Decision(r) = "giveUp"
        /\ outcome' = [outcome EXCEPT ![r] = "gaveUp"]
        /\ UNCHANGED <<phase, attempts, recovering, delay>>
     \/ /\ Decision(r) = "recover"
        /\ phase' = [phase EXCEPT ![r] = "recreate"]
        /\ attempts' = [attempts EXCEPT ![r] = @ + 1]
        /\ recovering' = [recovering EXCEPT ![r] = TRUE]
        /\ delay' = [delay EXCEPT ![r] = Delay[attempts[r]]]
        /\ UNCHANGED outcome
  /\ UNCHANGED <<up, synced, failures, cdpVars, offered>>

(* mark_failed and mark_recovered                                          *)
MarkKeepsRecovering(r, result) ==
  /\ phase' = [phase EXCEPT ![r] = "idle"]
  /\ outcome' = [outcome EXCEPT ![r] = result]
  /\ recovering' = [recovering EXCEPT ![r] = result # "recovered"]
Mark(r, result) ==
  /\ phase' = [phase EXCEPT ![r] = "idle"]
  /\ outcome' = [outcome EXCEPT ![r] = result]
  /\ recovering' = [recovering EXCEPT ![r] = FALSE]

(* recreate, recreate_overlay: the delay is not waited for.  A recreate    *)
(* that fails may have taken the old surface down.                         *)
Recreate(r) ==
  /\ phase[r] = "recreate"
  /\ synced' = [synced EXCEPT ![r] = FALSE]
  /\ \/ /\ up' = [up EXCEPT ![r] = TRUE]
        /\ phase' = [phase EXCEPT ![r] = "restore"]
        /\ UNCHANGED <<outcome, recovering>>
     \/ /\ up' \in {up, [up EXCEPT ![r] = FALSE]}
        /\ Mark(r, "failed")
  /\ UNCHANGED <<pending, failures, attempts, delay, cdpVars, offered>>

(* restore, resync_bounds: it can only succeed on a surface that exists.   *)
RestoreUnchecked(r) ==
  /\ phase[r] = "restore"
  /\ \/ /\ synced' = [synced EXCEPT ![r] = up[r]]
        /\ Mark(r, "recovered")
     \/ UNCHANGED synced /\ Mark(r, "failed")
  /\ pending' = [pending EXCEPT ![r] = 0]
  /\ UNCHANGED <<up, failures, attempts, delay, cdpVars, offered>>
Restore(r) ==
  /\ phase[r] = "restore"
  /\ \/ up[r] /\ synced' = [synced EXCEPT ![r] = TRUE] /\ Mark(r, "recovered")
     \/ UNCHANGED synced /\ Mark(r, "failed")
  /\ UNCHANGED <<up, pending, failures, attempts, delay, cdpVars, offered>>

(* The caller reports a surface stable for the cooldown.                   *)
CooldownAnyTime(r) ==
  /\ up[r] /\ attempts[r] > 0
  /\ attempts' = [attempts EXCEPT ![r] = 0]
  /\ UNCHANGED <<up, synced, pending, failures, phase, recovering, delay,
                 outcome, cdpVars, offered>>
CooldownElapsed(r) ==
  /\ phase[r] = "idle" /\ up[r] /\ attempts[r] > 0
  /\ attempts' = [attempts EXCEPT ![r] = 0]
  /\ UNCHANGED <<up, synced, pending, failures, phase, recovering, delay,
                 outcome, cdpVars, offered>>

Handle(r) == TakeEvent(r) \/ Recreate(r) \/ Restore(r)

-----------------------------------------------------------------------------
(* The CDP session.                                                        *)

CdpLost ==
  /\ cdp = "connected" /\ cdp' = "lost"
  /\ UNCHANGED <<done, surfaceVars, offered>>

(* run_reconnect starts with no attempt done.                              *)
RunReconnect ==
  /\ cdp = "lost"
  /\ cdp' = "planning" /\ done' = 0
  /\ UNCHANGED <<surfaceVars, offered>>

(* plan_reconnect                                                          *)
CdpPlan ==
  /\ cdp = "planning"
  /\ cdp' = IF done >= CdpAttempts THEN "degraded" ELSE "connecting"
  /\ UNCHANGED <<done, surfaceVars, offered>>

(* Mutant of CdpConnect: a connect that fails is not counted.              *)
CdpConnectFree ==
  /\ cdp = "connecting"
  /\ \/ cdp' = "connected" /\ done' = done + 1
     \/ cdp' = "planning" /\ UNCHANGED done
  /\ UNCHANGED <<surfaceVars, offered>>

(* The injected connect; nothing says that it returns.                      *)
CdpConnect ==
  /\ cdp = "connecting"
  /\ cdp' \in {"connected", "planning"} /\ done' = done + 1
  /\ UNCHANGED <<surfaceVars, offered>>

-----------------------------------------------------------------------------
(* The child process of a pane.                                            *)

(* classify_exit: a signal, or a shell's 128 + signal.                     *)
Unexpected(exit) == exit[1] = "signal" \/ exit[2] \in 129..159

(* emit_pane_recovery                                                      *)
ChildExits(p, exit) ==
  /\ p \notin offered
  /\ offered' = IF Unexpected(exit) THEN offered \cup {p} ELSE offered
  /\ UNCHANGED <<surfaceVars, cdpVars>>

-----------------------------------------------------------------------------
Next ==
  \/ \E r \in Resources : SurfaceFails(r) \/ Handle(r) \/ CooldownElapsed(r)
  \/ CdpLost \/ RunReconnect \/ CdpPlan \/ CdpConnect
  \/ \E p \in Panes, exit \in Exits : ChildExits(p, exit)

Spec == Init /\ [][Next]_vars

-----------------------------------------------------------------------------
(* An event that came to "recovered" left a whole surface behind: it exists *)
(* and its bounds or session are restored, unless it failed again since,    *)
(* and then an event says so (webview_recovery.rs, overlay_recovery.rs).    *)
RecoveredIsWhole ==
  \A r \in Resources :
    outcome[r] = "recovered" /\ phase[r] = "idle" =>
      (up[r] /\ synced[r]) \/ pending[r] > 0

(* The state keeps its type, the budget its bound, and "recovered" is true. *)
RecoverySound == TypeOK /\ RecoveredIsWhole

(* No surface is gone in silence: one that is down has an event waiting, a  *)
(* handler at work, or an outcome that tells the user.                      *)
DownIsAccounted ==
  \A r \in Resources :
    ~up[r] => \/ pending[r] > 0 \/ phase[r] # "idle"
              \/ outcome[r] \in {"failed", "gaveUp"}

(* Every webview and every overlay keeps the promise of BoundedRetry: it    *)
(* comes back only by an attempt, once for each, and no more than the       *)
(* budget between two refills.                                              *)
Guarded(r) == INSTANCE BoundedRetry WITH
  Max <- MaxRetries, up <- up[r], tries <- attempts[r],
  trying <- (phase[r] = "recreate")
GuardKeepsBudget ==
  /\ \A r \in Resources : Guarded(r)!Init
  /\ [][\A r \in Resources : [Guarded(r)!Next]_(Guarded(r)!vars)]_vars

(* The CDP loop keeps the same promise, with a budget for each loss.        *)
Cdp == INSTANCE BoundedRetry WITH
  Max <- CdpAttempts, up <- (cdp = "connected"),
  tries <- done + (IF cdp = "connecting" THEN 1 ELSE 0),
  trying <- (cdp = "connecting")
CdpKeepsBudget == Cdp!Spec

(* Both kinds of recovery implement BoundedRetry.                           *)
BudgetsKept == GuardKeepsBudget /\ CdpKeepsBudget
=============================================================================
