---------------------------- MODULE ServicesProofs ----------------------------
(***************************************************************************)
(* What the services guarantee for any constants: the recovery layer, the  *)
(* session a restart begins with, the logs, the sidebar, the proxy, the    *)
(* notifications in a stream and what is redacted from a record.  Each     *)
(* part proves an inductive invariant of one module and, from it, what     *)
(* MCServices checks.                                                      *)
(***************************************************************************)
EXTENDS Recovery, SessionRestore, LogRetention, Sidebar, SocksBroker, OscScanner,
        Redaction, FiniteSetTheorems, SequenceTheorems, WellFoundedInduction, TLAPS

-----------------------------------------------------------------------------
(* The recovery layer, for any surfaces, budgets, exit statuses and number   *)
(* of failures: Recovery.                                                    *)

\* The types of a surface and of the guard over it, and that a guard says
\* "recovering" exactly while its handler is at work: mark_recovered and
\* mark_failed both end it.
GuardInv ==
  /\ up \in [Resources -> BOOLEAN] /\ synced \in [Resources -> BOOLEAN]
  /\ recovering \in [Resources -> BOOLEAN]
  /\ pending \in [Resources -> Nat]
  /\ phase \in [Resources -> {"idle", "recreate", "restore"}]
  /\ attempts \in [Resources -> Nat]
  /\ outcome \in [Resources ->
       {"none", "recovered", "skipped", "gaveUp", "failed"}]
  /\ \A r \in Resources : recovering[r] <=> phase[r] # "idle"

CdpInv ==
  /\ cdp \in {"connected", "lost", "planning", "connecting", "degraded"}
  /\ done \in Nat

\* A step of the loop or of a pane's watchdog leaves the surfaces alone.
LEMMA SurfaceSteps ==
  ASSUME Next
  PROVE  \/ \E r \in Resources :
              SurfaceFails(r) \/ TakeEvent(r) \/ Recreate(r) \/ Restore(r)
                \/ CooldownElapsed(r)
         \/ UNCHANGED surfaceVars
  BY DEF Next, Handle, CdpLost, RunReconnect, CdpPlan, CdpConnect, ChildExits,
         cdpVars

LEMMA GuardInvInit ==
  ASSUME Init
  PROVE  GuardInv /\ CdpInv
  BY DEF Init, GuardInv, CdpInv

LEMMA GuardInvStep ==
  ASSUME GuardInv, [Next]_vars
  PROVE  GuardInv'
<1>1. CASE UNCHANGED surfaceVars
  BY <1>1 DEF GuardInv, surfaceVars
<1>2. ASSUME NEW r \in Resources, SurfaceFails(r)
      PROVE  GuardInv'
  BY <1>2 DEF SurfaceFails, GuardInv
<1>3. ASSUME NEW r \in Resources, TakeEvent(r)
      PROVE  GuardInv'
  <2>1. pending' \in [Resources -> Nat]
    BY <1>3 DEF TakeEvent, GuardInv
  <2>2. CASE Decision(r) = "recover"
    <3>1. /\ phase' = [phase EXCEPT ![r] = "recreate"]
          /\ recovering' = [recovering EXCEPT ![r] = TRUE]
          /\ attempts' = [attempts EXCEPT ![r] = attempts[r] + 1]
          /\ UNCHANGED <<up, synced, outcome>>
      BY <1>3, <2>2 DEF TakeEvent
    <3>2. /\ phase' \in [Resources -> {"idle", "recreate", "restore"}]
          /\ recovering' \in [Resources -> BOOLEAN]
          /\ attempts' \in [Resources -> Nat]
      BY <3>1 DEF GuardInv
    <3> QED
      BY <2>1, <3>1, <3>2 DEF GuardInv
  <2>3. CASE Decision(r) # "recover"
    BY <1>3, <2>1, <2>3 DEF TakeEvent, GuardInv
  <2> QED
    BY <2>2, <2>3
<1>4. ASSUME NEW r \in Resources, Recreate(r)
      PROVE  GuardInv'
  BY <1>4, ZenonT(40) DEF Recreate, Mark, GuardInv
<1>5. ASSUME NEW r \in Resources, Restore(r)
      PROVE  GuardInv'
  BY <1>5 DEF Restore, Mark, GuardInv
<1>6. ASSUME NEW r \in Resources, CooldownElapsed(r)
      PROVE  GuardInv'
  BY <1>6 DEF CooldownElapsed, GuardInv
<1> QED
  BY <1>1, <1>2, <1>3, <1>4, <1>5, <1>6, SurfaceSteps DEF vars, surfaceVars

LEMMA CdpInvStep ==
  ASSUME CdpInv, [Next]_vars
  PROVE  CdpInv'
<1>1. CASE UNCHANGED cdpVars
  BY <1>1 DEF CdpInv, cdpVars
<1>2. CASE CdpLost \/ RunReconnect \/ CdpPlan \/ CdpConnect
  BY <1>2 DEF CdpInv, CdpLost, RunReconnect, CdpPlan, CdpConnect
<1> QED
  BY <1>1, <1>2 DEF Next, vars, Handle, SurfaceFails, TakeEvent, Recreate,
     Restore, CooldownElapsed, ChildExits, cdpVars

-----------------------------------------------------------------------------
(* Nothing fails in silence.                                               *)

LEMMA AccountsStep ==
  ASSUME GuardInv, DownIsAccounted, RecoveredIsWhole, [Next]_vars
  PROVE  DownIsAccounted' /\ RecoveredIsWhole'
<1>1. CASE UNCHANGED surfaceVars
  BY <1>1 DEF DownIsAccounted, RecoveredIsWhole, surfaceVars
<1>2. ASSUME NEW r \in Resources, SurfaceFails(r)
      PROVE  DownIsAccounted' /\ RecoveredIsWhole'
  <2>1. pending'[r] > 0
    BY <1>2 DEF SurfaceFails, GuardInv
  <2>2. \A s \in Resources \ {r} : up'[s] = up[s] /\ synced'[s] = synced[s]
                                     /\ pending'[s] = pending[s]
    BY <1>2 DEF SurfaceFails, GuardInv
  <2>3. UNCHANGED <<phase, outcome>>
    BY <1>2 DEF SurfaceFails
  <2> QED
    BY <2>1, <2>2, <2>3 DEF DownIsAccounted, RecoveredIsWhole
<1>3. ASSUME NEW r \in Resources, TakeEvent(r)
      PROVE  DownIsAccounted' /\ RecoveredIsWhole'
  <2>1. \/ outcome'[r] = "gaveUp" /\ phase'[r] = "idle"
        \/ phase'[r] = "recreate"
    BY <1>3 DEF TakeEvent, Decision, GuardInv
  <2>2. \A s \in Resources \ {r} : pending'[s] = pending[s]
          /\ phase'[s] = phase[s] /\ outcome'[s] = outcome[s]
    BY <1>3 DEF TakeEvent, GuardInv
  <2>3. UNCHANGED <<up, synced>>
    BY <1>3 DEF TakeEvent
  <2> QED
    BY <2>1, <2>2, <2>3 DEF DownIsAccounted, RecoveredIsWhole
<1>4. ASSUME NEW r \in Resources, Recreate(r)
      PROVE  DownIsAccounted' /\ RecoveredIsWhole'
  <2>1. \/ phase'[r] = "restore"
        \/ outcome'[r] = "failed" /\ phase'[r] = "idle"
    BY <1>4 DEF Recreate, Mark, GuardInv
  <2>2. \A s \in Resources \ {r} : up'[s] = up[s] /\ synced'[s] = synced[s]
          /\ phase'[s] = phase[s] /\ outcome'[s] = outcome[s]
    BY <1>4 DEF Recreate, Mark, GuardInv
  <2>3. UNCHANGED pending
    BY <1>4 DEF Recreate
  <2> QED
    BY <2>1, <2>2, <2>3 DEF DownIsAccounted, RecoveredIsWhole
<1>5. ASSUME NEW r \in Resources, Restore(r)
      PROVE  DownIsAccounted' /\ RecoveredIsWhole'
  <2>1. phase'[r] = "idle" /\ up' = up
        /\ (outcome'[r] = "failed" \/ (outcome'[r] = "recovered" /\ up[r] /\ synced'[r]))
    BY <1>5 DEF Restore, Mark, GuardInv
  <2>2. \A s \in Resources \ {r} : synced'[s] = synced[s]
          /\ phase'[s] = phase[s] /\ outcome'[s] = outcome[s]
    BY <1>5 DEF Restore, Mark, GuardInv
  <2>3. UNCHANGED pending
    BY <1>5 DEF Restore
  <2> QED
    BY <2>1, <2>2, <2>3 DEF DownIsAccounted, RecoveredIsWhole
<1>6. ASSUME NEW r \in Resources, CooldownElapsed(r)
      PROVE  DownIsAccounted' /\ RecoveredIsWhole'
  BY <1>6 DEF CooldownElapsed, DownIsAccounted, RecoveredIsWhole
<1> QED
  BY <1>1, <1>2, <1>3, <1>4, <1>5, <1>6, SurfaceSteps DEF vars, surfaceVars

\* A surface that is down has an event waiting, a handler at work or an outcome
\* that tells the user, and "recovered" is said only of a whole surface, through
\* duplicate events, failures during a recovery and budgets that run out
\* (webview_recovery.rs handle_process_failed, overlay_recovery.rs
\* handle_overlay_crash).
THEOREM FailuresAccounted == Spec => [](DownIsAccounted /\ RecoveredIsWhole)
<1> DEFINE Inv == GuardInv /\ DownIsAccounted /\ RecoveredIsWhole
<1>1. Init => Inv
  BY GuardInvInit DEF Init, DownIsAccounted, RecoveredIsWhole
<1>2. Inv /\ [Next]_vars => Inv'
  BY GuardInvStep, AccountsStep
<1> QED
  BY <1>1, <1>2, PTL DEF Spec

-----------------------------------------------------------------------------
(* Both kinds of recovery implement BoundedRetry.                          *)

LEMMA GuardInitRefines ==
  ASSUME Init, NEW r \in Resources
  PROVE  Guarded(r)!Init
  BY DEF Init, Guarded!Init

\* Each step is a step of BoundedRetry for its surface, and none for the others.
LEMMA GuardStepRefines ==
  ASSUME GuardInv, [Next]_vars, NEW s \in Resources
  PROVE  [Guarded(s)!Next]_(Guarded(s)!vars)
<1>1. CASE UNCHANGED <<up[s], attempts[s], phase[s] = "recreate">>
  BY <1>1 DEF Guarded!vars
<1>2. ASSUME NEW r \in Resources, SurfaceFails(r)
      PROVE  [Guarded(s)!Next]_(Guarded(s)!vars)
  <2>1. CASE s = r
    <3>1. Guarded(s)!Fail
      BY <1>2, <2>1 DEF SurfaceFails, GuardInv, Guarded!Fail
    <3> QED
      BY <3>1 DEF Guarded!Next
  <2> QED
    BY <1>1, <1>2, <2>1 DEF SurfaceFails, GuardInv
<1>3. ASSUME NEW r \in Resources, TakeEvent(r)
      PROVE  [Guarded(s)!Next]_(Guarded(s)!vars)
  <2>1. CASE s = r /\ Decision(r) = "recover"
    <3>1. Guarded(s)!Try
      BY <1>3, <2>1, RecoveryAssumption DEF TakeEvent, Decision, GuardInv, Guarded!Try
    <3> QED
      BY <3>1 DEF Guarded!Next
  <2>2. CASE s # r \/ Decision(r) # "recover"
    BY <1>1, <1>3, <2>2 DEF TakeEvent, GuardInv
  <2> QED
    BY <2>1, <2>2
<1>4. ASSUME NEW r \in Resources, Recreate(r)
      PROVE  [Guarded(s)!Next]_(Guarded(s)!vars)
  <2>1. CASE s = r
    <3>1. Guarded(s)!Succeed \/ Guarded(s)!Miss
      BY <1>4, <2>1 DEF Recreate, Mark, GuardInv, Guarded!Succeed, Guarded!Miss
    <3> QED
      BY <3>1 DEF Guarded!Next
  <2> QED
    BY <1>1, <1>4, <2>1 DEF Recreate, Mark, GuardInv
<1>5. ASSUME NEW r \in Resources, Restore(r)
      PROVE  [Guarded(s)!Next]_(Guarded(s)!vars)
  BY <1>1, <1>5 DEF Restore, Mark, GuardInv
<1>6. ASSUME NEW r \in Resources, CooldownElapsed(r)
      PROVE  [Guarded(s)!Next]_(Guarded(s)!vars)
  <2>1. CASE s = r
    <3>1. Guarded(s)!Refill
      BY <1>6, <2>1 DEF CooldownElapsed, GuardInv, Guarded!Refill
    <3> QED
      BY <3>1 DEF Guarded!Next
  <2> QED
    BY <1>1, <1>6, <2>1 DEF CooldownElapsed, GuardInv
<1> QED
  BY <1>1, <1>2, <1>3, <1>4, <1>5, <1>6, SurfaceSteps DEF vars, surfaceVars

LEMMA CdpStepRefines ==
  ASSUME CdpInv, [Next]_vars
  PROVE  [Cdp!Next]_(Cdp!vars)
<1>1. CASE UNCHANGED cdpVars
  BY <1>1 DEF cdpVars, Cdp!vars
<1>2. CASE CdpLost
  <2>1. Cdp!Fail
    BY <1>2 DEF CdpLost, CdpInv, Cdp!Fail
  <2> QED
    BY <2>1 DEF Cdp!Next
<1>3. CASE RunReconnect
  <2>1. Cdp!Refill
    BY <1>3 DEF RunReconnect, CdpInv, Cdp!Refill
  <2> QED
    BY <2>1 DEF Cdp!Next
<1>4. CASE CdpPlan /\ done >= CdpAttempts
  BY <1>4 DEF CdpPlan, CdpInv, Cdp!vars
<1>5. CASE CdpPlan /\ ~(done >= CdpAttempts)
  <2>1. Cdp!Try
    BY <1>5, RecoveryAssumption DEF CdpPlan, CdpInv, Cdp!Try
  <2> QED
    BY <2>1 DEF Cdp!Next
<1>6. CASE CdpConnect
  <2>1. Cdp!Succeed \/ Cdp!Miss
    <3>1. (done + (IF cdp = "connecting" THEN 1 ELSE 0))'
            = done + (IF cdp = "connecting" THEN 1 ELSE 0)
      BY <1>6 DEF CdpConnect, CdpInv
    <3>2. CASE cdp' = "connected"
      BY <1>6, <3>1, <3>2 DEF CdpConnect, Cdp!Succeed
    <3>3. CASE cdp' = "planning"
      BY <1>6, <3>1, <3>3 DEF CdpConnect, Cdp!Miss
    <3> QED
      BY <1>6, <3>2, <3>3 DEF CdpConnect
  <2> QED
    BY <2>1 DEF Cdp!Next
<1> QED
  BY <1>1, <1>2, <1>3, <1>4, <1>5, <1>6 DEF Next, vars, Handle, SurfaceFails,
     TakeEvent, Recreate, Restore, CooldownElapsed, ChildExits, cdpVars

\* A surface that failed, and a lost CDP session, come back only by an attempt,
\* once for each, and no more attempts are made than the budget between two
\* refills: what the guard and the reconnect loop promise, for any budgets
\* (recovery.rs: on_failure, mark_recovered, cooldown_elapsed; cdp_reconnect.rs run_reconnect).
THEOREM BudgetsAlwaysKept == Spec => BudgetsKept
<1> DEFINE Inv == GuardInv /\ CdpInv
<1>1. Init => Inv /\ (\A r \in Resources : Guarded(r)!Init) /\ Cdp!Init
  <2>1. ASSUME Init PROVE Cdp!Init
    BY <2>1 DEF Init, Cdp!Init
  <2> QED
    BY <2>1, GuardInvInit, GuardInitRefines
<1>2. Inv /\ [Next]_vars => Inv'
  BY GuardInvStep, CdpInvStep
<1>3. Inv /\ [Next]_vars
        => [\A r \in Resources : [Guarded(r)!Next]_(Guarded(r)!vars)]_vars
  BY GuardStepRefines
<1>4. Inv /\ [Next]_vars => [Cdp!Next]_(Cdp!vars)
  BY CdpStepRefines
<1> QED
  BY <1>1, <1>2, <1>3, <1>4, PTL
  DEF Spec, BudgetsKept, GuardKeepsBudget, CdpKeepsBudget, Cdp!Spec

-----------------------------------------------------------------------------
(* The backoff schedule.  Delay is defined by recursion: that the definition  *)
(* has a solution, and what holds of every element of it, is shown by the     *)
(* least counterexample.                                                      *)

\* Every set of numbers that is not empty has a least one.
LEMMA LeastNat ==
  ASSUME NEW T \in SUBSET Nat, T # {}
  PROVE \E x \in T : \A y \in T : x <= y
<1> DEFINE R == OpToRel(<, Nat)
<1>1. \A x, y \in Nat : y < x => <<y, x>> \in R
  BY DEF OpToRel
<1>2. IsWellFoundedOn(R, Nat)
  BY NatLessThanWellFounded
<1> HIDE DEF R
<1>3. \E x \in T : \A y \in T : ~(<<y, x>> \in R)
  BY <1>2, WFMin
<1>4. PICK x \in T : \A y \in T : ~(<<y, x>> \in R)
  BY <1>3
<1>5. ASSUME NEW y \in T PROVE x <= y
  <2>1. x \in Nat /\ y \in Nat /\ ~(y < x)
    BY <1>1, <1>4
  <2> QED
    BY <2>1
<1> QED
  BY <1>5

\* f is the schedule up to the wait before attempt n.
Schedule(f, n) ==
  /\ f \in [0..n -> 0..Cap]
  /\ f[0] = Least(Base, Cap)
  /\ \A i \in 1..n : f[i] = Least(Factor * f[i - 1], Cap)

\* What the cap leaves is never more than the cap.
LEMMA LeastType ==
  ASSUME NEW a \in Nat, NEW b \in Nat
  PROVE  Least(a, b) \in 0..b
  BY DEF Least

LEMMA GrownType ==
  ASSUME NEW a \in Nat
  PROVE  Least(Factor * a, Cap) \in 0..Cap
<1>1. Factor * a \in Nat
  BY RecoveryAssumption
<1> HIDE DEF Least
<1> QED
  BY <1>1, LeastType, RecoveryAssumption

\* However far, there is a schedule: the least n without one would extend the
\* schedule up to n - 1.
LEMMA ScheduleExists ==
  \A n \in Nat : \E f : Schedule(f, n)
<1> DEFINE T == {n \in Nat : ~\E f : Schedule(f, n)}
<1> SUFFICES ASSUME T # {} PROVE FALSE
  OBVIOUS
<1>1. PICK n \in T : \A m \in T : n <= m
  <2>1. T \in SUBSET Nat
    OBVIOUS
  <2> QED
    BY <2>1, LeastNat
<1>2. CASE n = 0
  <2>1. Schedule([i \in 0..0 |-> Least(Base, Cap)], 0)
    <3>1. Least(Base, Cap) \in 0..Cap
      BY LeastType, RecoveryAssumption
    <3> QED
      BY <3>1 DEF Schedule
  <2> QED
    BY <1>2, <2>1
<1>3. CASE n # 0
  <2>1. n - 1 \in Nat /\ n - 1 \notin T /\ n \in Nat
    BY <1>1, <1>3
  <2>2. PICK f : Schedule(f, n - 1)
    BY <2>1
  <2> DEFINE g == [i \in 0..n |-> IF i = n THEN Least(Factor * f[n - 1], Cap) ELSE f[i]]
  <2>3. f[n - 1] \in 0..Cap
    BY <2>1, <2>2 DEF Schedule
  <2>4. Least(Factor * f[n - 1], Cap) \in 0..Cap
    <3>1. f[n - 1] \in Nat
      BY <2>3, RecoveryAssumption
    <3> HIDE DEF Least
    <3> QED
      BY <3>1, GrownType
  <2>5. g \in [0..n -> 0..Cap]
    BY <2>1, <2>2, <2>4 DEF Schedule
  <2>6. g[0] = Least(Base, Cap)
    BY <1>3, <2>1, <2>2 DEF Schedule
  <2>7. ASSUME NEW i \in 1..n PROVE g[i] = Least(Factor * g[i - 1], Cap)
    <3>1. i - 1 \in 0..n /\ i - 1 # n /\ g[i - 1] = f[i - 1]
      BY <2>1
    <3>2. CASE i = n
      BY <2>1, <3>1, <3>2
    <3>3. CASE i # n
      <4>1. i \in 1..(n - 1) /\ g[i] = f[i]
        BY <2>1, <3>3
      <4> QED
        BY <2>2, <3>1, <4>1 DEF Schedule
    <3> QED
      BY <3>2, <3>3
  <2>8. Schedule(g, n)
    <3> HIDE DEF g
    <3> QED
      BY <2>5, <2>6, <2>7 DEF Schedule
  <2> QED
    BY <2>8
<1> QED
  BY <1>2, <1>3

\* Two schedules agree as far as both go.
LEMMA ScheduleUnique ==
  ASSUME NEW m \in Nat, NEW n \in Nat, NEW f, NEW g, Schedule(f, m), Schedule(g, n),
         NEW k \in 0..m, k \in 0..n
  PROVE  f[k] = g[k]
<1> DEFINE T == {i \in 0..k : f[i] # g[i]}
<1> SUFFICES ASSUME T # {} PROVE FALSE
  OBVIOUS
<1>1. PICK i \in T : \A j \in T : i <= j
  <2>1. T \in SUBSET Nat
    OBVIOUS
  <2> QED
    BY <2>1, LeastNat
<1>2. CASE i = 0
  BY <1>1, <1>2 DEF Schedule
<1>3. CASE i # 0
  <2>1. i \in 1..m /\ i \in 1..n /\ i - 1 \in 0..k /\ i - 1 \notin T
    BY <1>1, <1>3
  <2>2. f[i - 1] = g[i - 1]
    BY <2>1
  <2>3. f[i] = g[i]
    BY <2>1, <2>2 DEF Schedule
  <2> QED
    BY <2>3
<1> QED
  BY <1>2, <1>3

\* So the recursive definition of Delay has a solution, and Delay is one.
LEMMA DelayDef ==
  Delay = [n \in Nat |-> IF n = 0 THEN Least(Base, Cap)
                          ELSE Least(Factor * Delay[n - 1], Cap)]
<1> DEFINE At(n) == CHOOSE f : Schedule(f, n)
           D == [n \in Nat |-> At(n)[n]]
<1>1. \A n \in Nat : Schedule(At(n), n)
  BY ScheduleExists
<1> HIDE DEF At
<1>2. ASSUME NEW n \in Nat
      PROVE  D[n] = IF n = 0 THEN Least(Base, Cap) ELSE Least(Factor * D[n - 1], Cap)
  <2>1. CASE n = 0
    BY <1>1, <2>1 DEF Schedule
  <2>2. CASE n # 0
    <3>1. n - 1 \in Nat /\ n - 1 \in 0..n /\ n - 1 \in 0..(n - 1) /\ n \in 1..n
      BY <2>2
    <3>2. At(n)[n] = Least(Factor * At(n)[n - 1], Cap)
      BY <1>1, <3>1 DEF Schedule
    <3>3. At(n)[n - 1] = At(n - 1)[n - 1]
      BY <1>1, <3>1, ScheduleUnique
    <3> QED
      BY <2>2, <3>1, <3>2, <3>3
  <2> QED
    BY <2>1, <2>2
<1> HIDE DEF D
<1>3. D = [n \in Nat |-> IF n = 0 THEN Least(Base, Cap)
                          ELSE Least(Factor * D[n - 1], Cap)]
  BY <1>2 DEF D
<1> QED
  BY <1>3 DEF Delay

\* Every wait is within the cap.
LEMMA DelayType ==
  ASSUME NEW n \in Nat
  PROVE  Delay[n] \in 0..Cap
<1> DEFINE T == {i \in Nat : Delay[i] \notin 0..Cap}
<1> SUFFICES ASSUME T # {} PROVE FALSE
  OBVIOUS
<1>1. PICK i \in T : \A j \in T : i <= j
  <2>1. T \in SUBSET Nat
    OBVIOUS
  <2> QED
    BY <2>1, LeastNat
<1>2. CASE i = 0
  BY <1>1, <1>2, DelayDef, LeastType, RecoveryAssumption
<1>3. CASE i # 0
  <2>1. i - 1 \in Nat /\ i - 1 \notin T
    BY <1>1, <1>3
  <2>2. Delay[i - 1] \in Nat
    BY <2>1, RecoveryAssumption
  <2>3. Delay[i] = Least(Factor * Delay[i - 1], Cap)
    BY <1>1, <1>3, DelayDef
  <2> QED
    BY <1>1, <2>2, <2>3, GrownType
<1> QED
  BY <1>2, <1>3

\* The wait before a retry never gets shorter from one attempt to the next, and
\* never exceeds the cap, for any base, cap and factor and however many attempts
\* (backoff.rs delay_for, whose comment claims it of a huge attempt).
THEOREM DelaysGrow ==
  \A n \in Nat : Delay[n] \in 0..Cap /\ Delay[n] <= Delay[n + 1]
<1> TAKE n \in Nat
<1>1. Delay[n] \in 0..Cap
  BY DelayType
<1>2. Delay[n + 1] = Least(Factor * Delay[n], Cap)
  BY DelayDef
<1>3. ASSUME NEW d \in Nat PROVE Factor * d \in Nat /\ d <= Factor * d
  <2>1. Factor * d = d + (Factor - 1) * d /\ Factor - 1 \in Nat
    BY RecoveryAssumption
  <2>2. (Factor - 1) * d \in Nat
    BY <2>1
  <2> QED
    BY <2>1, <2>2
<1> QED
  BY <1>1, <1>2, <1>3, RecoveryAssumption DEF Least

-----------------------------------------------------------------------------
(* Every counter keeps its bound.                                            *)

\* A failure is reported twice at most, a budget is never overrun, and the wait is
\* one of the schedule's.
CountersInv ==
  /\ failures \in [Resources -> 0..MaxFailures]
  /\ \A r \in Resources : pending[r] <= 2 * failures[r]
  /\ \A r \in Resources : attempts[r] <= MaxRetries
  /\ delay \in [Resources -> 0..Cap]

\* An attempt is under way only while the budget has one left.
LoopInv ==
  /\ done <= CdpAttempts
  /\ cdp = "connecting" => done < CdpAttempts

LEMMA CountersStep ==
  ASSUME GuardInv, CountersInv, [Next]_vars
  PROVE  CountersInv'
<1>1. CASE UNCHANGED surfaceVars
  BY <1>1 DEF CountersInv, surfaceVars
<1>2. ASSUME NEW r \in Resources, SurfaceFails(r)
      PROVE  CountersInv'
  <2>1. failures'[r] = failures[r] + 1 /\ failures'[r] \in 0..MaxFailures
    BY <1>2, RecoveryAssumption DEF SurfaceFails, CountersInv
  <2>2. failures' \in [Resources -> 0..MaxFailures]
    BY <1>2, <2>1 DEF SurfaceFails, CountersInv
  <2>3. pending'[r] <= pending[r] + 2
    BY <1>2 DEF SurfaceFails, GuardInv
  <2>4. \A s \in Resources \ {r} : pending'[s] = pending[s] /\ failures'[s] = failures[s]
    BY <1>2 DEF SurfaceFails, GuardInv, CountersInv
  <2>5. pending'[r] \in Nat
    BY <1>2 DEF SurfaceFails, GuardInv
  <2>6. pending[r] \in Nat /\ failures[r] \in Nat
    BY DEF GuardInv, CountersInv
  <2>7. \A s \in Resources : pending'[s] <= 2 * failures'[s]
    BY <2>1, <2>3, <2>4, <2>5, <2>6 DEF CountersInv
  <2> QED
    BY <1>2, <2>2, <2>7 DEF SurfaceFails, CountersInv
<1>3. ASSUME NEW r \in Resources, TakeEvent(r)
      PROVE  CountersInv'
  <2>1. UNCHANGED failures /\ pending' = [pending EXCEPT ![r] = pending[r] - 1]
    BY <1>3 DEF TakeEvent
  <2>2. \A s \in Resources : pending'[s] <= 2 * failures'[s]
    BY <2>1 DEF GuardInv, CountersInv
  <2>3. CASE Decision(r) = "recover"
    <3>1. /\ attempts' = [attempts EXCEPT ![r] = attempts[r] + 1]
          /\ delay' = [delay EXCEPT ![r] = Delay[attempts[r]]]
      BY <1>3, <2>3 DEF TakeEvent
    <3>2. attempts[r] < MaxRetries
      BY <2>3, RecoveryAssumption DEF Decision, GuardInv
    <3>3. attempts[r] \in Nat
      BY DEF GuardInv
    <3>4. Delay[attempts[r]] \in 0..Cap
      BY <3>3, DelayType
    <3>5. delay' \in [Resources -> 0..Cap]
      BY <3>1, <3>4 DEF CountersInv
    <3>6. \A s \in Resources : attempts'[s] <= MaxRetries
      BY <3>1, <3>2, <3>3, RecoveryAssumption DEF GuardInv, CountersInv
    <3> QED
      BY <2>1, <2>2, <3>5, <3>6 DEF CountersInv
  <2>4. CASE Decision(r) # "recover"
    BY <1>3, <2>1, <2>2, <2>4 DEF TakeEvent, CountersInv
  <2> QED
    BY <2>3, <2>4
<1>4. ASSUME NEW r \in Resources, Recreate(r) \/ Restore(r)
      PROVE  CountersInv'
  BY <1>4 DEF Recreate, Restore, CountersInv
<1>5. ASSUME NEW r \in Resources, CooldownElapsed(r)
      PROVE  CountersInv'
  BY <1>5, RecoveryAssumption DEF CooldownElapsed, GuardInv, CountersInv
<1> QED
  BY <1>1, <1>2, <1>3, <1>4, <1>5, SurfaceSteps DEF vars, surfaceVars

LEMMA LoopStep ==
  ASSUME CdpInv, LoopInv, [Next]_vars
  PROVE  LoopInv'
<1>1. CASE UNCHANGED cdpVars
  BY <1>1 DEF LoopInv, cdpVars
<1>2. CASE CdpLost \/ RunReconnect \/ CdpPlan \/ CdpConnect
  BY <1>2, RecoveryAssumption
  DEF CdpInv, LoopInv, CdpLost, RunReconnect, CdpPlan, CdpConnect
<1> QED
  BY <1>1, <1>2 DEF Next, vars, Handle, SurfaceFails, TakeEvent, Recreate,
     Restore, CooldownElapsed, ChildExits, cdpVars

LEMMA OfferedStep ==
  ASSUME offered \subseteq Panes, [Next]_vars
  PROVE  offered' \subseteq Panes
  BY DEF Next, vars, Handle, SurfaceFails, TakeEvent, Recreate, Restore,
     CooldownElapsed, CdpLost, RunReconnect, CdpPlan, CdpConnect, ChildExits

\* The layer is sound: "recovered" is said only of a whole surface, and every budget,
\* queue and wait keeps its bound, for any budgets, schedule and number of failures
\* (recovery.rs on_failure, backoff.rs delay_for, cdp_reconnect.rs run_reconnect).
THEOREM RecoveryAlwaysSound == Spec => []RecoverySound
<1> DEFINE Inv == /\ GuardInv /\ DownIsAccounted /\ RecoveredIsWhole
                  /\ CdpInv /\ CountersInv /\ LoopInv /\ offered \subseteq Panes
<1>1. Init => Inv
  <2> SUFFICES ASSUME Init PROVE Inv
    OBVIOUS
  <2>1. CountersInv /\ LoopInv
    BY RecoveryAssumption DEF Init, CountersInv, LoopInv
  <2> QED
    BY <2>1, GuardInvInit DEF Init, DownIsAccounted, RecoveredIsWhole
<1>2. Inv /\ [Next]_vars => Inv'
  BY GuardInvStep, AccountsStep, CdpInvStep, CountersStep, LoopStep, OfferedStep
<1>3. Inv => RecoverySound
  <2> SUFFICES ASSUME Inv PROVE RecoverySound
    OBVIOUS
  <2>1. pending \in [Resources -> 0..2 * MaxFailures]
    <3>1. \A r \in Resources : pending[r] \in 0..2 * MaxFailures
      BY RecoveryAssumption DEF GuardInv, CountersInv
    <3> QED
      BY <3>1 DEF GuardInv
  <2>2. attempts \in [Resources -> 0..MaxRetries]
    <3>1. \A r \in Resources : attempts[r] \in 0..MaxRetries
      BY RecoveryAssumption DEF GuardInv, CountersInv
    <3> QED
      BY <3>1 DEF GuardInv
  <2>3. done \in 0..CdpAttempts
    BY RecoveryAssumption DEF CdpInv, LoopInv
  <2> QED
    BY <2>1, <2>2, <2>3 DEF RecoverySound, TypeOK, GuardInv, CdpInv, CountersInv
<1> QED
  BY <1>1, <1>2, <1>3, PTL DEF Spec

-----------------------------------------------------------------------------
(* The session a restart begins with: SessionRestore.                        *)

\* Every pane of a saved session has one of the policies.
Saved(doc) == \A i \in DOMAIN doc : doc[i].policy \in Policies

\* The session on disk is the one saved last and whole, and what is about to be
\* renamed to it is the one under way.
SessionInv ==
  /\ \A p \in Listed : layout[p].policy \in Policies
  /\ layout = [p \in Listed |-> [policy |-> layout[p].policy, last |-> layout[p].last]]
  /\ saving = [step |-> saving.step, doc |-> saving.doc]
  /\ saves = [doc |-> saves.doc, n |-> saves.n]
  /\ Saved(saving.doc) /\ Saved(saves.doc)
  /\ saving.step = "renaming" => temp = File("whole", saving.doc)
  /\ disk.is # "torn" /\ disk.doc = saves.doc

\* What is saved of the panes of the moment.
LEMMA DocumentSaved ==
  ASSUME SessionInv
  PROVE  Saved(Document)
<1>1. \A i \in DOMAIN SessionPanes : SessionPanes[i] \in Listed
  BY DEF Listed, Range
<1> QED
  BY <1>1 DEF Document, Saved, SessionInv

\* Every step of the program and every restart keeps it.
LEMMA SessionStep ==
  ASSUME SessionInv, [SessionNext]_sessionVars
  PROVE  SessionInv'
<1>1. ASSUME NEW p \in Listed, NEW c \in Commands, RunCommand(p, c)
      PROVE  SessionInv'
  BY <1>1 DEF RunCommand, SessionInv, Saved
<1>2. ASSUME NEW p \in Listed, NEW policy \in Policies, SetPolicy(p, policy)
      PROVE  SessionInv'
  BY <1>2 DEF SetPolicy, SessionInv, Saved
<1>3. CASE PersistBegins
  <2>1. Saved(saving'.doc) /\ saving'.step = "writing"
    BY <1>3, DocumentSaved DEF PersistBegins
  <2>2. saves' = [doc |-> saves.doc, n |-> saves'.n]
    BY <1>3 DEF PersistBegins, SessionInv
  <2> QED
    BY <1>3, <2>1, <2>2 DEF PersistBegins, SessionInv, Saved
<1>4. CASE WriteSynced
  <2>1. CASE temp' = File("whole", saving.doc) /\ saving' = [saving EXCEPT !.step = "renaming"]
    BY <1>4, <2>1 DEF WriteSynced, SessionInv, Saved
  <2>2. CASE saving' = NotSaving /\ UNCHANGED temp
    BY <1>4, <2>2 DEF WriteSynced, SessionInv, Saved, NotSaving, NoSession
  <2> QED
    BY <1>4, <2>1, <2>2 DEF WriteSynced
<1>5. CASE Rename
  <2>1. /\ saving' = NotSaving /\ Saved(saving'.doc) /\ UNCHANGED layout
        /\ saving' = [step |-> saving'.step, doc |-> saving'.doc] /\ saving'.step = "none"
    BY <1>5 DEF Rename, NotSaving, NoSession, Saved
  <2>2. CASE disk' = temp /\ temp' = Absent /\ saves' = [saves EXCEPT !.doc = saving.doc]
    <3>1. saves' = [doc |-> saving.doc, n |-> saves.n]
      BY <2>2 DEF SessionInv
    <3>2. disk'.is = "whole" /\ disk'.doc = saving.doc
      BY <1>5, <2>2 DEF Rename, SessionInv, File
    <3> QED
      BY <2>1, <3>1, <3>2 DEF SessionInv, Saved
  <2>3. CASE UNCHANGED <<disk, temp, saves>>
    BY <2>1, <2>3 DEF SessionInv, Saved
  <2> QED
    BY <1>5, <2>2, <2>3 DEF Rename
<1>6. ASSUME NEW look \in Looks, Restart(look)
      PROVE  SessionInv'
  <2>1. UNCHANGED <<disk, temp, saves>> /\ saving' = NotSaving
    BY <1>6 DEF Restart
  <2>2. PICK found : found = Seen(look).doc /\ Saved(found)
    <3>1. Seen(look).doc = disk.doc \/ Seen(look).doc = <<>>
      BY DEF Seen, File, Absent, NoSession
    <3>2. Saved(disk.doc) /\ Saved(<<>>)
      BY DEF SessionInv, Saved
    <3> QED
      BY <3>1, <3>2
  <2> DEFINE Of(p) == {i \in DOMAIN found : found[i].pane = p}
  <2>3. layout' = [p \in Listed |->
          IF Of(p) = {} THEN [policy |-> "FreshShell", last |-> NoCommand]
          ELSE LET i == CHOOSE i \in Of(p) : TRUE
               IN [policy |-> found[i].policy, last |-> found[i].last]]
    BY <1>6, <2>2 DEF Restart
  <2>4. ASSUME NEW p \in Listed
        PROVE  /\ layout'[p] = [policy |-> layout'[p].policy, last |-> layout'[p].last]
               /\ layout'[p].policy \in Policies
    <3>1. CASE Of(p) = {}
      BY <2>3, <3>1 DEF Policies
    <3>2. CASE Of(p) # {}
      <4>1. PICK i \in Of(p) :
              layout'[p] = [policy |-> found[i].policy, last |-> found[i].last]
        BY <2>3, <3>2
      <4> QED
        BY <2>2, <4>1 DEF Saved
    <3> QED
      BY <3>1, <3>2
  <2>5. layout' = [p \in Listed |-> [policy |-> layout'[p].policy, last |-> layout'[p].last]]
    BY <2>3, <2>4
  <2> QED
    BY <2>1, <2>4, <2>5 DEF SessionInv, NotSaving, NoSession, Saved
<1>7. CASE UNCHANGED sessionVars
  BY <1>7 DEF sessionVars, SessionInv, Saved
<1> QED
  BY <1>1, <1>2, <1>3, <1>4, <1>5, <1>6, <1>7 DEF SessionNext

\* Wherever a save fails or the process dies, a start never finds half a file; it
\* opens the shells of the session saved last and whole, or none if it cannot read
\* it, and runs a command only in a pane the user had set to run it again
\* (session.rs, persist, restore and shells_to_spawn).
THEOREM StartsAlwaysAsSaved == SessionInit /\ [][SessionNext]_sessionVars => StartsAsSaved
<1>1. SessionInit => SessionInv
  BY DEF SessionInit, SessionInv, Saved, Policies, NotSaving, NoSession, Absent, File
<1>2. SessionInv /\ [SessionNext]_sessionVars => SessionInv'
  BY SessionStep
<1>3. SessionInv /\ [SessionNext]_sessionVars =>
      [\A look \in Looks : Restart(look) =>
       /\ spawned'.is # "torn"
       /\ DOMAIN spawned'.shells = IF look = "reads" THEN DOMAIN saves.doc ELSE {}
       /\ \A i \in DOMAIN spawned'.shells :
            LET kept == saves.doc[i]
                shell == spawned'.shells[i]
            IN /\ shell.pane = kept.pane
               /\ shell.initial = kept.last \/ shell.initial = NoCommand
               /\ (shell.initial # NoCommand)
                    = (kept.policy = "RerunLastCommand" /\ kept.last # NoCommand)]_sessionVars
  <2> SUFFICES ASSUME SessionInv, NEW look \in Looks, Restart(look)
               PROVE  /\ spawned'.is # "torn"
                      /\ DOMAIN spawned'.shells = IF look = "reads" THEN DOMAIN saves.doc ELSE {}
                      /\ \A i \in DOMAIN spawned'.shells :
                           LET kept == saves.doc[i]
                               shell == spawned'.shells[i]
                           IN /\ shell.pane = kept.pane
                              /\ shell.initial = kept.last \/ shell.initial = NoCommand
                              /\ (shell.initial # NoCommand)
                                   = (kept.policy = "RerunLastCommand" /\ kept.last # NoCommand)
    OBVIOUS
  <2>1. /\ disk.doc = saves.doc /\ disk.is # "torn" /\ Saved(saves.doc)
        /\ spawned'.is = Seen(look).is /\ spawned'.shells = ShellsToSpawn(Seen(look).doc)
    BY DEF SessionInv, Restart
  <2>2. CASE look # "reads"
    <3>1. Seen(look).is # "torn" /\ Seen(look).doc = <<>>
      BY <2>2 DEF Looks, Seen, Absent, File, NoSession
    <3>2. DOMAIN spawned'.shells = {}
      BY <2>1, <3>1 DEF ShellsToSpawn
    <3> QED
      BY <2>1, <2>2, <3>1, <3>2
  <2>3. CASE look = "reads"
    <3>1. spawned'.is # "torn" /\ spawned'.shells = ShellsToSpawn(saves.doc)
      BY <2>1, <2>3 DEF Seen
    <3>2. ASSUME NEW i \in DOMAIN saves.doc
          PROVE  /\ spawned'.shells[i].pane = saves.doc[i].pane
                 /\ \/ spawned'.shells[i].initial = saves.doc[i].last
                    \/ spawned'.shells[i].initial = NoCommand
                 /\ (spawned'.shells[i].initial # NoCommand)
                      = (saves.doc[i].policy = "RerunLastCommand" /\ saves.doc[i].last # NoCommand)
      <4>1. saves.doc[i].policy = "FreshShell" \/ saves.doc[i].policy = "RerunLastCommand"
        BY <2>1 DEF Saved, Policies
      <4>2. spawned'.shells[i] =
              [pane |-> saves.doc[i].pane,
               initial |-> IF saves.doc[i].policy = "FreshShell" THEN NoCommand
                           ELSE saves.doc[i].last]
        BY <3>1 DEF ShellsToSpawn
      <4> QED
        BY <4>1, <4>2
    <3>3. DOMAIN spawned'.shells = DOMAIN saves.doc
      BY <3>1 DEF ShellsToSpawn
    <3> QED
      BY <2>3, <3>1, <3>2, <3>3
  <2> QED
    BY <2>2, <2>3
<1> QED
  BY <1>1, <1>2, <1>3, PTL DEF StartsAsSaved

-----------------------------------------------------------------------------
(* What a sweep of the log directory leaves: LogRetention.                   *)

\* Files are finitely many, and days are numbers.
FilesInv ==
  /\ today \in Nat /\ active \in Nat
  /\ IsFiniteSet(DOMAIN files)
  /\ files = [d \in DOMAIN files |-> files[d]]
  /\ \A d \in DOMAIN files : files[d] \in Nat

\* Opening the file of the day keeps the directory one.
LEMMA TodayAdded ==
  ASSUME FilesInv
  PROVE  /\ IsFiniteSet(DOMAIN WithToday) /\ today \in DOMAIN WithToday
         /\ WithToday = [d \in DOMAIN WithToday |-> WithToday[d]]
         /\ \A d \in DOMAIN WithToday : WithToday[d] \in Nat /\ Age(WithToday, d) \in Nat
<1>1. DOMAIN WithToday = DOMAIN files \cup {today}
  BY DEF WithToday
<1>2. IsFiniteSet(DOMAIN WithToday)
  BY <1>1, FS_AddElement DEF FilesInv
<1>3. \A d \in DOMAIN WithToday : WithToday[d] \in Nat
  BY DEF WithToday, FilesInv
<1>4. \A d \in DOMAIN WithToday : Age(WithToday, d) \in Nat
  BY <1>3 DEF Age, FilesInv
<1>5. WithToday = [d \in DOMAIN WithToday |-> WithToday[d]]
  BY DEF WithToday
<1> QED
  BY <1>1, <1>2, <1>3, <1>4, <1>5

\* Every step keeps it: a sweep only takes files away.
LEMMA FilesStep ==
  ASSUME FilesInv, [RetentionNext]_retentionVars
  PROVE  FilesInv'
<1>1. CASE SetupReliability
  <2>1. PICK gone : files' = [d \in DOMAIN WithToday \ gone |-> WithToday[d]]
    <3>1. CASE ScanFails(WithToday)
      <4>1. files' = [d \in DOMAIN WithToday \ {} |-> WithToday[d]]
        BY <3>1, TodayAdded DEF ScanFails
      <4> QED
        BY <4>1
    <3>2. CASE Sweep(WithToday)
      BY <3>2 DEF Sweep
    <3> QED
      BY <1>1, <3>1, <3>2 DEF SetupReliability, ApplyRetention
  <2>2. IsFiniteSet(DOMAIN files')
    BY <2>1, TodayAdded, FS_Subset
  <2> QED
    BY <1>1, <2>1, <2>2, TodayAdded DEF SetupReliability, FilesInv
<1>2. CASE WriteLog
  <2>1. CASE today > active
    BY <1>2, <2>1, TodayAdded DEF WriteLog, FilesInv
  <2>2. CASE ~(today > active)
    BY <1>2, <2>2 DEF WriteLog, FilesInv
  <2> QED
    BY <2>1, <2>2
<1>3. CASE ClockMoves
  BY <1>3 DEF ClockMoves, sweepVars, FilesInv
<1>4. CASE SetupFails \/ Quit \/ (\E b \in BOOLEAN : CrashOptIn(b)) \/ UNCHANGED retentionVars
  BY <1>4 DEF SetupFails, Quit, CrashOptIn, retentionVars, sweepVars, FilesInv
<1> QED
  BY <1>1, <1>2, <1>3, <1>4 DEF RetentionNext

\* The smaller of two numbers.
LEMMA MinOfTwo ==
  ASSUME NEW m \in Nat, NEW n \in Nat
  PROVE  /\ Min({m, n}) \in Nat /\ Min({m, n}) <= m
         /\ n > m => Min({m, n}) = m
         /\ n <= m => Min({m, n}) = n
<1>1. \E x \in {m, n} : \A y \in {m, n} : x =< y
  OBVIOUS
<1>2. Min({m, n}) \in {m, n} /\ \A y \in {m, n} : Min({m, n}) =< y
  BY <1>1 DEF Min
<1> QED
  BY <1>2

\* A file that is not among the kept ones has KeepFiles kept ones beside it.
LEMMA KeptBeside ==
  ASSUME NEW log, IsFiniteSet(DOMAIN log), NEW kept \in Newest(log)
  PROVE  /\ kept \subseteq DOMAIN log /\ IsFiniteSet(kept) /\ Cardinality(kept) <= KeepFiles
         /\ \A d \in DOMAIN log \ kept :
              /\ Cardinality(kept) = KeepFiles
              /\ \A k \in kept : Age(log, k) <= Age(log, d)
<1>1. /\ kept \subseteq DOMAIN log
      /\ Cardinality(kept) = Min({KeepFiles, Cardinality(DOMAIN log)})
      /\ \A k \in kept, d \in DOMAIN log \ kept : Age(log, k) <= Age(log, d)
  BY DEF Newest
<1>2. KeepFiles \in Nat /\ Cardinality(DOMAIN log) \in Nat
  BY RetentionAssumption, FS_CardinalityType
<1>3. Cardinality(kept) <= KeepFiles /\ IsFiniteSet(kept) /\ Cardinality(kept) \in Nat
  BY <1>1, <1>2, MinOfTwo, FS_Subset, FS_CardinalityType
<1>4. ASSUME NEW d \in DOMAIN log \ kept
      PROVE  Cardinality(kept) = KeepFiles
  <2>1. Cardinality(kept) < Cardinality(DOMAIN log)
    BY <1>1, <1>2, <1>3, <1>4, FS_Subset
  <2>2. Cardinality(DOMAIN log) > KeepFiles \/ Cardinality(DOMAIN log) <= KeepFiles
    BY <1>2
  <2>3. CASE Cardinality(DOMAIN log) > KeepFiles
    BY <1>1, <1>2, <2>3, MinOfTwo
  <2>4. CASE Cardinality(DOMAIN log) <= KeepFiles
    <3>1. Min({KeepFiles, Cardinality(DOMAIN log)}) = Cardinality(DOMAIN log)
      BY <1>2, <2>4, MinOfTwo
    <3> QED
      BY <1>1, <1>2, <1>3, <2>1, <3>1
  <2> QED
    BY <2>2, <2>3, <2>4
<1> QED
  BY <1>1, <1>3, <1>4

\* Whatever the directory lists first of two files of an age, and whatever cannot be
\* deleted, a sweep leaves what the policy wants and takes nothing else
\* (rotation.rs, plan_retention and apply_retention).
THEOREM SweepsAlwaysKeepTheNewest ==
  RetentionInit /\ [][RetentionNext]_retentionVars => SweepKeepsTheNewest
<1>1. RetentionInit => FilesInv
  BY FS_EmptySet DEF RetentionInit, FilesInv
<1>2. FilesInv /\ [RetentionNext]_retentionVars => FilesInv'
  BY FilesStep
<1>3. FilesInv /\ [RetentionNext]_retentionVars =>
      [SetupReliability =>
       LET before == WithToday
           left == DOMAIN files' \ stuck'
           noOlder(d) == {e \in DOMAIN before \ {d} : Age(before, e) <= Age(before, d)}
       IN /\ unreadable' = {} =>
               Cardinality(left) <= KeepFiles /\ \A d \in left : Age(before, d) < MaxAge
          /\ \A d \in DOMAIN before \ DOMAIN files' :
               \/ Age(before, d) >= MaxAge
               \/ Cardinality(noOlder(d) \cap DOMAIN files') >= KeepFiles
          /\ Cardinality(noOlder(today)) < KeepFiles /\ Age(before, today) < MaxAge
               => today \in DOMAIN files']_retentionVars
  <2> SUFFICES ASSUME FilesInv, SetupReliability
               PROVE
       LET before == WithToday
           left == DOMAIN files' \ stuck'
           noOlder(d) == {e \in DOMAIN before \ {d} : Age(before, e) <= Age(before, d)}
       IN /\ unreadable' = {} =>
               Cardinality(left) <= KeepFiles /\ \A d \in left : Age(before, d) < MaxAge
          /\ \A d \in DOMAIN before \ DOMAIN files' :
               \/ Age(before, d) >= MaxAge
               \/ Cardinality(noOlder(d) \cap DOMAIN files') >= KeepFiles
          /\ Cardinality(noOlder(today)) < KeepFiles /\ Age(before, today) < MaxAge
               => today \in DOMAIN files'
    OBVIOUS
  <2>1. PICK log : log = WithToday
    OBVIOUS
  <2> DEFINE noOlder(d) == {e \in DOMAIN log \ {d} : Age(log, e) <= Age(log, d)}
             old == {d \in DOMAIN log : Age(log, d) >= MaxAge}
  <2>2. IsFiniteSet(DOMAIN log) /\ today \in DOMAIN log /\ \A d \in DOMAIN log : Age(log, d) \in Nat
    BY <2>1, TodayAdded
  <2>3. CASE ScanFails(log)
    <3>1. unreadable' # {} /\ DOMAIN files' = DOMAIN log
      BY <2>3 DEF ScanFails
    <3>2. DOMAIN WithToday \ DOMAIN files' = {} /\ today \in DOMAIN files'
      BY <2>1, <2>2, <3>1
    <3> QED
      BY <3>1, <3>2
  <2>4. ASSUME Sweep(log)
         PROVE  /\ Cardinality(DOMAIN files' \ stuck') <= KeepFiles
                /\ \A d \in DOMAIN files' \ stuck' : Age(log, d) < MaxAge
                /\ \A d \in DOMAIN log \ DOMAIN files' :
                     \/ Age(log, d) >= MaxAge
                     \/ Cardinality(noOlder(d) \cap DOMAIN files') >= KeepFiles
                /\ Cardinality(noOlder(today)) < KeepFiles /\ Age(log, today) < MaxAge
                     => today \in DOMAIN files'
    <3>3. PICK doomed, failed :
            /\ doomed \in PlanRetention(log)
            /\ failed \subseteq doomed /\ stuck' = failed
            /\ files' = [d \in DOMAIN log \ (doomed \ failed) |-> log[d]]
      BY <2>4 DEF Sweep
    <3>4. PICK kept \in Newest(log) : doomed = old \cup (DOMAIN log \ kept)
      BY <3>3 DEF PlanRetention
    <3>5. /\ kept \subseteq DOMAIN log /\ IsFiniteSet(kept) /\ Cardinality(kept) <= KeepFiles
          /\ \A d \in DOMAIN log \ kept :
               /\ Cardinality(kept) = KeepFiles
               /\ \A k \in kept : Age(log, k) <= Age(log, d)
      BY <2>2, KeptBeside
    <3>6. DOMAIN files' = DOMAIN log \ (doomed \ failed)
          /\ DOMAIN files' \ stuck' = kept \ old
      BY <3>3, <3>4, <3>5
    <3>7. MaxAge \in Nat /\ KeepFiles \in Nat
      BY RetentionAssumption
    <3>8. Cardinality(DOMAIN files' \ stuck') <= KeepFiles
      <4>1. /\ Cardinality(kept \ old) <= Cardinality(kept)
            /\ Cardinality(kept \ old) \in Nat /\ Cardinality(kept) \in Nat
        BY <3>5, FS_Subset, FS_CardinalityType
      <4> QED
        BY <3>5, <3>6, <3>7, <4>1
    <3>9. \A d \in DOMAIN files' \ stuck' : Age(log, d) < MaxAge
      BY <2>2, <3>5, <3>6, <3>7
    <3>10. ASSUME NEW d \in DOMAIN log \ kept, Age(log, d) < MaxAge
           PROVE  /\ kept \subseteq noOlder(d) \cap DOMAIN files'
                  /\ Cardinality(kept) = KeepFiles
      <4>1. \A k \in kept : Age(log, k) <= Age(log, d) /\ k # d /\ k \in DOMAIN log
        BY <3>5, <3>10
      <4>2. \A k \in kept : k \notin old
        BY <2>2, <3>7, <3>10, <4>1
      <4>3. \A k \in kept : k \in DOMAIN files'
        BY <3>4, <3>6, <4>1, <4>2
      <4> QED
        BY <3>5, <3>10, <4>1, <4>3
    <3>11. ASSUME NEW d \in DOMAIN log
           PROVE  IsFiniteSet(noOlder(d)) /\ IsFiniteSet(noOlder(d) \cap DOMAIN files')
      BY <2>2, FS_Subset
    <3>12. ASSUME NEW d \in DOMAIN log \ DOMAIN files', ~(Age(log, d) >= MaxAge)
           PROVE  Cardinality(noOlder(d) \cap DOMAIN files') >= KeepFiles
      <4>1. d \notin kept /\ Age(log, d) < MaxAge
        BY <2>2, <3>4, <3>6, <3>7, <3>12
      <4>2. kept \subseteq noOlder(d) \cap DOMAIN files' /\ Cardinality(kept) = KeepFiles
        BY <3>10, <4>1
      <4> DEFINE M == noOlder(d) \cap DOMAIN files'
      <4>3. IsFiniteSet(M)
        BY <3>11
      <4>4. kept \subseteq M
        BY <4>2
      <4> HIDE DEF M
      <4>5. Cardinality(kept) <= Cardinality(M) /\ Cardinality(M) \in Nat
        BY <4>3, <4>4, FS_Subset, FS_CardinalityType
      <4>6. Cardinality(M) >= KeepFiles
        BY <3>7, <4>2, <4>5
      <4> QED
        BY <4>6 DEF M
    <3>13. ASSUME Cardinality(noOlder(today)) < KeepFiles, Age(log, today) < MaxAge
           PROVE  today \in DOMAIN files'
      <4>1. SUFFICES ASSUME today \notin DOMAIN files' PROVE FALSE
        OBVIOUS
      <4>2. today \in DOMAIN log \ kept
        BY <2>2, <3>4, <3>6, <3>7, <3>13, <4>1
      <4>3. kept \subseteq noOlder(today) /\ Cardinality(kept) = KeepFiles
        BY <3>10, <3>13, <4>2
      <4> DEFINE M == noOlder(today)
      <4>4. IsFiniteSet(M) /\ kept \subseteq M /\ Cardinality(M) < KeepFiles
        BY <2>2, <3>11, <3>13, <4>3
      <4> HIDE DEF M
      <4>5. Cardinality(kept) <= Cardinality(M) /\ Cardinality(M) \in Nat
        BY <4>4, FS_Subset, FS_CardinalityType
      <4> QED
        BY <3>7, <4>3, <4>4, <4>5
    <3> QED
      BY <3>8, <3>9, <3>12, <3>13
  <2> QED
    BY <2>1, <2>3, <2>4 DEF SetupReliability, ApplyRetention
<1> QED
  BY <1>1, <1>2, <1>3, PTL DEF SweepKeepsTheNewest

-----------------------------------------------------------------------------
(* What a row shows: Sidebar.                                                *)

\* The last lines of n, as many as the tail holds.
LastLines(n) ==
  LET kept == IF n < LogTailMax THEN n ELSE LogTailMax
  IN [i \in 1 .. kept |-> n - kept + i]

\* The store: workspaces, of which each has a panel in front or none.
StoreInv ==
  /\ DOMAIN store \subseteq Workspaces
  /\ store = [w \in DOMAIN store |-> store[w]]
  /\ \A w \in DOMAIN store :
       /\ store[w] = [focused |-> store[w].focused, branches |-> store[w].branches,
                      pulls |-> store[w].pulls, ports |-> store[w].ports]
       /\ store[w].focused \in Panels \cup {Unset}

\* What was reported of panel p is in its entry; without an entry nothing was, or
\* the panel was forgotten since.
EntryInv(p) ==
  /\ reported[p] = [progress |-> reported[p].progress, lines |-> reported[p].lines]
  /\ reported[p].lines \in Nat
  /\ p \notin DOMAIN transient => reported[p] = Silent
  /\ p \in DOMAIN transient =>
       transient[p] = [status |-> transient[p].status, progress |-> reported[p].progress,
                       log_tail |-> LastLines(reported[p].lines)]

SidebarInv ==
  /\ StoreInv
  /\ DOMAIN transient \subseteq Panels
  /\ reported = [p \in Panels |-> reported[p]]
  /\ \A p \in Panels : EntryInv(p)
  /\ capture # NoCapture => capture.panel \in Panels

\* A line more, and the oldest one goes when there are too many.
LEMMA TailSlides ==
  ASSUME NEW n \in Nat
  PROVE  LET tail == Append(LastLines(n), n + 1)
             overflow == Len(tail) - LogTailMax
         IN LastLines(n + 1) = IF overflow > 0 THEN SubSeq(tail, overflow + 1, Len(tail)) ELSE tail
<1>1. PICK kept, next : /\ kept = (IF n < LogTailMax THEN n ELSE LogTailMax)
                        /\ next = (IF n + 1 < LogTailMax THEN n + 1 ELSE LogTailMax)
  OBVIOUS
<1>2. LogTailMax \in Nat \ {0} /\ kept \in Nat /\ next \in Nat /\ kept <= n
  BY <1>1, SidebarAssumption
<1>3. /\ LastLines(n) = [i \in 1 .. kept |-> n - kept + i]
      /\ LastLines(n + 1) = [i \in 1 .. next |-> n + 1 - next + i]
  BY <1>1 DEF LastLines
<1>4. LastLines(n) \in Seq(Nat) /\ Len(LastLines(n)) = kept
  <2>1. \A i \in 1 .. kept : n - kept + i \in Nat
    BY <1>2
  <2> QED
    BY <1>2, <1>3, <2>1
<1>5. PICK tail : tail = Append(LastLines(n), n + 1)
  OBVIOUS
<1>6. /\ tail \in Seq(Nat) /\ Len(tail) = kept + 1
      /\ \A i \in 1 .. kept : tail[i] = LastLines(n)[i]
      /\ tail[kept + 1] = n + 1
  BY <1>4, <1>5, AppendProperties
<1>7. \A i \in 1 .. kept + 1 : tail[i] = n - kept + i /\ tail[i] \in Nat
  <2> SUFFICES ASSUME NEW i \in 1 .. kept + 1
               PROVE  tail[i] = n - kept + i
    BY <1>2
  <2>1. CASE i = kept + 1
    BY <1>2, <1>6, <2>1
  <2>2. CASE i # kept + 1
    <3>1. i \in 1 .. kept
      BY <1>2, <2>2
    <3> QED
      BY <1>3, <1>6, <3>1
  <2> QED
    BY <2>1, <2>2
<1>8. tail = [i \in 1 .. kept + 1 |-> tail[i]]
  BY <1>2, <1>6
<1>9. CASE n < LogTailMax
  <2>1. kept = n /\ next = n + 1 /\ ~(Len(tail) - LogTailMax > 0)
    BY <1>1, <1>2, <1>6, <1>9
  <2>2. \A i \in 1 .. n + 1 : tail[i] = n + 1 - next + i
    BY <1>2, <1>7, <2>1
  <2>3. tail = LastLines(n + 1)
    BY <1>3, <1>8, <2>1, <2>2
  <2> QED
    BY <1>5, <2>1, <2>3
<1>10. CASE ~(n < LogTailMax)
  <2>1. kept = LogTailMax /\ next = LogTailMax /\ Len(tail) - LogTailMax = 1
    BY <1>1, <1>2, <1>6, <1>10
  <2>2. PICK s : s = SubSeq(tail, 2, kept + 1)
    OBVIOUS
  <2>3. \A i \in 2 .. kept + 1 : tail[i] \in Nat
    BY <1>2, <1>7
  <2>4. /\ s \in Seq(Nat) /\ Len(s) = kept
        /\ \A i \in 1 .. kept : s[i] = tail[2 + i - 1]
    BY <1>2, <2>2, <2>3, SubSeqProperties
  <2>5. \A i \in 1 .. kept : s[i] = n + 1 - next + i
    BY <1>2, <1>7, <2>1, <2>4
  <2>6. s = [i \in 1 .. kept |-> s[i]]
    BY <1>2, <2>4
  <2>7. s = LastLines(n + 1)
    BY <1>3, <2>1, <2>5, <2>6
  <2>8. Len(tail) - LogTailMax > 0 /\ (Len(tail) - LogTailMax) + 1 = 2 /\ Len(tail) = kept + 1
    BY <1>6, <2>1
  <2> QED
    BY <1>5, <2>2, <2>7, <2>8
<1> QED
  BY <1>9, <1>10

\* Of no lines none are kept.
LEMMA NoLines == LastLines(0) = <<>>
BY SidebarAssumption DEF LastLines

\* What EXCEPT makes of the history of a panel.
LEMMA HistoryExcept ==
  ASSUME NEW map, NEW S, map = [x \in S |-> map[x]], NEW p \in S, NEW c, NEW n,
         map[p] = [progress |-> c, lines |-> n], NEW a, NEW b, NEW new,
         new = [map EXCEPT ![p].progress = a, ![p].lines = b]
  PROVE  /\ new = [x \in S |-> new[x]]
         /\ new[p] = [progress |-> a, lines |-> b]
         /\ \A q \in S : q # p => new[q] = map[q]
<1>1. /\ new = [x \in S |-> new[x]]
      /\ \A q \in S : q # p => new[q] = map[q]
      /\ new[p] = [map[p] EXCEPT !.progress = a, !.lines = b]
  OBVIOUS
<1>2. DOMAIN new[p] = {"progress", "lines"} /\ new[p].progress = a /\ new[p].lines = b
  BY <1>1
<1>3. new[p] = [x \in {"progress", "lines"} |-> new[p][x]]
  BY <1>1, <1>2
<1> QED
  BY <1>1, <1>2, <1>3

\* receive_report, by whoever makes it.
LEMMA ReportStep ==
  ASSUME SidebarInv, NEW w, NEW p \in Panels, NEW r,
         \/ r.kind \in ModelBacked
         \/ r.kind = "status" \/ r.kind = "progress" \/ r.kind = "log",
         ReceiveReport(w, p, r)
  PROVE  /\ StoreInv' /\ DOMAIN transient' \subseteq Panels
         /\ reported' = [q \in Panels |-> reported'[q]]
         /\ \A q \in Panels : EntryInv(q)'
<1>1. \/ UNCHANGED <<store, transient, reported>>
      \/ w \in DOMAIN store /\ store' = Stored(w, p, r) /\ UNCHANGED <<transient, reported>>
      \/ /\ UNCHANGED store /\ r.kind \notin ModelBacked
         /\ transient' = Insert(transient, p, Recorded(p, r))
         /\ reported' = [reported EXCEPT
              ![p].progress = IF r.kind = "progress" THEN r.value ELSE @,
              ![p].lines = IF r.kind = "log" THEN @ + 1 ELSE @]
  BY DEF ReceiveReport
<1>2. CASE UNCHANGED <<store, transient, reported>>
           \/ (w \in DOMAIN store /\ store' = Stored(w, p, r) /\ UNCHANGED <<transient, reported>>)
  <2>1. StoreInv'
    <3>1. CASE UNCHANGED store
      BY <3>1 DEF SidebarInv, StoreInv
    <3>2. CASE w \in DOMAIN store /\ store' = Stored(w, p, r)
      <4>1. PICK b, u, o :
              store' = [store EXCEPT ![w] = [focused |-> store[w].focused, branches |-> b,
                                             pulls |-> u, ports |-> o]]
        <5>1. PICK v : \/ store' = [store EXCEPT ![w].branches = v]
                       \/ store' = [store EXCEPT ![w].pulls = v]
                       \/ store' = [store EXCEPT ![w].ports = v]
          BY <3>2 DEF Stored
        <5>2. store[w] = [focused |-> store[w].focused, branches |-> store[w].branches,
                          pulls |-> store[w].pulls, ports |-> store[w].ports]
          BY <3>2 DEF SidebarInv, StoreInv
        <5>3. \/ store' = [store EXCEPT ![w] = [store[w] EXCEPT !.branches = v]]
              \/ store' = [store EXCEPT ![w] = [store[w] EXCEPT !.pulls = v]]
              \/ store' = [store EXCEPT ![w] = [store[w] EXCEPT !.ports = v]]
          BY <5>1
        <5>4. /\ [store[w] EXCEPT !.branches = v]
                   = [focused |-> store[w].focused, branches |-> v,
                      pulls |-> store[w].pulls, ports |-> store[w].ports]
              /\ [store[w] EXCEPT !.pulls = v]
                   = [focused |-> store[w].focused, branches |-> store[w].branches,
                      pulls |-> v, ports |-> store[w].ports]
              /\ [store[w] EXCEPT !.ports = v]
                   = [focused |-> store[w].focused, branches |-> store[w].branches,
                      pulls |-> store[w].pulls, ports |-> v]
          BY <5>2
        <5> QED
          BY <5>3, <5>4
      <4>2. /\ DOMAIN store' = DOMAIN store
            /\ store'[w] = [focused |-> store[w].focused, branches |-> b, pulls |-> u, ports |-> o]
            /\ \A x \in DOMAIN store : x # w => store'[x] = store[x]
            /\ store' = [x \in DOMAIN store |-> store'[x]]
        BY <3>2, <4>1 DEF SidebarInv, StoreInv
      <4> QED
        BY <3>2, <4>2 DEF SidebarInv, StoreInv
    <3> QED
      BY <1>2, <3>1, <3>2, <1>1
  <2> QED
    BY <1>2, <2>1 DEF SidebarInv, EntryInv
<1>3. CASE /\ UNCHANGED store /\ r.kind \notin ModelBacked
           /\ transient' = Insert(transient, p, Recorded(p, r))
           /\ reported' = [reported EXCEPT
                ![p].progress = IF r.kind = "progress" THEN r.value ELSE @,
                ![p].lines = IF r.kind = "log" THEN @ + 1 ELSE @]
  <2>1. /\ DOMAIN transient' = DOMAIN transient \cup {p}
        /\ transient'[p] = Recorded(p, r)
        /\ \A q \in DOMAIN transient : q # p => transient'[q] = transient[q]
    BY <1>3 DEF Insert
  <2>2. PICK progress, n : reported[p] = [progress |-> progress, lines |-> n] /\ n \in Nat
    BY DEF SidebarInv, EntryInv
  <2>3. reported[p].progress = progress /\ reported[p].lines = n
    BY <2>2
  <2>4. /\ reported' = [q \in Panels |-> reported'[q]]
        /\ reported'[p] = [progress |-> IF r.kind = "progress" THEN r.value ELSE progress,
                           lines |-> IF r.kind = "log" THEN n + 1 ELSE n]
        /\ \A q \in Panels : q # p => reported'[q] = reported[q]
    <3>1. PICK a, b : /\ a = (IF r.kind = "progress" THEN r.value ELSE progress)
                      /\ b = (IF r.kind = "log" THEN n + 1 ELSE n)
      OBVIOUS
    <3>2. reported' = [reported EXCEPT ![p].progress = a, ![p].lines = b]
      BY <1>3, <2>2, <3>1
    <3>3. reported = [q \in Panels |-> reported[q]]
      BY DEF SidebarInv
    <3>4. /\ reported' = [q \in Panels |-> reported'[q]]
          /\ reported'[p] = [progress |-> a, lines |-> b]
          /\ \A q \in Panels : q # p => reported'[q] = reported[q]
      BY <2>2, <3>2, <3>3, HistoryExcept
    <3> QED
      BY <3>1, <3>4
  <2>5. PICK status :
          Entry(p) = [status |-> status, progress |-> progress, log_tail |-> LastLines(n)]
    <3>1. CASE p \in DOMAIN transient
      <4>1. Entry(p) = [status |-> transient[p].status, progress |-> reported[p].progress,
                        log_tail |-> LastLines(reported[p].lines)]
        BY <3>1 DEF SidebarInv, EntryInv, Entry
      <4> QED
        BY <2>3, <4>1
    <3>2. CASE p \notin DOMAIN transient
      <4>1. progress = Unset /\ n = 0
        <5>1. reported[p] = [progress |-> Unset, lines |-> 0]
          BY <3>2 DEF SidebarInv, EntryInv, Silent
        <5> QED
          BY <2>3, <5>1
      <4>2. Entry(p) = [status |-> Unset, progress |-> Unset, log_tail |-> <<>>]
        BY <3>2 DEF Entry, NoMeta
      <4> QED
        BY <4>1, <4>2, NoLines
    <3> QED
      BY <3>1, <3>2
  <2>6. PICK now : Recorded(p, r) =
          [status |-> now, progress |-> reported'[p].progress,
           log_tail |-> LastLines(reported'[p].lines)]
    <3>1. CASE r.kind = "status"
      <4>1. Recorded(p, r) = [Entry(p) EXCEPT !.status = r.value]
        BY <3>1 DEF Recorded
      <4>2. Recorded(p, r) = [status |-> r.value, progress |-> progress, log_tail |-> LastLines(n)]
        BY <2>5, <4>1
      <4>3. reported'[p].progress = progress /\ reported'[p].lines = n
        BY <2>4, <3>1
      <4> QED
        BY <4>2, <4>3
    <3>2. CASE r.kind = "progress"
      <4>1. Recorded(p, r) = [Entry(p) EXCEPT !.progress = r.value]
        BY <3>2 DEF Recorded
      <4>2. Recorded(p, r) = [status |-> status, progress |-> r.value, log_tail |-> LastLines(n)]
        BY <2>5, <4>1
      <4>3. reported'[p].progress = r.value /\ reported'[p].lines = n
        BY <2>4, <3>2
      <4> QED
        BY <4>2, <4>3
    <3>3. CASE r.kind = "log"
      <4>1. Recorded(p, r) = Logged(Entry(p), n + 1)
        BY <2>2, <3>3 DEF Recorded
      <4>2. Entry(p).log_tail = LastLines(n)
        BY <2>5
      <4>3. Logged(Entry(p), n + 1) = [Entry(p) EXCEPT !.log_tail = LastLines(n + 1)]
        BY <2>2, <4>2, TailSlides DEF Logged
      <4>4. Recorded(p, r) = [status |-> status, progress |-> progress,
                              log_tail |-> LastLines(n + 1)]
        BY <2>5, <4>1, <4>3
      <4>5. reported'[p].progress = progress /\ reported'[p].lines = n + 1
        BY <2>4, <3>3
      <4> QED
        BY <4>4, <4>5
    <3> QED
      BY <1>3, <3>1, <3>2, <3>3
  <2>7. /\ reported'[p] = [progress |-> reported'[p].progress, lines |-> reported'[p].lines]
        /\ reported'[p].lines \in Nat
        /\ \A q \in Panels : q # p => reported'[q] = reported[q]
        /\ reported' = [q \in Panels |-> reported'[q]]
    BY <2>2, <2>4
  <2>8. EntryInv(p)'
    BY <2>1, <2>6, <2>7 DEF EntryInv
  <2>9. ASSUME NEW q \in Panels, q # p
        PROVE  EntryInv(q)'
    BY <2>1, <2>7, <2>9 DEF EntryInv, SidebarInv
  <2>10. StoreInv' /\ DOMAIN transient' \subseteq Panels
    BY <1>3, <2>1 DEF SidebarInv, StoreInv
  <2> QED
    BY <2>7, <2>8, <2>9, <2>10
<1> QED
  BY <1>1, <1>2, <1>3
\* Every step keeps the entries true.
LEMMA SidebarStep ==
  ASSUME SidebarInv, [SidebarNext]_sidebarVars
  PROVE  SidebarInv'
<1>1. ASSUME NEW w, NEW p \in Panels, Focus(w, p)
      PROVE  SidebarInv'
  <2>1. store[w] = [focused |-> store[w].focused, branches |-> store[w].branches,
                    pulls |-> store[w].pulls, ports |-> store[w].ports]
    BY <1>1 DEF Focus, SidebarInv, StoreInv
  <2>2. store' = [store EXCEPT ![w] = [store[w] EXCEPT !.focused = p]]
    BY <1>1 DEF Focus
  <2>3. [store[w] EXCEPT !.focused = p]
          = [focused |-> p, branches |-> store[w].branches, pulls |-> store[w].pulls,
             ports |-> store[w].ports]
    BY <2>1
  <2>4. /\ DOMAIN store' = DOMAIN store
        /\ store'[w] = [focused |-> p, branches |-> store[w].branches,
                        pulls |-> store[w].pulls, ports |-> store[w].ports]
        /\ \A x \in DOMAIN store : x # w => store'[x] = store[x]
        /\ store' = [x \in DOMAIN store |-> store'[x]]
    BY <1>1, <2>2, <2>3 DEF Focus, SidebarInv, StoreInv
  <2>5. StoreInv'
    BY <2>4 DEF SidebarInv, StoreInv
  <2> QED
    BY <1>1, <2>5 DEF Focus, SidebarInv, EntryInv
<1>2. ASSUME NEW w, NEW p \in Panels, NEW r \in Reports, Report(w, p, r)
      PROVE  SidebarInv'
  <2>1. r.kind \in ModelBacked \/ r.kind = "status" \/ r.kind = "progress" \/ r.kind = "log"
    BY DEF Reports, ModelBacked
  <2> QED
    BY <1>2, <2>1, ReportStep DEF Report, SidebarInv
<1>3. ASSUME NEW w, NEW p \in Panels, NEW scan \in {"ports", "git"}, NEW output,
             Capture(scan, w, p, output)
      PROVE  SidebarInv'
  <2>1. capture'.panel \in Panels /\ UNCHANGED <<store, transient, reported>>
    BY <1>3 DEF Capture
  <2> QED
    BY <2>1 DEF SidebarInv, StoreInv, EntryInv
<1>4. ASSUME NEW w, RemoveWorkspace(w)
      PROVE  SidebarInv'
  <2>1. StoreInv'
    BY <1>4 DEF RemoveWorkspace, SidebarInv, StoreInv
  <2> QED
    BY <1>4, <2>1 DEF RemoveWorkspace, SidebarInv, EntryInv
<1>5. ASSUME NEW p \in Panels, ForgetPanel(p)
      PROVE  SidebarInv'
  <2>1. /\ DOMAIN transient' = DOMAIN transient \ {p}
        /\ \A q \in DOMAIN transient' : transient'[q] = transient[q]
        /\ reported' = [q \in Panels |-> reported'[q]]
        /\ reported'[p] = [progress |-> Unset, lines |-> 0]
        /\ \A q \in Panels : q # p => reported'[q] = reported[q]
        /\ UNCHANGED <<store, capture>>
    BY <1>5 DEF ForgetPanel, SidebarInv, Silent
  <2>2. reported'[p].progress = Unset /\ reported'[p].lines = 0
    BY <2>1
  <2>3. EntryInv(p)'
    BY <2>1, <2>2 DEF EntryInv, Silent
  <2>4. ASSUME NEW q \in Panels, q # p
        PROVE  EntryInv(q)'
    BY <2>1, <2>4 DEF EntryInv, SidebarInv
  <2> QED
    BY <2>1, <2>3, <2>4 DEF SidebarInv, StoreInv
<1>6. CASE StoreScan
  <2>1. capture # NoCapture /\ capture.panel \in Panels /\ capture' = NoCapture
    BY <1>6 DEF StoreScan, SidebarInv
  <2>2. CASE \E kind \in {"ports", "git_branch"} : \E value :
               ReceiveReport(capture.workspace, capture.panel, [kind |-> kind, value |-> value])
    <3>1. PICK kind \in {"ports", "git_branch"} : \E value :
            ReceiveReport(capture.workspace, capture.panel, [kind |-> kind, value |-> value])
      BY <2>2
    <3>2. PICK value :
            ReceiveReport(capture.workspace, capture.panel, [kind |-> kind, value |-> value])
      BY <3>1
    <3>3. PICK r : r = [kind |-> kind, value |-> value]
      OBVIOUS
    <3>4. r.kind \in ModelBacked
      BY <3>3 DEF ModelBacked
    <3> QED
      BY <2>1, <3>2, <3>3, <3>4, ReportStep DEF SidebarInv
  <2>3. CASE UNCHANGED <<store, transient, reported>>
    BY <2>1, <2>3 DEF SidebarInv, StoreInv, EntryInv
  <2> QED
    BY <1>6, <2>2, <2>3 DEF StoreScan
<1>7. ASSUME NEW scan, NEW on, SetToggle(scan, on)
      PROVE  SidebarInv'
  BY <1>7 DEF SetToggle, SidebarInv, StoreInv, EntryInv
<1>8. CASE UNCHANGED sidebarVars
  BY <1>8 DEF sidebarVars, SidebarInv, StoreInv, EntryInv
<1> QED
  BY <1>1, <1>2, <1>3, <1>4, <1>5, <1>6, <1>7, <1>8 DEF SidebarNext

\* In whatever order reports, focus, scans and forgetting come, a row shows the last
\* progress of the panel in front and a panel's log its last lines, in order
\* (snapshot_enrich.rs, overlay_transient; state.rs, record_transient).
THEOREM RowsAlwaysShowTheLatest ==
  SidebarInit /\ [][SidebarNext]_sidebarVars => []RowsShowTheLatest
<1>1. SidebarInit => SidebarInv
  <2> SUFFICES ASSUME SidebarInit PROVE SidebarInv
    OBVIOUS
  <2>1. StoreInv
    BY DEF SidebarInit, StoreInv, Emptied
  <2>2. \A p \in Panels : reported[p] = [progress |-> Unset, lines |-> 0]
    BY DEF SidebarInit, Silent
  <2>3. \A p \in Panels : reported[p].progress = Unset /\ reported[p].lines = 0
    BY <2>2
  <2>4. DOMAIN transient = {} /\ \A p \in Panels : EntryInv(p)
    BY <2>2, <2>3 DEF SidebarInit, EntryInv, Silent
  <2> QED
    BY <2>1, <2>4 DEF SidebarInit, SidebarInv
<1>2. SidebarInv /\ [SidebarNext]_sidebarVars => SidebarInv'
  BY SidebarStep
<1>3. SidebarInv => RowsShowTheLatest
  <2> SUFFICES ASSUME SidebarInv PROVE RowsShowTheLatest
    OBVIOUS
  <2>1. ASSUME NEW p \in DOMAIN transient
        PROVE  /\ p \in Panels /\ transient[p].progress = reported[p].progress
               /\ transient[p].log_tail = LastLines(reported[p].lines)
    <3>1. p \in Panels /\ EntryInv(p)
      BY DEF SidebarInv
    <3>2. transient[p] = [status |-> transient[p].status, progress |-> reported[p].progress,
                          log_tail |-> LastLines(reported[p].lines)]
      BY <3>1 DEF EntryInv
    <3> QED
      BY <3>1, <3>2
  <2>2. ASSUME NEW p \in Panels, p \notin DOMAIN transient
        PROVE  reported[p].progress = Unset
    <3>1. reported[p] = [progress |-> Unset, lines |-> 0]
      BY <2>2 DEF SidebarInv, EntryInv, Silent
    <3> QED
      BY <3>1
  <2>3. ASSUME NEW w \in DOMAIN store
        PROVE  Overlay(w) = IF store[w].focused = Unset THEN Unset
                            ELSE reported[store[w].focused].progress
    <3>1. store[w].focused \in Panels \cup {Unset} /\ Unset \notin DOMAIN transient
      BY SidebarAssumption DEF SidebarInv, StoreInv
    <3> QED
      BY <2>1, <2>2, <3>1 DEF Overlay
  <2> QED
    BY <2>1, <2>3 DEF RowsShowTheLatest, LastLines
<1> QED
  BY <1>1, <1>2, <1>3, PTL

-----------------------------------------------------------------------------
(* The proxy: SocksBroker.                                                   *)

LEMMA BytesConcat ==
  ASSUME NEW s \in Bytes, NEW t \in Bytes
  PROVE  /\ s \o t \in Bytes /\ Len(s) \in Nat /\ Len(t) \in Nat
         /\ Len(s \o t) = Len(s) + Len(t)
         /\ \A i \in 1 .. Len(s) : (s \o t)[i] = s[i]
         /\ \A i \in 1 .. Len(t) : (s \o t)[Len(s) + i] = t[i]
<1>1. /\ s \o t \in Bytes /\ Len(s) \in Nat /\ Len(t) \in Nat
      /\ Len(s \o t) = Len(s) + Len(t)
      /\ \A i \in 1 .. Len(s) + Len(t) : (s \o t)[i] = IF i <= Len(s) THEN s[i] ELSE t[i - Len(s)]
  BY ConcatProperties, LenProperties DEF Bytes
<1>2. ASSUME NEW i \in 1 .. Len(t)
      PROVE  (s \o t)[Len(s) + i] = t[i]
  <2>1. Len(s) + i \in 1 .. Len(s) + Len(t) /\ ~(Len(s) + i <= Len(s)) /\ Len(s) + i - Len(s) = i
    BY <1>1
  <2> QED
    BY <1>1, <2>1
<1>3. \A i \in 1 .. Len(s) : (s \o t)[i] = s[i]
  BY <1>1
<1> QED
  BY <1>1, <1>2, <1>3

LEMMA BytesAssociate ==
  ASSUME NEW s \in Bytes, NEW t \in Bytes, NEW u \in Bytes
  PROVE  (s \o t) \o u = s \o (t \o u)
BY ConcatAssociative, SMTT(40) DEF Bytes

\* A part of a stream, byte by byte.
LEMMA BytesPart ==
  ASSUME NEW s \in Bytes, NEW m \in Nat \ {0}, NEW n \in Nat, n <= Len(s), m <= n + 1
  PROVE  /\ SubSeq(s, m, n) \in Bytes /\ Len(SubSeq(s, m, n)) = n - m + 1
         /\ \A i \in 1 .. n - m + 1 : SubSeq(s, m, n)[i] = s[m + i - 1]
<1>1. \A i \in m .. n : s[i] \in Nat
  BY ElementOfSeq, LenProperties DEF Bytes
<1>2. m \in Int /\ n \in Int
  OBVIOUS
<1>3. /\ SubSeq(s, m, n) \in Seq(Nat)
      /\ Len(SubSeq(s, m, n)) = IF m <= n THEN n - m + 1 ELSE 0
      /\ \A i \in 1 .. n - m + 1 : SubSeq(s, m, n)[i] = s[m + i - 1]
  BY <1>1, <1>2, SubSeqProperties
<1> QED
  BY <1>3 DEF Bytes

\* Two parts that agree byte by byte are equal.
LEMMA SameBytes ==
  ASSUME NEW s \in Bytes, NEW t \in Bytes, Len(s) = Len(t),
         \A i \in 1 .. Len(s) : s[i] = t[i]
  PROVE  s = t
BY SeqEqual DEF Bytes

\* Bytes found one by one at some place are that part of the stream.
LEMMA PartIs ==
  ASSUME NEW s \in Bytes, NEW h \in Bytes, NEW base \in Nat, NEW k \in Nat, Len(h) = k,
         base + k <= Len(s), \A j \in 1 .. k : s[base + j] = h[j]
  PROVE  SubSeq(s, base + 1, base + k) = h
<1>1. PICK m, n, x : m = base + 1 /\ n = base + k /\ x = SubSeq(s, m, n)
  OBVIOUS
<1>2. m \in Nat \ {0} /\ n \in Nat /\ n <= Len(s) /\ m <= n + 1 /\ n - m + 1 = k
  BY <1>1
<1>3. SubSeq(s, m, n) \in Bytes /\ Len(SubSeq(s, m, n)) = n - m + 1
      /\ \A i \in 1 .. n - m + 1 : SubSeq(s, m, n)[i] = s[m + i - 1]
  BY <1>2, BytesPart
<1>4. x \in Bytes /\ Len(x) = k /\ \A i \in 1 .. k : x[i] = s[m + i - 1]
  BY <1>1, <1>2, <1>3
<1>5. ASSUME NEW i \in 1 .. k PROVE x[i] = h[i]
  <2>1. m + i - 1 = base + i
    BY <1>1
  <2> QED
    BY <1>4, <2>1
<1>6. x = h
  BY <1>4, <1>5, SameBytes
<1> QED
  BY <1>1, <1>6

\* What is behind the first n bytes.
LEMMA BytesCut ==
  ASSUME NEW s \in Bytes, NEW n \in Nat, n <= Len(s)
  PROVE  /\ From(s, n + 1) \in Bytes /\ SubSeq(s, 1, n) \in Bytes
         /\ s = SubSeq(s, 1, n) \o From(s, n + 1)
<1>1. /\ 1 \in 1 .. Len(s) + 1 /\ n \in 1 - 1 .. Len(s) /\ Len(s) \in n .. Len(s)
  BY LenProperties DEF Bytes
<1>2. SubSeq(s, 1, n) \o SubSeq(s, n + 1, Len(s)) = SubSeq(s, 1, Len(s))
  BY <1>1, ConcatAdjacentSubSeq DEF Bytes
<1>3. SubSeq(s, 1, Len(s)) = s
  BY SubSeqFull DEF Bytes
<1>4. SubSeq(s, 1, n) \in Bytes
  BY BytesPart
<1>5. n + 1 \in Nat \ {0} /\ Len(s) \in Nat /\ n + 1 <= Len(s) + 1
  BY LenProperties DEF Bytes
<1>6. SubSeq(s, n + 1, Len(s)) \in Bytes
  BY <1>5, BytesPart
<1> QED
  BY <1>2, <1>3, <1>4, <1>6 DEF From

\* Of a stream that begins with g and goes on with r, s has arrived and u is to come.
Stream(g, r, s, u) == g \o r = s \o u

\* What has arrived of r is t, and u is to come.
Arrived(r, t, u) == t \in Bytes /\ r = t \o u

\* A stream that begins with g, of which s has arrived: the first bytes are the same.
LEMMA SameBeginning ==
  ASSUME NEW g \in Bytes, NEW r \in Bytes, NEW s \in Bytes, NEW u \in Bytes,
         Stream(g, r, s, u)
  PROVE  /\ Len(g) \in Nat /\ Len(s) \in Nat
         /\ \A i \in 1 .. Len(g) : i <= Len(s) => s[i] = g[i]
<1>1. /\ Len(g) \in Nat /\ \A i \in 1 .. Len(g) : (g \o r)[i] = g[i]
      /\ Len(s) \in Nat /\ \A i \in 1 .. Len(s) : (s \o u)[i] = s[i]
  BY BytesConcat
<1>2. g \o r = s \o u
  BY DEF Stream
<1>3. ASSUME NEW i \in 1 .. Len(g), i <= Len(s)
      PROVE  s[i] = g[i]
  <2>1. i \in 1 .. Len(s)
    BY <1>1, <1>3
  <2> QED
    BY <1>1, <1>2, <2>1
<1> QED
  BY <1>1, <1>3

\* If all of g has arrived the rest of what arrived is what follows g.
LEMMA StreamSplits ==
  ASSUME NEW g \in Bytes, NEW r \in Bytes, NEW s \in Bytes, NEW u \in Bytes,
         Stream(g, r, s, u), Len(g) <= Len(s)
  PROVE  Arrived(r, From(s, Len(g) + 1), u)
<1> DEFINE n == Len(g)
<1>1. /\ Len(g) \in Nat /\ Len(s) \in Nat
      /\ \A i \in 1 .. Len(g) : i <= Len(s) => s[i] = g[i]
  BY SameBeginning
<1>2. \A i \in 1 .. Len(g) : s[i] = g[i]
  BY <1>1
<1>3. PICK a, b : a = SubSeq(s, 1, n) /\ b = From(s, n + 1)
  OBVIOUS
<1>4. a \in Bytes /\ b \in Bytes /\ s = a \o b
  BY <1>1, <1>3, BytesCut
<1>5. a = g
  <2>1. 1 \in Nat \ {0} /\ n \in Nat /\ n <= Len(s) /\ 1 <= n + 1
    BY <1>1, <1>3
  <2>2. Len(a) = n - 1 + 1 /\ \A i \in 1 .. n - 1 + 1 : a[i] = s[1 + i - 1]
    BY <1>3, <2>1, BytesPart
  <2>3. Len(a) = Len(g) /\ \A i \in 1 .. Len(a) : a[i] = g[i]
    BY <1>1, <1>2, <1>3, <2>2
  <2> QED
    BY <1>4, <2>3, SameBytes
<1>6. g \o r = g \o (b \o u)
  <2>1. a \in Bytes /\ b \in Bytes /\ u \in Bytes
    BY <1>4
  <2>2. (a \o b) \o u = a \o (b \o u)
    BY ONLY <2>1, BytesAssociate, SMTT(40)
  <2>3. g \o r = s \o u
    BY DEF Stream
  <2>4. s \o u = g \o (b \o u)
    BY ONLY <1>4, <1>5, <2>2
  <2> QED
    BY ONLY <2>3, <2>4
<1>7. b \o u \in Bytes
  BY <1>4, BytesConcat
<1>8. r = b \o u
  BY <1>6, <1>7, ConcatSimplifications DEF Bytes
<1> QED
  BY <1>3, <1>4, <1>8 DEF Arrived

-----------------------------------------------------------------------------
(* The two phases of the exchange, however the stream is cut.                *)

\* Methods are accepted only when all of the greeting is there, and nothing behind
\* it is read.
LEMMA GreetingRead ==
  ASSUME NEW script \in Scripts, NEW r \in Bytes, NEW s \in Bytes, NEW u \in Bytes,
         Stream(script.greeting, r, s, u), NegotiateAuth(s).kind = "ok"
  PROVE  Arrived(r, NegotiateAuth(s).rest, u)
<1>1. PICK g : g = script.greeting /\ g \in Bytes /\ g # <<>>
               /\ (g[1] = Version => Len(g) >= 2 /\ Len(g) = 2 + g[2])
  BY ScriptsAssumption DEF ScriptOK
<1>2. Len(g) \in Nat /\ Len(s) \in Nat /\ \A i \in 1 .. Len(g) : i <= Len(s) => s[i] = g[i]
  BY <1>1, SameBeginning
<1>3. /\ s # <<>> /\ s[1] = Version /\ Len(s) >= 2 /\ Len(s) >= 2 + s[2]
      /\ NegotiateAuth(s).rest = From(s, 3 + s[2])
  <2>1. s # <<>> /\ s[1] = Version /\ ~(Len(s) < 2 \/ Len(s) < 2 + s[2])
    BY DEF NegotiateAuth, Waits, Fails
  <2>2. NoAuth \in Range(SubSeq(s, 3, 2 + s[2]))
    BY <2>1 DEF NegotiateAuth, Waits, Fails
  <2>3. Len(s) < 2 \/ (1 \in 1 .. Len(s) /\ 2 \in 1 .. Len(s))
    BY <1>2
  <2>4. s[2] \in Nat
    BY <2>1, <2>3, ElementOfSeq DEF Bytes
  <2> QED
    BY <1>2, <2>1, <2>2, <2>4 DEF NegotiateAuth
<1>4. Len(g) >= 1
  BY <1>1, <1>2, EmptySeq, LenProperties DEF Bytes
<1>5. s[1] = g[1] /\ Len(g) >= 2 /\ s[2] = g[2] /\ Len(g) = 2 + s[2]
  <2>1. s[1] = g[1]
    BY <1>2, <1>3, <1>4
  <2>2. Len(g) >= 2 /\ Len(g) = 2 + g[2]
    BY <1>1, <1>3, <2>1
  <2>3. s[2] = g[2]
    BY <1>2, <1>3, <2>2
  <2> QED
    BY <2>1, <2>2, <2>3
<1>6. s[2] \in Nat
  <2>1. 2 \in 1 .. Len(s)
    BY <1>2, <1>3
  <2> QED
    BY <2>1, ElementOfSeq DEF Bytes
<1>7. Len(g) <= Len(s) /\ Len(g) + 1 = 3 + s[2]
  BY <1>2, <1>3, <1>5, <1>6
<1>8. Stream(g, r, s, u)
  BY <1>1 DEF Stream
<1>9. Arrived(r, From(s, Len(g) + 1), u)
  BY <1>1, <1>7, <1>8, StreamSplits
<1> QED
  BY <1>3, <1>7, <1>9

\* Where the host of a request begins, and how many bytes it has.
HostAt(s) == IF s[4] = DomainName THEN 6 ELSE 5
HostLength(s) == IF s[4] = IPv4 THEN 4 ELSE IF s[4] = IPv6 THEN 16 ELSE s[5]

\* What a request that is read is.
LEMMA RequestIsRead ==
  ASSUME NEW s \in Bytes, ReadConnectRequest(s).kind = "ok"
  PROVE  /\ Len(s) \in Nat /\ s # <<>> /\ s[1] = Version /\ s[2] = Connect /\ Len(s) >= 4
         /\ s[4] \in {IPv4, IPv6, DomainName}
         /\ s[4] = DomainName => Len(s) >= 5
         /\ HostLength(s) \in Nat
         /\ Len(s) >= HostAt(s) + HostLength(s) + 1
         /\ LET host == SubSeq(s, HostAt(s), HostAt(s) + HostLength(s) - 1) IN
              /\ ~(s[4] = DomainName /\ (HostLength(s) = 0 \/ NotText \in Range(host)))
              /\ ReadConnectRequest(s) =
                   [kind |-> "ok", host |-> [atyp |-> s[4], bytes |-> host],
                    port |-> SubSeq(s, HostAt(s) + HostLength(s), HostAt(s) + HostLength(s) + 1),
                    rest |-> From(s, HostAt(s) + HostLength(s) + 2)]
<1>1. Len(s) \in Nat /\ \A i \in 1 .. Len(s) : s[i] \in Nat
  BY LenProperties, ElementOfSeq DEF Bytes
<1>2. /\ s # <<>> /\ s[1] = Version /\ ~(Len(s) < 2) /\ s[2] = Connect /\ ~(Len(s) < 4)
      /\ s[4] \in {IPv4, IPv6, DomainName}
      /\ s[4] = DomainName => ~(Len(s) < 5)
  BY DEF ReadConnectRequest, Waits, Fails, IPv4, IPv6, DomainName
<1>3. HostLength(s) \in Nat
  <2>1. CASE s[4] = DomainName
    <3>1. 5 \in 1 .. Len(s)
      BY <1>1, <1>2, <2>1
    <3> QED
      BY <1>1, <2>1, <3>1 DEF HostLength, DomainName, IPv4, IPv6
  <2> QED
    BY <1>2, <2>1 DEF HostLength, IPv4, IPv6
<1>4. ReadConnectRequest(s) = Target(s, s[4], HostAt(s), HostLength(s))
  BY <1>2 DEF ReadConnectRequest, HostAt, HostLength, IPv4, IPv6, DomainName
<1>5. PICK i, n, atyp : i = HostAt(s) /\ n = HostLength(s) /\ atyp = s[4]
  OBVIOUS
<1>6. Target(s, atyp, i, n).kind = "ok"
  BY <1>4, <1>5
<1>7. ~(Len(s) < i + n + 1)
  BY <1>6 DEF Target, Waits
<1>8. ~(atyp = DomainName /\ (n = 0 \/ NotText \in Range(SubSeq(s, i, i + n - 1))))
  BY <1>6, <1>7 DEF Target, Fails
<1>9. Target(s, atyp, i, n) =
        [kind |-> "ok", host |-> [atyp |-> atyp, bytes |-> SubSeq(s, i, i + n - 1)],
         port |-> SubSeq(s, i + n, i + n + 1), rest |-> From(s, i + n + 2)]
  BY <1>7, <1>8 DEF Target
<1>10. i \in Nat
  BY <1>5 DEF HostAt
<1>11. Len(s) >= i + n + 1 /\ Len(s) >= 4 /\ (s[4] = DomainName => Len(s) >= 5)
  BY <1>1, <1>2, <1>3, <1>5, <1>7, <1>10
<1> QED
  BY <1>1, <1>2, <1>3, <1>4, <1>5, <1>8, <1>9, <1>11

\* A request that is not read for what it says is refused at every place where it may
\* have been cut off, or waited for.
LEMMA RefusedIsRefused ==
  ASSUME NEW g \in Bytes, NEW s \in Bytes,
         \A i \in 1 .. Len(g) : i <= Len(s) => s[i] = g[i],
         ReadConnectRequest(g).kind \notin {"ok", "wait"}
  PROVE  ReadConnectRequest(s).kind # "ok"
<1> SUFFICES ASSUME ReadConnectRequest(s).kind = "ok" PROVE FALSE
  OBVIOUS
<1>1. /\ Len(s) \in Nat /\ s # <<>> /\ s[1] = Version /\ s[2] = Connect /\ Len(s) >= 4
      /\ s[4] \in {IPv4, IPv6, DomainName}
      /\ s[4] = DomainName => Len(s) >= 5
      /\ HostLength(s) \in Nat
      /\ Len(s) >= HostAt(s) + HostLength(s) + 1
      /\ ~(s[4] = DomainName /\
           (HostLength(s) = 0
             \/ NotText \in Range(SubSeq(s, HostAt(s), HostAt(s) + HostLength(s) - 1))))
  BY RequestIsRead
<1>2. Len(g) \in Nat
  BY LenProperties DEF Bytes
<1>3. g # <<>> /\ Len(g) >= 1
  <2>1. g # <<>>
    BY DEF ReadConnectRequest, Waits
  <2> QED
    BY <1>2, <2>1, EmptySeq, LenProperties DEF Bytes
<1>4. g[1] = Version
  BY <1>1, <1>2, <1>3
<1>5. Len(g) >= 2
  BY <1>2, <1>3, <1>4 DEF ReadConnectRequest, Waits
<1>6. g[2] = Connect
  BY <1>1, <1>2, <1>5
<1>7. Len(g) >= 4
  BY <1>2, <1>3, <1>4, <1>5, <1>6 DEF ReadConnectRequest, Waits
<1>8. g[4] = s[4]
  BY <1>1, <1>2, <1>7
<1>9. s[4] = DomainName => Len(g) >= 5
  BY <1>2, <1>3, <1>4, <1>5, <1>6, <1>7, <1>8
     DEF ReadConnectRequest, Waits, IPv4, IPv6, DomainName
<1>10. s[4] = DomainName => g[5] = s[5]
  BY <1>1, <1>2, <1>9
<1>11. HostAt(g) = HostAt(s) /\ HostLength(g) = HostLength(s)
  BY <1>1, <1>8, <1>10 DEF HostAt, HostLength, IPv4, IPv6, DomainName
<1>12. ReadConnectRequest(g) = Target(g, g[4], HostAt(g), HostLength(g))
  BY <1>1, <1>2, <1>3, <1>4, <1>5, <1>6, <1>7, <1>8, <1>9
     DEF ReadConnectRequest, HostAt, HostLength, IPv4, IPv6, DomainName
<1>13. PICK i, n, atyp : i = HostAt(s) /\ n = HostLength(s) /\ atyp = s[4]
  OBVIOUS
<1>14. Target(g, atyp, i, n).kind \notin {"ok", "wait"}
  BY <1>8, <1>11, <1>12, <1>13
<1>15. ~(Len(g) < i + n + 1)
  BY <1>14 DEF Target, Waits
<1>16. atyp = DomainName /\ (n = 0 \/ NotText \in Range(SubSeq(g, i, i + n - 1)))
  BY <1>14, <1>15 DEF Target
<1>17. SubSeq(g, i, i + n - 1) = SubSeq(s, i, i + n - 1)
  <2>1. i \in {5, 6} /\ n \in Nat /\ i + n + 1 <= Len(s)
    BY <1>1, <1>13 DEF HostAt
  <2>2. i \in Nat \ {0} /\ n \in Nat /\ i + n - 1 \in Nat /\ i <= i + n - 1 + 1
        /\ i + n - 1 <= Len(g) /\ i + n - 1 <= Len(s)
    BY <1>1, <1>2, <1>15, <2>1
  <2>3. PICK k : k = i + n - 1
    OBVIOUS
  <2>4. PICK x, y : x = SubSeq(g, i, k) /\ y = SubSeq(s, i, k)
    OBVIOUS
  <2>5. x \in Bytes /\ Len(x) = k - i + 1 /\ \A j \in 1 .. k - i + 1 : x[j] = g[i + j - 1]
    BY <2>2, <2>3, <2>4, BytesPart
  <2>6. y \in Bytes /\ Len(y) = k - i + 1 /\ \A j \in 1 .. k - i + 1 : y[j] = s[i + j - 1]
    BY <2>2, <2>3, <2>4, BytesPart
  <2>7. \A j \in 1 .. k - i + 1 : i + j - 1 \in 1 .. Len(g) /\ i + j - 1 <= Len(s)
    BY <1>1, <1>2, <2>2, <2>3
  <2>8. \A j \in 1 .. k - i + 1 : g[i + j - 1] = s[i + j - 1]
    BY <2>7
  <2>9. x = y
    BY <2>5, <2>6, <2>8, SameBytes
  <2> QED
    BY <2>3, <2>4, <2>9
<1> QED
  BY <1>1, <1>13, <1>16, <1>17

\* The bytes of a request for a target: the host h, k bytes of it, behind base others.
Laid(t, g, h, k, base) ==
  /\ base = IF t.host.atyp = DomainName THEN 5 ELSE 4
  /\ h \in Bytes /\ t.port \in Bytes /\ k \in Nat
  /\ t.host.atyp \in {IPv4, IPv6, DomainName}
  /\ k = IF t.host.atyp = IPv4 THEN 4 ELSE IF t.host.atyp = IPv6 THEN 16 ELSE k
  /\ g \in Bytes /\ Len(g) = base + k + 2
  /\ g[4] = t.host.atyp
  /\ base = 5 => g[5] = k
  /\ \A j \in 1 .. k : g[base + j] = h[j]
  /\ \A j \in 1 .. 2 : g[base + k + j] = t.port[j]

LEMMA RequestBytes ==
  ASSUME NEW t \in Targets, NEW reserved \in Nat, ProperHost(t.host), Len(t.port) = 2,
         NEW g, g = RequestFor(t, reserved), NEW h, h = t.host.bytes, NEW k, k = Len(h)
  PROVE  \E base \in {4, 5} : Laid(t, g, h, k, base)
<1>1. /\ h \in Bytes /\ t.port \in Bytes /\ k \in Nat /\ t.host.atyp \in Nat
      /\ t.host.atyp \in {IPv4, IPv6, DomainName}
      /\ t.host.atyp = IPv4 => k = 4
      /\ t.host.atyp = IPv6 => k = 16
  BY LenProperties DEF Targets, Bytes, ProperHost, IPv4, IPv6, DomainName
<1>2. PICK atyp, p : atyp = t.host.atyp /\ p = t.port
  OBVIOUS
<1>3. PICK head : head = <<Version, Connect, reserved, atyp>>
                           \o (IF atyp = DomainName THEN <<k>> ELSE <<>>)
  OBVIOUS
<1>4. PICK base : base = IF atyp = DomainName THEN 5 ELSE 4
  OBVIOUS
<1>5. base \in {4, 5} /\ base \in Nat
  BY <1>4
<1>6. head \in Bytes /\ Len(head) = base /\ head[4] = atyp /\ (base = 5 => head[5] = k)
  <2>1. PICK x : x = <<Version, Connect, reserved, atyp>>
    OBVIOUS
  <2>2. x \in Bytes /\ Len(x) = 4 /\ x[4] = atyp
    BY <1>1, <1>2, <2>1 DEF Bytes, Version, Connect
  <2>3. CASE atyp = DomainName
    <3>1. PICK y : y = <<k>>
      OBVIOUS
    <3>2. y \in Bytes /\ Len(y) = 1 /\ y[1] = k
      BY <1>1, <3>1 DEF Bytes
    <3>3. head = x \o y
      BY <1>3, <2>1, <2>3, <3>1
    <3>4. /\ x \o y \in Bytes /\ Len(x \o y) = Len(x) + Len(y)
          /\ \A i \in 1 .. Len(x) : (x \o y)[i] = x[i]
          /\ \A i \in 1 .. Len(y) : (x \o y)[Len(x) + i] = y[i]
      BY <2>2, <3>2, BytesConcat
    <3>5. (x \o y)[4] = atyp /\ (x \o y)[5] = k /\ Len(x \o y) = 5
      <4>1. 4 \in 1 .. Len(x) /\ 1 \in 1 .. Len(y) /\ Len(x) + 1 = 5 /\ Len(x) + Len(y) = 5
        BY <2>2, <3>2
      <4> QED
        BY <2>2, <3>2, <3>4, <4>1
    <3> QED
      BY <1>4, <2>3, <3>3, <3>4, <3>5
  <2>4. CASE atyp # DomainName
    <3>1. head = x
      BY <1>3, <2>1, <2>2, <2>4, ConcatEmptySeq DEF Bytes
    <3> QED
      BY <1>4, <2>2, <2>4, <3>1
  <2> QED
    BY <2>3, <2>4
<1>7. PICK mid : mid = head \o h
  OBVIOUS
<1>8. /\ mid \in Bytes /\ Len(mid) = base + k
      /\ \A i \in 1 .. base : mid[i] = head[i]
      /\ \A i \in 1 .. k : mid[base + i] = h[i]
  <2>1. /\ head \o h \in Bytes /\ Len(head \o h) = Len(head) + Len(h)
        /\ \A i \in 1 .. Len(head) : (head \o h)[i] = head[i]
        /\ \A i \in 1 .. Len(h) : (head \o h)[Len(head) + i] = h[i]
    BY <1>1, <1>6, BytesConcat
  <2> QED
    BY <1>6, <1>7, <2>1
<1>9. g = mid \o p
  BY <1>2, <1>3, <1>7 DEF RequestFor
<1>10. /\ g \in Bytes /\ Len(g) = base + k + 2
       /\ \A i \in 1 .. base + k : g[i] = mid[i]
       /\ \A i \in 1 .. 2 : g[base + k + i] = p[i]
  <2>1. p \in Bytes /\ Len(p) = 2
    BY <1>1, <1>2
  <2>2. /\ mid \o p \in Bytes /\ Len(mid \o p) = Len(mid) + Len(p)
        /\ \A i \in 1 .. Len(mid) : (mid \o p)[i] = mid[i]
        /\ \A i \in 1 .. Len(p) : (mid \o p)[Len(mid) + i] = p[i]
    BY <1>8, <2>1, BytesConcat
  <2> QED
    BY <1>8, <1>9, <2>1, <2>2
<1>11. g[4] = atyp /\ (base = 5 => g[5] = k)
  <2>1. 4 \in 1 .. base + k /\ 4 \in 1 .. base
    BY <1>1, <1>5
  <2>2. base = 5 => 5 \in 1 .. base + k /\ 5 \in 1 .. base
    BY <1>1, <1>5
  <2> QED
    BY <1>6, <1>8, <1>10, <2>1, <2>2
<1>12. ASSUME NEW j \in 1 .. k
       PROVE  g[base + j] = h[j]
  <2>1. base + j \in 1 .. base + k
    BY <1>1, <1>5
  <2> QED
    BY <1>8, <1>10, <2>1
<1>13. k = IF t.host.atyp = IPv4 THEN 4 ELSE IF t.host.atyp = IPv6 THEN 16 ELSE k
  BY <1>1
<1>14. /\ base = IF t.host.atyp = DomainName THEN 5 ELSE 4
       /\ h \in Bytes /\ t.port \in Bytes /\ k \in Nat
       /\ t.host.atyp \in {IPv4, IPv6, DomainName}
       /\ g \in Bytes /\ Len(g) = base + k + 2
       /\ g[4] = t.host.atyp
       /\ \A j \in 1 .. 2 : g[base + k + j] = t.port[j]
  BY <1>1, <1>2, <1>4, <1>10, <1>11
<1> QED
  BY <1>5, <1>11, <1>12, <1>13, <1>14 DEF Laid

\* A request that is read is one for the target that was asked for, and nothing behind
\* it is read.
LEMMA RequestRead ==
  ASSUME NEW script \in Scripts, NEW r \in Bytes, NEW s \in Bytes, NEW u \in Bytes,
         Stream(script.request, r, s, u), ReadConnectRequest(s).kind = "ok"
  PROVE  /\ [host |-> ReadConnectRequest(s).host, port |-> ReadConnectRequest(s).port]
              = script.asked
         /\ Arrived(r, ReadConnectRequest(s).rest, u)
<1>1. PICK g, t : /\ g = script.request /\ t = script.asked
                  /\ g \in Bytes /\ t \in Targets
  BY ScriptsAssumption
<1>2. Stream(g, r, s, u)
  BY <1>1
<1>3. Len(g) \in Nat /\ Len(s) \in Nat /\ \A i \in 1 .. Len(g) : i <= Len(s) => s[i] = g[i]
  BY <1>1, <1>2, SameBeginning
<1>4. ReadConnectRequest(g).kind \in {"ok", "wait"}
  BY <1>1, <1>3, RefusedIsRefused
<1>5. PICK reserved \in Nat :
        ProperHost(t.host) /\ Len(t.port) = 2 /\ g = RequestFor(t, reserved)
  <2>1. \A i \in 0 .. 255 : i \in Nat
    OBVIOUS
  <2> QED
    BY <1>1, <1>4, <2>1, ScriptsAssumption DEF ScriptOK
<1>6. PICK h, k : h = t.host.bytes /\ k = Len(h)
  OBVIOUS
<1>7. PICK base \in {4, 5} : Laid(t, g, h, k, base)
  BY <1>1, <1>5, <1>6, RequestBytes
<1>8. /\ base = IF t.host.atyp = DomainName THEN 5 ELSE 4
      /\ h \in Bytes /\ t.port \in Bytes /\ k \in Nat
      /\ t.host.atyp \in {IPv4, IPv6, DomainName}
      /\ k = IF t.host.atyp = IPv4 THEN 4 ELSE IF t.host.atyp = IPv6 THEN 16 ELSE k
      /\ g \in Bytes /\ Len(g) = base + k + 2
      /\ g[4] = t.host.atyp
      /\ base = 5 => g[5] = k
      /\ \A j \in 1 .. k : g[base + j] = h[j]
      /\ \A j \in 1 .. 2 : g[base + k + j] = t.port[j]
  BY <1>7 DEF Laid
<1>9. /\ Len(s) >= 4 /\ s[4] \in {IPv4, IPv6, DomainName}
      /\ s[4] = DomainName => Len(s) >= 5
      /\ Len(s) >= HostAt(s) + HostLength(s) + 1
      /\ ReadConnectRequest(s) =
           [kind |-> "ok",
            host |-> [atyp |-> s[4],
                      bytes |-> SubSeq(s, HostAt(s), HostAt(s) + HostLength(s) - 1)],
            port |-> SubSeq(s, HostAt(s) + HostLength(s), HostAt(s) + HostLength(s) + 1),
            rest |-> From(s, HostAt(s) + HostLength(s) + 2)]
  BY RequestIsRead
<1>10. s[4] = t.host.atyp
  <2>1. 4 \in 1 .. Len(g)
    BY <1>3, <1>8
  <2> QED
    BY <1>3, <1>8, <1>9, <2>1
<1>11. HostAt(s) = base + 1
  BY <1>8, <1>10 DEF HostAt
<1>12. HostLength(s) = k
  <2>1. CASE t.host.atyp = DomainName
    <3>1. base = 5 /\ 5 \in 1 .. Len(g) /\ 5 <= Len(s)
      BY <1>3, <1>8, <1>9, <1>10, <2>1
    <3> QED
      BY <1>3, <1>8, <1>10, <2>1, <3>1 DEF HostLength, IPv4, IPv6, DomainName
  <2>2. CASE t.host.atyp # DomainName
    BY <1>8, <1>10, <2>2 DEF HostLength, IPv4, IPv6, DomainName
  <2> QED
    BY <2>1, <2>2
<1>13. /\ Len(g) <= Len(s) /\ base \in Nat /\ HostAt(s) + HostLength(s) + 2 = Len(g) + 1
       /\ HostAt(s) + HostLength(s) - 1 = base + k
       /\ HostAt(s) + HostLength(s) = base + k + 1
       /\ HostAt(s) + HostLength(s) + 1 = base + k + 2
  BY <1>3, <1>8, <1>9, <1>11, <1>12
<1>14. \A i \in 1 .. Len(g) : s[i] = g[i]
  BY <1>3, <1>13
<1>15. SubSeq(s, base + 1, base + k) = h
  <2>1. /\ h \in Bytes /\ k \in Nat /\ base \in Nat /\ Len(h) = k /\ Len(g) = base + k + 2
        /\ \A j \in 1 .. k : g[base + j] = h[j]
    BY <1>6, <1>8
  <2>2. \A j \in 1 .. k : base + j \in 1 .. Len(g)
    BY <2>1
  <2>3. \A j \in 1 .. k : s[base + j] = h[j]
    BY <1>14, <2>1, <2>2
  <2>4. base + k <= Len(s)
    BY <1>3, <1>13, <2>1
  <2> QED
    BY <2>1, <2>3, <2>4, PartIs
<1>16. SubSeq(s, base + k + 1, base + k + 2) = t.port
  <2>1. PICK p, n : p = t.port /\ n = base + k
    OBVIOUS
  <2>2. /\ p \in Bytes /\ Len(p) = 2 /\ k \in Nat /\ base \in Nat /\ Len(g) = base + k + 2
        /\ \A j \in 1 .. 2 : g[base + k + j] = p[j]
    BY <1>5, <1>8, <2>1
  <2>3. /\ n \in Nat /\ Len(g) = n + 2 /\ 2 \in Nat
        /\ \A j \in 1 .. 2 : g[n + j] = p[j]
    BY <2>1, <2>2
  <2>4. \A j \in 1 .. 2 : n + j \in 1 .. Len(g)
    BY <2>3
  <2>5. \A j \in 1 .. 2 : s[n + j] = p[j]
    BY <1>14, <2>3, <2>4
  <2>6. n + 2 <= Len(s)
    BY <1>3, <1>13, <2>3
  <2>7. SubSeq(s, n + 1, n + 2) = p
    BY <2>2, <2>3, <2>5, <2>6, PartIs
  <2> QED
    BY <2>1, <2>7
<1>17. Arrived(r, From(s, Len(g) + 1), u)
  BY <1>1, <1>2, <1>13, StreamSplits
<1>18. t = [host |-> [atyp |-> t.host.atyp, bytes |-> h], port |-> t.port]
  BY <1>1, <1>6 DEF Targets
<1>19. ReadConnectRequest(s) =
         [kind |-> "ok", host |-> [atyp |-> t.host.atyp, bytes |-> h], port |-> t.port,
          rest |-> From(s, Len(g) + 1)]
  BY <1>9, <1>10, <1>11, <1>12, <1>13, <1>15, <1>16
<1> QED
  BY <1>1, <1>17, <1>18, <1>19
-----------------------------------------------------------------------------
(* A connection: what it answered, and where the client's bytes are.         *)

Stages == {"away", "auth", "request", "opening", "copying", "closed"}

Conns == [stage : Stages, script : [greeting : Bytes, request : Bytes, asked : Targets,
                                    payload : Bytes],
          pending : Bytes, inbox : Bytes, ended : BOOLEAN, session : Nat,
          target : Targets, wrote : Bytes, tunnelled : Bytes]

Greeted == <<Version, NoAuth>>
Answer(code) == <<Version, NoAuth, Version, code, 0, IPv4, 0>>

\* The answers each stage has given.
Answered(d) ==
  /\ d.stage \in {"away", "auth"} => d.wrote = <<>>
  /\ d.stage \in {"request", "opening"} => d.wrote = Greeted
  /\ d.stage = "copying" => d.wrote = Answer(Succeeded)
  /\ d.stage = "closed" => \/ d.wrote = <<>>
                           \/ d.wrote = <<Version, NoneAcceptable>>
                           \/ \E code \in ReplyCodes : d.wrote = Answer(code)

\* A tunnel leads where the client asked, and bytes go through a tunnel only.
Leads(d) ==
  /\ d.stage = "opening" \/ d.wrote = Answer(Succeeded) => d.target = d.script.asked
  /\ d.wrote # Answer(Succeeded) => d.tunnelled = <<>>

\* What the client sent that the stage has not read past.
Owed(d) == CASE d.stage = "auth" -> (d.script.greeting \o d.script.request) \o d.script.payload
             [] d.stage = "request" -> d.script.request \o d.script.payload
             [] OTHER -> d.script.payload

\* Of that, what is through or here, with u to come; no byte is lost while none fails.
ToCome(d, u) ==
  /\ Arrived(Owed(d), d.tunnelled \o d.inbox, u)
  /\ d.stage # "closed" /\ ~ d.ended => u = d.pending

Open(d) == d.stage \in {"auth", "request", "opening", "copying"} \/ d.wrote = Answer(Succeeded)

ConnInv(d) ==
  /\ d.stage # "away" => d.script \in Scripts
  /\ Answered(d)
  /\ Leads(d)
  /\ d.ended => d.pending = <<>>
  /\ Open(d) => \E u \in Bytes : ToCome(d, u)

SocksInv ==
  /\ conn \in [Clients -> Conns] /\ opener \in Nat
  /\ \A c \in Clients : ConnInv(conn[c])

LEMMA Constants ==
  /\ <<>> \in Bytes /\ Greeted \in Bytes /\ <<Version, NoneAcceptable>> \in Bytes
  /\ \A code \in ReplyCodes : /\ Reply(code) \in Bytes /\ Answer(code) \in Bytes
                              /\ Greeted \o Reply(code) = Answer(code)
                              /\ Answer(code) # <<>> /\ Answer(code) # Greeted
                              /\ Answer(code) # <<Version, NoneAcceptable>>
                              /\ code # Succeeded => Answer(code) # Answer(Succeeded)
  /\ Away \in Conns /\ Succeeded \in ReplyCodes
<1>1. /\ <<>> \in Bytes /\ Greeted \in Bytes /\ <<Version, NoneAcceptable>> \in Bytes
  BY DEF Bytes, Greeted, Version, NoAuth, NoneAcceptable
<1>2. ASSUME NEW code \in ReplyCodes
      PROVE  /\ Reply(code) \in Bytes /\ Answer(code) \in Bytes
             /\ Greeted \o Reply(code) = Answer(code)
             /\ Answer(code) # <<>> /\ Answer(code) # Greeted
             /\ Answer(code) # <<Version, NoneAcceptable>>
             /\ code # Succeeded => Answer(code) # Answer(Succeeded)
  <2>1. code \in Nat
    BY DEF ReplyCodes, Succeeded, GeneralFailure, ConnectionRefused, CommandNotSupported,
           AddressTypeNotSupported
  <2>2. Reply(code) \in Bytes /\ Answer(code) \in Bytes
    BY <2>1 DEF Bytes, Reply, Answer, Version, NoAuth, IPv4
  <2>3. Greeted \o Reply(code) = Answer(code)
    <3>1. PICK x, y, z : x = Greeted /\ y = Reply(code) /\ z = Answer(code)
      OBVIOUS
    <3>2. /\ x \in Bytes /\ y \in Bytes /\ z \in Bytes
          /\ Len(x) = 2 /\ Len(y) = 5 /\ Len(z) = 7
          /\ \A i \in 1 .. 2 : x[i] = z[i]
          /\ \A i \in 1 .. 5 : y[i] = z[2 + i]
      BY <1>1, <2>1, <2>2, <3>1 DEF Greeted, Reply, Answer, Version, NoAuth, IPv4
    <3>3. /\ x \o y \in Bytes /\ Len(x \o y) = Len(x) + Len(y)
          /\ \A i \in 1 .. Len(x) : (x \o y)[i] = x[i]
          /\ \A i \in 1 .. Len(y) : (x \o y)[Len(x) + i] = y[i]
      BY <3>2, BytesConcat
    <3>4. PICK v : v = x \o y
      OBVIOUS
    <3>5. /\ v \in Bytes /\ Len(v) = 7
          /\ \A i \in 1 .. 2 : v[i] = z[i]
          /\ \A i \in 1 .. 5 : v[2 + i] = z[2 + i]
      BY <3>2, <3>3, <3>4
    <3>6. \A i \in 1 .. 7 : i \in 1 .. 2 \/ (i - 2 \in 1 .. 5 /\ 2 + (i - 2) = i)
      OBVIOUS
    <3>7. \A i \in 1 .. 7 : v[i] = z[i]
      BY <3>5, <3>6
    <3>8. v = z
      BY <3>2, <3>5, <3>7, SameBytes, SMTT(30)
    <3> QED
      BY <3>1, <3>4, <3>8
  <2>4. /\ Answer(code) # <<>> /\ Answer(code) # Greeted
        /\ Answer(code) # <<Version, NoneAcceptable>>
    BY DEF Answer, Greeted
  <2>5. code # Succeeded => Answer(code) # Answer(Succeeded)
    BY DEF Answer
  <2> QED
    BY <2>2, <2>3, <2>4, <2>5
<1>3. NoTarget \in Targets
  BY <1>1 DEF NoTarget, Targets
<1>4. NoScript \in [greeting : Bytes, request : Bytes, asked : Targets, payload : Bytes]
  BY <1>1, <1>3 DEF NoScript
<1>5. Away \in Conns
  BY <1>1, <1>3, <1>4 DEF Away, Conns, Stages
<1> QED
  BY <1>1, <1>2, <1>5 DEF ReplyCodes

\* Bytes that arrive, are copied or are read past are neither lost nor reordered.
LEMMA ArriveKeeps ==
  ASSUME NEW d \in Conns, ConnInv(d), d.stage \notin {"away", "closed"},
         NEW n \in 1 .. Len(d.pending), NEW e,
         e = [d EXCEPT !.inbox = d.inbox \o SubSeq(d.pending, 1, n),
                       !.pending = From(d.pending, n + 1)]
  PROVE  e \in Conns /\ ConnInv(e)
<1>1. /\ d.pending \in Bytes /\ d.inbox \in Bytes /\ d.tunnelled \in Bytes
      /\ Len(d.pending) \in Nat
  BY LenProperties DEF Conns, Bytes
<1>2. PICK a, b : a = SubSeq(d.pending, 1, n) /\ b = From(d.pending, n + 1)
  OBVIOUS
<1>3. a \in Bytes /\ b \in Bytes /\ d.pending = a \o b
  <2>1. n \in Nat /\ n <= Len(d.pending)
    BY <1>1
  <2>2. /\ From(d.pending, n + 1) \in Bytes /\ SubSeq(d.pending, 1, n) \in Bytes
        /\ d.pending = SubSeq(d.pending, 1, n) \o From(d.pending, n + 1)
    BY <1>1, <2>1, BytesCut
  <2> QED
    BY <1>2, <2>2
<1>4. d.inbox \o a \in Bytes
  BY <1>1, <1>3, BytesConcat
<1>5. e = [d EXCEPT !.inbox = d.inbox \o a, !.pending = b]
  BY <1>2
<1>6. e \in Conns
  BY <1>3, <1>4, <1>5 DEF Conns
<1>7. /\ e.inbox = d.inbox \o a /\ e.pending = b /\ e.stage = d.stage /\ e.script = d.script
      /\ e.ended = d.ended /\ e.target = d.target /\ e.wrote = d.wrote
      /\ e.tunnelled = d.tunnelled
  BY <1>5 DEF Conns
<1>8. ~ d.ended
  BY <1>1 DEF ConnInv
<1>9. PICK u \in Bytes : ToCome(d, u)
  BY DEF ConnInv, Open, Conns, Stages
<1>10. u = a \o b
  BY <1>3, <1>8, <1>9 DEF ToCome
<1>11. PICK t : t = d.tunnelled \o d.inbox
  OBVIOUS
<1>12. t \in Bytes /\ Owed(d) = t \o u
  BY <1>9, <1>11 DEF ToCome, Arrived
<1>13. Owed(d) = (t \o a) \o b /\ t \o a \in Bytes
  <2>1. (t \o a) \o b = t \o (a \o b)
    BY <1>3, <1>12, BytesAssociate
  <2>2. t \o a \in Bytes
    BY <1>3, <1>12, BytesConcat
  <2> QED
    BY <1>10, <1>12, <2>1, <2>2
<1>14. e.tunnelled \o e.inbox = t \o a
  <2>1. (d.tunnelled \o d.inbox) \o a = d.tunnelled \o (d.inbox \o a)
    BY <1>1, <1>3, BytesAssociate
  <2> QED
    BY <1>7, <1>11, <2>1
<1>15. Owed(e) = Owed(d)
  BY <1>7 DEF Owed
<1>16. ToCome(e, b)
  BY <1>7, <1>13, <1>14, <1>15 DEF ToCome, Arrived
<1>17. Answered(e) /\ Leads(e)
  BY <1>7 DEF ConnInv, Answered, Leads
<1> QED
  BY <1>3, <1>6, <1>7, <1>8, <1>16, <1>17 DEF ConnInv

LEMMA EndKeeps ==
  ASSUME NEW d \in Conns, ConnInv(d), d.stage \notin {"away", "closed"}, NEW e,
         e = [d EXCEPT !.ended = TRUE, !.pending = <<>>]
  PROVE  e \in Conns /\ ConnInv(e)
<1>1. <<>> \in Bytes
  BY Constants
<1>2. e \in Conns
  BY <1>1 DEF Conns
<1>3. /\ e.inbox = d.inbox /\ e.pending = <<>> /\ e.stage = d.stage /\ e.script = d.script
      /\ e.ended = TRUE /\ e.target = d.target /\ e.wrote = d.wrote
      /\ e.tunnelled = d.tunnelled
  BY DEF Conns
<1>4. PICK u \in Bytes : ToCome(d, u)
  BY DEF ConnInv, Open, Conns, Stages
<1>5. Owed(e) = Owed(d)
  BY <1>3 DEF Owed
<1>6. ToCome(e, u)
  BY <1>3, <1>4, <1>5 DEF ToCome
<1>7. Answered(e) /\ Leads(e)
  BY <1>3 DEF ConnInv, Answered, Leads
<1> QED
  BY <1>2, <1>3, <1>6, <1>7 DEF ConnInv

LEMMA CopyKeeps ==
  ASSUME NEW d \in Conns, ConnInv(d), d.stage = "copying", NEW e,
         e = [d EXCEPT !.tunnelled = d.tunnelled \o d.inbox, !.inbox = <<>>]
  PROVE  e \in Conns /\ ConnInv(e)
<1>1. d.inbox \in Bytes /\ d.tunnelled \in Bytes /\ <<>> \in Bytes
  BY Constants DEF Conns
<1>2. PICK t : t = d.tunnelled \o d.inbox
  OBVIOUS
<1>3. t \in Bytes /\ t \o <<>> = t
  <2>1. t \in Bytes
    BY <1>1, <1>2, BytesConcat
  <2> QED
    BY <2>1, ConcatEmptySeq DEF Bytes
<1>4. e = [d EXCEPT !.tunnelled = t, !.inbox = <<>>]
  BY <1>2
<1>5. e \in Conns
  BY <1>1, <1>3, <1>4 DEF Conns
<1>6. /\ e.inbox = <<>> /\ e.pending = d.pending /\ e.stage = "copying"
      /\ e.script = d.script /\ e.ended = d.ended /\ e.target = d.target
      /\ e.wrote = d.wrote /\ e.tunnelled = t
  BY <1>4 DEF Conns
<1>7. PICK u \in Bytes : ToCome(d, u)
  BY DEF ConnInv, Open
<1>8. Owed(e) = Owed(d)
  BY <1>6 DEF Owed
<1>9. ToCome(e, u)
  BY <1>2, <1>3, <1>6, <1>7, <1>8 DEF ToCome
<1>10. Answered(e) /\ Leads(e)
  BY <1>6 DEF ConnInv, Answered, Leads
<1> QED
  BY <1>5, <1>6, <1>9, <1>10 DEF ConnInv

LEMMA AcceptKeeps ==
  ASSUME NEW script \in Scripts, NEW session \in Nat, NEW e,
         e = [Away EXCEPT !.stage = "auth", !.script = script, !.session = session,
                !.pending = script.greeting \o script.request \o script.payload]
  PROVE  e \in Conns /\ ConnInv(e)
<1>1. /\ script \in [greeting : Bytes, request : Bytes, asked : Targets, payload : Bytes]
      /\ Away \in Conns /\ <<>> \in Bytes
  BY ScriptsAssumption, Constants
<1>2. PICK a : a = script.greeting \o script.request \o script.payload
  OBVIOUS
<1>3. a \in Bytes
  <2>1. script.greeting \o script.request \in Bytes
    BY <1>1, BytesConcat
  <2> QED
    BY <1>1, <1>2, <2>1, BytesConcat
<1>4. e = [Away EXCEPT !.stage = "auth", !.script = script, !.session = session, !.pending = a]
  BY <1>2
<1>5. e \in Conns
  BY <1>1, <1>3, <1>4 DEF Conns, Stages
<1>6. /\ e.inbox = <<>> /\ e.pending = a /\ e.stage = "auth" /\ e.script = script
      /\ e.ended = FALSE /\ e.wrote = <<>> /\ e.tunnelled = <<>>
  BY <1>4 DEF Away
<1>7. <<>> \o <<>> = <<>> /\ <<>> \o a = a
  BY <1>1, <1>3, ConcatEmptySeq DEF Bytes
<1>8. Owed(e) = a
  BY <1>2, <1>6 DEF Owed
<1>9. ToCome(e, a)
  BY <1>1, <1>6, <1>7, <1>8 DEF ToCome, Arrived
<1>10. <<>> # Answer(Succeeded)
  BY Constants
<1>11. Answered(e) /\ Leads(e)
  BY <1>6, <1>10 DEF Answered, Leads
<1> QED
  BY <1>3, <1>5, <1>6, <1>9, <1>11 DEF ConnInv

LEMMA NegotiateKeeps ==
  ASSUME NEW d \in Conns, ConnInv(d), d.stage = "auth",
         NegotiateAuth(d.inbox).kind = "ok", NEW rest, rest = NegotiateAuth(d.inbox).rest,
         NEW e, e = [d EXCEPT !.stage = "request", !.inbox = rest, !.wrote = Greeted]
  PROVE  rest \in Bytes /\ e \in Conns /\ ConnInv(e)
<1>1. /\ d.inbox \in Bytes /\ d.tunnelled = <<>> /\ d.wrote = <<>> /\ d.script \in Scripts
      /\ Greeted \in Bytes /\ Greeted # Answer(Succeeded) /\ <<>> \o d.inbox = d.inbox
  <2>1. d.inbox \in Bytes /\ d.wrote = <<>> /\ d.script \in Scripts
    BY DEF ConnInv, Answered, Conns
  <2>2. d.tunnelled = <<>>
    BY <2>1, Constants DEF ConnInv, Leads
  <2>3. <<>> \o d.inbox = d.inbox
    BY <2>1, ConcatEmptySeq DEF Bytes
  <2> QED
    BY <2>1, <2>2, <2>3, Constants
<1>2. PICK g, q, p : g = d.script.greeting /\ q = d.script.request /\ p = d.script.payload
  OBVIOUS
<1>3. g \in Bytes /\ q \in Bytes /\ p \in Bytes /\ q \o p \in Bytes
  <2>1. g \in Bytes /\ q \in Bytes /\ p \in Bytes
    BY <1>1, <1>2, ScriptsAssumption
  <2> QED
    BY <2>1, BytesConcat
<1>4. PICK u \in Bytes : ToCome(d, u)
  BY DEF ConnInv, Open
<1>5. Stream(d.script.greeting, q \o p, d.inbox, u)
  <2>1. Owed(d) = (g \o q) \o p
    BY <1>2 DEF Owed
  <2>2. (g \o q) \o p = g \o (q \o p)
    BY <1>3, BytesAssociate, ZenonT(30)
  <2>3. Owed(d) = d.inbox \o u
    BY <1>1, <1>4 DEF ToCome, Arrived
  <2> QED
    BY <1>2, <2>1, <2>2, <2>3 DEF Stream
<1>6. Arrived(q \o p, rest, u)
  BY <1>1, <1>3, <1>5, GreetingRead
<1>7. rest \in Bytes
  BY <1>6 DEF Arrived
<1>8. e \in Conns
  BY <1>1, <1>7 DEF Conns, Stages
<1>9. /\ e.inbox = rest /\ e.pending = d.pending /\ e.stage = "request"
      /\ e.script = d.script /\ e.ended = d.ended /\ e.target = d.target
      /\ e.wrote = Greeted /\ e.tunnelled = <<>>
  BY <1>1 DEF Conns
<1>10. Owed(e) = q \o p
  BY <1>2, <1>9 DEF Owed
<1>11. <<>> \o rest = rest
  BY <1>7, ConcatEmptySeq DEF Bytes
<1>12. ToCome(e, u)
  BY <1>4, <1>6, <1>9, <1>10, <1>11 DEF ToCome
<1>13. Answered(e) /\ Leads(e)
  BY <1>1, <1>9 DEF Answered, Leads
<1>14. d.ended => d.pending = <<>>
  BY DEF ConnInv
<1> QED
  BY <1>1, <1>7, <1>8, <1>9, <1>12, <1>13, <1>14 DEF ConnInv

LEMMA RequestKeeps ==
  ASSUME NEW d \in Conns, ConnInv(d), d.stage = "request",
         ReadConnectRequest(d.inbox).kind = "ok",
         NEW rest, rest = ReadConnectRequest(d.inbox).rest,
         NEW target, target = [host |-> ReadConnectRequest(d.inbox).host,
                               port |-> ReadConnectRequest(d.inbox).port],
         NEW e, e = [d EXCEPT !.stage = "opening", !.inbox = rest, !.target = target]
  PROVE  e \in Conns /\ ConnInv(e)
<1>1. /\ d.inbox \in Bytes /\ d.tunnelled = <<>> /\ d.wrote = Greeted /\ d.script \in Scripts
      /\ Greeted # Answer(Succeeded) /\ <<>> \o d.inbox = d.inbox
  <2>1. d.inbox \in Bytes /\ d.wrote = Greeted /\ d.script \in Scripts
    BY DEF ConnInv, Answered, Conns
  <2>2. d.tunnelled = <<>>
    BY <2>1, Constants DEF ConnInv, Leads
  <2>3. <<>> \o d.inbox = d.inbox
    BY <2>1, ConcatEmptySeq DEF Bytes
  <2> QED
    BY <2>1, <2>2, <2>3, Constants
<1>2. PICK q, p : q = d.script.request /\ p = d.script.payload
  OBVIOUS
<1>3. q \in Bytes /\ p \in Bytes /\ d.script.asked \in Targets
  BY <1>1, <1>2, ScriptsAssumption
<1>4. PICK u \in Bytes : ToCome(d, u)
  BY DEF ConnInv, Open
<1>5. Stream(d.script.request, p, d.inbox, u)
  BY <1>1, <1>2, <1>4 DEF ToCome, Arrived, Owed, Stream
<1>6. target = d.script.asked /\ Arrived(p, rest, u)
  BY <1>1, <1>3, <1>5, RequestRead
<1>7. rest \in Bytes
  BY <1>6 DEF Arrived
<1>8. e \in Conns
  BY <1>3, <1>6, <1>7 DEF Conns, Stages
<1>9. /\ e.inbox = rest /\ e.pending = d.pending /\ e.stage = "opening"
      /\ e.script = d.script /\ e.ended = d.ended /\ e.target = d.script.asked
      /\ e.wrote = Greeted /\ e.tunnelled = <<>>
  BY <1>1, <1>6 DEF Conns
<1>10. Owed(e) = p
  BY <1>2, <1>9 DEF Owed
<1>11. <<>> \o rest = rest
  BY <1>7, ConcatEmptySeq DEF Bytes
<1>12. ToCome(e, u)
  BY <1>4, <1>6, <1>9, <1>10, <1>11 DEF ToCome
<1>13. Answered(e) /\ Leads(e)
  BY <1>1, <1>9 DEF Answered, Leads
<1>14. d.ended => d.pending = <<>>
  BY DEF ConnInv
<1> QED
  BY <1>1, <1>8, <1>9, <1>12, <1>13, <1>14 DEF ConnInv

\* A connection that is refused is closed with the answer it has or gets, and nothing
\* went through it.
LEMMA RefusalKeeps ==
  ASSUME NEW d \in Conns, ConnInv(d), d.stage \in {"auth", "request", "opening"},
         NEW w \in Bytes,
         \/ w = <<>>
         \/ w = <<Version, NoneAcceptable>>
         \/ \E code \in ReplyCodes \ {Succeeded} : w = Answer(code),
         NEW e, e = [d EXCEPT !.stage = "closed", !.inbox = <<>>, !.wrote = w]
  PROVE  e \in Conns /\ ConnInv(e)
<1>1. w # Answer(Succeeded) /\ d.wrote # Answer(Succeeded) /\ <<>> \in Bytes
  BY Constants DEF ConnInv, Answered
<1>2. e \in Conns
  BY <1>1 DEF Conns, Stages
<1>3. /\ e.pending = d.pending /\ e.stage = "closed" /\ e.script = d.script
      /\ e.ended = d.ended /\ e.wrote = w /\ e.tunnelled = d.tunnelled
  BY DEF Conns
<1>4. Answered(e)
  BY <1>3 DEF Answered
<1>5. Leads(e) /\ ~ Open(e)
  BY <1>1, <1>3 DEF ConnInv, Leads, Open
<1> QED
  BY <1>2, <1>3, <1>4, <1>5 DEF ConnInv

LEMMA OpenKeeps ==
  ASSUME NEW d \in Conns, ConnInv(d), d.stage = "opening",
         NEW e, e = [d EXCEPT !.stage = "copying", !.wrote = Answer(Succeeded)]
  PROVE  e \in Conns /\ ConnInv(e)
<1>1. Answer(Succeeded) \in Bytes
  BY Constants
<1>2. e \in Conns
  BY <1>1 DEF Conns, Stages
<1>3. /\ e.inbox = d.inbox /\ e.pending = d.pending /\ e.stage = "copying"
      /\ e.script = d.script /\ e.ended = d.ended /\ e.target = d.target
      /\ e.wrote = Answer(Succeeded) /\ e.tunnelled = d.tunnelled
  BY DEF Conns
<1>4. PICK u \in Bytes : ToCome(d, u)
  BY DEF ConnInv, Open
<1>5. Owed(e) = Owed(d)
  BY <1>3 DEF Owed
<1>6. ToCome(e, u)
  BY <1>3, <1>4, <1>5 DEF ToCome
<1>7. Answered(e) /\ Leads(e)
  BY <1>3 DEF ConnInv, Answered, Leads
<1> QED
  BY <1>2, <1>3, <1>6, <1>7 DEF ConnInv

LEMMA CopyEndKeeps ==
  ASSUME NEW d \in Conns, ConnInv(d), d.stage = "copying",
         NEW e, e = [d EXCEPT !.stage = "closed", !.inbox = <<>>]
  PROVE  e \in Conns /\ ConnInv(e)
<1>1. /\ d.inbox \in Bytes /\ d.tunnelled \in Bytes /\ <<>> \in Bytes
      /\ d.wrote = Answer(Succeeded) /\ Succeeded \in ReplyCodes
  BY Constants DEF Conns, ConnInv, Answered
<1>2. e \in Conns
  BY <1>1 DEF Conns, Stages
<1>3. /\ e.inbox = <<>> /\ e.pending = d.pending /\ e.stage = "closed"
      /\ e.script = d.script /\ e.ended = d.ended /\ e.target = d.target
      /\ e.wrote = Answer(Succeeded) /\ e.tunnelled = d.tunnelled
  BY <1>1 DEF Conns
<1>4. PICK u \in Bytes : ToCome(d, u)
  BY DEF ConnInv, Open
<1>5. PICK v : v = d.inbox \o u
  OBVIOUS
<1>6. v \in Bytes
  BY <1>1, <1>5, BytesConcat
<1>7. Owed(d) = d.tunnelled \o v
  <2>1. (d.tunnelled \o d.inbox) \o u = d.tunnelled \o (d.inbox \o u)
    BY <1>1, BytesAssociate
  <2> QED
    BY <1>4, <1>5, <2>1 DEF ToCome, Arrived
<1>8. d.tunnelled \o <<>> = d.tunnelled
  BY <1>1, ConcatEmptySeq DEF Bytes
<1>9. Owed(e) = Owed(d)
  BY <1>3 DEF Owed
<1>10. ToCome(e, v)
  BY <1>1, <1>3, <1>7, <1>8, <1>9 DEF ToCome, Arrived
<1>11. Answered(e) /\ Leads(e)
  BY <1>1, <1>3 DEF ConnInv, Answered, Leads
<1> QED
  BY <1>2, <1>3, <1>6, <1>10, <1>11 DEF ConnInv

\* One connection is as the invariant says and the others are as they were.
OnlyChanges(c, e) ==
  /\ conn' = [conn EXCEPT ![c] = e]
  /\ opener' = opener

LEMMA OneConnection ==
  ASSUME SocksInv, NEW c \in Clients, NEW e \in Conns, ConnInv(e), OnlyChanges(c, e)
  PROVE  SocksInv'
<1>1. /\ conn' \in [Clients -> Conns] /\ opener' \in Nat
      /\ conn'[c] = e /\ \A o \in Clients : o # c => conn'[o] = conn[o]
  BY DEF SocksInv, OnlyChanges
<1>2. ASSUME NEW o \in Clients
      PROVE  ConnInv(conn'[o])
  <2>1. CASE o = c
    BY <1>1, <2>1
  <2>2. CASE o # c
    <3>1. ConnInv(conn[o]) /\ conn'[o] = conn[o]
      BY <1>1, <2>2 DEF SocksInv
    <3> QED
      BY <3>1
  <2> QED
    BY <2>1, <2>2
<1> QED
  BY <1>1, <1>2 DEF SocksInv

\* What a step of the connection's task that moves it does to its record.
LEMMA MovesIs ==
  ASSUME SocksInv, NEW c \in Clients, NEW stage, NEW rest, NEW bytes,
         Moves(c, stage, rest, bytes), NEW w, w = conn[c].wrote \o bytes
  PROVE  OnlyChanges(c, [conn[c] EXCEPT !.stage = stage, !.inbox = rest, !.wrote = w])
BY DEF SocksInv, Moves, OnlyChanges

\* What an answer to the request adds to the greeting's.
LEMMA AnswerIs ==
  ASSUME SocksInv, NEW c \in Clients, conn[c].stage \in {"request", "opening"},
         NEW code \in ReplyCodes
  PROVE  conn[c].wrote \o Reply(code) = Answer(code)
<1>1. conn[c].wrote = Greeted
  BY DEF SocksInv, ConnInv, Answered
<1> QED
  BY <1>1, Constants

LEMMA ServeStep ==
  ASSUME SocksInv, NEW c \in Clients, Serve(c)
  PROVE  SocksInv'
<1>1. PICK d : d = conn[c]
  OBVIOUS
<1>2. d \in Conns /\ ConnInv(d) /\ d.inbox \in Bytes /\ d.wrote \in Bytes
  BY <1>1 DEF SocksInv, Conns
<1>3. d.wrote \o <<>> = d.wrote /\ <<>> \o d.wrote = d.wrote
  BY <1>2, ConcatEmptySeq DEF Bytes
<1>4. CASE Negotiate(c)
  <2>1. d.stage = "auth" /\ d.wrote = <<>>
    BY <1>1, <1>2, <1>4 DEF Negotiate, ConnInv, Answered
  <2>2. ASSUME NEW bytes \in Bytes PROVE d.wrote \o bytes = bytes
    BY <2>1, <2>2, ConcatEmptySeq DEF Bytes
  <2>3. PICK read : read = Read(NegotiateAuth(d.inbox), c)
    OBVIOUS
  <2>4. CASE read.kind = "ok" /\ Moves(c, "request", read.rest, <<Version, NoAuth>>)
    <3>1. NegotiateAuth(d.inbox).kind = "ok" /\ read.rest = NegotiateAuth(d.inbox).rest
      BY <2>3, <2>4 DEF Read, Fails
    <3>2. d.wrote \o Greeted = Greeted
      BY <2>2, Constants
    <3>3. PICK rest, e : /\ rest = read.rest
                         /\ e = [d EXCEPT !.stage = "request", !.inbox = rest, !.wrote = Greeted]
      OBVIOUS
    <3>4. OnlyChanges(c, e)
      BY <1>1, <2>4, <3>2, <3>3, MovesIs DEF Greeted
    <3>5. e \in Conns /\ ConnInv(e)
      BY <1>2, <2>1, <3>1, <3>3, NegotiateKeeps
    <3> QED
      BY <3>4, <3>5, OneConnection
  <2>5. CASE \E w \in {<<>>, <<Version, NoneAcceptable>>} : Moves(c, "closed", <<>>, w)
    <3>1. PICK w \in {<<>>, <<Version, NoneAcceptable>>} : Moves(c, "closed", <<>>, w)
      BY <2>5
    <3>2. w \in Bytes /\ d.wrote \o w = w
      BY <2>2, <3>1, Constants
    <3>3. PICK e : e = [d EXCEPT !.stage = "closed", !.inbox = <<>>, !.wrote = w]
      OBVIOUS
    <3>4. OnlyChanges(c, e)
      BY <1>1, <3>1, <3>2, <3>3, MovesIs
    <3>5. e \in Conns /\ ConnInv(e)
      BY <1>2, <2>1, <3>1, <3>2, <3>3, RefusalKeeps
    <3> QED
      BY <3>4, <3>5, OneConnection
  <2> QED
    BY <1>1, <1>4, <2>3, <2>4, <2>5 DEF Negotiate
<1>5. CASE Request(c)
  <2>1. d.stage = "request"
    BY <1>1, <1>5 DEF Request
  <2>2. PICK read : read = Read(ReadConnectRequest(d.inbox), c)
    OBVIOUS
  <2>3. CASE /\ read.kind = "ok"
             /\ conn' = [conn EXCEPT ![c].stage = "opening", ![c].inbox = read.rest,
                           ![c].target = [host |-> read.host, port |-> read.port]]
             /\ UNCHANGED <<broker, opener, dropped>>
    <3>1. ReadConnectRequest(d.inbox).kind = "ok" /\ read = ReadConnectRequest(d.inbox)
      BY <2>2, <2>3 DEF Read, Fails
    <3>2. PICK rest, target, e :
            /\ rest = read.rest /\ target = [host |-> read.host, port |-> read.port]
            /\ e = [d EXCEPT !.stage = "opening", !.inbox = rest, !.target = target]
      OBVIOUS
    <3>3. OnlyChanges(c, e)
      BY <1>1, <2>3, <3>2 DEF OnlyChanges, SocksInv
    <3>4. e \in Conns /\ ConnInv(e)
      BY <1>2, <2>1, <3>1, <3>2, RequestKeeps
    <3> QED
      BY <3>3, <3>4, OneConnection
  <2>4. CASE Moves(c, "closed", <<>>, Reply(ReplyCodeFor(read.kind)))
    <3>1. PICK code \in ReplyCodes \ {Succeeded} : code = ReplyCodeFor(read.kind)
      BY DEF ReplyCodeFor, ReplyCodes, Succeeded, GeneralFailure, CommandNotSupported,
             AddressTypeNotSupported
    <3>2. PICK w : w = Answer(code)
      OBVIOUS
    <3>3. w \in Bytes /\ d.wrote \o Reply(code) = w
      BY <1>1, <2>1, <3>1, <3>2, AnswerIs, Constants
    <3>4. PICK e : e = [d EXCEPT !.stage = "closed", !.inbox = <<>>, !.wrote = w]
      OBVIOUS
    <3>5. OnlyChanges(c, e)
      BY <1>1, <2>4, <3>1, <3>3, <3>4, MovesIs
    <3>6. e \in Conns /\ ConnInv(e)
      BY <1>2, <2>1, <3>1, <3>2, <3>3, <3>4, RefusalKeeps
    <3> QED
      BY <3>5, <3>6, OneConnection
  <2> QED
    BY <1>1, <1>5, <2>2, <2>3, <2>4 DEF Request
<1>6. CASE OpenTunnel(c)
  <2>1. d.stage = "opening"
    BY <1>1, <1>6 DEF OpenTunnel
  <2>2. CASE Moves(c, "copying", conn[c].inbox, Reply(Succeeded))
    <3>1. d.wrote \o Reply(Succeeded) = Answer(Succeeded)
      BY <1>1, <2>1, AnswerIs, Constants
    <3>2. PICK e : e = [d EXCEPT !.stage = "copying", !.wrote = Answer(Succeeded)]
      OBVIOUS
    <3>3. e = [d EXCEPT !.stage = "copying", !.inbox = d.inbox, !.wrote = Answer(Succeeded)]
      BY <1>2, <3>2 DEF Conns
    <3>4. OnlyChanges(c, e)
      BY <1>1, <2>2, <3>1, <3>3, MovesIs
    <3>5. e \in Conns /\ ConnInv(e)
      BY <1>2, <2>1, <3>2, OpenKeeps
    <3> QED
      BY <3>4, <3>5, OneConnection
  <2>3. CASE Moves(c, "closed", <<>>, Reply(ConnectionRefused))
    <3>1. ConnectionRefused \in ReplyCodes \ {Succeeded}
      BY DEF ReplyCodes, ConnectionRefused, Succeeded
    <3>2. PICK w : w = Answer(ConnectionRefused)
      OBVIOUS
    <3>3. w \in Bytes /\ d.wrote \o Reply(ConnectionRefused) = w
      BY <1>1, <2>1, <3>1, <3>2, AnswerIs, Constants
    <3>4. PICK e : e = [d EXCEPT !.stage = "closed", !.inbox = <<>>, !.wrote = w]
      OBVIOUS
    <3>5. OnlyChanges(c, e)
      BY <1>1, <2>3, <3>3, <3>4, MovesIs
    <3>6. e \in Conns /\ ConnInv(e)
      BY <1>2, <2>1, <3>1, <3>2, <3>3, <3>4, RefusalKeeps
    <3> QED
      BY <3>5, <3>6, OneConnection
  <2> QED
    BY <1>6, <2>2, <2>3 DEF OpenTunnel
<1>7. CASE Copy(c)
  <2>1. PICK e : e = [d EXCEPT !.tunnelled = d.tunnelled \o d.inbox, !.inbox = <<>>]
    OBVIOUS
  <2>2. OnlyChanges(c, e)
    BY <1>1, <1>7, <2>1 DEF Copy, OnlyChanges, SocksInv
  <2>3. e \in Conns /\ ConnInv(e)
    BY <1>1, <1>2, <1>7, <2>1, CopyKeeps DEF Copy
  <2> QED
    BY <2>2, <2>3, OneConnection
<1>8. CASE CopyEnds(c)
  <2>1. PICK e : e = [d EXCEPT !.stage = "closed", !.inbox = <<>>]
    OBVIOUS
  <2>2. e = [d EXCEPT !.stage = "closed", !.inbox = <<>>, !.wrote = d.wrote]
    BY <1>2, <2>1 DEF Conns
  <2>3. OnlyChanges(c, e)
    BY <1>1, <1>3, <1>8, <2>2, MovesIs DEF CopyEnds
  <2>4. e \in Conns /\ ConnInv(e)
    BY <1>1, <1>2, <1>8, <2>1, CopyEndKeeps DEF CopyEnds
  <2> QED
    BY <2>3, <2>4, OneConnection
<1> QED
  BY <1>4, <1>5, <1>6, <1>7, <1>8 DEF Serve

LEMMA SocksStep ==
  ASSUME SocksInv, [SocksNext]_socksVars
  PROVE  SocksInv'
<1>1. CASE UNCHANGED <<opener, conn>>
  BY <1>1 DEF SocksInv
<1>2. CASE SwapOpener
  BY <1>2 DEF SwapOpener, SocksInv
<1>3. ASSUME NEW c \in Clients, NEW script \in Scripts, Accept(c, script)
      PROVE  SocksInv'
  <2>1. PICK e : e = [Away EXCEPT !.stage = "auth", !.script = script, !.session = opener,
                        !.pending = script.greeting \o script.request \o script.payload]
    OBVIOUS
  <2>2. OnlyChanges(c, e)
    BY <1>3, <2>1 DEF Accept, OnlyChanges
  <2>3. e \in Conns /\ ConnInv(e)
    BY <2>1, AcceptKeeps DEF SocksInv
  <2> QED
    BY <2>2, <2>3, OneConnection
<1>4. ASSUME NEW c \in Clients, NEW n \in 1 .. Len(conn[c].pending), Arrive(c, n)
      PROVE  SocksInv'
  <2>1. PICK d, e : /\ d = conn[c]
                    /\ e = [d EXCEPT !.inbox = d.inbox \o SubSeq(d.pending, 1, n),
                                     !.pending = From(d.pending, n + 1)]
    OBVIOUS
  <2>2. OnlyChanges(c, e)
    BY <1>4, <2>1 DEF Arrive, OnlyChanges, SocksInv
  <2>3. d \in Conns /\ ConnInv(d)
    BY <2>1 DEF SocksInv
  <2>4. e \in Conns /\ ConnInv(e)
    BY <1>4, <2>1, <2>3, ArriveKeeps DEF Arrive
  <2> QED
    BY <2>2, <2>4, OneConnection
<1>5. ASSUME NEW c \in Clients, EndOfStream(c)
      PROVE  SocksInv'
  <2>1. PICK d, e : d = conn[c] /\ e = [d EXCEPT !.ended = TRUE, !.pending = <<>>]
    OBVIOUS
  <2>2. OnlyChanges(c, e)
    BY <1>5, <2>1 DEF EndOfStream, OnlyChanges, SocksInv
  <2>3. d \in Conns /\ ConnInv(d)
    BY <2>1 DEF SocksInv
  <2>4. e \in Conns /\ ConnInv(e)
    BY <1>5, <2>1, <2>3, EndKeeps DEF EndOfStream
  <2> QED
    BY <2>2, <2>4, OneConnection
<1>6. ASSUME NEW a \in Addresses, BindOn(a) PROVE UNCHANGED <<opener, conn>>
  BY <1>6 DEF BindOn
<1>7. DropBroker \/ SessionDrops \/ UNCHANGED socksVars => UNCHANGED <<opener, conn>>
  BY DEF DropBroker, SessionDrops, socksVars
<1> QED
  BY <1>1, <1>2, <1>3, <1>4, <1>5, <1>6, <1>7, ServeStep DEF SocksNext

\* The answer to a request has one place, and no other bytes are taken for one.
LEMMA RepliesAre ==
  ASSUME NEW c
  PROVE  /\ \A code \in ReplyCodes : conn[c].wrote = Answer(code) => Replies(c) = {3}
         /\ conn[c].wrote \in Bytes /\ Len(conn[c].wrote) <= 2 => Replies(c) = {}
<1>1. ASSUME NEW code \in ReplyCodes, conn[c].wrote = Answer(code)
      PROVE  Replies(c) = {3}
  <2>1. PICK v, y : v = Answer(code) /\ y = Reply(code)
    OBVIOUS
  <2>2. /\ v \in Bytes /\ y \in Bytes /\ Len(v) = 7 /\ Len(y) = 5
        /\ \A j \in 1 .. 5 : v[2 + j] = y[j]
    BY <2>1, Constants DEF Answer, Reply, Version, IPv4
  <2>3. PICK b \in Nat, k \in Nat : b = 2 /\ k = 5
    OBVIOUS
  <2>4. Len(y) = k /\ b + k <= Len(v) /\ \A j \in 1 .. k : v[b + j] = y[j]
    BY <2>2, <2>3
  <2>5. SubSeq(v, b + 1, b + k) = y
    BY <2>2, <2>4, PartIs
  <2>6. SubSeq(v, 3, 7) = y
    BY <2>3, <2>5
  <2>7. 3 \in Replies(c)
    BY <1>1, <2>1, <2>2, <2>6 DEF Replies
  <2>8. \A i \in Replies(c) : i = 3
    BY <1>1, <2>1, <2>2 DEF Replies
  <2> QED
    BY <2>7, <2>8
<1>2. ASSUME conn[c].wrote \in Bytes, Len(conn[c].wrote) <= 2
      PROVE  Replies(c) = {}
  <2>1. Len(conn[c].wrote) \in Nat
    BY <1>2, LenProperties DEF Bytes
  <2> QED
    BY <1>2, <2>1 DEF Replies
<1> QED
  BY <1>1, <1>2

\* However the network cuts what clients send and whatever becomes of the session, each
\* request has at most one answer, whoever closes answered has exactly one, and a tunnel
\* carries what was sent behind the request to the target that was asked for (socks.rs;
\* socks_broker.rs, handle_connection and pipe_target).
THEOREM ProxyAlwaysKeepsItsWord ==
  SocksInit /\ [][SocksNext]_socksVars => []ProxyKeepsItsWord
<1>1. SocksInit => SocksInv
  <2> SUFFICES ASSUME SocksInit PROVE SocksInv
    OBVIOUS
  <2>1. \A c \in Clients : conn[c] = Away
    BY DEF SocksInit
  <2>2. <<>> # Answer(Succeeded)
    BY Constants
  <2>3. ConnInv(Away)
    <3>1. /\ Away.stage = "away" /\ Away.wrote = <<>> /\ Away.tunnelled = <<>>
          /\ Away.pending = <<>>
      BY DEF Away
    <3> QED
      BY <2>2, <3>1 DEF ConnInv, Answered, Leads, Open
  <2> QED
    BY <2>1, <2>3, Constants DEF SocksInit, SocksInv
<1>2. SocksInv /\ [SocksNext]_socksVars => SocksInv'
  BY SocksStep
<1>3. SocksInv => ProxyKeepsItsWord
  <2> SUFFICES ASSUME SocksInv, NEW c \in Clients
               PROVE  /\ Cardinality(Replies(c)) <= 1
                      /\ TunnelOpened(c) =>
                           /\ conn[c].target = conn[c].script.asked
                           /\ IsPrefix(conn[c].tunnelled \o conn[c].inbox,
                                       conn[c].script.payload)
                      /\ conn[c].tunnelled # <<>> => TunnelOpened(c)
                      /\ (conn[c].stage = "closed"
                           /\ IsPrefix(<<Version, NoAuth>>, conn[c].wrote)
                           => Cardinality(Replies(c)) = 1)
    BY DEF ProxyKeepsItsWord, TunnelIsWhatWasAsked, NobodyClosedUnanswered
  <2>1. PICK d : d = conn[c]
    OBVIOUS
  <2>2. d \in Conns /\ ConnInv(d) /\ d.wrote \in Bytes
    BY <2>1 DEF SocksInv, Conns
  <2>3. Cardinality({3}) = 1 /\ Cardinality({}) = 0
    BY FS_Singleton, FS_EmptySet
  <2>4. TunnelOpened(c) <=> d.wrote = Answer(Succeeded)
    BY <2>1, Constants DEF TunnelOpened, Greeted
  <2>5. \/ Len(d.wrote) <= 2
        \/ \E code \in ReplyCodes : d.wrote = Answer(code)
    <3>1. Answered(d) /\ d.stage \in Stages /\ Succeeded \in ReplyCodes
      BY <2>2, Constants DEF ConnInv, Conns
    <3>2. \/ d.wrote = <<>> \/ d.wrote = Greeted \/ d.wrote = <<Version, NoneAcceptable>>
          \/ \E code \in ReplyCodes : d.wrote = Answer(code)
      BY <3>1 DEF Answered, Stages
    <3>3. Len(<<>>) <= 2 /\ Len(Greeted) <= 2 /\ Len(<<Version, NoneAcceptable>>) <= 2
      BY DEF Greeted
    <3> QED
      BY <3>2, <3>3
  <2>6. Cardinality(Replies(c)) <= 1
    <3>1. Replies(c) = {} \/ Replies(c) = {3}
      BY <2>1, <2>2, <2>5, RepliesAre
    <3> QED
      BY <2>3, <3>1
  <2>7. ASSUME d.wrote = Answer(Succeeded)
        PROVE  /\ d.target = d.script.asked
               /\ IsPrefix(d.tunnelled \o d.inbox, d.script.payload)
    <3>1. d.stage \in {"copying", "closed"}
      BY <2>2, <2>7, Constants DEF ConnInv, Answered, Conns, Stages
    <3>2. PICK t, u : t = d.tunnelled \o d.inbox /\ u \in Bytes /\ ToCome(d, u)
      BY <2>2, <2>7 DEF ConnInv, Open
    <3>3. t \in Bytes /\ d.script.payload = t \o u
      BY <3>1, <3>2 DEF ToCome, Arrived, Owed
    <3>4. PICK v : v = t \o u
      OBVIOUS
    <3>5. /\ v \in Bytes /\ Len(t) \in Nat /\ Len(u) \in Nat /\ Len(v) = Len(t) + Len(u)
          /\ \A i \in 1 .. Len(t) : v[i] = t[i]
      BY <3>2, <3>3, <3>4, BytesConcat
    <3>6. Len(t) <= Len(v) /\ 0 + Len(t) <= Len(v)
      BY <3>5
    <3>7. SubSeq(v, 0 + 1, 0 + Len(t)) = t
      <4>1. PICK k : k = Len(t)
        OBVIOUS
      <4>2. \A j \in 1 .. k : v[0 + j] = t[j]
        BY <3>5, <4>1
      <4> QED
        BY <3>3, <3>5, <3>6, <4>1, <4>2, PartIs
    <3>8. SubSeq(v, 1, Len(t)) = t
      BY <3>5, <3>7
    <3>9. SubSeq(t, 1, Len(t)) = t
      BY <3>3, SubSeqFull DEF Bytes
    <3>10. IsPrefix(t, v)
      BY <3>6, <3>8, <3>9 DEF IsPrefix
    <3> QED
      BY <2>2, <2>7, <3>2, <3>3, <3>4, <3>10 DEF ConnInv, Leads
  <2>8. ASSUME d.tunnelled # <<>> PROVE d.wrote = Answer(Succeeded)
    BY <2>2, <2>8 DEF ConnInv, Leads
  <2>9. ASSUME d.stage = "closed", IsPrefix(<<Version, NoAuth>>, d.wrote)
        PROVE  Cardinality(Replies(c)) = 1
    <3>1. PICK x : x = <<Version, NoAuth>>
      OBVIOUS
    <3>2. Len(x) = 2 /\ x \in Bytes /\ x[2] = 0
      BY <3>1, Constants DEF Greeted, NoAuth
    <3>3. Len(d.wrote) >= 2 /\ SubSeq(d.wrote, 1, 2) = x
      BY <2>9, <3>1, <3>2, SubSeqFull DEF IsPrefix, Bytes
    <3>4. d.wrote # <<>>
      BY <3>3
    <3>5. d.wrote # <<Version, NoneAcceptable>>
      <4>1. SUFFICES ASSUME d.wrote = <<Version, NoneAcceptable>> PROVE FALSE
        OBVIOUS
      <4>2. Len(d.wrote) = 2 /\ d.wrote[2] = 255
        BY <4>1 DEF NoneAcceptable
      <4>3. SubSeq(d.wrote, 1, 2) = d.wrote
        BY <2>2, <4>2, SubSeqFull DEF Bytes
      <4> QED
        BY <3>2, <3>3, <4>2, <4>3
    <3>6. PICK code \in ReplyCodes : d.wrote = Answer(code)
      BY <2>2, <2>9, <3>4, <3>5 DEF ConnInv, Answered
    <3> QED
      BY <2>1, <2>3, <3>6, RepliesAre
  <2> QED
    BY <2>1, <2>4, <2>6, <2>7, <2>8, <2>9
<1> QED
  BY <1>1, <1>2, <1>3, PTL


-----------------------------------------------------------------------------
(* Notifications in a stream, for any requests whose texts do not end a      *)
(* sequence, any noise, and batches of any size: OscScanner.  Folds come     *)
(* first: what FoldLeft does for a sequence is what it does step by step.    *)

-----------------------------------------------------------------------------
(* Folds.  The folds of the community modules recurse over the places of a     *)
(* sequence, the last one first.  What they come to is a run from the left.    *)

LEMMA LeastNumber ==
  ASSUME NEW T \in SUBSET Nat, T # {}
  PROVE \E x \in T : \A y \in T : x <= y
<1> DEFINE R == OpToRel(<, Nat)
<1>1. \A x, y \in Nat : y < x => <<y, x>> \in R
  BY DEF OpToRel
<1>2. IsWellFoundedOn(R, Nat)
  BY NatLessThanWellFounded
<1> HIDE DEF R
<1>3. \E x \in T : \A y \in T : ~(<<y, x>> \in R)
  BY <1>2, WFMin
<1>4. PICK x \in T : \A y \in T : ~(<<y, x>> \in R)
  BY <1>3
<1>5. ASSUME NEW y \in T PROVE x <= y
  <2>1. x \in Nat /\ y \in Nat /\ ~(y < x)
    BY <1>1, <1>4
  <2> QED
    BY <2>1
<1> QED
  BY <1>5

\* A pass of redact over a record at its i-th place, where `found' stands.
Taken(found, acc, i) ==
  IF i < acc.next THEN acc ELSE [text |-> acc.text \o found.text, next |-> found.next]

\* The steps that are folded.
Step(fold, acc, x) ==
  CASE fold.of = "scan" -> ScanByte(acc, x)
    [] fold.of = "record" -> RecordOsc(acc, x)
    [] fold.of = "outcome" -> Outcome(acc, x)
    [] fold.of = "pem" -> Taken(PemBlock(fold.text, x), acc, x)
    [] fold.of = "auth" -> Taken(Authorization(fold.text, x), acc, x)
    [] fold.of = "keys" -> Taken(KeyValue(fold.text, x), acc, x)
    [] fold.of = "user" -> Taken(UserSegment(fold.text, x), acc, x)

\* h is what the recursion over the places up to the n-th comes to.
Solves(fold, h, from, seq, n) ==
  h = [s \in SUBSET (1 .. n) |->
         IF s = {} THEN from ELSE Step(fold, h[s \ {Max(s)}], seq[Max(s)])]

LEMMA LargestPlace ==
  ASSUME NEW n \in Nat, NEW s \in SUBSET (1 .. n), n \in s
  PROVE  Max(s) = n
<1>1. \A y \in s : n >= y
  OBVIOUS
<1>2. \A x \in s : (\A y \in s : x >= y) => x = n
  OBVIOUS
<1> QED
  BY <1>1, <1>2 DEF Max

LEMMA SolutionExists ==
  ASSUME NEW fold, NEW from, NEW seq
  PROVE  \A n \in Nat : \E h : Solves(fold, h, from, seq, n)
<1> DEFINE T == {n \in Nat : ~ \E h : Solves(fold, h, from, seq, n)}
<1>1. ASSUME T # {} PROVE \E n \in T : \A m \in T : n <= m
  <2>1. T \in SUBSET Nat
    OBVIOUS
  <2> HIDE DEF T
  <2> QED
    BY <1>1, <2>1, LeastNumber
<1>2. ASSUME NEW n \in T, \A m \in T : n <= m PROVE FALSE
  <2>1. n \in Nat
    OBVIOUS
  <2>2. CASE n = 0
    <3> DEFINE h == [s \in SUBSET (1 .. n) |-> from]
    <3>1. \A s \in SUBSET (1 .. n) : s = {}
      BY <2>2
    <3>2. Solves(fold, h, from, seq, n)
      BY <3>1 DEF Solves
    <3> QED
      BY <3>2
  <2>3. CASE n # 0
    <3>1. n - 1 \in Nat /\ n - 1 \notin T
      BY <1>2, <2>1, <2>3
    <3>2. PICK f : Solves(fold, f, from, seq, n - 1)
      BY <3>1
    <3> DEFINE g == [s \in SUBSET (1 .. n) |->
                       IF n \in s THEN Step(fold, f[s \ {n}], seq[n]) ELSE f[s]]
    <3>3. ASSUME NEW s \in SUBSET (1 .. n)
          PROVE  g[s] = IF s = {} THEN from ELSE Step(fold, g[s \ {Max(s)}], seq[Max(s)])
      <4>1. CASE n \in s
        <5>1. Max(s) = n
          BY <2>1, <4>1, LargestPlace
        <5>2. s \ {n} \in SUBSET (1 .. n) /\ n \notin s \ {n}
          OBVIOUS
        <5>3. g[s] = Step(fold, f[s \ {n}], seq[n]) /\ g[s \ {n}] = f[s \ {n}]
          BY <4>1, <5>2
        <5> HIDE DEF g
        <5> QED
          BY <4>1, <5>1, <5>3
      <4>2. CASE n \notin s
        <5>1. s \in SUBSET (1 .. n - 1)
          BY <2>1, <4>2
        <5>2. f[s] = IF s = {} THEN from ELSE Step(fold, f[s \ {Max(s)}], seq[Max(s)])
          BY <3>2, <5>1 DEF Solves
        <5>3. s \ {Max(s)} \in SUBSET (1 .. n) /\ n \notin s \ {Max(s)}
          BY <4>2
        <5>4. g[s] = f[s] /\ g[s \ {Max(s)}] = f[s \ {Max(s)}]
          BY <4>2, <5>3
        <5> HIDE DEF g
        <5> QED
          BY <5>2, <5>4
      <4> QED
        BY <4>1, <4>2
    <3>4. Solves(fold, g, from, seq, n)
      <4>1. g = [s \in SUBSET (1 .. n) |-> g[s]]
        OBVIOUS
      <4> HIDE DEF g
      <4> QED
        BY <3>3, <4>1 DEF Solves
    <3> QED
      BY <3>4
  <2> QED
    BY <2>2, <2>3
<1> QED
  BY <1>1, <1>2

-----------------------------------------------------------------------------
\* f holds what the fold has come to after each place.
Runs(fold, f, from, seq) ==
  f = [i \in 0 .. Len(seq) |-> IF i = 0 THEN from ELSE Step(fold, f[i - 1], seq[i])]

\* What a fold comes to.
Fold(fold, from, seq) == (CHOOSE f : Runs(fold, f, from, seq))[Len(seq)]

\* A solution holds a run: its values at the places from the first on.
LEMMA SolutionRuns ==
  ASSUME NEW fold, NEW from, NEW seq, Len(seq) \in Nat,
         NEW h, Solves(fold, h, from, seq, Len(seq))
  PROVE  Runs(fold, [i \in 0 .. Len(seq) |-> h[1 .. i]], from, seq)
<1> DEFINE f == [i \in 0 .. Len(seq) |-> h[1 .. i]]
<1>1. ASSUME NEW i \in 0 .. Len(seq)
      PROVE  f[i] = IF i = 0 THEN from ELSE Step(fold, f[i - 1], seq[i])
  <2>1. i \in Nat /\ 1 .. i \in SUBSET (1 .. Len(seq)) /\ f[i] = h[1 .. i]
    OBVIOUS
  <2>2. h[1 .. i] = IF 1 .. i = {} THEN from
                    ELSE Step(fold, h[(1 .. i) \ {Max(1 .. i)}], seq[Max(1 .. i)])
    BY <2>1 DEF Solves
  <2>3. CASE i = 0
    <3>1. 1 .. i = {}
      BY <2>3
    <3> QED
      BY <2>1, <2>2, <2>3, <3>1
  <2>4. CASE i # 0
    <3>1. i \in 1 .. i /\ 1 .. i \in SUBSET (1 .. i)
      BY <2>1, <2>4
    <3>2. Max(1 .. i) = i
      BY <2>1, <3>1, LargestPlace
    <3>3. (1 .. i) \ {i} = 1 .. i - 1
      BY <2>1
    <3>4. f[i - 1] = h[1 .. i - 1]
      BY <2>1, <2>4
    <3>5. 1 .. i # {}
      BY <3>1
    <3> HIDE DEF f
    <3> QED
      BY <2>1, <2>2, <2>4, <3>2, <3>3, <3>4, <3>5
  <2> QED
    BY <2>3, <2>4
<1>2. f = [i \in 0 .. Len(seq) |-> f[i]]
  OBVIOUS
<1> HIDE DEF f
<1>3. Runs(fold, f, from, seq)
  BY <1>1, <1>2 DEF Runs
<1> QED
  BY <1>3 DEF f

\* Two runs agree as far as their sequences do.
LEMMA RunsAgree ==
  ASSUME NEW fold, NEW from, NEW p, NEW q, Len(p) \in Nat, Len(q) \in Nat,
         NEW f, NEW g, Runs(fold, f, from, p), Runs(fold, g, from, q),
         NEW k \in 0 .. Len(p), k \in 0 .. Len(q),
         \A i \in 1 .. k : p[i] = q[i]
  PROVE  f[k] = g[k]
<1> DEFINE T == {i \in 0 .. k : f[i] # g[i]}
<1>1. ASSUME T # {} PROVE \E i \in T : \A m \in T : i <= m
  <2>1. T \in SUBSET Nat
    OBVIOUS
  <2> HIDE DEF T
  <2> QED
    BY <1>1, <2>1, LeastNumber
<1>2. ASSUME NEW i \in T, \A m \in T : i <= m PROVE FALSE
  <2>1. i \in 0 .. k /\ i \in 0 .. Len(p) /\ i \in 0 .. Len(q) /\ f[i] # g[i]
    OBVIOUS
  <2>2. /\ f[i] = IF i = 0 THEN from ELSE Step(fold, f[i - 1], p[i])
        /\ g[i] = IF i = 0 THEN from ELSE Step(fold, g[i - 1], q[i])
    BY <2>1 DEF Runs
  <2>3. i # 0
    BY <2>1, <2>2
  <2>4. i - 1 \in 0 .. k /\ i - 1 \notin T /\ i \in 1 .. k
    BY <1>2, <2>1, <2>3
  <2>5. f[i - 1] = g[i - 1]
    BY <2>4
  <2>6. p[i] = q[i]
    BY <2>4
  <2> QED
    BY <2>1, <2>2, <2>3, <2>5, <2>6
<1>3. k \in 0 .. k
  OBVIOUS
<1> QED
  BY <1>1, <1>2, <1>3

\* A fold has a run, and every solution ends where it does.
LEMMA FoldRuns ==
  ASSUME NEW fold, NEW from, NEW seq, Len(seq) \in Nat
  PROVE  /\ \E f : Runs(fold, f, from, seq) /\ Fold(fold, from, seq) = f[Len(seq)]
         /\ \A h : Solves(fold, h, from, seq, Len(seq))
                     => h[1 .. Len(seq)] = Fold(fold, from, seq)
<1>1. \E f : Runs(fold, f, from, seq)
  BY SolutionExists, SolutionRuns
<1>2. Runs(fold, CHOOSE f : Runs(fold, f, from, seq), from, seq)
  BY <1>1
<1>3. ASSUME NEW h, Solves(fold, h, from, seq, Len(seq))
      PROVE  h[1 .. Len(seq)] = Fold(fold, from, seq)
  <2> DEFINE f == [i \in 0 .. Len(seq) |-> h[1 .. i]]
  <2>1. Runs(fold, f, from, seq)
    BY <1>3, SolutionRuns
  <2>2. f[Len(seq)] = h[1 .. Len(seq)] /\ Len(seq) \in 0 .. Len(seq)
    OBVIOUS
  <2> HIDE DEF f
  <2> QED
    BY <1>2, <2>1, <2>2, RunsAgree DEF Fold
<1> QED
  BY <1>2, <1>3 DEF Fold

\* Nothing, one more, and one sequence after another.
LEMMA FoldNone ==
  ASSUME NEW fold, NEW from
  PROVE  Fold(fold, from, <<>>) = from
<1>1. Len(<<>>) = 0
  BY EmptySeq
<1>2. PICK f : Runs(fold, f, from, <<>>) /\ Fold(fold, from, <<>>) = f[Len(<<>>)]
  BY <1>1, FoldRuns
<1>3. f[0] = from
  BY <1>1, <1>2 DEF Runs
<1> QED
  BY <1>1, <1>2, <1>3

LEMMA FoldMore ==
  ASSUME NEW fold, NEW from, NEW S, NEW q \in Seq(S), NEW x \in S
  PROVE  Fold(fold, from, Append(q, x)) = Step(fold, Fold(fold, from, q), x)
<1>1. /\ Len(q) \in Nat /\ Len(Append(q, x)) = Len(q) + 1
      /\ \A i \in 1 .. Len(q) : Append(q, x)[i] = q[i]
      /\ Append(q, x)[Len(q) + 1] = x
      /\ Len(Append(q, x)) \in Nat
      /\ Len(q) \in 0 .. Len(q) /\ Len(q) \in 0 .. Len(Append(q, x))
  <2>1. /\ Len(q) \in Nat /\ Len(Append(q, x)) = Len(q) + 1
        /\ \A i \in 1 .. Len(q) : Append(q, x)[i] = q[i]
        /\ Append(q, x)[Len(q) + 1] = x
    BY AppendProperties, LenProperties
  <2> QED
    BY <2>1
<1>2. PICK f : Runs(fold, f, from, q) /\ Fold(fold, from, q) = f[Len(q)]
  BY <1>1, FoldRuns
<1>3. PICK g : Runs(fold, g, from, Append(q, x))
                 /\ Fold(fold, from, Append(q, x)) = g[Len(Append(q, x))]
  BY <1>1, FoldRuns
<1>4. f[Len(q)] = g[Len(q)]
  <2>1. PICK w, k : w = Append(q, x) /\ k = Len(q)
    OBVIOUS
  <2>2. /\ Len(w) \in Nat /\ k \in 0 .. Len(w) /\ Runs(fold, g, from, w)
        /\ \A i \in 1 .. k : q[i] = w[i]
    BY <1>1, <1>3, <2>1
  <2>3. Len(q) \in Nat /\ k \in 0 .. Len(q) /\ Runs(fold, f, from, q)
    BY <1>1, <1>2, <2>1
  <2>4. f[k] = g[k]
    BY <2>2, <2>3, RunsAgree
  <2> QED
    BY <2>1, <2>4
<1>5. PICK n \in Nat : n = Len(q) + 1 /\ n - 1 = Len(q) /\ n # 0 /\ n = Len(Append(q, x))
                         /\ n \in 0 .. Len(Append(q, x))
  <2>1. Len(q) + 1 \in Nat /\ Len(q) + 1 - 1 = Len(q) /\ Len(q) + 1 # 0
        /\ Len(q) + 1 \in 0 .. Len(Append(q, x))
    BY <1>1
  <2> QED
    BY <1>1, <2>1
<1>6. g[n] = Step(fold, g[n - 1], Append(q, x)[n])
  BY <1>3, <1>5 DEF Runs
<1> QED
  BY <1>1, <1>2, <1>3, <1>4, <1>5, <1>6

\* What the empty sequence has, and no further element takes away, every sequence has.
LEMMA SeqsBuilt ==
  ASSUME NEW S, NEW P, <<>> \in P, \A q \in Seq(S) : q \in P => \A x \in S : Append(q, x) \in P
  PROVE  \A q \in Seq(S) : q \in P
<1> DEFINE T == {n \in Nat : \E q \in Seq(S) : q \notin P /\ Len(q) = n}
<1>1. ASSUME T # {} PROVE \E n \in T : \A m \in T : n <= m
  <2>1. T \in SUBSET Nat
    OBVIOUS
  <2> HIDE DEF T
  <2> QED
    BY <1>1, <2>1, LeastNumber
<1>2. ASSUME NEW n \in T, \A m \in T : n <= m PROVE FALSE
  <2>1. PICK q \in Seq(S) : q \notin P /\ Len(q) = n
    OBVIOUS
  <2>2. q # <<>>
    BY <2>1
  <2>3. PICK r \in Seq(S), x \in S : q = Append(r, x)
    BY <2>2, SequenceEmptyOrAppend
  <2>4. Len(r) \in Nat /\ n = Len(r) + 1
    BY <2>1, <2>3, AppendProperties, LenProperties
  <2>5. Len(r) \notin T
    BY <1>2, <2>4
  <2>6. r \in P
    BY <2>4, <2>5
  <2> QED
    BY <2>1, <2>3, <2>6
<1>3. ASSUME NEW q \in Seq(S), q \notin P PROVE FALSE
  <2>1. Len(q) \in Nat
    BY LenProperties
  <2>2. Len(q) \in T
    BY <1>3, <2>1
  <2> HIDE DEF T
  <2> QED
    BY <1>1, <1>2, <2>2
<1> QED
  BY <1>3

LEMMA FoldGlue ==
  ASSUME NEW fold, NEW from, NEW S, NEW p \in Seq(S), NEW q \in Seq(S)
  PROVE  Fold(fold, from, p \o q) = Fold(fold, Fold(fold, from, p), q)
<1> DEFINE P == {r \in Seq(S) : Fold(fold, from, p \o r) = Fold(fold, Fold(fold, from, p), r)}
<1>1. <<>> \in P
  <2>1. p \o <<>> = p /\ <<>> \in Seq(S)
    BY ConcatEmptySeq, EmptySeq
  <2> QED
    BY <2>1, FoldNone
<1>2. ASSUME NEW r \in Seq(S), r \in P, NEW x \in S
      PROVE  Append(r, x) \in P
  <2>1. p \o Append(r, x) = Append(p \o r, x) /\ p \o r \in Seq(S) /\ Append(r, x) \in Seq(S)
    <3>1. /\ Append(r, x) = r \o <<x>> /\ <<x>> \in Seq(S) /\ p \o r \in Seq(S)
          /\ Append(p \o r, x) = (p \o r) \o <<x>> /\ Append(r, x) \in Seq(S)
      BY AppendIsConcat, ConcatProperties, AppendProperties
    <3> QED
      BY <3>1, ConcatAssociative
  <2>2. Fold(fold, from, Append(p \o r, x)) = Step(fold, Fold(fold, from, p \o r), x)
    <3>1. PICK w \in Seq(S) : w = p \o r
      BY <2>1
    <3>2. Fold(fold, from, Append(w, x)) = Step(fold, Fold(fold, from, w), x)
      BY FoldMore
    <3> QED
      BY <3>1, <3>2
  <2>3. Fold(fold, Fold(fold, from, p), Append(r, x))
          = Step(fold, Fold(fold, Fold(fold, from, p), r), x)
    BY FoldMore
  <2> QED
    BY <1>2, <2>1, <2>2, <2>3
<1> HIDE DEF P
<1>3. q \in P
  BY <1>1, <1>2, SeqsBuilt
<1> QED
  BY <1>3 DEF P

\* What every step keeps, the fold keeps.
LEMMA FoldKeeps ==
  ASSUME NEW fold, NEW S, NEW I, NEW from \in I, \A a \in I, x \in S : Step(fold, a, x) \in I,
         NEW q \in Seq(S)
  PROVE  Fold(fold, from, q) \in I
<1> DEFINE P == {r \in Seq(S) : Fold(fold, from, r) \in I}
<1>1. <<>> \in P
  BY FoldNone, EmptySeq
<1>2. ASSUME NEW r \in Seq(S), r \in P, NEW x \in S
      PROVE  Append(r, x) \in P
  BY <1>2, FoldMore, AppendProperties
<1> HIDE DEF P
<1>3. q \in P
  BY <1>1, <1>2, SeqsBuilt
<1> QED
  BY <1>3 DEF P

-----------------------------------------------------------------------------
\* The folds of the model.
Folding(name) == [of |-> name]

LEMMA FoldsAre ==
  ASSUME NEW from, NEW seq, Len(seq) \in Nat, DOMAIN seq = 1 .. Len(seq)
  PROVE  /\ FoldLeft(ScanByte, from, seq) = Fold(Folding("scan"), from, seq)
         /\ FoldLeft(RecordOsc, from, seq) = Fold(Folding("record"), from, seq)
         /\ FoldLeft(Outcome, from, seq) = Fold(Folding("outcome"), from, seq)
<1> DEFINE n == Len(seq)
<1>1. ASSUME NEW fold PROVE \E h : Solves(fold, h, from, seq, n)
  BY SolutionExists
<1>2. FoldLeft(ScanByte, from, seq) = Fold(Folding("scan"), from, seq)
  <2> DEFINE Is(h) == h = [s \in SUBSET (DOMAIN seq) |->
                        IF s = {} THEN from ELSE ScanByte(h[s \ {Max(s)}], seq[Max(s)])]
             H == CHOOSE h : Is(h)
  <2>1. \A a, x : Step(Folding("scan"), a, x) = ScanByte(a, x)
    BY DEF Step, Folding
  <2>2. \A h : Solves(Folding("scan"), h, from, seq, n) <=> Is(h)
    BY <2>1 DEF Solves
  <2>3. \E h : Is(h)
    BY <1>1, <2>2
  <2>4. Is(H)
    BY <2>3
  <2>5. FoldLeft(ScanByte, from, seq) = H[DOMAIN seq]
    BY DEF FoldLeft, MapThenFoldSet
  <2>6. Solves(Folding("scan"), H, from, seq, n)
    BY <2>2, <2>4
  <2>7. H[1 .. n] = Fold(Folding("scan"), from, seq)
    <3> HIDE DEF H, Is
    <3> QED
      BY <2>6, FoldRuns
  <2> HIDE DEF H, Is
  <2> QED
    BY <2>5, <2>7
<1>3. FoldLeft(RecordOsc, from, seq) = Fold(Folding("record"), from, seq)
  <2> DEFINE Is(h) == h = [s \in SUBSET (DOMAIN seq) |->
                        IF s = {} THEN from ELSE RecordOsc(h[s \ {Max(s)}], seq[Max(s)])]
             H == CHOOSE h : Is(h)
  <2>1. \A a, x : Step(Folding("record"), a, x) = RecordOsc(a, x)
    BY DEF Step, Folding
  <2>2. \A h : Solves(Folding("record"), h, from, seq, n) <=> Is(h)
    BY <2>1 DEF Solves
  <2>3. \E h : Is(h)
    BY <1>1, <2>2
  <2>4. Is(H)
    BY <2>3
  <2>5. FoldLeft(RecordOsc, from, seq) = H[DOMAIN seq]
    BY DEF FoldLeft, MapThenFoldSet
  <2>6. Solves(Folding("record"), H, from, seq, n)
    BY <2>2, <2>4
  <2>7. H[1 .. n] = Fold(Folding("record"), from, seq)
    <3> HIDE DEF H, Is
    <3> QED
      BY <2>6, FoldRuns
  <2> HIDE DEF H, Is
  <2> QED
    BY <2>5, <2>7
<1>4. FoldLeft(Outcome, from, seq) = Fold(Folding("outcome"), from, seq)
  <2> DEFINE Is(h) == h = [s \in SUBSET (DOMAIN seq) |->
                        IF s = {} THEN from ELSE Outcome(h[s \ {Max(s)}], seq[Max(s)])]
             H == CHOOSE h : Is(h)
  <2>1. \A a, x : Step(Folding("outcome"), a, x) = Outcome(a, x)
    BY DEF Step, Folding
  <2>2. \A h : Solves(Folding("outcome"), h, from, seq, n) <=> Is(h)
    BY <2>1 DEF Solves
  <2>3. \E h : Is(h)
    BY <1>1, <2>2
  <2>4. Is(H)
    BY <2>3
  <2>5. FoldLeft(Outcome, from, seq) = H[DOMAIN seq]
    BY DEF FoldLeft, MapThenFoldSet
  <2>6. Solves(Folding("outcome"), H, from, seq, n)
    BY <2>2, <2>4
  <2>7. H[1 .. n] = Fold(Folding("outcome"), from, seq)
    <3> HIDE DEF H, Is
    <3> QED
      BY <2>6, FoldRuns
  <2> HIDE DEF H, Is
  <2> QED
    BY <2>5, <2>7
<1> QED
  BY <1>2, <1>3, <1>4

-----------------------------------------------------------------------------
(* The scanner, byte by byte.                                                *)

Tokens ==
  {ESC, BEL, Intro, STFinal, Separator, "notify", "p=title", "p=body"} \cup OscCodes
    \cup (UNION {Range(r.title) \cup Range(r.body) : r \in Requests})
    \cup (UNION {Range(n) : n \in Noise})

Oscs == {[code |-> Before(b)[1], data |-> After(b)] : b \in Seq(Tokens)}
Bodies == {b \in Seq(Tokens) : Len(b) <= MaxPending}

Sc(state, body, out) == [state |-> state, body |-> body, out |-> out]

Scanners == {Sc(state, body, out) : state \in {"Idle", "EscArmed", "InBody", "BodyEsc"},
                                    body \in Bodies, out \in Seq(Oscs)}

LEMMA ScanByteIs ==
  ASSUME NEW b, NEW o, NEW x
  PROVE  /\ ScanByte(Sc("Idle", b, o), x)
              = IF x = ESC THEN Sc("EscArmed", b, o) ELSE Sc("Idle", b, o)
         /\ ScanByte(Sc("EscArmed", b, o), x)
              = IF x = Intro THEN Sc("InBody", <<>>, o)
                ELSE IF x = ESC THEN Sc("EscArmed", b, o) ELSE Sc("Idle", b, o)
         /\ ScanByte(Sc("InBody", b, o), x)
              = IF x = BEL THEN Sc("Idle", <<>>, o \o ParseBody(b))
                ELSE IF x = ESC THEN Sc("BodyEsc", b, o)
                ELSE IF Len(b) + 1 > MaxPending THEN Sc("Idle", <<>>, o)
                ELSE Sc("InBody", Append(b, x), o)
         /\ ScanByte(Sc("BodyEsc", b, o), x)
              = IF x = STFinal THEN Sc("Idle", <<>>, o \o ParseBody(b))
                ELSE IF x = ESC THEN Sc("EscArmed", <<>>, o) ELSE Sc("Idle", <<>>, o)
<1> DEFINE idle == Sc("Idle", b, o)
           armed == Sc("EscArmed", b, o)
           inside == Sc("InBody", b, o)
           escaped == Sc("BodyEsc", b, o)
<1>1. ESC # BEL /\ ESC # Intro /\ ESC # STFinal
  BY DEF ESC, BEL, Intro, STFinal
<1>2. ScanByte(idle, x) = IF x = ESC THEN armed ELSE idle
  BY DEF ScanByte, Sc
<1>3. ASSUME NEW state, NEW c, NEW d
      PROVE  Reset(Sc(state, c, d)) = Sc("Idle", <<>>, d)
  <2> DEFINE r == Sc(state, c, d)
             q == [r EXCEPT !.state = "Idle"]
  <2>1. q = [state |-> "Idle", body |-> c, out |-> d]
    BY DEF Sc
  <2>2. Reset(r) = [q EXCEPT !.body = <<>>]
    BY DEF Reset
  <2> HIDE DEF q
  <2>3. [q EXCEPT !.body = <<>>] = [state |-> "Idle", body |-> <<>>, out |-> d]
    BY <2>1
  <2> QED
    BY <2>2, <2>3 DEF Sc
<1>4. ASSUME NEW state, NEW s, s = Sc(state, b, o)
      PROVE  Finish(s) = Sc("Idle", <<>>, o \o ParseBody(b))
  <2>1. s.body = b
    BY <1>4 DEF Sc
  <2>2. [s EXCEPT !.out = s.out \o ParseBody(s.body)] = Sc(state, b, o \o ParseBody(b))
    <3>1. PICK more : more = ParseBody(b)
      OBVIOUS
    <3>2. s.out = o /\ s = [state |-> state, body |-> b, out |-> o]
      BY <1>4 DEF Sc
    <3>3. \A v : [s EXCEPT !.out = v] = [state |-> state, body |-> b, out |-> v]
      BY <3>2
    <3>4. PICK v : v = s.out \o ParseBody(s.body)
      OBVIOUS
    <3>5. v = o \o more
      BY <2>1, <3>1, <3>2, <3>4
    <3>6. [s EXCEPT !.out = v] = [state |-> state, body |-> b, out |-> o \o more]
      BY <3>3, <3>5
    <3> QED
      BY <3>1, <3>4, <3>6 DEF Sc
  <2>3. PICK r : r = [s EXCEPT !.out = s.out \o ParseBody(s.body)]
    OBVIOUS
  <2>4. Finish(s) = Reset(r)
    BY <2>3 DEF Finish
  <2>5. r = Sc(state, b, o \o ParseBody(b))
    BY <2>2, <2>3
  <2> QED
    BY <1>3, <2>4, <2>5
<1>5. ScanByte(armed, x) = IF x = Intro THEN Sc("InBody", <<>>, o)
                           ELSE IF x = ESC THEN armed ELSE idle
  <2>1. ScanByte(armed, x) = Armed(armed, x)
    BY DEF ScanByte, Sc
  <2> QED
    BY <1>1, <2>1 DEF Armed, Sc
<1>6. ScanByte(inside, x)
        = IF x = BEL THEN Sc("Idle", <<>>, o \o ParseBody(b))
          ELSE IF x = ESC THEN Sc("BodyEsc", b, o)
          ELSE IF Len(b) + 1 > MaxPending THEN Sc("Idle", <<>>, o)
          ELSE Sc("InBody", Append(b, x), o)
  <2>1. ScanByte(inside, x) = InBody(inside, x)
    BY DEF ScanByte, Sc
  <2>2. Finish(inside) = Sc("Idle", <<>>, o \o ParseBody(b))
    BY <1>4
  <2>3. [inside EXCEPT !.state = "BodyEsc"] = escaped
    BY DEF Sc
  <2>4. Accumulate(inside, x) = IF Len(b) + 1 > MaxPending THEN Sc("Idle", <<>>, o)
                                ELSE Sc("InBody", Append(b, x), o)
    BY <1>3, SMTT(30) DEF Accumulate, Sc
  <2> HIDE DEF inside, escaped
  <2> QED
    BY <1>1, <2>1, <2>2, <2>3, <2>4 DEF InBody, escaped
<1>7. ScanByte(escaped, x)
        = IF x = STFinal THEN Sc("Idle", <<>>, o \o ParseBody(b))
          ELSE IF x = ESC THEN Sc("EscArmed", <<>>, o) ELSE Sc("Idle", <<>>, o)
  <2>1. ScanByte(escaped, x) = BodyEsc(escaped, x)
    BY DEF ScanByte, Sc
  <2>2. Finish(escaped) = Sc("Idle", <<>>, o \o ParseBody(b))
    BY <1>4
  <2>3. [escaped EXCEPT !.state = "EscArmed", !.body = <<>>] = Sc("EscArmed", <<>>, o)
    <3> DEFINE q == [escaped EXCEPT !.state = "EscArmed"]
    <3>1. q = [state |-> "EscArmed", body |-> b, out |-> o]
      BY DEF Sc
    <3>2. [escaped EXCEPT !.state = "EscArmed", !.body = <<>>] = [q EXCEPT !.body = <<>>]
      OBVIOUS
    <3> HIDE DEF q
    <3>3. [q EXCEPT !.body = <<>>] = [state |-> "EscArmed", body |-> <<>>, out |-> o]
      BY <3>1
    <3> QED
      BY <3>2, <3>3 DEF Sc
  <2>4. Reset(escaped) = Sc("Idle", <<>>, o)
    BY <1>3
  <2> HIDE DEF escaped
  <2> QED
    BY <1>1, <2>1, <2>2, <2>3, <2>4 DEF BodyEsc
<1> QED
  BY <1>2, <1>5, <1>6, <1>7

-----------------------------------------------------------------------------
(* Reading a body.                                                           *)

\* The first ";" of a sequence splits it.
LEMMA FirstSplits ==
  ASSUME NEW S, NEW s \in Seq(S), NEW i \in 1 .. Len(s), s[i] = Separator,
         \A j \in 1 .. i - 1 : s[j] # Separator
  PROVE  /\ Splits(s)
         /\ Before(s) = SubSeq(s, 1, i - 1) /\ After(s) = SubSeq(s, i + 1, Len(s))
<1>1. Len(s) \in Nat /\ DOMAIN s = 1 .. Len(s)
  BY LenProperties
<1> DEFINE I == {j \in 1 .. Len(s) : s[j] = Separator}
<1>2. i \in I /\ \A j \in I : i <= j
  BY <1>1
<1>3. \A j \in I : (\A m \in I : j <= m) => j = i
  BY <1>1, <1>2
<1>4. Min(I) = i
  <2> HIDE DEF I
  <2> QED
    BY <1>2, <1>3 DEF Min
<1>5. I # {}
  BY <1>2
<1>6. SelectInSeq(s, LAMBDA t : t = Separator) = i
  BY <1>4, <1>5 DEF SelectInSeq
<1>7. Splits(s)
  BY <1>1 DEF Splits
<1> QED
  BY <1>6, <1>7 DEF Before, After

\* So does a ";" put between two sequences, if there is none in the first.
LEMMA GlueSplits ==
  ASSUME NEW S, Separator \in S, NEW a \in Seq(S), NEW b \in Seq(S), \A j \in 1 .. Len(a) :
             a[j] # Separator,
         NEW s, s = a \o <<Separator>> \o b
  PROVE  s \in Seq(S) /\ Splits(s) /\ Before(s) = a /\ After(s) = b
<1>1. /\ Len(a) \in Nat /\ Len(b) \in Nat /\ <<Separator>> \in Seq(S) /\ Len(<<Separator>>) = 1
      /\ <<Separator>>[1] = Separator
      /\ \A i \in 1 .. Len(a) : a[i] \in S
      /\ \A i \in 1 .. Len(b) : b[i] \in S
  BY LenProperties, ElementOfSeq
<1>2. PICK c : c = a \o <<Separator>>
  OBVIOUS
<1>3. /\ c \in Seq(S) /\ Len(c) = Len(a) + 1
      /\ \A i \in 1 .. Len(a) + 1 : c[i] = IF i <= Len(a) THEN a[i] ELSE <<Separator>>[i - Len(a)]
  BY <1>1, <1>2, ConcatProperties
<1>4. /\ s \in Seq(S) /\ Len(s) = Len(c) + Len(b)
      /\ \A i \in 1 .. Len(c) + Len(b) : s[i] = IF i <= Len(c) THEN c[i] ELSE b[i - Len(c)]
  BY <1>2, <1>3, ConcatProperties
<1>5. c[Len(a) + 1] = Separator
  <2>1. Len(a) + 1 \in 1 .. Len(a) + 1 /\ ~(Len(a) + 1 <= Len(a)) /\ Len(a) + 1 - Len(a) = 1
    BY <1>1
  <2> QED
    BY <1>1, <1>3, <2>1
<1>6. PICK n \in Nat : n = Len(a) + 1 /\ n - 1 = Len(a) /\ n = Len(c)
  <2>1. Len(a) + 1 \in Nat /\ Len(a) + 1 - 1 = Len(a)
    BY <1>1
  <2> QED
    BY <1>3, <2>1
<1>7. n \in 1 .. Len(s) /\ s[n] = Separator /\ \A j \in 1 .. n - 1 : s[j] = a[j] /\ a[j] # Separator
  <2>1. n \in 1 .. Len(c) + Len(b) /\ n <= Len(c) /\ Len(s) = n + Len(b)
    BY <1>1, <1>4, <1>6
  <2>2. s[n] = Separator
    BY <1>4, <1>5, <1>6, <2>1
  <2>3. ASSUME NEW j \in 1 .. n - 1 PROVE s[j] = a[j] /\ a[j] # Separator
    <3>1. j \in 1 .. Len(a) /\ j \in 1 .. Len(a) + 1 /\ j \in 1 .. Len(c) + Len(b) /\ j <= Len(c)
          /\ j <= Len(a)
      BY <1>1, <1>6
    <3> QED
      BY <1>3, <1>4, <3>1
  <2> QED
    BY <1>4, <2>1, <2>2, <2>3
<1>8. Splits(s) /\ Before(s) = SubSeq(s, 1, n - 1) /\ After(s) = SubSeq(s, n + 1, Len(s))
  BY <1>4, <1>7, FirstSplits
<1>9. \A i \in 1 .. Len(s) : s[i] \in S
  BY <1>4, ElementOfSeq
<1>10. SubSeq(s, 1, Len(a)) = a
  <2> DEFINE u == SubSeq(s, 1, Len(a))
  <2>1. 1 \in Int /\ Len(a) \in Int /\ \A i \in 1 .. Len(a) : s[i] \in S
    BY <1>1, <1>4, <1>6, <1>9
  <2>2. /\ u \in Seq(S)
        /\ Len(u) = IF 1 <= Len(a) THEN Len(a) - 1 + 1 ELSE 0
        /\ \A m \in 1 .. Len(a) - 1 + 1 : u[m] = s[1 + m - 1]
    BY <2>1, SubSeqProperties
  <2> HIDE DEF u
  <2>3. Len(u) = Len(a)
    BY <1>1, <2>2
  <2>4. ASSUME NEW m \in 1 .. Len(u) PROVE u[m] = a[m]
    <3>1. m \in 1 .. Len(a) - 1 + 1 /\ m \in 1 .. n - 1 /\ 1 + m - 1 = m
      BY <1>1, <1>6, <2>3
    <3> QED
      BY <1>7, <2>2, <3>1
  <2> QED
    BY <2>2, <2>3, <2>4, SeqEqual DEF u
<1>11. SubSeq(s, n + 1, Len(s)) = b
  <2> DEFINE u == SubSeq(s, n + 1, Len(s))
  <2>1. n + 1 \in Int /\ Len(s) \in Int /\ \A i \in n + 1 .. Len(s) : s[i] \in S
    BY <1>1, <1>4, <1>6, <1>9
  <2>2. /\ u \in Seq(S)
        /\ Len(u) = IF n + 1 <= Len(s) THEN Len(s) - (n + 1) + 1 ELSE 0
        /\ \A m \in 1 .. Len(s) - (n + 1) + 1 : u[m] = s[n + 1 + m - 1]
    BY <2>1, SubSeqProperties
  <2> HIDE DEF u
  <2>3. Len(s) = n + Len(b)
    BY <1>4, <1>6
  <2>4. Len(u) = Len(b)
    BY <1>1, <2>2, <2>3
  <2>5. ASSUME NEW m \in 1 .. Len(b) PROVE u[m] = b[m]
    <3>1. m \in 1 .. Len(s) - (n + 1) + 1 /\ n + m = n + 1 + m - 1 /\ n + m \in 1 .. Len(c) + Len(b)
          /\ ~(n + m <= Len(c)) /\ n + m - Len(c) = m
      <4>1. m \in Int /\ 1 <= m /\ m <= Len(b) /\ Len(b) \in Nat /\ Len(c) = n
        BY <1>1, <1>6
      <4> QED
        BY <2>3, <4>1
    <3>2. PICK j : j = n + m
      OBVIOUS
    <3>3. u[m] = s[j]
      BY <2>2, <3>1, <3>2
    <3>4. j \in 1 .. Len(c) + Len(b) /\ ~(j <= Len(c)) /\ j - Len(c) = m
      BY <3>1, <3>2
    <3>5. s[j] = b[m]
      BY <1>4, <3>4
    <3> QED
      BY <3>3, <3>5
  <2> QED
    BY <2>2, <2>4, <2>5, SeqEqual DEF u
<1> QED
  BY <1>4, <1>6, <1>8, <1>10, <1>11

-----------------------------------------------------------------------------
(* Sequences put together.                                                   *)

LEMMA Glued ==
  ASSUME NEW S, NEW p \in Seq(S), NEW q \in Seq(S), NEW r \in Seq(S), Len(r) = Len(p) + Len(q),
         \A i \in 1 .. Len(p) : r[i] = p[i], \A i \in 1 .. Len(q) : r[Len(p) + i] = q[i]
  PROVE  p \o q = r
<1>1. Len(p) \in Nat /\ Len(q) \in Nat
  BY LenProperties
<1>2. PICK c : c = p \o q
  OBVIOUS
<1>3. /\ c \in Seq(S) /\ Len(c) = Len(p) + Len(q)
      /\ \A i \in 1 .. Len(p) + Len(q) : c[i] = IF i <= Len(p) THEN p[i] ELSE q[i - Len(p)]
  BY <1>2, ConcatProperties
<1>4. ASSUME NEW i \in 1 .. Len(c) PROVE c[i] = r[i]
  <2>1. CASE i <= Len(p)
    <3>1. i \in 1 .. Len(p) /\ i \in 1 .. Len(p) + Len(q)
      BY <1>1, <1>3, <2>1
    <3> QED
      BY <1>3, <2>1, <3>1
  <2>2. CASE ~ (i <= Len(p))
    <3>1. PICK k : k = i - Len(p)
      OBVIOUS
    <3>2. k \in 1 .. Len(q) /\ Len(p) + k = i /\ i \in 1 .. Len(p) + Len(q)
      BY <1>1, <1>3, <2>2, <3>1
    <3>3. c[i] = q[k] /\ r[Len(p) + k] = q[k]
      BY <1>3, <2>2, <3>1, <3>2
    <3> QED
      BY <3>2, <3>3
  <2> QED
    BY <2>1, <2>2
<1> QED
  BY <1>2, <1>3, <1>4, SeqEqual

LEMMA TwoLiteral ==
  ASSUME NEW S, NEW a \in S, NEW b \in S
  PROVE  <<a>> \o <<b>> = <<a, b>>
<1>1. PICK p, q, r : p = <<a>> /\ q = <<b>> /\ r = <<a, b>>
  OBVIOUS
<1>2. p \in Seq(S) /\ q \in Seq(S) /\ r \in Seq(S) /\ Len(p) = 1 /\ Len(q) = 1 /\ Len(r) = 2
  BY <1>1
<1>3. /\ Len(r) = Len(p) + Len(q)
      /\ \A i \in 1 .. Len(p) : r[i] = p[i]
      /\ \A i \in 1 .. Len(q) : r[Len(p) + i] = q[i]
  <2>1. p[1] = a /\ q[1] = b /\ r[1] = a /\ r[2] = b
    BY <1>1
  <2>2. (\A i \in 1 .. 1 : i = 1) /\ 1 + 1 = 2
    OBVIOUS
  <2> QED
    BY <1>2, <2>1, <2>2, Zenon
<1>4. p \o q = r
  BY <1>2, <1>3, Glued
<1> QED
  BY <1>1, <1>4, Zenon

LEMMA FourLiteral ==
  ASSUME NEW S, NEW a \in S, NEW b \in S, NEW c \in S, NEW d \in S
  PROVE  <<a, b>> \o <<c, d>> = <<a, b, c, d>>
<1>1. PICK p, q, r : p = <<a, b>> /\ q = <<c, d>> /\ r = <<a, b, c, d>>
  OBVIOUS
<1>2. p \in Seq(S) /\ q \in Seq(S) /\ r \in Seq(S) /\ Len(p) = 2 /\ Len(q) = 2 /\ Len(r) = 4
  BY <1>1
<1>3. /\ Len(r) = Len(p) + Len(q)
      /\ \A i \in 1 .. Len(p) : r[i] = p[i]
      /\ \A i \in 1 .. Len(q) : r[Len(p) + i] = q[i]
  BY <1>1, <1>2
<1>4. p \o q = r
  BY <1>2, <1>3, Glued
<1> QED
  BY <1>1, <1>4, Zenon

LEMMA SixLiteral ==
  ASSUME NEW S, NEW a \in S, NEW b \in S, NEW c \in S, NEW d \in S, NEW e \in S, NEW f \in S
  PROVE  <<a, b, c, d>> \o <<e, f>> = <<a, b, c, d, e, f>>
<1>1. PICK p, q, r : p = <<a, b, c, d>> /\ q = <<e, f>> /\ r = <<a, b, c, d, e, f>>
  OBVIOUS
<1>2. p \in Seq(S) /\ q \in Seq(S) /\ r \in Seq(S) /\ Len(p) = 4 /\ Len(q) = 2 /\ Len(r) = 6
  BY <1>1
<1>3. /\ Len(r) = Len(p) + Len(q)
      /\ \A i \in 1 .. Len(p) : r[i] = p[i]
      /\ \A i \in 1 .. Len(q) : r[Len(p) + i] = q[i]
  BY <1>1, <1>2
<1>4. p \o q = r
  BY <1>2, <1>3, Glued
<1> QED
  BY <1>1, <1>4, Zenon

\* What is glued to a sequence begins behind it.
LEMMA BehindIt ==
  ASSUME NEW S, NEW p \in Seq(S), NEW q \in Seq(S), NEW n \in Nat, n = Len(p)
  PROVE  IsPrefix(p, p \o q) /\ SubSeq(p \o q, n + 1, Len(p \o q)) = q
<1>1. Len(p) \in Nat /\ Len(q) \in Nat
  BY LenProperties
<1>2. PICK c : c = p \o q
  OBVIOUS
<1>3. /\ c \in Seq(S) /\ Len(c) = Len(p) + Len(q)
      /\ \A i \in 1 .. Len(p) + Len(q) : c[i] = IF i <= Len(p) THEN p[i] ELSE q[i - Len(p)]
  BY <1>2, ConcatProperties
<1>4. Len(c) \in Nat /\ \A i \in 1 .. Len(c) : c[i] \in S
  BY <1>3, LenProperties, ElementOfSeq
<1>5. SubSeq(c, 1, Len(p)) = p
  <2> DEFINE u == SubSeq(c, 1, Len(p))
  <2>1. 1 \in Int /\ Len(p) \in Int /\ \A i \in 1 .. Len(p) : c[i] \in S
    BY <1>1, <1>3, <1>4
  <2>2. /\ u \in Seq(S)
        /\ Len(u) = IF 1 <= Len(p) THEN Len(p) - 1 + 1 ELSE 0
        /\ \A m \in 1 .. Len(p) - 1 + 1 : u[m] = c[1 + m - 1]
    BY <2>1, SubSeqProperties
  <2> HIDE DEF u
  <2>3. Len(u) = Len(p)
    BY <1>1, <2>2
  <2>4. ASSUME NEW m \in 1 .. Len(u) PROVE u[m] = p[m]
    <3>1. m \in 1 .. Len(p) - 1 + 1 /\ m \in 1 .. Len(p) + Len(q) /\ m <= Len(p) /\ 1 + m - 1 = m
      BY <1>1, <2>3
    <3> QED
      BY <1>3, <2>2, <3>1
  <2> QED
    BY <2>2, <2>3, <2>4, SeqEqual DEF u
<1>6. SubSeq(c, n + 1, Len(c)) = q
  <2> DEFINE u == SubSeq(c, n + 1, Len(c))
  <2>1. n + 1 \in Int /\ Len(c) \in Int /\ \A i \in n + 1 .. Len(c) : c[i] \in S
    BY <1>1, <1>4
  <2>2. /\ u \in Seq(S)
        /\ Len(u) = IF n + 1 <= Len(c) THEN Len(c) - (n + 1) + 1 ELSE 0
        /\ \A m \in 1 .. Len(c) - (n + 1) + 1 : u[m] = c[n + 1 + m - 1]
    BY <2>1, SubSeqProperties
  <2> HIDE DEF u
  <2>3. Len(c) = n + Len(q)
    BY <1>3
  <2>4. Len(u) = Len(q)
    BY <1>1, <2>2, <2>3
  <2>5. ASSUME NEW m \in 1 .. Len(q) PROVE u[m] = q[m]
    <3>1. m \in 1 .. Len(c) - (n + 1) + 1 /\ n + m = n + 1 + m - 1 /\ n + m \in 1 .. Len(p) + Len(q)
          /\ ~(n + m <= Len(p)) /\ n + m - Len(p) = m
      <4>1. m \in Int /\ 1 <= m /\ m <= Len(q) /\ Len(q) \in Nat /\ Len(p) = n
        BY <1>1
      <4> QED
        BY <2>3, <4>1
    <3>2. PICK j : j = n + m
      OBVIOUS
    <3>3. u[m] = c[j]
      BY <2>2, <3>1, <3>2
    <3>4. j \in 1 .. Len(p) + Len(q) /\ ~(j <= Len(p)) /\ j - Len(p) = m
      BY <3>1, <3>2
    <3>5. c[j] = q[m]
      BY <1>3, <3>4
    <3> QED
      BY <3>3, <3>5
  <2> QED
    BY <2>2, <2>4, <2>5, SeqEqual DEF u
<1>7. IsPrefix(p, c)
  <2>1. Len(p) <= Len(c)
    BY <1>1, <1>3
  <2> QED
    BY <1>5, <2>1 DEF IsPrefix
<1> QED
  BY <1>2, <1>6, <1>7

-----------------------------------------------------------------------------
(* What the builders build.                                                  *)

Text == Tokens \ {ESC, BEL}
Ending(r) == IF r.flavor = "osc99" THEN <<ESC, STFinal>> ELSE <<BEL>>

LEMMA TokensDiffer ==
  /\ ESC \notin {BEL, Intro, STFinal, Separator, "notify", "p=title", "p=body"} \cup OscCodes
  /\ BEL \notin {Intro, STFinal, Separator, "notify", "p=title", "p=body"} \cup OscCodes
  /\ Intro # STFinal
  /\ Separator \notin {"notify", "p=title", "p=body"} \cup OscCodes
  /\ {"9", "99", "777"} \subseteq OscCodes
<1>1. ESC \notin {BEL, Intro, STFinal, "notify", "p=title", "p=body"} \cup OscCodes
  BY DEF ESC, BEL, Intro, STFinal, OscCodes
<1>2. BEL \notin {Intro, STFinal, "notify", "p=title", "p=body"} \cup OscCodes
  BY DEF BEL, Intro, STFinal, OscCodes
<1>3. ESC # Separator /\ BEL # Separator
  BY Zenon DEF ESC, BEL, Separator
<1>4. Separator \notin {"notify", "p=title", "p=body"} \cup OscCodes
  BY Zenon DEF Separator, OscCodes
<1>5. Intro # STFinal
  BY DEF Intro, STFinal
<1>6. {"9", "99", "777"} \subseteq OscCodes
  BY DEF OscCodes
<1> QED
  BY <1>1, <1>2, <1>3, <1>4, <1>5, <1>6

LEMMA TextsAre ==
  /\ {Separator, "notify", "p=title", "p=body"} \subseteq Text /\ OscCodes \subseteq Text
  /\ Text \subseteq Tokens /\ ESC \in Tokens /\ BEL \in Tokens /\ Intro \in Tokens
   /\ STFinal \in Tokens
  /\ \A r \in Requests : r.title \in Seq(Text) /\ r.body \in Seq(Text)
<1>1. {Separator, "notify", "p=title", "p=body", ESC, BEL, Intro, STFinal} \subseteq Tokens
       /\ OscCodes \subseteq Tokens
  BY DEF Tokens
<1>2. {Separator, "notify", "p=title", "p=body"} \subseteq Text /\ OscCodes \subseteq Text
  BY <1>1, TokensDiffer DEF Text
<1>3. ASSUME NEW r \in Requests PROVE r.title \in Seq(Text) /\ r.body \in Seq(Text)
  <2>1. Range(r.title) \subseteq Tokens /\ Range(r.body) \subseteq Tokens
    <3>1. Range(r.title) \cup Range(r.body) \in {Range(q.title) \cup Range(q.body) : q \in Requests}
      OBVIOUS
    <3> QED
      BY <3>1 DEF Tokens
  <2>2. r.title \in Seq(Range(r.title) \ {ESC, BEL}) /\ r.body \in Seq(Range(r.body) \ {ESC, BEL})
    BY RequestsAreText DEF IsText
  <2>3. \A S, T, s : S \subseteq T /\ s \in Seq(S) => s \in Seq(T)
    OBVIOUS
  <2>4. Range(r.title) \ {ESC, BEL} \subseteq Text /\ Range(r.body) \ {ESC, BEL} \subseteq Text
    BY <2>1 DEF Text
  <2> QED
    BY <2>2, <2>3, <2>4
<1> QED
  BY <1>1, <1>2, <1>3 DEF Text

\* A code, a separator and data is what the reader takes apart again.
LEMMA CodeAndData ==
  ASSUME NEW code \in OscCodes, NEW data \in Seq(Text),
         NEW w, w = <<code>> \o <<Separator>> \o data
  PROVE  /\ w \in Seq(Text) /\ Len(w) = Len(data) + 2
         /\ ParseBody(w) = <<[code |-> code, data |-> data]>>
<1>1. <<code>> \in Seq(Text) /\ Len(<<code>>) = 1 /\ <<Separator>> \in Seq(Text)
       /\ Len(<<Separator>>) = 1
      /\ <<code>>[1] = code /\ Separator \in Text
  BY TextsAre
<1>2. \A j \in 1 .. Len(<<code>>) : <<code>>[j] # Separator
  BY <1>1, TokensDiffer
<1>3. w \in Seq(Text) /\ Splits(w) /\ Before(w) = <<code>> /\ After(w) = data
  <2>1. PICK c : c = <<code>>
    OBVIOUS
  <2>2. c \in Seq(Text) /\ \A j \in 1 .. Len(c) : c[j] # Separator
    BY <1>1, <1>2, <2>1
  <2>3. w = c \o <<Separator>> \o data
    BY <2>1
  <2>4. w \in Seq(Text) /\ Splits(w) /\ Before(w) = c /\ After(w) = data
    BY <1>1, <2>2, <2>3, GlueSplits
  <2> QED
    BY <2>1, <2>4, Zenon
<1>4. Len(w) = Len(data) + 2
  <2>1. <<code>> \o <<Separator>> \in Seq(Text) /\ Len(<<code>> \o <<Separator>>) = 1 + 1
    BY <1>1, ConcatProperties
  <2>2. Len(w) = Len(<<code>> \o <<Separator>>) + Len(data)
    BY <2>1, ConcatProperties
  <2>3. Len(data) \in Nat
    BY LenProperties
  <2> QED
    BY <2>1, <2>2, <2>3
<1>5. Len(Before(w)) = 1 /\ Before(w)[1] = code
  BY <1>1, <1>3
<1>6. ParseBody(w) = <<[code |-> code, data |-> data]>>
  BY <1>3, <1>5 DEF ParseBody
<1> QED
  BY <1>3, <1>4, <1>5, <1>6

LEMMA Groups ==
  ASSUME NEW S
  PROVE  \A a, b, c \in Seq(S) : (a \o b) \o c = a \o (b \o c)
BY ConcatAssociative

\* It does not matter where three texts are put together first.
Regrouped(a, b, c) == (a \o b) \o c = a \o (b \o c)

LEMMA TextsRegroup ==
  \A a, b, c \in Seq(Tokens) : Regrouped(a, b, c)
BY Groups DEF Regrouped

\* A built sequence is the introducer, a text and an ending.
LEMMA BuiltParts ==
  ASSUME NEW r \in Requests
  PROVE  \E w \in Seq(Text), osc \in Oscs :
           /\ BuildOsc(r) = <<ESC, Intro>> \o w \o Ending(r)
           /\ Len(w) = BodyLength(r)
           /\ ParseBody(w) = <<osc>> /\ ParseNotification(osc) = Wanted(r)
<1> DEFINE Sep == <<Separator>>
<1>1. r.title \in Seq(Text) /\ r.body \in Seq(Text) /\ Text \subseteq Tokens
  BY TextsAre
<1>2. ASSUME NEW code \in OscCodes, NEW data \in Seq(Text), NEW w, w = <<code>> \o Sep \o data,
             BuildOsc(r) = <<ESC, Intro>> \o w \o Ending(r),
             ParseNotification([code |-> code, data |-> data]) = Wanted(r)
      PROVE  \E osc \in Oscs :
               /\ w \in Seq(Text) /\ Len(w) = BodyLength(r)
               /\ ParseBody(w) = <<osc>> /\ ParseNotification(osc) = Wanted(r)
  <2>1. w \in Seq(Text) /\ ParseBody(w) = <<[code |-> code, data |-> data]>>
    BY <1>2, CodeAndData
  <2>2. PICK osc : osc = [code |-> code, data |-> data]
    OBVIOUS
  <2>3. osc \in Oscs
    <3>1. w \in Seq(Tokens)
      BY <1>1, <2>1
    <3>2. PICK o : o = [code |-> Before(w)[1], data |-> After(w)]
      OBVIOUS
    <3>3. ParseBody(w) = <<osc>>
      BY <2>1, <2>2
    <3>4. ParseBody(w) \in {<<>>, <<o>>}
      BY <3>2, Zenon DEF ParseBody
    <3>5. osc = o
      BY <3>3, <3>4
    <3> QED
      BY <3>1, <3>2, <3>5 DEF Oscs
  <2>4. ParseBody(w) = <<osc>> /\ ParseNotification(osc) = Wanted(r)
    BY <1>2, <2>1, <2>2, Zenon
  <2>5. Len(w) = BodyLength(r)
    <3>1. PICK e : e = Ending(r)
      OBVIOUS
    <3>2. e \in Seq(Tokens) /\ Len(e) = (IF r.flavor = "osc99" THEN 2 ELSE 1)
      BY <3>1, TextsAre DEF Ending
    <3>3. PICK h : h = <<ESC, Intro>>
      OBVIOUS
    <3>4. h \in Seq(Tokens) /\ Len(h) = 2
      BY <3>3, TextsAre
    <3>5. w \in Seq(Tokens)
      BY <1>1, <2>1
    <3>6. PICK g : g = h \o w
      OBVIOUS
    <3>7. g \in Seq(Tokens) /\ Len(g) = 2 + Len(w)
      <4>1. g \in Seq(Tokens) /\ Len(g) = Len(h) + Len(w)
        BY <3>4, <3>5, <3>6, ConcatProperties
      <4> QED
        BY <3>4, <4>1
    <3>8. BuildOsc(r) = g \o e
      BY <1>2, <3>1, <3>3, <3>6, Zenon
    <3>9. Len(BuildOsc(r)) = 2 + Len(w) + Len(e)
      <4>1. Len(g \o e) = Len(g) + Len(e)
        BY <3>2, <3>7, ConcatProperties, Zenon
      <4> QED
        BY <3>7, <3>8, <4>1
    <3>10. Len(w) \in Nat
      BY <3>5, LenProperties
    <3> QED
      BY <3>2, <3>9, <3>10 DEF BodyLength
  <2> QED
    BY <2>1, <2>5, <2>3, <2>4, Zenon
<1>3. ASSUME NEW code \in OscCodes, NEW data \in Seq(Text)
      PROVE  <<ESC, Intro>> \o (<<code>> \o Sep \o data) \o Ending(r)
               = <<ESC, Intro, code, Separator>> \o data \o Ending(r)
  <2>1. PICK h, c, e, p : h = <<ESC, Intro>> /\ c = <<code, Separator>> /\ e = Ending(r)
                          /\ p = <<ESC, Intro, code, Separator>>
    OBVIOUS
  <2>2. ESC \in Tokens /\ Intro \in Tokens /\ code \in Tokens /\ Separator \in Tokens
    BY TextsAre
  <2>3. h \in Seq(Tokens) /\ c \in Seq(Tokens) /\ data \in Seq(Tokens) /\ e \in Seq(Tokens)
    BY <1>1, <2>1, <2>2, TextsAre DEF Ending
  <2>4. h \o c = p /\ <<code>> \o Sep = c
    <3>1. <<ESC, Intro>> \o <<code, Separator>> = <<ESC, Intro, code, Separator>>
      BY <2>2, FourLiteral, ZenonT(40)
    <3>2. <<code>> \o <<Separator>> = <<code, Separator>>
      BY <2>2, TwoLiteral, Zenon
    <3> QED
      BY <2>1, <3>1, <3>2, Zenon
  <2>5. h \o (c \o data) = p \o data
    <3>1. Regrouped(h, c, data)
      BY <2>3, TextsRegroup, Zenon
    <3> QED
      BY <2>4, <3>1, Zenon DEF Regrouped
  <2>6. (h \o ((<<code>> \o Sep) \o data)) \o e = (p \o data) \o e
    BY <2>4, <2>5, Zenon
  <2> QED
    BY <2>1, <2>6, Zenon
<1>4. CASE r.flavor = "osc9"
  <2>1. BuildOsc(r) = <<ESC, Intro, "9", Separator>> \o r.body \o Ending(r)
    BY <1>4 DEF BuildOsc, BuildOsc9, Ending
  <2>2. "9" \in OscCodes
    BY TokensDiffer
  <2>3. PICK w : w = <<"9">> \o Sep \o r.body
    OBVIOUS
  <2>4. BuildOsc(r) = <<ESC, Intro>> \o w \o Ending(r)
    BY <1>1, <1>3, <2>1, <2>2, <2>3, Zenon
  <2>5. ParseNotification([code |-> "9", data |-> r.body]) = Wanted(r)
    BY <1>4 DEF ParseNotification, Wanted
  <2> QED
    BY <1>1, <1>2, <2>2, <2>3, <2>4, <2>5
<1>5. ASSUME NEW code \in OscCodes, NEW a \in Text, NEW rest \in Seq(Text)
      PROVE  /\ <<ESC, Intro, code, Separator, a, Separator>> \o rest
                  = <<ESC, Intro, code, Separator>> \o (<<a, Separator>> \o rest)
             /\ <<a, Separator>> \o rest \in Seq(Text)
  <2>1. PICK p, n, q : p = <<ESC, Intro, code, Separator>> /\ n = <<a, Separator>>
                       /\ q = <<ESC, Intro, code, Separator, a, Separator>>
    OBVIOUS
  <2>2. ESC \in Tokens /\ Intro \in Tokens /\ code \in Tokens /\ Separator \in Tokens
         /\ a \in Tokens
        /\ Separator \in Text
    BY TextsAre
  <2>3. p \in Seq(Tokens) /\ n \in Seq(Tokens) /\ n \in Seq(Text)
    BY <2>1, <2>2
  <2>4. p \o n = q
    <3>1. <<ESC, Intro, code, Separator>> \o <<a, Separator>>
              = <<ESC, Intro, code, Separator, a, Separator>>
      BY <2>2, SixLiteral
    <3> QED
      BY <2>1, <3>1, Zenon
  <2>5. rest \in Seq(Tokens)
    BY <1>1
  <2>6. (p \o n) \o rest = p \o (n \o rest)
    BY <2>3, <2>5, Groups
  <2>7. n \o rest \in Seq(Text)
    BY <2>3, ConcatProperties
  <2> QED
    BY <2>1, <2>4, <2>6, <2>7, Zenon
<1>6. CASE r.flavor = "osc777"
  <2>1. PICK rest : rest = r.title \o Sep \o r.body
    OBVIOUS
  <2>2. \A j \in 1 .. Len(r.title) : r.title[j] # Separator
    BY <1>1, <1>6, RequestsAreText DEF Range
  <2>3. Separator \in Text /\ "notify" \in Text /\ "777" \in OscCodes
    BY TextsAre, TokensDiffer
  <2>4. rest \in Seq(Text) /\ Splits(rest) /\ Before(rest) = r.title /\ After(rest) = r.body
    <3>1. PICK a, b : a = r.title /\ b = r.body
      OBVIOUS
    <3>2. a \in Seq(Text) /\ b \in Seq(Text) /\ (\A j \in 1 .. Len(a) : a[j] # Separator)
          /\ rest = a \o <<Separator>> \o b
      BY <1>1, <2>1, <2>2, <3>1, Zenon
    <3>3. rest \in Seq(Text) /\ Splits(rest) /\ Before(rest) = a /\ After(rest) = b
      BY <2>3, <3>2, GlueSplits, Zenon
    <3> QED
      BY <3>1, <3>3, Zenon
  <2>5. PICK data : data = <<"notify", Separator>> \o rest
    OBVIOUS
  <2>6. PICK w : w = <<"777">> \o Sep \o data
    OBVIOUS
  <2>7. /\ <<ESC, Intro, "777", Separator, "notify", Separator>> \o rest
            = <<ESC, Intro, "777", Separator>> \o data
        /\ data \in Seq(Text)
    <3>1. /\ <<ESC, Intro, "777", Separator, "notify", Separator>> \o rest
               = <<ESC, Intro, "777", Separator>> \o (<<"notify", Separator>> \o rest)
          /\ <<"notify", Separator>> \o rest \in Seq(Text)
      BY <1>5, <2>3, <2>4, Zenon
    <3> QED
      BY <2>5, <3>1, Zenon
  <2>8. BuildOsc(r) = <<ESC, Intro, "777", Separator>> \o data \o Ending(r)
    <3>1. PICK q, s, e : q = <<ESC, Intro, "777", Separator, "notify", Separator>> /\ s = Sep
                /\ e = <<BEL>>
      OBVIOUS
    <3>2. BuildOsc(r) = (((q \o r.title) \o s) \o r.body) \o e
      BY <1>6, <3>1 DEF BuildOsc, BuildOsc777
    <3>3. q \in Seq(Tokens) /\ s \in Seq(Tokens) /\ r.title \in Seq(Tokens)
           /\ r.body \in Seq(Tokens)
      BY <1>1, <2>3, <3>1, TextsAre, TokensDiffer
    <3>4. ((q \o r.title) \o s) \o r.body = q \o rest
      <4>1. PICK a, b : a = r.title /\ b = r.body
        OBVIOUS
      <4>2. a \in Seq(Tokens) /\ b \in Seq(Tokens)
        BY <3>3, <4>1
      <4>3. ((q \o a) \o s) \o b = q \o ((a \o s) \o b)
        <5>1. PICK f : f = a \o s
          OBVIOUS
        <5>2. f \in Seq(Tokens)
          BY <3>3, <4>2, <5>1, ConcatProperties
        <5>3. Regrouped(q, a, s) /\ Regrouped(q, f, b)
          BY <3>3, <4>2, <5>2, TextsRegroup, Zenon
        <5>4. (q \o a) \o s = q \o f /\ (q \o f) \o b = q \o (f \o b)
          BY <5>1, <5>3, Zenon DEF Regrouped
        <5> QED
          BY <5>1, <5>4, Zenon
      <4> QED
        BY <2>1, <3>1, <4>1, <4>3, Zenon
    <3>5. e = Ending(r)
      BY <1>6, <3>1 DEF Ending
    <3> QED
      BY <2>7, <3>1, <3>2, <3>4, <3>5, Zenon
  <2>9. BuildOsc(r) = <<ESC, Intro>> \o w \o Ending(r)
    BY <1>3, <2>3, <2>6, <2>7, <2>8, Zenon
  <2>10. ParseNotification([code |-> "777", data |-> data]) = Wanted(r)
    <3>1. PICK n : n = <<"notify", Separator>>
      OBVIOUS
    <3>2. n \in Seq(Text) /\ Len(n) = 2 /\ data = n \o rest
      BY <2>3, <2>5, <3>1
    <3>3. IsPrefix(n, data) /\ SubSeq(data, 2 + 1, Len(data)) = rest
      <4>1. 2 \in Nat
        OBVIOUS
      <4> QED
        BY <2>4, <3>2, <4>1, BehindIt
    <3>4. IsPrefix(<<"notify", Separator>>, data) /\ SubSeq(data, 3, Len(data)) = rest
      <4>1. 2 + 1 = 3
        OBVIOUS
      <4> QED
        BY <3>1, <3>3, <4>1, Zenon
    <3>5. ParseOsc777(data) = Notification(r.title, r.body)
      BY <2>4, <3>4, Zenon DEF ParseOsc777
    <3>6. Wanted(r) = Notification(r.title, r.body)
      BY <1>6 DEF Wanted
    <3>7. ParseNotification([code |-> "777", data |-> data]) = ParseOsc777(data)
      BY DEF ParseNotification
    <3> QED
      BY <3>5, <3>6, <3>7
  <2> QED
    BY <1>2, <2>3, <2>6, <2>7, <2>9, <2>10
<1>7. CASE r.flavor = "osc99"
  <2>1. PICK field, payload : field = (IF r.title = <<>> THEN "p=body" ELSE "p=title")
                              /\ payload = (IF r.title = <<>> THEN r.body ELSE r.title)
    OBVIOUS
  <2>2. payload \in Seq(Text) /\ field \in Text /\ Separator \in Text /\ "99" \in OscCodes
         /\ field # Separator
    <3>1. field \in {"p=body", "p=title"} /\ payload \in Seq(Text)
      BY <1>1, <2>1
    <3> QED
      BY <3>1, TextsAre, TokensDiffer
  <2>3. PICK data : data = <<field, Separator>> \o payload
    OBVIOUS
  <2>4. PICK w : w = <<"99">> \o Sep \o data
    OBVIOUS
  <2>5. /\ <<ESC, Intro, "99", Separator, field, Separator>> \o payload
            = <<ESC, Intro, "99", Separator>> \o data
        /\ data \in Seq(Text)
    <3>1. /\ <<ESC, Intro, "99", Separator, field, Separator>> \o payload
               = <<ESC, Intro, "99", Separator>> \o (<<field, Separator>> \o payload)
          /\ <<field, Separator>> \o payload \in Seq(Text)
      BY <1>5, <2>2, Zenon
    <3> QED
      BY <2>3, <3>1, Zenon
  <2>6. BuildOsc(r) = BuildOsc99(field, payload)
    BY <1>7, <2>1 DEF BuildOsc
  <2>7. BuildOsc(r) = <<ESC, Intro, "99", Separator, field, Separator>> \o payload \o Ending(r)
    BY <1>7, <2>6 DEF BuildOsc99, Ending
  <2>8. BuildOsc(r) = <<ESC, Intro>> \o w \o Ending(r)
    BY <1>3, <2>2, <2>4, <2>5, <2>7, Zenon
  <2>9. Splits(data) /\ Before(data) = <<field>> /\ After(data) = payload
    <3>1. PICK c : c = <<field>>
      OBVIOUS
    <3>2. <<field>> \o <<Separator>> = <<field, Separator>>
      BY <2>2, TwoLiteral, Zenon
    <3>3. data = c \o <<Separator>> \o payload
      BY <2>3, <3>1, <3>2, Zenon
    <3>4. c \in Seq(Text) /\ \A j \in 1 .. Len(c) : c[j] # Separator
      BY <2>2, <3>1
    <3>5. Splits(data) /\ Before(data) = c /\ After(data) = payload
      BY <2>2, <3>3, <3>4, GlueSplits
    <3> QED
      BY <3>1, <3>5, Zenon
  <2>10. ParseOsc99(data) = Wanted(r)
    <3>1. CASE r.title = <<>>
      <4>1. Before(data) # <<"p=title">>
        BY <2>1, <2>9, <3>1
      <4>2. ParseOsc99(data) = Notification(<<>>, r.body)
        BY <2>1, <2>9, <3>1, <4>1 DEF ParseOsc99
      <4> QED
        BY <1>7, <3>1, <4>2 DEF Wanted
    <3>2. CASE r.title # <<>>
      <4>1. Before(data) = <<"p=title">>
        BY <2>1, <2>9, <3>2, Zenon
      <4>2. ParseOsc99(data) = Notification(r.title, <<>>)
        BY <2>1, <2>9, <3>2, <4>1 DEF ParseOsc99
      <4> QED
        BY <1>7, <3>2, <4>2 DEF Wanted
    <3> QED
      BY <3>1, <3>2
  <2>11. ParseNotification([code |-> "99", data |-> data]) = Wanted(r)
    BY <2>10 DEF ParseNotification
  <2> QED
    BY <1>2, <2>2, <2>4, <2>5, <2>8, <2>11
<1> QED
  BY <1>4, <1>6, <1>7, RequestsAreText

-----------------------------------------------------------------------------
(* The scanner, sequence by sequence.                                        *)

Scan(s, q) == Fold(Folding("scan"), s, q)
RecordedFrom(earlier, oscs) == Fold(Folding("record"), earlier, oscs)

LEMMA StepsAre ==
  ASSUME NEW acc, NEW x
  PROVE  /\ Step(Folding("scan"), acc, x) = ScanByte(acc, x)
         /\ Step(Folding("record"), acc, x) = RecordOsc(acc, x)
         /\ Step(Folding("outcome"), acc, x) = Outcome(acc, x)
BY DEF Step, Folding

LEMMA ScanMore ==
  ASSUME NEW s, NEW S, NEW q \in Seq(S), NEW x \in S
  PROVE  Scan(s, Append(q, x)) = ScanByte(Scan(s, q), x)
<1>1. Fold(Folding("scan"), s, Append(q, x)) = Step(Folding("scan"), Fold(Folding("scan"), s, q), x)
  BY FoldMore
<1> QED
  BY <1>1, StepsAre DEF Scan

LEMMA ScanOne ==
  ASSUME NEW s, NEW x
  PROVE  Scan(s, <<x>>) = ScanByte(s, x)
<1>1. PICK S : S = {x}
  OBVIOUS
<1>2. <<>> \in Seq(S) /\ x \in S
  BY <1>1
<1>3. Scan(s, Append(<<>>, x)) = ScanByte(Scan(s, <<>>), x)
  BY <1>2, ScanMore
<1>4. Append(<<>>, x) = <<x>>
  OBVIOUS
<1>5. Scan(s, <<>>) = s
  BY FoldNone DEF Scan
<1> QED
  BY <1>3, <1>4, <1>5, Zenon

LEMMA ScanTwo ==
  ASSUME NEW s, NEW x, NEW y
  PROVE  Scan(s, <<x, y>>) = ScanByte(ScanByte(s, x), y)
<1>1. PICK S : S = {x, y}
  OBVIOUS
<1>2. <<x>> \in Seq(S) /\ x \in S /\ y \in S
  BY <1>1
<1>3. Scan(s, Append(<<x>>, y)) = ScanByte(Scan(s, <<x>>), y)
  BY <1>2, ScanMore
<1>4. Append(<<x>>, y) = <<x, y>>
  <2>1. Append(<<x>>, y) = <<x>> \o <<y>>
    BY <1>2, AppendIsConcat
  <2>2. <<x>> \o <<y>> = <<x, y>>
    BY <1>2, TwoLiteral
  <2> QED
    BY <2>1, <2>2, Zenon
<1>5. Scan(s, <<x>>) = ScanByte(s, x)
  BY ScanOne
<1> QED
  BY <1>3, <1>4, <1>5, Zenon

LEMMA TextScanned ==
  ASSUME NEW o, NEW w \in Seq(Text)
  PROVE  /\ \A b : Scan(Sc("Idle", b, o), w) = Sc("Idle", b, o)
         /\ Len(w) <= MaxPending => Scan(Sc("InBody", <<>>, o), w) = Sc("InBody", w, o)
         /\ ~(Len(w) <= MaxPending) => Scan(Sc("InBody", <<>>, o), w) = Sc("Idle", <<>>, o)
<1>1. \A x \in Text : x # ESC /\ x # BEL
  BY DEF Text
<1>2. ASSUME NEW b PROVE Scan(Sc("Idle", b, o), w) = Sc("Idle", b, o)
  <2>1. PICK I : I = {Sc("Idle", b, o)}
    OBVIOUS
  <2>2. \A a \in I, x \in Text : Step(Folding("scan"), a, x) \in I
    BY <1>1, <2>1, StepsAre, ScanByteIs
  <2>3. Fold(Folding("scan"), Sc("Idle", b, o), w) \in I
    <3>1. Sc("Idle", b, o) \in I
      BY <2>1
    <3> QED
      BY <2>2, <3>1, FoldKeeps
  <2> QED
    BY <2>1, <2>3 DEF Scan
<1> DEFINE in == Sc("InBody", <<>>, o)
           P == {q \in Seq(Text) : /\ Len(q) <= MaxPending => Scan(in, q) = Sc("InBody", q, o)
                                   /\ ~(Len(q) <= MaxPending) => Scan(in, q) = Sc("Idle", <<>>, o)}
<1>3. <<>> \in P
  <2>1. Scan(in, <<>>) = in
    BY FoldNone DEF Scan
  <2>2. Len(<<>>) <= MaxPending /\ <<>> \in Seq(Text)
    BY OscAssumption
  <2> QED
    BY <2>1, <2>2
<1>4. ASSUME NEW q \in Seq(Text), q \in P, NEW x \in Text
      PROVE  Append(q, x) \in P
  <2>1. PICK a : a = Append(q, x)
    OBVIOUS
  <2>2. a \in Seq(Text) /\ Len(a) = Len(q) + 1 /\ Len(q) \in Nat
    BY <2>1, AppendProperties
  <2>3. Scan(in, a) = ScanByte(Scan(in, q), x)
    BY <2>1, ScanMore
  <2>4. x # ESC /\ x # BEL
    BY <1>1
  <2>5. CASE Len(q) <= MaxPending
    <3>1. Scan(in, a) = ScanByte(Sc("InBody", q, o), x)
      BY <1>4, <2>3, <2>5
    <3>2. Scan(in, a) = IF Len(q) + 1 > MaxPending THEN Sc("Idle", <<>>, o) ELSE Sc("InBody", a, o)
      BY <2>1, <2>4, <3>1, ScanByteIs
    <3>3. Len(q) + 1 > MaxPending <=> ~(Len(a) <= MaxPending)
      BY <2>2, OscAssumption
    <3> HIDE DEF in
    <3>4. /\ Len(a) <= MaxPending => Scan(in, a) = Sc("InBody", a, o)
          /\ ~(Len(a) <= MaxPending) => Scan(in, a) = Sc("Idle", <<>>, o)
      BY <3>2, <3>3
    <3> QED
      BY <2>1, <2>2, <3>4
  <2>6. CASE ~(Len(q) <= MaxPending)
    <3>1. Scan(in, a) = ScanByte(Sc("Idle", <<>>, o), x)
      BY <1>4, <2>3, <2>6
    <3>2. Scan(in, a) = Sc("Idle", <<>>, o)
      BY <2>4, <3>1, ScanByteIs
    <3>3. ~(Len(a) <= MaxPending)
      BY <2>2, <2>6, OscAssumption
    <3> HIDE DEF in
    <3> QED
      BY <2>1, <2>2, <3>2, <3>3
  <2> QED
    BY <2>5, <2>6
<1>5. \A q \in Seq(Text) : q \in P
  <2> HIDE DEF P
  <2> QED
    BY <1>3, <1>4, SeqsBuilt
<1> QED
  BY <1>2, <1>5

LEMMA EndsScanned ==
  ASSUME NEW r, NEW o, NEW b
  PROVE  /\ Scan(Sc("Idle", b, o), Ending(r)) = Sc("Idle", b, o)
         /\ Scan(Sc("InBody", b, o), Ending(r)) = Sc("Idle", <<>>, o \o ParseBody(b))
         /\ Scan(Sc("Idle", b, o), <<ESC, Intro>>) = Sc("InBody", <<>>, o)
         /\ Scan(Sc("EscArmed", b, o), <<ESC, Intro>>) = Sc("InBody", <<>>, o)
         /\ Scan(Sc("BodyEsc", b, o), <<ESC, Intro>>) = Sc("InBody", <<>>, o)
         /\ Scan(Sc("InBody", b, o), <<ESC, Intro>>) = Sc("Idle", <<>>, o)
<1>1. ESC # BEL /\ ESC # Intro /\ ESC # STFinal /\ BEL # Intro /\ BEL # STFinal /\ Intro # STFinal
  BY TokensDiffer
<1>2. CASE r.flavor = "osc99"
  <2>1. Ending(r) = <<ESC, STFinal>>
    BY <1>2 DEF Ending
  <2> QED
    BY <1>1, <2>1, ScanTwo, ScanByteIs
<1>3. CASE r.flavor # "osc99"
  <2>1. Ending(r) = <<BEL>>
    BY <1>3 DEF Ending
  <2> QED
    BY <1>1, <2>1, ScanOne, ScanTwo, ScanByteIs
<1> QED
  BY <1>2, <1>3

\* A built sequence is found, if it fits, unless somebody left a sequence open.
LEMMA RequestScanned ==
  ASSUME NEW r \in Requests
  PROVE  \E osc \in Oscs :
           /\ ParseNotification(osc) = Wanted(r)
           /\ \A b, o : \A state \in {"Idle", "EscArmed", "BodyEsc"} :
                Scan(Sc(state, b, o), BuildOsc(r))
                  = Sc("Idle", <<>>, IF BodyLength(r) <= MaxPending THEN o \o <<osc>> ELSE o)
           /\ \A b, o : Scan(Sc("InBody", b, o), BuildOsc(r)) = Sc("Idle", <<>>, o)
<1>1. PICK w \in Seq(Text), osc \in Oscs :
        /\ BuildOsc(r) = <<ESC, Intro>> \o w \o Ending(r)
        /\ Len(w) = BodyLength(r)
        /\ ParseBody(w) = <<osc>> /\ ParseNotification(osc) = Wanted(r)
  BY BuiltParts
<1>2. PICK h, e : h = <<ESC, Intro>> /\ e = Ending(r)
  OBVIOUS
<1>3. h \in Seq(Tokens) /\ e \in Seq(Tokens) /\ w \in Seq(Tokens)
  BY <1>2, TextsAre DEF Ending
<1>4. ASSUME NEW s PROVE Scan(s, BuildOsc(r)) = Scan(Scan(Scan(s, h), w), e)
  <2>1. PICK g : g = h \o w
    OBVIOUS
  <2>2. g \in Seq(Tokens) /\ BuildOsc(r) = g \o e
    BY <1>1, <1>2, <1>3, <2>1, ConcatProperties
  <2>3. Scan(s, g) = Scan(Scan(s, h), w)
    BY <1>3, <2>1, FoldGlue DEF Scan
  <2>4. Scan(s, g \o e) = Scan(Scan(s, g), e)
    BY <1>3, <2>2, FoldGlue DEF Scan
  <2> QED
    BY <2>2, <2>3, <2>4
<1>5. ASSUME NEW b, NEW o, NEW state \in {"Idle", "EscArmed", "BodyEsc"}
      PROVE  Scan(Sc(state, b, o), BuildOsc(r))
               = Sc("Idle", <<>>, IF BodyLength(r) <= MaxPending THEN o \o <<osc>> ELSE o)
  <2>1. Scan(Sc(state, b, o), h) = Sc("InBody", <<>>, o)
    BY <1>2, EndsScanned
  <2>2. CASE Len(w) <= MaxPending
    <3>1. Scan(Sc("InBody", <<>>, o), w) = Sc("InBody", w, o)
      BY <2>2, TextScanned
    <3>2. Scan(Sc("InBody", w, o), e) = Sc("Idle", <<>>, o \o ParseBody(w))
      BY <1>2, EndsScanned
    <3>3. Scan(Sc(state, b, o), BuildOsc(r)) = Sc("Idle", <<>>, o \o ParseBody(w))
      BY <1>4, <2>1, <3>1, <3>2
    <3> QED
      BY <1>1, <2>2, <3>3, Zenon
  <2>3. CASE ~(Len(w) <= MaxPending)
    <3>1. Scan(Sc("InBody", <<>>, o), w) = Sc("Idle", <<>>, o)
      BY <2>3, TextScanned
    <3>2. Scan(Sc("Idle", <<>>, o), e) = Sc("Idle", <<>>, o)
      BY <1>2, EndsScanned
    <3>3. Scan(Sc(state, b, o), BuildOsc(r)) = Sc("Idle", <<>>, o)
      BY <1>4, <2>1, <3>1, <3>2
    <3> QED
      BY <1>1, <2>3, <3>3, Zenon
  <2> QED
    BY <2>2, <2>3
<1>6. ASSUME NEW b, NEW o PROVE Scan(Sc("InBody", b, o), BuildOsc(r)) = Sc("Idle", <<>>, o)
  <2>1. Scan(Sc("InBody", b, o), h) = Sc("Idle", <<>>, o)
    BY <1>2, EndsScanned
  <2>2. Scan(Sc("Idle", <<>>, o), w) = Sc("Idle", <<>>, o)
    BY TextScanned
  <2>3. Scan(Sc("Idle", <<>>, o), e) = Sc("Idle", <<>>, o)
    BY <1>2, EndsScanned
  <2> QED
    BY <1>4, <2>1, <2>2, <2>3
<1> QED
  BY <1>1, <1>5, <1>6, Zenon

-----------------------------------------------------------------------------
(* What is expected, and the scanner that meets it.                          *)

LEMMA ScannersKept ==
  ASSUME NEW s \in Scanners, NEW x \in Tokens
  PROVE  ScanByte(s, x) \in Scanners
<1>1. PICK state \in {"Idle", "EscArmed", "InBody", "BodyEsc"}, b \in Bodies, o \in Seq(Oscs) :
               s = Sc(state, b, o)
  BY DEF Scanners
<1>2. \A st \in {"Idle", "EscArmed", "InBody", "BodyEsc"}, c \in Bodies, p \in Seq(Oscs) :
          Sc(st, c, p) \in Scanners
  BY DEF Scanners
<1>3. <<>> \in Bodies
  BY OscAssumption DEF Bodies
<1>4. o \o ParseBody(b) \in Seq(Oscs)
  <2>1. ParseBody(b) \in Seq(Oscs)
    <3>1. PICK osc : osc = [code |-> Before(b)[1], data |-> After(b)]
      OBVIOUS
    <3>2. osc \in Oscs
      BY <3>1 DEF Oscs, Bodies
    <3>3. <<osc>> \in Seq(Oscs) /\ <<>> \in Seq(Oscs)
      BY <3>2
    <3>4. ParseBody(b) \in {<<>>, <<osc>>}
      BY <3>1, Zenon DEF ParseBody
    <3> QED
      BY <3>3, <3>4
  <2> QED
    BY <2>1, ConcatProperties
<1>5. ASSUME ~(Len(b) + 1 > MaxPending)
      PROVE  Append(b, x) \in Bodies
  <2>1. b \in Seq(Tokens) /\ Len(b) \in Nat
    BY LenProperties DEF Bodies
  <2>2. Append(b, x) \in Seq(Tokens) /\ Len(Append(b, x)) = Len(b) + 1
    BY <2>1, AppendProperties
  <2> QED
    BY <1>5, <2>1, <2>2, OscAssumption DEF Bodies
<1>6. CASE state = "Idle"
  BY <1>1, <1>2, <1>6, ScanByteIs
<1>7. CASE state = "EscArmed"
  BY <1>1, <1>2, <1>3, <1>7, ScanByteIs
<1>8. CASE state = "InBody"
  <2>1. ScanByte(Sc("InBody", b, o), x) = IF x = BEL THEN Sc("Idle", <<>>, o \o ParseBody(b))
                         ELSE IF x = ESC THEN Sc("BodyEsc", b, o)
                         ELSE IF Len(b) + 1 > MaxPending THEN Sc("Idle", <<>>, o)
                         ELSE Sc("InBody", Append(b, x), o)
    BY ScanByteIs
  <2> QED
    <3>1. /\ Sc("Idle", <<>>, o \o ParseBody(b)) \in Scanners /\ Sc("BodyEsc", b, o) \in Scanners
          /\ Sc("Idle", <<>>, o) \in Scanners
          /\ ~(Len(b) + 1 > MaxPending) => Sc("InBody", Append(b, x), o) \in Scanners
      BY <1>2, <1>3, <1>4, <1>5, Zenon
    <3>2. ScanByte(Sc("InBody", b, o), x) \in Scanners
      BY <2>1, <3>1
    <3> QED
      BY <1>1, <1>8, <3>2
<1>9. CASE state = "BodyEsc"
  <2>1. ScanByte(Sc("BodyEsc", b, o), x) = IF x = STFinal THEN Sc("Idle", <<>>, o \o ParseBody(b))
                         ELSE IF x = ESC THEN Sc("EscArmed", <<>>, o) ELSE Sc("Idle", <<>>, o)
    BY ScanByteIs
  <2> QED
    <3>1. /\ Sc("Idle", <<>>, o \o ParseBody(b)) \in Scanners
           /\ Sc("EscArmed", <<>>, o) \in Scanners
          /\ Sc("Idle", <<>>, o) \in Scanners
      BY <1>2, <1>3, <1>4, Zenon
    <3>2. ScanByte(Sc("BodyEsc", b, o), x) \in Scanners
      BY <2>1, <3>1
    <3> QED
      BY <1>1, <1>9, <3>2
<1> QED
  BY <1>6, <1>7, <1>8, <1>9

\* A built sequence begins with an ESC and is longer than any noise.
LEMMA RequestBegins ==
  ASSUME NEW r \in Requests
  PROVE  /\ BuildOsc(r) \in Seq(Tokens) /\ Head(BuildOsc(r)) = ESC
         /\ BuildOsc(r) \notin {<<ESC>>, <<BEL>>, <<ESC, Intro>>}
<1>1. PICK w \in Seq(Text) : BuildOsc(r) = <<ESC, Intro>> \o w \o Ending(r)
  BY BuiltParts
<1>2. PICK h, e, g : h = <<ESC, Intro>> /\ e = Ending(r) /\ g = h \o w
  OBVIOUS
<1>3. /\ h \in Seq(Tokens) /\ e \in Seq(Tokens) /\ w \in Seq(Tokens)
      /\ Len(h) = 2 /\ Len(e) \in {1, 2} /\ h[1] = ESC /\ Len(w) \in Nat
  BY <1>2, TextsAre, LenProperties DEF Ending
<1>4. /\ g \in Seq(Tokens) /\ Len(g) = Len(h) + Len(w)
      /\ \A i \in 1 .. Len(h) + Len(w) : g[i] = IF i <= Len(h) THEN h[i] ELSE w[i - Len(h)]
  BY <1>2, <1>3, ConcatProperties
<1>5. g[1] = ESC
  <2>1. 1 \in 1 .. Len(h) + Len(w) /\ 1 <= Len(h)
    BY <1>3
  <2> QED
    BY <1>3, <1>4, <2>1
<1>6. PICK q : q = g \o e
  OBVIOUS
<1>7. /\ q \in Seq(Tokens) /\ Len(q) = Len(g) + Len(e)
      /\ \A i \in 1 .. Len(g) + Len(e) : q[i] = IF i <= Len(g) THEN g[i] ELSE e[i - Len(g)]
  <2>1. g \in Seq(Tokens) /\ e \in Seq(Tokens)
    BY <1>3, <1>4
  <2> QED
    BY <1>6, <2>1, ConcatProperties
<1>8. Len(q) >= 3 /\ q[1] = ESC
  <2>1. Len(g) >= 2 /\ Len(g) \in Nat /\ Len(e) >= 1 /\ Len(e) \in Nat
    <3>1. Len(g) = 2 + Len(w) /\ Len(w) \in Nat
      BY <1>3, <1>4
    <3>2. Len(e) \in {1, 2}
      BY <1>3
    <3> QED
      BY <3>1, <3>2
  <2>2. 1 \in 1 .. Len(g) + Len(e) /\ 1 <= Len(g)
    BY <2>1
  <2> QED
    BY <1>5, <1>7, <2>1, <2>2
<1>9. Head(q) = q[1]
  BY <1>7 DEF Head
<1>10. BuildOsc(r) = q
  BY <1>1, <1>2, <1>6, Zenon
<1>11. q # <<ESC>> /\ q # <<BEL>> /\ q # <<ESC, Intro>>
  <2>1. Len(q) >= 3
    BY <1>8
  <2>2. ASSUME q = <<ESC>> \/ q = <<BEL>> PROVE FALSE
    <3>1. Len(q) = 1
      BY <2>2
    <3> QED
      BY <2>1, <3>1
  <2>3. ASSUME q = <<ESC, Intro>> PROVE FALSE
    <3>1. Len(q) = 2
      BY <2>3
    <3> QED
      BY <2>1, <3>1
  <2> QED
    BY <2>2, <2>3, Zenon
<1> QED
  BY <1>7, <1>8, <1>9, <1>10, <1>11

\* What is expected after an item.
Acc(shown, open, esc) == [shown |-> shown, open |-> open, esc |-> esc]

LEMMA OutcomeOfRequest ==
  ASSUME NEW r \in Requests, NEW item, item = [noise |-> FALSE, built |-> r],
         NEW shown, NEW open \in Int, NEW esc \in BOOLEAN
  PROVE  /\ BytesOf(item) = BuildOsc(r)
         /\ open < 0 \/ esc
              => Outcome(Acc(shown, open, esc), item)
                   = Acc(IF BodyLength(r) <= MaxPending /\ Wanted(r) # Nothing
                         THEN Append(shown, Wanted(r)) ELSE shown, -1, FALSE)
         /\ ~(open < 0 \/ esc) => Outcome(Acc(shown, open, esc), item) = Acc(shown, -1, FALSE)
<1>1. BytesOf(item) = BuildOsc(r) /\ ~ item.noise /\ item.built = r
  BY DEF BytesOf
<1>2. Head(BytesOf(item)) = ESC /\ BytesOf(item) \notin {<<ESC>>, <<BEL>>, <<ESC, Intro>>}
  BY <1>1, RequestBegins
<1> QED
  BY <1>1, <1>2 DEF Outcome, Acc

LEMMA OutcomeOfNoise ==
  ASSUME NEW n \in Noise, NEW item, item = [noise |-> TRUE, bytes |-> n],
         NEW shown, NEW open \in Int, NEW esc \in BOOLEAN,
         NEW out \in BOOLEAN, out <=> (open < 0 \/ (esc /\ n \in {<<ESC>>, <<ESC, Intro>>}))
  PROVE  /\ BytesOf(item) = n
         /\ Outcome(Acc(shown, open, esc), item)
              = Acc(shown,
                    IF out THEN (IF n = <<ESC, Intro>> THEN 0 ELSE -1)
                    ELSE IF esc THEN -1
                    ELSE IF n = <<ESC>> THEN open
                    ELSE IF n \notin {<<BEL>>, <<ESC, Intro>>} /\ open < MaxPending THEN open + 1
                    ELSE -1,
                    ~ out /\ ~ esc /\ n = <<ESC>>)
<1>1. BytesOf(item) = n /\ item.noise
  BY DEF BytesOf
<1>2. Head(n) = ESC <=> n \in {<<ESC>>, <<ESC, Intro>>}
  <2>1. CASE n \in {<<ESC>>, <<BEL>>, <<ESC, Intro>>}
    <3>1. Head(<<ESC>>) = ESC /\ Head(<<BEL>>) = BEL /\ Head(<<ESC, Intro>>) = ESC
      OBVIOUS
    <3>2. BEL # ESC /\ <<BEL>> # <<ESC>> /\ <<BEL>> # <<ESC, Intro>>
      BY TokensDiffer
    <3> QED
      BY <2>1, <3>1, <3>2
  <2>2. CASE n = <<n[1]>> /\ n[1] \notin {ESC, BEL, Intro, STFinal, Separator}
    <3>1. PICK x : x = n[1]
      OBVIOUS
    <3>2. n = <<x>> /\ x # ESC
      BY <2>2, <3>1
    <3>3. Head(<<x>>) = x /\ <<x>> # <<ESC, Intro>> /\ (<<x>> = <<ESC>> => x = ESC)
      OBVIOUS
    <3> QED
      BY <3>2, <3>3
  <2> QED
    BY <2>1, <2>2, NoiseIsNothing
<1>3. <<ESC>> # <<ESC, Intro>>
  OBVIOUS
<1> QED
  BY <1>1, <1>2, <1>3, OscAssumption DEF Outcome, Acc

-----------------------------------------------------------------------------
Notes == {ParseNotification(osc) : osc \in Oscs}
Bare(b) == \A i \in 1 .. Len(b) : b[i] # Separator

\* The scanner that has read all is where the reader of the items is.
Meets(s, acc, earlier) ==
  \E b \in Bodies, o \in Seq(Oscs), open \in Int, esc \in BOOLEAN, state \in {"Idle", "EscArmed",
   "InBody", "BodyEsc"} :
    /\ s = Sc(state, b, o) /\ acc = Acc(RecordedFrom(earlier, o), open, esc)
    /\ \/ state \in {"Idle", "EscArmed"} /\ open = -1 /\ ~ esc
       \/ /\ state = IF esc THEN "BodyEsc" ELSE "InBody"
          /\ open = Len(b) /\ Bare(b)

LEMMA RecordedMore ==
  ASSUME NEW earlier, NEW o \in Seq(Oscs), NEW osc \in Oscs
  PROVE  /\ o \o <<osc>> \in Seq(Oscs)
         /\ RecordedFrom(earlier, o \o <<osc>>)
              = IF ParseNotification(osc) = Nothing THEN RecordedFrom(earlier, o)
                ELSE Append(RecordedFrom(earlier, o), ParseNotification(osc))
<1>1. PICK q : q = Append(o, osc)
  OBVIOUS
<1>2. q = o \o <<osc>>
  BY <1>1, AppendIsConcat
<1>3. Fold(Folding("record"), earlier, q)
          = Step(Folding("record"), Fold(Folding("record"), earlier, o), osc)
  BY <1>1, FoldMore
<1>4. q \in Seq(Oscs)
  BY <1>1, AppendProperties
<1>5. RecordedFrom(earlier, q) = RecordOsc(RecordedFrom(earlier, o), osc)
  BY <1>3, StepsAre DEF RecordedFrom
<1> QED
  BY <1>2, <1>4, <1>5 DEF RecordOsc

LEMMA RequestMeets ==
  ASSUME NEW s, NEW acc, NEW earlier, Meets(s, acc, earlier), NEW r \in Requests,
         NEW item, item = [noise |-> FALSE, built |-> r]
  PROVE  Meets(Scan(s, BytesOf(item)), Outcome(acc, item), earlier)
<1>1. PICK b \in Bodies, o \in Seq(Oscs), open \in Int, esc \in BOOLEAN, state \in {"Idle",
            "EscArmed", "InBody", "BodyEsc"} :
    /\ s = Sc(state, b, o) /\ acc = Acc(RecordedFrom(earlier, o), open, esc)
    /\ \/ state \in {"Idle", "EscArmed"} /\ open = -1 /\ ~ esc
       \/ /\ state = IF esc THEN "BodyEsc" ELSE "InBody"
          /\ open = Len(b) /\ Bare(b)
  BY DEF Meets
<1>2. PICK osc \in Oscs :
           /\ ParseNotification(osc) = Wanted(r)
           /\ \A c, p : \A st \in {"Idle", "EscArmed", "BodyEsc"} :
                Scan(Sc(st, c, p), BuildOsc(r))
                  = Sc("Idle", <<>>, IF BodyLength(r) <= MaxPending THEN p \o <<osc>> ELSE p)
           /\ \A c, p : Scan(Sc("InBody", c, p), BuildOsc(r)) = Sc("Idle", <<>>, p)
  BY RequestScanned
<1>3. BytesOf(item) = BuildOsc(r)
  BY OutcomeOfRequest
<1>4. <<>> \in Bodies
  BY OscAssumption DEF Bodies
<1>5. ASSUME NEW p \in Seq(Oscs)
      PROVE  Meets(Sc("Idle", <<>>, p), Acc(RecordedFrom(earlier, p), -1, FALSE), earlier)
  <2>1. -1 \in Int
    OBVIOUS
  <2> QED
    BY <1>4, <2>1 DEF Meets
<1>6. Len(b) \in Nat
  BY LenProperties DEF Bodies
<1>7. CASE state # "InBody"
  <2>1. open < 0 \/ esc
    BY <1>1, <1>7
  <2>2. Scan(s, BytesOf(item))
            = Sc("Idle", <<>>, IF BodyLength(r) <= MaxPending THEN o \o <<osc>> ELSE o)
    <3>1. state \in {"Idle", "EscArmed", "BodyEsc"}
      BY <1>7
    <3>2. Scan(Sc(state, b, o), BuildOsc(r))
            = Sc("Idle", <<>>, IF BodyLength(r) <= MaxPending THEN o \o <<osc>> ELSE o)
      BY <1>2, <3>1, Zenon
    <3>3. s = Sc(state, b, o)
      BY <1>1
    <3> QED
      BY <1>3, <3>2, <3>3, Zenon
  <2>3. Outcome(acc, item) = Acc(IF BodyLength(r) <= MaxPending /\ Wanted(r) # Nothing
                                 THEN Append(RecordedFrom(earlier, o), Wanted(r))
                                     ELSE RecordedFrom(earlier, o), -1, FALSE)
    BY <1>1, <2>1, OutcomeOfRequest
  <2>4. CASE BodyLength(r) <= MaxPending
    <3>1. PICK p : p = o \o <<osc>>
      OBVIOUS
    <3>2. p \in Seq(Oscs) /\ RecordedFrom(earlier, p) = IF Wanted(r)
              = Nothing THEN RecordedFrom(earlier, o)
                                                ELSE Append(RecordedFrom(earlier, o), Wanted(r))
      BY <1>2, <3>1, RecordedMore
    <3>3. Scan(s, BytesOf(item)) = Sc("Idle", <<>>, p)
           /\ Outcome(acc, item) = Acc(RecordedFrom(earlier, p), -1, FALSE)
      BY <2>2, <2>3, <2>4, <3>1, <3>2
    <3> QED
      BY <1>5, <3>2, <3>3
  <2>5. CASE ~(BodyLength(r) <= MaxPending)
    <3>1. Scan(s, BytesOf(item)) = Sc("Idle", <<>>, o)
           /\ Outcome(acc, item) = Acc(RecordedFrom(earlier, o), -1, FALSE)
      BY <2>2, <2>3, <2>5
    <3> QED
      BY <1>5, <3>1
  <2> QED
    BY <2>4, <2>5
<1>8. CASE state = "InBody"
  <2>1. ~(open < 0 \/ esc)
    BY <1>1, <1>6, <1>8
  <2>2. Scan(s, BytesOf(item)) = Sc("Idle", <<>>, o)
    BY <1>1, <1>2, <1>3, <1>8
  <2>3. Outcome(acc, item) = Acc(RecordedFrom(earlier, o), -1, FALSE)
    BY <1>1, <2>1, OutcomeOfRequest
  <2> QED
    BY <1>5, <2>2, <2>3
<1> QED
  BY <1>7, <1>8

LEMMA NoiseScanned ==
  ASSUME NEW n \in Noise, NEW b, NEW o
  PROVE  \/ /\ n = <<ESC>>
            /\ Scan(Sc("Idle", b, o), n) = Sc("EscArmed", b, o)
            /\ Scan(Sc("EscArmed", b, o), n) = Sc("EscArmed", b, o)
            /\ Scan(Sc("InBody", b, o), n) = Sc("BodyEsc", b, o)
            /\ Scan(Sc("BodyEsc", b, o), n) = Sc("EscArmed", <<>>, o)
         \/ /\ n = <<ESC, Intro>>
            /\ Scan(Sc("Idle", b, o), n) = Sc("InBody", <<>>, o)
            /\ Scan(Sc("EscArmed", b, o), n) = Sc("InBody", <<>>, o)
            /\ Scan(Sc("BodyEsc", b, o), n) = Sc("InBody", <<>>, o)
            /\ Scan(Sc("InBody", b, o), n) = Sc("Idle", <<>>, o)
         \/ /\ n = <<BEL>>
            /\ Scan(Sc("Idle", b, o), n) = Sc("Idle", b, o)
            /\ Scan(Sc("EscArmed", b, o), n) = Sc("Idle", b, o)
            /\ Scan(Sc("BodyEsc", b, o), n) = Sc("Idle", <<>>, o)
            /\ Scan(Sc("InBody", b, o), n) = Sc("Idle", <<>>, o \o ParseBody(b))
         \/ \E x \in Tokens \ {Separator} :
            /\ n = <<x>> /\ x # ESC /\ x # BEL
            /\ Scan(Sc("Idle", b, o), n) = Sc("Idle", b, o)
            /\ Scan(Sc("EscArmed", b, o), n) = Sc("Idle", b, o)
            /\ Scan(Sc("BodyEsc", b, o), n) = Sc("Idle", <<>>, o)
            /\ Scan(Sc("InBody", b, o), n)
                 = IF Len(b) + 1 > MaxPending THEN Sc("Idle", <<>>, o)
                     ELSE Sc("InBody", Append(b, x), o)
<1>1. ESC # BEL /\ ESC # Intro /\ ESC # STFinal /\ BEL # Intro /\ BEL # STFinal
  BY TokensDiffer
<1>2. CASE n = <<ESC>>
  <2>1. \A s : Scan(s, n) = ScanByte(s, ESC)
    BY <1>2, ScanOne
  <2> QED
    BY <1>1, <1>2, <2>1, ScanByteIs
<1>3. CASE n = <<ESC, Intro>>
  BY <1>3, EndsScanned
<1>4. CASE n = <<BEL>>
  <2>1. \A s : Scan(s, n) = ScanByte(s, BEL)
    BY <1>4, ScanOne
  <2> QED
    BY <1>1, <1>4, <2>1, ScanByteIs
<1>5. CASE n = <<n[1]>> /\ n[1] \notin {ESC, BEL, Intro, STFinal, Separator}
  <2>1. PICK x : x = n[1]
    OBVIOUS
  <2>2. n = <<x>> /\ x \notin {ESC, BEL, Intro, STFinal, Separator}
    BY <1>5, <2>1
  <2>3. \A s : Scan(s, n) = ScanByte(s, x)
    BY <2>2, ScanOne
  <2>4. x \in Tokens
    <3>1. DOMAIN n = 1 .. 1 /\ n[1] = x
      BY <2>1, <2>2
    <3>2. x \in Range(n)
      BY <3>1 DEF Range
    <3>3. Range(n) \in {Range(m) : m \in Noise}
      OBVIOUS
    <3> QED
      <4>1. x \in UNION {Range(m) : m \in Noise}
        BY <3>2, <3>3
      <4> QED
        BY <4>1 DEF Tokens
  <2>5. /\ Scan(Sc("Idle", b, o), n) = Sc("Idle", b, o)
        /\ Scan(Sc("EscArmed", b, o), n) = Sc("Idle", b, o)
        /\ Scan(Sc("BodyEsc", b, o), n) = Sc("Idle", <<>>, o)
        /\ Scan(Sc("InBody", b, o), n)
             = IF Len(b) + 1 > MaxPending THEN Sc("Idle", <<>>, o)
                 ELSE Sc("InBody", Append(b, x), o)
    BY <2>2, <2>3, ScanByteIs
  <2> QED
    BY <2>2, <2>4, <2>5
<1> QED
  BY <1>2, <1>3, <1>4, <1>5, NoiseIsNothing

LEMMA NoiseDiffers ==
  /\ <<ESC>> # <<BEL>> /\ <<ESC>> # <<ESC, Intro>> /\ <<BEL>> # <<ESC, Intro>>
  /\ \A x : x # ESC /\ x # BEL => <<x>> # <<ESC>> /\ <<x>> # <<BEL>> /\ <<x>> # <<ESC, Intro>>
<1>1. ESC # BEL
  BY TokensDiffer
<1>2. \A x, y : x # y => <<x>> # <<y>>
  OBVIOUS
<1>3. ASSUME NEW x, <<x>> = <<ESC, Intro>> PROVE FALSE
  <2>1. Len(<<x>>) = Len(<<ESC, Intro>>)
    BY <1>3
  <2>2. Len(<<x>>) = 1 /\ Len(<<ESC, Intro>>) = 2
    OBVIOUS
  <2> QED
    BY <2>1, <2>2
<1> QED
  BY <1>1, <1>2, <1>3, Zenon

LEMMA NoiseMeets ==
  ASSUME NEW s, NEW acc, NEW earlier, Meets(s, acc, earlier), NEW n \in Noise,
         NEW item, item = [noise |-> TRUE, bytes |-> n]
  PROVE  Meets(Scan(s, BytesOf(item)), Outcome(acc, item), earlier)
<1>1. PICK b \in Bodies, o \in Seq(Oscs), open \in Int, esc \in BOOLEAN, state \in {"Idle",
            "EscArmed", "InBody", "BodyEsc"} :
    /\ s = Sc(state, b, o) /\ acc = Acc(RecordedFrom(earlier, o), open, esc)
    /\ \/ state \in {"Idle", "EscArmed"} /\ open = -1 /\ ~ esc
       \/ /\ state = IF esc THEN "BodyEsc" ELSE "InBody"
          /\ open = Len(b) /\ Bare(b)
  BY DEF Meets
<1>2. <<>> \in Bodies /\ Bare(<<>>) /\ Len(<<>>) = 0 /\ -1 \in Int /\ 0 \in Int
  BY OscAssumption DEF Bodies, Bare
<1>3. Len(b) \in Nat /\ b \in Seq(Tokens) /\ Len(b) <= MaxPending /\ MaxPending \in Nat
  BY LenProperties, OscAssumption DEF Bodies
<1> DEFINE shown == RecordedFrom(earlier, o)
<1>4. ASSUME NEW c \in Bodies, NEW st \in {"Idle", "EscArmed"}
      PROVE  Meets(Sc(st, c, o), Acc(shown, -1, FALSE), earlier)
  BY <1>2 DEF Meets
<1>5. ASSUME NEW c \in Bodies, Bare(c), NEW p, p = Len(c)
      PROVE  Meets(Sc("InBody", c, o), Acc(shown, p, FALSE), earlier)
              /\ Meets(Sc("BodyEsc", c, o), Acc(shown, p, TRUE), earlier)
  <2>1. p \in Int
    BY <1>5, LenProperties DEF Bodies
  <2> QED
    BY <1>5, <2>1 DEF Meets
<1>6. PICK out \in BOOLEAN : out <=> (open < 0 \/ (esc /\ n \in {<<ESC>>, <<ESC, Intro>>}))
  OBVIOUS
<1>7. /\ BytesOf(item) = n
      /\ Outcome(acc, item)
           = Acc(shown,
                 IF out THEN (IF n = <<ESC, Intro>> THEN 0 ELSE -1)
                 ELSE IF esc THEN -1
                 ELSE IF n = <<ESC>> THEN open
                 ELSE IF n \notin {<<BEL>>, <<ESC, Intro>>} /\ open < MaxPending THEN open + 1
                 ELSE -1,
                 ~ out /\ ~ esc /\ n = <<ESC>>)
  BY <1>1, <1>6, OutcomeOfNoise
<1>8. PICK a2 : a2 = Outcome(acc, item)
  OBVIOUS
<1>9. PICK s2 : s2 = Scan(s, n)
  OBVIOUS
<1>10. SUFFICES Meets(s2, a2, earlier)
  BY <1>7, <1>8, <1>9
<1>11. CASE state \in {"Idle", "EscArmed"} /\ open = -1 /\ ~ esc
  <2>1. out /\ a2 = Acc(shown, IF n = <<ESC, Intro>> THEN 0 ELSE -1, FALSE)
    <3>1. out
      BY <1>6, <1>11
    <3> QED
      BY <1>7, <1>8, <3>1
  <2>2. CASE n = <<ESC, Intro>>
    <3>1. s2 = Sc("InBody", <<>>, o) /\ a2 = Acc(shown, 0, FALSE)
      BY <1>1, <1>9, <1>11, <2>1, <2>2, EndsScanned
    <3> QED
      BY <1>2, <1>5, <3>1
  <2>3. CASE n # <<ESC, Intro>>
    <3>1. s2 \in {Sc("EscArmed", b, o), Sc("Idle", b, o)}
      BY <1>1, <1>9, <1>11, <2>3, NoiseScanned
    <3>2. a2 = Acc(shown, -1, FALSE)
      BY <2>1, <2>3
    <3> QED
      BY <1>4, <3>1, <3>2
  <2> QED
    BY <2>2, <2>3
<1>12. CASE state = "BodyEsc" /\ esc /\ open = Len(b) /\ Bare(b)
  <2>1. out <=> n \in {<<ESC>>, <<ESC, Intro>>}
    BY <1>3, <1>6, <1>12
  <2>2. a2 = Acc(shown, IF n = <<ESC, Intro>> THEN 0 ELSE -1, FALSE)
    BY <1>7, <1>8, <1>12, <2>1
  <2>3. CASE n = <<ESC, Intro>>
    <3>1. s2 = Sc("InBody", <<>>, o) /\ a2 = Acc(shown, 0, FALSE)
      BY <1>1, <1>9, <1>12, <2>2, <2>3, EndsScanned
    <3> QED
      BY <1>2, <1>5, <3>1
  <2>4. CASE n # <<ESC, Intro>>
    <3>1. s2 \in {Sc("EscArmed", <<>>, o), Sc("Idle", <<>>, o)}
      BY <1>1, <1>9, <1>12, <2>4, NoiseScanned
    <3>2. a2 = Acc(shown, -1, FALSE)
      BY <2>2, <2>4
    <3> QED
      BY <1>2, <1>4, <3>1, <3>2
  <2> QED
    BY <2>3, <2>4
<1>13. CASE state = "InBody" /\ ~ esc /\ open = Len(b) /\ Bare(b)
  <2>1. ~ out
    BY <1>3, <1>6, <1>13
  <2>2. a2 = Acc(shown, IF n = <<ESC>> THEN open
                        ELSE IF n \notin {<<BEL>>, <<ESC, Intro>>}
                         /\ open < MaxPending THEN open + 1
                        ELSE -1, n = <<ESC>>)
    BY <1>7, <1>8, <1>13, <2>1
  <2>3. s2 = Scan(Sc("InBody", b, o), n)
    BY <1>1, <1>9, <1>13
  <2>4. CASE n = <<ESC>>
    <3>1. s2 = Sc("BodyEsc", b, o)
      <4>1. Scan(Sc("InBody", b, o), <<ESC>>) = ScanByte(Sc("InBody", b, o), ESC)
        BY ScanOne
      <4>2. ESC # BEL
        BY TokensDiffer
      <4>3. Scan(Sc("InBody", b, o), <<ESC>>) = Sc("BodyEsc", b, o)
        BY <4>1, <4>2, ScanByteIs
      <4> QED
        BY <2>3, <2>4, <4>3
    <3>2. a2 = Acc(shown, open, TRUE)
      BY <2>2, <2>4
    <3> QED
      BY <1>5, <1>13, <3>1, <3>2
  <2>5. CASE n = <<ESC, Intro>>
    <3>1. s2 = Sc("Idle", <<>>, o)
      BY <2>3, <2>5, EndsScanned
    <3>2. a2 = Acc(shown, -1, FALSE)
      BY <2>2, <2>5, NoiseDiffers
    <3> QED
      BY <1>2, <1>4, <3>1, <3>2
  <2>6. CASE n = <<BEL>>
    <3>1. s2 = Sc("Idle", <<>>, o \o ParseBody(b))
      BY <2>3, <2>6, NoiseScanned, NoiseDiffers
    <3>2. ParseBody(b) = <<>>
      <4>1. ~ Splits(b)
        BY <1>3, <1>13, LenProperties DEF Splits, Bare
      <4> QED
        BY <4>1 DEF ParseBody
    <3>3. o \o <<>> = o
      BY ConcatEmptySeq
    <3>4. s2 = Sc("Idle", <<>>, o)
      BY <3>1, <3>2, <3>3
    <3>5. a2 = Acc(shown, -1, FALSE)
      BY <2>2, <2>6, NoiseDiffers
    <3> QED
      BY <1>2, <1>4, <3>4, <3>5
  <2>7. CASE n \notin {<<ESC>>, <<ESC, Intro>>, <<BEL>>}
    <3>1. PICK x \in Tokens \ {Separator} :
            s2 = IF Len(b) + 1 > MaxPending THEN Sc("Idle", <<>>, o)
                ELSE Sc("InBody", Append(b, x), o)
      BY <2>3, <2>7, NoiseScanned
    <3>2. a2 = Acc(shown, IF open < MaxPending THEN open + 1 ELSE -1, FALSE)
      BY <2>2, <2>7
    <3>3. CASE open < MaxPending
      <4>1. PICK c : c = Append(b, x)
        OBVIOUS
      <4>2. c \in Seq(Tokens) /\ Len(c) = Len(b) + 1 /\ (\A i \in 1 .. Len(b) : c[i] = b[i])
             /\ c[Len(b) + 1] = x
        BY <1>3, <4>1, AppendProperties
      <4>3. c \in Bodies
        BY <1>3, <1>13, <3>3, <4>2 DEF Bodies
      <4>4. Bare(c)
        <5>1. \A i \in 1 .. Len(c) : i \in 1 .. Len(b) \/ i = Len(b) + 1
          BY <1>3, <4>2
        <5> QED
          BY <1>13, <4>2, <5>1 DEF Bare
      <4>5. s2 = Sc("InBody", c, o) /\ a2 = Acc(shown, open + 1, FALSE)
        BY <1>3, <1>13, <3>1, <3>2, <3>3, <4>1
      <4>6. open + 1 = Len(c)
        BY <1>13, <4>2
      <4> QED
        BY <1>5, <4>3, <4>4, <4>5, <4>6
    <3>4. CASE ~(open < MaxPending)
      <4>1. s2 = Sc("Idle", <<>>, o) /\ a2 = Acc(shown, -1, FALSE)
        BY <1>3, <1>13, <3>1, <3>2, <3>4
      <4> QED
        BY <1>2, <1>4, <4>1
    <3> QED
      BY <3>3, <3>4
  <2> QED
    BY <2>4, <2>5, <2>6, <2>7
<1> QED
  BY <1>1, <1>11, <1>12, <1>13

-----------------------------------------------------------------------------
(* Batches.                                                                  *)

States == {"Idle", "EscArmed", "InBody", "BodyEsc"}

LEMMA ParsedAre ==
  ASSUME NEW b \in Bodies
  PROVE  ParseBody(b) \in Seq(Oscs)
<1>1. PICK osc : osc = [code |-> Before(b)[1], data |-> After(b)]
  OBVIOUS
<1>2. osc \in Oscs
  BY <1>1 DEF Oscs, Bodies
<1>3. <<osc>> \in Seq(Oscs) /\ <<>> \in Seq(Oscs)
  BY <1>2
<1>4. ParseBody(b) \in {<<>>, <<osc>>}
  BY <1>1, Zenon DEF ParseBody
<1> QED
  BY <1>3, <1>4

\* What a byte completes is added to what was completed before.
ByteAdds(state, b, x) ==
  \E st \in States, c \in Bodies, more \in Seq(Oscs) :
    \A o \in Seq(Oscs) : ScanByte(Sc(state, b, o), x) = Sc(st, c, o \o more)

LEMMA ByteAppends ==
  ASSUME NEW state \in States, NEW b \in Bodies, NEW x \in Tokens
  PROVE  ByteAdds(state, b, x)
<1>1. \A o \in Seq(Oscs) : o \o <<>> = o
  BY ConcatEmptySeq
<1>2. <<>> \in Bodies /\ <<>> \in Seq(Oscs) /\ ParseBody(b) \in Seq(Oscs)
  BY OscAssumption, ParsedAre DEF Bodies
<1>3. "Idle" \in States /\ "EscArmed" \in States /\ "InBody" \in States /\ "BodyEsc" \in States
  BY DEF States
<1>4. ASSUME ~(Len(b) + 1 > MaxPending)
      PROVE  Append(b, x) \in Bodies
  <2>1. b \in Seq(Tokens) /\ Len(b) \in Nat
    BY LenProperties DEF Bodies
  <2>2. Append(b, x) \in Seq(Tokens) /\ Len(Append(b, x)) = Len(b) + 1
    BY <2>1, AppendProperties
  <2> QED
    BY <1>4, <2>1, <2>2, OscAssumption DEF Bodies
<1>5. ASSUME NEW st \in States, NEW c \in Bodies, \A o \in Seq(Oscs) :
                 ScanByte(Sc(state, b, o), x) = Sc(st, c, o)
      PROVE  ByteAdds(state, b, x)
  <2>1. \A o \in Seq(Oscs) : ScanByte(Sc(state, b, o), x) = Sc(st, c, o \o <<>>)
    BY <1>1, <1>5
  <2> QED
    BY <1>2, <2>1 DEF ByteAdds
<1>6. ASSUME NEW st \in States, NEW c \in Bodies,
              \A o \in Seq(Oscs) : ScanByte(Sc(state, b, o), x) = Sc(st, c, o \o ParseBody(b))
       PROVE  ByteAdds(state, b, x)
  BY <1>2, <1>6 DEF ByteAdds
<1>7. CASE state = "Idle"
  <2>1. \A o \in Seq(Oscs) : ScanByte(Sc(state, b, o), x)
           = IF x = ESC THEN Sc("EscArmed", b, o) ELSE Sc("Idle", b, o)
    BY <1>7, ScanByteIs
  <2>2. CASE x = ESC
    <3>1. \A o \in Seq(Oscs) : ScanByte(Sc(state, b, o), x) = Sc("EscArmed", b, o)
      BY <2>1, <2>2
    <3> QED
      BY <1>2, <1>3, <1>5, <3>1, Zenon
  <2>3. CASE x # ESC
    <3>1. \A o \in Seq(Oscs) : ScanByte(Sc(state, b, o), x) = Sc("Idle", b, o)
      BY <2>1, <2>3
    <3> QED
      BY <1>2, <1>3, <1>5, <3>1, Zenon
  <2> QED
    BY <2>2, <2>3
<1>8. CASE state = "EscArmed"
  <2>1. \A o \in Seq(Oscs) : ScanByte(Sc(state, b, o), x)
           = IF x = Intro THEN Sc("InBody", <<>>, o)
             ELSE IF x = ESC THEN Sc("EscArmed", b, o) ELSE Sc("Idle", b, o)
    BY <1>8, ScanByteIs
  <2>2. CASE x = Intro
    <3>1. \A o \in Seq(Oscs) : ScanByte(Sc(state, b, o), x) = Sc("InBody", <<>>, o)
      BY <2>1, <2>2
    <3> QED
      BY <1>2, <1>3, <1>5, <3>1, Zenon
  <2>3. CASE x # Intro /\ x = ESC
    <3>1. \A o \in Seq(Oscs) : ScanByte(Sc(state, b, o), x) = Sc("EscArmed", b, o)
      BY <2>1, <2>3
    <3> QED
      BY <1>2, <1>3, <1>5, <3>1, Zenon
  <2>4. CASE x # Intro /\ x # ESC
    <3>1. \A o \in Seq(Oscs) : ScanByte(Sc(state, b, o), x) = Sc("Idle", b, o)
      BY <2>1, <2>4
    <3> QED
      BY <1>2, <1>3, <1>5, <3>1, Zenon
  <2> QED
    BY <2>2, <2>3, <2>4
<1>9. CASE state = "InBody"
  <2>1. \A o \in Seq(Oscs) : ScanByte(Sc(state, b, o), x)
           = IF x = BEL THEN Sc("Idle", <<>>, o \o ParseBody(b))
             ELSE IF x = ESC THEN Sc("BodyEsc", b, o)
             ELSE IF Len(b) + 1 > MaxPending THEN Sc("Idle", <<>>, o)
             ELSE Sc("InBody", Append(b, x), o)
    BY <1>9, ScanByteIs
  <2>2. CASE x = BEL
    <3>1. \A o \in Seq(Oscs) : ScanByte(Sc(state, b, o), x) = Sc("Idle", <<>>, o \o ParseBody(b))
      BY <2>1, <2>2
    <3> QED
      BY <1>2, <1>3, <1>6, <3>1
  <2>3. CASE x # BEL /\ x = ESC
    <3>1. \A o \in Seq(Oscs) : ScanByte(Sc(state, b, o), x) = Sc("BodyEsc", b, o)
      BY <2>1, <2>3
    <3> QED
      BY <1>2, <1>3, <1>5, <3>1, Zenon
  <2>4. CASE x # BEL /\ x # ESC /\ Len(b) + 1 > MaxPending
    <3>1. \A o \in Seq(Oscs) : ScanByte(Sc(state, b, o), x) = Sc("Idle", <<>>, o)
      BY <2>1, <2>4
    <3> QED
      BY <1>2, <1>3, <1>5, <3>1, Zenon
  <2>5. CASE x # BEL /\ x # ESC /\ ~(Len(b) + 1 > MaxPending)
    <3>1. PICK c \in Bodies : c = Append(b, x)
      BY <1>4, <2>5
    <3>2. \A o \in Seq(Oscs) : ScanByte(Sc(state, b, o), x) = Sc("InBody", c, o)
      BY <2>1, <2>5, <3>1
    <3> QED
      BY <1>3, <1>5, <3>2, Zenon
  <2> QED
    BY <2>2, <2>3, <2>4, <2>5
<1>10. CASE state = "BodyEsc"
  <2>1. \A o \in Seq(Oscs) : ScanByte(Sc(state, b, o), x)
           = IF x = STFinal THEN Sc("Idle", <<>>, o \o ParseBody(b))
             ELSE IF x = ESC THEN Sc("EscArmed", <<>>, o) ELSE Sc("Idle", <<>>, o)
    BY <1>10, ScanByteIs
  <2>2. CASE x = STFinal
    <3>1. \A o \in Seq(Oscs) : ScanByte(Sc(state, b, o), x) = Sc("Idle", <<>>, o \o ParseBody(b))
      BY <2>1, <2>2
    <3> QED
      BY <1>2, <1>3, <1>6, <3>1
  <2>3. CASE x # STFinal /\ x = ESC
    <3>1. \A o \in Seq(Oscs) : ScanByte(Sc(state, b, o), x) = Sc("EscArmed", <<>>, o)
      BY <2>1, <2>3
    <3> QED
      BY <1>2, <1>3, <1>5, <3>1, Zenon
  <2>4. CASE x # STFinal /\ x # ESC
    <3>1. \A o \in Seq(Oscs) : ScanByte(Sc(state, b, o), x) = Sc("Idle", <<>>, o)
      BY <2>1, <2>4
    <3> QED
      BY <1>2, <1>3, <1>5, <3>1, Zenon
  <2> QED
    BY <2>2, <2>3, <2>4
<1> QED
  BY <1>7, <1>8, <1>9, <1>10 DEF States

LEMMA ScanAppends ==
  ASSUME NEW state \in States, NEW b \in Bodies, NEW q \in Seq(Tokens)
  PROVE  \E st \in States, c \in Bodies, more \in Seq(Oscs) :
           \A o \in Seq(Oscs) : Scan(Sc(state, b, o), q) = Sc(st, c, o \o more)
<1> DEFINE P == {r \in Seq(Tokens) :
                   \E st \in States, c \in Bodies, more \in Seq(Oscs) :
                     \A o \in Seq(Oscs) : Scan(Sc(state, b, o), r) = Sc(st, c, o \o more)}
<1>1. <<>> \in P
  <2>1. \A o \in Seq(Oscs) : o \o <<>> = o /\ Scan(Sc(state, b, o), <<>>) = Sc(state, b, o)
    BY ConcatEmptySeq, FoldNone DEF Scan
  <2>2. <<>> \in Seq(Oscs) /\ <<>> \in Seq(Tokens)
    OBVIOUS
  <2> QED
    BY <2>1, <2>2
<1>2. ASSUME NEW r \in Seq(Tokens), r \in P, NEW x \in Tokens
      PROVE  Append(r, x) \in P
  <2>1. PICK st \in States, c \in Bodies, more \in Seq(Oscs) :
          \A o \in Seq(Oscs) : Scan(Sc(state, b, o), r) = Sc(st, c, o \o more)
    BY <1>2
  <2>2. PICK st2 \in States, c2 \in Bodies, more2 \in Seq(Oscs) :
          \A o \in Seq(Oscs) : ScanByte(Sc(st, c, o), x) = Sc(st2, c2, o \o more2)
    BY ByteAppends DEF ByteAdds
  <2>3. PICK m : m = more \o more2
    OBVIOUS
  <2>4. PICK a : a = Append(r, x)
    OBVIOUS
  <2>5. m \in Seq(Oscs) /\ a \in Seq(Tokens)
    BY <2>3, <2>4, ConcatProperties, AppendProperties
  <2>6. ASSUME NEW o \in Seq(Oscs)
        PROVE  Scan(Sc(state, b, o), a) = Sc(st2, c2, o \o m)
    <3>1. PICK p : p = o \o more
      OBVIOUS
    <3>2. p \in Seq(Oscs)
      BY <3>1, ConcatProperties
    <3>3. Scan(Sc(state, b, o), a) = ScanByte(Scan(Sc(state, b, o), r), x)
      BY <2>4, ScanMore
    <3>4. Scan(Sc(state, b, o), a) = Sc(st2, c2, p \o more2)
      BY <2>1, <2>2, <3>1, <3>2, <3>3
    <3>5. (o \o more) \o more2 = o \o (more \o more2)
      BY Groups, SMTT(40)
    <3>6. p \o more2 = o \o m
      BY <2>3, <3>1, <3>5, Zenon
    <3> QED
      BY <3>4, <3>6, Zenon
  <2>7. a \in P
    BY <2>5, <2>6
  <2> QED
    BY <2>4, <2>7
<1>3. \A r \in Seq(Tokens) : r \in P
  <2> HIDE DEF P
  <2> QED
    BY <1>1, <1>2, SeqsBuilt
<1> QED
  BY <1>3

LEMMA BytesTyped ==
  ASSUME NEW item \in Items
  PROVE  BytesOf(item) \in Seq(Tokens)
<1>1. ASSUME NEW r \in Requests, item = [noise |-> FALSE, built |-> r]
      PROVE  BytesOf(item) \in Seq(Tokens)
  <2>1. BytesOf(item) = BuildOsc(r)
    BY <1>1 DEF BytesOf
  <2> QED
    BY <2>1, RequestBegins
<1>2. ASSUME NEW n \in Noise, item = [noise |-> TRUE, bytes |-> n]
      PROVE  BytesOf(item) \in Seq(Tokens)
  <2>1. BytesOf(item) = n
    BY <1>2 DEF BytesOf
  <2>2. ESC \in Tokens /\ BEL \in Tokens /\ Intro \in Tokens
    BY TextsAre
  <2>3. CASE n \in {<<ESC>>, <<BEL>>, <<ESC, Intro>>}
    <3>1. <<ESC>> \in Seq(Tokens) /\ <<BEL>> \in Seq(Tokens) /\ <<ESC, Intro>> \in Seq(Tokens)
      BY <2>2
    <3> QED
      BY <2>1, <2>3, <3>1, Zenon
  <2>4. CASE n \notin {<<ESC>>, <<BEL>>, <<ESC, Intro>>}
    <3>1. \E x \in Tokens : n = <<x>>
      BY <2>4, NoiseScanned
    <3> QED
      BY <2>1, <3>1
  <2> QED
    BY <2>3, <2>4
<1> QED
  BY <1>1, <1>2 DEF Items

-----------------------------------------------------------------------------
(* The stream.                                                               *)

NothingYet == [shown |-> <<>>, open |-> -1, esc |-> FALSE]
LedTo(items) == Fold(Folding("outcome"), NothingYet, items)

\* Once a scanner has read what is still on its way, it is where the items lead.
OscInv ==
  /\ printed \in [Shells -> Seq(Items)] /\ unread \in [Shells -> Seq(Tokens)]
  /\ recorded \in [Shells -> Seq(Notes)]
  /\ scanners \in [Shells -> {Sc(state, b, <<>>) : state \in States, b \in Bodies}]
  /\ \A p \in Shells : Meets(Scan(scanners[p], unread[p]), LedTo(printed[p]), recorded[p])

LEMMA ItemMeets ==
  ASSUME NEW s, NEW acc, NEW earlier, Meets(s, acc, earlier), NEW item \in Items
  PROVE  Meets(Scan(s, BytesOf(item)), Outcome(acc, item), earlier)
<1>1. CASE \E r \in Requests : item = [noise |-> FALSE, built |-> r]
  BY <1>1, RequestMeets
<1>2. CASE \E n \in Noise : item = [noise |-> TRUE, bytes |-> n]
  BY <1>2, NoiseMeets
<1> QED
  BY <1>1, <1>2 DEF Items

LEMMA StreamWritten ==
  ASSUME OscInv, NEW p \in Shells, NEW item \in Items, Write(p, item)
  PROVE  OscInv'
<1>1. BytesOf(item) \in Seq(Tokens)
  BY BytesTyped
<1>2. /\ printed' = [printed EXCEPT ![p] = Append(printed[p], item)]
      /\ unread' = [unread EXCEPT ![p] = unread[p] \o BytesOf(item)]
      /\ scanners' = scanners /\ recorded' = recorded
  BY DEF Write
<1>3. printed[p] \in Seq(Items) /\ unread[p] \in Seq(Tokens)
  BY DEF OscInv
<1>4. PICK more, u : more = Append(printed[p], item) /\ u = unread[p] \o BytesOf(item)
  OBVIOUS
<1>5. more \in Seq(Items) /\ u \in Seq(Tokens)
  BY <1>1, <1>3, <1>4, AppendProperties, ConcatProperties
<1>6. printed' \in [Shells -> Seq(Items)] /\ unread' \in [Shells -> Seq(Tokens)]
  BY <1>2, <1>4, <1>5 DEF OscInv
<1>7. ASSUME NEW q \in Shells
      PROVE  Meets(Scan(scanners'[q], unread'[q]), LedTo(printed'[q]), recorded'[q])
  <2>1. Meets(Scan(scanners[q], unread[q]), LedTo(printed[q]), recorded[q])
    BY DEF OscInv
  <2>2. CASE q # p
    <3>1. scanners'[q] = scanners[q] /\ unread'[q] = unread[q] /\ printed'[q] = printed[q]
           /\ recorded'[q] = recorded[q]
      BY <1>2, <2>2 DEF OscInv
    <3> QED
      BY <2>1, <3>1
  <2>3. CASE q = p
    <3>1. scanners'[q] = scanners[p] /\ unread'[q] = u /\ printed'[q] = more
           /\ recorded'[q] = recorded[p]
      BY <1>2, <1>4, <2>3 DEF OscInv
    <3>2. Scan(scanners[p], u) = Scan(Scan(scanners[p], unread[p]), BytesOf(item))
      BY <1>1, <1>3, <1>4, FoldGlue DEF Scan
    <3>3. LedTo(more) = Outcome(LedTo(printed[p]), item)
      <4>1. Fold(Folding("outcome"), NothingYet, more)
              = Step(Folding("outcome"), Fold(Folding("outcome"), NothingYet, printed[p]), item)
        BY <1>3, <1>4, FoldMore
      <4> QED
        BY <4>1, StepsAre DEF LedTo
    <3>4. Meets(Scan(scanners[p], u), LedTo(more), recorded[p])
      BY <2>1, <2>3, <3>2, <3>3, ItemMeets
    <3> QED
      BY <3>1, <3>4
  <2> QED
    BY <2>2, <2>3
<1> QED
  BY <1>2, <1>6, <1>7 DEF OscInv

LEMMA NotesKept ==
  ASSUME NEW earlier \in Seq(Notes), NEW o \in Seq(Oscs)
  PROVE  RecordedFrom(earlier, o) \in Seq(Notes)
<1>1. ASSUME NEW a \in Seq(Notes), NEW x \in Oscs
      PROVE  Step(Folding("record"), a, x) \in Seq(Notes)
  <2>1. ParseNotification(x) \in Notes
    BY DEF Notes
  <2>2. Append(a, ParseNotification(x)) \in Seq(Notes)
    BY <2>1, AppendProperties
  <2> QED
    BY <2>2, StepsAre DEF RecordOsc
<1>2. PICK I : I = Seq(Notes)
  OBVIOUS
<1>3. \A a \in I, x \in Oscs : Step(Folding("record"), a, x) \in I
  BY <1>1, <1>2
<1>4. earlier \in I
  BY <1>2
<1>5. Fold(Folding("record"), earlier, o) \in I
  BY <1>3, <1>4, FoldKeeps
<1> QED
  BY <1>2, <1>5 DEF RecordedFrom

LEMMA StreamRead ==
  ASSUME OscInv, NEW p \in Shells, NEW n \in 1 .. Len(unread[p]), IngestBytes(p, n)
  PROVE  OscInv'
<1>1. PICK u : u = unread[p]
  OBVIOUS
<1>2. u \in Seq(Tokens) /\ Len(u) \in Nat /\ n \in 1 .. Len(u) /\ n \in Nat
  BY <1>1, LenProperties DEF OscInv
<1>3. PICK a, c : a = SubSeq(u, 1, n) /\ c = SubSeq(u, n + 1, Len(u))
  OBVIOUS
<1>4. /\ a \in Seq(Tokens) /\ Len(a) = n /\ \A i \in 1 .. n : a[i] = u[i]
  <2>1. 1 \in Int /\ n \in Int /\ \A i \in 1 .. n : u[i] \in Tokens
    BY <1>2, ElementOfSeq
  <2>2. /\ a \in Seq(Tokens)
        /\ Len(a) = IF 1 <= n THEN n - 1 + 1 ELSE 0
        /\ \A i \in 1 .. n - 1 + 1 : a[i] = u[1 + i - 1]
    BY <1>3, <2>1, SubSeqProperties
  <2>3. n - 1 + 1 = n /\ (\A i \in 1 .. n : 1 + i - 1 = i) /\ 1 .. n - 1 + 1 = 1 .. n
    BY <1>2
  <2>4. Len(a) = n
    BY <1>2, <2>2, <2>3
  <2>5. \A i \in 1 .. n : a[i] = u[i]
    BY <2>2, <2>3
  <2> QED
    BY <2>2, <2>4, <2>5
<1>5. /\ c \in Seq(Tokens) /\ Len(c) = Len(u) - n /\ \A i \in 1 .. Len(u) - n : c[i] = u[n + i]
  <2>1. n + 1 \in Int /\ Len(u) \in Int /\ \A i \in n + 1 .. Len(u) : u[i] \in Tokens
    BY <1>2, ElementOfSeq
  <2>2. /\ c \in Seq(Tokens)
        /\ Len(c) = IF n + 1 <= Len(u) THEN Len(u) - (n + 1) + 1 ELSE 0
        /\ \A i \in 1 .. Len(u) - (n + 1) + 1 : c[i] = u[n + 1 + i - 1]
    BY <1>3, <2>1, SubSeqProperties
  <2>3. Len(u) - (n + 1) + 1 = Len(u) - n /\ (\A i \in 1 .. Len(u) - n : n + 1 + i - 1 = n + i)
        /\ (~(n + 1 <= Len(u)) => Len(u) - n = 0)
    BY <1>2
  <2> QED
    BY <1>2, <2>2, <2>3
<1>6. a \o c = u
  <2>1. Len(u) = Len(a) + Len(c)
    BY <1>2, <1>4, <1>5
  <2>2. \A i \in 1 .. Len(a) : u[i] = a[i]
    BY <1>4
  <2>3. \A i \in 1 .. Len(c) : u[Len(a) + i] = c[i]
    BY <1>4, <1>5
  <2> QED
    BY <1>2, <1>4, <1>5, <2>1, <2>2, <2>3, Glued
<1>7. PICK state \in States, b \in Bodies : scanners[p] = Sc(state, b, <<>>)
  BY DEF OscInv
<1>8. PICK st \in States, d \in Bodies, first \in Seq(Oscs) :
        \A o \in Seq(Oscs) : Scan(Sc(state, b, o), a) = Sc(st, d, o \o first)
  BY <1>4, ScanAppends
<1>9. PICK st2 \in States, d2 \in Bodies, second \in Seq(Oscs) :
        \A o \in Seq(Oscs) : Scan(Sc(st, d, o), c) = Sc(st2, d2, o \o second)
  BY <1>5, ScanAppends
<1>10. <<>> \in Seq(Oscs) /\ <<>> \o first = first /\ <<>> \o second = second
  BY ConcatEmptySeq
<1>11. Scan(scanners[p], a) = Sc(st, d, first) /\ Scan(Sc(st, d, <<>>), c) = Sc(st2, d2, second)
  BY <1>7, <1>8, <1>9, <1>10
<1>12. Scan(scanners[p], u) = Sc(st2, d2, first \o second)
  <2>1. Scan(scanners[p], u) = Scan(Scan(scanners[p], a), c)
    <3>1. PICK s : s = scanners[p]
      OBVIOUS
    <3>2. a \in Seq(Tokens) /\ c \in Seq(Tokens)
      BY <1>4, <1>5
    <3>3. Scan(s, a \o c) = Scan(Scan(s, a), c)
      BY <3>2, FoldGlue DEF Scan
    <3> QED
      BY <1>6, <3>1, <3>3, Zenon
  <2> QED
    <3>1. Scan(Sc(st, d, first), c) = Sc(st2, d2, first \o second)
      BY <1>9
    <3>2. Scan(scanners[p], a) = Sc(st, d, first)
      BY <1>11
    <3> QED
      BY <2>1, <3>1, <3>2, Zenon
<1>13. Push(scanners[p], a) = Sc(st, d, first)
  <2>1. [scanners[p] EXCEPT !.out = <<>>] = scanners[p]
    BY <1>7 DEF Sc
  <2>2. Len(a) \in Nat /\ DOMAIN a = 1 .. Len(a)
    BY <1>4, LenProperties
  <2>3. FoldLeft(ScanByte, scanners[p], a) = Scan(scanners[p], a)
    BY <2>2, FoldsAre DEF Scan
  <2> QED
    BY <1>11, <2>1, <2>3 DEF Push
<1>14. /\ scanners' = [scanners EXCEPT ![p] = [Push(scanners[p], a) EXCEPT !.out = <<>>]]
       /\ recorded' = [recorded EXCEPT ![p]
           = FoldLeft(RecordOsc, recorded[p], Push(scanners[p], a).out)]
       /\ unread' = [unread EXCEPT ![p] = c]
       /\ printed' = printed
  BY <1>1, <1>3 DEF IngestBytes
<1>15. [Push(scanners[p], a) EXCEPT !.out = <<>>] = Sc(st, d, <<>>)
        /\ Push(scanners[p], a).out = first
  BY <1>13 DEF Sc
<1>16. PICK earlier : earlier = recorded[p]
  OBVIOUS
<1>17. earlier \in Seq(Notes) /\ FoldLeft(RecordOsc, earlier, first) = RecordedFrom(earlier, first)
  <2>1. Len(first) \in Nat /\ DOMAIN first = 1 .. Len(first)
    BY LenProperties
  <2> QED
    BY <1>16, <2>1, FoldsAre DEF OscInv, RecordedFrom
<1>18. PICK done2 : done2 = RecordedFrom(earlier, first)
  OBVIOUS
<1>19. /\ scanners' = [scanners EXCEPT ![p] = Sc(st, d, <<>>)]
       /\ recorded' = [recorded EXCEPT ![p] = done2]
  BY <1>14, <1>15, <1>16, <1>17, <1>18
<1>20. done2 \in Seq(Notes)
  BY <1>17, <1>18, NotesKept
<1>21. Meets(Sc(st2, d2, second), LedTo(printed[p]), done2)
  <2>1. Meets(Sc(st2, d2, first \o second), LedTo(printed[p]), earlier)
    BY <1>1, <1>12, <1>16 DEF OscInv
  <2>2. PICK e \in Bodies, o \in Seq(Oscs), open \in Int, esc \in BOOLEAN, sx \in {"Idle",
              "EscArmed", "InBody", "BodyEsc"} :
          /\ Sc(st2, d2, first \o second) = Sc(sx, e, o)
           /\ LedTo(printed[p]) = Acc(RecordedFrom(earlier, o), open, esc)
          /\ \/ sx \in {"Idle", "EscArmed"} /\ open = -1 /\ ~ esc
             \/ /\ sx = IF esc THEN "BodyEsc" ELSE "InBody"
                /\ open = Len(e) /\ Bare(e)
    BY <2>1 DEF Meets
  <2>3. sx = st2 /\ e = d2 /\ o = first \o second
    BY <2>2 DEF Sc
  <2>4. RecordedFrom(earlier, first \o second) = RecordedFrom(done2, second)
    BY <1>18, FoldGlue DEF RecordedFrom
  <2>5. LedTo(printed[p]) = Acc(RecordedFrom(done2, second), open, esc)
    BY <2>2, <2>3, <2>4
  <2>6. \/ st2 \in {"Idle", "EscArmed"} /\ open = -1 /\ ~ esc
        \/ /\ st2 = IF esc THEN "BodyEsc" ELSE "InBody"
           /\ open = Len(d2) /\ Bare(d2)
    BY <2>2, <2>3
  <2> QED
    BY <2>5, <2>6 DEF Meets, States
<1>22. /\ unread' \in [Shells -> Seq(Tokens)] /\ recorded' \in [Shells -> Seq(Notes)]
       /\ scanners' \in [Shells -> {Sc(s, e, <<>>) : s \in States, e \in Bodies}]
       /\ printed' \in [Shells -> Seq(Items)]
  BY <1>5, <1>14, <1>19, <1>20 DEF OscInv
<1>23. ASSUME NEW q \in Shells
       PROVE  Meets(Scan(scanners'[q], unread'[q]), LedTo(printed'[q]), recorded'[q])
  <2>1. CASE q # p
    <3>1. scanners'[q] = scanners[q] /\ unread'[q] = unread[q] /\ printed'[q] = printed[q]
           /\ recorded'[q] = recorded[q]
      BY <1>14, <1>19, <2>1 DEF OscInv
    <3> QED
      BY <3>1 DEF OscInv
  <2>2. CASE q = p
    <3>1. scanners'[q] = Sc(st, d, <<>>) /\ unread'[q] = c /\ printed'[q] = printed[p]
           /\ recorded'[q] = done2
      BY <1>14, <1>19, <2>2 DEF OscInv
    <3> QED
      BY <1>11, <1>21, <3>1
  <2> QED
    BY <2>1, <2>2
<1> QED
  BY <1>22, <1>23 DEF OscInv

LEMMA StreamBegins == OscInit => OscInv
<1> SUFFICES ASSUME OscInit PROVE OscInv
  OBVIOUS
<1>1. <<>> \in Bodies /\ -1 \in Int /\ "Idle" \in States /\ <<>> \in Seq(Oscs)
  BY OscAssumption DEF Bodies, States
<1>2. Fresh = Sc("Idle", <<>>, <<>>)
  BY DEF Fresh, Sc
<1>3. /\ printed \in [Shells -> Seq(Items)] /\ unread \in [Shells -> Seq(Tokens)]
      /\ recorded \in [Shells -> Seq(Notes)]
  BY DEF OscInit
<1>4. scanners \in [Shells -> {Sc(state, b, <<>>) : state \in States, b \in Bodies}]
  BY <1>1, <1>2 DEF OscInit
<1>5. ASSUME NEW p \in Shells
      PROVE  Meets(Scan(scanners[p], unread[p]), LedTo(printed[p]), recorded[p])
  <2>1. scanners[p] = Sc("Idle", <<>>, <<>>) /\ unread[p] = <<>> /\ printed[p] = <<>>
         /\ recorded[p] = <<>>
    BY <1>2 DEF OscInit
  <2>2. Scan(scanners[p], unread[p]) = Sc("Idle", <<>>, <<>>)
    BY <2>1, FoldNone DEF Scan
  <2>3. LedTo(printed[p]) = NothingYet
    BY <2>1, FoldNone DEF LedTo
  <2>4. RecordedFrom(recorded[p], <<>>) = <<>>
    BY <2>1, FoldNone DEF RecordedFrom
  <2>5. NothingYet = Acc(RecordedFrom(recorded[p], <<>>), -1, FALSE)
    BY <2>4 DEF NothingYet, Acc
  <2> QED
    BY <1>1, <2>2, <2>3, <2>5 DEF Meets
<1> QED
  BY <1>3, <1>4, <1>5 DEF OscInv

\* What was recorded before is not touched.
LEMMA RecordedGrows ==
  ASSUME NEW earlier \in Seq(Notes), NEW o \in Seq(Oscs)
  PROVE  IsPrefix(earlier, RecordedFrom(earlier, o))
<1> DEFINE I == {t \in Seq(Notes) : Len(earlier) <= Len(t)
 /\ \A i \in 1 .. Len(earlier) : t[i] = earlier[i]}
<1>1. ASSUME NEW t \in I, NEW x \in Oscs PROVE Step(Folding("record"), t, x) \in I
  <2>1. t \in Seq(Notes) /\ Len(t) \in Nat /\ Len(earlier) \in Nat
    BY LenProperties
  <2>2. PICK note : note = ParseNotification(x)
    OBVIOUS
  <2>3. note \in Notes
    BY <2>2 DEF Notes
  <2>4. PICK q : q = Append(t, note)
    OBVIOUS
  <2>5. q \in Seq(Notes) /\ Len(q) = Len(t) + 1 /\ \A i \in 1 .. Len(t) : q[i] = t[i]
    BY <2>1, <2>3, <2>4, AppendProperties
  <2>6. q \in I
    BY <2>1, <2>5
  <2>7. Step(Folding("record"), t, x) \in {t, q}
    BY <2>2, <2>4, StepsAre DEF RecordOsc
  <2> HIDE DEF I
  <2> QED
    BY <1>1, <2>6, <2>7
<1>2. earlier \in I
  BY LenProperties
<1>3. RecordedFrom(earlier, o) \in I
  <2> HIDE DEF I
  <2> QED
    BY <1>1, <1>2, FoldKeeps DEF RecordedFrom
<1>4. PICK t : t = RecordedFrom(earlier, o)
  OBVIOUS
<1>5. t \in Seq(Notes) /\ Len(earlier) \in Nat /\ Len(earlier) <= Len(t)
       /\ \A i \in 1 .. Len(earlier) : t[i] = earlier[i]
  BY <1>3, <1>4, LenProperties
<1>6. SubSeq(t, 1, Len(earlier)) = earlier
  <2> DEFINE u == SubSeq(t, 1, Len(earlier))
  <2>1. 1 \in Int /\ Len(earlier) \in Int /\ \A i \in 1 .. Len(earlier) : t[i] \in Notes
    BY <1>5, ElementOfSeq
  <2>2. /\ u \in Seq(Notes)
        /\ Len(u) = IF 1 <= Len(earlier) THEN Len(earlier) - 1 + 1 ELSE 0
        /\ \A m \in 1 .. Len(earlier) - 1 + 1 : u[m] = t[1 + m - 1]
    BY <2>1, SubSeqProperties
  <2> HIDE DEF u
  <2>3. Len(u) = Len(earlier)
    BY <1>5, <2>2
  <2>4. ASSUME NEW m \in 1 .. Len(u) PROVE u[m] = earlier[m]
    <3>1. m \in 1 .. Len(earlier) - 1 + 1 /\ m \in 1 .. Len(earlier) /\ 1 + m - 1 = m
      BY <1>5, <2>3
    <3> QED
      BY <1>5, <2>2, <3>1
  <2> QED
    BY <2>2, <2>3, <2>4, SeqEqual DEF u
<1>7. IsPrefix(earlier, t)
  BY <1>5, <1>6 DEF IsPrefix
<1> QED
  BY <1>4, <1>7

\* Whatever the requests, the noise between them, the batches and the length the
\* scanner allows, a pane's notifications are recorded as they were asked for,
\* once and in order: how the output was cut, and what was printed before, changes
\* which of them arrive only by what Outcome says (scanner.rs, osc.rs).
THEOREM NotificationsAlwaysDelivered ==
  OscInit /\ [][OscNext]_oscVars => []DeliveredAsBuilt
<1>1. OscInit => OscInv
  BY StreamBegins
<1>2. OscInv /\ [OscNext]_oscVars => OscInv'
  <2> SUFFICES ASSUME OscInv, [OscNext]_oscVars PROVE OscInv'
    OBVIOUS
  <2>1. ASSUME NEW p \in Shells, NEW item \in Items, Write(p, item) PROVE OscInv'
    BY <2>1, StreamWritten
  <2>2. ASSUME NEW p \in Shells, NEW n \in 1 .. Len(unread[p]), IngestBytes(p, n) PROVE OscInv'
    BY <2>2, StreamRead
  <2>3. CASE UNCHANGED oscVars
    BY <2>3 DEF oscVars, OscInv
  <2> QED
    BY <2>1, <2>2, <2>3 DEF OscNext
<1>3. OscInv => DeliveredAsBuilt
  <2> SUFFICES ASSUME OscInv, NEW p \in Shells
               PROVE  /\ IsPrefix(recorded[p], Expected(printed[p]))
                      /\ unread[p] = <<>> => recorded[p] = Expected(printed[p])
                      /\ Len(scanners[p].body) <= MaxPending
    BY DEF DeliveredAsBuilt
  <2>1. PICK state \in States, b \in Bodies : scanners[p] = Sc(state, b, <<>>)
    BY DEF OscInv
  <2>2. Len(scanners[p].body) <= MaxPending
    BY <2>1 DEF Sc, Bodies
  <2>3. Expected(printed[p]) = LedTo(printed[p]).shown
    <3>1. Len(printed[p]) \in Nat /\ DOMAIN printed[p] = 1 .. Len(printed[p])
      BY LenProperties DEF OscInv
    <3>2. FoldLeft(Outcome, NothingYet, printed[p]) = LedTo(printed[p])
      BY <3>1, FoldsAre DEF LedTo
    <3> QED
      BY <3>2 DEF Expected, NothingYet
  <2>4. PICK e \in Bodies, o \in Seq(Oscs), open \in Int, esc \in BOOLEAN, sx \in {"Idle",
              "EscArmed", "InBody", "BodyEsc"} :
          Scan(scanners[p], unread[p]) = Sc(sx, e, o)
           /\ LedTo(printed[p]) = Acc(RecordedFrom(recorded[p], o), open, esc)
    <3>1. PICK x, y, z : /\ x = Scan(scanners[p], unread[p]) /\ y = LedTo(printed[p])
                         /\ z = recorded[p]
      OBVIOUS
    <3>2. Meets(x, y, z)
      BY <3>1 DEF OscInv
    <3> QED
      BY <3>1, <3>2, ZenonT(30) DEF Meets
  <2>5. Expected(printed[p]) = RecordedFrom(recorded[p], o)
    BY <2>3, <2>4 DEF Acc
  <2>6. IsPrefix(recorded[p], Expected(printed[p]))
    <3>1. recorded[p] \in Seq(Notes)
      BY DEF OscInv
    <3> QED
      BY <2>5, <3>1, RecordedGrows
  <2>7. ASSUME unread[p] = <<>> PROVE recorded[p] = Expected(printed[p])
    <3>1. Scan(scanners[p], unread[p]) = scanners[p]
      BY <2>7, FoldNone DEF Scan
    <3>2. o = <<>>
      BY <2>1, <2>4, <3>1 DEF Sc
    <3> QED
      BY <2>5, <3>2, FoldNone DEF RecordedFrom
  <2> QED
    BY <2>2, <2>6, <2>7
<1> QED
  BY <1>1, <1>2, <1>3, PTL

-----------------------------------------------------------------------------
(* What a record says once it is written, for any kinds of tokens and any    *)
(* record: Redaction.  A pass is a fold over the places of a text, run from  *)
(* the left.                                                                 *)

\* The passes of the model.
Passing(name, s) == [of |-> name, text |-> s]
Places(s) == [i \in 1 .. Len(s) |-> i]
Start == [text |-> <<>>, next |-> 1]

\* A pass is the fold that Passing names.
LEMMA PassesAre ==
  ASSUME NEW s, Len(s) \in Nat
  PROVE  /\ Pass(s, PemBlock) = Fold(Passing("pem", s), Start, Places(s)).text
         /\ Pass(s, Authorization) = Fold(Passing("auth", s), Start, Places(s)).text
         /\ Pass(s, KeyValue) = Fold(Passing("keys", s), Start, Places(s)).text
         /\ Pass(s, UserSegment) = Fold(Passing("user", s), Start, Places(s)).text
<1> DEFINE n == Len(s)
<1>1. DOMAIN Places(s) = 1 .. n /\ Len(Places(s)) = n
  BY DEF Places
<1>2. ASSUME NEW fold PROVE \E h : Solves(fold, h, Start, Places(s), n)
  BY SolutionExists
<1>3. Pass(s, PemBlock) = Fold(Passing("pem", s), Start, Places(s)).text
  <2> DEFINE Is(h) == h = [t \in SUBSET (DOMAIN Places(s)) |->
                        IF t = {} THEN Start
                        ELSE Taken(PemBlock(s, Places(s)[Max(t)]), h[t \ {Max(t)}],
                                   Places(s)[Max(t)])]
             H == CHOOSE h : Is(h)
  <2>1. \A a, x : Step(Passing("pem", s), a, x) = Taken(PemBlock(s, x), a, x)
    BY DEF Step, Passing
  <2>2. \A h : Solves(Passing("pem", s), h, Start, Places(s), n) <=> Is(h)
    BY <1>1, <2>1 DEF Solves
  <2>3. \E h : Is(h)
    BY <1>2, <2>2
  <2>4. Is(H)
    BY <2>3
  <2>5. Pass(s, PemBlock) = H[DOMAIN Places(s)].text
    BY DEF Pass, FoldLeft, MapThenFoldSet, Taken, Places, Start
  <2>6. Solves(Passing("pem", s), H, Start, Places(s), n)
    BY <2>2, <2>4
  <2>7. H[1 .. n] = Fold(Passing("pem", s), Start, Places(s))
    <3> HIDE DEF H, Is
    <3> QED
      BY <1>1, <2>6, FoldRuns
  <2> HIDE DEF H, Is
  <2> QED
    BY <1>1, <2>5, <2>7
<1>4. Pass(s, Authorization) = Fold(Passing("auth", s), Start, Places(s)).text
  <2> DEFINE Is(h) == h = [t \in SUBSET (DOMAIN Places(s)) |->
                        IF t = {} THEN Start
                        ELSE Taken(Authorization(s, Places(s)[Max(t)]), h[t \ {Max(t)}],
                                   Places(s)[Max(t)])]
             H == CHOOSE h : Is(h)
  <2>1. \A a, x : Step(Passing("auth", s), a, x) = Taken(Authorization(s, x), a, x)
    BY DEF Step, Passing
  <2>2. \A h : Solves(Passing("auth", s), h, Start, Places(s), n) <=> Is(h)
    BY <1>1, <2>1 DEF Solves
  <2>3. \E h : Is(h)
    BY <1>2, <2>2
  <2>4. Is(H)
    BY <2>3
  <2>5. Pass(s, Authorization) = H[DOMAIN Places(s)].text
    BY DEF Pass, FoldLeft, MapThenFoldSet, Taken, Places, Start
  <2>6. Solves(Passing("auth", s), H, Start, Places(s), n)
    BY <2>2, <2>4
  <2>7. H[1 .. n] = Fold(Passing("auth", s), Start, Places(s))
    <3> HIDE DEF H, Is
    <3> QED
      BY <1>1, <2>6, FoldRuns
  <2> HIDE DEF H, Is
  <2> QED
    BY <1>1, <2>5, <2>7
<1>5. Pass(s, KeyValue) = Fold(Passing("keys", s), Start, Places(s)).text
  <2> DEFINE Is(h) == h = [t \in SUBSET (DOMAIN Places(s)) |->
                        IF t = {} THEN Start
                        ELSE Taken(KeyValue(s, Places(s)[Max(t)]), h[t \ {Max(t)}],
                                   Places(s)[Max(t)])]
             H == CHOOSE h : Is(h)
  <2>1. \A a, x : Step(Passing("keys", s), a, x) = Taken(KeyValue(s, x), a, x)
    BY DEF Step, Passing
  <2>2. \A h : Solves(Passing("keys", s), h, Start, Places(s), n) <=> Is(h)
    BY <1>1, <2>1 DEF Solves
  <2>3. \E h : Is(h)
    BY <1>2, <2>2
  <2>4. Is(H)
    BY <2>3
  <2>5. Pass(s, KeyValue) = H[DOMAIN Places(s)].text
    BY DEF Pass, FoldLeft, MapThenFoldSet, Taken, Places, Start
  <2>6. Solves(Passing("keys", s), H, Start, Places(s), n)
    BY <2>2, <2>4
  <2>7. H[1 .. n] = Fold(Passing("keys", s), Start, Places(s))
    <3> HIDE DEF H, Is
    <3> QED
      BY <1>1, <2>6, FoldRuns
  <2> HIDE DEF H, Is
  <2> QED
    BY <1>1, <2>5, <2>7
<1>6. Pass(s, UserSegment) = Fold(Passing("user", s), Start, Places(s)).text
  <2> DEFINE Is(h) == h = [t \in SUBSET (DOMAIN Places(s)) |->
                        IF t = {} THEN Start
                        ELSE Taken(UserSegment(s, Places(s)[Max(t)]), h[t \ {Max(t)}],
                                   Places(s)[Max(t)])]
             H == CHOOSE h : Is(h)
  <2>1. \A a, x : Step(Passing("user", s), a, x) = Taken(UserSegment(s, x), a, x)
    BY DEF Step, Passing
  <2>2. \A h : Solves(Passing("user", s), h, Start, Places(s), n) <=> Is(h)
    BY <1>1, <2>1 DEF Solves
  <2>3. \E h : Is(h)
    BY <1>2, <2>2
  <2>4. Is(H)
    BY <2>3
  <2>5. Pass(s, UserSegment) = H[DOMAIN Places(s)].text
    BY DEF Pass, FoldLeft, MapThenFoldSet, Taken, Places, Start
  <2>6. Solves(Passing("user", s), H, Start, Places(s), n)
    BY <2>2, <2>4
  <2>7. H[1 .. n] = Fold(Passing("user", s), Start, Places(s))
    <3> HIDE DEF H, Is
    <3> QED
      BY <1>1, <2>6, FoldRuns
  <2> HIDE DEF H, Is
  <2> QED
    BY <1>1, <2>5, <2>7
<1> QED
  BY <1>3, <1>4, <1>5, <1>6

\* How far two places are apart.
Spaced(p, q, k, w) ==
  \E d \in Nat : /\ d = w - k /\ w = k + d /\ q = p + d /\ d > 0
                /\ q - p = d /\ k + (q - p) = w

LEMMA Apart ==
  ASSUME NEW p \in Int, NEW q \in Int, NEW k \in Int, NEW w \in Int, k < w, p + (w - k) = q
  PROVE  Spaced(p, q, k, w)
<1>1. w - k \in Nat
  OBVIOUS
<1>2. w = k + (w - k) /\ q = p + (w - k) /\ w - k > 0 /\ q - p = w - k /\ k + (q - p) = w
  OBVIOUS
<1> QED
  BY <1>1, <1>2 DEF Spaced

\* A place between two others.
LEMMA Within ==
  ASSUME NEW p \in Int, NEW q \in Int, NEW z \in Int, p < q, q < z
  PROVE  q \in p + 1 .. z - 1
  OBVIOUS

\* A place no later than one that lies before z, and later than e.
LEMMA WithinUpTo ==
  ASSUME NEW e \in Int, NEW p \in Int, NEW i \in Int, NEW z \in Int, e < p, p <= i, i < z
  PROVE  p \in e + 1 .. z - 1
  OBVIOUS

\* A stretch of the record as long as one of a text, from k to w.
LEMMA SameStretch ==
  ASSUME NEW n \in Nat, NEW e \in Nat, NEW q \in Nat, NEW k \in 1 .. n, NEW w \in 1 .. n,
         e < q, k + (q - e) = w
  PROVE  /\ w \in k .. n /\ w \in k + 1 .. n /\ w - k = q - e
         /\ k \in Nat /\ w \in Nat
  OBVIOUS

\* The place a distance behind another one.
LEMMA Ahead ==
  ASSUME NEW c \in Nat, NEW d \in Nat
  PROVE  c + d + 1 - d = c + 1 /\ c + 1 \in 1 .. c + d + 1
  OBVIOUS

\* What holds at a number, and at the next one wherever it holds, holds from
\* there on.
LEMMA Upward ==
  ASSUME NEW a \in Nat, NEW b \in Nat, NEW P, a \in P,
         \A i \in a .. b : i \in P /\ i < b => i + 1 \in P
  PROVE  \A i \in a .. b : i \in P
<1> DEFINE T == {i \in a .. b : i \notin P}
<1>1. ASSUME T # {} PROVE \E i \in T : \A m \in T : i <= m
  <2>1. T \in SUBSET Nat
    OBVIOUS
  <2> HIDE DEF T
  <2> QED
    BY <1>1, <2>1, LeastNumber
<1>2. ASSUME NEW i \in T, \A m \in T : i <= m PROVE FALSE
  <2>1. i \in a .. b /\ i # a /\ i \notin P
    OBVIOUS
  <2>2. i - 1 \in a .. b /\ i - 1 < b /\ i - 1 + 1 = i
    BY <2>1
  <2>3. i - 1 \notin T
    BY <1>2, <2>1
  <2>4. i - 1 \in P
    BY <2>2, <2>3
  <2> QED
    BY <2>1, <2>2, <2>4
<1> QED
  BY <1>1, <1>2

\* The tokens of a text, and what a pass may find at a place of it.
Pieces == [kind : AllKinds, at : Nat]
Finds == [text : Seq(Pieces), next : Nat]

\* F is what a pass finds at each place of s, f what it has come to behind each.
Passage(s, F, f) ==
  /\ s \in Seq(Pieces)
  /\ F \in [1 .. Len(s) -> Finds]
  /\ \A i \in 1 .. Len(s) : F[i].next \in i + 1 .. Len(s) + 1
  /\ f \in [0 .. Len(s) -> Finds]
  /\ f[0] = Start
  /\ \A i \in 1 .. Len(s) : f[i] = Taken(F[i], f[i - 1], i)

\* The pass is at its i-th place, and nothing has swallowed it.
Visited(f, i) == f[i - 1].next = i

\* Where a passage goes on from is behind the place it has come to.
LEMMA Onward ==
  ASSUME NEW s, NEW F, NEW f, Passage(s, F, f)
  PROVE  /\ Len(s) \in Nat
         /\ \A i \in 0 .. Len(s) : f[i].next \in i + 1 .. Len(s) + 1
<1>1. Len(s) \in Nat
  BY LenProperties DEF Passage
<1>2. PICK n \in Nat : n = Len(s)
  BY <1>1
<1> DEFINE P == {i \in 0 .. n : f[i].next \in i + 1 .. n + 1}
<1>3. 0 \in P
  <2>1. f[0].next = 1
    BY DEF Passage, Start
  <2> QED
    BY <2>1
<1>4. ASSUME NEW i \in 0 .. n, i \in P, i < n PROVE i + 1 \in P
  <2>1. i + 1 \in 1 .. n /\ i + 1 - 1 = i /\ f[i].next \in i + 1 .. n + 1 /\ i + 1 \in 0 .. n
    BY <1>4
  <2>2. PICK j : j = i + 1
    OBVIOUS
  <2>3. f[j] = Taken(F[j], f[i], j) /\ F[j].next \in j + 1 .. n + 1
    BY <1>2, <2>1, <2>2 DEF Passage
  <2>4. f[j].next = IF j < f[i].next THEN f[i].next ELSE F[j].next
    BY <2>3 DEF Taken
  <2>5. f[j].next \in j + 1 .. n + 1
    BY <2>1, <2>2, <2>3, <2>4
  <2> QED
    BY <2>1, <2>2, <2>5
<1> HIDE DEF P
<1>5. \A i \in 0 .. n : i \in P
  BY <1>3, <1>4, Upward
<1> QED
  BY <1>1, <1>2, <1>5 DEF P

\* One place of a pass.
LEMMA AtPlace ==
  ASSUME NEW s, NEW F, NEW f, Passage(s, F, f), NEW i \in 1 .. Len(s)
  PROVE  /\ i \in Nat /\ i - 1 \in 0 .. Len(s) /\ i \in 0 .. Len(s) /\ Len(s) \in Nat
         /\ s[i] \in Pieces
         /\ f[i - 1].text \in Seq(Pieces) /\ f[i].text \in Seq(Pieces) /\ F[i].text \in Seq(Pieces)
         /\ f[i - 1].next \in i .. Len(s) + 1 /\ F[i].next \in i + 1 .. Len(s) + 1
<1>1. Len(s) \in Nat /\ \A j \in 0 .. Len(s) : f[j].next \in j + 1 .. Len(s) + 1
  BY Onward
<1>2. i \in Nat /\ i - 1 \in 0 .. Len(s) /\ i \in 0 .. Len(s) /\ i - 1 + 1 = i
  BY <1>1
<1>3. f[i - 1].next \in i .. Len(s) + 1
  BY <1>1, <1>2
<1>4. /\ s \in Seq(Pieces) /\ F[i] \in Finds /\ f[i - 1] \in Finds /\ f[i] \in Finds
      /\ F[i].next \in i + 1 .. Len(s) + 1 /\ f[i] = Taken(F[i], f[i - 1], i)
  BY <1>2 DEF Passage
<1>5. s[i] \in Pieces
  BY <1>1, <1>4, ElementOfSeq
<1> QED
  BY <1>1, <1>2, <1>3, <1>4, <1>5 DEF Finds

Joined(x, y) == x \o y

\* What it finds at a place it visits is put out.
LEMMA AtVisited ==
  ASSUME NEW s, NEW F, NEW f, Passage(s, F, f), NEW i \in 1 .. Len(s), Visited(f, i)
  PROVE  f[i].text = Joined(f[i - 1].text, F[i].text) /\ f[i].next = F[i].next
<1>1. i \in Nat /\ f[i - 1].next = i /\ f[i] = Taken(F[i], f[i - 1], i)
  BY AtPlace DEF Passage, Visited
<1>2. PICK a, b, x, y : a = f[i] /\ b = F[i].next /\ x = f[i - 1].text /\ y = F[i].text
  OBVIOUS
<1>3. ~ (i < f[i - 1].next)
  BY <1>1
<1>4. a = [text |-> x \o y, next |-> b]
  BY <1>1, <1>2, <1>3, Zenon DEF Taken
<1>5. a.text = x \o y /\ a.next = b
  BY <1>4
<1>6. a.text = Joined(x, y)
  BY <1>5 DEF Joined
<1> QED
  BY <1>2, <1>5, <1>6

\* A place it has swallowed changes nothing.
LEMMA AtSwallowed ==
  ASSUME NEW s, NEW F, NEW f, Passage(s, F, f), NEW i \in 1 .. Len(s), ~ Visited(f, i)
  PROVE  f[i] = f[i - 1] /\ i < f[i - 1].next
<1>1. i \in Nat /\ f[i - 1].next \in i .. Len(s) + 1 /\ Len(s) \in Nat
  BY AtPlace
<1>2. f[i] = Taken(F[i], f[i - 1], i)
  BY DEF Passage
<1>3. i < f[i - 1].next
  BY <1>1 DEF Visited
<1> QED
  BY <1>2, <1>3 DEF Taken

\* Where the pass stands is where the place it visited last led it.
LEMMA LastVisited ==
  ASSUME NEW s, NEW F, NEW f, Passage(s, F, f)
  PROVE  \A i \in 0 .. Len(s) :
           \/ i = 0
           \/ \E e \in 1 .. i : Visited(f, e) /\ f[i] = f[e] /\ F[e].next = f[i].next
<1>1. PICK n \in Nat : n = Len(s)
  BY Onward
<1> DEFINE P == {i \in 0 .. n :
             i = 0 \/ \E e \in 1 .. i : Visited(f, e) /\ f[i] = f[e] /\ F[e].next = f[i].next}
<1>2. 0 \in P
  OBVIOUS
<1>3. ASSUME NEW i \in 0 .. n, i \in P, i < n PROVE i + 1 \in P
  <2>1. PICK j \in 1 .. n : j = i + 1 /\ j - 1 = i /\ j \in 0 .. n
    BY <1>3
  <2>2. CASE Visited(f, j)
    <3>1. f[j].next = F[j].next
      BY <1>1, <2>2, AtVisited
    <3> QED
      BY <2>1, <2>2, <3>1
  <2>3. CASE ~ Visited(f, j)
    <3>1. f[j] = f[i] /\ f[i].next # 1
      <4>1. f[j] = f[j - 1] /\ j < f[j - 1].next
        BY <1>1, <2>3, AtSwallowed
      <4> QED
        BY <2>1, <4>1
    <3>2. f[0].next = 1
      BY DEF Passage, Start
    <3>3. PICK e \in 1 .. i : Visited(f, e) /\ f[i] = f[e] /\ F[e].next = f[i].next
      BY <1>3, <3>1, <3>2
    <3>4. e \in 1 .. j
      BY <2>1
    <3> QED
      BY <2>1, <3>1, <3>3, <3>4
  <2> QED
    BY <2>2, <2>3
<1> HIDE DEF P
<1>4. \A i \in 0 .. n : i \in P
  BY <1>2, <1>3, Upward
<1> QED
  BY <1>1, <1>4 DEF P

\* A place that is not visited was swallowed by a place before it.
LEMMA SwallowedBy ==
  ASSUME NEW s, NEW F, NEW f, Passage(s, F, f), NEW i \in 1 .. Len(s), ~ Visited(f, i)
  PROVE  \E e \in 1 .. i - 1 : Visited(f, e) /\ F[e].next > i
<1>1. /\ i \in Nat /\ i - 1 \in 0 .. Len(s) /\ i < f[i - 1].next
  BY AtPlace, AtSwallowed
<1>2. i - 1 # 0
  <2>1. f[0].next = 1
    BY DEF Passage, Start
  <2> QED
    BY <1>1, <2>1
<1>3. PICK e \in 1 .. i - 1 : Visited(f, e) /\ F[e].next = f[i - 1].next
  BY <1>1, <1>2, LastVisited
<1>4. e \in 1 .. Len(s)
  BY <1>1
<1>5. F[e].next \in Nat /\ f[i - 1].next \in Nat
  <2>1. F[e].next \in e + 1 .. Len(s) + 1
    BY <1>4 DEF Passage
  <2> QED
    BY <1>1, <1>3, <1>4, <2>1
<1> QED
  BY <1>1, <1>3, <1>5

\* What a visited place swallows is not visited, what lies behind it is.
LEMMA Swallows ==
  ASSUME NEW s, NEW F, NEW f, Passage(s, F, f), NEW e \in 1 .. Len(s), Visited(f, e)
  PROVE  /\ \A i \in e + 1 .. F[e].next - 1 : i \in 1 .. Len(s) /\ ~ Visited(f, i)
         /\ F[e].next \in 1 .. Len(s) => Visited(f, F[e].next)
<1>1. PICK n \in Nat, b \in Nat :
        n = Len(s) /\ b = F[e].next - 1 /\ b \in e .. n /\ F[e].next = b + 1
  <2>1. /\ e \in Nat /\ Len(s) \in Nat /\ F[e].next \in e + 1 .. Len(s) + 1
    BY AtPlace
  <2> QED
    BY <2>1
<1>2. e \in Nat /\ e \in 1 .. n
  BY <1>1
<1> DEFINE P == {i \in e .. b : f[i].next = b + 1}
<1>3. e \in P
  <2>1. f[e].next = F[e].next
    BY AtVisited
  <2> QED
    BY <1>1, <1>2, <2>1
<1>4. ASSUME NEW i \in e .. b, i \in P, i < b PROVE i + 1 \in P
  <2>1. PICK j \in 1 .. n : j = i + 1 /\ j - 1 = i /\ j \in e .. b
    BY <1>1, <1>2, <1>4
  <2>2. ~ Visited(f, j)
    BY <1>1, <1>4, <2>1 DEF Visited
  <2>3. f[j] = f[j - 1]
    BY <1>1, <2>2, AtSwallowed
  <2> QED
    BY <1>4, <2>1, <2>3
<1> HIDE DEF P
<1>5. \A i \in e .. b : i \in P
  <2>1. \A i \in e .. b : i \in P /\ i < b => i + 1 \in P
    BY <1>4
  <2>2. e \in Nat /\ b \in Nat
    BY <1>1, <1>2
  <2> QED
    BY <1>3, <2>1, <2>2, Upward
<1>6. ASSUME NEW i \in e + 1 .. F[e].next - 1 PROVE i \in 1 .. Len(s) /\ ~ Visited(f, i)
  <2>1. i - 1 \in e .. b /\ i # b + 1 /\ i \in 1 .. n
    BY <1>1, <1>2
  <2>2. f[i - 1].next = b + 1
    BY <1>5, <2>1 DEF P
  <2> QED
    BY <1>1, <2>1, <2>2 DEF Visited
<1>7. Visited(f, F[e].next)
  <2>1. b \in e .. b /\ b + 1 - 1 = b
    BY <1>1, <1>2
  <2>2. f[b].next = b + 1
    BY <1>5, <2>1 DEF P
  <2> QED
    BY <1>1, <2>1, <2>2 DEF Visited
<1> QED
  BY <1>6, <1>7

\* Nothing that was put out is taken back.
LEMMA PutOut ==
  ASSUME NEW s, NEW F, NEW f, Passage(s, F, f), NEW i \in 0 .. Len(s), NEW m \in i .. Len(s)
  PROVE  /\ Len(f[i].text) \in Nat /\ Len(f[m].text) \in Nat
         /\ Len(f[i].text) <= Len(f[m].text)
         /\ \A q \in 1 .. Len(f[i].text) : f[m].text[q] = f[i].text[q]
<1>1. PICK n \in Nat : n = Len(s) /\ i \in Nat /\ i \in 0 .. n /\ m \in i .. n
  BY Onward
<1>2. ASSUME NEW j \in 0 .. n PROVE f[j].text \in Seq(Pieces) /\ Len(f[j].text) \in Nat
  <2>1. f[j].text \in Seq(Pieces)
    BY <1>1 DEF Passage, Finds
  <2> QED
    BY <2>1, LenProperties
<1> DEFINE P == {j \in i .. n : /\ Len(f[i].text) <= Len(f[j].text)
                                /\ \A q \in 1 .. Len(f[i].text) : f[j].text[q] = f[i].text[q]}
<1>3. i \in P
  BY <1>1, <1>2
<1>4. ASSUME NEW j \in i .. n, j \in P, j < n PROVE j + 1 \in P
  <2>1. PICK k \in 1 .. n : k = j + 1 /\ k - 1 = j /\ k \in i .. n /\ k \in 0 .. n /\ j \in 0 .. n
    BY <1>1, <1>4
  <2>2. CASE Visited(f, k)
    <3>1. f[k].text = Joined(f[j].text, F[k].text) /\ F[k].text \in Seq(Pieces)
      <4>1. f[k].text = Joined(f[k - 1].text, F[k].text)
        BY <1>1, <2>2, AtVisited
      <4>2. F[k].text \in Seq(Pieces)
        BY <1>1, AtPlace
      <4> QED
        BY <2>1, <4>1, <4>2
    <3>2. PICK x \in Seq(Pieces), y \in Seq(Pieces) : x = f[j].text /\ y = F[k].text
      BY <1>2, <2>1, <3>1
    <3>3. /\ Len(x \o y) = Len(x) + Len(y) /\ Len(x) \in Nat /\ Len(y) \in Nat
          /\ \A q \in 1 .. Len(x) : (x \o y)[q] = x[q]
      BY ConcatProperties, LenProperties
    <3>4. Len(f[i].text) \in Nat /\ f[k].text = x \o y
      BY <1>1, <1>2, <3>1, <3>2 DEF Joined
    <3>5. Len(f[i].text) <= Len(x) /\ \A q \in 1 .. Len(f[i].text) : x[q] = f[i].text[q]
      BY <1>4, <3>2
    <3>6. Len(f[i].text) <= Len(x \o y)
      BY <3>3, <3>4, <3>5
    <3>7. ASSUME NEW q \in 1 .. Len(f[i].text) PROVE (x \o y)[q] = f[i].text[q]
      <4>1. q \in 1 .. Len(x)
        BY <3>3, <3>4, <3>5
      <4> QED
        BY <3>3, <3>5, <4>1
    <3> QED
      BY <2>1, <3>4, <3>6, <3>7
  <2>3. CASE ~ Visited(f, k)
    <3>1. f[k] = f[j]
      BY <1>1, <2>1, <2>3, AtSwallowed
    <3> QED
      BY <1>4, <2>1, <3>1
  <2> QED
    BY <2>2, <2>3
<1> HIDE DEF P
<1>5. \A j \in i .. n : j \in P
  BY <1>1, <1>3, <1>4, Upward
<1>6. m \in P
  BY <1>1, <1>5
<1>7. m \in 0 .. n
  BY <1>1
<1> QED
  BY <1>1, <1>2, <1>6, <1>7 DEF P

\* Every token a pass put out was put out at a place it visited.
LEMMA PutOutAt ==
  ASSUME NEW s, NEW F, NEW f, Passage(s, F, f)
  PROVE  \A m \in 0 .. Len(s) : \A q \in 1 .. Len(f[m].text) :
           \E i \in 1 .. m :
             /\ Visited(f, i)
             /\ q - Len(f[i - 1].text) \in 1 .. Len(F[i].text)
             /\ f[m].text[q] = F[i].text[q - Len(f[i - 1].text)]
<1>1. PICK n \in Nat : n = Len(s)
  BY Onward
<1>2. ASSUME NEW j \in 0 .. n PROVE f[j].text \in Seq(Pieces) /\ Len(f[j].text) \in Nat
  <2>1. f[j].text \in Seq(Pieces)
    BY <1>1 DEF Passage, Finds
  <2> QED
    BY <2>1, LenProperties
<1> DEFINE PutBy(m, q, i) == /\ Visited(f, i)
                             /\ q - Len(f[i - 1].text) \in 1 .. Len(F[i].text)
                             /\ f[m].text[q] = F[i].text[q - Len(f[i - 1].text)]
           P == {m \in 0 .. n :
                   \A q \in 1 .. Len(f[m].text) : \E i \in 1 .. m : PutBy(m, q, i)}
<1>3. 0 \in P
  <2>1. f[0].text = <<>> /\ Len(<<>>) = 0
    BY EmptySeq DEF Passage, Start
  <2>2. 1 .. Len(f[0].text) = {}
    BY <2>1
  <2> QED
    BY <2>2
<1>4. ASSUME NEW j \in 0 .. n, j \in P, j < n PROVE j + 1 \in P
  <2>1. PICK k \in 1 .. n : k = j + 1 /\ k - 1 = j /\ k \in 0 .. n /\ j \in 0 .. n
    BY <1>1, <1>4
  <2>2. CASE Visited(f, k)
    <3>1. f[k].text = Joined(f[j].text, F[k].text) /\ F[k].text \in Seq(Pieces)
      <4>1. f[k].text = Joined(f[k - 1].text, F[k].text)
        BY <1>1, <2>2, AtVisited
      <4>2. F[k].text \in Seq(Pieces)
        BY <1>1, AtPlace
      <4> QED
        BY <2>1, <4>1, <4>2
    <3>2. PICK x \in Seq(Pieces), y \in Seq(Pieces) : x = f[j].text /\ y = F[k].text
      BY <1>2, <2>1, <3>1
    <3>3. /\ Len(x \o y) = Len(x) + Len(y) /\ Len(x) \in Nat /\ Len(y) \in Nat
          /\ \A q \in 1 .. Len(x) : (x \o y)[q] = x[q]
          /\ \A q \in 1 .. Len(y) : (x \o y)[Len(x) + q] = y[q]
      <4>1. /\ Len(x \o y) = Len(x) + Len(y) /\ Len(x) \in Nat /\ Len(y) \in Nat
            /\ \A q \in 1 .. Len(x) : (x \o y)[q] = x[q]
            /\ \A q \in Len(x) + 1 .. Len(x) + Len(y) : (x \o y)[q] = y[q - Len(x)]
        BY ConcatProperties, LenProperties
      <4>2. \A q \in 1 .. Len(y) : Len(x) + q \in Len(x) + 1 .. Len(x) + Len(y)
                                     /\ Len(x) + q - Len(x) = q
        BY <4>1
      <4> QED
        BY <4>1, <4>2
    <3>4. f[k].text = x \o y
      BY <3>1, <3>2 DEF Joined
    <3>5. ASSUME NEW q \in 1 .. Len(f[k].text) PROVE \E i \in 1 .. k : PutBy(k, q, i)
      <4>1. q \in 1 .. Len(x) + Len(y) /\ q \in Int
        BY <3>3, <3>4
      <4>2. CASE q \in 1 .. Len(x)
        <5>1. PICK i \in 1 .. j : PutBy(j, q, i)
          BY <1>4, <3>2, <4>2
        <5>2. f[k].text[q] = f[j].text[q]
          BY <3>2, <3>3, <3>4, <4>2
        <5>3. i \in 1 .. k
          BY <2>1
        <5> QED
          BY <5>1, <5>2, <5>3
      <4>3. CASE q \notin 1 .. Len(x)
        <5>1. PICK d \in 1 .. Len(y) : q - Len(x) = d /\ q = Len(x) + d
          BY <3>3, <4>1, <4>3
        <5>2. f[k].text[q] = y[d]
          BY <3>3, <3>4, <5>1
        <5>3. PutBy(k, q, k)
          BY <2>1, <2>2, <3>2, <5>1, <5>2
        <5>4. k \in 1 .. k
          OBVIOUS
        <5> QED
          BY <5>3, <5>4
      <4> QED
        BY <4>2, <4>3
    <3> HIDE DEF PutBy
    <3> QED
      BY <2>1, <3>5
  <2>3. CASE ~ Visited(f, k)
    <3>1. f[k] = f[j]
      BY <1>1, <2>1, <2>3, AtSwallowed
    <3>2. ASSUME NEW q \in 1 .. Len(f[k].text) PROVE \E i \in 1 .. k : PutBy(k, q, i)
      <4>1. PICK i \in 1 .. j : PutBy(j, q, i)
        BY <1>4, <3>1, <3>2
      <4>2. i \in 1 .. k
        BY <2>1
      <4> QED
        BY <3>1, <4>1, <4>2
    <3> HIDE DEF PutBy
    <3> QED
      BY <2>1, <3>2
  <2> QED
    BY <2>2, <2>3
<1> HIDE DEF P
<1>5. \A m \in 0 .. n : m \in P
  BY <1>3, <1>4, Upward
<1> QED
  BY <1>1, <1>5 DEF P

\* y comes behind x in the record, or it ends a value that was taken out.
Follows(x, y, ends) ==
  \/ x.at # 0 /\ y.at = x.at + 1
  \/ x = Marker /\ y.kind \in ends

\* A token of t is one of the record r or none of it, and what is left of the
\* record stands in its order: a gap is a marker with the end of a value behind it.
Faithful(t, r, ends) ==
  /\ \A q \in 1 .. Len(t) : t[q].at = 0 \/ (t[q].at \in 1 .. Len(r) /\ t[q] = r[t[q].at])
  /\ t # <<>> => t[1].at \in {0, 1}
  /\ \A q \in 1 .. Len(t) - 1 : t[q + 1].at # 0 => Follows(t[q], t[q + 1], ends)

\* A faithful text stays faithful where a token of the record, or none, follows and
\* behind that only what is no part of the record.
LEMMA Joins ==
  ASSUME NEW r, NEW ends, NEW a \in Seq(Pieces), NEW b \in Seq(Pieces),
         Faithful(a, r, ends), b # <<>>,
         b[1].at = 0 \/ (b[1].at \in 1 .. Len(r) /\ b[1] = r[b[1].at]),
         \A x \in 2 .. Len(b) : b[x].at = 0,
         IF a = <<>> THEN b[1].at \in {0, 1}
         ELSE b[1].at # 0 => Follows(a[Len(a)], b[1], ends)
  PROVE  Faithful(a \o b, r, ends)
<1>1. PICK t : t = a \o b
  OBVIOUS
<1>2. PICK m \in Nat, n \in Nat : m = Len(a) /\ n = Len(b) /\ n >= 1
  <2>1. Len(a) \in Nat /\ Len(b) \in Nat /\ (Len(b) = 0 => b = <<>>)
    BY LenProperties, EmptySeq
  <2>2. Len(b) >= 1
    BY <2>1
  <2> QED
    BY <2>1, <2>2
<1>3. /\ Len(t) = m + n
      /\ \A q \in 1 .. m : t[q] = a[q]
      /\ \A q \in m + 1 .. m + n : t[q] = b[q - m]
      /\ t[m + 1] = b[1]
  <2>1. /\ Len(t) = m + n
        /\ \A q \in 1 .. m : t[q] = a[q]
        /\ \A q \in m + 1 .. m + n : t[q] = b[q - m]
    BY <1>1, <1>2, ConcatProperties
  <2>2. m + 1 \in m + 1 .. m + n /\ m + 1 - m = 1
    BY <1>2
  <2> QED
    BY <2>1, <2>2
<1>4. ASSUME NEW q \in 1 .. Len(t)
      PROVE  t[q].at = 0 \/ (t[q].at \in 1 .. Len(r) /\ t[q] = r[t[q].at])
  <2>1. CASE q \in 1 .. m
    <3>1. t[q] = a[q] /\ q \in 1 .. Len(a)
      BY <1>2, <1>3, <2>1
    <3> QED
      BY <3>1 DEF Faithful
  <2>2. CASE q = m + 1
    BY <1>3, <2>2
  <2>3. CASE q \notin 1 .. m /\ q # m + 1
    <3>1. q \in m + 1 .. m + n /\ q - m \in 2 .. Len(b)
      BY <1>2, <1>3, <2>3
    <3>2. t[q].at = 0
      BY <1>3, <3>1
    <3> QED
      BY <3>2
  <2> QED
    BY <2>1, <2>2, <2>3
<1>5. t[1].at \in {0, 1}
  <2>1. CASE a = <<>>
    <3>1. m = 0
      BY <1>2, <2>1, EmptySeq
    <3> QED
      BY <1>3, <2>1, <3>1
  <2>2. CASE a # <<>>
    <3>1. m # 0
      BY <1>2, <2>2, EmptySeq
    <3>2. 1 \in 1 .. m
      BY <3>1
    <3>3. t[1] = a[1]
      BY <1>3, <3>2
    <3> QED
      BY <2>2, <3>3 DEF Faithful
  <2> QED
    BY <2>1, <2>2
<1>6. ASSUME NEW q \in 1 .. Len(t) - 1, t[q + 1].at # 0
      PROVE  Follows(t[q], t[q + 1], ends)
  <2>1. CASE q \in 1 .. m - 1
    <3>1. q \in 1 .. m /\ q + 1 \in 1 .. m /\ q \in 1 .. Len(a) - 1
      BY <1>2, <2>1
    <3>2. t[q] = a[q] /\ t[q + 1] = a[q + 1]
      BY <1>3, <3>1
    <3> QED
      BY <1>6, <3>1, <3>2 DEF Faithful
  <2>2. CASE q = m
    <3>1. m \in 1 .. m /\ m # 0
      BY <1>2, <2>2
    <3>2. a # <<>> /\ t[q] = a[Len(a)] /\ t[q + 1] = b[1]
      BY <1>2, <1>3, <2>2, <3>1, EmptySeq
    <3> QED
      BY <1>6, <3>2
  <2>3. CASE q \notin 1 .. m - 1 /\ q # m
    <3>1. q + 1 \in m + 1 .. m + n /\ q + 1 - m \in 2 .. Len(b)
      BY <1>2, <1>3, <2>3
    <3>2. t[q + 1] = b[q + 1 - m]
      BY <1>3, <3>1
    <3>3. b[q + 1 - m].at = 0
      BY <3>1
    <3> QED
      BY <1>6, <3>2, <3>3
  <2> QED
    BY <2>1, <2>2, <2>3
<1>7. Faithful(t, r, ends)
  BY <1>4, <1>5, <1>6 DEF Faithful
<1> QED
  BY <1>1, <1>7

-----------------------------------------------------------------------------
\* A pass copies a token, or puts for it and more what ends in a marker: the token
\* itself or none of the record first, none of the record then, and behind it what
\* ends a value.
Copies(s, found, i) == found.text = <<s[i]>> /\ found.next = i + 1
Replaces(s, found, i, ends) ==
  /\ found.text # <<>>
  /\ found.text[1] = s[i] \/ found.text[1].at = 0
  /\ \A x \in 2 .. Len(found.text) : found.text[x].at = 0
  /\ found.text[Len(found.text)] = Marker
  /\ found.next = Len(s) + 1 \/ s[found.next].kind \in ends
Rewrites(s, F, ends) ==
  \A i \in 1 .. Len(s) : Copies(s, F[i], i) \/ Replaces(s, F[i], i, ends)

\* Where the text of a pass breaks off: behind a token of s, or before what ends
\* the value it has taken out.
Edge(s, x, ends) ==
  /\ x.text = <<>> => x.next = 1
  /\ x.text # <<>> =>
       \/ x.text[Len(x.text)] = s[x.next - 1] /\ x.next - 1 \in 1 .. Len(s)
       \/ /\ x.text[Len(x.text)] = Marker
          /\ x.next = Len(s) + 1 \/ s[x.next].kind \in ends

\* A passage over a faithful text that only takes values out puts out a faithful one.
LEMMA PassKeepsFaith ==
  ASSUME NEW s, NEW F, NEW f, Passage(s, F, f), NEW r, NEW ends,
         Faithful(s, r, ends), Rewrites(s, F, ends)
  PROVE  Faithful(f[Len(s)].text, r, ends)
<1>1. PICK n \in Nat : n = Len(s) /\ n \in 0 .. n
  <2>1. Len(s) \in Nat
    BY Onward
  <2> QED
    BY <2>1
<1> DEFINE Good(x) == /\ Faithful(x.text, r, ends)
                      /\ Edge(s, x, ends)
           P == {i \in 0 .. n : Good(f[i])}
<1>2. 0 \in P
  <2>1. f[0].text = <<>> /\ f[0].next = 1 /\ Len(<<>>) = 0
    BY EmptySeq DEF Passage, Start
  <2>2. Faithful(<<>>, r, ends)
    <3>1. 1 .. Len(<<>>) = {} /\ 1 .. Len(<<>>) - 1 = {}
      BY <2>1
    <3> QED
      BY <3>1 DEF Faithful
  <2>3. Edge(s, f[0], ends)
    BY <2>1 DEF Edge
  <2> QED
    BY <2>1, <2>2, <2>3
<1>3. ASSUME NEW i \in 0 .. n, i \in P, i < n PROVE i + 1 \in P
  <2>1. PICK j \in 1 .. n : j = i + 1 /\ j - 1 = i /\ j \in 0 .. n /\ j \in 1 .. Len(s)
    BY <1>1, <1>3
  <2>2. CASE Visited(f, j)
    <3>1. PICK a, b : a = f[i].text /\ b = F[j].text
      OBVIOUS
    <3>2. f[j].text = Joined(a, b) /\ f[j].next = F[j].next
      <4>1. f[j].text = Joined(f[j - 1].text, F[j].text) /\ f[j].next = F[j].next
        BY <2>1, <2>2, AtVisited
      <4> QED
        BY <2>1, <3>1, <4>1
    <3>3. f[j].text = a \o b
      BY <3>2 DEF Joined
    <3>4. a \in Seq(Pieces) /\ b \in Seq(Pieces) /\ s[j] \in Pieces
      BY <2>1, <3>1, AtPlace
    <3>5. Faithful(a, r, ends) /\ Edge(s, f[i], ends)
      BY <1>3, <3>1
    <3> HIDE DEF P
    <3>6. f[i].next = j
      BY <2>1, <2>2 DEF Visited
    <3>7. s[j].at = 0 \/ (s[j].at \in 1 .. Len(r) /\ s[j] = r[s[j].at])
      BY <2>1 DEF Faithful
    <3>8. IF a = <<>> THEN s[j].at \in {0, 1}
          ELSE s[j].at # 0 => Follows(a[Len(a)], s[j], ends)
      <4>1. CASE a = <<>>
        <5>1. j = 1 /\ s # <<>>
          <6>1. j = 1
            BY <3>1, <3>5, <3>6, <4>1 DEF Edge
          <6>2. Len(s) # 0
            BY <2>1
          <6> QED
            BY <6>1, <6>2, EmptySeq
        <5> QED
          BY <4>1, <5>1 DEF Faithful
      <4>2. CASE a # <<>>
        <5>1. \/ a[Len(a)] = s[j - 1] /\ j - 1 \in 1 .. Len(s)
              \/ a[Len(a)] = Marker /\ (j = Len(s) + 1 \/ s[j].kind \in ends)
          BY <3>1, <3>5, <3>6, <4>2 DEF Edge
        <5>2. CASE a[Len(a)] = s[j - 1] /\ j - 1 \in 1 .. Len(s)
          <6>1. PICK q \in 1 .. Len(s) - 1 : q = j - 1 /\ q + 1 = j
            BY <1>1, <2>1, <5>2
          <6>2. s[q + 1].at # 0 => Follows(s[q], s[q + 1], ends)
            BY DEF Faithful
          <6> QED
            BY <4>2, <5>2, <6>1, <6>2
        <5>3. CASE a[Len(a)] = Marker /\ (j = Len(s) + 1 \/ s[j].kind \in ends)
          <6>1. j # Len(s) + 1
            BY <1>1, <2>1
          <6> QED
            BY <4>2, <5>3, <6>1 DEF Follows
        <5> QED
          BY <5>1, <5>2, <5>3
      <4> QED
        BY <4>1, <4>2
    <3>9. Copies(s, F[j], j) \/ Replaces(s, F[j], j, ends)
      BY <2>1 DEF Rewrites
    <3>10. /\ b # <<>>
           /\ b[1] = s[j] \/ b[1].at = 0
           /\ \A x \in 2 .. Len(b) : b[x].at = 0
      <4>1. CASE Copies(s, F[j], j)
        <5>1. PICK c : c = s[j]
          OBVIOUS
        <5>2. b = <<c>>
          BY <3>1, <4>1, <5>1 DEF Copies
        <5>3. b # <<>> /\ Len(b) = 1 /\ b[1] = c
          BY <5>2
        <5>4. 2 .. Len(b) = {}
          BY <5>3
        <5> QED
          BY <5>1, <5>3, <5>4
      <4>2. CASE Replaces(s, F[j], j, ends)
        BY <3>1, <4>2 DEF Replaces
      <4> QED
        BY <3>9, <4>1, <4>2
    <3>11. b[1].at = 0 \/ (b[1].at \in 1 .. Len(r) /\ b[1] = r[b[1].at])
      BY <3>7, <3>10
    <3>12. IF a = <<>> THEN b[1].at \in {0, 1}
           ELSE b[1].at # 0 => Follows(a[Len(a)], b[1], ends)
      BY <3>8, <3>10
    <3>13. Faithful(a \o b, r, ends)
      BY <3>4, <3>5, <3>10, <3>11, <3>12, Joins
    <3>14. Edge(s, f[j], ends)
      <4>1. PICK t : t = a \o b
        OBVIOUS
      <4>2. PICK m \in Nat, k \in Nat : m = Len(a) /\ k = Len(b)
        <5>1. Len(a) \in Nat /\ Len(b) \in Nat
          BY <3>4, LenProperties
        <5> QED
          BY <5>1
      <4>3. k >= 1
        <5>1. Len(b) # 0
          BY <3>4, <3>10, EmptySeq
        <5> QED
          BY <4>2, <5>1
      <4>4. Len(t) = m + k /\ t[m + k] = b[k]
        <5>1. /\ Len(t) = m + k
              /\ \A q \in m + 1 .. m + k : t[q] = b[q - m]
          BY <3>4, <4>1, <4>2, ConcatProperties
        <5>2. m + k \in m + 1 .. m + k /\ m + k - m = k
          BY <4>3
        <5> QED
          BY <5>1, <5>2
      <4>5. t # <<>>
        BY <4>3, <4>4, EmptySeq
      <4>6. f[j].text = t /\ t[Len(t)] = b[Len(b)]
        BY <3>3, <4>1, <4>2, <4>4
      <4>7. CASE Copies(s, F[j], j)
        <5>1. PICK c : c = s[j]
          OBVIOUS
        <5>2. b = <<c>> /\ F[j].next = j + 1
          BY <3>1, <4>7, <5>1 DEF Copies
        <5>3. b[Len(b)] = c /\ j + 1 - 1 = j
          BY <5>2
        <5> QED
          BY <2>1, <3>2, <4>5, <4>6, <5>1, <5>2, <5>3 DEF Edge
      <4>8. CASE Replaces(s, F[j], j, ends)
        <5>1. b[Len(b)] = Marker /\ (F[j].next = Len(s) + 1 \/ s[F[j].next].kind \in ends)
          BY <3>1, <4>8 DEF Replaces
        <5> QED
          BY <3>2, <4>5, <4>6, <5>1 DEF Edge
      <4> QED
        BY <3>9, <4>7, <4>8
    <3>15. Good(f[j])
      BY <3>3, <3>13, <3>14
    <3> HIDE DEF Good
    <3> QED
      BY <2>1, <3>15 DEF P
  <2>3. CASE ~ Visited(f, j)
    <3>1. f[j] = f[j - 1]
      BY <2>1, <2>3, AtSwallowed
    <3> HIDE DEF Good
    <3> QED
      BY <1>3, <2>1, <3>1
  <2> QED
    BY <2>2, <2>3
<1> HIDE DEF P
<1>4. \A i \in 0 .. n : i \in P
  BY <1>2, <1>3, Upward
<1> QED
  BY <1>1, <1>4 DEF P

\* A run of copied tokens stands in the text as it stood.
RunStands(s, f, a, b) ==
  \A i \in a .. b :
    /\ Visited(f, i)
    /\ Len(f[i].text) = Len(f[a - 1].text) + (i - a) + 1
    /\ \A j \in a .. i : f[i].text[Len(f[a - 1].text) + (j - a) + 1] = s[j]

LEMMA CopiedRun ==
  ASSUME NEW s, NEW F, NEW f, Passage(s, F, f),
         NEW a \in 1 .. Len(s), NEW b \in a .. Len(s), Visited(f, a),
         \A i \in a .. b : F[i] = Copied(s, i)
  PROVE  RunStands(s, f, a, b)
<1>1. PICK n \in Nat : n = Len(s) /\ a \in Nat /\ b \in Nat /\ a <= b /\ b <= n /\ 1 <= a
  BY Onward
<1>2. PICK w \in Nat : w = Len(f[a - 1].text)
  <2>1. f[a - 1].text \in Seq(Pieces)
    BY AtPlace
  <2> QED
    BY <2>1, LenProperties
<1> DEFINE Good(i) == /\ Visited(f, i)
                      /\ Len(f[i].text) = w + (i - a) + 1
                      /\ \A j \in a .. i : f[i].text[w + (j - a) + 1] = s[j]
           P == {i \in a .. b : Good(i)}
<1>3. ASSUME NEW i \in a .. b, Visited(f, i), Len(f[i - 1].text) = w + (i - a),
             \A j \in a .. i - 1 : f[i - 1].text[w + (j - a) + 1] = s[j]
      PROVE  Good(i)
  <2>1. i \in 1 .. Len(s) /\ i \in Nat
    BY <1>1
  <2>2. PICK x, c, y : x = f[i - 1].text /\ c = s[i] /\ y = F[i].text /\ y = <<c>>
    <3>1. PICK c : c = s[i]
      OBVIOUS
    <3>2. F[i] = [text |-> <<c>>, next |-> i + 1]
      BY <3>1 DEF Copied
    <3>3. F[i].text = <<c>>
      BY <3>2
    <3> QED
      BY <3>1, <3>3
  <2>3. x \in Seq(Pieces) /\ c \in Pieces
    BY <2>1, <2>2, AtPlace
  <2>4. f[i].text = Joined(x, y)
    <3>1. f[i].text = Joined(f[i - 1].text, F[i].text)
      BY <1>3, <2>1, AtVisited
    <3> QED
      BY <2>2, <3>1
  <2>5. f[i].text = x \o <<c>>
    BY <2>2, <2>4 DEF Joined
  <2>6. PICK t : t = Append(x, c)
    OBVIOUS
  <2>7. f[i].text = t
    BY <2>3, <2>5, <2>6, AppendIsConcat
  <2>8. Len(t) = Len(x) + 1 /\ (\A q \in 1 .. Len(x) : t[q] = x[q]) /\ t[Len(x) + 1] = c
    BY <2>3, <2>6, AppendProperties
  <2>9. Len(x) = w + (i - a)
    BY <1>3, <2>2
  <2>10. ASSUME NEW j \in a .. i PROVE t[w + (j - a) + 1] = s[j]
    <3>1. CASE j = i
      <4>1. w + (j - a) + 1 = Len(x) + 1
        BY <2>9, <3>1
      <4> QED
        BY <2>2, <2>8, <3>1, <4>1
    <3>2. CASE j # i
      <4>1. j \in a .. i - 1 /\ w + (j - a) + 1 \in 1 .. Len(x)
        BY <1>1, <2>1, <2>9, <3>2
      <4> QED
        BY <1>3, <2>2, <2>8, <4>1
    <3> QED
      BY <3>1, <3>2
  <2> QED
    BY <1>3, <2>7, <2>8, <2>9, <2>10
<1>4. a \in P
  <2>1. a \in a .. b /\ a .. a - 1 = {} /\ w = w + (a - a)
    BY <1>1
  <2>2. Good(a)
    BY <1>2, <1>3, <2>1
  <2> HIDE DEF Good
  <2> QED
    BY <2>1, <2>2
<1>5. ASSUME NEW i \in a .. b, i \in P, i < b PROVE i + 1 \in P
  <2>1. Good(i)
    BY <1>5
  <2>2. PICK k \in a .. b : k = i + 1 /\ k - 1 = i
    BY <1>1, <1>5
  <2>3. Visited(f, k)
    <3>1. f[i].next = F[i].next
      <4>1. i \in 1 .. Len(s)
        BY <1>1
      <4> QED
        BY <2>1, <4>1, AtVisited
    <3>2. F[i].next = k
      <4>1. F[i] = Copied(s, i)
        OBVIOUS
      <4> QED
        BY <2>2, <4>1 DEF Copied
    <3> QED
      BY <2>2, <3>1, <3>2 DEF Visited
  <2>4. Len(f[k - 1].text) = w + (k - a) /\ k - 1 = i
    <3>1. w + (i - a) + 1 = w + (k - a)
      BY <1>1, <2>2
    <3> QED
      BY <2>1, <2>2, <3>1
  <2>5. \A j \in a .. k - 1 : f[k - 1].text[w + (j - a) + 1] = s[j]
    BY <2>1, <2>2
  <2>6. Good(k)
    BY <1>3, <2>3, <2>4, <2>5
  <2> HIDE DEF Good
  <2> QED
    BY <2>2, <2>6
<1> HIDE DEF P
<1>6. \A i \in a .. b : i \in P
  BY <1>1, <1>4, <1>5, Upward
<1>7. \A i \in a .. b : Good(i)
  BY <1>6 DEF P
<1> QED
  BY <1>2, <1>7 DEF RunStands

\* The first place of some kinds is where one stands and none before it.
LEMMA FirstPlace ==
  ASSUME NEW s \in Seq(Pieces), NEW i \in 1 .. Len(s) + 1, NEW kinds
  PROVE  /\ Len(s) \in Nat
         /\ FirstOf(s, i, kinds) \in i .. Len(s) + 1
         /\ FirstOf(s, i, kinds) = Len(s) + 1 \/ s[FirstOf(s, i, kinds)].kind \in kinds
         /\ \A m \in i .. FirstOf(s, i, kinds) - 1 : s[m].kind \notin kinds
<1>1. PICK n \in Nat : n = Len(s)
  BY LenProperties
<1> DEFINE T == {j \in i .. n + 1 : j = n + 1 \/ s[j].kind \in kinds}
<1>2. T \in SUBSET Nat /\ n + 1 \in T
  BY <1>1
<1>3. PICK j \in T : \A y \in T : j <= y
  <2> HIDE DEF T
  <2> QED
    BY <1>2, LeastNumber
<1>4. /\ j \in i .. Len(s) + 1
      /\ j = Len(s) + 1 \/ s[j].kind \in kinds
      /\ \A m \in i .. j - 1 : s[m].kind \notin kinds
  <2>1. j \in i .. n + 1 /\ (j = n + 1 \/ s[j].kind \in kinds)
    OBVIOUS
  <2>2. ASSUME NEW m \in i .. j - 1 PROVE s[m].kind \notin kinds
    <3>1. m \in i .. n + 1 /\ ~ (j <= m)
      BY <1>1, <2>1
    <3>2. m \notin T
      BY <1>3, <3>1
    <3> QED
      BY <3>1, <3>2
  <2> QED
    BY <1>1, <2>1, <2>2
<1> HIDE DEF T
<1>5. LET c == FirstOf(s, i, kinds)
      IN /\ c \in i .. Len(s) + 1
         /\ c = Len(s) + 1 \/ s[c].kind \in kinds
         /\ \A m \in i .. c - 1 : s[m].kind \notin kinds
  BY <1>4 DEF FirstOf
<1> QED
  BY <1>1, <1>5

\* It is not behind one of them, and it is behind where there are none.
LEMMA FirstWithin ==
  ASSUME NEW s \in Seq(Pieces), NEW i \in 1 .. Len(s) + 1, NEW kinds,
         NEW w \in i .. Len(s), s[w].kind \in kinds
  PROVE  FirstOf(s, i, kinds) \in i .. w
<1>1. PICK j : j = FirstOf(s, i, kinds)
  OBVIOUS
<1>2. /\ Len(s) \in Nat /\ j \in i .. Len(s) + 1
      /\ \A m \in i .. j - 1 : s[m].kind \notin kinds
  BY <1>1, FirstPlace
<1>3. ASSUME ~ (j <= w) PROVE FALSE
  <2>1. w \in i .. j - 1
    BY <1>2, <1>3
  <2> QED
    BY <1>2, <2>1
<1> QED
  BY <1>1, <1>2, <1>3

\* The first place is behind those where none of the kinds stands.
LEMMA FirstBeyond ==
  ASSUME NEW s \in Seq(Pieces), NEW i \in 1 .. Len(s) + 1, NEW kinds,
         NEW w \in i .. Len(s), \A m \in i .. w : s[m].kind \notin kinds
  PROVE  FirstOf(s, i, kinds) \in w + 1 .. Len(s) + 1
<1>1. PICK j : j = FirstOf(s, i, kinds)
  OBVIOUS
<1>2. /\ Len(s) \in Nat /\ j \in i .. Len(s) + 1
      /\ j = Len(s) + 1 \/ s[j].kind \in kinds
  BY <1>1, FirstPlace
<1>3. ASSUME j <= w PROVE FALSE
  <2>1. j \in i .. w /\ j # Len(s) + 1
    BY <1>2, <1>3
  <2> QED
    BY <1>2, <2>1
<1> QED
  BY <1>1, <1>2, <1>3

\* What is skipped is of the kinds to be skipped.
LEMMA FirstNot ==
  ASSUME NEW s \in Seq(Pieces), NEW i \in 1 .. Len(s) + 1, NEW kinds
  PROVE  /\ Len(s) \in Nat
         /\ FirstOther(s, i, kinds) \in i .. Len(s) + 1
         /\ FirstOther(s, i, kinds) = Len(s) + 1
              \/ s[FirstOther(s, i, kinds)].kind \notin kinds
         /\ \A m \in i .. FirstOther(s, i, kinds) - 1 : s[m].kind \in kinds
<1>1. PICK j : j = FirstOther(s, i, kinds)
  OBVIOUS
<1>2. /\ Len(s) \in Nat /\ j \in i .. Len(s) + 1
      /\ j = Len(s) + 1 \/ s[j].kind \in AllKinds \ kinds
      /\ \A m \in i .. j - 1 : s[m].kind \notin AllKinds \ kinds
  BY <1>1, FirstPlace DEF FirstOther
<1>3. ASSUME NEW m \in i .. j - 1 PROVE s[m].kind \in kinds
  <2>1. m \in 1 .. Len(s)
    BY <1>2
  <2>2. s[m] \in Pieces
    BY <2>1, ElementOfSeq
  <2>3. s[m].kind \in AllKinds
    BY <2>2 DEF Pieces
  <2> QED
    BY <1>2, <2>3
<1> QED
  BY <1>1, <1>2, <1>3

\* A token and what a pass puts for tokens.
LEMMA TokenTyped ==
  ASSUME NEW kind \in AllKinds
  PROVE  Token(kind) \in Pieces /\ Token(kind).at = 0 /\ Token(kind).kind = kind
BY DEF Token, Pieces

\* A marker is a token of its own kind.
LEMMA MarkerTyped ==
  Marker \in Pieces /\ Marker.at = 0 /\ Marker.kind = "marker"
<1>1. "marker" \in AllKinds
  BY DEF AllKinds
<1> QED
  BY <1>1, TokenTyped DEF Marker

-----------------------------------------------------------------------------
\* The run of a pass is a passage.
LEMMA RunIsPassage ==
  ASSUME NEW s \in Seq(Pieces), NEW F \in [1 .. Len(s) -> Finds],
         \A i \in 1 .. Len(s) : F[i].next \in i + 1 .. Len(s) + 1,
         NEW f, f = [i \in 0 .. Len(s) |-> IF i = 0 THEN Start ELSE Taken(F[i], f[i - 1], i)]
  PROVE  Passage(s, F, f)
<1>1. PICK n \in Nat : n = Len(s) /\ 0 \in 0 .. n
  <2>1. Len(s) \in Nat
    BY LenProperties
  <2> QED
    BY <2>1
<1>2. f[0] = Start /\ Start \in Finds
  <2>1. f[0] = Start
    BY <1>1
  <2>2. <<>> \in Seq(Pieces)
    BY EmptySeq
  <2> QED
    BY <2>1, <2>2 DEF Start, Finds
<1>3. ASSUME NEW i \in 1 .. n PROVE f[i] = Taken(F[i], f[i - 1], i)
  <2>1. i \in 0 .. n /\ i # 0
    BY <1>1
  <2> QED
    BY <1>1, <2>1
<1> DEFINE P == {i \in 0 .. n : f[i] \in Finds}
<1>4. 0 \in P
  BY <1>1, <1>2
<1>5. ASSUME NEW i \in 0 .. n, i \in P, i < n PROVE i + 1 \in P
  <2>1. PICK j \in 1 .. n : j = i + 1 /\ j - 1 = i /\ j \in 0 .. n
    BY <1>1, <1>5
  <2>2. PICK x \in Finds, y \in Finds : x = f[i] /\ y = F[j]
    BY <1>1, <1>5, <2>1
  <2>3. f[j] = Taken(y, x, j)
    BY <1>3, <2>1, <2>2
  <2>4. Taken(y, x, j) \in Finds
    <3>1. x.text \in Seq(Pieces) /\ y.text \in Seq(Pieces) /\ y.next \in Nat
      BY DEF Finds
    <3>2. PICK z \in Seq(Pieces) : z = x.text \o y.text
      BY <3>1, ConcatProperties
    <3>3. [text |-> z, next |-> y.next] \in Finds
      BY <3>1, <3>2 DEF Finds
    <3> QED
      BY <3>2, <3>3, Zenon DEF Taken
  <2> QED
    BY <2>1, <2>3, <2>4
<1> HIDE DEF P
<1>6. \A i \in 0 .. n : i \in P
  BY <1>1, <1>4, <1>5, Upward
<1>7. f \in [0 .. n -> Finds]
  <2>1. \A i \in 0 .. n : f[i] \in Finds
    BY <1>6 DEF P
  <2>2. f = [i \in 0 .. n |-> f[i]]
    BY <1>1
  <2> QED
    BY <2>1, <2>2
<1> QED
  BY <1>1, <1>2, <1>3, <1>7 DEF Passage

PassFinds(name, s, i) ==
  CASE name = "pem" -> PemBlock(s, i)
    [] name = "auth" -> Authorization(s, i)
    [] name = "keys" -> KeyValue(s, i)
    [] name = "user" -> UserSegment(s, i)
PassOf(name, s) ==
  CASE name = "pem" -> Pass(s, PemBlock)
    [] name = "auth" -> Pass(s, Authorization)
    [] name = "keys" -> Pass(s, KeyValue)
    [] name = "user" -> Pass(s, UserSegment)
PassNames == {"pem", "auth", "keys", "user"}

\* A pass is a passage over what it finds at each place.
LEMMA PassIsPassage ==
  ASSUME NEW name \in PassNames, NEW s \in Seq(Pieces), NEW F \in [1 .. Len(s) -> Finds],
         \A i \in 1 .. Len(s) : F[i] = PassFinds(name, s, i),
         \A i \in 1 .. Len(s) : F[i].next \in i + 1 .. Len(s) + 1
  PROVE  \E f : Passage(s, F, f) /\ PassOf(name, s) = f[Len(s)].text
<1>1. PICK n \in Nat : n = Len(s) /\ n \in 0 .. n
  <2>1. Len(s) \in Nat
    BY LenProperties
  <2> QED
    BY <2>1
<1>2. PassOf(name, s) = Fold(Passing(name, s), Start, Places(s)).text
  BY <1>1, PassesAre DEF PassOf, PassNames
<1>3. Len(Places(s)) = n /\ \A i \in 1 .. n : Places(s)[i] = i
  BY <1>1 DEF Places
<1>4. PICK f : Runs(Passing(name, s), f, Start, Places(s))
                 /\ Fold(Passing(name, s), Start, Places(s)) = f[n]
  <2>1. PICK fold, seq : fold = Passing(name, s) /\ seq = Places(s)
    OBVIOUS
  <2>2. Len(seq) = n /\ Len(seq) \in Nat
    BY <1>3, <2>1
  <2>3. \E f : Runs(fold, f, Start, seq) /\ Fold(fold, Start, seq) = f[Len(seq)]
    BY <2>2, FoldRuns
  <2> QED
    BY <2>1, <2>2, <2>3
<1>5. \A acc, i : Step(Passing(name, s), acc, i) = Taken(PassFinds(name, s, i), acc, i)
  <2>1. Passing(name, s).of = name /\ Passing(name, s).text = s
    BY DEF Passing
  <2> QED
    BY <2>1 DEF Step, PassFinds, PassNames
<1>6. f = [i \in 0 .. n |-> IF i = 0 THEN Start
                            ELSE Step(Passing(name, s), f[i - 1], Places(s)[i])]
  BY <1>3, <1>4 DEF Runs
<1>7. \A i \in 0 .. n : i = 0 \/ Step(Passing(name, s), f[i - 1], Places(s)[i])
                                  = Taken(F[i], f[i - 1], i)
  <2> SUFFICES ASSUME NEW i \in 0 .. n, i # 0
               PROVE  Step(Passing(name, s), f[i - 1], Places(s)[i]) = Taken(F[i], f[i - 1], i)
    OBVIOUS
  <2>1. i \in 1 .. n
    OBVIOUS
  <2>2. Places(s)[i] = i /\ F[i] = PassFinds(name, s, i)
    BY <1>1, <1>3, <2>1
  <2> QED
    BY <1>5, <2>2
<1>8. f = [i \in 0 .. n |-> IF i = 0 THEN Start ELSE Taken(F[i], f[i - 1], i)]
  BY <1>6, <1>7, Zenon
<1>9. Passage(s, F, f)
  BY <1>1, <1>8, RunIsPassage
<1> QED
  BY <1>1, <1>2, <1>4, <1>9

\* What the passes find.
Ends == {"space", "eol", "semi", "quote", "comma"}

\* The texts of one, two and three tokens.
LEMMA OneTyped ==
  ASSUME NEW a \in Pieces
  PROVE  \E x \in Seq(Pieces) :
           /\ x = <<a>> /\ Len(x) = 1
           /\ x[1] = a
<1>1. PICK x : x = <<a>>
  OBVIOUS
<1>2. x \in Seq(Pieces)
  BY <1>1
<1>3. Len(x) = 1 /\ x[1] = a
  BY <1>1
<1> QED
  BY <1>1, <1>2, <1>3

LEMMA TwoTyped ==
  ASSUME NEW a \in Pieces, NEW b \in Pieces
  PROVE  \E x \in Seq(Pieces) :
           /\ x = <<a, b>> /\ Len(x) = 2
           /\ x[1] = a /\ x[2] = b
<1>1. PICK x : x = <<a, b>>
  OBVIOUS
<1>2. x \in Seq(Pieces)
  BY <1>1
<1>3. Len(x) = 2 /\ x[1] = a /\ x[2] = b
  BY <1>1
<1> QED
  BY <1>1, <1>2, <1>3

LEMMA ThreeTyped ==
  ASSUME NEW a \in Pieces, NEW b \in Pieces, NEW c \in Pieces
  PROVE  \E x \in Seq(Pieces) :
           /\ x = <<a, b, c>> /\ Len(x) = 3
           /\ x[1] = a /\ x[2] = b /\ x[3] = c
<1>1. PICK x : x = <<a, b, c>>
  OBVIOUS
<1>2. x \in Seq(Pieces)
  BY <1>1
<1>3. Len(x) = 3 /\ x[1] = a /\ x[2] = b /\ x[3] = c
  BY <1>1
<1> QED
  BY <1>1, <1>2, <1>3

\* A place that is copied.
LEMMA CopiedFinds ==
  ASSUME NEW s \in Seq(Pieces), NEW i \in 1 .. Len(s)
  PROVE  /\ Copied(s, i) \in Finds /\ Copied(s, i).next \in i + 1 .. Len(s) + 1
         /\ Copies(s, Copied(s, i), i)
<1>1. PICK a \in Pieces, n \in Nat : a = s[i] /\ n = Len(s)
  BY ElementOfSeq, LenProperties
<1>2. PICK x \in Seq(Pieces) : x = <<a>>
  BY OneTyped
<1>3. Copied(s, i) = [text |-> x, next |-> i + 1]
  BY <1>1, <1>2 DEF Copied
<1>4. i + 1 \in Nat /\ i + 1 \in i + 1 .. n + 1
  BY <1>1
<1>5. Copied(s, i).text = x /\ Copied(s, i).next = i + 1
  BY <1>3
<1>6. Copied(s, i) \in Finds
  BY <1>3, <1>4 DEF Finds
<1> QED
  BY <1>1, <1>2, <1>4, <1>5, <1>6 DEF Copies

\* What is put for a value, its length and its end.
LEMMA ReplacedFinds ==
  ASSUME NEW s \in Seq(Pieces), NEW i \in 1 .. Len(s), NEW x \in Seq(Pieces),
         NEW j \in i + 1 .. Len(s) + 1, NEW ends, NEW k \in 1 .. 4,
         Len(x) = k, x[k] = Marker,
         x[1] = s[i] \/ x[1].at = 0,
         \A m \in 2 .. k : x[m].at = 0,
         j = Len(s) + 1 \/ s[j].kind \in ends,
         NEW found, found = [text |-> x, next |-> j]
  PROVE  /\ found \in Finds /\ found.next \in i + 1 .. Len(s) + 1
         /\ Replaces(s, found, i, ends)
<1>1. found.text = x /\ found.next = j
  OBVIOUS
<1>2. j \in Nat
  <2>1. Len(s) \in Nat
    BY LenProperties
  <2> QED
    BY <2>1
<1>3. found \in Finds
  BY <1>2 DEF Finds
<1>4. x # <<>>
  <2>1. Len(x) # 0
    OBVIOUS
  <2> QED
    BY <2>1, EmptySeq
<1> QED
  BY <1>1, <1>3, <1>4 DEF Replaces

\* Where the block of a key ends.
LEMMA BlockEnds ==
  ASSUME NEW s \in Seq(Pieces), NEW i \in 1 .. Len(s), s[i].kind # "eol"
  PROVE  /\ Len(s) \in Nat
         /\ FirstOf(s, i, {"eol"}) \in i + 1 .. Len(s) + 1
         /\ BlockEnd(s, i) \in i + 1 .. Len(s) + 1
         /\ BlockEnd(s, i) = Len(s) + 1 \/ s[BlockEnd(s, i)].kind \in {"eol"}
<1>1. PICK n \in Nat : n = Len(s)
  BY LenProperties
<1>2. i \in 1 .. Len(s) + 1
  BY <1>1
<1>3. PICK l : l = FirstOf(s, i, {"eol"})
  OBVIOUS
<1>4. l \in i .. n + 1 /\ (l = n + 1 \/ s[l].kind \in {"eol"})
  BY <1>1, <1>2, <1>3, FirstPlace
<1>5. l \in i + 1 .. n + 1
  BY <1>1, <1>4
<1>6. PICK c : c = FirstOf(s, l, {"end"})
  OBVIOUS
<1>7. l \in 1 .. Len(s) + 1
  BY <1>1, <1>5
<1>8. c \in l .. n + 1
  BY <1>1, <1>6, <1>7, FirstPlace
<1>9. BlockEnd(s, i) = IF c > n THEN c ELSE FirstOf(s, c, {"eol"})
  BY <1>1, <1>3, <1>6 DEF BlockEnd
<1>10. CASE c > n
  <2>1. c = n + 1 /\ BlockEnd(s, i) = n + 1 /\ n + 1 \in i + 1 .. n + 1
    BY <1>1, <1>5, <1>8, <1>9, <1>10
  <2> QED
    BY <1>1, <1>3, <1>5, <2>1
<1>11. CASE ~ (c > n)
  <2>1. PICK e : e = FirstOf(s, c, {"eol"})
    OBVIOUS
  <2>2. c \in 1 .. Len(s) + 1
    BY <1>1, <1>5, <1>8
  <2>3. e \in c .. n + 1 /\ (e = n + 1 \/ s[e].kind \in {"eol"})
    BY <1>1, <2>1, <2>2, FirstPlace
  <2>4. e \in i + 1 .. n + 1 /\ BlockEnd(s, i) = e
    BY <1>5, <1>8, <1>9, <1>11, <2>1, <2>3
  <2> QED
    BY <1>1, <1>3, <1>5, <2>3, <2>4
<1> QED
  BY <1>10, <1>11

\* What redact_pem_blocks finds at a place.
LEMMA PemFinds ==
  ASSUME NEW s \in Seq(Pieces), NEW i \in 1 .. Len(s)
  PROVE  /\ PemBlock(s, i) \in Finds /\ PemBlock(s, i).next \in i + 1 .. Len(s) + 1
         /\ Copies(s, PemBlock(s, i), i)
              \/ Replaces(s, PemBlock(s, i), i, {"eol"})
<1>1. CASE /\ s[i].kind \in {"pem", "cert"}
           /\ \E m \in i .. FirstOf(s, i, {"eol"}) - 1 : s[m].kind \in {"pem", "end"}
  <2>1. s[i].kind # "eol"
    BY <1>1
  <2>2. PICK j : j = BlockEnd(s, i)
    OBVIOUS
  <2>3. j \in i + 1 .. Len(s) + 1 /\ (j = Len(s) + 1 \/ s[j].kind \in {"eol"})
    BY <2>1, <2>2, BlockEnds
  <2>4. PICK a \in Pieces : a = Marker /\ a.at = 0
    BY MarkerTyped
  <2>5. PICK x \in Seq(Pieces) : x = <<a>> /\ Len(x) = 1 /\ x[1] = a
    BY OneTyped
  <2>6. PemBlock(s, i) = [text |-> x, next |-> j]
    BY <1>1, <2>2, <2>4, <2>5 DEF PemBlock
  <2>7. PICK k \in 1 .. 4 : k = 1
    OBVIOUS
  <2>8. PICK ends : ends = {"eol"}
    OBVIOUS
  <2>9. PICK found : found = PemBlock(s, i)
    OBVIOUS
  <2>10. /\ Len(x) = k /\ x[k] = Marker /\ x[1].at = 0
         /\ \A m \in 2 .. k : x[m].at = 0
         /\ j = Len(s) + 1 \/ s[j].kind \in ends
         /\ found = [text |-> x, next |-> j] /\ j \in i + 1 .. Len(s) + 1
    BY <2>3, <2>4, <2>5, <2>6, <2>7, <2>9, <2>8
  <2>11. /\ found \in Finds /\ found.next \in i + 1 .. Len(s) + 1
         /\ Replaces(s, found, i, ends)
    BY <2>10, ReplacedFinds
  <2> QED
    BY <2>9, <2>11, <2>8
<1>2. CASE ~ (/\ s[i].kind \in {"pem", "cert"}
              /\ \E m \in i .. FirstOf(s, i, {"eol"}) - 1 : s[m].kind \in {"pem", "end"})
  <2>1. PemBlock(s, i) = Copied(s, i)
    BY <1>2 DEF PemBlock
  <2> QED
    BY <2>1, CopiedFinds
<1> QED
  BY <1>1, <1>2

\* The tokens the passes write themselves.
LEMMA NoneOfRecord ==
  /\ \A kind \in {"auth", "bearer", "colon", "space"} :
       /\ Token(kind) \in Pieces /\ Token(kind).at = 0
  /\ Marker \in Pieces /\ Marker.at = 0
<1>1. ASSUME NEW kind \in {"auth", "bearer", "colon", "space"}
      PROVE  Token(kind) \in Pieces /\ Token(kind).at = 0
  <2>1. kind \in AllKinds
    BY DEF AllKinds
  <2> QED
    BY <2>1, TokenTyped
<1>2. Marker \in Pieces /\ Marker.at = 0
  BY MarkerTyped
<1> QED
  BY <1>1, <1>2

\* Where a header's value and another value end.
LEMMA HeaderEnds ==
  ASSUME NEW s \in Seq(Pieces), NEW i \in 1 .. Len(s), NEW j,
         j = ConsumeToLineEnd(s, SkipSeparators(s, i + 1))
  PROVE  j \in i + 1 .. Len(s) + 1 /\ (j = Len(s) + 1 \/ s[j].kind \in {"eol", "quote", "comma"})
<1>1. Len(s) \in Nat /\ i + 1 \in 1 .. Len(s) + 1
  BY LenProperties
<1>2. PICK v : v = SkipSeparators(s, i + 1)
  OBVIOUS
<1>3. v \in i + 1 .. Len(s) + 1
  BY <1>1, <1>2, FirstNot DEF SkipSeparators
<1>4. v \in 1 .. Len(s) + 1
  BY <1>1, <1>3
<1>5. j \in v .. Len(s) + 1 /\ (j = Len(s) + 1 \/ s[j].kind \in {"eol", "quote", "comma"})
  BY <1>2, <1>4, FirstPlace DEF ConsumeToLineEnd
<1> QED
  BY <1>1, <1>3, <1>5

\* A value is followed by what ends it, or by nothing.
LEMMA ValueEnds ==
  ASSUME NEW s \in Seq(Pieces), NEW i \in 1 .. Len(s), NEW kinds, NEW j,
         j = ConsumeValue(s, FirstOther(s, i + 1, kinds))
  PROVE  j \in i + 1 .. Len(s) + 1 /\ (j = Len(s) + 1 \/ s[j].kind \in Ends)
<1>1. Len(s) \in Nat /\ i + 1 \in 1 .. Len(s) + 1
  BY LenProperties
<1>2. PICK v : v = FirstOther(s, i + 1, kinds)
  OBVIOUS
<1>3. v \in i + 1 .. Len(s) + 1
  BY <1>1, <1>2, FirstNot
<1>4. v \in 1 .. Len(s) + 1
  BY <1>1, <1>3
<1>5. j \in v .. Len(s) + 1 /\ (j = Len(s) + 1 \/ s[j].kind \in Ends)
  BY <1>2, <1>4, FirstPlace DEF ConsumeValue, Ends
<1> QED
  BY <1>1, <1>3, <1>5

\* What redact_authorization finds at a place.
LEMMA AuthorizationFinds ==
  ASSUME NEW s \in Seq(Pieces), NEW i \in 1 .. Len(s)
  PROVE  /\ Authorization(s, i) \in Finds /\ Authorization(s, i).next \in i + 1 .. Len(s) + 1
         /\ Copies(s, Authorization(s, i), i)
              \/ Replaces(s, Authorization(s, i), i, Ends)
<1>1. CASE AtWordStart(s, i) /\ MatchKeyword(s, i, "auth")
  <2>1. PICK j : j = ConsumeToLineEnd(s, SkipSeparators(s, i + 1))
    OBVIOUS
  <2>2. j \in i + 1 .. Len(s) + 1 /\ (j = Len(s) + 1 \/ s[j].kind \in Ends)
    BY <2>1, HeaderEnds DEF Ends
  <2>3. PICK a \in Pieces, b \in Pieces, c \in Pieces, d \in Pieces :
          /\ a = Token("auth") /\ b = Token("colon") /\ c = Token("space") /\ d = Marker
          /\ \A x \in {a, b, c, d} : x.at = 0
    BY NoneOfRecord
  <2>4. PICK x : x = <<a, b, c, d>>
    OBVIOUS
  <2>5. x \in Seq(Pieces)
    BY <2>4
  <2>6. /\ x = <<a, b, c, d>> /\ Len(x) = 4
        /\ x[1] = a /\ x[2] = b /\ x[3] = c /\ x[4] = d
    BY <2>4
  <2>7. Authorization(s, i) = [text |-> x, next |-> j]
    BY <1>1, <2>1, <2>3, <2>6 DEF Authorization
  <2>8. \A m \in 2 .. 4 : x[m].at = 0
    <3>1. \A m \in 2 .. 4 : m = 2 \/ m = 3 \/ m = 4
      OBVIOUS
    <3> QED
      BY <2>3, <2>6, <3>1
  <2>9. x[1].at = 0 /\ x[4] = Marker
    BY <2>3, <2>6
  <2>10. PICK k \in 1 .. 4 : k = 4
    OBVIOUS
  <2>11. PICK found : found = Authorization(s, i)
    OBVIOUS
  <2>12. /\ Len(x) = k /\ x[k] = Marker
         /\ x[1] = s[i] \/ x[1].at = 0
         /\ \A m \in 2 .. k : x[m].at = 0
         /\ j = Len(s) + 1 \/ s[j].kind \in Ends
         /\ found = [text |-> x, next |-> j] /\ j \in i + 1 .. Len(s) + 1
    BY <2>2, <2>6, <2>7, <2>8, <2>9, <2>10, <2>11
  <2>13. /\ found \in Finds /\ found.next \in i + 1 .. Len(s) + 1
         /\ Replaces(s, found, i, Ends)
    BY <2>12, <2>5, ReplacedFinds
  <2> QED
    BY <2>13, <2>11
<1>2. CASE /\ ~ (AtWordStart(s, i) /\ MatchKeyword(s, i, "auth"))
           /\ AtWordStart(s, i)
           /\ MatchKeyword(s, i, "bearer")
           /\ SkipSpaces(s, i + 1) > i + 1
  <2>1. PICK j : j = ConsumeValue(s, SkipSpaces(s, i + 1))
    OBVIOUS
  <2>2. j \in i + 1 .. Len(s) + 1 /\ (j = Len(s) + 1 \/ s[j].kind \in Ends)
    BY <2>1, ValueEnds DEF SkipSpaces
  <2>3. PICK a \in Pieces, b \in Pieces, c \in Pieces :
          /\ a = Token("bearer") /\ b = Token("space") /\ c = Marker
          /\ \A x \in {a, b, c} : x.at = 0
    BY NoneOfRecord
  <2>4. PICK x \in Seq(Pieces) : /\ x = <<a, b, c>> /\ Len(x) = 3
                                 /\ x[1] = a /\ x[2] = b /\ x[3] = c
    BY ThreeTyped
  <2>5. Authorization(s, i) = [text |-> x, next |-> j]
    BY <1>2, <2>1, <2>3, <2>4 DEF Authorization
  <2>6. \A m \in 2 .. 3 : x[m].at = 0
    <3>1. \A m \in 2 .. 3 : m = 2 \/ m = 3
      OBVIOUS
    <3> QED
      BY <2>3, <2>4, <3>1
  <2>7. x[1].at = 0 /\ x[3] = Marker
    BY <2>3, <2>4
  <2>8. PICK k \in 1 .. 4 : k = 3
    OBVIOUS
  <2>9. PICK found : found = Authorization(s, i)
    OBVIOUS
  <2>10. /\ Len(x) = k /\ x[k] = Marker
         /\ x[1] = s[i] \/ x[1].at = 0
         /\ \A m \in 2 .. k : x[m].at = 0
         /\ j = Len(s) + 1 \/ s[j].kind \in Ends
         /\ found = [text |-> x, next |-> j] /\ j \in i + 1 .. Len(s) + 1
    BY <2>2, <2>4, <2>5, <2>6, <2>7, <2>8, <2>9
  <2>11. /\ found \in Finds /\ found.next \in i + 1 .. Len(s) + 1
         /\ Replaces(s, found, i, Ends)
    BY <2>10, ReplacedFinds
  <2> QED
    BY <2>11, <2>9
<1>3. CASE /\ ~ (AtWordStart(s, i) /\ MatchKeyword(s, i, "auth"))
           /\ ~ (/\ AtWordStart(s, i)
                 /\ MatchKeyword(s, i, "bearer")
                 /\ SkipSpaces(s, i + 1) > i + 1)
  <2>1. Authorization(s, i) = Copied(s, i)
    BY <1>3 DEF Authorization
  <2> QED
    BY <2>1, CopiedFinds
<1> QED
  BY <1>1, <1>2, <1>3

\* What redact_key_values finds at a place.
LEMMA KeyValueFinds ==
  ASSUME NEW s \in Seq(Pieces), NEW i \in 1 .. Len(s)
  PROVE  /\ KeyValue(s, i) \in Finds /\ KeyValue(s, i).next \in i + 1 .. Len(s) + 1
         /\ Copies(s, KeyValue(s, i), i)
              \/ Replaces(s, KeyValue(s, i), i, Ends)
<1>1. CASE /\ AtWordStart(s, i)
           /\ MatchKeyword(s, i, "key")
           /\ HadSeparator(s, i + 1, SkipSeparators(s, i + 1))
  <2>1. PICK j : j = ConsumeValue(s, SkipSeparators(s, i + 1))
    OBVIOUS
  <2>2. j \in i + 1 .. Len(s) + 1 /\ (j = Len(s) + 1 \/ s[j].kind \in Ends)
    BY <2>1, ValueEnds DEF SkipSeparators
  <2>3. PICK a \in Pieces, b \in Pieces, c \in Pieces, d \in Pieces :
          /\ a = s[i] /\ b = Token("colon") /\ c = Token("space") /\ d = Marker
          /\ \A x \in {b, c, d} : x.at = 0
    <3>1. s[i] \in Pieces
      BY LenProperties, ElementOfSeq
    <3> QED
      BY <3>1, NoneOfRecord
  <2>4. PICK x : x = <<a, b, c, d>>
    OBVIOUS
  <2>5. x \in Seq(Pieces)
    BY <2>4
  <2>6. /\ x = <<a, b, c, d>> /\ Len(x) = 4
        /\ x[1] = a /\ x[2] = b /\ x[3] = c /\ x[4] = d
    BY <2>4
  <2>7. KeyValue(s, i) = [text |-> x, next |-> j]
    BY <1>1, <2>1, <2>3, <2>6 DEF KeyValue
  <2>8. \A m \in 2 .. 4 : x[m].at = 0
    <3>1. \A m \in 2 .. 4 : m = 2 \/ m = 3 \/ m = 4
      OBVIOUS
    <3> QED
      BY <2>3, <2>6, <3>1
  <2>9. x[1] = s[i] /\ x[4] = Marker
    BY <2>3, <2>6
  <2>10. PICK k \in 1 .. 4 : k = 4
    OBVIOUS
  <2>11. PICK found : found = KeyValue(s, i)
    OBVIOUS
  <2>12. /\ Len(x) = k /\ x[k] = Marker
         /\ x[1] = s[i] \/ x[1].at = 0
         /\ \A m \in 2 .. k : x[m].at = 0
         /\ j = Len(s) + 1 \/ s[j].kind \in Ends
         /\ found = [text |-> x, next |-> j] /\ j \in i + 1 .. Len(s) + 1
    BY <2>2, <2>6, <2>7, <2>8, <2>9, <2>10, <2>11
  <2>13. /\ found \in Finds /\ found.next \in i + 1 .. Len(s) + 1
         /\ Replaces(s, found, i, Ends)
    BY <2>12, <2>5, ReplacedFinds
  <2> QED
    BY <2>13, <2>11
<1>2. CASE ~ (/\ AtWordStart(s, i)
              /\ MatchKeyword(s, i, "key")
              /\ HadSeparator(s, i + 1, SkipSeparators(s, i + 1)))
  <2>1. KeyValue(s, i) = Copied(s, i)
    BY <1>2 DEF KeyValue
  <2> QED
    BY <2>1, CopiedFinds
<1> QED
  BY <1>1, <1>2

\* A path is left as it is, or its user's segment is taken out.
LEMMA UserFinds ==
  ASSUME NEW s \in Seq(Pieces), NEW i \in 1 .. Len(s)
  PROVE  /\ UserSegment(s, i) \in Finds
         /\ UserSegment(s, i).next \in i + 1 .. Len(s) + 1
         /\ s[i].kind = "home"
              => UserSegment(s, i).next
                   = FirstOf(s, i + 1, {"home", "space", "eol", "quote"})
         /\ s[i].kind # "home" => UserSegment(s, i) = Copied(s, i)
<1>1. CASE s[i].kind = "home"
  <2>1. Len(s) \in Nat /\ i + 1 \in 1 .. Len(s) + 1
    BY LenProperties
  <2>2. PICK j : j = FirstOf(s, i + 1, {"home", "space", "eol", "quote"})
    OBVIOUS
  <2>3. j \in i + 1 .. Len(s) + 1 /\ j \in Nat
    <3>1. j \in i + 1 .. Len(s) + 1
      BY <2>1, <2>2, FirstPlace
    <3> QED
      BY <2>1, <3>1
  <2>4. PICK a \in Pieces, b \in Pieces : a = s[i] /\ b = Marker
    <3>1. s[i] \in Pieces
      BY LenProperties, ElementOfSeq
    <3> QED
      BY <3>1, MarkerTyped
  <2>5. PICK x \in Seq(Pieces) : x = IF j > i + 1 THEN <<a, b>> ELSE <<a>>
    BY OneTyped, TwoTyped
  <2>6. UserSegment(s, i) = [text |-> x, next |-> j]
    BY <1>1, <2>2, <2>4, <2>5 DEF UserSegment
  <2>7. [text |-> x, next |-> j] \in Finds
    BY <2>3 DEF Finds
  <2> QED
    BY <1>1, <2>2, <2>3, <2>6, <2>7
<1>2. CASE s[i].kind # "home"
  <2>1. UserSegment(s, i) = Copied(s, i)
    BY <1>2 DEF UserSegment
  <2> QED
    BY <1>2, <2>1, CopiedFinds
<1> QED
  BY <1>1, <1>2

\* The record: its tokens know where they stand.
RecordInv ==
  /\ record \in Seq(Pieces)
  /\ \A i \in 1 .. Len(record) : record[i].at = i /\ record[i].kind # "marker"

\* A part of the record stands in t, from p on.
Stands(t, p, k, w) ==
  \A i \in k .. w : p + (i - k) \in 1 .. Len(t) /\ t[p + (i - k)] = record[i]

\* The tokens of a text are typed.
LEMMA PieceOf ==
  ASSUME NEW t \in Seq(Pieces), NEW q \in 1 .. Len(t)
  PROVE  t[q] \in Pieces /\ t[q].at \in Nat /\ t[q].kind \in AllKinds /\ q \in Nat
<1>1. t[q] \in Pieces /\ q \in Nat
  BY LenProperties, ElementOfSeq
<1> QED
  BY <1>1 DEF Pieces

\* What stands before a token of the record that ends no value.
LEMMA Preceding ==
  ASSUME NEW t \in Seq(Pieces), NEW ends, Faithful(t, record, ends),
         NEW q \in 1 .. Len(t), t[q].at # 0,
         q = 1 \/ ~ (t[q - 1] = Marker /\ t[q].kind \in ends)
  PROVE  /\ t[q].at \in 1 .. Len(record) /\ t[q] = record[t[q].at]
         /\ q = 1 => t[q].at = 1
         /\ q # 1 => /\ q - 1 \in 1 .. Len(t) /\ t[q - 1].at = t[q].at - 1
                     /\ t[q - 1].at # 0
<1>1. t[q].at \in 1 .. Len(record) /\ t[q] = record[t[q].at]
  BY DEF Faithful
<1>2. q \in Nat /\ t[q].at \in Nat /\ Len(t) \in Nat
  BY PieceOf, LenProperties
<1>3. ASSUME q = 1 PROVE t[q].at = 1
  <2>1. Len(t) # 0
    BY <1>2, <1>3
  <2>2. t # <<>>
    BY <2>1, EmptySeq
  <2>3. t[1].at \in {0, 1}
    BY <2>2 DEF Faithful
  <2> QED
    BY <1>3, <2>3
<1>4. ASSUME q # 1
      PROVE  q - 1 \in 1 .. Len(t) /\ t[q - 1].at = t[q].at - 1 /\ t[q - 1].at # 0
  <2>1. PICK x \in 1 .. Len(t) - 1 : x = q - 1 /\ x + 1 = q /\ x \in 1 .. Len(t)
    BY <1>2, <1>4
  <2>2. Follows(t[x], t[x + 1], ends)
    BY <2>1 DEF Faithful
  <2>3. t[x].at # 0 /\ t[q].at = t[x].at + 1
    BY <1>4, <2>1, <2>2 DEF Follows
  <2>4. t[x].at \in Nat
    BY <2>1, PieceOf
  <2> QED
    BY <2>1, <2>3, <2>4
<1> QED
  BY <1>1, <1>3, <1>4

\* Where no value was taken out, the record stands.
LEMMA Unbroken ==
  ASSUME RecordInv, NEW t \in Seq(Pieces), NEW ends, Faithful(t, record, ends),
         NEW q \in 1 .. Len(t), NEW e \in 1 .. q, t[q].at # 0,
         \A m \in e + 1 .. q : ~ (t[m - 1] = Marker /\ t[m].kind \in ends)
  PROVE  /\ t[e].at \in 1 .. Len(record) /\ t[e].at + (q - e) = t[q].at
         /\ t[q].at \in 1 .. Len(record)
         /\ Stands(t, e, t[e].at, t[q].at)
<1>1. PICK a \in Nat, b \in Nat : a = e /\ b = q /\ a <= b /\ 1 <= a /\ b <= Len(t)
  <2>1. q \in Nat /\ Len(t) \in Nat
    BY LenProperties
  <2> QED
    BY <2>1
<1>2. Len(t) \in Nat /\ Len(record) \in Nat
  BY LenProperties DEF RecordInv
<1>3. PICK w \in Nat : w = t[q].at /\ w # 0 /\ w \in 1 .. Len(record)
  BY <1>2 DEF Faithful
<1> DEFINE Good(d) == t[b - d].at = w - d /\ w - d >= 1
           P == {d \in 0 .. b - a : Good(d)}
<1>4. 0 \in P
  BY <1>1, <1>3
<1>5. ASSUME NEW d \in 0 .. b - a, d \in P, d < b - a PROVE d + 1 \in P
  <2>1. PICK x \in 1 .. Len(t) : x = b - d /\ x \in e + 1 .. q /\ x # 1 /\ x - 1 = b - (d + 1)
    BY <1>1, <1>2, <1>5
  <2>2. t[x].at = w - d /\ w - d >= 1 /\ w - d # 0
    BY <1>3, <1>5, <2>1
  <2>3. t[x - 1].at = t[x].at - 1 /\ t[x - 1].at # 0
    <3>1. ~ (t[x - 1] = Marker /\ t[x].kind \in ends) /\ t[x].at # 0
      BY <2>1, <2>2
    <3> QED
      BY <2>1, <3>1, Preceding
  <2>4. t[x - 1].at = w - (d + 1) /\ w - (d + 1) >= 1
    <3>1. PICK y : y = t[x - 1].at
      OBVIOUS
    <3>2. y = (w - d) - 1 /\ y # 0
      BY <2>2, <2>3, <3>1
    <3>3. d \in Nat
      OBVIOUS
    <3>4. (w - d) - 1 = w - (d + 1) /\ (w - d >= 1 /\ w - d - 1 # 0 => w - (d + 1) >= 1)
      BY <3>3
    <3>5. w - (d + 1) >= 1
      BY <2>2, <3>2, <3>4
    <3> QED
      BY <3>1, <3>2, <3>4, <3>5
  <2>5. d + 1 \in 0 .. b - a
    BY <1>1, <1>5
  <2> QED
    BY <2>1, <2>4, <2>5
<1> HIDE DEF P
<1>6. \A d \in 0 .. b - a : d \in P
  <2>1. b - a \in Nat /\ 0 \in Nat
    BY <1>1
  <2> QED
    BY <1>4, <1>5, <2>1, Upward
<1>7. \A d \in 0 .. b - a : Good(d)
  BY <1>6 DEF P
<1>8. PICK k \in Nat : k = t[e].at /\ k + (b - a) = w /\ k >= 1
  <2>1. b - a \in 0 .. b - a /\ b - (b - a) = a
    BY <1>1
  <2>2. t[a].at = w - (b - a) /\ w - (b - a) >= 1
    BY <1>7, <2>1
  <2>3. w - (b - a) \in Nat /\ w - (b - a) + (b - a) = w
    BY <1>1, <1>3, <2>2
  <2> QED
    BY <1>1, <2>2, <2>3
<1>9. ASSUME NEW i \in k .. w
      PROVE  e + (i - k) \in 1 .. Len(t) /\ t[e + (i - k)] = record[i]
  <2>1. PICK d \in 0 .. b - a : d = w - i /\ b - d = e + (i - k) /\ w - d = i
    <3>1. i \in Nat /\ k <= i /\ i <= w
      BY <1>3, <1>8
    <3>2. w - i \in 0 .. b - a /\ b - (w - i) = a + (i - k) /\ w - (w - i) = i
      <4>1. b = w - k + a /\ k + (b - a) = w
        BY <1>8
      <4> QED
        BY <3>1, <4>1
    <3> QED
      BY <1>1, <3>2
  <2>2. PICK x \in 1 .. Len(t) : x = e + (i - k)
    <3>1. b - d \in 1 .. Len(t)
      BY <1>1, <1>3
    <3> QED
      BY <2>1, <3>1
  <2>3. t[x].at = i /\ i # 0
    <3>1. t[b - d].at = w - d
      BY <1>7
    <3>2. i # 0
      BY <1>3, <1>8
    <3> QED
      BY <2>1, <2>2, <3>1, <3>2
  <2>4. t[x] = record[t[x].at]
    BY <2>3 DEF Faithful
  <2> QED
    BY <2>2, <2>3, <2>4
<1>10. Stands(t, e, k, w)
  BY <1>9 DEF Stands
<1> QED
  BY <1>1, <1>2, <1>3, <1>8, <1>10

\* A part of the record in which nothing ends a value stands wherever its last
\* token does.
LEMMA StandsBehind ==
  ASSUME RecordInv, NEW t \in Seq(Pieces), NEW ends, Faithful(t, record, ends),
         NEW q \in 1 .. Len(t), NEW w \in 1 .. Len(record), t[q].at = w,
         NEW k \in 1 .. w, \A i \in k + 1 .. w : Kind(i) \notin ends
  PROVE  q - (w - k) \in 1 .. q /\ Stands(t, q - (w - k), k, w)
<1>1. Len(t) \in Nat /\ Len(record) \in Nat /\ q \in Nat /\ w \in Nat /\ k \in Nat
  BY LenProperties DEF RecordInv
<1> DEFINE Good(d) == q - d >= 1 /\ t[q - d].at = w - d
           P == {d \in 0 .. w - k : Good(d)}
<1>2. 0 \in P
  BY <1>1
<1>3. ASSUME NEW d \in 0 .. w - k, d \in P, d < w - k PROVE d + 1 \in P
  <2>1. PICK x \in 1 .. Len(t) : x = q - d /\ x - 1 = q - (d + 1) /\ x >= 1
    BY <1>1, <1>3
  <2>2. PICK i \in k + 1 .. w : i = w - d /\ i - 1 = w - (d + 1) /\ i # 0 /\ i # 1
                                  /\ i \in 1 .. Len(record)
    BY <1>1, <1>3
  <2>3. t[x].at = i
    BY <1>3, <2>1, <2>2
  <2>4. t[x] = record[i]
    BY <2>2, <2>3 DEF Faithful
  <2>5. t[x].kind \notin ends
    BY <2>2, <2>4 DEF Kind
  <2>6. t[x].at # 0 /\ ~ (t[x - 1] = Marker /\ t[x].kind \in ends)
    BY <2>2, <2>3, <2>5
  <2>7. /\ x = 1 => t[x].at = 1
        /\ x # 1 => x - 1 \in 1 .. Len(t) /\ t[x - 1].at = t[x].at - 1 /\ t[x - 1].at # 0
    BY <2>1, <2>6, Preceding
  <2>8. x - 1 \in 1 .. Len(t) /\ t[x - 1].at = i - 1
    BY <2>2, <2>3, <2>7
  <2>9. d + 1 \in 0 .. w - k /\ q - (d + 1) >= 1
    BY <1>1, <1>3, <2>1, <2>8
  <2> QED
    BY <2>1, <2>2, <2>8, <2>9
<1> HIDE DEF P
<1>4. \A d \in 0 .. w - k : Good(d)
  <2>1. w - k \in Nat /\ 0 \in Nat
    BY <1>1
  <2>2. \A d \in 0 .. w - k : d \in P
    BY <1>2, <1>3, <2>1, Upward
  <2> QED
    BY <2>2 DEF P
<1>5. q - (w - k) \in 1 .. q
  <2>1. w - k \in 0 .. w - k
    BY <1>1
  <2>2. q - (w - k) >= 1
    BY <1>4, <2>1
  <2> QED
    BY <1>1, <2>2
<1>6. ASSUME NEW i \in k .. w
      PROVE  q - (w - k) + (i - k) \in 1 .. Len(t) /\ t[q - (w - k) + (i - k)] = record[i]
  <2>1. PICK d \in 0 .. w - k : d = w - i /\ q - d = q - (w - k) + (i - k) /\ w - d = i
    BY <1>1
  <2>2. q - d >= 1 /\ t[q - d].at = i
    BY <1>4, <2>1
  <2>3. PICK x \in 1 .. Len(t) : x = q - d
    BY <1>1, <2>1, <2>2
  <2>4. t[x].at = i /\ i # 0
    BY <1>1, <2>2, <2>3
  <2>5. t[x] = record[t[x].at]
    BY <2>4 DEF Faithful
  <2> QED
    BY <2>1, <2>3, <2>4, <2>5
<1> QED
  BY <1>5, <1>6 DEF Stands

-----------------------------------------------------------------------------
\* A name is a whole word in a text if it is one in the record.
LEMMA SameWordStart ==
  ASSUME RecordInv, NEW t \in Seq(Pieces), NEW ends, Faithful(t, record, ends),
         NEW p \in 1 .. Len(t), NEW k \in 1 .. Len(record), t[p] = record[k],
         t[p].kind \notin ends
  PROVE  AtWordStart(t, p) <=> (k = 1 \/ Kind(k - 1) \notin Names \cup {"pem", "cert", "end"})
<1>1. k \in Nat /\ k # 0 /\ t[p].at = k /\ p \in Nat
  BY LenProperties DEF RecordInv
<1>2. /\ p = 1 => t[p].at = 1
      /\ p # 1 => p - 1 \in 1 .. Len(t) /\ t[p - 1].at = t[p].at - 1 /\ t[p - 1].at # 0
  BY <1>1, Preceding
<1>3. CASE p = 1
  BY <1>1, <1>2, <1>3 DEF AtWordStart
<1>4. CASE p # 1
  <2>1. PICK x \in 1 .. Len(t) : x = p - 1 /\ t[x].at = k - 1 /\ t[x].at # 0
    BY <1>1, <1>2, <1>4
  <2>2. t[x] = record[k - 1]
    BY <2>1 DEF Faithful
  <2>3. k # 1
    BY <2>1
  <2> QED
    BY <1>4, <2>1, <2>2, <2>3 DEF AtWordStart, Kind
<1> QED
  BY <1>3, <1>4

\* The parts of what stands.
LEMMA StandsAt ==
  ASSUME RecordInv, NEW t \in Seq(Pieces), NEW p \in 1 .. Len(t), NEW k \in 1 .. Len(record),
         NEW w \in k .. Len(record), Stands(t, p, k, w)
  PROVE  /\ p \in Nat /\ k \in Nat /\ w \in Nat /\ Len(t) \in Nat /\ Len(record) \in Nat
         /\ p + (w - k) \in p .. Len(t)
         /\ \A m \in p .. p + (w - k) :
              /\ k + (m - p) \in k .. w /\ m \in 1 .. Len(t)
              /\ t[m] = record[k + (m - p)] /\ t[m].kind = Kind(k + (m - p))
         /\ \A i \in k .. w :
              /\ p + (i - k) \in p .. p + (w - k)
              /\ t[p + (i - k)] = record[i] /\ t[p + (i - k)].kind = Kind(i)
<1>1. p \in Nat /\ k \in Nat /\ w \in Nat /\ Len(t) \in Nat /\ Len(record) \in Nat
  BY LenProperties DEF RecordInv
<1>2. ASSUME NEW i \in k .. w
      PROVE  /\ p + (i - k) \in p .. p + (w - k) /\ p + (i - k) \in 1 .. Len(t)
             /\ t[p + (i - k)] = record[i] /\ t[p + (i - k)].kind = Kind(i)
  <2>1. p + (i - k) \in p .. p + (w - k)
    BY <1>1
  <2>2. p + (i - k) \in 1 .. Len(t) /\ t[p + (i - k)] = record[i]
    BY DEF Stands
  <2> QED
    BY <2>1, <2>2 DEF Kind
<1>3. ASSUME NEW m \in p .. p + (w - k)
      PROVE  /\ k + (m - p) \in k .. w /\ m \in 1 .. Len(t)
             /\ t[m] = record[k + (m - p)] /\ t[m].kind = Kind(k + (m - p))
  <2>1. PICK i \in k .. w : i = k + (m - p) /\ p + (i - k) = m
    BY <1>1
  <2> QED
    BY <1>2, <2>1
<1>4. p + (w - k) \in p .. Len(t)
  <2>1. w \in k .. w
    BY <1>1
  <2>2. p + (w - k) \in 1 .. Len(t) /\ p + (w - k) \in p .. p + (w - k)
    BY <1>2, <2>1
  <2> QED
    BY <1>1, <2>2
<1> QED
  BY <1>1, <1>2, <1>3, <1>4

\* A keyword in a text where the record stands is one in the record.
LEMMA SameKeyword ==
  ASSUME RecordInv, NEW t \in Seq(Pieces), NEW p \in 1 .. Len(t), NEW k \in 1 .. Len(record),
         NEW w \in k + 1 .. Len(record), Stands(t, p, k, w), NEW kind
  PROVE  MatchKeyword(t, p, kind)
           <=> Kind(k) = kind /\ (k = Len(record) \/ Kind(k + 1) \notin Names)
<1>1. w \in k .. Len(record) /\ k \in k .. w /\ k + 1 \in k .. w /\ k # Len(record)
  BY LenProperties DEF RecordInv
<1>2. /\ p \in Nat /\ k \in Nat /\ Len(t) \in Nat
      /\ \A i \in k .. w : /\ p + (i - k) \in p .. p + (w - k)
                           /\ t[p + (i - k)].kind = Kind(i)
      /\ p + (w - k) \in p .. Len(t)
  BY <1>1, StandsAt
<1>3. p + (k - k) = p /\ p + (k + 1 - k) = p + 1
  BY <1>2
<1>4. t[p].kind = Kind(k) /\ t[p + 1].kind = Kind(k + 1)
  BY <1>1, <1>2, <1>3
<1>5. p # Len(t)
  <2>1. p + 1 \in p .. p + (w - k)
    BY <1>1, <1>2, <1>3
  <2> QED
    BY <1>2, <2>1
<1> QED
  BY <1>1, <1>4, <1>5 DEF MatchKeyword

\* What is skipped ends where something else stands.
LEMMA SkipsTo ==
  ASSUME NEW s \in Seq(Pieces), NEW i \in 1 .. Len(s), NEW kinds,
         NEW b \in i .. Len(s), s[b].kind \notin kinds,
         NEW a \in i .. b, \A m \in i .. a - 1 : s[m].kind \in kinds
  PROVE  FirstOther(s, i, kinds) \in a .. b
<1>1. Len(s) \in Nat /\ i \in 1 .. Len(s) + 1
  BY LenProperties
<1>2. PICK v : v = FirstOther(s, i, kinds)
  OBVIOUS
<1>3. /\ v \in i .. Len(s) + 1
      /\ v = Len(s) + 1 \/ s[v].kind \notin kinds
      /\ \A m \in i .. v - 1 : s[m].kind \in kinds
  BY <1>1, <1>2, FirstNot
<1>4. ASSUME ~ (v <= b) PROVE FALSE
  <2>1. b \in i .. v - 1
    BY <1>1, <1>3, <1>4
  <2> QED
    BY <1>3, <2>1
<1>5. ASSUME ~ (a <= v) PROVE FALSE
  <2>1. v \in i .. a - 1 /\ v # Len(s) + 1
    BY <1>1, <1>3, <1>5
  <2> QED
    BY <1>3, <2>1
<1> QED
  BY <1>1, <1>2, <1>3, <1>4, <1>5

\* A name and what stands behind it, in a text: what is skipped, and a value.
Shows(s, q, e, v, kind, seps, stops) ==
  /\ AtWordStart(s, e) /\ MatchKeyword(s, e, kind)
  /\ \A m \in e + 1 .. v - 1 : s[m].kind \in seps
  /\ \A m \in v .. q : s[m].kind \notin stops

\* The same in the record, where the value comes d places behind the name.
Shown(w, d, kind, seps, stops) ==
  \E k \in 1 .. w - 1, j \in 1 .. w :
    /\ w \in 1 .. Len(record)
    /\ Kind(k) = kind /\ WholeWord(k)
    /\ j \in k + 1 .. w /\ j - k = d
    /\ AllIn(k + 1, j - 1, seps) /\ NoneIn(j, w, stops)
ShownColon(w, d, kind, seps, stops) ==
  \E k \in 1 .. w - 1, j \in 1 .. w :
    /\ w \in 1 .. Len(record)
    /\ Kind(k) = kind /\ WholeWord(k)
    /\ j \in k + 1 .. w /\ j - k = d
    /\ AllIn(k + 1, j - 1, seps) /\ NoneIn(j, w, stops)
    /\ ~ NoneIn(k + 1, j - 1, {"colon"})

\* A place that a name swallows belongs, in the record, to what the name announces.
LEMMA Announces ==
  ASSUME RecordInv, NEW s \in Seq(Pieces), NEW ends, Faithful(s, record, ends),
         NEW q \in 1 .. Len(s), NEW e \in 1 .. q - 1, NEW v \in e + 1 .. q, s[q].at # 0,
         NEW seps, NEW stops, NEW kind, kind # "marker", kind \notin ends,
         "marker" \notin seps, ends \subseteq stops,
         Shows(s, q, e, v, kind, seps, stops)
  PROVE  /\ Shown(s[q].at, v - e, kind, seps, stops)
         /\ HadSeparator(s, e + 1, v) => ShownColon(s[q].at, v - e, kind, seps, stops)
<1>1. /\ AtWordStart(s, e) /\ MatchKeyword(s, e, kind)
      /\ \A m \in e + 1 .. v - 1 : s[m].kind \in seps
      /\ \A m \in v .. q : s[m].kind \notin stops
  BY DEF Shows
<1>2. /\ Len(s) \in Nat /\ Len(record) \in Nat /\ q \in Nat /\ e \in Nat /\ v \in Nat
      /\ e \in 1 .. q /\ e \in 1 .. Len(s) /\ e < v /\ v <= q
  BY LenProperties DEF RecordInv
<1>3. ASSUME NEW m \in e + 1 .. q PROVE ~ (s[m - 1] = Marker /\ s[m].kind \in ends)
  <2>1. CASE m = e + 1
    <3>1. s[m - 1].kind = kind
      <4>1. m - 1 = e
        BY <1>2, <2>1
      <4> QED
        BY <1>1, <4>1 DEF MatchKeyword
    <3> QED
      BY <3>1, MarkerTyped
  <2>2. CASE m \in e + 2 .. v
    <3>1. m - 1 \in e + 1 .. v - 1
      BY <1>2, <2>2
    <3>2. s[m - 1].kind \in seps
      BY <1>1, <3>1
    <3> QED
      BY <3>2, MarkerTyped
  <2>3. CASE m # e + 1 /\ m \notin e + 2 .. v
    <3>1. m \in v .. q
      BY <1>2, <2>3
    <3> QED
      BY <1>1, <3>1
  <2> QED
    BY <2>1, <2>2, <2>3
<1>4. PICK w : w = s[q].at
  OBVIOUS
<1>5. PICK k : k = s[e].at
  OBVIOUS
<1>6. /\ k \in 1 .. Len(record) /\ k + (q - e) = w /\ w \in 1 .. Len(record)
      /\ Stands(s, e, k, w)
  BY <1>2, <1>3, <1>4, <1>5, Unbroken
<1>7. /\ w \in k .. Len(record) /\ w \in k + 1 .. Len(record) /\ w - k = q - e
      /\ k \in Nat /\ w \in Nat
  <2>1. e < q
    BY <1>2
  <2> QED
    BY <1>2, <1>6, <2>1, SameStretch
<1>8. /\ \A m \in e .. e + (w - k) :
           /\ k + (m - e) \in k .. w
           /\ s[m] = record[k + (m - e)] /\ s[m].kind = Kind(k + (m - e))
      /\ \A i \in k .. w :
           /\ e + (i - k) \in e .. e + (w - k)
           /\ s[e + (i - k)] = record[i] /\ s[e + (i - k)].kind = Kind(i)
  BY <1>2, <1>6, <1>7, StandsAt
<1>9. s[e] = record[k] /\ Kind(k) = kind
  <2>1. k \in k .. w /\ e + (k - k) = e
    BY <1>2, <1>7
  <2>2. s[e] = record[k] /\ s[e].kind = Kind(k)
    BY <1>8, <2>1
  <2> QED
    BY <1>1, <2>2 DEF MatchKeyword
<1>10. WholeWord(k)
  <2>1. k = Len(record) \/ Kind(k + 1) \notin Names
    BY <1>1, <1>2, <1>6, <1>7, SameKeyword
  <2>2. s[e].kind \notin ends
    BY <1>1 DEF MatchKeyword
  <2>3. k = 1 \/ Kind(k - 1) \notin Names \cup {"pem", "cert", "end"}
    BY <1>1, <1>2, <1>6, <1>9, <2>2, SameWordStart
  <2> QED
    BY <2>1, <2>3 DEF WholeWord
<1>11. PICK j : j = k + (v - e)
  OBVIOUS
<1>12. /\ j \in k + 1 .. w /\ j - k = v - e /\ j \in 1 .. w /\ k \in 1 .. w - 1
       /\ j \in Nat /\ e + (j - k) = v
  BY <1>2, <1>6, <1>7, <1>11
<1>13. AllIn(k + 1, j - 1, seps)
  <2>1. ASSUME NEW i \in k + 1 .. j - 1 PROVE Kind(i) \in seps
    <3>1. i \in k .. w /\ e + (i - k) \in e + 1 .. v - 1
      BY <1>2, <1>7, <1>12
    <3>2. s[e + (i - k)].kind = Kind(i)
      BY <1>8, <3>1
    <3> QED
      BY <1>1, <3>1, <3>2
  <2> QED
    BY <2>1 DEF AllIn
<1>14. NoneIn(j, w, stops)
  <2>1. ASSUME NEW i \in j .. w PROVE Kind(i) \notin stops
    <3>1. i \in k .. w /\ e + (i - k) \in v .. q
      BY <1>2, <1>7, <1>12
    <3>2. s[e + (i - k)].kind = Kind(i)
      BY <1>8, <3>1
    <3> QED
      BY <1>1, <3>1, <3>2
  <2> QED
    BY <2>1 DEF NoneIn
<1>15. ASSUME NEW m \in e + 1 .. v - 1, s[m].kind = "colon"
       PROVE  ~ NoneIn(k + 1, j - 1, {"colon"})
  <2>1. m \in e .. e + (w - k) /\ k + (m - e) \in k + 1 .. j - 1
    BY <1>2, <1>7, <1>12
  <2>2. Kind(k + (m - e)) = "colon"
    BY <1>8, <1>15, <2>1
  <2> QED
    BY <2>1, <2>2 DEF NoneIn
<1>16. Shown(w, v - e, kind, seps, stops)
  BY <1>6, <1>9, <1>10, <1>12, <1>13, <1>14 DEF Shown
<1>17. HadSeparator(s, e + 1, v) => ShownColon(w, v - e, kind, seps, stops)
  BY <1>6, <1>9, <1>10, <1>12, <1>13, <1>14, <1>15 DEF ShownColon, HadSeparator
<1> QED
  BY <1>4, <1>16, <1>17

\* What a value is announced by.
LEMMA ValueShown ==
  ASSUME NEW k, NEW w, NEW j \in k + 1 .. w, k < w, WholeWord(k),
         \/ /\ Kind(k) = "key"
            /\ AllIn(k + 1, j - 1, {"space", "colon", "quote"})
            /\ ~ NoneIn(k + 1, j - 1, {"colon"})
            /\ NoneIn(j, w, Ends)
         \/ /\ Kind(k) = "bearer"
            /\ j > k + 1
            /\ AllIn(k + 1, j - 1, {"space"})
            /\ NoneIn(j, w, Ends)
         \/ /\ Kind(k) = "auth"
            /\ AllIn(k + 1, j - 1, {"space", "colon", "quote"})
            /\ NoneIn(j, w, {"eol", "quote", "comma"})
  PROVE  FirstPartOf(k, w)
BY DEF FirstPartOf, Ends

\* What redact_authorization swallows a name behind, announces it in the record.
LEMMA CoveredByHeader ==
  ASSUME RecordInv, NEW s \in Seq(Pieces), Faithful(s, record, {"eol"}),
         NEW q \in 1 .. Len(s), NEW e \in 1 .. q - 1, s[q].at # 0, s[q].kind \in Names,
         Authorization(s, e).next > q
  PROVE  \E k \in 1 .. s[q].at - 1 : FirstPartOf(k, s[q].at)
<1>1. /\ Len(s) \in Nat /\ q \in Nat /\ e \in Nat /\ e \in 1 .. Len(s) /\ e < q
      /\ e + 1 \in 1 .. Len(s) /\ q \in e + 1 .. Len(s) /\ e + 1 \in e + 1 .. q
  BY LenProperties
<1>2. PICK w : w = s[q].at /\ w \in Nat
  BY PieceOf
<1>3. Authorization(s, e) # Copied(s, e)
  <2>1. Copied(s, e).next = e + 1 /\ ~ (e + 1 > q)
    BY <1>1 DEF Copied
  <2> QED
    BY <2>1
<1>4. s[q].kind \notin {"space", "colon", "quote"} /\ s[q].kind \notin {"space"}
  BY DEF Names
<1>5. \A kinds : (\A m \in e + 1 .. e + 1 - 1 : s[m].kind \in kinds)
  BY <1>1
<1>6. CASE AtWordStart(s, e) /\ MatchKeyword(s, e, "auth")
  <2>1. PICK v : v = FirstOther(s, e + 1, {"space", "colon", "quote"})
    OBVIOUS
  <2>2. v \in e + 1 .. q
    BY <1>1, <1>4, <1>5, <2>1, SkipsTo
  <2>3. PICK c : c = FirstOf(s, v, {"eol", "quote", "comma"})
    OBVIOUS
  <2>4. Authorization(s, e).next = c
    BY <1>6, <2>1, <2>3 DEF Authorization, SkipSeparators, ConsumeToLineEnd
  <2>5. v \in 1 .. Len(s) + 1
    BY <1>1, <2>2
  <2>6. \A m \in v .. c - 1 : s[m].kind \notin {"eol", "quote", "comma"}
    BY <2>3, <2>5, FirstPlace
  <2>7. c \in v .. Len(s) + 1
    BY <2>3, <2>5, FirstPlace
  <2>8. \A m \in v .. q : s[m].kind \notin {"eol", "quote", "comma"}
    <3>1. \A m \in v .. q : m \in v .. c - 1
      BY <1>1, <2>2, <2>4, <2>7
    <3> QED
      BY <2>6, <3>1
  <2>9. \A m \in e + 1 .. v - 1 : s[m].kind \in {"space", "colon", "quote"}
    <3>1. e + 1 \in 1 .. Len(s) + 1
      BY <1>1
    <3> QED
      BY <2>1, <3>1, FirstNot
  <2>10. PICK ends, seps, stops, kind :
           /\ ends = {"eol"} /\ seps = {"space", "colon", "quote"}
           /\ stops = {"eol", "quote", "comma"}
           /\ kind = "auth"
    OBVIOUS
  <2>11. /\ Faithful(s, record, ends) /\ kind # "marker" /\ kind \notin ends
         /\ "marker" \notin seps /\ ends \subseteq stops
         /\ Shows(s, q, e, v, kind, seps, stops)
    BY <1>6, <2>2, <2>8, <2>9, <2>10 DEF Shows
  <2>12. Shown(s[q].at, v - e, kind, seps, stops)
    BY <2>2, <2>11, Announces
  <2>13. PICK k \in 1 .. w - 1, j \in 1 .. w :
            /\ Kind(k) = kind /\ WholeWord(k)
            /\ j \in k + 1 .. w /\ j - k = v - e
            /\ AllIn(k + 1, j - 1, seps) /\ NoneIn(j, w, stops)
    BY <1>2, <2>12 DEF Shown
  <2>14. k < w /\ j \in k + 1 .. w
    BY <1>2, <2>13
  <2>15. FirstPartOf(k, w)
    BY <2>10, <2>13, <2>14, ValueShown
  <2> QED
    BY <1>2, <2>15
<1>7. CASE /\ ~ (AtWordStart(s, e) /\ MatchKeyword(s, e, "auth"))
           /\ AtWordStart(s, e)
           /\ MatchKeyword(s, e, "bearer")
           /\ SkipSpaces(s, e + 1) > e + 1
  <2>1. PICK v : v = FirstOther(s, e + 1, {"space"})
    OBVIOUS
  <2>2. v \in e + 1 .. q /\ v > e + 1
    <3>1. v \in e + 1 .. q
      <4>1. PICK b, kinds : b = e + 1 /\ kinds = {"space"}
        OBVIOUS
      <4>2. /\ b \in 1 .. Len(s) /\ q \in b .. Len(s) /\ b \in b .. q
            /\ s[q].kind \notin kinds
        BY <1>1, <1>4, <4>1
      <4>3. \A m \in b .. b - 1 : s[m].kind \in kinds
        BY <1>5, <4>1
      <4>4. FirstOther(s, b, kinds) \in b .. q
        BY <4>2, <4>3, SkipsTo
      <4> QED
        BY <2>1, <4>1, <4>4
    <3> QED
      BY <1>7, <2>1, <3>1 DEF SkipSpaces
  <2>3. PICK c : c = FirstOf(s, v, Ends)
    OBVIOUS
  <2>4. Authorization(s, e).next = c
    BY <1>7, <2>1, <2>3 DEF Authorization, SkipSpaces, ConsumeValue, Ends
  <2>5. v \in 1 .. Len(s) + 1
    BY <1>1, <2>2
  <2>6. \A m \in v .. c - 1 : s[m].kind \notin Ends
    BY <2>3, <2>5, FirstPlace
  <2>7. c \in v .. Len(s) + 1
    BY <2>3, <2>5, FirstPlace
  <2>8. \A m \in v .. q : s[m].kind \notin Ends
    <3>1. \A m \in v .. q : m \in v .. c - 1
      BY <1>1, <2>2, <2>4, <2>7
    <3> QED
      BY <2>6, <3>1
  <2>9. \A m \in e + 1 .. v - 1 : s[m].kind \in {"space"}
    <3>1. e + 1 \in 1 .. Len(s) + 1
      BY <1>1
    <3> QED
      BY <2>1, <3>1, FirstNot
  <2>10. PICK ends, seps, stops, kind :
           /\ ends = {"eol"} /\ seps = {"space"} /\ stops = Ends
           /\ kind = "bearer"
    OBVIOUS
  <2>11. /\ Faithful(s, record, ends) /\ kind # "marker" /\ kind \notin ends
         /\ "marker" \notin seps /\ ends \subseteq stops
         /\ Shows(s, q, e, v, kind, seps, stops)
    BY <1>7, <2>2, <2>8, <2>9, <2>10 DEF Ends, Shows
  <2>12. Shown(s[q].at, v - e, kind, seps, stops)
    BY <2>2, <2>11, Announces
  <2>13. PICK k \in 1 .. w - 1, j \in 1 .. w :
            /\ Kind(k) = kind /\ WholeWord(k)
            /\ j \in k + 1 .. w /\ j - k = v - e
            /\ AllIn(k + 1, j - 1, seps) /\ NoneIn(j, w, stops)
    BY <1>2, <2>12 DEF Shown
  <2>14. k < w /\ j \in k + 1 .. w /\ j > k + 1
    <3>1. k \in Int /\ j \in Int /\ w \in Int /\ k < w
      BY <1>2, <2>13
    <3>2. v - e > 1
      BY <1>1, <2>2
    <3>3. j - k > 1
      BY <2>13, <3>2
    <3> QED
      BY <2>13, <3>1, <3>3
  <2>15. FirstPartOf(k, w)
    BY <2>10, <2>13, <2>14, ValueShown
  <2> QED
    BY <1>2, <2>15
<1> QED
  BY <1>3, <1>6, <1>7 DEF Authorization

\* What redact_key_values swallows a name behind, announces it in the record.
LEMMA CoveredByKey ==
  ASSUME RecordInv, NEW s \in Seq(Pieces), Faithful(s, record, Ends),
         NEW q \in 1 .. Len(s), NEW e \in 1 .. q - 1, s[q].at # 0, s[q].kind \in Names,
         KeyValue(s, e).next > q
  PROVE  \E k \in 1 .. s[q].at - 1 : FirstPartOf(k, s[q].at)
<1>1. /\ Len(s) \in Nat /\ q \in Nat /\ e \in Nat /\ e \in 1 .. Len(s) /\ e < q
      /\ e + 1 \in 1 .. Len(s) /\ q \in e + 1 .. Len(s) /\ e + 1 \in e + 1 .. q
  BY LenProperties
<1>2. PICK w : w = s[q].at /\ w \in Nat
  BY PieceOf
<1>3. KeyValue(s, e) # Copied(s, e)
  <2>1. Copied(s, e).next = e + 1 /\ ~ (e + 1 > q)
    BY <1>1 DEF Copied
  <2> QED
    BY <2>1
<1>4. s[q].kind \notin {"space", "colon", "quote"}
  BY DEF Names
<1>5. \A kinds : (\A m \in e + 1 .. e + 1 - 1 : s[m].kind \in kinds)
  BY <1>1
<1>6. PICK v : v = FirstOther(s, e + 1, {"space", "colon", "quote"})
  OBVIOUS
<1>7. /\ AtWordStart(s, e) /\ MatchKeyword(s, e, "key") /\ HadSeparator(s, e + 1, v)
  BY <1>3, <1>6 DEF KeyValue, SkipSeparators
<1>8. v \in e + 1 .. q
  BY <1>1, <1>4, <1>5, <1>6, SkipsTo
<1>9. PICK c : c = FirstOf(s, v, Ends)
  OBVIOUS
<1>10. KeyValue(s, e).next = c
  BY <1>6, <1>7, <1>9 DEF KeyValue, SkipSeparators, ConsumeValue, Ends
<1>11. v \in 1 .. Len(s) + 1
  BY <1>1, <1>8
<1>12. \A m \in v .. c - 1 : s[m].kind \notin Ends
  BY <1>9, <1>11, FirstPlace
<1>13. c \in v .. Len(s) + 1
  BY <1>9, <1>11, FirstPlace
<1>14. \A m \in v .. q : s[m].kind \notin Ends
  <2>1. \A m \in v .. q : m \in v .. c - 1
    BY <1>1, <1>8, <1>10, <1>13
  <2> QED
    BY <1>12, <2>1
<1>15. \A m \in e + 1 .. v - 1 : s[m].kind \in {"space", "colon", "quote"}
  <2>1. e + 1 \in 1 .. Len(s) + 1
    BY <1>1
  <2> QED
    BY <1>6, <2>1, FirstNot
<1>16. PICK seps, kind : seps = {"space", "colon", "quote"} /\ kind = "key"
  OBVIOUS
<1>17. /\ kind # "marker" /\ kind \notin Ends /\ "marker" \notin seps /\ Ends \subseteq Ends
       /\ Shows(s, q, e, v, kind, seps, Ends)
  BY <1>7, <1>8, <1>14, <1>15, <1>16 DEF Ends, Shows
<1>18. ShownColon(s[q].at, v - e, kind, seps, Ends)
  BY <1>7, <1>8, <1>17, Announces
<1>19. PICK k \in 1 .. w - 1, j \in 1 .. w :
         /\ Kind(k) = kind /\ WholeWord(k)
         /\ j \in k + 1 .. w
         /\ AllIn(k + 1, j - 1, seps) /\ NoneIn(j, w, Ends)
         /\ ~ NoneIn(k + 1, j - 1, {"colon"})
  BY <1>2, <1>18 DEF ShownColon
<1>20. k < w /\ j \in k + 1 .. w
  BY <1>2, <1>19
<1>21. FirstPartOf(k, w)
  BY <1>16, <1>19, <1>20, ValueShown
<1> QED
  BY <1>2, <1>21

\* Where a part of the record stands, a value is skipped to and taken to its end.
LEMMA Reaches ==
  ASSUME RecordInv, NEW s \in Seq(Pieces), NEW p \in 1 .. Len(s), NEW k \in 1 .. Len(record),
         NEW w \in k + 1 .. Len(record), Stands(s, p, k, w),
         NEW seps, NEW stops, NEW j \in k + 1 .. w,
         AllIn(k + 1, j - 1, seps), NoneIn(j, w, stops), Kind(w) \notin seps,
         NEW v, v = FirstOther(s, p + 1, seps)
  PROVE  /\ v \in p + (j - k) .. p + (w - k)
         /\ FirstOf(s, v, stops) \in p + (w - k) + 1 .. Len(s) + 1
         /\ ~ NoneIn(k + 1, j - 1, {"colon"}) => HadSeparator(s, p + 1, v)
<1>1. w \in k .. Len(record) /\ j \in k .. w /\ w \in k .. w
  BY LenProperties DEF RecordInv
<1>2. /\ p \in Nat /\ k \in Nat /\ w \in Nat /\ Len(s) \in Nat /\ Len(record) \in Nat
      /\ p + (w - k) \in p .. Len(s)
      /\ \A m \in p .. p + (w - k) :
           /\ k + (m - p) \in k .. w
           /\ s[m].kind = Kind(k + (m - p))
      /\ \A i \in k .. w :
           /\ p + (i - k) \in p .. p + (w - k)
           /\ s[p + (i - k)].kind = Kind(i)
  BY <1>1, StandsAt
<1>3. PICK x, z : x = p + (j - k) /\ z = p + (w - k)
  OBVIOUS
<1>4. /\ x \in p + 1 .. z /\ z \in p + 1 .. Len(s) /\ x \in Nat /\ z \in Nat
      /\ p + 1 \in 1 .. Len(s)
  BY <1>1, <1>2, <1>3
<1>5. s[z].kind \notin seps
  BY <1>1, <1>2, <1>3
<1>6. ASSUME NEW m \in p + 1 .. x - 1 PROVE s[m].kind \in seps
  <2>1. m \in p .. p + (w - k) /\ k + (m - p) \in k + 1 .. j - 1
    BY <1>1, <1>2, <1>3, <1>4
  <2> QED
    BY <1>2, <2>1 DEF AllIn
<1>7. v \in x .. z
  BY <1>4, <1>5, <1>6, SkipsTo
<1>8. ASSUME NEW m \in v .. z PROVE s[m].kind \notin stops
  <2>1. m \in p .. p + (w - k) /\ k + (m - p) \in j .. w
    BY <1>1, <1>2, <1>3, <1>4, <1>7
  <2> QED
    BY <1>2, <2>1 DEF NoneIn
<1>9. FirstOf(s, v, stops) \in z + 1 .. Len(s) + 1
  <2>1. v \in 1 .. Len(s) + 1 /\ z \in v .. Len(s)
    <3>1. v \in Int /\ x <= v /\ v <= z
      BY <1>4, <1>7
    <3>2. /\ x \in Int /\ z \in Int /\ 1 <= x /\ z <= Len(s) /\ Len(s) \in Int
      BY <1>2, <1>4
    <3> QED
      BY <3>1, <3>2
  <2> QED
    BY <1>8, <2>1, FirstBeyond
<1>10. ASSUME ~ NoneIn(k + 1, j - 1, {"colon"}) PROVE HadSeparator(s, p + 1, v)
  <2>1. PICK i \in k + 1 .. j - 1 : Kind(i) = "colon"
    BY <1>10 DEF NoneIn
  <2>2. i \in k .. w /\ p + (i - k) \in p + 1 .. v - 1
    <3>1. v \in Int /\ p + (j - k) <= v
      BY <1>3, <1>4, <1>7
    <3>2. i \in Int /\ j \in Int /\ k \in Int /\ p \in Int /\ k + 1 <= i /\ i < j /\ j <= w
      BY <1>1, <1>2
    <3>3. i - k >= 1 /\ p + (i - k) < p + (j - k)
      BY <3>2
    <3>4. i \in k .. w
      BY <3>2
    <3>5. p + (i - k) >= p + 1 /\ p + (i - k) < v
      BY <3>1, <3>2, <3>3
    <3> QED
      BY <3>1, <3>2, <3>4, <3>5
  <2>3. s[p + (i - k)].kind = "colon"
    BY <1>2, <2>1, <2>2
  <2> QED
    BY <2>2, <2>3 DEF HadSeparator
<1> QED
  BY <1>3, <1>7, <1>9, <1>10

\* A header, a bearer's token and a key swallow the value they announce.
LEMMA HeaderSwallows ==
  ASSUME RecordInv, NEW s \in Seq(Pieces), NEW ends, Faithful(s, record, ends),
         NEW p \in 1 .. Len(s), NEW k \in 1 .. Len(record),
         NEW w \in k + 1 .. Len(record), Stands(s, p, k, w),
         Kind(w) = "word", Kind(k) \in {"auth", "bearer"}, Kind(k) \notin ends, FirstPartOf(k, w)
  PROVE  Authorization(s, p).next \in p + (w - k) + 1 .. Len(s) + 1
<1>1. s[p] = record[k] /\ s[p].kind = Kind(k) /\ s[p].kind \notin ends
  <2>1. w \in k .. Len(record) /\ k \in k .. w
    BY LenProperties DEF RecordInv
  <2>2. \A i \in k .. w : s[p + (i - k)] = record[i] /\ s[p + (i - k)].kind = Kind(i)
    BY <2>1, StandsAt
  <2>3. p + (k - k) = p
    BY <2>1, LenProperties DEF RecordInv
  <2>4. s[p] = record[k] /\ s[p].kind = Kind(k)
    BY <2>1, <2>2, <2>3
  <2> QED
    BY <2>4
<1>2. AtWordStart(s, p)
  BY <1>1, SameWordStart DEF FirstPartOf, WholeWord
<1>3. MatchKeyword(s, p, Kind(k))
  BY SameKeyword DEF FirstPartOf, WholeWord
<1>4. PICK j \in k + 1 .. w :
        \/ /\ Kind(k) = "key"
           /\ AllIn(k + 1, j - 1, {"space", "colon", "quote"})
           /\ ~ NoneIn(k + 1, j - 1, {"colon"})
           /\ NoneIn(j, w, {"space", "eol", "semi", "quote", "comma"})
        \/ /\ Kind(k) = "bearer"
           /\ j > k + 1
           /\ AllIn(k + 1, j - 1, {"space"})
           /\ NoneIn(j, w, {"space", "eol", "semi", "quote", "comma"})
        \/ /\ Kind(k) = "auth"
           /\ AllIn(k + 1, j - 1, {"space", "colon", "quote"})
           /\ NoneIn(j, w, {"eol", "quote", "comma"})
  BY DEF FirstPartOf
<1>5. CASE Kind(k) = "auth"
  <2>1. PICK v : v = FirstOther(s, p + 1, {"space", "colon", "quote"})
    OBVIOUS
  <2>2. PICK seps, stops : seps = {"space", "colon", "quote"} /\ stops = {"eol", "quote", "comma"}
    OBVIOUS
  <2>3. AllIn(k + 1, j - 1, seps) /\ NoneIn(j, w, stops) /\ Kind(w) \notin seps
    BY <1>4, <1>5, <2>2
  <2>4. FirstOf(s, v, stops) \in p + (w - k) + 1 .. Len(s) + 1
    BY <2>1, <2>2, <2>3, Reaches
  <2>5. Authorization(s, p).next = FirstOf(s, v, stops)
    BY <1>2, <1>3, <1>5, <2>1, <2>2 DEF Authorization, SkipSeparators, ConsumeToLineEnd
  <2> QED
    BY <2>4, <2>5
<1>6. CASE Kind(k) = "bearer"
  <2>1. PICK v : v = FirstOther(s, p + 1, {"space"})
    OBVIOUS
  <2>2. PICK seps, stops : seps = {"space"} /\ stops = {"space", "eol", "semi", "quote", "comma"}
    OBVIOUS
  <2>3. AllIn(k + 1, j - 1, seps) /\ NoneIn(j, w, stops) /\ Kind(w) \notin seps /\ j > k + 1
    BY <1>4, <1>6, <2>2
  <2>4. FirstOf(s, v, stops) \in p + (w - k) + 1 .. Len(s) + 1
        /\ v \in p + (j - k) .. p + (w - k)
    BY <2>1, <2>2, <2>3, Reaches
  <2>5. v > p + 1
    <3>1. /\ Len(s) \in Nat /\ Len(record) \in Nat /\ p \in Int /\ k \in Int /\ w \in Int
          /\ j \in Int
      BY LenProperties DEF RecordInv
    <3>2. v \in Int /\ p + (j - k) <= v
      BY <2>4, <3>1
    <3>3. p + (j - k) > p + 1
      BY <2>3, <3>1
    <3> QED
      BY <3>1, <3>2, <3>3
  <2>6. ~ MatchKeyword(s, p, "auth")
    BY <1>1, <1>6 DEF MatchKeyword
  <2>7. Authorization(s, p).next = FirstOf(s, v, stops)
    BY <1>2, <1>3, <1>6, <2>1, <2>2, <2>5, <2>6 DEF Authorization, SkipSpaces, ConsumeValue
  <2> QED
    BY <2>4, <2>7
<1> QED
  BY <1>5, <1>6

\* A key that is visited swallows what it announces.
LEMMA KeySwallows ==
  ASSUME RecordInv, NEW s \in Seq(Pieces), NEW ends, Faithful(s, record, ends),
         NEW p \in 1 .. Len(s), NEW k \in 1 .. Len(record),
         NEW w \in k + 1 .. Len(record), Stands(s, p, k, w),
         Kind(w) = "word", Kind(k) = "key", Kind(k) \notin ends, FirstPartOf(k, w)
  PROVE  KeyValue(s, p).next \in p + (w - k) + 1 .. Len(s) + 1
<1>1. s[p] = record[k] /\ s[p].kind = Kind(k) /\ s[p].kind \notin ends
  <2>1. w \in k .. Len(record) /\ k \in k .. w
    BY LenProperties DEF RecordInv
  <2>2. \A i \in k .. w : s[p + (i - k)] = record[i] /\ s[p + (i - k)].kind = Kind(i)
    BY <2>1, StandsAt
  <2>3. p + (k - k) = p
    BY <2>1, LenProperties DEF RecordInv
  <2>4. s[p] = record[k] /\ s[p].kind = Kind(k)
    BY <2>1, <2>2, <2>3
  <2> QED
    BY <2>4
<1>2. AtWordStart(s, p)
  BY <1>1, SameWordStart DEF FirstPartOf, WholeWord
<1>3. MatchKeyword(s, p, "key")
  BY SameKeyword DEF FirstPartOf, WholeWord
<1>4. PICK j \in k + 1 .. w :
        /\ AllIn(k + 1, j - 1, {"space", "colon", "quote"})
        /\ ~ NoneIn(k + 1, j - 1, {"colon"})
        /\ NoneIn(j, w, {"space", "eol", "semi", "quote", "comma"})
  BY DEF FirstPartOf
<1>5. PICK v : v = FirstOther(s, p + 1, {"space", "colon", "quote"})
  OBVIOUS
<1>6. PICK seps, stops :
        seps = {"space", "colon", "quote"} /\ stops = {"space", "eol", "semi", "quote", "comma"}
  OBVIOUS
<1>7. AllIn(k + 1, j - 1, seps) /\ NoneIn(j, w, stops) /\ Kind(w) \notin seps
  BY <1>4, <1>6
<1>8. /\ FirstOf(s, v, stops) \in p + (w - k) + 1 .. Len(s) + 1
      /\ ~ NoneIn(k + 1, j - 1, {"colon"}) => HadSeparator(s, p + 1, v)
  BY <1>5, <1>6, <1>7, Reaches
<1>9. KeyValue(s, p).next = FirstOf(s, v, stops)
  BY <1>2, <1>3, <1>4, <1>5, <1>6, <1>8 DEF KeyValue, SkipSeparators, ConsumeValue
<1> QED
  BY <1>8, <1>9

\* A name in front of a word, with nothing between them that ends a value, leaves
\* the text as it is or swallows the word.
LEMMA HeaderCovers ==
  ASSUME NEW s \in Seq(Pieces), NEW z \in 1 .. Len(s), NEW m \in 1 .. z - 1,
         s[z].kind = "word", \A i \in m + 1 .. z : s[i].kind \notin Ends
  PROVE  \/ Authorization(s, m) = Copied(s, m)
         \/ Authorization(s, m).next \in z + 1 .. Len(s) + 1
<1>1. /\ Len(s) \in Nat /\ z \in Nat /\ m \in Nat /\ m + 1 \in 1 .. Len(s) /\ m + 1 \in m + 1 .. z
      /\ z \in m + 1 .. Len(s) /\ m + 1 \in m + 1 .. Len(s) /\ m + 1 \in m + 1 .. m + 1
  BY LenProperties
<1>2. \A kinds : (\A i \in m + 1 .. m + 1 - 1 : s[i].kind \in kinds)
  BY <1>1
<1>3. CASE AtWordStart(s, m) /\ MatchKeyword(s, m, "auth")
  <2>1. PICK v : v = FirstOther(s, m + 1, {"space", "colon", "quote"})
    OBVIOUS
  <2>2. v \in m + 1 .. z
    <3>1. PICK seps, b : seps = {"space", "colon", "quote"} /\ b = m + 1
      OBVIOUS
    <3>2. s[z].kind \notin seps
      BY <3>1
    <3>3. b \in 1 .. Len(s) /\ z \in b .. Len(s) /\ b \in b .. z
      BY <1>1, <3>1
    <3>4. \A i \in b .. b - 1 : s[i].kind \in seps
      BY <1>2, <3>1
    <3>5. FirstOther(s, b, seps) \in b .. z
      BY <3>2, <3>3, <3>4, SkipsTo
    <3> QED
      BY <2>1, <3>1, <3>5
  <2>3. PICK c : c = FirstOf(s, v, {"eol", "quote", "comma"})
    OBVIOUS
  <2>4. v \in 1 .. Len(s) + 1 /\ z \in v .. Len(s)
    BY <1>1, <2>2
  <2>5. \A i \in v .. z : s[i].kind \notin {"eol", "quote", "comma"}
    <3>1. \A i \in v .. z : i \in m + 1 .. z
      BY <1>1, <2>2
    <3> QED
      BY <3>1 DEF Ends
  <2>6. c \in z + 1 .. Len(s) + 1
    BY <2>3, <2>4, <2>5, FirstBeyond
  <2>7. Authorization(s, m).next = c
    BY <1>3, <2>1, <2>3 DEF Authorization, SkipSeparators, ConsumeToLineEnd
  <2> QED
    BY <2>6, <2>7
<1>4. CASE ~ (AtWordStart(s, m) /\ MatchKeyword(s, m, "auth"))
  <2>1. FirstOther(s, m + 1, {"space"}) \in m + 1 .. m + 1
    <3>1. PICK seps, b : seps = {"space"} /\ b = m + 1
      OBVIOUS
    <3>2. s[b].kind \notin seps
      BY <1>1, <3>1 DEF Ends
    <3>3. b \in 1 .. Len(s) /\ b \in b .. Len(s) /\ b \in b .. b
      BY <1>1, <3>1
    <3>4. \A i \in b .. b - 1 : s[i].kind \in seps
      BY <1>2, <3>1
    <3>5. FirstOther(s, b, seps) \in b .. b
      BY <3>2, <3>3, <3>4, SkipsTo
    <3> QED
      BY <3>1, <3>5
  <2>2. ~ (SkipSpaces(s, m + 1) > m + 1)
    BY <1>1, <2>1 DEF SkipSpaces
  <2> QED
    BY <1>4, <2>2 DEF Authorization
<1> QED
  BY <1>3, <1>4

\* A value stands on one line.
LEMMA OneLine ==
  ASSUME NEW k \in Nat, NEW w \in Nat, FirstPartOf(k, w)
  PROVE  /\ Kind(k) \in {"key", "bearer", "auth"} /\ k < w
         /\ \A i \in k + 1 .. w : Kind(i) # "eol"
<1>1. PICK j \in k + 1 .. w :
        \/ /\ Kind(k) = "key"
           /\ AllIn(k + 1, j - 1, {"space", "colon", "quote"})
           /\ NoneIn(j, w, {"space", "eol", "semi", "quote", "comma"})
        \/ /\ Kind(k) = "bearer"
           /\ AllIn(k + 1, j - 1, {"space"})
           /\ NoneIn(j, w, {"space", "eol", "semi", "quote", "comma"})
        \/ /\ Kind(k) = "auth"
           /\ AllIn(k + 1, j - 1, {"space", "colon", "quote"})
           /\ NoneIn(j, w, {"eol", "quote", "comma"})
  BY DEF FirstPartOf
<1>2. ASSUME NEW i \in k + 1 .. w PROVE Kind(i) # "eol"
  <2>1. i \in k + 1 .. j - 1 \/ i \in j .. w
    OBVIOUS
  <2> QED
    BY <1>1, <2>1 DEF AllIn, NoneIn
<1> QED
  BY <1>1, <1>2 DEF FirstPartOf

\* What a pass puts out and the record does not lack is the token it stands at.
Draws(s, found, i) ==
  \A x \in 1 .. Len(found.text) : found.text[x].at = 0 \/ (x = 1 /\ found.text[x] = s[i])

\* What copies or replaces draws only on the token it stands at.
LEMMA CopiesDraw ==
  ASSUME NEW s \in Seq(Pieces), NEW i \in 1 .. Len(s), NEW found \in Finds,
         NEW ends,
         Copies(s, found, i) \/ Replaces(s, found, i, ends)
  PROVE  Draws(s, found, i)
<1>1. CASE Copies(s, found, i)
  <2>1. PICK a : a = s[i]
    OBVIOUS
  <2>2. PICK t : t = found.text /\ t = <<a>>
    BY <1>1, <2>1 DEF Copies
  <2>3. Len(t) = 1 /\ t[1] = a
    BY <2>2
  <2>4. \A x \in 1 .. Len(t) : x = 1 /\ t[x] = a
    BY <2>3
  <2> QED
    BY <2>1, <2>2, <2>4 DEF Draws
<1>2. CASE Replaces(s, found, i, ends)
  <2>1. PICK t \in Seq(Pieces) : t = found.text
    BY DEF Finds
  <2>2. Len(t) \in Nat
    BY LenProperties
  <2>3. /\ t[1] = s[i] \/ t[1].at = 0
        /\ \A x \in 2 .. Len(t) : t[x].at = 0
    BY <1>2, <2>1 DEF Replaces
  <2>4. ASSUME NEW x \in 1 .. Len(t) PROVE t[x].at = 0 \/ (x = 1 /\ t[x] = s[i])
    <3>1. x = 1 \/ x \in 2 .. Len(t)
      BY <2>2
    <3> QED
      BY <2>3, <3>1
  <2> QED
    BY <2>1, <2>4 DEF Draws
<1> QED
  BY <1>1, <1>2

\* So does what replaces the name of the user.
LEMMA UserDraws ==
  ASSUME NEW s \in Seq(Pieces), NEW i \in 1 .. Len(s)
  PROVE  Draws(s, UserSegment(s, i), i)
<1>1. CASE s[i].kind # "home"
  <2>1. UserSegment(s, i) = Copied(s, i)
    BY <1>1 DEF UserSegment
  <2>2. PICK found : found = Copied(s, i)
    OBVIOUS
  <2>3. found \in Finds /\ Copies(s, found, i)
    BY <2>2, CopiedFinds
  <2>4. Draws(s, found, i)
    BY <2>3, CopiesDraw
  <2> QED
    BY <2>1, <2>2, <2>4
<1>2. CASE s[i].kind = "home"
  <2>1. PICK a, b : a = s[i] /\ b = Marker /\ b.at = 0
    BY MarkerTyped
  <2>2. PICK j : j = FirstOf(s, i + 1, {"home", "space", "eol", "quote"})
    OBVIOUS
  <2>3. PICK t : t = UserSegment(s, i).text
    OBVIOUS
  <2>4. t = IF j > i + 1 THEN <<a, b>> ELSE <<a>>
    BY <1>2, <2>1, <2>2, <2>3 DEF UserSegment
  <2>5. CASE j > i + 1
    <3>1. t = <<a, b>>
      BY <2>4, <2>5
    <3>2. Len(t) = 2 /\ t[1] = a /\ t[2] = b
      BY <3>1
    <3>3. \A x \in 1 .. Len(t) : t[x].at = 0 \/ (x = 1 /\ t[x] = a)
      <4>1. \A x \in 1 .. Len(t) : x = 1 \/ x = 2
        BY <3>2
      <4> QED
        BY <2>1, <3>2, <4>1
    <3> QED
      BY <2>1, <2>3, <3>3 DEF Draws
  <2>6. CASE ~ (j > i + 1)
    <3>1. t = <<a>>
      BY <2>4, <2>6
    <3>2. Len(t) = 1 /\ t[1] = a
      BY <3>1
    <3>3. \A x \in 1 .. Len(t) : t[x].at = 0 \/ (x = 1 /\ t[x] = a)
      BY <3>2
    <3> QED
      BY <2>1, <2>3, <3>3 DEF Draws
  <2> QED
    BY <2>5, <2>6
<1> QED
  BY <1>1, <1>2

\* The run of a pass of the writer: what it finds, and what it makes of the text.
LEMMA PassRuns ==
  ASSUME NEW name \in PassNames, NEW s \in Seq(Pieces)
  PROVE  \E F, f : /\ Passage(s, F, f) /\ PassOf(name, s) = f[Len(s)].text
                   /\ PassOf(name, s) \in Seq(Pieces)
                   /\ \A i \in 1 .. Len(s) : F[i] = PassFinds(name, s, i)
                   /\ \A i \in 1 .. Len(s) : Draws(s, F[i], i)
<1>1. ASSUME NEW i \in 1 .. Len(s)
      PROVE  /\ PassFinds(name, s, i) \in Finds
             /\ PassFinds(name, s, i).next \in i + 1 .. Len(s) + 1
             /\ Draws(s, PassFinds(name, s, i), i)
  <2>1. PICK found : found = PassFinds(name, s, i)
    OBVIOUS
  <2>2. CASE name = "pem"
    <3>1. found = PemBlock(s, i)
      BY <2>1, <2>2 DEF PassFinds
    <3>2. PICK ends : ends = {"eol"}
      OBVIOUS
    <3>3. /\ found \in Finds /\ found.next \in i + 1 .. Len(s) + 1
          /\ Copies(s, found, i) \/ Replaces(s, found, i, ends)
      BY <3>1, <3>2, PemFinds
    <3> QED
      BY <2>1, <3>3, CopiesDraw
  <2>3. CASE name = "auth"
    <3>1. found = Authorization(s, i)
      BY <2>1, <2>3 DEF PassFinds
    <3>2. /\ found \in Finds /\ found.next \in i + 1 .. Len(s) + 1
          /\ Copies(s, found, i) \/ Replaces(s, found, i, Ends)
      BY <3>1, AuthorizationFinds
    <3> QED
      BY <2>1, <3>2, CopiesDraw
  <2>4. CASE name = "keys"
    <3>1. found = KeyValue(s, i)
      BY <2>1, <2>4 DEF PassFinds
    <3>2. /\ found \in Finds /\ found.next \in i + 1 .. Len(s) + 1
          /\ Copies(s, found, i) \/ Replaces(s, found, i, Ends)
      BY <3>1, KeyValueFinds
    <3> QED
      BY <2>1, <3>2, CopiesDraw
  <2>5. CASE name = "user"
    <3>1. found = UserSegment(s, i)
      BY <2>1, <2>5 DEF PassFinds
    <3> QED
      BY <2>1, <3>1, UserFinds, UserDraws
  <2> QED
    BY <2>2, <2>3, <2>4, <2>5 DEF PassNames
<1>2. PICK F : F = [i \in 1 .. Len(s) |-> PassFinds(name, s, i)]
  OBVIOUS
<1>3. /\ F \in [1 .. Len(s) -> Finds]
      /\ \A i \in 1 .. Len(s) : F[i] = PassFinds(name, s, i)
      /\ \A i \in 1 .. Len(s) : F[i].next \in i + 1 .. Len(s) + 1
      /\ \A i \in 1 .. Len(s) : Draws(s, F[i], i)
  BY <1>1, <1>2
<1>4. PICK f : Passage(s, F, f) /\ PassOf(name, s) = f[Len(s)].text
  BY <1>3, PassIsPassage
<1>5. f[Len(s)].text \in Seq(Pieces)
  <2>1. Len(s) \in 0 .. Len(s)
    BY LenProperties
  <2> QED
    BY <1>4, <2>1 DEF Passage, Finds
<1> QED
  BY <1>3, <1>4, <1>5

\* A token of the record stands behind a pass where the pass has visited it, and
\* found it at the head of what it put out there.
LEMMA FromVisited ==
  ASSUME NEW s, NEW F, NEW f, Passage(s, F, f),
         \A i \in 1 .. Len(s) : Draws(s, F[i], i),
         NEW q \in 1 .. Len(f[Len(s)].text), f[Len(s)].text[q].at # 0
  PROVE  \E i \in 1 .. Len(s) : /\ Visited(f, i) /\ f[Len(s)].text[q] = s[i]
                                /\ q = Len(f[i - 1].text) + 1
<1>1. PICK n \in Nat : n = Len(s) /\ n \in 0 .. n
  <2>1. Len(s) \in Nat
    BY Onward
  <2> QED
    BY <2>1
<1>2. PICK i \in 1 .. n : /\ Visited(f, i)
                          /\ q - Len(f[i - 1].text) \in 1 .. Len(F[i].text)
                          /\ f[n].text[q] = F[i].text[q - Len(f[i - 1].text)]
  <2>1. \A m \in 0 .. Len(s) : \A r \in 1 .. Len(f[m].text) :
          \E i \in 1 .. m :
            /\ Visited(f, i)
            /\ r - Len(f[i - 1].text) \in 1 .. Len(F[i].text)
            /\ f[m].text[r] = F[i].text[r - Len(f[i - 1].text)]
    BY PutOutAt
  <2>2. n \in 0 .. Len(s) /\ q \in 1 .. Len(f[n].text)
    BY <1>1
  <2> QED
    BY <2>1, <2>2
<1>3. PICK m \in Nat : m = Len(f[i - 1].text)
  <2>1. f[i - 1].text \in Seq(Pieces)
    BY <1>1, AtPlace
  <2> QED
    BY <2>1, LenProperties
<1>4. q \in Nat
  <2>1. f[n].text \in Seq(Pieces)
    BY <1>1 DEF Passage, Finds
  <2>2. Len(f[n].text) \in Nat
    BY <2>1, LenProperties
  <2> QED
    BY <1>1, <2>2
<1>5. q - m = 1 /\ F[i].text[q - m] = s[i]
  <2>1. F[i].text[q - m].at # 0 /\ q - m \in 1 .. Len(F[i].text)
    BY <1>1, <1>2, <1>3
  <2> QED
    BY <1>1, <2>1 DEF Draws
<1>6. q = m + 1
  BY <1>4, <1>5
<1> QED
  BY <1>1, <1>2, <1>3, <1>5, <1>6

\* No token of the record's place w is left.
Gone(t, w) == \A q \in 1 .. Len(t) : t[q].at # w

\* What the pass does not visit is gone behind it.
LEMMA Unvisited ==
  ASSUME NEW s, NEW F, NEW f, Passage(s, F, f),
         \A i \in 1 .. Len(s) : Draws(s, F[i], i), NEW w, w # 0,
         \A i \in 1 .. Len(s) : s[i].at = w => ~ Visited(f, i)
  PROVE  Gone(f[Len(s)].text, w)
<1>1. ASSUME NEW q \in 1 .. Len(f[Len(s)].text), f[Len(s)].text[q].at = w PROVE FALSE
  <2>1. PICK i \in 1 .. Len(s) : Visited(f, i) /\ f[Len(s)].text[q] = s[i]
    BY <1>1, FromVisited
  <2> QED
    BY <1>1, <2>1
<1> QED
  BY <1>1 DEF Gone

\* What is gone from a text is gone behind every pass over it.
LEMMA StaysGone ==
  ASSUME NEW name \in PassNames, NEW s \in Seq(Pieces), NEW w, w # 0, Gone(s, w)
  PROVE  Gone(PassOf(name, s), w)
<1>1. PICK F, f : /\ Passage(s, F, f) /\ PassOf(name, s) = f[Len(s)].text
                  /\ \A i \in 1 .. Len(s) : Draws(s, F[i], i)
  BY PassRuns
<1>2. \A i \in 1 .. Len(s) : s[i].at = w => ~ Visited(f, i)
  BY DEF Gone
<1> QED
  BY <1>1, <1>2, Unvisited

\* The three passes over a record.
PemText == PassOf("pem", record)
HeaderText == PassOf("auth", PemText)
KeyText == PassOf("keys", HeaderText)

\* What swallows a place is no copied token.
LEMMA SwallowsMore ==
  ASSUME NEW s \in Seq(Pieces), NEW i \in 1 .. Len(s), NEW e \in 1 .. i - 1,
         NEW found, found.next > i
  PROVE  found # Copied(s, e) /\ e \in 1 .. Len(s)
<1>1. i \in Nat /\ e \in Nat /\ e < i /\ e \in 1 .. Len(s)
  BY LenProperties
<1>2. Copied(s, e).next = e + 1 /\ ~ (e + 1 > i)
  BY <1>1 DEF Copied
<1> QED
  BY <1>1, <1>2

\* The three texts are faithful to the record.
LEMMA PemIsFaithful ==
  ASSUME RecordInv
  PROVE  PemText \in Seq(Pieces) /\ Faithful(PemText, record, {"eol"})
<1>1. record \in Seq(Pieces) /\ Len(record) \in Nat
  BY LenProperties DEF RecordInv
<1>2. PICK ends : ends = {"eol"}
  OBVIOUS
<1>3. Faithful(record, record, ends)
  <2>1. ASSUME NEW q \in 1 .. Len(record)
        PROVE  record[q].at = q /\ q # 0
    BY DEF RecordInv
  <2>2. record # <<>> => record[1].at = 1
    <3>1. record # <<>> => Len(record) # 0
      BY <1>1, EmptySeq
    <3>2. record # <<>> => 1 \in 1 .. Len(record)
      BY <1>1, <3>1
    <3> QED
      BY <2>1, <3>2
  <2>3. ASSUME NEW q \in 1 .. Len(record) - 1 PROVE Follows(record[q], record[q + 1], ends)
    <3>1. q \in 1 .. Len(record) /\ q + 1 \in 1 .. Len(record)
      BY <1>1
    <3>2. record[q].at = q /\ q # 0 /\ record[q + 1].at = q + 1
      BY <2>1, <3>1
    <3> QED
      BY <3>2 DEF Follows
  <2> QED
    BY <2>1, <2>2, <2>3 DEF Faithful
<1>4. PICK F, f : /\ Passage(record, F, f) /\ PassOf("pem", record) = f[Len(record)].text
                  /\ PassOf("pem", record) \in Seq(Pieces)
                  /\ \A i \in 1 .. Len(record) : F[i] = PassFinds("pem", record, i)
                  /\ \A i \in 1 .. Len(record) : Draws(record, F[i], i)
  <2>1. "pem" \in PassNames
    BY DEF PassNames
  <2> QED
    BY <1>1, <2>1, PassRuns
<1>5. Rewrites(record, F, ends)
  <2>1. ASSUME NEW i \in 1 .. Len(record)
        PROVE  Copies(record, F[i], i) \/ Replaces(record, F[i], i, ends)
    <3>1. F[i] = PemBlock(record, i)
      BY <1>4 DEF PassFinds
    <3> QED
      BY <1>1, <1>2, <3>1, PemFinds
  <2> QED
    BY <2>1 DEF Rewrites
<1>6. Faithful(f[Len(record)].text, record, ends)
  BY <1>3, <1>4, <1>5, PassKeepsFaith
<1> QED
  BY <1>2, <1>4, <1>6 DEF PemText

\* The body of a private key is gone behind the first pass.
LEMMA KeyBlockGone ==
  ASSUME RecordInv, NEW w \in 1 .. Len(record), InKeyBlock(w)
  PROVE  Gone(PemText, w)
<1>1. record \in Seq(Pieces) /\ Len(record) \in Nat
  BY LenProperties DEF RecordInv
<1>2. PICK F, f : /\ Passage(record, F, f) /\ PassOf("pem", record) = f[Len(record)].text
                  /\ PassOf("pem", record) \in Seq(Pieces)
                  /\ \A i \in 1 .. Len(record) : F[i] = PassFinds("pem", record, i)
                  /\ \A i \in 1 .. Len(record) : Draws(record, F[i], i)
  <2>1. "pem" \in PassNames
    BY DEF PassNames
  <2> QED
    BY <1>1, <2>1, PassRuns
<1>3. PICK b \in 1 .. w - 1 :
        /\ Kind(b) = "pem"
        /\ NoneIn(1, b - 1, {"pem", "cert"})
        /\ ~ \E l, e, r \in b .. w :
               l < e /\ e < r /\ Kind(l) = "eol" /\ Kind(e) = "end" /\ Kind(r) = "eol"
  BY DEF InKeyBlock
<1>4. /\ b \in 1 .. Len(record) /\ b \in Nat /\ w \in Nat /\ b < w /\ w \in 1 .. Len(record)
      /\ record[b].kind = "pem"
  BY <1>1, <1>3 DEF Kind
<1>5. Visited(f, b)
  <2>1. ASSUME NEW e \in 1 .. b - 1, F[e].next > b PROVE FALSE
    <3>1. PICK found : found = F[e]
      OBVIOUS
    <3>2. found # Copied(record, e) /\ e \in 1 .. Len(record)
      BY <1>1, <1>4, <2>1, <3>1, SwallowsMore
    <3>3. found = PemBlock(record, e)
      BY <1>2, <3>1, <3>2 DEF PassFinds
    <3>4. record[e].kind \in {"pem", "cert"}
      BY <3>2, <3>3 DEF PemBlock
    <3> QED
      BY <1>3, <3>4 DEF NoneIn, Kind
  <2> QED
    BY <1>2, <1>4, <2>1, SwallowedBy
<1>6. PICK l, r : l = FirstOf(record, b, {"eol"}) /\ r = BlockEnd(record, b)
  OBVIOUS
<1>7. /\ l \in b + 1 .. Len(record) + 1 /\ r \in b + 1 .. Len(record) + 1
      /\ r = Len(record) + 1 \/ record[r].kind \in {"eol"}
  BY <1>1, <1>4, <1>6, BlockEnds
<1>8. F[b].next = r
  <2>1. b \in b .. l - 1 /\ record[b].kind \in {"pem", "end"}
    BY <1>4, <1>7
  <2>2. PemBlock(record, b).next = r
    BY <1>4, <1>6, <2>1 DEF PemBlock
  <2> QED
    BY <1>2, <1>4, <2>2 DEF PassFinds
<1>9. ASSUME ~ (r > w) PROVE FALSE
  <2>1. r \in b .. w /\ r \in 1 .. Len(record) /\ r # Len(record) + 1
    BY <1>1, <1>4, <1>7, <1>9
  <2>2. PICK c : c = FirstOf(record, l, {"end"})
    OBVIOUS
  <2>3. l \in 1 .. Len(record) + 1
    BY <1>1, <1>4, <1>7
  <2>4. /\ c \in l .. Len(record) + 1
        /\ c = Len(record) + 1 \/ record[c].kind \in {"end"}
    BY <1>1, <2>2, <2>3, FirstPlace
  <2>5. r = IF c > Len(record) THEN c ELSE FirstOf(record, c, {"eol"})
    BY <1>6, <2>2 DEF BlockEnd
  <2>6. ~ (c > Len(record))
    BY <1>1, <1>7, <2>1, <2>4, <2>5
  <2>7. c \in 1 .. Len(record) + 1
    BY <1>1, <2>3, <2>4
  <2>8. r \in c .. Len(record) + 1
    BY <1>1, <2>5, <2>6, <2>7, FirstPlace
  <2>9. Kind(r) = "eol" /\ Kind(c) = "end" /\ c # r /\ c # Len(record) + 1
    BY <1>1, <1>7, <2>1, <2>4, <2>6 DEF Kind
  <2>10. l # Len(record) + 1
    BY <1>1, <1>7, <2>4, <2>6
  <2>11. Kind(l) = "eol" /\ l # c
    <3>1. b \in 1 .. Len(record) + 1
      BY <1>1, <1>4
    <3>2. l = Len(record) + 1 \/ record[l].kind \in {"eol"}
      BY <1>1, <1>6, <3>1, FirstPlace
    <3> QED
      BY <2>9, <2>10, <3>2 DEF Kind
  <2>12. l < c /\ c < r /\ l \in b .. w /\ c \in b .. w
    BY <1>1, <1>4, <1>7, <2>1, <2>4, <2>8, <2>9, <2>11
  <2> QED
    BY <1>3, <2>1, <2>9, <2>11, <2>12
<1>10. ~ Visited(f, w)
  <2>1. \A i \in b + 1 .. F[b].next - 1 : i \in 1 .. Len(record) /\ ~ Visited(f, i)
    BY <1>2, <1>4, <1>5, Swallows
  <2>2. w \in b + 1 .. r - 1
    BY <1>1, <1>4, <1>7, <1>9
  <2> QED
    BY <1>8, <2>1, <2>2
<1>11. \A i \in 1 .. Len(record) : record[i].at = w => ~ Visited(f, i)
  BY <1>10 DEF RecordInv
<1>12. w # 0
  BY <1>4
<1> QED
  BY <1>2, <1>11, <1>12, Unvisited DEF PemText

LEMMA HeaderIsFaithful ==
  ASSUME RecordInv
  PROVE  /\ PemText \in Seq(Pieces) /\ HeaderText \in Seq(Pieces)
         /\ Faithful(PemText, record, {"eol"}) /\ Faithful(HeaderText, record, Ends)
<1>1. PICK s \in Seq(Pieces) : s = PemText /\ Faithful(s, record, {"eol"})
  BY PemIsFaithful
<1>2. Faithful(s, record, Ends)
  <2>1. \A x, y : Follows(x, y, {"eol"}) => Follows(x, y, Ends)
    BY DEF Follows, Ends
  <2> QED
    BY <1>1, <2>1 DEF Faithful
<1>3. PICK F, f : /\ Passage(s, F, f) /\ PassOf("auth", s) = f[Len(s)].text
                  /\ PassOf("auth", s) \in Seq(Pieces)
                  /\ \A i \in 1 .. Len(s) : F[i] = PassFinds("auth", s, i)
                  /\ \A i \in 1 .. Len(s) : Draws(s, F[i], i)
  <2>1. "auth" \in PassNames
    BY DEF PassNames
  <2> QED
    BY <2>1, PassRuns
<1>4. Rewrites(s, F, Ends)
  <2>1. ASSUME NEW i \in 1 .. Len(s)
        PROVE  Copies(s, F[i], i) \/ Replaces(s, F[i], i, Ends)
    <3>1. F[i] = Authorization(s, i)
      BY <1>3 DEF PassFinds
    <3> QED
      BY <3>1, AuthorizationFinds
  <2> QED
    BY <2>1 DEF Rewrites
<1>5. Faithful(f[Len(s)].text, record, Ends)
  BY <1>2, <1>3, <1>4, PassKeepsFaith
<1> QED
  BY <1>1, <1>3, <1>5 DEF HeaderText

LEMMA KeyIsFaithful ==
  ASSUME RecordInv
  PROVE  KeyText \in Seq(Pieces) /\ Faithful(KeyText, record, Ends)
<1>1. PICK s \in Seq(Pieces) : s = HeaderText /\ Faithful(s, record, Ends)
  BY HeaderIsFaithful
<1>2. PICK F, f : /\ Passage(s, F, f) /\ PassOf("keys", s) = f[Len(s)].text
                  /\ PassOf("keys", s) \in Seq(Pieces)
                  /\ \A i \in 1 .. Len(s) : F[i] = PassFinds("keys", s, i)
                  /\ \A i \in 1 .. Len(s) : Draws(s, F[i], i)
  <2>1. "keys" \in PassNames
    BY DEF PassNames
  <2> QED
    BY <2>1, PassRuns
<1>3. Rewrites(s, F, Ends)
  <2>1. ASSUME NEW i \in 1 .. Len(s)
        PROVE  Copies(s, F[i], i) \/ Replaces(s, F[i], i, Ends)
    <3>1. F[i] = KeyValue(s, i)
      BY <1>2 DEF PassFinds
    <3> QED
      BY <3>1, KeyValueFinds
  <2> QED
    BY <2>1 DEF Rewrites
<1>4. Faithful(f[Len(s)].text, record, Ends)
  BY <1>1, <1>2, <1>3, PassKeepsFaith
<1> QED
  BY <1>1, <1>2, <1>4 DEF KeyText

\* Nothing before k announces the name at k.
Free(k) == \A e \in 1 .. k - 1 : ~ FirstPartOf(e, k)

\* Where a name stands that no other name announces, each pass has visited it.
LEMMA HeaderVisits ==
  ASSUME RecordInv, NEW F, NEW f, Passage(PemText, F, f),
         \A i \in 1 .. Len(PemText) : F[i] = PassFinds("auth", PemText, i),
         NEW p \in 1 .. Len(PemText), PemText[p].at # 0, PemText[p].kind \in Names,
         Free(PemText[p].at)
  PROVE  Visited(f, p)
<1>1. PICK s \in Seq(Pieces) : s = PemText /\ Faithful(s, record, {"eol"})
  BY PemIsFaithful
<1>2. ASSUME NEW e \in 1 .. p - 1, F[e].next > p PROVE FALSE
  <2>1. e \in 1 .. Len(s)
    BY <1>1, LenProperties
  <2>2. F[e] = Authorization(s, e)
    BY <1>1, <2>1 DEF PassFinds
  <2>3. Authorization(s, e).next > p
    BY <1>2, <2>2
  <2>4. \E k \in 1 .. s[p].at - 1 : FirstPartOf(k, s[p].at)
    BY <1>1, <2>3, CoveredByHeader
  <2> QED
    BY <1>1, <2>4 DEF Free
<1> QED
  BY <1>2, SwallowedBy

\* A name that is in nobody's value is visited by the third pass.
LEMMA KeyVisits ==
  ASSUME RecordInv, NEW F, NEW f, Passage(HeaderText, F, f),
         \A i \in 1 .. Len(HeaderText) : F[i] = PassFinds("keys", HeaderText, i),
         NEW p \in 1 .. Len(HeaderText), HeaderText[p].at # 0, HeaderText[p].kind \in Names,
         Free(HeaderText[p].at)
  PROVE  Visited(f, p)
<1>1. PICK s \in Seq(Pieces) : s = HeaderText /\ Faithful(s, record, Ends)
  BY HeaderIsFaithful
<1>2. ASSUME NEW e \in 1 .. p - 1, F[e].next > p PROVE FALSE
  <2>1. e \in 1 .. Len(s)
    BY <1>1, LenProperties
  <2>2. F[e] = KeyValue(s, e)
    BY <1>1, <2>1 DEF PassFinds
  <2>3. KeyValue(s, e).next > p
    BY <1>2, <2>2
  <2>4. \E k \in 1 .. s[p].at - 1 : FirstPartOf(k, s[p].at)
    BY <1>1, <2>3, CoveredByKey
  <2> QED
    BY <1>1, <2>4 DEF Free
<1> QED
  BY <1>2, SwallowedBy

\* Where the copies of a run are in the end: of the tokens from a to b, which are
\* d places apart.
Kept(s, f, a, b, d) ==
  \E c \in Nat :
    /\ d > 0 => Len(f[b - 1].text) = c + d
    /\ \A x \in 0 .. d : /\ c + 1 + x \in 1 .. Len(f[Len(s)].text)
                        /\ f[Len(s)].text[c + 1 + x] = s[a + x]

LEMMA CopiesStay ==
  ASSUME NEW s, NEW F, NEW f, Passage(s, F, f), NEW a \in 1 .. Len(s), NEW d \in Nat,
         NEW b \in a .. Len(s), b = a + d, Visited(f, a), \A i \in a .. b : F[i] = Copied(s, i)
  PROVE  Kept(s, f, a, b, d)
<1>1. PICK n \in Nat : /\ n = Len(s) /\ a \in Nat /\ b \in Nat /\ b <= n /\ 1 <= a
                       /\ b - a = d /\ b \in a .. b /\ b \in 0 .. n /\ n \in b .. n
  <2>1. Len(s) \in Nat
    BY Onward
  <2>2. a \in Nat /\ b \in Nat /\ b <= Len(s) /\ 1 <= a /\ a <= b
    BY <2>1
  <2>3. b - a = d /\ b \in a .. b /\ b \in 0 .. Len(s) /\ Len(s) \in b .. Len(s)
    BY <2>1, <2>2
  <2> QED
    BY <2>1, <2>2, <2>3
<1>2. PICK c \in Nat : c = Len(f[a - 1].text)
  <2>1. f[a - 1].text \in Seq(Pieces)
    BY AtPlace
  <2> QED
    BY <2>1, LenProperties
<1>3. \A i \in a .. b :
        /\ Len(f[i].text) = c + (i - a) + 1
        /\ \A j \in a .. i : f[i].text[c + (j - a) + 1] = s[j]
  <2>1. RunStands(s, f, a, b)
    BY CopiedRun
  <2> QED
    BY <1>2, <2>1 DEF RunStands
<1>4. ASSUME d > 0 PROVE Len(f[b - 1].text) = c + d
  <2>1. PICK i \in a .. b : i = b - 1 /\ i - a = d - 1
    BY <1>1, <1>4
  <2>2. Len(f[i].text) = c + (d - 1) + 1
    BY <1>3, <2>1
  <2>3. c + (d - 1) + 1 = c + d
    OBVIOUS
  <2> QED
    BY <2>1, <2>2, <2>3
<1>5. /\ Len(f[b].text) <= Len(f[n].text) /\ Len(f[n].text) \in Nat
      /\ \A q \in 1 .. Len(f[b].text) : f[n].text[q] = f[b].text[q]
  BY <1>1, PutOut
<1>6. ASSUME NEW x \in 0 .. d
      PROVE  c + 1 + x \in 1 .. Len(f[n].text) /\ f[n].text[c + 1 + x] = s[a + x]
  <2>1. PICK j \in a .. b : j = a + x /\ c + (j - a) + 1 = c + 1 + x
    BY <1>1
  <2>2. f[b].text[c + 1 + x] = s[a + x]
    BY <1>1, <1>3, <2>1
  <2>3. Len(f[b].text) = c + d + 1
    BY <1>1, <1>3
  <2>4. c + 1 + x \in 1 .. c + d + 1
    OBVIOUS
  <2> QED
    BY <1>5, <2>2, <2>3, <2>4
<1> QED
  BY <1>1, <1>4, <1>6 DEF Kept

\* The head of what stands.
LEMMA HeadStands ==
  ASSUME RecordInv, NEW s \in Seq(Pieces), NEW q \in 1 .. Len(s), NEW w \in 1 .. Len(record),
         NEW k \in 1 .. w - 1, NEW p \in 1 .. q, p = q - (w - k), Stands(s, p, k, w)
  PROVE  /\ p \in 1 .. Len(s) /\ p \in 1 .. q - 1 /\ p + (w - k) = q
         /\ s[p] = record[k] /\ s[p].at = k /\ k # 0 /\ s[p].kind = Kind(k)
         /\ k \in 1 .. Len(record) /\ w \in k + 1 .. Len(record)
<1>1. Len(s) \in Nat /\ Len(record) \in Nat /\ q \in Nat /\ w \in Nat /\ k \in Nat
  BY LenProperties DEF RecordInv
<1>2. /\ p \in 1 .. Len(s) /\ p \in 1 .. q - 1 /\ p + (w - k) = q
      /\ k \in 1 .. Len(record) /\ w \in k + 1 .. Len(record) /\ k # 0 /\ k \in k .. w
  BY <1>1
<1>3. p + (k - k) = p
  BY <1>1, <1>2
<1>4. s[p] = record[k]
  BY <1>2, <1>3 DEF Stands
<1> QED
  BY <1>2, <1>4 DEF RecordInv, Kind

\* What a header or a bearer announces is gone behind the second pass.
LEMMA HeaderGone ==
  ASSUME RecordInv, NEW w \in 1 .. Len(record), Kind(w) = "word",
         NEW k \in 1 .. w - 1, FirstPartOf(k, w), Free(k), Kind(k) \in {"auth", "bearer"}
  PROVE  Gone(HeaderText, w)
<1>1. PICK ends : ends = {"eol"}
  OBVIOUS
<1>2. PICK s \in Seq(Pieces) : s = PemText /\ Faithful(s, record, ends)
  BY <1>1, PemIsFaithful
<1>3. PICK F, f : /\ Passage(s, F, f) /\ PassOf("auth", s) = f[Len(s)].text
                  /\ PassOf("auth", s) \in Seq(Pieces)
                  /\ \A i \in 1 .. Len(s) : F[i] = PassFinds("auth", s, i)
                  /\ \A i \in 1 .. Len(s) : Draws(s, F[i], i)
  <2>1. "auth" \in PassNames
    BY DEF PassNames
  <2> QED
    BY <2>1, PassRuns
<1>4. Len(s) \in Nat /\ Len(record) \in Nat /\ w \in Nat /\ k \in Nat /\ w # 0 /\ k \in 1 .. w
  BY LenProperties DEF RecordInv
<1>5. \A i \in k + 1 .. w : Kind(i) \notin ends
  BY <1>1, <1>4, OneLine
<1>6. ASSUME NEW q \in 1 .. Len(s), s[q].at = w PROVE ~ Visited(f, q)
  <2>1. q - (w - k) \in 1 .. q /\ Stands(s, q - (w - k), k, w)
    BY <1>2, <1>4, <1>5, <1>6, StandsBehind
  <2>2. PICK p \in 1 .. q : p = q - (w - k) /\ Stands(s, p, k, w)
    BY <2>1
  <2>3. /\ p \in 1 .. Len(s) /\ p \in 1 .. q - 1 /\ p + (w - k) = q
        /\ s[p] = record[k] /\ s[p].at = k /\ k # 0 /\ s[p].kind = Kind(k)
        /\ k \in 1 .. Len(record) /\ w \in k + 1 .. Len(record)
    BY <2>2, HeadStands
  <2>4. Visited(f, p)
    <3>1. s[p].kind \in Names
      BY <2>3 DEF Names
    <3> QED
      BY <1>2, <1>3, <2>3, <3>1, HeaderVisits
  <2>5. Authorization(s, p).next \in p + (w - k) + 1 .. Len(s) + 1
    <3>1. Kind(k) \notin ends /\ Stands(s, p, k, w)
      BY <1>1, <2>1, <2>2
    <3> QED
      BY <1>2, <2>3, <3>1, HeaderSwallows
  <2>6. F[p].next \in q + 1 .. Len(s) + 1
    BY <1>3, <2>3, <2>5 DEF PassFinds
  <2>7. \A i \in p + 1 .. F[p].next - 1 : i \in 1 .. Len(s) /\ ~ Visited(f, i)
    BY <1>3, <2>3, <2>4, Swallows
  <2>8. q \in p + 1 .. F[p].next - 1
    <3>1. F[p].next \in Int /\ q < F[p].next
      BY <1>4, <2>6
    <3>2. p \in Int /\ q \in Int /\ p < q
      BY <1>4, <2>3
    <3> QED
      BY <3>1, <3>2, Within
  <2> QED
    BY <2>7, <2>8
<1>7. Gone(f[Len(s)].text, w)
  BY <1>3, <1>4, <1>6, Unvisited
<1> QED
  BY <1>2, <1>3, <1>7 DEF HeaderText

\* What a key announces is gone behind it, or stands as it stood in the record.
LEMMA KeyStands ==
  ASSUME RecordInv, NEW w \in 1 .. Len(record), Kind(w) = "word",
         NEW k \in 1 .. w - 1, FirstPartOf(k, w), Free(k), Kind(k) = "key",
         NEW r \in 1 .. Len(HeaderText), HeaderText[r].at = w
  PROVE  r - (w - k) \in 1 .. r /\ Stands(HeaderText, r - (w - k), k, w)
<1>1. PICK ends : ends = {"eol"}
  OBVIOUS
<1>2. PICK s \in Seq(Pieces) : s = PemText /\ Faithful(s, record, ends)
  BY <1>1, PemIsFaithful
<1>3. PICK F, f : /\ Passage(s, F, f) /\ PassOf("auth", s) = f[Len(s)].text
                  /\ PassOf("auth", s) \in Seq(Pieces)
                  /\ \A i \in 1 .. Len(s) : F[i] = PassFinds("auth", s, i)
                  /\ \A i \in 1 .. Len(s) : Draws(s, F[i], i)
  <2>1. "auth" \in PassNames
    BY DEF PassNames
  <2> QED
    BY <2>1, PassRuns
<1>4. Len(s) \in Nat /\ Len(record) \in Nat /\ w \in Nat /\ k \in Nat /\ w # 0 /\ k \in 1 .. w
  BY LenProperties DEF RecordInv
<1>5. \A i \in k + 1 .. w : Kind(i) \notin ends
  BY <1>1, <1>4, OneLine
<1>6. HeaderText = f[Len(s)].text
  BY <1>2, <1>3 DEF HeaderText
<1>7. PICK q \in 1 .. Len(s) : /\ Visited(f, q) /\ HeaderText[r] = s[q]
                               /\ r = Len(f[q - 1].text) + 1
  <2>1. r \in 1 .. Len(f[Len(s)].text) /\ f[Len(s)].text[r].at # 0
    BY <1>4, <1>6
  <2>2. \E i \in 1 .. Len(s) : /\ Visited(f, i) /\ f[Len(s)].text[r] = s[i]
                                /\ r = Len(f[i - 1].text) + 1
    BY <1>3, <2>1, FromVisited
  <2> QED
    BY <1>6, <2>2
<1>8. s[q].at = w
  BY <1>7
<1>9. q - (w - k) \in 1 .. q /\ Stands(s, q - (w - k), k, w)
  BY <1>2, <1>4, <1>5, <1>8, StandsBehind
<1>10. PICK p \in 1 .. q : p = q - (w - k) /\ Stands(s, p, k, w)
  BY <1>9
<1>11. /\ p \in 1 .. Len(s) /\ p \in 1 .. q - 1 /\ p + (w - k) = q
       /\ s[p] = record[k] /\ s[p].at = k /\ k # 0 /\ s[p].kind = Kind(k)
       /\ k \in 1 .. Len(record) /\ w \in k + 1 .. Len(record)
  BY <1>10, HeadStands
<1>12. PICK d \in Nat : /\ d = w - k /\ w = k + d /\ q = p + d /\ d > 0
                        /\ q - p = d /\ k + (q - p) = w
  <2>1. p \in Int /\ q \in Int /\ k \in Int /\ w \in Int /\ k < w
    BY <1>4
  <2>2. p + (w - k) = q
    BY <1>11
  <2>3. Spaced(p, q, k, w)
    BY <2>1, <2>2, Apart
  <2> QED
    BY <2>3 DEF Spaced
<1>13. q \in Nat /\ p \in Nat /\ q \in p .. Len(s) /\ p < q /\ q \in p .. q
  BY <1>4, <1>11, <1>12
<1>14. Visited(f, p)
  <2>1. s[p].kind \in Names
    BY <1>11 DEF Names
  <2> QED
    BY <1>2, <1>3, <1>11, <2>1, HeaderVisits
<1>15. /\ \A m \in p .. q : k + (m - p) \in k .. w /\ s[m].kind = Kind(k + (m - p))
       /\ \A i \in k .. w : p + (i - k) \in p .. q /\ s[p + (i - k)] = record[i]
  <2>1. w \in k .. Len(record)
    BY <1>4, <1>11
  <2>2. Stands(s, p, k, w)
    BY <1>10
  <2>3. /\ p \in Nat /\ k \in Nat /\ w \in Nat /\ Len(s) \in Nat /\ Len(record) \in Nat
        /\ p + (w - k) \in p .. Len(s)
        /\ \A m \in p .. p + (w - k) :
             /\ k + (m - p) \in k .. w /\ m \in 1 .. Len(s)
             /\ s[m] = record[k + (m - p)] /\ s[m].kind = Kind(k + (m - p))
        /\ \A i \in k .. w :
             /\ p + (i - k) \in p .. p + (w - k)
             /\ s[p + (i - k)] = record[i] /\ s[p + (i - k)].kind = Kind(i)
    <3>1. p \in 1 .. Len(s) /\ k \in 1 .. Len(record)
      BY <1>11
    <3> QED
      BY <2>1, <2>2, <3>1, StandsAt
  <2> QED
    BY <1>11, <2>3
<1>16. s[p].kind = "key" /\ s[q].kind = "word"
  <2>1. k + (q - p) = w /\ q \in p .. q
    BY <1>12, <1>13
  <2>2. s[q].kind = Kind(w)
    BY <1>15, <2>1
  <2> QED
    BY <1>11, <2>2
<1>17. PICK j \in k + 1 .. w :
         /\ AllIn(k + 1, j - 1, {"space", "colon", "quote"})
         /\ NoneIn(j, w, {"space", "eol", "semi", "quote", "comma"})
  BY DEF FirstPartOf
\* From the name to the word, every place that is visited is copied, and so all are.
<1>18. ASSUME NEW m \in p .. q, Visited(f, m) PROVE F[m] = Copied(s, m)
  <2>1. m \in 1 .. Len(s) /\ F[m] = Authorization(s, m)
    <3>1. m \in 1 .. Len(s)
      BY <1>4, <1>11, <1>13
    <3> QED
      BY <1>3, <3>1 DEF PassFinds
  <2>2. CASE s[m].kind \notin {"auth", "bearer"}
    BY <2>1, <2>2 DEF Authorization, MatchKeyword
  <2>3. CASE s[m].kind \in {"auth", "bearer"}
    <3>1. m # p /\ m # q
      BY <1>16, <2>3
    <3>2. m \in 1 .. q - 1 /\ m \in p + 1 .. q - 1 /\ m \in Nat
      BY <1>11, <1>13, <3>1
    <3>3. k + (m - p) \in j .. w
      <4>1. k + (m - p) \in k + 1 .. w
        BY <1>4, <1>12, <1>13, <3>2
      <4>2. Kind(k + (m - p)) \in {"auth", "bearer"}
        BY <1>15, <2>3
      <4>3. k + (m - p) \notin k + 1 .. j - 1
        BY <1>17, <4>2 DEF AllIn
      <4> QED
        BY <1>4, <4>1, <4>3
    <3>4. ASSUME NEW i \in m + 1 .. q PROVE s[i].kind \notin Ends
      <4>1. i \in p .. q /\ k + (i - p) \in k .. w /\ s[i].kind = Kind(k + (i - p))
        <5>1. i \in p .. q
          BY <1>13, <3>2
        <5> QED
          BY <1>15, <5>1
      <4>2. k + (i - p) > k + (m - p)
        BY <1>4, <1>13, <3>2
      <4>3. k + (i - p) \in j .. w
        BY <1>4, <1>13, <3>2, <3>3, <4>1, <4>2
      <4> QED
        BY <1>17, <4>1, <4>3 DEF NoneIn, Ends
    <3>5. CASE Authorization(s, m) = Copied(s, m)
      BY <2>1, <3>5
    <3>6. CASE Authorization(s, m).next \in q + 1 .. Len(s) + 1
      <4>1. \A i \in m + 1 .. F[m].next - 1 : i \in 1 .. Len(s) /\ ~ Visited(f, i)
        BY <1>3, <1>18, <2>1, Swallows
      <4>2. q \in m + 1 .. F[m].next - 1
        <5>1. F[m].next \in Int /\ q < F[m].next
          BY <1>4, <1>13, <2>1, <3>6
        <5>2. m \in Int /\ q \in Int /\ m < q
          BY <1>13, <3>2
        <5> QED
          BY <5>1, <5>2, Within
      <4> QED
        BY <1>7, <4>1, <4>2
    <3> QED
      BY <1>16, <3>2, <3>4, <3>5, <3>6, HeaderCovers
  <2> QED
    BY <2>2, <2>3
<1>19. ASSUME NEW i \in p .. q PROVE Visited(f, i)
  <2>1. ASSUME NEW e \in 1 .. i - 1, Visited(f, e), F[e].next > i PROVE FALSE
    <3>1. i \in 1 .. Len(s) /\ i \in Nat /\ e \in Nat
      BY <1>4, <1>11, <1>13
    <3>2. F[e] # Copied(s, e) /\ e \in 1 .. Len(s)
      BY <2>1, <3>1, SwallowsMore
    <3>3. CASE e >= p
      <4>1. e \in p .. q
        BY <1>13, <3>1, <3>3
      <4> QED
        BY <1>18, <2>1, <3>2, <4>1
    <3>4. CASE ~ (e >= p)
      <4>1. \A m \in e + 1 .. F[e].next - 1 : m \in 1 .. Len(s) /\ ~ Visited(f, m)
        BY <1>3, <2>1, <3>2, Swallows
      <4>2. F[e].next \in e + 1 .. Len(s) + 1
        BY <1>3, <3>2 DEF Passage
      <4>3. p \in e + 1 .. F[e].next - 1
        <5>1. F[e].next \in Int
          BY <1>4, <4>2
        <5>2. p \in Int /\ e \in Int /\ i \in Int /\ p <= i /\ e < p
          BY <1>13, <3>1, <3>4
        <5>3. PICK z \in Int : z = F[e].next /\ i < z
          BY <2>1, <5>1
        <5> QED
          BY <5>2, <5>3, WithinUpTo
      <4> QED
        BY <1>14, <4>1, <4>3
    <3> QED
      BY <3>3, <3>4
  <2>2. i \in 1 .. Len(s)
    BY <1>4, <1>11, <1>13
  <2> QED
    BY <1>3, <2>1, <2>2, SwallowedBy
<1>20. \A i \in p .. q : F[i] = Copied(s, i)
  BY <1>18, <1>19
<1>21. PICK c \in Nat :
         /\ d > 0 => Len(f[q - 1].text) = c + d
         /\ \A x \in 0 .. d : /\ c + 1 + x \in 1 .. Len(f[Len(s)].text)
                             /\ f[Len(s)].text[c + 1 + x] = s[p + x]
  <2>1. q = p + d /\ q \in p .. Len(s) /\ p \in 1 .. Len(s)
    BY <1>11, <1>12, <1>13
  <2>2. Passage(s, F, f)
    BY <1>3
  <2>3. Kept(s, f, p, q, d)
    BY <1>14, <1>20, <2>1, <2>2, CopiesStay
  <2> QED
    BY <2>3 DEF Kept
<1>22. r = c + d + 1 /\ r - (w - k) = c + 1 /\ c + 1 \in 1 .. r
  <2>1. w - k = d /\ d > 0
    BY <1>12
  <2>2. r = c + d + 1
    BY <1>7, <1>21, <2>1
  <2>3. c + d + 1 - d = c + 1 /\ c + 1 \in 1 .. c + d + 1
    BY Ahead
  <2>4. r - (w - k) = c + 1
    <3>1. PICK x : x = w - k
      OBVIOUS
    <3>2. r - x = c + 1
      BY <2>1, <2>2, <2>3, <3>1
    <3> QED
      BY <3>1, <3>2
  <2>5. c + 1 \in 1 .. r
    BY <2>2, <2>3, Zenon
  <2> QED
    BY <2>2, <2>4, <2>5, Zenon
<1>23. ASSUME NEW i \in k .. w
       PROVE  c + 1 + (i - k) \in 1 .. Len(HeaderText) /\ HeaderText[c + 1 + (i - k)] = record[i]
  <2>1. PICK x \in 0 .. d : x = i - k
    BY <1>4, <1>12
  <2>2. s[p + x] = record[i]
    BY <1>15, <2>1
  <2> QED
    BY <1>6, <1>21, <2>1, <2>2
<1>24. Stands(HeaderText, c + 1, k, w)
  BY <1>23 DEF Stands
<1> QED
  BY <1>22, <1>24

\* What a key announces is gone behind the third pass.
LEMMA KeyGone ==
  ASSUME RecordInv, NEW w \in 1 .. Len(record), Kind(w) = "word",
         NEW k \in 1 .. w - 1, FirstPartOf(k, w), Free(k), Kind(k) = "key"
  PROVE  Gone(KeyText, w)
<1>1. PICK s \in Seq(Pieces) : s = HeaderText /\ Faithful(s, record, Ends)
  BY HeaderIsFaithful
<1>2. PICK F, f : /\ Passage(s, F, f) /\ PassOf("keys", s) = f[Len(s)].text
                  /\ PassOf("keys", s) \in Seq(Pieces)
                  /\ \A i \in 1 .. Len(s) : F[i] = PassFinds("keys", s, i)
                  /\ \A i \in 1 .. Len(s) : Draws(s, F[i], i)
  <2>1. "keys" \in PassNames
    BY DEF PassNames
  <2> QED
    BY <2>1, PassRuns
<1>3. Len(s) \in Nat /\ Len(record) \in Nat /\ w \in Nat /\ k \in Nat /\ w # 0
  BY LenProperties DEF RecordInv
<1>4. ASSUME NEW q \in 1 .. Len(s), s[q].at = w PROVE ~ Visited(f, q)
  <2>1. q - (w - k) \in 1 .. q /\ Stands(s, q - (w - k), k, w)
    BY <1>1, <1>4, KeyStands
  <2>2. PICK p \in 1 .. q : p = q - (w - k) /\ Stands(s, p, k, w)
    BY <2>1
  <2>3. /\ p \in 1 .. Len(s) /\ p \in 1 .. q - 1 /\ p + (w - k) = q
        /\ s[p] = record[k] /\ s[p].at = k /\ k # 0 /\ s[p].kind = Kind(k)
        /\ k \in 1 .. Len(record) /\ w \in k + 1 .. Len(record)
    BY <2>2, HeadStands
  <2>4. Visited(f, p)
    <3>1. s[p].kind \in Names
      BY <2>3 DEF Names
    <3> QED
      BY <1>1, <1>2, <2>3, <3>1, KeyVisits
  <2>5. KeyValue(s, p).next \in p + (w - k) + 1 .. Len(s) + 1
    <3>1. Kind(k) \notin Ends /\ Stands(s, p, k, w)
      BY <2>1, <2>2 DEF Ends
    <3> QED
      BY <1>1, <2>3, <3>1, KeySwallows
  <2>6. F[p].next \in q + 1 .. Len(s) + 1
    BY <1>2, <2>3, <2>5 DEF PassFinds
  <2>7. \A i \in p + 1 .. F[p].next - 1 : i \in 1 .. Len(s) /\ ~ Visited(f, i)
    BY <1>2, <2>3, <2>4, Swallows
  <2>8. q \in p + 1 .. F[p].next - 1
    <3>1. F[p].next \in Int /\ q < F[p].next
      BY <1>3, <2>6
    <3>2. p \in Int /\ q \in Int /\ p < q
      BY <1>3, <2>3
    <3> QED
      BY <3>1, <3>2, Within
  <2> QED
    BY <2>7, <2>8
<1>5. Gone(f[Len(s)].text, w)
  BY <1>2, <1>3, <1>4, Unvisited
<1> QED
  BY <1>1, <1>2, <1>5 DEF KeyText

\* A dump does not name the user.
LEMMA UserGone ==
  ASSUME RecordInv, NEW w \in 1 .. Len(record), w > 1, Kind(w) = "word", Kind(w - 1) = "home"
  PROVE  Gone(PassOf("user", KeyText), w)
<1>1. PICK s \in Seq(Pieces) : s = KeyText /\ Faithful(s, record, Ends)
  BY KeyIsFaithful
<1>2. PICK F, f : /\ Passage(s, F, f) /\ PassOf("user", s) = f[Len(s)].text
                  /\ PassOf("user", s) \in Seq(Pieces)
                  /\ \A i \in 1 .. Len(s) : F[i] = PassFinds("user", s, i)
                  /\ \A i \in 1 .. Len(s) : Draws(s, F[i], i)
  <2>1. "user" \in PassNames
    BY DEF PassNames
  <2> QED
    BY <2>1, PassRuns
<1>3. Len(s) \in Nat /\ Len(record) \in Nat /\ w \in Nat /\ w # 0
  BY LenProperties DEF RecordInv
<1>4. \A i \in 1 .. Len(s) : F[i] = UserSegment(s, i)
  BY <1>2 DEF PassFinds
<1>5. PICK stops : stops = {"home", "space", "eol", "quote"}
  OBVIOUS
<1>6. ASSUME NEW q \in 1 .. Len(s), s[q].at = w PROVE ~ Visited(f, q)
  <2>1. s[q] = record[w] /\ s[q].kind = "word" /\ s[q].kind \notin Ends
    BY <1>1, <1>3, <1>6 DEF Faithful, Kind, Ends
  <2>2. q # 1 /\ q - 1 \in 1 .. Len(s) /\ s[q - 1].at = w - 1 /\ w - 1 # 0
    <3>1. s[q].at # 0
      BY <1>3, <1>6
    <3>2. q = 1 \/ ~ (s[q - 1] = Marker /\ s[q].kind \in Ends)
      BY <2>1
    <3>3. /\ q = 1 => s[q].at = 1
          /\ q # 1 => /\ q - 1 \in 1 .. Len(s) /\ s[q - 1].at = s[q].at - 1
                      /\ s[q - 1].at # 0
      BY <1>1, <3>1, <3>2, Preceding
    <3> QED
      BY <1>3, <1>6, <3>3
  <2>3. PICK p \in 1 .. Len(s) : p = q - 1 /\ s[p].kind = "home" /\ q = p + 1
    <3>1. s[q - 1] = record[w - 1]
      BY <1>1, <2>2 DEF Faithful
    <3>2. q = q - 1 + 1
      BY <1>3
    <3> QED
      BY <2>2, <3>1, <3>2 DEF Kind
  <2>4. Visited(f, p)
    <3>1. ASSUME NEW e \in 1 .. p - 1, F[e].next > p PROVE FALSE
      <4>1. PICK found : found = F[e]
        OBVIOUS
      <4>2. found # Copied(s, e) /\ e \in 1 .. Len(s)
        BY <3>1, <4>1, SwallowsMore
      <4>3. found = UserSegment(s, e)
        BY <1>4, <4>1, <4>2
      <4>4. s[e].kind = "home"
        BY <4>2, <4>3 DEF UserSegment
      <4>5. found.next = FirstOf(s, e + 1, stops)
        BY <1>5, <4>2, <4>3, <4>4, UserFinds
      <4>6. e + 1 \in 1 .. Len(s) + 1 /\ p \in e + 1 .. Len(s) /\ s[p].kind \in stops
        BY <1>3, <1>5, <2>3
      <4>7. FirstOf(s, e + 1, stops) \in e + 1 .. p
        BY <4>6, FirstWithin
      <4> QED
        BY <1>3, <3>1, <4>1, <4>5, <4>7
    <3> QED
      BY <1>2, <3>1, SwallowedBy
  <2>5. F[p].next \in q + 1 .. Len(s) + 1
    <3>1. F[p].next = FirstOf(s, q, stops)
      <4>1. UserSegment(s, p).next = FirstOf(s, p + 1, stops)
        BY <1>5, <2>3, UserFinds
      <4> QED
        BY <1>4, <2>3, <4>1
    <3>2. q \in 1 .. Len(s) + 1 /\ q \in q .. Len(s)
      BY <1>3
    <3>3. \A m \in q .. q : s[m].kind \notin stops
      BY <1>3, <1>5, <2>1
    <3>4. FirstOf(s, q, stops) \in q + 1 .. Len(s) + 1
      BY <3>2, <3>3, FirstBeyond
    <3> QED
      BY <3>1, <3>4
  <2>6. \A i \in p + 1 .. F[p].next - 1 : i \in 1 .. Len(s) /\ ~ Visited(f, i)
    BY <1>2, <2>4, Swallows
  <2>7. q \in p + 1 .. F[p].next - 1
    BY <1>3, <2>3, <2>5
  <2> QED
    BY <2>6, <2>7
<1>7. Gone(f[Len(s)].text, w)
  BY <1>2, <1>3, <1>6, Unvisited
<1> QED
  BY <1>1, <1>2, <1>7

\* What the log and a dump are written with.
LEMMA WrittenTexts ==
  Redact(record) = KeyText /\ Scrub(record) = PassOf("user", KeyText)
<1>1. /\ \A s : PassOf("pem", s) = Pass(s, PemBlock)
      /\ \A s : PassOf("auth", s) = Pass(s, Authorization)
      /\ \A s : PassOf("keys", s) = Pass(s, KeyValue)
      /\ \A s : PassOf("user", s) = Pass(s, UserSegment)
  BY DEF PassOf
<1>2. Redact(record) = KeyText
  BY <1>1 DEF Redact, KeyText, HeaderText, PemText
<1> QED
  BY <1>1, <1>2 DEF Scrub

\* Neither holds a secret of the record.
LEMMA SecretsGone ==
  ASSUME RecordInv, NEW w \in 1 .. Len(record), Kind(w) = "word"
  PROVE  /\ KeyText \in Seq(Pieces) /\ PassOf("user", KeyText) \in Seq(Pieces)
         /\ Announced(w) \/ InKeyBlock(w) => Gone(KeyText, w)
         /\ \/ Announced(w) \/ InKeyBlock(w)
            \/ w > 1 /\ Kind(w - 1) = "home"
            => Gone(PassOf("user", KeyText), w)
<1>1. /\ record \in Seq(Pieces) /\ Len(record) \in Nat /\ w \in Nat /\ w # 0
      /\ {"pem", "auth", "keys", "user"} \subseteq PassNames
      /\ PemText \in Seq(Pieces) /\ HeaderText \in Seq(Pieces) /\ KeyText \in Seq(Pieces)
  BY LenProperties, HeaderIsFaithful, KeyIsFaithful DEF RecordInv, PassNames
<1>2. PassOf("user", KeyText) \in Seq(Pieces)
  BY <1>1, PassRuns
<1>3. ASSUME Announced(w) PROVE Gone(KeyText, w)
  <2>1. PICK k \in 1 .. w - 1 : FirstPartOf(k, w) /\ Free(k)
    BY <1>3 DEF Announced, Free
  <2>2. Kind(k) \in {"key", "bearer", "auth"}
    BY <1>1, <2>1, OneLine
  <2>3. CASE Kind(k) = "key"
    BY <2>1, <2>3, KeyGone
  <2>4. CASE Kind(k) \in {"auth", "bearer"}
    <3>1. Gone(HeaderText, w)
      BY <2>1, <2>4, HeaderGone
    <3> QED
      BY <1>1, <3>1, StaysGone DEF KeyText
  <2> QED
    BY <2>2, <2>3, <2>4
<1>4. ASSUME InKeyBlock(w) PROVE Gone(KeyText, w)
  <2>1. Gone(PemText, w)
    BY <1>4, KeyBlockGone
  <2>2. Gone(HeaderText, w)
    BY <1>1, <2>1, StaysGone DEF HeaderText
  <2> QED
    BY <1>1, <2>2, StaysGone DEF KeyText
<1>5. ASSUME Gone(KeyText, w) PROVE Gone(PassOf("user", KeyText), w)
  BY <1>1, <1>5, StaysGone
<1>6. ASSUME w > 1, Kind(w - 1) = "home" PROVE Gone(PassOf("user", KeyText), w)
  BY <1>6, UserGone
<1> QED
  BY <1>1, <1>2, <1>3, <1>4, <1>5, <1>6

\* What was written last was made of the record as it is.
RedactionInv ==
  /\ RecordInv
  /\ \/ written = [file |-> "none", text |-> <<>>]
     \/ written = [file |-> "log", text |-> Redact(record)]
     \/ written = [file |-> "dump", text |-> Scrub(record)]

\* RedactionInv is inductive.
LEMMA RedactionStep ==
  ASSUME RedactionInv, [RedactionNext]_redactionVars
  PROVE  RedactionInv'
<1>1. ASSUME NEW kind \in TokenKinds, Format(kind) PROVE RedactionInv'
  <2>1. record \in Seq(Pieces) /\ Len(record) \in Nat
    BY LenProperties DEF RedactionInv, RecordInv
  <2>2. PICK x : x = [kind |-> kind, at |-> Len(record) + 1]
    OBVIOUS
  <2>3. x \in Pieces /\ x.at = Len(record) + 1 /\ x.kind # "marker"
    BY <2>1, <2>2, RedactionAssumption DEF Pieces
  <2>4. record' = Append(record, x) /\ written' = [file |-> "none", text |-> <<>>]
    BY <1>1, <2>2 DEF Format
  <2>5. /\ record' \in Seq(Pieces) /\ Len(record') = Len(record) + 1
        /\ \A i \in 1 .. Len(record) : record'[i] = record[i]
        /\ record'[Len(record) + 1] = x
    BY <2>1, <2>3, <2>4, AppendProperties
  <2>6. ASSUME NEW i \in 1 .. Len(record')
        PROVE  record'[i].at = i /\ record'[i].kind # "marker"
    <3>1. CASE i \in 1 .. Len(record)
      BY <2>5, <3>1 DEF RedactionInv, RecordInv
    <3>2. CASE i \notin 1 .. Len(record)
      <4>1. i = Len(record) + 1
        BY <2>1, <2>5, <3>2
      <4> QED
        BY <2>3, <2>5, <4>1
    <3> QED
      BY <3>1, <3>2
  <2> QED
    BY <2>4, <2>5, <2>6 DEF RedactionInv, RecordInv
<1>2. CASE WriteRecord
  BY <1>2 DEF WriteRecord, RedactionInv, RecordInv
<1>3. CASE WriteDump
  BY <1>3 DEF WriteDump, RedactionInv, RecordInv
<1>4. CASE UNCHANGED redactionVars
  BY <1>4 DEF redactionVars, RedactionInv, RecordInv, Redact, Scrub
<1> QED
  BY <1>1, <1>2, <1>3, <1>4 DEF RedactionNext

\* What it says of the text that was written last.
LEMMA RedactionInvHides ==
  ASSUME RedactionInv
  PROVE  FirstPartsStayInMemory
<1>1. RecordInv /\ record \in Seq(Pieces) /\ DOMAIN record = 1 .. Len(record)
  BY LenProperties DEF RedactionInv, RecordInv
<1>2. ASSUME NEW w \in 1 .. Len(record), Kind(w) = "word",
             \/ Announced(w) \/ InKeyBlock(w)
             \/ (written.file = "dump" /\ w > 1 /\ Kind(w - 1) = "home")
      PROVE  ~ Survives(w)
  <2>1. /\ KeyText \in Seq(Pieces) /\ PassOf("user", KeyText) \in Seq(Pieces)
        /\ Announced(w) \/ InKeyBlock(w) => Gone(KeyText, w)
        /\ \/ Announced(w) \/ InKeyBlock(w)
           \/ w > 1 /\ Kind(w - 1) = "home"
           => Gone(PassOf("user", KeyText), w)
    BY <1>1, <1>2, SecretsGone
  <2>2. ASSUME NEW t \in Seq(Pieces), written.text = t, Gone(t, w) PROVE ~ Survives(w)
    <3>1. DOMAIN t = 1 .. Len(t)
      BY LenProperties
    <3> QED
      BY <2>2, <3>1 DEF Survives, Gone
  <2>3. CASE written = [file |-> "none", text |-> <<>>]
    <3>1. PICK t \in Seq(Pieces) : t = <<>> /\ Len(t) = 0
      BY EmptySeq
    <3>2. Gone(t, w) /\ written.text = t
      BY <2>3, <3>1 DEF Gone
    <3> QED
      BY <2>2, <3>2
  <2>4. CASE written = [file |-> "log", text |-> Redact(record)]
    <3>1. written.text = KeyText /\ written.file = "log"
      BY <2>4, WrittenTexts
    <3>2. Gone(KeyText, w)
      BY <1>2, <2>1, <3>1
    <3> QED
      BY <2>1, <2>2, <3>1, <3>2
  <2>5. CASE written = [file |-> "dump", text |-> Scrub(record)]
    <3>1. written.text = PassOf("user", KeyText)
      BY <2>5, WrittenTexts
    <3>2. Gone(PassOf("user", KeyText), w)
      BY <1>2, <2>1
    <3> QED
      BY <2>1, <2>2, <3>1, <3>2
  <2> QED
    BY <2>3, <2>4, <2>5 DEF RedactionInv
<1> QED
  BY <1>1, <1>2 DEF FirstPartsStayInMemory

\* Whatever a record is made of, however long, no pass uncovers what another hides:
\* the first part of what a name announces, credentials, the body of a private key
\* and, in a dump, the first word of a user's name stay in memory (redaction.rs,
\* redact; crash_reporter.rs, scrub).
THEOREM FirstPartsAlwaysStayInMemory ==
  RedactionInit /\ [][RedactionNext]_redactionVars => []FirstPartsStayInMemory
<1>1. RedactionInit => RedactionInv
  <2> SUFFICES ASSUME RedactionInit PROVE RedactionInv
    OBVIOUS
  <2>1. record = <<>> /\ written = [file |-> "none", text |-> <<>>]
    BY DEF RedactionInit
  <2>2. record \in Seq(Pieces) /\ Len(record) = 0
    BY <2>1, EmptySeq
  <2>3. 1 .. Len(record) = {}
    BY <2>2
  <2> QED
    BY <2>1, <2>2, <2>3 DEF RedactionInv, RecordInv
<1>2. RedactionInv /\ [RedactionNext]_redactionVars => RedactionInv'
  BY RedactionStep
<1>3. RedactionInv => FirstPartsStayInMemory
  BY RedactionInvHides
<1> QED
  BY <1>1, <1>2, <1>3, PTL
=============================================================================
