----------------------------- MODULE LogRetention -----------------------------
(***************************************************************************)
(* The log directory over the runs of the program                          *)
(* (src-tauri/src/reliability): what a start sets up (mod.rs, commands.rs, *)
(* logging.rs), the file of the day the appender writes, and the sweep     *)
(* that deletes what the policy no longer wants (rotation.rs).             *)
(*                                                                         *)
(* A file is named by the day it was begun on; its age is counted in days  *)
(* from its last write, and is zero if that lies ahead of the clock.       *)
(***************************************************************************)
EXTENDS Integers, FiniteSets, FiniteSetsExt

CONSTANTS
  KeepFiles, \* RotationPolicy.keep_files
  MaxAge,    \* RotationPolicy.max_age, in days
  LastDay    \* bound: days

ASSUME RetentionAssumption ==
  KeepFiles \in Nat \ {0} /\ MaxAge \in Nat \ {0} /\ LastDay \in Nat

VARIABLES
  today,   \* the clock
  files,   \* the log files, by the day each was begun: the day of its last write
  active,  \* the file the appender has open
  running, \* "no", or what setup_reliability came to
  optIn,   \* ReliabilityState.crash_share_opt_in, which dumps quote
  stuck,   \* history: files the last sweep could not delete
  unreadable \* history: files whose entry the last sweep could not read

sweepVars == <<files, stuck, unreadable>>
retentionVars == <<today, active, running, optIn, sweepVars>>

Age(log, d) == IF log[d] > today THEN 0 ELSE today - log[d]

\* The first KeepFiles of the list, the newest in front.  Files of one age stay in
\* the order the directory lists them in, which may be any.
Newest(log) ==
  {kept \in SUBSET DOMAIN log :
     /\ Cardinality(kept) = Min({KeepFiles, Cardinality(DOMAIN log)})
     /\ \A k \in kept, d \in DOMAIN log \ kept : Age(log, k) <= Age(log, d)}

\* Mutant of PlanRetention: counted from the wrong end.
PlanRetentionReversed(log) ==
  {{d \in DOMAIN log : Age(log, d) >= MaxAge} \cup (DOMAIN log \ kept) :
     kept \in {k \in SUBSET DOMAIN log :
       /\ Cardinality(k) = Min({KeepFiles, Cardinality(DOMAIN log)})
       /\ \A x \in k, d \in DOMAIN log \ k : Age(log, x) >= Age(log, d)}}

\* plan_retention: what may be marked for deletion.
PlanRetention(log) ==
  {{d \in DOMAIN log : Age(log, d) >= MaxAge} \cup (DOMAIN log \ kept) :
     kept \in Newest(log)}

-----------------------------------------------------------------------------
RetentionInit ==
  /\ today = 0
  /\ files = <<>>
  /\ active = 0
  /\ running = "no"
  /\ optIn = FALSE
  /\ stuck = {}
  /\ unreadable = {}

\* init_logging: the appender opens, and perhaps creates, the file of the day.
WithToday ==
  [d \in DOMAIN files \cup {today} |-> IF d \in DOMAIN files THEN files[d] ELSE today]

\* scan_rotated: one entry that cannot be read ends the sweep before anything is
\* deleted.
ScanFails(log) ==
  /\ unreadable' \in (SUBSET DOMAIN log) \ {{}}
  /\ stuck' = {}
  /\ files' = log

\* A file that cannot be deleted stays, and the sweep goes on.
Sweep(log) ==
  /\ unreadable' = {}
  /\ \E doomed \in PlanRetention(log) :
       \E failed \in SUBSET doomed :
         /\ stuck' = failed
         /\ files' = [d \in DOMAIN log \ (doomed \ failed) |-> log[d]]

\* apply_retention
ApplyRetention(log) == ScanFails(log) \/ Sweep(log)

\* init_reliability: logging, the sweep, the panic hook; no consent yet.
SetupReliability ==
  /\ running = "no"
  /\ running' = "logging"
  /\ active' = today
  /\ optIn' = FALSE
  /\ ApplyRetention(WithToday)
  /\ UNCHANGED <<today>>

\* No directory, or none that can be made: the program runs without all three.
SetupFails ==
  /\ running = "no"
  /\ running' = "without"
  /\ UNCHANGED <<today, active, optIn, sweepVars>>

\* The appender begins another file when the day is over; what it writes to a
\* file that was deleted under it is lost.
WriteLog ==
  /\ running = "logging"
  /\ active' = IF today > active THEN today ELSE active
  /\ files' = IF today > active THEN WithToday
              ELSE [d \in DOMAIN files |-> IF d = active THEN today ELSE files[d]]
  /\ UNCHANGED <<today, running, optIn, stuck, unreadable>>

\* reliability_crash_optin
CrashOptIn(enabled) ==
  /\ running = "logging"
  /\ optIn' = enabled
  /\ UNCHANGED <<today, active, running, sweepVars>>

Quit ==
  /\ running # "no"
  /\ running' = "no"
  /\ UNCHANGED <<today, active, optIn, sweepVars>>

\* Days pass, and a clock may be set back.
ClockMoves ==
  /\ \/ today < LastDay /\ today' = today + 1
     \/ today > 0 /\ today' = today - 1
  /\ UNCHANGED <<active, running, optIn, sweepVars>>

RetentionNext ==
  \/ SetupReliability \/ SetupFails \/ WriteLog \/ Quit \/ ClockMoves
  \/ \E enabled \in BOOLEAN : CrashOptIn(enabled)

-----------------------------------------------------------------------------
\* After a sweep that could read the directory no more files are left than the
\* policy wants and none too old, but for those that could not be deleted; what any
\* sweep took was too old, or enough files no older than it stayed in its place; and
\* the file about to be written stays, unless a clock that was set back makes others
\* look as new or it too old (rotation.rs, plan_retention and apply_retention).
SweepKeepsTheNewest ==
  [][SetupReliability =>
       LET before == WithToday
           left == DOMAIN files' \ stuck'
           noOlder(d) == {e \in DOMAIN before \ {d} : Age(before, e) <= Age(before, d)}
       IN /\ unreadable' = {} =>
               Cardinality(left) <= KeepFiles /\ \A d \in left : Age(before, d) < MaxAge
          /\ \A d \in DOMAIN before \ DOMAIN files' :
               \/ Age(before, d) >= MaxAge
               \/ Cardinality(noOlder(d) \cap DOMAIN files') >= KeepFiles
          /\ Cardinality(noOlder(today)) < KeepFiles /\ Age(before, today) < MaxAge
               => today \in DOMAIN files']_retentionVars
=============================================================================
