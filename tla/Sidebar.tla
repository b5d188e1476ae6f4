-------------------------------- MODULE Sidebar --------------------------------
(***************************************************************************)
(* What the rows of the sidebar show beside their names (src-tauri/src/    *)
(* sidebar): reports pushed for a panel (report_receiver.rs, mod.rs), the  *)
(* session's own store of what the model has no field for (state.rs), its  *)
(* overlay on a snapshot (snapshot_enrich.rs), and the two scans the user  *)
(* may turn on (port_scanner.rs, git_probe.rs, commands.rs).               *)
(*                                                                         *)
(* The program does not call receive_report, forget_panel or a scan yet;   *)
(* whoever will is modelled as an environment that calls them in any       *)
(* order.  A line of log is its number, a directory what the probe finds.  *)
(***************************************************************************)
EXTENDS Integers, Sequences, SequencesExt, FiniteSets

CONSTANTS
  Workspaces,
  Panels,
  Values,     \* what a report may say
  ScanOutput, \* what the tools may print: sequences of [tool, listening, port]
  Checkouts,  \* directories: [git, head, changed]
  LogTailMax, \* state.rs:27
  MaxLines,   \* bound: lines logged for a panel
  Unset

ASSUME SidebarAssumption ==
  LogTailMax \in Nat \ {0} /\ MaxLines \in Nat /\ Unset \notin Panels

VARIABLES
  store,     \* the workspaces: the focused panel and three maps by panel
  transient, \* SidebarState.transient: status, progress, log_tail by panel
  enabled,   \* the toggles that are on
  capture,   \* the output of a scan on its way to the parser
  reported   \* history: per panel, the last progress and the lines logged

sidebarVars == <<store, transient, enabled, capture, reported>>

NoMeta == [status |-> Unset, progress |-> Unset, log_tail |-> <<>>]
Emptied == [focused |-> Unset, branches |-> <<>>, pulls |-> <<>>, ports |-> <<>>]
NoCapture == [scan |-> "none"]
Silent == [progress |-> Unset, lines |-> 0]

\* HashMap::insert
Insert(map, k, v) == [x \in DOMAIN map \cup {k} |-> IF x = k THEN v ELSE map[x]]
Entry(p) == IF p \in DOMAIN transient THEN transient[p] ELSE NoMeta

-----------------------------------------------------------------------------
(* Reports.                                                                *)

Reports == [kind : {"git_branch", "pr", "ports", "status", "progress"}, value : Values]
             \cup {[kind |-> "log"]}

\* apply_report: the three maps a workspace has.
Stored(w, p, r) ==
  CASE r.kind = "git_branch" -> [store EXCEPT ![w].branches = Insert(@, p, r.value)]
    [] r.kind = "pr" -> [store EXCEPT ![w].pulls = Insert(@, p, r.value)]
    [] OTHER -> [store EXCEPT ![w].ports = Insert(@, p, r.value)]
ModelBacked == {"git_branch", "pr", "ports"}

\* Mutant of Logged: the tail keeps its beginning.
LoggedHead(meta, line) ==
  IF Len(meta.log_tail) = LogTailMax THEN meta
  ELSE [meta EXCEPT !.log_tail = Append(@, line)]

Logged(meta, line) ==
  LET tail == Append(meta.log_tail, line)
      overflow == Len(tail) - LogTailMax
  IN [meta EXCEPT !.log_tail = IF overflow > 0 THEN SubSeq(tail, overflow + 1, Len(tail))
                               ELSE tail]

\* Mutant of Recorded: what a panel has said stays.
RecordedKeepsFirst(p, r) ==
  CASE r.kind = "status" -> [Entry(p) EXCEPT !.status = IF @ = Unset THEN r.value ELSE @]
    [] r.kind = "progress" -> [Entry(p) EXCEPT !.progress = IF @ = Unset THEN r.value ELSE @]
    [] OTHER -> Logged(Entry(p), reported[p].lines + 1)

\* record_transient
Recorded(p, r) ==
  CASE r.kind = "status" -> [Entry(p) EXCEPT !.status = r.value]
    [] r.kind = "progress" -> [Entry(p) EXCEPT !.progress = r.value]
    [] OTHER -> Logged(Entry(p), reported[p].lines + 1)

\* receive_report.  The workspace has to be known; the panel is not looked up.
ReceiveReport(w, p, r) ==
  \/ w \notin DOMAIN store /\ UNCHANGED <<store, transient, reported>>
  \/ /\ w \in DOMAIN store
     /\ r.kind \in ModelBacked
     /\ store' = Stored(w, p, r)
     /\ UNCHANGED <<transient, reported>>
  \/ /\ w \in DOMAIN store
     /\ r.kind \notin ModelBacked
     /\ transient' = Insert(transient, p, Recorded(p, r))
     /\ reported' = [reported EXCEPT
          ![p].progress = IF r.kind = "progress" THEN r.value ELSE @,
          ![p].lines = IF r.kind = "log" THEN @ + 1 ELSE @]
     /\ UNCHANGED store

Report(w, p, r) ==
  /\ r.kind = "log" => reported[p].lines < MaxLines
  /\ ReceiveReport(w, p, r)
  /\ UNCHANGED <<enabled, capture>>

\* forget_panel
ForgetPanel(p) ==
  /\ p \in DOMAIN transient
  /\ transient' = [x \in DOMAIN transient \ {p} |-> transient[x]]
  /\ reported' = [reported EXCEPT ![p] = Silent]
  /\ UNCHANGED <<store, enabled, capture>>

-----------------------------------------------------------------------------
(* Scans.                                                                  *)

\* port_after_last_colon: zero is no port.
Ports(source, output) ==
  {output[i].port : i \in {k \in DOMAIN output :
     output[k].tool = source /\ output[k].listening /\ output[k].port # 0}}

\* parse_scan, coalesce: sorted, each port once.
ParseScan(source, output) == SetToSortSeq(Ports(source, output), <)

\* resolve_git_dir: a directory, or a file that points to one.
ResolveGitDir(dir) == dir.git \in {"directory", "pointer"}

\* parse_head: a branch, another reference, or the head of a commit's name.
ParseHead(dir) == ResolveGitDir(dir) /\ dir.head \notin {"empty", "missing"}

\* GitSummary::summary
Summary(dir) == <<dir.head, dir.changed>>

\* probe: what there is to store of a directory, one value or none.
Probe(dir) == IF ParseHead(dir) THEN {Summary(dir)} ELSE {}

\* The runner spawns a tool only while its toggle is on.
Capture(scan, w, p, output) ==
  /\ capture = NoCapture
  /\ scan \in enabled
  /\ capture' = [scan |-> scan, workspace |-> w, panel |-> p, output |-> output]
  /\ UNCHANGED <<store, transient, enabled, reported>>

\* parse_scan_gated and probe_gated look at the toggle again.
StoreScan ==
  /\ capture # NoCapture
  /\ capture' = NoCapture
  /\ LET found(kind, value) ==
           ReceiveReport(capture.workspace, capture.panel, [kind |-> kind, value |-> value])
     IN \/ /\ capture.scan = "ports" /\ "ports" \in enabled
           /\ \E source \in {"lsof", "ss", "netstat"} :
                found("ports", ParseScan(source, capture.output))
        \/ /\ capture.scan = "git" /\ "git" \in enabled
           /\ \E summary \in Probe(capture.output) : found("git_branch", summary)
        \/ /\ \/ capture.scan \notin enabled
              \/ capture.scan = "git" /\ Probe(capture.output) = {}
           /\ UNCHANGED <<store, transient, reported>>
  /\ UNCHANGED enabled

\* SidebarState::set_port_scan, set_git_watch
Toggled(scan, on) == IF on THEN enabled \cup {scan} ELSE enabled \ {scan}

\* sidebar_set_port_scan, sidebar_set_git_watch
SetToggle(scan, on) ==
  /\ enabled' = Toggled(scan, on)
  /\ UNCHANGED <<store, transient, capture, reported>>

-----------------------------------------------------------------------------
(* Snapshots: workspaces come, go and are looked at elsewhere.             *)

\* overlay_transient, over a snapshot that says nothing of progress.
Overlay(w) ==
  LET p == store[w].focused IN
  IF p \in DOMAIN transient THEN transient[p].progress ELSE Unset

SidebarInit ==
  /\ store = [w \in Workspaces |-> Emptied]
  /\ transient = <<>>
  /\ enabled = {}
  /\ capture = NoCapture
  /\ reported = [p \in Panels |-> Silent]

Focus(w, p) ==
  /\ w \in DOMAIN store
  /\ store' = [store EXCEPT ![w].focused = p]
  /\ UNCHANGED <<transient, enabled, capture, reported>>

RemoveWorkspace(w) ==
  /\ w \in DOMAIN store
  /\ store' = [x \in DOMAIN store \ {w} |-> store[x]]
  /\ UNCHANGED <<transient, enabled, capture, reported>>

SidebarNext ==
  \/ \E w \in Workspaces, p \in Panels :
       \/ Focus(w, p)
       \/ \E r \in Reports : Report(w, p, r)
       \/ \E output \in ScanOutput : Capture("ports", w, p, output)
       \/ \E dir \in Checkouts : Capture("git", w, p, dir)
  \/ \E w \in Workspaces : RemoveWorkspace(w)
  \/ \E p \in Panels : ForgetPanel(p)
  \/ \E scan \in {"ports", "git"}, on \in BOOLEAN : SetToggle(scan, on)
  \/ StoreScan

-----------------------------------------------------------------------------
\* A row shows the last progress reported for the panel that is in front, by
\* whatever order reports, focus and forgetting came; a panel's tail of log is
\* its last lines, in order, and no more than the cap (snapshot_enrich.rs,
\* overlay_transient; state.rs, record_transient).
RowsShowTheLatest ==
  /\ \A w \in DOMAIN store :
       Overlay(w) = IF store[w].focused = Unset THEN Unset
                    ELSE reported[store[w].focused].progress
  /\ \A p \in DOMAIN transient :
       LET n == reported[p].lines
           kept == IF n < LogTailMax THEN n ELSE LogTailMax
       IN transient[p].log_tail = [i \in 1 .. kept |-> n - kept + i]
=============================================================================
