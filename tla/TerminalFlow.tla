----------------------------- MODULE TerminalFlow -----------------------------
(***************************************************************************)
(* The PTY pipeline driven by the terminals of the frontend: the           *)
(* TerminalSession of src/terminal/xterm-wrapper.ts with its               *)
(* BackpressureController (backpressure.ts) on one side, PtyPipeline on    *)
(* the other, the Tauri bridge between them.                               *)
(*                                                                         *)
(* The n-th session to open makes the n-th spawn attempt, so sessions and  *)
(* incarnations share their numbers.  Requests (invoke) reach the main     *)
(* thread in the order they were made; output messages reach a session in  *)
(* the order its sink received them, some time later.                      *)
(***************************************************************************)
EXTENDS PtyPipeline, Integers

CONSTANTS
  High,   \* highWaterMark, in chunks
  Low     \* lowWaterMark, in chunks

ASSUME WaterMarks == High \in Nat /\ Low \in Nat /\ Low < High

VARIABLES
  ipc,          \* requests on their way to the main thread
  sessionPane,  \* the pane id of each session
  stage,        \* "none", "open", "closing" (pty_kill awaited) or "disposed"
  seen,         \* messages of the session's channel handled so far
  outstanding,  \* BackpressureController.outstanding
  paused,       \* BackpressureController.paused
  closed        \* TerminalSession.closed

uiVars == <<sessionPane, stage, seen, outstanding, paused, closed>>
allVars == <<vars, ipc, uiVars>>

Requests == [op : {"spawn", "pause", "resume", "kill"}, session : Incs]
Request(op, i) == [op |-> op, session |-> i]

FlowInit ==
  /\ Init
  /\ ipc = <<>>
  /\ sessionPane = [i \in Incs |-> NoPane]
  /\ stage = [i \in Incs |-> "none"]
  /\ seen = [i \in Incs |-> 0]
  /\ outstanding = [i \in Incs |-> 0]
  /\ paused = [i \in Incs |-> FALSE]
  /\ closed = [i \in Incs |-> FALSE]

-----------------------------------------------------------------------------
(* The frontend.                                                           *)

\* new TerminalSession(p) followed by its spawn().
Open(i, p) ==
  /\ stage[i] = "none"
  /\ \A j \in Incs : j < i => stage[j] # "none"
  /\ stage' = [stage EXCEPT ![i] = "open"]
  /\ sessionPane' = [sessionPane EXCEPT ![i] = p]
  /\ ipc' = Append(ipc, Request("spawn", i))
  /\ UNCHANGED <<vars, seen, outstanding, paused, closed>>

HasMessage(i) == seen[i] < Len(sent[i])
Message(i) == sent[i][seen[i] + 1]

\* handleOutput for a batch: term.write, then onWritten, which asks for a
\* pause when the count reaches the high-water mark.
OnOutput(i) ==
  /\ stage[i] \in {"open", "closing"}
  /\ HasMessage(i)
  /\ Message(i) # Eof
  /\ seen' = [seen EXCEPT ![i] = @ + 1]
  /\ outstanding' = [outstanding EXCEPT ![i] = @ + 1]
  /\ LET trip == ~paused[i] /\ outstanding[i] + 1 >= High IN
       /\ paused' = [paused EXCEPT ![i] = @ \/ trip]
       /\ ipc' = IF trip THEN Append(ipc, Request("pause", i)) ELSE ipc
  /\ UNCHANGED <<vars, sessionPane, stage, closed>>

\* handleOutput for the empty batch.
OnEndOfOutput(i) ==
  /\ stage[i] \in {"open", "closing"}
  /\ HasMessage(i)
  /\ Message(i) = Eof
  /\ seen' = [seen EXCEPT ![i] = @ + 1]
  /\ closed' = [closed EXCEPT ![i] = TRUE]
  /\ UNCHANGED <<vars, ipc, sessionPane, stage, outstanding, paused>>

\* Mutant: the flag is cleared at the low-water mark and nobody is told.
OnFlushedSilent(i) ==
  /\ stage[i] \in {"open", "closing"}
  /\ outstanding[i] > 0
  /\ outstanding' = [outstanding EXCEPT ![i] = @ - 1]
  /\ paused' = [paused EXCEPT ![i] = @ /\ ~(outstanding[i] - 1 <= Low)]
  /\ UNCHANGED <<vars, ipc, sessionPane, stage, seen, closed>>

\* xterm calls back for the oldest batch it still held: onFlushed, which asks
\* for a resume when the count is down at the low-water mark.
OnFlushed(i) ==
  /\ stage[i] \in {"open", "closing"}
  /\ outstanding[i] > 0
  /\ outstanding' = [outstanding EXCEPT ![i] = @ - 1]
  /\ LET release == paused[i] /\ outstanding[i] - 1 <= Low IN
       /\ paused' = [paused EXCEPT ![i] = @ /\ ~release]
       /\ ipc' = IF release THEN Append(ipc, Request("resume", i)) ELSE ipc
  /\ UNCHANGED <<vars, sessionPane, stage, seen, closed>>

\* dispose() up to the await of pty_kill.
Dispose(i) ==
  /\ stage[i] = "open"
  /\ stage' = [stage EXCEPT ![i] = "closing"]
  /\ ipc' = Append(ipc, Request("kill", i))
  /\ UNCHANGED <<vars, sessionPane, seen, outstanding, paused, closed>>

\* The kill has been answered, with a result or an error: the terminal goes,
\* and with it every callback it still owed.
DisposeTerminal(i) ==
  /\ stage[i] = "closing"
  /\ \A k \in DOMAIN ipc : ipc[k] # Request("kill", i)
  /\ cmd.at \notin {"unhook", "killChild"}
  /\ stage' = [stage EXCEPT ![i] = "disposed"]
  /\ UNCHANGED <<vars, ipc, sessionPane, seen, outstanding, paused, closed>>

-----------------------------------------------------------------------------
(* The main thread takes the oldest request.  All but the spawn look the   *)
(* pane id up in PtyManager.panes and fail, without effect, if it is not   *)
(* there; the pane id is all a request carries.                            *)

Take(op) ==
  /\ cmd.at = "idle"
  /\ ipc # <<>>
  /\ Head(ipc).op = op
  /\ ipc' = Tail(ipc)
  /\ UNCHANGED uiVars

Target == sessionPane[Head(ipc).session]

\* Mutant: pty_resume stores the same value as pty_pause.
ServeResumeAsPause == Take("resume") /\ SetPause(Target, TRUE)

ServeSpawn  == Take("spawn") /\ SpawnRegister(Target)
ServeKill   == Take("kill") /\ KillTake(Target)
ServePause  == Take("pause") /\ SetPause(Target, TRUE)
ServeResume == Take("resume") /\ SetPause(Target, FALSE)

ServeUnknown ==
  /\ \E op \in {"kill", "pause", "resume"} : Take(op)
  /\ handle[Target] = 0
  /\ UNCHANGED vars

Serve == ServeSpawn \/ ServeKill \/ ServePause \/ ServeResume \/ ServeUnknown

-----------------------------------------------------------------------------
\* A step of a command in progress, a shell, a reader, the flusher or the clock.
Backend ==
  /\ \/ CommandStep
     \/ FlushTick
     \/ \E p \in Panes : WindowElapses(p)
     \/ \E i \in Incs : \/ ShellWrite(i) \/ ShellExit(i)
                        \/ ReaderRead(i) \/ ReaderInterrupted(i) \/ ReaderStep(i)
  /\ UNCHANGED <<ipc, uiVars>>

FlowNext ==
  \/ \E i \in Incs : \/ \E p \in Panes : Open(i, p)
                     \/ OnOutput(i) \/ OnEndOfOutput(i) \/ OnFlushed(i)
                     \/ Dispose(i) \/ DisposeTerminal(i)
  \/ Serve
  \/ Backend

FlowSpec == FlowInit /\ [][FlowNext]_allVars

\* The backend's threads run (see PtyPipeline), the main thread serves, the
\* event loop delivers messages and xterm renders.  Nobody has to open or
\* dispose a terminal, and no shell has to write or exit.
FlowFairness ==
  /\ WF_allVars(CommandStep /\ UNCHANGED <<ipc, uiVars>>)
  /\ WF_allVars(FlushTick /\ UNCHANGED <<ipc, uiVars>>)
  /\ WF_allVars(Serve)
  /\ \A p \in Panes : WF_allVars(WindowElapses(p) /\ UNCHANGED <<ipc, uiVars>>)
  /\ \A i \in Incs :
       /\ WF_allVars(ReaderStep(i) /\ UNCHANGED <<ipc, uiVars>>)
       /\ SF_allVars(ReaderRead(i) /\ UNCHANGED <<ipc, uiVars>>)
       /\ WF_allVars(shell[i] = "dying" /\ ShellExit(i) /\ UNCHANGED <<ipc, uiVars>>)
       /\ WF_allVars(OnOutput(i) \/ OnEndOfOutput(i))
       /\ WF_allVars(OnFlushed(i))
       /\ WF_allVars(DisposeTerminal(i))

FairFlowSpec == FlowSpec /\ FlowFairness

-----------------------------------------------------------------------------
(* Properties.                                                             *)

\* Every variable of the frontend and the bridge has its type.
FlowTypeOK ==
  /\ ipc \in Seq(Requests)
  /\ sessionPane \in [Incs -> Panes \cup {NoPane}]
  /\ stage \in [Incs -> {"none", "open", "closing", "disposed"}]
  /\ seen \in [Incs -> Nat]
  /\ outstanding \in [Incs -> Nat]
  /\ paused \in [Incs -> BOOLEAN]
  /\ closed \in [Incs -> BOOLEAN]

\* No other session uses the pane id of session i.
OwnPane(i) == \A j \in Incs \ {i} : sessionPane[j] # sessionPane[i]

Pending(i, ops) == \E k \in DOMAIN ipc : ipc[k].session = i /\ ipc[k].op \in ops

\* The frontend's idea of "paused" and the flag the reader looks at agree
\* whenever no request that changes it is on its way: a pane with a session of
\* its own is never left reading when the terminal is flooded, nor parked when
\* the terminal has drained.
PauseAgrees ==
  \A i \in Incs : \A p \in Panes :
    (handle[p] = i /\ OwnPane(i) /\ ~Pending(i, {"pause", "resume"}))
      => pause[i] = paused[i]

\* The state keeps its type and the two flags agree.
BackpressureSound == FlowTypeOK /\ PauseAgrees

\* Backpressure lets go: a session that stays open and has its pane id to
\* itself shows every chunk its shell wrote, however often it was paused.
EveryChunkRendered ==
  \A i \in Incs : \A k \in 1..MaxOut :
    (stage[i] = "open" /\ written[i] >= k)
      ~> (\/ seen[i] - outstanding[i] >= k
          \/ stage[i] # "open" \/ ~OwnPane(i) \/ reader[i] = "none")

\* An exit of the shell reaches the user: a session that stays open and has its
\* pane id to itself learns that its shell has ended.
ExitReported ==
  \A i \in Incs :
    (stage[i] = "open" /\ shell[i] = "exited")
      ~> (closed[i] \/ stage[i] # "open" \/ ~OwnPane(i) \/ reader[i] = "none")

\* reader.rs says of the reader loop: "On EOF it signals `on_eof` and exits,
\* freeing its pool slot"; the shell of a disposed terminal is killed, so its
\* reader comes to that end.
DisposeFreesSlot ==
  \A i \in Incs : (stage[i] = "disposed" /\ HasReader(i)) ~> (reader[i] = "done")
=============================================================================
