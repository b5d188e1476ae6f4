----------------------------- MODULE PtyPipeline -----------------------------
(***************************************************************************)
(* The PTY output pipeline of src-tauri/src/pty: PtyManager (mod.rs), the  *)
(* bounded pool of reader threads (reader.rs) and the coalescing hub with  *)
(* its flusher thread (coalescer.rs).                                      *)
(*                                                                         *)
(* Three kinds of thread interleave.  The main thread runs the pty_*       *)
(* commands one at a time, but a command takes its locks one after the     *)
(* other, so it is a sequence of steps.  Every admitted spawn has a reader *)
(* thread.  One flusher thread drains the hub.  A spawn attempt is an      *)
(* "incarnation", numbered from 1: pane ids are chosen by the frontend and *)
(* may be used again while an older incarnation is still winding down.     *)
(***************************************************************************)
EXTENDS Naturals, Sequences, FiniteSets

CONSTANTS
  Panes,      \* the pane ids the frontend uses
  NoPane,     \* not a pane id
  Eof,        \* the empty payload that tells the frontend "shell closed"
  Cap,        \* ReaderPool.cap
  SizeCap,    \* CoalescerHub.size_cap, in chunks
  PipeCap,    \* how many unread chunks the OS pipe holds
  MaxSpawns,  \* bound: spawn attempts in a behaviour
  MaxOut      \* bound: chunks one shell writes

ASSUME ConstantsAssumption ==
  /\ NoPane \notin Panes
  /\ Cap \in Nat /\ SizeCap \in Nat \ {0} /\ PipeCap \in Nat \ {0}
  /\ MaxSpawns \in Nat /\ MaxOut \in Nat

Incs == 1..MaxSpawns
Chunk == Incs \X (1..MaxOut)        \* <<i, k>>: the k-th chunk shell i wrote

ASSUME EofAssumption == Eof \notin Chunk

VARIABLES
  cmd,      \* the command on the main thread and where it stands
  spawned,  \* number of spawn attempts so far
  paneOf,   \* the pane id of each incarnation
  handle,   \* PtyManager.panes: the incarnation that owns the entry, or 0
  pause,    \* the pause flag of each incarnation
  active,   \* ReaderPool.active
  reader,   \* where each reader thread stands
  hub,      \* CoalescerHub.panes
  shell,    \* the child process of each incarnation
  written,  \* chunks shell i has written to its PTY
  taken,    \* chunks reader i has read from the PTY
  sent,     \* what the sink of each incarnation has received
  overlap   \* history: incarnations whose pane had another live reader

mainVars == <<cmd, spawned, paneOf, handle>>
readVars == <<active, reader, taken>>
vars == <<cmd, spawned, paneOf, handle, pause, active, reader, hub, shell,
          written, taken, sent, overlap>>

CmdStates == {"idle", "admit", "unregister", "insert", "unhook", "killChild"}
ReaderStates == {"none", "check", "read", "data", "eof", "release", "done"}
ShellStates == {"none", "running", "dying", "exited"}
Entry == [sink : 0..MaxSpawns, buf : Seq(Chunk), closed : BOOLEAN, aged : BOOLEAN]

Idle == [at |-> "idle", pane |-> NoPane, inc |-> 0]
NoEntry == [sink |-> 0, buf |-> <<>>, closed |-> FALSE, aged |-> FALSE]
FreshEntry(i) == [sink |-> i, buf |-> <<>>, closed |-> FALSE, aged |-> FALSE]

HasReader(i) == reader[i] \notin {"none", "done"}
LiveReaders == {i \in Incs : HasReader(i)}

Init ==
  /\ cmd = Idle
  /\ spawned = 0
  /\ paneOf = [i \in Incs |-> NoPane]
  /\ handle = [p \in Panes |-> 0]
  /\ pause = [i \in Incs |-> FALSE]
  /\ active = {}
  /\ reader = [i \in Incs |-> "none"]
  /\ hub = [p \in Panes |-> NoEntry]
  /\ shell = [i \in Incs |-> "none"]
  /\ written = [i \in Incs |-> 0]
  /\ taken = [i \in Incs |-> 0]
  /\ sent = [i \in Incs |-> <<>>]
  /\ overlap = {}

-----------------------------------------------------------------------------
(* The main thread: pty_spawn, pty_kill, pty_pause and pty_resume.         *)

\* pty_spawn up to the registration of the sink.  A failure before that line
\* (openpty, spawn_command) returns without a trace in this state.
SpawnRegister(p) ==
  LET i == spawned + 1 IN
  /\ cmd.at = "idle"
  /\ spawned < MaxSpawns
  /\ spawned' = i
  /\ paneOf' = [paneOf EXCEPT ![i] = p]
  /\ shell' = [shell EXCEPT ![i] = "running"]
  /\ hub' = [hub EXCEPT ![p] = FreshEntry(i)]
  /\ cmd' = [at |-> "admit", pane |-> p, inc |-> i]
  /\ overlap' = IF p \in active
                THEN overlap \cup {i} \cup {j \in LiveReaders : paneOf[j] = p}
                ELSE overlap
  /\ UNCHANGED <<handle, pause, active, reader, written, taken, sent>>

CanAdmit(p) == Cardinality(active) < Cap /\ p \notin active

\* try_admit succeeds and the reader thread starts.
SpawnAdmit ==
  /\ cmd.at = "admit"
  /\ CanAdmit(cmd.pane)
  /\ active' = active \cup {cmd.pane}
  /\ reader' = [reader EXCEPT ![cmd.inc] = "check"]
  /\ cmd' = [cmd EXCEPT !.at = "insert"]
  /\ UNCHANGED <<spawned, paneOf, handle, pause, hub, shell, written, taken,
                 sent, overlap>>

\* try_admit refuses: at capacity, or the pane id already has a reader.
SpawnReject ==
  /\ cmd.at = "admit"
  /\ ~CanAdmit(cmd.pane)
  /\ cmd' = [cmd EXCEPT !.at = "unregister"]
  /\ UNCHANGED <<spawned, paneOf, handle, pause, active, reader, hub, shell,
                 written, taken, sent, overlap>>

\* The error path: the hub entry of the pane id goes, the master side of the
\* new PTY is dropped, which hangs the new shell up.
SpawnUnregister ==
  /\ cmd.at = "unregister"
  /\ hub' = [hub EXCEPT ![cmd.pane] = NoEntry]
  /\ shell' = [shell EXCEPT ![cmd.inc] = IF @ = "running" THEN "dying" ELSE @]
  /\ cmd' = Idle
  /\ UNCHANGED <<spawned, paneOf, handle, pause, active, reader, written,
                 taken, sent, overlap>>

SpawnInsert ==
  /\ cmd.at = "insert"
  /\ handle' = [handle EXCEPT ![cmd.pane] = cmd.inc]
  /\ cmd' = Idle
  /\ UNCHANGED <<spawned, paneOf, pause, active, reader, hub, shell, written,
                 taken, sent, overlap>>

\* pty_kill in its three steps.  Without a handle it only returns an error.
KillTake(p) ==
  /\ cmd.at = "idle"
  /\ handle[p] # 0
  /\ handle' = [handle EXCEPT ![p] = 0]
  /\ cmd' = [at |-> "unhook", pane |-> p, inc |-> handle[p]]
  /\ UNCHANGED <<spawned, paneOf, pause, active, reader, hub, shell, written,
                 taken, sent, overlap>>

\* Mutant: kill gives the pool slot back while the reader thread still runs.
KillUnhookReleases ==
  /\ cmd.at = "unhook"
  /\ hub' = [hub EXCEPT ![cmd.pane] = NoEntry]
  /\ active' = active \ {cmd.pane}
  /\ cmd' = [cmd EXCEPT !.at = "killChild"]
  /\ UNCHANGED <<spawned, paneOf, handle, pause, reader, shell, written, taken,
                 sent, overlap>>

KillUnhook ==
  /\ cmd.at = "unhook"
  /\ hub' = [hub EXCEPT ![cmd.pane] = NoEntry]
  /\ cmd' = [cmd EXCEPT !.at = "killChild"]
  /\ UNCHANGED <<spawned, paneOf, handle, pause, active, reader, shell,
                 written, taken, sent, overlap>>

KillChild ==
  /\ cmd.at = "killChild"
  /\ shell' = [shell EXCEPT ![cmd.inc] = IF @ = "running" THEN "dying" ELSE @]
  /\ cmd' = Idle
  /\ UNCHANGED <<spawned, paneOf, handle, pause, active, reader, hub, written,
                 taken, sent, overlap>>

\* pty_pause (value = TRUE) and pty_resume (FALSE): the flag of the handle.
SetPause(p, value) ==
  /\ cmd.at = "idle"
  /\ handle[p] # 0
  /\ pause' = [pause EXCEPT ![handle[p]] = value]
  /\ UNCHANGED <<cmd, spawned, paneOf, handle, active, reader, hub, shell,
                 written, taken, sent, overlap>>

CommandStep == SpawnAdmit \/ SpawnReject \/ SpawnUnregister \/ SpawnInsert
               \/ KillUnhook \/ KillChild

-----------------------------------------------------------------------------
(* The shells, outside the program: they write while the pipe has room,    *)
(* and exit on their own or some time after they were told to.             *)

ShellAlive(i) == shell[i] \in {"running", "dying"}

ShellWrite(i) ==
  /\ ShellAlive(i)
  /\ written[i] < MaxOut
  /\ written[i] - taken[i] < PipeCap
  /\ written' = [written EXCEPT ![i] = @ + 1]
  /\ UNCHANGED <<mainVars, readVars, pause, hub, shell, sent, overlap>>

ShellExit(i) ==
  /\ ShellAlive(i)
  /\ shell' = [shell EXCEPT ![i] = "exited"]
  /\ UNCHANGED <<mainVars, readVars, pause, hub, written, sent, overlap>>

-----------------------------------------------------------------------------
(* The reader thread of incarnation i: read_loop, then release.            *)

\* One look at the pause flag; while it is set the thread sleeps and looks
\* again, which changes nothing here.
ReaderCheck(i) ==
  /\ reader[i] = "check"
  /\ ~pause[i]
  /\ reader' = [reader EXCEPT ![i] = "read"]
  /\ UNCHANGED <<mainVars, pause, active, hub, shell, written, taken, sent,
                 overlap>>

ReaderReadChunk(i) ==
  /\ reader[i] = "read"
  /\ taken[i] < written[i]
  /\ taken' = [taken EXCEPT ![i] = @ + 1]
  /\ reader' = [reader EXCEPT ![i] = "data"]
  /\ UNCHANGED <<mainVars, pause, active, hub, shell, written, sent, overlap>>

\* Mutant: the hang-up error is retried like an interrupted call.
ReaderRetriesHangup(i) ==
  /\ reader[i] = "read"
  /\ taken[i] = written[i]
  /\ shell[i] = "exited"
  /\ reader' = [reader EXCEPT ![i] = "check"]
  /\ UNCHANGED <<mainVars, pause, active, hub, shell, written, taken, sent,
                 overlap>>

\* read() returns Ok(0), or the error a hung-up PTY gives: same branch body.
ReaderReadEof(i) ==
  /\ reader[i] = "read"
  /\ taken[i] = written[i]
  /\ shell[i] = "exited"
  /\ reader' = [reader EXCEPT ![i] = "eof"]
  /\ UNCHANGED <<mainVars, pause, active, hub, shell, written, taken, sent,
                 overlap>>

\* A signal interrupts read(): around the loop, through the flag check again.
ReaderInterrupted(i) ==
  /\ reader[i] = "read"
  /\ reader' = [reader EXCEPT ![i] = "check"]
  /\ UNCHANGED <<mainVars, pause, active, hub, shell, written, taken, sent,
                 overlap>>

Push(e, c) == [e EXCEPT !.buf = Append(@, c),
                        !.aged = IF e.buf = <<>> THEN FALSE ELSE @]

\* CoalescerHub::on_data finds the entry by pane id; without one the chunk
\* is dropped.
ReaderOnData(i) ==
  LET p == paneOf[i] IN
  /\ reader[i] = "data"
  /\ reader' = [reader EXCEPT ![i] = "check"]
  /\ hub' = IF hub[p].sink = 0 THEN hub
            ELSE [hub EXCEPT ![p] = Push(@, <<i, taken[i]>>)]
  /\ UNCHANGED <<mainVars, pause, active, shell, written, taken, sent, overlap>>

ReaderOnEof(i) ==
  LET p == paneOf[i] IN
  /\ reader[i] = "eof"
  /\ reader' = [reader EXCEPT ![i] = "release"]
  /\ hub' = IF hub[p].sink = 0 THEN hub
            ELSE [hub EXCEPT ![p].closed = TRUE]
  /\ UNCHANGED <<mainVars, pause, active, shell, written, taken, sent, overlap>>

ReaderRelease(i) ==
  /\ reader[i] = "release"
  /\ active' = active \ {paneOf[i]}
  /\ reader' = [reader EXCEPT ![i] = "done"]
  /\ UNCHANGED <<mainVars, pause, hub, shell, written, taken, sent, overlap>>

ReaderRead(i) == ReaderReadChunk(i) \/ ReaderReadEof(i)
ReaderStep(i) == ReaderCheck(i) \/ ReaderOnData(i) \/ ReaderOnEof(i)
                 \/ ReaderRelease(i)

-----------------------------------------------------------------------------
(* The flusher thread and the coalescing window.                           *)

\* Mutant: only the size cap makes a batch due.
FlushDueBySize(e) == Len(e.buf) >= SizeCap

\* Coalescer::is_flush_due: non-empty, and at the size cap or old enough.
FlushDue(e) == e.buf # <<>> /\ (Len(e.buf) >= SizeCap \/ e.aged)
Batch(e) == IF FlushDue(e) THEN e.buf ELSE <<>>

\* Mutant: the batch is copied out of the buffer and not taken.
LeftUndrained(e) == e.buf

Left(e) == IF FlushDue(e) THEN <<>> ELSE e.buf

Finished(e) == e.closed /\ Left(e) = <<>>

\* Mutant: the end marker goes through send_batch, which drops empty batches.
MessagesWithoutMarker(e) == Batch(e)

\* The batch a flush sends for an entry, with the end marker behind it when
\* the entry is finished.
Messages(e) == Batch(e) \o (IF Finished(e) THEN <<Eof>> ELSE <<>>)

\* Mutant: a finished entry is not removed from the hub.
FlushedKeepsFinished(e) ==
  [e EXCEPT !.buf = Left(e), !.aged = IF FlushDue(e) THEN FALSE ELSE @]

Flushed(e) == IF Finished(e) THEN NoEntry
              ELSE [e EXCEPT !.buf = Left(e),
                             !.aged = IF FlushDue(e) THEN FALSE ELSE @]

\* One flush_due call: every entry, under the hub's lock.
FlushTick ==
  /\ \E p \in Panes : Messages(hub[p]) # <<>>
  /\ hub' = [p \in Panes |-> Flushed(hub[p])]
  /\ sent' = [i \in Incs |->
                IF \E p \in Panes : hub[p].sink = i
                THEN sent[i] \o Messages(hub[CHOOSE p \in Panes : hub[p].sink = i])
                ELSE sent[i]]
  /\ UNCHANGED <<mainVars, readVars, pause, shell, written, overlap>>

\* The window of the batch that pane p is accumulating has elapsed.
WindowElapses(p) ==
  /\ hub[p].buf # <<>>
  /\ ~hub[p].aged
  /\ hub' = [hub EXCEPT ![p].aged = TRUE]
  /\ UNCHANGED <<mainVars, readVars, pause, shell, written, sent, overlap>>

-----------------------------------------------------------------------------
Next ==
  \/ \E p \in Panes : SpawnRegister(p) \/ KillTake(p) \/ WindowElapses(p)
  \/ \E p \in Panes, value \in BOOLEAN : SetPause(p, value)
  \/ CommandStep
  \/ FlushTick
  \/ \E i \in Incs : \/ ShellWrite(i) \/ ShellExit(i)
                     \/ ReaderRead(i) \/ ReaderInterrupted(i) \/ ReaderStep(i)

Spec == Init /\ [][Next]_vars

\* A thread that can run does.  read() is not interrupted for ever, and a
\* shell that was told to end does end; a shell left alone may run for ever.
Fairness ==
  /\ WF_vars(CommandStep)
  /\ WF_vars(FlushTick)
  /\ \A p \in Panes : WF_vars(WindowElapses(p))
  /\ \A i \in Incs : /\ WF_vars(ReaderStep(i))
                     /\ SF_vars(ReaderRead(i))
                     /\ WF_vars(shell[i] = "dying" /\ ShellExit(i))

FairSpec == Spec /\ Fairness
-----------------------------------------------------------------------------
(* Properties.                                                             *)

\* Every variable has its type.
TypeOK ==
  /\ cmd \in [at : CmdStates, pane : Panes \cup {NoPane}, inc : 0..MaxSpawns]
  /\ cmd.at # "idle" => cmd.pane \in Panes /\ cmd.inc \in Incs
  /\ spawned \in 0..MaxSpawns
  /\ paneOf \in [Incs -> Panes \cup {NoPane}]
  /\ handle \in [Panes -> 0..MaxSpawns]
  /\ pause \in [Incs -> BOOLEAN]
  /\ active \in SUBSET Panes
  /\ reader \in [Incs -> ReaderStates]
  /\ hub \in [Panes -> Entry]
  /\ shell \in [Incs -> ShellStates]
  /\ written \in [Incs -> 0..MaxOut]
  /\ taken \in [Incs -> 0..MaxOut]
  /\ sent \in [Incs -> Seq(Chunk \cup {Eof})]
  /\ overlap \in SUBSET Incs

\* The pool's set is exactly the panes with a live reader thread, no pane has
\* two, and there are never more threads than the cap: reader.rs admits and
\* releases by pane id alone, so a release for the wrong incarnation, or one
\* that runs twice, would let the count and the threads drift apart.
SlotAccounting ==
  /\ active = {paneOf[i] : i \in LiveReaders}
  /\ \A i, j \in LiveReaders : paneOf[i] = paneOf[j] => i = j
  /\ Cardinality(LiveReaders) <= Cap

\* A sink gets the chunks of any one shell in the order they were written and
\* none of them twice, and no chunk reaches two sinks, whatever spawns, kills
\* and flushes happen in between (coalescer.rs: one buffer, drained under the
\* hub's lock).
InOrderOnce ==
  /\ \A i \in Incs : \A a, b \in DOMAIN sent[i] :
       (a < b /\ sent[i][a] # Eof /\ sent[i][b] # Eof
              /\ sent[i][a][1] = sent[i][b][1])
         => sent[i][a][2] < sent[i][b][2]
  /\ \A i, j \in Incs : \A a \in DOMAIN sent[i], b \in DOMAIN sent[j] :
       (i # j /\ sent[i][a] # Eof) => sent[i][a] # sent[j][b]

\* "Sent once after the final batch" (coalescer.rs, BatchSink::on_closed):
\* a sink that was told the shell is closed receives nothing more, not even a
\* second end marker.
NothingAfterEof ==
  \A i \in Incs : \A a \in DOMAIN sent[i] : sent[i][a] = Eof => a = Len(sent[i])

AllOf(i) == [k \in 1..written[i] |-> <<i, k>>]

\* An end marker tells the truth about an incarnation that never shared its
\* pane id with another live reader: its shell has exited and its sink holds
\* everything the shell wrote, then the marker.  The reader's last on_data,
\* its on_eof, the window and the flusher are four separate steps.
EofComplete ==
  \A i \in Incs \ overlap :
    (sent[i] # <<>> /\ sent[i][Len(sent[i])] = Eof)
      => shell[i] = "exited" /\ sent[i] = Append(AllOf(i), Eof)

\* What a sink is told is faithful to its shell: chunks in order and once, and
\* an end marker only behind everything the shell wrote.
OutputFaithful == InOrderOnce /\ EofComplete

\* A reader never stops on an exited shell except at its pause flag: the slot
\* of a shell that ended is given back unless the pane is paused.
DeadShellFreesSlot ==
  \A i \in Incs :
    (shell[i] = "exited" /\ HasReader(i)) ~> (reader[i] = "done" \/ pause[i])

\* What is in the hub does not stay there: the entry of a closed pane is
\* finalised, so its sink gets the end marker, unless the pane is killed or
\* spawned again first.
ClosedEntryFinalised ==
  \A p \in Panes, i \in Incs :
    (hub[p].sink = i /\ hub[p].closed)
      ~> (hub[p].sink # i /\ (\/ Eof \in {sent[i][a] : a \in DOMAIN sent[i]}
                              \/ handle[p] # i
                              \/ \E j \in Incs : j > i /\ paneOf[j] = p))

=============================================================================
