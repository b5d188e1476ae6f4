---------------------------- MODULE SessionRestore ----------------------------
(***************************************************************************)
(* The session the program leaves behind and begins with                   *)
(* (src-tauri/src/config/session.rs): what is kept of a pane, the file it  *)
(* is written to, and the shells a restart opens.                          *)
(*                                                                         *)
(* Nothing calls persist yet; whoever will is one thread that saves the    *)
(* panes of the moment whenever it likes, and the process may die at any   *)
(* step.  The serialized tree of a workspace goes with its panes.          *)
(***************************************************************************)
EXTENDS Integers, Sequences, SequencesExt, FiniteSets

CONSTANTS
  SessionPanes, \* in the order the session lists them
  Commands,     \* what may be run in a pane
  NoCommand,
  MaxSaves      \* bound: persists

VARIABLES
  layout,  \* the panes of the moment: respawn_policy and last_command
  disk,    \* session.json
  temp,    \* session.json.tmp
  saving,  \* where persist stands, and what it saves
  spawned, \* the shells the last start asked for
  saves    \* history: the document saved last, and the persists begun

sessionVars == <<layout, disk, temp, saving, spawned, saves>>

Listed == Range(SessionPanes)
Policies == {"FreshShell", "RerunLastCommand"}
NoSession == <<>>     \* SessionState::default
File(is, doc) == [is |-> is, doc |-> doc]
Absent == File("absent", NoSession)
Torn == File("torn", NoSession)
NotSaving == [step |-> "none", doc |-> NoSession]

\* SessionState, of the panes of the moment.
Document == [i \in DOMAIN SessionPanes |->
               [pane |-> SessionPanes[i], policy |-> layout[SessionPanes[i]].policy,
                last |-> layout[SessionPanes[i]].last]]

\* Mutant of ShellsToSpawn: whatever ran last is run again.
ShellsToSpawnAll(session) ==
  [i \in DOMAIN session |-> [pane |-> session[i].pane, initial |-> session[i].last]]

\* shells_to_spawn
ShellsToSpawn(session) ==
  [i \in DOMAIN session |->
     [pane |-> session[i].pane,
      initial |-> IF session[i].policy = "FreshShell" THEN NoCommand
                  ELSE session[i].last]]

-----------------------------------------------------------------------------
SessionInit ==
  /\ layout = [p \in Listed |-> [policy |-> "FreshShell", last |-> NoCommand]]
  /\ disk = Absent
  /\ temp = Absent
  /\ saving = NotSaving
  /\ spawned = [look |-> "reads", is |-> "absent", shells |-> <<>>]
  /\ saves = [doc |-> NoSession, n |-> 0]

RunCommand(p, c) ==
  /\ layout' = [layout EXCEPT ![p].last = c]
  /\ UNCHANGED <<disk, temp, saving, spawned, saves>>

SetPolicy(p, policy) ==
  /\ layout' = [layout EXCEPT ![p].policy = policy]
  /\ UNCHANGED <<disk, temp, saving, spawned, saves>>

\* persist: the temporary file is created first, and empty.
PersistBegins ==
  /\ saving = NotSaving
  /\ saves.n < MaxSaves
  /\ saving' = [step |-> "writing", doc |-> Document]
  /\ temp' = Torn
  /\ saves' = [saves EXCEPT !.n = @ + 1]
  /\ UNCHANGED <<layout, disk, spawned>>

\* write_synced, in some pieces: all of it, or an error.
WriteSynced ==
  /\ saving.step = "writing"
  /\ \/ temp' = File("whole", saving.doc) /\ saving' = [saving EXCEPT !.step = "renaming"]
     \/ saving' = NotSaving /\ UNCHANGED temp
  /\ UNCHANGED <<layout, disk, spawned, saves>>

Rename ==
  /\ saving.step = "renaming"
  /\ saving' = NotSaving
  /\ \/ disk' = temp /\ temp' = Absent /\ saves' = [saves EXCEPT !.doc = saving.doc]
     \/ UNCHANGED <<disk, temp, saves>>
  /\ UNCHANGED <<layout, spawned>>

\* What restore gets of the file: a directory that cannot be searched looks as if
\* there were none, and a file that cannot be read is an error.
Looks == {"reads", "sees none", "fails"}
Seen(look) ==
  CASE look = "reads" -> disk
    [] look = "sees none" -> Absent
    [] OTHER -> File("unreadable", NoSession)

\* The process ends at any step and another begins.  restore: no file is an empty
\* session, one that cannot be read or parsed an error; what ran in a pane is known
\* again as it was saved.
Restart(look) ==
  LET found == Seen(look).doc
      Of(p) == {i \in DOMAIN found : found[i].pane = p}
  IN /\ look = "fails" => disk.is # "absent"
     /\ spawned' = [look |-> look, is |-> Seen(look).is, shells |-> ShellsToSpawn(found)]
     /\ layout' = [p \in Listed |->
          IF Of(p) = {} THEN [policy |-> "FreshShell", last |-> NoCommand]
          ELSE LET i == CHOOSE i \in Of(p) : TRUE
               IN [policy |-> found[i].policy, last |-> found[i].last]]
     /\ saving' = NotSaving
     /\ UNCHANGED <<disk, temp, saves>>

SessionNext ==
  \/ \E p \in Listed : \/ \E c \in Commands : RunCommand(p, c)
                      \/ \E policy \in Policies : SetPolicy(p, policy)
  \/ PersistBegins \/ WriteSynced \/ Rename
  \/ \E look \in Looks : Restart(look)

-----------------------------------------------------------------------------
\* A start never finds half a file.  If it can read the one there is, it opens the
\* shells of the session that was saved last and whole, never of one whose save
\* failed or was cut off; if it cannot, it opens none.  And a shell is given a
\* command only if the user had its pane set to run it again at the moment it was
\* saved (session.rs, persist, restore and shells_to_spawn).
StartsAsSaved ==
  [][\A look \in Looks : Restart(look) =>
       /\ spawned'.is # "torn"
       /\ DOMAIN spawned'.shells = IF look = "reads" THEN DOMAIN saves.doc ELSE {}
       /\ \A i \in DOMAIN spawned'.shells :
            LET kept == saves.doc[i]
                shell == spawned'.shells[i]
            IN /\ shell.pane = kept.pane
               /\ shell.initial = kept.last \/ shell.initial = NoCommand
               /\ (shell.initial # NoCommand)
                    = (kept.policy = "RerunLastCommand" /\ kept.last # NoCommand)]_sessionVars
=============================================================================
