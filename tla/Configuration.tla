---------------------------- MODULE Configuration ----------------------------
(***************************************************************************)
(* What weftgrid keeps on disk: the config (src-tauri/src/config/state.rs, *)
(* store.rs, migration.rs, keybindings.rs) with the settings panel that    *)
(* edits it, and the commands of a weft.json the user trusts               *)
(* (weft_trust.rs) with the runner of the palette that asks for them.      *)
(* Nothing keeps the names in a weft.json apart: the palette shows and     *)
(* runs the last command of a name, the trust store looks at the first.    *)
(*                                                                         *)
(* The commands run one at a time on the main thread; the file operations  *)
(* of a save are steps of their own, for the process may die, and each of  *)
(* them may fail, in between.  The panel keeps the config it loaded when   *)
(* it was mounted and always sends it back whole.                          *)
(***************************************************************************)
EXTENDS Naturals, Sequences, FiniteSets

CONSTANTS
  Actions,       \* actions that can be bound to a chord
  Typed,         \* chords as the user types them: sequences of tokens
  DefaultChord,  \* default_bindings
  Layouts,       \* values of the config's other settings
  DefaultLayout,
  Commands,      \* custom commands: [name, text, source, confirm]
  NoFile,        \* no config.json
  Torn,          \* a file that was truncated and not written to its end
  Closed, Loading, \* the settings panel without a config
  MaxQueue       \* bound: settings requests under way

ASSUME ConfigurationAssumption ==
  /\ DOMAIN DefaultChord = Actions
  /\ DefaultLayout \in Layouts
  /\ Commands \subseteq [name : STRING, text : STRING, source : STRING, confirm : BOOLEAN]
  /\ MaxQueue \in Nat

VARIABLES
  disk,      \* per directory: config.json and trusted-commands.json
  running,   \* the process is up
  home,      \* the directory this run of the process uses
  config,    \* ConfigInner.config
  bindings,  \* ConfigInner.keybindings: per action its chord
  trust,     \* ConfigInner.trust: the fingerprints
  panel,     \* the settings panel's config
  queue,     \* settings requests under way
  op,        \* the command on the main thread that is writing a file
  run,       \* the custom command being run
  acked,     \* history: the config.json of the last load or finished save
  unsaved,   \* history: actions bound since then
  approved   \* history: what the user chose to trust, as in `run`

memory == <<config, bindings, trust>>
frontend == <<panel, queue, run>>
history == <<acked, unsaved, approved>>
vars == <<disk, running, home, memory, frontend, op, history>>

Dirs == {"config", "temp"}

-----------------------------------------------------------------------------
(* Documents and chords.                                                   *)

Overrides == UNION {[bound -> Typed] : bound \in SUBSET Actions}

Config == [version : {2}, layout : Layouts, overrides : Overrides]

\* What a config.json may hold: a config, one from before the overrides, or one
\* from a build to come.
OldConfig == [version : {1}, layout : Layouts]
NewerConfig == [version : {3}, layout : Layouts]

ASSUME SentinelAssumption ==
  /\ NoFile \notin OldConfig \cup NewerConfig \cup Config
  /\ Torn \notin {NoFile} \cup OldConfig \cup NewerConfig \cup Config

NoOverrides == [a \in {} |-> <<>>]
DefaultConfig == [version |-> 2, layout |-> DefaultLayout, overrides |-> NoOverrides]

\* migrate_to_current
Migrate(doc) ==
  IF doc.version = 1
  THEN [version |-> 2, layout |-> doc.layout, overrides |-> NoOverrides]
  ELSE doc

\* ConfigStore::load fails on a torn file and on one from a newer build.
Readable(file) == file # Torn /\ (file = NoFile \/ file.version < 3)

Load(file) == IF file = NoFile THEN DefaultConfig ELSE Migrate(file)

Modifiers == {"ctrl", "alt", "shift", "meta"}

Canonical(token) ==
  CASE token \in {"cmd", "command", "super", "win"} -> "meta"
    [] token = "control" -> "ctrl"
    [] token = "option" -> "alt"
    [] OTHER -> token

IsKey(token) == token # "" /\ Canonical(token) \notin Modifiers

\* normalize_chord: however they were typed, each modifier once and in one
\* order, then the keys.
NormalizeChord(typed) ==
  [mods |-> {Canonical(typed[i]) : i \in DOMAIN typed} \cap Modifiers,
   keys |-> SelectSeq(typed, IsKey)]

\* The empty chord: the action is unbound.
Unbound == NormalizeChord(<<>>)

\* KeybindingRegistry::with_overrides
WithOverrides(overrides) ==
  [a \in Actions |-> NormalizeChord(IF a \in DOMAIN overrides THEN overrides[a]
                                    ELSE DefaultChord[a])]

\* Mutant of Fingerprint: the text of the command does not count.
FingerprintOfName(cmd) == <<cmd.name, "", cmd.source>>

Fingerprint(cmd) == <<cmd.name, cmd.text, cmd.source>>

\* TrustStore::with_dir: a file that does not parse grants nothing.
LoadTrust(file) == IF file = Torn THEN {} ELSE file

-----------------------------------------------------------------------------
(* The process.                                                            *)

Idle == [kind |-> "none"]
NoRun == [at |-> "none"]

Init ==
  /\ disk \in [Dirs -> [config : {NoFile} \cup OldConfig \cup NewerConfig, trust : {{}}]]
  /\ disk["temp"].config = NoFile
  /\ running = FALSE
  /\ home = "config"
  /\ config = DefaultConfig
  /\ bindings = WithOverrides(NoOverrides)
  /\ trust = {}
  /\ panel = Closed
  /\ queue = <<>>
  /\ op = Idle
  /\ run = NoRun
  /\ acked = disk[home].config
  /\ unsaved = {}
  /\ approved = {}

\* Mutant of ChooseHome: a config that cannot be read is as good as none.
ChooseHomeAlways == "config"

\* register: without a readable config the temporary directory has to do.
ChooseHome == IF Readable(disk["config"].config) THEN "config" ELSE "temp"

\* ConfigState::from_dir
Boot ==
  /\ ~running
  /\ running' = TRUE
  /\ home' = ChooseHome
  /\ config' = IF Readable(disk[home'].config) THEN Load(disk[home'].config) ELSE DefaultConfig
  /\ bindings' = WithOverrides(config'.overrides)
  /\ trust' = LoadTrust(disk[home'].trust)
  /\ op' = Idle
  /\ acked' = disk[home'].config
  /\ unsaved' = {}
  /\ UNCHANGED <<disk, frontend, approved>>

\* The process dies or is quit; `op` keeps what it was doing as history.
Crash ==
  /\ running
  /\ running' = FALSE
  /\ config' = DefaultConfig
  /\ bindings' = WithOverrides(NoOverrides)
  /\ trust' = {}
  /\ panel' = Closed
  /\ queue' = <<>>
  /\ run' = NoRun
  /\ UNCHANGED <<disk, home, op, history>>

-----------------------------------------------------------------------------
(* The settings panel.                                                     *)

Send(request) == Len(queue) < MaxQueue /\ queue' = Append(queue, request)

Mount ==
  /\ running
  /\ panel = Closed
  /\ panel' = Loading
  /\ Send([call |-> "config_get"])
  /\ UNCHANGED <<disk, running, home, memory, op, run, history>>

Unmount ==
  /\ panel # Closed
  /\ panel' = Closed
  /\ UNCHANGED <<disk, running, home, memory, op, run, queue, history>>

\* An edit of any field but the chords: change the panel's config, send it all.
EditSetting(layout) ==
  /\ panel \notin {Closed, Loading}
  /\ panel' = [panel EXCEPT !.layout = layout]
  /\ Send([call |-> "config_set", doc |-> panel'])
  /\ UNCHANGED <<disk, running, home, memory, op, run, history>>

\* The keybinding editor's commit.
EditChord(action, typed) ==
  /\ panel \notin {Closed, Loading}
  /\ Send([call |-> "keybinding_set", action |-> action, chord |-> typed])
  /\ UNCHANGED <<disk, running, home, memory, op, run, panel, history>>

-----------------------------------------------------------------------------
(* The settings commands.                                                  *)

Serves(call) ==
  /\ op = Idle
  /\ queue # <<>>
  /\ Head(queue).call = call
  /\ queue' = Tail(queue)

ConfigGet ==
  /\ Serves("config_get")
  /\ panel' = IF panel = Loading THEN config ELSE panel
  /\ UNCHANGED <<disk, running, home, memory, op, run, history>>

Saving(kind, doc) == [kind |-> kind, doc |-> doc, step |-> "write"]

\* Mutant of ConfigSet: the config in memory changes before it is saved.
ConfigSetFirst ==
  /\ Serves("config_set")
  /\ op' = Saving("config_set", Head(queue).doc)
  /\ config' = Head(queue).doc
  /\ bindings' = WithOverrides(config'.overrides)
  /\ UNCHANGED <<disk, running, home, trust, panel, run, history>>

\* config_set: save, and only then change what is in memory (Finish).
ConfigSet ==
  /\ Serves("config_set")
  /\ op' = Saving("config_set", Head(queue).doc)
  /\ UNCHANGED <<disk, running, home, memory, panel, run, history>>

Bind(overrides, action, typed) ==
  [a \in DOMAIN overrides \cup {action} |-> IF a = action THEN typed ELSE overrides[a]]

\* keybinding_set: the registry and the config in memory change before the save.
KeybindingSet ==
  /\ Serves("keybinding_set")
  /\ LET action == Head(queue).action
         typed == Head(queue).chord
     IN /\ bindings' = [bindings EXCEPT ![action] = NormalizeChord(typed)]
        /\ config' = [config EXCEPT !.overrides = Bind(config.overrides, action, typed)]
        /\ unsaved' = unsaved \cup {action}
  /\ op' = Saving("keybinding_set", config')
  /\ UNCHANGED <<disk, running, home, trust, panel, run, acked, approved>>

\* Mutant of WriteTemp: the bytes go to config.json itself.
WriteInPlace ==
  /\ op' = [op EXCEPT !.step = "rename"]
  /\ disk' = [disk EXCEPT ![home].config = Torn]

\* write_synced to config.json.tmp, which nothing ever reads.
WriteTemp ==
  /\ op' = [op EXCEPT !.step = "rename"]
  /\ UNCHANGED disk

\* atomic_rename: the save is committed.
Rename ==
  /\ op' = [op EXCEPT !.step = "reply"]
  /\ disk' = [disk EXCEPT ![home].config = op.doc]

SavingConfig == op.kind \in {"config_set", "keybinding_set"}

\* The file operations of ConfigStore::save.
SaveStep ==
  /\ running
  /\ SavingConfig
  /\ \/ op.step = "write" /\ WriteTemp
     \/ op.step = "rename" /\ Rename
  /\ UNCHANGED <<running, home, memory, frontend, history>>

\* The directory, the temporary file or the rename, five times over, fails: the
\* command reports the error.
SaveFails ==
  /\ running
  /\ SavingConfig
  /\ op.step \in {"write", "rename"}
  /\ op' = Idle
  /\ UNCHANGED <<disk, running, home, memory, frontend, history>>

\* What set_config does with a config that has been saved.
Adopt ==
  /\ config' = op.doc
  /\ bindings' = WithOverrides(op.doc.overrides)

\* The command returns.
Finish ==
  /\ running
  /\ SavingConfig
  /\ op.step = "reply"
  /\ IF op.kind = "config_set" THEN Adopt ELSE UNCHANGED <<config, bindings>>
  /\ op' = Idle
  /\ acked' = op.doc
  /\ unsaved' = {}
  /\ UNCHANGED <<disk, running, home, trust, frontend, approved>>

-----------------------------------------------------------------------------
(* The runner of custom commands, and the trust store behind it.           *)

\* TrustStore::decide
NeedsConfirm(cmd, local) ==
  cmd.confirm \/ (local /\ Fingerprint(cmd) \notin trust)

\* What the palette shows and what the gate finds: cmd is the last of its name in
\* its weft.json (mergeRegistry), found the first, the same one unless the file
\* has several.
OfOneName(cmd, found) == cmd.name = found.name /\ cmd.source = found.source

\* runCustomCommand up to its first await, for a command of the palette.
StartRun(cmd, found, local) ==
  /\ running
  /\ run = NoRun
  /\ OfOneName(cmd, found)
  /\ run' = [cmd |-> cmd, found |-> found, local |-> local, asked |-> FALSE,
             at |-> CASE cmd.confirm -> "confirm"
                      [] ~cmd.confirm /\ local -> "check"
                      [] ~cmd.confirm /\ ~local -> "execute"]
  /\ UNCHANGED <<disk, running, home, memory, panel, queue, op, history>>

\* weft_trust_check: of the first command of the name.
TrustCheck ==
  /\ op = Idle
  /\ run.at = "check"
  /\ run' = [run EXCEPT !.at = IF NeedsConfirm(run.found, TRUE) THEN "confirm" ELSE "execute"]
  /\ UNCHANGED <<disk, running, home, memory, panel, queue, op, history>>

\* The user answers the dialog.
Answer(choice) ==
  /\ run.at = "confirm"
  /\ run' = CASE choice = "cancel" -> NoRun
              [] choice = "trust" /\ ~run.cmd.confirm ->
                   [run EXCEPT !.at = "grant", !.asked = TRUE]
              [] choice = "run-once" \/ (choice = "trust" /\ run.cmd.confirm) ->
                   [run EXCEPT !.at = "execute", !.asked = TRUE]
  /\ approved' = IF run'.at = "grant"
                 THEN approved \cup {[cmd |-> run.cmd, found |-> run.found]}
                 ELSE approved
  /\ UNCHANGED <<disk, running, home, memory, panel, queue, op, acked, unsaved>>

\* weft_trust_grant, up to its file operations: it grants the first command of
\* the name.
TrustGrant ==
  /\ op = Idle
  /\ run.at = "grant"
  /\ trust' = trust \cup {Fingerprint(run.found)}
  /\ op' = [kind |-> "trust_grant", step |-> "create"]
  /\ UNCHANGED <<disk, running, home, config, bindings, frontend, history>>

SavingTrust == running /\ op.kind = "trust_grant"

\* write_synced on the trust file itself: File::create empties it.
TrustCreate ==
  /\ SavingTrust
  /\ op.step = "create"
  /\ disk' = [disk EXCEPT ![home].trust = Torn]
  /\ op' = [op EXCEPT !.step = "write"]
  /\ UNCHANGED <<running, home, memory, frontend, history>>

\* The rest of it; the grant returns.
TrustWrite ==
  /\ SavingTrust
  /\ op.step = "write"
  /\ disk' = [disk EXCEPT ![home].trust = trust]
  /\ op' = Idle
  /\ run' = [run EXCEPT !.at = "execute"]
  /\ UNCHANGED <<running, home, memory, panel, queue, history>>

\* An error of either is dropped; the grant returns all the same.
TrustSaveFails ==
  /\ SavingTrust
  /\ op' = Idle
  /\ run' = [run EXCEPT !.at = "execute"]
  /\ UNCHANGED <<disk, running, home, memory, panel, queue, history>>

\* execute: the command goes to the terminal, or builds its workspace.
Execute ==
  /\ run.at = "execute"
  /\ run' = NoRun
  /\ UNCHANGED <<disk, running, home, memory, panel, queue, op, history>>

-----------------------------------------------------------------------------
Next ==
  \/ Boot \/ Crash
  \/ Mount \/ Unmount
  \/ \E layout \in Layouts : EditSetting(layout)
  \/ \E action \in Actions, typed \in Typed : EditChord(action, typed)
  \/ ConfigGet \/ ConfigSet \/ KeybindingSet
  \/ SaveStep \/ SaveFails \/ Finish
  \/ \E cmd, found \in Commands, local \in BOOLEAN : StartRun(cmd, found, local)
  \/ TrustCheck \/ TrustGrant \/ TrustCreate \/ TrustWrite \/ TrustSaveFails
  \/ \E choice \in {"trust", "run-once", "cancel"} : Answer(choice)
  \/ Execute

Spec == Init /\ [][Next]_vars

-----------------------------------------------------------------------------
(* Properties.                                                             *)

Fingerprints == {Fingerprint(cmd) : cmd \in Commands}

Approvals == [cmd : Commands, found : Commands]

\* Every variable has its type.  In particular no config.json is ever torn.
TypeOK ==
  /\ DOMAIN disk = Dirs
  /\ \A dir \in Dirs :
       /\ disk[dir].config \in {NoFile} \cup OldConfig \cup NewerConfig \cup Config
       /\ disk[dir].trust = Torn \/ disk[dir].trust \subseteq Fingerprints
  /\ running \in BOOLEAN /\ home \in Dirs
  /\ config \in Config
  /\ trust \subseteq Fingerprints
  /\ panel \in {Closed, Loading} \cup Config
  /\ unsaved \subseteq Actions /\ approved \subseteq Approvals

\* Whenever the process dies, config.json holds the last config whose save was
\* reported done, or the one that was just being saved: never a mixture, never
\* an older one (store.rs: load and save).
CrashSafe ==
  disk[home].config = acked \/ (SavingConfig /\ disk[home].config = op.doc)

\* While no save is under way, what is in memory is what a restart would load,
\* except for chords whose save failed (state.rs: set_config, keybinding_set).
MemoryOnDisk ==
  (running /\ op = Idle) =>
    LET saved == Load(disk[home].config) IN
      /\ config.layout = saved.layout
      /\ \A a \in Actions \ unsaved :
           /\ a \in DOMAIN config.overrides <=> a \in DOMAIN saved.overrides
           /\ a \in DOMAIN saved.overrides => config.overrides[a] = saved.overrides[a]

\* The registry that keys are looked up in is the one the config stands for,
\* whether it was loaded, changed chord by chord, or replaced with the config.
RegistryDerived == bindings = WithOverrides(config.overrides)

\* A config of a newer build is left as it is for that build, whatever an older
\* one does in the meantime (mod.rs: register).
NewerConfigUntouched ==
  [][disk["config"].config \in NewerConfig => disk'["config"] = disk["config"]]_vars

SameCommand(c, d) == c.name = d.name /\ c.text = d.text /\ c.source = d.source

\* No command of a project runs unasked unless the user chose "Trust and Run"
\* over the command that is now the first of its name; where the names of a
\* weft.json are distinct, then and now, that is the command itself, as it now
\* reads.  A command with confirm asks every time.  It holds over restarts and
\* however the trust file was left (weft_trust.rs: decide and grant).
GateHolds ==
  (run.at = "execute" /\ ~run.asked) =>
    /\ ~run.cmd.confirm
    /\ run.local =>
         /\ ~run.found.confirm
         /\ \E a \in approved :
              /\ SameCommand(a.found, run.found)
              /\ (a.cmd = a.found /\ run.cmd = run.found) => a.cmd = run.cmd
=============================================================================
