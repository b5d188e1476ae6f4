------------------------- MODULE ConfigurationProofs -------------------------
(* What Configuration guarantees for any actions, chords, settings and        *)
(* commands, and any number of requests, crashes and failed writes.           *)
EXTENDS Configuration, SequenceTheorems, TLAPS

-----------------------------------------------------------------------------
(* Typing.                                                                 *)

Files == {NoFile} \cup OldConfig \cup NewerConfig \cup Config

Grants == {Torn} \cup SUBSET Fingerprints

Request ==
  [call : {"config_get"}] \cup [call : {"config_set"}, doc : Config]
    \cup [call : {"keybinding_set"}, action : Actions, chord : Typed]

SaveKinds == {"config_set", "keybinding_set"}

Operation ==
  {Idle} \cup [kind : SaveKinds, doc : Config, step : {"write", "rename", "reply"}]
    \cup [kind : {"trust_grant"}, step : {"create", "write"}]

Running ==
  {NoRun} \cup [cmd : Commands, found : Commands, local : BOOLEAN, asked : BOOLEAN,
                at : {"check", "confirm", "grant", "execute"}]

\* The types of the variables, of the requests under way and of the command on
\* the main thread.  Nothing is served and no command runs in a dead
\* process, and the trust file is written only for a command being granted.
TypeInv ==
  /\ disk \in [Dirs -> [config : Files, trust : Grants]]
  /\ running \in BOOLEAN /\ home \in Dirs
  /\ config \in Config
  /\ trust \subseteq Fingerprints
  /\ panel \in {Closed, Loading} \cup Config
  /\ queue \in Seq(Request)
  /\ op \in Operation
  /\ run \in Running
  /\ acked \in Files
  /\ unsaved \subseteq Actions /\ approved \subseteq Approvals
  /\ ~running => panel = Closed /\ queue = <<>> /\ run = NoRun
  /\ running /\ op.kind = "trust_grant" => run.at = "grant"

LEMMA DefaultConfigType == DefaultConfig \in Config
<1>1. NoOverrides \in [{} -> Typed]
  BY DEF NoOverrides
<1>2. NoOverrides \in Overrides
  BY <1>1 DEF Overrides
<1> QED
  BY <1>2, ConfigurationAssumption DEF DefaultConfig, Config

\* A file that can be read is loaded as a config of this build.
LEMMA LoadType ==
  ASSUME NEW file \in Files, Readable(file)
  PROVE  Load(file) \in Config
<1>1. CASE file = NoFile
  BY <1>1, DefaultConfigType DEF Load
<1>2. CASE file # NoFile /\ file \in OldConfig
  <2>1. NoOverrides \in Overrides
    BY DefaultConfigType DEF DefaultConfig, Config
  <2> QED
    BY <1>2, <2>1 DEF Load, Migrate, OldConfig, Config
<1>3. CASE file # NoFile /\ file \in Config
  BY <1>3 DEF Load, Migrate, Config
<1>4. CASE file # NoFile /\ file \in NewerConfig
  BY <1>4 DEF Readable, NewerConfig
<1> QED
  BY <1>1, <1>2, <1>3, <1>4 DEF Files

\* Binding one more chord to a config gives a config.
LEMMA BindType ==
  ASSUME NEW doc \in Config, NEW action \in Actions, NEW typed \in Typed
  PROVE  [doc EXCEPT !.overrides = Bind(doc.overrides, action, typed)] \in Config
<1>1. doc.overrides \in Overrides
  BY DEF Config
<1>2. PICK bound \in SUBSET Actions : doc.overrides \in [bound -> Typed]
  BY <1>1 DEF Overrides
<1>3. Bind(doc.overrides, action, typed) \in [bound \cup {action} -> Typed]
  BY <1>2 DEF Bind
<1>4. Bind(doc.overrides, action, typed) \in Overrides
  BY <1>3 DEF Overrides
<1> QED
  BY <1>4 DEF Config

\* Sending a request keeps the queue a queue of requests.
LEMMA SendType ==
  ASSUME queue \in Seq(Request), NEW r \in Request, Send(r)
  PROVE  queue' \in Seq(Request)
BY AppendProperties DEF Send

\* Serving a request takes one of its kind from the queue.
LEMMA ServeType ==
  ASSUME queue \in Seq(Request), NEW call, Serves(call)
  PROVE  /\ queue' \in Seq(Request)
         /\ Head(queue) \in Request /\ Head(queue).call = call
BY HeadTailProperties DEF Serves

LEMMA TypeStep ==
  ASSUME TypeInv, [Next]_vars
  PROVE  TypeInv'
<1> USE DEF TypeInv, memory, frontend, history, Idle, NoRun
<1>1. CASE Boot
  <2>1. home' \in Dirs
    BY <1>1 DEF Boot, ChooseHome, Dirs
  <2>2. disk[home'].config \in Files /\ disk[home'].trust \in Grants
    BY <2>1
  <2>3. config' \in Config
    BY <1>1, <2>2, LoadType, DefaultConfigType DEF Boot
  <2>4. trust' \subseteq Fingerprints
    BY <1>1, <2>2 DEF Boot, LoadTrust, Grants
  <2> QED
    BY <1>1, <2>1, <2>2, <2>3, <2>4 DEF Boot, Operation
<1>2. CASE Crash
  BY <1>2, DefaultConfigType, EmptySeq DEF Crash, Running
<1>3. CASE Mount
  <2>1. [call |-> "config_get"] \in Request
    BY DEF Request
  <2> QED
    BY <1>3, <2>1, SendType DEF Mount
<1>4. CASE Unmount
  BY <1>4 DEF Unmount
<1>5. CASE \E layout \in Layouts : EditSetting(layout)
  <2> PICK layout \in Layouts : EditSetting(layout)
    BY <1>5
  <2>1. panel' \in Config
    BY DEF EditSetting, Config
  <2>2. [call |-> "config_set", doc |-> panel'] \in Request
    BY <2>1 DEF Request
  <2> QED
    BY <2>1, <2>2, SendType DEF EditSetting
<1>6. CASE \E action \in Actions, typed \in Typed : EditChord(action, typed)
  <2> PICK action \in Actions, typed \in Typed : EditChord(action, typed)
    BY <1>6
  <2>1. [call |-> "keybinding_set", action |-> action, chord |-> typed] \in Request
    BY DEF Request
  <2> QED
    BY <2>1, SendType DEF EditChord
<1>7. CASE ConfigGet
  <2>1. running /\ queue' \in Seq(Request)
    BY <1>7, ServeType DEF ConfigGet, Serves
  <2> QED
    BY <1>7, <2>1 DEF ConfigGet
<1>8. CASE ConfigSet
  <2>1. running /\ Head(queue).doc \in Config /\ queue' \in Seq(Request)
    BY <1>8, ServeType DEF ConfigSet, Serves, Request
  <2>2. op' \in Operation
    BY <1>8, <2>1 DEF ConfigSet, Saving, Operation, SaveKinds
  <2> QED
    BY <1>8, <2>1, <2>2 DEF ConfigSet, Saving
<1>9. CASE KeybindingSet
  <2>1. /\ running /\ queue' \in Seq(Request)
        /\ Head(queue).action \in Actions /\ Head(queue).chord \in Typed
    BY <1>9, ServeType DEF KeybindingSet, Serves, Request
  <2>2. config' \in Config /\ unsaved' \subseteq Actions
    BY <1>9, <2>1, BindType DEF KeybindingSet
  <2>3. op' \in Operation
    BY <1>9, <2>2 DEF KeybindingSet, Saving, Operation, SaveKinds
  <2> QED
    BY <1>9, <2>1, <2>2, <2>3 DEF KeybindingSet, Saving
<1>10. CASE SaveStep
  <2>1. op \in [kind : SaveKinds, doc : Config, step : {"write", "rename", "reply"}]
    BY <1>10 DEF SaveStep, SavingConfig, Operation, Idle, SaveKinds
  <2>2. op' \in Operation
    BY <1>10, <2>1 DEF SaveStep, WriteTemp, Rename, Operation
  <2>3. disk' \in [Dirs -> [config : Files, trust : Grants]]
    BY <1>10, <2>1 DEF SaveStep, WriteTemp, Rename, Files
  <2> QED
    BY <1>10, <2>1, <2>2, <2>3 DEF SaveStep, SaveKinds, WriteTemp, Rename
<1>11. CASE SaveFails
  BY <1>11 DEF SaveFails, Operation
<1>12. CASE Finish
  <2>1. op \in [kind : SaveKinds, doc : Config, step : {"write", "rename", "reply"}]
    BY <1>12 DEF Finish, SavingConfig, Operation, Idle, SaveKinds
  <2> QED
    BY <1>12, <2>1 DEF Finish, Adopt, Operation, Files
<1>13. CASE \E cmd, found \in Commands, local \in BOOLEAN : StartRun(cmd, found, local)
  <2> PICK cmd \in Commands, found \in Commands, local \in BOOLEAN :
             StartRun(cmd, found, local)
    BY <1>13
  <2>1. cmd.confirm \in BOOLEAN
    BY ConfigurationAssumption
  <2>2. run' \in Running
    BY <2>1 DEF StartRun, Running
  <2> QED
    BY <2>2 DEF StartRun
<1>14. CASE TrustCheck
  <2>1. run # NoRun /\ run \in Running
    BY <1>14 DEF TrustCheck
  <2>2. \/ run' = [run EXCEPT !.at = "confirm"]
        \/ run' = [run EXCEPT !.at = "execute"]
    BY <1>14 DEF TrustCheck
  <2>3. run' \in Running
    BY <2>1, <2>2 DEF Running
  <2> QED
    BY <1>14, <2>1, <2>3 DEF TrustCheck
<1>15. CASE TrustGrant
  <2>1. run.found \in Commands /\ run # NoRun
    BY <1>15 DEF TrustGrant, Running, NoRun
  <2> QED
    BY <1>15, <2>1 DEF TrustGrant, Fingerprints, Operation
<1>16. CASE TrustCreate
  <2>1. disk' \in [Dirs -> [config : Files, trust : Grants]]
    BY <1>16 DEF TrustCreate, Grants
  <2>2. op' \in Operation
    BY <1>16 DEF TrustCreate, SavingTrust, Operation, Idle, SaveKinds
  <2> QED
    BY <1>16, <2>1, <2>2 DEF TrustCreate, SavingTrust
<1>17. CASE TrustWrite
  <2>1. disk' \in [Dirs -> [config : Files, trust : Grants]]
    BY <1>17 DEF TrustWrite, Grants
  <2>2. run' \in Running
    BY <1>17 DEF TrustWrite, SavingTrust, Running
  <2> QED
    BY <1>17, <2>1, <2>2 DEF TrustWrite, SavingTrust, Operation
<1>18. CASE TrustSaveFails
  <2>1. run # NoRun /\ run' = [run EXCEPT !.at = "execute"]
    BY <1>18 DEF TrustSaveFails, SavingTrust
  <2>2. run' \in Running
    BY <2>1 DEF Running
  <2> QED
    BY <1>18, <2>2 DEF TrustSaveFails, SavingTrust, Operation
<1>19. CASE \E choice \in {"trust", "run-once", "cancel"} : Answer(choice)
  <2> PICK choice \in {"trust", "run-once", "cancel"} : Answer(choice)
    BY <1>19
  <2>1. /\ run # NoRun /\ run.cmd.confirm \in BOOLEAN
        /\ run.cmd \in Commands /\ run.found \in Commands
    BY ConfigurationAssumption DEF Answer, Running, NoRun
  <2>2. run' \in Running
    BY <2>1 DEF Answer, Running
  <2>3. approved' \subseteq Approvals
    BY <2>1 DEF Answer, Approvals
  <2> QED
    BY <2>2, <2>3 DEF Answer
<1>20. CASE Execute
  BY <1>20 DEF Execute, Running
<1>21. CASE UNCHANGED vars
  BY <1>21 DEF vars
<1> QED
  BY <1>1, <1>2, <1>3, <1>4, <1>5, <1>6, <1>7, <1>8, <1>9, <1>10, <1>11, <1>12,
     <1>13, <1>14, <1>15, <1>16, <1>17, <1>18, <1>19, <1>20, <1>21 DEF Next

\* The variables keep their types (every operation of config/state.rs,
\* config/store.rs, config/weft_trust.rs, the settings panel and the runner).
THEOREM WellTyped == Spec => []TypeInv
<1>1. Init => TypeInv
  BY DefaultConfigType, EmptySeq
     DEF Init, TypeInv, Files, Grants, Operation, Running, Dirs
<1> QED
  BY <1>1, TypeStep, PTL DEF Spec

-----------------------------------------------------------------------------
(* The registry.                                                           *)

\* One chord changed in the registry is one override more in the config.
LEMMA BindDerived ==
  ASSUME NEW overrides, NEW action \in Actions, NEW typed
  PROVE  [WithOverrides(overrides) EXCEPT ![action] = NormalizeChord(typed)]
           = WithOverrides(Bind(overrides, action, typed))
<1>1. DOMAIN Bind(overrides, action, typed) = DOMAIN overrides \cup {action}
  BY DEF Bind
<1>2. \A a \in DOMAIN overrides \cup {action} :
        Bind(overrides, action, typed)[a] = IF a = action THEN typed ELSE overrides[a]
  BY DEF Bind
<1> HIDE DEF Bind, NormalizeChord
<1> QED
  BY <1>1, <1>2 DEF WithOverrides

LEMMA DerivedStep ==
  ASSUME TypeInv, RegistryDerived, [Next]_vars
  PROVE  RegistryDerived'
<1> USE DEF RegistryDerived, memory, frontend, history
<1>1. CASE Boot
  BY <1>1 DEF Boot
<1>2. CASE Crash
  BY <1>2 DEF Crash, DefaultConfig
<1>3. CASE KeybindingSet
  <2>1. Head(queue).action \in Actions
    BY <1>3, ServeType DEF KeybindingSet, TypeInv, Request
  <2>2. config'.overrides = Bind(config.overrides, Head(queue).action, Head(queue).chord)
    BY <1>3 DEF KeybindingSet, TypeInv, Config
  <2> QED
    BY <1>3, <2>1, <2>2, BindDerived DEF KeybindingSet
<1>4. CASE Finish
  BY <1>4 DEF Finish, Adopt
<1>5. CASE UNCHANGED <<config, bindings>>
  BY <1>5
<1>6. Boot \/ Crash \/ KeybindingSet \/ Finish \/ UNCHANGED <<config, bindings>>
  BY DEF Next, vars, Mount, Unmount, EditSetting, EditChord, ConfigGet, ConfigSet,
         SaveStep, SaveFails, StartRun, TrustCheck, TrustGrant, TrustCreate, TrustWrite,
         TrustSaveFails, Answer, Execute
<1> QED
  BY <1>1, <1>2, <1>3, <1>4, <1>5, <1>6

\* The keys the user presses are looked up in the registry the config stands
\* for, whichever of its three ways the config came by (state.rs: from_dir,
\* set_config, keybinding_set).
THEOREM RegistryAlwaysDerived == Spec => []RegistryDerived
<1>1. Init => RegistryDerived
  BY DEF Init, RegistryDerived, DefaultConfig
<1>2. TypeInv /\ RegistryDerived /\ [Next]_vars => RegistryDerived'
  BY DerivedStep
<1> QED
  BY <1>1, <1>2, WellTyped, PTL DEF Spec

-----------------------------------------------------------------------------
(* The files of the config.                                                *)

Committed == SavingConfig /\ op.step = "reply"

\* config.json changes with the rename, and is taken for saved when the command
\* returns.
Saved ==
  disk[home].config = IF Committed THEN op.doc ELSE acked

\* Memory differs from the file last taken for saved in the chords of
\* unfinished or failed saves alone; a keybinding command saves what is in
\* memory.
Remembered ==
  running =>
    /\ config.layout = Load(acked).layout
    /\ \A a \in Actions \ unsaved :
         /\ a \in DOMAIN config.overrides <=> a \in DOMAIN Load(acked).overrides
         /\ a \in DOMAIN Load(acked).overrides =>
              config.overrides[a] = Load(acked).overrides[a]
    /\ op.kind = "keybinding_set" => op.doc = config

\* The temporary directory, where the program goes when a config cannot be
\* read, never holds one that cannot.
Temporary ==
  /\ disk["temp"].config \in {NoFile} \cup Config
  /\ running /\ disk["config"].config \in NewerConfig => home = "temp"

StoreInv == Saved /\ Remembered /\ Temporary

StoreVars == <<disk, running, home, config, op, acked, unsaved>>

LEMMA ConfigNotNewer == \A doc \in Config : doc \notin NewerConfig /\ Load(doc) = doc
BY SentinelAssumption DEF Config, NewerConfig, Load, Migrate

\* What a process has in memory when it comes up is what it found on disk.
LEMMA StoreAfterBoot ==
  ASSUME TypeInv, StoreInv, Boot
  PROVE  StoreInv'
<1>1. disk' = disk /\ running' /\ op' = Idle /\ acked' = disk[home'].config
  BY DEF Boot
<1>2. home' \in Dirs /\ Readable(disk[home'].config)
  <2>1. CASE Readable(disk["config"].config)
    BY <2>1 DEF Boot, ChooseHome, Dirs
  <2>2. CASE ~Readable(disk["config"].config)
    <3>1. Readable(disk["temp"].config)
      BY SentinelAssumption DEF StoreInv, Temporary, Readable, Config
    <3> QED
      BY <2>2, <3>1 DEF Boot, ChooseHome, Dirs
  <2> QED
    BY <2>1, <2>2
<1>3. config' = Load(acked')
  BY <1>1, <1>2 DEF Boot
<1>4. Saved' /\ Remembered'
  BY <1>1, <1>3 DEF Saved, Remembered, Committed, SavingConfig, Idle
<1>5. Temporary'
  <2>1. ASSUME disk["config"].config \in NewerConfig
        PROVE  ~Readable(disk["config"].config)
    BY <2>1, SentinelAssumption DEF Readable, NewerConfig
  <2> QED
    BY <1>1, <2>1 DEF Boot, ChooseHome, StoreInv, Temporary
<1> QED
  BY <1>4, <1>5 DEF StoreInv

\* A save under way is of a config.
LEMMA SavingType ==
  ASSUME TypeInv, SavingConfig
  PROVE  /\ op.doc \in Config /\ op.kind # "trust_grant"
         /\ op \in [kind : SaveKinds, doc : Config, step : {"write", "rename", "reply"}]
BY DEF TypeInv, SavingConfig, Operation, Idle, SaveKinds

LEMMA StoreStep ==
  ASSUME TypeInv, StoreInv, [Next]_vars
  PROVE  StoreInv'
<1> USE DEF memory, frontend, history
<1>1. CASE Boot
  BY <1>1, StoreAfterBoot
<1>2. CASE Crash
  BY <1>2 DEF Crash, StoreInv, Saved, Committed, SavingConfig, Remembered, Temporary
<1>3. CASE ConfigSet
  <2>1. op = Idle /\ op'.kind = "config_set" /\ op'.step = "write"
    BY <1>3 DEF ConfigSet, Serves, Saving
  <2> QED
    BY <1>3, <2>1 DEF ConfigSet, StoreInv, Saved, Committed, SavingConfig, Remembered,
       Temporary, Idle
<1>4. CASE KeybindingSet
  <2> DEFINE action == Head(queue).action
             typed == Head(queue).chord
  <2>1. op = Idle /\ op'.kind = "keybinding_set" /\ op'.step = "write" /\ op'.doc = config'
    BY <1>4 DEF KeybindingSet, Serves, Saving
  <2>2. Saved' /\ Temporary'
    BY <1>4, <2>1 DEF KeybindingSet, StoreInv, Saved, Committed, SavingConfig, Temporary, Idle
  <2>3. /\ config'.layout = config.layout
        /\ config'.overrides = Bind(config.overrides, action, typed)
        /\ unsaved' = unsaved \cup {action}
    BY <1>4 DEF KeybindingSet, TypeInv, Config
  <2>4. \A a : a # action =>
          /\ a \in DOMAIN config'.overrides <=> a \in DOMAIN config.overrides
          /\ a \in DOMAIN config.overrides => config'.overrides[a] = config.overrides[a]
    BY <2>3 DEF Bind
  <2>5. acked' = acked /\ running' = running
    BY <1>4 DEF KeybindingSet
  <2>6. Remembered'
    BY <2>1, <2>3, <2>4, <2>5 DEF StoreInv, Remembered
  <2> QED
    BY <2>2, <2>6 DEF StoreInv
<1>5. CASE SaveStep
  <2>1. /\ op \in [kind : SaveKinds, doc : Config, step : {"write", "rename", "reply"}]
        /\ SavingConfig /\ running
    BY <1>5, SavingType DEF SaveStep
  <2>2. /\ op'.kind = op.kind /\ op'.doc = op.doc /\ SavingConfig'
        /\ UNCHANGED <<running, home, config, acked, unsaved>>
    BY <1>5, <2>1 DEF SaveStep, WriteTemp, Rename, SavingConfig
  <2>3. Remembered'
    BY <2>2 DEF StoreInv, Remembered
  <2>4. CASE op.step = "write" /\ WriteTemp
    BY <2>1, <2>2, <2>3, <2>4 DEF WriteTemp, StoreInv, Saved, Committed, Temporary
  <2>5. CASE op.step = "rename" /\ Rename
    <3>1. disk' = [disk EXCEPT ![home].config = op.doc] /\ op'.step = "reply"
      BY <2>1, <2>5 DEF Rename
    <3>2. Saved'
      BY <2>2, <3>1 DEF TypeInv, Saved, Committed
    <3>3. Temporary'
      BY <2>1, <2>2, <3>1, ConfigNotNewer DEF TypeInv, StoreInv, Temporary, Dirs
    <3> QED
      BY <2>3, <3>2, <3>3 DEF StoreInv
  <2> QED
    BY <1>5, <2>4, <2>5 DEF SaveStep
<1>6. CASE SaveFails
  BY <1>6 DEF SaveFails, StoreInv, Saved, Committed, SavingConfig, Remembered, Temporary, Idle
<1>7. CASE Finish
  <2>1. op.doc \in Config /\ Load(op.doc) = op.doc
    BY <1>7, SavingType, ConfigNotNewer DEF Finish
  <2>2. config' = op.doc /\ running
    BY <1>7 DEF Finish, Adopt, SavingConfig, StoreInv, Remembered
  <2>3. Saved'
    BY <1>7 DEF Finish, StoreInv, Saved, Committed, SavingConfig, Idle
  <2>4. Remembered'
    BY <1>7, <2>1, <2>2 DEF Finish, Remembered, Idle
  <2> QED
    BY <1>7, <2>3, <2>4 DEF Finish, StoreInv, Temporary
<1>8. CASE TrustGrant
  BY <1>8 DEF TrustGrant, StoreInv, Saved, Committed, SavingConfig, Remembered, Temporary, Idle
<1>9. CASE TrustCreate \/ TrustWrite
  <2>1. \A dir \in Dirs : disk'[dir].config = disk[dir].config
    BY <1>9 DEF TrustCreate, TrustWrite, TypeInv
  <2>2. op.kind = "trust_grant" /\ op'.kind \in {"trust_grant", "none"}
    <3>1. op.kind = "trust_grant"
      BY <1>9 DEF TrustCreate, TrustWrite, SavingTrust
    <3>2. op \in [kind : {"trust_grant"}, step : {"create", "write"}]
      BY <3>1 DEF TypeInv, Operation, Idle, SaveKinds
    <3> QED
      BY <1>9, <3>1, <3>2 DEF TrustCreate, TrustWrite, Idle
  <2>3. UNCHANGED <<running, home, config, acked, unsaved>>
    BY <1>9 DEF TrustCreate, TrustWrite
  <2> QED
    BY <2>1, <2>2, <2>3
    DEF StoreInv, Saved, Committed, SavingConfig, Remembered, Temporary, TypeInv, Dirs
<1>10. CASE TrustSaveFails
  BY <1>10 DEF TrustSaveFails, SavingTrust, StoreInv, Saved, Committed, SavingConfig,
     Remembered, Temporary, Idle
<1>11. CASE UNCHANGED StoreVars
  BY <1>11 DEF StoreVars, StoreInv, Saved, Committed, SavingConfig, Remembered, Temporary
<1>12. \/ Boot \/ Crash \/ ConfigSet \/ KeybindingSet \/ SaveStep \/ SaveFails \/ Finish
       \/ TrustGrant \/ TrustCreate \/ TrustWrite \/ TrustSaveFails
       \/ UNCHANGED StoreVars
  BY DEF Next, vars, StoreVars, Mount, Unmount, EditSetting, EditChord, ConfigGet,
         StartRun, TrustCheck, Answer, Execute
<1> QED
  BY <1>1, <1>2, <1>3, <1>4, <1>5, <1>6, <1>7, <1>8, <1>9, <1>10, <1>11, <1>12

LEMMA StoreInvariant == Spec => []StoreInv
<1>1. Init => StoreInv
  BY DEF Init, StoreInv, Saved, Committed, SavingConfig, Remembered, Temporary, Idle
<1> QED
  BY <1>1, StoreStep, WellTyped, PTL DEF Spec

\* Whenever the process dies, config.json is the config of the last save that
\* returned or of the one under way (store.rs: save).
THEOREM AlwaysCrashSafe == Spec => []CrashSafe
<1>1. StoreInv => CrashSafe
  BY DEF StoreInv, Saved, Committed, CrashSafe
<1> QED
  BY <1>1, StoreInvariant, PTL

\* Between two saves a restart would find what is in memory, but for the chords
\* whose save failed (state.rs: set_config, keybinding_set).
THEOREM MemoryAlwaysOnDisk == Spec => []MemoryOnDisk
<1>1. StoreInv => MemoryOnDisk
  BY DEF StoreInv, Saved, Committed, SavingConfig, Remembered, MemoryOnDisk, Idle
<1> QED
  BY <1>1, StoreInvariant, PTL

\* The config of a newer build is never touched: while there is one the program
\* lives in the temporary directory (mod.rs: register).
THEOREM NewerConfigAlwaysUntouched == Spec => NewerConfigUntouched
<1>1. TypeInv /\ StoreInv /\ [Next]_vars =>
        [disk["config"].config \in NewerConfig => disk'["config"] = disk["config"]]_vars
  <2> SUFFICES ASSUME TypeInv, StoreInv, [Next]_vars, disk["config"].config \in NewerConfig
               PROVE  disk'["config"] = disk["config"]
    OBVIOUS
  <2>1. CASE \E x :
               running /\ (disk' = [disk EXCEPT ![home].config = x]
                           \/ disk' = [disk EXCEPT ![home].trust = x])
    <3>1. home = "temp" /\ home # "config"
      BY <2>1 DEF StoreInv, Temporary
    <3> QED
      BY <2>1, <3>1 DEF TypeInv, Dirs
  <2>2. CASE UNCHANGED disk
    BY <2>2
  <2>3. CASE SaveStep
    BY <2>1, <2>2, <2>3 DEF SaveStep, WriteTemp, Rename
  <2>4. CASE TrustCreate
    BY <2>1, <2>4 DEF TrustCreate, SavingTrust
  <2>5. CASE TrustWrite
    BY <2>1, <2>5 DEF TrustWrite, SavingTrust
  <2>6. SaveStep \/ TrustCreate \/ TrustWrite \/ UNCHANGED disk
    BY DEF Next, vars, Boot, Crash, Mount, Unmount, EditSetting, EditChord, ConfigGet,
           ConfigSet, KeybindingSet, SaveFails, Finish, StartRun, TrustCheck, TrustGrant,
           TrustSaveFails, Answer, Execute
  <2> QED
    BY <2>2, <2>3, <2>4, <2>5, <2>6
<1> QED
  BY <1>1, WellTyped, StoreInvariant, PTL DEF Spec, NewerConfigUntouched

-----------------------------------------------------------------------------
(* The gate.                                                               *)

ApprovedFingerprints == {Fingerprint(a.found) : a \in approved}

\* What runs as it now reads in the palette without a question asked was once
\* trusted: the command found under its name, and the very command where both
\* then and now it was the one found.
Trusted(cmd, found, approvals) ==
  \E a \in approvals :
    /\ SameCommand(a.found, found)
    /\ (a.cmd = a.found /\ cmd = found) => a.cmd = cmd

\* Only commands that do not ask every time are ever approved, and what is
\* granted, in memory or on disk, is of the ones found under their names.
Granted ==
  /\ \A a \in approved : ~a.cmd.confirm
  /\ trust \subseteq ApprovedFingerprints
  /\ \A dir \in Dirs : disk[dir].trust \in {Torn} \cup SUBSET ApprovedFingerprints

\* Where a run stands on its way through the gate.
Gated ==
  /\ run.at = "check" => ~run.cmd.confirm /\ run.local
  /\ run.at = "grant" =>
       run.asked /\ Fingerprint(run.found) \in ApprovedFingerprints
  /\ GateHolds

GateInv == Granted /\ Gated

\* Of the commands that do not ask every time, no two have the same fingerprint.
LEMMA FingerprintInjective ==
  ASSUME NEW c \in Commands, NEW d \in Commands, Fingerprint(c) = Fingerprint(d)
  PROVE  SameCommand(c, d) /\ (~c.confirm /\ ~d.confirm => c = d)
<1>1. SameCommand(c, d)
  BY DEF Fingerprint, SameCommand
<1>2. /\ c \in [name : STRING, text : STRING, source : STRING, confirm : BOOLEAN]
      /\ d \in [name : STRING, text : STRING, source : STRING, confirm : BOOLEAN]
  BY ConfigurationAssumption
<1>3. ~c.confirm /\ ~d.confirm => c.confirm = d.confirm
  BY <1>2
<1> QED
  BY <1>1, <1>2, <1>3 DEF SameCommand

\* Approving more commands takes nothing back.
LEMMA ApprovedGrows ==
  ASSUME approved \subseteq approved'
  PROVE  ApprovedFingerprints \subseteq ApprovedFingerprints'
BY DEF ApprovedFingerprints

LEMMA GateStep ==
  ASSUME TypeInv, GateInv, [Next]_vars
  PROVE  GateInv'
<1> USE DEF memory, frontend, history
<1>1. CASE Boot
  <2>1. trust' \subseteq ApprovedFingerprints
    <3>1. home' \in Dirs
      BY <1>1 DEF Boot, ChooseHome, Dirs
    <3> QED
      BY <1>1, <3>1 DEF Boot, LoadTrust, GateInv, Granted
  <2> QED
    BY <1>1, <2>1 DEF Boot, GateInv, Granted, Gated, GateHolds, ApprovedFingerprints
<1>2. CASE Crash
  BY <1>2 DEF Crash, GateInv, Granted, Gated, GateHolds, ApprovedFingerprints, NoRun
<1>3. CASE \E cmd, found \in Commands, local \in BOOLEAN : StartRun(cmd, found, local)
  <2> PICK cmd \in Commands, found \in Commands, local \in BOOLEAN :
             StartRun(cmd, found, local)
    BY <1>3
  <2>1. cmd.confirm \in BOOLEAN
    BY ConfigurationAssumption
  <2>2. Gated'
    BY <2>1 DEF StartRun, Gated, GateHolds
  <2> QED
    BY <2>2 DEF StartRun, GateInv, Granted, ApprovedFingerprints
<1>4. CASE TrustCheck
  <2>1. run \in Running /\ run # NoRun /\ ~run.cmd.confirm /\ run.local
    BY <1>4 DEF TrustCheck, TypeInv, GateInv, Gated, NoRun
  <2>2. CASE NeedsConfirm(run.found, TRUE)
    <3>1. run'.at = "confirm"
      BY <1>4, <2>1, <2>2 DEF TrustCheck, Running
    <3> QED
      BY <1>4, <3>1 DEF TrustCheck, GateInv, Granted, Gated, GateHolds, ApprovedFingerprints
  <2>3. CASE ~NeedsConfirm(run.found, TRUE)
    <3>1. /\ Fingerprint(run.found) \in ApprovedFingerprints /\ ~run.found.confirm
          /\ run.cmd \in Commands /\ run.found \in Commands
      BY <2>1, <2>3 DEF NeedsConfirm, GateInv, Granted, Running
    <3>2. PICK a \in approved : Fingerprint(a.found) = Fingerprint(run.found)
      BY <3>1 DEF ApprovedFingerprints
    <3>3. a.found \in Commands /\ ~a.cmd.confirm
      BY DEF TypeInv, Approvals, GateInv, Granted
    <3>4. /\ SameCommand(a.found, run.found)
          /\ (a.cmd = a.found /\ run.cmd = run.found) => a.cmd = run.cmd
      BY <3>1, <3>2, <3>3, FingerprintInjective
    <3>5. Trusted(run.cmd, run.found, approved)
      BY <3>4 DEF Trusted
    <3>6. /\ run'.at = "execute" /\ run'.cmd = run.cmd /\ run'.local = run.local
          /\ run'.found = run.found
      BY <1>4, <2>1, <2>3 DEF TrustCheck, Running
    <3>7. approved' = approved
      BY <1>4 DEF TrustCheck
    <3>8. ~run'.cmd.confirm /\ ~run'.found.confirm
          /\ Trusted(run'.cmd, run'.found, approved')
      BY Zenon, <2>1, <3>1, <3>5, <3>6, <3>7
    <3>9. GateHolds'
      BY Zenon, <3>8 DEF GateHolds, Trusted
    <3>10. Gated'
      BY <3>6, <3>9 DEF Gated
    <3> QED
      BY <1>4, <3>10 DEF TrustCheck, GateInv, Granted, ApprovedFingerprints
  <2> QED
    BY <2>2, <2>3
<1>5. CASE TrustGrant
  <2>1. Fingerprint(run.found) \in ApprovedFingerprints
    BY <1>5 DEF TrustGrant, GateInv, Gated
  <2> QED
    BY <1>5, <2>1 DEF TrustGrant, GateInv, Granted, Gated, GateHolds, ApprovedFingerprints
<1>6. CASE TrustCreate \/ TrustWrite
  <2>1. \A dir \in Dirs : disk'[dir].trust \in {Torn} \cup SUBSET ApprovedFingerprints
    BY <1>6 DEF TrustCreate, TrustWrite, TypeInv, GateInv, Granted
  <2>2. /\ UNCHANGED <<trust, approved>>
        /\ run' = run \/ TrustWrite
    BY <1>6 DEF TrustCreate, TrustWrite
  <2>3. CASE TrustWrite
    <3>1. run.at = "grant" /\ run # NoRun /\ run' = [run EXCEPT !.at = "execute"]
      BY <2>3 DEF TrustWrite, SavingTrust, TypeInv, NoRun
    <3>2. run'.at = "execute" /\ run'.asked
      BY <3>1 DEF TypeInv, Running, GateInv, Gated
    <3> QED
      BY <2>1, <2>2, <3>2 DEF GateInv, Granted, Gated, GateHolds, ApprovedFingerprints
  <2> QED
    BY <2>1, <2>2, <2>3 DEF GateInv, Granted, Gated, GateHolds, ApprovedFingerprints
<1>7. CASE TrustSaveFails
  <2>1. run.at = "grant" /\ run # NoRun /\ run' = [run EXCEPT !.at = "execute"]
    BY <1>7 DEF TrustSaveFails, SavingTrust, TypeInv, NoRun
  <2>2. run'.at = "execute" /\ run'.asked
    BY <2>1 DEF TypeInv, Running, GateInv, Gated
  <2> QED
    BY <1>7, <2>2
    DEF TrustSaveFails, GateInv, Granted, Gated, GateHolds, ApprovedFingerprints
<1>8. CASE \E choice \in {"trust", "run-once", "cancel"} : Answer(choice)
  <2> PICK choice \in {"trust", "run-once", "cancel"} : Answer(choice)
    BY <1>8
  <2>1. run # NoRun /\ run \in Running /\ run.cmd.confirm \in BOOLEAN
    BY ConfigurationAssumption DEF Answer, TypeInv, Running, NoRun
  <2>2. \/ run' = NoRun /\ approved' = approved
        \/ /\ ~run.cmd.confirm /\ run' = [run EXCEPT !.at = "grant", !.asked = TRUE]
           /\ approved' = approved \cup {[cmd |-> run.cmd, found |-> run.found]}
        \/ /\ run' = [run EXCEPT !.at = "execute", !.asked = TRUE]
           /\ approved' = approved
    BY <2>1 DEF Answer, Running, NoRun
  <2>3. Gated'
    <3>1. CASE run' = NoRun
      BY <3>1 DEF Gated, GateHolds, NoRun
    <3>2. CASE run' = [run EXCEPT !.at = "grant", !.asked = TRUE]
               /\ approved' = approved \cup {[cmd |-> run.cmd, found |-> run.found]}
      <4>1. run'.at = "grant" /\ run'.asked /\ run'.found = run.found
        BY <2>1, <3>2 DEF Running, NoRun
      <4>2. PICK a \in approved' : a.found = run.found
        <5> DEFINE chosen == [cmd |-> run.cmd, found |-> run.found]
        <5>1. chosen \in approved' /\ chosen.found = run.found
          BY <3>2
        <5> HIDE DEF chosen
        <5> QED
          BY <5>1
      <4>3. Fingerprint(a.found) \in ApprovedFingerprints'
        BY <4>2 DEF ApprovedFingerprints
      <4>4. Fingerprint(run'.found) \in ApprovedFingerprints'
        BY <4>1, <4>2, <4>3
      <4> QED
        BY <4>1, <4>4 DEF Gated, GateHolds
    <3>3. CASE run' = [run EXCEPT !.at = "execute", !.asked = TRUE]
      <4>1. run'.at = "execute" /\ run'.asked
        BY <2>1, <3>3 DEF Running, NoRun
      <4> QED
        BY <4>1 DEF Gated, GateHolds
    <3> QED
      BY <2>2, <3>1, <3>2, <3>3
  <2>4. approved \subseteq approved' /\ \A a \in approved' : ~a.cmd.confirm
    BY <2>2 DEF GateInv, Granted
  <2>5. Granted'
    BY <2>4, ApprovedGrows DEF Answer, GateInv, Granted
  <2> QED
    BY <2>3, <2>5 DEF GateInv
<1>9. CASE Execute
  BY <1>9 DEF Execute, GateInv, Granted, Gated, GateHolds, ApprovedFingerprints, NoRun
<1>10. CASE SaveStep
  <2>1. \A dir \in Dirs : disk'[dir].trust = disk[dir].trust
    BY <1>10 DEF SaveStep, WriteTemp, Rename, TypeInv
  <2> QED
    BY <1>10, <2>1 DEF SaveStep, GateInv, Granted, Gated, GateHolds, ApprovedFingerprints
<1>11. CASE UNCHANGED <<disk, trust, run, approved>>
  BY <1>11 DEF GateInv, Granted, Gated, GateHolds, ApprovedFingerprints
<1>12. \/ Boot \/ Crash \/ (\E cmd, found \in Commands, local \in BOOLEAN : StartRun(cmd, found, local))
       \/ TrustCheck \/ TrustGrant \/ TrustCreate \/ TrustWrite \/ TrustSaveFails
       \/ (\E choice \in {"trust", "run-once", "cancel"} : Answer(choice))
       \/ Execute \/ SaveStep \/ UNCHANGED <<disk, trust, run, approved>>
  BY DEF Next, vars, Mount, Unmount, EditSetting, EditChord, ConfigGet, ConfigSet,
         KeybindingSet, SaveFails, Finish
<1> QED
  BY <1>1, <1>2, <1>3, <1>4, <1>5, <1>6, <1>7, <1>8, <1>9, <1>10, <1>11, <1>12

\* Whatever crashes, torn trust files and errors come in between, a command of a
\* project runs unasked only if the user had trusted the command now found first
\* under its name, and this very command if that is, and was, the one
\* (custom-command-runner.ts, state.rs: weft_trust_check and weft_trust_grant).
THEOREM GateAlwaysHolds == Spec => []GateHolds
<1>1. Init => GateInv
  BY DEF Init, GateInv, Granted, Gated, GateHolds, ApprovedFingerprints, NoRun, Dirs
<1>2. GateInv => GateHolds
  BY DEF GateInv, Gated
<1> QED
  BY <1>1, <1>2, GateStep, WellTyped, PTL DEF Spec
=============================================================================
