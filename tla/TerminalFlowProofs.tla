-------------------------- MODULE TerminalFlowProofs --------------------------
(***************************************************************************)
(* What the output pipeline and the terminals above it guarantee for any   *)
(* set of panes, any cap and any bounds: first the pipeline by itself      *)
(* (PtyPipeline, theorems about Spec), then the sessions that run on it    *)
(* (TerminalFlow, theorems about FlowSpec), which implement it.            *)
(***************************************************************************)
EXTENDS TerminalFlow, FiniteSetTheorems, SequenceTheorems, TLAPS

\* A reader that holds a chunk has taken one.
HoldsTakenChunk == \A i \in Incs : reader[i] = "data" => taken[i] > 0

TypeInv == TypeOK /\ HoldsTakenChunk

\* What a flush sends for an entry, and what it leaves, has the right type.
LEMMA FlushedType ==
  ASSUME NEW e \in Entry
  PROVE  /\ Messages(e) \in Seq(Chunk \cup {Eof})
         /\ Flushed(e) \in Entry
<1>1. e.buf \in Seq(Chunk) /\ <<>> \in Seq(Chunk)
  BY DEF Entry
<1>2. Batch(e) \in Seq(Chunk \cup {Eof}) /\ Left(e) \in Seq(Chunk)
  BY <1>1 DEF Batch, Left
<1>3. Messages(e) \in Seq(Chunk \cup {Eof})
  <2> DEFINE tail == IF Finished(e) THEN <<Eof>> ELSE <<>>
  <2>1. tail \in Seq(Chunk \cup {Eof})
    OBVIOUS
  <2> QED
    BY <1>2, <2>1, ConcatProperties DEF Messages
<1>4. NoEntry \in Entry
  BY ConstantsAssumption, <1>1 DEF NoEntry, Entry
<1>5. [e EXCEPT !.buf = Left(e), !.aged = IF FlushDue(e) THEN FALSE ELSE @] \in Entry
  BY <1>2 DEF Entry
<1> QED
  BY <1>3, <1>4, <1>5 DEF Flushed

\* The state of a main thread with nothing to do is a command state.
LEMMA IdleType ==
  Idle.at = "idle" /\ Idle \in [at : CmdStates, pane : Panes \cup {NoPane}, inc : 0..MaxSpawns]
  BY ConstantsAssumption DEF Idle, CmdStates

\* Every variable keeps its type, for every value of the constants.
LEMMA TypeInit == Init => TypeInv
<1> SUFFICES ASSUME Init PROVE TypeInv
  OBVIOUS
<1>1. NoEntry \in Entry
  BY ConstantsAssumption DEF NoEntry, Entry
<1>2. cmd \in [at : CmdStates, pane : Panes \cup {NoPane}, inc : 0..MaxSpawns]
  BY ConstantsAssumption DEF Init, Idle, CmdStates
<1>3. cmd.at = "idle"
  BY DEF Init, Idle
<1> QED
  BY <1>1, <1>2, <1>3, ConstantsAssumption
  DEF Init, TypeInv, TypeOK, HoldsTakenChunk, ReaderStates, ShellStates, Incs

\* Spawn and kill, the commands of the main thread.
LEMMA TypeCommands ==
  ASSUME TypeInv,
         CommandStep \/ \E p \in Panes : \/ SpawnRegister(p) \/ KillTake(p)
                                        \/ \E v \in BOOLEAN : SetPause(p, v)
  PROVE  TypeInv'
<1> USE ConstantsAssumption DEF Incs
<1>1. NoEntry \in Entry /\ \A i \in Incs : FreshEntry(i) \in Entry
  BY DEF NoEntry, FreshEntry, Entry
<1>2. ASSUME NEW p \in Panes, SpawnRegister(p) PROVE TypeInv'
  <2>1. spawned + 1 \in Incs
    BY <1>2 DEF SpawnRegister, TypeInv, TypeOK
  <2>2. shell' \in [Incs -> ShellStates] /\ hub' \in [Panes -> Entry]
    BY <1>1, <1>2, <2>1 DEF SpawnRegister, TypeInv, TypeOK, ShellStates
  <2>3. overlap' \in SUBSET Incs
    BY <1>2, <2>1 DEF SpawnRegister, TypeInv, TypeOK, LiveReaders
  <2>4. /\ cmd' \in [at : CmdStates, pane : Panes \cup {NoPane}, inc : 0..MaxSpawns]
        /\ cmd'.pane \in Panes /\ cmd'.inc \in Incs
    BY <1>2, <2>1 DEF SpawnRegister, CmdStates
  <2> QED
    BY <1>2, <2>1, <2>2, <2>3, <2>4 DEF SpawnRegister, TypeInv, TypeOK, HoldsTakenChunk
<1>3. CASE SpawnAdmit
  BY <1>3 DEF SpawnAdmit, TypeInv, TypeOK, HoldsTakenChunk, CmdStates, ReaderStates
<1>4. CASE SpawnReject
  <2>1. /\ cmd' \in [at : CmdStates, pane : Panes \cup {NoPane}, inc : 0..MaxSpawns]
        /\ cmd'.pane \in Panes /\ cmd'.inc \in Incs
    BY <1>4 DEF SpawnReject, TypeInv, TypeOK, CmdStates
  <2> QED
    BY <1>4, <2>1 DEF SpawnReject, TypeInv, TypeOK, HoldsTakenChunk
<1>5. CASE SpawnUnregister
  <2>1. hub' \in [Panes -> Entry] /\ shell' \in [Incs -> ShellStates]
    BY <1>1, <1>5 DEF SpawnUnregister, TypeInv, TypeOK, ShellStates
  <2> QED
    BY <1>5, <2>1, IdleType DEF SpawnUnregister, TypeInv, TypeOK, HoldsTakenChunk
<1>6. CASE SpawnInsert
  <2>1. handle' \in [Panes -> 0..MaxSpawns]
    BY <1>6 DEF SpawnInsert, TypeInv, TypeOK
  <2> QED
    BY <1>6, <2>1, IdleType DEF SpawnInsert, TypeInv, TypeOK, HoldsTakenChunk
<1>7. ASSUME NEW p \in Panes, KillTake(p) PROVE TypeInv'
  <2>1. handle[p] \in Incs
    BY <1>7 DEF KillTake, TypeInv, TypeOK
  <2>2. /\ cmd' \in [at : CmdStates, pane : Panes \cup {NoPane}, inc : 0..MaxSpawns]
        /\ cmd'.pane \in Panes /\ cmd'.inc \in Incs
    BY <1>7, <2>1 DEF KillTake, CmdStates
  <2>3. handle' \in [Panes -> 0..MaxSpawns]
    BY <1>7 DEF KillTake, TypeInv, TypeOK
  <2> QED
    BY <1>7, <2>2, <2>3 DEF KillTake, TypeInv, TypeOK, HoldsTakenChunk
<1>8. CASE KillUnhook
  <2>1. hub' \in [Panes -> Entry]
    BY <1>1, <1>8 DEF KillUnhook, TypeInv, TypeOK
  <2>2. /\ cmd' \in [at : CmdStates, pane : Panes \cup {NoPane}, inc : 0..MaxSpawns]
        /\ cmd'.pane \in Panes /\ cmd'.inc \in Incs
    BY <1>8 DEF KillUnhook, TypeInv, TypeOK, CmdStates
  <2> QED
    BY <1>8, <2>1, <2>2 DEF KillUnhook, TypeInv, TypeOK, HoldsTakenChunk
<1>9. CASE KillChild
  <2>1. shell' \in [Incs -> ShellStates]
    BY <1>9 DEF KillChild, TypeInv, TypeOK, ShellStates
  <2> QED
    BY <1>9, <2>1, IdleType DEF KillChild, TypeInv, TypeOK, HoldsTakenChunk
<1>10. ASSUME NEW p \in Panes, NEW v \in BOOLEAN, SetPause(p, v) PROVE TypeInv'
  <2>1. pause' \in [Incs -> BOOLEAN]
    BY <1>10 DEF SetPause, TypeInv, TypeOK
  <2> QED
    BY <1>10, <2>1 DEF SetPause, TypeInv, TypeOK, HoldsTakenChunk
<1> QED
  BY <1>2, <1>3, <1>4, <1>5, <1>6, <1>7, <1>8, <1>9, <1>10 DEF CommandStep

\* The shells and the reader threads.
LEMMA TypeThreads ==
  ASSUME TypeInv, NEW i \in Incs,
         \/ ShellWrite(i) \/ ShellExit(i)
         \/ ReaderRead(i) \/ ReaderInterrupted(i) \/ ReaderStep(i)
  PROVE  TypeInv'
<1> USE ConstantsAssumption DEF mainVars, readVars
<1>1. CASE ShellWrite(i)
  BY <1>1 DEF ShellWrite, TypeInv, TypeOK, HoldsTakenChunk
<1>2. CASE ShellExit(i)
  BY <1>2 DEF ShellExit, TypeInv, TypeOK, HoldsTakenChunk, ShellStates
<1>3. CASE ReaderReadChunk(i)
  BY <1>3 DEF ReaderReadChunk, TypeInv, TypeOK, HoldsTakenChunk, ReaderStates
<1>4. CASE ReaderReadEof(i)
  BY <1>4 DEF ReaderReadEof, TypeInv, TypeOK, HoldsTakenChunk, ReaderStates
<1>5. CASE ReaderInterrupted(i)
  BY <1>5 DEF ReaderInterrupted, TypeInv, TypeOK, HoldsTakenChunk, ReaderStates
<1>6. CASE ReaderCheck(i)
  BY <1>6 DEF ReaderCheck, TypeInv, TypeOK, HoldsTakenChunk, ReaderStates
<1>7. CASE ReaderOnData(i)
  <2> DEFINE c == <<i, taken[i]>>
  <2>1. c \in Chunk
    BY <1>7 DEF ReaderOnData, TypeInv, TypeOK, HoldsTakenChunk, Chunk
  <2>2. ASSUME NEW e \in Entry PROVE Push(e, c) \in Entry
    <3>1. Append(e.buf, c) \in Seq(Chunk)
      BY <2>1, AppendProperties DEF Entry
    <3> QED
      BY <3>1 DEF Push, Entry
  <2>3. hub' \in [Panes -> Entry]
    BY <1>7, <2>2 DEF ReaderOnData, TypeInv, TypeOK
  <2> QED
    BY <1>7, <2>3 DEF ReaderOnData, TypeInv, TypeOK, HoldsTakenChunk, ReaderStates
<1>8. CASE ReaderOnEof(i)
  <2>1. hub' \in [Panes -> Entry]
    BY <1>8 DEF ReaderOnEof, TypeInv, TypeOK, Entry
  <2> QED
    BY <1>8, <2>1 DEF ReaderOnEof, TypeInv, TypeOK, HoldsTakenChunk, ReaderStates
<1>9. CASE ReaderRelease(i)
  BY <1>9 DEF ReaderRelease, TypeInv, TypeOK, HoldsTakenChunk, ReaderStates
<1> QED
  BY <1>1, <1>2, <1>3, <1>4, <1>5, <1>6, <1>7, <1>8, <1>9 DEF ReaderRead, ReaderStep

\* The flusher and the clock.
LEMMA TypeFlusher ==
  ASSUME TypeInv, FlushTick \/ \E p \in Panes : WindowElapses(p)
  PROVE  TypeInv'
<1> USE ConstantsAssumption DEF mainVars, readVars
<1>1. CASE FlushTick
  <2>1. hub' \in [Panes -> Entry]
    BY <1>1, FlushedType DEF FlushTick, TypeInv, TypeOK
  <2>2. sent' \in [Incs -> Seq(Chunk \cup {Eof})]
    <3>1. \A p \in Panes : Messages(hub[p]) \in Seq(Chunk \cup {Eof})
      BY FlushedType DEF TypeInv, TypeOK
    <3>2. \A i \in Incs : sent[i] \in Seq(Chunk \cup {Eof})
      BY DEF TypeInv, TypeOK
    <3>3. \A i \in Incs, p \in Panes :
            sent[i] \o Messages(hub[p]) \in Seq(Chunk \cup {Eof})
      BY <3>1, <3>2, ConcatProperties
    <3> QED
      BY <1>1, <3>2, <3>3 DEF FlushTick
  <2> QED
    BY <1>1, <2>1, <2>2 DEF FlushTick, TypeInv, TypeOK, HoldsTakenChunk
<1>2. ASSUME NEW p \in Panes, WindowElapses(p) PROVE TypeInv'
  <2>1. \A e \in Entry : [e EXCEPT !.aged = TRUE] \in Entry
    BY DEF Entry
  <2>2. hub' \in [Panes -> Entry]
    BY <1>2, <2>1 DEF WindowElapses, TypeInv, TypeOK
  <2> QED
    BY <1>2, <2>2 DEF WindowElapses, TypeInv, TypeOK, HoldsTakenChunk
<1> QED
  BY <1>1, <1>2

\* Every step of the pipeline, and every stuttering step, keeps the types.
LEMMA TypeNext == TypeInv /\ [Next]_vars => TypeInv'
<1>1. ASSUME TypeInv, Next PROVE TypeInv'
  BY <1>1, TypeCommands, TypeThreads, TypeFlusher DEF Next
<1>2. ASSUME TypeInv, UNCHANGED vars PROVE TypeInv'
  BY <1>2 DEF vars, TypeInv, TypeOK, HoldsTakenChunk
<1> QED
  BY <1>1, <1>2

\* The strengthened type invariant holds in every behaviour.
LEMMA TypeInvariant == Spec => []TypeInv
  BY TypeInit, TypeNext, PTL DEF Spec

\* The pipeline's state keeps its type whatever the panes, the caps and the
\* bounds are.
THEOREM TypeCorrect == Spec => []TypeOK
<1>1. TypeInv => TypeOK
  BY DEF TypeInv
<1> QED
  BY <1>1, TypeInvariant, PTL
-----------------------------------------------------------------------------
(* The pool.  SlotAccounting alone is not inductive: admitting a pane is    *)
(* sound only because the incarnation on the main thread is the newest, has *)
(* no reader yet, and carries the pane id that is being admitted.           *)

SlotInv ==
  /\ SlotAccounting
  /\ \A i \in Incs : i > spawned => reader[i] = "none"
  /\ cmd.at = "admit" => /\ cmd.inc <= spawned
                         /\ paneOf[cmd.inc] = cmd.pane
                         /\ reader[cmd.inc] = "none"

\* There are finitely many reader threads: the bound numbers the spawns.
LEMMA LiveReadersFinite == IsFiniteSet(LiveReaders)
<1>1. IsFiniteSet(Incs)
  BY FS_Interval, ConstantsAssumption DEF Incs
<1>2. LiveReaders \in SUBSET Incs
  BY DEF LiveReaders
<1> QED
  BY <1>1, <1>2, FS_Subset

\* The pool's set is finite, being the panes of the reader threads.
LEMMA ActiveFinite == SlotAccounting => IsFiniteSet(active)
<1> SUFFICES ASSUME SlotAccounting PROVE IsFiniteSet(active)
  OBVIOUS
<1> DEFINE f == [i \in LiveReaders |-> paneOf[i]]
<1>1. f \in Surjection(LiveReaders, active)
  BY DEF SlotAccounting, Surjection
<1> QED
  BY <1>1, LiveReadersFinite, FS_Surjection

\* With at most one thread to a pane there are as many panes as threads.
LEMMA ThreadsAsPanes ==
  ASSUME SlotAccounting
  PROVE  Cardinality(LiveReaders) <= Cardinality(active)
<1> DEFINE f == [i \in LiveReaders |-> paneOf[i]]
<1>1. f \in Injection(LiveReaders, active)
  BY DEF SlotAccounting, Injection, IsInjective
<1> QED
  BY <1>1, ActiveFinite, FS_Injection

\* A step that leaves the threads, their panes and the set alone.
LEMMA SlotUnchanged ==
  ASSUME SlotInv, LiveReaders' = LiveReaders, active' = active,
         \A i \in LiveReaders : paneOf'[i] = paneOf[i]
  PROVE  SlotAccounting'
  BY DEF SlotInv, SlotAccounting

\* A reader thread that moves on inside its loop is the same set of threads.
LEMMA SlotReaderMoves ==
  ASSUME TypeInv, SlotInv, NEW i \in Incs, HasReader(i),
         NEW at \in {"check", "read", "data", "eof", "release"},
         reader' = [reader EXCEPT ![i] = at],
         UNCHANGED <<cmd, spawned, paneOf, active>>
  PROVE  SlotInv'
<1>1. LiveReaders' = LiveReaders
  BY DEF LiveReaders, HasReader, TypeInv, TypeOK
<1>2. SlotAccounting'
  BY <1>1, SlotUnchanged
<1>3. i <= spawned /\ (cmd.at = "admit" => i # cmd.inc)
  BY DEF SlotInv, HasReader, TypeInv, TypeOK, Incs
<1> QED
  BY <1>2, <1>3 DEF SlotInv, TypeInv, TypeOK, Incs

\* Spawn and kill keep the pool's books: only an admission changes them, and
\* it checked the cap and the pane id first.
LEMMA SlotCommands ==
  ASSUME TypeInv, SlotInv,
         CommandStep \/ \E p \in Panes : \/ SpawnRegister(p) \/ KillTake(p)
                                        \/ \E v \in BOOLEAN : SetPause(p, v)
  PROVE  SlotInv'
<1>1. ASSUME NEW p \in Panes, SpawnRegister(p) PROVE SlotInv'
  <2>1. spawned + 1 \in Incs /\ reader[spawned + 1] = "none"
    BY <1>1, ConstantsAssumption DEF SpawnRegister, SlotInv, TypeInv, TypeOK, Incs
  <2>2. LiveReaders' = LiveReaders /\ spawned + 1 \notin LiveReaders
    BY <1>1, <2>1 DEF SpawnRegister, LiveReaders, HasReader
  <2>3. \A i \in LiveReaders : paneOf'[i] = paneOf[i]
    BY <1>1, <2>2 DEF SpawnRegister, LiveReaders, TypeInv, TypeOK
  <2>4. SlotAccounting'
    BY <1>1, <2>2, <2>3, SlotUnchanged DEF SpawnRegister
  <2>5. paneOf'[spawned + 1] = p
    BY <1>1, <2>1 DEF SpawnRegister, TypeInv, TypeOK
  <2> QED
    BY <1>1, <2>1, <2>4, <2>5 DEF SpawnRegister, SlotInv, TypeInv, TypeOK, Incs
<1>2. CASE SpawnAdmit
  <2> DEFINE i == cmd.inc
  <2>1. i \in Incs /\ paneOf[i] = cmd.pane /\ reader[i] = "none" /\ cmd.pane \notin active
    BY <1>2 DEF SpawnAdmit, SlotInv, TypeInv, TypeOK, CanAdmit
  <2>2. LiveReaders' = LiveReaders \cup {i} /\ i \notin LiveReaders
    BY <1>2, <2>1 DEF SpawnAdmit, LiveReaders, HasReader, TypeInv, TypeOK
  <2>3. active' = {paneOf[j] : j \in LiveReaders'}
    BY <1>2, <2>1, <2>2 DEF SpawnAdmit, SlotInv, SlotAccounting
  <2>4. \A j \in LiveReaders : paneOf[j] # paneOf[i]
    BY <2>1 DEF SlotInv, SlotAccounting
  <2>5. Cardinality(LiveReaders') <= Cap
    <3>1. Cardinality(LiveReaders) \in Nat /\ Cardinality(active) \in Nat
      BY LiveReadersFinite, FS_CardinalityType, ActiveFinite DEF SlotInv
    <3>2. Cardinality(LiveReaders') = Cardinality(LiveReaders) + 1
      BY <2>2, LiveReadersFinite, FS_AddElement
    <3>3. Cardinality(active) < Cap
      BY <1>2 DEF SpawnAdmit, CanAdmit
    <3> QED
      BY <3>1, <3>2, <3>3, ThreadsAsPanes, ConstantsAssumption DEF SlotInv
  <2>6. SlotAccounting'
    BY <1>2, <2>2, <2>3, <2>4, <2>5 DEF SpawnAdmit, SlotInv, SlotAccounting
  <2>7. i <= spawned
    BY <1>2 DEF SpawnAdmit, SlotInv
  <2> QED
    BY <1>2, <2>1, <2>6, <2>7 DEF SpawnAdmit, SlotInv, TypeInv, TypeOK, Incs
<1>3. ASSUME SpawnReject \/ SpawnUnregister \/ SpawnInsert \/ KillUnhook \/ KillChild
      PROVE  SlotInv'
  <2>1. UNCHANGED <<spawned, paneOf, active, reader>> /\ cmd'.at # "admit"
    BY <1>3 DEF SpawnReject, SpawnUnregister, SpawnInsert, KillUnhook, KillChild, Idle,
                TypeInv, TypeOK
  <2> QED
    BY <2>1 DEF SlotInv, SlotAccounting, LiveReaders, HasReader
<1>4. ASSUME NEW p \in Panes, KillTake(p) PROVE SlotInv'
  BY <1>4 DEF KillTake, SlotInv, SlotAccounting, LiveReaders, HasReader
<1>5. ASSUME NEW p \in Panes, NEW v \in BOOLEAN, SetPause(p, v) PROVE SlotInv'
  BY <1>5 DEF SetPause, SlotInv, SlotAccounting, LiveReaders, HasReader
<1> QED
  BY <1>1, <1>2, <1>3, <1>4, <1>5 DEF CommandStep

\* The shells and the reader threads keep the pool's books: only a release
\* changes them, and it takes out the one thread the pane had.
LEMMA SlotThreads ==
  ASSUME TypeInv, SlotInv, NEW i \in Incs,
         \/ ShellWrite(i) \/ ShellExit(i)
         \/ ReaderRead(i) \/ ReaderInterrupted(i) \/ ReaderStep(i)
  PROVE  SlotInv'
<1> USE DEF mainVars, readVars
<1>1. CASE ShellWrite(i) \/ ShellExit(i)
  BY <1>1 DEF ShellWrite, ShellExit, SlotInv, SlotAccounting, LiveReaders, HasReader
<1>2. CASE \/ ReaderReadChunk(i) \/ ReaderReadEof(i) \/ ReaderInterrupted(i)
           \/ ReaderCheck(i) \/ ReaderOnData(i) \/ ReaderOnEof(i)
  <2>1. HasReader(i) /\ UNCHANGED <<cmd, spawned, paneOf, active>>
    BY <1>2 DEF ReaderReadChunk, ReaderReadEof, ReaderInterrupted, ReaderCheck,
                ReaderOnData, ReaderOnEof, HasReader
  <2>2. \E at \in {"check", "read", "data", "eof", "release"} :
          reader' = [reader EXCEPT ![i] = at]
    BY <1>2 DEF ReaderReadChunk, ReaderReadEof, ReaderInterrupted, ReaderCheck,
                ReaderOnData, ReaderOnEof
  <2> QED
    BY <2>1, <2>2, SlotReaderMoves
<1>3. CASE ReaderRelease(i)
  <2>1. i \in LiveReaders /\ LiveReaders' = LiveReaders \ {i}
    BY <1>3 DEF ReaderRelease, LiveReaders, HasReader, TypeInv, TypeOK
  <2>2. active' = {paneOf[j] : j \in LiveReaders'}
    BY <1>3, <2>1 DEF ReaderRelease, SlotInv, SlotAccounting
  <2>3. Cardinality(LiveReaders') <= Cap
    <3>1. Cardinality(LiveReaders') <= Cardinality(LiveReaders)
      BY <2>1, LiveReadersFinite, FS_Subset
    <3>2. Cardinality(LiveReaders) \in Nat /\ Cardinality(LiveReaders') \in Nat
      BY <2>1, LiveReadersFinite, FS_Subset, FS_CardinalityType
    <3> QED
      BY <3>1, <3>2, ConstantsAssumption DEF SlotInv, SlotAccounting
  <2>4. SlotAccounting'
    BY <1>3, <2>1, <2>2, <2>3 DEF ReaderRelease, SlotInv, SlotAccounting
  <2>5. i <= spawned /\ (cmd.at = "admit" => i # cmd.inc)
    BY <1>3 DEF ReaderRelease, SlotInv, TypeInv, TypeOK, Incs
  <2> QED
    BY <1>3, <2>4, <2>5 DEF ReaderRelease, SlotInv, TypeInv, TypeOK, Incs
<1> QED
  BY <1>1, <1>2, <1>3 DEF ReaderRead, ReaderStep

\* The pool starts empty and in balance.
LEMMA SlotInit == Init => SlotInv
<1> SUFFICES ASSUME Init PROVE SlotInv
  OBVIOUS
<1>1. LiveReaders = {}
  BY DEF Init, LiveReaders, HasReader
<1>2. Cardinality(LiveReaders) = 0
  BY <1>1, FS_EmptySet
<1> QED
  BY <1>1, <1>2, ConstantsAssumption DEF Init, Idle, SlotInv, SlotAccounting

\* The flusher, the clock and the pause commands do not touch the pool.
LEMMA SlotFlusher ==
  ASSUME SlotInv, FlushTick \/ \E p \in Panes : WindowElapses(p)
  PROVE  SlotInv'
<1>1. UNCHANGED <<cmd, spawned, paneOf, active, reader>>
  BY DEF FlushTick, WindowElapses, mainVars, readVars
<1> QED
  BY <1>1 DEF SlotInv, SlotAccounting, LiveReaders, HasReader

\* Every step keeps the pool's books in balance.
LEMMA SlotNext == TypeInv /\ SlotInv /\ [Next]_vars => SlotInv'
<1>1. ASSUME TypeInv, SlotInv,
             \/ CommandStep
             \/ \E p \in Panes : \/ SpawnRegister(p) \/ KillTake(p)
                              \/ \E v \in BOOLEAN : SetPause(p, v)
      PROVE  SlotInv'
  BY <1>1, SlotCommands
<1>2. ASSUME TypeInv, SlotInv, Next PROVE SlotInv'
  BY <1>1, <1>2, SlotThreads, SlotFlusher DEF Next
<1>3. ASSUME SlotInv, UNCHANGED vars PROVE SlotInv'
  BY <1>3 DEF vars, SlotInv, SlotAccounting, LiveReaders, HasReader
<1> QED
  BY <1>2, <1>3

\* The pool's books balance whatever the cap: its set names exactly the panes
\* with a live reader thread, one thread each, and never more than the cap.
THEOREM SlotsAccounted == Spec => []SlotAccounting
<1>1. SlotInv => SlotAccounting
  BY DEF SlotInv
<1>2. Spec => []SlotInv
  BY SlotInit, SlotNext, TypeInvariant, PTL DEF Spec
<1> QED
  BY <1>1, <1>2, PTL
-----------------------------------------------------------------------------
(* The end marker.  A sink is told "closed" in the step that takes its     *)
(* entry out of the hub, and no step ever puts that sink back: every entry *)
(* is registered with the sink of a new incarnation.                       *)

Ended(i) == \E a \in DOMAIN sent[i] : sent[i][a] = Eof

EofInv ==
  /\ \A p \in Panes : hub[p].sink <= spawned
  /\ \A p, q \in Panes : hub[p].sink = hub[q].sink /\ hub[p].sink # 0 => p = q
  /\ \A i \in Incs : i > spawned => ~Ended(i)
  /\ \A i \in Incs : Ended(i) => \A p \in Panes : hub[p].sink # i
  /\ NothingAfterEof

\* In what one flush sends for an entry the end marker can only be last, and
\* it is there only when the entry goes.
LEMMA MarkerLast ==
  ASSUME NEW e \in Entry, NEW k \in DOMAIN Messages(e), Messages(e)[k] = Eof
  PROVE  Finished(e) /\ k = Len(Messages(e))
<1>1. Batch(e) \in Seq(Chunk)
  BY DEF Batch, Entry
<1>2. \A n \in 1..Len(Batch(e)) : Batch(e)[n] # Eof
  BY <1>1, ElementOfSeq, EofAssumption
<1>3. CASE Finished(e)
  <2>1. Messages(e) = Batch(e) \o <<Eof>>
    BY <1>3 DEF Messages
  <2>2. /\ Len(Messages(e)) = Len(Batch(e)) + 1
        /\ \A n \in 1..Len(Batch(e)) : Messages(e)[n] = Batch(e)[n]
        /\ DOMAIN Messages(e) = 1..Len(Batch(e)) + 1
    BY <1>1, <2>1
  <2> QED
    BY <1>1, <1>2, <1>3, <2>2
<1>4. CASE ~Finished(e)
  <2>1. Messages(e) = Batch(e) \o <<>>
    BY <1>4 DEF Messages
  <2>2. Messages(e) = Batch(e)
    BY <1>1, <2>1
  <2> QED
    BY <1>1, <1>2, <2>2
<1> QED
  BY <1>3, <1>4

\* A flush leaves an entry with the sink it had, or with none.
LEMMA FlushedSink ==
  ASSUME NEW e \in Entry
  PROVE  Flushed(e).sink = IF Finished(e) THEN 0 ELSE e.sink
  BY DEF Flushed, NoEntry, Entry

\* The sinks of the hub's entries are numbers that can be compared.
LEMMA SinkNat ==
  ASSUME NEW e \in Entry
  PROVE  e.sink \in 0..MaxSpawns /\ e.sink \in Nat
  BY ConstantsAssumption DEF Entry

\* A step that sends nothing and registers no sink keeps the invariant.
LEMMA EofFrame ==
  ASSUME TypeInv, EofInv, sent' = sent, spawned' = spawned,
         \A p \in Panes : hub'[p].sink \in {hub[p].sink, 0}
  PROVE  EofInv'
<1>1. spawned \in Nat /\ \A p \in Panes : hub[p].sink \in Nat
  BY ConstantsAssumption, SinkNat DEF TypeInv, TypeOK
<1>2. \A i \in Incs : Ended(i)' <=> Ended(i)
  BY DEF Ended
<1>3. NothingAfterEof'
  BY DEF EofInv, NothingAfterEof
<1>4. \A p \in Panes : hub'[p].sink <= spawned'
  BY <1>1 DEF EofInv
<1>5. \A p, q \in Panes : hub'[p].sink = hub'[q].sink /\ hub'[p].sink # 0 => p = q
  BY DEF EofInv
<1>6. \A i \in Incs : Ended(i)' => \A p \in Panes : hub'[p].sink # i
  BY <1>2 DEF EofInv, Incs
<1> QED
  BY <1>2, <1>3, <1>4, <1>5, <1>6 DEF EofInv

\* Spawn and kill put no sink that was told of an end back into the hub: a
\* spawn registers a sink that has not been used yet.
LEMMA EofCommands ==
  ASSUME TypeInv, EofInv,
         CommandStep \/ \E p \in Panes : \/ SpawnRegister(p) \/ KillTake(p)
                                        \/ \E v \in BOOLEAN : SetPause(p, v)
  PROVE  EofInv'
<1>1. ASSUME NEW p \in Panes, SpawnRegister(p) PROVE EofInv'
  <2> DEFINE i == spawned + 1
  <2>1. i \in Incs /\ spawned' = i /\ sent' = sent
    BY <1>1, ConstantsAssumption DEF SpawnRegister, TypeInv, TypeOK, Incs
  <2>2. hub'[p].sink = i /\ \A q \in Panes \ {p} : hub'[q] = hub[q]
    BY <1>1 DEF SpawnRegister, FreshEntry, TypeInv, TypeOK
  <2>3. \A q \in Panes : hub[q].sink \in 0..MaxSpawns /\ hub[q].sink # i
    BY <2>1 DEF EofInv, TypeInv, TypeOK, Entry, Incs
  <2>4. ~Ended(i)
    BY <2>1 DEF EofInv, Incs, TypeInv, TypeOK
  <2>5. \A j \in Incs : Ended(j)' <=> Ended(j)
    BY <2>1 DEF Ended
  <2>6. NothingAfterEof'
    BY <2>1 DEF EofInv, NothingAfterEof
  <2>7. spawned \in Nat /\ \A q \in Panes : hub[q].sink \in Nat
    BY ConstantsAssumption, SinkNat DEF TypeInv, TypeOK
  <2>8. \A q \in Panes : hub'[q].sink <= spawned'
    BY <2>1, <2>2, <2>7 DEF EofInv
  <2>9. \A q, r \in Panes : hub'[q].sink = hub'[r].sink /\ hub'[q].sink # 0 => q = r
    BY <2>2, <2>3 DEF EofInv
  <2>10. \A j \in Incs : j > spawned' => ~Ended(j)'
    BY <2>1, <2>5, <2>7 DEF EofInv, Incs
  <2>11. \A j \in Incs : Ended(j)' => \A q \in Panes : hub'[q].sink # j
    BY <2>2, <2>4, <2>5 DEF EofInv
  <2> QED
    BY <2>6, <2>8, <2>9, <2>10, <2>11 DEF EofInv
<1>2. CASE SpawnUnregister \/ KillUnhook
  <2>1. /\ sent' = sent /\ spawned' = spawned
        /\ hub' = [hub EXCEPT ![cmd.pane] = NoEntry]
    BY <1>2 DEF SpawnUnregister, KillUnhook
  <2>2. hub \in [Panes -> Entry] /\ NoEntry.sink = 0
    BY DEF TypeInv, TypeOK, NoEntry
  <2>3. \A p \in Panes : hub'[p].sink \in {hub[p].sink, 0}
    BY <2>1, <2>2
  <2> QED
    BY <2>1, <2>3, EofFrame
<1>3. CASE SpawnAdmit \/ SpawnReject \/ SpawnInsert \/ KillChild
  BY <1>3, EofFrame DEF SpawnAdmit, SpawnReject, SpawnInsert, KillChild
<1>4. ASSUME NEW p \in Panes, NEW v \in BOOLEAN, KillTake(p) \/ SetPause(p, v)
      PROVE  EofInv'
  BY <1>4, EofFrame DEF KillTake, SetPause
<1> QED
  BY <1>1, <1>2, <1>3, <1>4 DEF CommandStep

\* The shells and the readers send nothing: only the flusher does.
LEMMA EofThreads ==
  ASSUME TypeInv, EofInv, NEW i \in Incs,
         \/ ShellWrite(i) \/ ShellExit(i)
         \/ ReaderRead(i) \/ ReaderInterrupted(i) \/ ReaderStep(i)
  PROVE  EofInv'
<1> USE DEF mainVars, readVars
<1>1. CASE ShellWrite(i) \/ ShellExit(i) \/ ReaderInterrupted(i)
  BY <1>1, EofFrame DEF ShellWrite, ShellExit, ReaderInterrupted
<1>2. CASE ReaderRead(i) \/ ReaderCheck(i) \/ ReaderRelease(i)
  BY <1>2, EofFrame DEF ReaderRead, ReaderReadChunk, ReaderReadEof, ReaderCheck,
                        ReaderRelease
<1>3. CASE ReaderOnData(i) \/ ReaderOnEof(i)
  <2>1. \A e \in Entry, c \in Incs \X Nat : Push(e, c).sink = e.sink
    BY DEF Push, Entry
  <2>2. <<i, taken[i]>> \in Incs \X Nat
    BY ConstantsAssumption DEF TypeInv, TypeOK
  <2>3. \A p \in Panes : hub'[p].sink = hub[p].sink
    <3>1. CASE ReaderOnData(i)
      BY <3>1, <2>1, <2>2 DEF ReaderOnData, TypeInv, TypeOK
    <3>2. CASE ReaderOnEof(i)
      BY <3>2 DEF ReaderOnEof, TypeInv, TypeOK, Entry
    <3> QED
      BY <1>3, <3>1, <3>2
  <2> QED
    BY <1>3, <2>3, EofFrame DEF ReaderOnData, ReaderOnEof
<1> QED
  BY <1>1, <1>2, <1>3 DEF ReaderStep

\* What a flush does to the sink of an entry p.
LEMMA FlushAppends ==
  ASSUME TypeInv, EofInv, FlushTick, NEW p \in Panes, hub[p].sink \in Incs
  PROVE  sent'[hub[p].sink] = sent[hub[p].sink] \o Messages(hub[p])
<1> DEFINE i == hub[p].sink
<1>1. i # 0
  BY DEF Incs
<1>2. (CHOOSE q \in Panes : hub[q].sink = i) = p
  BY <1>1 DEF EofInv
<1> QED
  BY <1>2 DEF FlushTick, TypeInv, TypeOK

\* A flush sends to the sinks in the hub only, none of which was told of an
\* end, and takes those it tells of one out of the hub.
LEMMA EofFlush ==
  ASSUME TypeInv, EofInv, FlushTick
  PROVE  EofInv'
<1> USE ConstantsAssumption DEF mainVars
<1>1. \A p \in Panes : hub[p] \in Entry /\ hub'[p] = Flushed(hub[p])
  BY DEF FlushTick, TypeInv, TypeOK
<1>2. \A p \in Panes : hub'[p].sink = IF Finished(hub[p]) THEN 0 ELSE hub[p].sink
  BY <1>1, FlushedSink
<1>3. spawned' = spawned
  BY DEF FlushTick
<1>4. ASSUME NEW i \in Incs, \A p \in Panes : hub[p].sink # i
      PROVE  sent'[i] = sent[i]
  BY <1>4 DEF FlushTick, TypeInv, TypeOK
<1>5. ASSUME NEW p \in Panes, NEW i \in Incs, hub[p].sink = i
      PROVE  \A a \in DOMAIN sent'[i] :
               sent'[i][a] = Eof => a = Len(sent'[i]) /\ Finished(hub[p])
  <2> DEFINE m == Messages(hub[p])
  <2>1. sent[i] \in Seq(Chunk \cup {Eof}) /\ m \in Seq(Chunk \cup {Eof})
    BY <1>1, FlushedType DEF TypeInv, TypeOK
  <2>2. sent'[i] = sent[i] \o m
    BY <1>5, FlushAppends
  <2>3. ~Ended(i)
    BY <1>5 DEF EofInv
  <2>4. \A k \in DOMAIN m : m[k] = Eof => Finished(hub[p]) /\ k = Len(m)
    BY <1>1, MarkerLast
  <2> HIDE DEF m
  <2>5. TAKE a \in DOMAIN sent'[i]
  <2>6. HAVE sent'[i][a] = Eof
  <2>7. a \in 1..(Len(sent[i]) + Len(m)) /\ Len(sent'[i]) = Len(sent[i]) + Len(m)
    BY <2>1, <2>2
  <2>8. a > Len(sent[i])
    BY <2>1, <2>2, <2>3, <2>6, <2>7 DEF Ended
  <2>9. a - Len(sent[i]) \in DOMAIN m /\ m[a - Len(sent[i])] = Eof
    BY <2>1, <2>2, <2>6, <2>7, <2>8
  <2> QED
    BY <2>1, <2>4, <2>7, <2>9
<1>6. \A p \in Panes : hub[p].sink \in 0..MaxSpawns
  BY <1>1 DEF Entry
<1>7. NothingAfterEof'
  BY <1>4, <1>5 DEF EofInv, NothingAfterEof
<1>8. \A i \in Incs : Ended(i)' => \A p \in Panes : hub'[p].sink # i
  BY <1>2, <1>4, <1>5 DEF EofInv, Ended, Incs
<1>9. ASSUME NEW i \in Incs, i > spawned' PROVE ~Ended(i)'
  <2>1. spawned \in Nat /\ \A p \in Panes : hub[p].sink \in Nat /\ hub[p].sink <= spawned
    BY <1>6 DEF EofInv, TypeInv, TypeOK
  <2>2. \A p \in Panes : hub[p].sink # i
    BY <1>3, <1>9, <2>1 DEF Incs
  <2>3. sent'[i] = sent[i]
    BY <1>4, <2>2
  <2> QED
    BY <1>3, <1>9, <2>3 DEF EofInv, Ended
<1>10. ASSUME NEW p \in Panes PROVE hub'[p].sink <= spawned'
  <2>1. spawned \in Nat /\ 0 <= spawned /\ hub[p].sink <= spawned
    BY DEF EofInv, TypeInv, TypeOK
  <2> QED
    BY <1>2, <1>3, <2>1
<1>11. \A p, q \in Panes : hub'[p].sink = hub'[q].sink /\ hub'[p].sink # 0 => p = q
  BY <1>2 DEF EofInv
<1> QED
  BY <1>7, <1>8, <1>9, <1>10, <1>11 DEF EofInv

\* No sink has been told anything at the start.
LEMMA EofInit == Init => EofInv
  BY ConstantsAssumption DEF Init, EofInv, Ended, NothingAfterEof, NoEntry

\* Every step keeps the sinks that were told of an end out of the hub.
LEMMA EofNext == TypeInv /\ EofInv /\ [Next]_vars => EofInv'
<1>1. ASSUME TypeInv, EofInv,
             \/ CommandStep
             \/ \E p \in Panes : \/ SpawnRegister(p) \/ KillTake(p)
                              \/ \E v \in BOOLEAN : SetPause(p, v)
      PROVE  EofInv'
  BY <1>1, EofCommands
<1>2. ASSUME TypeInv, EofInv, NEW p \in Panes, WindowElapses(p) PROVE EofInv'
  <2>1. \A q \in Panes : hub'[q].sink = hub[q].sink
    BY <1>2 DEF WindowElapses, TypeInv, TypeOK, Entry
  <2> QED
    BY <1>2, <2>1, EofFrame DEF WindowElapses, mainVars
<1>3. ASSUME TypeInv, EofInv, Next PROVE EofInv'
  BY <1>1, <1>2, <1>3, EofThreads, EofFlush DEF Next
<1>4. ASSUME TypeInv, EofInv, UNCHANGED vars PROVE EofInv'
  BY <1>4, EofFrame DEF vars
<1> QED
  BY <1>3, <1>4

\* No sink ever receives anything after its end marker, however spawns,
\* kills, readers and flushes interleave.
THEOREM EofIsLast == Spec => []NothingAfterEof
<1>1. EofInv => NothingAfterEof
  BY DEF EofInv
<1>2. Spec => []EofInv
  BY EofInit, EofNext, TypeInvariant, PTL DEF Spec
<1> QED
  BY <1>1, <1>2, PTL
-----------------------------------------------------------------------------
(* What a sink is told.  The stream of a sink is what it was sent with what *)
(* waits for it in the hub: a chunk is appended to it, an end marker is     *)
(* appended to it, or the hub's part of it is dropped.                      *)

InHub(h, i) == \E p \in Panes : h[p].sink = i
Waiting(h, i) == h[CHOOSE p \in Panes : h[p].sink = i].buf
StreamOf(h, s, i) == IF InHub(h, i) THEN s[i] \o Waiting(h, i) ELSE s[i]
Stream(i) == StreamOf(hub, sent, i)

\* The chunks of shell i that its reader has handed to the hub.
Handed(i) == IF reader[i] = "data" THEN taken[i] - 1 ELSE taken[i]

Ordered(s) ==
  \A a, b \in DOMAIN s :
    (a < b /\ s[a] # Eof /\ s[b] # Eof /\ s[a][1] = s[b][1]) => s[a][2] < s[b][2]

Apart(s, t) == \A a \in DOMAIN s, b \in DOMAIN t : s[a] # Eof => s[a] # t[b]

Known(s) ==
  \A a \in DOMAIN s, j \in Incs : (s[a] # Eof /\ s[a][1] = j) => s[a][2] <= Handed(j)

\* The streams are in order and apart, and nothing in them is newer than what
\* the readers handed over, so that the next chunk of a shell fits behind.
OrderInv ==
  /\ \A i \in Incs : Ordered(Stream(i)) /\ Known(Stream(i))
  /\ \A i, j \in Incs : i # j => Apart(Stream(i), Stream(j))

\* Whatever is in the hub, the streams are sequences of what sinks are sent.
LEMMA StreamType ==
  ASSUME NEW h \in [Panes -> Entry], NEW s \in [Incs -> Seq(Chunk \cup {Eof})],
         NEW i \in Incs
  PROVE  StreamOf(h, s, i) \in Seq(Chunk \cup {Eof})
<1>1. CASE InHub(h, i)
  <2> DEFINE p == CHOOSE q \in Panes : h[q].sink = i
  <2>1. p \in Panes
    BY <1>1 DEF InHub
  <2>2. h[p].buf \in Seq(Chunk \cup {Eof})
    BY <2>1, SeqMonotonic DEF Entry
  <2> QED
    BY <1>1, <2>2, ConcatProperties DEF StreamOf, Waiting
<1> QED
  BY <1>1 DEF StreamOf

\* The stream of the sink of an entry ends with the entry's buffer, if no other
\* entry has that sink.
LEMMA StreamAt ==
  ASSUME NEW h, NEW s, NEW p \in Panes,
         \A q \in Panes : h[q].sink = h[p].sink => q = p
  PROVE  StreamOf(h, s, h[p].sink) = s[h[p].sink] \o h[p].buf
<1>1. (CHOOSE q \in Panes : h[q].sink = h[p].sink) = p
  OBVIOUS
<1> QED
  BY <1>1 DEF StreamOf, InHub, Waiting

\* The streams of this state and of the next one, entry by entry.
LEMMA StreamNow ==
  ASSUME EofInv, NEW i \in Incs
  PROVE  /\ \A p \in Panes : hub[p].sink = i => Stream(i) = sent[i] \o hub[p].buf
         /\ (\A p \in Panes : hub[p].sink # i) => Stream(i) = sent[i]
<1>1. \A p, q \in Panes : hub[p].sink = i /\ hub[q].sink = i => q = p
  BY DEF EofInv, Incs
<1>2. ASSUME NEW p \in Panes, hub[p].sink = i PROVE Stream(i) = sent[i] \o hub[p].buf
  <2>1. StreamOf(hub, sent, hub[p].sink) = sent[hub[p].sink] \o hub[p].buf
    BY <1>1, <1>2, StreamAt
  <2> QED
    BY <1>2, <2>1 DEF Stream
<1> QED
  BY <1>2 DEF Stream, StreamOf, InHub

LEMMA StreamNext ==
  ASSUME EofInv', NEW i \in Incs
  PROVE  /\ \A p \in Panes : hub'[p].sink = i => Stream(i)' = sent'[i] \o hub'[p].buf
         /\ (\A p \in Panes : hub'[p].sink # i) => Stream(i)' = sent'[i]
<1>1. \A p, q \in Panes : hub'[p].sink = i /\ hub'[q].sink = i => q = p
  BY DEF EofInv, Incs
<1>2. ASSUME NEW p \in Panes, hub'[p].sink = i PROVE Stream(i)' = sent'[i] \o hub'[p].buf
  <2>1. StreamOf(hub', sent', hub'[p].sink) = sent'[hub'[p].sink] \o hub'[p].buf
    BY <1>1, <1>2, StreamAt
  <2> QED
    BY <1>2, <2>1 DEF Stream
<1> QED
  BY <1>2 DEF Stream, StreamOf, InHub

\* All of s but its end markers is in t, at the same place.
Part(s, t) == \A a \in DOMAIN s : s[a] # Eof => a \in DOMAIN t /\ s[a] = t[a]

LEMMA PrefixIsPart ==
  ASSUME NEW S, NEW s \in Seq(S), NEW t \in Seq(S)
  PROVE  Part(s, s \o t)
<1>1. \A a \in DOMAIN s : a \in 1..Len(s) /\ a \in 1..Len(s \o t) /\ (s \o t)[a] = s[a]
  BY ConcatProperties
<1>2. DOMAIN (s \o t) = 1..Len(s \o t)
  OBVIOUS
<1> QED
  BY <1>1, <1>2 DEF Part

\* What was sent is a part of the stream.
LEMMA SentIsPart ==
  ASSUME TypeInv, EofInv, NEW i \in Incs
  PROVE  Part(sent[i], Stream(i)) /\ Part(Stream(i), Stream(i))
<1>1. ASSUME NEW p \in Panes, hub[p].sink = i
      PROVE  Part(sent[i], Stream(i))
  <2>1. sent[i] \in Seq(Chunk \cup {Eof}) /\ hub[p].buf \in Seq(Chunk \cup {Eof})
    BY SeqMonotonic DEF TypeInv, TypeOK, Entry
  <2> QED
    BY <1>1, <2>1, PrefixIsPart, StreamNow
<1>2. Part(Stream(i), Stream(i)) /\ Part(sent[i], sent[i])
  BY DEF Part
<1> QED
  BY <1>1, <1>2, StreamNow

\* An end marker behind a stream adds no chunk to it.
LEMMA MarkerIsPart ==
  ASSUME NEW s \in Seq(Chunk \cup {Eof})
  PROVE  Part(Append(s, Eof), s)
BY AppendProperties DEF Part

\* A step after which every stream is a part of what it was keeps the order.
LEMMA OrderKept ==
  ASSUME OrderInv,
         \A i \in Incs : Part(Stream(i)', Stream(i)),
         \A i \in Incs : Stream(i) \in Seq(Chunk \cup {Eof}),
         \A j \in Incs : Handed(j) \in Int /\ Handed(j)' \in Int /\ Handed(j) <= Handed(j)'
  PROVE  OrderInv'
<1>1. ASSUME NEW i \in Incs PROVE Ordered(Stream(i))'
  BY DEF OrderInv, Ordered, Part
<1>2. ASSUME NEW i \in Incs PROVE Known(Stream(i))'
  <2>1. SUFFICES ASSUME NEW a \in DOMAIN Stream(i)', NEW j \in Incs,
                        Stream(i)'[a] # Eof, Stream(i)'[a][1] = j
                 PROVE  Stream(i)'[a][2] <= Handed(j)'
    BY DEF Known
  <2>2. a \in DOMAIN Stream(i) /\ Stream(i)'[a] = Stream(i)[a]
    BY <2>1 DEF Part
  <2>3. Stream(i)[a] \in Chunk
    BY <2>1, <2>2
  <2>4. Stream(i)[a][2] <= Handed(j)
    BY <2>1, <2>2 DEF OrderInv, Known
  <2>5. Stream(i)[a][2] \in Int
    BY <2>3, ConstantsAssumption DEF Chunk
  <2> QED
    BY <2>2, <2>4, <2>5
<1>3. ASSUME NEW i \in Incs, NEW j \in Incs, i # j
      PROVE  Apart(Stream(i), Stream(j))'
  BY <1>3 DEF OrderInv, Apart, Part
<1> QED
  BY <1>1, <1>2, <1>3 DEF OrderInv

\* A reader that hands its newest chunk over keeps the order: that chunk is in
\* no stream yet, and every chunk of its shell that is in one is older.
LEMMA OrderPushed ==
  ASSUME OrderInv, NEW i \in Incs, NEW j \in Incs, NEW k \in 1..MaxOut,
         Stream(i)' = Append(Stream(i), <<j, k>>),
         \A m \in Incs \ {i} : Stream(m)' = Stream(m),
         \A m \in Incs : Stream(m) \in Seq(Chunk \cup {Eof}),
         \A m \in Incs : Handed(m) \in Int,
         k = Handed(j) + 1, Handed(j)' = k,
         \A m \in Incs \ {j} : Handed(m)' = Handed(m)
  PROVE  OrderInv'
<1> DEFINE new == Len(Stream(i)) + 1
<1>1. /\ DOMAIN Stream(i)' = 1..new
      /\ \A a \in 1..Len(Stream(i)) : Stream(i)'[a] = Stream(i)[a]
      /\ Stream(i)'[new] = <<j, k>>
      /\ DOMAIN Stream(i) = 1..Len(Stream(i)) /\ Len(Stream(i)) \in Nat
  <2>1. <<j, k>> \in Chunk \cup {Eof} /\ Stream(i) \in Seq(Chunk \cup {Eof})
    BY DEF Chunk
  <2> QED
    BY <2>1, AppendProperties
<1> HIDE DEF new
<1>2. \A m \in Incs : \A a \in DOMAIN Stream(m) :
        Stream(m)[a] # Eof => Stream(m)[a] \in Chunk /\ Stream(m)[a][2] \in Int
  BY ConstantsAssumption DEF Chunk
<1>3. <<j, k>> # Eof /\ <<j, k>>[1] = j /\ <<j, k>>[2] = k /\ k \in Int
  BY EofAssumption DEF Chunk
<1>4. \A m \in Incs : \A a \in DOMAIN Stream(m) :
        (Stream(m)[a] # Eof /\ Stream(m)[a][1] = j) => Stream(m)[a][2] < k
  <2>1. TAKE m \in Incs
  <2>2. TAKE a \in DOMAIN Stream(m)
  <2>3. HAVE Stream(m)[a] # Eof /\ Stream(m)[a][1] = j
  <2>4. Stream(m)[a][2] <= Handed(j)
    BY <2>3 DEF OrderInv, Known
  <2> QED
    BY <1>2, <2>3, <2>4
<1>5. \A a \in DOMAIN Stream(i)' :
        \/ a \in DOMAIN Stream(i) /\ Stream(i)'[a] = Stream(i)[a]
        \/ a = new /\ Stream(i)'[a] = <<j, k>>
  BY <1>1 DEF new
<1>6. ASSUME NEW m \in Incs, NEW a \in DOMAIN Stream(m)'
       PROVE  \/ a \in DOMAIN Stream(m) /\ Stream(m)'[a] = Stream(m)[a]
              \/ m = i /\ Stream(m)'[a] = <<j, k>>
  <2>1. CASE m = i
    BY <1>5, <2>1
  <2>2. CASE m # i
    BY <2>2
  <2> QED
    BY <2>1, <2>2
<1>7. ASSUME NEW m \in Incs PROVE Ordered(Stream(m))'
  <2>1. CASE m = i
    <3>1. SUFFICES ASSUME NEW a \in DOMAIN Stream(i)', NEW b \in DOMAIN Stream(i)', a < b,
                          Stream(i)'[a] # Eof, Stream(i)'[b] # Eof,
                          Stream(i)'[a][1] = Stream(i)'[b][1]
                   PROVE  Stream(i)'[a][2] < Stream(i)'[b][2]
      BY <2>1 DEF Ordered
    <3>2. a \in DOMAIN Stream(i) /\ Stream(i)'[a] = Stream(i)[a]
      BY <1>1, <1>5, <3>1 DEF new
    <3>3. CASE b \in DOMAIN Stream(i) /\ Stream(i)'[b] = Stream(i)[b]
      BY <3>1, <3>2, <3>3 DEF OrderInv, Ordered
    <3>4. CASE Stream(i)'[b] = <<j, k>>
      BY <1>3, <1>4, <3>1, <3>2, <3>4
    <3> QED
      BY <1>5, <3>1, <3>3, <3>4
  <2>2. CASE m # i
    BY <2>2 DEF OrderInv, Ordered
  <2> QED
    BY <2>1, <2>2
<1>8. ASSUME NEW m \in Incs PROVE Known(Stream(m))'
  <2>1. SUFFICES ASSUME NEW a \in DOMAIN Stream(m)', NEW n \in Incs,
                        Stream(m)'[a] # Eof, Stream(m)'[a][1] = n
                 PROVE  Stream(m)'[a][2] <= Handed(n)'
    BY DEF Known
  <2>2. CASE a \in DOMAIN Stream(m) /\ Stream(m)'[a] = Stream(m)[a]
    <3>1. Stream(m)[a][2] <= Handed(n) /\ Stream(m)[a][2] \in Int
      BY <1>2, <2>1, <2>2 DEF OrderInv, Known
    <3>2. Handed(n) <= Handed(n)' /\ Handed(n) \in Int /\ Handed(n)' \in Int
      BY <1>3
    <3> QED
      BY <2>2, <3>1, <3>2
  <2>3. CASE Stream(m)'[a] = <<j, k>>
    BY <1>3, <2>1, <2>3
  <2> QED
    BY <1>5, <2>1, <2>2, <2>3
<1>9. ASSUME NEW m \in Incs, NEW n \in Incs, m # n PROVE Apart(Stream(m), Stream(n))'
  <2>1. SUFFICES ASSUME NEW a \in DOMAIN Stream(m)', NEW b \in DOMAIN Stream(n)',
                        Stream(m)'[a] # Eof
                 PROVE  Stream(m)'[a] # Stream(n)'[b]
    BY DEF Apart
  <2>2. CASE a \in DOMAIN Stream(m) /\ Stream(m)'[a] = Stream(m)[a]
    <3>1. CASE b \in DOMAIN Stream(n) /\ Stream(n)'[b] = Stream(n)[b]
      BY <1>9, <2>1, <2>2, <3>1 DEF OrderInv, Apart
    <3>2. CASE Stream(n)'[b] = <<j, k>>
      BY <1>2, <1>3, <1>4, <2>1, <2>2, <3>2
    <3> QED
      BY <1>6, <3>1, <3>2
  <2>3. CASE Stream(m)'[a] = <<j, k>> /\ m = i
    <3>1. b \in DOMAIN Stream(n) /\ Stream(n)'[b] = Stream(n)[b]
      BY <1>9, <2>3
    <3>2. ~(Stream(n)[b] # Eof /\ Stream(n)[b][1] = j /\ Stream(n)[b][2] = k)
      BY <1>3, <1>4, <3>1
    <3> QED
      BY <1>3, <2>3, <3>1, <3>2
  <2> QED
    BY <1>6, <2>1, <2>2, <2>3
<1> QED
  BY <1>7, <1>8, <1>9 DEF OrderInv

\* Every stream is a sequence of chunks and end markers.
LEMMA StreamsTyped ==
  TypeInv => \A i \in Incs : Stream(i) \in Seq(Chunk \cup {Eof})
BY StreamType DEF TypeInv, TypeOK, Stream

\* What a reader has handed over is a number and never less than it was.
LEMMA HandedGrows ==
  ASSUME TypeInv, TypeInv', [Next]_vars, NEW j \in Incs
  PROVE  Handed(j) \in Int /\ Handed(j)' \in Int /\ Handed(j) <= Handed(j)'
<1> USE ConstantsAssumption
<1>1. /\ taken[j] \in Nat /\ taken'[j] \in Nat
      /\ reader \in [Incs -> ReaderStates] /\ taken \in [Incs -> 0..MaxOut]
  BY DEF TypeInv, TypeOK
<1>2. taken' = taken /\ (reader'[j] = "data" => reader[j] = "data") => Handed(j) <= Handed(j)'
  BY <1>1 DEF Handed
<1>3. ASSUME NEW i \in Incs, ReaderRead(i) \/ ReaderInterrupted(i) \/ ReaderStep(i)
      PROVE  Handed(j) <= Handed(j)'
  <2>1. CASE ReaderReadChunk(i)
    BY <1>1, <2>1 DEF ReaderReadChunk, Handed
  <2>2. CASE \/ ReaderReadEof(i) \/ ReaderInterrupted(i) \/ ReaderCheck(i)
             \/ ReaderOnData(i) \/ ReaderOnEof(i) \/ ReaderRelease(i)
    BY <1>1, <1>2, <2>2 DEF ReaderReadEof, ReaderInterrupted, ReaderCheck, ReaderOnData,
         ReaderOnEof, ReaderRelease, mainVars
  <2> QED
    BY <1>3, <2>1, <2>2 DEF ReaderRead, ReaderStep
<1>4. ASSUME SpawnAdmit PROVE Handed(j) <= Handed(j)'
  <2>1. taken' = taken /\ (reader'[j] = "data" => reader[j] = "data")
    BY <1>1, <1>4 DEF SpawnAdmit
  <2> QED
    BY <1>2, <2>1
<1>5. ASSUME \/ SpawnReject \/ SpawnUnregister \/ SpawnInsert \/ KillUnhook \/ KillChild
             \/ \E p \in Panes : \/ SpawnRegister(p) \/ KillTake(p) \/ WindowElapses(p)
                                 \/ \E v \in BOOLEAN : SetPause(p, v)
             \/ FlushTick \/ UNCHANGED vars
             \/ \E i \in Incs : ShellWrite(i) \/ ShellExit(i)
      PROVE  Handed(j) <= Handed(j)'
  <2>1. reader' = reader /\ taken' = taken
    BY <1>5 DEF SpawnReject, SpawnUnregister, SpawnInsert, KillUnhook, KillChild,
         SpawnRegister, KillTake, WindowElapses, SetPause, FlushTick, ShellWrite,
         ShellExit, vars, readVars
  <2> QED
    BY <1>2, <2>1
<1>6. Handed(j) <= Handed(j)'
  BY <1>3, <1>4, <1>5 DEF Next, CommandStep
<1> QED
  BY <1>1, <1>6 DEF Handed

\* A step that sends nothing, and leaves every entry it does not drop or start
\* afresh with its sink and its buffer, only drops parts of streams.
LEMMA StreamsKept ==
  ASSUME TypeInv, EofInv, EofInv', sent' = sent,
         \A p \in Panes : \/ hub'[p].sink = 0
                          \/ hub'[p].buf = <<>>
                          \/ hub'[p].sink = hub[p].sink /\ hub'[p].buf = hub[p].buf
  PROVE  \A i \in Incs : Part(Stream(i)', Stream(i))
<1>1. ASSUME NEW i \in Incs, NEW p \in Panes, hub'[p].sink = i
      PROVE  Stream(i)' \in {sent[i], Stream(i)}
  <2>1. Stream(i)' = sent[i] \o hub'[p].buf
    BY <1>1, StreamNext
  <2>2. CASE hub'[p].buf = <<>>
    <3>1. sent[i] \in Seq(Chunk \cup {Eof})
      BY DEF TypeInv, TypeOK
    <3> QED
      BY <2>1, <2>2, <3>1, ConcatEmptySeq
  <2>3. CASE hub'[p].sink = hub[p].sink /\ hub'[p].buf = hub[p].buf
    BY <1>1, <2>1, <2>3, StreamNow
  <2> QED
    BY <1>1, <2>2, <2>3 DEF Incs
<1>2. \A i \in Incs : Stream(i)' \in {sent[i], Stream(i)}
  BY <1>1, StreamNext
<1> QED
  BY <1>2, SentIsPart

\* Everything a flush sends for an entry comes from the entry's buffer, and
\* what it does not send stays there.
LEMMA FlushSplits ==
  ASSUME NEW e \in Entry
  PROVE  /\ Finished(e) => Messages(e) = Append(e.buf, Eof)
         /\ ~Finished(e) => /\ Messages(e) \o Flushed(e).buf = e.buf
                            /\ Flushed(e).sink = e.sink
                            /\ Flushed(e).closed = e.closed
<1>1. e.buf \in Seq(Chunk) /\ Flushed(e).buf = (IF Finished(e) THEN <<>> ELSE Left(e))
  BY DEF Entry, Flushed, NoEntry
<1>2. Batch(e) \o Left(e) = e.buf
  BY <1>1, ConcatEmptySeq DEF Batch, Left
<1>3. Left(e) = <<>> => Batch(e) = e.buf
  BY DEF Batch, Left
<1>4. CASE Finished(e)
  <2>1. Messages(e) = e.buf \o <<Eof>>
    BY <1>3, <1>4 DEF Messages, Finished
  <2>2. e.buf \in Seq(Chunk \cup {Eof}) /\ Eof \in Chunk \cup {Eof}
    BY <1>1, SeqMonotonic
  <2> QED
    BY <1>4, <2>1, <2>2, AppendIsConcat
<1>5. CASE ~Finished(e)
  <2>1. Batch(e) \in Seq(Chunk)
    BY <1>1 DEF Batch
  <2>2. Messages(e) = Batch(e)
    BY <1>5, <2>1, ConcatEmptySeq DEF Messages
  <2>3. Flushed(e).sink = e.sink /\ Flushed(e).closed = e.closed
    BY <1>5 DEF Flushed, Entry
  <2> QED
    BY <1>1, <1>2, <1>5, <2>2, <2>3
<1> QED
  BY <1>4, <1>5

\* Sequences of what sinks are sent, taken apart and put together.
LEMMA ConcatRegroups ==
  ASSUME NEW s \in Seq(Chunk \cup {Eof}), NEW t \in Seq(Chunk \cup {Eof}),
         NEW u \in Seq(Chunk \cup {Eof})
  PROVE  (s \o t) \o u = s \o (t \o u)
BY ConcatAssociative

LEMMA ConcatMoves ==
  ASSUME NEW s \in Seq(Chunk \cup {Eof}), NEW t \in Seq(Chunk \cup {Eof}),
         NEW c \in Chunk \cup {Eof}
  PROVE  s \o Append(t, c) = Append(s \o t, c)
<1>1. (s \o t) \o <<c>> = s \o (t \o <<c>>) /\ s \o t \in Seq(Chunk \cup {Eof})
  BY ConcatAssociative, ConcatProperties
<1> QED
  BY <1>1, AppendIsConcat

\* A flush moves what it sends from one half of a stream to the other.
LEMMA StreamsFlushed ==
  ASSUME TypeInv, EofInv, EofInv', FlushTick, NEW i \in Incs
  PROVE  Stream(i)' \in {Stream(i), Append(Stream(i), Eof)}
<1>1. \A p \in Panes : hub[p] \in Entry /\ hub'[p] = Flushed(hub[p])
  BY DEF FlushTick, TypeInv, TypeOK
<1>2. ASSUME NEW p \in Panes, hub[p].sink = i
      PROVE  Stream(i)' \in {Stream(i), Append(Stream(i), Eof)}
  <2> DEFINE e == hub[p]
  <2>1. /\ sent[i] \in Seq(Chunk \cup {Eof}) /\ e.buf \in Seq(Chunk \cup {Eof})
        /\ Messages(e) \in Seq(Chunk \cup {Eof}) /\ Flushed(e).buf \in Seq(Chunk \cup {Eof})
    <3>1. e.buf \in Seq(Chunk) /\ Flushed(e).buf \in Seq(Chunk)
      BY <1>1, FlushedType DEF Entry
    <3> QED
      BY <1>1, <3>1, FlushedType, SeqMonotonic DEF TypeInv, TypeOK
  <2>2. sent'[i] = sent[i] \o Messages(e) /\ Stream(i) = sent[i] \o e.buf
    BY <1>2, FlushAppends, StreamNow
  <2>3. CASE Finished(e)
    <3>1. hub'[p].sink = 0 /\ \A q \in Panes : hub[q].sink = i => q = p
      BY <1>1, <1>2, <2>3, FlushedSink DEF EofInv, Incs
    <3>2. \A q \in Panes : hub'[q].sink # i
      BY <1>1, <3>1, FlushedSink DEF Incs
    <3>3. Stream(i)' = sent[i] \o Append(e.buf, Eof)
      BY <1>1, <2>2, <2>3, <3>2, FlushSplits, StreamNext
    <3>4. sent[i] \o Append(e.buf, Eof) = Append(sent[i] \o e.buf, Eof)
      BY <2>1, ConcatMoves
    <3> QED
      BY <2>2, <3>3, <3>4
  <2>4. CASE ~Finished(e)
    <3>1. hub'[p].sink = i /\ Messages(e) \o Flushed(e).buf = e.buf
      BY <1>1, <1>2, <2>4, FlushSplits
    <3>2. Stream(i)' = (sent[i] \o Messages(e)) \o Flushed(e).buf
      BY <1>1, <2>2, <3>1, StreamNext
    <3>3. (sent[i] \o Messages(e)) \o Flushed(e).buf = sent[i] \o (Messages(e) \o Flushed(e).buf)
      BY <2>1, ConcatRegroups
    <3> QED
      BY <2>2, <3>1, <3>2, <3>3
  <2> QED
    BY <2>3, <2>4
<1>3. ASSUME \A p \in Panes : hub[p].sink # i
      PROVE  Stream(i)' = Stream(i)
  <2>1. \A p \in Panes : hub'[p].sink # i
    BY <1>1, <1>3, FlushedSink DEF Incs
  <2>2. sent'[i] = sent[i]
    BY <1>3 DEF FlushTick, TypeInv, TypeOK
  <2> QED
    BY <1>3, <2>1, <2>2, StreamNow, StreamNext
<1> QED
  BY <1>2, <1>3

\* A chunk handed to the hub goes behind the stream of the sink it finds there.
LEMMA StreamsPushed ==
  ASSUME TypeInv, EofInv, EofInv', NEW i \in Incs, ReaderOnData(i),
         NEW p \in Panes, paneOf[i] = p, NEW j \in Incs, hub[p].sink = j,
         NEW c \in Chunk, c = <<i, taken[i]>>
  PROVE  /\ Stream(j)' = Append(Stream(j), c)
         /\ \A m \in Incs \ {j} : Stream(m)' = Stream(m)
<1>1. /\ hub[p] \in Entry /\ hub \in [Panes -> Entry]
      /\ sent' = sent /\ hub' = [hub EXCEPT ![p] = Push(hub[p], c)]
  BY DEF ReaderOnData, TypeInv, TypeOK, Incs
<1>2. Push(hub[p], c).sink = j /\ Push(hub[p], c).buf = Append(hub[p].buf, c)
  BY <1>1 DEF Push, Entry
<1>3. hub'[p].sink = j /\ hub'[p].buf = Append(hub[p].buf, c)
  BY <1>1, <1>2
<1>4. \A q \in Panes \ {p} : hub'[q] = hub[q]
  BY <1>1
<1>5. Stream(j)' = Append(Stream(j), c)
  <2>1. Stream(j) = sent[j] \o hub[p].buf
    BY StreamNow
  <2>2. Stream(j)' = sent'[j] \o hub'[p].buf
    BY <1>3, StreamNext
  <2>3. sent[j] \in Seq(Chunk \cup {Eof}) /\ hub[p].buf \in Seq(Chunk \cup {Eof})
    BY <1>1, SeqMonotonic DEF TypeInv, TypeOK, Entry
  <2>4. sent[j] \o Append(hub[p].buf, c) = Append(sent[j] \o hub[p].buf, c)
    BY <2>3, ConcatMoves
  <2> QED
    BY <1>1, <1>3, <2>1, <2>2, <2>4
<1>6. ASSUME NEW m \in Incs \ {j} PROVE Stream(m)' = Stream(m)
  <2>1. \A q \in Panes : /\ hub'[q].sink = m <=> hub[q].sink = m
                         /\ hub[q].sink = m => hub'[q].buf = hub[q].buf
    BY <1>3, <1>4
  <2>2. CASE \E q \in Panes : hub[q].sink = m
    <3>1. PICK q \in Panes : hub[q].sink = m
      BY <2>2
    <3>2. Stream(m) = sent[m] \o hub[q].buf /\ Stream(m)' = sent'[m] \o hub'[q].buf
      BY <2>1, <3>1, StreamNow, StreamNext
    <3> QED
      BY <1>1, <2>1, <3>1, <3>2
  <2>3. CASE \A q \in Panes : hub[q].sink # m
    BY <1>1, <2>1, <2>3, StreamNow, StreamNext
  <2> QED
    BY <2>2, <2>3
<1> QED
  BY <1>5, <1>6

\* The streams are empty at the start.
LEMMA OrderInit == Init => OrderInv
<1> SUFFICES ASSUME Init PROVE OrderInv
  OBVIOUS
<1>1. \A i \in Incs : Stream(i) = <<>>
  BY DEF Init, Stream, StreamOf, InHub, NoEntry, Incs
<1> QED
  BY <1>1 DEF OrderInv, Ordered, Known, Apart

\* A reader thread belongs to an incarnation that has a pane.
ReaderHasPane == \A i \in Incs : reader[i] # "none" => paneOf[i] \in Panes

LEMMA PaneNext ==
  ASSUME TypeInv, SlotInv, ReaderHasPane, [Next]_vars
  PROVE  ReaderHasPane'
<1>1. ASSUME NEW p \in Panes, SpawnRegister(p) PROVE ReaderHasPane'
  BY <1>1 DEF SpawnRegister, TypeInv, TypeOK, ReaderHasPane
<1>2. CASE SpawnAdmit
  BY <1>2 DEF SpawnAdmit, SlotInv, TypeInv, TypeOK, ReaderHasPane
<1>3. CASE \/ SpawnReject \/ SpawnUnregister \/ SpawnInsert \/ KillUnhook \/ KillChild
           \/ \E p \in Panes : \/ KillTake(p) \/ WindowElapses(p)
                               \/ \E v \in BOOLEAN : SetPause(p, v)
           \/ FlushTick \/ UNCHANGED vars
           \/ \E i \in Incs : ShellWrite(i) \/ ShellExit(i)
  <2>1. reader' = reader /\ paneOf' = paneOf
    BY <1>3 DEF SpawnReject, SpawnUnregister, SpawnInsert, KillUnhook, KillChild,
         KillTake, WindowElapses, SetPause, FlushTick, ShellWrite, ShellExit, vars,
         mainVars, readVars
  <2> QED
    BY <2>1 DEF ReaderHasPane
<1>4. ASSUME NEW i \in Incs, ReaderRead(i) \/ ReaderInterrupted(i) \/ ReaderStep(i)
      PROVE  ReaderHasPane'
  <2>1. paneOf' = paneOf /\ reader[i] # "none" /\ \A j \in Incs \ {i} : reader'[j] = reader[j]
    BY <1>4 DEF ReaderRead, ReaderStep, ReaderReadChunk, ReaderReadEof, ReaderInterrupted,
         ReaderCheck, ReaderOnData, ReaderOnEof, ReaderRelease, mainVars, TypeInv, TypeOK
  <2> QED
    BY <2>1 DEF ReaderHasPane
<1> QED
  BY <1>1, <1>2, <1>3, <1>4 DEF Next, CommandStep

\* Every step keeps the streams in order and apart.
LEMMA OrderNext ==
  ASSUME TypeInv, TypeInv', EofInv, EofInv', ReaderHasPane, OrderInv, [Next]_vars
  PROVE  OrderInv'
<1>1. /\ \A i \in Incs : Stream(i) \in Seq(Chunk \cup {Eof})
      /\ \A j \in Incs : Handed(j) \in Int /\ Handed(j)' \in Int /\ Handed(j) <= Handed(j)'
  BY StreamsTyped, HandedGrows
<1>2. (\A i \in Incs : Part(Stream(i)', Stream(i))) => OrderInv'
  BY <1>1, OrderKept
<1>3. hub \in [Panes -> Entry]
  BY DEF TypeInv, TypeOK
<1>4. ASSUME NEW p \in Panes, SpawnRegister(p) PROVE OrderInv'
  <2>1. sent' = sent /\ hub'[p].buf = <<>> /\ \A q \in Panes \ {p} : hub'[q] = hub[q]
    BY <1>3, <1>4 DEF SpawnRegister, FreshEntry
  <2> QED
    BY <1>2, <2>1, StreamsKept
<1>5. CASE SpawnUnregister \/ KillUnhook
  <2>1. sent' = sent /\ hub' = [hub EXCEPT ![cmd.pane] = NoEntry] /\ NoEntry.sink = 0
    BY <1>5 DEF SpawnUnregister, KillUnhook, NoEntry
  <2>2. \A q \in Panes : hub'[q].sink = 0 \/ hub'[q] = hub[q]
    BY <1>3, <2>1
  <2> QED
    BY <1>2, <2>1, <2>2, StreamsKept
<1>6. ASSUME NEW p \in Panes, WindowElapses(p) PROVE OrderInv'
  <2>1. \A q \in Panes : hub'[q].sink = hub[q].sink /\ hub'[q].buf = hub[q].buf
    BY <1>3, <1>6 DEF WindowElapses, Entry
  <2>2. sent' = sent
    BY <1>6 DEF WindowElapses
  <2> QED
    BY <1>2, <2>1, <2>2, StreamsKept
<1>7. ASSUME NEW i \in Incs, ReaderOnEof(i) PROVE OrderInv'
  <2>1. \A q \in Panes : hub'[q].sink = hub[q].sink /\ hub'[q].buf = hub[q].buf
    BY <1>3, <1>7 DEF ReaderOnEof, Entry
  <2>2. sent' = sent
    BY <1>7 DEF ReaderOnEof
  <2> QED
    BY <1>2, <2>1, <2>2, StreamsKept
<1>8. ASSUME hub' = hub, sent' = sent PROVE OrderInv'
  BY <1>2, <1>8, StreamsKept
<1>9. CASE FlushTick
  <2>1. \A i \in Incs : Part(Stream(i)', Stream(i))
    BY <1>1, <1>9, StreamsFlushed, SentIsPart, MarkerIsPart
  <2> QED
    BY <1>2, <2>1
<1>10. ASSUME NEW i \in Incs, ReaderOnData(i) PROVE OrderInv'
  <2>1. paneOf[i] \in Panes
    BY <1>10 DEF ReaderOnData, ReaderHasPane
  <2>2. CASE hub[paneOf[i]].sink = 0
    BY <1>8, <1>10, <2>2 DEF ReaderOnData
  <2>3. CASE hub[paneOf[i]].sink # 0
    <3>1. PICK p \in Panes : paneOf[i] = p
      BY <2>1
    <3>2. PICK j \in Incs : hub[p].sink = j
      BY <1>3, <2>3, <3>1 DEF Entry, Incs
    <3>3. PICK k \in 1..MaxOut : k = taken[i]
      BY <1>10, ConstantsAssumption DEF ReaderOnData, TypeInv, TypeOK, HoldsTakenChunk
    <3>4. /\ k = Handed(i) + 1 /\ Handed(i)' = k
          /\ \A m \in Incs \ {i} : Handed(m)' = Handed(m)
      BY <1>10, <3>3, ConstantsAssumption DEF ReaderOnData, TypeInv, TypeOK, Handed
    <3>5. <<i, k>> \in Chunk
      BY DEF Chunk
    <3>6. /\ Stream(j)' = Append(Stream(j), <<i, k>>)
          /\ \A m \in Incs \ {j} : Stream(m)' = Stream(m)
      BY <1>10, <3>1, <3>2, <3>3, <3>5, StreamsPushed
    <3> QED
      BY <1>1, <3>4, <3>6, OrderPushed
  <2> QED
    BY <2>2, <2>3
<1>11. CASE \/ SpawnAdmit \/ SpawnReject \/ SpawnInsert \/ KillChild
            \/ \E p \in Panes : KillTake(p) \/ \E v \in BOOLEAN : SetPause(p, v)
  BY <1>8, <1>11 DEF SpawnAdmit, SpawnReject, SpawnInsert, KillChild, KillTake, SetPause
<1>12. ASSUME NEW i \in Incs,
              \/ ShellWrite(i) \/ ShellExit(i) \/ ReaderRead(i) \/ ReaderInterrupted(i)
              \/ ReaderCheck(i) \/ ReaderRelease(i)
       PROVE  OrderInv'
  BY <1>8, <1>12 DEF ShellWrite, ShellExit, ReaderRead, ReaderReadChunk, ReaderReadEof,
       ReaderInterrupted, ReaderCheck, ReaderRelease
<1>13. CASE UNCHANGED vars
  BY <1>8, <1>13 DEF vars
<1> QED
  BY <1>4, <1>5, <1>6, <1>7, <1>9, <1>10, <1>11, <1>12, <1>13
  DEF Next, CommandStep, ReaderStep

\* The order of the streams is an invariant.
LEMMA OrderInvariant == Spec => []OrderInv
<1>1. Init => ReaderHasPane
  BY DEF Init, ReaderHasPane
<1>2. Init => TypeInv /\ SlotInv /\ EofInv /\ OrderInv
  BY TypeInit, SlotInit, EofInit, OrderInit
<1>3. TypeInv /\ SlotInv /\ EofInv /\ OrderInv /\ ReaderHasPane /\ [Next]_vars
        => (TypeInv /\ SlotInv /\ EofInv /\ OrderInv /\ ReaderHasPane)'
  BY TypeNext, SlotNext, EofNext, OrderNext, PaneNext
<1> QED
  BY <1>1, <1>2, <1>3, PTL DEF Spec

\* What a sink is sent is part of its stream, so it has the streams' order.
LEMMA OrderSent ==
  ASSUME TypeInv, EofInv, OrderInv
  PROVE  InOrderOnce
<1>1. \A i \in Incs : Part(sent[i], Stream(i))
  BY SentIsPart
<1>2. ASSUME NEW i \in Incs PROVE Ordered(sent[i])
  BY <1>1 DEF OrderInv, Ordered, Part
<1>3. ASSUME NEW i \in Incs, NEW j \in Incs, i # j PROVE Apart(sent[i], sent[j])
  <2>1. SUFFICES ASSUME NEW a \in DOMAIN sent[i], NEW b \in DOMAIN sent[j], sent[i][a] # Eof
                 PROVE  sent[i][a] # sent[j][b]
    BY DEF Apart
  <2>2. a \in DOMAIN Stream(i) /\ Stream(i)[a] = sent[i][a]
    BY <1>1, <2>1 DEF Part
  <2>3. CASE sent[j][b] = Eof
    BY <2>1, <2>3
  <2>4. CASE sent[j][b] # Eof
    <3>1. b \in DOMAIN Stream(j) /\ Stream(j)[b] = sent[j][b]
      BY <1>1, <2>4 DEF Part
    <3> QED
      BY <1>3, <2>1, <2>2, <3>1 DEF OrderInv, Apart
  <2> QED
    BY <2>3, <2>4
<1> QED
  BY <1>2, <1>3 DEF InOrderOnce, Ordered, Apart

\* Whatever spawns, kills and flushes do, a sink gets the chunks of any shell
\* in order and once, and no chunk reaches two sinks.
THEOREM ChunksInOrderOnce == Spec => []InOrderOnce
<1>1. Spec => []EofInv
  BY EofInit, EofNext, TypeInvariant, PTL DEF Spec
<1>2. TypeInv /\ EofInv /\ OrderInv => InOrderOnce
  BY OrderSent
<1> QED
  BY <1>1, <1>2, TypeInvariant, OrderInvariant, PTL
-----------------------------------------------------------------------------
(* The end marker's word.  As long as a pane id has one live reader, the   *)
(* entry of its pane holds what that reader handed over and nothing else,  *)
(* and is closed by that reader alone, at the end of its shell's output.   *)

Gone == {"eof", "release", "done"}

\* The first n chunks of shell i, in the order it wrote them.
FirstChunks(i, n) == [k \in 1..n |-> <<i, k>>]

\* The entry at p speaks for a shell i that has the pane to itself: no other
\* reader can reach it, its stream is what the reader handed over, and only that
\* reader's on_eof has closed it.
EntryTrue(p, i) ==
  /\ paneOf[i] = p
  /\ \A j \in LiveReaders : paneOf[j] = p => j = i
  /\ sent[i] \o hub[p].buf = FirstChunks(i, Handed(i))
  /\ hub[p].closed => reader[i] \in {"release", "done"}

MarkerTrue(i) == shell[i] = "exited" /\ sent[i] = Append(AllOf(i), Eof)

ContentInv ==
  /\ \A i \in Incs : i > spawned => sent[i] = <<>>
  /\ \A i \in Incs : reader[i] = "none" => taken[i] = 0
  /\ \A i \in Incs : reader[i] \in Gone => shell[i] = "exited" /\ taken[i] = written[i]
  /\ cmd.at = "admit" => hub[cmd.pane].sink \in {0, cmd.inc}
  /\ \A p \in Panes, i \in Incs \ overlap : hub[p].sink = i => EntryTrue(p, i)
  /\ \A i \in Incs \ overlap : Ended(i) => MarkerTrue(i)

LEMMA ChunksTyped ==
  ASSUME NEW i \in Incs, NEW n \in 0..MaxOut
  PROVE  /\ FirstChunks(i, n) \in Seq(Chunk)
         /\ Len(FirstChunks(i, n)) = n
         /\ \A k \in 1..n : FirstChunks(i, n)[k] = <<i, k>>
<1>1. n \in Nat /\ 1..n \subseteq 1..MaxOut
  BY ConstantsAssumption
<1>2. FirstChunks(i, n) \in [1..n -> Chunk]
  BY <1>1 DEF Chunk, FirstChunks
<1>3. FirstChunks(i, n) \in Seq(Chunk)
  BY <1>1, <1>2, SeqDef
<1>4. Len(FirstChunks(i, n)) = n
  BY <1>1, <1>2, <1>3, LenProperties
<1> QED
  BY <1>3, <1>4 DEF FirstChunks

\* There is no chunk before the first, and one more is that one behind the rest.
LEMMA ChunksGrow ==
  ASSUME NEW i \in Incs, NEW n \in 0..MaxOut
  PROVE  /\ n = 0 => FirstChunks(i, n) = <<>>
         /\ n > 0 => FirstChunks(i, n) = Append(FirstChunks(i, n - 1), <<i, n>>)
<1>1. FirstChunks(i, n) \in Seq(Chunk) /\ Len(FirstChunks(i, n)) = n
  BY ChunksTyped
<1>2. n = 0 => FirstChunks(i, n) = <<>>
  BY <1>1, EmptySeq
<1>3. ASSUME n > 0 PROVE FirstChunks(i, n) = Append(FirstChunks(i, n - 1), <<i, n>>)
  <2> DEFINE s == FirstChunks(i, n)
             t == FirstChunks(i, n - 1)
  <2>1. n - 1 \in 0..MaxOut /\ <<i, n>> \in Chunk /\ n \in Nat
    BY <1>3, ConstantsAssumption DEF Chunk
  <2>2. t \in Seq(Chunk) /\ Len(t) = n - 1 /\ \A k \in 1..(n - 1) : t[k] = <<i, k>>
    BY <2>1, ChunksTyped
  <2>3. \A k \in 1..n : s[k] = <<i, k>>
    BY ChunksTyped
  <2> HIDE DEF s, t
  <2>4. /\ Append(t, <<i, n>>) \in Seq(Chunk) /\ Len(Append(t, <<i, n>>)) = n
        /\ \A k \in 1..n : Append(t, <<i, n>>)[k] = <<i, k>>
    BY <2>1, <2>2, AppendProperties
  <2>5. s \in Seq(Chunk) /\ Len(s) = n
    BY <1>1 DEF s
  <2>6. s = Append(t, <<i, n>>)
    BY <2>3, <2>4, <2>5, SeqEqual
  <2> QED
    BY <2>6 DEF s, t
<1> QED
  BY <1>2, <1>3

\* A step that moves no chunk, reader or entry, and changes nothing about the
\* shells that have exited.
LEMMA ContentKept ==
  ASSUME ContentInv, UNCHANGED <<spawned, paneOf, reader, hub, taken, sent, overlap>>,
         \A i \in Incs : shell[i] = "exited" => /\ shell'[i] = "exited"
                                                /\ written'[i] = written[i],
         cmd'.at = "admit" => cmd' = cmd
  PROVE  ContentInv'
<1>1. \A i \in Incs : Handed(i)' = Handed(i) /\ (Ended(i)' <=> Ended(i))
  BY DEF Handed, Ended
<1>2. \A p \in Panes, i \in Incs : EntryTrue(p, i)' <=> EntryTrue(p, i)
  BY <1>1 DEF EntryTrue, LiveReaders, HasReader
<1>3. \A i \in Incs : MarkerTrue(i) => MarkerTrue(i)'
  BY DEF MarkerTrue, AllOf
<1>4. \A i \in Incs : reader'[i] \in Gone => shell'[i] = "exited" /\ taken'[i] = written'[i]
  BY DEF ContentInv
<1>5. cmd'.at = "admit" => hub'[cmd'.pane].sink \in {0, cmd'.inc}
  BY DEF ContentInv
<1> QED
  BY <1>1, <1>2, <1>3, <1>4, <1>5 DEF ContentInv

\* A spawn starts an entry for a shell that has written nothing.  It shares its
\* pane id with a live reader only if both go into the history.
LEMMA ContentRegister ==
  ASSUME TypeInv, SlotInv, EofInv, ContentInv, NEW p \in Panes, SpawnRegister(p)
  PROVE  ContentInv'
<1>1. PICK i \in Incs : i = spawned + 1
  BY ConstantsAssumption DEF SpawnRegister, TypeInv, TypeOK, Incs
<1>2. /\ i \in Incs /\ spawned' = i /\ reader[i] = "none" /\ taken[i] = 0 /\ sent[i] = <<>>
      /\ spawned \in Nat
  BY <1>1, ConstantsAssumption DEF SpawnRegister, SlotInv, ContentInv, TypeInv, TypeOK, Incs
<1>3. /\ UNCHANGED <<reader, taken, written, sent>>
      /\ hub' = [hub EXCEPT ![p] = FreshEntry(i)] /\ paneOf' = [paneOf EXCEPT ![i] = p]
      /\ shell' = [shell EXCEPT ![i] = "running"]
      /\ cmd' = [at |-> "admit", pane |-> p, inc |-> i]
      /\ overlap' = IF p \in active
                    THEN overlap \cup {i} \cup {j \in LiveReaders : paneOf[j] = p}
                    ELSE overlap
  BY <1>1 DEF SpawnRegister
<1>4. /\ hub \in [Panes -> Entry] /\ paneOf \in [Incs -> Panes \cup {NoPane}]
      /\ shell \in [Incs -> ShellStates]
  BY DEF TypeInv, TypeOK
<1>5. /\ hub'[p] = FreshEntry(i) /\ \A q \in Panes \ {p} : hub'[q] = hub[q]
      /\ paneOf'[i] = p /\ \A j \in Incs \ {i} : paneOf'[j] = paneOf[j] /\ shell'[j] = shell[j]
  BY <1>2, <1>3, <1>4
<1>6. LiveReaders' = LiveReaders /\ i \notin LiveReaders /\ LiveReaders \subseteq Incs
  BY <1>2, <1>3 DEF LiveReaders, HasReader
<1>7. \A j \in Incs : Handed(j)' = Handed(j) /\ (Ended(j)' <=> Ended(j))
  BY <1>3 DEF Handed, Ended
<1>8. Handed(i) = 0 /\ ~Ended(i)
  BY <1>2 DEF Handed, Ended
<1>9. ASSUME NEW q \in Panes, NEW j \in Incs \ overlap', hub'[q].sink = j
      PROVE  EntryTrue(q, j)'
  <2>1. CASE q = p
    <3>1. j = i /\ hub'[q].buf = <<>> /\ hub'[q].closed = FALSE
      BY <1>5, <1>9, <2>1 DEF FreshEntry
    <3>2. p \notin active
      BY <1>2, <1>3, <1>9, <3>1
    <3>3. \A m \in LiveReaders' : paneOf'[m] # p
      BY <1>5, <1>6, <3>2 DEF SlotInv, SlotAccounting
    <3>4. sent'[i] \o hub'[q].buf = FirstChunks(i, Handed(i)')
      <4>1. FirstChunks(i, 0) = <<>>
        BY <1>2, ConstantsAssumption, ChunksGrow
      <4>2. Handed(i)' = 0 /\ sent'[i] \o hub'[q].buf = <<>>
        BY <1>2, <1>3, <1>7, <1>8, <3>1
      <4> QED
        BY <4>1, <4>2
    <3>5. ~hub'[q].closed
      BY <3>1
    <3>6. paneOf'[j] = q /\ \A m \in LiveReaders' : paneOf'[m] # q
      BY <1>5, <2>1, <3>1, <3>3
    <3> QED
      BY <3>1, <3>4, <3>5, <3>6 DEF EntryTrue
  <2>2. CASE q # p
    <3>1. hub'[q] = hub[q] /\ hub[q].sink = j /\ j \in Incs \ overlap
      BY <1>3, <1>5, <1>9, <2>2
    <3>2. j # i
      BY <1>2, <3>1, <1>1, SinkNat DEF EofInv
    <3>3. EntryTrue(q, j)
      BY <3>1 DEF ContentInv
    <3> QED
      BY <1>3, <1>5, <1>6, <1>7, <3>1, <3>2, <3>3, <2>2 DEF EntryTrue
  <2> QED
    BY <2>1, <2>2
<1>10. ASSUME NEW j \in Incs \ overlap', Ended(j)' PROVE MarkerTrue(j)'
  <2>1. j # i /\ MarkerTrue(j)
    BY <1>3, <1>7, <1>8, <1>10 DEF ContentInv
  <2> QED
    BY <1>3, <1>5, <2>1 DEF MarkerTrue, AllOf
<1>11. \A j \in Incs : j > spawned' => sent'[j] = <<>>
  BY <1>1, <1>2, <1>3 DEF ContentInv, Incs
<1>12. ASSUME NEW j \in Incs
       PROVE  /\ reader'[j] = "none" => taken'[j] = 0
              /\ reader'[j] \in Gone => shell'[j] = "exited" /\ taken'[j] = written'[j]
  BY <1>2, <1>3, <1>5 DEF ContentInv, Gone
<1>13. hub'[cmd'.pane].sink \in {0, cmd'.inc}
  BY <1>3, <1>5 DEF FreshEntry
<1> QED
  BY <1>9, <1>10, <1>11, <1>12, <1>13 DEF ContentInv

\* An entry that is taken out of the hub promises nothing any more.
LEMMA ContentDropped ==
  ASSUME TypeInv, ContentInv, SpawnUnregister \/ KillUnhook
  PROVE  ContentInv'
<1>1. /\ UNCHANGED <<spawned, paneOf, reader, taken, written, sent, overlap>>
      /\ hub' = [hub EXCEPT ![cmd.pane] = NoEntry] /\ cmd'.at # "admit"
      /\ \A i \in Incs : shell[i] = "exited" => shell'[i] = "exited"
  BY DEF SpawnUnregister, KillUnhook, Idle, TypeInv, TypeOK
<1>2. \A p \in Panes : hub'[p] = hub[p] \/ hub'[p].sink = 0
  BY <1>1 DEF TypeInv, TypeOK, NoEntry
<1>3. \A i \in Incs : Handed(i)' = Handed(i) /\ (Ended(i)' <=> Ended(i))
  BY <1>1 DEF Handed, Ended
<1>4. LiveReaders' = LiveReaders
  BY <1>1 DEF LiveReaders, HasReader
<1>5. ASSUME NEW p \in Panes, NEW i \in Incs \ overlap', hub'[p].sink = i
      PROVE  EntryTrue(p, i)'
  <2>1. hub'[p] = hub[p]
    BY <1>2, <1>5 DEF Incs
  <2>2. EntryTrue(p, i)
    BY <1>1, <1>5, <2>1 DEF ContentInv
  <2> QED
    BY <1>1, <1>3, <1>4, <2>1, <2>2 DEF EntryTrue
<1>6. \A i \in Incs : MarkerTrue(i) => MarkerTrue(i)'
  BY <1>1 DEF MarkerTrue, AllOf
<1>7. \A i \in Incs : reader'[i] \in Gone => shell'[i] = "exited" /\ taken'[i] = written'[i]
  BY <1>1 DEF ContentInv
<1> QED
  BY <1>1, <1>3, <1>5, <1>6, <1>7 DEF ContentInv

\* The reader that is admitted is the one the entry of its pane waits for.
LEMMA ContentAdmit ==
  ASSUME TypeInv, SlotInv, ContentInv, SpawnAdmit
  PROVE  ContentInv'
<1>1. PICK i \in Incs : i = cmd.inc
  BY DEF SpawnAdmit, TypeInv, TypeOK
<1>2. /\ UNCHANGED <<spawned, paneOf, hub, shell, taken, written, sent, overlap>>
      /\ reader' = [reader EXCEPT ![i] = "check"] /\ cmd'.at # "admit"
      /\ reader[i] = "none" /\ paneOf[i] = cmd.pane /\ cmd.pane \in Panes
      /\ hub[cmd.pane].sink \in {0, i}
      /\ reader \in [Incs -> ReaderStates]
  BY <1>1 DEF SpawnAdmit, SlotInv, ContentInv, TypeInv, TypeOK
<1>3. reader'[i] = "check" /\ \A j \in Incs \ {i} : reader'[j] = reader[j]
  BY <1>2
<1>4. \A j \in Incs : Handed(j)' = Handed(j) /\ (Ended(j)' <=> Ended(j))
  BY <1>2, <1>3 DEF Handed, Ended
<1>5. \A j \in LiveReaders' : j = i \/ j \in LiveReaders
  BY <1>3 DEF LiveReaders, HasReader
<1>6. ASSUME NEW p \in Panes, NEW j \in Incs \ overlap', hub'[p].sink = j
      PROVE  EntryTrue(p, j)'
  <2>1. EntryTrue(p, j)
    BY <1>2, <1>6 DEF ContentInv
  <2>2. \A m \in LiveReaders' : paneOf'[m] = p => m = j
    BY <1>2, <1>5, <1>6, <2>1 DEF EntryTrue, Incs
  <2>3. hub'[p].closed => reader'[j] \in {"release", "done"}
    BY <1>2, <1>3, <2>1 DEF EntryTrue
  <2> QED
    BY <1>2, <1>4, <2>1, <2>2, <2>3 DEF EntryTrue
<1>7. \A j \in Incs : MarkerTrue(j) => MarkerTrue(j)'
  BY <1>2 DEF MarkerTrue, AllOf
<1>8. ASSUME NEW j \in Incs
      PROVE  /\ reader'[j] = "none" => taken'[j] = 0
             /\ reader'[j] \in Gone => shell'[j] = "exited" /\ taken'[j] = written'[j]
  BY <1>2, <1>3 DEF ContentInv, Gone
<1> QED
  BY <1>2, <1>4, <1>6, <1>7, <1>8 DEF ContentInv

\* A reader that touches no entry and hands nothing over.
LEMMA ContentReads ==
  ASSUME TypeInv, ContentInv, NEW i \in Incs,
         ReaderRead(i) \/ ReaderInterrupted(i) \/ ReaderCheck(i) \/ ReaderRelease(i)
  PROVE  ContentInv'
<1> USE ConstantsAssumption
<1>1. /\ UNCHANGED <<cmd, spawned, paneOf, hub, shell, written, sent, overlap>>
      /\ \A j \in Incs \ {i} : reader'[j] = reader[j] /\ taken'[j] = taken[j]
      /\ reader[i] \in {"check", "read", "release"}
      /\ taken[i] \in Nat
  BY DEF ReaderRead, ReaderReadChunk, ReaderReadEof, ReaderInterrupted, ReaderCheck,
         ReaderRelease, mainVars, TypeInv, TypeOK
<1>2. \/ /\ reader[i] # "release" /\ reader'[i] \in {"check", "read"}
         /\ taken'[i] = taken[i]
      \/ reader[i] = "read" /\ reader'[i] = "data" /\ taken'[i] = taken[i] + 1
      \/ /\ reader[i] = "read" /\ reader'[i] = "eof" /\ taken'[i] = taken[i]
         /\ shell[i] = "exited" /\ taken[i] = written[i]
      \/ reader[i] = "release" /\ reader'[i] = "done" /\ taken'[i] = taken[i]
  BY DEF ReaderRead, ReaderReadChunk, ReaderReadEof, ReaderInterrupted, ReaderCheck,
         ReaderRelease, TypeInv, TypeOK
<1>3. \A j \in Incs : Handed(j)' = Handed(j) /\ (Ended(j)' <=> Ended(j))
  BY <1>1, <1>2 DEF Handed, Ended
<1>4. LiveReaders' \subseteq LiveReaders
  BY <1>1 DEF LiveReaders, HasReader
<1>5. ASSUME NEW p \in Panes, NEW j \in Incs \ overlap', hub'[p].sink = j
      PROVE  EntryTrue(p, j)'
  <2>1. EntryTrue(p, j)
    BY <1>1, <1>5 DEF ContentInv
  <2>2. hub'[p].closed => reader'[j] \in {"release", "done"}
    BY <1>1, <1>2, <2>1 DEF EntryTrue
  <2> QED
    BY <1>1, <1>3, <1>4, <2>1, <2>2 DEF EntryTrue
<1>6. \A j \in Incs : MarkerTrue(j) => MarkerTrue(j)'
  BY <1>1 DEF MarkerTrue, AllOf
<1>7. ASSUME NEW j \in Incs
      PROVE  /\ reader'[j] = "none" => taken'[j] = 0
             /\ reader'[j] \in Gone => shell'[j] = "exited" /\ taken'[j] = written'[j]
  BY <1>1, <1>2 DEF ContentInv, Gone
<1> QED
  BY <1>1, <1>3, <1>5, <1>6, <1>7 DEF ContentInv

\* A reader hands a chunk to the entry of its pane: if that entry speaks for
\* another incarnation, the two share a pane id and are in the history.
LEMMA ContentPush ==
  ASSUME TypeInv, ContentInv, NEW i \in Incs, ReaderOnData(i), paneOf[i] \in Panes
  PROVE  ContentInv'
<1> USE ConstantsAssumption
<1>1. PICK p \in Panes : paneOf[i] = p
  OBVIOUS
<1>2. PICK n \in 1..MaxOut : n = taken[i]
  BY DEF ReaderOnData, TypeInv, TypeOK, HoldsTakenChunk
<1>3. /\ UNCHANGED <<cmd, spawned, paneOf, shell, taken, written, sent, overlap>>
      /\ \A j \in Incs \ {i} : reader'[j] = reader[j]
      /\ reader[i] = "data" /\ reader'[i] = "check" /\ i \in LiveReaders
      /\ hub' = IF hub[p].sink = 0 THEN hub
                ELSE [hub EXCEPT ![p] = Push(hub[p], <<i, n>>)]
      /\ hub \in [Panes -> Entry] /\ hub[p] \in Entry
  BY <1>1, <1>2 DEF ReaderOnData, mainVars, LiveReaders, HasReader, TypeInv, TypeOK
<1>4. /\ Push(hub[p], <<i, n>>).sink = hub[p].sink
      /\ Push(hub[p], <<i, n>>).closed = hub[p].closed
      /\ Push(hub[p], <<i, n>>).buf = Append(hub[p].buf, <<i, n>>)
  BY <1>3 DEF Push, Entry
<1>5. /\ \A q \in Panes \ {p} : hub'[q] = hub[q]
      /\ \A q \in Panes : hub'[q].sink = hub[q].sink /\ hub'[q].closed = hub[q].closed
      /\ hub[p].sink # 0 => hub'[p].buf = Append(hub[p].buf, <<i, n>>)
  BY <1>3, <1>4
<1>6. /\ \A j \in Incs \ {i} : Handed(j)' = Handed(j)
      /\ Handed(i) = n - 1 /\ Handed(i)' = n
      /\ \A j \in Incs : Ended(j)' <=> Ended(j)
  BY <1>2, <1>3 DEF Handed, Ended
<1>7. LiveReaders' = LiveReaders
  BY <1>3 DEF LiveReaders, HasReader
<1>8. ASSUME NEW q \in Panes, NEW j \in Incs \ overlap', hub'[q].sink = j
      PROVE  EntryTrue(q, j)'
  <2>1. EntryTrue(q, j) /\ j # 0 /\ hub[q].sink = j
    <3>1. hub[q].sink = j /\ j \in Incs \ overlap
      BY <1>3, <1>5, <1>8
    <3> QED
      BY <3>1 DEF ContentInv, Incs
  <2>2. CASE q = p
    <3>1. j = i
      BY <1>1, <1>3, <2>1, <2>2 DEF EntryTrue
    <3>2. sent[i] \o hub[p].buf = FirstChunks(i, n - 1)
      BY <1>6, <2>1, <2>2, <3>1 DEF EntryTrue
    <3>3. sent[i] \in Seq(Chunk \cup {Eof}) /\ hub[p].buf \in Seq(Chunk \cup {Eof})
      BY <1>3, SeqMonotonic DEF TypeInv, TypeOK, Entry
    <3>4. <<i, n>> \in Chunk \cup {Eof}
      BY DEF Chunk
    <3>5. sent[i] \o Append(hub[p].buf, <<i, n>>) = Append(sent[i] \o hub[p].buf, <<i, n>>)
      BY <3>3, <3>4, ConcatMoves
    <3>6. FirstChunks(i, n) = Append(FirstChunks(i, n - 1), <<i, n>>)
      <4>1. n \in 0..MaxOut /\ n > 0
        OBVIOUS
      <4> QED
        BY <4>1, ChunksGrow
    <3>7. sent'[i] \o hub'[p].buf = FirstChunks(i, Handed(i)')
      BY <1>3, <1>5, <1>6, <2>1, <2>2, <3>2, <3>5, <3>6
    <3>8. ~hub'[q].closed
      BY <1>3, <1>5, <2>1, <3>1 DEF EntryTrue
    <3> QED
      BY <1>3, <1>7, <2>1, <2>2, <3>1, <3>7, <3>8 DEF EntryTrue
  <2>3. CASE q # p
    <3>1. j # i
      BY <1>1, <2>1, <2>3 DEF EntryTrue
    <3> QED
      BY <1>3, <1>5, <1>6, <1>7, <2>1, <2>3, <3>1 DEF EntryTrue
  <2> QED
    BY <2>2, <2>3
<1>9. \A j \in Incs : MarkerTrue(j) => MarkerTrue(j)'
  BY <1>3 DEF MarkerTrue, AllOf
<1>10. ASSUME NEW j \in Incs
       PROVE  /\ reader'[j] = "none" => taken'[j] = 0
              /\ reader'[j] \in Gone => shell'[j] = "exited" /\ taken'[j] = written'[j]
  BY <1>3 DEF ContentInv, Gone
<1>11. cmd'.at = "admit" => hub'[cmd'.pane].sink \in {0, cmd'.inc}
  BY <1>3, <1>5 DEF ContentInv, TypeInv, TypeOK
<1> QED
  BY <1>3, <1>6, <1>8, <1>9, <1>10, <1>11 DEF ContentInv

\* A reader closes the entry of its pane: it is done with its shell's output.
LEMMA ContentClose ==
  ASSUME TypeInv, ContentInv, NEW i \in Incs, ReaderOnEof(i), paneOf[i] \in Panes
  PROVE  ContentInv'
<1>1. PICK p \in Panes : paneOf[i] = p
  OBVIOUS
<1>2. /\ UNCHANGED <<cmd, spawned, paneOf, shell, taken, written, sent, overlap>>
      /\ \A j \in Incs \ {i} : reader'[j] = reader[j]
      /\ reader[i] = "eof" /\ reader'[i] = "release" /\ i \in LiveReaders
      /\ hub' = IF hub[p].sink = 0 THEN hub ELSE [hub EXCEPT ![p].closed = TRUE]
      /\ hub \in [Panes -> Entry]
  BY <1>1 DEF ReaderOnEof, mainVars, LiveReaders, HasReader, TypeInv, TypeOK
<1>3. /\ \A q \in Panes \ {p} : hub'[q] = hub[q]
      /\ \A q \in Panes : hub'[q].sink = hub[q].sink /\ hub'[q].buf = hub[q].buf
  BY <1>2 DEF Entry
<1>4. \A j \in Incs : Handed(j)' = Handed(j) /\ (Ended(j)' <=> Ended(j))
  BY <1>2 DEF Handed, Ended
<1>5. LiveReaders' = LiveReaders
  BY <1>2 DEF LiveReaders, HasReader
<1>6. ASSUME NEW q \in Panes, NEW j \in Incs \ overlap', hub'[q].sink = j
      PROVE  EntryTrue(q, j)'
  <2>1. EntryTrue(q, j)
    BY <1>2, <1>3, <1>6 DEF ContentInv
  <2>2. hub'[q].closed => reader'[j] \in {"release", "done"}
    <3>1. CASE q = p
      BY <1>1, <1>2, <2>1, <3>1 DEF EntryTrue
    <3>2. CASE q # p
      BY <1>1, <1>2, <1>3, <2>1, <3>2 DEF EntryTrue
    <3> QED
      BY <3>1, <3>2
  <2> QED
    BY <1>2, <1>3, <1>4, <1>5, <2>1, <2>2 DEF EntryTrue
<1>7. \A j \in Incs : MarkerTrue(j) => MarkerTrue(j)'
  BY <1>2 DEF MarkerTrue, AllOf
<1>8. ASSUME NEW j \in Incs
      PROVE  /\ reader'[j] = "none" => taken'[j] = 0
             /\ reader'[j] \in Gone => shell'[j] = "exited" /\ taken'[j] = written'[j]
  BY <1>2 DEF ContentInv, Gone
<1>9. cmd'.at = "admit" => hub'[cmd'.pane].sink \in {0, cmd'.inc}
  BY <1>2, <1>3 DEF ContentInv, TypeInv, TypeOK
<1> QED
  BY <1>2, <1>4, <1>6, <1>7, <1>8, <1>9 DEF ContentInv

\* A flush that tells a sink of an end has sent it all its shell wrote.
LEMMA ContentFlush ==
  ASSUME TypeInv, EofInv, EofInv', ContentInv, FlushTick
  PROVE  ContentInv'
<1> USE ConstantsAssumption
<1>1. /\ UNCHANGED <<cmd, spawned, paneOf, reader, shell, taken, written, overlap>>
      /\ \A p \in Panes : hub[p] \in Entry /\ hub'[p] = Flushed(hub[p])
      /\ sent \in [Incs -> Seq(Chunk \cup {Eof})]
  BY DEF FlushTick, mainVars, readVars, TypeInv, TypeOK
<1>2. ASSUME NEW i \in Incs, \A p \in Panes : hub[p].sink # i
      PROVE  sent'[i] = sent[i]
  BY <1>2 DEF FlushTick, TypeInv, TypeOK
<1>3. \A i \in Incs : Handed(i)' = Handed(i)
  BY <1>1 DEF Handed
<1>4. LiveReaders' = LiveReaders
  BY <1>1 DEF LiveReaders, HasReader
<1>5. \A p \in Panes : hub'[p].sink \in {0, hub[p].sink}
  BY <1>1, FlushedSink
<1>6. ASSUME NEW p \in Panes, NEW i \in Incs \ overlap', hub'[p].sink = i
      PROVE  EntryTrue(p, i)'
  <2>1. ~Finished(hub[p]) /\ hub[p].sink = i
    BY <1>1, <1>6, FlushedSink DEF Incs
  <2>2. EntryTrue(p, i)
    BY <1>1, <2>1 DEF ContentInv
  <2>3. hub'[p].closed = hub[p].closed
    BY <1>1, <2>1, FlushSplits
  <2>4. sent'[i] \o hub'[p].buf = sent[i] \o hub[p].buf
    <3>1. sent'[i] = sent[i] \o Messages(hub[p])
      BY <2>1, FlushAppends
    <3>2. Messages(hub[p]) \o hub'[p].buf = hub[p].buf
      BY <1>1, <2>1, FlushSplits
    <3>3. /\ sent[i] \in Seq(Chunk \cup {Eof}) /\ Messages(hub[p]) \in Seq(Chunk \cup {Eof})
          /\ hub'[p].buf \in Seq(Chunk \cup {Eof})
      <4>1. hub'[p].buf \in Seq(Chunk)
        BY <1>1, FlushedType DEF Entry
      <4> QED
        BY <1>1, <4>1, FlushedType, SeqMonotonic
    <3>4. (sent[i] \o Messages(hub[p])) \o hub'[p].buf
            = sent[i] \o (Messages(hub[p]) \o hub'[p].buf)
      BY <3>3, ConcatRegroups
    <3> QED
      BY <3>1, <3>2, <3>4
  <2> QED
    BY <1>1, <1>3, <1>4, <2>2, <2>3, <2>4 DEF EntryTrue
<1>7. ASSUME NEW i \in Incs \ overlap', Ended(i)'
      PROVE  MarkerTrue(i)'
  <2>1. CASE \E p \in Panes : hub[p].sink = i
    <3>1. PICK p \in Panes : hub[p].sink = i
      BY <2>1
    <3>2. hub'[p].sink # i
      BY <1>7 DEF EofInv
    <3>3. Finished(hub[p])
      BY <1>1, <3>1, <3>2, FlushedSink
    <3>4. EntryTrue(p, i) /\ hub[p].closed
      BY <1>1, <3>1, <3>3 DEF ContentInv, Finished
    <3>5. /\ reader[i] \in {"release", "done"} /\ shell[i] = "exited"
          /\ taken[i] = written[i] /\ Handed(i) = written[i]
      BY <3>4 DEF EntryTrue, ContentInv, Gone, Handed
    <3>6. sent'[i] = sent[i] \o Append(hub[p].buf, Eof)
      BY <1>1, <3>1, <3>3, FlushAppends, FlushSplits
    <3>7. sent[i] \o Append(hub[p].buf, Eof) = Append(sent[i] \o hub[p].buf, Eof)
      <4>1. hub[p].buf \in Seq(Chunk \cup {Eof}) /\ sent[i] \in Seq(Chunk \cup {Eof})
        BY <1>1, SeqMonotonic DEF Entry
      <4> QED
        BY <4>1, ConcatMoves
    <3>8. sent[i] \o hub[p].buf = FirstChunks(i, written[i])
      BY <3>4, <3>5 DEF EntryTrue
    <3>9. FirstChunks(i, written[i]) = AllOf(i)
      BY DEF FirstChunks, AllOf
    <3>10. AllOf(i)' = AllOf(i)
      BY <1>1 DEF AllOf
    <3> QED
      BY <1>1, <3>5, <3>6, <3>7, <3>8, <3>9, <3>10 DEF MarkerTrue
  <2>2. CASE \A p \in Panes : hub[p].sink # i
    <3>1. sent'[i] = sent[i]
      BY <1>2, <2>2
    <3>2. MarkerTrue(i)
      BY <1>1, <1>7, <3>1 DEF ContentInv, Ended
    <3> QED
      BY <1>1, <3>1, <3>2 DEF MarkerTrue, AllOf
  <2> QED
    BY <2>1, <2>2
<1>8. ASSUME NEW i \in Incs, i > spawned' PROVE sent'[i] = <<>>
  <2>1. \A p \in Panes : hub[p].sink # i
    BY <1>1, <1>8, SinkNat DEF EofInv, TypeInv, TypeOK, Incs
  <2> QED
    BY <1>1, <1>2, <1>8, <2>1 DEF ContentInv
<1>9. cmd'.at = "admit" => hub'[cmd'.pane].sink \in {0, cmd'.inc}
  BY <1>1, <1>5 DEF ContentInv, TypeInv, TypeOK
<1> QED
  BY <1>1, <1>6, <1>7, <1>8, <1>9 DEF ContentInv

\* The window of a batch says nothing about what is in it.
LEMMA ContentWindow ==
  ASSUME TypeInv, ContentInv, NEW p \in Panes, WindowElapses(p)
  PROVE  ContentInv'
<1>1. /\ UNCHANGED <<cmd, spawned, paneOf, reader, shell, taken, written, sent, overlap>>
      /\ \A q \in Panes : /\ hub'[q].sink = hub[q].sink /\ hub'[q].buf = hub[q].buf
                          /\ hub'[q].closed = hub[q].closed
  BY DEF WindowElapses, mainVars, readVars, TypeInv, TypeOK, Entry
<1>2. \A i \in Incs : Handed(i)' = Handed(i) /\ (Ended(i)' <=> Ended(i))
  BY <1>1 DEF Handed, Ended
<1>3. \A q \in Panes, i \in Incs : EntryTrue(q, i) => EntryTrue(q, i)'
  BY <1>1, <1>2 DEF EntryTrue, LiveReaders, HasReader
<1>4. \A i \in Incs : MarkerTrue(i) => MarkerTrue(i)'
  BY <1>1 DEF MarkerTrue, AllOf
<1>5. cmd'.at = "admit" => hub'[cmd'.pane].sink \in {0, cmd'.inc}
  BY <1>1 DEF ContentInv, TypeInv, TypeOK
<1>6. \A i \in Incs : reader'[i] \in Gone => shell'[i] = "exited" /\ taken'[i] = written'[i]
  BY <1>1 DEF ContentInv
<1> QED
  BY <1>1, <1>2, <1>3, <1>4, <1>5, <1>6 DEF ContentInv

LEMMA ContentInit == Init => ContentInv
<1> SUFFICES ASSUME Init PROVE ContentInv
  OBVIOUS
<1>1. \A i \in Incs : ~Ended(i)
  BY DEF Init, Ended
<1>2. \A p \in Panes : hub[p].sink \notin Incs
  BY DEF Init, NoEntry, Incs
<1> QED
  BY <1>1, <1>2 DEF Init, Idle, ContentInv, Gone

\* Every step keeps the end marker's word.
LEMMA ContentNext ==
  ASSUME TypeInv, SlotInv, EofInv, EofInv', ReaderHasPane, ContentInv, [Next]_vars
  PROVE  ContentInv'
<1>1. ASSUME \/ SpawnReject \/ SpawnInsert \/ KillChild \/ UNCHANGED vars
             \/ \E p \in Panes : KillTake(p) \/ \E v \in BOOLEAN : SetPause(p, v)
      PROVE  ContentInv'
  <2>1. UNCHANGED <<spawned, paneOf, reader, hub, taken, sent, overlap, written>>
    BY <1>1 DEF SpawnReject, SpawnInsert, KillChild, KillTake, SetPause, vars
  <2>2. \A i \in Incs : shell[i] = "exited" => shell'[i] = "exited"
    BY <1>1 DEF SpawnReject, SpawnInsert, KillChild, KillTake, SetPause, vars, TypeInv,
                TypeOK
  <2>3. cmd'.at = "admit" => cmd' = cmd
    BY <1>1 DEF SpawnReject, SpawnInsert, KillChild, KillTake, SetPause, vars, Idle,
                TypeInv, TypeOK
  <2> QED
    BY <2>1, <2>2, <2>3, ContentKept
<1>2. ASSUME NEW i \in Incs, ShellWrite(i) \/ ShellExit(i) PROVE ContentInv'
  <2>1. UNCHANGED <<spawned, paneOf, reader, hub, taken, sent, overlap, cmd>>
    BY <1>2 DEF ShellWrite, ShellExit, mainVars, readVars
  <2>2. \A j \in Incs : shell[j] = "exited" => /\ shell'[j] = "exited"
                                               /\ written'[j] = written[j]
    BY <1>2 DEF ShellWrite, ShellExit, ShellAlive, TypeInv, TypeOK
  <2> QED
    BY <2>1, <2>2, ContentKept
<1>3. ASSUME NEW i \in Incs, ReaderOnData(i) \/ ReaderOnEof(i) PROVE ContentInv'
  <2>1. paneOf[i] \in Panes
    BY <1>3 DEF ReaderOnData, ReaderOnEof, ReaderHasPane
  <2> QED
    BY <1>3, <2>1, ContentPush, ContentClose
<1>4. ASSUME NEW i \in Incs, ReaderRead(i) \/ ReaderInterrupted(i) \/ ReaderStep(i)
      PROVE  ContentInv'
  BY <1>3, <1>4, ContentReads DEF ReaderStep
<1> QED
  BY <1>1, <1>2, <1>4, ContentRegister, ContentDropped, ContentAdmit, ContentFlush,
     ContentWindow
  DEF Next, CommandStep

\* A sink whose last message is an end marker has been told of an end.
LEMMA MarkersAreTrue ==
  ASSUME TypeInv, ContentInv
  PROVE  EofComplete
<1>1. SUFFICES ASSUME NEW i \in Incs \ overlap, sent[i] # <<>>, sent[i][Len(sent[i])] = Eof
               PROVE  shell[i] = "exited" /\ sent[i] = Append(AllOf(i), Eof)
  BY DEF EofComplete
<1>2. sent[i] \in Seq(Chunk \cup {Eof})
  BY DEF TypeInv, TypeOK
<1>3. Len(sent[i]) \in DOMAIN sent[i]
  BY <1>1, <1>2, EmptySeq
<1>4. Ended(i)
  BY <1>1, <1>3 DEF Ended
<1> QED
  BY <1>4 DEF ContentInv, MarkerTrue

LEMMA ContentInvariant == Spec => [](TypeInv /\ ContentInv)
<1>1. Init => /\ TypeInv /\ SlotInv /\ EofInv /\ ContentInv
              /\ ReaderHasPane
  BY TypeInit, SlotInit, EofInit, ContentInit DEF Init, ReaderHasPane
<1>2. TypeInv /\ SlotInv /\ EofInv /\ ReaderHasPane /\ ContentInv /\ [Next]_vars
        => (TypeInv /\ SlotInv /\ EofInv /\ ReaderHasPane /\ ContentInv)'
  BY TypeNext, SlotNext, EofNext, PaneNext, ContentNext
<1> QED
  BY <1>1, <1>2, PTL DEF Spec

\* What a sink is told is faithful to its shell, whatever the panes, the caps
\* and the bounds are: chunks in order and once, and an end marker only behind
\* everything the shell wrote.
THEOREM OutputAlwaysFaithful == Spec => []OutputFaithful
<1>1. TypeInv /\ ContentInv /\ InOrderOnce => OutputFaithful
  BY MarkersAreTrue DEF OutputFaithful
<1> QED
  BY <1>1, ContentInvariant, ChunksInOrderOnce, PTL

-----------------------------------------------------------------------------
(* The terminals on top: TerminalFlow.  A session and the shell it asked for *)
(* have the same number because requests reach the main thread in the order  *)
(* they were made.                                                           *)

\* The frontend's variables have their types, and only sessions that were opened
\* have a pane id and requests on their way.
BridgeInv ==
  /\ FlowTypeOK
  /\ \A i \in Incs : stage[i] = "none" <=> sessionPane[i] = NoPane
  /\ \A i, j \in Incs : j < i /\ stage[i] # "none" => stage[j] # "none"
  /\ \A k \in 1..Len(ipc) : stage[ipc[k].session] # "none"

\* The spawn requests on their way are those of the sessions opened after the
\* last one that was served, in their order, so that the n-th session to open
\* makes the n-th attempt.
NumbersInv ==
  /\ \A k, l \in 1..Len(ipc) :
       k < l /\ ipc[k].op = "spawn" /\ ipc[l].op = "spawn" => ipc[k].session < ipc[l].session
  /\ \A k \in 1..Len(ipc) : ipc[k].op = "spawn" => spawned < ipc[k].session
  /\ \A i \in Incs : spawned < i /\ stage[i] # "none" =>
       \E k \in 1..Len(ipc) : ipc[k].op = "spawn" /\ ipc[k].session = i
  /\ \A i \in Incs : i <= spawned => stage[i] # "none" /\ paneOf[i] = sessionPane[i]

\* The entry of a pane, and the command under way, are of an incarnation of that
\* pane.
HandlesInv ==
  /\ \A p \in Panes : handle[p] # 0 => handle[p] <= spawned /\ paneOf[handle[p]] = p
  /\ cmd.at # "idle" => cmd.inc <= spawned /\ paneOf[cmd.inc] = cmd.pane

\* Before its shell is spawned a session has nothing to pause.
QuietInv ==
  \A i \in Incs : spawned < i =>
    /\ ~pause[i] /\ ~paused[i] /\ outstanding[i] = 0
    /\ \A k \in 1..Len(ipc) : ipc[k].session = i => ipc[k].op \notin {"pause", "resume"}

\* The k-th request is of session i and changes its flag.
FlagRequest(reqs, i, k) == reqs[k].session = i /\ reqs[k].op \in {"pause", "resume"}

\* What session i last said of its flag, in a request on its way or else in the
\* flag itself, is what it believes.
Says(i) ==
  /\ (\A k \in 1..Len(ipc) : ~FlagRequest(ipc, i, k)) => pause[i] = paused[i]
  /\ \A k \in 1..Len(ipc) :
       (/\ FlagRequest(ipc, i, k)
        /\ \A l \in 1..Len(ipc) : k < l => ~FlagRequest(ipc, i, l))
         => (ipc[k].op = "pause" <=> paused[i])

\* Session i owns the entry of its pane, or is about to.
Held(i) ==
  \/ handle[sessionPane[i]] = i
  \/ cmd.at \in {"admit", "insert"} /\ cmd.inc = i

FlagInv == \A i \in Incs : i <= spawned /\ OwnPane(i) /\ Held(i) => Says(i)

-----------------------------------------------------------------------------
(* The queue of requests.                                                    *)

\* A request appended to the queue comes last and leaves the others where they are.
LEMMA RequestAdded ==
  ASSUME ipc \in Seq(Requests), NEW r \in Requests, ipc' = Append(ipc, r)
  PROVE  /\ ipc' \in Seq(Requests)
         /\ Len(ipc) \in Nat /\ Len(ipc') = Len(ipc) + 1
         /\ \A k \in 1..Len(ipc) : ipc'[k] = ipc[k]
         /\ ipc'[Len(ipc) + 1] = r
  BY AppendProperties, LenProperties

\* Serving the first request moves the others up by one.
LEMMA RequestTaken ==
  ASSUME ipc \in Seq(Requests), ipc # <<>>, ipc' = Tail(ipc)
  PROVE  /\ ipc' \in Seq(Requests)
         /\ Len(ipc) \in Nat \ {0} /\ Len(ipc') = Len(ipc) - 1
         /\ Head(ipc) = ipc[1] /\ Head(ipc) \in Requests
         /\ \A k \in 1..(Len(ipc) - 1) : ipc'[k] = ipc[k + 1]
<1>1. Len(ipc) \in Nat \ {0}
  BY LenProperties, EmptySeq
<1> QED
  BY <1>1, HeadTailProperties, ElementOfSeq

\* Every request under way is one a terminal may make.
LEMMA RequestTyped ==
  ASSUME NEW op \in {"spawn", "pause", "resume", "kill"}, NEW i \in Incs
  PROVE  Request(op, i) \in Requests /\ Request(op, i).op = op /\ Request(op, i).session = i
  BY DEF Request, Requests

\* A command, a shell, a reader, the flusher or the clock leaves the sessions and
\* the numbers alone.
LEMMA BackendFrame ==
  ASSUME Backend
  PROVE  /\ UNCHANGED <<spawned, paneOf, pause, ipc, uiVars>>
         /\ CommandStep \/ UNCHANGED <<cmd, handle>>
  BY DEF Backend, CommandStep, SpawnAdmit, SpawnReject, SpawnUnregister, SpawnInsert,
     KillUnhook, KillChild, FlushTick, WindowElapses, ShellWrite, ShellExit, ReaderRead,
     ReaderInterrupted, ReaderStep, ReaderReadChunk, ReaderReadEof, ReaderCheck,
     ReaderOnData, ReaderOnEof, ReaderRelease, mainVars

-----------------------------------------------------------------------------
(* The entries of the panes.                                                 *)

\* A step of the backend keeps HandlesInv.
LEMMA HandlesNext ==
  ASSUME TypeInv, HandlesInv, [Next]_vars
  PROVE  HandlesInv'
<1> USE ConstantsAssumption DEF Incs
<1>1. ASSUME NEW p \in Panes, SpawnRegister(p) PROVE HandlesInv'
  <2>1. spawned + 1 \in Incs /\ spawned \in Nat
    BY <1>1 DEF SpawnRegister, TypeInv, TypeOK
  <2>2. /\ spawned' = spawned + 1 /\ handle' = handle
        /\ paneOf'[spawned + 1] = p /\ cmd'.inc = spawned + 1 /\ cmd'.pane = p
        /\ \A i \in Incs : i # spawned + 1 => paneOf'[i] = paneOf[i]
    BY <1>1, <2>1 DEF SpawnRegister, TypeInv, TypeOK
  <2>3. \A q \in Panes : handle[q] # 0 => handle[q] \in Incs
    BY DEF TypeInv, TypeOK
  <2> QED
    BY <2>1, <2>2, <2>3 DEF HandlesInv
<1>2. CASE SpawnAdmit
  BY <1>2 DEF SpawnAdmit, HandlesInv, TypeInv, TypeOK
<1>3. CASE SpawnReject
  BY <1>3 DEF SpawnReject, HandlesInv, TypeInv, TypeOK
<1>4. CASE SpawnUnregister
  BY <1>4, IdleType DEF SpawnUnregister, HandlesInv
<1>5. CASE SpawnInsert
  BY <1>5, IdleType DEF SpawnInsert, HandlesInv, TypeInv, TypeOK
<1>6. ASSUME NEW p \in Panes, KillTake(p) PROVE HandlesInv'
  BY <1>6 DEF KillTake, HandlesInv, TypeInv, TypeOK
<1>7. CASE KillUnhook
  BY <1>7 DEF KillUnhook, HandlesInv, TypeInv, TypeOK
<1>8. CASE KillChild
  BY <1>8, IdleType DEF KillChild, HandlesInv
<1>9. CASE UNCHANGED mainVars
  BY <1>9 DEF HandlesInv, mainVars
<1> QED
  BY <1>1, <1>2, <1>3, <1>4, <1>5, <1>6, <1>7, <1>8, <1>9
  DEF Next, CommandStep, SetPause, FlushTick, WindowElapses, ShellWrite, ShellExit,
      ReaderRead, ReaderInterrupted, ReaderStep, ReaderReadChunk, ReaderReadEof,
      ReaderCheck, ReaderOnData, ReaderOnEof, ReaderRelease, mainVars, vars

-----------------------------------------------------------------------------
(* The frontend and the bridge.                                              *)

\* An open session has a pane id of its own.
LEMMA SessionsTyped ==
  ASSUME ipc \in Seq(Requests), NEW k \in 1..Len(ipc)
  PROVE  /\ ipc[k] \in Requests
         /\ ipc[k].session \in Incs /\ ipc[k].op \in {"spawn", "pause", "resume", "kill"}
<1>1. ipc[k] \in Requests
  BY ElementOfSeq
<1> QED
  BY <1>1 DEF Requests

\* Opening a session keeps the types of the frontend.
LEMMA BridgeOpen ==
  ASSUME BridgeInv, NEW i \in Incs, NEW p \in Panes, Open(i, p)
  PROVE  BridgeInv'
<1>1. ipc' = Append(ipc, Request("spawn", i)) /\ Request("spawn", i) \in Requests
      /\ Request("spawn", i).session = i
  BY RequestTyped DEF Open
<1>2. /\ ipc' \in Seq(Requests) /\ Len(ipc) \in Nat /\ Len(ipc') = Len(ipc) + 1
      /\ \A k \in 1..Len(ipc) : ipc'[k] = ipc[k]
      /\ ipc'[Len(ipc) + 1].session = i
  BY <1>1, RequestAdded DEF BridgeInv, FlowTypeOK
<1>3. /\ stage' = [stage EXCEPT ![i] = "open"] /\ sessionPane' = [sessionPane EXCEPT ![i] = p]
      /\ UNCHANGED <<seen, outstanding, paused, closed>>
      /\ \A j \in Incs : j < i => stage[j] # "none"
  BY DEF Open
<1>4. FlowTypeOK'
  BY <1>2, <1>3 DEF BridgeInv, FlowTypeOK
<1>5. /\ stage'[i] = "open" /\ sessionPane'[i] = p
      /\ \A j \in Incs \ {i} : stage'[j] = stage[j] /\ sessionPane'[j] = sessionPane[j]
  BY <1>3 DEF BridgeInv, FlowTypeOK
<1>6. \A j \in Incs : stage'[j] = "none" <=> sessionPane'[j] = NoPane
  BY <1>5, ConstantsAssumption DEF BridgeInv
<1>7. \A j, m \in Incs : m < j /\ stage'[j] # "none" => stage'[m] # "none"
  BY <1>3, <1>5 DEF BridgeInv
<1>8. \A k \in 1..Len(ipc) : ipc[k].session \in Incs /\ stage'[ipc[k].session] # "none"
  BY <1>5, SessionsTyped DEF BridgeInv, FlowTypeOK
<1>9. \A k \in 1..Len(ipc') : stage'[ipc'[k].session] # "none"
  BY <1>2, <1>5, <1>8
<1> QED
  BY <1>4, <1>6, <1>7, <1>9 DEF BridgeInv

\* Messages, callbacks and dispose of an open session.
LEMMA BridgeSession ==
  ASSUME BridgeInv, NEW i \in Incs,
         OnOutput(i) \/ OnEndOfOutput(i) \/ OnFlushed(i) \/ Dispose(i) \/ DisposeTerminal(i)
  PROVE  BridgeInv'
<1>1. /\ stage[i] \in {"open", "closing"} /\ sessionPane' = sessionPane
      /\ stage' = stage \/ stage' = [stage EXCEPT ![i] = "closing"]
                        \/ stage' = [stage EXCEPT ![i] = "disposed"]
  BY DEF OnOutput, OnEndOfOutput, OnFlushed, Dispose, DisposeTerminal
<1>2. /\ stage' \in [Incs -> {"none", "open", "closing", "disposed"}]
      /\ \A j \in Incs : stage'[j] = "none" <=> stage[j] = "none"
  BY <1>1 DEF BridgeInv, FlowTypeOK
<1>3. ipc' = ipc \/ \E op \in {"pause", "resume", "kill"} : ipc' = Append(ipc, Request(op, i))
  BY DEF OnOutput, OnEndOfOutput, OnFlushed, Dispose, DisposeTerminal
<1>4. ipc' \in Seq(Requests) /\ \A k \in 1..Len(ipc') : stage'[ipc'[k].session] # "none"
  <2>1. \A k \in 1..Len(ipc) : ipc[k].session \in Incs
    BY SessionsTyped DEF BridgeInv, FlowTypeOK
  <2>2. CASE ipc' = ipc
    BY <1>2, <2>1, <2>2 DEF BridgeInv, FlowTypeOK
  <2>3. ASSUME NEW op \in {"pause", "resume", "kill"}, ipc' = Append(ipc, Request(op, i))
        PROVE  ipc' \in Seq(Requests) /\ \A k \in 1..Len(ipc') : stage'[ipc'[k].session] # "none"
    <3>1. Request(op, i) \in Requests /\ Request(op, i).session = i
      BY RequestTyped
    <3>2. /\ ipc' \in Seq(Requests) /\ Len(ipc) \in Nat /\ Len(ipc') = Len(ipc) + 1
          /\ \A k \in 1..Len(ipc) : ipc'[k] = ipc[k]
          /\ ipc'[Len(ipc) + 1].session = i
      BY <2>3, <3>1, RequestAdded DEF BridgeInv, FlowTypeOK
    <3> QED
      BY <1>1, <1>2, <2>1, <3>2 DEF BridgeInv
  <2> QED
    BY <1>3, <2>2, <2>3
<1>5. /\ seen' \in [Incs -> Nat] /\ outstanding' \in [Incs -> Nat]
      /\ closed' \in [Incs -> BOOLEAN]
  <2>1. /\ seen \in [Incs -> Nat] /\ outstanding \in [Incs -> Nat]
        /\ closed \in [Incs -> BOOLEAN]
    BY DEF BridgeInv, FlowTypeOK
  <2>2. seen' = seen \/ seen' = [seen EXCEPT ![i] = seen[i] + 1]
    BY DEF OnOutput, OnEndOfOutput, OnFlushed, Dispose, DisposeTerminal
  <2>3. closed' = closed \/ closed' = [closed EXCEPT ![i] = TRUE]
    BY DEF OnOutput, OnEndOfOutput, OnFlushed, Dispose, DisposeTerminal
  <2>4. \/ outstanding' = outstanding
        \/ outstanding' = [outstanding EXCEPT ![i] = outstanding[i] + 1]
        \/ outstanding[i] > 0 /\ outstanding' = [outstanding EXCEPT ![i] = outstanding[i] - 1]
    BY DEF OnOutput, OnEndOfOutput, OnFlushed, Dispose, DisposeTerminal
  <2>5. outstanding' \in [Incs -> Nat]
    BY <2>1, <2>4
  <2>6. seen' \in [Incs -> Nat]
    BY <2>1, <2>2
  <2> QED
    BY <2>1, <2>3, <2>5, <2>6
<1>6. paused' \in [Incs -> BOOLEAN]
  <2>1. UNCHANGED paused \/ \E b \in BOOLEAN : paused' = [paused EXCEPT ![i] = b]
    <3>1. CASE OnOutput(i)
      <4> DEFINE b == paused[i] \/ (~paused[i] /\ outstanding[i] + 1 >= High)
      <4>1. paused' = [paused EXCEPT ![i] = b] /\ b \in BOOLEAN
        BY <3>1, Zenon DEF OnOutput
      <4> QED
        BY <4>1
    <3>2. CASE OnFlushed(i)
      <4> DEFINE b == paused[i] /\ ~(paused[i] /\ outstanding[i] - 1 <= Low)
      <4>1. paused' = [paused EXCEPT ![i] = b] /\ b \in BOOLEAN
        BY <3>2, Zenon DEF OnFlushed
      <4> QED
        BY <4>1
    <3> QED
      BY <3>1, <3>2 DEF OnEndOfOutput, Dispose, DisposeTerminal
  <2> QED
    BY <2>1 DEF BridgeInv, FlowTypeOK
<1>7. FlowTypeOK'
  BY <1>1, <1>2, <1>4, <1>5, <1>6 DEF BridgeInv, FlowTypeOK
<1> QED
  BY <1>1, <1>2, <1>4, <1>7 DEF BridgeInv

\* So does serving a request.
LEMMA BridgeTaken ==
  ASSUME BridgeInv, ipc # <<>>, ipc' = Tail(ipc), UNCHANGED uiVars
  PROVE  BridgeInv'
<1>1. /\ ipc' \in Seq(Requests)
      /\ Len(ipc) \in Nat \ {0} /\ Len(ipc') = Len(ipc) - 1
      /\ \A k \in 1..(Len(ipc) - 1) : ipc'[k] = ipc[k + 1]
  BY RequestTaken DEF BridgeInv, FlowTypeOK
<1>2. \A k \in 1..Len(ipc') : k + 1 \in 1..Len(ipc) /\ ipc'[k] = ipc[k + 1]
  BY <1>1
<1>3. FlowTypeOK'
  BY <1>1 DEF BridgeInv, FlowTypeOK, uiVars
<1> QED
  BY <1>2, <1>3 DEF BridgeInv, uiVars

\* So does every step.
LEMMA BridgeNext ==
  ASSUME BridgeInv, [FlowNext]_allVars
  PROVE  BridgeInv'
<1>1. CASE Serve
  <2>1. ipc # <<>> /\ ipc' = Tail(ipc) /\ UNCHANGED uiVars
    BY <1>1 DEF Serve, ServeSpawn, ServeKill, ServePause, ServeResume, ServeUnknown, Take
  <2> QED
    BY <2>1, BridgeTaken
<1>2. CASE Backend \/ UNCHANGED allVars
  BY <1>2 DEF Backend, allVars, uiVars, BridgeInv, FlowTypeOK
<1> QED
  BY <1>1, <1>2, BridgeOpen, BridgeSession DEF FlowNext

\* The request that is served comes from a session with a pane.
LEMMA HeadSession ==
  ASSUME BridgeInv, ipc # <<>>
  PROVE  /\ Head(ipc) = ipc[1] /\ 1 \in 1..Len(ipc)
         /\ Head(ipc).session \in Incs /\ Target \in Panes
<1>1. Len(ipc) \in Nat \ {0} /\ Head(ipc) = ipc[1] /\ ipc[1] \in Requests
  BY LenProperties, EmptySeq, HeadTailProperties, ElementOfSeq DEF BridgeInv, FlowTypeOK
<1>2. 1 \in 1..Len(ipc) /\ Head(ipc).session \in Incs
  BY <1>1 DEF Requests
<1>3. stage[Head(ipc).session] # "none"
  BY <1>1, <1>2 DEF BridgeInv
<1> QED
  BY <1>1, <1>2, <1>3 DEF BridgeInv, FlowTypeOK, Target

-----------------------------------------------------------------------------
(* Sessions and incarnations share their numbers.                            *)

\* The spawn request at the head of the queue is of the next incarnation.
LEMMA HeadIsNext ==
  ASSUME BridgeInv, NumbersInv, spawned \in Nat, ipc # <<>>, Head(ipc).op = "spawn"
  PROVE  Head(ipc).session = spawned + 1
<1> DEFINE i == Head(ipc).session
<1>1. Head(ipc) = ipc[1] /\ 1 \in 1..Len(ipc) /\ i \in Incs
  BY HeadSession
<1>2. spawned < i /\ stage[i] # "none"
  BY <1>1 DEF NumbersInv, BridgeInv
<1>3. CASE spawned + 1 < i
  <2>1. spawned + 1 \in Incs
    BY <1>1, <1>3, ConstantsAssumption DEF Incs
  <2>2. stage[spawned + 1] # "none"
    BY <1>1, <1>2, <1>3, <2>1 DEF BridgeInv
  <2>3. PICK k \in 1..Len(ipc) : ipc[k].op = "spawn" /\ ipc[k].session = spawned + 1
    BY <2>1, <2>2 DEF NumbersInv
  <2>4. k # 1 /\ 1 < k
    BY <1>1, <1>3, <2>1, <2>3, LenProperties DEF BridgeInv, FlowTypeOK
  <2>5. i < spawned + 1
    BY <1>1, <2>3, <2>4 DEF NumbersInv
  <2> QED
    BY <1>1, <1>3, <2>5 DEF Incs
<1> QED
  BY <1>1, <1>2, <1>3, ConstantsAssumption DEF Incs

\* A session that opens gets the next number, and its spawn request comes last.
LEMMA NumbersOpen ==
  ASSUME BridgeInv, NumbersInv, spawned \in Nat,
         NEW i \in Incs, NEW p \in Panes, Open(i, p)
  PROVE  NumbersInv'
<1> DEFINE n == Len(ipc)
<1>1. /\ Request("spawn", i) \in Requests
      /\ Request("spawn", i).session = i /\ Request("spawn", i).op = "spawn"
  BY RequestTyped
<1>2. /\ n \in Nat /\ Len(ipc') = n + 1
      /\ \A k \in 1..n : ipc'[k] = ipc[k]
      /\ ipc'[n + 1].session = i /\ ipc'[n + 1].op = "spawn"
  BY <1>1, RequestAdded DEF BridgeInv, FlowTypeOK, Open
<1>3. /\ stage[i] = "none" /\ stage'[i] = "open"
      /\ \A j \in Incs \ {i} : stage'[j] = stage[j] /\ sessionPane'[j] = sessionPane[j]
      /\ UNCHANGED <<spawned, paneOf>>
  BY DEF Open, BridgeInv, FlowTypeOK, vars
<1>4. spawned < i
  BY <1>3 DEF NumbersInv, Incs
<1>5. \A k \in 1..n : ipc[k].session \in Incs /\ ipc[k].session < i
  <2> TAKE k \in 1..n
  <2>1. ipc[k].session \in Incs /\ stage[ipc[k].session] # "none"
    BY SessionsTyped DEF BridgeInv, FlowTypeOK
  <2>2. ipc[k].session # i /\ ~(i < ipc[k].session)
    BY <1>3, <2>1 DEF BridgeInv
  <2> QED
    BY <2>1, <2>2 DEF Incs
<1> HIDE DEF n
<1>6. \A k, l \in 1..Len(ipc') :
        k < l /\ ipc'[k].op = "spawn" /\ ipc'[l].op = "spawn"
          => ipc'[k].session < ipc'[l].session
  <2> TAKE k, l \in 1..Len(ipc')
  <2> HAVE k < l /\ ipc'[k].op = "spawn" /\ ipc'[l].op = "spawn"
  <2>1. k \in 1..n /\ ipc'[k] = ipc[k]
    BY <1>2
  <2>2. CASE l = n + 1
    BY <1>2, <1>5, <2>1, <2>2
  <2>3. CASE l # n + 1
    <3>1. l \in 1..n /\ ipc'[l] = ipc[l]
      BY <1>2, <2>3
    <3> QED
      BY <2>1, <3>1 DEF NumbersInv, n
  <2> QED
    BY <2>2, <2>3
<1>7. \A k \in 1..Len(ipc') : ipc'[k].op = "spawn" => spawned' < ipc'[k].session
  BY <1>2, <1>3, <1>4 DEF NumbersInv, n
<1>8. ASSUME NEW j \in Incs, spawned' < j, stage'[j] # "none"
      PROVE  \E k \in 1..Len(ipc') : ipc'[k].op = "spawn" /\ ipc'[k].session = j
  <2>1. CASE j = i
    <3>1. n + 1 \in 1..Len(ipc')
      BY <1>2
    <3> QED
      BY <1>2, <2>1, <3>1
  <2>2. CASE j # i
    <3>1. PICK k \in 1..n : ipc[k].op = "spawn" /\ ipc[k].session = j
      BY <1>3, <1>8, <2>2 DEF NumbersInv, n
    <3>2. k \in 1..Len(ipc') /\ ipc'[k] = ipc[k]
      BY <1>2, <3>1
    <3> QED
      BY <3>1, <3>2
  <2> QED
    BY <2>1, <2>2
<1>9. \A j \in Incs : j <= spawned' => stage'[j] # "none" /\ paneOf'[j] = sessionPane'[j]
  BY <1>3, <1>4 DEF NumbersInv, Incs
<1> QED
  BY <1>6, <1>7, <1>8, <1>9 DEF NumbersInv

\* What an open session asks leaves the numbers alone.
LEMMA NumbersSession ==
  ASSUME BridgeInv, NumbersInv, NEW i \in Incs,
         OnOutput(i) \/ OnEndOfOutput(i) \/ OnFlushed(i) \/ Dispose(i) \/ DisposeTerminal(i)
  PROVE  NumbersInv'
<1> DEFINE n == Len(ipc)
<1>1. /\ \A j \in Incs : stage'[j] = "none" <=> stage[j] = "none"
      /\ UNCHANGED <<spawned, paneOf, sessionPane>>
  <2>1. /\ stage[i] \in {"open", "closing"}
        /\ stage' = stage \/ stage' = [stage EXCEPT ![i] = "closing"]
                          \/ stage' = [stage EXCEPT ![i] = "disposed"]
    BY DEF OnOutput, OnEndOfOutput, OnFlushed, Dispose, DisposeTerminal
  <2>2. UNCHANGED <<spawned, paneOf, sessionPane>>
    BY DEF OnOutput, OnEndOfOutput, OnFlushed, Dispose, DisposeTerminal, vars
  <2> QED
    BY <2>1, <2>2 DEF BridgeInv, FlowTypeOK
<1>2. /\ n \in Nat /\ Len(ipc') >= n /\ Len(ipc') \in Nat
      /\ \A k \in 1..n : ipc'[k] = ipc[k]
      /\ \A k \in 1..Len(ipc') : k \in 1..n \/ ipc'[k].op # "spawn"
  <2>1. CASE ipc' = ipc
    BY <2>1, LenProperties DEF BridgeInv, FlowTypeOK
  <2>2. ASSUME NEW op \in {"pause", "resume", "kill"}, ipc' = Append(ipc, Request(op, i))
        PROVE  /\ n \in Nat /\ Len(ipc') = n + 1
               /\ \A k \in 1..n : ipc'[k] = ipc[k]
               /\ ipc'[n + 1].op # "spawn"
    <3>1. Request(op, i) \in Requests /\ Request(op, i).op = op
      BY RequestTyped
    <3> QED
      BY <2>2, <3>1, RequestAdded DEF BridgeInv, FlowTypeOK
  <2>3. ipc' = ipc \/ \E op \in {"pause", "resume", "kill"} : ipc' = Append(ipc, Request(op, i))
    BY DEF OnOutput, OnEndOfOutput, OnFlushed, Dispose, DisposeTerminal
  <2>4. CASE ipc' # ipc
    <3>1. PICK op \in {"pause", "resume", "kill"} : ipc' = Append(ipc, Request(op, i))
      BY <2>3, <2>4
    <3> QED
      BY <2>2, <3>1
  <2> QED
    BY <2>1, <2>4
<1> HIDE DEF n
<1>3. \A k \in 1..n : k \in 1..Len(ipc')
  BY <1>2
<1>4. ASSUME NEW j \in Incs, spawned' < j, stage'[j] # "none"
      PROVE  \E k \in 1..Len(ipc') : ipc'[k].op = "spawn" /\ ipc'[k].session = j
  <2>1. PICK k \in 1..n : ipc[k].op = "spawn" /\ ipc[k].session = j
    BY <1>1, <1>4 DEF NumbersInv, n
  <2> QED
    BY <1>2, <1>3, <2>1
<1>5. \A k \in 1..Len(ipc') : ipc'[k].op = "spawn" => k \in 1..n /\ ipc'[k] = ipc[k]
  BY <1>2
<1>6. \A k, l \in 1..Len(ipc') :
        k < l /\ ipc'[k].op = "spawn" /\ ipc'[l].op = "spawn"
          => ipc'[k].session < ipc'[l].session
  BY <1>5 DEF NumbersInv, n
<1>7. \A k \in 1..Len(ipc') : ipc'[k].op = "spawn" => spawned' < ipc'[k].session
  BY <1>1, <1>5 DEF NumbersInv, n
<1> QED
  BY <1>1, <1>4, <1>6, <1>7 DEF NumbersInv

\* A request is taken from the head of the queue; when it is a spawn, it is the
\* one that is due.
LEMMA NumbersTaken ==
  ASSUME BridgeInv, NumbersInv, spawned \in Nat, ipc # <<>>, ipc' = Tail(ipc),
         UNCHANGED uiVars,
         \/ Head(ipc).op # "spawn" /\ UNCHANGED <<spawned, paneOf>>
         \/ /\ Head(ipc).op = "spawn" /\ spawned' = spawned + 1
            /\ paneOf'[spawned + 1] = Target
            /\ \A j \in Incs : j # spawned + 1 => paneOf'[j] = paneOf[j]
  PROVE  NumbersInv'
<1> DEFINE n == Len(ipc)
<1>1. /\ n \in Nat \ {0} /\ Len(ipc') = n - 1
      /\ \A k \in 1..(n - 1) : ipc'[k] = ipc[k + 1]
      /\ Head(ipc) = ipc[1]
  BY RequestTaken DEF BridgeInv, FlowTypeOK
<1>2. \A k \in 1..n : ipc[k].session \in Incs
  BY SessionsTyped DEF BridgeInv, FlowTypeOK
<1>3. /\ \A j, m \in Incs : m < j /\ stage[j] # "none" => stage[m] # "none"
      /\ stage' = stage /\ sessionPane' = sessionPane
  BY DEF BridgeInv, uiVars
<1> DEFINE After == \A k \in 1..n : 1 < k /\ ipc[k].op = "spawn" => spawned' < ipc[k].session
           Due == \A j \in Incs : spawned' < j => ~(ipc[1].op = "spawn" /\ ipc[1].session = j)
           Panes2 == \A j \in Incs : j <= spawned' =>
                       stage[j] # "none" /\ paneOf'[j] = sessionPane[j]
<1> HIDE DEF n
<1>4. After /\ Due /\ Panes2 /\ spawned <= spawned'
  <2>1. CASE Head(ipc).op # "spawn" /\ UNCHANGED <<spawned, paneOf>>
    BY <1>1, <2>1 DEF NumbersInv, n
  <2>2. CASE /\ Head(ipc).op = "spawn" /\ spawned' = spawned + 1
             /\ paneOf'[spawned + 1] = Target
             /\ \A j \in Incs : j # spawned + 1 => paneOf'[j] = paneOf[j]
    <3>1. ipc[1].session = spawned + 1 /\ ipc[1].op = "spawn"
      BY <1>1, <2>2, HeadIsNext
    <3>2. 1 \in 1..n /\ spawned + 1 \in Incs /\ stage[spawned + 1] # "none"
      BY <1>1, <1>2, <3>1 DEF BridgeInv, n
    <3>3. After
      BY <1>1, <2>2, <3>1, <3>2 DEF NumbersInv, n
    <3>4. paneOf'[spawned + 1] = sessionPane[spawned + 1]
      BY <1>1, <2>2, <3>1 DEF Target
    <3>5. Panes2
      BY <2>2, <3>2, <3>4 DEF NumbersInv, Incs
    <3> QED
      BY <2>2, <3>1, <3>3, <3>5 DEF Incs
  <2> QED
    BY <2>1, <2>2
<1>5. \A k \in 1..Len(ipc') : k + 1 \in 1..n /\ 1 < k + 1 /\ ipc'[k] = ipc[k + 1]
  BY <1>1
<1>6. \A k, l \in 1..Len(ipc') :
        k < l /\ ipc'[k].op = "spawn" /\ ipc'[l].op = "spawn"
          => ipc'[k].session < ipc'[l].session
  BY <1>1, <1>5 DEF NumbersInv, n
<1>7. \A k \in 1..Len(ipc') : ipc'[k].op = "spawn" => spawned' < ipc'[k].session
  BY <1>4, <1>5
<1>8. ASSUME NEW j \in Incs, spawned' < j, stage'[j] # "none"
      PROVE  \E k \in 1..Len(ipc') : ipc'[k].op = "spawn" /\ ipc'[k].session = j
  <2>1. spawned < j
    BY <1>4, <1>8 DEF Incs
  <2>2. PICK k \in 1..n : ipc[k].op = "spawn" /\ ipc[k].session = j
    BY <1>3, <1>8, <2>1 DEF NumbersInv, n
  <2>3. k # 1
    BY <1>4, <1>8, <2>2
  <2>4. k - 1 \in 1..Len(ipc') /\ ipc'[k - 1] = ipc[k]
    BY <1>1, <2>2, <2>3
  <2> QED
    BY <2>2, <2>4
<1> QED
  BY <1>3, <1>4, <1>6, <1>7, <1>8 DEF NumbersInv

\* What serving a request does to the numbers.
LEMMA ServeNumbers ==
  ASSUME TypeInv, BridgeInv, NumbersInv, Serve
  PROVE  \/ Head(ipc).op # "spawn" /\ UNCHANGED <<spawned, paneOf>>
         \/ /\ Head(ipc).op = "spawn" /\ spawned' = spawned + 1
            /\ paneOf'[spawned + 1] = Target
            /\ \A j \in Incs : j # spawned + 1 => paneOf'[j] = paneOf[j]
<1>1. CASE ServeSpawn
  <2>1. spawned + 1 \in Incs
    BY <1>1, ConstantsAssumption DEF ServeSpawn, SpawnRegister, TypeInv, TypeOK, Incs
  <2>2. /\ Head(ipc).op = "spawn" /\ spawned' = spawned + 1
        /\ paneOf' = [paneOf EXCEPT ![spawned + 1] = Target]
    BY <1>1 DEF ServeSpawn, Take, SpawnRegister
  <2> QED
    BY <2>1, <2>2 DEF TypeInv, TypeOK
<1>2. CASE ServeKill \/ ServePause \/ ServeResume \/ ServeUnknown
  BY <1>2 DEF ServeKill, ServePause, ServeResume, ServeUnknown, Take, KillTake, SetPause, vars
<1> QED
  BY <1>1, <1>2 DEF Serve

\* Serving a request takes the first one.
LEMMA ServeTakes ==
  ASSUME Serve
  PROVE  ipc # <<>> /\ ipc' = Tail(ipc) /\ cmd.at = "idle" /\ UNCHANGED uiVars
  BY DEF Serve, ServeSpawn, ServeKill, ServePause, ServeResume, ServeUnknown, Take

\* Every step keeps sessions and shells numbered alike.
LEMMA NumbersNext ==
  ASSUME TypeInv, BridgeInv, NumbersInv, [FlowNext]_allVars
  PROVE  NumbersInv'
<1>1. spawned \in Nat
  BY ConstantsAssumption DEF TypeInv, TypeOK
<1>2. CASE Serve
  BY <1>1, <1>2, ServeTakes, ServeNumbers, NumbersTaken
<1>3. CASE Backend \/ UNCHANGED allVars
  <2>1. UNCHANGED <<spawned, paneOf, ipc, uiVars>>
    BY <1>3, BackendFrame DEF allVars, vars
  <2> QED
    BY <2>1 DEF NumbersInv, uiVars
<1> QED
  BY <1>1, <1>2, <1>3, NumbersOpen, NumbersSession DEF FlowNext

-----------------------------------------------------------------------------
(* Every step of the terminals is a step of the pipeline, or leaves it alone. *)

\* Every step with terminals is a step of the pipeline or leaves it alone.
LEMMA FlowStepIsPipelineStep ==
  ASSUME BridgeInv, [FlowNext]_allVars
  PROVE  [Next]_vars
<1>1. CASE Serve
  <2>1. Target \in Panes
    BY <1>1, ServeTakes, HeadSession
  <2> QED
    BY <1>1, <2>1 DEF Serve, ServeSpawn, ServeKill, ServePause, ServeResume, ServeUnknown,
       Next
<1>2. CASE Backend
  BY <1>2 DEF Backend, Next
<1>3. CASE UNCHANGED vars
  BY <1>3
<1> QED
  BY <1>1, <1>2, <1>3 DEF FlowNext, Open, OnOutput, OnEndOfOutput, OnFlushed, Dispose,
     DisposeTerminal, allVars

\* The initial state has nothing open and nothing under way.
LEMMA BridgeInit == FlowInit => BridgeInv /\ NumbersInv /\ HandlesInv
<1> SUFFICES ASSUME FlowInit PROVE BridgeInv /\ NumbersInv /\ HandlesInv
  OBVIOUS
<1>1. ipc = <<>> /\ Len(ipc) = 0 /\ ipc \in Seq(Requests)
  BY DEF FlowInit
<1>2. FlowTypeOK
  BY <1>1 DEF FlowInit, FlowTypeOK
<1>3. BridgeInv
  BY <1>1, <1>2 DEF BridgeInv, FlowInit
<1> QED
  BY <1>1, <1>3, ConstantsAssumption DEF NumbersInv, HandlesInv, FlowInit, Init, Idle, Incs

\* Driven by terminals, whatever requests they send and however they interleave
\* with the threads, the pipeline behaves as PtyPipeline allows: what is proved of
\* it holds of the whole (mod.rs, pty_spawn to pty_resume; xterm-wrapper.ts).
THEOREM FlowRefinesPipeline == FlowSpec => Spec
<1>1. FlowInit => BridgeInv /\ Init
  BY BridgeInit DEF FlowInit
<1>2. BridgeInv /\ [FlowNext]_allVars => BridgeInv'
  BY BridgeNext
<1>3. BridgeInv /\ [FlowNext]_allVars => [Next]_vars
  BY FlowStepIsPipelineStep
<1> QED
  BY <1>1, <1>2, <1>3, PTL DEF FlowSpec, Spec

-----------------------------------------------------------------------------
(* The two flags.                                                            *)

\* How the queue and the flags of session i may change without breaking what it
\* said: nothing about it happens, it says something new, or what it said first
\* takes effect.
LEMMA SaysKept ==
  ASSUME ipc \in Seq(Requests), NEW i \in Incs, Says(i),
         pause'[i] = pause[i], paused'[i] = paused[i],
         \/ ipc' = ipc
         \/ \E r \in Requests :
              ipc' = Append(ipc, r) /\ ~(r.session = i /\ r.op \in {"pause", "resume"})
  PROVE  Says(i)'
<1>1. CASE ipc' = ipc
  BY <1>1 DEF Says, FlagRequest
<1>2. ASSUME NEW r \in Requests, ipc' = Append(ipc, r),
             ~(r.session = i /\ r.op \in {"pause", "resume"})
      PROVE  Says(i)'
  <2>1. /\ Len(ipc) \in Nat /\ Len(ipc') = Len(ipc) + 1
        /\ \A k \in 1..Len(ipc) : ipc'[k] = ipc[k]
        /\ ipc'[Len(ipc) + 1] = r
    BY <1>2, RequestAdded
  <2>2. \A k \in 1..Len(ipc) : k \in 1..Len(ipc') /\ (FlagRequest(ipc', i, k) <=> FlagRequest(ipc, i, k))
    BY <2>1 DEF FlagRequest
  <2>3. \A k \in 1..Len(ipc') : FlagRequest(ipc', i, k) => k \in 1..Len(ipc)
    BY <1>2, <2>1 DEF FlagRequest
  <2> QED
    BY <2>1, <2>2, <2>3 DEF Says
<1> QED
  BY <1>1, <1>2

\* A request that a session adds is its last word.
LEMMA SaysAsked ==
  ASSUME ipc \in Seq(Requests), NEW i \in Incs, NEW op \in {"pause", "resume"},
         ipc' = Append(ipc, Request(op, i)), paused'[i] = (op = "pause")
  PROVE  Says(i)'
<1>1. Request(op, i) \in Requests /\ Request(op, i).op = op /\ Request(op, i).session = i
  BY RequestTyped
<1>2. /\ Len(ipc) \in Nat /\ Len(ipc') = Len(ipc) + 1
      /\ ipc'[Len(ipc) + 1] = Request(op, i)
  BY <1>1, RequestAdded
<1>3. Len(ipc) + 1 \in 1..Len(ipc') /\ FlagRequest(ipc', i, Len(ipc) + 1)
  BY <1>1, <1>2 DEF FlagRequest
<1>4. \A k \in 1..Len(ipc') : k = Len(ipc) + 1 \/ k < Len(ipc) + 1
  BY <1>2
<1> QED
  BY <1>1, <1>2, <1>3, <1>4 DEF Says

\* Serving another request leaves the last word of a session as it is.
LEMMA SaysServed ==
  ASSUME ipc \in Seq(Requests), ipc # <<>>, ipc' = Tail(ipc), NEW i \in Incs, Says(i),
         paused[i] \in BOOLEAN, paused'[i] = paused[i],
         \/ pause'[i] = pause[i] /\ ~FlagRequest(ipc, i, 1)
         \/ pause'[i] = (ipc[1].op = "pause") /\ FlagRequest(ipc, i, 1)
  PROVE  Says(i)'
<1> DEFINE n == Len(ipc)
<1>1. /\ n \in Nat \ {0} /\ Len(ipc') = n - 1
      /\ \A k \in 1..(n - 1) : ipc'[k] = ipc[k + 1]
  BY RequestTaken
<1> HIDE DEF n
<1>2. \A k \in 1..Len(ipc') : k + 1 \in 1..n /\ ipc'[k] = ipc[k + 1]
                               /\ (FlagRequest(ipc', i, k) <=> FlagRequest(ipc, i, k + 1))
  BY <1>1 DEF FlagRequest
<1>3. \A k \in 1..n : k = 1 \/ (k - 1 \in 1..Len(ipc') /\ (k - 1) + 1 = k)
  BY <1>1
<1>4. 1 \in 1..n
  BY <1>1
<1>5. ASSUME \A k \in 1..Len(ipc') : ~FlagRequest(ipc', i, k)
      PROVE  pause'[i] = paused'[i]
  <2>1. \A k \in 1..n : k = 1 \/ ~FlagRequest(ipc, i, k)
    BY <1>2, <1>3, <1>5
  <2>2. CASE FlagRequest(ipc, i, 1)
    <3>1. ipc[1].op = "pause" <=> paused[i]
      BY <1>4, <2>1, <2>2 DEF Says, n
    <3> QED
      BY <2>2, <3>1
  <2>3. CASE ~FlagRequest(ipc, i, 1)
    <3>1. pause[i] = paused[i]
      BY <2>1, <2>3 DEF Says, n
    <3> QED
      BY <2>3, <3>1
  <2> QED
    BY <2>2, <2>3
<1>6. ASSUME NEW k \in 1..Len(ipc'), FlagRequest(ipc', i, k),
             \A l \in 1..Len(ipc') : k < l => ~FlagRequest(ipc', i, l)
      PROVE  ipc'[k].op = "pause" <=> paused'[i]
  <2>1. k + 1 \in 1..n /\ FlagRequest(ipc, i, k + 1) /\ ipc'[k] = ipc[k + 1]
    BY <1>2, <1>6
  <2>2. ASSUME NEW l \in 1..n, k + 1 < l
        PROVE  ~FlagRequest(ipc, i, l)
    <3>1. l - 1 \in 1..Len(ipc') /\ k < l - 1 /\ (l - 1) + 1 = l
      BY <1>1, <2>2
    <3> QED
      BY <1>2, <1>6, <3>1
  <2> QED
    BY <2>1, <2>2 DEF Says, n
<1> QED
  BY <1>5, <1>6 DEF Says

\* A sink that has received something, and a terminal with something to render,
\* are of a shell that was spawned.
LEMMA ActiveIsSpawned ==
  ASSUME TypeInv, ContentInv, BridgeInv, QuietInv, NEW i \in Incs,
         HasMessage(i) \/ outstanding[i] > 0
  PROVE  i <= spawned
<1>1. CASE HasMessage(i)
  <2>1. sent[i] # <<>>
    BY <1>1 DEF HasMessage, BridgeInv, FlowTypeOK
  <2> QED
    BY <2>1, ConstantsAssumption DEF ContentInv, TypeInv, TypeOK, Incs
<1>2. CASE outstanding[i] > 0
  BY <1>2, ConstantsAssumption DEF QuietInv, TypeInv, TypeOK, Incs
<1> QED
  BY <1>1, <1>2

\* What a session does to its flag, it does by a request.
LEMMA SessionSays ==
  ASSUME TypeInv, ContentInv, BridgeInv, QuietInv, NEW i \in Incs,
         OnOutput(i) \/ OnEndOfOutput(i) \/ OnFlushed(i) \/ Dispose(i) \/ DisposeTerminal(i)
  PROVE  /\ \/ paused'[i] = paused[i] /\ outstanding'[i] = outstanding[i]
               /\ (ipc' = ipc \/ ipc' = Append(ipc, Request("kill", i)))
            \/ i <= spawned /\ paused'[i] = paused[i] /\ ipc' = ipc
            \/ i <= spawned /\ \E op \in {"pause", "resume"} :
                 ipc' = Append(ipc, Request(op, i)) /\ paused'[i] = (op = "pause")
         /\ \A j \in Incs \ {i} : paused'[j] = paused[j] /\ outstanding'[j] = outstanding[j]
         /\ UNCHANGED <<vars, sessionPane>>
<1> USE DEF BridgeInv, FlowTypeOK
<1>1. CASE OnOutput(i)
  <2>1. i <= spawned
    BY <1>1, ActiveIsSpawned DEF OnOutput
  <2>2. CASE ~paused[i] /\ outstanding[i] + 1 >= High
    BY <1>1, <2>1, <2>2 DEF OnOutput
  <2>3. CASE ~(~paused[i] /\ outstanding[i] + 1 >= High)
    BY <1>1, <2>1, <2>3 DEF OnOutput
  <2> QED
    BY <2>2, <2>3
<1>2. CASE OnFlushed(i)
  <2>1. i <= spawned
    BY <1>2, ActiveIsSpawned DEF OnFlushed
  <2>2. CASE paused[i] /\ outstanding[i] - 1 <= Low
    BY <1>2, <2>1, <2>2 DEF OnFlushed
  <2>3. CASE ~(paused[i] /\ outstanding[i] - 1 <= Low)
    BY <1>2, <2>1, <2>3 DEF OnFlushed
  <2> QED
    BY <2>2, <2>3
<1>3. CASE OnEndOfOutput(i) \/ Dispose(i) \/ DisposeTerminal(i)
  BY <1>3 DEF OnEndOfOutput, Dispose, DisposeTerminal
<1> QED
  BY <1>1, <1>2, <1>3

\* A disposed session asks for nothing but its end.
LEMMA QuietSession ==
  ASSUME TypeInv, ContentInv, BridgeInv, QuietInv, NEW i \in Incs,
         OnOutput(i) \/ OnEndOfOutput(i) \/ OnFlushed(i) \/ Dispose(i) \/ DisposeTerminal(i)
  PROVE  QuietInv'
<1> SUFFICES ASSUME NEW j \in Incs, spawned' < j
             PROVE  /\ ~pause'[j] /\ ~paused'[j] /\ outstanding'[j] = 0
                    /\ \A k \in 1..Len(ipc') :
                         ipc'[k].session = j => ipc'[k].op \notin {"pause", "resume"}
  BY DEF QuietInv
<1>1. UNCHANGED <<spawned, pause>> /\ spawned \in Nat
  BY SessionSays, ConstantsAssumption DEF vars, TypeInv, TypeOK
<1>2. /\ ~pause[j] /\ ~paused[j] /\ outstanding[j] = 0
      /\ \A k \in 1..Len(ipc) : ipc[k].session = j => ipc[k].op \notin {"pause", "resume"}
  BY <1>1 DEF QuietInv
<1>3. ipc' = ipc \/ \E r \in Requests :
        ipc' = Append(ipc, r) /\ (r.session = j => r.op \notin {"pause", "resume"})
  <2>1. \A op \in {"pause", "resume", "kill"} :
          Request(op, i) \in Requests /\ Request(op, i).session = i /\ Request(op, i).op = op
    BY RequestTyped
  <2>2. i <= spawned => i # j
    BY <1>1 DEF Incs
  <2> QED
    BY <2>1, <2>2, SessionSays
<1>4. \A k \in 1..Len(ipc') : ipc'[k].session = j => ipc'[k].op \notin {"pause", "resume"}
  <2>1. CASE ipc' = ipc
    BY <1>2, <2>1
  <2>2. ASSUME NEW r \in Requests, ipc' = Append(ipc, r),
               r.session = j => r.op \notin {"pause", "resume"}
        PROVE  \A k \in 1..Len(ipc') : ipc'[k].session = j => ipc'[k].op \notin {"pause", "resume"}
    <3>1. /\ Len(ipc) \in Nat /\ Len(ipc') = Len(ipc) + 1
          /\ \A k \in 1..Len(ipc) : ipc'[k] = ipc[k]
          /\ ipc'[Len(ipc) + 1] = r
      BY <2>2, RequestAdded DEF BridgeInv, FlowTypeOK
    <3>2. \A k \in 1..Len(ipc') : k \in 1..Len(ipc) \/ k = Len(ipc) + 1
      BY <3>1
    <3> QED
      BY <1>2, <2>2, <3>1, <3>2
  <2> QED
    BY <1>3, <2>1, <2>2
<1>5. paused'[j] = paused[j] /\ outstanding'[j] = outstanding[j]
  <2>1. CASE i <= spawned
    <3>1. j # i
      BY <1>1, <2>1 DEF Incs
    <3> QED
      BY <3>1, SessionSays
  <2>2. CASE ~(i <= spawned)
    BY <2>2, SessionSays
  <2> QED
    BY <2>1, <2>2
<1> QED
  BY <1>1, <1>2, <1>4, <1>5

\* Opening a session disturbs no session that is disposed.
LEMMA QuietOpen ==
  ASSUME BridgeInv, QuietInv, NEW i \in Incs, NEW p \in Panes, Open(i, p)
  PROVE  QuietInv'
<1>1. /\ Request("spawn", i) \in Requests /\ Request("spawn", i).op = "spawn"
      /\ ipc' = Append(ipc, Request("spawn", i))
      /\ UNCHANGED <<spawned, pause, paused, outstanding>>
  BY RequestTyped DEF Open, vars
<1>2. /\ Len(ipc) \in Nat /\ Len(ipc') = Len(ipc) + 1
      /\ \A k \in 1..Len(ipc) : ipc'[k] = ipc[k]
      /\ ipc'[Len(ipc) + 1].op = "spawn"
  BY <1>1, RequestAdded DEF BridgeInv, FlowTypeOK
<1>3. \A k \in 1..Len(ipc') : ipc'[k].op # "spawn" => k \in 1..Len(ipc) /\ ipc'[k] = ipc[k]
  BY <1>2
<1> QED
  BY <1>1, <1>3 DEF QuietInv

\* Serving a request adds none.
LEMMA QuietServe ==
  ASSUME TypeInv, BridgeInv, NumbersInv, HandlesInv, QuietInv, Serve
  PROVE  QuietInv'
<1> SUFFICES ASSUME NEW j \in Incs, spawned' < j
             PROVE  /\ ~pause'[j] /\ ~paused'[j] /\ outstanding'[j] = 0
                    /\ \A k \in 1..Len(ipc') :
                         ipc'[k].session = j => ipc'[k].op \notin {"pause", "resume"}
  BY DEF QuietInv
<1>1. spawned \in Nat /\ spawned < j
  <2>1. spawned \in Nat /\ j \in Int
    BY ConstantsAssumption DEF TypeInv, TypeOK, Incs
  <2>2. spawned' = spawned \/ spawned' = spawned + 1
    BY ServeNumbers
  <2> QED
    BY <2>1, <2>2
<1>2. /\ ~pause[j] /\ ~paused[j] /\ outstanding[j] = 0
      /\ \A k \in 1..Len(ipc) : ipc[k].session = j => ipc[k].op \notin {"pause", "resume"}
  BY <1>1 DEF QuietInv
<1>3. /\ Len(ipc) \in Nat \ {0} /\ Len(ipc') = Len(ipc) - 1
      /\ \A k \in 1..(Len(ipc) - 1) : ipc'[k] = ipc[k + 1]
      /\ UNCHANGED uiVars
  BY RequestTaken, ServeTakes DEF BridgeInv, FlowTypeOK
<1>4. \A k \in 1..Len(ipc') : k + 1 \in 1..Len(ipc) /\ ipc'[k] = ipc[k + 1]
  BY <1>3
<1>5. pause'[j] = pause[j]
  <2>1. ASSUME NEW v \in BOOLEAN, SetPause(Target, v) PROVE pause'[j] = pause[j]
    <3>1. Target \in Panes /\ handle[Target] \in 0..MaxSpawns /\ handle[Target] # 0
      BY <2>1, HeadSession, ServeTakes DEF SetPause, TypeInv, TypeOK
    <3>2. handle[Target] <= spawned
      BY <3>1 DEF HandlesInv
    <3>3. handle[Target] # j
      BY <1>1, <3>1, <3>2, ConstantsAssumption DEF Incs
    <3> QED
      BY <2>1, <3>3 DEF SetPause, TypeInv, TypeOK
  <2>2. CASE pause' = pause
    BY <2>2
  <2> QED
    BY <2>1, <2>2 DEF Serve, ServeSpawn, ServeKill, ServePause, ServeResume, ServeUnknown,
       SpawnRegister, KillTake, vars
<1> QED
  BY <1>2, <1>3, <1>4, <1>5 DEF uiVars

\* Every step keeps a disposed session quiet.
LEMMA QuietNext ==
  ASSUME TypeInv, ContentInv, BridgeInv, NumbersInv, HandlesInv, QuietInv,
         [FlowNext]_allVars
  PROVE  QuietInv'
<1>1. CASE Backend \/ UNCHANGED allVars
  <2>1. UNCHANGED <<spawned, pause, ipc, uiVars>>
    BY <1>1, BackendFrame DEF allVars, vars
  <2> QED
    BY <2>1 DEF QuietInv, uiVars
<1> QED
  BY <1>1, QuietOpen, QuietSession, QuietServe DEF FlowNext

-----------------------------------------------------------------------------

\* Opening a session leaves the others' word alone.
LEMMA FlagOpen ==
  ASSUME TypeInv, BridgeInv, NumbersInv, FlagInv, NEW i \in Incs, NEW p \in Panes, Open(i, p)
  PROVE  FlagInv'
<1> SUFFICES ASSUME NEW j \in Incs, j <= spawned', OwnPane(j)', Held(j)'
             PROVE  Says(j)'
  BY DEF FlagInv
<1>1. /\ stage[i] = "none" /\ sessionPane[i] = NoPane
      /\ \A m \in Incs \ {i} : sessionPane'[m] = sessionPane[m]
      /\ UNCHANGED <<spawned, cmd, handle, pause, paused>>
      /\ ipc' = Append(ipc, Request("spawn", i))
  BY DEF Open, BridgeInv, FlowTypeOK, vars
<1>2. j <= spawned /\ stage[j] # "none" /\ j # i
  BY <1>1 DEF NumbersInv
<1>3. sessionPane[j] # NoPane /\ sessionPane'[j] = sessionPane[j]
  BY <1>1, <1>2 DEF BridgeInv
<1>4. OwnPane(j) /\ Held(j)
  BY <1>1, <1>3 DEF OwnPane, Held
<1>5. Says(j)
  BY <1>2, <1>4 DEF FlagInv
<1>6. Request("spawn", i) \in Requests /\ Request("spawn", i).op = "spawn"
  BY RequestTyped
<1> QED
  BY <1>1, <1>5, <1>6, SaysKept DEF BridgeInv, FlowTypeOK

\* A session that pauses or resumes says so in its last request.
LEMMA FlagSession ==
  ASSUME TypeInv, ContentInv, BridgeInv, QuietInv, FlagInv, NEW i \in Incs,
         OnOutput(i) \/ OnEndOfOutput(i) \/ OnFlushed(i) \/ Dispose(i) \/ DisposeTerminal(i)
  PROVE  FlagInv'
<1> SUFFICES ASSUME NEW j \in Incs, j <= spawned', OwnPane(j)', Held(j)'
             PROVE  Says(j)'
  BY DEF FlagInv
<1>1. UNCHANGED <<spawned, cmd, handle, pause, sessionPane>> /\ ipc \in Seq(Requests)
  BY SessionSays DEF vars, BridgeInv, FlowTypeOK
<1>2. Says(j)
  BY <1>1 DEF FlagInv, OwnPane, Held
<1>3. \A op \in {"pause", "resume", "kill"} :
        Request(op, i) \in Requests /\ Request(op, i).session = i /\ Request(op, i).op = op
  BY RequestTyped
<1>4. CASE j = i
  <2>1. CASE \E op \in {"pause", "resume"} :
               ipc' = Append(ipc, Request(op, i)) /\ paused'[i] = (op = "pause")
    BY <1>1, <1>4, <2>1, SaysAsked
  <2>2. CASE paused'[i] = paused[i] /\ (ipc' = ipc \/ ipc' = Append(ipc, Request("kill", i)))
    BY <1>1, <1>2, <1>3, <1>4, <2>2, SaysKept
  <2> QED
    BY <2>1, <2>2, SessionSays
<1>5. CASE j # i
  <2>1. ipc' = ipc \/ \E r \in Requests : ipc' = Append(ipc, r) /\ r.session # j
    BY <1>3, <1>5, SessionSays
  <2>2. paused'[j] = paused[j]
    BY <1>5, SessionSays
  <2> QED
    BY <1>1, <1>2, <2>1, <2>2, SaysKept
<1> QED
  BY <1>4, <1>5

\* A spawn starts with the two flags clear and nothing said.
LEMMA FlagServeSpawn ==
  ASSUME TypeInv, BridgeInv, NumbersInv, QuietInv, FlagInv, ServeSpawn
  PROVE  FlagInv'
<1> SUFFICES ASSUME NEW j \in Incs, j <= spawned', OwnPane(j)', Held(j)'
             PROVE  Says(j)'
  BY DEF FlagInv
<1>1. /\ ipc # <<>> /\ ipc' = Tail(ipc) /\ cmd.at = "idle" /\ UNCHANGED uiVars
      /\ Head(ipc).op = "spawn" /\ spawned' = spawned + 1
      /\ cmd'.inc = spawned + 1 /\ UNCHANGED <<pause, handle>>
  BY DEF ServeSpawn, Take, SpawnRegister
<1>2. spawned \in Nat
  BY ConstantsAssumption DEF TypeInv, TypeOK
<1>3. ~FlagRequest(ipc, j, 1) /\ ipc \in Seq(Requests) /\ paused[j] \in BOOLEAN
  BY <1>1, HeadSession DEF FlagRequest, BridgeInv, FlowTypeOK
<1>4. Says(j)
  <2>1. CASE j <= spawned
    <3>1. j # spawned + 1
      BY <1>2, <2>1
    <3>2. OwnPane(j) /\ Held(j)
      BY <1>1, <3>1 DEF OwnPane, Held, uiVars
    <3> QED
      BY <2>1, <3>2 DEF FlagInv
  <2>2. CASE spawned < j
    BY <2>2, <1>3 DEF QuietInv, Says, FlagRequest, TypeInv, TypeOK
  <2> QED
    BY <1>2, <2>1, <2>2 DEF Incs
<1> QED
  BY <1>1, <1>3, <1>4, SaysServed DEF uiVars

\* A request of a session that has its pane to itself reaches its own flag, and
\* no other request does.
LEMMA FlagServeFlag ==
  ASSUME TypeInv, BridgeInv, NumbersInv, HandlesInv, FlagInv,
         NEW value \in BOOLEAN, SetPause(Target, value),
         ipc # <<>>, ipc' = Tail(ipc), UNCHANGED uiVars,
         Head(ipc).op = IF value THEN "pause" ELSE "resume"
  PROVE  FlagInv'
<1> SUFFICES ASSUME NEW j \in Incs, j <= spawned', OwnPane(j)', Held(j)'
             PROVE  Says(j)'
  BY DEF FlagInv
<1> DEFINE h == Head(ipc).session
           m == handle[Target]
<1>1. /\ Head(ipc) = ipc[1] /\ h \in Incs /\ Target \in Panes /\ Target = sessionPane[h]
  BY HeadSession DEF Target
<1>2. /\ m # 0 /\ cmd.at = "idle" /\ pause' = [pause EXCEPT ![m] = value]
      /\ UNCHANGED <<spawned, cmd, handle>>
  BY DEF SetPause
<1>3. m \in Incs /\ m <= spawned /\ paneOf[m] = Target
  BY <1>1, <1>2, ConstantsAssumption DEF HandlesInv, TypeInv, TypeOK, Incs
<1>4. sessionPane[m] = Target
  BY <1>3 DEF NumbersInv
<1>5. Says(j) /\ OwnPane(j) /\ handle[sessionPane[j]] = j
  BY <1>2 DEF FlagInv, OwnPane, Held, uiVars
<1>6. ipc \in Seq(Requests) /\ paused[j] \in BOOLEAN /\ paused'[j] = paused[j]
  BY DEF BridgeInv, FlowTypeOK, uiVars
<1> HIDE DEF m, h
<1>7. CASE j = h
  <2>1. m = j
    BY <1>1, <1>5, <1>7 DEF m
  <2>2. pause'[j] = (ipc[1].op = "pause") /\ FlagRequest(ipc, j, 1)
    BY <1>1, <1>2, <1>7, <2>1 DEF FlagRequest, TypeInv, TypeOK, h
  <2> QED
    BY <1>5, <1>6, <2>2, SaysServed
<1>8. CASE j # h
  <2>1. sessionPane[h] # sessionPane[j]
    BY <1>1, <1>5, <1>8 DEF OwnPane
  <2>2. m # j
    BY <1>1, <1>4, <2>1
  <2>3. pause'[j] = pause[j] /\ ~FlagRequest(ipc, j, 1)
    BY <1>1, <1>2, <1>8, <2>2 DEF FlagRequest, TypeInv, TypeOK, h
  <2> QED
    BY <1>5, <1>6, <2>3, SaysServed
<1> QED
  BY <1>7, <1>8

\* A kill and a request that finds no entry change no flag, and the latter is not
\* of a session that owns its entry.
LEMMA FlagServeOther ==
  ASSUME TypeInv, BridgeInv, FlagInv, ServeKill \/ ServeUnknown
  PROVE  FlagInv'
<1> SUFFICES ASSUME NEW j \in Incs, j <= spawned', OwnPane(j)', Held(j)'
             PROVE  Says(j)'
  BY DEF FlagInv
<1>1. /\ ipc # <<>> /\ ipc' = Tail(ipc) /\ cmd.at = "idle" /\ UNCHANGED uiVars
      /\ UNCHANGED <<pause, spawned>>
  BY DEF ServeKill, ServeUnknown, Take, KillTake, vars
<1>2. ipc \in Seq(Requests) /\ paused[j] \in BOOLEAN /\ paused'[j] = paused[j]
  BY <1>1 DEF BridgeInv, FlowTypeOK, uiVars
<1>3. j # 0
  BY DEF Incs
<1>4. handle[sessionPane[j]] = j /\ ~FlagRequest(ipc, j, 1)
  <2>1. CASE ServeKill
    <3>1. /\ Head(ipc).op = "kill" /\ cmd'.at = "unhook"
          /\ handle' = [handle EXCEPT ![Target] = 0]
      BY <2>1 DEF ServeKill, Take, KillTake
    <3>2. handle'[sessionPane[j]] = j
      BY <1>1, <3>1 DEF Held, uiVars
    <3>3. handle[sessionPane[j]] = j
      BY <1>3, <3>1, <3>2 DEF TypeInv, TypeOK
    <3> QED
      BY <1>1, <3>1, <3>3, HeadSession DEF FlagRequest
  <2>2. CASE ServeUnknown
    <3>1. handle[Target] = 0 /\ UNCHANGED <<handle, cmd>>
      BY <2>2 DEF ServeUnknown, vars
    <3>2. handle[sessionPane[j]] = j
      BY <1>1, <3>1 DEF Held, uiVars
    <3> QED
      BY <1>1, <1>3, <3>1, <3>2, HeadSession DEF FlagRequest, Target
  <2> QED
    BY <2>1, <2>2
<1>5. Says(j)
  BY <1>1, <1>4 DEF FlagInv, OwnPane, Held, uiVars
<1> QED
  BY <1>1, <1>2, <1>4, <1>5, SaysServed

\* The backend's own steps move an incarnation towards its entry, or take it away.
LEMMA FlagBackend ==
  ASSUME TypeInv, NumbersInv, HandlesInv, FlagInv, Backend
  PROVE  FlagInv'
<1> SUFFICES ASSUME NEW j \in Incs, j <= spawned', OwnPane(j)', Held(j)'
             PROVE  Says(j)'
  BY DEF FlagInv
<1>1. UNCHANGED <<spawned, paneOf, pause, ipc, uiVars>>
      /\ (CommandStep \/ UNCHANGED <<cmd, handle>>)
  BY BackendFrame
<1>2. Held(j)
  <2>1. CASE SpawnInsert
    <3>1. /\ cmd.at = "insert" /\ cmd'.at = "idle" /\ cmd.pane \in Panes
          /\ handle' = [handle EXCEPT ![cmd.pane] = cmd.inc]
      BY <2>1, IdleType DEF SpawnInsert, TypeInv, TypeOK
    <3> QED
      BY <1>1, <3>1 DEF Held, TypeInv, TypeOK, uiVars
  <2>2. CASE SpawnAdmit
    BY <1>1, <2>2 DEF SpawnAdmit, Held, uiVars, TypeInv, TypeOK
  <2>3. CASE SpawnReject \/ SpawnUnregister \/ KillUnhook \/ KillChild
    <3>1. cmd'.at \notin {"admit", "insert"} /\ handle' = handle
      BY <2>3, IdleType DEF SpawnReject, SpawnUnregister, KillUnhook, KillChild, TypeInv, TypeOK
    <3> QED
      BY <1>1, <3>1 DEF Held, uiVars
  <2>4. CASE UNCHANGED <<cmd, handle>>
    BY <1>1, <2>4 DEF Held, uiVars
  <2> QED
    BY <1>1, <2>1, <2>2, <2>3, <2>4 DEF CommandStep
<1> QED
  BY <1>1, <1>2 DEF FlagInv, OwnPane, Says, FlagRequest, uiVars

\* Every step keeps what a session wants and what its shell will hear equal.
LEMMA FlagNext ==
  ASSUME TypeInv, ContentInv, BridgeInv, NumbersInv, HandlesInv, QuietInv, FlagInv,
         [FlowNext]_allVars
  PROVE  FlagInv'
<1>1. CASE ServePause
  BY <1>1, FlagServeFlag, Zenon DEF ServePause, Take
<1>2. CASE ServeResume
  BY <1>2, FlagServeFlag, Zenon DEF ServeResume, Take
<1>3. CASE UNCHANGED allVars
  BY <1>3 DEF allVars, vars, uiVars, FlagInv, OwnPane, Held, Says, FlagRequest
<1> QED
  BY <1>1, <1>2, <1>3, FlagOpen, FlagSession, FlagServeSpawn, FlagServeOther, FlagBackend
  DEF FlowNext, Serve

\* With no request on its way, the word is the flag itself.
LEMMA WordIsFlag ==
  ASSUME TypeInv, BridgeInv, NumbersInv, HandlesInv, FlagInv
  PROVE  BackpressureSound
<1>1. ASSUME NEW i \in Incs, NEW p \in Panes,
             handle[p] = i, OwnPane(i), ~Pending(i, {"pause", "resume"})
      PROVE  pause[i] = paused[i]
  <2>1. i <= spawned /\ paneOf[i] = p
    BY <1>1 DEF HandlesInv, Incs
  <2>2. sessionPane[i] = p
    BY <2>1 DEF NumbersInv
  <2>3. Says(i)
    BY <1>1, <2>1, <2>2 DEF FlagInv, Held
  <2>4. \A k \in 1..Len(ipc) : ~FlagRequest(ipc, i, k)
    BY <1>1, LenProperties DEF Pending, FlagRequest, BridgeInv, FlowTypeOK
  <2> QED
    BY <2>3, <2>4 DEF Says
<1> QED
  BY <1>1 DEF BackpressureSound, PauseAgrees, BridgeInv

\* A pane with a session of its own is never left reading when its terminal is
\* flooded, nor parked when the terminal has drained: the frontend's idea of
\* "paused" and the reader's flag agree whenever no request is on its way, for any
\* water marks, panes and sessions (backpressure.ts onWritten, onFlushed;
\* mod.rs pty_pause, pty_resume).
THEOREM BackpressureAlwaysSound == FlowSpec => []BackpressureSound
<1> DEFINE FlowInv == /\ BridgeInv /\ NumbersInv /\ HandlesInv /\ QuietInv /\ FlagInv
<1>1. FlowInit => FlowInv
  <2>1. ASSUME FlowInit PROVE QuietInv /\ FlagInv
    <3>1. Len(ipc) = 0
      BY <2>1 DEF FlowInit
    <3> QED
      BY <2>1, <3>1 DEF FlowInit, Init, QuietInv, FlagInv, Incs
  <2> QED
    BY <2>1, BridgeInit
<1>2. TypeInv /\ ContentInv /\ FlowInv /\ [FlowNext]_allVars => FlowInv'
  BY BridgeNext, NumbersNext, QuietNext, FlagNext, HandlesNext, FlowStepIsPipelineStep
<1>3. FlowSpec => [](TypeInv /\ ContentInv)
  BY FlowRefinesPipeline, ContentInvariant, PTL
<1>4. TypeInv /\ FlowInv => BackpressureSound
  BY WordIsFlag
<1> QED
  BY <1>1, <1>2, <1>3, <1>4, PTL DEF FlowSpec

-----------------------------------------------------------------------------
(* What the user is told.                                                    *)

\* What holds of the pipeline alone holds of it under the terminals: its threads
\* and slots agree, its sinks are told the truth, and nothing comes after the end
\* marker (reader.rs, coalescer.rs, under xterm-wrapper.ts).
THEOREM TerminalsKeepThePipeline ==
  FlowSpec => [](SlotAccounting /\ NothingAfterEof /\ OutputFaithful)
  BY FlowRefinesPipeline, SlotsAccounted, EofIsLast, OutputAlwaysFaithful, PTL

\* A sequence with another behind it keeps its length or gets longer, and keeps
\* its elements.
LEMMA ConcatKeeps ==
  ASSUME NEW S, NEW s \in Seq(S), NEW t \in Seq(S)
  PROVE  /\ Len(s) \in Nat /\ Len(s \o t) \in Nat /\ Len(s) <= Len(s \o t)
         /\ \A a \in 1..Len(s) : (s \o t)[a] = s[a]
<1>1. Len(s) \in Nat /\ Len(t) \in Nat
  BY LenProperties
<1>2. Len(s \o t) = Len(s) + Len(t)
  BY ConcatProperties
<1>3. \A a \in 1..Len(s) : (s \o t)[a] = s[a]
  BY ConcatProperties
<1> QED
  BY <1>1, <1>2, <1>3

\* A sink never loses a message it has received.
LEMMA SentGrows ==
  ASSUME TypeInv, [Next]_vars, NEW i \in Incs
  PROVE  /\ Len(sent[i]) \in Nat /\ Len(sent'[i]) \in Nat /\ Len(sent[i]) <= Len(sent'[i])
         /\ \A a \in 1..Len(sent[i]) : sent'[i][a] = sent[i][a]
<1>1. sent[i] \in Seq(Chunk \cup {Eof})
  BY DEF TypeInv, TypeOK
<1>2. CASE FlushTick /\ \E p \in Panes : hub[p].sink = i
  <2> DEFINE q == CHOOSE p \in Panes : hub[p].sink = i
  <2>1. q \in Panes
    BY <1>2
  <2> HIDE DEF q
  <2>2. Messages(hub[q]) \in Seq(Chunk \cup {Eof})
    BY <2>1, FlushedType DEF TypeInv, TypeOK
  <2>3. sent'[i] = sent[i] \o Messages(hub[q])
    BY <1>2 DEF FlushTick, q
  <2> DEFINE s == sent[i]
             m == Messages(hub[q])
  <2>4. s \in Seq(Chunk \cup {Eof}) /\ m \in Seq(Chunk \cup {Eof}) /\ sent'[i] = s \o m
    BY <1>1, <2>2, <2>3
  <2> HIDE DEF m
  <2>5. /\ Len(s) \in Nat /\ Len(s \o m) \in Nat /\ Len(s) <= Len(s \o m)
        /\ \A a \in 1..Len(s) : (s \o m)[a] = s[a]
    <3> HIDE DEF s
    <3> QED
      BY <2>4, ConcatKeeps
  <2> QED
    BY <2>4, <2>5
<1>3. CASE ~(FlushTick /\ \E p \in Panes : hub[p].sink = i)
  <2>1. sent'[i] = sent[i]
    BY <1>3 DEF Next, CommandStep, SpawnRegister, SpawnAdmit, SpawnReject, SpawnUnregister,
       SpawnInsert, KillTake, KillUnhook, KillChild, SetPause, FlushTick, WindowElapses,
       ShellWrite, ShellExit, ReaderRead, ReaderInterrupted, ReaderStep, ReaderReadChunk,
       ReaderReadEof, ReaderCheck, ReaderOnData, ReaderOnEof, ReaderRelease, vars
  <2> QED
    BY <1>1, <2>1, LenProperties
<1> QED
  BY <1>2, <1>3

\* A session handles only messages its sink was sent, and a closed one has handled
\* an end marker last.
SeenInv ==
  \A i \in Incs :
    /\ seen[i] <= Len(sent[i])
    /\ closed[i] => 0 < seen[i] /\ sent[i][seen[i]] = Eof

\* A terminal is told that its shell closed only after the shell did.
LEMMA SeenNext ==
  ASSUME TypeInv, NothingAfterEof, BridgeInv, SeenInv, [FlowNext]_allVars
  PROVE  SeenInv'
<1> SUFFICES ASSUME NEW i \in Incs
             PROVE  /\ seen'[i] <= Len(sent'[i])
                    /\ closed'[i] => 0 < seen'[i] /\ sent'[i][seen'[i]] = Eof
  BY DEF SeenInv
<1>1. seen[i] \in Nat /\ sent[i] \in Seq(Chunk \cup {Eof}) /\ Len(sent[i]) \in Nat
  BY LenProperties DEF BridgeInv, FlowTypeOK, TypeInv, TypeOK
<1>2. CASE seen'[i] = seen[i] /\ closed'[i] = closed[i]
  <2>1. /\ Len(sent'[i]) \in Nat /\ Len(sent[i]) <= Len(sent'[i])
        /\ \A a \in 1..Len(sent[i]) : sent'[i][a] = sent[i][a]
    BY SentGrows, FlowStepIsPipelineStep
  <2> QED
    BY <1>1, <1>2, <2>1 DEF SeenInv
<1>3. CASE OnOutput(i)
  <2>1. /\ seen'[i] = seen[i] + 1 /\ seen[i] < Len(sent[i]) /\ closed'[i] = closed[i]
        /\ UNCHANGED sent
    BY <1>3 DEF OnOutput, HasMessage, BridgeInv, FlowTypeOK, vars
  <2>2. ~closed[i]
    <3>1. closed[i] => seen[i] \in DOMAIN sent[i] /\ sent[i][seen[i]] = Eof
      BY <1>1, LenProperties DEF SeenInv
    <3> QED
      BY <1>1, <2>1, <3>1 DEF NothingAfterEof
  <2> QED
    BY <1>1, <2>1, <2>2
<1>4. CASE OnEndOfOutput(i)
  <2>1. /\ seen'[i] = seen[i] + 1 /\ seen[i] < Len(sent[i])
        /\ sent[i][seen[i] + 1] = Eof /\ UNCHANGED sent
    BY <1>4 DEF OnEndOfOutput, HasMessage, Message, BridgeInv, FlowTypeOK, vars
  <2> QED
    BY <1>1, <2>1
<1>5. \/ seen'[i] = seen[i] /\ closed'[i] = closed[i]
      \/ OnOutput(i) \/ OnEndOfOutput(i)
  <2>1. ASSUME NEW j \in Incs \ {i}, OnOutput(j) \/ OnEndOfOutput(j)
        PROVE  seen'[i] = seen[i] /\ closed'[i] = closed[i]
    BY <2>1 DEF OnOutput, OnEndOfOutput, BridgeInv, FlowTypeOK
  <2>2. CASE Serve
    BY <2>2, ServeTakes DEF uiVars
  <2>3. CASE Backend
    BY <2>3 DEF Backend, uiVars
  <2> QED
    BY <2>1, <2>2, <2>3 DEF FlowNext, Open, OnFlushed, Dispose, DisposeTerminal, allVars, uiVars
<1> QED
  BY <1>2, <1>3, <1>4, <1>5

\* A terminal that says its shell has ended has shown everything the shell wrote,
\* if its pane id had no other live reader.
ClosedIsTrue ==
  \A i \in Incs \ overlap : closed[i] =>
    shell[i] = "exited" /\ sent[i] = Append(AllOf(i), Eof) /\ seen[i] = written[i] + 1

\* Nothing is lost between the last write of a shell and the moment the user reads
\* that it has ended: not in the reader, the hub's window, the flusher or the
\* channel (reader.rs on_eof, coalescer.rs flush_due, xterm-wrapper.ts handleOutput).
THEOREM ClosedIsAlwaysTrue == FlowSpec => []ClosedIsTrue
<1>1. FlowInit => BridgeInv /\ SeenInv
  <2>1. ASSUME FlowInit PROVE SeenInv
    BY <2>1 DEF FlowInit, Init, SeenInv
  <2> QED
    BY <2>1, BridgeInit
<1>2. TypeInv /\ NothingAfterEof /\ BridgeInv /\ SeenInv /\ [FlowNext]_allVars
        => BridgeInv' /\ SeenInv'
  BY BridgeNext, SeenNext
<1>3. FlowSpec => [](TypeInv /\ NothingAfterEof /\ OutputFaithful)
  BY FlowRefinesPipeline, TypeInvariant, EofIsLast, OutputAlwaysFaithful, PTL
<1>4. TypeInv /\ NothingAfterEof /\ OutputFaithful /\ BridgeInv /\ SeenInv => ClosedIsTrue
  <2> SUFFICES ASSUME TypeInv, NothingAfterEof, OutputFaithful, BridgeInv, SeenInv,
                      NEW i \in Incs \ overlap, closed[i]
               PROVE  /\ shell[i] = "exited" /\ sent[i] = Append(AllOf(i), Eof)
                      /\ seen[i] = written[i] + 1
    BY DEF ClosedIsTrue
  <2>1. sent[i] \in Seq(Chunk \cup {Eof}) /\ seen[i] \in Nat /\ written[i] \in 0..MaxOut
    BY DEF TypeInv, TypeOK, BridgeInv, FlowTypeOK
  <2>2. seen[i] \in DOMAIN sent[i] /\ sent[i][seen[i]] = Eof
    BY <2>1, LenProperties DEF SeenInv
  <2>3. seen[i] = Len(sent[i]) /\ sent[i] # <<>>
    BY <2>1, <2>2, EmptySeq DEF NothingAfterEof
  <2>4. shell[i] = "exited" /\ sent[i] = Append(AllOf(i), Eof)
    BY <2>2, <2>3 DEF OutputFaithful, EofComplete
  <2>5. AllOf(i) \in Seq(Chunk) /\ Len(AllOf(i)) = written[i]
    <3>1. AllOf(i) \in [1..written[i] -> Chunk] /\ written[i] \in Nat
      BY <2>1, ConstantsAssumption DEF AllOf, Chunk, Incs
    <3> QED
      BY <3>1
  <2>6. Len(sent[i]) = written[i] + 1
    BY <2>4, <2>5, AppendProperties
  <2> QED
    BY <2>3, <2>4, <2>6
<1> QED
  BY <1>1, <1>2, <1>3, <1>4, PTL DEF FlowSpec

=============================================================================
