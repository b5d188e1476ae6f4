-------------------------- MODULE SshConnectionsProofs --------------------------
(* What the SSH connections guarantee for any ids, host keys and retry budget,   *)
(* and any number of calls, drops and key changes.                               *)
EXTENDS SshConnections, TLAPS

Working == {"watch", "backoff", "dialing", "swap", "publish"}

\* One connection and its supervisor: how far the call got, what the task counts
\* and what it has told the frontend and the broker.
Task(c) ==
  /\ call[c] \in {"none", "dialing", "binding"} => sup[c] = "none"
  /\ call[c] # "none" => idOf[c] \in Ids
  /\ call[c] = "binding" \/ sup[c] # "none" => session[c] > 0
  /\ session[c] > 0 => sessionKey[c] = known[c] /\ known[c] \in HostKeys
  /\ sup[c] = "none" => ~aborted[c] /\ status[c] = Connected
  /\ sup[c] = "watch" => attempt[c] = 0 /\ status[c] = Connected
  /\ sup[c] \in {"watch", "publish"} => opener[c] = session[c]
  /\ sup[c] \in {"backoff", "dialing"} =>
       attempt[c] \in 1..MaxAttempts /\ status[c] = Reconnecting(attempt[c])
  /\ sup[c] = "backoff" => attempt[c] = dials[c] + 1
  /\ sup[c] = "dialing" => attempt[c] = dials[c]
  /\ sup[c] \in {"swap", "publish"} => status[c].state = "reconnecting"
  /\ sup[c] = "stopped" => aborted[c] \/ status[c] = Failed
  /\ status[c] = Failed => sup[c] = "stopped" /\ dials[c] = MaxAttempts
  /\ sup[c] # "none" /\ status[c] = Connected => opener[c] = session[c]

TaskInv == \A c \in Conns : Task(c)

\* The map names the one task of each id that nobody has aborted.
MapInv ==
  /\ \A id \in Ids : connections[id] # 0 =>
       /\ idOf[connections[id]] = id
       /\ sup[connections[id]] # "none" /\ ~aborted[connections[id]]
  /\ \A c \in Conns : Supervised(c) => connections[idOf[c]] = c

\* Nothing of connection d changed but perhaps its abort.
Same(d) ==
  /\ call'[d] = call[d] /\ idOf'[d] = idOf[d] /\ sup'[d] = sup[d]
  /\ attempt'[d] = attempt[d] /\ status'[d] = status[d]
  /\ session'[d] = session[d] /\ opener'[d] = opener[d] /\ known'[d] = known[d]
  /\ sessionKey'[d] = sessionKey[d] /\ dials'[d] = dials[d]

LEMMA InitHolds ==
  ASSUME Init
  PROVE  TypeOK /\ TaskInv /\ MapInv
<1>1. TypeOK
  BY ConstantsAssumption DEF Init, TypeOK, Calls, SupStates, NoResult, Connected, Conns
<1>2. TaskInv
  BY DEF Init, TaskInv, Task, Connected, Failed
<1>3. MapInv
  BY DEF Init, MapInv, Supervised
<1> QED
  BY <1>1, <1>2, <1>3

\* What the map leaves alone keeps the frame of a task.
LEMMA TaskFrame ==
  ASSUME NEW d, Task(d), Same(d), aborted'[d] = aborted[d] \/ sup[d] # "none",
         aborted[d] => aborted'[d]
  PROVE  Task(d)'
  BY DEF Task, Same, Connected, Failed, Reconnecting

LEMMA ConnNumbers == 0 \notin Conns /\ 0..MaxCalls = {0} \cup Conns
  BY ConstantsAssumption DEF Conns

\* What the map says of the connection behind an id.
LEMMA MapNames ==
  ASSUME TypeOK, MapInv, NEW id \in Ids, connections[id] # 0
  PROVE  /\ connections[id] \in Conns
         /\ idOf[connections[id]] = id
         /\ sup[connections[id]] # "none" /\ ~aborted[connections[id]]
<1>1. connections[id] \in {0} \cup Conns
  BY ConnNumbers DEF TypeOK
<1> QED
  BY <1>1 DEF MapInv

LEMMA MapFrame ==
  ASSUME TypeOK, MapInv, UNCHANGED <<connections, idOf, aborted>>,
         \A d \in Conns : sup[d] # "none" => sup'[d] # "none",
         \A d \in Conns : sup'[d] \notin {"none", "stopped"}
                            => sup[d] \notin {"none", "stopped"}
  PROVE  MapInv'
<1>1. \A id \in Ids : connections[id] # 0 => connections[id] \in Conns
  BY ConstantsAssumption DEF TypeOK, Conns
<1>2. \A d \in Conns : Supervised(d)' => Supervised(d)
  BY DEF Supervised
<1> QED
  BY <1>1, <1>2 DEF MapInv

-----------------------------------------------------------------------------
(* Typing, one lemma for the calls and one for the supervisors.            *)

LEMMA CallTypes ==
  ASSUME TypeOK, TaskInv, NEW c \in Conns,
         \/ \E id \in Ids : StartConnect(c, id)
         \/ ConnectSucceeds(c) \/ ConnectFails(c) \/ Establish(c) \/ ReturnConnect(c)
  PROVE  TypeOK'
<1>0. c \in 1..MaxCalls
  BY DEF Conns
<1>1. CASE \E id \in Ids : StartConnect(c, id)
  BY <1>1 DEF StartConnect, TypeOK, Calls, supVars, worldVars
<1>2. CASE ConnectSucceeds(c)
  BY <1>2 DEF ConnectSucceeds, TypeOK, Calls, worldVars
<1>3. CASE ConnectFails(c)
  BY <1>3 DEF ConnectFails, TypeOK, Calls, supVars, worldVars
<1>4. CASE Establish(c)
  <2>1. idOf[c] \in Ids
    BY <1>4 DEF Establish, TaskInv, Task
  <2>2. connections' \in [Ids -> 0..MaxCalls]
    BY <1>0, <1>4, <2>1, ConstantsAssumption DEF Establish, TypeOK
  <2>3. aborted' \in [Conns -> BOOLEAN]
    BY <1>4 DEF Establish, TypeOK, AbortOf
  <2>4. attempt' \in [Conns -> 0..(MaxAttempts + 1)]
    BY <1>4, ConstantsAssumption DEF Establish, TypeOK
  <2> QED
    BY <1>4, <2>2, <2>3, <2>4 DEF Establish, TypeOK, Calls, SupStates, worldVars
<1>5. CASE ReturnConnect(c)
  <2>1. idOf[c] \in Ids
    BY <1>5 DEF ReturnConnect, TaskInv, Task
  <2>2. [url |-> c, port |-> connections[idOf[c]]]
          \in [url : 0..MaxCalls, port : 0..MaxCalls]
    BY <1>0, <2>1, ConstantsAssumption DEF TypeOK
  <2>3. result' \in [Conns -> [url : 0..MaxCalls, port : 0..MaxCalls]]
    BY <1>5, <2>2 DEF ReturnConnect, TypeOK
  <2>4. call' \in [Conns -> Calls]
    <3>1. \E to \in {"failed", "returned"} : call' = [call EXCEPT ![c] = to]
      BY <1>5 DEF ReturnConnect
    <3> QED
      BY <3>1 DEF TypeOK, Calls
  <2>5. UNCHANGED <<idOf, connections, supVars, worldVars, aborted, alive, known>>
    BY <1>5 DEF ReturnConnect
  <2> QED
    BY <2>3, <2>4, <2>5 DEF TypeOK, supVars, worldVars
<1> QED
  BY <1>1, <1>2, <1>3, <1>4, <1>5

LEMMA AdvanceTypes ==
  ASSUME TypeOK, NEW c \in Conns, AdvanceAttempt(c), attempt[c] \in 0..MaxAttempts
  PROVE  /\ attempt' \in [Conns -> 0..(MaxAttempts + 1)]
         /\ status' \in [Conns -> {Connected, Failed}
                                    \cup {Reconnecting(n) : n \in 1..MaxAttempts}]
         /\ sup' \in [Conns -> SupStates]
<1>1. attempt[c] + 1 \in 1..(MaxAttempts + 1)
  BY ConstantsAssumption
<1>2. attempt' \in [Conns -> 0..(MaxAttempts + 1)]
  BY <1>1, ConstantsAssumption DEF AdvanceAttempt, TypeOK
<1>3. CASE attempt[c] + 1 > MaxAttempts
  BY <1>2, <1>3 DEF AdvanceAttempt, TypeOK, SupStates
<1>4. CASE ~(attempt[c] + 1 > MaxAttempts)
  <2>1. attempt[c] + 1 \in 1..MaxAttempts
    BY <1>1, <1>4, ConstantsAssumption
  <2>2. Reconnecting(attempt[c] + 1) \in {Reconnecting(n) : n \in 1..MaxAttempts}
    BY <2>1
  <2> QED
    BY <1>2, <1>4, <2>2 DEF AdvanceAttempt, TypeOK, SupStates
<1> QED
  BY <1>3, <1>4

LEMMA SupervisorTypes ==
  ASSUME TypeOK, TaskInv, NEW c \in Conns, Supervise(c)
  PROVE  TypeOK'
<1>1. CASE NoticeDrop(c)
  <2>1. attempt[c] \in 0..MaxAttempts
    BY <1>1, ConstantsAssumption DEF NoticeDrop, Awaits, TaskInv, Task
  <2>2. dials' \in [Conns -> 0..MaxAttempts]
    BY <1>1, ConstantsAssumption DEF NoticeDrop, TypeOK
  <2>3. AdvanceAttempt(c)
    BY <1>1 DEF NoticeDrop
  <2> QED
    BY <1>1, <2>1, <2>2, <2>3, AdvanceTypes DEF NoticeDrop, TypeOK, callVars, worldVars
<1>2. CASE DialFails(c)
  <2>1. attempt[c] \in 0..MaxAttempts
    BY <1>2 DEF DialFails, Awaits, TaskInv, Task
  <2>2. AdvanceAttempt(c)
    BY <1>2 DEF DialFails
  <2> QED
    BY <1>2, <2>1, <2>2, AdvanceTypes DEF DialFails, TypeOK, callVars, worldVars
<1>3. CASE BackoffOver(c)
  <2>1. dials[c] + 1 \in 0..MaxAttempts
    BY <1>3 DEF BackoffOver, Awaits, TaskInv, Task
  <2>2. dials' \in [Conns -> 0..MaxAttempts]
    BY <1>3, <2>1 DEF BackoffOver, TypeOK
  <2> QED
    BY <1>3, <2>2 DEF BackoffOver, TypeOK, SupStates, callVars, worldVars
<1>4. CASE DialSucceeds(c)
  BY <1>4 DEF DialSucceeds, TypeOK, SupStates, callVars, worldVars
<1>5. CASE SwapOpener(c)
  BY <1>5 DEF SwapOpener, TypeOK, SupStates, callVars, worldVars
<1>6. CASE PublishConnected(c)
  <2>1. attempt' \in [Conns -> 0..(MaxAttempts + 1)]
    BY <1>6, ConstantsAssumption DEF PublishConnected, TypeOK
  <2> QED
    BY <1>6, <2>1 DEF PublishConnected, TypeOK, SupStates, callVars, worldVars
<1>7. CASE TaskAborted(c)
  BY <1>7 DEF TaskAborted, TypeOK, SupStates, callVars, worldVars
<1> QED
  BY <1>1, <1>2, <1>3, <1>4, <1>5, <1>6, <1>7 DEF Supervise

LEMMA OtherTypes ==
  ASSUME TypeOK,
         \/ \E c \in Conns : SessionDrops(c)
         \/ \E id \in Ids : Disconnect(id)
         \/ \E k \in HostKeys : ServerKeyChanges(k)
  PROVE  TypeOK'
<1>1. ASSUME NEW c \in Conns, SessionDrops(c)
      PROVE  TypeOK'
  <2>1. drops' \in 0..MaxDrops
    BY <1>1, ConstantsAssumption DEF SessionDrops, TypeOK
  <2> QED
    BY <1>1, <2>1 DEF SessionDrops, TypeOK, callVars, supVars
<1>2. ASSUME NEW id \in Ids, Disconnect(id)
      PROVE  TypeOK'
  <2>1. connections' \in [Ids -> 0..MaxCalls]
    BY <1>2, ConstantsAssumption DEF Disconnect, TypeOK
  <2>2. aborted' \in [Conns -> BOOLEAN]
    BY <1>2 DEF Disconnect, TypeOK, AbortOf
  <2> QED
    BY <1>2, <2>1, <2>2 DEF Disconnect, TypeOK, supVars, worldVars
<1>3. ASSUME NEW k \in HostKeys, ServerKeyChanges(k)
      PROVE  TypeOK'
  <2>1. keyChanges' \in 0..MaxKeyChanges
    BY <1>3, ConstantsAssumption DEF ServerKeyChanges, TypeOK
  <2> QED
    BY <1>3, <2>1 DEF ServerKeyChanges, TypeOK, callVars, supVars
<1> QED
  BY <1>1, <1>2, <1>3

-----------------------------------------------------------------------------
(* One lemma per kind of step.                                             *)

\* The call of connection c before its task runs.
LEMMA CallStep ==
  ASSUME TypeOK, TaskInv, MapInv, NEW c \in Conns,
         (\E id \in Ids : StartConnect(c, id)) \/ ConnectSucceeds(c)
           \/ ConnectFails(c) \/ ReturnConnect(c)
  PROVE  TaskInv' /\ MapInv'
<1>1. \A d \in Conns \ {c} : Same(d)
  BY DEF StartConnect, ConnectSucceeds, ConnectFails, ReturnConnect, supVars, Same,
         TypeOK
<1>2. UNCHANGED <<sup, connections, aborted>>
  BY DEF StartConnect, ConnectSucceeds, ConnectFails, ReturnConnect, supVars
<1>3. Task(c)'
  <2>1. Task(c)
    BY DEF TaskInv
  <2>2. CASE \E id \in Ids : StartConnect(c, id)
    BY <2>1, <2>2 DEF StartConnect, Task, TypeOK, supVars
  <2>3. CASE ConnectSucceeds(c)
    BY <2>1, <2>3 DEF ConnectSucceeds, Task, TypeOK
  <2>4. CASE ConnectFails(c)
    BY <2>1, <2>4 DEF ConnectFails, Task, TypeOK, supVars
  <2>5. CASE ReturnConnect(c)
    BY <2>1, <2>5 DEF ReturnConnect, Task, TypeOK, supVars
  <2> QED
    BY <2>2, <2>3, <2>4, <2>5
<1>4. TaskInv'
  BY <1>1, <1>2, <1>3, TaskFrame DEF TaskInv
<1>5. MapInv'
  <2>1. CASE \E id \in Ids : StartConnect(c, id)
    <3>1. sup[c] = "none"
      BY <2>1 DEF StartConnect, TaskInv, Task
    <3>2. \A d \in Conns \ {c} : idOf'[d] = idOf[d]
      BY <1>1 DEF Same
    <3>3. \A id \in Ids : connections[id] # 0 => connections[id] \in Conns \ {c}
      BY <3>1, MapNames
    <3> QED
      BY <1>2, <3>1, <3>2, <3>3 DEF MapInv, Supervised
  <2>2. CASE UNCHANGED idOf
    BY <1>2, <2>2, MapFrame
  <2> QED
    BY <2>1, <2>2 DEF ConnectSucceeds, ConnectFails, ReturnConnect
<1> QED
  BY <1>4, <1>5

\* A new connection takes the id: whoever held it is aborted in the same step.
LEMMA EstablishStep ==
  ASSUME TypeOK, TaskInv, MapInv, NEW c \in Conns, Establish(c)
  PROVE  TaskInv' /\ MapInv'
<1> DEFINE old == connections[idOf[c]]
<1>1. Task(c) /\ call[c] = "binding" /\ sup[c] = "none" /\ ~aborted[c]
      /\ idOf[c] \in Ids
  BY DEF Establish, TaskInv, Task
<1>2. \A d \in Conns \ {c} : Same(d)
  BY DEF Establish, Same, TypeOK
<1>3. \A d \in Conns : aborted'[d] = (aborted[d] \/ d = old)
  BY DEF Establish, AbortOf
<1>4. \A id \in Ids : connections[id] # c
  BY <1>1, MapNames, ConnNumbers
<1>5. old # 0 => old \in Conns /\ sup[old] # "none" /\ idOf[old] = idOf[c]
  BY <1>1, MapNames
<1>6. Task(c)'
  BY <1>1 DEF Establish, Task, TypeOK, Connected, Failed
<1>7. \A d \in Conns \ {c} : Task(d)'
  <2> SUFFICES ASSUME NEW d \in Conns \ {c} PROVE Task(d)'
    OBVIOUS
  <2>1. Task(d) /\ Same(d)
    BY <1>2 DEF TaskInv
  <2>2. aborted'[d] = aborted[d] \/ sup[d] # "none"
    <3>1. CASE d = old
      BY <1>5, <3>1, ConnNumbers
    <3>2. CASE d # old
      BY <1>3, <3>2 DEF TypeOK
    <3> QED
      BY <3>1, <3>2
  <2>3. aborted[d] => aborted'[d]
    BY <1>3
  <2> QED
    BY <2>1, <2>2, <2>3, TaskFrame
<1>8. MapInv'
  <2>1. /\ UNCHANGED idOf
        /\ connections' = [connections EXCEPT ![idOf[c]] = c]
        /\ sup' = [sup EXCEPT ![c] = "watch"]
    BY DEF Establish
  <2>2. ASSUME NEW id \in Ids, connections'[id] # 0
        PROVE  /\ idOf'[connections'[id]] = id
               /\ sup'[connections'[id]] # "none" /\ ~aborted'[connections'[id]]
    <3>1. CASE id = idOf[c]
      <4>1. connections'[id] = c
        BY <1>1, <2>1, <3>1 DEF TypeOK
      <4>2. c # old
        BY <1>1, <1>4
      <4> QED
        BY <1>1, <1>3, <2>1, <3>1, <4>1, <4>2 DEF TypeOK
    <3>2. CASE id # idOf[c]
      <4>1. connections'[id] = connections[id] /\ connections[id] \in Conns
        <5>1. connections'[id] = connections[id]
          BY <2>1, <3>2 DEF TypeOK
        <5> QED
          BY <2>2, <5>1, MapNames
      <4>2. connections[id] # old /\ connections[id] # c
        BY <1>4, <1>5, <2>2, <3>2, <4>1 DEF MapInv
      <4> QED
        BY <1>3, <2>1, <2>2, <4>1, <4>2 DEF MapInv, TypeOK
    <3> QED
      BY <3>1, <3>2
  <2>3. ASSUME NEW d \in Conns, Supervised(d)'
        PROVE  connections'[idOf'[d]] = d
    <3>1. CASE d = c
      BY <1>1, <2>1, <3>1 DEF TypeOK
    <3>2. CASE d # c
      <4>1. Supervised(d) /\ d # old
        BY <1>3, <2>1, <2>3, <3>2 DEF Supervised, TypeOK
      <4>2. connections[idOf[d]] = d
        BY <4>1 DEF MapInv
      <4>3. idOf[d] # idOf[c]
        BY <4>1, <4>2
      <4>4. call[d] # "none"
        BY <4>1 DEF Supervised, TaskInv, Task
      <4> QED
        BY <2>1, <4>2, <4>3, <4>4 DEF TypeOK, TaskInv, Task
    <3> QED
      BY <3>1, <3>2
  <2> QED
    BY <2>2, <2>3 DEF MapInv
<1> QED
  BY <1>6, <1>7, <1>8 DEF TaskInv

LEMMA DisconnectStep ==
  ASSUME TypeOK, TaskInv, MapInv, NEW id \in Ids, Disconnect(id)
  PROVE  TaskInv' /\ MapInv'
<1> DEFINE old == connections[id]
<1>1. old \in Conns /\ sup[old] # "none" /\ idOf[old] = id
  BY MapNames DEF Disconnect
<1>2. \A d \in Conns : Same(d)
  BY DEF Disconnect, Same, supVars
<1>3. \A d \in Conns : aborted'[d] = (aborted[d] \/ d = old)
  BY DEF Disconnect, AbortOf
<1>4. TaskInv'
  <2> SUFFICES ASSUME NEW d \in Conns PROVE Task(d)'
    BY DEF TaskInv
  <2>1. Task(d) /\ Same(d)
    BY <1>2 DEF TaskInv
  <2>2. aborted'[d] = aborted[d] \/ sup[d] # "none"
    BY <1>1, <1>3 DEF TypeOK
  <2> QED
    BY <1>3, <2>1, <2>2, TaskFrame
<1>5. MapInv'
  <2>1. UNCHANGED <<idOf, sup>> /\ connections' = [connections EXCEPT ![id] = 0]
    BY DEF Disconnect, supVars
  <2>2. ASSUME NEW other \in Ids, connections'[other] # 0
        PROVE  /\ connections'[other] = connections[other] /\ other # id
               /\ connections[other] \in Conns /\ connections[other] # old
    <3>1. connections'[other] = connections[other] /\ other # id
      BY <2>1, <2>2 DEF TypeOK
    <3> QED
      BY <1>1, <2>2, <3>1, MapNames
  <2>3. ASSUME NEW other \in Ids, connections'[other] # 0
        PROVE  /\ idOf'[connections'[other]] = other
               /\ sup'[connections'[other]] # "none" /\ ~aborted'[connections'[other]]
    <3>1. /\ connections'[other] = connections[other] /\ connections[other] # 0
          /\ connections[other] \in Conns /\ connections[other] # old
      BY <2>2, <2>3
    <3>2. ~aborted'[connections[other]]
      BY <1>3, <3>1, MapNames
    <3> QED
      BY <2>1, <3>1, <3>2, MapNames
  <2>4. ASSUME NEW d \in Conns, Supervised(d)'
        PROVE  connections'[idOf'[d]] = d
    <3>1. Supervised(d) /\ d # old
      BY <1>3, <2>1, <2>4 DEF Supervised
    <3>2. connections[idOf[d]] = d /\ idOf[d] # id
      BY <3>1 DEF MapInv
    <3> QED
      BY <2>1, <3>2 DEF TypeOK
  <2> QED
    BY <2>3, <2>4 DEF MapInv
<1> QED
  BY <1>4, <1>5

LEMMA AdvanceTask ==
  ASSUME TypeOK, NEW c \in Conns, Task(c), AdvanceAttempt(c), call'[c] = call[c],
         call[c] \notin {"none", "dialing", "binding"}, idOf'[c] = idOf[c],
         session[c] > 0, session'[c] = session[c], known'[c] = known[c],
         sessionKey'[c] = sessionKey[c], dials'[c] = attempt[c],
         dials'[c] \in 0..MaxAttempts
  PROVE  Task(c)'
<1>1. attempt'[c] = dials'[c] + 1
  BY DEF AdvanceAttempt, TypeOK
<1>2. CASE attempt[c] + 1 > MaxAttempts
  <2>1. sup'[c] = "stopped" /\ status'[c] = Failed
    BY <1>2 DEF AdvanceAttempt, TypeOK
  <2>2. dials'[c] = MaxAttempts
    BY <1>2, ConstantsAssumption
  <2> QED
    BY <2>1, <2>2 DEF Task, Failed, Connected
<1>3. CASE ~(attempt[c] + 1 > MaxAttempts)
  <2>1. sup'[c] = "backoff" /\ status'[c] = Reconnecting(attempt'[c])
    BY <1>1, <1>3 DEF AdvanceAttempt, TypeOK
  <2>2. attempt'[c] \in 1..MaxAttempts
    BY <1>1, <1>3, ConstantsAssumption
  <2> QED
    BY <1>1, <2>1, <2>2 DEF Task, Failed, Connected, Reconnecting
<1> QED
  BY <1>2, <1>3

LEMMA SupervisorStep ==
  ASSUME TypeOK, TaskInv, MapInv, NEW c \in Conns, Supervise(c)
  PROVE  TaskInv' /\ MapInv'
<1>1. Task(c) /\ sup[c] \in Working
  BY DEF TaskInv, Supervise, NoticeDrop, BackoffOver, DialFails, DialSucceeds,
         SwapOpener, PublishConnected, TaskAborted, Awaits, Runs, Working
<1>2. call[c] \notin {"none", "dialing", "binding"} /\ session[c] > 0
  BY <1>1 DEF Task, Working
<1>3. UNCHANGED <<callVars, aborted, known>>
  BY DEF Supervise, NoticeDrop, BackoffOver, DialFails, DialSucceeds,
         SwapOpener, PublishConnected, TaskAborted
<1>4. \A d \in Conns \ {c} : Same(d)
  <2>1. ASSUME AdvanceAttempt(c)
        PROVE  \A d \in Conns \ {c} : attempt'[d] = attempt[d]
                 /\ status'[d] = status[d] /\ sup'[d] = sup[d]
    BY <2>1 DEF AdvanceAttempt, TypeOK
  <2>2. CASE NoticeDrop(c) \/ DialFails(c)
    BY <1>3, <2>1, <2>2 DEF NoticeDrop, DialFails, Same, TypeOK, callVars
  <2>3. CASE BackoffOver(c) \/ DialSucceeds(c)
    BY <1>3, <2>3 DEF BackoffOver, DialSucceeds, Same, TypeOK, callVars
  <2>4. CASE SwapOpener(c) \/ PublishConnected(c) \/ TaskAborted(c)
    BY <1>3, <2>4 DEF SwapOpener, PublishConnected, TaskAborted, Same, TypeOK, callVars
  <2> QED
    BY <2>2, <2>3, <2>4 DEF Supervise
<1>5. Task(c)' /\ sup'[c] # "none"
  <2>1. CASE NoticeDrop(c)
    <3>1. attempt[c] = 0 /\ dials'[c] = 0
      BY <1>1, <2>1 DEF NoticeDrop, Awaits, Task, TypeOK
    <3>2. AdvanceAttempt(c) /\ UNCHANGED <<session, sessionKey>>
      BY <2>1 DEF NoticeDrop
    <3>3. Task(c)'
      BY <1>1, <1>2, <1>3, <3>1, <3>2, AdvanceTask, ConstantsAssumption DEF callVars
    <3> QED
      BY <3>2, <3>3 DEF AdvanceAttempt, TypeOK
  <2>2. CASE DialFails(c)
    <3>1. attempt[c] = dials[c] /\ dials[c] \in 0..MaxAttempts
      BY <1>1, <2>2 DEF DialFails, Awaits, Task, TypeOK
    <3>2. AdvanceAttempt(c) /\ UNCHANGED <<session, sessionKey, dials>>
      BY <2>2 DEF DialFails
    <3>3. Task(c)'
      BY <1>1, <1>2, <1>3, <3>1, <3>2, AdvanceTask DEF callVars
    <3> QED
      BY <3>2, <3>3 DEF AdvanceAttempt, TypeOK
  <2>3. CASE BackoffOver(c)
    BY <1>1, <1>2, <1>3, <2>3
    DEF BackoffOver, Awaits, Task, TypeOK, callVars, Failed, Connected, Reconnecting
  <2>4. CASE DialSucceeds(c)
    <3>1. known[c] = serverKey
      BY <1>1, <1>2, <2>4, ConstantsAssumption DEF DialSucceeds, Trusted, Task
    <3>2. /\ sup[c] = "dialing" /\ sup'[c] = "swap"
          /\ session'[c] = session[c] + 1 /\ sessionKey'[c] = serverKey
          /\ UNCHANGED <<attempt, status, opener, dials>>
      BY <2>4 DEF DialSucceeds, Awaits, TypeOK
    <3>3. session'[c] > 0 /\ serverKey \in HostKeys
      BY <1>2, <3>2 DEF TypeOK
    <3> QED
      BY <1>1, <1>2, <1>3, <3>1, <3>2, <3>3
      DEF Task, callVars, Failed, Connected, Reconnecting
  <2>5. CASE SwapOpener(c)
    BY <1>1, <1>2, <1>3, <2>5 DEF SwapOpener, Runs, Task, TypeOK, callVars, Failed, Connected
  <2>6. CASE PublishConnected(c)
    BY <1>1, <1>2, <1>3, <2>6
    DEF PublishConnected, Runs, Task, TypeOK, callVars, Failed, Connected
  <2>7. CASE TaskAborted(c)
    <3>1. aborted[c] /\ sup'[c] = "stopped"
          /\ UNCHANGED <<attempt, status, session, opener, sessionKey, dials>>
      BY <2>7 DEF TaskAborted, TypeOK
    <3>2. status[c] # Failed
      BY <1>1 DEF Task, Working
    <3> QED
      BY <1>1, <1>2, <1>3, <3>1, <3>2 DEF Task, callVars, Working
  <2> QED
    BY <2>1, <2>2, <2>3, <2>4, <2>5, <2>6, <2>7 DEF Supervise
<1>6. TaskInv'
  BY <1>3, <1>4, <1>5, TaskFrame DEF TaskInv
<1>7. MapInv'
  <2>1. \A d \in Conns : sup[d] # "none" => sup'[d] # "none"
    BY <1>4, <1>5 DEF Same
  <2>2. \A d \in Conns : sup'[d] \notin {"none", "stopped"}
                           => sup[d] \notin {"none", "stopped"}
    BY <1>1, <1>4 DEF Same, Working
  <2> QED
    BY <1>3, <2>1, <2>2, MapFrame DEF callVars
<1> QED
  BY <1>6, <1>7

\* What happens outside the program: a session drops, the server's key changes.
LEMMA WorldStep ==
  ASSUME TypeOK, TaskInv, MapInv, UNCHANGED <<callVars, supVars, aborted, known>>
  PROVE  TaskInv' /\ MapInv'
<1>1. \A d \in Conns : Same(d)
  BY DEF Same, callVars, supVars
<1>2. TaskInv'
  BY <1>1, TaskFrame DEF TaskInv
<1>3. MapInv'
  BY MapFrame DEF callVars, supVars
<1> QED
  BY <1>2, <1>3

ConnInv == TypeOK /\ TaskInv /\ MapInv

LEMMA ConnInvAlways == Spec => []ConnInv
<1>1. Init => ConnInv
  BY InitHolds DEF ConnInv
<1>2. ConnInv /\ [Next]_vars => ConnInv'
  <2> SUFFICES ASSUME ConnInv, [Next]_vars PROVE ConnInv'
    OBVIOUS
  <2> USE DEF ConnInv
  <2>1. ASSUME NEW c \in Conns,
               \/ \E id \in Ids : StartConnect(c, id)
               \/ ConnectSucceeds(c) \/ ConnectFails(c) \/ ReturnConnect(c)
        PROVE  ConnInv'
    BY <2>1, CallTypes, CallStep
  <2>2. ASSUME NEW c \in Conns, Establish(c)
        PROVE  ConnInv'
    BY <2>2, CallTypes, EstablishStep
  <2>3. ASSUME NEW c \in Conns, Supervise(c)
        PROVE  ConnInv'
    BY <2>3, SupervisorTypes, SupervisorStep
  <2>4. ASSUME NEW id \in Ids, Disconnect(id)
        PROVE  ConnInv'
    BY <2>4, OtherTypes, DisconnectStep
  <2>5. ASSUME NEW c \in Conns, SessionDrops(c)
        PROVE  ConnInv'
    BY <2>5, OtherTypes, WorldStep DEF SessionDrops
  <2>6. ASSUME NEW k \in HostKeys, ServerKeyChanges(k)
        PROVE  ConnInv'
    BY <2>6, OtherTypes, WorldStep DEF ServerKeyChanges
  <2>7. CASE UNCHANGED vars
    <3>1. TypeOK'
      BY <2>7 DEF vars, callVars, supVars, worldVars, TypeOK
    <3> QED
      BY <2>7, <3>1, WorldStep DEF vars
  <2> QED
    BY <2>1, <2>2, <2>3, <2>4, <2>5, <2>6, <2>7 DEF Next
<1> QED
  BY <1>1, <1>2, PTL DEF Spec

\* Whatever the order in which connects and disconnects of one id finish, one
\* task at most still redials for it and it is the one in the map; a connection
\* in the map is supervised or has failed, after exactly MaxAttempts tries if the
\* server accepts its credentials
\* (session.rs: connect, disconnect, supervise; reconnect.rs: advance_attempt).
THEOREM SupervisionAlwaysSound == Spec => []SupervisionSound
<1>1. ConnInv => OneSupervisorPerId
  <2> SUFFICES ASSUME ConnInv PROVE OneSupervisorPerId
    OBVIOUS
  <2>1. ASSUME NEW id \in Ids, connections[id] # 0
        PROVE  Supervised(connections[id]) \/ status[connections[id]] = Failed
    <3>1. Task(connections[id])
      BY <2>1, MapNames DEF ConnInv, TaskInv
    <3> QED
      BY <2>1, <3>1, MapNames DEF ConnInv, Supervised, Task
  <2> QED
    BY <2>1 DEF ConnInv, MapInv, OneSupervisorPerId
<1>2. ConnInv => AttemptsCounted
  BY DEF ConnInv, TaskInv, Task, AttemptsCounted
<1>3. ConnInv => SupervisionSound
  BY <1>1, <1>2 DEF ConnInv, SupervisionSound
<1> QED
  BY <1>3, ConnInvAlways, PTL

\* While the status says connected, the broker opens channels on the session the
\* supervisor watches (session.rs: the opener is swapped before the status is
\* published).
THEOREM ConnectedAlwaysCurrent == Spec => []ConnectedUsesCurrentSession
<1>1. ConnInv => ConnectedUsesCurrentSession
  BY DEF ConnInv, TaskInv, Task, ConnectedUsesCurrentSession
<1> QED
  BY <1>1, ConnInvAlways, PTL

\* Every session of a connection, the first and each reconnect, was made under
\* the fingerprint the first one presented (host_key.rs: check).
THEOREM HostKeyAlwaysKept == Spec => []ReconnectKeepsHostKey
<1>1. ConnInv => ReconnectKeepsHostKey
  BY DEF ConnInv, TaskInv, Task, ReconnectKeepsHostKey
<1> QED
  BY <1>1, ConnInvAlways, PTL
=============================================================================
