---------------------------- MODULE SshConnections ----------------------------
(***************************************************************************)
(* The SSH connections of src-tauri/src/ssh: SshManager and the supervisor *)
(* task of each connection (session.rs), the retry decisions of            *)
(* ReconnectSupervisor (reconnect.rs), the accept-new host key policy      *)
(* (host_key.rs) and the swappable opener of the broker (socks_broker.rs). *)
(*                                                                         *)
(* ssh_connect is an async command on a multi-threaded runtime, so several *)
(* calls, ssh_disconnect and the supervisors interleave at every await.    *)
(* The n-th call to ssh_connect owns connection n, its broker and its      *)
(* port: the port of connection n is written n.  Sessions of a connection  *)
(* are numbered from 1.                                                    *)
(***************************************************************************)
EXTENDS Naturals

CONSTANTS
  Ids,          \* the connection handles the frontend uses
  NoId,         \* not one of them
  HostKeys,     \* fingerprints the server may present
  NoKey,        \* not one of them: an empty HostKeyStore
  MaxAttempts,  \* ReconnectPolicy.max_attempts
  MaxCalls,     \* bound: calls to ssh_connect
  MaxDrops,     \* bound: sessions the network drops
  MaxKeyChanges \* bound: changes of the server's host key

ASSUME ConstantsAssumption ==
  /\ NoId \notin Ids /\ NoKey \notin HostKeys /\ HostKeys # {}
  /\ MaxAttempts \in Nat /\ MaxCalls \in Nat /\ MaxDrops \in Nat
  /\ MaxKeyChanges \in Nat

Conns == 1..MaxCalls

VARIABLES
  call,         \* where each ssh_connect call stands
  idOf,         \* the id a call was made with
  result,       \* the port in the url and the port beside it that a call returned
  connections,  \* SshManager.connections: the connection behind each id, or 0
  sup,          \* where each supervisor task stands
  aborted,      \* supervisors whose abort() has been called
  attempt,      \* ReconnectSupervisor.attempt
  status,       \* the shared ConnectionStatus the frontend polls
  session,      \* the number of the session the supervisor holds
  alive,        \* that session's transport is up
  opener,       \* the session the broker opens channels on
  known,        \* the fingerprint in the connection's HostKeyStore
  sessionKey,   \* history: the fingerprint the held session was made under
  dials,        \* history: reconnect attempts since the last drop was noticed
  rejected,     \* history: the server rejected the credentials of one of them
  serverKey,    \* the server's fingerprint
  drops,        \* sessions dropped so far
  keyChanges    \* key changes so far

callVars == <<call, idOf, result, connections>>
supVars == <<sup, attempt, status, session, opener, sessionKey, dials,
             rejected>>
worldVars == <<serverKey, drops, keyChanges>>
vars == <<callVars, supVars, worldVars, aborted, alive, known>>

Calls == {"none", "dialing", "binding", "reading", "returned", "failed"}
SupStates == {"none", "watch", "backoff", "dialing", "swap", "publish", "stopped"}

Connected == [state |-> "connected", n |-> 0]
Reconnecting(n) == [state |-> "reconnecting", n |-> n]
Failed == [state |-> "failed", n |-> 0]
NoResult == [url |-> 0, port |-> 0]

Init ==
  /\ call = [c \in Conns |-> "none"]
  /\ idOf = [c \in Conns |-> NoId]
  /\ result = [c \in Conns |-> NoResult]
  /\ connections = [id \in Ids |-> 0]
  /\ sup = [c \in Conns |-> "none"]
  /\ aborted = [c \in Conns |-> FALSE]
  /\ attempt = [c \in Conns |-> 0]
  /\ status = [c \in Conns |-> Connected]
  /\ session = [c \in Conns |-> 0]
  /\ alive = [c \in Conns |-> FALSE]
  /\ opener = [c \in Conns |-> 0]
  /\ known = [c \in Conns |-> NoKey]
  /\ sessionKey = [c \in Conns |-> NoKey]
  /\ dials = [c \in Conns |-> 0]
  /\ rejected = [c \in Conns |-> FALSE]
  /\ serverKey \in HostKeys
  /\ drops = 0
  /\ keyChanges = 0

-----------------------------------------------------------------------------
(* ssh_connect.                                                            *)

\* Mutant of Trusted: the reconnect does not look at the host key.
TrustAnyKey(c) == TRUE

\* HostKeyStore::check: the first fingerprint is remembered, another rejected.
Trusted(c) == known[c] \in {NoKey, serverKey}

\* The calls are numbered in the order they are made.
StartConnect(c, id) ==
  /\ call[c] = "none"
  /\ \A d \in Conns : d < c => call[d] # "none"
  /\ call' = [call EXCEPT ![c] = "dialing"]
  /\ idOf' = [idOf EXCEPT ![c] = id]
  /\ UNCHANGED <<result, connections, supVars, worldVars, aborted, alive,
                 known>>

\* connect_and_auth succeeds: a fresh store accepts any key.
ConnectSucceeds(c) ==
  /\ call[c] = "dialing"
  /\ Trusted(c)
  /\ known' = [known EXCEPT ![c] = serverKey]
  /\ sessionKey' = [sessionKey EXCEPT ![c] = serverKey]
  /\ session' = [session EXCEPT ![c] = 1]
  /\ alive' = [alive EXCEPT ![c] = TRUE]
  /\ call' = [call EXCEPT ![c] = "binding"]
  /\ UNCHANGED <<idOf, result, connections, sup, attempt, status, opener, dials,
                 rejected, worldVars, aborted>>

\* The connection, the authentication or the bind of the broker fails: the
\* session, if there is one, goes with the call.
ConnectFails(c) ==
  /\ call[c] \in {"dialing", "binding"}
  /\ call' = [call EXCEPT ![c] = "failed"]
  /\ alive' = [alive EXCEPT ![c] = FALSE]
  /\ UNCHANGED <<idOf, result, connections, supVars, worldVars, aborted, known>>

\* Mutant of AbortOf: SshConnection has no Drop.
AbortNone(c) == aborted

\* Dropping a connection that leaves the map aborts its supervisor.
AbortOf(c) == [d \in Conns |-> aborted[d] \/ d = c]

\* The broker is bound on the session, the supervisor spawned, and the
\* connection takes the place of whatever the map held under the id.
Establish(c) ==
  /\ call[c] = "binding"
  /\ opener' = [opener EXCEPT ![c] = session[c]]
  /\ sup' = [sup EXCEPT ![c] = "watch"]
  /\ status' = [status EXCEPT ![c] = Connected]
  /\ attempt' = [attempt EXCEPT ![c] = 0]
  /\ aborted' = AbortOf(connections[idOf[c]])
  /\ connections' = [connections EXCEPT ![idOf[c]] = c]
  /\ call' = [call EXCEPT ![c] = "reading"]
  /\ UNCHANGED <<idOf, result, session, sessionKey, dials, rejected,
                 worldVars, alive, known>>

\* Back in ssh_connect: the url is this connection's, the port beside it is
\* looked up under the id.
ReturnConnect(c) ==
  /\ call[c] = "reading"
  /\ IF connections[idOf[c]] = 0
     THEN /\ call' = [call EXCEPT ![c] = "failed"]
          /\ UNCHANGED result
     ELSE /\ call' = [call EXCEPT ![c] = "returned"]
          /\ result' = [result EXCEPT ![c] = [url |-> c, port |-> connections[idOf[c]]]]
  /\ UNCHANGED <<idOf, connections, supVars, worldVars, aborted, alive, known>>

\* ssh_disconnect; for an id without a connection it only returns an error.
Disconnect(id) ==
  /\ connections[id] # 0
  /\ aborted' = AbortOf(connections[id])
  /\ connections' = [connections EXCEPT ![id] = 0]
  /\ UNCHANGED <<call, idOf, result, supVars, worldVars, alive, known>>

-----------------------------------------------------------------------------
(* The supervisor task.  An abort takes effect where the task awaits.      *)

Runs(c, at) == sup[c] = at
Awaits(c, at) == sup[c] = at /\ ~aborted[c]

\* advance_attempt: one more attempt, or give up.  publish() shows the outcome.
AdvanceAttempt(c) ==
  LET n == attempt[c] + 1 IN
  /\ attempt' = [attempt EXCEPT ![c] = n]
  /\ IF n > MaxAttempts
     THEN /\ status' = [status EXCEPT ![c] = Failed]
          /\ sup' = [sup EXCEPT ![c] = "stopped"]
     ELSE /\ status' = [status EXCEPT ![c] = Reconnecting(n)]
          /\ sup' = [sup EXCEPT ![c] = "backoff"]

\* The poll finds the session closed.
NoticeDrop(c) ==
  /\ Awaits(c, "watch")
  /\ ~alive[c]
  /\ AdvanceAttempt(c)
  /\ dials' = [dials EXCEPT ![c] = 0]
  /\ rejected' = [rejected EXCEPT ![c] = FALSE]
  /\ UNCHANGED <<callVars, session, opener, sessionKey, worldVars, aborted,
                 alive, known>>

BackoffOver(c) ==
  /\ Awaits(c, "backoff")
  /\ sup' = [sup EXCEPT ![c] = "dialing"]
  /\ dials' = [dials EXCEPT ![c] = @ + 1]
  /\ UNCHANGED <<callVars, attempt, status, session, opener, sessionKey,
                 rejected, worldVars, aborted, alive, known>>

\* The attempt fails: no route, a changed host key, or credentials the server
\* rejects.  The three are one Err to the supervisor, which retries them alike:
\* nothing calls record_fatal.
DialFails(c) ==
  /\ Awaits(c, "dialing")
  /\ AdvanceAttempt(c)
  /\ \E byAuth \in BOOLEAN : rejected' = [rejected EXCEPT ![c] = @ \/ byAuth]
  /\ UNCHANGED <<callVars, session, opener, sessionKey, dials, worldVars,
                 aborted, alive, known>>

\* Mutant of DialSucceeds: the status is published before the opener is swapped.
PublishBeforeSwap(c) ==
  /\ Awaits(c, "dialing")
  /\ Trusted(c)
  /\ session' = [session EXCEPT ![c] = @ + 1]
  /\ sessionKey' = [sessionKey EXCEPT ![c] = serverKey]
  /\ alive' = [alive EXCEPT ![c] = TRUE]
  /\ status' = [status EXCEPT ![c] = Connected]
  /\ sup' = [sup EXCEPT ![c] = "swap"]
  /\ UNCHANGED <<callVars, attempt, opener, dials, rejected, worldVars, aborted,
                 known>>

\* The attempt succeeds; the task holds a new session from here on.
DialSucceeds(c) ==
  /\ Awaits(c, "dialing")
  /\ Trusted(c)
  /\ session' = [session EXCEPT ![c] = @ + 1]
  /\ sessionKey' = [sessionKey EXCEPT ![c] = serverKey]
  /\ alive' = [alive EXCEPT ![c] = TRUE]
  /\ sup' = [sup EXCEPT ![c] = "swap"]
  /\ UNCHANGED <<callVars, attempt, status, opener, dials, rejected, worldVars,
                 aborted, known>>

\* Between the dial and the next sleep nothing is awaited: two steps that an
\* abort cannot stop.
SwapOpener(c) ==
  /\ Runs(c, "swap")
  /\ opener' = [opener EXCEPT ![c] = session[c]]
  /\ sup' = [sup EXCEPT ![c] = "publish"]
  /\ UNCHANGED <<callVars, attempt, status, session, sessionKey, dials,
                 rejected, worldVars, aborted, alive, known>>

\* Mutant of PublishConnected: nothing is published.
PublishForgotten(c) ==
  /\ Runs(c, "publish")
  /\ attempt' = [attempt EXCEPT ![c] = 0]
  /\ sup' = [sup EXCEPT ![c] = "watch"]
  /\ UNCHANGED <<callVars, status, session, opener, sessionKey, dials,
                 rejected, worldVars, aborted, alive, known>>

PublishConnected(c) ==
  /\ Runs(c, "publish")
  /\ attempt' = [attempt EXCEPT ![c] = 0]
  /\ status' = [status EXCEPT ![c] = Connected]
  /\ sup' = [sup EXCEPT ![c] = "watch"]
  /\ UNCHANGED <<callVars, session, opener, sessionKey, dials, rejected,
                 worldVars, aborted, alive, known>>

\* The runtime drops an aborted task at an await, and with it the session and
\* the broker.  (Tunnels already open keep the transport; they are not modelled.)
TaskAborted(c) ==
  /\ aborted[c]
  /\ sup[c] \in {"watch", "backoff", "dialing"}
  /\ sup' = [sup EXCEPT ![c] = "stopped"]
  /\ alive' = [alive EXCEPT ![c] = FALSE]
  /\ UNCHANGED <<callVars, attempt, status, session, opener, sessionKey, dials,
                 rejected, worldVars, aborted, known>>

Supervise(c) == \/ NoticeDrop(c) \/ BackoffOver(c) \/ DialSucceeds(c)
                \/ DialFails(c)
                \/ SwapOpener(c) \/ PublishConnected(c) \/ TaskAborted(c)

-----------------------------------------------------------------------------
(* The network and the server.                                             *)

SessionDrops(c) ==
  /\ alive[c]
  /\ drops < MaxDrops
  /\ alive' = [alive EXCEPT ![c] = FALSE]
  /\ drops' = drops + 1
  /\ UNCHANGED <<callVars, supVars, serverKey, keyChanges, aborted, known>>

ServerKeyChanges(k) ==
  /\ k # serverKey
  /\ keyChanges < MaxKeyChanges
  /\ serverKey' = k
  /\ keyChanges' = keyChanges + 1
  /\ UNCHANGED <<callVars, supVars, drops, aborted, alive, known>>

Next ==
  \/ \E c \in Conns : \/ \E id \in Ids : StartConnect(c, id)
                      \/ ConnectSucceeds(c) \/ ConnectFails(c)
                      \/ Establish(c) \/ ReturnConnect(c)
                      \/ Supervise(c) \/ SessionDrops(c)
  \/ \E id \in Ids : Disconnect(id)
  \/ \E k \in HostKeys : ServerKeyChanges(k)

Spec == Init /\ [][Next]_vars

\* The runtime polls every supervisor, and a timer fires.  That a dial returns is
\* not assumed: connect_and_auth runs under russh's default configuration, which
\* has no timeout, and nothing puts one around it.
Fairness ==
  \A c \in Conns :
    /\ WF_vars(NoticeDrop(c)) /\ WF_vars(BackoffOver(c))
    /\ WF_vars(SwapOpener(c)) /\ WF_vars(PublishConnected(c))
    /\ WF_vars(TaskAborted(c))

FairSpec == Spec /\ Fairness

-----------------------------------------------------------------------------
(* Properties.                                                             *)

\* Every variable has its type.
TypeOK ==
  /\ call \in [Conns -> Calls]
  /\ idOf \in [Conns -> Ids \cup {NoId}]
  /\ result \in [Conns -> [url : 0..MaxCalls, port : 0..MaxCalls]]
  /\ connections \in [Ids -> 0..MaxCalls]
  /\ sup \in [Conns -> SupStates]
  /\ aborted \in [Conns -> BOOLEAN]
  /\ attempt \in [Conns -> 0..(MaxAttempts + 1)]
  /\ status \in [Conns -> {Connected, Failed} \cup {Reconnecting(n) : n \in 1..MaxAttempts}]
  /\ session \in [Conns -> Nat]
  /\ alive \in [Conns -> BOOLEAN]
  /\ opener \in [Conns -> Nat]
  /\ known \in [Conns -> HostKeys \cup {NoKey}]
  /\ sessionKey \in [Conns -> HostKeys \cup {NoKey}]
  /\ dials \in [Conns -> 0..MaxAttempts]
  /\ rejected \in [Conns -> BOOLEAN]
  /\ serverKey \in HostKeys
  /\ drops \in 0..MaxDrops
  /\ keyChanges \in 0..MaxKeyChanges

Supervised(c) == sup[c] \notin {"none", "stopped"} /\ ~aborted[c]

\* The map and the tasks agree: a supervisor that nobody has aborted belongs to
\* the connection its id names, and a connection in the map is supervised
\* unless it has given up.  Whatever the order in which two connects and a
\* disconnect of one id finish, none leaves a task behind that still redials.
OneSupervisorPerId ==
  /\ \A c \in Conns : Supervised(c) => connections[idOf[c]] = c
  /\ \A id \in Ids : connections[id] # 0 =>
       (Supervised(connections[id]) \/ status[connections[id]] = Failed)

\* What the frontend is told of a connection holds of its proxy: while the
\* status says connected, the broker opens channels on the session the
\* supervisor watches, never on the one that dropped.
ConnectedUsesCurrentSession ==
  \A c \in Conns :
    (sup[c] # "none" /\ status[c] = Connected) => opener[c] = session[c]

\* The retries are counted right: the attempt shown is the one being made or
\* waited for, and a connection whose credentials the server accepts fails after
\* exactly MaxAttempts tries.  Nothing is said of rejected ones: they are tried as
\* often, where reconnect.rs wants them to fail at once.
AttemptsCounted ==
  \A c \in Conns :
    /\ sup[c] = "backoff" => status[c] = Reconnecting(dials[c] + 1)
    /\ sup[c] = "dialing" => status[c] = Reconnecting(dials[c])
    /\ (status[c] = Failed /\ ~rejected[c]) => dials[c] = MaxAttempts

\* host_key.rs: a reconnect never skips the host key check.  Every session of a
\* connection was made under the fingerprint its first one presented.
ReconnectKeepsHostKey ==
  \A c \in Conns : session[c] > 0 => sessionKey[c] = known[c]

\* Who supervises a connection and what it counts are right together: one live
\* task for an id, the attempt shown is the one under way.
SupervisionSound == TypeOK /\ OneSupervisorPerId /\ AttemptsCounted

\* A drop is resolved: the connection comes back, or the frontend is told it
\* failed, or somebody took it out of the map.  A dial that never returns leaves
\* the connection reconnecting for ever, so the promise is made of a connection
\* whose dials return.
DropResolved ==
  \A c \in Conns :
    []<>(sup[c] # "dialing") =>
      ((Supervised(c) /\ ~alive[c])
         ~> (status[c] = Connected /\ alive[c]) \/ status[c] = Failed \/ aborted[c])
=============================================================================
