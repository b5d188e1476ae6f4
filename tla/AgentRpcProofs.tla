---------------------------- MODULE AgentRpcProofs ----------------------------
(* What the agent RPC guarantees for any launches of the app, any shells and   *)
(* any number of weft commands, restarts, crashes and second instances.        *)
EXTENDS AgentRpc, SequenceTheorems, TLAPS

Tokens == {Secret[a] : a \in Apps}

\* The token of an app has reached the file by these points of its start.
Wrote == {"persisted", "cleared", "bound", "announcing", "serving"}

ServerStep(a) ==
  \/ Launch(a) \/ OpenTokenFile(a) \/ WriteToken(a) \/ RemoveStale(a) \/ Bind(a)
  \/ OpenEndpointFile(a) \/ WriteEndpoint(a) \/ LoseTransport(a) \/ End(a)

ClientStep(c) ==
  \/ \E kind \in Tries : ReadToken(c, kind)
  \/ ReadEndpoint(c) \/ Connect(c) \/ ReadReply(c) \/ HangUp(c)
  \/ \E a \in Apps : Accept(a, c) \/ HandleConnection(a, c)

\* A step is one of an app, which leaves the commands alone, or one of a command,
\* which leaves the apps and their files alone.
LEMMA StepCases ==
  ASSUME [Next]_vars
  PROVE  \/ \E a \in Apps : ServerStep(a) /\ UNCHANGED <<platform, cli>>
         \/ \E c \in Clients : ClientStep(c) /\ ServerUnchanged
         \/ UNCHANGED vars
<1>1. ASSUME NEW a \in Apps, ServerStep(a)
      PROVE  UNCHANGED <<platform, cli>>
  BY <1>1 DEF ServerStep, Launch, OpenTokenFile, WriteToken, RemoveStale, Bind,
              OpenEndpointFile, WriteEndpoint, LoseTransport, End
<1>2. ASSUME NEW c \in Clients, ClientStep(c)
      PROVE  ServerUnchanged
  BY <1>2 DEF ClientStep, ReadToken, ReadEndpoint, Connect, ReadReply, HangUp,
              Accept, HandleConnection
<1>3. ASSUME NEW a \in Apps,
             Launch(a) \/ StartStep(a) \/ LoseTransport(a) \/ End(a)
      PROVE  ServerStep(a)
  BY <1>3 DEF StartStep, ServerStep
<1>4. ASSUME NEW a \in Apps, ServeStep(a)
      PROVE  \E c \in Clients : ClientStep(c)
  BY <1>4 DEF ServeStep, ClientStep
<1>5. ASSUME NEW c \in Clients,
             CallStep(c) \/ \E kind \in Tries : ReadToken(c, kind)
      PROVE  ClientStep(c)
  BY <1>5 DEF CallStep, ClientStep
<1> QED
  BY <1>1, <1>2, <1>3, <1>4, <1>5 DEF Next

-----------------------------------------------------------------------------
(* The comparison of tokens.                                               *)

LEMMA TokenType ==
  ASSUME NEW t \in Tokens
  PROVE  t \in Seq(Bytes) /\ Len(t) \in 1..255
  BY SecretAssumption DEF Tokens

\* constant_time_eq compares lengths by their low byte and pads the shorter text
\* with zeros: for texts under 256 bytes without a zero byte that is equality.
LEMMA ComparisonIsEquality ==
  ASSUME NEW s \in Tokens, NEW t \in Tokens \cup {Empty}
  PROVE  ConstantTimeEq(s, t) <=> s = t
<1>1. s \in Seq(Bytes) /\ Len(s) \in 1..255
  BY TokenType
<1>2. t \in Seq(Bytes) /\ Len(t) \in 0..255
  <2>1. CASE t = <<>>
    BY <2>1
  <2>2. CASE t \in Tokens
    BY <2>2, TokenType
  <2> QED
    BY <2>1, <2>2 DEF Empty
<1>3. ASSUME ConstantTimeEq(s, t) PROVE s = t
  <2>1. Len(s) = Len(t)
    <3>1. Len(s) % 256 = Len(t) % 256
      BY <1>3 DEF ConstantTimeEq
    <3>2. \A n \in 0..255 : n % 256 = n
      OBVIOUS
    <3>3. Len(s) \in 0..255 /\ Len(t) \in 0..255
      BY <1>1, <1>2
    <3>4. Len(s) % 256 = Len(s) /\ Len(t) % 256 = Len(t)
      BY <3>2, <3>3, Zenon
    <3> QED
      BY <3>1, <3>4
  <2>2. \A i \in 1..Len(s) : s[i] = t[i]
    BY <1>3, <2>1 DEF ConstantTimeEq, ByteAt
  <2> QED
    BY <1>1, <1>2, <2>1, <2>2, SeqEqual
<1>4. ASSUME s = t PROVE ConstantTimeEq(s, t)
  BY <1>4 DEF ConstantTimeEq
<1> QED
  BY <1>3, <1>4

-----------------------------------------------------------------------------
(* Typing.                                                                 *)

Call ==
  [pc : {"idle", "endpoint", "connect", "sent", "accepted", "answered"},
   kind : Kinds \cup {"none"},
   token : {Empty} \cup Tokens,
   endpoint : {Missing, Nobody} \cup Addresses,
   peer : Apps \cup {Nobody},
   reply : Replies \cup {"none", "transport"},
   seen : SUBSET Apps]

ServerTyped ==
  /\ platform \in {"unix", "windows"}
  /\ app \in [Apps -> Starting \cup {"off", "serving", "failed", "ended"}]
  /\ tokenFile \in {Missing, Empty} \cup Tokens
  /\ endpointFile \in {Missing, Nobody} \cup Addresses
  /\ listener \in [Addresses -> Apps \cup {Nobody, Dead}]
  /\ overlapped \subseteq Apps

ClientsTyped == cli \in [Clients -> Call]

LEMMA TypesAreTypeOK == TypeOK <=> ServerTyped /\ ClientsTyped
  BY DEF TypeOK, ServerTyped, ClientsTyped, Call, Tokens

LEMMA InitTyped ==
  ASSUME Init
  PROVE  ServerTyped /\ ClientsTyped
  BY DEF Init, ServerTyped, ClientsTyped, Call, NoCall

LEMMA EndpointType ==
  ASSUME NEW a \in Apps
  PROVE  Endpoint(a) \in Addresses
  BY DEF Endpoint, Addresses

LEMMA ServerTypeStep ==
  ASSUME ServerTyped, NEW a \in Apps, ServerStep(a), UNCHANGED platform
  PROVE  ServerTyped'
<1>0. Endpoint(a) \in Addresses
  BY EndpointType
<1>1. CASE Launch(a)
  BY <1>1 DEF Launch, At, ServerTyped, Starting, diskVars
<1>2. CASE OpenTokenFile(a)
  BY <1>2 DEF OpenTokenFile, At, ServerTyped, Starting
<1>3. CASE WriteToken(a)
  BY <1>3 DEF WriteToken, At, ServerTyped, Starting, Tokens
<1>4. CASE RemoveStale(a)
  BY <1>4 DEF RemoveStale, At, ServerTyped, Starting
<1>5. CASE Bind(a)
  BY <1>0, <1>5 DEF Bind, At, ServerTyped, Starting
<1>6. CASE OpenEndpointFile(a)
  BY <1>6 DEF OpenEndpointFile, At, ServerTyped, Starting
<1>7. CASE WriteEndpoint(a)
  BY <1>0, <1>7 DEF WriteEndpoint, At, ServerTyped, Starting
<1>8. CASE LoseTransport(a)
  BY <1>0, <1>8 DEF LoseTransport, Unlinked, ServerTyped
<1>9. CASE End(a)
  BY <1>0, <1>9 DEF End, Unlinked, Abandoned, ServerTyped
<1> QED
  BY <1>1, <1>2, <1>3, <1>4, <1>5, <1>6, <1>7, <1>8, <1>9 DEF ServerStep

LEMMA ReplyType ==
  ASSUME NEW a \in Apps, NEW c \in Clients
  PROVE  ProcessRequest(a, c) \in Replies
  BY DEF ProcessRequest, Dispatch, PendingAutomation, StubHandlers, Replies

LEMMA ExitType ==
  ASSUME ClientsTyped, NEW c \in Clients,
         NEW reply \in Replies \cup {"none", "transport"}, Exit(c, reply)
  PROVE  ClientsTyped'
<1>1. cli[c] \in Call
  BY DEF ClientsTyped
<1>2. [cli[c] EXCEPT !.pc = "idle", !.reply = reply] \in Call
  BY <1>1 DEF Call
<1> QED
  BY <1>2 DEF Exit, ClientsTyped

LEMMA ClientTypeStep ==
  ASSUME ServerTyped, ClientsTyped, NEW c \in Clients, ClientStep(c)
  PROVE  ClientsTyped'
<1>0. cli[c] \in Call
  BY DEF ClientsTyped
<1>1. ASSUME NEW kind \in Tries, ReadToken(c, kind)
      PROVE  ClientsTyped'
  <2>1. kind \in Kinds
    BY TriesAssumption
  <2>2. Persisted \in SUBSET Apps
    BY DEF Persisted
  <2>3. CASE tokenFile = Missing
    BY <1>1, <2>3, ExitType DEF ReadToken
  <2>4. CASE tokenFile # Missing
    <3>1. tokenFile \in {Empty} \cup Tokens
      BY <2>4 DEF ServerTyped
    <3>2. [NoCall EXCEPT !.pc = "endpoint", !.kind = kind, !.token = tokenFile,
                         !.seen = Persisted] \in Call
      BY <2>1, <2>2, <3>1 DEF NoCall, Call
    <3> QED
      BY <1>1, <2>4, <3>2 DEF ReadToken, ClientsTyped
  <2> QED
    BY <2>3, <2>4
<1>2. CASE ReadEndpoint(c)
  <2>1. CASE endpointFile = Missing
    BY <1>2, <2>1, ExitType DEF ReadEndpoint
  <2>2. CASE endpointFile # Missing
    <3>1. endpointFile \in {Missing, Nobody} \cup Addresses
      BY DEF ServerTyped
    <3> QED
      BY <1>0, <1>2, <2>2, <3>1 DEF ReadEndpoint, ClientsTyped, Call
  <2> QED
    BY <2>1, <2>2
<1>3. CASE Connect(c)
  <2>1. CASE Reached(c) \in Apps /\ FrameFits(cli[c].kind)
    BY <1>0, <1>3, <2>1 DEF Connect, ClientsTyped, Call
  <2>2. CASE ~(Reached(c) \in Apps /\ FrameFits(cli[c].kind))
    BY <1>3, <2>2, ExitType DEF Connect
  <2> QED
    BY <2>1, <2>2
<1>4. CASE ReadReply(c)
  <2>1. cli[c].reply \in Replies \cup {"none", "transport"}
    BY <1>0 DEF Call
  <2> QED
    BY <1>4, <2>1, ExitType DEF ReadReply
<1>5. CASE HangUp(c)
  BY <1>5, ExitType DEF HangUp
<1>6. ASSUME NEW a \in Apps, Accept(a, c)
      PROVE  ClientsTyped'
  BY <1>0, <1>6 DEF Accept, ClientsTyped, Call
<1>7. ASSUME NEW a \in Apps, HandleConnection(a, c)
      PROVE  ClientsTyped'
  BY <1>0, <1>7, ReplyType DEF HandleConnection, ClientsTyped, Call
<1> QED
  BY <1>1, <1>2, <1>3, <1>4, <1>5, <1>6, <1>7 DEF ClientStep

LEMMA TypesStep ==
  ASSUME ServerTyped, ClientsTyped, [Next]_vars
  PROVE  ServerTyped' /\ ClientsTyped'
<1>1. ASSUME NEW a \in Apps, ServerStep(a), UNCHANGED <<platform, cli>>
      PROVE  ServerTyped' /\ ClientsTyped'
  BY <1>1, ServerTypeStep DEF ClientsTyped
<1>2. ASSUME NEW c \in Clients, ClientStep(c), ServerUnchanged
      PROVE  ServerTyped' /\ ClientsTyped'
  BY <1>2, ClientTypeStep DEF ServerUnchanged, diskVars, ServerTyped
<1>3. CASE UNCHANGED vars
  BY <1>3 DEF vars, diskVars, ServerTyped, ClientsTyped
<1> QED
  BY <1>1, <1>2, <1>3, StepCases

-----------------------------------------------------------------------------
(* What the files and the listeners say.                                   *)

\* Who listens at an address bound it and has not given it up.
ListenerInv ==
  \A x \in Addresses :
    listener[x] \in Apps => HasListener(listener[x]) /\ Endpoint(listener[x]) = x

\* An app that was never alive together with another one is alone while it lives.
AloneInv ==
  \A a \in Apps \ overlapped : Alive(a) =>
    \A b \in Apps \ {a} : ~Alive(b)

\* What such an app has written stays as it wrote it.
FilesInv ==
  \A a \in Apps \ overlapped :
    /\ app[a] \in Wrote => tokenFile = Secret[a]
    /\ HasListener(a) => listener[Endpoint(a)] = a
    /\ app[a] = "serving" => endpointFile = Endpoint(a)

LEMMA NotAnApp == Nobody \notin Apps /\ Dead \notin Apps
  BY AppsAssumption

\* The step of one app does not move another one.
LEMMA OthersStand ==
  ASSUME ServerTyped, NEW a \in Apps, ServerStep(a)
  PROVE  \A b \in Apps \ {a} : app'[b] = app[b]
<1>1. \A there : At(a, app[a], there) => app' = [app EXCEPT ![a] = there]
  BY DEF At
<1>2. \E there : app' = [app EXCEPT ![a] = there]
  BY DEF ServerStep, Launch, OpenTokenFile, WriteToken, RemoveStale, Bind,
         OpenEndpointFile, WriteEndpoint, LoseTransport, End, At
<1> QED
  BY <1>2 DEF ServerTyped

LEMMA ListenerStep ==
  ASSUME ServerTyped, ListenerInv, NEW a \in Apps, ServerStep(a),
         UNCHANGED platform
  PROVE  ListenerInv'
<1>0. \A b \in Apps : Endpoint(b)' = Endpoint(b) /\ Endpoint(b) \in Addresses
  BY EndpointType DEF Endpoint
<1>a. \A b \in Apps \ {a} : HasListener(b) => HasListener(b)'
  BY OthersStand DEF HasListener
<1>1. CASE HasListener(a) /\ HasListener(a)' /\ UNCHANGED listener
  BY <1>0, <1>a, <1>1 DEF ListenerInv
<1>2. CASE ~HasListener(a) /\ UNCHANGED listener
  BY <1>0, <1>a, <1>2 DEF ListenerInv
<1>3. CASE RemoveStale(a)
  <2>1. listener' = [listener EXCEPT ![Sock] = Nobody] /\ ~HasListener(a)
    BY <1>3 DEF RemoveStale, At, HasListener
  <2> QED
    BY <1>0, <1>a, <2>1, NotAnApp DEF ListenerInv, ServerTyped
<1>4. CASE Bind(a)
  <2>1. listener' = [listener EXCEPT ![Endpoint(a)] = a]
    BY <1>4 DEF Bind
  <2>2. ~HasListener(a) /\ HasListener(a)'
    BY <1>4 DEF Bind, At, HasListener, ServerTyped
  <2> QED
    BY <1>0, <1>a, <2>1, <2>2 DEF ListenerInv, ServerTyped
<1>5. CASE LoseTransport(a) \/ End(a)
  <2>1. listener' \in {Unlinked(a), Abandoned(a)}
    BY <1>5 DEF LoseTransport, End
  <2>2. listener'[Endpoint(a)] # a \/ ~HasListener(a)
    BY <1>0, <2>1, NotAnApp DEF Unlinked, Abandoned, ServerTyped
  <2>3. \A x \in Addresses : listener'[x] \in Apps => listener'[x] = listener[x]
    BY <1>0, <2>1, NotAnApp DEF Unlinked, Abandoned, ServerTyped
  <2>4. \A x \in Addresses : listener'[x] # a
    BY <2>2, <2>3 DEF ListenerInv
  <2> QED
    BY <1>0, <1>a, <2>3, <2>4 DEF ListenerInv
<1>6. CASE Launch(a) \/ OpenTokenFile(a) \/ WriteToken(a)
  BY <1>2, <1>6 DEF Launch, OpenTokenFile, WriteToken, At, HasListener, diskVars
<1>7. CASE OpenEndpointFile(a) \/ WriteEndpoint(a)
  BY <1>1, <1>7 DEF OpenEndpointFile, WriteEndpoint, At, HasListener, ServerTyped
<1> QED
  BY <1>3, <1>4, <1>5, <1>6, <1>7 DEF ServerStep

LEMMA AloneStep ==
  ASSUME ServerTyped, AloneInv, NEW a \in Apps, ServerStep(a)
  PROVE  AloneInv'
<1>1. CASE Launch(a)
  <2>1. ~Alive(a) /\ overlapped \subseteq overlapped'
    BY <1>1 DEF Launch, At, Alive
  <2>2. (\E b \in Apps : Alive(b)) =>
          a \in overlapped' /\ \A b \in Apps : Alive(b) => b \in overlapped'
    BY <1>1 DEF Launch
  <2>3. \A b \in Apps \ {a} : Alive(b)' <=> Alive(b)
    BY OthersStand DEF Alive
  <2> QED
    BY <2>1, <2>2, <2>3 DEF AloneInv
<1>2. CASE ~Launch(a)
  <2>1. Alive(a) /\ UNCHANGED overlapped
    BY <1>2 DEF ServerStep, OpenTokenFile, WriteToken, RemoveStale, Bind,
       OpenEndpointFile, WriteEndpoint, LoseTransport, End, At, Alive, Starting
  <2>2. \A b \in Apps \ {a} : Alive(b)' <=> Alive(b)
    BY OthersStand DEF Alive
  <2> QED
    BY <2>1, <2>2 DEF AloneInv
<1> QED
  BY <1>1, <1>2

LEMMA FilesStep ==
  ASSUME ServerTyped, AloneInv, FilesInv, NEW a \in Apps, ServerStep(a),
         UNCHANGED platform
  PROVE  FilesInv'
<1>0. \A b \in Apps : Endpoint(b)' = Endpoint(b) /\ Endpoint(b) \in Addresses
  BY EndpointType DEF Endpoint
<1>1. CASE Launch(a)
  <2>1. UNCHANGED diskVars /\ overlapped \subseteq overlapped'
        /\ app'[a] = "launched"
    BY <1>1 DEF Launch, At, ServerTyped
  <2> QED
    BY <1>0, <2>1, OthersStand DEF FilesInv, diskVars, Wrote, HasListener
<1>2. CASE ~Launch(a)
  <2>1. Alive(a) /\ UNCHANGED overlapped
    BY <1>2 DEF ServerStep, OpenTokenFile, WriteToken, RemoveStale, Bind,
       OpenEndpointFile, WriteEndpoint, LoseTransport, End, At, Alive, Starting
  <2>2. \A b \in Apps \ overlapped :
          b # a => app'[b] \notin Wrote /\ ~HasListener(b)' /\ app'[b] # "serving"
    BY <2>1, OthersStand DEF AloneInv, Alive, Wrote, HasListener
  <2>3. CASE a \in overlapped
    BY <2>1, <2>2, <2>3 DEF FilesInv
  <2>4. CASE a \notin overlapped
    <3>1. CASE OpenTokenFile(a)
      <4>1. app'[a] = "opened"
        BY <3>1 DEF OpenTokenFile, At, ServerTyped
      <4> QED
        BY <2>1, <2>2, <4>1 DEF FilesInv, Wrote, HasListener
    <3>2. CASE WriteToken(a)
      <4>1. app'[a] = "persisted" /\ tokenFile' = Secret[a]
        BY <3>2 DEF WriteToken, At, ServerTyped
      <4> QED
        BY <2>1, <2>2, <4>1 DEF FilesInv, HasListener
    <3>3. CASE RemoveStale(a)
      <4>1. app[a] = "persisted" /\ app'[a] = "cleared" /\ tokenFile' = tokenFile
        BY <3>3 DEF RemoveStale, At, ServerTyped
      <4> QED
        BY <2>1, <2>2, <2>4, <4>1 DEF FilesInv, HasListener, Wrote
    <3>4. CASE Bind(a)
      <4>1. app[a] \in Wrote /\ app'[a] = "bound" /\ tokenFile' = tokenFile
            /\ listener'[Endpoint(a)] = a
        BY <1>0, <3>4 DEF Bind, At, ServerTyped, Wrote
      <4> QED
        BY <1>0, <2>1, <2>2, <2>4, <4>1 DEF FilesInv
    <3>5. CASE OpenEndpointFile(a)
      <4>1. app[a] = "bound" /\ app'[a] = "announcing"
            /\ UNCHANGED <<tokenFile, listener>>
        BY <3>5 DEF OpenEndpointFile, At, ServerTyped
      <4> QED
        BY <1>0, <2>1, <2>2, <2>4, <4>1 DEF FilesInv, HasListener, Wrote
    <3>6. CASE WriteEndpoint(a)
      <4>1. app[a] = "announcing" /\ app'[a] = "serving"
            /\ UNCHANGED <<tokenFile, listener>> /\ endpointFile' = Endpoint(a)
        BY <3>6 DEF WriteEndpoint, At, ServerTyped
      <4> QED
        BY <1>0, <2>1, <2>2, <2>4, <4>1 DEF FilesInv, HasListener, Wrote
    <3>7. CASE LoseTransport(a) \/ End(a)
      <4>1. app'[a] \in {"failed", "ended"}
        BY <3>7 DEF LoseTransport, End, ServerTyped
      <4> QED
        BY <2>1, <2>2, <4>1 DEF FilesInv, HasListener, Wrote
    <3> QED
      BY <1>2, <3>1, <3>2, <3>3, <3>4, <3>5, <3>6, <3>7 DEF ServerStep
  <2> QED
    BY <2>3, <2>4
<1> QED
  BY <1>1, <1>2

FilesAgree == ServerTyped /\ ListenerInv /\ AloneInv /\ FilesInv

LEMMA FilesAgreeInit ==
  ASSUME Init
  PROVE  FilesAgree
<1>1. ServerTyped
  BY InitTyped
<1>2. ListenerInv
  BY NotAnApp DEF Init, ListenerInv
<1>3. AloneInv /\ FilesInv
  BY DEF Init, AloneInv, FilesInv, Alive, HasListener, Wrote
<1> QED
  BY <1>1, <1>2, <1>3 DEF FilesAgree

LEMMA FilesAgreeStep ==
  ASSUME FilesAgree, ClientsTyped, [Next]_vars
  PROVE  FilesAgree'
<1>0. ServerTyped'
  BY TypesStep DEF FilesAgree
<1>1. ASSUME NEW a \in Apps, ServerStep(a), UNCHANGED <<platform, cli>>
      PROVE  FilesAgree'
  BY <1>0, <1>1, ListenerStep, AloneStep, FilesStep DEF FilesAgree
<1>2. CASE UNCHANGED <<platform, app, diskVars, overlapped>>
  BY <1>0, <1>2 DEF FilesAgree, ListenerInv, AloneInv, FilesInv, HasListener,
     Alive, Endpoint, diskVars
<1> QED
  BY <1>1, <1>2, StepCases DEF ServerUnchanged, vars, diskVars

\* Whatever earlier sessions left behind, and wherever they died, the token file,
\* the endpoint file and the path lead to the app that serves, unless it shared
\* its lifetime with another one (auth.rs persist,
\* commands.rs start_rpc_server).
THEOREM SoleSessionAlwaysReachable == Spec => []SoleSessionReachable
<1> DEFINE Inv == FilesAgree /\ ClientsTyped
<1>1. Init => Inv
  BY InitTyped, FilesAgreeInit
<1>2. Inv /\ [Next]_vars => Inv'
  BY FilesAgreeStep, TypesStep DEF FilesAgree
<1>3. Inv => SoleSessionReachable
  BY DEF FilesAgree, FilesInv, SoleSessionReachable, Wrote, HasListener
<1> QED
  BY <1>1, <1>2, <1>3, PTL DEF Spec

-----------------------------------------------------------------------------
(* Who is served and who is refused.                                       *)

\* What a command knows: the apps whose token was out when it read the file are
\* past that point, and the token it carries is theirs if they are alone.
Knows(c) ==
  /\ cli[c].pc \in {"endpoint", "connect", "sent", "accepted"}
       => cli[c].reply = "none"
  /\ \A a \in cli[c].seen : app[a] \notin {"off", "launched", "opened"}
  /\ \A a \in cli[c].seen \ overlapped :
       \/ app[a] \in Wrote
       \/ cli[c].pc \in {"sent", "accepted"} /\ cli[c].peer = a
       => cli[c].token = Secret[a]

CallInv == \A c \in Clients : Knows(c)

ReplyInv == OnlyOwnSession /\ UnauthorizedMeansRestart /\ WireInSync

\* An app whose token is out does not write it again.
LEMMA TokenStaysOut ==
  ASSUME ServerTyped, NEW a \in Apps, ServerStep(a),
         app[a] \notin {"off", "launched", "opened"}
  PROVE  /\ app'[a] \notin {"off", "launched", "opened"}
         /\ app'[a] \in Wrote => app[a] \in Wrote
<1>1. CASE RemoveStale(a) \/ Bind(a) \/ OpenEndpointFile(a) \/ WriteEndpoint(a)
  BY <1>1 DEF RemoveStale, Bind, OpenEndpointFile, WriteEndpoint, At, ServerTyped,
              Wrote
<1>2. CASE LoseTransport(a) \/ End(a)
  BY <1>2 DEF LoseTransport, End, ServerTyped, Wrote
<1> QED
  BY <1>1, <1>2 DEF ServerStep, Launch, OpenTokenFile, WriteToken, At

LEMMA OverlapGrows ==
  ASSUME NEW a \in Apps, ServerStep(a)
  PROVE  overlapped \subseteq overlapped'
  BY DEF ServerStep, Launch, OpenTokenFile, WriteToken, RemoveStale, Bind,
         OpenEndpointFile, WriteEndpoint, LoseTransport, End

LEMMA CallsUnderServerStep ==
  ASSUME ServerTyped, ClientsTyped, CallInv, ReplyInv, NEW a \in Apps,
         ServerStep(a), UNCHANGED <<platform, cli>>
  PROVE  CallInv' /\ ReplyInv'
<1>1. overlapped \subseteq overlapped'
  BY OverlapGrows
<1>2. \A c \in Clients : cli[c].seen \subseteq Apps
  BY DEF ClientsTyped, Call
<1>3. \A c \in Clients, b \in Apps : b \in cli[c].seen =>
        /\ app'[b] \notin {"off", "launched", "opened"}
        /\ app'[b] \in Wrote => app[b] \in Wrote
  BY TokenStaysOut, OthersStand DEF CallInv, Knows
<1>4. CallInv'
  BY <1>1, <1>2, <1>3 DEF CallInv, Knows
<1>5. ReplyInv'
  BY <1>1 DEF ReplyInv, OnlyOwnSession, UnauthorizedMeansRestart, WireInSync
<1> QED
  BY <1>4, <1>5

\* A command that ends says no more than it knew.
LEMMA CallsAfterExit ==
  ASSUME ClientsTyped, CallInv, ReplyInv, NEW c \in Clients, NEW reply,
         reply \in {"transport", cli[c].reply}, Exit(c, reply), ServerUnchanged
  PROVE  CallInv' /\ ReplyInv'
<1>1. /\ \A d \in Clients \ {c} : cli'[d] = cli[d]
      /\ cli'[c] = [cli[c] EXCEPT !.pc = "idle", !.reply = reply]
  BY DEF Exit, ClientsTyped
<1>2. /\ cli'[c].pc = "idle" /\ cli'[c].reply = reply
      /\ cli'[c].kind = cli[c].kind /\ cli'[c].token = cli[c].token
      /\ cli'[c].peer = cli[c].peer /\ cli'[c].seen = cli[c].seen
  BY <1>1 DEF ClientsTyped, Call
<1>3. UNCHANGED <<app, overlapped>>
  BY DEF ServerUnchanged
<1>4. ASSUME NEW d \in Clients, d # c
      PROVE  Knows(d)'
  BY <1>1, <1>3, <1>4 DEF CallInv, Knows
<1>5. Knows(c)'
  BY <1>2, <1>3 DEF CallInv, Knows
<1>6. ReplyInv'
  <2>1. OnlyOwnSession'
    <3> SUFFICES ASSUME NEW d \in Clients,
                        cli'[d].reply \in {"unavailable", "unimplemented"}
                 PROVE  cli'[d].token = Secret[cli'[d].peer]
      BY DEF OnlyOwnSession
    <3>1. cli'[d].reply = cli[d].reply
      BY <1>1, <1>2
    <3>2. cli'[d].token = cli[d].token /\ cli'[d].peer = cli[d].peer
      BY <1>1, <1>2
    <3> QED
      BY <3>1, <3>2 DEF ReplyInv, OnlyOwnSession
  <2>2. UnauthorizedMeansRestart'
    BY <1>1, <1>2, <1>3 DEF ReplyInv, UnauthorizedMeansRestart
  <2>3. WireInSync'
    BY <1>1, <1>2 DEF ReplyInv, WireInSync
  <2> QED
    BY <2>1, <2>2, <2>3 DEF ReplyInv
<1> QED
  BY <1>4, <1>5, <1>6 DEF CallInv

LEMMA CallsAfterReadToken ==
  ASSUME FilesAgree, ClientsTyped, CallInv, ReplyInv, NEW c \in Clients,
         NEW kind \in Tries, ReadToken(c, kind)
  PROVE  CallInv' /\ ReplyInv'
<1>0. ServerUnchanged /\ UNCHANGED <<app, overlapped>>
  BY DEF ReadToken, ServerUnchanged
<1>1. CASE tokenFile = Missing
  BY <1>0, <1>1, CallsAfterExit DEF ReadToken
<1>2. CASE tokenFile # Missing
  <2>1. /\ \A d \in Clients \ {c} : cli'[d] = cli[d]
        /\ cli'[c] = [NoCall EXCEPT !.pc = "endpoint", !.kind = kind,
                        !.token = tokenFile, !.seen = Persisted]
    BY <1>2 DEF ReadToken, ClientsTyped
  <2>2. /\ cli'[c].pc = "endpoint" /\ cli'[c].reply = "none"
        /\ cli'[c].token = tokenFile /\ cli'[c].seen = Persisted
    BY <2>1 DEF NoCall
  <2>3. \A a \in Persisted \ overlapped : app[a] \in Wrote => tokenFile = Secret[a]
    BY DEF FilesAgree, FilesInv, Persisted
  <2>4. CallInv'
    <3>1. ASSUME NEW d \in Clients, d # c
          PROVE  Knows(d)'
      BY <1>0, <2>1, <3>1 DEF CallInv, Knows
    <3>2. Knows(c)'
      BY <1>0, <2>2, <2>3 DEF Knows, Persisted
    <3> QED
      BY <3>1, <3>2 DEF CallInv
  <2>5. ReplyInv'
    BY <1>0, <2>1, <2>2
    DEF ReplyInv, OnlyOwnSession, UnauthorizedMeansRestart, WireInSync
  <2> QED
    BY <2>4, <2>5
<1> QED
  BY <1>1, <1>2

LEMMA CallsAfterConnect ==
  ASSUME FilesAgree, ClientsTyped, CallInv, ReplyInv, NEW c \in Clients, Connect(c)
  PROVE  CallInv' /\ ReplyInv'
<1>0. ServerUnchanged /\ UNCHANGED <<app, overlapped>>
  BY DEF Connect, ServerUnchanged
<1>1. CASE Reached(c) \in Apps /\ FrameFits(cli[c].kind)
  <2>1. /\ \A d \in Clients \ {c} : cli'[d] = cli[d]
        /\ cli'[c].pc = "sent" /\ cli'[c].peer = Reached(c)
        /\ cli'[c].reply = cli[c].reply /\ cli'[c].token = cli[c].token
        /\ cli'[c].seen = cli[c].seen /\ cli'[c].kind = cli[c].kind
    BY <1>1 DEF Connect, ClientsTyped, Call
  <2>2. cli[c].reply = "none"
    BY DEF Connect, CallInv, Knows
  <2>3. app[Reached(c)] \in Wrote
    BY <1>1, NotAnApp DEF Reached, FilesAgree, ListenerInv, HasListener, Wrote
  <2>4. CallInv'
    BY <1>0, <2>1, <2>2, <2>3 DEF CallInv, Knows
  <2>5. ReplyInv'
    BY <1>0, <2>1, <2>2
    DEF ReplyInv, OnlyOwnSession, UnauthorizedMeansRestart, WireInSync
  <2> QED
    BY <2>4, <2>5
<1>2. CASE ~(Reached(c) \in Apps /\ FrameFits(cli[c].kind))
  BY <1>0, <1>2, CallsAfterExit DEF Connect
<1> QED
  BY <1>1, <1>2

\* Every command that can be typed parses: weft's copy of the wire schema and the
\* server's agree.
LEMMA SchemasAgree ==
  ASSUME NEW kind \in Typed
  PROVE  Parses(kind)
  BY DEF Typed, Parses, Domain, Sent, Required

LEMMA CallsAfterHandle ==
  ASSUME FilesAgree, ClientsTyped, CallInv, ReplyInv, NEW c \in Clients,
         NEW a \in Apps, HandleConnection(a, c)
  PROVE  CallInv' /\ ReplyInv'
<1>0. UNCHANGED <<app, overlapped>>
  BY DEF HandleConnection, ServerUnchanged
<1>1. /\ \A d \in Clients \ {c} : cli'[d] = cli[d]
      /\ cli'[c].pc = "answered" /\ cli'[c].reply = ProcessRequest(a, c)
      /\ cli'[c].peer = cli[c].peer /\ cli'[c].token = cli[c].token
      /\ cli'[c].seen = cli[c].seen /\ cli'[c].kind = cli[c].kind
  BY DEF HandleConnection, ClientsTyped, Call
<1>2. cli[c].pc = "accepted" /\ cli[c].peer = a
  BY DEF HandleConnection
<1>3. Secret[a] \in Tokens /\ cli[c].token \in Tokens \cup {Empty}
  BY DEF ClientsTyped, Call, Tokens
<1>4. ConstantTimeEq(Secret[a], cli[c].token) <=> cli[c].token = Secret[a]
  BY <1>3, ComparisonIsEquality
<1>5. ProcessRequest(a, c) \in {"unavailable", "unimplemented"}
        => cli[c].token = Secret[a]
  BY <1>4 DEF ProcessRequest
<1>6. ProcessRequest(a, c) = "unauthorized" => cli[c].token # Secret[a]
  BY <1>4 DEF ProcessRequest, Dispatch, PendingAutomation, StubHandlers
<1>7. ProcessRequest(a, c) = "bad_request" => cli[c].kind \notin Typed
  BY SchemasAgree DEF ProcessRequest, Dispatch, PendingAutomation, StubHandlers
<1>8. CallInv'
  BY <1>0, <1>1 DEF CallInv, Knows
<1>9. ReplyInv'
  <2>1. OnlyOwnSession'
    BY <1>1, <1>2, <1>5 DEF ReplyInv, OnlyOwnSession
  <2>2. UnauthorizedMeansRestart'
    BY <1>0, <1>1, <1>2, <1>6 DEF ReplyInv, UnauthorizedMeansRestart, CallInv, Knows
  <2>3. WireInSync'
    BY <1>1, <1>7 DEF ReplyInv, WireInSync
  <2> QED
    BY <2>1, <2>2, <2>3 DEF ReplyInv
<1> QED
  BY <1>8, <1>9

LEMMA CallsUnderClientStep ==
  ASSUME FilesAgree, ClientsTyped, CallInv, ReplyInv, NEW c \in Clients,
         ClientStep(c)
  PROVE  CallInv' /\ ReplyInv'
<1>1. CASE \E kind \in Tries : ReadToken(c, kind)
  BY <1>1, CallsAfterReadToken
<1>2. CASE ReadEndpoint(c)
  <2>1. CASE endpointFile = Missing
    BY <1>2, <2>1, CallsAfterExit DEF ReadEndpoint
  <2>2. CASE endpointFile # Missing
    <3>1. /\ \A d \in Clients \ {c} : cli'[d] = cli[d]
          /\ cli'[c].pc = "connect"
          /\ cli'[c].reply = cli[c].reply /\ cli'[c].token = cli[c].token
          /\ cli'[c].seen = cli[c].seen /\ cli'[c].kind = cli[c].kind
          /\ cli'[c].peer = cli[c].peer
      BY <1>2, <2>2 DEF ReadEndpoint, ClientsTyped, Call
    <3>2. UNCHANGED <<app, overlapped>> /\ cli[c].pc = "endpoint"
      BY <1>2 DEF ReadEndpoint, ServerUnchanged
    <3>3. CallInv'
      BY <3>1, <3>2 DEF CallInv, Knows
    <3>4. ReplyInv'
      BY <3>1, <3>2
      DEF ReplyInv, OnlyOwnSession, UnauthorizedMeansRestart, WireInSync
    <3> QED
      BY <3>3, <3>4
  <2> QED
    BY <2>1, <2>2
<1>3. CASE Connect(c)
  BY <1>3, CallsAfterConnect
<1>4. CASE ReadReply(c)
  BY <1>4, CallsAfterExit DEF ReadReply
<1>5. CASE HangUp(c)
  BY <1>5, CallsAfterExit DEF HangUp
<1>6. ASSUME NEW a \in Apps, Accept(a, c)
      PROVE  CallInv' /\ ReplyInv'
  <2>1. /\ \A d \in Clients \ {c} : cli'[d] = cli[d]
        /\ cli'[c].pc = "accepted" /\ cli[c].pc = "sent"
        /\ cli'[c].reply = cli[c].reply /\ cli'[c].token = cli[c].token
        /\ cli'[c].seen = cli[c].seen /\ cli'[c].kind = cli[c].kind
        /\ cli'[c].peer = cli[c].peer
    BY <1>6 DEF Accept, ClientsTyped, Call
  <2>2. UNCHANGED <<app, overlapped>>
    BY <1>6 DEF Accept, ServerUnchanged
  <2>3. CallInv'
    BY <2>1, <2>2 DEF CallInv, Knows
  <2>4. ReplyInv'
    BY <2>1, <2>2
    DEF ReplyInv, OnlyOwnSession, UnauthorizedMeansRestart, WireInSync
  <2> QED
    BY <2>3, <2>4
<1>7. ASSUME NEW a \in Apps, HandleConnection(a, c)
      PROVE  CallInv' /\ ReplyInv'
  BY <1>7, CallsAfterHandle
<1> QED
  BY <1>1, <1>2, <1>3, <1>4, <1>5, <1>6, <1>7 DEF ClientStep

SessionInv == FilesAgree /\ ClientsTyped /\ CallInv /\ ReplyInv

LEMMA SessionInvAlways == Spec => []SessionInv
<1>1. Init => SessionInv
  <2>1. ASSUME Init PROVE CallInv /\ ReplyInv
    BY <2>1 DEF Init, NoCall, CallInv, Knows, ReplyInv, OnlyOwnSession,
       UnauthorizedMeansRestart, WireInSync
  <2> QED
    BY <2>1, InitTyped, FilesAgreeInit DEF SessionInv
<1>2. SessionInv /\ [Next]_vars => SessionInv'
  <2> SUFFICES ASSUME SessionInv, [Next]_vars PROVE SessionInv'
    OBVIOUS
  <2>0. FilesAgree' /\ ClientsTyped'
    BY FilesAgreeStep, TypesStep DEF SessionInv, FilesAgree
  <2>1. ASSUME NEW a \in Apps, ServerStep(a), UNCHANGED <<platform, cli>>
        PROVE  CallInv' /\ ReplyInv'
    BY <2>1, CallsUnderServerStep DEF SessionInv, FilesAgree
  <2>2. ASSUME NEW c \in Clients, ClientStep(c)
        PROVE  CallInv' /\ ReplyInv'
    BY <2>2, CallsUnderClientStep DEF SessionInv
  <2>3. ASSUME UNCHANGED vars
        PROVE  CallInv' /\ ReplyInv'
    <3>1. CallInv'
      BY <2>3 DEF vars, SessionInv, CallInv, Knows
    <3>2. ReplyInv'
      BY <2>3 DEF vars, SessionInv, ReplyInv, OnlyOwnSession,
         UnauthorizedMeansRestart, WireInSync
    <3> QED
      BY <3>1, <3>2
  <2> QED
    BY <2>0, <2>1, <2>2, <2>3, StepCases DEF SessionInv
<1> QED
  BY <1>1, <1>2, PTL DEF Spec

\* No command is handled under a token of another session, not even one read
\* between the truncation of the file and its write, and a command is refused
\* only for a cause: its app had not written its token when the command read it,
\* or shared its lifetime with another one (server.rs process_request, auth.rs
\* constant_time_eq, rpc_client.rs).
THEOREM SessionsAlwaysSound == Spec => []SessionsSound
<1>1. SessionInv => SessionsSound
  BY TypesAreTypeOK DEF SessionInv, FilesAgree, ReplyInv, SessionsSound
<1> QED
  BY <1>1, SessionInvAlways, PTL

\* What weft sends for a command that can be typed, the server can parse: their
\* two copies of the wire schema agree, whichever app the command reaches
\* (rpc_client.rs, protocol.rs).
THEOREM WireAlwaysInSync == Spec => []WireInSync
<1>1. SessionInv => WireInSync
  BY DEF SessionInv, ReplyInv
<1> QED
  BY <1>1, SessionInvAlways, PTL
=============================================================================
