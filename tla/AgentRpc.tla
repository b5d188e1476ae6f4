------------------------------- MODULE AgentRpc -------------------------------
(***************************************************************************)
(* The agent RPC server of src-tauri/src/agent_rpc and its client, the     *)
(* weft command of crates/weft-cli.                                        *)
(*                                                                         *)
(* Server and client meet through three things a crash does not erase: the *)
(* token file, the endpoint file and, on unix, the socket file.  Every     *)
(* launch of the app is one element of Apps: it issues its own token, runs *)
(* once and ends.  Nothing stops a second app from running beside the      *)
(* first.  The weft command reads the token, then the endpoint, then       *)
(* connects: an app may start or end between any two of these steps.       *)
(***************************************************************************)
EXTENDS Integers, Sequences

CONSTANTS
  Apps,     \* launches of the app
  Clients,  \* shells that run the weft command, any number of times
  Secret,   \* the token each launch generates, a sequence of bytes
  Nobody,   \* no app listens at a path
  Dead,     \* a socket file whose listener is gone
  Sock,     \* the one unix endpoint: <app data>/weft-rpc.sock
  Missing,  \* a file that does not exist
  Tries     \* bound: what the shells type

ASSUME AppsAssumption ==
  /\ {Nobody, Dead, Sock} \cap Apps = {} /\ Nobody # Dead /\ Missing # Sock
  /\ Missing \notin Apps

Bytes == 1..255
ASSUME SecretAssumption ==
  /\ Secret \in [Apps -> Seq(Bytes)]
  /\ \A a \in Apps : Len(Secret[a]) \in 1..255
  /\ \A a, b \in Apps : Secret[a] = Secret[b] => a = b

VARIABLES
  platform,      \* which of the two transports the build has
  app,           \* where each app stands in start_rpc_server and after
  tokenFile,     \* contents of weft-rpc-token
  endpointFile,  \* contents of weft-rpc-endpoint
  listener,      \* which app a connect to each address reaches
  cli,           \* the weft command each client runs
  overlapped     \* history: apps that were alive together with another one

vars == <<platform, app, tokenFile, endpointFile, listener, cli, overlapped>>
diskVars == <<tokenFile, endpointFile, listener>>

Starting == {"launched", "opened", "persisted", "cleared", "bound", "announcing"}
Alive(a) == app[a] \notin {"off", "ended"}
HasListener(a) == app[a] \in {"bound", "announcing", "serving"}

(* The unix endpoint is the same for every session, the pipe name is not.  *)
Endpoint(a) == IF platform = "unix" THEN Sock ELSE a
Addresses == Apps \cup {Sock}

(* An open that truncates leaves an empty file until the write.            *)
Empty == <<>>

(* constant_time_eq: the two lengths are compared by their low byte only,  *)
(* and the shorter text counts as padded with zero bytes.                  *)
ByteAt(s, i) == IF i \in 1..Len(s) THEN s[i] ELSE 0
ConstantTimeEq(s, t) ==
  /\ Len(s) % 256 = Len(t) % 256
  /\ \A i \in 1..Len(s) : ByteAt(s, i) = ByteAt(t, i)
  /\ \A i \in 1..Len(t) : ByteAt(s, i) = ByteAt(t, i)

(* What a shell can type, and the fields of the action object weft builds  *)
(* of it: the arguments clap requires.  wait may send two optional fields. *)
SentGetWithoutKind == [snapshot |-> {}, click |-> {"ref"}, fill |-> {"ref", "text"},
  eval |-> {"js"}, wait |-> {}, get |-> {"ref"}, find |-> {"query"}]
Sent == [snapshot |-> {}, click |-> {"ref"}, fill |-> {"ref", "text"},
         eval |-> {"js"}, wait |-> {}, get |-> {"ref", "kind"},
         find |-> {"query"}]
Typed == DOMAIN Sent \cup {"notify", "ssh"}

(* The server's own copy of the schema: the fields each op must carry.     *)
Required == [snapshot |-> {}, click |-> {"ref"}, fill |-> {"ref", "text"},
             eval |-> {"js"}, wait |-> {}, get |-> {"ref", "kind"},
             find |-> {"query"}]

(* Two more kinds of request: one whose frame is over MAX_FRAME_BYTES, and *)
(* one from a weft of another version, in a domain the server lacks.       *)
Kinds == Typed \cup {"oversize", "unknown"}
ASSUME TriesAssumption == Tries \subseteq Kinds

Domain(kind) == IF kind \in DOMAIN Sent THEN "browser" ELSE kind
Parses(kind) ==
  CASE Domain(kind) = "browser" -> kind \in DOMAIN Required
                                     /\ Required[kind] \subseteq Sent[kind]
    [] OTHER -> Domain(kind) \in {"notify", "ssh"}

(* write_frame refuses a payload over the limit before it sends a byte.    *)
FrameFits(kind) == kind # "oversize"

Replies == {"unauthorized", "bad_request", "unavailable", "unimplemented"}
NoCall == [pc |-> "idle", kind |-> "none", token |-> Empty, endpoint |-> Missing,
           peer |-> Nobody, reply |-> "none", seen |-> {}]

TypeOK ==
  /\ platform \in {"unix", "windows"}
  /\ app \in [Apps -> Starting \cup {"off", "serving", "failed", "ended"}]
  /\ tokenFile \in {Missing, Empty} \cup {Secret[a] : a \in Apps}
  /\ endpointFile \in {Missing, Nobody} \cup Addresses
  /\ listener \in [Addresses -> Apps \cup {Nobody, Dead}]
  /\ overlapped \subseteq Apps
  /\ cli \in [Clients ->
       [pc : {"idle", "endpoint", "connect", "sent", "accepted", "answered"},
        kind : Kinds \cup {"none"},
        token : {Empty} \cup {Secret[a] : a \in Apps},
        endpoint : {Missing, Nobody} \cup Addresses,
        peer : Apps \cup {Nobody},
        reply : Replies \cup {"none", "transport"},
        seen : SUBSET Apps]]

Init ==
  /\ platform \in {"unix", "windows"}
  /\ app = [a \in Apps |-> "off"]
  /\ tokenFile = Missing /\ endpointFile = Missing
  /\ listener = [x \in Addresses |-> Nobody]
  /\ cli = [c \in Clients |-> NoCall]
  /\ overlapped = {}

-----------------------------------------------------------------------------
(* The server: start_rpc_server, one file system call at a time.           *)

At(a, here, there) == app[a] = here /\ app' = [app EXCEPT ![a] = there]

Launch(a) ==
  /\ At(a, "off", "launched")
  /\ LET others == {b \in Apps : Alive(b)}
     IN overlapped' = IF others = {} THEN overlapped
                      ELSE overlapped \cup others \cup {a}
  /\ UNCHANGED <<platform, diskVars, cli>>

OpenTokenFile(a) ==
  /\ At(a, "launched", "opened")
  /\ tokenFile' = Empty
  /\ UNCHANGED <<platform, endpointFile, listener, cli, overlapped>>

WriteToken(a) ==
  /\ At(a, "opened", "persisted")
  /\ tokenFile' = Secret[a]
  /\ UNCHANGED <<platform, endpointFile, listener, cli, overlapped>>

(* UnixTransport::bind removes whatever is at the path, live or not.       *)
RemoveStale(a) ==
  /\ platform = "unix"
  /\ At(a, "persisted", "cleared")
  /\ listener' = [listener EXCEPT ![Sock] = Nobody]
  /\ UNCHANGED <<platform, tokenFile, endpointFile, cli, overlapped>>

Bind(a) ==
  /\ At(a, IF platform = "unix" THEN "cleared" ELSE "persisted", "bound")
  /\ listener[Endpoint(a)] = Nobody
  /\ listener' = [listener EXCEPT ![Endpoint(a)] = a]
  /\ UNCHANGED <<platform, tokenFile, endpointFile, cli, overlapped>>

(* Nobody stands for the empty text in the endpoint file.                  *)
OpenEndpointFileIfMissing(a) ==
  /\ At(a, "bound", IF endpointFile = Missing THEN "announcing" ELSE "serving")
  /\ endpointFile' = IF endpointFile = Missing THEN Nobody ELSE endpointFile
  /\ UNCHANGED <<platform, tokenFile, listener, cli, overlapped>>
OpenEndpointFile(a) ==
  /\ At(a, "bound", "announcing")
  /\ endpointFile' = Nobody
  /\ UNCHANGED <<platform, tokenFile, listener, cli, overlapped>>

WriteEndpoint(a) ==
  /\ At(a, "announcing", "serving")
  /\ endpointFile' = Endpoint(a)
  /\ UNCHANGED <<platform, tokenFile, listener, cli, overlapped>>

(* Dropping a UnixTransport removes the file at its path, whoever bound it. *)
Unlinked(a) ==
  [listener EXCEPT ![Endpoint(a)] = IF HasListener(a) THEN Nobody ELSE @]

(* Killed before the drop ran: the socket file stays and refuses.          *)
Abandoned(a) ==
  [listener EXCEPT ![Endpoint(a)] =
    IF @ # a THEN @ ELSE IF platform = "unix" THEN Dead ELSE Nobody]

(* A step of the start fails, or accept does: the app runs on without RPC. *)
LoseTransport(a) ==
  /\ app[a] \in Starting \cup {"serving"}
  /\ app' = [app EXCEPT ![a] = "failed"]
  /\ listener' = Unlinked(a)
  /\ UNCHANGED <<platform, tokenFile, endpointFile, cli, overlapped>>

End(a) ==
  /\ Alive(a)
  /\ app' = [app EXCEPT ![a] = "ended"]
  /\ listener' \in {Unlinked(a), Abandoned(a)}
  /\ UNCHANGED <<platform, tokenFile, endpointFile, cli, overlapped>>

StartStep(a) ==
  \/ OpenTokenFile(a) \/ WriteToken(a) \/ RemoveStale(a) \/ Bind(a)
  \/ OpenEndpointFile(a) \/ WriteEndpoint(a)
  \/ app[a] \in Starting /\ LoseTransport(a)

-----------------------------------------------------------------------------
(* The client: one run of the weft command.                                *)

ServerUnchanged == UNCHANGED <<platform, app, diskVars, overlapped>>
Exit(c, reply) ==
  cli' = [cli EXCEPT ![c] = [@ EXCEPT !.pc = "idle", !.reply = reply]]

(* The apps whose token has reached the file, for UnauthorizedMeansRestart. *)
Persisted == {a \in Apps : app[a] \notin {"off", "launched", "opened"}}

ReadToken(c, kind) ==
  /\ cli[c].pc = "idle"
  /\ IF tokenFile = Missing
       THEN Exit(c, "transport")
       ELSE cli' = [cli EXCEPT ![c] =
              [NoCall EXCEPT !.pc = "endpoint", !.kind = kind,
                             !.token = tokenFile, !.seen = Persisted]]
  /\ ServerUnchanged

ReadEndpoint(c) ==
  /\ cli[c].pc = "endpoint"
  /\ IF endpointFile = Missing
       THEN Exit(c, "transport")
       ELSE cli' = [cli EXCEPT ![c].pc = "connect", ![c].endpoint = endpointFile]
  /\ ServerUnchanged

(* transact: connect and write one frame.                                  *)
Reached(c) == IF cli[c].endpoint \in Addresses THEN listener[cli[c].endpoint]
              ELSE Nobody
Connect(c) ==
  /\ cli[c].pc = "connect"
  /\ IF Reached(c) \in Apps /\ FrameFits(cli[c].kind)
       THEN cli' = [cli EXCEPT ![c].pc = "sent", ![c].peer = Reached(c)]
       ELSE Exit(c, "transport")
  /\ ServerUnchanged

Accept(a, c) ==
  /\ app[a] = "serving"
  /\ cli[c].pc = "sent" /\ cli[c].peer = a
  /\ cli' = [cli EXCEPT ![c].pc = "accepted"]
  /\ ServerUnchanged

(* The dispatcher: every verb goes to the pending automation backend, the  *)
(* other domains to the default handlers.                                  *)
PendingAutomation(verb) == "unavailable"
StubHandlers(domain) == "unimplemented"
Dispatch(kind) ==
  IF Domain(kind) = "browser" THEN PendingAutomation(kind)
  ELSE StubHandlers(Domain(kind))

(* process_request: parse, then the token, and only then the dispatcher.   *)
ProcessUnchecked(a, c) ==
  IF ~Parses(cli[c].kind) THEN "bad_request" ELSE Dispatch(cli[c].kind)
ProcessRequest(a, c) ==
  IF ~Parses(cli[c].kind) THEN "bad_request"
  ELSE IF ~ConstantTimeEq(Secret[a], cli[c].token) THEN "unauthorized"
  ELSE Dispatch(cli[c].kind)

HandleConnection(a, c) ==
  /\ Alive(a)
  /\ cli[c].pc = "accepted" /\ cli[c].peer = a
  /\ cli' = [cli EXCEPT ![c].pc = "answered", ![c].reply = ProcessRequest(a, c)]
  /\ ServerUnchanged

(* run_command: exit 1 for an error reply, 2 when there is none.           *)
ReadReply(c) ==
  /\ cli[c].pc = "answered"
  /\ Exit(c, cli[c].reply)
  /\ ServerUnchanged

ConnectionBroken(c) ==
  \/ cli[c].pc = "sent" /\ ~HasListener(cli[c].peer)
  \/ cli[c].pc = "accepted" /\ ~Alive(cli[c].peer)
HangUpBeforeAccept(c) ==
  /\ cli[c].pc = "sent" /\ ~HasListener(cli[c].peer)
  /\ Exit(c, "transport")
  /\ ServerUnchanged
HangUp(c) ==
  /\ ConnectionBroken(c)
  /\ Exit(c, "transport")
  /\ ServerUnchanged

CallStep(c) == ReadEndpoint(c) \/ Connect(c) \/ ReadReply(c) \/ HangUp(c)
ServeStep(a) == \E c \in Clients : Accept(a, c) \/ HandleConnection(a, c)

Next ==
  \/ \E a \in Apps : Launch(a) \/ StartStep(a) \/ LoseTransport(a) \/ End(a)
                       \/ ServeStep(a)
  \/ \E c \in Clients : CallStep(c) \/ \E kind \in Tries : ReadToken(c, kind)

Spec == Init /\ [][Next]_vars

(* The start runs to its end or fails; the accept loop and each connection *)
(* are tasks of their own; the weft process runs.                          *)
FairSpec ==
  /\ Spec
  /\ \A a \in Apps : WF_vars(StartStep(a))
  /\ \A a \in Apps, c \in Clients :
       WF_vars(Accept(a, c)) /\ WF_vars(HandleConnection(a, c))
  /\ \A c \in Clients : WF_vars(CallStep(c))

-----------------------------------------------------------------------------
(* No command reaches a handler unless its token is the one of the session *)
(* that serves it: not an ended session's, not the empty text of a token   *)
(* file caught between truncate and write (server.rs process_request).     *)
OnlyOwnSession ==
  \A c \in Clients :
    cli[c].reply \in {"unavailable", "unimplemented"} =>
      cli[c].token = Secret[cli[c].peer]

(* An app that serves and never shared its lifetime with another one is    *)
(* reachable by the files: whatever earlier sessions left behind, the      *)
(* token file, the endpoint file and the path lead to it.                  *)
SoleSessionReachable ==
  \A a \in Apps :
    app[a] = "serving" /\ a \notin overlapped =>
      /\ tokenFile = Secret[a]
      /\ endpointFile = Endpoint(a)
      /\ listener[Endpoint(a)] = a

(* rpc_client.rs reads the token on every run so that a restart is picked  *)
(* up: a command is refused only if the app it reached had not written its *)
(* token when the command read it, or runs beside another app.             *)
UnauthorizedMeansRestart ==
  \A c \in Clients :
    cli[c].reply = "unauthorized" =>
      cli[c].peer \in overlapped \/ cli[c].peer \notin cli[c].seen

(* Who is served and who is refused is right, over restarts and stale      *)
(* files: the right session, or a refusal that has a cause.                *)
SessionsSound == TypeOK /\ OnlyOwnSession /\ UnauthorizedMeansRestart

(* weft builds its requests from its own copy of the wire schema           *)
(* (rpc_client.rs 5): whatever is typed, the server can parse it.          *)
WireInSync ==
  \A c \in Clients : cli[c].reply = "bad_request" => cli[c].kind \notin Typed

(* Every run of the weft command ends, with an exit code, whatever the app *)
(* does meanwhile.                                                         *)
CommandEnds == \A c \in Clients : cli[c].pc # "idle" ~> cli[c].pc = "idle"

=============================================================================
