------------------------------ MODULE SocksBroker ------------------------------
(***************************************************************************)
(* The loopback proxy the browser panes of an SSH workspace use: the       *)
(* listener and its tasks (src-tauri/src/ssh/socks_broker.rs), the SOCKS5  *)
(* exchange each connection begins with (socks.rs), the destinations a     *)
(* session is opened for (config.rs) and the channel a tunnel is           *)
(* (client.rs).                                                            *)
(*                                                                         *)
(* A client's bytes arrive in pieces of any size, and may stop anywhere.   *)
(* A host is a sequence of byte tokens, a port one token of two bytes.     *)
(* SshConnections says when an opener is swapped; here it happens to a     *)
(* session that dropped.                                                   *)
(***************************************************************************)
EXTENDS Integers, Sequences, SequencesExt, FiniteSets

CONSTANTS
  Clients,
  Scripts,     \* what clients send: [greeting, request, payload], of bytes, and
               \* the target their request asks for by the protocol
  Addresses,   \* [loopback |-> BOOLEAN], what bind_on may be asked for
  MaxSessions, \* bound: sessions of the connection, by number
  NotText      \* host bytes that are no UTF-8

ASSUME SocksAssumption == MaxSessions \in Nat \ {0}

VARIABLES
  broker,  \* "none", "bound" or "dropped"
  opener,  \* the session whose channel_opener is in the slot
  dropped, \* sessions whose transport is gone
  conn     \* per client: where its task stands, and both directions

socksVars == <<broker, opener, dropped, conn>>

Version == 5
NoAuth == 0
NoneAcceptable == 255
Connect == 1
IPv4 == 1
DomainName == 3
IPv6 == 4

Reply(code) == <<Version, code, 0, IPv4, 0>>
Succeeded == 0
GeneralFailure == 1
ConnectionRefused == 5
CommandNotSupported == 7
AddressTypeNotSupported == 8
ReplyCodes == {Succeeded, GeneralFailure, ConnectionRefused, CommandNotSupported,
          AddressTypeNotSupported}

-----------------------------------------------------------------------------
(* The exchange.  A phase is over when the bytes it reads are there: then  *)
(* it is a target or an error and the bytes left, otherwise it waits.      *)

Waits == [kind |-> "wait", rest |-> <<>>]
Fails(error) == [kind |-> error, rest |-> <<>>]
From(s, n) == SubSeq(s, n, Len(s))

\* negotiate_auth: as many methods as the second byte says.
NegotiateAuth(s) ==
  IF s = <<>> THEN Waits
  ELSE IF s[1] # Version THEN Fails("BadVersion")
  ELSE IF Len(s) < 2 \/ Len(s) < 2 + s[2] THEN Waits
  ELSE IF NoAuth \notin Range(SubSeq(s, 3, 2 + s[2])) THEN Fails("NoAcceptableAuth")
  ELSE [kind |-> "ok", rest |-> From(s, 3 + s[2])]

\* The address of n bytes that begins at i, and the port behind it.
Target(s, atyp, i, n) ==
  IF Len(s) < i + n + 1 THEN Waits
  ELSE LET host == SubSeq(s, i, i + n - 1) IN
       IF atyp = DomainName /\ (n = 0 \/ NotText \in Range(host))
       THEN Fails("BadDomain")
       ELSE [kind |-> "ok", host |-> [atyp |-> atyp, bytes |-> host],
             port |-> SubSeq(s, i + n, i + n + 1), rest |-> From(s, i + n + 2)]

\* Mutant of ReadConnectRequest: the port is read as one byte.
ReadConnectRequestShort(s) ==
  IF Len(s) < 4 \/ s[4] # DomainName \/ Len(s) < 5 \/ Len(s) < 7 + s[5] THEN Waits
  ELSE [kind |-> "ok", host |-> [atyp |-> DomainName, bytes |-> SubSeq(s, 6, 5 + s[5])],
        port |-> SubSeq(s, 6 + s[5], 6 + s[5]), rest |-> From(s, 7 + s[5])]

ReadConnectRequest(s) ==
  IF s = <<>> THEN Waits
  ELSE IF s[1] # Version THEN Fails("BadVersion")
  ELSE IF Len(s) < 2 THEN Waits
  ELSE IF s[2] # Connect THEN Fails("UnsupportedCommand")
  ELSE IF Len(s) < 4 THEN Waits
  ELSE IF s[4] = IPv4 THEN Target(s, IPv4, 5, 4)
  ELSE IF s[4] = IPv6 THEN Target(s, IPv6, 5, 16)
  ELSE IF s[4] # DomainName THEN Fails("UnsupportedAddressType")
  ELSE IF Len(s) < 5 THEN Waits
  ELSE Target(s, DomainName, 6, s[5])

\* The protocol's bytes of a request for a target, with any third byte (RFC 1928).
RequestFor(target, reserved) ==
  <<Version, Connect, reserved, target.host.atyp>>
    \o (IF target.host.atyp = DomainName THEN <<Len(target.host.bytes)>> ELSE <<>>)
    \o target.host.bytes \o target.port

\* A host of each type has its length; a name is text.
ProperHost(host) ==
  \/ host.atyp = IPv4 /\ Len(host.bytes) = 4
  \/ host.atyp = IPv6 /\ Len(host.bytes) = 16
  \/ host.atyp = DomainName /\ host.bytes # <<>> /\ NotText \notin Range(host.bytes)

\* A client greets with as many methods as it says, if in this version at all, and
\* then asks for a target or sends what nobody could take for a request.
ScriptOK(script) ==
  /\ script.greeting # <<>>
  /\ script.greeting[1] = Version =>
       /\ Len(script.greeting) >= 2
       /\ Len(script.greeting) = 2 + script.greeting[2]
  /\ \/ /\ ProperHost(script.asked.host)
        /\ Len(script.asked.port) = 2
        /\ \E reserved \in 0 .. 255 : script.request = RequestFor(script.asked, reserved)
     \/ ReadConnectRequest(script.request).kind \notin {"ok", "wait"}

\* What a stream and a target are made of.
Bytes == Seq(Nat)
Targets == [host : [atyp : Nat, bytes : Bytes], port : Bytes]

ASSUME ScriptsAssumption ==
  /\ \A script \in Scripts :
       /\ script \in [greeting : Bytes, request : Bytes, asked : Targets, payload : Bytes]
       /\ ScriptOK(script)
  /\ NotText \in Nat

ReplyCodeFor(error) ==
  CASE error = "UnsupportedCommand" -> CommandNotSupported
    [] error = "UnsupportedAddressType" -> AddressTypeNotSupported
    [] OTHER -> GeneralFailure

\* A reader that meets the end of the stream fails with an Io error.
Read(phase, c) ==
  IF phase.kind = "wait" /\ conn[c].pending = <<>> /\ conn[c].ended
  THEN Fails("Io") ELSE phase

-----------------------------------------------------------------------------
NoTarget == [host |-> [atyp |-> 0, bytes |-> <<>>], port |-> <<>>]
NoScript == [greeting |-> <<>>, request |-> <<>>, asked |-> NoTarget, payload |-> <<>>]
Away == [stage |-> "away", script |-> NoScript, pending |-> <<>>, inbox |-> <<>>,
         ended |-> FALSE, session |-> 0, target |-> NoTarget, wrote |-> <<>>,
         tunnelled |-> <<>>]

SocksInit ==
  /\ broker = "none"
  /\ opener = 1
  /\ dropped = {}
  /\ conn = [c \in Clients |-> Away]

\* bind_on: a loopback address or none.
BindOn(address) ==
  /\ broker = "none"
  /\ address.loopback
  /\ broker' = "bound"
  /\ UNCHANGED <<opener, dropped, conn>>

\* Drop: the accept loop ends, the connections it spawned go on.
DropBroker ==
  /\ broker = "bound"
  /\ broker' = "dropped"
  /\ UNCHANGED <<opener, dropped, conn>>

SessionDrops ==
  /\ opener \notin dropped
  /\ dropped' = dropped \cup {opener}
  /\ UNCHANGED <<broker, opener, conn>>

\* The supervisor has a new session: the port stays, the opener is another.
SwapOpener ==
  /\ broker = "bound"
  /\ opener \in dropped
  /\ opener < MaxSessions
  /\ opener' = opener + 1
  /\ UNCHANGED <<broker, dropped, conn>>

\* accept_loop takes a clone of the opener with the connection.
Accept(c, script) ==
  /\ broker = "bound"
  /\ conn[c].stage = "away"
  /\ conn' = [conn EXCEPT ![c] =
       [Away EXCEPT !.stage = "auth", !.script = script, !.session = opener,
                    !.pending = script.greeting \o script.request \o script.payload]]
  /\ UNCHANGED <<broker, opener, dropped>>

\* The network brings some bytes, or the client is done sending.
Arrive(c, n) ==
  /\ conn[c].stage \notin {"away", "closed"}
  /\ conn' = [conn EXCEPT ![c].inbox = @ \o SubSeq(conn[c].pending, 1, n),
                          ![c].pending = From(@, n + 1)]
  /\ UNCHANGED <<broker, opener, dropped>>

EndOfStream(c) ==
  /\ conn[c].stage \notin {"away", "closed"}
  /\ ~ conn[c].ended
  /\ conn' = [conn EXCEPT ![c].ended = TRUE, ![c].pending = <<>>]
  /\ UNCHANGED <<broker, opener, dropped>>

-----------------------------------------------------------------------------
(* handle_connection.                                                      *)

Moves(c, stage, rest, bytes) ==
  /\ conn' = [conn EXCEPT ![c].stage = stage, ![c].inbox = rest,
                          ![c].wrote = @ \o bytes]
  /\ UNCHANGED <<broker, opener, dropped>>

\* A greeting that fails ends the connection: with 0xFF if it could be read.
Negotiate(c) ==
  /\ conn[c].stage = "auth"
  /\ LET phase == Read(NegotiateAuth(conn[c].inbox), c) IN
       \/ phase.kind = "ok" /\ Moves(c, "request", phase.rest, <<Version, NoAuth>>)
       \/ /\ phase.kind = "NoAcceptableAuth"
          /\ Moves(c, "closed", <<>>, <<Version, NoneAcceptable>>)
       \/ phase.kind \in {"BadVersion", "Io"} /\ Moves(c, "closed", <<>>, <<>>)

\* A request that fails is answered with the code of its error.
Request(c) ==
  /\ conn[c].stage = "request"
  /\ LET phase == Read(ReadConnectRequest(conn[c].inbox), c) IN
       \/ /\ phase.kind = "ok"
          /\ conn' = [conn EXCEPT ![c].stage = "opening", ![c].inbox = phase.rest,
                        ![c].target = [host |-> phase.host, port |-> phase.port]]
          /\ UNCHANGED <<broker, opener, dropped>>
       \/ /\ phase.kind \notin {"ok", "wait"}
          /\ Moves(c, "closed", <<>>, Reply(ReplyCodeFor(phase.kind)))

\* open_channel, on the session the connection was accepted with.
Reachable(c) == conn[c].session \notin dropped

\* Mutant of OpenTunnel: a failure is left to the end of the connection.
OpenTunnelSilent(c) ==
  /\ conn[c].stage = "opening"
  /\ \/ Reachable(c)
        /\ Moves(c, "copying", conn[c].inbox, Reply(Succeeded))
     \/ Moves(c, "closed", <<>>, <<>>)

\* pipe_target: open the channel, then say so; the far side may refuse.
OpenTunnel(c) ==
  /\ conn[c].stage = "opening"
  /\ \/ Reachable(c)
        /\ Moves(c, "copying", conn[c].inbox, Reply(Succeeded))
     \/ Moves(c, "closed", <<>>, Reply(ConnectionRefused))

\* copy_bidirectional, towards the far side.
Copy(c) ==
  /\ conn[c].stage = "copying"
  /\ conn[c].inbox # <<>>
  /\ conn' = [conn EXCEPT ![c].tunnelled = @ \o conn[c].inbox, ![c].inbox = <<>>]
  /\ UNCHANGED <<broker, opener, dropped>>

\* The client is done and everything was copied, or the session dropped.
CopyEnds(c) ==
  /\ conn[c].stage = "copying"
  /\ \/ conn[c].ended /\ conn[c].inbox = <<>>
     \/ ~ Reachable(c)
  /\ Moves(c, "closed", <<>>, <<>>)

Serve(c) == Negotiate(c) \/ Request(c) \/ OpenTunnel(c) \/ Copy(c) \/ CopyEnds(c)

SocksNext ==
  \/ \E a \in Addresses : BindOn(a)
  \/ DropBroker \/ SessionDrops \/ SwapOpener
  \/ \E c \in Clients :
       \/ \E script \in Scripts : Accept(c, script)
       \/ \E n \in 1 .. Len(conn[c].pending) : Arrive(c, n)
       \/ EndOfStream(c)
       \/ Serve(c)

-----------------------------------------------------------------------------
(* What a pane behind the proxy may rely on.                               *)

Replies(c) == {i \in 1 .. Len(conn[c].wrote) - 4 :
                 i > 2 /\ \E code \in ReplyCodes : SubSeq(conn[c].wrote, i, i + 4) = Reply(code)}

TunnelOpened(c) == conn[c].wrote = <<Version, NoAuth>> \o Reply(Succeeded)

\* A connection has at most one answer to its request; "succeeded" is said of a
\* tunnel to exactly the host and port that were asked for, the host never
\* resolved, and what goes through it is what the client sent behind its request,
\* from the first byte on, however the stream was cut (socks.rs; socks_broker.rs,
\* handle_connection and pipe_target).
TunnelIsWhatWasAsked ==
  \A c \in Clients :
    /\ Cardinality(Replies(c)) <= 1
    /\ TunnelOpened(c) =>
         LET asked == conn[c].script.asked IN
           /\ conn[c].target = asked
           /\ IsPrefix(conn[c].tunnelled \o conn[c].inbox, conn[c].script.payload)
    /\ conn[c].tunnelled # <<>> => TunnelOpened(c)

\* Whoever sent a greeting the broker could accept and waited for the answer
\* to its request has one when the connection closes: the pane shows an error
\* instead of hanging (socks.rs, write_reply: "instead of hanging").  A connection
\* whose channel is never opened nor refused does not close, and has none.
NobodyClosedUnanswered ==
  \A c \in Clients :
    conn[c].stage = "closed" /\ IsPrefix(<<Version, NoAuth>>, conn[c].wrote)
      => Cardinality(Replies(c)) = 1

\* Both, for every connection, however the network cuts its bytes and whatever
\* becomes of the session (socks.rs; socks_broker.rs, handle_connection).
ProxyKeepsItsWord == TunnelIsWhatWasAsked /\ NobodyClosedUnanswered
=============================================================================
