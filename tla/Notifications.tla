---------------------------- MODULE Notifications ----------------------------
(***************************************************************************)
(* Unread rings: the notifications a shell sends become a state per pane   *)
(* in the backend (src-tauri/src/notify/manager.rs, commands.rs), and the  *)
(* state becomes a ring around the pane's host in the frontend             *)
(* (src/notifications/*.ts, setPaneRing in src/panes/pane-renderer.ts).    *)
(*                                                                         *)
(* The commands run in the order the frontend invokes them in.  A change   *)
(* of state is announced by an event; the answer to notify_pane_state      *)
(* comes on a channel of its own, so it may arrive after events that were  *)
(* emitted later.  The highlight of a pane's tab is set together with the  *)
(* ring, to the same value, and is left out; a tab bar that is rebuilt     *)
(* loses it.                                                               *)
(***************************************************************************)
EXTENDS Panes

CONSTANTS
  MaxCalls,  \* bound: commands invoked and not yet run
  MaxEvents, \* bound: events emitted and not yet delivered
  NoReply

ASSUME NotificationsAssumption == MaxCalls \in Nat /\ MaxEvents \in Nat

VARIABLES
  latest,    \* Inner.latest, per pane: none, or a notification unread or read
  calls,     \* commands on their way to the backend
  events,    \* notification-changed on its way to the frontend
  reply,     \* the answer to notify_pane_state on its way (bound: one sync)
  ringState, \* PaneRenderer.ringState
  shown,     \* the hosts that are decorated with a ring
  misled     \* history: panes whose view was last set by an overtaken reply

notifyVars == <<latest, calls, events, reply, misled>>
view == <<ringState, shown>>
vars == <<panesVars, notifyVars, view>>

HasRing(p) == latest[p] = "unread"

Init ==
  /\ PanesInit
  /\ latest = [p \in Printing |-> "none"]
  /\ calls = <<>>
  /\ events = <<>>
  /\ reply = NoReply
  /\ ringState = {}
  /\ shown = {}
  /\ misled = {}

-----------------------------------------------------------------------------
(* The panes, with their rings.                                            *)

Arrange == TreeOperation /\ UNCHANGED <<notifyVars, view>>

\* decoratePane on every render: the ring survives the new layout.
Decorate == shown' = ringState \cap Keys(tree)

RenderPanes == Render /\ Decorate /\ UNCHANGED <<notifyVars, ringState>>

Prints(p) == Output(p) /\ UNCHANGED <<notifyVars, view>>

Put(set, p, in) == IF in THEN set \cup {p} ELSE set \ {p}

\* setPaneRing: the flag outlives the host, the decoration needs one.
SetPaneRing(p, ring) ==
  /\ ringState' = Put(ringState, p, ring)
  /\ shown' = IF p \in hosts THEN Put(shown, p, ring) ELSE shown

-----------------------------------------------------------------------------
(* The frontend asks.                                                      *)

Invoke(command, p) ==
  /\ Len(calls) < MaxCalls
  /\ calls' = Append(calls, [command |-> command, pane |-> p])
  /\ UNCHANGED <<panesVars, latest, events, misled>>

\* The parser of the pane's terminal met an OSC 9, 99 or 777.
OscHandler(p) ==
  /\ p \in hosts
  /\ Invoke("notify_ingest_osc", p)
  /\ UNCHANGED <<reply, view>>

\* The pane got the focus: the ring goes at once, the notification after it.
ClearOnFocus(p) ==
  /\ p \in hosts
  /\ SetPaneRing(p, FALSE)
  /\ Invoke("notify_clear", p)
  /\ UNCHANGED reply

MarkRead(p) ==
  /\ Invoke("notify_mark_read", p)
  /\ UNCHANGED <<reply, view>>

\* The pane was mounted: ask for the state it has.
SyncPane(p) ==
  /\ p \in hosts
  /\ reply = NoReply
  /\ \A i \in DOMAIN calls : calls[i].command # "notify_pane_state"
  /\ Invoke("notify_pane_state", p)
  /\ UNCHANGED <<reply, view>>

-----------------------------------------------------------------------------
(* The backend.                                                            *)

Serves(command) ==
  /\ calls # <<>>
  /\ Head(calls).command = command
  /\ calls' = Tail(calls)
  /\ UNCHANGED <<panesVars, view, misled>>

EmitChanged(p) ==
  /\ Len(events) < MaxEvents
  /\ events' = Append(events, [pane |-> p, ring |-> latest'[p] = "unread"])

\* notify_ingest_osc, of a payload that can be displayed or not.
IngestOsc ==
  /\ Serves("notify_ingest_osc")
  /\ LET p == Head(calls).pane IN
       \/ latest' = [latest EXCEPT ![p] = "unread"] /\ EmitChanged(p)
       \/ UNCHANGED <<latest, events>>
  /\ UNCHANGED reply

\* Mutant of NotifyMarkRead: nobody is told.
MarkReadSilently ==
  /\ Serves("notify_mark_read")
  /\ LET p == Head(calls).pane IN
       latest' = [latest EXCEPT ![p] = IF HasRing(p) THEN "read" ELSE latest[p]]
  /\ UNCHANGED <<events, reply>>

\* notify_mark_read and notify_clear tell the frontend of a change.
NotifyMarkRead ==
  /\ Serves("notify_mark_read")
  /\ LET p == Head(calls).pane IN
       \/ HasRing(p) /\ latest' = [latest EXCEPT ![p] = "read"] /\ EmitChanged(p)
       \/ ~HasRing(p) /\ UNCHANGED <<latest, events>>
  /\ UNCHANGED reply

NotifyClear ==
  /\ Serves("notify_clear")
  /\ LET p == Head(calls).pane IN
       \/ latest[p] # "none" /\ latest' = [latest EXCEPT ![p] = "none"] /\ EmitChanged(p)
       \/ latest[p] = "none" /\ UNCHANGED <<latest, events>>
  /\ UNCHANGED reply

\* A reply is overtaken once an event about its pane is delivered before it.
NotifyPaneState ==
  /\ Serves("notify_pane_state")
  /\ reply' = [pane |-> Head(calls).pane, ring |-> HasRing(Head(calls).pane),
               overtaken |-> FALSE]
  /\ UNCHANGED <<latest, events>>

-----------------------------------------------------------------------------
(* The frontend hears: PaneRingBinding.apply.                              *)

ApplyEvent ==
  /\ events # <<>>
  /\ LET event == Head(events) IN
       /\ SetPaneRing(event.pane, event.ring)
       /\ reply' = IF reply # NoReply /\ reply.pane = event.pane
                   THEN [reply EXCEPT !.overtaken = TRUE] ELSE reply
       /\ misled' = misled \ {event.pane}
  /\ events' = Tail(events)
  /\ UNCHANGED <<panesVars, latest, calls>>

ApplyReply ==
  /\ reply # NoReply
  /\ SetPaneRing(reply.pane, reply.ring)
  /\ misled' = Put(misled, reply.pane, reply.overtaken)
  /\ reply' = NoReply
  /\ UNCHANGED <<panesVars, latest, calls, events>>

-----------------------------------------------------------------------------
Next ==
  \/ Arrange \/ RenderPanes
  \/ \E p \in Printing :
       Prints(p) \/ OscHandler(p) \/ ClearOnFocus(p) \/ MarkRead(p) \/ SyncPane(p)
  \/ IngestOsc \/ NotifyMarkRead \/ NotifyClear \/ NotifyPaneState
  \/ ApplyEvent \/ ApplyReply

Spec == Init /\ [][Next]_vars

-----------------------------------------------------------------------------
(* Properties.                                                             *)

\* The tree is well formed and every other variable has its type.
TypeOK ==
  /\ TreeOK
  /\ hosts \subseteq Panels /\ content \subseteq hosts /\ shown \subseteq hosts
  /\ latest \in [Printing -> {"none", "unread", "read"}]
  /\ ringState \subseteq Printing /\ misled \subseteq Printing

\* The tree and what is drawn of it agree: it is well formed, and the focus
\* keys find a pane everywhere but at the edge.
LayoutSound == TypeOK /\ FocusStopsAtEdge

\* Nothing about the pane is under way.
Quiet(p) ==
  /\ \A i \in DOMAIN calls : calls[i].pane # p
  /\ \A i \in DOMAIN events : events[i].pane # p
  /\ reply # NoReply => reply.pane # p

\* When the messages about a pane have settled its ring, if it has a host, is
\* there exactly while its notification is unread: through optimistic clears,
\* layouts, hosts that go and come back, and replies in whatever order.  The
\* exception is a view last set by a reply that an event had overtaken
\* (notification-client.ts, pane-ring-binding.ts: the manager is the "single
\* source of truth").
RingSettles ==
  \A p \in Printing \ misled :
    Quiet(p) =>
      /\ p \in ringState <=> HasRing(p)
      /\ p \in hosts => (p \in shown <=> HasRing(p))
=============================================================================
