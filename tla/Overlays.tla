------------------------------- MODULE Overlays -------------------------------
(***************************************************************************)
(* Browser panes.  The OverlayManager (src-tauri/src/browser) keeps a      *)
(* table of overlays next to the windows that really exist; the controller *)
(* of a pane (src/browser/browser-pane.ts) tells it, one report after the  *)
(* other, whether the overlay may be seen.                                 *)
(*                                                                         *)
(* The browser_* commands run to their end on the main thread, in the      *)
(* order the requests were made.  Windows come and go on their own: one    *)
(* that is destroyed may keep its label until the event loop comes round,  *)
(* and one can be lost to a crash or to the operating system at any time.  *)
(* The label of a window is browser-{pane}, so it is named by its pane.    *)
(***************************************************************************)
EXTENDS Naturals, Sequences, FiniteSets

CONSTANTS
  Panes,    \* pane ids
  Params,   \* values of the creation-time parameters
  Urls,     \* addresses that parse
  BadUrl,   \* an address that does not
  Blank,    \* about:blank, where a window starts
  None,     \* no entry, no window, no address
  MaxQueue  \* bound: requests under way to the main thread

ASSUME OverlaysAssumption ==
  /\ BadUrl \notin Urls /\ None \notin Urls \cup {BadUrl, Blank}
  /\ BadUrl # Blank /\ Blank \notin Urls
  /\ MaxQueue \in Nat

VARIABLES
  entry,   \* OverlayManager.overlays
  window,  \* the window with the label of each pane
  hidden,  \* the reasons each controller has to hide its overlay
  queue    \* requests under way

vars == <<entry, window, hidden, queue>>

Reasons == {"tab", "screen", "occluded"}
Entry == [params : Params, url : Urls \cup {None}, visible : BOOLEAN]
\* `told` is history: the window has been told at least once what to show.
Window == [params : Params, url : Urls \cup {Blank}, shown : BOOLEAN,
           onTop : BOOLEAN, closing : BOOLEAN, told : BOOLEAN]

ASSUME NoneAssumption == None \notin Entry \cup Window

Request ==
  [op : {"open"}, pane : Panes, params : Params, url : Urls \cup {BadUrl, None}]
  \cup [op : {"recreate"}, pane : Panes, params : Params]
  \cup [op : {"navigate"}, pane : Panes, url : Urls \cup {BadUrl}]
  \cup [op : {"sync"}, pane : Panes, visible : BOOLEAN]
  \cup [op : {"close"}, pane : Panes]

Init ==
  /\ entry = [p \in Panes |-> None]
  /\ window = [p \in Panes |-> None]
  /\ hidden = [p \in Panes |-> {}]
  /\ queue = <<>>

-----------------------------------------------------------------------------
(* The frontend.                                                           *)

Send(r) == Len(queue) < MaxQueue /\ queue' = Append(queue, r)

IsVisible(reasons) == reasons = {}

Report(p, reasons) == Send([op |-> "sync", pane |-> p, visible |-> IsVisible(reasons)])

\* setTabActive, setOnScreen, setOccluded: a flag and, at once, a report.
SetFlag(p, reason, hide) ==
  LET reasons == IF hide THEN hidden[p] \cup {reason} ELSE hidden[p] \ {reason} IN
  /\ hidden' = [hidden EXCEPT ![p] = reasons]
  /\ Report(p, reasons)
  /\ UNCHANGED <<entry, window>>

\* The anchor was resized or scrolled.
Moved(p) == Report(p, hidden[p]) /\ UNCHANGED <<entry, window, hidden>>

\* The host opens, recreates, navigates or closes a pane.
Ask(r) == r.op # "sync" /\ Send(r) /\ UNCHANGED <<entry, window, hidden>>

-----------------------------------------------------------------------------
(* The windows: TauriWindowSpawner and the toolkit under it.               *)

\* Mutant of Built: the window is visible from the start.
BuiltShown(params, url) ==
  [params |-> params, url |-> url, shown |-> TRUE, onTop |-> FALSE,
   closing |-> FALSE, told |-> FALSE]

Built(params, url) ==
  [params |-> params, url |-> url, shown |-> FALSE, onTop |-> FALSE,
   closing |-> FALSE, told |-> FALSE]

\* destroy: the window goes at once, or only loses its label later.
Destroyed(w) == {None, [w EXCEPT !.closing = TRUE]}

\* The event loop takes a destroyed window off its books.
Reap(p) ==
  /\ window[p] # None
  /\ window[p].closing
  /\ window' = [window EXCEPT ![p] = None]
  /\ UNCHANGED <<entry, hidden, queue>>

\* A crash, or the operating system, takes a window away.
Lose(p) ==
  /\ window[p] # None
  /\ window' = [window EXCEPT ![p] = None]
  /\ UNCHANGED <<entry, hidden, queue>>

\* What spawn makes of the label, old being the window that has it: a label in
\* use and a failing build leave it as it was; an address that does not parse
\* fails after the build.
Spawned(old, params, url) ==
  {[ok |-> FALSE, window |-> old]} \cup
  (IF old # None THEN {}
   ELSE IF url = BadUrl THEN {[ok |-> FALSE, window |-> Built(params, Blank)]}
   ELSE {[ok |-> TRUE, window |-> Built(params, IF url = None THEN Blank ELSE url)]})

-----------------------------------------------------------------------------
(* The commands on the main thread.                                        *)

Take(op, p) ==
  /\ queue # <<>>
  /\ Head(queue).op = op
  /\ Head(queue).pane = p
  /\ queue' = Tail(queue)
  /\ UNCHANGED hidden

FreshEntry(params, url) == [params |-> params, url |-> url, visible |-> TRUE]

\* browser_open: OverlayManager::create.
Open(p) ==
  /\ Take("open", p)
  /\ LET r == Head(queue) IN
     IF entry[p] # None
     THEN UNCHANGED <<entry, window>>
     ELSE \E s \in Spawned(window[p], r.params, r.url) :
            /\ window' = [window EXCEPT ![p] = s.window]
            /\ entry' = IF s.ok THEN [entry EXCEPT ![p] = FreshEntry(r.params, r.url)]
                        ELSE entry

\* Mutant of Navigate: the address is noted before the window takes it.
NavigateNotesFirst(p) ==
  /\ Take("navigate", p)
  /\ entry[p] # None
  /\ LET url == Head(queue).url
         takes == url # BadUrl /\ window[p] # None
     IN /\ entry' = [entry EXCEPT ![p].url = url]
        /\ window' = IF takes THEN [window EXCEPT ![p].url = url] ELSE window

\* browser_navigate.
Navigate(p) ==
  /\ Take("navigate", p)
  /\ LET url == Head(queue).url IN
     IF entry[p] # None /\ url # BadUrl /\ window[p] # None
     THEN /\ window' = [window EXCEPT ![p].url = url]
          /\ entry' = [entry EXCEPT ![p].url = url]
     ELSE UNCHANGED <<entry, window>>

\* Mutant of Sync: what the table says already holds is not applied again.
SyncChangesOnly(p) ==
  /\ Take("sync", p)
  /\ LET visible == Head(queue).visible IN
     IF entry[p] # None /\ window[p] # None
     THEN /\ window' = IF entry[p].visible = visible
                       THEN [window EXCEPT ![p].told = TRUE]
                       ELSE [window EXCEPT ![p].shown = visible, ![p].told = TRUE]
          /\ entry' = [entry EXCEPT ![p].visible = visible]
     ELSE UNCHANGED <<entry, window>>

\* browser_sync_bounds: position, then set_visible.
Sync(p) ==
  /\ Take("sync", p)
  /\ LET visible == Head(queue).visible IN
     IF entry[p] # None /\ window[p] # None
     THEN /\ window' = [window EXCEPT ![p].shown = visible, ![p].told = TRUE]
          /\ entry' = [entry EXCEPT ![p].visible = visible]
     ELSE UNCHANGED <<entry, window>>

\* browser_close: OverlayManager::destroy, which forgets the overlay first.
Close(p) ==
  /\ Take("close", p)
  /\ IF entry[p] = None
     THEN UNCHANGED <<entry, window>>
     ELSE /\ entry' = [entry EXCEPT ![p] = None]
          /\ IF window[p] = None THEN UNCHANGED window
             ELSE \E w \in Destroyed(window[p]) : window' = [window EXCEPT ![p] = w]

\* Mutant of TransferredUrl: the new overlay starts without an address.
TransferredNothing(p) == None

\* What plan_recreate carries over.
TransferredUrl(p) == entry[p].url

\* browser_recreate: plan_recreate, then execute_recreate.  The old window is
\* destroyed and forgotten, the new one created in its place and raised; when
\* the creation fails nothing is put back.
Recreate(p) ==
  /\ Take("recreate", p)
  /\ LET params == Head(queue).params IN
     IF entry[p] = None \/ window[p] = None
     THEN UNCHANGED <<entry, window>>
     ELSE \E w \in Destroyed(window[p]) :
          \E s \in Spawned(w, params, TransferredUrl(p)) :
            /\ window' = [window EXCEPT ![p] =
                            IF s.ok THEN [s.window EXCEPT !.onTop = TRUE] ELSE s.window]
            /\ entry' = [entry EXCEPT ![p] =
                           IF s.ok THEN FreshEntry(params, TransferredUrl(p)) ELSE None]

Serve(p) == Open(p) \/ Navigate(p) \/ Sync(p) \/ Close(p) \/ Recreate(p)

Next ==
  \/ \E r \in Request : Ask(r)
  \/ \E p \in Panes :
       \/ \E reason \in Reasons, hide \in BOOLEAN : SetFlag(p, reason, hide)
       \/ Moved(p) \/ Reap(p) \/ Lose(p) \/ Serve(p)

Spec == Init /\ [][Next]_vars

\* The main thread serves what it is asked.
FairSpec == Spec /\ \A p \in Panes : WF_vars(Serve(p)) /\ WF_vars(Reap(p))

-----------------------------------------------------------------------------
(* Properties.                                                             *)

\* Every variable has its type.
TypeOK ==
  /\ entry \in [Panes -> Entry \cup {None}]
  /\ window \in [Panes -> Window \cup {None}]
  /\ hidden \in [Panes -> SUBSET Reasons]
  /\ queue \in Seq(Request)

Live(p) == entry[p] # None /\ window[p] # None

\* The table tells the truth about an overlay that has a window: it was built
\* with the parameters the table names (they cannot be changed afterwards), it
\* is where the table says it was sent, nobody is taking it down, and it is not
\* to be seen while the table says hidden.  Windows are lost, left behind by a
\* failed open and slow to go, under one label.
BookkeepingTrue ==
  \A p \in Panes : Live(p) =>
    /\ window[p].params = entry[p].params
    /\ window[p].url = IF entry[p].url = None THEN Blank ELSE entry[p].url
    /\ ~window[p].closing
    /\ window[p].shown => entry[p].visible

SyncPending(p) == \E k \in DOMAIN queue : queue[k].op = "sync" /\ queue[k].pane = p

\* An overlay never covers the application: with no report under way its window
\* is shown only if the pane has no reason to hide it, and once it has been told
\* it is shown exactly then.
FollowsPane ==
  \A p \in Panes : (Live(p) /\ ~SyncPending(p)) =>
    /\ window[p].shown => IsVisible(hidden[p])
    /\ window[p].told => (window[p].shown <=> IsVisible(hidden[p]))

\* Turning a parameter on never changes the page: an overlay that is recreated
\* comes back with the new parameters, raised, and at the address it had.
RecreateTransfers ==
  [][\A p \in Panes :
       (entry[p] # None /\ entry'[p] # None /\ entry'[p].params # entry[p].params)
         => /\ entry'[p].url = entry[p].url
            /\ window'[p] # None
            /\ window'[p].params = entry'[p].params /\ window'[p].onTop]_vars

ClosePending(p) == \E k \in DOMAIN queue : queue[k].op = "close" /\ queue[k].pane = p

\* Closing works whatever became of the window: once a close is on its way the
\* pane is, some time, without overlay.
CloseForgets == \A p \in Panes : ClosePending(p) ~> entry[p] = None

\* What is asked of an overlay is done whole: a recreate keeps the page and a
\* close leaves nothing in the table.
RequestsHonoured == RecreateTransfers /\ CloseForgets

===============================================================================
