---------------------------- MODULE OverlaysProofs ----------------------------
(* What Overlays guarantees for any panes, parameters and addresses.          *)
EXTENDS Overlays, SequenceTheorems, TLAPS

\* Taking the oldest request leaves the types of the queue alone, and what is
\* taken is a request of the operation and the pane that was asked for.
LEMMA TakeType ==
  ASSUME TypeOK, NEW op, NEW p \in Panes, Take(op, p)
  PROVE  /\ queue' \in Seq(Request) /\ hidden' \in [Panes -> SUBSET Reasons]
         /\ Head(queue) \in Request /\ Head(queue).op = op
<1>1. queue \in Seq(Request) /\ queue # <<>>
  BY DEF TypeOK, Take
<1>2. Head(queue) \in Request /\ Tail(queue) \in Seq(Request)
  BY <1>1, HeadTailProperties
<1> QED
  BY <1>2 DEF Take, TypeOK

\* What each kind of request carries.
LEMMA RequestFields ==
  ASSUME NEW r \in Request
  PROVE  /\ r.op = "open" => r.params \in Params /\ r.url \in Urls \cup {BadUrl, None}
         /\ r.op = "recreate" => r.params \in Params
         /\ r.op = "navigate" => r.url \in Urls \cup {BadUrl}
         /\ r.op = "sync" => r.visible \in BOOLEAN
BY DEF Request

\* Whether it succeeds or fails, a spawn leaves a window or none.
LEMMA SpawnedWindow ==
  ASSUME NEW old \in Window \cup {None}, NEW params \in Params,
         NEW url \in Urls \cup {BadUrl, None}, NEW s \in Spawned(old, params, url)
  PROVE  s.window \in Window \cup {None}
<1>1. Built(params, Blank) \in Window
  BY DEF Built, Window
<1>2. url \notin {BadUrl, None} => Built(params, url) \in Window
  BY DEF Built, Window
<1> QED
  BY <1>1, <1>2 DEF Spawned

\* A spawn that succeeds found the label free and built what was asked for.
LEMMA SpawnedAsAsked ==
  ASSUME NEW old \in Window \cup {None}, NEW params \in Params,
         NEW url \in Urls \cup {BadUrl, None}, NEW s \in Spawned(old, params, url),
         s.ok
  PROVE  /\ s.window = Built(params, IF url = None THEN Blank ELSE url)
         /\ s.window \in Window
         /\ FreshEntry(params, url) \in Entry
<1>1. url # BadUrl /\ s.window = Built(params, IF url = None THEN Blank ELSE url)
  BY DEF Spawned
<1>2. s.window \in Window
  BY <1>1 DEF Built, Window
<1>3. FreshEntry(params, url) \in Entry
  BY <1>1 DEF FreshEntry, Entry
<1> QED
  BY <1>1, <1>2, <1>3

\* A destroyed window is gone or on its way out.
LEMMA DestroyedWindow ==
  ASSUME NEW w \in Window, NEW v \in Destroyed(w)
  PROVE  v \in Window \cup {None}
BY DEF Destroyed, Window

\* The part of BookkeepingTrue about pane p, for an entry e and a window w.
Honest(e, w) ==
  (e # None /\ w # None) =>
    /\ w.params = e.params
    /\ w.url = IF e.url = None THEN Blank ELSE e.url
    /\ ~w.closing
    /\ w.shown => e.visible

\* A step on the table and the windows at pane p alone that keeps the types and
\* the truth of what is at p keeps the invariant.
LEMMA AtPane ==
  ASSUME TypeOK, BookkeepingTrue, NEW p \in Panes,
         NEW e \in Entry \cup {None}, NEW w \in Window \cup {None},
         entry' = [entry EXCEPT ![p] = e], window' = [window EXCEPT ![p] = w],
         Honest(e, w), queue' \in Seq(Request), hidden' \in [Panes -> SUBSET Reasons]
  PROVE  TypeOK' /\ BookkeepingTrue'
<1>1. TypeOK'
  BY DEF TypeOK
<1>2. ASSUME NEW q \in Panes, Live(q)' PROVE Honest(entry'[q], window'[q])
  <2>1. CASE q = p
    BY <2>1 DEF TypeOK
  <2>2. CASE q # p
    <3>1. entry'[q] = entry[q] /\ window'[q] = window[q]
      BY <2>2 DEF TypeOK
    <3> QED
      BY <1>2, <3>1 DEF BookkeepingTrue, Live, Honest
  <2> QED
    BY <2>1, <2>2
<1> QED
  BY <1>1, <1>2 DEF BookkeepingTrue, Live, Honest

\* A step that leaves the table and the windows alone keeps the invariant.
LEMMA TableUnchanged ==
  ASSUME TypeOK, BookkeepingTrue, UNCHANGED <<entry, window>>,
         queue' \in Seq(Request), hidden' \in [Panes -> SUBSET Reasons]
  PROVE  TypeOK' /\ BookkeepingTrue'
BY DEF TypeOK, BookkeepingTrue, Live

\* The frontend only adds requests.
LEMMA FrontendStep ==
  ASSUME TypeOK, BookkeepingTrue,
         \/ \E r \in Request : Ask(r)
         \/ \E p \in Panes : \/ Moved(p)
                             \/ \E reason \in Reasons, hide \in BOOLEAN : SetFlag(p, reason, hide)
  PROVE  TypeOK' /\ BookkeepingTrue'
<1>1. ASSUME NEW r \in Request, Send(r) PROVE queue' \in Seq(Request)
  BY <1>1, AppendProperties DEF TypeOK, Send
<1>2. ASSUME NEW p \in Panes, NEW v \in BOOLEAN
      PROVE  [op |-> "sync", pane |-> p, visible |-> v] \in Request
  BY DEF Request
<1>3. ASSUME NEW r \in Request, Ask(r) PROVE TypeOK' /\ BookkeepingTrue'
  <2>1. queue' \in Seq(Request) /\ UNCHANGED <<entry, window, hidden>>
    BY <1>1, <1>3 DEF Ask
  <2> QED
    BY <2>1, TableUnchanged DEF TypeOK
<1>4. ASSUME NEW p \in Panes, Moved(p) PROVE TypeOK' /\ BookkeepingTrue'
  <2>1. IsVisible(hidden[p]) \in BOOLEAN
    BY DEF IsVisible
  <2>2. queue' \in Seq(Request) /\ UNCHANGED <<entry, window, hidden>>
    BY <1>1, <1>2, <1>4, <2>1 DEF Moved, Report
  <2> QED
    BY <2>2, TableUnchanged DEF TypeOK
<1>5. ASSUME NEW p \in Panes, NEW reason \in Reasons, NEW hide \in BOOLEAN,
             SetFlag(p, reason, hide)
      PROVE  TypeOK' /\ BookkeepingTrue'
  <2> DEFINE reasons == IF hide THEN hidden[p] \cup {reason} ELSE hidden[p] \ {reason}
  <2>1. IsVisible(reasons) \in BOOLEAN
    BY DEF IsVisible
  <2>2. Report(p, reasons) /\ UNCHANGED <<entry, window>>
    BY <1>5 DEF SetFlag
  <2>3. queue' \in Seq(Request)
    BY <1>1, <1>2, <2>1, <2>2 DEF Report
  <2>4. hidden' \in [Panes -> SUBSET Reasons]
    BY <1>5 DEF SetFlag, TypeOK
  <2> QED
    BY <2>2, <2>3, <2>4, TableUnchanged
<1> QED
  BY <1>3, <1>4, <1>5

\* Windows that go, in whatever way, leave the table nothing to be wrong about.
LEMMA WindowGoes ==
  ASSUME TypeOK, BookkeepingTrue, NEW p \in Panes, Reap(p) \/ Lose(p)
  PROVE  TypeOK' /\ BookkeepingTrue'
<1>1. /\ window' = [window EXCEPT ![p] = None]
      /\ UNCHANGED <<entry, hidden, queue>>
  BY DEF Reap, Lose
<1>2. entry' = [entry EXCEPT ![p] = entry[p]] /\ entry[p] \in Entry \cup {None}
  BY <1>1 DEF TypeOK
<1>3. Honest(entry[p], None)
  BY DEF Honest
<1>4. queue' \in Seq(Request) /\ hidden' \in [Panes -> SUBSET Reasons]
  BY <1>1 DEF TypeOK
<1> QED
  BY <1>1, <1>2, <1>3, <1>4, AtPane

\* browser_open: a fresh entry comes with the window built for it.
LEMMA OpenStep ==
  ASSUME TypeOK, BookkeepingTrue, NEW p \in Panes, Open(p)
  PROVE  TypeOK' /\ BookkeepingTrue'
<1> DEFINE r == Head(queue)
<1>1. /\ queue' \in Seq(Request) /\ hidden' \in [Panes -> SUBSET Reasons]
      /\ r.params \in Params /\ r.url \in Urls \cup {BadUrl, None}
  BY TakeType, RequestFields DEF Open
<1>2. CASE entry[p] # None
  BY <1>1, <1>2, TableUnchanged DEF Open
<1>3. CASE entry[p] = None
  <2>1. PICK s \in Spawned(window[p], r.params, r.url) :
          /\ window' = [window EXCEPT ![p] = s.window]
          /\ entry' = IF s.ok THEN [entry EXCEPT ![p] = FreshEntry(r.params, r.url)]
                      ELSE entry
    BY <1>3 DEF Open
  <2>2. window[p] \in Window \cup {None} /\ entry[p] \in Entry \cup {None}
    BY DEF TypeOK
  <2>3. s.window \in Window \cup {None}
    BY <1>1, <2>1, <2>2, SpawnedWindow
  <2>4. CASE s.ok
    <3>1. /\ FreshEntry(r.params, r.url) \in Entry
          /\ s.window = Built(r.params, IF r.url = None THEN Blank ELSE r.url)
      <4>1. /\ r.params \in Params /\ r.url \in Urls \cup {BadUrl, None}
            /\ window[p] \in Window \cup {None}
            /\ s \in Spawned(window[p], r.params, r.url)
        BY <1>1, <2>1, <2>2
      <4> HIDE DEF r
      <4> QED
        BY <2>4, <4>1, SpawnedAsAsked
    <3>2. Honest(FreshEntry(r.params, r.url), s.window)
      BY <3>1 DEF Honest, FreshEntry, Built
    <3> QED
      BY <1>1, <2>1, <2>3, <2>4, <3>1, <3>2, AtPane
  <2>5. CASE ~s.ok
    <3>1. entry' = [entry EXCEPT ![p] = None]
      BY <1>3, <2>1, <2>5 DEF TypeOK
    <3>2. Honest(None, s.window)
      BY DEF Honest
    <3> QED
      BY <1>1, <2>1, <2>3, <3>1, <3>2, AtPane
  <2> QED
    BY <2>4, <2>5
<1> QED
  BY <1>2, <1>3

\* browser_navigate and browser_sync_bounds change the window and its entry
\* alike, or neither.
LEMMA ChangeStep ==
  ASSUME TypeOK, BookkeepingTrue, NEW p \in Panes, Navigate(p) \/ Sync(p)
  PROVE  TypeOK' /\ BookkeepingTrue'
<1>1. queue' \in Seq(Request) /\ hidden' \in [Panes -> SUBSET Reasons]
  BY TakeType DEF Navigate, Sync
<1>2. CASE UNCHANGED <<entry, window>>
  BY <1>1, <1>2, TableUnchanged
<1> SUFFICES ASSUME ~UNCHANGED <<entry, window>>
             PROVE  TypeOK' /\ BookkeepingTrue'
  BY <1>2
<1>3. /\ entry[p] # None /\ window[p] # None
      /\ entry[p] \in Entry /\ window[p] \in Window
      /\ Honest(entry[p], window[p])
  BY DEF Navigate, Sync, TypeOK, BookkeepingTrue, Live, Honest
<1>4. CASE Navigate(p)
  <2> DEFINE url == Head(queue).url
             e == [entry[p] EXCEPT !.url = url]
             w == [window[p] EXCEPT !.url = url]
  <2>1. url \in Urls /\ url # None
    BY <1>4, TakeType, RequestFields, OverlaysAssumption DEF Navigate
  <2>2. entry' = [entry EXCEPT ![p] = e] /\ window' = [window EXCEPT ![p] = w]
    BY <1>4 DEF Navigate
  <2>3. e \in Entry /\ w \in Window
    BY <1>3, <2>1 DEF Entry, Window
  <2>4. Honest(e, w)
    BY <1>3, <2>1 DEF Honest, Entry, Window
  <2> HIDE DEF e, w
  <2> QED
    BY <1>1, <2>2, <2>3, <2>4, AtPane
<1>5. CASE Sync(p)
  <2> DEFINE v == Head(queue).visible
             e == [entry[p] EXCEPT !.visible = v]
             w == [window[p] EXCEPT !.shown = v, !.told = TRUE]
  <2>1. v \in BOOLEAN
    BY <1>5, TakeType, RequestFields DEF Sync
  <2>2. entry' = [entry EXCEPT ![p] = e] /\ window' = [window EXCEPT ![p] = w]
    BY <1>5 DEF Sync
  <2>3. e \in Entry /\ w \in Window
    BY <1>3, <2>1 DEF Entry, Window
  <2>4. Honest(e, w)
    BY <1>3, <2>1 DEF Honest, Entry, Window
  <2> HIDE DEF e, w
  <2> QED
    BY <1>1, <2>2, <2>3, <2>4, AtPane
<1> QED
  BY <1>4, <1>5

\* browser_close: without an entry there is nothing to be wrong about.
LEMMA CloseStep ==
  ASSUME TypeOK, BookkeepingTrue, NEW p \in Panes, Close(p)
  PROVE  TypeOK' /\ BookkeepingTrue'
<1>1. queue' \in Seq(Request) /\ hidden' \in [Panes -> SUBSET Reasons]
  BY TakeType DEF Close
<1>2. CASE entry[p] = None
  BY <1>1, <1>2, TableUnchanged DEF Close
<1>3. CASE entry[p] # None
  <2>1. PICK w \in Window \cup {None} : window' = [window EXCEPT ![p] = w]
    <3>1. CASE window[p] = None
      BY <1>3, <3>1 DEF Close, TypeOK
    <3>2. CASE window[p] # None
      BY <1>3, <3>2, DestroyedWindow DEF Close, TypeOK
    <3> QED
      BY <3>1, <3>2
  <2>2. entry' = [entry EXCEPT ![p] = None]
    BY <1>3 DEF Close
  <2>3. Honest(None, w)
    BY DEF Honest
  <2> QED
    BY <1>1, <2>1, <2>2, <2>3, AtPane
<1> QED
  BY <1>2, <1>3

\* browser_recreate: the new entry comes with the window built for it, at the
\* address of the old one; a failure leaves no entry.
LEMMA RecreateStep ==
  ASSUME TypeOK, BookkeepingTrue, NEW p \in Panes, Recreate(p)
  PROVE  TypeOK' /\ BookkeepingTrue'
<1> DEFINE params == Head(queue).params
           url == TransferredUrl(p)
<1>1. /\ queue' \in Seq(Request) /\ hidden' \in [Panes -> SUBSET Reasons]
      /\ params \in Params
  BY TakeType, RequestFields DEF Recreate
<1>2. CASE entry[p] = None \/ window[p] = None
  BY <1>1, <1>2, TableUnchanged DEF Recreate
<1>3. CASE ~(entry[p] = None \/ window[p] = None)
  <2>1. PICK w \in Destroyed(window[p]) : \E s \in Spawned(w, params, url) :
          /\ window' = [window EXCEPT ![p] =
                          IF s.ok THEN [s.window EXCEPT !.onTop = TRUE] ELSE s.window]
          /\ entry' = [entry EXCEPT ![p] = IF s.ok THEN FreshEntry(params, url) ELSE None]
    BY <1>3 DEF Recreate
  <2>2. PICK s \in Spawned(w, params, url) :
          /\ window' = [window EXCEPT ![p] =
                          IF s.ok THEN [s.window EXCEPT !.onTop = TRUE] ELSE s.window]
          /\ entry' = [entry EXCEPT ![p] = IF s.ok THEN FreshEntry(params, url) ELSE None]
    BY <2>1
  <2>3. w \in Window \cup {None}
    BY <1>3, <2>1, DestroyedWindow DEF TypeOK
  <2>4. url \in Urls \cup {BadUrl, None}
    BY <1>3 DEF TypeOK, Entry, TransferredUrl
  <2>5. CASE s.ok
    <3> DEFINE v == [s.window EXCEPT !.onTop = TRUE]
    <3>1. /\ FreshEntry(params, url) \in Entry
          /\ s.window = Built(params, IF url = None THEN Blank ELSE url)
          /\ s.window \in Window
      <4>1. /\ params \in Params /\ url \in Urls \cup {BadUrl, None}
            /\ s \in Spawned(w, params, url)
        BY <1>1, <2>2, <2>4
      <4> HIDE DEF params, url
      <4> QED
        BY <2>3, <2>5, <4>1, SpawnedAsAsked
    <3>2. v \in Window
      BY <3>1 DEF Window
    <3>3. Honest(FreshEntry(params, url), v)
      BY <3>1 DEF Honest, FreshEntry, Built
    <3>4. window' = [window EXCEPT ![p] = v]
          /\ entry' = [entry EXCEPT ![p] = FreshEntry(params, url)]
      BY <2>2, <2>5
    <3> HIDE DEF v, url, params
    <3> QED
      BY <1>1, <3>1, <3>2, <3>3, <3>4, AtPane
  <2>6. CASE ~s.ok
    <3>1. s.window \in Window \cup {None}
      BY <1>1, <2>2, <2>3, <2>4, SpawnedWindow
    <3>2. Honest(None, s.window)
      BY DEF Honest
    <3>3. window' = [window EXCEPT ![p] = s.window] /\ entry' = [entry EXCEPT ![p] = None]
      BY <2>2, <2>6
    <3> QED
      BY <1>1, <3>1, <3>2, <3>3, AtPane
  <2> QED
    BY <2>5, <2>6
<1> QED
  BY <1>2, <1>3

\* The table of overlays tells the truth about every window it knows, however
\* windows are lost, left behind or slow to go, for any panes, parameters and
\* addresses and any number of requests under way.
THEOREM TableTrue == Spec => [](TypeOK /\ BookkeepingTrue)
<1>1. Init => TypeOK /\ BookkeepingTrue
  BY DEF Init, TypeOK, BookkeepingTrue, Live
<1>2. TypeOK /\ BookkeepingTrue /\ [Next]_vars => TypeOK' /\ BookkeepingTrue'
  <2> SUFFICES ASSUME TypeOK, BookkeepingTrue, [Next]_vars
               PROVE  TypeOK' /\ BookkeepingTrue'
    OBVIOUS
  <2>1. CASE UNCHANGED vars
    BY <2>1, TableUnchanged DEF vars, TypeOK
  <2>2. CASE Next
    BY <2>2, FrontendStep, WindowGoes, OpenStep, ChangeStep, CloseStep, RecreateStep
    DEF Next, Serve
  <2> QED
    BY <2>1, <2>2
<1> QED
  BY <1>1, <1>2, PTL DEF Spec
-----------------------------------------------------------------------------
(* The controller's word.  The last report under way for a pane says what  *)
(* the controller wants now; when none is, the window does what the last   *)
(* one said, or has been told nothing and is not shown.                    *)

IsSync(r, p) == r.op = "sync" /\ r.pane = p
HasSync(q, p) == \E k \in DOMAIN q : IsSync(q[k], p)
LastSays(q, p, v) ==
  \A k \in DOMAIN q :
    (IsSync(q[k], p) /\ \A m \in DOMAIN q : m > k => ~IsSync(q[m], p)) => q[k].visible = v

\* Window w does what a controller with reasons rs wants, or was told nothing.
Obeys(w, rs) == w.told => (w.shown <=> IsVisible(rs))

FollowInv ==
  \A p \in Panes :
    /\ LastSays(queue, p, IsVisible(hidden[p]))
    /\ window[p] # None => (window[p].shown => window[p].told)
    /\ Live(p) /\ ~HasSync(queue, p) => Obeys(window[p], hidden[p])

\* A new request is the last word if it is a report, and nothing to the pane if
\* it is not.
LEMMA AppendSays ==
  ASSUME NEW q \in Seq(Request), NEW r \in Request, NEW p, NEW v
  PROVE  /\ IsSync(r, p) => LastSays(Append(q, r), p, r.visible) /\ HasSync(Append(q, r), p)
         /\ ~IsSync(r, p) => /\ LastSays(q, p, v) => LastSays(Append(q, r), p, v)
                             /\ HasSync(Append(q, r), p) <=> HasSync(q, p)
<1> DEFINE s == Append(q, r)
           n == Len(q) + 1
<1>1. /\ Len(q) \in Nat /\ DOMAIN q = 1..Len(q) /\ DOMAIN s = 1..n
      /\ \A k \in DOMAIN q : s[k] = q[k]
      /\ s[n] = r
  BY AppendProperties, LenProperties
<1> HIDE DEF s
<1>2. \A k \in DOMAIN s : k = n \/ k \in DOMAIN q
  BY <1>1
<1>3. \A k \in DOMAIN q : k \in DOMAIN s /\ n > k
  BY <1>1
<1>4. n \in DOMAIN s
  BY <1>1
<1> HIDE DEF n
<1>5. CASE IsSync(r, p)
  <2>1. LastSays(s, p, r.visible)
    BY <1>1, <1>2, <1>3, <1>4, <1>5 DEF LastSays
  <2> QED
    BY <1>1, <1>4, <1>5, <2>1 DEF HasSync, s
<1>6. CASE ~IsSync(r, p)
  <2>1. HasSync(s, p) <=> HasSync(q, p)
    BY <1>1, <1>2, <1>3, <1>6 DEF HasSync
  <2>2. LastSays(q, p, v) => LastSays(s, p, v)
    BY <1>1, <1>2, <1>3, <1>6 DEF LastSays
  <2> QED
    BY <1>6, <2>1, <2>2 DEF s
<1> QED
  BY <1>5, <1>6

\* Taking the oldest request leaves the last word; the oldest was the last word
\* if it is a report and no other is under way.
LEMMA TailSays ==
  ASSUME NEW q \in Seq(Request), q # <<>>, NEW p, NEW v, LastSays(q, p, v)
  PROVE  /\ LastSays(Tail(q), p, v)
         /\ HasSync(Tail(q), p) => HasSync(q, p)
         /\ ~IsSync(Head(q), p) => (HasSync(Tail(q), p) <=> HasSync(q, p))
         /\ IsSync(Head(q), p) /\ ~HasSync(Tail(q), p) => Head(q).visible = v
<1> DEFINE s == Tail(q)
<1>1. /\ Len(q) \in Nat \ {0} /\ DOMAIN q = 1..Len(q) /\ DOMAIN s = 1..(Len(q) - 1)
      /\ \A k \in DOMAIN s : s[k] = q[k + 1]
      /\ Head(q) = q[1]
  BY EmptySeq, LenProperties, HeadTailProperties
<1> HIDE DEF s
<1>2. \A k \in DOMAIN s : k + 1 \in DOMAIN q /\ k \in Nat
  BY <1>1
<1>3. \A m \in DOMAIN q : m = 1 \/ (m - 1 \in DOMAIN s /\ m \in Nat /\ s[m - 1] = q[m])
  BY <1>1
<1>4. LastSays(s, p, v)
  <2>1. SUFFICES ASSUME NEW k \in DOMAIN s, IsSync(s[k], p),
                        \A m \in DOMAIN s : m > k => ~IsSync(s[m], p)
                 PROVE  s[k].visible = v
    BY DEF LastSays
  <2>2. k + 1 \in DOMAIN q /\ IsSync(q[k + 1], p) /\ s[k] = q[k + 1] /\ k \in Nat
    BY <1>1, <1>2, <2>1
  <2>3. ASSUME NEW m \in DOMAIN q, m > k + 1 PROVE ~IsSync(q[m], p)
    <3>1. m # 1 /\ m - 1 \in DOMAIN s /\ s[m - 1] = q[m] /\ m - 1 > k
      BY <1>3, <2>2, <2>3, <1>1
    <3> QED
      BY <2>1, <3>1
  <2> QED
    BY <2>2, <2>3 DEF LastSays
<1>5. HasSync(s, p) => HasSync(q, p)
  BY <1>1, <1>2 DEF HasSync
<1>6. ~IsSync(Head(q), p) => (HasSync(s, p) <=> HasSync(q, p))
  BY <1>1, <1>3, <1>5 DEF HasSync
<1>7. ASSUME IsSync(Head(q), p), ~HasSync(s, p) PROVE Head(q).visible = v
  <2>1. 1 \in DOMAIN q /\ IsSync(q[1], p)
    BY <1>1, <1>7
  <2>2. \A m \in DOMAIN q : m > 1 => ~IsSync(q[m], p)
    BY <1>1, <1>3, <1>7 DEF HasSync
  <2> QED
    BY <1>1, <2>1, <2>2 DEF LastSays
<1> QED
  BY <1>4, <1>5, <1>6, <1>7 DEF s

\* A request that is no report, made or served, leaves the last words and the
\* panes that wait for a report as they were; so it does whatever it does to the
\* window of one pane, if that ends up told nothing, obeying or without entry.
LEMMA FollowAtPane ==
  ASSUME TypeOK, FollowInv, hidden' = hidden, NEW p \in Panes,
         \A q \in Panes : LastSays(queue', q, IsVisible(hidden[q])),
         \A q \in Panes \ {p} : HasSync(queue', q) <=> HasSync(queue, q),
         \A q \in Panes \ {p} : entry'[q] = entry[q] /\ window'[q] = window[q],
         window'[p] # None => (window'[p].shown => window'[p].told),
         (entry'[p] # None /\ window'[p] # None /\ ~HasSync(queue', p))
           => Obeys(window'[p], hidden[p])
  PROVE  FollowInv'
<1>1. ASSUME NEW q \in Panes
      PROVE  /\ window'[q] # None => (window'[q].shown => window'[q].told)
             /\ Live(q)' /\ ~HasSync(queue', q) => Obeys(window'[q], hidden'[q])
  <2>1. CASE q = p
    BY <2>1 DEF Live
  <2>2. CASE q # p
    <3>1. entry'[q] = entry[q] /\ window'[q] = window[q] /\ (HasSync(queue', q) <=> HasSync(queue, q))
      BY <2>2
    <3> QED
      BY <3>1 DEF FollowInv, Live
  <2> QED
    BY <2>1, <2>2
<1> QED
  BY <1>1 DEF FollowInv

\* A report about pane p is made: its word is the last one, and the pane waits.
LEMMA ReportFollows ==
  ASSUME TypeOK, FollowInv, NEW p \in Panes, NEW rs,
         Report(p, rs), UNCHANGED <<entry, window>>,
         hidden' = [hidden EXCEPT ![p] = rs]
  PROVE  FollowInv'
<1> DEFINE r == [op |-> "sync", pane |-> p, visible |-> IsVisible(rs)]
<1>1. r \in Request /\ IsSync(r, p) /\ \A q \in Panes \ {p} : ~IsSync(r, q)
  BY DEF Request, IsVisible, IsSync
<1>2. queue' = Append(queue, r) /\ queue \in Seq(Request) /\ r.visible = IsVisible(rs)
  BY DEF Report, Send, TypeOK
<1> HIDE DEF r
<1>3. hidden'[p] = rs /\ \A q \in Panes \ {p} : hidden'[q] = hidden[q]
  BY DEF TypeOK
<1>4. LastSays(queue', p, IsVisible(rs)) /\ HasSync(queue', p)
  BY <1>1, <1>2, AppendSays
<1>5. ASSUME NEW q \in Panes \ {p}
      PROVE  /\ LastSays(queue', q, IsVisible(hidden[q]))
             /\ HasSync(queue', q) <=> HasSync(queue, q)
  <2>1. LastSays(queue, q, IsVisible(hidden[q]))
    BY DEF FollowInv
  <2> QED
    BY <1>1, <1>2, <2>1, AppendSays
<1>6. ASSUME NEW q \in Panes
      PROVE  /\ LastSays(queue', q, IsVisible(hidden'[q]))
             /\ window'[q] # None => (window'[q].shown => window'[q].told)
             /\ Live(q)' /\ ~HasSync(queue', q) => Obeys(window'[q], hidden'[q])
  <2>1. CASE q = p
    BY <1>3, <1>4, <2>1 DEF FollowInv
  <2>2. CASE q # p
    BY <1>3, <1>5, <2>2 DEF FollowInv, Live
  <2> QED
    BY <2>1, <2>2
<1> QED
  BY <1>6 DEF FollowInv

\* Any other request is made.
LEMMA AskFollows ==
  ASSUME TypeOK, FollowInv, NEW r \in Request, Ask(r)
  PROVE  FollowInv'
<1>1. /\ queue' = Append(queue, r) /\ queue \in Seq(Request)
      /\ UNCHANGED <<entry, window, hidden>> /\ \A q \in Panes : ~IsSync(r, q)
  BY DEF Ask, Send, TypeOK, IsSync
<1>2. ASSUME NEW q \in Panes
      PROVE  /\ LastSays(queue', q, IsVisible(hidden[q]))
             /\ HasSync(queue', q) <=> HasSync(queue, q)
  <2>1. LastSays(queue, q, IsVisible(hidden[q]))
    BY DEF FollowInv
  <2> QED
    BY <1>1, <2>1, AppendSays
<1> QED
  BY <1>1, <1>2 DEF FollowInv, Live

\* What the queue says after the oldest request for p, of operation op, is taken.
LEMMA TakeFollows ==
  ASSUME TypeOK, FollowInv, NEW op, NEW p \in Panes, Take(op, p)
  PROVE  /\ hidden' = hidden
         /\ \A q \in Panes : LastSays(queue', q, IsVisible(hidden[q]))
         /\ \A q \in Panes \ {p} : HasSync(queue', q) <=> HasSync(queue, q)
         /\ op # "sync" => (HasSync(queue', p) <=> HasSync(queue, p))
         /\ (op = "sync" /\ ~HasSync(queue', p)) => Head(queue).visible = IsVisible(hidden[p])
<1>1. /\ queue \in Seq(Request) /\ queue # <<>> /\ queue' = Tail(queue)
      /\ Head(queue).op = op /\ Head(queue).pane = p /\ hidden' = hidden
  BY DEF TypeOK, Take
<1>2. ASSUME NEW q \in Panes
      PROVE  /\ LastSays(queue', q, IsVisible(hidden[q]))
             /\ ~IsSync(Head(queue), q) => (HasSync(queue', q) <=> HasSync(queue, q))
             /\ IsSync(Head(queue), q) /\ ~HasSync(queue', q)
                  => Head(queue).visible = IsVisible(hidden[q])
  <2>1. LastSays(queue, q, IsVisible(hidden[q]))
    BY DEF FollowInv
  <2> QED
    BY <1>1, <2>1, TailSays
<1> QED
  BY <1>1, <1>2 DEF IsSync

\* A report is served: the window obeys it, and it was the last word unless
\* another is under way.
LEMMA SyncFollows ==
  ASSUME TypeOK, FollowInv, NEW p \in Panes, Sync(p)
  PROVE  FollowInv'
<1> DEFINE v == Head(queue).visible
<1>1. /\ hidden' = hidden
      /\ \A q \in Panes : LastSays(queue', q, IsVisible(hidden[q]))
      /\ \A q \in Panes \ {p} : HasSync(queue', q) <=> HasSync(queue, q)
      /\ ~HasSync(queue', p) => v = IsVisible(hidden[p])
  BY TakeFollows DEF Sync
<1>2. CASE ~Live(p)
  <2>1. UNCHANGED <<entry, window>>
    BY <1>2 DEF Sync, Live
  <2> QED
    BY <1>1, <1>2, <2>1, FollowAtPane DEF FollowInv, Live
<1>3. CASE Live(p)
  <2> DEFINE w == [window[p] EXCEPT !.shown = v, !.told = TRUE]
  <2>1. /\ window' = [window EXCEPT ![p] = w]
        /\ entry' = [entry EXCEPT ![p].visible = v]
    BY <1>3 DEF Sync, Live
  <2>2. w.shown = v /\ w.told = TRUE
    BY <1>3 DEF Live, TypeOK, Window
  <2> HIDE DEF w, v
  <2>3. window'[p] = w /\ \A q \in Panes \ {p} : entry'[q] = entry[q] /\ window'[q] = window[q]
    BY <2>1 DEF TypeOK
  <2> QED
    BY <1>1, <2>2, <2>3, FollowAtPane DEF Obeys
<1> QED
  BY <1>2, <1>3

\* What is opened, navigated, closed or recreated at p has been told nothing,
\* was told what it was told before, or has no entry.
LEMMA OthersFollow ==
  ASSUME TypeOK, FollowInv, NEW p \in Panes,
         \/ \E op : op # "sync" /\ Take(op, p)
         \/ queue' = queue /\ hidden' = hidden,
         \A q \in Panes \ {p} : entry'[q] = entry[q] /\ window'[q] = window[q],
         \/ window'[p] = None
         \/ ~window'[p].shown /\ ~window'[p].told
         \/ /\ window[p] # None /\ window'[p].shown = window[p].shown
            /\ window'[p].told = window[p].told
            /\ entry'[p] # None => entry[p] # None
  PROVE  FollowInv'
<1>1. /\ hidden' = hidden
      /\ \A q \in Panes : LastSays(queue', q, IsVisible(hidden[q]))
      /\ \A q \in Panes : HasSync(queue', q) <=> HasSync(queue, q)
  <2>1. CASE \E op : op # "sync" /\ Take(op, p)
    BY <2>1, TakeFollows
  <2>2. CASE queue' = queue /\ hidden' = hidden
    BY <2>2 DEF FollowInv
  <2> QED
    BY <2>1, <2>2
<1>2. window'[p] # None => (window'[p].shown => window'[p].told)
  BY DEF FollowInv
<1>3. (entry'[p] # None /\ window'[p] # None /\ ~HasSync(queue', p))
        => Obeys(window'[p], hidden[p])
  BY <1>1 DEF FollowInv, Live, Obeys
<1> QED
  BY <1>1, <1>2, <1>3, FollowAtPane
\* browser_open, browser_navigate, browser_close and browser_recreate.
LEMMA CommandsFollow ==
  ASSUME TypeOK, FollowInv, NEW p \in Panes,
         Open(p) \/ Navigate(p) \/ Close(p) \/ Recreate(p)
  PROVE  FollowInv'
<1> DEFINE Elsewhere == \A q \in Panes \ {p} : entry'[q] = entry[q] /\ window'[q] = window[q]
           AsBuilt(w) == w = None \/ (~w.shown /\ ~w.told)
           AsBefore == /\ window[p] # None /\ window'[p] # None
                       /\ window'[p].shown = window[p].shown
                       /\ window'[p].told = window[p].told
                       /\ entry'[p] # None => entry[p] # None
<1>1. /\ entry \in [Panes -> Entry \cup {None}] /\ window \in [Panes -> Window \cup {None}]
      /\ \E op : op # "sync" /\ Take(op, p)
  BY DEF TypeOK, Open, Navigate, Close, Recreate
<1>2. \A old, params, url : \A s \in Spawned(old, params, url) :
        (s.window = old /\ ~s.ok) \/ AsBuilt(s.window)
  BY DEF Spawned, Built
<1>3. \A old, params, url : \A s \in Spawned(old, params, url) :
        s.ok => AsBuilt([s.window EXCEPT !.onTop = TRUE])
  <2>1. \A params, url : /\ [Built(params, url) EXCEPT !.onTop = TRUE].shown = FALSE
                         /\ [Built(params, url) EXCEPT !.onTop = TRUE].told = FALSE
    BY DEF Built
  <2>2. \A old, params, url : \A s \in Spawned(old, params, url) :
          s.ok => \E u : s.window = Built(params, u)
    BY DEF Spawned
  <2> QED
    BY <2>1, <2>2
<1>4. CASE UNCHANGED <<entry, window>>
  <2>1. Elsewhere /\ (window'[p] = None \/ AsBefore)
    BY <1>4
  <2> QED
    BY <1>1, <2>1, OthersFollow
<1>5. CASE Open(p) /\ entry[p] = None
  <2>1. PICK s \in Spawned(window[p], Head(queue).params, Head(queue).url) :
          /\ window' = [window EXCEPT ![p] = s.window]
          /\ entry' = IF s.ok THEN [entry EXCEPT ![p] = FreshEntry(Head(queue).params,
                                                                  Head(queue).url)]
                      ELSE entry
    BY <1>5 DEF Open
  <2>2. Elsewhere
    BY <1>1, <2>1
  <2>3. window'[p] = s.window /\ (~s.ok => entry'[p] = entry[p])
    BY <1>1, <2>1
  <2>4. AsBuilt(window'[p]) \/ AsBefore
    BY <1>2, <2>1, <2>3
  <2> QED
    BY <1>1, <2>2, <2>4, OthersFollow
<1>6. CASE Navigate(p) /\ ~UNCHANGED <<entry, window>>
  <2>1. /\ window' = [window EXCEPT ![p].url = Head(queue).url]
        /\ entry' = [entry EXCEPT ![p].url = Head(queue).url]
        /\ entry[p] # None /\ window[p] # None
    BY <1>6 DEF Navigate
  <2>2. Elsewhere
    BY <1>1, <2>1
  <2>3. window'[p].shown = window[p].shown /\ window'[p].told = window[p].told
    BY <1>1, <2>1 DEF Window
  <2> QED
    BY <1>1, <2>1, <2>2, <2>3, OthersFollow
<1>7. CASE Close(p) /\ entry[p] # None
  <2>1. entry' = [entry EXCEPT ![p] = None]
    BY <1>7 DEF Close
  <2>2. CASE window' = window
    <3>1. Elsewhere /\ (window'[p] = None \/ AsBefore)
      BY <1>1, <2>1, <2>2
    <3> QED
      BY <1>1, <3>1, OthersFollow
  <2>3. CASE window' # window
    <3>1. PICK w \in Destroyed(window[p]) : window' = [window EXCEPT ![p] = w]
      BY <1>7, <2>3 DEF Close
    <3>2. Elsewhere
      BY <1>1, <2>1, <3>1
    <3>3. window[p] # None /\ window[p] \in Window
      BY <1>1, <1>7, <2>3 DEF Close
    <3>4. window'[p] = None \/ (window'[p].shown = window[p].shown /\ window'[p].told = window[p].told)
      BY <1>1, <3>1, <3>3 DEF Destroyed, Window
    <3>5. entry'[p] = None
      BY <1>1, <2>1
    <3> QED
      BY <1>1, <3>2, <3>3, <3>4, <3>5, OthersFollow
  <2> QED
    BY <2>2, <2>3
<1>8. CASE Recreate(p) /\ Live(p)
  <2>1. PICK w \in Destroyed(window[p]) :
          \E s \in Spawned(w, Head(queue).params, TransferredUrl(p)) :
            /\ window' = [window EXCEPT ![p] =
                            IF s.ok THEN [s.window EXCEPT !.onTop = TRUE] ELSE s.window]
            /\ entry' = [entry EXCEPT ![p] =
                           IF s.ok THEN FreshEntry(Head(queue).params, TransferredUrl(p))
                           ELSE None]
    BY <1>8 DEF Recreate, Live
  <2>2. PICK s \in Spawned(w, Head(queue).params, TransferredUrl(p)) :
            /\ window' = [window EXCEPT ![p] =
                            IF s.ok THEN [s.window EXCEPT !.onTop = TRUE] ELSE s.window]
            /\ entry' = [entry EXCEPT ![p] =
                           IF s.ok THEN FreshEntry(Head(queue).params, TransferredUrl(p))
                           ELSE None]
    BY <2>1
  <2>3. Elsewhere
    BY <1>1, <2>2
  <2>4. CASE s.ok
    <3>1. AsBuilt(window'[p])
      BY <1>1, <1>3, <2>2, <2>4
    <3> QED
      BY <1>1, <2>3, <3>1, OthersFollow
  <2>5. CASE ~s.ok
    <3>1. window'[p] = s.window /\ entry'[p] = None
      BY <1>1, <2>2, <2>5
    <3>2. window[p] # None /\ window[p] \in Window
      BY <1>1, <1>8 DEF Live
    <3>3. w = None \/ (w.shown = window[p].shown /\ w.told = window[p].told)
      BY <2>1, <3>2 DEF Destroyed, Window
    <3>4. AsBuilt(window'[p]) \/ window'[p] = w
      BY <1>2, <2>2, <3>1
    <3> QED
      BY <1>1, <2>3, <3>1, <3>2, <3>3, <3>4, OthersFollow
  <2> QED
    BY <2>4, <2>5
<1> QED
  BY <1>4, <1>5, <1>6, <1>7, <1>8 DEF Open, Close, Recreate, Live

\* Every step keeps the controller's word.
LEMMA FollowNext == TypeOK /\ FollowInv /\ [Next]_vars => FollowInv'
<1> SUFFICES ASSUME TypeOK, FollowInv, [Next]_vars PROVE FollowInv'
  OBVIOUS
<1>1. ASSUME NEW p \in Panes, NEW reason \in Reasons, NEW hide \in BOOLEAN,
             SetFlag(p, reason, hide)
      PROVE  FollowInv'
  BY <1>1, ReportFollows DEF SetFlag
<1>2. ASSUME NEW p \in Panes, Moved(p) PROVE FollowInv'
  <2>1. hidden' = [hidden EXCEPT ![p] = hidden[p]]
    BY <1>2 DEF Moved, TypeOK
  <2> QED
    BY <1>2, <2>1, ReportFollows DEF Moved
<1>3. ASSUME NEW p \in Panes, Reap(p) \/ Lose(p) PROVE FollowInv'
  <2>1. /\ window'[p] = None /\ queue' = queue /\ hidden' = hidden
        /\ \A q \in Panes \ {p} : entry'[q] = entry[q] /\ window'[q] = window[q]
    BY <1>3 DEF Reap, Lose, TypeOK
  <2> QED
    BY <2>1, OthersFollow
<1>4. CASE UNCHANGED vars
  BY <1>4 DEF vars, FollowInv, Live
<1> QED
  BY <1>1, <1>2, <1>3, <1>4, AskFollows, SyncFollows, CommandsFollow DEF Next, Serve

\* An overlay never covers the application: with no report under way its window
\* is shown only if the pane has no reason to hide it, and exactly then once it
\* has been told, for any panes and any number of requests under way.
THEOREM OverlaysFollowPanes == Spec => []FollowsPane
<1>1. Init => FollowInv
  BY DEF Init, FollowInv, Live, LastSays
<1>2. Spec => []FollowInv
  BY <1>1, FollowNext, TableTrue, PTL DEF Spec
<1>3. FollowInv => FollowsPane
  <2> SUFFICES ASSUME FollowInv, NEW p \in Panes, Live(p), ~SyncPending(p)
               PROVE  /\ window[p].shown => IsVisible(hidden[p])
                      /\ window[p].told => (window[p].shown <=> IsVisible(hidden[p]))
    BY DEF FollowsPane
  <2>1. ~HasSync(queue, p)
    BY DEF SyncPending, HasSync, IsSync
  <2> QED
    BY <2>1 DEF FollowInv, Obeys, Live
<1> QED
  BY <1>2, <1>3, PTL
-----------------------------------------------------------------------------
\* A recreate that gives an overlay other parameters keeps its address, and the
\* window it leaves was built for them and is raised.
LEMMA RecreateKeepsPage ==
  ASSUME TypeOK, [Next]_vars, NEW p \in Panes,
         entry[p] # None, entry'[p] # None, entry'[p].params # entry[p].params
  PROVE  /\ entry'[p].url = entry[p].url
         /\ window'[p] # None
         /\ window'[p].params = entry'[p].params /\ window'[p].onTop
<1>1. entry \in [Panes -> Entry \cup {None}] /\ window \in [Panes -> Window \cup {None}]
  BY DEF TypeOK
<1>2. ASSUME NEW q \in Panes, Open(q) PROVE FALSE
  BY <1>1, <1>2 DEF Open
<1>3. ASSUME NEW q \in Panes, Navigate(q) \/ Sync(q) PROVE FALSE
  BY <1>1, <1>3 DEF Navigate, Sync, Entry
<1>4. ASSUME NEW q \in Panes, Close(q) PROVE FALSE
  BY <1>1, <1>4 DEF Close
<1>5. ASSUME \/ \E r \in Request : Ask(r)
             \/ \E q \in Panes : \/ Moved(q) \/ Reap(q) \/ Lose(q)
                  \/ \E reason \in Reasons, hide \in BOOLEAN : SetFlag(q, reason, hide)
             \/ UNCHANGED vars
      PROVE  FALSE
  BY <1>5 DEF Ask, Moved, Reap, Lose, SetFlag, vars
<1>6. PICK q \in Panes : Recreate(q)
  BY <1>2, <1>3, <1>4, <1>5 DEF Next, Serve
<1> DEFINE params == Head(queue).params
           url == TransferredUrl(p)
<1>7. q = p /\ window[p] # None
  BY <1>1, <1>6 DEF Recreate
<1>8. PICK w \in Destroyed(window[p]) : \E s \in Spawned(w, params, url) :
        /\ window' = [window EXCEPT ![p] =
                        IF s.ok THEN [s.window EXCEPT !.onTop = TRUE] ELSE s.window]
        /\ entry' = [entry EXCEPT ![p] = IF s.ok THEN FreshEntry(params, url) ELSE None]
  BY <1>6, <1>7 DEF Recreate
<1>9. PICK s \in Spawned(w, params, url) :
        /\ window' = [window EXCEPT ![p] =
                        IF s.ok THEN [s.window EXCEPT !.onTop = TRUE] ELSE s.window]
        /\ entry' = [entry EXCEPT ![p] = IF s.ok THEN FreshEntry(params, url) ELSE None]
  BY <1>8
<1>10. s.ok /\ entry'[p] = FreshEntry(params, url)
       /\ window'[p] = [s.window EXCEPT !.onTop = TRUE]
  BY <1>1, <1>9
<1>11. w \in Window \cup {None} /\ url \in Urls \cup {BadUrl, None} /\ params \in Params
  BY <1>1, <1>6, <1>7, <1>8, DestroyedWindow, TakeType, RequestFields
  DEF Entry, TransferredUrl, Recreate
<1>12. s.window = Built(params, IF url = None THEN Blank ELSE url) /\ s.window \in Window
  <2>1. s \in Spawned(w, params, url)
    BY <1>9
  <2> HIDE DEF params, url
  <2> QED
    BY <1>10, <1>11, <2>1, SpawnedAsAsked
<1>13. window'[p] \in Window /\ window'[p].params = params /\ window'[p].onTop
  <2>1. s.window.params = params
    BY <1>12 DEF Built
  <2> HIDE DEF params, url
  <2> QED
    BY <1>10, <1>12, <2>1 DEF Window
<1>14. window'[p] # None
  BY <1>13, NoneAssumption
<1> QED
  BY <1>10, <1>13, <1>14 DEF FreshEntry, TransferredUrl

\* Turning a parameter on never changes the page, whatever the parameters and
\* the addresses are.
THEOREM RecreatesTransfer == Spec => RecreateTransfers
<1>1. TypeOK /\ [Next]_vars =>
        [\A p \in Panes :
           (entry[p] # None /\ entry'[p] # None /\ entry'[p].params # entry[p].params)
             => /\ entry'[p].url = entry[p].url
                /\ window'[p] # None
                /\ window'[p].params = entry'[p].params /\ window'[p].onTop]_vars
  BY RecreateKeepsPage
<1> QED
  BY <1>1, TableTrue, PTL DEF Spec, RecreateTransfers

=============================================================================
