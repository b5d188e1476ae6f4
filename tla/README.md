# weftgrid in TLA+

TLA+ models of [weftgrid](../src/README.md), a desktop workspace of terminals,
browser panes and SSH sessions: a Rust backend (`src-tauri/src`) under a
TypeScript/Svelte frontend (`src`), joined by Tauri's bridge. Each module is
written from the source; TLC checks it on a small instance and TLAPS proves the
theorems listed below for every value of the constants. `PROJECT.json` is the
index: which definition stands for which lines, which run checks what, and which
hazard of the code is covered by which property.

    tlc  -workers 2 -config MCPtyPipeline.cfg MCPtyPipeline    # a run
    tlapm ServicesProofs.tla                                    # the proofs of a module

## 1. The system

### Components, their state and their operations

| Component | State | Operations | What is hard | What makes it right |
|---|---|---|---|---|
| PTY backend (`pty/`) | table of panes, pause flag and child of each, set of taken reader slots, hub of output buffers | spawn, write, resize, kill, pause; a reader thread per pane; one flusher thread | three kinds of thread share tables keyed by pane id, and ids are used again | slots and threads agree; output in order, once, complete; one end marker, last |
| Terminal session (`terminal/xterm-wrapper.ts`, `backpressure.ts`) | count of unparsed chunks, paused, closed | spawn, handle output, watermarks, dispose | requests and output cross the bridge in opposite directions | backpressure lets go; the two ideas of "paused" agree; the exit is reported |
| SSH sessions (`ssh/`) | map of connections; per connection a supervisor, a status, an opener, a host key | connect, disconnect, reconnect with backoff | awaits between reading and writing the map; retries; a key that changes | one supervisor per id; "connected" is true; retries counted; the key checked |
| Workspace store (`config/workspace_store.rs`, `sidebar/workspace-nav.ts`) | rows and the selected index | add, remove, reorder, select; drag, step | indices that are stale when they arrive; boundaries | the selection names the row in front; the order changes only where asked |
| Browser overlays (`browser/`, `browser/browser-pane.ts`) | a table of overlays beside the windows that exist; reasons to hide | open, navigate, sync, close, recreate | windows come and go by themselves; commands fail half-way | the table tells the truth; the window follows the pane |
| Configuration (`config/`) | config, key registry and trusted commands, in memory and on disk | get, set, rebind, check and grant trust | crashes and errors between file operations; a panel with an old copy | a restart finds what was saved; nothing runs unasked |
| Panes (`panes/`) | split tree, tabs, focus | split, close, resize, equalize, focus moves | tree surgery; layouts the renderer hears of late | tree well-formed and in reading order; scrollback kept; a focus key fails only at an edge |
| Notifications (`notify/`, `notifications/`) | unread list, ring of each pane, OSC scanner | ingest, mark read, clear, snapshot | a snapshot racing with events; escapes cut over chunks | ring = unread; no sequence lost |
| SOCKS broker (`ssh/socks_broker.rs`, `ssh/socks.rs`) | the opener in its slot; per client, where its handshake stands | accept, negotiate, connect, relay, swap the opener | bytes in pieces; an opener that goes stale during a handshake | a tunnel leads where the client asked, through the live session, and every refusal is answered |
| Sidebar (`sidebar/`) | three maps of a workspace, transient state per panel, two toggles | report, forget, scan, overlay | reports, focus and forgetting in any order; a cap | a row shows the latest report of the panel in front |
| Agent RPC (`agent_rpc/`, `crates/weft-cli`) | token file, endpoint file, socket | start, accept, authenticate, dispatch; the weft command | restarts and second instances between files | a client that finds an endpoint finds its token; only the right token is served |
| Reliability (`reliability/`) | retry budgets, a CDP session, log and crash files | on failure, recreate, restore, cooldown, reconnect; sweep; redact | failures inside a recovery; clocks set back; three passes over one text | bounded retries, no failure lost; the newest files stay; no secret on disk |
| Browser import (`import/`) | consent; the other browser's files | list, import cookies, import history | three time bases, duplicates, filters | what is handed over is what was stored and asked for |
| Session (`config/session.rs`) | session.json; policy and last command of a pane | persist, restore, shells to spawn | a crash between two file operations | a start runs what the user had chosen to run again, and nothing else |
| Command palette (`command-palette/`, `palette/`) | query, results | search, run | answers that arrive out of order | results belong to the query |
| Automation, VM client, app shell | none of their own, or files | | I/O, parsing, wiring | |

### How they interact

* The frontend calls the backend with `invoke`. Commands declared `fn` run on
  the main thread, one after the other and in the order in which they were sent;
  `ssh_connect`, which is declared `async fn`, runs as a task and interleaves at
  every `await`. Replies and events reach the frontend later.
* A terminal session opens a channel with `pty_spawn`; its output is pushed by
  the flusher thread, an empty batch meaning the shell is gone. `pty_pause` and
  `pty_resume` travel the other way.
* The PTY backend's hub, pool and table are three maps, each under a lock of
  its own and keyed by the pane id the frontend chose.
* A supervisor of an SSH connection swaps the opener of the SOCKS broker; browser
  overlays are recreated with the broker's address as their proxy.
* Sidebar gestures and the settings panel compute what to send from a copy they
  fetched earlier.
* `ConfigState` is one mutex over the config, its store, the workspaces, the
  trust store and the key registry; the workspaces are not persisted by it.

## 2. The modules

Names follow the source. Each module declares its constants with a named
`ASSUME`, one action per operation, and its properties at the end. A definition
named "Mutant of X" in its comment is a plausible wrong version of X; each
property is shown to fail under one of them.

The theorems about a module are in a module of their own that extends it:
TerminalFlowProofs has those of PtyPipeline and TerminalFlow, NotificationsProofs
those of Panes, PaneRenderer and Notifications, ServicesProofs those of Recovery,
SessionRestore, LogRetention, Sidebar, SocksBroker, OscScanner and Redaction, and
the others are named after their component.

### PtyPipeline: the output pipeline

Every spawn attempt is an *incarnation* with a number; pane ids are reused by
later ones. `handle` is `PtyManager.panes`, `active` is `ReaderPool.active`,
`hub` is `CoalescerHub.panes`, `sent[i]` what the sink of incarnation i received.
A command of the main thread is several steps, one per lock it takes (`cmd`
says where it stands): register the sink, admit the reader (or take the entry
back), insert the handle; and for a kill: remove the handle, unhook the sink,
kill the child. A reader thread checks the pause flag, reads, hands over data or
the end of the stream and releases its slot. The flusher takes due buffers.
A chunk is a pair (incarnation, number), so that order, loss and duplication can
be seen. `overlap` is history: incarnations whose pane id had another live reader.

### TerminalFlow: one terminal over the pipeline

EXTENDS PtyPipeline and drives its commands from a queue of requests instead of
freely. Watermarks are counted in chunks. `stage` follows a session from open
over the awaited kill to disposed.

### SshConnections

The n-th `ssh_connect` call owns connection n. `call` is where a call stands
between its awaits, `connections` the map, `sup` where a supervisor stands in
`supervise`. Aborting a task takes effect at its next await, so `aborted` is a
flag and the steps check it. `dials`, `sessionKey` and `rejected` are history. A
redial that fails for want of a route, by a changed host key or by rejected
credentials is one `DialFails`, as it is one `Err` to the supervisor, which
counts them all as attempts; `rejected` remembers that the credentials were it.
A dial may also never return: the client is built with the library's default
configuration (client.rs:84), which has no timeout.

### Workspaces

Rows count from 1 and 0 is "nothing selected". A gesture (`nav[g]`) takes a
snapshot in one step and sends its command in a later one, so the indices it
sends may be stale; `seen` keeps the snapshot as history.

### Overlays

`entry` is the manager's table, `window` what really exists under the label of a
pane. A destroyed window may keep its label until the event loop comes round
(`Reap`), a window may be lost (`Lose`), an address that does not parse fails
after the window was built. The controller's reports travel through `queue`.

### Configuration

`disk` holds, per directory, config.json and trusted-commands.json; `op` is the
file operation the main thread is in, so that the process can die (`Crash`) or
the operation fail in between. config.json.tmp is not a variable: nothing reads
it. The settings panel keeps the config it was mounted with. Chords are
sequences of tokens, and `NormalizeChord` is what `normalize_chord` does to
them. A document has one field for all settings but the chords. Of several
commands of one name in a weft.json the palette shows the last (`mergeRegistry`)
and the trust gate looks up the first (state.rs:114-118, 130-134), so a run
carries both: `cmd`, which would run, and `found`, which is decided about; where
names are distinct they are the same. The text of a file, and so the pair, may be
another one at every run. `approved` is history: what the user said "trust" to.

### Panes and Notifications

A tree is a function from paths (`<<"first", "second">>`) to nodes, so that an
operation is a change of the function's domain. SplitTree has the operations on
trees and the focus moves as operators: fractions count tenths, the workspace is
wide enough for every cut to be exact, and focus is a function of a tree, a path
and a direction and has no state. Panes adds the steps and what a render comes to:
`hosts` is what the renderer has mounted since the last one, `content` the hosts
with scrollback to lose.

PaneRenderer is how `render` gets there: it builds a skeleton leaf by leaf, with
the host element a pane has or a new one (`BuildPane`), puts it in the place of the
old (`Swap`) and evicts the hosts it has not come by, one by one (`Evict`).
Scrollback belongs to an element and not to a pane, so that a pane that is given
another element has lost it. It is shown to implement Panes under a refinement
mapping in which a render happens at the swap and the hosts about to be evicted are
gone already. `render` is one synchronous script, so nothing else happens
meanwhile; the hooks it calls are injected and taken to return.

Notifications EXTENDS Panes: `latest` is the manager's table, `ringState` and
`shown` the renderer's flags and the hosts they decorate. Commands, events and
the answer to `notify_pane_state` are under way separately. `misled` is history:
panes whose view was last set by an answer that an event had overtaken.

### AgentRpc

Each launch of the app is an element of `Apps`. `tokenFile`, `endpointFile` and
`listener` are what a crash leaves behind; the start is one step per file
operation, an open that truncates and a write being two. A run of the weft
command reads the token, reads the endpoint, connects, and waits for one reply;
the app may start, die or lose its transport between any two of these. A token is
a short sequence of bytes, since `constant_time_eq` is modelled by what it
computes: it compares the lengths by their low byte only (auth.rs:137), which is
why `SecretAssumption` bounds them by 255. `overlapped` is history: apps that
were alive together with another one.

### BoundedRetry and Recovery

BoundedRetry is an abstract specification: a resource that failed comes back only
by an attempt, once for each, and at most `Max` attempts are made between two
refills. Recovery is the guard with the handlers of webviews and overlays, step
by step, the CDP reconnect loop and the exit watchdog. Both kinds of recovery are
shown to implement BoundedRetry, each under its refinement mapping: an attempt of
a guard is `phase = "recreate"`, one of the loop is `cdp = "connecting"`, and the
loop's budget counts the attempt that is being made. The program wires none of this
to a real surface yet: platform events, the handlers' backends and the connect of
the loop are injected (reliability/mod.rs:22-25).

### OscScanner, SocksBroker, Redaction, LogRetention, Sidebar, BrowserImport, SessionRestore

Seven parts of the backend that share no state with each other, nor with
Recovery. Their state and steps carry the part in their names (`OscInit`,
`SocksNext`, ...), and MCServices puts them into one run: the variable `part`
chooses one at the start and the others stay where they begin, so that the
state spaces add up and do not multiply.

* **OscScanner**: what programs print in two panes, built by `notify_build_osc`
  or noise, reaches `notify_ingest_bytes` in pieces of any length. The scanner's
  four states are those of the code, the buffer's limit is counted in tokens.
* **SocksBroker**: clients send a script of bytes in pieces of any length; the
  exchange is read phase by phase, and what comes behind the request is payload.
  The opener is copied when a client is accepted and swapped at any time; the
  model lets a session drop at any time too.
* **Redaction**: a record is any sequence of up to four tokens of fourteen kinds,
  and the three passes are folds over tokens that do what the passes do to the
  strings a token stands for: what a key's value skips and where it ends, and a
  header's, are told apart (`quote`, `comma`, `semi`). What the passes hide is the
  *first part* of a value, up to its first blank, quote or other terminator; that a
  quoted value is longer than that is told in section 3.
* **LogRetention**: starts, writes, days and clocks set back; one entry that cannot
  be read ends the sweep before anything is deleted, a file that cannot be deleted
  stays and the sweep goes on, and files of one age are listed in any order.
* **Sidebar**: a report, a focus change or a forgetting is a step; the overlay of
  a row is an operator. The two scans are two steps each, so that a toggle may be
  turned off while one is under way.
* **BrowserImport**: the stores of two browsers in several conditions, consent
  and the live flag; each command is one step whose answer is kept with what was
  asked. `CATALOG` is the table of the code.
* **SessionRestore**: persist is three steps (a truncating open, the write, the
  rename), and the process may die before each. A start may find the file, not see
  it, or see it and fail to read it; the last two open no shell.

## 3. What the runs show

| Run | Instance | Distinct states | Checks |
|---|---|---|---|
| pty_pipeline | 2 panes, a pool of 1, 2 spawns, shells that write 2 chunks | 102 thousand | SlotAccounting, OutputFaithful, NothingAfterEof, DeadShellFreesSlot, ClosedEntryFinalised |
| terminal_flow | 1 session, 4 chunks, high-water mark 3, low-water mark 1 | 13 thousand | BackpressureSound, EveryChunkRendered, ExitReported |
| ssh_connections | 1 id, 2 calls, 2 attempts, 2 drops, 1 key change | 273 thousand | SupervisionSound, ConnectedUsesCurrentSession, ReconnectKeepsHostKey, DropResolved |
| workspaces | 3 ids, 2 gestures under way | 913 thousand | RowsSound, RowsMoveAsAsked |
| overlays | 1 pane, 2 parameter sets, 2 addresses, 2 requests under way | 146 thousand | BookkeepingTrue, FollowsPane, RequestsHonoured |
| configuration | 1 action, 2 chords to type, 2 values of the other settings, 2 requests under way, 3 commands of one name (two texts, and one that asks every time) | 708 thousand | CrashSafe, MemoryOnDisk, GateHolds, NewerConfigUntouched |
| notifications | 3 panes, one of which prints and is notified of, dividers asked for at 0 and 5 tenths, 1 command and 1 event under way | 330 thousand | LayoutSound, OthersStay, RingSettles |
| pane_renderer | 3 panes, two of which print, 4 elements | 27 thousand | DrawnAsLaidOut, RendererImplementsPanes |
| agent_rpc | 2 launches of the app, 1 weft command after another, 2 transports | 91 thousand | SessionsSound, SoleSessionReachable, WireInSync, CommandEnds |
| services | see below | 362 thousand | RecoverySound, DownIsAccounted, BudgetsKept, DeliveredAsBuilt, ProxyKeepsItsWord, FirstPartsStayInMemory, SweepKeepsTheNewest, RowsShowTheLatest, ImportedAsStored, StartsAsSaved |

Several of these are conjunctions whose parts are stated one by one in the
module: OutputFaithful is InOrderOnce and EofComplete; SupervisionSound is the
typing, OneSupervisorPerId and AttemptsCounted; RowsSound is the typing and
SelectionValid, RowsMoveAsAsked is RemovalKeepsLooking, OthersKeepOrder and
DragLands; RequestsHonoured is RecreateTransfers and CloseForgets; LayoutSound
is the typing and FocusStopsAtEdge; SessionsSound is the typing, OnlyOwnSession
and UnauthorizedMeansRestart; BudgetsKept is the refinement of BoundedRetry
twice, and RendererImplementsPanes that of Panes. AttemptsCounted makes an
exception of connections whose credentials were rejected, of which the code and
its comments say different things (below). The typing of PtyPipeline, Overlays
and Configuration is proved (section 5).

Why the bounds are enough for what is asked:

* **pty_pipeline**: two spawns are what it takes for an id to be used again while
  its older reader winds down; the first is for a fixed one of the two panes
  (`FirstPane`), which are alike; a pool of one is full at once; two chunks with a
  size cap of two give a batch flushed by size and one by the window.
* **terminal_flow**: four chunks cross a mark of three and fall back to one; the
  session may be disposed at any of those points. Reuse of a pane id is left to
  pty_pipeline, and the properties speak of sessions with an id of their own.
* **ssh_connections**: two calls race for one id, with disconnects in any number;
  two drops with two attempts each reach exhaustion and a second reconnect; one
  key change comes before or after the fingerprint was learned.
* **workspaces**: with three rows the selected one has a row before and after it,
  which is where every off-by-one lives; a second gesture makes the first stale.
* **overlays**: two requests are enough for a report to race a close, a recreate
  or another report. One pane is enough because no operation touches two labels.
* **configuration**: a request can wait while another is being saved. Two texts of
  one name are an edit of a command, or, in one file, the one the palette shows and
  the one the gate finds. The constraint `OneAtATime` keeps custom commands from
  running while the settings panel is in use, and lets all three run only while the
  settings are as they were: the two share the main thread and the process, not
  data. What either leaves on disk is explored with the other.
* **notifications**: three panes are where a close first moves a subtree and a
  focus key first has to choose; 0 is an illegal divider and gives the most
  lopsided legal one. One command, one event and one answer under way are enough
  for an answer to be overtaken. A pane's ring touches no other pane's, so one
  pane is notified of; the silent ones are symmetric.
* **pane_renderer**: any number of operations between two renders, so that a pane
  may be closed and opened again, or take another's place; there is one element
  more than there are panes, so that a new one can always be had while the old
  skeleton is still in the container.
* **agent_rpc**: two launches are one restart or two instances side by side; one
  weft command, run again and again, meets both. The commands typed are one the
  dispatcher knows, one of another domain, one that is too long for a frame and
  one that does not parse.
* **services**: three failures of a surface, each reported once or twice, exhaust a
  budget of two and go on; surfaces share no state, so one stands for all. Two panes
  that print three things, a buffer of six tokens, which one request overflows; one
  client and two sessions, ten kinds of request and every way to cut them; four
  tokens are a name, a separator, a quote and a value; two files kept, two days of
  age, four days; one workspace, two panels, a tail of two lines with three logged
  and two values of progress; six cookies with duplicates, ties and both kinds of
  expiry; two panes and two saves. `ScansApart` explores the sidebar's scans, what
  the store keeps and the transient reports apart: none of them touches what another
  writes.

Deadlock is checked in overlays, configuration, notifications and
pane_renderer. The others may stop: their shells, drops, ids, launches or
failures are bounded.

### Where code and documents disagree

Two more runs each check one statement of a comment, and TLC finds it violated:

| Run | Statement | What happens |
|---|---|---|
| dispose_leaks_reader | a reader comes to the end of its stream and frees its slot (reader.rs) | A terminal disposed while it is paused takes the flag with it; its reader sleeps on it for ever, with the slot and the pane id. |
| reorder_moves_selection | "Selection follows the moved workspace so the user keeps looking at the same row" (workspace_store.rs) | Moving a row across the selected one leaves the index behind, on another row. |

The liveness statement of dispose_leaks_reader is checked under the fair
specification; the other is safety.

Further disagreements the models contain, without a run of their own. The
properties beside them are stated of what holds, and say where they stop:

* reconnect.rs:31, `Failed` is "Retries exhausted (or fatal auth failure)", and :117,
  rejected credentials "go straight to `Failed`", which the test `fatal_skips_retries`
  (:213) holds the type to: `supervise` gives every failed redial to
  `record_attempt_failed` (session.rs:185) and nothing calls `record_fatal`, so
  rejected credentials are tried until the budget is spent. AttemptsCounted says
  nothing of how often they are.
* custom-command-runner.ts:8-11, a command of a project is never run unasked, and
  weft_trust.rs:15, an edit asks again: with two commands of one name in a weft.json
  (weft_config.rs:132-139 does not refuse that) the one the palette shows, the last,
  runs on the trust given to the first (state.rs:114-118, 130-134). GateHolds is
  about the command the gate looks up, and about the one that runs where both are
  the same.
* rotation.rs:71-73, the scan skips "any unreadable entry": the first such entry ends
  the whole sweep (:80, :90), at every start, and files that are too old stay.
  SweepKeepsTheNewest bounds what is left only after sweeps that could read all.
* redaction.rs:1-7, "never let a secret value reach disk", and over-redact when in
  doubt: of a value in quotes, as in `"key": "two words"`, only what stands before
  its first blank is hidden (:223-231), of `Cookie: a=1; b=2` only the first part,
  and of an Authorization header what comes before its first quote or comma
  (:237-245). The rest is written to the log. FirstPartsStayInMemory is about the
  first part.
* coalescer.rs:89, "Signal the shell/PTY closed": a spawn registers its sink under
  an id whose older reader is still winding down; that reader's end of stream
  closes the new entry, and a running shell is reported closed.
* overlay-recreate-state-transfer.rs:11-13, create, then swap, then destroy the old
  window: the old window goes first, and when the creation fails the pane has
  neither.
* settings-panel.svelte:34-35, a full save "is fine and keeps logic simple": the
  panel's copy does not know a chord that was just set beside it, and its next
  save undoes it.
* recovery.rs:46-49, repeat events of one crash are duplicates "until the recovery
  completes": a repeat that is handled after it completed rebuilds a surface that
  stands, and spends a retry.
* server.rs:99-100, binding removes "any stale socket file": it does not ask
  whether the file is stale, and takes the socket of a second instance away.
* scanner.rs:101, a bare escape in a body is to be treated "as the start of a
  possible new introducer" and is, but only if another escape follows: `ESC ]`
  behind an unfinished sequence loses the sequence it begins.
* catalog.rs:285-287, without a default profile Firefox "falls back to the first
  profile dir that has a `cookies.sqlite`": the code returns nothing.
* import/types.rs:23, of a WebKit browser "history only" can be imported: the
  commands read neither its cookies nor its history (catalog.rs:337).

## 4. Fairness

Fairness is assumed only of what the program's own scheduling runs:

* the main thread finishes the command it is in and serves the next request
  (Tauri's event loop): weak fairness of `CommandStep` and `Serve`;
* the flusher is a loop with a sleep, so `FlushTick` and, for the coalescing
  window of a pane, `WindowElapses` come round;
* a reader thread is a loop: weak fairness of its steps, and strong fairness of
  a read, because a pause may disable it between two;
* a shell that was killed, or whose terminal hung up, exits;
* the frontend's event loop delivers messages and xterm calls back when it has
  parsed (`OnOutput`, `OnFlushed`), and an awaited kill is answered;
* the runtime polls every supervisor task. Nothing is assumed of its dials: no
  timeout surrounds them (client.rs:84), so one may hang for ever. DropResolved
  therefore speaks of connections whose dials always end; a redial that does
  not return leaves its connection in `Reconnecting`;
* the overlay commands are served;
* the start of the RPC server runs to its end or fails, the accept loop and each
  connection are tasks of the runtime, and the weft process runs.

Nothing is assumed of the user, of what a shell writes or when it exits by
itself, of the network, of crashes, of windows that go away, or of the event loop
letting go of a label. Workspaces, Configuration and Notifications state no
liveness: RingSettles speaks of the states in which nothing is under way. Nor does
Recovery: nothing enters the CDP loop yet, and nothing says that an injected connect
returns; how often the loop tries is part of BudgetsKept.

One assumption about order is used throughout: requests to commands that run on
the main thread are executed in the order in which the frontend made them.

## 5. What is proved

TLAPS, for all values of the constants that the `ASSUME`s allow (non-empty or
finite sets where the code has them, distinct sentinels, natural bounds):

| Theorem | States | Argument |
|---|---|---|
| TerminalFlowProofs!TypeCorrect | `Spec => []TypeOK` | `TypeInv` adds to TypeOK where the command on the main thread stands: an incarnation beyond the last spawn has never been touched, so its reader and shell are "none". |
| TerminalFlowProofs!SlotsAccounted | `Spec => []SlotAccounting` | `SlotInv` adds that the incarnation about to be admitted has no thread yet; without it an admission could be a second thread under one incarnation. The cap is carried over from the set to the threads by a bijection. |
| TerminalFlowProofs!EofIsLast | `Spec => []NothingAfterEof` | `EofInv` says that a sink that is still in the hub, or about to be registered, has not had its end marker, and that no two entries share a sink: a finalised entry leaves the hub in the same step. |
| TerminalFlowProofs!ChunksInOrderOnce | `Spec => []InOrderOnce` | The *stream* of a sink is what it received and, behind it, the buffer of its entry in the hub. `OrderInv`: every stream is in order, no two share a chunk, and nothing in them is newer than what the readers have handed over, so that the next chunk fits behind. A flush moves the boundary inside a stream and changes none. |
| TerminalFlowProofs!OutputAlwaysFaithful | `Spec => []OutputFaithful` | `ContentInv`: the stream of a shell that has its pane to itself is exactly its first n chunks, n being what its reader has handed over; a reader past the end has taken all that its shell wrote; an entry was closed by that reader only. |
| TerminalFlowProofs!FlowRefinesPipeline, TerminalsKeepThePipeline | `FlowSpec => Spec`, and SlotAccounting, NothingAfterEof, OutputFaithful of FlowSpec | Step by step: a request served is the pipeline's command, or a flag set by the frontend; what the frontend does on its own leaves the pipeline as it is. |
| TerminalFlowProofs!BackpressureAlwaysSound | `FlowSpec => []BackpressureSound` | `FlagInv`: what a session last said of its flag, in the last request on its way or else in the flag, is what it believes. It needs `NumbersInv` (the spawn requests on their way are in the order of the sessions, so that the n-th session makes the n-th attempt), `HandlesInv` (an entry is of an incarnation of its pane) and `QuietInv` (before its spawn a session pauses nothing). |
| TerminalFlowProofs!ClosedIsAlwaysTrue | `FlowSpec => []ClosedIsTrue` | From `ContentInv` and `SeenInv`: a terminal sees its sink's messages one by one, and the end marker is the last. |
| OverlaysProofs!TableTrue | `Spec => [](TypeOK /\ BookkeepingTrue)` | Inductive together with the typing; one lemma per command, split by how far its window operation got. |
| OverlaysProofs!OverlaysFollowPanes | `Spec => []FollowsPane` | `FollowInv`: the last report under way says what the controller wants now; when none is, the window does what the last one said, or has been told nothing and is not shown. |
| OverlaysProofs!RecreatesTransfer | `Spec => RecreateTransfers` | An entry's parameters change in the recreate only, after its new window is up and raised. |
| WorkspacesProofs!RowsAlwaysSound | `Spec => []RowsSound` | `Selection` types the rows and the index: a removal computes the new index from the old one. `RowsKnown` says the rows are distinct ids that were given out; each lemma says where a row stood before the command, so that distinct rows stay distinct. Nothing is assumed of the indices a gesture sends. SelectionAlwaysValid is a corollary. |
| WorkspacesProofs!RowsAlwaysMoveAsAsked | `Spec => RowsMoveAsAsked` | `OldPlace` says where the row at a place stood before a drag; it is monotone but for the row dragged, and a removal shifts what was behind. `DragsAim` adds that the indices of a gesture are places of the rows it saw. |
| ConfigurationProofs!RegistryAlwaysDerived | `Spec => []RegistryDerived` | Follows from the typing: `TypeInv` types every request and the operation under way, and says that a dead process serves nothing. |
| ConfigurationProofs!AlwaysCrashSafe, MemoryAlwaysOnDisk | `Spec => []CrashSafe`, `Spec => []MemoryOnDisk` | `StoreInv` says what is on disk (`Saved`: the file last taken for saved until the rename, the operation's own document after it), what memory remembers of it (`Remembered`: all but the chords whose save did not finish), and that the temporary directory never holds an unreadable config (`Temporary`). |
| ConfigurationProofs!NewerConfigAlwaysUntouched | `Spec => NewerConfigUntouched` | From `StoreInv`: a running program that found a newer config works in the temporary directory (`Temporary`). |
| ConfigurationProofs!GateAlwaysHolds | `Spec => []GateHolds` | `GateInv`: every grant, in memory, on disk or on its way there, was made over the dialog for a command of that fingerprint, which was the first of its name then; a fingerprint determines its command. What runs unasked was decided about by the first of its name, which is the command itself where names are distinct. |
| SshConnectionsProofs!SupervisionAlwaysSound, ConnectedAlwaysCurrent, HostKeyAlwaysKept | `Spec => []SupervisionSound`, `[]ConnectedUsesCurrentSession`, `[]ReconnectKeepsHostKey` | One invariant for the three. `Task(c)` says of one connection what its call, its supervisor, its counter and its status may be together: the opener is current while the supervisor watches or publishes, the attempt is one ahead of the dials made until it is dialled. `MapInv` says the map names the one live task of each id: the insert that takes an id over aborts its holder in the same step. |
| AgentRpcProofs!SoleSessionAlwaysReachable | `Spec => []SoleSessionReachable` | `AloneInv` says an app that has not overlapped another is the only one alive, so that the files are still as it wrote them (`FilesInv`), and `ListenerInv` that who listens has bound. Nothing is assumed of what earlier sessions left behind. |
| AgentRpcProofs!SessionsAlwaysSound, WireAlwaysInSync | `Spec => []SessionsSound`, `Spec => []WireInSync` | `Knows(c)` says which tokens were out when a command read the file, and that it carries the token of such an app if that one is alone. ComparisonIsEquality shows that `constant_time_eq`, which compares lengths by their low byte and pads with zeros, is equality for tokens of at most 255 bytes without a zero byte (`SecretAssumption`). |
| NotificationsProofs!LayoutAlwaysTyped, PanesKeepTheirOrder | `Spec => []TypeOK`, `Spec => OthersStay` | `Tree(t)`: a path is in the tree with both its children if it leads to a split, with none if it leads to a pane, and no pane is there twice. That nothing is below a leaf is shown by a shortest counterexample. The reading order is decided where two paths part; a split and a close are relations between the old path of a pane and its new one (`MovedBy`) that keep the place where two of them part, or move it up by one. |
| NotificationsProofs!AlwaysDrawnAsLaidOut, RendererAlwaysImplementsPanes | `RendererSpec => []DrawnAsLaidOut`, `RendererSpec => RendererImplementsPanes` | `RendererInv`: no two panes share an element; a leaf of the skeleton has the host of its pane; while it is built, the hosts are those there were and those of the leaves built, and an element made for one of these has no scrollback yet, so that the swap gives Panes' render exactly: the panes of the tree, and the old content among them. |
| NotificationsProofs!RingsAlwaysSettle | `Spec => []RingSettles` | `RingInv`: what is shown is the ring of a pane that has a host; the last event about a pane says what the manager says; so does an answer that no event has overtaken; and a view nothing is under way about agrees, but for a clear that has not been served, which can only have hidden a ring. |
| NotificationsProofs!LayoutAlwaysSound | `Spec => []LayoutSound` | `Small(t)` adds to `Tree(t)` that a drawn layout has at most `MaxPanes` panes and that no path in it is longer than its splits. A rectangle is a descent along its path, one cut per step; a cut of that many panes is exact because the unit is a power of ten large enough, so that the two halves of a split share an edge and every pane of them lies inside its ancestor's rectangle. Where the focused pane is not at the edge, the split it was cut by last in that direction has a neighbour on the other side, and the nearest pane is the least one in a total order (distance, then reading order). |
| ServicesProofs!FailuresAccounted | `Spec => [](DownIsAccounted /\ RecoveredIsWhole)` | `GuardInv`: a guard says "recovering" exactly while its handler is at work, so that an event the guard skips has a handler to rely on. |
| ServicesProofs!RecoveryAlwaysSound, DelaysGrow | `Spec => []RecoverySound`; the schedule of delays | `CountersInv` bounds what is pending by the failures there were, `LoopInv` the reconnects. The delay is a recursive function: that it is one, stays under the cap and never falls is proved by a least counterexample over prefixes of it (`Schedule`). |
| ServicesProofs!BudgetsAlwaysKept | `Spec => BudgetsKept` | The refinement of BoundedRetry by the guard of every surface and by the CDP loop: each step is Fail, Try, Succeed, Miss or Refill of the surface it is about and leaves the others alone. |
| ServicesProofs!StartsAlwaysAsSaved | `SessionInit /\ [][SessionNext]_sessionVars => StartsAsSaved` | `SessionInv`: the file is never torn and holds the session saved last; what is about to be renamed to it is whole and the one under way. A start that cannot see or read the file opens nothing. |
| ServicesProofs!SweepsAlwaysKeepTheNewest | `... => SweepKeepsTheNewest` | `FilesInv` keeps the files finite. A sweep that met an unreadable entry left everything. The files a sweep keeps are counted: those no older than a deleted one that stay are as many as the policy keeps, whatever order equals are listed in. |
| ServicesProofs!RowsAlwaysShowTheLatest | `... => []RowsShowTheLatest` | `EntryInv`: a panel's entry has the last progress reported and the last lines of what was logged, or there is no entry and nothing was reported. TailSlides shows that adding a line and dropping one from the front is the next tail. |
| ServicesProofs!ProxyAlwaysKeepsItsWord | `... => []ProxyKeepsItsWord` | `ToCome`: what a connection's stage has not read past, of the bytes the client sends, is what went through the tunnel, then what has arrived, then what is to come, and while nothing failed that is what the network still has. GreetingRead and RequestRead show that a phase reads exactly its own bytes, wherever the stream was cut; RequestRead needs that the bytes of a request determine the target (RequestBytes). `Answered` lists the answers each stage has given. |
| ServicesProofs!NotificationsAlwaysDelivered | `... => []DeliveredAsBuilt` | `OscInv`: each scanner, once it has read what is still unread, is where the fold of `Outcome` over the printed items leads (`Meets`), and what it holds back is within its limit. The folds of the community modules recurse over the places of a sequence; FoldRuns shows from their definition that such a fold is a run from the left, so that a batch may be cut anywhere. ScanByte is followed byte by byte through a built sequence and item by item through noise. |
| ServicesProofs!FirstPartsAlwaysStayInMemory | `... => []FirstPartsStayInMemory` | `RedactionInv`: the tokens of a record know their place, none is a marker, and what was written last is nothing, `Redact(record)` or `Scrub(record)`. A pass is a run from place to place that visits a place or has swallowed it (`Passage`). After each pass the text is `Faithful` to the record: its tokens in their order, and a gap is a marker followed by what ends a value (PassKeepsFaith). A token is left only where its place was visited (FromVisited). A name that is in the first part of no other name's value (`Free`) is visited by every pass, for what swallows a name in the text announces it in the record as well (CoveredByHeader, CoveredByKey); once visited it swallows the first part of its value to the end (HeaderSwallows, KeySwallows). What a key announces stands unchanged behind the header pass or is gone (KeyStands), and what is gone stays gone (StaysGone). |

TLC checked each strengthening as an invariant on the instances of section 3, with
what exists in it written out where it has to (the state of the reader in OscInv, a
longest path in `Small`); for the texts of a record, that each pass leaves them
Faithful.
Lemmas about trees, streams and sequences stand before the theorems that need
them, in the module of those theorems.

*Assumptions.* `SidebarAssumption` says that "no panel" is not the name of one.
`ScriptsAssumption` of SocksBroker says how a client's bytes divide into greeting,
request and payload: a greeting in this version has the methods it counts, and a
request is the protocol's bytes for some target, with any reserved byte, or
something that the broker's reader refuses. A client may stop anywhere in them,
so that what is excluded is only a division no protocol makes. The bytes
themselves are any numbers. `PanesAssumption` says that
"no pane" is not a path of a tree. `RequestsAreText` of OscScanner says that a text
to be shown holds neither ESC nor BEL, and the title of an OSC 777 no semicolon: the
builders escape nothing, so that such a text would end its own sequence.
`NoiseIsNothing` says that what is printed in between comes as control bytes, as the
beginning of a sequence and as ordinary tokens, in any number and order.
`RedactionAssumption` says that a record is made of the kinds of token the passes
tell apart and holds no marker of its own. The other modules assume what their
`ASSUME`s say and nothing of the environment's behaviour.

TypeOK of PtyPipeline, Overlays, Panes and Configuration, RegistryDerived of
Configuration, InOrderOnce and ClosedIsTrue are stated by theorems only; TLC met
them as parts of other properties or of the strengthenings.

Only model-checked:

* the liveness properties, CloseForgets (the other half of RequestsHonoured) among
  them: fairness and ENABLED are out of the prover's reach;
* ImportedAsStored: the importer filters its rows and sorts them with SelectSeq and
  SortSeq, of which the provers see no definition they could unfold.

An induction over data would need an operator as a parameter. Where a theorem
needs one (Delay, the leaves of a tree, the rectangle of a pane, the folds of the
scanner and of a pass) it is put as a least counterexample over numbers, or as a
set of numbers closed under the next one.

No module declares a RECURSIVE operator.

## 6. What is not modelled

* Bytes: what a PTY or a WebView carries is a chunk, an address or nothing.
  `write` and `resize` of a pane and the geometry of bounds are left out: they
  change no state the models hold.
* SSH: jump hosts and the parser of ssh_config. Each connection has a broker of its
  own (session.rs:80); the port in the answer is read from the map after the
  connect (commands.rs:75) and may be another call's, which `result` keeps, but no
  property is stated of it.
* SocksBroker: an open of a channel that never returns; ProxyKeepsItsWord speaks of
  the answers that were given.
* Panes: tabs inside a pane and their highlights, the drag of a divider, the
  serialised tree; the lists of notifications.
* SHA-256 (taken to be injective) and the validation of weft.json.
* Import: decrypting a value and reading SQLite are outcomes (a value or a
  failure, a list of rows), the three time bases are offsets of one clock.
* Reliability: the format of a dump, tracing and the installation of the hooks.
* Sidebar: how git and the port tools are run; their output is an input.
* SessionRestore covers the death of the process, not the loss of power.
* Redaction: FirstPartsStayInMemory says nothing of what stands behind the first
  part of a value, nor of a user's name behind its first blank; and a record in which
  the name of a key is itself in the first part of the value of the key before it is
  not taken for a secret's announcement.
* `should_rotate` of rotation.rs: nothing calls it, the appender rotates by the day.
* Overlays: a destroy that the platform refuses, which leaves a window without an
  entry. A creation that fails in a recreate is modelled, but RequestsHonoured says
  nothing of it.
* The command palette, automation, the VM stub and the app shell: I/O, text or
  wiring.

Some operations that are modelled have no caller in the program yet:

* of the sidebar, `receive_report`, `forget_panel`, the scans and `overlay_transient`
  (snapshot_enrich.rs:17-22);
* of the reliability code, whose live wiring is deferred (reliability/mod.rs:22-25),
  `handle_process_failed`, `handle_overlay_crash`, `cooldown_elapsed`,
  `run_reconnect` and `emit_pane_recovery`;
* `SessionStore::persist`; `runCustomCommand` and `mergeRegistry` of the palette; and
  `PaneRenderer`, which only tests make.

The models let them happen at any time; what is shown of them holds of the modules,
whoever comes to call them.

Hazards that no property covers are listed in PROJECT.json with the reason.

## 7. Plan

In the order of what a defect would cost the user:

1. *Done*: PtyPipeline, TerminalFlow, SshConnections, Workspaces, Overlays,
   Configuration, Panes with PaneRenderer, Notifications, AgentRpc, Recovery with
   BoundedRetry, the seven services, and the theorems above.
2. **Theorems**: the filter and the order of BrowserImport, with the two operators
   written as functions that can be unfolded.
3. An abstract specification of a terminal's output (a sink receives a prefix of
   what its shell wrote, then perhaps the end) and PtyPipeline shown to implement
   it, with a refinement mapping, for incarnations that never share their id.
4. **Panes**, further: tabs inside a pane with their highlights, the drag of a
   divider, the serialised tree.
5. **Palette**: answers out of order. **weft.json**: its validation.
6. `write` and `resize` of a pane, and what a write finds after a kill.
