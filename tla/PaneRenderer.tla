----------------------------- MODULE PaneRenderer -----------------------------
(***************************************************************************)
(* How the layout of a workspace gets on the screen (src/panes/            *)
(* pane-renderer.ts): render builds a new skeleton from the leaves of the  *)
(* tree, with the host element a pane has or a new one, puts the skeleton  *)
(* in the place of the old, and evicts the hosts it has not seen.          *)
(*                                                                         *)
(* render is one script: the tree does not change and no terminal prints   *)
(* until it returns.  The hooks are injected, and taken to return.         *)
(***************************************************************************)
EXTENDS SplitTree

CONSTANT Elements \* host elements there can be

VARIABLES
  layout,     \* the tree render is called with next
  host,       \* PaneRenderer.hosts: the element of a pane
  dom,        \* the container: the element at each leaf of the skeleton in it
  phase,      \* where render stands
  skeleton,   \* the skeleton being built
  seen,       \* the panes render has come by
  before,     \* the panes that had a host when render was called
  scrollback  \* the elements whose terminal has output to lose

renderVars == <<host, dom, skeleton, seen, before, scrollback>>
rendererVars == <<layout, phase, renderVars>>

\* No render is under way.
Resting == phase \in {"stale", "drawn"}

\* What the program may take to be the hosts: while render is under way those there
\* were before the new skeleton is shown, and those of its panes from then on.
Drawn ==
  CASE phase = "building" -> before
    [] phase = "evicting" -> seen
    [] OTHER -> DOMAIN host

Layout == INSTANCE Panes WITH tree <- layout, hosts <- Drawn,
                              content <- {k \in Drawn : host[k] \in scrollback}

-----------------------------------------------------------------------------
RendererInit ==
  /\ \E k \in Panels : layout = [p \in {<<>>} |-> PaneNode(k)]
  /\ host = <<>> /\ dom = <<>> /\ skeleton = <<>>
  /\ seen = {} /\ before = {} /\ scrollback = {}
  /\ phase = "stale"

LayoutChanges ==
  /\ Resting
  /\ phase' = "stale"
  /\ UNCHANGED renderVars
  /\ Layout!TreeOperation

TerminalPrints(k) ==
  /\ Resting
  /\ k \in DOMAIN host \cap Printing
  /\ scrollback' = scrollback \cup {host[k]}
  /\ UNCHANGED <<layout, phase, host, dom, skeleton, seen, before>>

RenderBegins ==
  /\ Resting
  /\ phase' = "building"
  /\ skeleton' = <<>> /\ seen' = {} /\ before' = DOMAIN host
  /\ UNCHANGED <<layout, host, dom, scrollback>>

\* build comes by the leaves in reading order.
NextLeaf(path) ==
  /\ path \in Leaves(layout) \ DOMAIN skeleton
  /\ \A q \in Leaves(layout) : Before(q, path) => q \in DOMAIN skeleton

\* document.createElement: an element that is nowhere yet.
Created == Elements \ (Range(host) \cup Range(dom) \cup scrollback)

Assign(f, x, y) == [z \in DOMAIN f \cup {x} |-> IF z = x THEN y ELSE f[z]]

\* Mutant of Host: the cache is not looked into.
HostAnew(k, path) == Created

\* Mutant of Host: a leaf keeps the element at its place.
HostOfPlace(k, path) == IF path \in DOMAIN dom THEN {dom[path]} ELSE Created

\* The element a leaf gets: the one its pane has, or else a new one.
Host(k, path) == IF k \in DOMAIN host THEN {host[k]} ELSE Created

\* buildPane
BuildPane(path) ==
  LET k == layout[path].panel IN
  /\ phase = "building"
  /\ NextLeaf(path)
  /\ seen' = seen \cup {k}
  /\ \E e \in Host(k, path) :
       /\ host' = Assign(host, k, e)
       /\ skeleton' = Assign(skeleton, path, e)
  /\ UNCHANGED <<layout, phase, dom, before, scrollback>>

\* replaceChildren
Swap ==
  /\ phase = "building"
  /\ DOMAIN skeleton = Leaves(layout)
  /\ dom' = skeleton
  /\ phase' = "evicting"
  /\ UNCHANGED <<layout, host, skeleton, seen, before, scrollback>>

\* A host that is evicted leaves the container, if it is there, and nobody has its
\* terminal any more.
Evict(k) ==
  /\ phase = "evicting"
  /\ k \in DOMAIN host \ seen
  /\ host' = [j \in DOMAIN host \ {k} |-> host[j]]
  /\ dom' = [p \in {q \in DOMAIN dom : dom[q] # host[k]} |-> dom[p]]
  /\ scrollback' = scrollback \ {host[k]}
  /\ UNCHANGED <<layout, phase, skeleton, seen, before>>

RenderEnds ==
  /\ phase = "evicting"
  /\ DOMAIN host \subseteq seen
  /\ phase' = "drawn"
  /\ UNCHANGED <<layout, renderVars>>

RendererNext ==
  \/ LayoutChanges
  \/ \E k \in Panels : TerminalPrints(k) \/ Evict(k)
  \/ RenderBegins
  \/ \E path \in Leaves(layout) : BuildPane(path)
  \/ Swap
  \/ RenderEnds

RendererSpec == RendererInit /\ [][RendererNext]_rendererVars

-----------------------------------------------------------------------------
\* Whatever is split, closed and opened again between two renders, a pane that had a
\* host and is still in the tree has the same one when render is through, with its
\* scrollback, and no others are left: the renderer does what Panes takes a render
\* to be (pane-renderer.ts: "a re-layout MUST reuse the existing DOM host").
RendererImplementsPanes == Layout!PanesSpec

\* A layout that has been rendered is on the screen: at every leaf the host of its
\* pane, each at one place, and nothing of a pane that is gone (pane-renderer.ts,
\* render).
DrawnAsLaidOut ==
  phase = "drawn" =>
    /\ DOMAIN host = Keys(layout)
    /\ dom = [p \in Leaves(layout) |-> host[layout[p].panel]]
    /\ \A j, k \in DOMAIN host : host[j] = host[k] => j = k
=============================================================================
