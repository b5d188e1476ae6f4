----------------------------- MODULE Workspaces -----------------------------
(***************************************************************************)
(* The ordered store of workspaces behind the sidebar                      *)
(* (src-tauri/src/config/workspace_store.rs, reached through ConfigState)  *)
(* and the gestures of src/sidebar/workspace-nav.ts over it.               *)
(*                                                                         *)
(* The commands are synchronous: each is one step on the store.  A gesture *)
(* is not: it asks for a snapshot, computes indices or a target from it,   *)
(* and only then sends the command, so other commands come in between.     *)
(* Positions count from 1; 0 is the selected_index None.                   *)
(***************************************************************************)
EXTENDS Integers, Sequences, FiniteSets, SequencesExt

CONSTANTS
  Ids,      \* workspace ids: each is a fresh uuid, given out once
  NoId,     \* no id: a gesture whose host knows no selected workspace
  Gestures  \* bound: gestures under way at the same time

ASSUME IdsAssumption == NoId \notin Ids /\ IsFiniteSet(Ids)

VARIABLES
  workspaces,  \* WorkspaceStore.workspaces: the rows of the sidebar
  selected,    \* WorkspaceStore.selected_index
  given,       \* the ids given out so far
  nav          \* each gesture: the command it is about to send

vars == <<workspaces, selected, given, nav>>

Rows == ToSet(workspaces)

\* What the user is looking at.
Looking == IF selected = 0 THEN NoId ELSE workspaces[selected]

Idle == [op |-> "idle"]

Init ==
  /\ workspaces = <<>>
  /\ selected = 0
  /\ given = {}
  /\ nav = [g \in Gestures |-> Idle]

-----------------------------------------------------------------------------
(* The store.                                                              *)

Position(rows, id) == CHOOSE i \in DOMAIN rows : rows[i] = id

\* workspace_add: append and select.
AddWorkspace(id) ==
  /\ id \notin given
  /\ given' = given \cup {id}
  /\ workspaces' = Append(workspaces, id)
  /\ selected' = Len(workspaces) + 1
  /\ UNCHANGED nav

\* Mutants of ReselectAfterRemove: the row in front leaves nothing selected; the
\* selection does not shift down.
ReselectNone(newLen, removed) ==
  CASE newLen = 0 \/ selected = removed -> 0
    [] newLen > 0 /\ selected > removed -> selected - 1
    [] newLen > 0 /\ selected < removed -> selected

ReselectNoShift(newLen, removed) == IF selected > newLen THEN newLen ELSE selected

\* The row the cursor goes to when the one at `removed` leaves newLen others.
ReselectAfterRemove(newLen, removed) ==
  CASE newLen = 0 -> 0
    [] newLen > 0 /\ selected = removed -> IF removed > newLen THEN newLen ELSE removed
    [] newLen > 0 /\ selected > removed -> selected - 1
    [] newLen > 0 /\ selected < removed -> selected

\* workspace_remove; of an id that is not there it does nothing.
RemoveWorkspace(id) ==
  /\ id \in Rows
  /\ LET pos == Position(workspaces, id) IN
       /\ workspaces' = RemoveAt(workspaces, pos)
       /\ selected' = ReselectAfterRemove(Len(workspaces) - 1, pos)
  /\ UNCHANGED <<given, nav>>

\* workspace_select; of an id that is not there it leaves the selection alone.
SelectRow(id) ==
  selected' = IF id \in Rows THEN Position(workspaces, id) ELSE selected

\* Vec::remove(from), then Vec::insert(to).
MoveRow(from, to) == InsertAt(RemoveAt(workspaces, from), to, workspaces[from])

\* workspace_reorder: the selection follows only the row that was moved.
ReorderRows(from, to) ==
  IF from \in DOMAIN workspaces /\ to \in DOMAIN workspaces /\ from # to
  THEN /\ workspaces' = MoveRow(from, to)
       /\ selected' = IF selected = from THEN to ELSE selected
  ELSE UNCHANGED <<workspaces, selected>>

-----------------------------------------------------------------------------
(* Commands the frontend sends directly (settings-store.ts).               *)

Select(id) == SelectRow(id) /\ UNCHANGED <<workspaces, given, nav>>

Reorder(from, to) == ReorderRows(from, to) /\ UNCHANGED <<given, nav>>

-----------------------------------------------------------------------------
(* The gestures of WorkspaceNav.  The first action of each is the snapshot *)
(* with what the gesture makes of it; `seen` is the snapshot, kept as      *)
(* history only.                                                           *)

\* reorderById: both ids must be in the snapshot and differ.
StartReorder(g, id, target) ==
  /\ nav[g] = Idle
  /\ {id, target} \subseteq Rows
  /\ id # target
  /\ nav' = [nav EXCEPT ![g] = [op |-> "reorder", seen |-> workspaces,
                                from |-> Position(workspaces, id),
                                to |-> Position(workspaces, target)]]
  /\ UNCHANGED <<workspaces, selected, given>>

\* The index a step starts from: the first row when the id is unknown.
IndexOf(id) == IF id \in Rows THEN Position(workspaces, id) ELSE 1

\* The row `delta` steps (1 or -1) from the one the host passes, wrapping.
Neighbour(delta, id) ==
  LET n == Len(workspaces) IN workspaces[((IndexOf(id) - 1 + n + delta) % n) + 1]

\* step: the next or the previous workspace.
StartStep(g, delta, id) ==
  /\ nav[g] = Idle
  /\ workspaces # <<>>
  /\ nav' = [nav EXCEPT ![g] = [op |-> "select", seen |-> workspaces, by |-> delta,
                                origin |-> id, target |-> Neighbour(delta, id)]]
  /\ UNCHANGED <<workspaces, selected, given>>

\* The command a gesture sends reaches the store.
Serve(g) ==
  /\ nav[g] # Idle
  /\ \/ /\ nav[g].op = "reorder"
        /\ ReorderRows(nav[g].from, nav[g].to)
     \/ /\ nav[g].op = "select"
        /\ SelectRow(nav[g].target)
        /\ UNCHANGED workspaces
  /\ nav' = [nav EXCEPT ![g] = Idle]
  /\ UNCHANGED given

Next ==
  \/ \E id \in Ids : AddWorkspace(id) \/ RemoveWorkspace(id) \/ Select(id)
  \/ \E from, to \in 1..Cardinality(Ids) : Reorder(from, to)
  \/ \E g \in Gestures :
       \/ \E id, target \in Ids : StartReorder(g, id, target)
       \/ \E delta \in {1, -1}, id \in Ids \cup {NoId} : StartStep(g, delta, id)
       \/ Serve(g)

Spec == Init /\ [][Next]_vars

-----------------------------------------------------------------------------
(* Properties.                                                             *)

\* Every variable has its type: the rows are distinct ids that were given out,
\* and selected_index, when there is one, is an index of them.
TypeOK ==
  /\ workspaces \in Seq(Ids)
  /\ IsInjective(workspaces)
  /\ given \subseteq Ids
  /\ Rows \subseteq given
  /\ selected \in 0..Len(workspaces)
  /\ \A g \in Gestures : nav[g].op \in {"idle", "reorder", "select"}

\* There is a workspace in front whenever there is a workspace.  The frontend
\* relies on it: the snapshot it renders carries no selected flag.
SelectionValid == selected = 0 <=> workspaces = <<>>

\* The rows and the index that names one of them are sound together.
RowsSound == TypeOK /\ SelectionValid

\* Closing a workspace in the background never changes what the user looks at,
\* and closing the one in front moves to the row that takes its place, or to
\* the last.
RemovalKeepsLooking ==
  [][\A id \in Ids : (id \in Rows /\ id \notin ToSet(workspaces')) =>
       /\ id # Looking => Looking' = Looking
       /\ (id = Looking /\ workspaces' # <<>>) =>
            Looking' = workspaces'[IF selected < Len(workspaces) THEN selected
                                   ELSE Len(workspaces) - 1]]_vars

Before(rows, a, b) == \E i, j \in DOMAIN rows : i < j /\ rows[i] = a /\ rows[j] = b

\* However stale the indices of a drag are, a command adds, removes or moves at
\* most one row: all the others stay, in the order they had.
OthersKeepOrder ==
  [][workspaces' # workspaces =>
       \E id \in Ids :
         /\ \A a \in Ids \ {id} : a \in Rows <=> a \in ToSet(workspaces')
         /\ \A a, b \in Rows \ {id} :
              Before(workspaces, a, b) => Before(workspaces', a, b)]_vars

\* A drag lands: served while the rows are as the gesture saw them, it puts the
\* row that was picked up where the target was.
DragLands ==
  [][\A g \in Gestures :
       (nav[g].op = "reorder" /\ nav[g].seen = workspaces /\ nav'[g] = Idle) =>
         /\ nav[g].to \in DOMAIN workspaces'
         /\ workspaces'[nav[g].to] = workspaces[nav[g].from]]_vars

\* Rows go where a command asks and nowhere else, and the user keeps looking at
\* the same one.
RowsMoveAsAsked == RemovalKeepsLooking /\ OthersKeepOrder /\ DragLands

\* workspace_store.rs of reorder: "Selection follows the moved workspace so the
\* user keeps looking at the same row."  Reordering never changes the workspace
\* in front.
ReorderKeepsLooking ==
  [][(Rows = ToSet(workspaces') /\ workspaces' # workspaces) => Looking' = Looking]_vars
=============================================================================
