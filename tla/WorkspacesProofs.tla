--------------------------- MODULE WorkspacesProofs ---------------------------
(* What Workspaces guarantees for any ids and any number of gestures.         *)
EXTENDS Workspaces, SequenceTheorems, TLAPS

\* Where there is a row with an id, Position finds one.
LEMMA PositionInRows ==
  ASSUME NEW rows \in Seq(Ids), NEW id \in ToSet(rows)
  PROVE  Position(rows, id) \in 1..Len(rows)
<1>1. \E i \in DOMAIN rows : rows[i] = id
  BY DEF ToSet
<1>2. Position(rows, id) \in DOMAIN rows
  BY <1>1 DEF Position
<1> QED
  BY <1>2

\* Cutting a sequence in front of and behind a place gives sequences.
LEMMA SubSeqType ==
  ASSUME NEW rows \in Seq(Ids), NEW m \in 1..(Len(rows) + 1), NEW n \in 0..Len(rows)
  PROVE  /\ SubSeq(rows, m, n) \in Seq(Ids)
         /\ Len(SubSeq(rows, m, n)) = IF m <= n THEN n - m + 1 ELSE 0
         /\ \A i \in 1..(n - m + 1) : SubSeq(rows, m, n)[i] = rows[m + i - 1]
<1>1. \A i \in m..n : rows[i] \in Ids
  BY ElementOfSeq
<1> QED
  BY <1>1, SubSeqProperties

\* Removing a row leaves a sequence that is one shorter, in which the rows behind
\* it have moved up.
LEMMA RemoveAtType ==
  ASSUME NEW rows \in Seq(Ids), NEW i \in 1..Len(rows)
  PROVE  /\ RemoveAt(rows, i) \in Seq(Ids)
         /\ Len(RemoveAt(rows, i)) = Len(rows) - 1
         /\ \A j \in 1..(Len(rows) - 1) :
              RemoveAt(rows, i)[j] = IF j < i THEN rows[j] ELSE rows[j + 1]
<1> DEFINE front == SubSeq(rows, 1, i - 1)
           back == SubSeq(rows, i + 1, Len(rows))
<1>1. /\ front \in Seq(Ids) /\ Len(front) = i - 1
      /\ \A j \in 1..(i - 1) : front[j] = rows[j]
  BY SubSeqType
<1>2. /\ back \in Seq(Ids) /\ Len(back) = Len(rows) - i
      /\ \A j \in 1..(Len(rows) - i) : back[j] = rows[i + j]
  BY SubSeqType
<1>3. RemoveAt(rows, i) = front \o back
  BY Zenon DEF RemoveAt
<1> HIDE DEF front, back
<1>4. /\ front \o back \in Seq(Ids) /\ Len(front \o back) = Len(front) + Len(back)
      /\ \A j \in 1..(Len(front) + Len(back)) :
           (front \o back)[j] = IF j <= Len(front) THEN front[j] ELSE back[j - Len(front)]
  BY <1>1, <1>2, ConcatProperties
<1> QED
  BY <1>1, <1>2, <1>3, <1>4

\* Inserting a row leaves a sequence that is one longer, in which the rows behind
\* it have moved down.
LEMMA InsertAtType ==
  ASSUME NEW rows \in Seq(Ids), NEW i \in 1..(Len(rows) + 1), NEW id \in Ids
  PROVE  /\ InsertAt(rows, i, id) \in Seq(Ids)
         /\ Len(InsertAt(rows, i, id)) = Len(rows) + 1
         /\ \A j \in 1..(Len(rows) + 1) :
              InsertAt(rows, i, id)[j] = IF j < i THEN rows[j]
                                         ELSE IF j = i THEN id ELSE rows[j - 1]
<1> DEFINE front == SubSeq(rows, 1, i - 1)
           head == front \o <<id>>
           back == SubSeq(rows, i, Len(rows))
<1>1. /\ front \in Seq(Ids) /\ Len(front) = i - 1
      /\ \A j \in 1..(i - 1) : front[j] = rows[j]
  BY SubSeqType
<1>2. /\ back \in Seq(Ids) /\ Len(back) = Len(rows) - i + 1
      /\ \A j \in 1..(Len(rows) - i + 1) : back[j] = rows[i + j - 1]
  BY SubSeqType
<1>3. InsertAt(rows, i, id) = head \o back
  BY Zenon DEF InsertAt
<1> HIDE DEF front, back
<1>4. <<id>> \in Seq(Ids) /\ Len(<<id>>) = 1 /\ <<id>>[1] = id
  OBVIOUS
<1>5. /\ head \in Seq(Ids) /\ Len(head) = i
      /\ \A j \in 1..i : head[j] = IF j <= i - 1 THEN front[j] ELSE <<id>>[j - (i - 1)]
  BY <1>1, <1>4, ConcatProperties
<1> HIDE DEF head
<1>6. /\ head \o back \in Seq(Ids) /\ Len(head \o back) = Len(head) + Len(back)
      /\ \A j \in 1..(Len(head) + Len(back)) :
           (head \o back)[j] = IF j <= Len(head) THEN head[j] ELSE back[j - Len(head)]
  BY <1>2, <1>5, ConcatProperties
<1>7. \A j \in 1..i : head[j] = IF j < i THEN rows[j] ELSE id
  BY <1>1, <1>4, <1>5
<1>8. \A j \in (i + 1)..(Len(rows) + 1) :
        /\ (head \o back)[j] = back[j - i]
        /\ back[j - i] = rows[j - 1]
  BY <1>2, <1>5, <1>6
<1> QED
  BY <1>2, <1>3, <1>5, <1>6, <1>7, <1>8

\* Where the row that is at place j after the move was before it.
OldPlace(from, to, j) ==
  IF j = to THEN from
  ELSE IF j < to THEN (IF j < from THEN j ELSE j + 1)
  ELSE (IF j - 1 < from THEN j - 1 ELSE j)

\* Moving a row keeps their number; every row was among them before.
LEMMA MoveRowPlaces ==
  ASSUME workspaces \in Seq(Ids),
         NEW from \in 1..Len(workspaces), NEW to \in 1..Len(workspaces)
  PROVE  /\ MoveRow(from, to) \in Seq(Ids)
         /\ Len(MoveRow(from, to)) = Len(workspaces)
         /\ \A j \in 1..Len(workspaces) :
              MoveRow(from, to)[j] = workspaces[OldPlace(from, to, j)]
<1> DEFINE n == Len(workspaces)
           rest == RemoveAt(workspaces, from)
           moved == MoveRow(from, to)
<1>1. n \in Nat /\ from \in 1..n /\ to \in 1..n
  BY LenProperties
<1>2. /\ rest \in Seq(Ids) /\ Len(rest) = n - 1
      /\ \A j \in 1..(n - 1) :
           rest[j] = IF j < from THEN workspaces[j] ELSE workspaces[j + 1]
  BY <1>1, RemoveAtType
<1>3. moved = InsertAt(rest, to, workspaces[from])
  BY Zenon DEF MoveRow
<1>4. workspaces[from] \in Ids
  BY <1>1, ElementOfSeq
<1> HIDE DEF rest
<1>5. to \in 1..(Len(rest) + 1) /\ Len(rest) + 1 = n
  BY <1>1, <1>2
<1> DEFINE Inserted(id) ==
      /\ InsertAt(rest, to, id) \in Seq(Ids)
      /\ Len(InsertAt(rest, to, id)) = Len(rest) + 1
      /\ \A j \in 1..(Len(rest) + 1) :
           InsertAt(rest, to, id)[j] = IF j < to THEN rest[j]
                                       ELSE IF j = to THEN id ELSE rest[j - 1]
<1>6. \A id \in Ids : Inserted(id)
  BY <1>2, <1>5, InsertAtType
<1>7. Inserted(workspaces[from])
  BY <1>4, <1>6, Zenon
<1> HIDE DEF n, moved
<1>8. /\ moved \in Seq(Ids) /\ Len(moved) = n
      /\ \A j \in 1..n : moved[j] = IF j < to THEN rest[j]
                           ELSE IF j = to THEN workspaces[from] ELSE rest[j - 1]
  BY <1>3, <1>5, <1>7, Zenon
<1>9. \A j \in 1..n : moved[j] = workspaces[OldPlace(from, to, j)]
  <2> TAKE j \in 1..n
  <2>1. CASE j = to
    BY <1>8, <2>1 DEF OldPlace
  <2>2. CASE j < to
    <3>1. j \in 1..(n - 1) /\ moved[j] = rest[j]
      BY <1>1, <1>8, <2>2
    <3> QED
      BY <1>1, <1>2, <2>2, <3>1 DEF OldPlace
  <2>3. CASE j > to
    <3>1. j - 1 \in 1..(n - 1) /\ moved[j] = rest[j - 1]
      BY <1>1, <1>8, <2>3
    <3>2. rest[j - 1] = IF j - 1 < from THEN workspaces[j - 1] ELSE workspaces[j]
      BY <1>1, <1>2, <3>1
    <3> QED
      BY <1>1, <2>3, <3>1, <3>2 DEF OldPlace
  <2> QED
    BY <1>1, <2>1, <2>2, <2>3
<1> QED
  BY <1>8, <1>9 DEF n, moved

-----------------------------------------------------------------------------

\* The selection is an index of the rows, and there is one as long as there are
\* rows.  The typing of the index is what makes SelectionValid inductive: a
\* removal computes the new index from the old one.
Selection ==
  /\ workspaces \in Seq(Ids)
  /\ selected \in 0..Len(workspaces)
  /\ SelectionValid

LEMMA SelectionAfterAdd ==
  ASSUME Selection, NEW id \in Ids, AddWorkspace(id)
  PROVE  Selection'
BY AppendProperties, LenProperties DEF Selection, SelectionValid, AddWorkspace

LEMMA SelectionAfterRemove ==
  ASSUME Selection, NEW id \in Ids, RemoveWorkspace(id)
  PROVE  Selection'
<1> DEFINE pos == Position(workspaces, id)
           n == Len(workspaces)
<1>1. /\ workspaces \in Seq(Ids)
      /\ n \in Nat \ {0}
      /\ pos \in 1..n
  BY PositionInRows, LenProperties DEF Selection, RemoveWorkspace, Rows
<1>2. /\ workspaces' = RemoveAt(workspaces, pos)
      /\ selected' = ReselectAfterRemove(n - 1, pos)
  BY DEF RemoveWorkspace
<1>3. workspaces' \in Seq(Ids) /\ Len(workspaces') = n - 1
  BY <1>1, <1>2, RemoveAtType
<1>4. selected \in 1..n
  BY <1>1, EmptySeq DEF Selection, SelectionValid
<1> HIDE DEF pos, n
<1>5. /\ selected' \in 0..(n - 1)
      /\ selected' = 0 <=> n - 1 = 0
  BY <1>1, <1>2, <1>4 DEF ReselectAfterRemove
<1>6. workspaces' = <<>> <=> n - 1 = 0
  BY <1>1, <1>3, EmptySeq
<1> QED
  BY <1>3, <1>5, <1>6 DEF Selection, SelectionValid

\* Selecting a row, of whatever id, keeps the selection a row.
LEMMA SelectionAfterSelect ==
  ASSUME Selection, NEW id, SelectRow(id), UNCHANGED workspaces
  PROVE  Selection'
<1>1. CASE id \in Rows
  <2>1. id \in Ids /\ Position(workspaces, id) \in 1..Len(workspaces)
    <3>1. \E i \in DOMAIN workspaces : workspaces[i] = id
      BY <1>1 DEF Rows, ToSet
    <3>2. id \in Ids
      BY <3>1, LenProperties, ElementOfSeq DEF Selection
    <3> QED
      BY <1>1, <3>2, PositionInRows DEF Selection, Rows
  <2>2. selected' \in 1..Len(workspaces) /\ workspaces # <<>>
    BY <1>1, <2>1, EmptySeq DEF SelectRow
  <2> QED
    BY <2>2, LenProperties DEF Selection, SelectionValid
<1>2. CASE id \notin Rows
  BY <1>2 DEF Selection, SelectionValid, SelectRow
<1> QED
  BY <1>1, <1>2

\* Reordering, with whatever indices, keeps the selection a row.
LEMMA SelectionAfterReorder ==
  ASSUME Selection, NEW from, NEW to, ReorderRows(from, to)
  PROVE  Selection'
<1> DEFINE Moves == from \in DOMAIN workspaces /\ to \in DOMAIN workspaces /\ from # to
<1>1. CASE Moves
  <2>1. from \in 1..Len(workspaces) /\ to \in 1..Len(workspaces)
    BY <1>1, LenProperties DEF Selection
  <2>2. /\ workspaces' = MoveRow(from, to)
        /\ selected' = IF selected = from THEN to ELSE selected
    BY <1>1 DEF ReorderRows
  <2>3. workspaces' \in Seq(Ids) /\ Len(workspaces') = Len(workspaces)
    BY <2>1, <2>2, MoveRowPlaces DEF Selection
  <2>4. workspaces # <<>> /\ workspaces' # <<>> /\ selected \in 1..Len(workspaces)
    BY <2>1, <2>3, EmptySeq, LenProperties DEF Selection, SelectionValid
  <2> QED
    BY <2>1, <2>2, <2>3, <2>4 DEF Selection, SelectionValid
<1>2. CASE ~Moves
  BY <1>2 DEF Selection, SelectionValid, ReorderRows
<1> QED
  BY <1>1, <1>2

LEMMA SelectionStep ==
  ASSUME Selection, [Next]_vars
  PROVE  Selection'
<1>1. CASE \E id \in Ids : AddWorkspace(id)
  BY <1>1, SelectionAfterAdd
<1>2. CASE \E id \in Ids : RemoveWorkspace(id)
  BY <1>2, SelectionAfterRemove
<1>3. CASE \E id \in Ids : Select(id)
  BY <1>3, SelectionAfterSelect DEF Select
<1>4. CASE \E from, to \in 1..Cardinality(Ids) : Reorder(from, to)
  BY <1>4, SelectionAfterReorder DEF Reorder
<1>5. CASE \E g \in Gestures : \E id, target \in Ids : StartReorder(g, id, target)
  BY <1>5 DEF StartReorder, Selection, SelectionValid
<1>6. CASE \E g \in Gestures : \E delta \in {1, -1}, id \in Ids \cup {NoId} : StartStep(g, delta, id)
  BY <1>6 DEF StartStep, Selection, SelectionValid
<1>7. CASE \E g \in Gestures : Serve(g)
  <2> PICK g \in Gestures : Serve(g)
    BY <1>7
  <2>1. CASE ReorderRows(nav[g].from, nav[g].to)
    BY <2>1, SelectionAfterReorder
  <2>2. CASE SelectRow(nav[g].target) /\ UNCHANGED workspaces
    BY <2>2, SelectionAfterSelect
  <2> QED
    BY <2>1, <2>2 DEF Serve
<1>8. CASE UNCHANGED vars
  BY <1>8 DEF vars, Selection, SelectionValid
<1> QED
  BY <1>1, <1>2, <1>3, <1>4, <1>5, <1>6, <1>7, <1>8 DEF Next

-----------------------------------------------------------------------------

\* The rows are distinct ids, all of them given out, and the gestures are typed.
RowsKnown ==
  /\ \A i \in 1..Len(workspaces) : workspaces[i] \in given
  /\ \A i, j \in 1..Len(workspaces) : workspaces[i] = workspaces[j] => i = j
  /\ given \subseteq Ids

GesturesTyped ==
  /\ DOMAIN nav = Gestures
  /\ \A g \in Gestures : nav[g].op \in {"idle", "reorder", "select"}

\* A row that was given out just now differs from all the others.
LEMMA KnownAfterAdd ==
  ASSUME workspaces \in Seq(Ids), RowsKnown, NEW id \in Ids, AddWorkspace(id)
  PROVE  RowsKnown'
<1> DEFINE n == Len(workspaces)
<1>1. /\ n \in Nat /\ Len(workspaces') = n + 1
      /\ \A i \in 1..n : workspaces'[i] = workspaces[i]
      /\ workspaces'[n + 1] = id
  BY AppendProperties, LenProperties DEF AddWorkspace
<1>2. id \notin given /\ given' = given \cup {id}
  BY DEF AddWorkspace
<1> QED
  BY <1>1, <1>2 DEF RowsKnown

\* Removing a row brings no row twice.
LEMMA KnownAfterRemove ==
  ASSUME workspaces \in Seq(Ids), RowsKnown, NEW id \in Ids, RemoveWorkspace(id)
  PROVE  RowsKnown'
<1> DEFINE pos == Position(workspaces, id)
           n == Len(workspaces)
<1>1. n \in Nat /\ pos \in 1..n
  BY PositionInRows, LenProperties DEF RemoveWorkspace, Rows
<1>2. workspaces' = RemoveAt(workspaces, pos) /\ given' = given
  BY DEF RemoveWorkspace
<1> HIDE DEF pos
<1>3. /\ Len(workspaces') = n - 1
      /\ \A j \in 1..(n - 1) :
           workspaces'[j] = IF j < pos THEN workspaces[j] ELSE workspaces[j + 1]
  BY <1>1, <1>2, RemoveAtType
<1> DEFINE old(j) == IF j < pos THEN j ELSE j + 1
<1>4. \A j \in 1..(n - 1) : old(j) \in 1..n /\ workspaces'[j] = workspaces[old(j)]
  BY <1>1, <1>3
<1>5. \A i, j \in 1..(n - 1) : old(i) = old(j) => i = j
  BY <1>1
<1> HIDE DEF old
<1> QED
  BY <1>2, <1>3, <1>4, <1>5 DEF RowsKnown

\* Nor does moving one.
LEMMA KnownAfterReorder ==
  ASSUME workspaces \in Seq(Ids), RowsKnown, NEW from, NEW to,
         ReorderRows(from, to), given' = given
  PROVE  RowsKnown'
<1> DEFINE Moves == from \in DOMAIN workspaces /\ to \in DOMAIN workspaces /\ from # to
           n == Len(workspaces)
           old(j) == OldPlace(from, to, j)
<1>1. CASE Moves
  <2>1. n \in Nat /\ from \in 1..n /\ to \in 1..n
    BY <1>1, LenProperties
  <2>2. Len(workspaces') = n /\ \A j \in 1..n : workspaces'[j] = workspaces[old(j)]
    BY <1>1, <2>1, MoveRowPlaces DEF ReorderRows
  <2>3. \A j \in 1..n : old(j) \in 1..n
    BY <2>1 DEF OldPlace
  <2>4. \A i, j \in 1..n : old(i) = old(j) => i = j
    BY <2>1 DEF OldPlace
  <2> HIDE DEF old
  <2> QED
    BY <2>2, <2>3, <2>4 DEF RowsKnown
<1>2. CASE ~Moves
  BY <1>2 DEF RowsKnown, ReorderRows
<1> QED
  BY <1>1, <1>2

LEMMA KnownStep ==
  ASSUME Selection, RowsKnown, [Next]_vars
  PROVE  RowsKnown'
<1> workspaces \in Seq(Ids)
  BY DEF Selection
<1>1. CASE \E id \in Ids : AddWorkspace(id)
  BY <1>1, KnownAfterAdd
<1>2. CASE \E id \in Ids : RemoveWorkspace(id)
  BY <1>2, KnownAfterRemove
<1>3. CASE \E id \in Ids : Select(id)
  BY <1>3 DEF Select, RowsKnown
<1>4. CASE \E from, to \in 1..Cardinality(Ids) : Reorder(from, to)
  BY <1>4, KnownAfterReorder DEF Reorder
<1>5. CASE \E g \in Gestures : \E id, target \in Ids : StartReorder(g, id, target)
  BY <1>5 DEF StartReorder, RowsKnown
<1>6. CASE \E g \in Gestures : \E delta \in {1, -1}, id \in Ids \cup {NoId} : StartStep(g, delta, id)
  BY <1>6 DEF StartStep, RowsKnown
<1>7. CASE \E g \in Gestures : Serve(g)
  <2> PICK g \in Gestures : Serve(g)
    BY <1>7
  <2>1. CASE ReorderRows(nav[g].from, nav[g].to)
    BY <2>1, KnownAfterReorder DEF Serve
  <2>2. CASE UNCHANGED workspaces
    BY <2>2 DEF Serve, RowsKnown
  <2> QED
    BY <2>1, <2>2 DEF Serve
<1>8. CASE UNCHANGED vars
  BY <1>8 DEF vars, RowsKnown
<1> QED
  BY <1>1, <1>2, <1>3, <1>4, <1>5, <1>6, <1>7, <1>8 DEF Next

LEMMA GesturesStep ==
  ASSUME GesturesTyped, [Next]_vars
  PROVE  GesturesTyped'
<1>1. CASE UNCHANGED nav
  BY <1>1 DEF GesturesTyped
<1>2. CASE \E g \in Gestures : \E id, target \in Ids : StartReorder(g, id, target)
  BY <1>2 DEF StartReorder, GesturesTyped
<1>3. CASE \E g \in Gestures : \E delta \in {1, -1}, id \in Ids \cup {NoId} : StartStep(g, delta, id)
  BY <1>3 DEF StartStep, GesturesTyped
<1>4. CASE \E g \in Gestures : Serve(g)
  BY <1>4 DEF Serve, GesturesTyped, Idle
<1> QED
  BY <1>1, <1>2, <1>3, <1>4
  DEF Next, vars, AddWorkspace, RemoveWorkspace, Select, Reorder

\* The rows of the sidebar are distinct ids that were given out, one of them is in
\* front whenever there is one, and the index names it, whatever the commands and
\* however stale the indices the gestures send (workspace_store.rs: add, remove,
\* reorder, select).
THEOREM RowsAlwaysSound == Spec => []RowsSound
<1> DEFINE RowsInv == Selection /\ RowsKnown /\ GesturesTyped
<1>1. Init => RowsInv
  BY EmptySeq DEF Init, Selection, SelectionValid, RowsKnown, GesturesTyped, Idle
<1>2. RowsInv /\ [Next]_vars => RowsInv'
  BY SelectionStep, KnownStep, GesturesStep
<1>3. RowsInv => RowsSound
  <2> SUFFICES ASSUME RowsInv PROVE RowsSound
    OBVIOUS
  <2>1. DOMAIN workspaces = 1..Len(workspaces)
    BY LenProperties DEF Selection
  <2> QED
    BY <2>1 DEF Selection, RowsKnown, GesturesTyped, RowsSound, TypeOK, IsInjective, Rows, ToSet
<1> QED
  BY <1>1, <1>2, <1>3, PTL DEF Spec

\* In particular there is a selected workspace exactly when there is a workspace.
THEOREM SelectionAlwaysValid == Spec => []SelectionValid
<1>1. RowsSound => SelectionValid
  BY DEF RowsSound
<1> QED
  BY <1>1, RowsAlwaysSound, PTL

-----------------------------------------------------------------------------
(* Rows move as asked.                                                       *)

\* Rows that all but one keep a place, each further on than the place of the row
\* in front of it, are the same rows in the same order.
LEMMA PlacesKeepOrder ==
  ASSUME NEW old \in Seq(Ids), NEW new \in Seq(Ids), NEW id \in Ids, NEW place,
         \A i \in 1..Len(old) : old[i] # id =>
           place[i] \in 1..Len(new) /\ new[place[i]] = old[i],
         \A i, j \in 1..Len(old) :
           i < j /\ old[i] # id /\ old[j] # id => place[i] < place[j],
         \A j \in 1..Len(new) : new[j] = id \/ \E i \in 1..Len(old) : old[i] = new[j]
  PROVE  /\ \A a \in Ids \ {id} : a \in ToSet(old) <=> a \in ToSet(new)
         /\ \A a, b \in ToSet(old) \ {id} : Before(old, a, b) => Before(new, a, b)
<1>1. DOMAIN old = 1..Len(old) /\ DOMAIN new = 1..Len(new)
  BY LenProperties
<1>2. ASSUME NEW a \in Ids \ {id}
      PROVE  a \in ToSet(old) <=> a \in ToSet(new)
  <2>1. ASSUME a \in ToSet(old) PROVE a \in ToSet(new)
    <3>1. PICK i \in 1..Len(old) : old[i] = a
      BY <1>1, <2>1 DEF ToSet
    <3>2. place[i] \in DOMAIN new /\ new[place[i]] = a
      BY <1>1, <1>2, <3>1
    <3> QED
      BY <3>2 DEF ToSet
  <2>2. ASSUME a \in ToSet(new) PROVE a \in ToSet(old)
    <3>1. PICK j \in 1..Len(new) : new[j] = a
      BY <1>1, <2>2 DEF ToSet
    <3>2. \E i \in DOMAIN old : old[i] = a
      BY <1>1, <1>2, <3>1
    <3> QED
      BY <3>2 DEF ToSet
  <2> QED
    BY <2>1, <2>2
<1>3. ASSUME NEW a \in ToSet(old) \ {id}, NEW b \in ToSet(old) \ {id}, Before(old, a, b)
      PROVE  Before(new, a, b)
  <2>1. PICK i \in 1..Len(old), j \in 1..Len(old) : i < j /\ old[i] = a /\ old[j] = b
    BY <1>1, <1>3 DEF Before
  <2>2. /\ place[i] \in DOMAIN new /\ place[j] \in DOMAIN new /\ place[i] < place[j]
        /\ new[place[i]] = a /\ new[place[j]] = b
    BY <1>1, <1>3, <2>1
  <2> QED
    BY <2>2 DEF Before
<1> QED
  BY <1>2, <1>3

\* The rows other than the one with this id stay, in their order.
Stay(id) ==
  /\ \A a \in Ids \ {id} : a \in Rows <=> a \in ToSet(workspaces')
  /\ \A a, b \in Rows \ {id} :
       Before(workspaces, a, b) => Before(workspaces', a, b)

LEMMA StayAfterAdd ==
  ASSUME workspaces \in Seq(Ids), NEW id \in Ids, AddWorkspace(id)
  PROVE  Stay(id) /\ Rows \subseteq ToSet(workspaces')
<1> DEFINE n == Len(workspaces)
           place == [i \in 1..n |-> i]
<1>1. /\ n \in Nat /\ Len(workspaces') = n + 1 /\ workspaces' \in Seq(Ids)
      /\ \A i \in 1..n : workspaces'[i] = workspaces[i]
      /\ workspaces'[n + 1] = id
  BY AppendProperties, LenProperties DEF AddWorkspace
<1>2. /\ \A i \in 1..n : workspaces[i] # id =>
           place[i] \in 1..Len(workspaces') /\ workspaces'[place[i]] = workspaces[i]
      /\ \A i, j \in 1..n : i < j /\ workspaces[i] # id /\ workspaces[j] # id =>
           place[i] < place[j]
      /\ \A j \in 1..Len(workspaces') :
           workspaces'[j] = id \/ \E i \in 1..n : workspaces[i] = workspaces'[j]
  BY <1>1
<1>3. Rows \subseteq ToSet(workspaces')
  BY <1>1, LenProperties DEF Rows, ToSet
<1>4. workspaces' \in Seq(Ids)
  BY <1>1
<1> HIDE DEF place
<1>5. Stay(id)
  BY <1>2, <1>4, PlacesKeepOrder DEF Stay, Rows
<1> QED
  BY <1>3, <1>5

\* What a removal leaves: the row of the id is gone, the others close up.
LEMMA RowsAfterRemove ==
  ASSUME workspaces \in Seq(Ids), NEW id \in Ids, RemoveWorkspace(id)
  PROVE  \E pos \in 1..Len(workspaces) :
           /\ workspaces[pos] = id
           /\ workspaces' \in Seq(Ids) /\ Len(workspaces') = Len(workspaces) - 1
           /\ \A j \in 1..(Len(workspaces) - 1) :
                workspaces'[j] = IF j < pos THEN workspaces[j] ELSE workspaces[j + 1]
           /\ selected' = ReselectAfterRemove(Len(workspaces) - 1, pos)
<1> DEFINE pos == Position(workspaces, id)
<1>1. pos \in 1..Len(workspaces)
  BY PositionInRows DEF RemoveWorkspace, Rows
<1>2. workspaces[pos] = id
  <2>1. \E i \in DOMAIN workspaces : workspaces[i] = id
    BY DEF RemoveWorkspace, Rows, ToSet
  <2> QED
    BY <2>1 DEF Position
<1>3. /\ workspaces' = RemoveAt(workspaces, pos)
      /\ selected' = ReselectAfterRemove(Len(workspaces) - 1, pos)
  BY DEF RemoveWorkspace
<1> HIDE DEF pos
<1> QED
  BY <1>1, <1>2, <1>3, RemoveAtType

LEMMA StayAfterRemove ==
  ASSUME workspaces \in Seq(Ids), RowsKnown, NEW id \in Ids, RemoveWorkspace(id)
  PROVE  Stay(id)
<1> DEFINE n == Len(workspaces)
<1>1. PICK pos \in 1..n :
           /\ workspaces[pos] = id
           /\ workspaces' \in Seq(Ids) /\ Len(workspaces') = n - 1
           /\ \A j \in 1..(n - 1) :
                workspaces'[j] = IF j < pos THEN workspaces[j] ELSE workspaces[j + 1]
  BY RowsAfterRemove
<1>2. n \in Nat
  BY LenProperties
<1> DEFINE place == [i \in 1..n |-> IF i < pos THEN i ELSE i - 1]
<1> HIDE DEF n
<1>3. \A i \in 1..n : workspaces[i] # id =>
        place[i] \in 1..Len(workspaces') /\ workspaces'[place[i]] = workspaces[i]
  BY <1>1, <1>2
<1>4. \A i, j \in 1..n : i < j /\ workspaces[i] # id /\ workspaces[j] # id =>
        place[i] < place[j]
  BY <1>1, <1>2
<1>5. \A j \in 1..Len(workspaces') : \E i \in 1..n : workspaces[i] = workspaces'[j]
  <2> TAKE j \in 1..Len(workspaces')
  <2>1. j \in 1..(n - 1) /\ j \in 1..n /\ j + 1 \in 1..n
    BY <1>1, <1>2
  <2> QED
    BY <1>1, <2>1
<1> HIDE DEF place
<1> QED
  BY <1>1, <1>3, <1>4, <1>5, PlacesKeepOrder DEF Stay, Rows, n

LEMMA StayAfterReorder ==
  ASSUME workspaces \in Seq(Ids), RowsKnown, NEW from, NEW to,
         ReorderRows(from, to), workspaces' # workspaces
  PROVE  /\ workspaces[from] \in Ids /\ Stay(workspaces[from])
         /\ Rows \subseteq ToSet(workspaces')
<1> DEFINE n == Len(workspaces)
           id == workspaces[from]
           skip(i) == IF i < from THEN i ELSE i - 1
           place == [i \in 1..n |-> IF skip(i) < to THEN skip(i) ELSE skip(i) + 1]
<1>1. /\ n \in Nat /\ from \in 1..n /\ to \in 1..n
      /\ workspaces' = MoveRow(from, to)
  BY LenProperties DEF ReorderRows
<1>2. /\ workspaces' \in Seq(Ids) /\ Len(workspaces') = n
      /\ \A j \in 1..n : workspaces'[j] = workspaces[OldPlace(from, to, j)]
  BY <1>1, MoveRowPlaces
<1>3. id \in Ids
  BY <1>1, ElementOfSeq
<1> HIDE DEF n
<1>4. ASSUME NEW i \in 1..n, workspaces[i] # id
      PROVE  place[i] \in 1..n /\ OldPlace(from, to, place[i]) = i
  BY <1>1, <1>4 DEF OldPlace
<1>5. \A i, j \in 1..n : i < j /\ workspaces[i] # id /\ workspaces[j] # id =>
        place[i] < place[j]
  BY <1>1
<1> HIDE DEF place
<1>6. \A i \in 1..n : workspaces[i] # id =>
        place[i] \in 1..Len(workspaces') /\ workspaces'[place[i]] = workspaces[i]
  BY <1>2, <1>4
<1>7. \A j \in 1..n : OldPlace(from, to, j) \in 1..n
  BY <1>1 DEF OldPlace
<1>8. \A j \in 1..Len(workspaces') :
        workspaces'[j] = id \/ \E i \in 1..n : workspaces[i] = workspaces'[j]
  BY <1>2, <1>7
<1>9. Stay(id)
  <2> HIDE DEF id
  <2> QED
    BY <1>2, <1>3, <1>5, <1>6, <1>8, PlacesKeepOrder DEF Stay, Rows, n
<1>10. id \in ToSet(workspaces')
  <2>1. workspaces'[to] = id
    BY <1>1, <1>2 DEF OldPlace
  <2> QED
    BY <1>1, <1>2, <2>1, LenProperties DEF ToSet
<1>11. Rows \subseteq Ids
  BY LenProperties, ElementOfSeq DEF Rows, ToSet
<1> QED
  BY <1>3, <1>9, <1>10, <1>11 DEF Stay

\* A step that changes the rows adds one, removes one or moves one.
LEMMA RowSteps ==
  ASSUME [Next]_vars, workspaces' # workspaces
  PROVE  \/ \E id \in Ids : AddWorkspace(id)
         \/ \E id \in Ids : RemoveWorkspace(id)
         \/ \E from, to : ReorderRows(from, to)
  BY DEF Next, vars, Select, Reorder, StartReorder, StartStep, Serve

LEMMA OthersStep ==
  ASSUME Selection, RowsKnown, [Next]_vars, workspaces' # workspaces
  PROVE  \E id \in Ids : Stay(id)
<1> workspaces \in Seq(Ids)
  BY DEF Selection
<1> QED
  BY RowSteps, StayAfterAdd, StayAfterRemove, StayAfterReorder

\* The row in front stays in front when another one is removed, and gives way to
\* the one that takes its place, or to the last, when it is removed itself.
LEMMA LookingAfterRemove ==
  ASSUME Selection, RowsKnown, NEW id \in Ids, RemoveWorkspace(id)
  PROVE  /\ id # Looking => Looking' = Looking
         /\ (id = Looking /\ workspaces' # <<>>) =>
              Looking' = workspaces'[IF selected < Len(workspaces) THEN selected
                                     ELSE Len(workspaces) - 1]
<1> DEFINE n == Len(workspaces)
<1>1. PICK pos \in 1..n :
           /\ workspaces[pos] = id
           /\ workspaces' \in Seq(Ids) /\ Len(workspaces') = n - 1
           /\ \A j \in 1..(n - 1) :
                workspaces'[j] = IF j < pos THEN workspaces[j] ELSE workspaces[j + 1]
           /\ selected' = ReselectAfterRemove(n - 1, pos)
  BY RowsAfterRemove DEF Selection
<1>2. n \in Nat /\ selected \in 1..n
  BY <1>1, EmptySeq, LenProperties DEF Selection, SelectionValid
<1>3. Looking = workspaces[selected]
  BY <1>2 DEF Looking
<1>4. id = Looking <=> pos = selected
  BY <1>1, <1>2, <1>3 DEF RowsKnown
<1> HIDE DEF n
<1>5. ASSUME pos # selected PROVE Looking' = Looking
  <2>1. /\ selected' \in 1..(n - 1)
        /\ selected' = IF selected > pos THEN selected - 1 ELSE selected
    BY <1>1, <1>2, <1>5 DEF ReselectAfterRemove
  <2>2. workspaces'[selected'] = workspaces[selected]
    BY <1>1, <1>2, <1>5, <2>1
  <2> QED
    BY <1>3, <2>1, <2>2 DEF Looking
<1>6. ASSUME pos = selected, workspaces' # <<>>
      PROVE  Looking' = workspaces'[IF selected < n THEN selected ELSE n - 1]
  <2>1. n - 1 # 0
    BY <1>1, <1>6, EmptySeq
  <2>2. selected' = IF selected < n THEN selected ELSE n - 1
    BY <1>1, <1>2, <1>6, <2>1 DEF ReselectAfterRemove
  <2>3. selected' # 0
    BY <1>2, <2>1, <2>2
  <2> QED
    BY <2>2, <2>3 DEF Looking
<1> QED
  BY <1>4, <1>5, <1>6 DEF n

\* Only its own removal takes a row out.
LEMMA LookingStep ==
  ASSUME Selection, RowsKnown, [Next]_vars,
         NEW id \in Ids, id \in Rows, id \notin ToSet(workspaces')
  PROVE  RemoveWorkspace(id)
<1> workspaces \in Seq(Ids)
  BY DEF Selection
<1>1. workspaces' # workspaces
  BY DEF Rows
<1>2. CASE \E other \in Ids : RemoveWorkspace(other)
  <2>1. PICK other \in Ids : RemoveWorkspace(other)
    BY <1>2
  <2>2. Stay(other)
    BY <2>1, StayAfterRemove
  <2>3. other = id
    BY <2>2 DEF Stay
  <2> QED
    BY <2>1, <2>3
<1>3. CASE \E other \in Ids : AddWorkspace(other)
  BY <1>3, StayAfterAdd
<1>4. CASE \E from, to : ReorderRows(from, to)
  BY <1>1, <1>4, StayAfterReorder
<1> QED
  BY <1>1, <1>2, <1>3, <1>4, RowSteps

\* A drag under way picked its row up in the snapshot it saw, and its target is
\* another row of that snapshot.
DragsAim ==
  \A g \in Gestures : nav[g].op = "reorder" =>
    /\ nav[g].seen \in Seq(Ids)
    /\ nav[g].from \in 1..Len(nav[g].seen) /\ nav[g].to \in 1..Len(nav[g].seen)
    /\ nav[g].from # nav[g].to

LEMMA DragsAimStep ==
  ASSUME Selection, GesturesTyped, DragsAim, [Next]_vars
  PROVE  DragsAim'
<1> workspaces \in Seq(Ids)
  BY DEF Selection
<1>1. CASE UNCHANGED nav
  BY <1>1 DEF DragsAim
<1>2. ASSUME NEW g \in Gestures, NEW id \in Ids, NEW target \in Ids, StartReorder(g, id, target)
      PROVE  DragsAim'
  <2>1. /\ nav'[g].seen = workspaces
        /\ nav'[g].from = Position(workspaces, id)
        /\ nav'[g].to = Position(workspaces, target)
    BY <1>2 DEF StartReorder, GesturesTyped
  <2>2. /\ Position(workspaces, id) \in 1..Len(workspaces)
        /\ Position(workspaces, target) \in 1..Len(workspaces)
    BY <1>2, PositionInRows DEF StartReorder, Rows
  <2>3. /\ workspaces[Position(workspaces, id)] = id
        /\ workspaces[Position(workspaces, target)] = target
    <3>1. /\ \E i \in DOMAIN workspaces : workspaces[i] = id
          /\ \E i \in DOMAIN workspaces : workspaces[i] = target
      BY <1>2 DEF StartReorder, Rows, ToSet
    <3> QED
      BY <3>1 DEF Position
  <2>4. Position(workspaces, id) # Position(workspaces, target)
    BY <1>2, <2>3 DEF StartReorder
  <2>5. \A h \in Gestures \ {g} : nav'[h] = nav[h]
    BY <1>2 DEF StartReorder, GesturesTyped
  <2> QED
    BY <2>1, <2>2, <2>4, <2>5 DEF DragsAim
<1>3. ASSUME NEW g \in Gestures, \/ \E delta \in {1, -1}, id \in Ids \cup {NoId} : StartStep(g, delta, id)
                                  \/ Serve(g)
      PROVE  DragsAim'
  <2>1. nav'[g].op # "reorder"
    BY <1>3 DEF StartStep, Serve, Idle, GesturesTyped
  <2>2. \A h \in Gestures \ {g} : nav'[h] = nav[h]
    BY <1>3 DEF StartStep, Serve, GesturesTyped
  <2> QED
    BY <2>1, <2>2 DEF DragsAim
<1> QED
  BY <1>1, <1>2, <1>3 DEF Next, vars, AddWorkspace, RemoveWorkspace, Select, Reorder

\* Served on the rows it saw, a drag puts the row where the target was.
LEMMA DragLandsStep ==
  ASSUME Selection, GesturesTyped, DragsAim, [Next]_vars,
         NEW g \in Gestures,
         nav[g].op = "reorder", nav[g].seen = workspaces, nav'[g] = Idle
  PROVE  /\ nav[g].to \in DOMAIN workspaces'
         /\ workspaces'[nav[g].to] = workspaces[nav[g].from]
<1> DEFINE from == nav[g].from
           to == nav[g].to
<1>1. nav[g] # Idle /\ nav'[g] # nav[g]
  BY DEF Idle
<1>2. Serve(g)
  <2>1. nav' # nav
    BY <1>1
  <2>2. \A h \in Gestures \ {g} : Serve(h) => nav'[g] = nav[g]
    BY DEF GesturesTyped, Serve
  <2>3. \A h \in Gestures, id, target \in Ids :
          StartReorder(h, id, target) => nav'[g] = nav[g]
    BY <1>1 DEF GesturesTyped, StartReorder
  <2>4. \A h \in Gestures, delta \in {1, -1}, id \in Ids \cup {NoId} :
          StartStep(h, delta, id) => nav'[g] = nav[g]
    BY <1>1 DEF GesturesTyped, StartStep
  <2> QED
    BY <1>1, <2>1, <2>2, <2>3, <2>4
    DEF Next, vars, AddWorkspace, RemoveWorkspace, Select, Reorder
<1>3. ReorderRows(from, to)
  BY <1>2 DEF Serve
<1>4. workspaces \in Seq(Ids) /\ from \in 1..Len(workspaces) /\ to \in 1..Len(workspaces) /\ from # to
  BY DEF DragsAim, Selection
<1> HIDE DEF from, to
<1>5. workspaces' = MoveRow(from, to)
  BY <1>3, <1>4, LenProperties DEF ReorderRows
<1>6. /\ workspaces' \in Seq(Ids) /\ Len(workspaces') = Len(workspaces)
      /\ workspaces'[to] = workspaces[OldPlace(from, to, to)]
  BY <1>4, <1>5, MoveRowPlaces
<1> QED
  BY <1>4, <1>6, LenProperties DEF OldPlace, from, to

\* Rows go where a command asks and nowhere else, and the user keeps looking at
\* the same one: closing a workspace never moves the others or the eye, and a drag
\* lands on its target or, when the rows changed under it, still moves one row at
\* most (workspace_store.rs: remove, reorder; workspace-nav.ts reorderById).
THEOREM RowsAlwaysMoveAsAsked == Spec => RowsMoveAsAsked
<1> DEFINE RowsInv == Selection /\ RowsKnown /\ GesturesTyped /\ DragsAim
<1>1. Init => RowsInv
  BY EmptySeq DEF Init, Selection, SelectionValid, RowsKnown, GesturesTyped, Idle, DragsAim
<1>2. RowsInv /\ [Next]_vars => RowsInv'
  BY SelectionStep, KnownStep, GesturesStep, DragsAimStep
<1>3. RowsInv /\ [Next]_vars =>
        [\A id \in Ids : (id \in Rows /\ id \notin ToSet(workspaces')) =>
           /\ id # Looking => Looking' = Looking
           /\ (id = Looking /\ workspaces' # <<>>) =>
                Looking' = workspaces'[IF selected < Len(workspaces) THEN selected
                                       ELSE Len(workspaces) - 1]]_vars
  BY LookingStep, LookingAfterRemove
<1>4. RowsInv /\ [Next]_vars =>
        [workspaces' # workspaces =>
           \E id \in Ids :
             /\ \A a \in Ids \ {id} : a \in Rows <=> a \in ToSet(workspaces')
             /\ \A a, b \in Rows \ {id} :
                  Before(workspaces, a, b) => Before(workspaces', a, b)]_vars
  BY OthersStep DEF Stay
<1>5. RowsInv /\ [Next]_vars =>
        [\A g \in Gestures :
           (nav[g].op = "reorder" /\ nav[g].seen = workspaces /\ nav'[g] = Idle) =>
             /\ nav[g].to \in DOMAIN workspaces'
             /\ workspaces'[nav[g].to] = workspaces[nav[g].from]]_vars
  BY DragLandsStep
<1>6. Spec => []RowsInv
  BY <1>1, <1>2, PTL DEF Spec
<1>7. Spec => RemovalKeepsLooking
  BY <1>3, <1>6, PTL DEF Spec, RemovalKeepsLooking
<1>8. Spec => OthersKeepOrder
  BY <1>4, <1>6, PTL DEF Spec, OthersKeepOrder
<1>9. Spec => DragLands
  BY <1>5, <1>6, PTL DEF Spec, DragLands
<1> QED
  BY <1>7, <1>8, <1>9 DEF RowsMoveAsAsked

=============================================================================
