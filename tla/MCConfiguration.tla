--------------------------- MODULE MCConfiguration ---------------------------
(* Configuration with its constants for model checking: one action that can  *)
(* be rebound or unbound, and commands of a project of one name: two texts,  *)
(* one before and after an edit or both in one file, next to one that asks   *)
(* every time.                                                               *)
EXTENDS Configuration

MCActions == {"palette"}
MCTyped == {<<"x", "control", "ctrl">>, <<"">>}
MCDefaultChord == [a \in MCActions |-> <<"ctrl", "p">>]
MCLayouts == {"horizontal", "vertical"}
MCDefaultLayout == "horizontal"

Command(text, confirm) ==
  [name |-> "deploy", text |-> text, source |-> "weft.json", confirm |-> confirm]
MCCommands == {Command("make", FALSE), Command("make all", FALSE), Command("make", TRUE)}

\* Bound: no custom command runs while the settings panel is in use, and only one of
\* the commands once it has been: the trust file and the config are apart.
Untouched ==
  /\ panel = Closed /\ queue = <<>> /\ unsaved = {}
  /\ \A d \in Dirs : disk[d].config \in {NoFile} \cup OldConfig \cup NewerConfig

Used == {r.cmd : r \in approved} \cup {r.found : r \in approved}
          \cup (IF run = NoRun THEN {} ELSE {run.cmd, run.found})

OneAtATime ==
  /\ run = NoRun \/ (panel = Closed /\ queue = <<>>)
  /\ Untouched \/ Used \subseteq {Command("make", FALSE)}
=============================================================================
