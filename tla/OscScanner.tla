------------------------------ MODULE OscScanner ------------------------------
(***************************************************************************)
(* Notifications a shell writes into its output as OSC sequences: how they *)
(* are built (src-tauri/src/notify/osc.rs, commands.rs), how the scanner   *)
(* of a pane finds them in a stream that arrives in arbitrary pieces       *)
(* (scanner.rs, mod.rs), and how a sequence found is read (osc.rs).        *)
(*                                                                         *)
(* A stream is a sequence of tokens: control bytes, ";", the three codes,  *)
(* the fixed words of the formats, and payload tokens, each of which       *)
(* stands for a run of ordinary bytes.  What becomes of a notification     *)
(* after it was recorded is Notifications.                                 *)
(***************************************************************************)
EXTENDS Integers, Sequences, SequencesExt

CONSTANTS
  Shells,     \* panes whose program prints
  Noise,      \* sequences a program prints that are no notifications
  Requests,   \* what programs ask notify_build_osc for
  MaxPending, \* scanner.rs:21, counted in tokens
  MaxItems    \* bound: things printed

ASSUME OscAssumption == MaxPending \in Nat /\ MaxItems \in Nat

VARIABLES
  printed,  \* history: per pane, what its programs printed, item by item
  unread,   \* per pane, output on its way to notify_ingest_bytes
  scanners, \* NotifyState.scanners
  recorded  \* per pane, the notifications handed to NotificationManager.record

oscVars == <<printed, unread, scanners, recorded>>

ESC == "ESC"
BEL == "BEL"
Intro == "]"
STFinal == "\\"
Separator == ";"
OscCodes == {"9", "99", "777"}

-----------------------------------------------------------------------------
(* Building a sequence.                                                    *)

BuildOsc9(body) == <<ESC, Intro, "9", Separator>> \o body \o <<BEL>>

BuildOsc777(title, body) ==
  <<ESC, Intro, "777", Separator, "notify", Separator>> \o title \o <<Separator>> \o body \o <<BEL>>

BuildOsc99(field, payload) ==
  <<ESC, Intro, "99", Separator, field, Separator>> \o payload \o <<ESC, STFinal>>

\* notify_build_osc
BuildOsc(r) ==
  CASE r.flavor = "osc9" -> BuildOsc9(r.body)
    [] r.flavor = "osc777" -> BuildOsc777(r.title, r.body)
    [] r.flavor = "osc99" /\ r.title = <<>> -> BuildOsc99("p=body", r.body)
    [] OTHER -> BuildOsc99("p=title", r.title)

-----------------------------------------------------------------------------
(* What is printed.                                                        *)

\* A text that does not end the sequence it is put into: the builders escape
\* nothing.
IsText(s) == s \in Seq(Range(s) \ {ESC, BEL})

ASSUME RequestsAreText ==
  \A r \in Requests :
    /\ r.flavor \in {"osc9", "osc777", "osc99"}
    /\ IsText(r.title) /\ IsText(r.body)
    /\ r.flavor = "osc777" => Separator \notin Range(r.title)

\* What other programs print is a byte that means something to the scanner, the
\* beginning of a sequence, or an ordinary token.
ASSUME NoiseIsNothing ==
  \A n \in Noise :
    \/ n \in {<<ESC>>, <<BEL>>, <<ESC, Intro>>}
    \/ n = <<n[1]>> /\ n[1] \notin {ESC, BEL, Intro, STFinal, Separator}

-----------------------------------------------------------------------------
(* Reading a sequence.  None is <<>>, a notification a pair.               *)

Notification(title, body) == [title |-> title, body |-> body]
Nothing == Notification(<<>>, <<>>)

\* str::split_once(';')
Before(s) == SubSeq(s, 1, SelectInSeq(s, LAMBDA t : t = Separator) - 1)
After(s) == SubSeq(s, SelectInSeq(s, LAMBDA t : t = Separator) + 1, Len(s))
Splits(s) == \E i \in DOMAIN s : s[i] = Separator

\* A missing separator or a code that is no number is no sequence at all.
ParseBody(body) ==
  IF Splits(body) /\ Len(Before(body)) = 1 /\ Before(body)[1] \in OscCodes
  THEN <<[code |-> Before(body)[1], data |-> After(body)]>>
  ELSE <<>>

ParseOsc777(data) ==
  IF ~ IsPrefix(<<"notify", Separator>>, data) THEN Nothing
  ELSE LET rest == SubSeq(data, 3, Len(data)) IN
       IF Splits(rest) THEN Notification(Before(rest), After(rest))
       ELSE Notification(rest, <<>>)

ParseOsc99(data) ==
  IF ~ Splits(data) THEN Nothing
  ELSE IF Before(data) = <<"p=title">> THEN Notification(After(data), <<>>)
  ELSE Notification(<<>>, After(data))

\* parse_notification, with the sequences that show nothing left out.
ParseNotification(osc) ==
  CASE osc.code = "9" -> Notification(<<>>, osc.data)
    [] osc.code = "777" -> ParseOsc777(osc.data)
    [] OTHER -> ParseOsc99(osc.data)

-----------------------------------------------------------------------------
(* The scanner.                                                            *)

Fresh == [state |-> "Idle", body |-> <<>>, out |-> <<>>]

Reset(s) == [s EXCEPT !.state = "Idle", !.body = <<>>]

Finish(s) == Reset([s EXCEPT !.out = @ \o ParseBody(s.body)])

\* Mutant of Accumulate: a body that grew too long is cut and goes on.
AccumulateCuts(s, b) ==
  IF Len(s.body) >= MaxPending THEN s ELSE [s EXCEPT !.body = Append(@, b)]

Accumulate(s, b) ==
  IF Len(s.body) + 1 > MaxPending THEN Reset(s)
  ELSE [s EXCEPT !.body = Append(@, b)]

Armed(s, b) ==
  CASE b = Intro -> [s EXCEPT !.state = "InBody", !.body = <<>>]
    [] b = ESC -> s
    [] OTHER -> [s EXCEPT !.state = "Idle"]

InBody(s, b) ==
  CASE b = BEL -> Finish(s)
    [] b = ESC -> [s EXCEPT !.state = "BodyEsc"]
    [] OTHER -> Accumulate(s, b)

BodyEsc(s, b) ==
  CASE b = STFinal -> Finish(s)
    [] b = ESC -> [s EXCEPT !.state = "EscArmed", !.body = <<>>]
    [] OTHER -> Reset(s)

ScanByte(s, b) ==
  CASE s.state = "EscArmed" -> Armed(s, b)
    [] s.state = "InBody" -> InBody(s, b)
    [] s.state = "BodyEsc" -> BodyEsc(s, b)
    [] OTHER -> IF b = ESC THEN [s EXCEPT !.state = "EscArmed"] ELSE s

\* Mutant of Push: every batch starts a scan of its own.
PushAfresh(s, bytes) == FoldLeft(ScanByte, Fresh, bytes)

Push(s, bytes) == FoldLeft(ScanByte, [s EXCEPT !.out = <<>>], bytes)

-----------------------------------------------------------------------------
OscInit ==
  /\ printed = [p \in Shells |-> <<>>]
  /\ unread = [p \in Shells |-> <<>>]
  /\ scanners = [p \in Shells |-> Fresh]
  /\ recorded = [p \in Shells |-> <<>>]

\* Requests and noise alike are what a program prints.
Items == {[noise |-> FALSE, built |-> r] : r \in Requests}
           \cup {[noise |-> TRUE, bytes |-> n] : n \in Noise}
BytesOf(item) == IF item.noise THEN item.bytes ELSE BuildOsc(item.built)

Write(p, item) ==
  /\ FoldLeft(LAMBDA n, q : n + Len(printed[q]), 0, SetToSeq(Shells)) < MaxItems
  /\ printed' = [printed EXCEPT ![p] = Append(@, item)]
  /\ unread' = [unread EXCEPT ![p] = @ \o BytesOf(item)]
  /\ UNCHANGED <<scanners, recorded>>

\* What can be displayed is recorded.
RecordOsc(done, osc) ==
  IF ParseNotification(osc) = Nothing THEN done ELSE Append(done, ParseNotification(osc))

\* notify_ingest_bytes: scan the batch, record what it completes.
IngestBytes(p, n) ==
  LET after == Push(scanners[p], SubSeq(unread[p], 1, n))
  IN /\ scanners' = [scanners EXCEPT ![p] = [after EXCEPT !.out = <<>>]]
     /\ recorded' = [recorded EXCEPT ![p] = FoldLeft(RecordOsc, @, after.out)]
     /\ unread' = [unread EXCEPT ![p] = SubSeq(@, n + 1, Len(@))]
     /\ UNCHANGED printed

OscNext ==
  \E p \in Shells :
    \/ \E item \in Items : Write(p, item)
    \/ \E n \in 1 .. Len(unread[p]) : IngestBytes(p, n)

-----------------------------------------------------------------------------
(* What a program may rely on.                                             *)

\* What the caller asked to have shown.
Wanted(r) ==
  CASE r.flavor = "osc777" -> Notification(r.title, r.body)
    [] r.flavor = "osc99" /\ r.title # <<>> -> Notification(r.title, <<>>)
    [] OTHER -> Notification(<<>>, r.body)

\* What lies between the brackets of a sequence as it was built.
BodyLength(r) ==
  Len(BuildOsc(r)) - (IF r.flavor = "osc99" THEN 4 ELSE 3)

\* open: -1 outside a body, or the length of one that somebody left open;
\* esc: that body has just met an ESC.
Outcome(acc, item) ==
  LET bytes == BytesOf(item)
      begins == Head(bytes) = ESC
      outside == acc.open < 0 \/ (acc.esc /\ begins)
      inside == ~ outside /\ ~ acc.esc
      found == outside /\ ~ item.noise /\ BodyLength(item.built) <= MaxPending
                 /\ Wanted(item.built) # Nothing
  IN [shown |-> IF found THEN Append(acc.shown, Wanted(item.built)) ELSE acc.shown,
      open |-> CASE outside /\ bytes = <<ESC, Intro>> -> 0
                 [] inside /\ bytes = <<ESC>> -> acc.open
                 [] inside /\ ~ begins /\ bytes # <<BEL>> /\ acc.open < MaxPending -> acc.open + 1
                 [] OTHER -> -1,
      esc |-> inside /\ bytes = <<ESC>>]

Expected(items) ==
  FoldLeft(Outcome, [shown |-> <<>>, open |-> -1, esc |-> FALSE], items).shown

\* A notification that was built and printed is recorded as it was asked for,
\* once and in order, however the output was cut into batches and whatever the
\* other pane prints; only one too long for the scanner is lost, or one that
\* follows a sequence nobody closed, and that costs no second one (scanner.rs,
\* push, finish and accumulate; the builders of osc.rs).
DeliveredAsBuilt ==
  \A p \in Shells :
    /\ IsPrefix(recorded[p], Expected(printed[p]))
    /\ unread[p] = <<>> => recorded[p] = Expected(printed[p])
    /\ Len(scanners[p].body) <= MaxPending
=============================================================================
