------------------------------ MODULE MCServices ------------------------------
\* Eight parts that share no state, in one run: a behaviour exercises one of them,
\* chosen at the start, and leaves the others where they begin.
EXTENDS Recovery, OscScanner, SocksBroker, Redaction, LogRetention, Sidebar, BrowserImport,
        SessionRestore, TLC

VARIABLE part

allVars == <<part, vars, oscVars, socksVars, redactionVars, retentionVars, sidebarVars,
             importVars, sessionVars>>

(* OscScanner: one request that shows nothing, one too long by a token.    *)
Ask(flavor, title, body) == [flavor |-> flavor, title |-> title, body |-> body]
MCRequests ==
  { Ask("osc9", <<>>, <<"b", ";", "b">>), Ask("osc9", <<>>, <<>>),
    Ask("osc777", <<"t">>, <<"b">>), Ask("osc99", <<"t">>, <<"b">>) }
MCNoise == {<<"b">>, <<ESC>>, <<ESC, Intro>>}

(* SocksBroker: the three kinds of address, and what is wrong with others. *)
Domain(h) == <<5, 1, 0, 3, Len(h)>> \o h \o <<0, 80>>
V4 == <<10, 0, 0, 1>>
V6 == [i \in 1 .. 16 |-> IF i = 16 THEN 1 ELSE 0]
Asking(atyp, h) == [host |-> [atyp |-> atyp, bytes |-> h], port |-> <<0, 80>>]
Wish(bytes, asked) == [bytes |-> bytes, asked |-> asked]
Wishes ==
  { Wish(Domain(<<104, 105>>), Asking(DomainName, <<104, 105>>)),
    Wish(<<5, 1, 0, 1>> \o V4 \o <<0, 80>>, Asking(IPv4, V4)),
    Wish(<<5, 1, 0, 4>> \o V6 \o <<0, 80>>, Asking(IPv6, V6)),
    Wish(Domain(<<>>), NoTarget), Wish(Domain(<<104, 255>>), NoTarget),
    Wish(<<5, 2, 0, 1>> \o V4 \o <<0, 80>>, NoTarget),
    Wish(<<5, 1, 0, 9>>, NoTarget), Wish(<<4, 1>>, NoTarget) }
Script(greeting, wish) ==
  [greeting |-> greeting, request |-> wish.bytes, asked |-> wish.asked,
   payload |-> <<7, 8>>]
MCScripts ==
  {Script(g, w) : g \in {<<5, 1, 0>>, <<5, 2, 2, 0>>}, w \in Wishes}
    \cup {Script(g, Wish(V4, NoTarget)) : g \in {<<5, 1, 2>>, <<5, 0>>, <<4, 1, 0>>}}
MCAddresses == {[loopback |-> TRUE], [loopback |-> FALSE]}

(* Sidebar.                                                                *)
Line(tool, listening, port) == [tool |-> tool, listening |-> listening, port |-> port]
MCScanOutput ==
  {<<Line("ss", TRUE, 443), Line("lsof", TRUE, 80), Line("ss", TRUE, 80),
     Line("ss", TRUE, 0), Line("ss", FALSE, 22)>>}
MCCheckouts ==
  { [git |-> "directory", head |-> "main", changed |-> TRUE],
    [git |-> "none", head |-> "missing", changed |-> FALSE] }

(* BrowserImport: a browser of each family, one that may not be there.     *)
Cookie(name, domain, expires, value) ==
  [name |-> name, domain |-> domain, path |-> "/", expires |-> expires, value |-> value]
Good ==
  [error |-> {}, rows |-> <<Cookie("a", "d1", -1, 1), Cookie("b", "d2", 3, 2),
     Cookie("a", "d1", 0, 3), Cookie("a", "d1", 5, 4), Cookie("b", "d2", 3, 5),
     Cookie("a", "d2", -1, 6)>>]
Bad(words) == [error |-> words, rows |-> <<>>]
Visits(times) ==
  [error |-> {}, rows |-> [i \in DOMAIN times |-> [url |-> i, time |-> times[i]]]]
Dir(content, ini) == [files |-> content, ini |-> ini]
Network == "Default/Network/Cookies"
Beside == "Default/Cookies"
ChromeDirs ==
  { Dir((Network :> Good) @@ (Beside :> Bad({"v20"}))
          @@ ("Default/History" :> Visits(<<0, 13, 17, 4>>)), <<>>),
    Dir(Beside :> Bad({"v20", "locked"}), <<>>),
    Dir(Network :> Bad({"locked"}), <<>>), Dir(<<>>, <<>>) }
FoxFiles == ("cookies.sqlite" :> Good) @@ ("places.sqlite" :> Visits(<<-1, 3, 0, 9>>))
Installs == <<<<"install">>, <<"default", "default">>>>
FoxDirs ==
  { Dir(FoxFiles, <<<<"section">>, <<"default", "1">>>> \o Installs),
    Dir(FoxFiles, <<<<"install">>, <<"section">>, <<"default", "default">>>>),
    Dir("cookies.sqlite" :> Bad({"not found"}), Installs),
    Dir("cookies.sqlite" :> Bad({"odd"}), Installs) }
MCRoots ==
  [id \in {CATALOG[i].id : i \in DOMAIN CATALOG} |->
     CASE id = "chrome" -> ChromeDirs
       [] id = "floorp" -> FoxDirs
       [] id \in {"safari", "zen"} -> {Dir(<<>>, <<>>)}
       [] OTHER -> {}]
MCDomainSets == {{}, {"n1"}, {"n1", "n2"}}
MCHolds == {<<"d1", "n1">>, <<"d2", "n2">>}

MCSessionPanes == <<1, 2>>

(* Recovery: surfaces share no state, so that one of them, with more failures *)
(* than its budget, shows what two would.                                    *)
MCExits == {<<"code", 1>>, <<"code", 137>>, <<"signal", 9>>}

-----------------------------------------------------------------------------
Parts == {"recovery", "osc", "socks", "redaction", "retention", "sidebar", "import",
          "session"}

ServicesInit ==
  /\ part \in Parts
  /\ Init /\ OscInit /\ SocksInit /\ RedactionInit /\ RetentionInit /\ SidebarInit
  /\ ImportInit /\ SessionInit
  /\ part # "import" => live

ServicesNext ==
  \/ /\ part = "recovery" /\ Next
     /\ UNCHANGED <<part, oscVars, socksVars, redactionVars, retentionVars,
                    sidebarVars, importVars, sessionVars>>
  \/ /\ part = "osc" /\ OscNext
     /\ UNCHANGED <<part, vars, socksVars, redactionVars, retentionVars,
                    sidebarVars, importVars, sessionVars>>
  \/ /\ part = "socks" /\ SocksNext
     /\ UNCHANGED <<part, vars, oscVars, redactionVars, retentionVars,
                    sidebarVars, importVars, sessionVars>>
  \/ /\ part = "redaction" /\ RedactionNext
     /\ UNCHANGED <<part, vars, oscVars, socksVars, retentionVars,
                    sidebarVars, importVars, sessionVars>>
  \/ /\ part = "retention" /\ RetentionNext
     /\ UNCHANGED <<part, vars, oscVars, socksVars, redactionVars,
                    sidebarVars, importVars, sessionVars>>
  \/ /\ part = "sidebar" /\ SidebarNext
     /\ UNCHANGED <<part, vars, oscVars, socksVars, redactionVars,
                    retentionVars, importVars, sessionVars>>
  \/ /\ part = "import" /\ ImportNext
     /\ UNCHANGED <<part, vars, oscVars, socksVars, redactionVars,
                    retentionVars, sidebarVars, sessionVars>>
  \/ /\ part = "session" /\ SessionNext
     /\ UNCHANGED <<part, vars, oscVars, socksVars, redactionVars,
                    retentionVars, sidebarVars, importVars>>

ServicesSpec == ServicesInit /\ [][ServicesNext]_allVars

\* The sidebar's scans and its transient reports are explored apart, and one map of
\* the store at a time: neither reads what the other writes.
ScansApart ==
  /\ enabled # {} \/ capture # NoCapture => transient = <<>>
  /\ \A w \in DOMAIN store :
       LET told == Cardinality(DOMAIN store[w].branches) + Cardinality(DOMAIN store[w].pulls)
                     + Cardinality(DOMAIN store[w].ports)
       IN told <= 1 /\ (told = 1 => transient = <<>>)
=============================================================================
