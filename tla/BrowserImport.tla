----------------------------- MODULE BrowserImport -----------------------------
(***************************************************************************)
(* Taking cookies and history over from another browser                    *)
(* (src-tauri/src/import): which browsers are there (catalog.rs), the      *)
(* user's consent (consent.rs), what may be read and why not (cookies.rs,  *)
(* types.rs), duplicates and the domains asked for (dedupe.rs), and the    *)
(* times of visits in one unit (history.rs), behind three commands         *)
(* (commands.rs).                                                          *)
(*                                                                         *)
(* The commands are synchronous: each is one step.  A browser's stores are *)
(* sequences; decrypting them is another program's work.                   *)
(***************************************************************************)
EXTENDS Integers, Sequences, SequencesExt, FiniteSets

CONSTANTS
  Platform,   \* "windows", "macos" or "linux"
  Roots,      \* per family, what a browser's directory may hold
  DomainSets, \* what a caller may ask for
  Holds,      \* pairs <<d, n>>: the domain d contains the text n
  EpochDelta, \* history.rs:21, in the ticks of a store
  PerMs       \* ticks in a millisecond

VARIABLES
  installed, \* by id, the directory of each browser there is
  consent,   \* Config.import_consent
  live,      \* WEFTGRID_IMPORT_LIVE was set when the program started
  answer     \* what the last command came to, and what was asked

importVars == <<installed, consent, live, answer>>

None == "none"

-----------------------------------------------------------------------------
(* The catalog.                                                            *)

\* In the order of the table; name is the place of the display name in the
\* alphabet.
Row(id, name, family, tier) ==
  [id |-> id, name |-> name, family |-> family, tier |-> tier]

CATALOG ==
  << Row("chrome", 9, "chromium", 1),     Row("firefox", 7, "firefox", 1),
     Row("edge", 13, "chromium", 1),      Row("brave", 3, "chromium", 1),
     Row("arc", 1, "chromium", 1),        Row("safari", 18, "webkit", 1),
     Row("vivaldi", 21, "chromium", 2),   Row("opera", 14, "chromium", 2),
     Row("opera_gx", 15, "chromium", 2),  Row("zen", 23, "firefox", 2),
     Row("orion", 16, "webkit", 2),       Row("chromium", 4, "chromium", 3),
     Row("librewolf", 12, "firefox", 3),  Row("floorp", 8, "firefox", 3),
     Row("waterfox", 22, "firefox", 3),   Row("dia", 6, "chromium", 3),
     Row("comet", 17, "chromium", 3),     Row("sigmaos", 20, "chromium", 3),
     Row("sidekick", 19, "chromium", 3),  Row("helium", 10, "chromium", 3),
     Row("atlas", 2, "chromium", 3),      Row("ladybird", 11, "webkit", 3) >>

\* rel_root: the three of the webkit family have a directory on macOS only.
HasRoot(row) == row.family # "webkit" \/ Platform = "macos"

FirstExisting(root, candidates) ==
  LET there == SelectSeq(candidates, LAMBDA f : f \in DOMAIN root.files)
  IN IF there = <<>> THEN None ELSE Head(there)

ChromiumArtifacts(root) ==
  [cookie |-> FirstExisting(root, <<"Default/Network/Cookies", "Default/Cookies">>),
   history |-> FirstExisting(root, <<"Default/History">>)]

\* firefox_default_profile: the first Default= behind an [Install...] header, with
\* no other header in between.  An ini is a sequence of "install", "section", and
\* lines <<"default", profile>>.
DefaultProfile(ini) ==
  LET points(i) ==
        /\ ini[i] \notin {<<"install">>, <<"section">>}
        /\ \E j \in 1 .. i - 1 : ini[j] = <<"install">>
                                   /\ \A m \in j .. i : ini[m] # <<"section">>
      first == {i \in DOMAIN ini : points(i) /\ \A j \in 1 .. i - 1 : ~ points(j)}
  IN IF first = {} THEN None ELSE ini[CHOOSE i \in first : TRUE][2]

FirefoxArtifacts(root) ==
  LET profile == DefaultProfile(root.ini) IN
  IF profile = "default"
  THEN [cookie |-> FirstExisting(root, <<"cookies.sqlite">>),
        history |-> FirstExisting(root, <<"places.sqlite">>)]
  ELSE [cookie |-> None, history |-> None]

InfoFor(row, root) ==
  [row |-> row, root |-> root,
   db |-> CASE row.family = "chromium" -> ChromiumArtifacts(root)
            [] row.family = "firefox" -> FirefoxArtifacts(root)
            [] OTHER -> [cookie |-> None, history |-> None]]

DetectInstalled ==
  LET there == SelectSeq(CATALOG, LAMBDA r : HasRoot(r) /\ r.id \in DOMAIN installed)
      before(a, b) == \/ a.row.tier < b.row.tier
                      \/ a.row.tier = b.row.tier /\ a.row.name < b.row.name
  IN SortSeq([i \in DOMAIN there |-> InfoFor(there[i], installed[there[i].id])], before)

\* find_browser
FindBrowser(id) == SelectSeq(DetectInstalled, LAMBDA b : b.row.id = id)

-----------------------------------------------------------------------------
(* Cookies.                                                                *)

\* dedupe_key; a session cookie has expires = -1 and ranks below all others.
Key(c) == <<c.name, c.domain, c.path>>

\* Mutant of Dedupe: a later one replaces an earlier one that lives as long.
DedupeLastWins(cookies) ==
  LET merge(out, c) ==
        LET at == {i \in DOMAIN out : Key(out[i]) = Key(c)} IN
        IF at = {} THEN Append(out, c)
        ELSE [i \in DOMAIN out |->
                IF i \in at /\ c.expires >= out[i].expires THEN c ELSE out[i]]
  IN FoldLeft(merge, <<>>, cookies)

Dedupe(cookies) ==
  LET merge(out, c) ==
        LET at == {i \in DOMAIN out : Key(out[i]) = Key(c)} IN
        IF at = {} THEN Append(out, c)
        ELSE [i \in DOMAIN out |->
                IF i \in at /\ c.expires > out[i].expires THEN c ELSE out[i]]
  IN FoldLeft(merge, <<>>, cookies)

FilterDomains(cookies, domains) ==
  SelectSeq(cookies, LAMBDA c : domains = {} \/ \E n \in domains : <<c.domain, n>> \in Holds)

\* classify_error, by the words the message contains.
ClassifyError(words) ==
  CASE "v20" \in words -> "app_bound"
    [] "v20" \notin words /\ "locked" \in words -> "keyring_locked"
    [] words = {"not found"} -> "unavailable"
    [] OTHER -> "decrypt_failed"

\* CookieImportResult
ImportResult(cookies) == [cookies |-> cookies, skipped |-> None]
Skipped(reason) == [cookies |-> <<>>, skipped |-> reason]

\* import_cookies.  rookie::any_browser gives the cookies of the domains asked for,
\* or an error in words of its own.
ReadCookies(browser, domains) ==
  IF ~ live \/ browser.row.family = "webkit" \/ browser.db.cookie = None
  THEN Skipped("unavailable")
  ELSE LET store == browser.root.files[browser.db.cookie] IN
       IF store.error # {} THEN Skipped(ClassifyError(store.error))
       ELSE ImportResult(FilterDomains(store.rows, domains))

-----------------------------------------------------------------------------
(* History.                                                                *)

Never == 0   \* of a page Chromium has but nobody visited
Null == -1   \* Firefox has no time of the page

\* Division in the source rounds towards zero.
Quotient(a, b) == IF a >= 0 THEN a \div b ELSE - ((- a) \div b)

\* Mutant of ChromiumTimeToUnixMs: a page never visited is like any other.
ChromiumTimePlain(raw) == Quotient(raw - EpochDelta, PerMs)

ChromiumTimeToUnixMs(raw) ==
  IF raw = Never THEN 0 ELSE Quotient(raw - EpochDelta, PerMs)

ByTime(rows) == SortSeq(rows, LAMBDA a, b : a.time > b.time)

\* read_history: Chromium gives every page, Firefox those with a time at all.
ReadHistory(family, rows) ==
  LET entry(r) == [url |-> r.url,
                   ms |-> IF family = "chromium" THEN ChromiumTimeToUnixMs(r.time)
                          ELSE Quotient(r.time, PerMs)]
      chosen == IF family = "chromium" THEN rows
                ELSE SelectSeq(rows, LAMBDA r : r.time # Null)
      sorted == ByTime(chosen)
  IN [i \in DOMAIN sorted |-> entry(sorted[i])]

-----------------------------------------------------------------------------
Idle == [cmd |-> "none"]
Refused(why) == [cmd |-> "refused", why |-> why]

ImportInit ==
  /\ installed = <<>>
  /\ consent = FALSE
  /\ live \in BOOLEAN
  /\ answer = Idle

Install(row, root) ==
  /\ row.id \notin DOMAIN installed
  /\ installed' = [x \in DOMAIN installed \cup {row.id} |->
                     IF x = row.id THEN root ELSE installed[x]]
  /\ answer' = Idle
  /\ UNCHANGED <<consent, live>>

SetConsent(granted) ==
  /\ consent' = granted
  /\ answer' = Idle
  /\ UNCHANGED <<installed, live>>

ImportListBrowsers ==
  /\ answer' = [cmd |-> "list", found |-> DetectInstalled]
  /\ UNCHANGED <<installed, consent, live>>

ImportCookies(id, domains) ==
  /\ \/ ~ consent /\ answer' = Refused("consent")
     \/ consent /\ FindBrowser(id) = <<>> /\ answer' = Refused("not installed")
     \/ /\ consent
        /\ FindBrowser(id) # <<>>
        /\ LET r == ReadCookies(Head(FindBrowser(id)), domains) IN
             answer' = [cmd |-> "cookies", id |-> id, domains |-> domains,
                        cookies |-> FilterDomains(Dedupe(r.cookies), domains),
                        skipped |-> r.skipped]
  /\ UNCHANGED <<installed, consent, live>>

ImportHistory(id) ==
  /\ \/ ~ consent /\ answer' = Refused("consent")
     \/ consent /\ FindBrowser(id) = <<>> /\ answer' = Refused("not installed")
     \/ /\ consent
        /\ FindBrowser(id) # <<>>
        /\ LET b == Head(FindBrowser(id)) IN
           \/ b.db.history = None /\ answer' = Refused("no database")
           \/ b.db.history # None /\ answer' = Refused("locked")
           \/ /\ b.db.history # None
              /\ answer' = [cmd |-> "history", id |-> id,
                   entries |-> ReadHistory(b.row.family, b.root.files[b.db.history].rows)]
  /\ UNCHANGED <<installed, consent, live>>

ImportNext ==
  \/ \E i \in DOMAIN CATALOG :
       \/ \E root \in Roots[CATALOG[i].id] : Install(CATALOG[i], root)
       \/ /\ Roots[CATALOG[i].id] # {}
          /\ \/ \E domains \in DomainSets : ImportCookies(CATALOG[i].id, domains)
             \/ ImportHistory(CATALOG[i].id)
  \/ \E granted \in BOOLEAN : SetConsent(granted)
  \/ ImportListBrowsers

-----------------------------------------------------------------------------
(* What a caller may rely on.                                              *)

Asked == installed[answer.id]
\* The store of a kind; a cookie store under Network counts before one beside it.
Store(names) ==
  Asked.files[Head(SelectSeq(names, LAMBDA f : f \in DOMAIN Asked.files))]

\* Of the stored cookies of one key, the one that lives longest, and of several
\* the first; where the first of all stands, in the order of the store.
CookiesAsStored ==
  LET rows == Store(<<"Default/Network/Cookies", "Default/Cookies", "cookies.sqlite">>).rows
      wanted == {i \in DOMAIN rows : answer.domains = {}
                   \/ \E n \in answer.domains : <<rows[i].domain, n>> \in Holds}
      alike(i) == {j \in DOMAIN rows : Key(rows[j]) = Key(rows[i])}
      best(i) == CHOOSE j \in alike(i) : \A m \in alike(i) :
                   rows[m].expires < rows[j].expires
                     \/ (rows[m].expires = rows[j].expires /\ j <= m)
      firsts == SetToSortSeq({i \in wanted : \A j \in alike(i) : i <= j}, <)
  IN answer.cookies = [n \in DOMAIN firsts |-> rows[best(firsts[n])]]

\* A page never visited has the time zero; any other the millisecond it was
\* visited in, the newest first.
VisitsAsStored ==
  LET rows == Store(<<"Default/History", "places.sqlite">>).rows
      chromium == "Default/History" \in DOMAIN Asked.files
      ticks(r) == IF chromium THEN r.time - EpochDelta ELSE r.time
      of(e) == rows[CHOOSE i \in DOMAIN rows : rows[i].url = e.url]
      visited(e) == ~ (chromium /\ of(e).time = Never)
      entries == answer.entries
  IN /\ {e.url : e \in Range(entries)} = {r.url : r \in {x \in Range(rows) : x.time # Null}}
     /\ \A i \in DOMAIN entries :
          LET e == entries[i] IN
          /\ ~ visited(e) => e.ms = 0
          /\ visited(e) => /\ e.ms * PerMs - ticks(of(e)) \in 1 - PerMs .. PerMs - 1
                           /\ \A j \in 1 .. i - 1 :
                                visited(entries[j]) => e.ms <= entries[j].ms

\* Every browser whose directory is there, once, the common ones first.
PickerComplete ==
  LET found == answer.found IN
  /\ {found[i].row.id : i \in DOMAIN found}
       = {id \in DOMAIN installed : \E i \in DOMAIN CATALOG :
            CATALOG[i].id = id /\ HasRoot(CATALOG[i])}
  /\ \A i, j \in DOMAIN found : i < j =>
       /\ found[i].row.id # found[j].row.id
       /\ found[i].row.tier <= found[j].row.tier

\* What an import hands over is what the other browser has stored, of the domains
\* asked for and each cookie once, with the latest of its lives; a skip hands over
\* nothing; nothing is read without consent; and the picker offers every browser
\* that is there, once (commands.rs; dedupe.rs; history.rs; catalog.rs, detect_in).
ImportedAsStored ==
  /\ answer.cmd \in {"cookies", "history"} => consent
  /\ answer.cmd = "cookies" /\ answer.skipped = None => live /\ CookiesAsStored
  /\ answer.cmd = "cookies" /\ answer.skipped # None => answer.cookies = <<>>
  /\ answer.cmd = "history" => VisitsAsStored
  /\ answer.cmd = "list" => PickerComplete
=============================================================================
