-------------------------- MODULE AccountSessionProofs --------------------------
(***************************************************************************)
(* Proofs, for every set of accounts, pages and changes and every bound,   *)
(* that a browser which changes accounts keeps people's data apart and     *)
(* their changes waiting (OwnDataOnly and EditsAreKept of AccountSession). *)
(***************************************************************************)
EXTENDS AccountSession, TLAPS

(***************************************************************************)
(* The inductive invariant.  What the pages remember has its type, and     *)
(* what a page is in the middle of belongs to the account it shows         *)
(* (PageOK).  No sign-in has a number that was not given out, so that a    *)
(* new session is a change the other pages hear of.  Unless an account was *)
(* opened elsewhere: a page that has taken its storage events works in its *)
(* account's workspace or in none (OwnPlace), what waits under a workspace *)
(* was made by its account (OutboxOK), and what is being delivered has     *)
(* reached its author's account (PayloadOK).                               *)
(***************************************************************************)
Named == {s \in Session : s = NoSession \/ (s.user # Nobody /\ s.login # 0)}
BootRec == [kind : {"none", "reconcile"} \cup Restoring,
            phase : {"none", "user", "workspace", "loading"},
            session : Named, previous : Account \cup {Nobody}, live : BOOLEAN]
SyncRec == [sent : BOOLEAN, scope : (Account \cup {Nobody}) \X (Account \cup {Guest}),
            payload : SUBSET Edit]
PageRec == [mode : Mode, session : Named, pending : BOOLEAN,
            out : [session : Named, space : Account \cup {Guest}],
            boot : BootRec, sync : SyncRec]

BootOK(page) ==
  /\ page.boot = NoBoot \/ (page.boot.kind # "none" /\ page.boot.session.user # Nobody)
  /\ page.mode = "restoring" => page.boot.kind \in Restoring
  /\ page.boot.kind \in Restoring => page.mode \in {"restoring", "locked"}
  /\ page.mode \in {"open", "restoring"} =>
       page.boot = NoBoot \/ page.boot.session.user = page.session.user
  /\ page.mode = "locked" => page.boot.phase \in {"none", "workspace"} /\ ~page.boot.live
  /\ page.mode \in {"closed", "gate", "retry"} => page.boot = NoBoot
  /\ page.mode \in {"leaving", "loggingOut"} => ~page.boot.live /\ page.out.session # NoSession

PageOK(page) ==
  /\ page \in PageRec
  /\ page.session.user = Nobody <=> page.session = NoSession
  /\ page.session # NoSession <=> page.mode \in {"restoring", "retry", "open"}
  /\ BootOK(page)
  /\ page.sync.sent => page.sync.scope[1] = page.sync.scope[2]

GivenOut(page, n) == page.session.login <= n /\ page.boot.session.login <= n

LoginsOK == /\ stored \in Named /\ stored.login <= logins
            /\ \A p \in Page : GivenOut(pages[p], logins)

PagesOK == /\ pages \in [Page -> PageRec]
           /\ \A p \in Page : PageOK(pages[p])
           /\ told \subseteq {p \in Page : pages[p].mode \notin {"closed", "locked"}}

StorageOK ==
  /\ stored \in Session /\ (stored = NoSession <=> stored.user = Nobody)
  /\ space \in Account \cup {Guest} /\ copies \in [Account -> SUBSET Account]
  /\ outbox \in [Account -> SUBSET Edit]
  /\ author \in [Edit -> Account \cup {Nobody}] /\ cloud \in [Edit -> Account \cup {Nobody}]
  /\ ended \subseteq 1..MaxLogins /\ discarded \subseteq Edit /\ misplaced \in BOOLEAN
  /\ logins \in 1..MaxLogins /\ failures \in 0..MaxFailures

OwnPlace(p) ==
  /\ p \notin told /\ Working(p) => space \in {pages[p].session.user, Guest}
  /\ pages[p].mode \in {"leaving", "loggingOut"} =>
       pages[p].out.space \in {pages[p].out.session.user, Guest}
OutboxOK == \A a \in Account : \A e \in outbox[a] : author[e] = a
PayloadOK(p) ==
  pages[p].sync.sent => \A e \in pages[p].sync.payload : author[e] # Nobody /\ cloud[e] = author[e]

Placed == ~misplaced => OutboxOK /\ \A p \in Page : OwnPlace(p) /\ PayloadOK(p)

IInv == StorageOK /\ PagesOK /\ LoginsOK /\ Placed /\ OwnDataOnly /\ EditsAreKept
-----------------------------------------------------------------------------
(* What a step of one page may do.                                         *)

\* The other pages are where they were, and told of what moves the workspace.
Hears(p) == /\ told \ {p} \subseteq told' /\ told' \subseteq told \cup Tell(p)
            /\ space' \in {space, Guest} \/ Tell(p) \subseteq told'

\* What was delivered for its author stays delivered for its author.
StaysDelivered ==
  \A e \in Edit : author[e] # Nobody /\ cloud[e] = author[e] =>
                    author'[e] = author[e] /\ cloud'[e] = author[e]

\* A step of another page leaves a page where it belongs, and its delivery true.
LEMMA OthersKeep ==
  ASSUME IInv, NEW p \in Page, NEW q \in Page \ {p}, pages'[q] = pages[q],
         Hears(p), StaysDelivered, ~misplaced
  PROVE  OwnPlace(q)' /\ PayloadOK(q)'
<1>1. OwnPlace(q) /\ PayloadOK(q) /\ pages[q] \in PageRec
  BY DEF IInv, Placed, PagesOK
<1>2. OwnPlace(q)'
  BY <1>1 DEF OwnPlace, Hears, Tell, Working, Boot, IInv, PagesOK, PageOK, BootOK
<1>3. PayloadOK(q)'
  <2>1. pages[q].sync.payload \subseteq Edit
    BY <1>1 DEF PageRec, SyncRec
  <2> QED BY <1>1, <2>1 DEF PayloadOK, StaysDelivered
<1> QED BY <1>2, <1>3

\* A step of one page preserves the invariant when it preserves what is said of that
\* page and of the browser's storage.
LEMMA PageStepKeeps ==
  ASSUME IInv, NEW p \in Page, NEW new, PageOK(new), pages' = [pages EXCEPT ![p] = new],
         StorageOK', stored' \in Named, Hears(p), new.mode \in {"closed", "locked"} => p \notin told',
         logins <= logins', stored'.login <= logins', GivenOut(new, logins'),
         misplaced => misplaced',
         ~misplaced' => /\ StaysDelivered /\ OutboxOK' /\ OwnPlace(p)' /\ PayloadOK(p)'
                        /\ OwnDataOnly' /\ EditsAreKept'
  PROVE  IInv'
<1>1. /\ pages \in [Page -> PageRec] /\ new \in PageRec
      /\ \A q \in Page : pages'[q] = IF q = p THEN new ELSE pages[q]
  BY DEF IInv, PagesOK, PageOK
<1>2. PagesOK'
  <2>1. pages' \in [Page -> PageRec] BY <1>1
  <2>2. \A q \in Page : PageOK(pages'[q])
    BY <1>1 DEF IInv, PagesOK
  <2>3. told' \subseteq {q \in Page : pages'[q].mode \notin {"closed", "locked"}}
    BY <1>1 DEF IInv, PagesOK, Hears, Tell
  <2>4. \A q \in Page : PageOK(pages[q])'
    BY <2>2 DEF PageOK, BootOK, PageRec, BootRec, SyncRec, Session
  <2> QED BY <2>1, <2>3, <2>4 DEF PagesOK, PageRec, BootRec, SyncRec, Session
<1>3. LoginsOK'
  <2>1. \A q \in Page : pages[q].session.login \in Int /\ pages[q].boot.session.login \in Int
    BY <1>1 DEF PageRec, BootRec, Session, Named
  <2>2. logins \in Int /\ logins' \in Int
    BY DEF IInv, StorageOK
  <2> QED BY <1>1, <2>1, <2>2 DEF IInv, LoginsOK, GivenOut
<1>4. Placed'
  BY <1>1, OthersKeep DEF Placed
<1> QED BY <1>2, <1>3, <1>4 DEF IInv, OwnDataOnly, EditsAreKept

Data == <<copies, outbox, author, cloud, discarded>>

\* The common case: nobody's data or changes move.
LEMMA QuietStepKeeps ==
  ASSUME IInv, NEW p \in Page, NEW new, PageOK(new), pages' = [pages EXCEPT ![p] = new],
         UNCHANGED Data, Hears(p), new.mode \in {"closed", "locked"} => p \notin told',
         stored' \in Named, stored' = NoSession <=> stored'.user = Nobody,
         space' \in Account \cup {Guest}, ended' \subseteq 1..MaxLogins,
         misplaced' \in BOOLEAN, logins' \in 1..MaxLogins, failures' \in 0..MaxFailures,
         logins <= logins', stored'.login <= logins', GivenOut(new, logins'),
         misplaced => misplaced', new.sync \in {pages[p].sync, NoSync},
         ~misplaced' => OwnPlace(p)'
  PROVE  IInv'
<1>1. StorageOK'
  BY DEF StorageOK, IInv, Data, Named
<1>2. ASSUME ~misplaced'
      PROVE  /\ StaysDelivered /\ OutboxOK' /\ OwnPlace(p)' /\ PayloadOK(p)'
             /\ OwnDataOnly' /\ EditsAreKept'
  <2>1. ~misplaced /\ OutboxOK /\ PayloadOK(p) /\ pages'[p] = new
    BY <1>2 DEF IInv, Placed, PagesOK
  <2>2. StaysDelivered /\ OutboxOK' /\ OwnDataOnly' /\ EditsAreKept'
    BY <2>1 DEF StaysDelivered, OutboxOK, OwnDataOnly, EditsAreKept, IInv, Data
  <2>3. PayloadOK(p)'
    BY <2>1 DEF PayloadOK, NoSync, Data
  <2> QED BY <1>2, <2>2, <2>3
<1> QED BY <1>1, <1>2, PageStepKeeps

\* What a page and the storage are, spelled out for the step lemmas.
LEMMA PageFacts ==
  ASSUME IInv, NEW p \in Page
  PROVE  /\ PageOK(pages[p]) /\ pages[p] \in PageRec /\ BootOK(pages[p])
         /\ pages[p].boot \in BootRec /\ pages[p].sync \in SyncRec
         /\ pages[p].session \in Session /\ pages[p].boot.session \in Session
         /\ pages[p].session \in Named /\ pages[p].boot.session \in Named
         /\ GivenOut(pages[p], logins) /\ pages[p].mode \in Mode
BY DEF IInv, PagesOK, PageOK, PageRec, BootRec, LoginsOK, Named

LEMMA StorageFacts ==
  ASSUME IInv
  PROVE  /\ stored \in Session /\ stored \in Named
         /\ (stored = NoSession <=> stored.user = Nobody)
         /\ space \in Account \cup {Guest} /\ ended \subseteq 1..MaxLogins
         /\ misplaced \in BOOLEAN /\ logins \in 1..MaxLogins /\ failures \in 0..MaxFailures
         /\ logins \in Nat /\ logins <= logins /\ stored.login <= logins
BY DEF IInv, StorageOK, LoginsOK

LEMMA FailsCounts ==
  ASSUME IInv, Fails
  PROVE  failures' \in 0..MaxFailures
BY SessionAssumption DEF Fails, IInv, StorageOK

LEMMA ConstantRecords ==
  /\ NoSession \in Named /\ NoBoot \in BootRec /\ NoSync \in SyncRec /\ Fresh \in PageRec
  /\ PageOK(Fresh)
<1>1. NoSession \in Named
  BY SessionAssumption DEF NoSession, Session, Named
<1>2. NoBoot \in BootRec
  BY <1>1 DEF NoBoot, BootRec
<1>3. NoSync \in SyncRec
  BY DEF NoSync, SyncRec
<1>4. Fresh \in PageRec
  BY <1>1, <1>2, <1>3 DEF Fresh, PageRec, Mode
<1>5. PageOK(Fresh)
  <2>1. /\ Fresh.mode = "closed" /\ Fresh.session = NoSession /\ Fresh.boot = NoBoot
        /\ Fresh.sync = NoSync /\ ~NoSync.sent /\ NoBoot.kind = "none" /\ NoSession.user = Nobody
    BY DEF Fresh, NoBoot, NoSync, NoSession
  <2> QED BY <1>4, <2>1 DEF PageOK, BootOK, Restoring
<1> QED BY <1>1, <1>2, <1>3, <1>4, <1>5
-----------------------------------------------------------------------------
(* One lemma per action: it preserves the invariant.                       *)

LEMMA InitHolds == Init => IInv
<1> SUFFICES ASSUME Init PROVE IInv
  OBVIOUS
<1>1. StorageOK
  <2>1. stored \in Session /\ (stored = NoSession <=> stored.user = Nobody)
    BY SessionAssumption DEF Init, Session, NoSession
  <2>2. copies \in [Account -> SUBSET Account] /\ outbox \in [Account -> SUBSET Edit]
    BY DEF Init
  <2>3. author \in [Edit -> Account \cup {Nobody}] /\ cloud \in [Edit -> Account \cup {Nobody}]
    BY DEF Init
  <2>4. logins \in 1..MaxLogins /\ failures \in 0..MaxFailures
    BY SessionAssumption DEF Init
  <2> QED BY <2>1, <2>2, <2>3, <2>4, SessionAssumption DEF Init, StorageOK
<1>2. PagesOK /\ LoginsOK
  <2>1. pages = [p \in Page |-> Fresh] /\ told = {} /\ stored.login = 1 /\ logins = 1
    BY DEF Init
  <2>2. GivenOut(Fresh, 1)
    BY DEF GivenOut, Fresh, NoBoot, NoSession
  <2>3. stored \in Named
    BY SessionAssumption DEF Init, Session, Named, NoSession
  <2> QED BY <2>1, <2>2, <2>3, ConstantRecords DEF PagesOK, LoginsOK
<1>3. Placed
  <2>1. OutboxOK BY DEF Init, OutboxOK
  <2>2. \A p \in Page : OwnPlace(p) /\ PayloadOK(p)
    BY DEF Init, OwnPlace, PayloadOK, Working, Boot, Fresh, NoBoot, NoSync, Restoring
  <2> QED BY <2>1, <2>2 DEF Placed
<1>4. OwnDataOnly /\ EditsAreKept
  BY DEF Init, OwnDataOnly, EditsAreKept
<1> QED BY <1>1, <1>2, <1>3, <1>4 DEF IInv

LEMMA CloseKeeps ==
  ASSUME IInv, NEW p \in Page, Close(p)
  PROVE  IInv'
<1>1. GivenOut(Fresh, logins)
  BY SessionAssumption DEF GivenOut, Fresh, NoSession, NoBoot, IInv, StorageOK
<1>2. pages'[p] = Fresh /\ OwnPlace(p)'
  BY DEF Close, IInv, PagesOK, OwnPlace, Working, Boot, Fresh, NoBoot, Restoring
<1>3. Fresh.sync = NoSync /\ p \notin told' /\ Hears(p)
  BY DEF Fresh, Close, Takes, Hears, storage
<1>4. failures' \in 0..MaxFailures
  BY FailsCounts DEF Close
<1>5. pages' = [pages EXCEPT ![p] = Fresh] /\ UNCHANGED Data
      /\ UNCHANGED <<stored, space, ended, misplaced, logins>>
  BY DEF Close, Data, storage, server
<1> QED
  BY <1>1, <1>2, <1>3, <1>4, <1>5, ConstantRecords, QuietStepKeeps, StorageFacts

LEMMA NoBootIsNotLive == [NoBoot EXCEPT !.live = FALSE] = NoBoot
<1>1. NoBoot \in BootRec /\ NoBoot.live = FALSE
  BY ConstantRecords DEF NoBoot
<1>2. \A b \in BootRec : b.live = FALSE => [b EXCEPT !.live = FALSE] = b
  BY DEF BootRec
<1> QED BY <1>1, <1>2

\* A page that reloads.
LEMMA LockedOK ==
  ASSUME NEW page, PageOK(page), NEW n \in Nat, GivenOut(page, n)
  PROVE  /\ PageOK(Locked(page)) /\ GivenOut(Locked(page), n)
         /\ Locked(page).mode = "locked" /\ Locked(page).sync = page.sync
         /\ Locked(page).boot.phase # "loading"
<1> DEFINE boot == IF page.boot.phase = "workspace" THEN [page.boot EXCEPT !.live = FALSE]
                   ELSE NoBoot
<1>1. /\ boot \in BootRec /\ boot.live = FALSE /\ boot.session.login <= n
      /\ boot.phase \in {"none", "workspace"}
      /\ boot = NoBoot \/ (boot.kind # "none" /\ boot.session.user # Nobody)
  <2>1. CASE page.boot.phase = "workspace"
    <3>1. page.boot \in BootRec
      BY DEF PageOK, PageRec
    <3>2. /\ boot \in BootRec /\ boot.live = FALSE /\ boot.session = page.boot.session
          /\ boot.phase = "workspace" /\ boot.kind = page.boot.kind
      BY <2>1, <3>1 DEF BootRec
    <3>3. page.boot # NoBoot
      BY <2>1 DEF NoBoot
    <3> QED BY <3>2, <3>3 DEF PageOK, BootOK, GivenOut
  <2>2. CASE page.boot.phase # "workspace"
    <3>1. boot = NoBoot
      BY <2>2
    <3>2. NoBoot.live = FALSE /\ NoBoot.phase = "none" /\ NoBoot.session.login = 0
      BY DEF NoBoot, NoSession
    <3> HIDE DEF boot
    <3> QED BY <3>1, <3>2, ConstantRecords
  <2> QED BY <2>1, <2>2
<1> HIDE DEF boot
<1>2. /\ Fresh \in PageRec /\ Fresh.session = NoSession
      /\ Locked(page) = [Fresh EXCEPT !.mode = "locked", !.sync = page.sync, !.boot = boot]
  BY ConstantRecords DEF Locked, Fresh, boot
<1>3. page.sync \in SyncRec
  BY DEF PageOK, PageRec
<1>4. /\ Locked(page) \in PageRec /\ Locked(page).mode = "locked"
      /\ Locked(page).session = NoSession /\ Locked(page).boot = boot
      /\ Locked(page).sync = page.sync
  BY <1>1, <1>2, <1>3 DEF PageRec, Mode
<1>5. NoSession.user = Nobody /\ NoSession.login = 0
  BY DEF NoSession
<1> QED
  BY <1>1, <1>4, <1>5 DEF PageOK, BootOK, GivenOut

\* A session of somebody, with a number that was given out.
Known(session) == session \in Named /\ session.user # Nobody /\ session.login <= logins

\* A page that opens an account.
LEMMA OpenedOK ==
  ASSUME IInv, NEW page, PageOK(page), NEW session, Known(session), NEW boot \in BootRec,
         \/ boot = NoBoot
         \/ boot.kind = "reconcile" /\ boot.session = session
  PROVE  LET new == Opened(page, session, boot) IN
         /\ PageOK(new) /\ GivenOut(new, logins) /\ new.mode = "open"
         /\ new.session = session /\ new.sync = page.sync
<1> DEFINE new == Opened(page, session, boot)
<1>1. /\ new \in PageRec /\ new.mode = "open" /\ new.session = session
      /\ new.boot = boot /\ new.sync = page.sync
  BY DEF Opened, PageOK, PageRec, Mode, Known
<1>2. GivenOut(new, logins)
  BY <1>1, StorageFacts DEF GivenOut, Known, NoBoot, NoSession
<1>3. session # NoSession /\ boot.kind \notin Restoring
  BY DEF Known, NoSession, NoBoot, Restoring
<1> HIDE DEF new
<1>4. PageOK(new)
  BY <1>1, <1>3, PageFacts DEF PageOK, BootOK, Known
<1> QED BY <1>1, <1>2, <1>4 DEF new

\* Storing a session tells the other pages, unless nothing changes.
LEMMA TellingHears ==
  ASSUME IInv, NEW p \in Page, told' = told \cup Tell(p)
  PROVE  Hears(p) /\ (p \notin told => p \notin told')
BY DEF Hears, Tell

LEMMA SavingHears ==
  ASSUME IInv, NEW p \in Page, NEW session, Saves(p, session), space' \in {space, Guest}
  PROVE  Hears(p) /\ (p \notin told => p \notin told')
BY DEF Hears, Tell, Saves

LEMMA OpenLocallyKeeps ==
  ASSUME IInv, NEW p \in Page, p \notin told, NEW page, PageOK(page),
         page.sync \in {pages[p].sync, NoSync},
         NEW session, Known(session), NEW boot \in BootRec,
         \/ boot = NoBoot
         \/ boot.kind = "reconcile" /\ boot.session = session,
         OpenLocally(p, page, session, boot), failures' \in 0..MaxFailures,
         UNCHANGED <<space, Data, ended, logins>>
  PROVE  IInv'
<1> DEFINE new == Opened(page, session, boot)
<1>1. /\ PageOK(new) /\ GivenOut(new, logins) /\ new.mode = "open"
      /\ new.session = session /\ new.sync = page.sync
  BY OpenedOK
<1> HIDE DEF new
<1>2. /\ pages' = [pages EXCEPT ![p] = new] /\ stored' = session /\ Hears(p) /\ p \notin told'
      /\ misplaced' = (misplaced \/ space # session.user)
  BY TellingHears DEF OpenLocally, new
<1>3. pages'[p] = new /\ (~misplaced' => OwnPlace(p)')
  BY <1>1, <1>2 DEF OwnPlace, IInv, PagesOK
<1>4. stored' \in Named /\ (stored' = NoSession <=> stored'.user = Nobody)
  BY <1>2 DEF Known, NoSession
<1> QED
  BY <1>1, <1>2, <1>3, <1>4, QuietStepKeeps, StorageFacts DEF Known

LEMMA AskingOK ==
  ASSUME IInv, NEW kind \in {"reconcile"} \cup Restoring, NEW session, Known(session),
         NEW previous \in Account \cup {Nobody}
  PROVE  LET boot == Asking(kind, session, previous) IN
         /\ boot \in BootRec /\ boot.kind = kind /\ boot.session = session
         /\ boot.phase = "user"
BY DEF Asking, BootRec, Known

LEMMA StartsKeeps ==
  ASSUME IInv, NEW p \in Page, p \notin told, Starts(p)
  PROVE  IInv'
<1> DEFINE page == IF pages[p].mode = "retry" THEN pages[p] ELSE Fresh
<1>1. PageOK(page) /\ page.sync \in {pages[p].sync, NoSync}
  <2>1. Fresh.sync = NoSync
    BY DEF Fresh
  <2> QED BY <2>1, ConstantRecords, PageFacts
<1> HIDE DEF page
<1>2. UNCHANGED <<space, Data, ended, logins>>
  BY DEF Starts, server, Data
<1>3. CASE stored = NoSession
  <2> DEFINE new == [Fresh EXCEPT !.mode = "gate", !.sync = page.sync]
  <2>1. /\ pages' = [pages EXCEPT ![p] = new]
        /\ UNCHANGED <<stored, told, misplaced, failures>>
    BY <1>3 DEF Starts, page
  <2>2. page.sync \in SyncRec /\ (page.sync.sent => page.sync.scope[1] = page.sync.scope[2])
    BY <1>1 DEF PageOK, PageRec
  <2>3. /\ new \in PageRec /\ new.mode = "gate" /\ new.session = NoSession
        /\ new.boot = NoBoot /\ new.sync = page.sync
    <3>1. Fresh \in PageRec /\ Fresh.session = NoSession /\ Fresh.boot = NoBoot
      BY ConstantRecords DEF Fresh
    <3> QED BY <2>2, <3>1 DEF PageRec, Mode
  <2> HIDE DEF new
  <2>4. NoSession.user = Nobody /\ NoSession.login = 0 /\ NoBoot.session = NoSession
        /\ NoBoot.kind = "none" /\ NoBoot.phase = "none"
    BY DEF NoSession, NoBoot
  <2>5. PageOK(new) /\ GivenOut(new, logins)
    BY <2>2, <2>3, <2>4, StorageFacts DEF PageOK, BootOK, GivenOut, Restoring
  <2>6. pages'[p] = new /\ OwnPlace(p)' /\ Hears(p)
    BY <1>2, <2>1, <2>3, <2>4
       DEF OwnPlace, Working, Boot, IInv, PagesOK, Hears, Tell
  <2> QED
    BY <1>1, <1>2, <2>1, <2>3, <2>5, <2>6, QuietStepKeeps, StorageFacts
<1>4. CASE stored # NoSession /\ ~page.pending /\ space = stored.user /\ UNCHANGED failures
           /\ OpenLocally(p, page, stored, Asking("reconcile", stored, Nobody))
  <2>1. Known(stored)
    BY <1>4, StorageFacts DEF Known
  <2> QED BY <1>1, <1>2, <1>4, <2>1, AskingOK, OpenLocallyKeeps, StorageFacts
<1>5. CASE stored # NoSession /\ ~page.pending /\ Fails /\ OpenLocally(p, page, stored, NoBoot)
  <2>1. Known(stored)
    BY <1>5, StorageFacts DEF Known
  <2> QED BY <1>1, <1>2, <1>5, <2>1, ConstantRecords, OpenLocallyKeeps, FailsCounts
<1>6. CASE /\ stored # NoSession
           /\ pages' = [pages EXCEPT ![p] =
                [page EXCEPT !.mode = "restoring", !.session = stored,
                             !.boot = Asking("restore", stored, Nobody)]]
           /\ UNCHANGED <<stored, told, misplaced, failures>>
  <2> DEFINE boot == Asking("restore", stored, Nobody)
             new == [page EXCEPT !.mode = "restoring", !.session = stored, !.boot = boot]
  <2>1. Known(stored)
    BY <1>6, StorageFacts DEF Known
  <2>2. boot \in BootRec /\ boot.kind = "restore" /\ boot.session = stored /\ boot.phase = "user"
    BY <2>1, AskingOK DEF Restoring
  <2> HIDE DEF boot
  <2>3. /\ new \in PageRec /\ new.mode = "restoring" /\ new.session = stored
        /\ new.boot = boot /\ new.sync = page.sync
    BY <1>1, <2>1, <2>2 DEF PageOK, PageRec, Mode, Known
  <2> HIDE DEF new
  <2>4. PageOK(new) /\ GivenOut(new, logins)
    BY <1>1, <1>6, <2>1, <2>2, <2>3 DEF PageOK, BootOK, GivenOut, Restoring, Known
  <2>5. pages' = [pages EXCEPT ![p] = new]
    BY <1>6 DEF new, boot
  <2>6. pages'[p] = new /\ OwnPlace(p)' /\ Hears(p)
    BY <1>2, <1>6, <2>2, <2>3, <2>5
       DEF OwnPlace, Working, Boot, IInv, PagesOK, Hears, Tell
  <2> QED
    BY <1>1, <1>2, <1>6, <2>3, <2>4, <2>5, <2>6, QuietStepKeeps, StorageFacts
<1> QED
  BY <1>3, <1>4, <1>5, <1>6 DEF Starts, page

\* A boot that has not ended belongs to somebody, in the page's session where it has one.
LEMMA BootFacts ==
  ASSUME IInv, NEW p \in Page, pages[p].boot # NoBoot
  PROVE  /\ Known(pages[p].boot.session) /\ pages[p].boot.session # NoSession
         /\ pages[p].mode \in {"restoring", "open"} =>
              pages[p].boot.session.user = pages[p].session.user
         /\ pages[p].mode \in {"restoring", "open", "leaving", "loggingOut", "locked"}
<1>1. pages[p].boot.session.user # Nobody
  BY PageFacts DEF BootOK
<1> QED
  BY <1>1, PageFacts DEF BootOK, Known, GivenOut, NoSession, Mode

LEMMA WorkspaceEnsuredKeeps ==
  ASSUME IInv, NEW p \in Page, p \notin told, WorkspaceEnsured(p)
  PROVE  IInv'
<1> DEFINE page == pages[p]
           boot == pages[p].boot
           new == IF page.mode = "restoring"
                    THEN [page EXCEPT !.session = boot.session, !.boot.phase = "loading"]
                    ELSE [page EXCEPT !.session = IF boot.live THEN boot.session ELSE @,
                                      !.boot = NoBoot]
<1>1. /\ pages' = [pages EXCEPT ![p] = new] /\ space' = boot.session.user
      /\ stored' = boot.session /\ told' = told \cup Tell(p)
      /\ UNCHANGED <<Data, ended, misplaced, logins>>
  BY DEF WorkspaceEnsured, Data, server
<1>2. boot # NoBoot /\ boot.phase = "workspace"
  BY DEF WorkspaceEnsured, Boot, NoBoot
<1>3. /\ Known(boot.session) /\ boot.session # NoSession
      /\ page.mode \in {"restoring", "open"} => boot.session.user = page.session.user
      /\ page.mode \in {"restoring", "open", "leaving", "loggingOut", "locked"}
  BY <1>2, BootFacts
<1>4. failures' \in 0..MaxFailures
  BY FailsCounts, StorageFacts DEF WorkspaceEnsured
<1>5. /\ page \in PageRec /\ PageOK(page) /\ BootOK(page) /\ GivenOut(page, logins)
      /\ boot \in BootRec
  BY PageFacts
<1>6. /\ new \in PageRec /\ new.mode = page.mode /\ new.sync = page.sync /\ new.out = page.out
      /\ new.session = IF page.mode = "restoring" \/ boot.live THEN boot.session ELSE page.session
      /\ IF page.mode = "restoring"
           THEN /\ new.boot.phase = "loading" /\ new.boot.session = boot.session
                /\ new.boot.kind = boot.kind /\ new.boot # NoBoot
           ELSE new.boot = NoBoot
  <2>1. CASE page.mode = "restoring"
    <3>1. /\ new \in PageRec /\ new.mode = page.mode /\ new.sync = page.sync
          /\ new.out = page.out /\ new.session = boot.session
          /\ new.boot = [boot EXCEPT !.phase = "loading"]
      BY <1>3, <1>5, <2>1 DEF PageRec, BootRec, Known
    <3> HIDE DEF new
    <3>2. /\ new.boot.phase = "loading" /\ new.boot.session = boot.session
          /\ new.boot.kind = boot.kind
      BY <1>5, <3>1 DEF BootRec
    <3>3. new.boot # NoBoot
      BY <3>2 DEF NoBoot
    <3> QED BY <2>1, <3>1, <3>2, <3>3
  <2>2. CASE page.mode # "restoring"
    BY <1>3, <1>5, <2>2, ConstantRecords DEF PageRec, Known
  <2> QED BY <2>1, <2>2
<1> HIDE DEF new
<1>7. NoBoot.session = NoSession /\ NoBoot.phase = "none" /\ NoBoot.live = FALSE
      /\ NoSession.login = 0 /\ NoBoot.kind = "none"
  BY DEF NoBoot, NoSession
<1>8. boot.live => page.mode \in {"restoring", "open"}
  BY <1>3, <1>5 DEF BootOK
<1>9. PageOK(new)
  <2>1. new.session.user = Nobody <=> new.session = NoSession
    BY <1>3, <1>5, <1>6 DEF PageOK, Known
  <2>2. new.session # NoSession <=> new.mode \in {"restoring", "retry", "open"}
    BY <1>3, <1>5, <1>6, <1>8 DEF PageOK, Known
  <2>3. BootOK(new)
    BY <1>3, <1>5, <1>6, <1>7, <1>8 DEF BootOK, Known, Restoring
  <2> QED BY <1>5, <1>6, <2>1, <2>2, <2>3 DEF PageOK
<1>10. GivenOut(new, logins)
  BY <1>3, <1>5, <1>6, <1>7, StorageFacts DEF GivenOut, Known
<1>11. Hears(p) /\ p \notin told'
  BY <1>1, TellingHears
<1>12. ~misplaced' => OwnPlace(p)'
  <2>1. pages'[p] = new /\ new.mode \notin {"leaving", "loggingOut"} =>
          (Working(p)' => new.session.user = boot.session.user)
    BY <1>1, <1>3, <1>6, <1>7 DEF Working, Boot, IInv, PagesOK, Restoring
  <2>2. pages'[p] = new
    BY <1>1 DEF IInv, PagesOK
  <2>3. Working(p)' => new.mode \notin {"leaving", "loggingOut"}
    BY <1>6, <1>7, <2>2 DEF Working, Boot, Restoring
  <2>4. ~misplaced => OwnPlace(p)
    BY DEF IInv, Placed
  <2> QED BY <1>1, <1>6, <2>1, <2>2, <2>3, <2>4 DEF OwnPlace
<1>13. /\ stored' \in Named /\ stored'.user # Nobody /\ stored' # NoSession
       /\ space' \in Account /\ stored'.login <= logins
  BY <1>1, <1>3 DEF Known, Session, Named
<1> QED
  BY <1>1, <1>3, <1>4, <1>6, <1>9, <1>10, <1>11, <1>12, <1>13, QuietStepKeeps, StorageFacts

\* What a request that failed leaves, whatever else the step does not touch.
LEMMA TransientKeeps ==
  ASSUME IInv, NEW p \in Page, p \notin told, pages[p].boot # NoBoot, Transient(p),
         failures' \in 0..MaxFailures, UNCHANGED <<space, Data, ended, logins>>
  PROVE  IInv'
<1> DEFINE page == pages[p]
<1>1. /\ page \in PageRec /\ PageOK(page) /\ BootOK(page) /\ GivenOut(page, logins)
  BY PageFacts
<1>2. /\ page.boot # NoBoot
      /\ page.mode \in {"restoring", "open", "leaving", "loggingOut", "locked"}
  BY BootFacts
<1>3. page.mode = "restoring" => Known(page.session) /\ page.session # NoSession
  BY <1>1 DEF PageOK, PageRec, Known, GivenOut
<1>4. NoBoot.session = NoSession /\ NoBoot.phase = "none" /\ NoBoot.live = FALSE
      /\ NoSession.login = 0 /\ NoBoot.kind = "none"
  BY DEF NoBoot, NoSession
<1>5. CASE page.mode = "restoring" /\ Saves(p, page.session) /\ UNCHANGED misplaced
           /\ pages' = [pages EXCEPT ![p].mode = "retry", ![p].boot = NoBoot]
  <2> DEFINE new == [page EXCEPT !.mode = "retry", !.boot = NoBoot]
  <2>1. /\ new \in PageRec /\ new.mode = "retry" /\ new.session = page.session
        /\ new.boot = NoBoot /\ new.sync = page.sync
    BY <1>1, ConstantRecords DEF PageRec, Mode
  <2>2. pages' = [pages EXCEPT ![p] = new]
    BY <1>5 DEF IInv, PagesOK
  <2> HIDE DEF new
  <2>3. PageOK(new) /\ GivenOut(new, logins)
    BY <1>1, <1>3, <1>4, <1>5, <2>1, StorageFacts DEF PageOK, BootOK, GivenOut, Restoring
  <2>4. Hears(p) /\ p \notin told' /\ stored' = page.session
    BY <1>5, SavingHears DEF Saves
  <2>5. pages'[p] = new /\ OwnPlace(p)'
    BY <1>4, <2>1, <2>2 DEF OwnPlace, Working, Boot, Restoring, IInv, PagesOK
  <2> QED
    BY <1>3, <1>5, <2>1, <2>2, <2>3, <2>4, <2>5, QuietStepKeeps, StorageFacts DEF Known
<1>6. CASE page.mode = "restoring" /\ OpenLocally(p, page, page.session, NoBoot)
  BY <1>1, <1>3, <1>6, ConstantRecords, OpenLocallyKeeps
<1>7. CASE page.mode # "restoring" /\ pages' = [pages EXCEPT ![p].boot = NoBoot]
           /\ UNCHANGED <<stored, told, misplaced>>
  <2> DEFINE new == [page EXCEPT !.boot = NoBoot]
  <2>1. /\ new \in PageRec /\ new.mode = page.mode /\ new.session = page.session
        /\ new.boot = NoBoot /\ new.sync = page.sync /\ new.out = page.out
    BY <1>1, ConstantRecords DEF PageRec
  <2>2. pages' = [pages EXCEPT ![p] = new]
    BY <1>7 DEF IInv, PagesOK
  <2> HIDE DEF new
  <2>3. PageOK(new) /\ GivenOut(new, logins)
    BY <1>1, <1>4, <1>7, <2>1, StorageFacts DEF PageOK, BootOK, GivenOut, Restoring
  <2>4. Hears(p) /\ p \notin told'
    BY <1>7 DEF Hears, Tell
  <2>5. pages'[p] = new /\ (~misplaced' => OwnPlace(p)')
    BY <1>2, <1>4, <1>7, <2>1, <2>2
       DEF OwnPlace, Working, Boot, Restoring, IInv, PagesOK, Placed
  <2> QED
    BY <1>7, <2>1, <2>2, <2>3, <2>4, <2>5, QuietStepKeeps, StorageFacts
<1> QED BY <1>5, <1>6, <1>7 DEF Transient

LEMMA RequestFailsKeeps ==
  ASSUME IInv, NEW p \in Page, p \notin told, RequestFails(p)
  PROVE  IInv'
<1>1. pages[p].boot # NoBoot /\ Transient(p) /\ UNCHANGED <<space, Data, ended, logins>>
  BY DEF RequestFails, NoBoot, Data, server
<1>2. failures' \in 0..MaxFailures
  BY FailsCounts DEF RequestFails
<1> QED BY <1>1, <1>2, TransientKeeps

\* A page that reloads keeps what is said of it.
LEMMA LockingKeeps ==
  ASSUME IInv, NEW p \in Page, p \notin told', NEW page, PageOK(page), GivenOut(page, logins),
         page.sync = pages[p].sync, pages' = [pages EXCEPT ![p] = Locked(page)],
         UNCHANGED <<Data, ended, logins>>, failures' \in 0..MaxFailures,
         Hears(p), space' \in Account \cup {Guest}, misplaced' = misplaced,
         stored' \in Named, stored' = NoSession <=> stored'.user = Nobody,
         stored'.login <= logins
  PROVE  IInv'
<1> DEFINE new == Locked(page)
<1>1. /\ PageOK(new) /\ GivenOut(new, logins) /\ new.mode = "locked"
      /\ new.sync = page.sync /\ new.boot.phase # "loading"
  BY LockedOK, StorageFacts
<1> HIDE DEF new
<1>2. pages' = [pages EXCEPT ![p] = new]
  BY DEF new
<1>3. pages'[p] = new /\ OwnPlace(p)'
  BY <1>1, <1>2 DEF OwnPlace, Working, Boot, IInv, PagesOK
<1> QED BY <1>1, <1>2, <1>3, QuietStepKeeps, StorageFacts

\* Data put under one's own workspace, or kept by a guest, stay apart.
LEMMA OwnCopyApart ==
  ASSUME IInv, NEW user \in Account, copies' = Put(copies, space, Here(copies) \cup {user})
  PROVE  /\ copies' \in [Account -> SUBSET Account]
         /\ ~misplaced /\ space \in {user, Guest} => \A a \in Account : copies'[a] \subseteq {a}
<1>1. copies \in [Account -> SUBSET Account] /\ space \in Account \cup {Guest}
  BY DEF IInv, StorageOK
<1>2. CASE space = Guest
  BY <1>1, <1>2 DEF Put, IInv, OwnDataOnly
<1>3. CASE space \in Account /\ space # Guest
  BY <1>1, <1>3 DEF Put, Here, IInv, OwnDataOnly
<1> QED BY <1>1, <1>2, <1>3

LEMMA ConnectKeeps ==
  ASSUME IInv, NEW p \in Page, p \notin told, Connect(p)
  PROVE  IInv'
<1> DEFINE page == pages[p]
           user == page.boot.session.user
<1>1. /\ page.boot # NoBoot /\ page.mode = "restoring" /\ Working(p)
      /\ copies' = Put(copies, space, Here(copies) \cup {user}) /\ told' = told \cup Tell(p)
      /\ UNCHANGED <<stored, space, outbox, author, cloud, ended, discarded, misplaced,
                      logins, failures>>
  BY DEF Connect, Boot, Working, NoBoot, server, bounds
<1>2. Known(page.boot.session) /\ user = page.session.user
  BY <1>1, BootFacts
<1>3. user \in Account
  BY <1>2 DEF Known, Session, Named
<1>4. /\ page \in PageRec /\ PageOK(page) /\ GivenOut(page, logins)
  BY PageFacts
<1>5. Known(page.session)
  BY <1>2, <1>3, <1>4, SessionAssumption DEF PageRec, Known, GivenOut
<1>6. PICK new : /\ pages' = [pages EXCEPT ![p] = new]
                 /\ PageOK(new) /\ GivenOut(new, logins) /\ new.sync = page.sync
                 /\ \/ new.mode = "locked" /\ new.boot.phase # "loading"
                    \/ new.mode = "open" /\ new.session = page.session
  <2>1. CASE pages' = [pages EXCEPT ![p] = Locked(page)]
    BY <1>4, <2>1, LockedOK, StorageFacts
  <2>2. CASE pages' = [pages EXCEPT ![p] = Opened(page, page.session, NoBoot)]
    <3> DEFINE opened == Opened(page, page.session, NoBoot)
    <3>1. PageOK(opened) /\ GivenOut(opened, logins) /\ opened.mode = "open"
          /\ opened.session = page.session /\ opened.sync = page.sync
      BY <1>4, <1>5, OpenedOK, ConstantRecords
    <3> HIDE DEF opened
    <3>2. pages' = [pages EXCEPT ![p] = opened]
      BY <2>2 DEF opened
    <3> QED BY <3>1, <3>2
  <2> QED BY <2>1, <2>2 DEF Connect
<1>7. pages'[p] = new /\ p \notin told' /\ Hears(p)
  BY <1>1, <1>6, TellingHears DEF IInv, PagesOK
<1>8. ~misplaced => space \in {user, Guest}
  BY <1>1, <1>2 DEF IInv, Placed, OwnPlace
<1>9. copies' \in [Account -> SUBSET Account]
  BY <1>1, <1>3, OwnCopyApart
<1>10. StorageOK'
  BY <1>1, <1>9 DEF IInv, StorageOK
<1>11. ASSUME ~misplaced'
       PROVE  /\ StaysDelivered /\ OutboxOK' /\ OwnPlace(p)' /\ PayloadOK(p)'
              /\ OwnDataOnly' /\ EditsAreKept'
  <2>1. ~misplaced /\ OutboxOK /\ PayloadOK(p)
    BY <1>1, <1>11 DEF IInv, Placed
  <2>2. StaysDelivered /\ OutboxOK' /\ EditsAreKept'
    BY <1>1, <2>1 DEF StaysDelivered, OutboxOK, EditsAreKept, IInv
  <2>3. OwnDataOnly'
    BY <1>1, <1>3, <1>8, <2>1, OwnCopyApart DEF OwnDataOnly, IInv
  <2>4. PayloadOK(p)'
    BY <1>1, <1>6, <1>7, <2>1 DEF PayloadOK
  <2>5. OwnPlace(p)'
    BY <1>1, <1>2, <1>6, <1>7, <1>8, <2>1 DEF OwnPlace, Working, Boot
  <2> QED BY <2>2, <2>3, <2>4, <2>5
<1> QED
  BY <1>1, <1>6, <1>7, <1>10, <1>11, PageStepKeeps, StorageFacts

LEMMA RejectedKeeps ==
  ASSUME IInv, NEW p \in Page, p \notin told, Rejected(p)
  PROVE  IInv'
<1> DEFINE page == pages[p]
<1>1. page.boot # NoBoot /\ page.boot.phase = "user"
      /\ UNCHANGED <<space, author, cloud, ended, discarded, logins, failures>>
  BY DEF Rejected, Boot, NoBoot, server, bounds
<1>2. /\ page \in PageRec /\ PageOK(page) /\ BootOK(page) /\ GivenOut(page, logins)
      /\ page.sync \in SyncRec
  BY PageFacts
<1>3. /\ NoSession \in Named /\ NoSession.user = Nobody /\ NoSession.login = 0
      /\ NoBoot.session = NoSession /\ NoBoot.phase = "none" /\ NoBoot.live = FALSE
      /\ NoBoot.kind = "none" /\ NoBoot \in BootRec
  BY ConstantRecords DEF NoBoot, NoSession
<1>4. CASE Forget(p) /\ UNCHANGED misplaced
           /\ pages' = [pages EXCEPT ![p] = [Fresh EXCEPT !.mode = "gate", !.sync = page.sync]]
  <2> DEFINE new == [Fresh EXCEPT !.mode = "gate", !.sync = page.sync]
  <2>1. /\ new \in PageRec /\ new.mode = "gate" /\ new.session = NoSession
        /\ new.boot = NoBoot /\ new.sync = page.sync
    <3>1. Fresh \in PageRec /\ Fresh.session = NoSession /\ Fresh.boot = NoBoot
      BY ConstantRecords DEF Fresh
    <3> QED BY <1>2, <3>1 DEF PageRec, Mode
  <2> HIDE DEF new
  <2>2. pages' = [pages EXCEPT ![p] = new]
    BY <1>4 DEF new
  <2>3. PageOK(new) /\ GivenOut(new, logins)
    BY <1>2, <1>3, <2>1, StorageFacts DEF PageOK, BootOK, GivenOut, Restoring
  <2>4. Hears(p) /\ p \notin told' /\ stored' = NoSession /\ UNCHANGED <<copies, outbox>>
    BY <1>1, <1>4, SavingHears DEF Forget, Saves
  <2>5. pages'[p] = new /\ OwnPlace(p)'
    BY <1>3, <2>1, <2>2 DEF OwnPlace, Working, Boot, Restoring, IInv, PagesOK
  <2>6. UNCHANGED <<Data, space, ended, misplaced, logins, failures>>
    BY <1>1, <1>4, <2>4 DEF Data
  <2>7. stored' \in Named /\ (stored' = NoSession <=> stored'.user = Nobody)
        /\ stored'.login <= logins
    BY <1>3, <2>4, StorageFacts
  <2> QED
    BY <2>1, <2>2, <2>3, <2>4, <2>5, <2>6, <2>7, QuietStepKeeps, StorageFacts
<1>5. CASE Forget(p) /\ UNCHANGED misplaced
           /\ pages' = [pages EXCEPT ![p] = Locked([page EXCEPT !.boot = NoBoot])]
           /\ page.boot.kind = "reconcile"
  <2> DEFINE new == [page EXCEPT !.boot = NoBoot]
  <2>1. /\ new \in PageRec /\ new.mode = page.mode /\ new.session = page.session
        /\ new.boot = NoBoot /\ new.sync = page.sync /\ new.out = page.out
    BY <1>2, <1>3 DEF PageRec
  <2> HIDE DEF new
  <2>2. PageOK(new) /\ GivenOut(new, logins)
    BY <1>2, <1>3, <1>5, <2>1, StorageFacts DEF PageOK, BootOK, GivenOut, Restoring
  <2>3. Hears(p) /\ p \notin told' /\ stored' = NoSession /\ UNCHANGED <<copies, outbox>>
    BY <1>1, <1>5, SavingHears DEF Forget, Saves
  <2>4. pages' = [pages EXCEPT ![p] = Locked(new)]
    BY <1>5 DEF new
  <2>6. UNCHANGED <<Data, space, ended, misplaced, logins, failures>>
    BY <1>1, <1>5, <2>3 DEF Data
  <2>7. stored' \in Named /\ (stored' = NoSession <=> stored'.user = Nobody)
        /\ stored'.login <= logins
    BY <1>3, <2>3, StorageFacts
  <2> QED
    BY <2>1, <2>2, <2>3, <2>4, <2>6, <2>7, LockingKeeps, StorageFacts
<1>6. CASE Transient(p) /\ UNCHANGED <<copies, outbox>>
  BY <1>1, <1>6, TransientKeeps, StorageFacts DEF Data
<1> QED
  BY <1>4, <1>5, <1>6 DEF Rejected

LEMMA SignInKeeps ==
  ASSUME IInv, NEW p \in Page, SignIn(p)
  PROVE  IInv'
<1> DEFINE page == pages[p]
<1>1. PICK a \in Account, kind \in Restoring, previous \in Account \cup {Nobody} :
        /\ SignsIn(p, [user |-> a, login |-> logins + 1], kind, previous)
        /\ space' \in {space, a}
  <2>1. PICK a \in Account :
          \/ PasswordSignIn(p, [user |-> a, login |-> logins + 1])
          \/ GoogleSignIn(p, [user |-> a, login |-> logins + 1])
    BY DEF SignIn
  <2>2. stored.user \in Account \cup {Nobody}
    BY StorageFacts DEF Session
  <2> QED BY <2>1, <2>2 DEF PasswordSignIn, GoogleSignIn, Restoring
<1> DEFINE session == [user |-> a, login |-> logins + 1]
           boot == Asking(kind, session, previous)
           new == [page EXCEPT !.mode = "restoring", !.session = session,
                               !.pending = TRUE, !.boot = boot]
<1>2. logins' = logins + 1 /\ logins' \in 1..MaxLogins
  BY SessionAssumption, StorageFacts DEF SignIn
<1>3. /\ session \in Named /\ session.user = a /\ session.login = logins'
      /\ session # NoSession /\ a # Nobody
  BY <1>2, SessionAssumption, StorageFacts DEF Session, Named, NoSession
<1> HIDE DEF session
<1>4. /\ page.mode = "gate" /\ Saves(p, session)
      /\ UNCHANGED <<Data, ended, misplaced, failures>>
      /\ pages' = [pages EXCEPT ![p] = new]
  BY <1>1 DEF SignsIn, Data, server, session, IInv, PagesOK
<1>5. boot \in BootRec /\ boot.kind = kind /\ boot.session = session /\ boot.phase = "user"
  BY <1>3 DEF Asking, BootRec
<1> HIDE DEF boot
<1>6. /\ page \in PageRec /\ PageOK(page) /\ BootOK(page)
  BY PageFacts
<1>7. /\ new \in PageRec /\ new.mode = "restoring" /\ new.session = session
      /\ new.boot = boot /\ new.sync = page.sync
  BY <1>3, <1>5, <1>6 DEF PageRec, Mode
<1> HIDE DEF new
<1>8. PageOK(new) /\ GivenOut(new, logins')
  BY <1>2, <1>3, <1>5, <1>6, <1>7 DEF PageOK, BootOK, GivenOut, Restoring
<1>9. stored' = session /\ Hears(p)
  BY <1>2, <1>3, <1>4, StorageFacts DEF Saves, Hears, Tell, Session
<1>10. pages'[p] = new /\ OwnPlace(p)'
  BY <1>4, <1>5, <1>7 DEF OwnPlace, Working, Boot, IInv, PagesOK
<1>11. logins <= logins' /\ session.login <= logins'
  BY <1>2, <1>3, StorageFacts
<1> QED
  BY <1>1, <1>2, <1>3, <1>4, <1>7, <1>8, <1>9, <1>10, <1>11, QuietStepKeeps, StorageFacts

LEMMA SignOutKeeps ==
  ASSUME IInv, NEW p \in Page, p \notin told, SignOut(p)
  PROVE  IInv'
<1> DEFINE page == pages[p]
           out == [session |-> page.session, space |-> space]
           new == [page EXCEPT !.mode = "leaving", !.session = NoSession, !.out = out,
                               !.boot.live = FALSE]
<1>1. /\ page.mode = "open" /\ pages' = [pages EXCEPT ![p] = new]
      /\ UNCHANGED <<stored, space, Data, ended, told, misplaced, logins, failures>>
  <2>1. pages' = [pages EXCEPT ![p] = new]
    <3>1. pages \in [Page -> PageRec]
      BY DEF IInv, PagesOK
    <3> QED BY <3>1 DEF SignOut, PageRec
  <2>2. UNCHANGED <<stored, space, Data, ended, told, misplaced, logins, failures>>
    BY DEF SignOut, storage, server, bounds, Data
  <2> QED BY <2>1, <2>2 DEF SignOut
<1>2. /\ page \in PageRec /\ PageOK(page) /\ BootOK(page) /\ GivenOut(page, logins)
      /\ page.boot \in BootRec
  BY PageFacts
<1>3. NoSession \in Named /\ NoSession.user = Nobody /\ NoSession.login = 0
  BY ConstantRecords DEF NoSession
<1>4. /\ new \in PageRec /\ new.mode = "leaving" /\ new.session = NoSession
      /\ new.out = out /\ new.sync = page.sync
      /\ new.boot = [page.boot EXCEPT !.live = FALSE]
  <2>1. page.session \in Named
    BY <1>2 DEF PageRec
  <2>2. space \in Account \cup {Guest}
    BY StorageFacts
  <2>3. out \in [session : Named, space : Account \cup {Guest}]
    BY <2>1, <2>2
  <2> HIDE DEF out
  <2> QED BY <1>2, <1>3, <2>3 DEF PageRec, BootRec, Mode
<1>5. out.session = page.session /\ out.space = space
  OBVIOUS
<1> HIDE DEF new, out
<1>6. /\ new.boot.kind = page.boot.kind /\ new.boot.session = page.boot.session
      /\ new.boot.live = FALSE /\ (page.boot = NoBoot => new.boot = NoBoot)
      /\ new.boot.phase = page.boot.phase
  <2>1. page.boot = NoBoot => new.boot = NoBoot
    BY <1>4, NoBootIsNotLive
  <2> QED BY <1>2, <1>4, <2>1 DEF BootRec
<1>7. page.boot.kind \notin Restoring
  BY <1>1, <1>2 DEF BootOK
<1>8. PageOK(new) /\ GivenOut(new, logins)
  <2>1. page.session # NoSession
    BY <1>1, <1>2 DEF PageOK
  <2>2. PageOK(new)
    BY <1>2, <1>3, <1>4, <1>5, <1>6, <1>7, <2>1, StorageFacts DEF PageOK, BootOK
  <2>3. GivenOut(new, logins)
    BY <1>2, <1>3, <1>4, <1>6, StorageFacts DEF GivenOut
  <2> QED BY <2>2, <2>3
<1>9. Hears(p)
  BY <1>1 DEF Hears, Tell
<1>10. pages'[p] = new /\ (~misplaced' => OwnPlace(p)')
  BY <1>1, <1>4, <1>5, <1>6, <1>7 DEF OwnPlace, Working, Boot, IInv, PagesOK, Placed
<1> QED
  BY <1>1, <1>4, <1>8, <1>9, <1>10, QuietStepKeeps, StorageFacts

LEMMA SignOutHereKeeps ==
  ASSUME IInv, NEW p \in Page, p \notin told, SignOutHere(p)
  PROVE  IInv'
<1> DEFINE page == pages[p]
           new == [page EXCEPT !.mode = "loggingOut"]
<1>1. /\ page.mode = "leaving" /\ pages' = [pages EXCEPT ![p] = new]
      /\ Saves(p, NoSession) /\ space' \in {space, Guest}
      /\ UNCHANGED <<Data, ended, misplaced, logins, failures>>
  BY DEF SignOutHere, Data, server, bounds, IInv, PagesOK
<1>2. /\ page \in PageRec /\ PageOK(page) /\ BootOK(page) /\ GivenOut(page, logins)
  BY PageFacts
<1>3. /\ new \in PageRec /\ new.mode = "loggingOut" /\ new.session = page.session
      /\ new.out = page.out /\ new.sync = page.sync /\ new.boot = page.boot
  BY <1>2 DEF PageRec, Mode
<1> HIDE DEF new
<1>4. PageOK(new) /\ GivenOut(new, logins)
  BY <1>1, <1>2, <1>3 DEF PageOK, BootOK, GivenOut
<1>5. Hears(p) /\ p \notin told' /\ stored' = NoSession
  BY <1>1, SavingHears DEF Saves
<1>6. NoSession \in Named /\ NoSession.user = Nobody /\ NoSession.login <= logins
  BY ConstantRecords, StorageFacts DEF NoSession
<1>7. pages'[p] = new /\ (~misplaced' => OwnPlace(p)')
  BY <1>1, <1>2, <1>3 DEF OwnPlace, Working, Boot, BootOK, IInv, PagesOK, Placed
<1> QED
  BY <1>1, <1>3, <1>4, <1>5, <1>6, <1>7, QuietStepKeeps, StorageFacts

LEMMA HandleKeeps ==
  ASSUME IInv, NEW p \in Page, Handle(p)
  PROVE  IInv'
<1> DEFINE page == pages[p]
           goesOn == /\ page.session.user = stored.user /\ stored # NoSession
                     /\ \A a \in Account : <<p, a>> \in turned => a = page.session.user
<1>1. /\ told' = told \ {p} /\ UNCHANGED <<stored, space, Data, ended, logins, failures>>
  BY DEF Handle, Takes, storage, server, bounds, Data
<1>2. /\ page \in PageRec /\ PageOK(page) /\ BootOK(page) /\ GivenOut(page, logins)
      /\ page.boot \in BootRec
  BY PageFacts
<1>3. Hears(p) /\ p \notin told'
  BY <1>1 DEF Hears, Tell
<1>4. CASE ~goesOn
  <2>1. pages' = [pages EXCEPT ![p] = Locked(page)] /\ misplaced' = misplaced
    BY <1>4, StorageFacts DEF Handle
  <2> QED BY <1>1, <1>2, <1>3, <2>1, LockingKeeps, StorageFacts
<1>5. CASE goesOn
  <2> DEFINE boot == [page.boot EXCEPT !.live = FALSE]
             new == [page EXCEPT !.session = stored, !.boot = boot]
  <2>1. /\ pages' = [pages EXCEPT ![p] = new]
        /\ misplaced' = (misplaced \/ (Working(p) /\ space \notin {stored.user, Guest}))
    BY <1>2, <1>5 DEF Handle, PageRec
  <2>2. /\ boot \in BootRec /\ boot.kind = page.boot.kind /\ boot.phase = page.boot.phase
        /\ boot.session = page.boot.session /\ boot.live = FALSE
        /\ (page.boot = NoBoot => boot = NoBoot)
    BY <1>2, NoBootIsNotLive DEF BootRec
  <2> HIDE DEF boot
  <2>3. /\ new \in PageRec /\ new.mode = page.mode /\ new.session = stored
        /\ new.out = page.out /\ new.sync = page.sync /\ new.boot = boot
    BY <1>2, <2>2, StorageFacts DEF PageRec
  <2> HIDE DEF new
  <2>4. page.session # NoSession /\ stored.user # Nobody
        /\ page.mode \in {"restoring", "retry", "open"}
    BY <1>2, <1>5, StorageFacts DEF PageOK
  <2>5. PageOK(new)
    <3>1. BootOK(new)
      BY <1>2, <1>5, <2>2, <2>3, <2>4 DEF BootOK
    <3> QED BY <1>2, <1>5, <2>3, <2>4, <3>1 DEF PageOK
  <2>6. GivenOut(new, logins)
    BY <1>2, <2>2, <2>3, StorageFacts DEF GivenOut
  <2>7. pages'[p] = new /\ (~misplaced' => OwnPlace(p)')
    BY <1>1, <2>1, <2>2, <2>3, <2>4 DEF OwnPlace, Working, Boot, IInv, PagesOK
  <2>8. misplaced' \in BOOLEAN /\ (misplaced => misplaced')
    BY <2>1, StorageFacts
  <2> QED
    BY <1>1, <1>3, <2>1, <2>3, <2>5, <2>6, <2>7, <2>8, QuietStepKeeps, StorageFacts
<1> QED BY <1>4, <1>5

\* A page's record when only its delivery changes.
LEMMA SyncChanged ==
  ASSUME IInv, NEW p \in Page, NEW sync \in SyncRec, sync.sent => sync.scope[1] = sync.scope[2],
         pages' = [pages EXCEPT ![p].sync = sync], UNCHANGED <<told, space>>
  PROVE  LET new == [pages[p] EXCEPT !.sync = sync] IN
         /\ pages' = [pages EXCEPT ![p] = new] /\ pages'[p] = new
         /\ PageOK(new) /\ GivenOut(new, logins) /\ new.sync = sync
         /\ (new.mode \in {"closed", "locked"} => p \notin told')
         /\ Hears(p) /\ (~misplaced => OwnPlace(p)')
<1> DEFINE page == pages[p]
           new == [page EXCEPT !.sync = sync]
<1>1. /\ page \in PageRec /\ PageOK(page) /\ BootOK(page) /\ GivenOut(page, logins)
  BY PageFacts
<1>2. /\ new \in PageRec /\ new.mode = page.mode /\ new.session = page.session
      /\ new.out = page.out /\ new.sync = sync /\ new.boot = page.boot
  BY <1>1 DEF PageRec
<1>3. pages' = [pages EXCEPT ![p] = new] /\ pages'[p] = new
  BY DEF IInv, PagesOK
<1> HIDE DEF new
<1>4. PageOK(new) /\ GivenOut(new, logins)
  BY <1>1, <1>2 DEF PageOK, BootOK, GivenOut
<1>5. Hears(p) /\ (new.mode \in {"closed", "locked"} => p \notin told')
  BY <1>2 DEF Hears, Tell, IInv, PagesOK
<1>6. ~misplaced => OwnPlace(p)'
  BY <1>2, <1>3 DEF OwnPlace, Working, Boot, IInv, Placed
<1> QED BY <1>2, <1>3, <1>4, <1>5, <1>6 DEF new

LEMMA SyncLostKeeps ==
  ASSUME IInv, NEW p \in Page, SyncLost(p)
  PROVE  IInv'
<1> DEFINE new == [pages[p] EXCEPT !.sync = NoSync]
<1>1. /\ pages' = [pages EXCEPT ![p].sync = NoSync]
      /\ UNCHANGED <<stored, space, Data, ended, told, misplaced, logins>>
  BY DEF SyncLost, storage, server, Data
<1>2. /\ pages' = [pages EXCEPT ![p] = new] /\ pages'[p] = new
      /\ PageOK(new) /\ GivenOut(new, logins) /\ new.sync = NoSync
      /\ (new.mode \in {"closed", "locked"} => p \notin told')
      /\ Hears(p) /\ (~misplaced => OwnPlace(p)')
  <2>1. ~NoSync.sent
    BY DEF NoSync
  <2> QED BY <1>1, <2>1, SyncChanged, ConstantRecords
<1> HIDE DEF new
<1>3. failures' \in 0..MaxFailures
  BY FailsCounts DEF SyncLost
<1> QED BY <1>1, <1>2, <1>3, QuietStepKeeps, StorageFacts

LEMMA SyncKeeps ==
  ASSUME IInv, NEW p \in Page, Sync(p)
  PROVE  IInv'
<1> DEFINE sync == [sent |-> TRUE, scope |-> Scope, payload |-> Here(outbox)]
           new == [pages[p] EXCEPT !.sync = sync]
<1>1. /\ stored.user = space /\ pages' = [pages EXCEPT ![p].sync = sync]
      /\ cloud' = [e \in Edit |-> IF e \in Here(outbox) THEN stored.user ELSE cloud[e]]
      /\ UNCHANGED <<stored, space, copies, outbox, author, ended, told, discarded, misplaced,
                      logins, failures>>
  BY DEF Sync, storage, bounds
<1>2. /\ outbox \in [Account -> SUBSET Edit] /\ cloud \in [Edit -> Account \cup {Nobody}]
  BY DEF IInv, StorageOK
<1>3. /\ Here(outbox) \subseteq Edit
      /\ Here(outbox) # {} => space \in Account /\ Here(outbox) = outbox[space]
  BY <1>2, StorageFacts DEF Here
<1>4. /\ sync \in SyncRec /\ sync.sent /\ sync.scope[1] = sync.scope[2]
      /\ sync.payload = Here(outbox)
  BY <1>1, <1>3, StorageFacts DEF SyncRec, Scope, Session
<1> HIDE DEF sync
<1>5. /\ pages' = [pages EXCEPT ![p] = new] /\ pages'[p] = new
      /\ PageOK(new) /\ GivenOut(new, logins) /\ new.sync = sync
      /\ (new.mode \in {"closed", "locked"} => p \notin told')
      /\ Hears(p) /\ (~misplaced => OwnPlace(p)')
  BY <1>1, <1>4, SyncChanged
<1> HIDE DEF new
<1>6. StorageOK'
  <2>1. cloud' \in [Edit -> Account \cup {Nobody}]
    BY <1>1, <1>2, <1>3
  <2> QED BY <1>1, <2>1 DEF IInv, StorageOK
<1>7. ASSUME ~misplaced'
      PROVE  /\ StaysDelivered /\ OutboxOK' /\ OwnPlace(p)' /\ PayloadOK(p)'
             /\ OwnDataOnly' /\ EditsAreKept'
  <2>1. ~misplaced /\ OutboxOK
    BY <1>1, <1>7 DEF IInv, Placed
  <2>2. \A e \in Edit : e \in Here(outbox) => author[e] = stored.user /\ author[e] # Nobody
    BY <1>1, <1>3, <2>1, SessionAssumption DEF OutboxOK
  <2>3. StaysDelivered
    BY <1>1, <2>2 DEF StaysDelivered
  <2>4. OutboxOK'
    BY <1>1, <2>1 DEF OutboxOK
  <2>5. OwnDataOnly'
    BY <1>1, <2>1, <2>2 DEF OwnDataOnly, IInv
  <2>6. EditsAreKept'
    BY <1>1, <2>1, <2>2 DEF EditsAreKept, IInv
  <2>7. PayloadOK(p)'
    BY <1>1, <1>3, <1>4, <1>5, <2>2 DEF PayloadOK
  <2> QED BY <1>5, <2>1, <2>3, <2>4, <2>5, <2>6, <2>7
<1> QED BY <1>1, <1>5, <1>6, <1>7, PageStepKeeps, StorageFacts

LEMMA SyncAnsweredKeeps ==
  ASSUME IInv, NEW p \in Page, SyncAnswered(p)
  PROVE  IInv'
<1> DEFINE new == [pages[p] EXCEPT !.sync = NoSync]
           sync == pages[p].sync
<1>1. /\ pages' = [pages EXCEPT ![p].sync = NoSync] /\ sync.sent
      /\ UNCHANGED <<stored, space, author, cloud, ended, told, discarded, misplaced,
                      logins, failures>>
  BY DEF SyncAnswered, server, bounds
<1>2. /\ pages' = [pages EXCEPT ![p] = new] /\ pages'[p] = new
      /\ PageOK(new) /\ GivenOut(new, logins) /\ new.sync = NoSync
      /\ (new.mode \in {"closed", "locked"} => p \notin told')
      /\ Hears(p) /\ (~misplaced => OwnPlace(p)')
  <2>1. ~NoSync.sent
    BY DEF NoSync
  <2> QED BY <1>1, <2>1, SyncChanged, ConstantRecords
<1> HIDE DEF new
<1>3. CASE ~Current(sync)
  <2>1. UNCHANGED Data
    BY <1>1, <1>3 DEF SyncAnswered, Data
  <2> QED BY <1>1, <1>2, <2>1, QuietStepKeeps, StorageFacts
<1>4. CASE Current(sync)
  <2>1. /\ copies' = Put(copies, space, Here(copies) \cup {sync.scope[1]})
        /\ outbox' = Put(outbox, space,
              IF Here(outbox) = sync.payload THEN {} ELSE Here(outbox))
    BY <1>4 DEF SyncAnswered
  <2>2. sync.scope[1] = space
    BY <1>1, <1>4, PageFacts DEF PageOK, Current, Scope
  <2>3. outbox \in [Account -> SUBSET Edit] /\ copies \in [Account -> SUBSET Account]
    BY DEF IInv, StorageOK
  <2>4. /\ copies' \in [Account -> SUBSET Account]
        /\ ~misplaced => \A a \in Account : copies'[a] \subseteq {a}
    <3>1. CASE space = Guest
      BY <2>1, <2>3, <3>1 DEF Put, IInv, OwnDataOnly
    <3>2. CASE space # Guest
      BY <2>1, <2>2, <3>2, OwnCopyApart, StorageFacts
    <3> QED BY <3>1, <3>2
  <2>5. /\ outbox' \in [Account -> SUBSET Edit]
        /\ \A a \in Account : outbox'[a] \subseteq outbox[a]
        /\ \A a \in Account : \A e \in outbox[a] \ outbox'[a] : e \in sync.payload
    <3>1. CASE space = Guest
      BY <2>1, <2>3, <3>1 DEF Put
    <3>2. CASE space # Guest
      BY <2>1, <2>3, <3>2, StorageFacts DEF Put, Here
    <3> QED BY <3>1, <3>2
  <2>6. StorageOK'
    BY <1>1, <2>4, <2>5 DEF IInv, StorageOK
  <2>7. ASSUME ~misplaced'
        PROVE  /\ StaysDelivered /\ OutboxOK' /\ OwnPlace(p)' /\ PayloadOK(p)'
               /\ OwnDataOnly' /\ EditsAreKept'
    <3>1. ~misplaced /\ OutboxOK /\ PayloadOK(p)
      BY <1>1, <2>7 DEF IInv, Placed
    <3>2. StaysDelivered /\ OutboxOK'
      BY <1>1, <2>5, <3>1 DEF StaysDelivered, OutboxOK
    <3>3. OwnDataOnly'
      BY <1>1, <2>4, <3>1 DEF OwnDataOnly, IInv
    <3>4. EditsAreKept'
      <4> SUFFICES ASSUME NEW e \in Edit
                   PROVE  \/ author[e] \in {Nobody, cloud[e]}
                          \/ e \in outbox'[author[e]]
                          \/ e \in discarded
        BY <1>1 DEF EditsAreKept
      <4>1. author[e] \in Account \cup {Nobody}
        BY DEF IInv, StorageOK
      <4>2. e \in sync.payload => cloud[e] = author[e]
        BY <1>1, <3>1 DEF PayloadOK
      <4> QED BY <2>5, <3>1, <4>1, <4>2 DEF EditsAreKept, IInv
    <3>5. PayloadOK(p)'
      BY <1>2 DEF PayloadOK, NoSync
    <3> QED BY <1>2, <3>1, <3>2, <3>3, <3>4, <3>5
  <2> QED BY <1>1, <1>2, <2>6, <2>7, PageStepKeeps, StorageFacts
<1> QED BY <1>3, <1>4

LEMMA MakeEditKeeps ==
  ASSUME IInv, NEW p \in Page, NEW e \in Edit, MakeEdit(p, e)
  PROVE  IInv'
<1> DEFINE who == pages[p].session.user
           sync == IF pages[p].sync.scope = Scope THEN pages[p].sync ELSE NoSync
           new == [pages[p] EXCEPT !.sync = sync]
<1>1. /\ author[e] = Nobody /\ author' = [author EXCEPT ![e] = who]
      /\ copies' = Put(copies, space, Here(copies) \cup {who})
      /\ outbox' = Put(outbox, space, Here(outbox) \cup {e})
      /\ misplaced' = (misplaced \/ space # who)
      /\ pages' = [pages EXCEPT ![p].sync = sync]
      /\ UNCHANGED <<stored, space, cloud, ended, told, discarded, logins, failures>>
  BY DEF MakeEdit, server, bounds
<1>2. who \in Account
  BY PageFacts DEF MakeEdit, PageOK, PageRec, Session
<1>3. sync \in SyncRec /\ (sync.sent => sync.scope[1] = sync.scope[2])
      /\ sync \in {pages[p].sync, NoSync}
  BY ConstantRecords, PageFacts DEF PageOK, NoSync
<1> HIDE DEF sync
<1>4. /\ pages' = [pages EXCEPT ![p] = new] /\ pages'[p] = new
      /\ PageOK(new) /\ GivenOut(new, logins) /\ new.sync = sync
      /\ (new.mode \in {"closed", "locked"} => p \notin told')
      /\ Hears(p) /\ (~misplaced => OwnPlace(p)')
  BY <1>1, <1>3, SyncChanged
<1> HIDE DEF new
<1>5. /\ outbox \in [Account -> SUBSET Edit] /\ author \in [Edit -> Account \cup {Nobody}]
  BY DEF IInv, StorageOK
<1>6. /\ outbox' \in [Account -> SUBSET Edit] /\ author' \in [Edit -> Account \cup {Nobody}]
      /\ copies' \in [Account -> SUBSET Account]
  BY <1>1, <1>2, <1>5, OwnCopyApart, StorageFacts DEF Put, Here
<1>7. StorageOK'
  BY <1>1, <1>6 DEF IInv, StorageOK
<1>8. ASSUME ~misplaced'
      PROVE  /\ StaysDelivered /\ OutboxOK' /\ OwnPlace(p)' /\ PayloadOK(p)'
             /\ OwnDataOnly' /\ EditsAreKept'
  <2>1. ~misplaced /\ space = who /\ space # Guest /\ OutboxOK /\ PayloadOK(p)
    BY <1>1, <1>2, <1>8, SessionAssumption DEF IInv, Placed
  <2>2. /\ outbox' = [outbox EXCEPT ![who] = outbox[who] \cup {e}]
        /\ \A x \in Edit : author'[x] = IF x = e THEN who ELSE author[x]
    BY <1>1, <1>5, <2>1 DEF Put, Here
  <2>3. StaysDelivered
    BY <1>1, <2>2 DEF StaysDelivered
  <2>4. OutboxOK'
    <3> SUFFICES ASSUME NEW a \in Account, NEW x \in outbox'[a] PROVE author'[x] = a
      BY DEF OutboxOK
    <3>1. x \in Edit
      BY <1>6
    <3>2. x \in outbox[a] => author[x] = a
      BY <2>1 DEF OutboxOK
    <3>3. CASE x = e
      <4>1. x \notin outbox[a]
        BY <1>1, <3>2, <3>3, SessionAssumption
      <4> QED BY <1>5, <2>2, <3>1, <3>3, <4>1
    <3>4. CASE x # e
      BY <1>2, <1>5, <2>2, <3>1, <3>2, <3>4
    <3> QED BY <3>3, <3>4
  <2>5. OwnDataOnly'
    <3>1. \A a \in Account : copies'[a] \subseteq {a}
      BY <1>1, <1>2, <2>1, OwnCopyApart
    <3>2. \A x \in Edit : cloud[x] \in {Nobody, author'[x]}
      BY <1>1, <2>1, <2>2 DEF IInv, OwnDataOnly
    <3> QED BY <1>1, <3>1, <3>2 DEF OwnDataOnly
  <2>6. EditsAreKept'
    <3> SUFFICES ASSUME NEW x \in Edit
                 PROVE  \/ author'[x] \in {Nobody, cloud[x]}
                        \/ x \in outbox'[author'[x]]
                        \/ x \in discarded
      BY <1>1 DEF EditsAreKept
    <3> QED BY <1>2, <1>5, <2>1, <2>2 DEF IInv, EditsAreKept
  <2>7. PayloadOK(p)'
    <3>1. sync.sent => sync = pages[p].sync /\ sync.payload \subseteq Edit
      BY <1>3, PageFacts DEF SyncRec, NoSync
    <3> QED BY <1>1, <1>4, <2>1, <2>2, <3>1 DEF PayloadOK
  <2> QED BY <1>4, <2>1, <2>3, <2>4, <2>5, <2>6, <2>7
<1>9. misplaced => misplaced'
  BY <1>1
<1> QED BY <1>1, <1>4, <1>7, <1>8, <1>9, PageStepKeeps, StorageFacts

\* What is cleared under a workspace stays apart from the others, and was thrown away.
LEMMA DiscardingKeeps ==
  ASSUME IInv, NEW s \in Account \cup {Guest}, NEW owners, Discards(s, owners),
         UNCHANGED <<author, cloud>>, s \in owners \/ s = Guest
  PROVE  /\ copies' \in [Account -> SUBSET Account] /\ outbox' \in [Account -> SUBSET Edit]
         /\ discarded' \subseteq Edit
         /\ ~misplaced => /\ StaysDelivered /\ OutboxOK'
                          /\ \A a \in Account : copies'[a] \subseteq {a}
                          /\ \A e \in Edit : \/ author[e] \in {Nobody, cloud[e]}
                                             \/ e \in outbox'[author[e]]
                                             \/ e \in discarded'
<1>1. /\ outbox \in [Account -> SUBSET Edit] /\ copies \in [Account -> SUBSET Account]
      /\ discarded \subseteq Edit /\ author \in [Edit -> Account \cup {Nobody}]
  BY DEF IInv, StorageOK
<1>2. CASE s = Guest
  <2>1. UNCHANGED <<copies, outbox, discarded>>
    BY <1>2 DEF Discards, Put
  <2> QED
    BY <1>1, <2>1 DEF IInv, Placed, OutboxOK, StaysDelivered, OwnDataOnly, EditsAreKept
<1>3. CASE s \in Account /\ s # Guest
  <2>1. /\ copies' = [copies EXCEPT ![s] = {}] /\ outbox' = [outbox EXCEPT ![s] = {}]
        /\ discarded' = discarded \cup {e \in outbox[s] : author[e] \in owners}
    BY <1>3 DEF Discards, Put
  <2>2. /\ copies' \in [Account -> SUBSET Account] /\ outbox' \in [Account -> SUBSET Edit]
        /\ discarded' \subseteq Edit
    BY <1>1, <1>3, <2>1
  <2>3. ASSUME ~misplaced
        PROVE  /\ StaysDelivered /\ OutboxOK'
               /\ \A a \in Account : copies'[a] \subseteq {a}
    BY <1>1, <2>1, <2>3 DEF IInv, Placed, OutboxOK, StaysDelivered, OwnDataOnly
  <2>4. ASSUME ~misplaced, NEW e \in Edit
        PROVE  \/ author[e] \in {Nobody, cloud[e]}
               \/ e \in outbox'[author[e]]
               \/ e \in discarded'
    BY <1>1, <1>3, <2>1, <2>4 DEF IInv, EditsAreKept
  <2> QED BY <2>2, <2>3, <2>4
<1> QED BY <1>2, <1>3

LEMMA UserCheckedKeeps ==
  ASSUME IInv, NEW p \in Page, p \notin told, UserChecked(p)
  PROVE  IInv'
<1> DEFINE page == pages[p]
           sync == IF Switches(page.boot) THEN NoSync ELSE page.sync
           new == [page EXCEPT !.boot.phase = "workspace", !.sync = sync]
<1>1. /\ page.boot # NoBoot /\ page.boot.phase = "user"
      /\ UNCHANGED <<stored, author, cloud, ended, told, misplaced, logins, failures>>
  BY DEF UserChecked, Boot, NoBoot, server, bounds
<1>2. /\ page \in PageRec /\ PageOK(page) /\ BootOK(page) /\ GivenOut(page, logins)
      /\ page.boot \in BootRec
  BY PageFacts
<1>3. pages' = [pages EXCEPT ![p] = new]
  BY <1>2 DEF UserChecked, IInv, PagesOK, PageRec
<1>4. sync \in SyncRec /\ (sync.sent => sync.scope[1] = sync.scope[2])
      /\ sync \in {page.sync, NoSync}
  BY ConstantRecords, PageFacts DEF PageOK, NoSync
<1> HIDE DEF sync
<1>5. /\ new \in PageRec /\ new.mode = page.mode /\ new.session = page.session
      /\ new.out = page.out /\ new.sync = sync
      /\ new.boot = [page.boot EXCEPT !.phase = "workspace"]
  BY <1>2, <1>4 DEF PageRec, BootRec
<1> HIDE DEF new
<1>6. /\ new.boot.kind = page.boot.kind /\ new.boot.session = page.boot.session
      /\ new.boot.live = page.boot.live /\ new.boot.phase = "workspace"
  BY <1>2, <1>5 DEF BootRec
<1>7. page.mode \notin {"closed", "gate", "retry"}
  BY <1>1, <1>2 DEF BootOK
<1>8. PageOK(new) /\ GivenOut(new, logins)
  <2>1. BootOK(new)
    BY <1>1, <1>2, <1>5, <1>6, <1>7 DEF BootOK
  <2> QED BY <1>2, <1>4, <1>5, <1>6, <2>1 DEF PageOK, GivenOut
<1>9. space' \in {space, Guest} /\ Hears(p)
  BY <1>1 DEF UserChecked, Hears, Tell
<1>10. pages'[p] = new /\ (~misplaced => OwnPlace(p)')
  BY <1>3, <1>5, <1>6, <1>9, PageFacts
     DEF OwnPlace, Working, Boot, IInv, PagesOK, Placed
<1>11. CASE ~Switches(page.boot)
  <2>1. UNCHANGED Data /\ space' = space
    BY <1>1, <1>11 DEF UserChecked, Data
  <2> QED
    BY <1>1, <1>3, <1>4, <1>5, <1>8, <1>9, <1>10, <2>1, QuietStepKeeps, StorageFacts
<1>12. CASE Switches(page.boot)
  <2>1. Discards(space, Account) /\ sync = NoSync
    BY <1>12 DEF UserChecked, sync
  <2>2. /\ copies' \in [Account -> SUBSET Account] /\ outbox' \in [Account -> SUBSET Edit]
        /\ discarded' \subseteq Edit
        /\ ~misplaced => /\ StaysDelivered /\ OutboxOK'
                         /\ \A a \in Account : copies'[a] \subseteq {a}
                         /\ \A e \in Edit : \/ author[e] \in {Nobody, cloud[e]}
                                            \/ e \in outbox'[author[e]]
                                            \/ e \in discarded'
    BY <1>1, <2>1, DiscardingKeeps, StorageFacts
  <2>3. StorageOK'
    BY <1>1, <1>9, <2>2 DEF IInv, StorageOK
  <2>4. ~misplaced' => OwnDataOnly' /\ EditsAreKept'
    BY <1>1, <2>2 DEF OwnDataOnly, EditsAreKept, IInv
  <2>5. PayloadOK(p)'
    BY <1>5, <1>10, <2>1 DEF PayloadOK, NoSync
  <2> QED
    BY <1>1, <1>3, <1>5, <1>8, <1>9, <1>10, <2>2, <2>3, <2>4, <2>5, PageStepKeeps, StorageFacts
<1> QED BY <1>11, <1>12

LEMMA SignOutEndsKeeps ==
  ASSUME IInv, NEW p \in Page, p \notin told, SignOutEnds(p)
  PROVE  IInv'
<1> DEFINE page == pages[p]
           out == page.out
           new == Locked(page)
<1>1. /\ page.mode = "loggingOut" /\ pages' = [pages EXCEPT ![p] = new]
      /\ Discards(out.space, {out.session.user}) /\ told' = told \cup Tell(p)
      /\ UNCHANGED <<stored, space, author, cloud, misplaced, logins>>
  BY DEF SignOutEnds
<1>2. /\ page \in PageRec /\ PageOK(page) /\ GivenOut(page, logins)
  BY PageFacts
<1>3. /\ PageOK(new) /\ GivenOut(new, logins) /\ new.mode = "locked"
      /\ new.sync = page.sync /\ new.boot.phase # "loading"
  BY <1>2, LockedOK, StorageFacts
<1> HIDE DEF new
<1>4. out.session \in Named /\ out.session # NoSession /\ out.space \in Account \cup {Guest}
  BY <1>1, <1>2 DEF PageRec, PageOK, BootOK
<1>5. ended' \subseteq 1..MaxLogins /\ failures' \in 0..MaxFailures
  <2>1. out.session.login \in 1..MaxLogins
    BY <1>4, SessionAssumption DEF Named, Session
  <2> QED BY <2>1, FailsCounts, StorageFacts DEF SignOutEnds
<1>6. ~misplaced => out.space \in {out.session.user, Guest}
  BY <1>1 DEF IInv, Placed, OwnPlace
<1>7. pages'[p] = new /\ OwnPlace(p)' /\ Hears(p) /\ p \notin told'
  BY <1>1, <1>3, TellingHears DEF IInv, PagesOK, OwnPlace, Working, Boot
<1>8. /\ copies' \in [Account -> SUBSET Account] /\ outbox' \in [Account -> SUBSET Edit]
      /\ discarded' \subseteq Edit
  BY <1>1, <1>4 DEF Discards, Put, IInv, StorageOK
<1>9. StorageOK'
  BY <1>1, <1>5, <1>8 DEF IInv, StorageOK
<1>10. ASSUME ~misplaced'
       PROVE  /\ StaysDelivered /\ OutboxOK' /\ OwnPlace(p)' /\ PayloadOK(p)'
              /\ OwnDataOnly' /\ EditsAreKept'
  <2>1. ~misplaced /\ PayloadOK(p)
    BY <1>1, <1>10 DEF IInv, Placed
  <2>2. /\ StaysDelivered /\ OutboxOK'
        /\ \A a \in Account : copies'[a] \subseteq {a}
        /\ \A e \in Edit : \/ author[e] \in {Nobody, cloud[e]}
                           \/ e \in outbox'[author[e]]
                           \/ e \in discarded'
    BY <1>1, <1>4, <1>6, <2>1, DiscardingKeeps
  <2>3. OwnDataOnly' /\ EditsAreKept'
    BY <1>1, <2>1, <2>2 DEF OwnDataOnly, EditsAreKept, IInv
  <2>4. PayloadOK(p)'
    BY <1>1, <1>3, <1>7, <2>1 DEF PayloadOK
  <2> QED BY <1>7, <2>2, <2>3, <2>4
<1> QED BY <1>1, <1>3, <1>5, <1>7, <1>9, <1>10, PageStepKeeps, StorageFacts
-----------------------------------------------------------------------------
\* Of a switch only those are told who are told of something, and of an account.
TurnedOK == turned \subseteq told \X Account

LEMMA TurnedKeeps == IInv /\ TurnedOK /\ [Next]_vars => TurnedOK'
<1> SUFFICES ASSUME IInv, TurnedOK, [Next]_vars
             PROVE  TurnedOK'
  OBVIOUS
<1>1. CASE UNCHANGED vars
  BY <1>1 DEF vars, TurnedOK
<1>2. ASSUME NEW p \in Page, Takes(p)
      PROVE  TurnedOK'
  BY <1>2 DEF Takes, TurnedOK
<1>3. ASSUME told \subseteq told', UNCHANGED turned
      PROVE  TurnedOK'
  BY <1>3 DEF TurnedOK
<1>4. ASSUME NEW p \in Page, WorkspaceEnsured(p)
      PROVE  TurnedOK'
  <2>1. pages[p].boot.session.user \in Account
    BY <1>4, PageFacts
       DEF WorkspaceEnsured, Boot, Restoring, BootOK, NoBoot, BootRec, Named, Session
  <2>2. /\ told' = told \cup Tell(p)
        /\ turned' = turned \cup
             (IF Switches(pages[p].boot) THEN Tell(p) \X {pages[p].boot.session.user} ELSE {})
    BY <1>4 DEF WorkspaceEnsured
  <2> QED BY <2>1, <2>2 DEF TurnedOK
<1>5. ASSUME NEW p \in Page, Handle(p) \/ Close(p)
      PROVE  Takes(p)
  BY <1>5 DEF Handle, Close
<1>6. ASSUME NEW p \in Page, Open(p) \/ Restart(p) \/ RequestFails(p) \/ Connect(p)
      PROVE  told \subseteq told' /\ UNCHANGED turned
  BY <1>6 DEF Open, Restart, Starts, OpenLocally, RequestFails, Transient, Saves, Connect
<1>7. ASSUME NEW p \in Page, UserChecked(p) \/ Rejected(p) \/ SignIn(p)
      PROVE  told \subseteq told' /\ UNCHANGED turned
  BY <1>7 DEF UserChecked, Rejected, Forget, Transient, OpenLocally, Saves, SignIn, SignsIn,
              PasswordSignIn, GoogleSignIn
<1>8. ASSUME NEW p \in Page, SignOut(p) \/ SignOutStep(p) \/ \E e \in Edit : MakeEdit(p, e)
      PROVE  told \subseteq told' /\ UNCHANGED turned
  BY <1>8 DEF SignOut, SignOutStep, SignOutHere, SignOutEnds, Saves, MakeEdit
<1>9. ASSUME NEW p \in Page, Sync(p) \/ SyncAnswered(p) \/ SyncLost(p)
      PROVE  told \subseteq told' /\ UNCHANGED turned
  BY <1>9 DEF Sync, SyncAnswered, SyncLost
<1> QED BY <1>1, <1>2, <1>3, <1>4, <1>5, <1>6, <1>7, <1>8, <1>9 DEF Next, BootStep

LEMMA StepKeeps == IInv /\ [Next]_vars => IInv'
<1> SUFFICES ASSUME IInv, [Next]_vars
             PROVE  IInv'
  OBVIOUS
<1>1. CASE UNCHANGED vars
  BY <1>1
     DEF vars, storage, server, bounds, IInv, StorageOK, PagesOK, LoginsOK, Placed, OutboxOK,
         OwnPlace, PayloadOK, Working, Boot, OwnDataOnly, EditsAreKept
<1>2. ASSUME NEW p \in Page, Handle(p) \/ Close(p) \/ SignIn(p) \/ \E e \in Edit : MakeEdit(p, e)
      PROVE  IInv'
  BY <1>2, HandleKeeps, CloseKeeps, SignInKeeps, MakeEditKeeps
<1>3. ASSUME NEW p \in Page, p \notin told, Open(p) \/ Restart(p)
      PROVE  IInv'
  BY <1>3, StartsKeeps DEF Open, Restart
<1>4. ASSUME NEW p \in Page, p \notin told, BootStep(p) \/ RequestFails(p)
      PROVE  IInv'
  BY <1>4, UserCheckedKeeps, WorkspaceEnsuredKeeps, RejectedKeeps, ConnectKeeps,
     RequestFailsKeeps DEF BootStep
<1>5. ASSUME NEW p \in Page, p \notin told, SignOut(p) \/ SignOutStep(p)
      PROVE  IInv'
  BY <1>5, SignOutKeeps, SignOutHereKeeps, SignOutEndsKeeps DEF SignOutStep
<1>6. ASSUME NEW p \in Page, Sync(p) \/ SyncAnswered(p) \/ SyncLost(p)
      PROVE  IInv'
  BY <1>6, SyncKeeps, SyncAnsweredKeeps, SyncLostKeeps
<1> QED BY <1>1, <1>2, <1>3, <1>4, <1>5, <1>6 DEF Next

\* The inductive invariant holds of every reachable state.
THEOREM Invariance == Spec => []IInv
BY InitHolds, StepKeeps, PTL DEF Spec
-----------------------------------------------------------------------------
(* The properties the runs check, for every set of accounts and pages.     *)

\* Types, and that each page knows of a session what its mode says.
THEOREM TypeCorrect == Spec => []TypeOK
<1>1. IInv /\ TurnedOK => TypeOK
  BY DEF IInv, TurnedOK, TypeOK, StorageOK, PagesOK, PageOK, BootOK, PageRec, Named
<1>2. Init => TurnedOK
  BY DEF Init, TurnedOK
<1> QED BY <1>1, <1>2, InitHolds, StepKeeps, TurnedKeeps, PTL DEF Spec

\* However many pages restore sessions, sign in, sign out and save at the same time, no
\* account's workspace gets another's data and no account delivers another's changes,
\* unless a page opened an account, or went on with it, on another workspace.
THEOREM OwnDataOnlyHolds == Spec => []OwnDataOnly
<1>1. IInv => OwnDataOnly
  BY DEF IInv
<1> QED BY <1>1, Invariance, PTL

\* Under the same condition a change is delivered for its author, waits for the author's
\* next sign-in, or was thrown away by the author's sign-out or a switch of accounts.
THEOREM EditsAreKeptHolds == Spec => []EditsAreKept
<1>1. IInv => EditsAreKept
  BY DEF IInv
<1> QED BY <1>1, Invariance, PTL
=============================================================================
