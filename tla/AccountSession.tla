----------------------------- MODULE AccountSession -----------------------------
(***************************************************************************)
(* The account of one browser and its pages: signing in and out, restoring *)
(* a session when a page starts, checking it in the background, and what   *)
(* the other pages do when they hear of a change                           *)
(* (publicAccountAuthLayer.mjs, data/accountAuth.mjs); and what of the     *)
(* saves and the delivery of changes depends on the account                *)
(* (data/localStore.mjs).                                                  *)
(*                                                                         *)
(* The pages share the browser's storage, and every step between two waits *)
(* of a page is one action.  A workspace is named by the account it        *)
(* belongs to, a person's data by the person.  Tokens are not numbered: a  *)
(* login is one sign-in and all it is refreshed to, so that renewing it    *)
(* changes nothing here.                                                   *)
(***************************************************************************)
EXTENDS Integers, FiniteSets

CONSTANTS
  Account,
  Page,            \* pages of one browser
  Edit,            \* changes people make
  First,           \* the account signed in at first
  Nobody,          \* no account
  Guest,           \* the workspace in use when it is no account's
  MaxLogins,       \* bound: sign-ins
  MaxFailures      \* bound: failed requests, lost answers, killed pages, and answers that
                   \* come to a page about to reload

ASSUME SessionAssumption ==
  /\ First \in Account /\ Nobody \notin Account /\ Guest \notin Account
  /\ MaxLogins \in Nat \ {0} /\ MaxFailures \in Nat

VARIABLES
  stored,          \* the session in the browser's storage
  space,           \* the workspace in use
  copies,          \* whose data the copy of each account's workspace holds
  outbox,          \* the changes waiting under each account's workspace
  author,          \* who made a change that was accepted
  cloud,           \* the account a change was delivered for
  ended,           \* logins the server has ended
  pages,
  told,            \* pages with a storage event waiting
  turned,          \* which of those are told of a switch to an account, and to which
  discarded,       \* history: changes thrown away by their author's sign-out or a switch
  misplaced,       \* history: an account was opened, saved or kept open on another workspace
  logins, failures \* bounds

storage == <<stored, space, copies, outbox>>
server == <<cloud, ended>>
bounds == <<logins, failures>>
vars == <<storage, author, server, pages, told, turned, discarded, misplaced, bounds>>

Session == [user : Account \cup {Nobody}, login : 0..MaxLogins]
NoSession == [user |-> Nobody, login |-> 0]

\* accountStorageScope
Scope == <<stored.user, space>>

NoBoot == [kind |-> "none", phase |-> "none", session |-> NoSession,
           previous |-> Nobody, live |-> FALSE]
NoSync == [sent |-> FALSE, scope |-> <<Nobody, Guest>>, payload |-> {}]

Fresh == [mode |-> "closed", session |-> NoSession, pending |-> FALSE,
          out |-> [session |-> NoSession, space |-> Guest], boot |-> NoBoot, sync |-> NoSync]

\* Another account may have left a change behind, on purpose, when its session ended.
Init ==
  /\ stored = [user |-> First, login |-> 1] /\ space = First
  /\ \E left \in SUBSET Edit, other \in Account \ {First} :
       /\ Cardinality(left) <= 1
       /\ author = [e \in Edit |-> IF e \in left THEN other ELSE Nobody]
       /\ outbox = [a \in Account |-> IF a = other THEN left ELSE {}]
       /\ copies = [a \in Account |-> IF a = First \/ (a = other /\ left # {}) THEN {a} ELSE {}]
  /\ cloud = [e \in Edit |-> Nobody] /\ ended = {}
  /\ pages = [p \in Page |-> Fresh] /\ told = {} /\ turned = {}
  /\ discarded = {} /\ misplaced = FALSE
  /\ logins = 1 /\ failures = 0

Fails == failures < MaxFailures /\ failures' = failures + 1

\* What is under the workspace in use; what a guest keeps is left out.
Here(kept) == IF space = Guest THEN {} ELSE kept[space]
Put(kept, s, what) == IF s = Guest THEN kept ELSE [kept EXCEPT ![s] = what]

\* A storage event, of the session's key or of an announcement, for every other page that
\* runs.  Writing what is there already is no event.  A page takes all that wait at once.
Tell(p) == {q \in Page \ {p} : pages[q].mode \notin {"closed", "locked"}}
Takes(p) == told' = told \ {p} /\ turned' = {x \in turned : x[1] # p}
Saves(p, session) ==
  /\ stored' = session
  /\ told' = IF session = stored THEN told ELSE told \cup Tell(p)

\* Mutant: a page about to reload keeps its session.
LockedSignedIn(page) == [page EXCEPT !.mode = "locked", !.boot = NoBoot, !.pending = FALSE]

\* lockForAccountSessionChange and every other reload: one more answer can come before
\* the document is gone.
Locked(page) ==
  [Fresh EXCEPT !.mode = "locked", !.sync = page.sync,
                !.boot = IF page.boot.phase = "workspace"
                           THEN [page.boot EXCEPT !.live = FALSE] ELSE NoBoot]

\* clearLocalAccountData under workspace s, meant for the changes of the owners.
Discards(s, owners) ==
  /\ copies' = Put(copies, s, {})
  /\ outbox' = Put(outbox, s, {})
  /\ discarded' = discarded \cup
       {e \in IF s = Guest THEN {} ELSE outbox[s] : author[e] \in owners}
-----------------------------------------------------------------------------
(* A page starts. *)

Opened(page, session, boot) ==
  [page EXCEPT !.mode = "open", !.session = session, !.pending = FALSE, !.boot = boot]

\* resumeAccountLocally: the account opens on the workspace in use, whatever it is.
OpenLocally(p, page, session, boot) ==
  /\ stored' = session /\ told' = told \cup Tell(p)
  /\ pages' = [pages EXCEPT ![p] = Opened(page, session, boot)]
  /\ misplaced' = (misplaced \/ space # session.user)

Asking(kind, session, previous) ==
  [kind |-> kind, phase |-> "user", session |-> session, previous |-> previous, live |-> TRUE]

\* setupAccountAuth.  A page that retries remembers that it completes a sign-in.
Starts(p) ==
  LET page == IF pages[p].mode = "retry" THEN pages[p] ELSE Fresh
      Becomes(new) ==
        /\ pages' = [pages EXCEPT ![p] = new]
        /\ UNCHANGED <<stored, told, misplaced, failures>>
  IN /\ \/ /\ stored = NoSession
           /\ Becomes([Fresh EXCEPT !.mode = "gate", !.sync = page.sync])
        \/ /\ stored # NoSession /\ ~page.pending /\ space = stored.user
           /\ OpenLocally(p, page, stored, Asking("reconcile", stored, Nobody))
           /\ UNCHANGED failures
        \/ /\ stored # NoSession /\ ~page.pending /\ Fails       \* offline
           /\ OpenLocally(p, page, stored, NoBoot)
        \/ /\ stored # NoSession /\ (page.pending \/ space # stored.user)
           /\ Becomes([page EXCEPT !.mode = "restoring", !.session = stored,
                                   !.boot = Asking("restore", stored, Nobody)])
     /\ UNCHANGED <<space, copies, outbox, author, server, turned, discarded, logins>>

Open(p) == pages[p].mode = "closed" /\ Starts(p)

\* The reload, or retryAccountSetup.
Restart(p) == pages[p].mode \in {"locked", "retry"} /\ Starts(p)

\* A page can be killed at any time.
Close(p) ==
  /\ pages[p].mode # "closed" /\ Fails
  /\ pages' = [pages EXCEPT ![p] = Fresh]
  /\ Takes(p)
  /\ UNCHANGED <<storage, author, server, discarded, misplaced, logins>>
-----------------------------------------------------------------------------
(* Restoring a session: the server is asked for the user and for the       *)
(* workspace; then the page connects to the account's data.                *)

Boot(p, kind, phase) == pages[p].boot.kind \in kind /\ pages[p].boot.phase = phase
Restoring == {"restore", "google"}
Switches(boot) == boot.previous \notin {Nobody, boot.session.user}

\* The previous account goes when a sign-in replaced it: clearPreviousAccountAfterSwitch.
\* It clears the workspace in use, which may be anybody's by then.
UserChecked(p) ==
  LET boot == pages[p].boot IN
  /\ Boot(p, Restoring \cup {"reconcile"}, "user") /\ boot.session.login \notin ended
  /\ IF Switches(boot)
       THEN /\ Discards(space, Account)
            /\ space' = IF space = boot.previous THEN Guest ELSE space
       ELSE UNCHANGED <<space, copies, outbox, discarded>>
  /\ pages' = [pages EXCEPT ![p].boot.phase = "workspace",
                            ![p].sync = IF Switches(boot) THEN NoSync ELSE @]
  /\ UNCHANGED <<stored, author, server, told, turned, misplaced, bounds>>

\* The rest of restoreAccountSession, which tells of a switch and saves the session whoever
\* waits for it, and the end of reconcileResumedAccountSession, which does not go on for nobody.
WorkspaceEnsured(p) ==
  LET page == pages[p]
      boot == page.boot
  IN /\ Boot(p, Restoring \cup {"reconcile"}, "workspace")
     /\ space' = boot.session.user
     /\ stored' = boot.session /\ told' = told \cup Tell(p)
     /\ turned' = turned \cup (IF Switches(boot) THEN Tell(p) \X {boot.session.user} ELSE {})
     /\ pages' = [pages EXCEPT ![p] =
          IF page.mode = "restoring"
            THEN [page EXCEPT !.session = boot.session, !.boot.phase = "loading"]
            ELSE [page EXCEPT !.session = IF boot.live THEN boot.session ELSE @,
                              !.boot = NoBoot]]
     /\ IF page.mode = "locked" THEN Fails ELSE UNCHANGED failures
     /\ UNCHANGED <<copies, outbox, author, server, discarded, misplaced, logins>>

\* What a request that failed leaves: a sign-in is tried again, a start goes on with what
\* the browser has, and a check in the background is dropped.
Transient(p) ==
  LET page == pages[p] IN
  \/ /\ page.mode = "restoring" /\ page.pending
     /\ Saves(p, page.session)
     /\ pages' = [pages EXCEPT ![p].mode = "retry", ![p].boot = NoBoot]
     /\ UNCHANGED misplaced
  \/ /\ page.mode = "restoring" /\ ~page.pending
     /\ OpenLocally(p, page, page.session, NoBoot)
  \/ /\ page.mode # "restoring"
     /\ pages' = [pages EXCEPT ![p].boot = NoBoot]
     /\ UNCHANGED <<stored, told, misplaced>>

RequestFails(p) ==
  /\ pages[p].boot.kind # "none" /\ Fails
  /\ Transient(p)
  /\ UNCHANGED <<space, copies, outbox, author, server, turned, discarded, logins>>

\* connectAccountToApp.  The account's participant is saved where it is not yet.  After a
\* sign-in the page is loaded again; else that is up to the profile the browser remembers.
Connect(p) ==
  LET page == pages[p]
      user == page.boot.session.user
  IN /\ Boot(p, Restoring, "loading") /\ page.mode = "restoring"
     /\ copies' = Put(copies, space, Here(copies) \cup {user})
     /\ told' = told \cup Tell(p)
     /\ \/ pages' = [pages EXCEPT ![p] = Locked(page)]
        \/ ~page.pending /\ pages' = [pages EXCEPT ![p] = Opened(page, page.session, NoBoot)]
     /\ UNCHANGED <<stored, space, outbox, author, server, turned, discarded, misplaced, bounds>>

\* Mutant: what waits goes with a session that is refused.
ForgetAll(p) ==
  Saves(p, NoSession) /\ copies' = Put(copies, space, {}) /\ outbox' = Put(outbox, space, {})

\* What a session the server refuses takes with it: itself, whoever it belongs to.  The
\* changes that wait stay for the next sign-in.
Forget(p) == Saves(p, NoSession) /\ UNCHANGED <<copies, outbox>>

Rejected(p) ==
  LET page == pages[p]
      boot == page.boot
      Becomes(new) == pages' = [pages EXCEPT ![p] = new] /\ UNCHANGED misplaced
  IN /\ Boot(p, Restoring \cup {"reconcile"}, "user") /\ boot.session.login \in ended
     /\ \/ /\ boot.kind = "restore" /\ Forget(p)
           /\ Becomes([Fresh EXCEPT !.mode = "gate", !.sync = page.sync])
        \/ /\ boot.kind = "reconcile" /\ boot.live /\ Forget(p)
           /\ Becomes(Locked([page EXCEPT !.boot = NoBoot]))
        \/ /\ boot.kind = "google" \/ (boot.kind = "reconcile" /\ ~boot.live)
           /\ Transient(p) /\ UNCHANGED <<copies, outbox>>
     /\ UNCHANGED <<space, author, server, turned, discarded, bounds>>
-----------------------------------------------------------------------------
(* Signing in and out. *)

\* The credentials are stored before anything else is asked of the server.
SignsIn(p, session, kind, previous) ==
  /\ pages[p].mode = "gate"
  /\ Saves(p, session)
  /\ pages' = [pages EXCEPT ![p].mode = "restoring", ![p].session = session,
                            ![p].pending = TRUE, ![p].boot = Asking(kind, session, previous)]
  /\ UNCHANGED <<copies, outbox, author, server, turned, discarded, misplaced, failures>>

\* A password's sign-in turns to the account's workspace at once.
PasswordSignIn(p, session) == SignsIn(p, session, "restore", Nobody) /\ space' = session.user

\* Google's leaves that to the restoring, and remembers whose session it replaced
\* (completeGoogleIdTokenSignIn).
GoogleSignIn(p, session) == SignsIn(p, session, "google", stored.user) /\ UNCHANGED space

SignIn(p) ==
  /\ logins < MaxLogins /\ logins' = logins + 1
  /\ \E a \in Account :
       LET session == [user |-> a, login |-> logins + 1]
       IN PasswordSignIn(p, session) \/ GoogleSignIn(p, session)

\* The button: what is asked about the session no longer counts.
SignOut(p) ==
  /\ pages[p].mode = "open"
  /\ pages' = [pages EXCEPT ![p].mode = "leaving", ![p].session = NoSession,
                            ![p].out = [session |-> pages[p].session, space |-> space],
                            ![p].boot.live = FALSE]
  /\ UNCHANGED <<storage, author, server, told, turned, discarded, misplaced, bounds>>

\* signOutAccount up to its request, after the phone's push registration was looked at.
SignOutHere(p) ==
  LET user == pages[p].out.session.user IN
  /\ pages[p].mode = "leaving"
  /\ Saves(p, NoSession)
  /\ space' = IF space = user THEN Guest ELSE space
  /\ pages' = [pages EXCEPT ![p].mode = "loggingOut"]
  /\ UNCHANGED <<copies, outbox, author, server, turned, discarded, misplaced, bounds>>

\* The logout is answered or given up; then the account's data go.
SignOutEnds(p) ==
  LET out == pages[p].out IN
  /\ pages[p].mode = "loggingOut"
  /\ \/ ended' = ended \cup {out.session.login} /\ UNCHANGED failures
     \/ Fails /\ UNCHANGED ended
  /\ Discards(out.space, {out.session.user})
  /\ pages' = [pages EXCEPT ![p] = Locked(@)]
  /\ told' = told \cup Tell(p)
  /\ UNCHANGED <<stored, space, author, cloud, turned, misplaced, logins>>

\* Mutant: a page reloads at every event.
HandleReloads(p) ==
  /\ p \in told /\ Takes(p)
  /\ pages' = [pages EXCEPT ![p] = Locked(@)]
  /\ UNCHANGED <<storage, author, server, discarded, misplaced, bounds>>

\* The page has an account open, or loads the account's data.
Working(p) == pages[p].mode = "open" \/ Boot(p, Restoring, "loading")

\* handleAccountSessionStorageSync looks at what is stored by now, whatever the event, save
\* that a switch to another account locks the page whoever is stored; the events it ignores
\* tell of nothing that another event does not, or of nothing new.  The account goes on also
\* when another's workspace is in use: Google's sign-in stores its session first.
Handle(p) ==
  LET page == pages[p]
      goesOn == /\ page.session.user = stored.user /\ stored # NoSession
                /\ \A a \in Account : <<p, a>> \in turned => a = page.session.user
  IN
  /\ p \in told /\ Takes(p)
  /\ pages' = [pages EXCEPT ![p] =
       IF goesOn THEN [page EXCEPT !.session = stored, !.boot.live = FALSE] ELSE Locked(page)]
  /\ misplaced' = (misplaced \/ (goesOn /\ Working(p) /\ space \notin {stored.user, Guest}))
  /\ UNCHANGED <<storage, author, server, discarded, bounds>>
-----------------------------------------------------------------------------
(* Changes, and their delivery: what these requests check of the account.  *)

\* saveSharedState, which also lets go of what was asked for another scope
\* (synchronizeAccountStorageScope).
MakeEdit(p, e) ==
  LET page == pages[p]
      who == page.session.user
  IN /\ page.mode = "open" /\ author[e] = Nobody
     /\ stored.user = who
     /\ author' = [author EXCEPT ![e] = who]
     /\ copies' = Put(copies, space, Here(copies) \cup {who})
     /\ outbox' = Put(outbox, space, Here(outbox) \cup {e})
     /\ pages' = [pages EXCEPT ![p].sync = IF @.scope = Scope THEN @ ELSE NoSync]
     /\ misplaced' = (misplaced \/ space # who)
     /\ UNCHANGED <<stored, space, server, told, turned, discarded, bounds>>

\* Mutant: an answer counts in whatever account's workspace it finds.
CurrentAnywhere(sync) == sync.sent

\* loadAccountRequestIsCurrent, for a request that was not let go of.
Current(sync) == sync.scope = Scope

\* A read or a delivery, of an open page or of one that loads the account's data, goes
\* with the stored session's token.  The server takes it for that account's own workspace.
Sync(p) ==
  /\ Working(p) /\ ~pages[p].sync.sent /\ stored.user = space
  /\ cloud' = [e \in Edit |-> IF e \in Here(outbox) THEN stored.user ELSE cloud[e]]
  /\ pages' = [pages EXCEPT ![p].sync =
       [sent |-> TRUE, scope |-> Scope, payload |-> Here(outbox)]]
  /\ UNCHANGED <<storage, author, ended, told, turned, discarded, misplaced, bounds>>

\* The account's state comes back and is stored; what was sent need not wait any longer.
SyncAnswered(p) ==
  LET page == pages[p]
      user == page.sync.scope[1]
  IN /\ page.sync.sent
     /\ pages' = [pages EXCEPT ![p].sync = NoSync]
     /\ IF Current(page.sync)
          THEN /\ copies' = Put(copies, space, Here(copies) \cup {user})
               /\ outbox' = Put(outbox, space,
                    IF Here(outbox) = page.sync.payload THEN {} ELSE Here(outbox))
          ELSE UNCHANGED <<copies, outbox>>
     /\ UNCHANGED <<stored, space, author, server, told, turned, discarded, misplaced, bounds>>

SyncLost(p) ==
  /\ pages[p].sync.sent /\ Fails
  /\ pages' = [pages EXCEPT ![p].sync = NoSync]
  /\ UNCHANGED <<storage, author, server, told, turned, discarded, misplaced, logins>>
-----------------------------------------------------------------------------
BootStep(p) == UserChecked(p) \/ WorkspaceEnsured(p) \/ Rejected(p) \/ Connect(p)
SignOutStep(p) == SignOutHere(p) \/ SignOutEnds(p)

\* A storage event is with a page before the next answer is: only the change or the
\* sign-in a person is at can still come first.
Next ==
  \E p \in Page :
    \/ Handle(p) \/ Close(p) \/ SignIn(p)
    \/ \E e \in Edit : MakeEdit(p, e)
    \/ /\ p \notin told
       /\ \/ Open(p) \/ Restart(p) \/ BootStep(p) \/ RequestFails(p)
          \/ SignOut(p) \/ SignOutStep(p)
          \/ Sync(p) \/ SyncAnswered(p) \/ SyncLost(p)

\* A page takes its storage events; its requests are answered or time out, and it takes
\* that even when events keep coming; a page that reloads or retries starts again.
GoesOn(p) == p \notin told /\ (Restart(p) \/ BootStep(p) \/ SignOutStep(p))
Fairness == \A p \in Page : WF_vars(Handle(p)) /\ SF_vars(GoesOn(p))

Spec == Init /\ [][Next]_vars /\ Fairness
-----------------------------------------------------------------------------
(* Properties. *)

Mode == {"closed", "gate", "restoring", "retry", "open", "leaving", "loggingOut", "locked"}

\* Types, what a page in each mode knows of its session, and that a page that does not
\* run is told nothing.
TypeOK ==
  /\ stored \in Session /\ (stored = NoSession <=> stored.user = Nobody)
  /\ space \in Account \cup {Guest} /\ copies \in [Account -> SUBSET Account]
  /\ outbox \in [Account -> SUBSET Edit]
  /\ author \in [Edit -> Account \cup {Nobody}] /\ cloud \in [Edit -> Account \cup {Nobody}]
  /\ ended \subseteq 1..MaxLogins /\ discarded \subseteq Edit /\ misplaced \in BOOLEAN
  /\ logins \in 1..MaxLogins /\ failures \in 0..MaxFailures
  /\ told \subseteq {p \in Page : pages[p].mode \notin {"closed", "locked"}}
  /\ turned \subseteq told \X Account
  /\ \A p \in Page :
       /\ pages[p].mode \in Mode /\ pages[p].session \in Session
       /\ pages[p].session # NoSession <=> pages[p].mode \in {"restoring", "retry", "open"}
       /\ pages[p].mode = "restoring" => pages[p].boot.kind \in Restoring

\* No account's workspace gets another's data and no account delivers another's changes,
\* whatever was under way when the browser changed accounts, in any of its pages; save
\* where a page opened the account, or went on with it, on the workspace that happened to
\* be in use.
OwnDataOnly ==
  ~misplaced => /\ \A a \in Account : copies[a] \subseteq {a}
                /\ \A e \in Edit : cloud[e] \in {Nobody, author[e]}

\* A change that was accepted is delivered for its author, or waits under the author's
\* workspace through failed sign-ins, sessions the server ended and other people's
\* sign-ins; only its author's sign-out throws it away, or the sign-in that replaces a
\* session still stored.
EditsAreKept ==
  ~misplaced => \A e \in Edit :
    \/ author[e] \in {Nobody, cloud[e]}
    \/ e \in outbox[author[e]]
    \/ e \in discarded

\* Once nobody signs out any more, the pages of a browser agree in the end about who is
\* signed in and that somebody is: no page hangs in its start or its sign-out, and pages
\* do not reload each other for ever.
Settled(p) ==
  \/ pages[p].mode = "closed"
  \/ pages[p].mode = "gate" /\ stored = NoSession
  \/ pages[p].mode = "open" /\ pages[p].session.user = stored.user

PagesSettle ==
  <>[][\A p \in Page : ~SignOut(p)]_vars => <>[](\A p \in Page : Settled(p))
=============================================================================
