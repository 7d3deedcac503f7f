------------------------------ MODULE Session ------------------------------
(***************************************************************************)
(* The life of a session in one terminal: the App, its tasks and the queue   *)
(* their results come back through.  Siblings change the shared token file    *)
(* and the server's grants behind its back (Grants has the details of that).  *)
(*                                                                         *)
(* Generations are numbers that only grow; a message counts if it carries     *)
(* the current one of its kind.  Time is abstract: a deadline may pass at any  *)
(* moment while it runs.                                                    *)
(***************************************************************************)
EXTENDS Naturals, Sequences

CONSTANTS
  Loads,      \* requests whose result a screen or a badge waits for
  Writes,     \* posts a composer waits for
  Checks,     \* bound: the restores and rechecks that may run at once
  Logouts,    \* bound: the sign-outs that may run at once
  Accounts,   \* the members who may sign in
  Nobody,     \* no member
  MaxGrant,   \* bound: how many grants the server issues
  MaxQueue,   \* bound: how many messages wait to be handled
  Events      \* of "own", "sibling", "signin", "signout", "lose", "timeout":
              \* what may happen besides requests and their answers

ASSUME SessionAssumption ==
  /\ Loads \cap Writes = {}
  /\ Checks # {}
  /\ Nobody \notin Accounts
  /\ MaxGrant \in Nat \ {0}

VARIABLES
  file,     \* the grant in token.json
  server,   \* what the OAuth server issued and has since revoked
  app,      \* the App and its tasks
  queue     \* the messages its tasks sent and it has not handled

vars == <<file, server, app, queue>>

None == 0
Grants == 1..MaxGrant
Requests == Loads \cup Writes

\* What a call came to: an answer; NoToken or 401, which a recheck may mend;
\* a refusal for good (OAuth, and for /me a banned account); anything else.
Results == {"ok", "lost", "ends", "fails"}

Request == [at: {"none", "waiting", "sent"}, gen: Nat,
            by: Accounts \cup {Nobody}, grant: Grants \cup {None}]
NoRequest == [at |-> "none", gen |-> 0, by |-> Nobody, grant |-> None]

\* A recheck_stored_session or restore_session; an aborted recheck is dropped
\* before its ReportGuard reports.
Check == [at: {"none", "restoring", "asked", "verifying", "dropped"},
          gen: Nat, source: Grants \cup {None}]
NoCheck == [at |-> "none", gen |-> 0, source |-> None]

Login == [at: {"none", "asking", "verifying"}, gen: Nat]
NoLogin == [at |-> "none", gen |-> 0]

SignOut == [at: {"none", "taking", "revoking"}, gen: Nat, grant: Grants \cup {None}]
NoSignOut == [at |-> "none", gen |-> 0, grant |-> None]

Message == [kind: {"result", "bootstrap", "verified", "login", "snapshot", "loggedout"},
            gen: Nat, task: Requests \cup {Nobody},
            result: Results, grant: Grants \cup {None}]

App == [me: Accounts \cup {Nobody}, top: {"home", "login"},
        session: Nat, bootstrap: Nat, login: Nat,
        tried: BOOLEAN, pending: BOOLEAN, retry: BOOLEAN, leaving: BOOLEAN,
        grant: Grants \cup {None}, paused: BOOLEAN,
        busy: SUBSET Requests, shows: Accounts \cup {Nobody},
        request: [Requests -> Request], check: [Checks -> Check],
        flow: Login, signout: [Logouts -> SignOut]]

TypeOK ==
  /\ file \in Grants \cup {None}
  /\ server \in [issued: 0..MaxGrant, owner: [Grants -> Accounts \cup {Nobody}],
                 dead: SUBSET Grants]
  /\ app \in App
  /\ queue \in Seq(Message)
  /\ \A t \in Requests : app.request[t].at = "sent" => app.request[t].grant # None
  /\ app.me # Nobody => app.top = "home"

----------------------------------------------------------------------------
(* The OAuth server *)

Live(n) == n \in Grants /\ n <= server.issued /\ n \notin server.dead

Owner(n) == IF n = None THEN Nobody ELSE server.owner[n]

\* s after it issued a grant to member a.
Minted(s, a) ==
  [s EXCEPT !.issued = @ + 1, !.owner = [@ EXCEPT ![s.issued + 1] = a]]

\* A refresh: the grant it rotates is revoked.
Rotated(s, n) == [Minted(s, s.owner[n]) EXCEPT !.dead = @ \cup {n}]

----------------------------------------------------------------------------
(* What the handlers do to terminal a *)

Free(slots) == {k \in DOMAIN slots : slots[k].at = "none"}

Aborted(c) ==
  CASE c.at \in {"asked", "verifying"} -> [c EXCEPT !.at = "dropped"]
    [] c.at = "restoring" -> NoCheck
    [] OTHER -> c

AbortSessionTasks(a) ==
  [a EXCEPT !.request = [t \in Requests |-> IF t \in Loads THEN NoRequest ELSE @[t]],
            !.check = [k \in Checks |-> Aborted(@[k])]]

\* As before issue 567: a post waits on in the next session.
AbortNoWrites(a) == a                                  \* mutant

AbortWrites(a) ==
  [a EXCEPT !.request = [t \in Requests |-> IF t \in Writes THEN NoRequest ELSE @[t]]]

BeginSession(a) == [AbortSessionTasks(a) EXCEPT !.session = @ + 1]

\* The screens go on waiting for what was aborted.
CancelWorkOnly(a) == BeginSession(AbortWrites(a))      \* mutant

\* Each screen that waited for a request is released.
CancelRecoveredWork(a) == [BeginSession(AbortWrites(a)) EXCEPT !.busy = {}]

\* As before issue 557: a verdict in the queue still counts.
EndSessionButChecks(a) ==                              \* mutant
  [AbortWrites(AbortSessionTasks(a)) EXCEPT
     !.session = @ + 1, !.me = Nobody, !.shows = Nobody, !.busy = {},
     !.top = "login", !.retry = FALSE, !.tried = FALSE, !.pending = FALSE]

EndSession(a) ==
  [AbortWrites(AbortSessionTasks(a)) EXCEPT
     !.bootstrap = @ + 1, !.session = @ + 1,
     !.me = Nobody, !.shows = Nobody, !.busy = {}, !.top = "login",
     !.retry = FALSE, !.tried = FALSE, !.pending = FALSE]

\* The task of a check, which reports under the current generation.
Checking(a, at) ==
  LET k == CHOOSE k \in Free(a.check) : TRUE
  IN  [a EXCEPT !.check = [@ EXCEPT ![k] =
        [at |-> at, gen |-> a.bootstrap, source |-> None]]]

RecheckStoredSession(a) ==
  [Checking(a, "asked") EXCEPT !.paused = TRUE, !.tried = TRUE, !.pending = TRUE]

RestoreSession(a) ==
  IF a.me # Nobody /\ a.paused THEN RecheckStoredSession(a)
                               ELSE Checking(a, "restoring")

BeginLogin(a) ==
  IF a.leaving THEN a
  ELSE [a EXCEPT !.login = @ + 1,
                 !.flow = [at |-> "asking", gen |-> a.login + 1]]

----------------------------------------------------------------------------
(* The start *)

Fresh ==
  [me |-> Nobody, top |-> "home", session |-> 0, bootstrap |-> 0, login |-> 0,
   tried |-> FALSE, pending |-> FALSE, retry |-> FALSE, leaving |-> FALSE,
   grant |-> file, paused |-> FALSE, busy |-> {}, shows |-> Nobody,
   request |-> [t \in Requests |-> NoRequest], check |-> [k \in Checks |-> NoCheck],
   flow |-> NoLogin, signout |-> [o \in Logouts |-> NoSignOut]]

\* App::bootstrap: a stored grant is tried, without one the login begins.
Init ==
  /\ LET nothing == [issued |-> 0, owner |-> [n \in Grants |-> Nobody], dead |-> {}]
     IN  \/ file = None /\ server = nothing
         \/ file = 1 /\ \E a \in Accounts : server = Minted(nothing, a)
  /\ app = IF file = None THEN BeginLogin([Fresh EXCEPT !.top = "login"])
                          ELSE RestoreSession(Fresh)
  /\ queue = <<>>

----------------------------------------------------------------------------
(* Behind the terminal's back *)

\* Another terminal refreshes or signs in over the file, or the grant is
\* revoked and perhaps erased.
Sibling ==
  /\ "sibling" \in Events
  /\ \/ /\ Live(file) /\ server.issued < MaxGrant
        /\ server' = Rotated(server, file)
        /\ file' = server.issued + 1
     \/ /\ server.issued < MaxGrant
        /\ \E a \in Accounts : server' = Minted(server, a)
        /\ file' = server.issued + 1
     \/ /\ file # None
        /\ server' = [server EXCEPT !.dead = @ \cup {file}]
        /\ file' \in {file, None}
  /\ UNCHANGED <<app, queue>>

----------------------------------------------------------------------------
(* Requests *)

Send(kind, gen, task, result, grant) ==
  /\ Len(queue) < MaxQueue
  /\ queue' = Append(queue, [kind |-> kind, gen |-> gen, task |-> task,
                             result |-> result, grant |-> grant])

\* A screen or a poller starts a request, and waits for it.
Start(t) ==
  /\ app.me # Nobody /\ t \notin app.busy /\ app.request[t].at = "none"
  /\ app' = [app EXCEPT !.busy = @ \cup {t}, !.request = [@ EXCEPT ![t] =
       [at |-> "waiting", gen |-> app.session, by |-> app.me, grant |-> None]]]
  /\ UNCHANGED <<file, server, queue>>

\* valid_token refreshes in time: the grant is rotated, also on disk.
Refresh ==
  /\ "own" \in Events
  /\ ~app.paused /\ Live(app.grant) /\ server.issued < MaxGrant
  /\ \/ \E t \in Requests : app.request[t].at = "waiting"
     \/ \E k \in Checks : app.check[k].at = "restoring"
  /\ server' = Rotated(server, app.grant)
  /\ app' = [app EXCEPT !.grant = server.issued + 1]
  /\ file' = IF file = app.grant THEN server.issued + 1 ELSE file
  /\ UNCHANGED queue

\* What valid_token makes of a refresh the server rejects: the file is only
\* erased if it holds no newer grant.
Newer == file \notin {None, app.grant}
Rejected == IF Newer THEN "lost" ELSE "ends"
FileAfterRejection == IF Newer THEN file ELSE None

\* dispatch_token: paused, or no grant, or its refresh is rejected, or sent.
Dispatch(t) ==
  LET r == app.request[t]
      done == [app EXCEPT !.request = [@ EXCEPT ![t] = NoRequest]]
  IN  /\ r.at = "waiting"
      /\ \/ /\ app.paused \/ app.grant = None
            /\ Send("result", r.gen, t, IF app.paused THEN "fails" ELSE "lost", None)
            /\ app' = done
            /\ UNCHANGED <<file, server>>
         \/ /\ ~app.paused /\ app.grant # None /\ ~Live(app.grant)
            /\ Send("result", r.gen, t, Rejected, None)
            /\ app' = [done EXCEPT !.grant = None]
            /\ file' = FileAfterRejection
            /\ UNCHANGED server
         \/ /\ ~app.paused /\ app.grant # None
            /\ app' = [app EXCEPT !.request = [@ EXCEPT ![t] =
                 [r EXCEPT !.at = "sent", !.grant = app.grant]]]
            /\ UNCHANGED <<file, server, queue>>

\* The forum's answer: 401 once the grant is revoked.
Answer(t) ==
  LET r == app.request[t]
  IN  /\ r.at = "sent"
      /\ \/ Live(r.grant) /\ Send("result", r.gen, t, "ok", r.grant)
         \/ ~Live(r.grant) /\ Send("result", r.gen, t, "lost", r.grant)
         \/ "lose" \in Events /\ Send("result", r.gen, t, "fails", r.grant)
      /\ app' = [app EXCEPT !.request = [@ EXCEPT ![t] = NoRequest]]
      /\ UNCHANGED <<file, server>>

----------------------------------------------------------------------------
(* Restoring and rechecking a session *)

\* Reports a check's verdict, and its task ends.
Reports(k, kind, result, grant) ==
  /\ Send(kind, app.check[k].gen, Nobody, result, grant)
  /\ app' = [app EXCEPT !.check = [@ EXCEPT ![k] = NoCheck]]

\* /me with the client's own grant.
Restore(k) ==
  /\ app.check[k].at = "restoring"
  /\ \/ /\ ~app.paused /\ Live(app.grant)
        /\ Reports(k, "bootstrap", "ok", app.grant)
        /\ UNCHANGED file
     \/ /\ ~app.paused /\ ~Live(app.grant)
        /\ Reports(k, "bootstrap", "lost", None)
        /\ UNCHANGED file
     \/ /\ ~app.paused /\ app.grant # None /\ ~Live(app.grant)
        /\ Send("bootstrap", app.check[k].gen, Nobody, Rejected, None)
        /\ app' = [app EXCEPT !.grant = None, !.check = [@ EXCEPT ![k] = NoCheck]]
        /\ file' = FileAfterRejection
     \/ /\ app.paused \/ "lose" \in Events
        /\ Reports(k, "bootstrap", "fails", None)
        /\ UNCHANGED file
  /\ UNCHANGED server

\* stored_session_candidate: nothing to adopt, or the grant on disk.
PrepareCandidate(k) ==
  /\ app.check[k].at = "asked"
  /\ \/ file \in {None, app.grant} /\ Reports(k, "bootstrap", "lost", None)
     \/ "lose" \in Events /\ Reports(k, "bootstrap", "fails", None)
     \/ /\ file \notin {None, app.grant}
        /\ app' = [app EXCEPT !.check = [@ EXCEPT ![k] =
             [app.check[k] EXCEPT !.at = "verifying", !.source = file]]]
        /\ UNCHANGED queue
  /\ UNCHANGED <<file, server>>

\* verify_recovery: /me with the candidate's grant.
VerifyRecovery(k) ==
  LET n == app.check[k].source
  IN  /\ app.check[k].at = "verifying"
      /\ \/ Live(n) /\ Reports(k, "verified", "ok", n)
         \/ ~Live(n) /\ \E r \in {"lost", "ends"} : Reports(k, "bootstrap", r, None)
         \/ "lose" \in Events /\ Reports(k, "bootstrap", "fails", None)
      /\ UNCHANGED <<file, server>>

\* ReportGuard: an aborted recheck still reports.
ReportDropped(k) ==
  /\ app.check[k].at = "dropped"
  /\ Reports(k, "bootstrap", "lost", None)
  /\ UNCHANGED <<file, server>>

\* The deadline offers no retry.
TimesOutQuietly ==                                     \* mutant
  /\ "timeout" \in Events /\ app.pending
  /\ app' = CancelRecoveredWork([app EXCEPT !.pending = FALSE,
                                 !.bootstrap = @ + 1, !.paused = TRUE])
  /\ UNCHANGED <<file, server, queue>>

\* expire_session_recovery_timeout: the late verdict will not count.
RecoveryTimesOut ==
  /\ "timeout" \in Events /\ app.pending
  /\ app' = LET a == CancelRecoveredWork([app EXCEPT !.pending = FALSE,
                         !.bootstrap = @ + 1, !.paused = TRUE])
            IN  IF a.me # Nobody THEN [a EXCEPT !.retry = TRUE] ELSE EndSession(a)
  /\ UNCHANGED <<file, server, queue>>

\* The member presses r.
Retry ==
  /\ app.retry /\ (app.me = Nobody \/ app.paused)
  /\ Free(app.check) # {}
  /\ app' = RestoreSession([app EXCEPT !.retry = FALSE])
  /\ UNCHANGED <<file, server, queue>>

----------------------------------------------------------------------------
(* Signing in and out *)

\* Enter on the Login screen.
EnterLogin ==
  /\ app.top = "login"
  /\ app' = BeginLogin(app)
  /\ UNCHANGED <<file, server, queue>>

\* The flow ends with a grant (set_tokens) or with an error.
FinishLogin ==
  /\ app.flow.at = "asking"
  /\ \/ /\ "signin" \in Events /\ server.issued < MaxGrant
        /\ \E a \in Accounts : server' = Minted(server, a)
        /\ file' = server.issued + 1
        /\ app' = [app EXCEPT !.grant = server.issued + 1, !.paused = FALSE,
                              !.flow = [@ EXCEPT !.at = "verifying"]]
        /\ UNCHANGED queue
     \/ /\ Send("login", app.flow.gen, Nobody, "ends", None)
        /\ app' = [app EXCEPT !.flow = NoLogin]
        /\ UNCHANGED <<file, server>>

\* Its /me.
VerifyLogin ==
  /\ app.flow.at = "verifying"
  /\ \/ Live(app.grant) /\ Send("login", app.flow.gen, Nobody, "ok", app.grant)
     \/ ~Live(app.grant) /\ Send("login", app.flow.gen, Nobody, "ends", None)
     \/ "lose" \in Events /\ Send("login", app.flow.gen, Nobody, "fails", None)
  /\ app' = [app EXCEPT !.flow = NoLogin]
  /\ UNCHANGED <<file, server>>

\* Its task gets the generation of the session that ends.
LogoutOfThis ==                                        \* mutant
  /\ "signout" \in Events
  /\ ~(app.me = Nobody /\ app.top = "login")
  /\ ~app.leaving /\ Free(app.signout) # {}
  /\ LET o == CHOOSE o \in Free(app.signout) : TRUE
     IN  app' = [EndSession(app) EXCEPT !.leaving = TRUE, !.signout = [@ EXCEPT ![o] =
                   [at |-> "taking", gen |-> app.session, grant |-> None]]]
  /\ UNCHANGED <<file, server, queue>>

\* Ctrl+L; its task gets the generation that end_session makes current.
Logout ==
  /\ "signout" \in Events
  /\ ~(app.me = Nobody /\ app.top = "login")
  /\ ~app.leaving /\ Free(app.signout) # {}
  /\ LET o == CHOOSE o \in Free(app.signout) : TRUE
     IN  app' = [EndSession(app) EXCEPT !.leaving = TRUE, !.signout = [@ EXCEPT ![o] =
                   [at |-> "taking", gen |-> app.session + 1, grant |-> None]]]
  /\ UNCHANGED <<file, server, queue>>

\* take_tokens; without a store it takes nothing, but it reports all the same.
TakeTokens(o) ==
  LET s == app.signout[o]
  IN  /\ s.at = "taking"
      /\ \/ /\ app' = [app EXCEPT !.grant = None, !.signout = [@ EXCEPT ![o] =
                         [s EXCEPT !.at = "revoking", !.grant = app.grant]]]
            /\ file' = IF file = app.grant THEN None ELSE file
         \/ /\ app.grant # None
            /\ app' = [app EXCEPT !.signout = [@ EXCEPT ![o] = [s EXCEPT !.at = "revoking"]]]
            /\ UNCHANGED file
      /\ Send("snapshot", s.gen, Nobody, "ok", None)
      /\ UNCHANGED server

\* The revocations, which may be refused.
Revoke(o) ==
  LET s == app.signout[o]
  IN  /\ s.at = "revoking"
      /\ \/ server' = [server EXCEPT !.dead = @ \cup ({s.grant} \ {None})]
         \/ UNCHANGED server
      /\ Send("loggedout", s.gen, Nobody, "ok", None)
      /\ app' = [app EXCEPT !.signout = [@ EXCEPT ![o] = NoSignOut]]
      /\ UNCHANGED file

----------------------------------------------------------------------------
(* handle_msg *)

\* The boundary: what a failure of a call says about the session itself.
Recheckable(a, result) == result = "lost" /\ a.me # Nobody /\ ~a.tried

\* A request's result reaches its screen, whatever the boundary made of it.
Delivered(a, m) ==
  [a EXCEPT !.busy = @ \ {m.task},
            !.shows = IF m.result = "ok" /\ m.task \in Loads THEN Owner(m.grant) ELSE @]

Judged(a, result) ==
  CASE result \in {"ok", "fails"} -> a
    [] Recheckable(a, result) -> RecheckStoredSession(a)
    [] result \in {"lost", "ends"} /\ ~Recheckable(a, result) /\ a.pending -> a
    [] OTHER -> EndSession(a)

\* Whatever session it was asked in, a result is delivered.
HandleAnyResult(a, m) == Delivered(Judged(a, m.result), m)         \* mutant

HandleResult(a, m) ==
  IF m.gen = a.session THEN Delivered(Judged(a, m.result), m) ELSE a

\* Bootstrap Ok: member u is signed in, for whom the client's grant speaks.
SignedIn(a, u) ==
  LET changed == a.me \notin {Nobody, u}
      begun == IF a.me = Nobody \/ changed THEN BeginSession(a) ELSE a
      cleared == IF changed THEN [AbortWrites(begun) EXCEPT !.busy = {}, !.shows = Nobody]
                            ELSE begun
  IN  [cleared EXCEPT !.me = u, !.top = "home",
                      !.retry = FALSE, !.tried = FALSE, !.pending = FALSE]

\* Bootstrap Err that says nothing about the session: r retries.
Unverified(a) ==
  IF a.me # Nobody THEN [a EXCEPT !.paused = TRUE, !.tried = FALSE, !.retry = TRUE]
                   ELSE [a EXCEPT !.retry = TRUE]

\* The verdict closes the window before it is judged.
HandleBootstrap(a, m) ==
  LET closed == [a EXCEPT !.pending = FALSE]
  IN  CASE m.gen # a.bootstrap -> a
        [] m.gen = a.bootstrap /\ m.result = "ok" -> SignedIn(closed, Owner(m.grant))
        [] m.gen = a.bootstrap /\ m.result = "fails" -> Unverified(closed)
        [] OTHER -> Judged(closed, m.result)

\* commit, if the file is still the one verified: a new client, and no old
\* task survives.
HandleVerified(a, m) ==
  CASE m.gen # a.bootstrap -> a
    [] m.gen = a.bootstrap /\ file = m.grant ->
         SignedIn([CancelRecoveredWork(a) EXCEPT !.grant = m.grant, !.paused = FALSE,
                                                 !.pending = FALSE],
                  Owner(m.grant))
    [] OTHER -> Unverified([a EXCEPT !.pending = FALSE])

\* LoginComplete; an error that says the grant is bad stays on the screen, as
\* that of LoginFailed does.
HandleLogin(a, m) ==
  CASE m.gen = a.login /\ m.result = "ok" ->
         [BeginSession(a) EXCEPT !.me = Owner(m.grant), !.top = "home"]
    [] m.gen = a.login /\ m.result = "fails" -> [a EXCEPT !.top = "home", !.retry = TRUE]
    [] OTHER -> a

\* LogoutSnapshot, and LoggedOut.
HandleSignOut(a, m) == IF m.gen = a.session THEN [a EXCEPT !.leaving = FALSE] ELSE a

Handle ==
  LET m == Head(queue)
  IN  /\ queue # <<>>
      /\ Recheckable(app, m.result) => Free(app.check) # {}
      /\ queue' = Tail(queue)
      /\ app' = CASE m.kind = "result" -> HandleResult(app, m)
                  [] m.kind = "bootstrap" -> HandleBootstrap(app, m)
                  [] m.kind = "verified" -> HandleVerified(app, m)
                  [] m.kind = "login" -> HandleLogin(app, m)
                  [] OTHER -> HandleSignOut(app, m)
      /\ UNCHANGED <<file, server>>

Next ==
  \/ Sibling \/ Refresh
  \/ \E t \in Requests : Start(t) \/ Dispatch(t) \/ Answer(t)
  \/ \E k \in Checks : \/ Restore(k) \/ PrepareCandidate(k)
                       \/ VerifyRecovery(k) \/ ReportDropped(k)
  \/ RecoveryTimesOut \/ Retry
  \/ EnterLogin \/ FinishLogin \/ VerifyLogin
  \/ Logout \/ (\E o \in Logouts : TakeTokens(o) \/ Revoke(o))
  \/ Handle

Spec == Init /\ [][Next]_vars

----------------------------------------------------------------------------
(* Properties *)

\* logout_pending: a login is held only until the sign-out's task reports
\* under the generation the App then has.
SignOutEnds ==
  app.leaving =>
    \/ \E o \in Logouts : app.signout[o].at # "none" /\ app.signout[o].gen = app.session
    \/ \E i \in DOMAIN queue : /\ queue[i].kind \in {"snapshot", "loggedout"}
                              /\ queue[i].gen = app.session

\* Issues 557 and 590: no count or list of another member is on the screen.
ShowsOnlyMine == app.shows \in {Nobody, app.me}

\* Issue 567: a post goes out only with the grant of the member who wrote it.
PostsAsAuthor ==
  \A t \in Writes : app.request[t].at = "sent" =>
     Owner(app.request[t].grant) = app.request[t].by

\* Issues 551 and 587: there is always a way on.  A session whose requests are
\* paused is being checked or can be retried; so can a start without one.
NeverStuck ==
  LET verdict(k) == app.check[k].at # "none" /\ app.check[k].gen = app.bootstrap
      coming == \/ \E k \in Checks : verdict(k)
                \/ \E i \in DOMAIN queue : /\ queue[i].kind \in {"bootstrap", "verified"}
                                          /\ queue[i].gen = app.bootstrap
  IN  /\ (app.me # Nobody /\ app.paused) => app.retry \/ coming
      /\ (app.me = Nobody /\ app.top = "home") => app.retry \/ coming
      /\ app.pending => coming

\* Issues 588 and 600: what a screen waits for is under way, or its result is
\* in the queue and will not be dropped.
NothingWaitsForever ==
  \A t \in app.busy :
     \/ app.request[t].at # "none" /\ app.request[t].gen = app.session
     \/ \E i \in DOMAIN queue : /\ queue[i].kind = "result" /\ queue[i].task = t
                               /\ queue[i].gen = app.session

\* Issue 557: who was signed out comes back only by signing in.
SignedOutStays ==
  [][ (app.top = "login" /\ app'.me # Nobody) =>
        Head(queue).kind = "login" /\ Head(queue).gen = app.login ]_vars

=============================================================================
