---------------------------- MODULE SessionProofs ----------------------------
(***************************************************************************)
(* Proofs about Session, for every number of members, requests, checks,    *)
(* sign-outs, grants and messages: its type, its five invariants and       *)
(* SignedOutStays.                                                         *)
(*                                                                         *)
(* The properties alone are not inductive: whether a message may sign a    *)
(* member in, or a pause is ever lifted, depends on what is under way and  *)
(* in the queue.  IInv says of each of these what it may still do to the   *)
(* App, in terms of a server s, a terminal a and a queue q:                *)
(*   - the client's grant, and that of a request which was sent, speaks    *)
(*     for the member who is signed in (MemberOK, RequestsOK);             *)
(*   - as long as nobody is, at most one verdict can count, and it is      *)
(*     that of a restore, or of a login on the Login screen (ChecksOK,     *)
(*     FlowOK, Heard, OneVerdict);                                         *)
(*   - what must still come is under way or in the queue (Moving, Fine).   *)
(* Whoever replaces the client's grant ends the generation of all that     *)
(* was begun with the old one: that is what Lasts and QueueStays turn      *)
(* into facts about the messages that wait.                                *)
(***************************************************************************)
EXTENDS Session, SequenceTheorems, TLAPS

\* The grants server s has issued, and to whom.
Known(s) == 1..s.issued
OwnerIn(s, n) == IF n = None THEN Nobody ELSE s.owner[n]

ServerOK(s) ==
  /\ s \in [issued: 0..MaxGrant, owner: [Grants -> Accounts \cup {Nobody}], dead: SUBSET Grants]
  /\ \A n \in Known(s) : s.owner[n] \in Accounts

\* The client's grant, if it has one, speaks for member u.
SpeaksFor(s, a, u) == a.grant # None => OwnerIn(s, a.grant) = u

\* The messages that count for terminal a.
IsVerdict(a, m) == m.kind \in {"bootstrap", "verified"} /\ m.gen = a.bootstrap
IsResult(a, m) == m.kind = "result" /\ m.gen = a.session
IsLogin(a, m) == m.kind = "login" /\ m.gen = a.login
IsSignOut(a, m) == m.kind \in {"snapshot", "loggedout"} /\ m.gen = a.session
\* The verdict of check k will count.
Decides(a, k) == a.check[k].at # "none" /\ a.check[k].gen = a.bootstrap

\* Who is signed in, and by which grant.
MemberOK(s, a) ==
  /\ a.grant \in Known(s) \cup {None}
  /\ IF a.me # Nobody THEN a.top = "home" /\ SpeaksFor(s, a, a.me)
     ELSE a.busy = {} /\ ~a.pending
  /\ a.shows \in {Nobody, a.me}
  /\ a.top = "login" => ~a.retry
  /\ a.leaving => a.top = "login"
  /\ (a.me = Nobody /\ a.top = "home") => ~a.paused

\* A request belongs to the session, and goes out with its member's grant.
RequestsOK(s, a) ==
  \A t \in Requests : a.request[t].at # "none" =>
    /\ a.me # Nobody /\ a.request[t].gen = a.session /\ a.request[t].by = a.me
    /\ a.request[t].at = "sent" =>
         a.request[t].grant \in Known(s) /\ OwnerIn(s, a.request[t].grant) = a.me

\* Of nobody, one task restores the session; of a member, tasks recheck it.
ChecksOK(s, a) ==
  /\ \A k \in Checks : a.check[k].at # "none" =>
       /\ a.check[k].gen <= a.bootstrap
       /\ a.check[k].at = "verifying" => a.check[k].source \in Known(s)
  /\ \A k \in Checks : Decides(a, k) =>
       /\ a.top = "home"
       /\ IF a.me = Nobody THEN a.check[k].at = "restoring" /\ ~a.retry
                           ELSE a.check[k].at # "restoring"
  /\ \A k, l \in Checks : a.me = Nobody /\ Decides(a, k) /\ Decides(a, l) => k = l

\* A login flow runs on the Login screen, with no sign-out before it.
FlowOK(a) ==
  a.flow.at # "none" =>
    /\ a.flow.gen = a.login /\ a.top = "login" /\ ~a.leaving
    /\ a.flow.at = "verifying" => ~a.paused

AppOK(s, a) == a \in App /\ MemberOK(s, a) /\ RequestsOK(s, a) /\ ChecksOK(s, a) /\ FlowOK(a)

\* A message with a grant of the server's.
Carries(s, m) == m.grant \in Known(s)

\* What message m may still do when terminal a handles it.
Heard(s, a, m) ==
  /\ m \in Message
  /\ m.kind = "result" => m.gen <= a.session
  /\ m.kind \in {"bootstrap", "verified"} => m.gen <= a.bootstrap
  /\ m.kind = "login" => m.gen <= a.login
  /\ m.kind = "result" => m.task \in Requests
  /\ m.kind = "verified" => m.result = "ok" /\ Carries(s, m)
  /\ IsResult(a, m) =>
       a.me # Nobody /\ (m.result = "ok" => Carries(s, m) /\ OwnerIn(s, m.grant) = a.me)
  /\ IsVerdict(a, m) =>
       /\ a.top = "home"
       /\ IF a.me = Nobody
          THEN /\ m.kind = "bootstrap" /\ ~a.retry /\ \A k \in Checks : ~Decides(a, k)
               /\ m.result = "ok" => Carries(s, m) /\ SpeaksFor(s, a, OwnerIn(s, m.grant))
          ELSE m.kind = "bootstrap" => m.result # "ok"
  /\ IsLogin(a, m) =>
       /\ a.top = "login" /\ a.flow.at = "none" /\ ~a.leaving
       /\ m.result \in {"ok", "fails"} => ~a.paused
       /\ m.result = "ok" => Carries(s, m) /\ SpeaksFor(s, a, OwnerIn(s, m.grant))

\* The messages of queue q.
Sent(q) == {q[i] : i \in DOMAIN q}

\* A login ends once, and so does a restore.
OneVerdict(a, q) ==
  \A i, j \in DOMAIN q :
    \/ IsLogin(a, q[i]) /\ IsLogin(a, q[j])
    \/ a.me = Nobody /\ IsVerdict(a, q[i]) /\ IsVerdict(a, q[j])
    => i = j

QueueOK(s, a, q) == q \in Seq(Message) /\ (\A m \in Sent(q) : Heard(s, a, m)) /\ OneVerdict(a, q)

\* What keeps the terminal going: SignOutEnds, NeverStuck, NothingWaitsForever.
Leaves(a, q) ==
  \/ \E o \in Logouts : a.signout[o].at # "none" /\ a.signout[o].gen = a.session
  \/ \E m \in Sent(q) : IsSignOut(a, m)
Coming(a, q) == (\E k \in Checks : Decides(a, k)) \/ \E m \in Sent(q) : IsVerdict(a, m)
Awaited(a, q, t) ==
  \/ a.request[t].at # "none" /\ a.request[t].gen = a.session
  \/ \E m \in Sent(q) : IsResult(a, m) /\ m.task = t

Moving(a, q) ==
  /\ a.leaving => Leaves(a, q)
  /\ (a.me # Nobody /\ a.paused) => a.retry \/ Coming(a, q)
  /\ (a.me = Nobody /\ a.top = "home") => a.retry \/ Coming(a, q)
  /\ a.pending => Coming(a, q)

Sound(s, a, q) == AppOK(s, a) /\ QueueOK(s, a, q) /\ Moving(a, q)
Fine(s, a, q) == Sound(s, a, q) /\ \A t \in a.busy : Awaited(a, q, t)

IInv ==
  /\ ServerOK(server) /\ file \in Known(server) \cup {None}
  /\ Fine(server, app, queue)

----------------------------------------------------------------------------
\* What the handlers do, field by field.
LEMMA AppFields ==
  ASSUME NEW a \in App
  PROVE  /\ a.me \in Accounts \cup {Nobody} /\ a.top \in {"home", "login"}
         /\ a.session \in Nat /\ a.bootstrap \in Nat /\ a.login \in Nat
         /\ a.tried \in BOOLEAN /\ a.pending \in BOOLEAN /\ a.retry \in BOOLEAN
         /\ a.leaving \in BOOLEAN /\ a.grant \in Grants \cup {None} /\ a.paused \in BOOLEAN
         /\ a.busy \in SUBSET Requests /\ a.shows \in Accounts \cup {Nobody}
         /\ a.request \in [Requests -> Request] /\ a.check \in [Checks -> Check]
         /\ a.flow \in Login /\ a.signout \in [Logouts -> SignOut]
BY DEF App

\* The records that stand for no task are tasks that do nothing.
LEMMA NoTasks ==
  /\ NoRequest \in Request /\ NoCheck \in Check /\ NoLogin \in Login /\ NoSignOut \in SignOut
  /\ NoRequest.at = "none" /\ NoCheck.at = "none" /\ NoLogin.at = "none" /\ NoSignOut.at = "none"
BY DEF NoRequest, NoCheck, NoLogin, NoSignOut, Request, Check, Login, SignOut, None

\* An aborted check is gone, or dropped with its report still to come.
LEMMA AbortedFields ==
  ASSUME NEW c \in Check
  PROVE  /\ Aborted(c) \in Check
         /\ IF c.at \in {"none", "restoring"} THEN Aborted(c).at = "none"
            ELSE Aborted(c).at = "dropped" /\ Aborted(c).gen = c.gen
BY NoTasks DEF Aborted, Check

\* abort_session_tasks touches loads and checks, and nothing else.
LEMMA AbortSessionTasksFields ==
  ASSUME NEW a \in App
  PROVE  LET b == AbortSessionTasks(a)
         IN  /\ b \in App
             /\ b = [a EXCEPT !.request = b.request, !.check = b.check]
             /\ \A t \in Requests : b.request[t] = IF t \in Loads THEN NoRequest ELSE a.request[t]
             /\ \A k \in Checks : b.check[k] = Aborted(a.check[k])
<1> DEFINE request == [t \in Requests |-> IF t \in Loads THEN NoRequest ELSE a.request[t]]
           check == [k \in Checks |-> Aborted(a.check[k])]
           b == AbortSessionTasks(a)
<1>1. request \in [Requests -> Request] /\ check \in [Checks -> Check]
  BY AppFields, NoTasks, AbortedFields
<1>2. b = [a EXCEPT !.request = request, !.check = check]
  BY DEF AbortSessionTasks, App
<1> HIDE DEF request, check, b
<1>3. b \in App /\ b.request = request /\ b.check = check
  BY <1>1, <1>2 DEF App
<1> QED BY <1>2, <1>3 DEF request, check, b

\* abort_writes touches writes, and nothing else.
LEMMA AbortWritesFields ==
  ASSUME NEW a \in App
  PROVE  LET b == AbortWrites(a)
         IN  /\ b \in App
             /\ b = [a EXCEPT !.request = b.request]
             /\ \A t \in Requests : b.request[t] = IF t \in Writes THEN NoRequest ELSE a.request[t]
<1> DEFINE request == [t \in Requests |-> IF t \in Writes THEN NoRequest ELSE a.request[t]]
           b == AbortWrites(a)
<1>1. request \in [Requests -> Request]
  BY AppFields, NoTasks
<1>2. b = [a EXCEPT !.request = request]
  BY DEF AbortWrites, App
<1> HIDE DEF request, b
<1>3. b \in App /\ b.request = request
  BY <1>1, <1>2 DEF App
<1> QED BY <1>2, <1>3 DEF request, b

\* All of a but its tasks, its generations and what the screens show.
Alike(a, b) ==
  /\ b.login = a.login /\ b.leaving = a.leaving /\ b.grant = a.grant /\ b.paused = a.paused
  /\ b.flow = a.flow /\ b.signout = a.signout

\* begin_session: a new generation without loads; the writes go on.
LEMMA BeginSessionFields ==
  ASSUME NEW a \in App
  PROVE  LET b == BeginSession(a)
         IN  /\ b \in App /\ Alike(a, b)
             /\ b.session = a.session + 1 /\ b.bootstrap = a.bootstrap
             /\ b.me = a.me /\ b.top = a.top /\ b.tried = a.tried /\ b.pending = a.pending
             /\ b.retry = a.retry /\ b.busy = a.busy /\ b.shows = a.shows
             /\ \A t \in Requests : b.request[t] = IF t \in Loads THEN NoRequest ELSE a.request[t]
             /\ \A k \in Checks : b.check[k] = Aborted(a.check[k])
<1> DEFINE c == AbortSessionTasks(a)
           b == BeginSession(a)
<1>1. /\ c \in App /\ c = [a EXCEPT !.request = c.request, !.check = c.check]
      /\ \A t \in Requests : c.request[t] = IF t \in Loads THEN NoRequest ELSE a.request[t]
      /\ \A k \in Checks : c.check[k] = Aborted(a.check[k])
  BY AbortSessionTasksFields
<1>2. b = [c EXCEPT !.session = c.session + 1]
  BY DEF BeginSession, App
<1> HIDE DEF c, b
<1>3. c.session \in Nat
  BY <1>1 DEF App
<1>4. /\ Alike(a, c) /\ c.session = a.session /\ c.bootstrap = a.bootstrap
      /\ c.me = a.me /\ c.top = a.top /\ c.tried = a.tried /\ c.pending = a.pending
      /\ c.retry = a.retry /\ c.busy = a.busy /\ c.shows = a.shows
  BY <1>1 DEF App, Alike
<1>5. /\ b \in App /\ Alike(c, b) /\ b.session = c.session + 1 /\ b.bootstrap = c.bootstrap
      /\ b.me = c.me /\ b.top = c.top /\ b.tried = c.tried /\ b.pending = c.pending
      /\ b.retry = c.retry /\ b.busy = c.busy /\ b.shows = c.shows
      /\ b.request = c.request /\ b.check = c.check
  BY <1>1, <1>2, <1>3 DEF App, Alike
<1> QED BY <1>1, <1>4, <1>5 DEF Alike, b

\* cancel_recovered_session_work: a new generation without requests, and nothing
\* waits for one.
LEMMA CancelRecoveredWorkFields ==
  ASSUME NEW a \in App
  PROVE  LET b == CancelRecoveredWork(a)
         IN  /\ b \in App /\ Alike(a, b)
             /\ b.session = a.session + 1 /\ b.bootstrap = a.bootstrap
             /\ b.me = a.me /\ b.top = a.top /\ b.tried = a.tried /\ b.pending = a.pending
             /\ b.retry = a.retry /\ b.busy = {} /\ b.shows = a.shows
             /\ \A t \in Requests : b.request[t] = NoRequest
             /\ \A k \in Checks : b.check[k] = Aborted(a.check[k])
<1> DEFINE c == AbortWrites(a)
           d == BeginSession(c)
           b == CancelRecoveredWork(a)
<1>1. /\ c \in App /\ c = [a EXCEPT !.request = c.request]
      /\ \A t \in Requests : c.request[t] = IF t \in Writes THEN NoRequest ELSE a.request[t]
  BY AbortWritesFields
<1>2. b = [d EXCEPT !.busy = {}]
  BY DEF CancelRecoveredWork
<1> HIDE DEF c, b
<1>3. /\ Alike(a, c) /\ c.session = a.session /\ c.bootstrap = a.bootstrap
      /\ c.me = a.me /\ c.top = a.top /\ c.tried = a.tried /\ c.pending = a.pending
      /\ c.retry = a.retry /\ c.shows = a.shows /\ c.check = a.check
  BY <1>1 DEF App, Alike
<1>4. /\ d \in App /\ Alike(c, d)
      /\ d.session = c.session + 1 /\ d.bootstrap = c.bootstrap
      /\ d.me = c.me /\ d.top = c.top /\ d.tried = c.tried /\ d.pending = c.pending
      /\ d.retry = c.retry /\ d.shows = c.shows
      /\ \A t \in Requests : d.request[t] = IF t \in Loads THEN NoRequest ELSE c.request[t]
      /\ \A k \in Checks : d.check[k] = Aborted(c.check[k])
  BY <1>1, BeginSessionFields
<1> HIDE DEF d
<1>5. /\ b \in App /\ Alike(d, b) /\ b.session = d.session /\ b.bootstrap = d.bootstrap
      /\ b.me = d.me /\ b.top = d.top /\ b.tried = d.tried /\ b.pending = d.pending
      /\ b.retry = d.retry /\ b.busy = {} /\ b.shows = d.shows
      /\ b.request = d.request /\ b.check = d.check
  BY <1>2, <1>4 DEF App, Alike
<1>6. \A t \in Requests : b.request[t] = NoRequest
  BY <1>1, <1>4, <1>5 DEF Requests
<1> QED BY <1>3, <1>4, <1>5, <1>6 DEF Alike, b

\* end_session: nobody, the Login screen, and both generations are new.
LEMMA EndSessionFields ==
  ASSUME NEW a \in App
  PROVE  LET b == EndSession(a)
         IN  /\ b \in App /\ Alike(a, b)
             /\ b.session = a.session + 1 /\ b.bootstrap = a.bootstrap + 1
             /\ b.me = Nobody /\ b.top = "login" /\ ~b.tried /\ ~b.pending
             /\ ~b.retry /\ b.busy = {} /\ b.shows = Nobody
             /\ \A t \in Requests : b.request[t] = NoRequest
             /\ \A k \in Checks : b.check[k] = Aborted(a.check[k])
<1> DEFINE c == AbortSessionTasks(a)
           d == AbortWrites(c)
           b == EndSession(a)
<1>1. /\ c \in App /\ c = [a EXCEPT !.request = c.request, !.check = c.check]
      /\ \A t \in Requests : c.request[t] = IF t \in Loads THEN NoRequest ELSE a.request[t]
      /\ \A k \in Checks : c.check[k] = Aborted(a.check[k])
  BY AbortSessionTasksFields
<1>2. b = [d EXCEPT !.bootstrap = d.bootstrap + 1, !.session = d.session + 1,
                    !.me = Nobody, !.shows = Nobody, !.busy = {}, !.top = "login",
                    !.retry = FALSE, !.tried = FALSE, !.pending = FALSE]
  BY DEF EndSession
<1> HIDE DEF c, b
<1>3. Alike(a, c) /\ c.session = a.session /\ c.bootstrap = a.bootstrap
  BY <1>1 DEF App, Alike
<1>4. /\ d \in App /\ d = [c EXCEPT !.request = d.request]
      /\ \A t \in Requests : d.request[t] = IF t \in Writes THEN NoRequest ELSE c.request[t]
  BY <1>1, AbortWritesFields
<1> HIDE DEF d
<1>5. /\ Alike(c, d) /\ d.session = c.session /\ d.bootstrap = c.bootstrap /\ d.check = c.check
      /\ d.session \in Nat /\ d.bootstrap \in Nat
  BY <1>1, <1>4 DEF App, Alike
<1>6. /\ b \in App /\ Alike(d, b) /\ b.session = d.session + 1 /\ b.bootstrap = d.bootstrap + 1
      /\ b.me = Nobody /\ b.top = "login" /\ ~b.tried /\ ~b.pending
      /\ ~b.retry /\ b.busy = {} /\ b.shows = Nobody
      /\ b.request = d.request /\ b.check = d.check
  <2> DEFINE next == d.bootstrap + 1
             session == d.session + 1
             e == [d EXCEPT !.bootstrap = next, !.session = session, !.me = Nobody, !.shows = Nobody]
  <2>1. b = [e EXCEPT !.busy = {}, !.top = "login", !.retry = FALSE, !.tried = FALSE,
                      !.pending = FALSE]
    BY <1>2
  <2>n. next \in Nat /\ session \in Nat
    BY <1>5
  <2> HIDE DEF next, session
  <2>2. /\ e \in App /\ Alike(d, e) /\ e.session = session /\ e.bootstrap = next
        /\ e.me = Nobody /\ e.shows = Nobody /\ e.request = d.request /\ e.check = d.check
    BY <1>4, <2>n DEF App, Alike
  <2> HIDE DEF e
  <2>3. /\ b \in App /\ Alike(e, b) /\ b.session = e.session /\ b.bootstrap = e.bootstrap
        /\ b.me = e.me /\ b.shows = e.shows /\ b.request = e.request /\ b.check = e.check
        /\ b.top = "login" /\ ~b.tried /\ ~b.pending /\ ~b.retry /\ b.busy = {}
    BY <2>1, <2>2 DEF App, Alike
  <2> QED BY <2>2, <2>3 DEF Alike, next, session
<1>7. \A t \in Requests : b.request[t] = NoRequest
  BY <1>1, <1>4, <1>6 DEF Requests
<1> QED BY <1>1, <1>3, <1>5, <1>6, <1>7 DEF Alike, b

\* A new task checks the session under the current generation.
LEMMA CheckingFields ==
  ASSUME NEW a \in App, Free(a.check) # {}, NEW at \in {"asked", "restoring"}
  PROVE  LET b == Checking(a, at)
         IN  \E k \in Checks :
               /\ a.check[k].at = "none"
               /\ b = [a EXCEPT !.check = b.check] /\ b \in App
               /\ b.check[k] = [at |-> at, gen |-> a.bootstrap, source |-> None]
               /\ \A l \in Checks \ {k} : b.check[l] = a.check[l]
<1> DEFINE k == CHOOSE k \in Free(a.check) : TRUE
           new == [at |-> at, gen |-> a.bootstrap, source |-> None]
           check == [a.check EXCEPT ![k] = new]
           b == Checking(a, at)
<1>1. k \in Free(a.check)
  OBVIOUS
<1>2. k \in Checks /\ a.check[k].at = "none"
  BY <1>1, AppFields DEF Free
<1>3. b = [a EXCEPT !.check = check]
  BY DEF Checking
<1> HIDE DEF k, b
<1>4. new \in Check
  BY AppFields DEF Check, None
<1> HIDE DEF new
<1>5. check \in [Checks -> Check] /\ check[k] = new /\ \A l \in Checks \ {k} : check[l] = a.check[l]
  BY <1>2, <1>4, AppFields
<1> HIDE DEF check
<1>6. b \in App /\ b.check = check
  BY <1>3, <1>5 DEF App
<1> QED BY <1>2, <1>3, <1>5, <1>6 DEF b, new

----------------------------------------------------------------------------
\* The server.
Grows(s, t) == Known(s) \subseteq Known(t) /\ \A n \in Known(s) : t.owner[n] = s.owner[n]

\* What a grant says of its owner it goes on saying.
Says(s, a, t, b) == \A u \in Accounts : SpeaksFor(s, a, u) => SpeaksFor(t, b, u)

\* What the server issued: each of its grants belongs to a member.
LEMMA KnownGrants ==
  ASSUME NEW s, ServerOK(s)
  PROVE  /\ Known(s) \subseteq Grants /\ None \notin Known(s) /\ None \notin Grants
         /\ \A n \in Known(s) : OwnerIn(s, n) \in Accounts /\ OwnerIn(s, n) = s.owner[n]
<1>1. s.issued \in 0..MaxGrant /\ MaxGrant \in Nat
  BY SessionAssumption DEF ServerOK
<1>2. Known(s) \subseteq Grants /\ None \notin Known(s) /\ None \notin Grants
  BY <1>1 DEF Known, Grants, None
<1> QED BY <1>2 DEF OwnerIn, ServerOK

\* A new grant belongs to the member it was issued to.
LEMMA MintedServer ==
  ASSUME NEW s, ServerOK(s), s.issued < MaxGrant, NEW u \in Accounts
  PROVE  LET t == Minted(s, u)
         IN  /\ ServerOK(t) /\ Grows(s, t)
             /\ s.issued + 1 \in Known(t) /\ OwnerIn(t, s.issued + 1) = u
<1> DEFINE n == s.issued + 1
           owner == [s.owner EXCEPT ![n] = u]
           t == Minted(s, u)
<1>1. s.issued \in Nat /\ MaxGrant \in Nat /\ n \in Grants /\ n \in 0..MaxGrant
  BY SessionAssumption DEF ServerOK, Grants
<1>2. t = [s EXCEPT !.issued = n, !.owner = owner]
  BY DEF Minted, ServerOK
<1>3. owner \in [Grants -> Accounts \cup {Nobody}]
  BY DEF ServerOK
<1>4. owner[n] = u /\ \A i \in Grants \ {n} : owner[i] = s.owner[i]
  BY <1>1 DEF ServerOK
<1>5. n # None /\ \A i \in Known(s) : i # n /\ i \in Grants
  BY <1>1 DEF Known, None, Grants
<1>6. 1..n = Known(s) \cup {n}
  BY <1>1 DEF Known
<1> HIDE DEF n, owner, t
<1>7. /\ t \in [issued: 0..MaxGrant, owner: [Grants -> Accounts \cup {Nobody}], dead: SUBSET Grants]
      /\ t.issued = n /\ t.owner = owner
  BY <1>1, <1>2, <1>3 DEF ServerOK
<1>8. Known(t) = Known(s) \cup {n}
  BY <1>6, <1>7 DEF Known
<1> QED BY <1>4, <1>5, <1>7, <1>8 DEF ServerOK, Grows, OwnerIn, n, t

\* A rotated grant belongs to the old one's owner.
LEMMA RotatedServer ==
  ASSUME NEW s, ServerOK(s), s.issued < MaxGrant, NEW n \in Known(s)
  PROVE  LET t == Rotated(s, n)
         IN  /\ ServerOK(t) /\ Grows(s, t)
             /\ s.issued + 1 \in Known(t) /\ OwnerIn(t, s.issued + 1) = OwnerIn(s, n)
<1> DEFINE m == Minted(s, s.owner[n])
           t == Rotated(s, n)
<1>1. n \in Grants /\ s.owner[n] \in Accounts /\ OwnerIn(s, n) = s.owner[n]
  BY KnownGrants
<1>2. /\ ServerOK(m) /\ Grows(s, m)
      /\ s.issued + 1 \in Known(m) /\ OwnerIn(m, s.issued + 1) = OwnerIn(s, n)
  BY <1>1, MintedServer
<1>3. t = [m EXCEPT !.dead = m.dead \cup {n}]
  BY DEF Rotated
<1> HIDE DEF m, t
<1>4. ServerOK(t) /\ t.issued = m.issued /\ t.owner = m.owner
  BY <1>1, <1>2, <1>3 DEF ServerOK, Known
<1> QED BY <1>2, <1>4 DEF Grows, Known, OwnerIn, t

\* A revocation leaves what was issued and to whom.
LEMMA KilledServer ==
  ASSUME NEW s, ServerOK(s), NEW gone \in SUBSET Grants
  PROVE  LET t == [s EXCEPT !.dead = s.dead \cup gone]
         IN  ServerOK(t) /\ Grows(s, t)
BY DEF ServerOK, Grows, Known

\* A terminal stays sound while the server only grows.
LEMMA AppGrows ==
  ASSUME NEW s, NEW t, ServerOK(s), ServerOK(t), Grows(s, t), NEW a, AppOK(s, a)
  PROVE  AppOK(t, a) /\ Says(s, a, t, a)
<1>1. \A n \in Known(s) : OwnerIn(t, n) = OwnerIn(s, n) /\ n \in Known(t)
  BY KnownGrants DEF Grows, OwnerIn
<1>2. MemberOK(t, a)
  BY <1>1 DEF AppOK, MemberOK, SpeaksFor
<1>3. RequestsOK(t, a)
  BY <1>1 DEF AppOK, RequestsOK
<1>4. ChecksOK(t, a)
  BY <1>1 DEF AppOK, ChecksOK
<1>5. Says(s, a, t, a)
  BY <1>1 DEF AppOK, MemberOK, Says, SpeaksFor
<1> QED BY <1>2, <1>3, <1>4, <1>5 DEF AppOK

\* A message that waits while a becomes b.
LEMMA StillHeard ==
  ASSUME NEW s, NEW t, ServerOK(s), ServerOK(t), Grows(s, t), NEW a \in App, NEW b \in App,
         NEW m, Heard(s, a, m),
         a.session <= b.session, a.bootstrap <= b.bootstrap, a.login <= b.login,
         IsResult(a, m) => b.session > a.session \/ b.me = a.me,
         IsVerdict(a, m) =>
           \/ b.bootstrap > a.bootstrap
           \/ /\ b.top = "home" /\ (a.me = Nobody <=> b.me = Nobody)
              /\ a.me = Nobody => /\ b.retry => a.retry
                                  /\ \A k \in Checks : Decides(b, k) => Decides(a, k)
                                  /\ Says(s, a, t, b),
         IsLogin(a, m) =>
           \/ b.login > a.login
           \/ /\ b.top = "login" /\ b.flow.at = "none" /\ ~b.leaving
              /\ b.paused => a.paused
              /\ Says(s, a, t, b)
  PROVE  Heard(t, b, m)
<1>n. /\ a.session \in Nat /\ a.bootstrap \in Nat /\ a.login \in Nat
      /\ b.session \in Nat /\ b.bootstrap \in Nat /\ b.login \in Nat
  BY AppFields
<1>m. m \in Message /\ m.gen \in Nat
  BY DEF Heard, Message
<1>1. Carries(s, m) => Carries(t, m) /\ OwnerIn(t, m.grant) = OwnerIn(s, m.grant)
                       /\ OwnerIn(s, m.grant) \in Accounts
  BY KnownGrants DEF Carries, Grows, OwnerIn
<1>2. IsResult(b, m) => IsResult(a, m) /\ b.session = a.session
  BY <1>n, <1>m DEF IsResult, Heard
<1>3. IsVerdict(b, m) => IsVerdict(a, m) /\ b.bootstrap = a.bootstrap
  BY <1>n, <1>m DEF IsVerdict, Heard
<1>4. IsLogin(b, m) => IsLogin(a, m) /\ b.login = a.login
  BY <1>n, <1>m DEF IsLogin, Heard
<1>5. /\ m.kind = "result" => m.gen <= b.session
      /\ m.kind \in {"bootstrap", "verified"} => m.gen <= b.bootstrap
      /\ m.kind = "login" => m.gen <= b.login
  BY <1>n, <1>m DEF Heard
<1>6. /\ m.kind = "result" => m.task \in Requests
      /\ m.kind = "verified" => m.result = "ok" /\ Carries(t, m)
  BY <1>1 DEF Heard
<1>7. IsResult(b, m) => b.me # Nobody /\ (m.result = "ok" => Carries(t, m) /\ OwnerIn(t, m.grant) = b.me)
  BY <1>1, <1>2, <1>n DEF Heard
<1>8. IsVerdict(b, m) =>
        /\ b.top = "home"
        /\ IF b.me = Nobody
           THEN /\ m.kind = "bootstrap" /\ ~b.retry /\ \A k \in Checks : ~Decides(b, k)
                /\ m.result = "ok" => Carries(t, m) /\ SpeaksFor(t, b, OwnerIn(t, m.grant))
           ELSE m.kind = "bootstrap" => m.result # "ok"
  <2> SUFFICES ASSUME IsVerdict(b, m)
               PROVE  /\ b.top = "home"
                      /\ IF b.me = Nobody
                         THEN /\ m.kind = "bootstrap" /\ ~b.retry /\ \A k \in Checks : ~Decides(b, k)
                              /\ m.result = "ok" =>
                                   Carries(t, m) /\ SpeaksFor(t, b, OwnerIn(t, m.grant))
                         ELSE m.kind = "bootstrap" => m.result # "ok"
    OBVIOUS
  <2>1. IsVerdict(a, m) /\ b.top = "home" /\ (a.me = Nobody <=> b.me = Nobody)
        /\ (a.me = Nobody => /\ b.retry => a.retry
                             /\ \A k \in Checks : Decides(b, k) => Decides(a, k)
                             /\ Says(s, a, t, b))
    BY <1>3, <1>n
  <2>2. CASE b.me = Nobody
    <3>1. /\ m.kind = "bootstrap" /\ ~a.retry /\ \A k \in Checks : ~Decides(a, k)
          /\ m.result = "ok" => Carries(s, m) /\ SpeaksFor(s, a, OwnerIn(s, m.grant))
      BY <2>1, <2>2 DEF Heard
    <3> QED BY <1>1, <2>1, <2>2, <3>1 DEF Says
  <2>3. CASE b.me # Nobody
    BY <2>1, <2>3 DEF Heard
  <2> QED BY <2>2, <2>3, <2>1
<1>9. IsLogin(b, m) =>
        /\ b.top = "login" /\ b.flow.at = "none" /\ ~b.leaving
        /\ m.result \in {"ok", "fails"} => ~b.paused
        /\ m.result = "ok" => Carries(t, m) /\ SpeaksFor(t, b, OwnerIn(t, m.grant))
  <2> SUFFICES ASSUME IsLogin(b, m)
               PROVE  /\ b.top = "login" /\ b.flow.at = "none" /\ ~b.leaving
                      /\ m.result \in {"ok", "fails"} => ~b.paused
                      /\ m.result = "ok" => Carries(t, m) /\ SpeaksFor(t, b, OwnerIn(t, m.grant))
    OBVIOUS
  <2>1. IsLogin(a, m) /\ b.top = "login" /\ b.flow.at = "none" /\ ~b.leaving
        /\ (b.paused => a.paused) /\ Says(s, a, t, b)
    BY <1>4, <1>n
  <2>2. /\ m.result \in {"ok", "fails"} => ~a.paused
        /\ m.result = "ok" => Carries(s, m) /\ SpeaksFor(s, a, OwnerIn(s, m.grant))
    BY <2>1 DEF Heard
  <2> QED BY <1>1, <2>1, <2>2 DEF Says
<1> QED BY <1>m, <1>5, <1>6, <1>7, <1>8, <1>9 DEF Heard

\* The queue.
LEMMA Queued ==
  ASSUME NEW q \in Seq(Message), NEW m \in Message
  PROVE  LET p == Append(q, m)
         IN  /\ p \in Seq(Message) /\ Sent(p) = Sent(q) \cup {m}
             /\ \A i \in DOMAIN p : \/ i \in DOMAIN q /\ p[i] = q[i] /\ q[i] \in Sent(q)
                                    \/ i = Len(q) + 1 /\ p[i] = m
<1> DEFINE p == Append(q, m)
<1>1. /\ p \in Seq(Message) /\ Len(p) = Len(q) + 1 /\ Len(q) \in Nat
      /\ DOMAIN p = 1..Len(p) /\ DOMAIN q = 1..Len(q)
      /\ \A i \in 1..Len(q) : p[i] = q[i]
      /\ p[Len(q) + 1] = m
  BY AppendProperties
<1> HIDE DEF p
<1>2. \A i \in DOMAIN p : i \in DOMAIN q \/ i = Len(q) + 1
  BY <1>1
<1>3. DOMAIN q \subseteq DOMAIN p /\ Len(q) + 1 \in DOMAIN p
  BY <1>1
<1>4. Sent(p) \subseteq Sent(q) \cup {m}
  BY <1>1, <1>2 DEF Sent
<1>5. Sent(q) \cup {m} \subseteq Sent(p)
  BY <1>1, <1>3 DEF Sent
<1> QED BY <1>1, <1>2, <1>4, <1>5 DEF p, Sent

\* A message is taken off the queue.
LEMMA Handled ==
  ASSUME NEW q \in Seq(Message), q # <<>>
  PROVE  LET p == Tail(q)
         IN  /\ p \in Seq(Message) /\ Head(q) \in Sent(q) /\ Sent(p) \subseteq Sent(q)
             /\ \A m \in Sent(q) : m = Head(q) \/ m \in Sent(p)
             /\ \A i \in DOMAIN p : p[i] = q[i + 1] /\ i + 1 \in DOMAIN q /\ i + 1 # 1
             /\ 1 \in DOMAIN q /\ Head(q) = q[1]
<1> DEFINE p == Tail(q)
<1>1. /\ Len(q) \in Nat \ {0} /\ DOMAIN q = 1..Len(q) /\ Head(q) = q[1]
      /\ p \in Seq(Message) /\ Len(p) = Len(q) - 1 /\ DOMAIN p = 1..Len(p)
      /\ \A i \in 1..Len(p) : p[i] = q[i + 1]
  BY HeadTailProperties, LenProperties
<1> HIDE DEF p
<1>2. \A i \in DOMAIN p : p[i] = q[i + 1] /\ i + 1 \in DOMAIN q /\ i + 1 # 1
  BY <1>1
<1>3. 1 \in DOMAIN q
  BY <1>1
<1>4. \A i \in DOMAIN q : i = 1 \/ (i - 1 \in DOMAIN p /\ q[i] = p[i - 1])
  <2> TAKE i \in DOMAIN q
  <2>1. i \in 1..Len(q)
    BY <1>1
  <2>2. CASE i # 1
    <3>1. i - 1 \in 1..Len(p) /\ (i - 1) + 1 = i
      BY <1>1, <2>1, <2>2
    <3> QED BY <1>1, <3>1
  <2> QED BY <2>2
<1>5. Head(q) \in Sent(q)
  BY <1>1, <1>3 DEF Sent
<1>6. Sent(p) \subseteq Sent(q)
  BY <1>2 DEF Sent
<1>7. \A m \in Sent(q) : m = Head(q) \/ m \in Sent(p)
  BY <1>1, <1>4 DEF Sent
<1> QED BY <1>1, <1>2, <1>3, <1>5, <1>6, <1>7 DEF p

----------------------------------------------------------------------------
\* While a becomes b, message m loses its meaning or keeps it.
Lasts(s, a, t, b, m) ==
  /\ IsResult(a, m) => b.session > a.session \/ b.me = a.me
  /\ IsVerdict(a, m) =>
       \/ b.bootstrap > a.bootstrap
       \/ /\ b.top = "home" /\ (a.me = Nobody <=> b.me = Nobody)
          /\ a.me = Nobody => /\ b.retry => a.retry
                              /\ \A k \in Checks : Decides(b, k) => Decides(a, k)
                              /\ Says(s, a, t, b)
  /\ IsLogin(a, m) =>
       \/ b.login > a.login
       \/ /\ b.top = "login" /\ b.flow.at = "none" /\ ~b.leaving
          /\ b.paused => a.paused
          /\ Says(s, a, t, b)

\* No generation goes back.
Later(a, b) == a.session <= b.session /\ a.bootstrap <= b.bootstrap /\ a.login <= b.login

\* The queue is still sound for b, if all of it lasts.
LEMMA QueueStays ==
  ASSUME NEW s, NEW t, ServerOK(s), ServerOK(t), Grows(s, t), NEW a \in App, NEW b \in App,
         NEW q, QueueOK(s, a, q), Later(a, b), \A m \in Sent(q) : Lasts(s, a, t, b, m)
  PROVE  QueueOK(t, b, q)
<1>1. \A m \in Sent(q) : Heard(t, b, m)
  BY StillHeard DEF QueueOK, Later, Lasts
<1>n. /\ a.session \in Nat /\ a.bootstrap \in Nat /\ a.login \in Nat
      /\ b.session \in Nat /\ b.bootstrap \in Nat /\ b.login \in Nat
  BY AppFields
<1>2. ASSUME NEW m \in Sent(q)
      PROVE  /\ IsLogin(b, m) => IsLogin(a, m)
             /\ b.me = Nobody /\ IsVerdict(b, m) => a.me = Nobody /\ IsVerdict(a, m)
  <2>1. Heard(s, a, m) /\ m.gen \in Nat /\ Lasts(s, a, t, b, m)
    BY DEF QueueOK, Heard, Message
  <2>2. IsLogin(b, m) => IsLogin(a, m)
    BY <2>1, <1>n DEF IsLogin, Heard, Later
  <2>3. IsVerdict(b, m) => IsVerdict(a, m) /\ b.bootstrap = a.bootstrap
    BY <2>1, <1>n DEF IsVerdict, Heard, Later
  <2> QED BY <1>n, <2>1, <2>2, <2>3 DEF Lasts
<1>3. \A i \in DOMAIN q : q[i] \in Sent(q)
  BY DEF Sent
<1>4. OneVerdict(b, q)
  BY <1>2, <1>3 DEF QueueOK, OneVerdict
<1> QED BY <1>1, <1>4 DEF QueueOK

\* A message joins the queue, the only verdict of its kind where there may be one.
LEMMA QueueGrows ==
  ASSUME NEW s, NEW a, NEW q, QueueOK(s, a, q), NEW m, Heard(s, a, m),
         IsLogin(a, m) => \A x \in Sent(q) : ~IsLogin(a, x),
         a.me = Nobody /\ IsVerdict(a, m) => \A x \in Sent(q) : ~IsVerdict(a, x)
  PROVE  QueueOK(s, a, Append(q, m)) /\ Sent(Append(q, m)) = Sent(q) \cup {m}
<1> DEFINE p == Append(q, m)
<1>1. q \in Seq(Message) /\ m \in Message
  BY DEF QueueOK, Heard
<1>2. /\ p \in Seq(Message) /\ Sent(p) = Sent(q) \cup {m}
      /\ \A i \in DOMAIN p : \/ i \in DOMAIN q /\ p[i] = q[i] /\ q[i] \in Sent(q)
                             \/ i = Len(q) + 1 /\ p[i] = m
  BY <1>1, Queued
<1> HIDE DEF p
<1>3. \A x \in Sent(p) : Heard(s, a, x)
  BY <1>2 DEF QueueOK
<1>4. OneVerdict(a, p)
  <2> SUFFICES ASSUME NEW i \in DOMAIN p, NEW j \in DOMAIN p,
                      \/ IsLogin(a, p[i]) /\ IsLogin(a, p[j])
                      \/ a.me = Nobody /\ IsVerdict(a, p[i]) /\ IsVerdict(a, p[j])
               PROVE  i = j
    BY DEF OneVerdict
  <2>1. CASE i \in DOMAIN q /\ p[i] = q[i] /\ q[i] \in Sent(q)
    <3>1. CASE j \in DOMAIN q /\ p[j] = q[j] /\ q[j] \in Sent(q)
      BY <2>1, <3>1 DEF QueueOK, OneVerdict
    <3>2. CASE j = Len(q) + 1 /\ p[j] = m
      BY <2>1, <3>2
    <3> QED BY <1>2, <3>1, <3>2
  <2>2. CASE i = Len(q) + 1 /\ p[i] = m
    <3>1. CASE j \in DOMAIN q /\ p[j] = q[j] /\ q[j] \in Sent(q)
      BY <2>2, <3>1
    <3>2. CASE j = Len(q) + 1 /\ p[j] = m
      BY <2>2, <3>2
    <3> QED BY <1>2, <3>1, <3>2
  <2> QED BY <1>2, <2>1, <2>2
<1> QED BY <1>2, <1>3, <1>4 DEF QueueOK, p

\* The rest of the queue, and the message before it.
LEMMA QueueShrinks ==
  ASSUME NEW s, NEW a, NEW q, QueueOK(s, a, q), q # <<>>
  PROVE  LET m == Head(q)  p == Tail(q)
         IN  /\ QueueOK(s, a, p) /\ Heard(s, a, m)
             /\ IsLogin(a, m) => \A x \in Sent(p) : ~IsLogin(a, x)
             /\ a.me = Nobody /\ IsVerdict(a, m) => \A x \in Sent(p) : ~IsVerdict(a, x)
             /\ \A x \in Sent(q) : x = m \/ x \in Sent(p)
<1> DEFINE m == Head(q)
           p == Tail(q)
<1>1. /\ p \in Seq(Message) /\ m \in Sent(q) /\ Sent(p) \subseteq Sent(q)
      /\ \A x \in Sent(q) : x = m \/ x \in Sent(p)
      /\ \A i \in DOMAIN p : p[i] = q[i + 1] /\ i + 1 \in DOMAIN q /\ i + 1 # 1
      /\ 1 \in DOMAIN q /\ m = q[1]
  BY Handled DEF QueueOK
<1>2. DOMAIN p \subseteq Nat
  BY <1>1, LenProperties
<1> HIDE DEF m, p
<1>3. OneVerdict(a, p)
  <2> SUFFICES ASSUME NEW i \in DOMAIN p, NEW j \in DOMAIN p,
                      \/ IsLogin(a, p[i]) /\ IsLogin(a, p[j])
                      \/ a.me = Nobody /\ IsVerdict(a, p[i]) /\ IsVerdict(a, p[j])
               PROVE  i = j
    BY DEF OneVerdict
  <2>1. i + 1 = j + 1
    BY <1>1 DEF QueueOK, OneVerdict
  <2> QED BY <1>2, <2>1
<1>4. ASSUME NEW x \in Sent(p)
      PROVE  /\ ~(IsLogin(a, m) /\ IsLogin(a, x))
             /\ ~(a.me = Nobody /\ IsVerdict(a, m) /\ IsVerdict(a, x))
  <2>1. PICK i \in DOMAIN p : x = p[i]
    BY DEF Sent
  <2>2. x = q[i + 1] /\ i + 1 \in DOMAIN q /\ i + 1 # 1
    BY <1>1, <2>1
  <2> QED BY <1>1, <2>2 DEF QueueOK, OneVerdict
<1> QED BY <1>1, <1>3, <1>4 DEF QueueOK, m, p

----------------------------------------------------------------------------
\* A step that leaves the member, the screen and the generations alone.
Calm(s, a, t, b) ==
  /\ b.session = a.session /\ b.bootstrap = a.bootstrap /\ b.login = a.login
  /\ b.me = a.me /\ b.top = a.top /\ b.retry = a.retry /\ b.leaving = a.leaving
  /\ b.paused = a.paused /\ b.flow = a.flow /\ b.pending = a.pending
  /\ Says(s, a, t, b)

\* A calm step lets the whole queue last.
LEMMA CalmQueue ==
  ASSUME NEW s, NEW t, ServerOK(s), ServerOK(t), Grows(s, t), NEW a \in App, NEW b \in App,
         NEW q, QueueOK(s, a, q), Calm(s, a, t, b),
         \A k \in Checks : Decides(b, k) => Decides(a, k)
  PROVE  QueueOK(t, b, q)
<1>1. Later(a, b)
  BY AppFields DEF Calm, Later
<1>2. ASSUME NEW m \in Sent(q) PROVE Lasts(s, a, t, b, m)
  BY DEF QueueOK, Heard, Calm, Lasts
<1> QED BY <1>1, <1>2, QueueStays

\* A calm step keeps the terminal going, if what ended has reported.
LEMMA CalmMoving ==
  ASSUME NEW s, NEW t, NEW a, NEW b, NEW q, NEW p,
         Calm(s, a, t, b), Moving(a, q), Sent(q) \subseteq Sent(p),
         \A o \in Logouts : a.signout[o].at # "none" /\ a.signout[o].gen = a.session
                              => Leaves(b, p),
         \A k \in Checks : Decides(a, k) => Coming(b, p)
  PROVE  Moving(b, p)
<1>1. \A m : /\ IsVerdict(b, m) <=> IsVerdict(a, m)
             /\ IsSignOut(b, m) <=> IsSignOut(a, m)
  BY DEF Calm, IsVerdict, IsSignOut
<1>2. Leaves(a, q) => Leaves(b, p)
  BY <1>1 DEF Leaves
<1>3. Coming(a, q) => Coming(b, p)
  BY <1>1 DEF Coming
<1> QED BY <1>2, <1>3 DEF Calm, Moving

\* What a screen waits for is not lost by a step that leaves its request alone.
LEMMA StillAwaited ==
  ASSUME NEW a, NEW b, b.session = a.session, NEW q, NEW p, Sent(q) \subseteq Sent(p),
         NEW t, Awaited(a, q, t), b.request[t] = a.request[t]
  PROVE  Awaited(b, p, t)
BY DEF Awaited, IsResult

\* Nothing that decides is waited for once it is gone.
LEMMA SameChecks ==
  ASSUME NEW s, NEW t, NEW a, NEW b, b.check = a.check, b.bootstrap = a.bootstrap
  PROVE  \A k : Decides(b, k) <=> Decides(a, k)
BY DEF Decides

----------------------------------------------------------------------------
\* The same server.
LEMMA SameServer ==
  ASSUME NEW s, ServerOK(s)
  PROVE  Grows(s, s) /\ \A a : Says(s, a, s, a)
BY DEF Grows, Says

\* The client drops its grant.
LEMMA Forgets ==
  ASSUME NEW s, ServerOK(s), NEW a, NEW q, Fine(s, a, q)
  PROVE  Fine(s, [a EXCEPT !.grant = None], q)
<1> DEFINE b == [a EXCEPT !.grant = None]
<1>0. a \in App
  BY DEF Fine, Sound, AppOK
<1>1. /\ b \in App /\ b.grant = None /\ b.request = a.request /\ b.check = a.check
      /\ b.session = a.session /\ b.bootstrap = a.bootstrap /\ b.login = a.login
      /\ b.me = a.me /\ b.top = a.top /\ b.retry = a.retry /\ b.leaving = a.leaving
      /\ b.paused = a.paused /\ b.flow = a.flow /\ b.pending = a.pending
      /\ b.busy = a.busy /\ b.shows = a.shows /\ b.signout = a.signout
  BY <1>0 DEF App
<1> HIDE DEF b
<1>2. Calm(s, a, s, b)
  BY <1>1 DEF Calm, Says, SpeaksFor
<1>3. \A k : Decides(b, k) <=> Decides(a, k)
  BY <1>1, SameChecks
<1>4. AppOK(s, b)
  <2>1. MemberOK(s, b)
    BY <1>1 DEF Fine, Sound, AppOK, MemberOK, SpeaksFor
  <2>2. RequestsOK(s, b)
    BY <1>1 DEF Fine, Sound, AppOK, RequestsOK
  <2>3. ChecksOK(s, b)
    BY <1>1, <1>3 DEF Fine, Sound, AppOK, ChecksOK
  <2>4. FlowOK(b)
    BY <1>1 DEF Fine, Sound, AppOK, FlowOK
  <2> QED BY <1>1, <2>1, <2>2, <2>3, <2>4 DEF AppOK
<1>5. QueueOK(s, b, q)
  BY <1>0, <1>1, <1>2, <1>3, SameServer, CalmQueue DEF Fine, Sound
<1>6. Moving(b, q)
  <2>1. \A o \in Logouts : a.signout[o].at # "none" /\ a.signout[o].gen = a.session
                              => Leaves(b, q)
    BY <1>1 DEF Leaves
  <2>2. \A k \in Checks : Decides(a, k) => Coming(b, q)
    BY <1>3 DEF Coming
  <2> QED BY <1>2, <2>1, <2>2, CalmMoving DEF Fine, Sound
<1>7. \A t \in b.busy : Awaited(b, q, t)
  BY <1>1, StillAwaited DEF Fine
<1> QED BY <1>4, <1>5, <1>6, <1>7 DEF Fine, Sound, b

\* A verdict came: the window of the recheck closes.
LEMMA Closes ==
  ASSUME NEW s, ServerOK(s), NEW a, AppOK(s, a), NEW q, QueueOK(s, a, q)
  PROVE  LET b == [a EXCEPT !.pending = FALSE]
         IN  /\ AppOK(s, b) /\ QueueOK(s, b, q)
             /\ b.session = a.session /\ b.bootstrap = a.bootstrap /\ b.login = a.login
             /\ b.me = a.me /\ b.top = a.top /\ b.retry = a.retry /\ b.leaving = a.leaving
             /\ b.paused = a.paused /\ b.flow = a.flow /\ ~b.pending
             /\ b.tried = a.tried /\ b.grant = a.grant
             /\ b.busy = a.busy /\ b.shows = a.shows /\ b.signout = a.signout
             /\ b.request = a.request /\ b.check = a.check
<1> DEFINE b == [a EXCEPT !.pending = FALSE]
<1>0. a \in App
  BY DEF AppOK
<1>1. /\ b \in App /\ b.request = a.request /\ b.check = a.check
      /\ b.session = a.session /\ b.bootstrap = a.bootstrap /\ b.login = a.login
      /\ b.me = a.me /\ b.top = a.top /\ b.retry = a.retry /\ b.leaving = a.leaving
      /\ b.paused = a.paused /\ b.flow = a.flow /\ ~b.pending
      /\ b.tried = a.tried /\ b.grant = a.grant
      /\ b.busy = a.busy /\ b.shows = a.shows /\ b.signout = a.signout
  BY <1>0 DEF App
<1> HIDE DEF b
<1>3. \A k : Decides(b, k) <=> Decides(a, k)
  BY <1>1, SameChecks
<1>4. AppOK(s, b)
  <2>1. MemberOK(s, b)
    BY <1>1 DEF AppOK, MemberOK, SpeaksFor
  <2>2. RequestsOK(s, b)
    BY <1>1 DEF AppOK, RequestsOK
  <2>3. ChecksOK(s, b)
    BY <1>1, <1>3 DEF AppOK, ChecksOK
  <2>4. FlowOK(b)
    BY <1>1 DEF AppOK, FlowOK
  <2> QED BY <1>1, <2>1, <2>2, <2>3, <2>4 DEF AppOK
<1>5. Later(a, b)
  BY <1>0, <1>1, AppFields DEF Later
<1>6. ASSUME NEW m \in Sent(q) PROVE Lasts(s, a, s, b, m)
  BY <1>1, <1>3 DEF QueueOK, Heard, Says, SpeaksFor, Lasts
<1>7. QueueOK(s, b, q)
  BY <1>0, <1>1, <1>5, <1>6, SameServer, QueueStays
<1> QED BY <1>1, <1>4, <1>7 DEF b

\* The session ends: nothing is waited for, and nothing that is under way counts.
LEMMA Ends ==
  ASSUME NEW s, ServerOK(s), NEW a, AppOK(s, a), NEW q, QueueOK(s, a, q), a.top = "home"
  PROVE  Fine(s, EndSession(a), q)
<1> DEFINE b == EndSession(a)
<1>0. a \in App /\ a.session \in Nat /\ a.bootstrap \in Nat /\ a.login \in Nat
  BY AppFields DEF AppOK
<1>1. /\ b \in App /\ Alike(a, b)
      /\ b.session = a.session + 1 /\ b.bootstrap = a.bootstrap + 1
      /\ b.me = Nobody /\ b.top = "login" /\ ~b.tried /\ ~b.pending
      /\ ~b.retry /\ b.busy = {} /\ b.shows = Nobody
      /\ \A t \in Requests : b.request[t] = NoRequest
      /\ \A k \in Checks : b.check[k] = Aborted(a.check[k])
  BY <1>0, EndSessionFields
<1> HIDE DEF b
<1>2. ~a.leaving /\ a.flow.at = "none"
  BY DEF AppOK, MemberOK, FlowOK
<1>3. MemberOK(s, b)
  BY <1>1, <1>2 DEF AppOK, MemberOK, Alike
<1>4. RequestsOK(s, b)
  BY <1>1, NoTasks DEF RequestsOK
<1>5. ASSUME NEW k \in Checks, b.check[k].at # "none"
      PROVE  /\ b.check[k].at = "dropped" /\ b.check[k].gen \in Nat
             /\ b.check[k].gen <= a.bootstrap
  <2>1. a.check[k] \in Check
    BY <1>0, AppFields
  <2>2. a.check[k].at \notin {"none", "restoring"} /\ b.check[k].at = "dropped"
        /\ b.check[k].gen = a.check[k].gen
    BY <1>1, <1>5, <2>1, AbortedFields
  <2> QED BY <2>1, <2>2 DEF AppOK, ChecksOK, Check
<1>6. ChecksOK(s, b)
  BY <1>0, <1>1, <1>5 DEF ChecksOK, Decides
<1>7. FlowOK(b)
  BY <1>1, <1>2 DEF FlowOK, Alike
<1>8. QueueOK(s, b, q)
  <2>1. Later(a, b)
    BY <1>0, <1>1 DEF Later, Alike
  <2>2. ASSUME NEW m \in Sent(q) PROVE Lasts(s, a, s, b, m)
    BY <1>0, <1>1 DEF QueueOK, Heard, Lasts
  <2> QED BY <1>0, <1>1, <2>1, <2>2, SameServer, QueueStays
<1>9. Moving(b, q)
  BY <1>1, <1>2 DEF Moving, Alike
<1> QED BY <1>1, <1>3, <1>4, <1>6, <1>7, <1>8, <1>9 DEF Fine, Sound, AppOK, b

\* A task begins to check the session: of nobody, it restores the stored one; of a
\* member, it asks for the one on disk.
LEMMA Checked ==
  ASSUME NEW s, ServerOK(s), NEW a, AppOK(s, a), NEW q, QueueOK(s, a, q),
         Free(a.check) # {}, NEW at \in {"asked", "restoring"}, a.top = "home",
         IF a.me = Nobody
         THEN at = "restoring" /\ ~a.retry /\ ~Coming(a, q)
         ELSE at = "asked"
  PROVE  LET b == Checking(a, at)
         IN  /\ Sound(s, b, q) /\ Coming(b, q)
             /\ b = [a EXCEPT !.check = b.check]
<1> DEFINE b == Checking(a, at)
<1>0. a \in App /\ a.bootstrap \in Nat
  BY AppFields DEF AppOK
<1>1. PICK k \in Checks :
         /\ a.check[k].at = "none"
         /\ b = [a EXCEPT !.check = b.check] /\ b \in App
         /\ b.check[k] = [at |-> at, gen |-> a.bootstrap, source |-> None]
         /\ \A l \in Checks \ {k} : b.check[l] = a.check[l]
  BY <1>0, CheckingFields
<1> HIDE DEF b
<1>2. /\ b.request = a.request
      /\ b.session = a.session /\ b.bootstrap = a.bootstrap /\ b.login = a.login
      /\ b.me = a.me /\ b.top = a.top /\ b.retry = a.retry /\ b.leaving = a.leaving
      /\ b.paused = a.paused /\ b.flow = a.flow /\ b.pending = a.pending
      /\ b.busy = a.busy /\ b.shows = a.shows /\ b.signout = a.signout /\ b.grant = a.grant
  BY <1>0, <1>1 DEF App
<1>3. Decides(b, k) /\ b.check[k].at = at
  BY <1>1, <1>2 DEF Decides
<1>4. \A l \in Checks \ {k} : /\ b.check[l] = a.check[l]
                              /\ Decides(b, l) => Decides(a, l)
  BY <1>1, <1>2 DEF Decides
<1>5. MemberOK(s, b)
  BY <1>2 DEF AppOK, MemberOK, SpeaksFor
<1>6. RequestsOK(s, b)
  BY <1>2 DEF AppOK, RequestsOK
<1>7. ChecksOK(s, b)
  <2>1. ASSUME NEW l \in Checks, b.check[l].at # "none"
        PROVE  /\ b.check[l].gen <= b.bootstrap
               /\ b.check[l].at = "verifying" => b.check[l].source \in Known(s)
    BY <1>0, <1>1, <1>2, <1>4, <2>1 DEF AppOK, ChecksOK
  <2>2. ASSUME NEW l \in Checks, Decides(b, l)
        PROVE  IF b.me = Nobody THEN b.check[l].at = "restoring" /\ ~b.retry
                                ELSE b.check[l].at # "restoring"
    BY <1>2, <1>3, <1>4, <2>2 DEF AppOK, ChecksOK
  <2>3. ASSUME b.me = Nobody, NEW l \in Checks, Decides(b, l) PROVE l = k
    BY <1>2, <1>4, <2>3 DEF Coming
  <2> QED BY <1>2, <2>1, <2>2, <2>3 DEF ChecksOK
<1>8. FlowOK(b)
  BY <1>2 DEF AppOK, FlowOK
<1>9. QueueOK(s, b, q)
  <2>1. Later(a, b)
    BY <1>0, <1>2, AppFields DEF Later
  <2>2. ASSUME NEW m \in Sent(q) PROVE Lasts(s, a, s, b, m)
    BY <1>2 DEF QueueOK, Heard, Lasts, Says, SpeaksFor, Coming
  <2> QED BY <1>0, <1>1, <2>1, <2>2, SameServer, QueueStays
<1>10. Coming(b, q)
  BY <1>3 DEF Coming
<1>11. Moving(b, q)
  BY <1>2, <1>10 DEF Moving, AppOK, MemberOK
<1> QED BY <1>1, <1>5, <1>6, <1>7, <1>8, <1>9, <1>10, <1>11 DEF Sound, AppOK, b

\* recheck_stored_session: a member is paused, and a verdict is coming.
LEMMA Rechecks ==
  ASSUME NEW s, ServerOK(s), NEW a, AppOK(s, a), NEW q, QueueOK(s, a, q),
         Free(a.check) # {}, a.me # Nobody
  PROVE  LET b == RecheckStoredSession(a)
         IN  /\ Sound(s, b, q)
             /\ b.session = a.session /\ b.request = a.request
             /\ b.busy = a.busy /\ b.me = a.me /\ b.shows = a.shows
<1> DEFINE c == Checking(a, "asked")
           b == RecheckStoredSession(a)
<1>0. a.top = "home" /\ a \in App
  BY DEF AppOK, MemberOK
<1>1. Sound(s, c, q) /\ Coming(c, q) /\ c = [a EXCEPT !.check = c.check]
  BY <1>0, Checked
<1>2. c \in App /\ AppOK(s, c) /\ QueueOK(s, c, q)
  BY <1>1 DEF Sound, AppOK
<1>3. b = [c EXCEPT !.paused = TRUE, !.tried = TRUE, !.pending = TRUE]
  BY DEF RecheckStoredSession
<1> HIDE DEF b, c
<1>4. c.me = a.me /\ c.top = "home" /\ c.session = a.session /\ c.request = a.request
      /\ c.busy = a.busy /\ c.shows = a.shows
  BY <1>0, <1>1 DEF App
<1>5. /\ b \in App /\ b.request = c.request /\ b.check = c.check
      /\ b.session = c.session /\ b.bootstrap = c.bootstrap /\ b.login = c.login
      /\ b.me = c.me /\ b.top = c.top /\ b.retry = c.retry /\ b.leaving = c.leaving
      /\ b.flow = c.flow /\ b.busy = c.busy /\ b.shows = c.shows
      /\ b.signout = c.signout /\ b.grant = c.grant
  BY <1>2, <1>3 DEF App
<1>6. \A k : Decides(b, k) <=> Decides(c, k)
  BY <1>5, SameChecks
<1>7. MemberOK(s, b)
  BY <1>2, <1>4, <1>5 DEF AppOK, MemberOK, SpeaksFor
<1>8. RequestsOK(s, b)
  BY <1>2, <1>5 DEF AppOK, RequestsOK
<1>9. ChecksOK(s, b)
  BY <1>2, <1>5, <1>6 DEF AppOK, ChecksOK
<1>10. FlowOK(b)
  BY <1>2, <1>4, <1>5 DEF AppOK, FlowOK
<1>11. QueueOK(s, b, q)
  <2>1. Later(c, b)
    BY <1>2, <1>5, AppFields DEF Later
  <2>2. ASSUME NEW m \in Sent(q) PROVE Lasts(s, c, s, b, m)
    BY <1>2, <1>4, <1>5 DEF QueueOK, Heard, Lasts
  <2> QED BY <1>2, <1>5, <2>1, <2>2, SameServer, QueueStays
<1>12. Coming(b, q)
  BY <1>1, <1>5, <1>6 DEF Coming, IsVerdict
<1>13. Moving(b, q)
  <2>1. ~b.leaving
    BY <1>4, <1>5, <1>7 DEF MemberOK
  <2> QED BY <2>1, <1>4, <1>5, <1>12 DEF Moving
<1> QED BY <1>4, <1>5, <1>7, <1>8, <1>9, <1>10, <1>11, <1>13 DEF Sound, AppOK, b

\* A result reaches its screen.
LEMMA Delivers ==
  ASSUME ServerOK(server), NEW a, NEW q, Sound(server, a, q),
         NEW m \in Message, m.result = "ok" => OwnerIn(server, m.grant) = a.me,
         \A t \in a.busy \ {m.task} : Awaited(a, q, t)
  PROVE  Fine(server, Delivered(a, m), q)
<1> DEFINE b == Delivered(a, m)
           shows == IF m.result = "ok" /\ m.task \in Loads THEN Owner(m.grant) ELSE a.shows
           busy == a.busy \ {m.task}
<1>0. a \in App /\ AppOK(server, a) /\ QueueOK(server, a, q) /\ Moving(a, q)
  BY DEF Sound, AppOK
<1>1. b = [a EXCEPT !.busy = busy, !.shows = shows]
  BY DEF Delivered
<1>2. shows \in {Nobody, a.me}
  BY <1>0 DEF AppOK, MemberOK, Owner, OwnerIn
<1>3. busy \in SUBSET Requests /\ busy \subseteq a.busy
  BY <1>0, AppFields
<1>4. shows \in Accounts \cup {Nobody}
  BY <1>0, <1>2, AppFields
<1> HIDE DEF b, shows, busy
<1>5. /\ b \in App /\ b.request = a.request /\ b.check = a.check
      /\ b.session = a.session /\ b.bootstrap = a.bootstrap /\ b.login = a.login
      /\ b.me = a.me /\ b.top = a.top /\ b.retry = a.retry /\ b.leaving = a.leaving
      /\ b.paused = a.paused /\ b.flow = a.flow /\ b.pending = a.pending
      /\ b.busy = busy /\ b.shows = shows /\ b.signout = a.signout /\ b.grant = a.grant
  BY <1>0, <1>1, <1>3, <1>4 DEF App
<1>6. \A k : Decides(b, k) <=> Decides(a, k)
  BY <1>5, SameChecks
<1>7. MemberOK(server, b)
  BY <1>0, <1>2, <1>3, <1>5 DEF AppOK, MemberOK, SpeaksFor
<1>8. RequestsOK(server, b)
  BY <1>0, <1>5 DEF AppOK, RequestsOK
<1>9. ChecksOK(server, b)
  BY <1>0, <1>5, <1>6 DEF AppOK, ChecksOK
<1>10. FlowOK(b)
  BY <1>0, <1>5 DEF AppOK, FlowOK
<1>11. Calm(server, a, server, b)
  BY <1>5 DEF Calm, Says, SpeaksFor
<1>12. QueueOK(server, b, q)
  BY <1>0, <1>5, <1>6, <1>11, SameServer, CalmQueue
<1>13. Moving(b, q)
  <2>1. \A o \in Logouts : a.signout[o].at # "none" /\ a.signout[o].gen = a.session
                              => Leaves(b, q)
    BY <1>5 DEF Leaves
  <2>2. \A k \in Checks : Decides(a, k) => Coming(b, q)
    BY <1>6 DEF Coming
  <2> QED BY <1>0, <1>11, <2>1, <2>2, CalmMoving
<1>14. \A t \in b.busy : Awaited(b, q, t)
  BY <1>5, StillAwaited DEF busy
<1> QED BY <1>5, <1>7, <1>8, <1>9, <1>10, <1>12, <1>13, <1>14 DEF Fine, Sound, AppOK, b

\* A verdict says nothing about the session: r may try again.
LEMMA Unverifies ==
  ASSUME NEW s, ServerOK(s), NEW a, NEW q, AppOK(s, a), QueueOK(s, a, q), a.top = "home",
         ~a.pending, a.me = Nobody => ~Coming(a, q), \A t \in a.busy : Awaited(a, q, t)
  PROVE  Fine(s, Unverified(a), q)
<1> DEFINE b == Unverified(a)
<1>0. a \in App /\ a.me \in Accounts \cup {Nobody}
  BY AppFields DEF AppOK
<1>1. b = IF a.me # Nobody THEN [a EXCEPT !.paused = TRUE, !.tried = FALSE, !.retry = TRUE]
                           ELSE [a EXCEPT !.retry = TRUE]
  BY DEF Unverified
<1> HIDE DEF b
<1>2. /\ b \in App /\ b.request = a.request /\ b.check = a.check
      /\ b.session = a.session /\ b.bootstrap = a.bootstrap /\ b.login = a.login
      /\ b.me = a.me /\ b.top = a.top /\ b.retry /\ b.leaving = a.leaving
      /\ b.flow = a.flow /\ b.pending = a.pending
      /\ b.busy = a.busy /\ b.shows = a.shows /\ b.signout = a.signout /\ b.grant = a.grant
      /\ a.me = Nobody => b.paused = a.paused
  BY <1>0, <1>1 DEF App
<1>3. \A k : Decides(b, k) <=> Decides(a, k)
  BY <1>2, SameChecks
<1>4. MemberOK(s, b)
  BY <1>2 DEF AppOK, MemberOK, SpeaksFor
<1>5. RequestsOK(s, b)
  BY <1>2 DEF AppOK, RequestsOK
<1>6. ChecksOK(s, b)
  BY <1>2, <1>3 DEF AppOK, ChecksOK, Coming
<1>7. FlowOK(b)
  BY <1>2 DEF AppOK, FlowOK
<1>8. QueueOK(s, b, q)
  <2>1. Later(a, b)
    BY <1>0, <1>2, AppFields DEF Later
  <2>2. ASSUME NEW m \in Sent(q) PROVE Lasts(s, a, s, b, m)
    BY <1>2 DEF QueueOK, Heard, Lasts, Coming
  <2> QED BY <1>0, <1>2, <2>1, <2>2, SameServer, QueueStays
<1>9. Moving(b, q)
  BY <1>2 DEF Moving, AppOK, MemberOK
<1>10. \A t \in b.busy : Awaited(b, q, t)
  BY <1>2, StillAwaited
<1> QED BY <1>2, <1>4, <1>5, <1>6, <1>7, <1>8, <1>9, <1>10 DEF Fine, Sound, AppOK, b

\* A member is signed in: a new generation, unless it is the same member.
LEMMA SignedInFields ==
  ASSUME NEW a \in App, NEW u \in Accounts
  PROVE  LET b == SignedIn(a, u)
         IN  /\ b \in App /\ Alike(a, b) /\ b.bootstrap = a.bootstrap
             /\ b.me = u /\ b.top = "home" /\ ~b.retry /\ ~b.tried /\ ~b.pending
             /\ a.me = u => /\ b.session = a.session /\ b.request = a.request
                            /\ b.check = a.check /\ b.busy = a.busy /\ b.shows = a.shows
             /\ a.me # u => /\ b.session = a.session + 1
                            /\ \A k \in Checks : b.check[k] = Aborted(a.check[k])
             /\ a.me = Nobody => /\ \A t \in Requests : b.request[t] \in {NoRequest, a.request[t]}
                                 /\ b.busy = a.busy /\ b.shows = a.shows
             /\ a.me \notin {Nobody, u} => /\ \A t \in Requests : b.request[t] = NoRequest
                                           /\ b.busy = {} /\ b.shows = Nobody
<1> DEFINE begun == BeginSession(a)
           d == AbortWrites(begun)
           c == IF a.me = u THEN a ELSE IF a.me = Nobody THEN begun
                ELSE [d EXCEPT !.busy = {}, !.shows = Nobody]
           b == SignedIn(a, u)
<1>n. u # Nobody
  BY SessionAssumption
<1>1. b = [c EXCEPT !.me = u, !.top = "home", !.retry = FALSE, !.tried = FALSE, !.pending = FALSE]
  BY <1>n DEF SignedIn
<1>2. /\ begun \in App /\ Alike(a, begun)
      /\ begun.session = a.session + 1 /\ begun.bootstrap = a.bootstrap
      /\ begun.busy = a.busy /\ begun.shows = a.shows
      /\ \A t \in Requests : begun.request[t] = IF t \in Loads THEN NoRequest ELSE a.request[t]
      /\ \A k \in Checks : begun.check[k] = Aborted(a.check[k])
  BY BeginSessionFields
<1> HIDE DEF begun
<1>3. /\ d \in App /\ d = [begun EXCEPT !.request = d.request]
      /\ \A t \in Requests : d.request[t] = IF t \in Writes THEN NoRequest ELSE begun.request[t]
  BY <1>2, AbortWritesFields
<1> HIDE DEF d
<1>4. /\ Alike(begun, d) /\ d.session = begun.session /\ d.bootstrap = begun.bootstrap
      /\ d.check = begun.check
  BY <1>2, <1>3 DEF App, Alike
<1>5. \A t \in Requests : d.request[t] = NoRequest
  BY <1>2, <1>3 DEF Requests
<1>6. /\ c \in App /\ Alike(a, c) /\ c.bootstrap = a.bootstrap
      /\ a.me = u => /\ c.session = a.session /\ c.request = a.request
                     /\ c.check = a.check /\ c.busy = a.busy /\ c.shows = a.shows
      /\ a.me # u => /\ c.session = a.session + 1
                     /\ \A k \in Checks : c.check[k] = Aborted(a.check[k])
      /\ a.me = Nobody => /\ \A t \in Requests : c.request[t] \in {NoRequest, a.request[t]}
                          /\ c.busy = a.busy /\ c.shows = a.shows
      /\ a.me \notin {Nobody, u} => /\ \A t \in Requests : c.request[t] = NoRequest
                                    /\ c.busy = {} /\ c.shows = Nobody
  <2>1. CASE a.me = u
    BY <1>n, <2>1 DEF Alike
  <2>2. CASE a.me = Nobody
    <3>1. c = begun
      BY <1>n, <2>2
    <3> QED BY <1>n, <1>2, <2>2, <3>1
  <2>3. CASE a.me \notin {Nobody, u}
    <3>1. c = [d EXCEPT !.busy = {}, !.shows = Nobody]
      BY <2>3
    <3> HIDE DEF c
    <3>2. /\ c \in App /\ Alike(d, c) /\ c.session = d.session /\ c.bootstrap = d.bootstrap
          /\ c.request = d.request /\ c.check = d.check /\ c.busy = {} /\ c.shows = Nobody
      BY <1>3, <3>1 DEF App, Alike
    <3>3. Alike(a, c)
      BY <1>2, <1>4, <3>2 DEF Alike
    <3> QED BY <1>2, <1>4, <1>5, <2>3, <3>2, <3>3
  <2> QED BY <2>1, <2>2, <2>3
<1> HIDE DEF c, b
<1>7. /\ b \in App /\ Alike(c, b) /\ b.session = c.session /\ b.bootstrap = c.bootstrap
      /\ b.request = c.request /\ b.check = c.check /\ b.busy = c.busy /\ b.shows = c.shows
      /\ b.me = u /\ b.top = "home" /\ ~b.retry /\ ~b.tried /\ ~b.pending
  BY <1>1, <1>6 DEF App, Alike
<1>8. Alike(a, b)
  BY <1>6, <1>7 DEF Alike
<1> QED BY <1>6, <1>7, <1>8 DEF b

\* A task that was under way is gone or dropped.
LEMMA AbortedChecks ==
  ASSUME NEW s, NEW a, AppOK(s, a), NEW b, b.bootstrap = a.bootstrap,
         \A k \in Checks : b.check[k] = Aborted(a.check[k])
  PROVE  \A k \in Checks :
           /\ b.check[k].at # "none" => b.check[k].at = "dropped" /\ b.check[k].gen <= b.bootstrap
           /\ Decides(b, k) => Decides(a, k)
<1> TAKE k \in Checks
<1>1. a.check[k] \in Check
  BY AppFields DEF AppOK
<1>2. IF a.check[k].at \in {"none", "restoring"} THEN b.check[k].at = "none"
      ELSE b.check[k].at = "dropped" /\ b.check[k].gen = a.check[k].gen
  BY <1>1, AbortedFields
<1> QED BY <1>2 DEF AppOK, ChecksOK, Decides

\* Nobody's restored session turns out to be member u's.
LEMMA Restores ==
  ASSUME NEW s, ServerOK(s), NEW a, NEW q, AppOK(s, a), QueueOK(s, a, q),
         a.me = Nobody, a.top = "home", ~Coming(a, q), NEW u \in Accounts, SpeaksFor(s, a, u)
  PROVE  Fine(s, SignedIn(a, u), q)
<1> DEFINE b == SignedIn(a, u)
<1>0. a \in App /\ a.session \in Nat /\ u # Nobody
  BY AppFields, SessionAssumption DEF AppOK
<1>1. /\ b \in App /\ Alike(a, b) /\ b.bootstrap = a.bootstrap
      /\ b.me = u /\ b.top = "home" /\ ~b.retry /\ ~b.tried /\ ~b.pending
      /\ b.session = a.session + 1
      /\ \A k \in Checks : b.check[k] = Aborted(a.check[k])
      /\ \A t \in Requests : b.request[t] \in {NoRequest, a.request[t]}
      /\ b.busy = a.busy /\ b.shows = a.shows
  BY <1>0, SignedInFields
<1> HIDE DEF b
<1>2. a.busy = {} /\ a.shows = Nobody /\ ~a.paused /\ ~a.leaving /\ a.flow.at = "none"
  BY DEF AppOK, MemberOK, FlowOK
<1>3. \A k \in Checks :
        /\ b.check[k].at # "none" => b.check[k].at = "dropped" /\ b.check[k].gen <= b.bootstrap
        /\ ~Decides(b, k)
  BY <1>1, AbortedChecks DEF Coming
<1>4. MemberOK(s, b)
  BY <1>0, <1>1, <1>2 DEF AppOK, MemberOK, SpeaksFor, Alike
<1>5. RequestsOK(s, b)
  BY <1>1, NoTasks DEF RequestsOK, AppOK
<1>6. ChecksOK(s, b)
  BY <1>3 DEF ChecksOK
<1>7. FlowOK(b)
  BY <1>1, <1>2 DEF FlowOK, Alike
<1>8. QueueOK(s, b, q)
  <2>1. Later(a, b)
    BY <1>0, <1>1, AppFields DEF Later, Alike
  <2>2. ASSUME NEW m \in Sent(q) PROVE Lasts(s, a, s, b, m)
    <3>1. ~IsVerdict(a, m) /\ ~IsLogin(a, m)
      BY DEF Coming, QueueOK, Heard
    <3> QED BY <1>0, <1>1, <3>1 DEF Lasts
  <2> QED BY <1>0, <1>1, <2>1, <2>2, SameServer, QueueStays
<1>9. Moving(b, q)
  BY <1>0, <1>1, <1>2 DEF Moving, Alike
<1> QED BY <1>1, <1>2, <1>4, <1>5, <1>6, <1>7, <1>8, <1>9 DEF Fine, Sound, AppOK, b

\* The login ends with member u's grant.
LEMMA LogsIn ==
  ASSUME NEW s, ServerOK(s), NEW a, NEW q, AppOK(s, a), QueueOK(s, a, q),
         a.top = "login", a.flow.at = "none", ~a.leaving, ~a.paused,
         \A m \in Sent(q) : ~IsLogin(a, m), NEW u \in Accounts, SpeaksFor(s, a, u)
  PROVE  Fine(s, [BeginSession(a) EXCEPT !.me = u, !.top = "home"], q)
<1> DEFINE c == BeginSession(a)
           b == [c EXCEPT !.me = u, !.top = "home"]
<1>0. a \in App /\ a.session \in Nat /\ u # Nobody
  BY AppFields, SessionAssumption DEF AppOK
<1>1. /\ c \in App /\ Alike(a, c)
      /\ c.session = a.session + 1 /\ c.bootstrap = a.bootstrap
      /\ c.tried = a.tried /\ c.pending = a.pending
      /\ c.retry = a.retry /\ c.busy = a.busy /\ c.shows = a.shows
      /\ \A t \in Requests : c.request[t] = IF t \in Loads THEN NoRequest ELSE a.request[t]
      /\ \A k \in Checks : c.check[k] = Aborted(a.check[k])
  BY <1>0, BeginSessionFields
<1> HIDE DEF c
<1>2. /\ b \in App /\ Alike(c, b) /\ b.session = c.session /\ b.bootstrap = c.bootstrap
      /\ b.pending = c.pending /\ b.retry = c.retry /\ b.request = c.request
      /\ b.check = c.check /\ b.busy = c.busy /\ b.shows = c.shows
      /\ b.me = u /\ b.top = "home"
  BY <1>1 DEF App, Alike
<1> HIDE DEF b
<1>3. a.me = Nobody /\ a.busy = {} /\ a.shows = Nobody /\ ~a.pending
  BY DEF AppOK, MemberOK
<1>4. \A k \in Checks :
        /\ b.check[k].at # "none" => b.check[k].at = "dropped" /\ b.check[k].gen <= b.bootstrap
        /\ ~Decides(b, k)
  <2>1. \A k \in Checks : ~Decides(a, k)
    BY DEF AppOK, ChecksOK
  <2> QED BY <1>1, <1>2, <2>1, AbortedChecks
<1>5. MemberOK(s, b)
  BY <1>0, <1>1, <1>2, <1>3 DEF AppOK, MemberOK, SpeaksFor, Alike
<1>6. RequestsOK(s, b)
  <2>1. \A t \in Requests : a.request[t].at = "none"
    BY <1>3 DEF AppOK, RequestsOK
  <2> QED BY <1>1, <1>2, <2>1, NoTasks DEF RequestsOK
<1>7. ChecksOK(s, b)
  BY <1>4 DEF ChecksOK
<1>8. FlowOK(b)
  BY <1>1, <1>2 DEF FlowOK, Alike
<1>9. QueueOK(s, b, q)
  <2>1. Later(a, b)
    BY <1>0, <1>1, <1>2, AppFields DEF Later, Alike
  <2>2. ASSUME NEW m \in Sent(q) PROVE Lasts(s, a, s, b, m)
    <3>1. ~IsVerdict(a, m) /\ ~IsLogin(a, m)
      BY DEF QueueOK, Heard
    <3> QED BY <1>0, <1>1, <1>2, <3>1 DEF Lasts
  <2> QED BY <1>0, <1>2, <2>1, <2>2, SameServer, QueueStays
<1>10. Moving(b, q)
  BY <1>0, <1>1, <1>2, <1>3 DEF Moving, Alike
<1>11. \A t \in b.busy : Awaited(b, q, t)
  BY <1>1, <1>2, <1>3
<1> QED BY <1>2, <1>5, <1>6, <1>7, <1>8, <1>9, <1>10, <1>11 DEF Fine, Sound, AppOK, b, c

\* A recheck adopts the grant on disk, which may speak for another member.
LEMMA Adopts ==
  ASSUME NEW s, ServerOK(s), NEW a, NEW q, AppOK(s, a), QueueOK(s, a, q),
         a.me # Nobody, NEW n \in Known(s)
  PROVE  Fine(s, SignedIn([CancelRecoveredWork(a) EXCEPT !.grant = n, !.paused = FALSE,
                                                         !.pending = FALSE],
                          OwnerIn(s, n)), q)
<1> DEFINE u == OwnerIn(s, n)
           c == CancelRecoveredWork(a)
           d == [c EXCEPT !.grant = n, !.paused = FALSE, !.pending = FALSE]
           b == SignedIn(d, u)
<1>0. /\ a \in App /\ a.session \in Nat /\ u \in Accounts /\ u # Nobody /\ n \in Grants
      /\ a.top = "home"
  BY AppFields, KnownGrants, SessionAssumption DEF AppOK, MemberOK
<1>h. ~a.leaving /\ a.flow.at = "none"
  BY <1>0 DEF AppOK, MemberOK, FlowOK
<1> HIDE DEF u
<1>1. /\ c \in App /\ Alike(a, c)
      /\ c.session = a.session + 1 /\ c.bootstrap = a.bootstrap
      /\ c.me = a.me /\ c.top = a.top
      /\ c.busy = {} /\ c.shows = a.shows
      /\ \A t \in Requests : c.request[t] = NoRequest
      /\ \A k \in Checks : c.check[k] = Aborted(a.check[k])
  BY <1>0, CancelRecoveredWorkFields
<1> HIDE DEF c
<1>2. /\ d \in App /\ d.grant = n /\ ~d.paused
      /\ d.session = c.session /\ d.bootstrap = c.bootstrap
      /\ d.login = c.login /\ d.leaving = c.leaving /\ d.flow = c.flow /\ d.signout = c.signout
      /\ d.request = c.request /\ d.check = c.check /\ d.busy = c.busy /\ d.shows = c.shows
      /\ d.me = c.me
  BY <1>0, <1>1 DEF App
<1> HIDE DEF d
<1>3. d.me # Nobody /\ d.shows \in {Nobody, d.me}
  BY <1>1, <1>2 DEF AppOK, MemberOK
<1>4. d.session \in Nat
  BY <1>2, AppFields
<1>5. /\ b \in App /\ Alike(d, b) /\ b.bootstrap = d.bootstrap
      /\ b.me = u /\ b.top = "home" /\ ~b.retry /\ ~b.tried /\ ~b.pending
      /\ d.me = u => /\ b.session = d.session /\ b.request = d.request
                     /\ b.check = d.check /\ b.busy = d.busy /\ b.shows = d.shows
      /\ d.me # u => /\ b.session = d.session + 1
                     /\ \A k \in Checks : b.check[k] = Aborted(d.check[k])
      /\ d.me \notin {Nobody, u} => /\ \A t \in Requests : b.request[t] = NoRequest
                                    /\ b.busy = {} /\ b.shows = Nobody
  BY <1>0, <1>2, SignedInFields
<1> HIDE DEF b
<1>6. b.session > a.session
  BY <1>0, <1>1, <1>2, <1>4, <1>5
<1>7. b.shows \in {Nobody, u} /\ b.busy = {} /\ \A t \in Requests : b.request[t].at = "none"
  BY <1>1, <1>2, <1>3, <1>5, NoTasks
<1>8. b.grant = n /\ ~b.paused /\ ~b.leaving /\ b.flow.at = "none" /\ b.login = a.login
      /\ b.bootstrap = a.bootstrap
  BY <1>h, <1>1, <1>2, <1>5 DEF Alike
<1>9. \A k \in Checks :
        b.check[k].at # "none" => b.check[k].at = "dropped" /\ b.check[k].gen <= b.bootstrap
  <2> TAKE k \in Checks
  <2>1. d.check[k].at # "none" => d.check[k].at = "dropped" /\ d.check[k].gen <= b.bootstrap
    BY <1>1, <1>2, <1>8, AbortedChecks
  <2>2. d.check[k] \in Check
    BY <1>2, AppFields
  <2>3. /\ Aborted(d.check[k]).at # "none" => d.check[k].at # "none" /\ Aborted(d.check[k]).at = "dropped"
        /\ Aborted(d.check[k]).at # "none" => Aborted(d.check[k]).gen = d.check[k].gen
    BY <2>2, AbortedFields
  <2> QED BY <1>5, <2>1, <2>3
<1>10. MemberOK(s, b)
  BY <1>0, <1>5, <1>7, <1>8 DEF MemberOK, SpeaksFor, u
<1>11. RequestsOK(s, b)
  BY <1>7 DEF RequestsOK
<1>12. ChecksOK(s, b)
  BY <1>0, <1>5, <1>9 DEF ChecksOK, Decides
<1>13. FlowOK(b)
  BY <1>8 DEF FlowOK
<1>14. QueueOK(s, b, q)
  <2>1. Later(a, b)
    BY <1>0, <1>5, <1>6, <1>8, AppFields DEF Later
  <2>2. ASSUME NEW m \in Sent(q) PROVE Lasts(s, a, s, b, m)
    <3>1. ~IsLogin(a, m)
      BY <1>0 DEF QueueOK, Heard
    <3> QED BY <1>0, <1>5, <1>6, <3>1 DEF Lasts
  <2> QED BY <1>0, <1>5, <2>1, <2>2, SameServer, QueueStays
<1>15. Moving(b, q)
  BY <1>0, <1>5, <1>8 DEF Moving
<1>16. Fine(s, b, q)
  BY <1>5, <1>7, <1>10, <1>11, <1>12, <1>13, <1>14, <1>15 DEF Fine, Sound, AppOK
<1> QED BY <1>16 DEF b, c, d, u

----------------------------------------------------------------------------
\* A check reports its verdict.
LEMMA Reported ==
  ASSUME NEW s, ServerOK(s), NEW a, NEW q, Fine(s, a, q),
         NEW k \in Checks, a.check[k].at # "none",
         NEW m \in Message, m.kind \in {"bootstrap", "verified"}, m.gen = a.check[k].gen,
         m.kind = "verified" => m.result = "ok" /\ Carries(s, m),
         Decides(a, k) =>
           IF a.me = Nobody
           THEN /\ m.kind = "bootstrap"
                /\ m.result = "ok" => Carries(s, m) /\ SpeaksFor(s, a, OwnerIn(s, m.grant))
           ELSE m.kind = "bootstrap" => m.result # "ok"
  PROVE  Fine(s, [a EXCEPT !.check = [@ EXCEPT ![k] = NoCheck]], Append(q, m))
<1> DEFINE check == [a.check EXCEPT ![k] = NoCheck]
           b == [a EXCEPT !.check = check]
           p == Append(q, m)
<1>0. /\ a \in App /\ AppOK(s, a) /\ QueueOK(s, a, q) /\ Moving(a, q) /\ m.gen \in Nat
      /\ a.bootstrap \in Nat
  BY AppFields DEF Fine, Sound, AppOK, Message
<1>1. /\ check \in [Checks -> Check] /\ check[k] = NoCheck
      /\ \A l \in Checks \ {k} : check[l] = a.check[l]
  BY <1>0, AppFields, NoTasks
<1> HIDE DEF check, p
<1>2. /\ b \in App /\ b.request = a.request /\ b.check = check
      /\ b.session = a.session /\ b.bootstrap = a.bootstrap /\ b.login = a.login
      /\ b.me = a.me /\ b.top = a.top /\ b.retry = a.retry /\ b.leaving = a.leaving
      /\ b.paused = a.paused /\ b.flow = a.flow /\ b.pending = a.pending
      /\ b.busy = a.busy /\ b.shows = a.shows /\ b.signout = a.signout /\ b.grant = a.grant
  BY <1>0, <1>1 DEF App
<1> HIDE DEF b
<1>3. /\ b.check[k].at = "none" /\ ~Decides(b, k)
      /\ \A l \in Checks : /\ l # k => b.check[l] = a.check[l] /\ (Decides(a, l) => Decides(b, l))
                           /\ Decides(b, l) => Decides(a, l) /\ l # k
                           /\ b.check[l].at # "none" => l # k
  BY <1>1, <1>2, NoTasks DEF Decides
<1>4. MemberOK(s, b)
  BY <1>0, <1>2 DEF AppOK, MemberOK, SpeaksFor
<1>5. RequestsOK(s, b)
  BY <1>0, <1>2 DEF AppOK, RequestsOK
<1>6. ChecksOK(s, b)
  BY <1>0, <1>2, <1>3 DEF AppOK, ChecksOK
<1>7. FlowOK(b)
  BY <1>0, <1>2 DEF AppOK, FlowOK
<1>8. Calm(s, a, s, b)
  BY <1>2 DEF Calm, Says, SpeaksFor
<1>9. QueueOK(s, b, q)
  BY <1>0, <1>2, <1>3, <1>8, SameServer, CalmQueue
<1>10. m.gen <= a.bootstrap /\ (IsVerdict(b, m) => Decides(a, k))
  BY <1>0, <1>2 DEF AppOK, ChecksOK, IsVerdict, Decides
<1>11. ASSUME IsVerdict(b, m), b.me = Nobody
       PROVE  (\A l \in Checks : ~Decides(b, l)) /\ (\A x \in Sent(q) : ~IsVerdict(b, x))
  <2>1. Decides(a, k) /\ a.me = Nobody
    BY <1>2, <1>10, <1>11
  <2>2. \A l \in Checks : ~Decides(b, l)
    BY <1>0, <1>3, <2>1 DEF AppOK, ChecksOK
  <2>3. ASSUME NEW x \in Sent(q) PROVE ~IsVerdict(a, x)
    BY <1>0, <2>1 DEF QueueOK, Heard
  <2> QED BY <1>2, <2>2, <2>3 DEF IsVerdict
<1>12. Heard(s, b, m)
  <2>1. ~IsResult(b, m) /\ ~IsLogin(b, m)
    BY DEF IsResult, IsLogin
  <2>2. IsVerdict(b, m) =>
         /\ b.top = "home"
         /\ IF b.me = Nobody
            THEN /\ m.kind = "bootstrap" /\ ~b.retry /\ \A l \in Checks : ~Decides(b, l)
                 /\ m.result = "ok" => Carries(s, m) /\ SpeaksFor(s, b, OwnerIn(s, m.grant))
            ELSE m.kind = "bootstrap" => m.result # "ok"
    BY <1>0, <1>2, <1>10, <1>11 DEF AppOK, ChecksOK, SpeaksFor
  <2> QED BY <1>2, <1>10, <2>1, <2>2 DEF Heard
<1>13. QueueOK(s, b, p) /\ Sent(p) = Sent(q) \cup {m}
  <2>1. ~IsLogin(b, m)
    BY DEF IsLogin
  <2> QED BY <1>9, <1>11, <1>12, <2>1, QueueGrows DEF p
<1>14. Moving(b, p)
  <2>1. \A o \in Logouts : a.signout[o].at # "none" /\ a.signout[o].gen = a.session
                              => Leaves(b, p)
    BY <1>2 DEF Leaves
  <2>2. ASSUME NEW l \in Checks, Decides(a, l) PROVE Coming(b, p)
    <3>1. CASE l = k
      BY <1>2, <1>13, <2>2, <3>1 DEF Coming, IsVerdict, Decides
    <3>2. CASE l # k
      BY <1>3, <2>2, <3>2 DEF Coming
    <3> QED BY <3>1, <3>2
  <2> QED BY <1>0, <1>8, <1>13, <2>1, <2>2, CalmMoving
<1>15. \A t \in b.busy : Awaited(b, p, t)
  <2>1. Sent(q) \subseteq Sent(p)
    BY <1>13
  <2> QED BY <1>2, <2>1, StillAwaited DEF Fine
<1>16. Fine(s, b, p)
  BY <1>2, <1>4, <1>5, <1>6, <1>7, <1>13, <1>14, <1>15 DEF Fine, Sound, AppOK
<1> QED BY <1>16 DEF b, check, p

\* A request comes to its end.
LEMMA Resulted ==
  ASSUME NEW s, ServerOK(s), NEW a, NEW q, Fine(s, a, q),
         NEW r \in Requests, a.request[r].at # "none",
         NEW m \in Message, m.kind = "result", m.gen = a.request[r].gen, m.task = r,
         m.result = "ok" => Carries(s, m) /\ OwnerIn(s, m.grant) = a.me
  PROVE  Fine(s, [a EXCEPT !.request = [@ EXCEPT ![r] = NoRequest]], Append(q, m))
<1> DEFINE request == [a.request EXCEPT ![r] = NoRequest]
           b == [a EXCEPT !.request = request]
           p == Append(q, m)
<1>0. /\ a \in App /\ AppOK(s, a) /\ QueueOK(s, a, q) /\ Moving(a, q)
      /\ a.session \in Nat /\ m.gen = a.session /\ a.me # Nobody
  BY AppFields DEF Fine, Sound, AppOK, RequestsOK
<1>1. /\ request \in [Requests -> Request] /\ request[r] = NoRequest
      /\ \A t \in Requests \ {r} : request[t] = a.request[t]
  BY <1>0, AppFields, NoTasks
<1> HIDE DEF request, p
<1>2. /\ b \in App /\ b.request = request /\ b.check = a.check
      /\ b.session = a.session /\ b.bootstrap = a.bootstrap /\ b.login = a.login
      /\ b.me = a.me /\ b.top = a.top /\ b.retry = a.retry /\ b.leaving = a.leaving
      /\ b.paused = a.paused /\ b.flow = a.flow /\ b.pending = a.pending
      /\ b.busy = a.busy /\ b.shows = a.shows /\ b.signout = a.signout /\ b.grant = a.grant
  BY <1>0, <1>1 DEF App
<1> HIDE DEF b
<1>3. \A k : Decides(b, k) <=> Decides(a, k)
  BY <1>2, SameChecks
<1>4. MemberOK(s, b)
  BY <1>0, <1>2 DEF AppOK, MemberOK, SpeaksFor
<1>5. RequestsOK(s, b)
  BY <1>0, <1>1, <1>2, NoTasks DEF AppOK, RequestsOK
<1>6. ChecksOK(s, b)
  BY <1>0, <1>2, <1>3 DEF AppOK, ChecksOK
<1>7. FlowOK(b)
  BY <1>0, <1>2 DEF AppOK, FlowOK
<1>8. Calm(s, a, s, b)
  BY <1>2 DEF Calm, Says, SpeaksFor
<1>9. QueueOK(s, b, q)
  BY <1>0, <1>2, <1>3, <1>8, SameServer, CalmQueue
<1>10. Heard(s, b, m) /\ ~IsLogin(b, m) /\ ~IsVerdict(b, m)
  BY <1>0, <1>2 DEF Heard, IsVerdict, IsLogin
<1>11. QueueOK(s, b, p) /\ Sent(p) = Sent(q) \cup {m}
  BY <1>9, <1>10, QueueGrows DEF p
<1>12. Moving(b, p)
  <2>1. \A o \in Logouts : a.signout[o].at # "none" /\ a.signout[o].gen = a.session
                              => Leaves(b, p)
    BY <1>2 DEF Leaves
  <2>2. \A k \in Checks : Decides(a, k) => Coming(b, p)
    BY <1>3 DEF Coming
  <2> QED BY <1>0, <1>8, <1>11, <2>1, <2>2, CalmMoving
<1>13. ASSUME NEW t \in b.busy PROVE Awaited(b, p, t)
  <2>1. CASE t = r
    BY <1>0, <1>2, <1>11, <2>1 DEF Awaited, IsResult
  <2>2. CASE t # r
    <3>1. t \in Requests /\ Awaited(a, q, t)
      BY <1>0, <1>2, AppFields DEF Fine
    <3>2. b.request[t] = a.request[t] /\ Sent(q) \subseteq Sent(p)
      BY <1>1, <1>2, <1>11, <2>2, <3>1
    <3> QED BY <1>2, <3>1, <3>2, StillAwaited
  <2> QED BY <2>1, <2>2
<1>14. Fine(s, b, p)
  BY <1>2, <1>4, <1>5, <1>6, <1>7, <1>11, <1>12, <1>13 DEF Fine, Sound, AppOK
<1> QED BY <1>14 DEF b, request, p

----------------------------------------------------------------------------
\* Each action.
LEMMA Said ==
  ASSUME NEW kind \in {"result", "bootstrap", "verified", "login", "snapshot", "loggedout"},
         NEW gen \in Nat, NEW task \in Requests \cup {Nobody}, NEW result \in Results,
         NEW grant \in Grants \cup {None}
  PROVE  [kind |-> kind, gen |-> gen, task |-> task, result |-> result, grant |-> grant] \in Message
BY DEF Message

\* The app does not move, and the server only grows.
LEMMA SiblingKeeps == IInv /\ Sibling => IInv'
<1> SUFFICES ASSUME IInv, Sibling PROVE IInv'
  OBVIOUS
<1>0. /\ ServerOK(server) /\ file \in Known(server) \cup {None} /\ Fine(server, app, queue)
      /\ app' = app /\ queue' = queue
  BY DEF IInv, Sibling
<1>1. ServerOK(server') /\ Grows(server, server') /\ file' \in Known(server') \cup {None}
  <2>1. CASE /\ Live(file) /\ server.issued < MaxGrant
             /\ server' = Rotated(server, file)
             /\ file' = server.issued + 1
    <3>1. file \in Known(server)
      BY <1>0, <2>1 DEF Live, Grants, None
    <3> QED BY <1>0, <2>1, <3>1, RotatedServer
  <2>2. CASE /\ server.issued < MaxGrant
             /\ \E u \in Accounts : server' = Minted(server, u)
             /\ file' = server.issued + 1
    BY <1>0, <2>2, MintedServer
  <2>3. CASE /\ file # None
             /\ server' = [server EXCEPT !.dead = @ \cup {file}]
             /\ file' \in {file, None}
    <3>1. file \in Known(server) /\ {file} \in SUBSET Grants
      BY <1>0, <2>3, KnownGrants
    <3>2. ServerOK(server') /\ Grows(server, server')
      BY <1>0, <2>3, <3>1, KilledServer
    <3> QED BY <1>0, <2>3, <3>1, <3>2 DEF Grows
  <2> QED BY <2>1, <2>2, <2>3 DEF Sibling
<1>2. AppOK(server, app) /\ QueueOK(server, app, queue) /\ app \in App
  BY <1>0 DEF Fine, Sound, AppOK
<1>3. AppOK(server', app) /\ Says(server, app, server', app)
  BY <1>0, <1>1, <1>2, AppGrows
<1>4. QueueOK(server', app, queue)
  <2>1. Calm(server, app, server', app)
    BY <1>3 DEF Calm
  <2> QED BY <1>0, <1>1, <1>2, <2>1, CalmQueue
<1>5. Fine(server', app, queue)
  BY <1>0, <1>3, <1>4 DEF Fine, Sound
<1> QED BY <1>0, <1>1, <1>5 DEF IInv

\* The rotated grant speaks for whom the old one spoke.
LEMMA RefreshKeeps == IInv /\ Refresh => IInv'
<1> SUFFICES ASSUME IInv, Refresh PROVE IInv'
  OBVIOUS
<1> DEFINE new == server.issued + 1
<1>0. /\ ServerOK(server) /\ file \in Known(server) \cup {None} /\ Fine(server, app, queue)
      /\ AppOK(server, app) /\ QueueOK(server, app, queue) /\ Moving(app, queue) /\ app \in App
      /\ queue' = queue
  BY DEF IInv, Refresh, Fine, Sound, AppOK
<1>1. /\ app.grant \in Known(server) /\ app.grant # None /\ server.issued < MaxGrant
      /\ server' = Rotated(server, app.grant) /\ app' = [app EXCEPT !.grant = new]
      /\ file' = IF file = app.grant THEN new ELSE file
  BY <1>0, KnownGrants DEF Refresh, Live, AppOK, MemberOK, Known, None, Grants
<1>2. /\ ServerOK(server') /\ Grows(server, server') /\ new \in Known(server')
      /\ OwnerIn(server', new) = OwnerIn(server, app.grant)
  BY <1>0, <1>1, RotatedServer
<1>3. new \in Grants /\ new # None
  BY <1>2, KnownGrants
<1> HIDE DEF new
<1>4. /\ app' \in App /\ app'.request = app.request /\ app'.check = app.check
      /\ app'.session = app.session /\ app'.bootstrap = app.bootstrap /\ app'.login = app.login
      /\ app'.me = app.me /\ app'.top = app.top /\ app'.retry = app.retry
      /\ app'.leaving = app.leaving
      /\ app'.paused = app.paused /\ app'.flow = app.flow /\ app'.pending = app.pending
      /\ app'.busy = app.busy /\ app'.shows = app.shows /\ app'.signout = app.signout
      /\ app'.grant = new
  BY <1>0, <1>1, <1>3 DEF App
<1>5. AppOK(server', app)
  BY <1>0, <1>2, AppGrows
<1>6. \A k : Decides(app', k) <=> Decides(app, k)
  BY <1>4, SameChecks
<1>7. AppOK(server', app')
  <2>1. app.me # Nobody => SpeaksFor(server', app', app.me)
    BY <1>0, <1>1, <1>2, <1>4 DEF AppOK, MemberOK, SpeaksFor
  <2>2. MemberOK(server', app')
    BY <1>2, <1>4, <1>5, <2>1 DEF AppOK, MemberOK
  <2>3. RequestsOK(server', app')
    BY <1>4, <1>5 DEF AppOK, RequestsOK
  <2>4. ChecksOK(server', app')
    BY <1>4, <1>5, <1>6 DEF AppOK, ChecksOK
  <2>5. FlowOK(app')
    BY <1>4, <1>5 DEF AppOK, FlowOK
  <2> QED BY <1>4, <2>2, <2>3, <2>4, <2>5 DEF AppOK
<1>8. Calm(server, app, server', app')
  BY <1>1, <1>2, <1>4 DEF Calm, Says, SpeaksFor
<1>9. QueueOK(server', app', queue)
  BY <1>0, <1>2, <1>4, <1>6, <1>8, CalmQueue
<1>10. Moving(app', queue)
  <2>1. \A o \in Logouts : app.signout[o].at # "none" /\ app.signout[o].gen = app.session
                              => Leaves(app', queue)
    BY <1>4 DEF Leaves
  <2>2. \A k \in Checks : Decides(app, k) => Coming(app', queue)
    BY <1>6 DEF Coming
  <2> QED BY <1>0, <1>8, <2>1, <2>2, CalmMoving
<1>11. \A t \in app'.busy : Awaited(app', queue, t)
  BY <1>0, <1>4, StillAwaited DEF Fine
<1>12. file' \in Known(server') \cup {None}
  BY <1>0, <1>1, <1>2 DEF Grows
<1> QED BY <1>0, <1>2, <1>7, <1>9, <1>10, <1>11, <1>12 DEF IInv, Fine, Sound

\* A request begins in the current session, on behalf of its member.
LEMMA StartKeeps == ASSUME NEW t \in Requests PROVE IInv /\ Start(t) => IInv'
<1> SUFFICES ASSUME IInv, Start(t) PROVE IInv'
  OBVIOUS
<1> DEFINE new == [at |-> "waiting", gen |-> app.session, by |-> app.me, grant |-> None]
           request == [app.request EXCEPT ![t] = new]
           busy == app.busy \cup {t}
<1>0. /\ ServerOK(server) /\ file \in Known(server) \cup {None} /\ Fine(server, app, queue)
      /\ AppOK(server, app) /\ QueueOK(server, app, queue) /\ Moving(app, queue) /\ app \in App
      /\ queue' = queue /\ file' = file /\ server' = server /\ app.me # Nobody
      /\ app' = [app EXCEPT !.busy = busy, !.request = request]
  BY DEF IInv, Start, Fine, Sound, AppOK
<1>1. new \in Request /\ new.at = "waiting" /\ new.gen = app.session /\ new.by = app.me
  BY <1>0, AppFields DEF Request, None
<1> HIDE DEF new
<1>2. /\ request \in [Requests -> Request] /\ request[t] = new
      /\ \A x \in Requests \ {t} : request[x] = app.request[x]
  BY <1>0, <1>1, AppFields
<1>3. busy \in SUBSET Requests /\ \A x \in busy : x = t \/ x \in app.busy \ {t}
  BY <1>0, AppFields
<1> HIDE DEF request, busy
<1>4. /\ app' \in App /\ app'.request = request /\ app'.check = app.check
      /\ app'.session = app.session /\ app'.bootstrap = app.bootstrap /\ app'.login = app.login
      /\ app'.me = app.me /\ app'.top = app.top /\ app'.retry = app.retry
      /\ app'.leaving = app.leaving
      /\ app'.paused = app.paused /\ app'.flow = app.flow /\ app'.pending = app.pending
      /\ app'.busy = busy /\ app'.shows = app.shows /\ app'.signout = app.signout
      /\ app'.grant = app.grant
  BY <1>0, <1>2, <1>3 DEF App
<1>6. \A k : Decides(app', k) <=> Decides(app, k)
  BY <1>4, SameChecks
<1>7. AppOK(server, app')
  <2>2. MemberOK(server, app')
    BY <1>0, <1>4 DEF AppOK, MemberOK, SpeaksFor
  <2>3. RequestsOK(server, app')
    BY <1>0, <1>1, <1>2, <1>4 DEF AppOK, RequestsOK
  <2>4. ChecksOK(server, app')
    BY <1>0, <1>4, <1>6 DEF AppOK, ChecksOK
  <2>5. FlowOK(app')
    BY <1>0, <1>4 DEF AppOK, FlowOK
  <2> QED BY <1>4, <2>2, <2>3, <2>4, <2>5 DEF AppOK
<1>8. Calm(server, app, server, app')
  BY <1>4 DEF Calm, Says, SpeaksFor
<1>9. QueueOK(server, app', queue)
  BY <1>0, <1>4, <1>6, <1>8, SameServer, CalmQueue
<1>10. Moving(app', queue)
  <2>1. \A o \in Logouts : app.signout[o].at # "none" /\ app.signout[o].gen = app.session
                              => Leaves(app', queue)
    BY <1>4 DEF Leaves
  <2>2. \A k \in Checks : Decides(app, k) => Coming(app', queue)
    BY <1>6 DEF Coming
  <2> QED BY <1>0, <1>8, <2>1, <2>2, CalmMoving
<1>11. ASSUME NEW x \in app'.busy PROVE Awaited(app', queue, x)
  <2>1. CASE x = t
    BY <1>1, <1>2, <1>4, <2>1 DEF Awaited
  <2>2. CASE x \in app.busy \ {t}
    <3>1. x \in Requests /\ Awaited(app, queue, x)
      BY <1>0, <2>2, AppFields DEF Fine
    <3> QED BY <1>2, <1>4, <2>2, <3>1, StillAwaited
  <2> QED BY <1>3, <1>4, <2>1, <2>2
<1> QED BY <1>0, <1>7, <1>9, <1>10, <1>11 DEF IInv, Fine, Sound

\* What dispatch_token makes of a file and the client's grant.
LEMMA RejectedFile ==
  file \in Known(server) \cup {None} =>
    /\ Rejected \in {"lost", "ends"} /\ FileAfterRejection \in Known(server) \cup {None}
BY DEF Rejected, FileAfterRejection

\* dispatch_token: what it sends, it sends with a grant of the session's member.
LEMMA DispatchKeeps == ASSUME NEW t \in Requests PROVE IInv /\ Dispatch(t) => IInv'
<1> SUFFICES ASSUME IInv, Dispatch(t) PROVE IInv'
  OBVIOUS
<1> DEFINE r == app.request[t]
           done == [app EXCEPT !.request = [@ EXCEPT ![t] = NoRequest]]
<1>0. /\ ServerOK(server) /\ file \in Known(server) \cup {None} /\ Fine(server, app, queue)
      /\ AppOK(server, app) /\ QueueOK(server, app, queue) /\ Moving(app, queue) /\ app \in App
      /\ r.at = "waiting" /\ server' = server
  BY DEF IInv, Dispatch, Fine, Sound, AppOK
<1>1. /\ r.gen = app.session /\ r.by = app.me /\ app.me # Nobody /\ r \in Request
      /\ app.session \in Nat
  BY <1>0, AppFields DEF AppOK, RequestsOK
<1>2. ASSUME NEW result \in Results, result # "ok"
      PROVE  Fine(server, done, Append(queue, [kind |-> "result", gen |-> r.gen, task |-> t,
                                               result |-> result, grant |-> None]))
  <2> DEFINE m == [kind |-> "result", gen |-> r.gen, task |-> t, result |-> result, grant |-> None]
  <2>1. m \in Message
    BY <1>1, Said
  <2>2. m.kind = "result" /\ m.gen = r.gen /\ m.task = t /\ m.result # "ok"
    BY <1>2
  <2> HIDE DEF m
  <2>3. Fine(server, done, Append(queue, m))
    BY <1>0, <2>1, <2>2, Resulted
  <2> QED BY <2>3 DEF m
<1>3. CASE /\ app.paused \/ app.grant = None
           /\ Send("result", r.gen, t, IF app.paused THEN "fails" ELSE "lost", None)
           /\ app' = done
           /\ UNCHANGED <<file, server>>
  <2> DEFINE result == IF app.paused THEN "fails" ELSE "lost"
  <2>1. result \in Results /\ result # "ok"
    BY DEF Results
  <2>2. /\ queue' = Append(queue, [kind |-> "result", gen |-> r.gen, task |-> t,
                                   result |-> result, grant |-> None])
        /\ app' = done /\ file' = file
    BY <1>3 DEF Send
  <2> HIDE DEF result, done
  <2>3. Fine(server, app', queue')
    BY <1>2, <2>1, <2>2
  <2> QED BY <1>0, <2>2, <2>3 DEF IInv
<1>4. CASE /\ ~app.paused /\ app.grant # None /\ ~Live(app.grant)
           /\ Send("result", r.gen, t, Rejected, None)
           /\ app' = [done EXCEPT !.grant = None]
           /\ file' = FileAfterRejection
           /\ UNCHANGED server
  <2>1. Rejected \in Results /\ Rejected # "ok" /\ file' \in Known(server) \cup {None}
    BY <1>0, <1>4, RejectedFile DEF Results
  <2>2. /\ queue' = Append(queue, [kind |-> "result", gen |-> r.gen, task |-> t,
                                   result |-> Rejected, grant |-> None])
        /\ app' = [done EXCEPT !.grant = None]
    BY <1>4 DEF Send
  <2> HIDE DEF done
  <2>3. Fine(server, done, queue')
    BY <1>2, <2>1, <2>2
  <2>4. Fine(server, app', queue')
    BY <1>0, <2>2, <2>3, Forgets
  <2> QED BY <1>0, <2>1, <2>4 DEF IInv
<1>5. CASE /\ ~app.paused /\ app.grant # None
           /\ app' = [app EXCEPT !.request = [@ EXCEPT ![t] =
                        [r EXCEPT !.at = "sent", !.grant = app.grant]]]
           /\ UNCHANGED <<file, server, queue>>
  <2> DEFINE new == [r EXCEPT !.at = "sent", !.grant = app.grant]
             request == [app.request EXCEPT ![t] = new]
  <2>1. /\ new \in Request /\ new.at = "sent" /\ new.gen = app.session /\ new.by = app.me
        /\ new.grant = app.grant
    BY <1>0, <1>1, AppFields DEF Request
  <2>2. app' = [app EXCEPT !.request = request]
    BY <1>5
  <2> HIDE DEF new, r
  <2>3. /\ request \in [Requests -> Request] /\ request[t] = new
        /\ \A x \in Requests \ {t} : request[x] = app.request[x]
    BY <1>0, <2>1, AppFields
  <2> HIDE DEF request
  <2>4. /\ app' \in App /\ app'.request = request /\ app'.check = app.check
        /\ app'.session = app.session /\ app'.bootstrap = app.bootstrap /\ app'.login = app.login
        /\ app'.me = app.me /\ app'.top = app.top /\ app'.retry = app.retry
        /\ app'.leaving = app.leaving
        /\ app'.paused = app.paused /\ app'.flow = app.flow /\ app'.pending = app.pending
        /\ app'.busy = app.busy /\ app'.shows = app.shows /\ app'.signout = app.signout
        /\ app'.grant = app.grant
    BY <1>0, <2>2, <2>3 DEF App
  <2>5. \A k : Decides(app', k) <=> Decides(app, k)
    BY <2>4, SameChecks
  <2>6. AppOK(server, app')
    <3>1. MemberOK(server, app')
      BY <1>0, <2>4 DEF AppOK, MemberOK, SpeaksFor
    <3>2. app.grant \in Known(server) /\ OwnerIn(server, app.grant) = app.me
      BY <1>0, <1>1, <1>5 DEF AppOK, MemberOK, SpeaksFor
    <3>3. RequestsOK(server, app')
      BY <1>0, <1>1, <2>1, <2>3, <2>4, <3>2 DEF AppOK, RequestsOK
    <3>4. ChecksOK(server, app')
      BY <1>0, <2>4, <2>5 DEF AppOK, ChecksOK
    <3>5. FlowOK(app')
      BY <1>0, <2>4 DEF AppOK, FlowOK
    <3> QED BY <2>4, <3>1, <3>3, <3>4, <3>5 DEF AppOK
  <2>7. Calm(server, app, server, app')
    BY <2>4 DEF Calm, Says, SpeaksFor
  <2>8. QueueOK(server, app', queue)
    BY <1>0, <2>4, <2>5, <2>7, SameServer, CalmQueue
  <2>9. Moving(app', queue)
    <3>1. \A o \in Logouts : app.signout[o].at # "none" /\ app.signout[o].gen = app.session
                                => Leaves(app', queue)
      BY <2>4 DEF Leaves
    <3>2. \A k \in Checks : Decides(app, k) => Coming(app', queue)
      BY <2>5 DEF Coming
    <3> QED BY <1>0, <2>7, <3>1, <3>2, CalmMoving
  <2>10. ASSUME NEW x \in app'.busy PROVE Awaited(app', queue, x)
    <3>1. CASE x = t
      BY <2>1, <2>3, <2>4, <3>1 DEF Awaited
    <3>2. CASE x # t
      <4>1. x \in Requests /\ Awaited(app, queue, x)
        BY <1>0, <2>4, AppFields DEF Fine
      <4> QED BY <2>3, <2>4, <3>2, <4>1, StillAwaited
    <3> QED BY <3>1, <3>2
  <2>11. Fine(server, app', queue)
    BY <2>6, <2>8, <2>9, <2>10 DEF Fine, Sound
  <2> QED BY <1>0, <1>5, <2>11 DEF IInv
<1> QED BY <1>3, <1>4, <1>5 DEF Dispatch

\* A result speaks for whom its grant speaks.
LEMMA AnswerKeeps == ASSUME NEW t \in Requests PROVE IInv /\ Answer(t) => IInv'
<1> SUFFICES ASSUME IInv, Answer(t) PROVE IInv'
  OBVIOUS
<1> DEFINE r == app.request[t]
           done == [app EXCEPT !.request = [@ EXCEPT ![t] = NoRequest]]
<1>0. /\ ServerOK(server) /\ file \in Known(server) \cup {None} /\ Fine(server, app, queue)
      /\ AppOK(server, app) /\ app \in App
      /\ r.at = "sent" /\ server' = server /\ file' = file /\ app' = done
  BY DEF IInv, Answer, Fine, Sound, AppOK
<1>1. /\ r.gen = app.session /\ r.grant \in Known(server) /\ r.grant \in Grants
      /\ OwnerIn(server, r.grant) = app.me /\ app.session \in Nat
  BY <1>0, AppFields, KnownGrants DEF AppOK, RequestsOK
<1>2. PICK result \in Results : Send("result", r.gen, t, result, r.grant)
  BY DEF Answer, Results
<1> DEFINE m == [kind |-> "result", gen |-> r.gen, task |-> t, result |-> result,
                 grant |-> r.grant]
<1>3. m \in Message
  BY <1>1, Said
<1>4. m.kind = "result" /\ m.gen = r.gen /\ m.task = t /\ m.grant = r.grant
  OBVIOUS
<1>5. queue' = Append(queue, m)
  BY <1>2 DEF Send
<1> HIDE DEF m
<1>6. Carries(server, m) /\ OwnerIn(server, m.grant) = app.me
  BY <1>1, <1>4 DEF Carries
<1>7. Fine(server, done, Append(queue, m))
  BY <1>0, <1>3, <1>4, <1>6, Resulted
<1> QED BY <1>0, <1>5, <1>7 DEF IInv

\* Nobody's stored session: the one verdict that is coming.
LEMMA RestoreKeeps == ASSUME NEW k \in Checks PROVE IInv /\ Restore(k) => IInv'
<1> SUFFICES ASSUME IInv, Restore(k) PROVE IInv'
  OBVIOUS
<1> DEFINE done == [app EXCEPT !.check = [@ EXCEPT ![k] = NoCheck]]
           said(result, grant) == [kind |-> "bootstrap", gen |-> app.check[k].gen, task |-> Nobody,
                                   result |-> result, grant |-> grant]
<1>0. /\ ServerOK(server) /\ file \in Known(server) \cup {None} /\ Fine(server, app, queue)
      /\ AppOK(server, app) /\ app \in App /\ app.grant \in Grants \cup {None}
      /\ app.check[k].at = "restoring" /\ server' = server
  BY AppFields DEF IInv, Restore, Fine, Sound, AppOK
<1>1. Decides(app, k) => app.me = Nobody
  BY <1>0 DEF AppOK, ChecksOK
<1>2. ASSUME NEW result \in Results, NEW grant \in Grants \cup {None},
             result = "ok" => grant \in Known(server) /\ grant = app.grant
      PROVE  Fine(server, done, Append(queue, said(result, grant)))
  <2> DEFINE m == said(result, grant)
  <2>1. m \in Message
    BY <1>0, Said, AppFields DEF Check
  <2>2. m.kind = "bootstrap" /\ m.gen = app.check[k].gen /\ m.result = result /\ m.grant = grant
    OBVIOUS
  <2> HIDE DEF m
  <2>3. m.result = "ok" => Carries(server, m) /\ SpeaksFor(server, app, OwnerIn(server, m.grant))
    BY <1>2, <2>2 DEF Carries, SpeaksFor
  <2>4. Fine(server, done, Append(queue, m))
    BY <1>0, <1>1, <2>1, <2>2, <2>3, Reported
  <2> QED BY <2>4 DEF m
<1>3. CASE /\ ~app.paused /\ Live(app.grant)
           /\ Reports(k, "bootstrap", "ok", app.grant)
           /\ UNCHANGED file
  <2>1. app.grant \in Known(server) /\ "ok" \in Results
    BY <1>0, <1>3, KnownGrants DEF Live, AppOK, MemberOK, Results, None
  <2>2. app' = done /\ queue' = Append(queue, said("ok", app.grant))
    BY <1>3 DEF Reports, Send
  <2> HIDE DEF done, said
  <2>3. Fine(server, app', queue')
    BY <1>0, <1>2, <2>1, <2>2
  <2> QED BY <1>0, <1>3, <2>3 DEF IInv
<1>4. ASSUME NEW result \in {"lost", "fails"}, Reports(k, "bootstrap", result, None), file' = file
      PROVE  IInv'
  <2>1. result \in Results /\ result # "ok"
    BY DEF Results
  <2>2. app' = done /\ queue' = Append(queue, said(result, None))
    BY <1>4 DEF Reports, Send
  <2> HIDE DEF done, said
  <2>3. Fine(server, app', queue')
    BY <1>0, <1>2, <2>1, <2>2
  <2> QED BY <1>0, <1>4, <2>3 DEF IInv
<1>5. CASE /\ ~app.paused /\ app.grant # None /\ ~Live(app.grant)
           /\ Send("bootstrap", app.check[k].gen, Nobody, Rejected, None)
           /\ app' = [app EXCEPT !.grant = None, !.check = [@ EXCEPT ![k] = NoCheck]]
           /\ file' = FileAfterRejection
  <2>1. Rejected \in Results /\ Rejected # "ok" /\ file' \in Known(server) \cup {None}
    BY <1>0, <1>5, RejectedFile DEF Results
  <2>2. queue' = Append(queue, said(Rejected, None))
    BY <1>5 DEF Send
  <2>3. app' = [done EXCEPT !.grant = None]
    BY <1>0, <1>5 DEF App
  <2> HIDE DEF done, said
  <2>4. Fine(server, done, queue')
    BY <1>2, <2>1, <2>2
  <2>5. Fine(server, app', queue')
    BY <1>0, <2>3, <2>4, Forgets
  <2> QED BY <1>0, <2>1, <2>5 DEF IInv
<1> QED BY <1>3, <1>4, <1>5 DEF Restore

\* A recheck's verdict, or the report of a dropped one.
LEMMA RecheckReports ==
  ASSUME IInv, NEW k \in Checks, app.check[k].at \notin {"none", "restoring"},
         NEW kind \in {"bootstrap", "verified"}, NEW result \in Results, NEW n \in Known(server) \cup {None},
         IF kind = "bootstrap" THEN result # "ok" ELSE result = "ok" /\ n # None,
         Reports(k, kind, result, n), UNCHANGED <<file, server>>
  PROVE  IInv'
<1> DEFINE m == [kind |-> kind, gen |-> app.check[k].gen, task |-> Nobody,
                 result |-> result, grant |-> n]
<1>0. /\ ServerOK(server) /\ file \in Known(server) \cup {None} /\ Fine(server, app, queue)
      /\ AppOK(server, app) /\ app \in App /\ n \in Grants \cup {None}
  BY KnownGrants DEF IInv, Fine, Sound, AppOK
<1>1. Decides(app, k) => app.me # Nobody
  BY <1>0 DEF AppOK, ChecksOK
<1>2. m \in Message
  BY <1>0, Said, AppFields DEF Check
<1>3. m.kind = kind /\ m.gen = app.check[k].gen /\ m.result = result /\ m.grant = n
  OBVIOUS
<1>4. /\ queue' = Append(queue, m)
      /\ app' = [app EXCEPT !.check = [@ EXCEPT ![k] = NoCheck]]
  BY DEF Reports, Send
<1> HIDE DEF m
<1>5. Fine(server, app', queue')
  BY <1>0, <1>1, <1>2, <1>3, <1>4, Reported DEF Carries
<1> QED BY <1>0, <1>5 DEF IInv

\* A candidate is a grant the server issued.
LEMMA PrepareCandidateKeeps ==
  ASSUME NEW k \in Checks PROVE IInv /\ PrepareCandidate(k) => IInv'
<1> SUFFICES ASSUME IInv, PrepareCandidate(k) PROVE IInv'
  OBVIOUS
<1>0. /\ ServerOK(server) /\ file \in Known(server) \cup {None} /\ Fine(server, app, queue)
      /\ AppOK(server, app) /\ QueueOK(server, app, queue) /\ Moving(app, queue) /\ app \in App
      /\ app.check[k].at = "asked" /\ server' = server /\ file' = file
  BY DEF IInv, PrepareCandidate, Fine, Sound, AppOK
<1>1. ASSUME NEW result \in {"lost", "fails"}, Reports(k, "bootstrap", result, None) PROVE IInv'
  <2>1. result \in Results /\ result # "ok"
    BY DEF Results
  <2> QED BY <1>0, <1>1, <2>1, RecheckReports
<1>2. CASE /\ file \notin {None, app.grant}
           /\ app' = [app EXCEPT !.check = [@ EXCEPT ![k] =
                        [app.check[k] EXCEPT !.at = "verifying", !.source = file]]]
           /\ UNCHANGED queue
  <2> DEFINE c == app.check[k]
             new == [c EXCEPT !.at = "verifying", !.source = file]
             check == [app.check EXCEPT ![k] = new]
  <2>1. /\ new \in Check /\ new.at = "verifying" /\ new.gen = c.gen /\ new.source = file
        /\ file \in Known(server)
    <3>1. file \in Known(server) /\ file \in Grants
      BY <1>0, <1>2, KnownGrants
    <3>2. c \in Check
      BY <1>0, AppFields
    <3> HIDE DEF c
    <3> QED BY <3>1, <3>2 DEF Check
  <2>2. app' = [app EXCEPT !.check = check]
    BY <1>2
  <2> HIDE DEF new
  <2>3. /\ check \in [Checks -> Check] /\ check[k] = new
        /\ \A l \in Checks \ {k} : check[l] = app.check[l]
    BY <1>0, <2>1, AppFields
  <2> HIDE DEF check
  <2>4. /\ app' \in App /\ app'.request = app.request /\ app'.check = check
        /\ app'.session = app.session /\ app'.bootstrap = app.bootstrap /\ app'.login = app.login
        /\ app'.me = app.me /\ app'.top = app.top /\ app'.retry = app.retry
        /\ app'.leaving = app.leaving
        /\ app'.paused = app.paused /\ app'.flow = app.flow /\ app'.pending = app.pending
        /\ app'.busy = app.busy /\ app'.shows = app.shows /\ app'.signout = app.signout
        /\ app'.grant = app.grant
    BY <1>0, <2>2, <2>3 DEF App
  <2>5. \A l \in Checks : /\ Decides(app', l) <=> Decides(app, l)
                          /\ l # k => app'.check[l] = app.check[l]
    BY <1>0, <2>1, <2>3, <2>4 DEF Decides
  <2>6. AppOK(server, app')
    <3>1. MemberOK(server, app')
      BY <1>0, <2>4 DEF AppOK, MemberOK, SpeaksFor
    <3>2. RequestsOK(server, app')
      BY <1>0, <2>4 DEF AppOK, RequestsOK
    <3>3. ChecksOK(server, app')
      <4>1. app'.check[k] = new
        BY <2>3, <2>4
      <4>2. \A l \in Checks : app'.check[l].at # "none" =>
               /\ app'.check[l].gen <= app'.bootstrap
               /\ app'.check[l].at = "verifying" => app'.check[l].source \in Known(server)
        BY <1>0, <2>1, <2>4, <2>5, <4>1 DEF AppOK, ChecksOK
      <4>3. \A l \in Checks : Decides(app', l) =>
               /\ app'.top = "home"
               /\ IF app'.me = Nobody THEN app'.check[l].at = "restoring" /\ ~app'.retry
                                      ELSE app'.check[l].at # "restoring"
        BY <1>0, <2>1, <2>4, <2>5, <4>1 DEF AppOK, ChecksOK
      <4>4. \A l, j \in Checks : app'.me = Nobody /\ Decides(app', l) /\ Decides(app', j) => l = j
        BY <1>0, <2>4, <2>5 DEF AppOK, ChecksOK
      <4> QED BY <4>2, <4>3, <4>4 DEF ChecksOK
    <3>4. FlowOK(app')
      BY <1>0, <2>4 DEF AppOK, FlowOK
    <3> QED BY <2>4, <3>1, <3>2, <3>3, <3>4 DEF AppOK
  <2>7. Calm(server, app, server, app')
    BY <2>4 DEF Calm, Says, SpeaksFor
  <2>8. QueueOK(server, app', queue)
    BY <1>0, <2>4, <2>5, <2>7, SameServer, CalmQueue
  <2>9. Moving(app', queue)
    <3>1. \A o \in Logouts : app.signout[o].at # "none" /\ app.signout[o].gen = app.session
                                => Leaves(app', queue)
      BY <2>4 DEF Leaves
    <3>2. \A l \in Checks : Decides(app, l) => Coming(app', queue)
      BY <2>5 DEF Coming
    <3> QED BY <1>0, <2>7, <3>1, <3>2, CalmMoving
  <2>10. \A t \in app'.busy : Awaited(app', queue, t)
    BY <1>0, <2>4, StillAwaited DEF Fine
  <2> QED BY <1>0, <1>2, <2>6, <2>8, <2>9, <2>10 DEF IInv, Fine, Sound
<1> QED BY <1>1, <1>2 DEF PrepareCandidate

\* A verified candidate is reported with the grant that was verified.
LEMMA VerifyRecoveryKeeps ==
  ASSUME NEW k \in Checks PROVE IInv /\ VerifyRecovery(k) => IInv'
<1> SUFFICES ASSUME IInv, VerifyRecovery(k) PROVE IInv'
  OBVIOUS
<1>0. /\ AppOK(server, app) /\ ServerOK(server)
      /\ app.check[k].at = "verifying" /\ UNCHANGED <<file, server>>
  BY DEF IInv, VerifyRecovery, Fine, Sound
<1>1. app.check[k].source \in Known(server) /\ app.check[k].source # None
  BY <1>0, KnownGrants DEF AppOK, ChecksOK
<1>2. CASE Reports(k, "verified", "ok", app.check[k].source)
  BY <1>0, <1>1, <1>2, RecheckReports DEF Results
<1>3. ASSUME NEW result \in {"lost", "ends", "fails"}, Reports(k, "bootstrap", result, None)
      PROVE  IInv'
  <2>1. result \in Results /\ result # "ok"
    BY DEF Results
  <2> QED BY <1>0, <1>3, <2>1, RecheckReports
<1> QED BY <1>2, <1>3 DEF VerifyRecovery

\* An aborted recheck still reports.
LEMMA ReportDroppedKeeps ==
  ASSUME NEW k \in Checks PROVE IInv /\ ReportDropped(k) => IInv'
BY RecheckReports DEF ReportDropped, Results

\* The deadline: no verdict that is under way counts any more.
LEMMA RecoveryTimesOutKeeps == IInv /\ RecoveryTimesOut => IInv'
<1> SUFFICES ASSUME IInv, RecoveryTimesOut PROVE IInv'
  OBVIOUS
<1> DEFINE next == app.bootstrap + 1
           late == [app EXCEPT !.pending = FALSE, !.bootstrap = next, !.paused = TRUE]
           c == CancelRecoveredWork(late)
<1>0. /\ ServerOK(server) /\ file \in Known(server) \cup {None}
      /\ AppOK(server, app) /\ QueueOK(server, app, queue) /\ app \in App
      /\ app.pending /\ server' = server /\ file' = file /\ queue' = queue
      /\ app.session \in Nat /\ app.bootstrap \in Nat
  BY AppFields DEF IInv, RecoveryTimesOut, Fine, Sound, AppOK
<1>1. app.me # Nobody /\ app.top = "home" /\ ~app.leaving /\ app.flow.at = "none"
  BY <1>0 DEF AppOK, MemberOK, FlowOK
<1>2. next \in Nat
  BY <1>0
<1>3. app' = IF c.me # Nobody THEN [c EXCEPT !.retry = TRUE] ELSE EndSession(c)
  BY DEF RecoveryTimesOut
<1> HIDE DEF next
<1>4. /\ late \in App /\ late.request = app.request /\ late.check = app.check
      /\ late.session = app.session /\ late.bootstrap = next /\ late.login = app.login
      /\ late.me = app.me /\ late.top = app.top
      /\ late.leaving = app.leaving /\ late.paused /\ late.flow = app.flow /\ ~late.pending
      /\ late.shows = app.shows /\ late.signout = app.signout
      /\ late.grant = app.grant
  BY <1>0, <1>2 DEF App
<1> HIDE DEF late
<1>5. /\ c \in App /\ Alike(late, c)
      /\ c.session = late.session + 1 /\ c.bootstrap = late.bootstrap
      /\ c.me = late.me /\ c.top = late.top /\ c.pending = late.pending
      /\ c.busy = {} /\ c.shows = late.shows
      /\ \A t \in Requests : c.request[t] = NoRequest
      /\ \A k \in Checks : c.check[k] = Aborted(late.check[k])
  BY <1>4, CancelRecoveredWorkFields
<1> HIDE DEF c
<1>6. app' = [c EXCEPT !.retry = TRUE]
  BY <1>1, <1>3, <1>4, <1>5
<1>7. /\ app' \in App /\ Alike(c, app') /\ app'.request = c.request /\ app'.check = c.check
      /\ app'.session = c.session /\ app'.bootstrap = c.bootstrap
      /\ app'.me = c.me /\ app'.top = c.top /\ app'.retry /\ app'.pending = c.pending
      /\ app'.busy = c.busy /\ app'.shows = c.shows
  BY <1>5, <1>6 DEF App, Alike
<1>8. ASSUME NEW k \in Checks, app'.check[k].at # "none"
      PROVE  /\ app'.check[k].at = "dropped" /\ app'.check[k].gen \in Nat
             /\ app'.check[k].gen <= app.bootstrap
  <2>1. app.check[k] \in Check
    BY <1>0, AppFields
  <2>2. app'.check[k] = Aborted(app.check[k])
    BY <1>4, <1>5, <1>7
  <2>3. app.check[k].at \notin {"none", "restoring"} /\ app'.check[k].at = "dropped"
        /\ app'.check[k].gen = app.check[k].gen
    BY <1>8, <2>1, <2>2, AbortedFields
  <2> QED BY <1>0, <2>1, <2>3 DEF AppOK, ChecksOK, Check
<1>9. AppOK(server, app')
  <2>1. MemberOK(server, app')
    BY <1>0, <1>1, <1>4, <1>5, <1>7 DEF AppOK, MemberOK, SpeaksFor, Alike
  <2>2. RequestsOK(server, app')
    BY <1>5, <1>7, NoTasks DEF RequestsOK
  <2>3. ChecksOK(server, app')
    BY <1>0, <1>4, <1>5, <1>7, <1>8 DEF ChecksOK, Decides, next
  <2>4. FlowOK(app')
    BY <1>1, <1>4, <1>5, <1>7 DEF FlowOK, Alike
  <2> QED BY <1>7, <2>1, <2>2, <2>3, <2>4 DEF AppOK
<1>10. QueueOK(server, app', queue)
  <2>1. Later(app, app') /\ app'.session > app.session /\ app'.bootstrap > app.bootstrap
    BY <1>0, <1>4, <1>5, <1>7, AppFields DEF Later, Alike, next
  <2>2. ASSUME NEW m \in Sent(queue) PROVE Lasts(server, app, server, app', m)
    BY <1>0, <1>1, <2>1 DEF QueueOK, Heard, Lasts
  <2> QED BY <1>0, <1>7, <2>1, <2>2, SameServer, QueueStays
<1>11. Moving(app', queue)
  BY <1>1, <1>4, <1>5, <1>7 DEF Moving, Alike
<1> QED BY <1>0, <1>5, <1>7, <1>9, <1>10, <1>11 DEF IInv, Fine, Sound

\* r: a member's paused session is rechecked, or the stored one is restored.
LEMMA RetryKeeps == IInv /\ Retry => IInv'
<1> SUFFICES ASSUME IInv, Retry PROVE IInv'
  OBVIOUS
<1> DEFINE a == [app EXCEPT !.retry = FALSE]
<1>0. /\ ServerOK(server) /\ file \in Known(server) \cup {None} /\ Fine(server, app, queue)
      /\ AppOK(server, app) /\ QueueOK(server, app, queue) /\ app \in App
      /\ app.retry /\ (app.me = Nobody \/ app.paused) /\ Free(app.check) # {}
      /\ app' = RestoreSession(a) /\ server' = server /\ file' = file /\ queue' = queue
  BY DEF IInv, Retry, Fine, Sound, AppOK
<1>1. /\ a \in App /\ a.request = app.request /\ a.check = app.check
      /\ a.session = app.session /\ a.bootstrap = app.bootstrap /\ a.login = app.login
      /\ a.me = app.me /\ a.top = app.top /\ ~a.retry /\ a.leaving = app.leaving
      /\ a.paused = app.paused /\ a.flow = app.flow /\ a.pending = app.pending
      /\ a.busy = app.busy /\ a.shows = app.shows /\ a.signout = app.signout
      /\ a.grant = app.grant
  BY <1>0 DEF App
<1>2. app.top = "home"
  BY <1>0, AppFields DEF AppOK, MemberOK
<1> HIDE DEF a
<1>3. \A k : Decides(a, k) <=> Decides(app, k)
  BY <1>1, SameChecks
<1>4. AppOK(server, a)
  <2>1. MemberOK(server, a)
    BY <1>0, <1>1 DEF AppOK, MemberOK, SpeaksFor
  <2>2. RequestsOK(server, a)
    BY <1>0, <1>1 DEF AppOK, RequestsOK
  <2>3. ChecksOK(server, a)
    BY <1>0, <1>1, <1>3 DEF AppOK, ChecksOK
  <2>4. FlowOK(a)
    BY <1>0, <1>1 DEF AppOK, FlowOK
  <2> QED BY <1>1, <2>1, <2>2, <2>3, <2>4 DEF AppOK
<1>5. QueueOK(server, a, queue)
  <2>1. Later(app, a)
    BY <1>0, <1>1, AppFields DEF Later
  <2>2. ASSUME NEW m \in Sent(queue) PROVE Lasts(server, app, server, a, m)
    BY <1>0, <1>1, <1>3 DEF QueueOK, Heard, Lasts, Says, SpeaksFor
  <2> QED BY <1>0, <1>1, <2>1, <2>2, SameServer, QueueStays
<1>6. CASE a.me # Nobody /\ a.paused
  <2>1. app' = RecheckStoredSession(a)
    BY <1>0, <1>6 DEF RestoreSession
  <2>2. /\ Sound(server, app', queue)
        /\ app'.session = a.session /\ app'.request = a.request /\ app'.busy = a.busy
    BY <1>0, <1>1, <1>4, <1>5, <1>6, <2>1, Rechecks
  <2>3. \A t \in app'.busy : Awaited(app', queue, t)
    BY <1>0, <1>1, <2>2, StillAwaited DEF Fine
  <2> QED BY <1>0, <2>2, <2>3 DEF IInv, Fine
<1>7. CASE a.me = Nobody
  <2>1. app' = Checking(a, "restoring")
    BY <1>0, <1>7 DEF RestoreSession
  <2>2. ~Coming(a, queue)
    BY <1>0, <1>1, <1>3, <1>7 DEF Coming, AppOK, ChecksOK, QueueOK, Heard, IsVerdict
  <2>3. Sound(server, app', queue) /\ app' = [a EXCEPT !.check = app'.check]
    BY <1>0, <1>1, <1>2, <1>4, <1>5, <1>7, <2>1, <2>2, Checked
  <2>4. a.busy = {} /\ app'.busy = a.busy
    BY <1>1, <1>4, <1>7, <2>3 DEF AppOK, MemberOK, App
  <2> QED BY <1>0, <2>3, <2>4 DEF IInv, Fine
<1> QED BY <1>0, <1>1, <1>6, <1>7

\* A new flow: no verdict of an older one counts.
LEMMA EnterLoginKeeps == IInv /\ EnterLogin => IInv'
<1> SUFFICES ASSUME IInv, EnterLogin PROVE IInv'
  OBVIOUS
<1> DEFINE next == app.login + 1
           flow == [at |-> "asking", gen |-> next]
<1>0. /\ ServerOK(server) /\ file \in Known(server) \cup {None} /\ Fine(server, app, queue)
      /\ AppOK(server, app) /\ QueueOK(server, app, queue) /\ Moving(app, queue) /\ app \in App
      /\ app.top = "login" /\ app' = BeginLogin(app)
      /\ server' = server /\ file' = file /\ queue' = queue
      /\ app.login \in Nat
  BY AppFields DEF IInv, EnterLogin, Fine, Sound, AppOK
<1>1. CASE app.leaving
  BY <1>0, <1>1 DEF BeginLogin, IInv
<1>2. CASE ~app.leaving
  <2>1. app' = [app EXCEPT !.login = next, !.flow = flow]
    BY <1>0, <1>2 DEF BeginLogin
  <2>2. next \in Nat /\ flow \in Login /\ flow.gen = next /\ flow.at = "asking"
    BY <1>0 DEF Login
  <2>3. next > app.login
    BY <1>0
  <2> HIDE DEF next, flow
  <2>4. /\ app' \in App /\ app'.request = app.request /\ app'.check = app.check
        /\ app'.session = app.session /\ app'.bootstrap = app.bootstrap /\ app'.login = next
        /\ app'.me = app.me /\ app'.top = app.top /\ app'.retry = app.retry
        /\ app'.leaving = app.leaving
        /\ app'.paused = app.paused /\ app'.flow = flow /\ app'.pending = app.pending
        /\ app'.busy = app.busy /\ app'.shows = app.shows /\ app'.signout = app.signout
        /\ app'.grant = app.grant
    BY <1>0, <2>1, <2>2 DEF App
  <2>5. \A k : Decides(app', k) <=> Decides(app, k)
    BY <2>4, SameChecks
  <2>6. AppOK(server, app')
    <3>1. MemberOK(server, app')
      BY <1>0, <2>4 DEF AppOK, MemberOK, SpeaksFor
    <3>2. RequestsOK(server, app')
      BY <1>0, <2>4 DEF AppOK, RequestsOK
    <3>3. ChecksOK(server, app')
      BY <1>0, <2>4, <2>5 DEF AppOK, ChecksOK
    <3>4. FlowOK(app')
      BY <1>0, <1>2, <2>2, <2>4 DEF FlowOK
    <3> QED BY <2>4, <3>1, <3>2, <3>3, <3>4 DEF AppOK
  <2>7. QueueOK(server, app', queue)
    <3>1. Later(app, app')
      BY <1>0, <2>3, <2>4, AppFields DEF Later
    <3>2. ASSUME NEW m \in Sent(queue) PROVE Lasts(server, app, server, app', m)
      BY <1>0, <2>3, <2>4 DEF QueueOK, Heard, Lasts
    <3> QED BY <1>0, <2>4, <3>1, <3>2, SameServer, QueueStays
  <2>8. Moving(app', queue)
    <3>1. app.me = Nobody /\ ~app.pending
      BY <1>0 DEF AppOK, MemberOK
    <3> QED BY <1>0, <1>2, <2>4, <3>1 DEF Moving
  <2>9. \A t \in app'.busy : Awaited(app', queue, t)
    BY <1>0, <2>4, StillAwaited DEF Fine
  <2> QED BY <1>0, <2>6, <2>7, <2>8, <2>9 DEF IInv, Fine, Sound
<1> QED BY <1>1, <1>2

\* The flow reports how it ended.
LEMMA LoginReports ==
  ASSUME IInv, app.flow.at # "none", NEW result \in Results, NEW n \in Known(server) \cup {None},
         result \in {"ok", "fails"} => ~app.paused,
         result = "ok" => n # None /\ n = app.grant,
         Send("login", app.flow.gen, Nobody, result, n), app' = [app EXCEPT !.flow = NoLogin],
         UNCHANGED <<file, server>>
  PROVE  IInv'
<1> DEFINE m == [kind |-> "login", gen |-> app.flow.gen, task |-> Nobody,
                 result |-> result, grant |-> n]
<1>0. /\ ServerOK(server) /\ file \in Known(server) \cup {None} /\ Fine(server, app, queue)
      /\ AppOK(server, app) /\ QueueOK(server, app, queue) /\ Moving(app, queue) /\ app \in App
      /\ app.login \in Nat /\ n \in Grants \cup {None}
  BY AppFields, KnownGrants DEF IInv, Fine, Sound, AppOK
<1>1. app.flow.gen = app.login /\ app.top = "login" /\ ~app.leaving
  BY <1>0 DEF AppOK, FlowOK
<1>2. m \in Message
  BY <1>0, <1>1, Said
<1>3. m.kind = "login" /\ m.gen = app.login /\ m.result = result /\ m.grant = n
  BY <1>1
<1>4. queue' = Append(queue, m)
  BY DEF Send
<1> HIDE DEF m
<1>5. /\ app' \in App /\ app'.request = app.request /\ app'.check = app.check
      /\ app'.session = app.session /\ app'.bootstrap = app.bootstrap /\ app'.login = app.login
      /\ app'.me = app.me /\ app'.top = app.top /\ app'.retry = app.retry
      /\ app'.leaving = app.leaving
      /\ app'.paused = app.paused /\ app'.flow.at = "none" /\ app'.pending = app.pending
      /\ app'.busy = app.busy /\ app'.shows = app.shows /\ app'.signout = app.signout
      /\ app'.grant = app.grant
  BY <1>0, NoTasks DEF App
<1>6. \A k : Decides(app', k) <=> Decides(app, k)
  BY <1>5, SameChecks
<1>7. AppOK(server, app')
  <2>1. MemberOK(server, app')
    BY <1>0, <1>5 DEF AppOK, MemberOK, SpeaksFor
  <2>2. RequestsOK(server, app')
    BY <1>0, <1>5 DEF AppOK, RequestsOK
  <2>3. ChecksOK(server, app')
    BY <1>0, <1>5, <1>6 DEF AppOK, ChecksOK
  <2>4. FlowOK(app')
    BY <1>5 DEF FlowOK
  <2> QED BY <1>5, <2>1, <2>2, <2>3, <2>4 DEF AppOK
<1>8. \A x \in Sent(queue) : ~IsLogin(app, x) /\ ~IsVerdict(app, x)
  BY <1>0, <1>1 DEF QueueOK, Heard
<1>9. QueueOK(server, app', queue)
  <2>1. Later(app, app')
    BY <1>0, <1>5, AppFields DEF Later
  <2>2. ASSUME NEW x \in Sent(queue) PROVE Lasts(server, app, server, app', x)
    BY <1>5, <1>8 DEF Lasts
  <2> QED BY <1>0, <1>5, <2>1, <2>2, SameServer, QueueStays
<1>10. Heard(server, app', m)
  <2>1. m.result = "ok" => Carries(server, m) /\ SpeaksFor(server, app', OwnerIn(server, m.grant))
    BY <1>3, <1>5 DEF Carries, SpeaksFor
  <2>2. ~IsResult(app', m) /\ ~IsVerdict(app', m)
    BY <1>3 DEF IsResult, IsVerdict
  <2>3. app.login <= app.login
    BY <1>0
  <2> QED BY <1>1, <1>2, <1>3, <1>5, <2>1, <2>2, <2>3 DEF Heard
<1>11. QueueOK(server, app', queue') /\ Sent(queue') = Sent(queue) \cup {m}
  <2>1. /\ ~IsVerdict(app', m)
        /\ \A x \in Sent(queue) : ~IsLogin(app', x)
    BY <1>3, <1>5, <1>8 DEF IsVerdict, IsLogin
  <2> QED BY <1>4, <1>9, <1>10, <2>1, QueueGrows
<1>12. Moving(app', queue')
  <2>1. app.me = Nobody /\ ~app.pending
    BY <1>0, <1>1 DEF AppOK, MemberOK
  <2> QED BY <1>1, <1>5, <2>1 DEF Moving
<1>13. \A t \in app'.busy : Awaited(app', queue', t)
  <2>1. Sent(queue) \subseteq Sent(queue')
    BY <1>11
  <2> QED BY <1>0, <1>5, <2>1, StillAwaited DEF Fine
<1> QED BY <1>0, <1>7, <1>11, <1>12, <1>13 DEF IInv, Fine, Sound

\* The grant of a flow is in the client before its verdict comes.
LEMMA FinishLoginKeeps == IInv /\ FinishLogin => IInv'
<1> SUFFICES ASSUME IInv, FinishLogin PROVE IInv'
  OBVIOUS
<1>1. CASE /\ Send("login", app.flow.gen, Nobody, "ends", None)
           /\ app' = [app EXCEPT !.flow = NoLogin]
           /\ UNCHANGED <<file, server>>
  <2>1. "ends" \in Results /\ app.flow.at # "none"
    BY DEF Results, FinishLogin
  <2> QED BY <1>1, <2>1, LoginReports
<1>2. CASE /\ server.issued < MaxGrant
           /\ \E u \in Accounts : server' = Minted(server, u)
           /\ file' = server.issued + 1
           /\ app' = [app EXCEPT !.grant = server.issued + 1, !.paused = FALSE,
                                 !.flow = [@ EXCEPT !.at = "verifying"]]
           /\ UNCHANGED queue
  <2> DEFINE new == server.issued + 1
             flow == [app.flow EXCEPT !.at = "verifying"]
  <2>0. /\ ServerOK(server) /\ file \in Known(server) \cup {None} /\ Fine(server, app, queue)
        /\ AppOK(server, app) /\ QueueOK(server, app, queue) /\ Moving(app, queue) /\ app \in App
        /\ app.flow.at = "asking"
    BY DEF IInv, FinishLogin, Fine, Sound, AppOK
  <2>1. ServerOK(server') /\ Grows(server, server') /\ new \in Known(server')
    BY <1>2, <2>0, MintedServer
  <2>2. new \in Grants
    BY <2>1, KnownGrants
  <2>3. app.flow.gen = app.login /\ app.top = "login" /\ ~app.leaving
        /\ app.me = Nobody /\ ~app.pending
    BY <2>0 DEF AppOK, FlowOK, MemberOK
  <2>4. flow \in Login /\ flow.gen = app.login /\ flow.at = "verifying"
    BY <2>0, <2>3, AppFields DEF Login
  <2>5. app' = [app EXCEPT !.grant = new, !.paused = FALSE, !.flow = flow] /\ file' = new
    BY <1>2
  <2> HIDE DEF new, flow
  <2>6. /\ app' \in App /\ app'.request = app.request /\ app'.check = app.check
        /\ app'.session = app.session /\ app'.bootstrap = app.bootstrap /\ app'.login = app.login
        /\ app'.me = app.me /\ app'.top = app.top /\ app'.retry = app.retry
        /\ app'.leaving = app.leaving
        /\ ~app'.paused /\ app'.flow = flow /\ app'.pending = app.pending
        /\ app'.busy = app.busy /\ app'.shows = app.shows /\ app'.signout = app.signout
        /\ app'.grant = new
    BY <2>0, <2>2, <2>4, <2>5 DEF App
  <2>7. \A k : Decides(app', k) <=> Decides(app, k)
    BY <2>6, SameChecks
  <2>8. AppOK(server', app)
    BY <2>0, <2>1, AppGrows
  <2>9. AppOK(server', app')
    <3>1. MemberOK(server', app')
      BY <2>1, <2>3, <2>6, <2>8 DEF AppOK, MemberOK
    <3>2. RequestsOK(server', app')
      BY <2>6, <2>8 DEF AppOK, RequestsOK
    <3>3. ChecksOK(server', app')
      BY <2>6, <2>7, <2>8 DEF AppOK, ChecksOK
    <3>4. FlowOK(app')
      BY <2>3, <2>4, <2>6 DEF FlowOK
    <3> QED BY <2>6, <3>1, <3>2, <3>3, <3>4 DEF AppOK
  <2>10. QueueOK(server', app', queue)
    <3>1. Later(app, app')
      BY <2>0, <2>6, AppFields DEF Later
    <3>2. ASSUME NEW m \in Sent(queue) PROVE Lasts(server, app, server', app', m)
      <4>1. ~IsLogin(app, m) /\ ~IsVerdict(app, m)
        BY <2>0, <2>3 DEF QueueOK, Heard
      <4> QED BY <2>6, <4>1 DEF Lasts
    <3> QED BY <2>0, <2>1, <2>6, <3>1, <3>2, QueueStays
  <2>11. Moving(app', queue)
    BY <2>3, <2>6 DEF Moving
  <2>12. \A t \in app'.busy : Awaited(app', queue, t)
    BY <2>0, <2>6, StillAwaited DEF Fine
  <2> QED BY <1>2, <2>1, <2>5, <2>9, <2>10, <2>11, <2>12 DEF IInv, Fine, Sound
<1> QED BY <1>1, <1>2 DEF FinishLogin

\* The flow's verdict speaks of the client's grant.
LEMMA VerifyLoginKeeps == IInv /\ VerifyLogin => IInv'
<1> SUFFICES ASSUME IInv, VerifyLogin PROVE IInv'
  OBVIOUS
<1>0. /\ ServerOK(server) /\ AppOK(server, app)
      /\ app.flow.at = "verifying" /\ app' = [app EXCEPT !.flow = NoLogin]
      /\ UNCHANGED <<file, server>>
  BY DEF IInv, VerifyLogin, Fine, Sound
<1>1. ~app.paused /\ app.flow.at # "none"
  BY <1>0 DEF AppOK, FlowOK
<1>2. CASE Live(app.grant) /\ Send("login", app.flow.gen, Nobody, "ok", app.grant)
  <2>1. app.grant \in Known(server) /\ app.grant # None /\ "ok" \in Results
    BY <1>0, <1>2, KnownGrants DEF Live, AppOK, MemberOK, Results, None
  <2> QED BY <1>0, <1>1, <1>2, <2>1, LoginReports
<1>3. ASSUME NEW result \in {"ends", "fails"},
             Send("login", app.flow.gen, Nobody, result, None)
             \/ Send("login", app.flow.gen, Nobody, result, app.grant)
      PROVE  IInv'
  <2>1. result \in Results /\ result # "ok"
    BY DEF Results
  <2>2. app.grant \in Known(server) \cup {None}
    BY <1>0 DEF AppOK, MemberOK
  <2> QED BY <1>0, <1>1, <1>3, <2>1, <2>2, LoginReports
<1> QED BY <1>2, <1>3 DEF VerifyLogin

\* A sign-out's task has the generation that end_session made current.
LEMMA LogoutKeeps == IInv /\ Logout => IInv'
<1> SUFFICES ASSUME IInv, Logout PROVE IInv'
  OBVIOUS
<1> DEFINE o == CHOOSE o \in Free(app.signout) : TRUE
           gen == app.session + 1
           new == [at |-> "taking", gen |-> gen, grant |-> None]
           c == EndSession(app)
           signout == [c.signout EXCEPT ![o] = new]
<1>0. /\ ServerOK(server) /\ file \in Known(server) \cup {None}
      /\ AppOK(server, app) /\ QueueOK(server, app, queue) /\ app \in App
      /\ ~(app.me = Nobody /\ app.top = "login")
      /\ app' = [c EXCEPT !.leaving = TRUE, !.signout = signout]
      /\ server' = server /\ file' = file /\ queue' = queue
      /\ app.session \in Nat /\ gen \in Nat
  BY AppFields DEF IInv, Logout, Fine, Sound, AppOK
<1>1. app.top = "home" /\ app.flow.at = "none"
  BY <1>0, AppFields DEF AppOK, MemberOK, FlowOK
<1>2. o \in Free(app.signout)
  BY DEF Logout
<1>3. o \in Logouts
  BY <1>0, <1>2, AppFields DEF Free
<1>4. new \in SignOut /\ new.at = "taking" /\ new.gen = gen
  BY <1>0 DEF SignOut, None
<1> HIDE DEF o, new
<1>5. Fine(server, c, queue)
  BY <1>0, <1>1, Ends
<1>6. /\ c \in App /\ Alike(app, c) /\ c.session = app.session + 1
      /\ c.me = Nobody /\ c.top = "login" /\ ~c.pending /\ c.busy = {}
  BY <1>0, EndSessionFields
<1> HIDE DEF c
<1>7. signout \in [Logouts -> SignOut] /\ signout[o] = new
  BY <1>3, <1>4, <1>6, AppFields
<1> HIDE DEF signout
<1>8. /\ app' \in App /\ app'.request = c.request /\ app'.check = c.check
      /\ app'.session = c.session /\ app'.bootstrap = c.bootstrap /\ app'.login = c.login
      /\ app'.me = c.me /\ app'.top = c.top /\ app'.retry = c.retry
      /\ app'.leaving
      /\ app'.paused = c.paused /\ app'.flow = c.flow /\ app'.pending = c.pending
      /\ app'.busy = c.busy /\ app'.shows = c.shows /\ app'.signout = signout
      /\ app'.grant = c.grant
  BY <1>0, <1>6, <1>7 DEF App
<1>9. \A k : Decides(app', k) <=> Decides(c, k)
  BY <1>8, SameChecks
<1>10. c.flow.at = "none"
  BY <1>1, <1>6 DEF Alike
<1>11. AppOK(server, c) /\ QueueOK(server, c, queue)
  BY <1>5 DEF Fine, Sound
<1>12. AppOK(server, app')
  <2>1. MemberOK(server, app')
    BY <1>6, <1>8, <1>11 DEF AppOK, MemberOK, SpeaksFor
  <2>2. RequestsOK(server, app')
    BY <1>8, <1>11 DEF AppOK, RequestsOK
  <2>3. ChecksOK(server, app')
    BY <1>8, <1>9, <1>11 DEF AppOK, ChecksOK
  <2>4. FlowOK(app')
    BY <1>8, <1>10 DEF FlowOK
  <2> QED BY <1>8, <2>1, <2>2, <2>3, <2>4 DEF AppOK
<1>13. QueueOK(server, app', queue)
  <2>1. Later(app, app')
    BY <1>0, <1>6, <1>8, AppFields, EndSessionFields DEF Later, Alike, c
  <2>2. ASSUME NEW m \in Sent(queue) PROVE Lasts(server, app, server, app', m)
    <3>1. ~IsLogin(app, m) /\ app'.session > app.session /\ app'.bootstrap > app.bootstrap
      BY <1>0, <1>1, <1>6, <1>8, AppFields, EndSessionFields DEF QueueOK, Heard, c
    <3> QED BY <3>1 DEF Lasts
  <2> QED BY <1>0, <1>8, <2>1, <2>2, SameServer, QueueStays
<1>14. Leaves(app', queue)
  BY <1>3, <1>4, <1>6, <1>7, <1>8 DEF Leaves, gen
<1>15. Moving(app', queue)
  BY <1>6, <1>8, <1>14 DEF Moving
<1> QED BY <1>0, <1>6, <1>8, <1>12, <1>13, <1>15 DEF IInv, Fine, Sound

\* A task of a sign-out goes on or ends with a report.
LEMMA SignOutReports ==
  ASSUME NEW s, ServerOK(s), NEW t, ServerOK(t), Grows(s, t), NEW a, NEW q, Fine(s, a, q),
         NEW o \in Logouts, a.signout[o].at # "none", NEW new \in SignOut,
         NEW m \in Message, m.kind \in {"snapshot", "loggedout"}, m.gen = a.signout[o].gen
  PROVE  Fine(t, [a EXCEPT !.signout = [@ EXCEPT ![o] = new]], Append(q, m))
<1> DEFINE signout == [a.signout EXCEPT ![o] = new]
           b == [a EXCEPT !.signout = signout]
           p == Append(q, m)
<1>0. a \in App /\ AppOK(s, a) /\ QueueOK(s, a, q) /\ Moving(a, q)
  BY DEF Fine, Sound, AppOK
<1>1. /\ signout \in [Logouts -> SignOut]
      /\ \A x \in Logouts \ {o} : signout[x] = a.signout[x]
  BY <1>0, AppFields
<1> HIDE DEF signout, p
<1>2. /\ b \in App /\ b.request = a.request /\ b.check = a.check
      /\ b.session = a.session /\ b.bootstrap = a.bootstrap /\ b.login = a.login
      /\ b.me = a.me /\ b.top = a.top /\ b.retry = a.retry /\ b.leaving = a.leaving
      /\ b.paused = a.paused /\ b.flow = a.flow /\ b.pending = a.pending
      /\ b.busy = a.busy /\ b.shows = a.shows /\ b.signout = signout /\ b.grant = a.grant
  BY <1>0, <1>1 DEF App
<1> HIDE DEF b
<1>3. \A k : Decides(b, k) <=> Decides(a, k)
  BY <1>2, SameChecks
<1>4. AppOK(t, a) /\ Says(s, a, t, a)
  BY <1>0, AppGrows
<1>5. AppOK(t, b)
  <2>1. MemberOK(t, b)
    BY <1>2, <1>4 DEF AppOK, MemberOK, SpeaksFor
  <2>2. RequestsOK(t, b)
    BY <1>2, <1>4 DEF AppOK, RequestsOK
  <2>3. ChecksOK(t, b)
    BY <1>2, <1>3, <1>4 DEF AppOK, ChecksOK
  <2>4. FlowOK(b)
    BY <1>2, <1>4 DEF AppOK, FlowOK
  <2> QED BY <1>2, <2>1, <2>2, <2>3, <2>4 DEF AppOK
<1>6. Calm(s, a, t, b)
  BY <1>2, <1>4 DEF Calm, Says, SpeaksFor
<1>7. QueueOK(t, b, q)
  BY <1>0, <1>2, <1>3, <1>6, CalmQueue
<1>8. Heard(t, b, m) /\ ~IsLogin(b, m) /\ ~IsVerdict(b, m)
  BY DEF Heard, IsLogin, IsVerdict, IsResult
<1>9. QueueOK(t, b, p) /\ Sent(p) = Sent(q) \cup {m}
  BY <1>7, <1>8, QueueGrows DEF p
<1>10. Moving(b, p)
  <2>1. ASSUME NEW x \in Logouts, a.signout[x].at # "none", a.signout[x].gen = a.session
        PROVE  Leaves(b, p)
    <3>1. CASE x = o
      BY <1>2, <1>9, <2>1, <3>1 DEF Leaves, IsSignOut
    <3>2. CASE x # o
      BY <1>1, <1>2, <2>1, <3>2 DEF Leaves
    <3> QED BY <3>1, <3>2
  <2>2. \A k \in Checks : Decides(a, k) => Coming(b, p)
    BY <1>3 DEF Coming
  <2> QED BY <1>0, <1>6, <1>9, <2>1, <2>2, CalmMoving
<1>11. \A x \in b.busy : Awaited(b, p, x)
  <2>1. Sent(q) \subseteq Sent(p)
    BY <1>9
  <2> QED BY <1>2, <2>1, StillAwaited DEF Fine
<1>12. Fine(t, b, p)
  BY <1>5, <1>9, <1>10, <1>11 DEF Fine, Sound
<1> QED BY <1>12 DEF b, signout, p

\* take_tokens, and its report.
LEMMA TakeTokensKeeps == ASSUME NEW o \in Logouts PROVE IInv /\ TakeTokens(o) => IInv'
<1> SUFFICES ASSUME IInv, TakeTokens(o) PROVE IInv'
  OBVIOUS
<1> DEFINE s == app.signout[o]
           m == [kind |-> "snapshot", gen |-> s.gen, task |-> Nobody, result |-> "ok",
                 grant |-> None]
<1>0. /\ ServerOK(server) /\ file \in Known(server) \cup {None} /\ Fine(server, app, queue)
      /\ app \in App /\ app.grant \in Grants \cup {None} /\ server' = server /\ s.at = "taking"
      /\ s \in SignOut
  BY AppFields DEF IInv, TakeTokens, Fine, Sound, AppOK
<1>1. /\ m \in Message /\ m.kind = "snapshot" /\ m.gen = s.gen
  BY <1>0, Said DEF SignOut, Results
<1>2. queue' = Append(queue, m)
  BY DEF TakeTokens, Send
<1> HIDE DEF m
<1>3. ASSUME NEW new \in SignOut
      PROVE  Fine(server, [app EXCEPT !.signout = [@ EXCEPT ![o] = new]], queue')
  BY <1>0, <1>1, <1>2, SameServer, SignOutReports
<1>4. CASE /\ app' = [app EXCEPT !.grant = None, !.signout = [@ EXCEPT ![o] =
                        [s EXCEPT !.at = "revoking", !.grant = app.grant]]]
           /\ file' = IF file = app.grant THEN None ELSE file
  <2> DEFINE new == [s EXCEPT !.at = "revoking", !.grant = app.grant]
             b == [app EXCEPT !.signout = [@ EXCEPT ![o] = new]]
  <2>1. new \in SignOut
    <3> HIDE DEF s
    <3> QED BY <1>0 DEF SignOut
  <2>2. app' = [b EXCEPT !.grant = None]
    BY <1>0, <1>4 DEF App
  <2> HIDE DEF new
  <2>3. Fine(server, b, queue')
    BY <1>3, <2>1
  <2> HIDE DEF b
  <2>4. Fine(server, app', queue')
    BY <1>0, <2>2, <2>3, Forgets
  <2> QED BY <1>0, <1>4, <2>4 DEF IInv
<1>5. CASE /\ app' = [app EXCEPT !.signout = [@ EXCEPT ![o] = [s EXCEPT !.at = "revoking"]]]
           /\ UNCHANGED file
  <2> DEFINE new == [s EXCEPT !.at = "revoking"]
  <2>1. new \in SignOut
    <3> HIDE DEF s
    <3> QED BY <1>0 DEF SignOut
  <2> HIDE DEF new
  <2>2. Fine(server, app', queue')
    BY <1>3, <1>5, <2>1 DEF new
  <2> QED BY <1>0, <1>5, <2>2 DEF IInv
<1> QED BY <1>4, <1>5 DEF TakeTokens

\* The revocations, and their report.
LEMMA RevokeKeeps == ASSUME NEW o \in Logouts PROVE IInv /\ Revoke(o) => IInv'
<1> SUFFICES ASSUME IInv, Revoke(o) PROVE IInv'
  OBVIOUS
<1> DEFINE s == app.signout[o]
           m == [kind |-> "loggedout", gen |-> s.gen, task |-> Nobody, result |-> "ok",
                 grant |-> None]
           gone == {s.grant} \ {None}
<1>0. /\ ServerOK(server) /\ file \in Known(server) \cup {None} /\ Fine(server, app, queue)
      /\ app \in App /\ file' = file /\ s.at = "revoking" /\ s \in SignOut
      /\ app' = [app EXCEPT !.signout = [@ EXCEPT ![o] = NoSignOut]]
  BY AppFields DEF IInv, Revoke, Fine, Sound, AppOK
<1>1. m \in Message /\ m.kind = "loggedout" /\ m.gen = s.gen
  BY <1>0, Said DEF SignOut, Results
<1>2. queue' = Append(queue, m)
  BY DEF Revoke, Send
<1> HIDE DEF m
<1>3. gone \in SUBSET Grants
  BY <1>0 DEF SignOut
<1>4. server' = [server EXCEPT !.dead = server.dead \cup gone] \/ server' = server
  BY DEF Revoke
<1> HIDE DEF gone
<1>5. ServerOK(server') /\ Grows(server, server')
  BY <1>0, <1>3, <1>4, KilledServer, SameServer
<1>6. Fine(server', app', queue')
  BY <1>0, <1>1, <1>2, <1>5, NoTasks, SignOutReports
<1> QED BY <1>0, <1>5, <1>6 DEF IInv, Grows

----------------------------------------------------------------------------
\* handle_msg.  Message m came first, and the queue q waits behind it.
First(s, a, m, q) ==
  /\ AppOK(s, a) /\ QueueOK(s, a, q) /\ Heard(s, a, m)
  /\ IsLogin(a, m) => \A x \in Sent(q) : ~IsLogin(a, x)
  /\ a.me = Nobody /\ IsVerdict(a, m) => \A x \in Sent(q) : ~IsVerdict(a, x)

\* A message that means nothing any more is let go.
LEMMA LetGo ==
  ASSUME NEW s, NEW a, NEW p, Fine(s, a, p), NEW m, NEW q,
         \A x \in Sent(p) : x = m \/ x \in Sent(q), QueueOK(s, a, q),
         ~IsVerdict(a, m), ~IsResult(a, m), ~IsSignOut(a, m)
  PROVE  Fine(s, a, q)
<1>1. Moving(a, q)
  BY DEF Fine, Sound, Moving, Leaves, Coming
<1>2. \A t \in a.busy : Awaited(a, q, t)
  BY DEF Fine, Awaited
<1> QED BY <1>1, <1>2 DEF Fine, Sound

\* The boundary: nothing but the request's own screen loses what it waits for.
LEMMA HandlesResult ==
  ASSUME ServerOK(server), NEW a, NEW p, Fine(server, a, p), NEW m, NEW q, First(server, a, m, q),
         \A x \in Sent(p) : x = m \/ x \in Sent(q), m.kind = "result",
         Recheckable(a, m.result) => Free(a.check) # {}
  PROVE  Fine(server, HandleResult(a, m), q)
<1>0. /\ AppOK(server, a) /\ QueueOK(server, a, q) /\ Heard(server, a, m) /\ a \in App /\ m \in Message
      /\ m.task \in Requests /\ m.result \in Results
  BY DEF First, AppOK, Heard, Message
<1>1. CASE m.gen # a.session
  <2>1. HandleResult(a, m) = a /\ ~IsVerdict(a, m) /\ ~IsResult(a, m) /\ ~IsSignOut(a, m)
    BY <1>1 DEF HandleResult, IsVerdict, IsResult, IsSignOut
  <2> QED BY <1>0, <2>1, LetGo
<1>2. CASE m.gen = a.session
  <2>1. a.me # Nobody /\ (m.result = "ok" => OwnerIn(server, m.grant) = a.me)
    BY <1>0, <1>2 DEF Heard, IsResult
  <2>2. a.top = "home"
    BY <1>0, <2>1 DEF AppOK, MemberOK
  <2>3. HandleResult(a, m) = Delivered(Judged(a, m.result), m)
    BY <1>2 DEF HandleResult
  <2>4. \A t \in a.busy \ {m.task} : Awaited(a, q, t)
    BY DEF Fine, Awaited
  <2>5. ~IsVerdict(a, m) /\ ~IsSignOut(a, m)
    BY DEF IsVerdict, IsSignOut
  <2>6. Moving(a, q)
    BY <2>5 DEF Fine, Sound, Moving, Leaves, Coming
  <2>7. CASE Judged(a, m.result) = a
    <3>1. Sound(server, a, q)
      BY <1>0, <2>6 DEF Sound
    <3> QED BY <1>0, <2>1, <2>3, <2>4, <2>7, <3>1, Delivers
  <2>8. CASE Recheckable(a, m.result) /\ Judged(a, m.result) = RecheckStoredSession(a)
    <3> DEFINE b == RecheckStoredSession(a)
    <3>1. /\ Sound(server, b, q)
          /\ b.session = a.session /\ b.request = a.request
          /\ b.busy = a.busy /\ b.me = a.me /\ b.shows = a.shows
      BY <1>0, <2>1, <2>8, Rechecks
    <3> HIDE DEF b
    <3>2. \A t \in b.busy \ {m.task} : Awaited(b, q, t)
      BY <2>4, <3>1, StillAwaited
    <3>3. Fine(server, Delivered(b, m), q)
      BY <1>0, <2>1, <3>1, <3>2, Delivers
    <3> QED BY <2>3, <2>8, <3>3 DEF b
  <2>9. CASE m.result # "ok" /\ Judged(a, m.result) = EndSession(a)
    <3>1. Fine(server, EndSession(a), q)
      BY <1>0, <2>2, Ends
    <3>2. Fine(server, Delivered(EndSession(a), m), q)
      BY <1>0, <2>9, <3>1, Delivers DEF Fine
    <3> QED BY <2>3, <2>9, <3>2
  <2>10. \/ Judged(a, m.result) = a
         \/ Recheckable(a, m.result) /\ Judged(a, m.result) = RecheckStoredSession(a)
         \/ m.result # "ok" /\ Judged(a, m.result) = EndSession(a)
    BY DEF Judged, Recheckable
  <2> QED BY <2>7, <2>8, <2>9, <2>10
<1> QED BY <1>1, <1>2

\* Bootstrap: a verdict that counts is the last to come for nobody.
LEMMA HandlesBootstrap ==
  ASSUME ServerOK(server), NEW a, NEW p, Fine(server, a, p), NEW m, NEW q, First(server, a, m, q),
         \A x \in Sent(p) : x = m \/ x \in Sent(q), m.kind = "bootstrap",
         Recheckable(a, m.result) => Free(a.check) # {}
  PROVE  Fine(server, HandleBootstrap(a, m), q)
<1> DEFINE c == [a EXCEPT !.pending = FALSE]
<1>0. /\ AppOK(server, a) /\ QueueOK(server, a, q) /\ Heard(server, a, m) /\ a \in App /\ m \in Message
      /\ m.result \in Results
      /\ ~IsResult(a, m) /\ ~IsSignOut(a, m)
  BY DEF First, AppOK, Heard, Message, IsResult, IsSignOut
<1>1. CASE m.gen # a.bootstrap
  <2>1. HandleBootstrap(a, m) = a /\ ~IsVerdict(a, m)
    BY <1>1 DEF HandleBootstrap, IsVerdict
  <2> QED BY <1>0, <2>1, LetGo
<1>2. CASE m.gen = a.bootstrap
  <2>1. /\ IsVerdict(a, m) /\ a.top = "home"
        /\ a.me = Nobody =>
             /\ ~Coming(a, q)
             /\ m.result = "ok" => Carries(server, m) /\ SpeaksFor(server, a, OwnerIn(server, m.grant))
        /\ a.me # Nobody => m.result # "ok"
    BY <1>0, <1>2 DEF Heard, First, IsVerdict, Coming
  <2>2. /\ AppOK(server, c) /\ QueueOK(server, c, q)
        /\ c.session = a.session /\ c.bootstrap = a.bootstrap
        /\ c.me = a.me /\ c.top = a.top /\ ~c.pending /\ c.tried = a.tried /\ c.grant = a.grant
        /\ c.busy = a.busy /\ c.request = a.request /\ c.check = a.check
    BY <1>0, Closes
  <2>3. \A t \in c.busy : Awaited(c, q, t)
    <3>1. \A t \in a.busy : Awaited(a, q, t)
      BY <1>0 DEF Fine, Awaited
    <3> QED BY <2>2, <3>1, StillAwaited
  <2>4. HandleBootstrap(a, m) = CASE m.result = "ok" -> SignedIn(c, Owner(m.grant))
                                  [] m.result = "fails" -> Unverified(c)
                                  [] OTHER -> Judged(c, m.result)
    BY <1>2 DEF HandleBootstrap
  <2> HIDE DEF c
  <2>5. c.me = Nobody => ~Coming(c, q)
    BY <2>1, <2>2 DEF Coming, Decides, IsVerdict
  <2>6. CASE m.result = "ok"
    <3>1. a.me = Nobody /\ OwnerIn(server, m.grant) \in Accounts
          /\ Owner(m.grant) = OwnerIn(server, m.grant)
      BY <2>1, <2>6, KnownGrants DEF Carries, Owner, OwnerIn
    <3>2. SpeaksFor(server, c, OwnerIn(server, m.grant))
      BY <2>1, <2>2, <2>6, <3>1 DEF SpeaksFor
    <3> QED BY <2>1, <2>2, <2>4, <2>5, <2>6, <3>1, <3>2, Restores
  <2>7. CASE m.result = "fails"
    BY <2>1, <2>2, <2>3, <2>4, <2>5, <2>7, Unverifies
  <2>8. CASE m.result \notin {"ok", "fails"}
    <3>0. HandleBootstrap(a, m) = Judged(c, m.result)
      BY <2>4, <2>8
    <3>1. CASE Recheckable(c, m.result)
      <4>1. Judged(c, m.result) = RecheckStoredSession(c) /\ c.me # Nobody /\ Free(c.check) # {}
        BY <2>2, <2>8, <3>1 DEF Judged, Recheckable
      <4> DEFINE b == RecheckStoredSession(c)
      <4>2. Sound(server, b, q) /\ b.session = c.session /\ b.request = c.request /\ b.busy = c.busy
        BY <2>2, <4>1, Rechecks
      <4> HIDE DEF b
      <4>3. \A t \in b.busy : Awaited(b, q, t)
        BY <2>3, <4>2, StillAwaited
      <4>4. Fine(server, b, q)
        BY <4>2, <4>3 DEF Fine
      <4> QED BY <3>0, <4>1, <4>4 DEF b
    <3>2. CASE ~Recheckable(c, m.result)
      <4>1. Judged(c, m.result) = EndSession(c)
        BY <2>2, <2>8, <3>2 DEF Judged
      <4> QED BY <2>1, <2>2, <3>0, <4>1, Ends
    <3> QED BY <3>1, <3>2
  <2> QED BY <2>6, <2>7, <2>8
<1> QED BY <1>1, <1>2

\* The recheck adopts the grant it verified, or r may try again.
LEMMA HandlesVerified ==
  ASSUME ServerOK(server), NEW a, NEW p, Fine(server, a, p), NEW m, NEW q, First(server, a, m, q),
         \A x \in Sent(p) : x = m \/ x \in Sent(q), m.kind = "verified"
  PROVE  Fine(server, HandleVerified(a, m), q)
<1>0. /\ AppOK(server, a) /\ QueueOK(server, a, q) /\ Heard(server, a, m) /\ a \in App
      /\ m.grant \in Known(server)
      /\ ~IsResult(a, m) /\ ~IsSignOut(a, m)
  BY DEF First, AppOK, Heard, Carries, IsResult, IsSignOut
<1>1. CASE m.gen # a.bootstrap
  <2>1. HandleVerified(a, m) = a /\ ~IsVerdict(a, m)
    BY <1>1 DEF HandleVerified, IsVerdict
  <2> QED BY <1>0, <2>1, LetGo
<1>2. CASE m.gen = a.bootstrap
  <2>1. a.me # Nobody /\ a.top = "home"
    BY <1>0, <1>2 DEF Heard, IsVerdict
  <2>2. CASE file = m.grant
    <3>1. Owner(m.grant) = OwnerIn(server, m.grant)
      BY DEF Owner, OwnerIn
    <3>2. HandleVerified(a, m)
            = SignedIn([CancelRecoveredWork(a) EXCEPT !.grant = m.grant, !.paused = FALSE,
                                                      !.pending = FALSE],
                       OwnerIn(server, m.grant))
      BY <1>2, <2>2, <3>1 DEF HandleVerified
    <3> QED BY <1>0, <2>1, <3>2, Adopts
  <2>3. CASE file # m.grant
    <3> DEFINE c == [a EXCEPT !.pending = FALSE]
    <3>1. HandleVerified(a, m) = Unverified(c)
      BY <1>2, <2>3 DEF HandleVerified
    <3>2. /\ AppOK(server, c) /\ QueueOK(server, c, q) /\ c.session = a.session
          /\ c.me = a.me /\ c.top = a.top /\ ~c.pending
          /\ c.busy = a.busy /\ c.request = a.request
      BY <1>0, Closes
    <3>3. \A t \in c.busy : Awaited(c, q, t)
      <4>1. \A t \in a.busy : Awaited(a, q, t)
        BY <1>0 DEF Fine, Awaited
      <4> QED BY <3>2, <4>1, StillAwaited
    <3> HIDE DEF c
    <3> QED BY <2>1, <3>1, <3>2, <3>3, Unverifies
  <2> QED BY <2>2, <2>3
<1> QED BY <1>1, <1>2

\* LoginComplete: of a flow that is over, and the only one of it.
LEMMA HandlesLogin ==
  ASSUME ServerOK(server), NEW a, NEW p, Fine(server, a, p), NEW m, NEW q, First(server, a, m, q),
         \A x \in Sent(p) : x = m \/ x \in Sent(q), m.kind = "login"
  PROVE  Fine(server, HandleLogin(a, m), q)
<1>0. /\ AppOK(server, a) /\ QueueOK(server, a, q) /\ Heard(server, a, m) /\ a \in App
      /\ ~IsResult(a, m) /\ ~IsSignOut(a, m) /\ ~IsVerdict(a, m)
  BY DEF First, AppOK, Heard, Carries, IsResult, IsSignOut, IsVerdict
<1>1. CASE m.gen = a.login /\ m.result \in {"ok", "fails"}
  <2>1. /\ a.top = "login" /\ a.flow.at = "none" /\ ~a.leaving /\ ~a.paused
        /\ m.result = "ok" => Carries(server, m) /\ SpeaksFor(server, a, OwnerIn(server, m.grant))
        /\ \A x \in Sent(q) : ~IsLogin(a, x)
    BY <1>0, <1>1 DEF Heard, First, IsLogin
  <2>2. CASE m.result = "ok"
    <3> DEFINE u == OwnerIn(server, m.grant)
    <3>1. u \in Accounts /\ Owner(m.grant) = u /\ SpeaksFor(server, a, u)
      BY <2>1, <2>2, KnownGrants DEF Carries, Owner, OwnerIn
    <3> HIDE DEF u
    <3>2. HandleLogin(a, m) = [BeginSession(a) EXCEPT !.me = u, !.top = "home"]
      BY <1>1, <2>2, <3>1 DEF HandleLogin
    <3>3. Fine(server, [BeginSession(a) EXCEPT !.me = u, !.top = "home"], q)
      BY <1>0, <2>1, <3>1, LogsIn
    <3> QED BY <3>2, <3>3
  <2>3. CASE m.result = "fails"
    <3> DEFINE b == [a EXCEPT !.top = "home", !.retry = TRUE]
    <3>1. HandleLogin(a, m) = b
      BY <1>1, <2>3 DEF HandleLogin
    <3>2. /\ b \in App /\ b.request = a.request /\ b.check = a.check
          /\ b.session = a.session /\ b.bootstrap = a.bootstrap /\ b.login = a.login
          /\ b.me = a.me /\ b.top = "home" /\ b.retry /\ b.leaving = a.leaving
          /\ b.paused = a.paused /\ b.flow = a.flow /\ b.pending = a.pending
          /\ b.busy = a.busy /\ b.shows = a.shows /\ b.signout = a.signout /\ b.grant = a.grant
      BY <1>0 DEF App
    <3> HIDE DEF b
    <3>3. a.me = Nobody /\ ~a.pending /\ a.busy = {}
      BY <1>0, <2>1 DEF AppOK, MemberOK
    <3>4. \A k \in Checks : ~Decides(b, k) /\ ~Decides(a, k)
      BY <1>0, <2>1, <3>2 DEF AppOK, ChecksOK, Decides
    <3>5. AppOK(server, b)
      <4>1. MemberOK(server, b)
        BY <1>0, <2>1, <3>2, <3>3 DEF AppOK, MemberOK
      <4>2. RequestsOK(server, b)
        BY <1>0, <3>2 DEF AppOK, RequestsOK
      <4>3. ChecksOK(server, b)
        BY <1>0, <3>2, <3>4 DEF AppOK, ChecksOK
      <4>4. FlowOK(b)
        BY <2>1, <3>2 DEF FlowOK
      <4> QED BY <3>2, <4>1, <4>2, <4>3, <4>4 DEF AppOK
    <3>6. QueueOK(server, b, q)
      <4>1. Later(a, b)
        BY <1>0, <3>2, AppFields DEF Later
      <4>2. ASSUME NEW x \in Sent(q) PROVE Lasts(server, a, server, b, x)
        <5>1. ~IsVerdict(a, x) /\ ~IsLogin(a, x)
          BY <1>0, <2>1 DEF QueueOK, Heard
        <5> QED BY <3>2, <5>1 DEF Lasts
      <4> QED BY <1>0, <3>2, <4>1, <4>2, SameServer, QueueStays
    <3>7. Moving(b, q)
      BY <2>1, <3>2, <3>3 DEF Moving
    <3> QED BY <3>1, <3>2, <3>3, <3>5, <3>6, <3>7 DEF Fine, Sound
  <2> QED BY <1>1, <2>2, <2>3
<1>2. CASE ~(m.gen = a.login /\ m.result \in {"ok", "fails"})
  <2>1. HandleLogin(a, m) = a
    BY <1>2 DEF HandleLogin
  <2> QED BY <1>0, <2>1, LetGo
<1> QED BY <1>1, <1>2

\* LogoutSnapshot and LoggedOut: a login may begin again.
LEMMA HandlesSignOut ==
  ASSUME ServerOK(server), NEW a, NEW p, Fine(server, a, p), NEW m, NEW q, First(server, a, m, q),
         \A x \in Sent(p) : x = m \/ x \in Sent(q), m.kind \in {"snapshot", "loggedout"}
  PROVE  Fine(server, HandleSignOut(a, m), q)
<1>0. /\ AppOK(server, a) /\ QueueOK(server, a, q) /\ a \in App
      /\ ~IsResult(a, m) /\ ~IsVerdict(a, m)
  BY DEF First, AppOK, IsResult, IsVerdict
<1>1. CASE m.gen = a.session
  <2> DEFINE b == [a EXCEPT !.leaving = FALSE]
  <2>1. HandleSignOut(a, m) = b
    BY <1>1 DEF HandleSignOut
  <2>2. /\ b \in App /\ b.request = a.request /\ b.check = a.check
        /\ b.session = a.session /\ b.bootstrap = a.bootstrap /\ b.login = a.login
        /\ b.me = a.me /\ b.top = a.top /\ b.retry = a.retry /\ ~b.leaving
        /\ b.paused = a.paused /\ b.flow = a.flow /\ b.pending = a.pending
        /\ b.busy = a.busy /\ b.shows = a.shows /\ b.signout = a.signout /\ b.grant = a.grant
    BY <1>0 DEF App
  <2> HIDE DEF b
  <2>3. \A k : Decides(b, k) <=> Decides(a, k)
    BY <2>2, SameChecks
  <2>4. AppOK(server, b)
    <3>1. MemberOK(server, b)
      BY <1>0, <2>2 DEF AppOK, MemberOK, SpeaksFor
    <3>2. RequestsOK(server, b)
      BY <1>0, <2>2 DEF AppOK, RequestsOK
    <3>3. ChecksOK(server, b)
      BY <1>0, <2>2, <2>3 DEF AppOK, ChecksOK
    <3>4. FlowOK(b)
      BY <1>0, <2>2 DEF AppOK, FlowOK
    <3> QED BY <2>2, <3>1, <3>2, <3>3, <3>4 DEF AppOK
  <2>5. QueueOK(server, b, q)
    <3>1. Later(a, b)
      BY <1>0, <2>2, AppFields DEF Later
    <3>2. ASSUME NEW x \in Sent(q) PROVE Lasts(server, a, server, b, x)
      BY <1>0, <2>2, <2>3 DEF QueueOK, Heard, Lasts, Says, SpeaksFor
    <3> QED BY <1>0, <2>2, <3>1, <3>2, SameServer, QueueStays
  <2>6. Coming(a, p) => Coming(b, q)
    BY <1>0, <2>2, <2>3 DEF Coming, IsVerdict
  <2>7. Moving(b, q)
    BY <2>2, <2>6 DEF Fine, Sound, Moving
  <2>8. \A t \in b.busy : Awaited(b, q, t)
    <3>1. \A t \in a.busy : Awaited(a, q, t)
      BY <1>0 DEF Fine, Awaited
    <3> QED BY <2>2, <3>1, StillAwaited
  <2> QED BY <2>1, <2>4, <2>5, <2>7, <2>8 DEF Fine, Sound
<1>2. CASE m.gen # a.session
  <2>1. HandleSignOut(a, m) = a /\ ~IsSignOut(a, m)
    BY <1>2 DEF HandleSignOut, IsSignOut
  <2> QED BY <1>0, <2>1, LetGo
<1> QED BY <1>1, <1>2

\* Each kind of message.
LEMMA HandleKeeps == IInv /\ Handle => IInv'
<1> SUFFICES ASSUME IInv, Handle PROVE IInv'
  OBVIOUS
<1> DEFINE m == Head(queue)
           q == Tail(queue)
<1>0. /\ ServerOK(server) /\ file \in Known(server) \cup {None} /\ Fine(server, app, queue)
      /\ AppOK(server, app) /\ QueueOK(server, app, queue)
      /\ queue # <<>> /\ queue' = q /\ server' = server /\ file' = file
      /\ Recheckable(app, m.result) => Free(app.check) # {}
  BY DEF IInv, Handle, Fine, Sound
<1>1. First(server, app, m, q) /\ \A x \in Sent(queue) : x = m \/ x \in Sent(q)
  BY <1>0, QueueShrinks DEF First
<1>2. m.kind \in {"result", "bootstrap", "verified", "login", "snapshot", "loggedout"}
  BY <1>1 DEF First, Heard, Message
<1>3. app' = CASE m.kind = "result" -> HandleResult(app, m)
               [] m.kind = "bootstrap" -> HandleBootstrap(app, m)
               [] m.kind = "verified" -> HandleVerified(app, m)
               [] m.kind = "login" -> HandleLogin(app, m)
               [] OTHER -> HandleSignOut(app, m)
  BY DEF Handle
<1> HIDE DEF m, q
<1>4. Fine(server, app', q)
  <2>1. CASE m.kind = "result"
    BY <1>0, <1>1, <1>3, <2>1, HandlesResult
  <2>2. CASE m.kind = "bootstrap"
    BY <1>0, <1>1, <1>3, <2>2, HandlesBootstrap
  <2>3. CASE m.kind = "verified"
    BY <1>0, <1>1, <1>3, <2>3, HandlesVerified
  <2>4. CASE m.kind = "login"
    BY <1>0, <1>1, <1>3, <2>4, HandlesLogin
  <2>5. CASE m.kind \in {"snapshot", "loggedout"}
    BY <1>0, <1>1, <1>3, <2>5, HandlesSignOut
  <2> QED BY <1>2, <2>1, <2>2, <2>3, <2>4, <2>5
<1> QED BY <1>0, <1>4 DEF IInv

----------------------------------------------------------------------------
\* The start.
LEMMA Starts == Init => IInv
<1> SUFFICES ASSUME Init PROVE IInv
  OBVIOUS
<1> DEFINE nothing == [issued |-> 0, owner |-> [n \in Grants |-> Nobody], dead |-> {}]
<1>1. ServerOK(nothing) /\ nothing.issued < MaxGrant /\ nothing.issued + 1 = 1
  BY SessionAssumption DEF ServerOK, Known
<1>2. \/ file = None /\ server = nothing
      \/ file = 1 /\ \E u \in Accounts : server = Minted(nothing, u)
  BY DEF Init
<1> HIDE DEF nothing
<1>3. ServerOK(server) /\ file \in Known(server) \cup {None}
  BY <1>1, <1>2, MintedServer
<1>4. /\ Fresh \in App /\ AppOK(server, Fresh)
      /\ Fresh.me = Nobody /\ Fresh.top = "home" /\ ~Fresh.retry /\ ~Fresh.paused /\ ~Fresh.pending
      /\ Fresh.busy = {} /\ Fresh.flow.at = "none" /\ ~Fresh.leaving /\ Fresh.login = 0
      /\ \A k \in Checks : ~Decides(Fresh, k) /\ Fresh.check[k].at = "none"
  <2> DEFINE request == [t \in Requests |-> NoRequest]
             check == [k \in Checks |-> NoCheck]
             signout == [o \in Logouts |-> NoSignOut]
  <2>1. /\ request \in [Requests -> Request] /\ \A t \in Requests : request[t].at = "none"
        /\ check \in [Checks -> Check] /\ \A k \in Checks : check[k].at = "none"
        /\ signout \in [Logouts -> SignOut]
    BY NoTasks
  <2>2. Fresh = [me |-> Nobody, top |-> "home", session |-> 0, bootstrap |-> 0, login |-> 0,
                 tried |-> FALSE, pending |-> FALSE, retry |-> FALSE, leaving |-> FALSE,
                 grant |-> file, paused |-> FALSE, busy |-> {}, shows |-> Nobody,
                 request |-> request, check |-> check, flow |-> NoLogin, signout |-> signout]
    BY DEF Fresh
  <2> HIDE DEF request, check, signout
  <2>3. file \in Grants \cup {None}
    BY <1>3, KnownGrants
  <2>4. Fresh \in App
    BY <2>1, <2>2, <2>3, NoTasks DEF App
  <2>5. /\ Fresh.me = Nobody /\ Fresh.top = "home" /\ ~Fresh.retry /\ ~Fresh.paused
        /\ ~Fresh.pending /\ Fresh.busy = {} /\ Fresh.flow.at = "none" /\ ~Fresh.leaving
        /\ Fresh.shows = Nobody /\ Fresh.grant = file /\ Fresh.login = 0
        /\ Fresh.request = request /\ Fresh.check = check
    BY <2>2, NoTasks
  <2>6. MemberOK(server, Fresh)
    BY <1>3, <2>5 DEF MemberOK
  <2>7. RequestsOK(server, Fresh) /\ ChecksOK(server, Fresh) /\ FlowOK(Fresh)
    BY <2>1, <2>5 DEF RequestsOK, ChecksOK, FlowOK, Decides
  <2> QED BY <2>1, <2>4, <2>5, <2>6, <2>7 DEF AppOK, Decides
<1>5. queue = <<>> /\ Sent(queue) = {}
  BY DEF Init, Sent
<1>6. \A a : QueueOK(server, a, queue)
  BY <1>5 DEF QueueOK, OneVerdict
<1>7. CASE file = None
  <2> DEFINE a == [Fresh EXCEPT !.top = "login"]
             next == a.login + 1
             flow == [at |-> "asking", gen |-> next]
  <2>1. a.login = 0 /\ ~a.leaving
    BY <1>4 DEF App
  <2>2. app = [a EXCEPT !.login = next, !.flow = flow]
    BY <1>7, <2>1 DEF Init, BeginLogin
  <2>3. next \in Nat /\ flow \in Login /\ flow.gen = next /\ flow.at = "asking"
    BY <2>1 DEF Login
  <2> HIDE DEF next, flow
  <2>4. app = [Fresh EXCEPT !.top = "login", !.login = next, !.flow = flow]
    BY <1>4, <2>2 DEF App
  <2>5. /\ app \in App /\ app.request = Fresh.request /\ app.check = Fresh.check
        /\ app.bootstrap = Fresh.bootstrap /\ app.login = next
        /\ app.me = Nobody /\ app.top = "login" /\ ~app.retry /\ ~app.leaving
        /\ ~app.paused /\ app.flow = flow /\ ~app.pending
        /\ app.busy = {} /\ app.shows = Fresh.shows /\ app.grant = Fresh.grant
    BY <1>4, <2>3, <2>4 DEF App
  <2>6. MemberOK(server, app) /\ RequestsOK(server, app)
    BY <1>4, <2>5 DEF AppOK, MemberOK, RequestsOK, SpeaksFor
  <2>7. ChecksOK(server, app) /\ FlowOK(app)
    BY <1>4, <2>3, <2>5 DEF ChecksOK, FlowOK, Decides
  <2>8. Moving(app, queue)
    BY <2>5 DEF Moving
  <2> QED BY <1>3, <1>6, <2>5, <2>6, <2>7, <2>8 DEF IInv, Fine, Sound, AppOK
<1>8. CASE file # None
  <2>1. app = Checking(Fresh, "restoring")
    BY <1>4, <1>8 DEF Init, RestoreSession
  <2>2. ~Coming(Fresh, queue)
    BY <1>4, <1>5 DEF Coming
  <2>3. Free(Fresh.check) # {}
    BY <1>4, AppFields, SessionAssumption DEF Free
  <2>4. Sound(server, app, queue) /\ app = [Fresh EXCEPT !.check = app.check]
    BY <1>3, <1>4, <1>6, <2>1, <2>2, <2>3, Checked
  <2>5. app.busy = {}
    BY <1>4, <2>4 DEF App
  <2> QED BY <1>3, <2>4, <2>5 DEF IInv, Fine
<1> QED BY <1>7, <1>8

----------------------------------------------------------------------------
\* Every step of the system keeps the invariant.
LEMMA Keeps == IInv /\ [Next]_vars => IInv'
<1> SUFFICES ASSUME IInv, [Next]_vars PROVE IInv'
  OBVIOUS
<1>1. CASE Sibling
  BY <1>1, SiblingKeeps
<1>2. CASE Refresh
  BY <1>2, RefreshKeeps
<1>3. ASSUME NEW t \in Requests, Start(t) PROVE IInv'
  BY <1>3, StartKeeps
<1>4. ASSUME NEW t \in Requests, Dispatch(t) PROVE IInv'
  BY <1>4, DispatchKeeps
<1>5. ASSUME NEW t \in Requests, Answer(t) PROVE IInv'
  BY <1>5, AnswerKeeps
<1>6. ASSUME NEW k \in Checks, Restore(k) PROVE IInv'
  BY <1>6, RestoreKeeps
<1>7. ASSUME NEW k \in Checks, PrepareCandidate(k) PROVE IInv'
  BY <1>7, PrepareCandidateKeeps
<1>8. ASSUME NEW k \in Checks, VerifyRecovery(k) PROVE IInv'
  BY <1>8, VerifyRecoveryKeeps
<1>9. ASSUME NEW k \in Checks, ReportDropped(k) PROVE IInv'
  BY <1>9, ReportDroppedKeeps
<1>10. CASE RecoveryTimesOut
  BY <1>10, RecoveryTimesOutKeeps
<1>11. CASE Retry
  BY <1>11, RetryKeeps
<1>12. CASE EnterLogin
  BY <1>12, EnterLoginKeeps
<1>13. CASE FinishLogin
  BY <1>13, FinishLoginKeeps
<1>14. CASE VerifyLogin
  BY <1>14, VerifyLoginKeeps
<1>15. CASE Logout
  BY <1>15, LogoutKeeps
<1>16. ASSUME NEW o \in Logouts, TakeTokens(o) PROVE IInv'
  BY <1>16, TakeTokensKeeps
<1>17. ASSUME NEW o \in Logouts, Revoke(o) PROVE IInv'
  BY <1>17, RevokeKeeps
<1>18. CASE Handle
  BY <1>18, HandleKeeps
<1>19. CASE UNCHANGED vars
  BY <1>19 DEF vars, IInv
<1> QED BY <1>1, <1>2, <1>3, <1>4, <1>5, <1>6, <1>7, <1>8, <1>9, <1>10, <1>11, <1>12, <1>13,
           <1>14, <1>15, <1>16, <1>17, <1>18, <1>19 DEF Next

\* The inductive invariant holds in every state the App can be in.
THEOREM Invariance == Spec => []IInv
BY Starts, Keeps, PTL DEF Spec

\* Every variable has its type; a request that was sent carries a grant, and a member
\* is never shown the Login screen.
THEOREM TypeCorrect == Spec => []TypeOK
<1>1. IInv => TypeOK
  <2> SUFFICES ASSUME IInv PROVE TypeOK
    OBVIOUS
  <2>1. ServerOK(server) /\ file \in Grants \cup {None} /\ AppOK(server, app)
        /\ queue \in Seq(Message)
    BY KnownGrants DEF IInv, Fine, Sound, QueueOK
  <2>2. \A t \in Requests : app.request[t].at = "sent" => app.request[t].grant # None
    BY <2>1, KnownGrants DEF AppOK, RequestsOK
  <2> QED BY <2>1, <2>2 DEF TypeOK, ServerOK, AppOK, MemberOK
<1> QED BY <1>1, Invariance, PTL

\* Issue 567: whatever rechecks, sign-outs and sign-ins happen around it, a post that
\* dispatch_token lets out carries a grant of the member who wrote it.
THEOREM AsAuthor == Spec => []PostsAsAuthor
<1>1. IInv => PostsAsAuthor
  <2> SUFFICES ASSUME IInv, NEW t \in Writes, app.request[t].at = "sent"
               PROVE  Owner(app.request[t].grant) = app.request[t].by
    BY DEF PostsAsAuthor
  <2>1. OwnerIn(server, app.request[t].grant) = app.me /\ app.request[t].by = app.me
    BY DEF IInv, Fine, Sound, AppOK, RequestsOK, Requests
  <2> QED BY <2>1 DEF Owner, OwnerIn
<1> QED BY <1>1, Invariance, PTL

\* Issues 557 and 590: no result of an older session, and none asked for by another
\* member, reaches the screen.
THEOREM OnlyMine == Spec => []ShowsOnlyMine
<1>1. IInv => ShowsOnlyMine
  BY DEF IInv, Fine, Sound, AppOK, MemberOK, ShowsOnlyMine
<1> QED BY <1>1, Invariance, PTL

\* logout_pending: while it holds a login back, the report that clears it is under way
\* under the generation the App then has.
THEOREM LoginComesBack == Spec => []SignOutEnds
<1>1. IInv => SignOutEnds
  BY DEF IInv, Fine, Sound, Moving, Leaves, IsSignOut, Sent, SignOutEnds
<1> QED BY <1>1, Invariance, PTL

\* Issues 551 and 587: a session that is paused or not yet known has a verdict coming
\* that will count, or r to try again.
THEOREM AlwaysAWayOn == Spec => []NeverStuck
<1>1. IInv => NeverStuck
  <2> SUFFICES ASSUME IInv PROVE NeverStuck
    OBVIOUS
  <2>1. Moving(app, queue)
    BY DEF IInv, Fine, Sound
  <2>2. Coming(app, queue) =>
          \/ \E k \in Checks : app.check[k].at # "none" /\ app.check[k].gen = app.bootstrap
          \/ \E i \in DOMAIN queue : /\ queue[i].kind \in {"bootstrap", "verified"}
                                    /\ queue[i].gen = app.bootstrap
    BY DEF Coming, Decides, Sent, IsVerdict
  <2> QED BY <2>1, <2>2 DEF Moving, NeverStuck
<1> QED BY <1>1, Invariance, PTL

\* Issues 588 and 600: what a screen waits for is under way in the current session, or
\* its result is in the queue and will not be dropped.
THEOREM AllAwaited == Spec => []NothingWaitsForever
<1>1. IInv => NothingWaitsForever
  BY DEF IInv, Fine, Awaited, Sent, IsResult, NothingWaitsForever
<1> QED BY <1>1, Invariance, PTL

\* Nothing but a login's own message brings a member back.
LEMMA SignedOutHandled ==
  ASSUME IInv, Handle, app.top = "login", app'.me # Nobody
  PROVE  Head(queue).kind = "login" /\ Head(queue).gen = app.login
<1> DEFINE m == Head(queue)
<1>0. /\ AppOK(server, app) /\ app \in App /\ app.me = Nobody /\ Heard(server, app, m)
  BY QueueShrinks DEF IInv, Handle, Fine, Sound, AppOK, MemberOK
<1>1. ~IsResult(app, m) /\ ~IsVerdict(app, m) /\ m.kind \in {"result", "bootstrap", "verified", "login", "snapshot", "loggedout"}
  BY <1>0 DEF Heard, Message
<1>2. app' = CASE m.kind = "result" -> HandleResult(app, m)
               [] m.kind = "bootstrap" -> HandleBootstrap(app, m)
               [] m.kind = "verified" -> HandleVerified(app, m)
               [] m.kind = "login" -> HandleLogin(app, m)
               [] OTHER -> HandleSignOut(app, m)
  BY DEF Handle
<1> HIDE DEF m
<1>3. CASE m.kind \in {"result", "bootstrap", "verified"}
  <2>1. app' = app
    BY <1>1, <1>2, <1>3 DEF HandleResult, HandleBootstrap, HandleVerified, IsResult, IsVerdict
  <2> QED BY <1>0, <2>1
<1>4. CASE m.kind = "login"
  <2>1. CASE m.gen = app.login
    BY <1>4, <2>1 DEF m
  <2>2. CASE m.gen # app.login
    <3>1. app' = app
      BY <1>2, <1>4, <2>2 DEF HandleLogin
    <3> QED BY <1>0, <3>1
  <2> QED BY <2>1, <2>2
<1>5. CASE m.kind \in {"snapshot", "loggedout"}
  <2>1. app' = HandleSignOut(app, m)
    BY <1>2, <1>5
  <2>2. app'.me = app.me
    BY <1>0, <2>1 DEF HandleSignOut, App
  <2> QED BY <1>0, <2>2
<1> QED BY <1>1, <1>3, <1>4, <1>5

\* Issue 557: from the Login screen only the message of the current login flow leads
\* to a session; a late Bootstrap or recheck of the session that ended does not.
THEOREM SignedOutUntilLogin == Spec => SignedOutStays
<1> DEFINE Back == (app.top = "login" /\ app'.me # Nobody)
                     => Head(queue).kind = "login" /\ Head(queue).gen = app.login
<1>1. IInv /\ [Next]_vars => [Back]_vars
  <2> SUFFICES ASSUME IInv, Next, app.top = "login", app'.me # Nobody
               PROVE  Head(queue).kind = "login" /\ Head(queue).gen = app.login
    OBVIOUS
  <2>0. app \in App /\ app.me = Nobody /\ ~app.retry /\ ~app.pending
    BY DEF IInv, Fine, Sound, AppOK, MemberOK
  <2>1. CASE Sibling
    BY <2>0, <2>1 DEF Sibling
  <2>2. CASE Refresh
    BY <2>0, <2>2 DEF Refresh, App
  <2>3. ASSUME NEW t \in Requests, Start(t) \/ Dispatch(t) \/ Answer(t) PROVE FALSE
    <3>1. app.request[t].at = "none"
      BY <2>0 DEF IInv, Fine, Sound, AppOK, RequestsOK
    <3> QED BY <2>0, <2>3, <3>1 DEF Start, Dispatch, Answer
  <2>4. ASSUME NEW k \in Checks,
               Restore(k) \/ PrepareCandidate(k) \/ VerifyRecovery(k) \/ ReportDropped(k)
        PROVE  FALSE
    BY <2>0, <2>4 DEF Restore, PrepareCandidate, VerifyRecovery, ReportDropped, Reports, App
  <2>5. CASE RecoveryTimesOut
    BY <2>0, <2>5 DEF RecoveryTimesOut
  <2>6. CASE Retry
    BY <2>0, <2>6 DEF Retry
  <2>7. CASE EnterLogin
    BY <2>0, <2>7 DEF EnterLogin, BeginLogin, App
  <2>8. CASE FinishLogin
    BY <2>0, <2>8 DEF FinishLogin, App
  <2>9. CASE VerifyLogin
    BY <2>0, <2>9 DEF VerifyLogin, App
  <2>10. CASE Logout
    BY <2>0, <2>10 DEF Logout
  <2>11. ASSUME NEW o \in Logouts, TakeTokens(o) \/ Revoke(o) PROVE FALSE
    BY <2>0, <2>11 DEF TakeTokens, Revoke, App
  <2>12. CASE Handle
    BY <2>12, SignedOutHandled
  <2> QED BY <2>1, <2>2, <2>3, <2>4, <2>5, <2>6, <2>7, <2>8, <2>9, <2>10, <2>11, <2>12 DEF Next
<1>2. SignedOutStays <=> [][Back]_vars
  BY DEF SignedOutStays
<1> HIDE DEF Back
<1> QED BY <1>1, <1>2, Invariance, PTL DEF Spec
=============================================================================
