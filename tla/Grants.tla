------------------------------- MODULE Grants -------------------------------
(***************************************************************************)
(* The grant that terminals of one machine share: the token file, each      *)
(* terminal's client with its grant in memory, the private candidate that   *)
(* recovers a session from the file, and the OAuth server that rotates      *)
(* refresh tokens.                                                          *)
(*                                                                         *)
(* A grant (TokenSet) is the number of its access token.  Two grants are    *)
(* equal when these are, since no access token is issued twice.             *)
(***************************************************************************)
EXTENDS Integers

CONSTANTS
  Terminals,   \* the processes that share a config directory
  Accounts,    \* the members who may sign in
  Nobody,      \* no member
  MaxGrant,    \* bound: how many grants the server issues
  Events       \* of "lose", "disk", "omit", "exit", "signin", "signout":
               \* what may happen besides starts and requests

ASSUME GrantAssumption ==
  /\ Nobody \notin Accounts
  /\ MaxGrant \in Nat \ {0}

VARIABLES
  file,     \* token.json
  server,   \* what the OAuth server issued, and what it still honours
  client,   \* each WfApiClient: a terminal's main one and its candidate
  app       \* the rest of each terminal

vars == <<file, server, client, app>>

None == 0          \* no grant, no refresh token, no file
Corrupt == -1      \* a file that does not parse
Foreign == -2      \* a grant for another site or OAuth client
Grants == 1..MaxGrant

Clients == Terminals \X {"main", "candidate"}
Main(p) == <<p, "main">>
Candidate(p) == <<p, "candidate">>

\* The token mutex is free only when a client is idle.  In the last two
\* phases the file is about to be set aside.
Phases == {"idle", "refreshing", "answered", "rejected", "forgetting",
           "corrupt", "foreign"}

\* Progress of restore_session, or of recheck_stored_session.
Stages == {"none", "restoring", "asked", "verifying", "verified"}

Recovery == [source: Grants \cup {None}, current: Grants \cup {None}]
NoRecovery == [source |-> None, current |-> None]

Client == [grant: Grants \cup {None}, at: Phases,
           old: Grants \cup {None}, new: Grants \cup {None}]
NoClient == [grant |-> None, at |-> "idle", old |-> None, new |-> None]

App == [on: BOOLEAN, me: Accounts \cup {Nobody}, paused: BOOLEAN,
        queued: BOOLEAN, stage: Stages, source: Grants \cup {None},
        cached: Recovery, gained: Recovery,
        login: Grants \cup {None}, leaving: BOOLEAN,
        snapshot: Grants \cup {None}]
Off == [on |-> FALSE, me |-> Nobody, paused |-> FALSE, queued |-> FALSE,
        stage |-> "none", source |-> None, cached |-> NoRecovery,
        gained |-> NoRecovery, login |-> None, leaving |-> FALSE,
        snapshot |-> None]

Server == [issued: 0..MaxGrant, owner: [Grants -> Accounts \cup {Nobody}],
           refresh: [Grants -> Grants \cup {None}], live: SUBSET Grants,
           revoked: SUBSET Grants, expired: SUBSET Grants]

TypeOK ==
  /\ file \in Grants \cup {None, Corrupt, Foreign}
  /\ server \in Server
  /\ client \in [Clients -> Client]
  /\ app \in [Terminals -> App]
  /\ \A c \in Clients :
       client[c].at \in {"idle", "corrupt", "foreign"} =>
         client[c].old = None /\ client[c].new = None
  /\ \A p \in Terminals :
       app[p].stage \notin {"verifying", "verified"} =>
         client[Candidate(p)] = NoClient

----------------------------------------------------------------------------
(* The OAuth server *)

NothingIssued ==
  [issued |-> 0, owner |-> [n \in Grants |-> Nobody],
   refresh |-> [n \in Grants |-> None],
   live |-> {}, revoked |-> {}, expired |-> {}]

\* s after it issued a grant to member a with refresh token r.
Minted(s, a, r) ==
  [issued |-> s.issued + 1,
   owner |-> [s.owner EXCEPT ![s.issued + 1] = a],
   refresh |-> [s.refresh EXCEPT ![s.issued + 1] = r],
   live |-> s.live \cup ({r} \ {None}),
   revoked |-> s.revoked,
   expired |-> s.expired]

\* XenForo's refresh: a new refresh token, and the old one is revoked.
Rotated(s, n) ==
  Minted([s EXCEPT !.live = @ \ {s.refresh[n]}], s.owner[n], s.issued + 1)

\* A server that omits refresh_token from its answer.
Renewed(s, n) == Minted(s, s.owner[n], s.refresh[n])

\* Does grant n still open the member's account?
Live(n) ==
  /\ n \in Grants
  /\ IF server.refresh[n] = None
       THEN n \notin server.revoked \cup server.expired /\ server.owner[n] # Nobody
       ELSE server.refresh[n] \in server.live

Expired(n) == n \in server.expired

----------------------------------------------------------------------------
(* The token file: what each call of Store leaves there *)

ReplacedIfMatches(expected, n) == IF file = expected THEN n ELSE file

ErasedIfMatches(n) == IF file = n THEN None ELSE file

ErasedIfRefreshToken(r) ==
  IF file \in Grants /\ server.refresh[file] = r THEN None ELSE file

\* The file is moved although a sibling replaced it in the meantime.
SetAsideUnseen(why) == None                            \* mutant

\* quarantine_corrupt moves what does not parse, quarantine_as also what
\* belongs elsewhere; both look again under the lock.
SetAside(why) ==
  IF file = Corrupt \/ (why = "foreign" /\ file = Foreign) THEN None ELSE file

----------------------------------------------------------------------------
(* Terminals *)

\* An aborted task stops where it awaits the server; from the rejection on
\* it awaits nothing.
Aborted(k) ==
  IF k.at \in {"refreshing", "answered"}
    THEN [grant |-> k.grant, at |-> "idle", old |-> None, new |-> None]
    ELSE k

\* All clients, with p's two replaced.
WithClients(p, main, candidate) ==
  [c \in Clients |-> CASE c = Main(p) -> main
                       [] c = Candidate(p) -> candidate
                       [] OTHER -> client[c]]

\* end_session, and what it leaves of terminal a.
Ended(a) ==
  [a EXCEPT !.me = Nobody, !.queued = FALSE, !.stage = "none", !.source = None]

EndsSession(p) ==
  /\ app' = [app EXCEPT ![p] = Ended(@)]
  /\ client' = WithClients(p, Aborted(client[Main(p)]), NoClient)

\* The identity could not be verified: requests stay paused, r retries.
StaysPaused(p) ==
  /\ app' = [app EXCEPT ![p] = [@ EXCEPT !.paused = TRUE, !.stage = "none",
                                         !.source = None]]
  /\ client' = WithClients(p, client[Main(p)], NoClient)

Init ==
  /\ \/ file \in {None, Corrupt, Foreign} /\ server = NothingIssued
     \/ /\ file = 1
        /\ \E a \in Accounts, r \in {None, 1} : server = Minted(NothingIssued, a, r)
  /\ client = [c \in Clients |-> NoClient]
  /\ app = [p \in Terminals |-> Off]

\* with_store: load, and set aside what cannot be used in a second step.
Start(p) ==
  /\ ~app[p].on
  /\ app' = [app EXCEPT ![p] =
       [Off EXCEPT !.on = TRUE,
                   !.stage = IF file \in Grants THEN "restoring" ELSE "none"]]
  /\ client' = WithClients(p,
       [grant |-> IF file \in Grants THEN file ELSE None,
        at |-> CASE file = Corrupt -> "corrupt"
                 [] file = Foreign -> "foreign"
                 [] OTHER -> "idle",
        old |-> None, new |-> None],
       NoClient)
  /\ UNCHANGED <<file, server>>

\* The second step; in a recovery it ends the session, as nothing is left
\* to adopt.
Quarantine(p) ==
  LET k == client[Main(p)]
      idle == [grant |-> k.grant, at |-> "idle", old |-> None, new |-> None]
  IN  /\ k.at \in {"corrupt", "foreign"}
      /\ file' = SetAside(k.at)
      /\ app' = [app EXCEPT ![p] = IF @.stage = "asked" THEN Ended(@) ELSE @]
      /\ client' = WithClients(p, idle, client[Candidate(p)])
      /\ UNCHANGED server

Exit(p) ==
  /\ "exit" \in Events /\ app[p].on
  /\ app' = [app EXCEPT ![p] = Off]
  /\ client' = WithClients(p, NoClient, NoClient)
  /\ UNCHANGED <<file, server>>

\* Access tokens run out in the order they were issued, after two hours each.
Expires(n) ==
  /\ n <= server.issued /\ ~Expired(n)
  /\ \A m \in Grants : m < n => Expired(m)
  /\ server' = [server EXCEPT !.expired = @ \cup {n}, !.revoked = @ \ {n}]
  /\ UNCHANGED <<file, client, app>>

----------------------------------------------------------------------------
(* valid_token *)

\* May a task of this client ask for a token?  One that passed the check of
\* requests_paused before the pause may still enter: queued.
Calls(c) ==
  LET a == app[c[1]]
  IN  IF c = Main(c[1])
        THEN \/ a.queued
             \/ a.on /\ ~a.paused /\ (a.me # Nobody \/ a.stage = "restoring")
        ELSE a.stage = "verifying"

Enter(c) ==
  /\ Calls(c)
  /\ client[c].at = "idle" /\ Expired(client[c].grant)
  /\ \/ /\ server.refresh[client[c].grant] # None
        /\ client' = [client EXCEPT ![c] =
             [grant |-> @.grant, at |-> "refreshing", old |-> @.grant, new |-> None]]
        /\ UNCHANGED file
     \/ /\ server.refresh[client[c].grant] = None
        /\ client' = [client EXCEPT ![c] = NoClient]
        /\ file' = IF c = Main(c[1]) THEN ErasedIfMatches(client[c].grant) ELSE file
  /\ \/ UNCHANGED app
     \/ c = Main(c[1]) /\ app' = [app EXCEPT ![c[1]] = [@ EXCEPT !.queued = FALSE]]
  /\ UNCHANGED server

ServerRefreshes(c) ==
  LET n == client[c].old
  IN  /\ client[c].at = "refreshing"
      /\ server.refresh[n] \in server.live
      /\ server.issued < MaxGrant
      /\ \/ server' = Rotated(server, n)
         \/ "omit" \in Events /\ server' = Renewed(server, n)
      /\ client' = [client EXCEPT ![c] =
           [grant |-> @.grant, at |-> "answered", old |-> n, new |-> server.issued + 1]]
      /\ UNCHANGED <<file, app>>

ServerRejects(c) ==
  /\ client[c].at = "refreshing"
  /\ server.refresh[client[c].old] \notin server.live
  /\ client' = [client EXCEPT ![c] = [@ EXCEPT !.at = "rejected"]]
  /\ UNCHANGED <<file, server, app>>

\* The request or its answer is lost: the grant stays as it was, and a
\* recovery gives up for now.
LoseRefresh(c) ==
  /\ "lose" \in Events
  /\ client[c].at \in {"refreshing", "answered"}
  /\ IF c = Main(c[1])
       THEN client' = [client EXCEPT ![c] = Aborted(@)] /\ UNCHANGED app
       ELSE StaysPaused(c[1])
  /\ UNCHANGED <<file, server>>

\* A candidate does not remember its new grant.
KeptPrivatelyNot(a, k) == a.cached                     \* mutant

\* A candidate's new grant replaces the cached one only if that is its own.
KeptPrivately(a, k) ==
  IF a.cached = [source |-> a.source, current |-> k.old]
    THEN [source |-> a.source, current |-> k.new]
    ELSE a.cached

KeepRefreshed(c) ==
  LET k == client[c]
      p == c[1]
  IN  /\ k.at = "answered"
      /\ client' = [client EXCEPT ![c] =
           [grant |-> k.new, at |-> "idle", old |-> None, new |-> None]]
      /\ IF c = Main(p)
           THEN /\ \/ file' = ReplacedIfMatches(k.old, k.new)
                   \/ "disk" \in Events /\ UNCHANGED file
                /\ UNCHANGED app
           ELSE /\ app' = [app EXCEPT ![p] = [@ EXCEPT
                     !.cached = KeptPrivately(app[p], k),
                     !.gained = [source |-> app[p].source, current |-> k.new]]]
                /\ UNCHANGED file
      /\ UNCHANGED server

\* Before issue 573: the sibling's grant is taken over at once.
CheckSiblingAdopting(c) ==                             \* mutant
  LET k == client[c]
      other == file \in Grants /\ server.refresh[file] \notin {None, server.refresh[k.old]}
  IN  /\ k.at = "rejected"
      /\ client' = [client EXCEPT ![c] =
           IF other THEN [grant |-> file, at |-> "idle", old |-> None, new |-> None]
                    ELSE [@ EXCEPT !.at = "forgetting"]]
      /\ UNCHANGED <<file, server, app>>

\* Rejected: a different grant on disk only ends this one in memory.
CheckSibling(c) ==
  LET k == client[c]
      other == \/ file = Foreign
               \/ file \in Grants /\ server.refresh[file] \notin {None, server.refresh[k.old]}
  IN  /\ k.at = "rejected"
      /\ client' = [client EXCEPT ![c] =
           IF other THEN NoClient ELSE [@ EXCEPT !.at = "forgetting"]]
      /\ UNCHANGED <<file, server, app>>

ForgetRejected(c) ==
  /\ client[c].at = "forgetting"
  /\ client' = [client EXCEPT ![c] = NoClient]
  /\ file' = IF c = Main(c[1])
               THEN ErasedIfRefreshToken(server.refresh[client[c].old])
               ELSE file
  /\ UNCHANGED <<server, app>>

----------------------------------------------------------------------------
(* Recovering a session *)

\* A request of the live session failed with NoToken or 401, or the member
\* retries a paused one.
Recheck(p) ==
  LET a == app[p]
      n == client[Main(p)].grant
  IN  /\ a.me # Nobody /\ a.stage = "none"
      /\ a.paused \/ n = None \/ n \in server.revoked
      /\ \E queued \in IF a.paused THEN {a.queued} ELSE BOOLEAN :
            app' = [app EXCEPT ![p] =
              [a EXCEPT !.paused = TRUE, !.queued = queued, !.stage = "asked"]]
      /\ UNCHANGED <<file, server, client>>

\* The cache is only good for the file it was filled from.
Cached(a) ==
  IF a.cached.source = file THEN a.cached
                            ELSE [source |-> file, current |-> file]

\* stored_session_candidate, under the main client's token lock.
PrepareCandidate(p) ==
  LET a == app[p]
      k == client[Main(p)]
  IN  /\ a.stage = "asked" /\ k.at = "idle"
      /\ \/ /\ file \in {None, k.grant}
            /\ EndsSession(p)
         \/ /\ file = Corrupt \/ "disk" \in Events
            /\ StaysPaused(p)
         \/ /\ file = Foreign
            /\ client' = [client EXCEPT ![Main(p)] = [@ EXCEPT !.at = "foreign"]]
            /\ UNCHANGED app
         \/ /\ file \in Grants \ {k.grant}
            /\ app' = [app EXCEPT ![p] =
                 [a EXCEPT !.stage = "verifying", !.source = file, !.cached = Cached(a)]]
            /\ client' = WithClients(p, k, [NoClient EXCEPT !.grant = Cached(a).current])
      /\ UNCHANGED <<file, server>>

\* /me, asked with the candidate: a member, or a refusal, which ends the
\* session, or no answer.
VerifyRecovery(p) ==
  LET n == client[Candidate(p)].grant
  IN  /\ app[p].stage = "verifying" /\ client[Candidate(p)].at = "idle"
      /\ \/ /\ n # None /\ ~Expired(n) /\ n \notin server.revoked
            /\ app' = [app EXCEPT ![p] = [@ EXCEPT !.stage = "verified"]]
            /\ UNCHANGED client
         \/ /\ n = None \/ n \in server.revoked
            /\ EndsSession(p)
         \/ "lose" \in Events /\ StaysPaused(p)
      /\ UNCHANGED <<file, server>>

\* The verdict is handled: commit, then Bootstrap, in one message.
RecoveryVerified(p) ==
  LET a == app[p]
      n == client[Candidate(p)].grant
  IN  /\ a.stage = "verified"
      /\ client[Main(p)].at \notin {"rejected", "forgetting"}
      /\ \/ /\ file = a.source
            /\ file' = ReplacedIfMatches(a.source, n)
            /\ app' = [app EXCEPT ![p] =
                 [a EXCEPT !.me = server.owner[n], !.paused = FALSE, !.queued = FALSE,
                           !.stage = "none", !.source = None,
                           !.cached = NoRecovery, !.gained = NoRecovery]]
            /\ client' = WithClients(p, client[Candidate(p)], NoClient)
         \/ /\ file # a.source \/ "disk" \in Events
            /\ StaysPaused(p)
            /\ UNCHANGED file
      /\ UNCHANGED server

\* expire_session_recovery_timeout: the late verdict will not count.
RecoveryTimesOut(p) ==
  /\ app[p].stage \in {"asked", "verifying", "verified"}
  /\ app' = [app EXCEPT ![p] = [@ EXCEPT !.stage = "none", !.source = None,
                                         !.queued = FALSE]]
  /\ client' = WithClients(p, Aborted(client[Main(p)]), NoClient)
  /\ UNCHANGED <<file, server>>

\* restore_session at the start, or the first /me after a sign-in.
Restore(p) ==
  LET n == client[Main(p)].grant
  IN  /\ app[p].stage = "restoring" /\ client[Main(p)].at = "idle"
      /\ \/ /\ n # None /\ ~Expired(n) /\ n \notin server.revoked
            /\ app' = [app EXCEPT ![p] =
                 [@ EXCEPT !.me = server.owner[n], !.stage = "none"]]
            /\ UNCHANGED client
         \/ /\ n = None \/ n \in server.revoked
            /\ EndsSession(p)
      /\ UNCHANGED <<file, server>>

\* The refresh was rejected and nothing newer was on disk.
SessionExpires(p) ==
  /\ app[p].me # Nobody /\ app[p].stage = "none" /\ client[Main(p)].grant = None
  /\ EndsSession(p)
  /\ UNCHANGED <<file, server>>

----------------------------------------------------------------------------
(* Signing in and out *)

\* The login flow got its grant from the server.
Exchange(p, a) ==
  /\ "signin" \in Events
  /\ app[p].on /\ app[p].me = Nobody /\ app[p].stage = "none"
  /\ ~app[p].leaving /\ app[p].login = None
  /\ server.issued < MaxGrant
  /\ \E r \in {None, server.issued + 1} : server' = Minted(server, a, r)
  /\ app' = [app EXCEPT ![p] = [@ EXCEPT !.login = server.issued + 1]]
  /\ UNCHANGED <<file, client>>

\* set_tokens: save, then adopt.
SetTokens(p) ==
  LET n == app[p].login
  IN  /\ n # None /\ client[Main(p)].at = "idle"
      /\ file' = n
      /\ client' = [client EXCEPT ![Main(p)] = [NoClient EXCEPT !.grant = n]]
      /\ app' = [app EXCEPT ![p] =
           [@ EXCEPT !.login = None, !.stage = "restoring", !.paused = FALSE,
                     !.cached = NoRecovery, !.gained = NoRecovery]]
      /\ UNCHANGED server

\* The flow is started again, or its grant cannot be saved.
LoginFails(p) ==
  /\ app[p].login # None
  /\ app' = [app EXCEPT ![p] = [@ EXCEPT !.login = None]]
  /\ UNCHANGED <<file, server, client>>

\* logout: its task is spawned, then the session ends.
Logout(p) ==
  /\ "signout" \in Events
  /\ ~app[p].leaving /\ app[p].snapshot = None
  /\ app[p].me # Nobody \/ app[p].stage = "restoring"
  /\ app' = [app EXCEPT ![p] = [Ended(@) EXCEPT !.leaving = TRUE]]
  /\ client' = WithClients(p, Aborted(client[Main(p)]), NoClient)
  /\ UNCHANGED <<file, server>>

\* take_tokens: nothing is taken if the file cannot be compared.
TakeTokens(p) ==
  LET n == client[Main(p)].grant
  IN  /\ app[p].leaving /\ client[Main(p)].at = "idle"
      /\ \/ /\ n # None /\ (file = Corrupt \/ (file = n /\ "disk" \in Events))
            /\ app' = [app EXCEPT ![p] = [@ EXCEPT !.leaving = FALSE]]
            /\ UNCHANGED <<file, client>>
         \/ /\ n = None \/ file # Corrupt
            /\ file' = IF n = None THEN file ELSE ErasedIfMatches(n)
            /\ client' = [client EXCEPT ![Main(p)] = NoClient]
            /\ app' = [app EXCEPT ![p] =
                 [@ EXCEPT !.leaving = FALSE, !.snapshot = n,
                           !.cached = NoRecovery, !.gained = NoRecovery]]
      /\ UNCHANGED server

\* The two revocations; each may be refused.
Revoke(p) ==
  LET n == app[p].snapshot
  IN  /\ n # None
      /\ \E r \in {{}, {server.refresh[n]}}, s \in {{}, {n}} :
            server' = [server EXCEPT !.live = @ \ r, !.revoked = @ \cup (s \ server.expired)]
      /\ app' = [app EXCEPT ![p] = [@ EXCEPT !.snapshot = None]]
      /\ UNCHANGED <<file, client>>

Next ==
  \/ \E p \in Terminals :
        \/ Start(p) \/ Quarantine(p) \/ Exit(p)
        \/ Recheck(p) \/ PrepareCandidate(p) \/ VerifyRecovery(p)
        \/ RecoveryVerified(p) \/ RecoveryTimesOut(p)
        \/ Restore(p) \/ SessionExpires(p)
        \/ \E a \in Accounts : Exchange(p, a)
        \/ SetTokens(p) \/ LoginFails(p)
        \/ Logout(p) \/ TakeTokens(p) \/ Revoke(p)
  \/ \E c \in Clients :
        \/ Enter(c) \/ ServerRefreshes(c) \/ ServerRejects(c) \/ LoseRefresh(c)
        \/ KeepRefreshed(c) \/ CheckSibling(c) \/ ForgetRejected(c)
  \/ \E n \in Grants : Expires(n)

Spec == Init /\ [][Next]_vars

----------------------------------------------------------------------------
(* Properties *)

\* Issue 573: while requests may go out, the grant they carry is that of the
\* member the terminal shows.
ActsAsMe ==
  \A p \in Terminals :
    LET n == client[Main(p)].grant
    IN  (app[p].me # Nobody /\ ~app[p].paused /\ n # None) =>
           server.owner[n] = app[p].me

\* A grant on disk that still opens an account goes only when a member signs
\* in over it, signs out of it, or it was renewed with its refresh token.
LiveGrantStays ==
  [][ (file' # file /\ Live(file)) =>
        \/ \E p \in Terminals : app[p].login # None /\ file' = app[p].login
        \/ \E p \in Terminals : app[p].leaving /\ client[Main(p)].grant = file
        \/ file' \in Grants /\ server.refresh[file'] = server.refresh[file] ]_vars

\* RecoveryTokens: the grant a candidate got from the server survives a failed
\* verification: as long as the file is the one it came from, the next
\* candidate starts from it, not from a refresh token that is spent.
RotationIsKept ==
  \A p \in Terminals :
    (app[p].gained # NoRecovery /\ file = app[p].gained.source) =>
       app[p].cached = app[p].gained

\* README: restarts do not require signing in again until the refresh grant
\* expires or is revoked.
RestartsNeedNoSignIn ==
  \A p \in Terminals :
    LET k == client[Main(p)]
    IN  (app[p].me # Nobody /\ ~app[p].paused /\ k.at = "idle" /\ Live(k.grant)) =>
          file \in Grants /\ (server.refresh[file] = None \/ Live(file))

=============================================================================
