---------------------------- MODULE GrantsProofs ----------------------------
(***************************************************************************)
(* Proofs about Grants, for every number of terminals, members and grants  *)
(* and whatever Events may happen: its type, ActsAsMe, RotationIsKept and  *)
(* LiveGrantStays.                                                         *)
(*                                                                         *)
(* A grant on disk says nothing of where it came from, so the properties   *)
(* alone are not inductive. IInv adds:                                     *)
(*   - what holds while a client asks for another grant, and that the one  *)
(*     it is given speaks for the same member and follows the one it was   *)
(*     for (ClientOK, Follows);                                            *)
(*   - that a recovery's candidate holds what is cached for the file it    *)
(*     was made from, and that this follows the file (StageOK, CacheOK);   *)
(*   - that a grant which may yet be written waits in one place only and   *)
(*     was never in the file (Separate), so that no file comes back once   *)
(*     it is gone: a recovery that remembers one is not misled.            *)
(***************************************************************************)
EXTENDS Grants, TLAPS

\* The grants server s has issued.
Known(s) == 1..s.issued

ServerOK(s) ==
  /\ s \in Server
  /\ \A n \in Known(s) : s.refresh[n] \in Known(s) \cup {None}

\* Grant n is m, was renewed with m's refresh token, or m's is spent.
Follows(s, m, n) ==
  \/ n = m
  \/ s.refresh[m] # None /\ (s.refresh[n] = s.refresh[m] \/ s.refresh[m] \notin s.live)

Asking == {"refreshing", "answered", "rejected", "forgetting"}

\* Client k of server s: what it holds while it asks for another grant.
ClientOK(s, k) ==
  /\ k \in Client
  /\ {k.grant, k.old, k.new} \subseteq Known(s) \cup {None}
  /\ k.at \notin Asking => k.old = None
  /\ k.at \in Asking => k.old = k.grant /\ k.old # None /\ s.refresh[k.old] # None
  /\ IF k.at = "answered"
       THEN k.new # None /\ s.owner[k.new] = s.owner[k.old] /\ Follows(s, k.old, k.new)
       ELSE k.new = None
  /\ k.at \in {"rejected", "forgetting"} => s.refresh[k.old] \notin s.live

\* The grants terminal a remembers, outside of its clients.
Remembers(a) ==
  {a.source, a.cached.source, a.cached.current, a.gained.source, a.gained.current,
   a.login, a.snapshot}

\* Whom requests of terminal a with main client k speak for.
MemberOK(s, a, k) ==
  /\ (a.me # Nobody /\ ~a.paused /\ k.grant # None) => s.owner[k.grant] = a.me
  /\ a.login # None => a.me = Nobody /\ a.stage = "none" /\ ~a.leaving
  /\ a.leaving => a.me = Nobody /\ a.stage = "none"

\* Which candidate c a recovery of a has.
StageOK(a, c) ==
  /\ IF a.stage \in {"verifying", "verified"}
       THEN /\ a.source # None
            /\ c.grant # None => a.cached = [source |-> a.source, current |-> c.grant]
       ELSE c = NoClient
  /\ a.stage = "verified" => c.at = "idle" /\ c.grant # None

\* What a knows of the files it tried to recover from.
CacheOK(s, a) ==
  /\ a.cached # NoRecovery =>
       /\ a.cached.source # None /\ a.cached.current # None
       /\ Follows(s, a.cached.source, a.cached.current)
  /\ a.gained # NoRecovery => a.gained.source # None

TerminalOK(s, a, k, c) ==
  /\ a \in App /\ Remembers(a) \subseteq Known(s) \cup {None}
  /\ ClientOK(s, k) /\ ClientOK(s, c)
  /\ MemberOK(s, a, k) /\ StageOK(a, c) /\ CacheOK(s, a)

\* Where a grant waits that may yet be written to the file.
Places == {"login", "main", "candidate", "cached"}
Answer(k) == IF k.at = "answered" THEN k.new ELSE None
Waiting(a, k, c) ==
  [w \in Places |-> CASE w = "login" -> a.login
                      [] w = "main" -> Answer(k)
                      [] w = "candidate" -> Answer(c)
                      [] OTHER -> IF a.cached.current # a.cached.source
                                    THEN a.cached.current ELSE None]
Held == [p \in Terminals |-> Waiting(app[p], client[Main(p)], client[Candidate(p)])]

\* The grants that are, or once were, in the file.
Written == {file} \cup UNION {{app[p].source, app[p].cached.source, app[p].gained.source} :
                                p \in Terminals}

\* A grant waits in one place, and was never in the file before.
Separate(h, written) ==
  \A p \in Terminals, w \in Places : h[p][w] # None =>
    /\ h[p][w] \notin written
    /\ \A q \in Terminals, v \in Places : h[q][v] = h[p][w] => q = p /\ v = w

Shape ==
  /\ file \in Known(server) \cup {None, Corrupt, Foreign}
  /\ ServerOK(server)
  /\ client \in [Clients -> Client]
  /\ app \in [Terminals -> App]
  /\ \A p \in Terminals : TerminalOK(server, app[p], client[Main(p)], client[Candidate(p)])

IInv == Shape /\ Separate(Held, Written) /\ RotationIsKept

----------------------------------------------------------------------------
\* Numbers that are not grants.
LEMMA KnownGrants ==
  ASSUME NEW s \in Server
  PROVE  /\ Known(s) \subseteq Grants /\ None \notin Grants
         /\ Corrupt \notin Grants /\ Foreign \notin Grants
         /\ None \notin Known(s) /\ Corrupt \notin Known(s) /\ Foreign \notin Known(s)
         /\ Corrupt # None /\ Foreign # None /\ Corrupt # Foreign
BY GrantAssumption DEF Server, Grants, Known, None, Corrupt, Foreign

\* Each terminal has two clients.
LEMMA TwoClients ==
  /\ \A c \in Clients : c[1] \in Terminals /\ (c = Main(c[1]) \/ c = Candidate(c[1]))
  /\ \A p \in Terminals : Main(p) \in Clients /\ Candidate(p) \in Clients
  /\ \A p, q : Main(p) # Candidate(q) /\ Main(p)[1] = p /\ Candidate(p)[1] = p
  /\ \A p, q : Main(p) = Main(q) => p = q
  /\ \A p, q : Candidate(p) = Candidate(q) => p = q
BY DEF Clients, Main, Candidate

\* Terminal p becomes b, with clients k and c.
Becomes(p, b, k, c) ==
  /\ app' = [app EXCEPT ![p] = b]
  /\ client' = WithClients(p, k, c)

\* One client, or none, is replaced.
LEMMA OneClient ==
  ASSUME NEW p \in Terminals, client \in [Clients -> Client]
  PROVE  /\ client = WithClients(p, client[Main(p)], client[Candidate(p)])
         /\ \A k : [client EXCEPT ![Main(p)] = k] = WithClients(p, k, client[Candidate(p)])
         /\ \A k : [client EXCEPT ![Candidate(p)] = k] = WithClients(p, client[Main(p)], k)
<1>1. client = WithClients(p, client[Main(p)], client[Candidate(p)])
  BY TwoClients DEF WithClients
<1>2. ASSUME NEW k
      PROVE  [client EXCEPT ![Main(p)] = k] = WithClients(p, k, client[Candidate(p)])
  <2>1. ASSUME NEW c \in Clients
        PROVE  [client EXCEPT ![Main(p)] = k][c] = WithClients(p, k, client[Candidate(p)])[c]
    BY TwoClients DEF WithClients
  <2> QED BY <2>1 DEF WithClients
<1>3. ASSUME NEW k
      PROVE  [client EXCEPT ![Candidate(p)] = k] = WithClients(p, client[Main(p)], k)
  <2>1. ASSUME NEW c \in Clients
        PROVE  [client EXCEPT ![Candidate(p)] = k][c] = WithClients(p, client[Main(p)], k)[c]
    BY TwoClients DEF WithClients
  <2> QED BY <2>1 DEF WithClients
<1> QED BY <1>1, <1>2, <1>3

LEMMA SameApp ==
  ASSUME app \in [Terminals -> App], NEW p \in Terminals
  PROVE  app = [app EXCEPT ![p] = app[p]]
OBVIOUS

\* Server t comes after s: what s issued keeps its member and its refresh token, and a
\* spent refresh token stays spent.
Later(s, t) ==
  /\ Known(s) \subseteq Known(t)
  /\ \A n \in Known(s) :
       /\ t.owner[n] = s.owner[n] /\ t.refresh[n] = s.refresh[n]
       /\ s.refresh[n] \notin s.live => s.refresh[n] \notin t.live

LEMMA SameServer == \A s : Later(s, s)
BY DEF Later

LEMMA NoClientOK ==
  ASSUME NEW s PROVE ClientOK(s, NoClient)
BY DEF ClientOK, NoClient, Client, Asking, Phases, None

LEMMA ClientFields ==
  ASSUME NEW k \in Client
  PROVE  k = [grant |-> k.grant, at |-> k.at, old |-> k.old, new |-> k.new]
BY DEF Client

\* What holds of a client or a terminal still does after the server's steps.
LEMMA LaterClient ==
  ASSUME NEW s, NEW t, Later(s, t), NEW k, ClientOK(s, k)
  PROVE  ClientOK(t, k)
<1>1. /\ k.at \in Asking => k.old \in Known(s)
      /\ k.at = "answered" => k.old \in Known(s) /\ k.new \in Known(s)
      /\ {k.grant, k.old, k.new} \subseteq Known(t) \cup {None}
  BY DEF ClientOK, Later, Asking
<1>2. k.at \in Asking => t.refresh[k.old] = s.refresh[k.old]
  BY <1>1 DEF Later
<1>3. k.at = "answered" => t.owner[k.new] = t.owner[k.old] /\ Follows(t, k.old, k.new)
  BY <1>1 DEF ClientOK, Later, Follows
<1>4. k.at \in {"rejected", "forgetting"} => t.refresh[k.old] \notin t.live
  BY <1>1 DEF ClientOK, Later, Asking
<1> QED BY <1>1, <1>2, <1>3, <1>4 DEF ClientOK

LEMMA LaterTerminal ==
  ASSUME NEW s, NEW t, Later(s, t), s \in Server, NEW a, NEW k, NEW c, TerminalOK(s, a, k, c)
  PROVE  TerminalOK(t, a, k, c)
<1>1. ClientOK(t, k) /\ ClientOK(t, c)
  BY LaterClient DEF TerminalOK
<1>2. a \in App /\ Remembers(a) \subseteq Known(t) \cup {None}
  BY DEF TerminalOK, Later
<1>3. MemberOK(t, a, k)
  BY DEF TerminalOK, MemberOK, ClientOK, Later
<1>4. StageOK(a, c) /\ CacheOK(t, a)
  <2>1. a.cached # NoRecovery =>
          a.cached.source \in Known(s) /\ a.cached.current \in Known(s)
    BY DEF TerminalOK, CacheOK, Remembers
  <2> QED BY <2>1 DEF TerminalOK, CacheOK, Follows, Later
<1> QED BY <1>1, <1>2, <1>3, <1>4 DEF TerminalOK

\* A server that issues a grant, for its refresh token or for a sign-in.
LEMMA MintedServer ==
  ASSUME NEW s, ServerOK(s), s.issued < MaxGrant, NEW u \in Accounts \cup {Nobody},
         NEW n, n = s.issued + 1,
         NEW r, r \in {None, n} \/ (r \in s.live /\ r \in Known(s)),
         NEW before \in Server, before.issued = s.issued, before.owner = s.owner,
         before.refresh = s.refresh, before.live \subseteq s.live,
         NEW t, t = Minted(before, u, r)
  PROVE  /\ ServerOK(t) /\ Later(s, t)
         /\ n \notin Known(s) /\ n \in Known(t) /\ n # None
         /\ t.owner[n] = u /\ t.refresh[n] = r /\ t.live = before.live \cup ({r} \ {None})
<1> DEFINE live == before.live
<1>1. /\ s \in Server /\ s.issued \in 0..MaxGrant /\ n \in Grants
      /\ n \notin Known(s) /\ Known(s) \subseteq Grants /\ n # None
  BY GrantAssumption DEF ServerOK, Server, Grants, Known, None
<1>2. /\ live \subseteq s.live
      /\ t = [issued |-> n, owner |-> [s.owner EXCEPT ![n] = u],
              refresh |-> [s.refresh EXCEPT ![n] = r],
              live |-> live \cup ({r} \ {None}),
              revoked |-> before.revoked, expired |-> before.expired]
  BY <1>1 DEF Minted
<1>3. Known(t) = Known(s) \cup {n}
  BY <1>1, <1>2 DEF Known
<1>4. /\ t.owner = [s.owner EXCEPT ![n] = u] /\ t.refresh = [s.refresh EXCEPT ![n] = r]
      /\ t.live = live \cup ({r} \ {None}) /\ t.issued = n
  BY <1>2
<1>5. t.owner[n] = u /\ t.refresh[n] = r
  BY <1>1, <1>4 DEF Server
<1>6. \A m \in Known(s) : t.owner[m] = s.owner[m] /\ t.refresh[m] = s.refresh[m]
  BY <1>1, <1>4 DEF Server
<1>7. t \in Server
  <2>1. n \in 0..MaxGrant
    BY <1>1, GrantAssumption DEF Grants
  <2>2. r \in Grants \cup {None}
    BY <1>1
  <2> QED BY <1>1, <1>2, <2>1, <2>2 DEF Server
<1>8. ServerOK(t)
  BY <1>1, <1>3, <1>5, <1>6, <1>7 DEF ServerOK
<1>9. Later(s, t)
  BY <1>1, <1>3, <1>4, <1>6 DEF Later, ServerOK
<1> QED BY <1>1, <1>3, <1>4, <1>5, <1>8, <1>9

----------------------------------------------------------------------------
\* Grants that wait in terminal p are dropped or written to the file.
LEMMA Fewer ==
  ASSUME NEW h, NEW p \in Terminals, NEW g, NEW written, NEW now,
         h = [q \in Terminals |-> h[q]], Separate(h, written),
         \A w \in Places : g[w] \in {None, h[p][w]},
         \A n \in now : \/ n = None \/ n \in written
                        \/ \E w \in Places : h[p][w] = n /\ g[w] = None
  PROVE  Separate([h EXCEPT ![p] = g], now)
<1> DEFINE after == [h EXCEPT ![p] = g]
<1>1. \A q \in Terminals, w \in Places : after[q][w] # None => after[q][w] = h[q][w]
  OBVIOUS
<1>2. after[p] = g
  OBVIOUS
<1> HIDE DEF after
<1>3. ASSUME NEW q \in Terminals, NEW w \in Places, after[q][w] # None
      PROVE  after[q][w] \notin now
  <2>1. after[q][w] = h[q][w] /\ h[q][w] # None /\ h[q][w] \notin written
    BY <1>1, <1>3 DEF Separate
  <2>2. ASSUME NEW v \in Places, h[p][v] = h[q][w], g[v] = None PROVE FALSE
    <3>1. p = q /\ v = w
      BY <2>1, <2>2 DEF Separate
    <3> QED BY <1>2, <1>3, <2>2, <3>1
  <2> QED BY <1>3, <2>1, <2>2
<1>4. ASSUME NEW q \in Terminals, NEW w \in Places, after[q][w] # None,
             NEW r \in Terminals, NEW v \in Places, after[r][v] = after[q][w]
      PROVE  r = q /\ v = w
  BY <1>1, <1>4 DEF Separate
<1> QED BY <1>3, <1>4 DEF Separate, after

\* A new grant waits in terminal p.
LEMMA OneMore ==
  ASSUME NEW h, NEW p \in Terminals, NEW g, NEW written, NEW z \in Places, NEW n,
         h = [q \in Terminals |-> h[q]], Separate(h, written),
         g[z] = n, n # None, n \notin written,
         \A q \in Terminals, w \in Places : h[q][w] # n,
         \A w \in Places : w # z => g[w] = h[p][w]
  PROVE  Separate([h EXCEPT ![p] = g], written)
<1> DEFINE after == [h EXCEPT ![p] = g]
<1>1. \A q \in Terminals, w \in Places :
        after[q][w] = IF q = p /\ w = z THEN n ELSE h[q][w]
  OBVIOUS
<1> HIDE DEF after
<1>2. ASSUME NEW q \in Terminals, NEW w \in Places, after[q][w] # None
      PROVE  after[q][w] \notin written
  BY <1>1, <1>2 DEF Separate
<1>3. ASSUME NEW q \in Terminals, NEW w \in Places, after[q][w] # None,
             NEW r \in Terminals, NEW v \in Places, after[r][v] = after[q][w]
      PROVE  r = q /\ v = w
  BY <1>1, <1>3 DEF Separate
<1> QED BY <1>2, <1>3 DEF Separate, after

\* A grant of terminal p goes from place y to place z.
LEMMA Elsewhere ==
  ASSUME NEW h, NEW p \in Terminals, NEW g, NEW written, NEW y \in Places, NEW z \in Places,
         h = [q \in Terminals |-> h[q]], Separate(h, written), y # z,
         g[z] = h[p][y], g[y] = None,
         \A w \in Places : w \notin {y, z} => g[w] = h[p][w]
  PROVE  Separate([h EXCEPT ![p] = g], written)
<1> DEFINE after == [h EXCEPT ![p] = g]
           from(q, w) == IF q = p /\ w = z THEN y ELSE w
<1>1. \A q \in Terminals, w \in Places : after[q][w] # None =>
        after[q][w] = h[q][from(q, w)] /\ from(q, w) \in Places /\ ~(q = p /\ w = y)
  OBVIOUS
<1> HIDE DEF after
<1>2. ASSUME NEW q \in Terminals, NEW w \in Places, after[q][w] # None
      PROVE  after[q][w] \notin written
  BY <1>1, <1>2 DEF Separate
<1>3. ASSUME NEW q \in Terminals, NEW w \in Places, after[q][w] # None,
             NEW r \in Terminals, NEW v \in Places, after[r][v] = after[q][w]
      PROVE  r = q /\ v = w
  <2>1. h[q][from(q, w)] = h[r][from(r, v)] /\ h[q][from(q, w)] # None
        /\ from(q, w) \in Places /\ from(r, v) \in Places
    BY <1>1, <1>3
  <2>2. q = r /\ from(q, w) = from(r, v)
    BY <2>1 DEF Separate
  <2> QED BY <1>1, <1>3, <2>2
<1> QED BY <1>2, <1>3 DEF Separate, after

LEMMA WaitingAt ==
  ASSUME NEW a, NEW k, NEW c
  PROVE  LET g == Waiting(a, k, c)
         IN  /\ g["login"] = a.login /\ g["main"] = Answer(k) /\ g["candidate"] = Answer(c)
             /\ g["cached"] = IF a.cached.current # a.cached.source
                                THEN a.cached.current ELSE None
             /\ Places = {"login", "main", "candidate", "cached"}
BY DEF Waiting, Places

----------------------------------------------------------------------------
\* A step in which terminal p becomes b, with clients k and c, and the server goes on.
Steps(p, b, k, c) ==
  /\ Becomes(p, b, k, c)
  /\ ServerOK(server') /\ Later(server, server')
  /\ TerminalOK(server', b, k, c)

\* The files terminal b has seen.
Seen(b) == {b.source, b.cached.source, b.gained.source}

LEMMA Moves ==
  ASSUME Shape, NEW p \in Terminals, NEW b, NEW k, NEW c, Steps(p, b, k, c),
         file' \in Known(server') \cup {None, Corrupt, Foreign}
  PROVE  /\ Shape'
         /\ Held = [q \in Terminals |-> Held[q]]
         /\ Held[p] = Waiting(app[p], client[Main(p)], client[Candidate(p)])
         /\ Held' = [Held EXCEPT ![p] = Waiting(b, k, c)]
         /\ app'[p] = b /\ client'[Main(p)] = k /\ client'[Candidate(p)] = c
         /\ \A q \in Terminals : q # p =>
              /\ app'[q] = app[q] /\ client'[Main(q)] = client[Main(q)]
              /\ client'[Candidate(q)] = client[Candidate(q)]
         /\ \A n \in Written' : n = file' \/ n \in Seen(b) \/ n \in Written
<1>1. /\ app \in [Terminals -> App] /\ client \in [Clients -> Client] /\ server \in Server
      /\ b \in App /\ k \in Client /\ c \in Client
  BY DEF Shape, Steps, TerminalOK, ClientOK, ServerOK
<1>2. app' \in [Terminals -> App] /\ app'[p] = b /\ \A q \in Terminals : q # p => app'[q] = app[q]
  BY <1>1 DEF Steps, Becomes
<1>3. /\ client' \in [Clients -> Client]
      /\ client'[Main(p)] = k /\ client'[Candidate(p)] = c
      /\ \A q \in Terminals : q # p => /\ client'[Main(q)] = client[Main(q)]
                                      /\ client'[Candidate(q)] = client[Candidate(q)]
  BY <1>1, TwoClients DEF Steps, Becomes, WithClients
<1>4. ASSUME NEW q \in Terminals
      PROVE  TerminalOK(server', app'[q], client'[Main(q)], client'[Candidate(q)])
  <2>1. CASE q = p
    BY <1>2, <1>3, <2>1 DEF Steps
  <2>2. CASE q # p
    <3>1. TerminalOK(server, app[q], client[Main(q)], client[Candidate(q)])
      BY DEF Shape
    <3>2. TerminalOK(server', app[q], client[Main(q)], client[Candidate(q)])
      BY <1>1, <3>1, LaterTerminal DEF Steps
    <3> QED BY <1>2, <1>3, <2>2, <3>2
  <2> QED BY <2>1, <2>2
<1>5. Shape'
  BY <1>2, <1>3, <1>4 DEF Shape, Steps
<1>6. Held' = [Held EXCEPT ![p] = Waiting(b, k, c)]
  BY <1>2, <1>3 DEF Held
<1>7. \A n \in Written' : n = file' \/ n \in Seen(b) \/ n \in Written
  BY <1>2 DEF Written, Seen
<1> QED BY <1>2, <1>3, <1>5, <1>6, <1>7 DEF Held

\* No terminal but p sees a file come back that it saw before.
LEMMA OthersKeep ==
  ASSUME RotationIsKept, NEW p \in Terminals,
         \A q \in Terminals : q # p => app'[q] = app[q],
         \/ file' = file
         \/ \A q \in Terminals \ {p} : app[q].gained # NoRecovery => file' # app[q].gained.source,
         (app'[p].gained # NoRecovery /\ file' = app'[p].gained.source) =>
           app'[p].cached = app'[p].gained
  PROVE  RotationIsKept'
BY DEF RotationIsKept

\* The usual step: p writes a waiting grant, erases the file or leaves it.
LEMMA Usually ==
  ASSUME IInv, NEW p \in Terminals, NEW b, NEW k, NEW c, Steps(p, b, k, c),
         NEW g, g = Waiting(b, k, c),
         \A w \in Places : g[w] \in {None, Held[p][w]},
         \/ file' \in {file, None}
         \/ \E w \in Places : file' = Held[p][w] /\ g[w] = None,
         Seen(b) \subseteq Written \cup {None},
         (b.gained # NoRecovery /\ file' = b.gained.source) => b.cached = b.gained
  PROVE  IInv'
<1>0. Shape /\ Separate(Held, Written) /\ RotationIsKept /\ server \in Server
  BY DEF IInv, Shape, ServerOK
<1>1. TerminalOK(server, app[p], client[Main(p)], client[Candidate(p)])
      /\ Held[p] = Waiting(app[p], client[Main(p)], client[Candidate(p)])
  BY <1>0 DEF Shape, Held
<1>2. \A w \in Places : Held[p][w] \in Known(server) \cup {None}
  BY <1>1, WaitingAt DEF TerminalOK, Remembers, ClientOK, Answer
<1>3. file' \in Known(server') \cup {None, Corrupt, Foreign}
  BY <1>0, <1>2 DEF Shape, Steps, Later
<1>4. Shape' /\ Held' = [Held EXCEPT ![p] = g]
  BY <1>0, <1>3, Moves
<1>5. Separate(Held', Written')
  <2>1. \A n \in Written' : \/ n = None \/ n \in Written
                           \/ \E w \in Places : Held[p][w] = n /\ g[w] = None
    <3>1. file \in Written
      BY DEF Written
    <3>2. \A n \in Written' : n = file' \/ n \in Seen(b) \/ n \in Written
      BY <1>0, <1>3, Moves
    <3> QED BY <3>1, <3>2
  <2>2. Held = [q \in Terminals |-> Held[q]]
    BY DEF Held
  <2> QED BY <1>0, <1>4, <2>1, <2>2, Fewer
<1>6. RotationIsKept'
  <2>1. /\ \A q \in Terminals : q # p => app'[q] = app[q]
        /\ app'[p] = b
    BY <1>0, <1>3, Moves
  <2>2. \/ file' = file
        \/ \A q \in Terminals \ {p} : app[q].gained # NoRecovery => file' # app[q].gained.source
    <3>1. ASSUME NEW q \in Terminals \ {p}, app[q].gained # NoRecovery
          PROVE  app[q].gained.source # None /\ app[q].gained.source \in Written
      <4>1. CacheOK(server, app[q])
        BY <1>0 DEF Shape, TerminalOK
      <4>2. app[q].gained.source \in Written
        BY DEF Written
      <4> QED BY <3>1, <4>1, <4>2 DEF CacheOK
    <3>2. \A w \in Places : Held[p][w] # None => Held[p][w] \notin Written
      BY <1>0 DEF Separate
    <3> QED BY <3>1, <3>2
  <2> QED BY <1>0, <2>1, <2>2, OthersKeep
<1> QED BY <1>4, <1>5, <1>6 DEF IInv

----------------------------------------------------------------------------
\* What the invariant says of terminal p.
LEMMA Of ==
  ASSUME IInv, NEW p \in Terminals
  PROVE  /\ ServerOK(server) /\ server \in Server /\ Later(server, server)
         /\ app \in [Terminals -> App] /\ client \in [Clients -> Client] /\ app[p] \in App
         /\ TerminalOK(server, app[p], client[Main(p)], client[Candidate(p)])
         /\ ClientOK(server, client[Main(p)]) /\ ClientOK(server, client[Candidate(p)])
         /\ client[Main(p)] \in Client /\ client[Candidate(p)] \in Client
         /\ MemberOK(server, app[p], client[Main(p)])
         /\ StageOK(app[p], client[Candidate(p)]) /\ CacheOK(server, app[p])
         /\ Held[p] = Waiting(app[p], client[Main(p)], client[Candidate(p)])
         /\ Seen(app[p]) \subseteq Written /\ file \in Written
         /\ file \in Known(server) \cup {None, Corrupt, Foreign}
         /\ (app[p].gained # NoRecovery /\ file = app[p].gained.source) =>
              app[p].cached = app[p].gained
<1>1. Seen(app[p]) \subseteq Written /\ file \in Written
  BY DEF Seen, Written
<1>2. TerminalOK(server, app[p], client[Main(p)], client[Candidate(p)])
  BY DEF IInv, Shape
<1> QED BY <1>1, <1>2, SameServer DEF IInv, Shape, ServerOK, TerminalOK, ClientOK, Held, RotationIsKept

\* A step of p that begins nothing: it brings no new grant and tries no other file.
LEMMA Quietly ==
  ASSUME IInv, NEW p \in Terminals, NEW b, NEW k, NEW c, Becomes(p, b, k, c), server' = server,
         b \in App, b.source \in {None, app[p].source}, b.login \in {None, app[p].login},
         b.snapshot \in Known(server) \cup {None},
         \/ b.cached = app[p].cached /\ b.gained = app[p].gained
         \/ b.cached = NoRecovery /\ b.gained = NoRecovery,
         ClientOK(server, k), Answer(k) \in {None, Answer(client[Main(p)])},
         ClientOK(server, c), Answer(c) \in {None, Answer(client[Candidate(p)])},
         MemberOK(server, b, k), StageOK(b, c),
         \/ file' \in {file, None}
         \/ \E w \in Places : file' = Held[p][w] /\ Waiting(b, k, c)[w] = None
  PROVE  IInv'
<1> DEFINE g == Waiting(b, k, c)
<1>1. NoRecovery.source = None /\ NoRecovery.current = None
  BY DEF NoRecovery
<1>2. CacheOK(server, b)
  BY Of DEF CacheOK
<1>3. Remembers(b) \subseteq Known(server) \cup {None}
  BY Of, <1>1 DEF TerminalOK, Remembers
<1>4. Steps(p, b, k, c)
  BY Of, <1>2, <1>3 DEF Steps, TerminalOK
<1>5. \A w \in Places : g[w] \in {None, Held[p][w]}
  BY Of, <1>1, WaitingAt
<1>6. Seen(b) \subseteq Written \cup {None}
  BY Of, <1>1 DEF Seen
<1>7. (b.gained # NoRecovery /\ file' = b.gained.source) => b.cached = b.gained
  <2>1. SUFFICES ASSUME b.gained # NoRecovery, file' = b.gained.source PROVE b.cached = b.gained
    OBVIOUS
  <2>2. b.cached = app[p].cached /\ b.gained = app[p].gained
    BY <2>1
  <2>3. file' # None /\ file' \in Written
    BY Of, <2>1, <2>2 DEF CacheOK, Seen
  <2>4. \A w \in Places : Held[p][w] = None \/ Held[p][w] \notin Written
    BY DEF IInv, Separate
  <2>5. file' = file
    BY <2>3, <2>4
  <2> QED BY Of, <2>1, <2>2, <2>5
<1> HIDE DEF g
<1>8. g = Waiting(b, k, c)
  BY DEF g
<1> QED BY <1>4, <1>5, <1>6, <1>7, <1>8, Usually

\* Clients that an abort, or a rejection, leaves.
LEMMA AbortedClient ==
  ASSUME NEW s, NEW k, ClientOK(s, k)
  PROVE  ClientOK(s, Aborted(k)) /\ Answer(Aborted(k)) = None /\ Aborted(k).grant = k.grant
<1>1. CASE k.at \in {"refreshing", "answered"}
  <2> DEFINE j == [grant |-> k.grant, at |-> "idle", old |-> None, new |-> None]
  <2>1. Aborted(k) = j
    BY <1>1 DEF Aborted
  <2>2. j \in Client
    BY DEF ClientOK, Client, Phases, None
  <2>3. j.grant = k.grant /\ j.at = "idle" /\ j.old = None /\ j.new = None
    OBVIOUS
  <2> HIDE DEF j
  <2> QED BY <2>1, <2>2, <2>3 DEF ClientOK, Asking, Answer
<1>2. CASE k.at \notin {"refreshing", "answered"}
  BY <1>2 DEF Aborted, Answer
<1> QED BY <1>1, <1>2

LEMMA IdleClient ==
  ASSUME NEW s \in Server, NEW n \in Known(s) \cup {None}, NEW at \in {"idle", "corrupt", "foreign"},
         NEW k, k = [grant |-> n, at |-> at, old |-> None, new |-> None]
  PROVE  ClientOK(s, k) /\ k.grant = n /\ k.at = at /\ Answer(k) = None
BY KnownGrants DEF ClientOK, Client, Phases, Asking, Answer, None

LEMMA NobodysClient ==
  /\ NoClient.grant = None /\ NoClient.at = "idle" /\ Answer(NoClient) = None
  /\ NoRecovery \in Recovery /\ NoRecovery.source = None /\ NoRecovery.current = None
BY DEF NoClient, NoRecovery, Recovery, Answer, None

\* The session of p ends, or its recovery does.
LEMMA Stops ==
  ASSUME IInv, NEW p \in Terminals, NEW b, NEW k, Becomes(p, b, k, NoClient), server' = server,
         b \in App, b.stage = "none", b.source = None, b.login = app[p].login,
         b.snapshot = app[p].snapshot, b.cached = app[p].cached, b.gained = app[p].gained,
         ClientOK(server, k), Answer(k) \in {None, Answer(client[Main(p)])},
         MemberOK(server, b, k), file' \in {file, None}
  PROVE  IInv'
<1>1. ClientOK(server, NoClient) /\ StageOK(b, NoClient)
  BY NoClientOK DEF StageOK
<1>2. b.snapshot \in Known(server) \cup {None}
  BY Of DEF TerminalOK, Remembers
<1> QED BY <1>1, <1>2, NobodysClient, Quietly

LEMMA EndedFields ==
  ASSUME NEW a \in App
  PROVE  /\ Ended(a) \in App /\ Ended(a).me = Nobody /\ Ended(a).stage = "none"
         /\ Ended(a).source = None /\ Ended(a).login = a.login
         /\ Ended(a).leaving = a.leaving /\ Ended(a).snapshot = a.snapshot
         /\ Ended(a).cached = a.cached /\ Ended(a).gained = a.gained
BY DEF Ended, App, Stages

\* end_session, while p's main client becomes k.
LEMMA EndsKeeps ==
  ASSUME IInv, NEW p \in Terminals, NEW k, Becomes(p, Ended(app[p]), k, NoClient), server' = server,
         ClientOK(server, k), Answer(k) \in {None, Answer(client[Main(p)])}, file' \in {file, None}
  PROVE  IInv'
<1> DEFINE b == Ended(app[p])
<1>1. /\ b \in App /\ b.me = Nobody /\ b.stage = "none" /\ b.source = None
      /\ b.login = app[p].login /\ b.leaving = app[p].leaving
      /\ b.snapshot = app[p].snapshot /\ b.cached = app[p].cached /\ b.gained = app[p].gained
  BY Of, EndedFields
<1>2. Becomes(p, b, k, NoClient)
  OBVIOUS
<1> HIDE DEF b
<1>3. MemberOK(server, b, k)
  BY Of, <1>1 DEF MemberOK
<1> QED BY <1>1, <1>2, <1>3, Stops

LEMMA EndsSessionKeeps ==
  ASSUME IInv, NEW p \in Terminals, EndsSession(p), server' = server, file' \in {file, None}
  PROVE  IInv'
<1>1. Becomes(p, Ended(app[p]), Aborted(client[Main(p)]), NoClient)
  BY Of DEF EndsSession, Becomes
<1> QED BY <1>1, Of, AbortedClient, EndsKeeps

LEMMA StaysPausedKeeps ==
  ASSUME IInv, NEW p \in Terminals, StaysPaused(p), server' = server, file' = file
  PROVE  IInv'
<1> DEFINE b == [app[p] EXCEPT !.paused = TRUE, !.stage = "none", !.source = None]
<1>1. Becomes(p, b, client[Main(p)], NoClient)
  BY Of DEF StaysPaused, Becomes
<1>2. /\ b \in App /\ b.me = app[p].me /\ b.paused /\ b.stage = "none" /\ b.source = None
      /\ b.login = app[p].login /\ b.leaving = app[p].leaving
      /\ b.snapshot = app[p].snapshot /\ b.cached = app[p].cached /\ b.gained = app[p].gained
  BY Of DEF App, Stages
<1> HIDE DEF b
<1>3. MemberOK(server, b, client[Main(p)])
  BY Of, <1>2 DEF MemberOK
<1> QED BY <1>1, <1>2, <1>3, Of, Stops

----------------------------------------------------------------------------
\* The steps of a terminal, each of which keeps the invariant.

\* A file that is loaded.
LEMMA Loaded ==
  ASSUME IInv, NEW p \in Terminals
  PROVE  file \in Grants <=> file \in Known(server)
BY Of, KnownGrants

LEMMA StartKeeps ==
  ASSUME IInv, NEW p \in Terminals, Start(p) PROVE IInv'
<1> DEFINE n == IF file \in Grants THEN file ELSE None
           at == CASE file = Corrupt -> "corrupt" [] file = Foreign -> "foreign" [] OTHER -> "idle"
           k == [grant |-> n, at |-> at, old |-> None, new |-> None]
           stage == IF file \in Grants THEN "restoring" ELSE "none"
           b == [Off EXCEPT !.on = TRUE, !.stage = stage]
<1>1. Becomes(p, b, k, NoClient) /\ server' = server /\ file' = file
  BY DEF Start, Becomes
<1>2. n \in Known(server) \cup {None} /\ at \in {"idle", "corrupt", "foreign"}
  BY Of, Loaded
<1>3. stage \in {"none", "restoring"}
  OBVIOUS
<1> HIDE DEF stage, at, n
<1>4. /\ b \in App /\ b.me = Nobody /\ b.stage = stage /\ b.source = None /\ b.login = None
      /\ ~b.leaving /\ b.snapshot = None /\ b.cached = NoRecovery /\ b.gained = NoRecovery
  BY <1>3, NobodysClient DEF Off, App, Stages
<1>5. k = [grant |-> n, at |-> at, old |-> None, new |-> None]
  OBVIOUS
<1> HIDE DEF b, k
<1>6. ClientOK(server, k) /\ Answer(k) = None
  BY <1>2, <1>5, Of, IdleClient
<1>7. MemberOK(server, b, k) /\ StageOK(b, NoClient)
  BY <1>3, <1>4 DEF MemberOK, StageOK
<1> QED BY <1>1, <1>4, <1>6, <1>7, NobodysClient, NoClientOK, Quietly

LEMMA ExitKeeps ==
  ASSUME IInv, NEW p \in Terminals, Exit(p) PROVE IInv'
<1>1. Becomes(p, Off, NoClient, NoClient) /\ server' = server /\ file' = file
  BY DEF Exit, Becomes
<1>2. /\ Off \in App /\ Off.me = Nobody /\ Off.stage = "none" /\ Off.source = None
      /\ Off.login = None /\ ~Off.leaving /\ Off.snapshot = None
      /\ Off.cached = NoRecovery /\ Off.gained = NoRecovery
  BY NobodysClient DEF Off, App, Stages
<1>3. MemberOK(server, Off, NoClient) /\ StageOK(Off, NoClient)
  BY <1>2 DEF MemberOK, StageOK
<1> QED BY <1>1, <1>2, <1>3, NobodysClient, NoClientOK, Quietly

LEMMA QuarantineKeeps ==
  ASSUME IInv, NEW p \in Terminals, Quarantine(p) PROVE IInv'
<1> DEFINE k == client[Main(p)]
           idle == [grant |-> k.grant, at |-> "idle", old |-> None, new |-> None]
<1>1. k.grant \in Known(server) \cup {None}
  BY Of DEF ClientOK
<1>2. ClientOK(server, idle) /\ Answer(idle) = None /\ idle.grant = k.grant
  BY <1>1, Of, IdleClient
<1>3. client' = WithClients(p, idle, client[Candidate(p)])
  BY DEF Quarantine
<1>4. server' = server /\ file' \in {file, None}
  BY DEF Quarantine, SetAside
<1>5. app' = [app EXCEPT ![p] = IF app[p].stage = "asked" THEN Ended(app[p]) ELSE app[p]]
  BY DEF Quarantine
<1> HIDE DEF idle, k
<1>6. CASE app[p].stage = "asked"
  <2>1. Becomes(p, Ended(app[p]), idle, NoClient)
    BY <1>3, <1>5, <1>6, Of DEF Becomes, StageOK
  <2> QED BY <1>2, <1>4, <2>1, EndsKeeps
<1>7. CASE app[p].stage # "asked"
  <2>1. Becomes(p, app[p], idle, client[Candidate(p)])
    BY <1>3, <1>5, <1>7 DEF Becomes
  <2>2. MemberOK(server, app[p], idle)
    BY <1>2, Of DEF MemberOK, k
  <2>3. app[p].snapshot \in Known(server) \cup {None}
    BY Of DEF TerminalOK, Remembers
  <2> QED BY <1>2, <1>4, <2>1, <2>2, <2>3, Of, Quietly
<1> QED BY <1>6, <1>7

\* A step that changes neither the clients nor what terminal p remembers.
LEMMA Turns ==
  ASSUME IInv, NEW p \in Terminals, NEW b, app' = [app EXCEPT ![p] = b],
         UNCHANGED <<file, server, client>>,
         b \in App, b.source = app[p].source, b.login \in {None, app[p].login},
         b.snapshot = app[p].snapshot, b.cached = app[p].cached, b.gained = app[p].gained,
         MemberOK(server, b, client[Main(p)]), StageOK(b, client[Candidate(p)])
  PROVE  IInv'
<1>1. Becomes(p, b, client[Main(p)], client[Candidate(p)])
  BY Of, OneClient DEF Becomes
<1>2. b.snapshot \in Known(server) \cup {None}
  BY Of DEF TerminalOK, Remembers
<1> QED BY <1>1, <1>2, Of, Quietly

LEMMA RecheckKeeps ==
  ASSUME IInv, NEW p \in Terminals, Recheck(p) PROVE IInv'
<1>1. PICK queued \in BOOLEAN :
        app' = [app EXCEPT ![p] =
                  [app[p] EXCEPT !.paused = TRUE, !.queued = queued, !.stage = "asked"]]
  BY Of DEF Recheck, App
<1> DEFINE b == [app[p] EXCEPT !.paused = TRUE, !.queued = queued, !.stage = "asked"]
<1>2. /\ b \in App /\ b.paused /\ b.me = app[p].me /\ b.stage = "asked"
      /\ b.source = app[p].source /\ b.login = app[p].login /\ b.leaving = app[p].leaving
      /\ b.snapshot = app[p].snapshot /\ b.cached = app[p].cached /\ b.gained = app[p].gained
  BY Of DEF App, Stages
<1>3. app' = [app EXCEPT ![p] = b] /\ UNCHANGED <<file, server, client>>
      /\ app[p].me # Nobody /\ app[p].stage = "none"
  BY <1>1 DEF Recheck
<1> HIDE DEF b
<1>4. MemberOK(server, b, client[Main(p)]) /\ StageOK(b, client[Candidate(p)])
  BY <1>2, <1>3, Of DEF MemberOK, StageOK
<1> QED BY <1>2, <1>3, <1>4, Turns

LEMMA VerifyRecoveryKeeps ==
  ASSUME IInv, NEW p \in Terminals, VerifyRecovery(p) PROVE IInv'
<1> DEFINE c == client[Candidate(p)]
           b == [app[p] EXCEPT !.stage = "verified"]
<1>0. UNCHANGED <<file, server>> /\ app[p].stage = "verifying" /\ c.at = "idle"
  BY DEF VerifyRecovery
<1>1. CASE c.grant # None /\ app' = [app EXCEPT ![p] = b] /\ UNCHANGED client
  <2>1. /\ b \in App /\ b.paused = app[p].paused /\ b.me = app[p].me /\ b.stage = "verified"
        /\ b.source = app[p].source /\ b.login = app[p].login /\ b.leaving = app[p].leaving
        /\ b.snapshot = app[p].snapshot /\ b.cached = app[p].cached /\ b.gained = app[p].gained
    BY Of DEF App, Stages
  <2> HIDE DEF b
  <2>2. MemberOK(server, b, client[Main(p)]) /\ StageOK(b, c)
    BY <1>0, <1>1, <2>1, Of DEF MemberOK, StageOK
  <2> QED BY <1>0, <1>1, <2>1, <2>2, Turns
<1>2. CASE EndsSession(p)
  BY <1>0, <1>2, EndsSessionKeeps
<1>3. CASE StaysPaused(p)
  BY <1>0, <1>3, StaysPausedKeeps
<1> QED BY <1>1, <1>2, <1>3 DEF VerifyRecovery

\* The verdict counts: what the candidate holds is the member's, in memory and on disk.
LEMMA RecoveryVerifiedKeeps ==
  ASSUME IInv, NEW p \in Terminals, RecoveryVerified(p) PROVE IInv'
<1> DEFINE c == client[Candidate(p)]
           n == c.grant
           b == [app[p] EXCEPT !.me = server.owner[n], !.paused = FALSE, !.queued = FALSE,
                               !.stage = "none", !.source = None,
                               !.cached = NoRecovery, !.gained = NoRecovery]
<1>0. server' = server /\ app[p].stage = "verified"
  BY DEF RecoveryVerified
<1>1. CASE /\ file = app[p].source /\ file' = ReplacedIfMatches(app[p].source, n)
           /\ app' = [app EXCEPT ![p] = b] /\ client' = WithClients(p, c, NoClient)
  <2>1. /\ n \in Known(server) /\ n \in Grants /\ c.at = "idle"
        /\ app[p].cached = [source |-> app[p].source, current |-> n] /\ app[p].login = None
        /\ ~app[p].leaving
    BY <1>0, Of, KnownGrants DEF StageOK, ClientOK, MemberOK
  <2>2. server.owner[n] \in Accounts \cup {Nobody}
    BY <2>1, Of DEF Server
  <2>3. /\ b \in App /\ b.me = server.owner[n] /\ b.stage = "none" /\ b.source = None
        /\ b.login = None /\ ~b.leaving /\ b.snapshot = app[p].snapshot
        /\ b.cached = NoRecovery /\ b.gained = NoRecovery
    BY <2>1, <2>2, Of, NobodysClient DEF App, Stages
  <2>4. Becomes(p, b, c, NoClient)
    BY <1>1 DEF Becomes
  <2>5. file' = n
    BY <1>1 DEF ReplacedIfMatches
  <2> HIDE DEF b
  <2>6. MemberOK(server, b, c) /\ StageOK(b, NoClient) /\ Answer(c) = None
    BY <2>1, <2>3 DEF MemberOK, StageOK, Answer
  <2>7. \/ file' = file
        \/ "cached" \in Places /\ file' = Held[p]["cached"] /\ Waiting(b, c, NoClient)["cached"] = None
    <3>1. app[p].cached.source = file /\ app[p].cached.current = n
      BY <1>1, <2>1
    <3> QED BY <2>3, <2>5, <3>1, Of, WaitingAt, NobodysClient
  <2>8. b.snapshot \in Known(server) \cup {None}
    BY <2>3, Of DEF TerminalOK, Remembers
  <2> QED BY <1>0, <2>3, <2>4, <2>6, <2>7, <2>8, Of, NobodysClient, NoClientOK, Quietly
<1>2. CASE StaysPaused(p) /\ UNCHANGED file
  BY <1>0, <1>2, StaysPausedKeeps
<1> QED BY <1>1, <1>2 DEF RecoveryVerified

\* Another grant in the file: the candidate starts from the cached one, or from it.
LEMMA NewCandidate ==
  ASSUME IInv, NEW p \in Terminals, app[p].stage = "asked", file \in Grants,
         NEW kept, kept = Cached(app[p]),
         NEW b \in App, b.stage = "verifying", b.source = file, b.cached = kept,
         b.me = app[p].me, b.paused = app[p].paused, b.login = app[p].login,
         b.leaving = app[p].leaving, b.snapshot = app[p].snapshot, b.gained = app[p].gained,
         NEW c, ClientOK(server, c), c.grant = kept.current, Answer(c) = None,
         Becomes(p, b, client[Main(p)], c), file' = file, server' = server
  PROVE  IInv'
<1> DEFINE a == app[p]
           k == client[Main(p)]
           g == Waiting(b, k, c)
<1>1. file # None /\ file \in Known(server)
  BY Of, Loaded, KnownGrants
<1>2. IF a.cached.source = file THEN kept = a.cached
      ELSE kept.source = file /\ kept.current = file
  BY DEF Cached
<1>3. kept.source = file /\ kept = [source |-> file, current |-> kept.current]
  BY <1>1, Of DEF Cached, Recovery, App
<1>4. kept.current # None /\ Follows(server, file, kept.current)
  BY <1>1, <1>2, Of, NobodysClient DEF CacheOK, Follows
<1>5. StageOK(b, c)
  BY <1>1, <1>3 DEF StageOK
<1>6. CacheOK(server, b)
  BY <1>1, <1>3, <1>4, Of DEF CacheOK
<1>7. Remembers(b) \subseteq Known(server) \cup {None}
  <2>1. Remembers(a) \subseteq Known(server) \cup {None}
    BY Of DEF TerminalOK
  <2> QED BY <1>1, <1>2, <2>1 DEF Remembers
<1>8. Steps(p, b, k, c)
  BY <1>5, <1>6, <1>7, Of DEF Steps, TerminalOK, MemberOK
<1>9. \A w \in Places : g[w] \in {None, Held[p][w]}
  <2>1. g["login"] = Held[p]["login"] /\ g["main"] = Held[p]["main"] /\ g["candidate"] = None
    BY Of, WaitingAt
  <2>2. g["cached"] \in {None, Held[p]["cached"]}
    BY <1>2, Of, WaitingAt
  <2> QED BY <2>1, <2>2 DEF Places
<1>10. Seen(b) \subseteq Written \cup {None}
  BY <1>3, Of DEF Seen
<1>11. (b.gained # NoRecovery /\ file' = b.gained.source) => b.cached = b.gained
  BY <1>2, Of
<1> HIDE DEF g
<1>12. g = Waiting(b, k, c)
  BY DEF g
<1> QED BY <1>8, <1>9, <1>10, <1>11, <1>12, Usually

LEMMA PrepareCandidateKeeps ==
  ASSUME IInv, NEW p \in Terminals, PrepareCandidate(p) PROVE IInv'
<1>0. UNCHANGED <<file, server>> /\ app[p].stage = "asked" /\ client[Main(p)].at = "idle"
  BY DEF PrepareCandidate
<1>1. CASE EndsSession(p)
  BY <1>0, <1>1, EndsSessionKeeps
<1>2. CASE StaysPaused(p)
  BY <1>0, <1>2, StaysPausedKeeps
<1>3. CASE client' = [client EXCEPT ![Main(p)] = [@ EXCEPT !.at = "foreign"]] /\ UNCHANGED app
  <2> DEFINE k == [client[Main(p)] EXCEPT !.at = "foreign"]
  <2>1. client[Main(p)].new = None /\ client[Main(p)].old = None
    BY <1>0, Of DEF ClientOK, Asking
  <2>2. k = [grant |-> client[Main(p)].grant, at |-> "foreign", old |-> None, new |-> None]
    BY <2>1, Of DEF Client
  <2>3. client[Main(p)].grant \in Known(server) \cup {None}
    BY Of DEF ClientOK
  <2>4. client' = [client EXCEPT ![Main(p)] = k]
    BY <1>3
  <2> DEFINE j == [grant |-> client[Main(p)].grant, at |-> "foreign", old |-> None, new |-> None]
  <2>5. ClientOK(server, j) /\ Answer(j) = None /\ j.grant = client[Main(p)].grant /\ k = j
    BY <2>2, <2>3, Of, IdleClient
  <2> HIDE DEF k, j
  <2>6. Becomes(p, app[p], k, client[Candidate(p)])
    BY <1>3, <2>4, Of, OneClient DEF Becomes
  <2>7. MemberOK(server, app[p], k) /\ app[p].snapshot \in Known(server) \cup {None}
    BY <2>5, Of DEF MemberOK, TerminalOK, Remembers
  <2> QED BY <1>0, <2>5, <2>6, <2>7, Of, Quietly
<1>4. CASE /\ file \in Grants \ {client[Main(p)].grant}
           /\ app' = [app EXCEPT ![p] =
                [app[p] EXCEPT !.stage = "verifying", !.source = file, !.cached = Cached(app[p])]]
           /\ client' = WithClients(p, client[Main(p)],
                                    [NoClient EXCEPT !.grant = Cached(app[p]).current])
  <2> DEFINE kept == Cached(app[p])
             b == [app[p] EXCEPT !.stage = "verifying", !.source = file, !.cached = kept]
             c == [grant |-> kept.current, at |-> "idle", old |-> None, new |-> None]
  <2>1. c = [NoClient EXCEPT !.grant = kept.current]
    BY DEF NoClient
  <2>2. Becomes(p, b, client[Main(p)], c) /\ file \in Grants /\ file \in Known(server)
    BY <1>4, <2>1, Loaded DEF Becomes
  <2>3. kept \in Recovery /\ kept.current \in Known(server) \cup {None}
    BY <2>2, Of DEF Cached, Recovery, App, TerminalOK, Remembers
  <2>4. ClientOK(server, c) /\ c.grant = kept.current /\ Answer(c) = None
    BY <2>3, Of, IdleClient
  <2>5. kept = Cached(app[p])
    OBVIOUS
  <2> HIDE DEF kept, c
  <2>6. /\ b \in App /\ b.stage = "verifying" /\ b.source = file /\ b.cached = kept
        /\ b.me = app[p].me /\ b.paused = app[p].paused /\ b.login = app[p].login
        /\ b.leaving = app[p].leaving /\ b.snapshot = app[p].snapshot
        /\ b.gained = app[p].gained
    BY <2>2, <2>3, Of DEF App, Stages
  <2> HIDE DEF b
  <2> QED BY <1>0, <2>2, <2>4, <2>5, <2>6, NewCandidate
<1> QED BY <1>1, <1>2, <1>3, <1>4 DEF PrepareCandidate

LEMMA RecoveryTimesOutKeeps ==
  ASSUME IInv, NEW p \in Terminals, RecoveryTimesOut(p) PROVE IInv'
<1> DEFINE b == [app[p] EXCEPT !.stage = "none", !.source = None, !.queued = FALSE]
           k == Aborted(client[Main(p)])
<1>1. Becomes(p, b, k, NoClient) /\ UNCHANGED <<file, server>>
  BY Of DEF RecoveryTimesOut, Becomes
<1>2. /\ b \in App /\ b.me = app[p].me /\ b.paused = app[p].paused /\ b.stage = "none"
      /\ b.source = None /\ b.login = app[p].login /\ b.leaving = app[p].leaving
      /\ b.snapshot = app[p].snapshot /\ b.cached = app[p].cached /\ b.gained = app[p].gained
  BY Of DEF App, Stages
<1>3. ClientOK(server, k) /\ Answer(k) = None /\ k.grant = client[Main(p)].grant
  BY Of, AbortedClient
<1> HIDE DEF b, k
<1>4. MemberOK(server, b, k)
  BY <1>2, <1>3, Of DEF MemberOK
<1> QED BY <1>1, <1>2, <1>3, <1>4, Stops

\* The member is the one the client's grant speaks for.
LEMMA RestoreKeeps ==
  ASSUME IInv, NEW p \in Terminals, Restore(p) PROVE IInv'
<1> DEFINE n == client[Main(p)].grant
           b == [app[p] EXCEPT !.me = server.owner[n], !.stage = "none"]
<1>0. UNCHANGED <<file, server>> /\ app[p].stage = "restoring"
  BY DEF Restore
<1>1. CASE n # None /\ app' = [app EXCEPT ![p] = b] /\ UNCHANGED client
  <2>1. server.owner[n] \in Accounts \cup {Nobody}
    BY <1>1, Of, KnownGrants DEF ClientOK, Server
  <2>2. /\ b \in App /\ b.me = server.owner[n] /\ b.paused = app[p].paused /\ b.stage = "none"
        /\ b.source = app[p].source /\ b.login = app[p].login /\ b.leaving = app[p].leaving
        /\ b.snapshot = app[p].snapshot /\ b.cached = app[p].cached /\ b.gained = app[p].gained
    BY <2>1, Of DEF App, Stages
  <2>3. app[p].login = None /\ ~app[p].leaving
    BY <1>0, Of DEF MemberOK
  <2> HIDE DEF b
  <2>4. MemberOK(server, b, client[Main(p)]) /\ StageOK(b, client[Candidate(p)])
    BY <1>0, <2>2, <2>3, Of DEF MemberOK, StageOK
  <2> QED BY <1>0, <1>1, <2>2, <2>4, Turns
<1>2. CASE EndsSession(p)
  BY <1>0, <1>2, EndsSessionKeeps
<1> QED BY <1>1, <1>2 DEF Restore

LEMMA SessionExpiresKeeps ==
  ASSUME IInv, NEW p \in Terminals, SessionExpires(p) PROVE IInv'
BY EndsSessionKeeps DEF SessionExpires

LEMMA LoginFailsKeeps ==
  ASSUME IInv, NEW p \in Terminals, LoginFails(p) PROVE IInv'
<1> DEFINE b == [app[p] EXCEPT !.login = None]
<1>1. app' = [app EXCEPT ![p] = b] /\ UNCHANGED <<file, server, client>>
  BY DEF LoginFails
<1>2. /\ b \in App /\ b.me = app[p].me /\ b.paused = app[p].paused /\ b.stage = app[p].stage
      /\ b.source = app[p].source /\ b.login = None /\ b.leaving = app[p].leaving
      /\ b.snapshot = app[p].snapshot /\ b.cached = app[p].cached /\ b.gained = app[p].gained
  BY Of DEF App
<1> HIDE DEF b
<1>3. MemberOK(server, b, client[Main(p)]) /\ StageOK(b, client[Candidate(p)])
  BY <1>2, Of DEF MemberOK, StageOK
<1> QED BY <1>1, <1>2, <1>3, Turns

\* The grant of the login flow goes to the file, and to the client.
LEMMA SetTokensKeeps ==
  ASSUME IInv, NEW p \in Terminals, SetTokens(p) PROVE IInv'
<1> DEFINE n == app[p].login
           k == [grant |-> n, at |-> "idle", old |-> None, new |-> None]
           b == [app[p] EXCEPT !.login = None, !.stage = "restoring", !.paused = FALSE,
                               !.cached = NoRecovery, !.gained = NoRecovery]
<1>1. server' = server /\ file' = n /\ n # None
      /\ app' = [app EXCEPT ![p] = b] /\ client' = [client EXCEPT ![Main(p)] = k]
  <2>1. [NoClient EXCEPT !.grant = n] = k
    BY DEF NoClient
  <2> QED BY <2>1 DEF SetTokens
<1>2. n \in Known(server) \cup {None} /\ app[p].me = Nobody /\ app[p].stage = "none"
      /\ ~app[p].leaving /\ app[p].snapshot \in Known(server) \cup {None}
  BY <1>1, Of DEF TerminalOK, Remembers, MemberOK
<1>3. /\ b \in App /\ b.me = Nobody /\ b.stage = "restoring"
      /\ b.source = app[p].source /\ b.login = None /\ ~b.leaving
      /\ b.snapshot = app[p].snapshot /\ b.cached = NoRecovery /\ b.gained = NoRecovery
  BY <1>2, Of, NobodysClient DEF App, Stages
<1>4. ClientOK(server, k) /\ Answer(k) = None
  BY <1>2, Of, IdleClient
<1> HIDE DEF b, k
<1>5. Becomes(p, b, k, client[Candidate(p)])
  BY <1>1, Of, OneClient DEF Becomes
<1>6. MemberOK(server, b, k) /\ StageOK(b, client[Candidate(p)])
  BY <1>2, <1>3, Of DEF MemberOK, StageOK
<1>7. "login" \in Places /\ file' = Held[p]["login"]
      /\ Waiting(b, k, client[Candidate(p)])["login"] = None
  BY <1>1, <1>3, Of, WaitingAt
<1> QED BY <1>1, <1>2, <1>3, <1>4, <1>5, <1>6, <1>7, Of, Quietly

LEMMA LogoutKeeps ==
  ASSUME IInv, NEW p \in Terminals, Logout(p) PROVE IInv'
<1> DEFINE e == Ended(app[p])
           b == [e EXCEPT !.leaving = TRUE]
           k == Aborted(client[Main(p)])
<1>1. Becomes(p, b, k, NoClient) /\ UNCHANGED <<file, server>>
  BY Of DEF Logout, Becomes
<1>2. /\ e \in App /\ e.me = Nobody /\ e.stage = "none" /\ e.source = None
      /\ e.login = app[p].login /\ e.snapshot = app[p].snapshot
      /\ e.cached = app[p].cached /\ e.gained = app[p].gained
  BY Of, EndedFields
<1> HIDE DEF e
<1>3. /\ b \in App /\ b.me = Nobody /\ b.stage = "none" /\ b.source = None
      /\ b.login = app[p].login /\ b.snapshot = app[p].snapshot
      /\ b.cached = app[p].cached /\ b.gained = app[p].gained
  BY <1>2 DEF App
<1>4. ClientOK(server, k) /\ Answer(k) = None
  BY Of, AbortedClient
<1>5. app[p].login = None
  BY Of DEF MemberOK, Logout
<1> HIDE DEF b, k
<1>6. MemberOK(server, b, k)
  BY <1>3, <1>5 DEF MemberOK
<1> QED BY <1>1, <1>3, <1>4, <1>6, Stops

LEMMA TakeTokensKeeps ==
  ASSUME IInv, NEW p \in Terminals, TakeTokens(p) PROVE IInv'
<1> DEFINE n == client[Main(p)].grant
           kept == [app[p] EXCEPT !.leaving = FALSE]
           gone == [app[p] EXCEPT !.leaving = FALSE, !.snapshot = n,
                                  !.cached = NoRecovery, !.gained = NoRecovery]
<1>0. server' = server /\ app[p].leaving /\ app[p].me = Nobody /\ app[p].stage = "none"
      /\ app[p].login = None /\ n \in Known(server) \cup {None}
  BY Of DEF TakeTokens, MemberOK, ClientOK
<1>1. CASE app' = [app EXCEPT ![p] = kept] /\ UNCHANGED <<file, client>>
  <2>1. /\ kept \in App /\ kept.me = app[p].me /\ kept.stage = app[p].stage
        /\ kept.source = app[p].source /\ kept.login = app[p].login /\ ~kept.leaving
        /\ kept.snapshot = app[p].snapshot /\ kept.cached = app[p].cached
        /\ kept.gained = app[p].gained
    BY Of DEF App
  <2> HIDE DEF kept
  <2>2. MemberOK(server, kept, client[Main(p)]) /\ StageOK(kept, client[Candidate(p)])
    BY <1>0, <2>1, Of DEF MemberOK, StageOK
  <2> QED BY <1>0, <1>1, <2>1, <2>2, Turns
<1>2. CASE /\ file' = IF n = None THEN file ELSE ErasedIfMatches(n)
           /\ client' = [client EXCEPT ![Main(p)] = NoClient]
           /\ app' = [app EXCEPT ![p] = gone]
  <2>1. n \in Grants \cup {None}
    BY <1>0, Of, KnownGrants
  <2>2. /\ gone \in App /\ gone.me = app[p].me /\ gone.stage = app[p].stage
        /\ gone.source = app[p].source /\ gone.login = app[p].login /\ ~gone.leaving
        /\ gone.snapshot = n /\ gone.cached = NoRecovery /\ gone.gained = NoRecovery
    BY <2>1, Of, NobodysClient DEF App
  <2> HIDE DEF gone
  <2>3. MemberOK(server, gone, NoClient) /\ StageOK(gone, client[Candidate(p)])
    BY <1>0, <2>2, Of DEF MemberOK, StageOK
  <2>4. Becomes(p, gone, NoClient, client[Candidate(p)])
    BY <1>2, Of, OneClient DEF Becomes
  <2>5. file' \in {file, None}
    BY <1>2 DEF ErasedIfMatches
  <2> QED BY <1>0, <2>2, <2>3, <2>4, <2>5, Of, NobodysClient, NoClientOK, Quietly
<1> QED BY <1>1, <1>2 DEF TakeTokens

----------------------------------------------------------------------------
\* The steps of the server, and of one client.

\* Two servers that only know less of what may still be used.
LEMMA ExpiresKeeps ==
  ASSUME IInv, NEW n \in Grants, Expires(n) PROVE IInv'
<1>1. ServerOK(server) /\ server \in Server
  BY DEF IInv, Shape, ServerOK
<1>2. ServerOK(server') /\ Later(server, server') /\ Known(server') = Known(server)
  BY <1>1 DEF Expires, ServerOK, Server, Later, Known
<1>3. ASSUME NEW p \in Terminals
      PROVE  TerminalOK(server', app[p], client[Main(p)], client[Candidate(p)])
  BY <1>1, <1>2, LaterTerminal DEF IInv, Shape
<1>4. UNCHANGED <<file, client, app>>
  BY DEF Expires
<1>5. Shape'
  BY <1>2, <1>3, <1>4 DEF IInv, Shape
<1>6. Held' = Held /\ Written' = Written /\ RotationIsKept'
  BY <1>4 DEF IInv, Held, Written, RotationIsKept
<1> QED BY <1>5, <1>6 DEF IInv

LEMMA RevokeKeeps ==
  ASSUME IInv, NEW p \in Terminals, Revoke(p) PROVE IInv'
<1> DEFINE b == [app[p] EXCEPT !.snapshot = None]
           k == client[Main(p)]
           c == client[Candidate(p)]
           g == Waiting(b, k, c)
<1>1. Becomes(p, b, k, c) /\ file' = file
  BY Of, OneClient DEF Revoke, Becomes
<1>2. PICK r \in SUBSET {server.refresh[app[p].snapshot]}, d \in SUBSET {app[p].snapshot} :
        server' = [server EXCEPT !.live = @ \ r, !.revoked = @ \cup (d \ server.expired)]
  BY DEF Revoke
<1>3. app[p].snapshot \in Grants
  BY Of, KnownGrants DEF Revoke, TerminalOK, Remembers
<1>4. ServerOK(server') /\ Later(server, server') /\ Known(server') = Known(server)
  BY <1>2, <1>3, Of DEF ServerOK, Server, Later, Known
<1>5. /\ b \in App /\ b.me = app[p].me /\ b.paused = app[p].paused /\ b.stage = app[p].stage
      /\ b.source = app[p].source /\ b.login = app[p].login /\ b.leaving = app[p].leaving
      /\ b.snapshot = None /\ b.cached = app[p].cached /\ b.gained = app[p].gained
  BY Of DEF App
<1> HIDE DEF b
<1>6. TerminalOK(server', app[p], k, c)
  BY <1>4, Of, LaterTerminal
<1>7. TerminalOK(server', b, k, c)
  BY <1>5, <1>6 DEF TerminalOK, Remembers, MemberOK, StageOK, CacheOK
<1>8. Steps(p, b, k, c)
  BY <1>1, <1>4, <1>7 DEF Steps
<1>9. \A w \in Places : g[w] \in {None, Held[p][w]}
  BY <1>5, Of, WaitingAt
<1>10. Seen(b) \subseteq Written \cup {None}
  BY <1>5, Of DEF Seen
<1>11. (b.gained # NoRecovery /\ file' = b.gained.source) => b.cached = b.gained
  BY <1>1, <1>5, Of
<1> HIDE DEF g
<1>12. g = Waiting(b, k, c)
  BY DEF g
<1> QED BY <1>1, <1>8, <1>9, <1>10, <1>11, <1>12, Usually

\* A new grant is known to nobody yet.
LEMMA Unheard ==
  ASSUME IInv, NEW n, n \notin Known(server), n # None, n \in Grants
  PROVE  n \notin Written /\ \A q \in Terminals, w \in Places : Held[q][w] # n
<1>1. n \notin {Corrupt, Foreign} /\ n # file
  BY KnownGrants DEF IInv, Shape, ServerOK
<1>2. ASSUME NEW q \in Terminals
      PROVE  n \notin Remembers(app[q]) /\ n \notin Seen(app[q])
             /\ \A w \in Places : Held[q][w] # n
  <2>1. Remembers(app[q]) \subseteq Known(server) \cup {None}
    BY Of DEF TerminalOK
  <2>2. n # Answer(client[Main(q)]) /\ n # Answer(client[Candidate(q)])
    BY Of DEF ClientOK, Answer
  <2>3. n # app[q].login /\ n # app[q].cached.current
    BY <2>1 DEF Remembers
  <2> QED BY <2>1, <2>2, <2>3, Of, WaitingAt DEF Remembers, Seen
<1> QED BY <1>1, <1>2 DEF Written, Seen

\* The server issues a grant to terminal p.
LEMMA Gains ==
  ASSUME IInv, NEW p \in Terminals, NEW b, NEW k, NEW c, Steps(p, b, k, c), file' = file,
         NEW n \in Grants, n \notin Known(server), n # None,
         NEW g, g = Waiting(b, k, c), NEW z \in Places, g[z] = n,
         \A w \in Places : w # z => g[w] = Held[p][w],
         b.source = app[p].source, b.cached = app[p].cached, b.gained = app[p].gained
  PROVE  IInv'
<1>0. Shape /\ Separate(Held, Written) /\ RotationIsKept
  BY DEF IInv
<1>1. file' \in Known(server') \cup {None, Corrupt, Foreign}
  BY <1>0 DEF Shape, Steps, Later
<1>2. /\ Shape' /\ Held = [q \in Terminals |-> Held[q]] /\ Held' = [Held EXCEPT ![p] = g]
      /\ app'[p] = b /\ \A q \in Terminals : q # p => app'[q] = app[q]
      /\ \A m \in Written' : m = file' \/ m \in Seen(b) \/ m \in Written
  BY <1>0, <1>1, Moves
<1>3. Written' \subseteq Written
  BY <1>2, Of DEF Seen
<1>4. Separate(Held', Written)
  BY <1>0, <1>2, Unheard, OneMore
<1>5. Separate(Held', Written')
  BY <1>3, <1>4 DEF Separate
<1>6. RotationIsKept'
  BY <1>0, <1>2, Of, OthersKeep
<1> QED BY <1>2, <1>5, <1>6 DEF IInv

LEMMA ExchangeKeeps ==
  ASSUME IInv, NEW p \in Terminals, NEW u \in Accounts, Exchange(p, u) PROVE IInv'
<1> DEFINE n == server.issued + 1
           b == [app[p] EXCEPT !.login = n]
           k == client[Main(p)]
           c == client[Candidate(p)]
           g == Waiting(b, k, c)
<1>1. PICK r \in {None, n} : server' = Minted(server, u, r)
  BY DEF Exchange
<1>2. /\ app' = [app EXCEPT ![p] = b] /\ file' = file /\ server.issued < MaxGrant
      /\ app[p].me = Nobody /\ app[p].stage = "none" /\ ~app[p].leaving
  BY DEF Exchange
<1>3. Becomes(p, b, k, c)
  BY <1>2, Of, OneClient DEF Becomes, Exchange
<1> HIDE DEF n
<1>5. n = server.issued + 1
  BY DEF n
<1>6. /\ ServerOK(server') /\ Later(server, server')
      /\ n \notin Known(server) /\ n \in Known(server') /\ n # None
  <2>1. r \in {None, n} \/ (r \in server.live /\ r \in Known(server))
    BY <1>1
  <2>2. u \in Accounts \cup {Nobody} /\ server.live \subseteq server.live
    OBVIOUS
  <2>3. ServerOK(server) /\ server \in Server
    BY Of
  <2> QED BY <1>1, <1>2, <1>5, <2>1, <2>2, <2>3, MintedServer
<1>7. n \in Grants
  BY <1>6, KnownGrants DEF ServerOK
<1>8. /\ b \in App /\ b.me = app[p].me /\ b.paused = app[p].paused /\ b.stage = app[p].stage
      /\ b.source = app[p].source /\ b.login = n /\ b.leaving = app[p].leaving
      /\ b.snapshot = app[p].snapshot /\ b.cached = app[p].cached /\ b.gained = app[p].gained
  BY <1>7, Of DEF App
<1> HIDE DEF b
<1>9. TerminalOK(server', app[p], k, c)
  BY <1>6, Of, LaterTerminal
<1>10. TerminalOK(server', b, k, c)
  BY <1>2, <1>6, <1>8, <1>9 DEF TerminalOK, Remembers, MemberOK, StageOK, CacheOK
<1>11. Steps(p, b, k, c)
  BY <1>3, <1>6, <1>10 DEF Steps
<1>12. /\ "login" \in Places /\ g["login"] = n
       /\ \A w \in Places : w # "login" => g[w] = Held[p][w]
  BY <1>8, Of, WaitingAt
<1> HIDE DEF g
<1>13. g = Waiting(b, k, c)
  BY DEF g
<1> QED BY <1>2, <1>6, <1>7, <1>8, <1>11, <1>12, <1>13, Gains

\* A client that asks with a grant, and is told of the next one.
LEMMA AskingClient ==
  ASSUME NEW s \in Server, NEW old \in Known(s), s.refresh[old] # None,
         NEW at \in Asking, NEW new \in Known(s) \cup {None},
         IF at = "answered"
           THEN new # None /\ s.owner[new] = s.owner[old] /\ Follows(s, old, new)
           ELSE new = None,
         at \in {"rejected", "forgetting"} => s.refresh[old] \notin s.live,
         NEW k, k = [grant |-> old, at |-> at, old |-> old, new |-> new]
  PROVE  ClientOK(s, k) /\ k.grant = old /\ k.at = at /\ k.new = new
<1>1. k \in Client /\ k.grant = old /\ k.at = at /\ k.old = old /\ k.new = new
  BY KnownGrants DEF Client, Phases, Asking
<1>2. {old, new} \subseteq Known(s) \cup {None} /\ old # None
  BY KnownGrants
<1> QED BY <1>1, <1>2 DEF ClientOK, Asking

\* A refresh that the server honours: rotated, or renewed.
LEMMA Refreshed ==
  ASSUME IInv, NEW m \in Known(server), server.refresh[m] # None,
         server.refresh[m] \in server.live, server.issued < MaxGrant,
         NEW n, n = server.issued + 1,
         server' = Rotated(server, m) \/ server' = Renewed(server, m)
  PROVE  /\ ServerOK(server') /\ Later(server, server')
         /\ n \notin Known(server) /\ n \in Known(server') /\ n # None /\ n \in Grants
         /\ server'.owner[n] = server'.owner[m] /\ server'.refresh[m] # None
         /\ Follows(server', m, n)
<1> DEFINE r == server.refresh[m]
<1>1. /\ ServerOK(server) /\ server \in Server /\ m \in Grants
      /\ server.owner[m] \in Accounts \cup {Nobody} /\ r \in Known(server)
  BY KnownGrants DEF IInv, Shape, ServerOK, Server
<1>2. CASE server' = Rotated(server, m)
  <2> DEFINE before == [server EXCEPT !.live = @ \ {r}]
             u == server.owner[m]
  <2>1. server' = Minted(before, u, n)
    BY <1>2 DEF Rotated
  <2>2. /\ before \in Server /\ before.issued = server.issued /\ before.owner = server.owner
        /\ before.refresh = server.refresh /\ before.live = server.live \ {r}
    BY <1>1 DEF Server
  <2>3. u = server.owner[m] /\ u \in Accounts \cup {Nobody} /\ r = server.refresh[m]
    BY <1>1
  <2> HIDE DEF before, u, r
  <2>4. before.live \subseteq server.live /\ r \notin before.live
    BY <2>2
  <2>5. /\ ServerOK(server') /\ Later(server, server')
        /\ n \notin Known(server) /\ n \in Known(server') /\ n # None
        /\ server'.owner[n] = u /\ server'.refresh[n] = n
        /\ server'.live = before.live \cup ({n} \ {None})
    <3>1. n \in {None, n} \/ (n \in server.live /\ n \in Known(server))
      OBVIOUS
    <3>2. /\ ServerOK(server) /\ u \in Accounts \cup {Nobody} /\ before \in Server
          /\ before.issued = server.issued /\ before.owner = server.owner
          /\ before.refresh = server.refresh /\ before.live \subseteq server.live
      BY <1>1, <2>2, <2>3, <2>4
    <3> QED BY <2>1, <3>1, <3>2, MintedServer
  <2>6. server'.owner[m] = u /\ server'.refresh[m] = r /\ r # None
    BY <2>3, <2>5 DEF Later
  <2>7. r \notin server'.live
    BY <1>1, <2>4, <2>5
  <2> QED BY <2>5, <2>6, <2>7, KnownGrants DEF Follows, ServerOK
<1>3. CASE server' = Renewed(server, m)
  <2> DEFINE u == server.owner[m]
  <2>2. server' = Minted(server, u, r)
    BY <1>3 DEF Renewed
  <2>3. u = server.owner[m] /\ u \in Accounts \cup {Nobody} /\ r \in server.live
    BY <1>1
  <2>4. r = server.refresh[m]
    OBVIOUS
  <2> HIDE DEF u, r
  <2>5. /\ ServerOK(server') /\ Later(server, server')
        /\ n \notin Known(server) /\ n \in Known(server') /\ n # None
        /\ server'.owner[n] = u /\ server'.refresh[n] = r
    BY <1>1, <2>2, <2>3, MintedServer
  <2>6. server'.owner[m] = u /\ server'.refresh[m] = r /\ r # None
    BY <2>3, <2>4, <2>5 DEF Later
  <2> QED BY <2>5, <2>6, KnownGrants DEF Follows, ServerOK
<1> QED BY <1>2, <1>3

\* A step of p's main client that ends what it asked for, or asks on.
LEMMA MainTurns ==
  ASSUME IInv, NEW p \in Terminals, NEW k, client' = [client EXCEPT ![Main(p)] = k],
         NEW b \in App, app' = [app EXCEPT ![p] = b], server' = server,
         b.me = app[p].me, b.paused = app[p].paused, b.stage = app[p].stage,
         b.source = app[p].source, b.login = app[p].login, b.leaving = app[p].leaving,
         b.snapshot = app[p].snapshot, b.cached = app[p].cached, b.gained = app[p].gained,
         ClientOK(server, k),
         \/ k.grant \in {None, client[Main(p)].grant}
         \/ /\ client[Main(p)].grant # None
            /\ server.owner[k.grant] = server.owner[client[Main(p)].grant],
         Answer(k) \in {None, Answer(client[Main(p)])},
         \/ file' \in {file, None}
         \/ file' = Answer(client[Main(p)]) /\ Answer(k) = None
  PROVE  IInv'
<1>1. Becomes(p, b, k, client[Candidate(p)])
  BY Of, OneClient DEF Becomes
<1>2. MemberOK(server, b, k)
  BY Of DEF MemberOK
<1>3. StageOK(b, client[Candidate(p)]) /\ b.snapshot \in Known(server) \cup {None}
  BY Of DEF StageOK, TerminalOK, Remembers
<1>4. \/ file' \in {file, None}
      \/ "main" \in Places /\ file' = Held[p]["main"]
         /\ Waiting(b, k, client[Candidate(p)])["main"] = None
  BY Of, WaitingAt
<1> QED BY <1>1, <1>2, <1>3, <1>4, Of, Quietly

\* A step of p's candidate, which only moves while the recovery verifies it.
LEMMA CandidateTurns ==
  ASSUME IInv, NEW p \in Terminals, app[p].stage = "verifying",
         NEW c, client' = [client EXCEPT ![Candidate(p)] = c], UNCHANGED <<file, server, app>>,
         ClientOK(server, c), c.grant \in {None, client[Candidate(p)].grant},
         Answer(c) \in {None, Answer(client[Candidate(p)])}
  PROVE  IInv'
<1>1. Becomes(p, app[p], client[Main(p)], c)
  BY Of, OneClient DEF Becomes
<1>2. StageOK(app[p], c) /\ app[p].snapshot \in Known(server) \cup {None}
  BY Of DEF StageOK, TerminalOK, Remembers
<1> QED BY <1>1, <1>2, Of, Quietly

LEMMA CandidateMoves ==
  ASSUME IInv, NEW p \in Terminals, client[Candidate(p)].at # "idle"
  PROVE  app[p].stage = "verifying"
BY Of, NobodysClient DEF StageOK

\* A client step, of the main client or of the candidate.
LEMMA ClientTurns ==
  ASSUME IInv, NEW i \in Clients, client[i].at # "idle",
         NEW k, client' = [client EXCEPT ![i] = k], UNCHANGED <<server, app>>,
         ClientOK(server, k), k.grant \in {None, client[i].grant},
         Answer(k) \in {None, Answer(client[i])},
         file' \in {file, None}, i = Candidate(i[1]) => file' = file
  PROVE  IInv'
<1> DEFINE p == i[1]
<1>1. p \in Terminals /\ (i = Main(p) \/ i = Candidate(p)) /\ app[p] \in App
  BY TwoClients, Of
<1>2. app' = [app EXCEPT ![p] = app[p]]
  BY <1>1, Of
<1> HIDE DEF p
<1>3. CASE i = Main(p)
  BY <1>1, <1>2, <1>3, MainTurns
<1>4. CASE i = Candidate(p)
  <2>1. file' = file /\ app[p].stage = "verifying"
    BY <1>1, <1>4, CandidateMoves DEF p
  <2> QED BY <1>1, <1>4, <2>1, CandidateTurns
<1> QED BY <1>1, <1>3, <1>4

LEMMA TheClient ==
  ASSUME IInv, NEW i \in Clients
  PROVE  /\ i[1] \in Terminals /\ ClientOK(server, client[i]) /\ client[i] \in Client
         /\ server \in Server /\ ServerOK(server)
BY TwoClients, Of

LEMMA EnterKeeps ==
  ASSUME IInv, NEW i \in Clients, Enter(i) PROVE IInv'
<1> DEFINE p == i[1]
           n == client[i].grant
           asks == [grant |-> n, at |-> "refreshing", old |-> n, new |-> None]
           queued == [app[p] EXCEPT !.queued = FALSE]
<1>0. /\ Calls(i) /\ client[i].at = "idle" /\ server' = server
      /\ app' = app \/ (i = Main(p) /\ app' = [app EXCEPT ![p] = queued])
  BY DEF Enter
<1>1. n \in Known(server) /\ n # None
  BY TheClient, KnownGrants DEF Enter, Expired, ClientOK, Server
<1>2. \/ server.refresh[n] # None /\ client' = [client EXCEPT ![i] = asks] /\ file' = file
      \/ /\ client' = [client EXCEPT ![i] = NoClient]
         /\ file' = IF i = Main(p) THEN ErasedIfMatches(n) ELSE file
  BY DEF Enter
<1>3. PICK k : /\ client' = [client EXCEPT ![i] = k] /\ ClientOK(server, k)
               /\ k.grant \in {None, n} /\ Answer(k) = None /\ file' \in {file, None}
               /\ i = Candidate(p) => file' = file
  <2>1. CASE server.refresh[n] # None /\ client' = [client EXCEPT ![i] = asks] /\ file' = file
    <3> DEFINE at == "refreshing"
    <3>1. at \in Asking /\ at = "refreshing"
      BY DEF Asking
    <3>2. asks = [grant |-> n, at |-> at, old |-> n, new |-> None]
      OBVIOUS
    <3> HIDE DEF at, asks
    <3>3. ClientOK(server, asks) /\ asks.grant = n /\ asks.at = at
      BY <1>1, <2>1, <3>1, <3>2, TheClient, AskingClient
    <3>4. Answer(asks) = None
      BY <3>1, <3>3 DEF Answer
    <3> QED BY <2>1, <3>3, <3>4
  <2>2. CASE /\ client' = [client EXCEPT ![i] = NoClient]
             /\ file' = IF i = Main(p) THEN ErasedIfMatches(n) ELSE file
    <3>1. file' \in {file, None} /\ (i = Candidate(p) => file' = file)
      BY <2>2, TwoClients DEF ErasedIfMatches
    <3> QED BY <2>2, <3>1, NoClientOK, NobodysClient
  <2> QED BY <1>2, <2>1, <2>2
<1>4. p \in Terminals /\ (i = Main(p) \/ i = Candidate(p)) /\ app[p] \in App
  BY TwoClients, Of
<1>5. app = [app EXCEPT ![p] = app[p]]
  BY <1>4, Of
<1>6. /\ queued \in App /\ queued.me = app[p].me /\ queued.paused = app[p].paused
      /\ queued.stage = app[p].stage /\ queued.source = app[p].source
      /\ queued.login = app[p].login /\ queued.leaving = app[p].leaving
      /\ queued.snapshot = app[p].snapshot /\ queued.cached = app[p].cached
      /\ queued.gained = app[p].gained
  BY <1>4 DEF App
<1> HIDE DEF p, asks, queued
<1>7. CASE i = Main(p)
  <2>1. CASE app' = app
    <3>1. app' = [app EXCEPT ![p] = app[p]]
      BY <1>5, <2>1
    <3> QED BY <1>0, <1>3, <1>4, <1>7, <3>1, MainTurns
  <2>2. CASE app' = [app EXCEPT ![p] = queued]
    BY <1>0, <1>3, <1>4, <1>6, <1>7, <2>2, MainTurns
  <2> QED BY <1>0, <2>1, <2>2
<1>8. CASE i = Candidate(p)
  <2>1. i # Main(p) /\ p = i[1]
    BY <1>8, TwoClients DEF p
  <2>2. app' = app /\ app[p].stage = "verifying" /\ file' = file
    BY <1>0, <1>3, <1>8, <2>1 DEF Calls
  <2> QED BY <1>0, <1>3, <1>4, <1>8, <2>2, CandidateTurns
<1> QED BY <1>4, <1>7, <1>8

LEMMA ServerRejectsKeeps ==
  ASSUME IInv, NEW i \in Clients, ServerRejects(i) PROVE IInv'
<1> DEFINE k == [client[i] EXCEPT !.at = "rejected"]
<1>1. /\ client[i].at = "refreshing" /\ server.refresh[client[i].old] \notin server.live
      /\ client' = [client EXCEPT ![i] = k] /\ UNCHANGED <<file, server, app>>
  BY DEF ServerRejects
<1>2. /\ k \in Client /\ k.at = "rejected" /\ k.grant = client[i].grant
      /\ k.old = client[i].old /\ k.new = client[i].new
  BY TheClient DEF Client, Phases
<1> HIDE DEF k
<1>3. ClientOK(server, k) /\ Answer(k) = None
  BY <1>1, <1>2, TheClient DEF ClientOK, Asking, Answer
<1> QED BY <1>1, <1>2, <1>3, ClientTurns

LEMMA LoseRefreshKeeps ==
  ASSUME IInv, NEW i \in Clients, LoseRefresh(i) PROVE IInv'
<1>1. CASE i = Main(i[1])
  <2>1. client' = [client EXCEPT ![i] = Aborted(client[i])] /\ UNCHANGED <<file, server, app>>
        /\ client[i].at # "idle"
    BY <1>1 DEF LoseRefresh
  <2> QED BY <2>1, TheClient, AbortedClient, ClientTurns
<1>2. CASE i # Main(i[1])
  BY <1>2, TheClient, StaysPausedKeeps DEF LoseRefresh
<1> QED BY <1>1, <1>2

LEMMA CheckSiblingKeeps ==
  ASSUME IInv, NEW i \in Clients, CheckSibling(i) PROVE IInv'
<1> DEFINE k == [client[i] EXCEPT !.at = "forgetting"]
<1>1. /\ client[i].at = "rejected" /\ UNCHANGED <<file, server, app>>
      /\ \/ client' = [client EXCEPT ![i] = NoClient]
         \/ client' = [client EXCEPT ![i] = k]
  BY DEF CheckSibling
<1>2. /\ k \in Client /\ k.at = "forgetting" /\ k.grant = client[i].grant
      /\ k.old = client[i].old /\ k.new = client[i].new
  BY TheClient DEF Client, Phases
<1> HIDE DEF k
<1>3. ClientOK(server, k) /\ Answer(k) = None
  BY <1>1, <1>2, TheClient DEF ClientOK, Asking, Answer
<1>4. CASE client' = [client EXCEPT ![i] = NoClient]
  BY <1>1, <1>4, NoClientOK, NobodysClient, ClientTurns
<1>5. CASE client' = [client EXCEPT ![i] = k]
  BY <1>1, <1>2, <1>3, <1>5, ClientTurns
<1> QED BY <1>1, <1>4, <1>5

LEMMA ForgetRejectedKeeps ==
  ASSUME IInv, NEW i \in Clients, ForgetRejected(i) PROVE IInv'
<1>1. /\ client[i].at # "idle" /\ client' = [client EXCEPT ![i] = NoClient]
      /\ UNCHANGED <<server, app>> /\ file' \in {file, None}
  BY DEF ForgetRejected, ErasedIfRefreshToken
<1>2. i = Candidate(i[1]) => file' = file
  BY TwoClients DEF ForgetRejected
<1> QED BY <1>1, <1>2, NoClientOK, NobodysClient, ClientTurns

\* The answer to a refresh: its new grant waits in the client.
LEMMA ServerRefreshesKeeps ==
  ASSUME IInv, NEW i \in Clients, ServerRefreshes(i) PROVE IInv'
<1> DEFINE p == i[1]
           m == client[i].old
           n == server.issued + 1
           at == "answered"
           k == [grant |-> client[i].grant, at |-> at, old |-> m, new |-> n]
<1>1. /\ client[i].at = "refreshing" /\ server.refresh[m] \in server.live
      /\ server.issued < MaxGrant /\ (server' = Rotated(server, m) \/ server' = Renewed(server, m))
      /\ client' = [client EXCEPT ![i] = k] /\ UNCHANGED <<file, app>>
  BY DEF ServerRefreshes
<1>2. /\ m \in Known(server) /\ m # None /\ server.refresh[m] # None /\ client[i].grant = m
      /\ client[i].new = None
  BY <1>1, TheClient DEF ClientOK, Asking
<1>3. p \in Terminals /\ (i = Main(p) \/ i = Candidate(p)) /\ app[p] \in App
  BY TwoClients, Of
<1>4. n = server.issued + 1 /\ at = "answered" /\ at \in Asking
  BY DEF Asking
<1>5. k = [grant |-> m, at |-> at, old |-> m, new |-> n]
  BY <1>2
<1> HIDE DEF p, m, n, at, k
<1>6. /\ ServerOK(server') /\ Later(server, server')
      /\ n \notin Known(server) /\ n \in Known(server') /\ n # None /\ n \in Grants
      /\ server'.owner[n] = server'.owner[m] /\ server'.refresh[m] # None
      /\ Follows(server', m, n)
  BY <1>1, <1>2, <1>4, Refreshed
<1>7. ClientOK(server', k) /\ k.grant = m /\ k.at = at /\ k.new = n
  <2>1. server' \in Server /\ m \in Known(server')
    BY <1>2, <1>6 DEF ServerOK, Later
  <2> QED BY <1>4, <1>5, <1>6, <2>1, AskingClient
<1>8. Answer(k) = n
  BY <1>4, <1>7 DEF Answer
<1>9. TerminalOK(server', app[p], client[Main(p)], client[Candidate(p)])
  BY <1>3, <1>6, Of, LaterTerminal
<1>10. app' = [app EXCEPT ![p] = app[p]]
  BY <1>1, <1>3, Of
<1>11. CASE i = Main(p)
  <2> DEFINE c == client[Candidate(p)]
             g == Waiting(app[p], k, c)
  <2>1. Becomes(p, app[p], k, c)
    BY <1>1, <1>3, <1>10, <1>11, Of, OneClient DEF Becomes
  <2>2. TerminalOK(server', app[p], k, c)
    BY <1>2, <1>7, <1>9, <1>11 DEF TerminalOK, MemberOK
  <2>3. Steps(p, app[p], k, c)
    BY <1>6, <2>1, <2>2 DEF Steps
  <2>4. /\ "main" \in Places /\ g["main"] = n
        /\ \A w \in Places : w # "main" => g[w] = Held[p][w]
    BY <1>3, <1>8, Of, WaitingAt
  <2> HIDE DEF g
  <2>5. g = Waiting(app[p], k, c)
    BY DEF g
  <2> QED BY <1>1, <1>3, <1>6, <2>3, <2>4, <2>5, Gains
<1>12. CASE i = Candidate(p)
  <2> DEFINE c == client[Main(p)]
             g == Waiting(app[p], c, k)
  <2>1. Becomes(p, app[p], c, k)
    BY <1>1, <1>3, <1>10, <1>12, Of, OneClient DEF Becomes
  <2>2. app[p].stage = "verifying"
    BY <1>1, <1>3, <1>12, CandidateMoves
  <2>3. TerminalOK(server', app[p], c, k)
    BY <1>2, <1>7, <1>9, <1>12, <2>2 DEF TerminalOK, StageOK
  <2>4. Steps(p, app[p], c, k)
    BY <1>6, <2>1, <2>3 DEF Steps
  <2>5. /\ "candidate" \in Places /\ g["candidate"] = n
        /\ \A w \in Places : w # "candidate" => g[w] = Held[p][w]
    BY <1>3, <1>8, Of, WaitingAt
  <2> HIDE DEF g
  <2>6. g = Waiting(app[p], c, k)
    BY DEF g
  <2> QED BY <1>1, <1>3, <1>6, <2>4, <2>5, <2>6, Gains
<1> QED BY <1>3, <1>11, <1>12

\* Renewals of a grant follow it, one by one.
LEMMA FollowsOn ==
  ASSUME NEW s, NEW l, NEW m, NEW n, Follows(s, l, m), Follows(s, m, n), s.refresh[m] # None
  PROVE  Follows(s, l, n)
BY DEF Follows

\* p's new grant leaves the candidate for the cache.
LEMMA Caches ==
  ASSUME IInv, NEW p \in Terminals, client[Candidate(p)].at = "answered",
         client[Candidate(p)].new # None,
         NEW b, NEW k, Steps(p, b, client[Main(p)], k), file' = file, Answer(k) = None,
         NEW kept, kept.source = app[p].source, kept.current = client[Candidate(p)].new,
         b.source = app[p].source, b.login = app[p].login, b.cached = kept, b.gained = kept
  PROVE  IInv'
<1> DEFINE a == app[p]
           c == client[Candidate(p)]
           g == Waiting(b, client[Main(p)], k)
<1>1. Shape /\ Separate(Held, Written) /\ RotationIsKept
  BY DEF IInv
<1>2. file' \in Known(server') \cup {None, Corrupt, Foreign}
  BY Of DEF Steps, Later
<1>3. /\ Shape' /\ Held = [q \in Terminals |-> Held[q]] /\ Held' = [Held EXCEPT ![p] = g]
      /\ app'[p] = b /\ \A q \in Terminals : q # p => app'[q] = app[q]
      /\ \A m \in Written' : m = file' \/ m \in Seen(b) \/ m \in Written
  BY <1>1, <1>2, Moves
<1>4. Held[p]["candidate"] = c.new /\ c.new # a.source
  <2>1. Held[p]["candidate"] = c.new /\ "candidate" \in Places
    BY Of, WaitingAt DEF Answer
  <2> QED BY <1>1, <2>1, Of DEF Separate, Seen
<1>5. /\ g["login"] = Held[p]["login"] /\ g["main"] = Held[p]["main"]
      /\ g["candidate"] = None /\ g["cached"] = Held[p]["candidate"]
  BY <1>4, Of, WaitingAt
<1>6. Separate(Held', Written)
  <2> DEFINE y == "candidate"
             z == "cached"
  <2>1. /\ y \in Places /\ z \in Places /\ y # z /\ g[z] = Held[p][y] /\ g[y] = None
        /\ \A w \in Places : w \notin {y, z} => g[w] = Held[p][w]
    BY <1>5 DEF Places
  <2> HIDE DEF y, z, g
  <2> QED BY <1>1, <1>3, <2>1, Elsewhere
<1>7. Written' \subseteq Written
  <2>1. app[p].source \in Written /\ file' \in Written
    BY Of DEF Seen
  <2>2. Seen(b) = {app[p].source}
    BY DEF Seen
  <2> QED BY <1>3, <2>1, <2>2
<1>8. Separate(Held', Written')
  BY <1>6, <1>7 DEF Separate
<1>9. RotationIsKept'
  BY <1>1, <1>3, OthersKeep
<1> QED BY <1>3, <1>8, <1>9 DEF IInv

\* A candidate's new grant goes to the cache, in place of the one it was for.
LEMMA KeepsPrivately ==
  ASSUME IInv, NEW p \in Terminals, client[Candidate(p)].at = "answered",
         NEW k, k = [grant |-> client[Candidate(p)].new, at |-> "idle", old |-> None, new |-> None],
         NEW b, b = [app[p] EXCEPT
                       !.cached = KeptPrivately(app[p], client[Candidate(p)]),
                       !.gained = [source |-> app[p].source, current |-> client[Candidate(p)].new]],
         client' = [client EXCEPT ![Candidate(p)] = k], app' = [app EXCEPT ![p] = b],
         UNCHANGED <<file, server>>
  PROVE  IInv'
<1> DEFINE a == app[p]
           c == client[Candidate(p)]
           kept == [source |-> a.source, current |-> c.new]
<1>0. /\ a.stage = "verifying" /\ a.source # None /\ a.source \in Known(server) \cup {None}
      /\ c.grant # None /\ c.new \in Known(server) /\ c.new # None
      /\ c.old = c.grant /\ server.refresh[c.old] # None /\ Follows(server, c.old, c.new)
      /\ a.cached = [source |-> a.source, current |-> c.old]
  <2>1. a.stage = "verifying"
    BY CandidateMoves
  <2>2. /\ c.old = c.grant /\ c.old # None /\ server.refresh[c.old] # None
        /\ c.new \in Known(server) \cup {None} /\ c.new # None /\ Follows(server, c.old, c.new)
    BY Of DEF ClientOK, Asking
  <2>3. a.source # None /\ a.cached = [source |-> a.source, current |-> c.grant]
    BY <2>1, <2>2, Of DEF StageOK
  <2>4. a.source \in Known(server) \cup {None}
    BY Of DEF TerminalOK, Remembers
  <2> QED BY <2>1, <2>2, <2>3, <2>4
<1>1. KeptPrivately(a, c) = kept /\ kept \in Recovery
      /\ kept.source = a.source /\ kept.current = c.new /\ kept # NoRecovery
  BY <1>0, Of, KnownGrants, NobodysClient DEF KeptPrivately, Recovery
<1>2. b = [a EXCEPT !.cached = kept, !.gained = kept]
  BY <1>1
<1>3. ClientOK(server, k) /\ k.grant = c.new /\ Answer(k) = None /\ k.at = "idle"
  BY <1>0, Of, IdleClient
<1> HIDE DEF kept
<1>4. /\ b \in App /\ b.me = a.me /\ b.paused = a.paused /\ b.stage = a.stage
      /\ b.source = a.source /\ b.login = a.login /\ b.leaving = a.leaving
      /\ b.snapshot = a.snapshot /\ b.cached = kept /\ b.gained = kept
  BY <1>1, <1>2, Of DEF App
<1>5. MemberOK(server, b, client[Main(p)])
  BY <1>4, Of DEF MemberOK
<1>6. StageOK(b, k)
  BY <1>0, <1>1, <1>3, <1>4, Of DEF StageOK, kept
<1>7. CacheOK(server, b)
  <2>1. a.cached # NoRecovery /\ a.cached.source = a.source /\ a.cached.current = c.old
    BY <1>0, NobodysClient
  <2>2. Follows(server, a.source, c.old)
    BY <2>1, Of DEF CacheOK
  <2>3. Follows(server, a.source, c.new)
    BY <1>0, <2>2, FollowsOn
  <2> QED BY <1>0, <1>1, <1>4, <2>3 DEF CacheOK
<1>8. Remembers(b) \subseteq Known(server) \cup {None}
  <2>1. Remembers(a) \subseteq Known(server) \cup {None}
    BY Of DEF TerminalOK
  <2> QED BY <1>0, <1>1, <1>4, <2>1 DEF Remembers
<1>9. Becomes(p, b, client[Main(p)], k)
  BY Of, OneClient DEF Becomes
<1>10. Steps(p, b, client[Main(p)], k) /\ file' = file
  <2>1. server' = server /\ file' = file
    OBVIOUS
  <2> QED BY <1>3, <1>4, <1>5, <1>6, <1>7, <1>8, <1>9, <2>1, Of DEF Steps, TerminalOK
<1>11. c.at = "answered" /\ b.source = a.source /\ b.login = a.login
  BY <1>4
<1> QED BY <1>0, <1>1, <1>3, <1>4, <1>10, <1>11, Caches

\* The main client saves its new grant over the old one.
LEMMA KeepRefreshedKeeps ==
  ASSUME IInv, NEW i \in Clients, KeepRefreshed(i) PROVE IInv'
<1> DEFINE p == i[1]
           n == client[i].new
           k == [grant |-> n, at |-> "idle", old |-> None, new |-> None]
<1>1. client[i].at = "answered" /\ client' = [client EXCEPT ![i] = k] /\ server' = server
  BY DEF KeepRefreshed
<1>2. /\ n \in Known(server) \cup {None} /\ client[i].old = client[i].grant
      /\ client[i].grant # None /\ server.owner[n] = server.owner[client[i].old]
  BY <1>1, TheClient DEF ClientOK, Asking
<1>3. p \in Terminals /\ (i = Main(p) \/ i = Candidate(p)) /\ app[p] \in App
  BY TwoClients, Of
<1>4. CASE i = Main(p)
  <2>1. ClientOK(server, k) /\ k.grant = n /\ Answer(k) = None
    BY <1>2, TheClient, IdleClient
  <2>2. file' \in {file, n} /\ app' = app /\ Answer(client[i]) = n
    BY <1>1, <1>4 DEF KeepRefreshed, ReplacedIfMatches, Answer
  <2>3. app' = [app EXCEPT ![p] = app[p]]
    BY <1>3, <2>2, Of
  <2> HIDE DEF p, k, n
  <2> QED BY <1>1, <1>2, <1>3, <1>4, <2>1, <2>2, <2>3, MainTurns
<1>5. CASE i = Candidate(p)
  <2>1. i # Main(p)
    BY <1>5, TwoClients
  <2> DEFINE b == [app[p] EXCEPT
                     !.cached = KeptPrivately(app[p], client[i]),
                     !.gained = [source |-> app[p].source, current |-> n]]
  <2>2. app' = [app EXCEPT ![p] = b] /\ UNCHANGED <<file, server>>
    BY <1>1, <2>1 DEF KeepRefreshed
  <2> HIDE DEF p
  <2> QED BY <1>1, <1>3, <1>5, <2>2, KeepsPrivately
<1> QED BY <1>3, <1>4, <1>5

----------------------------------------------------------------------------
\* The start.
LEMMA Starts == Init => IInv
<1> SUFFICES ASSUME Init PROVE IInv
  OBVIOUS
<1>1. ServerOK(NothingIssued) /\ NothingIssued \in Server /\ NothingIssued.issued = 0
  BY GrantAssumption DEF NothingIssued, ServerOK, Server, Known
<1>2. ServerOK(server) /\ file \in Known(server) \cup {None, Corrupt, Foreign}
  <2>1. CASE file \in {None, Corrupt, Foreign} /\ server = NothingIssued
    BY <1>1, <2>1
  <2>2. ASSUME file = 1, NEW u \in Accounts, NEW r \in {None, 1},
               server = Minted(NothingIssued, u, r)
        PROVE  ServerOK(server) /\ file \in Known(server)
    <3> DEFINE n == 1
               before == NothingIssued
    <3>1. /\ ServerOK(before) /\ before \in Server /\ n = before.issued + 1
          /\ before.issued < MaxGrant /\ u \in Accounts \cup {Nobody}
          /\ before.live \subseteq before.live
      BY <1>1, GrantAssumption
    <3>2. r \in {None, n} \/ (r \in before.live /\ r \in Known(before))
      OBVIOUS
    <3>3. server = Minted(before, u, r) /\ file = n
      BY <2>2
    <3> HIDE DEF n, before
    <3> QED BY <3>1, <3>2, <3>3, MintedServer
  <2> QED BY <2>1, <2>2 DEF Init
<1>3. client = [c \in Clients |-> NoClient] /\ app = [p \in Terminals |-> Off]
  BY DEF Init
<1>4. NoClient \in Client /\ ClientOK(server, NoClient)
  BY NoClientOK DEF ClientOK
<1>5. /\ Off \in App /\ Off.me = Nobody /\ Off.stage = "none" /\ Off.source = None
      /\ Off.login = None /\ ~Off.leaving /\ Off.snapshot = None
      /\ Off.cached = NoRecovery /\ Off.gained = NoRecovery
  BY NobodysClient DEF Off, App, Stages
<1>6. TerminalOK(server, Off, NoClient, NoClient)
  BY <1>4, <1>5, NobodysClient DEF TerminalOK, Remembers, MemberOK, StageOK, CacheOK
<1>7. Shape
  BY <1>2, <1>3, <1>4, <1>5, <1>6, TwoClients DEF Shape
<1>8. \A p \in Terminals, w \in Places : Held[p][w] = None
  <2>1. \A p \in Terminals : Held[p] = Waiting(Off, NoClient, NoClient)
    BY <1>3, TwoClients DEF Held
  <2>2. \A w \in Places : Waiting(Off, NoClient, NoClient)[w] = None
    BY <1>5, NobodysClient, WaitingAt
  <2> QED BY <2>1, <2>2
<1>9. Separate(Held, Written)
  BY <1>8 DEF Separate
<1>10. RotationIsKept
  BY <1>3, <1>5 DEF RotationIsKept
<1> QED BY <1>7, <1>9, <1>10 DEF IInv

----------------------------------------------------------------------------
\* Every step of the system keeps the invariant.
LEMMA Keeps == IInv /\ [Next]_vars => IInv'
<1> SUFFICES ASSUME IInv, [Next]_vars PROVE IInv'
  OBVIOUS
<1>1. ASSUME NEW p \in Terminals, Start(p) PROVE IInv'
  BY <1>1, StartKeeps
<1>2. ASSUME NEW p \in Terminals, Quarantine(p) PROVE IInv'
  BY <1>2, QuarantineKeeps
<1>3. ASSUME NEW p \in Terminals, Exit(p) PROVE IInv'
  BY <1>3, ExitKeeps
<1>4. ASSUME NEW p \in Terminals, Recheck(p) PROVE IInv'
  BY <1>4, RecheckKeeps
<1>5. ASSUME NEW p \in Terminals, PrepareCandidate(p) PROVE IInv'
  BY <1>5, PrepareCandidateKeeps
<1>6. ASSUME NEW p \in Terminals, VerifyRecovery(p) PROVE IInv'
  BY <1>6, VerifyRecoveryKeeps
<1>7. ASSUME NEW p \in Terminals, RecoveryVerified(p) PROVE IInv'
  BY <1>7, RecoveryVerifiedKeeps
<1>8. ASSUME NEW p \in Terminals, RecoveryTimesOut(p) PROVE IInv'
  BY <1>8, RecoveryTimesOutKeeps
<1>9. ASSUME NEW p \in Terminals, Restore(p) PROVE IInv'
  BY <1>9, RestoreKeeps
<1>10. ASSUME NEW p \in Terminals, SessionExpires(p) PROVE IInv'
  BY <1>10, SessionExpiresKeeps
<1>11. ASSUME NEW p \in Terminals, NEW u \in Accounts, Exchange(p, u) PROVE IInv'
  BY <1>11, ExchangeKeeps
<1>12. ASSUME NEW p \in Terminals, SetTokens(p) PROVE IInv'
  BY <1>12, SetTokensKeeps
<1>13. ASSUME NEW p \in Terminals, LoginFails(p) PROVE IInv'
  BY <1>13, LoginFailsKeeps
<1>14. ASSUME NEW p \in Terminals, Logout(p) PROVE IInv'
  BY <1>14, LogoutKeeps
<1>15. ASSUME NEW p \in Terminals, TakeTokens(p) PROVE IInv'
  BY <1>15, TakeTokensKeeps
<1>16. ASSUME NEW p \in Terminals, Revoke(p) PROVE IInv'
  BY <1>16, RevokeKeeps
<1>17. ASSUME NEW i \in Clients, Enter(i) PROVE IInv'
  BY <1>17, EnterKeeps
<1>18. ASSUME NEW i \in Clients, ServerRefreshes(i) PROVE IInv'
  BY <1>18, ServerRefreshesKeeps
<1>19. ASSUME NEW i \in Clients, ServerRejects(i) PROVE IInv'
  BY <1>19, ServerRejectsKeeps
<1>20. ASSUME NEW i \in Clients, LoseRefresh(i) PROVE IInv'
  BY <1>20, LoseRefreshKeeps
<1>21. ASSUME NEW i \in Clients, KeepRefreshed(i) PROVE IInv'
  BY <1>21, KeepRefreshedKeeps
<1>22. ASSUME NEW i \in Clients, CheckSibling(i) PROVE IInv'
  BY <1>22, CheckSiblingKeeps
<1>23. ASSUME NEW i \in Clients, ForgetRejected(i) PROVE IInv'
  BY <1>23, ForgetRejectedKeeps
<1>24. ASSUME NEW n \in Grants, Expires(n) PROVE IInv'
  BY <1>24, ExpiresKeeps
<1>25. CASE UNCHANGED vars
  BY <1>25 DEF vars, IInv, Shape, Held, Written, RotationIsKept
<1> QED BY <1>1, <1>2, <1>3, <1>4, <1>5, <1>6, <1>7, <1>8, <1>9, <1>10, <1>11, <1>12, <1>13,
           <1>14, <1>15, <1>16, <1>17, <1>18, <1>19, <1>20, <1>21, <1>22, <1>23, <1>24, <1>25
           DEF Next

\* The inductive invariant holds in every state the terminals can be in.
THEOREM Invariance == Spec => []IInv
BY Starts, Keeps, PTL DEF Spec

\* Every variable has its type; an idle client waits for no grant, and only a recovery
\* that verifies one has a candidate.
THEOREM TypeCorrect == Spec => []TypeOK
<1>1. IInv => TypeOK
  <2> SUFFICES ASSUME IInv PROVE TypeOK
    OBVIOUS
  <2>1. /\ file \in Grants \cup {None, Corrupt, Foreign} /\ server \in Server
        /\ client \in [Clients -> Client] /\ app \in [Terminals -> App]
    BY KnownGrants DEF IInv, Shape, ServerOK
  <2>2. ASSUME NEW i \in Clients, client[i].at \in {"idle", "corrupt", "foreign"}
        PROVE  client[i].old = None /\ client[i].new = None
    BY <2>2, TheClient DEF ClientOK, Asking
  <2>3. ASSUME NEW p \in Terminals, app[p].stage \notin {"verifying", "verified"}
        PROVE  client[Candidate(p)] = NoClient
    BY <2>3, Of DEF StageOK
  <2> QED BY <2>1, <2>2, <2>3 DEF TypeOK
<1> QED BY <1>1, Invariance, PTL

\* Issue 573: whatever siblings, recoveries, sign-outs and sign-ins do to the shared
\* file, requests of a terminal that may go out carry a grant of the member it shows.
THEOREM AlwaysAsMe == Spec => []ActsAsMe
<1>1. IInv => ActsAsMe
  BY Of DEF MemberOK, ActsAsMe
<1> QED BY <1>1, Invariance, PTL

\* RecoveryTokens: the grant that a candidate got for the file is what the next
\* recovery from that file starts with, however often verifying it failed.
THEOREM RotationsAreKept == Spec => []RotationIsKept
<1>1. IInv => RotationIsKept
  BY DEF IInv
<1> QED BY <1>1, Invariance, PTL

----------------------------------------------------------------------------
\* Why a grant on disk that still opens an account may go.
SignedInOver == \E p \in Terminals : app[p].login # None /\ file' = app[p].login
SignedOut == \E p \in Terminals : app[p].leaving /\ client[Main(p)].grant = file
RenewedInPlace == file' \in Grants /\ server.refresh[file'] = server.refresh[file]

\* A live grant with a refresh token can still be refreshed.
LEMMA LiveGrant ==
  ASSUME Live(file)
  PROVE  /\ file \in Grants
         /\ server.refresh[file] # None => server.refresh[file] \in server.live
BY DEF Live

\* What replaces it follows it, so it is renewed with the same refresh token.
LEMMA Followed ==
  ASSUME Live(file), file' \in Grants, file' # file, Follows(server, file, file')
  PROVE  RenewedInPlace
BY LiveGrant DEF Follows, RenewedInPlace

LEMMA ClientsSpare ==
  ASSUME IInv, NEW i \in Clients, Live(file), file' # file,
         \/ Enter(i) \/ ServerRefreshes(i) \/ ServerRejects(i) \/ LoseRefresh(i)
         \/ KeepRefreshed(i) \/ CheckSibling(i) \/ ForgetRejected(i)
  PROVE  RenewedInPlace
<1> DEFINE k == client[i]
<1>1. CASE Enter(i)
  <2>1. file = k.grant /\ server.refresh[file] = None /\ file \in server.expired
    BY <1>1 DEF Enter, ErasedIfMatches, Expired
  <2> QED BY <2>1 DEF Live
<1>2. CASE KeepRefreshed(i)
  <2>1. file = k.old /\ file' = k.new /\ k.at = "answered"
    BY <1>2 DEF KeepRefreshed, ReplacedIfMatches
  <2>2. k.new \in Known(server) /\ Follows(server, k.old, k.new)
    BY <2>1, TheClient DEF ClientOK
  <2>3. file' \in Grants
    BY <2>1, <2>2, TheClient, KnownGrants
  <2> QED BY <2>1, <2>2, <2>3, Followed
<1>3. CASE ForgetRejected(i)
  <2>1. server.refresh[file] = server.refresh[k.old] /\ k.at = "forgetting"
    BY <1>3 DEF ForgetRejected, ErasedIfRefreshToken
  <2>2. server.refresh[k.old] # None /\ server.refresh[k.old] \notin server.live
    BY <2>1, TheClient DEF ClientOK, Asking
  <2> QED BY <2>1, <2>2, LiveGrant
<1>4. CASE ServerRefreshes(i) \/ ServerRejects(i) \/ LoseRefresh(i) \/ CheckSibling(i)
  BY <1>4 DEF ServerRefreshes, ServerRejects, LoseRefresh, CheckSibling
<1> QED BY <1>1, <1>2, <1>3, <1>4

LEMMA VerifiedSpares ==
  ASSUME IInv, NEW p \in Terminals, RecoveryVerified(p), Live(file), file' # file
  PROVE  RenewedInPlace
<1> DEFINE n == client[Candidate(p)].grant
<1>1. file = app[p].source /\ file' = n /\ app[p].stage = "verified"
  BY DEF RecoveryVerified, ReplacedIfMatches
<1>2. n \in Known(server) /\ app[p].cached = [source |-> file, current |-> n] /\ file # None
  BY <1>1, Of DEF StageOK, ClientOK
<1>3. Follows(server, file, n)
  <2>1. app[p].cached.source = file /\ app[p].cached.current = n
    BY <1>2
  <2> QED BY <1>2, <2>1, Of, NobodysClient DEF CacheOK
<1>4. file' \in Grants
  BY <1>1, <1>2, Of, KnownGrants
<1> QED BY <1>1, <1>3, <1>4, Followed

\* Whoever else writes or erases the file, a live grant goes only with a sign-in over
\* it, a sign-out of it, or a renewal of it.
THEOREM LiveGrantsStay == Spec => LiveGrantStays
<1> DEFINE Spared == (file' # file /\ Live(file)) =>
                       \/ SignedInOver
                       \/ SignedOut
                       \/ RenewedInPlace
<1>1. IInv /\ [Next]_vars => [Spared]_vars
  <2> SUFFICES ASSUME IInv, Next, file' # file, Live(file)
               PROVE  SignedInOver \/ SignedOut \/ RenewedInPlace
    OBVIOUS
  <2>1. ASSUME NEW p \in Terminals, Quarantine(p) PROVE FALSE
    BY <2>1, LiveGrant, Of, KnownGrants DEF Quarantine, SetAside
  <2>2. ASSUME NEW p \in Terminals, RecoveryVerified(p) PROVE RenewedInPlace
    BY <2>2, VerifiedSpares
  <2>3. ASSUME NEW p \in Terminals, SetTokens(p) PROVE SignedInOver
    BY <2>3 DEF SetTokens, SignedInOver
  <2>4. ASSUME NEW p \in Terminals, TakeTokens(p) PROVE SignedOut
    BY <2>4 DEF TakeTokens, ErasedIfMatches, SignedOut
  <2>5. ASSUME NEW p \in Terminals,
               \/ Start(p) \/ Exit(p) \/ Recheck(p) \/ PrepareCandidate(p) \/ VerifyRecovery(p)
               \/ RecoveryTimesOut(p) \/ Restore(p) \/ SessionExpires(p) \/ LoginFails(p)
               \/ Logout(p) \/ Revoke(p) \/ \E u \in Accounts : Exchange(p, u)
        PROVE  FALSE
    BY <2>5 DEF Start, Exit, Recheck, PrepareCandidate, VerifyRecovery, RecoveryTimesOut,
                Restore, SessionExpires, LoginFails, Logout, Revoke, Exchange
  <2>6. ASSUME NEW i \in Clients,
               \/ Enter(i) \/ ServerRefreshes(i) \/ ServerRejects(i) \/ LoseRefresh(i)
               \/ KeepRefreshed(i) \/ CheckSibling(i) \/ ForgetRejected(i)
        PROVE  RenewedInPlace
    BY <2>6, ClientsSpare
  <2>7. ASSUME NEW n \in Grants, Expires(n) PROVE FALSE
    BY <2>7 DEF Expires
  <2> QED BY <2>1, <2>2, <2>3, <2>4, <2>5, <2>6, <2>7 DEF Next
<1>2. LiveGrantStays <=> [][Spared]_vars
  BY DEF LiveGrantStays, SignedInOver, SignedOut, RenewedInPlace
<1> HIDE DEF Spared
<1> QED BY <1>1, <1>2, Invariance, PTL DEF Spec
=============================================================================
