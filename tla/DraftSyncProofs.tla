--------------------------- MODULE DraftSyncProofs ---------------------------
(***************************************************************************)
(* What DraftSync promises, for any number of terminals, accounts, slots   *)
(* and texts, and any of its faults.  The inductive invariant Inv has      *)
(* three layers, each inductive over the one before:                       *)
(*   Shape      the file is sound, every variable has its shape, and no    *)
(*              task or request outlives its session;                      *)
(*   WordsOK    every text, wherever it is, was typed under the account it *)
(*              is there for, and is no newer than the clock;              *)
(*   Promised   what a request under way carries out is the latest intent  *)
(*              of its slot or the file owes something newer, and what is  *)
(*              owed no longer the website has.                            *)
(***************************************************************************)
EXTENDS DraftSync, DraftFileProofs

USE DEF None
----------------------------------------------------------------------------
\* An operation the file has minted, a shield, or none.
Issued(s) == {op \in Operation \union {NoOperation} : op.revision <= s.revision}
Dues(s) == {f \in [Keys -> Issued(s)] : \A k \in Keys \ RemoteKeys : f[k] = NoOperation}
Texts == [Keys -> Words \union {None}]
Lists == {f \in Texts : \A k \in Keys \ RemoteKeys : f[k] = None}

Apps(s) ==
    [owner : Owners \union {NoOwner}, live : BOOLEAN, drafts : Texts, operations : Dues(s),
     epoch : Nat, mutations : [Keys -> Nat], relayAbsent : BOOLEAN]
Syncs(s) ==
    [pc    : {"idle", "saving", "start", "retry", "asking", "listed", "merging"},
     todo  : Dues(s), epoch : Revision, list : Lists]
Relays(s) ==
    [pc : {"waiting", "sent", "answered"}, owner : Owners, key : RemoteKeys,
     op : Operation \intersect Issued(s), text : Words \union {None}, tick : Nat]
Requests(s) == {NoRequest} \union Relays(s)

FileOK == Sound(store) /\ Ours(store) /\ Within(store)

ShapeOK ==
    /\ diskOk \in BOOLEAN /\ web \in Sites /\ clock \in Nat
    /\ intent \in [Keys -> Nat] /\ author \in [Words -> Owners]
    /\ app \in [Procs -> Apps(store)]
    /\ sync \in [Procs -> Syncs(store)]
    /\ request \in [Workers -> Requests(store)]

SessionsOK ==
    \A p \in Procs :
        IF app[p].live THEN app[p].owner \in Owners
        ELSE sync[p] = NoSync /\ \A w \in Workers : w[1] = p => request[w] = NoRequest

Shape == FileOK /\ ShapeOK /\ SessionsOK

\* A text that is there for `owner` was typed under that account, by `now`.
WrittenBy(text, owner, now) == text # None => author[text] = owner /\ text <= now

WordsAt(now) ==
    /\ \A k \in Keys : WrittenBy(store.drafts[k], store.owner, now)
    /\ \A u \in Owners, k \in RemoteKeys : WrittenBy(web[u][k].text, u, now)
    /\ \A p \in Procs, k \in Keys :
        /\ WrittenBy(app[p].drafts[k], app[p].owner, now)
        /\ WrittenBy(sync[p].list[k], app[p].owner, now)
    /\ \A w \in Workers : WrittenBy(request[w].text, request[w].owner, now)

WordsOK == WordsAt(clock)

UnderWay(w) == request[w].pc \in {"sent", "answered"}

Dated ==
    /\ \A k \in Keys : intent[k] <= clock
    /\ \A u \in Owners, k \in RemoteKeys : web[u][k].tick <= clock
    /\ \A w \in Workers : request[w].tick <= clock

\* What a request carries out is the latest intent of its slot, unless the file owes something newer.
RequestsAreDue ==
    \A w \in Workers :
        (UnderWay(w) /\ store.owner = request[w].owner
           /\ (~Owed(store, request[w].key) \/ store.operations[request[w].key] = request[w].op))
        => intent[request[w].key] <= request[w].tick

AnswersAreThere ==
    \A w \in Workers : request[w].pc = "answered" =>
        web[request[w].owner][request[w].key].tick >= request[w].tick

OneAtATime ==
    \A v, w \in Workers :
        (UnderWay(v) /\ UnderWay(w) /\ request[v].key = request[w].key) => v = w

NobodyIntends == store.owner = NoOwner => \A k \in Keys : intent[k] = 0

Promised ==
    Dated /\ RequestsAreDue /\ AnswersAreThere /\ OneAtATime /\ NobodyIntends /\ SyncedMeansReflected

Inv == Shape /\ WordsOK /\ Promised

----------------------------------------------------------------------------
\* What memory holds of a file it may hold of a later one.
LEMMA MemoryGrows ==
    ASSUME NEW s \in Stored, NEW t \in Stored, s.revision <= t.revision
    PROVE  /\ Dues(s) \subseteq Dues(t) /\ Apps(s) \subseteq Apps(t)
           /\ Syncs(s) \subseteq Syncs(t) /\ Requests(s) \subseteq Requests(t)
<1>1. Issued(s) \subseteq Issued(t)
  <2> SUFFICES ASSUME NEW op \in Operation \union {NoOperation}, op.revision <= s.revision
               PROVE  op.revision <= t.revision
    BY DEF Issued
  <2>1. op.revision \in Nat
    BY BoundsAssumption DEF Operation, NoOperation, Revision
  <2>2. s.revision \in Nat /\ t.revision \in Nat
    BY BoundsAssumption DEF Stored, Revision
  <2> QED BY <2>1, <2>2
<1>2. Dues(s) \subseteq Dues(t)
  BY <1>1 DEF Dues
<1>3. Apps(s) \subseteq Apps(t)
  BY <1>2 DEF Apps
<1>4. Syncs(s) \subseteq Syncs(t)
  BY <1>2 DEF Syncs
<1>5. Requests(s) \subseteq Requests(t)
  BY <1>1 DEF Requests, Relays
<1> QED BY <1>2, <1>3, <1>4, <1>5

LEMMA NothingIsShaped ==
    ASSUME NEW s \in Stored
    PROVE  /\ NoOperation \in Issued(s) /\ NoOperations \in Dues(s) /\ NoDrafts \in Lists
           /\ Off \in Apps(s) /\ NoSync \in Syncs(s) /\ NoRequest \in Requests(s)
<1>1. s.revision \in Nat /\ 0 \in Revision
  BY BoundsAssumption DEF Stored, Revision
<1>2. NoOperation \in Issued(s)
  BY <1>1 DEF NoOperation, Issued
<1>3. NoOperations \in Dues(s) /\ NoDrafts \in Lists /\ NoDrafts \in Texts
  BY <1>2 DEF NoOperations, NoDrafts, Dues, Lists, Texts
<1>4. NoRevisions \in [Keys -> Nat]
  BY DEF NoRevisions
<1> QED BY <1>1, <1>2, <1>3, <1>4 DEF Off, Apps, NoSync, Syncs, Requests

\* A set of steps that leave the file later than they found it.
LEMMA CalledIsLater ==
    ASSUME FileOK, NEW t, Called(store, t)
    PROVE  /\ Sound(t) /\ Ours(t) /\ Within(t) /\ t \in Stored /\ store \in Stored
           /\ store.revision <= t.revision
<1>1. Sound(t) /\ Within(t) /\ Ours(t) /\ Fresh(store, t)
  BY CallKeeps DEF FileOK
<1>2. t \in Stored /\ store \in Stored
  BY <1>1 DEF Sound, FileOK
<1>3. t.revision \in Nat /\ store.revision \in Nat
  BY <1>2, BoundsAssumption DEF Stored, Revision
<1> QED BY <1>1, <1>2, <1>3 DEF Fresh

LEMMA PersistSteps ==
    ASSUME FileOK, NEW a \in Apps(store), a.owner \in Owners, NEW k \in Keys
    PROVE  LET b == PersistDraft(a, k)
               t == Persisted(a, k)
           IN  /\ Called(store, t)
               /\ b \in Apps(t)
               /\ b.owner = a.owner /\ b.live = a.live /\ b.drafts = a.drafts
               /\ b.relayAbsent = a.relayAbsent
               /\ k \in RemoteKeys => b.operations[k] \in Operation
<1> DEFINE b == PersistDraft(a, k)
           t == Persisted(a, k)
           mint == MintedBy(store, a.owner, a.drafts[k])
           shield == Shield(IF a.drafts[k] = None THEN "delete" ELSE "save")
<1>t. /\ a.drafts \in [Keys -> Words \union {None}] /\ a.drafts[k] \in Words \union {None}
      /\ a.operations \in Dues(store) /\ a.epoch \in Nat
  BY DEF Apps, Texts
<1>1. Called(store, t)
  <2>1. CASE Saves(a)
    <3>1. MayWrite(store, a.owner) /\ t = AfterApply(store, a.owner, k, a.drafts[k])
      BY <2>1 DEF Saves, Persisted
    <3> QED BY <1>t, <3>1 DEF Called
  <2>2. CASE ~Saves(a)
    BY <2>2 DEF Persisted, Called
  <2> QED BY <2>1, <2>2
<1>2. t \in Stored /\ store \in Stored /\ store.revision <= t.revision /\ t.revision \in Nat
  <2>1. t \in Stored /\ store \in Stored /\ store.revision <= t.revision
    BY <1>1, CalledIsLater
  <2> QED BY <2>1, BoundsAssumption DEF Stored, Revision
<1>3. PICK epoch \in Nat, op \in Operation \intersect Issued(t) :
        b = [a EXCEPT !.epoch = epoch,
                      !.operations[k] = IF k \in RemoteKeys THEN op ELSE a.operations[k]]
  <2>1. CASE Saves(a)
    <3>1. mint \in Operation /\ mint.revision = store.revision + 1
          /\ t.revision = store.revision + 1
      BY <1>t, <2>1, ApplyEffect DEF Saves, Persisted, FileOK, Rewrites
    <3>2. mint \in Issued(t) /\ mint.revision \in Nat
      BY <1>2, <3>1 DEF Issued
    <3>3. Larger(a.epoch, mint.revision) \in Nat
      BY <1>t, <3>2 DEF Larger
    <3>4. b = [a EXCEPT !.epoch = Larger(a.epoch, mint.revision),
                        !.operations[k] = IF k \in RemoteKeys THEN mint ELSE a.operations[k]]
      BY <2>1 DEF PersistDraft, Apps
    <3> QED BY <3>1, <3>2, <3>3, <3>4
  <2>2. CASE ~Saves(a)
    <3>1. shield \in Operation /\ shield.revision = 0
      BY BoundsAssumption DEF Shield, Operation, Revision, Kinds
    <3>2. shield \in Issued(t)
      BY <1>2, <3>1 DEF Issued
    <3>3. b = [a EXCEPT !.epoch = a.epoch + 1,
                        !.operations[k] = IF k \in RemoteKeys THEN shield ELSE a.operations[k]]
      BY <2>2 DEF PersistDraft, Apps
    <3>4. a.epoch + 1 \in Nat
      BY <1>t
    <3> QED BY <3>1, <3>2, <3>3, <3>4
  <2> QED BY <2>1, <2>2
<1> HIDE DEF b
<1>4. /\ b.owner = a.owner /\ b.live = a.live /\ b.drafts = a.drafts
      /\ b.relayAbsent = a.relayAbsent /\ b.mutations = a.mutations
      /\ b.epoch = epoch
      /\ b.operations = [a.operations EXCEPT ![k] = IF k \in RemoteKeys THEN op ELSE a.operations[k]]
  BY <1>3 DEF Apps
<1>5. a.operations \in Dues(t)
  BY <1>t, <1>2, MemoryGrows
<1>6. b.operations \in Dues(t) /\ (k \in RemoteKeys => b.operations[k] \in Operation)
  BY <1>4, <1>5 DEF Dues
<1>7. b \in Apps(t)
  <2>1. b = [owner |-> b.owner, live |-> b.live, drafts |-> b.drafts, operations |-> b.operations,
             epoch |-> b.epoch, mutations |-> b.mutations, relayAbsent |-> b.relayAbsent]
    BY <1>3 DEF Apps
  <2> QED BY <1>4, <1>6, <2>1 DEF Apps
<1> QED BY <1>1, <1>4, <1>6, <1>7 DEF b

\* stash_draft_impl and discard_draft_local, on disk and in memory.
LEMMA KeepSteps ==
    ASSUME Shape, NEW p \in Procs, app[p].live, NEW k \in Keys,
           NEW text \in {None, clock + 1}, Keep(p, k, text)
    PROVE  LET b == Keeping(p, k, text)
           IN  /\ Called(store, store')
               /\ b \in Apps(store')
               /\ b.owner = app[p].owner /\ b.live
               /\ \A j \in Keys : b.drafts[j] = IF j = k THEN text ELSE app[p].drafts[j]
               /\ k \in RemoteKeys => b.operations[k] \in Operation
               /\ text \in Words \union {None}
               /\ clock' = clock + 1 /\ intent' \in [Keys -> Nat]
<1> DEFINE a == [app[p] EXCEPT !.drafts[k] = text]
           c == PersistDraft(a, k)
           b == Keeping(p, k, text)
<1>1. app[p] \in Apps(store) /\ app[p].owner \in Owners
  BY DEF Shape, ShapeOK, SessionsOK
<1>2. text \in Words \union {None}
  BY DEF Keep, Room
<1>3. /\ a.owner = app[p].owner /\ a.live = app[p].live
      /\ a.drafts = [app[p].drafts EXCEPT ![k] = text]
  BY <1>1 DEF Apps
<1>4. a \in Apps(store)
  <2>1. [app[p].drafts EXCEPT ![k] = text] \in Texts
    BY <1>1, <1>2 DEF Apps, Texts
  <2>2. a = [app[p] EXCEPT !.drafts = [app[p].drafts EXCEPT ![k] = text]]
    BY <1>1 DEF Apps
  <2> QED BY <1>1, <2>1, <2>2 DEF Apps
<1>5. store' = Persisted(a, k) /\ intent' = IntentAfterSave(a, k, clock + 1) /\ clock' = clock + 1
  BY DEF Keep
<1>6. b = [c EXCEPT !.mutations[k] = c.epoch]
  BY DEF Keeping
<1> HIDE DEF a
<1>7. /\ Called(store, store') /\ c \in Apps(store')
      /\ c.owner = a.owner /\ c.live = a.live /\ c.drafts = a.drafts
      /\ k \in RemoteKeys => c.operations[k] \in Operation
  BY <1>1, <1>3, <1>4, <1>5, PersistSteps DEF Shape
<1> HIDE DEF c, b
<1>8. b = [c EXCEPT !.mutations = [c.mutations EXCEPT ![k] = c.epoch]]
  BY <1>6, <1>7 DEF Apps
<1>9. [c.mutations EXCEPT ![k] = c.epoch] \in [Keys -> Nat]
  BY <1>7 DEF Apps
<1>10. /\ b \in Apps(store')
       /\ b.owner = c.owner /\ b.live = c.live /\ b.drafts = c.drafts /\ b.operations = c.operations
  BY <1>7, <1>8, <1>9 DEF Apps
<1>11. intent' \in [Keys -> Nat]
  BY <1>5 DEF IntentAfterSave, Shape, ShapeOK
<1>12. \A j \in Keys : b.drafts[j] = IF j = k THEN text ELSE app[p].drafts[j]
  BY <1>1, <1>3, <1>7, <1>10 DEF Apps, Texts
<1> QED BY <1>2, <1>3, <1>5, <1>7, <1>10, <1>11, <1>12 DEF b

\* A step that calls the store once and leaves memory, tasks and requests of
\* the file it makes keeps the shape.
LEMMA ShapeStep ==
    ASSUME Shape, Called(store, store'),
           diskOk' \in BOOLEAN, web' \in Sites, clock' \in Nat,
           intent' \in [Keys -> Nat], author' = author,
           app' \in [Procs -> Apps(store')], sync' \in [Procs -> Syncs(store')],
           request' \in [Workers -> Requests(store')], SessionsOK'
    PROVE  Shape'
<1>1. Sound(store') /\ Ours(store') /\ Within(store')
  BY CalledIsLater DEF Shape
<1>2. FileOK'
  BY <1>1 DEF FileOK, Sound, Ours, Within, Held, Fenced, Paid, Small, Emptied, Formed, Owed
<1>3. ShapeOK'
  BY DEF ShapeOK, Shape
<1> QED BY <1>2, <1>3 DEF Shape

\* What a call leaves alone stays as it was shaped.
LEMMA KeptShape ==
    ASSUME Shape, Called(store, store')
    PROVE  /\ app \in [Procs -> Apps(store')] /\ sync \in [Procs -> Syncs(store')]
           /\ request \in [Workers -> Requests(store')]
           /\ store' \in Stored
<1>1. /\ Apps(store) \subseteq Apps(store') /\ Syncs(store) \subseteq Syncs(store')
      /\ Requests(store) \subseteq Requests(store') /\ store' \in Stored
  BY CalledIsLater, MemoryGrows DEF Shape
<1> QED BY <1>1 DEF Shape, ShapeOK

\* A step of process p keeps every session in order if it keeps that of p.
LEMMA SessionsStep ==
    ASSUME Shape, NEW p \in Procs,
           \A q \in Procs \ {p} : app'[q] = app[q] /\ sync'[q] = sync[q],
           \A w \in Workers : w[1] # p => request'[w] = request[w],
           \/ app'[p].live /\ app'[p].owner \in Owners
           \/ /\ ~app'[p].live /\ sync'[p] = NoSync
              /\ \A w \in Workers : w[1] = p => request'[w] = NoRequest
    PROVE  SessionsOK'
<1> SUFFICES ASSUME NEW q \in Procs
             PROVE  IF app'[q].live THEN app'[q].owner \in Owners
                    ELSE sync'[q] = NoSync /\ \A w \in Workers : w[1] = q => request'[w] = NoRequest
  BY DEF SessionsOK
<1>1. CASE q = p
  BY <1>1
<1>2. CASE q # p
  <2>1. app'[q] = app[q] /\ sync'[q] = sync[q]
    BY <1>2
  <2>2. \A w \in Workers : w[1] = q => request'[w] = request[w]
    BY <1>2
  <2>3. IF app[q].live THEN app[q].owner \in Owners
        ELSE sync[q] = NoSync /\ \A w \in Workers : w[1] = q => request[w] = NoRequest
    BY DEF Shape, SessionsOK
  <2> QED BY <2>1, <2>2, <2>3
<1> QED BY <1>1, <1>2

\* What relay_draft spawns is a request of its own process.
LEMMA RelayShape ==
    ASSUME Shape, Called(store, store'), NEW p \in Procs, NEW k \in Keys,
           NEW b \in Apps(store'), b.owner \in Owners,
           k \in RemoteKeys => b.operations[k] \in Operation,
           RelayDraft(p, k, b)
    PROVE  /\ request' \in [Workers -> Requests(store')]
           /\ \A w \in Workers : w # <<p, k>> => request'[w] = request[w]
           /\ request' = request \/
                /\ k \in RemoteKeys /\ <<p, k>> \in Workers
                /\ request[<<p, k>>].pc \in {"idle", "waiting"}
                /\ request'[<<p, k>>] = Asked(b.owner, k, b.operations[k], b.drafts[k])
<1> DEFINE sends == k \in RemoteKeys /\ ~b.relayAbsent /\ b.operations[k] \notin Shields
           new == Asked(b.owner, k, b.operations[k], b.drafts[k])
<1>1. request \in [Workers -> Requests(store')]
  BY KeptShape
<1>2. CASE ~sends
  <2>1. request' = request
    BY <1>2, Zenon DEF RelayDraft
  <2> QED BY <1>1, <2>1
<1>3. CASE sends
  <2>1. request' = [request EXCEPT ![<<p, k>>] = new] /\ request[<<p, k>>].pc \in {"idle", "waiting"}
    BY <1>3 DEF RelayDraft
  <2>2. <<p, k>> \in Workers
    BY <1>3 DEF Workers
  <2>3. /\ b.operations[k] \in Operation /\ b.operations[k] \in Issued(store')
        /\ b.drafts[k] \in Words \union {None}
    BY <1>3 DEF Apps, Dues, Texts
  <2>4. new \in Requests(store')
    BY <1>3, <2>3 DEF Requests, Relays, Asked
  <2> HIDE DEF new
  <2>5. request'[<<p, k>>] = new /\ \A w \in Workers : w # <<p, k>> => request'[w] = request[w]
    BY <1>1, <2>1, <2>2
  <2>6. request' \in [Workers -> Requests(store')]
    BY <1>1, <2>1, <2>4
  <2> QED BY <1>3, <2>1, <2>2, <2>5, <2>6 DEF new
<1> QED BY <1>2, <1>3

\* What a composer does, closed with words in it or empty.
LEMMA ComposerSteps ==
    ASSUME NEW p \in Procs, ComposerStep(p)
    PROVE  \E k \in Keys, text \in {None, clock + 1} :
             /\ app[p].live /\ Keep(p, k, text)
             /\ app' = [app EXCEPT ![p] = Keeping(p, k, text)]
             /\ RelayDraft(p, k, Keeping(p, k, text)) \/ UNCHANGED request
             /\ UNCHANGED <<diskOk, web, sync, author>>
<1>1. ASSUME NEW k \in Keys, DiscardDraft(p, k)
      PROVE  /\ app[p].live /\ Keep(p, k, None)
             /\ app' = [app EXCEPT ![p] = Keeping(p, k, None)]
             /\ RelayDraft(p, k, Keeping(p, k, None))
             /\ UNCHANGED <<diskOk, web, sync, author>>
  BY <1>1 DEF DiscardDraft, Attentive
<1>2. ASSUME NEW k \in Keys, NEW relay \in BOOLEAN, StashDraft(p, k, relay)
      PROVE  /\ app[p].live /\ Keep(p, k, clock + 1)
             /\ app' = [app EXCEPT ![p] = Keeping(p, k, clock + 1)]
             /\ RelayDraft(p, k, Keeping(p, k, clock + 1)) \/ UNCHANGED request
             /\ UNCHANGED <<diskOk, web, sync, author>>
  BY <1>2 DEF StashDraft, Attentive
<1> QED BY <1>1, <1>2 DEF ComposerStep

LEMMA ComposerShape ==
    ASSUME Shape, NEW p \in Procs, ComposerStep(p)
    PROVE  Called(store, store') /\ Shape'
<1>1. PICK k \in Keys, text \in {None, clock + 1} :
        /\ app[p].live /\ Keep(p, k, text)
        /\ app' = [app EXCEPT ![p] = Keeping(p, k, text)]
        /\ RelayDraft(p, k, Keeping(p, k, text)) \/ UNCHANGED request
        /\ UNCHANGED <<diskOk, web, sync, author>>
  BY ComposerSteps
<1> DEFINE b == Keeping(p, k, text)
<1>2. /\ Called(store, store') /\ b \in Apps(store')
      /\ b.owner = app[p].owner /\ b.live
      /\ k \in RemoteKeys => b.operations[k] \in Operation
      /\ clock' = clock + 1 /\ intent' \in [Keys -> Nat]
  BY <1>1, KeepSteps
<1> HIDE DEF b
<1>3. /\ app \in [Procs -> Apps(store')] /\ sync \in [Procs -> Syncs(store')]
      /\ request \in [Workers -> Requests(store')]
  BY <1>2, KeptShape
<1>4. b.owner \in Owners
  BY <1>1, <1>2 DEF Shape, SessionsOK
<1>5. /\ request' \in [Workers -> Requests(store')]
      /\ \A w \in Workers : w[1] # p => request'[w] = request[w]
  <2>1. CASE UNCHANGED request
    BY <1>3, <2>1
  <2>2. CASE RelayDraft(p, k, b)
    <3>1. /\ request' \in [Workers -> Requests(store')]
          /\ \A w \in Workers : w # <<p, k>> => request'[w] = request[w]
      BY <1>2, <1>4, <2>2, RelayShape
    <3> QED BY <3>1
  <2> QED BY <1>1, <2>1, <2>2 DEF b
<1>6. app' = [app EXCEPT ![p] = b]
  BY <1>1 DEF b
<1>7. app' \in [Procs -> Apps(store')] /\ app'[p] = b /\ \A q \in Procs \ {p} : app'[q] = app[q]
  BY <1>2, <1>3, <1>6
<1>8. SessionsOK'
  BY <1>1, <1>2, <1>4, <1>5, <1>7, SessionsStep
<1> QED BY <1>1, <1>2, <1>3, <1>5, <1>7, <1>8, ShapeStep DEF Shape, ShapeOK

\* What the file owes memory may owe.
LEMMA FileOwes ==
    ASSUME NEW s, Sound(s)
    PROVE  s.operations \in Dues(s) /\ s.drafts \in Texts
<1>1. s \in Stored /\ s.revision \in Nat
  BY BoundsAssumption DEF Sound, Stored, Revision
<1>2. \A k \in Keys : s.operations[k] \in Issued(s)
  <2> SUFFICES ASSUME NEW k \in Keys PROVE s.operations[k] \in Issued(s)
    OBVIOUS
  <2>1. CASE s.operations[k] = NoOperation
    BY <1>1, <2>1 DEF Issued, NoOperation
  <2>2. CASE s.operations[k] # NoOperation
    <3>1. s.operations[k].revision <= s.revision
      BY <2>2 DEF Sound, Fenced, Owed
    <3> QED BY <1>1, <2>2, <3>1 DEF Issued, Stored
  <2> QED BY <2>1, <2>2
<1>3. \A k \in Keys \ RemoteKeys : s.operations[k] = NoOperation
  BY DEF Sound, Paid, Owed
<1> QED BY <1>1, <1>2, <1>3 DEF Dues, Texts, Stored

LEMMA ShapedRecords ==
    ASSUME NEW s, NEW a \in Apps(s)
    PROVE  /\ a.owner \in Owners \union {NoOwner} /\ a.live \in BOOLEAN /\ a.drafts \in Texts
           /\ a.operations \in Dues(s) /\ a.epoch \in Nat /\ a.mutations \in [Keys -> Nat]
           /\ a.relayAbsent \in BOOLEAN
BY DEF Apps

\* A sync starts with what memory could not save.
LEMMA SyncAfterShape ==
    ASSUME NEW s \in Stored, NEW p \in Procs, NEW a \in Apps(s)
    PROVE  SyncAfter(p, a) \in Syncs(s) /\ SyncAfter(p, a).list = NoDrafts
<1> DEFINE shields == [k \in Keys |-> IF a.operations[k] \in Shields
                                      THEN a.operations[k] ELSE NoOperation]
           start == IF shields = NoOperations THEN "start" ELSE "saving"
<1>1. shields \in Dues(s)
  <2>1. NoOperation \in Issued(s)
    BY NothingIsShaped
  <2>2. a.operations \in Dues(s)
    BY ShapedRecords
  <2> QED BY <2>1, <2>2 DEF Dues
<1>2. NoSync \in Syncs(s) /\ NoSync.list = NoDrafts
  BY NothingIsShaped DEF NoSync
<1> HIDE DEF shields
<1>3. SyncAfter(p, a) = IF a.relayAbsent THEN NoSync
                        ELSE [NoSync EXCEPT !.pc = start, !.todo = shields]
  BY DEF SyncAfter, shields
<1>4. start \in {"start", "saving"}
  OBVIOUS
<1> HIDE DEF start
<1>5. CASE a.relayAbsent
  BY <1>2, <1>3, <1>5
<1>6. CASE ~a.relayAbsent
  <2>1. SyncAfter(p, a) = [NoSync EXCEPT !.pc = start, !.todo = shields]
    BY <1>3, <1>6
  <2> QED BY <1>1, <1>2, <1>4, <2>1 DEF Syncs
<1> QED BY <1>5, <1>6

\* select_draft_owner: the file is taken over, or left as it is.
LEMMA GoLiveSteps ==
    ASSUME Shape, NEW p \in Procs, NEW u \in Owners, GoLive(p, u)
    PROVE  /\ Called(store, store')
           /\ store' = store \/ (store'.owner = u /\ Blank(store'))
           /\ app' = [app EXCEPT ![p] = app'[p]]
           /\ app'[p] \in Apps(store') /\ app'[p].owner = u /\ app'[p].live
           /\ \/ app'[p].drafts = app[p].drafts /\ app[p].owner = u
              \/ app'[p].drafts = store'.drafts /\ store'.owner = u
              \/ app'[p].drafts = NoDrafts
           /\ sync' = [sync EXCEPT ![p] = sync'[p]]
           /\ sync'[p] \in Syncs(store') /\ sync'[p].list = NoDrafts
           /\ request' = Idled(p) \/ UNCHANGED request
           /\ intent' = IF store'.revisions = NoRevisions THEN [k \in Keys |-> 0] ELSE intent
           /\ UNCHANGED <<diskOk, web, clock, author>>
<1> DEFINE was      == app[p]
           changed  == was.live /\ was.owner # u
           cleared  == IF changed /\ diskOk THEN AfterErase(store, was.owner) ELSE store
           base     == IF changed THEN [Off EXCEPT !.epoch = was.epoch + 1,
                                                   !.relayAbsent = was.relayAbsent]
                       ELSE was
           takes    == diskOk \/ cleared.owner = u
           file     == IF takes THEN AfterActivate(cleared, u) ELSE cleared
           drafts   == IF takes THEN file.drafts ELSE NoDrafts
           selected == IF base.owner = u THEN base
                       ELSE [base EXCEPT !.owner = u, !.drafts = drafts,
                                         !.mutations = NoRevisions, !.operations = NoOperations]
           owed     == [k \in Keys |-> IF Owed(file, k) THEN file.operations[k]
                                       ELSE selected.operations[k]]
           ready    == IF ~Owns(file, u) THEN selected
                       ELSE [selected EXCEPT !.epoch = Larger(selected.epoch, file.revision),
                                             !.operations = owed]
           live     == [ready EXCEPT !.live = TRUE]
<1>1. /\ store' = file
      /\ request' = IF changed THEN Idled(p) ELSE request
      /\ intent' = IF file.revisions = NoRevisions THEN [k \in Keys |-> 0] ELSE intent
      /\ UNCHANGED <<diskOk, web, clock, author>>
  BY DEF GoLive
<1>2. app' = [app EXCEPT ![p] = live] /\ sync' = [sync EXCEPT ![p] = SyncAfter(p, ready)]
  BY DEF GoLive
<1>s. /\ store \in Stored /\ Ours(store) /\ was \in Apps(store)
      /\ changed => was.owner \in Owners
  BY DEF Shape, FileOK, ShapeOK, SessionsOK, Sound
<1>3. file = store \/ file = AfterActivate(store, u)
  <2>1. CASE changed /\ diskOk
    <3>1. file = AfterActivate(AfterErase(store, was.owner), u)
      BY <2>1
    <3> QED BY <1>s, <2>1, <3>1, EraseThenActivate
  <2>2. CASE ~(changed /\ diskOk)
    BY <2>2
  <2> QED BY <2>1, <2>2
<1>4. takes => file.owner = u
  <2>1. CASE changed /\ diskOk
    <3>1. file = AfterActivate(AfterErase(store, was.owner), u)
      BY <2>1
    <3> QED BY <1>s, <2>1, <3>1, EraseThenActivate, ActivateEffect
  <2>2. CASE ~(changed /\ diskOk)
    <3>1. takes => file = AfterActivate(store, u)
      BY <2>2
    <3> QED BY <1>s, <3>1, ActivateEffect
  <2> QED BY <2>1, <2>2
<1>5. Called(store, file) /\ (file = store \/ (file.owner = u /\ Blank(file)))
  BY <1>s, <1>3, ActivateEffect DEF Called
<1> HIDE DEF file, takes
<1>6. /\ Sound(file) /\ file \in Stored /\ Ours(file) /\ file.revision \in Nat
      /\ Apps(store) \subseteq Apps(file)
  <2>1. Sound(file) /\ file \in Stored /\ Ours(file) /\ store.revision <= file.revision
    BY <1>5, CalledIsLater DEF Shape
  <2> QED BY <1>s, <2>1, MemoryGrows, BoundsAssumption DEF Stored, Revision
<1>7. base \in Apps(file) /\ (base.owner = u => base = was)
  <2>1. Off \in Apps(file) /\ Off.owner = NoOwner
    BY <1>6, NothingIsShaped DEF Off
  <2>2. was \in Apps(file) /\ was.epoch + 1 \in Nat /\ was.relayAbsent \in BOOLEAN
    BY <1>s, <1>6, ShapedRecords
  <2>3. CASE changed
    <3>1. base = [Off EXCEPT !.epoch = was.epoch + 1, !.relayAbsent = was.relayAbsent]
      BY <2>3
    <3>2. base \in Apps(file) /\ base.owner = Off.owner
      BY <2>1, <2>2, <3>1 DEF Apps
    <3> QED BY <2>1, <3>2, OwnersAssumption
  <2>4. CASE ~changed
    BY <2>2, <2>4
  <2> QED BY <2>3, <2>4
<1> HIDE DEF base, was
<1>8. /\ selected \in Apps(file) /\ selected.owner = u
      /\ \/ selected.drafts = was.drafts /\ was.owner = u
         \/ selected.drafts = file.drafts /\ file.owner = u
         \/ selected.drafts = NoDrafts
  <2>1. /\ NoDrafts \in Texts /\ NoRevisions \in [Keys -> Nat] /\ NoOperations \in Dues(file)
        /\ file.drafts \in Texts
    BY <1>6, NothingIsShaped, FileOwes DEF Lists, NoRevisions
  <2>2. drafts \in Texts /\ ((drafts = file.drafts /\ file.owner = u) \/ drafts = NoDrafts)
    BY <1>4, <2>1
  <2>3. CASE base.owner = u
    BY <1>7, <2>3
  <2>4. CASE base.owner # u
    <3> HIDE DEF drafts
    <3>1. selected = [base EXCEPT !.owner = u, !.drafts = drafts,
                                  !.mutations = NoRevisions, !.operations = NoOperations]
      BY <2>4
    <3>2. selected \in Apps(file) /\ selected.owner = u /\ selected.drafts = drafts
      BY <1>7, <2>1, <2>2, <3>1 DEF Apps
    <3> QED BY <2>2, <3>2
  <2> QED BY <2>3, <2>4
<1> HIDE DEF selected
<1>9. ready \in Apps(file) /\ ready.owner = u /\ ready.drafts = selected.drafts
  <2>1. owed \in Dues(file)
    <3>1. file.operations \in Dues(file) /\ selected.operations \in Dues(file)
      BY <1>6, <1>8, FileOwes, ShapedRecords
    <3> QED BY <3>1 DEF Dues
  <2>2. Larger(selected.epoch, file.revision) \in Nat
    BY <1>6, <1>8, ShapedRecords DEF Larger
  <2> HIDE DEF owed
  <2>3. CASE ~Owns(file, u)
    BY <1>8, <2>3
  <2>4. CASE Owns(file, u)
    <3>1. ready = [selected EXCEPT !.epoch = Larger(selected.epoch, file.revision),
                                   !.operations = owed]
      BY <2>4
    <3> QED BY <1>8, <2>1, <2>2, <3>1 DEF Apps
  <2> QED BY <2>3, <2>4
<1> HIDE DEF ready
<1>10. live \in Apps(file) /\ live.owner = u /\ live.live /\ live.drafts = selected.drafts
  BY <1>9 DEF Apps
<1>11. SyncAfter(p, ready) \in Syncs(file) /\ SyncAfter(p, ready).list = NoDrafts
  BY <1>6, <1>9, SyncAfterShape
<1> HIDE DEF live
<1>12. /\ app' = [app EXCEPT ![p] = app'[p]] /\ app'[p] = live
       /\ sync' = [sync EXCEPT ![p] = sync'[p]] /\ sync'[p] = SyncAfter(p, ready)
  BY <1>2 DEF Shape, ShapeOK
<1> QED BY <1>1, <1>5, <1>8, <1>10, <1>11, <1>12, Zenon DEF was

LEMMA GoLiveShape ==
    ASSUME Shape, NEW p \in Procs, NEW u \in Owners, GoLive(p, u)
    PROVE  Called(store, store') /\ Shape'
<1>1. /\ Called(store, store')
      /\ app' = [app EXCEPT ![p] = app'[p]]
      /\ app'[p] \in Apps(store') /\ app'[p].owner = u /\ app'[p].live
      /\ sync' = [sync EXCEPT ![p] = sync'[p]] /\ sync'[p] \in Syncs(store')
      /\ request' = Idled(p) \/ UNCHANGED request
      /\ intent' = IF store'.revisions = NoRevisions THEN [k \in Keys |-> 0] ELSE intent
      /\ UNCHANGED <<diskOk, web, clock, author>>
  BY GoLiveSteps
<1>2. /\ app \in [Procs -> Apps(store')] /\ sync \in [Procs -> Syncs(store')]
      /\ request \in [Workers -> Requests(store')] /\ store' \in Stored
  BY <1>1, KeptShape
<1>3. app' \in [Procs -> Apps(store')] /\ sync' \in [Procs -> Syncs(store')]
  BY <1>1, <1>2
<1>4. \A q \in Procs \ {p} : app'[q] = app[q] /\ sync'[q] = sync[q]
  BY <1>1, <1>2
<1>5. /\ request' \in [Workers -> Requests(store')]
      /\ \A w \in Workers : w[1] # p => request'[w] = request[w]
  <2>1. NoRequest \in Requests(store')
    BY <1>2, NothingIsShaped
  <2> QED BY <1>1, <1>2, <2>1 DEF Idled
<1>6. intent' \in [Keys -> Nat]
  BY <1>1 DEF Shape, ShapeOK
<1>7. SessionsOK'
  BY <1>1, <1>4, <1>5, SessionsStep
<1> QED BY <1>1, <1>3, <1>5, <1>6, <1>7, ShapeStep DEF Shape, ShapeOK

\* The composer that is still open is kept, or there is none.
LEMMA LeavingSteps ==
    ASSUME Shape, NEW p \in Procs, NEW a, app[p].live, Leaving(p, a)
    PROVE  /\ Called(store, store') /\ a \in Apps(store')
           /\ a.owner = app[p].owner
           /\ clock' \in Nat /\ intent' \in [Keys -> Nat]
<1>1. CASE a = app[p] /\ UNCHANGED <<store, intent, clock>>
  BY <1>1 DEF Shape, ShapeOK, Called
<1>2. ASSUME NEW k \in Keys, NEW text \in {None, clock + 1}, a = Keeping(p, k, text),
             Keep(p, k, text)
      PROVE  /\ Called(store, store') /\ a \in Apps(store') /\ a.owner = app[p].owner
             /\ clock' \in Nat /\ intent' \in [Keys -> Nat]
  <2>1. /\ Called(store, store') /\ a \in Apps(store') /\ a.owner = app[p].owner
        /\ clock' = clock + 1 /\ intent' \in [Keys -> Nat]
    BY <1>2, KeepSteps
  <2> QED BY <2>1 DEF Shape, ShapeOK
<1> QED BY <1>1, <1>2 DEF Leaving

\* A session that ends takes its tasks with it.
LEMMA EndsShape ==
    ASSUME Shape, Called(store, store'), NEW p \in Procs, EndsTasks(p),
           NEW a \in Apps(store'), ~a.live, app' = [app EXCEPT ![p] = a],
           clock' \in Nat, intent' \in [Keys -> Nat],
           UNCHANGED <<diskOk, web, author>>
    PROVE  Shape'
<1>1. /\ app \in [Procs -> Apps(store')] /\ sync \in [Procs -> Syncs(store')]
      /\ request \in [Workers -> Requests(store')] /\ store' \in Stored
  BY KeptShape
<1>2. NoSync \in Syncs(store') /\ NoRequest \in Requests(store')
  BY <1>1, NothingIsShaped
<1>3. /\ app' \in [Procs -> Apps(store')] /\ sync' \in [Procs -> Syncs(store')]
      /\ request' \in [Workers -> Requests(store')]
  BY <1>1, <1>2 DEF EndsTasks, Idled
<1>4. /\ \A q \in Procs \ {p} : app'[q] = app[q] /\ sync'[q] = sync[q]
      /\ app'[p] = a /\ sync'[p] = NoSync
      /\ \A w \in Workers : request'[w] = IF w[1] = p THEN NoRequest ELSE request[w]
  BY <1>1 DEF EndsTasks, Idled
<1>5. SessionsOK'
  BY <1>4, SessionsStep
<1> QED BY <1>3, <1>5, ShapeStep DEF Shape, ShapeOK

LEMMA SignOutSteps ==
    ASSUME Shape, NEW p \in Procs, SignOut(p)
    PROVE  /\ Called(store, store')
           /\ store' = store \/ (store'.owner = NoOwner /\ Blank(store'))
           /\ \E a \in Apps(store') : /\ app' = [app EXCEPT ![p] = a]
                                      /\ ~a.live /\ a.drafts = NoDrafts
           /\ EndsTasks(p)
           /\ intent' = IF store'.revisions = NoRevisions THEN [k \in Keys |-> 0] ELSE intent
           /\ UNCHANGED <<diskOk, web, clock, author>>
<1> DEFINE a == [Off EXCEPT !.epoch = app[p].epoch + 1, !.relayAbsent = app[p].relayAbsent]
<1>1. /\ store' = IF diskOk THEN AfterErase(store, app[p].owner) ELSE store
      /\ app' = [app EXCEPT ![p] = a]
      /\ EndsTasks(p)
      /\ intent' = IF store'.revisions = NoRevisions THEN [k \in Keys |-> 0] ELSE intent
      /\ UNCHANGED <<diskOk, web, clock, author>>
  BY DEF SignOut
<1>2. /\ store \in Stored /\ Ours(store) /\ app[p] \in Apps(store) /\ app[p].owner \in Owners
  BY DEF SignOut, Attentive, Shape, FileOK, ShapeOK, SessionsOK, Sound
<1>3. Called(store, store') /\ (store' = store \/ (store'.owner = NoOwner /\ Blank(store')))
  BY <1>1, <1>2, EraseEffect DEF Called
<1>4. store' \in Stored
  BY <1>3, CalledIsLater DEF Shape
<1>5. Off \in Apps(store') /\ app[p].epoch + 1 \in Nat /\ app[p].relayAbsent \in BOOLEAN
  BY <1>2, <1>4, NothingIsShaped, ShapedRecords
<1>6. a \in Apps(store') /\ a.live = Off.live /\ a.drafts = Off.drafts
  BY <1>5 DEF Apps
<1>7. ~a.live /\ a.drafts = NoDrafts
  BY <1>6 DEF Off
<1> QED BY <1>1, <1>3, <1>6, <1>7

LEMMA SessionShape ==
    ASSUME Shape, NEW p \in Procs, SessionStep(p)
    PROVE  Called(store, store') /\ Shape'
<1>1. CASE EndSession(p)
  <2>1. PICK a \in Memories(p) : Leaving(p, a) /\ app' = [app EXCEPT ![p] = [a EXCEPT !.live = FALSE]]
    BY <1>1 DEF EndSession
  <2>2. /\ Called(store, store') /\ a \in Apps(store')
        /\ clock' \in Nat /\ intent' \in [Keys -> Nat]
    BY <1>1, <2>1, LeavingSteps DEF EndSession, Attentive
  <2>3. [a EXCEPT !.live = FALSE] \in Apps(store') /\ ~[a EXCEPT !.live = FALSE].live
    BY <2>2 DEF Apps
  <2> QED BY <1>1, <2>1, <2>2, <2>3, EndsShape DEF EndSession
<1>2. CASE SignOut(p)
  <2>1. /\ Called(store, store') /\ EndsTasks(p)
        /\ \E a \in Apps(store') : app' = [app EXCEPT ![p] = a] /\ ~a.live
        /\ intent' = IF store'.revisions = NoRevisions THEN [k \in Keys |-> 0] ELSE intent
        /\ UNCHANGED <<diskOk, web, clock, author>>
    BY <1>2, SignOutSteps
  <2>2. intent' \in [Keys -> Nat] /\ clock' \in Nat
    BY <2>1 DEF Shape, ShapeOK
  <2> QED BY <2>1, <2>2, EndsShape
<1>3. CASE Exit(p)
  <2>1. Called(store, store') /\ clock' \in Nat /\ intent' \in [Keys -> Nat]
    <3>1. CASE UNCHANGED <<store, intent, clock>>
      BY <3>1 DEF Shape, ShapeOK, Called
    <3>2. CASE Attentive(p) /\ \E a \in Memories(p) \ {app[p]} : Leaving(p, a)
      BY <3>2, LeavingSteps DEF Attentive
    <3> QED BY <1>3, <3>1, <3>2 DEF Exit
  <2>2. store' \in Stored
    BY <2>1, CalledIsLater DEF Shape
  <2>3. Off \in Apps(store') /\ ~Off.live
    BY <2>2, NothingIsShaped DEF Off
  <2> QED BY <1>3, <2>1, <2>3, EndsShape DEF Exit
<1> QED BY <1>1, <1>2, <1>3, GoLiveShape DEF SessionStep

\* A task that ends leaves its slot free, and memory as it was but for the
\* operation it carried.
LEMMA TaskEndsShape ==
    ASSUME Shape, Called(store, store'), NEW w \in Workers, NEW r, r.key \in RemoteKeys,
           NEW retired, NEW missing \in BOOLEAN, app[w[1]].live, TaskEnds(w, r, retired, missing)
    PROVE  /\ app' \in [Procs -> Apps(store')] /\ sync' \in [Procs -> Syncs(store')]
           /\ request' \in [Workers -> Requests(store')]
           /\ SessionsOK'
           /\ \A p \in Procs : /\ app'[p].owner = app[p].owner /\ app'[p].drafts = app[p].drafts
                               /\ sync'[p].list \in {sync[p].list, NoDrafts}
           /\ request' = [request EXCEPT ![w] = NoRequest]
<1> DEFINE p   == w[1]
           k   == r.key
           ops == [app[p].operations EXCEPT ![k] =
                     IF retired /\ app[p].operations[k] = r.op THEN NoOperation
                     ELSE app[p].operations[k]]
           absent == app[p].relayAbsent \/ missing
           a   == [app[p] EXCEPT !.operations = ops, !.relayAbsent = absent]
<1>1. /\ app \in [Procs -> Apps(store')] /\ sync \in [Procs -> Syncs(store')]
      /\ request \in [Workers -> Requests(store')] /\ store' \in Stored
  BY KeptShape
<1>2. p \in Procs /\ k \in Keys
  BY KeysAssumption DEF Workers
<1>3. app[p] \in Apps(store') /\ app[p].operations \in Dues(store') /\ app[p].relayAbsent \in BOOLEAN
  BY <1>1, <1>2, ShapedRecords
<1>n. NoOperation \in Issued(store') /\ NoSync \in Syncs(store') /\ NoRequest \in Requests(store')
  BY <1>1, NothingIsShaped
<1>4. ops \in Dues(store') /\ absent \in BOOLEAN
  BY <1>3, <1>n DEF Dues
<1>5. app' = [app EXCEPT ![p] = a]
  BY <1>1, <1>2, <1>3 DEF TaskEnds, Apps
<1>6. request' = [request EXCEPT ![w] = NoRequest]
  BY DEF TaskEnds
<1>7. sync' \in [Procs -> Syncs(store')] /\ (sync' = sync \/ sync' = [sync EXCEPT ![p] = sync'[p]])
      /\ sync'[p].list \in {sync[p].list, NoDrafts}
  <2>1. CASE w[2] # 0
    BY <1>1, <2>1 DEF TaskEnds
  <2>2. CASE w[2] = 0 /\ missing
    <3>1. sync' = [sync EXCEPT ![p] = NoSync]
      BY <2>2 DEF TaskEnds
    <3> QED BY <1>1, <1>2, <1>n, <3>1 DEF NoSync
  <2>3. CASE w[2] = 0 /\ ~missing
    <3> DEFINE c == [sync[p] EXCEPT !.todo = [sync[p].todo EXCEPT ![k] = NoOperation]]
    <3>1. sync' = [sync EXCEPT ![p] = c]
      BY <1>1, <1>2, <2>3 DEF TaskEnds, Syncs
    <3>2. sync[p] \in Syncs(store') /\ sync[p].todo \in Dues(store')
      BY <1>1, <1>2 DEF Syncs
    <3>3. [sync[p].todo EXCEPT ![k] = NoOperation] \in Dues(store')
      BY <1>n, <3>2 DEF Dues
    <3>4. c \in Syncs(store') /\ c.list = sync[p].list
      BY <3>2, <3>3 DEF Syncs
    <3> HIDE DEF c
    <3> QED BY <1>1, <1>2, <3>1, <3>4
  <2> QED BY <2>1, <2>2, <2>3
<1> HIDE DEF ops, absent
<1>8. /\ a \in Apps(store') /\ a.owner = app[p].owner /\ a.drafts = app[p].drafts
      /\ a.live = app[p].live
  BY <1>3, <1>4 DEF Apps
<1> HIDE DEF a, p
<1>9. /\ app' \in [Procs -> Apps(store')] /\ app'[p] = a
      /\ \A q \in Procs \ {p} : app'[q] = app[q] /\ sync'[q] = sync[q]
  BY <1>1, <1>2, <1>5, <1>7, <1>8
<1>10. /\ request' \in [Workers -> Requests(store')]
       /\ \A v \in Workers : v # w => request'[v] = request[v]
  BY <1>1, <1>6, <1>n
<1>11. SessionsOK'
  <2>1. \A v \in Workers : v[1] # p => request'[v] = request[v]
    BY <1>10 DEF p
  <2>2. app'[p].live /\ app'[p].owner \in Owners
    BY <1>2, <1>8, <1>9 DEF Shape, SessionsOK, p
  <2> QED BY <1>2, <1>9, <2>1, <2>2, SessionsStep
<1>12. ASSUME NEW q \in Procs
       PROVE  /\ app'[q].owner = app[q].owner /\ app'[q].drafts = app[q].drafts
              /\ sync'[q].list \in {sync[q].list, NoDrafts}
  BY <1>7, <1>8, <1>9
<1> QED BY <1>6, <1>7, <1>9, <1>10, <1>11, <1>12

\* A request under way is one of a live session.
LEMMA RequestsAreLive ==
    ASSUME Shape, NEW w \in Workers, request[w].pc # "idle"
    PROVE  /\ w[1] \in Procs /\ app[w[1]].live
           /\ request[w].pc \in {"waiting", "sent", "answered"}
           /\ request[w].owner \in Owners /\ request[w].key \in RemoteKeys
           /\ request[w].op \in Operation /\ request[w].op \in Issued(store)
           /\ request[w].text \in Words \union {None} /\ request[w].tick \in Nat
           /\ request[w] \in Relays(store)
<1>1. request[w] \in Requests(store) /\ w[1] \in Procs
  BY DEF Shape, ShapeOK, Workers
<1>2. request[w] # NoRequest
  BY DEF NoRequest
<1>3. request[w] \in Relays(store)
  BY <1>1, <1>2 DEF Requests
<1>4. app[w[1]].live
  BY <1>1, <1>2 DEF Shape, SessionsOK
<1> QED BY <1>1, <1>3, <1>4 DEF Relays

\* What a task sends is what the file holds, or what it was given to send.
LEMMA RelayWorkText ==
    ASSUME NEW s, Ours(s), NEW key, NEW op, NEW text
    PROVE  RelayWork(s, key, op, text).text \in {None, s.drafts[key], text}
<1>1. ReadLocked(s) = s
  BY OursIsReadAsItIs
<1> DEFINE now == s.operations[key]
           work == RelayWork(s, key, op, text)
<1>2. \/ work = NoWork
      \/ work = [due |-> TRUE, text |-> None]
      \/ work = [due |-> s.drafts[key] # None, text |-> s.drafts[key]]
      \/ work = [due |-> TRUE, text |-> text]
  BY <1>1 DEF RelayWork
<1> QED BY <1>2 DEF NoWork

\* A task takes its slot's lock and sends, or finds nothing to do and ends.
LEMMA BeginShape ==
    ASSUME Shape, NEW w \in Workers, app[w[1]].live, NEW r \in Relays(store), Begin(w, r)
    PROVE  /\ UNCHANGED <<store, diskOk, web, clock, intent, author>>
           /\ \/ TaskEnds(w, r, Owns(store, r.owner), FALSE)
              \/ /\ Owns(store, r.owner) /\ ~LockHeld(r.key) /\ UNCHANGED <<app, sync>>
                 /\ request' = [request EXCEPT ![w] = request'[w]]
                 /\ request'[w] \in Relays(store)
                 /\ request'[w].pc = "sent" /\ request'[w].owner = r.owner
                 /\ request'[w].key = r.key /\ request'[w].op = r.op
                 /\ request'[w].tick = intent[r.key]
                 /\ request'[w].text \in {None, store.drafts[r.key], r.text}
           /\ Shape'
<1> DEFINE text == RelayWork(store, r.key, r.op, r.text).text
           new  == [r EXCEPT !.pc = "sent", !.text = text, !.tick = intent[r.key]]
<1>1. /\ UNCHANGED <<store, diskOk, web, clock, intent, author>>
      /\ \/ TaskEnds(w, r, Owns(store, r.owner), FALSE)
         \/ /\ Owns(store, r.owner) /\ ~LockHeld(r.key) /\ UNCHANGED <<app, sync>>
            /\ request' = [request EXCEPT ![w] = new]
  BY DEF Begin
<1>2. Called(store, store')
  BY <1>1 DEF Called
<1>3. CASE TaskEnds(w, r, Owns(store, r.owner), FALSE)
  <2>1. r.key \in RemoteKeys
    BY DEF Relays
  <2>2. /\ app' \in [Procs -> Apps(store')] /\ sync' \in [Procs -> Syncs(store')]
        /\ request' \in [Workers -> Requests(store')] /\ SessionsOK'
    BY <1>2, <1>3, <2>1, TaskEndsShape
  <2> QED BY <1>1, <1>2, <1>3, <2>2, ShapeStep DEF Shape, ShapeOK
<1>4. CASE /\ Owns(store, r.owner) /\ ~LockHeld(r.key) /\ UNCHANGED <<app, sync>>
           /\ request' = [request EXCEPT ![w] = new]
  <2>1. /\ r.key \in RemoteKeys /\ r.key \in Keys /\ r.text \in Words \union {None}
        /\ Ours(store) /\ store.drafts \in Texts
    BY FileOwes, KeysAssumption DEF Relays, Shape, FileOK
  <2>2. text \in {None, store.drafts[r.key], r.text}
    BY <2>1, RelayWorkText
  <2>3. text \in Words \union {None} /\ intent[r.key] \in Nat
    BY <2>1, <2>2 DEF Texts, Shape, ShapeOK
  <2> HIDE DEF text
  <2>4. /\ new \in Relays(store) /\ new.pc = "sent" /\ new.owner = r.owner /\ new.key = r.key
        /\ new.op = r.op /\ new.tick = intent[r.key] /\ new.text = text
    BY <2>3 DEF Relays
  <2> HIDE DEF new
  <2>5. request \in [Workers -> Requests(store)] /\ new \in Requests(store)
    BY <2>4 DEF Shape, ShapeOK, Requests, Relays
  <2>6. /\ request' \in [Workers -> Requests(store')] /\ request'[w] = new
        /\ request' = [request EXCEPT ![w] = request'[w]]
        /\ \A v \in Workers : v # w => request'[v] = request[v]
    BY <1>1, <1>4, <2>5
  <2>7. SessionsOK'
    <3>1. w[1] \in Procs /\ app'[w[1]].live /\ app'[w[1]].owner \in Owners
      BY <1>4 DEF Workers, Shape, SessionsOK
    <3> QED BY <1>4, <2>6, <3>1, SessionsStep
  <2>8. Shape'
    BY <1>1, <1>2, <1>4, <2>6, <2>7, ShapeStep DEF Shape, ShapeOK
  <2> QED BY <1>1, <1>4, <2>2, <2>4, <2>6, <2>8
<1> QED BY <1>1, <1>3, <1>4

LEMMA RequestShape ==
    ASSUME Shape, NEW w \in Workers, RequestStep(w)
    PROVE  Called(store, store') /\ Shape'
<1> DEFINE r == request[w]
<1>l. r.pc # "idle"
  BY DEF RequestStep, StartWork, WebsiteActs, SettleWork, LoseWork, RelayMissing
<1>r. /\ w[1] \in Procs /\ app[w[1]].live /\ r \in Relays(store) /\ r.key \in RemoteKeys
      /\ r.key \in Keys /\ r.owner \in Owners /\ r.op \in Operation
      /\ r.text \in Words \union {None} /\ r.tick \in Nat
  BY <1>l, RequestsAreLive, KeysAssumption DEF Relays
<1>1. CASE StartWork(w)
  <2>1. Begin(w, r)
    BY <1>1 DEF StartWork
  <2>2. UNCHANGED store /\ Shape'
    BY <1>r, <2>1, BeginShape
  <2> QED BY <2>2 DEF Called
<1>2. CASE WebsiteActs(w)
  <2>1. /\ UNCHANGED <<store, diskOk, clock, app, sync, intent, author>>
        /\ request' = [request EXCEPT ![w].pc = "answered"]
        /\ web' = [web EXCEPT ![r.owner][r.key] = [text |-> r.text, tick |-> r.tick]]
    BY <1>2 DEF WebsiteActs
  <2>2. Called(store, store')
    BY <2>1 DEF Called
  <2>3. [r EXCEPT !.pc = "answered"] \in Requests(store)
    BY <1>r DEF Relays, Requests
  <2>4. request' = [request EXCEPT ![w] = [r EXCEPT !.pc = "answered"]]
    BY <2>1 DEF Shape, ShapeOK
  <2>5. /\ request' \in [Workers -> Requests(store')]
        /\ \A v \in Workers : v # w => request'[v] = request[v]
    BY <2>1, <2>3, <2>4 DEF Shape, ShapeOK
  <2>6. web' \in Sites
    <3>1. web' = [web EXCEPT ![r.owner] =
                    [web[r.owner] EXCEPT ![r.key] = [text |-> r.text, tick |-> r.tick]]]
      BY <2>1 DEF Shape, ShapeOK, Sites
    <3>2. [text |-> r.text, tick |-> r.tick] \in [text : Words \union {None}, tick : Nat]
      BY <1>r
    <3> QED BY <1>r, <3>1, <3>2 DEF Shape, ShapeOK, Sites
  <2>7. SessionsOK'
    BY <1>r, <2>1, <2>5, SessionsStep DEF Shape, SessionsOK
  <2>8. Shape'
    BY <2>1, <2>2, <2>5, <2>6, <2>7, ShapeStep DEF Shape, ShapeOK
  <2> QED BY <2>2, <2>8
<1>3. ASSUME NEW retired, NEW missing \in BOOLEAN, TaskEnds(w, r, retired, missing),
             Called(store, store'), intent' \in [Keys -> Nat],
             UNCHANGED <<diskOk, web, clock, author>>
      PROVE  Called(store, store') /\ Shape'
  <2>1. /\ app' \in [Procs -> Apps(store')] /\ sync' \in [Procs -> Syncs(store')]
        /\ request' \in [Workers -> Requests(store')] /\ SessionsOK'
    BY <1>r, <1>3, TaskEndsShape
  <2> QED BY <1>3, <2>1, ShapeStep DEF Shape, ShapeOK
<1>4. CASE SettleWork(w)
  <2>1. /\ Owns(store, r.owner)
        /\ store' = AfterSettle(store, r.key, r.op)
        /\ TaskEnds(w, r, TRUE, FALSE)
        /\ UNCHANGED <<diskOk, web, clock, author>>
        /\ intent' = [intent EXCEPT ![r.key] = 0] \/ intent' = intent
    BY <1>4 DEF SettleWork
  <2>2. Called(store, store')
    BY <1>r, <2>1 DEF Called
  <2>3. intent' \in [Keys -> Nat]
    BY <2>1 DEF Shape, ShapeOK
  <2> QED BY <1>3, <2>1, <2>2, <2>3
<1>5. CASE LoseWork(w)
  BY <1>3, <1>5 DEF LoseWork, Called, Shape, ShapeOK
<1>6. CASE RelayMissing(w)
  BY <1>3, <1>6 DEF RelayMissing, Called, Shape, ShapeOK
<1> QED BY <1>1, <1>2, <1>4, <1>5, <1>6 DEF RequestStep

\* A sync that is at work is one of a live session.
LEMMA SyncsAreLive ==
    ASSUME Shape, NEW p \in Procs, sync[p].pc # "idle"
    PROVE  /\ app[p].live /\ app[p].owner \in Owners
           /\ app[p] \in Apps(store) /\ sync[p] \in Syncs(store) /\ store \in Stored
BY DEF Shape, ShapeOK, SessionsOK, NoSync, FileOK, Sound

\* A step of the sync task that changes nothing but the task, and perhaps what
\* memory holds.
LEMMA SyncOnlyShape ==
    ASSUME Shape, Called(store, store'), NEW p \in Procs, app[p].live,
           NEW a \in Apps(store'), a.live, a.owner = app[p].owner,
           app' = [app EXCEPT ![p] = a],
           NEW c \in Syncs(store'), sync' = [sync EXCEPT ![p] = c],
           intent' \in [Keys -> Nat],
           UNCHANGED <<diskOk, web, clock, request, author>>
    PROVE  Shape'
<1>1. /\ app \in [Procs -> Apps(store')] /\ sync \in [Procs -> Syncs(store')]
      /\ request \in [Workers -> Requests(store')]
  BY KeptShape
<1>2. /\ app' \in [Procs -> Apps(store')] /\ sync' \in [Procs -> Syncs(store')]
      /\ request' \in [Workers -> Requests(store')]
      /\ app'[p] = a /\ \A q \in Procs \ {p} : app'[q] = app[q] /\ sync'[q] = sync[q]
  BY <1>1
<1>3. app'[p].live /\ app'[p].owner \in Owners
  BY <1>2 DEF Shape, SessionsOK
<1>4. SessionsOK'
  BY <1>2, <1>3, SessionsStep
<1> QED BY <1>2, <1>4, ShapeStep DEF Shape, ShapeOK

LEMMA SaveShieldSteps ==
    ASSUME Shape, NEW p \in Procs, NEW k \in Keys, SaveShield(p, k)
    PROVE  /\ Called(store, store') /\ Shape'
           /\ app' = [app EXCEPT ![p] = app'[p]]
           /\ app'[p].owner = app[p].owner /\ app'[p].drafts = app[p].drafts
           /\ sync' = [sync EXCEPT ![p] = sync'[p]] /\ sync'[p].list = sync[p].list
<1> DEFINE b == PersistDraft(app[p], k)
           pc == IF Pending(p) = {k} THEN "start" ELSE sync[p].pc
           todo == [sync[p].todo EXCEPT ![k] = NoOperation]
           c == [sync[p] EXCEPT !.todo = todo, !.pc = pc]
           tick == IF app[p].drafts[k] = None THEN clock ELSE app[p].drafts[k]
<1>1. /\ store' = Persisted(app[p], k)
      /\ app' = [app EXCEPT ![p] = b]
      /\ intent' = IntentAfterSave(app[p], k, tick)
      /\ UNCHANGED <<diskOk, web, clock, request, author>>
  BY DEF SaveShield
<1>2. /\ app[p].live /\ app[p].owner \in Owners /\ app[p] \in Apps(store)
      /\ sync[p] \in Syncs(store)
  BY SyncsAreLive DEF SaveShield
<1>3. /\ Called(store, store') /\ b \in Apps(store') /\ b.owner = app[p].owner
      /\ b.live = app[p].live /\ b.drafts = app[p].drafts
  BY <1>1, <1>2, PersistSteps DEF Shape
<1>4. sync' = [sync EXCEPT ![p] = c]
  BY <1>2 DEF SaveShield, Shape, ShapeOK, Syncs
<1>5. tick \in Nat
  <2>1. app[p].drafts[k] \in Words \union {None} /\ clock \in Nat
    BY <1>2 DEF Apps, Texts, Shape, ShapeOK
  <2> QED BY <2>1, WordsAssumption
<1>6. intent' \in [Keys -> Nat]
  BY <1>1, <1>5 DEF IntentAfterSave, Shape, ShapeOK
<1>7. sync \in [Procs -> Syncs(store')] /\ store' \in Stored /\ app \in [Procs -> Apps(store')]
  BY <1>3, KeptShape
<1>8. todo \in Dues(store')
  BY <1>7, NothingIsShaped DEF Syncs, Dues
<1>9. pc \in {"idle", "saving", "start", "retry", "asking", "listed", "merging"}
  BY <1>2 DEF Syncs
<1> HIDE DEF todo, pc, tick
<1>10. c \in Syncs(store') /\ c.list = sync[p].list
  BY <1>7, <1>8, <1>9 DEF Syncs
<1> HIDE DEF b, c
<1>11. Shape'
  BY <1>1, <1>2, <1>3, <1>4, <1>6, <1>10, SyncOnlyShape
<1>12. app'[p] = b /\ sync'[p] = c
  BY <1>1, <1>4, <1>7
<1> QED BY <1>1, <1>3, <1>4, <1>10, <1>11, <1>12

\* merge_remote_drafts for one draft: a call of the store, or none.
LEMMA MergeSyncSteps ==
    ASSUME Shape, NEW p \in Procs, NEW k \in Keys, Merge(p, k)
    PROVE  LET text  == sync[p].list[k]
               owner == app[p].owner
           IN  /\ Called(store, store') /\ Shape'
               /\ k \in RemoteKeys /\ text \in Words /\ owner \in Owners
               /\ \/ UNCHANGED <<store, app, intent>>
                  \/ /\ store.owner = owner
                     /\ \/ UNCHANGED store
                        \/ /\ MayWrite(store, owner)
                           /\ MayMerge(store, owner, k, sync[p].epoch)
                           /\ store' = AfterMerge(store, owner, k, text)
                     /\ intent' = [j \in Keys |-> IF j # k /\ store'.drafts[j] # store.drafts[j]
                                                  THEN 0 ELSE intent[j]]
                     /\ app' = [app EXCEPT ![p] = app'[p]]
                     /\ app'[p].owner = owner
                     /\ \E new \in {text, store'.drafts[k]} :
                            app'[p].drafts = [app[p].drafts EXCEPT ![k] = new]
               /\ sync' = [sync EXCEPT ![p] = sync'[p]]
               /\ sync'[p].list = [sync[p].list EXCEPT ![k] = None]
               /\ UNCHANGED <<diskOk, web, clock, request, author>>
<1> DEFINE text  == sync[p].list[k]
           owner == app[p].owner
           may   == MayMerge(store, owner, k, sync[p].epoch)
           takes == may /\ diskOk
           list  == [sync[p].list EXCEPT ![k] = None]
           c     == [sync[p] EXCEPT !.pc = "merging", !.list = list]
           skips == Passed(p, k) \/ ~Owns(store, owner) \/ (may /\ ~diskOk)
           new   == IF takes /\ Accepted(store, owner, k, text) THEN text ELSE store'.drafts[k]
           a     == [app[p] EXCEPT !.drafts = [app[p].drafts EXCEPT ![k] = new]]
<1>1. /\ app[p].live /\ owner \in Owners /\ app[p] \in Apps(store)
      /\ sync[p] \in Syncs(store) /\ store \in Stored /\ Ours(store)
  BY SyncsAreLive DEF Merge, Shape, FileOK
<1>2. k \in RemoteKeys /\ text \in Words
  BY <1>1 DEF Merge, Listed, Syncs, Lists, Texts
<1>3. sync' = [sync EXCEPT ![p] = c] /\ UNCHANGED <<diskOk, web, clock, request, author>>
  BY <1>1 DEF Merge, Shape, ShapeOK, Syncs
<1>4. c \in Syncs(store) /\ c.list = list
  <2>1. list \in Lists
    BY <1>1 DEF Syncs, Lists, Texts
  <2> HIDE DEF list
  <2> QED BY <1>1, <2>1 DEF Syncs
<1>5. sync'[p] = c
  BY <1>3 DEF Shape, ShapeOK
<1>6. CASE skips
  <2>1. UNCHANGED <<store, app, intent>>
    BY <1>6 DEF Merge
  <2>2. Called(store, store') /\ app' = [app EXCEPT ![p] = app[p]]
    BY <2>1 DEF Called, Shape, ShapeOK
  <2> HIDE DEF c, skips, list
  <2>3. Shape'
    BY <1>1, <1>3, <1>4, <2>1, <2>2, SyncOnlyShape DEF Shape, ShapeOK
  <2> QED BY <1>1, <1>2, <1>3, <1>4, <1>5, <2>1, <2>2, <2>3 DEF list
<1>7. CASE ~skips
  <2>1. /\ store' = IF takes THEN AfterMerge(store, owner, k, text) ELSE store
        /\ app' = [app EXCEPT ![p].drafts[k] = new]
        /\ intent' = [j \in Keys |-> IF j # k /\ store'.drafts[j] # store.drafts[j]
                                     THEN 0 ELSE intent[j]]
    BY <1>7 DEF Merge
  <2>2. store.owner = owner
    BY <1>1, <1>7, OursIsReadAsItIs DEF Owns
  <2>3. takes => MayWrite(store, owner)
    <3>1. store.format = "v3" /\ ReadLocked(store) = store /\ Readable(store)
      BY <1>1, <2>2, OwnersAssumption, OursIsReadAsItIs DEF Ours
    <3>2. Opened(store, owner) = store
      BY <3>1 DEF Opened, Adopted
    <3>3. CanMint(store)
      BY DEF Merge, CanMint
    <3> QED BY <2>2, <3>1, <3>2, <3>3 DEF MayWrite
  <2>4. sync[p].epoch \in Revision
    BY <1>1 DEF Syncs
  <2>5. Called(store, store')
    BY <1>1, <1>2, <2>1, <2>3, <2>4 DEF Called
  <2>6. /\ store' \in Stored /\ store'.drafts \in Texts /\ app[p] \in Apps(store')
        /\ app \in [Procs -> Apps(store')]
    BY <2>5, KeptShape DEF Stored, Texts
  <2>7. new \in Words \union {None}
    BY <1>2, <2>6 DEF Texts
  <2>8. app' = [app EXCEPT ![p] = a]
    BY <2>1, <2>6 DEF Apps
  <2>9. new \in {text, store'.drafts[k]}
    OBVIOUS
  <2> HIDE DEF new
  <2>10. [app[p].drafts EXCEPT ![k] = new] \in Texts
    BY <2>6, <2>7 DEF Apps, Texts
  <2>11. /\ a \in Apps(store') /\ a.owner = owner /\ a.live
         /\ a.drafts = [app[p].drafts EXCEPT ![k] = new]
    BY <1>1, <2>6, <2>10 DEF Apps
  <2>12. intent' \in [Keys -> Nat]
    BY <2>1 DEF Shape, ShapeOK
  <2>13. c \in Syncs(store')
    BY <1>1, <1>4, <2>5, <2>6, CalledIsLater, MemoryGrows DEF Shape
  <2> HIDE DEF a, c, skips, takes
  <2>14. Shape'
    BY <1>1, <1>3, <2>5, <2>8, <2>11, <2>12, <2>13, SyncOnlyShape
  <2>15. app'[p] = a
    BY <2>6, <2>8
  <2>16. \/ UNCHANGED store
         \/ MayWrite(store, owner) /\ may /\ store' = AfterMerge(store, owner, k, text)
    BY <2>1, <2>3 DEF takes
  <2> QED BY <1>1, <1>2, <1>3, <1>4, <1>5, <2>1, <2>2, <2>5, <2>8, <2>9, <2>11, <2>14, <2>15, <2>16
<1> QED BY <1>6, <1>7

\* What sync_drafts retries is a request of its own session.
LEMMA RetrySteps ==
    ASSUME Shape, NEW p \in Procs, NEW k \in Keys, RetryNext(p, k)
    PROVE  LET r == Asked(app[p].owner, k, sync[p].todo[k], None)
           IN  /\ Begin(<<p, 0>>, r) /\ r \in Relays(store)
               /\ <<p, 0>> \in Workers /\ app[p].live
               /\ request[<<p, 0>>].pc = "idle" /\ k \in RemoteKeys
<1>1. app[p].live /\ app[p].owner \in Owners /\ sync[p] \in Syncs(store)
  BY SyncsAreLive DEF RetryNext
<1>2. sync[p].todo \in Dues(store) /\ sync[p].todo[k] # NoOperation
  BY <1>1 DEF Syncs, RetryNext, Pending
<1>3. k \in RemoteKeys /\ sync[p].todo[k] \in Operation \intersect Issued(store)
  BY <1>2 DEF Dues, Issued
<1> QED BY <1>1, <1>3 DEF RetryNext, Asked, Relays, Workers

\* Where the sync task goes without calling the store: what it changes.
LEMMA SyncReads ==
    ASSUME Shape, NEW p \in Procs,
           TakeWork(p) \/ AskList(p) \/ ListArrives(p) \/ MergeEnds(p)
    PROVE  /\ UNCHANGED <<store, diskOk, web, clock, request, intent, author>>
           /\ app' = [app EXCEPT ![p] = app'[p]]
           /\ app'[p].owner = app[p].owner /\ app'[p].drafts = app[p].drafts
           /\ sync' = [sync EXCEPT ![p] = sync'[p]]
           /\ \/ sync'[p].list = NoDrafts
              \/ sync'[p].list = [k \in Keys |-> IF k \in RemoteKeys
                                    THEN web[app[p].owner][k].text ELSE None]
           /\ Shape'
<1>1. /\ app[p].live /\ app[p].owner \in Owners /\ app[p] \in Apps(store)
      /\ sync[p] \in Syncs(store) /\ store \in Stored
  BY SyncsAreLive DEF TakeWork, AskList, ListArrives, MergeEnds
<1>n. NoSync \in Syncs(store) /\ NoSync.list = NoDrafts /\ NoSync.todo = NoOperations
  BY <1>1, NothingIsShaped DEF NoSync
<1>m. app \in [Procs -> Apps(store)] /\ sync \in [Procs -> Syncs(store)] /\ intent \in [Keys -> Nat]
  BY DEF Shape, ShapeOK
<1>a. app = [app EXCEPT ![p] = app[p]]
  BY <1>m
<1>2. ASSUME UNCHANGED <<store, diskOk, web, clock, request, intent, author>>,
             NEW a \in Apps(store), a.live, a.owner = app[p].owner, a.drafts = app[p].drafts,
             app' = [app EXCEPT ![p] = a],
             NEW c \in Syncs(store), sync' = [sync EXCEPT ![p] = c],
             \/ c.list = NoDrafts
             \/ c.list = [k \in Keys |-> IF k \in RemoteKeys
                            THEN web[app[p].owner][k].text ELSE None]
      PROVE  /\ app' = [app EXCEPT ![p] = app'[p]]
             /\ app'[p].owner = app[p].owner /\ app'[p].drafts = app[p].drafts
             /\ sync' = [sync EXCEPT ![p] = sync'[p]]
             /\ \/ sync'[p].list = NoDrafts
                \/ sync'[p].list = [k \in Keys |-> IF k \in RemoteKeys
                                      THEN web[app[p].owner][k].text ELSE None]
             /\ Shape'
  <2>1. Called(store, store')
    BY <1>2 DEF Called
  <2>2. a \in Apps(store') /\ c \in Syncs(store') /\ intent' \in [Keys -> Nat]
    BY <1>2, <1>m
  <2>3. Shape'
    BY <1>1, <1>2, <2>1, <2>2, SyncOnlyShape
  <2>4. app'[p] = a /\ sync'[p] = c
    BY <1>2, <1>m
  <2> QED BY <1>2, <2>3, <2>4
<1>3. CASE TakeWork(p)
  <2> DEFINE c == IF Owns(store, app[p].owner)
                  THEN [NoSync EXCEPT !.pc = "retry", !.todo = store.operations] ELSE NoSync
  <2>1. store.operations \in Dues(store)
    BY FileOwes DEF Shape, FileOK
  <2>2. c \in Syncs(store) /\ c.list = NoDrafts
    BY <1>n, <2>1 DEF Syncs
  <2>3. UNCHANGED <<store, diskOk, web, clock, app, request, intent, author>>
        /\ sync' = [sync EXCEPT ![p] = c]
    BY <1>3 DEF TakeWork
  <2> HIDE DEF c
  <2> QED BY <1>1, <1>2, <1>a, <2>2, <2>3
<1>4. CASE AskList(p)
  <2> DEFINE c == IF Owns(store, app[p].owner)
                  THEN [NoSync EXCEPT !.pc = "asking", !.epoch = store.revision] ELSE NoSync
  <2>1. store.revision \in Revision
    BY <1>1 DEF Stored
  <2>2. c \in Syncs(store) /\ c.list = NoDrafts
    BY <1>n, <2>1 DEF Syncs
  <2>3. UNCHANGED <<store, diskOk, web, clock, app, request, intent, author>>
        /\ sync' = [sync EXCEPT ![p] = c]
    BY <1>4 DEF AskList
  <2> HIDE DEF c
  <2> QED BY <1>1, <1>2, <1>a, <2>2, <2>3
<1>5. CASE ListArrives(p)
  <2>0. UNCHANGED <<store, diskOk, web, clock, request, intent, author>>
    BY <1>5 DEF ListArrives
  <2>1. ASSUME NEW absent \in BOOLEAN, app' = [app EXCEPT ![p].relayAbsent = @ \/ absent],
               sync' = [sync EXCEPT ![p] = NoSync]
        PROVE  \E a \in Apps(store) : /\ a.live /\ a.owner = app[p].owner
                                      /\ a.drafts = app[p].drafts
                                      /\ app' = [app EXCEPT ![p] = a]
    <3> DEFINE flag == app[p].relayAbsent \/ absent
               a == [app[p] EXCEPT !.relayAbsent = flag]
    <3>1. flag \in BOOLEAN
      BY <1>1 DEF Apps
    <3>2. app' = [app EXCEPT ![p] = a]
      BY <1>m, <2>1
    <3> HIDE DEF flag
    <3>3. a \in Apps(store) /\ a.live /\ a.owner = app[p].owner /\ a.drafts = app[p].drafts
      BY <1>1, <3>1 DEF Apps
    <3> QED BY <3>2, <3>3
  <2>2. CASE \E absent \in {f = "missing" : f \in {"missing", "fail"} \cap Faults} :
                /\ app' = [app EXCEPT ![p].relayAbsent = @ \/ absent]
                /\ sync' = [sync EXCEPT ![p] = NoSync]
    <3>1. PICK absent \in BOOLEAN : /\ app' = [app EXCEPT ![p].relayAbsent = @ \/ absent]
                                    /\ sync' = [sync EXCEPT ![p] = NoSync]
      BY <2>2
    <3>2. PICK a \in Apps(store) : /\ a.live /\ a.owner = app[p].owner
                                   /\ a.drafts = app[p].drafts
                                   /\ app' = [app EXCEPT ![p] = a]
      BY <2>1, <3>1
    <3> QED BY <1>2, <1>n, <2>0, <3>1, <3>2
  <2>3. CASE /\ sync' = [sync EXCEPT ![p].pc = "listed",
                                     ![p].list = [k \in Keys |-> IF k \in RemoteKeys
                                                   THEN web[app[p].owner][k].text ELSE None]]
             /\ UNCHANGED app
    <3> DEFINE list == [k \in Keys |-> IF k \in RemoteKeys
                                       THEN web[app[p].owner][k].text ELSE None]
               c == [sync[p] EXCEPT !.pc = "listed", !.list = list]
    <3>1. list \in Lists
      BY <1>1 DEF Lists, Texts, Shape, ShapeOK, Sites
    <3>2. sync' = [sync EXCEPT ![p] = c]
      BY <1>m, <2>3 DEF Syncs
    <3> HIDE DEF list
    <3>3. c \in Syncs(store) /\ c.list = list
      BY <1>1, <3>1 DEF Syncs
    <3> HIDE DEF c
    <3> QED BY <1>1, <1>2, <1>a, <2>0, <2>3, <3>2, <3>3 DEF list
  <2> QED BY <1>5, <2>2, <2>3 DEF ListArrives
<1>6. CASE MergeEnds(p)
  <2> DEFINE fences == [k \in Keys |-> IF app[p].mutations[k] > sync[p].epoch
                                       THEN app[p].mutations[k] ELSE 0]
             a == [app[p] EXCEPT !.mutations = fences]
  <2>1. app' = [app EXCEPT ![p] = a] /\ sync' = [sync EXCEPT ![p] = NoSync]
        /\ UNCHANGED <<store, diskOk, web, clock, request, intent, author>>
    BY <1>m, <1>6 DEF MergeEnds, Apps
  <2>2. fences \in [Keys -> Nat]
    BY <1>1 DEF Apps
  <2> HIDE DEF fences
  <2>3. a \in Apps(store) /\ a.live /\ a.owner = app[p].owner /\ a.drafts = app[p].drafts
    BY <1>1, <2>2 DEF Apps
  <2> HIDE DEF a
  <2> QED BY <1>2, <1>n, <2>1, <2>3
<1>7. UNCHANGED <<store, diskOk, web, clock, request, intent, author>>
  BY DEF TakeWork, AskList, ListArrives, MergeEnds
<1> QED BY <1>3, <1>4, <1>5, <1>6, <1>7

LEMMA SyncShape ==
    ASSUME Shape, NEW p \in Procs, SyncStep(p)
    PROVE  Called(store, store') /\ Shape'
<1>1. CASE TakeWork(p) \/ AskList(p) \/ ListArrives(p) \/ MergeEnds(p)
  <2>1. UNCHANGED store /\ Shape'
    BY <1>1, SyncReads
  <2> QED BY <2>1 DEF Called
<1>2. ASSUME NEW k \in Keys, SaveShield(p, k)
      PROVE  Called(store, store') /\ Shape'
  BY <1>2, SaveShieldSteps
<1>3. ASSUME NEW k \in Keys, RetryNext(p, k)
      PROVE  Called(store, store') /\ Shape'
  <2> DEFINE r == Asked(app[p].owner, k, sync[p].todo[k], None)
             w == <<p, 0>>
  <2>1. Begin(w, r) /\ r \in Relays(store) /\ w \in Workers /\ app[w[1]].live
    BY <1>3, RetrySteps
  <2> HIDE DEF r, w
  <2>2. UNCHANGED store /\ Shape'
    BY <2>1, BeginShape
  <2> QED BY <2>2 DEF Called
<1>4. ASSUME NEW k \in Keys, Merge(p, k)
      PROVE  Called(store, store') /\ Shape'
  BY <1>4, MergeSyncSteps
<1> QED BY <1>1, <1>2, <1>3, <1>4 DEF SyncStep

LEMMA BrowserShape ==
    ASSUME Shape, DiskChanges \/ BrowserStep
    PROVE  Called(store, store') /\ Shape'
<1>1. CASE DiskChanges
  <2>1. /\ UNCHANGED <<store, web, clock, app, sync, request, intent, author>>
        /\ diskOk' \in BOOLEAN
    BY <1>1 DEF DiskChanges
  <2> QED BY <2>1, ShapeStep DEF Called, Shape, ShapeOK, SessionsOK
<1>2. ASSUME NEW u \in Owners, NEW k \in RemoteKeys, BrowserSaves(u, k) \/ BrowserDeletes(u, k)
      PROVE  Called(store, store') /\ Shape'
  <2>1. PICK text \in {None, clock + 1} :
          /\ clock + 1 \in Words /\ clock' = clock + 1
          /\ web' = [web EXCEPT ![u][k] = [text |-> text, tick |-> clock + 1]]
          /\ UNCHANGED <<store, diskOk, app, sync, request, intent, author>>
    BY <1>2 DEF BrowserSaves, BrowserDeletes
  <2>2. clock' \in Nat /\ text \in Words \union {None} /\ clock + 1 \in Nat
    BY <2>1, WordsAssumption DEF Shape, ShapeOK
  <2>3. web' \in Sites
    <3>1. web' = [web EXCEPT ![u] = [web[u] EXCEPT ![k] = [text |-> text, tick |-> clock + 1]]]
      BY <2>1 DEF Shape, ShapeOK, Sites
    <3>2. [text |-> text, tick |-> clock + 1] \in [text : Words \union {None}, tick : Nat]
      BY <2>2
    <3> QED BY <3>1, <3>2 DEF Shape, ShapeOK, Sites
  <2> QED BY <2>1, <2>2, <2>3, ShapeStep DEF Called, Shape, ShapeOK, SessionsOK
<1> QED BY <1>1, <1>2 DEF BrowserStep

----------------------------------------------------------------------------
LEMMA ShapeFirst == Init => Shape
<1> SUFFICES ASSUME Init PROVE Shape
  OBVIOUS
<1>1. Sound(Missing) /\ Missing \in Stored
  BY MissingIsSound DEF Sound
<1>2. Within(Missing)
  BY NoneHeld DEF Missing
<1>3. FileOK
  BY <1>1, <1>2 DEF Init, FileOK, Ours, Missing
<1>4. ShapeOK
  BY <1>1, NothingIsShaped DEF Init, ShapeOK, Sites, NoWebDraft
<1> QED BY <1>3, <1>4 DEF Init, Shape, SessionsOK, Off

LEMMA StepShape == Shape /\ [Next]_vars => Called(store, store') /\ Shape'
<1> SUFFICES ASSUME Shape, [Next]_vars
             PROVE  Called(store, store') /\ Shape'
  OBVIOUS
<1>1. CASE UNCHANGED vars
  BY <1>1 DEF vars, Called, Shape, FileOK, ShapeOK, SessionsOK
<1>2. CASE Next
  BY <1>2, BrowserShape, RequestShape, SyncShape, SessionShape, ComposerShape DEF Next
<1> QED BY <1>1, <1>2

LEMMA AlwaysShape == Spec => []Shape
BY ShapeFirst, StepShape, PTL DEF Spec

\* Every variable keeps the shape its struct or task gives it, and no task or
\* request outlives the session that spawned it.
THEOREM TypeCorrect == Spec => []TypeOK
<1>1. Shape => TypeOK
  BY OwnersAssumption DEF Shape, FileOK, ShapeOK, SessionsOK, TypeOK, Sound, Apps, Syncs, Requests,
     Relays, Dues, Issued, Texts, Lists, NoRequest
<1> QED BY <1>1, AlwaysShape, PTL

----------------------------------------------------------------------------
\* The calls of DraftStore are those of DraftFile: File has operators of its
\* own, which mean the same on a file of this build.
LEMMA FileCounts ==
    ASSUME NEW S
    PROVE  File!Cardinality(S) = Cardinality(S)
BY DEF File!Cardinality, Cardinality

LEMMA FileReads ==
    ASSUME NEW s, Ours(s)
    PROVE  File!ReadLocked(s) = s /\ File!Readable(s)
BY DEF Ours, File!ReadLocked, File!Readable

LEMMA FileOpens ==
    ASSUME NEW s, Ours(s), NEW owner
    PROVE  File!Opened(s, owner) = Opened(s, owner)
<1>1. File!ReadLocked(s) = s /\ ReadLocked(s) = s
  BY FileReads, OursIsReadAsItIs
<1>2. File!Adopted(s, owner) = Adopted(s, owner)
  BY DEF File!Adopted, Adopted
<1> QED BY <1>1, <1>2, Zenon DEF File!Opened, Opened

LEMMA FileAllows ==
    ASSUME NEW s, Ours(s), NEW owner
    PROVE  /\ File!MayWrite(s, owner) <=> MayWrite(s, owner)
           /\ File!Owns(s, owner) <=> Owns(s, owner)
           /\ \A key, observed : File!MayMerge(s, owner, key, observed) <=> MayMerge(s, owner, key, observed)
<1>1. File!ReadLocked(s) = ReadLocked(s) /\ File!Readable(s) /\ Readable(s)
  BY FileReads, OursIsReadAsItIs
<1>2. File!Opened(s, owner) = Opened(s, owner)
  BY FileOpens
<1>3. File!MayWrite(s, owner) <=> MayWrite(s, owner)
  BY <1>1, <1>2, Zenon DEF File!MayWrite, MayWrite, File!CanMint, CanMint
<1>4. File!Owns(s, owner) <=> Owns(s, owner)
  BY <1>1, Zenon DEF File!Owns, Owns
<1>5. ASSUME NEW key, NEW observed
      PROVE  File!MayMerge(s, owner, key, observed) <=> MayMerge(s, owner, key, observed)
  BY <1>2, Zenon DEF File!MayMerge, MayMerge, File!Owed, Owed, File!NoOperation, NoOperation
<1> QED BY <1>3, <1>4, <1>5

LEMMA FileTrims ==
    ASSUME NEW s, NEW protect
    PROVE  File!TrimDrafts(s, protect) = TrimDrafts(s, protect)
<1>1. File!Held(s) = Held(s)
  BY Zenon DEF File!Held, Held, File!None
<1>2. ASSUME NEW j, NEW k
      PROVE  File!Before(s, protect, j, k) <=> Before(s, protect, j, k)
  BY Zenon DEF File!Before, Before, File!Owed, Owed, File!NoOperation, NoOperation
<1>3. File!Evicted(s, protect) = Evicted(s, protect)
  <2>1. ASSUME NEW k
        PROVE  File!Cardinality({j \in File!Held(s) : File!Before(s, protect, j, k)}) =
               Cardinality({j \in Held(s) : Before(s, protect, j, k)})
    <3>1. {j \in File!Held(s) : File!Before(s, protect, j, k)} =
          {j \in Held(s) : Before(s, protect, j, k)}
      BY <1>1, <1>2
    <3> QED BY <3>1, FileCounts
  <2>2. ASSUME NEW k
        PROVE  k \in File!Evicted(s, protect) <=> k \in Evicted(s, protect)
    BY <1>1, <2>1, Zenon DEF File!Evicted, Evicted
  <2>3. File!Evicted(s, protect) \subseteq Evicted(s, protect)
    BY <2>2
  <2>4. Evicted(s, protect) \subseteq File!Evicted(s, protect)
    BY <2>2
  <2> QED BY <2>3, <2>4
<1> QED BY <1>3, Zenon DEF File!TrimDrafts, TrimDrafts, File!None, File!NoOperation, NoOperation

\* Each call of DraftFile is the call of DraftStore.
LEMMA FileCalls ==
    ASSUME NEW s, Ours(s), NEW owner, NEW key, NEW text
    PROVE  /\ File!AfterActivate(s, owner) = AfterActivate(s, owner)
           /\ File!AfterErase(s, owner) = AfterErase(s, owner)
           /\ File!AfterApply(s, owner, key, text) = AfterApply(s, owner, key, text)
           /\ File!AfterMerge(s, owner, key, text) = AfterMerge(s, owner, key, text)
           /\ \A expected : File!AfterSettle(s, key, expected) = AfterSettle(s, key, expected)
<1>1. File!ReadLocked(s) = ReadLocked(s) /\ File!Opened(s, owner) = Opened(s, owner)
  BY FileReads, OursIsReadAsItIs, FileOpens
<1>2. /\ File!NoDrafts = NoDrafts /\ File!NoOperations = NoOperations
      /\ File!NoRevisions = NoRevisions /\ File!NoOperation = NoOperation
  BY Zenon DEF File!NoDrafts, NoDrafts, File!NoOperations, NoOperations, File!NoRevisions,
     NoRevisions, File!NoOperation, NoOperation, File!None
<1>3. File!AfterActivate(s, owner) = AfterActivate(s, owner)
  BY <1>1, <1>2, Zenon DEF File!AfterActivate, AfterActivate
<1>4. File!AfterErase(s, owner) = AfterErase(s, owner)
  BY <1>1, <1>2, Zenon DEF File!AfterErase, AfterErase
<1>5. ASSUME NEW f
      PROVE  /\ File!NextRevision(f, key) = NextRevision(f, key)
             /\ File!Persistable(text) <=> Persistable(text)
             /\ File!TrimDrafts(f, FALSE) = TrimDrafts(f, FALSE)
             /\ File!TrimDrafts(f, TRUE) = TrimDrafts(f, TRUE)
  BY FileTrims DEF File!NextRevision, NextRevision, File!Persistable, Persistable
<1>6. File!MintedBy(s, owner, text) = MintedBy(s, owner, text)
  BY <1>1, Zenon DEF File!MintedBy, MintedBy, File!None
<1>7. File!AfterApply(s, owner, key, text) = AfterApply(s, owner, key, text)
  BY <1>1, <1>2, <1>5, <1>6, Zenon DEF File!AfterApply, AfterApply, File!None
<1>8. File!AfterMerge(s, owner, key, text) = AfterMerge(s, owner, key, text)
  BY <1>1, <1>5, Zenon DEF File!AfterMerge, AfterMerge, File!None
<1>9. \A expected : File!AfterSettle(s, key, expected) = AfterSettle(s, key, expected)
  BY <1>1, <1>2, Zenon DEF File!AfterSettle, AfterSettle
<1> QED BY <1>3, <1>4, <1>7, <1>8, <1>9

\* What one call makes of the file is a step of DraftStore.
LEMMA CallsAreStoreSteps ==
    ASSUME Ours(store), Called(store, store')
    PROVE  [File!Next]_(File!vars)
<1>r. File!Readable(store)
  BY FileReads
<1>1. CASE store' = store
  BY <1>1 DEF File!vars
<1>2. ASSUME NEW owner \in Owners, store' = AfterActivate(store, owner)
      PROVE  File!Next
  BY <1>r, <1>2, FileCalls DEF File!Next, File!Activate
<1>3. ASSUME NEW owner \in Owners, store' = AfterErase(store, owner)
      PROVE  File!Next
  BY <1>r, <1>3, FileCalls DEF File!Next, File!Erase
<1>4. ASSUME NEW owner \in Owners, NEW key \in Keys, NEW text \in Words \union {None},
             MayWrite(store, owner), store' = AfterApply(store, owner, key, text)
      PROVE  File!Next
  <2>1. File!Apply(owner, key, text)
    BY <1>4, FileCalls, FileAllows DEF File!Apply
  <2> QED BY <2>1 DEF File!Next, File!None
<1>5. ASSUME NEW owner \in Owners, NEW key \in RemoteKeys, NEW expected \in Operation,
             Owns(store, owner), store' = AfterSettle(store, key, expected)
      PROVE  File!Next
  <2>1. File!Settle(owner, key, expected)
    BY <1>5, FileCalls, FileAllows DEF File!Settle
  <2>2. expected \in File!Operation
    BY DEF File!Operation, Operation, File!Revision, Revision, File!Kinds, Kinds
  <2> QED BY <2>1, <2>2 DEF File!Next
<1>6. ASSUME NEW owner \in Owners, NEW key \in RemoteKeys, NEW text \in Words,
             NEW observed \in Revision,
             MayWrite(store, owner), MayMerge(store, owner, key, observed),
             store' = AfterMerge(store, owner, key, text)
      PROVE  File!Next
  <2>1. File!MergeRemote(owner, key, text, observed)
    BY <1>6, FileCalls, FileAllows DEF File!MergeRemote
  <2>2. observed \in File!Revision
    BY DEF File!Revision, Revision
  <2> QED BY <2>1, <2>2 DEF File!Next
<1> QED BY <1>1, <1>2, <1>3, <1>4, <1>5, <1>6 DEF Called

\* The file starts missing, which DraftStore allows.
LEMMA FileStarts == Init => File!Init
<1>1. File!Missing = Missing
  BY Zenon DEF File!Missing, Missing, File!NoDrafts, NoDrafts, File!NoRevisions, NoRevisions,
     File!NoOperations, NoOperations, File!NoOperation, NoOperation, File!None
<1> QED BY <1>1 DEF Init, File!Init, File!FirstFiles

\* However many terminals share the file, whatever their sessions, syncs and
\* requests do, and whatever fails, the file only ever goes through the calls
\* of DraftStore: what is proved of that module holds of this one.
THEOREM ImplementsTheStore == Spec => UsesTheStore
<1>1. Init => File!Init
  BY FileStarts
<1>2. Shape /\ [Next]_vars => [File!Next]_(File!vars)
  BY StepShape, CallsAreStoreSteps DEF Shape, FileOK
<1> QED BY <1>1, <1>2, AlwaysShape, PTL DEF Spec, UsesTheStore, File!Spec

----------------------------------------------------------------------------
\* Whose words are where.
LEMMA Later ==
    ASSUME clock \in Nat, NEW now \in {clock, clock + 1},
           NEW text \in Words \union {None}, NEW owner, WrittenBy(text, owner, clock)
    PROVE  WrittenBy(text, owner, now)
<1>1. text \in Nat
  BY WordsAssumption
<1> QED BY <1>1 DEF WrittenBy

LEMMA NoText == \A owner, now : WrittenBy(None, owner, now)
BY DEF WrittenBy

\* What was written by now was written by any later moment.
LEMMA WordsAge ==
    ASSUME Shape, WordsOK, NEW now \in {clock, clock + 1}
    PROVE  WordsAt(now)
<1>c. clock \in Nat
  BY DEF Shape, ShapeOK
<1>1. \A k \in Keys : WrittenBy(store.drafts[k], store.owner, now)
  <2>1. \A k \in Keys : store.drafts[k] \in Words \union {None}
    BY DEF Shape, FileOK, Sound, Stored
  <2> QED BY <1>c, <2>1, Later DEF WordsOK, WordsAt
<1>2. \A u \in Owners, k \in RemoteKeys : WrittenBy(web[u][k].text, u, now)
  <2>1. \A u \in Owners, k \in RemoteKeys : web[u][k].text \in Words \union {None}
    BY DEF Shape, ShapeOK, Sites
  <2> QED BY <1>c, <2>1, Later DEF WordsOK, WordsAt
<1>3. \A p \in Procs, k \in Keys : /\ WrittenBy(app[p].drafts[k], app[p].owner, now)
                                   /\ WrittenBy(sync[p].list[k], app[p].owner, now)
  <2>1. \A p \in Procs, k \in Keys : /\ app[p].drafts[k] \in Words \union {None}
                                     /\ sync[p].list[k] \in Words \union {None}
    BY DEF Shape, ShapeOK, Apps, Syncs, Texts, Lists
  <2> QED BY <1>c, <2>1, Later DEF WordsOK, WordsAt
<1>4. \A w \in Workers : WrittenBy(request[w].text, request[w].owner, now)
  <2>1. \A w \in Workers : request[w].text \in Words \union {None}
    BY DEF Shape, ShapeOK, Requests, Relays, NoRequest
  <2> QED BY <1>c, <2>1, Later DEF WordsOK, WordsAt
<1> QED BY <1>1, <1>2, <1>3, <1>4 DEF WordsAt

\* A step of p keeps the words where they belong if p's share of it does.
LEMMA WordsStep ==
    ASSUME Shape, WordsOK, NEW p \in Procs,
           author' = author, clock' \in {clock, clock + 1},
           \A k \in Keys : WrittenBy(store'.drafts[k], store'.owner, clock'),
           \A u \in Owners, k \in RemoteKeys : WrittenBy(web'[u][k].text, u, clock'),
           \A q \in Procs \ {p} : app'[q] = app[q] /\ sync'[q] = sync[q],
           \A k \in Keys : /\ WrittenBy(app'[p].drafts[k], app'[p].owner, clock')
                           /\ WrittenBy(sync'[p].list[k], app'[p].owner, clock'),
           \A w \in Workers : WrittenBy(request'[w].text, request'[w].owner, clock')
    PROVE  WordsOK'
<1>1. WordsAt(clock')
  BY WordsAge
<1>2. ASSUME NEW q \in Procs, NEW k \in Keys
      PROVE  /\ WrittenBy(app'[q].drafts[k], app'[q].owner, clock')
             /\ WrittenBy(sync'[q].list[k], app'[q].owner, clock')
  <2>1. CASE q = p
    BY <2>1
  <2>2. CASE q # p
    <3>1. app'[q] = app[q] /\ sync'[q] = sync[q]
      BY <2>2
    <3> QED BY <1>1, <3>1 DEF WordsAt
  <2> QED BY <2>1, <2>2
<1> QED BY <1>2 DEF WordsOK, WordsAt, WrittenBy

\* persist_draft puts words into a file of their own account.
LEMMA PersistWords ==
    ASSUME Shape, NEW a \in Apps(store), a.owner \in Owners, NEW k \in Keys, NEW now,
           \A j \in Keys : WrittenBy(store.drafts[j], store.owner, now),
           WrittenBy(a.drafts[k], a.owner, now)
    PROVE  LET t == Persisted(a, k)
           IN  \A j \in Keys : WrittenBy(t.drafts[j], t.owner, now)
<1> DEFINE t == Persisted(a, k)
<1>1. CASE ~Saves(a)
  BY <1>1 DEF Persisted
<1>2. CASE Saves(a)
  <2>1. a.drafts[k] \in Words \union {None}
    BY DEF Apps, Texts
  <2>2. MayWrite(store, a.owner) /\ t = AfterApply(store, a.owner, k, a.drafts[k])
    BY <1>2 DEF Saves, Persisted
  <2>3. /\ store.owner \in {a.owner, NoOwner} /\ t.owner = a.owner
        /\ Rewrites(store, t, k) /\ t.drafts[k] \in {a.drafts[k], None}
    BY <2>1, <2>2, ApplyEffect DEF Shape, FileOK
  <2> HIDE DEF t
  <2>4. store.owner = NoOwner => \A j \in Keys : store.drafts[j] = None
    BY DEF Shape, FileOK, Sound, Emptied, NoDrafts
  <2>5. ASSUME NEW j \in Keys
        PROVE  WrittenBy(t.drafts[j], t.owner, now)
    <3>1. CASE t.drafts[j] = None
      BY <3>1, NoText
    <3>2. CASE j = k
      BY <2>3, <3>1, <3>2, NoText
    <3>3. CASE j # k /\ t.drafts[j] # None
      <4>1. t.drafts[j] = store.drafts[j]
        BY <2>3, <3>3 DEF Rewrites
      <4>2. store.owner = a.owner
        BY <2>3, <2>4, <3>3, <4>1
      <4> QED BY <2>3, <4>1, <4>2
    <3> QED BY <3>1, <3>2, <3>3
  <2> QED BY <2>5 DEF t
<1> QED BY <1>1, <1>2

\* stash_draft_impl and discard_draft_local.
LEMMA KeepWords ==
    ASSUME Shape, WordsOK, NEW p \in Procs, app[p].live, NEW k \in Keys,
           NEW text \in {None, clock + 1}, Keep(p, k, text)
    PROVE  LET b == Keeping(p, k, text)
           IN  /\ \A j \in Keys : WrittenBy(store'.drafts[j], store'.owner, clock')
               /\ \A j \in Keys : WrittenBy(b.drafts[j], b.owner, clock')
               /\ b.owner = app[p].owner /\ clock' = clock + 1
<1> DEFINE a == [app[p] EXCEPT !.drafts[k] = text]
           b == Keeping(p, k, text)
<1>1. /\ b.owner = app[p].owner /\ text \in Words \union {None} /\ clock' = clock + 1
      /\ \A j \in Keys : b.drafts[j] = IF j = k THEN text ELSE app[p].drafts[j]
  BY KeepSteps
<1>2. WordsAt(clock') /\ clock \in Nat
  BY <1>1, WordsAge DEF Shape, ShapeOK
<1>3. app[p] \in Apps(store) /\ app[p].owner \in Owners
  BY DEF Shape, ShapeOK, SessionsOK
<1>4. a.owner = app[p].owner /\ a.drafts = [app[p].drafts EXCEPT ![k] = text] /\ a.drafts[k] = text
  BY <1>3 DEF Apps, Texts
<1>5. a \in Apps(store)
  <2>1. [app[p].drafts EXCEPT ![k] = text] \in Texts
    BY <1>1, <1>3 DEF Apps, Texts
  <2>2. a = [app[p] EXCEPT !.drafts = [app[p].drafts EXCEPT ![k] = text]]
    BY <1>3 DEF Apps
  <2> QED BY <1>3, <2>1, <2>2 DEF Apps
<1>6. store' = Persisted(a, k) /\ (text # None => author[text] = a.owner)
  BY DEF Keep
<1> HIDE DEF a, b
<1>7. WrittenBy(text, app[p].owner, clock')
  <2>1. text # None => author[text] = app[p].owner
    BY <1>4, <1>6
  <2>2. text # None => text <= clock'
    BY <1>1, <1>2
  <2> QED BY <2>1, <2>2 DEF WrittenBy
<1>8. \A j \in Keys : WrittenBy(store'.drafts[j], store'.owner, clock')
  <2>1. \A j \in Keys : WrittenBy(store.drafts[j], store.owner, clock')
    BY <1>2 DEF WordsAt
  <2> QED BY <1>3, <1>4, <1>5, <1>6, <1>7, <2>1, PersistWords
<1>9. \A j \in Keys : WrittenBy(b.drafts[j], b.owner, clock')
  BY <1>1, <1>2, <1>7 DEF WordsAt
<1> QED BY <1>1, <1>8, <1>9 DEF b

LEMMA ComposerWords ==
    ASSUME Shape, WordsOK, NEW p \in Procs, ComposerStep(p)
    PROVE  WordsOK'
<1>1. PICK k \in Keys, text \in {None, clock + 1} :
        /\ app[p].live /\ Keep(p, k, text)
        /\ app' = [app EXCEPT ![p] = Keeping(p, k, text)]
        /\ RelayDraft(p, k, Keeping(p, k, text)) \/ UNCHANGED request
        /\ UNCHANGED <<diskOk, web, sync, author>>
  BY ComposerSteps
<1> DEFINE b == Keeping(p, k, text)
<1>2. /\ \A j \in Keys : WrittenBy(store'.drafts[j], store'.owner, clock')
      /\ \A j \in Keys : WrittenBy(b.drafts[j], b.owner, clock')
      /\ b.owner = app[p].owner /\ clock' = clock + 1
  BY <1>1, KeepWords
<1>3. /\ Called(store, store') /\ b \in Apps(store')
      /\ k \in RemoteKeys => b.operations[k] \in Operation
  BY <1>1, KeepSteps
<1>4. app' = [app EXCEPT ![p] = b]
  BY <1>1
<1>5. app'[p] = b /\ \A q \in Procs \ {p} : app'[q] = app[q]
  BY <1>4 DEF Shape, ShapeOK
<1> HIDE DEF b
<1>6. WordsAt(clock')
  BY <1>2, WordsAge
<1>7. b.owner \in Owners
  BY <1>1, <1>2 DEF Shape, SessionsOK
<1>8. ASSUME NEW w \in Workers
      PROVE  WrittenBy(request'[w].text, request'[w].owner, clock')
  <2>1. CASE request'[w] = request[w]
    BY <1>6, <2>1 DEF WordsAt
  <2>2. CASE request'[w] # request[w]
    <3>1. RelayDraft(p, k, b)
      BY <1>1, <2>2 DEF b
    <3>2. request'[w] = Asked(b.owner, k, b.operations[k], b.drafts[k])
      BY <1>3, <1>7, <2>2, <3>1, RelayShape
    <3> QED BY <1>2, <3>2 DEF Asked
  <2> QED BY <2>1, <2>2
<1>9. \A j \in Keys : WrittenBy(sync'[p].list[j], app'[p].owner, clock')
  BY <1>1, <1>2, <1>5, <1>6 DEF WordsAt
<1>10. \A u \in Owners, j \in RemoteKeys : WrittenBy(web'[u][j].text, u, clock')
  BY <1>1, <1>6 DEF WordsAt
<1>11. author' = author /\ sync' = sync /\ clock' \in {clock, clock + 1}
  BY <1>1, <1>2
<1> QED BY <1>2, <1>5, <1>8, <1>9, <1>10, <1>11, WordsStep

LEMMA NoWords ==
    ASSUME NEW k \in Keys, NEW owner, NEW now
    PROVE  WrittenBy(NoDrafts[k], owner, now)
BY DEF WrittenBy, NoDrafts

LEMMA GoLiveWords ==
    ASSUME Shape, WordsOK, NEW p \in Procs, NEW u \in Owners, GoLive(p, u)
    PROVE  WordsOK'
<1>1. /\ store' = store \/ (store'.owner = u /\ Blank(store'))
      /\ app' = [app EXCEPT ![p] = app'[p]] /\ app'[p].owner = u
      /\ \/ app'[p].drafts = app[p].drafts /\ app[p].owner = u
         \/ app'[p].drafts = store'.drafts /\ store'.owner = u
         \/ app'[p].drafts = NoDrafts
      /\ sync' = [sync EXCEPT ![p] = sync'[p]] /\ sync'[p].list = NoDrafts
      /\ request' = Idled(p) \/ UNCHANGED request
      /\ UNCHANGED <<diskOk, web, clock, author>>
  BY GoLiveSteps
<1>2. WordsAt(clock) /\ clock' \in {clock, clock + 1}
  BY <1>1 DEF WordsOK
<1>3. \A k \in Keys : WrittenBy(store'.drafts[k], store'.owner, clock')
  <2>1. CASE store' = store
    BY <1>1, <1>2, <2>1 DEF WordsAt
  <2>2. CASE Blank(store')
    BY <2>2, NoWords DEF Blank
  <2> QED BY <1>1, <2>1, <2>2
<1>4. \A k \in Keys : /\ WrittenBy(app'[p].drafts[k], app'[p].owner, clock')
                      /\ WrittenBy(sync'[p].list[k], app'[p].owner, clock')
  BY <1>1, <1>2, <1>3, NoWords DEF WordsAt
<1>5. \A w \in Workers : WrittenBy(request'[w].text, request'[w].owner, clock')
  BY <1>1, <1>2, NoText DEF WordsAt, Idled, NoRequest
<1>6. \A q \in Procs \ {p} : app'[q] = app[q] /\ sync'[q] = sync[q]
  BY <1>1 DEF Shape, ShapeOK
<1>7. \A v \in Owners, k \in RemoteKeys : WrittenBy(web'[v][k].text, v, clock')
  BY <1>1, <1>2 DEF WordsAt
<1> QED BY <1>1, <1>2, <1>3, <1>4, <1>5, <1>6, <1>7, WordsStep

\* The words of a session that ends.
LEMMA EndsWords ==
    ASSUME Shape, WordsOK, NEW p \in Procs, EndsTasks(p), NEW a, app' = [app EXCEPT ![p] = a],
           \A k \in Keys : WrittenBy(store'.drafts[k], store'.owner, clock'),
           \A k \in Keys : WrittenBy(a.drafts[k], a.owner, clock'),
           clock' \in {clock, clock + 1}, UNCHANGED <<web, author>>
    PROVE  WordsOK'
<1>1. WordsAt(clock')
  BY WordsAge
<1>2. /\ app'[p] = a /\ sync'[p] = NoSync
      /\ \A q \in Procs \ {p} : app'[q] = app[q] /\ sync'[q] = sync[q]
      /\ \A w \in Workers : request'[w] \in {request[w], NoRequest}
  BY DEF Shape, ShapeOK, EndsTasks, Idled
<1>3. \A k \in Keys : WrittenBy(sync'[p].list[k], app'[p].owner, clock')
  BY <1>2, NoWords DEF NoSync
<1>4. \A w \in Workers : WrittenBy(request'[w].text, request'[w].owner, clock')
  BY <1>1, <1>2, NoText DEF WordsAt, NoRequest
<1>5. \A u \in Owners, k \in RemoteKeys : WrittenBy(web'[u][k].text, u, clock')
  BY <1>1 DEF WordsAt
<1> QED BY <1>2, <1>3, <1>4, <1>5, WordsStep

LEMMA SessionWords ==
    ASSUME Shape, WordsOK, NEW p \in Procs, SessionStep(p)
    PROVE  WordsOK'
<1>w. WordsAt(clock)
  BY DEF WordsOK
<1>1. ASSUME NEW a, app[p].live, Leaving(p, a)
      PROVE  /\ \A k \in Keys : WrittenBy(store'.drafts[k], store'.owner, clock')
             /\ \A k \in Keys : WrittenBy(a.drafts[k], a.owner, clock')
             /\ clock' \in {clock, clock + 1}
             /\ a \in Apps(store')
  <2>0. a \in Apps(store')
    BY <1>1, LeavingSteps
  <2>1. CASE a = app[p] /\ UNCHANGED <<store, intent, clock>>
    BY <1>w, <2>0, <2>1 DEF WordsAt
  <2>2. ASSUME NEW k \in Keys, NEW text \in {None, clock + 1}, a = Keeping(p, k, text),
               Keep(p, k, text)
        PROVE  /\ \A j \in Keys : WrittenBy(store'.drafts[j], store'.owner, clock')
               /\ \A j \in Keys : WrittenBy(a.drafts[j], a.owner, clock')
               /\ clock' = clock + 1
    BY <1>1, <2>2, KeepWords
  <2> QED BY <1>1, <2>0, <2>1, <2>2 DEF Leaving
<1>2. CASE EndSession(p)
  <2>1. PICK a \in Memories(p) : Leaving(p, a) /\ app' = [app EXCEPT ![p] = [a EXCEPT !.live = FALSE]]
    BY <1>2 DEF EndSession
  <2>2. app[p].live /\ EndsTasks(p) /\ UNCHANGED <<diskOk, web, author>>
    BY <1>2 DEF EndSession, Attentive
  <2>3. /\ \A k \in Keys : WrittenBy(store'.drafts[k], store'.owner, clock')
        /\ \A k \in Keys : WrittenBy(a.drafts[k], a.owner, clock')
        /\ clock' \in {clock, clock + 1} /\ a \in Apps(store')
    BY <1>1, <2>1, <2>2
  <2> DEFINE c == [a EXCEPT !.live = FALSE]
  <2>4. c.drafts = a.drafts /\ c.owner = a.owner
    BY <2>3 DEF Apps
  <2>5. app' = [app EXCEPT ![p] = c]
    BY <2>1
  <2> HIDE DEF c
  <2> QED BY <2>2, <2>3, <2>4, <2>5, EndsWords
<1>3. CASE SignOut(p)
  <2>1. PICK a \in Apps(store') : app' = [app EXCEPT ![p] = a] /\ a.drafts = NoDrafts
    BY <1>3, SignOutSteps
  <2>2. /\ store' = store \/ Blank(store')
        /\ EndsTasks(p) /\ UNCHANGED <<diskOk, web, clock, author>>
    BY <1>3, SignOutSteps
  <2>3. \A k \in Keys : WrittenBy(store'.drafts[k], store'.owner, clock')
    BY <1>w, <2>2, NoWords DEF WordsAt, Blank
  <2> QED BY <2>1, <2>2, <2>3, NoWords, EndsWords
<1>4. CASE Exit(p)
  <2>1. /\ \A k \in Keys : WrittenBy(store'.drafts[k], store'.owner, clock')
        /\ clock' \in {clock, clock + 1}
    <3>1. CASE UNCHANGED <<store, intent, clock>>
      BY <1>w, <3>1 DEF WordsAt
    <3>2. CASE Attentive(p) /\ \E a \in Memories(p) \ {app[p]} : Leaving(p, a)
      BY <1>1, <3>2 DEF Attentive
    <3> QED BY <1>4, <3>1, <3>2 DEF Exit
  <2>2. \A k \in Keys : WrittenBy(Off.drafts[k], Off.owner, clock')
    BY NoWords DEF Off
  <2> QED BY <1>4, <2>1, <2>2, EndsWords DEF Exit
<1> QED BY <1>2, <1>3, <1>4, GoLiveWords DEF SessionStep

\* A task that ends sends nothing, and what it leaves in memory was there.
LEMMA TaskEndsWords ==
    ASSUME Shape, WordsOK, Called(store, store'), NEW w \in Workers, NEW r, r.key \in RemoteKeys,
           NEW retired, NEW missing \in BOOLEAN, app[w[1]].live, TaskEnds(w, r, retired, missing),
           store'.drafts = store.drafts, store'.owner = store.owner,
           UNCHANGED <<web, clock, author>>
    PROVE  WordsOK'
<1>1. /\ \A p \in Procs : /\ app'[p].owner = app[p].owner /\ app'[p].drafts = app[p].drafts
                          /\ sync'[p].list \in {sync[p].list, NoDrafts}
      /\ request' = [request EXCEPT ![w] = NoRequest]
  BY TaskEndsShape
<1>2. WordsAt(clock)
  BY DEF WordsOK
<1>3. \A v \in Workers : WrittenBy(request'[v].text, request'[v].owner, clock)
  <2>1. \A v \in Workers : request'[v] \in {request[v], NoRequest}
    BY <1>1 DEF Shape, ShapeOK
  <2> QED BY <1>2, <2>1, NoText DEF WordsAt, NoRequest
<1>4. \A p \in Procs, k \in Keys : /\ WrittenBy(app'[p].drafts[k], app'[p].owner, clock)
                                   /\ WrittenBy(sync'[p].list[k], app'[p].owner, clock)
  BY <1>1, <1>2, NoWords DEF WordsAt
<1> QED BY <1>2, <1>3, <1>4 DEF WordsOK, WordsAt, WrittenBy

\* A task that has taken its slot's lock sends words of its own account.
LEMMA BeginWords ==
    ASSUME Shape, WordsOK, NEW w \in Workers, app[w[1]].live, NEW r \in Relays(store),
           WrittenBy(r.text, r.owner, clock), Begin(w, r)
    PROVE  WordsOK'
<1>1. UNCHANGED <<store, diskOk, web, clock, intent, author>>
  BY BeginShape
<1>r. r.key \in RemoteKeys /\ r.key \in Keys
  BY KeysAssumption DEF Relays
<1>2. CASE TaskEnds(w, r, Owns(store, r.owner), FALSE)
  <2>1. Called(store, store')
    BY <1>1 DEF Called
  <2> QED BY <1>1, <1>2, <1>r, <2>1, TaskEndsWords
<1>3. CASE ~TaskEnds(w, r, Owns(store, r.owner), FALSE)
  <2>1. /\ Owns(store, r.owner) /\ UNCHANGED <<app, sync>>
        /\ request' = [request EXCEPT ![w] = request'[w]]
        /\ request'[w].owner = r.owner
        /\ request'[w].text \in {None, store.drafts[r.key], r.text}
    BY <1>3, BeginShape
  <2>2. store.owner = r.owner
    BY <2>1, OursIsReadAsItIs DEF Owns, Shape, FileOK
  <2>3. WrittenBy(request'[w].text, request'[w].owner, clock)
    BY <1>r, <2>1, <2>2, NoText DEF WordsOK, WordsAt
  <2>4. \A v \in Workers : v # w => request'[v] = request[v]
    BY <2>1 DEF Shape, ShapeOK
  <2>5. \A v \in Workers : WrittenBy(request'[v].text, request'[v].owner, clock)
    BY <2>3, <2>4 DEF WordsOK, WordsAt
  <2> QED BY <1>1, <2>1, <2>5 DEF WordsOK, WordsAt, WrittenBy
<1> QED BY <1>2, <1>3

LEMMA RequestWords ==
    ASSUME Shape, WordsOK, NEW w \in Workers, RequestStep(w)
    PROVE  WordsOK'
<1> DEFINE r == request[w]
<1>l. r.pc # "idle"
  BY DEF RequestStep, StartWork, WebsiteActs, SettleWork, LoseWork, RelayMissing
<1>r. /\ w[1] \in Procs /\ app[w[1]].live /\ r \in Relays(store) /\ r.key \in RemoteKeys
      /\ r.key \in Keys /\ r.owner \in Owners /\ r.op \in Operation
  BY <1>l, RequestsAreLive, KeysAssumption
<1>t. WordsAt(clock) /\ WrittenBy(r.text, r.owner, clock)
  BY DEF WordsOK, WordsAt
<1>1. CASE StartWork(w)
  BY <1>r, <1>t, <1>1, BeginWords DEF StartWork
<1>2. CASE WebsiteActs(w)
  <2>1. /\ UNCHANGED <<store, diskOk, clock, app, sync, intent, author>>
        /\ request' = [request EXCEPT ![w].pc = "answered"]
        /\ web' = [web EXCEPT ![r.owner][r.key] = [text |-> r.text, tick |-> r.tick]]
    BY <1>2 DEF WebsiteActs
  <2>2. \A v \in Workers : /\ request'[v].text = request[v].text
                           /\ request'[v].owner = request[v].owner
    BY <1>r, <2>1 DEF Shape, ShapeOK, Relays
  <2>3. ASSUME NEW u \in Owners, NEW k \in RemoteKeys
        PROVE  WrittenBy(web'[u][k].text, u, clock)
    <3>1. web'[u][k] = IF u = r.owner /\ k = r.key
                       THEN [text |-> r.text, tick |-> r.tick] ELSE web[u][k]
      BY <1>r, <2>1 DEF Shape, ShapeOK, Sites
    <3> QED BY <1>t, <3>1 DEF WordsAt
  <2> QED BY <1>t, <2>1, <2>2, <2>3 DEF WordsOK, WordsAt, WrittenBy
<1>3. CASE SettleWork(w)
  <2>1. /\ Owns(store, r.owner)
        /\ store' = AfterSettle(store, r.key, r.op)
        /\ TaskEnds(w, r, TRUE, FALSE)
        /\ UNCHANGED <<diskOk, web, clock, author>>
    BY <1>3 DEF SettleWork
  <2>2. Called(store, store')
    BY <1>r, <2>1 DEF Called
  <2>3. store'.drafts = store.drafts /\ store'.owner = store.owner
    BY <1>r, <2>1, SettleEffect DEF Shape, FileOK, Sound
  <2> QED BY <1>r, <2>1, <2>2, <2>3, TaskEndsWords
<1>4. ASSUME NEW retired, NEW missing \in BOOLEAN, TaskEnds(w, r, retired, missing),
             UNCHANGED <<store, web, clock, author>>
      PROVE  WordsOK'
  <2>1. Called(store, store')
    BY <1>4 DEF Called
  <2> QED BY <1>r, <1>4, <2>1, TaskEndsWords
<1>5. CASE LoseWork(w) \/ RelayMissing(w)
  BY <1>4, <1>5 DEF LoseWork, RelayMissing
<1> QED BY <1>1, <1>2, <1>3, <1>5 DEF RequestStep

LEMMA SyncWords ==
    ASSUME Shape, WordsOK, NEW p \in Procs, SyncStep(p)
    PROVE  WordsOK'
<1>w. WordsAt(clock) /\ WordsAt(clock)
  BY DEF WordsOK
<1>s. app \in [Procs -> Apps(store)] /\ sync \in [Procs -> Syncs(store)]
  BY DEF Shape, ShapeOK
<1>0. ASSUME \A k \in Keys : WrittenBy(store'.drafts[k], store'.owner, clock),
             app' = [app EXCEPT ![p] = app'[p]], sync' = [sync EXCEPT ![p] = sync'[p]],
             \A k \in Keys : /\ WrittenBy(app'[p].drafts[k], app'[p].owner, clock)
                             /\ WrittenBy(sync'[p].list[k], app'[p].owner, clock),
             UNCHANGED <<web, clock, request, author>>
      PROVE  WordsOK'
  <2>1. \A q \in Procs \ {p} : app'[q] = app[q] /\ sync'[q] = sync[q]
    BY <1>s, <1>0
  <2>2. \A u \in Owners, k \in RemoteKeys : WrittenBy(web'[u][k].text, u, clock)
    BY <1>w, <1>0 DEF WordsAt
  <2>3. \A w \in Workers : WrittenBy(request'[w].text, request'[w].owner, clock)
    BY <1>w, <1>0 DEF WordsAt
  <2>4. clock' = clock /\ author' = author
    BY <1>0
  <2> QED BY <1>0, <2>1, <2>2, <2>3, <2>4, WordsStep
<1>1. CASE TakeWork(p) \/ AskList(p) \/ ListArrives(p) \/ MergeEnds(p)
  <2>1. /\ UNCHANGED <<store, diskOk, web, clock, request, intent, author>>
        /\ app' = [app EXCEPT ![p] = app'[p]]
        /\ app'[p].owner = app[p].owner /\ app'[p].drafts = app[p].drafts
        /\ sync' = [sync EXCEPT ![p] = sync'[p]]
        /\ \/ sync'[p].list = NoDrafts
           \/ sync'[p].list = [k \in Keys |-> IF k \in RemoteKeys
                                 THEN web[app[p].owner][k].text ELSE None]
    BY <1>1, SyncReads
  <2>2. app[p].owner \in Owners
    BY <1>1, SyncsAreLive DEF TakeWork, AskList, ListArrives, MergeEnds
  <2>3. \A k \in Keys : WrittenBy(sync'[p].list[k], app'[p].owner, clock)
    <3>1. CASE sync'[p].list = NoDrafts
      BY <3>1, NoWords
    <3>2. CASE sync'[p].list = [k \in Keys |-> IF k \in RemoteKeys
                                  THEN web[app[p].owner][k].text ELSE None]
      <4>1. ASSUME NEW k \in Keys
            PROVE  WrittenBy(sync'[p].list[k], app'[p].owner, clock)
        <5>1. CASE k \in RemoteKeys
          <6>1. sync'[p].list[k] = web[app[p].owner][k].text
            BY <3>2, <5>1
          <6> QED BY <1>w, <2>1, <2>2, <5>1, <6>1 DEF WordsAt
        <5>2. CASE k \notin RemoteKeys
          BY <3>2, <5>2, NoText
        <5> QED BY <5>1, <5>2
      <4> QED BY <4>1
    <3> QED BY <2>1, <3>1, <3>2
  <2>4. \A k \in Keys : /\ WrittenBy(store'.drafts[k], store'.owner, clock)
                        /\ WrittenBy(app'[p].drafts[k], app'[p].owner, clock)
    BY <1>w, <2>1 DEF WordsAt
  <2> QED BY <1>0, <2>1, <2>3, <2>4
<1>2. ASSUME NEW k \in Keys, SaveShield(p, k)
      PROVE  WordsOK'
  <2>1. /\ app' = [app EXCEPT ![p] = app'[p]]
        /\ app'[p].owner = app[p].owner /\ app'[p].drafts = app[p].drafts
        /\ sync' = [sync EXCEPT ![p] = sync'[p]] /\ sync'[p].list = sync[p].list
    BY <1>2, SaveShieldSteps
  <2>2. app[p].owner \in Owners /\ app[p] \in Apps(store)
    BY <1>2, SyncsAreLive DEF SaveShield
  <2>3. store' = Persisted(app[p], k) /\ UNCHANGED <<diskOk, web, clock, request, author>>
    BY <1>2 DEF SaveShield
  <2>4. \A j \in Keys : WrittenBy(store'.drafts[j], store'.owner, clock)
    <3>1. /\ \A j \in Keys : WrittenBy(store.drafts[j], store.owner, clock)
          /\ WrittenBy(app[p].drafts[k], app[p].owner, clock)
      BY <1>w DEF WordsAt
    <3> QED BY <2>2, <2>3, <3>1, PersistWords
  <2>5. \A j \in Keys : /\ WrittenBy(app'[p].drafts[j], app'[p].owner, clock)
                        /\ WrittenBy(sync'[p].list[j], app'[p].owner, clock)
    BY <1>w, <2>1 DEF WordsAt
  <2> QED BY <1>0, <2>1, <2>3, <2>4, <2>5
<1>3. ASSUME NEW k \in Keys, RetryNext(p, k)
      PROVE  WordsOK'
  <2> DEFINE r == Asked(app[p].owner, k, sync[p].todo[k], None)
             v == <<p, 0>>
  <2>1. Begin(v, r) /\ r \in Relays(store) /\ v \in Workers /\ app[v[1]].live
    BY <1>3, RetrySteps
  <2>2. WrittenBy(r.text, r.owner, clock)
    BY NoText DEF Asked
  <2> HIDE DEF r, v
  <2> QED BY <2>1, <2>2, BeginWords
<1>4. ASSUME NEW k \in Keys, Merge(p, k)
      PROVE  WordsOK'
  <2> DEFINE text  == sync[p].list[k]
             owner == app[p].owner
  <2>1. /\ k \in RemoteKeys /\ text \in Words /\ owner \in Owners
        /\ sync' = [sync EXCEPT ![p] = sync'[p]]
        /\ sync'[p].list = [sync[p].list EXCEPT ![k] = None]
        /\ UNCHANGED <<diskOk, web, clock, request, author>>
    BY <1>4, MergeSyncSteps
  <2>2. \/ UNCHANGED <<store, app, intent>>
        \/ /\ store.owner = owner
           /\ \/ UNCHANGED store
              \/ /\ MayWrite(store, owner)
                 /\ MayMerge(store, owner, k, sync[p].epoch)
                 /\ store' = AfterMerge(store, owner, k, text)
           /\ app' = [app EXCEPT ![p] = app'[p]]
           /\ app'[p].owner = owner
           /\ \E new \in {text, store'.drafts[k]} :
                  app'[p].drafts = [app[p].drafts EXCEPT ![k] = new]
    BY <1>4, MergeSyncSteps
  <2>3. WrittenBy(text, owner, clock)
    BY <1>w DEF WordsAt
  <2>4. \A j \in Keys : WrittenBy(sync'[p].list[j], owner, clock)
    <3>1. \A j \in Keys : sync'[p].list[j] \in {sync[p].list[j], None}
      BY <1>s, <2>1 DEF Syncs, Lists, Texts
    <3> QED BY <1>w, <3>1, NoText DEF WordsAt
  <2>5. CASE UNCHANGED <<store, app, intent>>
    <3>1. app' = [app EXCEPT ![p] = app'[p]] /\ app'[p] = app[p]
      BY <1>s, <2>5
    <3>2. \A j \in Keys : /\ WrittenBy(store'.drafts[j], store'.owner, clock)
                          /\ WrittenBy(app'[p].drafts[j], app'[p].owner, clock)
      BY <1>w, <2>5 DEF WordsAt
    <3> QED BY <1>0, <2>1, <2>4, <3>1, <3>2
  <2>6. CASE ~UNCHANGED <<store, app, intent>>
    <3>1. \A j \in Keys : WrittenBy(store'.drafts[j], store'.owner, clock)
      <4>1. CASE UNCHANGED store
        BY <1>w, <4>1 DEF WordsAt
      <4>2. CASE /\ MayWrite(store, owner)
                 /\ MayMerge(store, owner, k, sync[p].epoch)
                 /\ store' = AfterMerge(store, owner, k, text)
        <5>1. /\ store'.owner = owner /\ Rewrites(store, store', k)
              /\ store'.drafts[k] \in {text, None}
          BY <2>1, <4>2, MergeEffect DEF Shape, FileOK
        <5>2. \A j \in Keys \ {k} : store'.drafts[j] \in {store.drafts[j], None}
          BY <5>1 DEF Rewrites
        <5>3. store.owner = owner
          BY <2>2, <2>6
        <5>4. \A j \in Keys : WrittenBy(store.drafts[j], owner, clock)
          BY <1>w, <5>3 DEF WordsAt
        <5> QED BY <2>3, <5>1, <5>2, <5>4, NoText
      <4> QED BY <2>2, <2>6, <4>1, <4>2
    <3>2. store'.owner = owner
      <4>1. AfterMerge(store, owner, k, text) = store' /\ MayWrite(store, owner)
              /\ MayMerge(store, owner, k, sync[p].epoch) => store'.owner = owner
        BY <2>1, MergeEffect DEF Shape, FileOK
      <4> QED BY <2>2, <2>6, <4>1
    <3>3. \A j \in Keys : WrittenBy(app'[p].drafts[j], app'[p].owner, clock)
      <4>1. PICK new \in {text, store'.drafts[k]} :
              app'[p].drafts = [app[p].drafts EXCEPT ![k] = new]
        BY <2>2, <2>6
      <4>2. WrittenBy(new, owner, clock)
        BY <2>3, <3>1, <3>2
      <4>3. \A j \in Keys : app'[p].drafts[j] = IF j = k THEN new ELSE app[p].drafts[j]
        BY <1>s, <4>1 DEF Apps, Texts
      <4>4. app'[p].owner = owner
        BY <2>2, <2>6
      <4> QED BY <1>w, <4>2, <4>3, <4>4 DEF WordsAt
    <3>4. app' = [app EXCEPT ![p] = app'[p]] /\ app'[p].owner = owner
      BY <2>2, <2>6
    <3> QED BY <1>0, <2>1, <2>4, <3>1, <3>3, <3>4
  <2> QED BY <2>5, <2>6
<1> QED BY <1>1, <1>2, <1>3, <1>4 DEF SyncStep

LEMMA BrowserWords ==
    ASSUME Shape, WordsOK, DiskChanges \/ BrowserStep
    PROVE  WordsOK'
<1>1. CASE DiskChanges
  BY <1>1 DEF DiskChanges, WordsOK, WordsAt, WrittenBy
<1>2. ASSUME NEW u \in Owners, NEW k \in RemoteKeys, BrowserSaves(u, k) \/ BrowserDeletes(u, k)
      PROVE  WordsOK'
  <2>1. PICK text \in {None, clock + 1} :
          /\ clock + 1 \in Words /\ clock' = clock + 1
          /\ text # None => author[text] = u
          /\ web' = [web EXCEPT ![u][k] = [text |-> text, tick |-> clock + 1]]
          /\ UNCHANGED <<store, diskOk, app, sync, request, intent, author>>
    BY <1>2 DEF BrowserSaves, BrowserDeletes
  <2>2. WordsAt(clock') /\ clock \in Nat
    BY <2>1, WordsAge DEF Shape, ShapeOK
  <2>3. WrittenBy(text, u, clock')
    <3>1. text # None => text <= clock'
      BY <2>1, <2>2
    <3> QED BY <2>1, <3>1 DEF WrittenBy
  <2>4. ASSUME NEW v \in Owners, NEW j \in RemoteKeys
        PROVE  WrittenBy(web'[v][j].text, v, clock')
    <3>1. web'[v][j] = IF v = u /\ j = k THEN [text |-> text, tick |-> clock + 1] ELSE web[v][j]
      BY <2>1 DEF Shape, ShapeOK, Sites
    <3> QED BY <2>2, <2>3, <3>1 DEF WordsAt
  <2> QED BY <2>1, <2>2, <2>4 DEF WordsOK, WordsAt, WrittenBy
<1> QED BY <1>1, <1>2 DEF BrowserStep

LEMMA StepWords == Shape /\ WordsOK /\ [Next]_vars => WordsOK'
<1> SUFFICES ASSUME Shape, WordsOK, [Next]_vars PROVE WordsOK'
  OBVIOUS
<1>1. CASE UNCHANGED vars
  BY <1>1 DEF vars, WordsOK, WordsAt, WrittenBy
<1>2. CASE Next
  BY <1>2, BrowserWords, RequestWords, SyncWords, SessionWords, ComposerWords DEF Next
<1> QED BY <1>1, <1>2

LEMMA AlwaysWords == Spec => [](Shape /\ WordsOK)
<1>1. Init => WordsOK
  BY DEF Init, WordsOK, WordsAt, WrittenBy, Missing, NoDrafts, NoWebDraft, Off, NoSync, NoRequest
<1> QED BY <1>1, ShapeFirst, StepShape, StepWords, PTL DEF Spec

\* Whichever terminals are signed in as whom, and whatever a sign-out, a crash
\* or a late list does in between, neither the draft file nor the website
\* holds under one account what was written under another.
THEOREM WordsStay == Spec => []WordsStayWithTheirAccount
<1>1. WordsOK => WordsStayWithTheirAccount
  BY DEF WordsOK, WordsAt, WrittenBy, WordsStayWithTheirAccount
<1> QED BY <1>1, AlwaysWords, PTL

----------------------------------------------------------------------------
\* What a step that calls the file may make of slot k and of what is wanted of
\* it: nothing is wanted any more, the slot is as it was or the website has
\* caught up with it, or the file owes something newer than all requests.
SlotStep(k) ==
    \/ intent'[k] = 0
    \/ /\ intent'[k] = intent[k] /\ store'.owner = store.owner
       /\ \/ store'.operations[k] = store.operations[k]
          \/ /\ web[store.owner][k].tick >= intent[k]
             /\ \A w \in Workers : request'[w].pc \in {"sent", "answered"} => request'[w].key # k
    \/ /\ intent'[k] <= clock' /\ store'.owner # NoOwner
       /\ k \in RemoteKeys => store'.operations[k].revision > store.revision

\* A step of the terminals starts no request under way.
NothingSent ==
    \A w \in Workers : request'[w] = request[w] \/ (request'[w].tick = 0 /\ ~(UnderWay(w)'))

LEMMA SlotsKeepPromises ==
    ASSUME Shape, Shape', Promised, web' = web, clock' \in {clock, clock + 1},
           NothingSent, \A k \in Keys : SlotStep(k)
    PROVE  Promised'
<1>t. /\ clock \in Nat /\ clock' \in Nat /\ clock <= clock'
      /\ \A k \in Keys : intent[k] \in Nat /\ intent'[k] \in Nat
      /\ \A u \in Owners, k \in RemoteKeys : web[u][k].tick \in Nat
      /\ store \in Stored /\ store' \in Stored
      /\ RemoteKeys \subseteq Keys /\ NoOwner \notin Owners
  BY KeysAssumption, OwnersAssumption DEF Shape, ShapeOK, FileOK, Sound, Sites
<1>u. ASSUME NEW w \in Workers, UnderWay(w)'
      PROVE  /\ request'[w] = request[w] /\ UnderWay(w)
             /\ request[w].key \in RemoteKeys /\ request[w].owner \in Owners
             /\ request[w].tick \in Nat
             /\ request[w].op.revision \in Nat /\ request[w].op.revision <= store.revision
  <2>1. request'[w] = request[w] /\ UnderWay(w)
    BY <1>u DEF NothingSent, UnderWay
  <2>2. /\ request[w].key \in RemoteKeys /\ request[w].owner \in Owners
        /\ request[w].tick \in Nat /\ request[w].op \in Issued(store)
        /\ request[w].op \in Operation
    BY <2>1, RequestsAreLive DEF UnderWay
  <2>3. request[w].op.revision \in Nat /\ request[w].op.revision <= store.revision
    BY <2>2, BoundsAssumption DEF Issued, Operation, Revision
  <2> QED BY <2>1, <2>2, <2>3
<1>r. store.revision \in Nat /\ \A k \in Keys : store'.operations[k].revision \in Nat
  BY <1>t, BoundsAssumption DEF Stored, Revision, Operation, NoOperation
<1>1. Dated'
  <2>1. \A k \in Keys : intent'[k] <= clock'
    <3> SUFFICES ASSUME NEW k \in Keys PROVE intent'[k] <= clock'
      OBVIOUS
    <3>1. intent[k] <= clock
      BY DEF Promised, Dated
    <3> QED BY <1>t, <3>1 DEF SlotStep
  <2>2. \A u \in Owners, k \in RemoteKeys : web'[u][k].tick <= clock'
    <3> SUFFICES ASSUME NEW u \in Owners, NEW k \in RemoteKeys PROVE web[u][k].tick <= clock'
      OBVIOUS
    <3>1. web[u][k].tick <= clock
      BY DEF Promised, Dated
    <3> QED BY <1>t, <3>1
  <2>3. \A w \in Workers : request'[w].tick <= clock'
    <3> SUFFICES ASSUME NEW w \in Workers PROVE request'[w].tick <= clock'
      OBVIOUS
    <3>1. request[w].tick <= clock
      BY DEF Promised, Dated
    <3>2. request[w].tick \in Nat
      BY BoundsAssumption DEF Shape, ShapeOK, Requests, Relays, NoRequest
    <3> QED BY <1>t, <3>1, <3>2 DEF NothingSent
  <2> QED BY <2>1, <2>2, <2>3 DEF Dated
<1>2. RequestsAreDue'
  <2> SUFFICES ASSUME NEW w \in Workers, UnderWay(w)', store'.owner = request[w].owner,
                      \/ ~Owed(store', request[w].key)
                      \/ store'.operations[request[w].key] = request[w].op
               PROVE  intent'[request[w].key] <= request[w].tick
    BY <1>u DEF RequestsAreDue
  <2> DEFINE r == request[w]
             k == r.key
  <2>1. /\ request'[w] = r /\ UnderWay(w) /\ k \in RemoteKeys /\ k \in Keys /\ r.owner \in Owners
        /\ r.tick \in Nat /\ r.op.revision \in Nat /\ r.op.revision <= store.revision
    BY <1>t, <1>u
  <2>2. SlotStep(k)
    BY <2>1
  <2>3. CASE intent'[k] = 0
    BY <2>1, <2>3
  <2>4. CASE /\ intent'[k] = intent[k] /\ store'.owner = store.owner
             /\ store'.operations[k] = store.operations[k]
    BY <2>1, <2>4 DEF Promised, RequestsAreDue, Owed
  <2>5. CASE \A v \in Workers : request'[v].pc \in {"sent", "answered"} => request'[v].key # k
    BY <2>1, <2>5 DEF UnderWay
  <2>6. CASE store'.operations[k].revision > store.revision
    <3>1. store'.operations[k] # r.op
      BY <1>r, <2>1, <2>6
    <3>2. Owed(store', k)
      BY <1>r, <2>6 DEF Owed, NoOperation
    <3> QED BY <3>1, <3>2
  <2> QED BY <2>1, <2>2, <2>3, <2>4, <2>5, <2>6 DEF SlotStep
<1>3. AnswersAreThere'
  <2> SUFFICES ASSUME NEW w \in Workers, request'[w].pc = "answered"
               PROVE  web[request'[w].owner][request'[w].key].tick >= request'[w].tick
    BY DEF AnswersAreThere
  <2>1. request'[w] = request[w]
    BY <1>u DEF UnderWay
  <2> QED BY <2>1 DEF Promised, AnswersAreThere
<1>4. OneAtATime'
  <2> SUFFICES ASSUME NEW v \in Workers, NEW w \in Workers, UnderWay(v)', UnderWay(w)',
                      request'[v].key = request'[w].key
               PROVE  v = w
    BY DEF OneAtATime
  <2>1. request'[v] = request[v] /\ UnderWay(v) /\ request'[w] = request[w] /\ UnderWay(w)
    BY <1>u
  <2> QED BY <2>1 DEF Promised, OneAtATime
<1>5. NobodyIntends'
  <2> SUFFICES ASSUME store'.owner = NoOwner, NEW k \in Keys
               PROVE  intent'[k] = 0
    BY DEF NobodyIntends
  <2> QED BY DEF SlotStep, Promised, NobodyIntends
<1>6. SyncedMeansReflected'
  <2> SUFFICES ASSUME NEW k \in RemoteKeys, store'.owner # NoOwner, intent'[k] > 0,
                      ~Owed(store', k)
               PROVE  web[store'.owner][k].tick >= intent'[k]
    BY DEF SyncedMeansReflected, Owed
  <2>1. SlotStep(k) /\ k \in Keys /\ intent'[k] # 0
    BY <1>t
  <2>2. CASE /\ intent'[k] = intent[k] /\ store'.owner = store.owner
             /\ store'.operations[k] = store.operations[k]
    BY <2>2 DEF Promised, SyncedMeansReflected, Owed
  <2>3. CASE store'.operations[k].revision > store.revision
    BY <1>r, <2>1, <2>3 DEF Owed, NoOperation
  <2> QED BY <2>1, <2>2, <2>3 DEF SlotStep
<1> QED BY <1>1, <1>2, <1>3, <1>4, <1>5, <1>6 DEF Promised

\* A save that succeeds is what its slot is then wanted to hold; what it
\* evicts nobody wants any more.
LEMMA SaveSlots ==
    ASSUME Shape, Promised, NEW a, a.owner \in Owners, NEW k \in Keys,
           a.drafts[k] \in Words \union {None}, NEW tick, tick <= clock',
           store' = Persisted(a, k), intent' = IntentAfterSave(a, k, tick)
    PROVE  \A j \in Keys : SlotStep(j)
<1>s. store \in Stored /\ store.revision \in Nat
  BY BoundsAssumption DEF Shape, FileOK, Sound, Stored, Revision
<1>i. intent \in [Keys -> Nat]
  BY DEF Shape, ShapeOK
<1>1. CASE ~Saves(a)
  BY <1>1 DEF Persisted, IntentAfterSave, SlotStep
<1>2. CASE Saves(a)
  <2> DEFINE op == MintedBy(store, a.owner, a.drafts[k])
  <2>1. MayWrite(store, a.owner) /\ store' = AfterApply(store, a.owner, k, a.drafts[k])
    BY <1>2 DEF Saves, Persisted
  <2>2. /\ store.owner \in {a.owner, NoOwner} /\ store'.owner = a.owner
        /\ Rewrites(store, store', k)
        /\ op.revision = store.revision + 1
        /\ store'.drafts[k] = a.drafts[k] =>
             store'.operations[k] = IF k \in RemoteKeys THEN op ELSE NoOperation
    BY <2>1, ApplyEffect DEF Shape, FileOK
  <2>3. ASSUME NEW j \in Keys
        PROVE  intent'[j] = IF j = k THEN IF store'.drafts[k] = a.drafts[k] THEN tick ELSE 0
                            ELSE IF store'.drafts[j] = store.drafts[j] THEN intent[j] ELSE 0
    BY <1>2 DEF IntentAfterSave
  <2>4. a.owner # NoOwner
    BY OwnersAssumption
  <2> HIDE DEF op
  <2>5. SlotStep(k)
    <3>1. CASE store'.drafts[k] = a.drafts[k]
      BY <1>s, <2>2, <2>3, <2>4, <3>1 DEF SlotStep
    <3>2. CASE store'.drafts[k] # a.drafts[k]
      BY <2>3, <3>2 DEF SlotStep
    <3> QED BY <3>1, <3>2
  <2>6. ASSUME NEW j \in Keys \ {k}
        PROVE  SlotStep(j)
    <3>1. CASE store'.drafts[j] = store.drafts[j] /\ store.owner = a.owner
      <4>1. store'.operations[j] = store.operations[j]
        BY <2>2, <3>1 DEF Rewrites
      <4> QED BY <2>2, <2>3, <3>1, <4>1 DEF SlotStep
    <3>2. CASE store.owner = NoOwner
      <4>1. intent[j] = 0
        BY <3>2 DEF Promised, NobodyIntends
      <4> QED BY <2>3, <4>1 DEF SlotStep
    <3>3. CASE store'.drafts[j] # store.drafts[j]
      BY <2>3, <3>3 DEF SlotStep
    <3> QED BY <2>2, <3>1, <3>2, <3>3
  <2> QED BY <2>5, <2>6
<1> QED BY <1>1, <1>2

\* stash_draft_impl and discard_draft_local.
LEMMA KeepSlots ==
    ASSUME Shape, Promised, NEW p \in Procs, app[p].live, NEW k \in Keys,
           NEW text \in {None, clock + 1}, Keep(p, k, text)
    PROVE  clock' = clock + 1 /\ \A j \in Keys : SlotStep(j)
<1> DEFINE a == [app[p] EXCEPT !.drafts[k] = text]
<1>1. app[p] \in Apps(store) /\ app[p].owner \in Owners
  BY DEF Shape, ShapeOK, SessionsOK
<1>2. text \in Words \union {None}
  BY DEF Keep, Room
<1>3. a.owner = app[p].owner /\ a.drafts[k] = text
  BY <1>1 DEF Apps, Texts
<1>4. store' = Persisted(a, k) /\ intent' = IntentAfterSave(a, k, clock + 1) /\ clock' = clock + 1
  BY DEF Keep
<1>5. clock + 1 <= clock'
  BY <1>4 DEF Shape, ShapeOK
<1> HIDE DEF a
<1> QED BY <1>1, <1>2, <1>3, <1>4, <1>5, SaveSlots

LEMMA ComposerPromises ==
    ASSUME Shape, Shape', Promised, NEW p \in Procs, ComposerStep(p)
    PROVE  Promised'
<1>1. PICK k \in Keys, text \in {None, clock + 1} :
        /\ app[p].live /\ Keep(p, k, text)
        /\ app' = [app EXCEPT ![p] = Keeping(p, k, text)]
        /\ RelayDraft(p, k, Keeping(p, k, text)) \/ UNCHANGED request
        /\ UNCHANGED <<diskOk, web, sync, author>>
  BY ComposerSteps
<1> DEFINE b == Keeping(p, k, text)
<1>2. clock' = clock + 1 /\ \A j \in Keys : SlotStep(j)
  BY <1>1, KeepSlots
<1>3. NothingSent
  <2>1. CASE UNCHANGED request
    BY <2>1 DEF NothingSent
  <2>2. CASE RelayDraft(p, k, b)
    <3>1. /\ Called(store, store') /\ b \in Apps(store') /\ b.owner = app[p].owner
          /\ k \in RemoteKeys => b.operations[k] \in Operation
      BY <1>1, KeepSteps
    <3>2. b.owner \in Owners
      BY <1>1, <3>1 DEF Shape, SessionsOK
    <3> HIDE DEF b
    <3>3. /\ \A w \in Workers : w # <<p, k>> => request'[w] = request[w]
          /\ request' = request \/
               request'[<<p, k>>] = Asked(b.owner, k, b.operations[k], b.drafts[k])
      BY <2>2, <3>1, <3>2, RelayShape
    <3> QED BY <3>3 DEF NothingSent, Asked, UnderWay
  <2> QED BY <1>1, <2>1, <2>2
<1> QED BY <1>1, <1>2, <1>3, SlotsKeepPromises

\* A session that ends, or starts over.
LEMMA IdledSendsNothing ==
    ASSUME Shape, NEW p \in Procs, request' = Idled(p) \/ UNCHANGED request
    PROVE  NothingSent
<1>1. \A w \in Workers : request'[w] = request[w] \/ request'[w] = NoRequest
  BY DEF Idled
<1> QED BY <1>1 DEF NothingSent, NoRequest, UnderWay

LEMMA SessionPromises ==
    ASSUME Shape, Shape', Promised, NEW p \in Procs, SessionStep(p)
    PROVE  Promised'
<1>k. ASSUME UNCHANGED <<store, intent>> PROVE \A j \in Keys : SlotStep(j)
  BY <1>k DEF SlotStep
<1>b. ASSUME store' = store \/ Blank(store'),
             intent' = IF store'.revisions = NoRevisions THEN [k \in Keys |-> 0] ELSE intent
      PROVE  \A j \in Keys : SlotStep(j)
  BY <1>b DEF SlotStep, Blank
<1>l. ASSUME NEW a, app[p].live, Leaving(p, a)
      PROVE  clock' \in {clock, clock + 1} /\ \A j \in Keys : SlotStep(j)
  <2>1. CASE UNCHANGED <<store, intent, clock>>
    BY <1>k, <2>1
  <2>2. CASE \E k \in Keys, text \in {None, clock + 1} : Keep(p, k, text)
    BY <1>l, <2>2, KeepSlots
  <2> QED BY <1>l, <2>1, <2>2 DEF Leaving
<1>e. EndsTasks(p) => NothingSent
  BY IdledSendsNothing DEF EndsTasks
<1>1. CASE EndSession(p)
  <2>1. app[p].live /\ \E a \in Memories(p) : Leaving(p, a)
    BY <1>1 DEF EndSession, Attentive
  <2>2. EndsTasks(p) /\ web' = web
    BY <1>1 DEF EndSession
  <2> QED BY <1>l, <1>e, <2>1, <2>2, SlotsKeepPromises
<1>2. CASE SignOut(p)
  <2>1. /\ store' = store \/ Blank(store')
        /\ EndsTasks(p)
        /\ intent' = IF store'.revisions = NoRevisions THEN [k \in Keys |-> 0] ELSE intent
        /\ UNCHANGED <<web, clock>>
    BY <1>2, SignOutSteps
  <2> QED BY <1>b, <1>e, <2>1, SlotsKeepPromises
<1>3. CASE Exit(p)
  <2>1. clock' \in {clock, clock + 1} /\ \A j \in Keys : SlotStep(j)
    <3>1. CASE UNCHANGED <<store, intent, clock>>
      BY <1>k, <3>1
    <3>2. CASE Attentive(p) /\ \E a \in Memories(p) \ {app[p]} : Leaving(p, a)
      BY <1>l, <3>2 DEF Attentive
    <3> QED BY <1>3, <3>1, <3>2 DEF Exit
  <2>2. EndsTasks(p) /\ web' = web
    BY <1>3 DEF Exit
  <2> QED BY <1>e, <2>1, <2>2, SlotsKeepPromises
<1>4. ASSUME NEW u \in Owners, GoLive(p, u) PROVE Promised'
  <2>1. /\ store' = store \/ Blank(store')
        /\ request' = Idled(p) \/ UNCHANGED request
        /\ intent' = IF store'.revisions = NoRevisions THEN [k \in Keys |-> 0] ELSE intent
        /\ UNCHANGED <<web, clock>>
    BY <1>4, GoLiveSteps
  <2> QED BY <1>b, <2>1, IdledSendsNothing, SlotsKeepPromises
<1> QED BY <1>1, <1>2, <1>3, <1>4 DEF SessionStep

\* A step that leaves the file and what is wanted of it alone.
LEMMA SameSlots ==
    ASSUME UNCHANGED <<store, intent>>
    PROVE  \A j \in Keys : SlotStep(j)
BY DEF SlotStep

LEMMA EndedTaskSendsNothing ==
    ASSUME Shape, NEW w \in Workers, request' = [request EXCEPT ![w] = NoRequest]
    PROVE  /\ NothingSent
           /\ \A v \in Workers : request'[v] = IF v = w THEN NoRequest ELSE request[v]
<1>1. \A v \in Workers : request'[v] = IF v = w THEN NoRequest ELSE request[v]
  BY DEF Shape, ShapeOK
<1> QED BY <1>1 DEF NothingSent, NoRequest, UnderWay

\* A task that takes its slot's lock carries out the latest intent of the slot.
LEMMA BeginPromises ==
    ASSUME Shape, Shape', Promised, NEW w \in Workers, app[w[1]].live, NEW r \in Relays(store),
           Begin(w, r)
    PROVE  Promised'
<1>1. /\ UNCHANGED <<store, diskOk, web, clock, intent, author>>
      /\ \/ TaskEnds(w, r, Owns(store, r.owner), FALSE)
         \/ /\ Owns(store, r.owner) /\ ~LockHeld(r.key)
            /\ request' = [request EXCEPT ![w] = request'[w]]
            /\ request'[w].pc = "sent" /\ request'[w].owner = r.owner
            /\ request'[w].key = r.key /\ request'[w].op = r.op
            /\ request'[w].tick = intent[r.key]
  BY BeginShape
<1>2. CASE TaskEnds(w, r, Owns(store, r.owner), FALSE)
  <2>1. request' = [request EXCEPT ![w] = NoRequest]
    BY <1>2 DEF TaskEnds
  <2> QED BY <1>1, <2>1, SameSlots, EndedTaskSendsNothing, SlotsKeepPromises
<1>3. CASE /\ ~LockHeld(r.key)
           /\ request' = [request EXCEPT ![w] = request'[w]]
           /\ request'[w].pc = "sent" /\ request'[w].key = r.key
           /\ request'[w].tick = intent[r.key]
  <2>1. /\ \A v \in Workers \ {w} : request'[v] = request[v]
        /\ \A v \in Workers : UnderWay(v) => request[v].key # r.key
        /\ r.key \in Keys /\ intent \in [Keys -> Nat]
    BY <1>3, KeysAssumption DEF Shape, ShapeOK, LockHeld, UnderWay, Relays
  <2>2. Dated'
    BY <1>1, <1>3, <2>1 DEF Promised, Dated
  <2>3. RequestsAreDue'
    <3> SUFFICES ASSUME NEW v \in Workers, UnderWay(v)', store.owner = request'[v].owner,
                        \/ ~Owed(store, request'[v].key)
                        \/ store.operations[request'[v].key] = request'[v].op
                 PROVE  intent[request'[v].key] <= request'[v].tick
      BY <1>1 DEF RequestsAreDue, Owed
    <3>1. CASE v = w
      BY <1>3, <2>1, <3>1
    <3>2. CASE v # w
      BY <2>1, <3>2 DEF Promised, RequestsAreDue, UnderWay
    <3> QED BY <3>1, <3>2
  <2>4. AnswersAreThere'
    BY <1>1, <1>3, <2>1 DEF Promised, AnswersAreThere
  <2>5. OneAtATime'
    BY <1>3, <2>1 DEF Promised, OneAtATime, UnderWay
  <2>6. NobodyIntends' /\ SyncedMeansReflected'
    BY <1>1 DEF Promised, NobodyIntends, SyncedMeansReflected, Owed
  <2> QED BY <2>2, <2>3, <2>4, <2>5, <2>6 DEF Promised
<1> QED BY <1>1, <1>2, <1>3

\* The website is told something at least as recent as what it holds for
\* every request that thinks itself carried out.
LEMMA WebsiteActsPromises ==
    ASSUME Shape, Promised, NEW w \in Workers, WebsiteActs(w)
    PROVE  Promised'
<1> DEFINE r == request[w]
<1>1. /\ r.pc = "sent" /\ UNCHANGED <<store, clock, intent>>
      /\ request' = [request EXCEPT ![w].pc = "answered"]
      /\ web' = [web EXCEPT ![r.owner][r.key] = [text |-> r.text, tick |-> r.tick]]
  BY DEF WebsiteActs
<1>r. /\ r \in Relays(store) /\ r.key \in RemoteKeys /\ r.owner \in Owners
      /\ r.tick \in Nat /\ r.tick <= clock /\ UnderWay(w)
  BY <1>1, RequestsAreLive DEF Promised, Dated, UnderWay
<1>2. /\ \A v \in Workers \ {w} : request'[v] = request[v]
      /\ request'[w] = [r EXCEPT !.pc = "answered"]
  BY <1>1 DEF Shape, ShapeOK
<1>3. /\ request'[w].pc = "answered" /\ request'[w].owner = r.owner /\ request'[w].key = r.key
      /\ request'[w].op = r.op /\ request'[w].tick = r.tick
  BY <1>r, <1>2 DEF Relays
<1>4. \A u \in Owners, k \in RemoteKeys :
        web'[u][k] = IF u = r.owner /\ k = r.key THEN [text |-> r.text, tick |-> r.tick]
                     ELSE web[u][k]
  BY <1>1, <1>r DEF Shape, ShapeOK, Sites
<1> HIDE DEF r
<1>5. \A v \in Workers : /\ request'[v].owner = request[v].owner /\ request'[v].key = request[v].key
                         /\ request'[v].op = request[v].op /\ request'[v].tick = request[v].tick
                         /\ UnderWay(v)' => UnderWay(v)
  BY <1>r, <1>2, <1>3 DEF UnderWay, r
<1>6. Dated'
  BY <1>1, <1>4, <1>5, <1>r DEF Promised, Dated
<1>7. RequestsAreDue'
  BY <1>1, <1>5 DEF Promised, RequestsAreDue, Owed
<1>8. AnswersAreThere'
  <2> SUFFICES ASSUME NEW v \in Workers, request'[v].pc = "answered"
               PROVE  web'[request[v].owner][request[v].key].tick >= request[v].tick
    BY <1>5 DEF AnswersAreThere
  <2>1. CASE v = w
    BY <1>4, <1>r, <2>1 DEF r
  <2>2. CASE v # w
    <3>1. request[v].pc = "answered" /\ UnderWay(v)
      BY <1>2, <2>2 DEF UnderWay
    <3>2. request[v].key # r.key
      BY <1>r, <2>2, <3>1 DEF Promised, OneAtATime, r
    <3>3. request[v].key \in RemoteKeys /\ request[v].owner \in Owners
      BY <3>1, RequestsAreLive
    <3> QED BY <1>4, <3>1, <3>2, <3>3 DEF Promised, AnswersAreThere
  <2> QED BY <2>1, <2>2
<1>9. OneAtATime'
  BY <1>5 DEF Promised, OneAtATime
<1>10. NobodyIntends'
  BY <1>1 DEF Promised, NobodyIntends
<1>11. SyncedMeansReflected'
  <2> SUFFICES ASSUME NEW k \in RemoteKeys, store.owner # NoOwner, intent[k] > 0, ~Owed(store, k)
               PROVE  web'[store.owner][k].tick >= intent[k]
    BY <1>1 DEF SyncedMeansReflected, Owed
  <2>1. web[store.owner][k].tick >= intent[k] /\ store.owner \in Owners
    BY DEF Promised, SyncedMeansReflected, Shape, FileOK, Sound, Stored
  <2>2. CASE store.owner = r.owner /\ k = r.key
    <3>1. intent[k] <= r.tick /\ intent[k] \in Nat
      BY <1>r, <2>2, KeysAssumption DEF Promised, RequestsAreDue, r, Shape, ShapeOK
    <3> QED BY <1>4, <1>r, <2>2, <3>1
  <2>3. CASE ~(store.owner = r.owner /\ k = r.key)
    BY <1>4, <2>1, <2>3
  <2> QED BY <2>2, <2>3
<1> QED BY <1>6, <1>7, <1>8, <1>9, <1>10, <1>11 DEF Promised

\* An acknowledgment retires what the website has carried out, and a refusal
\* what nobody can want of it.
LEMMA SettlePromises ==
    ASSUME Shape, Shape', Promised, NEW w \in Workers, SettleWork(w)
    PROVE  Promised'
<1> DEFINE r       == request[w]
           after   == AfterSettle(store, r.key, r.op)
           refused == r.pc = "sent" /\ r.op.kind = "save" /\ "refuse" \in Faults
<1>1. /\ r.pc = "answered" \/ refused
      /\ Owns(store, r.owner)
      /\ store' = after
      /\ intent' = IF refused /\ after # store THEN [intent EXCEPT ![r.key] = 0] ELSE intent
      /\ TaskEnds(w, r, TRUE, FALSE)
      /\ UNCHANGED <<diskOk, web, clock, author>>
  BY DEF SettleWork
<1>r. /\ r.pc \in {"sent", "answered"} /\ UnderWay(w)
      /\ r.key \in RemoteKeys /\ r.key \in Keys /\ r.owner \in Owners /\ r.op \in Operation
      /\ r.tick \in Nat
  BY <1>1, RequestsAreLive, KeysAssumption DEF UnderWay
<1>2. request' = [request EXCEPT ![w] = NoRequest]
  BY <1>1 DEF TaskEnds
<1>3. NothingSent /\ \A v \in Workers : request'[v] = IF v = w THEN NoRequest ELSE request[v]
  BY <1>2, EndedTaskSendsNothing
<1>4. store.owner = r.owner
  BY <1>1, OursIsReadAsItIs DEF Owns, Shape, FileOK
<1>5. /\ after.owner = store.owner
      /\ \A k \in Keys \ {r.key} : after.operations[k] = store.operations[k]
      /\ after = store \/ store.operations[r.key] = r.op
  BY <1>r, SettleEffect DEF Shape, FileOK, Sound
<1>6. intent \in [Keys -> Nat]
  BY DEF Shape, ShapeOK
<1> HIDE DEF after, r
<1>7. ASSUME NEW k \in Keys PROVE SlotStep(k)
  <2>1. CASE after = store
    BY <1>1, <2>1 DEF SlotStep
  <2>2. CASE k # r.key
    <3>1. intent'[k] = intent[k]
      BY <1>1, <1>6, <2>2
    <3> QED BY <1>1, <1>5, <2>2, <3>1 DEF SlotStep
  <2>3. CASE k = r.key /\ after # store /\ refused
    BY <1>1, <1>6, <2>3 DEF SlotStep
  <2>4. CASE k = r.key /\ after # store /\ ~refused
    <3>1. intent'[k] = intent[k] /\ r.pc = "answered"
      BY <1>1, <2>4
    <3>2. intent[k] <= r.tick
      BY <1>r, <1>4, <1>5, <2>4 DEF Promised, RequestsAreDue, r
    <3>3. web[store.owner][k].tick >= r.tick /\ web[store.owner][k].tick \in Nat
      BY <1>r, <1>4, <2>4, <3>1 DEF Promised, AnswersAreThere, r, Shape, ShapeOK, Sites
    <3>4. \A v \in Workers : request'[v].pc \in {"sent", "answered"} => request'[v].key # k
      BY <1>3, <1>r, <2>4 DEF Promised, OneAtATime, UnderWay, NoRequest, r
    <3>5. web[store.owner][k].tick >= intent[k]
      BY <1>6, <1>r, <3>2, <3>3
    <3> QED BY <1>1, <1>5, <3>1, <3>4, <3>5 DEF SlotStep
  <2> QED BY <2>1, <2>2, <2>3, <2>4
<1> QED BY <1>1, <1>3, <1>7, SlotsKeepPromises

LEMMA RequestPromises ==
    ASSUME Shape, Shape', Promised, NEW w \in Workers, RequestStep(w)
    PROVE  Promised'
<1>1. CASE StartWork(w)
  <2>1. Begin(w, request[w]) /\ app[w[1]].live /\ request[w] \in Relays(store)
    BY <1>1, RequestsAreLive DEF StartWork
  <2> QED BY <2>1, BeginPromises
<1>2. ASSUME NEW missing, TaskEnds(w, request[w], FALSE, missing),
             UNCHANGED <<store, web, clock, intent>>
      PROVE  Promised'
  <2>1. NothingSent
    BY <1>2, EndedTaskSendsNothing DEF TaskEnds
  <2> QED BY <1>2, <2>1, SameSlots, SlotsKeepPromises
<1> QED BY <1>1, <1>2, WebsiteActsPromises, SettlePromises DEF RequestStep, LoseWork, RelayMissing

\* What a merge writes, and what it makes room by, owes the website nothing.
LEMMA MergeSlots ==
    ASSUME Shape, NEW p \in Procs, NEW k \in Keys, Merge(p, k)
    PROVE  /\ \A j \in Keys : SlotStep(j)
           /\ store' # store => store.owner \in Owners
           /\ \A j \in Keys : store'.drafts[j] # store.drafts[j] => ~Owed(store, j)
           /\ UNCHANGED <<web, clock, request>>
<1> DEFINE text  == sync[p].list[k]
           owner == app[p].owner
<1>1. /\ k \in RemoteKeys /\ text \in Words /\ owner \in Owners
      /\ \/ UNCHANGED <<store, app, intent>>
         \/ /\ store.owner = owner
            /\ \/ UNCHANGED store
               \/ /\ MayWrite(store, owner)
                  /\ MayMerge(store, owner, k, sync[p].epoch)
                  /\ store' = AfterMerge(store, owner, k, text)
            /\ intent' = [j \in Keys |-> IF j # k /\ store'.drafts[j] # store.drafts[j]
                                         THEN 0 ELSE intent[j]]
      /\ UNCHANGED <<web, clock, request>>
  BY MergeSyncSteps
<1> HIDE DEF text, owner
<1>2. CASE UNCHANGED <<store, intent>>
  BY <1>1, <1>2, SameSlots
<1>3. CASE /\ store.owner = owner /\ UNCHANGED store
           /\ intent' = [j \in Keys |-> IF j # k /\ store'.drafts[j] # store.drafts[j]
                                        THEN 0 ELSE intent[j]]
  BY <1>1, <1>3 DEF SlotStep
<1>4. CASE /\ store.owner = owner
           /\ MayWrite(store, owner) /\ MayMerge(store, owner, k, sync[p].epoch)
           /\ store' = AfterMerge(store, owner, k, text)
           /\ intent' = [j \in Keys |-> IF j # k /\ store'.drafts[j] # store.drafts[j]
                                        THEN 0 ELSE intent[j]]
  <2>1. /\ store'.owner = owner /\ Rewrites(store, store', k)
        /\ ~Owed(store, k) /\ ~Owed(store', k)
        /\ \A j \in Keys : Owed(store, j) => store'.drafts[j] = store.drafts[j]
    BY <1>1, <1>4, MergeEffect DEF Shape, FileOK
  <2>2. ASSUME NEW j \in Keys PROVE SlotStep(j)
    <3>1. intent'[j] = IF j # k /\ store'.drafts[j] # store.drafts[j] THEN 0 ELSE intent[j]
      BY <1>4
    <3>2. j = k => store'.operations[j] = store.operations[j]
      BY <2>1 DEF Owed
    <3>3. j # k /\ store'.drafts[j] = store.drafts[j] => store'.operations[j] = store.operations[j]
      BY <2>1 DEF Rewrites
    <3> QED BY <1>4, <2>1, <3>1, <3>2, <3>3 DEF SlotStep
  <2> QED BY <1>1, <1>4, <2>1, <2>2
<1> QED BY <1>1, <1>2, <1>3, <1>4

LEMMA SyncPromises ==
    ASSUME Shape, Shape', WordsOK, Promised, NEW p \in Procs, SyncStep(p)
    PROVE  Promised'
<1>s. UNCHANGED request => NothingSent
  BY DEF NothingSent
<1>1. CASE TakeWork(p) \/ AskList(p) \/ ListArrives(p) \/ MergeEnds(p)
  <2>1. UNCHANGED <<store, web, clock, request, intent>>
    BY <1>1, SyncReads
  <2> QED BY <1>s, <2>1, SameSlots, SlotsKeepPromises
<1>2. ASSUME NEW k \in Keys, SaveShield(p, k)
      PROVE  Promised'
  <2> DEFINE a == app[p]
             tick == IF a.drafts[k] = None THEN clock ELSE a.drafts[k]
  <2>1. /\ store' = Persisted(a, k) /\ intent' = IntentAfterSave(a, k, tick)
        /\ UNCHANGED <<web, clock, request>>
    BY <1>2 DEF SaveShield
  <2>2. a.owner \in Owners /\ a.drafts[k] \in Words \union {None}
    BY <1>2, SyncsAreLive DEF SaveShield, Apps, Texts
  <2>3. tick <= clock'
    BY <2>1 DEF WordsOK, WordsAt, WrittenBy, Shape, ShapeOK
  <2> HIDE DEF a, tick
  <2>4. \A j \in Keys : SlotStep(j)
    BY <2>1, <2>2, <2>3, SaveSlots
  <2> QED BY <1>s, <2>1, <2>4, SlotsKeepPromises
<1>3. ASSUME NEW k \in Keys, RetryNext(p, k)
      PROVE  Promised'
  <2> DEFINE r == Asked(app[p].owner, k, sync[p].todo[k], None)
             w == <<p, 0>>
  <2>1. Begin(w, r) /\ r \in Relays(store) /\ w \in Workers /\ app[w[1]].live
    BY <1>3, RetrySteps
  <2> HIDE DEF r, w
  <2> QED BY <2>1, BeginPromises
<1>4. ASSUME NEW k \in Keys, Merge(p, k)
      PROVE  Promised'
  BY <1>s, <1>4, MergeSlots, SlotsKeepPromises
<1> QED BY <1>1, <1>2, <1>3, <1>4 DEF SyncStep

LEMMA BrowserPromises ==
    ASSUME Shape, Shape', Promised, DiskChanges \/ BrowserStep
    PROVE  Promised'
<1>1. CASE DiskChanges
  <2>1. UNCHANGED <<store, web, clock, request, intent>>
    BY <1>1 DEF DiskChanges
  <2> QED BY <2>1, SameSlots, SlotsKeepPromises DEF NothingSent
<1>2. ASSUME NEW u \in Owners, NEW k \in RemoteKeys, BrowserSaves(u, k) \/ BrowserDeletes(u, k)
      PROVE  Promised'
  <2>1. PICK text \in {None, clock + 1} :
          /\ clock' = clock + 1
          /\ web' = [web EXCEPT ![u][k] = [text |-> text, tick |-> clock + 1]]
          /\ UNCHANGED <<store, diskOk, app, sync, request, intent, author>>
    BY <1>2 DEF BrowserSaves, BrowserDeletes
  <2>2. /\ clock \in Nat /\ intent \in [Keys -> Nat] /\ RemoteKeys \subseteq Keys
        /\ \A w \in Workers : request[w].tick \in Nat
        /\ \A v \in Owners, j \in RemoteKeys : web[v][j].tick \in Nat
    BY KeysAssumption DEF Shape, ShapeOK, Sites, Requests, Relays, NoRequest
  <2>3. \A v \in Owners, j \in RemoteKeys :
          web'[v][j].tick = IF v = u /\ j = k THEN clock + 1 ELSE web[v][j].tick
    BY <2>1 DEF Shape, ShapeOK, Sites
  <2>4. \A v \in Owners, j \in RemoteKeys : web'[v][j].tick >= web[v][j].tick
    <3> SUFFICES ASSUME NEW v \in Owners, NEW j \in RemoteKeys
                 PROVE  web'[v][j].tick >= web[v][j].tick
      OBVIOUS
    <3>1. web[v][j].tick <= clock
      BY DEF Promised, Dated
    <3> QED BY <2>2, <2>3, <3>1
  <2>5. Dated'
    <3>1. \A j \in Keys : intent'[j] <= clock'
      BY <2>1, <2>2 DEF Promised, Dated
    <3>2. \A v \in Owners, j \in RemoteKeys : web'[v][j].tick <= clock'
      BY <2>1, <2>2, <2>3 DEF Promised, Dated
    <3>3. \A w \in Workers : request'[w].tick <= clock'
      BY <2>1, <2>2 DEF Promised, Dated
    <3> QED BY <3>1, <3>2, <3>3 DEF Dated
  <2>6. RequestsAreDue' /\ OneAtATime' /\ NobodyIntends'
    BY <2>1 DEF Promised, RequestsAreDue, OneAtATime, NobodyIntends, UnderWay, Owed
  <2>7. AnswersAreThere'
    <3> SUFFICES ASSUME NEW w \in Workers, request[w].pc = "answered"
                 PROVE  web'[request[w].owner][request[w].key].tick >= request[w].tick
      BY <2>1 DEF AnswersAreThere
    <3>1. request[w].key \in RemoteKeys /\ request[w].owner \in Owners
      BY RequestsAreLive
    <3>2. web[request[w].owner][request[w].key].tick >= request[w].tick
      BY DEF Promised, AnswersAreThere
    <3>3. web'[request[w].owner][request[w].key].tick \in Nat
      BY <2>2, <2>3, <3>1
    <3> QED BY <2>2, <2>4, <3>1, <3>2, <3>3
  <2>8. SyncedMeansReflected'
    <3> SUFFICES ASSUME NEW j \in RemoteKeys, store.owner # NoOwner, intent[j] > 0, ~Owed(store, j)
                 PROVE  web'[store.owner][j].tick >= intent[j]
      BY <2>1 DEF SyncedMeansReflected, Owed
    <3>1. web[store.owner][j].tick >= intent[j] /\ store.owner \in Owners /\ intent[j] \in Nat
      BY <2>2 DEF Promised, SyncedMeansReflected, Shape, FileOK, Sound, Stored
    <3>2. web'[store.owner][j].tick \in Nat
      BY <2>2, <2>3, <3>1
    <3> QED BY <2>2, <2>4, <3>1, <3>2
  <2> QED BY <2>5, <2>6, <2>7, <2>8 DEF Promised
<1> QED BY <1>1, <1>2 DEF BrowserStep

----------------------------------------------------------------------------
LEMMA StepPromises == Shape /\ Shape' /\ WordsOK /\ Promised /\ [Next]_vars => Promised'
<1> SUFFICES ASSUME Shape, Shape', WordsOK, Promised, [Next]_vars PROVE Promised'
  OBVIOUS
<1>1. CASE UNCHANGED vars
  <2>1. UNCHANGED <<store, web, clock, request, intent>>
    BY <1>1 DEF vars
  <2> QED BY <2>1, SameSlots, SlotsKeepPromises DEF NothingSent
<1>2. CASE Next
  BY <1>2, BrowserPromises, RequestPromises, SyncPromises, SessionPromises, ComposerPromises DEF Next
<1> QED BY <1>1, <1>2

LEMMA AlwaysInv == Spec => []Inv
<1>1. Init => Promised
  <2> SUFFICES ASSUME Init PROVE Promised
    OBVIOUS
  <2>1. /\ clock = 0 /\ \A k \in Keys : intent[k] = 0
        /\ \A w \in Workers : request[w].pc = "idle" /\ request[w].tick = 0
        /\ \A u \in Owners, k \in RemoteKeys : web[u][k].tick = 0
    BY DEF Init, NoRequest, NoWebDraft
  <2>2. RemoteKeys \subseteq Keys
    BY KeysAssumption
  <2> QED BY <2>1, <2>2 DEF Promised, Dated, RequestsAreDue, AnswersAreThere, OneAtATime,
                            NobodyIntends, SyncedMeansReflected, UnderWay
<1>2. Shape /\ Promised /\ WordsOK /\ [Next]_vars => Shape' /\ Promised'
  BY StepShape, StepPromises
<1> QED BY <1>1, <1>2, AlwaysWords, PTL DEF Spec, Inv

\* No superseded request, late answer, aborted task or sibling retires newer
\* work: a slot that owes the website nothing is one whose latest durable
\* intent the website has carried out or a browser has replaced since.
THEOREM NothingIsRetiredUnreflected == Spec => []SyncedMeansReflected
BY AlwaysInv, PTL DEF Inv, Promised

\* A merge only replaces, and only makes room by evicting, words whose latest
\* intent the website already has, or something later.
THEOREM MergesSpareTheUnreflected == Spec => MergeReplacesOnlyReflected
<1>1. Inv /\ [Next]_vars =>
        [\A p \in Procs, k \in Keys : Merge(p, k) =>
            \A j \in RemoteKeys : store'.drafts[j] # store.drafts[j]
                => web[store.owner][j].tick >= intent[j]]_vars
  <2> SUFFICES ASSUME Inv, NEW p \in Procs, NEW k \in Keys, Merge(p, k), NEW j \in RemoteKeys,
                      store'.drafts[j] # store.drafts[j]
               PROVE  web[store.owner][j].tick >= intent[j]
    OBVIOUS
  <2>1. Shape /\ SyncedMeansReflected /\ j \in Keys
    BY KeysAssumption DEF Inv, Promised
  <2>2. ~Owed(store, j) /\ store.owner \in Owners
    BY <2>1, MergeSlots
  <2>3. intent[j] \in Nat /\ web[store.owner][j].tick \in Nat
    BY <2>1, <2>2 DEF Shape, ShapeOK, Sites
  <2> QED BY <2>1, <2>2, <2>3, OwnersAssumption DEF SyncedMeansReflected
<1> QED BY <1>1, AlwaysInv, PTL DEF Spec, MergeReplacesOnlyReflected
=============================================================================
