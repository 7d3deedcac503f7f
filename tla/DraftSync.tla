------------------------------ MODULE DraftSync ------------------------------
(***************************************************************************)
(* Composer drafts shared by the terminals of one machine and the website. *)
(* Each process keeps its drafts in memory and in the one draft file of    *)
(* DraftFile; the file also records which slots the website is still owed. *)
(* A composer that closes, a session that goes live and a website list     *)
(* that arrives all meet in that file, from several processes at once      *)
(* (wftui/src/app/mod.rs, session.rs, msg.rs; the relay's server side is   *)
(* addon/.../DraftController.php).                                         *)
(***************************************************************************)
EXTENDS DraftFile

CONSTANTS
    Procs,      \* running terminals that share the draft file
    Faults      \* which of the events below the environment may cause
ASSUME FaultsAssumption ==
    Faults \subseteq {"refuse", "missing", "fail", "disk", "exit", "expire", "signout"}

VARIABLES
    store,      \* the draft file
    diskOk,     \* whether the file can be written
    web,        \* web[u][k]: the website's draft and when it became so
    clock,      \* the number of texts, discards and browser edits so far
    app,        \* app[p]: the draft fields of struct App
    sync,       \* sync[p]: the sync_drafts task and the list it delivers
    request,    \* request[w]: one relay_draft_operation in progress
    intent,     \* auxiliary: when the durable intent of a slot was formed
    author      \* auxiliary: the account each text is typed under

vars == <<store, diskOk, web, clock, app, sync, request, intent, author>>

\* Slot 0 is the retry loop of sync_drafts, slot k a relay_draft(k).
Workers == Procs \X ({0} \union RemoteKeys)
Larger(a, b) == IF a > b THEN a ELSE b

\* A save that failed: revision zero shields the slot and is never sent.
Shield(kind) == [revision |-> 0, kind |-> kind]
Shields == {Shield(kind) : kind \in Kinds}

Off == [owner |-> NoOwner, live |-> FALSE, drafts |-> NoDrafts,
        operations |-> NoOperations, epoch |-> 0,
        mutations |-> NoRevisions, relayAbsent |-> FALSE]
NoSync == [pc |-> "idle", todo |-> NoOperations, epoch |-> 0, list |-> NoDrafts]
NoRequest == [pc |-> "idle", owner |-> NoOwner, key |-> 0, op |-> NoOperation,
              text |-> None, tick |-> 0]
NoWebDraft == [text |-> None, tick |-> 0]

Init ==
    /\ store = Missing
    /\ diskOk = TRUE
    /\ web = [u \in Owners |-> [k \in RemoteKeys |-> NoWebDraft]]
    /\ clock = 0
    /\ app = [p \in Procs |-> Off]
    /\ sync = [p \in Procs |-> NoSync]
    /\ request = [w \in Workers |-> NoRequest]
    /\ intent = [k \in Keys |-> 0]
    /\ author \in [Words -> Owners]

Idled(p) == [w \in Workers |-> IF w[1] = p THEN NoRequest ELSE request[w]]

----------------------------------------------------------------------------
\* persist_draft: text, obligation and revision in one transaction, or a
\* shield in memory when the file refuses.
Saves(a) == diskOk /\ MayWrite(store, a.owner)

PersistDraft(a, k) ==
    IF Saves(a)
    THEN LET op == MintedBy(store, a.owner, a.drafts[k])
         IN  [a EXCEPT !.epoch = Larger(@, op.revision),
                       !.operations[k] = IF k \in RemoteKeys THEN op ELSE @]
    ELSE [a EXCEPT !.epoch = @ + 1,
                   !.operations[k] =
                       IF k \notin RemoteKeys THEN @
                       ELSE Shield(IF a.drafts[k] = None THEN "delete" ELSE "save")]

PersistedAlone(a, k) ==                              \* mutant
    IF Saves(a) THEN [store EXCEPT !.drafts[k] = a.drafts[k]] ELSE store

Persisted(a, k) ==
    IF Saves(a) THEN AfterApply(store, a.owner, k, a.drafts[k]) ELSE store

\* Auxiliary: slot k now wants what was formed at `tick`; a slot whose words
\* are evicted, at once or later, or too big to keep, wants nothing any more.
IntentAfterSave(a, k, tick) ==
    IF ~Saves(a) THEN intent
    ELSE [j \in Keys |->
            IF j = k THEN IF Persisted(a, k).drafts[k] = a.drafts[k] THEN tick ELSE 0
            ELSE IF Persisted(a, k).drafts[j] = store.drafts[j] THEN intent[j] ELSE 0]

\* The event loop of p is free to take a key press.
Attentive(p) == app[p].live /\ sync[p].pc \notin {"saving", "merging"}
Room == clock + 1 \in Words /\ store.revision < MaxRevision

\* stash_draft_impl and discard_draft_local once the text is decided: the
\* draft in memory, its mutation fence, and the draft on disk.  In memory:
Keeping(p, k, text) ==
    LET saved == PersistDraft([app[p] EXCEPT !.drafts[k] = text], k)
    IN  [saved EXCEPT !.mutations[k] = saved.epoch]

\* ... and on disk.
Keep(p, k, text) ==
    LET a == [app[p] EXCEPT !.drafts[k] = text]
    IN  /\ Room
        /\ text # None => author[text] = a.owner
        /\ store' = Persisted(a, k)
        /\ intent' = IntentAfterSave(a, k, clock + 1)
        /\ clock' = clock + 1

\* relay_draft_operation as it is called, before it has the slot's lock.
Asked(owner, k, op, text) ==
    [pc |-> "waiting", owner |-> owner, key |-> k, op |-> op, text |-> text, tick |-> 0]

\* relay_draft spawns a task for the slot, unless there is no relay or the
\* save failed.  A second task for a slot whose first is still waiting takes
\* its place: the first would find its revision superseded and do nothing.
RelayDraft(p, k, a) ==
    LET sends == k \in RemoteKeys /\ ~a.relayAbsent /\ a.operations[k] \notin Shields
    IN  /\ sends => request[<<p, k>>].pc \in {"idle", "waiting"}
        /\ request' = IF ~sends THEN request
                      ELSE [request EXCEPT ![<<p, k>>] =
                              Asked(a.owner, k, a.operations[k], a.drafts[k])]

\* A composer closes with words in it, and they are relayed; or they are
\* mirrored while its submission is in flight, and they are not.
StashDraft(p, k, relay) ==
    /\ Attentive(p)
    /\ Keep(p, k, clock + 1)
    /\ app' = [app EXCEPT ![p] = Keeping(p, k, clock + 1)]
    /\ IF relay THEN RelayDraft(p, k, Keeping(p, k, clock + 1)) ELSE UNCHANGED request
    /\ UNCHANGED <<diskOk, web, sync, author>>

\* A composer closes empty, or its post was accepted, or the draft is dropped.
DiscardDraft(p, k) ==
    /\ Attentive(p)
    /\ Keep(p, k, None)
    /\ app' = [app EXCEPT ![p] = Keeping(p, k, None)]
    /\ RelayDraft(p, k, Keeping(p, k, None))
    /\ UNCHANGED <<diskOk, web, sync, author>>

----------------------------------------------------------------------------
\* sync_drafts up to its spawn: failed saves are tried again first.
SyncAfter(p, a) ==
    IF a.relayAbsent THEN NoSync
    ELSE LET shields == [k \in Keys |-> IF a.operations[k] \in Shields
                                        THEN a.operations[k] ELSE NoOperation]
         IN  [NoSync EXCEPT !.pc = IF shields = NoOperations THEN "start" ELSE "saving",
                            !.todo = shields]

\* select_draft_owner and start_pollers, when a sign-in or a verification of
\* the stored grant succeeds.  A live session that turns out to be another
\* account's is torn down first, and its drafts erased (Bootstrap).  A live
\* session that is verified again waits for its previous sync to end, which
\* bounds the sync tasks of a process to one.
GoLive(p, u) ==
    LET was      == app[p]
        changed  == was.live /\ was.owner # u
        cleared  == IF changed /\ diskOk THEN AfterErase(store, was.owner) ELSE store
        base     == IF changed THEN [Off EXCEPT !.epoch = was.epoch + 1,
                                                !.relayAbsent = was.relayAbsent]
                    ELSE was
        takes    == diskOk \/ cleared.owner = u
        file     == IF takes THEN AfterActivate(cleared, u) ELSE cleared
        selected == IF base.owner = u THEN base
                    ELSE [base EXCEPT !.owner = u, !.drafts = IF takes THEN file.drafts ELSE NoDrafts,
                                      !.mutations = NoRevisions, !.operations = NoOperations]
        ready    == IF ~Owns(file, u) THEN selected
                    ELSE [selected EXCEPT
                            !.epoch = Larger(@, file.revision),
                            !.operations = [k \in Keys |->
                                IF Owed(file, k) THEN file.operations[k] ELSE @[k]]]
    IN  /\ IF changed THEN Attentive(p) ELSE sync[p].pc = "idle"
        /\ was.epoch < MaxRevision
        /\ store' = file
        /\ app' = [app EXCEPT ![p] = [ready EXCEPT !.live = TRUE]]
        /\ sync' = [sync EXCEPT ![p] = SyncAfter(p, ready)]
        /\ request' = IF changed THEN Idled(p) ELSE request
        /\ intent' = IF file.revisions = NoRevisions THEN [k \in Keys |-> 0] ELSE intent
        /\ UNCHANGED <<diskOk, web, clock, author>>

EndsTasks(p) ==
    /\ sync' = [sync EXCEPT ![p] = NoSync]
    /\ request' = Idled(p)

\* The composer that is still open, if any, is kept on the way out: what p
\* becomes of its memory is `a`.
Leaving(p, a) ==
    \/ a = app[p] /\ UNCHANGED <<store, intent, clock>>
    \/ \E k \in Keys, text \in {None, clock + 1} : a = Keeping(p, k, text) /\ Keep(p, k, text)

Memories(p) ==
    {app[p]} \union {Keeping(p, k, text) : k \in Keys, text \in {None, clock + 1}}

\* end_session: the session expired.  Its tasks are aborted wherever they
\* are, which releases the relay locks they hold; drafts stay.
EndSession(p) ==
    /\ "expire" \in Faults
    /\ Attentive(p)
    /\ \E a \in Memories(p) : Leaving(p, a) /\ app' = [app EXCEPT ![p] = [a EXCEPT !.live = FALSE]]
    /\ EndsTasks(p)
    /\ UNCHANGED <<diskOk, web, author>>

\* logout: end_session, then clear_all_drafts.  The composer still open is
\* kept and erased at once, which leaves nothing but a larger revision.
SignOut(p) ==
    /\ "signout" \in Faults
    /\ Attentive(p) /\ app[p].epoch < MaxRevision
    /\ store' = IF diskOk THEN AfterErase(store, app[p].owner) ELSE store
    /\ app' = [app EXCEPT ![p] = [Off EXCEPT !.epoch = app[p].epoch + 1,
                                             !.relayAbsent = app[p].relayAbsent]]
    /\ EndsTasks(p)
    /\ intent' = IF store'.revisions = NoRevisions THEN [k \in Keys |-> 0] ELSE intent
    /\ UNCHANGED <<diskOk, web, clock, author>>

\* shutdown keeps the open composer; a crash keeps nothing.  Only the file
\* remains.
Exit(p) ==
    /\ "exit" \in Faults
    /\ app[p] # Off
    /\ \/ UNCHANGED <<store, intent, clock>>
       \/ Attentive(p) /\ \E a \in Memories(p) \ {app[p]} : Leaving(p, a)
    /\ app' = [app EXCEPT ![p] = Off]
    /\ EndsTasks(p)
    /\ UNCHANGED <<diskOk, web, author>>

----------------------------------------------------------------------------
\* relay_draft_operation.  A task takes the slot's lock across processes and
\* reads its work in one step: nothing another process does between the two
\* can tell them apart, since only a lock holder's task looks at the lock.
LockQueued(k) == \E w \in Workers : request[w].key = k /\ request[w].pc # "idle"   \* mutant
LockHeld(k) == \E w \in Workers : request[w].key = k /\ request[w].pc \in {"sent", "answered"}

\* The task of w ends: its operation leaves memory if it is still the pending
\* one, and a missing relay switches mirroring off for the process.
TaskEnds(w, r, retired, missing) ==
    LET p == w[1]
        k == r.key
    IN  /\ request' = [request EXCEPT ![w] = NoRequest]
        /\ app' = [app EXCEPT
                    ![p].operations[k] =
                        IF retired /\ @ = r.op THEN NoOperation ELSE @,
                    ![p].relayAbsent = @ \/ missing]
        /\ sync' = IF w[2] # 0 THEN sync
                   ELSE IF missing THEN [sync EXCEPT ![p] = NoSync]
                   ELSE [sync EXCEPT ![p].todo[k] = NoOperation]

Begin(w, r) ==
    LET work == RelayWork(store, r.key, r.op, r.text)
    IN  /\ ~LockHeld(r.key)
        /\ IF Owns(store, r.owner) /\ work.due
           THEN /\ request' = [request EXCEPT ![w] = [r EXCEPT !.pc = "sent", !.text = work.text,
                                                               !.tick = intent[r.key]]]
                /\ UNCHANGED <<app, sync>>
           ELSE TaskEnds(w, r, Owns(store, r.owner), FALSE)
        /\ UNCHANGED <<store, diskOk, web, clock, intent, author>>

StartWork(w) == request[w].pc = "waiting" /\ Begin(w, request[w])

\* The website carries a request out ...
WebsiteActs(w) ==
    LET r == request[w]
    IN  /\ r.pc = "sent"
        /\ request' = [request EXCEPT ![w].pc = "answered"]
        /\ web' = [web EXCEPT ![r.owner][r.key] =
                     [text |-> r.text, tick |-> r.tick]]
        /\ UNCHANGED <<store, diskOk, clock, app, sync, intent, author>>

\* ... and its acknowledgment retires the operation, if it is still the
\* current one.  So does a refusal, for a target the member cannot see.
SettleWork(w) ==
    LET r       == request[w]
        refused == r.pc = "sent" /\ r.op.kind = "save" /\ "refuse" \in Faults
        after   == AfterSettle(store, r.key, r.op)
    IN  /\ r.pc = "answered" \/ refused
        /\ Owns(store, r.owner) /\ (diskOk \/ after = store)
        /\ store' = after
        /\ intent' = IF refused /\ after # store THEN [intent EXCEPT ![r.key] = 0] ELSE intent
        /\ TaskEnds(w, r, TRUE, FALSE)
        /\ UNCHANGED <<diskOk, web, clock, author>>

\* The request or its answer is lost, or settle fails: the operation stays owed.
LoseWork(w) ==
    LET r == request[w]
    IN  /\ \/ r.pc \in {"sent", "answered"} /\ "fail" \in Faults
           \/ r.pc = "answered" /\ ~(Owns(store, r.owner) /\ diskOk)
        /\ TaskEnds(w, r, FALSE, FALSE)
        /\ UNCHANGED <<store, diskOk, web, clock, intent, author>>

\* The website answers that it has no relay: the operation stays owed.
RelayMissing(w) ==
    /\ "missing" \in Faults
    /\ request[w].pc = "sent"
    /\ TaskEnds(w, request[w], FALSE, TRUE)
    /\ UNCHANGED <<store, diskOk, web, clock, intent, author>>

----------------------------------------------------------------------------
Pending(p) == {k \in Keys : sync[p].todo[k] # NoOperation}

SaveShield(p, k) ==
    /\ sync[p].pc = "saving"
    /\ k \in Pending(p)
    /\ app[p].epoch < MaxRevision /\ store.revision < MaxRevision
    /\ store' = Persisted(app[p], k)
    /\ app' = [app EXCEPT ![p] = PersistDraft(app[p], k)]
    /\ sync' = [sync EXCEPT ![p].todo[k] = NoOperation,
                            ![p].pc = IF Pending(p) = {k} THEN "start" ELSE @]
    /\ intent' = IntentAfterSave(app[p], k, IF app[p].drafts[k] = None THEN clock ELSE app[p].drafts[k])
    /\ UNCHANGED <<diskOk, web, clock, request, author>>

TakeRemembered(p) ==                                 \* mutant
    /\ sync[p].pc = "start"
    /\ sync' = [sync EXCEPT ![p] = [NoSync EXCEPT !.pc = "retry", !.todo =
                  [k \in Keys |-> IF app[p].operations[k] \in Shields THEN NoOperation
                                  ELSE app[p].operations[k]]]]
    /\ UNCHANGED <<store, diskOk, web, clock, app, request, intent, author>>

\* The sync task reads what the file owes.
TakeWork(p) ==
    /\ sync[p].pc = "start"
    /\ sync' = [sync EXCEPT ![p] =
                  IF Owns(store, app[p].owner)
                  THEN [NoSync EXCEPT !.pc = "retry", !.todo = store.operations] ELSE NoSync]
    /\ UNCHANGED <<store, diskOk, web, clock, app, request, intent, author>>

\* It relays what it read in key order, one request at a time.
RetryNext(p, k) ==
    /\ sync[p].pc = "retry"
    /\ k \in Pending(p) /\ \A j \in Pending(p) : k <= j
    /\ request[<<p, 0>>].pc = "idle"
    /\ Begin(<<p, 0>>, Asked(app[p].owner, k, sync[p].todo[k], None))

\* The list is fenced by the revision the file is at when it is asked for.
AskList(p) ==
    /\ sync[p].pc = "retry"
    /\ Pending(p) = {}
    /\ sync' = [sync EXCEPT ![p] =
                  IF Owns(store, app[p].owner)
                  THEN [NoSync EXCEPT !.pc = "asking", !.epoch = store.revision] ELSE NoSync]
    /\ UNCHANGED <<store, diskOk, web, clock, app, request, intent, author>>

ListArrives(p) ==
    /\ sync[p].pc = "asking"
    /\ \/ /\ sync' = [sync EXCEPT ![p].pc = "listed",
                                  ![p].list = [k \in Keys |-> IF k \in RemoteKeys
                                                THEN web[app[p].owner][k].text ELSE None]]
          /\ UNCHANGED app
       \/ /\ {"missing", "fail"} \cap Faults # {}
          /\ sync' = [sync EXCEPT ![p] = NoSync]
          /\ \E absent \in {f = "missing" : f \in {"missing", "fail"} \cap Faults} :
                app' = [app EXCEPT ![p].relayAbsent = @ \/ absent]
    /\ UNCHANGED <<store, diskOk, web, clock, request, intent, author>>

\* merge_remote_drafts for one listed draft.
Listed(p) == {k \in Keys : sync[p].list[k] # None}

Passed(p, k) ==
    \/ app[p].mutations[k] > sync[p].epoch
    \/ app[p].operations[k] \in Shields
    \/ app[p].operations[k] # NoOperation /\ app[p].drafts[k] \in BigWords

Merge(p, k) ==
    LET text  == sync[p].list[k]
        owner == app[p].owner
        may   == MayMerge(store, owner, k, sync[p].epoch)
        takes == may /\ diskOk
    IN  /\ sync[p].pc \in {"listed", "merging"}
        /\ k \in Listed(p)
        /\ store.revision < MaxRevision
        /\ sync' = [sync EXCEPT ![p].pc = "merging", ![p].list[k] = None]
        /\ IF Passed(p, k) \/ ~Owns(store, owner) \/ (may /\ ~diskOk)
           THEN UNCHANGED <<store, app, intent>>
           ELSE /\ store' = IF takes THEN AfterMerge(store, owner, k, text) ELSE store
                /\ app' = [app EXCEPT ![p].drafts[k] =
                             IF takes /\ Accepted(store, owner, k, text) THEN text
                             ELSE store'.drafts[k]]
                /\ intent' = [j \in Keys |-> IF j # k /\ store'.drafts[j] # store.drafts[j]
                                             THEN 0 ELSE intent[j]]
        /\ UNCHANGED <<diskOk, web, clock, request, author>>

MergeEnds(p) ==
    LET epoch == sync[p].epoch
    IN  /\ sync[p].pc \in {"listed", "merging"}
        /\ Listed(p) = {}
        /\ app' = [app EXCEPT ![p].mutations = [k \in Keys |-> IF @[k] > epoch THEN @[k] ELSE 0]]
        /\ sync' = [sync EXCEPT ![p] = NoSync]
        /\ UNCHANGED <<store, diskOk, web, clock, request, intent, author>>

----------------------------------------------------------------------------
\* The member's browser, and the disk.
BrowserSaves(u, k) ==
    /\ clock + 1 \in Words \ BigWords
    /\ author[clock + 1] = u
    /\ clock' = clock + 1
    /\ web' = [web EXCEPT ![u][k] = [text |-> clock + 1, tick |-> clock + 1]]
    /\ UNCHANGED <<store, diskOk, app, sync, request, intent, author>>

BrowserDeletes(u, k) ==
    /\ clock + 1 \in Words
    /\ web[u][k].text # None
    /\ clock' = clock + 1
    /\ web' = [web EXCEPT ![u][k] = [text |-> None, tick |-> clock + 1]]
    /\ UNCHANGED <<store, diskOk, app, sync, request, intent, author>>

DiskChanges ==
    /\ "disk" \in Faults
    /\ diskOk' = ~diskOk
    /\ UNCHANGED <<store, web, clock, app, sync, request, intent, author>>

\* What a spawned task and the event loop do on their own ...
RequestStep(w) ==
    StartWork(w) \/ WebsiteActs(w) \/ SettleWork(w) \/ LoseWork(w) \/ RelayMissing(w)

SyncStep(p) ==
    \/ TakeWork(p) \/ AskList(p) \/ ListArrives(p) \/ MergeEnds(p)
    \/ \E k \in Keys : SaveShield(p, k) \/ RetryNext(p, k) \/ Merge(p, k)

\* ... and what the member and the faults make of them.
SessionStep(p) == EndSession(p) \/ SignOut(p) \/ Exit(p) \/ \E u \in Owners : GoLive(p, u)

ComposerStep(p) ==
    \E k \in Keys : DiscardDraft(p, k) \/ \E relay \in BOOLEAN : StashDraft(p, k, relay)

BrowserStep == \E u \in Owners, k \in RemoteKeys : BrowserSaves(u, k) \/ BrowserDeletes(u, k)

Next ==
    \/ DiskChanges
    \/ BrowserStep
    \/ \E w \in Workers : RequestStep(w)
    \/ \E p \in Procs : SyncStep(p) \/ SessionStep(p) \/ ComposerStep(p)

Spec == Init /\ [][Next]_vars

\* Spawned tasks run and the event loop empties its queue; a request is
\* answered or times out (http.rs).  Nothing obliges the member, the browser
\* or the faults.
TaskFairness ==
    /\ \A p \in Procs : WF_vars(SyncStep(p))
    /\ \A w \in Workers : WF_vars(RequestStep(w))

FairSpec == Spec /\ TaskFairness

\* The processes use the file only through the calls of DraftStore.
File == INSTANCE DraftStore WITH store <- store

----------------------------------------------------------------------------
Sites == [Owners -> [RemoteKeys ->
             [text : Words \union {None}, tick : Nat]]]

\* Every variable has the shape its struct or task gives it, and no task
\* outlives the session that spawned it (session.rs:84).
TypeOK ==
    /\ store \in Stored
    /\ diskOk \in BOOLEAN
    /\ web \in Sites
    /\ clock \in Nat
    /\ \A p \in Procs :
        /\ app[p].owner \in Owners \union {NoOwner}
        /\ app[p].drafts \in [Keys -> Words \union {None}]
        /\ app[p].operations \in [Keys -> Operation \union {NoOperation}]
        /\ app[p].epoch \in Nat
        /\ IF app[p].live THEN app[p].owner # NoOwner
           ELSE /\ sync[p] = NoSync
                /\ \A w \in Workers : w[1] = p => request[w] = NoRequest
        /\ sync[p].pc \in {"idle", "saving", "start", "retry", "asking", "listed", "merging"}
        /\ sync[p].list \in [Keys -> Words \union {None}]
    /\ \A w \in Workers :
        /\ request[w].pc \in {"idle", "waiting", "sent", "answered"}
        /\ request[w].op \in Operation \union {NoOperation}

\* A slot that owes the website nothing is one whose latest durable intent,
\* words or discard, the website has carried out or a browser has replaced
\* since: no superseded request, late answer, aborted task or sibling may
\* retire newer work (drafts.rs:486, mod.rs:2240).
SyncedMeansReflected ==
    \A k \in RemoteKeys :
        (store.owner # NoOwner /\ intent[k] > 0 /\ ~Owed(store, k))
            => web[store.owner][k].tick >= intent[k]

\* Neither the draft file nor the website ever holds under one account what
\* was written under another, whichever process is signed in as whom
\* (drafts.rs:166, session.rs:668, msg.rs:350).
WordsStayWithTheirAccount ==
    /\ \A k \in Keys : store.drafts[k] # None => author[store.drafts[k]] = store.owner
    /\ \A u \in Owners, k \in RemoteKeys : web[u][k].text # None => author[web[u][k].text] = u

\* A merge replaces or evicts words on disk only when the website already has
\* the latest intent of their slot or something later (drafts.rs:505-542).
MergeReplacesOnlyReflected ==
    [][\A p \in Procs, k \in Keys : Merge(p, k) =>
        \A j \in RemoteKeys : store'.drafts[j] # store.drafts[j]
            => web[store.owner][j].tick >= intent[j]]_vars

\* "Import a website copy only if no local mutation superseded the list's
\* snapshot and no unsynced intent owns this slot" (drafts.rs:505): a merge
\* does not put back what the website held before the slot's latest intent.
MergeNeverGoesBack ==
    [][\A p \in Procs, k \in Keys :
        (Merge(p, k) /\ store'.drafts[k] # store.drafts[k])
            => store'.drafts[k] >= intent[k]]_vars

\* Eventually no terminal exits and nobody signs in again: without it a sibling
\* that keeps taking a slot's lock and exiting can starve the others.
SettlesDown == <>[][~ \E p \in Procs : Exit(p) \/ \E u \in Owners : GoLive(p, u)]_vars

\* Every relay and every sync ends, however many processes want the same
\* slots: the per-slot locks held across requests (drafts.rs:278) never leave
\* two tasks waiting for each other.  At MaxRevision the model stops.
WorkEnds ==
    SettlesDown =>
        /\ \A w \in Workers : request[w].pc # "idle" ~> request[w].pc = "idle"
        /\ \A p \in Procs :
            sync[p].pc # "idle" ~> (sync[p].pc = "idle" \/ store.revision = MaxRevision)

\* What the file owes when a sync starts leaves the file or is superseded,
\* though the terminal that owed it may be gone and a sibling's relay may hold
\* the slot: a deferred draft is retried, never forgotten (mod.rs:2168).
OwedWorkIsRelayed ==
    SettlesDown =>
        \A p \in Procs, k \in RemoteKeys, n \in 1..MaxRevision :
            (sync[p].pc = "start" /\ store.operations[k].revision = n)
                ~> (store.operations[k].revision # n \/ ~app[p].live)

\* Every step of every process is one call of DraftStore, or none.
UsesTheStore == File!Spec

=============================================================================
