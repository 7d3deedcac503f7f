------------------------------ MODULE DraftStore ------------------------------
(***************************************************************************)
(* The draft file under every sequence of `Store` calls that processes     *)
(* sharing it can make: any owner, slot, text, expected operation and      *)
(* observed revision.  It is what the processes of DraftSync rely on, and  *)
(* what DraftSync is shown to implement.                                   *)
(***************************************************************************)
EXTENDS DraftFile

VARIABLE store

vars == <<store>>

\* A build may find no file, its own, an older or newer build's, or garbage.
FirstFiles ==
    LET others == [Missing EXCEPT !.format = "other"]
        broken == [Missing EXCEPT !.format = "garbage"]
    IN  {Missing, others, broken}

OlderFile(owner, drafts, owed) ==
    [Missing EXCEPT !.format = "v2", !.owner = owner, !.drafts = drafts, !.owed = owed]

OlderDrafts ==
    {d \in [Keys -> (Words \ BigWords) \union {None}] :
        Cardinality({k \in Keys : d[k] # None}) <= MaxDrafts}

OlderFiles ==
    {OlderFile(owner, drafts, owed) :
        owner \in Owners, drafts \in OlderDrafts, owed \in SUBSET RemoteKeys}

Init == store \in FirstFiles \union OlderFiles

----------------------------------------------------------------------------
\* activate: the verified account takes the file over.
Activate(owner) ==
    /\ Readable(store)
    /\ store' = AfterActivate(store, owner)

\* apply: one composer's text, or None to discard it, and its obligation.
Apply(owner, key, text) ==
    /\ MayWrite(store, owner)
    /\ store' = AfterApply(store, owner, key, text)

\* settle: the website acknowledged `expected`.
Settle(owner, key, expected) ==
    /\ Owns(store, owner)
    /\ store' = AfterSettle(store, key, expected)

\* merge_remote: a website copy listed when the file was at `observed`.
MergeRemote(owner, key, text, observed) ==
    /\ MayWrite(store, owner)
    /\ MayMerge(store, owner, key, observed)
    /\ store' = AfterMerge(store, owner, key, text)

\* erase: the account signs out of this terminal.
Erase(owner) ==
    /\ Readable(store)
    /\ store' = AfterErase(store, owner)

\* snapshot, relay_work, and any call that fails after reading: the file is
\* read, which migrates an older one and sets a broken one aside.
Inspect == store' = ReadLocked(store)

Next ==
    \/ Inspect
    \/ \E owner \in Owners :
        \/ Activate(owner)
        \/ Erase(owner)
        \/ \E key \in Keys, text \in Words \union {None} : Apply(owner, key, text)
        \/ \E key \in RemoteKeys :
            \/ \E expected \in Operation : Settle(owner, key, expected)
            \/ \E text \in Words, observed \in Revision :
                   MergeRemote(owner, key, text, observed)

Spec == Init /\ [][Next]_vars

----------------------------------------------------------------------------
\* The file has the shape the code declares for it; in particular no
\* sequence of calls, migrations included, takes a revision past its width.
TypeOK == store \in Stored

\* Only an owed operation newer than everything before it may be in the file:
\* no slot's fence is ahead of the counter, and an operation carries the
\* fence of its own slot, so relay_work and settle can tell the current
\* operation from every superseded one by its revision (drafts.rs:469-495).
OperationIsCurrent ==
    \A k \in Keys :
        /\ store.revisions[k] <= store.revision
        /\ Owed(store, k) => store.operations[k].revision = store.revisions[k]

\* "No replayable Save is persisted without its payload" (drafts.rs:413): an
\* owed Save has its text beside it and an owed Delete has none, whatever
\* eviction, migration, merging or signing out did in between.
PayloadMatches ==
    \A k \in Keys :
        Owed(store, k) =>
            /\ k \in RemoteKeys
            /\ (store.operations[k].kind = "save") <=> (store.drafts[k] # None)

\* What is on disk is there for its owner: signing out leaves no words, no
\* owed work and no fences behind (drafts.rs:559-565).
NobodysFileIsEmpty ==
    store.owner = NoOwner =>
        /\ store.drafts = NoDrafts
        /\ store.operations = NoOperations
        /\ store.revisions = NoRevisions
        /\ store.owed = {}

\* Neither an oversized text nor more than MAX_DRAFTS of them reach the disk.
Bounded ==
    /\ Cardinality(Held(store)) <= MaxDrafts
    /\ \A k \in Keys : store.drafts[k] \notin BigWords

\* Revisions are "never reused, including across account changes"
\* (drafts.rs:183): every operation that enters the file is newer than all
\* the file ever minted, so a process still holding an operation from before
\* a sign-out can never mistake the new one for it.
RevisionsAreFresh ==
    [][ /\ store'.revision >= store.revision
        /\ \A k \in Keys :
            (Owed(store, k)' /\ store'.operations[k] # store.operations[k])
                => store'.operations[k].revision > store.revision ]_vars

\* "A remote list must not evict unsynced local words" (drafts.rs:537): a
\* merge leaves every owed slot as it was, the slots it did not name included.
MergeSparesOwed ==
    [][ \A owner \in Owners, key \in RemoteKeys, text \in Words, observed \in Revision :
            MergeRemote(owner, key, text, observed) =>
                LET was == Opened(store, owner)
                IN  \A k \in Keys : Owed(was, k) =>
                        /\ store'.operations[k] = was.operations[k]
                        /\ store'.drafts[k] = was.drafts[k] ]_vars
=============================================================================
