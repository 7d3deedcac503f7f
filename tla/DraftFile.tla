------------------------------ MODULE DraftFile ------------------------------
(***************************************************************************)
(* The draft file of one site (common/src/drafts.rs): what it holds and    *)
(* what each call of `Store` makes of it.  Every call runs under the       *)
(* store's own lock and commits with one rename, so a call is a function   *)
(* from the file it read to the file it leaves.                            *)
(*                                                                         *)
(* A text is a number: a text typed later has a larger one, which is also  *)
(* its `saved_at`.  Title, label and attachment key travel with the text   *)
(* and are not modelled apart from it.  None is the empty text.            *)
(***************************************************************************)
EXTENDS Integers, FiniteSets

CONSTANTS
    Keys,          \* draft slots, ordered as their on-disk names are
    RemoteKeys,    \* those with an xf_key: all but EditPost
    Owners,        \* accounts: an origin and a user id
    NoOwner,
    Words,         \* the texts a composer can hold
    BigWords,      \* those above MAX_DRAFT_BYTES
    MaxDrafts,     \* MAX_DRAFTS
    MaxRevision    \* the last value of the u64 revision counter

None == 0

ASSUME KeysAssumption ==
    /\ Keys \subseteq Nat
    /\ IsFiniteSet(Keys)
    /\ RemoteKeys \subseteq Keys
ASSUME OwnersAssumption == NoOwner \notin Owners
ASSUME WordsAssumption ==
    /\ Words \subseteq Nat \ {None}
    /\ BigWords \subseteq Words
ASSUME BoundsAssumption == MaxDrafts \in Nat /\ MaxRevision \in Nat

Persistable(text) == text \in Words \ BigWords

Kinds == {"save", "delete"}
Revision == 0..MaxRevision
Operation == [revision : Revision, kind : Kinds]
NoOperation == [revision |-> 0, kind |-> "none"]

(***************************************************************************)
(* The file.  "absent" is version 0, what a missing file reads as; "other" *)
(* is any JSON with a version this build does not know; "garbage" is a     *)
(* file without a version or that is not JSON.  An absent revision is 0,   *)
(* which no minted revision is.                                            *)
(***************************************************************************)
Formats == {"absent", "v2", "v3", "other", "garbage"}

Stored ==
    [format     : Formats,
     owner      : Owners \union {NoOwner},
     drafts     : [Keys -> Words \union {None}],
     revision   : Revision,
     revisions  : [Keys -> Revision],
     operations : [Keys -> Operation \union {NoOperation}],
     owed       : SUBSET Keys]

NoDrafts == [k \in Keys |-> None]
NoRevisions == [k \in Keys |-> 0]
NoOperations == [k \in Keys |-> NoOperation]

Missing ==
    [format |-> "absent", owner |-> NoOwner, drafts |-> NoDrafts, revision |-> 0,
     revisions |-> NoRevisions, operations |-> NoOperations, owed |-> {}]

Held(s) == {k \in Keys : s.drafts[k] # None}
Owed(s, k) == s.operations[k] # NoOperation

----------------------------------------------------------------------------
\* next_revision refuses the value that would overflow.
CanAlwaysMint(s) == TRUE                             \* mutant
CanMint(s) == s.revision < MaxRevision

NextRevisionOfFile(s, k) == [s EXCEPT !.revision = @ + 1]     \* mutant
NextRevision(s, k) ==
    [s EXCEPT !.revision = s.revision + 1, !.revisions[k] = s.revision + 1]

BeforeByAge(s, protectDirty, j, k) ==                \* mutant
    s.drafts[j] > s.drafts[k] \/ (s.drafts[j] = s.drafts[k] /\ j < k)

\* The eviction order: owed slots first when they are protected, then the
\* newest, then the name.
Before(s, protectDirty, j, k) ==
    LET dirty(i) == protectDirty /\ Owed(s, i)
    IN  \/ dirty(j) /\ ~dirty(k)
        \/ /\ dirty(j) <=> dirty(k)
           /\ \/ s.drafts[j] > s.drafts[k]
              \/ s.drafts[j] = s.drafts[k] /\ j < k

EvictedBeyond(s, protectDirty) ==                    \* mutant
    {k \in Held(s) :
        Cardinality({j \in Held(s) : Before(s, protectDirty, j, k)}) > MaxDrafts}

Evicted(s, protectDirty) ==
    {k \in Held(s) :
        Cardinality({j \in Held(s) : Before(s, protectDirty, j, k)}) >= MaxDrafts}

TrimDraftsOnly(s, protectDirty) ==                   \* mutant
    LET gone == Evicted(s, protectDirty)
    IN  [s EXCEPT !.drafts = [k \in Keys |-> IF k \in gone THEN None ELSE @[k]]]

TrimDrafts(s, protectDirty) ==
    LET gone == Evicted(s, protectDirty)
    IN  [s EXCEPT
          !.drafts     = [k \in Keys |-> IF k \in gone THEN None ELSE @[k]],
          !.operations = [k \in Keys |-> IF k \in gone THEN NoOperation ELSE @[k]],
          !.revisions  = [k \in Keys |-> IF k \in gone THEN s.revision ELSE @[k]]]

----------------------------------------------------------------------------
\* Migration of a version 2 file: a surviving draft becomes a Save, an owed
\* deletion without one a Delete, each with a revision of its own in key order.
MigratedKeys(s) ==
    {k \in RemoteKeys : s.drafts[k] \in Words \ BigWords \/ k \in s.owed}

MigratedRevision(s, k) ==
    s.revision + Cardinality({j \in MigratedKeys(s) : j <= k})

Migrate(s) ==
    LET due == MigratedKeys(s)
    IN  [s EXCEPT
          !.format     = "v3",
          !.revision   = s.revision + Cardinality(due),
          !.revisions  = [k \in Keys |-> IF k \in due THEN MigratedRevision(s, k) ELSE @[k]],
          !.operations = [k \in Keys |->
              IF k \notin due THEN NoOperation
              ELSE [revision |-> MigratedRevision(s, k),
                    kind     |-> IF Persistable(s.drafts[k]) THEN "save" ELSE "delete"]],
          !.owed       = {}]

Readable(s) ==
    /\ s.format # "other"
    /\ s.format = "v2" => s.revision + Cardinality(MigratedKeys(s)) <= MaxRevision

\* read_locked: what a call starts from, already on disk when the call goes on.
ReadLocked(s) ==
    CASE s.format = "v2" /\ Readable(s) -> Migrate(s)
      [] s.format = "garbage"           -> Missing
      [] OTHER                          -> s

----------------------------------------------------------------------------
\* apply and merge_remote give a file that does not exist yet to their caller.
Adopted(s, owner) ==
    IF s.format = "absent" THEN [s EXCEPT !.format = "v3", !.owner = owner] ELSE s

\* The file a mutating call works on, and whether it may.
Opened(s, owner) == Adopted(ReadLocked(s), owner)
MayWriteForAnyone(s, owner) ==                       \* mutant
    Readable(s) /\ CanMint(Opened(s, owner))

MayWrite(s, owner) ==
    Readable(s) /\ Opened(s, owner).owner = owner /\ CanMint(Opened(s, owner))
Owns(s, owner) == Readable(s) /\ ReadLocked(s).owner = owner

AfterActivateAnew(s, owner) ==                       \* mutant
    LET now == ReadLocked(s)
    IN  IF now.owner = owner THEN now
        ELSE [Missing EXCEPT !.format = "v3", !.owner = owner]

AfterActivate(s, owner) ==
    LET now == ReadLocked(s)
    IN  IF now.owner = owner THEN now
        ELSE [now EXCEPT !.format = "v3", !.owner = owner, !.drafts = NoDrafts,
                         !.operations = NoOperations, !.revisions = NoRevisions]

\* The operation apply mints for this text, whether or not it is recorded.
MintedBy(s, owner, text) ==
    [revision |-> Opened(s, owner).revision + 1,
     kind     |-> IF text = None THEN "delete" ELSE "save"]

AfterApply(s, owner, key, text) ==
    LET op   == MintedBy(s, owner, text)
        next == NextRevision(Opened(s, owner), key)
        kept == Persistable(text)
        owes == key \in RemoteKeys /\ (kept \/ op.kind = "delete")
    IN  TrimDrafts([next EXCEPT
                      !.drafts[key]     = IF kept THEN text ELSE None,
                      !.operations[key] = IF owes THEN op ELSE NoOperation],
                   FALSE)

\* relay_work: the text to send for `expected`, or nothing to do.  A Delete
\* sends no text, so Work is a pair of whether there is work and the text.
NoWork == [due |-> FALSE, text |-> None]

RelayWork(s, key, expected, transient) ==
    LET now == ReadLocked(s)
        op  == now.operations[key]
    IN  CASE now.revisions[key] # expected.revision      -> NoWork
          [] op \notin {expected, NoOperation}           -> NoWork
          [] op = expected /\ expected.kind = "delete"   -> [due |-> TRUE, text |-> None]
          [] op = expected /\ expected.kind = "save"     ->
                [due |-> now.drafts[key] # None, text |-> now.drafts[key]]
          [] OTHER ->
                IF expected.kind = "save" /\ transient \in BigWords
                THEN [due |-> TRUE, text |-> transient] ELSE NoWork

AfterSettleOfAny(s, key, expected) ==                \* mutant
    [ReadLocked(s) EXCEPT !.operations[key] = NoOperation]

AfterSettle(s, key, expected) ==
    LET now == ReadLocked(s)
    IN  IF now.revisions[key] = expected.revision /\ now.operations[key] = expected
        THEN [now EXCEPT !.operations[key] = NoOperation] ELSE now

MayMergeOverOwed(s, owner, key, observed) ==         \* mutant
    Opened(s, owner).revisions[key] <= observed

\* A website copy may enter a slot that owes nothing and that nobody has
\* written since the list was asked for.
MayMerge(s, owner, key, observed) ==
    LET now == Opened(s, owner)
    IN  ~Owed(now, key) /\ now.revisions[key] <= observed

AfterMergeByAge(s, owner, key, text) ==              \* mutant
    TrimDrafts([NextRevision(Opened(s, owner), key) EXCEPT
                  !.drafts[key] = IF Persistable(text) THEN text ELSE None],
               FALSE)

AfterMerge(s, owner, key, text) ==
    TrimDrafts([NextRevision(Opened(s, owner), key) EXCEPT
                  !.drafts[key] = IF Persistable(text) THEN text ELSE None],
               TRUE)

\* merge_remote's answer: the caller may show this copy.
Accepted(s, owner, key, text) ==
    AfterMerge(s, owner, key, text).drafts[key] # None \/ text \in BigWords

AfterErase(s, owner) ==
    LET now == ReadLocked(s)
    IN  IF now.owner # owner THEN now
        ELSE [now EXCEPT !.owner = NoOwner, !.drafts = NoDrafts,
                         !.operations = NoOperations, !.revisions = NoRevisions]
=============================================================================
