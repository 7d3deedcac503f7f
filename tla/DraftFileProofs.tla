--------------------------- MODULE DraftFileProofs ---------------------------
(***************************************************************************)
(* What each call on the draft file keeps and bounds.  The lemmas speak    *)
(* of a file s and the file a call, or a part of a call, makes of it, not  *)
(* of a variable, so that both DraftStore and DraftSync can use them.      *)
(*                                                                         *)
(* Sound(s) is the consistency of revisions, operations and payloads, and  *)
(* Fresh(s, t) the freshness of what a call adds.                          *)
(***************************************************************************)
EXTENDS DraftFile, FiniteSetTheorems, TLAPS

Fenced(s) ==
    \A k \in Keys :
        /\ s.revisions[k] <= s.revision
        /\ Owed(s, k) => s.operations[k].revision = s.revisions[k]

Paid(s) ==
    \A k \in Keys :
        Owed(s, k) =>
            /\ k \in RemoteKeys
            /\ (s.operations[k].kind = "save") <=> (s.drafts[k] # None)

Small(s) == \A k \in Keys : s.drafts[k] \notin BigWords

Emptied(s) ==
    s.owner = NoOwner =>
        /\ s.drafts = NoDrafts
        /\ s.operations = NoOperations
        /\ s.revisions = NoRevisions
        /\ s.owed = {}

\* A file the program cannot read has never been written by it, and only
\* version 2 kept the owed deletions apart.
Formed(s) ==
    /\ s.format = "garbage" => s.revision = 0
    /\ s.format # "v2" => s.owed = {}

Sound(s) == s \in Stored /\ Fenced(s) /\ Paid(s) /\ Small(s) /\ Emptied(s) /\ Formed(s)

\* The counter never goes back, and what t owes and s did not is newer than
\* all that s ever minted.
Fresh(s, t) ==
    /\ t.revision >= s.revision
    /\ \A k \in Keys :
        (Owed(t, k) /\ t.operations[k] # s.operations[k])
            => t.operations[k].revision > s.revision

USE DEF None
----------------------------------------------------------------------------
LEMMA FreshTransitive ==
    ASSUME NEW s \in Stored, NEW t \in Stored, NEW u \in Stored, Fresh(s, t), Fresh(t, u)
    PROVE  Fresh(s, u)
<1>1. u.revision >= s.revision
  BY DEF Fresh, Stored, Revision
<1>2. ASSUME NEW k \in Keys, Owed(u, k), u.operations[k] # s.operations[k]
      PROVE  u.operations[k].revision > s.revision
  <2>1. CASE u.operations[k] = t.operations[k]
    BY <1>2, <2>1 DEF Fresh, Owed
  <2>2. CASE u.operations[k] # t.operations[k]
    <3>1. u.operations[k].revision > t.revision
      BY <1>2, <2>2 DEF Fresh
    <3>2. u.operations[k] \in Operation
      BY <1>2 DEF Stored, Owed
    <3>3. u.operations[k].revision \in Revision
      BY <3>2 DEF Operation
    <3> QED BY <3>1, <3>3, BoundsAssumption DEF Fresh, Stored, Revision
  <2> QED BY <2>1, <2>2
<1> QED BY <1>1, <1>2 DEF Fresh

LEMMA FreshReflexive ==
    ASSUME NEW s \in Stored
    PROVE  Fresh(s, s)
BY DEF Fresh, Stored, Revision

LEMMA MissingIsSound == Sound(Missing)
<1>1. Missing \in Stored
  BY BoundsAssumption
  DEF Missing, Stored, Formats, NoDrafts, NoRevisions, NoOperations, Revision
<1>2. Fenced(Missing)
  BY DEF Missing, Fenced, NoRevisions, NoOperations, Owed
<1>3. Paid(Missing)
  BY DEF Missing, Paid, NoOperations, Owed
<1>4. Small(Missing)
  BY WordsAssumption DEF Missing, Small, NoDrafts
<1> QED BY <1>1, <1>2, <1>3, <1>4 DEF Sound, Emptied, Missing, Formed

LEMMA TrimIsSound ==
    ASSUME NEW s, Sound(s), s.owner # NoOwner, NEW protect \in BOOLEAN
    PROVE  /\ Sound(TrimDrafts(s, protect))
           /\ Fresh(s, TrimDrafts(s, protect))
<1> DEFINE gone == Evicted(s, protect)
           t == TrimDrafts(s, protect)
<1>s. s \in Stored
  BY DEF Sound
<1>g. \A k \in gone : s.drafts[k] # None
  BY DEF Evicted, Held
<1> HIDE DEF gone
<1>t. t = [s EXCEPT
            !.drafts     = [k \in Keys |-> IF k \in gone THEN None ELSE s.drafts[k]],
            !.operations = [k \in Keys |-> IF k \in gone THEN NoOperation ELSE s.operations[k]],
            !.revisions  = [k \in Keys |-> IF k \in gone THEN s.revision ELSE s.revisions[k]]]
  BY <1>s DEF TrimDrafts, gone, Stored
<1> HIDE DEF t
<1>1. /\ t.format = s.format /\ t.owner = s.owner /\ t.revision = s.revision /\ t.owed = s.owed
      /\ t.drafts     = [k \in Keys |-> IF k \in gone THEN None ELSE s.drafts[k]]
      /\ t.operations = [k \in Keys |-> IF k \in gone THEN NoOperation ELSE s.operations[k]]
      /\ t.revisions  = [k \in Keys |-> IF k \in gone THEN s.revision ELSE s.revisions[k]]
  BY <1>s, <1>t DEF Stored
<1>2. t \in Stored
  <2>1. t.drafts \in [Keys -> Words \union {None}]
    BY <1>s, <1>1 DEF Stored
  <2>2. t.revisions \in [Keys -> Revision]
    BY <1>s, <1>1 DEF Stored
  <2>3. t.operations \in [Keys -> Operation \union {NoOperation}]
    BY <1>s, <1>1 DEF Stored
  <2> QED BY <1>s, <1>t, <1>1, <2>1, <2>2, <2>3 DEF Stored
<1>3. Fenced(t)
  BY <1>s, <1>1 DEF Sound, Fenced, Owed, Stored, Revision
<1>4. Paid(t)
  BY <1>s, <1>1 DEF Sound, Paid, Owed
<1>5. Small(t)
  BY <1>s, <1>1, WordsAssumption DEF Sound, Small
<1>6. Emptied(t) /\ Formed(t)
  BY <1>1 DEF Sound, Emptied, Formed
<1>7. Fresh(s, t)
  BY <1>s, <1>1 DEF Fresh, Owed, Stored, Revision
<1> QED BY <1>2, <1>3, <1>4, <1>5, <1>6, <1>7 DEF Sound, t

----------------------------------------------------------------------------
\* The migration gives every slot it owes a revision of its own range.
LEMMA MigratedRevisionRange ==
    ASSUME NEW s \in Stored, NEW k \in MigratedKeys(s)
    PROVE  /\ Cardinality(MigratedKeys(s)) \in Nat
           /\ MigratedRevision(s, k) \in Nat
           /\ MigratedRevision(s, k) > s.revision
           /\ MigratedRevision(s, k) <= s.revision + Cardinality(MigratedKeys(s))
<1> DEFINE due == MigratedKeys(s)
           upTo == {j \in due : j <= k}
<1>1. due \subseteq Keys
  BY KeysAssumption DEF MigratedKeys
<1>2. IsFiniteSet(due) /\ Cardinality(due) \in Nat
  BY <1>1, KeysAssumption, FS_Subset, FS_CardinalityType
<1>3. k \in upTo
  <2>1. k \in due /\ k \in Nat
    BY <1>1, KeysAssumption
  <2>2. k <= k
    BY <2>1
  <2> QED BY <2>1, <2>2
<1>4. upTo \in SUBSET due
  OBVIOUS
<1> HIDE DEF upTo
<1>5. IsFiniteSet(upTo) /\ Cardinality(upTo) \in Nat /\ Cardinality(upTo) <= Cardinality(due)
  BY <1>2, <1>4, FS_Subset, FS_CardinalityType
<1>6. Cardinality(upTo) # 0
  BY <1>3, <1>5, FS_EmptySet
<1>7. MigratedRevision(s, k) = s.revision + Cardinality(upTo)
  BY DEF MigratedRevision, upTo
<1>8. s.revision \in Nat
  BY BoundsAssumption DEF Stored, Revision
<1> QED BY <1>2, <1>5, <1>6, <1>7, <1>8

LEMMA MigrateIsSound ==
    ASSUME NEW s, Sound(s), Readable(s), s.format = "v2"
    PROVE  /\ Sound(Migrate(s))
           /\ Fresh(s, Migrate(s))
<1> DEFINE due == MigratedKeys(s)
           card == Cardinality(due)
           rev(k) == MigratedRevision(s, k)
           op(k) == [revision |-> rev(k),
                     kind     |-> IF Persistable(s.drafts[k]) THEN "save" ELSE "delete"]
           t == Migrate(s)
<1>s. s \in Stored
  BY DEF Sound
<1>r. /\ s.revision \in Nat /\ MaxRevision \in Nat
      /\ \A k \in Keys : s.revisions[k] \in Nat /\ s.revisions[k] <= s.revision
  BY <1>s, BoundsAssumption DEF Stored, Revision, Sound, Fenced
<1>d. due \subseteq RemoteKeys /\ due \subseteq Keys
  BY KeysAssumption DEF MigratedKeys
<1>c. card \in Nat /\ s.revision + card <= MaxRevision
  <2>1. IsFiniteSet(due)
    BY <1>d, KeysAssumption, FS_Subset
  <2> QED BY <2>1, FS_CardinalityType DEF Readable
<1>m. \A k \in due : rev(k) \in Nat /\ rev(k) > s.revision /\ rev(k) <= s.revision + card
  BY <1>s, MigratedRevisionRange
<1> HIDE DEF rev, card
<1>t. t = [s EXCEPT
            !.format     = "v3",
            !.revision   = s.revision + card,
            !.revisions  = [k \in Keys |-> IF k \in due THEN rev(k) ELSE s.revisions[k]],
            !.operations = [k \in Keys |-> IF k \notin due THEN NoOperation ELSE op(k)],
            !.owed       = {}]
  BY <1>s DEF Migrate, Stored, rev, card
<1> HIDE DEF t, due
<1>1. /\ t.format = "v3" /\ t.owner = s.owner /\ t.drafts = s.drafts
      /\ t.revision = s.revision + card /\ t.owed = {}
      /\ t.revisions  = [k \in Keys |-> IF k \in due THEN rev(k) ELSE s.revisions[k]]
      /\ t.operations = [k \in Keys |-> IF k \notin due THEN NoOperation ELSE op(k)]
  BY <1>s, <1>t DEF Stored
<1>2. t \in Stored
  <2>1. t.revision \in Revision
    BY <1>1, <1>c, <1>r DEF Revision
  <2>2. t.revisions \in [Keys -> Revision]
    BY <1>1, <1>c, <1>r, <1>m, <1>s DEF Revision, Stored
  <2>3. \A k \in due : op(k) \in Operation
    BY <1>c, <1>r, <1>m DEF Revision, Operation, Kinds
  <2>4. t.operations \in [Keys -> Operation \union {NoOperation}]
    BY <1>1, <2>3
  <2> QED BY <1>s, <1>t, <1>1, <2>1, <2>2, <2>4 DEF Stored, Formats
<1>3. Fenced(t)
  BY <1>1, <1>c, <1>r, <1>m DEF Fenced, Owed
<1>4. Paid(t)
  <2> SUFFICES ASSUME NEW k \in Keys, Owed(t, k)
               PROVE  k \in RemoteKeys /\ (t.operations[k].kind = "save" <=> t.drafts[k] # None)
    BY DEF Paid
  <2>1. k \in due /\ t.operations[k] = op(k)
    BY <1>1 DEF Owed
  <2>2. s.drafts[k] \in Words \union {None} /\ s.drafts[k] \notin BigWords
    BY <1>s DEF Stored, Sound, Small
  <2>3. Persistable(s.drafts[k]) <=> s.drafts[k] # None
    BY <2>2, WordsAssumption DEF Persistable
  <2> QED BY <1>1, <1>d, <2>1, <2>3
<1>5. Small(t)
  BY <1>1 DEF Sound, Small
<1>6. Emptied(t)
  <2> SUFFICES ASSUME s.owner = NoOwner
               PROVE  t.drafts = NoDrafts /\ t.operations = NoOperations
                      /\ t.revisions = NoRevisions /\ t.owed = {}
    BY <1>1 DEF Emptied
  <2>1. s.drafts = NoDrafts /\ s.owed = {} /\ s.revisions = NoRevisions
    BY DEF Sound, Emptied
  <2>2. due = {}
    BY <2>1, KeysAssumption, WordsAssumption DEF due, MigratedKeys, NoDrafts
  <2>3. t.operations = [k \in Keys |-> NoOperation]
    BY <1>1, <2>2
  <2>4. t.revisions = [k \in Keys |-> s.revisions[k]]
    BY <1>1, <2>2
  <2> QED BY <1>1, <2>1, <2>3, <2>4 DEF NoOperations, NoRevisions
<1>7. Fresh(s, t)
  BY <1>1, <1>c, <1>r, <1>m DEF Fresh, Owed
<1> QED BY <1>1, <1>2, <1>3, <1>4, <1>5, <1>6, <1>7 DEF Sound, Formed, t

LEMMA ReadLockedIsSound ==
    ASSUME NEW s, Sound(s)
    PROVE  /\ Sound(ReadLocked(s))
           /\ Fresh(s, ReadLocked(s))
<1>1. CASE s.format = "v2" /\ Readable(s)
  BY <1>1, MigrateIsSound DEF ReadLocked
<1>2. CASE s.format = "garbage"
  <2>1. ReadLocked(s) = Missing /\ s.revision = 0
    BY <1>2 DEF ReadLocked, Sound, Formed
  <2>2. Fresh(s, Missing)
    BY <2>1 DEF Fresh, Missing, Owed, NoOperations
  <2> QED BY <2>1, <2>2, MissingIsSound
<1>3. CASE ~(s.format = "v2" /\ Readable(s)) /\ s.format # "garbage"
  BY <1>3, FreshReflexive DEF ReadLocked, Sound
<1> QED BY <1>1, <1>2, <1>3

LEMMA OpenedIsSound ==
    ASSUME NEW s, Sound(s), NEW owner \in Owners
    PROVE  /\ Sound(Opened(s, owner))
           /\ Fresh(s, Opened(s, owner))
           /\ Opened(s, owner).format # "garbage"
<1> DEFINE r == ReadLocked(s)
           t == Opened(s, owner)
<1>1. Sound(r) /\ Fresh(s, r)
  BY ReadLockedIsSound
<1>2. t = IF r.format = "absent" THEN [r EXCEPT !.format = "v3", !.owner = owner] ELSE r
  BY DEF Opened, Adopted
<1>g. r.format # "garbage"
  BY DEF ReadLocked, Migrate, Missing, Sound, Stored
<1> HIDE DEF r, t
<1>3. CASE r.format # "absent"
  BY <1>1, <1>2, <1>g, <1>3 DEF t
<1>4. CASE r.format = "absent"
  <2>1. t = [r EXCEPT !.format = "v3", !.owner = owner]
    BY <1>2, <1>4
  <2>2. r \in Stored
    BY <1>1 DEF Sound
  <2>3. /\ t.format = "v3" /\ t.owner = owner /\ t.drafts = r.drafts /\ t.revision = r.revision
        /\ t.revisions = r.revisions /\ t.operations = r.operations /\ t.owed = r.owed
    BY <2>1, <2>2 DEF Stored
  <2>4. t \in Stored
    BY <2>1, <2>2 DEF Stored, Formats
  <2>5. Fenced(t) /\ Paid(t) /\ Small(t)
    BY <1>1, <2>3 DEF Sound, Fenced, Paid, Small, Owed
  <2>6. Emptied(t) /\ Formed(t)
    BY <1>1, <1>4, <2>3, OwnersAssumption DEF Sound, Emptied, Formed
  <2>7. Fresh(s, t)
    BY <1>1, <2>3 DEF Fresh, Owed
  <2> QED BY <2>3, <2>4, <2>5, <2>6, <2>7 DEF Sound, t
<1> QED BY <1>3, <1>4

----------------------------------------------------------------------------
\* What apply and merge_remote do to the slot they name, before they trim.
Written(s, k, text, op) ==
    [NextRevision(s, k) EXCEPT !.drafts[k] = text, !.operations[k] = op]

LEMMA WriteIsSound ==
    ASSUME NEW s, Sound(s), s.owner # NoOwner, s.format # "garbage", CanMint(s),
           NEW k \in Keys, NEW text \in Words \union {None}, text \notin BigWords,
           NEW op,
           \/ op = NoOperation
           \/ /\ k \in RemoteKeys
              /\ op = [revision |-> s.revision + 1,
                       kind     |-> IF text = None THEN "delete" ELSE "save"]
    PROVE  /\ Sound(Written(s, k, text, op))
           /\ Written(s, k, text, op).owner # NoOwner
           /\ Fresh(s, Written(s, k, text, op))
<1> DEFINE t == Written(s, k, text, op)
<1>s. s \in Stored
  BY DEF Sound
<1>t. t = [NextRevision(s, k) EXCEPT !.drafts[k] = text, !.operations[k] = op]
  BY DEF Written
<1> HIDE DEF t
<1>r. s.revision \in Nat /\ s.revision + 1 <= MaxRevision /\ MaxRevision \in Nat
  BY <1>s, BoundsAssumption DEF Stored, Revision, CanMint
<1>f. \A j \in Keys : s.revisions[j] \in Nat /\ s.revisions[j] <= s.revision
  BY <1>s, BoundsAssumption DEF Stored, Revision, Sound, Fenced
<1>1. /\ t.format = s.format /\ t.owner = s.owner /\ t.owed = s.owed
      /\ t.revision = s.revision + 1
      /\ t.drafts = [s.drafts EXCEPT ![k] = text]
      /\ t.revisions = [s.revisions EXCEPT ![k] = s.revision + 1]
      /\ t.operations = [s.operations EXCEPT ![k] = op]
  BY <1>s, <1>t DEF NextRevision, Stored
<1>2. t \in Stored
  <2>1. t.revision \in Revision
    BY <1>1, <1>r DEF Revision
  <2>2. t.drafts \in [Keys -> Words \union {None}]
    BY <1>1, <1>s DEF Stored
  <2>3. t.revisions \in [Keys -> Revision]
    BY <1>1, <1>s, <2>1 DEF Stored
  <2>4. op \in Operation \union {NoOperation}
    BY <1>r DEF Operation, Revision, Kinds
  <2>5. t.operations \in [Keys -> Operation \union {NoOperation}]
    BY <1>1, <1>s, <2>4 DEF Stored
  <2> QED BY <1>1, <1>s, <1>t, <2>1, <2>2, <2>3, <2>5 DEF Stored, NextRevision
<1>3. Fenced(t)
  <2> SUFFICES ASSUME NEW j \in Keys
               PROVE  /\ t.revisions[j] <= t.revision
                      /\ Owed(t, j) => t.operations[j].revision = t.revisions[j]
    BY DEF Fenced
  <2>1. CASE j = k
    BY <1>1, <1>s, <1>r, <2>1 DEF Owed, Stored
  <2>2. CASE j # k
    BY <1>1, <1>s, <1>r, <1>f, <2>2 DEF Owed, Stored, Sound, Fenced
  <2> QED BY <2>1, <2>2
<1>4. Paid(t)
  <2> SUFFICES ASSUME NEW j \in Keys, Owed(t, j)
               PROVE  j \in RemoteKeys /\ (t.operations[j].kind = "save" <=> t.drafts[j] # None)
    BY DEF Paid
  <2>1. CASE j = k
    BY <1>1, <1>s, <2>1 DEF Owed, Stored
  <2>2. CASE j # k
    BY <1>1, <1>s, <2>2 DEF Owed, Stored, Sound, Paid
  <2> QED BY <2>1, <2>2
<1>5. Small(t)
  BY <1>1, <1>s DEF Small, Sound, Stored
<1>6. Emptied(t) /\ Formed(t)
  BY <1>1 DEF Sound, Emptied, Formed
<1>7. Fresh(s, t)
  <2>1. \A j \in Keys : j # k => t.operations[j] = s.operations[j]
    BY <1>1, <1>s DEF Stored
  <2>2. Owed(t, k) => t.operations[k].revision = s.revision + 1
    BY <1>1, <1>s DEF Owed, Stored
  <2> QED BY <1>1, <1>r, <2>1, <2>2 DEF Fresh
<1> QED BY <1>1, <1>2, <1>3, <1>4, <1>5, <1>6, <1>7 DEF Sound, t

LEMMA ActivateIsSound ==
    ASSUME NEW s, Sound(s), NEW owner \in Owners, Readable(s)
    PROVE  Sound(AfterActivate(s, owner)) /\ Fresh(s, AfterActivate(s, owner))
<1> DEFINE r == ReadLocked(s)
           t == AfterActivate(s, owner)
<1>1. Sound(r) /\ Fresh(s, r)
  BY ReadLockedIsSound
<1>2. t = IF r.owner = owner THEN r
          ELSE [r EXCEPT !.format = "v3", !.owner = owner, !.drafts = NoDrafts,
                         !.operations = NoOperations, !.revisions = NoRevisions]
  BY DEF AfterActivate
<1>u. r.format # "v2"
  BY DEF ReadLocked, Migrate, Missing, Sound, Stored
<1> HIDE DEF r, t
<1>3. CASE r.owner = owner
  BY <1>1, <1>2, <1>3 DEF t
<1>4. CASE r.owner # owner
  <2>1. r \in Stored
    BY <1>1 DEF Sound
  <2>2. /\ t.format = "v3" /\ t.owner = owner /\ t.drafts = NoDrafts /\ t.revision = r.revision
        /\ t.revisions = NoRevisions /\ t.operations = NoOperations /\ t.owed = r.owed
    BY <1>2, <1>4, <2>1 DEF Stored
  <2>3. t \in Stored
    <3>1. NoDrafts \in [Keys -> Words \union {None}] /\ NoRevisions \in [Keys -> Revision]
      BY BoundsAssumption DEF NoDrafts, NoRevisions, Revision
    <3>2. NoOperations \in [Keys -> Operation \union {NoOperation}]
      BY DEF NoOperations
    <3> QED BY <1>2, <1>4, <2>1, <3>1, <3>2 DEF Stored, Formats
  <2>4. Fenced(t)
    BY <2>1, <2>2 DEF Fenced, NoRevisions, NoOperations, Owed, Stored, Revision
  <2>5. Paid(t)
    BY <2>2 DEF Paid, NoOperations, Owed
  <2>6. Small(t)
    BY <2>2, WordsAssumption DEF Small, NoDrafts
  <2>7. Emptied(t) /\ Formed(t)
    BY <1>1, <1>u, <2>2, OwnersAssumption DEF Sound, Emptied, Formed
  <2>8. Fresh(s, t)
    BY <1>1, <2>2 DEF Fresh, Owed, NoOperations
  <2> QED BY <2>3, <2>4, <2>5, <2>6, <2>7, <2>8 DEF Sound, t
<1> QED BY <1>3, <1>4

LEMMA EraseIsSound ==
    ASSUME NEW s, Sound(s), NEW owner \in Owners, Readable(s)
    PROVE  Sound(AfterErase(s, owner)) /\ Fresh(s, AfterErase(s, owner))
<1> DEFINE r == ReadLocked(s)
           t == AfterErase(s, owner)
<1>1. Sound(r) /\ Fresh(s, r)
  BY ReadLockedIsSound
<1>2. t = IF r.owner # owner THEN r
          ELSE [r EXCEPT !.owner = NoOwner, !.drafts = NoDrafts,
                         !.operations = NoOperations, !.revisions = NoRevisions]
  BY DEF AfterErase
<1>3. r.format # "v2"
  BY DEF ReadLocked, Migrate, Missing, Sound, Stored
<1> HIDE DEF r, t
<1>4. CASE r.owner # owner
  BY <1>1, <1>2, <1>4 DEF t
<1>5. CASE r.owner = owner
  <2>1. r \in Stored
    BY <1>1 DEF Sound
  <2>2. /\ t.format = r.format /\ t.owed = r.owed /\ t.drafts = NoDrafts
        /\ t.revision = r.revision /\ t.revisions = NoRevisions /\ t.operations = NoOperations
    BY <1>2, <1>5, <2>1 DEF Stored
  <2>3. t \in Stored
    <3>1. NoDrafts \in [Keys -> Words \union {None}] /\ NoRevisions \in [Keys -> Revision]
      BY BoundsAssumption DEF NoDrafts, NoRevisions, Revision
    <3>2. NoOperations \in [Keys -> Operation \union {NoOperation}]
      BY DEF NoOperations
    <3> QED BY <1>2, <1>5, <2>1, <3>1, <3>2 DEF Stored
  <2>4. Fenced(t)
    BY <2>1, <2>2 DEF Fenced, NoRevisions, NoOperations, Owed, Stored, Revision
  <2>5. Paid(t)
    BY <2>2 DEF Paid, NoOperations, Owed
  <2>6. Small(t)
    BY <2>2, WordsAssumption DEF Small, NoDrafts
  <2>7. Emptied(t) /\ Formed(t)
    BY <1>1, <1>3, <2>2 DEF Sound, Emptied, Formed
  <2>8. Fresh(s, t)
    BY <1>1, <2>2 DEF Fresh, Owed, NoOperations
  <2> QED BY <2>3, <2>4, <2>5, <2>6, <2>7, <2>8 DEF Sound, t
<1> QED BY <1>4, <1>5

LEMMA SettleIsSound ==
    ASSUME NEW s, Sound(s), NEW key \in Keys, NEW expected \in Operation
    PROVE  Sound(AfterSettle(s, key, expected)) /\ Fresh(s, AfterSettle(s, key, expected))
<1> DEFINE r == ReadLocked(s)
           t == AfterSettle(s, key, expected)
<1>1. Sound(r) /\ Fresh(s, r)
  BY ReadLockedIsSound
<1>2. t = IF r.revisions[key] = expected.revision /\ r.operations[key] = expected
          THEN [r EXCEPT !.operations[key] = NoOperation] ELSE r
  BY DEF AfterSettle
<1> HIDE DEF r, t
<1>3. CASE t = r
  BY <1>1, <1>3 DEF t
<1>4. CASE t # r
  <2>1. r \in Stored
    BY <1>1 DEF Sound
  <2>2. /\ t.format = r.format /\ t.owner = r.owner /\ t.owed = r.owed /\ t.drafts = r.drafts
        /\ t.revision = r.revision /\ t.revisions = r.revisions
        /\ t.operations = [r.operations EXCEPT ![key] = NoOperation]
    BY <1>2, <1>4, <2>1 DEF Stored
  <2>3. \A k \in Keys : t.operations[k] = IF k = key THEN NoOperation ELSE r.operations[k]
    BY <2>1, <2>2 DEF Stored
  <2>4. t \in Stored
    BY <1>2, <1>4, <2>1 DEF Stored
  <2>5. Fenced(t) /\ Paid(t) /\ Small(t)
    BY <1>1, <2>2, <2>3 DEF Sound, Fenced, Paid, Small, Owed
  <2>6. Emptied(t)
    <3>1. r.operations = NoOperations => t.operations = NoOperations
      BY <2>2 DEF NoOperations
    <3> QED BY <1>1, <2>2, <3>1 DEF Sound, Emptied
  <2>7. Formed(t) /\ Fresh(s, t)
    BY <1>1, <2>2, <2>3 DEF Sound, Formed, Fresh, Owed
  <2> QED BY <2>4, <2>5, <2>6, <2>7 DEF Sound, t
<1> QED BY <1>3, <1>4

LEMMA ApplyIsSound ==
    ASSUME NEW s, Sound(s), NEW owner \in Owners, NEW key \in Keys,
           NEW text \in Words \union {None}, MayWrite(s, owner)
    PROVE  /\ Sound(AfterApply(s, owner, key, text))
           /\ Fresh(s, AfterApply(s, owner, key, text))
<1> DEFINE r    == Opened(s, owner)
           op   == MintedBy(s, owner, text)
           kept == Persistable(text)
           owes == key \in RemoteKeys /\ (kept \/ op.kind = "delete")
           body == IF kept THEN text ELSE None
           due  == IF owes THEN op ELSE NoOperation
           w    == Written(r, key, body, due)
<1>1. Sound(r) /\ Fresh(s, r) /\ r.format # "garbage"
  BY OpenedIsSound
<1>2. r.owner = owner /\ r.owner # NoOwner /\ CanMint(r)
  BY OwnersAssumption DEF MayWrite
<1>3. body \in Words \union {None} /\ body \notin BigWords
  BY WordsAssumption DEF Persistable
<1>4. \/ due = NoOperation
      \/ /\ key \in RemoteKeys
         /\ due = [revision |-> r.revision + 1,
                   kind     |-> IF body = None THEN "delete" ELSE "save"]
  BY WordsAssumption DEF MintedBy, Persistable
<1>5. AfterApply(s, owner, key, text) = TrimDrafts(w, FALSE)
  BY DEF AfterApply, Written
<1> HIDE DEF r, body, due
<1>6. Sound(w) /\ w.owner # NoOwner /\ Fresh(r, w)
  BY <1>1, <1>2, <1>3, <1>4, WriteIsSound
<1> HIDE DEF w
<1>7. Sound(TrimDrafts(w, FALSE)) /\ Fresh(w, TrimDrafts(w, FALSE))
  BY <1>6, TrimIsSound
<1>8. /\ s \in Stored /\ r \in Stored /\ w \in Stored /\ TrimDrafts(w, FALSE) \in Stored
  BY <1>1, <1>6, <1>7 DEF Sound
<1>9. Fresh(s, TrimDrafts(w, FALSE))
  <2>1. Fresh(s, w)
    BY <1>1, <1>6, <1>8, FreshTransitive
  <2> QED BY <1>7, <1>8, <2>1, FreshTransitive
<1> QED BY <1>5, <1>7, <1>9

LEMMA MergeIsSound ==
    ASSUME NEW s, Sound(s), NEW owner \in Owners, NEW key \in RemoteKeys,
           NEW text \in Words, NEW observed,
           MayWrite(s, owner), MayMerge(s, owner, key, observed)
    PROVE  /\ Sound(AfterMerge(s, owner, key, text))
           /\ Fresh(s, AfterMerge(s, owner, key, text))
<1> DEFINE r    == Opened(s, owner)
           body == IF Persistable(text) THEN text ELSE None
           w    == Written(r, key, body, NoOperation)
<1>k. key \in Keys
  BY KeysAssumption
<1>1. Sound(r) /\ Fresh(s, r) /\ r.format # "garbage"
  BY OpenedIsSound
<1>2. r.owner # NoOwner /\ CanMint(r) /\ r.operations[key] = NoOperation
  BY OwnersAssumption DEF MayWrite, MayMerge, Owed
<1>3. body \in Words \union {None} /\ body \notin BigWords
  BY WordsAssumption DEF Persistable
<1>4. AfterMerge(s, owner, key, text) =
        TrimDrafts([NextRevision(r, key) EXCEPT !.drafts[key] = body], TRUE)
  BY DEF AfterMerge
<1> HIDE DEF r, body
<1>5. w = [NextRevision(r, key) EXCEPT !.drafts[key] = body]
  <2>1. r \in Stored
    BY <1>1 DEF Sound
  <2>2. [r.operations EXCEPT ![key] = NoOperation] = r.operations
    BY <1>2, <1>k, <2>1 DEF Stored
  <2> QED BY <2>1, <2>2 DEF Written, NextRevision, Stored
<1>6. Sound(w) /\ w.owner # NoOwner /\ Fresh(r, w)
  BY <1>1, <1>2, <1>3, <1>k, WriteIsSound
<1> HIDE DEF w
<1>7. Sound(TrimDrafts(w, TRUE)) /\ Fresh(w, TrimDrafts(w, TRUE))
  BY <1>6, TrimIsSound
<1>8. /\ s \in Stored /\ r \in Stored /\ w \in Stored /\ TrimDrafts(w, TRUE) \in Stored
  BY <1>1, <1>6, <1>7 DEF Sound
<1>9. Fresh(s, TrimDrafts(w, TRUE))
  <2>1. Fresh(s, w)
    BY <1>1, <1>6, <1>8, FreshTransitive
  <2> QED BY <1>7, <1>8, <2>1, FreshTransitive
<1> QED BY <1>4, <1>5, <1>7, <1>9

----------------------------------------------------------------------------
\* The eviction order is a strict total order of the drafts held, so no two
\* of them have as many before them: that is what makes the bound hold.
LEMMA BeforeIsAnOrder ==
    ASSUME NEW s \in Stored, NEW protect \in BOOLEAN
    PROVE  /\ \A j \in Keys : ~Before(s, protect, j, j)
           /\ \A i, j, k \in Keys :
                Before(s, protect, i, j) /\ Before(s, protect, j, k) => Before(s, protect, i, k)
           /\ \A j, k \in Keys : j # k => Before(s, protect, j, k) \/ Before(s, protect, k, j)
<1>1. \A k \in Keys : k \in Nat /\ s.drafts[k] \in Nat
  <2>1. s.drafts \in [Keys -> Words \union {None}]
    BY DEF Stored
  <2>2. Words \union {None} \subseteq Nat
    BY WordsAssumption
  <2> QED BY <2>1, <2>2, KeysAssumption
<1> QED BY <1>1 DEF Before

LEMMA HeldIsFinite ==
    ASSUME NEW s
    PROVE  /\ IsFiniteSet(Held(s)) /\ Cardinality(Held(s)) \in Nat
           /\ \A T \in SUBSET Held(s) :
                IsFiniteSet(T) /\ Cardinality(T) \in Nat /\ Cardinality(T) <= Cardinality(Held(s))
<1>1. Held(s) \in SUBSET Keys
  BY DEF Held
<1>2. IsFiniteSet(Held(s))
  BY <1>1, KeysAssumption, FS_Subset
<1> QED BY <1>2, FS_Subset, FS_CardinalityType

LEMMA TrimBounds ==
    ASSUME NEW s \in Stored, NEW protect \in BOOLEAN
    PROVE  Cardinality(Held(TrimDrafts(s, protect))) <= MaxDrafts
<1> DEFINE kept == Held(s) \ Evicted(s, protect)
           ahead(k) == {j \in Held(s) : Before(s, protect, j, k)}
           rank == [k \in kept |-> Cardinality(ahead(k))]
           places == 0..(MaxDrafts - 1)
<1>1. Held(TrimDrafts(s, protect)) = kept
  BY DEF Held, TrimDrafts, Evicted, Stored
<1>2. kept \subseteq Held(s) /\ Held(s) \subseteq Keys
  BY DEF Held
<1>3. IsFiniteSet(kept) /\ Cardinality(kept) \in Nat
  BY <1>2, HeldIsFinite
<1>4. \A k \in Held(s) : /\ ahead(k) \in SUBSET Held(s)
                         /\ IsFiniteSet(ahead(k)) /\ Cardinality(ahead(k)) \in Nat
  BY HeldIsFinite
<1>5. rank \in [kept -> places]
  <2>1. ASSUME NEW k \in kept
        PROVE  Cardinality(ahead(k)) \in Nat /\ Cardinality(ahead(k)) < MaxDrafts
    <3>1. ~(Cardinality(ahead(k)) >= MaxDrafts)
      BY <1>2 DEF Evicted
    <3> QED BY <1>2, <1>4, <3>1, BoundsAssumption
  <2> QED BY <2>1, BoundsAssumption
<1>6. ASSUME NEW j \in kept, NEW k \in kept, j # k
      PROVE  rank[j] # rank[k]
  <2>1. ASSUME NEW a \in kept, NEW b \in kept, Before(s, protect, a, b)
        PROVE  Cardinality(ahead(a)) < Cardinality(ahead(b))
    <3>1. ahead(a) \subseteq ahead(b)
      BY <1>2, <2>1, BeforeIsAnOrder
    <3>2. a \in ahead(b) /\ a \notin ahead(a)
      BY <1>2, <2>1, BeforeIsAnOrder
    <3>3. ahead(a) \in SUBSET ahead(b) /\ ahead(a) # ahead(b)
      BY <3>1, <3>2
    <3> HIDE DEF ahead
    <3>4. /\ Cardinality(ahead(a)) <= Cardinality(ahead(b))
          /\ Cardinality(ahead(b)) # Cardinality(ahead(a))
      BY <1>2, <1>4, <3>3, FS_Subset
    <3> QED BY <1>2, <1>4, <3>4
  <2>2. Before(s, protect, j, k) \/ Before(s, protect, k, j)
    BY <1>2, <1>6, BeforeIsAnOrder
  <2>3. rank[j] = Cardinality(ahead(j)) /\ rank[k] = Cardinality(ahead(k))
    OBVIOUS
  <2>4. Cardinality(ahead(j)) \in Nat /\ Cardinality(ahead(k)) \in Nat
    BY <1>2, <1>4
  <2> HIDE DEF rank, ahead
  <2>5. \/ Cardinality(ahead(j)) < Cardinality(ahead(k))
        \/ Cardinality(ahead(k)) < Cardinality(ahead(j))
    BY <2>1, <2>2
  <2> QED BY <2>3, <2>4, <2>5
<1>7. IsFiniteSet(places) /\ Cardinality(places) = MaxDrafts
  BY FS_Interval, BoundsAssumption
<1> HIDE DEF rank, kept, places
<1>8. ~(Cardinality(places) < Cardinality(kept))
  BY <1>3, <1>5, <1>6, <1>7, FS_PigeonHole
<1> QED BY <1>1, <1>3, <1>7, <1>8, BoundsAssumption

\* A protected trim that finds at most one draft too many, in a slot that
\* owes nothing, spares every slot that does.
LEMMA TrimSparesOwed ==
    ASSUME NEW s \in Stored, NEW key \in Keys, ~Owed(s, key),
           Cardinality(Held(s) \ {key}) <= MaxDrafts,
           NEW k \in Keys, Owed(s, k)
    PROVE  k \notin Evicted(s, TRUE)
<1> DEFINE others == Held(s) \ {key}
           ahead == {j \in Held(s) : Before(s, TRUE, j, k)}
<1> SUFFICES ASSUME k \in Held(s), Cardinality(ahead) >= MaxDrafts
             PROVE  FALSE
  BY DEF Evicted
<1>1. \A j \in ahead : Owed(s, j)
  BY DEF Before
<1>2. ~Before(s, TRUE, k, k)
  BY BeforeIsAnOrder
<1>3. ahead \in SUBSET (others \ {k}) /\ k \in others
  BY <1>1, <1>2
<1>4. IsFiniteSet(others) /\ Cardinality(others) \in Nat
  BY HeldIsFinite
<1> HIDE DEF ahead, others
<1>5. IsFiniteSet(others \ {k}) /\ Cardinality(others \ {k}) = Cardinality(others) - 1
  BY <1>3, <1>4, FS_RemoveElement
<1>6. Cardinality(ahead) <= Cardinality(others \ {k}) /\ Cardinality(ahead) \in Nat
  BY <1>3, <1>5, FS_Subset, FS_CardinalityType
<1> QED BY <1>4, <1>5, <1>6, BoundsAssumption DEF others

----------------------------------------------------------------------------
\* The number of drafts in a file is at most MAX_DRAFTS.
Within(s) == Cardinality(Held(s)) <= MaxDrafts

LEMMA NoneHeld ==
    ASSUME NEW s, s.drafts = NoDrafts
    PROVE  Within(s)
<1>1. Held(s) = {}
  BY DEF Held, NoDrafts
<1> QED BY <1>1, FS_EmptySet, BoundsAssumption DEF Within

LEMMA SameHeld ==
    ASSUME NEW s, NEW t, t.drafts = s.drafts, Within(s)
    PROVE  Within(t)
<1>1. Held(t) = Held(s)
  BY DEF Held
<1> QED BY <1>1 DEF Within

LEMMA ReadLockedHolds ==
    ASSUME NEW s \in Stored, Within(s)
    PROVE  Within(ReadLocked(s))
<1>1. CASE ReadLocked(s) = Missing
  BY <1>1, NoneHeld DEF Missing
<1>2. CASE ReadLocked(s) = s
  BY <1>2
<1>3. CASE ReadLocked(s) = Migrate(s)
  <2>1. Migrate(s).drafts = s.drafts
    BY DEF Migrate, Stored
  <2> QED BY <1>3, <2>1, SameHeld
<1> QED BY <1>1, <1>2, <1>3 DEF ReadLocked

LEMMA OpenedHolds ==
    ASSUME NEW s, Sound(s), Within(s), NEW owner \in Owners
    PROVE  Within(Opened(s, owner))
<1> DEFINE r == ReadLocked(s)
<1>1. r \in Stored /\ Within(r)
  BY ReadLockedIsSound, ReadLockedHolds DEF Sound
<1>2. Opened(s, owner) = IF r.format = "absent"
                         THEN [r EXCEPT !.format = "v3", !.owner = owner] ELSE r
  BY DEF Opened, Adopted
<1> HIDE DEF r
<1>3. Opened(s, owner).drafts = r.drafts
  BY <1>1, <1>2 DEF Stored
<1> QED BY <1>1, <1>3, SameHeld

\* The file a merge trims: one draft more than it was, in a slot that owes
\* nothing.
LEMMA MergeSteps ==
    ASSUME NEW s, Sound(s), NEW owner \in Owners, NEW key \in RemoteKeys,
           NEW text \in Words, NEW observed,
           MayWrite(s, owner), MayMerge(s, owner, key, observed)
    PROVE  LET r == Opened(s, owner)
               w == Written(r, key, IF Persistable(text) THEN text ELSE None, NoOperation)
           IN  /\ r \in Stored /\ w \in Stored
               /\ AfterMerge(s, owner, key, text) = TrimDrafts(w, TRUE)
               /\ w.operations = r.operations
               /\ r.operations[key] = NoOperation
               /\ \A k \in Keys \ {key} : w.drafts[k] = r.drafts[k]
<1> DEFINE r    == Opened(s, owner)
           body == IF Persistable(text) THEN text ELSE None
           w    == Written(r, key, body, NoOperation)
<1>k. key \in Keys
  BY KeysAssumption
<1>1. Sound(r) /\ r.format # "garbage" /\ r \in Stored
  BY OpenedIsSound DEF Sound
<1>2. r.owner # NoOwner /\ CanMint(r) /\ r.operations[key] = NoOperation
  BY OwnersAssumption DEF MayWrite, MayMerge, Owed
<1>3. body \in Words \union {None} /\ body \notin BigWords
  BY WordsAssumption DEF Persistable
<1>4. AfterMerge(s, owner, key, text) =
        TrimDrafts([NextRevision(r, key) EXCEPT !.drafts[key] = body], TRUE)
  BY DEF AfterMerge
<1> HIDE DEF r, body
<1>5. w.operations = r.operations
      /\ w = [NextRevision(r, key) EXCEPT !.drafts[key] = body]
  <2>1. [r.operations EXCEPT ![key] = NoOperation] = r.operations
    BY <1>1, <1>2, <1>k DEF Stored
  <2> QED BY <1>1, <2>1 DEF Written, NextRevision, Stored
<1>6. w \in Stored
  BY <1>1, <1>2, <1>3, <1>k, WriteIsSound DEF Sound
<1>7. \A k \in Keys \ {key} : w.drafts[k] = r.drafts[k]
  BY <1>1 DEF Written, NextRevision, Stored
<1> QED BY <1>1, <1>2, <1>4, <1>5, <1>6, <1>7 DEF r, body

LEMMA ApplyHolds ==
    ASSUME NEW s, Sound(s), NEW owner \in Owners, NEW key \in Keys,
           NEW text \in Words \union {None}, MayWrite(s, owner)
    PROVE  Within(AfterApply(s, owner, key, text))
<1> DEFINE r    == Opened(s, owner)
           op   == MintedBy(s, owner, text)
           owes == key \in RemoteKeys /\ (Persistable(text) \/ op.kind = "delete")
           body == IF Persistable(text) THEN text ELSE None
           due  == IF owes THEN op ELSE NoOperation
           w    == Written(r, key, body, due)
<1>1. AfterApply(s, owner, key, text) = TrimDrafts(w, FALSE)
  BY DEF AfterApply, Written
<1>2. Sound(r) /\ r.owner # NoOwner /\ CanMint(r) /\ r.format # "garbage"
  BY OpenedIsSound, OwnersAssumption DEF MayWrite
<1>3. body \in Words \union {None} /\ body \notin BigWords
  BY WordsAssumption DEF Persistable
<1>4. \/ due = NoOperation
      \/ /\ key \in RemoteKeys
         /\ due = [revision |-> r.revision + 1,
                   kind     |-> IF body = None THEN "delete" ELSE "save"]
  BY WordsAssumption DEF MintedBy, Persistable
<1> HIDE DEF r, body, due
<1>5. w \in Stored
  BY <1>2, <1>3, <1>4, WriteIsSound DEF Sound
<1> HIDE DEF w
<1> QED BY <1>1, <1>5, TrimBounds DEF Within

\* A merge leaves every slot that owes work as it was.
LEMMA MergeSparesOwedSlots ==
    ASSUME NEW s, Sound(s), Within(s), NEW owner \in Owners, NEW key \in RemoteKeys,
           NEW text \in Words, NEW observed,
           MayWrite(s, owner), MayMerge(s, owner, key, observed),
           NEW k \in Keys, Owed(Opened(s, owner), k)
    PROVE  LET t == AfterMerge(s, owner, key, text)
           IN  /\ t.operations[k] = Opened(s, owner).operations[k]
               /\ t.drafts[k] = Opened(s, owner).drafts[k]
<1> DEFINE r == Opened(s, owner)
           w == Written(r, key, IF Persistable(text) THEN text ELSE None, NoOperation)
           t == AfterMerge(s, owner, key, text)
<1>1. /\ r \in Stored /\ w \in Stored
      /\ t = TrimDrafts(w, TRUE)
      /\ w.operations = r.operations /\ r.operations[key] = NoOperation
      /\ \A j \in Keys \ {key} : w.drafts[j] = r.drafts[j]
  BY MergeSteps
<1>2. Within(r)
  BY OpenedHolds
<1>k. key \in Keys /\ k # key /\ Owed(r, k)
  BY <1>1, KeysAssumption DEF Owed
<1> HIDE DEF r, w, t
<1>3. Held(w) \ {key} \in SUBSET Held(r)
  BY <1>1 DEF Held
<1>4. Cardinality(Held(w) \ {key}) <= MaxDrafts
  <2>1. /\ Cardinality(Held(w) \ {key}) \in Nat /\ Cardinality(Held(r)) \in Nat
        /\ Cardinality(Held(w) \ {key}) <= Cardinality(Held(r))
    BY <1>3, HeldIsFinite
  <2> QED BY <1>2, <2>1, BoundsAssumption DEF Within
<1>5. ~Owed(w, key) /\ Owed(w, k)
  BY <1>1, <1>k DEF Owed
<1>6. k \notin Evicted(w, TRUE)
  BY <1>1, <1>k, <1>4, <1>5, TrimSparesOwed
<1>7. t.operations[k] = w.operations[k] /\ t.drafts[k] = w.drafts[k]
  BY <1>1, <1>6 DEF TrimDrafts, Stored
<1> QED BY <1>1, <1>k, <1>7 DEF r, t

----------------------------------------------------------------------------
\* A file of this build: none yet, or one it wrote.
Ours(s) == s.format \in {"absent", "v3"} /\ (s.format = "absent" => s.owner = NoOwner)

LEMMA OursIsReadAsItIs ==
    ASSUME NEW s, Ours(s)
    PROVE  ReadLocked(s) = s /\ Readable(s)
BY DEF Ours, ReadLocked, Readable

LEMMA OpenedFields ==
    ASSUME NEW s \in Stored, Ours(s), NEW owner \in Owners
    PROVE  LET r == Opened(s, owner)
           IN  /\ r \in Stored /\ r.format = "v3"
               /\ r.drafts = s.drafts /\ r.operations = s.operations
               /\ r.revisions = s.revisions /\ r.revision = s.revision
               /\ r.owner = owner => s.owner \in {owner, NoOwner}
<1> DEFINE r == Opened(s, owner)
<1>0. ReadLocked(s) = s
  BY OursIsReadAsItIs
<1>1. r = IF s.format = "absent" THEN [s EXCEPT !.format = "v3", !.owner = owner] ELSE s
  BY <1>0, Zenon DEF Opened, Adopted
<1> HIDE DEF r
<1>2. CASE s.format = "absent"
  <2>1. r = [s EXCEPT !.format = "v3", !.owner = owner] /\ s.owner = NoOwner
    BY <1>1, <1>2 DEF Ours
  <2> QED BY <2>1 DEF Stored, Formats, r
<1>3. CASE s.format # "absent"
  BY <1>1, <1>3 DEF Ours, r
<1> QED BY <1>2, <1>3

\* t is s with slot k written anew; every other slot is as it was, or its
\* draft has been evicted.
Rewrites(s, t, k) ==
    /\ t.revision = s.revision + 1
    /\ \A j \in Keys \ {k} :
        \/ t.drafts[j] = s.drafts[j] /\ t.operations[j] = s.operations[j]
        \/ t.drafts[j] = None /\ s.drafts[j] # None /\ ~Owed(t, j)

LEMMA WriteRewrites ==
    ASSUME NEW s \in Stored, NEW k \in Keys, NEW text \in Words \union {None},
           NEW op \in Operation \union {NoOperation}, NEW protect \in BOOLEAN, CanMint(s)
    PROVE  LET t == TrimDrafts(Written(s, k, text, op), protect)
           IN  /\ Rewrites(s, t, k)
               /\ t.format = s.format /\ t.owner = s.owner
               /\ t.drafts[k] \in {text, None}
               /\ t.operations[k] \in {op, NoOperation}
               /\ t.drafts[k] = text => t.operations[k] = op
<1> DEFINE w == Written(s, k, text, op)
           t == TrimDrafts(w, protect)
           gone == Evicted(w, protect)
<1>1. /\ w.format = s.format /\ w.owner = s.owner /\ w.revision = s.revision + 1
      /\ w.drafts = [s.drafts EXCEPT ![k] = text]
      /\ w.operations = [s.operations EXCEPT ![k] = op]
  BY DEF Written, NextRevision, Stored
<1>2. /\ t.format = w.format /\ t.owner = w.owner /\ t.revision = w.revision
      /\ t.drafts = [j \in Keys |-> IF j \in gone THEN None ELSE w.drafts[j]]
      /\ t.operations = [j \in Keys |-> IF j \in gone THEN NoOperation ELSE w.operations[j]]
  BY DEF TrimDrafts, Written, NextRevision, Stored
<1>3. \A j \in gone : w.drafts[j] # None
  BY DEF Evicted, Held
<1> HIDE DEF w, t, gone
<1>4. \A j \in Keys : /\ w.drafts[j] = IF j = k THEN text ELSE s.drafts[j]
                      /\ w.operations[j] = IF j = k THEN op ELSE s.operations[j]
  BY <1>1 DEF Stored
<1>5. Rewrites(s, t, k)
  BY <1>1, <1>2, <1>3, <1>4 DEF Rewrites, Owed
<1>6. /\ t.drafts[k] = IF k \in gone THEN None ELSE text
      /\ t.operations[k] = IF k \in gone THEN NoOperation ELSE op
      /\ k \in gone => text # None
  BY <1>2, <1>3, <1>4
<1> QED BY <1>1, <1>2, <1>5, <1>6 DEF w, t

\* What apply does to a file of this build.
LEMMA ApplyEffect ==
    ASSUME NEW s, Sound(s), Ours(s), NEW owner \in Owners, NEW key \in Keys,
           NEW text \in Words \union {None}, MayWrite(s, owner)
    PROVE  LET t  == AfterApply(s, owner, key, text)
               op == MintedBy(s, owner, text)
           IN  /\ s.owner \in {owner, NoOwner} /\ t.owner = owner /\ Ours(t)
               /\ Rewrites(s, t, key)
               /\ op \in Operation /\ op.revision = s.revision + 1
               /\ t.drafts[key] \in {text, None}
               /\ t.drafts[key] = text =>
                    t.operations[key] = IF key \in RemoteKeys THEN op ELSE NoOperation
<1> DEFINE r    == Opened(s, owner)
           op   == MintedBy(s, owner, text)
           kept == Persistable(text)
           owes == key \in RemoteKeys /\ (kept \/ op.kind = "delete")
           body == IF kept THEN text ELSE None
           due  == IF owes THEN op ELSE NoOperation
           t    == AfterApply(s, owner, key, text)
<1>s. s \in Stored /\ s.revision \in Nat /\ MaxRevision \in Nat
  BY BoundsAssumption DEF Sound, Stored, Revision
<1>1. /\ r \in Stored /\ r.format = "v3" /\ r.drafts = s.drafts /\ r.operations = s.operations
      /\ r.revision = s.revision /\ r.owner = owner /\ s.owner \in {owner, NoOwner}
      /\ CanMint(r)
  BY <1>s, OpenedFields DEF MayWrite
<1>2. t = TrimDrafts(Written(r, key, body, due), FALSE)
  BY DEF AfterApply, Written
<1>3. op = [revision |-> s.revision + 1, kind |-> IF text = None THEN "delete" ELSE "save"]
  BY <1>1 DEF MintedBy
<1>4. op \in Operation /\ op.revision = s.revision + 1
  BY <1>s, <1>1, <1>3 DEF Operation, Revision, Kinds, CanMint
<1>5. body \in {text, None} /\ due \in {op, NoOperation}
  OBVIOUS
<1>w. body \in Words \union {None} /\ due \in Operation \union {NoOperation}
  BY <1>4
<1>6. body = text => (due = IF key \in RemoteKeys THEN op ELSE NoOperation)
  <2>1. text = None => op.kind = "delete"
    BY <1>3
  <2> QED BY <2>1
<1>7. body # text => body = None /\ text # None
  OBVIOUS
<1> HIDE DEF r, op, body, due, t
<1>8. /\ Rewrites(r, t, key) /\ t.format = r.format /\ t.owner = r.owner
      /\ t.drafts[key] \in {body, None}
      /\ t.drafts[key] = body => t.operations[key] = due
  BY <1>1, <1>2, <1>w, WriteRewrites, Zenon
<1>9. Rewrites(s, t, key)
  BY <1>1, <1>8 DEF Rewrites
<1>10. /\ t.drafts[key] \in {text, None}
       /\ t.drafts[key] = text =>
            t.operations[key] = IF key \in RemoteKeys THEN op ELSE NoOperation
  BY <1>5, <1>6, <1>7, <1>8
<1> QED BY <1>1, <1>4, <1>8, <1>9, <1>10 DEF Ours, op, t

\* What merge_remote does to a file of this build.
LEMMA MergeEffect ==
    ASSUME NEW s, Sound(s), Ours(s), Within(s), NEW owner \in Owners, NEW key \in RemoteKeys,
           NEW text \in Words, NEW observed,
           MayWrite(s, owner), MayMerge(s, owner, key, observed)
    PROVE  LET t == AfterMerge(s, owner, key, text)
           IN  /\ s.owner \in {owner, NoOwner} /\ t.owner = owner /\ Ours(t)
               /\ Rewrites(s, t, key)
               /\ t.drafts[key] \in {text, None}
               /\ ~Owed(s, key) /\ ~Owed(t, key)
               /\ \A k \in Keys : Owed(s, k) =>
                    t.operations[k] = s.operations[k] /\ t.drafts[k] = s.drafts[k]
<1> DEFINE r    == Opened(s, owner)
           body == IF Persistable(text) THEN text ELSE None
           t    == AfterMerge(s, owner, key, text)
<1>1. /\ r \in Stored /\ r.format = "v3" /\ r.drafts = s.drafts /\ r.operations = s.operations
      /\ r.revision = s.revision /\ r.owner = owner /\ s.owner \in {owner, NoOwner}
      /\ CanMint(r)
  BY OpenedFields DEF MayWrite, Sound
<1>2. /\ t = TrimDrafts(Written(r, key, body, NoOperation), TRUE)
      /\ r.operations[key] = NoOperation
  BY MergeSteps
<1>3. body \in {text, None} /\ body \in Words \union {None}
  OBVIOUS
<1>k. key \in Keys
  BY KeysAssumption
<1>4. \A k \in Keys : Owed(r, k) => t.operations[k] = r.operations[k] /\ t.drafts[k] = r.drafts[k]
  BY MergeSparesOwedSlots
<1> HIDE DEF r, body, t
<1>5. /\ Rewrites(r, t, key) /\ t.format = r.format /\ t.owner = r.owner
      /\ t.drafts[key] \in {body, None}
      /\ t.operations[key] = NoOperation
  <2>1. NoOperation \in Operation \union {NoOperation} /\ TRUE \in BOOLEAN
    OBVIOUS
  <2> QED BY <1>1, <1>2, <1>3, <1>k, <2>1, WriteRewrites, Zenon
<1>6. Rewrites(s, t, key)
  BY <1>1, <1>5 DEF Rewrites
<1>7. \A k \in Keys : Owed(s, k) => t.operations[k] = s.operations[k] /\ t.drafts[k] = s.drafts[k]
  BY <1>1, <1>4 DEF Owed
<1> QED BY <1>1, <1>2, <1>3, <1>5, <1>6, <1>7 DEF Ours, Owed, t

\* Nothing is left in a file of the account it had before.
Blank(t) == t.drafts = NoDrafts /\ t.operations = NoOperations /\ t.revisions = NoRevisions

LEMMA ActivateEffect ==
    ASSUME NEW s \in Stored, Ours(s), NEW owner \in Owners
    PROVE  LET t == AfterActivate(s, owner)
           IN  /\ t.owner = owner /\ t.revision = s.revision /\ Ours(t)
               /\ t = s \/ Blank(t)
               /\ s.owner = owner => t = s
<1>0. ReadLocked(s) = s
  BY OursIsReadAsItIs
<1>1. AfterActivate(s, owner) =
        IF s.owner = owner THEN s
        ELSE [s EXCEPT !.format = "v3", !.owner = owner, !.drafts = NoDrafts,
                       !.operations = NoOperations, !.revisions = NoRevisions]
  BY <1>0, Zenon DEF AfterActivate
<1>2. CASE s.owner = owner
  BY <1>1, <1>2
<1>3. CASE s.owner # owner
  <2> DEFINE t == AfterActivate(s, owner)
  <2>1. t = [s EXCEPT !.format = "v3", !.owner = owner, !.drafts = NoDrafts,
                      !.operations = NoOperations, !.revisions = NoRevisions]
    BY <1>1, <1>3
  <2> HIDE DEF t
  <2>2. t.format = "v3" /\ t.owner = owner /\ t.revision = s.revision /\ Blank(t)
    BY <2>1 DEF Stored, Blank
  <2> QED BY <1>3, <2>2 DEF Ours, t
<1> QED BY <1>2, <1>3

LEMMA EraseEffect ==
    ASSUME NEW s \in Stored, Ours(s), NEW owner \in Owners
    PROVE  LET t == AfterErase(s, owner)
           IN  /\ t.revision = s.revision /\ Ours(t)
               /\ \/ t = s /\ s.owner # owner
                  \/ t.owner = NoOwner /\ Blank(t) /\ s.owner = owner
<1>0. ReadLocked(s) = s
  BY OursIsReadAsItIs
<1>1. AfterErase(s, owner) =
        IF s.owner # owner THEN s
        ELSE [s EXCEPT !.owner = NoOwner, !.drafts = NoDrafts,
                       !.operations = NoOperations, !.revisions = NoRevisions]
  BY <1>0, Zenon DEF AfterErase
<1>2. CASE s.owner # owner
  BY <1>1, <1>2
<1>3. CASE s.owner = owner
  <2> DEFINE t == AfterErase(s, owner)
  <2>1. t = [s EXCEPT !.owner = NoOwner, !.drafts = NoDrafts,
                      !.operations = NoOperations, !.revisions = NoRevisions]
    BY <1>1, <1>3
  <2> HIDE DEF t
  <2>2. t.format = s.format /\ t.owner = NoOwner /\ t.revision = s.revision /\ Blank(t)
    BY <2>1 DEF Stored, Blank
  <2> QED BY <1>3, <2>2 DEF Ours, t
<1> QED BY <1>2, <1>3

\* Taking the file over after erasing it is taking it over.
LEMMA EraseThenActivate ==
    ASSUME NEW s \in Stored, Ours(s), NEW was \in Owners, NEW owner \in Owners, was # owner
    PROVE  AfterActivate(AfterErase(s, was), owner) = AfterActivate(s, owner)
<1>1. \A f : f.format = s.format => ReadLocked(f) = f
  BY DEF Ours, ReadLocked
<1>2. CASE s.owner # was
  BY <1>1, <1>2 DEF AfterErase
<1>3. CASE s.owner = was
  <2> DEFINE e == AfterErase(s, was)
  <2>1. e = [s EXCEPT !.owner = NoOwner, !.drafts = NoDrafts,
                      !.operations = NoOperations, !.revisions = NoRevisions]
    BY <1>1, <1>3 DEF AfterErase
  <2> HIDE DEF e
  <2>2. e.format = s.format /\ e.owner # owner
    BY <2>1, OwnersAssumption DEF Stored
  <2>3. AfterActivate(e, owner) =
          [e EXCEPT !.format = "v3", !.owner = owner, !.drafts = NoDrafts,
                    !.operations = NoOperations, !.revisions = NoRevisions]
    BY <1>1, <2>2 DEF AfterActivate
  <2>4. AfterActivate(s, owner) =
          [s EXCEPT !.format = "v3", !.owner = owner, !.drafts = NoDrafts,
                    !.operations = NoOperations, !.revisions = NoRevisions]
    BY <1>1, <1>3 DEF AfterActivate
  <2> QED BY <2>1, <2>3, <2>4 DEF e, Stored
<1> QED BY <1>2, <1>3

\* What settle does to a file of this build.
LEMMA SettleEffect ==
    ASSUME NEW s \in Stored, Ours(s), NEW key \in Keys, NEW expected \in Operation
    PROVE  LET t == AfterSettle(s, key, expected)
           IN  /\ t.owner = s.owner /\ t.revision = s.revision /\ t.drafts = s.drafts /\ Ours(t)
               /\ \A k \in Keys \ {key} : t.operations[k] = s.operations[k]
               /\ \/ t = s
                  \/ s.operations[key] = expected /\ ~Owed(t, key)
<1> DEFINE t == AfterSettle(s, key, expected)
<1>1. t = IF s.revisions[key] = expected.revision /\ s.operations[key] = expected
          THEN [s EXCEPT !.operations[key] = NoOperation] ELSE s
  BY OursIsReadAsItIs DEF AfterSettle
<1> HIDE DEF t
<1>2. CASE t = s
  BY <1>2 DEF t
<1>3. CASE t # s
  <2>1. s.operations[key] = expected /\ t = [s EXCEPT !.operations[key] = NoOperation]
    BY <1>1, <1>3
  <2>2. /\ t.format = s.format /\ t.owner = s.owner /\ t.revision = s.revision
        /\ t.drafts = s.drafts /\ t.operations = [s.operations EXCEPT ![key] = NoOperation]
    BY <2>1 DEF Stored
  <2>3. \A k \in Keys : t.operations[k] = IF k = key THEN NoOperation ELSE s.operations[k]
    BY <2>2 DEF Stored
  <2> QED BY <2>1, <2>2, <2>3 DEF Ours, Owed, t
<1> QED BY <1>2, <1>3

\* t is what one call of the store makes of s, a file of this build.
Called(s, t) ==
    \/ t = s
    \/ \E owner \in Owners :
        \/ t = AfterActivate(s, owner)
        \/ t = AfterErase(s, owner)
        \/ \E key \in Keys, text \in Words \union {None} :
            MayWrite(s, owner) /\ t = AfterApply(s, owner, key, text)
        \/ \E key \in RemoteKeys, expected \in Operation :
            Owns(s, owner) /\ t = AfterSettle(s, key, expected)
        \/ \E key \in RemoteKeys, text \in Words, observed \in Revision :
            /\ MayWrite(s, owner) /\ MayMerge(s, owner, key, observed)
            /\ t = AfterMerge(s, owner, key, text)

LEMMA CallKeeps ==
    ASSUME NEW s, Sound(s), Within(s), Ours(s), NEW t, Called(s, t)
    PROVE  Sound(t) /\ Within(t) /\ Ours(t) /\ Fresh(s, t)
<1>s. s \in Stored /\ Readable(s)
  BY OursIsReadAsItIs DEF Sound
<1>0. CASE t = s
  BY <1>0, <1>s, FreshReflexive
<1>1. ASSUME NEW owner \in Owners, t = AfterActivate(s, owner)
      PROVE  Sound(t) /\ Within(t) /\ Ours(t) /\ Fresh(s, t)
  BY <1>s, <1>1, ActivateIsSound, ActivateEffect, NoneHeld DEF Blank
<1>2. ASSUME NEW owner \in Owners, t = AfterErase(s, owner)
      PROVE  Sound(t) /\ Within(t) /\ Ours(t) /\ Fresh(s, t)
  BY <1>s, <1>2, EraseIsSound, EraseEffect, NoneHeld DEF Blank
<1>3. ASSUME NEW owner \in Owners, NEW key \in Keys, NEW text \in Words \union {None},
             MayWrite(s, owner), t = AfterApply(s, owner, key, text)
      PROVE  Sound(t) /\ Within(t) /\ Ours(t) /\ Fresh(s, t)
  <2>1. Sound(t) /\ Fresh(s, t)
    BY <1>3, ApplyIsSound
  <2>2. Within(t)
    BY <1>3, ApplyHolds
  <2>3. Ours(t)
    BY <1>3, ApplyEffect
  <2> QED BY <2>1, <2>2, <2>3
<1>4. ASSUME NEW key \in RemoteKeys, NEW expected \in Operation, t = AfterSettle(s, key, expected)
      PROVE  Sound(t) /\ Within(t) /\ Ours(t) /\ Fresh(s, t)
  BY <1>s, <1>4, SettleIsSound, SettleEffect, SameHeld, KeysAssumption
<1>5. ASSUME NEW owner \in Owners, NEW key \in RemoteKeys, NEW text \in Words, NEW observed,
             MayWrite(s, owner), MayMerge(s, owner, key, observed),
             t = AfterMerge(s, owner, key, text)
      PROVE  Sound(t) /\ Within(t) /\ Ours(t) /\ Fresh(s, t)
  <2>1. Sound(t) /\ Fresh(s, t)
    BY <1>5, MergeIsSound
  <2>2. Within(t)
    BY <1>5, MergeSteps, TrimBounds DEF Within
  <2>3. Ours(t)
    BY <1>5, MergeEffect
  <2> QED BY <2>1, <2>2, <2>3
<1> QED BY <1>0, <1>1, <1>2, <1>3, <1>4, <1>5 DEF Called
=============================================================================
