--------------------------- MODULE DraftStoreProofs ---------------------------
(***************************************************************************)
(* Proofs about the draft file under every sequence of calls: its type,    *)
(* the consistency of revisions, operations and payloads, the freshness    *)
(* of revisions, the number of drafts and what a merge leaves alone.       *)
(* What one call does to a file is proved in DraftFileProofs.              *)
(***************************************************************************)
EXTENDS DraftStore, DraftFileProofs

USE DEF None
----------------------------------------------------------------------------
IInv == Sound(store)

LEMMA FirstFileIsSound == Init => IInv
<1> SUFFICES ASSUME Init PROVE Sound(store)
  BY DEF IInv
<1>m. Missing \in Stored /\ Sound(Missing)
  BY MissingIsSound DEF Sound
<1>1. ASSUME NEW f \in {"other", "garbage"}
      PROVE  Sound([Missing EXCEPT !.format = f])
  BY <1>m DEF Sound, Stored, Formats, Fenced, Paid, Small, Emptied, Formed, Owed, Missing
<1>2. ASSUME NEW owner \in Owners, NEW drafts \in OlderDrafts, NEW owed \in SUBSET RemoteKeys
      PROVE  Sound(OlderFile(owner, drafts, owed))
  <2> DEFINE t == OlderFile(owner, drafts, owed)
  <2>1. /\ t.format = "v2" /\ t.owner = owner /\ t.drafts = drafts /\ t.owed = owed
        /\ t.revision = 0 /\ t.revisions = NoRevisions /\ t.operations = NoOperations
    BY DEF OlderFile, Missing
  <2>2. drafts \in [Keys -> Words \union {None}] /\ \A k \in Keys : drafts[k] \notin BigWords
    BY WordsAssumption DEF OlderDrafts
  <2>3. t \in Stored
    BY <1>m, <2>2, KeysAssumption DEF OlderFile, Stored, Formats
  <2> HIDE DEF t
  <2>4. Fenced(t) /\ Paid(t)
    BY <2>1 DEF Fenced, Paid, Owed, NoOperations, NoRevisions
  <2>5. Small(t) /\ Emptied(t) /\ Formed(t)
    BY <2>1, <2>2, OwnersAssumption DEF Small, Emptied, Formed
  <2> QED BY <2>3, <2>4, <2>5 DEF Sound, t
<1>3. CASE store \in FirstFiles
  BY <1>m, <1>1, <1>3 DEF FirstFiles
<1>4. CASE store \in OlderFiles
  BY <1>2, <1>4 DEF OlderFiles
<1> QED BY <1>3, <1>4 DEF Init

LEMMA StepIsSound == IInv /\ [Next]_vars => IInv' /\ Fresh(store, store')
<1> SUFFICES ASSUME Sound(store), [Next]_vars
             PROVE  Sound(store') /\ Fresh(store, store')
  BY DEF IInv
<1>0. CASE UNCHANGED vars
  BY <1>0, FreshReflexive DEF vars, Sound
<1>1. CASE Inspect
  BY <1>1, ReadLockedIsSound DEF Inspect
<1>2. ASSUME NEW owner \in Owners, Activate(owner)
      PROVE  Sound(store') /\ Fresh(store, store')
  BY <1>2, ActivateIsSound DEF Activate
<1>3. ASSUME NEW owner \in Owners, Erase(owner)
      PROVE  Sound(store') /\ Fresh(store, store')
  BY <1>3, EraseIsSound DEF Erase
<1>4. ASSUME NEW owner \in Owners, NEW key \in Keys, NEW text \in Words \union {None},
             Apply(owner, key, text)
      PROVE  Sound(store') /\ Fresh(store, store')
  BY <1>4, ApplyIsSound DEF Apply
<1>5. ASSUME NEW owner \in Owners, NEW key \in RemoteKeys, NEW expected \in Operation,
             Settle(owner, key, expected)
      PROVE  Sound(store') /\ Fresh(store, store')
  BY <1>5, SettleIsSound, KeysAssumption DEF Settle
<1>6. ASSUME NEW owner \in Owners, NEW key \in RemoteKeys, NEW text \in Words,
             NEW observed \in Revision, MergeRemote(owner, key, text, observed)
      PROVE  Sound(store') /\ Fresh(store, store')
  BY <1>6, MergeIsSound DEF MergeRemote
<1> QED BY <1>0, <1>1, <1>2, <1>3, <1>4, <1>5, <1>6 DEF Next

LEMMA AlwaysSound == Spec => []IInv
<1>1. Init => IInv
  BY FirstFileIsSound
<1>2. IInv /\ [Next]_vars => IInv'
  BY StepIsSound
<1> QED BY <1>1, <1>2, PTL DEF Spec

\* For any slots, accounts, texts and bounds the file keeps the shape the
\* code declares, and no call takes a revision past its width.
THEOREM TypeCorrect == Spec => []TypeOK
<1>1. IInv => TypeOK
  BY DEF IInv, Sound, TypeOK
<1> QED BY <1>1, AlwaysSound, PTL

\* An owed operation always carries the fence of its own slot, so relay_work
\* and settle never take a superseded operation for the current one.
THEOREM OperationsAreCurrent == Spec => []OperationIsCurrent
<1>1. IInv => OperationIsCurrent
  BY DEF IInv, Sound, Fenced, OperationIsCurrent
<1> QED BY <1>1, AlwaysSound, PTL

\* No owed Save is ever without its text and no owed Delete has one, through
\* migration, eviction, merging and signing out.
THEOREM PayloadsMatch == Spec => []PayloadMatches
<1>1. IInv => PayloadMatches
  BY DEF IInv, Sound, Paid, PayloadMatches
<1> QED BY <1>1, AlwaysSound, PTL

\* A file nobody owns holds no words and no owed work.
THEOREM NobodysFilesAreEmpty == Spec => []NobodysFileIsEmpty
<1>1. IInv => NobodysFileIsEmpty
  BY DEF IInv, Sound, Emptied, NobodysFileIsEmpty
<1> QED BY <1>1, AlwaysSound, PTL

\* Revisions are never reused: the counter never goes back, over any account
\* change, and every operation that enters the file is newer than all before.
THEOREM RevisionsStayFresh == Spec => RevisionsAreFresh
<1>1. IInv /\ [Next]_vars =>
        [ /\ store'.revision >= store.revision
          /\ \A k \in Keys :
              (Owed(store, k)' /\ store'.operations[k] # store.operations[k])
                  => store'.operations[k].revision > store.revision ]_vars
  BY StepIsSound DEF Fresh, Owed
<1> QED BY <1>1, AlwaysSound, PTL DEF Spec, RevisionsAreFresh

----------------------------------------------------------------------------
\* The number of drafts is a second inductive invariant, on top of the first.
Limit == IInv /\ Within(store)

LEMMA StepStaysWithin == Limit /\ [Next]_vars => Limit'
<1> SUFFICES ASSUME Sound(store), Within(store), [Next]_vars
             PROVE  Within(store')
  BY StepIsSound DEF Limit, IInv
<1>s. store \in Stored
  BY DEF Sound
<1>r. ReadLocked(store) \in Stored /\ Within(ReadLocked(store))
  BY <1>s, ReadLockedIsSound, ReadLockedHolds DEF Sound
<1>0. CASE UNCHANGED vars
  BY <1>0 DEF vars
<1>1. CASE Inspect
  BY <1>1, <1>r DEF Inspect
<1>2. ASSUME NEW owner \in Owners, Activate(owner)
      PROVE  Within(store')
  <2>1. store' = ReadLocked(store) \/ store'.drafts = NoDrafts
    BY <1>2, <1>r DEF Activate, AfterActivate, Stored
  <2> QED BY <1>r, <2>1, NoneHeld
<1>3. ASSUME NEW owner \in Owners, Erase(owner)
      PROVE  Within(store')
  <2>1. store' = ReadLocked(store) \/ store'.drafts = NoDrafts
    BY <1>3, <1>r DEF Erase, AfterErase, Stored
  <2> QED BY <1>r, <2>1, NoneHeld
<1>4. ASSUME NEW owner \in Owners, NEW key \in Keys, NEW text \in Words \union {None},
             Apply(owner, key, text)
      PROVE  Within(store')
  BY <1>4, ApplyHolds DEF Apply
<1>5. ASSUME NEW owner \in Owners, NEW key \in RemoteKeys, NEW expected \in Operation,
             Settle(owner, key, expected)
      PROVE  Within(store')
  <2>1. store'.drafts = ReadLocked(store).drafts
    BY <1>5, <1>r DEF Settle, AfterSettle, Stored
  <2> QED BY <1>r, <2>1, SameHeld
<1>6. ASSUME NEW owner \in Owners, NEW key \in RemoteKeys, NEW text \in Words,
             NEW observed \in Revision, MergeRemote(owner, key, text, observed)
      PROVE  Within(store')
  BY <1>6, MergeSteps, TrimBounds DEF MergeRemote, Within
<1> QED BY <1>0, <1>1, <1>2, <1>3, <1>4, <1>5, <1>6 DEF Next

LEMMA AlwaysWithin == Spec => []Limit
<1>1. Init => Limit
  <2> SUFFICES ASSUME Init PROVE Within(store)
    BY FirstFileIsSound DEF Limit
  <2>1. CASE store \in FirstFiles
    BY <2>1, NoneHeld DEF FirstFiles, Missing
  <2>2. CASE store \in OlderFiles
    <3>1. PICK owner \in Owners, drafts \in OlderDrafts, owed \in SUBSET RemoteKeys :
            store = OlderFile(owner, drafts, owed)
      BY <2>2 DEF OlderFiles
    <3>2. store.drafts = drafts
      BY <3>1 DEF OlderFile, Missing
    <3> QED BY <3>2 DEF OlderDrafts, Within, Held
  <2> QED BY <2>1, <2>2 DEF Init
<1>2. Limit /\ [Next]_vars => Limit'
  BY StepStaysWithin
<1> QED BY <1>1, <1>2, PTL DEF Spec

\* However many drafts are written, listed and migrated, at most MAX_DRAFTS
\* are on disk, and none that is too big for it.
THEOREM StaysBounded == Spec => []Bounded
<1>1. Limit => Bounded
  BY DEF Limit, IInv, Sound, Small, Within, Bounded
<1> QED BY <1>1, AlwaysWithin, PTL

\* A merge of the website's list leaves every slot that owes work as it was:
\* the draft it adds may cost a settled draft its place, never an owed one.
THEOREM MergesSpareOwed == Spec => MergeSparesOwed
<1>1. ASSUME Limit, NEW owner \in Owners, NEW key \in RemoteKeys, NEW text \in Words,
             NEW observed \in Revision, MergeRemote(owner, key, text, observed),
             NEW k \in Keys, Owed(Opened(store, owner), k)
      PROVE  /\ store'.operations[k] = Opened(store, owner).operations[k]
             /\ store'.drafts[k] = Opened(store, owner).drafts[k]
  BY <1>1, MergeSparesOwedSlots DEF MergeRemote, Limit, IInv
<1>2. Limit /\ [Next]_vars =>
        [ \A owner \in Owners, key \in RemoteKeys, text \in Words, observed \in Revision :
            MergeRemote(owner, key, text, observed) =>
                LET was == Opened(store, owner)
                IN  \A k \in Keys : Owed(was, k) =>
                        /\ store'.operations[k] = was.operations[k]
                        /\ store'.drafts[k] = was.drafts[k] ]_vars
  BY <1>1
<1> QED BY <1>2, AlwaysWithin, PTL DEF Spec, MergeSparesOwed
=============================================================================
