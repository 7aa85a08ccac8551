--------------------------- MODULE ReleaseProofs ---------------------------
(***************************************************************************)
(* Proofs about the release lifecycle, for every set of versions, of       *)
(* platforms and of creators, every precedence and every bound.  The last  *)
(* part is about a market whose admins never suspend a live component and  *)
(* whose submissions all name their creator: the newest release is shown,  *)
(* one creator owns a component, and the lifecycle implements the          *)
(* storefront.                                                             *)
(***************************************************************************)
EXTENDS Release, TLAPS, WellFoundedInduction

USE DEF Decisions, RowStatus, Content, Creators, Restorable, Withdrawn

-----------------------------------------------------------------------------
(* Type correctness *)

LEMMA InitTypeOK == Init => TypeOK
<1> SUFFICES ASSUME NEW legacy \in {{}, LegacyReleases}, InitWith(legacy)
             PROVE  TypeOK
    BY DEF Init
<1> USE VersionsAssumption, InputsAssumption DEF InitWith
<1>1. \A v \in Versions : LegacyRow(v) \in VersionRow
    BY DEF LegacyRow, VersionRow
<1>2. NoRelease \in VersionRow
    BY DEF NoRelease, VersionRow
<1>3. versions \in [Versions -> VersionRow]
    BY <1>1, <1>2
<1>4. item \in ItemRow
  <2>1. CASE item = NoItem
    BY <2>1 DEF NoItem, ItemRow
  <2>2. CASE \E v \in Newest(legacy) : item = ItemFromSnapshot(versions, v)
    <3>1. PICK v \in Newest(legacy) : item = ItemFromSnapshot(versions, v)
      BY <2>2
    <3>2. v \in Versions
      BY DEF Newest
    <3> QED
      BY <3>1, <3>2, <1>3 DEF ItemFromSnapshot, ItemRow, VersionRow
  <2> QED
    BY <2>1, <2>2
<1>5. platforms \in [Versions -> [Platforms -> PlatformRow]]
    BY DEF PlatformRow, NoPlatform
<1> QED
    BY <1>3, <1>4, <1>5 DEF TypeOK

LEMMA PublishTypeOK ==
  ASSUME TypeOK,
         NEW v \in Versions, NEW p \in Platforms, NEW c \in Publishers,
         NEW a \in ArtifactChoices, Publish(v, p, c, a)
  PROVE  TypeOK'
<1> USE VersionsAssumption, InputsAssumption
<1>1. submissions + 1 \in Content /\ submissions' = submissions + 1
    BY DEF TypeOK, Publish
<1>2. item' \in ItemRow
    BY <1>1 DEF TypeOK, Publish, ItemRow
<1>3. versions' \in [Versions -> VersionRow]
    BY <1>1 DEF TypeOK, Publish, VersionRow
<1>4. platforms' \in [Versions -> [Platforms -> PlatformRow]]
    BY <1>1 DEF TypeOK, Publish, PlatformRow
<1>5. artifacts' \in [Versions -> [Platforms -> Content]]
    BY <1>1 DEF TypeOK, Publish
<1> QED
    BY <1>1, <1>2, <1>3, <1>4, <1>5 DEF TypeOK, Publish

(* The two effects every decision is built from keep the tables' types. *)
LEMMA DecidedTypeOK ==
  ASSUME TypeOK, NEW v \in Versions, NEW status \in Decisions
  PROVE  VersionsDecided(v, status) \in [Versions -> VersionRow]
<1>1. versions \in [Versions -> VersionRow]
  BY DEF TypeOK
<1>2. [versions[v] EXCEPT !.status = status, !.published = (status = "approved")] \in VersionRow
  BY <1>1 DEF VersionRow
<1> QED
  BY <1>1, <1>2 DEF VersionsDecided

LEMMA MarkedTypeOK ==
  ASSUME TypeOK, NEW v \in Versions, NEW flag \in BOOLEAN
  PROVE  PlatformsMarked(v, flag) \in [Versions -> [Platforms -> PlatformRow]]
BY DEF TypeOK, PlatformsMarked, PlatformRow

LEMMA SnapshotTypeOK ==
  ASSUME TypeOK, NEW v \in Versions
  PROVE  ItemFromSnapshot(versions, v) \in ItemRow
BY DEF TypeOK, ItemFromSnapshot, ItemRow, VersionRow

LEMMA ReviewTypeOK ==
  ASSUME TypeOK, NEW status \in Decisions, UpdateReview(status)
  PROVE  TypeOK'
<1>1. CASE \E v \in Versions : ReviewCandidate(v, status)
  <2>1. PICK v \in Versions : ReviewCandidate(v, status)
    BY <1>1
  <2>2. item' \in ItemRow
    BY <2>1, SnapshotTypeOK DEF TypeOK, ReviewCandidate, ItemRow
  <2>3. /\ versions' \in [Versions -> VersionRow]
        /\ platforms' \in [Versions -> [Platforms -> PlatformRow]]
    BY <2>1, DecidedTypeOK, MarkedTypeOK DEF ReviewCandidate
  <2> QED
    BY <2>1, <2>2, <2>3 DEF TypeOK, ReviewCandidate
<1>2. CASE ReviewCurrent(status)
  <2>1. item.latest \in Versions
    BY <1>2 DEF TypeOK, ReviewCurrent, ItemRow
  <2>2. item' \in ItemRow
    BY <1>2 DEF TypeOK, ReviewCurrent, ItemRow
  <2>3. versions' \in [Versions -> VersionRow]
    BY <1>2, <2>1, DecidedTypeOK DEF ReviewCurrent
  <2>4. lastEvent' \in [Versions -> RowStatus]
    BY <1>2, <2>1 DEF TypeOK, ReviewCurrent, Decisions, RowStatus
  <2>5. UNCHANGED <<platforms, artifacts, submissions>>
    BY <1>2 DEF ReviewCurrent
  <2> QED
    BY <2>2, <2>3, <2>4, <2>5 DEF TypeOK
<1> QED
  BY <1>1, <1>2 DEF UpdateReview

LEMMA UnpublishTypeOK ==
  ASSUME TypeOK, Unpublish
  PROVE  TypeOK'
<1>1. item.latest \in Versions
    BY DEF TypeOK, Unpublish, ItemRow
<1>2. versions' \in [Versions -> VersionRow]
  <2>1. versions \in [Versions -> VersionRow]
    BY DEF TypeOK
  <2>2. [versions[item.latest] EXCEPT !.published = FALSE] \in VersionRow
    BY <1>1, <2>1 DEF VersionRow
  <2>3. versions' = [versions EXCEPT ![item.latest].published = FALSE]
    BY DEF Unpublish, Withdrawn
  <2> QED
    BY <1>1, <2>1, <2>2, <2>3
<1>3. platforms' \in [Versions -> [Platforms -> PlatformRow]]
    BY <1>1, MarkedTypeOK DEF Unpublish
<1>4. item' \in ItemRow
  <2>1. CASE item' = [item EXCEPT !.published = FALSE]
    BY <2>1 DEF TypeOK, ItemRow
  <2>2. CASE \E w \in Newest(PublishedReleases \ {item.latest}) :
                item' = ItemFromSnapshot(versions, w)
    BY <2>2, SnapshotTypeOK DEF Newest, PublishedReleases
  <2> QED
    BY <2>1, <2>2 DEF Unpublish
<1>5. /\ artifacts' \in [Versions -> [Platforms -> Content]] /\ submissions' \in Content
      /\ lastEvent' \in [Versions -> RowStatus]
    BY <1>1 DEF TypeOK, Unpublish, RowStatus
<1> QED
    BY <1>2, <1>3, <1>4, <1>5 DEF TypeOK

LEMMA RestartTypeOK ==
  ASSUME TypeOK, Restart
  PROVE  TypeOK'
<1>1. platforms' \in [Versions -> [Platforms -> PlatformRow]]
    BY DEF TypeOK, Restart, PlatformRow, VersionRow
<1>2. item.latest \in Versions /\ item.content \in Content
    BY DEF TypeOK, Restart, ItemRow
<1>3. versions' \in [Versions -> VersionRow]
  <2>1. versions \in [Versions -> VersionRow]
    BY DEF TypeOK
  <2>2. [versions[item.latest] EXCEPT !.content = item.content] \in VersionRow
    BY <1>2, <2>1 DEF VersionRow
  <2>3. [versions EXCEPT ![item.latest].content = item.content] \in [Versions -> VersionRow]
    BY <1>2, <2>1, <2>2
  <2> QED
    BY <2>1, <2>3 DEF Restart
<1> QED
    BY <1>1, <1>3 DEF TypeOK, Restart

(* Every reachable state is well typed. *)
THEOREM TypeCorrect == Spec => []TypeOK
<1>1. TypeOK /\ [Next]_vars => TypeOK'
  <2> SUFFICES ASSUME TypeOK, [Next]_vars PROVE TypeOK'
    OBVIOUS
  <2>1. CASE Submit
    BY <2>1, PublishTypeOK DEF Submit
  <2>2. CASE \E status \in Decisions : UpdateReview(status)
    BY <2>2, ReviewTypeOK
  <2>3. CASE Unpublish
    BY <2>3, UnpublishTypeOK
  <2>4. CASE Restart
    BY <2>4, RestartTypeOK
  <2>5. CASE UNCHANGED vars
    BY <2>5 DEF vars, TypeOK
  <2> QED
    BY <2>1, <2>2, <2>3, <2>4, <2>5 DEF Next
<1> QED
  BY <1>1, InitTypeOK, PTL DEF Spec

-----------------------------------------------------------------------------
(* The inductive invariant.  The mirror needs the others: a decision on a
   pending release copies that release's row into the item, or only its
   status, and would break the mirror if two releases were pending, if a
   pending one were published, or if a pending one could be invisible to the
   review for want of a snapshot (PendingRestorable): then the decision would
   fall on the item's release while another one waits. *)

PendingRestorable == \A v \in Pending : versions[v].content # 0

LifecycleInv ==
    /\ TypeOK
    /\ ItemMirrorsLatest
    /\ AtMostOnePending
    /\ PublishedIsApproved
    /\ CurrentReleaseRestorable
    /\ PendingRestorable
    /\ AuditAgrees

(* With at most one release pending, a review finds exactly that one. *)
LEMMA CandidateIsPending ==
  ASSUME LifecycleInv
  PROVE  Candidate = Pending /\ NewestPending = Pending
BY DEF LifecycleInv, TypeOK, VersionRow, Candidate, NewestPending, Pending,
       AtMostOnePending, PendingRestorable

LEMMA InitInv == Init => LifecycleInv
<1> SUFFICES ASSUME Init PROVE LifecycleInv
    OBVIOUS
<1>1. PICK legacy \in {{}, LegacyReleases} : InitWith(legacy)
    BY DEF Init
<1>2. \A v \in Versions : versions[v] = LegacyRow(v) \/ versions[v] = NoRelease
    BY <1>1 DEF InitWith
<1>3. \A v \in Versions : /\ versions[v].status # "pending"
                          /\ versions[v].published => versions[v].status = "approved"
  <2> SUFFICES ASSUME NEW v \in Versions
               PROVE  /\ versions[v].status # "pending"
                      /\ versions[v].published => versions[v].status = "approved"
    OBVIOUS
  <2>1. CASE versions[v] = LegacyRow(v)
    BY <2>1 DEF LegacyRow
  <2>2. CASE versions[v] = NoRelease
    BY <2>2 DEF NoRelease
  <2> QED
    BY <1>2, <2>1, <2>2
<1>4. ItemMirrorsLatest /\ CurrentReleaseRestorable
  <2>1. CASE item = NoItem
    BY <2>1 DEF NoItem, ItemMirrorsLatest, CurrentReleaseRestorable
  <2>2. CASE \E v \in Newest(legacy) : item = ItemFromSnapshot(versions, v)
    <3>1. PICK v \in Newest(legacy) : item = ItemFromSnapshot(versions, v)
      BY <2>2
    <3>2. v \in legacy /\ legacy = LegacyReleases /\ v \in Versions
      BY VersionsAssumption DEF Newest
    <3>3. versions[v] = LegacyRow(v)
      BY <1>1, <3>2 DEF InitWith
    <3>4. /\ versions[v].status = "approved"
          /\ versions[v].published
          /\ versions[v].content = 1
      BY <3>1, <3>2, <3>3 DEF LegacyRow
    <3>5. /\ item.latest = v
          /\ item.status = versions[v].status
          /\ item.published = versions[v].published
          /\ item.creator = versions[v].creator
          /\ item.content = versions[v].content
      BY <3>1, <3>3 DEF ItemFromSnapshot, LegacyRow
    <3>6. CurrentReleaseRestorable
      BY <3>4, <3>5, SMT DEF CurrentReleaseRestorable
    <3> QED
      BY <3>5, <3>6, Zenon DEF ItemMirrorsLatest
  <2> QED
    BY <1>1, <2>1, <2>2 DEF InitWith
<1>5. AuditAgrees
    BY <1>1 DEF InitWith, AuditAgrees
<1> QED
    BY <1>3, <1>4, <1>5, InitTypeOK
    DEF LifecycleInv, AtMostOnePending, PendingRestorable, Pending, PublishedIsApproved

LEMMA PublishInv ==
  ASSUME LifecycleInv,
         NEW v \in Versions, NEW p \in Platforms, NEW c \in Publishers,
         NEW a \in ArtifactChoices, Publish(v, p, c, a)
  PROVE  LifecycleInv'
<1> DEFINE n == submissions + 1
<1>1. TypeOK'
    BY PublishTypeOK DEF LifecycleInv
<1>2. n # 0
    BY InputsAssumption DEF LifecycleInv, TypeOK
<1>3. /\ versions'[v] = [status |-> "pending", published |-> FALSE,
                         creator |-> c, content |-> n]
      /\ \A w \in Versions \ {v} : versions'[w] = versions[w]
    BY DEF LifecycleInv, TypeOK, Publish
<1>4. Pending \subseteq {v}
    BY CandidateIsPending DEF Publish, PublishAllowed, OwnerAllows, PendingAllows, VersionAllows
<1>5. Pending' = {v}
    BY <1>3, <1>4 DEF Pending
<1>6. AtMostOnePending' /\ PendingRestorable'
    BY <1>2, <1>3, <1>5 DEF AtMostOnePending, PendingRestorable
<1>7. PublishedIsApproved'
    BY <1>3 DEF LifecycleInv, PublishedIsApproved
<1>8. ItemMirrorsLatest' /\ CurrentReleaseRestorable'
  <2>1. CASE item.published
    <3>1. item' = item
      BY <2>1 DEF Publish
    <3>2. item.latest # v
      BY <2>1, VersionsAssumption DEF Publish, PublishAllowed, OwnerAllows, PendingAllows, VersionAllows, Newer
    <3> QED
      BY <1>3, <3>1, <3>2
      DEF LifecycleInv, TypeOK, ItemRow, ItemMirrorsLatest, CurrentReleaseRestorable
  <2>2. CASE ~item.published
    <3>1. item' = [latest |-> v, status |-> "pending", published |-> FALSE,
                   creator |-> c, content |-> n]
      BY <2>2 DEF Publish
    <3>2. /\ item'.latest = v
          /\ item'.status = versions'[v].status
          /\ item'.published = versions'[v].published
          /\ item'.creator = versions'[v].creator
          /\ item'.content = versions'[v].content
          /\ versions'[v].content # 0
      BY <1>2, <1>3, <3>1
    <3> QED
      BY <3>2 DEF ItemMirrorsLatest, CurrentReleaseRestorable
  <2> QED
    BY <2>1, <2>2
<1>9. AuditAgrees'
    BY <1>3 DEF LifecycleInv, TypeOK, Publish, AuditAgrees
<1> QED
    BY <1>1, <1>6, <1>7, <1>8, <1>9 DEF LifecycleInv

(* What a decision leaves in the rows of versions. *)
LEMMA DecidedRows ==
  ASSUME TypeOK, NEW v \in Versions, NEW status \in Decisions,
         versions' = VersionsDecided(v, status)
  PROVE  /\ versions'[v].status = status
         /\ versions'[v].published = (status = "approved")
         /\ versions'[v].creator = versions[v].creator
         /\ versions'[v].content = versions[v].content
         /\ \A w \in Versions \ {v} : versions'[w] = versions[w]
BY DEF TypeOK, VersionsDecided, VersionRow

LEMMA ReviewCandidateInv ==
  ASSUME LifecycleInv, NEW v \in Versions, NEW status \in Decisions,
         ReviewCandidate(v, status)
  PROVE  LifecycleInv'
<1>1. TypeOK'
    BY ReviewTypeOK DEF LifecycleInv, UpdateReview
<1>2. /\ versions[v].status = "pending"
      /\ versions[v].content # 0
      /\ ~versions[v].published
    BY DEF LifecycleInv, TypeOK, VersionRow, ReviewCandidate, Candidate, Pending,
           PublishedIsApproved
<1>3. /\ versions'[v].status = status
      /\ versions'[v].published = (status = "approved")
      /\ versions'[v].creator = versions[v].creator
      /\ versions'[v].content = versions[v].content
      /\ \A w \in Versions \ {v} : versions'[w] = versions[w]
    BY DecidedRows DEF LifecycleInv, ReviewCandidate
<1>4. \A w \in Versions : versions'[w].status = "pending" =>
          w \in Pending /\ versions'[w].content # 0
  <2> SUFFICES ASSUME NEW w \in Versions, versions'[w].status = "pending"
               PROVE  w \in Pending /\ versions'[w].content # 0
    OBVIOUS
  <2>1. CASE w = v
    BY <1>2, <1>3, <2>1 DEF Pending
  <2>2. CASE w # v
    BY <1>3, <2>2 DEF LifecycleInv, PendingRestorable, Pending
  <2> QED
    BY <2>1, <2>2
<1>5. AtMostOnePending' /\ PendingRestorable'
    BY <1>4 DEF LifecycleInv, AtMostOnePending, PendingRestorable, Pending
<1>6. PublishedIsApproved'
  <2> SUFFICES ASSUME NEW w \in Versions, versions'[w].published
               PROVE  versions'[w].status = "approved"
    BY DEF PublishedIsApproved
  <2>1. CASE w = v
    <3>1. versions'[v].published /\ versions'[v].published = (status = "approved")
      BY <1>3, <2>1
    <3>2. status = "approved"
      BY <3>1
    <3> QED
      BY <1>3, <2>1, <3>2
  <2>2. CASE w # v
    <3>1. versions'[w] = versions[w]
      BY <1>3, <2>2
    <3> QED
      BY <3>1 DEF LifecycleInv, PublishedIsApproved
  <2> QED
    BY <2>1, <2>2
<1>7. ItemMirrorsLatest' /\ CurrentReleaseRestorable'
  <2>1. CASE status = "approved"
    BY <1>2, <1>3, <2>1
    DEF ReviewCandidate, ItemFromSnapshot, ItemMirrorsLatest, CurrentReleaseRestorable
  <2>2. CASE status # "approved" /\ ~item.published /\ item.latest = v
    BY <1>2, <1>3, <2>2
    DEF LifecycleInv, TypeOK, ItemRow, ReviewCandidate, ItemMirrorsLatest,
        CurrentReleaseRestorable
  <2>3. CASE status # "approved" /\ (item.published \/ item.latest # v)
    <3>1. item' = item
      BY <2>3 DEF ReviewCandidate
    <3>2. item.latest # v
      BY <1>2, <2>3, VersionsAssumption DEF LifecycleInv, ItemMirrorsLatest
    <3> QED
      BY <1>3, <3>1, <3>2
      DEF LifecycleInv, TypeOK, ItemRow, ItemMirrorsLatest, CurrentReleaseRestorable
  <2> QED
    BY <2>1, <2>2, <2>3
<1>8. AuditAgrees'
    BY <1>3 DEF LifecycleInv, TypeOK, ReviewCandidate, AuditAgrees
<1> QED
    BY <1>1, <1>5, <1>6, <1>7, <1>8 DEF LifecycleInv
LEMMA ReviewCurrentInv ==
  ASSUME LifecycleInv, NEW status \in Decisions, ReviewCurrent(status)
  PROVE  LifecycleInv'
<1> DEFINE L == item.latest
<1>1. TypeOK'
    BY ReviewTypeOK DEF LifecycleInv, UpdateReview
<1>2. L \in Versions /\ versions[L].content # 0
    BY DEF LifecycleInv, TypeOK, ItemRow, ReviewCurrent, CurrentReleaseRestorable
<1>3. /\ versions'[L].status = status
      /\ versions'[L].published = (status = "approved")
      /\ versions'[L].creator = versions[L].creator
      /\ versions'[L].content = versions[L].content
      /\ \A w \in Versions \ {L} : versions'[w] = versions[w]
    BY <1>2, DecidedRows DEF LifecycleInv, ReviewCurrent
<1>4. \A w \in Versions : versions[w].status # "pending"
    BY CandidateIsPending DEF ReviewCurrent, Pending
<1>5. AtMostOnePending' /\ PendingRestorable'
  <2>1. \A w \in Versions : versions'[w].status = "pending" => w = L
    BY <1>3, <1>4
  <2> QED
    BY <1>2, <1>3, <2>1 DEF AtMostOnePending, PendingRestorable, Pending
<1>6. PublishedIsApproved'
  <2> SUFFICES ASSUME NEW w \in Versions, versions'[w].published
               PROVE  versions'[w].status = "approved"
    BY DEF PublishedIsApproved
  <2>1. CASE w = L
    <3>1. versions'[L].published /\ versions'[L].published = (status = "approved")
      BY <1>3, <2>1
    <3>2. status = "approved"
      BY <3>1
    <3> QED
      BY <1>3, <2>1, <3>2
  <2>2. CASE w # L
    <3>1. versions'[w] = versions[w]
      BY <1>3, <2>2
    <3> QED
      BY <3>1 DEF LifecycleInv, PublishedIsApproved
  <2> QED
    BY <2>1, <2>2
<1>7. /\ item'.latest = L
      /\ item'.status = status
      /\ item'.published = (status = "approved")
      /\ item'.creator = item.creator
      /\ item'.content = item.content
    BY DEF LifecycleInv, TypeOK, ItemRow, ReviewCurrent
<1>8. L # NoVersion /\ versions[L].creator = item.creator /\ versions[L].content = item.content
    BY DEF LifecycleInv, ItemMirrorsLatest, ReviewCurrent
<1>9. ItemMirrorsLatest'
  <2>1. versions'[L].published = item'.published
    BY <1>3, <1>7, Zenon
  <2> QED
    BY <1>3, <1>7, <1>8, <2>1, Zenon DEF ItemMirrorsLatest
<1>10. CurrentReleaseRestorable'
    BY <1>2, <1>3, <1>7 DEF CurrentReleaseRestorable
<1>11. AuditAgrees'
    BY <1>2, <1>3 DEF LifecycleInv, TypeOK, ReviewCurrent, AuditAgrees
<1> QED
    BY <1>1, <1>5, <1>6, <1>9, <1>10, <1>11 DEF LifecycleInv

LEMMA UnpublishInv ==
  ASSUME LifecycleInv, Unpublish
  PROVE  LifecycleInv'
<1> DEFINE L == item.latest
<1>1. TypeOK'
    BY UnpublishTypeOK DEF LifecycleInv
<1>2. L \in Versions /\ L # NoVersion
    BY DEF LifecycleInv, TypeOK, ItemRow, Unpublish
<1>3. /\ ~versions'[L].published
      /\ \A w \in Versions : /\ versions'[w].status = versions[w].status
                             /\ versions'[w].creator = versions[w].creator
                             /\ versions'[w].content = versions[w].content
      /\ \A w \in Versions \ {L} : versions'[w] = versions[w]
    BY <1>2 DEF LifecycleInv, TypeOK, VersionRow, Unpublish
<1>4. AtMostOnePending' /\ PendingRestorable'
    BY <1>3 DEF LifecycleInv, AtMostOnePending, PendingRestorable, Pending
<1>5. PublishedIsApproved'
  <2> SUFFICES ASSUME NEW w \in Versions, versions'[w].published
               PROVE  versions'[w].status = "approved"
    BY DEF PublishedIsApproved
  <2>1. versions'[w] = versions[w]
    BY <1>3
  <2> QED
    BY <2>1 DEF LifecycleInv, PublishedIsApproved
<1>6. ItemMirrorsLatest' /\ CurrentReleaseRestorable'
  <2>1. CASE item' = [item EXCEPT !.published = FALSE]
    <3>1. /\ item'.latest = L
          /\ item'.status = item.status
          /\ ~item'.published
          /\ item'.creator = item.creator
          /\ item'.content = item.content
      BY <2>1 DEF LifecycleInv, TypeOK, ItemRow
    <3>2. versions'[L].published = FALSE /\ item'.published = FALSE
      BY <2>1, <1>2 DEF LifecycleInv, TypeOK, ItemRow, VersionRow, Unpublish
    <3>3. versions'[L].content # 0
      BY <1>2, <1>3 DEF LifecycleInv, CurrentReleaseRestorable
    <3>4. /\ versions'[L].status = item.status
          /\ versions'[L].creator = item.creator
          /\ versions'[L].content = item.content
      BY <1>2, <1>3 DEF LifecycleInv, ItemMirrorsLatest
    <3> QED
      BY <3>1, <3>2, <3>3, <3>4 DEF ItemMirrorsLatest, CurrentReleaseRestorable
  <2>2. ASSUME NEW w \in Newest(PublishedReleases \ {L}),
               versions[w].content # 0, item' = ItemFromSnapshot(versions, w)
        PROVE  ItemMirrorsLatest' /\ CurrentReleaseRestorable'
    <3>1. w \in Versions \ {L} /\ versions[w].published /\ versions[w].status = "approved"
      BY DEF Newest, PublishedReleases
    <3>2. versions'[w] = versions[w]
      BY <1>3, <3>1
    <3>3. versions[w].published = TRUE
      BY <3>1 DEF LifecycleInv, TypeOK, VersionRow
    <3>4. /\ item'.latest = w
          /\ item'.status = "approved"
          /\ item'.published = TRUE
          /\ item'.creator = versions[w].creator
          /\ item'.content = versions[w].content
      BY <2>2 DEF ItemFromSnapshot
    <3> QED
      BY <2>2, <3>1, <3>2, <3>3, <3>4 DEF ItemMirrorsLatest, CurrentReleaseRestorable
  <2> QED
    BY <2>1, <2>2 DEF Unpublish
<1>7. AuditAgrees'
    BY <1>3 DEF LifecycleInv, Unpublish, AuditAgrees
<1> QED
    BY <1>1, <1>4, <1>5, <1>6, <1>7 DEF LifecycleInv

LEMMA RestartInv ==
  ASSUME LifecycleInv, Restart
  PROVE  LifecycleInv'
<1>1. TypeOK'
    BY RestartTypeOK DEF LifecycleInv
<1>2. versions' = versions /\ item' = item /\ lastEvent' = lastEvent
    BY DEF LifecycleInv, CurrentReleaseRestorable, Restart
<1> QED
    BY <1>1, <1>2
    DEF LifecycleInv, ItemMirrorsLatest, AtMostOnePending, PublishedIsApproved,
        CurrentReleaseRestorable, PendingRestorable, AuditAgrees, Pending

LEMMA NextInv == LifecycleInv /\ [Next]_vars => LifecycleInv'
<1> SUFFICES ASSUME LifecycleInv, [Next]_vars PROVE LifecycleInv'
  OBVIOUS
<1>1. CASE Submit
  BY <1>1, PublishInv DEF Submit
<1>2. CASE \E status \in Decisions : UpdateReview(status)
  BY <1>2, ReviewCandidateInv, ReviewCurrentInv DEF UpdateReview
<1>3. CASE Unpublish
  BY <1>3, UnpublishInv
<1>4. CASE Restart
  BY <1>4, RestartInv
<1>5. CASE UNCHANGED vars
  BY <1>5
  DEF vars, LifecycleInv, TypeOK, ItemMirrorsLatest, AtMostOnePending, PublishedIsApproved,
      CurrentReleaseRestorable, PendingRestorable, AuditAgrees, Pending
<1> QED
  BY <1>1, <1>2, <1>3, <1>4, <1>5 DEF Next

(* The lifecycle keeps its invariant whatever is submitted, decided, withdrawn
   and restarted. *)
THEOREM Lifecycle == Spec => []LifecycleInv
BY InitInv, NextInv, PTL DEF Spec

(* The item row is always a copy of its latest release's row. *)
THEOREM MirrorTheorem == Spec => []ItemMirrorsLatest
<1>1. LifecycleInv => ItemMirrorsLatest
  BY DEF LifecycleInv
<1> QED
  BY <1>1, Lifecycle, PTL

(* A component never has two releases waiting for review. *)
THEOREM OnePendingTheorem == Spec => []AtMostOnePending
<1>1. LifecycleInv => AtMostOnePending
  BY DEF LifecycleInv
<1> QED
  BY <1>1, Lifecycle, PTL

(* No release is public that was not approved. *)
THEOREM ApprovalTheorem == Spec => []PublishedIsApproved
<1>1. LifecycleInv => PublishedIsApproved
  BY DEF LifecycleInv
<1> QED
  BY <1>1, Lifecycle, PTL

(* The server can always start again: the shown release has its snapshot. *)
THEOREM RestorableTheorem == Spec => []CurrentReleaseRestorable
<1>1. LifecycleInv => CurrentReleaseRestorable
  BY DEF LifecycleInv
<1> QED
  BY <1>1, Lifecycle, PTL

(* The audit trail's last word on a release is the release's status. *)
THEOREM AuditTheorem == Spec => []AuditAgrees
<1>1. LifecycleInv => AuditAgrees
  BY DEF LifecycleInv
<1> QED
  BY <1>1, Lifecycle, PTL
-----------------------------------------------------------------------------
(* What a step may do to published releases *)

(* A decision, on whichever release, keeps contents, owners and platform
   specifications: it changes statuses and flags only. *)
LEMMA DecidedKeepsContents ==
  ASSUME TypeOK, NEW v \in Versions, NEW status \in Decisions,
         versions' = VersionsDecided(v, status)
  PROVE  \A w \in Versions : /\ versions'[w].content = versions[w].content
                             /\ versions'[w].creator = versions[w].creator
BY DecidedRows

LEMMA MarkedKeepsContents ==
  ASSUME TypeOK, NEW v \in Versions, NEW flag \in BOOLEAN,
         platforms' = PlatformsMarked(v, flag)
  PROVE  \A w \in Versions, p \in Platforms :
            platforms'[w][p].content = platforms[w][p].content
BY DEF TypeOK, PlatformsMarked

LEMMA NextServes ==
  ASSUME LifecycleInv, [Next]_vars, NEW w \in Versions, versions[w].published
  PROVE  StaysServed(w)
<1>0. TypeOK
  BY DEF LifecycleInv
<1>1. CASE Submit
  <2>1. PICK v \in Versions, p \in Platforms, c \in Publishers, a \in ArtifactChoices :
              Publish(v, p, c, a)
    BY <1>1 DEF Submit
  <2>2. w # v
    BY <2>1 DEF Publish, PublishAllowed, VersionAllows
  <2> QED
    BY <1>0, <2>1, <2>2 DEF TypeOK, Publish, StaysServed
<1>2. ASSUME NEW status \in Decisions, NEW v \in Versions, ReviewCandidate(v, status)
      PROVE  StaysServed(w)
  <2>1. /\ versions' = VersionsDecided(v, status)
        /\ platforms' = PlatformsMarked(v, status = "approved")
        /\ artifacts' = artifacts
    BY <1>2 DEF ReviewCandidate
  <2>2. (status = "approved") \in BOOLEAN
    OBVIOUS
  <2>3. \A p \in Platforms : platforms'[w][p].content = platforms[w][p].content
    BY <1>0, <2>1, <2>2, MarkedKeepsContents
  <2>4. w # v
    BY <1>2 DEF LifecycleInv, PublishedIsApproved, ReviewCandidate, Candidate, Pending
  <2>5. versions'[w].published
    BY <1>0, <2>1, <2>4, DecidedRows
  <2> QED
    BY <1>0, <2>1, <2>3, <2>5, DecidedKeepsContents DEF StaysServed
<1>3. ASSUME NEW status \in Decisions, ReviewCurrent(status)
      PROVE  StaysServed(w)
  <2>1. item.latest \in Versions /\ versions' = VersionsDecided(item.latest, status)
    BY <1>0, <1>3 DEF TypeOK, ItemRow, ReviewCurrent
  <2>2. versions'[w].published \/ w = item.latest
    BY <1>0, <2>1, DecidedRows
  <2> QED
    BY <1>0, <1>3, <2>1, <2>2, DecidedKeepsContents DEF ReviewCurrent, StaysServed
<1>4. CASE Unpublish
  <2>1. item.latest \in Versions
    BY <1>0, <1>4 DEF TypeOK, ItemRow, Unpublish
  <2>2. /\ versions'[w].published \/ w = item.latest
        /\ versions'[w].content = versions[w].content
        /\ versions'[w].creator = versions[w].creator
    BY <1>0, <1>4, <2>1 DEF TypeOK, VersionRow, Unpublish
  <2> QED
    BY <1>0, <1>4, <2>1, <2>2, MarkedKeepsContents DEF Unpublish, StaysServed
<1>5. CASE Restart
  <2>1. versions' = versions /\ artifacts' = artifacts
    BY <1>5 DEF LifecycleInv, CurrentReleaseRestorable, Restart
  <2> QED
    BY <1>0, <1>5, <2>1 DEF TypeOK, Restart, StaysServed
<1>6. CASE UNCHANGED vars
  BY <1>6 DEF vars, StaysServed
<1> QED
  BY <1>1, <1>2, <1>3, <1>4, <1>5, <1>6 DEF Next, UpdateReview

(* A published release is immutable: no submission, decision, withdrawal or
   restart changes what it serves, and only the current one is withdrawn. *)
THEOREM ImmutableTheorem == Spec => PublishedReleaseImmutable
<1>1. LifecycleInv /\ [Next]_vars =>
        [\A v \in Versions : versions[v].published => StaysServed(v)]_vars
  BY NextServes
<1> QED
  BY <1>1, Lifecycle, PTL DEF Spec, PublishedReleaseImmutable

-----------------------------------------------------------------------------
(* What readers see is the same after a step that leaves the item and the
   published releases alone. *)
LEMMA SameView ==
  ASSUME item' = item,
         PublishedReleases' = PublishedReleases,
         \A v \in PublishedReleases : /\ versions'[v].content = versions[v].content
                                      /\ versions'[v].creator = versions[v].creator
                                      /\ ServedPlatforms(v)' = ServedPlatforms(v)
                                      /\ artifacts'[v] = artifacts[v]
  PROVE  PublicView' = PublicView
<1> DEFINE Page(v) == [content |-> versions[v].content, creator |-> versions[v].creator,
                       platforms |-> ServedPlatforms(v), files |-> artifacts[v]]
<1>1. \A v \in PublishedReleases : Page(v)' = Page(v)
  OBVIOUS
<1>2. [v \in PublishedReleases' |-> Page(v)'] = [v \in PublishedReleases |-> Page(v)]
  BY <1>1
<1> QED
  BY <1>2 DEF PublicView, OnShelf

LEMMA HiddenView ==
  ASSUME ~item.published, ~item'.published
  PROVE  PublicView' = PublicView
BY DEF PublicView, OnShelf

(* A step on release w, which is not public before or after, is invisible. *)
LEMMA OtherReleaseView ==
  ASSUME item' = item, NEW w \in Versions,
         ~versions[w].published, ~versions'[w].published,
         \A v \in Versions \ {w} : /\ versions'[v] = versions[v]
                                   /\ platforms'[v] = platforms[v]
                                   /\ artifacts'[v] = artifacts[v]
  PROVE  PublicView' = PublicView
<1>1. PublishedReleases' = PublishedReleases
  BY DEF PublishedReleases
<1>2. PublishedReleases \subseteq Versions \ {w}
  BY DEF PublishedReleases
<1>3. \A v \in PublishedReleases : ServedPlatforms(v)' = ServedPlatforms(v)
  BY <1>2 DEF ServedPlatforms
<1> QED
  BY <1>1, <1>2, <1>3, SameView

LEMMA NextKeepsView ==
  ASSUME LifecycleInv, Next, ~Decision, ~Restart
  PROVE  PublicView' = PublicView
<1>0. TypeOK
  BY DEF LifecycleInv
<1>1. CASE Submit
  <2>1. PICK v \in Versions, p \in Platforms, c \in Publishers, a \in ArtifactChoices :
              Publish(v, p, c, a)
    BY <1>1 DEF Submit
  <2>2. CASE item.published
    <3>1. ~versions[v].published /\ ~versions'[v].published /\ item' = item
      BY <1>0, <2>1, <2>2 DEF TypeOK, Publish, PublishAllowed, OwnerAllows, PendingAllows, VersionAllows
    <3>2. \A w \in Versions \ {v} : /\ versions'[w] = versions[w]
                                    /\ platforms'[w] = platforms[w]
                                    /\ artifacts'[w] = artifacts[w]
      BY <1>0, <2>1 DEF TypeOK, Publish
    <3> QED
      BY <3>1, <3>2, OtherReleaseView
  <2>3. CASE ~item.published
    BY <2>1, <2>3, HiddenView DEF Publish
  <2> QED
    BY <2>2, <2>3
<1>2. ASSUME NEW status \in Decisions, NEW v \in Versions, ReviewCandidate(v, status)
      PROVE  PublicView' = PublicView
  <2>1. status # "approved"
    BY <1>2 DEF Decision
  <2>2. CASE item.published
    <3>1. item' = item
      BY <1>2, <2>1, <2>2 DEF ReviewCandidate
    <3>2. versions[v].status = "pending"
      BY <1>2 DEF ReviewCandidate, Candidate, Pending
    <3>3. ~versions[v].published
      BY <3>2 DEF LifecycleInv, PublishedIsApproved
    <3>4. /\ ~versions'[v].published
          /\ \A w \in Versions \ {v} : versions'[w] = versions[w]
      BY <1>0, <1>2, <2>1, DecidedRows DEF ReviewCandidate
    <3>5. \A w \in Versions \ {v} : platforms'[w] = platforms[w] /\ artifacts'[w] = artifacts[w]
      BY <1>0, <1>2 DEF TypeOK, ReviewCandidate, PlatformsMarked
    <3> QED
      BY <3>1, <3>3, <3>4, <3>5, OtherReleaseView
  <2>3. CASE ~item.published
    <3>1. ~item'.published
      BY <1>0, <1>2, <2>1, <2>3 DEF TypeOK, ItemRow, ReviewCandidate
    <3> QED
      BY <2>3, <3>1, HiddenView
  <2> QED
    BY <2>2, <2>3
<1> QED
  BY <1>1, <1>2 DEF Next, UpdateReview, Decision

\* A restart adds platform rows, and readers get those of published releases.
LEMMA RestartOnlyAdds ==
  ASSUME LifecycleInv, Restart, PublicView' # PublicView
  PROVE  OnlyBackfilled
<1> DEFINE Page(v) == [content |-> versions[v].content, creator |-> versions[v].creator,
                       platforms |-> ServedPlatforms(v), files |-> artifacts[v]]
<1>1. versions' = versions /\ artifacts' = artifacts /\ item' = item
  BY DEF LifecycleInv, CurrentReleaseRestorable, Restart
<1>2. \A v \in Versions, p \in Platforms :
         \/ platforms'[v][p] = platforms[v][p]
         \/ platforms[v][p].content = 0 /\ platforms'[v][p].content = Backfilled
  BY DEF LifecycleInv, TypeOK, Restart
<1>3. PublishedReleases' = PublishedReleases /\ PublishedReleases \subseteq Versions
  BY <1>1 DEF PublishedReleases
<1>4. OnShelf /\ OnShelf'
  <2>1. OnShelf' = OnShelf
    BY <1>1 DEF OnShelf
  <2> QED
    BY <1>1, <2>1 DEF PublicView
<1>5. /\ PublicView = [page |-> item, releases |-> [v \in PublishedReleases |-> Page(v)]]
      /\ PublicView' = [page |-> item', releases |-> [v \in PublishedReleases' |-> Page(v)']]
  BY <1>4 DEF PublicView
<1>6. ASSUME NEW v \in PublishedReleases
      PROVE  /\ Page(v)' = [Page(v) EXCEPT !.platforms = ServedPlatforms(v)']
             /\ Page(v)'.platforms = ServedPlatforms(v)'
             /\ Page(v).platforms = ServedPlatforms(v)
  BY <1>1
<1>7. ASSUME NEW v \in PublishedReleases, NEW p \in Platforms
      PROVE  \/ ServedPlatforms(v)'[p] = ServedPlatforms(v)[p]
             \/ platforms[v][p].content = 0 /\ ServedPlatforms(v)'[p] = Backfilled
  <2>1. CASE platforms'[v][p] = platforms[v][p]
    BY <2>1 DEF ServedPlatforms
  <2>2. CASE platforms[v][p].content = 0 /\ platforms'[v][p].content = Backfilled
    <3>1. ServedPlatforms(v)[p] = 0
      BY <2>2 DEF ServedPlatforms
    <3>2. ServedPlatforms(v)'[p] \in {0, Backfilled}
      BY <2>2 DEF ServedPlatforms
    <3> QED
      BY <2>2, <3>1, <3>2
  <2> QED
    BY <1>2, <1>3, <2>1, <2>2
<1> HIDE DEF Page
<1>8. /\ PublicView'.page = PublicView.page
      /\ DOMAIN PublicView.releases = PublishedReleases
      /\ DOMAIN PublicView'.releases = PublishedReleases
      /\ \A v \in PublishedReleases : /\ PublicView.releases[v] = Page(v)
                                      /\ PublicView'.releases[v] = Page(v)'
  BY <1>1, <1>3, <1>5
<1> QED
  BY <1>6, <1>7, <1>8 DEF OnlyBackfilled

(* Readers see a change only by a decision on what is public, or by a restart
   that adds platforms to what they see and takes nothing away. *)
THEOREM CatalogTheorem == Spec => CatalogChangesOnlyByDecision
<1>1. LifecycleInv /\ [Next]_vars =>
        [PublicView' # PublicView => Decision \/ (Restart /\ OnlyBackfilled)]_vars
  BY NextKeepsView, RestartOnlyAdds
<1> QED
  BY <1>1, Lifecycle, PTL DEF Spec, CatalogChangesOnlyByDecision

-----------------------------------------------------------------------------
(* A disciplined market *)

\* What the properties from here on suppose.
Discipline == LiveReviews \subseteq {"approved"} /\ NoCreator \notin Publishers

-----------------------------------------------------------------------------
(* The inductive invariant.  That the newest release is shown survives a
   withdrawal only if the others are in order among themselves, and an approval
   only if what is pending is newer than what is shown: Publish asked that of
   the release shown then. *)

ShownIsLive ==
    item.published => item.latest \in PublishedReleases /\ item.status = "approved"

PublishedOrdered ==
    \A v, w \in PublishedReleases : v = w \/ Newer(v, w) \/ Newer(w, v)

PendingIsNewer ==
    item.published => \A v \in Pending : Newer(v, item.latest)

(* A release has the owner of every older one that has one: so the owner can
   only be asked for at the release shown. *)
OwnersInherit ==
    \A v \in Pending \cup PublishedReleases, w \in PublishedReleases :
        Newer(v, w) /\ versions[w].creator # NoCreator =>
            versions[v].creator = versions[w].creator

ShelfInv ==
    /\ LifecycleInv
    /\ ShelfShowsNewest
    /\ ShownIsLive
    /\ PublishedOrdered
    /\ PendingIsNewer
    /\ OwnersInherit

-----------------------------------------------------------------------------
(* Precedence *)

LEMMA NewerTransitive ==
    ASSUME NEW u \in Versions, NEW v \in Versions, NEW w \in Versions,
           Newer(u, v), Newer(v, w)
    PROVE  Newer(u, w)
BY VersionsAssumption DEF Newer

LEMMA NewerAsymmetric ==
    ASSUME NEW u \in Versions, NEW v \in Versions, Newer(u, v)
    PROVE  ~Newer(v, u) /\ u # v
BY VersionsAssumption DEF Newer

\* Releases below another one have a greatest: ranks above it run out.
LEMMA NewestExists ==
    ASSUME NEW v \in Versions, NEW S \in SUBSET Versions, S # {},
           \A w \in S : Newer(v, w)
    PROVE  Newest(S) # {}
<1> DEFINE Gap(w) == Rank[v] - Rank[w]
           Gaps == {Gap(w) : w \in S}
<1>1. \A w \in S : w \notin Malformed /\ Gap(w) \in Nat /\ Rank[w] \in Nat /\ Rank[v] \in Nat
    BY VersionsAssumption DEF Newer
<1>2. Gaps # {} /\ Gaps \subseteq Nat
    BY <1>1
<1>3. PICK g \in Gaps : \A h \in Gaps : ~(<<h, g>> \in OpToRel(<, Nat))
  <2> HIDE DEF Gaps
  <2> QED
    BY <1>2, WFMin, NatLessThanWellFounded
<1>4. \A h \in Gaps : ~(h < g)
    BY <1>2, <1>3 DEF OpToRel
<1>5. PICK w \in S : g = Gap(w)
    OBVIOUS
<1>6. \A x \in S : ~(Gap(x) < Gap(w))
    BY <1>4, <1>5
<1>7. \A x \in S : ~Newer(x, w)
    BY <1>1, <1>6 DEF Newer
<1> QED
    BY <1>1, <1>7 DEF Newest

-----------------------------------------------------------------------------
(* What each operation does to the releases that are public or pending *)

OwnerOf(v) == versions[v].creator

LEMMA PublishEffects ==
    ASSUME LifecycleInv,
           NEW v \in Versions, NEW p \in Platforms, NEW c \in Publishers,
           NEW a \in ArtifactChoices, Publish(v, p, c, a)
    PROVE  /\ PublishedReleases' = PublishedReleases
           /\ v \notin PublishedReleases
           /\ Pending' = {v}
           /\ OwnerOf(v)' = c
           /\ \A w \in Versions \ {v} : OwnerOf(w)' = OwnerOf(w)
           /\ ~DifferentCreators(item.creator, c)
           /\ item.published => item' = item /\ Newer(v, item.latest)
           /\ ~item.published => ~item'.published
<1>1. /\ versions'[v] = [status |-> "pending", published |-> FALSE,
                         creator |-> c, content |-> submissions + 1]
      /\ \A w \in Versions \ {v} : versions'[w] = versions[w]
    BY DEF LifecycleInv, TypeOK, Publish
<1>2. Pending \subseteq {v}
    BY CandidateIsPending DEF Publish, PublishAllowed, PendingAllows
<1>3. Pending' = {v}
    BY <1>1, <1>2 DEF Pending
<1>4. ~versions[v].published /\ ~versions'[v].published
    BY <1>1 DEF Publish, PublishAllowed, VersionAllows
<1>5. PublishedReleases' = PublishedReleases
    BY <1>1, <1>4 DEF PublishedReleases
<1>6. /\ ~DifferentCreators(item.creator, c)
      /\ item.published => item' = item /\ Newer(v, item.latest)
      /\ ~item.published => ~item'.published
    BY DEF Publish, PublishAllowed, OwnerAllows, VersionAllows
<1> QED
    BY <1>1, <1>3, <1>4, <1>5, <1>6 DEF PublishedReleases, OwnerOf

LEMMA ApproveEffects ==
    ASSUME LifecycleInv, NEW v \in Versions, ReviewCandidate(v, "approved")
    PROVE  /\ v \in Pending /\ v \notin PublishedReleases
           /\ PublishedReleases' = PublishedReleases \cup {v}
           /\ Pending' = {}
           /\ \A w \in Versions : OwnerOf(w)' = OwnerOf(w)
           /\ item'.latest = v /\ item'.published /\ item'.status = "approved"
<1>1. v \in Pending /\ Pending = {v}
    BY CandidateIsPending DEF ReviewCandidate, LifecycleInv, AtMostOnePending
<1>2. versions[v].status = "pending" /\ v \notin PublishedReleases
    BY <1>1 DEF Pending, PublishedReleases
<1> versions' = VersionsDecided(v, "approved") /\ TypeOK /\ "approved" \in Decisions
    BY DEF LifecycleInv, ReviewCandidate
<1>3. /\ versions'[v].status = "approved" /\ versions'[v].published
      /\ versions'[v].creator = versions[v].creator
      /\ \A w \in Versions \ {v} : versions'[w] = versions[w]
    BY DecidedRows
<1>4. PublishedReleases' = PublishedReleases \cup {v}
    BY <1>3 DEF PublishedReleases
<1>5. Pending' = {}
    BY <1>1, <1>3 DEF Pending
<1>6. item'.latest = v /\ item'.published /\ item'.status = "approved"
    BY DEF ReviewCandidate, ItemFromSnapshot
<1> QED
    BY <1>1, <1>2, <1>3, <1>4, <1>5, <1>6 DEF OwnerOf

LEMMA RejectEffects ==
    ASSUME LifecycleInv, NEW v \in Versions, NEW status \in Decisions,
           status # "approved", ReviewCandidate(v, status)
    PROVE  /\ PublishedReleases' = PublishedReleases
           /\ Pending' \subseteq Pending
           /\ \A w \in Versions : OwnerOf(w)' = OwnerOf(w)
           /\ item'.latest = item.latest /\ item'.published = item.published
           /\ item.published => item' = item
<1>1. v \in Pending
    BY CandidateIsPending DEF ReviewCandidate
<1>2. versions[v].status = "pending"
    BY <1>1 DEF Pending
<1>3. /\ versions'[v].status = status
      /\ versions'[v].creator = versions[v].creator
      /\ \A w \in Versions \ {v} : versions'[w] = versions[w]
    BY DecidedRows DEF LifecycleInv, ReviewCandidate
<1>4. PublishedReleases' = PublishedReleases
    BY <1>2, <1>3 DEF PublishedReleases
<1>5. Pending' \subseteq Pending
    BY <1>1, <1>3 DEF Pending
<1>6. /\ item'.latest = item.latest /\ item'.published = item.published
      /\ item.published => item' = item
    BY DEF ReviewCandidate, LifecycleInv, TypeOK, ItemRow
<1> QED
    BY <1>3, <1>4, <1>5, <1>6 DEF OwnerOf

LEMMA CurrentEffects ==
    ASSUME Discipline, LifecycleInv, NEW status \in Decisions, ReviewCurrent(status)
    PROVE  /\ item.latest \in Versions
           /\ Pending = {}
           /\ item'.latest = item.latest
           /\ item'.published = (status = "approved") /\ item'.status = status
           /\ item.published => status = "approved" /\ PublishedReleases' = PublishedReleases
           /\ Pending' \subseteq {item.latest}
           /\ status = "approved" => Pending' = {}
           /\ PublishedReleases' = IF status = "approved"
                                   THEN PublishedReleases \cup {item.latest}
                                   ELSE PublishedReleases \ {item.latest}
           /\ \A w \in Versions : OwnerOf(w)' = OwnerOf(w)
<1> DEFINE L == item.latest
<1>1. L \in Versions
    BY DEF LifecycleInv, TypeOK, ItemRow, ReviewCurrent
<1>2. Pending = {}
    BY CandidateIsPending DEF ReviewCurrent
<1>3. /\ versions'[L].status = status
      /\ versions'[L].published = (status = "approved")
      /\ versions'[L].creator = versions[L].creator
      /\ \A w \in Versions \ {L} : versions'[w] = versions[w]
    BY <1>1, DecidedRows DEF LifecycleInv, ReviewCurrent
<1>4. item'.latest = L /\ item'.published = (status = "approved") /\ item'.status = status
    BY DEF ReviewCurrent, LifecycleInv, TypeOK, ItemRow
<1>5. item.published => status = "approved"
    BY DEF Discipline, ReviewCurrent
<1>6. PublishedReleases' = IF status = "approved" THEN PublishedReleases \cup {L}
                           ELSE PublishedReleases \ {L}
    BY <1>1, <1>3 DEF PublishedReleases
<1>7. item.published => L \in PublishedReleases
    BY <1>1, VersionsAssumption
    DEF LifecycleInv, ItemMirrorsLatest, PublishedIsApproved, PublishedReleases
<1>8. Pending' \subseteq {L} /\ (status = "approved" => Pending' = {})
    BY <1>2, <1>3 DEF Pending
<1> QED
    BY <1>1, <1>2, <1>3, <1>4, <1>5, <1>6, <1>7, <1>8 DEF OwnerOf

LEMMA UnpublishEffects ==
    ASSUME LifecycleInv, Unpublish
    PROVE  /\ item.latest \in Versions
           /\ PublishedReleases' = PublishedReleases \ {item.latest}
           /\ Pending' = Pending
           /\ \A w \in Versions : OwnerOf(w)' = OwnerOf(w)
           /\ \/ /\ Newest(PublishedReleases \ {item.latest}) = {}
                 /\ item'.latest = item.latest /\ ~item'.published
              \/ /\ item'.latest \in Newest(PublishedReleases \ {item.latest})
                 /\ item'.published /\ item'.status = "approved"
<1>1. item.latest \in Versions
    BY DEF LifecycleInv, TypeOK, ItemRow, Unpublish
<1>2. /\ \A w \in Versions : versions'[w].status = versions[w].status
      /\ \A w \in Versions : versions'[w].creator = versions[w].creator
      /\ ~versions'[item.latest].published
      /\ \A w \in Versions \ {item.latest} : versions'[w].published = versions[w].published
  <2>1. /\ versions' = [versions EXCEPT ![item.latest].published = FALSE]
        /\ versions \in [Versions -> VersionRow]
    BY DEF LifecycleInv, TypeOK, Unpublish
  <2> QED
    BY <1>1, <2>1 DEF VersionRow
<1>3. PublishedReleases' = PublishedReleases \ {item.latest} /\ Pending' = Pending
    BY <1>1, <1>2 DEF PublishedReleases, Pending
<1>4. \/ /\ Newest(PublishedReleases \ {item.latest}) = {}
         /\ item'.latest = item.latest /\ ~item'.published
      \/ /\ item'.latest \in Newest(PublishedReleases \ {item.latest})
         /\ item'.published /\ item'.status = "approved"
  <2>1. CASE /\ Newest(PublishedReleases \ {item.latest}) = {}
             /\ item' = [item EXCEPT !.published = FALSE]
    BY <2>1 DEF LifecycleInv, TypeOK, ItemRow
  <2>2. CASE \E w \in Newest(PublishedReleases \ {item.latest}) :
                item' = ItemFromSnapshot(versions, w)
    BY <2>2 DEF ItemFromSnapshot
  <2> QED
    BY <2>1, <2>2 DEF Unpublish
<1> QED
    BY <1>1, <1>2, <1>3, <1>4 DEF OwnerOf

LEMMA RestartEffects ==
    ASSUME LifecycleInv, Restart
    PROVE  /\ PublishedReleases' = PublishedReleases
           /\ Pending' = Pending
           /\ \A w \in Versions : OwnerOf(w)' = OwnerOf(w)
           /\ item' = item
<1>1. item.latest \in Versions
    BY DEF LifecycleInv, TypeOK, ItemRow, Restart
<1>2. \A w \in Versions : /\ versions'[w].status = versions[w].status
                          /\ versions'[w].published = versions[w].published
                          /\ versions'[w].creator = versions[w].creator
    BY <1>1 DEF LifecycleInv, TypeOK, VersionRow, Restart
<1> QED
    BY <1>2 DEF Restart, PublishedReleases, Pending, OwnerOf

-----------------------------------------------------------------------------
(* The invariant *)

LEMMA ShelfInit == Init => ShelfInv
<1> SUFFICES ASSUME Init PROVE ShelfInv
    OBVIOUS
<1>1. PICK legacy \in {{}, LegacyReleases} : InitWith(legacy)
    BY DEF Init
<1>2. legacy \subseteq LegacyReleases /\ legacy \subseteq Versions
    BY VersionsAssumption
<1>3. \A v \in Versions : versions[v] = IF v \in legacy THEN LegacyRow(v) ELSE NoRelease
    BY <1>1 DEF InitWith
<1>a. \A v \in Versions : /\ LegacyRow(v).status = "approved" /\ LegacyRow(v).published
                          /\ LegacyRow(v).creator = NoCreator
    BY DEF LegacyRow
<1>4. PublishedReleases = legacy /\ Pending = {}
    BY <1>2, <1>3, <1>a DEF NoRelease, PublishedReleases, Pending
<1>5. \A v, w \in legacy : v = w \/ Newer(v, w) \/ Newer(w, v)
    BY <1>2, VersionsAssumption DEF Newer
<1>6. \A v \in legacy : versions[v].creator = NoCreator
    BY <1>2, <1>3, <1>a
<1>7. \/ legacy = {} /\ ~item.published
      \/ item.latest \in Newest(legacy) /\ item.status = "approved" /\ item.published
    BY <1>1 DEF InitWith, NoItem, ItemFromSnapshot
<1>8. \A v \in Newest(legacy) : v \in legacy /\ \A w \in legacy : v = w \/ Newer(v, w)
    BY <1>5 DEF Newest, Newer
<1> QED
    BY InitInv, <1>4, <1>5, <1>6, <1>7, <1>8
    DEF ShelfInv, ShelfShowsNewest, ShownIsLive, PublishedOrdered, PendingIsNewer,
        OwnersInherit

LEMMA PublishShelf ==
    ASSUME Discipline, ShelfInv, LifecycleInv',
           NEW v \in Versions, NEW p \in Platforms, NEW c \in Publishers,
           NEW a \in ArtifactChoices, Publish(v, p, c, a)
    PROVE  ShelfInv'
<1>1. /\ PublishedReleases' = PublishedReleases
      /\ v \notin PublishedReleases
      /\ Pending' = {v}
      /\ OwnerOf(v)' = c
      /\ \A w \in Versions \ {v} : OwnerOf(w)' = OwnerOf(w)
      /\ ~DifferentCreators(item.creator, c)
      /\ item.published => item' = item /\ Newer(v, item.latest)
      /\ ~item.published => ~item'.published
    BY PublishEffects DEF ShelfInv
<1>2. PublishedReleases \subseteq Versions
    BY DEF PublishedReleases
<1>3. CASE item.published
  <2>1. item.latest \in PublishedReleases /\ item.latest # NoVersion
    BY <1>2, <1>3, VersionsAssumption DEF ShelfInv, ShownIsLive
  <2>2. item.creator = OwnerOf(item.latest)
    BY <2>1 DEF ShelfInv, LifecycleInv, ItemMirrorsLatest, OwnerOf
  <2>3. \A w \in PublishedReleases :
            OwnerOf(w) # NoCreator => OwnerOf(item.latest) = OwnerOf(w)
    BY <1>3, <2>1 DEF ShelfInv, ShelfShowsNewest, OwnersInherit, OwnerOf
  <2>4. \A w \in PublishedReleases : OwnerOf(w) # NoCreator => c = OwnerOf(w)
    BY <1>1, <2>2, <2>3 DEF Discipline, DifferentCreators
  <2>5. OwnersInherit'
    <3> SUFFICES ASSUME NEW x \in {v} \cup PublishedReleases, NEW w \in PublishedReleases,
                        Newer(x, w), OwnerOf(w)' # NoCreator
                 PROVE  OwnerOf(x)' = OwnerOf(w)'
      BY <1>1 DEF OwnersInherit, OwnerOf, Newer
    <3>1. OwnerOf(w)' = OwnerOf(w)
      BY <1>1, <1>2
    <3>2. CASE x = v
      BY <1>1, <2>4, <3>1, <3>2
    <3>3. CASE x \in PublishedReleases
      BY <1>1, <1>2, <3>1, <3>3 DEF ShelfInv, OwnersInherit, OwnerOf
    <3> QED
      BY <3>2, <3>3
  <2> QED
    BY <1>1, <1>3, <2>5
    DEF ShelfInv, ShelfShowsNewest, ShownIsLive, PublishedOrdered, PendingIsNewer, Newer
<1>4. CASE ~item.published
  <2>1. PublishedReleases' = {} /\ ~item'.published
    BY <1>1, <1>4 DEF ShelfInv, ShelfShowsNewest
  <2> QED
    BY <2>1
    DEF ShelfInv, ShelfShowsNewest, ShownIsLive, PublishedOrdered, PendingIsNewer,
        OwnersInherit
<1> QED
    BY <1>3, <1>4 DEF ShelfInv, LifecycleInv, TypeOK, ItemRow

LEMMA ApproveShelf ==
    ASSUME ShelfInv, LifecycleInv', NEW v \in Versions, ReviewCandidate(v, "approved")
    PROVE  ShelfInv'
<1>1. /\ v \in Pending /\ v \notin PublishedReleases
      /\ PublishedReleases' = PublishedReleases \cup {v}
      /\ Pending' = {}
      /\ \A w \in Versions : OwnerOf(w)' = OwnerOf(w)
      /\ item'.latest = v /\ item'.published /\ item'.status = "approved"
    BY ApproveEffects DEF ShelfInv
<1>2. PublishedReleases \subseteq Versions
    BY DEF PublishedReleases
<1>3. \A w \in PublishedReleases : Newer(v, w)
  <2> SUFFICES ASSUME NEW w \in PublishedReleases PROVE Newer(v, w)
    OBVIOUS
  <2>1. item.published /\ item.latest \in PublishedReleases
    BY DEF ShelfInv, ShelfShowsNewest, ShownIsLive
  <2>2. Newer(v, item.latest)
    BY <1>1, <2>1 DEF ShelfInv, PendingIsNewer
  <2>3. w = item.latest \/ Newer(item.latest, w)
    BY <2>1 DEF ShelfInv, ShelfShowsNewest
  <2> QED
    BY <1>2, <2>1, <2>2, <2>3, NewerTransitive
<1>4. \A w \in PublishedReleases : ~Newer(w, v)
    BY <1>2, <1>3, NewerAsymmetric
<1>5. ShelfShowsNewest' /\ ShownIsLive' /\ PublishedOrdered' /\ PendingIsNewer'
    BY <1>1, <1>3
    DEF ShelfInv, ShelfShowsNewest, ShownIsLive, PublishedOrdered, PendingIsNewer, Newer
<1>6. OwnersInherit'
  <2> SUFFICES ASSUME NEW x \in PublishedReleases \cup {v}, NEW w \in PublishedReleases \cup {v},
                      Newer(x, w), OwnerOf(w)' # NoCreator
               PROVE  OwnerOf(x)' = OwnerOf(w)'
    BY <1>1 DEF OwnersInherit, OwnerOf, Newer
  <2>1. OwnerOf(w)' = OwnerOf(w) /\ OwnerOf(x)' = OwnerOf(x)
    BY <1>1, <1>2
  <2>2. CASE w \in PublishedReleases
    BY <1>1, <2>1, <2>2 DEF ShelfInv, OwnersInherit, OwnerOf
  <2>3. CASE w = v
    BY <1>2, <1>4, <2>3, NewerAsymmetric
  <2> QED
    BY <2>2, <2>3
<1> QED
    BY <1>5, <1>6 DEF ShelfInv

LEMMA RejectShelf ==
    ASSUME ShelfInv, LifecycleInv', NEW v \in Versions, NEW status \in Decisions,
           status # "approved", ReviewCandidate(v, status)
    PROVE  ShelfInv'
<1>1. /\ PublishedReleases' = PublishedReleases
      /\ Pending' \subseteq Pending
      /\ \A w \in Versions : OwnerOf(w)' = OwnerOf(w)
      /\ item'.latest = item.latest /\ item'.published = item.published
      /\ item.published => item' = item
    BY RejectEffects DEF ShelfInv
<1>2. PublishedReleases \subseteq Versions /\ Pending \subseteq Versions
    BY DEF PublishedReleases, Pending
<1>3. ShelfShowsNewest' /\ ShownIsLive' /\ PublishedOrdered' /\ PendingIsNewer'
    BY <1>1
    DEF ShelfInv, ShelfShowsNewest, ShownIsLive, PublishedOrdered, PendingIsNewer, Newer
<1>4. OwnersInherit'
    BY <1>1, <1>2 DEF ShelfInv, OwnersInherit, OwnerOf, Newer
<1> QED
    BY <1>3, <1>4 DEF ShelfInv

LEMMA CurrentShelf ==
    ASSUME Discipline, ShelfInv, LifecycleInv', NEW status \in Decisions, ReviewCurrent(status)
    PROVE  ShelfInv'
<1>1. /\ item.latest \in Versions
      /\ Pending = {}
      /\ item'.latest = item.latest
      /\ item'.published = (status = "approved") /\ item'.status = status
      /\ item.published => status = "approved" /\ PublishedReleases' = PublishedReleases
      /\ Pending' \subseteq {item.latest}
      /\ status = "approved" => Pending' = {}
      /\ PublishedReleases' = IF status = "approved"
                              THEN PublishedReleases \cup {item.latest}
                              ELSE PublishedReleases \ {item.latest}
      /\ \A w \in Versions : OwnerOf(w)' = OwnerOf(w)
    BY CurrentEffects DEF ShelfInv
<1>2. PublishedReleases \subseteq Versions
    BY DEF PublishedReleases
<1>3. CASE item.published
  <2>1. ShelfShowsNewest' /\ ShownIsLive' /\ PublishedOrdered' /\ PendingIsNewer'
    BY <1>1, <1>3
    DEF ShelfInv, ShelfShowsNewest, ShownIsLive, PublishedOrdered, PendingIsNewer, Newer
  <2>2. OwnersInherit'
    BY <1>1, <1>2, <1>3 DEF ShelfInv, OwnersInherit, OwnerOf, Newer
  <2> QED
    BY <2>1, <2>2 DEF ShelfInv
<1>4. CASE ~item.published
  <2>1. PublishedReleases = {}
    BY <1>4 DEF ShelfInv, ShelfShowsNewest
  <2>2. CASE status = "approved"
    <3>1. PublishedReleases' = {item.latest} /\ Pending' = {}
      BY <1>1, <2>1, <2>2
    <3> QED
      BY <1>1, <2>2, <3>1
      DEF ShelfInv, ShelfShowsNewest, ShownIsLive, PublishedOrdered, PendingIsNewer,
          OwnersInherit
  <2>3. CASE status # "approved"
    <3>1. PublishedReleases' = {} /\ ~item'.published
      BY <1>1, <2>1, <2>3
    <3> QED
      BY <3>1
      DEF ShelfInv, ShelfShowsNewest, ShownIsLive, PublishedOrdered, PendingIsNewer,
          OwnersInherit
  <2> QED
    BY <2>2, <2>3
<1> QED
    BY <1>3, <1>4

LEMMA UnpublishShelf ==
    ASSUME ShelfInv, LifecycleInv', Unpublish
    PROVE  ShelfInv'
<1> DEFINE L == item.latest
           Others == PublishedReleases \ {L}
<1>1. /\ L \in Versions
      /\ PublishedReleases' = Others
      /\ Pending' = Pending
      /\ \A w \in Versions : OwnerOf(w)' = OwnerOf(w)
      /\ \/ /\ Newest(Others) = {}
            /\ item'.latest = L /\ ~item'.published
         \/ /\ item'.latest \in Newest(Others)
            /\ item'.published /\ item'.status = "approved"
    BY UnpublishEffects DEF ShelfInv
<1>2. Others \subseteq Versions /\ Pending \subseteq Versions
    BY DEF PublishedReleases, Pending
<1>3. \A w \in Others : item.published /\ Newer(L, w)
    BY DEF ShelfInv, ShelfShowsNewest
<1>4. PublishedOrdered'
    BY <1>1 DEF ShelfInv, PublishedOrdered, Newer
<1>5. OwnersInherit'
  <2> SUFFICES ASSUME NEW x \in Pending \cup Others, NEW w \in Others,
                      Newer(x, w), OwnerOf(w)' # NoCreator
               PROVE  OwnerOf(x)' = OwnerOf(w)'
    BY <1>1 DEF OwnersInherit, OwnerOf, Newer
  <2>1. OwnerOf(w)' = OwnerOf(w) /\ OwnerOf(x)' = OwnerOf(x)
    BY <1>1, <1>2
  <2> QED
    BY <2>1 DEF ShelfInv, OwnersInherit, OwnerOf
<1>6. CASE Newest(Others) = {} /\ ~item'.published
  <2>1. Others = {}
    BY <1>1, <1>2, <1>3, <1>6, NewestExists
  <2> QED
    BY <1>1, <1>4, <1>5, <1>6, <2>1 DEF ShelfInv, ShelfShowsNewest, ShownIsLive, PendingIsNewer
<1>7. CASE /\ item'.latest \in Newest(Others)
           /\ item'.published /\ item'.status = "approved"
  <2> DEFINE W == item'.latest
  <2>1. W \in Others /\ \A x \in Others : x = W \/ Newer(W, x)
    BY <1>7 DEF Newest, ShelfInv, PublishedOrdered, Newer
  <2>2. \A v \in Pending : Newer(v, W)
    BY <1>1, <1>2, <1>3, <2>1, NewerTransitive DEF ShelfInv, PendingIsNewer
  <2>3. ShelfShowsNewest' /\ ShownIsLive' /\ PendingIsNewer'
    BY <1>1, <1>7, <2>1, <2>2 DEF ShelfShowsNewest, ShownIsLive, PendingIsNewer, Newer
  <2> QED
    BY <1>4, <1>5, <2>3 DEF ShelfInv
<1> QED
    BY <1>1, <1>6, <1>7

LEMMA RestartShelf ==
    ASSUME ShelfInv, LifecycleInv', Restart
    PROVE  ShelfInv'
<1>1. /\ PublishedReleases' = PublishedReleases
      /\ Pending' = Pending
      /\ \A w \in Versions : OwnerOf(w)' = OwnerOf(w)
      /\ item' = item
    BY RestartEffects DEF ShelfInv
<1>2. PublishedReleases \subseteq Versions /\ Pending \subseteq Versions
    BY DEF PublishedReleases, Pending
<1>3. ShelfShowsNewest' /\ ShownIsLive' /\ PublishedOrdered' /\ PendingIsNewer'
    BY <1>1
    DEF ShelfInv, ShelfShowsNewest, ShownIsLive, PublishedOrdered, PendingIsNewer, Newer
<1>4. OwnersInherit'
    BY <1>1, <1>2 DEF ShelfInv, OwnersInherit, OwnerOf, Newer
<1> QED
    BY <1>3, <1>4 DEF ShelfInv

LEMMA ShelfNext == ASSUME Discipline, ShelfInv, [Next]_vars PROVE ShelfInv'
<1>0. LifecycleInv'
  BY NextInv DEF ShelfInv
<1>1. CASE Submit
  BY <1>0, <1>1, PublishShelf DEF Submit
<1>2. CASE \E status \in Decisions : UpdateReview(status)
  <2>1. PICK status \in Decisions : UpdateReview(status)
    BY <1>2
  <2>2. CASE ReviewCurrent(status)
    BY <1>0, <2>2, CurrentShelf
  <2>3. ASSUME NEW v \in Versions, ReviewCandidate(v, status) PROVE ShelfInv'
    BY <1>0, <2>3, ApproveShelf, RejectShelf
  <2> QED
    BY <2>1, <2>2, <2>3 DEF UpdateReview
<1>3. CASE Unpublish
  BY <1>0, <1>3, UnpublishShelf
<1>4. CASE Restart
  BY <1>0, <1>4, RestartShelf
<1>5. CASE UNCHANGED vars
  BY <1>0, <1>5
  DEF vars, ShelfInv, ShelfShowsNewest, ShownIsLive, PublishedOrdered, PendingIsNewer,
      OwnersInherit, PublishedReleases, Pending, Newer
<1> QED
  BY <1>1, <1>2, <1>3, <1>4, <1>5 DEF Next

-----------------------------------------------------------------------------
(* The theorems *)

THEOREM ShelfInvariant == ASSUME Discipline PROVE Spec => []ShelfInv
<1>1. ShelfInv /\ [Next]_vars => ShelfInv'
  BY ShelfNext
<1> QED
  BY <1>1, ShelfInit, PTL DEF Spec

(* The shelf shows the newest public release, and an empty shelf has none. *)
THEOREM ShelfTheorem == ASSUME Discipline PROVE Spec => []ShelfShowsNewest
<1>1. ShelfInv => ShelfShowsNewest
  BY DEF ShelfInv
<1> QED
  BY <1>1, ShelfInvariant, PTL

(* No two releases that are public or pending name different creators. *)
THEOREM OwnerTheorem == ASSUME Discipline PROVE Spec => []OneOwner
<1>1. ASSUME ShelfInv PROVE OneOwner
  <2> SUFFICES ASSUME NEW v \in Pending \cup PublishedReleases,
                      NEW w \in Pending \cup PublishedReleases,
                      OwnerOf(v) # NoCreator, OwnerOf(w) # NoCreator
               PROVE  OwnerOf(v) = OwnerOf(w)
    BY DEF OneOwner, DifferentCreators, OwnerOf
  <2>1. \A x \in Pending, y \in PublishedReleases : Newer(x, y)
    <3> SUFFICES ASSUME NEW x \in Pending, NEW y \in PublishedReleases PROVE Newer(x, y)
      OBVIOUS
    <3>1. /\ item.latest \in PublishedReleases
          /\ Newer(x, item.latest)
          /\ y = item.latest \/ Newer(item.latest, y)
      BY <1>1 DEF ShelfInv, ShelfShowsNewest, ShownIsLive, PendingIsNewer
    <3>2. x \in Versions /\ y \in Versions /\ item.latest \in Versions
      BY <3>1 DEF Pending, PublishedReleases
    <3> QED
      BY <3>1, <3>2, NewerTransitive
  <2>2. \A x \in Pending \cup PublishedReleases, y \in PublishedReleases :
            Newer(x, y) /\ OwnerOf(y) # NoCreator => OwnerOf(x) = OwnerOf(y)
    BY <1>1 DEF ShelfInv, OwnersInherit, OwnerOf
  <2>3. CASE v \in Pending /\ w \in Pending
    BY <1>1, <2>3 DEF ShelfInv, LifecycleInv, AtMostOnePending
  <2>4. CASE v \in Pending /\ w \in PublishedReleases
    BY <2>1, <2>2, <2>4
  <2>5. CASE v \in PublishedReleases /\ w \in Pending
    BY <2>1, <2>2, <2>5
  <2>6. CASE v \in PublishedReleases /\ w \in PublishedReleases
    BY <1>1, <2>2, <2>6 DEF ShelfInv, PublishedOrdered
  <2> QED
    BY <2>3, <2>4, <2>5, <2>6
<1> QED
  BY <1>1, ShelfInvariant, PTL

-----------------------------------------------------------------------------
(* The refinement *)

Shown == IF OnShelf THEN item.latest ELSE NoVersion

(* Under the invariant a component is on the shelf as soon as it is published. *)
LEMMA ShownBy ==
    ASSUME ShelfInv
    PROVE  /\ Shown = IF item.published THEN item.latest ELSE NoVersion
           /\ item.published <=> Shown # NoVersion
<1>1. item.published => item.latest # NoVersion
  BY VersionsAssumption DEF ShelfInv, ShownIsLive, PublishedReleases
<1> QED
  BY <1>1 DEF ShelfInv, ShownIsLive, Shown, OnShelf

LEMMA SameShelf ==
    ASSUME Shown' = Shown, PublishedReleases' = PublishedReleases
    PROVE  [Shelf!Next]_<<Shown, PublishedReleases>>
OBVIOUS

LEMMA GoesLive ==
    ASSUME ShelfInv, NEW v \in Versions, v \notin PublishedReleases,
           item.published => Newer(v, item.latest),
           Shown' = v, PublishedReleases' = PublishedReleases \cup {v}
    PROVE  [Shelf!Next]_<<Shown, PublishedReleases>>
<1>1. Shown # NoVersion => Newer(v, Shown)
  BY ShownBy
<1>2. Shelf!GoLive(v)
  BY <1>1 DEF Shelf!GoLive, Shelf!Newer, Newer, Shown
<1> QED
  BY <1>2 DEF Shelf!Next

LEMMA StepRefines ==
    ASSUME Discipline, ShelfInv, ShelfInv', [Next]_vars
    PROVE  [Shelf!Next]_<<Shown, PublishedReleases>>
<1> USE DEF ShelfInv
<1>0. /\ Shown = IF item.published THEN item.latest ELSE NoVersion
      /\ item.published <=> Shown # NoVersion
  BY ShownBy
<1>0a. Shown' = IF item'.published THEN item'.latest ELSE NoVersion
  BY DEF ShownIsLive, Shown, OnShelf
<1>1. CASE Submit
  <2>1. PICK v \in Versions, p \in Platforms, c \in Publishers, a \in ArtifactChoices :
            Publish(v, p, c, a)
    BY <1>1 DEF Submit
  <2> QED
    BY <1>0, <1>0a, <2>1, PublishEffects, SameShelf
<1>2. CASE \E status \in Decisions : UpdateReview(status)
  <2>1. PICK status \in Decisions : UpdateReview(status)
    BY <1>2
  <2>2. CASE ReviewCurrent(status)
    <3>1. CASE item.published \/ status # "approved"
      <4>1. PublishedReleases' = PublishedReleases /\ Shown' = Shown
        BY <1>0, <1>0a, <2>2, <3>1, CurrentEffects DEF ShelfShowsNewest
      <4> QED
        BY <4>1, SameShelf
    <3>2. CASE ~item.published /\ status = "approved"
      <4>1. /\ item.latest \in Versions
            /\ PublishedReleases' = PublishedReleases \cup {item.latest}
            /\ Shown' = item.latest
        BY <1>0a, <2>2, <3>2, CurrentEffects
      <4> QED
        BY <3>2, <4>1, GoesLive DEF ShelfShowsNewest
    <3> QED
      BY <3>1, <3>2, <2>2 DEF LifecycleInv, TypeOK, ItemRow
  <2>3. ASSUME NEW v \in Versions, ReviewCandidate(v, status)
        PROVE  [Shelf!Next]_<<Shown, PublishedReleases>>
    <3>1. CASE status = "approved"
      <4>1. /\ v \in Pending /\ v \notin PublishedReleases
            /\ PublishedReleases' = PublishedReleases \cup {v}
            /\ Shown' = v
        BY <1>0a, <2>3, <3>1, ApproveEffects
      <4> QED
        BY <4>1, GoesLive DEF PendingIsNewer
    <3>2. CASE status # "approved"
      BY <1>0, <1>0a, <2>3, <3>2, RejectEffects, SameShelf
    <3> QED
      BY <3>1, <3>2
  <2> QED
    BY <2>1, <2>2, <2>3 DEF UpdateReview
<1>3. CASE Unpublish
  <2>1. CASE ~item.published
    <3>1. PublishedReleases' = PublishedReleases /\ Shown' = Shown
      BY <1>0, <1>0a, <1>3, <2>1, UnpublishEffects DEF ShelfShowsNewest, Newest
    <3> QED
      BY <3>1, SameShelf
  <2>2. CASE item.published
    <3>1. PublishedReleases' = PublishedReleases \ {Shown} /\ Shown # NoVersion
      BY <1>0, <1>3, <2>2, UnpublishEffects
    <3>2. \/ Newest(PublishedReleases') = {} /\ Shown' = NoVersion
          \/ Shown' \in Newest(PublishedReleases')
      BY <1>0, <1>0a, <1>3, <2>2, UnpublishEffects
    <3>3. Shelf!Successors(PublishedReleases') = Newest(PublishedReleases')
      BY DEF Shelf!Successors, Newest, Shelf!Newer, Newer
    <3>4. Shelf!Withdraw
      BY <3>1, <3>2, <3>3 DEF Shelf!Withdraw, Shown
    <3> QED
      BY <3>4 DEF Shelf!Next
  <2> QED
    BY <2>1, <2>2
<1>4. CASE Restart
  BY <1>0, <1>0a, <1>4, RestartEffects, SameShelf
<1>5. CASE UNCHANGED vars
  BY <1>5, SameShelf DEF vars, Shown, OnShelf, PublishedReleases
<1> QED
  BY <1>1, <1>2, <1>3, <1>4, <1>5 DEF Next

(* What the public sees of the lifecycle are the storefront's steps. *)
THEOREM StorefrontTheorem == ASSUME Discipline PROVE Spec => ImplementsStorefront
<1>1. Init => Shelf!Init
  <2> SUFFICES ASSUME Init PROVE Shelf!Init
    OBVIOUS
  <2>1. ShelfInv
    BY ShelfInit
  <2>2. /\ Shown = IF item.published THEN item.latest ELSE NoVersion
        /\ item.published <=> Shown # NoVersion
    BY <2>1, ShownBy
  <2>3. PublishedReleases \subseteq Versions /\ Shown \in Versions \cup {NoVersion}
    BY <2>1, <2>2 DEF ShelfInv, ShownIsLive, PublishedReleases
  <2>4. Shelf!ShowsNewest
    BY <2>1, <2>2
    DEF Shelf!ShowsNewest, Shelf!Newer, Newer, Shown, ShelfInv, ShelfShowsNewest, ShownIsLive
  <2> QED
    BY <2>3, <2>4 DEF Shelf!Init, Shown
<1>2. ShelfInv /\ ShelfInv' /\ [Next]_vars => [Shelf!Next]_<<Shown, PublishedReleases>>
  BY StepRefines
<1>3. [Shelf!Next]_<<Shown, PublishedReleases>> <=>
          [Shelf!Next]_<<IF OnShelf THEN item.latest ELSE NoVersion, PublishedReleases>>
  BY DEF Shown
<1> QED
  BY <1>1, <1>2, <1>3, ShelfInvariant, PTL DEF Spec, ImplementsStorefront, Shelf!Spec
=============================================================================
