------------------------------ MODULE Release ------------------------------
(***************************************************************************)
(* The release lifecycle of one market component, as the store commits it. *)
(*                                                                         *)
(* Every statement of Publish, UpdateReview and Unpublish is keyed by      *)
(* (type, id), so components do not interact and one is modelled.  Each of *)
(* the three runs in one SQLite transaction whose snapshot must still be   *)
(* current when it first writes: it takes effect atomically or not at all, *)
(* hence one action each.  A refused request writes nothing: no step.      *)
(***************************************************************************)
EXTENDS Integers, FiniteSets

CONSTANTS
    Versions,        \* canonical version strings (canonicalVersion applied)
    Malformed,       \* those that are not semantic versions
    Rank,            \* semantic precedence of the others
    Platforms,       \* platform keys of a release
    Universal,       \* the platform key "universal"
    Publishers,      \* who submits releases: creator ids, and NoCreator
    NoCreator,       \* the empty creator id: a publish with the operational admin token
    NoVersion,       \* latest_version of a component without an item row
    LegacyReleases,  \* releases published before snapshots existed
    LiveReviews,     \* statuses admins post for a live component with nothing pending
    ArtifactChoices, \* whether a submission carries an artifact: {TRUE} or BOOLEAN
    MaxSubmissions   \* bound: submissions accepted in a behaviour

Creators == Publishers \cup {NoCreator}

\* Decisions the review endpoint accepts (normalizeReviewStatus).
Decisions == {"pending", "approved", "rejected"}

\* Status of a row; "none" when there is no row.
RowStatus == Decisions \cup {"none"}

ASSUME VersionsAssumption ==
    /\ Malformed \subseteq Versions
    /\ NoVersion \notin Versions
    /\ Rank \in [Versions -> Nat]
    /\ LegacyReleases \subseteq Versions \ Malformed
    /\ \A v, w \in LegacyReleases : Rank[v] = Rank[w] => v = w
ASSUME InputsAssumption ==
    /\ Universal \in Platforms
    /\ LiveReviews \subseteq Decisions
    /\ ArtifactChoices \subseteq BOOLEAN
    /\ MaxSubmissions \in Nat \ {0}

VARIABLES
    item,        \* the row of items: what the catalog shows
    versions,    \* rows of versions: the component's releases
    platforms,   \* rows of version_platforms, per release and platform key
    artifacts,   \* rows of artifacts: the submission whose file is stored, 0 if none
    lastEvent,   \* to_status of a release's newest review_events row
    submissions  \* submissions accepted so far; numbers the contents stored

vars == <<item, versions, platforms, artifacts, lastEvent, submissions>>

(* Contents (metadata, snapshot, platform specification, file) are named by
   the number of the submission they came with, 1 for legacy ones; 0 is "none
   stored", Backfilled a specification nobody submitted: a start-up copied it
   from the versions row. *)
Content == 0 .. MaxSubmissions
Backfilled == -1

ItemRow == [latest: Versions \cup {NoVersion}, status: RowStatus,
            published: BOOLEAN, creator: Creators, content: Content]
VersionRow == [status: RowStatus, published: BOOLEAN,
               creator: Creators, content: Content]
PlatformRow == [published: BOOLEAN, content: Content \cup {Backfilled}]

NoItem == [latest |-> NoVersion, status |-> "none", published |-> FALSE,
           creator |-> NoCreator, content |-> 0]
NoRelease == [status |-> "none", published |-> FALSE,
              creator |-> NoCreator, content |-> 0]
NoPlatform == [published |-> FALSE, content |-> 0]

-----------------------------------------------------------------------------
(* Semantic precedence *)

\* Mutant: a malformed version sorts before the others.
NewerMalformed(v, w) == Rank[v] > Rank[w]
\* compareSemanticVersions(v, w) > 0: malformed versions never compare.
Newer(v, w) == v \notin Malformed /\ w \notin Malformed /\ Rank[v] > Rank[w]

\* The greatest releases of S that compare; several when precedence ties.
Newest(S) == {v \in S \ Malformed : \A w \in S \ Malformed : ~Newer(w, v)}

-----------------------------------------------------------------------------
(* Queries *)

\* SELECT ... WHERE review_status = 'pending' ORDER BY submitted_at DESC LIMIT 1
Pending == {v \in Versions : versions[v].status = "pending"}
NewestPending ==
    {v \in Pending : \A w \in Pending : versions[w].content <= versions[v].content}

\* Mutant: the snapshot is not looked at.
RestorableAlways(v) == TRUE
\* The release's row holds the snapshot of a submission.
Restorable(v) == versions[v].content # 0

\* The release a review decides: the newest pending one that has a snapshot.
Candidate ==
    LET restorable == {v \in Pending : Restorable(v)}
    IN  {v \in restorable :
            \A w \in restorable : versions[w].content <= versions[v].content}

\* Releases findLatestPublishedVersion chooses among.
PublishedReleases ==
    {v \in Versions : versions[v].published /\ versions[v].status = "approved"}

DifferentCreators(c, d) == c # NoCreator /\ d # NoCreator /\ c # d

(* Publish's checks, in the code's order; any that fails refuses the request. *)

\* Mutant: the owner is not asked for.
OwnerAllowsAnyone(c) == TRUE
OwnerAllows(c) == ~DifferentCreators(item.creator, c)

\* Mutant: only the submitted version's own pending row is looked at.
PendingAllowsOthers(v, p, c) ==
    v \in NewestPending => /\ ~DifferentCreators(versions[v].creator, c)
                          /\ platforms[v][p].content = 0
\* While a release waits for review, only its creator may submit, and only a
\* further platform of that release.
PendingAllows(v, p, c) ==
    \A w \in NewestPending :
        /\ w = v
        /\ ~DifferentCreators(versions[w].creator, c)
        /\ platforms[v][p].content = 0

\* Mutants: older releases, releases that are already published.
VersionAllowsOlder(v) == ~versions[v].published
VersionAllowsAgain(v) == item.published => Newer(v, item.latest)
VersionAllows(v) ==
    /\ item.published => Newer(v, item.latest)
    /\ ~versions[v].published

\* Mutants: the transaction leaves the release, or the version, to ValidateRelease.
PublishAllowedStalePending(v, p, c) == OwnerAllows(c) /\ VersionAllows(v)
PublishAllowedStaleVersion(v, p, c) == OwnerAllows(c) /\ PendingAllows(v, p, c)
PublishAllowed(v, p, c) == OwnerAllows(c) /\ PendingAllows(v, p, c) /\ VersionAllows(v)

-----------------------------------------------------------------------------
(* Effects shared by the operations *)

\* Mutants: a wrong status is written; the row's owner is forgotten.
ItemFromSnapshotStatus(rows, v) ==
    [latest |-> v, status |-> "published", published |-> TRUE,
     creator |-> rows[v].creator, content |-> rows[v].content]
ItemFromSnapshotOwner(rows, v) ==
    [latest |-> v, status |-> "approved", published |-> TRUE,
     creator |-> NoCreator, content |-> rows[v].content]
\* applyVersionSnapshotTx: the item row becomes release v of the table rows.
ItemFromSnapshot(rows, v) ==
    [latest |-> v, status |-> "approved", published |-> TRUE,
     creator |-> rows[v].creator, content |-> rows[v].content]

\* UPDATE version_platforms SET published = flag: every row of the release.
PlatformsMarked(v, flag) ==
    [platforms EXCEPT ![v] =
        [p \in Platforms |->
            [published |-> flag /\ platforms[v][p].content # 0,
             content   |-> platforms[v][p].content]]]

\* Mutants: the flag is set and never cleared; only an approval is written.
VersionsDecidedFlagKept(v, status) ==
    [versions EXCEPT ![v].status = status,
                     ![v].published = @ \/ status = "approved"]
VersionsDecidedApprovals(v, status) ==
    IF status = "approved"
    THEN [versions EXCEPT ![v].status = status, ![v].published = TRUE]
    ELSE [versions EXCEPT ![v].published = FALSE]
\* UPDATE versions SET review_status, published: a decision on one release.
VersionsDecided(v, status) ==
    [versions EXCEPT ![v].status = status,
                     ![v].published = (status = "approved")]

\* Unpublish's UPDATE versions SET published = 0.
Withdrawn(v) == [versions EXCEPT ![v].published = FALSE]

-----------------------------------------------------------------------------
(* A database the server is up on: new, or holding approved releases from
   before snapshots, of which only the current one could be given one
   (backfillCurrentVersionSnapshots). *)
LegacyRow(v) == [status |-> "approved", published |-> TRUE, creator |-> NoCreator,
                 content |-> IF v \in Newest(LegacyReleases) THEN 1 ELSE 0]

InitWith(legacy) ==
    /\ versions = [v \in Versions |-> IF v \in legacy THEN LegacyRow(v) ELSE NoRelease]
    /\ \/ legacy = {} /\ item = NoItem
       \/ \E v \in Newest(legacy) : item = ItemFromSnapshot(versions, v)
    /\ platforms = [v \in Versions |-> [p \in Platforms |->
                      IF v \in legacy THEN [published |-> TRUE, content |-> 1]
                                      ELSE NoPlatform]]
    /\ artifacts = [v \in Versions |-> [p \in Platforms |-> IF v \in legacy THEN 1 ELSE 0]]
    /\ lastEvent = [v \in Versions |-> "none"]
    /\ submissions = IF legacy = {} THEN 0 ELSE 1

Init == \E legacy \in {{}, LegacyReleases} : InitWith(legacy)

(* Store.Publish, which the three publish handlers call with status pending.
   While the item is live it keeps showing the active release; otherwise the
   submission overwrites it. *)
Publish(v, p, c, withArtifact) ==
    LET n == submissions + 1 IN
    /\ submissions < MaxSubmissions
    /\ PublishAllowed(v, p, c)
    /\ submissions' = n
    /\ item' = IF item.published THEN item
               ELSE [latest |-> v, status |-> "pending", published |-> FALSE,
                     creator |-> c, content |-> n]
    /\ versions' = [versions EXCEPT ![v] =
                      [status |-> "pending", published |-> FALSE,
                       creator |-> c, content |-> n]]
    /\ platforms' = [platforms EXCEPT ![v][p] = [published |-> FALSE, content |-> n]]
    /\ artifacts' = IF withArtifact THEN [artifacts EXCEPT ![v][p] = n] ELSE artifacts
    /\ lastEvent' = [lastEvent EXCEPT ![v] = "pending"]

(* Store.UpdateReview when a release is pending: the decision is on that
   release, whatever the admin had on screen. *)
ReviewCandidate(v, status) ==
    /\ v \in Candidate
    /\ item' = IF status = "approved" THEN ItemFromSnapshot(versions, v)
               ELSE IF ~item.published /\ item.latest = v
                    THEN [item EXCEPT !.status = status]
                    ELSE item
    /\ versions' = VersionsDecided(v, status)
    /\ platforms' = PlatformsMarked(v, status = "approved")
    /\ lastEvent' = [lastEvent EXCEPT ![v] = status]
    /\ UNCHANGED <<artifacts, submissions>>

(* updateLegacyReviewTx: with nothing pending the decision is on the item and
   its current release; version_platforms is left as it is. *)
ReviewCurrent(status) ==
    /\ Candidate = {}
    /\ item.latest # NoVersion
    /\ item.published => status \in LiveReviews
    /\ item' = [item EXCEPT !.status = status, !.published = (status = "approved")]
    /\ versions' = VersionsDecided(item.latest, status)
    /\ lastEvent' = [lastEvent EXCEPT ![item.latest] = status]
    /\ UNCHANGED <<platforms, artifacts, submissions>>

\* Store.UpdateReview.
UpdateReview(status) ==
    \/ \E v \in Versions : ReviewCandidate(v, status)
    \/ ReviewCurrent(status)

(* Store.Unpublish: only the current release; the newest other published one
   takes its place, and one without a snapshot refuses the whole request. *)
Unpublish ==
    LET v == item.latest
        others == Newest(PublishedReleases \ {v})
    IN
    /\ v # NoVersion
    /\ versions' = Withdrawn(v)
    /\ platforms' = PlatformsMarked(v, FALSE)
    /\ \/ /\ others = {}
          /\ item' = [item EXCEPT !.published = FALSE]
       \/ \E w \in others :
             /\ Restorable(w)
             /\ item' = ItemFromSnapshot(versions, w)
    /\ UNCHANGED <<artifacts, lastEvent, submissions>>

\* Mutant: the backfill replaces the platform rows there are.
RestartReplaces ==
    /\ item.latest # NoVersion
    /\ platforms' = [v \in Versions |-> [p \in Platforms |->
          IF versions[v].status # "none" /\ p = Universal
          THEN [published |-> versions[v].published, content |-> Backfilled]
          ELSE platforms[v][p]]]
    /\ UNCHANGED <<item, versions, artifacts, lastEvent, submissions>>

(* OpenStore's migrate on a database already in this schema: every release
   without a universal platform row gets one, published if the release is;
   so does an artifact without its row, and the item's release a snapshot. *)
Restart ==
    /\ item.latest # NoVersion
    /\ platforms' = [v \in Versions |-> [p \in Platforms |->
          IF /\ versions[v].status # "none"
             /\ platforms[v][p].content = 0
             /\ p = Universal \/ artifacts[v][p] # 0
          THEN [published |-> versions[v].published, content |-> Backfilled]
          ELSE platforms[v][p]]]
    /\ versions' = IF versions[item.latest].content = 0
                   THEN [versions EXCEPT ![item.latest].content = item.content]
                   ELSE versions
    /\ UNCHANGED <<item, artifacts, lastEvent, submissions>>

Submit == \E v \in Versions, p \in Platforms, c \in Publishers, a \in ArtifactChoices :
             Publish(v, p, c, a)

Next ==
    \/ Submit
    \/ \E status \in Decisions : UpdateReview(status)
    \/ Unpublish
    \/ Restart

Spec == Init /\ [][Next]_vars

-----------------------------------------------------------------------------
(* Properties *)

\* Every row has the shape of its table.
TypeOK ==
    /\ item \in ItemRow
    /\ versions \in [Versions -> VersionRow]
    /\ platforms \in [Versions -> [Platforms -> PlatformRow]]
    /\ artifacts \in [Versions -> [Platforms -> Content]]
    /\ lastEvent \in [Versions -> RowStatus]
    /\ submissions \in Content

(* The item row is a copy of its latest release's row, kept by hand in five
   places (Publish, both halves of UpdateReview, applyVersionSnapshotTx and
   Unpublish): status, flag, owner and contents never drift apart. *)
ItemMirrorsLatest ==
    item.latest # NoVersion =>
        LET row == versions[item.latest] IN
        /\ row.status = item.status
        /\ row.published = item.published
        /\ row.creator = item.creator
        /\ row.content = item.content

(* At most one release of a component waits for review, whatever mixes of
   submissions, decisions and withdrawals led here: a decision names no
   version, so with two pending it could fall on the wrong one. *)
AtMostOnePending == \A v, w \in Pending : v = w

(* Nothing is published that was not approved, and nothing pending or
   rejected keeps a published flag that a later approval elsewhere would
   expose. *)
PublishedIsApproved ==
    \A v \in Versions : versions[v].published => versions[v].status = "approved"

(* The release the item shows always has a snapshot.  backfillCurrentVersion-
   Snapshots makes the server refuse to start otherwise. *)
CurrentReleaseRestorable ==
    item.latest # NoVersion => versions[item.latest].content # 0

(* The newest audit event of a release says the status the release has; an
   admin reads the history to learn what was decided. *)
AuditAgrees ==
    \A v \in Versions : lastEvent[v] # "none" => lastEvent[v] = versions[v].status

(* What anonymous readers get: the item page, and of each visible release its
   metadata, the specifications of its published platform rows, those a start-up
   made among them, and its files. *)
OnShelf == item.published /\ item.status = "approved"
ServedPlatforms(v) ==
    [p \in Platforms |-> IF platforms[v][p].published THEN platforms[v][p].content ELSE 0]
PublicView ==
    IF ~OnShelf THEN [page |-> NoItem, releases |-> << >>]
    ELSE [page |-> item,
          releases |-> [v \in PublishedReleases |->
              [content |-> versions[v].content, creator |-> versions[v].creator,
               platforms |-> ServedPlatforms(v), files |-> artifacts[v]]]]

\* A decision an admin takes about what the public may see.
Decision ==
    \/ \E v \in Versions : ReviewCandidate(v, "approved")
    \/ \E status \in Decisions : ReviewCurrent(status)
    \/ Unpublish

\* Readers get the same page and releases as before, and of platforms perhaps
\* more: specifications made by a start-up where there was no row at all.
OnlyBackfilled ==
    LET old == PublicView.releases
        new == PublicView'.releases
    IN
    /\ PublicView'.page = PublicView.page
    /\ DOMAIN new = DOMAIN old
    /\ \A v \in DOMAIN old :
          /\ new[v] = [old[v] EXCEPT !.platforms = ServedPlatforms(v)']
          /\ \A p \in Platforms :
                \/ new[v].platforms[p] = old[v].platforms[p]
                \/ platforms[v][p].content = 0 /\ new[v].platforms[p] = Backfilled

(* Readers see a change only when an admin approves a candidate, reviews the
   current release or unpublishes it: a submission or the rejection of a
   candidate shows them nothing and hides nothing.  A restart hides nothing, puts
   no release up and changes no platform that is served; it gives a published
   release the universal platform it lacks, which readers get from then on. *)
CatalogChangesOnlyByDecision ==
    [][PublicView' # PublicView => Decision \/ (Restart /\ OnlyBackfilled)]_vars

(* What a published release serves (metadata, owner, platform specifications,
   files) is fixed, and only the current release can be withdrawn: no
   submission, decision or restart ever demotes or alters another one. *)
StaysServed(v) ==
    /\ versions'[v].published \/ v = item.latest
    /\ versions'[v].content = versions[v].content
    /\ versions'[v].creator = versions[v].creator
    /\ artifacts'[v] = artifacts[v]
    /\ \A p \in Platforms : platforms[v][p].content # 0 =>
          platforms'[v][p].content = platforms[v][p].content
PublishedReleaseImmutable ==
    [][\A v \in Versions : versions[v].published => StaysServed(v)]_vars

-----------------------------------------------------------------------------
(* Properties of a market whose admins never reject or suspend a live
   component that has nothing pending (LiveReviews = {"approved"}). *)

(* The item shows the newest release the public can get: no other published
   release has a greater version; and a component that is off the shelf has no
   release left in published state, so nothing resurfaces without a new
   approval. *)
ShelfShowsNewest ==
    IF item.published
    THEN \A v \in PublishedReleases : v = item.latest \/ Newer(item.latest, v)
    ELSE PublishedReleases = {}

(* One creator per component: "component belongs to another creator" refuses
   everybody else, so of the releases that are public or wait for review all
   that name a creator name the same one.  Holds while every submission carries
   a creator id; a submission with the admin token blanks the owner, and the
   next creator takes the component over.  Rejected and withdrawn releases of
   former owners may remain: a component whose current release is from before
   creators were recorded belongs to nobody. *)
OneOwner ==
    \A v, w \in Pending \cup PublishedReleases :
        ~DifferentCreators(versions[v].creator, versions[w].creator)

(* The lifecycle implements the storefront: whatever submissions, decisions,
   withdrawals and restarts happen, the public sees releases go live one by
   one, each newer, and fall back to the newest left. *)
Shelf == INSTANCE Storefront WITH
            shown <- IF OnShelf THEN item.latest ELSE NoVersion,
            live <- PublishedReleases
ImplementsStorefront == Shelf!Spec

-----------------------------------------------------------------------------
(* A statement of the repository that the code does not keep *)

(* GetPublishADPYAML (store.go:2067): "multiple platform uploads can be merged
   before the release is approved".  The creator of a pending release can
   still add every platform nobody submitted for it. *)
PlatformsMergeable ==
    \A v \in Pending, p \in Platforms :
        platforms[v][p].content \in {0, Backfilled} =>
            PublishAllowed(v, p, versions[v].creator)
=============================================================================
