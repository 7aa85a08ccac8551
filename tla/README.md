# A formal model of the ZenMind market server

TLA+ specifications of the Go program in `src/` (`internal/market`,
`cmd/market-server`), TLC configurations that check them on small instances,
and TLAPS proofs of what matters most for every value of the constants.

The server is one process over one SQLite database (WAL, up to eight
connections) and an artifact store (a directory or S3). There is no queue and
no background worker: every state change is made by an HTTP handler or at
start-up. What makes it hard is that handlers overlap, that most of them read
and write in several statements, that the same facts are stored in several
rows (the catalog's item row is a hand-kept copy of a release's row), and that
decisions are taken on what somebody saw earlier.

## 1. Inventory

| Component | State | Operations | Where |
| --- | --- | --- | --- |
| Release lifecycle | tables `items`, `versions`, `version_platforms`, `artifacts`, `review_events` | `Publish`, `UpdateReview` (candidate and legacy path), `Unpublish` | store.go 958-1554 |
| Review desk | what an admin has on screen | `GetAdminReviewDetail`, then `UpdateReview` | server.go 312-364, store.go 1780-1874 |
| Comments | table `item_comments` | create, edit, delete, moderate, two listings | store.go 2692-2855 |
| OIDC client | `App.oidc`, `App.oidcMu` | `Open`, `ensureOIDCClient`, `currentOIDCClient` | server.go 32-78, oidc.go 40-67 |
| Identity | tables `users`, `user_identities`, `user_roles`; signed session cookies | callback, `UpsertOIDCUser`, `rekeyMarketUser`, logout, `oidcUserFromRequest` | store.go 168-345, oidc.go 69-246 |
| Publish handling | temporary files, artifact store, manifest being merged | upload, `ValidateRelease`, store image and artifact, merge manifest, then `Publish` | server.go 806-937, artifacts.go, adp.go |
| Start-up and migration | schema version, backfills | `migrate` and the functions it calls | store.go 354-911 |
| Catalog reads | view counters of `items`, `favorite_items`, `download_events` | list, detail, resolve, download, view, favourite | store.go 129-161, 1556-2690, server.go 366-640 |
| Version ordering | none | `canonicalVersion`, `compareSemanticVersions` | version.go |
| SSO JWT, npm view, ADP rendering, archive checks, process | none of their own | one request each | sso_jwt.go, npm.go, adp.go, artifacts.go, main.go |

### How they interact

* A publish handler identifies its user (session cookie, SSO JWT, trusted
  proxy, or the admin token, which names no creator), validates, stores files,
  and only then opens `Publish`'s transaction, which checks again.
* A decision names a component, never a version: the store decides which
  release it is about, so the review page and the store can disagree.
* Comments may be written only while the component is public, so an unpublish
  closes them; editing and moderating do not ask.
* A login that brings a staff number re-keys the account and, with it, the
  creators of items and versions, while requests under the old id are running.
* Every request that looks at a session takes `oidcMu`, which a login may hold
  while it talks to the identity provider.
* A restart backfills rows of releases, pending ones included.

### What is hard, and what makes each component correct

| Component | Hard behaviour | Correct means |
| --- | --- | --- |
| Release lifecycle | long legal sequences of submissions, decisions and withdrawals by several actors; rows copied by hand; releases older than snapshots; restarts in between | item row and release rows agree; a decision is unambiguous; nothing unapproved is public; a public release does not change; readers see only decisions, and after a restart at most platforms made from a public release; the newest release is shown; one creator owns a component |
| Review desk | two admins decide from pages that were loaded earlier | the decision falls on the release that was read |
| Comments | check and write are separate statements outside a transaction | own words only, hiding and deletion are not undone |
| OIDC client | a mutex held across a network call; recovery without restart | every request is answered, logins recover, an initialised client is never rebuilt |
| Identity | logins race for an id; an account is re-keyed under running requests | one account per person, sessions and work stay with their person, roles only for the listed |
| Publish handling | validation is stale when the transaction runs; files are written before it and not rolled back; two uploads merge one manifest | what rows name has been stored; a public release comes to rest; an accepted upload stays; a merge loses no entry it read |
| Start-up | dozens of statements without a transaction; a crash between any two | the next start-up completes the work and serves the same catalog |
| Catalog reads | one answer out of several queries; a counter retried on a busy database | an answer describes a state the store was in; a view is counted at most once |
| Version ordering | numeric identifiers beyond 64 bits, build metadata, missing parts | the order of semver.org on the versions accepted |

`PROJECT.json` lists these hazards at their lines with the properties that
cover them.

## 2. The modules

| Module | Models | Extends or instantiates |
| --- | --- | --- |
| `Release` | the release lifecycle of one component | `Storefront` (refinement) |
| `Storefront` | abstract: what the lifecycle promises the public | - |
| `ReviewDesk` | `Release` composed with admins' review pages | `Release` |
| `PublishFlow` | `Release` composed with publish handlers and the artifact store | `Release` |
| `CatalogReads` | `Release` composed with requests that read the catalog | `Release` |
| `Startup` | `migrate` on databases of former releases | - |
| `SemVer` | version parsing and precedence | - |
| `Comments` | comment handlers as check-then-write processes | - |
| `OIDCInit` | late initialisation of the OIDC client | - |
| `Identity` | accounts, re-keying, sessions, ownership of work | - |
| `MCRelease` | instances of `Release`, with versions that `SemVer` orders | `Release`, `SemVer` |
| `MCReviewDesk`, `MCPublishFlow`, `MCCatalogReads`, `MCStartup`, `MCComments`, `MCIdentity` | instances for TLC | their module |
| `ReleaseProofs`, `SemVerProofs`, `CommentsProofs`, `OIDCProofs`, `IdentityProofs`, `StartupProofs` | theorems | their module |
| `PublishFlowProofs` | theorems about `PublishFlow` | `PublishFlow`, `ReleaseProofs` |
| `CatalogReadsProofs` | theorems about `CatalogReads` | `CatalogReads`, `ReleaseProofs` |

### Release

All statements of the three operations are keyed by `(type, id)`, so components
do not interact and one is modelled. Each operation runs in one transaction
that reads before it writes: SQLite lets such a transaction write only if its
snapshot is still the newest, otherwise the request fails and is rolled back.
So each is one atomic action, and a refused request is no step.

| TLA+ | Code |
| --- | --- |
| `item` | the row of `items`: latest version, status, published, creator, contents |
| `versions[v]` | the row of `versions`, `content` standing for metadata and snapshot |
| `platforms[v][p]`, `artifacts[v][p]` | rows of `version_platforms` and `artifacts` |
| `lastEvent[v]` | `to_status` of the newest row of `review_events` |
| `Publish(v, p, c, a)` | `Store.Publish`; `OwnerAllows`, `PendingAllows`, `VersionAllows` are its refusals |
| `ReviewCandidate`, `ReviewCurrent` | the two paths of `Store.UpdateReview` |
| `Unpublish` | `Store.Unpublish` with `findLatestPublishedVersion` |
| `Restart` | the backfills of `migrate` that change a database already in this schema |
| `PublicView` | for the properties: what the catalog's queries serve, the rows restarts made up included |

Contents are named by the number of the submission they came with, so "the same
contents" is a comparison of numbers; `Backfilled` is a platform specification
a restart made up. `Malformed` versions are those `compareSemanticVersions`
refuses to compare; `Rank` is the precedence of the others.

`Storefront` is what the public is promised while admins never suspend a live
component: `shown` is the newest of the `live` releases; releases go live one
at a time, each newer than the one shown; only the one shown can be withdrawn.
`ImplementsStorefront` substitutes `shown` and `live` by functions of
`Release`'s rows, so submissions, rejections and restarts must be stutters.

`ReviewDesk` adds `page[a]`: `OpenPage` is `GetAdminReviewDetail` (the pending
release, else the newest submission), `PostDecision` is the POST, which reaches
`UpdateReview` without a version.

### PublishFlow

`handler[h]` is a request inside `handlePublishWithOptions`. `Receive`,
`CheckPending`, `CheckPlatform` and `CheckVersion` are `ValidateRelease`, query
by query; `StoreImage`, `OpenArtifact`, `WriteArtifact` and `ReadManifest` what
follows, each skipped when the request brings no such part; `Commit` is
`Release`'s `Publish` with the file and the manifest the handler made. Between
any two steps other handlers go on, admins decide, and the process may crash.

`files` and `media` are the artifact store. An icon's name has only the release;
an artifact's name has its SHA-256, so writing it again writes the same bytes.
Where they go is `InPlace`:

* local storage (TRUE): `copyFile` truncates the file that is there and fills it
  again (artifacts.go:924), so storing is two steps, `OpenArtifact` and
  `WriteArtifact`, and a request may end between them. A file is `cut` when it was
  opened and never completed, `torn` when it was opened again although it was
  whole or another request was writing it, `whole` when it is complete. A writer
  whose file was truncated meanwhile (`truncated`) may end with the file whole or
  still torn, since the other one may not have filled it up again.
* S3 (FALSE): a PUT replaces the object when it is complete. One whose answer was
  lost counts as a PUT whose answer is late.

An icon is copied in one step, whole or cut: two copies of different icons at
once are taken one after the other.

`manifest` is `adp.yaml` reduced to what an installer follows: for each place of
it, where the download is and the hash demanded. A request brings the entries its
author wrote (`own`), which may name a download elsewhere or one of the market's;
`Bound` puts the server's own entry at the keys of the upload's platform, marked
`bound`, and keeps the author's everywhere else, as `bindADPArtifact` does. The
server checks of an author's entry only that a hash is there, so what a property
says about files is about the entries the server wrote. `foundLive` records for a
property whether the request's last look found the release public.

### CatalogReads

A request is the list of queries its handler makes (`Queries`), and each step
makes the next one and adds what it finds to `found`. A part of an answer is
named by its release, platform and the submission it came from. `offered`
collects, for the properties only, what was public at some moment of the
request. `Candidates` is the fallback from the asked-for platform to
`universal`; `Count` is one attempt of the view counter, whose outcome on a
busy database the caller cannot tell from failure.

### Startup

`stage` and `pos` say which statement of `migrate` is next; each is one step,
except that `canonicalizeStoredVersions` is a transaction and so one step as a
whole. A statement that names a column which is not there fails and ends the
process (`GiveUp`), so the order of the statements is part of what is checked.
`Stop` is a crash. Of two marked spellings of one version the row with the smaller
rowid is kept: which one that is may differ from version to version and from
table to table (`Inserted`). A stored version is its canonical spelling and the `v` or
`V` in front of it. Contents are numbers, so a row can be traced to the row of
`found`, the database the first start-up met. `FormerDatabase` is what such a
database may be: any rows under any spellings, with any of the columns and
tables that came later missing, except that no release has a row where its
component has none, since `Publish` writes the two in one transaction
(store.go:1073, 1090). `CurrentFound` says that the release its component names
has a row in some spelling; where it has not, the last check of `migrate` ends
the process, and `ComesUp` promises nothing.

### SemVer

A version is cut into identifiers; of an identifier the code asks whether it
has digits only, whether it begins with 0, its number, and how it compares as
a string, and that is what the model keeps. Numbers above `MaxInt` are the
ones `ParseInt` refuses: in the core they make a version malformed, in a
pre-release they are compared as strings. `MCRelease` gives `Release` its
`Malformed` and `Rank` from `SemVer`, and TLC checks there, as assumptions,
that `Before` is item 11 of semver.org wherever no number is too large.

### Comments

`CheckX(r, ...)` is the first statement of handler `r`, the action named after
the operation is its second; what is read in between is `handler[r]`. `Insert`
repeats nothing, `Edit` and `Moderate` write by id only, as the code does.
`Abandon` is a cancelled request context. `writer` is the user whose text a row
holds, `edits` counts texts. `Relist` is the lifecycle taking the component off
the shelf or putting it back.

### OIDCInit

`Open` tries discovery without the mutex. A login (`Ensure`, `Discover`) takes
`oidcMu` and, without a client, keeps it while the provider is asked; every
other request (`Identify`) takes it to read the client. The provider may be up,
refuse, or say nothing, and may change at any time. `Disconnect` is a browser
that gives up: it cancels discovery, but nothing cancels waiting for a mutex.

### Identity

An account's id is the staff number, or a generated id until the provider
asserts a number. A generated id is random and made once per subject, so it is
named by the subject. `Exchange` is the verified ID token; `FirstLogin` and
`ReturningLogin` are the transaction of `UpsertOIDCUser` with
`rekeyMarketUser`; `IssueSession` is `GetMarketUser` after the commit and the
cookie, a step later. A request holds the id of its session from `Identify`
on; `Publish` and `Comment` are its writes as far as owners go, so a re-keying
login may come in between. `author` is not stored by the program: it records
which person's request wrote a row, so that properties can speak of people
where the code speaks of ids.

Assumption about the provider (`NumbersAssumption`): a staff number taken from
one person is not given to another. Two subjects may share a number (an
account made anew at the provider) only if it is the only number of both.

## 3. What TLC checks

| Run | Question | States | Result |
| --- | --- | --- | --- |
| `release_full` | any decisions, submissions also with the admin token, restarts | 1.5 M | the rows agree, one release pending at most, nothing unapproved public, audit trail right, readers see only decisions and platforms a restart adds, a published release does not change |
| `release_disciplined` | admins never suspend a live component, every submission names its creator | 286 k | newest release shown, nothing resurfaces, one owner, `Storefront` implemented |
| `publish_flow` | local storage, two uploads at once for one release, admins, crashes, cut writes | 1.2 M | rows and the server's manifest entries name only what was stored; a published release keeps its manifest and file names, and once the requests that were past their checks have ended, its icon and files rest too; accepted uploads are kept, a merge keeps every entry it read |
| `catalog_reads` | any request while two releases come and go | 1.2 M | nothing unapproved is shown, the parts of an answer fit, a view is counted once |
| `startup` | databases of three schema ages, two start-ups cut off anywhere | 342 k | nothing is lost, creators stay, the snapshot is whole, the server comes up |
| `comments` | two users, two comments, two handlers | 248 k | own words, hiding not undone by the owner, deletion settles |
| `oidc_init` | three requests, provider answers or refuses in the end | small | mutex never leaked, every request answered, logins recover |
| `identity` | three subjects, two of them with one staff number | 1.1 M | accounts, sessions, roles and work never change hands |
| `release_restart` | a restart between two platform uploads | - | violated, see 5 |
| `review_desk` | two admins on one update | - | violated |
| `comments_hidden` | an edit overlaps a moderation | - | violated |
| `oidc_silent` | a provider that never answers | - | violated |

`PROJECT.json` has, for each property of a passing run, a mutant: a definition
changed as a plausible bug would change it, under which TLC finds the property
violated. The mutants stand beside the definitions, marked "Mutant".

### Bounds, and why they are enough

* Release: three versions, one of them malformed (four in the disciplined
  run, so that two new releases go over one from before snapshots and a
  withdrawal can fall back twice); two platforms; two creators or one and the
  admin token; three or four accepted submissions (`MaxSubmissions`). Three
  submissions allow an active release, a pending update and its resubmission;
  the fourth a second withdrawal. In the full run `LegacyReleases` puts two
  releases from before snapshots under the lifecycle, one of which cannot be
  restored. Decisions, withdrawals and restarts are not bounded.
* Versions: 0.9.0-rc.9, v0.9.0-rc.10+0, 0.10.0 and 0.9: numbers that compare
  otherwise as strings, a pre-release before its successors, build metadata, a
  part missing. The assumptions about precedence range over three cores, a
  pre-release of up to two identifiers out of nine, 64 bits being `MaxInt` = 10.
* PublishFlow: one release, two requests at once (a third adds no new pair of
  check and write), two accepted. Of the three uploads one brings everything a
  request can, so each stage is reached; two merge, two conflict, and two are for
  one platform, so that they write one file and race for its row. Storage is
  local (`InPlace` = TRUE), where more can go wrong; that S3 keeps the properties,
  and what an upload without an `adp.yaml` does (it clears the release's), is
  left to the proofs.
* CatalogReads: one request at a time, since requests do not touch each other;
  two releases and two submissions, so that a release is replaced, withdrawn
  and, in its other version, brought back while it runs.
* Startup: two base versions in each of three spellings, one platform beside
  `universal`, 337 databases: with and without the columns and tables later
  releases added, creators in the column, in the metadata, in both or nowhere.
  `MaxCrashes` = 2: a second crash falls into the repair of the first.
* `LiveReviews` bounds which decisions are posted for a live component with
  nothing pending: all in the full run, approvals only in the disciplined one.
* Comments: two handlers overlap in every order; a third adds no new pair of
  check and write, and the theorems hold for any number. `MaxEdits` counts the
  texts one comment gets: two distinguish an edit from a second one.
* Identity: a subject with a number of its own (ann), two with one number (bob
  and bobby), one component, one comment, two handlers. Each account can be
  generated, re-keyed, refused and raced for. A number that changes more than
  once makes the instance five times as large; the theorems cover it.
* Symmetry is used only for the safety runs, over handlers, users or creators,
  which are interchangeable in every property.

### Fairness

`OIDCInit`: the server's steps are goroutines, so each that can run is run
(weak fairness), and `sync.Mutex` in starvation mode hands the lock to a waiter
that was passed over (strong fairness of the steps that take it).
Nothing makes a client come back, a browser give up or a provider speak;
`AnsweringSpec` adds that the provider is not silent for ever and each
discovery that is asked often enough returns. The run `oidc_silent` uses the
fairness without that addition, and so shows what depends on the provider.

`Startup`: `ComesUp` assumes that migrate goes on (weak fairness of its
statements) and that a process that ended is started again, which
`restart: unless-stopped` in compose.yml provides. Crashes are bounded, so
nothing is assumed of them.

The other components are request driven: nothing must happen by itself, so
they have safety and action properties only.

## 4. What is proved

TLAPS checks the following for every value of the constants.

| Theorem | Statement | Rests on |
| --- | --- | --- |
| `ReleaseProofs!Lifecycle`, `MirrorTheorem`, `OnePendingTheorem`, `ApprovalTheorem`, `RestorableTheorem`, `AuditTheorem` | the invariants of `release_full` | `LifecycleInv` |
| `ReleaseProofs!ImmutableTheorem`, `CatalogTheorem` | its action properties | `LifecycleInv` |
| `ReleaseProofs!ShelfTheorem`, `OwnerTheorem` | the invariants of `release_disciplined` | `ShelfInv`, `Discipline` |
| `ReleaseProofs!StorefrontTheorem` | `Release` implements `Storefront` | `ShelfInv`, `Discipline` |
| `PublishFlowProofs!FlowImplementsRelease`, `FlowImplementsStorefront` | publish handlers in many steps implement `Release`, and `Storefront` | `FlowInv`, the latter `Discipline` |
| `PublishFlowProofs!SettlesTheorem` | a published release comes to rest | `FlowInv` |
| `PublishFlowProofs!NamedTheorem`, `LiveFilesTheorem` | what is named is stored, and what is published keeps its names and bytes | `FlowInv`, `StoredInv` |
| `PublishFlowProofs!AcceptedTheorem`, `MergeTheorem` | accepted uploads stay, a merge keeps what it read | `FlowInv` |
| `CatalogReadsProofs!AnswersTheorem` | nothing is answered that was never public | `ReadInv`, `Discipline` |
| `CatalogReadsProofs!CountedTheorem` | views and downloads are counted once | `ReadInv` |
| `CatalogReadsProofs!AgreeTheorem` | the parts of an answer fit each other | `AgreeInv`, `FilesAlways` |
| `StartupProofs!NothingLostTheorem`, `CreatorsTheorem`, `SnapshotTheorem` | the invariants of `startup` | `StartupInv` |
| `StartupProofs!NeverRefusedTheorem` | no start-up of a database whose current release has a row fails | `StartupInv` |
| `SemVerProofs!PrecedenceIrreflexive`, `PrecedenceTransitive`, `PrecedenceTotal`, `PrecedenceTies` | precedence is a strict order in which versions that tie are alike | `IdentifiersAssumption` |
| `CommentsProofs!WordsTheorem`, `HiddenTheorem`, `SettledTheorem` | the properties of `comments` | `WordsInv` |
| `OIDCProofs!ReadyTheorem` | an initialised client is never rebuilt | `OIDCInv` |
| `IdentityProofs!AccountsTheorem`, `SessionsTheorem`, `AdminsTheorem` | the invariants of `identity` | `IdentityInv` |
| `IdentityProofs!WorkTheorem`, `KeepsTheorem` | its action properties | `IdentityInv` |

and type correctness of `Release`, `PublishFlow`, `CatalogReads`, `Comments`,
`OIDCInit`, `Identity` and `Startup`. The assumptions are the modules' `ASSUME`s
and, where the table says so, `Discipline`: live components are not suspended,
and every submission names its creator; or `FilesAlways`: no submission comes
without its file. What is proved about `PublishFlow` holds for local storage and
for S3. Together they state every invariant and every action property
of the passing runs.

* `LifecycleInv` is `TypeOK`, `ItemMirrorsLatest`, `AtMostOnePending`,
  `PublishedIsApproved`, `CurrentReleaseRestorable`, `AuditAgrees`, and
  `PendingRestorable` (a pending release has its snapshot). The last is what
  the others need: with it `UpdateReview`'s query and `Publish`'s query, which
  filter differently, find the same pending release (`CandidateIsPending`), so
  a submission can neither make a second pending release nor overwrite
  somebody's. The mirror is needed for immutability: what protects the current
  release from being overwritten is the item's flag, not its own.
* `ShelfInv` adds to `LifecycleInv`: what is shown is public and the newest
  (`ShelfShowsNewest`, `ShownIsLive`); public releases are ordered among
  themselves (`PublishedOrdered`), without which a withdrawal could fall back
  to one of several; what is pending is newer than what is shown
  (`PendingIsNewer`), which `Publish` asked at submission and which a withdrawal
  keeps because it only goes back; and a release has the owner of every older
  public one that names one (`OwnersInherit`), so that asking the owner of the
  release shown is enough. A withdrawal finds a newest among the rest because
  all of them are below the release withdrawn (`NewestExists`). The refinement
  follows action by action: an approval is `GoLive`, a withdrawal `Withdraw`,
  the rest stutters.
* `FlowInv` is `LifecycleInv`, the types, and that each running request is
  *sound*: it carries what `Publish` takes, so its commit is a step of
  `Release` (`FlowStep`) and `LifecycleInv` is kept; past the checks it has
  found its release not public; and what it is about to commit fits the
  manifest it read. The second needs the lifecycle: `CheckPending` lets the
  pending release pass without looking at its flag, and a pending release is
  not public.
* `StoredInv` says what is stored when: a request past `WriteArtifact` has its
  file stored, one past `ReadManifest` only merges server's entries whose rows and
  files are there, and so do the rows and the manifests. Stored is whole or, in
  local storage, torn: what is stored, or has a row, stays so (`StorageGrows`), so a
  step of another request disturbs none of it, and `Commit`, the only step that
  names files, names what its request has stored. A writer another request
  truncated needs a clause of its own: its file is torn already, so it may pass
  without having filled it up.
* `SettlesTheorem` and `LiveFilesTheorem` rest on what `FlowInv` says of requests
  past their checks: they found the release not public, so on a published one they
  are older than the approval, and `Publish` refuses them. A request that has still
  to look is stopped by `CheckVersion` or, since a published release is not
  pending, by `CheckPending`.
* `ReadInv` says of a running request: whatever is public now has been offered
  to it; what it found was offered, or is a row of a release that was; it has
  counted only if its last query is done; and a download past its artifact
  query was offered a file. The order of queries is a lemma about the seven
  lists (`QueryOrder`). `ShelfInv` is needed at one place: a version list asks
  for published releases without asking for the item, and only in a market
  without suspensions no release stays published behind an item that is not
  (`PublishedOnShelf`).
* `AgreeInv` adds to `ReadInv` what an answer's parts were when they were read.
  Each file and each specification found is `Dated`: it belonged to a release
  that has been offered, and if that release still has the contents it had, the
  part still stands. Two parts of one release and platform then either are of
  the same submission, or a submission came between, which `AnswersAgree`
  allows: contents are numbered upwards, so a number that was left does not come
  back (`Below`). A page shows only versions whose rows it found (`Paged`). In the
  database itself a file and its specification fit (`FilesFit`), which is where
  `FilesAlways` is needed: a submission of a specification alone leaves the
  rejected file beside it. Decisions and withdrawals keep contents
  (`DecisionKeepsParts`), submissions give a new number (`SubmitRenumbers`), and
  a restart, which could fill rows in, ends all requests. `Discipline` is not
  needed.
* `StartupInv` says what holds at each statement of `migrate`, whichever
  statements earlier start-ups were cut off at. `ShapeInv` and `ColumnsInv`: a
  stage is reached only when the columns its statements name are there, whether
  a former release, an earlier start-up or this one made them. `KindInv`: tables are
  renamed in their order. `RowsInv`: the rows are either as they were found
  (`Original`) or rewritten (`Canonicalized`), and rewritten from the transaction
  on; in the second case each canonical row is the one `Chosen` among the
  spellings found, with at most what a backfill may add (`ReleaseKept`,
  `FileKept`, `PlatformKept`), and downloads are the sum. The rewriting may run a
  second time on rows it already rewrote: then only canonical spellings have
  rows, and each is chosen again. `CreatorsInv`: between the item's creator and
  its releases' lies one statement, and only a crash parts the two; that is why
  `CreatorsKept` is about start-ups that are not cut off. `SnapshotInv` is what the
  last check finds. `NeverRefused` is the part of `ComesUp` that needs no
  fairness: with `CurrentFound` no statement and no check of `migrate` ends the
  process, so only crashes, which are bounded, can keep the server down.
* Precedence: two lists that differ first at one place and agree before it are
  compared as there, and transitivity goes by which of two differences comes
  first. The order of identifiers is an order because numbers that 64 bits
  cannot hold are with the strings on both sides.
* `WordsInv` adds to `OwnWords` that a handler about to edit was started by the
  comment's owner, and owners never change (`EditsOwn`).
* `OIDCInv` adds that nobody asks the provider before `Open` has returned
  (`StartsQuiet`).
* `IdentityInv` adds to the invariants that every id a session, a handler or a
  row carries is *held* by its person: it is the subject's own generated id or
  one of its numbers, and if it is the person's only number the account has
  it (`Held`). Two people can share an id only if it is the one number of
  both; then both accounts would have it, which `OneAccountEach` excludes
  (`HeldOnce`). From this a request that runs under an id nobody has any more
  can still only touch its own person's work (`WriteInv`), and a re-keying
  login, first or returning, moves nobody else's (`LoginWorks`).

TLC finds each inductive invariant true on its run's instance; of `AgreeInv` and
of `StartupInv`'s `ShapeInv` it checks a form without quantifiers over infinite
sets.

Model-checked only: liveness (`AllAnswered`, `LoginRecovers`, `ComesUp`,
`CatalogAvailable`), which the installed prover does not reach, and that
`Before` agrees with semver.org, since the definition there is recursive.

## 5. Where the code and its documents disagree

* `review_desk`: a decision names no version. When two admins reject one update
  the second rejection falls on the active release and takes it off the shelf
  (store.go:1525; the test at server_test.go:2130 says a rejection must not).
* `release_restart`: a restart gives a pending release a universal platform row
  nobody submitted, and the creator's universal upload is refused (store.go:803;
  store.go:2067 says platform uploads can be merged before approval).
* `comments_hidden`: an edit that read the comment before a moderator hid it
  changes the hidden text (store.go:2738; store.go:32 says it cannot).
* `oidc_silent`: with a provider that does not answer, one login stops the
  catalog for everybody with a session lookup (server.go:61; server.go:50 says
  the catalog should remain available).

Met while modelling, and not contradicted by a statement of the repository, so
without a run of their own:

* A submission with the admin token stores an empty creator over the owner's,
  after which any creator may publish (store.go:1033; with a creator id
  "component belongs to another creator"). So does a withdrawal that falls
  back to a release from before creators. `OneOwner` is therefore about the
  releases that are public or pending, and supposes that submissions name their
  creator.
* A rejection keeps the release's platform rows and manifest (store.go:1036).
  When the creator resubmits one platform of it, all others count as already
  uploaded; they cannot be corrected, and approval publishes the rejected ones.
  A changed file for the same platform conflicts with the rejected manifest
  (adp.go:422).
* Approving a withdrawn release again goes through `updateLegacyReviewTx`, which
  leaves its platform rows unpublished (store.go:1525): it is public without
  platform specifications.
* Two uploads that read the release's manifest before either commits: the later
  one loses the other's part (adp.go:76). `UploadsMerge` states what holds.
* The icon of a release is replaced before the submission is accepted
  (artifacts.go:382): a request validated before an approval and refused after it
  has changed what readers see. `LiveReleaseSettles` states what holds.
* In local storage a file that is stored already is truncated and written once
  more (artifacts.go:930), also when a published row names it. A request validated
  before the approval that opens the file after it and is cut off leaves the
  published release with a short file until the same bytes are uploaded again,
  which the checks no longer allow. `NamedFilesAreStored` and
  `LiveFilesFixed` say that this is the only way to it. S3 is not concerned.
* What an author writes into `adp.yaml` outside the keys of the uploaded platform
  is stored as it is (adp.go:336), so a published manifest may name a download of
  the market that has no row.
* A restart gives a published release without a universal platform row one made
  from the release (store.go:803), and readers are served it.
* A crash between the two statements of `backfillCreatorIDs` leaves releases
  without their creator for good (store.go:702, 705).
* `item_comments` and `review_events` keep the type `sandbox` when all other
  tables are renamed (store.go:651).
* The version list reads files and specifications of all releases
  (store.go:2361, 2857); one withdrawn and submitted anew between its queries
  shows what nobody approved. `AnswersWerePublic` makes that exception.
* Pre-release numbers beyond 64 bits are compared as strings, so 1.0.0-10...0
  may come before a smaller one (version.go:123; semver.org compares numbers).

## 6. Not modelled

* SSO JWT checks, archive validation, npm and ADP rendering, environment
  parsing, the seed script: decided within one request, with no state of their
  own. Object storage and its signed URLs are the storage service's.
* Of publish handling: what one request's metadata must look like, and
  temporary files. Of catalog reads: favourites (idempotent writes of one
  row), creators' names, statistics, admin and creator listings, search and
  filters, and platform keys that fall back in more than one step.
* Of the identity component: usernames and profile fields (no property reads
  them), users of the SSO JWT and the trusted proxy (they have no account
  rows), login state cookies.
* Wording, layout, timestamps except as an order of submissions.

## 7. Plan

What is left, in this order:

1. `OIDCInit`: the safety cores of its liveness properties, as `NeverRefused` is
   one of `ComesUp`: the mutex always has a holder that can go on, and a request
   that was answered or cancelled never holds it.
2. An abstract specification of comments (a row's text, its visibility and its
   end) that `Comments` implements with its two-statement handlers.
