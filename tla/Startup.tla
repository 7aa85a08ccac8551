------------------------------ MODULE Startup ------------------------------
(***************************************************************************)
(* Start-up: Store.migrate on whatever database a former release left.     *)
(*                                                                         *)
(* migrate runs its statements one after the other, each committed by      *)
(* itself; only canonicalizeStoredVersions is a transaction.  A crash may  *)
(* fall between any two, and compose.yml restarts the container, so        *)
(* migrate begins again on what it left.  The server answers only once it  *)
(* is through, so nothing else writes meanwhile.  All statements treat the *)
(* rows of each component alike, hence one component.                      *)
(***************************************************************************)
EXTENDS Integers, Sequences, FiniteSets

CONSTANTS
    Bases,       \* canonical version strings
    Platforms,   \* platform keys
    Universal,   \* the platform key "universal"
    Users,       \* creator ids, the empty one among them
    Nobody,      \* the empty creator id
    Databases,   \* databases a start-up may find
    MaxCrashes   \* bound: start-ups cut off

\* A stored version: canonical, or with a "v" or "V" in front of its digit.
Stored == [mark: {"", "v", "V"}, base: Bases]
Plain(s) == [mark |-> "", base |-> s.base]

\* Tables with rows of the component, in the order the renaming treats them.
Renamed == <<"items", "versions", "artifacts", "version_platforms", "tags",
             "download_events", "favorite_items">>
Tables == {Renamed[i] : i \in DOMAIN Renamed}
SandboxType == "sandbox"
CurrentTypes == {"sandbox-image", "skill"}
Types == CurrentTypes \cup {SandboxType}

\* Mutant: the creator's column comes with the artifacts' columns.
AddedWithoutCreator ==
    << <<"items", "metadata_json">>, <<"items", "submitted_at">>,
       <<"versions", "metadata_json">>, <<"versions", "creator_id">>,
       <<"versions", "snapshot_json">>, <<"versions", "submitted_at">> >>
\* ensureColumn's columns that later statements of migrate name.
Added ==
    << <<"items", "creator_id">>, <<"items", "metadata_json">>,
       <<"items", "submitted_at">>, <<"versions", "metadata_json">>,
       <<"versions", "creator_id">>, <<"versions", "snapshot_json">>,
       <<"versions", "submitted_at">> >>
Columns == {"items", "versions"} \X {"creator_id", "metadata_json", "submitted_at", "snapshot_json"}

\* Columns a CREATE TABLE of today has; versions lacks snapshot_json, which
\* only ensureColumn gives it.
Created == {"items"} \X {"creator_id", "metadata_json", "submitted_at", "snapshot_json"}
           \cup {"versions"} \X {"creator_id", "metadata_json", "submitted_at"}

\* Contents are named by numbers: where a row came from is told by its number.
NoSnapshot == [content |-> 0, tags |-> FALSE, platform |-> 0]
None == [content |-> 0, creator |-> Nobody, submitted |-> FALSE, snapshot |-> NoSnapshot]

\* Rows of items and versions, the snapshot in the latter, and numbers by platform.
Snapshot == [content: Nat, tags: BOOLEAN, platform: Nat]
Item == [latest: Stored, content: Nat, creator: Users, owner: Users, submitted: BOOLEAN]
Version ==
    {row \in [content: Nat, creator: Users, submitted: BOOLEAN, snapshot: Snapshot] :
        row.content = 0 => row = None}
PerPlatform == [Stored -> [Platforms -> Nat]]

\* Releases are only ever written together with their component's row.
FormerDatabase ==
    {d \in [type: Types, tables: SUBSET Tables, columns: SUBSET Columns, item: Item,
            versions: [Stored -> Version], artifacts: PerPlatform, platforms: PerPlatform,
            downloads: [Stored -> Nat]] :
        d.item.content = 0 => \A s \in Stored : d.versions[s] = None}

ASSUME StartupAssumption ==
    /\ Universal \in Platforms
    /\ Nobody \in Users
    /\ MaxCrashes \in Nat
    /\ Databases \subseteq FormerDatabase

VARIABLES
    stage,      \* what migrate does next; "down" without a process, "up" once it is through
    pos,        \* position in the list a stage works through
    tables,     \* tables there are
    columns,    \* columns there are, as far as migrate names them
    kind,       \* the type the component has in each table's rows
    item,       \* the row of items
    versions,   \* rows of versions, by stored version
    artifacts,  \* rows of artifacts, by stored version and platform; 0: no row
    platforms,  \* rows of version_platforms, likewise
    downloads,  \* number of download_events, by stored version
    crashes,
    found       \* the rows the first start-up found: fixed, properties refer to it

process == <<stage, pos, crashes>>
schema == <<tables, columns>>
rows == <<item, versions, artifacts, platforms, downloads>>
vars == <<process, schema, kind, rows, found>>

Exists(s) == versions[s].content # 0

Init ==
    /\ \E d \in Databases :
          /\ tables = d.tables
          /\ columns = d.columns
          /\ kind = [t \in Tables |-> d.type]
          /\ item = d.item
          /\ versions = d.versions
          /\ artifacts = d.artifacts
          /\ platforms = d.platforms
          /\ downloads = d.downloads
    /\ stage = "down" /\ pos = 0 /\ crashes = 0
    /\ found = [type |-> kind["items"], item |-> item, versions |-> versions,
                artifacts |-> artifacts, platforms |-> platforms, downloads |-> downloads]

-----------------------------------------------------------------------------
(* The process *)

\* Columns the statements of a stage name; without them they fail.
Needs(s) ==
    CASE s = "index"          -> {<<"items", "creator_id">>}
      [] s = "itemCreator"    -> {<<"items", "creator_id">>, <<"items", "metadata_json">>}
      [] s = "versionCreator" -> {<<"versions", "creator_id">>}
      [] s = "itemDate"       -> {<<"items", "submitted_at">>}
      [] s = "versionDate"    -> {<<"versions", "submitted_at">>}
      [] s = "universal"      -> {<<"versions", "metadata_json">>}
      [] s = "perArtifact"    -> {<<"versions", "metadata_json">>}
      [] s = "snapshot"       -> {<<"items", "creator_id">>, <<"items", "metadata_json">>,
                                  <<"items", "submitted_at">>, <<"versions", "snapshot_json">>}
      [] OTHER                -> {}

At(s) == stage = s /\ Needs(s) \subseteq columns

\* The end of a stage: the next one begins at its first position.
Then(s) == stage' = s /\ pos' = 1 /\ UNCHANGED crashes

\* Mutant: one position more.
WalkPast(n, next) ==
    IF pos <= n THEN pos' = pos + 1 /\ UNCHANGED <<stage, crashes>> ELSE Then(next)
\* One step of a stage that works through n positions.
Walk(n, next) ==
    IF pos < n THEN pos' = pos + 1 /\ UNCHANGED <<stage, crashes>> ELSE Then(next)

\* The container runtime starts the process; OpenStore opens the database.
Start ==
    /\ stage = "down"
    /\ Then("tables")
    /\ UNCHANGED <<schema, kind, rows, found>>

\* A statement fails, or the last check does: main gives up.
GiveUp ==
    /\ \/ ~(Needs(stage) \subseteq columns)
       \/ /\ stage = "verify"
          /\ item.content # 0
          /\ versions[item.latest].snapshot.content = 0
    /\ stage' = "down"
    /\ UNCHANGED <<pos, crashes, schema, kind, rows, found>>

\* The server is up until its process ends; the container is started again.
Stop ==
    /\ stage = "up"
    /\ stage' = "down"
    /\ UNCHANGED <<pos, crashes, schema, kind, rows, found>>

\* The process ends while it migrates.
Crash ==
    /\ stage \notin {"down", "up"}
    /\ crashes < MaxCrashes
    /\ stage' = "down"
    /\ crashes' = crashes + 1
    /\ UNCHANGED <<pos, schema, kind, rows, found>>

-----------------------------------------------------------------------------
(* migrate, in the code's order *)

\* CREATE TABLE IF NOT EXISTS: a table that is there keeps its columns.
CreateTables ==
    /\ At("tables")
    /\ tables' = tables \cup {Renamed[pos]}
    /\ columns' = columns \cup {c \in Created : c[1] = Renamed[pos] /\ c[1] \notin tables}
    /\ Walk(Len(Renamed), "columns")
    /\ UNCHANGED <<kind, rows, found>>

\* ensureColumn, for each column in turn: table_info, then ALTER TABLE.
EnsureColumns ==
    /\ At("columns")
    /\ columns' = columns \cup {Added[pos]}
    /\ Walk(Len(Added), "index")
    /\ UNCHANGED <<tables, kind, rows, found>>

\* CREATE INDEX idx_items_creator.
CreateIndex ==
    /\ At("index")
    /\ Then("itemCreator")
    /\ UNCHANGED <<schema, kind, rows, found>>

(* backfillCreatorIDs: an item without creator whose metadata names one gets
   it, and then, in a second statement, so do its versions without creator. *)
BackfillItemCreator ==
    /\ At("itemCreator")
    /\ IF item.content # 0 /\ item.creator = Nobody /\ item.owner # Nobody
       THEN item' = [item EXCEPT !.creator = item.owner] /\ Then("versionCreator")
       ELSE UNCHANGED item /\ Then("itemDate")
    /\ UNCHANGED <<schema, kind, versions, artifacts, platforms, downloads, found>>

\* Mutant: all versions are given the item's creator.
BackfillVersionCreatorsAll ==
    /\ At("versionCreator")
    /\ versions' = [s \in Stored |->
          IF Exists(s) THEN [versions[s] EXCEPT !.creator = item.creator] ELSE versions[s]]
    /\ Then("itemDate")
    /\ UNCHANGED <<schema, kind, item, artifacts, platforms, downloads, found>>
BackfillVersionCreators ==
    /\ At("versionCreator")
    /\ versions' = [s \in Stored |->
          IF Exists(s) /\ versions[s].creator = Nobody /\ kind["versions"] = kind["items"]
          THEN [versions[s] EXCEPT !.creator = item.creator] ELSE versions[s]]
    /\ Then("itemDate")
    /\ UNCHANGED <<schema, kind, item, artifacts, platforms, downloads, found>>

\* UPDATE items, then versions, SET submitted_at = published_at WHERE submitted_at = ''.
DateItems ==
    /\ At("itemDate")
    /\ item' = [item EXCEPT !.submitted = (item.content # 0)]
    /\ Then("versionDate")
    /\ UNCHANGED <<schema, kind, versions, artifacts, platforms, downloads, found>>

DateVersions ==
    /\ At("versionDate")
    /\ versions' = [s \in Stored |-> [versions[s] EXCEPT !.submitted = Exists(s)]]
    /\ Then("rename")
    /\ UNCHANGED <<schema, kind, item, artifacts, platforms, downloads, found>>

\* Mutant: the list ends early.
RenameTypeOfReleases ==
    /\ At("rename")
    /\ kind' = [kind EXCEPT ![Renamed[pos]] = IF @ = SandboxType THEN "sandbox-image" ELSE @]
    /\ Walk(4, "canonical")
    /\ UNCHANGED <<schema, rows, found>>
\* The type "sandbox" becomes "sandbox-image", one table after the other.
RenameType ==
    /\ At("rename")
    /\ kind' = [kind EXCEPT ![Renamed[pos]] = IF @ = SandboxType THEN "sandbox-image" ELSE @]
    /\ Walk(Len(Renamed), "canonical")
    /\ UNCHANGED <<schema, rows, found>>

(* canonicalizeStoredVersions.  The rows with a marked version that have a
   canonical twin, or an older row of the same canonical version beside them,
   are deleted; the others lose the mark. *)
Canonical(table, first, none) ==
    [s \in Stored |->
        IF s.mark # "" THEN none
        ELSE LET spelled == {t \in Stored : t.base = s.base /\ table[t] # none}
                 unmarked == {t \in spelled : t.mark = ""}
                 earlier == {t \in spelled : t.mark = first[s.base]}
             IN  IF unmarked # {} THEN table[s]
                 ELSE IF earlier # {} THEN table[CHOOSE t \in earlier : TRUE]
                 ELSE IF spelled # {} THEN table[CHOOSE t \in spelled : TRUE]
                 ELSE none]

\* The smaller rowid: of a version's two marked rows either may be the first.
Inserted(table, none) ==
    {first \in [Bases -> {"v", "V"}] : \A b \in Bases : first[b] = "V" =>
        \A m \in {"v", "V"} : table[[mark |-> m, base |-> b]] # none}

\* artifacts and version_platforms are told apart by platform, too.
Column(table, p) == [s \in Stored |-> table[s][p]]
CanonicalPerPlatform(table, first) ==
    [s \in Stored |-> [p \in Platforms |-> Canonical(Column(table, p), first[p], 0)[s]]]
InsertedPerPlatform(table) ==
    {first \in [Platforms -> [Bases -> {"v", "V"}]] :
        \A p \in Platforms : first[p] \in Inserted(Column(table, p), 0)}

\* Mutant: marked versions with a canonical twin are all that is deleted, and
\* the rest is left as it is.
CanonicalizeDeletesOnly ==
    /\ At("canonical")
    /\ versions' = [s \in Stored |-> IF Exists(Plain(s)) /\ s.mark # "" THEN None ELSE versions[s]]
    /\ item' = [item EXCEPT !.latest = Plain(@)]
    /\ Then("universal")
    /\ UNCHANGED <<schema, kind, artifacts, platforms, downloads, found>>
Canonicalize ==
    /\ At("canonical")
    /\ \E first \in Inserted(versions, None) : versions' = Canonical(versions, first, None)
    /\ \E first \in InsertedPerPlatform(artifacts) :
          artifacts' = CanonicalPerPlatform(artifacts, first)
    /\ \E first \in InsertedPerPlatform(platforms) :
          platforms' = CanonicalPerPlatform(platforms, first)
    /\ downloads' = [s \in Stored |-> IF s.mark # "" THEN 0 ELSE
          downloads[s] + downloads[[s EXCEPT !.mark = "v"]] + downloads[[s EXCEPT !.mark = "V"]]]
    /\ item' = [item EXCEPT !.latest = Plain(@)]
    /\ Then("universal")
    /\ UNCHANGED <<schema, kind, found>>

\* Rows the joins of a backfill find: those whose tables agree on the type.
Joined(names) == \A t \in names : kind[t] = kind["items"]

(* backfillVersionPlatforms: INSERT OR IGNORE of a universal row for each
   version, then of a row for each artifact, with the version's contents. *)
BackfillUniversal ==
    /\ At("universal")
    /\ platforms' = [s \in Stored |-> [p \in Platforms |->
          IF /\ platforms[s][p] = 0 /\ p = Universal /\ Joined({"versions"})
             /\ item.content # 0
          THEN versions[s].content ELSE platforms[s][p]]]
    /\ Then("perArtifact")
    /\ UNCHANGED <<schema, kind, item, versions, artifacts, downloads, found>>

BackfillPerArtifact ==
    /\ At("perArtifact")
    /\ platforms' = [s \in Stored |-> [p \in Platforms |->
          IF /\ platforms[s][p] = 0 /\ artifacts[s][p] # 0
             /\ Joined({"versions", "artifacts"}) /\ item.content # 0
          THEN versions[s].content ELSE platforms[s][p]]]
    /\ Then("snapshot")
    /\ UNCHANGED <<schema, kind, item, versions, artifacts, downloads, found>>

(* backfillCurrentVersionSnapshots: the current release without a snapshot
   gets one made from the item, its tags and a platform, universal at best. *)
BackfillSnapshot ==
    /\ At("snapshot")
    /\ versions' =
          IF /\ item.content # 0 /\ Exists(item.latest) /\ Joined({"versions"})
             /\ versions[item.latest].snapshot.content = 0
          THEN [versions EXCEPT ![item.latest].snapshot =
                  [content |-> item.content,
                   tags |-> Joined({"tags"}),
                   platform |-> IF Joined({"version_platforms"})
                                THEN platforms[item.latest][Universal] ELSE 0]]
          ELSE versions
    /\ Then("verify")
    /\ UNCHANGED <<schema, kind, item, artifacts, platforms, downloads, found>>

\* The last query counts no current release without row or snapshot.
Serve ==
    /\ stage = "verify"
    /\ item.content # 0 => versions[item.latest].snapshot.content # 0
    /\ Then("up")
    /\ UNCHANGED <<schema, kind, rows, found>>

Migrate ==
    \/ CreateTables \/ EnsureColumns \/ CreateIndex
    \/ BackfillItemCreator \/ BackfillVersionCreators
    \/ DateItems \/ DateVersions \/ RenameType \/ Canonicalize
    \/ BackfillUniversal \/ BackfillPerArtifact \/ BackfillSnapshot \/ Serve

Next == Start \/ Stop \/ GiveUp \/ Crash \/ Migrate

\* The process runs on by itself, and the container is restarted when it ends.
Spec == Init /\ [][Next]_vars /\ WF_vars(Start \/ GiveUp \/ Migrate)

-----------------------------------------------------------------------------
(* Properties *)

Stages == {"down", "tables", "columns", "index", "itemCreator", "versionCreator",
           "itemDate", "versionDate", "rename", "canonical", "universal",
           "perArtifact", "snapshot", "verify", "up"}

TypeOK ==
    /\ stage \in Stages
    /\ pos \in 0 .. Len(Renamed)
    /\ crashes \in 0 .. MaxCrashes
    /\ tables \subseteq Tables
    /\ columns \subseteq Columns
    /\ kind \in [Tables -> Types]
    /\ item \in Item
    /\ versions \in [Stored -> Version]
    /\ artifacts \in PerPlatform
    /\ platforms \in PerPlatform
    /\ downloads \in [Stored -> Nat]

\* The rows found for what is now one row: the marked and the unmarked spelling.
Spelled(table, base, none) == {s \in Stored : s.base = base /\ table[s] # none}

\* now is the row kept of those found before: the unmarked one where there was one.
KeptOf(now, before, base, none) ==
    LET spelled == Spelled(before, base, none)
        plain == [mark |-> "", base |-> base]
    IN  IF spelled = {} THEN now = none
        ELSE IF plain \in spelled THEN now = before[plain]
        ELSE \E s \in spelled : now = before[s]

Total(table, base) == table[[mark |-> "", base |-> base]]
    + table[[mark |-> "v", base |-> base]] + table[[mark |-> "V", base |-> base]]

(* However often start-up was cut off, what the server comes up with is the
   database it found: each release, file, platform and download once, under its
   canonical version, the item at the release it showed, and every table at the
   same type, so that no join loses a row. *)
NothingLost ==
    stage = "up" =>
        /\ \A t \in Tables : kind[t] = kind["items"]
        /\ kind["items"] = IF found.type = SandboxType THEN "sandbox-image" ELSE found.type
        /\ item.latest = Plain(found.item.latest) /\ item.content = found.item.content
        /\ \A s \in Stored : s.mark # "" =>
              ~Exists(s) /\ downloads[s] = 0 /\ \A p \in Platforms : artifacts[s][p] = 0 /\ platforms[s][p] = 0
        /\ \A s \in Stored : s.mark = "" =>
              /\ KeptOf(versions[s].content, [t \in Stored |-> found.versions[t].content], s.base, 0)
              /\ downloads[s] = Total(found.downloads, s.base)
              /\ \A p \in Platforms :
                    LET foundPlatforms == [t \in Stored |-> found.platforms[t][p]] IN
                    /\ KeptOf(artifacts[s][p], [t \in Stored |-> found.artifacts[t][p]], s.base, 0)
                    /\ IF Spelled(foundPlatforms, s.base, 0) # {}
                       THEN KeptOf(platforms[s][p], foundPlatforms, s.base, 0)
                       ELSE platforms[s][p] = IF p = Universal \/ artifacts[s][p] # 0
                                              THEN versions[s].content ELSE 0

(* No start-up gives a component or a release to somebody else: a creator is
   kept where one was recorded, and is the one the metadata names where none
   was.  A start-up that is not cut off fills in all of them; a crash between
   the two statements leaves the releases without one, for good, and a later
   fall-back to such a release leaves the component without an owner. *)
CreatorsKept ==
    /\ \/ item.creator = found.item.creator
       \/ found.item.creator = Nobody /\ item.creator = found.item.owner
    /\ \A s \in Stored : versions[s].creator # Nobody =>
          \E t \in Stored :
              /\ t.base = s.base /\ found.versions[t].content # 0
              /\ versions[s].creator =
                    IF found.versions[t].creator # Nobody THEN found.versions[t].creator
                    ELSE IF found.item.creator = Nobody THEN found.item.owner ELSE Nobody
    /\ stage = "up" /\ crashes = 0 /\ found.item.creator = Nobody /\ found.item.owner # Nobody =>
          \A s \in Stored : Exists(s) => versions[s].creator # Nobody

(* The release the item shows can be restored whole: its snapshot is one a
   submission left, or has the item's contents, its tags and its universal
   platform.  Made before the tags had the item's type, or before the platforms
   were filled in, it would lack them for good, for it is never made again. *)
SnapshotComplete ==
    stage = "up" /\ item.content # 0 =>
        LET row == versions[item.latest] IN
        /\ Exists(item.latest)
        /\ \/ \E s \in Stored : row.snapshot = found.versions[s].snapshot /\ row.snapshot # NoSnapshot
           \/ row.snapshot = [content |-> item.content, tags |-> TRUE,
                              platform |-> platforms[item.latest][Universal]]

\* The release the item shows has a row, in one spelling or another.
CurrentFound ==
    found.item.content # 0 =>
        \E s \in Stored : s.base = found.item.latest.base /\ found.versions[s].content # 0

(* Every such database is brought up again in the end, wherever earlier
   start-ups were cut off. *)
ComesUp == CurrentFound => []<>(stage = "up")
=============================================================================
