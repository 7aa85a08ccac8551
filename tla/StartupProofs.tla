---------------------------- MODULE StartupProofs ----------------------------
(***************************************************************************)
(* Proofs about Startup: however often a migration is cut off, what the    *)
(* server comes up with is the database the first one found.               *)
(***************************************************************************)
EXTENDS Startup, TLAPS

-----------------------------------------------------------------------------
(* The invariant: what each stage may rely on *)

\* The stages of migrate that come after a given one.
FromCanonical == {"canonical", "universal", "perArtifact", "snapshot", "verify", "up"}
FromUniversal == FromCanonical \ {"canonical"}
FromPerArtifact == FromUniversal \ {"universal"}
FromSnapshot == FromPerArtifact \ {"perArtifact"}
BeforeColumns == {"down", "tables", "columns"}
FromItemDate == {"itemDate", "versionDate", "rename"} \cup FromCanonical

ShapeInv ==
    /\ TypeOK
    /\ stage # "down" => pos \in 1 .. Len(Renamed)
    /\ \E d \in FormerDatabase :
          found = [type |-> d.type, item |-> d.item, versions |-> d.versions,
                   artifacts |-> d.artifacts, platforms |-> d.platforms,
                   downloads |-> d.downloads]

\* Columns are added before any statement names them.
ColumnsInv ==
    /\ stage = "columns" => \A i \in 1 .. pos - 1 : Added[i] \in columns
    /\ stage \notin BeforeColumns => \A i \in 1 .. Len(Added) : Added[i] \in columns

\* The type a component has today.
Today(type) == IF type = SandboxType THEN "sandbox-image" ELSE type

(* Tables are renamed one after the other, and all of them before their rows are
   merged.  Without a crash the renaming is never left half done. *)
KindInv ==
    /\ \A t \in Tables : kind[t] \in {found.type, Today(found.type)}
    /\ stage = "rename" => \A i \in 1 .. pos - 1 : kind[Renamed[i]] = Today(found.type)
    /\ stage \in FromCanonical => \A t \in Tables : kind[t] = Today(found.type)
    /\ crashes = 0 /\ stage # "rename" => \A t \in Tables : kind[t] = kind["items"]

\* Stored versions without a mark.
Unmarked(s) == s.mark = ""

\* Rows of s come from those of t; there: the stored versions with such a row.
Chosen(there, s, t) ==
    /\ t \in Stored /\ t.base = s.base
    /\ (\E u \in there : u.base = s.base) => t \in there
    /\ s \in there => t = s

Rows(table, none) == {s \in Stored : table[s] # none}
FoundReleases == {s \in Stored : found.versions[s].content # 0}
FoundFiles(p) == {s \in Stored : found.artifacts[s][p] # 0}
FoundPlatforms(p) == {s \in Stored : found.platforms[s][p] # 0}

\* A creator is never changed, and only filled in with the metadata's.
CreatorOf(s, t) ==
    \/ versions[s].creator = found.versions[t].creator
    \/ /\ found.versions[t].creator = Nobody /\ found.item.creator = Nobody
       /\ versions[s].creator = found.item.owner

\* The rows are those found, but for creators and dates.
Original ==
    /\ item.latest = found.item.latest
    /\ \A s \in Stored :
          /\ versions[s].content = found.versions[s].content
          /\ versions[s].snapshot = found.versions[s].snapshot
          /\ CreatorOf(s, s)
    /\ artifacts = found.artifacts
    /\ platforms = found.platforms
    /\ downloads = found.downloads

\* The snapshot that migrate makes, of a release that has its platform row.
Made(s) ==
    /\ s = item.latest
    /\ platforms[s][Universal] # 0
    /\ versions[s].snapshot = [content |-> item.content, tags |-> TRUE,
                               platform |-> platforms[s][Universal]]

ReleaseKept(s) ==
    \E t \in Stored :
        /\ Chosen(FoundReleases, s, t)
        /\ versions[s].content = found.versions[t].content
        /\ versions[s].snapshot = found.versions[t].snapshot \/ Made(s)
        /\ CreatorOf(s, t)

FileKept(s, p) ==
    \E t \in Stored : /\ Chosen(FoundFiles(p), s, t)
                      /\ artifacts[s][p] = found.artifacts[t][p]

\* A row of version_platforms may also be filled in, with its release's contents.
PlatformKept(s, p) ==
    \E t \in Stored :
        /\ Chosen(FoundPlatforms(p), s, t)
        /\ \/ platforms[s][p] = found.platforms[t][p]
           \/ /\ found.platforms[t][p] = 0
              /\ p = Universal \/ artifacts[s][p] # 0
              /\ platforms[s][p] = versions[s].content

\* Every marked row is gone, and every other one is the one kept, or filled in.
Canonicalized ==
    /\ \A t \in Tables : kind[t] = Today(found.type)
    /\ item.latest = Plain(found.item.latest)
    /\ \A s \in Stored : ~Unmarked(s) =>
          /\ versions[s] = None /\ downloads[s] = 0
          /\ \A p \in Platforms : artifacts[s][p] = 0 /\ platforms[s][p] = 0
    /\ \A s \in Stored : Unmarked(s) =>
          /\ ReleaseKept(s)
          /\ downloads[s] = Total(found.downloads, s.base)
          /\ \A p \in Platforms : FileKept(s, p) /\ PlatformKept(s, p)

RowsInv ==
    /\ item.content = found.item.content /\ item.owner = found.item.owner
    /\ Original \/ Canonicalized
    /\ stage \in FromUniversal => Canonicalized
    /\ stage \in FromPerArtifact =>
          \A s \in Stored : platforms[s][Universal] = 0 => versions[s].content = 0
    /\ stage \in FromSnapshot => \A s \in Stored, p \in Platforms :
          platforms[s][p] = 0 /\ artifacts[s][p] # 0 => versions[s].content = 0

AllCreated == \A s \in Stored : versions[s].creator = Nobody => versions[s].content = 0

(* The item's creator is filled in just before its releases': only a crash in
   between parts the two. *)
CreatorsInv ==
    /\ \/ item.creator = found.item.creator
       \/ found.item.creator = Nobody /\ item.creator = found.item.owner
    /\ stage = "versionCreator" =>
          found.item.creator = Nobody /\ item.creator = found.item.owner /\ item.creator # Nobody
    /\ crashes = 0 /\ found.item.creator = Nobody /\ found.item.owner # Nobody =>
          /\ stage \in FromItemDate => AllCreated
          /\ stage \in BeforeColumns \cup {"index", "itemCreator"} =>
                item.creator = Nobody \/ AllCreated

\* What the last check finds.
SnapshotInv ==
    item.content # 0 /\ (stage = "up" \/ (stage = "verify" /\ CurrentFound)) =>
        versions[item.latest].snapshot.content # 0

StartupInv ==
    ShapeInv /\ ColumnsInv /\ KindInv /\ RowsInv /\ CreatorsInv /\ SnapshotInv

-----------------------------------------------------------------------------
(* Lists and columns *)

LEMMA RenamedTables ==
    /\ Len(Renamed) = 7
    /\ Tables = {"items", "versions", "artifacts", "version_platforms", "tags",
                 "download_events", "favorite_items"}
    /\ \A i \in 1 .. 7 : Renamed[i] \in Tables
    /\ \A t \in Tables : \E i \in 1 .. 7 : Renamed[i] = t
<1>1. /\ Len(Renamed) = 7 /\ DOMAIN Renamed = 1 .. 7
      /\ Renamed[1] = "items" /\ Renamed[2] = "versions" /\ Renamed[3] = "artifacts"
      /\ Renamed[4] = "version_platforms" /\ Renamed[5] = "tags"
      /\ Renamed[6] = "download_events" /\ Renamed[7] = "favorite_items"
    BY DEF Renamed
<1>2. \A i \in 1 .. 7 : i = 1 \/ i = 2 \/ i = 3 \/ i = 4 \/ i = 5 \/ i = 6 \/ i = 7
    OBVIOUS
<1>3. Tables = {Renamed[i] : i \in 1 .. 7}
    BY <1>1 DEF Tables
<1>4. Tables = {"items", "versions", "artifacts", "version_platforms", "tags",
                "download_events", "favorite_items"}
    BY <1>1, <1>2, <1>3
<1> QED
    BY <1>1, <1>3, <1>4

\* Everything a statement names is among the columns added.
LEMMA AddedColumns ==
    /\ Len(Added) = 7
    /\ \A i \in 1 .. 7 : Added[i] \in Columns
    /\ \A s \in Stages : \A c \in Needs(s) : \E i \in 1 .. 7 : Added[i] = c
    /\ \A s \in BeforeColumns : Needs(s) = {}
<1>1. /\ Len(Added) = 7
      /\ Added[1] = <<"items", "creator_id">> /\ Added[2] = <<"items", "metadata_json">>
      /\ Added[3] = <<"items", "submitted_at">> /\ Added[4] = <<"versions", "metadata_json">>
      /\ Added[5] = <<"versions", "creator_id">> /\ Added[6] = <<"versions", "snapshot_json">>
      /\ Added[7] = <<"versions", "submitted_at">>
    BY DEF Added
<1>2. \A i \in 1 .. 7 : i = 1 \/ i = 2 \/ i = 3 \/ i = 4 \/ i = 5 \/ i = 6 \/ i = 7
    OBVIOUS
<1>3. \A i \in 1 .. 7 : Added[i] \in Columns
    BY <1>1, <1>2 DEF Columns
<1>4. \A s \in Stages : Needs(s) \subseteq
          {Added[1], Added[2], Added[3], Added[4], Added[5], Added[6], Added[7]}
    BY <1>1 DEF Needs, Stages
<1>5. \A s \in BeforeColumns : Needs(s) = {}
    BY DEF Needs, BeforeColumns
<1>6. ASSUME NEW s \in Stages, NEW c \in Needs(s)
      PROVE  \E i \in 1 .. 7 : Added[i] = c
  <2>1. c = Added[1] \/ c = Added[2] \/ c = Added[3] \/ c = Added[4] \/ c = Added[5]
        \/ c = Added[6] \/ c = Added[7]
    BY <1>4, <1>6
  <2> QED
    BY <2>1
<1> QED
    BY <1>1, <1>3, <1>5, <1>6

\* So no statement ever fails for a column.
LEMMA ColumnsThere ==
    ASSUME TypeOK, ColumnsInv
    PROVE  Needs(stage) \subseteq columns
<1>1. CASE stage \in BeforeColumns
    BY <1>1, AddedColumns
<1>2. CASE stage \notin BeforeColumns
    BY <1>2, AddedColumns DEF TypeOK, ColumnsInv
<1> QED
    BY <1>1, <1>2

-----------------------------------------------------------------------------
(* What canonicalizeStoredVersions keeps *)

\* Two stored versions without a mark and of the same base are the same.
LEMMA UnmarkedSame ==
    ASSUME NEW s \in Stored, NEW t \in Stored, Unmarked(s), Unmarked(t), s.base = t.base
    PROVE  s = t
<1>1. s = [mark |-> s.mark, base |-> s.base] /\ t = [mark |-> t.mark, base |-> t.base]
    BY DEF Stored
<1> QED
    BY <1>1 DEF Unmarked

\* A marked row goes; of the others that one is kept that Chosen describes.
LEMMA CanonicalRow ==
    ASSUME NEW table, NEW none, NEW first, NEW s \in Stored
    PROVE  /\ ~Unmarked(s) => Canonical(table, first, none)[s] = none
           /\ Unmarked(s) => \E t \in Stored : /\ Chosen(Rows(table, none), s, t)
                                               /\ Canonical(table, first, none)[s] = table[t]
<1> DEFINE spelled == {t \in Stored : t.base = s.base /\ table[t] # none}
           unmarked == {t \in spelled : Unmarked(t)}
           earlier == {t \in spelled : t.mark = first[s.base]}
           kept == Canonical(table, first, none)[s]
<1>1. kept = IF ~Unmarked(s) THEN none
             ELSE IF unmarked # {} THEN table[s]
             ELSE IF earlier # {} THEN table[CHOOSE t \in earlier : TRUE]
             ELSE IF spelled # {} THEN table[CHOOSE t \in spelled : TRUE]
             ELSE none
    BY DEF Canonical, Unmarked
<1>2. ASSUME Unmarked(s), unmarked # {}
      PROVE  s \in Rows(table, none)
    BY <1>2, UnmarkedSame DEF Rows
<1>3. ASSUME Unmarked(s), unmarked = {}
      PROVE  s \notin Rows(table, none)
    BY <1>3 DEF Rows
<1>4. \A t \in spelled : unmarked = {} /\ Unmarked(s) => Chosen(Rows(table, none), s, t)
    BY <1>3 DEF Chosen, Rows
<1>5. ASSUME Unmarked(s)
      PROVE  \E t \in Stored : Chosen(Rows(table, none), s, t) /\ kept = table[t]
  <2>1. CASE unmarked # {}
    <3>1. kept = table[s] /\ Chosen(Rows(table, none), s, s)
      BY <1>1, <1>2, <1>5, <2>1 DEF Chosen
    <3> QED
      BY <3>1
  <2>2. CASE unmarked = {} /\ spelled # {}
    <3>1. PICK t \in spelled : kept = table[t]
      <4>1. earlier # {} => (CHOOSE t \in earlier : TRUE) \in earlier
        OBVIOUS
      <4>2. (CHOOSE t \in spelled : TRUE) \in spelled
        BY <2>2
      <4>3. earlier \subseteq spelled
        OBVIOUS
      <4> HIDE DEF kept, spelled, unmarked, earlier
      <4> QED
        BY <1>1, <1>5, <2>2, <4>1, <4>2, <4>3
    <3> QED
      BY <1>4, <1>5, <2>2, <3>1
  <2>3. CASE spelled = {}
    <3>1. kept = none /\ table[s] = none
      BY <1>1, <1>5, <2>3
    <3>2. Chosen(Rows(table, none), s, s)
      BY <2>3 DEF Chosen, Rows
    <3> QED
      BY <3>1, <3>2
  <2> QED
    BY <2>1, <2>2, <2>3
<1> QED
    BY <1>1, <1>5

\* A table without marked rows stays as it is.
LEMMA CanonicalAgain ==
    ASSUME NEW table, NEW none, NEW first, NEW s \in Stored,
           \A t \in Stored : ~Unmarked(t) => table[t] = none
    PROVE  Canonical(table, first, none)[s] = table[s]
<1>1. CASE ~Unmarked(s)
    BY <1>1, CanonicalRow
<1>2. CASE Unmarked(s)
  <2>1. PICK t \in Stored : /\ Chosen(Rows(table, none), s, t)
                            /\ Canonical(table, first, none)[s] = table[t]
    BY <1>2, CanonicalRow
  <2>2. CASE s \in Rows(table, none)
    BY <2>1, <2>2 DEF Chosen
  <2>3. CASE s \notin Rows(table, none)
    <3>1. table[s] = none
      BY <2>3 DEF Rows
    <3>2. Unmarked(t) => t = s
      BY <1>2, <2>1, UnmarkedSame DEF Chosen
    <3> QED
      BY <2>1, <3>1, <3>2
  <2> QED
    BY <2>2, <2>3
<1> QED
    BY <1>1, <1>2

LEMMA CanonicalType ==
    ASSUME NEW D, NEW table \in [Stored -> D], NEW none \in D, NEW first
    PROVE  Canonical(table, first, none) \in [Stored -> D]
<1>1. \A s \in Stored : Canonical(table, first, none)[s] \in D
  <2> TAKE s \in Stored
  <2> DEFINE kept == Canonical(table, first, none)[s]
  <2>1. CASE ~Unmarked(s)
    <3>1. kept = none
      BY <2>1, CanonicalRow
    <3> QED
      BY <3>1
  <2>2. CASE Unmarked(s)
    <3>1. PICK t \in Stored : kept = table[t]
      BY <2>2, CanonicalRow
    <3> QED
      BY <3>1
  <2> QED
    BY <2>1, <2>2
<1> QED
    BY <1>1 DEF Canonical

LEMMA PerPlatformColumns ==
    ASSUME NEW table \in PerPlatform, NEW first
    PROVE  /\ CanonicalPerPlatform(table, first) \in PerPlatform
           /\ \A s \in Stored, p \in Platforms :
                 CanonicalPerPlatform(table, first)[s][p] = Canonical(Column(table, p), first[p], 0)[s]
<1>1. \A p \in Platforms : Canonical(Column(table, p), first[p], 0) \in [Stored -> Nat]
  <2> TAKE p \in Platforms
  <2>1. Column(table, p) \in [Stored -> Nat]
    BY DEF Column, PerPlatform
  <2> QED
    BY <2>1, CanonicalType
<1>2. CanonicalPerPlatform(table, first)
          = [s \in Stored |-> [p \in Platforms |-> Canonical(Column(table, p), first[p], 0)[s]]]
    BY DEF CanonicalPerPlatform, Column
<1> QED
    BY <1>1, <1>2 DEF PerPlatform

-----------------------------------------------------------------------------
(* Types *)

LEMMA VersionTypes ==
    /\ None \in Version
    /\ None.content = 0
    /\ \A row \in Version :
          /\ row.content \in Nat /\ row.creator \in Users /\ row.submitted \in BOOLEAN
          /\ row.snapshot \in Snapshot
          /\ row.content = 0 => row = None
<1>1. NoSnapshot \in Snapshot
    BY DEF NoSnapshot, Snapshot
<1>2. None \in Version /\ None.content = 0
    BY <1>1, StartupAssumption DEF None, Version
<1> QED
    BY <1>2 DEF Version

\* The updates that migrate makes to a release, and what they leave alone.
LEMMA VersionUpdates ==
    ASSUME NEW row \in Version, row.content # 0,
           NEW creator \in Users, NEW snapshot \in Snapshot
    PROVE  /\ [row EXCEPT !.creator = creator] \in Version
           /\ [row EXCEPT !.creator = creator].creator = creator
           /\ [row EXCEPT !.creator = creator].content = row.content
           /\ [row EXCEPT !.creator = creator].snapshot = row.snapshot
           /\ [row EXCEPT !.snapshot = snapshot] \in Version
           /\ [row EXCEPT !.snapshot = snapshot].snapshot = snapshot
           /\ [row EXCEPT !.snapshot = snapshot].content = row.content
           /\ [row EXCEPT !.snapshot = snapshot].creator = row.creator
<1> DEFINE Shape == [content: Nat, creator: Users, submitted: BOOLEAN, snapshot: Snapshot]
<1>1. row \in Shape
    BY DEF Version
<1>2. [row EXCEPT !.creator = creator] \in Shape /\ [row EXCEPT !.snapshot = snapshot] \in Shape
    BY <1>1
<1>3. /\ [row EXCEPT !.creator = creator].creator = creator
      /\ [row EXCEPT !.creator = creator].content = row.content
      /\ [row EXCEPT !.creator = creator].snapshot = row.snapshot
    BY <1>1
<1>4. /\ [row EXCEPT !.snapshot = snapshot].snapshot = snapshot
      /\ [row EXCEPT !.snapshot = snapshot].content = row.content
      /\ [row EXCEPT !.snapshot = snapshot].creator = row.creator
    BY <1>1
<1> QED
    BY <1>2, <1>3, <1>4 DEF Version

LEMMA VersionDates ==
    ASSUME NEW row \in Version
    PROVE  /\ [row EXCEPT !.submitted = (row.content # 0)] \in Version
           /\ [row EXCEPT !.submitted = (row.content # 0)].content = row.content
           /\ [row EXCEPT !.submitted = (row.content # 0)].creator = row.creator
           /\ [row EXCEPT !.submitted = (row.content # 0)].snapshot = row.snapshot
<1> DEFINE there == row.content # 0
           dated == [row EXCEPT !.submitted = there]
           Shape == [content: Nat, creator: Users, submitted: BOOLEAN, snapshot: Snapshot]
<1>1. row \in Shape /\ there \in BOOLEAN
    BY DEF Version
<1>2. dated \in Shape /\ dated.content = row.content /\ dated.creator = row.creator
      /\ dated.snapshot = row.snapshot
    BY <1>1
<1>3. ASSUME row.content = 0
      PROVE  dated = None
  <2>1. row = None /\ there = FALSE /\ row.submitted = FALSE
    BY <1>3, VersionTypes DEF None
  <2>2. dated = [row EXCEPT !.submitted = row.submitted]
    BY <2>1
  <2> HIDE DEF dated, there
  <2>3. [row EXCEPT !.submitted = row.submitted] = row
    BY <1>1
  <2> QED
    BY <2>1, <2>2, <2>3
<1> QED
    BY <1>2, <1>3 DEF Version

LEMMA FoundTypes ==
    ASSUME ShapeInv
    PROVE  /\ found.type \in Types /\ found.item \in Item
           /\ found.versions \in [Stored -> Version]
           /\ found.artifacts \in PerPlatform /\ found.platforms \in PerPlatform
           /\ found.downloads \in [Stored -> Nat]
           /\ found.item.content = 0 => \A s \in Stored : found.versions[s] = None
<1>1. PICK d \in FormerDatabase :
          found = [type |-> d.type, item |-> d.item, versions |-> d.versions,
                   artifacts |-> d.artifacts, platforms |-> d.platforms,
                   downloads |-> d.downloads]
    BY DEF ShapeInv
<1>2. /\ d.type \in Types /\ d.item \in Item /\ d.versions \in [Stored -> Version]
      /\ d.artifacts \in PerPlatform /\ d.platforms \in PerPlatform
      /\ d.downloads \in [Stored -> Nat]
      /\ d.item.content = 0 => \A s \in Stored : d.versions[s] = None
    BY DEF FormerDatabase
<1> QED
    BY <1>1, <1>2

LEMMA FoundKept ==
    ASSUME ShapeInv, UNCHANGED found, TypeOK', stage' # "down" => pos' \in 1 .. Len(Renamed)
    PROVE  ShapeInv'
BY DEF ShapeInv

-----------------------------------------------------------------------------
(* Steps that leave the rows alone *)

Quiet == UNCHANGED <<kind, rows, found>>

LEMMA RowsUnchanged ==
    ASSUME Quiet
    PROVE  /\ Original => Original'
           /\ Canonicalized => Canonicalized'
           /\ AllCreated => AllCreated'
           /\ CurrentFound' => CurrentFound
<1>1. /\ kind' = kind /\ item' = item /\ versions' = versions /\ artifacts' = artifacts
      /\ platforms' = platforms /\ downloads' = downloads /\ found' = found
    BY DEF Quiet, rows
<1>2. Original => Original'
    BY <1>1 DEF Original, CreatorOf
<1>3. Canonicalized => Canonicalized'
  <2>1. ASSUME NEW s \in Stored
        PROVE  ReleaseKept(s) => ReleaseKept(s)'
    BY <1>1 DEF ReleaseKept, Chosen, FoundReleases, Made, CreatorOf
  <2>2. ASSUME NEW s \in Stored, NEW p \in Platforms
        PROVE  /\ FileKept(s, p) => FileKept(s, p)'
               /\ PlatformKept(s, p) => PlatformKept(s, p)'
    BY <1>1 DEF FileKept, PlatformKept, Chosen, FoundFiles, FoundPlatforms
  <2> QED
    BY <1>1, <2>1, <2>2 DEF Canonicalized, Total
<1>4. AllCreated => AllCreated'
    BY <1>1 DEF AllCreated
<1>5. CurrentFound' => CurrentFound
    BY <1>1 DEF CurrentFound
<1> QED
    BY <1>2, <1>3, <1>4, <1>5

QuietStep ==
    \/ Start \/ Stop \/ GiveUp \/ Crash \/ CreateTables \/ EnsureColumns \/ CreateIndex \/ Serve
    \/ UNCHANGED vars

\* main gives up at the last check only.
LEMMA GivesUpAtTheEnd ==
    ASSUME TypeOK, ColumnsInv, GiveUp
    PROVE  stage = "verify"
BY ColumnsThere DEF GiveUp

\* Where such a step leads.
LEMMA QuietMoves ==
    ASSUME ShapeInv, ColumnsInv, QuietStep
    PROVE  /\ Quiet
           /\ \/ stage' = "down" /\ crashes' # 0
              \/ stage' = "down" /\ crashes' = crashes /\ stage \in {"verify", "up"}
              \/ /\ stage \in BeforeColumns \cup {"index"} /\ crashes' = crashes
                 /\ stage' \in {"tables", "columns", "index", "itemCreator"}
              \/ /\ stage = "verify" /\ stage' = "up" /\ crashes' = crashes
                 /\ item.content # 0 => versions[item.latest].snapshot.content # 0
              \/ stage' = stage /\ crashes' = crashes /\ pos' = pos
<1>1. CASE Start
    BY <1>1 DEF Start, Then, Quiet, BeforeColumns
<1>2. CASE Stop
    BY <1>2 DEF Stop, Quiet
<1>3. CASE GiveUp
  <2>1. stage = "verify"
    BY <1>3, GivesUpAtTheEnd DEF ShapeInv
  <2> QED
    BY <1>3, <2>1 DEF GiveUp, Quiet
<1>4. CASE Crash
    BY <1>4 DEF Crash, Quiet, ShapeInv, TypeOK
<1>5. CASE CreateTables
    BY <1>5 DEF CreateTables, At, Walk, Then, Quiet, BeforeColumns
<1>6. CASE EnsureColumns
    BY <1>6 DEF EnsureColumns, At, Walk, Then, Quiet, BeforeColumns
<1>7. CASE CreateIndex
    BY <1>7 DEF CreateIndex, At, Then, Quiet
<1>8. CASE Serve
    BY <1>8 DEF Serve, Then, Quiet
<1>9. CASE UNCHANGED vars
    BY <1>9 DEF vars, process, rows, Quiet
<1> QED
    BY <1>1, <1>2, <1>3, <1>4, <1>5, <1>6, <1>7, <1>8, <1>9 DEF QuietStep

LEMMA QuietShape ==
    ASSUME ShapeInv, QuietStep
    PROVE  ShapeInv'
<1>1. /\ TypeOK /\ (stage # "down" => pos \in 1 .. 7) /\ crashes \in 0 .. MaxCrashes
      /\ Len(Renamed) = 7 /\ Len(Added) = 7
    BY RenamedTables, AddedColumns DEF ShapeInv, TypeOK
<1>2. /\ UNCHANGED <<kind, rows, found>>
      /\ stage' \in Stages /\ pos' \in 0 .. 7 /\ crashes' \in 0 .. MaxCrashes
      /\ stage' # "down" => pos' \in 1 .. 7
      /\ tables' \subseteq Tables /\ columns' \subseteq Columns
  <2>1. CASE Start
    BY <1>1, <2>1 DEF Start, Then, schema, TypeOK, Stages
  <2>2. CASE Stop
    BY <1>1, <2>2 DEF Stop, schema, TypeOK, Stages
  <2>3. CASE GiveUp
    BY <1>1, <2>3 DEF GiveUp, schema, TypeOK, Stages
  <2>4. CASE Crash
    <3>1. crashes' \in 0 .. MaxCrashes
      BY <1>1, <2>4, StartupAssumption DEF Crash
    <3> QED
      BY <1>1, <2>4, <3>1 DEF Crash, schema, TypeOK, Stages
  <2>5. CASE CreateTables
    <3>1. stage = "tables" /\ pos \in 1 .. 7 /\ Renamed[pos] \in Tables
      BY <1>1, <2>5, RenamedTables DEF CreateTables, At
    <3>2. Created \subseteq Columns
      BY DEF Created, Columns
    <3>3. tables' \subseteq Tables /\ columns' \subseteq Columns
      BY <1>1, <2>5, <3>1, <3>2 DEF CreateTables, TypeOK
    <3> QED
      BY <1>1, <2>5, <3>1, <3>3 DEF CreateTables, Walk, Then, Stages
  <2>6. CASE EnsureColumns
    <3>1. stage = "columns" /\ pos \in 1 .. 7 /\ Added[pos] \in Columns
      BY <1>1, <2>6, AddedColumns DEF EnsureColumns, At
    <3>2. tables' \subseteq Tables /\ columns' \subseteq Columns
      BY <1>1, <2>6, <3>1 DEF EnsureColumns, TypeOK
    <3> QED
      BY <1>1, <2>6, <3>1, <3>2 DEF EnsureColumns, Walk, Then, Stages
  <2>7. CASE CreateIndex
    BY <1>1, <2>7 DEF CreateIndex, Then, schema, TypeOK, Stages
  <2>8. CASE Serve
    BY <1>1, <2>8 DEF Serve, Then, schema, TypeOK, Stages
  <2>9. CASE UNCHANGED vars
    BY <1>1, <2>9 DEF vars, process, schema, TypeOK
  <2> QED
    BY <2>1, <2>2, <2>3, <2>4, <2>5, <2>6, <2>7, <2>8, <2>9 DEF QuietStep
<1>3. TypeOK'
    BY <1>1, <1>2 DEF TypeOK, rows
<1> QED
    BY <1>1, <1>2, <1>3, FoundKept

LEMMA QuietColumns ==
    ASSUME ShapeInv, ColumnsInv, QuietStep
    PROVE  ColumnsInv'
<1>1. Len(Added) = 7 /\ (stage # "down" => pos \in 1 .. 7)
    BY RenamedTables, AddedColumns DEF ShapeInv
<1>2. CASE CreateTables
    BY <1>2 DEF CreateTables, At, Walk, Then, ColumnsInv, BeforeColumns
<1>3. CASE EnsureColumns
  <2>1. /\ stage = "columns" /\ pos \in 1 .. 7 /\ columns' = columns \cup {Added[pos]}
        /\ \A i \in 1 .. pos - 1 : Added[i] \in columns
    BY <1>1, <1>3 DEF EnsureColumns, At, ColumnsInv
  <2>2. \A i \in 1 .. pos : Added[i] \in columns'
    BY <2>1
  <2>3. CASE pos < 7
    <3>1. stage' = "columns" /\ pos' - 1 = pos
      BY <1>1, <1>3, <2>1, <2>3 DEF EnsureColumns, Walk
    <3> QED
      BY <2>2, <3>1 DEF ColumnsInv, BeforeColumns
  <2>4. CASE pos = 7
    <3>1. stage' = "index"
      BY <1>1, <1>3, <2>1, <2>4 DEF EnsureColumns, Walk, Then
    <3> QED
      BY <1>1, <2>2, <2>4, <3>1 DEF ColumnsInv
  <2> QED
    BY <2>1, <2>3, <2>4
<1>4. CASE CreateIndex
    BY <1>4 DEF CreateIndex, At, Then, schema, ColumnsInv, BeforeColumns
<1>5. CASE Serve
    BY <1>5 DEF Serve, Then, schema, ColumnsInv, BeforeColumns
<1>6. CASE Start \/ Stop \/ GiveUp \/ Crash
    BY <1>6 DEF Start, Stop, GiveUp, Crash, Then, ColumnsInv, BeforeColumns
<1>7. CASE UNCHANGED vars
    BY <1>7 DEF vars, process, schema, ColumnsInv
<1> QED
    BY <1>2, <1>3, <1>4, <1>5, <1>6, <1>7 DEF QuietStep

LEMMA QuietNext ==
    ASSUME StartupInv, QuietStep
    PROVE  StartupInv'
<1> USE DEF StartupInv
<1>1. ShapeInv' /\ ColumnsInv' /\ Quiet
    BY QuietShape, QuietColumns, QuietMoves
<1>2. /\ kind' = kind /\ item' = item /\ versions' = versions /\ artifacts' = artifacts
      /\ platforms' = platforms /\ found' = found
    BY <1>1 DEF Quiet, rows
<1> DEFINE Moved ==
              \/ stage' = "down" /\ crashes' # 0
              \/ stage' = "down" /\ crashes' = crashes /\ stage \in {"verify", "up"}
              \/ /\ stage \in BeforeColumns \cup {"index"} /\ crashes' = crashes
                 /\ stage' \in {"tables", "columns", "index", "itemCreator"}
              \/ /\ stage = "verify" /\ stage' = "up" /\ crashes' = crashes
                 /\ item.content # 0 => versions[item.latest].snapshot.content # 0
              \/ stage' = stage /\ crashes' = crashes /\ pos' = pos
<1>3. Moved
    BY QuietMoves
<1> USE DEF FromItemDate, FromCanonical, FromUniversal, FromPerArtifact, FromSnapshot,
            BeforeColumns
<1>4. KindInv'
    BY <1>2, <1>3 DEF KindInv
<1>5. RowsInv'
  <2>1. (Original \/ Canonicalized)' /\ (Canonicalized => Canonicalized')
    BY <1>1, RowsUnchanged DEF RowsInv
  <2>2. /\ stage' \in FromUniversal => stage \in FromUniversal
        /\ stage' \in FromPerArtifact => stage \in FromPerArtifact
        /\ stage' \in FromSnapshot => stage \in FromSnapshot
    BY <1>3
  <2> HIDE DEF Moved
  <2> QED
    BY <1>2, <2>1, <2>2 DEF RowsInv
<1>6. CreatorsInv'
    BY <1>1, <1>2, <1>3, RowsUnchanged DEF CreatorsInv
<1>7. SnapshotInv'
    BY <1>1, <1>2, <1>3, RowsUnchanged DEF SnapshotInv
<1> QED
    BY <1>1, <1>4, <1>5, <1>6, <1>7

-----------------------------------------------------------------------------
(* Creators and dates *)

\* Steps between columns and the merging of rows leave all but these alone.
LEMMA EarlyRows ==
    ASSUME StartupInv,
           UNCHANGED <<kind, artifacts, platforms, downloads, found>>,
           item'.latest = item.latest, item'.content = item.content,
           item'.owner = item.owner,
           versions' \in [Stored -> Version],
           \A s \in Stored : /\ versions'[s].content = versions[s].content
                             /\ versions'[s].snapshot = versions[s].snapshot
                             /\ versions[s].content # 0 =>
                                   \A t \in Stored : CreatorOf(s, t) => CreatorOf(s, t)',
           stage' \notin FromUniversal
    PROVE  RowsInv'
<1> USE DEF StartupInv
<1>1. /\ versions \in [Stored -> Version] /\ found.versions \in [Stored -> Version]
    BY FoundTypes DEF ShapeInv, TypeOK
<1>2. \A s \in Stored : versions[s].content = 0 => versions'[s] = versions[s]
    BY <1>1, VersionTypes
<1>3. \A s, t \in Stored : CreatorOf(s, t) => CreatorOf(s, t)'
    BY <1>2 DEF CreatorOf
<1>4. Original => Original'
    BY <1>3 DEF Original
<1>5. ASSUME Canonicalized
      PROVE  Canonicalized'
  <2>1. ASSUME NEW s \in Stored, ReleaseKept(s)
        PROVE  ReleaseKept(s)'
    <3>1. Made(s) => Made(s)'
      BY DEF Made
    <3> QED
      BY <1>3, <2>1, <3>1 DEF ReleaseKept, Chosen, FoundReleases
  <2>2. ASSUME NEW s \in Stored, NEW p \in Platforms
        PROVE  /\ FileKept(s, p) => FileKept(s, p)'
               /\ PlatformKept(s, p) => PlatformKept(s, p)'
    BY DEF FileKept, PlatformKept, Chosen, FoundFiles, FoundPlatforms
  <2>3. \A s \in Stored : ~Unmarked(s) => versions'[s] = None
    BY <1>2, <1>5, VersionTypes DEF Canonicalized
  <2> QED
    BY <1>5, <2>1, <2>2, <2>3 DEF Canonicalized, Total
<1> QED
  BY <1>4, <1>5 DEF RowsInv, FromPerArtifact, FromSnapshot

\* A component without a row has no releases.
LEMMA NoItemNoReleases ==
    ASSUME ShapeInv, RowsInv, item.content = 0, NEW s \in Stored
    PROVE  versions[s].content = 0
<1>1. \A t \in Stored : found.versions[t].content = 0
    BY FoundTypes, VersionTypes DEF RowsInv
<1>2. CASE Original
    BY <1>1, <1>2 DEF Original
<1>3. CASE Canonicalized
    BY <1>1, <1>3, VersionTypes DEF Canonicalized, ReleaseKept
<1> QED
    BY <1>2, <1>3 DEF RowsInv

\* Statements after the columns were added.
LEMMA LaterShape ==
    ASSUME StartupInv, UNCHANGED <<schema, found, crashes>>, stage \notin BeforeColumns,
           stage' \in Stages \ BeforeColumns, pos' \in 1 .. 7,
           kind' \in [Tables -> Types], item' \in Item, versions' \in [Stored -> Version],
           artifacts' \in PerPlatform, platforms' \in PerPlatform,
           downloads' \in [Stored -> Nat]
    PROVE  ShapeInv' /\ ColumnsInv'
<1>1. TypeOK'
    BY RenamedTables DEF StartupInv, ShapeInv, TypeOK, schema
<1>2. ShapeInv'
    BY <1>1, FoundKept, RenamedTables DEF StartupInv
<1>3. ColumnsInv'
    BY DEF StartupInv, ColumnsInv, schema, BeforeColumns
<1> QED
    BY <1>2, <1>3

\* What such statements find.
LEMMA StoreTypes ==
    ASSUME StartupInv
    PROVE  /\ stage \in Stages /\ kind \in [Tables -> Types] /\ item \in Item
           /\ versions \in [Stored -> Version] /\ artifacts \in PerPlatform
           /\ platforms \in PerPlatform /\ downloads \in [Stored -> Nat] /\ crashes \in Nat
BY StartupAssumption DEF StartupInv, ShapeInv, TypeOK

LEMMA KindKept ==
    ASSUME KindInv, UNCHANGED <<kind, found, crashes>>, pos' = 1, stage # "rename",
           \/ stage' \notin FromCanonical
           \/ stage \in FromCanonical
    PROVE  KindInv'
BY DEF KindInv

LEMMA ItemCreatorNext ==
    ASSUME StartupInv, BackfillItemCreator
    PROVE  StartupInv'
<1> USE DEF StartupInv
<1>1. /\ stage = "itemCreator" /\ stage' \in {"versionCreator", "itemDate"} /\ pos' = 1
      /\ UNCHANGED <<kind, versions, artifacts, platforms, downloads, found, schema, crashes>>
    BY DEF BackfillItemCreator, At, Then
<1>2. /\ item' \in Item
      /\ item'.latest = item.latest /\ item'.content = item.content /\ item'.owner = item.owner
      /\ item' = item \/ item'.creator = item.owner
  <2>1. item \in Item
    BY StoreTypes
  <2>2. item' = item \/ item' = [item EXCEPT !.creator = item.owner]
    BY DEF BackfillItemCreator
  <2> QED
    BY <2>1, <2>2 DEF Item
<1>3. ShapeInv' /\ ColumnsInv'
    BY <1>1, <1>2, LaterShape, StoreTypes DEF BeforeColumns, Stages
<1>4. KindInv'
    BY <1>1, KindKept DEF FromCanonical
<1>5. RowsInv'
  <2>1. \A s, t \in Stored : CreatorOf(s, t) => CreatorOf(s, t)'
    BY <1>1 DEF CreatorOf
  <2> QED
    BY <1>1, <1>2, <2>1, EarlyRows, StoreTypes DEF FromUniversal, FromCanonical
<1>6. CreatorsInv'
  <2>1. AllCreated => AllCreated'
    BY <1>1 DEF AllCreated
  <2>2. item.owner = found.item.owner /\ item.content = found.item.content
    BY DEF RowsInv
  <2>3. CASE item.content # 0 /\ item.creator = Nobody /\ item.owner # Nobody
    <3>1. stage' = "versionCreator" /\ item'.creator = item.owner
      BY <2>3, StoreTypes DEF BackfillItemCreator, Then, Item
    <3>2. found.item.creator = Nobody
      BY <2>2, <2>3 DEF CreatorsInv
    <3> QED
      BY <1>1, <2>2, <2>3, <3>1, <3>2
      DEF CreatorsInv, FromItemDate, FromCanonical, BeforeColumns
  <2>4. CASE ~(item.content # 0 /\ item.creator = Nobody /\ item.owner # Nobody)
    <3>1. stage' = "itemDate" /\ item' = item
      BY <2>4 DEF BackfillItemCreator, Then
    <3>2. item.content = 0 => AllCreated
      BY NoItemNoReleases DEF AllCreated
    <3>3. crashes = 0 /\ found.item.creator = Nobody /\ found.item.owner # Nobody => AllCreated
      BY <1>1, <2>2, <2>4, <3>2 DEF CreatorsInv
    <3> QED
      BY <1>1, <2>1, <2>2, <3>1, <3>3 DEF CreatorsInv, BeforeColumns
  <2> QED
    BY <2>3, <2>4
<1>7. SnapshotInv'
    BY <1>1 DEF SnapshotInv
<1> QED
    BY <1>3, <1>4, <1>5, <1>6, <1>7

LEMMA VersionCreatorsNext ==
    ASSUME StartupInv, BackfillVersionCreators
    PROVE  StartupInv'
<1> USE DEF StartupInv
<1>1. /\ stage = "versionCreator" /\ stage' = "itemDate" /\ pos' = 1
      /\ UNCHANGED <<kind, item, artifacts, platforms, downloads, found, schema, crashes>>
    BY DEF BackfillVersionCreators, At, Then
<1>2. /\ item.creator = found.item.owner /\ found.item.creator = Nobody /\ item.creator # Nobody
      /\ item.creator \in Users
    BY <1>1, StoreTypes DEF CreatorsInv, Item
<1> DEFINE due(s) == Exists(s) /\ versions[s].creator = Nobody /\ kind["versions"] = kind["items"]
<1>3. /\ versions' \in [Stored -> Version]
      /\ \A s \in Stored : versions'[s] = IF due(s) THEN [versions[s] EXCEPT !.creator = item.creator]
                                                    ELSE versions[s]
  <2>1. versions' = [s \in Stored |-> IF due(s) THEN [versions[s] EXCEPT !.creator = item.creator]
                                                ELSE versions[s]]
    BY DEF BackfillVersionCreators
  <2>2. \A s \in Stored : due(s) => [versions[s] EXCEPT !.creator = item.creator] \in Version
    BY <1>2, VersionTypes, VersionUpdates, StoreTypes DEF Exists
  <2> HIDE DEF due
  <2> QED
    BY <2>1, <2>2, StoreTypes
<1>4. \A s \in Stored : /\ versions'[s].content = versions[s].content
                        /\ versions'[s].snapshot = versions[s].snapshot
                        /\ due(s) => versions'[s].creator = item.creator
                        /\ ~due(s) => versions'[s].creator = versions[s].creator
  <2> TAKE s \in Stored
  <2>1. versions[s] \in Version
    BY StoreTypes
  <2>2. CASE due(s)
    <3>1. /\ [versions[s] EXCEPT !.creator = item.creator].content = versions[s].content
          /\ [versions[s] EXCEPT !.creator = item.creator].snapshot = versions[s].snapshot
          /\ [versions[s] EXCEPT !.creator = item.creator].creator = item.creator
      BY <1>2, <2>1, <2>2, VersionTypes, VersionUpdates DEF Exists
    <3> HIDE DEF due
    <3> QED
      BY <1>3, <2>2, <3>1
  <2>3. CASE ~due(s)
    BY <1>3, <2>3
  <2> QED
    BY <2>2, <2>3
<1>5. ShapeInv' /\ ColumnsInv'
    BY <1>1, <1>3, LaterShape, StoreTypes DEF BeforeColumns, Stages
<1>6. KindInv'
    BY <1>1, KindKept DEF FromCanonical
<1>7. RowsInv'
  <2>1. \A s, t \in Stored : CreatorOf(s, t) => CreatorOf(s, t)'
    BY <1>1, <1>2, <1>4 DEF CreatorOf
  <2> HIDE DEF due
  <2> QED
    BY <1>1, <1>3, <1>4, <2>1, EarlyRows DEF FromUniversal, FromCanonical
<1>8. CreatorsInv'
  <2>1. crashes = 0 => kind["versions"] = kind["items"]
    BY <1>1, RenamedTables DEF KindInv
  <2>2. crashes = 0 => AllCreated'
    BY <1>2, <1>4, <2>1 DEF AllCreated, Exists
  <2> QED
    BY <1>1, <2>2 DEF CreatorsInv, BeforeColumns
<1>9. SnapshotInv'
    BY <1>1 DEF SnapshotInv
<1> QED
    BY <1>5, <1>6, <1>7, <1>8, <1>9

LEMMA ItemDateNext ==
    ASSUME StartupInv, DateItems
    PROVE  StartupInv'
<1> USE DEF StartupInv
<1>1. /\ stage = "itemDate" /\ stage' = "versionDate" /\ pos' = 1
      /\ UNCHANGED <<kind, versions, artifacts, platforms, downloads, found, schema, crashes>>
    BY DEF DateItems, At, Then
<1>2. /\ item' \in Item
      /\ item'.latest = item.latest /\ item'.content = item.content /\ item'.owner = item.owner
      /\ item'.creator = item.creator
  <2>1. item \in Item
    BY StoreTypes
  <2>2. item' = [item EXCEPT !.submitted = (item.content # 0)]
    BY DEF DateItems
  <2> QED
    BY <2>1, <2>2 DEF Item
<1>3. ShapeInv' /\ ColumnsInv'
    BY <1>1, <1>2, LaterShape, StoreTypes DEF BeforeColumns, Stages
<1>4. KindInv'
    BY <1>1, KindKept DEF FromCanonical
<1>5. RowsInv'
  <2>1. \A s, t \in Stored : CreatorOf(s, t) => CreatorOf(s, t)'
    BY <1>1 DEF CreatorOf
  <2> QED
    BY <1>1, <1>2, <2>1, EarlyRows, StoreTypes DEF FromUniversal, FromCanonical
<1>6. CreatorsInv'
    BY <1>1, <1>2 DEF CreatorsInv, AllCreated, FromItemDate, BeforeColumns
<1>7. SnapshotInv'
    BY <1>1 DEF SnapshotInv
<1> QED
    BY <1>3, <1>4, <1>5, <1>6, <1>7

LEMMA VersionDatesNext ==
    ASSUME StartupInv, DateVersions
    PROVE  StartupInv'
<1> USE DEF StartupInv
<1>1. /\ stage = "versionDate" /\ stage' = "rename" /\ pos' = 1
      /\ UNCHANGED <<kind, item, artifacts, platforms, downloads, found, schema, crashes>>
    BY DEF DateVersions, At, Then
<1>2. /\ versions' \in [Stored -> Version]
      /\ \A s \in Stored : /\ versions'[s].content = versions[s].content
                           /\ versions'[s].snapshot = versions[s].snapshot
                           /\ versions'[s].creator = versions[s].creator
  <2>1. versions' = [s \in Stored |-> [versions[s] EXCEPT !.submitted = (versions[s].content # 0)]]
    BY DEF DateVersions, Exists
  <2>2. \A s \in Stored : versions[s] \in Version
    BY StoreTypes
  <2> QED
    BY <2>1, <2>2, VersionDates
<1>3. ShapeInv' /\ ColumnsInv'
    BY <1>1, <1>2, LaterShape, StoreTypes DEF BeforeColumns, Stages
<1>4. KindInv'
  <2>1. \A t \in Tables : kind[t] \in {found.type, Today(found.type)}
    BY DEF KindInv
  <2> QED
    BY <1>1, <2>1 DEF KindInv, FromCanonical
<1>5. RowsInv'
  <2>1. \A s, t \in Stored : CreatorOf(s, t) => CreatorOf(s, t)'
    BY <1>1, <1>2 DEF CreatorOf
  <2> QED
    BY <1>1, <1>2, <2>1, EarlyRows DEF FromUniversal, FromCanonical
<1>6. CreatorsInv'
    BY <1>1, <1>2 DEF CreatorsInv, AllCreated, FromItemDate, BeforeColumns
<1>7. SnapshotInv'
    BY <1>1 DEF SnapshotInv
<1> QED
    BY <1>3, <1>4, <1>5, <1>6, <1>7

-----------------------------------------------------------------------------
(* The renaming *)

LEMMA TodayTypes ==
    \A type \in Types : Today(type) \in Types /\ Today(type) # SandboxType
BY DEF Today, Types, CurrentTypes, SandboxType

LEMMA RenameNext ==
    ASSUME StartupInv, RenameType
    PROVE  StartupInv'
<1> USE DEF StartupInv
<1> DEFINE today == Today(found.type)
<1>1. /\ stage = "rename" /\ pos \in 1 .. 7 /\ Renamed[pos] \in Tables
      /\ UNCHANGED <<item, versions, artifacts, platforms, downloads, found, schema, crashes>>
      /\ \/ pos < 7 /\ pos' = pos + 1 /\ stage' = "rename"
         \/ pos = 7 /\ pos' = 1 /\ stage' = "canonical"
  <2>1. stage = "rename" /\ pos \in 1 .. 7 /\ Len(Renamed) = 7
    BY RenamedTables DEF RenameType, At, ShapeInv
  <2>2. IF pos < 7 THEN pos' = pos + 1 /\ UNCHANGED <<stage, crashes>> ELSE Then("canonical")
    BY <2>1 DEF RenameType, Walk
  <2>3. UNCHANGED <<rows, found, schema>>
    BY DEF RenameType
  <2> QED
    BY <2>1, <2>2, <2>3, RenamedTables DEF Then, rows
<1>2. /\ found.type \in Types /\ today \in Types
      /\ found.type = SandboxType => today = "sandbox-image"
      /\ found.type # SandboxType => today = found.type
    BY FoundTypes, TodayTypes DEF Today
<1>3. /\ kind' \in [Tables -> Types]
      /\ kind'[Renamed[pos]] = today
      /\ \A t \in Tables : t # Renamed[pos] => kind'[t] = kind[t]
  <2>1. kind' = [kind EXCEPT ![Renamed[pos]] =
                    IF kind[Renamed[pos]] = SandboxType THEN "sandbox-image"
                    ELSE kind[Renamed[pos]]]
    BY DEF RenameType
  <2>2. kind[Renamed[pos]] \in {found.type, today}
    BY <1>1 DEF KindInv
  <2>3. today # SandboxType
    BY <1>2, TodayTypes
  <2> HIDE DEF today
  <2>4. (IF kind[Renamed[pos]] = SandboxType THEN "sandbox-image" ELSE kind[Renamed[pos]]) = today
    BY <1>2, <2>2, <2>3
  <2>5. kind' = [kind EXCEPT ![Renamed[pos]] = today]
    BY <2>1, <2>4
  <2>6. kind \in [Tables -> Types]
    BY StoreTypes
  <2> QED
    BY <1>1, <1>2, <2>5, <2>6
<1> HIDE DEF today
<1>4. ShapeInv' /\ ColumnsInv'
    BY <1>1, <1>3, LaterShape, StoreTypes DEF BeforeColumns, Stages
<1>5. KindInv'
  <2>1. \A t \in Tables : kind'[t] \in {found.type, today}
    BY <1>1, <1>3 DEF KindInv, today
  <2>2. \A i \in 1 .. pos : kind'[Renamed[i]] = today
    <3> TAKE i \in 1 .. pos
    <3>1. CASE Renamed[i] = Renamed[pos]
      BY <1>3, <3>1
    <3>2. CASE Renamed[i] # Renamed[pos]
      <4>1. i \in 1 .. pos - 1 /\ Renamed[i] \in Tables
        BY <1>1, <3>2, RenamedTables
      <4>2. kind[Renamed[i]] = today
        BY <1>1, <4>1 DEF KindInv, today
      <4> QED
        BY <1>3, <3>2, <4>1, <4>2
    <3> QED
      BY <3>1, <3>2
  <2>3. CASE pos < 7
    <3>1. stage' = "rename" /\ pos' - 1 = pos
      BY <1>1, <2>3
    <3> QED
      BY <1>1, <2>1, <2>2, <3>1 DEF KindInv, FromCanonical, today
  <2>4. CASE pos = 7
    <3>1. stage' = "canonical" /\ \A t \in Tables : kind'[t] = today
      BY <1>1, <2>2, <2>4, RenamedTables
    <3> QED
      BY <1>1, <3>1, RenamedTables DEF KindInv, today
  <2> QED
    BY <1>1, <2>3, <2>4
<1>6. RowsInv'
  <2>1. Original => Original'
    BY <1>1 DEF Original, CreatorOf
  <2>2. ASSUME Canonicalized
        PROVE  Canonicalized'
    <3>1. \A t \in Tables : kind'[t] = today
      BY <1>3, <2>2 DEF Canonicalized, today
    <3>2. ASSUME NEW s \in Stored
          PROVE  ReleaseKept(s) => ReleaseKept(s)'
      BY <1>1 DEF ReleaseKept, Chosen, FoundReleases, Made, CreatorOf
    <3>3. ASSUME NEW s \in Stored, NEW p \in Platforms
          PROVE  /\ FileKept(s, p) => FileKept(s, p)'
                 /\ PlatformKept(s, p) => PlatformKept(s, p)'
      BY <1>1 DEF FileKept, PlatformKept, Chosen, FoundFiles, FoundPlatforms
    <3> QED
      BY <1>1, <2>2, <3>1, <3>2, <3>3 DEF Canonicalized, Total, today
  <2> QED
    BY <1>1, <2>1, <2>2 DEF RowsInv, FromUniversal, FromPerArtifact, FromSnapshot, FromCanonical
<1>7. CreatorsInv'
    BY <1>1 DEF CreatorsInv, AllCreated, FromItemDate, FromCanonical, BeforeColumns
<1>8. SnapshotInv'
    BY <1>1 DEF SnapshotInv
<1> QED
    BY <1>4, <1>5, <1>6, <1>7, <1>8

-----------------------------------------------------------------------------
(* Merging the rows *)

LEMMA Respelled ==
    ASSUME NEW s \in Stored, NEW m \in {"v", "V"}
    PROVE  /\ [s EXCEPT !.mark = m] = [mark |-> m, base |-> s.base]
           /\ [mark |-> m, base |-> s.base] \in Stored
           /\ ~Unmarked([mark |-> m, base |-> s.base])
<1> DEFINE other == [s EXCEPT !.mark = m]
<1>1. s \in [mark: {"", "v", "V"}, base: Bases] /\ s.base \in Bases
    BY DEF Stored
<1>2. other \in [mark: {"", "v", "V"}, base: Bases] /\ other.mark = m /\ other.base = s.base
    BY <1>1
<1>3. other = [mark |-> other.mark, base |-> other.base]
  <2> HIDE DEF other
  <2> QED
    BY <1>2
<1>4. m # ""
    OBVIOUS
<1> QED
    BY <1>1, <1>2, <1>3, <1>4 DEF Stored, Unmarked

LEMMA Spellings ==
    ASSUME NEW s \in Stored
    PROVE  /\ Plain(s) \in Stored /\ Unmarked(Plain(s)) /\ Plain(s).base = s.base
           /\ Plain(Plain(s)) = Plain(s)
           /\ Unmarked(s) => s = [mark |-> "", base |-> s.base] /\ Plain(s) = s
<1>1. s \in [mark: {"", "v", "V"}, base: Bases] /\ s.base \in Bases
    BY DEF Stored
<1>2. s = [mark |-> s.mark, base |-> s.base]
    BY <1>1
<1>3. Unmarked(s) => s = [mark |-> "", base |-> s.base]
    BY <1>2 DEF Unmarked
<1>4. Plain(s) = [mark |-> "", base |-> s.base] /\ Plain(Plain(s)) = Plain(s)
    BY DEF Plain
<1>5. [mark |-> "", base |-> s.base] \in Stored
    BY <1>1 DEF Stored
<1>6. Plain(s).mark = "" /\ Plain(s).base = s.base
    BY DEF Plain
<1>7. Unmarked(s) => Plain(s) = s
    BY <1>3, <1>4
<1>8. Unmarked(Plain(s))
    BY <1>6 DEF Unmarked
<1>9. Plain(s) \in Stored
    BY <1>4, <1>5
<1> QED
    BY <1>3, <1>4, <1>6, <1>7, <1>8, <1>9

\* Rows once merged stay as they are.
LEMMA MergedAgain ==
    ASSUME StartupInv, Canonicalize, Canonicalized
    PROVE  /\ versions' = versions /\ artifacts' = artifacts /\ platforms' = platforms
           /\ downloads' = downloads /\ item' = item
<1>1. /\ item \in Item /\ versions \in [Stored -> Version] /\ artifacts \in PerPlatform
      /\ platforms \in PerPlatform /\ downloads \in [Stored -> Nat]
    BY StoreTypes
<1>2. \A s \in Stored : ~Unmarked(s) =>
          /\ versions[s] = None /\ downloads[s] = 0
          /\ \A p \in Platforms : artifacts[s][p] = 0 /\ platforms[s][p] = 0
    BY DEF Canonicalized
<1>3. versions' = versions
  <2>1. PICK first : versions' = Canonical(versions, first, None)
    BY DEF Canonicalize
  <2>2. \A s \in Stored : versions'[s] = versions[s]
    BY <1>2, <2>1, CanonicalAgain
  <2>3. versions' \in [Stored -> Version]
    BY <1>1, <2>1, CanonicalType, VersionTypes
  <2> QED
    BY <1>1, <2>2, <2>3
<1>4. ASSUME NEW table \in PerPlatform, NEW first,
             \A s \in Stored, p \in Platforms : ~Unmarked(s) => table[s][p] = 0
      PROVE  CanonicalPerPlatform(table, first) = table
  <2>1. /\ CanonicalPerPlatform(table, first) \in PerPlatform
        /\ \A s \in Stored, p \in Platforms :
              CanonicalPerPlatform(table, first)[s][p] = Canonical(Column(table, p), first[p], 0)[s]
    BY <1>4, PerPlatformColumns
  <2>2. ASSUME NEW s \in Stored, NEW p \in Platforms
        PROVE  Canonical(Column(table, p), first[p], 0)[s] = table[s][p]
    <3>1. /\ Column(table, p)[s] = table[s][p]
          /\ \A t \in Stored : ~Unmarked(t) => Column(table, p)[t] = 0
      BY <1>4 DEF Column
    <3>2. Canonical(Column(table, p), first[p], 0)[s] = Column(table, p)[s]
      BY <3>1, CanonicalAgain
    <3> QED
      BY <3>1, <3>2
  <2>3. \A s \in Stored : CanonicalPerPlatform(table, first)[s] = table[s]
    <3> TAKE s \in Stored
    <3>1. /\ CanonicalPerPlatform(table, first)[s] \in [Platforms -> Nat]
          /\ table[s] \in [Platforms -> Nat]
      BY <1>4, <2>1 DEF PerPlatform
    <3>2. \A p \in Platforms : CanonicalPerPlatform(table, first)[s][p] = table[s][p]
      BY <2>1, <2>2
    <3> QED
      BY <3>1, <3>2
  <2> QED
    BY <1>4, <2>1, <2>3 DEF PerPlatform
<1>5. artifacts' = artifacts /\ platforms' = platforms
  <2>1. /\ \E first : artifacts' = CanonicalPerPlatform(artifacts, first)
        /\ \E first : platforms' = CanonicalPerPlatform(platforms, first)
    BY DEF Canonicalize
  <2> QED
    BY <1>1, <1>2, <1>4, <2>1
<1>6. downloads' = downloads
  <2>1. downloads' = [s \in Stored |-> IF s.mark # "" THEN 0 ELSE
            downloads[s] + downloads[[s EXCEPT !.mark = "v"]] + downloads[[s EXCEPT !.mark = "V"]]]
    BY DEF Canonicalize
  <2>2. \A s \in Stored : downloads'[s] = downloads[s]
    <3> TAKE s \in Stored
    <3>1. CASE Unmarked(s)
      <4>1. /\ downloads[[s EXCEPT !.mark = "v"]] = 0
            /\ downloads[[s EXCEPT !.mark = "V"]] = 0
        <5> DEFINE v == [mark |-> "v", base |-> s.base]
                   V == [mark |-> "V", base |-> s.base]
        <5>1. /\ v \in Stored /\ V \in Stored /\ ~Unmarked(v) /\ ~Unmarked(V)
              /\ [s EXCEPT !.mark = "v"] = v /\ [s EXCEPT !.mark = "V"] = V
          BY Respelled
        <5> HIDE DEF v, V
        <5>2. downloads[v] = 0 /\ downloads[V] = 0
          BY <1>2, <5>1
        <5> QED
          BY <5>1, <5>2
      <4>2. downloads'[s] = downloads[s] + downloads[[s EXCEPT !.mark = "v"]]
                                         + downloads[[s EXCEPT !.mark = "V"]]
        BY <2>1, <3>1 DEF Unmarked
      <4>3. downloads[s] \in Nat
        BY <1>1
      <4> QED
        BY <4>1, <4>2, <4>3
    <3>2. CASE ~Unmarked(s)
      <4>1. downloads'[s] = 0
        BY <2>1, <3>2 DEF Unmarked
      <4> QED
        BY <1>2, <3>2, <4>1
    <3> QED
      BY <3>1, <3>2
  <2> QED
    BY <1>1, <2>1, <2>2
<1>7. item' = item
  <2>1. item' = [item EXCEPT !.latest = Plain(item.latest)]
    BY DEF Canonicalize
  <2>2. Plain(item.latest) = item.latest
    BY Spellings, FoundTypes DEF Canonicalized, StartupInv, Item
  <2> QED
    BY <1>1, <2>1, <2>2 DEF Item
<1> QED
    BY <1>3, <1>5, <1>6, <1>7

\* What the rows become when they are merged for the first time.
LEMMA Merged ==
    ASSUME StartupInv, Canonicalize, Original
    PROVE  Canonicalized'
<1> USE DEF StartupInv
<1>1. /\ item \in Item /\ versions \in [Stored -> Version] /\ artifacts \in PerPlatform
      /\ platforms \in PerPlatform /\ downloads \in [Stored -> Nat]
    BY StoreTypes
<1>2. /\ UNCHANGED <<kind, found>> /\ \A t \in Tables : kind[t] = Today(found.type)
    BY DEF Canonicalize, At, KindInv, FromCanonical
<1>3. item'.latest = Plain(found.item.latest)
    BY <1>1 DEF Canonicalize, Original, Item
<1>4. \A s \in Stored : /\ ~Unmarked(s) => versions'[s] = None
                        /\ Unmarked(s) => ReleaseKept(s)'
  <2>1. PICK first : versions' = Canonical(versions, first, None)
    BY DEF Canonicalize
  <2>2. Rows(versions, None) = FoundReleases
    <3>1. \A s \in Stored : versions[s] # None <=> found.versions[s].content # 0
      BY <1>1, VersionTypes DEF Original
    <3> QED
      BY <3>1 DEF Rows, FoundReleases
  <2>3. ASSUME NEW s \in Stored, Unmarked(s)
        PROVE  ReleaseKept(s)'
    <3>1. PICK t \in Stored : Chosen(Rows(versions, None), s, t) /\ versions'[s] = versions[t]
      BY <2>1, <2>3, CanonicalRow
    <3>2. /\ versions'[s].content = found.versions[t].content
          /\ versions'[s].snapshot = found.versions[t].snapshot
          /\ CreatorOf(s, t)'
      BY <1>2, <3>1 DEF Original, CreatorOf
    <3>3. Chosen(FoundReleases, s, t)'
      BY <1>2, <2>2, <3>1 DEF FoundReleases, Chosen
    <3> QED
      BY <1>2, <3>2, <3>3 DEF ReleaseKept
  <2>4. \A s \in Stored : ~Unmarked(s) => versions'[s] = None
    BY <2>1, CanonicalRow
  <2> QED
    BY <2>3, <2>4
<1>5. ASSUME NEW table \in PerPlatform, NEW first,
             NEW s \in Stored, NEW p \in Platforms
      PROVE  LET merged == CanonicalPerPlatform(table, first) IN
             /\ ~Unmarked(s) => merged[s][p] = 0
             /\ Unmarked(s) => \E t \in Stored : /\ Chosen({u \in Stored : table[u][p] # 0}, s, t)
                                                 /\ merged[s][p] = table[t][p]
  <2>1. CanonicalPerPlatform(table, first)[s][p] = Canonical(Column(table, p), first[p], 0)[s]
    BY PerPlatformColumns
  <2>2. /\ \A t \in Stored : Column(table, p)[t] = table[t][p]
        /\ Rows(Column(table, p), 0) = {u \in Stored : table[u][p] # 0}
    BY DEF Column, Rows
  <2>3. ~Unmarked(s) => Canonical(Column(table, p), first[p], 0)[s] = 0
    BY CanonicalRow
  <2>4. ASSUME Unmarked(s)
        PROVE  \E t \in Stored : /\ Chosen({u \in Stored : table[u][p] # 0}, s, t)
                                 /\ CanonicalPerPlatform(table, first)[s][p] = table[t][p]
    <3>1. PICK t \in Stored : /\ Chosen(Rows(Column(table, p), 0), s, t)
                              /\ Canonical(Column(table, p), first[p], 0)[s] = Column(table, p)[t]
      BY <2>4, CanonicalRow
    <3> QED
      BY <2>1, <2>2, <3>1
  <2> QED
    BY <2>1, <2>3, <2>4
<1>6. ASSUME NEW s \in Stored, NEW p \in Platforms
      PROVE  /\ ~Unmarked(s) => artifacts'[s][p] = 0 /\ platforms'[s][p] = 0
             /\ Unmarked(s) => FileKept(s, p)' /\ PlatformKept(s, p)'
  <2>1. PICK first : artifacts' = CanonicalPerPlatform(artifacts, first)
    BY DEF Canonicalize
  <2>2. PICK other : platforms' = CanonicalPerPlatform(platforms, other)
    BY DEF Canonicalize
  <2>3. artifacts = found.artifacts /\ platforms = found.platforms
    BY DEF Original
  <2>4. ~Unmarked(s) => artifacts'[s][p] = 0 /\ platforms'[s][p] = 0
    BY <1>1, <1>5, <2>1, <2>2
  <2>5. ASSUME Unmarked(s)
        PROVE  FileKept(s, p)'
    <3>0. \E t \in Stored : /\ Chosen({u \in Stored : artifacts[u][p] # 0}, s, t)
                            /\ CanonicalPerPlatform(artifacts, first)[s][p] = artifacts[t][p]
      BY <1>1, <1>5, <2>5
    <3>1. PICK t \in Stored : /\ Chosen({u \in Stored : artifacts[u][p] # 0}, s, t)
                              /\ artifacts'[s][p] = artifacts[t][p]
      BY <2>1, <3>0
    <3>2. FoundFiles(p)' = {u \in Stored : artifacts[u][p] # 0}
      BY <1>2, <2>3 DEF FoundFiles
    <3>3. Chosen(FoundFiles(p), s, t)'
      BY <3>1, <3>2 DEF Chosen
    <3>4. artifacts'[s][p] = found'.artifacts[t][p]
      BY <1>2, <2>3, <3>1
    <3> QED
      BY <3>1, <3>3, <3>4 DEF FileKept, Chosen
  <2>6. ASSUME Unmarked(s)
        PROVE  PlatformKept(s, p)'
    <3>1. PICK t \in Stored : /\ Chosen({u \in Stored : platforms[u][p] # 0}, s, t)
                              /\ platforms'[s][p] = platforms[t][p]
      BY <1>1, <1>5, <2>2, <2>6
    <3> QED
      BY <1>2, <2>3, <3>1 DEF PlatformKept, FoundPlatforms, Chosen
  <2> QED
    BY <2>4, <2>5, <2>6
<1>7. \A s \in Stored : /\ ~Unmarked(s) => downloads'[s] = 0
                        /\ Unmarked(s) => downloads'[s] = Total(found.downloads, s.base)
  <2>1. downloads' = [s \in Stored |-> IF s.mark # "" THEN 0 ELSE
            downloads[s] + downloads[[s EXCEPT !.mark = "v"]] + downloads[[s EXCEPT !.mark = "V"]]]
        /\ downloads = found.downloads
    BY DEF Canonicalize, Original
  <2> TAKE s \in Stored
  <2>2. ~Unmarked(s) => downloads'[s] = 0
    BY <2>1 DEF Unmarked
  <2>3. ASSUME Unmarked(s)
        PROVE  downloads'[s] = Total(found.downloads, s.base)
    <3>1. downloads'[s] = downloads[s] + downloads[[s EXCEPT !.mark = "v"]]
                                       + downloads[[s EXCEPT !.mark = "V"]]
      BY <2>1, <2>3 DEF Unmarked
    <3>2. /\ s = [mark |-> "", base |-> s.base]
          /\ [s EXCEPT !.mark = "v"] = [mark |-> "v", base |-> s.base]
          /\ [s EXCEPT !.mark = "V"] = [mark |-> "V", base |-> s.base]
      BY <2>3, Spellings, Respelled
    <3>3. Total(found.downloads, s.base)
              = downloads[s] + downloads[[s EXCEPT !.mark = "v"]]
                             + downloads[[s EXCEPT !.mark = "V"]]
      BY <2>1, <3>2 DEF Total
    <3> QED
      BY <3>1, <3>3
  <2> QED
    BY <2>2, <2>3
<1> QED
    BY <1>2, <1>3, <1>4, <1>6, <1>7 DEF Canonicalized, Total

LEMMA CanonicalizeNext ==
    ASSUME StartupInv, Canonicalize
    PROVE  StartupInv'
<1> USE DEF StartupInv
<1>1. /\ stage = "canonical" /\ stage' = "universal" /\ pos' = 1
      /\ UNCHANGED <<kind, found, schema, crashes>>
    BY DEF Canonicalize, At, Then
<1>2. /\ item \in Item /\ versions \in [Stored -> Version] /\ artifacts \in PerPlatform
      /\ platforms \in PerPlatform /\ downloads \in [Stored -> Nat]
    BY StoreTypes
<1>3. /\ item' \in Item /\ item'.content = item.content /\ item'.owner = item.owner
      /\ item'.creator = item.creator
  <2>1. item' = [item EXCEPT !.latest = Plain(item.latest)]
    BY DEF Canonicalize
  <2>2. Plain(item.latest) \in Stored
    BY <1>2, Spellings DEF Item
  <2> QED
    BY <1>2, <2>1, <2>2 DEF Item
<1>4. PICK first : versions' = Canonical(versions, first, None)
    BY DEF Canonicalize
<1>5. versions' \in [Stored -> Version]
    BY <1>2, <1>4, CanonicalType, VersionTypes
<1>6. artifacts' \in PerPlatform /\ platforms' \in PerPlatform
  <2>1. /\ \E f : artifacts' = CanonicalPerPlatform(artifacts, f)
        /\ \E f : platforms' = CanonicalPerPlatform(platforms, f)
    BY DEF Canonicalize
  <2> QED
    BY <1>2, <2>1, PerPlatformColumns
<1>7. downloads' \in [Stored -> Nat]
  <2>1. downloads' = [s \in Stored |-> IF s.mark # "" THEN 0 ELSE
            downloads[s] + downloads[[s EXCEPT !.mark = "v"]] + downloads[[s EXCEPT !.mark = "V"]]]
    BY DEF Canonicalize
  <2>2. ASSUME NEW s \in Stored
        PROVE  downloads[s] + downloads[[s EXCEPT !.mark = "v"]]
                            + downloads[[s EXCEPT !.mark = "V"]] \in Nat
    <3>1. [s EXCEPT !.mark = "v"] \in Stored /\ [s EXCEPT !.mark = "V"] \in Stored
      BY Respelled
    <3>2. /\ downloads[s] \in Nat /\ downloads[[s EXCEPT !.mark = "v"]] \in Nat
          /\ downloads[[s EXCEPT !.mark = "V"]] \in Nat
      BY <1>2, <3>1
    <3> QED
      BY <3>2
  <2> QED
    BY <2>1, <2>2
<1>8. ShapeInv' /\ ColumnsInv'
    BY <1>1, <1>2, <1>3, <1>5, <1>6, <1>7, LaterShape, StoreTypes DEF BeforeColumns, Stages
<1>9. KindInv'
    BY <1>1, KindKept DEF FromCanonical
<1>10. RowsInv'
  <2>1. CASE Original
    BY <1>1, <1>3, <2>1, Merged DEF RowsInv, FromUniversal, FromPerArtifact, FromSnapshot
  <2>2. CASE Canonicalized
    <3>1. /\ versions' = versions /\ artifacts' = artifacts /\ platforms' = platforms
          /\ downloads' = downloads /\ item' = item
      BY <2>2, MergedAgain
    <3>2. Canonicalized'
      BY <1>1, <2>2, <3>1, RowsUnchanged DEF Quiet, rows
    <3> QED
      BY <1>1, <1>3, <3>2 DEF RowsInv, FromUniversal, FromPerArtifact, FromSnapshot
  <2> QED
    BY <2>1, <2>2 DEF RowsInv
<1>11. CreatorsInv'
  <2>1. AllCreated => AllCreated'
    <3> SUFFICES ASSUME AllCreated, NEW s \in Stored, versions'[s].creator = Nobody
                 PROVE  versions'[s].content = 0
      BY DEF AllCreated
    <3>1. CASE Unmarked(s)
      <4>1. PICK t \in Stored : versions'[s] = versions[t]
        BY <1>4, <3>1, CanonicalRow
      <4> QED
        BY <4>1 DEF AllCreated
    <3>2. CASE ~Unmarked(s)
      <4>1. versions'[s] = None
        BY <1>4, <3>2, CanonicalRow
      <4> QED
        BY <4>1, VersionTypes
    <3> QED
      BY <3>1, <3>2
  <2> QED
    BY <1>1, <1>3, <2>1 DEF CreatorsInv, FromItemDate, FromCanonical, BeforeColumns
<1>12. SnapshotInv'
    BY <1>1 DEF SnapshotInv
<1> QED
    BY <1>8, <1>9, <1>10, <1>11, <1>12

-----------------------------------------------------------------------------
(* Filling in platforms and the snapshot *)

\* Rows of version_platforms are filled in where there are none; others stay.
LEMMA PlatformsFilled ==
    ASSUME StartupInv,
           UNCHANGED <<kind, item, versions, artifacts, downloads, found, schema, crashes>>,
           pos' = 1, \/ stage = "universal" /\ stage' = "perArtifact"
                     \/ stage = "perArtifact" /\ stage' = "snapshot",
           platforms' \in PerPlatform,
           \A s \in Stored, p \in Platforms :
               \/ platforms'[s][p] = platforms[s][p]
               \/ /\ platforms[s][p] = 0
                  /\ p = Universal \/ artifacts[s][p] # 0
                  /\ platforms'[s][p] = versions[s].content
    PROVE  /\ ShapeInv' /\ ColumnsInv' /\ KindInv' /\ CreatorsInv' /\ SnapshotInv'
           /\ Canonicalized'
<1> USE DEF StartupInv
<1>1. ShapeInv' /\ ColumnsInv'
    BY LaterShape, StoreTypes DEF BeforeColumns, Stages
<1>2. KindInv'
    BY KindKept DEF FromCanonical
<1>3. CreatorsInv'
    BY DEF CreatorsInv, AllCreated, FromItemDate, FromCanonical, BeforeColumns
<1>4. SnapshotInv'
    BY DEF SnapshotInv
<1>5. Canonicalized
    BY DEF RowsInv, FromUniversal, FromCanonical
<1>6. ASSUME NEW s \in Stored, ReleaseKept(s)
      PROVE  ReleaseKept(s)'
  <2>1. Made(s) => Made(s)'
    BY StartupAssumption DEF Made
  <2>2. \A t \in Stored : CreatorOf(s, t) => CreatorOf(s, t)'
    BY DEF CreatorOf
  <2> QED
    BY <1>6, <2>1, <2>2 DEF ReleaseKept, Chosen, FoundReleases
<1>7. ASSUME NEW s \in Stored, NEW p \in Platforms
      PROVE  /\ FileKept(s, p) => FileKept(s, p)'
             /\ PlatformKept(s, p) => PlatformKept(s, p)'
    BY DEF FileKept, PlatformKept, Chosen, FoundFiles, FoundPlatforms
<1>8. \A s \in Stored, p \in Platforms : ~Unmarked(s) => platforms'[s][p] = 0
    BY <1>5, VersionTypes DEF Canonicalized
<1>9. Canonicalized'
    BY <1>5, <1>6, <1>7, <1>8 DEF Canonicalized, Total
<1> QED
    BY <1>1, <1>2, <1>3, <1>4, <1>9

\* The tables have the same type by now.
LEMMA JoinsFind ==
    ASSUME StartupInv, stage \in FromCanonical
    PROVE  \A names \in SUBSET Tables : Joined(names)
BY RenamedTables DEF StartupInv, KindInv, Joined

LEMMA UniversalNext ==
    ASSUME StartupInv, BackfillUniversal
    PROVE  StartupInv'
<1>1. /\ stage = "universal" /\ stage' = "perArtifact" /\ pos' = 1
      /\ UNCHANGED <<kind, item, versions, artifacts, downloads, found, schema, crashes>>
    BY DEF BackfillUniversal, At, Then
<1> DEFINE due(s, p) == /\ platforms[s][p] = 0 /\ p = Universal /\ Joined({"versions"})
                        /\ item.content # 0
<1>2. platforms' = [s \in Stored |-> [p \in Platforms |->
          IF due(s, p) THEN versions[s].content ELSE platforms[s][p]]]
    BY DEF BackfillUniversal
<1>3. platforms \in PerPlatform /\ \A s \in Stored : versions[s].content \in Nat
    BY StoreTypes, VersionTypes
<1>4. Joined({"versions"})
  <2>1. {"versions"} \in SUBSET Tables
    BY RenamedTables
  <2> QED
    BY <1>1, <2>1, JoinsFind DEF FromCanonical
<1>5. \A s \in Stored, p \in Platforms :
          platforms'[s][p] = IF due(s, p) THEN versions[s].content ELSE platforms[s][p]
  <2> HIDE DEF due
  <2> QED
    BY <1>2
<1>6. platforms' \in PerPlatform
  <2>1. \A s \in Stored, p \in Platforms :
            (IF due(s, p) THEN versions[s].content ELSE platforms[s][p]) \in Nat
    BY <1>3 DEF PerPlatform
  <2> HIDE DEF due
  <2> QED
    BY <1>2, <2>1 DEF PerPlatform
<1>7. /\ ShapeInv' /\ ColumnsInv' /\ KindInv' /\ CreatorsInv' /\ SnapshotInv'
      /\ Canonicalized'
  <2>1. \A s \in Stored, p \in Platforms :
            \/ platforms'[s][p] = platforms[s][p]
            \/ /\ platforms[s][p] = 0
               /\ p = Universal \/ artifacts[s][p] # 0
               /\ platforms'[s][p] = versions[s].content
    BY <1>5
  <2> QED
    BY <1>1, <1>6, <2>1, PlatformsFilled
<1>8. \A s \in Stored : platforms'[s][Universal] = 0 => versions[s].content = 0
  <2> TAKE s \in Stored
  <2>1. item.content = 0 => versions[s].content = 0
    BY NoItemNoReleases DEF StartupInv
  <2> QED
    BY <1>4, <1>5, <2>1, StartupAssumption
<1>9. RowsInv'
    BY <1>1, <1>7, <1>8 DEF StartupInv, RowsInv, FromSnapshot, FromPerArtifact, FromUniversal
<1> QED
    BY <1>7, <1>9 DEF StartupInv

LEMMA PerArtifactNext ==
    ASSUME StartupInv, BackfillPerArtifact
    PROVE  StartupInv'
<1>1. /\ stage = "perArtifact" /\ stage' = "snapshot" /\ pos' = 1
      /\ UNCHANGED <<kind, item, versions, artifacts, downloads, found, schema, crashes>>
    BY DEF BackfillPerArtifact, At, Then
<1> DEFINE due(s, p) == /\ platforms[s][p] = 0 /\ artifacts[s][p] # 0
                        /\ Joined({"versions", "artifacts"}) /\ item.content # 0
<1>2. platforms' = [s \in Stored |-> [p \in Platforms |->
          IF due(s, p) THEN versions[s].content ELSE platforms[s][p]]]
    BY DEF BackfillPerArtifact
<1>3. platforms \in PerPlatform /\ \A s \in Stored : versions[s].content \in Nat
    BY StoreTypes, VersionTypes
<1>4. Joined({"versions", "artifacts"})
  <2>1. {"versions", "artifacts"} \in SUBSET Tables
    BY RenamedTables
  <2> QED
    BY <1>1, <2>1, JoinsFind DEF FromCanonical
<1>5. \A s \in Stored, p \in Platforms :
          platforms'[s][p] = IF due(s, p) THEN versions[s].content ELSE platforms[s][p]
  <2> HIDE DEF due
  <2> QED
    BY <1>2
<1>6. platforms' \in PerPlatform
  <2>1. \A s \in Stored, p \in Platforms :
            (IF due(s, p) THEN versions[s].content ELSE platforms[s][p]) \in Nat
    BY <1>3 DEF PerPlatform
  <2> HIDE DEF due
  <2> QED
    BY <1>2, <2>1 DEF PerPlatform
<1>7. /\ ShapeInv' /\ ColumnsInv' /\ KindInv' /\ CreatorsInv' /\ SnapshotInv'
      /\ Canonicalized'
  <2>1. \A s \in Stored, p \in Platforms :
            \/ platforms'[s][p] = platforms[s][p]
            \/ /\ platforms[s][p] = 0
               /\ p = Universal \/ artifacts[s][p] # 0
               /\ platforms'[s][p] = versions[s].content
    BY <1>5
  <2> QED
    BY <1>1, <1>6, <2>1, PlatformsFilled
<1>8. \A s \in Stored : item.content = 0 \/ platforms[s][Universal] = 0 => versions[s].content = 0
    BY <1>1, NoItemNoReleases DEF StartupInv, RowsInv, FromPerArtifact, FromUniversal, FromCanonical
<1>9. \A s \in Stored, p \in Platforms :
          platforms'[s][p] = 0 /\ artifacts[s][p] # 0 => versions[s].content = 0
    BY <1>4, <1>5, <1>8
<1>10. \A s \in Stored : platforms'[s][Universal] = 0 => versions[s].content = 0
    BY <1>5, <1>8, StartupAssumption
<1>11. RowsInv'
    BY <1>1, <1>7, <1>9, <1>10 DEF StartupInv, RowsInv
<1> QED
    BY <1>7, <1>11 DEF StartupInv

\* The release the item shows, if it was found at all, is there once rows are merged.
LEMMA CurrentThere ==
    ASSUME ShapeInv, Canonicalized, CurrentFound, found.item.content # 0
    PROVE  versions[item.latest].content # 0
<1>1. /\ found.item.latest \in Stored /\ item.latest = Plain(found.item.latest)
    BY FoundTypes DEF Canonicalized, Item
<1>2. /\ item.latest \in Stored /\ Unmarked(item.latest)
      /\ item.latest.base = found.item.latest.base
    BY <1>1, Spellings
<1>3. \E u \in FoundReleases : u.base = item.latest.base
    BY <1>2 DEF CurrentFound, FoundReleases
<1>4. ReleaseKept(item.latest)
    BY <1>2 DEF Canonicalized
<1> QED
    BY <1>3, <1>4 DEF ReleaseKept, Chosen, FoundReleases

LEMMA SnapshotNext ==
    ASSUME StartupInv, BackfillSnapshot
    PROVE  StartupInv'
<1> USE DEF StartupInv
<1>1. /\ stage = "snapshot" /\ stage' = "verify" /\ pos' = 1
      /\ UNCHANGED <<kind, item, artifacts, platforms, downloads, found, schema, crashes>>
    BY DEF BackfillSnapshot, At, Then
<1>2. Joined({"versions"}) /\ Joined({"tags"}) /\ Joined({"version_platforms"})
  <2>1. /\ {"versions"} \in SUBSET Tables /\ {"tags"} \in SUBSET Tables
        /\ {"version_platforms"} \in SUBSET Tables
    BY RenamedTables
  <2>2. \A names \in SUBSET Tables : Joined(names)
    BY <1>1, JoinsFind DEF FromCanonical
  <2> QED
    BY <2>1, <2>2
<1> DEFINE latest == item.latest
           due == /\ item.content # 0 /\ versions[latest].content # 0
                  /\ versions[latest].snapshot.content = 0
           made == [content |-> item.content, tags |-> TRUE,
                    platform |-> platforms[latest][Universal]]
<1>3. versions' = IF due THEN [versions EXCEPT ![latest].snapshot = made] ELSE versions
  <2>1. Joined({"versions"}) = TRUE /\ Joined({"tags"}) = TRUE /\ Joined({"version_platforms"}) = TRUE
    BY <1>2 DEF Joined
  <2> QED
    BY <2>1 DEF BackfillSnapshot, Exists
<1>4. /\ latest \in Stored /\ item.content \in Nat /\ platforms[latest][Universal] \in Nat
      /\ versions \in [Stored -> Version] /\ made \in Snapshot
    BY StoreTypes, StartupAssumption DEF Item, PerPlatform, Snapshot
<1>5. Canonicalized
    BY <1>1 DEF RowsInv, FromUniversal, FromCanonical
<1>6. Unmarked(latest)
  <2>1. found.item.latest \in Stored /\ latest = Plain(found.item.latest)
    BY <1>5, FoundTypes DEF Canonicalized, Item
  <2> QED
    BY <2>1, Spellings
<1>7. ASSUME due
      PROVE  /\ versions' \in [Stored -> Version]
             /\ \A s \in Stored \ {latest} : versions'[s] = versions[s]
             /\ versions'[latest].snapshot = made
             /\ versions'[latest].content = versions[latest].content
             /\ versions'[latest].creator = versions[latest].creator
  <2>1. versions' = [versions EXCEPT ![latest] = [versions[latest] EXCEPT !.snapshot = made]]
    BY <1>3, <1>7
  <2>2. versions[latest] \in Version /\ versions[latest].content # 0 /\ None.creator \in Users
    BY <1>4, <1>7, VersionTypes
  <2> DEFINE row == [versions[latest] EXCEPT !.snapshot = made]
  <2> HIDE DEF made, latest, due
  <2>3. /\ row \in Version /\ row.snapshot = made /\ row.content = versions[latest].content
        /\ row.creator = versions[latest].creator
    <3>1. made \in Snapshot
      BY <1>4
    <3> DEFINE old == versions[latest]
    <3>2. old \in Version /\ old.content # 0 /\ None.creator \in Users
      BY <2>2
    <3> HIDE DEF old
    <3>3. LET new == [old EXCEPT !.snapshot = made] IN
          /\ new \in Version /\ new.snapshot = made /\ new.content = old.content
          /\ new.creator = old.creator
      BY <3>1, <3>2, VersionUpdates
    <3> QED
      BY <3>3 DEF old
  <2>4. versions' = [versions EXCEPT ![latest] = row]
    BY <2>1
  <2> HIDE DEF row
  <2> QED
    BY <1>4, <2>3, <2>4
<1>8. ASSUME due
      PROVE  platforms[latest][Universal] # 0
    BY <1>1, <1>4, <1>8 DEF RowsInv, FromPerArtifact, FromUniversal, FromCanonical
<1>9. /\ versions' \in [Stored -> Version]
      /\ \A s \in Stored : /\ versions'[s].content = versions[s].content
                           /\ versions'[s].creator = versions[s].creator
                           /\ \/ versions'[s].snapshot = versions[s].snapshot
                              \/ s = latest /\ versions'[s].snapshot = made
  <2>1. versions' \in [Stored -> Version]
    BY <1>3, <1>4, <1>7
  <2>2. ASSUME ~due
        PROVE  versions' = versions
    BY <1>3, <2>2
  <2> HIDE DEF due, made, latest
  <2>3. ASSUME NEW s \in Stored
        PROVE  /\ versions'[s].content = versions[s].content
               /\ versions'[s].creator = versions[s].creator
               /\ \/ versions'[s].snapshot = versions[s].snapshot
                  \/ s = latest /\ versions'[s].snapshot = made
    <3>1. CASE due /\ s = latest
      BY <1>7, <3>1
    <3>2. CASE ~due \/ s # latest
      BY <1>7, <2>2, <3>2
    <3> QED
      BY <3>1, <3>2
  <2> QED
    BY <2>1, <2>3
<1>10. ShapeInv' /\ ColumnsInv'
    BY <1>1, <1>9, LaterShape, StoreTypes DEF BeforeColumns, Stages
<1>11. KindInv'
    BY <1>1, KindKept DEF FromCanonical
<1>12. Canonicalized'
  <2>1. ASSUME NEW s \in Stored, ReleaseKept(s)
        PROVE  ReleaseKept(s)'
    <3>1. PICK t \in Stored :
            /\ Chosen(FoundReleases, s, t)
            /\ versions[s].content = found.versions[t].content
            /\ versions[s].snapshot = found.versions[t].snapshot \/ Made(s)
            /\ CreatorOf(s, t)
      BY <2>1 DEF ReleaseKept
    <3>2. Chosen(FoundReleases, s, t)' /\ CreatorOf(s, t)'
      BY <1>1, <1>9, <3>1 DEF Chosen, FoundReleases, CreatorOf
    <3>3. versions'[s].snapshot = found.versions[t].snapshot \/ Made(s)'
      <4>1. CASE s = latest /\ due
        BY <1>1, <1>7, <1>8, <4>1 DEF Made
      <4>2. CASE ~(s = latest /\ due)
        <5>1. versions'[s] = versions[s]
          BY <1>3, <1>7, <4>2
        <5> QED
          BY <1>1, <3>1, <5>1 DEF Made
      <4> QED
        BY <4>1, <4>2
    <3> QED
      BY <1>1, <1>9, <3>1, <3>2, <3>3 DEF ReleaseKept
  <2>2. ASSUME NEW s \in Stored, NEW p \in Platforms
        PROVE  /\ FileKept(s, p) => FileKept(s, p)'
               /\ PlatformKept(s, p) => PlatformKept(s, p)'
    BY <1>1, <1>9 DEF FileKept, PlatformKept, Chosen, FoundFiles, FoundPlatforms
  <2>3. \A s \in Stored : ~Unmarked(s) => versions'[s] = None
    BY <1>3, <1>5, <1>6, <1>7 DEF Canonicalized
  <2> QED
    BY <1>1, <1>5, <2>1, <2>2, <2>3 DEF Canonicalized, Total
<1>13. RowsInv'
    BY <1>1, <1>9, <1>12 DEF RowsInv, FromSnapshot, FromPerArtifact, FromUniversal, FromCanonical
<1>14. CreatorsInv'
    BY <1>1, <1>9 DEF CreatorsInv, AllCreated, FromItemDate, FromCanonical, BeforeColumns
<1>15. SnapshotInv'
  <2>1. ASSUME CurrentFound, item.content # 0
        PROVE  versions'[latest].snapshot.content # 0
    <3>1. versions[latest].content # 0
      BY <1>5, <2>1, CurrentThere DEF RowsInv
    <3>2. CASE due
      BY <1>7, <2>1, <3>2
    <3>3. CASE ~due
      BY <1>3, <2>1, <3>1, <3>3
    <3> QED
      BY <3>2, <3>3
  <2>2. CurrentFound' => CurrentFound
    BY <1>1 DEF CurrentFound
  <2> QED
    BY <1>1, <2>1, <2>2 DEF SnapshotInv
<1> QED
    BY <1>10, <1>11, <1>13, <1>14, <1>15

-----------------------------------------------------------------------------
(* The invariant holds *)

LEMMA InitInv == Init => StartupInv
<1> SUFFICES ASSUME Init
             PROVE  StartupInv
    OBVIOUS
<1>1. PICK d \in Databases :
          /\ tables = d.tables /\ columns = d.columns
          /\ kind = [t \in Tables |-> d.type]
          /\ item = d.item /\ versions = d.versions
          /\ artifacts = d.artifacts /\ platforms = d.platforms /\ downloads = d.downloads
    BY DEF Init
<1>2. d \in FormerDatabase
    BY StartupAssumption
<1>3. /\ d.type \in Types /\ d.tables \in SUBSET Tables /\ d.columns \in SUBSET Columns
      /\ d.item \in Item /\ d.versions \in [Stored -> Version]
      /\ d.artifacts \in PerPlatform /\ d.platforms \in PerPlatform
      /\ d.downloads \in [Stored -> Nat]
    BY <1>2 DEF FormerDatabase
<1>4. /\ stage = "down" /\ pos = 0 /\ crashes = 0
      /\ found = [type |-> kind["items"], item |-> item, versions |-> versions,
                  artifacts |-> artifacts, platforms |-> platforms, downloads |-> downloads]
    BY DEF Init
<1>5. "items" \in Tables /\ kind["items"] = d.type
    BY <1>1, RenamedTables
<1>6. ShapeInv
  <2>1. TypeOK
    BY <1>1, <1>3, <1>4, RenamedTables, StartupAssumption DEF TypeOK, Stages
  <2>2. found = [type |-> d.type, item |-> d.item, versions |-> d.versions,
                 artifacts |-> d.artifacts, platforms |-> d.platforms,
                 downloads |-> d.downloads]
    BY <1>1, <1>4, <1>5
  <2> QED
    BY <1>2, <1>4, <2>1, <2>2 DEF ShapeInv
<1>7. ColumnsInv
    BY <1>4 DEF ColumnsInv, BeforeColumns
<1>8. KindInv
    BY <1>1, <1>4, <1>5 DEF KindInv, FromCanonical
<1>9. RowsInv
  <2>1. Original
    BY <1>4 DEF Original, CreatorOf
  <2> QED
    BY <1>4, <2>1 DEF RowsInv, FromSnapshot, FromPerArtifact, FromUniversal, FromCanonical
<1>10. CreatorsInv
  <2>1. item.creator = found.item.creator
    BY <1>4
  <2> QED
    BY <1>4, <2>1 DEF CreatorsInv, FromItemDate, FromCanonical
<1>11. SnapshotInv
    BY <1>4 DEF SnapshotInv
<1> QED
    BY <1>6, <1>7, <1>8, <1>9, <1>10, <1>11 DEF StartupInv

LEMMA NextInv == StartupInv /\ [Next]_vars => StartupInv'
<1> SUFFICES ASSUME StartupInv, [Next]_vars
             PROVE  StartupInv'
    OBVIOUS
<1>1. CASE QuietStep
    BY <1>1, QuietNext
<1>2. CASE BackfillItemCreator
    BY <1>2, ItemCreatorNext
<1>3. CASE BackfillVersionCreators
    BY <1>3, VersionCreatorsNext
<1>4. CASE DateItems
    BY <1>4, ItemDateNext
<1>5. CASE DateVersions
    BY <1>5, VersionDatesNext
<1>6. CASE RenameType
    BY <1>6, RenameNext
<1>7. CASE Canonicalize
    BY <1>7, CanonicalizeNext
<1>8. CASE BackfillUniversal
    BY <1>8, UniversalNext
<1>9. CASE BackfillPerArtifact
    BY <1>9, PerArtifactNext
<1>10. CASE BackfillSnapshot
    BY <1>10, SnapshotNext
<1> QED
    BY <1>1, <1>2, <1>3, <1>4, <1>5, <1>6, <1>7, <1>8, <1>9, <1>10
    DEF Next, Migrate, QuietStep

\* However often and wherever start-ups are cut off.
THEOREM StartupInvariant == Spec => []StartupInv
<1> QED
    BY InitInv, NextInv, PTL DEF Spec

-----------------------------------------------------------------------------
(* The properties *)

\* The place migrate is at, the schema and the rows keep their shapes.
THEOREM StartupTypeCorrect == Spec => []TypeOK
<1>1. StartupInv => TypeOK
    BY DEF StartupInv, ShapeInv
<1> QED
    BY <1>1, StartupInvariant, PTL

\* What is chosen is what is kept.
LEMMA ChosenIsKept ==
    ASSUME NEW before, NEW none, NEW s \in Stored, Unmarked(s), NEW t \in Stored,
           Chosen({u \in Stored : before[u] # none}, s, t)
    PROVE  KeptOf(before[t], before, s.base, none)
<1> DEFINE there == {u \in Stored : before[u] # none}
           spelled == {u \in Stored : u.base = s.base /\ before[u] # none}
<1>1. s = [mark |-> "", base |-> s.base]
    BY Spellings
<1>2. /\ t.base = s.base
      /\ s \in there => t = s
      /\ (\E u \in there : u.base = s.base) => t \in there
    BY DEF Chosen
<1>3. spelled = {} => before[t] = none
    BY <1>2
<1>4. s \in spelled => t = s
    BY <1>2
<1>5. spelled # {} => t \in spelled
    BY <1>2
<1>6. spelled = Spelled(before, s.base, none)
    BY DEF Spelled
<1> DEFINE base == s.base
<1> HIDE DEF spelled, there, base
<1>7. \/ spelled = {} /\ before[t] = none
      \/ spelled # {} /\ s \in spelled /\ before[t] = before[s]
      \/ spelled # {} /\ s \notin spelled /\ \E u \in spelled : before[t] = before[u]
    BY <1>3, <1>4, <1>5
<1>8. KeptOf(before[t], before, base, none) =
          IF spelled = {} THEN before[t] = none
          ELSE IF s \in spelled THEN before[t] = before[s]
          ELSE \E u \in spelled : before[t] = before[u]
    BY <1>1, <1>6 DEF KeptOf, base
<1>9. KeptOf(before[t], before, base, none)
    BY <1>7, <1>8
<1> QED
    BY <1>9 DEF base

LEMMA PlatformsComplete ==
    ASSUME StartupInv, stage = "up", NEW s \in Stored, Unmarked(s), NEW p \in Platforms
    PROVE  LET foundPlatforms == [t \in Stored |-> found.platforms[t][p]] IN
           IF Spelled(foundPlatforms, s.base, 0) # {}
           THEN KeptOf(platforms[s][p], foundPlatforms, s.base, 0)
           ELSE platforms[s][p] = IF p = Universal \/ artifacts[s][p] # 0
                                  THEN versions[s].content ELSE 0
<1> DEFINE before == [t \in Stored |-> found.platforms[t][p]]
           spelled == Spelled(before, s.base, 0)
<1>1. Canonicalized
    BY DEF StartupInv, RowsInv, FromUniversal, FromCanonical
<1>2. PICK t \in Stored :
        /\ Chosen(FoundPlatforms(p), s, t)
        /\ \/ platforms[s][p] = found.platforms[t][p]
           \/ /\ found.platforms[t][p] = 0
              /\ p = Universal \/ artifacts[s][p] # 0
              /\ platforms[s][p] = versions[s].content
    BY <1>1 DEF Canonicalized, PlatformKept
<1>3. \A u \in Stored : before[u] = found.platforms[u][p]
    OBVIOUS
<1>4. /\ {u \in Stored : before[u] # 0} = FoundPlatforms(p)
      /\ spelled = {u \in FoundPlatforms(p) : u.base = s.base}
    BY <1>3 DEF FoundPlatforms, Spelled
<1>5. t.base = s.base /\ (spelled # {} => t \in FoundPlatforms(p))
    BY <1>2, <1>4 DEF Chosen
<1>6. KeptOf(before[t], before, s.base, 0)
  <2>1. Chosen({u \in Stored : before[u] # 0}, s, t)
    BY <1>2, <1>4
  <2> HIDE DEF before
  <2> QED
    BY <2>1, ChosenIsKept
<1>7. ASSUME spelled # {}
      PROVE  platforms[s][p] = before[t]
  <2>1. found.platforms[t][p] # 0
    BY <1>5, <1>7 DEF FoundPlatforms
  <2> QED
    BY <1>2, <2>1
<1>8. ASSUME spelled = {}
      PROVE  platforms[s][p] = IF p = Universal \/ artifacts[s][p] # 0
                               THEN versions[s].content ELSE 0
  <2>1. found.platforms[t][p] = 0
    BY <1>4, <1>5, <1>8 DEF FoundPlatforms
  <2>2. /\ platforms[s][Universal] = 0 => versions[s].content = 0
        /\ platforms[s][p] = 0 /\ artifacts[s][p] # 0 => versions[s].content = 0
    BY DEF StartupInv, RowsInv, FromSnapshot, FromPerArtifact, FromUniversal, FromCanonical
  <2> QED
    BY <1>2, <2>1, <2>2
<1> HIDE DEF before, spelled
<1>9. IF spelled # {} THEN KeptOf(platforms[s][p], before, s.base, 0)
      ELSE platforms[s][p] = IF p = Universal \/ artifacts[s][p] # 0
                             THEN versions[s].content ELSE 0
    BY <1>6, <1>7, <1>8
<1> QED
    BY <1>9 DEF before, spelled

(* The server comes up with the database it found: every release, file,
   platform and download once, under its canonical version. *)
THEOREM NothingLostTheorem == Spec => []NothingLost
<1>1. ASSUME StartupInv, stage = "up"
      PROVE  NothingLost
  <2> USE DEF StartupInv
  <2>1. Canonicalized /\ item.content = found.item.content
    BY <1>1 DEF RowsInv, FromUniversal, FromCanonical
  <2>2. /\ \A t \in Tables : kind[t] = kind["items"]
        /\ kind["items"] = IF found.type = SandboxType THEN "sandbox-image" ELSE found.type
        /\ item.latest = Plain(found.item.latest)
    BY <2>1, RenamedTables DEF Canonicalized, Today
  <2>3. ASSUME NEW s \in Stored, s.mark # ""
        PROVE  /\ ~Exists(s) /\ downloads[s] = 0
               /\ \A p \in Platforms : artifacts[s][p] = 0 /\ platforms[s][p] = 0
    BY <2>1, <2>3, VersionTypes DEF Canonicalized, Unmarked, Exists
  <2>4. ASSUME NEW s \in Stored, Unmarked(s)
        PROVE  KeptOf(versions[s].content, [t \in Stored |-> found.versions[t].content], s.base, 0)
    <3> DEFINE before == [t \in Stored |-> found.versions[t].content]
    <3>1. PICK t \in Stored : /\ Chosen(FoundReleases, s, t)
                              /\ versions[s].content = found.versions[t].content
      BY <2>1, <2>4 DEF Canonicalized, ReleaseKept
    <3>2. {u \in Stored : before[u] # 0} = FoundReleases /\ before[t] = versions[s].content
      BY <3>1 DEF FoundReleases
    <3>3. KeptOf(before[t], before, s.base, 0)
      <4> HIDE DEF before
      <4> QED
        BY <2>4, <3>1, <3>2, ChosenIsKept
    <3> QED
      BY <3>2, <3>3
  <2>5. ASSUME NEW s \in Stored, Unmarked(s), NEW p \in Platforms
        PROVE  KeptOf(artifacts[s][p], [t \in Stored |-> found.artifacts[t][p]], s.base, 0)
    <3> DEFINE before == [t \in Stored |-> found.artifacts[t][p]]
    <3>1. PICK t \in Stored : Chosen(FoundFiles(p), s, t) /\ artifacts[s][p] = found.artifacts[t][p]
      BY <2>1, <2>5 DEF Canonicalized, FileKept
    <3>2. {u \in Stored : before[u] # 0} = FoundFiles(p) /\ before[t] = artifacts[s][p]
      BY <3>1 DEF FoundFiles
    <3>3. KeptOf(before[t], before, s.base, 0)
      <4> HIDE DEF before
      <4> QED
        BY <2>5, <3>1, <3>2, ChosenIsKept
    <3> QED
      BY <3>2, <3>3
  <2>6. ASSUME NEW s \in Stored, s.mark = ""
        PROVE  Unmarked(s) /\ downloads[s] = Total(found.downloads, s.base)
    BY <2>1, <2>6 DEF Canonicalized, Unmarked
  <2> QED
    BY <1>1, <2>1, <2>2, <2>3, <2>4, <2>5, <2>6, PlatformsComplete DEF NothingLost
<1>2. StartupInv => NothingLost
    BY <1>1 DEF NothingLost
<1> QED
    BY <1>2, StartupInvariant, PTL

(* No start-up, finished or cut off, gives a component or a release to somebody
   else; one that is not cut off leaves none without its creator. *)
THEOREM CreatorsTheorem == Spec => []CreatorsKept
<1>1. ASSUME StartupInv
      PROVE  CreatorsKept
  <2> USE <1>1 DEF StartupInv
  <2>1. \/ item.creator = found.item.creator
        \/ found.item.creator = Nobody /\ item.creator = found.item.owner
    BY DEF CreatorsInv
  <2>2. ASSUME NEW s \in Stored, versions[s].creator # Nobody
        PROVE  \E t \in Stored :
                  /\ t.base = s.base /\ found.versions[t].content # 0
                  /\ versions[s].creator =
                        IF found.versions[t].creator # Nobody THEN found.versions[t].creator
                        ELSE IF found.item.creator = Nobody THEN found.item.owner ELSE Nobody
    <3>1. versions[s].content # 0 /\ versions[s] # None
      <4>1. versions[s] \in Version /\ None.creator = Nobody
        BY StoreTypes DEF None
      <4> QED
        BY <2>2, <4>1, VersionTypes
    <3>2. PICK t \in Stored : /\ t.base = s.base
                              /\ versions[s].content = found.versions[t].content
                              /\ CreatorOf(s, t)
      <4>1. CASE Original
        BY <4>1 DEF Original
      <4>2. CASE Canonicalized
        <5>1. ReleaseKept(s)
          BY <3>1, <4>2 DEF Canonicalized
        <5> QED
          BY <5>1 DEF ReleaseKept, Chosen
      <4> QED
        BY <4>1, <4>2 DEF RowsInv
    <3> QED
      BY <2>2, <3>1, <3>2 DEF CreatorOf
  <2>3. ASSUME stage = "up", crashes = 0, found.item.creator = Nobody, found.item.owner # Nobody
        PROVE  \A s \in Stored : Exists(s) => versions[s].creator # Nobody
    BY <2>3 DEF CreatorsInv, AllCreated, Exists, FromItemDate, FromCanonical
  <2> QED
    BY <2>1, <2>2, <2>3 DEF CreatorsKept
<1> QED
    BY <1>1, StartupInvariant, PTL

\* The release the item shows can be restored whole once the server is up.
THEOREM SnapshotTheorem == Spec => []SnapshotComplete
<1>1. ASSUME StartupInv, stage = "up", item.content # 0
      PROVE  LET row == versions[item.latest] IN
             /\ Exists(item.latest)
             /\ \/ \E s \in Stored : /\ row.snapshot = found.versions[s].snapshot
                                     /\ row.snapshot # NoSnapshot
                \/ row.snapshot = [content |-> item.content, tags |-> TRUE,
                                   platform |-> platforms[item.latest][Universal]]
  <2> USE <1>1 DEF StartupInv
  <2>1. Canonicalized /\ versions[item.latest].snapshot.content # 0
    BY DEF RowsInv, SnapshotInv, FromUniversal, FromCanonical
  <2>2. item.latest \in Stored /\ versions[item.latest] \in Version
    BY StoreTypes DEF Item
  <2>3. None.snapshot.content = 0 /\ NoSnapshot.content = 0
    BY DEF None, NoSnapshot
  <2>4. versions[item.latest] # None /\ versions[item.latest].content # 0
    BY <2>1, <2>2, <2>3, VersionTypes
  <2>5. ReleaseKept(item.latest)
    BY <2>1, <2>2, <2>4 DEF Canonicalized
  <2> QED
    BY <2>1, <2>3, <2>4, <2>5 DEF ReleaseKept, Made, Exists
<1>2. StartupInv => SnapshotComplete
    BY <1>1 DEF SnapshotComplete
<1> QED
    BY <1>2, StartupInvariant, PTL

(* The part of ComesUp that needs no fairness: main never gives up when the
   current release has a row in any spelling.  Wherever earlier start-ups were
   cut off, no statement meets a column that is not there yet, and the last
   check finds the release, and its snapshot made. *)
NeverRefused == [][CurrentFound => ~GiveUp]_vars

(* No start-up of such a database is refused. *)
THEOREM NeverRefusedTheorem == Spec => NeverRefused
<1>1. ASSUME StartupInv, CurrentFound, GiveUp
      PROVE  FALSE
  <2>1. stage = "verify"
    BY <1>1, GivesUpAtTheEnd DEF StartupInv, ShapeInv
  <2>2. Needs(stage) \subseteq columns
    BY <1>1, ColumnsThere DEF StartupInv, ShapeInv
  <2> QED
    BY <1>1, <2>1, <2>2 DEF GiveUp, StartupInv, SnapshotInv
<1>2. StartupInv /\ [Next]_vars => [CurrentFound => ~GiveUp]_vars
    BY <1>1
<1> QED
    BY <1>2, StartupInvariant, PTL DEF Spec, NeverRefused
=============================================================================
