------------------------- MODULE CatalogReadsProofs -------------------------
(***************************************************************************)
(* Proofs about requests that read the catalog, for any number of them.    *)
(***************************************************************************)
EXTENDS CatalogReads, ReleaseProofs, SequenceTheorems

USE DEF MaxAttempts, Backfilled

-----------------------------------------------------------------------------
(* The queries of a request *)

LEMMA OperationNames ==
    Operations = {"page", "versions", "resolve", "download", "package", "fetch", "view"}
BY DEF Operations, Queries

QueryNames == {"item", "tags", "files", "specs", "releases", "listedFiles", "listedSpecs",
               "ensure", "platform", "artifact", "latest", "manifest", "record"}

\* A request that shows the page and then asks more, asks that in its order.
LEMMA AfterPage ==
    ASSUME NEW t \in Seq(QueryNames)
    PROVE  /\ Len(Page \o t) = 4 + Len(t)
           /\ (Page \o t)[1] = "item"
           /\ \A i \in 1 .. 4 + Len(t) :
                 /\ i <= 4 => (Page \o t)[i] \in {"item", "tags", "files", "specs"}
                 /\ i > 4 => (Page \o t)[i] = t[i - 4]
<1>1. Page \in Seq(QueryNames) /\ Len(Page) = 4
    BY DEF Page, QueryNames
<1>2. \A i \in 1 .. 4 : Page[i] \in {"item", "tags", "files", "specs"}
    BY DEF Page
<1> DEFINE all == Page \o t
<1>3. /\ Len(all) = Len(Page) + Len(t)
      /\ \A i \in 1 .. Len(Page) + Len(t) :
            all[i] = IF i <= Len(Page) THEN Page[i] ELSE t[i - Len(Page)]
    BY <1>1, ConcatProperties
<1>4. Len(t) \in Nat
    OBVIOUS
<1> HIDE DEF all
<1>5. ASSUME NEW i \in 1 .. 4 + Len(t)
      PROVE  /\ i <= 4 => all[i] \in {"item", "tags", "files", "specs"}
             /\ i > 4 => all[i] = t[i - 4]
  <2>1. CASE i <= 4
    BY <1>1, <1>2, <1>3, <1>4, <2>1
  <2>2. CASE i > 4
    BY <1>1, <1>3, <1>4, <2>2
  <2> QED
    BY <1>4, <2>1, <2>2
<1>6. all[1] = "item"
    BY <1>1, <1>3, <1>4 DEF Page
<1> QED
    BY <1>1, <1>3, <1>5, <1>6 DEF all

\* Where a request that downloads looks for its file.
ArtifactAt(op) == IF op = "download" THEN 2 ELSE 6

\* The counting query is the last one, and a download's comes after its file.
Ordered(op, queries) ==
    /\ Len(queries) \in 1 .. 8
    /\ op = "view" => Len(queries) = 1 /\ queries[1] = "count"
    /\ \A i \in 1 .. Len(queries) :
          /\ queries[i] = "count" => op = "view"
          /\ queries[i] = "record" => /\ op \in {"download", "package"}
                                      /\ i = Len(queries) /\ i > ArtifactAt(op)
          /\ op \in {"download", "package"} /\ i = ArtifactAt(op) => queries[i] = "artifact"

\* A page, and what is asked after it.
LEMMA PageOrdered ==
    ASSUME NEW op \in {"versions", "resolve", "package"},
           NEW t \in Seq(QueryNames), Len(t) \in {3, 4},
           op = "package" => t[2] = "artifact",
           \A i \in 1 .. Len(t) : t[i] # "count" /\
               (t[i] = "record" => op = "package" /\ i = Len(t) /\ i > 2)
    PROVE  Ordered(op, Page \o t)
<1> DEFINE all == Page \o t
<1>1. /\ Len(all) = 4 + Len(t)
      /\ \A i \in 1 .. 4 + Len(t) :
            /\ i <= 4 => all[i] \in {"item", "tags", "files", "specs"}
            /\ i > 4 => all[i] = t[i - 4]
    BY AfterPage
<1> HIDE DEF all
<1>2. ASSUME NEW i \in 1 .. Len(all)
      PROVE  /\ all[i] # "count"
             /\ all[i] = "record" => op = "package" /\ i = Len(all) /\ i > 6
             /\ op = "package" /\ i = 6 => all[i] = "artifact"
  <2>1. CASE i <= 4
    <3>1. all[i] \in {"item", "tags", "files", "specs"}
      BY <1>1, <2>1
    <3> QED
      BY <2>1, <3>1
  <2>2. CASE i > 4
    <3>1. all[i] = t[i - 4] /\ i - 4 \in 1 .. Len(t)
      BY <1>1, <2>2
    <3>2. /\ t[i - 4] # "count"
          /\ t[i - 4] = "record" => op = "package" /\ i - 4 = Len(t) /\ i - 4 > 2
      BY <3>1
    <3> QED
      BY <1>1, <3>1, <3>2
  <2> QED
    BY <1>1, <2>1, <2>2
<1>3. Len(all) \in 1 .. 8
  <2>1. Len(t) = 3 => Len(all) = 7
    BY <1>1
  <2>2. Len(t) = 4 => Len(all) = 8
    BY <1>1
  <2> QED
    BY <2>1, <2>2
<1> QED
    BY <1>2, <1>3 DEF Ordered, ArtifactAt, all

LEMMA ShortOrdered ==
    /\ Ordered("page", Page)
    /\ Ordered("download", <<"latest", "artifact", "record">>)
    /\ Ordered("fetch", <<"path">>)
    /\ Ordered("view", <<"count">>)
<1>1. Ordered("page", Page)
  <2>1. Len(Page) = 4 /\ \A i \in 1 .. 4 : Page[i] \notin {"count", "record"}
    BY DEF Page
  <2> QED
    BY <2>1 DEF Ordered
<1>2. ASSUME NEW t, t = <<"latest", "artifact", "record">>
      PROVE  Ordered("download", t)
  <2>1. Len(t) = 3 /\ t[1] = "latest" /\ t[2] = "artifact" /\ t[3] = "record"
    BY <1>2
  <2>2. \A i \in 1 .. 3 : i = 1 \/ i = 2 \/ i = 3
    OBVIOUS
  <2> QED
    BY <2>1, <2>2 DEF Ordered, ArtifactAt
<1>3. ASSUME NEW t, t = <<"path">>
      PROVE  Ordered("fetch", t)
  <2>1. Len(t) = 1 /\ t[1] = "path"
    BY <1>3
  <2> QED
    BY <2>1 DEF Ordered
<1>4. ASSUME NEW t, t = <<"count">>
      PROVE  Ordered("view", t)
  <2>1. Len(t) = 1 /\ t[1] = "count"
    BY <1>4
  <2> QED
    BY <2>1 DEF Ordered
<1> QED
    BY <1>1, <1>2, <1>3, <1>4

LEMMA QueryOrder ==
    ASSUME NEW op \in Operations
    PROVE  Ordered(op, Queries[op])
<1>1. /\ Queries["page"] = Page
      /\ Queries["download"] = <<"latest", "artifact", "record">>
      /\ Queries["fetch"] = <<"path">>
      /\ Queries["view"] = <<"count">>
      /\ Queries["versions"] = Page \o <<"releases", "listedFiles", "listedSpecs">>
      /\ Queries["resolve"] = Page \o <<"ensure", "platform", "artifact">>
      /\ Queries["package"] = Page \o <<"latest", "artifact", "manifest", "record">>
    BY DEF Queries
<1>2. CASE op \in {"page", "download", "fetch", "view"}
    BY <1>1, <1>2, ShortOrdered
<1>3. CASE op \in {"versions", "resolve"}
  <2>1. PICK t \in {<<"releases", "listedFiles", "listedSpecs">>,
                    <<"ensure", "platform", "artifact">>} : Queries[op] = Page \o t
    BY <1>1, <1>3
  <2>2. /\ t \in Seq(QueryNames) /\ Len(t) = 3
        /\ \A i \in 1 .. 3 : t[i] \notin {"count", "record"}
    <3>1. CASE t = <<"releases", "listedFiles", "listedSpecs">>
      BY <3>1 DEF QueryNames
    <3>2. CASE t = <<"ensure", "platform", "artifact">>
      BY <3>2 DEF QueryNames
    <3> QED
      BY <3>1, <3>2
  <2>3. Ordered(op, Page \o t)
    <3>1. op \in {"versions", "resolve", "package"} /\ op # "package"
      BY <1>3
    <3>2. \A i \in 1 .. Len(t) : t[i] # "count" /\
              (t[i] = "record" => op = "package" /\ i = Len(t) /\ i > 2)
      BY <2>2
    <3> QED
      BY <2>2, <3>1, <3>2, PageOrdered
  <2> QED
    BY <2>1, <2>3
<1>4. CASE op = "package"
  <2> DEFINE t == <<"latest", "artifact", "manifest", "record">>
  <2>1. /\ t \in Seq(QueryNames) /\ Len(t) = 4 /\ t[2] = "artifact"
        /\ \A i \in 1 .. 4 : t[i] # "count" /\ (t[i] = "record" => i = 4)
    BY DEF QueryNames
  <2>2. Queries[op] = Page \o t
    BY <1>1, <1>4
  <2> HIDE DEF t
  <2>3. \A i \in 1 .. Len(t) : t[i] # "count" /\
            (t[i] = "record" => op = "package" /\ i = Len(t) /\ i > 2)
    BY <1>4, <2>1
  <2>4. Ordered("package", Page \o t)
    BY <1>4, <2>1, <2>3, PageOrdered
  <2> QED
    BY <1>4, <2>2, <2>4
<1> QED
    BY <1>2, <1>3, <1>4, OperationNames

-----------------------------------------------------------------------------
(* The inductive invariant *)

HasRelease == item.published => item.latest # NoVersion

\* A part of an answer was public in one of the states that offered o; what a
\* version list reads of a release, if the release was.
PartPublic(part, o) ==
    IF part.kind \in {"listedFile", "listedSpec"}
    THEN \E other \in o : other.kind = "release" /\ other.version = part.version
    ELSE part \in o
WasPublic(q, o) == \A part \in q.found : PartPublic(part, o)

HasFile(o) == \E part \in o : part.kind = "file"

(* Only a request's last query counts, and that of a download comes after the
   one that found its file. *)
Counts(q, o) ==
    /\ q.counted \in {0, 1}
    /\ q.counted = 1 => /\ q.op \in Operations /\ q.at > Len(Queries[q.op])
                        /\ \E part \in o : part.kind \in {"item", "file"}
    /\ q.op = "view" /\ q.at > 1 /\ ~q.failed => q.counted = 1
    /\ q.op \in {"download", "package"} /\ q.at > ArtifactAt(q.op) => HasFile(o)

Fine(q, o) ==
    /\ q \in Request
    /\ o \subseteq Part
    /\ Counts(q, o)
    /\ Discipline => WasPublic(q, o)

ReadInv ==
    /\ LifecycleInv
    /\ HasRelease
    /\ Discipline => ShelfInv
    /\ reader \in [Readers -> Request]
    /\ offered \in [Readers -> SUBSET Part]
    /\ \A r \in Readers : /\ Fine(reader[r], offered[r])
                          /\ IF Busy(r) THEN PublicParts \subseteq offered[r]
                             ELSE offered[r] = {}

-----------------------------------------------------------------------------
(* What is public *)

LEMMA PublicPartsType == TypeOK /\ HasRelease => PublicParts \subseteq Part
<1> SUFFICES ASSUME TypeOK, HasRelease, NEW part \in PublicParts PROVE part \in Part
    OBVIOUS
<1>1. OnShelf
    BY DEF PublicParts
<1>2. item.latest \in Versions /\ item.content \in Content
    BY <1>1 DEF OnShelf, HasRelease, TypeOK, ItemRow
<1>3. CASE part \in {Whole(kind, item.latest, item.content) : kind \in {"item", "tags"}}
    BY <1>2, <1>3, InputsAssumption DEF Whole, Part, Kinds
<1>4. CASE \E v \in PublishedReleases : part \in FilesOf(v)
    BY <1>4 DEF FilesOf, Of, Part, Kinds, PublishedReleases, TypeOK
<1>5. CASE \E v \in PublishedReleases : part \in SpecsOf(v)
  <2>1. PICK v \in PublishedReleases, p \in Platforms :
            part = Of("spec", v, p, platforms[v][p].content)
    BY <1>5 DEF SpecsOf
  <2>2. v \in Versions /\ platforms[v][p].content \in Content \cup {Backfilled}
    BY <2>1 DEF PublishedReleases, TypeOK, PlatformRow
  <2> QED
    BY <2>1, <2>2 DEF Of, Part, Kinds
<1>6. CASE \E v \in PublishedReleases : part = Whole("release", v, versions[v].content)
    BY <1>6, InputsAssumption DEF Whole, Part, Kinds, PublishedReleases, TypeOK, VersionRow
<1> QED
    BY <1>1, <1>3, <1>4, <1>5, <1>6 DEF PublicParts

LEMMA PublicPartsKept == UNCHANGED vars => PublicParts' = PublicParts
BY DEF vars, PublicParts, OnShelf, PublishedReleases, FilesOf, SpecsOf, Whole, Of

LEMMA PublicIsPublic ==
    ASSUME NEW o, PublicParts \subseteq o, NEW part \in PublicParts
    PROVE  PartPublic(part, o)
<1>1. part.kind \notin {"listedFile", "listedSpec"}
    BY DEF PublicParts, FilesOf, SpecsOf, Whole, Of
<1> QED
    BY <1>1 DEF PartPublic

\* In a market without suspensions the releases that are published are public.
LEMMA PublishedOnShelf ==
    ASSUME ShelfInv, NEW v \in PublishedReleases
    PROVE  OnShelf
BY DEF ShelfInv, ShelfShowsNewest, ShownIsLive, OnShelf

-----------------------------------------------------------------------------
(* One request *)

LEMMA IdleFine == ASSUME NEW o \in SUBSET Part PROVE Fine(Idle, o)
<1>1. Idle \in Request
    BY InputsAssumption DEF Idle, Request
<1> QED
    BY <1>1 DEF Idle, Fine, Counts, WasPublic, ArtifactAt

\* More states offer more.
LEMMA FineGrows ==
    ASSUME NEW q, NEW o, Fine(q, o), NEW more \in SUBSET Part, o \subseteq more
    PROVE  Fine(q, more)
BY DEF Fine, Counts, WasPublic, PartPublic, HasFile

\* A query that counts nothing: the request has more and goes on.
LEMMA FineAsked ==
    ASSUME NEW q, NEW o, Fine(q, o), q.op \in Operations, q.at <= Len(Queries[q.op]),
           Queries[q.op][q.at] \notin {"count", "record"},
           Queries[q.op][q.at] = "artifact" => q.op = "resolve" \/ HasFile(o),
           NEW parts \in SUBSET Part, Discipline => \A part \in parts : PartPublic(part, o),
           NEW n \in Request, n.op = q.op, n.at = q.at + 1,
           n.found = q.found \cup parts, n.counted = q.counted
    PROVE  Fine(n, o)
<1>1. q.at \in 1 .. Len(Queries[q.op]) /\ Ordered(q.op, Queries[q.op])
    BY QueryOrder DEF Fine, Request, Ordered
<1>2. q.counted = 0 /\ q.op # "view"
    BY <1>1 DEF Fine, Counts, Ordered
<1>3. q.op \in {"download", "package"} /\ q.at + 1 > ArtifactAt(q.op) => HasFile(o)
  <2>1. q.at + 1 > ArtifactAt(q.op) => q.at > ArtifactAt(q.op) \/ q.at = ArtifactAt(q.op)
    BY <1>1 DEF ArtifactAt, Ordered
  <2> QED
    BY <1>1, <2>1 DEF Fine, Counts, Ordered
<1>4. Discipline => WasPublic(n, o)
    BY DEF Fine, WasPublic
<1> QED
    BY <1>2, <1>3, <1>4 DEF Fine, Counts

\* A query that has to be asked once more.
LEMMA FineAgain ==
    ASSUME NEW q, NEW o, Fine(q, o), NEW n \in Request, n.op = q.op, n.at = q.at,
           n.found = q.found, n.counted = q.counted, n.failed = q.failed
    PROVE  Fine(n, o)
BY DEF Fine, Counts, WasPublic

\* The counting query: the last one.
LEMMA FineCounted ==
    ASSUME NEW q, NEW o, Fine(q, o), q.op \in Operations, q.at <= Len(Queries[q.op]),
           Queries[q.op][q.at] \in {"count", "record"},
           NEW parts \in SUBSET Part, Discipline => \A part \in parts : PartPublic(part, o),
           NEW k \in {0, 1}, k = 1 => \E part \in o : part.kind \in {"item", "file"},
           NEW n \in Request, n.op = q.op, n.at = q.at + 1,
           n.found = q.found \cup parts, n.counted = q.counted + k,
           q.op = "view" => k = 1 \/ n.failed
    PROVE  Fine(n, o)
<1>1. q.at \in 1 .. Len(Queries[q.op]) /\ Ordered(q.op, Queries[q.op])
    BY QueryOrder DEF Fine, Request, Ordered
<1>2. q.counted = 0 /\ q.at = Len(Queries[q.op])
    BY <1>1 DEF Fine, Counts, Ordered
<1>3. q.op \in {"download", "package"} => HasFile(o)
    BY <1>1 DEF Fine, Counts, Ordered
<1>4. Discipline => WasPublic(n, o)
    BY DEF Fine, WasPublic
<1> QED
    BY <1>1, <1>2, <1>3, <1>4 DEF Fine, Counts, Ordered

-----------------------------------------------------------------------------
(* Steps of requests *)

\* What a running request has been offered when its next query is done.
OfferedNow(r) == offered[r] \cup PublicParts

LEMMA OfferedNowType ==
    ASSUME ReadInv, NEW r \in Readers
    PROVE  /\ OfferedNow(r) \in SUBSET Part
           /\ PublicParts \in SUBSET Part
           /\ Fine(reader[r], OfferedNow(r))
<1>1. PublicParts \subseteq Part /\ offered[r] \subseteq Part
    BY PublicPartsType DEF ReadInv, LifecycleInv
<1>2. Fine(reader[r], offered[r])
    BY DEF ReadInv
<1> QED
    BY <1>1, <1>2, FineGrows DEF OfferedNow

LEMMA ReaderMoves ==
    ASSUME ReadInv, NEW r \in Readers, NEW n, Moves(r, n), Witness,
           n.op # NoRequest => Fine(n, OfferedNow(r)),
           n.op = NoRequest => Fine(n, {})
    PROVE  ReadInv'
<1>1. PublicParts' = PublicParts /\ PublicParts \subseteq Part
    BY PublicPartsKept, OfferedNowType DEF Moves
<1>2. n \in Request
    BY DEF Fine
<1>3. /\ reader' \in [Readers -> Request]
      /\ reader'[r] = n
      /\ \A g \in Readers \ {r} : reader'[g] = reader[g]
    BY <1>2 DEF ReadInv, Moves
<1>4. \A g \in Readers : offered'[g] = IF reader'[g].op = NoRequest THEN {}
                                       ELSE offered[g] \cup PublicParts
    BY <1>1 DEF Witness
<1>5. offered' \in [Readers -> SUBSET Part]
    BY <1>1 DEF Witness, ReadInv
<1>6. ASSUME NEW g \in Readers
      PROVE  /\ Fine(reader'[g], offered'[g])
             /\ IF reader'[g].op # NoRequest THEN PublicParts \subseteq offered'[g]
                ELSE offered'[g] = {}
  <2>1. CASE g = r
    BY <1>3, <1>4, <2>1 DEF OfferedNow
  <2>2. CASE g # r /\ reader[g].op # NoRequest
    BY <1>3, <1>4, <2>2, OfferedNowType DEF OfferedNow
  <2>3. CASE g # r /\ reader[g].op = NoRequest
    <3>1. reader'[g] = reader[g] /\ offered'[g] = {}
      BY <1>3, <1>4, <2>3
    <3> QED
      BY <3>1, <2>3 DEF ReadInv, Busy
  <2> QED
    BY <2>1, <2>2, <2>3
<1>7. LifecycleInv' /\ HasRelease' /\ (Discipline => ShelfInv')
  <2>1. UNCHANGED vars
    BY DEF Moves
  <2>2. LifecycleInv' /\ (Discipline => ShelfInv')
    BY <2>1, NextInv, ShelfNext DEF ReadInv
  <2> QED
    BY <2>1, <2>2 DEF ReadInv, HasRelease, vars
<1> QED
    BY <1>1, <1>3, <1>5, <1>6, <1>7 DEF ReadInv, Busy

LEMMA FindsType ==
    ASSUME NEW q \in Request, q.at \in 1 .. 8, NEW parts \in SUBSET Part
    PROVE  LET m == Finds(q, parts) IN
           /\ m \in Request /\ m.op = q.op /\ m.at = q.at + 1
           /\ m.found = q.found \cup parts /\ m.counted = q.counted
<1> DEFINE at == q.at + 1
           try == 1
           found == q.found \cup parts
           m == [q EXCEPT !.at = at, !.try = try, !.found = found]
<1>1. at \in 1 .. 9 /\ try \in 1 .. MaxAttempts /\ found \in SUBSET Part
    BY DEF Request
<1>2. Finds(q, parts) = m
    BY DEF Finds
<1>3. m \in Request /\ m.op = q.op /\ m.at = at /\ m.found = found /\ m.counted = q.counted
  <2> HIDE DEF at, try, found
  <2> QED
    BY <1>1 DEF Request
<1> HIDE DEF m
<1> QED
    BY <1>2, <1>3

LEMMA EndsInv ==
    ASSUME ReadInv, NEW r \in Readers, Ends(r), Witness
    PROVE  ReadInv'
<1>1. {} \in SUBSET Part /\ OfferedNow(r) \in SUBSET Part
    BY OfferedNowType
<1> QED
    BY <1>1, IdleFine, ReaderMoves DEF Ends

LEMMA BeginInv ==
    ASSUME ReadInv, NEW r \in Readers, Begin(r), Witness
    PROVE  ReadInv'
<1>1. PICK op \in Operations, p \in Platforms, v \in Versions \cup {NoVersion} :
          Moves(r, [Idle EXCEPT !.op = op, !.platform = p, !.want = v])
    BY DEF Begin
<1> DEFINE n == [Idle EXCEPT !.op = op, !.platform = p, !.want = v]
<1>2. /\ n \in Request /\ n.op = op /\ n.at = 1 /\ n.found = {} /\ n.counted = 0
  <2>1. Idle \in Request
    BY IdleFine DEF Fine
  <2>2. n \in Request /\ n.op = op
    BY <2>1 DEF Request
  <2>3. n.at = Idle.at /\ n.found = Idle.found /\ n.counted = Idle.counted
    BY <2>1 DEF Request
  <2> HIDE DEF n
  <2> QED
    BY <2>2, <2>3 DEF Idle
<1>3. \A o \in SUBSET Part : Fine(n, o)
  <2> HIDE DEF n
  <2> QED
    BY <1>2 DEF Fine, Counts, WasPublic, ArtifactAt
<1>4. {} \in SUBSET Part /\ OfferedNow(r) \in SUBSET Part
    BY OfferedNowType
<1>5. Moves(r, n)
    BY <1>1
<1> HIDE DEF n
<1> QED
    BY <1>3, <1>4, <1>5, ReaderMoves

\* What a running request is and where it stands.
LEMMA AtQuery ==
    ASSUME ReadInv, NEW r \in Readers, NEW query, At(r, query)
    PROVE  /\ reader[r] \in Request /\ Fine(reader[r], OfferedNow(r))
           /\ reader[r].op \in Operations /\ reader[r].op # NoRequest
           /\ reader[r].at \in 1 .. 8
           /\ reader[r].at <= Len(Queries[reader[r].op])
           /\ Queries[reader[r].op][reader[r].at] = query
<1>1. /\ reader[r] \in Request /\ Fine(reader[r], OfferedNow(r))
      /\ reader[r].op \in Operations /\ reader[r].op # NoRequest
      /\ Queries[reader[r].op][reader[r].at] = query
      /\ ~(reader[r].at > Len(Queries[reader[r].op]))
    BY OfferedNowType DEF ReadInv, At, Busy, Answered, Request
<1> DEFINE len == Len(Queries[reader[r].op])
           at == reader[r].at
<1>2. len \in 1 .. 8 /\ at \in 1 .. 9 /\ ~(at > len)
    BY <1>1, QueryOrder DEF Ordered, Request
<1>3. at \in 1 .. 8 /\ at <= len
  <2> HIDE DEF len, at
  <2> QED
    BY <1>2
<1> QED
    BY <1>1, <1>3

\* A query that finds parts, and names the version the next ones ask for.
LEMMA AskedInv ==
    ASSUME ReadInv, NEW r \in Readers, Witness,
           NEW query, At(r, query), query \notin {"count", "record"},
           NEW parts \in SUBSET Part, NEW w \in Versions \cup {NoVersion},
           query = "artifact" => reader[r].op = "resolve" \/ HasFile(OfferedNow(r)),
           Discipline => \A part \in parts : PartPublic(part, OfferedNow(r)),
           Moves(r, [Finds(reader[r], parts) EXCEPT !.version = w])
    PROVE  ReadInv'
<1> DEFINE q == reader[r]
           o == OfferedNow(r)
           m == Finds(q, parts)
           n == [m EXCEPT !.version = w]
<1>1. /\ q \in Request /\ Fine(q, o) /\ q.op \in Operations /\ q.op # NoRequest
      /\ q.at \in 1 .. 8 /\ q.at <= Len(Queries[q.op]) /\ Queries[q.op][q.at] = query
    BY AtQuery
<1>2. /\ n \in Request /\ n.op = q.op /\ n.at = q.at + 1
      /\ n.found = q.found \cup parts /\ n.counted = q.counted
  <2>1. /\ m \in Request /\ m.op = q.op /\ m.at = q.at + 1
        /\ m.found = q.found \cup parts /\ m.counted = q.counted
    BY <1>1, FindsType
  <2> HIDE DEF m
  <2>3. n \in Request /\ n.op = m.op /\ n.at = m.at /\ n.found = m.found /\ n.counted = m.counted
    BY <2>1 DEF Request
  <2> QED
    BY <2>1, <2>3
<1>3. Moves(r, n)
    OBVIOUS
<1>4. query = "artifact" => q.op = "resolve" \/ HasFile(o)
    OBVIOUS
<1>5. Discipline => \A part \in parts : PartPublic(part, o)
    OBVIOUS
<1>6. Fine(n, o)
  <2> HIDE DEF q, o, n
  <2> QED
    BY <1>1, <1>2, <1>4, <1>5, FineAsked
<1> HIDE DEF n
<1> QED
    BY <1>1, <1>2, <1>3, <1>6, ReaderMoves

\* The same when the version stays.
LEMMA FoundInv ==
    ASSUME ReadInv, NEW r \in Readers, Witness,
           NEW query, At(r, query), query \notin {"count", "record"},
           NEW parts \in SUBSET Part,
           query = "artifact" => reader[r].op = "resolve" \/ HasFile(OfferedNow(r)),
           Discipline => \A part \in parts : PartPublic(part, OfferedNow(r)),
           Moves(r, Finds(reader[r], parts))
    PROVE  ReadInv'
<1> DEFINE w == reader[r].version
<1>1. reader[r] \in Request
    BY AtQuery
<1>2. w \in Versions \cup {NoVersion}
    BY <1>1 DEF Request
<1>3. Finds(reader[r], parts) = [Finds(reader[r], parts) EXCEPT !.version = w]
    BY <1>1 DEF Request, Finds
<1>4. Moves(r, [Finds(reader[r], parts) EXCEPT !.version = w])
    BY <1>3
<1> HIDE DEF w
<1> QED
    BY <1>2, <1>4, AskedInv

\* What is public when a query is done may be in the answer.
LEMMA PublicFound ==
    ASSUME ReadInv, NEW r \in Readers, NEW parts \in SUBSET PublicParts
    PROVE  /\ parts \in SUBSET Part
           /\ Discipline => \A part \in parts : PartPublic(part, OfferedNow(r))
<1>1. PublicParts \subseteq OfferedNow(r)
    BY DEF OfferedNow
<1> QED
    BY <1>1, OfferedNowType, PublicIsPublic

LEMMA PublicOf ==
    ASSUME NEW v, Public(v)
    PROVE  /\ v \in Versions /\ OnShelf
           /\ FilesOf(v) \subseteq PublicParts /\ SpecsOf(v) \subseteq PublicParts
           /\ Whole("release", v, versions[v].content) \in PublicParts
BY DEF Public, PublishedReleases, PublicParts

LEMMA PublicItem ==
    ASSUME ReadInv, OnShelf
    PROVE  /\ item.latest \in Versions
           /\ Whole("item", item.latest, item.content) \in PublicParts
           /\ Whole("tags", item.latest, item.content) \in PublicParts
BY DEF ReadInv, HasRelease, OnShelf, PublicParts, LifecycleInv, TypeOK, ItemRow

LEMMA ItemInv ==
    ASSUME ReadInv, NEW r \in Readers, QueryItem(r), Witness
    PROVE  ReadInv'
<1>1. CASE OnShelf
  <2> DEFINE parts == {Whole("item", item.latest, item.content)}
             w == item.latest
             query == "item"
  <2>0. query \notin {"count", "record"} /\ query # "artifact"
    OBVIOUS
  <2>1. parts \in SUBSET PublicParts /\ w \in Versions \cup {NoVersion}
    BY <1>1, PublicItem
  <2>2. At(r, query) /\ Moves(r, [Finds(reader[r], parts) EXCEPT !.version = w])
    BY <1>1 DEF QueryItem
  <2> HIDE DEF parts, w, query
  <2>3. /\ parts \in SUBSET Part
        /\ Discipline => \A part \in parts : PartPublic(part, OfferedNow(r))
    BY <2>1, PublicFound
  <2> QED
    BY <2>0, <2>1, <2>2, <2>3, AskedInv
<1>2. CASE ~OnShelf
    BY <1>2, EndsInv DEF QueryItem
<1> QED
    BY <1>1, <1>2

LEMMA TagsInv ==
    ASSUME ReadInv, NEW r \in Readers, QueryTags(r), Witness
    PROVE  ReadInv'
<1> DEFINE parts == IF OnShelf THEN {Whole("tags", item.latest, item.content)} ELSE {}
<1>1. parts \in SUBSET PublicParts
    BY PublicItem
<1>2. At(r, "tags") /\ Moves(r, Finds(reader[r], parts))
    BY DEF QueryTags
<1> HIDE DEF parts
<1> QED
    BY <1>1, <1>2, PublicFound, FoundInv

LEMMA FilesInv ==
    ASSUME ReadInv, NEW r \in Readers, QueryFiles(r), Witness
    PROVE  ReadInv'
<1> DEFINE parts == IF item.latest = reader[r].version /\ Public(item.latest)
                    THEN FilesOf(item.latest) ELSE {}
<1>1. parts \in SUBSET PublicParts
    BY PublicOf
<1>2. At(r, "files") /\ Moves(r, Finds(reader[r], parts))
    BY DEF QueryFiles
<1> HIDE DEF parts
<1> QED
    BY <1>1, <1>2, PublicFound, FoundInv

LEMMA SpecsInv ==
    ASSUME ReadInv, NEW r \in Readers, QuerySpecs(r), Witness
    PROVE  ReadInv'
<1> DEFINE parts == IF item.latest = reader[r].version /\ Public(item.latest)
                    THEN SpecsOf(item.latest) ELSE {}
<1>1. parts \in SUBSET PublicParts
    BY PublicOf
<1>2. At(r, "specs") /\ Moves(r, Finds(reader[r], parts))
    BY DEF QuerySpecs
<1> HIDE DEF parts
<1> QED
    BY <1>1, <1>2, PublicFound, FoundInv

LEMMA ReleasesInv ==
    ASSUME ReadInv, NEW r \in Readers, QueryReleases(r), Witness
    PROVE  ReadInv'
<1> DEFINE parts == {Whole("release", v, versions[v].content) : v \in PublishedReleases}
<1>1. parts \in SUBSET Part
  <2>1. ASSUME NEW v \in PublishedReleases
        PROVE  v \in Versions /\ versions[v].content \in Content
    BY DEF ReadInv, LifecycleInv, TypeOK, VersionRow, PublishedReleases
  <2> QED
    BY <2>1, InputsAssumption DEF Whole, Part, Kinds
<1>2. Discipline => parts \in SUBSET PublicParts
  <2> SUFFICES ASSUME Discipline, NEW v \in PublishedReleases
               PROVE  Whole("release", v, versions[v].content) \in PublicParts
    OBVIOUS
  <2>1. Public(v)
    BY PublishedOnShelf DEF ReadInv, Public
  <2> QED
    BY <2>1, PublicOf
<1>3. At(r, "releases") /\ Moves(r, Finds(reader[r], parts))
    BY DEF QueryReleases
<1> HIDE DEF parts
<1>4. Discipline => \A part \in parts : PartPublic(part, OfferedNow(r))
    BY <1>2, PublicFound
<1> QED
    BY <1>1, <1>3, <1>4, FoundInv

\* Rows of the releases a version list has found.
LEMMA OfListed ==
    ASSUME ReadInv, NEW r \in Readers, NEW query, At(r, query), NEW v \in Listed(r)
    PROVE  /\ v \in Versions
           /\ Discipline => \E other \in OfferedNow(r) : other.kind = "release" /\ other.version = v
<1>1. PICK part \in reader[r].found : part.kind = "release" /\ part.version = v
    BY DEF Listed
<1>2. part \in Part
    BY <1>1, AtQuery DEF Request
<1>3. Discipline => PartPublic(part, OfferedNow(r))
    BY AtQuery DEF Fine, WasPublic
<1> QED
    BY <1>1, <1>2, <1>3 DEF Part, PartPublic

LEMMA ListedInv ==
    ASSUME ReadInv, NEW r \in Readers, QueryListed(r), Witness
    PROVE  ReadInv'
<1>0. TypeOK
    BY DEF ReadInv, LifecycleInv
<1>1. CASE At(r, "listedFiles")
  <2> DEFINE parts == UNION {{Of("listedFile", v, p, artifacts[v][p]) :
                          p \in {q \in Platforms : artifacts[v][q] # 0}} : v \in Listed(r)}
  <2>1. Moves(r, Finds(reader[r], parts))
    <3>1. ~At(r, "listedSpecs")
      BY <1>1 DEF At
    <3> QED
      BY <3>1 DEF QueryListed
  <2>2. ASSUME NEW part \in parts
        PROVE  part \in Part /\ (Discipline => PartPublic(part, OfferedNow(r)))
    <3>1. PICK v \in Listed(r), p \in Platforms : part = Of("listedFile", v, p, artifacts[v][p])
      OBVIOUS
    <3>2. v \in Versions /\ artifacts[v][p] \in Content
      BY <1>0, <1>1, <3>1, OfListed DEF TypeOK
    <3> QED
      BY <1>1, <3>1, <3>2, OfListed DEF Of, Part, Kinds, PartPublic
  <2> HIDE DEF parts
  <2> QED
    BY <1>1, <2>1, <2>2, FoundInv
<1>2. CASE At(r, "listedSpecs")
  <2> DEFINE parts == UNION {{Of("listedSpec", v, p, platforms[v][p].content) :
                          p \in {q \in Platforms : platforms[v][q].content # 0}} :
                              v \in Listed(r)}
  <2>1. Moves(r, Finds(reader[r], parts))
    <3>1. ~At(r, "listedFiles")
      BY <1>2 DEF At
    <3> QED
      BY <3>1 DEF QueryListed
  <2>2. ASSUME NEW part \in parts
        PROVE  part \in Part /\ (Discipline => PartPublic(part, OfferedNow(r)))
    <3>1. PICK v \in Listed(r), p \in Platforms :
              part = Of("listedSpec", v, p, platforms[v][p].content)
      OBVIOUS
    <3>2. v \in Versions /\ platforms[v][p].content \in Content \cup {Backfilled}
      BY <1>0, <1>2, <3>1, OfListed DEF TypeOK, PlatformRow
    <3> QED
      BY <1>2, <3>1, <3>2, OfListed DEF Of, Part, Kinds, PartPublic
  <2> HIDE DEF parts
  <2> QED
    BY <1>2, <2>1, <2>2, FoundInv
<1> QED
    BY <1>1, <1>2 DEF QueryListed

\* A query that finds nothing but a version.
LEMMA VersionInv ==
    ASSUME ReadInv, NEW r \in Readers, Witness,
           NEW query, At(r, query), query \notin {"count", "record", "artifact"},
           NEW w \in Versions \cup {NoVersion},
           Moves(r, [Finds(reader[r], {}) EXCEPT !.version = w])
    PROVE  ReadInv'
<1> DEFINE parts == {}
<1>1. parts \in SUBSET Part /\ \A part \in parts : PartPublic(part, OfferedNow(r))
    OBVIOUS
<1>2. Moves(r, [Finds(reader[r], parts) EXCEPT !.version = w])
    OBVIOUS
<1> HIDE DEF parts
<1> QED
    BY <1>1, <1>2, AskedInv

LEMMA EnsureInv ==
    ASSUME ReadInv, NEW r \in Readers, QueryEnsure(r), Witness
    PROVE  ReadInv'
<1> DEFINE want == reader[r].want
           query == "ensure"
           none == {}
<1>1. At(r, query) /\ query \notin {"count", "record", "artifact"}
    BY DEF QueryEnsure
<1>2. CASE want = NoVersion
  <2>1. Moves(r, Finds(reader[r], none))
    BY <1>2 DEF QueryEnsure
  <2>2. none \in SUBSET Part /\ \A part \in none : PartPublic(part, OfferedNow(r))
    OBVIOUS
  <2> HIDE DEF query, none
  <2> QED
    BY <1>1, <2>1, <2>2, FoundInv
<1>3. CASE want # NoVersion /\ Public(want)
  <2>1. Moves(r, [Finds(reader[r], {}) EXCEPT !.version = want])
    BY <1>3 DEF QueryEnsure
  <2>2. want \in Versions
    BY <1>3, PublicOf
  <2> HIDE DEF query, want
  <2> QED
    BY <1>1, <2>1, <2>2, VersionInv
<1>4. CASE want # NoVersion /\ ~Public(want)
    BY <1>4, EndsInv DEF QueryEnsure
<1> QED
    BY <1>2, <1>3, <1>4

LEMMA LatestInv ==
    ASSUME ReadInv, NEW r \in Readers, QueryLatest(r), Witness
    PROVE  ReadInv'
<1> DEFINE query == "latest"
           w == IF reader[r].want # NoVersion THEN reader[r].want ELSE item.latest
<1>1. At(r, query) /\ query \notin {"count", "record", "artifact"}
    BY DEF QueryLatest
<1>2. CASE reader[r].want = NoVersion /\ ~OnShelf
    BY <1>2, EndsInv DEF QueryLatest
<1>3. CASE reader[r].want # NoVersion \/ OnShelf
  <2>1. Moves(r, [Finds(reader[r], {}) EXCEPT !.version = w])
    BY <1>3 DEF QueryLatest
  <2>2. reader[r].want \in Versions \cup {NoVersion}
    BY <1>1, AtQuery DEF Request
  <2>3. w \in Versions \cup {NoVersion}
    BY <1>3, <2>2, PublicItem
  <2> HIDE DEF query, w
  <2> QED
    BY <1>1, <2>1, <2>3, VersionInv
<1> QED
    BY <1>2, <1>3

\* One query per candidate key.
LEMMA CandidateInv ==
    ASSUME ReadInv, NEW r \in Readers, Witness,
           NEW query \in {"platform", "artifact"}, At(r, query),
           NEW rows \in SUBSET PublicParts,
           query = "artifact" => \A part \in rows : part.kind = "file",
           \/ rows # {} /\ Moves(r, Finds(reader[r], rows))
           \/ /\ reader[r].try < Len(Candidates(reader[r].platform))
              /\ Moves(r, [reader[r] EXCEPT !.try = @ + 1])
           \/ reader[r].op = "resolve" /\ Moves(r, Finds(reader[r], {}))
           \/ Ends(r)
    PROVE  ReadInv'
<1>0. query \notin {"count", "record"}
    OBVIOUS
<1>1. CASE rows # {} /\ Moves(r, Finds(reader[r], rows))
  <2>1. query = "artifact" => HasFile(OfferedNow(r))
    BY <1>1 DEF OfferedNow, HasFile
  <2>2. /\ rows \in SUBSET Part
        /\ Discipline => \A part \in rows : PartPublic(part, OfferedNow(r))
    BY PublicFound
  <2> QED
    BY <1>0, <1>1, <2>1, <2>2, FoundInv
<1>2. CASE /\ reader[r].try < Len(Candidates(reader[r].platform))
           /\ Moves(r, [reader[r] EXCEPT !.try = @ + 1])
  <2> DEFINE q == reader[r]
             o == OfferedNow(r)
             try == q.try + 1
             n == [q EXCEPT !.try = try]
  <2>1. q \in Request /\ Fine(q, o) /\ q.op # NoRequest
    BY AtQuery
  <2>2. Len(Candidates(q.platform)) \in {1, 2}
    BY DEF Candidates
  <2>3. try \in 1 .. MaxAttempts
    <3>1. q.try \in 1 .. MaxAttempts
      BY <2>1 DEF Request
    <3>2. q.try < Len(Candidates(q.platform))
      BY <1>2
    <3> DEFINE len == Len(Candidates(q.platform))
    <3>3. len \in {1, 2} /\ q.try < len
      BY <2>2, <3>2
    <3> HIDE DEF q, len
    <3> QED
      BY <3>1, <3>3
  <2>4. Moves(r, n)
    BY <1>2
  <2>5. /\ n \in Request /\ n.op = q.op /\ n.at = q.at /\ n.found = q.found
        /\ n.counted = q.counted /\ n.failed = q.failed
    <3> HIDE DEF q, try
    <3> QED
      BY <2>1, <2>3 DEF Request
  <2>6. Fine(n, o)
    <3> HIDE DEF q, o, n
    <3> QED
      BY <2>1, <2>5, FineAgain
  <2> HIDE DEF n
  <2> QED
    BY <2>1, <2>4, <2>5, <2>6, ReaderMoves
<1>3. CASE reader[r].op = "resolve" /\ Moves(r, Finds(reader[r], {}))
  <2> DEFINE none == {}
  <2>1. Moves(r, Finds(reader[r], none))
    BY <1>3
  <2>2. none \in SUBSET Part /\ \A part \in none : PartPublic(part, OfferedNow(r))
    OBVIOUS
  <2> HIDE DEF none
  <2> QED
    BY <1>0, <1>3, <2>1, <2>2, FoundInv
<1> QED
    BY <1>1, <1>2, <1>3, EndsInv

LEMMA PlatformInv ==
    ASSUME ReadInv, NEW r \in Readers, QueryPlatform(r), Witness
    PROVE  ReadInv'
<1> DEFINE v == reader[r].version
           key == Candidates(reader[r].platform)[reader[r].try]
           rows == IF Public(v) THEN {part \in SpecsOf(v) : part.platform = key} ELSE {}
           query == "platform"
<1>1. rows \in SUBSET PublicParts
    BY PublicOf
<1>2. /\ At(r, query) /\ query \in {"platform", "artifact"} /\ query # "artifact"
      /\ \/ rows # {} /\ Moves(r, Finds(reader[r], rows))
         \/ /\ reader[r].try < Len(Candidates(reader[r].platform))
            /\ Moves(r, [reader[r] EXCEPT !.try = @ + 1])
         \/ reader[r].op = "resolve" /\ Moves(r, Finds(reader[r], {}))
         \/ Ends(r)
    BY DEF QueryPlatform, QueryCandidate
<1> HIDE DEF rows, query
<1> QED
    BY <1>1, <1>2, CandidateInv

LEMMA ArtifactInv ==
    ASSUME ReadInv, NEW r \in Readers, QueryArtifact(r), Witness
    PROVE  ReadInv'
<1> DEFINE v == reader[r].version
           key == Candidates(reader[r].platform)[reader[r].try]
           rows == IF Public(v) THEN {part \in FilesOf(v) : part.platform = key} ELSE {}
           query == "artifact"
<1>1. rows \in SUBSET PublicParts /\ \A part \in rows : part.kind = "file"
    BY PublicOf DEF FilesOf, Of
<1>2. /\ At(r, query) /\ query \in {"platform", "artifact"}
      /\ \/ rows # {} /\ Moves(r, Finds(reader[r], rows))
         \/ /\ reader[r].try < Len(Candidates(reader[r].platform))
            /\ Moves(r, [reader[r] EXCEPT !.try = @ + 1])
         \/ reader[r].op = "resolve" /\ Moves(r, Finds(reader[r], {}))
         \/ Ends(r)
    BY DEF QueryArtifact, QueryCandidate
<1> HIDE DEF rows, query
<1> QED
    BY <1>1, <1>2, CandidateInv

LEMMA ManifestInv ==
    ASSUME ReadInv, NEW r \in Readers, QueryManifest(r), Witness
    PROVE  ReadInv'
<1> DEFINE v == reader[r].version
           parts == IF Public(v) THEN {Whole("release", v, versions[v].content)} ELSE {}
           query == "manifest"
<1>1. parts \in SUBSET PublicParts
    BY PublicOf
<1>2. /\ At(r, query) /\ query \notin {"count", "record"} /\ query # "artifact"
      /\ Moves(r, Finds(reader[r], parts))
    BY DEF QueryManifest
<1> HIDE DEF parts, query
<1> QED
    BY <1>1, <1>2, PublicFound, FoundInv

LEMMA PathInv ==
    ASSUME ReadInv, NEW r \in Readers, QueryPath(r), Witness
    PROVE  ReadInv'
<1>1. CASE Ends(r)
    BY <1>1, EndsInv
<1>2. ASSUME NEW v \in Versions, Public(v), NEW file \in FilesOf(v),
             Moves(r, Finds(reader[r], {file}))
      PROVE  ReadInv'
  <2> DEFINE parts == {file}
             query == "path"
  <2>1. parts \in SUBSET PublicParts
    BY <1>2, PublicOf
  <2>2. /\ At(r, query) /\ query \notin {"count", "record"} /\ query # "artifact"
        /\ Moves(r, Finds(reader[r], parts))
    BY <1>2 DEF QueryPath
  <2> HIDE DEF parts, query
  <2> QED
    BY <2>1, <2>2, PublicFound, FoundInv
<1> QED
    BY <1>1, <1>2 DEF QueryPath


\* The query that counts k, or fails to.
LEMMA CountedInv ==
    ASSUME ReadInv, NEW r \in Readers, Witness,
           NEW query \in {"count", "record"}, At(r, query),
           NEW parts \in SUBSET PublicParts,
           NEW k \in {0, 1}, k = 1 => query = "record" \/ OnShelf,
           NEW n \in Request, Moves(r, n),
           n.op = reader[r].op, n.at = reader[r].at + 1,
           n.found = reader[r].found \cup parts, n.counted = reader[r].counted + k,
           query = "count" => k = 1 \/ n.failed
    PROVE  ReadInv'
<1> DEFINE q == reader[r]
           o == OfferedNow(r)
<1>1. /\ q \in Request /\ Fine(q, o) /\ q.op \in Operations /\ q.op # NoRequest
      /\ q.at \in 1 .. 8 /\ q.at <= Len(Queries[q.op]) /\ Queries[q.op][q.at] = query
    BY AtQuery
<1>2. q.at \in 1 .. Len(Queries[q.op]) /\ Ordered(q.op, Queries[q.op])
  <2> DEFINE length == Len(Queries[q.op])
  <2>1. Ordered(q.op, Queries[q.op])
    BY <1>1, QueryOrder
  <2>2. length \in 1 .. 8
    BY <2>1 DEF Ordered
  <2>3. q.at \in 1 .. 8 /\ q.at <= length
    BY <1>1
  <2> HIDE DEF length, q, o
  <2>4. q.at \in 1 .. length
    BY <2>2, <2>3
  <2> QED
    BY <2>1, <2>4 DEF length
<1>3. query = "record" => q.op \in {"download", "package"} /\ HasFile(o)
  <2> HIDE DEF q, o
  <2>1. query = "record" => q.op \in {"download", "package"} /\ q.at > ArtifactAt(q.op)
    BY <1>1, <1>2 DEF Ordered
  <2>2. q.op \in {"download", "package"} /\ q.at > ArtifactAt(q.op) => HasFile(o)
    BY <1>1 DEF Fine, Counts
  <2> QED
    BY <2>1, <2>2
<1>4. OnShelf => Whole("item", item.latest, item.content) \in o
    BY PublicItem DEF OfferedNow
<1>5. k = 1 => \E part \in o : part.kind \in {"item", "file"}
    BY <1>3, <1>4 DEF HasFile, Whole
<1>6. /\ parts \in SUBSET Part
      /\ Discipline => \A part \in parts : PartPublic(part, o)
    BY PublicFound
<1>7. q.op = "view" => k = 1 \/ n.failed
    BY <1>3
<1>8. Fine(n, o)
  <2> HIDE DEF q, o
  <2> QED
    BY <1>1, <1>5, <1>6, <1>7, FineCounted DEF q
<1> QED
    BY <1>1, <1>8, ReaderMoves

LEMMA RecordInv ==
    ASSUME ReadInv, NEW r \in Readers, Record(r), Witness
    PROVE  ReadInv'
<1> DEFINE q == reader[r]
           m == Finds(q, {})
           query == "record"
           none == {}
<1>1. At(r, query) /\ query \in {"count", "record"} /\ query # "count"
    BY DEF Record
<1>2. /\ q \in Request /\ q.at \in 1 .. 8 /\ q.counted \in {0, 1}
    BY <1>1, AtQuery DEF Fine, Counts
<1>3. PICK k \in {0, 1} : Moves(r, [m EXCEPT !.counted = m.counted + k])
    BY DEF Record
<1> DEFINE counted == m.counted + k
           n == [m EXCEPT !.counted = counted]
<1>4. /\ m \in Request /\ m.op = q.op /\ m.at = q.at + 1 /\ m.found = q.found \cup none
      /\ m.counted = q.counted
  <2>1. {} \in SUBSET Part
    OBVIOUS
  <2> QED
    BY <1>2, <2>1, FindsType
<1>5. counted \in 0 .. MaxAttempts
    BY <1>2, <1>4
<1>6. n \in Request /\ n.op = m.op /\ n.at = m.at /\ n.found = m.found /\ n.counted = counted
  <2> HIDE DEF m, counted
  <2> QED
    BY <1>4, <1>5 DEF Request
<1>7. Moves(r, n)
    BY <1>3
<1>8. /\ n.op = q.op /\ n.at = q.at + 1 /\ n.found = q.found \cup none
      /\ n.counted = q.counted + k
    BY <1>4, <1>6
<1>9. none \in SUBSET PublicParts /\ (k = 1 => query = "record")
    OBVIOUS
<1> HIDE DEF n, query, none
<1> QED
    BY <1>1, <1>6, <1>7, <1>8, <1>9, CountedInv

LEMMA CountInv ==
    ASSUME ReadInv, NEW r \in Readers, Count(r), Witness
    PROVE  ReadInv'
<1> DEFINE q == reader[r]
           o == OfferedNow(r)
           query == "count"
           none == {}
           one == {Whole("item", item.latest, item.content)}
<1>1. At(r, query) /\ query \in {"count", "record"}
    BY DEF Count
<1>2. /\ q \in Request /\ Fine(q, o) /\ q.op # NoRequest
      /\ q.at \in 1 .. 8 /\ q.counted \in {0, 1}
    BY <1>1, AtQuery DEF Fine, Counts
<1>3. CASE ~OnShelf /\ Ends(r)
    BY <1>3, EndsInv
<1>4. CASE q.try < MaxAttempts /\ Moves(r, [q EXCEPT !.try = @ + 1])
  <2> DEFINE try == q.try + 1
             n == [q EXCEPT !.try = try]
  <2>1. try \in 1 .. MaxAttempts
    BY <1>2, <1>4 DEF Request
  <2>2. Moves(r, n)
    BY <1>4
  <2>3. /\ n \in Request /\ n.op = q.op /\ n.at = q.at /\ n.found = q.found
        /\ n.counted = q.counted /\ n.failed = q.failed
    <3> HIDE DEF q, try
    <3> QED
      BY <1>2, <2>1 DEF Request
  <2>4. Fine(n, o)
    <3> HIDE DEF q, o, n
    <3> QED
      BY <1>2, <2>3, FineAgain
  <2> HIDE DEF n
  <2> QED
    BY <1>2, <2>2, <2>3, <2>4, ReaderMoves
<1>5. CASE OnShelf /\ Moves(r, [Finds(q, one) EXCEPT !.counted = @ + 1])
  <2> DEFINE m == Finds(q, one)
             counted == m.counted + 1
             n == [m EXCEPT !.counted = counted]
             k == 1
  <2>1. one \in SUBSET PublicParts /\ one \in SUBSET Part
    BY <1>5, PublicItem, OfferedNowType
  <2>2. /\ m \in Request /\ m.op = q.op /\ m.at = q.at + 1 /\ m.found = q.found \cup one
        /\ m.counted = q.counted
    BY <1>2, <2>1, FindsType
  <2>3. counted \in 0 .. MaxAttempts
    BY <1>2, <2>2
  <2>4. n \in Request /\ n.op = m.op /\ n.at = m.at /\ n.found = m.found /\ n.counted = counted
    <3> HIDE DEF m, counted
    <3> QED
      BY <2>2, <2>3 DEF Request
  <2>5. Moves(r, n) /\ k \in {0, 1} /\ OnShelf /\ k = 1
    BY <1>5
  <2>6. n.op = q.op /\ n.at = q.at + 1 /\ n.found = q.found \cup one /\ n.counted = q.counted + k
    BY <2>2, <2>4
  <2> HIDE DEF n, one, query, k
  <2> QED
    BY <1>1, <2>1, <2>4, <2>5, <2>6, CountedInv
<1>6. ASSUME NEW k \in {0, IF OnShelf THEN 1 ELSE 0},
             Moves(r, [Fails(q) EXCEPT !.counted = @ + k])
      PROVE  ReadInv'
  <2> DEFINE at == q.at + 1
             failed == TRUE
             m == [q EXCEPT !.at = at, !.failed = failed]
             counted == m.counted + k
             n == [m EXCEPT !.counted = counted]
  <2>1. k \in {0, 1} /\ (k = 1 => OnShelf) /\ Moves(r, n)
    BY <1>6 DEF Fails
  <2>2. /\ m \in Request /\ m.op = q.op /\ m.at = q.at + 1 /\ m.found = q.found \cup none
        /\ m.counted = q.counted /\ m.failed = TRUE
    <3>1. at \in 1 .. 9 /\ failed \in BOOLEAN
      BY <1>2
    <3>2. /\ m \in Request /\ m.op = q.op /\ m.at = at /\ m.found = q.found
          /\ m.counted = q.counted /\ m.failed = failed
      <4> HIDE DEF q, at, failed
      <4> QED
        BY <1>2, <3>1 DEF Request
    <3> QED
      BY <3>2
  <2>3. counted \in 0 .. MaxAttempts
    BY <1>2, <2>1, <2>2
  <2>4. /\ n \in Request /\ n.op = m.op /\ n.at = m.at /\ n.found = m.found
        /\ n.counted = counted /\ n.failed = m.failed
    <3> HIDE DEF m, counted
    <3> QED
      BY <2>2, <2>3 DEF Request
  <2>5. /\ n.op = q.op /\ n.at = q.at + 1 /\ n.found = q.found \cup none
        /\ n.counted = q.counted + k /\ n.failed
    BY <2>2, <2>4
  <2>6. none \in SUBSET PublicParts
    OBVIOUS
  <2> HIDE DEF n, none, query
  <2> QED
    BY <1>1, <2>1, <2>4, <2>5, <2>6, CountedInv
<1> QED
    BY <1>3, <1>4, <1>5, <1>6 DEF Count

-----------------------------------------------------------------------------
(* Every step *)

LEMMA HasReleaseNext ==
    ASSUME LifecycleInv, HasRelease, [Next]_vars
    PROVE  HasRelease'
<1>1. CASE Submit
    BY <1>1, VersionsAssumption DEF Submit, Publish, HasRelease
<1>2. CASE \E status \in Decisions : UpdateReview(status)
  <2>1. PICK status \in Decisions : UpdateReview(status)
    BY <1>2
  <2>2. CASE \E v \in Versions : ReviewCandidate(v, status)
    BY <2>2, VersionsAssumption
    DEF ReviewCandidate, ItemFromSnapshot, HasRelease, LifecycleInv, TypeOK, ItemRow
  <2>3. CASE ReviewCurrent(status)
    BY <2>3 DEF ReviewCurrent, HasRelease, LifecycleInv, TypeOK, ItemRow
  <2> QED
    BY <2>1, <2>2, <2>3 DEF UpdateReview
<1>3. CASE Unpublish
  <2>1. \/ item' = [item EXCEPT !.published = FALSE]
        \/ \E w \in Versions : item' = ItemFromSnapshot(versions, w)
    BY <1>3 DEF Unpublish, Newest, PublishedReleases
  <2> QED
    BY <2>1, VersionsAssumption DEF HasRelease, LifecycleInv, TypeOK, ItemRow, ItemFromSnapshot
<1>4. CASE Restart \/ UNCHANGED vars
    BY <1>4 DEF Restart, vars, HasRelease
<1> QED
    BY <1>1, <1>2, <1>3, <1>4 DEF Next

LEMMA ReleaseStepsInv ==
    ASSUME ReadInv, [Next]_vars,
           reader' = reader \/ reader' = [r \in Readers |-> Idle], Witness
    PROVE  ReadInv'
<1>1. LifecycleInv' /\ HasRelease' /\ (Discipline => ShelfInv')
    BY NextInv, ShelfNext, HasReleaseNext DEF ReadInv
<1>2. PublicParts' \subseteq Part
  <2>1. (TypeOK /\ HasRelease => PublicParts \subseteq Part)'
    BY PublicPartsType, PTL
  <2> QED
    BY <1>1, <2>1 DEF LifecycleInv
<1>3. reader' \in [Readers -> Request]
    BY IdleFine DEF ReadInv, Fine
<1>4. /\ offered' \in [Readers -> SUBSET Part]
      /\ \A r \in Readers : offered'[r] = IF reader'[r].op = NoRequest THEN {}
                                          ELSE offered[r] \cup PublicParts'
    BY <1>2 DEF ReadInv, Witness
<1>5. ASSUME NEW r \in Readers
      PROVE  /\ Fine(reader'[r], offered'[r])
             /\ IF reader'[r].op # NoRequest THEN PublicParts' \subseteq offered'[r]
                ELSE offered'[r] = {}
  <2>1. CASE reader' = [g \in Readers |-> Idle]
    <3>1. reader'[r] = Idle /\ offered'[r] = {}
      BY <1>4, <2>1 DEF Idle
    <3>2. {} \in SUBSET Part
      OBVIOUS
    <3>3. Fine(Idle, {}) /\ Idle.op = NoRequest
      BY <3>2, IdleFine DEF Idle
    <3> QED
      BY <3>1, <3>3
  <2>2. CASE reader' = reader /\ reader[r].op = NoRequest
    <3>1. reader'[r] = reader[r] /\ offered'[r] = {} /\ offered[r] = {}
      BY <1>4, <2>2 DEF ReadInv, Busy
    <3> QED
      BY <2>2, <3>1 DEF ReadInv
  <2>3. CASE reader' = reader /\ reader[r].op # NoRequest
    <3>1. offered'[r] = offered[r] \cup PublicParts' /\ offered'[r] \in SUBSET Part
      BY <1>4, <2>3
    <3>2. Fine(reader[r], offered[r])
      BY DEF ReadInv
    <3> QED
      BY <2>3, <3>1, <3>2, FineGrows
  <2> QED
    BY <2>1, <2>2, <2>3
<1> QED
    BY <1>1, <1>3, <1>4, <1>5 DEF ReadInv, Busy

LEMMA ReadInitInv == ReadInit => ReadInv
<1> SUFFICES ASSUME ReadInit PROVE ReadInv
    OBVIOUS
<1>1. LifecycleInv /\ ShelfInv
    BY InitInv, ShelfInit DEF ReadInit
<1>2. HasRelease
    BY <1>1, VersionsAssumption DEF HasRelease, ShelfInv, ShownIsLive, PublishedReleases
<1>3. Fine(Idle, {}) /\ Idle.op = NoRequest
  <2>1. {} \in SUBSET Part
    OBVIOUS
  <2> QED
    BY <2>1, IdleFine DEF Idle
<1> QED
    BY <1>1, <1>2, <1>3 DEF ReadInit, ReadInv, Busy, Fine

LEMMA ReadNextInv ==
    ASSUME ReadInv, [ReadNext]_allVars
    PROVE  ReadInv'
<1>1. CASE Witness /\ \E r \in Readers : Begin(r) \/ Leave(r)
    BY <1>1, BeginInv, EndsInv DEF Leave
<1>2. CASE Witness /\ \E r \in Readers : Query(r)
    BY <1>2, ItemInv, TagsInv, FilesInv, SpecsInv, ReleasesInv, ListedInv, EnsureInv,
       LatestInv, PlatformInv, ArtifactInv, ManifestInv, PathInv, RecordInv, CountInv
    DEF Query
<1>3. CASE Witness /\ ReleaseSteps
  <2>1. Next /\ (reader' = reader \/ reader' = [r \in Readers |-> Idle])
    BY <1>3 DEF ReleaseSteps, Next
  <2> QED
    BY <1>3, <2>1, ReleaseStepsInv
<1>4. CASE UNCHANGED allVars
  <2>1. [Next]_vars /\ reader' = reader /\ offered' = offered
    BY <1>4 DEF allVars, readVars
  <2>2. PublicParts' = PublicParts
    BY <1>4, PublicPartsKept DEF allVars
  <2>3. LifecycleInv' /\ HasRelease' /\ (Discipline => ShelfInv')
    BY <2>1, NextInv, ShelfNext, HasReleaseNext DEF ReadInv
  <2> QED
    BY <2>1, <2>2, <2>3 DEF ReadInv, Busy
<1> QED
    BY <1>1, <1>2, <1>3, <1>4 DEF ReadNext

(* Requests stay in order whatever happens to the releases they read. *)
THEOREM ReadInvariant == ReadSpec => []ReadInv
BY ReadInitInv, ReadNextInv, PTL DEF ReadSpec

(* Requests and what they were offered keep their shapes. *)
THEOREM ReadTypeCorrect == ReadSpec => []ReadTypeOK
<1>1. ReadInv => ReadTypeOK
  BY DEF ReadInv, ReadTypeOK
<1> QED
  BY <1>1, ReadInvariant, PTL

(* For any number of readers, releases and steps between two queries, no answer
   has a part that was never public, if no live component is suspended. *)
THEOREM AnswersTheorem == ASSUME Discipline PROVE ReadSpec => []AnswersWerePublic
<1>1. ReadInv => AnswersWerePublic
  BY DEF ReadInv, Fine, WasPublic, PartPublic, AnswersWerePublic
<1> QED
  BY <1>1, ReadInvariant, PTL

(* A view that is reported is counted once, and nothing is counted twice or of
   what was not public, also by admins who suspend. *)
THEOREM CountedTheorem == ReadSpec => []CountedOnce
<1>1. ASSUME ReadInv, NEW r \in Readers
      PROVE  LET q == reader[r] IN
             /\ q.counted <= 1
             /\ q.op = "view" /\ Answered(r) /\ ~q.failed => q.counted = 1
             /\ q.counted = 1 => \E part \in offered[r] : part.kind \in {"item", "file"}
  <2> DEFINE q == reader[r]
  <2>1. q \in Request /\ Counts(q, offered[r])
    BY <1>1 DEF ReadInv, Fine
  <2>2. Len(Queries["view"]) = 1
    BY QueryOrder, OperationNames DEF Ordered
  <2>3. q.op = "view" /\ Answered(r) => q.at > 1
    BY <2>2 DEF Answered
  <2> QED
    BY <2>1, <2>3 DEF Counts
<1>2. ReadInv => CountedOnce
  BY <1>1 DEF CountedOnce
<1> QED
  BY <1>2, ReadInvariant, PTL

-----------------------------------------------------------------------------
(* The parts of an answer fit *)

\* Every submission brings its file.
FilesAlways == FALSE \notin ArtifactChoices

(* A release's contents have the number of its last submission, and each of its
   files the number of its platform's specification. *)
FilesFit ==
    /\ \A v \in Versions : versions[v].content <= submissions
    /\ \A v \in Versions, p \in Platforms :
          artifacts[v][p] # 0 => platforms[v][p].content = artifacts[v][p]

SameParts(v) ==
    /\ versions'[v].content = versions[v].content
    /\ \A p \in Platforms : /\ artifacts'[v][p] = artifacts[v][p]
                            /\ platforms'[v][p].content = platforms[v][p].content

\* Where no submission comes and no start-up, parts stay.
LEMMA DecisionKeepsParts ==
    ASSUME LifecycleInv, (\E status \in Decisions : UpdateReview(status)) \/ Unpublish
    PROVE  (\A v \in Versions : SameParts(v)) /\ submissions' = submissions
<1>0. TypeOK
    BY DEF LifecycleInv
<1>1. ASSUME NEW status \in Decisions, NEW w \in Versions, ReviewCandidate(w, status)
      PROVE  (\A v \in Versions : SameParts(v)) /\ submissions' = submissions
  <2>1. /\ versions' = VersionsDecided(w, status)
        /\ platforms' = PlatformsMarked(w, status = "approved")
        /\ artifacts' = artifacts /\ submissions' = submissions
    BY <1>1 DEF ReviewCandidate
  <2>2. (status = "approved") \in BOOLEAN
    OBVIOUS
  <2> QED
    BY <1>0, <2>1, <2>2, MarkedKeepsContents, DecidedKeepsContents DEF SameParts
<1>2. ASSUME NEW status \in Decisions, ReviewCurrent(status)
      PROVE  (\A v \in Versions : SameParts(v)) /\ submissions' = submissions
  <2>1. item.latest \in Versions /\ versions' = VersionsDecided(item.latest, status)
    BY <1>0, <1>2 DEF TypeOK, ItemRow, ReviewCurrent
  <2> QED
    BY <1>0, <1>2, <2>1, DecidedKeepsContents DEF ReviewCurrent, SameParts
<1>3. CASE Unpublish
  <2>1. item.latest \in Versions
    BY <1>0, <1>3 DEF TypeOK, ItemRow, Unpublish
  <2>2. \A v \in Versions : versions'[v].content = versions[v].content
    BY <1>0, <1>3, <2>1 DEF TypeOK, VersionRow, Unpublish, Withdrawn
  <2>3. \A v \in Versions, p \in Platforms : platforms'[v][p].content = platforms[v][p].content
    <3>1. platforms' = PlatformsMarked(item.latest, FALSE) /\ FALSE \in BOOLEAN
      BY <1>3 DEF Unpublish
    <3> QED
      BY <1>0, <2>1, <3>1, MarkedKeepsContents
  <2>4. artifacts' = artifacts /\ submissions' = submissions
    BY <1>3 DEF Unpublish
  <2> QED
    BY <2>2, <2>3, <2>4 DEF SameParts
<1> QED
    BY <1>1, <1>2, <1>3 DEF UpdateReview

\* A submission gives its release a number none had before.
LEMMA SubmitRenumbers ==
    ASSUME LifecycleInv, FilesFit, FilesAlways, Submit
    PROVE  /\ FilesFit'
           /\ \A v \in Versions : SameParts(v) \/ versions'[v].content > versions[v].content
<1>0. TypeOK /\ submissions \in Nat
    BY InputsAssumption DEF LifecycleInv, TypeOK, Content
<1>1. PICK w \in Versions, q \in Platforms, c \in Publishers, a \in ArtifactChoices :
          Publish(w, q, c, a)
    BY DEF Submit
<1>2. a = TRUE
    BY InputsAssumption DEF FilesAlways
<1> DEFINE n == submissions + 1
<1>3. /\ submissions' = n
      /\ versions' = [versions EXCEPT ![w] = [status |-> "pending", published |-> FALSE,
                                              creator |-> c, content |-> n]]
      /\ platforms' = [platforms EXCEPT ![w][q] = [published |-> FALSE, content |-> n]]
      /\ artifacts' = [artifacts EXCEPT ![w][q] = n]
    BY <1>1, <1>2 DEF Publish
<1>4. n \in Nat /\ n > submissions
    BY <1>0
<1> HIDE DEF n
<1>5. \A v \in Versions : versions[v].content \in Nat /\ versions[v].content <= submissions
    BY <1>0, InputsAssumption DEF TypeOK, VersionRow, Content, FilesFit
<1>6. /\ versions'[w].content = n
      /\ \A v \in Versions \ {w} : versions'[v] = versions[v]
    BY <1>0, <1>3 DEF TypeOK
<1>7. /\ \A v \in Versions \ {w} : artifacts'[v] = artifacts[v] /\ platforms'[v] = platforms[v]
      /\ \A p \in Platforms \ {q} : /\ artifacts'[w][p] = artifacts[w][p]
                                    /\ platforms'[w][p] = platforms[w][p]
      /\ artifacts'[w][q] = n /\ platforms'[w][q].content = n
    BY <1>0, <1>3 DEF TypeOK
<1>8. FilesFit'
  <2>1. \A v \in Versions : versions'[v].content <= submissions'
    BY <1>0, <1>3, <1>4, <1>5, <1>6
  <2>2. \A v \in Versions, p \in Platforms :
            artifacts'[v][p] # 0 => platforms'[v][p].content = artifacts'[v][p]
    BY <1>7 DEF FilesFit
  <2> QED
    BY <2>1, <2>2 DEF FilesFit
<1>9. \A v \in Versions : SameParts(v) \/ versions'[v].content > versions[v].content
    BY <1>0, <1>4, <1>5, <1>6, <1>7 DEF SameParts
<1> QED
    BY <1>8, <1>9

\* A start-up finds each file's specification there, and each number too.
LEMMA RestartFits == ASSUME LifecycleInv, FilesFit, Restart PROVE FilesFit'
<1>0. TypeOK
    BY DEF LifecycleInv
<1>1. versions' = versions /\ artifacts' = artifacts /\ submissions' = submissions
    BY DEF LifecycleInv, CurrentReleaseRestorable, Restart
<1>2. ASSUME NEW v \in Versions, NEW p \in Platforms, artifacts[v][p] # 0
      PROVE  platforms'[v][p].content = artifacts[v][p]
  <2>1. platforms[v][p].content = artifacts[v][p]
    BY <1>2 DEF FilesFit
  <2>2. platforms'[v][p] = platforms[v][p]
    BY <1>2, <2>1 DEF Restart
  <2> QED
    BY <2>1, <2>2
<1> QED
    BY <1>1, <1>2 DEF FilesFit

LEMMA FitsInit == Init => FilesFit
<1> SUFFICES ASSUME NEW legacy \in {{}, LegacyReleases}, InitWith(legacy)
             PROVE  FilesFit
    BY DEF Init
<1>1. legacy \subseteq Versions
    BY VersionsAssumption
<1>2. ASSUME NEW v \in Versions
      PROVE  versions[v].content <= submissions
  <2>1. CASE v \in legacy
    <3>1. versions[v].content \in {0, 1} /\ submissions = 1
      BY <2>1 DEF InitWith, LegacyRow
    <3> QED
      BY <3>1
  <2>2. CASE v \notin legacy
    <3>1. versions[v].content = 0 /\ submissions \in {0, 1}
      BY <2>2 DEF InitWith, NoRelease
    <3> QED
      BY <3>1
  <2> QED
    BY <2>1, <2>2
<1>3. \A v \in Versions, p \in Platforms :
          artifacts[v][p] # 0 => platforms[v][p].content = artifacts[v][p]
    BY DEF InitWith
<1> QED
    BY <1>2, <1>3 DEF FilesFit

-----------------------------------------------------------------------------
(* What a request has to show for its answer to fit.  A file or specification
   was found while its release was public, and as long as the release has the
   contents it had then, the release still has that file or specification. *)

ReleaseIn(o, v, content) ==
    \E rel \in o : rel.kind = "release" /\ rel.version = v /\ rel.content = content
ReplacedIn(o, v) ==
    \E old, new \in o :
        /\ old.kind = "release" /\ old.version = v
        /\ new.kind = "release" /\ new.version = v
        /\ old.content # new.content

\* The release still has this file or specification.
Stands(part) ==
    /\ part.kind = "file" =>
          part.content # 0 /\ artifacts[part.version][part.platform] = part.content
    /\ part.kind = "spec" => platforms[part.version][part.platform].content = part.content
Dated(part, o) ==
    \E content \in Nat :
        /\ ReleaseIn(o, part.version, content)
        /\ content = versions[part.version].content => Stands(part)
Pieces(parts) == {part \in parts : part.kind \in {"file", "spec"}}

SamePlace(file, spec) ==
    /\ file.kind = "file" /\ spec.kind = "spec"
    /\ file.version = spec.version /\ file.platform = spec.platform
Fits(file, spec, o) ==
    SamePlace(file, spec) => file.content = spec.content \/ ReplacedIn(o, file.version)

RowOf(parts, v) == \E row \in parts : row.kind = "item" /\ row.version = v
\* A page's files and specifications are of a version it shows.
Paged(q) ==
    q.op \in {"page", "versions"} =>
        /\ q.at > 1 => RowOf(q.found, q.version)
        /\ \A part \in Pieces(q.found) : RowOf(q.found, part.version)

Agrees(q, o) ==
    /\ \A part \in Pieces(q.found) : Dated(part, o)
    /\ \A file, spec \in Pieces(q.found) : Fits(file, spec, o)
    /\ Paged(q)

Below(o) ==
    \A rel \in o : rel.kind = "release" =>
        rel.content \in Nat /\ rel.content <= versions[rel.version].content

AgreeInv ==
    /\ ReadInv
    /\ FilesFit
    /\ \A r \in Readers : Agrees(reader[r], offered[r]) /\ Below(offered[r])

LEMMA AgreesIdle == ASSUME NEW o PROVE Agrees(Idle, o)
BY DEF Agrees, Paged, Pieces, Idle

LEMMA AgreesGrows ==
    ASSUME NEW q, NEW o, Agrees(q, o), NEW more, o \subseteq more
    PROVE  Agrees(q, more)
<1>1. \A part \in Pieces(q.found) : Dated(part, more)
    BY DEF Agrees, Dated, ReleaseIn
<1>2. \A file, spec \in Pieces(q.found) : Fits(file, spec, more)
    BY DEF Agrees, Fits, ReplacedIn
<1> QED
    BY <1>1, <1>2 DEF Agrees

\* A release that is public now.
LEMMA PublicBelow ==
    ASSUME TypeOK
    PROVE  /\ Below(PublicParts)
           /\ \A part \in PublicParts : part.kind = "release" =>
                 part.content = versions[part.version].content
<1>1. ASSUME NEW rel \in PublicParts, rel.kind = "release"
      PROVE  rel.content \in Nat /\ rel.content = versions[rel.version].content
  <2>1. PICK v \in PublishedReleases : rel = Whole("release", v, versions[v].content)
    BY <1>1 DEF PublicParts, FilesOf, SpecsOf, Of, Whole
  <2>2. rel.version = v /\ rel.content = versions[v].content
    BY <2>1 DEF Whole
  <2>3. versions[v].content \in Nat
    BY InputsAssumption DEF TypeOK, VersionRow, Content, PublishedReleases
  <2> QED
    BY <2>2, <2>3
<1> QED
    BY <1>1 DEF Below

(* A file or specification that is public now has its release beside it, and
   fits whatever it is of. *)
LEMMA PublicPiece ==
    ASSUME TypeOK, FilesFit, NEW part \in Pieces(PublicParts)
    PROVE  /\ part.version \in Versions /\ part.platform \in Platforms
           /\ ReleaseIn(PublicParts, part.version, versions[part.version].content)
           /\ versions[part.version].content \in Nat
           /\ Stands(part)
<1>1. PICK v \in PublishedReleases : part \in FilesOf(v) \cup SpecsOf(v)
    BY DEF Pieces, PublicParts, Whole
<1>2. v \in Versions /\ versions[v].content \in Nat
    BY InputsAssumption DEF TypeOK, VersionRow, Content, PublishedReleases
<1>3. part.version = v /\ part.platform \in Platforms /\ Stands(part)
  <2>1. CASE part \in FilesOf(v)
    BY <2>1 DEF FilesOf, Of, Stands
  <2>2. CASE part \in SpecsOf(v)
    BY <2>2 DEF SpecsOf, Of, Stands
  <2> QED
    BY <1>1, <2>1, <2>2
<1>4. Whole("release", v, versions[v].content) \in PublicParts
    BY DEF Pieces, PublicParts
<1>5. ReleaseIn(PublicParts, v, versions[v].content)
    BY <1>4 DEF ReleaseIn, Whole
<1> QED
    BY <1>2, <1>3, <1>5

\* Of a file and a specification of one release and platform one is public now.
LEMMA OneIsPublic ==
    ASSUME TypeOK, FilesFit, NEW o, PublicParts \subseteq o,
           NEW file, NEW spec, SamePlace(file, spec), Dated(file, o), Dated(spec, o),
           file \in Pieces(PublicParts) \/ spec \in Pieces(PublicParts)
    PROVE  file.content = spec.content \/ ReplacedIn(o, file.version)
<1> DEFINE v == file.version
           p == file.platform
           now == versions[v].content
<1>0. spec.version = v /\ spec.platform = p /\ file.kind = "file" /\ spec.kind = "spec"
    BY DEF SamePlace
<1>1. v \in Versions /\ p \in Platforms /\ now \in Nat /\ ReleaseIn(PublicParts, v, now)
    BY <1>0, PublicPiece
<1>2. ReleaseIn(o, v, now)
    BY <1>1 DEF ReleaseIn
<1>3. PICK c \in Nat : ReleaseIn(o, v, c) /\ (c = now => Stands(file))
    BY DEF Dated
<1>4. PICK d \in Nat : ReleaseIn(o, v, d) /\ (d = now => Stands(spec))
    BY <1>0 DEF Dated
<1>5. CASE c # now \/ d # now
    BY <1>2, <1>3, <1>4, <1>5 DEF ReleaseIn, ReplacedIn
<1>6. CASE c = now /\ d = now
  <2>1. /\ file.content # 0 /\ artifacts[v][p] = file.content
        /\ platforms[v][p].content = spec.content
    BY <1>0, <1>3, <1>4, <1>6 DEF Stands
  <2> QED
    BY <1>1, <2>1 DEF FilesFit
<1> QED
    BY <1>5, <1>6

\* A query that adds what is public to an answer whose parts fit.
LEMMA AgreesFound ==
    ASSUME TypeOK, FilesFit, NEW q, NEW o, Agrees(q, o), PublicParts \subseteq o,
           NEW parts, Pieces(parts) \subseteq PublicParts,
           NEW n, n.found = q.found \cup parts, Paged(n)
    PROVE  Agrees(n, o)
<1>1. Pieces(n.found) = Pieces(q.found) \cup Pieces(parts)
    BY DEF Pieces
<1>2. Pieces(parts) \subseteq Pieces(PublicParts)
    BY DEF Pieces
<1>3. \A part \in Pieces(parts) : Dated(part, o)
  <2> SUFFICES ASSUME NEW part \in Pieces(parts) PROVE Dated(part, o)
    OBVIOUS
  <2>1. /\ ReleaseIn(PublicParts, part.version, versions[part.version].content)
        /\ versions[part.version].content \in Nat /\ Stands(part)
    BY <1>2, PublicPiece
  <2>2. ReleaseIn(o, part.version, versions[part.version].content)
    BY <2>1 DEF ReleaseIn
  <2> QED
    BY <2>1, <2>2 DEF Dated
<1>4. \A part \in Pieces(n.found) : Dated(part, o)
    BY <1>1, <1>3 DEF Agrees
<1>5. ASSUME NEW file \in Pieces(n.found), NEW spec \in Pieces(n.found)
      PROVE  Fits(file, spec, o)
  <2>1. CASE file \in Pieces(q.found) /\ spec \in Pieces(q.found)
    BY <2>1 DEF Agrees
  <2>2. CASE file \in Pieces(PublicParts) \/ spec \in Pieces(PublicParts)
    BY <1>4, <2>2, OneIsPublic DEF Fits
  <2> QED
    BY <1>1, <1>2, <2>1, <2>2
<1> QED
    BY <1>4, <1>5 DEF Agrees

(* The releases a running request reads may be decided on or submitted anew. *)
LEMMA AgreesLater ==
    ASSUME NEW q \in Request, NEW o, Agrees(q, o), Below(o), NEW more, o \subseteq more,
           o \subseteq Part, \A v \in Versions : versions[v].content \in Nat,
           \A v \in Versions : \/ SameParts(v)
                               \/ versions'[v].content \in Nat /\ versions'[v].content > versions[v].content
    PROVE  Agrees(q, more)'
<1>1. ASSUME NEW part \in Pieces(q.found)
      PROVE  Dated(part, more)'
  <2> DEFINE v == part.version
             p == part.platform
  <2>1. part \in Part
    BY DEF Pieces, Request
  <2>2. v \in Versions /\ p \in Platforms
    BY <2>1 DEF Part
  <2>3. PICK c \in Nat : ReleaseIn(o, v, c) /\ (c = versions[v].content => Stands(part))
    BY DEF Agrees, Dated
  <2>4. ReleaseIn(more, v, c)
    BY <2>3 DEF ReleaseIn
  <2>5. c <= versions[v].content
    BY <2>3 DEF Below, ReleaseIn
  <2>6. c = versions'[v].content => Stands(part)'
    <3>1. CASE SameParts(v)
      <4>1. /\ versions'[v].content = versions[v].content
            /\ artifacts'[v][p] = artifacts[v][p]
            /\ platforms'[v][p].content = platforms[v][p].content
        BY <2>2, <3>1 DEF SameParts
      <4> QED
        BY <2>3, <4>1 DEF Stands
    <3>2. CASE versions'[v].content \in Nat /\ versions'[v].content > versions[v].content
      <4>1. versions[v].content \in Nat
        BY <2>2
      <4> QED
        BY <2>3, <2>5, <3>2, <4>1
    <3> QED
      BY <2>2, <3>1, <3>2
  <2> QED
    BY <2>4, <2>6 DEF Dated, ReleaseIn
<1>2. \A file, spec \in Pieces(q.found) : Fits(file, spec, more)
    BY AgreesGrows DEF Agrees
<1> QED
    BY <1>1, <1>2 DEF Agrees, Fits, SamePlace, ReplacedIn, Paged, Pieces, RowOf

\* Requests as they are when their next query is done.
LEMMA AgreesNow ==
    ASSUME AgreeInv, NEW r \in Readers
    PROVE  /\ Agrees(reader[r], OfferedNow(r)) /\ Below(OfferedNow(r))
           /\ TypeOK /\ FilesFit /\ PublicParts \subseteq OfferedNow(r)
<1>1. TypeOK /\ FilesFit /\ Agrees(reader[r], offered[r]) /\ Below(offered[r])
    BY DEF AgreeInv, ReadInv, LifecycleInv
<1>2. offered[r] \subseteq OfferedNow(r) /\ PublicParts \subseteq OfferedNow(r)
    BY DEF OfferedNow
<1>3. Below(OfferedNow(r))
    BY <1>1, PublicBelow DEF Below, OfferedNow
<1> QED
    BY <1>1, <1>2, <1>3, AgreesGrows

LEMMA AgreeMoves ==
    ASSUME AgreeInv, ReadInv', NEW r \in Readers, NEW n, Moves(r, n), Witness,
           n.op # NoRequest => Agrees(n, OfferedNow(r)),
           n.op = NoRequest => Agrees(n, {})
    PROVE  AgreeInv'
<1>1. UNCHANGED vars /\ PublicParts' = PublicParts
    BY PublicPartsKept DEF Moves
<1>2. FilesFit'
    BY <1>1 DEF AgreeInv, FilesFit, vars
<1>3. reader'[r] = n /\ \A g \in Readers \ {r} : reader'[g] = reader[g]
    BY DEF Moves, AgreeInv, ReadInv
<1>4. \A g \in Readers : offered'[g] = IF reader'[g].op = NoRequest THEN {}
                                       ELSE OfferedNow(g)
    BY <1>1 DEF Witness, OfferedNow
<1>5. \A g \in Readers : Below(offered'[g])
    BY <1>4, AgreesNow DEF Below
<1>6. ASSUME NEW g \in Readers
      PROVE  Agrees(reader'[g], offered'[g])
  <2>1. CASE g = r /\ n.op = NoRequest
    BY <1>3, <1>4, <2>1
  <2>2. CASE g = r /\ n.op # NoRequest
    BY <1>3, <1>4, <2>2
  <2>3. CASE g # r /\ reader[g].op # NoRequest
    BY <1>3, <1>4, <2>3, AgreesNow
  <2>4. CASE g # r /\ reader[g].op = NoRequest
    <3>1. offered'[g] = {} /\ offered[g] = {}
      BY <1>3, <1>4, <2>4 DEF AgreeInv, ReadInv, Busy
    <3> QED
      BY <1>3, <2>4, <3>1 DEF AgreeInv
  <2> QED
    BY <2>1, <2>2, <2>3, <2>4
<1>7. \A g \in Readers : Agrees(reader[g], offered[g])' /\ Below(offered[g])'
    BY <1>1, <1>5, <1>6
    DEF vars, Agrees, Dated, Stands, Fits, SamePlace, ReleaseIn, ReplacedIn, Paged, Pieces,
        RowOf, Below
<1> QED
    BY <1>2, <1>7 DEF AgreeInv

\* What a page or a version list asks for, the item first.
PageNames == {"item", "tags", "files", "specs", "releases", "listedFiles", "listedSpecs"}

LEMMA PageQueries ==
    ASSUME NEW op \in {"page", "versions"}
    PROVE  /\ Queries[op][1] = "item"
           /\ \A i \in 1 .. Len(Queries[op]) : Queries[op][i] \in PageNames
<1>1. CASE op = "page"
  <2>1. Queries[op] = Page
    BY <1>1 DEF Queries
  <2>2. Len(Page) = 4 /\ Page[1] = "item" /\ \A i \in 1 .. 4 : Page[i] \in PageNames
    BY DEF Page, PageNames
  <2> QED
    BY <2>1, <2>2
<1>2. CASE op = "versions"
  <2> DEFINE t == <<"releases", "listedFiles", "listedSpecs">>
  <2>1. /\ t \in Seq(QueryNames) /\ Len(t) = 3
        /\ \A i \in 1 .. 3 : t[i] \in PageNames
    BY DEF QueryNames, PageNames
  <2>2. Queries[op] = Page \o t
    BY <1>2 DEF Queries
  <2> HIDE DEF t
  <2> DEFINE all == Page \o t
  <2>3. /\ Len(all) = 4 + Len(t) /\ all[1] = "item"
        /\ \A i \in 1 .. 4 + Len(t) :
              /\ i <= 4 => all[i] \in {"item", "tags", "files", "specs"}
              /\ i > 4 => all[i] = t[i - 4]
    BY <2>1, AfterPage
  <2> HIDE DEF all
  <2>4. ASSUME NEW i \in 1 .. Len(all)
        PROVE  all[i] \in PageNames
    <3>1. CASE i <= 4
      BY <2>1, <2>3, <3>1 DEF PageNames
    <3>2. CASE i > 4
      <4>1. all[i] = t[i - 4] /\ i - 4 \in 1 .. 3
        BY <2>1, <2>3, <3>2
      <4> QED
        BY <2>1, <4>1
    <3> QED
      BY <2>1, <2>3, <3>1, <3>2
  <2> QED
    BY <2>2, <2>3, <2>4 DEF all
<1> QED
    BY <1>1, <1>2

LEMMA PageAt ==
    ASSUME AgreeInv, NEW r \in Readers, NEW query, At(r, query),
           reader[r].op \in {"page", "versions"}
    PROVE  /\ query \in PageNames
           /\ query # "item" => RowOf(reader[r].found, reader[r].version)
<1> DEFINE q == reader[r]
<1>1. /\ q.at \in 1 .. 8 /\ q.at <= Len(Queries[q.op]) /\ Queries[q.op][q.at] = query
    BY AtQuery DEF AgreeInv
<1>2. /\ Queries[q.op][1] = "item"
      /\ \A i \in 1 .. Len(Queries[q.op]) : Queries[q.op][i] \in PageNames
    BY PageQueries
<1>3. Ordered(q.op, Queries[q.op])
    BY QueryOrder, OperationNames
<1>4. q.at \in 1 .. Len(Queries[q.op])
  <2> DEFINE length == Len(Queries[q.op])
  <2>1. length \in 1 .. 8
    BY <1>3 DEF Ordered
  <2>2. q.at \in 1 .. 8 /\ q.at <= length
    BY <1>1
  <2> HIDE DEF length, q
  <2>3. q.at \in 1 .. length
    BY <2>1, <2>2
  <2> QED
    BY <2>3 DEF length
<1>5. q.at = 1 \/ q.at > 1
    BY <1>1
<1>6. Paged(q)
    BY DEF AgreeInv, Agrees
<1> HIDE DEF q
<1>7. query \in PageNames
    BY <1>1, <1>2, <1>4
<1>8. query # "item" => q.at > 1
    BY <1>1, <1>2, <1>5
<1> QED
    BY <1>6, <1>7, <1>8 DEF Paged, q

LEMMA AgreeEnds ==
    ASSUME AgreeInv, ReadInv', NEW r \in Readers, Ends(r), Witness
    PROVE  AgreeInv'
BY AgreeMoves, AgreesIdle DEF Ends

LEMMA AgreeBegins ==
    ASSUME AgreeInv, ReadInv', NEW r \in Readers, Begin(r), Witness
    PROVE  AgreeInv'
<1>1. PICK op \in Operations, p \in Platforms, v \in Versions \cup {NoVersion} :
          Moves(r, [Idle EXCEPT !.op = op, !.platform = p, !.want = v])
    BY DEF Begin
<1> DEFINE n == [Idle EXCEPT !.op = op, !.platform = p, !.want = v]
<1>2. n.op = op /\ n.at = 1 /\ n.found = {}
    BY DEF Idle
<1>3. Moves(r, n)
    BY <1>1
<1> HIDE DEF n
<1>4. \A o : Agrees(n, o)
    BY <1>2 DEF Agrees, Paged, Pieces
<1> QED
    BY <1>3, <1>4, AgreeMoves

\* A query that finds parts: of a page, those of a version it shows.
LEMMA AgreeQuery ==
    ASSUME AgreeInv, ReadInv', NEW r \in Readers, Witness,
           NEW parts, Pieces(parts) \subseteq PublicParts,
           NEW n, Moves(r, n), n.op = reader[r].op, n.found = reader[r].found \cup parts,
           n.op # NoRequest,
           n.op \in {"page", "versions"} =>
               /\ RowOf(n.found, n.version)
               /\ \A part \in Pieces(parts) : RowOf(n.found, part.version)
    PROVE  AgreeInv'
<1> DEFINE q == reader[r]
<1>1. Agrees(q, OfferedNow(r)) /\ TypeOK /\ FilesFit /\ PublicParts \subseteq OfferedNow(r)
    BY AgreesNow
<1>2. Paged(n)
  <2>1. Pieces(n.found) = Pieces(q.found) \cup Pieces(parts)
    BY DEF Pieces
  <2>2. \A v : RowOf(q.found, v) => RowOf(n.found, v)
    BY DEF RowOf
  <2> QED
    BY <1>1, <2>1, <2>2 DEF Agrees, Paged
<1> HIDE DEF q
<1>3. Agrees(n, OfferedNow(r))
    BY <1>1, <1>2, AgreesFound DEF q
<1> QED
    BY <1>3, AgreeMoves

LEMMA FindsFields ==
    ASSUME NEW q \in Request, NEW parts, NEW w, NEW k
    PROVE  /\ Finds(q, parts).op = q.op /\ Finds(q, parts).version = q.version
           /\ Finds(q, parts).found = q.found \cup parts
           /\ [Finds(q, parts) EXCEPT !.version = w].op = q.op
           /\ [Finds(q, parts) EXCEPT !.version = w].version = w
           /\ [Finds(q, parts) EXCEPT !.version = w].found = q.found \cup parts
           /\ [Finds(q, parts) EXCEPT !.counted = @ + k].op = q.op
           /\ [Finds(q, parts) EXCEPT !.counted = @ + k].found = q.found \cup parts
BY DEF Finds, Request

\* A query of a page that finds parts and keeps the version.
LEMMA AgreeFinds ==
    ASSUME AgreeInv, ReadInv', NEW r \in Readers, Witness,
           NEW query, At(r, query), query # "item",
           NEW parts, Pieces(parts) \subseteq PublicParts,
           \A part \in Pieces(parts) : part.version = reader[r].version,
           Moves(r, Finds(reader[r], parts))
    PROVE  AgreeInv'
<1> DEFINE q == reader[r]
           n == Finds(q, parts)
<1>1. q \in Request /\ q.op # NoRequest
    BY AtQuery DEF AgreeInv
<1>2. n.op = q.op /\ n.version = q.version /\ n.found = q.found \cup parts
    BY <1>1, FindsFields
<1>3. n.op \in {"page", "versions"} => RowOf(n.found, q.version)
    BY <1>2, PageAt DEF RowOf
<1>4. Moves(r, n)
    OBVIOUS
<1> HIDE DEF n
<1> QED
    BY <1>1, <1>2, <1>3, <1>4, AgreeQuery

\* A query that is none of a page's.
LEMMA AgreeOther ==
    ASSUME AgreeInv, ReadInv', NEW r \in Readers, Witness,
           NEW query, At(r, query), query \notin PageNames,
           NEW parts, Pieces(parts) \subseteq PublicParts,
           NEW n, Moves(r, n), n.op = reader[r].op, n.found = reader[r].found \cup parts
    PROVE  AgreeInv'
<1>1. n.op # NoRequest /\ n.op \notin {"page", "versions"}
    BY PageAt, AtQuery DEF AgreeInv
<1> QED
    BY <1>1, AgreeQuery

LEMMA AgreeItem ==
    ASSUME AgreeInv, ReadInv', NEW r \in Readers, QueryItem(r), Witness
    PROVE  AgreeInv'
<1> DEFINE q == reader[r]
           row == Whole("item", item.latest, item.content)
           parts == {row}
           w == item.latest
           n == [Finds(q, parts) EXCEPT !.version = w]
<1>1. CASE OnShelf
  <2>1. q \in Request /\ q.op # NoRequest
    BY AtQuery DEF AgreeInv, QueryItem
  <2>2. n.op = q.op /\ n.version = w /\ n.found = q.found \cup parts
    BY <2>1, FindsFields
  <2>3. row.kind = "item" /\ row.version = w
    BY DEF Whole
  <2>4. Pieces(parts) = {} /\ RowOf(n.found, w)
    BY <2>2, <2>3 DEF Pieces, RowOf
  <2>5. Moves(r, n)
    BY <1>1 DEF QueryItem
  <2> HIDE DEF n, parts, w
  <2> QED
    BY <2>1, <2>2, <2>4, <2>5, AgreeQuery
<1>2. CASE ~OnShelf
    BY <1>2, AgreeEnds DEF QueryItem
<1> QED
    BY <1>1, <1>2

\* Queries of a page that find nothing it has to fit.
LEMMA AgreePlain ==
    ASSUME AgreeInv, ReadInv', NEW r \in Readers, Witness,
           QueryTags(r) \/ QueryReleases(r) \/ QueryListed(r)
    PROVE  AgreeInv'
<1>1. ASSUME NEW query \in {"tags", "releases", "listedFiles", "listedSpecs"}, At(r, query),
             NEW parts, \A part \in parts : part.kind \notin {"file", "spec"},
             Moves(r, Finds(reader[r], parts))
      PROVE  AgreeInv'
  <2>1. Pieces(parts) = {}
    BY <1>1 DEF Pieces
  <2> QED
    BY <1>1, <2>1, AgreeFinds
<1>2. CASE QueryTags(r)
  <2> DEFINE parts == IF OnShelf THEN {Whole("tags", item.latest, item.content)} ELSE {}
  <2>1. \A part \in parts : part.kind \notin {"file", "spec"}
    BY DEF Whole
  <2>2. At(r, "tags") /\ Moves(r, Finds(reader[r], parts))
    BY <1>2 DEF QueryTags
  <2> HIDE DEF parts
  <2> QED
    BY <1>1, <2>1, <2>2
<1>3. CASE QueryReleases(r)
  <2> DEFINE parts == {Whole("release", v, versions[v].content) : v \in PublishedReleases}
  <2>1. \A part \in parts : part.kind \notin {"file", "spec"}
    BY DEF Whole
  <2>2. At(r, "releases") /\ Moves(r, Finds(reader[r], parts))
    BY <1>3 DEF QueryReleases
  <2> HIDE DEF parts
  <2> QED
    BY <1>1, <2>1, <2>2
<1>4. CASE QueryListed(r)
  <2> DEFINE files == UNION {{Of("listedFile", v, p, artifacts[v][p]) :
                          p \in {q \in Platforms : artifacts[v][q] # 0}} : v \in Listed(r)}
             specs == UNION {{Of("listedSpec", v, p, platforms[v][p].content) :
                          p \in {q \in Platforms : platforms[v][q].content # 0}} :
                              v \in Listed(r)}
  <2>1. \A part \in files \cup specs : part.kind \notin {"file", "spec"}
    BY DEF Of
  <2>2. \/ At(r, "listedFiles") /\ Moves(r, Finds(reader[r], files))
        \/ At(r, "listedSpecs") /\ Moves(r, Finds(reader[r], specs))
    BY <1>4 DEF QueryListed
  <2> HIDE DEF files, specs
  <2> QED
    BY <1>1, <2>1, <2>2
<1> QED
    BY <1>2, <1>3, <1>4

LEMMA AgreeFiles ==
    ASSUME AgreeInv, ReadInv', NEW r \in Readers, QueryFiles(r) \/ QuerySpecs(r), Witness
    PROVE  AgreeInv'
<1> DEFINE shown == item.latest = reader[r].version /\ Public(item.latest)
           files == IF shown THEN FilesOf(item.latest) ELSE {}
           specs == IF shown THEN SpecsOf(item.latest) ELSE {}
<1>1. \/ At(r, "files") /\ Moves(r, Finds(reader[r], files))
      \/ At(r, "specs") /\ Moves(r, Finds(reader[r], specs))
    BY DEF QueryFiles, QuerySpecs
<1>2. \A part \in files \cup specs : part.version = reader[r].version
    BY DEF FilesOf, SpecsOf, Of
<1>3. files \cup specs \subseteq PublicParts
    BY PublicOf
<1> HIDE DEF files, specs
<1>4. /\ Pieces(files) \subseteq PublicParts /\ Pieces(specs) \subseteq PublicParts
      /\ \A part \in Pieces(files) \cup Pieces(specs) : part.version = reader[r].version
    BY <1>2, <1>3 DEF Pieces
<1> QED
    BY <1>1, <1>4, AgreeFinds

\* Queries that move on, or name the version the next ones ask for.
LEMMA AgreeNames ==
    ASSUME AgreeInv, ReadInv', NEW r \in Readers, QueryEnsure(r) \/ QueryLatest(r), Witness
    PROVE  AgreeInv'
<1> DEFINE q == reader[r]
           none == {}
<1>1. CASE Ends(r)
    BY <1>1, AgreeEnds
<1>2. CASE ~Ends(r)
  <2>1. PICK query \in {"ensure", "latest"} : At(r, query)
    BY DEF QueryEnsure, QueryLatest
  <2>2. \/ Moves(r, Finds(q, none))
        \/ \E w : Moves(r, [Finds(q, none) EXCEPT !.version = w])
    BY <1>2 DEF QueryEnsure, QueryLatest
  <2>3. q \in Request /\ query \notin PageNames
    BY <2>1, AtQuery DEF AgreeInv, PageNames
  <2>4. Pieces(none) \subseteq PublicParts
    BY DEF Pieces
  <2> HIDE DEF none
  <2>5. CASE Moves(r, Finds(q, none))
    <3> DEFINE n == Finds(q, none)
    <3>1. n.op = q.op /\ n.found = q.found \cup none /\ Moves(r, n)
      BY <2>3, <2>5, FindsFields
    <3> HIDE DEF n
    <3> QED
      BY <2>1, <2>3, <2>4, <3>1, AgreeOther
  <2>6. ASSUME NEW w, Moves(r, [Finds(q, none) EXCEPT !.version = w])
        PROVE  AgreeInv'
    <3> DEFINE n == [Finds(q, none) EXCEPT !.version = w]
    <3>1. n.op = q.op /\ n.found = q.found \cup none /\ Moves(r, n)
      BY <2>3, <2>6, FindsFields
    <3> HIDE DEF n
    <3> QED
      BY <2>1, <2>3, <2>4, <3>1, AgreeOther
  <2> QED
    BY <2>2, <2>5, <2>6
<1> QED
    BY <1>1, <1>2

\* One query per candidate key: rows that are public, none, or the next key.
LEMMA AgreeCandidate ==
    ASSUME AgreeInv, ReadInv', NEW r \in Readers, Witness,
           NEW query \in {"platform", "artifact"}, At(r, query),
           NEW rows, rows \subseteq PublicParts,
           \/ Moves(r, Finds(reader[r], rows))
           \/ Moves(r, [reader[r] EXCEPT !.try = @ + 1])
           \/ Moves(r, Finds(reader[r], {}))
           \/ Ends(r)
    PROVE  AgreeInv'
<1> DEFINE q == reader[r]
           none == {}
<1>1. q \in Request /\ query \notin PageNames
    BY AtQuery DEF AgreeInv, PageNames
<1>2. Pieces(rows) \subseteq PublicParts /\ Pieces(none) \subseteq PublicParts
    BY DEF Pieces
<1>3. CASE Moves(r, Finds(q, rows))
  <2> DEFINE n == Finds(q, rows)
  <2>1. n.op = q.op /\ n.found = q.found \cup rows /\ Moves(r, n)
    BY <1>1, <1>3, FindsFields
  <2> HIDE DEF n
  <2> QED
    BY <1>1, <1>2, <2>1, AgreeOther
<1>4. CASE Moves(r, Finds(q, none))
  <2> DEFINE n == Finds(q, none)
  <2>1. n.op = q.op /\ n.found = q.found \cup none /\ Moves(r, n)
    BY <1>1, <1>4, FindsFields
  <2> HIDE DEF n, none
  <2> QED
    BY <1>1, <1>2, <2>1, AgreeOther
<1>5. CASE Moves(r, [q EXCEPT !.try = @ + 1])
  <2> DEFINE n == [q EXCEPT !.try = @ + 1]
  <2>1. n.op = q.op /\ n.found = q.found \cup none /\ Moves(r, n)
    BY <1>1, <1>5 DEF Request
  <2> HIDE DEF n, none
  <2> QED
    BY <1>1, <1>2, <2>1, AgreeOther
<1>6. CASE Ends(r)
    BY <1>6, AgreeEnds
<1> QED
    BY <1>3, <1>4, <1>5, <1>6

LEMMA AgreeRows ==
    ASSUME AgreeInv, ReadInv', NEW r \in Readers, QueryPlatform(r) \/ QueryArtifact(r), Witness
    PROVE  AgreeInv'
<1> DEFINE v == reader[r].version
           key == Candidates(reader[r].platform)[reader[r].try]
           specs == IF Public(v) THEN {part \in SpecsOf(v) : part.platform = key} ELSE {}
           files == IF Public(v) THEN {part \in FilesOf(v) : part.platform = key} ELSE {}
<1>1. specs \subseteq PublicParts /\ files \subseteq PublicParts
    BY PublicOf
<1>2. CASE QueryPlatform(r)
  <2>1. /\ At(r, "platform")
        /\ \/ Moves(r, Finds(reader[r], specs))
           \/ Moves(r, [reader[r] EXCEPT !.try = @ + 1])
           \/ Moves(r, Finds(reader[r], {}))
           \/ Ends(r)
    BY <1>2 DEF QueryPlatform, QueryCandidate
  <2> HIDE DEF specs
  <2> QED
    BY <1>1, <2>1, AgreeCandidate
<1>3. CASE QueryArtifact(r)
  <2>1. /\ At(r, "artifact")
        /\ \/ Moves(r, Finds(reader[r], files))
           \/ Moves(r, [reader[r] EXCEPT !.try = @ + 1])
           \/ Moves(r, Finds(reader[r], {}))
           \/ Ends(r)
    BY <1>3 DEF QueryArtifact, QueryCandidate
  <2> HIDE DEF files
  <2> QED
    BY <1>1, <2>1, AgreeCandidate
<1> QED
    BY <1>2, <1>3

LEMMA AgreeManifest ==
    ASSUME AgreeInv, ReadInv', NEW r \in Readers, QueryManifest(r) \/ QueryPath(r), Witness
    PROVE  AgreeInv'
<1> DEFINE q == reader[r]
<1>1. ASSUME NEW query \in {"manifest", "path"}, At(r, query),
             NEW parts, parts \subseteq PublicParts, Moves(r, Finds(q, parts))
      PROVE  AgreeInv'
  <2> DEFINE n == Finds(q, parts)
  <2>1. q \in Request /\ query \notin PageNames /\ Pieces(parts) \subseteq PublicParts
    BY <1>1, AtQuery DEF AgreeInv, PageNames, Pieces
  <2>2. n.op = q.op /\ n.found = q.found \cup parts /\ Moves(r, n)
    BY <1>1, <2>1, FindsFields
  <2> HIDE DEF n
  <2> QED
    BY <1>1, <2>1, <2>2, AgreeOther
<1>2. CASE QueryManifest(r)
  <2> DEFINE v == q.version
             parts == IF Public(v) THEN {Whole("release", v, versions[v].content)} ELSE {}
  <2>1. parts \subseteq PublicParts
    BY PublicOf
  <2>2. At(r, "manifest") /\ Moves(r, Finds(q, parts))
    BY <1>2 DEF QueryManifest
  <2> HIDE DEF parts
  <2> QED
    BY <1>1, <2>1, <2>2
<1>3. ASSUME At(r, "path"), NEW v \in Versions, Public(v), NEW file \in FilesOf(v),
             Moves(r, Finds(q, {file}))
      PROVE  AgreeInv'
  <2>1. {file} \subseteq PublicParts
    BY <1>3, PublicOf
  <2> QED
    BY <1>1, <1>3, <2>1
<1>4. CASE Ends(r)
    BY <1>4, AgreeEnds
<1> QED
    BY <1>2, <1>3, <1>4 DEF QueryPath

\* Counting finds nothing that has to fit.
LEMMA AgreeCounts ==
    ASSUME AgreeInv, ReadInv', NEW r \in Readers, Record(r) \/ Count(r), Witness
    PROVE  AgreeInv'
<1> DEFINE q == reader[r]
           none == {}
           one == {Whole("item", item.latest, item.content)}
<1>0. PICK query \in {"record", "count"} : At(r, query)
    BY DEF Record, Count
<1>1. q \in Request /\ query \notin PageNames
    BY <1>0, AtQuery DEF AgreeInv, PageNames
<1>2. Pieces(none) \subseteq PublicParts /\ Pieces(one) \subseteq PublicParts
    BY DEF Pieces, Whole
<1>3. ASSUME NEW n, Moves(r, n), n.op = q.op, n.found = q.found \cup none
      PROVE  AgreeInv'
    BY <1>0, <1>1, <1>2, <1>3, AgreeOther
<1>4. ASSUME NEW k, Moves(r, [Finds(q, none) EXCEPT !.counted = @ + k])
      PROVE  AgreeInv'
  <2> DEFINE n == [Finds(q, none) EXCEPT !.counted = @ + k]
  <2>1. Moves(r, n)
    BY <1>4
  <2> HIDE DEF none
  <2>2. n.op = q.op /\ n.found = q.found \cup none
    BY <1>1, FindsFields
  <2> HIDE DEF n
  <2> QED
    BY <1>3, <2>1, <2>2
<1>5. CASE Moves(r, [Finds(q, one) EXCEPT !.counted = @ + 1])
  <2> DEFINE n == [Finds(q, one) EXCEPT !.counted = @ + 1]
  <2>1. n.op = q.op /\ n.found = q.found \cup one /\ Moves(r, n)
    BY <1>1, <1>5, FindsFields
  <2> HIDE DEF n, one
  <2> QED
    BY <1>0, <1>1, <1>2, <2>1, AgreeOther
<1>6. CASE Moves(r, [q EXCEPT !.try = @ + 1])
  <2> DEFINE n == [q EXCEPT !.try = @ + 1]
  <2>1. n.op = q.op /\ n.found = q.found \cup none /\ Moves(r, n)
    BY <1>1, <1>6 DEF Request
  <2> HIDE DEF n, none
  <2> QED
    BY <1>3, <2>1
<1>7. ASSUME NEW k, Moves(r, [Fails(q) EXCEPT !.counted = @ + k])
      PROVE  AgreeInv'
  <2> DEFINE n == [Fails(q) EXCEPT !.counted = @ + k]
  <2>1. n.op = q.op /\ n.found = q.found \cup none /\ Moves(r, n)
    BY <1>1, <1>7 DEF Request, Fails
  <2> HIDE DEF n, none
  <2> QED
    BY <1>3, <2>1
<1>8. CASE Ends(r)
    BY <1>8, AgreeEnds
<1>9. CASE Record(r)
    BY <1>4, <1>9 DEF Record
<1>10. CASE Count(r)
    BY <1>5, <1>6, <1>7, <1>8, <1>10 DEF Count
<1> QED
    BY <1>9, <1>10

-----------------------------------------------------------------------------
(* Steps of the lifecycle, under requests that are running *)

LEMMA AgreeRelease ==
    ASSUME AgreeInv, ReadInv', FilesAlways, ReleaseSteps, Witness
    PROVE  AgreeInv'
<1>0. LifecycleInv /\ FilesFit /\ LifecycleInv' /\ TypeOK /\ TypeOK'
    BY DEF AgreeInv, ReadInv, LifecycleInv
<1>1. CASE Restart /\ reader' = [r \in Readers |-> Idle]
  <2>1. FilesFit'
    BY <1>0, <1>1, RestartFits
  <2>2. \A r \in Readers : reader'[r] = Idle /\ offered'[r] = {}
    BY <1>1 DEF Witness, Idle
  <2>3. \A r \in Readers : Agrees(reader[r], offered[r])' /\ Below(offered[r])'
    BY <2>2 DEF Agrees, Paged, Pieces, Idle, Below
  <2> QED
    BY <2>1, <2>3 DEF AgreeInv
<1>2. CASE /\ reader' = reader
           /\ Submit \/ (\E status \in Decisions : UpdateReview(status)) \/ Unpublish
  <2>1. /\ FilesFit'
        /\ \A v \in Versions : SameParts(v) \/ versions'[v].content > versions[v].content
    <3>1. CASE Submit
      BY <1>0, <3>1, SubmitRenumbers
    <3>2. CASE (\E status \in Decisions : UpdateReview(status)) \/ Unpublish
      <4>1. (\A v \in Versions : SameParts(v)) /\ submissions' = submissions
        BY <1>0, <3>2, DecisionKeepsParts
      <4> QED
        BY <1>0, <4>1 DEF FilesFit, SameParts
    <3> QED
      BY <1>2, <3>1, <3>2
  <2>2. \A v \in Versions : versions[v].content \in Nat /\ versions'[v].content \in Nat
    BY <1>0, InputsAssumption DEF TypeOK, VersionRow, Content
  <2>3. ASSUME NEW r \in Readers
        PROVE  Agrees(reader[r], offered[r])' /\ Below(offered[r])'
    <3>1. /\ reader'[r] = reader[r] /\ reader[r] \in Request
          /\ Agrees(reader[r], offered[r]) /\ Below(offered[r]) /\ offered[r] \subseteq Part
      BY <1>2 DEF AgreeInv, ReadInv
    <3>2. \/ offered'[r] = {} /\ offered[r] = {}
          \/ offered'[r] = offered[r] \cup PublicParts'
      BY <1>2, <3>1 DEF AgreeInv, ReadInv, Busy, Witness
    <3>3. offered[r] \subseteq offered'[r]
      BY <3>2
    <3>4. Agrees(reader[r], offered[r])'
      BY <2>1, <2>2, <3>1, <3>3, AgreesLater
    <3>5. Below(offered[r])'
      <4> SUFFICES ASSUME NEW rel \in offered'[r], rel.kind = "release"
                   PROVE  rel.content \in Nat /\ rel.content <= versions'[rel.version].content
        BY DEF Below
      <4>1. CASE rel \in offered[r]
        <5>1. rel.version \in Versions
          BY <3>1, <4>1 DEF Part
        <5> QED
          BY <2>1, <2>2, <3>1, <4>1, <5>1 DEF Below, SameParts
      <4>2. CASE rel \in PublicParts'
        <5>1. Below(PublicParts)'
          BY <1>0, PublicBelow, PTL
        <5> QED
          BY <4>2, <5>1 DEF Below
      <4> QED
        BY <3>2, <4>1, <4>2
    <3> QED
      BY <3>4, <3>5
  <2> QED
    BY <2>1, <2>3 DEF AgreeInv
<1> QED
    BY <1>1, <1>2 DEF ReleaseSteps

LEMMA AgreeInit == ReadInit => AgreeInv
<1> SUFFICES ASSUME ReadInit PROVE AgreeInv
    OBVIOUS
<1>1. ReadInv /\ FilesFit
    BY ReadInitInv, FitsInit DEF ReadInit
<1>2. \A r \in Readers : reader[r] = Idle /\ offered[r] = {}
    BY DEF ReadInit
<1>3. Below({})
    BY DEF Below
<1> QED
    BY <1>1, <1>2, <1>3, AgreesIdle DEF AgreeInv

LEMMA AgreeNext == ASSUME FilesAlways, AgreeInv, [ReadNext]_allVars PROVE AgreeInv'
<1>0. ReadInv'
    BY ReadNextInv DEF AgreeInv
<1>1. CASE Witness /\ \E r \in Readers : Begin(r) \/ Leave(r)
    BY <1>0, <1>1, AgreeBegins, AgreeEnds DEF Leave
<1>2. CASE Witness /\ \E r \in Readers : Query(r)
    BY <1>0, <1>2, AgreeItem, AgreePlain, AgreeFiles, AgreeNames, AgreeRows, AgreeManifest,
       AgreeCounts
    DEF Query
<1>3. CASE Witness /\ ReleaseSteps
    BY <1>0, <1>3, AgreeRelease
<1>4. CASE UNCHANGED allVars
    BY <1>0, <1>4
    DEF allVars, readVars, vars, AgreeInv, FilesFit, Agrees, Dated, Stands, Fits, SamePlace,
        ReleaseIn, ReplacedIn, Paged, Pieces, RowOf, Below
<1> QED
    BY <1>1, <1>2, <1>3, <1>4 DEF ReadNext

(* Whatever is approved, withdrawn or submitted anew between two queries, the
   parts of an answer fit, also by admins who suspend, where every submission
   brings its file. *)
THEOREM AgreeTheorem == ASSUME FilesAlways PROVE ReadSpec => []AnswersAgree
<1>1. ASSUME AgreeInv, NEW r \in Readers
      PROVE  LET found == reader[r].found IN
             /\ \A part \in found : part.kind \in {"file", "spec"}
                                    /\ reader[r].op \in {"page", "versions"} =>
                   \E row \in found : row.kind = "item" /\ row.version = part.version
             /\ \A file, spec \in found :
                   /\ file.kind = "file" /\ spec.kind = "spec"
                   /\ file.version = spec.version /\ file.platform = spec.platform
                   => file.content = spec.content \/ Replaced(r, file.version)
  <2> DEFINE q == reader[r]
             o == offered[r]
  <2>1. Agrees(q, o)
    BY <1>1 DEF AgreeInv
  <2>2. \A part \in Pieces(q.found) :
            q.op \in {"page", "versions"} => RowOf(q.found, part.version)
    BY <2>1 DEF Agrees, Paged
  <2>3. \A file, spec \in Pieces(q.found) : Fits(file, spec, o)
    BY <2>1 DEF Agrees
  <2>4. \A v : ReplacedIn(o, v) => Replaced(r, v)
    BY DEF ReplacedIn, Replaced
  <2>5. ASSUME NEW part \in q.found, part.kind \in {"file", "spec"},
               q.op \in {"page", "versions"}
        PROVE  \E row \in q.found : row.kind = "item" /\ row.version = part.version
    BY <2>2, <2>5 DEF Pieces, RowOf
  <2>6. ASSUME NEW file \in q.found, NEW spec \in q.found, SamePlace(file, spec)
        PROVE  file.content = spec.content \/ Replaced(r, file.version)
    <3>1. file \in Pieces(q.found) /\ spec \in Pieces(q.found)
      BY <2>6 DEF SamePlace, Pieces
    <3> QED
      BY <2>3, <2>4, <2>6, <3>1 DEF Fits
  <2> QED
    BY <2>5, <2>6 DEF SamePlace
<1>2. AgreeInv => AnswersAgree
  BY <1>1 DEF AnswersAgree
<1> QED
  BY <1>2, AgreeInit, AgreeNext, PTL DEF ReadSpec
=============================================================================
