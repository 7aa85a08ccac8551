----------------------------- MODULE MCStartup -----------------------------
(* Databases of former releases for TLC. *)
EXTENDS Startup

CONSTANTS ann, bob, nobody, universal, mac

\* Contents are numbered by version and spelling, the item's own comes last.
Number(s) == s.base * 3 - 2 + CASE s.mark = "" -> 0 [] s.mark = "v" -> 1 [] OTHER -> 2
ItemContent == Cardinality(Stored) + 1
Marked(mark, base) == [mark |-> mark, base |-> base]

\* What is known of the creator: nothing, the metadata's, also the column's.
Known == {[creator |-> Nobody, owner |-> Nobody, columns |-> {}],
          [creator |-> Nobody, owner |-> ann, columns |-> {<<"items", "metadata_json">>}],
          [creator |-> Nobody, owner |-> ann, columns |-> Columns],
          [creator |-> bob, owner |-> ann, columns |-> Columns]}

\* A component with the releases vs, files for the platform mac of the releases
\* as, platform rows where they were kept already, and downloads of everything.
Database(type, latest, vs, as, kept, known, snapshot) ==
    [type |-> type,
     tables |-> IF kept THEN Tables ELSE Tables \ {"version_platforms"},
     columns |-> known.columns,
     item |-> [latest |-> latest, content |-> ItemContent, creator |-> known.creator,
               owner |-> known.owner, submitted |-> FALSE],
     versions |-> [s \in Stored |-> IF s \notin vs THEN None ELSE
         [content |-> Number(s), submitted |-> FALSE,
          creator |-> IF known.columns = Columns /\ s.base = 1 THEN bob ELSE Nobody,
          snapshot |-> IF snapshot /\ s.mark = "" /\ known.columns = Columns
                       THEN [content |-> Number(s), tags |-> TRUE, platform |-> 0]
                       ELSE NoSnapshot]],
     artifacts |-> [s \in Stored |-> [p \in Platforms |->
                       IF p = mac /\ s \in as THEN Number(s) ELSE 0]],
     platforms |-> [s \in Stored |-> [p \in Platforms |->
                       IF kept /\ p = Universal /\ s \in as THEN Number(s) ELSE 0]],
     downloads |-> [s \in Stored |-> 1]]

EmptyDatabase ==
    [Database("skill", Marked("", 1), {}, {}, FALSE, [creator |-> Nobody, owner |-> Nobody, columns |-> {}], FALSE)
       EXCEPT !.tables = {}, !.item.content = 0, !.downloads = [s \in Stored |-> 0]]

Spellings(base) == {Marked(mark, base) : mark \in {"", "v", "V"}}
MCDatabases ==
    {EmptyDatabase} \cup
    {Database(type, Marked(mark, 2), vs, vs \cap as, known.columns = Columns, known, snapshot) :
        type \in {"sandbox", "skill"}, mark \in {"", "v"},
        vs \in {{Marked("v", 1)} \cup ws : ws \in SUBSET Spellings(2)} \cup {Spellings(1) \cup Spellings(2)},
        as \in {Stored, {Marked("v", 1), Marked("V", 1), Marked("v", 2)}},
        known \in Known, snapshot \in BOOLEAN}
=============================================================================
