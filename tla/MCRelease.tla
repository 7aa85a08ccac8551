----------------------------- MODULE MCRelease -----------------------------
(* Small instances of Release for TLC, with versions that SemVer orders. *)
EXTENDS Release, SemVer, TLC

CONSTANTS v1, v2, v3, weird, universal, linux, alice, bob, nobody

\* Identifiers in the order of strings; 100 and 12 are beyond MaxInt.
Digits(text, padded, value) ==
    [text |-> text, digits |-> TRUE, padded |-> padded, value |-> value, valid |-> TRUE]
Letters(text, valid) ==
    [text |-> text, digits |-> FALSE, padded |-> FALSE, value |-> 0, valid |-> valid]
empty == Letters(0, FALSE)
zero == Digits(1, FALSE, 0)
padded == Digits(2, TRUE, 0)
ten == Digits(3, FALSE, 10)
hundred == Digits(4, FALSE, 100)
twelve == Digits(5, FALSE, 12)
nine == Digits(6, FALSE, 9)
beta == Letters(7, TRUE)
rc == Letters(8, TRUE)
MCIdentifiers == {empty, zero, padded, ten, hundred, twelve, nine, beta, rc}

Version(mark, core, pre, builds) == [mark |-> mark, core |-> core, pre |-> pre, builds |-> builds]

\* v1 is 0.9.0-rc.9, v2 v0.9.0-rc.10+0, v3 0.10.0, and weird 0.9.
TextOf ==
    v1 :> Version("", <<zero, nine, zero>>, <<rc, nine>>, << >>) @@
    v2 :> Version("v", <<zero, nine, zero>>, <<rc, ten>>, << <<padded>> >>) @@
    v3 :> Version("", <<zero, ten, zero>>, << >>, << >>) @@
    weird :> Version("", <<zero, nine>>, << >>, << >>)

MCMalformed == {v \in Versions : ~WellFormed(TextOf[v])}
MCRank == [v \in Versions |-> Cardinality({w \in Versions : Before(TextOf[w], TextOf[v])})]

Symmetry == Permutations({alice, bob})

-----------------------------------------------------------------------------
(* Precedence as semver.org defines it in item 11, list against list and with
   numbers of any size, against compareSemanticVersions. *)
RECURSIVE ListBefore(_, _)
ListBefore(l, r) ==
    IF l = << >> \/ r = << >> THEN l = << >> /\ r # << >>
    ELSE LET a == Head(l)
             b == Head(r)
         IN  IF a = b THEN ListBefore(Tail(l), Tail(r))
             ELSE IF a.digits /\ b.digits THEN a.value < b.value
             ELSE IF a.digits = b.digits THEN a.text < b.text ELSE a.digits
ItemEleven(l, r) ==
    \/ ListBefore(l.core, r.core)
    \/ l.core = r.core /\ l.pre # << >> /\ (r.pre = << >> \/ ListBefore(l.pre, r.pre))

Cores == {<<zero, nine, zero>>, <<zero, ten, zero>>, <<nine, zero, nine>>}
Pres == {<< >>} \cup {<<a>> : a \in MCIdentifiers} \cup
        {<<a, b>> : a, b \in {zero, nine, ten, beta, rc}}
Comparable(pre) == \A i \in DOMAIN pre : pre[i].valid /\ ~pre[i].padded
Fits(pre) == \A i \in DOMAIN pre : pre[i] \notin {hundred, twelve}

ASSUME PrecedenceAsDefined ==
    \A lc, rc0 \in Cores, lp, rp \in Pres :
        LET l == Version("", lc, lp, << >>)
            r == Version("V", rc0, rp, << <<padded>> >>)
        IN  Before(l, r) <=> Comparable(lp) /\ Comparable(rp) /\
                             (IF Fits(lp) /\ Fits(rp) THEN ItemEleven(l, r)
                              ELSE Before(l, [r EXCEPT !.builds = << >>]))

\* What is refused: marks twice, parts missing, a "+" too many, numbers that
\* are padded or beyond 64 bits in the core, empty identifiers.
ASSUME Refused ==
    \A text \in {Version("vv", <<zero, zero, zero>>, << >>, << >>),
                 Version("", <<zero, zero>>, << >>, << >>),
                 Version("", <<zero, zero, zero, zero>>, << >>, << >>),
                 Version("", <<zero, padded, zero>>, << >>, << >>),
                 Version("", <<zero, zero, twelve>>, << >>, << >>),
                 Version("v", <<beta, zero, zero>>, << >>, << >>),
                 Version("", <<zero, zero, zero>>, <<rc, empty>>, << >>),
                 Version("", <<zero, zero, zero>>, <<padded>>, << >>),
                 Version("", <<zero, zero, zero>>, << >>, << <<zero>>, <<zero>> >>)} :
        ~WellFormed(text)

\* Numbers 64 bits cannot hold are compared as strings: 100 is put before 12,
\* where semver.org puts 12 first.
ASSUME OversizedAsText ==
    LET l == Version("", <<zero, zero, zero>>, <<hundred>>, << >>)
        r == Version("", <<zero, zero, zero>>, <<twelve>>, << >>)
    IN  Before(l, r) /\ ItemEleven(r, l)
=============================================================================
