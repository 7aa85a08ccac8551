------------------------------- MODULE SemVer -------------------------------
(***************************************************************************)
(* Version ordering: canonicalVersion, parseSemanticVersion and            *)
(* compareSemanticVersions.                                                *)
(*                                                                         *)
(* A version is its text cut at "+", "-" and ".".  An identifier between   *)
(* two of these is known by what the code asks of it, and by its place in  *)
(* the order of Go's strings.                                              *)
(***************************************************************************)
EXTENDS Integers, Sequences

CONSTANTS
    Identifiers,  \* the identifiers there are
    MaxInt        \* the greatest number strconv.ParseInt accepts at 64 bits

\* text: its place among all strings; digits: it has digits only, and then
\* padded: it is longer than one and begins with 0, and value: its number;
\* valid: it is not empty and every character is allowed.
Identifier == [text: Nat, digits: BOOLEAN, padded: BOOLEAN, value: Nat, valid: BOOLEAN]

ASSUME IdentifiersAssumption ==
    /\ MaxInt \in Nat
    /\ Identifiers \subseteq Identifier
    /\ \A a, b \in Identifiers :
          /\ a.text = b.text => a = b
          /\ /\ a.digits /\ ~a.padded /\ b.digits /\ ~b.padded
             /\ a.value = b.value
             => a = b

\* mark: what precedes the first identifier; builds: one list for each "+".
Text == [mark: {"", "v", "V", "vv"}, core: Seq(Identifiers), pre: Seq(Identifiers),
         builds: Seq(Seq(Identifiers))]

\* canonicalVersion drops one "v" or "V" in front of a digit.  (A first
\* identifier with a digit and other characters is malformed with or without.)
CanonicalVersion(text) ==
    IF text.mark \in {"v", "V"} /\ text.core # << >> /\ text.core[1].digits
    THEN [text EXCEPT !.mark = ""] ELSE text

\* numericIdentifier: digits, and no more than 64 bits hold.
NumericIdentifier(id) == id.digits /\ id.value <= MaxInt

\* validIdentifierList, where asked with forbidNumericLeadingZero.
ValidIdentifiers(list, forbidPadded) ==
    \A i \in DOMAIN list : list[i].valid /\ ~(forbidPadded /\ list[i].digits /\ list[i].padded)

\* parseSemanticVersion succeeds.
WellFormed(text) ==
    LET t == CanonicalVersion(text) IN
    /\ t.mark = ""
    /\ Len(t.core) = 3
    /\ \A i \in 1 .. 3 : NumericIdentifier(t.core[i]) /\ ~t.core[i].padded
    /\ ValidIdentifiers(t.pre, TRUE)
    /\ Len(t.builds) <= 1
    /\ \A i \in DOMAIN t.builds : t.builds[i] # << >> /\ ValidIdentifiers(t.builds[i], FALSE)

\* Two identifiers that differ: numbers by value and before all others, the
\* others as strings, numbers that 64 bits cannot hold among them.
IdentifierBefore(a, b) ==
    IF NumericIdentifier(a) /\ NumericIdentifier(b) THEN a.value < b.value
    ELSE NumericIdentifier(a) \/ (~NumericIdentifier(b) /\ a.text < b.text)

\* The lists agree up to position i - 1 and differ at i.
DifferAt(l, r, i) ==
    /\ i \in DOMAIN l /\ i \in DOMAIN r
    /\ \A j \in 1 .. i - 1 : l[j] = r[j]
    /\ l[i] # r[i]

\* l is a proper beginning of r.
Begins(l, r) == Len(l) < Len(r) /\ \A j \in 1 .. Len(l) : l[j] = r[j]

CoreBefore(l, r) ==
    \E i \in 1 .. 3 : l.core[i].value < r.core[i].value
                      /\ \A j \in 1 .. i - 1 : l.core[j].value = r.core[j].value
SameCore(l, r) == \A i \in 1 .. 3 : l.core[i].value = r.core[i].value

\* Where the cores agree, a version without pre-release comes last.
PreBefore(l, r) ==
    \/ l.pre # << >> /\ r.pre = << >>
    \/ /\ l.pre # << >> /\ r.pre # << >>
       /\ \/ Begins(l.pre, r.pre)
          \/ \E i \in DOMAIN l.pre : DifferAt(l.pre, r.pre, i)
                                     /\ IdentifierBefore(l.pre[i], r.pre[i])

\* compareSemanticVersions: comparable, and the answer negative, or zero.
Before(l, r) ==
    /\ WellFormed(l) /\ WellFormed(r)
    /\ CoreBefore(l, r) \/ (SameCore(l, r) /\ PreBefore(l, r))
SamePrecedence(l, r) ==
    WellFormed(l) /\ WellFormed(r) /\ SameCore(l, r) /\ l.pre = r.pre
=============================================================================
