---------------------------- MODULE SemVerProofs ----------------------------
(***************************************************************************)
(* Precedence of versions is a strict weak order, for any identifiers and  *)
(* any bound of the integers.  Release takes the precedence as a Rank,     *)
(* which exists for such an order only.                                    *)
(***************************************************************************)
EXTENDS SemVer, WellFoundedInduction, TLAPS

\* Identifiers a well-formed pre-release may have.
Unpadded == {id \in Identifiers : ~(id.digits /\ id.padded)}

-----------------------------------------------------------------------------
(* Identifiers *)

\* Two unpadded identifiers are the same, or one is before the other.
LEMMA IdentifiersTotal ==
    ASSUME NEW a \in Unpadded, NEW b \in Unpadded
    PROVE  a = b \/ IdentifierBefore(a, b) \/ IdentifierBefore(b, a)
<1>1. /\ a \in Identifier /\ b \in Identifier
      /\ a \in Identifiers /\ b \in Identifiers
      /\ ~(a.digits /\ a.padded) /\ ~(b.digits /\ b.padded)
      /\ a.digits \in BOOLEAN /\ b.digits \in BOOLEAN
      /\ a.padded \in BOOLEAN /\ b.padded \in BOOLEAN
      /\ a.value \in Nat /\ b.value \in Nat /\ a.text \in Nat /\ b.text \in Nat
    BY IdentifiersAssumption DEF Unpadded, Identifier
<1>2. a.text = b.text => a = b
    BY <1>1, IdentifiersAssumption
<1>3. a.digits /\ b.digits /\ a.value = b.value => a = b
    BY <1>1, IdentifiersAssumption
<1> HIDE DEF Identifier
<1> QED
    BY <1>1, <1>2, <1>3 DEF IdentifierBefore, NumericIdentifier

LEMMA IdentifiersIrreflexive ==
    ASSUME NEW a \in Identifiers
    PROVE  ~IdentifierBefore(a, a)
BY IdentifiersAssumption DEF Identifier, IdentifierBefore, NumericIdentifier

LEMMA IdentifiersTransitive ==
    ASSUME NEW a \in Identifiers, NEW b \in Identifiers, NEW c \in Identifiers,
           IdentifierBefore(a, b), IdentifierBefore(b, c)
    PROVE  IdentifierBefore(a, c)
<1>1. /\ a.value \in Nat /\ b.value \in Nat /\ c.value \in Nat
      /\ a.text \in Nat /\ b.text \in Nat /\ c.text \in Nat
      /\ MaxInt \in Nat
    BY IdentifiersAssumption DEF Identifier
<1> QED
    BY <1>1 DEF IdentifierBefore, NumericIdentifier

-----------------------------------------------------------------------------
(* What a version that parses is made of *)

LEMMA WellFormedParts ==
    ASSUME NEW l \in Text, WellFormed(l)
    PROVE  /\ \A i \in 1 .. 3 : l.core[i].value \in Nat
           /\ l.pre \in Seq(Unpadded)
<1>1. /\ CanonicalVersion(l).core = l.core
      /\ CanonicalVersion(l).pre = l.pre
    BY DEF CanonicalVersion, Text
<1>2. Len(l.core) = 3 /\ l.core \in Seq(Identifiers) /\ l.pre \in Seq(Identifiers)
    BY <1>1 DEF WellFormed, Text
<1>3. \A i \in 1 .. 3 : l.core[i] \in Identifiers
    BY <1>2
<1>4. \A i \in 1 .. 3 : l.core[i].value \in Nat
    BY <1>3, IdentifiersAssumption DEF Identifier
<1>5. \A i \in DOMAIN l.pre : l.pre[i] \in Unpadded
  <2>1. ValidIdentifiers(l.pre, TRUE)
    BY <1>1 DEF WellFormed
  <2> QED
    BY <1>2, <2>1 DEF ValidIdentifiers, Unpadded
<1>6. l.pre \in Seq(Unpadded)
    BY <1>2, <1>5
<1> QED
    BY <1>4, <1>6

-----------------------------------------------------------------------------
(* Pre-releases *)

\* Lists that differ and neither begins the other have a first position at
\* which they differ.
LEMMA FirstDifference ==
    ASSUME NEW l \in Seq(Unpadded), NEW r \in Seq(Unpadded),
           l # r, ~Begins(l, r), ~Begins(r, l)
    PROVE  \E i \in DOMAIN l : DifferAt(l, r, i)
<1> DEFINE D == {i \in Nat : i \in DOMAIN l /\ i \in DOMAIN r /\ l[i] # r[i]}
<1>1. D # {}
  <2> SUFFICES ASSUME D = {} PROVE FALSE
    OBVIOUS
  <2>1. DOMAIN l = 1 .. Len(l) /\ DOMAIN r = 1 .. Len(r)
    OBVIOUS
  <2>6. Len(l) \in Nat /\ Len(r) \in Nat
    OBVIOUS
  <2>2. \A j \in 1 .. Len(l) : j \in 1 .. Len(r) => l[j] = r[j]
    BY <2>1
  <2>3. CASE Len(l) < Len(r)
    BY <2>1, <2>6, <2>2, <2>3 DEF Begins
  <2>4. CASE Len(r) < Len(l)
    BY <2>1, <2>6, <2>2, <2>4 DEF Begins
  <2>5. CASE Len(r) = Len(l)
    BY <2>1, <2>6, <2>2, <2>5
  <2> HIDE DEF D
  <2> QED
    BY <2>6, <2>3, <2>4, <2>5
<1>2. PICK i \in D : \A j \in D : ~(<<j, i>> \in OpToRel(<, Nat))
  <2> HIDE DEF D
  <2>1. D \subseteq Nat
    BY DEF D
  <2> QED
    BY <1>1, <2>1, WFMin, NatLessThanWellFounded
<1>3. \A j \in D : ~(j < i)
    BY <1>2 DEF OpToRel
<1>4. \A j \in 1 .. i - 1 : l[j] = r[j]
    BY <1>3
<1> QED
    BY <1>4 DEF DifferAt

LEMMA PreTotal ==
    ASSUME NEW l \in Text, NEW r \in Text,
           l.pre \in Seq(Unpadded), r.pre \in Seq(Unpadded)
    PROVE  l.pre = r.pre \/ PreBefore(l, r) \/ PreBefore(r, l)
<1> SUFFICES ASSUME l.pre # r.pre, l.pre # << >>, r.pre # << >>,
                    ~Begins(l.pre, r.pre), ~Begins(r.pre, l.pre)
             PROVE  PreBefore(l, r) \/ PreBefore(r, l)
    BY DEF PreBefore
<1>1. PICK i \in DOMAIN l.pre : DifferAt(l.pre, r.pre, i)
    BY FirstDifference
<1>2. /\ i \in DOMAIN r.pre
      /\ l.pre[i] \in Unpadded /\ r.pre[i] \in Unpadded
      /\ l.pre[i] # r.pre[i]
    BY <1>1 DEF DifferAt
<1>3. DifferAt(r.pre, l.pre, i)
    BY <1>1 DEF DifferAt
<1>4. IdentifierBefore(l.pre[i], r.pre[i]) \/ IdentifierBefore(r.pre[i], l.pre[i])
    BY <1>2, IdentifiersTotal
<1> QED
    BY <1>1, <1>2, <1>3, <1>4 DEF PreBefore

LEMMA PreIrreflexive ==
    ASSUME NEW l \in Text, l.pre \in Seq(Unpadded)
    PROVE  ~PreBefore(l, l)
<1>1. \A i : ~DifferAt(l.pre, l.pre, i)
    BY DEF DifferAt
<1>2. ~Begins(l.pre, l.pre)
    BY DEF Begins
<1> QED
    BY <1>1, <1>2 DEF PreBefore

LEMMA PreTransitive ==
    ASSUME NEW l \in Text, NEW r \in Text, NEW t \in Text,
           l.pre \in Seq(Unpadded), r.pre \in Seq(Unpadded), t.pre \in Seq(Unpadded),
           PreBefore(l, r), PreBefore(r, t)
    PROVE  PreBefore(l, t)
<1> DEFINE a == l.pre  b == r.pre  c == t.pre
<1>1. a # << >> /\ b # << >>
    BY DEF PreBefore
<1>2. CASE c = << >>
    BY <1>1, <1>2 DEF PreBefore
<1>3. CASE c # << >>
  <2>1. \/ Begins(a, b)
        \/ \E i \in DOMAIN a : DifferAt(a, b, i) /\ IdentifierBefore(a[i], b[i])
    BY <1>1 DEF PreBefore
  <2>2. \/ Begins(b, c)
        \/ \E k \in DOMAIN b : DifferAt(b, c, k) /\ IdentifierBefore(b[k], c[k])
    BY <1>1, <1>3 DEF PreBefore
  <2>3. /\ DOMAIN a = 1 .. Len(a) /\ DOMAIN b = 1 .. Len(b) /\ DOMAIN c = 1 .. Len(c)
        /\ Len(a) \in Nat /\ Len(b) \in Nat /\ Len(c) \in Nat
        /\ \A i \in DOMAIN a : a[i] \in Identifiers
        /\ \A i \in DOMAIN b : b[i] \in Identifiers
        /\ \A i \in DOMAIN c : c[i] \in Identifiers
    BY DEF Unpadded
  <2> SUFFICES \/ Begins(a, c)
               \/ \E i \in DOMAIN a : DifferAt(a, c, i) /\ IdentifierBefore(a[i], c[i])
    BY <1>1, <1>3 DEF PreBefore
  <2> HIDE DEF a, b, c
  <2>4. CASE Begins(a, b) /\ Begins(b, c)
    <3>1. Begins(a, c)
      BY <2>3, <2>4 DEF Begins
    <3> QED
      BY <3>1
  <2>5. ASSUME Begins(a, b), NEW k \in DOMAIN b, DifferAt(b, c, k), IdentifierBefore(b[k], c[k])
        PROVE  \/ Begins(a, c)
               \/ k \in DOMAIN a /\ DifferAt(a, c, k) /\ IdentifierBefore(a[k], c[k])
    BY <2>3, <2>5 DEF Begins, DifferAt
  <2>6. ASSUME NEW i \in DOMAIN a, DifferAt(a, b, i), IdentifierBefore(a[i], b[i]), Begins(b, c)
        PROVE  DifferAt(a, c, i) /\ IdentifierBefore(a[i], c[i])
    BY <2>3, <2>6 DEF Begins, DifferAt
  <2>7. ASSUME NEW i \in DOMAIN a, DifferAt(a, b, i), IdentifierBefore(a[i], b[i]),
               NEW k \in DOMAIN b, DifferAt(b, c, k), IdentifierBefore(b[k], c[k])
        PROVE  \E j \in DOMAIN a : DifferAt(a, c, j) /\ IdentifierBefore(a[j], c[j])
    <3>1. CASE i < k
      BY <2>3, <2>7, <3>1 DEF DifferAt
    <3>2. CASE k < i
      BY <2>3, <2>7, <3>2 DEF DifferAt
    <3>3. CASE k = i
      <4>1. IdentifierBefore(a[i], c[i])
        BY <2>3, <2>7, <3>3, IdentifiersTransitive DEF DifferAt
      <4>2. a[i] # c[i]
        BY <2>3, <4>1, IdentifiersIrreflexive
      <4> QED
        BY <2>3, <2>7, <3>3, <4>1, <4>2 DEF DifferAt
    <3> QED
      BY <2>3, <3>1, <3>2, <3>3
  <2> QED
    BY <2>1, <2>2, <2>4, <2>5, <2>6, <2>7
<1> QED
    BY <1>2, <1>3

-----------------------------------------------------------------------------
(* Versions *)

\* compareSemanticVersions answers 0 for a version and itself.
THEOREM PrecedenceIrreflexive == \A l \in Text : ~Before(l, l)
<1> SUFFICES ASSUME NEW l \in Text, WellFormed(l)
             PROVE  ~CoreBefore(l, l) /\ ~PreBefore(l, l)
    BY DEF Before
<1>1. \A i \in 1 .. 3 : l.core[i].value \in Nat
    BY WellFormedParts
<1>2. ~CoreBefore(l, l)
    BY <1>1 DEF CoreBefore
<1>3. ~PreBefore(l, l)
    BY WellFormedParts, PreIrreflexive
<1> QED
    BY <1>2, <1>3

(* Of three versions that follow each other the last follows the first: what
   is newer than the release shown is newer than all it was newer than. *)
THEOREM PrecedenceTransitive ==
    \A l, r, t \in Text : Before(l, r) /\ Before(r, t) => Before(l, t)
<1> SUFFICES ASSUME NEW l \in Text, NEW r \in Text, NEW t \in Text,
                    Before(l, r), Before(r, t)
             PROVE  Before(l, t)
    OBVIOUS
<1>1. WellFormed(l) /\ WellFormed(r) /\ WellFormed(t)
    BY DEF Before
<1>2. /\ \A i \in 1 .. 3 : l.core[i].value \in Nat /\ r.core[i].value \in Nat
                           /\ t.core[i].value \in Nat
      /\ l.pre \in Seq(Unpadded) /\ r.pre \in Seq(Unpadded) /\ t.pre \in Seq(Unpadded)
    BY <1>1, WellFormedParts
<1>3. CASE SameCore(l, r) /\ SameCore(r, t)
  <2>1. ~CoreBefore(l, r) /\ ~CoreBefore(r, t)
    BY <1>2, <1>3 DEF SameCore, CoreBefore
  <2>2. PreBefore(l, r) /\ PreBefore(r, t)
    BY <2>1 DEF Before
  <2>3. SameCore(l, t)
    BY <1>3 DEF SameCore
  <2> QED
    BY <1>1, <1>2, <2>2, <2>3, PreTransitive DEF Before
<1>4. CASE CoreBefore(l, r) /\ SameCore(r, t)
  <2>1. CoreBefore(l, t)
    BY <1>2, <1>4 DEF SameCore, CoreBefore
  <2> QED
    BY <1>1, <2>1 DEF Before
<1>5. CASE SameCore(l, r) /\ CoreBefore(r, t)
  <2>1. CoreBefore(l, t)
    BY <1>2, <1>5 DEF SameCore, CoreBefore
  <2> QED
    BY <1>1, <2>1 DEF Before
<1>6. CASE CoreBefore(l, r) /\ CoreBefore(r, t)
  <2> SUFFICES CoreBefore(l, t)
    BY <1>1 DEF Before
  <2>1. PICK i \in 1 .. 3 : /\ l.core[i].value < r.core[i].value
                            /\ \A j \in 1 .. i - 1 : l.core[j].value = r.core[j].value
    BY <1>6 DEF CoreBefore
  <2>2. PICK k \in 1 .. 3 : /\ r.core[k].value < t.core[k].value
                            /\ \A j \in 1 .. k - 1 : r.core[j].value = t.core[j].value
    BY <1>6 DEF CoreBefore
  <2>3. /\ l.core[i].value \in Nat /\ r.core[i].value \in Nat /\ t.core[i].value \in Nat
        /\ l.core[k].value \in Nat /\ r.core[k].value \in Nat /\ t.core[k].value \in Nat
    BY <1>2
  <2>4. CASE i < k
    <3>1. r.core[i].value = t.core[i].value
      BY <2>2, <2>4
    <3>2. \A j \in 1 .. i - 1 : l.core[j].value = t.core[j].value
      BY <2>1, <2>2, <2>4
    <3> QED
      BY <2>1, <2>3, <3>1, <3>2 DEF CoreBefore
  <2>5. CASE k < i
    <3>1. l.core[k].value = r.core[k].value
      BY <2>1, <2>5
    <3>2. \A j \in 1 .. k - 1 : l.core[j].value = t.core[j].value
      BY <2>1, <2>2, <2>5
    <3> QED
      BY <2>2, <2>3, <3>1, <3>2 DEF CoreBefore
  <2>6. CASE k = i
    <3>1. l.core[i].value < t.core[i].value
      BY <2>1, <2>2, <2>3, <2>6
    <3>2. \A j \in 1 .. i - 1 : l.core[j].value = t.core[j].value
      BY <2>1, <2>2, <2>6
    <3> QED
      BY <3>1, <3>2 DEF CoreBefore
  <2> QED
    BY <2>4, <2>5, <2>6
<1> QED
    BY <1>3, <1>4, <1>5, <1>6 DEF Before

(* Two versions that parse compare one way or the other, or differ in nothing
   but build metadata and a leading "v": no two releases of one component are
   left without an order that did not have the same precedence. *)
THEOREM PrecedenceTotal ==
    \A l, r \in Text : WellFormed(l) /\ WellFormed(r) =>
        Before(l, r) \/ Before(r, l) \/ SamePrecedence(l, r)
<1> SUFFICES ASSUME NEW l \in Text, NEW r \in Text, WellFormed(l), WellFormed(r)
             PROVE  Before(l, r) \/ Before(r, l) \/ SamePrecedence(l, r)
    OBVIOUS
<1>1. /\ \A i \in 1 .. 3 : l.core[i].value \in Nat /\ r.core[i].value \in Nat
      /\ l.pre \in Seq(Unpadded) /\ r.pre \in Seq(Unpadded)
    BY WellFormedParts
<1>2. CASE SameCore(l, r)
  <2>1. SameCore(r, l)
    BY <1>2 DEF SameCore
  <2> QED
    BY <1>1, <1>2, <2>1, PreTotal DEF Before, SamePrecedence
<1>3. CASE ~SameCore(l, r)
  <2>1. CoreBefore(l, r) \/ CoreBefore(r, l)
    BY <1>1, <1>3 DEF SameCore, CoreBefore
  <2> QED
    BY <2>1 DEF Before
<1> QED
    BY <1>2, <1>3

(* Versions of the same precedence stand in the same place among the others. *)
THEOREM PrecedenceTies ==
    \A l, r, t \in Text : SamePrecedence(l, r) =>
        /\ Before(l, t) <=> Before(r, t)
        /\ Before(t, l) <=> Before(t, r)
<1> SUFFICES ASSUME NEW l \in Text, NEW r \in Text, NEW t \in Text, SamePrecedence(l, r)
             PROVE  /\ Before(l, t) <=> Before(r, t)
                    /\ Before(t, l) <=> Before(t, r)
    OBVIOUS
<1>1. WellFormed(l) /\ WellFormed(r) /\ SameCore(l, r) /\ l.pre = r.pre
    BY DEF SamePrecedence
<1>2. /\ CoreBefore(l, t) <=> CoreBefore(r, t)
      /\ CoreBefore(t, l) <=> CoreBefore(t, r)
      /\ SameCore(l, t) <=> SameCore(r, t)
      /\ SameCore(t, l) <=> SameCore(t, r)
    BY <1>1 DEF CoreBefore, SameCore
<1>3. /\ PreBefore(l, t) <=> PreBefore(r, t)
      /\ PreBefore(t, l) <=> PreBefore(t, r)
    BY <1>1 DEF PreBefore
<1> QED
    BY <1>1, <1>2, <1>3 DEF Before
=============================================================================
