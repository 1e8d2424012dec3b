--------------------------- MODULE SysextDirProofs ---------------------------
(***************************************************************************)
(* Facts about the operators of SysextDir, for every set of versions.     *)
(***************************************************************************)
EXTENDS SysextDir, FiniteSetTheorems, TLAPS

\* Every nonempty set of versions has a newest member, and Newest is it:
\* what makes files[0] of installedVersionFilesAt well defined.
LEMMA NewestIsGreatest ==
    ASSUME NEW S \in SUBSET Versions, S # {}
    PROVE  /\ Newest(S) \in S
           /\ Newest(S) \in Versions
           /\ \A w \in S : w <= Newest(S)
<1>. DEFINE T == {n \in Nat : \E s \in S : n = MaxVersion - s}
<1>1. T \subseteq Nat /\ T # {}
  <2>1. PICK s \in S : s \in 1 .. MaxVersion
    BY DEF Versions
  <2>2. MaxVersion - s \in T
    BY <2>1, MaxVersionAssumption
  <2>3. QED
    BY <2>2
<1>2. PICK x \in T : \A y \in T : <<y, x>> \notin OpToRel(<, Nat)
  BY <1>1, NatLessThanWellFounded, WFMin
<1>3. \A y \in T : x <= y
  <2>1. ASSUME NEW y \in T, y < x
        PROVE  <<y, x>> \in OpToRel(<, Nat)
    <3>1. <<y, x>> \in Nat \X Nat
      BY <1>1
    <3>2. QED
      BY <3>1, <2>1 DEF OpToRel
  <2>2. \A y \in T : ~(y < x)
    BY <2>1, <1>2
  <2>3. QED
    BY <2>2, <1>1
<1>4. PICK s \in S : x = MaxVersion - s
  OBVIOUS
<1>5. \A w \in S : s >= w
  BY <1>3, <1>4, MaxVersionAssumption DEF Versions
<1>6. Newest(S) \in S /\ \A w \in S : Newest(S) >= w
  BY <1>5 DEF Newest, Max
<1>7. QED
  BY <1>6, MaxVersionAssumption DEF Versions

\* The newest staged image is never among those a vacuum removes.
LEMMA NewestIsKept ==
    ASSUME NEW S \in SUBSET Versions, S # {}, NEW a, NEW pr, NEW m \in Int
    PROVE  Newest(S) \notin VacuumRemoves(S, a, pr, m)
<1>1. /\ Newest(S) \in S
      /\ Newest(S) \in Int
      /\ \A w \in S : w \in Int /\ w <= Newest(S)
  BY NewestIsGreatest, MaxVersionAssumption DEF Versions
<1>2. {w \in S : w > Newest(S)} = {}
  BY <1>1
<1>3. Rank(Newest(S), S) = 0
  BY <1>2, FS_EmptySet DEF Rank
<1>4. ~(Rank(Newest(S), S) >= Retained(m))
  BY <1>3 DEF Retained
<1>5. QED
  BY <1>4 DEF VacuumRemoves, Doomed

\* What remains of a directory after others than its newest image are removed has
\* that image as its newest.
LEMMA NewestSurvives ==
    ASSUME NEW S \in SUBSET Versions, S # {}, NEW D, Newest(S) \notin D
    PROVE  S \ D # {} /\ Newest(S \ D) = Newest(S)
<1>1. Newest(S) \in S /\ Newest(S) \in Int /\ \A w \in S : w <= Newest(S)
  BY NewestIsGreatest, MaxVersionAssumption DEF Versions
<1>2. S \ D # {} /\ S \ D \in SUBSET Versions
  BY <1>1
<1>3. Newest(S \ D) \in S \ D /\ Newest(S \ D) \in Int /\ \A w \in S \ D : w <= Newest(S \ D)
  BY <1>2, NewestIsGreatest, MaxVersionAssumption DEF Versions
<1>4. QED
  BY <1>1, <1>2, <1>3

-----------------------------------------------------------------------------
\* What a vacuum keeps.

LEMMA VersionsAreFinite ==
    ASSUME NEW S \in SUBSET Versions
    PROVE  IsFiniteSet(S) /\ Cardinality(S) \in Nat
<1>1. IsFiniteSet(Versions)
  BY MaxVersionAssumption, FS_Interval DEF Versions
<1>2. QED
  BY <1>1, FS_Subset, FS_CardinalityType

\* Every nonempty set of versions has an oldest.
LEMMA OldestExists ==
    ASSUME NEW S \in SUBSET Versions, S # {}
    PROVE  \E o \in S : \A w \in S : o <= w
<1>1. S \subseteq Nat
  BY MaxVersionAssumption DEF Versions
<1>2. PICK x \in S : \A y \in S : <<y, x>> \notin OpToRel(<, Nat)
  BY <1>1, NatLessThanWellFounded, WFMin
<1>3. \A y \in S : ~(y < x)
  <2>1. ASSUME NEW y \in S, y < x
        PROVE  <<y, x>> \in OpToRel(<, Nat)
    BY <1>1, <2>1 DEF OpToRel
  <2>2. QED
    BY <2>1, <1>2
<1>4. QED
  BY <1>1, <1>3

\* At most m versions have fewer than m newer ones.
LEMMA FewAreFirst ==
    ASSUME NEW S \in SUBSET Versions, NEW m \in Nat
    PROVE  Cardinality({v \in S : Rank(v, S) < m}) <= m
<1>. DEFINE T == {v \in S : Rank(v, S) < m}
<1>0. T \subseteq S /\ T \in SUBSET Versions
  OBVIOUS
<1>1. CASE T = {}
  BY <1>1, FS_EmptySet
<1>2. CASE T # {}
  <2>1. PICK o \in T : \A w \in T : o <= w
    BY <1>0, <1>2, OldestExists
  <2>. DEFINE newer == {w \in S : w > o}
  <2>2. newer \in SUBSET Versions /\ o \notin newer
    <3>1. newer \in SUBSET Versions
      OBVIOUS
    <3>2. o \in Int
      BY <1>0, MaxVersionAssumption DEF Versions
    <3>3. ~(o > o)
      BY <3>2
    <3>4. QED
      BY <3>1, <3>3
  <2>3. T \subseteq newer \cup {o}
    <3>1. \A w \in T : w \in S /\ w \in Int /\ o \in Int /\ o <= w
      BY <1>0, <2>1, MaxVersionAssumption DEF Versions
    <3>2. \A w \in T : w = o \/ (w \in S /\ w > o)
      BY <3>1
    <3>3. QED
      BY <3>2
  <2>4. Cardinality(newer) < m
    BY <2>1 DEF Rank
  <2>. HIDE DEF T, newer
  <2>5. /\ IsFiniteSet(newer) /\ Cardinality(newer) \in Nat
        /\ IsFiniteSet(newer \cup {o})
        /\ Cardinality(newer \cup {o}) = Cardinality(newer) + 1
    BY <2>2, VersionsAreFinite, FS_AddElement
  <2>6. Cardinality(T) <= Cardinality(newer \cup {o}) /\ Cardinality(T) \in Nat
    BY <1>0, <2>3, <2>5, FS_Subset, VersionsAreFinite
  <2>7. QED
    BY <2>4, <2>5, <2>6 DEF T
<1>3. QED
  BY <1>1, <1>2

\* What a vacuum leaves of a directory, but for the protected and the active
\* version, is InstancesMax versions at most.
LEMMA VacuumBound ==
    ASSUME NEW S \in SUBSET Versions, NEW a, NEW pr, NEW m \in Int
    PROVE  Cardinality((S \ VacuumRemoves(S, a, pr, m)) \ {pr, a}) <= Retained(m)
<1>. DEFINE rest == (S \ VacuumRemoves(S, a, pr, m)) \ {pr, a}
            first == {v \in S : Rank(v, S) < Retained(m)}
<1>1. Retained(m) \in Nat
  BY DEF Retained
<1>2. rest \subseteq first
  <2>1. ASSUME NEW v \in rest PROVE v \in first
    <3>1. v \in S /\ ~(Rank(v, S) >= Retained(m))
      BY DEF VacuumRemoves, Doomed
    <3>2. Rank(v, S) \in Nat
      BY VersionsAreFinite DEF Rank
    <3>3. QED
      BY <1>1, <3>1, <3>2
  <2>2. QED
    BY <2>1
<1>3. first \in SUBSET Versions /\ rest \in SUBSET Versions
  OBVIOUS
<1>4. Cardinality(first) <= Retained(m)
  BY <1>1, FewAreFirst
<1>. HIDE DEF rest, first
<1>5. /\ IsFiniteSet(first) /\ Cardinality(first) \in Nat
      /\ Cardinality(rest) \in Nat
  BY <1>3, VersionsAreFinite
<1>6. Cardinality(rest) <= Cardinality(first)
  BY <1>2, <1>5, FS_Subset
<1>7. QED
  BY <1>1, <1>4, <1>5, <1>6 DEF rest
=============================================================================
