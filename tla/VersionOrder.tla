----------------------------- MODULE VersionOrder -----------------------------
(***************************************************************************)
(* Which of the versions a source publishes is the newest: Compare and     *)
(* Sort (src/version/pattern.go), and the candidates of an update          *)
(* (getAvailableVersions, src/updex/list.go).                              *)
(*                                                                         *)
(* A version is a sequence of bytes.  Compare orders two versions by       *)
(* dpkg's rules when one looks like Debian's, as go-version does when it   *)
(* can parse both, and as strings otherwise.                               *)
(***************************************************************************)
EXTENDS Integers, FiniteSets, SequencesExt

CONSTANTS
    Versions,       \* versions a source may publish
    MinVersions,    \* values of MinVersion; <<>> is none
    MaxInt,         \* the largest int, 2^63 - 1
    MaxInsertion,   \* how many elements slices.SortFunc sorts by insertion, 12
    MaxAvailable    \* bound: versions that are published at once

VARIABLES
    available,      \* versions in the manifest
    min,            \* the transfer's MinVersion
    picked          \* what an update selected: a version, nothing, or no update yet

vars == <<available, min, picked>>
-----------------------------------------------------------------------------
Byte == 0 .. 255
Plus == 43
Dash == 45
Dot == 46
Zero == 48
Colon == 58
Tilde == 126

ASSUME VersionOrderAssumption ==
    /\ Versions \subseteq Seq(Byte)
    /\ MinVersions \subseteq Seq(Byte)
    /\ MaxInt \in Nat
    /\ MaxInsertion \in Nat

IsDigit(c) == c \in 48 .. 57
IsLetter(c) == c \in 65 .. 90 \cup 97 .. 122

Sign(n) == CASE n < 0 -> -1 [] n > 0 -> 1 [] OTHER -> 0
From(s, i) == SubSeq(s, i, Len(s))

\* How many elements at the start of s satisfy Test.
Span(s, Test(_)) ==
    LET stop == SelectInSeq(s, LAMBDA c : ~Test(c))
    IN IF stop = 0 THEN Len(s) ELSE stop - 1

\* The first difference of two sequences, the shorter one continued by fill.
CompareSeqs(s, t, fill) ==
    LET at(x, i) == IF i <= Len(x) THEN x[i] ELSE fill
        differ == {i \in DOMAIN s \cup DOMAIN t : at(s, i) # at(t, i)}
    IN IF differ = {} THEN 0 ELSE Sign(at(s, Min(differ)) - at(t, Min(differ)))

\* Go's order of strings.
CompareStrings(s, t) == CompareSeqs(s, t, -1)

\* The number that digits write.
Value(digits) == FoldLeft(LAMBDA n, c : 10 * n + (c - Zero), 0, digits)

\* strconv.Atoi and ParseInt: digits after at most one sign.  A number that is
\* too large is an error too, but leaves the nearest int as the value.
Unsigned(s) == IF s # <<>> /\ s[1] \in {Plus, Dash} THEN Tail(s) ELSE s

Parsed(ok, n) == [ok |-> ok, value |-> n]

Nearest(n) ==
    CASE n > MaxInt -> Parsed(FALSE, MaxInt)
      [] n < 0 - MaxInt - 1 -> Parsed(FALSE, 0 - MaxInt - 1)
      [] OTHER -> Parsed(TRUE, n)

ParseInt(s) ==
    LET digits == Unsigned(s)
        number == digits # <<>> /\ \A i \in DOMAIN digits : IsDigit(digits[i])
        sign == IF s[1] = Dash THEN -1 ELSE 1
    IN IF number THEN Nearest(sign * Value(digits)) ELSE Parsed(FALSE, 0)

\* A comparison that goes on to the next one when it finds no difference.
Then(first, next) == IF first # 0 THEN first ELSE next
-----------------------------------------------------------------------------
\* dpkgOrder of a version's next byte; 0 for a digit and for the end.
DpkgOrder(s) ==
    CASE s = <<>> -> 0
      [] s # <<>> /\ IsDigit(s[1]) -> 0
      [] s # <<>> /\ IsLetter(s[1]) -> s[1]
      [] s # <<>> /\ s[1] = Tilde -> -1
      [] OTHER -> s[1] + 256

\* Slip: leading zeros count.
KeepZeros(s) == s

SkipZeros(s) == From(s, 1 + Span(s, LAMBDA c : c = Zero))

\* Two runs of digits without leading zeros: the longer is larger.
CompareDigits(m, n) == Then(Sign(Len(m) - Len(n)), CompareSeqs(m, n, Zero))

StartsWord(s) == s # <<>> /\ ~IsDigit(s[1])
Digits(s) == SubSeq(s, 1, Span(s, IsDigit))
AfterDigits(s) == From(s, 1 + Span(s, IsDigit))

\* verrevcmp, from one byte outside digits, or one run of digits, to the next.
Verrevcmp[ab \in Seq(Byte) \X Seq(Byte)] ==
    LET a == ab[1]
        b == ab[2]
    IN CASE a = <<>> /\ b = <<>> -> 0
         [] StartsWord(a) \/ StartsWord(b) ->
              Then(Sign(DpkgOrder(a) - DpkgOrder(b)), Verrevcmp[<<From(a, 2), From(b, 2)>>])
         [] OTHER ->
              Then(CompareDigits(Digits(SkipZeros(a)), Digits(SkipZeros(b))),
                   Verrevcmp[<<AfterDigits(SkipZeros(a)), AfterDigits(SkipZeros(b))>>])

\* splitDebian: [epoch:]upstream[-revision].  Only what Atoi reads is an epoch.
SplitEpoch(v, colon) ==
    LET epoch == ParseInt(SubSeq(v, 1, colon - 1))
    IN IF colon > 1 /\ epoch.ok
       THEN [epoch |-> epoch.value, rest |-> From(v, colon + 1)]
       ELSE [epoch |-> 0, rest |-> v]

SplitRevision(v, dash) ==
    [epoch |-> v.epoch,
     upstream |-> IF dash = 0 THEN v.rest ELSE SubSeq(v.rest, 1, dash - 1),
     revision |-> IF dash = 0 THEN <<>> ELSE From(v.rest, dash + 1)]

SplitDebian(v) ==
    LET split == SplitEpoch(v, SelectInSeq(v, LAMBDA c : c = Colon))
    IN SplitRevision(split, SelectLastInSeq(split.rest, LAMBDA c : c = Dash))

CompareSplit(a, b) ==
    Then(Sign(a.epoch - b.epoch),
         Then(Verrevcmp[<<a.upstream, b.upstream>>], Verrevcmp[<<a.revision, b.revision>>]))

CompareDebian(v, w) == CompareSplit(SplitDebian(v), SplitDebian(w))

IsDebian(v) == \E i \in DOMAIN v : v[i] \in {Tilde, Colon, Plus}
-----------------------------------------------------------------------------
(* github.com/hashicorp/go-version: numbers separated by dots, and perhaps a *)
(* prerelease of identifiers separated by dots.  (Build metadata begins with *)
(* "+", which makes a version Debian's.)                                     *)

\* strings.Split at the dots.
Fields[s \in Seq(Byte)] ==
    LET dot == SelectInSeq(s, LAMBDA c : c = Dot)
    IN IF dot = 0 THEN <<s>> ELSE <<SubSeq(s, 1, dot - 1)>> \o Fields[From(s, dot + 1)]

\* The identifiers of what follows the numbers, without the dash before them;
\* a dash that no identifier follows is one itself.
Identifiers(s) ==
    IF s = <<>> THEN <<>>
    ELSE Fields[IF s[1] = Dash /\ Len(s) > 1 /\ s[2] # Dot THEN Tail(s) ELSE s]

\* NewVersion: the regular expression, and the numbers, at least three of them.
SemVerOf(parts, pre) ==
    [ok |-> /\ \A k \in DOMAIN parts : parts[k] # <<>> /\ Value(parts[k]) <= MaxInt
            /\ \A k \in DOMAIN pre : pre[k] # <<>>
            /\ \A k \in DOMAIN pre : \A i \in DOMAIN pre[k] :
                 IsDigit(pre[k][i]) \/ IsLetter(pre[k][i]) \/ pre[k][i] = Dash,
     release |-> [k \in 1 .. Len(parts) + (IF Len(parts) < 3 THEN 3 - Len(parts) ELSE 0) |->
                    IF k <= Len(parts) THEN Value(parts[k]) ELSE 0],
     pre |-> pre]

\* strings.TrimPrefix
TrimPrefix(s, c) == IF s # <<>> /\ s[1] = c THEN Tail(s) ELSE s

\* normalizeVersion takes a "v" and then a "V" away, and NewVersion one more "v".
SemVer(v) ==
    LET s == TrimPrefix(TrimPrefix(TrimPrefix(v, 118), 86), 118)
        core == Span(s, LAMBDA c : IsDigit(c) \/ c = Dot)
    IN SemVerOf(Fields[SubSeq(s, 1, core)], Identifiers(From(s, core + 1)))

\* comparePart, of two different identifiers and what ParseInt makes of them.  One
\* that is missing is below a number but above anything else, and a number is
\* below anything else.
CompareIdentifiers(x, y, m, n) ==
    CASE x = <<>> -> IF n.ok THEN -1 ELSE 1
      [] x # <<>> /\ y = <<>> -> IF m.ok THEN 1 ELSE -1
      [] x # <<>> /\ y # <<>> /\ m.ok # n.ok -> IF m.ok THEN -1 ELSE 1
      [] OTHER -> IF (~m.ok /\ CompareStrings(x, y) > 0) \/ m.value > n.value THEN 1 ELSE -1

ComparePart(x, y) == CompareIdentifiers(x, y, ParseInt(x), ParseInt(y))

ComparePrereleases(p, q) ==
    LET at(x, i) == IF i <= Len(x) THEN x[i] ELSE <<>>
        differ == {i \in DOMAIN p \cup DOMAIN q : at(p, i) # at(q, i)}
    IN CASE p = <<>> \/ q = <<>> -> Sign(Len(q) - Len(p))
         [] p # <<>> /\ q # <<>> /\ differ = {} -> 0
         [] OTHER -> ComparePart(at(p, Min(differ)), at(q, Min(differ)))

\* Prereleases count only if there are as many numbers and they are the same.
CompareSemVer(a, b) ==
    IF a.release = b.release THEN ComparePrereleases(a.pre, b.pre)
    ELSE CompareSeqs(a.release, b.release, 0)

\* The versions v and w, which NewVersion parses as a and b.
CompareParsed(v, w, a, b) == IF a.ok /\ b.ok THEN CompareSemVer(a, b) ELSE CompareStrings(v, w)

Compare(v, w) ==
    IF IsDebian(v) \/ IsDebian(w) THEN CompareDebian(v, w)
    ELSE CompareParsed(v, w, SemVer(v), SemVer(w))
-----------------------------------------------------------------------------
\* Slip: MinVersion itself is left out.
CandidatesAbove == {v \in available : min # <<>> => Compare(v, min) > 0}

\* getAvailableVersions.
Candidates == {v \in available : min # <<>> => Compare(v, min) >= 0}

Listed(S) ==
    CHOOSE s \in SetToSeqs(S) : \A i, j \in DOMAIN s : i < j => CompareStrings(s[i], s[j]) < 0

\* slices.SortFunc of few elements, with the arguments of Compare swapped:
\* each is inserted where those before it are not less.
Sorted(s) ==
    FoldLeft(LAMBDA sorted, v :
               InsertAt(sorted, 1 + SelectLastInSeq(sorted, LAMBDA w : Compare(w, v) >= 0), v),
             <<>>, s)

\* Whether Compare orders the versions of S.
Ordered(S) ==
    LET atMost == {pair \in S \X S : Compare(pair[1], pair[2]) <= 0}
    IN /\ \A v, w \in S : Compare(v, w) = 0 - Compare(w, v)
       /\ \A p, q \in atMost : p[2] = q[1] => <<p[1], q[2]>> \in atMost

\* Sort: what it may bring to the front.  slices.SortFunc is an insertion sort
\* only of up to MaxInsertion elements.  Of more it may bring any of the largest
\* to the front, and any element at all if Compare does not order them.
Fronts(S) ==
    CASE Cardinality(S) <= MaxInsertion -> {Sorted(Listed(S))[1]}
      [] Cardinality(S) > MaxInsertion /\ Ordered(S) -> {v \in S : \A w \in S : Compare(v, w) >= 0}
      [] OTHER -> S

NotYet == {<<>>}

Init ==
    /\ available = {}
    /\ min \in MinVersions
    /\ picked = NotYet

\* The source publishes one more version.
Publish(v) ==
    /\ Cardinality(available) < MaxAvailable
    /\ available' = available \cup {v}
    /\ picked' = NotYet
    /\ UNCHANGED min

\* installTransfer selects the first of the sorted candidates.
Update ==
    /\ \/ Candidates = {} /\ picked' = {}
       \/ Candidates # {} /\ \E v \in Fronts(Candidates) : picked' = {v}
    /\ UNCHANGED <<available, min>>

Next == Update \/ \E v \in Versions \ available : Publish(v)

Spec == Init /\ [][Next]_vars
-----------------------------------------------------------------------------
(* A definition of dpkg's order of its own: a version is read as words and   *)
(* numbers in turn, which are compared one by one.                           *)
Word(s) == SubSeq(s, 1, Span(s, LAMBDA c : ~IsDigit(c)))

Words[s \in Seq(Byte)] ==
    LET rest == From(s, Len(Word(s)) + 1)
    IN IF s = <<>> THEN <<>>
       ELSE <<[word |-> Word(s), number |-> Value(Digits(rest))]>> \o Words[AfterDigits(rest)]

\* Policy: "~" before the end, the end before letters, letters before others.
Rank(c) == CASE c = Tilde -> 1 [] IsLetter(c) -> 1000 + c [] OTHER -> 2000 + c
EndRank == 10

WordBefore(v, w) ==
    LET rank(x, k) == IF k <= Len(x) THEN Rank(x[k]) ELSE EndRank
    IN \E k \in 1 .. Len(v) + Len(w) :
         /\ \A j \in 1 .. k - 1 : rank(v, j) = rank(w, j)
         /\ rank(v, k) < rank(w, k)

\* Whether reading a and b in turn finds a smaller.
Before(a, b) ==
    LET at(x, i) == IF i <= Len(x) THEN x[i] ELSE [word |-> <<>>, number |-> 0]
    IN \E i \in 1 .. Len(a) + Len(b) :
         /\ \A j \in 1 .. i - 1 : at(a, j) = at(b, j)
         /\ \/ at(a, i).word = at(b, i).word /\ at(a, i).number < at(b, i).number
            \/ WordBefore(at(a, i).word, at(b, i).word)

SplitBefore(a, b) ==
    \/ a.epoch < b.epoch
    \/ a.epoch = b.epoch /\ Before(Words[a.upstream], Words[b.upstream])
    \/ /\ a.epoch = b.epoch
       /\ ~Before(Words[b.upstream], Words[a.upstream])
       /\ Before(Words[a.revision], Words[b.revision])

DebianBefore(v, w) == SplitBefore(SplitDebian(v), SplitDebian(w))

Kind(v) == IF IsDebian(v) THEN "debian" ELSE IF SemVer(v).ok THEN "semver" ELSE "string"
Older(v, w) == IF Kind(v) = "debian" THEN DebianBefore(v, w) ELSE Compare(v, w) < 0

(* The sets of versions that a source can publish and rely on Compare: all   *)
(* of one kind and, if that is SemVer, built alike.  Without the conditions  *)
(* of Alike go-version's order has gaps and cycles: 1.0.0.0-a equals 1.0,    *)
(* which exceeds 1.0-a; 1.0-01 and 1.0-1 are each below the other; and       *)
(* 1.0-a exceeds 1.0-a.b, which exceeds 1.0-a.1, which exceeds 1.0-a.        *)
AlikeIdentifiers(x, y) ==
    LET m == ParseInt(x)
        n == ParseInt(y)
    IN /\ m.ok \/ m.value = 0                             \* not a number too large
       /\ m.ok /\ n.ok /\ m.value = n.value => x = y      \* one way to write a number

Alike(a, b) ==
    /\ (a.pre # <<>> \/ b.pre # <<>>) => Len(a.release) = Len(b.release)
    /\ (a.pre # <<>> /\ b.pre # <<>>) => Len(a.pre) = Len(b.pre)
    /\ \A i \in DOMAIN a.pre, j \in DOMAIN b.pre : AlikeIdentifiers(a.pre[i], b.pre[j])

Uniform(S) ==
    \A v, w \in S :
      /\ Kind(v) = Kind(w)
      /\ Kind(v) = "semver" => Alike(SemVer(v), SemVer(w))

\* Between two versions of which one is Debian's, Compare is dpkg's order, for
\* every way in which words, zeros, tildes, epochs and revisions meet.  (Any two
\* versions are all that is available in some state.)
CompareIsDpkg ==
    Cardinality(available) <= 2 =>
      \A v, w \in available :
        (Kind(v) = "debian" \/ Kind(w) = "debian") =>
          Compare(v, w) = (IF DebianBefore(v, w) THEN -1 ELSE IF DebianBefore(w, v) THEN 1 ELSE 0)

\* An update selects a version that is not below MinVersion and that no other
\* such version exceeds, and nothing only if there is none.  Among versions that
\* compare equal it is the first in the alphabet, as list.go says, but only while
\* the candidates are so few that the sort is stable.  It holds for uniform
\* sets: over others Compare is not transitive, and which version is first
\* after sorting depends on the others.
NewestIsSelected ==
    (picked # NotYet /\ Uniform(available \cup ({min} \ {<<>>}))) =>
      LET good == {v \in available : min # <<>> => ~Older(v, min)}
          newest == {v \in good : \A w \in good : ~Older(v, w)}
          first == {v \in newest : \A w \in newest \ {v} : CompareStrings(v, w) < 0}
      IN CASE good = {} -> picked = {}
           [] good # {} /\ Cardinality(good) <= MaxInsertion -> picked = first
           [] OTHER -> \E v \in newest : picked = {v}
=============================================================================
