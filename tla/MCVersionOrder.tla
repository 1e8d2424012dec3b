--------------------------- MODULE MCVersionOrder ---------------------------
(***************************************************************************)
(* An instance of VersionOrder for TLC: every short version over a few     *)
(* bytes, and some longer ones that differ in one rule each.               *)
(***************************************************************************)
EXTENDS VersionOrder

a == 97
b == 98
v == 118
V == 86
one == 49
two == 50
nine == 57
Underscore == 95

Short == UNION {[1 .. n -> {Zero, one, a, Tilde}] : n \in 1 .. 2}

Debian == {
    <<one, Colon, one>>, <<Zero, Colon, one>>, <<two, Colon, Zero>>, <<a, Colon, one>>,
    <<Plus, two, Colon, one>>, <<Dash, one, Colon, one>>, <<one, Zero, Zero, Colon, one>>,
    <<one, Plus, two>>, <<one, Plus, one, Zero>>, <<one, Plus, Zero, two>>,
    <<one, Plus, two, Dash, one>>, <<one, Plus, two, Dash, one, Tilde>>,
    <<one, Dot, Zero, Tilde, a>>, <<one, Dash, one>>,
    <<one, Dot, nine, Plus>>, <<one, Dot, one, Zero, Plus>>,
    <<one, Plus, a, b>>, <<one, Plus, Dot>>}

\* Numbers, and prereleases of one version: numbers, words, several identifiers,
\* a number written in two ways, one too large, one below zero, a lone dash.
Release == <<one, Dot, one>>
Pre(s) == Release \o <<Dash>> \o s

Prereleases == {
    Pre(<<a>>), Pre(<<b>>), Release \o <<a>>, Pre(<<nine>>), Pre(<<one, Zero>>), Pre(<<>>),
    Pre(<<a, Dot, b>>), Pre(<<a, Dot, one>>), Pre(<<a, Dot, nine>>), Pre(<<Dash, nine>>),
    Pre(<<Zero, nine>>), Pre(<<one, Zero, Zero>>)}

SemVers == Prereleases \cup {
    Release, <<v, one, Dot, one>>, <<v, V, v, one, Dot, one, Dot, Zero>>,
    Release \o <<Dot, Zero, Dot, Zero>>, Release \o <<Dot, Zero, Dot, Zero, Dash, a>>,
    <<one, Dot, nine>>, <<one, Dot, one, Zero>>, <<one, Dot, Zero, one>>}

Strings == {<<a, one>>, <<b>>, <<one, Dot, two, Underscore, a>>, <<one, Dot, one, Zero, Zero>>}

AllVersions == Short \cup Debian \cup SemVers \cup Strings
AllMinVersions == {<<>>, Pre(<<nine>>), <<one, Tilde, a>>}

\* Bound: three versions are only published at once if they are of one of these
\* sets, and four only of one release and its prereleases.
FewAtOnce ==
    \/ Cardinality(available) <= 2
    \/ Cardinality(available) = 3 /\ \E S \in {Debian, SemVers, Strings} : available \subseteq S
    \/ available \subseteq Prereleases \cup {Release}
=============================================================================
