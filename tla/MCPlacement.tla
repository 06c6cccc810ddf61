----------------------------- MODULE MCPlacement -----------------------------
(***************************************************************************)
(* An instance of Placement: every template of up to two components from a *)
(* list, and of three from a shorter one, with sources that use no, one or *)
(* both levels; and two areas with every placing of membership and views   *)
(* in five directories.                                                    *)
(***************************************************************************)
EXTENDS Placement

McNameChars == {"a", "-", "."}

A == <<"a">>
AA == <<"a", "a">>
Dash == <<"-">>

N == <<"{name}">>
G == <<"{group}">>
S == <<"{subgroup}">>

Components ==
    {N, G, S, <<"{group}", "{subgroup}">>, <<"{group}", "-", "{subgroup}">>, <<"{group}", "{name}">>,
     <<"{name}", "{name}">>, <<".", "{name}">>, <<"a", "{subgroup}">>,
     A, <<>>, <<".">>, <<".", ".">>, <<"*">>, <<"{", "{name}">>, <<"a", "a", "a", "a">>}

Templates ==
    UNION {[1..k -> Components] : k \in 1..2} \cup [1..3 -> {N, G, S, A, <<"{name}", "{name}">>}] \cup {<<>>}

Sources == {<<N>>, <<G, N>>, <<S, N>>, <<<<"{group}", "{subgroup}">>, N>>, <<A, A, N>>}

M == <<A>>
T == <<Dash>>
Places == {<<>>, M, M \o M, T, M \o T}

OneArea ==
    {[label \in {"one"} |-> Area(isSet, M, T, s, t)] : isSet \in BOOLEAN, s \in Sources, t \in Templates}

TargetsOf(isSet) == IF isSet THEN {<<G, N>>, <<G, S, N>>} ELSE {<<N>>}

AnyArea ==
    UNION {{Area(isSet, m, t, <<N>>, target) : m \in Places, t \in Places, target \in TargetsOf(isSet)} :
             isSet \in BOOLEAN}

McConfigs == OneArea \cup [{"one"} -> AnyArea] \cup [{"one", "two"} -> AnyArea]

RawNames == {A, AA, Dash, <<".", "a">>, <<"*">>, <<"a", "a", "a", "a">>}

\* Every name is a directory in a set and a file in its groups, or one is neither.
Kinds(usual, odd) == [raw \in RawNames |-> IF raw = odd THEN "other" ELSE usual]
McTrees ==
    {[levels |-> Kinds("dir", d), members |-> Kinds("empty", m)] : d \in {AA, <<>>}, m \in {A, <<>>}}
=============================================================================
