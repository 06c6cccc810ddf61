----------------------------- MODULE MCGroupSets -----------------------------
(***************************************************************************)
(* A small instance of GroupSets and Commands: a set with two levels and   *)
(* two groups in one first-level directory, and a group configured by      *)
(* itself; environments with nothing wrong, or one thing; changes to one   *)
(* fragment or two.                                                        *)
(***************************************************************************)
EXTENDS Commands, TLC

CONSTANTS a, s, i, g1, g2, h

McAbove == [p \in {s, h, i, g1, g2} |-> CASE p = i -> {s} [] p \in {g1, g2} -> {s, i} [] OTHER -> {}]
Symmetry == Permutations({g1, g2})

\* Configuration files: each of s and h has its fragment, and there is room for another.
Defining(labels) ==
    [kind |-> "file", trusted |-> TRUE, placed |-> TRUE, parses |-> TRUE, daemon |-> "none",
     valid |-> TRUE, groups |-> labels, clashes |-> {}]

Nothing == [Defining({}) EXCEPT !.kind = "absent"]

McEtc ==
    [file |-> MainFile :> [Defining({}) EXCEPT !.daemon = "default"]
                @@ "s.toml" :> Defining({s}) @@ "h.toml" :> Defining({h})
                @@ "new.toml" :> Nothing @@ ".tmp" :> Nothing,
     dir |-> "ok", dirTrusted |-> TRUE, named |-> {}]

NoDirectory == [McEtc EXCEPT !.file = MainFile :> @[MainFile] @@ [n \in FileNames |-> Nothing],
                             !.dir = "missing"]

Faulty(fragment) ==
    {[fragment EXCEPT !.kind = k] : k \in {"dangling", "failing"}}
      \cup {[fragment EXCEPT !.trusted = FALSE], [fragment EXCEPT !.placed = FALSE],
            [fragment EXCEPT !.parses = FALSE], [fragment EXCEPT !.daemon = "moved"],
            [fragment EXCEPT !.valid = FALSE], [fragment EXCEPT !.clashes = {s}]}

\* Without changes, what is wrong with the files is wrong for all alike, but for owners.
McEtcs ==
    {[McEtc EXCEPT !.file["h.toml"].trusted = FALSE], [McEtc EXCEPT !.file["h.toml"].parses = FALSE],
     [McEtc EXCEPT !.file["h.toml"].kind = "dangling"], [McEtc EXCEPT !.file[MainFile].daemon = "moved"],
     [McEtc EXCEPT !.file[MainFile] = Nothing, !.named = {"main"}], [NoDirectory EXCEPT !.named = {"dir"}]}

Add(name, fragment) == <<[name |-> name, file |-> fragment]>>

\* Adding, replacing, removing and moving a fragment, and changes that cannot be made.
McChanges ==
    {[add |-> Add("new.toml", f), remove |-> {}] :
        f \in {Defining({h}), Defining({})} \cup Faulty(Defining({}))}
      \cup {[add |-> Add("h.toml", f), remove |-> {}] :
               f \in {Defining({h}), Defining({}), [Defining({h}) EXCEPT !.placed = FALSE]}}
      \cup {[add |-> <<>>, remove |-> r] :
               r \in {{"h.toml"}, {"s.toml", "h.toml"}, {"new.toml"}, {".tmp"}}}
      \cup {[add |-> Add("new.toml", Defining({h})), remove |-> {"h.toml"}],
            [add |-> Add("h.toml", Defining({h})), remove |-> {"h.toml"}],
            [add |-> Add(".tmp", Defining({})), remove |-> {}],
            [add |-> Add("new.toml", Defining({})) \o Add("new.toml", Defining({})), remove |-> {}]}

Fine == [etc |-> McEtc, changes |-> NoChanges, running |-> "default", user |-> TRUE,
         kernel |-> TRUE, stateDir |-> TRUE, known |-> TRUE, root |-> [p \in Configured |-> "ok"],
         fields |-> [p \in Configured |-> {"shared"}], watches |-> TRUE, allowSlave |-> FALSE]

McEnvs ==
    {Fine, [Fine EXCEPT !.running = "moved"], [Fine EXCEPT !.user = FALSE],
     [Fine EXCEPT !.kernel = FALSE], [Fine EXCEPT !.stateDir = FALSE],
     [Fine EXCEPT !.known = FALSE], [Fine EXCEPT !.watches = FALSE],
     [Fine EXCEPT !.fields[h] = {"master"}, !.allowSlave = TRUE]}
      \cup {[Fine EXCEPT !.root[p] = r] : p \in Configured, r \in RootStates \ {"ok"}}
      \cup {[Fine EXCEPT !.fields[s] = f] :
               f \in {{}, {"master"}, {"shared", "master"}, {"shared", "unbindable"}, {"not found"}}}
      \cup {[Fine EXCEPT !.etc = e] : e \in McEtcs}
      \cup {[Fine EXCEPT !.changes = c] : c \in McChanges}
      \* A faulty fragment is replaced or removed.
      \cup {[Fine EXCEPT !.etc = [McEtc EXCEPT !.file["h.toml"] = f], !.changes = c] :
               f \in {[Defining({h}) EXCEPT !.kind = "dangling"], [Defining({h}) EXCEPT !.parses = FALSE],
                       [Defining({h}) EXCEPT !.placed = FALSE]},
               c \in {[add |-> Add("h.toml", Defining({h})), remove |-> {}],
                      [add |-> <<>>, remove |-> {"h.toml"}]}}
      \* What is wrong is at the group that a change leaves out.
      \cup {[e EXCEPT !.changes = [add |-> <<>>, remove |-> {"h.toml"}]] :
               e \in {[Fine EXCEPT !.root[h] = "denied"], [Fine EXCEPT !.fields[h] = {"master"}]}}
      \cup {[Fine EXCEPT !.etc = [McEtc EXCEPT !.dirTrusted = FALSE],
                         !.changes.remove = {"s.toml", "h.toml"}],
            [Fine EXCEPT !.etc = NoDirectory, !.changes.add = Add("new.toml", Defining({s}))]}
=============================================================================
