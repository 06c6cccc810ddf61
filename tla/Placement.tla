------------------------------ MODULE Placement ------------------------------
(***************************************************************************)
(* Where the configuration puts sources and views, and whom it makes       *)
(* members: the rules of src/src/name.rs, template.rs, config.rs and       *)
(* membership.rs, discovery of a set's groups (runtime.rs) and the list of *)
(* wanted mounts (reconcile/observe.rs).                                   *)
(*                                                                         *)
(* A character is a value, a name a sequence of characters, a path a       *)
(* sequence of names.  A component of a template is a sequence of          *)
(* characters and placeholders, so that adjacent literals need not be      *)
(* joined.  "/" and NUL are not characters here: a path is taken apart.    *)
(***************************************************************************)
EXTENDS Naturals, Sequences, SequencesExt

CONSTANTS
    NameChars,      \* the characters a name may consist of
    MaxNameLen,     \* NAME_MAX
    MaxPathLen,     \* the longest relative path
    Configs,        \* configurations: functions from labels to areas
    Trees           \* what may be found in membership directories

Names == Seq(STRING)
Paths == Seq(Names)

ASSUME LimitsAssumption == MaxNameLen \in Nat /\ MaxPathLen \in Nat

ASSUME PlacementAssumption ==
    /\ \A c \in Configs : \A a \in DOMAIN c :
         /\ c[a].isSet \in BOOLEAN
         /\ c[a].membership \in Paths /\ c[a].targetRoot \in Paths
         /\ c[a].source \in Paths /\ c[a].target \in Paths
    /\ \A t \in Trees : DOMAIN t.levels \cup DOMAIN t.members \subseteq Names

VARIABLES
    conf, tree, pc,
    groups,         \* the groups there are, with their own templates
    desired,        \* the wanted mounts
    notes           \* what was left out, and why

vars == <<conf, tree, pc, groups, desired, notes>>

(***************************************************************************)
(* Names and templates.                                                    *)
(***************************************************************************)

Hidden(raw) == raw # <<>> /\ raw[1] = "."

ValidName(raw) ==
    /\ raw # <<>> /\ Len(raw) <= MaxNameLen /\ ~Hidden(raw)
    /\ \A i \in DOMAIN raw : raw[i] \in NameChars

LevelPlaceholders == <<"{group}", "{subgroup}">>
Placeholders == {"{name}"} \cup Range(LevelPlaceholders)

\* Placeholders are in braces, and no name has any (name.rs:64).
ASSUME NameCharsAssumption == NameChars \cap Placeholders = {}

Plain(component) == component \notin {<<>>, <<".">>, <<".", ".">>}

Uses(t, token) == \E i \in DOMAIN t : token \in Range(t[i])

\* Mutant of GoodComponent: "." and ".." are taken.
GoodComponentDotted(component) ==
    /\ component # <<>>
    /\ Range(component) \cap {"{", "}"} = {}
    /\ Range(component) \cap Placeholders = {} => Len(component) <= MaxNameLen

\* One with a placeholder is measured when that is filled in.
GoodComponent(component) ==
    /\ Plain(component)
    /\ Range(component) \cap {"{", "}"} = {}
    /\ Range(component) \cap Placeholders = {} => Len(component) <= MaxNameLen

NamesLevel(t) == \E l \in DOMAIN LevelPlaceholders : Uses(t, LevelPlaceholders[l])

\* Mutant of Parses: {name} may be missing.
ParsesNameless(t, allowLevels) ==
    /\ t # <<>> /\ \A i \in DOMAIN t : GoodComponent(t[i])
    /\ NamesLevel(t) => allowLevels

Parses(t, allowLevels) ==
    /\ t # <<>> /\ \A i \in DOMAIN t : GoodComponent(t[i])
    /\ NamesLevel(t) => allowLevels
    /\ Uses(t, "{name}")

TemplateDepth(t) ==
    CASE Uses(t, "{subgroup}") -> 2
      [] ~Uses(t, "{subgroup}") /\ Uses(t, "{group}") -> 1
      [] OTHER -> 0

\* The component with every token replaced by the name it stands for.
Filled(component, binding) ==
    FlattenSeq([j \in DOMAIN component |->
        IF component[j] \in DOMAIN binding THEN binding[component[j]] ELSE <<component[j]>>])

TooLong(component) == Len(component) > MaxNameLen

LevelBinding(path) ==
    [token \in {LevelPlaceholders[l] : l \in DOMAIN path} |->
        path[CHOOSE l \in DOMAIN path : LevelPlaceholders[l] = token]]

BindLevels(t, path) == [i \in DOMAIN t |-> Filled(t[i], LevelBinding(path))]

\* A component with {name} is measured when the name is known.
BindFails(t, path) ==
    \E i \in DOMAIN t :
        "{name}" \notin Range(t[i]) /\ TooLong(BindLevels(t, path)[i])

Interpolated(t, name) == [i \in DOMAIN t |-> Filled(t[i], [token \in {"{name}"} |-> name])]

\* Mutant of PathLen: what separates components is not counted.
PathLenBare(path) == FoldSeq(LAMBDA component, sum : sum + Len(component), 0, path)

PathLen(path) == FoldSeq(LAMBDA component, sum : sum + Len(component) + 1, 0, path) - 1

\* Why a path cannot be used, or "fits".
Verdict(path) ==
    CASE \E i \in DOMAIN path : TooLong(path[i]) -> "component_too_long"
      [] \E i \in DOMAIN path : ~Plain(path[i]) -> "not_plain"
      [] PathLen(path) > MaxPathLen -> "path_too_long"
      [] OTHER -> "fits"

(***************************************************************************)
(* Configuration.                                                          *)
(***************************************************************************)

\* A statically configured group, or a set of groups.
Area(isSet, membership, targetRoot, source, target) ==
    [isSet |-> isSet, membership |-> membership, targetRoot |-> targetRoot,
     source |-> source, target |-> target]

Depth(area) ==
    IF 2 \in {TemplateDepth(area.source), TemplateDepth(area.target)} THEN 2 ELSE 1

\* Mutant of LevelsNamed: only the deepest level is looked for.
LevelsNamedLast(area) == Uses(area.target, LevelPlaceholders[Depth(area)])

LevelsNamed(area) == \A l \in 1..Depth(area) : Uses(area.target, LevelPlaceholders[l])

AtOrBeneath(path, other) == IsPrefix(other, path)
Overlap(path, other) == AtOrBeneath(path, other) \/ AtOrBeneath(other, path)

\* Mutant of CrossGroup: an area is compared with its own target root only.
CrossGroupOwn(c) ==
    \A a \in DOMAIN c : \A b \in DOMAIN c :
        /\ a = b => ~AtOrBeneath(c[a].membership, c[b].targetRoot)
        /\ a # b /\ c[b].isSet => ~Overlap(c[a].membership, c[b].membership)

\* Mutant of CrossGroup: what lies above a set's root is not looked for.
CrossGroupBeneath(c) ==
    \A a \in DOMAIN c : \A b \in DOMAIN c :
        /\ ~AtOrBeneath(c[a].membership, c[b].targetRoot)
        /\ a # b /\ c[b].isSet => ~AtOrBeneath(c[a].membership, c[b].membership)

CrossGroup(c) ==
    \A a \in DOMAIN c : \A b \in DOMAIN c :
        /\ ~AtOrBeneath(c[a].membership, c[b].targetRoot)
        /\ a # b /\ c[b].isSet => ~Overlap(c[a].membership, c[b].membership)

Valid(c) ==
    /\ \A a \in DOMAIN c :
         /\ Parses(c[a].source, c[a].isSet) /\ Parses(c[a].target, c[a].isSet)
         /\ c[a].isSet => LevelsNamed(c[a])
    /\ CrossGroup(c)

(***************************************************************************)
(* Discovery and observation.                                              *)
(***************************************************************************)

GroupId(label, path) == [area |-> label, path |-> path]

\* A group with the templates that are its own.
GroupConfig(label, path) ==
    LET area == conf[label]
    IN  [id |-> GroupId(label, path), membership |-> area.membership \o path,
         targetRoot |-> area.targetRoot,
         source |-> BindLevels(area.source, path), target |-> BindLevels(area.target, path)]

\* A tree maps raw names to kinds, once for the directories of a set and once for
\* those of groups.  It has the same entries in each of them, so that every pair
\* of names meets.
Visible(entries) == {raw \in DOMAIN entries : ~Hidden(raw)}

Dirs == {raw \in Visible(tree.levels) : ValidName(raw) /\ tree.levels[raw] = "dir"}
Files == {raw \in Visible(tree.members) : ValidName(raw) /\ tree.members[raw] = "empty"}

Note(label, path, reason) == [area |-> label, path |-> path, reason |-> reason]

\* The directories of a set that name a group, those above them, and what is
\* rejected there.
GroupPaths(area) == [1..Depth(area) -> Dirs]
PathsAbove(area) == UNION {[1..l -> Dirs] : l \in 0..Depth(area) - 1}
RejectedEntries(label) ==
    {Note(label, prefix \o <<raw>>, "entry") :
        prefix \in PathsAbove(conf[label]), raw \in Visible(tree.levels) \ Dirs}

Bindable(label, path) ==
    ~BindFails(conf[label].source, path) /\ ~BindFails(conf[label].target, path)

Init ==
    /\ conf \in Configs
    /\ tree \in Trees
    /\ pc = "load"
    /\ groups = {} /\ desired = {} /\ notes = {}

Load ==
    /\ pc = "load"
    /\ pc' = IF Valid(conf) THEN "discover" ELSE "rejected"
    /\ UNCHANGED <<conf, tree, groups, desired, notes>>

Discover ==
    LET static == {a \in DOMAIN conf : ~conf[a].isSet}
        sets   == DOMAIN conf \ static
    IN  /\ pc = "discover"
        /\ groups' = {GroupConfig(a, <<>>) : a \in static}
             \cup UNION {{GroupConfig(a, path) : path \in {p \in GroupPaths(conf[a]) : Bindable(a, p)}} :
                           a \in sets}
        /\ notes' = UNION {RejectedEntries(a)
             \cup {Note(a, path, "template") : path \in {p \in GroupPaths(conf[a]) : ~Bindable(a, p)}} :
                           a \in sets}
        /\ pc' = "observe"
        /\ UNCHANGED <<conf, tree, desired>>

DesiredMount(g, name) ==
    [group |-> g.id, name |-> name, source |-> Interpolated(g.source, name),
     target |-> Interpolated(g.target, name), targetRoot |-> g.targetRoot]

\* The source's verdict comes first.
MemberVerdict(d) == IF Verdict(d.source) # "fits" THEN Verdict(d.source) ELSE Verdict(d.target)

Members == {DesiredMount(g, name) : g \in groups, name \in Files}

\* The notes on members that do not fit, and on what is no member.
UnfitMembers ==
    {Note(d.group.area, d.group.path \o <<d.name>>, MemberVerdict(d)) :
        d \in {m \in Members : MemberVerdict(m) # "fits"}}
RejectedFiles ==
    {Note(g.id.area, g.id.path \o <<raw>>, "entry") : g \in groups, raw \in Visible(tree.members) \ Files}

Observe ==
    /\ pc = "observe"
    /\ desired' = {d \in Members : MemberVerdict(d) = "fits"}
    /\ notes' = notes \cup UnfitMembers \cup RejectedFiles
    /\ pc' = "done"
    /\ UNCHANGED <<conf, tree, groups>>

Next == Load \/ Discover \/ Observe

Spec == Init /\ [][Next]_vars

(***************************************************************************)
(* Properties.                                                             *)
(***************************************************************************)

Target(d) == d.targetRoot \o d.target

\* The types of the variables; conf and tree stay as they were chosen.
TypeOK ==
    /\ pc \in {"load", "rejected", "discover", "observe", "done"}
    /\ \A g \in groups : g.id.area \in DOMAIN conf /\ \A l \in DOMAIN g.id.path : ValidName(g.id.path[l])
    /\ \A d \in desired : ValidName(d.name) /\ \E g \in groups : g.id = d.group
    /\ \A n \in notes : n.area \in DOMAIN conf

\* The check of template.rs:175 against components "", "." and ".." is never
\* needed: valid templates and names cannot make one, whatever they are put
\* together from, and a template without {group} and {subgroup} is left.
NoTraversal ==
    /\ \A n \in notes : n.reason # "not_plain"
    /\ \A g \in groups : ~NamesLevel(g.source) /\ ~NamesLevel(g.target)

\* No member's source or view is that of another member of its group, or lies
\* inside it: a view never shows more than its own member.
MembersApart ==
    \A d, e \in desired :
        d.group = e.group /\ d # e => ~Overlap(d.target, e.target) /\ ~Overlap(d.source, e.source)

\* No component of the target is put together from two placeholders.
Separate(t) == \A i \in DOMAIN t : Cardinality(Range(t[i]) \cap Placeholders) <= 1

\* Two groups of a set never share a view, nor does one lie in another's, if
\* the target keeps its placeholders in separate components.
ViewsApart ==
    \A d, e \in desired :
        /\ d.group.area = e.group.area /\ d.group # e.group
        /\ Separate(conf[d.group.area].target)
        => ~Overlap(d.target, e.target)

\* docs/DESIGN.md:301: "`target` must use every level, so two groups can never
\* share a view".  Where {name} is a component of its own and the last, what
\* comes before it is the directory of views a group has.
GroupsNeverShareAView ==
    \A d, e \in desired :
        LET target == conf[d.group.area].target
        IN  /\ d.group.area = e.group.area /\ d.group # e.group
            /\ Last(target) = <<"{name}">> /\ ~Uses(Front(target), "{name}")
            => Front(d.target) # Front(e.target)

\* A membership file makes a member of one group: directories of different
\* groups are neither the same nor inside each other, unless both groups are
\* configured one by one.
OneGroupPerDirectory ==
    \A g, h \in groups :
        g # h /\ (conf[g.id.area].isSet \/ conf[h.id.area].isSet)
            => ~Overlap(g.membership, h.membership)

\* No view is mounted on or above a directory of a group, where it would hide
\* the membership files.  The groups of a set are safe only if no target root
\* lies inside the set's root: those are not compared (config.rs:1039).
MembershipUncovered ==
    \A g \in groups, d \in desired :
        LET root == conf[g.id.area].membership
        IN  AtOrBeneath(g.membership, Target(d)) =>
              conf[g.id.area].isSet /\ AtOrBeneath(d.targetRoot, root) /\ d.targetRoot # root

\* Checking lengths in two stages, first with the levels and then with the name
\* filled in, turns away neither too much nor too little: a file has its mount
\* if and only if the paths fit with everything filled in at once, and is noted
\* otherwise, on its own or with its group.
LimitsExact ==
    pc = "done" =>
        \A a \in DOMAIN conf, name \in Files :
            \A path \in IF conf[a].isSet THEN GroupPaths(conf[a]) ELSE {<<>>} :
                LET all == [token \in {LevelPlaceholders[l] : l \in DOMAIN path} \cup {"{name}"} |->
                              IF token = "{name}" THEN name ELSE LevelBinding(path)[token]]
                    full(t) == [i \in DOMAIN t |-> Filled(t[i], all)]
                    fits(p) == /\ \A i \in DOMAIN p : Len(p[i]) <= MaxNameLen
                               /\ Len(FlattenSeq(p)) + Len(p) - 1 <= MaxPathLen
                    wanted == \E d \in desired : d.group = GroupId(a, path) /\ d.name = name
                IN  /\ wanted <=> fits(full(conf[a].source)) /\ fits(full(conf[a].target))
                    /\ wanted \/ \E n \in notes : n.area = a /\ n.path \in {path, path \o <<name>>}

=============================================================================
