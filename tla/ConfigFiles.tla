----------------------------- MODULE ConfigFiles -----------------------------
(***************************************************************************)
(* Loading the configuration from its files: `load' of src/src/config.rs.  *)
(* A main file and the fragments of a drop-in directory make one           *)
(* configuration, which stands or falls as a whole.  `check' loads it with *)
(* changes to the drop-in directory that have not been made.               *)
(*                                                                         *)
(* A group or set is a label here; the rules for one group, and for two    *)
(* beside each other, are Placement's, and a file only says which of its   *)
(* groups break them.                                                      *)
(***************************************************************************)
EXTENDS Naturals, Sequences

CONSTANTS
    MainFile,       \* the main file
    FileNames,      \* names of files in the drop-in directory
    Selected,       \* those that end in .toml and do not begin with a dot
    Labels          \* groups and sets

ASSUME ConfigFilesAssumption == MainFile \notin FileNames /\ Selected \subseteq FileNames

(***************************************************************************)
(* What is found in the place of a file.                                   *)
(*   kind      "file" if it can be read; "absent", nothing; "dangling", a  *)
(*             link to nothing, or a file gone since it was listed;        *)
(*             "failing", not a regular file, or one that cannot be read   *)
(*   trusted   it belongs to root and only its owner can write it          *)
(*   placed    so does the directory that really contains it               *)
(*   parses    it is TOML of the right shape                               *)
(*   daemon    its [daemon] section                                        *)
(*   valid     its groups and sets are, each by itself                     *)
(*   groups    their labels                                                *)
(*   clashes   groups of other files they cannot be configured beside      *)
(***************************************************************************)
Files ==
    [kind : {"file", "absent", "dangling", "failing"}, trusted : BOOLEAN, placed : BOOLEAN,
     parses : BOOLEAN, daemon : {"none", "default", "moved", "invalid"}, valid : BOOLEAN,
     groups : SUBSET Labels, clashes : SUBSET Labels]

\* What a command is pointed to: the files, the drop-in directory, whether it and the
\* directory that contains it are trusted, and what was named on the command line.
Etcs ==
    [file : [FileNames \cup {MainFile} -> Files], dir : {"ok", "missing", "failing"},
     dirTrusted : BOOLEAN, named : SUBSET {"main", "dir"}]

\* Changes to the fragments, in the order of the command line.
Changes == [add : Seq([name : FileNames, file : Files]), remove : SUBSET FileNames]
NoChanges == [add |-> <<>>, remove |-> {}]

(***************************************************************************)
(* Which files are read.                                                   *)
(***************************************************************************)

\* list_fragments.
Listed(etc) == IF etc.dir = "ok" THEN {n \in Selected : etc.file[n].kind # "absent"} ELSE {}

CandidateNames(changes) == {changes.add[i].name : i \in DOMAIN changes.add}

\* Mutant of Remaining: a fragment that a candidate replaces is read as well.
RemainingReplaced(etc, changes) == Listed(etc) \ changes.remove

Remaining(etc, changes) == Listed(etc) \ (changes.remove \cup CandidateNames(changes))

Source(n, f, candidate) == [name |-> n, file |-> f, candidate |-> candidate]

Sources(etc, changes) ==
    {Source(n, etc.file[n], FALSE) : n \in {MainFile} \cup Remaining(etc, changes)}
      \cup {Source(changes.add[i].name, changes.add[i].file, TRUE) : i \in DOMAIN changes.add}

ReadFrom(etc, changes) == {s \in Sources(etc, changes) : s.file.kind = "file"}
Parsed(etc, changes) == {s \in ReadFrom(etc, changes) : s.file.parses}

(***************************************************************************)
(* What is wrong with them.                                                *)
(***************************************************************************)

\* validate_candidates, and removals of what is not there.
BadChanges(etc, changes) ==
    \/ ~(CandidateNames(changes) \subseteq Selected)
    \/ \E i, j \in DOMAIN changes.add : i # j /\ changes.add[i].name = changes.add[j].name
    \/ ~(changes.remove \subseteq Listed(etc))

\* A fragment that is gone when it is read is passed over; a candidate is not, nor a main
\* file or drop-in directory that the command line names.
ReadErrors(etc, changes) ==
    \/ etc.dir = "failing" \/ (etc.dir = "missing" /\ "dir" \in etc.named)
    \/ \E s \in Sources(etc, changes) :
          \/ s.file.kind = "failing"
          \/ s.file.kind \in {"absent", "dangling"} /\ s.candidate
          \/ s.file.kind \in {"absent", "dangling"} /\ s.name = MainFile /\ "main" \in etc.named

\* read_checked and check_ownership: the directory a candidate comes from does not matter.
Untrusted(etc, changes) ==
    \/ \E s \in ReadFrom(etc, changes) : ~s.file.trusted \/ ~(s.candidate \/ s.file.placed)
    \/ /\ \E s \in ReadFrom(etc, changes) : s.name # MainFile
       /\ etc.dir = "missing" \/ ~etc.dirTrusted

Configures(etc, changes) == UNION {s.file.groups : s \in Parsed(etc, changes)}

\* toml::from_str and assemble.
Invalid(etc, changes) ==
    \/ Parsed(etc, changes) # ReadFrom(etc, changes)
    \/ \E s \in Parsed(etc, changes) :
          \/ ~s.file.valid
          \/ s.file.daemon \in (IF s.name = MainFile THEN {"invalid"}
                                ELSE {"default", "moved", "invalid"})
          \/ s.file.clashes \cap Configures(etc, changes) # {}
          \/ \E t \in Parsed(etc, changes) \ {s} : s.file.groups \cap t.file.groups # {}

\* "Enforce" by everything that mounts, and by check; "Warn" by status and dry-run.
LoadFails(etc, changes, ownership) ==
    \/ BadChanges(etc, changes) \/ ReadErrors(etc, changes) \/ Invalid(etc, changes)
    \/ ownership = "Enforce" /\ Untrusted(etc, changes)

\* validate_daemon, of which a reload compares the state directory.
StateDirIn(etc) ==
    IF etc.file[MainFile].kind = "file" /\ etc.file[MainFile].daemon = "moved"
    THEN "moved" ELSE "default"

(***************************************************************************)
(* Making the changes (docs/INTEGRATION.md, "Changing a tenant's           *)
(* configuration safely"): fragments are deleted, candidates moved into    *)
(* the drop-in directory with their owner and mode.                        *)
(***************************************************************************)

\* The last candidate of a name stays.
Candidate(changes, n) ==
    changes.add[CHOOSE i \in DOMAIN changes.add :
        changes.add[i].name = n /\ \A j \in DOMAIN changes.add : changes.add[j].name = n => j <= i].file

Installed(etc, changes) ==
    [etc EXCEPT !.file = [n \in FileNames \cup {MainFile} |->
        CASE n \in CandidateNames(changes) ->
               [Candidate(changes, n) EXCEPT !.placed = etc.dirTrusted]
          [] n \in changes.remove \ CandidateNames(changes) -> [etc.file[n] EXCEPT !.kind = "absent"]
          [] OTHER -> etc.file[n]]]

\* What cannot be made, or was not meant.
Improper(etc, changes) ==
    \/ BadChanges(etc, changes)
    \/ \E i \in DOMAIN changes.add : changes.add[i].file.kind # "file"
    \/ changes.add # <<>> /\ etc.dir = "missing"

=============================================================================
