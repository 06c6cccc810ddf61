---------------------------- MODULE ClaimRegister ----------------------------
(***************************************************************************)
(* What the state file promises: a register that holds one value, always a *)
(* whole one.  A replacement shows at once; a power failure may undo it    *)
(* until it has been settled, and then brings back a value that was in the *)
(* register since the last one settled.                                    *)
(***************************************************************************)
CONSTANTS
    Values,    \* values that are saved
    Initial,   \* what the register holds before anything was saved
    Spoilt     \* values others may put there: damage, other formats

VARIABLES
    value,     \* what a reader gets
    atRisk,    \* what a reader may get after a power failure
    settled    \* the value acknowledged last has not been replaced since

vars == <<value, atRisk, settled>>

Init == value = Initial /\ atRisk = {Initial} /\ settled = TRUE

\* A writer's value replaces the one there.
Replace(v) ==
    /\ value' = v
    /\ atRisk' = atRisk \cup {v}
    /\ settled' = FALSE

\* The writer is told that its value is safe.
Acknowledge ==
    /\ atRisk' = {value}
    /\ settled' = TRUE
    /\ UNCHANGED value

PowerFailure ==
    /\ value' \in atRisk
    /\ atRisk' = {value'}
    /\ UNCHANGED settled

\* Others spoil what is there.
Spoil(s) ==
    /\ value' = s
    /\ s \in atRisk' /\ atRisk' \subseteq atRisk \cup {s}
    /\ settled' = FALSE

\* A writer that finds it spoilt starts anew.
SetAside ==
    /\ value \in Spoilt
    /\ Replace(Initial)

Next ==
    \/ \E v \in Values : Replace(v)
    \/ Acknowledge
    \/ PowerFailure
    \/ \E s \in Spoilt : Spoil(s)
    \/ SetAside

Spec == Init /\ [][Next]_vars

\* What was acknowledged and not replaced since survives a power failure.
AcknowledgedSurvives == settled => atRisk = {value}

=============================================================================
