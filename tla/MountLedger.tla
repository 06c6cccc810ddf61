----------------------------- MODULE MountLedger -----------------------------
(***************************************************************************)
(* What byssus promises about mounts, whoever else mounts and unmounts and *)
(* wherever it fails: a keeper takes aim only at mounts it made and still  *)
(* keeps, and takes down the one it aimed at, or what others have stacked  *)
(* on that since; what it no longer keeps it never aims at again.          *)
(*                                                                         *)
(* A mount is its unique ID.  Which targets there are, why a mount is made *)
(* or taken down, and how the state file is written are left open.         *)
(***************************************************************************)
EXTENDS Naturals

VARIABLES
    foreign,   \* mounts of others
    hand,      \* the mount just made, which the keeper is not done with
    kept,      \* the keeper's mounts that the state file names
    stray,     \* the keeper's mounts that nothing names any more
    aim,       \* the mount the keeper has verified and is about to take down
    over,      \* what others have stacked on that one since
    next,      \* the next mount's ID
    turn       \* differs after every step of the keeper, and after no other

mounts == <<foreign, hand, kept, stray, next>>
vars == <<mounts, aim, over, turn>>

Init ==
    /\ foreign = {} /\ hand = {} /\ kept = {} /\ stray = {}
    /\ aim = {} /\ over = {}
    /\ next = 1

(***************************************************************************)
(* The keeper.                                                             *)
(***************************************************************************)

\* It looks, plans, skips, fails before anything is done.
Consider == UNCHANGED mounts

\* It makes a mount, one at a time.
Make ==
    /\ next' = next + 1
    /\ hand = {}
    /\ hand' = {next}
    /\ UNCHANGED <<foreign, kept, stray>>

\* It makes a mount and cannot tell which.
MakeUnknown ==
    /\ next' = next + 1
    /\ stray' = stray \cup {next}
    /\ UNCHANGED <<foreign, hand, kept>>

\* It is done with the mount in hand: from then on it keeps the mount or never will.
\* With every writing of the state file it may disown mounts.
SettleHand(disowned) ==
    /\ disowned \subseteq kept \cup hand
    /\ hand' = {}
    /\ kept' = (kept \cup hand) \ disowned
    /\ stray' = stray \cup disowned
    /\ UNCHANGED <<foreign, next>>

\* Writing the state file fails, and the mount in hand is to be undone.
Retract(disowned) ==
    /\ disowned \subseteq kept
    /\ kept' = kept \ disowned
    /\ stray' = stray \cup disowned
    /\ UNCHANGED <<foreign, hand, next>>

\* It verifies the mount in hand or, with nothing in hand, one it keeps.
TakeAim(m) ==
    /\ m \in IF hand = {} THEN kept ELSE hand
    /\ aim' = {m} /\ over' = {}
    /\ UNCHANGED mounts

\* What it aimed at goes, or what lies over that; and it is done with the mount in hand.
TakeDown(m, disowned) ==
    /\ m \in IF over = {} THEN aim ELSE over
    /\ disowned \subseteq hand \ {m}
    /\ foreign' = foreign \ {m}
    /\ hand' = {}
    /\ kept' = (kept \cup hand) \ ({m} \cup disowned)
    /\ stray' = stray \cup disowned
    /\ UNCHANGED next

Keeper ==
    /\ turn' # turn
    /\ \/ \E m \in kept \cup hand : TakeAim(m)
       \/ /\ aim' = {} /\ over' = {}
          /\ \/ Consider
             \/ Make
             \/ MakeUnknown
             \/ \E disowned \in SUBSET (kept \cup hand) : SettleHand(disowned)
             \/ \E disowned \in SUBSET kept : Retract(disowned)
             \/ \E m \in aim \cup over, disowned \in SUBSET hand : TakeDown(m, disowned)

(***************************************************************************)
(* Everybody else.                                                         *)
(***************************************************************************)

\* Somewhere, or over what the keeper aims at.
OthersMount ==
    /\ next' = next + 1
    /\ foreign' = foreign \cup {next}
    /\ over' \in {over} \cup {over \cup {next} : m \in aim}
    /\ UNCHANGED <<hand, kept, stray, aim>>

\* What lies over a mount goes before it.
OthersUnmount(m) ==
    /\ m \in aim => over = {}
    /\ foreign' = foreign \ {m}
    /\ hand' = hand \ {m}
    /\ kept' = kept \ {m}
    /\ stray' = stray \ {m}
    /\ aim' = aim \ {m}
    /\ over' = over \ {m}
    /\ UNCHANGED next

\* The state file is lost.
Forget ==
    /\ kept' = {}
    /\ stray' = stray \cup kept
    /\ UNCHANGED <<foreign, hand, aim, over, next>>

Others ==
    /\ UNCHANGED turn
    /\ \/ OthersMount
       \/ \E m \in foreign \cup hand \cup kept \cup stray : OthersUnmount(m)
       \/ Forget

Next == Keeper \/ Others

Spec == Init /\ [][Next]_vars

=============================================================================
