------------------------- MODULE ConfigurationLedger ------------------------
(***************************************************************************)
(* What the configuration authority of an agent promises: the settings     *)
(* have a revision, a change of them is a command with a key of its own,   *)
(* every change makes the next revision, and what a command led to is      *)
(* recorded once and stays, so that a command that comes again can be      *)
(* answered and not done again. Only what writes past the authority        *)
(* changes settings without a revision.                                    *)
(***************************************************************************)
EXTENDS Naturals

CONSTANTS Settings, InitialSettings

VARIABLES
    revision,
    settings,
    outcomes,   \* outcomes[key]: [revision, settings] a command led to
    bypasses    \* writes past the authority

vars == <<revision, settings, outcomes, bypasses>>

Init ==
    /\ revision = 0
    /\ settings = InitialSettings
    /\ outcomes = [key \in {} |-> {}]
    /\ bypasses = 0

(* The outcome of the command with this key is recorded, none before it is *)
(* touched.                                                                *)
Recorded(key) ==
    /\ key \notin DOMAIN outcomes
    /\ DOMAIN outcomes' = DOMAIN outcomes \union {key}
    /\ \A k \in DOMAIN outcomes : outcomes'[k] = outcomes[k]
    /\ outcomes'[key] = [revision |-> revision', settings |-> settings']

(* A command makes a revision.                                             *)
Change ==
    /\ revision' = revision + 1
    /\ settings' \in Settings
    /\ \E key \in DOMAIN outcomes' : Recorded(key)
    /\ UNCHANGED bypasses

(* A command finds everything as it wants it.                              *)
Confirm ==
    /\ UNCHANGED <<revision, settings, bypasses>>
    /\ \E key \in DOMAIN outcomes' : Recorded(key)

(* Something writes past the authority.                                    *)
Bypass ==
    /\ bypasses' = bypasses + 1
    /\ settings' \in Settings
    /\ UNCHANGED <<revision, outcomes>>

Next == Change \/ Confirm \/ Bypass

Spec == Init /\ [][Next]_vars
=============================================================================
