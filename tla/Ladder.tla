------------------------------- MODULE Ladder -------------------------------
(***************************************************************************)
(* What an approval request promises, without saying how: it stands at one *)
(* step of its route, before one office; each change endorses that step,   *)
(* calls on the next higher office, or settles the request for good.  Only *)
(* the last step can approve it, and only the top office can exhaust it.   *)
(* Approvals implements this; Disputes is built on it.                     *)
(***************************************************************************)
EXTENDS Naturals, Sequences

CONSTANTS
    Requests,
    Rungs,       \* [Requests -> non-empty sequences of offices]
    TopOffice

VARIABLES phase, at, office

ladderVars == <<phase, at, office>>

Terminal == {"approved", "returned", "rejected", "escalation_exhausted"}

\* request.submitted.
Submit(r) ==
    /\ phase[r] = "none"
    /\ phase' = [phase EXCEPT ![r] = "open"]
    /\ UNCHANGED <<at, office>>

\* request.step_decided, and the request goes on.
Endorse(r) ==
    /\ phase[r] = "open"
    /\ at[r] < Len(Rungs[r])
    /\ at' = [at EXCEPT ![r] = @ + 1]
    /\ office' = [office EXCEPT ![r] = Rungs[r][at[r] + 1]]
    /\ UNCHANGED phase

\* request.step_escalated.
Climb(r) ==
    /\ phase[r] = "open"
    /\ office[r] < TopOffice
    /\ office' = [office EXCEPT ![r] = @ + 1]
    /\ UNCHANGED <<phase, at>>

\* request.resolved and request.force_closed.
Resolve(r, outcome) ==
    /\ phase[r] = "open"
    /\ outcome = "approved" => at[r] = Len(Rungs[r])
    /\ outcome = "escalation_exhausted" => office[r] = TopOffice
    /\ phase' = [phase EXCEPT ![r] = outcome]
    /\ UNCHANGED <<at, office>>

Init ==
    /\ phase = [r \in Requests |-> "none"]
    /\ at = [r \in Requests |-> 1]
    /\ office = [r \in Requests |-> Rungs[r][1]]

Next ==
    \E r \in Requests :
        \/ Submit(r)
        \/ Endorse(r)
        \/ Climb(r)
        \/ \E o \in Terminal : Resolve(r, o)

Spec == Init /\ [][Next]_ladderVars
=============================================================================
