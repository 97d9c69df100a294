---------------------------- MODULE LeadDelivery ----------------------------
(***************************************************************************)
(* What the export of captured leads promises, seen from outside: a lead   *)
(* is held, at most one prospect is ever created for it at the             *)
(* destination, and its verdict "exported" is only ever pronounced on a    *)
(* prospect that exists.  LeadExport implements it when one export job     *)
(* runs at a time and nobody archives by hand.                             *)
(***************************************************************************)

CONSTANTS Lead,        \* the captured leads
          Prospect     \* the identifiers of prospects at the destination

VARIABLES verdict,     \* what the producer says of each lead
          prospects    \* the prospects the destination keeps for each lead

vars == <<verdict, prospects>>

Verdict == {"unknown", "held", "exported", "failed"}

TypeOK ==
    /\ verdict \in [Lead -> Verdict]
    /\ prospects \in [Lead -> SUBSET Prospect]

Init ==
    /\ verdict \in [Lead -> {"unknown", "held"}]
    /\ prospects = [l \in Lead |-> {}]

\* A visitor's request is recorded.
Capture(l) ==
    /\ verdict[l] = "unknown"
    /\ verdict' = [verdict EXCEPT ![l] = "held"]
    /\ UNCHANGED prospects

\* The destination creates the one prospect of a lead; a request that was
\* given up may still arrive, so a failed lead can acquire its prospect.
Deposit(l) ==
    /\ verdict[l] \in {"held", "failed"}
    /\ prospects[l] = {}
    /\ \E p \in Prospect : prospects' = [prospects EXCEPT ![l] = {p}]
    /\ UNCHANGED verdict

\* The producer records that the prospect exists.
Confirm(l) ==
    /\ verdict[l] = "held"
    /\ prospects[l] # {}
    /\ verdict' = [verdict EXCEPT ![l] = "exported"]
    /\ UNCHANGED prospects

\* The producer stops trying and leaves the lead to a human.
GiveUp(l) ==
    /\ verdict[l] = "held"
    /\ verdict' = [verdict EXCEPT ![l] = "failed"]
    /\ UNCHANGED prospects

Next == \E l \in Lead : Capture(l) \/ Deposit(l) \/ Confirm(l) \/ GiveUp(l)

Spec == Init /\ [][Next]_vars
=============================================================================
