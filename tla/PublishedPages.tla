--------------------------- MODULE PublishedPages ---------------------------
(***************************************************************************)
(* What publication promises a visitor and the site's owner: an address    *)
(* only ever shows a render that a person approved, and an address that    *)
(* has begun to show a page never goes dark.  Publication implements it,   *)
(* for any number of operators working at the same time.                   *)
(***************************************************************************)

CONSTANTS Draft, Render, Address,
          Nothing          \* what an address shows before its first page

VARIABLES approved,        \* the renders of drafts a person approved by name
          shown            \* what each address shows

vars == <<approved, shown>>

TypeOK ==
    /\ approved \subseteq Draft \X Render
    /\ shown \in [Address -> (Draft \X Render) \cup {Nothing}]

Init ==
    /\ approved = {}
    /\ shown = [a \in Address |-> Nothing]

\* A person reads a render and approves it.
Approve(d, r) ==
    /\ approved' = approved \cup {<<d, r>>}
    /\ UNCHANGED shown

\* An approved render replaces whatever the address showed.
Show(a, d, r) ==
    /\ <<d, r>> \in approved
    /\ shown' = [shown EXCEPT ![a] = <<d, r>>]
    /\ UNCHANGED approved

Next ==
    \E d \in Draft, r \in Render :
        Approve(d, r) \/ \E a \in Address : Show(a, d, r)

Spec == Init /\ [][Next]_vars
=============================================================================
