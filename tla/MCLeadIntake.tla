---------------------------- MODULE MCLeadIntake ----------------------------
(* Small instances of LeadIntake for TLC. *)
EXTENDS LeadIntake, TLC

CONSTANTS r1, r2, d1, d2

Box(key, purpose, version, channels, required) ==
  [key |-> key, purpose |-> purpose, version |-> version, channels |-> channels,
   required |-> required, pending |-> FALSE]

\* The form of before the per-case consents, live and notifying.
OldForm ==
  [consents |-> {Box("consent_processing", "NONE", "v1", {"NONE"}, TRUE)},
   questions |-> {[key |-> "owner", required |-> TRUE]},
   consentRequired |-> TRUE, staging |-> FALSE, domain |-> TRUE,
   publication |-> TRUE, indexing |-> TRUE, destination |-> TRUE, transport |-> TRUE]

\* New texts, a box that names two channels, and no mail transport any more.
NewForm ==
  [OldForm EXCEPT
     !.consents = {Box("consent_processing", "PROCESSING", "v2", {"NONE"}, TRUE),
                   Box("consent_followup", "FOLLOWUP_CONTACT", "v2",
                       {"PHONE", "WHATSAPP"}, FALSE)},
     !.transport = FALSE]

\* Refused by the loader: a text still to be validated on a live site.
PlaceholderForm ==
  [OldForm EXCEPT
     !.consents = {[Box("consent_processing", "NONE", "v0", {"NONE"}, TRUE)
                     EXCEPT !.pending = TRUE]}]

Forms == {OldForm, NewForm, PlaceholderForm}
=============================================================================
