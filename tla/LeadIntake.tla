----------------------------- MODULE LeadIntake -----------------------------
(***************************************************************************)
(* A lead from the form a visitor reads to the human who calls back.      *)
(* The web server shows the form of the configuration it last fetched;    *)
(* the API, restarted with another configuration at any time, judges and  *)
(* stores the submission, commits, then notifies and records the outcome  *)
(* in a second transaction.  Operators work from `seolead leads report`,  *)
(* note the calls they made and archive, each command reading the row in  *)
(* a session of its own before it writes.                                 *)
(***************************************************************************)
EXTENDS Integers, FiniteSets

CONSTANTS Request,      \* visits of the form
          Desk,         \* operators' terminals
          Sites,        \* the configurations the API may be started with
          ReportLimit,  \* `leads report` lists this many leads at most
          MaxLeads,     \* bound on the rows
          MaxRestarts,  \* bound on the deployments of the API
          NoForm, NoLead

ASSUME LimitsAssumption ==
  /\ ReportLimit \in Nat \ {0}
  /\ MaxLeads \in Nat
  /\ MaxRestarts \in Nat

VARIABLES site,     \* the configuration the running API loaded
          page,     \* the one the web server renders its forms from
          rows,     \* lead number -> row of captured_leads with its consents, and, for the
                    \* properties, the form its visitor read and the boxes they ticked
          req,      \* the visits
          desk,     \* the terminals
          mailed,   \* leads whose notification the relay accepted
          handled,  \* leads a human contacted
          restarts

vars == <<site, page, rows, req, desk, mailed, handled, restarts>>

---------------------------------------------------------------------------
(* Site configuration                                                      *)

LegacyPurpose(key) ==
  CASE key = "consent_processing" -> "PROCESSING"
    [] key = "consent_marketing"  -> "MARKETING"
    [] OTHER -> "NONE"

Purpose(field) == IF field.purpose = "NONE" THEN LegacyPurpose(field.key)
                                            ELSE field.purpose

\* A configuration the loader accepts.
Loadable(s) ==
  /\ \A f \in s.consents :
       /\ Purpose(f) # "NONE"
       /\ f.required => Purpose(f) = "PROCESSING"
       /\ f.pending => s.staging
  /\ s.domain \/ s.staging
  /\ s.indexing => ~s.staging /\ s.publication
  /\ s.publication => s.domain

\* One case per consent field, or one per channel the field names.
Cases(s) ==
  UNION {{[key |-> f.key, channel |-> ch, purpose |-> Purpose(f),
           version |-> f.version, required |-> f.required] : ch \in f.channels}
         : f \in s.consents}

---------------------------------------------------------------------------
(* Judging one submission                                                  *)

\* Each submission builds its own limiter, so its bucket starts empty.
Spam(sub, inBucket) ==
  \/ sub.decoy
  \/ sub.hasty
  \/ sub.client /\ inBucket >= 5

\* Mutant of Granted: a box the form did not have counts as ticked.
GrantedByDefault(sub, case) ==
  case.key \in sub.offered => case.key \in sub.ticked

\* The answer per case: by form key, else the historical boolean, else a refusal.
Granted(sub, case) ==
  IF case.key \in sub.offered THEN case.key \in sub.ticked
  ELSE /\ case.key \in {"consent_processing", "consent_marketing"}
       /\ case.key \in sub.booleans

ProcessingGranted(sub, s) ==
  LET asked == {c \in Cases(s) : c.purpose = "PROCESSING"}
  IN IF asked = {} THEN "consent_processing" \in sub.booleans
     ELSE /\ \A c \in asked : c.required => Granted(sub, c)
          /\ \E c \in asked : Granted(sub, c)

\* Answers that survive cleaning: to a question this site asks, of its type.
Cleaned(sub, s) == sub.usable \cap {q.key : q \in s.questions}

Missing(sub, s) ==
  {q \in s.questions : q.required /\ q.key \notin Cleaned(sub, s) \cup sub.contact}

Rejects(sub, s) ==
  \/ ~sub.known
  \/ s.consentRequired /\ ~ProcessingGranted(sub, s)
  \/ ~sub.emailOk
  \/ Missing(sub, s) # {}

Consents(sub, s) ==
  {[key |-> c.key, channel |-> c.channel, version |-> c.version,
    granted |-> Granted(sub, c)] : c \in Cases(s)}

\* What the browser may post from form f: it holds back a form whose required
\* boxes are not ticked; whether an answer is usable is the server's to say.
Submissions(f) ==
  LET boxes == {c.key : c \in f.consents}
  IN {[decoy |-> FALSE, hasty |-> h, client |-> TRUE, known |-> TRUE,
       emailOk |-> TRUE, offered |-> boxes, ticked |-> t,
       booleans |-> t \cap {"consent_processing", "consent_marketing"},
       usable |-> u, contact |-> {}] :
        h \in BOOLEAN,
        t \in {b \in SUBSET boxes : \A c \in f.consents : c.required => c.key \in b},
        u \in SUBSET {q.key : q \in f.questions}}

---------------------------------------------------------------------------
(* Rows                                                                    *)

Lead == DOMAIN rows

\* Mutant of Flush: every column is written, changed or not.
FlushEveryColumn(old, new, stored) == new

\* A commit writes the columns that differ from what the session read.
Flush(old, new, stored) ==
  [c \in DOMAIN stored |-> IF new[c] = old[c] THEN stored[c] ELSE new[c]]

Recorded == {"SENT", "MANUAL_FOLLOWUP_DONE"}

\* Mutant of Waiting: a notification that was never recorded is not looked for.
WaitingWhenFailed ==
  {l \in Lead : rows[l].notification \in {"FAILED", "NO_TRANSPORT", "NO_DESTINATION"}}

\* Everything that neither a relay nor a human took off the list.
Waiting == {l \in Lead : rows[l].notification \notin Recorded}

\* The report: the newest first, at most ReportLimit of them.
Report == {l \in Waiting : Cardinality({k \in Waiting : k > l}) < ReportLimit}

Archivable == {"NEW", "PENDING_EXPORT", "EXPORT_FAILED", "REJECTED_SPAM"}

NoRow == [state |-> "NONE", notification |-> "NONE", dated |-> FALSE,
          notes |-> {}, consents |-> {}, form |-> NoForm, ticked |-> {}]

Init ==
  /\ site \in {s \in Sites : Loadable(s)}
  /\ page = NoForm
  /\ rows = <<>>
  /\ req = [r \in Request |-> [pc |-> "away", form |-> NoForm,
                               lead |-> NoLead, outcome |-> "NONE"]]
  /\ desk = [d \in Desk |-> [pc |-> "free", lead |-> NoLead, read |-> NoRow]]
  /\ mailed = {}
  /\ handled = {}
  /\ restarts = 0

---------------------------------------------------------------------------
(* The visitor and the API                                                 *)

\* Rendering the form, the web server uses the configuration it fetches or, when the
\* API does not answer or a cached answer is young, the last it was served.
OpenForm(r) ==
  /\ req[r].pc = "away"
  /\ page' \in {page, site} \ {NoForm}
  /\ req' = [req EXCEPT ![r].pc = "reading", ![r].form = page']
  /\ UNCHANGED <<site, rows, desk, mailed, handled, restarts>>

\* 422 for what the limiter or the form is refused for; nothing is kept.
Refused(r, sub) ==
  /\ Spam(sub, 0) \/ Rejects(sub, site)
  /\ req' = [req EXCEPT ![r].pc = "refused"]
  /\ UNCHANGED rows

\* Mutant of Stored: the destination's answer is not written to the row.
StoredAsNew(r, sub) ==
  /\ ~Spam(sub, 0)
  /\ ~Rejects(sub, site)
  /\ Cardinality(Lead) < MaxLeads
  /\ LET l == Cardinality(Lead) + 1
         row == [NoRow EXCEPT !.state = "NEW", !.notification = "UNRECORDED",
                   !.consents = Consents(sub, site), !.form = req[r].form,
                   !.ticked = sub.ticked]
     IN /\ rows' = [k \in Lead \cup {l} |-> IF k = l THEN row ELSE rows[k]]
        /\ req' = [req EXCEPT ![r].pc = "stored", ![r].lead = l]

\* The row, its consents and its attribution are one transaction.
Stored(r, sub) ==
  /\ ~Spam(sub, 0)
  /\ ~Rejects(sub, site)
  /\ Cardinality(Lead) < MaxLeads
  /\ LET l == Cardinality(Lead) + 1
         row == [NoRow EXCEPT !.state = "PENDING_EXPORT", !.notification = "UNRECORDED",
                   !.consents = Consents(sub, site), !.form = req[r].form,
                   !.ticked = sub.ticked]
     IN /\ rows' = [k \in Lead \cup {l} |-> IF k = l THEN row ELSE rows[k]]
        /\ req' = [req EXCEPT ![r].pc = "stored", ![r].lead = l]

Submit(r) ==
  /\ req[r].pc = "reading"
  /\ \E sub \in Submissions(req[r].form) :
       Refused(r, sub) \/ Stored(r, sub)
  /\ UNCHANGED <<site, page, desk, mailed, handled, restarts>>

\* Mutant of Notices: the notifier without a transport answers that it delivered.
NoticesPretend(s) ==
  IF ~s.destination THEN {<<"NO_DESTINATION", FALSE>>}
  ELSE IF ~s.transport THEN {<<"SENT", FALSE>>}
  ELSE {<<"SENT", TRUE>>, <<"FAILED", TRUE>>, <<"FAILED", FALSE>>}

\* What notifying may end as, and whether the relay took the message.
Notices(s) ==
  IF ~s.destination THEN {<<"NO_DESTINATION", FALSE>>}
  ELSE IF ~s.transport THEN {<<"NO_TRANSPORT", FALSE>>}
  ELSE {<<"SENT", TRUE>>, <<"FAILED", TRUE>>, <<"FAILED", FALSE>>}

\* Mutant of Notify: what the relay raises reaches the visitor.
NotifyRaises(r) ==
  /\ req[r].pc = "stored"
  /\ \E n \in Notices(site) :
       /\ req' = [req EXCEPT ![r].outcome = n[1],
                 ![r].pc = IF n[1] = "FAILED" THEN "unavailable" ELSE "notified"]
       /\ mailed' = IF n[2] THEN mailed \cup {req[r].lead} ELSE mailed
  /\ UNCHANGED <<site, page, rows, desk, handled, restarts>>

Notify(r) ==
  /\ req[r].pc = "stored"
  /\ \E n \in Notices(site) :
       /\ req' = [req EXCEPT ![r].pc = "notified", ![r].outcome = n[1]]
       /\ mailed' = IF n[2] THEN mailed \cup {req[r].lead} ELSE mailed
  /\ UNCHANGED <<site, page, rows, desk, handled, restarts>>

\* The session still holds the row it inserted; the answer is 201.
RecordOutcome(r) ==
  /\ req[r].pc = "notified"
  /\ LET l == req[r].lead
         old == [rows[l] EXCEPT !.notification = "UNRECORDED", !.dated = FALSE,
                                !.notes = {}, !.state = "PENDING_EXPORT"]
         new == [old EXCEPT !.notification = req[r].outcome, !.dated = TRUE]
     IN rows' = [rows EXCEPT ![l] = Flush(old, new, rows[l])]
  /\ req' = [req EXCEPT ![r].pc = "created", ![r].form = NoForm]
  /\ UNCHANGED <<site, page, desk, mailed, handled, restarts>>

\* A visitor who was shown an error sends the same form again.
Resubmit(r) ==
  /\ req[r].pc \in {"refused", "unavailable"}
  /\ req' = [req EXCEPT ![r].pc = "reading", ![r].lead = NoLead, ![r].outcome = "NONE"]
  /\ UNCHANGED <<site, page, rows, desk, mailed, handled, restarts>>

\* A deployment: the process dies and starts with a configuration it can load.
Restart ==
  /\ restarts < MaxRestarts
  /\ restarts' = restarts + 1
  /\ site' \in {s \in Sites : Loadable(s)}
  /\ req' = [r \in Request |->
               IF req[r].pc \in {"stored", "notified"}
               THEN [req[r] EXCEPT !.pc = "unavailable"] ELSE req[r]]
  /\ UNCHANGED <<page, rows, desk, mailed, handled>>

---------------------------------------------------------------------------
(* The operator                                                            *)

\* An operator calls a lead of the report.
Contact(d) ==
  /\ desk[d].pc = "free"
  /\ \E l \in Report :
       /\ desk' = [desk EXCEPT ![d].pc = "called", ![d].lead = l]
       /\ handled' = handled \cup {l}
  /\ UNCHANGED <<site, page, rows, req, mailed, restarts>>

FollowupRead(d) ==
  /\ desk[d].pc = "called"
  /\ desk' = [desk EXCEPT ![d].pc = "noting", ![d].read = rows[desk[d].lead]]
  /\ UNCHANGED <<site, page, rows, req, mailed, handled, restarts>>

FollowupCommit(d) ==
  /\ desk[d].pc = "noting"
  /\ LET old == desk[d].read
         new == [old EXCEPT !.notification = "MANUAL_FOLLOWUP_DONE", !.dated = TRUE,
                            !.notes = @ \cup {"_manual_followup"}]
     IN rows' = [rows EXCEPT ![desk[d].lead] = Flush(old, new, @)]
  /\ desk' = [desk EXCEPT ![d] = [pc |-> "free", lead |-> NoLead, read |-> NoRow]]
  /\ UNCHANGED <<site, page, req, mailed, handled, restarts>>

ArchiveRead(d) ==
  /\ desk[d].pc = "free"
  /\ \E l \in Lead :
       /\ rows[l].state \in Archivable
       /\ desk' = [desk EXCEPT ![d] = [pc |-> "archiving", lead |-> l, read |-> rows[l]]]
  /\ UNCHANGED <<site, page, rows, req, mailed, handled, restarts>>

ArchiveCommit(d) ==
  /\ desk[d].pc = "archiving"
  /\ LET old == desk[d].read
         new == [old EXCEPT !.state = "ARCHIVED", !.notes = @ \cup {"_archive"}]
     IN rows' = [rows EXCEPT ![desk[d].lead] = Flush(old, new, @)]
  /\ desk' = [desk EXCEPT ![d] = [pc |-> "free", lead |-> NoLead, read |-> NoRow]]
  /\ UNCHANGED <<site, page, req, mailed, handled, restarts>>

RequestStep(r) ==
  OpenForm(r) \/ Submit(r) \/ Notify(r) \/ RecordOutcome(r) \/ Resubmit(r)

DeskStep(d) ==
  \/ Contact(d) \/ FollowupRead(d) \/ FollowupCommit(d)
  \/ ArchiveRead(d) \/ ArchiveCommit(d)

Next ==
  \/ \E r \in Request : RequestStep(r)
  \/ Restart
  \/ \E d \in Desk : DeskStep(d)

Spec == Init /\ [][Next]_vars

\* A command in progress ends, and an operator goes on working through the report
\* for as long as it lists anybody.  Nothing is assumed of visitors.
Fairness ==
  /\ \A r \in Request : WF_vars(Notify(r)) /\ WF_vars(RecordOutcome(r))
  /\ \A d \in Desk : /\ SF_vars(Contact(d))
                     /\ WF_vars(FollowupRead(d)) /\ WF_vars(FollowupCommit(d))
                     /\ WF_vars(ArchiveCommit(d))

FairSpec == Spec /\ Fairness

---------------------------------------------------------------------------
(* Properties                                                              *)

Rows == [state : {"PENDING_EXPORT", "ARCHIVED"},
         notification : {"UNRECORDED", "SENT", "FAILED", "NO_TRANSPORT",
                         "NO_DESTINATION", "MANUAL_FOLLOWUP_DONE"},
         dated : BOOLEAN, notes : SUBSET {"_manual_followup", "_archive"},
         consents : SUBSET UNION {{[key |-> c.key, channel |-> c.channel,
                                    version |-> c.version, granted |-> g]
                                   : c \in Cases(s), g \in BOOLEAN} : s \in Sites},
         form : Sites, ticked : SUBSET {f.key : f \in UNION {s.consents : s \in Sites}}]

\* Every variable keeps its type; a lead's number is its age.
TypeOK ==
  /\ site \in Sites /\ page \in Sites \cup {NoForm}
  /\ Lead = 1..Cardinality(Lead) /\ Cardinality(Lead) <= MaxLeads
  /\ \A l \in Lead : rows[l] \in Rows
  /\ \A r \in Request :
       /\ req[r].pc \in {"away", "reading", "refused", "stored",
                         "notified", "created", "unavailable"}
       /\ req[r].lead \in Lead \cup {NoLead}
  /\ \A d \in Desk :
       /\ desk[d].pc \in {"free", "called", "noting", "archiving"}
       /\ desk[d].lead \in Lead \cup {NoLead}
  /\ mailed \subseteq Lead /\ handled \subseteq Lead
  /\ restarts \in 0..MaxRestarts

\* A consent is recorded as granted only where the visitor ticked that box on the
\* form shown to them, however the configuration changed in between
\* (_resolve_consents: an unanswered case is a refusal).
GrantWasTicked ==
  \A l \in Lead : \A c \in rows[l].consents :
    c.granted => /\ c.key \in rows[l].ticked
                 /\ c.key \in {f.key : f \in rows[l].form.consents}

\* The answer tells the truth about the database: 201 only for a row that is there
\* with its notification recorded, a 4xx only when nothing was stored; and no
\* failure to notify turns a stored lead into an error (create_lead).
AnswerIsTrue ==
  \A r \in Request :
    LET l == req[r].lead
    IN /\ req[r].pc = "refused" => l = NoLead
       /\ req[r].pc = "created" => l \in Lead /\ rows[l].dated
                                   /\ rows[l].notification # "UNRECORDED"
       /\ req[r].pc = "unavailable" => restarts > 0 /\ l \in Lead

\* A lead leaves the list of those to call back only because the relay took its
\* notification or a human called (cmd_leads_report, cmd_leads_followup).
OffTheListWasContacted ==
  \A l \in Lead \ Waiting : l \in mailed \cup handled

\* Who called and who archived stay on the lead, also when the outcome of a
\* notification is written after them (`_manual_followup`, `_archive`).  It holds
\* for one terminal at a time: two rewrite the whole note, each from what it read.
NotesAreKept ==
  [][\A l \in Lead : rows[l].notes \subseteq rows'[l].notes]_rows

\* No lead is forgotten: each one stored is notified or called, also when the API
\* died between storing and notifying and when the report does not fit.
EveryLeadIsContacted ==
  \A l \in 1..MaxLeads : (l \in Lead) ~> (l \in mailed \cup handled)
=============================================================================
