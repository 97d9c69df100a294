-------------------------- MODULE LeadIntakeProofs --------------------------
(***************************************************************************)
(* Theorems about LeadIntake, for every set of visits, terminals and       *)
(* configurations, and every number of leads and restarts.                 *)
(***************************************************************************)
EXTENDS LeadIntake, FiniteSetTheorems, TLAPS

-----------------------------------------------------------------------------
(* The invariant                                                           *)

Outcome == {"SENT", "FAILED", "NO_TRANSPORT", "NO_DESTINATION"}

VisitOf(lead) ==
  [pc : {"away", "reading", "refused", "stored", "notified", "created", "unavailable"},
   form : Sites \cup {NoForm}, lead : lead \cup {NoLead}, outcome : Outcome \cup {"NONE"}]

TerminalOf(lead) ==
  [pc : {"free", "called", "noting", "archiving"}, lead : lead \cup {NoLead},
   read : Rows \cup {NoRow}]

\* What a request v holds, by how far it got, when `sent` were mailed.
VisitOK(v, table, sent, n) ==
  /\ v.pc \in {"reading", "refused", "stored", "notified", "unavailable"} => v.form \in Sites
  /\ v.pc \in {"away", "reading", "refused"} => v.lead = NoLead
  /\ v.pc \in {"stored", "notified", "created", "unavailable"} => v.lead \in DOMAIN table
  /\ v.pc = "notified" => /\ v.outcome \in Outcome
                          /\ v.outcome = "SENT" => v.lead \in sent
  /\ v.pc = "created" => /\ table[v.lead].dated
                         /\ table[v.lead].notification # "UNRECORDED"
  /\ v.pc = "unavailable" => n > 0

\* What a terminal t holds: whom it is about to note was called.
TerminalOK(t, table, called) ==
  /\ t.pc # "free" => t.lead \in DOMAIN table
  /\ t.pc \in {"called", "noting"} => t.lead \in called
  /\ t.pc \in {"noting", "archiving"} => t.read \in Rows

\* A granted consent was on the form, and ticked.
Honest(row) ==
  \A c \in row.consents :
    c.granted => c.key \in row.ticked /\ c.key \in {f.key : f \in row.form.consents}

RowOK(l, row, reached) ==
  row \in Rows /\ Honest(row) /\ (row.notification \in Recorded => l \in reached)

\* Rows are numbered by age.
Numbered == \E n \in 0..MaxLeads : Lead = 1..n

RowsOK == \A l \in Lead : RowOK(l, rows[l], mailed \cup handled)
VisitsOK == /\ req \in [Request -> VisitOf(Lead)]
            /\ \A r \in Request : VisitOK(req[r], rows, mailed, restarts)
TerminalsOK == /\ desk \in [Desk -> TerminalOf(Lead)]
               /\ \A d \in Desk : TerminalOK(desk[d], rows, handled)
ConfigOK == site \in Sites /\ page \in Sites \cup {NoForm}
PeopleOK == mailed \subseteq Lead /\ handled \subseteq Lead /\ restarts \in 0..MaxRestarts

Inv == ConfigOK /\ Numbered /\ RowsOK /\ VisitsOK /\ TerminalsOK /\ PeopleOK

-----------------------------------------------------------------------------
(* Rows                                                                    *)

\* A flushed row, column by column.
Flushed(row, old, new, stored) ==
  /\ row \in Rows
  /\ row.state = IF new.state = old.state THEN stored.state ELSE new.state
  /\ row.notification = IF new.notification = old.notification
                        THEN stored.notification ELSE new.notification
  /\ row.dated = IF new.dated = old.dated THEN stored.dated ELSE new.dated
  /\ row.notes = IF new.notes = old.notes THEN stored.notes ELSE new.notes
  /\ new.consents = old.consents => row.consents = stored.consents
  /\ new.form = old.form => row.form = stored.form
  /\ new.ticked = old.ticked => row.ticked = stored.ticked

\* What the two wide columns range over.
ConsentColumn == SUBSET UNION {{[key |-> c.key, channel |-> c.channel,
                                 version |-> c.version, granted |-> g]
                                : c \in Cases(s), g \in BOOLEAN} : s \in Sites}
TickedColumn == SUBSET {f.key : f \in UNION {s.consents : s \in Sites}}

LEMMA Columns ==
  Rows = [state : {"PENDING_EXPORT", "ARCHIVED"},
          notification : {"UNRECORDED", "SENT", "FAILED", "NO_TRANSPORT",
                          "NO_DESTINATION", "MANUAL_FOLLOWUP_DONE"},
          dated : BOOLEAN, notes : SUBSET {"_manual_followup", "_archive"},
          consents : ConsentColumn, form : Sites, ticked : TickedColumn]
  BY DEF Rows, ConsentColumn, TickedColumn

LEMMA FlushedRow ==
  ASSUME NEW old \in Rows, NEW new \in Rows, NEW stored \in Rows
  PROVE  Flushed(Flush(old, new, stored), old, new, stored)
<1> DEFINE columns == {"state", "notification", "dated", "notes", "consents",
                       "form", "ticked"}
           row == [c \in columns |-> IF new[c] = old[c] THEN stored[c] ELSE new[c]]
<1>1. DOMAIN stored = columns
  BY DEF Rows
<1>2. Flush(old, new, stored) = row
  BY <1>1 DEF Flush
<1>3. row \in Rows
  BY DEF Rows
<1>4. Flushed(row, old, new, stored)
  BY <1>3 DEF Flushed
<1> QED BY <1>2, <1>4

\* The three updates of a row: what the notifier, an operator who called and one who
\* archives write of it.
Outdated(row) == [row EXCEPT !.notification = "UNRECORDED", !.dated = FALSE,
                             !.notes = {}, !.state = "PENDING_EXPORT"]
Dated(row, outcome) == [row EXCEPT !.notification = outcome, !.dated = TRUE]
Noted(row) == [row EXCEPT !.notification = "MANUAL_FOLLOWUP_DONE", !.dated = TRUE,
                          !.notes = @ \cup {"_manual_followup"}]
Archived(row) == [row EXCEPT !.state = "ARCHIVED", !.notes = @ \cup {"_archive"}]

\* A row that was written over an earlier one: it is well formed, what its visitor
\* granted is as it was, and its date and its notification are not unwritten.
Succeeds(row, stored) ==
  /\ row \in Rows
  /\ row.consents = stored.consents /\ row.form = stored.form
  /\ row.ticked = stored.ticked
  /\ stored.dated => row.dated
  /\ stored.notification # "UNRECORDED" => row.notification # "UNRECORDED"

LEMMA Outcomes ==
  ASSUME NEW stored \in Rows, NEW outcome \in Outcome
  PROVE  LET row == Flush(Outdated(stored), Dated(Outdated(stored), outcome), stored)
         IN /\ Succeeds(row, stored)
            /\ row.notification = outcome /\ row.dated
            /\ row.notes = stored.notes
<1> DEFINE old == Outdated(stored)
           new == Dated(old, outcome)
           row == Flush(old, new, stored)
<1>1. old \in Rows /\ new \in Rows
  BY Columns DEF Outdated, Dated, Outcome
<1>2. /\ old.notification = "UNRECORDED" /\ old.dated = FALSE
      /\ new.notification = outcome /\ new.dated = TRUE
      /\ new.state = old.state /\ new.notes = old.notes
      /\ new.consents = old.consents /\ new.form = old.form /\ new.ticked = old.ticked
  BY <1>1, Columns DEF Outdated, Dated
<1> HIDE DEF old, new
<1>3. Flushed(row, old, new, stored)
  BY <1>1, FlushedRow
<1> HIDE DEF row
<1>4. /\ Succeeds(row, stored)
      /\ row.notification = outcome /\ row.dated
      /\ row.notes = stored.notes
  BY <1>2, <1>3 DEF Flushed, Succeeds, Outcome
<1> QED BY <1>4 DEF row, old, new

LEMMA Followups ==
  ASSUME NEW stored \in Rows, NEW old \in Rows
  PROVE  LET row == Flush(old, Noted(old), stored)
         IN /\ Succeeds(row, stored)
            /\ row.notification \in {stored.notification, "MANUAL_FOLLOWUP_DONE"}
            /\ old.notes = stored.notes => stored.notes \subseteq row.notes
<1> DEFINE new == Noted(old)
           row == Flush(old, new, stored)
<1>1. new \in Rows
  BY Columns DEF Noted
<1>2. /\ new.notification = "MANUAL_FOLLOWUP_DONE" /\ new.dated = TRUE
      /\ new.state = old.state /\ new.notes = old.notes \cup {"_manual_followup"}
      /\ new.consents = old.consents /\ new.form = old.form /\ new.ticked = old.ticked
  BY <1>1, Columns DEF Noted
<1> HIDE DEF new
<1>3. Flushed(row, old, new, stored)
  BY <1>1, FlushedRow
<1> HIDE DEF row
<1>4. old.dated \in BOOLEAN /\ stored.dated \in BOOLEAN
  BY DEF Rows
<1>5. /\ Succeeds(row, stored)
      /\ row.notification \in {stored.notification, "MANUAL_FOLLOWUP_DONE"}
      /\ old.notes = stored.notes => stored.notes \subseteq row.notes
  BY <1>2, <1>3, <1>4 DEF Flushed, Succeeds
<1> QED BY <1>5 DEF row, new

LEMMA Archivals ==
  ASSUME NEW stored \in Rows, NEW old \in Rows
  PROVE  LET row == Flush(old, Archived(old), stored)
         IN /\ Succeeds(row, stored)
            /\ row.notification = stored.notification
            /\ old.notes = stored.notes => stored.notes \subseteq row.notes
<1> DEFINE new == Archived(old)
           row == Flush(old, new, stored)
<1>1. new \in Rows
  BY Columns DEF Archived
<1>2. /\ new.notification = old.notification /\ new.dated = old.dated
      /\ new.notes = old.notes \cup {"_archive"}
      /\ new.consents = old.consents /\ new.form = old.form /\ new.ticked = old.ticked
  BY <1>1, Columns DEF Archived
<1> HIDE DEF new
<1>3. Flushed(row, old, new, stored)
  BY <1>1, FlushedRow
<1> HIDE DEF row
<1>4. /\ Succeeds(row, stored)
      /\ row.notification = stored.notification
      /\ old.notes = stored.notes => stored.notes \subseteq row.notes
  BY <1>2, <1>3 DEF Flushed, Succeeds
<1> QED BY <1>4 DEF row, new

-----------------------------------------------------------------------------
(* What keeps a visit and a terminal right                                 *)

\* Nothing is forgotten: rows stay and are only written over.
Grown ==
  /\ Lead \subseteq Lead'
  /\ \A l \in Lead : Succeeds(rows'[l], rows[l])
  /\ mailed \subseteq mailed' /\ handled \subseteq handled'
  /\ restarts \in Nat /\ restarts' \in Nat /\ restarts <= restarts'

LEMMA SameRows ==
  ASSUME RowsOK, rows' = rows
  PROVE  Lead' = Lead /\ \A l \in Lead : Succeeds(rows'[l], rows[l])
  BY DEF RowsOK, RowOK, Lead, Succeeds

LEMMA VisitsStay ==
  ASSUME Grown, NEW v \in VisitOf(Lead), VisitOK(v, rows, mailed, restarts)
  PROVE  v \in VisitOf(Lead') /\ VisitOK(v, rows', mailed', restarts')
<1>1. v \in VisitOf(Lead')
  BY DEF Grown, VisitOf
<1>2. v.lead \in Lead => Succeeds(rows'[v.lead], rows[v.lead]) /\ v.lead \in Lead'
  BY DEF Grown
<1> QED BY <1>1, <1>2 DEF Grown, VisitOK, Succeeds, Lead

LEMMA TerminalsStay ==
  ASSUME Grown, NEW t \in TerminalOf(Lead), TerminalOK(t, rows, handled)
  PROVE  t \in TerminalOf(Lead') /\ TerminalOK(t, rows', handled')
  BY DEF Grown, TerminalOf, TerminalOK, Lead

\* A step of one visit, and of one terminal.
LEMMA VisitMoves ==
  ASSUME VisitsOK, Grown, NEW r \in Request, NEW v \in VisitOf(Lead'),
         VisitOK(v, rows', mailed', restarts'), req' = [req EXCEPT ![r] = v]
  PROVE  VisitsOK'
<1>1. ASSUME NEW q \in Request
      PROVE  req'[q] \in VisitOf(Lead') /\ VisitOK(req'[q], rows', mailed', restarts')
  <2>1. CASE q = r
    BY <2>1 DEF VisitsOK
  <2>2. CASE q # r
    BY <2>2, VisitsStay DEF VisitsOK
  <2> QED BY <2>1, <2>2
<1>2. req' \in [Request -> VisitOf(Lead')]
  BY <1>1 DEF VisitsOK
<1> QED BY <1>1, <1>2 DEF VisitsOK

LEMMA VisitsUnmoved ==
  ASSUME VisitsOK, Grown, req' = req
  PROVE  VisitsOK'
  BY VisitsStay DEF VisitsOK

LEMMA TerminalMoves ==
  ASSUME TerminalsOK, Grown, NEW d \in Desk, NEW t \in TerminalOf(Lead'),
         TerminalOK(t, rows', handled'), desk' = [desk EXCEPT ![d] = t]
  PROVE  TerminalsOK'
<1>1. ASSUME NEW e \in Desk
      PROVE  desk'[e] \in TerminalOf(Lead') /\ TerminalOK(desk'[e], rows', handled')
  <2>1. CASE e = d
    BY <2>1 DEF TerminalsOK
  <2>2. CASE e # d
    BY <2>2, TerminalsStay DEF TerminalsOK
  <2> QED BY <2>1, <2>2
<1>2. desk' \in [Desk -> TerminalOf(Lead')]
  BY <1>1 DEF TerminalsOK
<1> QED BY <1>1, <1>2 DEF TerminalsOK

LEMMA TerminalsUnmoved ==
  ASSUME TerminalsOK, Grown, desk' = desk
  PROVE  TerminalsOK'
  BY TerminalsStay DEF TerminalsOK

\* A row is written over.
LEMMA RowWritten ==
  ASSUME Inv, NEW l \in Lead, NEW row, Succeeds(row, rows[l]),
         rows' = [rows EXCEPT ![l] = row],
         UNCHANGED <<mailed, handled, restarts>>,
         row.notification \in Recorded => l \in mailed \cup handled
  PROVE  Grown /\ Lead' = Lead /\ RowsOK' /\ Numbered' /\ PeopleOK'
<1>1. Lead' = Lead
  BY DEF Lead
<1>2. \A k \in Lead : rows'[k] = IF k = l THEN row ELSE rows[k]
  BY DEF Lead
<1>3. \A k \in Lead : Succeeds(rows'[k], rows[k])
  BY <1>2 DEF Inv, RowsOK, RowOK, Succeeds
<1>4. \A k \in Lead : RowOK(k, rows'[k], mailed \cup handled)
  BY <1>2, <1>3 DEF Inv, RowsOK, RowOK, Succeeds, Honest, Recorded
<1>5. restarts \in Nat
  BY LimitsAssumption DEF Inv, PeopleOK
<1>6. Grown
  BY <1>1, <1>3, <1>5 DEF Grown
<1>7. RowsOK'
  BY <1>1, <1>4 DEF RowsOK
<1>8. Numbered' /\ PeopleOK'
  BY <1>1 DEF Inv, Numbered, PeopleOK
<1> QED BY <1>1, <1>6, <1>7, <1>8

-----------------------------------------------------------------------------
(* What a visitor grants                                                   *)

LEMMA WhatIsPosted ==
  ASSUME NEW f \in Sites, NEW sub \in Submissions(f)
  PROVE  /\ sub.offered = {c.key : c \in f.consents}
         /\ sub.ticked \subseteq sub.offered /\ sub.booleans \subseteq sub.ticked
  BY DEF Submissions

LEMMA GrantedIsTicked ==
  ASSUME NEW f \in Sites, NEW sub \in Submissions(f), NEW case, Granted(sub, case)
  PROVE  case.key \in sub.ticked /\ case.key \in {c.key : c \in f.consents}
  BY WhatIsPosted DEF Granted

LEMMA ConsentsRecorded ==
  ASSUME NEW f \in Sites, NEW sub \in Submissions(f), NEW s \in Sites
  PROVE  /\ Consents(sub, s) \in ConsentColumn
         /\ sub.ticked \in TickedColumn
         /\ \A c \in Consents(sub, s) :
              c.granted => c.key \in sub.ticked /\ c.key \in {b.key : b \in f.consents}
<1>1. ASSUME NEW case
      PROVE  Granted(sub, case) \in BOOLEAN
  <2>1. CASE case.key \in sub.offered
    BY <2>1 DEF Granted
  <2>2. CASE case.key \notin sub.offered
    BY <2>2 DEF Granted
  <2> QED BY <2>1, <2>2
<1>2. Consents(sub, s) \in ConsentColumn
  BY <1>1 DEF Consents, ConsentColumn
<1>3. sub.ticked \in TickedColumn
  BY WhatIsPosted DEF TickedColumn
<1>4. ASSUME NEW c \in Consents(sub, s), c.granted
      PROVE  c.key \in sub.ticked /\ c.key \in {b.key : b \in f.consents}
  <2>1. PICK case \in Cases(s) :
          c = [key |-> case.key, channel |-> case.channel, version |-> case.version,
               granted |-> Granted(sub, case)]
    BY DEF Consents
  <2>2. c.granted = Granted(sub, case) /\ c.key = case.key
    BY <2>1
  <2>3. Granted(sub, case)
    BY <1>4, <2>2
  <2> QED BY <2>2, <2>3, GrantedIsTicked
<1> QED BY <1>2, <1>3, <1>4

-----------------------------------------------------------------------------
(* Every step keeps the invariant                                          *)

LEMMA InitInv == Init => Inv
<1> SUFFICES ASSUME Init PROVE Inv
  OBVIOUS
<1>1. Lead = {} /\ Lead = 1..0
  BY DEF Init, Lead
<1>2. ConfigOK
  BY DEF Init, ConfigOK
<1>3. Numbered /\ PeopleOK /\ RowsOK
  BY <1>1, LimitsAssumption DEF Init, Numbered, PeopleOK, RowsOK
<1>4. VisitsOK
  BY DEF Init, VisitsOK, VisitOf, VisitOK
<1>5. TerminalsOK
  BY DEF Init, TerminalsOK, TerminalOf, TerminalOK
<1> QED BY <1>2, <1>3, <1>4, <1>5 DEF Inv

\* Where neither rows nor people change, everything stays.
LEMMA NothingWritten ==
  ASSUME Inv, rows' = rows, mailed \subseteq mailed', handled \subseteq handled',
         mailed' \subseteq Lead, handled' \subseteq Lead,
         restarts' \in 0..MaxRestarts, restarts <= restarts'
  PROVE  Grown /\ Lead' = Lead /\ RowsOK' /\ Numbered' /\ PeopleOK'
<1>1. Lead' = Lead /\ \A l \in Lead : Succeeds(rows'[l], rows[l])
  BY SameRows DEF Inv
<1>2. Grown
  BY <1>1, LimitsAssumption DEF Grown, Inv, PeopleOK
<1>3. RowsOK'
  BY <1>1, <1>2 DEF Inv, RowsOK, RowOK, Grown
<1>4. Numbered' /\ PeopleOK'
  BY <1>1 DEF Inv, Numbered, PeopleOK
<1> QED BY <1>1, <1>2, <1>3, <1>4

LEMMA OpenFormInv ==
  ASSUME Inv, NEW r \in Request, OpenForm(r)
  PROVE  Inv'
<1> DEFINE v == [req[r] EXCEPT !.pc = "reading", !.form = page']
<1>1. Grown /\ Lead' = Lead /\ RowsOK' /\ Numbered' /\ PeopleOK'
  BY NothingWritten DEF OpenForm, Inv, PeopleOK
<1>2. ConfigOK' /\ page' \in Sites
  BY DEF OpenForm, Inv, ConfigOK
<1>3. req[r] \in VisitOf(Lead) /\ req[r].pc = "away" /\ req[r].lead = NoLead
  BY DEF OpenForm, Inv, VisitsOK, VisitOK
<1>4. v \in VisitOf(Lead') /\ VisitOK(v, rows', mailed', restarts')
  BY <1>1, <1>2, <1>3 DEF VisitOf, VisitOK
<1>5. req' = [req EXCEPT ![r] = v]
  BY DEF OpenForm, Inv, VisitsOK, VisitOf
<1> HIDE DEF v
<1>6. VisitsOK'
  BY <1>1, <1>4, <1>5, VisitMoves DEF Inv
<1>7. TerminalsOK'
  BY <1>1, TerminalsUnmoved DEF OpenForm, Inv
<1> QED BY <1>1, <1>2, <1>6, <1>7 DEF Inv

LEMMA RefusedInv ==
  ASSUME Inv, NEW r \in Request, NEW sub, req[r].pc = "reading", Refused(r, sub),
         UNCHANGED <<site, page, desk, mailed, handled, restarts>>
  PROVE  Inv'
<1> DEFINE v == [req[r] EXCEPT !.pc = "refused"]
<1>1. Grown /\ Lead' = Lead /\ RowsOK' /\ Numbered' /\ PeopleOK'
  BY NothingWritten DEF Refused, Inv, PeopleOK
<1>2. ConfigOK'
  BY DEF Inv, ConfigOK
<1>3. req[r] \in VisitOf(Lead) /\ req[r].lead = NoLead /\ req[r].form \in Sites
  BY DEF Inv, VisitsOK, VisitOK
<1>4. v \in VisitOf(Lead') /\ VisitOK(v, rows', mailed', restarts')
  BY <1>1, <1>3 DEF VisitOf, VisitOK
<1>5. req' = [req EXCEPT ![r] = v]
  BY DEF Refused, Inv, VisitsOK, VisitOf
<1> HIDE DEF v
<1>6. VisitsOK'
  BY <1>1, <1>4, <1>5, VisitMoves DEF Inv
<1>7. TerminalsOK'
  BY <1>1, TerminalsUnmoved DEF Inv
<1> QED BY <1>1, <1>2, <1>6, <1>7 DEF Inv

\* The row of a lead that is stored.
LEMMA StoredRow ==
  ASSUME NEW f \in Sites, NEW sub \in Submissions(f), NEW s \in Sites, NEW l
  PROVE  LET row == [NoRow EXCEPT !.state = "PENDING_EXPORT",
                       !.notification = "UNRECORDED", !.consents = Consents(sub, s),
                       !.form = f, !.ticked = sub.ticked]
         IN RowOK(l, row, mailed \cup handled)
<1> DEFINE row == [NoRow EXCEPT !.state = "PENDING_EXPORT",
                     !.notification = "UNRECORDED", !.consents = Consents(sub, s),
                     !.form = f, !.ticked = sub.ticked]
<1>1. NoRow \in [state : {"NONE"}, notification : {"NONE"}, dated : BOOLEAN,
                  notes : SUBSET {"_manual_followup", "_archive"},
                  consents : {{}}, form : {NoForm}, ticked : {{}}]
  BY DEF NoRow
<1>2. /\ row \in Rows /\ row.consents = Consents(sub, s) /\ row.form = f
      /\ row.ticked = sub.ticked /\ row.notification = "UNRECORDED"
  BY <1>1, Columns, ConsentsRecorded
<1> HIDE DEF row
<1>4. Honest(row)
  BY <1>2, ConsentsRecorded DEF Honest
<1>5. RowOK(l, row, mailed \cup handled)
  BY <1>2, <1>4 DEF RowOK, Recorded
<1> QED BY <1>5 DEF row

LEMMA StoredInv ==
  ASSUME Inv, NEW r \in Request, NEW sub \in Submissions(req[r].form),
         req[r].pc = "reading", Stored(r, sub),
         UNCHANGED <<site, page, desk, mailed, handled, restarts>>
  PROVE  Inv'
<1>1. PICK n \in 0..MaxLeads : Lead = 1..n
  BY DEF Inv, Numbered
<1>2. n \in Nat /\ Cardinality(Lead) = n
  BY <1>1, FS_Interval, LimitsAssumption
<1> DEFINE l == n + 1
           row == [NoRow EXCEPT !.state = "PENDING_EXPORT",
                     !.notification = "UNRECORDED", !.consents = Consents(sub, site),
                     !.form = req[r].form, !.ticked = sub.ticked]
           v == [req[r] EXCEPT !.pc = "stored", !.lead = l]
<1>3. /\ n < MaxLeads
      /\ rows' = [k \in Lead \cup {l} |-> IF k = l THEN row ELSE rows[k]]
      /\ req' = [req EXCEPT ![r].pc = "stored", ![r].lead = l]
  BY <1>2 DEF Stored
<1>4. req[r] \in VisitOf(Lead) /\ req[r].form \in Sites
  BY DEF Inv, VisitsOK, VisitOK
<1>5. RowOK(l, row, mailed \cup handled)
  BY <1>4, StoredRow DEF Inv, ConfigOK
<1>6. req' = [req EXCEPT ![r] = v]
  BY <1>3 DEF Inv, VisitsOK, VisitOf
<1>7. v \in VisitOf(Lead \cup {l}) /\ v.pc = "stored" /\ v.lead = l
      /\ v.form = req[r].form
  BY <1>4 DEF VisitOf
<1> HIDE DEF row, v
<1>8. /\ Lead' = Lead \cup {l} /\ l \notin Lead /\ Lead' = 1..l
      /\ \A k \in Lead' : rows'[k] = IF k = l THEN row ELSE rows[k]
  BY <1>1, <1>2, <1>3 DEF Lead
<1>9. Numbered'
  BY <1>2, <1>3, <1>8, LimitsAssumption DEF Numbered
<1>10. RowsOK'
  BY <1>5, <1>8 DEF Inv, RowsOK
<1>11. Grown
  BY <1>8, LimitsAssumption DEF Inv, RowsOK, RowOK, Succeeds, Grown, PeopleOK
<1>12. PeopleOK' /\ ConfigOK'
  BY <1>8 DEF Inv, PeopleOK, ConfigOK
<1>13. VisitOK(v, rows', mailed', restarts')
  BY <1>4, <1>7, <1>8 DEF VisitOK, Lead
<1>14. VisitsOK'
  BY <1>6, <1>7, <1>8, <1>11, <1>13, VisitMoves DEF Inv
<1>15. TerminalsOK'
  BY <1>11, TerminalsUnmoved DEF Inv
<1> QED BY <1>9, <1>10, <1>12, <1>14, <1>15 DEF Inv

LEMMA NotifyInv ==
  ASSUME Inv, NEW r \in Request, Notify(r)
  PROVE  Inv'
<1>1. PICK n \in Notices(site) :
        /\ req' = [req EXCEPT ![r].pc = "notified", ![r].outcome = n[1]]
        /\ mailed' = IF n[2] THEN mailed \cup {req[r].lead} ELSE mailed
  BY DEF Notify
<1> DEFINE v == [req[r] EXCEPT !.pc = "notified", !.outcome = n[1]]
<1>2. n[1] \in Outcome /\ (n[1] = "SENT" => n[2] = TRUE)
  <2>1. \/ n = <<"NO_DESTINATION", FALSE>> \/ n = <<"NO_TRANSPORT", FALSE>>
        \/ n = <<"SENT", TRUE>> \/ n = <<"FAILED", TRUE>> \/ n = <<"FAILED", FALSE>>
    BY DEF Notices
  <2>2. /\ <<"NO_DESTINATION", FALSE>>[1] = "NO_DESTINATION"
        /\ <<"NO_TRANSPORT", FALSE>>[1] = "NO_TRANSPORT"
        /\ <<"FAILED", TRUE>>[1] = "FAILED" /\ <<"FAILED", FALSE>>[1] = "FAILED"
        /\ <<"SENT", TRUE>>[1] = "SENT"
    OBVIOUS
  <2>3. n[1] \in Outcome /\ (n[1] = "SENT" => n = <<"SENT", TRUE>>)
    BY <2>1, <2>2 DEF Outcome
  <2>4. n = <<"SENT", TRUE>> => n[2] = TRUE
    OBVIOUS
  <2> QED BY <2>3, <2>4
<1>3. req[r] \in VisitOf(Lead) /\ req[r].form \in Sites /\ req[r].lead \in Lead
  BY DEF Notify, Inv, VisitsOK, VisitOK, Lead
<1>4. Grown /\ Lead' = Lead /\ RowsOK' /\ Numbered' /\ PeopleOK'
  BY <1>1, <1>3, NothingWritten DEF Notify, Inv, PeopleOK
<1>5. ConfigOK'
  BY DEF Notify, Inv, ConfigOK
<1>6. n[1] = "SENT" => req[r].lead \in mailed'
  BY <1>1, <1>2
<1>7. v \in VisitOf(Lead') /\ VisitOK(v, rows', mailed', restarts')
  BY <1>2, <1>3, <1>4, <1>6 DEF VisitOf, VisitOK, Lead
<1>8. req' = [req EXCEPT ![r] = v]
  BY <1>1 DEF Inv, VisitsOK, VisitOf
<1> HIDE DEF v
<1>9. VisitsOK'
  BY <1>4, <1>7, <1>8, VisitMoves DEF Inv
<1>10. TerminalsOK'
  BY <1>4, TerminalsUnmoved DEF Notify, Inv
<1> QED BY <1>4, <1>5, <1>9, <1>10 DEF Inv

LEMMA RecordOutcomeInv ==
  ASSUME Inv, NEW r \in Request, RecordOutcome(r)
  PROVE  Inv'
<1> DEFINE l == req[r].lead
           outcome == req[r].outcome
           row == Flush(Outdated(rows[l]), Dated(Outdated(rows[l]), outcome), rows[l])
           v == [req[r] EXCEPT !.pc = "created", !.form = NoForm]
<1>1. /\ req[r] \in VisitOf(Lead) /\ l \in Lead /\ outcome \in Outcome
      /\ outcome = "SENT" => l \in mailed
  BY DEF RecordOutcome, Inv, VisitsOK, VisitOK, Lead
<1>2. rows[l] \in Rows
  BY <1>1 DEF Inv, RowsOK, RowOK
<1>3. rows' = [rows EXCEPT ![l] = row]
  BY DEF RecordOutcome, Outdated, Dated
<1>4. Succeeds(row, rows[l]) /\ row.notification = outcome /\ row.dated
  BY <1>1, <1>2, Outcomes
<1>5. req' = [req EXCEPT ![r] = v]
  BY DEF RecordOutcome, Inv, VisitsOK, VisitOf
<1>6. v \in VisitOf(Lead) /\ v.pc = "created" /\ v.lead = l
  BY <1>1 DEF VisitOf
<1> HIDE DEF row, v
<1>7. Grown /\ Lead' = Lead /\ RowsOK' /\ Numbered' /\ PeopleOK'
  <2>1. row.notification \in Recorded => l \in mailed \cup handled
    BY <1>1, <1>4 DEF Outcome, Recorded
  <2> QED BY <1>1, <1>3, <1>4, <2>1, RowWritten DEF RecordOutcome
<1>8. ConfigOK'
  BY DEF RecordOutcome, Inv, ConfigOK
<1>9. rows'[l] = row
  BY <1>1, <1>3 DEF Lead
<1>10. VisitOK(v, rows', mailed', restarts')
  BY <1>1, <1>4, <1>6, <1>7, <1>9 DEF VisitOK, Outcome, Lead
<1>11. VisitsOK'
  BY <1>5, <1>6, <1>7, <1>10, VisitMoves DEF Inv
<1>12. TerminalsOK'
  BY <1>7, TerminalsUnmoved DEF RecordOutcome, Inv
<1> QED BY <1>7, <1>8, <1>11, <1>12 DEF Inv

LEMMA ResubmitInv ==
  ASSUME Inv, NEW r \in Request, Resubmit(r)
  PROVE  Inv'
<1> DEFINE v == [req[r] EXCEPT !.pc = "reading", !.lead = NoLead, !.outcome = "NONE"]
<1>1. Grown /\ Lead' = Lead /\ RowsOK' /\ Numbered' /\ PeopleOK'
  BY NothingWritten DEF Resubmit, Inv, PeopleOK
<1>2. ConfigOK'
  BY DEF Resubmit, Inv, ConfigOK
<1>3. req[r] \in VisitOf(Lead) /\ req[r].form \in Sites
  BY DEF Resubmit, Inv, VisitsOK, VisitOK
<1>4. v \in VisitOf(Lead') /\ VisitOK(v, rows', mailed', restarts')
  BY <1>1, <1>3 DEF VisitOf, VisitOK
<1>5. req' = [req EXCEPT ![r] = v]
  BY DEF Resubmit, Inv, VisitsOK, VisitOf
<1> HIDE DEF v
<1>6. VisitsOK'
  BY <1>1, <1>4, <1>5, VisitMoves DEF Inv
<1>7. TerminalsOK'
  BY <1>1, TerminalsUnmoved DEF Resubmit, Inv
<1> QED BY <1>1, <1>2, <1>6, <1>7 DEF Inv

LEMMA RestartInv ==
  ASSUME Inv, Restart
  PROVE  Inv'
<1>1. restarts' \in 0..MaxRestarts /\ restarts <= restarts' /\ restarts' > 0
  BY LimitsAssumption DEF Restart, Inv, PeopleOK
<1>2. Grown /\ Lead' = Lead /\ RowsOK' /\ Numbered' /\ PeopleOK'
  BY <1>1, NothingWritten DEF Restart, Inv, PeopleOK
<1>3. ConfigOK'
  BY DEF Restart, Inv, ConfigOK
<1>4. ASSUME NEW r \in Request
      PROVE  req'[r] \in VisitOf(Lead') /\ VisitOK(req'[r], rows', mailed', restarts')
  <2>1. req[r] \in VisitOf(Lead) /\ VisitOK(req[r], rows, mailed, restarts)
    BY DEF Inv, VisitsOK
  <2>2. CASE req[r].pc \in {"stored", "notified"}
    <3> DEFINE v == [req[r] EXCEPT !.pc = "unavailable"]
    <3>1. req'[r] = v
      BY <2>2 DEF Restart
    <3>2. v \in VisitOf(Lead') /\ v.pc = "unavailable" /\ v.form = req[r].form
          /\ v.lead = req[r].lead
      BY <1>2, <2>1 DEF VisitOf
    <3>3. VisitOK(v, rows', mailed', restarts')
      BY <1>1, <1>2, <2>1, <2>2, <3>2 DEF VisitOK, Lead
    <3> QED BY <3>1, <3>2, <3>3
  <2>3. CASE req[r].pc \notin {"stored", "notified"}
    <3>1. req'[r] = req[r]
      BY <2>3 DEF Restart
    <3> QED BY <1>2, <2>1, <3>1, VisitsStay
  <2> QED BY <2>2, <2>3
<1>5. VisitsOK'
  <2>1. req' = [r \in Request |-> req'[r]]
    BY DEF Restart
  <2> QED BY <1>4, <2>1 DEF VisitsOK
<1>6. TerminalsOK'
  BY <1>2, TerminalsUnmoved DEF Restart, Inv
<1> QED BY <1>2, <1>3, <1>5, <1>6 DEF Inv

LEMMA ContactInv ==
  ASSUME Inv, NEW d \in Desk, Contact(d)
  PROVE  Inv'
<1>1. PICK l \in Report : /\ desk' = [desk EXCEPT ![d].pc = "called", ![d].lead = l]
                          /\ handled' = handled \cup {l}
  BY DEF Contact
<1> DEFINE t == [desk[d] EXCEPT !.pc = "called", !.lead = l]
<1>2. l \in Lead
  BY DEF Report, Waiting
<1>3. Grown /\ Lead' = Lead /\ RowsOK' /\ Numbered' /\ PeopleOK'
  BY <1>1, <1>2, NothingWritten DEF Contact, Inv, PeopleOK
<1>4. ConfigOK' /\ VisitsOK'
  BY <1>3, VisitsUnmoved DEF Contact, Inv, ConfigOK
<1>5. desk[d] \in TerminalOf(Lead)
  BY DEF Inv, TerminalsOK
<1>6. desk' = [desk EXCEPT ![d] = t]
  BY <1>1 DEF Inv, TerminalsOK, TerminalOf
<1>7. t \in TerminalOf(Lead') /\ TerminalOK(t, rows', handled')
  BY <1>1, <1>2, <1>3, <1>5 DEF TerminalOf, TerminalOK, Lead
<1> HIDE DEF t
<1>8. TerminalsOK'
  BY <1>3, <1>6, <1>7, TerminalMoves DEF Inv
<1> QED BY <1>3, <1>4, <1>8 DEF Inv

LEMMA FollowupReadInv ==
  ASSUME Inv, NEW d \in Desk, FollowupRead(d)
  PROVE  Inv'
<1> DEFINE t == [desk[d] EXCEPT !.pc = "noting", !.read = rows[desk[d].lead]]
<1>1. Grown /\ Lead' = Lead /\ RowsOK' /\ Numbered' /\ PeopleOK'
  BY NothingWritten DEF FollowupRead, Inv, PeopleOK
<1>2. ConfigOK' /\ VisitsOK'
  BY <1>1, VisitsUnmoved DEF FollowupRead, Inv, ConfigOK
<1>3. /\ desk[d] \in TerminalOf(Lead) /\ desk[d].lead \in Lead
      /\ desk[d].lead \in handled
  BY DEF FollowupRead, Inv, TerminalsOK, TerminalOK, Lead
<1>4. rows[desk[d].lead] \in Rows
  BY <1>3 DEF Inv, RowsOK, RowOK
<1>5. desk' = [desk EXCEPT ![d] = t]
  BY DEF FollowupRead, Inv, TerminalsOK, TerminalOf
<1>6. t \in TerminalOf(Lead') /\ TerminalOK(t, rows', handled')
  BY <1>1, <1>3, <1>4 DEF FollowupRead, TerminalOf, TerminalOK, Lead
<1> HIDE DEF t
<1>7. TerminalsOK'
  BY <1>1, <1>5, <1>6, TerminalMoves DEF Inv
<1> QED BY <1>1, <1>2, <1>7 DEF Inv

\* A command that commits leaves its terminal free.
Free == [pc |-> "free", lead |-> NoLead, read |-> NoRow]

LEMMA FreeIsTerminal ==
  /\ \A leads : Free \in TerminalOf(leads)
  /\ \A table, called : TerminalOK(Free, table, called)
  BY DEF Free, TerminalOf, TerminalOK

LEMMA FollowupCommitInv ==
  ASSUME Inv, NEW d \in Desk, FollowupCommit(d)
  PROVE  Inv'
<1> DEFINE l == desk[d].lead
           old == desk[d].read
           row == Flush(old, Noted(old), rows[l])
<1>1. l \in Lead /\ l \in handled /\ old \in Rows
  BY DEF FollowupCommit, Inv, TerminalsOK, TerminalOK, Lead
<1>2. rows[l] \in Rows /\ (rows[l].notification \in Recorded => l \in mailed \cup handled)
  BY <1>1 DEF Inv, RowsOK, RowOK
<1>3. rows' = [rows EXCEPT ![l] = row] /\ desk' = [desk EXCEPT ![d] = Free]
  BY DEF FollowupCommit, Noted, Free
<1>4. Succeeds(row, rows[l])
  BY <1>1, <1>2, Followups
<1> HIDE DEF row
<1>5. Grown /\ Lead' = Lead /\ RowsOK' /\ Numbered' /\ PeopleOK'
  BY <1>1, <1>3, <1>4, RowWritten DEF FollowupCommit
<1>6. ConfigOK' /\ VisitsOK'
  BY <1>5, VisitsUnmoved DEF FollowupCommit, Inv, ConfigOK
<1>7. TerminalsOK'
  BY <1>3, <1>5, TerminalMoves, FreeIsTerminal DEF Inv
<1> QED BY <1>5, <1>6, <1>7 DEF Inv

LEMMA ArchiveReadInv ==
  ASSUME Inv, NEW d \in Desk, ArchiveRead(d)
  PROVE  Inv'
<1>1. PICK l \in Lead :
        desk' = [desk EXCEPT ![d] = [pc |-> "archiving", lead |-> l, read |-> rows[l]]]
  BY DEF ArchiveRead
<1> DEFINE t == [pc |-> "archiving", lead |-> l, read |-> rows[l]]
<1>2. Grown /\ Lead' = Lead /\ RowsOK' /\ Numbered' /\ PeopleOK'
  BY NothingWritten DEF ArchiveRead, Inv, PeopleOK
<1>3. ConfigOK' /\ VisitsOK'
  BY <1>2, VisitsUnmoved DEF ArchiveRead, Inv, ConfigOK
<1>4. rows[l] \in Rows
  BY DEF Inv, RowsOK, RowOK
<1>5. t \in TerminalOf(Lead') /\ TerminalOK(t, rows', handled')
  BY <1>2, <1>4 DEF TerminalOf, TerminalOK, Lead
<1> HIDE DEF t
<1>6. desk' = [desk EXCEPT ![d] = t]
  BY <1>1 DEF t
<1>7. TerminalsOK'
  BY <1>2, <1>5, <1>6, TerminalMoves DEF Inv
<1> QED BY <1>2, <1>3, <1>7 DEF Inv

LEMMA ArchiveCommitInv ==
  ASSUME Inv, NEW d \in Desk, ArchiveCommit(d)
  PROVE  Inv'
<1> DEFINE l == desk[d].lead
           old == desk[d].read
           row == Flush(old, Archived(old), rows[l])
<1>1. l \in Lead /\ old \in Rows
  BY DEF ArchiveCommit, Inv, TerminalsOK, TerminalOK, Lead
<1>2. rows[l] \in Rows /\ (rows[l].notification \in Recorded => l \in mailed \cup handled)
  BY <1>1 DEF Inv, RowsOK, RowOK
<1>3. rows' = [rows EXCEPT ![l] = row] /\ desk' = [desk EXCEPT ![d] = Free]
  BY DEF ArchiveCommit, Archived, Free
<1>4. Succeeds(row, rows[l]) /\ row.notification = rows[l].notification
  BY <1>1, <1>2, Archivals
<1> HIDE DEF row
<1>5. Grown /\ Lead' = Lead /\ RowsOK' /\ Numbered' /\ PeopleOK'
  BY <1>1, <1>2, <1>3, <1>4, RowWritten DEF ArchiveCommit
<1>6. ConfigOK' /\ VisitsOK'
  BY <1>5, VisitsUnmoved DEF ArchiveCommit, Inv, ConfigOK
<1>7. TerminalsOK'
  BY <1>3, <1>5, TerminalMoves, FreeIsTerminal DEF Inv
<1> QED BY <1>5, <1>6, <1>7 DEF Inv

LEMMA NextInv ==
  ASSUME Inv, [Next]_vars
  PROVE  Inv'
<1>1. ASSUME NEW r \in Request, Submit(r) PROVE Inv'
  BY <1>1, RefusedInv, StoredInv DEF Submit
<1>2. CASE UNCHANGED vars
  <2>1. UNCHANGED <<site, page, rows, req, desk, mailed, handled, restarts>>
    BY <1>2 DEF vars
  <2>2. Grown /\ Lead' = Lead /\ RowsOK' /\ Numbered' /\ PeopleOK'
    BY <2>1, NothingWritten DEF Inv, PeopleOK
  <2> QED BY <2>1, <2>2, VisitsUnmoved, TerminalsUnmoved DEF Inv, ConfigOK
<1> QED
  BY <1>1, <1>2, OpenFormInv, NotifyInv, RecordOutcomeInv, ResubmitInv, RestartInv,
     ContactInv, FollowupReadInv, FollowupCommitInv, ArchiveReadInv, ArchiveCommitInv
     DEF Next, RequestStep, DeskStep

LEMMA AlwaysInv == Spec => []Inv
  BY InitInv, NextInv, PTL DEF Spec

-----------------------------------------------------------------------------
(* Theorems                                                                *)

\* Every variable keeps its type, and a lead's number is its age, for any number of
\* visits, terminals, leads and deployments.
THEOREM TypeCorrect == Spec => []TypeOK
<1>1. ASSUME Inv PROVE TypeOK
  <2>1. PICK n \in 0..MaxLeads : Lead = 1..n
    BY <1>1 DEF Inv, Numbered
  <2>2. n \in Nat /\ n <= MaxLeads /\ Cardinality(Lead) = n
    BY <2>1, FS_Interval, LimitsAssumption
  <2>3. \A l \in Lead : rows[l] \in Rows
    BY <1>1 DEF Inv, RowsOK, RowOK
  <2>4. \A r \in Request :
          /\ req[r].pc \in {"away", "reading", "refused", "stored",
                            "notified", "created", "unavailable"}
          /\ req[r].lead \in Lead \cup {NoLead}
    BY <1>1 DEF Inv, VisitsOK, VisitOf
  <2>5. \A d \in Desk :
          /\ desk[d].pc \in {"free", "called", "noting", "archiving"}
          /\ desk[d].lead \in Lead \cup {NoLead}
    BY <1>1 DEF Inv, TerminalsOK, TerminalOf
  <2> QED BY <1>1, <2>1, <2>2, <2>3, <2>4, <2>5 DEF TypeOK, Inv, ConfigOK, PeopleOK
<1> QED BY <1>1, AlwaysInv, PTL

\* A consent is recorded as granted only where its visitor ticked it on the form they
\* read, whatever configurations the API was started with in between.
THEOREM GrantsAreTicked == Spec => []GrantWasTicked
<1>1. Inv => GrantWasTicked
  BY DEF Inv, RowsOK, RowOK, Honest, GrantWasTicked
<1> QED BY <1>1, AlwaysInv, PTL

\* What the visitor is answered is true of the database, whatever the relay does and
\* however often the API dies, also after operators have written the row.
THEOREM AnswersAreTrue == Spec => []AnswerIsTrue
<1>1. ASSUME Inv PROVE AnswerIsTrue
  <2>1. \A r \in Request : VisitOK(req[r], rows, mailed, restarts)
    BY <1>1 DEF Inv, VisitsOK
  <2> QED BY <2>1 DEF VisitOK, AnswerIsTrue, Lead
<1> QED BY <1>1, AlwaysInv, PTL

\* Nobody leaves the list of those to call back without having been reached.
THEOREM NobodyIsLost == Spec => []OffTheListWasContacted
<1>1. Inv => OffTheListWasContacted
  BY DEF Inv, RowsOK, RowOK, OffTheListWasContacted, Waiting
<1> QED BY <1>1, AlwaysInv, PTL

-----------------------------------------------------------------------------
(* With one terminal, what a command read of the notes is what the row     *)
(* holds when it commits.  With two it is not: follow-up and archival each *)
(* write the whole qualification.                                          *)

SingleDesk == \A d, e \in Desk : d = e

NotesAgree ==
  \A d \in Desk : desk[d].pc \in {"noting", "archiving"} =>
                    desk[d].read.notes = rows[desk[d].lead].notes

NotesKept == \A l \in Lead : rows[l].notes \subseteq rows'[l].notes

LEMMA NotesUnwritten ==
  ASSUME Inv, NotesAgree, desk' = desk, \A l \in Lead : rows'[l].notes = rows[l].notes
  PROVE  NotesAgree' /\ NotesKept
<1>1. \A d \in Desk : desk[d].pc # "free" => desk[d].lead \in Lead
  BY DEF Inv, TerminalsOK, TerminalOK, Lead
<1> QED BY <1>1 DEF NotesAgree, NotesKept

LEMMA NotesStep ==
  ASSUME SingleDesk, Inv, NotesAgree, [Next]_vars
  PROVE  NotesAgree' /\ NotesKept
<1>1. ASSUME NEW r \in Request, Submit(r) PROVE NotesAgree' /\ NotesKept
  <2>1. \A l \in Lead : rows'[l] = rows[l]
    <3>1. PICK n \in 0..MaxLeads : Lead = 1..n
      BY DEF Inv, Numbered
    <3>2. Cardinality(Lead) = n /\ n \in Nat
      BY <3>1, FS_Interval, LimitsAssumption
    <3>3. PICK sub \in Submissions(req[r].form) : Refused(r, sub) \/ Stored(r, sub)
      BY <1>1 DEF Submit
    <3>4. CASE Refused(r, sub)
      BY <3>4 DEF Refused
    <3>5. CASE Stored(r, sub)
      BY <3>1, <3>2, <3>5 DEF Stored
    <3> QED BY <3>3, <3>4, <3>5
  <2> QED BY <1>1, <2>1, NotesUnwritten DEF Submit
<1>2. ASSUME NEW r \in Request, RecordOutcome(r) PROVE NotesAgree' /\ NotesKept
  <2> DEFINE l == req[r].lead
             row == Flush(Outdated(rows[l]), Dated(Outdated(rows[l]), req[r].outcome),
                          rows[l])
  <2>1. l \in Lead /\ req[r].outcome \in Outcome /\ rows[l] \in Rows
    BY <1>2 DEF RecordOutcome, Inv, VisitsOK, VisitOK, Lead, RowsOK, RowOK
  <2>2. rows' = [rows EXCEPT ![l] = row]
    BY <1>2 DEF RecordOutcome, Outdated, Dated
  <2>3. row.notes = rows[l].notes
    BY <2>1, Outcomes
  <2> HIDE DEF row
  <2>4. \A k \in Lead : rows'[k].notes = rows[k].notes
    BY <2>2, <2>3 DEF Lead
  <2> QED BY <1>2, <2>4, NotesUnwritten DEF RecordOutcome
<1>3. CASE UNCHANGED <<rows, desk>>
  BY <1>3, NotesUnwritten
<1>4. ASSUME NEW d \in Desk, Contact(d) PROVE NotesAgree' /\ NotesKept
  BY <1>4 DEF Contact, SingleDesk, Inv, TerminalsOK, TerminalOf, NotesAgree, NotesKept
<1>5. ASSUME NEW d \in Desk, FollowupRead(d) PROVE NotesAgree' /\ NotesKept
  BY <1>5 DEF FollowupRead, SingleDesk, Inv, TerminalsOK, TerminalOf, NotesAgree, NotesKept
<1>6. ASSUME NEW d \in Desk, ArchiveRead(d) PROVE NotesAgree' /\ NotesKept
  BY <1>6 DEF ArchiveRead, SingleDesk, Inv, TerminalsOK, TerminalOf, NotesAgree, NotesKept
<1>7. ASSUME NEW d \in Desk, FollowupCommit(d) PROVE NotesAgree' /\ NotesKept
  <2> DEFINE l == desk[d].lead
             old == desk[d].read
             row == Flush(old, Noted(old), rows[l])
  <2>1. l \in Lead /\ old \in Rows /\ rows[l] \in Rows /\ old.notes = rows[l].notes
    BY <1>7 DEF FollowupCommit, Inv, TerminalsOK, TerminalOK, Lead, RowsOK, RowOK, NotesAgree
  <2>2. rows' = [rows EXCEPT ![l] = row] /\ desk' = [desk EXCEPT ![d] = Free]
    BY <1>7 DEF FollowupCommit, Noted, Free
  <2>3. rows[l].notes \subseteq row.notes
    BY <2>1, Followups
  <2> HIDE DEF row
  <2>4. NotesKept
    BY <2>2, <2>3 DEF NotesKept, Lead
  <2>5. NotesAgree'
    BY <2>2 DEF SingleDesk, Inv, TerminalsOK, Free, NotesAgree
  <2> QED BY <2>4, <2>5
<1>8. ASSUME NEW d \in Desk, ArchiveCommit(d) PROVE NotesAgree' /\ NotesKept
  <2> DEFINE l == desk[d].lead
             old == desk[d].read
             row == Flush(old, Archived(old), rows[l])
  <2>1. l \in Lead /\ old \in Rows /\ rows[l] \in Rows /\ old.notes = rows[l].notes
    BY <1>8 DEF ArchiveCommit, Inv, TerminalsOK, TerminalOK, Lead, RowsOK, RowOK, NotesAgree
  <2>2. rows' = [rows EXCEPT ![l] = row] /\ desk' = [desk EXCEPT ![d] = Free]
    BY <1>8 DEF ArchiveCommit, Archived, Free
  <2>3. rows[l].notes \subseteq row.notes
    BY <2>1, Archivals
  <2> HIDE DEF row
  <2>4. NotesKept
    BY <2>2, <2>3 DEF NotesKept, Lead
  <2>5. NotesAgree'
    BY <2>2 DEF SingleDesk, Inv, TerminalsOK, Free, NotesAgree
  <2> QED BY <2>4, <2>5
<1>9. ASSUME NEW r \in Request, OpenForm(r) \/ Notify(r) \/ Resubmit(r)
      PROVE  UNCHANGED <<rows, desk>>
  BY <1>9 DEF OpenForm, Notify, Resubmit
<1>10. Restart \/ UNCHANGED vars => UNCHANGED <<rows, desk>>
  BY DEF Restart, vars
<1> QED
  BY <1>1, <1>2, <1>3, <1>4, <1>5, <1>6, <1>7, <1>8, <1>9, <1>10
     DEF Next, RequestStep, DeskStep

\* With one terminal, no note is ever lost, also when the notifier writes the row
\* after the operator did.
THEOREM NotesNeverLost == ASSUME SingleDesk PROVE Spec => NotesAreKept
<1>1. Init => NotesAgree
  BY DEF Init, NotesAgree
<1>2. Inv /\ NotesAgree /\ [Next]_vars => NotesAgree'
  BY NotesStep
<1>3. Inv /\ NotesAgree /\ [Next]_vars =>
        [\A l \in Lead : rows[l].notes \subseteq rows'[l].notes]_rows
  BY NotesStep DEF NotesKept
<1> QED BY InitInv, NextInv, <1>1, <1>2, <1>3, PTL DEF Spec, NotesAreKept
=============================================================================
