----------------------------- MODULE LeadExport -----------------------------
(***************************************************************************)
(* The export of captured leads to Prospect 360: the job behind            *)
(* `seolead leads export` (cli.cmd_leads_export, services/lead_export.py,  *)
(* site/prospect360_destination.py), the operators of `seolead leads       *)
(* archive`, and the destination itself, which is external.                *)
(*                                                                         *)
(* A job reads its whole batch in one session and never refreshes it       *)
(* (expire_on_commit=False), so what it knows of a row is the snapshot     *)
(* `mem`, and a flush writes only the columns whose value differs from     *)
(* that snapshot.  Nothing locks a row: jobs and operators interleave at   *)
(* every commit and at every HTTP call.                                    *)
(*                                                                         *)
(* Abstracted: the content of a payload, down to the contract version and  *)
(* the campaign it was frozen with; exported_at and export_destination,    *)
(* which move with the columns kept; the text of export_error, down to     *)
(* its leading code; the id of a prospect, which is the correlation its    *)
(* deposit was created under.                                              *)
(***************************************************************************)
EXTENDS Naturals, FiniteSets

CONSTANTS
    Lead,          \* captured leads, numbered in the order of created_at
    Job,           \* export commands that may run at the same time
    Desk,          \* operators who may archive a lead
    Correlation,   \* the values uuid4 draws from
    OldCharge,     \* leads that already carry a frozen v1 payload |-> its identity
    Invalid,       \* leads whose payload contract v2 refuses
    Campaign,      \* campaign identifiers a site may be configured with
    Sites,         \* the configurations the site goes through
    Limit,         \* --limit: the size of a batch
    MaxAttempts,   \* PROSPECT360_MAX_ATTEMPTS
    MaxCrashes,    \* bound of the model: how often a job dies
    NoCampaign, NoCharge, NoLead, NoId

Legacy == DOMAIN OldCharge

ASSUME LeadAssumption == Lead \subseteq Nat /\ NoLead \notin Lead
ASSUME OldAssumption ==
    /\ Legacy \subseteq Lead
    /\ OldCharge \in [Legacy -> Correlation]
    /\ \A k, l \in Legacy : OldCharge[k] = OldCharge[l] => k = l
ASSUME NumberAssumption ==
    /\ Limit \in Nat \ {0}
    /\ MaxAttempts \in Nat \ {0}
    /\ MaxCrashes \in Nat
ASSUME NoneAssumption ==
    /\ NoCampaign \notin Campaign
    /\ NoId \notin Correlation

Charge == [corr : Correlation, lead : Lead, version : {1, 2},
           campaign : Campaign \cup {NoCampaign}]

ASSUME NoChargeAssumption == NoCharge \notin Charge

LeadState == {"ABSENT", "NEW", "PENDING_EXPORT", "EXPORTED", "EXPORT_FAILED",
              "ARCHIVED", "REJECTED_SPAM"}
ExportError == {"none", "STALE_CONTRACT", "CONFLICT", "UNAUTHORIZED",
                "REJECTED", "RETRYABLE", "RETRY_EXHAUSTED"}

Row == [state : LeadState, charge : Charge \cup {NoCharge},
        attempts : 0 .. MaxAttempts, error : ExportError,
        prospect : Correlation \cup {NoId}]

Site == [consent : BOOLEAN, campaign : Campaign \cup {NoCampaign}]

ASSUME SitesAssumption == Sites \subseteq Site

Result == {"CREATED", "REPLAY", "CONFLICT", "UNAUTHORIZED", "REJECTED",
           "RETRYABLE"}
Answer == [result : Result, prospect : Correlation \cup {NoId}]

Blank == [state |-> "ABSENT", charge |-> NoCharge, attempts |-> 0,
          error |-> "none", prospect |-> NoId]
NoAnswer == [result |-> "RETRYABLE", prospect |-> NoId]

-----------------------------------------------------------------------------
VARIABLES
    row,        \* captured_lead: the committed columns of each lead
    site,       \* the site configuration on disk
    used,       \* correlations uuid4 has already drawn
    pc,         \* job: "idle", "ready", "waiting" (for HTTP), "answered"
    todo,       \* job: the leads of its batch it has not dealt with
    mem,        \* job: its session's snapshot of the batch
    conf,       \* job: the configuration it loaded
    answer,     \* job: the destination's answer, classified
    desk,       \* operator: the lead whose row was read and found archivable
    wire,       \* requests that may still reach the destination
    deposits,   \* destination: the payload each prospect was created from
    crashes

jobVars == <<pc, todo, mem, conf, answer>>
vars == <<row, site, used, jobVars, desk, wire, deposits, crashes>>

OldRow(l) ==
    [state |-> "PENDING_EXPORT",
     charge |-> [corr |-> OldCharge[l], lead |-> l, version |-> 1,
                 campaign |-> NoCampaign],
     attempts |-> 0, error |-> "none", prospect |-> NoId]

Init ==
    /\ row = [l \in Lead |-> IF l \in Legacy THEN OldRow(l) ELSE Blank]
    /\ site \in Sites
    /\ used = {OldCharge[l] : l \in Legacy}
    /\ pc = [j \in Job |-> "idle"]
    /\ todo = [j \in Job |-> {}]
    /\ mem = [j \in Job |-> [l \in Lead |-> Blank]]
    /\ conf = [j \in Job |-> [consent |-> FALSE, campaign |-> NoCampaign]]
    /\ answer = [j \in Job |-> NoAnswer]
    /\ desk = [d \in Desk |-> NoLead]
    /\ wire = {}
    /\ deposits = {}
    /\ crashes = 0

-----------------------------------------------------------------------------
(* The site around the jobs                                                *)

\* capture_lead: NEW becomes PENDING_EXPORT (LocalLeadDestination.deliver)
\* before the transaction commits.  Leads arrive in the order of created_at.
Capture(l) ==
    /\ row[l].state = "ABSENT"
    /\ \A k \in Lead : k < l => row[k].state # "ABSENT"
    /\ row' = [row EXCEPT ![l] = [Blank EXCEPT !.state = "PENDING_EXPORT"]]
    /\ UNCHANGED <<site, used, jobVars, desk, wire, deposits, crashes>>

\* The site's YAML is edited; a running job keeps the configuration it loaded.
Reconfigure ==
    /\ site' \in Sites \ {site}
    /\ UNCHANGED <<row, used, jobVars, desk, wire, deposits, crashes>>

-----------------------------------------------------------------------------
(* The export job                                                          *)

\* leads_a_exporter: the oldest Limit leads still waiting.
IsWaiting(r) == r.state \in {"NEW", "PENDING_EXPORT"}
Waiting == {l \in Lead : IsWaiting(row[l])}
Batch == {l \in Waiting : Cardinality({k \in Waiting : k < l}) < Limit}

\* The batch is walked in order, one lead at a time.
IsCurrent(j, l) == l \in todo[j] /\ \A k \in todo[j] : l <= k

\* UPDATE of one row: only the columns that differ from the snapshot.
Changed(new, old, db) == IF new # old THEN new ELSE db

\* Mutant of Flush: every column is written, changed or not.
FlushEveryColumn(j, l, new) == row' = [row EXCEPT ![l] = new]

Flush(j, l, new) ==
    LET old == mem[j][l]
    IN  row' = [row EXCEPT ![l] =
          [state    |-> Changed(new.state, old.state, row[l].state),
           charge   |-> Changed(new.charge, old.charge, row[l].charge),
           attempts |-> Changed(new.attempts, old.attempts, row[l].attempts),
           error    |-> Changed(new.error, old.error, row[l].error),
           prospect |-> Changed(new.prospect, old.prospect, row[l].prospect)]]

\* The job is done with lead l: it goes to the next one, or ends.
GoOn(j, l) ==
    /\ todo' = [todo EXCEPT ![j] = @ \ {l}]
    /\ pc' = [pc EXCEPT ![j] = IF todo[j] = {l} THEN "idle" ELSE "ready"]
    /\ mem' = [mem EXCEPT ![j][l] = Blank]
    /\ answer' = [answer EXCEPT ![j] = NoAnswer]
    /\ UNCHANGED conf

\* cmd_leads_export loads the configuration, answers CONTRACT_NOT_READY
\* without a campaign, and reads its batch.
StartExport(j) ==
    /\ pc[j] = "idle"
    /\ site.campaign # NoCampaign
    /\ Batch # {}
    /\ pc' = [pc EXCEPT ![j] = "ready"]
    /\ todo' = [todo EXCEPT ![j] = Batch]
    /\ mem' = [mem EXCEPT ![j] =
                 [l \in Lead |-> IF l \in Batch THEN row[l] ELSE Blank]]
    /\ conf' = [conf EXCEPT ![j] = site]
    /\ UNCHANGED <<row, site, used, answer, desk, wire, deposits, crashes>>

\* verifier_consentement, verifier_campagne and valider_charge_v2: an
\* identity may be minted for the lead.
Mintable(j, l) ==
    /\ conf[j].consent
    /\ conf[j].campaign # NoCampaign
    /\ l \notin Invalid

\* Mutant of RefuseLead: a lead that is refused ends the whole job.
RefuseEndsJob(j, l) ==
    /\ pc[j] = "ready"
    /\ IsCurrent(j, l)
    /\ mem[j][l].charge = NoCharge
    /\ ~Mintable(j, l)
    /\ pc' = [pc EXCEPT ![j] = "idle"]
    /\ todo' = [todo EXCEPT ![j] = {}]
    /\ mem' = [mem EXCEPT ![j] = [k \in Lead |-> Blank]]
    /\ UNCHANGED <<row, site, used, conf, answer, desk, wire, deposits, crashes>>

\* ExportRefuse: nothing is minted, the row stays as it is.
RefuseLead(j, l) ==
    /\ pc[j] = "ready"
    /\ IsCurrent(j, l)
    /\ mem[j][l].charge = NoCharge
    /\ ~Mintable(j, l)
    /\ GoOn(j, l)
    /\ UNCHANGED <<row, site, used, desk, wire, deposits, crashes>>

\* Mutants of Mint: the identity is committed only with the answer; it is
\* minted again on a retry.
MintInMemory(j, l) ==
    /\ pc[j] = "ready"
    /\ IsCurrent(j, l)
    /\ mem[j][l].charge = NoCharge
    /\ Mintable(j, l)
    /\ \E c \in Correlation \ used :
         LET charge == [corr |-> c, lead |-> l, version |-> 2,
                        campaign |-> conf[j].campaign]
             new == [mem[j][l] EXCEPT
                       !.charge = charge,
                       !.state = IF @ = "NEW" THEN "PENDING_EXPORT" ELSE @]
         IN  /\ used' = used \cup {c}
             /\ mem' = [mem EXCEPT ![j][l] = new]
    /\ UNCHANGED <<row, site, pc, todo, conf, answer, desk, wire, deposits, crashes>>

MintAgain(j, l) ==
    /\ pc[j] = "ready"
    /\ IsCurrent(j, l)
    /\ Mintable(j, l)
    /\ \E c \in Correlation \ used :
         LET charge == [corr |-> c, lead |-> l, version |-> 2,
                        campaign |-> conf[j].campaign]
             new == [mem[j][l] EXCEPT
                       !.charge = charge,
                       !.state = IF @ = "NEW" THEN "PENDING_EXPORT" ELSE @]
         IN  /\ used' = used \cup {c}
             /\ Flush(j, l, new)
             /\ mem' = [mem EXCEPT ![j][l] = new]
    /\ UNCHANGED <<site, pc, todo, conf, answer, desk, wire, deposits, crashes>>

\* preparer_identite_export: draw a correlation, freeze the payload, commit.
Mint(j, l) ==
    /\ pc[j] = "ready"
    /\ IsCurrent(j, l)
    /\ mem[j][l].charge = NoCharge
    /\ Mintable(j, l)
    /\ \E c \in Correlation \ used :
         LET charge == [corr |-> c, lead |-> l, version |-> 2,
                        campaign |-> conf[j].campaign]
             new == [mem[j][l] EXCEPT
                       !.charge = charge,
                       !.state = IF @ = "NEW" THEN "PENDING_EXPORT" ELSE @]
         IN  /\ used' = used \cup {c}
             /\ Flush(j, l, new)
             /\ mem' = [mem EXCEPT ![j][l] = new]
    /\ UNCHANGED <<site, pc, todo, conf, answer, desk, wire, deposits, crashes>>

\* A payload frozen under contract v1 is reported and never sent.
StaleContract(j, l) ==
    /\ pc[j] = "ready"
    /\ IsCurrent(j, l)
    /\ mem[j][l].charge # NoCharge
    /\ mem[j][l].charge.version # 2
    /\ Flush(j, l, [mem[j][l] EXCEPT !.error = "STALE_CONTRACT"])
    /\ GoOn(j, l)
    /\ UNCHANGED <<site, used, desk, wire, deposits, crashes>>

\* Mutant of Send: the payload is rebuilt from the configuration loaded, under
\* the correlation that was kept.
SendRebuilt(j, l) ==
    /\ pc[j] = "ready"
    /\ IsCurrent(j, l)
    /\ mem[j][l].charge # NoCharge
    /\ mem[j][l].charge.version = 2
    /\ pc' = [pc EXCEPT ![j] = "waiting"]
    /\ wire' = wire \cup
         {<<j, [mem[j][l].charge EXCEPT !.campaign = conf[j].campaign]>>}
    /\ UNCHANGED <<row, site, used, todo, mem, conf, answer, desk, deposits,
                   crashes>>

\* deposer: the frozen payload is posted.
Send(j, l) ==
    /\ pc[j] = "ready"
    /\ IsCurrent(j, l)
    /\ mem[j][l].charge # NoCharge
    /\ mem[j][l].charge.version = 2
    /\ pc' = [pc EXCEPT ![j] = "waiting"]
    /\ wire' = wire \cup {<<j, mem[j][l].charge>>}
    /\ UNCHANGED <<row, site, used, todo, mem, conf, answer, desk, deposits,
                   crashes>>

\* deposer: TimeoutException or TransportError.  Whether the request arrived,
\* or still will, is not known: it stays on the wire.
Timeout(j) ==
    /\ pc[j] = "waiting"
    /\ pc' = [pc EXCEPT ![j] = "answered"]
    /\ answer' = [answer EXCEPT ![j] = NoAnswer]
    /\ UNCHANGED <<row, site, used, todo, mem, conf, desk, wire, deposits,
                   crashes>>

\* Mutants of Outcome: no answer is taken for success; an answer that names no
\* prospect is completed from the payload; the last attempt is miscounted.
OutcomeTrustsSilence(old, a) ==
    [old EXCEPT !.attempts = @ + 1, !.prospect = a.prospect,
        !.state = IF a.result \in {"CREATED", "REPLAY", "RETRYABLE"}
                  THEN "EXPORTED" ELSE "EXPORT_FAILED",
        !.error = IF a.result \in {"CREATED", "REPLAY", "RETRYABLE"}
                  THEN "none" ELSE a.result]

OutcomeGuessesProspect(old, a) ==
    [old EXCEPT !.attempts = @ + 1, !.prospect = old.charge.corr,
        !.state = IF a.result \in {"CREATED", "REPLAY"}
                  THEN "EXPORTED" ELSE "EXPORT_FAILED"]

OutcomeOneTooMany(old, a) ==
    [old EXCEPT !.attempts = @ + 1, !.prospect = a.prospect,
        !.state = IF a.result \in {"CREATED", "REPLAY"} THEN "EXPORTED"
                  ELSE IF a.result # "RETRYABLE" \/ old.attempts >= MaxAttempts
                  THEN "EXPORT_FAILED" ELSE @]

\* exporter_lead: what each answer makes of the lead.
Outcome(old, a) ==
    LET tries == old.attempts + 1
        done == [old EXCEPT !.attempts = tries]
        failed(code) == [done EXCEPT !.state = "EXPORT_FAILED", !.error = code]
    IN  CASE a.result \in {"CREATED", "REPLAY"} ->
               [done EXCEPT !.state = "EXPORTED", !.error = "none",
                            !.prospect = IF a.prospect # NoId THEN a.prospect
                                                              ELSE @]
          [] a.result \in {"CONFLICT", "UNAUTHORIZED", "REJECTED"} ->
               failed(a.result)
          [] a.result = "RETRYABLE" /\ tries >= MaxAttempts ->
               failed("RETRY_EXHAUSTED")
          [] a.result = "RETRYABLE" /\ tries < MaxAttempts ->
               [done EXCEPT !.state = "PENDING_EXPORT", !.error = "RETRYABLE"]

Record(j, l) ==
    /\ pc[j] = "answered"
    /\ IsCurrent(j, l)
    /\ Flush(j, l, Outcome(mem[j][l], answer[j]))
    /\ GoOn(j, l)
    /\ UNCHANGED <<site, used, desk, wire, deposits, crashes>>

\* The process dies anywhere between two commits; its request stays on the wire.
Crash(j) ==
    /\ pc[j] # "idle"
    /\ crashes < MaxCrashes
    /\ crashes' = crashes + 1
    /\ pc' = [pc EXCEPT ![j] = "idle"]
    /\ todo' = [todo EXCEPT ![j] = {}]
    /\ mem' = [mem EXCEPT ![j] = [l \in Lead |-> Blank]]
    /\ answer' = [answer EXCEPT ![j] = NoAnswer]
    /\ UNCHANGED <<row, site, used, conf, desk, wire, deposits>>

-----------------------------------------------------------------------------
(* The destination (external): one prospect per correlation, the original  *)
(* one on a replay, a conflict when the payload diverges.                  *)

Verdict(c) ==
    CASE c \in deposits -> "REPLAY"
      [] \E d \in deposits : d.corr = c.corr /\ d # c -> "CONFLICT"
      [] OTHER -> "CREATED"

\* The request of job j is what that job is waiting for.
Awaited(j, c) ==
    pc[j] = "waiting" /\ \E l \in Lead : IsCurrent(j, l) /\ mem[j][l].charge = c

Reply(j, c, result, id) ==
    /\ Awaited(j, c)
    /\ pc' = [pc EXCEPT ![j] = "answered"]
    /\ answer' = [answer EXCEPT ![j] = [result |-> result, prospect |-> id]]
    /\ UNCHANGED <<todo, mem, conf>>

\* The request is accepted.  Its answer may be lost, and the body may name no
\* prospect; a request nobody waits for any more is accepted all the same.
Accept(j, c) ==
    /\ <<j, c>> \in wire
    /\ wire' = wire \ {<<j, c>>}
    /\ deposits' = IF Verdict(c) = "CREATED" THEN deposits \cup {c} ELSE deposits
    /\ \/ UNCHANGED jobVars
       \/ Verdict(c) = "CONFLICT" /\ Reply(j, c, "CONFLICT", NoId)
       \/ /\ Verdict(c) # "CONFLICT"
          /\ \E id \in {c.corr, NoId} : Reply(j, c, Verdict(c), id)
    /\ UNCHANGED <<row, site, used, desk, crashes>>

\* 401/403, another 4xx, or 429/5xx: nothing is stored.
Refuse(j, c) ==
    /\ <<j, c>> \in wire
    /\ wire' = wire \ {<<j, c>>}
    /\ \E result \in {"UNAUTHORIZED", "REJECTED", "RETRYABLE"} :
          Reply(j, c, result, NoId)
    /\ UNCHANGED <<row, site, used, desk, deposits, crashes>>

-----------------------------------------------------------------------------
(* The operators                                                           *)

Archivable == {"NEW", "PENDING_EXPORT", "EXPORT_FAILED", "REJECTED_SPAM"}

\* archiver_lead: the row is read and its state found archivable ...
ArchiveRead(d, l) ==
    /\ desk[d] = NoLead
    /\ row[l].state \in Archivable
    /\ desk' = [desk EXCEPT ![d] = l]
    /\ UNCHANGED <<row, site, used, jobVars, wire, deposits, crashes>>

\* ... and the archival is committed, whatever the row has become.
ArchiveCommit(d) ==
    /\ desk[d] # NoLead
    /\ row' = [row EXCEPT ![desk[d]].state = "ARCHIVED"]
    /\ desk' = [desk EXCEPT ![d] = NoLead]
    /\ UNCHANGED <<site, used, jobVars, wire, deposits, crashes>>

-----------------------------------------------------------------------------
JobStep(j, l) ==
    RefuseLead(j, l) \/ Mint(j, l) \/ StaleContract(j, l) \/ Send(j, l)
    \/ Record(j, l)

Next ==
    \/ \E l \in Lead : Capture(l)
    \/ Reconfigure
    \/ \E j \in Job : StartExport(j) \/ Timeout(j) \/ Crash(j)
    \/ \E j \in Job, l \in Lead : JobStep(j, l)
    \/ \E w \in wire : Accept(w[1], w[2]) \/ Refuse(w[1], w[2])
    \/ \E d \in Desk, l \in Lead : ArchiveRead(d, l)
    \/ \E d \in Desk : ArchiveCommit(d)

Spec == Init /\ [][Next]_vars

\* The command is restarted by a cron (cmd_leads_export's docstring), a running
\* process goes on to its next step, and the HTTP client's timeout fires.
Fairness ==
    \A j \in Job :
        /\ WF_vars(StartExport(j))
        /\ WF_vars(\E l \in Lead : JobStep(j, l))
        /\ WF_vars(Timeout(j))

FairSpec == Spec /\ Fairness

-----------------------------------------------------------------------------
(* Invariants                                                              *)

\* Every column, snapshot and message has its type.
TypeOK ==
    /\ row \in [Lead -> Row]
    /\ site \in Site
    /\ used \subseteq Correlation
    /\ pc \in [Job -> {"idle", "ready", "waiting", "answered"}]
    /\ todo \in [Job -> SUBSET Lead]
    /\ mem \in [Job -> [Lead -> Row]]
    /\ conf \in [Job -> Site]
    /\ answer \in [Job -> Answer]
    /\ desk \in [Desk -> Lead \cup {NoLead}]
    /\ wire \subseteq Job \X Charge
    /\ deposits \subseteq Charge
    /\ crashes \in 0 .. MaxCrashes

\* "EXPORTED is never written on anything but a verified 201 or 200": a lead
\* recorded as exported has a prospect created from its own payload, whatever
\* jobs, operators, crashes and lost answers interleave.
ExportedIsReal ==
    \A l \in Lead : row[l].state = "EXPORTED" => \E d \in deposits : d.lead = l

\* The prospect id a row carries is the id of a prospect of that very lead.
ProspectIsTheLeads ==
    \A l \in Lead : row[l].prospect # NoId =>
        \E d \in deposits : d.lead = l /\ d.corr = row[l].prospect

\* The correlation and payload are committed before the first attempt: whatever
\* is on the wire or at the destination is what the lead's row still holds, so
\* that a retry after a crash or a lost answer replays it.
IdentityIsDurable ==
    /\ \A w \in wire : row[w[2].lead].charge = w[2]
    /\ \A d \in deposits : row[d.lead].charge = d

\* Exactly-once: no lead ever becomes two prospects.
AtMostOneProspect == \A d, e \in deposits : d.lead = e.lead => d = e

\* The frozen payload makes a retry a replay: the export never meets a 409 of
\* its own making, even between overlapping jobs.
NoConflict ==
    /\ \A w \in wire : Verdict(w[2]) # "CONFLICT"
    /\ \A l \in Lead : row[l].error # "CONFLICT"

\* A lead that has used up its attempts never waits for another one: retries
\* end after MaxAttempts answers, also when jobs overlap.
RetriesEnd ==
    \A l \in Lead : IsWaiting(row[l]) => row[l].attempts < MaxAttempts

-----------------------------------------------------------------------------
(* Action properties                                                       *)

\* "Minted once and never regenerated": a committed identity never changes.
FrozenIdentity ==
    [][\A l \in Lead : row[l].charge # NoCharge => row'[l].charge = row[l].charge]_vars

\* Archiving takes a lead out of the selection for good: a job that still holds
\* the old snapshot may find it exported or failed, but never puts it back among
\* the leads the next job selects.
ArchivedStaysOut ==
    [][\A l \in Lead : row[l].state = "ARCHIVED" =>
          row'[l].state \notin {"NEW", "PENDING_EXPORT"}]_vars

-----------------------------------------------------------------------------
(* Liveness                                                                *)

\* Once the site stays ready to export, every lead that can be exported is
\* eventually settled, exported or left to a human: crashes, lost answers, a
\* change of campaign and leads that can never be sent do not hold it back.
EveryLeadSettles ==
    <>[](site.consent /\ site.campaign # NoCampaign) =>
        \A l \in Lead \ (Legacy \cup Invalid) :
            row[l].state = "PENDING_EXPORT" ~> row[l].state # "PENDING_EXPORT"

-----------------------------------------------------------------------------
(* What the export implements, with one job and no archiving               *)

AbstractVerdict ==
    [l \in Lead |-> CASE row[l].state = "ABSENT" -> "unknown"
                      [] row[l].state = "EXPORTED" -> "exported"
                      [] row[l].state = "EXPORT_FAILED" -> "failed"
                      [] OTHER -> "held"]
AbstractProspects ==
    [l \in Lead |-> {d.corr : d \in {e \in deposits : e.lead = l}}]

Abstract == INSTANCE LeadDelivery WITH
    Prospect <- Correlation, verdict <- AbstractVerdict,
    prospects <- AbstractProspects

\* The export of leads implements LeadDelivery: at most one prospect for each
\* lead, a verdict that is final, and "exported" only on an existing prospect.
ImplementsDelivery == Abstract!Spec
=============================================================================
