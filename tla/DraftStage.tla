----------------------------- MODULE DraftStage -----------------------------
(***************************************************************************)
(* The writer's stage (services/draft_stage.py): draft, judge, re-emit at  *)
(* most twice, persist the best attempt, have it reviewed, and leave the    *)
(* decision to a person.  A stage is one execution of write_and_judge, by  *)
(* the pipeline or by `draft regenerate`; several may run at the same time *)
(* on briefs of the same or of different keywords.                         *)
(*                                                                         *)
(* A stage reads the titles it may not repeat when it starts               *)
(* (services/title_registry.py), commits its draft, asks the model for a   *)
(* review, commits verdicts, status and approval together, and finally its *)
(* usage.  The process may die between any two commits.                    *)
(*                                                                         *)
(* Abstracted: an attempt is its title and how many of its blocking         *)
(* findings a rewrite could and could not answer; a draft is identified by *)
(* the stage that wrote it.  Decisions are taken one at a time here;       *)
(* Publication takes them apart into a read and a commit.                  *)
(***************************************************************************)
EXTENDS Naturals, Sequences, FiniteSets

CONSTANTS
    Stage,         \* executions of write_and_judge
    Keyword, KeywordOf,   \* the seed keyword behind the brief of a stage
    Title,
    MaxAttempts,   \* draft_retry.MAX_ATTEMPTS
    MaxFindings,   \* bound of the model: findings of a kind in one attempt
    NoDraft

ASSUME StageAssumption == KeywordOf \in [Stage -> Keyword]
ASSUME AttemptsAssumption == MaxAttempts \in Nat \ {0} /\ MaxFindings \in Nat

Status == {"DRAFT_CREATED", "QA_FAILED", "PENDING_APPROVAL", "APPROVED",
           "REJECTED", "NEEDS_REVISION"}
ApprovalState == {"NONE", "PENDING", "APPROVED", "REJECTED", "NEEDS_REVISION"}
Target == {"APPROVED", "REJECTED", "NEEDS_REVISION"}

\* A judged draft payload.  faults are findings a rewrite can answer, unanswerable
\* those it cannot, of which duplicate is one.
Attempt == [title : Title, faults : Nat, unanswerable : Nat, duplicate : BOOLEAN]
\* A row of content_draft with its verdicts and its approval.
Draft == [kept : Attempt, status : Status, passed : BOOLEAN,
          approval : ApprovalState]

ASSUME NoneAssumption == NoDraft \notin Draft

VARIABLES
    phase,     \* how far each stage is
    seen,      \* stage -> the stages whose titles it read as competing
    judged,    \* stage -> its attempts so far
    draft,     \* stage -> the row it committed
    booked,    \* stage -> provider_usage rows it committed for draft calls
    together   \* history: sets of stages that were running at the same time

vars == <<phase, seen, judged, draft, booked, together>>
-----------------------------------------------------------------------------
Blocking(a) == a.faults + a.unanswerable

\* draft_retry.decide, on the n-th attempt.
RetryOneMore(a, n) == Blocking(a) > 0 /\ a.unanswerable = 0 /\ n <= MaxAttempts
Retry(a, n) == Blocking(a) > 0 /\ a.unanswerable = 0 /\ n < MaxAttempts

\* choose_best: fewest blocking findings, then fewest unanswerable, then the latest.
Before(a, i, b, j) ==
    \/ Blocking(a) < Blocking(b)
    \/ /\ Blocking(a) = Blocking(b)
       /\ a.unanswerable < b.unanswerable \/ (a.unanswerable = b.unanswerable /\ i >= j)
IsLast(attempts, i) == i = Len(attempts)
IsBest(attempts, i) ==
    \A j \in 1..Len(attempts) : Before(attempts[i], i, attempts[j], j)

\* title_registry.competing_titles_for_keyword.
CompetingApproved(s) ==
    {t \in Stage : /\ draft[t] # NoDraft
                   /\ draft[t].status = "APPROVED"
                   /\ KeywordOf[t] # KeywordOf[s]}
Competing(s) ==
    {t \in Stage : /\ draft[t] # NoDraft
                   /\ draft[t].status # "REJECTED"
                   /\ KeywordOf[t] # KeywordOf[s]}

Running(s) == phase[s] \notin {"IDLE", "DONE", "DEAD"}
-----------------------------------------------------------------------------
Init ==
    /\ phase = [s \in Stage |-> "IDLE"]
    /\ seen = [s \in Stage |-> {}]
    /\ judged = [s \in Stage |-> << >>]
    /\ draft = [s \in Stage |-> NoDraft]
    /\ booked = [s \in Stage |-> 0]
    /\ together = {}

Start(s) ==
    /\ phase[s] = "IDLE"
    /\ phase' = [phase EXCEPT ![s] = "WRITING"]
    /\ seen' = [seen EXCEPT ![s] = Competing(s)]
    /\ together' = together \cup {{s, t} : t \in {u \in Stage : Running(u)}}
    /\ UNCHANGED <<judged, draft, booked>>

\* What the gates find of a payload with a title the stage has read.
Judged(s, a) ==
    /\ a.duplicate <=> (\E t \in seen[s] : draft[t].kept.title = a.title)
    /\ a.duplicate => a.unanswerable > 0

\* One draft call and both deterministic gates.
Write(s) ==
    /\ phase[s] = "WRITING"
    /\ \E a \in [title : Title, faults : 0..MaxFindings,
                 unanswerable : 0..MaxFindings, duplicate : BOOLEAN] :
          /\ Judged(s, a)
          /\ judged' = [judged EXCEPT ![s] = Append(@, a)]
          /\ phase' = [phase EXCEPT ![s] = IF Retry(a, Len(judged[s]) + 1)
                                           THEN "WRITING" ELSE "KEEPING"]
    /\ UNCHANGED <<seen, draft, booked, together>>

WriteFailsUnbooked(s) ==
    /\ phase[s] = "WRITING"
    /\ phase' = [phase EXCEPT ![s] = "DONE"]
    /\ UNCHANGED <<seen, judged, draft, booked, together>>

\* The model is not configured, fails, or answers what is no draft: attempts already
\* judged are dropped with the outcome.
WriteFails(s) ==
    /\ phase[s] = "WRITING"
    /\ phase' = [phase EXCEPT ![s] = "BOOKING"]
    /\ UNCHANGED <<seen, judged, draft, booked, together>>

Keep(s) ==
    /\ phase[s] = "KEEPING"
    /\ \E i \in 1..Len(judged[s]) :
          /\ IsBest(judged[s], i)
          /\ draft' = [draft EXCEPT ![s] =
                [kept |-> judged[s][i], status |-> "DRAFT_CREATED",
                 passed |-> FALSE, approval |-> "NONE"]]
    /\ phase' = [phase EXCEPT ![s] = "REVIEWING"]
    /\ UNCHANGED <<seen, judged, booked, together>>

\* What the second commit writes, given whether the model-assisted review blocks.
SettledOnGates(d, blocks) ==
    LET passed == Blocking(d.kept) = 0 IN
    [d EXCEPT !.passed = passed /\ ~blocks, !.approval = "PENDING",
              !.status = IF passed THEN "PENDING_APPROVAL" ELSE "QA_FAILED"]
Settled(d, blocks) ==
    LET passed == Blocking(d.kept) = 0 /\ ~blocks IN
    [d EXCEPT !.passed = passed, !.approval = "PENDING",
              !.status = IF passed THEN "PENDING_APPROVAL" ELSE "QA_FAILED"]

Settle(s) ==
    /\ phase[s] = "REVIEWING"
    /\ \E blocks \in BOOLEAN : draft' = [draft EXCEPT ![s] = Settled(@, blocks)]
    /\ phase' = [phase EXCEPT ![s] = "BOOKING"]
    /\ UNCHANGED <<seen, judged, booked, together>>

Book(s) ==
    /\ phase[s] = "BOOKING"
    /\ booked' = [booked EXCEPT ![s] = Len(judged[s])]
    /\ phase' = [phase EXCEPT ![s] = "DONE"]
    /\ UNCHANGED <<seen, judged, draft, together>>

Crash(s) ==
    /\ Running(s)
    /\ phase' = [phase EXCEPT ![s] = "DEAD"]
    /\ UNCHANGED <<seen, judged, draft, booked, together>>

\* A person decides; a draft without an approval row cannot be decided.
Decidable(s) == draft[s] # NoDraft /\ draft[s].approval \in {"PENDING", "NEEDS_REVISION"}

Decide(s, target) ==
    /\ Decidable(s)
    /\ draft' = [draft EXCEPT ![s].approval = target, ![s].status = target]
    /\ UNCHANGED <<phase, seen, judged, booked, together>>

StageStep(s) ==
    \/ Start(s) \/ Write(s) \/ WriteFails(s) \/ Keep(s) \/ Settle(s) \/ Book(s)
    \/ Crash(s)

Next ==
    \/ \E s \in Stage : StageStep(s)
    \/ \E s \in Stage, target \in Target : Decide(s, target)

Spec == Init /\ [][Next]_vars
-----------------------------------------------------------------------------
TypeOK ==
    /\ phase \in [Stage -> {"IDLE", "WRITING", "KEEPING", "REVIEWING", "BOOKING",
                             "DONE", "DEAD"}]
    /\ seen \in [Stage -> SUBSET Stage]
    /\ judged \in [Stage -> Seq(Attempt)]
    /\ \A s \in Stage : Len(judged[s]) <= MaxAttempts
    /\ draft \in [Stage -> Draft \cup {NoDraft}]
    /\ booked \in [Stage -> 0..MaxAttempts]
    /\ together \subseteq SUBSET Stage

Passing(s) == draft[s] # NoDraft /\ draft[s].passed /\ draft[s].status # "REJECTED"

\* DUPLICATE_TITLE is found before the draft is a row (services/title_registry.py):
\* two drafts of different keywords under one title both pass and stay in play only
\* when their stages ran at the same time, whatever died or was decided in between.
NoCannibals ==
    \A s, t \in Stage :
        (/\ Passing(s) /\ Passing(t)
         /\ KeywordOf[s] # KeywordOf[t]
         /\ draft[s].kept.title = draft[t].kept.title) => {s, t} \in together

\* services/draft_retry.py, "a gate you can outlast is not a gate": the model was
\* asked again only after an attempt with findings all of which a rewrite answers.
NoSampling ==
    \A s \in Stage : \A i \in 1..Len(judged[s]) :
        i < Len(judged[s]) => Blocking(judged[s][i]) > 0 /\ judged[s][i].unanswerable = 0

\* draft_stage.py, "the draft that is kept is the best one, not the last one": asking
\* again never costs a better draft, and an attempt that passed both gates is kept.
NeverWorse ==
    \A s \in Stage : draft[s] # NoDraft =>
        \A i \in 1..Len(judged[s]) : Blocking(draft[s].kept) <= Blocking(judged[s][i])

\* content_draft.status, the verdicts and the approval are written by two commits of
\* the stage and by the decisions: at every moment they tell the same story, and only
\* the death of its stage leaves a draft nobody can decide.
StatusAgrees ==
    \A s \in Stage : draft[s] # NoDraft => LET d == draft[s] IN
        /\ d.approval = "NONE" =>
              d.status = "DRAFT_CREATED" /\ phase[s] \in {"REVIEWING", "DEAD"}
        /\ d.approval = "PENDING" =>
              d.status = IF d.passed THEN "PENDING_APPROVAL" ELSE "QA_FAILED"
        /\ d.approval \in Target => d.status = d.approval
        /\ d.passed => Blocking(d.kept) = 0

\* pipeline_v2._persist_usage: a stage that did not die has booked every draft call it
\* got a draft from, whether it ended with a draft or with an error.
CallsAreBooked ==
    \A s \in Stage : phase[s] = "DONE" => booked[s] = Len(judged[s])
=============================================================================
