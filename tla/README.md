# A TLA+ development for SEO Lead Factory

This directory models the SEO Lead Factory from end to end: how retrieved pages
become claims with verdicts, the money spent on research, the writing and judging
of a draft, the way from a judged draft to a live page, the capture of a lead by
the form on that page, and its export to an external platform. TLC checks the
models on small instances and TLAPS proves the main results for every value of the
constants.

## The system

An operator feeds a *seed query* to a pipeline. It buys search results and web
research from providers (DataForSEO, Tavily, the Last30Days runner), extracts
claims and weighs their evidence into a *research package*, scores the
opportunity and derives a *content brief*. A language model writes a *draft*,
which deterministic and model-assisted quality gates judge. A human *approves*
a render of the draft by its fingerprint; the draft is *staged* as a numbered
snapshot at an address and *published*. The web front end reads published
snapshots through an API, visitors leave their details, and the captured
*leads* are notified to the owner and exported to Prospect 360.

Operators work through a command line (`src/app/cli.py`); the API serves the
web front end and an internal channel for decisions. Both share one database.
Every command or request opens a session, reads rows, and commits:

* no row is ever locked (`SELECT ... FOR UPDATE` does not occur in `src/app`);
* `expire_on_commit=False` (`src/app/db/session.py`): a session never refreshes
  what it read;
* a flush writes only the columns whose value differs from what was read.

The interesting behaviours follow from these three facts and from the network:
commands overlap between their read and their commit, a process dies between
two commits, an HTTP answer is lost or late.

| component | state | operations | hard behaviours | correct when |
|---|---|---|---|---|
| Lead export (`services/lead_export.py`, `site/prospect360_destination.py`) | rows of `captured_lead`: state, frozen payload, correlation, attempts, error, remote id | export a batch, archive | lost answers, late requests, crashes between commits, stale batches, overlapping jobs | a lead becomes one prospect at most, EXPORTED only on a prospect that exists, every lead is settled |
| Lead capture, notification, follow-up (`api/site.py`, `site/lead_capture.py`, `site/lead_notification.py`, `site/spam_protection.py`) | lead rows and their consents, notification state, JSON answers | load a configuration, capture, notify, record a follow-up, report, archive | a deployment between the form and its submission, notification after commit, JSON read-modify-write, bounded report | consents are what was ticked, the answer is true, no lead is forgotten |
| Publication (`site/publication.py`) | rows of `published_content` | gate, stage, publish | stale gate, two-step swap under a partial unique index | a page shows only what was approved, and never goes dark |
| Approval (`services/approval_service.py`, `cli._decide`, `api/internal._decide`) | one `approval` row per draft and its history | approve, reject, request a revision | two channels, stale reads, overwrite in place | who approved what stays answerable |
| Re-judgement (`cli.cmd_qa_rejudge`) | `qa_review` rows | append a verdict per layer | revisions, rows older than layers | the latest verdict governs |
| Draft stage (`services/draft_stage.py`, `draft_retry.py`) | draft, verdicts, approval | at most three attempts, keep the best | two commits, failure of a re-emission | a kept draft can be judged and approved |
| Research run (`services/pipeline*.py`, `authoritative_research.py`) | research run, package, record of searches | run, resume, execute or abandon a search | caches, retries, JSON read-modify-write | a search is paid once and never silently lost |
| Sources and packages (`relevance.py`, `source_quality.py`, `authority_registry.py`, `passage_extraction.py`, `claim_extraction.py`, `package_builder_v3.py`, `research_planner.py`) | sources so far, one verdict per reference, the package | judge a source, rebuild the package, plan official searches | references reused by every call, rebuilds from everything, plans repeated | evidence stands on an admitted page, nothing is asked twice |
| Claims and evidence (`claim_*.py`, `evidence_model.py`, `conflict.py`, `freshness.py`, `region.py`) | none: pure functions | classify, match, compare, conclude | boundaries, ties, precedence of rules | an ended rule or an authority of elsewhere establishes nothing |
| Brief and gates (`brief_service.py`, `factual_qa_v2.py`, `qa_service.py`) | none: pure functions of a draft and a package | select the facts, judge a draft | rules written one at a time that must agree | a refused claim is caught, a required fact can be stated |
| Providers (`providers/`) | usage records | search, research, generate | timeouts, retries | a call is accounted for |
| Last30Days runner (`infra/last30days`) | in-memory results by idempotency key | start, poll | restart loses the cache | one run per key |
| Site API and configuration (`api/site.py`, `site/config.py`) | none | list, get, preview, create lead | caching | only published snapshots are public |
| Web front end (`web/`), sanitizer, schemas, migrations | none of their own | rendering, validation | | |

`PROJECT.json` lists every component with what is and is not modelled, and
under *hazards* every place in this code where an order of steps, a stale read
or a failure bites, with the property that watches it.

## Modules

| module | what it is |
|---|---|
| `LeadDelivery` | abstract: what the export promises |
| `LeadExport` | the export job, its snapshots and commits, the archival, the wire and the destination |
| `MCLeadExport` | instances for TLC |
| `LeadExportProofs` | theorems about `LeadExport` |
| `PublishedPages` | abstract: what publication promises |
| `Publication` | verdicts, decisions, the gate, staging and publication |
| `MCPublication` | instances for TLC |
| `PublicationProofs` | theorems about `Publication` |
| `DraftStage` | the writer's stage: attempts, retries, the kept draft, verdicts and approval |
| `MCDraftStage` | an instance for TLC |
| `DraftStageProofs` | theorems about `DraftStage` |
| `ResearchRun` | paid calls, rounds of official searches, the package and the commands on it |
| `MCResearchRun` | instances for TLC |
| `ResearchRunProofs` | theorems about `ResearchRun` |
| `Lists` | lists filtered, flattened, shortened and sorted, without recursion over operators |
| `ListProofs` | what those operators return |
| `Claims` | pure: categories, requirements, regions, freshness, matching, conflicts, the status of a claim |
| `ResearchPackage` | pure: relevance, who a page speaks as, passages, extraction, the package, the plan of official searches |
| `Evidence` | a job's research as steps: providers' answers, the gate, two official rounds, three builds of the package |
| `FactualGate` | pure: the deterministic factual gate on a body and the claims of a package |
| `Editorial` | pure: the facts of the brief, the gate that reads a page, what the model's review may leave |
| `Article` | `Evidence`, then a draft of its package judged by `FactualGate` and `Editorial` |
| `MCArticle` | an instance for TLC: pages, texts, registry, drafts |
| `EvidenceProofs` | the inductive invariant of a job's research, and what it gives |
| `ArticleProofs` | theorems about `Article` and the gates |
| `LeadIntake` | the form, its submission, the notification and the operators' terminals |
| `MCLeadIntake` | an instance for TLC: three configurations of the site |
| `LeadIntakeProofs` | theorems about `LeadIntake` |

The modules meet in what one leaves for the next. `Evidence` is what a job of
`ResearchRun` does between its first call and its seal, with the pages that
`ResearchRun` abstracts from; `Article` is one attempt of `DraftStage`, with the
findings that `DraftStage` takes as arbitrary. `ResearchRun` commits the package
whose owed searches the gate of `Publication` asks for (`Settle` there), and the
draft, verdicts and approval that `DraftStage` commits are the state
`WriteAndJudge` creates in `Publication`. `LeadIntake` creates the rows in
`PENDING_EXPORT` from which `LeadExport` starts.

### LeadExport

`row` is the committed table; a job `j` works on the snapshot `mem[j]` its
session took of the batch (`StartExport`), which nothing refreshes. `Flush`
writes the columns that differ from that snapshot, so two stale writers merge
as they do in the database. The job's steps are the code's: `RefuseLead`
(`ExportRefuse`, nothing minted), `Mint` (`preparer_identite_export`, a commit
of its own), `StaleContract` (a payload frozen under contract v1), `Send`,
`Timeout`, `Record` (`Outcome` is the case analysis of `exporter_lead`).
Between `Send` and `Record` the request is on `wire`; it may be accepted with
its answer received, lost (`Accept` with the job left waiting) or arriving
after the job gave up. `Accept` and `Refuse` are external: Prospect 360 stores
one prospect per correlation, replays the original on the same payload and
answers 409 on another. `Crash` takes the process down between any two commits.
`ArchiveRead` and `ArchiveCommit` are the operator's command around its check.

Abstracted: a payload is the contract version and campaign it was frozen with;
`export_error` is its leading code; the prospect id is the correlation its
deposit was created under.

### Publication

`render[d]` stands for what `render_fingerprint` would digest for a draft now,
and the fingerprint is the render itself; `Drift` changes it, as an edit of the
rows or a deployment of new rendering rules does. `verdicts[d][layer]` are the
`qa_review` rows in order of creation, `layered = FALSE` on those older than the
`layer` column. `approval[d]` is the one approval row. `decided[d]` is a
history variable: every decision a person committed. `page[a][v]` are the
snapshots of an address by version.

Each command is a read step and a commit step: `DecideRead`/`DecideCommit`
(both channels, which differ in `DecideCli` and `DecideApi`),
`RejudgeRead`/`RejudgeCommit`, `StageRead`/`StageCommit`, and for a
publication `PublishRead`, `LiveRead` and `PublishCommit`, because the state of
the snapshot is read before the rows live at its address. A command that is
refused, or dies before its commit, changes nothing and is no step. The two
unique constraints (`uq_pub_slug_version`, `uq_pub_live`) are in the commits.

`WriteAndJudge` is the second commit of `write_and_judge` (`DraftStage` has both): from
the first one on the draft exists and may be judged again, so `RejudgeCommit` may
come before it, with rows of the same revision. The rows of `WriteAndJudge` stand
before those, because they are dated when they are flushed, ahead of the model's
review.

Abstracted: the body's links and the advisory findings are one flag `sound`; the classifier of
legacy rows is taken to have given each row its layer; `noindex`, dates and
notes are left out; the fingerprint and the approval row are read in one step.

### DraftStage

A stage `s` is one execution of `write_and_judge`, by the pipeline or by `draft
regenerate`. `Start` reads the titles of other keywords' drafts (`seen[s]`, what
`competing_titles_for_keyword` returned) and nothing refreshes them. `Write` is
one draft call with both deterministic gates and the retry decision
(`draft_retry.decide`), `WriteFails` a call that brings no draft, `Keep` the
first commit (`choose_best`), `Settle` the review by the model and the second
commit, `Book` the usage. `Crash` takes the process down anywhere between.
`Decide` is a person's decision, taken as one step here. `together` is a
history variable: which stages ever ran at the same time.

Abstracted: an attempt is its title and the number of its blocking findings that
a rewrite can and cannot answer; the model's title and findings are arbitrary,
except that a title the stage has read is found (`DUPLICATE_TITLE`).

### ResearchRun

A job `j` is one execution of `run_pipeline_v2` up to its bookkeeping. `Serp`,
`Research` and `KeepResearch` are stages 1, 3 and the first commit of results;
`FirstPlan`, `LaunchSearch`, `SecondPlan` and `EndRounds` are stage 5b with its
two rounds; `Seal` commits the package, `Book` the usage. Results are committed
under an idempotency key of the correlation id (`runs`), and a key that exists
ends the job. `spent` is what `JobBudget` counts of the web provider, `Refused`
what it raises, which nothing on the way catches. The commands read a package
(`RunRead`, `AbandonRead`), launch (`RunLaunch`) and write the whole record of
searches back (`RunCommit`, `AbandonCommit`). `launched`, `repaid` and
`troubled` are history: what was ever sent, what was sent twice, and on which
packages two commands overlapped or a run died.

Abstracted, and the subject of `Evidence`: pages, claims and relevance, down to
which searches a plan proposes (arbitrary within `MaxQueries`) and whether an
answer held an official page. Abstracted here only:
usage events are one flag, collected and not yet committed; keyword metrics are
left out, and the brief and the draft stage between `Seal` and `Book`.

### Claims, ResearchPackage

The code decides by regular expressions over texts, then by rules over what they
found. The rules are modelled, and a text is the record of what the expressions
find in it: its marks, the categories whose configured terms it contains, its
regions, words and typed quantities. The header of each module lists
the fields. A page is a host, the words of its title and body, its dates, and
blocks of text cut into passages and propositions.

An ordered chain of tests (`classify_claim`, `assess_freshness`,
`classify_conflict`, the ladder of `evaluate`) is one `FirstOf` whose rungs are
the tests in the code's order. A domain is matched against the community list by
the end of its text (`source_quality.py:98`), so `Known.community` holds the hosts
whose text ends so, a host that only ends like one of the list included.
`Evaluate` is `evaluate_claim`: candidates, supporters, the claim's region, scope,
authority, corroboration, freshness and the status. Relevance and match strength
are compared as integers, numerators and denominators multiplied out. `Build` is
`package_builder_v3` on the sources and the one verdict kept per reference; `Plan`
is `plan_from_package`, its ceiling tested where the code tests it.

### Evidence

`stage` walks through `SearchWeb`, `AskCommunity`, `Judge`, then `StartRound`,
one `Ask` for each planned search, and `Fold`, which passes the accepted pages
through the gate and rebuilds the package from everything; the third plan ends
the rounds. What a provider returns is any of the answers given to the
instance, or a failure; `GiveUp` is the job ending on a budget or a commit.
A result is known by the id its provider gave it (`Ref`) and otherwise by its place
in the answer, counted from zero in every call. The instance has results of both
kinds; those without an id share references, and `decisions` keeps one verdict
where several sources do. Where every result carries an id of its own the two
agree, and nothing is misjudged.
`At` and `Where` (`Lists`) are the elements a loop does not skip with `continue`.

### FactualGate, Editorial, Article

`Findings` is `run_factual_qa_v2` and `Objections` the blocking part of
`run_deterministic_qa` and `run_seo_qa_v2`, each rule an operator that yields the
code it raises. `Arbitrate` is the decision that a sentence which resembles a
claim and a supported one is either, with the margin `_MATCH_MARGIN`; `Scope`
and `Carried` are the region a reader carries from sentence to sentence. In
`Editorial`, `Selected`, `Required` and `Usable` are the facts of the brief (spread over
subjects, answers first), `Reviews` is what the model reviewer may leave behind
once its remarks have been tested against the ledger. `Article` adds the one
action `WriteAndJudge`: any of the given drafts is judged on the package.

### LeadIntake

`site` is the configuration the running API loaded, `page` the one the web
server renders from, which it may keep after a deployment. `OpenForm`,
`Submit`, `Notify` and `RecordOutcome` are one request: the row, its consents and its attribution
are one transaction (`Stored`), the outcome of the notification another.
`Restart` kills the requests under way and loads another configuration
that `Loadable` accepts. An operator's terminal calls a lead of the report
(`Contact`), notes it (`FollowupRead`, `FollowupCommit`) or archives a lead
(`ArchiveRead`, `ArchiveCommit`), each in a session of its own. `Flush` writes
the columns that differ from what the session read. `form`, `ticked`, `mailed`
and `handled` are history: what the visitor saw and ticked, and whom the relay
or a human reached.

Abstracted: addresses and telephone numbers are the flag `emailOk`, an answer is
usable or not, the JSON of `qualification` is the set of the notes in it, and
the browser posts only what its form lets pass (`Submissions`).


## What each run checks

Bounds are small because a property that fails here fails with two of
everything: two jobs or publishers to overlap, two leads to confuse, two
renders for an approval to go stale, two attempts for the last one to differ
from the first, one crash. Values of `uuid4` and renders are interchangeable
(`SYMMETRY`).

| run | instance | shows |
|---|---|---|
| `ExportOneJob` | 4 leads, one of them frozen under v1 and one invalid, 1 job, batch of 3, 2 attempts, 1 crash, 4 configurations of the site | one prospect per lead at most, frozen identities, no 409 although the campaign changes between attempts (a payload built again would differ: the mutant `SendRebuilt`), `LeadExport` implements `LeadDelivery`, and, with fairness, every lead that can be sent is settled once the site stays ready |
| `ExportOverlap` | 2 leads, 2 jobs, 1 operator who archives | what survives overlapping jobs: EXPORTED is real, ids are the lead's own, an archived lead is never selected again |
| `PubOverlap` | 2 publishers, 1 clerk, 2 people, 3 versions | one live page, versions without holes, the latest verdict governs (on a draft older than layers too), no decision is erased, and `Publication` implements `PublishedPages` |
| `PubChannels` | 2 clerks, both channels, 1 publisher | every snapshot was approved by name |
| `DraftOverlap` | 2 stages of 2 keywords, 2 titles, 3 attempts, at most 1 finding of each kind | what the writer's stage keeps, that calls are booked, and that title, status, verdicts and approval agree |
| `ResearchOnce` | 2 jobs of one correlation id, 2 commands, 2 searches, ceilings of 3 and 2 calls | a search is launched once, a run settles what it launched, a job dies on a key only if another job holds it |
| `Article` | 10 pages, 7 queries, 3 authorities, 32 drafts; ceiling of 1 search, 4 facts, 2 answers of which 1 leads, 2 sentences read, floor of 3 | evidence was admitted, an established claim rests on one page that has all it needs, ended rules establish nothing, no search is repeated, figures of a draft that passes stand on a page, a refused claim is caught, the floor holds, required facts can be stated |
| `Intake` | 2 visits, 1 terminal, 3 configurations (one the loader refuses), 2 leads, a report of 1, 1 restart | consents are what was ticked, answers are true, notes survive, and, with fairness, every lead is contacted |

The bounds of the code that are larger in life (sixty sentences, 24 facts, 6
answers, 100 lines of report) are constants, set so low that both sides of each
occur. The thresholds 55 and 30 and the margin 5 are the code's own.

Runs whose expectation is a *violation* each show one sentence of the
repository that the code does not keep (see *findings* in `PROJECT.json`):

| run | what happens |
|---|---|
| `ExportOverlapIdentity` | two overlapping jobs mint two identities for one lead |
| `PubTrail` | the history attributes the new render to the old decision: the fingerprint is overwritten before the superseded decision is appended |
| `PubSuperseded` | the gate is not evaluated at publication: a snapshot goes live on a verdict superseded since |
| `ArticleRefs` | where results carry no id, two calls of web search number them alike: the verdict of an official page replaces that of a general one under the same reference |

`CHECK_DEADLOCK FALSE` is used where the system really stops: every lead is
settled and no crash is left, or every bound is reached.

## Fairness

* `ExportOneJob`: `WF` on a job's start (the docstring of `cmd_leads_export`
  leaves the schedule to a cron), on a running job's next step, and on the
  client's timeout (`PROSPECT360_TIMEOUT_SECONDS`). Nothing is assumed of the
  destination, of the site's owner or of operators. The batch is one place
  larger than the number of leads that can never be sent: those keep
  `PENDING_EXPORT` and their place at the head of the oldest-first selection, so
  with a batch no larger than their number the others would wait for ever.
* `Intake`: `WF` on the steps of a request and of a command that have begun, and
  `SF` on `Contact`: an operator goes on working through the report while it lists
  anybody, though other commands keep the terminal busy in between. Nothing is
  assumed of visitors, and a restart may come at any step.
* `Evidence` and `Article`: `WF` on `Next`, a job runs to its end. No
  listed property needs it.

## What is proved

`LeadExportProofs`, for any number of leads, jobs and operators:

* `TypeCorrect`, `RetriesEndAlways`. A job counts attempts from its snapshot, so
  the invariant must say that a snapshot it works on is of a waiting lead
  (`SnapshotsWait`), and that no row is ever `NEW` after its capture (`NeverNew`).
* `ExportedIsAlwaysReal`, `ProspectIsAlwaysTheLeads` from `RealInv`: the payload
  in any snapshot or on the wire belongs to its own lead, and an answer of
  success is held only while the prospect it speaks of exists.
* under the assumption `SingleJob` (at most one job): `IdentityIsAlwaysDurable`,
  `ExactlyOnce`, `IdentityIsFrozen` from `IdentityInv`: the snapshot agrees with
  the row in what concerns identity. `ExportOverlapIdentity` shows why the
  assumption is needed;
* `ArchivedAlwaysStaysOut`: a job holds a lead as waiting, so a flush that leaves
  it waiting writes no state, and one that does not makes it exported or failed;
* `NeverAConflict` from `ConflictInv`, with any number of jobs: of all payloads in
  rows, snapshots, requests and deposits (`Everywhere`), two of one correlation
  are the same payload, because a correlation is drawn once. Overlapping jobs
  may overwrite each other's identities and create two prospects, but no conflict;
* `ExportImplementsDelivery`, the refinement of `LeadDelivery`, under `OneJobOnly`
  (one job, nobody archives): to `RealInv` and `IdentityInv` it adds `StatesAgree`,
  that a lead a job still holds is waiting in its row. `StateSteps` and
  `DepositSteps` say once what a step may do to the states and to the deposits,
  and `DeliveryStep` maps each case to an action of `LeadDelivery` or to a stutter.

`PublicationProofs`, for any number of clerks, judges and publishers:

* `TypeCorrect`, `OneLiveAlways`;
* `SnapshotWasAlwaysApproved` from `NamedInv`: a recorded fingerprint is one an
  approval named (`RecordedIsNamed`), a command quotes a fingerprint only if it
  approves (`OnlyApprovalsQuote`), what a stager holds is named
  (`StagingIsNamed`) and what a publisher holds exists (`PublishingExists`). The
  parts are needed because the approval's columns are flushed one by one from
  stale reads: the fingerprint of one decision may meet the state of another.
* `PublicationImplementsPages`, the refinement, from the same invariant;
* `VersionsAlwaysASequence` with `StagingFollows`: the version a stager took
  follows one of its address, still at its commit since no row is deleted;
* `LatestAlwaysGoverns` under `SingleJudge`, from `VerdictInv`: in every layer the
  last row has the highest revision (`InOrder`), rows without a layer have
  revision 1, and a judge at work holds the next revision (`JudgeFollows`). It
  has to be kept by a `WriteAndJudge` that comes after re-judgements and puts its rows
  before theirs (`FirstInOrder`, `AppendInOrder`). With two judges
  it fails: one that read early commits its verdict after two of the other, under
  a lower revision, and the latest verdict never governs;
* `NothingIsErased` under `OneCommandLine` (one decision at a time, no API), from
  `TrailInv`: what the command read is what the row still holds, so the flush
  writes the whole of `DecideCli`;
* `DecisionsAreFinal` under `OneClerk` (one decision at a time, either channel), from
  `AllowedInv`: the state a command tested the transition against is still the
  row's. Two operators who both read PENDING break
  it, and the history of the second keeps no trace of the first.

`DraftStageProofs`, for any number of stages, keywords, titles and attempts:

* `TypeCorrect` with `Retrying`: a stage in `WRITING` may still ask once more,
  so the count of attempts never passes `MaxAttempts`;
* `NeverSampled`, `KeptIsNeverWorse`, `StatusAlwaysAgrees` from the conjuncts of
  `DraftInv` of the same subject and from `KeptWasJudged`: a draft is one of the
  attempts of its stage;
* `CannibalsOnlyTogether` from `JudgedByTitles` (an attempt whose title the
  stage had read is marked a duplicate), `Ordered` (of two stages with a draft
  that never ran together, one had read the other's, or that one had been
  rejected by then) and `RejectedForGood`. The last is the reason the theorem
  speaks of drafts still in play.

`ResearchRunProofs`, for any number of jobs, commands, searches and calls:

* `TypeCorrect` with `Targets`: a command works on a package that was committed;
* `NeverPaidTwice`, `RecordIsHonest` and `RunsSettle` from `LaunchInv`. `JobOk`
  says of a job that what it launched is what it recorded or has taken from its
  plan; `CommandOk` says of a command what it launched since it read the record
  and what its commit will leave owed; `PackageOk`, the part two commands could
  break, says that on an untroubled package at most one command is at work, with
  the record as it stands, and that every launched search is recorded or held by
  that command. `RecordIsHonest` and `RunsSettle` need only the first two, which
  is why they hold however commands overlap;
* `RecordsGrow`: a commit that writes the whole record back writes at least what is
  there, as long as no two commands overlapped on the package; of two that do,
  one erases what the other recorded;
* `DeliveredBooked`, since a package exists only from `BOOKING` on;
* `FailuresHaveCauses` from `CauseInv`: every committed key belongs to a job that
  holds the results and is past the point at which it commits them (`Before`), so
  the owner of a key a job runs into cannot be the job itself.

`EvidenceProofs` and `ArticleProofs`, for any pages, texts, vertical, registry,
answers of the providers and drafts. The code of this part loops over lists, and
induction over data is out of the prover's reach; so `Lists` defines filtering,
sorting and flattening by cardinalities and one recursive function, and
`ListProofs` says what they return (`AtIsList`, `RankedIsASort`, `ConcatIsList`) from
least counterexamples (`WFMin`). The rest is set theory:

* `Kept` is the inductive invariant of the research, one step per action in
  `NextKept`. Sources are lists of sources with a page (`SourcesKept`), what is kept
  for a reference is a verdict (`VerdictsKept`), the searches of a round are new ones
  and none is launched twice (`RoundKept`), before the gate there is no package and
  nothing official (`EarlyKept`), and from the gate on the package is exactly what
  `Build` makes of the sources and verdicts the job has, these being `Sound`
  (`PackageKept`). `Sound` is the part that is hard to see: one verdict is kept for
  each reference and references are used again, so it says that the verdict is one
  the gate may give to the last source that bears the reference. `Build` hears the
  last source of a reference as well (`WinnerIsAdmissible`), and `OverwriteSound` shows
  that judging more sources keeps the two together; a gate that kept the first
  verdict would not (the mutant `KeepFirst`);
* from it `TypeCorrect`, `CitedWasAdmitted` and `NeverAskedTwice`, the last through
  `PendingIsNew`; `PlanWithinCeiling` bounds a plan by the ceiling and one, the search
  the code does not count;
* `JobsRunOut`: `StepsLeft` counts the steps a job may still take, and every action
  lowers it (`NextCounts`), a round begun by what it costs at most (`AheadOf`), which is
  where the ceiling on plans and the bound of two rounds are needed. It is the part of
  termination that needs no fairness: a job that keeps going ends within
  2 * `MaxQueries` + 10 steps;
* `OnlySharedNamesMisjudge` draws the line around the finding of `ArticleRefs`: `Sound`
  says that the last source of a reference is judged on its own page and query, so
  the sources that are not are those whose reference a later one uses again;
* `EndedNeverCounts`: what a claim cites was weighed by `Evaluate` on pages of sources
  that bear the reference cited (`BuiltRests`, `KeptRests`), and a SUPPORTED claim is one
  for which no rung of the ladder held (`Ladder`, `FirstRung`);
* `OnePageEstablishes`: several sources may share a reference, and the package keeps
  passages, quality, region and verdict by reference. The theorem says that they come
  from one and the same page all the same: the winner of the reference is admitted
  by its own verdict (`WinnerIsAdmissible`), the passage cited is of that page
  (`CitedPassage`), and so are the quality and the region that met the claim's bar
  (`CitedIsOfTheWinner`);
* `RefusedNeverPasses`, with `Judged` (a judged draft has the findings and at least
  the objections its package gives it): a refused claim repeated with its words and
  its figures is caught. The argument is arithmetic: no rival can be stronger than a
  claim against a sentence with its own words and figures (`NoneStronger`), and it
  beats none at all by more than the margin as long as that is below 80
  (`StrongerThanNone`, `GateAssumption`). `RepeatedIsRefused` states it of the gate
  alone;
* `FiguresComeFromPages` follows a figure back: a sentence that passes is carried by
  a supported claim (`CarriedBySome`), that claim is of the package, and its text was
  read off a page of a source that was admitted (`KeptStandsOnAPage`, `SaidOnAPage`);
* `FloorOfDistinctFacts`: the facts of a brief are distinct except for the answers
  put before them. `SpreadAssorted` shows that the order by subject is one, turn,
  category and region telling any two claims apart (`TurnsDiffer`, `Lexicographic`),
  and hence that the spread repeats none; `CountedTwiceAtMostForLead` counts;
* `BriefCanBeWritten`: a text matches, carries and echoes itself (`MatchesItself`,
  `CarriesItself`, `EchoesItself`), and of all the rules of both gates only four can raise
  the codes in question (`UntracedByTwoRules`, `ThinByTwoRules`).

The assumptions say what the code makes true of its data. A vertical orders known
categories (`VerticalAssumption`: another one stops at the lookup), search templates
and answers name pages and queries that exist (`TemplateAssumption`,
`AnswersAssumption`), the local market is a region (`MarketAssumption`), and the
texts of pages and drafts are lists of sentences of finitely many words and figures
(`PagesAssumption`, `DraftsAssumption`). TLC evaluates all of them in `Article`.

`LeadIntakeProofs`, for any number of visits, terminals, leads and deployments:

* `TypeCorrect` with `Numbered`: the rows of the database are the leads, in the
  order they came;
* `GrantsAreTicked`, `AnswersAreTrue` from `Inv`: every row is `Honest` (what it
  grants was ticked on the form its visitor read), and what a visit may say
  depends on how far it came (`VisitOK`, one case for each value of `pc`). A step
  of somebody else keeps it because rows are only written over, never removed or
  given to another lead (`Grown`, `Succeeds`), and the people reached and the
  number of restarts only grow;
* `NobodyIsLost`: a row whose notification is recorded is one of a lead somebody
  was told of (`RowOK`), and a terminal that is about to mark a lead has had it
  on the telephone (`TerminalOK`), so leaving the list needs one of the two;
* `NotesNeverLost` under `SingleDesk`: what the terminal read of the notes is what
  the row holds (`NotesAgree`). The notifier, which writes the same row after the
  operator, does not write that column; a second terminal does, from what it
  read, and may lose a note of the first.

Theorems without a run of their own (`IdentityIsAlwaysDurable`, `RetriesEndAlways`,
`NeverSampled`, `DeliveredBooked`, `JobsRunOut` and others) were first checked by
TLC and hold for every value of the constants, so no run repeats them.

Only model-checked: liveness and fairness (`EveryLeadSettles`,
`EveryLeadIsContacted`), which with `ENABLED` are beyond the prover. Every other
property that a passing run checks is also a theorem, some under an assumption that
the run makes as well (`SingleJob`, `OneJobOnly`, `SingleJudge`, `OneCommandLine`,
`SingleDesk`). Induction over data is beyond the prover too: where only an
extreme element is needed, a least counterexample (`WFMin`) replaces it.

## What the code does that no run is spent on

Seen while modelling. Where it is not said, no text of the repository promises
otherwise, or the code says it plainly; several are among the hazards.

* Export: a lead may be archived although its prospect exists (`EXPORTING` is a
  state no code sets). Leads that can never be sent keep the head of the batch.
* Decisions: one through the API keeps no history. Of two taken at the same moment
  the second replaces the first, a rejection too, although
  `approval_service.py:10` calls a rejection terminal (`DecisionsStand` holds
  under `OneClerk` only). A publisher with a stale read brings an archived
  snapshot back.
* Research: of two commands that resolve searches of one package at the same
  moment the second erases what the first recorded, although `cli.py:228` says a
  search is never given up silently (`RecordsGrow` holds of untroubled packages
  only). A job that bought a SERP, or whose research failed, ends without booking
  the usage (`pipeline_v2.py:359`, `447`). A pending authority under `.fgov.be` is
  official by its suffix (`source_quality.py:92`). The model may promote a page of
  the middle (`relevance.py:369`). Corroboration is counted before evidence of
  other regions is dropped (`evidence_model.py:374`), and authority and freshness
  may be met by two different pages.
* Factual gate: a payback is not tested for a date where several claims carry its
  figures (`factual_qa_v2.py:833`); of several sentences that state a regional
  claim the first answers for all; a fact with one long word matches no claim,
  even verbatim (`factual_qa_v2.py:383`); the brief may require a payback that the
  gate then refuses for want of a date.
* Editorial gate: a sentence judged as an offer is not judged as a promise
  (`qa_service.py:660`); an answer that is also a fact counts twice against the
  floor, which `SubstanceFloor` therefore states up to `Lead`; the pattern of a
  duration in years has no boundary at its end (`qa_service.py:851`).
* Capture: the version stored with a consent is the running configuration's, not
  that of the form the visitor read; the rate limiter is created anew for each
  submission (`lead_capture.py:273`), so it limits nothing.

## Not modelled

* The v1 pipeline (`services/pipeline.py`) and the SERP cache: the same shape as
  `ResearchRun` with one layer less or one lookup more.
* The Last30Days runner and the HTTP adapters: separate processes; what `src/app`
  sees of them is an answer, an unreadable answer or a failure, which
  `ResearchRun` and `Evidence` enumerate.
* Regression watch, sanitizer, web front end, schemas, migrations: read-only,
  text processing, or no state of their own.
* Price normalisation beyond whether a price is usable, the opportunity score,
  the brief's outline and its enrichment by a model, source dates beyond those
  freshness reads, advisory findings: data that decides no state modelled here.
* Regular expressions: they are the inputs of `Claims`, `FactualGate` and
  `Editorial`. What a rule does with a misreading is modelled, what is misread is not.

## Plan

Done: the export, publication, draft stage and research run with their proofs;
then evidence, gates and brief (`Article`), and capture (`LeadIntake`). Left, in
order:

1. Composition of `DraftStage` with `Publication` (a draft whose stage died is
   never staged) and of `LeadIntake` with `LeadExport` (archival and follow-up
   while a deposit is on its way).
2. Price normalisation and the opportunity score, pure, checked against their
   reference definitions at the thresholds.
3. `ResearchRun` with the SERP cache and its time to live; the v1 pipeline.
4. `Runner`: the Last30Days service, in-memory results by idempotency key and
   its restart, with the client's polling and retries around it.
