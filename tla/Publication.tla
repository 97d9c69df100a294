---------------------------- MODULE Publication ----------------------------
(***************************************************************************)
(* From a judged draft to a live page: the deterministic verdicts and      *)
(* their re-judgement (cli.cmd_qa_rejudge), the human approval through its  *)
(* two channels (cli._decide and api/internal._decide over                 *)
(* services/approval_service.py), and the gate, staging and publication of *)
(* site/publication.py.                                                    *)
(*                                                                         *)
(* Every command reads its rows in a session of its own, never refreshes   *)
(* them, locks nothing, and flushes only the columns that differ from what *)
(* it read.  Each is therefore a read step and a commit step, and commands *)
(* interleave between the two.  A command that dies before its commit has  *)
(* written nothing, and one refused changes nothing: neither is a step.    *)
(*                                                                         *)
(* Abstracted: a render is what render_fingerprint digests, and the        *)
(* fingerprint is the render; dates and notes; the findings of a verdict,  *)
(* down to whether the layer passes; noindex, canonical path and the rest  *)
(* of a snapshot's content; a row without a layer is taken as classified.  *)
(***************************************************************************)
EXTENDS Naturals, Sequences, FiniteSets

CONSTANTS
    Draft, Render, Address, Person,
    Clerk,         \* approval commands that may run at the same time
    Channel,       \* where decisions are taken: "cli", "api"
    Judge,         \* re-judgements that may run at the same time
    Publisher,     \* stage and publish commands that may run at the same time
    OldDraft,      \* drafts judged and approved before layers and fingerprints
    OldApprover,   \* who approved them
    MaxHistory,    \* bound of the model: superseded decisions of a draft
    MaxVerdicts,   \* bound of the model: verdicts of a layer
    MaxVersion,    \* bound of the model: snapshots at an address
    NoDraft, NoRender, Nobody, NoAddress

ASSUME SetAssumption ==
    /\ OldDraft \subseteq Draft
    /\ OldApprover \in Person
    /\ Channel \subseteq {"cli", "api"}
ASSUME BoundAssumption ==
    MaxHistory \in Nat /\ MaxVerdicts \in Nat /\ MaxVersion \in Nat
ASSUME NoneAssumption ==
    /\ NoDraft \notin Draft
    /\ NoRender \notin Render
    /\ Nobody \notin Person
    /\ NoAddress \notin Address

ApprovalState == {"NONE", "PENDING", "APPROVED", "REJECTED", "NEEDS_REVISION"}
Layer == {"FACTUAL", "SEO"}

Decision == [state : ApprovalState, by : Person \cup {Nobody},
             fp : Render \cup {NoRender}]
Approval == [state : ApprovalState, by : Person \cup {Nobody},
             fp : Render \cup {NoRender}, history : Seq(Decision)]
\* One qa_review row; layered is FALSE on a row older than the layer column.
Verdict == [rev : Nat \ {0}, ok : BOOLEAN, layered : BOOLEAN]
Snapshot == [state : {"ABSENT", "STAGED", "PUBLISHED", "ARCHIVED"},
             draft : Draft \cup {NoDraft}, render : Render \cup {NoRender}]

NoApproval == [state |-> "NONE", by |-> Nobody, fp |-> NoRender,
               history |-> << >>]
NoSnapshot == [state |-> "ABSENT", draft |-> NoDraft, render |-> NoRender]

IdleClerk == [draft |-> NoDraft, target |-> "NONE", channel |-> "cli",
              by |-> Nobody, given |-> NoRender, seen |-> NoApproval]
IdleJudge == [draft |-> NoDraft, rev |-> [y \in Layer |-> 0],
              ok |-> [y \in Layer |-> FALSE]]
IdlePublisher == [step |-> "idle", address |-> NoAddress, version |-> 0,
                  draft |-> NoDraft, render |-> NoRender, live |-> {}]

-----------------------------------------------------------------------------
VARIABLES
    render,      \* draft: what it would show as the rules and rows stand
    settled,     \* draft: every proposed search was run or abandoned
    sound,       \* draft: no outbound link, no blocking advisory finding
    verdicts,    \* draft, layer: its qa_review rows, in order of created_at
    approval,    \* draft: its one approval row
    page,        \* address, version: the published_content row
    publishable, \* the site has a domain and allows publication
    clerk,       \* approval command: what it read and is about to write
    judge,       \* re-judgement: what it read and is about to write
    publisher,   \* stage or publish command: what it read
    decided      \* history: every decision a person committed on a draft

draftVars == <<render, settled, sound, verdicts, approval, decided>>
vars == <<draftVars, page, publishable, clerk, judge, publisher>>

OldVerdict == [rev |-> 1, ok |-> TRUE, layered |-> FALSE]
OldDecision == [state |-> "APPROVED", by |-> OldApprover, fp |-> NoRender]
OldApproval == [state |-> "APPROVED", by |-> OldApprover, fp |-> NoRender,
                history |-> << >>]

Init ==
    /\ render \in [Draft -> Render]
    /\ settled \in [Draft -> BOOLEAN]
    /\ sound = [d \in Draft |-> d \in OldDraft]
    /\ verdicts = [d \in Draft |-> [y \in Layer |->
                     IF d \in OldDraft THEN <<OldVerdict>> ELSE << >>]]
    /\ approval = [d \in Draft |-> IF d \in OldDraft THEN OldApproval
                                                     ELSE NoApproval]
    /\ page = [a \in Address |-> [v \in 1 .. MaxVersion |-> NoSnapshot]]
    /\ publishable \in BOOLEAN
    /\ clerk = [c \in Clerk |-> IdleClerk]
    /\ judge = [j \in Judge |-> IdleJudge]
    /\ publisher = [p \in Publisher |-> IdlePublisher]
    /\ decided = [d \in Draft |-> IF d \in OldDraft THEN {OldDecision} ELSE {}]

-----------------------------------------------------------------------------
(* Around the commands                                                     *)

\* write_and_judge, its second commit: the draft of the first one gets a verdict
\* of each layer, at revision 1, and a PENDING approval whatever they say.  The
\* verdicts are dated before the advisory review is asked for, so they come
\* before those of a re-judgement that committed while it was.
WriteAndJudge(d) ==
    /\ approval[d] = NoApproval
    /\ approval' = [approval EXCEPT ![d].state = "PENDING"]
    /\ \E ok \in [Layer -> BOOLEAN] :
         verdicts' = [verdicts EXCEPT ![d] = [y \in Layer |->
                        <<[rev |-> 1, ok |-> ok[y], layered |-> TRUE]>> \o @[y]]]
    /\ \E b \in BOOLEAN : sound' = [sound EXCEPT ![d] = b]
    /\ UNCHANGED <<render, settled, decided, page, publishable, clerk, judge,
                   publisher>>

\* An edit of the stored rows, or a deployment that reads them under new rules.
Drift(d) ==
    /\ \E r \in Render \ {render[d]} : render' = [render EXCEPT ![d] = r]
    /\ UNCHANGED <<settled, sound, verdicts, approval, decided, page,
                   publishable, clerk, judge, publisher>>

\* The last proposed search of the draft's package is run or abandoned.
Settle(d) ==
    /\ ~settled[d]
    /\ settled' = [settled EXCEPT ![d] = TRUE]
    /\ UNCHANGED <<render, sound, verdicts, approval, decided, page,
                   publishable, clerk, judge, publisher>>

\* The owner edits the site's YAML.
Configure ==
    /\ publishable' = ~publishable
    /\ UNCHANGED <<draftVars, page, clerk, judge, publisher>>

-----------------------------------------------------------------------------
(* Human decisions                                                         *)

\* approval_service._ALLOWED
Allowed ==
    ({"PENDING", "NEEDS_REVISION"} \X {"APPROVED", "REJECTED", "NEEDS_REVISION"})
    \cup {<<"APPROVED", "APPROVED">>}

\* The approval row is read and the transition allowed.  An approval given on
\* the command line quotes a fingerprint, refused unless it is the render's.
DecideRead(c, d) ==
    /\ clerk[c] = IdleClerk
    /\ Len(approval[d].history) < MaxHistory
    /\ \E target \in ApprovalState, channel \in Channel, by \in Person :
         /\ <<approval[d].state, target>> \in Allowed
         /\ clerk' = [clerk EXCEPT ![c] =
            [draft |-> d, target |-> target, channel |-> channel, by |-> by,
             given |-> IF channel = "cli" /\ target = "APPROVED"
                       THEN render[d] ELSE NoRender,
             seen |-> approval[d]]]
    /\ UNCHANGED <<draftVars, page, publishable, judge, publisher>>

\* Mutants of DecideCli: approving again overwrites without history; the entry
\* of the history holds the whole row, its own history included.
DecideOverwrites(w) ==
    [w.seen EXCEPT !.state = w.target, !.by = w.by, !.fp = w.given]

DecideNests(w) ==
    [w.seen EXCEPT !.state = w.target, !.by = w.by, !.fp = w.given,
        !.history = IF w.seen.by = Nobody THEN @ ELSE Append(@, w.seen)]

\* cli._decide names the render first, then appends the superseded decision.
DecideCli(w) ==
    [w.seen EXCEPT !.state = w.target, !.by = w.by, !.fp = w.given,
        !.history = IF w.seen.by = Nobody THEN @ ELSE Append(@,
            [state |-> w.seen.state, by |-> w.seen.by, fp |-> w.given])]

\* Mutant of DecideApi: an approval names the render as it stands, unread.
DecideUnread(w) ==
    [w.seen EXCEPT !.state = w.target, !.by = w.by, !.fp = render[w.draft]]

\* api/internal._decide names no render and keeps no history.
DecideApi(w) == [w.seen EXCEPT !.state = w.target, !.by = w.by]

\* UPDATE of the row: only the columns that differ from what was read.
Changed(new, old, db) == IF new # old THEN new ELSE db

Flush(db, old, new) ==
    [state   |-> Changed(new.state, old.state, db.state),
     by      |-> Changed(new.by, old.by, db.by),
     fp      |-> Changed(new.fp, old.fp, db.fp),
     history |-> Changed(new.history, old.history, db.history)]

DecideCommit(c) ==
    /\ clerk[c] # IdleClerk
    /\ LET w == clerk[c]
           d == w.draft
           new == IF w.channel = "cli" THEN DecideCli(w) ELSE DecideApi(w)
       IN  /\ approval' = [approval EXCEPT ![d] = Flush(@, w.seen, new)]
           /\ decided' = [decided EXCEPT ![d] = @ \cup
                {[state |-> w.target, by |-> w.by, fp |-> w.given]}]
    /\ clerk' = [clerk EXCEPT ![c] = IdleClerk]
    /\ UNCHANGED <<render, settled, sound, verdicts, page, publishable, judge,
                   publisher>>

-----------------------------------------------------------------------------
(* Re-judgement: `qa rejudge --apply`                                      *)

\* The revision after the highest one among the rows that name their layer.
IsNextRevision(n, rows) ==
    LET revs == {rows[i].rev : i \in {k \in DOMAIN rows : rows[k].layered}}
    IN  (\A r \in revs : r < n) /\ (n = 1 \/ n - 1 \in revs)

RejudgeRead(j, d) ==
    /\ judge[j] = IdleJudge
    /\ \A y \in Layer : Len(verdicts[d][y]) < MaxVerdicts
    /\ \E ok \in [Layer -> BOOLEAN], rev \in [Layer -> 1 .. MaxVerdicts] :
         /\ \A y \in Layer : IsNextRevision(rev[y], verdicts[d][y])
         /\ judge' = [judge EXCEPT ![j] = [draft |-> d, ok |-> ok, rev |-> rev]]
    /\ UNCHANGED <<draftVars, page, publishable, clerk, publisher>>

\* A verdict is added to each layer, never corrected.
RejudgeCommit(j) ==
    /\ judge[j] # IdleJudge
    /\ LET w == judge[j]
       IN  verdicts' = [verdicts EXCEPT ![w.draft] = [y \in Layer |->
             Append(@[y], [rev |-> w.rev[y], ok |-> w.ok[y], layered |-> TRUE])]]
    /\ judge' = [judge EXCEPT ![j] = IdleJudge]
    /\ UNCHANGED <<render, settled, sound, approval, decided, page, publishable,
                   clerk, publisher>>

-----------------------------------------------------------------------------
(* The gate, staging and publication                                       *)

\* Mutant of Governs: among equal revisions the first row decides.
GovernsFirst(rows, i) ==
    \A k \in DOMAIN rows :
        rows[k].rev < rows[i].rev \/ (rows[k].rev = rows[i].rev /\ k >= i)

\* _governing: the highest revision, the latest row among equals.
Governs(rows, i) ==
    \A k \in DOMAIN rows :
        rows[k].rev < rows[i].rev \/ (rows[k].rev = rows[i].rev /\ k <= i)
Passes(rows) == \E i \in DOMAIN rows : Governs(rows, i) /\ rows[i].ok

\* Mutant of Gate: an approval that names some render is enough.
GateAnyRender(d) ==
    /\ \A y \in Layer : Passes(verdicts[d][y])
    /\ sound[d]
    /\ settled[d]
    /\ approval[d].state = "APPROVED"
    /\ approval[d].fp # NoRender

\* evaluate_gate
Gate(d) ==
    /\ \A y \in Layer : Passes(verdicts[d][y])
    /\ sound[d]
    /\ settled[d]
    /\ approval[d].state = "APPROVED"
    /\ approval[d].fp = render[d]

Versions(a) == {v \in 1 .. MaxVersion : page[a][v].state # "ABSENT"}
Live(a) == {v \in 1 .. MaxVersion : page[a][v].state = "PUBLISHED"}
\* Mutant of IsNextVersion: any number above the ones in use.
IsFreeVersion(n, a) == \A v \in Versions(a) : v < n

IsNextVersion(n, a) ==
    (\A v \in Versions(a) : v < n) /\ (n = 1 \/ n - 1 \in Versions(a))

\* stage_content: the gate passes, the next version is read, the content is
\* taken from the rows the session holds.
StageRead(p, d, a) ==
    /\ publisher[p] = IdlePublisher
    /\ Gate(d)
    /\ \E n \in 1 .. MaxVersion :
         /\ IsNextVersion(n, a)
         /\ publisher' = [publisher EXCEPT ![p] =
               [step |-> "staging", address |-> a, version |-> n,
                draft |-> d, render |-> render[d], live |-> {}]]
    /\ UNCHANGED <<draftVars, page, publishable, clerk, judge>>

\* The snapshot is inserted, unless uq_pub_slug_version refuses the version.
StageCommit(p) ==
    LET w == publisher[p]
    IN  /\ w.step = "staging"
        /\ page' = IF page[w.address][w.version].state # "ABSENT" THEN page
                   ELSE [page EXCEPT ![w.address][w.version] =
                           [state |-> "STAGED", draft |-> w.draft,
                            render |-> w.render]]
        /\ publisher' = [publisher EXCEPT ![p] = IdlePublisher]
        /\ UNCHANGED <<draftVars, publishable, clerk, judge>>

\* cmd_content_publish: the configuration is loaded, the snapshot read and
\* found STAGED.  The gate is not evaluated again.
PublishRead(p, a, v) ==
    /\ publisher[p] = IdlePublisher
    /\ publishable
    /\ page[a][v].state = "STAGED"
    /\ publisher' = [publisher EXCEPT ![p] =
          [IdlePublisher EXCEPT !.step = "publishing", !.address = a,
                                !.version = v]]
    /\ UNCHANGED <<draftVars, page, publishable, clerk, judge>>

\* publish_content: the rows live at the address are read.
LiveRead(p) ==
    /\ publisher[p].step = "publishing"
    /\ publisher' = [publisher EXCEPT ![p].step = "swapping",
                                      ![p].live = Live(publisher[p].address)]
    /\ UNCHANGED <<draftVars, page, publishable, clerk, judge>>

\* Mutant of PublishCommit: the schema without uq_pub_live.
PublishWithoutIndex(p) ==
    LET w == publisher[p]
    IN  /\ w.step = "swapping"
        /\ page' = [page EXCEPT ![w.address] = [v \in 1 .. MaxVersion |->
              IF v = w.version THEN [@[v] EXCEPT !.state = "PUBLISHED"]
              ELSE IF v \in w.live THEN [@[v] EXCEPT !.state = "ARCHIVED"]
              ELSE @[v]]]
        /\ publisher' = [publisher EXCEPT ![p] = IdlePublisher]
        /\ UNCHANGED <<draftVars, publishable, clerk, judge>>

\* The rows found live are archived and the snapshot goes live, in one
\* transaction; if uq_pub_live finds another live row, nothing happened.
PublishCommit(p) ==
    LET w == publisher[p]
        a == w.address
    IN  /\ w.step = "swapping"
        /\ page' = IF Live(a) \ (w.live \cup {w.version}) # {} THEN page
                   ELSE [page EXCEPT ![a] = [v \in 1 .. MaxVersion |->
                          IF v = w.version
                          THEN [page[a][v] EXCEPT !.state = "PUBLISHED"]
                          ELSE IF v \in w.live
                          THEN [page[a][v] EXCEPT !.state = "ARCHIVED"]
                          ELSE page[a][v]]]
        /\ publisher' = [publisher EXCEPT ![p] = IdlePublisher]
        /\ UNCHANGED <<draftVars, publishable, clerk, judge>>

-----------------------------------------------------------------------------
Next ==
    \/ \E d \in Draft : WriteAndJudge(d) \/ Drift(d) \/ Settle(d)
    \/ Configure
    \/ \E c \in Clerk : DecideCommit(c) \/ \E d \in Draft : DecideRead(c, d)
    \/ \E j \in Judge : RejudgeCommit(j) \/ \E d \in Draft : RejudgeRead(j, d)
    \/ \E p \in Publisher :
         \/ StageCommit(p) \/ LiveRead(p) \/ PublishCommit(p)
         \/ \E d \in Draft, a \in Address : StageRead(p, d, a)
         \/ \E a \in Address, v \in 1 .. MaxVersion : PublishRead(p, a, v)

Spec == Init /\ [][Next]_vars

-----------------------------------------------------------------------------
(* Invariants                                                              *)

\* Every row, and what every command holds, has its type.
TypeOK ==
    /\ render \in [Draft -> Render]
    /\ settled \in [Draft -> BOOLEAN]
    /\ sound \in [Draft -> BOOLEAN]
    /\ verdicts \in [Draft -> [Layer -> Seq(Verdict)]]
    /\ approval \in [Draft -> Approval]
    /\ page \in [Address -> [1 .. MaxVersion -> Snapshot]]
    /\ publishable \in BOOLEAN
    /\ clerk \in [Clerk ->
         [draft : Draft, target : ApprovalState, channel : Channel, by : Person,
          given : Render \cup {NoRender}, seen : Approval] \cup {IdleClerk}]
    /\ judge \in [Judge ->
         [draft : Draft, rev : [Layer -> Nat \ {0}], ok : [Layer -> BOOLEAN]]
         \cup {IdleJudge}]
    /\ publisher \in [Publisher ->
         [step : {"staging", "publishing", "swapping"}, address : Address,
          version : 1 .. MaxVersion, draft : Draft \cup {NoDraft},
          render : Render \cup {NoRender}, live : SUBSET (1 .. MaxVersion)]
         \cup {IdlePublisher}]
    /\ decided \in [Draft -> SUBSET Decision]

\* "What was approved is what is rendered": every snapshot, live or not, shows
\* a render that a person approved by its fingerprint, whatever drifts, stale
\* reads and decisions through the other channel came in between.
SnapshotWasApproved ==
    \A a \in Address, v \in 1 .. MaxVersion :
        page[a][v].state # "ABSENT" =>
            \E e \in decided[page[a][v].draft] :
                e.state = "APPROVED" /\ e.fp = page[a][v].render

\* At most one row is live at an address, also when publishers overlap.
OneLive == \A a \in Address : \A v, w \in Live(a) : v = w

\* The versions of an address are numbered without a hole: a page's history
\* reads as its own sequence, also when stagers overlap.
VersionsAreASequence ==
    \A a \in Address : \A v \in Versions(a) : 1 .. v \subseteq Versions(a)

\* "The verdict that governs is the latest one", also over rows written before
\* layers existed, whose revision the first re-judgement repeats.
LatestVerdictGoverns ==
    \A d \in Draft, y \in Layer :
        verdicts[d][y] # << >> => Governs(verdicts[d][y], Len(verdicts[d][y]))

Trail(d) ==
    {approval[d].history[i] : i \in DOMAIN approval[d].history}
    \cup {[state |-> approval[d].state, by |-> approval[d].by,
           fp |-> approval[d].fp]}

\* "Re-affirming never erases who decided what": every committed decision is
\* the current one or in the history.  It holds for decisions taken one at a
\* time on the command line; the other channel keeps no history.
NoDecisionErased ==
    \A d \in Draft : \A e \in decided[d] :
        \E t \in Trail(d) : t.state = e.state /\ t.by = e.by

\* "Who approved what": the trail names the render each decision named.  The
\* code does not guarantee it: PubTrail.cfg shows the history naming another.
TrailNamesTheRender == \A d \in Draft : decided[d] \subseteq Trail(d)

-----------------------------------------------------------------------------
(* Action properties                                                       *)

\* "A decision is not silently reversible": a rejection is final, and an
\* approval is only given again (approval_service.py 9).  Of decisions taken one at a
\* time this holds; of two simultaneous ones the second may replace the first.
DecisionsStand ==
    [][\A d \in Draft : approval[d].state \in {"APPROVED", "REJECTED"}
                          => approval'[d].state = approval[d].state]_vars

\* A superseded verdict does not govern publication: a snapshot goes live only
\* on verdicts that pass.  Not guaranteed: see PubSuperseded.cfg.
NoSupersededVerdict ==
    [][\A a \in Address, v \in 1 .. MaxVersion :
          page[a][v].state = "STAGED" /\ page'[a][v].state = "PUBLISHED"
          => \A y \in Layer : Passes(verdicts[page[a][v].draft][y])]_vars

-----------------------------------------------------------------------------
(* What publication implements                                             *)

Shown(a) ==
    IF Live(a) = {} THEN NoAddress
    ELSE LET v == CHOOSE v \in Live(a) : TRUE
         IN  <<page[a][v].draft, page[a][v].render>>

ApprovedRenders ==
    {x \in Draft \X Render :
        \E e \in decided[x[1]] : e.state = "APPROVED" /\ e.fp = x[2]}

Abstract == INSTANCE PublishedPages WITH
    Nothing <- NoAddress, approved <- ApprovedRenders,
    shown <- [a \in Address |-> Shown(a)]

\* Publication implements PublishedPages: an address shows only what a person
\* approved by name, and once it shows a page it never goes dark.
ImplementsPages == Abstract!Spec
=============================================================================
