------------------------- MODULE PublicationProofs -------------------------
(***************************************************************************)
(* Theorems about Publication, for every set of drafts, renders,           *)
(* addresses, people and commands running at the same time.                *)
(***************************************************************************)
EXTENDS Publication, TLAPS

-----------------------------------------------------------------------------
(* Typing                                                                  *)

ClerkWork ==
    [draft : Draft, target : ApprovalState, channel : Channel, by : Person,
     given : Render \cup {NoRender}, seen : Approval]
JudgeWork ==
    [draft : Draft, rev : [Layer -> Nat \ {0}], ok : [Layer -> BOOLEAN]]
PublisherWork ==
    [step : {"staging", "publishing", "swapping"}, address : Address,
     version : 1 .. MaxVersion, draft : Draft \cup {NoDraft},
     render : Render \cup {NoRender}, live : SUBSET (1 .. MaxVersion)]

\* A command that is not idle holds what its work needs.
LEMMA AtWork ==
  ASSUME TypeOK
  PROVE  /\ \A c \in Clerk : clerk[c] # IdleClerk => clerk[c] \in ClerkWork
         /\ \A j \in Judge : judge[j] # IdleJudge => judge[j] \in JudgeWork
         /\ \A p \in Publisher :
              publisher[p].step # "idle" => publisher[p] \in PublisherWork
<1>1. \A c \in Clerk : clerk[c] # IdleClerk => clerk[c] \in ClerkWork
  BY DEF TypeOK, ClerkWork
<1>2. \A j \in Judge : judge[j] # IdleJudge => judge[j] \in JudgeWork
  BY DEF TypeOK, JudgeWork
<1>3. ASSUME NEW p \in Publisher, publisher[p].step # "idle"
      PROVE  publisher[p] \in PublisherWork
  <2>1. publisher[p] # IdlePublisher
    BY <1>3 DEF IdlePublisher
  <2> QED BY <2>1 DEF TypeOK, PublisherWork
<1> QED BY <1>1, <1>2, <1>3

LEMMA ApprovalInitType == NoApproval \in Approval /\ OldApproval \in Approval
<1>1. << >> \in Seq(Decision)
  OBVIOUS
<1> QED BY <1>1, SetAssumption
        DEF NoApproval, OldApproval, Approval, ApprovalState

\* What a decision makes of the row it read, through either channel, and what
\* the flush leaves of two rows, are approval rows.
LEMMA DecideType ==
  ASSUME NEW w \in ClerkWork
  PROVE  DecideCli(w) \in Approval /\ DecideApi(w) \in Approval
<1> DEFINE e == [state |-> w.seen.state, by |-> w.seen.by, fp |-> w.given]
<1>1. /\ w.seen \in Approval /\ w.seen.history \in Seq(Decision)
      /\ w.target \in ApprovalState /\ w.by \in Person
      /\ w.given \in Render \cup {NoRender}
  BY DEF ClerkWork, Approval
<1>2. e \in Decision
  BY <1>1 DEF Decision, Approval
<1>3. Append(w.seen.history, e) \in Seq(Decision)
  BY <1>1, <1>2
<1>4. DecideApi(w) \in Approval
  BY <1>1 DEF DecideApi, Approval
<1>5. DecideCli(w) = [w.seen EXCEPT !.state = w.target, !.by = w.by,
         !.fp = w.given,
         !.history = IF w.seen.by = Nobody THEN @ ELSE Append(@, e)]
  BY DEF DecideCli
<1> HIDE DEF e
<1>6. DecideCli(w) \in Approval
  BY <1>1, <1>3, <1>5 DEF Approval
<1> QED BY <1>4, <1>6

LEMMA FlushType ==
  ASSUME NEW db \in Approval, NEW old \in Approval, NEW new \in Approval
  PROVE  Flush(db, old, new) \in Approval
BY DEF Flush, Changed, Approval

LEMMA TypeInit == Init => TypeOK
<1> SUFFICES ASSUME Init PROVE TypeOK
  OBVIOUS
<1> USE DEF Init
<1>1. approval \in [Draft -> Approval]
  BY ApprovalInitType
<1>2. page \in [Address -> [1 .. MaxVersion -> Snapshot]]
  BY DEF NoSnapshot, Snapshot
<1>3. decided \in [Draft -> SUBSET Decision]
  BY SetAssumption DEF OldDecision, Decision, ApprovalState
<1>4. verdicts \in [Draft -> [Layer -> Seq(Verdict)]]
  <2>1. OldVerdict \in Verdict
    BY DEF OldVerdict, Verdict
  <2>2. <<OldVerdict>> \in Seq(Verdict) /\ << >> \in Seq(Verdict)
    BY <2>1
  <2> QED BY <2>2
<1> QED BY <1>1, <1>2, <1>3, <1>4 DEF TypeOK

LEMMA TypeStep == TypeOK /\ [Next]_vars => TypeOK'
<1> SUFFICES ASSUME TypeOK, [Next]_vars PROVE TypeOK'
  OBVIOUS
<1> USE DEF TypeOK, draftVars
<1>1. ASSUME NEW d \in Draft, WriteAndJudge(d) PROVE TypeOK'
  <2>1. [approval[d] EXCEPT !.state = "PENDING"] \in Approval
    BY DEF Approval, ApprovalState
  <2>2. approval' \in [Draft -> Approval]
    BY <1>1, <2>1 DEF WriteAndJudge
  <2>3. verdicts' \in [Draft -> [Layer -> Seq(Verdict)]]
    <3>1. PICK ok \in [Layer -> BOOLEAN] :
            verdicts' = [verdicts EXCEPT ![d] = [y \in Layer |->
                          <<[rev |-> 1, ok |-> ok[y], layered |-> TRUE]>> \o @[y]]]
      BY <1>1 DEF WriteAndJudge
    <3>2. \A y \in Layer : [rev |-> 1, ok |-> ok[y], layered |-> TRUE] \in Verdict
      BY DEF Verdict
    <3>3. \A y \in Layer :
            <<[rev |-> 1, ok |-> ok[y], layered |-> TRUE]>> \o verdicts[d][y]
              \in Seq(Verdict)
      BY <3>2
    <3> QED BY <3>1, <3>3
  <2>4. sound' \in [Draft -> BOOLEAN]
    BY <1>1 DEF WriteAndJudge
  <2> QED BY <1>1, <2>2, <2>3, <2>4 DEF WriteAndJudge
<1>2. ASSUME NEW d \in Draft, Drift(d) PROVE TypeOK'
  BY <1>2 DEF Drift
<1>3. ASSUME NEW d \in Draft, Settle(d) PROVE TypeOK'
  BY <1>3 DEF Settle
<1>4. CASE Configure
  BY <1>4 DEF Configure
<1>5. ASSUME NEW c \in Clerk, NEW d \in Draft, DecideRead(c, d) PROVE TypeOK'
  <2>1. PICK target \in ApprovalState, channel \in Channel, by \in Person :
          clerk' = [clerk EXCEPT ![c] =
            [draft |-> d, target |-> target, channel |-> channel, by |-> by,
             given |-> IF channel = "cli" /\ target = "APPROVED"
                       THEN render[d] ELSE NoRender,
             seen |-> approval[d]]]
    BY <1>5 DEF DecideRead
  <2>2. [draft |-> d, target |-> target, channel |-> channel, by |-> by,
         given |-> IF channel = "cli" /\ target = "APPROVED"
                   THEN render[d] ELSE NoRender,
         seen |-> approval[d]] \in ClerkWork
    BY DEF ClerkWork
  <2> QED BY <1>5, <2>1, <2>2 DEF DecideRead, ClerkWork
<1>6. ASSUME NEW c \in Clerk, DecideCommit(c) PROVE TypeOK'
  <2> DEFINE w == clerk[c]
             new == IF w.channel = "cli" THEN DecideCli(w) ELSE DecideApi(w)
             e == [state |-> w.target, by |-> w.by, fp |-> w.given]
  <2>1. w \in ClerkWork
    BY <1>6, AtWork DEF DecideCommit
  <2>2. new \in Approval /\ w.seen \in Approval /\ w.draft \in Draft
    BY <2>1, DecideType DEF ClerkWork
  <2>3. Flush(approval[w.draft], w.seen, new) \in Approval
    BY <2>2, FlushType
  <2>4. e \in Decision
    BY <2>1 DEF ClerkWork, Decision
  <2>5. /\ approval' = [approval EXCEPT ![w.draft] =
                           Flush(approval[w.draft], w.seen, new)]
        /\ decided' = [decided EXCEPT ![w.draft] = decided[w.draft] \cup {e}]
        /\ clerk' = [clerk EXCEPT ![c] = IdleClerk]
    BY <1>6 DEF DecideCommit
  <2> HIDE DEF w, new, e
  <2>6. approval' \in [Draft -> Approval]
    BY <2>2, <2>3, <2>5
  <2>7. decided' \in [Draft -> SUBSET Decision]
    BY <2>2, <2>4, <2>5
  <2> QED BY <1>6, <2>5, <2>6, <2>7 DEF DecideCommit
<1>7. ASSUME NEW j \in Judge, NEW d \in Draft, RejudgeRead(j, d) PROVE TypeOK'
  <2>1. PICK ok \in [Layer -> BOOLEAN], rev \in [Layer -> 1 .. MaxVerdicts] :
          judge' = [judge EXCEPT ![j] = [draft |-> d, ok |-> ok, rev |-> rev]]
    BY <1>7 DEF RejudgeRead
  <2>2. rev \in [Layer -> Nat \ {0}]
    BY BoundAssumption
  <2> QED BY <1>7, <2>1, <2>2 DEF RejudgeRead
<1>8. ASSUME NEW j \in Judge, RejudgeCommit(j) PROVE TypeOK'
  <2> DEFINE w == judge[j]
             e(y) == [rev |-> w.rev[y], ok |-> w.ok[y], layered |-> TRUE]
  <2>1. w \in JudgeWork
    BY <1>8, AtWork DEF RejudgeCommit
  <2>2. w.draft \in Draft /\ \A y \in Layer : e(y) \in Verdict
    BY <2>1 DEF JudgeWork, Verdict
  <2>3. \A y \in Layer : Append(verdicts[w.draft][y], e(y)) \in Seq(Verdict)
    BY <2>2
  <2>4. verdicts' = [verdicts EXCEPT ![w.draft] =
                       [y \in Layer |-> Append(verdicts[w.draft][y], e(y))]]
    BY <1>8 DEF RejudgeCommit
  <2> HIDE DEF w, e
  <2>5. verdicts' \in [Draft -> [Layer -> Seq(Verdict)]]
    BY <2>2, <2>3, <2>4
  <2>6. judge' = [judge EXCEPT ![j] = IdleJudge]
    BY <1>8 DEF RejudgeCommit
  <2> QED BY <1>8, <2>5, <2>6 DEF RejudgeCommit
<1>9. ASSUME NEW p \in Publisher, NEW d \in Draft, NEW a \in Address,
             StageRead(p, d, a)
      PROVE  TypeOK'
  <2>1. PICK n \in 1 .. MaxVersion :
          publisher' = [publisher EXCEPT ![p] =
            [step |-> "staging", address |-> a, version |-> n,
             draft |-> d, render |-> render[d], live |-> {}]]
    BY <1>9 DEF StageRead
  <2>2. [step |-> "staging", address |-> a, version |-> n,
         draft |-> d, render |-> render[d], live |-> {}] \in PublisherWork
    BY DEF PublisherWork
  <2> QED BY <1>9, <2>1, <2>2 DEF StageRead, PublisherWork
<1>10. ASSUME NEW p \in Publisher, StageCommit(p) PROVE TypeOK'
  <2>1. publisher[p] \in PublisherWork
    BY <1>10, AtWork DEF StageCommit
  <2>2. [state |-> "STAGED", draft |-> publisher[p].draft,
         render |-> publisher[p].render] \in Snapshot
    BY <2>1 DEF PublisherWork, Snapshot
  <2>3. page' \in [Address -> [1 .. MaxVersion -> Snapshot]]
    BY <1>10, <2>1, <2>2 DEF StageCommit, PublisherWork
  <2> QED BY <1>10, <2>3 DEF StageCommit
<1>11. ASSUME NEW p \in Publisher, NEW a \in Address, NEW v \in 1 .. MaxVersion,
              PublishRead(p, a, v)
       PROVE  TypeOK'
  <2>1. [IdlePublisher EXCEPT !.step = "publishing", !.address = a,
                              !.version = v] \in PublisherWork
    BY DEF IdlePublisher, PublisherWork
  <2> QED BY <1>11, <2>1 DEF PublishRead, PublisherWork
<1>12. ASSUME NEW p \in Publisher, LiveRead(p) PROVE TypeOK'
  <2>1. publisher[p] \in PublisherWork
    BY <1>12, AtWork DEF LiveRead
  <2>2. [publisher[p] EXCEPT !.step = "swapping",
           !.live = Live(publisher[p].address)] \in PublisherWork
    BY <2>1 DEF PublisherWork, Live
  <2> QED BY <1>12, <2>2 DEF LiveRead, PublisherWork
<1>13. ASSUME NEW p \in Publisher, PublishCommit(p) PROVE TypeOK'
  <2>1. publisher[p] \in PublisherWork
    BY <1>13, AtWork DEF PublishCommit
  <2>2. \A s \in Snapshot : /\ [s EXCEPT !.state = "PUBLISHED"] \in Snapshot
                            /\ [s EXCEPT !.state = "ARCHIVED"] \in Snapshot
    BY DEF Snapshot
  <2>3. page' \in [Address -> [1 .. MaxVersion -> Snapshot]]
    BY <1>13, <2>1, <2>2 DEF PublishCommit, PublisherWork
  <2> QED BY <1>13, <2>3 DEF PublishCommit
<1>14. CASE UNCHANGED vars
  BY <1>14 DEF vars
<1> QED BY <1>1, <1>2, <1>3, <1>4, <1>5, <1>6, <1>7, <1>8, <1>9, <1>10, <1>11,
           <1>12, <1>13, <1>14 DEF Next

\* Every row, and what every command holds between its read and its commit,
\* keeps its type.
THEOREM TypeCorrect == Spec => []TypeOK
<1> QED BY TypeInit, TypeStep, PTL DEF Spec

-----------------------------------------------------------------------------
(* How decisions and snapshots change                                      *)

\* Decisions are only added.
LEMMA DecidedGrows ==
  ASSUME TypeOK, [Next]_vars, NEW d \in Draft
  PROVE  decided[d] \subseteq decided'[d]
<1>1. CASE \E c \in Clerk : DecideCommit(c)
  BY <1>1 DEF DecideCommit, TypeOK
<1>2. CASE UNCHANGED decided
  BY <1>2
<1> QED BY <1>1, <1>2
        DEF Next, vars, draftVars, WriteAndJudge, Drift, Settle, Configure,
            DecideRead, RejudgeRead, RejudgeCommit, StageRead, StageCommit,
            PublishRead, LiveRead, PublishCommit

LEMMA PageType ==
  ASSUME TypeOK
  PROVE  \A a \in Address, v \in 1 .. MaxVersion : page[a][v] \in Snapshot
BY DEF TypeOK

\* A publication swaps the live row of its address for the snapshot, or does
\* nothing at all.
LEMMA Swap ==
  ASSUME TypeOK, NEW p \in Publisher, PublishCommit(p), page' # page
  PROVE  /\ publisher[p].address \in Address
         /\ publisher[p].version \in 1 .. MaxVersion
         /\ \A a \in Address :
              IF a = publisher[p].address THEN Live(a)' = {publisher[p].version}
                                          ELSE page'[a] = page[a]
         /\ \A a \in Address, v \in 1 .. MaxVersion :
              /\ page'[a][v].draft = page[a][v].draft
              /\ page'[a][v].render = page[a][v].render
<1> DEFINE w == publisher[p]
           b == w.address
           swapped == [v \in 1 .. MaxVersion |->
                        IF v = w.version
                        THEN [page[b][v] EXCEPT !.state = "PUBLISHED"]
                        ELSE IF v \in w.live
                        THEN [page[b][v] EXCEPT !.state = "ARCHIVED"]
                        ELSE page[b][v]]
<1>1. w \in PublisherWork
  BY AtWork DEF PublishCommit
<1>2. b \in Address /\ w.version \in 1 .. MaxVersion
  BY <1>1 DEF PublisherWork
<1>3. /\ Live(b) \ (w.live \cup {w.version}) = {}
      /\ page' = [page EXCEPT ![b] = swapped]
  BY DEF PublishCommit
<1>4. \A v \in 1 .. MaxVersion : page[b][v] \in Snapshot
  BY <1>2 DEF TypeOK
<1>5. \A v \in 1 .. MaxVersion :
        /\ swapped[v].state = "PUBLISHED" <=> v = w.version
        /\ swapped[v].draft = page[b][v].draft
        /\ swapped[v].render = page[b][v].render
  BY <1>3, <1>4 DEF Snapshot, Live
<1> HIDE DEF swapped
<1>6. page'[b] = swapped /\ \A a \in Address \ {b} : page'[a] = page[a]
  BY <1>2, <1>3 DEF TypeOK
<1>7. \A a \in Address : a = b => Live(a)' = {w.version}
  BY <1>2, <1>5, <1>6 DEF Live
<1> QED BY <1>2, <1>5, <1>6, <1>7

\* A staging adds a row that is not live, or does nothing at all.
LEMMA Staged ==
  ASSUME TypeOK, NEW p \in Publisher, StageCommit(p), page' # page
  PROVE  /\ publisher[p].address \in Address
         /\ publisher[p].version \in 1 .. MaxVersion
         /\ page[publisher[p].address][publisher[p].version].state = "ABSENT"
         /\ LET s == page'[publisher[p].address][publisher[p].version]
            IN  /\ s.state = "STAGED"
                /\ s.draft = publisher[p].draft
                /\ s.render = publisher[p].render
         /\ \A a \in Address, v \in 1 .. MaxVersion :
              a # publisher[p].address \/ v # publisher[p].version
              => page'[a][v] = page[a][v]
<1>1. publisher[p] \in PublisherWork
  BY AtWork DEF StageCommit
<1> QED BY <1>1 DEF StageCommit, PublisherWork, TypeOK

\* Nothing else writes a snapshot.
LEMMA PageSteps ==
  ASSUME [Next]_vars
  PROVE  \/ UNCHANGED page
         \/ \E p \in Publisher : StageCommit(p) \/ PublishCommit(p)
BY DEF Next, vars, draftVars, WriteAndJudge, Drift, Settle, Configure,
       DecideRead, DecideCommit, RejudgeRead, RejudgeCommit, StageRead,
       PublishRead, LiveRead

\* A row of published_content is never deleted, and its content is frozen.
LEMMA RowsAreFrozen ==
  ASSUME TypeOK, TypeOK', [Next]_vars, NEW a \in Address, NEW v \in 1 .. MaxVersion,
         page[a][v].state # "ABSENT"
  PROVE  /\ page'[a][v].state # "ABSENT"
         /\ page'[a][v].draft = page[a][v].draft
         /\ page'[a][v].render = page[a][v].render
<1>1. CASE page' = page
  BY <1>1
<1>2. ASSUME NEW p \in Publisher, StageCommit(p), page' # page
      PROVE  page'[a][v] = page[a][v]
  BY <1>2, Staged
<1>3. ASSUME NEW p \in Publisher, PublishCommit(p), page' # page
      PROVE  /\ page'[a][v].state # "ABSENT"
             /\ page'[a][v].draft = page[a][v].draft
             /\ page'[a][v].render = page[a][v].render
  <2>1. publisher[p] \in PublisherWork
    BY <1>3, AtWork DEF PublishCommit
  <2>2. page'[a][v].state # "ABSENT"
    <3>1. page[a][v] \in Snapshot
      BY PageType
    <3> QED BY <1>3, <2>1, <3>1 DEF PublishCommit, PublisherWork, TypeOK, Snapshot
  <2> QED BY <1>3, <2>2, Swap
<1> QED BY <1>1, <1>2, <1>3, PageSteps

-----------------------------------------------------------------------------
(* At most one live row                                                    *)

\* The index uq_pub_live and the order of the two flushes keep one row live at
\* an address, for any number of overlapping publishers.
THEOREM OneLiveAlways == Spec => []OneLive
<1>1. Init => OneLive
  BY DEF Init, OneLive, Live, NoSnapshot
<1>2. TypeOK /\ OneLive /\ [Next]_vars => OneLive'
  <2> SUFFICES ASSUME TypeOK, OneLive, [Next]_vars, NEW a \in Address
               PROVE  (\A v, w \in Live(a) : v = w)'
    BY DEF OneLive
  <2>1. CASE page' = page
    BY <2>1 DEF OneLive, Live
  <2>2. ASSUME NEW p \in Publisher, StageCommit(p), page' # page
        PROVE  (\A v, w \in Live(a) : v = w)'
    <3> DEFINE b == publisher[p].address
               n == publisher[p].version
    <3>0. /\ page'[b][n].state = "STAGED"
          /\ \A v \in 1 .. MaxVersion : a # b \/ v # n => page'[a][v] = page[a][v]
      BY <2>2, Staged
    <3> HIDE DEF b, n
    <3>1. \A v \in 1 .. MaxVersion :
            page'[a][v].state = "PUBLISHED" => page'[a][v] = page[a][v]
      BY <3>0
    <3>2. Live(a)' \subseteq Live(a)
      BY <3>1 DEF Live
    <3> QED BY <3>2 DEF OneLive
  <2>3. ASSUME NEW p \in Publisher, PublishCommit(p), page' # page
        PROVE  (\A v, w \in Live(a) : v = w)'
    <3>1. CASE a = publisher[p].address
      BY <2>3, <3>1, Swap
    <3>2. CASE a # publisher[p].address
      BY <2>3, <3>2, Swap DEF OneLive, Live
    <3> QED BY <3>1, <3>2
  <2> QED BY <2>1, <2>2, <2>3, PageSteps
<1> QED BY <1>1, <1>2, TypeCorrect, PTL DEF Spec

-----------------------------------------------------------------------------
(* Every snapshot shows what a person approved.  A fingerprint enters the  *)
(* approval row only from the command line, with the decision that quotes  *)
(* it; a stager takes it from there when it equals the render; nothing     *)
(* takes either back.                                                      *)

NamedIn(history, d, r) ==
    \E e \in history[d] : e.state = "APPROVED" /\ e.fp = r

RecordedIsNamed ==
    \A d \in Draft : approval[d].fp # NoRender => NamedIn(decided, d, approval[d].fp)

OnlyApprovalsQuote ==
    \A c \in Clerk : clerk[c].given # NoRender => clerk[c].target = "APPROVED"

StagingIsNamed ==
    \A p \in Publisher : publisher[p].step = "staging" =>
        /\ publisher[p].draft \in Draft
        /\ publisher[p].render \in Render
        /\ NamedIn(decided, publisher[p].draft, publisher[p].render)

PublishingExists ==
    \A p \in Publisher : publisher[p].step \in {"publishing", "swapping"} =>
        \A v \in {publisher[p].version} \cup publisher[p].live :
            page[publisher[p].address][v].state # "ABSENT"

SnapshotIsNamed ==
    \A a \in Address, v \in 1 .. MaxVersion : page[a][v].state # "ABSENT" =>
        /\ page[a][v].draft \in Draft
        /\ page[a][v].render \in Render
        /\ NamedIn(decided, page[a][v].draft, page[a][v].render)

NamedInv ==
    /\ RecordedIsNamed
    /\ OnlyApprovalsQuote
    /\ StagingIsNamed
    /\ PublishingExists
    /\ SnapshotIsNamed

\* What was named stays named.
LEMMA NamedStays ==
  ASSUME TypeOK, [Next]_vars, NEW d \in Draft, NEW r, NamedIn(decided, d, r)
  PROVE  NamedIn(decided', d, r)
BY DecidedGrows DEF NamedIn

\* Who else may touch the approvals, and what the commands hold.
LEMMA ApprovalSteps ==
  ASSUME [Next]_vars
  PROVE  \/ UNCHANGED approval
         \/ \E d \in Draft : WriteAndJudge(d)
         \/ \E c \in Clerk : DecideCommit(c)
BY DEF Next, vars, draftVars, Drift, Settle, Configure, DecideRead,
       RejudgeRead, RejudgeCommit, StageRead, StageCommit, PublishRead,
       LiveRead, PublishCommit

LEMMA ClerkSteps ==
  ASSUME [Next]_vars
  PROVE  \/ UNCHANGED clerk
         \/ \E c \in Clerk : DecideCommit(c) \/ \E d \in Draft : DecideRead(c, d)
BY DEF Next, vars, draftVars, WriteAndJudge, Drift, Settle, Configure,
       RejudgeRead, RejudgeCommit, StageRead, StageCommit, PublishRead,
       LiveRead, PublishCommit

LEMMA PublisherSteps ==
  ASSUME [Next]_vars
  PROVE  \/ UNCHANGED publisher
         \/ \E p \in Publisher :
              \/ publisher' = [publisher EXCEPT ![p] = IdlePublisher]
              \/ LiveRead(p)
              \/ \E d \in Draft, a \in Address : StageRead(p, d, a)
              \/ \E a \in Address, v \in 1 .. MaxVersion : PublishRead(p, a, v)
BY DEF Next, vars, draftVars, WriteAndJudge, Drift, Settle, Configure,
       DecideRead, DecideCommit, RejudgeRead, RejudgeCommit, StageCommit,
       PublishCommit

LEMMA NamedInit == Init => NamedInv
<1> SUFFICES ASSUME Init PROVE NamedInv
  OBVIOUS
<1> USE DEF Init
<1>1. RecordedIsNamed
  BY DEF RecordedIsNamed, OldApproval, NoApproval
<1>2. OnlyApprovalsQuote
  BY DEF OnlyApprovalsQuote, IdleClerk
<1>3. StagingIsNamed /\ PublishingExists
  BY DEF StagingIsNamed, PublishingExists, IdlePublisher
<1>4. SnapshotIsNamed
  BY DEF SnapshotIsNamed, NoSnapshot
<1> QED BY <1>1, <1>2, <1>3, <1>4 DEF NamedInv

LEMMA RecordedStep ==
  ASSUME TypeOK, NamedInv, [Next]_vars
  PROVE  RecordedIsNamed'
<1> SUFFICES ASSUME NEW d \in Draft, approval'[d].fp # NoRender
             PROVE  NamedIn(decided', d, approval'[d].fp)
  BY DEF RecordedIsNamed
<1>1. CASE approval'[d].fp = approval[d].fp
  BY <1>1, NamedStays DEF NamedInv, RecordedIsNamed
<1>2. ASSUME NEW c \in Clerk, DecideCommit(c), approval'[d].fp # approval[d].fp
      PROVE  NamedIn(decided', d, approval'[d].fp)
  <2> DEFINE w == clerk[c]
             new == IF w.channel = "cli" THEN DecideCli(w) ELSE DecideApi(w)
             e == [state |-> w.target, by |-> w.by, fp |-> w.given]
  <2>1. w \in ClerkWork
    BY <1>2, AtWork DEF DecideCommit
  <2>2. w.draft \in Draft /\ w.seen \in Approval
    BY <2>1 DEF ClerkWork
  <2>3. /\ approval' = [approval EXCEPT ![w.draft] =
                           Flush(approval[w.draft], w.seen, new)]
        /\ decided' = [decided EXCEPT ![w.draft] = decided[w.draft] \cup {e}]
    BY <1>2 DEF DecideCommit
  <2>4. d = w.draft /\ approval'[d].fp = new.fp /\ new.fp # w.seen.fp
    BY <1>2, <2>2, <2>3 DEF TypeOK, Flush, Changed
  <2>5. new.fp = w.given
    BY <2>2, <2>4 DEF DecideCli, DecideApi, Approval
  <2>6. w.target = "APPROVED"
    BY <2>4, <2>5 DEF NamedInv, OnlyApprovalsQuote
  <2>7. e \in decided'[d]
    BY <2>2, <2>3, <2>4 DEF TypeOK
  <2>8. e.state = "APPROVED" /\ e.fp = approval'[d].fp
    BY <2>4, <2>5, <2>6
  <2> QED BY <2>7, <2>8 DEF NamedIn
<1>3. ASSUME NEW k \in Draft, WriteAndJudge(k)
      PROVE  approval'[d].fp = approval[d].fp
  BY <1>3 DEF WriteAndJudge, TypeOK, Approval
<1> QED BY <1>1, <1>2, <1>3, ApprovalSteps

LEMMA QuoteStep ==
  ASSUME TypeOK, NamedInv, [Next]_vars
  PROVE  OnlyApprovalsQuote'
<1> SUFFICES ASSUME NEW i \in Clerk, clerk'[i].given # NoRender
             PROVE  clerk'[i].target = "APPROVED"
  BY DEF OnlyApprovalsQuote
<1>1. CASE clerk'[i] = clerk[i]
  BY <1>1 DEF NamedInv, OnlyApprovalsQuote
<1>2. ASSUME NEW c \in Clerk, DecideCommit(c), clerk'[i] # clerk[i]
      PROVE  clerk'[i].target = "APPROVED"
  BY <1>2 DEF DecideCommit, IdleClerk, TypeOK
<1>3. ASSUME NEW c \in Clerk, NEW d \in Draft, DecideRead(c, d),
             clerk'[i] # clerk[i]
      PROVE  clerk'[i].target = "APPROVED"
  BY <1>3 DEF DecideRead, TypeOK
<1> QED BY <1>1, <1>2, <1>3, ClerkSteps

LEMMA StagingStep ==
  ASSUME TypeOK, NamedInv, [Next]_vars
  PROVE  StagingIsNamed'
<1> SUFFICES ASSUME NEW q \in Publisher, publisher'[q].step = "staging"
             PROVE  /\ publisher'[q].draft \in Draft
                    /\ publisher'[q].render \in Render
                    /\ NamedIn(decided', publisher'[q].draft, publisher'[q].render)
  BY DEF StagingIsNamed
<1>1. CASE publisher'[q] = publisher[q]
  BY <1>1, NamedStays DEF NamedInv, StagingIsNamed
<1>2. ASSUME NEW p \in Publisher, NEW d \in Draft, NEW a \in Address,
             StageRead(p, d, a), publisher'[q] # publisher[q]
      PROVE  /\ publisher'[q].draft = d
             /\ publisher'[q].render = render[d]
             /\ render[d] \in Render
             /\ NamedIn(decided, d, render[d])
  <2>1. publisher'[q].draft = d /\ publisher'[q].render = render[d]
    BY <1>2 DEF StageRead, TypeOK
  <2>2. render[d] \in Render /\ approval[d].fp = render[d]
    BY <1>2 DEF StageRead, Gate, TypeOK
  <2> QED BY <2>1, <2>2, NoneAssumption DEF NamedInv, RecordedIsNamed
<1>3. ASSUME NEW p \in Publisher,
             \/ publisher' = [publisher EXCEPT ![p] = IdlePublisher]
             \/ LiveRead(p)
             \/ \E a \in Address, v \in 1 .. MaxVersion : PublishRead(p, a, v)
      PROVE  publisher'[q] = publisher[q]
  <2>1. publisher' = [publisher EXCEPT ![p] = publisher'[p]]
    BY <1>3 DEF LiveRead, PublishRead, TypeOK
  <2>2. publisher'[p].step # "staging"
    <3>1. CASE publisher' = [publisher EXCEPT ![p] = IdlePublisher]
      BY <3>1 DEF IdlePublisher, TypeOK
    <3>2. CASE LiveRead(p)
      <4>1. publisher[p] \in PublisherWork
        BY <3>2, AtWork DEF LiveRead
      <4> QED BY <3>2, <4>1 DEF LiveRead, PublisherWork, TypeOK
    <3>3. CASE \E a \in Address, v \in 1 .. MaxVersion : PublishRead(p, a, v)
      BY <3>3 DEF PublishRead, IdlePublisher, TypeOK
    <3> QED BY <1>3, <3>1, <3>2, <3>3
  <2> QED BY <2>1, <2>2 DEF TypeOK
<1> QED BY <1>1, <1>2, <1>3, NamedStays, PublisherSteps

LEMMA PublishingStep ==
  ASSUME TypeOK, TypeOK', NamedInv, [Next]_vars
  PROVE  PublishingExists'
<1> SUFFICES ASSUME NEW q \in Publisher,
                    publisher'[q].step \in {"publishing", "swapping"},
                    NEW v \in {publisher'[q].version} \cup publisher'[q].live
             PROVE  page'[publisher'[q].address][v].state # "ABSENT"
  BY DEF PublishingExists
<1> DEFINE a == publisher'[q].address
<1>1. a \in Address /\ v \in 1 .. MaxVersion
  <2>1. publisher'[q] # IdlePublisher
    BY DEF IdlePublisher
  <2> QED BY <2>1 DEF TypeOK
<1>2. page[a][v].state # "ABSENT"
  <2>1. CASE publisher'[q] = publisher[q]
    BY <2>1 DEF NamedInv, PublishingExists
  <2>2. ASSUME NEW p \in Publisher, LiveRead(p), publisher'[q] # publisher[q]
        PROVE  page[a][v].state # "ABSENT"
    <3>1. p = q /\ publisher[q].step = "publishing"
      BY <2>2 DEF LiveRead, TypeOK
    <3>2. publisher[q] \in PublisherWork
      BY <3>1, AtWork
    <3>3. /\ a = publisher[q].address
          /\ v \in {publisher[q].version} \cup Live(publisher[q].address)
      BY <2>2, <3>1, <3>2 DEF LiveRead, TypeOK, PublisherWork
    <3> QED BY <3>1, <3>3 DEF NamedInv, PublishingExists, Live
  <2>3. ASSUME NEW p \in Publisher, NEW b \in Address, NEW n \in 1 .. MaxVersion,
               PublishRead(p, b, n), publisher'[q] # publisher[q]
        PROVE  page[a][v].state # "ABSENT"
    BY <2>3 DEF PublishRead, IdlePublisher, TypeOK
  <2>4. ASSUME NEW p \in Publisher,
               \/ publisher' = [publisher EXCEPT ![p] = IdlePublisher]
               \/ \E d \in Draft, b \in Address : StageRead(p, d, b)
        PROVE  publisher'[q] = publisher[q]
    BY <2>4 DEF StageRead, IdlePublisher, TypeOK
  <2> QED BY <2>1, <2>2, <2>3, <2>4, PublisherSteps
<1> QED BY <1>1, <1>2, RowsAreFrozen

\* A publication only writes over rows: what it holds exists.
LEMMA PublicationMakesNoRow ==
  ASSUME TypeOK, NamedInv, NEW p \in Publisher, PublishCommit(p),
         NEW a \in Address, NEW v \in 1 .. MaxVersion,
         page[a][v].state = "ABSENT", page'[a][v].state # "ABSENT"
  PROVE  FALSE
<1> DEFINE b == publisher[p].address
           n == publisher[p].version
<1>1. publisher[p] \in PublisherWork
  BY AtWork DEF PublishCommit
<1>2. \A i \in {n} \cup publisher[p].live : page[b][i].state # "ABSENT"
  BY DEF PublishCommit, NamedInv, PublishingExists
<1>3. page' # page
  OBVIOUS
<1>4. a = b
  BY <1>3, Swap
<1>5. v \notin {n} \cup publisher[p].live
  BY <1>2, <1>4
<1>6. page'[a][v] = page[a][v]
  BY <1>1, <1>4, <1>5 DEF PublishCommit, PublisherWork, TypeOK
<1> QED BY <1>6

LEMMA SnapshotStep ==
  ASSUME TypeOK, TypeOK', NamedInv, [Next]_vars
  PROVE  SnapshotIsNamed'
<1> SUFFICES ASSUME NEW a \in Address, NEW v \in 1 .. MaxVersion,
                    page'[a][v].state # "ABSENT"
             PROVE  /\ page'[a][v].draft \in Draft
                    /\ page'[a][v].render \in Render
                    /\ NamedIn(decided', page'[a][v].draft, page'[a][v].render)
  BY DEF SnapshotIsNamed
<1>1. CASE page[a][v].state # "ABSENT"
  BY <1>1, RowsAreFrozen, NamedStays DEF NamedInv, SnapshotIsNamed
<1>2. CASE page[a][v].state = "ABSENT"
  <2>1. ASSUME NEW p \in Publisher, StageCommit(p)
        PROVE  /\ page'[a][v].draft \in Draft
               /\ page'[a][v].render \in Render
               /\ NamedIn(decided', page'[a][v].draft, page'[a][v].render)
    <3>1. page' # page /\ page'[a][v] # page[a][v]
      BY <1>2
    <3>2. a = publisher[p].address /\ v = publisher[p].version
      BY <2>1, <3>1, Staged
    <3>3. /\ page'[a][v].draft = publisher[p].draft
          /\ page'[a][v].render = publisher[p].render
      BY <2>1, <3>1, <3>2, Staged
    <3> QED BY <2>1, <3>3, NamedStays DEF StageCommit, NamedInv, StagingIsNamed
  <2>2. ASSUME NEW p \in Publisher, PublishCommit(p) PROVE FALSE
    BY <1>2, <2>2, PublicationMakesNoRow
  <2> QED BY <1>2, <2>1, <2>2, PageSteps
<1> QED BY <1>1, <1>2

LEMMA NamedAlways == Spec => [](TypeOK /\ NamedInv)
<1>1. TypeOK /\ TypeOK' /\ NamedInv /\ [Next]_vars => NamedInv'
  BY RecordedStep, QuoteStep, StagingStep, PublishingStep, SnapshotStep
     DEF NamedInv
<1> QED BY <1>1, NamedInit, TypeCorrect, PTL DEF Spec

\* Every snapshot ever staged shows a render that a person approved by its
\* fingerprint, for any number of approval commands and publishers, of both
\* channels, with stale reads and drifting renders.
THEOREM SnapshotWasAlwaysApproved == Spec => []SnapshotWasApproved
<1>1. TypeOK /\ NamedInv => SnapshotWasApproved
  BY DEF NamedInv, SnapshotIsNamed, NamedIn, SnapshotWasApproved
<1> QED BY <1>1, NamedAlways, PTL

-----------------------------------------------------------------------------
(* The versions of an address.  A stager takes the version after those it   *)
(* read; rows are never deleted, so it still follows one when it commits.   *)

VersionsIn(pages, a) == {v \in 1 .. MaxVersion : pages[a][v].state # "ABSENT"}
Follows(n, taken) == n = 1 \/ n - 1 \in taken

StagingFollows ==
    \A p \in Publisher : publisher[p].step = "staging" =>
        Follows(publisher[p].version, VersionsIn(page, publisher[p].address))

LEMMA VersionsGrow ==
  ASSUME TypeOK, TypeOK', [Next]_vars, NEW a \in Address
  PROVE  VersionsIn(page, a) \subseteq VersionsIn(page', a)
BY RowsAreFrozen DEF VersionsIn

LEMMA StagingFollowsStep ==
  ASSUME TypeOK, TypeOK', StagingFollows, [Next]_vars
  PROVE  StagingFollows'
<1> SUFFICES ASSUME NEW q \in Publisher, publisher'[q].step = "staging"
             PROVE  Follows(publisher'[q].version,
                            VersionsIn(page', publisher'[q].address))
  BY DEF StagingFollows
<1> DEFINE a == publisher'[q].address
           n == publisher'[q].version
<1>1. a \in Address
  <2>1. publisher'[q] # IdlePublisher
    BY DEF IdlePublisher
  <2> QED BY <2>1 DEF TypeOK
<1>2. Follows(n, VersionsIn(page, a))
  <2>1. CASE publisher'[q] = publisher[q]
    BY <2>1 DEF StagingFollows
  <2>2. ASSUME NEW p \in Publisher, NEW d \in Draft, NEW b \in Address,
               StageRead(p, d, b), publisher'[q] # publisher[q]
        PROVE  Follows(n, VersionsIn(page, a))
    <3>1. IsNextVersion(n, a)
      BY <2>2 DEF StageRead, TypeOK
    <3> QED BY <3>1 DEF IsNextVersion, Follows, Versions, VersionsIn
  <2>3. ASSUME NEW p \in Publisher, publisher'[q] # publisher[q],
               \/ publisher' = [publisher EXCEPT ![p] = IdlePublisher]
               \/ LiveRead(p)
               \/ \E b \in Address, v \in 1 .. MaxVersion : PublishRead(p, b, v)
        PROVE  FALSE
    <3>1. CASE publisher' = [publisher EXCEPT ![p] = IdlePublisher]
      BY <2>3, <3>1 DEF IdlePublisher, TypeOK
    <3>2. CASE LiveRead(p)
      <4>1. publisher[p] \in PublisherWork
        BY <3>2, AtWork DEF LiveRead
      <4> QED BY <2>3, <3>2, <4>1 DEF LiveRead, PublisherWork, TypeOK
    <3>3. CASE \E b \in Address, v \in 1 .. MaxVersion : PublishRead(p, b, v)
      BY <2>3, <3>3 DEF PublishRead, IdlePublisher, TypeOK
    <3> QED BY <2>3, <3>1, <3>2, <3>3
  <2> QED BY <2>1, <2>2, <2>3, PublisherSteps
<1> QED BY <1>1, <1>2, VersionsGrow DEF Follows

LEMMA NewRowFollows ==
  ASSUME TypeOK, StagingFollows, [Next]_vars, NEW a \in Address,
         NEW v \in Versions(a)', v \notin Versions(a), VersionsAreASequence,
         NamedInv
  PROVE  Follows(v, VersionsIn(page, a))
<1>1. /\ v \in 1 .. MaxVersion
      /\ page[a][v].state = "ABSENT" /\ page'[a][v].state # "ABSENT"
  BY DEF Versions
<1>2. page' # page
  BY <1>1
<1>3. PICK p \in Publisher : StageCommit(p) \/ PublishCommit(p)
  BY <1>2, PageSteps
<1>4. StageCommit(p)
  BY <1>1, <1>3, PublicationMakesNoRow
<1>5. a = publisher[p].address /\ v = publisher[p].version
  BY <1>1, <1>2, <1>4, Staged
<1>6. publisher[p].step = "staging"
  BY <1>4 DEF StageCommit
<1> QED BY <1>5, <1>6 DEF StagingFollows

\* The versions of every address are numbered without a hole, for any number of
\* overlapping stagers and publishers.
THEOREM VersionsAlwaysASequence == Spec => []VersionsAreASequence
<1>1. Init => StagingFollows /\ VersionsAreASequence
  BY DEF Init, StagingFollows, IdlePublisher, VersionsAreASequence, Versions,
         NoSnapshot
<1>2. TypeOK /\ TypeOK' /\ NamedInv /\ StagingFollows /\ VersionsAreASequence
      /\ [Next]_vars => StagingFollows' /\ VersionsAreASequence'
  <2> SUFFICES ASSUME TypeOK, TypeOK', NamedInv, StagingFollows,
                      VersionsAreASequence, [Next]_vars
               PROVE  VersionsAreASequence'
    BY StagingFollowsStep
  <2> SUFFICES ASSUME NEW a \in Address, NEW v \in Versions(a)'
               PROVE  1 .. v \subseteq Versions(a)'
    BY DEF VersionsAreASequence
  <2>1. CASE v \in Versions(a)
    BY <2>1, VersionsGrow DEF VersionsAreASequence, Versions, VersionsIn
  <2>2. CASE v \notin Versions(a)
    <3>1. Follows(v, VersionsIn(page, a))
      BY <2>2, NewRowFollows
    <3>2. v \in Nat
      BY BoundAssumption DEF Versions
    <3>3. 1 .. (v - 1) \subseteq Versions(a)
      BY <3>1, <3>2 DEF Follows, VersionsAreASequence, Versions, VersionsIn
    <3>4. 1 .. v = (1 .. (v - 1)) \cup (1 .. v \cap {v})
      BY <3>2
    <3> QED BY <3>3, <3>4, VersionsGrow DEF Versions, VersionsIn
  <2> QED BY <2>1, <2>2
<1> QED BY <1>1, <1>2, NamedAlways, TypeCorrect, PTL DEF Spec

-----------------------------------------------------------------------------
(* The verdict that governs.  A re-judgement takes the revision after those *)
(* it read; the first verdicts of the draft, which may be committed after it *)
(* read, are dated before it and have revision 1.                           *)

\* A decision is taken on a draft that has an approval row, and keeps it one.
StartedInv ==
    /\ \A d \in Draft : approval[d].state = "NONE" => approval[d] = NoApproval
    /\ \A c \in Clerk : clerk[c] # IdleClerk =>
         /\ clerk[c].target # "NONE"
         /\ approval[clerk[c].draft].state # "NONE"

LEMMA CommitStarts ==
  ASSUME TypeOK, StartedInv, NEW c \in Clerk, DecideCommit(c), NEW d \in Draft,
         approval'[d].state = "NONE"
  PROVE  approval'[d] = approval[d] /\ d # clerk[c].draft
<1> DEFINE w == clerk[c]
           new == IF w.channel = "cli" THEN DecideCli(w) ELSE DecideApi(w)
<1>1. w \in ClerkWork /\ w.target # "NONE" /\ approval[w.draft].state # "NONE"
  BY AtWork DEF DecideCommit, StartedInv
<1>2. w.seen \in Approval /\ w.draft \in Draft
  BY <1>1 DEF ClerkWork
<1>3. DecideCli(w).state = w.target /\ DecideApi(w).state = w.target
  BY <1>1, <1>2 DEF DecideCli, DecideApi, Approval
<1>4. new.state = w.target
  BY <1>3
<1>5. approval' = [approval EXCEPT ![w.draft] =
                     Flush(approval[w.draft], w.seen, new)]
  BY DEF DecideCommit
<1> HIDE DEF w, new
<1>6. Flush(approval[w.draft], w.seen, new).state # "NONE"
  BY <1>1, <1>4 DEF Flush, Changed
<1>7. d # w.draft
  BY <1>2, <1>5, <1>6 DEF TypeOK
<1>8. approval'[d] = approval[d]
  BY <1>5, <1>7 DEF TypeOK
<1> QED BY <1>7, <1>8 DEF w

LEMMA StartedStays ==
  ASSUME TypeOK, StartedInv, [Next]_vars, NEW d \in Draft,
         approval[d].state # "NONE"
  PROVE  approval'[d].state # "NONE"
<1>1. CASE UNCHANGED approval
  BY <1>1
<1>2. ASSUME NEW b \in Draft, WriteAndJudge(b) PROVE approval'[d].state # "NONE"
  BY <1>2 DEF WriteAndJudge, TypeOK, NoApproval, Approval
<1>3. ASSUME NEW c \in Clerk, DecideCommit(c) PROVE approval'[d].state # "NONE"
  BY <1>3, CommitStarts
<1> QED BY <1>1, <1>2, <1>3, ApprovalSteps

LEMMA StartedAlways == Spec => []StartedInv
<1>1. Init => StartedInv
  BY DEF Init, StartedInv, NoApproval, OldApproval
<1>2. TypeOK /\ TypeOK' /\ StartedInv /\ [Next]_vars => StartedInv'
  <2> SUFFICES ASSUME TypeOK, TypeOK', StartedInv, [Next]_vars PROVE StartedInv'
    OBVIOUS
  <2>1. ASSUME NEW d \in Draft, approval'[d].state = "NONE"
        PROVE  approval'[d] = NoApproval
    <3>1. CASE UNCHANGED approval
      BY <2>1, <3>1 DEF StartedInv
    <3>2. ASSUME NEW b \in Draft, WriteAndJudge(b) PROVE approval'[d] = NoApproval
      BY <2>1, <3>2 DEF WriteAndJudge, TypeOK, StartedInv, Approval
    <3>3. ASSUME NEW c \in Clerk, DecideCommit(c) PROVE approval'[d] = NoApproval
      BY <2>1, <3>3, CommitStarts DEF StartedInv
    <3> QED BY <3>1, <3>2, <3>3, ApprovalSteps
  <2>2. ASSUME NEW q \in Clerk, clerk'[q] # IdleClerk
        PROVE  /\ clerk'[q].target # "NONE"
               /\ approval'[clerk'[q].draft].state # "NONE"
    <3> USE <2>2
    <3>1. CASE clerk'[q] = clerk[q]
      <4>1. clerk[q].draft \in Draft
        BY <3>1, AtWork DEF ClerkWork
      <4> QED BY <3>1, <4>1, StartedStays DEF StartedInv
    <3>2. ASSUME NEW c \in Clerk, NEW d \in Draft, DecideRead(c, d),
                 clerk'[q] # clerk[q]
          PROVE  /\ clerk'[q].target # "NONE"
                 /\ approval'[clerk'[q].draft].state # "NONE"
      <4>0. PICK target \in ApprovalState, channel \in Channel, by \in Person :
              /\ <<approval[d].state, target>> \in Allowed
              /\ clerk' = [clerk EXCEPT ![c] =
                   [draft |-> d, target |-> target, channel |-> channel, by |-> by,
                    given |-> IF channel = "cli" /\ target = "APPROVED"
                              THEN render[d] ELSE NoRender,
                    seen |-> approval[d]]]
        BY <3>2 DEF DecideRead
      <4>1. /\ <<approval[d].state, target>> \in Allowed
            /\ clerk'[q].target = target /\ clerk'[q].draft = d
        BY <3>2, <4>0 DEF TypeOK
      <4>2. approval[d].state # "NONE" /\ target # "NONE"
        BY <4>1 DEF Allowed
      <4> QED BY <3>2, <4>1, <4>2 DEF DecideRead, draftVars
    <3>3. ASSUME NEW c \in Clerk, DecideCommit(c), clerk'[q] # clerk[q]
          PROVE  FALSE
      BY <3>3 DEF DecideCommit, TypeOK
    <3> QED BY <3>1, <3>2, <3>3, ClerkSteps
  <2> QED BY <2>1, <2>2 DEF StartedInv
<1> QED BY <1>1, <1>2, TypeCorrect, PTL DEF Spec

\* One re-judgement runs at a time.
SingleJudge == \A i, j \in Judge : i = j

InOrder(rows) ==
    \A i \in DOMAIN rows :
        /\ rows[i].rev <= rows[Len(rows)].rev
        /\ ~rows[i].layered => rows[i].rev = 1

NoneAbove(n, rows) == \A i \in DOMAIN rows : rows[i].rev <= n

JudgeFollows(w, rows) == \A y \in Layer : NoneAbove(w.rev[y], rows[w.draft][y])

VerdictInv ==
    /\ \A d \in Draft, y \in Layer : InOrder(verdicts[d][y])
    /\ \A j \in Judge : judge[j] # IdleJudge =>
                         JudgeFollows(judge[j], verdicts)

LEMMA NextIsAbove ==
  ASSUME NEW rows \in Seq(Verdict), InOrder(rows), NEW n \in Nat \ {0},
         IsNextRevision(n, rows)
  PROVE  NoneAbove(n, rows)
<1> SUFFICES ASSUME NEW i \in DOMAIN rows PROVE rows[i].rev <= n
  BY DEF NoneAbove
<1>1. rows[i] \in Verdict
  OBVIOUS
<1>2. CASE rows[i].layered
  <2>1. rows[i].rev < n
    BY <1>2 DEF IsNextRevision
  <2> QED BY <1>1, <2>1 DEF Verdict
<1>3. CASE ~rows[i].layered
  BY <1>3 DEF InOrder
<1> QED BY <1>2, <1>3

LEMMA AppendInOrder ==
  ASSUME NEW rows \in Seq(Verdict), InOrder(rows), NEW n \in Nat \ {0},
         NoneAbove(n, rows), NEW b \in BOOLEAN
  PROVE  InOrder(Append(rows, [rev |-> n, ok |-> b, layered |-> TRUE]))
<1> DEFINE e == [rev |-> n, ok |-> b, layered |-> TRUE]
           more == Append(rows, e)
<1>1. e \in Verdict /\ e.rev = n /\ e.layered = TRUE
  BY DEF Verdict
<1> HIDE DEF e
<1>2. /\ Len(rows) \in Nat /\ DOMAIN rows = 1 .. Len(rows)
      /\ DOMAIN more = 1 .. Len(rows) + 1 /\ Len(more) = Len(rows) + 1
      /\ more[Len(rows) + 1] = e
      /\ \A i \in DOMAIN rows : more[i] = rows[i]
  BY <1>1
<1> HIDE DEF more
<1>3. ASSUME NEW i \in DOMAIN more
      PROVE  /\ more[i].rev <= more[Len(more)].rev
             /\ ~more[i].layered => more[i].rev = 1
  <2>1. CASE i = Len(rows) + 1
    BY <1>1, <1>2, <2>1
  <2>2. CASE i \in DOMAIN rows
    BY <1>1, <1>2, <2>2 DEF InOrder, NoneAbove
  <2> QED BY <1>2, <1>3, <2>1, <2>2
<1> QED BY <1>3 DEF InOrder, more, e

\* The verdicts a draft is written with come first and stand above nothing.
LEMMA FirstInOrder ==
  ASSUME NEW rows \in Seq(Verdict), InOrder(rows), NEW b \in BOOLEAN
  PROVE  /\ InOrder(<<[rev |-> 1, ok |-> b, layered |-> TRUE]>> \o rows)
         /\ \A n \in Nat \ {0} : NoneAbove(n, rows) =>
              NoneAbove(n, <<[rev |-> 1, ok |-> b, layered |-> TRUE]>> \o rows)
<1> DEFINE e == [rev |-> 1, ok |-> b, layered |-> TRUE]
           more == <<e>> \o rows
<1>1. e \in Verdict /\ e.rev = 1 /\ e.layered = TRUE
  BY DEF Verdict
<1> HIDE DEF e
<1>2. /\ Len(rows) \in Nat /\ DOMAIN rows = 1 .. Len(rows)
      /\ DOMAIN more = 1 .. Len(rows) + 1 /\ Len(more) = Len(rows) + 1
      /\ more[1] = e
      /\ \A i \in DOMAIN more : i # 1 => i - 1 \in DOMAIN rows /\ more[i] = rows[i - 1]
  BY <1>1
<1> HIDE DEF more
<1>3. \A i \in DOMAIN rows : rows[i].rev \in Nat /\ rows[i].rev >= 1
  <2>1. \A i \in DOMAIN rows : rows[i] \in Verdict
    OBVIOUS
  <2> QED BY <2>1 DEF Verdict
<1>4. more[Len(more)].rev >= 1 /\ more[Len(more)].rev \in Nat
  BY <1>1, <1>2, <1>3
<1>5. ASSUME NEW i \in DOMAIN more
      PROVE  /\ more[i].rev <= more[Len(more)].rev
             /\ ~more[i].layered => more[i].rev = 1
  <2>1. CASE i = 1
    BY <1>1, <1>2, <1>4, <2>1
  <2>2. CASE i # 1
    <3>1. i - 1 \in DOMAIN rows /\ more[i] = rows[i - 1]
      BY <1>2, <2>2
    <3>2. more[Len(more)] = rows[Len(rows)]
      BY <1>2, <3>1
    <3> QED BY <3>1, <3>2 DEF InOrder
  <2> QED BY <2>1, <2>2
<1>6. ASSUME NEW n \in Nat \ {0}, NoneAbove(n, rows) PROVE NoneAbove(n, more)
  BY <1>1, <1>2, <1>6 DEF NoneAbove
<1>7. InOrder(more)
  BY <1>5 DEF InOrder
<1> QED BY <1>6, <1>7 DEF more, e

LEMMA VerdictSteps ==
  ASSUME [Next]_vars
  PROVE  \/ UNCHANGED <<verdicts, judge>>
         \/ \E d \in Draft : WriteAndJudge(d)
         \/ \E j \in Judge : RejudgeCommit(j) \/ \E d \in Draft : RejudgeRead(j, d)
BY DEF Next, vars, draftVars, Drift, Settle, Configure, DecideRead,
       DecideCommit, StageRead, StageCommit, PublishRead, LiveRead,
       PublishCommit

LEMMA VerdictInit == Init => VerdictInv
<1> SUFFICES ASSUME Init PROVE VerdictInv
  OBVIOUS
<1>1. InOrder(<< >>)
  BY DEF InOrder
<1>2. InOrder(<<OldVerdict>>)
  BY DEF InOrder, OldVerdict
<1> QED BY <1>1, <1>2 DEF Init, VerdictInv

LEMMA VerdictStep ==
  ASSUME SingleJudge, TypeOK, TypeOK', VerdictInv, [Next]_vars
  PROVE  VerdictInv'
<1>1. CASE UNCHANGED <<verdicts, judge>>
  BY <1>1 DEF VerdictInv
<1>2. ASSUME NEW d \in Draft, WriteAndJudge(d) PROVE VerdictInv'
  <2>1. PICK ok \in [Layer -> BOOLEAN] :
          verdicts' = [verdicts EXCEPT ![d] = [y \in Layer |->
                        <<[rev |-> 1, ok |-> ok[y], layered |-> TRUE]>> \o @[y]]]
    BY <1>2 DEF WriteAndJudge
  <2>2. ASSUME NEW y \in Layer
        PROVE  /\ verdicts[d][y] \in Seq(Verdict) /\ InOrder(verdicts[d][y])
               /\ verdicts'[d][y] = <<[rev |-> 1, ok |-> ok[y], layered |-> TRUE]>>
                                      \o verdicts[d][y]
    BY <2>1 DEF TypeOK, VerdictInv
  <2>3. \A b \in Draft : b # d => verdicts'[b] = verdicts[b]
    BY <2>1 DEF TypeOK
  <2>4. \A y \in Layer : InOrder(verdicts'[d][y])
    BY <2>2, FirstInOrder
  <2>5. \A b \in Draft, y \in Layer : InOrder(verdicts'[b][y])
    BY <2>3, <2>4 DEF VerdictInv
  <2>6. ASSUME NEW j \in Judge, judge[j] # IdleJudge
        PROVE  JudgeFollows(judge[j], verdicts')
    <3>1. /\ judge[j].draft \in Draft /\ JudgeFollows(judge[j], verdicts)
          /\ \A y \in Layer : judge[j].rev[y] \in Nat \ {0}
      BY <2>6, AtWork DEF JudgeWork, VerdictInv
    <3>2. CASE judge[j].draft # d
      BY <2>3, <3>1, <3>2 DEF JudgeFollows
    <3>3. CASE judge[j].draft = d
      BY <2>2, <3>1, <3>3, FirstInOrder DEF JudgeFollows
    <3> QED BY <3>2, <3>3
  <2>7. judge' = judge
    BY <1>2 DEF WriteAndJudge
  <2> QED BY <2>5, <2>6, <2>7 DEF VerdictInv
<1>3. ASSUME NEW j \in Judge, NEW d \in Draft, RejudgeRead(j, d)
      PROVE  VerdictInv'
  <2>1. verdicts' = verdicts
    BY <1>3 DEF RejudgeRead, draftVars
  <2>2. PICK ok \in [Layer -> BOOLEAN], rev \in [Layer -> 1 .. MaxVerdicts] :
          /\ \A y \in Layer : IsNextRevision(rev[y], verdicts[d][y])
          /\ judge' = [judge EXCEPT ![j] = [draft |-> d, ok |-> ok, rev |-> rev]]
    BY <1>3 DEF RejudgeRead
  <2>3. ASSUME NEW i \in Judge, judge'[i] # IdleJudge
        PROVE  JudgeFollows(judge'[i], verdicts)
    <3>1. CASE i = j
      <4>1. judge'[i].draft = d /\ judge'[i].rev = rev
        BY <2>2, <3>1 DEF TypeOK
      <4>2. ASSUME NEW y \in Layer PROVE NoneAbove(rev[y], verdicts[d][y])
        <5>1. /\ verdicts[d][y] \in Seq(Verdict) /\ InOrder(verdicts[d][y])
              /\ rev[y] \in Nat \ {0}
          BY BoundAssumption DEF TypeOK, VerdictInv
        <5> QED BY <2>2, <5>1, NextIsAbove
      <4> QED BY <4>1, <4>2 DEF JudgeFollows
    <3>2. CASE i # j
      <4>1. judge'[i] = judge[i]
        BY <2>2, <3>2 DEF TypeOK
      <4> QED BY <2>3, <4>1 DEF VerdictInv
    <3> QED BY <3>1, <3>2
  <2> QED BY <2>1, <2>3 DEF VerdictInv
<1>4. ASSUME NEW j \in Judge, RejudgeCommit(j) PROVE VerdictInv'
  <2> DEFINE w == judge[j]
             rows(y) == Append(verdicts[w.draft][y],
                          [rev |-> w.rev[y], ok |-> w.ok[y], layered |-> TRUE])
  <2>1. w \in JudgeWork /\ JudgeFollows(w, verdicts)
    BY <1>4, AtWork DEF RejudgeCommit, VerdictInv
  <2>2. /\ w.draft \in Draft
        /\ \A y \in Layer : w.rev[y] \in Nat \ {0} /\ w.ok[y] \in BOOLEAN
    BY <2>1 DEF JudgeWork
  <2>3. \A y \in Layer : /\ verdicts[w.draft][y] \in Seq(Verdict)
                         /\ InOrder(verdicts[w.draft][y])
    BY <2>2 DEF TypeOK, VerdictInv
  <2>4. \A y \in Layer : InOrder(rows(y))
    BY <2>1, <2>2, <2>3, AppendInOrder DEF JudgeFollows
  <2>5. verdicts' = [verdicts EXCEPT ![w.draft] = [y \in Layer |-> rows(y)]]
    BY <1>4 DEF RejudgeCommit
  <2>6. \A i \in Judge : judge'[i] = IdleJudge
    BY <1>4 DEF RejudgeCommit, TypeOK, SingleJudge
  <2> HIDE DEF w, rows
  <2>7. \A b \in Draft, y \in Layer : InOrder(verdicts'[b][y])
    BY <2>2, <2>4, <2>5 DEF TypeOK, VerdictInv
  <2> QED BY <2>6, <2>7 DEF VerdictInv
<1> QED BY <1>1, <1>2, <1>3, <1>4, VerdictSteps

\* As long as re-judgements run one at a time, the latest verdict of a layer is the
\* one that governs, over any number of them and also over rows older than layers.
THEOREM LatestAlwaysGoverns ==
  ASSUME SingleJudge
  PROVE  Spec => []LatestVerdictGoverns
<1>1. TypeOK /\ VerdictInv => LatestVerdictGoverns
  <2> SUFFICES ASSUME TypeOK, VerdictInv, NEW d \in Draft, NEW y \in Layer,
                      verdicts[d][y] # << >>
               PROVE  Governs(verdicts[d][y], Len(verdicts[d][y]))
    BY DEF LatestVerdictGoverns
  <2> DEFINE rows == verdicts[d][y]
  <2>1. rows \in Seq(Verdict) /\ InOrder(rows)
    BY DEF TypeOK, VerdictInv
  <2> HIDE DEF rows
  <2>2. \A k \in DOMAIN rows : rows[k].rev \in Nat /\ k <= Len(rows)
    <3>1. \A k \in DOMAIN rows : rows[k] \in Verdict /\ k <= Len(rows)
      BY <2>1
    <3> QED BY <3>1 DEF Verdict
  <2>3. rows # << >>
    BY DEF rows
  <2>4. Len(rows) \in DOMAIN rows
    BY <2>1, <2>3
  <2>5. Governs(rows, Len(rows))
    BY <2>1, <2>2, <2>4 DEF InOrder, Governs
  <2> QED BY <2>5 DEF rows
<1>2. TypeOK /\ TypeOK' /\ VerdictInv /\ [Next]_vars => VerdictInv'
  BY VerdictStep
<1> QED BY <1>1, <1>2, VerdictInit, TypeCorrect, PTL DEF Spec

-----------------------------------------------------------------------------
(* Nothing of a decision is erased, when decisions are taken one at a time  *)
(* and on the command line: what a command read is then what it writes over. *)

OneClerk == \A c, e \in Clerk : c = e
OneCommandLine == OneClerk /\ Channel \subseteq {"cli"}

TrailOf(row) ==
    {row.history[i] : i \in DOMAIN row.history}
    \cup {[state |-> row.state, by |-> row.by, fp |-> row.fp]}

Told(e, row) == \E t \in TrailOf(row) : t.state = e.state /\ t.by = e.by

ReadIsCurrent ==
    \A c \in Clerk : clerk[c] # IdleClerk => clerk[c].seen = approval[clerk[c].draft]

TrailInv ==
    /\ ReadIsCurrent
    /\ \A d \in Draft : \A e \in decided[d] : e.by \in Person /\ Told(e, approval[d])

\* A decision on the command line tells of itself and of every earlier one.
LEMMA CommandTells ==
  ASSUME NEW w \in ClerkWork, NEW e, e.by \in Person,
         \/ Told(e, w.seen)
         \/ e.state = w.target /\ e.by = w.by
  PROVE  Told(e, Flush(w.seen, w.seen, DecideCli(w)))
<1> DEFINE old == [state |-> w.seen.state, by |-> w.seen.by, fp |-> w.given]
           row == Flush(w.seen, w.seen, DecideCli(w))
           now == [state |-> row.state, by |-> row.by, fp |-> row.fp]
<1>1. w.seen \in Approval /\ w.seen.history \in Seq(Decision)
  BY DEF ClerkWork, Approval
<1>2. old \in Decision
  BY <1>1 DEF Decision, ClerkWork, Approval
<1>3. DecideCli(w) = [w.seen EXCEPT !.state = w.target, !.by = w.by,
         !.fp = w.given,
         !.history = IF w.seen.by = Nobody THEN @ ELSE Append(@, old)]
  BY DEF DecideCli
<1>4. old.state = w.seen.state /\ old.by = w.seen.by
  OBVIOUS
<1> HIDE DEF old
<1>5. /\ row.state = w.target /\ row.by = w.by
      /\ row.history = IF w.seen.by = Nobody THEN w.seen.history
                       ELSE Append(w.seen.history, old)
  BY <1>1, <1>3 DEF Flush, Changed, Approval
<1>6. now.state = row.state /\ now.by = row.by /\ now \in TrailOf(row)
  BY DEF TrailOf
<1> HIDE DEF row, now
<1>7. ASSUME e.state = w.target, e.by = w.by PROVE Told(e, row)
  BY <1>5, <1>6, <1>7 DEF Told
<1>8. ASSUME Told(e, w.seen) PROVE Told(e, row)
  <2>1. ASSUME e.state = w.seen.state, e.by = w.seen.by PROVE Told(e, row)
    <3>1. w.seen.by # Nobody
      BY <2>1, NoneAssumption
    <3>2. /\ Len(w.seen.history) + 1 \in DOMAIN row.history
          /\ row.history[Len(w.seen.history) + 1] = old
      BY <1>1, <1>2, <1>5, <3>1
    <3>3. old \in TrailOf(row)
      BY <3>2 DEF TrailOf
    <3> QED BY <1>4, <2>1, <3>3 DEF Told
  <2>2. ASSUME NEW i \in DOMAIN w.seen.history,
               w.seen.history[i].state = e.state, w.seen.history[i].by = e.by
        PROVE  Told(e, row)
    <3>1. i \in DOMAIN row.history /\ row.history[i] = w.seen.history[i]
      BY <1>1, <1>2, <1>5
    <3> QED BY <2>2, <3>1 DEF Told, TrailOf
  <2> QED BY <1>8, <2>1, <2>2 DEF Told, TrailOf
<1> QED BY <1>7, <1>8 DEF row

LEMMA TrailInit == Init => TrailInv
<1> SUFFICES ASSUME Init PROVE TrailInv
  OBVIOUS
<1>1. ReadIsCurrent
  BY DEF Init, ReadIsCurrent
<1>2. ASSUME NEW d \in Draft, NEW e \in decided[d]
      PROVE  e.by \in Person /\ Told(e, approval[d])
  <2>1. e = OldDecision /\ approval[d] = OldApproval
    BY <1>2 DEF Init
  <2>2. [state |-> OldApproval.state, by |-> OldApproval.by, fp |-> OldApproval.fp]
           \in TrailOf(OldApproval)
    BY DEF TrailOf
  <2> QED BY <2>1, <2>2, SetAssumption DEF OldDecision, OldApproval, Told
<1> QED BY <1>1, <1>2 DEF TrailInv

LEMMA DecidedSteps ==
  ASSUME [Next]_vars
  PROVE  UNCHANGED decided \/ \E c \in Clerk : DecideCommit(c)
BY DEF Next, vars, draftVars, WriteAndJudge, Drift, Settle, Configure,
       DecideRead, RejudgeRead, RejudgeCommit, StageRead, StageCommit,
       PublishRead, LiveRead, PublishCommit

LEMMA ReadStep ==
  ASSUME OneClerk, TypeOK, TypeOK', StartedInv, ReadIsCurrent, [Next]_vars
  PROVE  ReadIsCurrent'
<1> SUFFICES ASSUME NEW q \in Clerk, clerk'[q] # IdleClerk
             PROVE  clerk'[q].seen = approval'[clerk'[q].draft]
  BY DEF ReadIsCurrent
<1>1. ASSUME NEW c \in Clerk, DecideCommit(c) PROVE FALSE
  <2>1. c = q
    BY DEF OneClerk
  <2> QED BY <1>1, <2>1 DEF DecideCommit, TypeOK
<1>2. ASSUME NEW c \in Clerk, NEW d \in Draft, DecideRead(c, d)
      PROVE  clerk'[q].seen = approval'[clerk'[q].draft]
  <2>1. c = q
    BY DEF OneClerk
  <2>2. clerk'[q].seen = approval[d] /\ clerk'[q].draft = d /\ approval' = approval
    BY <1>2, <2>1 DEF DecideRead, draftVars, TypeOK
  <2> QED BY <2>2
<1>3. CASE clerk' = clerk
  <2>1. /\ clerk[q].seen = approval[clerk[q].draft]
        /\ clerk[q].draft \in Draft /\ approval[clerk[q].draft].state # "NONE"
    BY <1>3, AtWork DEF ReadIsCurrent, ClerkWork, StartedInv
  <2>2. ASSUME NEW d \in Draft, WriteAndJudge(d)
        PROVE  approval'[clerk[q].draft] = approval[clerk[q].draft]
    BY <2>1, <2>2 DEF WriteAndJudge, NoApproval, TypeOK
  <2>3. approval'[clerk[q].draft] = approval[clerk[q].draft]
    BY <1>1, <2>2, ApprovalSteps
  <2> QED BY <1>3, <2>1, <2>3
<1> QED BY <1>1, <1>2, <1>3, ClerkSteps

LEMMA TrailStep ==
  ASSUME OneCommandLine, TypeOK, TypeOK', StartedInv, TrailInv, [Next]_vars
  PROVE  TrailInv'
<1>1. ReadIsCurrent'
  BY ReadStep DEF TrailInv, OneCommandLine
<1>2. ASSUME NEW d \in Draft, NEW e \in decided'[d]
      PROVE  e.by \in Person /\ Told(e, approval'[d])
  <2>1. CASE UNCHANGED <<approval, decided>>
    BY <1>2, <2>1 DEF TrailInv
  <2>2. ASSUME NEW b \in Draft, WriteAndJudge(b)
        PROVE  e.by \in Person /\ Told(e, approval'[d])
    <3>1. e \in decided[d] /\ e.by \in Person /\ Told(e, approval[d])
      BY <1>2, <2>2 DEF WriteAndJudge, TrailInv
    <3>2. d # b
      <4>1. SUFFICES ASSUME d = b PROVE FALSE
        OBVIOUS
      <4>2. approval[d] = NoApproval
        BY <2>2, <4>1 DEF WriteAndJudge
      <4>3. \A t \in TrailOf(NoApproval) : t.by = Nobody
        BY DEF TrailOf, NoApproval
      <4> QED BY <3>1, <4>2, <4>3, NoneAssumption DEF Told
    <3>3. approval'[d] = approval[d]
      BY <2>2, <3>2 DEF WriteAndJudge, TypeOK
    <3> QED BY <3>1, <3>3
  <2>3. ASSUME NEW c \in Clerk, DecideCommit(c)
        PROVE  e.by \in Person /\ Told(e, approval'[d])
    <3> DEFINE w == clerk[c]
               f == [state |-> w.target, by |-> w.by, fp |-> w.given]
    <3>1. /\ w \in ClerkWork /\ w.draft \in Draft /\ w.by \in Person
          /\ w.channel = "cli"
      BY <2>3, AtWork DEF DecideCommit, ClerkWork, OneCommandLine
    <3>2. w.seen = approval[w.draft]
      BY <2>3 DEF DecideCommit, TrailInv, ReadIsCurrent
    <3>3. /\ approval' = [approval EXCEPT ![w.draft] =
                            Flush(w.seen, w.seen, DecideCli(w))]
          /\ decided' = [decided EXCEPT ![w.draft] = decided[w.draft] \cup {f}]
      BY <2>3, <3>1, <3>2 DEF DecideCommit
    <3>4. f.by = w.by /\ f.state = w.target
      OBVIOUS
    <3> HIDE DEF w, f
    <3>5. CASE d # w.draft
      BY <1>2, <3>3, <3>5 DEF TypeOK, TrailInv
    <3>6. CASE d = w.draft
      <4>1. approval'[d] = Flush(w.seen, w.seen, DecideCli(w))
        BY <3>3, <3>6 DEF TypeOK
      <4>2. e \in decided[d] \/ e = f
        BY <1>2, <3>1, <3>3, <3>6 DEF TypeOK
      <4>3. CASE e \in decided[d]
        <5>1. e.by \in Person /\ Told(e, approval[d])
          BY <4>3 DEF TrailInv
        <5>2. approval[d] = w.seen
          BY <3>2, <3>6
        <5>3. Told(e, w.seen)
          BY <5>1, <5>2
        <5> QED BY <3>1, <4>1, <5>1, <5>3, CommandTells
      <4>4. CASE e = f
        <5>1. e.state = w.target /\ e.by = w.by /\ e.by \in Person
          BY <3>1, <3>4, <4>4
        <5> QED BY <3>1, <4>1, <5>1, CommandTells
      <4> QED BY <4>2, <4>3, <4>4
    <3> QED BY <3>5, <3>6
  <2>4. UNCHANGED decided \/ \E c \in Clerk : DecideCommit(c)
    BY DecidedSteps
  <2> QED BY <2>1, <2>2, <2>3, <2>4, ApprovalSteps
<1> QED BY <1>1, <1>2 DEF TrailInv

\* As long as decisions are taken one at a time on the command line, every decision
\* is the current one or in the history, however often a draft is decided again.
THEOREM NothingIsErased ==
  ASSUME OneCommandLine
  PROVE  Spec => []NoDecisionErased
<1>1. TrailInv => NoDecisionErased
  BY DEF TrailInv, Told, TrailOf, Trail, NoDecisionErased
<1>2. TypeOK /\ TypeOK' /\ StartedInv /\ TrailInv /\ [Next]_vars => TrailInv'
  BY TrailStep
<1> QED BY <1>1, <1>2, TrailInit, StartedAlways, TypeCorrect, PTL DEF Spec

\* What a clerk is about to write is allowed from the state it read.
AllowedInv ==
    /\ ReadIsCurrent
    /\ \A c \in Clerk : clerk[c] # IdleClerk =>
         <<clerk[c].seen.state, clerk[c].target>> \in Allowed

LEMMA AllowedStep ==
  ASSUME OneClerk, TypeOK, TypeOK', StartedInv, AllowedInv, [Next]_vars
  PROVE  AllowedInv'
<1>1. ReadIsCurrent'
  BY ReadStep DEF AllowedInv
<1>2. ASSUME NEW q \in Clerk, clerk'[q] # IdleClerk
      PROVE  <<clerk'[q].seen.state, clerk'[q].target>> \in Allowed
  <2>1. CASE clerk'[q] = clerk[q]
    BY <1>2, <2>1 DEF AllowedInv
  <2>2. ASSUME NEW c \in Clerk, NEW d \in Draft, DecideRead(c, d)
        PROVE  <<clerk'[q].seen.state, clerk'[q].target>> \in Allowed
    <3>1. CASE c = q
      <4>1. PICK target \in ApprovalState, channel \in Channel, by \in Person :
              /\ <<approval[d].state, target>> \in Allowed
              /\ clerk' = [clerk EXCEPT ![c] =
                   [draft |-> d, target |-> target, channel |-> channel, by |-> by,
                    given |-> IF channel = "cli" /\ target = "APPROVED"
                              THEN render[d] ELSE NoRender,
                    seen |-> approval[d]]]
        BY <2>2 DEF DecideRead
      <4>2. clerk'[q].seen = approval[d] /\ clerk'[q].target = target
        BY <3>1, <4>1 DEF TypeOK
      <4> QED BY <4>1, <4>2
    <3>2. CASE c # q
      <4>1. clerk'[q] = clerk[q]
        BY <2>2, <3>2 DEF DecideRead, TypeOK
      <4> QED BY <2>1, <4>1
    <3> QED BY <3>1, <3>2
  <2>3. ASSUME NEW c \in Clerk, DecideCommit(c), clerk'[q] # clerk[q]
        PROVE  FALSE
    BY <1>2, <2>3 DEF DecideCommit, TypeOK
  <2> QED BY <2>1, <2>2, <2>3, ClerkSteps
<1> QED BY <1>1, <1>2 DEF AllowedInv

LEMMA DecisionStands ==
  ASSUME TypeOK, AllowedInv, [Next]_vars, NEW d \in Draft,
         approval[d].state \in {"APPROVED", "REJECTED"}
  PROVE  approval'[d].state = approval[d].state
<1>1. ASSUME NEW b \in Draft, WriteAndJudge(b)
      PROVE  approval'[d].state = approval[d].state
  BY <1>1 DEF WriteAndJudge, NoApproval, TypeOK
<1>2. ASSUME NEW c \in Clerk, DecideCommit(c)
      PROVE  approval'[d].state = approval[d].state
  <2> DEFINE w == clerk[c]
             new == IF w.channel = "cli" THEN DecideCli(w) ELSE DecideApi(w)
  <2>1. /\ w \in ClerkWork /\ w.draft \in Draft /\ w.seen \in Approval
        /\ w.seen = approval[w.draft] /\ <<w.seen.state, w.target>> \in Allowed
    BY <1>2, AtWork DEF DecideCommit, AllowedInv, ReadIsCurrent, ClerkWork
  <2>2. DecideCli(w).state = w.target /\ DecideApi(w).state = w.target
    BY <2>1 DEF DecideCli, DecideApi, Approval
  <2>3. new.state = w.target
    BY <2>2
  <2>4. approval' = [approval EXCEPT ![w.draft] = Flush(w.seen, w.seen, new)]
    BY <1>2, <2>1 DEF DecideCommit
  <2> HIDE DEF w, new
  <2>5. CASE w.draft # d
    BY <2>1, <2>4, <2>5 DEF TypeOK
  <2>6. CASE w.draft = d
    <3>1. w.target = w.seen.state
      BY <2>1, <2>6 DEF Allowed
    <3>2. Flush(w.seen, w.seen, new).state = w.seen.state
      BY <2>3, <3>1 DEF Flush, Changed
    <3> QED BY <2>1, <2>4, <2>6, <3>2 DEF TypeOK
  <2> QED BY <2>5, <2>6
<1> QED BY <1>1, <1>2, ApprovalSteps

\* As long as decisions are taken one at a time, through either channel, no draft
\* that was approved or rejected is ever anything else.
THEOREM DecisionsAreFinal ==
  ASSUME OneClerk
  PROVE  Spec => DecisionsStand
<1>1. Init => AllowedInv
  BY DEF Init, AllowedInv, ReadIsCurrent
<1>2. TypeOK /\ TypeOK' /\ StartedInv /\ AllowedInv /\ [Next]_vars => AllowedInv'
  BY AllowedStep
<1>3. TypeOK /\ AllowedInv /\ [Next]_vars =>
        [\A d \in Draft : approval[d].state \in {"APPROVED", "REJECTED"}
                            => approval'[d].state = approval[d].state]_vars
  BY DecisionStands
<1> QED BY <1>1, <1>2, <1>3, StartedAlways, TypeCorrect, PTL
        DEF Spec, DecisionsStand

-----------------------------------------------------------------------------
(* Publication implements PublishedPages                                   *)

LEMMA InitRefines == Init => Abstract!Init
<1> SUFFICES ASSUME Init PROVE Abstract!Init
  OBVIOUS
<1>1. ApprovedRenders = {}
  BY NoneAssumption DEF Init, ApprovedRenders, OldDecision
<1>2. \A a \in Address : Shown(a) = NoAddress
  BY DEF Init, Shown, Live, NoSnapshot
<1> QED BY <1>1, <1>2 DEF Abstract!Init

\* A decision approves one render, or nothing as far as a page is concerned.
LEMMA DecisionRefines ==
  ASSUME TypeOK, NamedInv, NEW c \in Clerk, DecideCommit(c)
  PROVE  \/ UNCHANGED ApprovedRenders
         \/ \E d \in Draft, r \in Render :
              ApprovedRenders' = ApprovedRenders \cup {<<d, r>>}
<1> DEFINE w == clerk[c]
           e == [state |-> w.target, by |-> w.by, fp |-> w.given]
<1>1. w \in ClerkWork
  BY AtWork DEF DecideCommit
<1>2. /\ w.draft \in Draft
      /\ decided' = [decided EXCEPT ![w.draft] = decided[w.draft] \cup {e}]
  BY <1>1 DEF DecideCommit, ClerkWork
<1>3. e.state = w.target /\ e.fp = w.given
  OBVIOUS
<1> HIDE DEF e
<1>4. \A d \in Draft : decided'[d] = IF d = w.draft THEN decided[d] \cup {e}
                                                  ELSE decided[d]
  BY <1>2 DEF TypeOK
<1>5. CASE w.given \notin Render \/ w.target # "APPROVED"
  <2>1. ASSUME NEW x \in Draft \X Render
        PROVE  (\E f \in decided'[x[1]] : f.state = "APPROVED" /\ f.fp = x[2])
               <=> (\E f \in decided[x[1]] : f.state = "APPROVED" /\ f.fp = x[2])
    <3>1. x[1] \in Draft /\ x[2] \in Render
      OBVIOUS
    <3>2. ~(e.state = "APPROVED" /\ e.fp = x[2])
      BY <1>3, <1>5, <3>1
    <3>3. CASE x[1] = w.draft
      <4>1. decided'[x[1]] = decided[x[1]] \cup {e}
        BY <1>4, <3>1, <3>3
      <4> QED BY <3>2, <4>1
    <3>4. CASE x[1] # w.draft
      <4>1. decided'[x[1]] = decided[x[1]]
        BY <1>4, <3>1, <3>4
      <4> QED BY <4>1
    <3> QED BY <3>3, <3>4
  <2> QED BY <2>1 DEF ApprovedRenders
<1>6. CASE w.given \in Render /\ w.target = "APPROVED"
  <2>1. ApprovedRenders' = ApprovedRenders \cup {<<w.draft, w.given>>}
    BY <1>2, <1>3, <1>4, <1>6 DEF ApprovedRenders
  <2> QED BY <1>2, <1>6, <2>1
<1> QED BY <1>5, <1>6

\* A staging changes nothing a visitor sees.
LEMMA StagingIsUnseen ==
  ASSUME TypeOK, NEW p \in Publisher, StageCommit(p), NEW a \in Address
  PROVE  Shown(a)' = Shown(a)
<1>1. CASE page' = page
  BY <1>1 DEF Shown, Live
<1>2. CASE page' # page
  <2> DEFINE b == publisher[p].address
             n == publisher[p].version
  <2>1. /\ page[b][n].state = "ABSENT"
        /\ page'[b][n].state = "STAGED"
        /\ \A v \in 1 .. MaxVersion : a # b \/ v # n => page'[a][v] = page[a][v]
    BY <1>2, Staged
  <2> HIDE DEF b, n
  <2>2. /\ Live(a)' = Live(a)
        /\ \A v \in Live(a) : page'[a][v] = page[a][v]
    BY <2>1 DEF Live
  <2> QED BY <2>2 DEF Shown
<1> QED BY <1>1, <1>2

\* A publication shows an approved render at its address, or nothing new.
LEMMA PublicationRefines ==
  ASSUME TypeOK, NamedInv, NEW p \in Publisher, PublishCommit(p), page' # page
  PROVE  \E b \in Address, d \in Draft, r \in Render :
            /\ <<d, r>> \in ApprovedRenders
            /\ \A a \in Address : Shown(a)' = IF a = b THEN <<d, r>> ELSE Shown(a)
<1> DEFINE b == publisher[p].address
           n == publisher[p].version
           d == page[b][n].draft
           r == page[b][n].render
<1>1. /\ b \in Address /\ n \in 1 .. MaxVersion
      /\ \A a \in Address : IF a = b THEN Live(a)' = {n} ELSE page'[a] = page[a]
      /\ page'[b][n].draft = d /\ page'[b][n].render = r
  BY Swap
<1>2. page[b][n].state # "ABSENT"
  BY DEF PublishCommit, NamedInv, PublishingExists
<1>3. d \in Draft /\ r \in Render /\ NamedIn(decided, d, r)
  BY <1>1, <1>2 DEF NamedInv, SnapshotIsNamed
<1>4. <<d, r>> \in ApprovedRenders
  BY <1>3 DEF NamedIn, ApprovedRenders
<1> HIDE DEF b, n, d, r
<1>5. ASSUME NEW a \in Address
      PROVE  Shown(a)' = IF a = b THEN <<d, r>> ELSE Shown(a)
  <2>1. CASE a = b
    <3>1. Live(a)' = {n}
      BY <1>1, <2>1
    <3>2. Shown(a)' = <<page'[a][n].draft, page'[a][n].render>>
      BY <3>1 DEF Shown
    <3> QED BY <1>1, <2>1, <3>2
  <2>2. CASE a # b
    <3>1. page'[a] = page[a]
      BY <1>1, <2>2
    <3> QED BY <2>2, <3>1 DEF Shown, Live
  <2> QED BY <2>1, <2>2
<1> QED BY <1>1, <1>3, <1>4, <1>5

\* Publication implements PublishedPages: an address shows only what a person
\* approved by its fingerprint, and once it shows a page it never goes dark.
THEOREM PublicationImplementsPages == Spec => ImplementsPages
<1> DEFINE shown == [a \in Address |-> Shown(a)]
<1>1. TypeOK /\ NamedInv /\ [Next]_vars => [Abstract!Next]_(Abstract!vars)
  <2> SUFFICES ASSUME TypeOK, NamedInv, [Next]_vars
               PROVE  Abstract!Next \/ UNCHANGED <<ApprovedRenders, shown>>
    BY DEF Abstract!vars
  <2>1. CASE UNCHANGED <<decided, page>>
    BY <2>1 DEF ApprovedRenders, Shown, Live
  <2>2. ASSUME NEW c \in Clerk, DecideCommit(c)
        PROVE  Abstract!Next \/ UNCHANGED <<ApprovedRenders, shown>>
    <3>1. UNCHANGED shown
      BY <2>2 DEF DecideCommit, Shown, Live
    <3>2. CASE UNCHANGED ApprovedRenders
      BY <3>1, <3>2
    <3>3. ASSUME NEW d \in Draft, NEW r \in Render,
                 ApprovedRenders' = ApprovedRenders \cup {<<d, r>>}
          PROVE  Abstract!Next
      BY <3>1, <3>3 DEF Abstract!Next, Abstract!Approve
    <3> QED BY <2>2, <3>2, <3>3, DecisionRefines
  <2>3. ASSUME NEW p \in Publisher, StageCommit(p)
        PROVE  UNCHANGED <<ApprovedRenders, shown>>
    <3>1. UNCHANGED ApprovedRenders
      BY <2>3 DEF StageCommit, draftVars, ApprovedRenders
    <3> QED BY <2>3, <3>1, StagingIsUnseen
  <2>4. ASSUME NEW p \in Publisher, PublishCommit(p), page' # page
        PROVE  Abstract!Next
    <3>1. UNCHANGED ApprovedRenders
      BY <2>4 DEF PublishCommit, draftVars, ApprovedRenders
    <3>2. PICK b \in Address, d \in Draft, r \in Render :
            /\ <<d, r>> \in ApprovedRenders
            /\ \A a \in Address : Shown(a)' = IF a = b THEN <<d, r>> ELSE Shown(a)
      BY <2>4, PublicationRefines
    <3>3. shown' = [shown EXCEPT ![b] = <<d, r>>]
      BY <3>2
    <3>4. Abstract!Show(b, d, r)
      BY <3>1, <3>2, <3>3 DEF Abstract!Show
    <3> QED BY <3>4 DEF Abstract!Next
  <2>5. \/ UNCHANGED <<decided, page>>
        \/ \E c \in Clerk : DecideCommit(c)
        \/ \E p \in Publisher : StageCommit(p)
        \/ \E p \in Publisher : PublishCommit(p) /\ page' # page
    <3>1. CASE \E p \in Publisher : PublishCommit(p)
      BY <3>1 DEF PublishCommit, draftVars
    <3> QED BY <3>1
            DEF Next, vars, draftVars, WriteAndJudge, Drift, Settle, Configure,
                DecideRead, RejudgeRead, RejudgeCommit, StageRead, PublishRead,
                LiveRead
  <2> QED BY <2>1, <2>2, <2>3, <2>4, <2>5
<1> QED BY <1>1, InitRefines, NamedAlways, PTL
        DEF Spec, ImplementsPages, Abstract!Spec
=============================================================================
