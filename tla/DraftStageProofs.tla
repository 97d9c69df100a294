-------------------------- MODULE DraftStageProofs --------------------------
(***************************************************************************)
(* Theorems about DraftStage, for any number of stages, keywords, titles   *)
(* and attempts.                                                           *)
(***************************************************************************)
EXTENDS DraftStage, TLAPS

-----------------------------------------------------------------------------
(* Typing                                                                  *)

\* The best of a non-empty sequence of attempts is one of them, as a row.
LEMMA KeptType ==
  ASSUME NEW a \in Attempt
  PROVE  [kept |-> a, status |-> "DRAFT_CREATED", passed |-> FALSE,
          approval |-> "NONE"] \in Draft
BY DEF Draft, Status, ApprovalState

LEMMA BlockingType ==
  ASSUME NEW a \in Attempt
  PROVE  Blocking(a) \in Nat
BY DEF Blocking, Attempt

LEMMA SettledType ==
  ASSUME NEW d \in Draft, NEW blocks \in BOOLEAN
  PROVE  /\ Settled(d, blocks) \in Draft
         /\ Settled(d, blocks).kept = d.kept
         /\ Settled(d, blocks).approval = "PENDING"
         /\ Settled(d, blocks).status # "REJECTED"
         /\ Settled(d, blocks).passed = (Blocking(d.kept) = 0 /\ ~blocks)
         /\ Settled(d, blocks).status = IF Settled(d, blocks).passed
                                         THEN "PENDING_APPROVAL" ELSE "QA_FAILED"
<1> DEFINE passed == Blocking(d.kept) = 0 /\ ~blocks
<1>1. passed \in BOOLEAN
  OBVIOUS
<1>2. Settled(d, blocks) =
        [d EXCEPT !.passed = passed, !.approval = "PENDING",
                  !.status = IF passed THEN "PENDING_APPROVAL" ELSE "QA_FAILED"]
  BY DEF Settled
<1> HIDE DEF passed
<1>3. /\ Settled(d, blocks) \in Draft
      /\ Settled(d, blocks).kept = d.kept
      /\ Settled(d, blocks).approval = "PENDING"
      /\ Settled(d, blocks).status # "REJECTED"
      /\ Settled(d, blocks).passed = passed
      /\ Settled(d, blocks).status = IF passed
                                      THEN "PENDING_APPROVAL" ELSE "QA_FAILED"
  BY <1>1, <1>2 DEF Draft, Status, ApprovalState
<1> QED BY <1>3 DEF passed

LEMMA DecidedType ==
  ASSUME NEW d \in Draft, NEW target \in Target
  PROVE  /\ [d EXCEPT !.approval = target, !.status = target] \in Draft
         /\ [d EXCEPT !.approval = target, !.status = target].kept = d.kept
         /\ [d EXCEPT !.approval = target, !.status = target].passed = d.passed
BY DEF Draft, Status, ApprovalState, Target

\* How many attempts a stage has made and what it may do next; a stage that has
\* not started has judged and committed nothing.
Retrying ==
    \A s \in Stage :
        /\ phase[s] = "IDLE" => judged[s] = << >> /\ draft[s] = NoDraft
        /\ phase[s] = "WRITING" =>
              /\ draft[s] = NoDraft
              /\ Len(judged[s]) < MaxAttempts
              /\ \A i \in 1..Len(judged[s]) :
                    Blocking(judged[s][i]) > 0 /\ judged[s][i].unanswerable = 0
        /\ phase[s] = "KEEPING" => draft[s] = NoDraft
        /\ phase[s] = "REVIEWING" => draft[s] # NoDraft /\ draft[s].approval = "NONE"

TypeInv == TypeOK /\ Retrying

LEMMA TypeInit == Init => TypeInv
<1> SUFFICES ASSUME Init PROVE TypeInv
  OBVIOUS
<1>1. << >> \in Seq(Attempt) /\ Len(<< >>) = 0
  OBVIOUS
<1> QED BY <1>1, AttemptsAssumption DEF Init, TypeInv, TypeOK, Retrying

\* A stage that starts reads the competing titles and meets those running.
LEMMA StartStep ==
  ASSUME TypeOK, NEW s \in Stage, Start(s)
  PROVE  /\ phase' = [phase EXCEPT ![s] = "WRITING"]
         /\ seen' \in [Stage -> SUBSET Stage]
         /\ seen'[s] = Competing(s)
         /\ \A t \in Stage : t # s => seen'[t] = seen[t]
         /\ together' \subseteq SUBSET Stage
         /\ together \subseteq together'
         /\ \A t \in Stage : Running(t) => {s, t} \in together'
         /\ UNCHANGED <<judged, draft, booked>>
<1>1. Competing(s) \in SUBSET Stage
  BY DEF Competing
<1>2. seen' = [seen EXCEPT ![s] = Competing(s)]
  BY DEF Start
<1>3. together' = together \cup {{s, t} : t \in {u \in Stage : Running(u)}}
  BY DEF Start
<1>4. /\ seen' \in [Stage -> SUBSET Stage]
      /\ seen'[s] = Competing(s)
      /\ \A t \in Stage : t # s => seen'[t] = seen[t]
  BY <1>1, <1>2 DEF TypeOK
<1>5. /\ together' \subseteq SUBSET Stage
      /\ together \subseteq together'
      /\ \A t \in Stage : Running(t) => {s, t} \in together'
  <2>1. together \subseteq SUBSET Stage
    BY DEF TypeOK
  <2>2. \A t \in Stage : {s, t} \in SUBSET Stage
    OBVIOUS
  <2> QED BY <1>3, <2>1, <2>2
<1> QED BY <1>4, <1>5 DEF Start

\* One more judged attempt.
LEMMA WriteStep ==
  ASSUME TypeOK, NEW s \in Stage, Write(s)
  PROVE  \E a \in Attempt :
           /\ Judged(s, a)
           /\ judged' = [judged EXCEPT ![s] = Append(judged[s], a)]
           /\ judged'[s] = Append(judged[s], a)
           /\ judged'[s] \in Seq(Attempt)
           /\ Len(judged'[s]) = Len(judged[s]) + 1
           /\ \A i \in 1..Len(judged[s]) : judged'[s][i] = judged[s][i]
           /\ judged'[s][Len(judged[s]) + 1] = a
           /\ phase' = [phase EXCEPT ![s] = IF Retry(a, Len(judged[s]) + 1)
                                             THEN "WRITING" ELSE "KEEPING"]
<1>1. PICK a \in [title : Title, faults : 0..MaxFindings,
                  unanswerable : 0..MaxFindings, duplicate : BOOLEAN] :
        /\ Judged(s, a)
        /\ judged' = [judged EXCEPT ![s] = Append(@, a)]
        /\ phase' = [phase EXCEPT ![s] = IF Retry(a, Len(judged[s]) + 1)
                                          THEN "WRITING" ELSE "KEEPING"]
  BY DEF Write
<1>2. a \in Attempt
  BY <1>1, AttemptsAssumption DEF Attempt
<1>3. judged[s] \in Seq(Attempt) /\ judged'[s] = Append(judged[s], a)
  BY <1>1 DEF TypeOK
<1>4. /\ judged'[s] \in Seq(Attempt)
      /\ Len(judged'[s]) = Len(judged[s]) + 1
      /\ \A i \in 1..Len(judged[s]) : judged'[s][i] = judged[s][i]
      /\ judged'[s][Len(judged[s]) + 1] = a
  BY <1>2, <1>3
<1> QED BY <1>1, <1>2, <1>3, <1>4

LEMMA TypeStep == TypeInv /\ [Next]_vars => TypeInv'
<1> SUFFICES ASSUME TypeInv, [Next]_vars PROVE TypeInv'
  OBVIOUS
<1> USE DEF TypeInv
<1>1. ASSUME NEW s \in Stage, Start(s) PROVE TypeInv'
  <2>1. /\ phase' = [phase EXCEPT ![s] = "WRITING"]
        /\ seen' \in [Stage -> SUBSET Stage] /\ together' \subseteq SUBSET Stage
        /\ UNCHANGED <<judged, draft, booked>>
    BY <1>1, StartStep
  <2>2. judged[s] = << >> /\ draft[s] = NoDraft
    BY <1>1 DEF Start, Retrying
  <2>3. Len(judged'[s]) = 0
    BY <2>1, <2>2
  <2>4. TypeOK'
    BY <2>1 DEF TypeOK
  <2>5. phase'[s] = "WRITING" /\ \A t \in Stage : t # s => phase'[t] = phase[t]
    BY <2>1 DEF TypeOK
  <2>6. draft'[s] = NoDraft /\ Len(judged'[s]) < MaxAttempts
        /\ \A i \in 1..Len(judged'[s]) : FALSE
    BY <2>1, <2>2, <2>3, AttemptsAssumption
  <2>7. UNCHANGED <<judged, draft>>
    BY <2>1
  <2>8. Retrying'
    BY <2>5, <2>6, <2>7 DEF Retrying
  <2> QED BY <2>4, <2>8
<1>2. ASSUME NEW s \in Stage, Write(s) PROVE TypeInv'
  <2>1. PICK a \in Attempt :
           /\ judged' = [judged EXCEPT ![s] = Append(judged[s], a)]
           /\ judged'[s] \in Seq(Attempt)
           /\ Len(judged'[s]) = Len(judged[s]) + 1
           /\ \A i \in 1..Len(judged[s]) : judged'[s][i] = judged[s][i]
           /\ judged'[s][Len(judged[s]) + 1] = a
           /\ phase' = [phase EXCEPT ![s] = IF Retry(a, Len(judged[s]) + 1)
                                             THEN "WRITING" ELSE "KEEPING"]
    BY <1>2, WriteStep
  <2>2. /\ phase[s] = "WRITING" /\ draft[s] = NoDraft
        /\ Len(judged[s]) \in Nat /\ Len(judged[s]) < MaxAttempts
        /\ \A i \in 1..Len(judged[s]) :
              Blocking(judged[s][i]) > 0 /\ judged[s][i].unanswerable = 0
    BY <1>2 DEF Write, Retrying, TypeOK
  <2>3. UNCHANGED <<seen, draft, booked, together>>
    BY <1>2 DEF Write
  <2>4. \A t \in Stage : t # s => judged'[t] = judged[t] /\ phase'[t] = phase[t]
    BY <2>1 DEF TypeOK
  <2>5. TypeOK'
    <3>1. judged' \in [Stage -> Seq(Attempt)]
      BY <2>1 DEF TypeOK
    <3>2. \A t \in Stage : Len(judged'[t]) <= MaxAttempts
      BY <2>1, <2>2, <2>4, AttemptsAssumption DEF TypeOK
    <3>3. phase' \in [Stage -> {"IDLE", "WRITING", "KEEPING", "REVIEWING", "BOOKING",
                                "DONE", "DEAD"}]
      BY <2>1 DEF TypeOK
    <3> QED BY <2>3, <3>1, <3>2, <3>3 DEF TypeOK
  <2>6. phase'[s] = IF Retry(a, Len(judged[s]) + 1) THEN "WRITING" ELSE "KEEPING"
    BY <2>1 DEF TypeOK
  <2>7. phase'[s] = "WRITING" =>
           /\ Len(judged'[s]) < MaxAttempts
           /\ \A i \in 1..Len(judged'[s]) :
                 Blocking(judged'[s][i]) > 0 /\ judged'[s][i].unanswerable = 0
    <3> SUFFICES ASSUME phase'[s] = "WRITING"
                 PROVE  /\ Len(judged'[s]) < MaxAttempts
                        /\ \A i \in 1..Len(judged'[s]) :
                              Blocking(judged'[s][i]) > 0 /\ judged'[s][i].unanswerable = 0
      OBVIOUS
    <3>1. Blocking(a) > 0 /\ a.unanswerable = 0 /\ Len(judged[s]) + 1 < MaxAttempts
      BY <2>6 DEF Retry
    <3>2. \A i \in 1..Len(judged'[s]) : i \in 1..Len(judged[s]) \/ i = Len(judged[s]) + 1
      BY <2>1, <2>2
    <3> QED BY <2>1, <2>2, <3>1, <3>2
  <2>8. Retrying'
    BY <2>2, <2>3, <2>4, <2>6, <2>7 DEF Retrying
  <2> QED BY <2>5, <2>8
<1>3. ASSUME NEW s \in Stage, WriteFails(s) PROVE TypeInv'
  BY <1>3 DEF WriteFails, TypeOK, Retrying
<1>4. ASSUME NEW s \in Stage, Keep(s) PROVE TypeInv'
  <2>1. PICK i \in 1..Len(judged[s]) :
          draft' = [draft EXCEPT ![s] =
                [kept |-> judged[s][i], status |-> "DRAFT_CREATED",
                 passed |-> FALSE, approval |-> "NONE"]]
    BY <1>4 DEF Keep
  <2>2. judged[s][i] \in Attempt
    BY <2>1 DEF TypeOK
  <2>3. draft' \in [Stage -> Draft \cup {NoDraft}] /\ draft'[s] # NoDraft
    BY <2>1, <2>2, KeptType, NoneAssumption DEF TypeOK
  <2>4. \A t \in Stage : t # s => draft'[t] = draft[t]
    BY <2>1 DEF TypeOK
  <2> QED BY <1>4, <2>3, <2>4 DEF Keep, TypeOK, Retrying
<1>5. ASSUME NEW s \in Stage, Settle(s) PROVE TypeInv'
  <2>1. PICK blocks \in BOOLEAN : draft' = [draft EXCEPT ![s] = Settled(draft[s], blocks)]
    BY <1>5 DEF Settle
  <2>2. draft[s] \in Draft
    BY <1>5 DEF Settle, Retrying, TypeOK
  <2>3. Settled(draft[s], blocks) \in Draft
    BY <2>2, SettledType
  <2>4. draft' \in [Stage -> Draft \cup {NoDraft}]
    BY <2>1, <2>3 DEF TypeOK
  <2>5. \A t \in Stage : t # s => draft'[t] = draft[t]
    BY <2>1 DEF TypeOK
  <2> QED BY <1>5, <2>4, <2>5 DEF Settle, TypeOK, Retrying
<1>6. ASSUME NEW s \in Stage, Book(s) PROVE TypeInv'
  <2>1. Len(judged[s]) \in 0..MaxAttempts
    BY AttemptsAssumption DEF TypeOK
  <2> QED BY <1>6, <2>1 DEF Book, TypeOK, Retrying
<1>7. ASSUME NEW s \in Stage, Crash(s) PROVE TypeInv'
  BY <1>7 DEF Crash, TypeOK, Retrying
<1>8. ASSUME NEW s \in Stage, NEW target \in Target, Decide(s, target) PROVE TypeInv'
  <2>1. draft' = [draft EXCEPT ![s] = [draft[s] EXCEPT !.approval = target, !.status = target]]
        /\ UNCHANGED <<phase, seen, judged, booked, together>>
    BY <1>8 DEF Decide, TypeOK
  <2>2. draft[s] \in Draft
    BY <1>8 DEF Decide, Decidable, TypeOK
  <2>3. [draft[s] EXCEPT !.approval = target, !.status = target] \in Draft
    BY <2>2, DecidedType
  <2>4. draft' \in [Stage -> Draft \cup {NoDraft}]
    BY <2>1, <2>3 DEF TypeOK
  <2>5. \A t \in Stage : t # s => draft'[t] = draft[t]
    BY <2>1 DEF TypeOK
  <2>6. draft[s] # NoDraft /\ draft'[s] # NoDraft
    BY <2>1, <2>3, <1>8, NoneAssumption DEF Decide, Decidable, TypeOK
  <2>7. phase[s] # "REVIEWING" /\ UNCHANGED <<phase, judged>>
    BY <1>8, <2>1 DEF Decide, Decidable, Retrying
  <2>8. Retrying'
    BY <2>5, <2>6, <2>7 DEF Retrying
  <2> QED BY <2>1, <2>4, <2>8 DEF TypeOK
<1>9. CASE UNCHANGED vars
  BY <1>9 DEF vars, TypeOK, Retrying
<1> QED BY <1>1, <1>2, <1>3, <1>4, <1>5, <1>6, <1>7, <1>8, <1>9 DEF Next, StageStep

\* Every state is well typed; in particular no stage calls the writer more often than
\* draft_retry.MAX_ATTEMPTS.
THEOREM TypeCorrect == Spec => []TypeOK
<1>1. Spec => []TypeInv
  BY TypeInit, TypeStep, PTL DEF Spec
<1>2. TypeInv => TypeOK
  BY DEF TypeInv
<1> QED BY <1>1, <1>2, PTL

-----------------------------------------------------------------------------
(* What stages wrote, and what they knew when they wrote it                *)

\* Each variable of a stage is changed by that stage, a draft by decisions as well.
LEMMA Moves ==
  ASSUME TypeInv, [Next]_vars, NEW s \in Stage
  PROVE  /\ \/ StageStep(s)
            \/ phase'[s] = phase[s] /\ judged'[s] = judged[s] /\ seen'[s] = seen[s]
               /\ booked'[s] = booked[s]
         /\ \/ draft'[s] = draft[s] \/ Keep(s) \/ Settle(s)
            \/ \E target \in Target : Decide(s, target)
         /\ together \subseteq together'
<1> USE DEF TypeInv, TypeOK
<1>1. ASSUME NEW u \in Stage, Start(u)
      PROVE  /\ u # s => phase'[s] = phase[s] /\ seen'[s] = seen[s]
             /\ UNCHANGED <<judged, draft, booked>>
             /\ together \subseteq together'
  BY <1>1, StartStep
<1>2. ASSUME NEW u \in Stage, Write(u)
      PROVE  /\ u # s => phase'[s] = phase[s] /\ judged'[s] = judged[s]
             /\ UNCHANGED <<seen, draft, booked, together>>
  BY <1>2 DEF Write
<1>3. ASSUME NEW u \in Stage, Keep(u)
      PROVE  /\ u # s => phase'[s] = phase[s] /\ draft'[s] = draft[s]
             /\ UNCHANGED <<seen, judged, booked, together>>
  BY <1>3 DEF Keep
<1>4. ASSUME NEW u \in Stage, Settle(u)
      PROVE  /\ u # s => phase'[s] = phase[s] /\ draft'[s] = draft[s]
             /\ UNCHANGED <<seen, judged, booked, together>>
  BY <1>4 DEF Settle
<1>5. ASSUME NEW u \in Stage, WriteFails(u) \/ Book(u) \/ Crash(u)
      PROVE  /\ u # s => phase'[s] = phase[s] /\ booked'[s] = booked[s]
             /\ UNCHANGED <<seen, judged, draft, together>>
  BY <1>5 DEF WriteFails, Book, Crash
<1>6. ASSUME NEW u \in Stage, NEW target \in Target, Decide(u, target)
      PROVE  /\ u # s => draft'[s] = draft[s]
             /\ UNCHANGED <<phase, seen, judged, booked, together>>
  BY <1>6 DEF Decide
<1>7. CASE \E u \in Stage : StageStep(u)
  <2>1. PICK u \in Stage : StageStep(u)
    BY <1>7
  <2>2. CASE Start(u)
    BY <2>1, <2>2, <1>1
  <2>3. CASE Write(u)
    BY <2>1, <2>3, <1>2
  <2>4. CASE Keep(u)
    BY <2>1, <2>4, <1>3
  <2>5. CASE Settle(u)
    BY <2>1, <2>5, <1>4
  <2>6. CASE WriteFails(u) \/ Book(u) \/ Crash(u)
    <3>1. u # s => phase'[s] = phase[s] /\ booked'[s] = booked[s]
      BY <2>6, <1>5
    <3>2. UNCHANGED <<seen, judged, draft, together>>
      BY <2>6, <1>5
    <3> QED BY <2>1, <3>1, <3>2
  <2> QED BY <2>1, <2>2, <2>3, <2>4, <2>5, <2>6 DEF StageStep
<1>8. CASE \E u \in Stage, target \in Target : Decide(u, target)
  BY <1>8, <1>6
<1>9. CASE UNCHANGED vars
  BY <1>9 DEF vars
<1> QED BY <1>7, <1>8, <1>9 DEF Next

\* A draft is never replaced, and a rejection is for good.
LEMMA DraftStays ==
  ASSUME TypeInv, [Next]_vars, NEW s \in Stage, draft[s] # NoDraft
  PROVE  /\ draft'[s] # NoDraft
         /\ draft'[s].kept = draft[s].kept
         /\ draft[s].approval = "REJECTED" /\ draft[s].status = "REJECTED"
               => draft'[s].status = "REJECTED"
<1> USE DEF TypeInv, TypeOK
<1>1. draft[s] \in Draft
  OBVIOUS
<1>2. ~Keep(s)
  BY DEF Keep, Retrying
<1>3. CASE Settle(s)
  <2>1. PICK blocks \in BOOLEAN : draft'[s] = Settled(draft[s], blocks)
    BY <1>3 DEF Settle
  <2>2. draft[s].approval = "NONE"
    BY <1>3 DEF Settle, Retrying
  <2> QED BY <1>1, <2>1, <2>2, SettledType, NoneAssumption
<1>4. ASSUME NEW target \in Target, Decide(s, target)
      PROVE  /\ draft'[s] # NoDraft
             /\ draft'[s].kept = draft[s].kept
             /\ draft[s].approval # "REJECTED"
  <2>1. draft'[s] = [draft[s] EXCEPT !.approval = target, !.status = target]
    BY <1>4 DEF Decide
  <2> DEFINE e == [draft[s] EXCEPT !.approval = target, !.status = target]
  <2>4. e \in Draft /\ e.kept = draft[s].kept
    BY <1>1, DecidedType
  <2>2. draft'[s] \in Draft /\ draft'[s].kept = draft[s].kept
    BY <2>1, <2>4
  <2>3. draft[s].approval # "REJECTED"
    BY <1>4 DEF Decide, Decidable
  <2> QED BY <2>2, <2>3, NoneAssumption
<1>5. CASE draft'[s] = draft[s]
  BY <1>5
<1> QED BY <1>2, <1>3, <1>4, <1>5, Moves

\* A draft is one of the attempts its stage judged, and no more are made.
KeptWasJudged ==
    \A s \in Stage : draft[s] # NoDraft =>
        /\ phase[s] \notin {"IDLE", "WRITING", "KEEPING"}
        /\ \E i \in 1..Len(judged[s]) : draft[s].kept = judged[s][i]

\* A stage was told of a duplicate exactly when the title is one it had read, of a
\* draft that exists.
Titles(s) == {draft[t].kept.title : t \in seen[s]}
Informed(a, titles) ==
    /\ a.duplicate <=> (a.title \in titles)
    /\ a.duplicate => a.unanswerable > 0
JudgedByTitles ==
    \A s \in Stage :
        /\ phase[s] = "IDLE" => judged[s] = << >>
        /\ \A t \in seen[s] : draft[t] # NoDraft
        /\ \A i \in 1..Len(judged[s]) : Informed(judged[s][i], Titles(s))

\* t is over and, unless it is rejected, s read its draft.
Knew(s, t) ==
    /\ phase[t] # "IDLE" /\ ~Running(t)
    /\ draft[t] # NoDraft /\ draft[t].status # "REJECTED" => t \in seen[s]

\* Of two stages that started, one knew of the other or they ran together.
Ordered ==
    \A s, t \in Stage :
        (/\ s # t /\ KeywordOf[s] # KeywordOf[t]
         /\ phase[s] # "IDLE" /\ phase[t] # "IDLE")
        => {s, t} \in together \/ Knew(s, t) \/ Knew(t, s)

RejectedForGood ==
    \A s \in Stage :
        draft[s] # NoDraft /\ draft[s].status = "REJECTED" => draft[s].approval = "REJECTED"

DraftInv ==
    /\ KeptWasJudged
    /\ NeverWorse
    /\ NoSampling
    /\ JudgedByTitles
    /\ StatusAgrees
    /\ RejectedForGood
    /\ Ordered
    /\ CallsAreBooked

LEMMA DraftInit == Init => DraftInv
<1> SUFFICES ASSUME Init PROVE DraftInv
  OBVIOUS
<1>1. Len(<< >>) = 0
  OBVIOUS
<1> QED BY <1>1 DEF Init, DraftInv, KeptWasJudged, NeverWorse, NoSampling,
                    JudgedByTitles, StatusAgrees, RejectedForGood, Ordered,
                    CallsAreBooked

\* choose_best returns an attempt with no more blocking findings than any other.
LEMMA BestIsLeast ==
  ASSUME NEW attempts \in Seq(Attempt), NEW i \in 1..Len(attempts),
         IsBest(attempts, i), NEW j \in 1..Len(attempts)
  PROVE  Blocking(attempts[i]) <= Blocking(attempts[j])
<1>1. attempts[i] \in Attempt /\ attempts[j] \in Attempt
  OBVIOUS
<1>2. Blocking(attempts[i]) \in Nat /\ Blocking(attempts[j]) \in Nat
  BY <1>1, BlockingType
<1>3. Before(attempts[i], i, attempts[j], j)
  BY DEF IsBest
<1> QED BY <1>2, <1>3 DEF Before

LEMMA SamplingStep ==
  TypeInv /\ NoSampling /\ [Next]_vars => NoSampling'
<1> SUFFICES ASSUME TypeInv, NoSampling, [Next]_vars, NEW s \in Stage,
                    NEW i \in 1..Len(judged'[s]), i < Len(judged'[s])
             PROVE  Blocking(judged'[s][i]) > 0 /\ judged'[s][i].unanswerable = 0
  BY DEF NoSampling, Blocking
<1>1. CASE judged'[s] = judged[s]
  BY <1>1 DEF NoSampling, Blocking
<1>2. CASE Write(s)
  <2>1. /\ Len(judged'[s]) = Len(judged[s]) + 1
        /\ \A k \in 1..Len(judged[s]) : judged'[s][k] = judged[s][k]
    BY <1>2, WriteStep DEF TypeInv
  <2>2. \A k \in 1..Len(judged[s]) :
           Blocking(judged[s][k]) > 0 /\ judged[s][k].unanswerable = 0
    BY <1>2 DEF Write, TypeInv, Retrying
  <2>3. i \in 1..Len(judged[s])
    BY <2>1 DEF TypeInv, TypeOK
  <2> QED BY <2>1, <2>2, <2>3
<1>3. StageStep(s) \/ judged'[s] = judged[s]
  BY Moves
<1> QED BY <1>1, <1>2, <1>3 DEF StageStep, Start, WriteFails, Keep, Settle, Book, Crash

LEMMA KeptStep ==
  TypeInv /\ KeptWasJudged /\ NeverWorse /\ [Next]_vars
     => KeptWasJudged' /\ NeverWorse'
<1> SUFFICES ASSUME TypeInv, KeptWasJudged, NeverWorse, [Next]_vars,
                    NEW s \in Stage, draft'[s] # NoDraft
             PROVE  /\ phase'[s] \notin {"IDLE", "WRITING", "KEEPING"}
                    /\ \E i \in 1..Len(judged'[s]) : draft'[s].kept = judged'[s][i]
                    /\ \A i \in 1..Len(judged'[s]) :
                          Blocking(draft'[s].kept) <= Blocking(judged'[s][i])
  BY DEF KeptWasJudged, NeverWorse, Blocking
<1>1. CASE Keep(s)
  <2>1. PICK i \in 1..Len(judged[s]) :
          /\ IsBest(judged[s], i)
          /\ draft' = [draft EXCEPT ![s] =
                [kept |-> judged[s][i], status |-> "DRAFT_CREATED",
                 passed |-> FALSE, approval |-> "NONE"]]
    BY <1>1 DEF Keep
  <2>2. draft'[s].kept = judged[s][i]
    BY <2>1 DEF TypeInv, TypeOK
  <2>3. judged' = judged /\ phase'[s] = "REVIEWING"
    BY <1>1 DEF Keep, TypeInv, TypeOK
  <2>4. judged[s] \in Seq(Attempt)
    BY DEF TypeInv, TypeOK
  <2>5. \A j \in 1..Len(judged[s]) : Blocking(judged[s][i]) <= Blocking(judged[s][j])
    BY <2>1, <2>4, BestIsLeast
  <2> QED BY <2>1, <2>2, <2>3, <2>5
<1>2. CASE draft[s] # NoDraft
  <2>1. draft'[s].kept = draft[s].kept
    BY <1>2, DraftStays
  <2>2. phase[s] \notin {"IDLE", "WRITING", "KEEPING"}
    BY <1>2 DEF KeptWasJudged
  <2>3. judged'[s] = judged[s] /\ phase'[s] \notin {"IDLE", "WRITING", "KEEPING"}
    <3>1. ~Start(s) /\ ~Write(s) /\ ~WriteFails(s) /\ ~Keep(s)
      BY <2>2 DEF Start, Write, WriteFails, Keep
    <3>2. CASE Settle(s) \/ Book(s) \/ Crash(s)
      BY <3>2 DEF Settle, Book, Crash, TypeInv, TypeOK
    <3> QED BY <2>2, <3>1, <3>2, Moves DEF StageStep
  <2> QED BY <1>2, <2>1, <2>3 DEF KeptWasJudged, NeverWorse
<1>3. CASE draft[s] = NoDraft /\ ~Keep(s)
  <2>1. ~Settle(s) /\ \A target \in Target : ~Decide(s, target)
    BY <1>3 DEF Settle, Decide, Decidable, TypeInv, Retrying
  <2> QED BY <1>3, <2>1, Moves
<1> QED BY <1>1, <1>2, <1>3

LEMMA StatusStep ==
  TypeInv /\ StatusAgrees /\ RejectedForGood /\ [Next]_vars
     => StatusAgrees' /\ RejectedForGood'
<1> SUFFICES ASSUME TypeInv, StatusAgrees, RejectedForGood, [Next]_vars,
                    NEW s \in Stage, draft'[s] # NoDraft
             PROVE  /\ draft'[s].approval = "NONE" =>
                          /\ draft'[s].status = "DRAFT_CREATED"
                          /\ phase'[s] \in {"REVIEWING", "DEAD"}
                    /\ draft'[s].approval = "PENDING" =>
                          draft'[s].status = IF draft'[s].passed THEN "PENDING_APPROVAL"
                                                                  ELSE "QA_FAILED"
                    /\ draft'[s].approval \in Target => draft'[s].status = draft'[s].approval
                    /\ draft'[s].passed => Blocking(draft'[s].kept) = 0
                    /\ draft'[s].status = "REJECTED" => draft'[s].approval = "REJECTED"
  BY DEF StatusAgrees, RejectedForGood, Blocking
<1> USE DEF TypeInv, TypeOK
<1>1. CASE Keep(s)
  <2>1. PICK i \in 1..Len(judged[s]) :
          draft'[s] = [kept |-> judged[s][i], status |-> "DRAFT_CREATED",
                       passed |-> FALSE, approval |-> "NONE"]
    BY <1>1 DEF Keep
  <2>2. phase'[s] = "REVIEWING"
    BY <1>1 DEF Keep
  <2> QED BY <2>1, <2>2 DEF Target
<1>2. CASE Settle(s)
  <2>1. PICK blocks \in BOOLEAN : draft'[s] = Settled(draft[s], blocks)
    BY <1>2 DEF Settle
  <2>2. draft[s] \in Draft
    BY <1>2 DEF Settle, Retrying
  <2>3. /\ draft'[s].kept = draft[s].kept /\ draft'[s].approval = "PENDING"
        /\ draft'[s].status # "REJECTED"
        /\ draft'[s].passed = (Blocking(draft[s].kept) = 0 /\ ~blocks)
        /\ draft'[s].status = IF draft'[s].passed THEN "PENDING_APPROVAL" ELSE "QA_FAILED"
    BY <2>1, <2>2, SettledType
  <2> QED BY <2>3 DEF Target
<1>3. ASSUME NEW target \in Target, Decide(s, target)
      PROVE  /\ draft'[s].approval = target /\ draft'[s].status = target
             /\ draft'[s].kept = draft[s].kept /\ draft'[s].passed = draft[s].passed
             /\ draft[s] # NoDraft
  <2>1. draft[s] \in Draft /\ draft[s] # NoDraft
    BY <1>3 DEF Decide, Decidable
  <2> DEFINE e == [draft[s] EXCEPT !.approval = target, !.status = target]
  <2>2. draft'[s] = e
    BY <1>3 DEF Decide
  <2>3. e.kept = draft[s].kept /\ e.passed = draft[s].passed
    BY <2>1, DecidedType
  <2>4. e.approval = target /\ e.status = target
    BY <2>1 DEF Draft
  <2> QED BY <2>1, <2>2, <2>3, <2>4
<1>4. CASE \E target \in Target : Decide(s, target)
  BY <1>3, <1>4 DEF Target, StatusAgrees
<1>5. CASE draft'[s] = draft[s]
  <2>1. draft[s].approval = "NONE" => phase'[s] \in {"REVIEWING", "DEAD"} \/ Settle(s)
    <3> SUFFICES ASSUME draft[s].approval = "NONE"
                 PROVE  phase'[s] \in {"REVIEWING", "DEAD"} \/ Settle(s)
      OBVIOUS
    <3>1. phase[s] \in {"REVIEWING", "DEAD"}
      BY <1>5 DEF StatusAgrees
    <3>2. ~Start(s) /\ ~Write(s) /\ ~WriteFails(s) /\ ~Keep(s) /\ ~Book(s)
      BY <3>1 DEF Start, Write, WriteFails, Keep, Book
    <3>3. Crash(s) => phase'[s] = "DEAD"
      BY DEF Crash
    <3> QED BY <3>1, <3>2, <3>3, Moves DEF StageStep
  <2> QED BY <1>2, <1>5, <2>1 DEF StatusAgrees, RejectedForGood
<1> QED BY <1>1, <1>2, <1>4, <1>5, Moves

LEMMA BookedStep ==
  TypeInv /\ CallsAreBooked /\ [Next]_vars => CallsAreBooked'
<1> SUFFICES ASSUME TypeInv, CallsAreBooked, [Next]_vars, NEW s \in Stage,
                    phase'[s] = "DONE"
             PROVE  booked'[s] = Len(judged'[s])
  BY DEF CallsAreBooked
<1> USE DEF TypeInv, TypeOK
<1>1. CASE Book(s)
  BY <1>1 DEF Book
<1>2. ~Start(s) /\ ~Write(s) /\ ~WriteFails(s) /\ ~Keep(s) /\ ~Settle(s) /\ ~Crash(s)
  <2>1. ASSUME Write(s) PROVE FALSE
    <3>1. PICK a \in Attempt :
            phase' = [phase EXCEPT ![s] = IF Retry(a, Len(judged[s]) + 1)
                                           THEN "WRITING" ELSE "KEEPING"]
      BY <2>1, WriteStep
    <3> QED BY <3>1
  <2> QED BY <2>1 DEF Start, WriteFails, Keep, Settle, Crash
<1> QED BY <1>1, <1>2, Moves DEF StageStep, CallsAreBooked

\* What the gates say of a payload is what the titles read tell.
LEMMA JudgedIsInformed ==
  ASSUME NEW s \in Stage, NEW a \in Attempt
  PROVE  Judged(s, a) <=> Informed(a, Titles(s))
<1>1. (a.title \in Titles(s)) <=> (\E t \in seen[s] : draft[t].kept.title = a.title)
  BY DEF Titles
<1> QED BY <1>1 DEF Judged, Informed

\* The titles a stage has read cannot change any more.
LEMMA TitlesStay ==
  ASSUME TypeInv, JudgedByTitles, [Next]_vars, NEW s \in Stage, seen'[s] = seen[s]
  PROVE  Titles(s)' = Titles(s)
<1>1. \A t \in seen[s] : t \in Stage /\ draft[t] # NoDraft
  BY DEF JudgedByTitles, TypeInv, TypeOK
<1>2. \A t \in seen[s] : draft'[t].kept = draft[t].kept
  BY <1>1, DraftStays
<1> QED BY <1>2 DEF Titles

LEMMA JudgedStep ==
  TypeInv /\ JudgedByTitles /\ [Next]_vars => JudgedByTitles'
<1> SUFFICES ASSUME TypeInv, JudgedByTitles, [Next]_vars, NEW s \in Stage
             PROVE  /\ phase'[s] = "IDLE" => judged'[s] = << >>
                    /\ \A t \in seen'[s] : draft'[t] # NoDraft
                    /\ \A i \in 1..Len(judged'[s]) : Informed(judged'[s][i], Titles(s)')
  BY DEF JudgedByTitles, Informed
<1>1. \A t \in Stage : draft[t] # NoDraft => draft'[t] # NoDraft
  BY DraftStays
<1>2. \A t \in seen[s] : t \in Stage /\ draft[t] # NoDraft
  BY DEF JudgedByTitles, TypeInv, TypeOK
<1>3. judged[s] \in Seq(Attempt)
  BY DEF TypeInv, TypeOK
<1>4. CASE Start(s)
  <2>1. seen'[s] = Competing(s) /\ judged'[s] = judged[s]
    BY <1>4, StartStep DEF TypeInv
  <2>2. judged[s] = << >>
    BY <1>4 DEF Start, JudgedByTitles
  <2>3. Len(judged'[s]) = 0
    BY <2>1, <2>2
  <2>4. \A t \in seen'[s] : draft'[t] # NoDraft
    BY <1>1, <2>1 DEF Competing
  <2> QED BY <2>1, <2>2, <2>3, <2>4
<1>5. CASE Write(s)
  <2>1. PICK a \in Attempt :
           /\ Judged(s, a)
           /\ Len(judged'[s]) = Len(judged[s]) + 1
           /\ \A i \in 1..Len(judged[s]) : judged'[s][i] = judged[s][i]
           /\ judged'[s][Len(judged[s]) + 1] = a
           /\ phase' = [phase EXCEPT ![s] = IF Retry(a, Len(judged[s]) + 1)
                                             THEN "WRITING" ELSE "KEEPING"]
    BY <1>5, WriteStep DEF TypeInv
  <2>2. seen'[s] = seen[s]
    BY <1>5 DEF Write
  <2>3. phase'[s] # "IDLE"
    BY <2>1 DEF TypeInv, TypeOK
  <2>4. Informed(a, Titles(s)) /\ Titles(s)' = Titles(s)
    BY <2>1, <2>2, JudgedIsInformed, TitlesStay
  <2>5. \A i \in 1..Len(judged'[s]) : i \in 1..Len(judged[s]) \/ i = Len(judged[s]) + 1
    BY <1>3, <2>1
  <2>6. \A i \in 1..Len(judged[s]) : Informed(judged[s][i], Titles(s))
    BY DEF JudgedByTitles
  <2>7. \A i \in 1..Len(judged'[s]) : Informed(judged'[s][i], Titles(s))
    BY <2>1, <2>4, <2>5, <2>6
  <2>8. \A t \in seen'[s] : draft'[t] # NoDraft
    BY <1>1, <1>2, <2>2
  <2> QED BY <2>3, <2>4, <2>7, <2>8
<1>6. CASE ~Start(s) /\ ~Write(s)
  <2>1. seen'[s] = seen[s] /\ judged'[s] = judged[s]
    BY <1>6, Moves DEF StageStep, WriteFails, Keep, Settle, Book, Crash
  <2>2. Titles(s)' = Titles(s)
    BY <2>1, TitlesStay
  <2>3. \A i \in 1..Len(judged[s]) : Informed(judged[s][i], Titles(s))
    BY DEF JudgedByTitles
  <2>4. phase'[s] = "IDLE" => phase[s] = "IDLE"
    BY <1>6, Moves DEF StageStep, WriteFails, Keep, Settle, Book, Crash, TypeInv, TypeOK
  <2>5. \A t \in seen'[s] : draft'[t] # NoDraft
    BY <1>1, <1>2, <2>1
  <2>6. phase'[s] = "IDLE" => judged'[s] = << >>
    BY <2>1, <2>4 DEF JudgedByTitles
  <2> QED BY <2>1, <2>2, <2>3, <2>5, <2>6
<1> QED BY <1>4, <1>5, <1>6

\* Once over, a stage stays over, and what another knew of it stays true.
LEMMA KnewStays ==
  ASSUME TypeInv, StatusAgrees, RejectedForGood, [Next]_vars,
         NEW s \in Stage, NEW t \in Stage, Knew(s, t), phase[s] # "IDLE"
  PROVE  Knew(s, t)'
<1> USE DEF TypeInv, TypeOK
<1>1. ~StageStep(t)
  BY DEF Knew, Running, StageStep, Start, Write, WriteFails, Keep, Settle, Book, Crash
<1>2. phase'[t] = phase[t]
  BY <1>1, Moves
<1>3. seen'[s] = seen[s]
  BY Moves DEF StageStep, Start, Write, WriteFails, Keep, Settle, Book, Crash
<1>4. draft[t] # NoDraft /\ draft[t].status = "REJECTED"
         => draft'[t].status = "REJECTED"
  BY DraftStays DEF RejectedForGood
<1>5. draft[t] = NoDraft => draft'[t] = NoDraft
  <2>1. \A target \in Target : draft[t] = NoDraft => ~Decide(t, target)
    BY DEF Decide, Decidable
  <2>2. ~Keep(t) /\ ~Settle(t)
    BY <1>1 DEF StageStep
  <2> QED BY <2>1, <2>2, Moves
<1> QED BY <1>2, <1>3, <1>4, <1>5 DEF Knew, Running

LEMMA OrderedStep ==
  TypeInv /\ StatusAgrees /\ RejectedForGood /\ Ordered /\ [Next]_vars => Ordered'
<1> SUFFICES ASSUME TypeInv, StatusAgrees, RejectedForGood, Ordered, [Next]_vars,
                    NEW s \in Stage, NEW t \in Stage,
                    s # t, KeywordOf[s] # KeywordOf[t],
                    phase'[s] # "IDLE", phase'[t] # "IDLE"
             PROVE  {s, t} \in together' \/ Knew(s, t)' \/ Knew(t, s)'
  BY DEF Ordered, Knew, Running
<1>1. CASE phase[s] # "IDLE" /\ phase[t] # "IDLE"
  <2>1. {s, t} \in together \/ Knew(s, t) \/ Knew(t, s)
    BY <1>1 DEF Ordered
  <2>2. together \subseteq together'
    BY Moves
  <2> QED BY <1>1, <2>1, <2>2, KnewStays
<1>2. ASSUME NEW u \in Stage, NEW v \in Stage, Start(u), u # v,
             KeywordOf[u] # KeywordOf[v], phase'[v] # "IDLE"
      PROVE  {u, v} \in together' \/ Knew(u, v)'
  <2>1. /\ phase' = [phase EXCEPT ![u] = "WRITING"]
        /\ seen'[u] = Competing(u)
        /\ Running(v) => {u, v} \in together'
        /\ draft' = draft
    BY <1>2, StartStep DEF TypeInv
  <2>2. phase'[v] = phase[v]
    BY <1>2, <2>1 DEF TypeInv, TypeOK
  <2>3. CASE Running(v)
    BY <2>1, <2>3
  <2>4. CASE ~Running(v)
    BY <1>2, <2>1, <2>2, <2>4 DEF Knew, Running, Competing
  <2> QED BY <2>3, <2>4
<1>3. ASSUME NEW u \in Stage, phase[u] = "IDLE", phase'[u] # "IDLE"
      PROVE  Start(u)
  BY <1>3, Moves DEF StageStep, Write, WriteFails, Keep, Settle, Book, Crash, Running
<1>4. CASE phase[s] = "IDLE"
  BY <1>2, <1>3, <1>4
<1>5. CASE phase[t] = "IDLE"
  <2>1. {t, s} \in together' \/ Knew(t, s)'
    BY <1>2, <1>3, <1>5
  <2> QED BY <2>1
<1> QED BY <1>1, <1>4, <1>5

LEMMA DraftAlways == Spec => [](TypeInv /\ DraftInv)
<1>1. Init => TypeInv /\ DraftInv
  BY TypeInit, DraftInit
<1>2. TypeInv /\ DraftInv /\ [Next]_vars => TypeInv' /\ DraftInv'
  BY TypeStep, SamplingStep, KeptStep, StatusStep, BookedStep, JudgedStep, OrderedStep
     DEF DraftInv
<1> QED BY <1>1, <1>2, PTL DEF Spec

\* Two drafts of different keywords under one title, both passing and neither rejected,
\* come from stages that ran at the same time: the DUPLICATE_TITLE gate, which runs
\* before the draft is a row, misses nothing else.
THEOREM CannibalsOnlyTogether == Spec => []NoCannibals
<1>1. TypeInv /\ DraftInv => NoCannibals
  <2> SUFFICES ASSUME TypeInv, DraftInv, NEW s \in Stage, NEW t \in Stage,
                      Passing(s), Passing(t), KeywordOf[s] # KeywordOf[t],
                      draft[s].kept.title = draft[t].kept.title
               PROVE  {s, t} \in together
    BY DEF NoCannibals
  <2>1. ASSUME NEW u \in Stage, NEW v \in Stage, Passing(u), Passing(v),
               draft[u].kept.title = draft[v].kept.title, Knew(u, v)
        PROVE  FALSE
    <3>1. v \in seen[u]
      BY <2>1 DEF Knew, Passing
    <3>2. PICK i \in 1..Len(judged[u]) : draft[u].kept = judged[u][i]
      BY <2>1 DEF DraftInv, KeptWasJudged, Passing
    <3>3. Informed(draft[u].kept, Titles(u))
      BY <3>2 DEF DraftInv, JudgedByTitles
    <3>4. draft[u].kept.unanswerable > 0
      BY <2>1, <3>1, <3>3 DEF Informed, Titles
    <3>5. Blocking(draft[u].kept) = 0
      BY <2>1 DEF DraftInv, StatusAgrees, Passing
    <3>6. draft[u].kept \in Attempt
      BY <2>1 DEF Passing, TypeInv, TypeOK, Draft
    <3> QED BY <3>4, <3>5, <3>6 DEF Blocking, Attempt
  <2>2. phase[s] # "IDLE" /\ phase[t] # "IDLE" /\ s # t
    BY DEF DraftInv, KeptWasJudged, Passing
  <2> QED BY <2>1, <2>2 DEF DraftInv, Ordered
<1> QED BY <1>1, DraftAlways, PTL

\* The writer is asked again only after findings a rewrite can answer.
THEOREM NeverSampled == Spec => []NoSampling
<1>1. DraftInv => NoSampling
  BY DEF DraftInv
<1> QED BY <1>1, DraftAlways, PTL

\* A re-emission never costs a better draft.
THEOREM KeptIsNeverWorse == Spec => []NeverWorse
<1>1. DraftInv => NeverWorse
  BY DEF DraftInv
<1> QED BY <1>1, DraftAlways, PTL

\* Status, verdicts and approval of a draft agree at every moment.
THEOREM StatusAlwaysAgrees == Spec => []StatusAgrees
<1>1. DraftInv => StatusAgrees
  BY DEF DraftInv
<1> QED BY <1>1, DraftAlways, PTL

\* Every draft call that brought a draft is booked by a stage that did not die
\* (pipeline_v2._persist_usage).
THEOREM CallsAreAlwaysBooked == Spec => []CallsAreBooked
<1>1. TypeInv /\ DraftInv => CallsAreBooked
  BY DEF DraftInv
<1> QED BY <1>1, DraftAlways, PTL
=============================================================================
