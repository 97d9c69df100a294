-------------------------- MODULE LeadExportProofs --------------------------
(***************************************************************************)
(* Theorems about LeadExport, for every set of leads, jobs, operators and  *)
(* correlations, every batch size and every number of attempts.            *)
(***************************************************************************)
EXTENDS LeadExport, TLAPS

-----------------------------------------------------------------------------
(* Typing.  The attempts of a lead stay within their bound only because a  *)
(* lead that has exhausted them is never waiting, in its row or in the     *)
(* snapshot of a job that still has it to do: typing and RetriesEnd are    *)
(* proved together.                                                        *)

SnapshotsWait ==
    \A j \in Job : \A l \in todo[j] :
        mem[j][l].state = "PENDING_EXPORT" /\ mem[j][l].attempts < MaxAttempts

\* A lead is never committed as NEW: capture_lead and deliver share a
\* transaction.  Were it otherwise, a job holding a NEW snapshot could reopen
\* a lead that another job has just given up.
NeverNew == \A l \in Lead : row[l].state # "NEW"

TypeInv == TypeOK /\ RetriesEnd /\ SnapshotsWait /\ NeverNew

\* A blank row and the row of a lead from the days of contract v1 are rows.
LEMMA BlankType == Blank \in Row /\ Blank.attempts < MaxAttempts
  BY NumberAssumption DEF Blank, Row, LeadState, ExportError

LEMMA OldRowType ==
  ASSUME NEW l \in Legacy
  PROVE  /\ OldRow(l) \in Row
         /\ OldRow(l).attempts < MaxAttempts
         /\ OldRow(l).charge.lead = l
         /\ OldRow(l).charge.corr = OldCharge[l]
         /\ OldRow(l).charge \in Charge
         /\ OldRow(l).state = "PENDING_EXPORT"
         /\ OldRow(l).prospect = NoId
<1> DEFINE c == [corr |-> OldCharge[l], lead |-> l, version |-> 1,
                 campaign |-> NoCampaign]
<1>1. OldCharge[l] \in Correlation /\ l \in Lead
  BY OldAssumption
<1>2. c \in Charge /\ c.lead = l /\ c.corr = OldCharge[l]
  BY <1>1 DEF Charge
<1>3. OldRow(l) = [state |-> "PENDING_EXPORT", charge |-> c, attempts |-> 0,
                   error |-> "none", prospect |-> NoId]
  BY DEF OldRow
<1> HIDE DEF c
<1> QED BY <1>2, <1>3, NumberAssumption DEF Row, LeadState, ExportError

\* What a flush writes is a row, when the snapshot and the new values are.
LEMMA FlushType ==
  ASSUME TypeOK, NEW j \in Job, NEW l \in Lead, NEW new \in Row, Flush(j, l, new)
  PROVE  row' \in [Lead -> Row]
<1>1. mem[j][l] \in Row /\ row[l] \in Row
  BY DEF TypeOK
<1>2. \A a, b, c : Changed(a, b, c) \in {a, c}
  BY DEF Changed
<1> DEFINE r == [state    |-> Changed(new.state, mem[j][l].state, row[l].state),
                 charge   |-> Changed(new.charge, mem[j][l].charge, row[l].charge),
                 attempts |-> Changed(new.attempts, mem[j][l].attempts, row[l].attempts),
                 error    |-> Changed(new.error, mem[j][l].error, row[l].error),
                 prospect |-> Changed(new.prospect, mem[j][l].prospect, row[l].prospect)]
<1>3. r \in Row
  BY <1>1, <1>2 DEF Row
<1>4. row' = [row EXCEPT ![l] = r]
  BY DEF Flush
<1> QED BY <1>3, <1>4 DEF TypeOK

\* What an answer makes of a waiting lead is a row, and the lead is still
\* waiting only with an attempt left.
LEMMA OutcomeType ==
  ASSUME NEW old \in Row, NEW a \in Answer, IsWaiting(old),
         old.attempts < MaxAttempts
  PROVE  /\ Outcome(old, a) \in Row
         /\ IsWaiting(Outcome(old, a)) => Outcome(old, a).attempts < MaxAttempts
         /\ Outcome(old, a).charge = old.charge
         /\ Outcome(old, a).attempts = old.attempts + 1
         /\ Outcome(old, a).state \in {"EXPORTED", "EXPORT_FAILED", "PENDING_EXPORT"}
         /\ Outcome(old, a).state = "EXPORTED" =>
               a.result \in {"CREATED", "REPLAY"}
         /\ Outcome(old, a).prospect # old.prospect =>
               /\ a.result \in {"CREATED", "REPLAY"}
               /\ Outcome(old, a).prospect = a.prospect
               /\ a.prospect # NoId
<1>1. old.attempts + 1 \in 0 .. MaxAttempts
  BY NumberAssumption DEF Row
<1>2. CASE a.result \in {"CREATED", "REPLAY"}
  BY <1>1, <1>2 DEF Outcome, Row, Answer, Result, LeadState, ExportError, IsWaiting
<1>3. CASE a.result \in {"CONFLICT", "UNAUTHORIZED", "REJECTED"}
  BY <1>1, <1>3 DEF Outcome, Row, Answer, Result, LeadState, ExportError, IsWaiting
<1>4. CASE a.result = "RETRYABLE" /\ old.attempts + 1 >= MaxAttempts
  BY <1>1, <1>4 DEF Outcome, Row, Answer, Result, LeadState, ExportError, IsWaiting
<1>5. CASE a.result = "RETRYABLE" /\ ~(old.attempts + 1 >= MaxAttempts)
  <2>1. old.attempts + 1 < MaxAttempts
    BY <1>1, <1>5, NumberAssumption
  <2> QED BY <1>1, <2>1, <1>5
          DEF Outcome, Row, Answer, Result, LeadState, ExportError, IsWaiting
<1> QED BY <1>2, <1>3, <1>4, <1>5 DEF Answer, Result

\* Going on to the next lead forgets one snapshot and nothing else.
LEMMA GoOnType ==
  ASSUME TypeInv, NEW j \in Job, NEW l \in Lead, GoOn(j, l)
  PROVE  /\ todo' \in [Job -> SUBSET Lead]
         /\ pc' \in [Job -> {"idle", "ready", "waiting", "answered"}]
         /\ mem' \in [Job -> [Lead -> Row]]
         /\ answer' \in [Job -> Answer]
         /\ conf' \in [Job -> Site]
         /\ SnapshotsWait'
<1> USE DEF TypeInv, TypeOK, GoOn
<1>1. todo' \in [Job -> SUBSET Lead]
  OBVIOUS
<1>2. pc' \in [Job -> {"idle", "ready", "waiting", "answered"}]
  OBVIOUS
<1>3. mem' \in [Job -> [Lead -> Row]]
  BY BlankType
<1>4. answer' \in [Job -> Answer]
  BY DEF NoAnswer, Answer, Result
<1>5. SnapshotsWait'
  <2> SUFFICES ASSUME NEW i \in Job, NEW k \in todo'[i]
               PROVE  /\ mem'[i][k].state = "PENDING_EXPORT"
                      /\ mem'[i][k].attempts < MaxAttempts
    BY DEF SnapshotsWait
  <2>1. k \in todo[i] /\ mem'[i][k] = mem[i][k]
    OBVIOUS
  <2> QED BY <2>1 DEF SnapshotsWait
<1> QED BY <1>1, <1>2, <1>3, <1>4, <1>5

LEMMA TypeInit == Init => TypeInv
<1> SUFFICES ASSUME Init PROVE TypeInv
  OBVIOUS
<1> USE DEF Init
<1>1. row \in [Lead -> Row] /\ RetriesEnd /\ NeverNew
  BY BlankType, OldRowType DEF RetriesEnd, NeverNew, Blank
<1>2. used \subseteq Correlation
  BY OldAssumption
<1>3. answer \in [Job -> Answer]
  BY DEF NoAnswer, Answer, Result
<1>4. conf \in [Job -> Site] /\ site \in Site
  BY SitesAssumption DEF Site
<1>5. crashes \in 0 .. MaxCrashes
  BY NumberAssumption
<1> QED BY <1>1, <1>2, <1>3, <1>4, <1>5, BlankType DEF TypeInv, TypeOK, SnapshotsWait

LEMMA TypeStep == TypeInv /\ [Next]_vars => TypeInv'
<1> SUFFICES ASSUME TypeInv, [Next]_vars PROVE TypeInv'
  OBVIOUS
<1> USE DEF TypeInv, TypeOK, jobVars
<1>1. ASSUME NEW l \in Lead, Capture(l) PROVE TypeInv'
  <2>1. [Blank EXCEPT !.state = "PENDING_EXPORT"] \in Row
    BY BlankType DEF Row, LeadState
  <2>2. row' \in [Lead -> Row]
    BY <1>1, <2>1 DEF Capture
  <2>3. /\ [Blank EXCEPT !.state = "PENDING_EXPORT"].attempts < MaxAttempts
        /\ [Blank EXCEPT !.state = "PENDING_EXPORT"].state # "NEW"
    BY BlankType DEF Blank
  <2>4. RetriesEnd' /\ NeverNew'
    BY <1>1, <2>3 DEF Capture, RetriesEnd, NeverNew
  <2> QED BY <1>1, <2>2, <2>4 DEF Capture, SnapshotsWait
<1>2. CASE Reconfigure
  BY <1>2, SitesAssumption DEF Reconfigure, RetriesEnd, SnapshotsWait, NeverNew
<1>3. ASSUME NEW j \in Job, StartExport(j) PROVE TypeInv'
  <2>1. /\ Batch \subseteq Lead
        /\ \A l \in Batch : IsWaiting(row[l]) /\ row[l].state = "PENDING_EXPORT"
    BY DEF Batch, Waiting, IsWaiting, NeverNew
  <2>2. todo' \in [Job -> SUBSET Lead] /\ mem' \in [Job -> [Lead -> Row]]
    BY <1>3, <2>1, BlankType DEF StartExport
  <2>3. SnapshotsWait'
    <3> SUFFICES ASSUME NEW i \in Job, NEW k \in todo'[i]
                 PROVE  /\ mem'[i][k].state = "PENDING_EXPORT"
                      /\ mem'[i][k].attempts < MaxAttempts
      BY DEF SnapshotsWait
    <3>1. CASE i = j
      <4>1. k \in Batch /\ mem'[i][k] = row[k]
        BY <1>3, <2>1, <3>1 DEF StartExport
      <4> QED BY <2>1, <4>1 DEF RetriesEnd
    <3>2. CASE i # j
      BY <1>3, <3>2 DEF StartExport, SnapshotsWait
    <3> QED BY <3>1, <3>2
  <2> QED BY <1>3, <2>2, <2>3 DEF StartExport, RetriesEnd, NeverNew
<1>4. ASSUME NEW j \in Job, Timeout(j) PROVE TypeInv'
  BY <1>4 DEF Timeout, NoAnswer, Answer, Result, RetriesEnd, SnapshotsWait, NeverNew
<1>5. ASSUME NEW j \in Job, Crash(j) PROVE TypeInv'
  <2>1. mem' \in [Job -> [Lead -> Row]] /\ todo' \in [Job -> SUBSET Lead]
    BY <1>5, BlankType DEF Crash
  <2>2. answer' \in [Job -> Answer]
    BY <1>5 DEF Crash, NoAnswer, Answer, Result
  <2>3. crashes' \in 0 .. MaxCrashes
    BY <1>5, NumberAssumption DEF Crash
  <2>4. SnapshotsWait'
    BY <1>5 DEF Crash, SnapshotsWait
  <2> QED BY <1>5, <2>1, <2>2, <2>3, <2>4 DEF Crash, RetriesEnd, NeverNew
<1>6. ASSUME NEW j \in Job, NEW l \in Lead, RefuseLead(j, l) PROVE TypeInv'
  BY <1>6, GoOnType DEF RefuseLead, RetriesEnd, NeverNew
<1>7. ASSUME NEW j \in Job, NEW l \in Lead, Mint(j, l) PROVE TypeInv'
  <2>1. PICK c \in Correlation \ used :
          LET charge == [corr |-> c, lead |-> l, version |-> 2,
                         campaign |-> conf[j].campaign]
              new == [mem[j][l] EXCEPT
                        !.charge = charge,
                        !.state = IF @ = "NEW" THEN "PENDING_EXPORT" ELSE @]
          IN  /\ used' = used \cup {c}
              /\ Flush(j, l, new)
              /\ mem' = [mem EXCEPT ![j][l] = new]
    BY <1>7 DEF Mint
  <2> DEFINE charge == [corr |-> c, lead |-> l, version |-> 2,
                        campaign |-> conf[j].campaign]
             new == [mem[j][l] EXCEPT
                       !.charge = charge,
                       !.state = IF @ = "NEW" THEN "PENDING_EXPORT" ELSE @]
  <2>2. charge \in Charge
    BY DEF Charge, Site
  <2>3. mem[j][l] \in Row /\ l \in todo[j]
    BY <1>7 DEF Mint, IsCurrent
  <2>4. mem[j][l].state = "PENDING_EXPORT" /\ mem[j][l].attempts < MaxAttempts
    BY <2>3 DEF SnapshotsWait
  <2> HIDE DEF charge
  <2>5. new \in Row /\ new.attempts = mem[j][l].attempts
    BY <2>2, <2>3 DEF Row, LeadState
  <2>6. new.state = mem[j][l].state /\ new.state = "PENDING_EXPORT"
    BY <2>3, <2>4 DEF Row
  <2>7. used' = used \cup {c} /\ Flush(j, l, new) /\ mem' = [mem EXCEPT ![j][l] = new]
    BY <2>1 DEF charge
  <2> HIDE DEF new
  <2>8. row' \in [Lead -> Row]
    BY <2>5, <2>7, FlushType
  <2>9. RetriesEnd'
    <3> SUFFICES ASSUME NEW k \in Lead, IsWaiting(row'[k])
                 PROVE  row'[k].attempts < MaxAttempts
      BY DEF RetriesEnd
    <3>1. CASE k # l
      BY <2>7, <3>1 DEF Flush, RetriesEnd
    <3>2. CASE k = l
      <4>1. /\ row'[l].attempts = row[l].attempts
            /\ row'[l].state = row[l].state
        BY <2>5, <2>6, <2>7 DEF Flush, Changed
      <4> QED BY <3>2, <4>1 DEF RetriesEnd, IsWaiting
    <3> QED BY <3>1, <3>2
  <2>10. NeverNew'
    BY <2>5, <2>6, <2>7 DEF Flush, Changed, NeverNew
  <2>11. mem' \in [Job -> [Lead -> Row]]
    BY <2>5, <2>7
  <2>12. SnapshotsWait'
    <3> SUFFICES ASSUME NEW i \in Job, NEW k \in todo[i]
                 PROVE  /\ mem'[i][k].state = "PENDING_EXPORT"
                        /\ mem'[i][k].attempts < MaxAttempts
      BY <1>7 DEF SnapshotsWait, Mint
    <3>1. mem'[i][k] = IF i = j /\ k = l THEN new ELSE mem[i][k]
      BY <2>7
    <3> QED BY <3>1, <2>4, <2>5, <2>6 DEF SnapshotsWait
  <2> QED BY <1>7, <2>7, <2>8, <2>9, <2>10, <2>11, <2>12 DEF Mint
<1>8. ASSUME NEW j \in Job, NEW l \in Lead, StaleContract(j, l) PROVE TypeInv'
  <2> DEFINE new == [mem[j][l] EXCEPT !.error = "STALE_CONTRACT"]
  <2>0. mem[j][l] \in Row
    OBVIOUS
  <2>1. /\ new \in Row
        /\ new.attempts = mem[j][l].attempts
        /\ new.state = mem[j][l].state
    BY <2>0 DEF Row, ExportError
  <2> HIDE DEF new
  <2>2. Flush(j, l, new) /\ GoOn(j, l)
    BY <1>8 DEF StaleContract, new
  <2>3. row' \in [Lead -> Row]
    BY <2>1, <2>2, FlushType
  <2>4. \A k \in Lead : /\ row'[k].attempts = row[k].attempts
                        /\ row'[k].state = row[k].state
    BY <2>1, <2>2 DEF Flush, Changed
  <2>5. RetriesEnd' /\ NeverNew'
    BY <2>4 DEF RetriesEnd, NeverNew, IsWaiting
  <2> QED BY <1>8, <2>2, <2>3, <2>5, GoOnType DEF StaleContract
<1>9. ASSUME NEW j \in Job, NEW l \in Lead, Send(j, l) PROVE TypeInv'
  <2>1. mem[j][l].charge \in Charge
    BY <1>9 DEF Send, Row
  <2> QED BY <1>9, <2>1 DEF Send, RetriesEnd, SnapshotsWait, NeverNew
<1>10. ASSUME NEW j \in Job, NEW l \in Lead, Record(j, l) PROVE TypeInv'
  <2> DEFINE new == Outcome(mem[j][l], answer[j])
  <2>1. Flush(j, l, new) /\ GoOn(j, l)
    BY <1>10 DEF Record
  <2>2. /\ mem[j][l] \in Row
        /\ answer[j] \in Answer
        /\ mem[j][l].state = "PENDING_EXPORT"
        /\ mem[j][l].attempts < MaxAttempts
    BY <1>10 DEF Record, IsCurrent, SnapshotsWait
  <2>3. /\ new \in Row
        /\ IsWaiting(new) => new.attempts < MaxAttempts
        /\ new.state \in {"EXPORTED", "EXPORT_FAILED", "PENDING_EXPORT"}
        /\ new.attempts = mem[j][l].attempts + 1
    BY <2>2, OutcomeType DEF IsWaiting
  <2>a. new.attempts # mem[j][l].attempts
    BY <2>2, <2>3 DEF Row
  <2> HIDE DEF new
  <2>4. row' \in [Lead -> Row]
    BY <2>1, <2>3, FlushType
  <2>5. /\ row'[l].attempts = new.attempts
        /\ row'[l].state \in {row[l].state, new.state}
        /\ new.state # "PENDING_EXPORT" => row'[l].state = new.state
        /\ \A k \in Lead \ {l} : row'[k] = row[k]
    BY <2>1, <2>2, <2>a DEF Flush, Changed
  <2>6. NeverNew'
    BY <2>3, <2>5 DEF NeverNew
  <2>7. RetriesEnd'
    BY <2>3, <2>5 DEF RetriesEnd, IsWaiting
  <2> QED BY <1>10, <2>1, <2>4, <2>6, <2>7, GoOnType DEF Record
<1>11. ASSUME NEW w \in wire, Accept(w[1], w[2]) PROVE TypeInv'
  <2> DEFINE j == w[1]
             c == w[2]
  <2>1. j \in Job /\ c \in Charge
    OBVIOUS
  <2>2. wire' \subseteq Job \X Charge /\ deposits' \subseteq Charge
    BY <1>11, <2>1 DEF Accept
  <2>3. UNCHANGED <<row, site, used, desk, crashes, todo, mem, conf>>
    BY <1>11 DEF Accept, Reply
  <2>4. /\ pc' \in [Job -> {"idle", "ready", "waiting", "answered"}]
        /\ answer' \in [Job -> Answer]
    <3>1. CASE UNCHANGED jobVars
      BY <3>1
    <3>2. CASE Verdict(c) = "CONFLICT" /\ Reply(j, c, "CONFLICT", NoId)
      BY <3>2, <2>1 DEF Reply, Answer, Result
    <3>3. ASSUME NEW id \in {c.corr, NoId}, Reply(j, c, Verdict(c), id),
                 Verdict(c) # "CONFLICT"
          PROVE  /\ pc' \in [Job -> {"idle", "ready", "waiting", "answered"}]
                 /\ answer' \in [Job -> Answer]
      <4>1. Verdict(c) \in Result
        BY DEF Verdict, Result
      <4>2. id \in Correlation \cup {NoId}
        BY <2>1 DEF Charge
      <4> QED BY <3>3, <2>1, <4>1, <4>2 DEF Reply, Answer
    <3> QED BY <1>11, <3>1, <3>2, <3>3 DEF Accept
  <2> QED BY <2>2, <2>3, <2>4 DEF RetriesEnd, SnapshotsWait, NeverNew
<1>12. ASSUME NEW w \in wire, Refuse(w[1], w[2]) PROVE TypeInv'
  <2>1. w[1] \in Job
    OBVIOUS
  <2>2. UNCHANGED <<row, site, used, desk, deposits, crashes, todo, mem, conf>>
    BY <1>12 DEF Refuse, Reply
  <2>3. /\ pc' \in [Job -> {"idle", "ready", "waiting", "answered"}]
        /\ answer' \in [Job -> Answer]
        /\ wire' \subseteq Job \X Charge
    BY <1>12, <2>1 DEF Refuse, Reply, Answer, Result
  <2> QED BY <2>2, <2>3 DEF RetriesEnd, SnapshotsWait, NeverNew
<1>13. ASSUME NEW d \in Desk, NEW l \in Lead, ArchiveRead(d, l) PROVE TypeInv'
  BY <1>13 DEF ArchiveRead, RetriesEnd, SnapshotsWait, NeverNew
<1>14. ASSUME NEW d \in Desk, ArchiveCommit(d) PROVE TypeInv'
  <2>1. desk[d] \in Lead
    BY <1>14 DEF ArchiveCommit
  <2>a. row[desk[d]] \in Row
    BY <2>1
  <2>2. [row[desk[d]] EXCEPT !.state = "ARCHIVED"] \in Row
    BY <2>a DEF Row, LeadState
  <2>3. row' \in [Lead -> Row]
    BY <1>14, <2>1, <2>2 DEF ArchiveCommit
  <2>4. RetriesEnd' /\ NeverNew'
    BY <1>14, <2>1 DEF ArchiveCommit, RetriesEnd, NeverNew, IsWaiting
  <2> QED BY <1>14, <2>3, <2>4, LeadAssumption DEF ArchiveCommit, SnapshotsWait
<1>15. CASE UNCHANGED vars
  BY <1>15 DEF vars, RetriesEnd, SnapshotsWait, NeverNew
<1> QED
  BY <1>1, <1>2, <1>3, <1>4, <1>5, <1>6, <1>7, <1>8, <1>9, <1>10, <1>11, <1>12,
     <1>13, <1>14, <1>15 DEF Next, JobStep

\* Type correctness: no action of a job, an operator, the destination or a
\* death of a job takes a column, a snapshot or a message out of its type.
THEOREM TypeCorrect == Spec => []TypeOK
<1>1. TypeInv => TypeOK
  BY DEF TypeInv
<1> QED BY TypeInit, TypeStep, <1>1, PTL DEF Spec

\* Retries end: a lead whose attempts are used up never waits again, for any
\* number of overlapping jobs and operators (exporter_lead, l.202-206).
THEOREM RetriesEndAlways == Spec => []RetriesEnd
<1>1. TypeInv => RetriesEnd
  BY DEF TypeInv
<1> QED BY TypeInit, TypeStep, <1>1, PTL DEF Spec

-----------------------------------------------------------------------------
(* EXPORTED is real.  A payload always names the lead it was built from, and *)
(* an answer of success is only ever held on a payload the destination keeps. *)

Owned ==
    /\ \A l \in Lead : row[l].charge # NoCharge => row[l].charge.lead = l
    /\ \A j \in Job, l \in Lead :
          mem[j][l].charge # NoCharge => mem[j][l].charge.lead = l

Success(a) == a.result \in {"CREATED", "REPLAY"}

AnswersAreTrue ==
    \A j \in Job, l \in Lead :
        pc[j] = "answered" /\ IsCurrent(j, l) /\ Success(answer[j]) =>
            /\ mem[j][l].charge \in deposits
            /\ answer[j].prospect \in {mem[j][l].charge.corr, NoId}

RealInv == Owned /\ AnswersAreTrue /\ ExportedIsReal /\ ProspectIsTheLeads

LEMMA CurrentIsUnique ==
  ASSUME TypeOK, NEW j \in Job, NEW k \in Lead, NEW l \in Lead,
         IsCurrent(j, k), IsCurrent(j, l)
  PROVE  k = l
BY LeadAssumption DEF IsCurrent, TypeOK

\* A flush of values that keep the snapshot's payload keeps the row's payload.
LEMMA FlushKeepsCharge ==
  ASSUME TypeOK, NEW j \in Job, NEW l \in Lead, NEW new \in Row, Flush(j, l, new),
         new.charge = mem[j][l].charge
  PROVE  \A k \in Lead : row'[k].charge = row[k].charge
BY DEF Flush, Changed, TypeOK

\* Deposits are never taken back.
LEMMA DepositsGrow == [Next]_vars => deposits \subseteq deposits'
<1> USE DEF jobVars
<1>1. ASSUME NEW w \in wire, Accept(w[1], w[2]) PROVE deposits \subseteq deposits'
  BY <1>1 DEF Accept
<1>2. ASSUME NEW w \in wire, Refuse(w[1], w[2]) PROVE deposits' = deposits
  BY <1>2 DEF Refuse
<1>3. ASSUME NEW j \in Job, NEW l \in Lead, JobStep(j, l) PROVE deposits' = deposits
  BY <1>3 DEF JobStep, RefuseLead, Mint, StaleContract, Send, Record
<1>4. ASSUME NEW j \in Job, StartExport(j) \/ Timeout(j) \/ Crash(j)
      PROVE  deposits' = deposits
  BY <1>4 DEF StartExport, Timeout, Crash
<1> QED
  BY <1>1, <1>2, <1>3, <1>4
     DEF Next, Capture, Reconfigure, ArchiveRead, ArchiveCommit, vars

\* The invariant is kept by a step that writes no row, no snapshot and no answer
\* of success.
LEMMA RealStutter ==
  ASSUME RealInv, deposits \subseteq deposits',
         \A l \in Lead : /\ row'[l].charge = row[l].charge
                         /\ row'[l].state = "EXPORTED" => row[l].state = "EXPORTED"
                         /\ row'[l].prospect \in {row[l].prospect, NoId},
         \A j \in Job, l \in Lead :
             mem'[j][l].charge # NoCharge => mem'[j][l].charge = mem[j][l].charge,
         \A j \in Job, l \in Lead :
             pc'[j] = "answered" /\ IsCurrent(j, l)' /\ Success(answer'[j]) =>
                /\ pc[j] = "answered" /\ IsCurrent(j, l)
                /\ answer'[j] = answer[j]
                /\ mem'[j][l] = mem[j][l]
  PROVE  RealInv'
<1>1. Owned'
  BY DEF RealInv, Owned
<1>2. AnswersAreTrue'
  BY DEF RealInv, AnswersAreTrue
<1>3. ExportedIsReal' /\ ProspectIsTheLeads'
  BY DEF RealInv, ExportedIsReal, ProspectIsTheLeads
<1> QED BY <1>1, <1>2, <1>3 DEF RealInv

LEMMA RealInit == Init => RealInv
<1> SUFFICES ASSUME Init PROVE RealInv
  OBVIOUS
<1>1. \A l \in Lead : /\ row[l].charge # NoCharge => row[l].charge.lead = l
                      /\ row[l].state # "EXPORTED"
                      /\ row[l].prospect = NoId
  BY OldRowType DEF Init, Blank
<1>2. \A j \in Job, l \in Lead : mem[j][l].charge = NoCharge
  BY DEF Init, Blank
<1>3. \A j \in Job : pc[j] = "idle"
  BY DEF Init
<1> QED
  BY <1>1, <1>2, <1>3
     DEF RealInv, Owned, AnswersAreTrue, ExportedIsReal, ProspectIsTheLeads

\* Going on never leaves a job with an answer.
LEMMA GoOnPc ==
  ASSUME TypeOK, NEW j \in Job, NEW l \in Lead, GoOn(j, l)
  PROVE  /\ pc'[j] # "answered"
         /\ \A i \in Job \ {j} : /\ pc'[i] = pc[i] /\ todo'[i] = todo[i]
                                /\ mem'[i] = mem[i] /\ answer'[i] = answer[i]
         /\ \A i \in Job, k \in Lead :
               mem'[i][k].charge # NoCharge => mem'[i][k].charge = mem[i][k].charge
<1>1. pc'[j] # "answered"
  BY DEF GoOn, TypeOK
<1>2. \A i \in Job \ {j} : /\ pc'[i] = pc[i] /\ todo'[i] = todo[i]
                          /\ mem'[i] = mem[i] /\ answer'[i] = answer[i]
  BY DEF GoOn, TypeOK
<1>3. \A i \in Job, k \in Lead : mem'[i][k] \in {Blank, mem[i][k]}
  BY DEF GoOn, TypeOK
<1> QED BY <1>1, <1>2, <1>3 DEF Blank

LEMMA RealStep == TypeInv /\ RealInv /\ [Next]_vars => RealInv'
<1> SUFFICES ASSUME TypeInv, RealInv, [Next]_vars PROVE RealInv'
  OBVIOUS
<1> USE DEF jobVars
<1>0. TypeOK /\ deposits \subseteq deposits'
  BY DepositsGrow DEF TypeInv
<1>1. ASSUME NEW l \in Lead, Capture(l) PROVE RealInv'
  <2>1. /\ row'[l].charge = NoCharge
        /\ row'[l].state # "EXPORTED"
        /\ row'[l].prospect = NoId
        /\ \A k \in Lead \ {l} : row'[k] = row[k]
    BY <1>0, <1>1 DEF Capture, Blank, TypeOK
  <2>2. UNCHANGED <<pc, todo, mem, answer, deposits>>
    BY <1>1 DEF Capture
  <2> QED
    BY <2>1, <2>2
       DEF RealInv, Owned, AnswersAreTrue, ExportedIsReal, ProspectIsTheLeads,
           IsCurrent
<1>2. CASE Reconfigure
  BY <1>0, <1>2, RealStutter DEF Reconfigure, IsCurrent
<1>3. ASSUME NEW j \in Job, StartExport(j) PROVE RealInv'
  <2>1. UNCHANGED <<row, deposits, answer>>
    BY <1>3 DEF StartExport
  <2>2. /\ pc'[j] = "ready"
        /\ \A i \in Job \ {j} : pc'[i] = pc[i] /\ todo'[i] = todo[i] /\ mem'[i] = mem[i]
        /\ \A k \in Lead : mem'[j][k] \in {row[k], Blank}
    BY <1>0, <1>3 DEF StartExport, TypeOK
  <2>3. Owned'
    BY <2>1, <2>2 DEF RealInv, Owned, Blank
  <2>4. AnswersAreTrue'
    BY <2>1, <2>2 DEF RealInv, AnswersAreTrue, IsCurrent
  <2> QED BY <2>1, <2>3, <2>4 DEF RealInv, ExportedIsReal, ProspectIsTheLeads
<1>4. ASSUME NEW j \in Job, Timeout(j) PROVE RealInv'
  <2>1. ~Success(NoAnswer)
    BY DEF Success, NoAnswer
  <2>2. /\ answer'[j] = NoAnswer
        /\ \A i \in Job \ {j} : pc'[i] = pc[i] /\ answer'[i] = answer[i]
        /\ UNCHANGED <<row, mem, todo, deposits>>
    BY <1>0, <1>4 DEF Timeout, TypeOK
  <2> QED BY <1>0, <2>1, <2>2, RealStutter DEF IsCurrent
<1>5. ASSUME NEW j \in Job, Crash(j) PROVE RealInv'
  <2>1. /\ pc'[j] = "idle"
        /\ \A k \in Lead : mem'[j][k] = Blank
        /\ \A i \in Job \ {j} : /\ pc'[i] = pc[i] /\ answer'[i] = answer[i]
                               /\ mem'[i] = mem[i] /\ todo'[i] = todo[i]
        /\ UNCHANGED <<row, deposits>>
    BY <1>0, <1>5 DEF Crash, TypeOK
  <2> QED BY <1>0, <2>1, RealStutter DEF IsCurrent, Blank
<1>6. ASSUME NEW j \in Job, NEW l \in Lead, RefuseLead(j, l) PROVE RealInv'
  <2>1. GoOn(j, l) /\ UNCHANGED <<row, deposits>>
    BY <1>6 DEF RefuseLead
  <2> QED BY <1>0, <2>1, GoOnPc, RealStutter DEF IsCurrent
<1>7. ASSUME NEW j \in Job, NEW l \in Lead, Mint(j, l) PROVE RealInv'
  <2>1. PICK c \in Correlation \ used :
          LET charge == [corr |-> c, lead |-> l, version |-> 2,
                         campaign |-> conf[j].campaign]
              new == [mem[j][l] EXCEPT
                        !.charge = charge,
                        !.state = IF @ = "NEW" THEN "PENDING_EXPORT" ELSE @]
          IN  /\ used' = used \cup {c}
              /\ Flush(j, l, new)
              /\ mem' = [mem EXCEPT ![j][l] = new]
    BY <1>7 DEF Mint
  <2> DEFINE charge == [corr |-> c, lead |-> l, version |-> 2,
                        campaign |-> conf[j].campaign]
             new == [mem[j][l] EXCEPT
                       !.charge = charge,
                       !.state = IF @ = "NEW" THEN "PENDING_EXPORT" ELSE @]
  <2>2. mem[j][l] \in Row /\ l \in todo[j] /\ pc[j] = "ready"
    BY <1>0, <1>7 DEF Mint, IsCurrent, TypeOK
  <2>3. mem[j][l].state = "PENDING_EXPORT"
    BY <2>2 DEF TypeInv, SnapshotsWait
  <2>4. /\ new.charge.lead = l
        /\ new.state = mem[j][l].state
        /\ new.prospect = mem[j][l].prospect
    BY <2>2, <2>3 DEF Row
  <2>5. Flush(j, l, new) /\ mem' = [mem EXCEPT ![j][l] = new]
    BY <2>1
  <2> HIDE DEF new, charge
  <2>6. /\ \A k \in Lead \ {l} : row'[k] = row[k]
        /\ row'[l].charge \in {row[l].charge, new.charge}
        /\ row'[l].state = row[l].state
        /\ row'[l].prospect = row[l].prospect
    BY <1>0, <2>4, <2>5 DEF Flush, Changed, TypeOK
  <2>7. \A i \in Job, k \in Lead :
           mem'[i][k] = IF i = j /\ k = l THEN new ELSE mem[i][k]
    BY <1>0, <2>5 DEF TypeOK
  <2>8. Owned'
    BY <2>4, <2>6, <2>7 DEF RealInv, Owned
  <2>9. UNCHANGED <<pc, todo, answer, deposits>>
    BY <1>7 DEF Mint
  <2>10. AnswersAreTrue'
    BY <2>2, <2>7, <2>9 DEF RealInv, AnswersAreTrue, IsCurrent
  <2>11. ExportedIsReal' /\ ProspectIsTheLeads'
    BY <2>6, <2>9 DEF RealInv, ExportedIsReal, ProspectIsTheLeads
  <2> QED BY <2>8, <2>10, <2>11 DEF RealInv
<1>8. ASSUME NEW j \in Job, NEW l \in Lead, StaleContract(j, l) PROVE RealInv'
  <2> DEFINE new == [mem[j][l] EXCEPT !.error = "STALE_CONTRACT"]
  <2>1. mem[j][l] \in Row
    BY <1>0 DEF TypeOK
  <2>2. /\ new.charge = mem[j][l].charge
        /\ new.state = mem[j][l].state
        /\ new.prospect = mem[j][l].prospect
    BY <2>1 DEF Row
  <2>3. Flush(j, l, new) /\ GoOn(j, l) /\ deposits' = deposits
    BY <1>8 DEF StaleContract
  <2> HIDE DEF new
  <2>4. \A k \in Lead : /\ row'[k].charge = row[k].charge
                        /\ row'[k].state = row[k].state
                        /\ row'[k].prospect = row[k].prospect
    BY <1>0, <2>2, <2>3 DEF Flush, Changed, TypeOK
  <2> QED BY <1>0, <2>3, <2>4, GoOnPc, RealStutter DEF IsCurrent
<1>9. ASSUME NEW j \in Job, NEW l \in Lead, Send(j, l) PROVE RealInv'
  <2>1. /\ pc'[j] = "waiting"
        /\ \A i \in Job \ {j} : pc'[i] = pc[i]
        /\ UNCHANGED <<row, mem, todo, answer, deposits>>
    BY <1>0, <1>9 DEF Send, TypeOK
  <2> QED BY <1>0, <2>1, RealStutter DEF IsCurrent
<1>10. ASSUME NEW j \in Job, NEW l \in Lead, Record(j, l) PROVE RealInv'
  <2> DEFINE old == mem[j][l]
             a == answer[j]
             new == Outcome(old, a)
  <2>1. Flush(j, l, new) /\ GoOn(j, l) /\ deposits' = deposits
    BY <1>10 DEF Record
  <2>2. pc[j] = "answered" /\ IsCurrent(j, l) /\ l \in todo[j]
    BY <1>10 DEF Record, IsCurrent
  <2>3. /\ old \in Row /\ a \in Answer
        /\ old.state = "PENDING_EXPORT"
        /\ old.attempts < MaxAttempts
    BY <1>0, <2>2 DEF TypeInv, SnapshotsWait, TypeOK
  <2>4. /\ new.charge = old.charge
        /\ new.state = "EXPORTED" => Success(a)
        /\ new.prospect # old.prospect =>
              Success(a) /\ new.prospect = a.prospect /\ a.prospect # NoId
    BY <2>3, OutcomeType DEF IsWaiting, Success
  <2>5. Success(a) => /\ old.charge \in deposits
                      /\ a.prospect \in {old.charge.corr, NoId}
                      /\ old.charge.lead = l
    <3>1. Success(a) => /\ old.charge \in deposits
                        /\ a.prospect \in {old.charge.corr, NoId}
      BY <2>2 DEF RealInv, AnswersAreTrue
    <3>2. old.charge \in deposits => old.charge # NoCharge
      BY <1>0, NoChargeAssumption DEF TypeOK
    <3> QED BY <3>1, <3>2 DEF RealInv, Owned
  <2> HIDE DEF new
  <2>6. /\ \A k \in Lead \ {l} : row'[k] = row[k]
        /\ row'[l].charge = row[l].charge
        /\ row'[l].state \in {row[l].state, new.state}
        /\ row'[l].prospect = row[l].prospect
              \/ (new.prospect # old.prospect /\ row'[l].prospect = new.prospect)
    BY <1>0, <2>1, <2>4 DEF Flush, Changed, TypeOK
  <2>7. ExportedIsReal'
    BY <2>1, <2>4, <2>5, <2>6 DEF RealInv, ExportedIsReal
  <2>8. ProspectIsTheLeads'
    BY <2>1, <2>4, <2>5, <2>6 DEF RealInv, ProspectIsTheLeads
  <2>9. Owned'
    BY <1>0, <2>1, <2>6, GoOnPc DEF RealInv, Owned
  <2>10. AnswersAreTrue'
    BY <1>0, <2>1, GoOnPc DEF RealInv, AnswersAreTrue, IsCurrent
  <2> QED BY <2>7, <2>8, <2>9, <2>10 DEF RealInv
<1>11. ASSUME NEW w \in wire, Accept(w[1], w[2]) PROVE RealInv'
  <2> DEFINE j == w[1]
             c == w[2]
  <2>1. j \in Job /\ c \in Charge
    BY <1>0 DEF TypeOK
  <2>2. UNCHANGED <<row, todo, mem>>
    BY <1>11 DEF Accept, Reply
  <2>3. CASE UNCHANGED jobVars
    BY <1>0, <2>2, <2>3, RealStutter DEF IsCurrent
  <2>4. CASE Verdict(c) = "CONFLICT" /\ Reply(j, c, "CONFLICT", NoId)
    <3>1. /\ ~Success(answer'[j])
          /\ \A i \in Job \ {j} : pc'[i] = pc[i] /\ answer'[i] = answer[i]
      BY <1>0, <2>1, <2>4 DEF Reply, Success, TypeOK
    <3> QED BY <1>0, <2>2, <3>1, RealStutter DEF IsCurrent
  <2>5. ASSUME NEW id \in {c.corr, NoId}, Verdict(c) # "CONFLICT",
               Reply(j, c, Verdict(c), id)
        PROVE  RealInv'
    <3>1. c \in deposits'
      BY <1>11, <2>5 DEF Accept, Verdict
    <3>2. \A k \in Lead : IsCurrent(j, k) => mem[j][k].charge = c
      BY <1>0, <2>1, <2>5, CurrentIsUnique DEF Reply, Awaited
    <3>3. /\ answer'[j].prospect = id
          /\ \A i \in Job \ {j} : pc'[i] = pc[i] /\ answer'[i] = answer[i]
      BY <1>0, <2>1, <2>5 DEF Reply, TypeOK
    <3>4. AnswersAreTrue'
      BY <1>0, <2>2, <3>1, <3>2, <3>3 DEF RealInv, AnswersAreTrue, IsCurrent
    <3> QED
      BY <1>0, <2>2, <3>4 DEF RealInv, Owned, ExportedIsReal, ProspectIsTheLeads
  <2> QED BY <1>11, <2>3, <2>4, <2>5 DEF Accept
<1>12. ASSUME NEW w \in wire, Refuse(w[1], w[2]) PROVE RealInv'
  <2>1. w[1] \in Job
    BY <1>0 DEF TypeOK
  <2>2. /\ UNCHANGED <<row, deposits, todo, mem>>
        /\ ~Success(answer'[w[1]])
        /\ \A i \in Job \ {w[1]} : pc'[i] = pc[i] /\ answer'[i] = answer[i]
    BY <1>0, <1>12, <2>1 DEF Refuse, Reply, Success, TypeOK
  <2> QED BY <1>0, <2>1, <2>2, RealStutter DEF IsCurrent
<1>13. ASSUME NEW d \in Desk, NEW l \in Lead, ArchiveRead(d, l) PROVE RealInv'
  BY <1>0, <1>13, RealStutter DEF ArchiveRead, IsCurrent
<1>14. ASSUME NEW d \in Desk, ArchiveCommit(d) PROVE RealInv'
  <2>1. desk[d] \in Lead
    BY <1>0, <1>14 DEF ArchiveCommit, TypeOK
  <2>2. /\ UNCHANGED <<pc, todo, mem, answer, deposits>>
        /\ \A k \in Lead : /\ row'[k].charge = row[k].charge
                           /\ row'[k].state \in {row[k].state, "ARCHIVED"}
                           /\ row'[k].prospect = row[k].prospect
    BY <1>0, <1>14, <2>1 DEF ArchiveCommit, TypeOK, Row
  <2> QED BY <1>0, <2>2, RealStutter DEF IsCurrent
<1>15. CASE UNCHANGED vars
  BY <1>0, <1>15, RealStutter DEF vars, IsCurrent
<1> QED
  BY <1>1, <1>2, <1>3, <1>4, <1>5, <1>6, <1>7, <1>8, <1>9, <1>10, <1>11, <1>12,
     <1>13, <1>14, <1>15 DEF Next, JobStep

\* EXPORTED is never written on anything but an accepted deposit of that lead's
\* own payload: any number of jobs, operators and deaths (exporter_lead).
THEOREM ExportedIsAlwaysReal == Spec => []ExportedIsReal
<1>1. RealInv => ExportedIsReal
  BY DEF RealInv
<1> QED BY TypeInit, TypeStep, RealInit, RealStep, <1>1, PTL DEF Spec

\* The prospect id on a row is the id of a prospect of that lead, whichever of
\* several overlapping jobs wrote it (exporter_lead, remote_prospect_id).
THEOREM ProspectIsAlwaysTheLeads == Spec => []ProspectIsTheLeads
<1>1. RealInv => ProspectIsTheLeads
  BY DEF RealInv
<1> QED BY TypeInit, TypeStep, RealInit, RealStep, <1>1, PTL DEF Spec

-----------------------------------------------------------------------------
(* Exactly once.  With one export job at a time the job's snapshot of an    *)
(* identity is the row's: an identity, once committed, is never replaced,   *)
(* and everything sent or accepted is what the row still holds.             *)

SingleJob == \A i, j \in Job : i = j

SnapshotsAgree ==
    \A j \in Job : \A l \in todo[j] :
        mem[j][l].charge = row[l].charge /\ row[l].state # "ABSENT"

CapturedFirst == \A l \in Lead : row[l].charge # NoCharge => row[l].state # "ABSENT"

IdentityInv == IdentityIsDurable /\ SnapshotsAgree /\ CapturedFirst

\* What every step leaves of the identities: a new one only where there was none.
ChargesKept ==
    \A l \in Lead :
        /\ row[l].charge # NoCharge => row'[l].charge = row[l].charge
        /\ row[l].state # "ABSENT" => row'[l].state # "ABSENT"
        /\ row[l].state = "ABSENT" => row'[l].charge = row[l].charge

LEMMA IdentityInit == Init => IdentityInv
<1> SUFFICES ASSUME Init PROVE IdentityInv
  OBVIOUS
<1>1. CapturedFirst
  BY OldRowType DEF Init, CapturedFirst, Blank
<1> QED BY <1>1 DEF Init, IdentityInv, IdentityIsDurable, SnapshotsAgree

\* A step that adds no request, and accepts only what is on the wire, keeps the
\* invariant as soon as it keeps the charges and the snapshots follow the rows.
LEMMA IdentityKept ==
  ASSUME TypeOK, IdentityInv, ChargesKept,
         \A w \in wire' : w \in wire \/ row'[w[2].lead].charge = w[2],
         \A d \in deposits' : d \in deposits \/ \E w \in wire : d = w[2],
         SnapshotsAgree', CapturedFirst'
  PROVE  IdentityInv'
<1>1. \A w \in wire : row'[w[2].lead].charge = w[2]
  <2> SUFFICES ASSUME NEW w \in wire PROVE row'[w[2].lead].charge = w[2]
    OBVIOUS
  <2>1. w[2] \in Charge /\ w[2].lead \in Lead /\ w[2] # NoCharge
    BY NoChargeAssumption DEF TypeOK, Charge
  <2> QED BY <2>1 DEF IdentityInv, IdentityIsDurable, ChargesKept
<1>2. \A d \in deposits : row'[d.lead].charge = d
  <2> SUFFICES ASSUME NEW d \in deposits PROVE row'[d.lead].charge = d
    OBVIOUS
  <2>1. d \in Charge /\ d.lead \in Lead /\ d # NoCharge
    BY NoChargeAssumption DEF TypeOK, Charge
  <2> QED BY <2>1 DEF IdentityInv, IdentityIsDurable, ChargesKept
<1> QED BY <1>1, <1>2 DEF IdentityInv, IdentityIsDurable

\* The invariant is kept by a step that writes no row.
LEMMA IdentityStutter ==
  ASSUME TypeOK, IdentityInv, row' = row, wire' \subseteq wire,
         \A d \in deposits' : d \in deposits \/ \E w \in wire : d = w[2],
         \A j \in Job : todo'[j] \subseteq todo[j],
         \A j \in Job : \A l \in todo'[j] : mem'[j][l] = mem[j][l]
  PROVE  IdentityInv' /\ ChargesKept
<1>1. ChargesKept
  BY DEF ChargesKept
<1>2. SnapshotsAgree' /\ CapturedFirst'
  BY DEF IdentityInv, SnapshotsAgree, CapturedFirst
<1> QED BY <1>1, <1>2, IdentityKept

\* Nor by one that writes a row of the job's batch and keeps its identity.
LEMMA IdentityRecord ==
  ASSUME TypeOK, IdentityInv, NEW j \in Job, NEW l \in Lead, l \in todo[j],
         \A k \in Lead \ {l} : row'[k] = row[k],
         row'[l].charge = row[l].charge, row'[l].state # "ABSENT",
         wire' = wire, deposits' = deposits, GoOn(j, l)
  PROVE  IdentityInv' /\ ChargesKept
<1>1. ChargesKept
  BY DEF ChargesKept, IdentityInv, SnapshotsAgree
<1>2. \A i \in Job : \A k \in todo'[i] : k \in todo[i] /\ k \in Lead
  BY DEF GoOn, TypeOK
<1>3. \A i \in Job : \A k \in todo'[i] : mem'[i][k] = mem[i][k]
  BY DEF GoOn, TypeOK
<1>4. SnapshotsAgree'
  BY <1>1, <1>2, <1>3 DEF IdentityInv, SnapshotsAgree, ChargesKept
<1>5. CapturedFirst'
  BY DEF IdentityInv, CapturedFirst
<1> QED BY <1>1, <1>4, <1>5, IdentityKept

LEMMA IdentityStep ==
  ASSUME SingleJob, TypeInv, RealInv, IdentityInv, [Next]_vars
  PROVE  IdentityInv' /\ ChargesKept
<1> USE DEF jobVars
<1>0. TypeOK
  BY DEF TypeInv
<1>1. ASSUME NEW l \in Lead, Capture(l) PROVE IdentityInv' /\ ChargesKept
  <2>1. /\ row[l].state = "ABSENT" /\ row[l].charge = NoCharge
        /\ row'[l].charge = NoCharge
        /\ row'[l].state # "ABSENT"
        /\ \A k \in Lead \ {l} : row'[k] = row[k]
    BY <1>0, <1>1 DEF Capture, Blank, TypeOK, IdentityInv, CapturedFirst
  <2>2. UNCHANGED <<todo, mem, wire, deposits>>
    BY <1>1 DEF Capture
  <2>3. ChargesKept
    BY <2>1 DEF ChargesKept
  <2>4. SnapshotsAgree' /\ CapturedFirst'
    BY <1>0, <2>1, <2>2
       DEF IdentityInv, SnapshotsAgree, CapturedFirst, TypeOK
  <2> QED BY <1>0, <2>2, <2>3, <2>4, IdentityKept
<1>2. CASE Reconfigure
  BY <1>0, <1>2, IdentityStutter DEF Reconfigure
<1>3. ASSUME NEW j \in Job, StartExport(j) PROVE IdentityInv' /\ ChargesKept
  <2>1. UNCHANGED <<row, wire, deposits>>
    BY <1>3 DEF StartExport
  <2>2. /\ Batch \subseteq Lead
        /\ \A l \in Batch : row[l].state # "ABSENT"
    BY DEF Batch, Waiting, IsWaiting
  <2>3. \A i \in Job : /\ todo'[i] = Batch
                      /\ \A l \in Batch : mem'[i][l] = row[l]
    BY <1>0, <1>3, <2>2 DEF StartExport, TypeOK, SingleJob
  <2>4. SnapshotsAgree' /\ CapturedFirst' /\ ChargesKept
    BY <2>1, <2>2, <2>3
       DEF IdentityInv, SnapshotsAgree, CapturedFirst, ChargesKept
  <2> QED BY <1>0, <2>1, <2>4, IdentityKept
<1>4. ASSUME NEW j \in Job, Timeout(j) PROVE IdentityInv' /\ ChargesKept
  BY <1>0, <1>4, IdentityStutter DEF Timeout
<1>5. ASSUME NEW j \in Job, Crash(j) PROVE IdentityInv' /\ ChargesKept
  <2>1. \A i \in Job : todo'[i] = {}
    BY <1>0, <1>5 DEF Crash, TypeOK, SingleJob
  <2>2. UNCHANGED <<row, wire, deposits>>
    BY <1>5 DEF Crash
  <2> QED BY <1>0, <2>1, <2>2, IdentityStutter
<1>6. ASSUME NEW j \in Job, NEW l \in Lead, RefuseLead(j, l)
      PROVE  IdentityInv' /\ ChargesKept
  <2>1. GoOn(j, l) /\ UNCHANGED <<row, wire, deposits>>
    BY <1>6 DEF RefuseLead
  <2>2. \A i \in Job : /\ todo'[i] \subseteq todo[i]
                      /\ \A k \in todo'[i] : mem'[i][k] = mem[i][k]
    BY <1>0, <2>1 DEF GoOn, TypeOK
  <2> QED BY <1>0, <2>1, <2>2, IdentityStutter
<1>7. ASSUME NEW j \in Job, NEW l \in Lead, Mint(j, l)
      PROVE  IdentityInv' /\ ChargesKept
  <2>1. PICK c \in Correlation \ used :
          LET charge == [corr |-> c, lead |-> l, version |-> 2,
                         campaign |-> conf[j].campaign]
              new == [mem[j][l] EXCEPT
                        !.charge = charge,
                        !.state = IF @ = "NEW" THEN "PENDING_EXPORT" ELSE @]
          IN  /\ used' = used \cup {c}
              /\ Flush(j, l, new)
              /\ mem' = [mem EXCEPT ![j][l] = new]
    BY <1>7 DEF Mint
  <2> DEFINE charge == [corr |-> c, lead |-> l, version |-> 2,
                        campaign |-> conf[j].campaign]
             new == [mem[j][l] EXCEPT
                       !.charge = charge,
                       !.state = IF @ = "NEW" THEN "PENDING_EXPORT" ELSE @]
  <2>2. /\ mem[j][l] \in Row /\ l \in todo[j]
        /\ mem[j][l].charge = NoCharge
    BY <1>0, <1>7 DEF Mint, IsCurrent, TypeOK
  <2>3. charge \in Charge /\ charge # NoCharge
    BY <1>0, NoChargeAssumption DEF Charge, Site, TypeOK
  <2>4. mem[j][l].state = "PENDING_EXPORT"
    BY <2>2 DEF TypeInv, SnapshotsWait
  <2>5. new.charge = charge /\ new.state = mem[j][l].state
    BY <2>2, <2>4 DEF Row
  <2>6. Flush(j, l, new) /\ mem' = [mem EXCEPT ![j][l] = new]
    BY <2>1
  <2> HIDE DEF new, charge
  <2>7. row[l].charge = NoCharge /\ row[l].state # "ABSENT"
    BY <2>2 DEF IdentityInv, SnapshotsAgree
  <2>8. /\ \A k \in Lead \ {l} : row'[k] = row[k]
        /\ row'[l].charge = charge
        /\ row'[l].state = row[l].state
    BY <1>0, <2>2, <2>3, <2>5, <2>6 DEF Flush, Changed, TypeOK
  <2>9. ChargesKept
    BY <2>7, <2>8 DEF ChargesKept
  <2>10. UNCHANGED <<todo, wire, deposits>>
    BY <1>7 DEF Mint
  <2>11. \A i \in Job, k \in Lead :
            mem'[i][k] = IF k = l THEN new ELSE mem[i][k]
    BY <1>0, <2>6 DEF TypeOK, SingleJob
  <2>12. SnapshotsAgree'
    <3> SUFFICES ASSUME NEW i \in Job, NEW k \in todo[i]
                 PROVE  mem'[i][k].charge = row'[k].charge /\ row'[k].state # "ABSENT"
      BY <2>10 DEF SnapshotsAgree
    <3>1. k \in Lead /\ mem[i][k].charge = row[k].charge /\ row[k].state # "ABSENT"
      BY <1>0 DEF TypeOK, IdentityInv, SnapshotsAgree
    <3> QED BY <2>5, <2>8, <2>11, <3>1
  <2>13. CapturedFirst'
    BY <2>7, <2>8 DEF IdentityInv, CapturedFirst
  <2> QED BY <1>0, <2>9, <2>10, <2>12, <2>13, IdentityKept
<1>8. ASSUME NEW j \in Job, NEW l \in Lead, StaleContract(j, l)
      PROVE  IdentityInv' /\ ChargesKept
  <2> DEFINE new == [mem[j][l] EXCEPT !.error = "STALE_CONTRACT"]
  <2>1. mem[j][l] \in Row /\ l \in todo[j]
    BY <1>0, <1>8 DEF TypeOK, StaleContract, IsCurrent
  <2>2. new.charge = mem[j][l].charge /\ new.state = mem[j][l].state
    BY <2>1 DEF Row
  <2>3. Flush(j, l, new) /\ GoOn(j, l) /\ UNCHANGED <<wire, deposits>>
    BY <1>8 DEF StaleContract
  <2> HIDE DEF new
  <2>4. /\ \A k \in Lead \ {l} : row'[k] = row[k]
        /\ row'[l].charge = row[l].charge
        /\ row'[l].state = row[l].state
    BY <1>0, <2>2, <2>3 DEF Flush, Changed, TypeOK
  <2>5. row'[l].state # "ABSENT"
    BY <2>1, <2>4 DEF IdentityInv, SnapshotsAgree
  <2> QED BY <1>0, <2>1, <2>3, <2>4, <2>5, IdentityRecord
<1>9. ASSUME NEW j \in Job, NEW l \in Lead, Send(j, l)
      PROVE  IdentityInv' /\ ChargesKept
  <2> DEFINE c == mem[j][l].charge
  <2>1. /\ UNCHANGED <<row, mem, todo, deposits>>
        /\ wire' = wire \cup {<<j, c>>}
        /\ c # NoCharge /\ l \in todo[j]
    BY <1>9 DEF Send, IsCurrent
  <2>2. c.lead = l /\ row[l].charge = c
    BY <2>1 DEF RealInv, Owned, IdentityInv, SnapshotsAgree
  <2>3. ChargesKept /\ SnapshotsAgree' /\ CapturedFirst'
    BY <2>1 DEF ChargesKept, IdentityInv, SnapshotsAgree, CapturedFirst
  <2> QED BY <1>0, <2>1, <2>2, <2>3, IdentityKept
<1>10. ASSUME NEW j \in Job, NEW l \in Lead, Record(j, l)
       PROVE  IdentityInv' /\ ChargesKept
  <2> DEFINE new == Outcome(mem[j][l], answer[j])
  <2>1. Flush(j, l, new) /\ GoOn(j, l) /\ UNCHANGED <<wire, deposits>>
    BY <1>10 DEF Record
  <2>2. /\ mem[j][l] \in Row /\ l \in todo[j] /\ answer[j] \in Answer
        /\ mem[j][l].state = "PENDING_EXPORT"
        /\ mem[j][l].attempts < MaxAttempts
    BY <1>0, <1>10 DEF Record, IsCurrent, TypeInv, SnapshotsWait, TypeOK
  <2>3. /\ new.charge = mem[j][l].charge
        /\ new.state \in {"EXPORTED", "EXPORT_FAILED", "PENDING_EXPORT"}
    BY <2>2, OutcomeType DEF IsWaiting
  <2> HIDE DEF new
  <2>4. /\ \A k \in Lead \ {l} : row'[k] = row[k]
        /\ row'[l].charge = row[l].charge
        /\ row'[l].state \in {row[l].state, new.state}
    BY <1>0, <2>1, <2>3 DEF Flush, Changed, TypeOK
  <2>5. row'[l].state # "ABSENT"
    BY <2>2, <2>3, <2>4 DEF IdentityInv, SnapshotsAgree
  <2> QED BY <1>0, <2>1, <2>2, <2>4, <2>5, IdentityRecord
<1>11. ASSUME NEW w \in wire, Accept(w[1], w[2])
       PROVE  IdentityInv' /\ ChargesKept
  <2>1. /\ UNCHANGED <<row, todo, mem>>
        /\ wire' \subseteq wire
        /\ deposits' \subseteq deposits \cup {w[2]}
    BY <1>11 DEF Accept, Reply
  <2> QED BY <1>0, <2>1, IdentityStutter
<1>12. ASSUME NEW w \in wire, Refuse(w[1], w[2])
       PROVE  IdentityInv' /\ ChargesKept
  <2>1. UNCHANGED <<row, todo, mem, deposits>> /\ wire' \subseteq wire
    BY <1>12 DEF Refuse, Reply
  <2> QED BY <1>0, <2>1, IdentityStutter
<1>13. ASSUME NEW d \in Desk, NEW l \in Lead, ArchiveRead(d, l)
       PROVE  IdentityInv' /\ ChargesKept
  BY <1>0, <1>13, IdentityStutter DEF ArchiveRead
<1>14. ASSUME NEW d \in Desk, ArchiveCommit(d) PROVE IdentityInv' /\ ChargesKept
  <2>1. desk[d] \in Lead
    BY <1>0, <1>14 DEF ArchiveCommit, TypeOK
  <2>2. /\ UNCHANGED <<todo, mem, wire, deposits>>
        /\ row' = [row EXCEPT ![desk[d]].state = "ARCHIVED"]
    BY <1>14 DEF ArchiveCommit
  <2>3. \A k \in Lead : /\ row'[k].charge = row[k].charge
                        /\ row'[k].state \in {row[k].state, "ARCHIVED"}
    BY <1>0, <2>1, <2>2 DEF TypeOK, Row
  <2>4. ChargesKept /\ CapturedFirst'
    BY <2>3 DEF ChargesKept, IdentityInv, CapturedFirst
  <2>5. SnapshotsAgree'
    BY <1>0, <2>2, <2>3 DEF IdentityInv, SnapshotsAgree, TypeOK
  <2> QED BY <1>0, <2>2, <2>4, <2>5, IdentityKept
<1>15. CASE UNCHANGED vars
  BY <1>0, <1>15, IdentityStutter DEF vars
<1> QED
  BY <1>1, <1>2, <1>3, <1>4, <1>5, <1>6, <1>7, <1>8, <1>9, <1>10, <1>11, <1>12,
     <1>13, <1>14, <1>15 DEF Next, JobStep

\* With one job at a time, whatever is on the wire or at the destination is what
\* the row still holds: a retry after any loss is a replay.
THEOREM IdentityIsAlwaysDurable ==
  ASSUME SingleJob PROVE Spec => []IdentityIsDurable
<1>1. TypeInv /\ RealInv /\ IdentityInv /\ [Next]_vars => IdentityInv'
  BY IdentityStep
<1>2. IdentityInv => IdentityIsDurable
  BY DEF IdentityInv
<1> QED
  BY TypeInit, TypeStep, RealInit, RealStep, IdentityInit, <1>1, <1>2, PTL DEF Spec

\* Exactly once: with one job at a time no lead becomes two prospects, whatever
\* is lost, late, retried or archived (the promise of lead_export's header).
THEOREM ExactlyOnce == ASSUME SingleJob PROVE Spec => []AtMostOneProspect
<1>1. IdentityIsDurable => AtMostOneProspect
  BY DEF IdentityIsDurable, AtMostOneProspect
<1> QED BY IdentityIsAlwaysDurable, <1>1, PTL

\* Minted once and never regenerated, with one job at a time.
THEOREM IdentityIsFrozen == ASSUME SingleJob PROVE Spec => FrozenIdentity
<1>1. TypeInv /\ RealInv /\ IdentityInv /\ [Next]_vars => IdentityInv'
  BY IdentityStep
<1>2. TypeInv /\ RealInv /\ IdentityInv /\ [Next]_vars =>
        [\A l \in Lead : row[l].charge # NoCharge =>
                         row'[l].charge = row[l].charge]_vars
  BY IdentityStep DEF ChargesKept
<1> QED
  BY TypeInit, TypeStep, RealInit, RealStep, IdentityInit, <1>1, <1>2, PTL
     DEF Spec, FrozenIdentity
-----------------------------------------------------------------------------
(* Archived leads stay out.  A job that still holds a lead holds it as      *)
(* waiting, so a flush of the same state writes no state at all.            *)

\* A flush leaves the other rows alone, and of its own row every column whose
\* value is that of the snapshot.
LEMMA FlushKeeps ==
  ASSUME TypeOK, NEW j \in Job, NEW l \in Lead, NEW new \in Row, Flush(j, l, new)
  PROVE  /\ \A k \in Lead \ {l} : row'[k] = row[k]
         /\ row'[l].state = Changed(new.state, mem[j][l].state, row[l].state)
         /\ row'[l].charge \in {new.charge, row[l].charge}
         /\ row'[l].error = Changed(new.error, mem[j][l].error, row[l].error)
BY DEF Flush, Changed, TypeOK

\* Who writes rows, and what of them.
LEMMA RowSteps ==
  ASSUME [Next]_vars
  PROVE  \/ UNCHANGED row
         \/ \E l \in Lead : Capture(l)
         \/ \E j \in Job, l \in Lead :
               Mint(j, l) \/ StaleContract(j, l) \/ Record(j, l)
         \/ \E d \in Desk : ArchiveCommit(d)
<1> USE DEF jobVars
<1>1. ASSUME NEW j \in Job, NEW l \in Lead, JobStep(j, l)
      PROVE  UNCHANGED row \/ Mint(j, l) \/ StaleContract(j, l) \/ Record(j, l)
  BY <1>1 DEF JobStep, RefuseLead, Send
<1>2. ASSUME NEW w \in wire, Accept(w[1], w[2]) \/ Refuse(w[1], w[2])
      PROVE  UNCHANGED row
  BY <1>2 DEF Accept, Refuse
<1>3. ASSUME NEW j \in Job, StartExport(j) \/ Timeout(j) \/ Crash(j)
      PROVE  UNCHANGED row
  BY <1>3 DEF StartExport, Timeout, Crash
<1> QED BY <1>1, <1>2, <1>3 DEF Next, vars, Reconfigure, ArchiveRead

\* What a mint writes on the lead's row.
LEMMA Minted ==
  ASSUME TypeInv, NEW j \in Job, NEW l \in Lead, Mint(j, l)
  PROVE  \E c \in Correlation \ used, new \in Row :
            /\ new.charge \in Charge /\ new.charge.corr = c
            /\ new.charge # NoCharge
            /\ new.state = mem[j][l].state /\ new.error = mem[j][l].error
            /\ used' = used \cup {c}
            /\ Flush(j, l, new)
            /\ mem' = [mem EXCEPT ![j][l] = new]
<1>0. TypeOK
  BY DEF TypeInv
<1>1. PICK c \in Correlation \ used :
        LET charge == [corr |-> c, lead |-> l, version |-> 2,
                       campaign |-> conf[j].campaign]
            new == [mem[j][l] EXCEPT
                      !.charge = charge,
                      !.state = IF @ = "NEW" THEN "PENDING_EXPORT" ELSE @]
        IN  /\ used' = used \cup {c}
            /\ Flush(j, l, new)
            /\ mem' = [mem EXCEPT ![j][l] = new]
  BY DEF Mint
<1> DEFINE charge == [corr |-> c, lead |-> l, version |-> 2,
                      campaign |-> conf[j].campaign]
           new == [mem[j][l] EXCEPT
                     !.charge = charge,
                     !.state = IF @ = "NEW" THEN "PENDING_EXPORT" ELSE @]
<1>2. mem[j][l] \in Row /\ mem[j][l].state = "PENDING_EXPORT"
  BY <1>0 DEF Mint, IsCurrent, TypeOK, TypeInv, SnapshotsWait
<1>3. charge \in Charge /\ charge # NoCharge /\ charge.corr = c
  BY <1>0, NoChargeAssumption DEF Charge, Site, TypeOK
<1>4. used' = used \cup {c} /\ Flush(j, l, new) /\ mem' = [mem EXCEPT ![j][l] = new]
  BY <1>1
<1> HIDE DEF charge
<1>5. /\ new \in Row /\ new.charge = charge
      /\ new.state = mem[j][l].state /\ new.error = mem[j][l].error
  BY <1>2, <1>3 DEF Row
<1> QED BY <1>3, <1>4, <1>5

\* An archived lead is never selected again, for any number of jobs that still
\* hold it as it was and of operators (archiver_lead, exporter_lead).
THEOREM ArchivedAlwaysStaysOut == Spec => ArchivedStaysOut
<1>1. TypeInv /\ [Next]_vars =>
        [\A l \in Lead : row[l].state = "ARCHIVED" =>
            row'[l].state \notin {"NEW", "PENDING_EXPORT"}]_vars
  <2> SUFFICES ASSUME TypeInv, [Next]_vars, NEW k \in Lead,
                      row[k].state = "ARCHIVED"
               PROVE  row'[k].state \notin {"NEW", "PENDING_EXPORT"}
    OBVIOUS
  <2>0. TypeOK
    BY DEF TypeInv
  <2>1. CASE UNCHANGED row
    BY <2>1
  <2>2. ASSUME NEW l \in Lead, Capture(l)
        PROVE  row'[k].state \notin {"NEW", "PENDING_EXPORT"}
    BY <2>0, <2>2 DEF Capture, TypeOK
  <2>3. ASSUME NEW j \in Job, NEW l \in Lead, Mint(j, l)
        PROVE  row'[k].state \notin {"NEW", "PENDING_EXPORT"}
    <3>1. PICK new \in Row : new.state = mem[j][l].state /\ Flush(j, l, new)
      BY <2>3, Minted
    <3> QED BY <2>0, <3>1, FlushKeeps DEF Changed
  <2>4. ASSUME NEW j \in Job, NEW l \in Lead, StaleContract(j, l)
        PROVE  row'[k].state \notin {"NEW", "PENDING_EXPORT"}
    <3> DEFINE new == [mem[j][l] EXCEPT !.error = "STALE_CONTRACT"]
    <3>1. new \in Row /\ new.state = mem[j][l].state
      <4>1. mem[j][l] \in Row
        BY <2>0 DEF TypeOK
      <4> QED BY <4>1 DEF Row, ExportError
    <3>2. Flush(j, l, new)
      BY <2>4 DEF StaleContract
    <3> HIDE DEF new
    <3> QED BY <2>0, <3>1, <3>2, FlushKeeps DEF Changed
  <2>5. ASSUME NEW j \in Job, NEW l \in Lead, Record(j, l)
        PROVE  row'[k].state \notin {"NEW", "PENDING_EXPORT"}
    <3> DEFINE new == Outcome(mem[j][l], answer[j])
    <3>1. /\ mem[j][l] \in Row /\ answer[j] \in Answer
          /\ mem[j][l].state = "PENDING_EXPORT" /\ mem[j][l].attempts < MaxAttempts
      BY <2>0, <2>5 DEF Record, IsCurrent, TypeInv, SnapshotsWait, TypeOK
    <3>2. /\ new \in Row
          /\ new.state \in {"EXPORTED", "EXPORT_FAILED", "PENDING_EXPORT"}
      BY <3>1, OutcomeType DEF IsWaiting
    <3>3. Flush(j, l, new)
      BY <2>5 DEF Record
    <3> HIDE DEF new
    <3> QED BY <2>0, <3>1, <3>2, <3>3, FlushKeeps DEF Changed
  <2>6. ASSUME NEW d \in Desk, ArchiveCommit(d)
        PROVE  row'[k].state \notin {"NEW", "PENDING_EXPORT"}
    BY <2>0, <2>6 DEF ArchiveCommit, TypeOK, Row
  <2> QED BY <2>1, <2>2, <2>3, <2>4, <2>5, <2>6, RowSteps
<1> QED BY TypeInit, TypeStep, <1>1, PTL DEF Spec, ArchivedStaysOut

-----------------------------------------------------------------------------
(* No conflict.  A correlation is drawn once and for one payload; whatever  *)
(* is overwritten, everything that is left with it is that payload.         *)

Everywhere ==
    {row[l].charge : l \in Lead} \cup {mem[x[1]][x[2]].charge : x \in Job \X Lead}
    \cup {w[2] : w \in wire} \cup deposits

OncePerCorrelation ==
    /\ \A c \in Everywhere : c # NoCharge => c.corr \in used
    /\ \A c, d \in Everywhere :
          c # NoCharge /\ d # NoCharge /\ c.corr = d.corr => c = d

NeverConflicting ==
    /\ \A l \in Lead : row[l].error # "CONFLICT"
    /\ \A j \in Job : answer[j].result # "CONFLICT"

ConflictInv == OncePerCorrelation /\ NeverConflicting

\* Nothing new: what a step leaves everywhere was there before.
LEMMA OnceKept ==
  ASSUME OncePerCorrelation, used \subseteq used',
         Everywhere' \subseteq Everywhere \cup {NoCharge}
  PROVE  OncePerCorrelation'
BY DEF OncePerCorrelation

LEMMA NoConflictAtTheDestination ==
  ASSUME TypeOK, OncePerCorrelation, NEW w \in wire
  PROVE  Verdict(w[2]) # "CONFLICT"
<1>1. w[2] \in Everywhere /\ \A d \in deposits : d \in Everywhere
  BY DEF Everywhere
<1>2. w[2] # NoCharge /\ \A d \in deposits : d # NoCharge
  BY NoChargeAssumption DEF TypeOK
<1>3. ~(\E d \in deposits : d.corr = w[2].corr /\ d # w[2])
  BY <1>1, <1>2 DEF OncePerCorrelation
<1> QED BY <1>3 DEF Verdict

LEMMA EverywhereBound ==
  ASSUME NEW more,
         \A l \in Lead : row'[l].charge \in Everywhere \cup more,
         \A j \in Job, l \in Lead : mem'[j][l].charge \in Everywhere \cup more,
         \A w \in wire' : w[2] \in Everywhere \cup more,
         deposits' \subseteq Everywhere \cup more
  PROVE  Everywhere' \subseteq Everywhere \cup more
<1>1. \A x \in Job \X Lead : x[1] \in Job /\ x[2] \in Lead
  OBVIOUS
<1>2. \A x \in Job \X Lead : mem'[x[1]][x[2]].charge \in Everywhere \cup more
  BY <1>1
<1>3. Everywhere' = {row'[l].charge : l \in Lead}
          \cup {mem'[x[1]][x[2]].charge : x \in Job \X Lead}
          \cup {w[2] : w \in wire'} \cup deposits'
  BY DEF Everywhere
<1> HIDE DEF Everywhere
<1> QED BY <1>2, <1>3

LEMMA EverywhereParts ==
  /\ \A l \in Lead : row[l].charge \in Everywhere
  /\ \A j \in Job, l \in Lead : mem[j][l].charge \in Everywhere
  /\ \A w \in wire : w[2] \in Everywhere
  /\ deposits \subseteq Everywhere
<1>1. ASSUME NEW j \in Job, NEW l \in Lead
      PROVE  mem[j][l].charge \in {mem[x[1]][x[2]].charge : x \in Job \X Lead}
  <2>1. <<j, l>> \in Job \X Lead /\ <<j, l>>[1] = j /\ <<j, l>>[2] = l
    OBVIOUS
  <2> QED BY <2>1
<1> QED BY <1>1 DEF Everywhere

\* The invariant is kept by a step that mints nothing and reports no conflict.
LEMMA ConflictKept ==
  ASSUME ConflictInv, used \subseteq used',
         \A l \in Lead : row'[l].charge \in Everywhere \cup {NoCharge},
         \A j \in Job, l \in Lead : mem'[j][l].charge \in Everywhere \cup {NoCharge},
         \A w \in wire' : w[2] \in Everywhere \cup {NoCharge},
         deposits' \subseteq Everywhere \cup {NoCharge},
         \A l \in Lead : row'[l].error # "CONFLICT",
         \A j \in Job : answer'[j].result # "CONFLICT"
  PROVE  ConflictInv'
<1>1. Everywhere' \subseteq Everywhere \cup {NoCharge}
  BY EverywhereBound
<1>2. OncePerCorrelation'
  BY <1>1, OnceKept DEF ConflictInv
<1> QED BY <1>2 DEF ConflictInv, NeverConflicting

LEMMA ConflictInit == Init => ConflictInv
<1> SUFFICES ASSUME Init PROVE ConflictInv
  OBVIOUS
<1>1. /\ \A l \in Legacy : /\ row[l] = OldRow(l) /\ l \in Lead
                           /\ row[l].charge.corr = OldCharge[l]
                           /\ row[l].charge.lead = l
      /\ \A l \in Lead \ Legacy : row[l].charge = NoCharge
      /\ \A j \in Job, l \in Lead : mem[j][l].charge = NoCharge
      /\ wire = {} /\ deposits = {}
      /\ used = {OldCharge[l] : l \in Legacy}
  BY OldRowType, OldAssumption DEF Init, Blank
<1>2. ASSUME NEW c \in Everywhere, c # NoCharge
      PROVE  \E l \in Legacy : c = row[l].charge
  <2>1. \A x \in Job \X Lead : mem[x[1]][x[2]].charge = NoCharge
    BY <1>1
  <2> QED BY <1>1, <1>2, <2>1 DEF Everywhere
<1>3. OncePerCorrelation
  <2>1. \A c \in Everywhere : c # NoCharge => c.corr \in used
    BY <1>1, <1>2
  <2>2. ASSUME NEW c \in Everywhere, NEW d \in Everywhere, c # NoCharge,
               d # NoCharge, c.corr = d.corr
        PROVE  c = d
    <3>1. PICK k \in Legacy : c = row[k].charge
      BY <1>2, <2>2
    <3>2. PICK l \in Legacy : d = row[l].charge
      BY <1>2, <2>2
    <3>3. k = l
      BY <1>1, <2>2, <3>1, <3>2, OldAssumption
    <3> QED BY <3>1, <3>2, <3>3
  <2> QED BY <2>1, <2>2 DEF OncePerCorrelation
<1>4. NeverConflicting
  BY DEF Init, NeverConflicting, OldRow, Blank, NoAnswer
<1> QED BY <1>3, <1>4 DEF ConflictInv

\* The rows and snapshots left by a flush that mints nothing.
LEMMA ConflictFlush ==
  ASSUME TypeOK, ConflictInv, NEW j \in Job, NEW l \in Lead, NEW new \in Row,
         Flush(j, l, new), GoOn(j, l), new.charge = mem[j][l].charge,
         new.error # "CONFLICT",
         UNCHANGED <<used, wire, deposits>>
  PROVE  ConflictInv'
<1>1. \A k \in Lead : row'[k].charge \in Everywhere
  BY FlushKeeps, EverywhereParts
<1>2. \A k \in Lead : row'[k].error # "CONFLICT"
  BY FlushKeeps DEF ConflictInv, NeverConflicting, Changed
<1>3. \A i \in Job, k \in Lead : mem'[i][k].charge \in Everywhere \cup {NoCharge}
  <2>1. \A i \in Job, k \in Lead : mem'[i][k] \in {Blank, mem[i][k]}
    BY DEF GoOn, TypeOK
  <2> QED BY <2>1, EverywhereParts DEF Blank
<1>4. \A i \in Job : answer'[i].result # "CONFLICT"
  BY DEF GoOn, TypeOK, ConflictInv, NeverConflicting, NoAnswer
<1> QED BY <1>1, <1>2, <1>3, <1>4, EverywhereParts, ConflictKept

\* An answer other than a conflict leaves no conflict on the row.
LEMMA OutcomeNoConflict ==
  ASSUME NEW old \in Row, NEW a \in Answer, a.result # "CONFLICT"
  PROVE  Outcome(old, a).error # "CONFLICT"
<1>1. old.attempts + 1 \in Nat
  BY NumberAssumption DEF Row
<1>2. CASE a.result \in {"CREATED", "REPLAY"}
  BY <1>2 DEF Outcome, Row
<1>3. CASE a.result \in {"CONFLICT", "UNAUTHORIZED", "REJECTED"}
  BY <1>3 DEF Outcome, Row
<1>4. CASE a.result = "RETRYABLE" /\ old.attempts + 1 >= MaxAttempts
  BY <1>1, <1>4 DEF Outcome, Row
<1>5. CASE a.result = "RETRYABLE" /\ ~(old.attempts + 1 >= MaxAttempts)
  <2>1. old.attempts + 1 < MaxAttempts
    BY <1>1, <1>5, NumberAssumption
  <2> QED BY <1>1, <2>1, <1>5 DEF Outcome, Row
<1> QED BY <1>2, <1>3, <1>4, <1>5 DEF Answer, Result

LEMMA ConflictMint ==
  ASSUME TypeInv, ConflictInv, NEW j \in Job, NEW l \in Lead, Mint(j, l)
  PROVE  ConflictInv'
<1>0. TypeOK
  BY DEF TypeInv
<1>1. PICK c \in Correlation \ used, new \in Row :
        /\ new.charge \in Charge /\ new.charge.corr = c /\ new.charge # NoCharge
        /\ new.state = mem[j][l].state /\ new.error = mem[j][l].error
        /\ used' = used \cup {c}
        /\ Flush(j, l, new)
        /\ mem' = [mem EXCEPT ![j][l] = new]
  BY Minted
<1>2. UNCHANGED <<wire, deposits, answer>>
  BY DEF Mint
<1>3. \A k \in Lead : /\ row'[k].charge \in Everywhere \cup {new.charge}
                      /\ row'[k].error = row[k].error
  BY <1>0, <1>1, FlushKeeps, EverywhereParts DEF Changed
<1>4. \A i \in Job, k \in Lead : mem'[i][k].charge \in Everywhere \cup {new.charge}
  <2>1. \A i \in Job, k \in Lead : mem'[i][k] \in {new, mem[i][k]}
    BY <1>0, <1>1 DEF TypeOK
  <2> QED BY <2>1, EverywhereParts
<1>5. Everywhere' \subseteq Everywhere \cup {new.charge}
  BY <1>2, <1>3, <1>4, EverywhereParts, EverywhereBound
<1>6. OncePerCorrelation'
  BY <1>1, <1>5 DEF ConflictInv, OncePerCorrelation
<1>7. NeverConflicting'
  BY <1>2, <1>3 DEF ConflictInv, NeverConflicting
<1> QED BY <1>6, <1>7 DEF ConflictInv

LEMMA ConflictStep == TypeInv /\ ConflictInv /\ [Next]_vars => ConflictInv'
<1> SUFFICES ASSUME TypeInv, ConflictInv, [Next]_vars PROVE ConflictInv'
  OBVIOUS
<1> USE DEF jobVars
<1>0. TypeOK
  BY DEF TypeInv
<1>1. CASE UNCHANGED <<row, used, mem, wire, deposits, answer>>
  BY <1>1, EverywhereParts, ConflictKept DEF ConflictInv, NeverConflicting
<1>2. ASSUME NEW l \in Lead, Capture(l) PROVE ConflictInv'
  <2>1. /\ UNCHANGED <<used, mem, wire, deposits, answer>>
        /\ \A k \in Lead : \/ row'[k] = row[k]
                           \/ row'[k].charge = NoCharge /\ row'[k].error = "none"
    <3> DEFINE new == [Blank EXCEPT !.state = "PENDING_EXPORT"]
    <3>1. new.charge = NoCharge /\ new.error = "none"
      BY DEF Blank
    <3>2. row' = [row EXCEPT ![l] = new] /\ UNCHANGED <<used, mem, wire, deposits, answer>>
      BY <1>2 DEF Capture
    <3> HIDE DEF new
    <3>3. row'[l] = new /\ \A k \in Lead \ {l} : row'[k] = row[k]
      BY <1>0, <3>2 DEF TypeOK
    <3> QED BY <3>1, <3>2, <3>3
  <2> QED BY <2>1, EverywhereParts, ConflictKept DEF ConflictInv, NeverConflicting
<1>3. ASSUME NEW j \in Job, StartExport(j) PROVE ConflictInv'
  <2>1. /\ UNCHANGED <<row, used, wire, deposits, answer>>
        /\ \A i \in Job, k \in Lead : mem'[i][k] \in {mem[i][k], row[k], Blank}
    BY <1>0, <1>3 DEF StartExport, TypeOK
  <2>2. \A i \in Job, k \in Lead : mem'[i][k].charge \in Everywhere \cup {NoCharge}
    BY <2>1, EverywhereParts DEF Blank
  <2> QED BY <2>1, <2>2, EverywhereParts, ConflictKept
          DEF ConflictInv, NeverConflicting
<1>4. ASSUME NEW j \in Job, Timeout(j) PROVE ConflictInv'
  <2>1. /\ UNCHANGED <<row, used, mem, wire, deposits>>
        /\ \A i \in Job : answer'[i] \in {answer[i], NoAnswer}
    BY <1>0, <1>4 DEF Timeout, TypeOK
  <2> QED BY <2>1, EverywhereParts, ConflictKept
          DEF ConflictInv, NeverConflicting, NoAnswer
<1>5. ASSUME NEW j \in Job, Crash(j) PROVE ConflictInv'
  <2>1. /\ UNCHANGED <<row, used, wire, deposits>>
        /\ \A i \in Job : answer'[i] \in {answer[i], NoAnswer}
        /\ \A i \in Job, k \in Lead : mem'[i][k] \in {mem[i][k], Blank}
    BY <1>0, <1>5 DEF Crash, TypeOK
  <2>2. \A i \in Job, k \in Lead : mem'[i][k].charge \in Everywhere \cup {NoCharge}
    BY <2>1, EverywhereParts DEF Blank
  <2> QED BY <2>1, <2>2, EverywhereParts, ConflictKept
          DEF ConflictInv, NeverConflicting, NoAnswer
<1>6. ASSUME NEW j \in Job, NEW l \in Lead, RefuseLead(j, l) PROVE ConflictInv'
  <2>1. UNCHANGED <<row, used, wire, deposits>> /\ GoOn(j, l)
    BY <1>6 DEF RefuseLead
  <2>2. /\ \A i \in Job, k \in Lead : mem'[i][k] \in {mem[i][k], Blank}
        /\ \A i \in Job : answer'[i] \in {answer[i], NoAnswer}
    BY <1>0, <2>1 DEF GoOn, TypeOK
  <2>3. \A i \in Job, k \in Lead : mem'[i][k].charge \in Everywhere \cup {NoCharge}
    BY <2>2, EverywhereParts DEF Blank
  <2> QED BY <2>1, <2>2, <2>3, EverywhereParts, ConflictKept
          DEF ConflictInv, NeverConflicting, NoAnswer
<1>7. ASSUME NEW j \in Job, NEW l \in Lead, StaleContract(j, l) PROVE ConflictInv'
  <2> DEFINE new == [mem[j][l] EXCEPT !.error = "STALE_CONTRACT"]
  <2>1. mem[j][l] \in Row
    BY <1>0 DEF TypeOK
  <2>2. /\ new \in Row /\ new.charge = mem[j][l].charge
        /\ new.error = "STALE_CONTRACT"
    BY <2>1 DEF Row, ExportError
  <2>3. Flush(j, l, new) /\ GoOn(j, l) /\ UNCHANGED <<used, wire, deposits>>
    BY <1>7 DEF StaleContract
  <2> HIDE DEF new
  <2> QED BY <1>0, <2>2, <2>3, ConflictFlush
<1>8. ASSUME NEW j \in Job, NEW l \in Lead, Send(j, l) PROVE ConflictInv'
  <2>1. /\ UNCHANGED <<row, used, mem, deposits, answer>>
        /\ wire' = wire \cup {<<j, mem[j][l].charge>>}
    BY <1>8 DEF Send
  <2>2. \A w \in wire' : w[2] \in Everywhere
    BY <2>1, EverywhereParts
  <2> QED BY <2>1, <2>2, EverywhereParts, ConflictKept
          DEF ConflictInv, NeverConflicting
<1>9. ASSUME NEW j \in Job, NEW l \in Lead, Record(j, l) PROVE ConflictInv'
  <2> DEFINE new == Outcome(mem[j][l], answer[j])
  <2>1. /\ mem[j][l] \in Row /\ answer[j] \in Answer
        /\ mem[j][l].state = "PENDING_EXPORT" /\ mem[j][l].attempts < MaxAttempts
    BY <1>0, <1>9 DEF Record, IsCurrent, TypeInv, SnapshotsWait, TypeOK
  <2>2. new \in Row /\ new.charge = mem[j][l].charge
    BY <2>1, OutcomeType DEF IsWaiting
  <2>3. new.error # "CONFLICT"
    BY <2>1, OutcomeNoConflict DEF ConflictInv, NeverConflicting
  <2>4. Flush(j, l, new) /\ GoOn(j, l) /\ UNCHANGED <<used, wire, deposits>>
    BY <1>9 DEF Record
  <2> HIDE DEF new
  <2> QED BY <1>0, <2>2, <2>3, <2>4, ConflictFlush
<1>10. ASSUME NEW w \in wire, Accept(w[1], w[2]) PROVE ConflictInv'
  <2>1. /\ UNCHANGED <<row, used, mem>> /\ wire' \subseteq wire
        /\ deposits' \subseteq deposits \cup {w[2]}
    BY <1>10 DEF Accept, Reply
  <2>2. Verdict(w[2]) # "CONFLICT"
    BY <1>0, NoConflictAtTheDestination DEF ConflictInv
  <2>3. \A i \in Job : answer'[i].result # "CONFLICT"
    <3>1. CASE UNCHANGED jobVars
      BY <3>1 DEF ConflictInv, NeverConflicting
    <3>2. ASSUME NEW id \in {w[2].corr, NoId}, Reply(w[1], w[2], Verdict(w[2]), id)
          PROVE  \A i \in Job : answer'[i].result # "CONFLICT"
      BY <1>0, <2>2, <3>2 DEF Reply, TypeOK, ConflictInv, NeverConflicting
    <3> QED BY <1>10, <2>2, <3>1, <3>2 DEF Accept
  <2>4. deposits' \subseteq Everywhere /\ \A x \in wire' : x[2] \in Everywhere
    BY <2>1, EverywhereParts
  <2> QED BY <2>1, <2>3, <2>4, EverywhereParts, ConflictKept
          DEF ConflictInv, NeverConflicting
<1>11. ASSUME NEW w \in wire, Refuse(w[1], w[2]) PROVE ConflictInv'
  <2>1. UNCHANGED <<row, used, mem, deposits>> /\ wire' \subseteq wire
    BY <1>11 DEF Refuse, Reply
  <2>2. \A i \in Job : answer'[i].result # "CONFLICT"
    BY <1>0, <1>11 DEF Refuse, Reply, TypeOK, ConflictInv, NeverConflicting
  <2> QED BY <2>1, <2>2, EverywhereParts, ConflictKept
          DEF ConflictInv, NeverConflicting
<1>12. ASSUME NEW d \in Desk, ArchiveCommit(d) PROVE ConflictInv'
  <2>1. /\ UNCHANGED <<used, mem, wire, deposits, answer>>
        /\ \A k \in Lead : /\ row'[k].charge = row[k].charge
                           /\ row'[k].error = row[k].error
    BY <1>0, <1>12 DEF ArchiveCommit, TypeOK, Row
  <2> QED BY <2>1, EverywhereParts, ConflictKept DEF ConflictInv, NeverConflicting
<1> QED
  BY <1>1, <1>2, <1>3, <1>4, <1>5, <1>6, <1>7, <1>8, <1>9, <1>10, <1>11, <1>12,
     ConflictMint DEF Next, JobStep, vars, Reconfigure, ArchiveRead

\* The export never meets a conflict of its own making, for any number of jobs,
\* operators, deaths and late requests: uuid4 draws no value twice.
THEOREM NeverAConflict == Spec => []NoConflict
<1>1. TypeInv /\ ConflictInv => NoConflict
  BY NoConflictAtTheDestination
     DEF TypeInv, ConflictInv, NeverConflicting, NoConflict
<1> QED BY TypeInit, TypeStep, ConflictInit, ConflictStep, <1>1, PTL DEF Spec

-----------------------------------------------------------------------------
(* The refinement.  With one job and no archiving the job's snapshot of a   *)
(* state is the row's too, so a verdict is only ever pronounced once.       *)

OneJobOnly == SingleJob /\ Desk = {}

StatesAgree ==
    /\ \A j \in Job : \A l \in todo[j] : row[l].state = "PENDING_EXPORT"
    /\ \A l \in Lead : row[l].state \in {"ABSENT", "PENDING_EXPORT", "EXPORTED",
                                         "EXPORT_FAILED"}

\* What a step makes of the states: a new lead, or a verdict of the job that holds
\* the lead, on an answer that is true.
LEMMA StateSteps ==
  ASSUME OneJobOnly, TypeInv, RealInv, StatesAgree, [Next]_vars
  PROVE  \/ /\ \A k \in Lead : row'[k].state = row[k].state
            /\ \A j \in Job : todo'[j] \subseteq todo[j] \cup Batch
         \/ \E l \in Lead :
              /\ \A k \in Lead \ {l} : row'[k] = row[k]
              /\ UNCHANGED deposits
              /\ \/ /\ row[l].state = "ABSENT" /\ row'[l].state = "PENDING_EXPORT"
                    /\ UNCHANGED todo
                 \/ /\ row[l].state = "PENDING_EXPORT"
                    /\ \/ row'[l].state = "EXPORT_FAILED"
                       \/ /\ row'[l].state = "EXPORTED"
                          /\ \E d \in deposits : d.lead = l
                    /\ \A j \in Job : todo'[j] \subseteq todo[j] \ {l}
<1> USE DEF jobVars
<1>0. TypeOK
  BY DEF TypeInv
<1> DEFINE Kept == /\ \A k \in Lead : row'[k].state = row[k].state
                   /\ \A j \in Job : todo'[j] \subseteq todo[j] \cup Batch
           Wrote(l) ==
              /\ \A k \in Lead \ {l} : row'[k] = row[k]
              /\ UNCHANGED deposits
              /\ \/ /\ row[l].state = "ABSENT" /\ row'[l].state = "PENDING_EXPORT"
                    /\ UNCHANGED todo
                 \/ /\ row[l].state = "PENDING_EXPORT"
                    /\ \/ row'[l].state = "EXPORT_FAILED"
                       \/ /\ row'[l].state = "EXPORTED"
                          /\ \E d \in deposits : d.lead = l
                    /\ \A j \in Job : todo'[j] \subseteq todo[j] \ {l}
<1> SUFFICES Kept \/ \E l \in Lead : Wrote(l)
  OBVIOUS
<1>1. CASE UNCHANGED <<row, todo>>
  BY <1>1
<1>2. ASSUME NEW l \in Lead, Capture(l) PROVE Wrote(l)
  <2> DEFINE new == [Blank EXCEPT !.state = "PENDING_EXPORT"]
  <2>1. new.state = "PENDING_EXPORT"
    BY DEF Blank
  <2>2. row' = [row EXCEPT ![l] = new] /\ row[l].state = "ABSENT"
        /\ UNCHANGED <<deposits, todo>>
    BY <1>2 DEF Capture
  <2> HIDE DEF new
  <2> QED BY <1>0, <2>1, <2>2 DEF TypeOK
<1>3. ASSUME NEW j \in Job, StartExport(j) PROVE Kept
  BY <1>0, <1>3 DEF StartExport, TypeOK
<1>4. ASSUME NEW j \in Job, Crash(j) PROVE Kept
  BY <1>0, <1>4 DEF Crash, TypeOK
<1>5. ASSUME NEW j \in Job, NEW l \in Lead, RefuseLead(j, l) PROVE Kept
  BY <1>0, <1>5 DEF RefuseLead, GoOn, TypeOK
<1>6. ASSUME NEW j \in Job, NEW l \in Lead, Mint(j, l) PROVE Kept
  <2>1. PICK new \in Row : new.state = mem[j][l].state /\ Flush(j, l, new)
    BY <1>6, Minted
  <2>2. UNCHANGED todo
    BY <1>6 DEF Mint
  <2> QED BY <1>0, <2>1, <2>2, FlushKeeps DEF Changed
<1>7. ASSUME NEW j \in Job, NEW l \in Lead, StaleContract(j, l) PROVE Kept
  <2> DEFINE new == [mem[j][l] EXCEPT !.error = "STALE_CONTRACT"]
  <2>1. mem[j][l] \in Row
    BY <1>0 DEF TypeOK
  <2>2. new \in Row /\ new.state = mem[j][l].state
    BY <2>1 DEF Row, ExportError
  <2>3. Flush(j, l, new) /\ GoOn(j, l)
    BY <1>7 DEF StaleContract
  <2> HIDE DEF new
  <2>4. \A i \in Job : todo'[i] \subseteq todo[i]
    BY <1>0, <2>3 DEF GoOn, TypeOK
  <2>5. \A k \in Lead : row'[k].state = row[k].state
    BY <1>0, <2>2, <2>3, FlushKeeps DEF Changed
  <2> QED BY <2>4, <2>5
<1>8. ASSUME NEW j \in Job, NEW l \in Lead, Record(j, l) PROVE Kept \/ Wrote(l)
  <2> DEFINE new == Outcome(mem[j][l], answer[j])
  <2>1. /\ mem[j][l] \in Row /\ answer[j] \in Answer /\ l \in todo[j]
        /\ mem[j][l].state = "PENDING_EXPORT" /\ mem[j][l].attempts < MaxAttempts
        /\ pc[j] = "answered" /\ IsCurrent(j, l)
    BY <1>0, <1>8 DEF Record, IsCurrent, TypeInv, SnapshotsWait, TypeOK
  <2>2. /\ new \in Row
        /\ new.state \in {"EXPORTED", "EXPORT_FAILED", "PENDING_EXPORT"}
        /\ new.state = "EXPORTED" => Success(answer[j])
    BY <2>1, OutcomeType DEF IsWaiting, Success
  <2>3. Flush(j, l, new) /\ GoOn(j, l) /\ UNCHANGED deposits
    BY <1>8 DEF Record
  <2> HIDE DEF new
  <2>4. row[l].state = "PENDING_EXPORT"
    BY <2>1 DEF StatesAgree
  <2>5. /\ \A k \in Lead \ {l} : row'[k] = row[k]
        /\ row'[l].state = new.state
    BY <1>0, <2>1, <2>2, <2>3, <2>4, FlushKeeps DEF Changed
  <2>6. \A i \in Job : todo'[i] \subseteq todo[i] \ {l}
    BY <1>0, <2>1, <2>3 DEF GoOn, TypeOK, OneJobOnly, SingleJob
  <2>7. Success(answer[j]) => \E d \in deposits : d.lead = l
    <3>1. Success(answer[j]) => mem[j][l].charge \in deposits
      BY <2>1 DEF RealInv, AnswersAreTrue
    <3>2. mem[j][l].charge \in deposits => mem[j][l].charge # NoCharge
      BY <1>0, NoChargeAssumption DEF TypeOK
    <3>3. mem[j][l].charge \in deposits => mem[j][l].charge.lead = l
      BY <3>2 DEF RealInv, Owned
    <3> QED BY <3>1, <3>3
  <2>8. CASE new.state = "PENDING_EXPORT"
    BY <2>4, <2>5, <2>6, <2>8
  <2>9. CASE new.state \in {"EXPORTED", "EXPORT_FAILED"}
    BY <2>2, <2>3, <2>4, <2>5, <2>6, <2>7, <2>9
  <2> QED BY <2>2, <2>8, <2>9
<1>9. ASSUME NEW w \in wire, Accept(w[1], w[2]) \/ Refuse(w[1], w[2])
      PROVE  UNCHANGED <<row, todo>>
  BY <1>9 DEF Accept, Refuse, Reply
<1>10. ASSUME NEW j \in Job, NEW l \in Lead, Timeout(j) \/ Send(j, l)
       PROVE  UNCHANGED <<row, todo>>
  BY <1>10 DEF Timeout, Send
<1>11. ~(\E d \in Desk : TRUE)
  BY DEF OneJobOnly
<1> HIDE DEF Kept, Wrote
<1>12. CASE \E j \in Job : StartExport(j) \/ Timeout(j) \/ Crash(j)
  <2>1. CASE \E j \in Job : Timeout(j)
    BY <2>1, <1>1 DEF Timeout
  <2> QED BY <1>3, <1>4, <1>12, <2>1
<1>13. CASE \E j \in Job, l \in Lead : JobStep(j, l)
  BY <1>1, <1>5, <1>6, <1>7, <1>8, <1>10, <1>13 DEF JobStep
<1>14. CASE \E w \in wire : Accept(w[1], w[2]) \/ Refuse(w[1], w[2])
  BY <1>1, <1>9, <1>14
<1>15. CASE \E l \in Lead : Capture(l)
  BY <1>2, <1>15
<1>16. CASE Reconfigure \/ UNCHANGED vars
  BY <1>1, <1>16 DEF Reconfigure, vars
<1> QED BY <1>11, <1>12, <1>13, <1>14, <1>15, <1>16 DEF Next

LEMMA StatesStep ==
  ASSUME OneJobOnly, TypeInv, TypeOK', RealInv, StatesAgree, [Next]_vars
  PROVE  StatesAgree'
<1>0. TypeOK
  BY DEF TypeInv
<1>1. \A l \in Batch : l \in Lead /\ row[l].state = "PENDING_EXPORT"
  BY DEF Batch, Waiting, IsWaiting, TypeInv, NeverNew
<1>2. \A j \in Job : todo[j] \subseteq Lead /\ todo'[j] \subseteq Lead
  BY <1>0 DEF TypeOK
<1>3. CASE /\ \A k \in Lead : row'[k].state = row[k].state
           /\ \A j \in Job : todo'[j] \subseteq todo[j] \cup Batch
  BY <1>1, <1>2, <1>3 DEF StatesAgree
<1>4. ASSUME NEW l \in Lead,
             \A k \in Lead \ {l} : row'[k] = row[k],
             row[l].state = "ABSENT", row'[l].state = "PENDING_EXPORT",
             UNCHANGED todo
      PROVE  StatesAgree'
  BY <1>2, <1>4 DEF StatesAgree
<1>5. ASSUME NEW l \in Lead,
             \A k \in Lead \ {l} : row'[k] = row[k],
             row'[l].state \in {"EXPORT_FAILED", "EXPORTED"},
             \A j \in Job : todo'[j] \subseteq todo[j] \ {l}
      PROVE  StatesAgree'
  <2>1. \A j \in Job : \A k \in todo'[j] : k \in todo[j] /\ k # l /\ k \in Lead
    BY <1>2, <1>5
  <2> QED BY <1>5, <2>1 DEF StatesAgree
<1> QED BY <1>3, <1>4, <1>5, StateSteps

\* An answered deposit is of the lead's own payload, and the first of its lead.
LEMMA DepositSteps ==
  ASSUME OneJobOnly, TypeOK, RealInv, IdentityInv, [Next]_vars
  PROVE  \/ UNCHANGED deposits
         \/ \E c \in Charge :
              /\ deposits' = deposits \cup {c}
              /\ c.lead \in Lead /\ c.corr \in Correlation
              /\ \A d \in deposits : d.lead # c.lead
              /\ row[c.lead].state \notin {"ABSENT", "EXPORTED"}
              /\ UNCHANGED row
<1> USE DEF jobVars
<1>1. ASSUME NEW w \in wire, Accept(w[1], w[2]), deposits' # deposits
      PROVE  \E c \in Charge :
              /\ deposits' = deposits \cup {c}
              /\ c.lead \in Lead /\ c.corr \in Correlation
              /\ \A d \in deposits : d.lead # c.lead
              /\ row[c.lead].state \notin {"ABSENT", "EXPORTED"}
              /\ UNCHANGED row
  <2> DEFINE c == w[2]
  <2>1. /\ c \in Charge /\ c.lead \in Lead /\ c.corr \in Correlation
        /\ c # NoCharge
    BY NoChargeAssumption DEF TypeOK, Charge
  <2>2. deposits' = deposits \cup {c} /\ c \notin deposits /\ UNCHANGED row
    BY <1>1 DEF Accept
  <2>3. row[c.lead].charge = c
    BY DEF IdentityInv, IdentityIsDurable
  <2> HIDE DEF c
  <2>4. \A d \in deposits : d.lead # c.lead
    BY <2>2, <2>3 DEF IdentityInv, IdentityIsDurable
  <2>5. row[c.lead].state # "ABSENT"
    BY <2>1, <2>3 DEF IdentityInv, CapturedFirst
  <2>6. row[c.lead].state # "EXPORTED"
    BY <2>1, <2>4 DEF RealInv, ExportedIsReal
  <2> QED BY <2>1, <2>2, <2>4, <2>5, <2>6
<1>2. ASSUME NEW w \in wire, Refuse(w[1], w[2]) PROVE deposits' = deposits
  BY <1>2 DEF Refuse
<1>3. ASSUME NEW j \in Job, NEW l \in Lead, JobStep(j, l) PROVE deposits' = deposits
  BY <1>3 DEF JobStep, RefuseLead, Mint, StaleContract, Send, Record
<1>4. ASSUME NEW j \in Job, StartExport(j) \/ Timeout(j) \/ Crash(j)
      PROVE  deposits' = deposits
  BY <1>4 DEF StartExport, Timeout, Crash
<1> QED
  BY <1>1, <1>2, <1>3, <1>4
     DEF Next, Capture, Reconfigure, ArchiveRead, ArchiveCommit, vars

VerdictOf(state) ==
    CASE state = "ABSENT" -> "unknown"
      [] state = "EXPORTED" -> "exported"
      [] state = "EXPORT_FAILED" -> "failed"
      [] OTHER -> "held"

LEMMA VerdictValues ==
  /\ AbstractVerdict = [l \in Lead |-> VerdictOf(row[l].state)]
  /\ VerdictOf("ABSENT") = "unknown" /\ VerdictOf("PENDING_EXPORT") = "held"
  /\ VerdictOf("EXPORTED") = "exported" /\ VerdictOf("EXPORT_FAILED") = "failed"
BY DEF AbstractVerdict, VerdictOf

ProspectsIn(given, l) == {d.corr : d \in {e \in given : e.lead = l}}

\* A first deposit gives its lead one prospect, and the others nothing.
LEMMA OneMoreProspect ==
  ASSUME NEW given, NEW c \in Charge, \A d \in given : d.lead # c.lead
  PROVE  /\ ProspectsIn(given, c.lead) = {}
         /\ \A l \in Lead : ProspectsIn(given \cup {c}, l) =
                IF l = c.lead THEN {c.corr} ELSE ProspectsIn(given, l)
<1>1. ProspectsIn(given, c.lead) = {}
  BY DEF ProspectsIn
<1>2. ASSUME NEW l \in Lead
      PROVE  ProspectsIn(given \cup {c}, l) =
                IF l = c.lead THEN {c.corr} ELSE ProspectsIn(given, l)
  <2>1. CASE l = c.lead
    <3>1. {e \in given \cup {c} : e.lead = l} = {c}
      BY <2>1
    <3> QED BY <2>1, <3>1 DEF ProspectsIn
  <2>2. CASE l # c.lead
    <3>1. {e \in given \cup {c} : e.lead = l} = {e \in given : e.lead = l}
      BY <2>2
    <3> QED BY <2>2, <3>1 DEF ProspectsIn
  <2> QED BY <2>1, <2>2
<1> QED BY <1>1, <1>2

LEMMA DeliveryInit == Init => Abstract!Init /\ StatesAgree
<1> SUFFICES ASSUME Init PROVE Abstract!Init /\ StatesAgree
  OBVIOUS
<1>1. \A l \in Lead : row[l].state \in {"ABSENT", "PENDING_EXPORT"}
  BY OldRowType DEF Init, Blank
<1>2. deposits = {} /\ \A j \in Job : todo[j] = {}
  BY DEF Init
<1>3. AbstractVerdict \in [Lead -> {"unknown", "held"}]
  BY <1>1, VerdictValues
<1>4. AbstractProspects = [l \in Lead |-> {}]
  BY <1>2 DEF AbstractProspects
<1> QED BY <1>1, <1>2, <1>3, <1>4 DEF Abstract!Init, StatesAgree

LEMMA DeliveryStep ==
  ASSUME OneJobOnly, TypeInv, TypeOK', RealInv, IdentityInv, StatesAgree, [Next]_vars
  PROVE  Abstract!Next \/ UNCHANGED <<AbstractVerdict, AbstractProspects>>
<1>0. TypeOK
  BY DEF TypeInv
<1>1. AbstractVerdict = [l \in Lead |-> VerdictOf(row[l].state)]
      /\ AbstractVerdict' = [l \in Lead |-> VerdictOf(row'[l].state)]
  BY DEF AbstractVerdict, VerdictOf
<1>2. AbstractProspects = [l \in Lead |-> ProspectsIn(deposits, l)]
      /\ AbstractProspects' = [l \in Lead |-> ProspectsIn(deposits', l)]
  BY DEF AbstractProspects, ProspectsIn
<1>3. ASSUME NEW c \in Charge,
             deposits' = deposits \cup {c}, c.lead \in Lead,
             c.corr \in Correlation, \A d \in deposits : d.lead # c.lead,
             row[c.lead].state \notin {"ABSENT", "EXPORTED"}, UNCHANGED row
      PROVE  Abstract!Next
  <2> DEFINE l == c.lead
  <2>1. AbstractVerdict[l] \in {"held", "failed"}
    BY <1>1, <1>3, VerdictValues DEF StatesAgree
  <2>2. AbstractProspects[l] = {}
    BY <1>2, <1>3, OneMoreProspect
  <2>3. AbstractProspects' = [AbstractProspects EXCEPT ![l] = {c.corr}]
    <3>1. \A k \in Lead : ProspectsIn(deposits', k) =
              IF k = l THEN {c.corr} ELSE ProspectsIn(deposits, k)
      <4>1. deposits' = deposits \cup {c} /\ \A d \in deposits : d.lead # c.lead
        BY <1>3
      <4>2. \A k \in Lead : ProspectsIn(deposits \cup {c}, k) =
                IF k = c.lead THEN {c.corr} ELSE ProspectsIn(deposits, k)
        BY <4>1, OneMoreProspect
      <4> QED BY <4>1, <4>2
    <3> QED BY <1>2, <3>1
  <2>4. AbstractVerdict' = AbstractVerdict
    BY <1>1, <1>3
  <2>5. Abstract!Deposit(l)
    BY <1>3, <2>1, <2>2, <2>3, <2>4 DEF Abstract!Deposit
  <2> QED BY <1>3, <2>5 DEF Abstract!Next
<1>4. CASE UNCHANGED deposits
  <2>1. AbstractProspects' = AbstractProspects
    BY <1>2, <1>4
  <2>2. CASE \A k \in Lead : row'[k].state = row[k].state
    BY <1>1, <2>1, <2>2
  <2>3. ASSUME NEW l \in Lead, \A k \in Lead \ {l} : row'[k] = row[k]
        PROVE  AbstractVerdict' =
                  [AbstractVerdict EXCEPT ![l] = VerdictOf(row'[l].state)]
    BY <1>1, <2>3
  <2>4. ASSUME NEW l \in Lead, \A k \in Lead \ {l} : row'[k] = row[k],
               row[l].state = "ABSENT", row'[l].state = "PENDING_EXPORT"
        PROVE  Abstract!Capture(l)
    BY <1>1, <2>1, <2>3, <2>4, VerdictValues DEF Abstract!Capture
  <2>5. ASSUME NEW l \in Lead, \A k \in Lead \ {l} : row'[k] = row[k],
               row[l].state = "PENDING_EXPORT", row'[l].state = "EXPORT_FAILED"
        PROVE  Abstract!GiveUp(l)
    BY <1>1, <2>1, <2>3, <2>5, VerdictValues DEF Abstract!GiveUp
  <2>6. ASSUME NEW l \in Lead, \A k \in Lead \ {l} : row'[k] = row[k],
               row[l].state = "PENDING_EXPORT", row'[l].state = "EXPORTED",
               NEW d \in deposits, d.lead = l
        PROVE  Abstract!Confirm(l)
    <3>1. d.corr \in AbstractProspects[l]
      BY <1>2, <2>6 DEF ProspectsIn
    <3> QED BY <1>1, <2>1, <2>3, <2>6, <3>1, VerdictValues DEF Abstract!Confirm
  <2> QED BY <2>1, <2>2, <2>4, <2>5, <2>6, StateSteps DEF Abstract!Next
<1> QED BY <1>0, <1>3, <1>4, DepositSteps

\* With one export job at a time and nobody archiving, the export implements
\* LeadDelivery: one prospect at most for each lead, a verdict that is final, and
\* "exported" only on a prospect that exists.
THEOREM ExportImplementsDelivery ==
  ASSUME OneJobOnly PROVE Spec => ImplementsDelivery
<1>1. TypeInv /\ RealInv /\ IdentityInv /\ [Next]_vars => IdentityInv'
  BY IdentityStep DEF OneJobOnly
<1>2. TypeInv /\ TypeInv' /\ RealInv /\ StatesAgree /\ [Next]_vars => StatesAgree'
  BY StatesStep DEF TypeInv
<1>3. TypeInv /\ TypeInv' /\ RealInv /\ IdentityInv /\ StatesAgree /\ [Next]_vars
        => [Abstract!Next]_(Abstract!vars)
  BY DeliveryStep DEF TypeInv, Abstract!vars
<1>4. Init => Abstract!Init /\ StatesAgree
  BY DeliveryInit
<1> QED
  BY TypeInit, TypeStep, RealInit, RealStep, IdentityInit, <1>1, <1>2, <1>3, <1>4,
     PTL DEF Spec, ImplementsDelivery, Abstract!Spec
=============================================================================
