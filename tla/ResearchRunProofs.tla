------------------------- MODULE ResearchRunProofs --------------------------
(***************************************************************************)
(* Theorems about ResearchRun, for any number of jobs, commands, searches  *)
(* and calls.                                                              *)
(***************************************************************************)
EXTENDS ResearchRun, FiniteSetTheorems, TLAPS

-----------------------------------------------------------------------------
(* Typing                                                                  *)

\* A part of a plan is a plan.
LEMMA PlanShrinks ==
  ASSUME NEW p \in Plan, NEW t \in SUBSET p
  PROVE  t \in Plan
<1>1. IsFiniteSet(p)
  BY QueryAssumption, FS_Subset DEF Plan
<1>2. IsFiniteSet(t) /\ Cardinality(t) <= Cardinality(p)
  BY <1>1, FS_Subset
<1>3. Cardinality(p) \in Nat /\ Cardinality(t) \in Nat
  BY <1>1, <1>2, FS_CardinalityType
<1> QED BY <1>2, <1>3, LimitAssumption DEF Plan

LEMMA EmptyPlan == {} \in Plan
BY FS_EmptySet, LimitAssumption DEF Plan

LEMMA ExecutedType ==
  ASSUME NEW searches \in SUBSET Query
  PROVE  /\ Executed(searches) \in SUBSET Entry
         /\ \A e \in Executed(searches) : e[1] \in searches /\ e[2] = "EXECUTED"
         /\ Settled(Executed(searches)) = searches
<1>1. /\ Executed(searches) \in SUBSET Entry
      /\ \A e \in Executed(searches) : e[1] \in searches /\ e[2] = "EXECUTED"
  BY DEF Executed, Entry, Status
<1>2. \A q \in searches : <<q, "EXECUTED">> \in Executed(searches)
                             /\ <<q, "EXECUTED">>[1] = q
  BY DEF Executed
<1>3. Settled(Executed(searches)) \subseteq searches
  BY <1>1 DEF Settled
<1>4. searches \subseteq Settled(Executed(searches))
  BY <1>2 DEF Settled
<1> QED BY <1>1, <1>3, <1>4

\* A command works on a package that was committed.
Targets == \A c \in Command : Active(c) => package[command[c].package] # NoPackage

TypeInv == TypeOK /\ Targets

\* What a command is, by what it is doing.
LEMMA CommandKind ==
  ASSUME TypeOK, NEW c \in Command
  PROVE  /\ command[c].step = "RUN" => command[c] \in RunState
         /\ command[c].step = "ABANDON" => command[c] \in AbandonState
         /\ command[c].step \in {"IDLE", "DONE", "DEAD"} => ~Active(c)
         /\ command[c].step \in {"IDLE", "DONE", "DEAD", "RUN", "ABANDON"}
         /\ Idle(c) => ~Active(c)
<1>1. command[c] \in {IdleCommand, [step |-> "DONE"], [step |-> "DEAD"]}
                       \cup RunState \cup AbandonState
  BY DEF TypeOK
<1>2. CASE command[c] \in RunState
  BY <1>2 DEF RunState, Active, Idle, IdleCommand
<1>3. CASE command[c] \in AbandonState
  BY <1>3 DEF AbandonState, Active, Idle, IdleCommand
<1>4. CASE command[c] \in {IdleCommand, [step |-> "DONE"], [step |-> "DEAD"]}
  <2>1. command[c].step \in {"IDLE", "DONE", "DEAD"}
    BY <1>4 DEF IdleCommand
  <2> QED BY <2>1 DEF Active
<1> QED BY <1>1, <1>2, <1>3, <1>4

LEMMA TypeInit == Init => TypeInv
<1> SUFFICES ASSUME Init PROVE TypeInv
  OBVIOUS
<1>1. TypeOK
  BY EmptyPlan, LimitAssumption DEF Init, TypeOK, Phase, RunKey, IdleCommand
<1>2. Targets
  BY DEF Init, Targets, Active, IdleCommand
<1> QED BY <1>1, <1>2 DEF TypeInv

\* A call below the ceiling keeps the count within it.
LEMMA SpentType ==
  ASSUME TypeOK, NEW j \in Job, spent[j] < MaxCalls[j],
         spent' = [spent EXCEPT ![j] = @ + 1]
  PROVE  spent' \in [Job -> Nat] /\ \A i \in Job : spent'[i] <= MaxCalls[i]
<1>1. spent \in [Job -> Nat] /\ \A i \in Job : spent[i] <= MaxCalls[i]
  BY DEF TypeOK
<1>2. \A i \in Job : MaxCalls[i] \in Nat
  BY LimitAssumption
<1>3. spent[j] + 1 \in Nat /\ spent[j] + 1 <= MaxCalls[j]
  BY <1>1, <1>2
<1>4. \A i \in Job : spent'[i] = IF i = j THEN spent[j] + 1 ELSE spent[i]
  BY <1>1
<1> QED BY <1>1, <1>3, <1>4

\* A step of a job that leaves the commands alone and takes no package away.
LEMMA TargetsStay ==
  ASSUME Targets, UNCHANGED command,
         \A p \in Job : package[p] # NoPackage => package'[p] # NoPackage,
         TypeOK
  PROVE  Targets'
<1> SUFFICES ASSUME NEW c \in Command, Active(c)'
             PROVE  package'[command'[c].package] # NoPackage
  BY DEF Targets
<1>1. Active(c)
  BY DEF Active
<1>2. command[c].package \in Job
  BY <1>1, CommandKind DEF Active, RunState, AbandonState
<1> QED BY <1>1, <1>2 DEF Targets

LEMMA PersistType ==
  ASSUME TypeOK, NEW j \in Job, NEW names \in SUBSET RunKey, NEW next \in Phase,
         Persist(j, names, next)
  PROVE  /\ runs' \subseteq Correlation \X RunKey
         /\ phase' \in [Job -> Phase]
         /\ phase' = [phase EXCEPT ![j] = next] \/ phase' = [phase EXCEPT ![j] = "FAILED"]
<1>1. Keys(j, names) \subseteq Correlation \X RunKey
  BY CorrelationAssumption DEF Keys
<1>2. "FAILED" \in Phase
  BY DEF Phase
<1> QED BY <1>1, <1>2 DEF Persist, Goto, TypeOK

LEMMA JobTypeStep ==
  ASSUME TypeInv, NEW j \in Job, JobStep(j)
  PROVE  TypeInv'
<1> USE DEF TypeInv
<1>1. CASE Serp(j)
  <2>1. TypeOK'
    BY <1>1 DEF Serp, TypeOK, Goto, Collect, Phase, history
  <2> QED BY <1>1, <2>1, TargetsStay DEF Serp
<1>2. CASE Research(j)
  <2>1. phase' \in [Job -> Phase] /\ got' \in [Job -> SUBSET RunKey]
    BY <1>2 DEF Research, TypeOK, Goto, Phase, RunKey
  <2>2. unbooked' \in [Job -> BOOLEAN]
    BY <1>2 DEF Research, TypeOK, Collect
  <2>3. spent' \in [Job -> Nat] /\ \A i \in Job : spent'[i] <= MaxCalls[i]
    BY <1>2, SpentType DEF Research
  <2>4. TypeOK'
    BY <1>2, <2>1, <2>2, <2>3 DEF Research, TypeOK, history
  <2> QED BY <1>2, <2>4, TargetsStay DEF Research
<1>3. CASE KeepResearch(j)
  <2>1. got[j] \in SUBSET RunKey /\ "PLANNING" \in Phase
    BY DEF TypeOK, Phase
  <2>2. runs' \subseteq Correlation \X RunKey /\ phase' \in [Job -> Phase]
    BY <1>3, <2>1, PersistType DEF KeepResearch
  <2>3. TypeOK'
    BY <1>3, <2>2 DEF KeepResearch, TypeOK, history
  <2> QED BY <1>3, <2>3, TargetsStay DEF KeepResearch
<1>4. CASE FirstPlan(j)
  <2>1. TypeOK'
    BY <1>4 DEF FirstPlan, TypeOK, Goto, Phase, Round, history
  <2> QED BY <1>4, <2>1, TargetsStay DEF FirstPlan
<1>5. CASE Refused(j)
  <2>1. TypeOK'
    BY <1>5, EmptyPlan DEF Refused, TypeOK, Goto, Forget, Phase, history
  <2> QED BY <1>5, <2>1, TargetsStay DEF Refused
<1>6. CASE SecondPlan(j)
  <2>1. PICK second \in Plan :
          /\ EndRound(j, IF Unresolved(second, Recorded(j)) = {} THEN "PACKAGING"
                                                                  ELSE "ROUND2")
          /\ plan' = [plan EXCEPT ![j] = Unresolved(second, Recorded(j))]
          /\ todo' = [todo EXCEPT ![j] = Unresolved(second, Recorded(j))]
    BY <1>6 DEF SecondPlan
  <2> DEFINE pending == Unresolved(second, Recorded(j))
  <2> DEFINE next == IF pending = {} THEN "PACKAGING" ELSE "ROUND2"
  <2>2. pending \in Plan
    BY PlanShrinks DEF Unresolved
  <2>3. next \in Phase
    BY DEF Phase, Round
  <2> HIDE DEF pending, next
  <2>4. EndRound(j, next)
    BY <2>1 DEF next, pending
  <2>5. plan' \in [Job -> Plan] /\ todo' \in [Job -> Plan]
    BY <2>1, <2>2 DEF pending, TypeOK
  <2>6. Recorded(j) \in SUBSET Entry
    BY ExecutedType DEF Recorded, TypeOK, Plan
  <2>7. record' \in [Job -> SUBSET Entry]
    BY <2>4, <2>6 DEF EndRound, TypeOK
  <2>8. (got[j] \cap {RoundKey(phase[j])}) \in SUBSET RunKey
    BY DEF TypeOK
  <2>9. runs' \subseteq Correlation \X RunKey /\ phase' \in [Job -> Phase]
    BY <2>3, <2>4, <2>8, PersistType DEF EndRound
  <2>10. TypeOK'
    BY <2>4, <2>5, <2>7, <2>9 DEF EndRound, TypeOK, history
  <2> QED BY <2>4, <2>10, TargetsStay DEF EndRound
<1>7. CASE EndRounds(j)
  <2>1. EndRound(j, "PACKAGING") /\ UNCHANGED <<plan, todo>>
    BY <1>7 DEF EndRounds
  <2>2. Recorded(j) \in SUBSET Entry
    BY ExecutedType DEF Recorded, TypeOK, Plan
  <2>3. record' \in [Job -> SUBSET Entry]
    BY <2>1, <2>2 DEF EndRound, TypeOK
  <2>4. (got[j] \cap {RoundKey(phase[j])}) \in SUBSET RunKey /\ "PACKAGING" \in Phase
    BY DEF TypeOK, Phase
  <2>5. runs' \subseteq Correlation \X RunKey /\ phase' \in [Job -> Phase]
    BY <2>1, <2>4, PersistType DEF EndRound
  <2>6. TypeOK'
    BY <2>1, <2>3, <2>5 DEF EndRound, TypeOK, history
  <2> QED BY <2>1, <2>6, TargetsStay DEF EndRound
<1>8. CASE Seal(j)
  <2>1. PICK third \in Plan :
          package' = [package EXCEPT ![j] = [proposed |-> third, record |-> record[j]]]
    BY <1>8 DEF Seal, SealWith
  <2>2. [proposed |-> third, record |-> record[j]] \in Package
    BY DEF Package, Plan, TypeOK
  <2>3. package' \in [Job -> Package \cup {NoPackage}]
    BY <2>1, <2>2 DEF TypeOK
  <2>4. \A p \in Job : package[p] # NoPackage => package'[p] # NoPackage
    BY <2>1, <2>2, NoneAssumption DEF TypeOK
  <2>5. TypeOK'
    BY <1>8, <2>3, EmptyPlan DEF Seal, SealWith, TypeOK, Goto, Forget, Phase, history
  <2> QED BY <1>8, <2>4, <2>5, TargetsStay DEF Seal, SealWith
<1>9. CASE Book(j)
  <2>1. TypeOK'
    BY <1>9 DEF Book, TypeOK, Goto, Phase, history
  <2> QED BY <1>9, <2>1, TargetsStay DEF Book
<1>10. CASE Crash(j)
  <2>1. TypeOK'
    BY <1>10, EmptyPlan DEF Crash, TypeOK, Goto, Forget, Phase, history
  <2> QED BY <1>10, <2>1, TargetsStay DEF Crash
<1>11. ASSUME NEW q \in Query, LaunchSearch(j, q) PROVE TypeInv'
  <2> USE <1>11 DEF LaunchSearch, LaunchSearchUncapped
  <2>1. todo' \in [Job -> Plan]
    <3>1. todo[j] \in Plan /\ todo[j] \ {q} \in SUBSET todo[j]
      BY DEF TypeOK
    <3>2. todo[j] \ {q} \in Plan
      BY <3>1, PlanShrinks
    <3> QED BY <3>2 DEF TypeOK
  <2>2. got' \in [Job -> SUBSET RunKey]
    <3>1. RoundKey(phase[j]) \in RunKey
      BY DEF RoundKey, RunKey
    <3>2. got' = got \/ got' = [got EXCEPT ![j] = @ \cup {RoundKey(phase[j])}]
      OBVIOUS
    <3> QED BY <3>1, <3>2 DEF TypeOK
  <2>3. unbooked' \in [Job -> BOOLEAN]
    BY DEF TypeOK, Collect
  <2>4. spent' \in [Job -> Nat] /\ \A i \in Job : spent'[i] <= MaxCalls[i]
    BY SpentType
  <2>5. launched' \subseteq Job \X Query /\ repaid' \subseteq launched'
    BY DEF TypeOK, Pay
  <2>6. TypeOK'
    BY <2>1, <2>2, <2>3, <2>4, <2>5 DEF TypeOK
  <2> QED BY <2>6, TargetsStay
<1> QED BY <1>1, <1>2, <1>3, <1>4, <1>5, <1>6, <1>7, <1>8, <1>9, <1>10, <1>11
        DEF JobStep

\* What a command that becomes another state leaves.
LEMMA BecomeType ==
  ASSUME TypeInv, NEW c \in Command, NEW state, Become(c, state),
         state \in {[step |-> "DONE"], [step |-> "DEAD"]} \cup RunState \cup AbandonState,
         state.step \in {"RUN", "ABANDON"} => package'[state.package] # NoPackage,
         \A p \in Job : package[p] # NoPackage => package'[p] # NoPackage
  PROVE  /\ command' \in [Command -> {IdleCommand, [step |-> "DONE"], [step |-> "DEAD"]}
                              \cup RunState \cup AbandonState]
         /\ Targets'
<1>1. command' = [command EXCEPT ![c] = state]
  BY DEF Become
<1>2. command' \in [Command -> {IdleCommand, [step |-> "DONE"], [step |-> "DEAD"]}
                              \cup RunState \cup AbandonState]
  BY <1>1 DEF TypeInv, TypeOK
<1>3. ASSUME NEW d \in Command, Active(d)'
      PROVE  package'[command'[d].package] # NoPackage
  <2>1. CASE d = c
    BY <1>1, <1>3, <2>1 DEF Active, TypeInv, TypeOK
  <2>2. CASE d # c
    <3>1. command'[d] = command[d] /\ Active(d)
      BY <1>1, <1>3, <2>2 DEF Active, TypeInv, TypeOK
    <3>2. command[d].package \in Job
      BY <3>1, CommandKind DEF Active, RunState, AbandonState, TypeInv
    <3> QED BY <3>1, <3>2 DEF Targets, TypeInv
  <2> QED BY <2>1, <2>2
<1> QED BY <1>2, <1>3 DEF Targets

\* Writing a record back.
LEMMA WriteType ==
  ASSUME TypeInv, NEW c \in Command, Active(c), NEW entries \in SUBSET Entry,
         Write(c, entries)
  PROVE  /\ TypeInv'
         /\ command[c].package \in Job
         /\ package[command[c].package] \in Package
         /\ \A p \in Job : package'[p] =
               IF p = command[c].package
               THEN [package[p] EXCEPT !.record = command[c].seen \cup entries]
               ELSE package[p]
<1> DEFINE p == command[c].package
<1>1. p \in Job /\ command[c].seen \in SUBSET Entry
  BY CommandKind DEF TypeInv, Active, RunState, AbandonState
<1>2. package[p] \in Package
  BY <1>1 DEF TypeInv, TypeOK, Targets
<1>3. package' = [package EXCEPT ![p].record = command[c].seen \cup entries]
  BY DEF Write
<1>4. \A i \in Job : package'[i] =
               IF i = p THEN [package[i] EXCEPT !.record = command[c].seen \cup entries]
                        ELSE package[i]
  BY <1>1, <1>3 DEF TypeInv, TypeOK
<1>5. [package[p] EXCEPT !.record = command[c].seen \cup entries] \in Package
  BY <1>1, <1>2 DEF Package
<1>6. /\ package' \in [Job -> Package \cup {NoPackage}]
      /\ \A i \in Job : package[i] # NoPackage => package'[i] # NoPackage
  BY <1>1, <1>3, <1>4, <1>5, NoneAssumption DEF TypeInv, TypeOK
<1>7. Become(c, [step |-> "DONE"])
  BY DEF Write
<1>8. /\ command' \in [Command -> {IdleCommand, [step |-> "DONE"], [step |-> "DEAD"]}
                              \cup RunState \cup AbandonState]
      /\ Targets'
  <2> DEFINE state == [step |-> "DONE"]
  <2>1. state.step = "DONE"
    OBVIOUS
  <2> HIDE DEF state
  <2>2. state.step \notin {"RUN", "ABANDON"}
    BY <2>1
  <2>3. Become(c, state) /\ state \in {[step |-> "DONE"], [step |-> "DEAD"]}
    BY <1>7 DEF state
  <2> QED BY <1>6, <2>2, <2>3, BecomeType
<1>9. TypeOK'
  BY <1>6, <1>8 DEF Write, TypeInv, TypeOK, jobVars, history
<1> QED BY <1>1, <1>2, <1>4, <1>8, <1>9 DEF TypeInv

LEMMA CommandTypeStep ==
  ASSUME TypeInv, NEW c \in Command, CommandStep(c)
  PROVE  TypeInv'
<1> USE DEF TypeInv
<1>1. ASSUME NEW p \in Job, NEW all \in BOOLEAN, RunRead(c, p, all) PROVE TypeInv'
  <2> DEFINE state == [step |-> "RUN", package |-> p, again |-> all,
                       pending |-> Chosen(p, all), todo |-> Chosen(p, all),
                       seen |-> package[p].record]
  <2>1. package[p] \in Package
    BY <1>1 DEF RunRead, TypeOK
  <2>2. Chosen(p, all) \in SUBSET Query
    BY <2>1 DEF Chosen, Unresolved, Package
  <2>3. state \in RunState /\ state.package = p
    BY <2>1, <2>2 DEF RunState, Package
  <2>4. Become(c, state) /\ package' = package /\ package'[p] # NoPackage
    BY <1>1 DEF RunRead
  <2> HIDE DEF state
  <2>5. /\ command' \in [Command -> {IdleCommand, [step |-> "DONE"], [step |-> "DEAD"]}
                              \cup RunState \cup AbandonState]
        /\ Targets'
    BY <2>3, <2>4, BecomeType
  <2>6. troubled' \subseteq Job
    BY <1>1 DEF RunRead, Trouble, TypeOK
  <2>7. TypeOK'
    BY <1>1, <2>5, <2>6 DEF RunRead, TypeOK, jobVars
  <2> QED BY <2>5, <2>7
<1>2. ASSUME NEW p \in Job, NEW q \in Query, AbandonRead(c, p, q) PROVE TypeInv'
  <2> DEFINE state == [step |-> "ABANDON", package |-> p, search |-> q,
                       seen |-> package[p].record]
  <2>1. package[p] \in Package
    BY <1>2 DEF AbandonRead, TypeOK
  <2>2. state \in AbandonState /\ state.package = p
    BY <2>1 DEF AbandonState, Package
  <2>3. Become(c, state) /\ package' = package /\ package'[p] # NoPackage
    BY <1>2 DEF AbandonRead
  <2> HIDE DEF state
  <2>4. /\ command' \in [Command -> {IdleCommand, [step |-> "DONE"], [step |-> "DEAD"]}
                              \cup RunState \cup AbandonState]
        /\ Targets'
    BY <2>2, <2>3, BecomeType
  <2>5. troubled' \subseteq Job
    BY <1>2 DEF AbandonRead, Trouble, TypeOK
  <2>6. TypeOK'
    BY <1>2, <2>4, <2>5 DEF AbandonRead, TypeOK, jobVars
  <2> QED BY <2>4, <2>6
<1>3. ASSUME NEW q \in Query, RunLaunch(c, q) PROVE TypeInv'
  <2> DEFINE state == [command[c] EXCEPT !.todo = @ \ {q}]
  <2>1. command[c] \in RunState
    BY <1>3, CommandKind DEF RunLaunch
  <2>2. state \in RunState /\ state.package = command[c].package
    BY <2>1 DEF RunState
  <2>3. command[c].package \in Job /\ package[command[c].package] # NoPackage
    BY <1>3, <2>1 DEF RunLaunch, Targets, Active, RunState
  <2>4. Become(c, state) /\ package' = package
    BY <1>3 DEF RunLaunch
  <2> HIDE DEF state
  <2>5. /\ command' \in [Command -> {IdleCommand, [step |-> "DONE"], [step |-> "DEAD"]}
                              \cup RunState \cup AbandonState]
        /\ Targets'
    BY <2>2, <2>3, <2>4, BecomeType
  <2>6. launched' \subseteq Job \X Query /\ repaid' \subseteq launched'
    BY <1>3, <2>3 DEF RunLaunch, Pay, TypeOK
  <2>7. TypeOK'
    BY <1>3, <2>5, <2>6 DEF RunLaunch, TypeOK, jobVars
  <2> QED BY <2>5, <2>7
<1>4. CASE RunCommit(c)
  <2>1. command[c] \in RunState /\ Active(c)
    BY <1>4, CommandKind DEF RunCommit, Active
  <2>2. Executed(command[c].pending) \in SUBSET Entry
    BY <2>1, ExecutedType DEF RunState
  <2> QED BY <1>4, <2>1, <2>2, WriteType DEF RunCommit
<1>5. CASE AbandonCommit(c)
  <2>1. command[c] \in AbandonState /\ Active(c)
    BY <1>5, CommandKind DEF AbandonCommit, Active
  <2>2. {<<command[c].search, "ABANDONED">>} \in SUBSET Entry
    BY <2>1 DEF AbandonState, Entry, Status
  <2> QED BY <1>5, <2>1, <2>2, WriteType DEF AbandonCommit
<1>6. CASE CommandCrash(c)
  <2>1. command[c].package \in Job
    BY <1>6, CommandKind DEF CommandCrash, Active, RunState, AbandonState
  <2> DEFINE state == [step |-> "DEAD"]
  <2>2. state.step \notin {"RUN", "ABANDON"}
    OBVIOUS
  <2>3. Become(c, state) /\ package' = package
    BY <1>6 DEF CommandCrash
  <2>4. state \in {[step |-> "DONE"], [step |-> "DEAD"]}
    OBVIOUS
  <2> HIDE DEF state
  <2>5. /\ command' \in [Command -> {IdleCommand, [step |-> "DONE"], [step |-> "DEAD"]}
                              \cup RunState \cup AbandonState]
        /\ Targets'
    BY <2>2, <2>3, <2>4, BecomeType
  <2>6. troubled' \subseteq Job
    BY <1>6, <2>1 DEF CommandCrash, TypeOK
  <2>7. TypeOK'
    BY <1>6, <2>5, <2>6 DEF CommandCrash, TypeOK, jobVars
  <2> QED BY <2>5, <2>7
<1> QED BY <1>1, <1>2, <1>3, <1>4, <1>5, <1>6 DEF CommandStep

LEMMA TypeStep == TypeInv /\ [Next]_vars => TypeInv'
<1> SUFFICES ASSUME TypeInv, [Next]_vars PROVE TypeInv'
  OBVIOUS
<1>1. CASE UNCHANGED vars
  BY <1>1 DEF vars, jobVars, history, TypeInv, TypeOK, Targets, Active
<1> QED BY <1>1, JobTypeStep, CommandTypeStep DEF Next

\* Every state is well typed; no job passes the ceiling of its budget.
THEOREM TypeCorrect == Spec => []TypeOK
<1>1. TypeInv => TypeOK
  BY DEF TypeInv
<1> QED BY <1>1, TypeInit, TypeStep, PTL DEF Spec

-----------------------------------------------------------------------------
(* What is launched and what is recorded                                   *)

\* What a job has launched is what it has recorded or is about to.
JobOk(j) ==
    /\ package[j] # NoPackage => phase[j] \in {"BOOKING", "DONE", "DEAD"}
    /\ phase[j] \in {"IDLE", "RESEARCH", "KEEPING", "PLANNING"} =>
          /\ record[j] = {}
          /\ \A q \in Query : <<j, q>> \notin launched
    /\ phase[j] \in Round =>
          /\ todo[j] \subseteq plan[j]
          /\ \A q \in todo[j] : <<j, q>> \notin launched
          /\ \A q \in Query : <<j, q>> \in launched
                                <=> q \in Settled(record[j]) \cup (plan[j] \ todo[j])
    /\ phase[j] = "PACKAGING" =>
          \A q \in Query : <<j, q>> \in launched <=> q \in Settled(record[j])

WasLaunched(p, entries) ==
    \A e \in entries : e[2] = "EXECUTED" => <<p, e[1]>> \in launched

\* What a command has launched, and what will be left when it commits.
CommandOk(c) ==
    /\ Active(c) => WasLaunched(command[c].package, command[c].seen)
    /\ command[c].step = "RUN" =>
          /\ command[c].todo \subseteq command[c].pending
          /\ \A q \in command[c].pending \ command[c].todo :
                <<command[c].package, q>> \in launched
          /\ package[command[c].package].proposed
                \subseteq command[c].pending \cup Settled(command[c].seen)
          /\ ~command[c].again =>
                command[c].pending \cap Settled(command[c].seen) = {}

AtWork(c, p) == Active(c) /\ command[c].package = p

\* While a package is untroubled, one command at most is at work on it and has read
\* its record as it stands; what was launched is recorded there or held by that one.
PackageOk(p) ==
    package[p] # NoPackage /\ p \notin troubled =>
        /\ \A c, d \in Command : AtWork(c, p) /\ AtWork(d, p) => c = d
        /\ \A c \in Command : AtWork(c, p) => command[c].seen = package[p].record
        /\ \A q \in Query : <<p, q>> \in launched =>
              \/ q \in Settled(package[p].record)
              \/ \E c \in Command :
                    /\ AtWork(c, p) /\ command[c].step = "RUN"
                    /\ q \in command[c].pending \ command[c].todo

LaunchInv ==
    /\ \A j \in Job : JobOk(j) /\ PackageOk(j)
    /\ \A c \in Command : CommandOk(c)
    /\ ExecutedWasLaunched
    /\ PaidOnce

LEMMA SettledUnion ==
  ASSUME NEW a, NEW b
  PROVE  Settled(a \cup b) = Settled(a) \cup Settled(b)
BY DEF Settled

LEMMA SettledType ==
  ASSUME NEW a \in SUBSET Entry
  PROVE  /\ Settled(a) \in SUBSET Query
         /\ \A e \in a : e[1] \in Settled(a) /\ e[1] \in Query
BY DEF Settled, Entry

LEMMA LaunchInit == Init => LaunchInv
<1> SUFFICES ASSUME Init PROVE LaunchInv
  OBVIOUS
<1>1. \A j \in Job : JobOk(j) /\ PackageOk(j)
  BY DEF Init, JobOk, PackageOk, Round
<1>2. \A c \in Command : CommandOk(c)
  BY DEF Init, CommandOk, Active, IdleCommand
<1>3. ExecutedWasLaunched /\ PaidOnce
  BY DEF Init, ExecutedWasLaunched, PaidOnce
<1> QED BY <1>1, <1>2, <1>3 DEF LaunchInv

\* A step of a job that launches nothing and seals nothing.
LEMMA QuietJob ==
  ASSUME TypeInv, LaunchInv, NEW j \in Job, JobOk(j)',
         UNCHANGED <<package, command, history>>,
         \A i \in Job \ {j} : /\ phase'[i] = phase[i] /\ record'[i] = record[i]
                              /\ plan'[i] = plan[i] /\ todo'[i] = todo[i]
  PROVE  LaunchInv'
<1>1. \A i \in Job : JobOk(i)'
  BY DEF LaunchInv, JobOk, history
<1>2. \A i \in Job : PackageOk(i)'
  BY DEF LaunchInv, PackageOk, history, AtWork, Active
<1>3. \A c \in Command : CommandOk(c)'
  BY DEF LaunchInv, CommandOk, history, WasLaunched, Active
<1>4. ExecutedWasLaunched' /\ PaidOnce'
  BY DEF LaunchInv, ExecutedWasLaunched, PaidOnce, history
<1> QED BY <1>1, <1>2, <1>3, <1>4 DEF LaunchInv

LEMMA JobLaunchStep ==
  ASSUME TypeInv, LaunchInv, NEW j \in Job, JobStep(j)
  PROVE  LaunchInv'
<1>0. JobOk(j)
  BY DEF LaunchInv
<1> USE DEF TypeInv
<1>1. CASE Serp(j)
  <2>1. JobOk(j)'
    BY <1>0, <1>1 DEF Serp, JobOk, Goto, TypeOK, Round, history
  <2> QED BY <1>1, <2>1, QuietJob DEF Serp, Goto, TypeOK
<1>2. CASE Research(j)
  <2>1. JobOk(j)'
    BY <1>0, <1>2 DEF Research, JobOk, Goto, TypeOK, Round, history
  <2> QED BY <1>2, <2>1, QuietJob DEF Research, Goto, TypeOK
<1>3. CASE KeepResearch(j)
  <2>1. phase' \in {[phase EXCEPT ![j] = "PLANNING"], [phase EXCEPT ![j] = "FAILED"]}
    BY <1>3 DEF KeepResearch, Persist, Goto
  <2>2. JobOk(j)'
    BY <1>0, <1>3, <2>1 DEF KeepResearch, JobOk, TypeOK, Round, history
  <2> QED BY <1>3, <2>1, <2>2, QuietJob DEF KeepResearch, TypeOK
<1>4. CASE FirstPlan(j)
  <2>1. PICK p \in Plan :
          /\ plan' = [plan EXCEPT ![j] = p] /\ todo' = [todo EXCEPT ![j] = p]
          /\ phase' = [phase EXCEPT ![j] = IF p = {} THEN "PACKAGING" ELSE "ROUND1"]
    BY <1>4 DEF FirstPlan, Goto
  <2>2. phase[j] = "PLANNING" /\ UNCHANGED <<record, package, command, history>>
    BY <1>4 DEF FirstPlan
  <2>3. record[j] = {} /\ \A q \in Query : <<j, q>> \notin launched
    BY <1>0, <2>2 DEF JobOk
  <2>4. package[j] = NoPackage /\ p \subseteq Query
    BY <1>0, <2>2 DEF JobOk, Plan
  <2>5. plan'[j] = p /\ todo'[j] = p /\ record'[j] = {} /\ package'[j] = NoPackage
        /\ launched' = launched
        /\ phase'[j] \in {"PACKAGING", "ROUND1"}
    BY <2>1, <2>2, <2>3, <2>4 DEF TypeOK, history
  <2>6. JobOk(j)'
    BY <2>3, <2>4, <2>5 DEF JobOk, Settled, Round
  <2> QED BY <2>1, <2>2, <2>6, QuietJob DEF TypeOK
<1>5. CASE Refused(j)
  <2>1. phase[j] \in Round \cup {"RESEARCH"} /\ phase'[j] = "REFUSED"
        /\ UNCHANGED <<package, command, history>>
    BY <1>5 DEF Refused, Goto, TypeOK
  <2>2. JobOk(j)'
    BY <1>0, <2>1 DEF JobOk, Round
  <2> QED BY <1>5, <2>1, <2>2, QuietJob DEF Refused, Goto, Forget, TypeOK
<1>6. CASE SecondPlan(j)
  <2>1. PICK second \in Plan :
          /\ EndRound(j, IF Unresolved(second, Recorded(j)) = {} THEN "PACKAGING"
                                                                  ELSE "ROUND2")
          /\ plan' = [plan EXCEPT ![j] = Unresolved(second, Recorded(j))]
          /\ todo' = [todo EXCEPT ![j] = Unresolved(second, Recorded(j))]
    BY <1>6 DEF SecondPlan
  <2> DEFINE pending == Unresolved(second, Recorded(j))
  <2>2. /\ phase[j] \in Round /\ todo[j] = {}
        /\ record' = [record EXCEPT ![j] = Recorded(j)]
        /\ UNCHANGED <<package, command, history>>
    BY <2>1 DEF EndRound
  <2>3. phase' \in {[phase EXCEPT ![j] = "PACKAGING"], [phase EXCEPT ![j] = "ROUND2"],
                    [phase EXCEPT ![j] = "FAILED"]}
    BY <2>1 DEF EndRound, Persist, Goto
  <2>4. Settled(Recorded(j)) = Settled(record[j]) \cup plan[j]
    BY SettledUnion, ExecutedType DEF Recorded, Plan, TypeOK
  <2>5. \A q \in Query : <<j, q>> \in launched <=> q \in Settled(Recorded(j))
    BY <1>0, <2>2, <2>4 DEF JobOk
  <2>6. pending \subseteq Query /\ pending \cap Settled(Recorded(j)) = {}
    BY DEF Unresolved, Plan
  <2>7. /\ plan'[j] = pending /\ todo'[j] = pending /\ record'[j] = Recorded(j)
        /\ launched' = launched /\ package'[j] = NoPackage
        /\ phase'[j] \in {"PACKAGING", "ROUND2", "FAILED"}
    BY <1>0, <2>1, <2>2, <2>3 DEF TypeOK, history, JobOk, Round
  <2> HIDE DEF pending
  <2>8. JobOk(j)'
    BY <2>5, <2>6, <2>7 DEF JobOk, Round
  <2> QED BY <2>1, <2>2, <2>3, <2>8, QuietJob DEF TypeOK
<1>7. CASE EndRounds(j)
  <2>2. /\ phase[j] \in Round /\ todo[j] = {}
        /\ record' = [record EXCEPT ![j] = Recorded(j)]
        /\ UNCHANGED <<plan, todo, package, command, history>>
    BY <1>7 DEF EndRounds, EndRound
  <2>3. phase' \in {[phase EXCEPT ![j] = "PACKAGING"], [phase EXCEPT ![j] = "FAILED"]}
    BY <1>7 DEF EndRounds, EndRound, Persist, Goto
  <2>4. Settled(Recorded(j)) = Settled(record[j]) \cup plan[j]
    BY SettledUnion, ExecutedType DEF Recorded, Plan, TypeOK
  <2>5. \A q \in Query : <<j, q>> \in launched <=> q \in Settled(Recorded(j))
    BY <1>0, <2>2, <2>4 DEF JobOk
  <2>6. /\ record'[j] = Recorded(j)
        /\ launched' = launched /\ package'[j] = NoPackage
        /\ phase'[j] \in {"PACKAGING", "FAILED"}
    BY <1>0, <2>2, <2>3 DEF TypeOK, history, JobOk, Round
  <2>7. JobOk(j)'
    BY <2>5, <2>6 DEF JobOk, Round
  <2> QED BY <2>2, <2>3, <2>7, QuietJob DEF TypeOK
<1>8. CASE Seal(j)
  <2>1. PICK third \in Plan :
          package' = [package EXCEPT ![j] = [proposed |-> third, record |-> record[j]]]
    BY <1>8 DEF Seal, SealWith
  <2>2. /\ phase[j] = "PACKAGING" /\ phase' = [phase EXCEPT ![j] = "BOOKING"]
        /\ Forget(j) /\ UNCHANGED <<command, history>>
    BY <1>8 DEF Seal, SealWith, Goto
  <2>3. package[j] = NoPackage
        /\ \A q \in Query : <<j, q>> \in launched <=> q \in Settled(record[j])
    BY <1>0, <2>2 DEF JobOk
  <2>4. \A c \in Command : ~AtWork(c, j)
    BY <2>3 DEF Targets, AtWork
  <2>5. \A i \in Job : package'[i] = IF i = j THEN [proposed |-> third, record |-> record[j]]
                                              ELSE package[i]
    BY <2>1 DEF TypeOK
  <2>6. \A i \in Job : JobOk(i)'
    <3>1. JobOk(j)'
      BY <2>2 DEF JobOk, Round, TypeOK
    <3>2. ASSUME NEW i \in Job \ {j} PROVE JobOk(i)'
      BY <2>2, <2>5 DEF LaunchInv, JobOk, Forget, TypeOK, history
    <3> QED BY <3>1, <3>2
  <2>7. \A i \in Job : PackageOk(i)'
    <3>1. PackageOk(j)'
      BY <2>2, <2>3, <2>4, <2>5 DEF PackageOk, AtWork, Active, history
    <3>2. ASSUME NEW i \in Job \ {j} PROVE PackageOk(i)'
      BY <2>2, <2>5 DEF LaunchInv, PackageOk, AtWork, Active, history
    <3> QED BY <3>1, <3>2
  <2>8. ASSUME NEW c \in Command PROVE CommandOk(c)'
    <3>1. CommandOk(c)
      BY DEF LaunchInv
    <3>2. Active(c) => /\ command[c].package \in Job
                       /\ package'[command[c].package] = package[command[c].package]
      BY <2>4, <2>5, CommandKind DEF AtWork, Active, RunState, AbandonState
    <3> QED BY <2>2, <3>1, <3>2 DEF CommandOk, Active, WasLaunched, history
  <2>9. ExecutedWasLaunched'
    <3>1. \A e \in record[j] : <<j, e[1]>> \in launched
      BY <2>3, SettledType DEF TypeOK
    <3> QED BY <2>2, <2>5, <3>1 DEF LaunchInv, ExecutedWasLaunched, history
  <2>10. PaidOnce'
    BY <2>2 DEF LaunchInv, PaidOnce, history
  <2> QED BY <2>6, <2>7, <2>8, <2>9, <2>10 DEF LaunchInv
<1>9. CASE Book(j)
  <2>1. JobOk(j)'
    BY <1>0, <1>9 DEF Book, JobOk, Goto, TypeOK, Round, history
  <2> QED BY <1>9, <2>1, QuietJob DEF Book, Goto, TypeOK
<1>10. CASE Crash(j)
  <2>1. phase'[j] = "DEAD" /\ UNCHANGED <<package, command, history>>
    BY <1>10 DEF Crash, Goto, TypeOK
  <2>2. JobOk(j)'
    BY <2>1 DEF JobOk, Round
  <2> QED BY <1>10, <2>1, <2>2, QuietJob DEF Crash, Goto, Forget, TypeOK
<1>11. ASSUME NEW q \in Query, LaunchSearch(j, q) PROVE LaunchInv'
  <2>1. /\ phase[j] \in Round /\ q \in todo[j]
        /\ todo' = [todo EXCEPT ![j] = @ \ {q}]
        /\ Pay(j, q, FALSE)
        /\ UNCHANGED <<phase, plan, record, package, command, troubled>>
    BY <1>11 DEF LaunchSearch, LaunchSearchUncapped
  <2>2. <<j, q>> \notin launched /\ package[j] = NoPackage /\ todo[j] \subseteq plan[j]
    BY <1>0, <2>1 DEF JobOk, Round
  <2>3. launched' = launched \cup {<<j, q>>} /\ repaid' = repaid
    BY <2>1, <2>2 DEF Pay
  <2>4. \A i \in Job : todo'[i] = IF i = j THEN todo[j] \ {q} ELSE todo[i]
    BY <2>1 DEF TypeOK
  <2>5. \A i \in Job : JobOk(i)'
    <3>1. JobOk(j)'
      BY <1>0, <2>1, <2>2, <2>3, <2>4 DEF JobOk, Round
    <3>2. ASSUME NEW i \in Job \ {j} PROVE JobOk(i)'
      BY <2>1, <2>3, <2>4 DEF LaunchInv, JobOk
    <3> QED BY <3>1, <3>2
  <2>6. ASSUME NEW i \in Job PROVE PackageOk(i)'
    BY <2>1, <2>2, <2>3 DEF LaunchInv, PackageOk, AtWork, Active
  <2>7. ASSUME NEW c \in Command PROVE CommandOk(c)'
    BY <2>1, <2>3 DEF LaunchInv, CommandOk, Active, WasLaunched
  <2>8. ExecutedWasLaunched' /\ PaidOnce'
    BY <2>1, <2>3 DEF LaunchInv, ExecutedWasLaunched, PaidOnce
  <2> QED BY <2>5, <2>6, <2>7, <2>8 DEF LaunchInv
<1> QED BY <1>1, <1>2, <1>3, <1>4, <1>5, <1>6, <1>7, <1>8, <1>9, <1>10, <1>11
        DEF JobStep

\* What a step of command c leaves of the other commands.
LEMMA OtherCommands ==
  ASSUME TypeInv, NEW c \in Command, NEW state, Become(c, state),
         launched \subseteq launched',
         \A i \in Job : package[i] # NoPackage =>
                            package'[i].proposed = package[i].proposed
  PROVE  /\ command'[c] = state
         /\ \A d \in Command \ {c} : command'[d] = command[d] /\ Active(d)' = Active(d)
         /\ LaunchInv => \A d \in Command \ {c} : CommandOk(d)'
<1>1. command'[c] = state /\ \A d \in Command \ {c} : command'[d] = command[d]
  BY DEF TypeInv, TypeOK, Become
<1>2. \A d \in Command \ {c} : Active(d)' = Active(d)
  BY <1>1 DEF Active
<1>3. ASSUME LaunchInv, NEW d \in Command \ {c} PROVE CommandOk(d)'
  <2>1. CommandOk(d) /\ command'[d] = command[d] /\ Active(d)' = Active(d)
    BY <1>1, <1>2, <1>3 DEF LaunchInv
  <2>2. CASE Active(d)
    <3>1. command[d].package \in Job /\ package[command[d].package] # NoPackage
      BY <2>2, CommandKind DEF TypeInv, Targets, Active, RunState, AbandonState
    <3>2. package'[command[d].package].proposed = package[command[d].package].proposed
      BY <3>1
    <3> QED BY <2>1, <2>2, <3>2 DEF CommandOk, WasLaunched
  <2>3. CASE ~Active(d)
    BY <2>1, <2>3 DEF CommandOk, Active
  <2> QED BY <2>2, <2>3
<1> QED BY <1>1, <1>2, <1>3

\* A command that reads a package.
LEMMA ReadLaunchStep ==
  ASSUME TypeInv, LaunchInv, NEW c \in Command, NEW p \in Job, NEW state,
         Idle(c), package[p] # NoPackage, Become(c, state), Trouble(c, p),
         state.package = p, state.seen = package[p].record,
         state.step \in {"RUN", "ABANDON"},
         CommandOk(c)', UNCHANGED <<jobVars, package, launched, repaid>>
  PROVE  LaunchInv'
<1>1. /\ command'[c] = state
      /\ \A d \in Command \ {c} : command'[d] = command[d] /\ Active(d)' = Active(d)
      /\ \A d \in Command \ {c} : CommandOk(d)'
  BY OtherCommands
<1>2. ~Active(c) /\ Active(c)'
  BY <1>1, CommandKind DEF Active, TypeInv
<1>3. \A i \in Job : JobOk(i)'
  BY DEF LaunchInv, JobOk, jobVars
<1>4. ASSUME NEW i \in Job PROVE PackageOk(i)'
  <2>1. CASE i = p
    <3> SUFFICES ASSUME p \notin troubled' PROVE PackageOk(p)'
      BY <2>1 DEF PackageOk
    <3>1. p \notin troubled /\ \A d \in Command \ {c} : ~AtWork(d, p)
      BY DEF Trouble, AtWork
    <3>2. \A d \in Command : AtWork(d, p)' => d = c
      BY <1>1, <3>1 DEF AtWork
    <3>3. \A d \in Command : ~AtWork(d, p)
      BY <1>2, <3>1 DEF AtWork
    <3>4. \A q \in Query : <<p, q>> \in launched => q \in Settled(package[p].record)
      BY <3>1, <3>3 DEF LaunchInv, PackageOk
    <3> QED BY <1>1, <3>2, <3>4 DEF PackageOk
  <2>2. CASE i # p
    <3>1. \A d \in Command : AtWork(d, i)' = AtWork(d, i)
      BY <1>1, <1>2, <2>2 DEF AtWork
    <3>2. \A d \in Command : AtWork(d, i) => command'[d] = command[d]
      BY <1>1, <1>2 DEF AtWork
    <3>3. i \in troubled => i \in troubled'
      BY DEF Trouble
    <3> QED BY <3>1, <3>2, <3>3 DEF LaunchInv, PackageOk
  <2> QED BY <2>1, <2>2
<1>5. ExecutedWasLaunched' /\ PaidOnce'
  BY DEF LaunchInv, ExecutedWasLaunched, PaidOnce, Trouble
<1> QED BY <1>1, <1>3, <1>4, <1>5 DEF LaunchInv

\* A command that writes a record back and ends.
LEMMA WriteLaunchStep ==
  ASSUME TypeInv, LaunchInv, NEW c \in Command, Active(c),
         NEW entries \in SUBSET Entry, Write(c, entries),
         WasLaunched(command[c].package, entries),
         command[c].step = "RUN" => command[c].pending \subseteq Settled(entries)
  PROVE  LaunchInv'
<1> DEFINE p == command[c].package
<1>1. /\ p \in Job /\ package[p] \in Package
      /\ \A i \in Job : package'[i] =
               IF i = p THEN [package[i] EXCEPT !.record = command[c].seen \cup entries]
                        ELSE package[i]
  BY WriteType
<1>2. /\ package'[p].record = command[c].seen \cup entries
      /\ package'[p].proposed = package[p].proposed
      /\ \A i \in Job \ {p} : package'[i] = package[i]
      /\ package[p] # NoPackage
  BY <1>1, NoneAssumption DEF Package
<1>3. Become(c, [step |-> "DONE"]) /\ UNCHANGED <<jobVars, history>>
  BY DEF Write
<1>4. /\ command'[c] = [step |-> "DONE"]
      /\ \A d \in Command \ {c} : command'[d] = command[d] /\ Active(d)' = Active(d)
      /\ \A d \in Command \ {c} : CommandOk(d)'
  BY <1>2, <1>3, OtherCommands DEF history
<1>5. ~Active(c)' /\ CommandOk(c)'
  BY <1>4 DEF Active, CommandOk
<1>6. ASSUME NEW i \in Job PROVE JobOk(i)'
  BY <1>2, <1>3 DEF LaunchInv, JobOk, jobVars, history
<1>7. ASSUME NEW i \in Job PROVE PackageOk(i)'
  <2>1. \A d \in Command : AtWork(d, i)' => d # c /\ AtWork(d, i)
    BY <1>4, <1>5 DEF AtWork
  <2>2. CASE i = p
    <3> SUFFICES ASSUME i \notin troubled PROVE PackageOk(i)'
      BY <1>3 DEF PackageOk, history
    <3>1. AtWork(c, i) /\ PackageOk(i)
      BY <2>2 DEF AtWork, LaunchInv
    <3>2. /\ \A d \in Command : AtWork(d, i) => d = c
          /\ command[c].seen = package[i].record
          /\ \A q \in Query : <<i, q>> \in launched =>
                \/ q \in Settled(package[i].record)
                \/ command[c].step = "RUN" /\ q \in command[c].pending
      BY <1>2, <2>2, <3>1 DEF PackageOk
    <3>3. \A d \in Command : ~AtWork(d, i)'
      BY <2>1, <3>2
    <3>4. Settled(package'[i].record) = Settled(command[c].seen) \cup Settled(entries)
      BY <1>2, <2>2, SettledUnion
    <3>5. \A q \in Query : <<i, q>> \in launched => q \in Settled(package'[i].record)
      BY <3>2, <3>4
    <3> QED BY <1>3, <3>3, <3>5 DEF PackageOk, history
  <2>3. CASE i # p
    <3>1. \A d \in Command : AtWork(d, i) => d # c
      BY <2>3 DEF AtWork
    <3>2. \A d \in Command : AtWork(d, i)' = AtWork(d, i)
      BY <1>4, <2>1, <3>1 DEF AtWork
    <3>3. package'[i] = package[i] /\ PackageOk(i)
      BY <1>2, <2>3 DEF LaunchInv
    <3> QED BY <1>3, <1>4, <3>1, <3>2, <3>3 DEF PackageOk, history
  <2> QED BY <2>2, <2>3
<1>8. ExecutedWasLaunched'
  <2>1. WasLaunched(p, command[c].seen)
    BY DEF LaunchInv, CommandOk
  <2>2. \A e \in package'[p].record : e[2] = "EXECUTED" => <<p, e[1]>> \in launched
    BY <1>2, <2>1 DEF WasLaunched
  <2> QED BY <1>2, <1>3, <2>2 DEF LaunchInv, ExecutedWasLaunched, history
<1>9. PaidOnce'
  BY <1>3 DEF LaunchInv, PaidOnce, history
<1> QED BY <1>4, <1>5, <1>6, <1>7, <1>8, <1>9 DEF LaunchInv

LEMMA RunLaunchStep ==
  ASSUME TypeInv, LaunchInv, NEW c \in Command, NEW q \in Query, RunLaunch(c, q)
  PROVE  LaunchInv'
<1> DEFINE state == [command[c] EXCEPT !.todo = @ \ {q}]
<1>1. PICK p \in Job : command[c].package = p
  BY CommandKind DEF RunLaunch, RunState, TypeInv
<1>2. /\ command[c] \in RunState /\ Active(c) /\ AtWork(c, p) /\ q \in command[c].todo
      /\ package[p] # NoPackage
  BY <1>1, CommandKind DEF RunLaunch, TypeInv, Active, Targets, AtWork
<1>3. /\ state.step = "RUN" /\ state.package = p /\ state.again = command[c].again
      /\ state.pending = command[c].pending /\ state.seen = command[c].seen
      /\ state.todo = command[c].todo \ {q}
  BY <1>1, <1>2 DEF RunState
<1>4. /\ Become(c, state) /\ Pay(p, q, command[c].again)
      /\ UNCHANGED <<jobVars, package, troubled>>
  BY <1>1 DEF RunLaunch
<1> HIDE DEF state
<1>5. launched' = launched \cup {<<p, q>>}
  BY <1>4 DEF Pay
<1>6. /\ command'[c] = state
      /\ \A d \in Command \ {c} : command'[d] = command[d] /\ Active(d)' = Active(d)
      /\ \A d \in Command \ {c} : CommandOk(d)'
  BY <1>4, <1>5, OtherCommands
<1>7. Active(c)' /\ \A d \in Command, i \in Job : AtWork(d, i)' = AtWork(d, i)
  BY <1>1, <1>2, <1>3, <1>6 DEF AtWork, Active
<1>8. CommandOk(c)'
  <2>1. CommandOk(c)
    BY DEF LaunchInv
  <2>2. WasLaunched(p, command[c].seen)
        /\ \A r \in command[c].pending \ command[c].todo : <<p, r>> \in launched
    BY <1>1, <1>2, <2>1 DEF CommandOk, RunState
  <2> QED BY <1>1, <1>2, <1>3, <1>4, <1>5, <1>6, <2>1, <2>2
          DEF CommandOk, WasLaunched, RunState
<1>9. ASSUME NEW i \in Job PROVE JobOk(i)'
  BY <1>2, <1>4, <1>5 DEF LaunchInv, JobOk, jobVars, Round
<1>10. ASSUME NEW i \in Job PROVE PackageOk(i)'
  <2>1. PackageOk(i) /\ package' = package /\ troubled' = troubled
    BY <1>4 DEF LaunchInv
  <2>2. \A d \in Command : /\ command'[d].seen = command[d].seen
                            /\ command'[d].step = command[d].step
    BY <1>2, <1>3, <1>6 DEF RunState
  <2>3. ASSUME package[i] # NoPackage, i \notin troubled, NEW r \in Query,
               <<i, r>> \in launched'
        PROVE  \/ r \in Settled(package[i].record)
               \/ \E d \in Command :
                     /\ AtWork(d, i) /\ command'[d].step = "RUN"
                     /\ r \in command'[d].pending \ command'[d].todo
    <3>1. CASE i = p /\ r = q
      <4>1. q \in command[c].pending
        BY <1>2 DEF LaunchInv, CommandOk, RunState
      <4> QED BY <1>2, <1>3, <1>6, <3>1, <4>1
    <3>2. CASE ~(i = p /\ r = q)
      <4>1. <<i, r>> \in launched
        BY <1>5, <2>3, <3>2
      <4> QED BY <1>3, <1>6, <2>1, <2>2, <2>3, <4>1 DEF PackageOk
    <3> QED BY <3>1, <3>2
  <2> QED BY <1>7, <2>1, <2>2, <2>3 DEF PackageOk
<1>11. ExecutedWasLaunched'
  BY <1>4, <1>5 DEF LaunchInv, ExecutedWasLaunched
<1>12. PaidOnce'
  <2>1. CASE repaid' = repaid
    BY <1>4, <2>1 DEF LaunchInv, PaidOnce
  <2>2. CASE repaid' # repaid
    <3>1. <<p, q>> \in launched /\ ~command[c].again /\ repaid' = repaid \cup {<<p, q>>}
      BY <1>4, <2>2 DEF Pay
    <3>2. q \in command[c].pending /\ q \notin Settled(command[c].seen)
      BY <1>2, <3>1 DEF LaunchInv, CommandOk, RunState
    <3>3. p \in troubled
      <4> SUFFICES ASSUME p \notin troubled PROVE FALSE
        OBVIOUS
      <4>1. /\ \A d \in Command : AtWork(d, p) => d = c
            /\ command[c].seen = package[p].record
            /\ \/ q \in Settled(package[p].record)
               \/ \E d \in Command :
                     /\ AtWork(d, p) /\ command[d].step = "RUN"
                     /\ q \in command[d].pending \ command[d].todo
        BY <1>2, <3>1 DEF LaunchInv, PackageOk
      <4> QED BY <1>2, <3>2, <4>1
    <3> QED BY <1>4, <3>1, <3>3 DEF LaunchInv, PaidOnce
  <2> QED BY <2>1, <2>2
<1> QED BY <1>6, <1>8, <1>9, <1>10, <1>11, <1>12 DEF LaunchInv

LEMMA CrashLaunchStep ==
  ASSUME TypeInv, LaunchInv, NEW c \in Command, CommandCrash(c)
  PROVE  LaunchInv'
<1> DEFINE state == [step |-> "DEAD"]
<1>1. /\ Active(c) /\ Become(c, state)
      /\ troubled \subseteq troubled'
      /\ command[c].step = "RUN" => command[c].package \in troubled'
      /\ UNCHANGED <<jobVars, package, launched, repaid>>
  BY DEF CommandCrash
<1>2. /\ command'[c] = state
      /\ \A d \in Command \ {c} : command'[d] = command[d] /\ Active(d)' = Active(d)
      /\ \A d \in Command \ {c} : CommandOk(d)'
  BY <1>1, OtherCommands
<1>3. ~Active(c)' /\ CommandOk(c)'
  BY <1>2 DEF Active, CommandOk
<1>4. ASSUME NEW i \in Job PROVE JobOk(i)'
  BY <1>1 DEF LaunchInv, JobOk, jobVars
<1>5. ASSUME NEW i \in Job PROVE PackageOk(i)'
  <2> SUFFICES ASSUME package[i] # NoPackage, i \notin troubled'
               PROVE  PackageOk(i)'
    BY <1>1 DEF PackageOk
  <2>1. PackageOk(i) /\ i \notin troubled /\ (AtWork(c, i) => command[c].step # "RUN")
    BY <1>1 DEF LaunchInv, AtWork
  <2>2. \A d \in Command : AtWork(d, i)' => d # c /\ AtWork(d, i)
    BY <1>2, <1>3 DEF AtWork
  <2>3. \A d \in Command \ {c} : AtWork(d, i)' = AtWork(d, i)
    BY <1>2 DEF AtWork
  <2> QED BY <1>1, <1>2, <2>1, <2>2, <2>3 DEF PackageOk
<1>6. ExecutedWasLaunched' /\ PaidOnce'
  BY <1>1 DEF LaunchInv, ExecutedWasLaunched, PaidOnce
<1> QED BY <1>2, <1>3, <1>4, <1>5, <1>6 DEF LaunchInv

LEMMA CommandLaunchStep ==
  ASSUME TypeInv, LaunchInv, NEW c \in Command, CommandStep(c)
  PROVE  LaunchInv'
<1>1. ASSUME NEW p \in Job, NEW all \in BOOLEAN, RunRead(c, p, all) PROVE LaunchInv'
  <2> DEFINE state == [step |-> "RUN", package |-> p, again |-> all,
                       pending |-> Chosen(p, all), todo |-> Chosen(p, all),
                       seen |-> package[p].record]
  <2>1. /\ Idle(c) /\ package[p] # NoPackage /\ Become(c, state) /\ Trouble(c, p)
        /\ UNCHANGED <<jobVars, package, launched, repaid>>
    BY <1>1 DEF RunRead
  <2>2. /\ state.step = "RUN" /\ state.package = p /\ state.again = all
        /\ state.pending = Chosen(p, all) /\ state.todo = Chosen(p, all)
        /\ state.seen = package[p].record
    OBVIOUS
  <2> HIDE DEF state
  <2>3. command'[c] = state
    BY <2>1 DEF Become, TypeInv, TypeOK
  <2>4. WasLaunched(p, package[p].record)
    BY <2>1 DEF LaunchInv, ExecutedWasLaunched, WasLaunched
  <2>5. /\ package[p].proposed \subseteq Chosen(p, all) \cup Settled(package[p].record)
        /\ ~all => Chosen(p, all) \cap Settled(package[p].record) = {}
    BY DEF Chosen, Unresolved
  <2>6. CommandOk(c)'
    BY <2>1, <2>2, <2>3, <2>4, <2>5 DEF CommandOk, WasLaunched
  <2> QED BY <2>1, <2>2, <2>6, ReadLaunchStep
<1>2. ASSUME NEW p \in Job, NEW q \in Query, AbandonRead(c, p, q) PROVE LaunchInv'
  <2> DEFINE state == [step |-> "ABANDON", package |-> p, search |-> q,
                       seen |-> package[p].record]
  <2>1. /\ Idle(c) /\ package[p] # NoPackage /\ Become(c, state) /\ Trouble(c, p)
        /\ UNCHANGED <<jobVars, package, launched, repaid>>
    BY <1>2 DEF AbandonRead
  <2>2. state.step = "ABANDON" /\ state.package = p /\ state.seen = package[p].record
    OBVIOUS
  <2> HIDE DEF state
  <2>3. command'[c] = state
    BY <2>1 DEF Become, TypeInv, TypeOK
  <2>4. WasLaunched(p, package[p].record)
    BY <2>1 DEF LaunchInv, ExecutedWasLaunched, WasLaunched
  <2>5. CommandOk(c)'
    BY <2>1, <2>2, <2>3, <2>4 DEF CommandOk, WasLaunched
  <2> QED BY <2>1, <2>2, <2>5, ReadLaunchStep
<1>3. CASE RunCommit(c)
  <2>1. command[c] \in RunState /\ Active(c) /\ CommandOk(c) /\ command[c].todo = {}
    BY <1>3, CommandKind DEF RunCommit, Active, TypeInv, LaunchInv
  <2>2. /\ Executed(command[c].pending) \in SUBSET Entry
        /\ \A e \in Executed(command[c].pending) : e[1] \in command[c].pending
        /\ Settled(Executed(command[c].pending)) = command[c].pending
    BY <2>1, ExecutedType DEF RunState
  <2>3. WasLaunched(command[c].package, Executed(command[c].pending))
    BY <1>3, <2>1, <2>2 DEF WasLaunched, CommandOk, RunCommit
  <2> QED BY <1>3, <2>1, <2>2, <2>3, WriteLaunchStep DEF RunCommit
<1>4. CASE AbandonCommit(c)
  <2>1. command[c] \in AbandonState /\ Active(c) /\ command[c].step # "RUN"
    BY <1>4, CommandKind DEF AbandonCommit, Active, TypeInv
  <2>2. {<<command[c].search, "ABANDONED">>} \in SUBSET Entry
    BY <2>1 DEF AbandonState, Entry, Status
  <2>3. WasLaunched(command[c].package, {<<command[c].search, "ABANDONED">>})
    BY DEF WasLaunched
  <2> QED BY <1>4, <2>1, <2>2, <2>3, WriteLaunchStep DEF AbandonCommit
<1> QED BY <1>1, <1>2, <1>3, <1>4, RunLaunchStep, CrashLaunchStep DEF CommandStep

LEMMA LaunchStep == TypeInv /\ LaunchInv /\ [Next]_vars => LaunchInv'
<1> SUFFICES ASSUME TypeInv, LaunchInv, [Next]_vars PROVE LaunchInv'
  OBVIOUS
<1>1. CASE UNCHANGED vars
  <2>1. \A j \in Job : JobOk(j)' /\ PackageOk(j)'
    BY <1>1 DEF vars, jobVars, history, LaunchInv, JobOk, PackageOk, AtWork, Active
  <2>2. \A c \in Command : CommandOk(c)'
    BY <1>1 DEF vars, jobVars, history, LaunchInv, CommandOk, WasLaunched, Active
  <2>3. ExecutedWasLaunched' /\ PaidOnce'
    BY <1>1 DEF vars, history, LaunchInv, ExecutedWasLaunched, PaidOnce
  <2> QED BY <2>1, <2>2, <2>3 DEF LaunchInv
<1> QED BY <1>1, JobLaunchStep, CommandLaunchStep DEF Next

LEMMA LaunchAlways == Spec => [](TypeInv /\ LaunchInv)
BY TypeInit, LaunchInit, TypeStep, LaunchStep, PTL DEF Spec

\* No search is paid for twice on a package, unless an operator asked for it again,
\* two commands overlapped there or a run died.
THEOREM NeverPaidTwice == Spec => []PaidOnce
<1>1. LaunchInv => PaidOnce
  BY DEF LaunchInv
<1> QED BY <1>1, LaunchAlways, PTL

\* What the record of a package calls executed was launched for it, whatever
\* commands overlapped or died.
THEOREM RecordIsHonest == Spec => []ExecutedWasLaunched
<1>1. LaunchInv => ExecutedWasLaunched
  BY DEF LaunchInv
<1> QED BY <1>1, LaunchAlways, PTL

LEMMA SettlesStep ==
  ASSUME TypeInv, LaunchInv, [Next]_vars, NEW c \in Command,
         command[c].step = "RUN", command'[c].step = "DONE"
  PROVE  LET p == package'[command[c].package] IN Unresolved(p.proposed, p.record) = {}
<1>1. command' # command
  OBVIOUS
<1>2. PICK d \in Command : CommandStep(d)
  <2>1. ASSUME NEW j \in Job, JobStep(j) PROVE command' = command
    BY <2>1 DEF JobStep, Serp, Research, KeepResearch, FirstPlan, Refused, SecondPlan,
       EndRounds, EndRound, Seal, SealWith, Book, Crash, LaunchSearch,
       LaunchSearchUncapped
  <2>2. CASE UNCHANGED vars
    BY <1>1, <2>2 DEF vars
  <2> QED BY <1>1, <2>1, <2>2 DEF Next
<1>3. ASSUME NEW state, Become(d, state) PROVE d = c /\ command'[c] = state
  <2>1. command' = [command EXCEPT ![d] = state]
    BY <1>3 DEF Become
  <2> QED BY <2>1 DEF TypeInv, TypeOK
<1>4. RunCommit(c)
  <2>1. ASSUME NEW p \in Job, NEW all \in BOOLEAN, RunRead(d, p, all) PROVE FALSE
    <3>1. Idle(d) /\ d = c
      BY <2>1, <1>3 DEF RunRead
    <3> QED BY <3>1 DEF Idle, IdleCommand
  <2>2. ASSUME NEW p \in Job, NEW q \in Query, AbandonRead(d, p, q) PROVE FALSE
    <3>1. Idle(d) /\ d = c
      BY <2>2, <1>3 DEF AbandonRead
    <3> QED BY <3>1 DEF Idle, IdleCommand
  <2>3. ASSUME NEW q \in Query, RunLaunch(d, q) PROVE FALSE
    <3>1. d = c /\ command'[c] = [command[d] EXCEPT !.todo = @ \ {q}]
      BY <2>3, <1>3 DEF RunLaunch
    <3> QED BY <3>1, CommandKind DEF RunState, TypeInv
  <2>4. ASSUME AbandonCommit(d) PROVE FALSE
    BY <2>4, <1>3 DEF AbandonCommit, Write
  <2>5. ASSUME CommandCrash(d) PROVE FALSE
    BY <2>5, <1>3 DEF CommandCrash
  <2>6. RunCommit(d) => d = c
    BY <1>3 DEF RunCommit, Write
  <2> QED BY <1>2, <2>1, <2>2, <2>3, <2>4, <2>5, <2>6 DEF CommandStep
<1>5. command[c] \in RunState /\ Active(c) /\ CommandOk(c)
  BY CommandKind DEF Active, TypeInv, LaunchInv
<1>6. /\ Executed(command[c].pending) \in SUBSET Entry
      /\ Settled(Executed(command[c].pending)) = command[c].pending
  BY <1>5, ExecutedType DEF RunState
<1> DEFINE pk == command[c].package
<1>7. /\ pk \in Job /\ package[pk] \in Package
      /\ package'[pk] = [package[pk] EXCEPT !.record =
                            command[c].seen \cup Executed(command[c].pending)]
  BY <1>4, <1>5, <1>6, WriteType DEF RunCommit
<1>8. /\ package'[pk].proposed = package[pk].proposed
      /\ Settled(package'[pk].record) = Settled(command[c].seen) \cup command[c].pending
  BY <1>6, <1>7, SettledUnion DEF Package
<1>9. package[pk].proposed \subseteq command[c].pending \cup Settled(command[c].seen)
  BY <1>5 DEF CommandOk
<1> QED BY <1>8, <1>9 DEF Unresolved

\* When a run of the owed searches commits, nothing is owed any more.
THEOREM RunsSettle == Spec => RunSettles
<1>1. TypeInv /\ LaunchInv /\ [Next]_vars =>
        [\A c \in Command :
           command[c].step = "RUN" /\ command'[c].step = "DONE"
           => LET p == package'[command[c].package] IN
              Unresolved(p.proposed, p.record) = {}]_vars
  BY SettlesStep
<1> QED BY <1>1, LaunchAlways, PTL DEF Spec, RunSettles

LEMMA PackageSteps ==
  ASSUME [Next]_vars
  PROVE  \/ UNCHANGED package
         \/ \E j \in Job : Seal(j)
         \/ \E c \in Command : RunCommit(c) \/ AbandonCommit(c)
<1>1. ASSUME NEW j \in Job, JobStep(j) PROVE Seal(j) \/ UNCHANGED package
  BY <1>1 DEF JobStep, Serp, Research, KeepResearch, FirstPlan, Refused,
       SecondPlan, EndRounds, EndRound, Book, Crash, LaunchSearch,
       LaunchSearchUncapped
<1>2. ASSUME NEW c \in Command, CommandStep(c)
      PROVE  RunCommit(c) \/ AbandonCommit(c) \/ UNCHANGED package
  BY <1>2 DEF CommandStep, RunRead, RunLaunch, AbandonRead, CommandCrash
<1> QED BY <1>1, <1>2 DEF Next, vars

LEMMA RecordStep ==
  ASSUME TypeInv, LaunchInv, [Next]_vars, NEW p \in Job,
         package[p] # NoPackage, p \notin troubled
  PROVE  package[p].record \subseteq package'[p].record
<1>1. ASSUME NEW j \in Job, Seal(j)
      PROVE  package[p].record \subseteq package'[p].record
  <2>1. j # p
    BY <1>1 DEF Seal, SealWith, LaunchInv, JobOk
  <2> QED BY <1>1, <2>1 DEF Seal, SealWith, TypeInv, TypeOK
<1>2. ASSUME NEW c \in Command, Active(c), NEW entries \in SUBSET Entry,
             Write(c, entries)
      PROVE  package[p].record \subseteq package'[p].record
  <2>1. package'[p] = IF p = command[c].package
               THEN [package[p] EXCEPT !.record = command[c].seen \cup entries]
               ELSE package[p]
    BY <1>2, WriteType
  <2>2. CASE p = command[c].package
    <3>1. command[c].seen = package[p].record
      BY <1>2, <2>2 DEF LaunchInv, PackageOk, AtWork
    <3>2. package[p] \in Package
      BY DEF TypeInv, TypeOK
    <3> QED BY <2>1, <2>2, <3>1, <3>2 DEF Package
  <2>3. CASE p # command[c].package
    BY <2>1, <2>3
  <2> QED BY <2>2, <2>3
<1>3. ASSUME NEW c \in Command, RunCommit(c)
      PROVE  package[p].record \subseteq package'[p].record
  <2>1. command[c] \in RunState /\ Active(c)
    BY <1>3, CommandKind DEF RunCommit, Active, TypeInv
  <2>2. Executed(command[c].pending) \in SUBSET Entry
    BY <2>1, ExecutedType DEF RunState
  <2> QED BY <1>2, <1>3, <2>1, <2>2 DEF RunCommit
<1>4. ASSUME NEW c \in Command, AbandonCommit(c)
      PROVE  package[p].record \subseteq package'[p].record
  <2>1. command[c] \in AbandonState /\ Active(c)
    BY <1>4, CommandKind DEF AbandonCommit, Active, TypeInv
  <2>2. {<<command[c].search, "ABANDONED">>} \in SUBSET Entry
    BY <2>1 DEF AbandonState, Entry, Status
  <2> QED BY <1>2, <1>4, <2>1, <2>2 DEF AbandonCommit
<1> QED BY <1>1, <1>3, <1>4, PackageSteps

\* While no two commands overlapped on a package and no run died there, no entry of
\* its record is ever lost.
THEOREM RecordsGrow ==
  Spec => [][\A p \in Job : package[p] # NoPackage /\ p \notin troubled
               => package[p].record \subseteq package'[p].record]_vars
<1>1. TypeInv /\ LaunchInv /\ [Next]_vars =>
        [\A p \in Job : package[p] # NoPackage /\ p \notin troubled
           => package[p].record \subseteq package'[p].record]_vars
  BY RecordStep
<1> QED BY <1>1, LaunchAlways, PTL DEF Spec

-----------------------------------------------------------------------------
(* Usage                                                                   *)

LEMMA BookedStep ==
  TypeInv /\ LaunchInv /\ DeliveredIsBooked /\ [Next]_vars => DeliveredIsBooked'
<1> SUFFICES ASSUME TypeInv, LaunchInv, DeliveredIsBooked, [Next]_vars
             PROVE  DeliveredIsBooked'
  OBVIOUS
<1> USE DEF TypeInv
<1>1. CASE UNCHANGED vars
  BY <1>1 DEF vars, jobVars, DeliveredIsBooked
<1>2. ASSUME NEW j \in Job, JobStep(j) PROVE DeliveredIsBooked'
  <2>1. \A i \in Job \ {j} : /\ phase'[i] = phase[i] /\ unbooked'[i] = unbooked[i]
                             /\ package'[i] = package[i]
    BY <1>2 DEF JobStep, Serp, Research, KeepResearch, FirstPlan, Refused, SecondPlan,
       EndRounds, EndRound, Seal, SealWith, Book, Crash, LaunchSearch,
       LaunchSearchUncapped, Persist, Goto, Collect, TypeOK
  <2>2. phase'[j] = "DONE" =>
          \/ phase[j] \in {"IDLE", "RESEARCH"} /\ package'[j] = package[j]
          \/ ~unbooked'[j]
    <3>1. CASE Serp(j) \/ Research(j)
      BY <3>1 DEF Serp, Research
    <3>2. CASE Book(j)
      BY <3>2 DEF Book, TypeOK
    <3>3. CASE KeepResearch(j) \/ EndRounds(j) \/ SecondPlan(j)
      BY <3>3 DEF KeepResearch, EndRounds, SecondPlan, EndRound, Persist, Goto, TypeOK
    <3>4. CASE FirstPlan(j) \/ Refused(j) \/ Seal(j) \/ Crash(j)
      BY <3>4 DEF FirstPlan, Refused, Seal, SealWith, Crash, Goto, TypeOK
    <3>5. ASSUME NEW q \in Query, LaunchSearch(j, q) PROVE phase'[j] # "DONE"
      BY <3>5 DEF LaunchSearch, LaunchSearchUncapped, Round
    <3> QED BY <1>2, <3>1, <3>2, <3>3, <3>4, <3>5 DEF JobStep
  <2>3. JobOk(j)
    BY DEF LaunchInv
  <2> QED BY <2>1, <2>2, <2>3 DEF DeliveredIsBooked, JobOk
<1>3. ASSUME NEW c \in Command, CommandStep(c) PROVE DeliveredIsBooked'
  <2>1. UNCHANGED jobVars
    BY <1>3 DEF CommandStep, RunRead, AbandonRead, RunLaunch, RunCommit, AbandonCommit,
       Write, CommandCrash
  <2>2. package' = package \/ \E p \in Job : \E entries :
          package[p] # NoPackage /\ package' = [package EXCEPT ![p].record = entries]
    <3>1. Active(c) => command[c].package \in Job /\ package[command[c].package] # NoPackage
      BY CommandKind DEF Active, RunState, AbandonState, Targets
    <3> QED BY <1>3, <3>1 DEF CommandStep, RunRead, AbandonRead, RunLaunch, RunCommit,
       AbandonCommit, Write, CommandCrash, Active
  <2>3. \A p \in Job : package'[p] # NoPackage => package[p] # NoPackage
    BY <2>2 DEF TypeOK
  <2> QED BY <2>1, <2>3 DEF jobVars, DeliveredIsBooked
<1> QED BY <1>1, <1>2, <1>3 DEF Next

\* A job that ends with a package has booked all it used.
THEOREM DeliveredBooked == Spec => []DeliveredIsBooked
<1>1. Init => DeliveredIsBooked
  BY DEF Init, DeliveredIsBooked
<1> QED BY <1>1, LaunchAlways, BookedStep, PTL DEF Spec

-----------------------------------------------------------------------------
(* Why a job fails                                                         *)

\* The phases of a job that has not tried to commit results under key n.
Before(n) ==
    {"IDLE", "RESEARCH", "KEEPING"}
    \cup (IF n \in Provider THEN {} ELSE {"PLANNING", "ROUND1"})
    \cup (IF n = "official:round2" THEN {"ROUND2"} ELSE {})

\* Every committed key was committed by a job that holds the results and is past
\* the point; a job that failed ran into the results of another one.
Owned(k) ==
    \E i \in Job : CorrelationOf[i] = k[1] /\ k[2] \in got[i] /\ phase[i] \notin Before(k[2])

Blocked(j) ==
    \E i \in Job \ {j} : /\ CorrelationOf[i] = CorrelationOf[j] /\ got[i] # {}
                         /\ phase[i] \notin {"IDLE", "RESEARCH"}

CauseInv ==
    /\ \A k \in runs : Owned(k)
    /\ \A j \in Job : phase[j] = "FAILED" => Blocked(j)
    /\ \A j \in Job : phase[j] = "KEEPING" => got[j] \subseteq Provider

\* What a step of a job does to keys: it commits those of the names given and goes
\* on, or fails because one of them is there.
Commits(j, names) ==
    /\ names \subseteq got'[j]
    /\ \A n \in names : phase[j] \in Before(n) /\ phase'[j] \notin Before(n)
    /\ \/ runs' = runs \cup Keys(j, names) /\ phase'[j] # "FAILED"
       \/ runs' = runs /\ Keys(j, names) \cap runs # {}

Moves(j) ==
    /\ \A i \in Job \ {j} : phase'[i] = phase[i] /\ got'[i] = got[i]
    /\ \A n \in RunKey : phase[j] \notin Before(n) => phase'[j] \notin Before(n)
    /\ phase[j] \notin {"IDLE", "RESEARCH"} =>
          phase'[j] \notin {"IDLE", "RESEARCH"} /\ got[j] \subseteq got'[j]
    /\ phase'[j] = "KEEPING" => got'[j] \subseteq Provider
    /\ \E names \in SUBSET RunKey : Commits(j, names)

\* A step of a job that commits nothing.
LEMMA PlainMove ==
  ASSUME TypeOK, NEW j \in Job, runs' = runs, NEW next \in Phase \ {"FAILED", "KEEPING"},
         phase' = [phase EXCEPT ![j] = next], got[j] \subseteq got'[j],
         \A i \in Job \ {j} : got'[i] = got[i],
         next \notin {"IDLE", "RESEARCH"} \/ phase[j] = "IDLE",
         \A n \in RunKey : phase[j] \notin Before(n) => next \notin Before(n)
  PROVE  Moves(j)
<1>1. phase'[j] = next /\ \A i \in Job \ {j} : phase'[i] = phase[i]
  BY DEF TypeOK
<1>2. Commits(j, {})
  BY <1>1 DEF Commits, Keys
<1> QED BY <1>1, <1>2 DEF Moves

\* A step of a job that commits results.
LEMMA PersistMove ==
  ASSUME TypeOK, NEW j \in Job, NEW names \in SUBSET got[j],
         NEW next \in Phase \ {"FAILED", "KEEPING", "IDLE", "RESEARCH"},
         Persist(j, names, next), got' = got,
         \A n \in names : phase[j] \in Before(n) /\ next \notin Before(n),
         \A n \in RunKey : phase[j] \notin Before(n) => next \notin Before(n)
  PROVE  Moves(j)
<1>1. /\ phase'[j] \in {next, "FAILED"} /\ \A i \in Job \ {j} : phase'[i] = phase[i]
      /\ names \in SUBSET RunKey
  BY DEF TypeOK, Persist, Goto
<1>2. \A n \in RunKey : "FAILED" \notin Before(n)
  BY DEF Before
<1>3. Commits(j, names)
  BY <1>1, <1>2 DEF Persist, Goto, Commits, TypeOK
<1> QED BY <1>1, <1>2, <1>3 DEF Moves

LEMMA JobMoves ==
  ASSUME TypeOK, CauseInv, NEW j \in Job, JobStep(j)
  PROVE  Moves(j)
<1>1. CASE Serp(j)
  BY <1>1, PlainMove DEF Serp, Goto, Phase, Before
<1>2. CASE Research(j)
  <2>1. PICK answered \in SUBSET Provider :
          /\ got' = [got EXCEPT ![j] = answered]
          /\ Goto(j, IF answered = {} THEN "DONE" ELSE "KEEPING")
    BY <1>2 DEF Research
  <2>2. phase[j] = "RESEARCH" /\ runs' = runs
    BY <1>2 DEF Research
  <2>3. /\ phase'[j] \in {"DONE", "KEEPING"} /\ got'[j] \subseteq Provider
        /\ \A i \in Job \ {j} : phase'[i] = phase[i] /\ got'[i] = got[i]
    BY <2>1 DEF Goto, TypeOK
  <2>4. Commits(j, {})
    BY <2>2, <2>3 DEF Commits, Keys
  <2>5. \A n \in RunKey : phase[j] \in Before(n)
    BY <2>2 DEF Before
  <2> QED BY <2>2, <2>3, <2>4, <2>5 DEF Moves
<1>3. CASE KeepResearch(j)
  <2>1. Persist(j, got[j], "PLANNING") /\ got' = got /\ phase[j] = "KEEPING"
    BY <1>3 DEF KeepResearch
  <2>2. got[j] \subseteq Provider
    BY <2>1 DEF CauseInv
  <2>3. \A n \in Provider : phase[j] \in Before(n) /\ "PLANNING" \notin Before(n)
    BY <2>1 DEF Before, Provider
  <2>4. \A n \in RunKey : phase[j] \in Before(n)
    BY <2>1 DEF Before
  <2> QED BY <2>1, <2>2, <2>3, <2>4, PersistMove DEF Phase
<1>4. CASE FirstPlan(j)
  <2>1. PICK next \in {"PACKAGING", "ROUND1"} : phase' = [phase EXCEPT ![j] = next]
    BY <1>4 DEF FirstPlan, Goto
  <2>2. phase[j] = "PLANNING" /\ got' = got /\ runs' = runs
    BY <1>4 DEF FirstPlan
  <2>3. \A n \in RunKey : phase[j] \notin Before(n) => next \notin Before(n)
    BY <2>2 DEF Before
  <2> QED BY <2>1, <2>2, <2>3, PlainMove DEF Phase, Round
<1>5. CASE Refused(j)
  <2>1. \A n \in RunKey : "REFUSED" \notin Before(n)
    BY DEF Before
  <2> QED BY <1>5, <2>1, PlainMove DEF Refused, Goto, Phase
<1>6. ASSUME NEW next \in {"PACKAGING", "ROUND2"}, phase[j] = "ROUND1", EndRound(j, next)
      PROVE  Moves(j)
  <2>1. Persist(j, got[j] \cap {"official"}, next) /\ got' = got
    BY <1>6 DEF EndRound, RoundKey
  <2>2. phase[j] \in Before("official") /\ next \notin Before("official")
    BY <1>6 DEF Before, Provider
  <2>3. \A n \in RunKey : phase[j] \notin Before(n) => next \notin Before(n)
    BY <1>6 DEF Before, RunKey, Provider
  <2> DEFINE names == got[j] \cap {"official"}
  <2>4. /\ names \in SUBSET got[j]
        /\ next \in Phase \ {"FAILED", "KEEPING", "IDLE", "RESEARCH"}
    BY <1>6 DEF Phase, Round
  <2>5. \A n \in names : phase[j] \in Before(n) /\ next \notin Before(n)
    BY <2>2
  <2> HIDE DEF names
  <2>6. Persist(j, names, next)
    BY <2>1 DEF names
  <2> QED BY <2>1, <2>3, <2>4, <2>5, <2>6, PersistMove
<1>7. CASE SecondPlan(j)
  BY <1>6, <1>7 DEF SecondPlan
<1>8. CASE EndRounds(j)
  <2>1. /\ phase[j] = "ROUND2" /\ got' = got
        /\ Persist(j, got[j] \cap {"official:round2"}, "PACKAGING")
    BY <1>8 DEF EndRounds, EndRound, RoundKey
  <2>2. phase[j] \in Before("official:round2")
    BY <2>1 DEF Before
  <2>3. \A n \in RunKey : "PACKAGING" \notin Before(n)
    BY DEF Before
  <2>4. "official:round2" \in RunKey
    BY DEF RunKey
  <2> QED BY <2>1, <2>2, <2>3, <2>4, PersistMove DEF Phase
<1>9. CASE Seal(j) \/ Book(j) \/ Crash(j)
  <2>1. PICK next \in {"BOOKING", "DONE", "DEAD"} : phase' = [phase EXCEPT ![j] = next]
    BY <1>9 DEF Seal, SealWith, Book, Crash, Goto
  <2>2. got' = got /\ runs' = runs
    BY <1>9 DEF Seal, SealWith, Book, Crash
  <2>3. \A n \in RunKey : next \notin Before(n)
    BY DEF Before
  <2> QED BY <2>1, <2>2, <2>3, PlainMove DEF Phase
<1>10. ASSUME NEW q \in Query, LaunchSearch(j, q) PROVE Moves(j)
  <2>1. /\ phase[j] \in Round /\ phase' = phase /\ runs' = runs
        /\ got' = got \/ got' = [got EXCEPT ![j] = @ \cup {RoundKey(phase[j])}]
    BY <1>10 DEF LaunchSearch, LaunchSearchUncapped
  <2>2. phase' = [phase EXCEPT ![j] = phase[j]] /\ got[j] \subseteq got'[j]
        /\ \A i \in Job \ {j} : got'[i] = got[i]
    BY <2>1 DEF TypeOK
  <2> QED BY <2>1, <2>2, PlainMove DEF Phase, Round
<1> QED BY <1>1, <1>2, <1>3, <1>4, <1>5, <1>7, <1>8, <1>9, <1>10 DEF JobStep

LEMMA CauseStep == TypeOK /\ CauseInv /\ [Next]_vars => CauseInv'
<1> SUFFICES ASSUME TypeOK, CauseInv, [Next]_vars PROVE CauseInv'
  OBVIOUS
<1>1. ASSUME UNCHANGED <<phase, got, runs>> PROVE CauseInv'
  BY <1>1 DEF CauseInv, Owned, Blocked
<1>2. ASSUME NEW j \in Job, Moves(j) PROVE CauseInv'
  <2>1. PICK names \in SUBSET RunKey : Commits(j, names)
    BY <1>2 DEF Moves
  <2>2. \A n \in RunKey : {"IDLE", "RESEARCH"} \subseteq Before(n)
    BY DEF Before
  <2>3. ASSUME NEW k \in runs PROVE Owned(k)'
    <3>1. k[2] \in RunKey
      BY DEF TypeOK
    <3>2. PICK i \in Job : CorrelationOf[i] = k[1] /\ k[2] \in got[i]
                          /\ phase[i] \notin Before(k[2])
      BY DEF CauseInv, Owned
    <3>3. k[2] \in got'[i] /\ phase'[i] \notin Before(k[2])
      BY <1>2, <2>2, <3>1, <3>2 DEF Moves
    <3> QED BY <3>2, <3>3 DEF Owned, Before
  <2>4. ASSUME NEW k \in Keys(j, names) PROVE phase'[j] # "FAILED" => Owned(k)'
    <3>1. k[1] = CorrelationOf[j] /\ k[2] \in names
      BY DEF Keys
    <3>2. k[2] \in got'[j] /\ phase'[j] \notin Before(k[2])
      BY <2>1, <3>1 DEF Commits
    <3> QED BY <3>1, <3>2 DEF Owned, Before
  <2>5. \A k \in runs' : Owned(k)'
    BY <2>1, <2>3, <2>4 DEF Commits
  <2>6. ASSUME NEW i \in Job, Blocked(i) PROVE Blocked(i)'
    <3>1. PICK h \in Job \ {i} : /\ CorrelationOf[h] = CorrelationOf[i] /\ got[h] # {}
                                /\ phase[h] \notin {"IDLE", "RESEARCH"}
      BY <2>6 DEF Blocked
    <3>2. got'[h] # {} /\ phase'[h] \notin {"IDLE", "RESEARCH"}
      BY <1>2, <3>1 DEF Moves
    <3> QED BY <3>1, <3>2 DEF Blocked
  <2>7. ASSUME phase'[j] = "FAILED" PROVE Blocked(j)'
    <3>1. PICK k \in Keys(j, names) \cap runs : TRUE
      BY <2>1, <2>7 DEF Commits
    <3>2. k[1] = CorrelationOf[j] /\ k[2] \in names /\ k[2] \in RunKey
      BY <3>1 DEF Keys
    <3>3. phase[j] \in Before(k[2])
      BY <2>1, <3>2 DEF Commits
    <3>4. PICK i \in Job : CorrelationOf[i] = k[1] /\ k[2] \in got[i]
                          /\ phase[i] \notin Before(k[2])
      BY <3>1 DEF CauseInv, Owned
    <3>5. i # j /\ got[i] # {} /\ phase[i] \notin {"IDLE", "RESEARCH"}
      BY <2>2, <3>2, <3>3, <3>4
    <3>6. got'[i] # {} /\ phase'[i] \notin {"IDLE", "RESEARCH"}
      BY <1>2, <3>5 DEF Moves
    <3> QED BY <3>2, <3>4, <3>5, <3>6 DEF Blocked
  <2>8. \A i \in Job : phase'[i] = "FAILED" => Blocked(i)'
    BY <1>2, <2>6, <2>7 DEF Moves, CauseInv
  <2>9. \A i \in Job : phase'[i] = "KEEPING" => got'[i] \subseteq Provider
    BY <1>2 DEF Moves, CauseInv
  <2> QED BY <2>5, <2>8, <2>9 DEF CauseInv
<1>3. ASSUME NEW c \in Command, CommandStep(c) PROVE UNCHANGED <<phase, got, runs>>
  BY <1>3 DEF CommandStep, RunRead, AbandonRead, RunLaunch, RunCommit, AbandonCommit,
     Write, CommandCrash, jobVars
<1>4. CASE UNCHANGED vars
  BY <1>1, <1>4 DEF vars, jobVars
<1> QED BY <1>1, <1>2, <1>3, <1>4, JobMoves DEF Next

\* A job that fails on a key ran into results of another job of its correlation id.
THEOREM FailuresHaveCauses == Spec => []FailureHasACause
<1>1. Init => CauseInv
  BY DEF Init, CauseInv
<1>2. CauseInv => FailureHasACause
  BY DEF CauseInv, Blocked, FailureHasACause
<1> QED BY <1>1, <1>2, CauseStep, TypeCorrect, PTL DEF Spec
=============================================================================
