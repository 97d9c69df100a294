---------------------------- MODULE ResearchRun -----------------------------
(***************************************************************************)
(* The money side of research: a job of services/pipeline_v2.py buys       *)
(* results, executes at most two rounds of official searches and seals a   *)
(* package; operators later run or abandon the searches the package still  *)
(* owes (cli.cmd_authoritative_run, cmd_abandon_search).  The publication  *)
(* gate refuses a page while its package owes a search.                    *)
(*                                                                         *)
(* What became of each proposed search is one JSON column of the package,  *)
(* read, extended in memory and written back whole.  Usage is collected in *)
(* memory and committed at the end of a job.                               *)
(*                                                                         *)
(* A job and a command are one execution each.  Abstracted: sources, their *)
(* relevance and the claims drawn from them, down to the searches a plan   *)
(* proposes; keyword metrics; whether the SERP comes from the cache is a   *)
(* choice; the brief and the draft stage between package and bookkeeping   *)
(* (the latter is DraftStage).                                             *)
(***************************************************************************)
EXTENDS Naturals, FiniteSets

CONSTANTS
    Job,           \* executions of run_pipeline_v2, and their packages
    Correlation, CorrelationOf,   \* the id a job is requested under
    Command,       \* executions of authoritative-run and abandon-search
    Query,         \* the searches a plan may propose
    MaxQueries,    \* official_source_policy.max_queries
    MaxCalls,      \* job -> SEOLEAD_MAX_CALLS_PER_PROVIDER in its settings
    NoPackage

ASSUME CorrelationAssumption == CorrelationOf \in [Job -> Correlation]
ASSUME LimitAssumption == MaxQueries \in Nat /\ MaxCalls \in [Job -> Nat]
ASSUME QueryAssumption == IsFiniteSet(Query)

Provider == {"web", "community"}
RunKey == Provider \cup {"official", "official:round2"}
Status == {"EXECUTED", "ABANDONED"}

\* A plan proposes a bounded number of searches: the national search of a category is
\* added after its regional variants without being counted, so one more than the ceiling.
Plan == {p \in SUBSET Query : Cardinality(p) <= MaxQueries + 1}

\* authoritative_research.resolution: what became of which search.
Entry == Query \X Status
Package == [proposed : SUBSET Query, record : SUBSET Entry]

ASSUME NoneAssumption == NoPackage \notin Package

VARIABLES
    phase,     \* how far each job is
    got,       \* job -> the keys of the results it holds
    plan,      \* job -> the searches of the round at work
    todo,      \* job -> those of them not launched yet
    record,    \* job -> entries recorded so far, in memory
    spent,     \* job -> calls of the web provider charged to its budget
    unbooked,  \* job -> has it usage events collected and not committed
    runs,      \* committed research_run keys
    package,   \* job -> its committed package
    command,   \* command -> what it is doing
    launched,  \* history: <<package, search>> ever sent to the provider
    repaid,    \* history: those sent again although only what is owed was asked for
    troubled   \* history: packages on which two commands overlapped or a run died

jobVars == <<phase, got, plan, todo, record, spent, unbooked, runs>>
history == <<launched, repaid, troubled>>
vars == <<jobVars, package, command, history>>

IdleCommand == [step |-> "IDLE"]

\* research_planner.unresolved_queries: a search is settled by its text, launched
\* (whatever came back) or abandoned.
Settled(entries) == {e[1] : e \in entries}
SettledIfAbandoned(entries) == {e[1] : e \in {f \in entries : f[2] = "ABANDONED"}}
Unresolved(searches, entries) == searches \ Settled(entries)

Executed(searches) == searches \X {"EXECUTED"}
-----------------------------------------------------------------------------
Init ==
    /\ phase = [j \in Job |-> "IDLE"]
    /\ got = [j \in Job |-> {}]
    /\ plan = [j \in Job |-> {}]
    /\ todo = [j \in Job |-> {}]
    /\ record = [j \in Job |-> {}]
    /\ spent = [j \in Job |-> 0]
    /\ unbooked = [j \in Job |-> FALSE]
    /\ runs = {}
    /\ package = [j \in Job |-> NoPackage]
    /\ command = [c \in Command |-> IdleCommand]
    /\ launched = {} /\ repaid = {} /\ troubled = {}
-----------------------------------------------------------------------------
(* The job                                                                 *)

Round == {"ROUND1", "ROUND2"}
Phase == {"IDLE", "RESEARCH", "KEEPING", "PLANNING", "PACKAGING", "BOOKING", "DONE",
          "REFUSED", "FAILED", "DEAD"} \cup Round
Running(j) == phase[j] \notin {"IDLE", "DONE", "REFUSED", "FAILED", "DEAD"}

Goto(j, p) == phase' = [phase EXCEPT ![j] = p]

\* An adapter records a call once the provider answered; an answer it then cannot
\* read is recorded and an error.
Collect(j, some) == unbooked' = [unbooked EXCEPT ![j] = @ \/ some]

\* What a process that ends had in memory is gone.
Forget(j) ==
    /\ plan' = [plan EXCEPT ![j] = {}]
    /\ todo' = [todo EXCEPT ![j] = {}]
    /\ record' = [record EXCEPT ![j] = {}]

\* Stage 1: the SERP is cached, bought, or not to be had, which ends the job.
Serp(j) ==
    /\ phase[j] = "IDLE"
    /\ \E paid \in BOOLEAN : Collect(j, paid)
    /\ \E next \in {"RESEARCH", "DONE"} : Goto(j, next)
    /\ UNCHANGED <<got, plan, todo, record, spent, runs, package, command,
                   history>>

\* Stage 3: web and community research; either may fail.  With neither the job
\* ends.
Research(j) ==
    /\ phase[j] = "RESEARCH" /\ spent[j] < MaxCalls[j]
    /\ spent' = [spent EXCEPT ![j] = @ + 1]
    /\ \E answered \in SUBSET Provider :
          /\ got' = [got EXCEPT ![j] = answered]
          /\ \E unread \in BOOLEAN : Collect(j, answered # {} \/ unread)
          /\ Goto(j, IF answered = {} THEN "DONE" ELSE "KEEPING")
    /\ UNCHANGED <<plan, todo, record, runs, package, command, history>>

\* The key under which the results of a round are committed.
HistoricalKey(round) == "official"
RoundKey(round) == IF round = "ROUND1" THEN "official" ELSE "official:round2"

Keys(j, names) == {<<CorrelationOf[j], n>> : n \in names}

\* _persist_research and the commit after it: a key already there ends the job.
Persist(j, names, next) ==
    IF Keys(j, names) \cap runs = {}
    THEN runs' = runs \cup Keys(j, names) /\ Goto(j, next)
    ELSE UNCHANGED runs /\ Goto(j, "FAILED")

KeepResearch(j) ==
    /\ phase[j] = "KEEPING"
    /\ Persist(j, got[j], "PLANNING")
    /\ UNCHANGED <<got, plan, todo, record, spent, unbooked, package, command,
                   history>>

\* Stage 5b: what the claims leave unresolved is planned and launched at once.
FirstPlan(j) ==
    /\ phase[j] = "PLANNING"
    /\ \E p \in Plan :
          /\ plan' = [plan EXCEPT ![j] = p]
          /\ todo' = [todo EXCEPT ![j] = p]
          /\ Goto(j, IF p = {} THEN "PACKAGING" ELSE "ROUND1")
    /\ UNCHANGED <<got, record, spent, unbooked, runs, package, command, history>>

\* A search goes to the provider on behalf of a package.
Pay(p, q, again) ==
    /\ launched' = launched \cup {<<p, q>>}
    /\ repaid' = IF <<p, q>> \in launched /\ ~again THEN repaid \cup {<<p, q>>}
                                                     ELSE repaid

\* execute_plan: an answer may hold a page on an official domain; an error is
\* noted and the round goes on.
LaunchSearchUncapped(j, q) ==
    /\ phase[j] \in Round /\ q \in todo[j]
    /\ spent' = [spent EXCEPT ![j] = @ + 1]
    /\ todo' = [todo EXCEPT ![j] = @ \ {q}]
    /\ Pay(j, q, FALSE)
    /\ \/ UNCHANGED got /\ \E unread \in BOOLEAN : Collect(j, unread)
       \/ got' = [got EXCEPT ![j] = @ \cup {RoundKey(phase[j])}] /\ Collect(j, TRUE)
    /\ UNCHANGED <<phase, plan, record, runs, package, command, troubled>>

LaunchSearch(j, q) ==
    /\ spent[j] < MaxCalls[j]
    /\ LaunchSearchUncapped(j, q)

\* The budget raises what neither execute_plan nor the pipeline catches.
Refused(j) ==
    /\ \/ phase[j] = "RESEARCH"
       \/ phase[j] \in Round /\ todo[j] # {}
    /\ spent[j] = MaxCalls[j]
    /\ Goto(j, "REFUSED") /\ Forget(j)
    /\ UNCHANGED <<got, spent, unbooked, runs, package, command, history>>

Recorded(j) == record[j] \cup Executed(plan[j])

\* The round is recorded and its pages committed.
EndRound(j, next) ==
    /\ phase[j] \in Round /\ todo[j] = {}
    /\ record' = [record EXCEPT ![j] = Recorded(j)]
    /\ Persist(j, got[j] \cap {RoundKey(phase[j])}, next)
    /\ UNCHANGED <<got, spent, unbooked, package, command, history>>

\* After the first round the claims are planned for again; what was not launched
\* yet is a second round.
SecondPlan(j) ==
    /\ phase[j] = "ROUND1"
    /\ \E second \in Plan :
          LET pending == Unresolved(second, Recorded(j)) IN
          /\ EndRound(j, IF pending = {} THEN "PACKAGING" ELSE "ROUND2")
          /\ plan' = [plan EXCEPT ![j] = pending]
          /\ todo' = [todo EXCEPT ![j] = pending]

EndRounds(j) ==
    /\ phase[j] = "ROUND2"
    /\ EndRound(j, "PACKAGING")
    /\ UNCHANGED <<plan, todo>>

\* The package is committed with the record of its searches; what its facts still
\* propose is planned again whenever it is asked for.
SealWith(j, next) ==
    /\ phase[j] = "PACKAGING"
    /\ \E third \in Plan :
          package' = [package EXCEPT ![j] = [proposed |-> third, record |-> record[j]]]
    /\ Goto(j, next) /\ Forget(j)
    /\ UNCHANGED <<got, spent, unbooked, runs, command, history>>
Seal(j) == SealWith(j, "BOOKING")

\* _persist_usage, the last thing a job does.
Book(j) ==
    /\ phase[j] = "BOOKING"
    /\ unbooked' = [unbooked EXCEPT ![j] = FALSE]
    /\ Goto(j, "DONE")
    /\ UNCHANGED <<got, plan, todo, record, spent, runs, package, command, history>>

Crash(j) ==
    /\ Running(j)
    /\ Goto(j, "DEAD") /\ Forget(j)
    /\ UNCHANGED <<got, spent, unbooked, runs, package, command, history>>
-----------------------------------------------------------------------------
(* The commands                                                            *)

Idle(c) == command[c] = IdleCommand
Active(c) == command[c].step \in {"RUN", "ABANDON"}
Become(c, state) == command' = [command EXCEPT ![c] = state]

\* A command reads a package another command is at work on.
Trouble(c, p) ==
    troubled' = IF \E d \in Command \ {c} : Active(d) /\ command[d].package = p
                THEN troubled \cup {p} ELSE troubled

\* authoritative-run: what the package owes is launched; --all launches the whole
\* plan again on purpose.
ChosenUnlessAbandoned(p, all) ==
    IF all THEN package[p].proposed
    ELSE package[p].proposed \ SettledIfAbandoned(package[p].record)
Chosen(p, all) ==
    IF all THEN package[p].proposed
    ELSE Unresolved(package[p].proposed, package[p].record)

RunRead(c, p, all) ==
    /\ Idle(c) /\ package[p] # NoPackage
    /\ Chosen(p, all) # {}
    /\ Become(c, [step |-> "RUN", package |-> p, again |-> all,
                  pending |-> Chosen(p, all), todo |-> Chosen(p, all),
                  seen |-> package[p].record])
    /\ Trouble(c, p)
    /\ UNCHANGED <<jobVars, package, launched, repaid>>

\* The command has no budget.
RunLaunch(c, q) ==
    /\ command[c].step = "RUN" /\ q \in command[c].todo
    /\ Become(c, [command[c] EXCEPT !.todo = @ \ {q}])
    /\ Pay(command[c].package, q, command[c].again)
    /\ UNCHANGED <<jobVars, package, troubled>>

Write(c, entries) ==
    /\ package' = [package EXCEPT ![command[c].package].record =
                                      command[c].seen \cup entries]
    /\ Become(c, [step |-> "DONE"])
    /\ UNCHANGED <<jobVars, history>>

RunCommitAnswered(c) ==
    /\ command[c].step = "RUN" /\ command[c].todo = {}
    /\ \E answered \in SUBSET command[c].pending : Write(c, Executed(answered))

\* record_resolution, written over whatever the column holds by now.
RunCommit(c) ==
    /\ command[c].step = "RUN" /\ command[c].todo = {}
    /\ Write(c, Executed(command[c].pending))

AbandonRead(c, p, q) ==
    /\ Idle(c) /\ package[p] # NoPackage
    /\ q \in package[p].proposed
    /\ Become(c, [step |-> "ABANDON", package |-> p, search |-> q,
                  seen |-> package[p].record])
    /\ Trouble(c, p)
    /\ UNCHANGED <<jobVars, package, launched, repaid>>

AbandonCommit(c) ==
    /\ command[c].step = "ABANDON"
    /\ Write(c, {<<command[c].search, "ABANDONED">>})

\* A run that dies leaves the searches it launched owed.
CommandCrash(c) ==
    /\ Active(c)
    /\ troubled' = IF command[c].step = "RUN" THEN troubled \cup {command[c].package}
                                              ELSE troubled
    /\ Become(c, [step |-> "DEAD"])
    /\ UNCHANGED <<jobVars, package, launched, repaid>>
-----------------------------------------------------------------------------
JobStep(j) ==
    \/ Serp(j) \/ Research(j) \/ KeepResearch(j) \/ FirstPlan(j) \/ Refused(j)
    \/ SecondPlan(j) \/ EndRounds(j) \/ Seal(j) \/ Book(j) \/ Crash(j)
    \/ \E q \in Query : LaunchSearch(j, q)

CommandStep(c) ==
    \/ \E p \in Job :
          \/ \E all \in BOOLEAN : RunRead(c, p, all)
          \/ \E q \in Query : AbandonRead(c, p, q)
    \/ \E q \in Query : RunLaunch(c, q)
    \/ RunCommit(c) \/ AbandonCommit(c) \/ CommandCrash(c)

Next ==
    \/ \E j \in Job : JobStep(j)
    \/ \E c \in Command : CommandStep(c)

Spec == Init /\ [][Next]_vars
-----------------------------------------------------------------------------
(* Properties                                                              *)

RunState == [step : {"RUN"}, package : Job, again : BOOLEAN, pending : SUBSET Query,
             todo : SUBSET Query, seen : SUBSET Entry]
AbandonState == [step : {"ABANDON"}, package : Job, search : Query,
                 seen : SUBSET Entry]

\* Types; no job calls the web provider more often than its ceiling allows
\* (JobBudget.consume).
TypeOK ==
    /\ phase \in [Job -> Phase]
    /\ got \in [Job -> SUBSET RunKey]
    /\ plan \in [Job -> Plan] /\ todo \in [Job -> Plan]
    /\ record \in [Job -> SUBSET Entry]
    /\ spent \in [Job -> Nat] /\ \A j \in Job : spent[j] <= MaxCalls[j]
    /\ unbooked \in [Job -> BOOLEAN]
    /\ runs \subseteq Correlation \X RunKey
    /\ package \in [Job -> Package \cup {NoPackage}]
    /\ command \in [Command -> {IdleCommand, [step |-> "DONE"], [step |-> "DEAD"]}
                              \cup RunState \cup AbandonState]
    /\ launched \subseteq Job \X Query /\ repaid \subseteq launched
    /\ troubled \subseteq Job

\* A search is paid for once: neither the second round of a job nor a later command
\* launches again, unless told to, what was launched for the package
\* (pipeline_v2.run_pipeline_v2, research_planner.pending_plan), as long as no two
\* commands overlapped on the package and none died after launching.
PaidOnce == \A e \in repaid : e[1] \in troubled

\* A search the gate takes for executed was launched, however the commands that
\* write the record overlap or die (research_planner.record_resolution).
ExecutedWasLaunched ==
    \A p \in Job : package[p] # NoPackage =>
        \A e \in package[p].record : e[2] = "EXECUTED" => <<p, e[1]>> \in launched

\* When a run commits, its package owes nothing, whatever the provider answered
\* (authoritative_research.execute_plan, record_resolution).
RunSettles ==
    [][\A c \in Command :
          command[c].step = "RUN" /\ command'[c].step = "DONE"
          => LET p == package'[command[c].package] IN
             Unresolved(p.proposed, p.record) = {}]_vars

\* A job dies on a key that exists only because another job of its correlation id
\* committed results, never on a key of its own (pipeline_v2.second_round_key).
FailureHasACause ==
    \A j \in Job : phase[j] = "FAILED" =>
        \E i \in Job \ {j} : CorrelationOf[i] = CorrelationOf[j] /\ got[i] # {}

\* A job that ends with a package has committed every usage event it collected
\* (pipeline_v2._persist_usage).
DeliveredIsBooked ==
    \A j \in Job : phase[j] = "DONE" /\ package[j] # NoPackage => ~unbooked[j]
=============================================================================
