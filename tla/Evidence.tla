------------------------------ MODULE Evidence ------------------------------
(***************************************************************************)
(* Stages 3 to 5b of a job of services/pipeline_v2.py: general research,  *)
(* the relevance gate, the package, and two rounds of official searches   *)
(* (services/authoritative_research.py), each of which rebuilds it.       *)
(*                                                                         *)
(* What providers return is chosen among given answers; every provider    *)
(* call may fail.  What the calls cost, and what is committed when, is    *)
(* ResearchRun.                                                            *)
(***************************************************************************)
EXTENDS ResearchPackage

CONSTANTS
    Article,      \* the article's query
    Answers,      \* query -> the answers (sequences of pages) web search may give
    Community,    \* the answers of the community provider
    Semantic,     \* SEOLEAD_RELEVANCE_SEMANTIC_ENABLED, with a model configured
    NoPackage

ASSUME AnswersAssumption ==
    /\ \A query \in DOMAIN Answers : Answers[query] \subseteq Seq(DOMAIN PageOf)
    /\ Community \subseteq Seq(DOMAIN PageOf)
    /\ Article \in DOMAIN WordsOf

VARIABLES
    stage,      \* what the job is at
    sources,    \* research_results: every source so far, in order
    decisions,  \* reference -> the verdict of the relevance gate
    package,    \* the payload
    plan,       \* searches of the round at work, not launched yet
    round,
    accepted,   \* what the round at work brought so far
    executed    \* the resolution record: searches launched, in order

vars == <<stage, sources, decisions, package, plan, round, accepted, executed>>

Stage == {"WEB", "COMMUNITY", "COMMUNITY ONLY", "JUDGING", "PLANNING", "ASKING",
          "DONE", "STOPPED", "FAILED"}

Init ==
    /\ stage = "WEB"
    /\ sources = <<>>
    /\ decisions = <<>>
    /\ package = NoPackage
    /\ plan = <<>> /\ round = 0
    /\ accepted = <<>> /\ executed = <<>>
-----------------------------------------------------------------------------
(* Research                                                                *)

\* normalize_tavily numbers the results of every call from zero, for those that carry
\* no id of their own; a result without an address keeps its number and is left out.
Normalised(query, pages) ==
    At(Named("tavily", query, pages), {i \in DOMAIN pages : PageOf[pages[i]].host # NoHost})

\* What web search may answer; it has nothing on a query of which nothing is said.
Answer(query) == IF query \in DOMAIN Answers THEN Answers[query] ELSE {<<>>}

SearchWeb ==
    /\ stage = "WEB"
    /\ \/ /\ \E answer \in Answer(Article) : sources' = Normalised(Article, answer)
          /\ stage' = "COMMUNITY"
       \/ UNCHANGED sources /\ stage' = "COMMUNITY ONLY"
    /\ UNCHANGED <<decisions, package, plan, round, accepted, executed>>

\* With no answer from either, research failed; an answer may be empty.
AskCommunity ==
    /\ stage \in {"COMMUNITY", "COMMUNITY ONLY"}
    /\ \/ \E answer \in Community :
            /\ sources' = sources \o Named("last30days", Article, answer)
            /\ stage' = "JUDGING"
       \/ /\ UNCHANGED sources
          /\ stage' = IF stage = "COMMUNITY" THEN "JUDGING" ELSE "STOPPED"
    /\ UNCHANGED <<decisions, package, plan, round, accepted, executed>>

OwnVerdict(s) == Relevance(s.query, PageOf[s.page])

\* Mutant of Overwrite: a reference that has a verdict keeps it.
KeepFirst(old, list, verdicts) ==
    LET refs == {list[i].ref : i \in DOMAIN list}
    IN [ref \in refs \cup DOMAIN old |->
          IF ref \in DOMAIN old THEN old[ref]
          ELSE verdicts[CHOOSE i \in DOMAIN list : list[i].ref = ref]]

\* decisions[ref] = ... for each source of a list in turn.
Overwrite(old, list, verdicts) ==
    LET refs == {list[i].ref : i \in DOMAIN list}
        last(ref) == CHOOSE i \in DOMAIN list :
                       /\ list[i].ref = ref
                       /\ \A j \in DOMAIN list : list[j].ref = ref => j <= i
    IN [ref \in refs \cup DOMAIN old |->
          IF ref \in refs THEN verdicts[last(ref)] ELSE old[ref]]

\* Stages 4 and 5: the gate, with the model's opinion of the middle, and the package.
Judge ==
    /\ stage = "JUDGING"
    /\ \E verdicts \in [DOMAIN sources -> {"RELEVANT", "LOW_RELEVANCE", "IRRELEVANT",
                                           "UNKNOWN"}] :
          /\ \A i \in DOMAIN sources :
                LET verdict == OwnVerdict(sources[i])
                IN verdicts[i] \in IF Semantic THEN Reviewed(verdict) ELSE {verdict}
          /\ decisions' = Overwrite(decisions, sources, verdicts)
    /\ package' = Build(sources, decisions')
    /\ stage' = "PLANNING"
    /\ UNCHANGED <<sources, plan, round, accepted, executed>>
-----------------------------------------------------------------------------
(* Official rounds                                                         *)

\* Mutant of Pending: a search that came back empty-handed is put again.
PendingAgain(searches) == searches

\* unresolved_queries: launched once is launched, whatever came back.
Pending(searches) ==
    LET Owed(q) == q.query \notin ToSet(executed) IN Where(searches, Owed)

\* Mutant of StartRound: as long as the package asks for something, it is searched.
StartRoundAgain ==
    /\ stage = "PLANNING"
    /\ LET searches == Pending(Plan(package.claims))
       IN IF searches = <<>>
          THEN stage' = "DONE" /\ UNCHANGED <<plan, round>>
          ELSE stage' = "ASKING" /\ plan' = searches /\ round' = round + 1
    /\ UNCHANGED <<sources, decisions, package, accepted, executed>>

\* A round begins with what the package asks for and nobody has launched; the third
\* plan is left to the operator.
StartRound ==
    /\ stage = "PLANNING"
    /\ LET searches == IF round < 2 THEN Pending(Plan(package.claims)) ELSE <<>>
       IN IF searches = <<>>
          THEN stage' = "DONE" /\ UNCHANGED <<plan, round>>
          ELSE stage' = "ASKING" /\ plan' = searches /\ round' = round + 1
    /\ UNCHANGED <<sources, decisions, package, accepted, executed>>

\* Second enforcement: only an authority for the category asked about.
Accepted(search, pages) ==
    LET found == Normalised(search.query, pages)
        author(i) == Lookup(PageOf[found[i].page])
    IN At(found, {i \in DOMAIN found : author(i) # NoAuthority
                                       /\ SpeaksFor(author(i), search.category)})

Official(list) == [i \in DOMAIN list |-> [list[i] EXCEPT !.official = TRUE]]

\* One planned search; an error is recorded as launched too, and without a ratified
\* domain nothing is launched.
Ask ==
    /\ stage = "ASKING" /\ plan # <<>>
    /\ plan' = Tail(plan)
    /\ IF Registry = {}
       THEN UNCHANGED <<accepted, executed>>
       ELSE /\ executed' = Append(executed, Head(plan).query)
            /\ \/ \E answer \in Answer(Head(plan).query) :
                     accepted' = accepted \o Official(Accepted(Head(plan), answer))
               \/ UNCHANGED accepted
    /\ UNCHANGED <<stage, sources, decisions, package, round>>

\* run_round: official pages pass the gate on the search that fetched them, and the
\* package is rebuilt from everything.
Fold ==
    /\ stage = "ASKING" /\ plan = <<>>
    /\ sources' = sources \o accepted
    /\ decisions' = Overwrite(decisions, accepted, Mapped(accepted, OwnVerdict))
    /\ package' = IF accepted = <<>> THEN package ELSE Build(sources', decisions')
    /\ accepted' = <<>>
    /\ stage' = "PLANNING"
    /\ UNCHANGED <<plan, round, executed>>

\* A refusal by the job's budget, or a commit that fails, ends the job.
GiveUp ==
    /\ stage \in {"WEB", "COMMUNITY", "COMMUNITY ONLY", "ASKING"}
    /\ stage' = "FAILED"
    /\ UNCHANGED <<sources, decisions, package, plan, round, accepted, executed>>

Next == SearchWeb \/ AskCommunity \/ Judge \/ StartRound \/ Ask \/ Fold \/ GiveUp
Spec == Init /\ [][Next]_vars /\ WF_vars(Next)
-----------------------------------------------------------------------------
(* Properties                                                              *)

Source == [ref : {"tavily", "last30days", "given"} \X Nat, page : DOMAIN PageOf,
           query : DOMAIN WordsOf, official : BOOLEAN]

\* Sources are well formed and every source of a package has a verdict; there are two
\* official rounds at most, each of no more searches than the ceiling and the national
\* one that is not counted (research_planner.py 142).
TypeOK ==
    /\ stage \in Stage
    /\ \A list \in {sources, accepted} : \A i \in DOMAIN list : list[i] \in Source
    /\ \A ref \in DOMAIN decisions :
          decisions[ref] \in {"RELEVANT", "LOW_RELEVANCE", "IRRELEVANT", "UNKNOWN"}
    /\ package # NoPackage =>
          /\ Len(package.entries) = Len(sources)
          /\ \A i \in DOMAIN sources : sources[i].ref \in DOMAIN decisions
          /\ \A i \in DOMAIN package.claims : package.claims[i].status \in
                {"SUPPORTED", "PARTIALLY_SUPPORTED", "UNSUPPORTED", "CONFLICTING"}
          /\ \A i \in DOMAIN package.claims : package.claims[i].region \in Region
    /\ round \in 0..2 /\ Len(plan) <= MaxQueries + 1

\* The claims of the package, and the pages that bear the reference of a proof.
PackageClaims == IF package = NoPackage THEN {} ELSE ToSet(package.claims)
Bearers(e) == {i \in DOMAIN sources : sources[i].ref = e.ref}
Proofs(c) == {e \in c.evidence : e.supports}

Admissible(s) ==
    LET page == PageOf[s.page]
    IN /\ Topic(s.query) \cap (page.title \cup page.body \cup HostWords(page)) # {}
       /\ OwnVerdict(s) \in IF s.official THEN {"RELEVANT"}
                             ELSE {"RELEVANT", "LOW_RELEVANCE"}

\* What is cited for or against a claim stands in a page that was on the topic of the
\* search that fetched it, although references are reused and one verdict is kept for
\* each (pipeline_v2.py 532, package_builder_v3.py 78).
EvidenceWasAdmitted ==
    \A c \in PackageClaims : \A e \in c.evidence : \E i \in Bearers(e) :
        /\ Admissible(sources[i])
        /\ e.passage \in {passage.text : passage \in ToSet(Passages(PageOf[sources[i].page]))}

Ended(page) == page.historical \/ Before(page.until, Today.day) \/ EndedByYear(page)

\* A claim that depends on when it was published is never established by pages all of
\* which describe what has ended (evidence_model.py 388).
EndedRulesDoNotCount ==
    \A c \in PackageClaims :
        c.status = "SUPPORTED" /\ c.needs.bar.freshness = "REQUIRED" =>
            \E e \in Proofs(c) : \E i \in Bearers(e) : ~Ended(PageOf[sources[i].page])

\* The author of a page, if it is an authority of some place, is one of this region.
SpeaksThere(page, region) ==
    LET authority == Lookup(page)
    IN authority = NoAuthority \/ authority.region = "UNKNOWN"
         \/ Covers(authority.region, region)

\* An established claim rests on one page that does everything asked of it: the page
\* was admitted by its own verdict, it holds the passage that is cited, its quality
\* alone is the authority the claim needs, and where the place matters no authority of
\* another one wrote it, whatever places it mentions. These are never pieced together
\* from pages that share a reference (package_builder_v3.py 78 to 110,
\* evidence_model.py 340 to 400).
EstablishedByOnePage ==
    \A c \in PackageClaims : c.status = "SUPPORTED" =>
        \E e \in Proofs(c) : \E i \in Bearers(e) :
            LET page == PageOf[sources[i].page]
            IN /\ Admissible(sources[i])
               /\ e.passage \in {passage.text : passage \in ToSet(Passages(page))}
               /\ AuthoritySuffices(c.needs.bar.authority, SourceQuality(page))
               /\ c.needs.bar.risk = "HIGH" /\ c.region # "UNKNOWN" =>
                     SpeaksThere(page, c.region)

\* No search is paid for twice in a job, although the second plan proposes again
\* whatever its gap survived (research_planner.py 264).
AskedOnce == \A i, j \in DOMAIN executed : executed[i] = executed[j] => i = j

\* Every source of a package carries the verdict of its own page on its own query:
\* "A source is judged against the question it was fetched to answer"
\* (package_builder_v3.py 74).
JudgedOnItsOwn ==
    package # NoPackage =>
        \A i \in DOMAIN package.entries :
            LET entry == package.entries[i]
                own == OwnVerdict(entry.source)
            IN entry.status \in IF entry.source.official THEN {own} ELSE Reviewed(own)
=============================================================================
