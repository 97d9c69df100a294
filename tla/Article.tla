------------------------------- MODULE Article -------------------------------
(***************************************************************************)
(* From pages to a published figure: the research of Evidence, then a      *)
(* draft written from its package and judged by the factual gate, as a     *)
(* page, and by the reviewer that is a model (services/draft_stage.py,     *)
(* factual_qa_v2.py, qa_service.py).  The model that writes may write any  *)
(* of the given drafts; how attempts are repeated, kept and stored is      *)
(* DraftStage.                                                             *)
(***************************************************************************)
EXTENDS Evidence, Editorial

CONSTANTS
    Drafts,     \* what the model may write
    NoDraft

\* The body of a draft is lists of sentences, of finitely many words and figures.
ASSUME DraftsAssumption ==
    \A written \in Drafts :
        /\ IsList(written.body)
        /\ \A paragraph \in ToSet(written.body) :
              /\ IsList(paragraph)
              /\ \A s \in ToSet(paragraph) : IsFiniteSet(s.words) /\ IsFiniteSet(s.numbers)

VARIABLES
    draft,      \* the draft that was judged last
    findings,   \* the codes the factual gate refused it with
    objections  \* those of the editorial gate and of the reviewer

articleVars == <<vars, draft, findings, objections>>

ArticleInit == Init /\ draft = NoDraft /\ findings = {} /\ objections = {}

Research == Next /\ UNCHANGED <<draft, findings, objections>>

\* One call of the writer, both gates and the reviewer, on the package as it is.
WriteAndJudge ==
    /\ stage = "DONE" /\ draft = NoDraft
    /\ \E written \in Drafts : \E review \in Reviews(written, package.claims) :
          /\ draft' = written
          /\ findings' = Findings(written.body, package.claims)
          /\ objections' = Objections(written, package) \cup review
    /\ UNCHANGED vars

ArticleNext == Research \/ WriteAndJudge
ArticleSpec == ArticleInit /\ [][ArticleNext]_articleVars /\ WF_vars(Next)
-----------------------------------------------------------------------------
(* Properties                                                              *)

Passed == draft # NoDraft /\ findings = {}

\* What the admitted pages state: their propositions, read whole.
Published ==
    UNION {UNION {ToSet(passage.propositions) :
                    passage \in ToSet(Passages(PageOf[sources[i].page]))} :
             i \in {k \in DOMAIN sources : Admissible(sources[k])}}

StatedIn(text, digits, s) ==
    \/ \E a \in text.amounts : a.digits = digits /\ a.unit \in UnitsOf(s, digits)
    \/ \E r \in text.ranges : r \in s.ranges /\ digits \in Ends(r)

\* Every figure of a draft that passes, other than in a calculation, stands on an
\* admitted page with its unit, or in the same range: between the page and the draft
\* it went through extraction, evaluation and the gate (factual_qa_v2.py 763).
FiguresAreOnAPage ==
    Passed =>
        \A s \in {t \in ToSet(Sentences(draft.body)) : ~Has(t, "calculation")} :
            \A d \in Segments(s) : \E text \in Published : StatedIn(text, d, s)

\* A claim the package refuses, repeated with its words and its figures, is caught,
\* whatever supported claims the sentence resembles as well (factual_qa_v2.py 424).
RefusedIsCaught ==
    Passed =>
        \A s \in ToSet(Examined(draft.body)) : \A c \in PackageClaims :
            /\ s.words = c.text.words /\ Cardinality(s.words) >= 2
            /\ s.numbers = c.text.numbers /\ CarriesAll(c.text, s)
            => ~Unresolved(c) /\ c.status # "CONFLICTING"

\* A draft the editorial gate accepts states as many distinct established facts as
\* the floor asks for, save for the answers that the brief lists twice, before the
\* facts and among them, and that are counted twice (brief_service.py 384,
\* qa_service.py 239).
SubstanceFloor ==
    draft # NoDraft /\ objections = {} =>
        Cardinality({c.text.wording : c \in {d \in ToSet(Established(package.claims)) :
                                               Echoed(d.text, draft)}})
          + Lead >= House.floor

\* A draft that states the facts of its brief word for word, each of them of two
\* content words or more, is refused by neither gate as untraced or as too thin: what
\* the writer is told to write can be written (qa_service.py 95, factual_qa_v2.py 746).
FactsCanBeStated ==
    package # NoPackage =>
        LET facts == Usable(package.claims)
            verbatim == [title |-> NoText, metaTitle |-> NoText,
                         metaDescription |-> NoText, near |-> {}, faults |-> {},
                         body |-> [i \in DOMAIN facts |-> <<facts[i].text>>]]
        IN (\A i \in DOMAIN facts : Cardinality(facts[i].text.words) >= 2) =>
             (Findings(verbatim.body, package.claims) \cup Objections(verbatim, package))
               \cap {"UNSUPPORTED_DRAFT_CLAIM", "NUMBER_WITHOUT_SOURCE",
                     "UNSUPPORTED_NUMERIC_CLAIM", "REQUIRED_FACTS_UNUSED",
                     "REQUIRED_FACTS_UNDERUSED"} = {}
=============================================================================
