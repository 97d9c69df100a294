------------------------------ MODULE Editorial ------------------------------
(***************************************************************************)
(* The brief a draft is written from (services/brief_service.py), and the  *)
(* gate that reads the draft as a page (services/qa_service.py).           *)
(*                                                                         *)
(* A draft is [title, metaTitle, metaDescription, body, near, faults]:     *)
(* three texts, which may be missing, a body (see FactualGate), the        *)
(* restricted topics that stand next to a figure, and the findings read    *)
(* off its layout.  Besides the fields of Claims and FactualGate a text    *)
(* has large, its figures of four digits or with a separator that are no   *)
(* years.                                                                  *)
(***************************************************************************)
EXTENDS ResearchPackage, FactualGate

CONSTANTS
    Query,       \* [buying, words, figures]: its intent, distinctive words, figures
    House,       \* [floor, restricted, offer, cta, titles]: the vertical, its
                 \* registered offer and the titles already taken
    MaxFacts,    \* _MAX_REQUIRED_FACTS, 24
    MaxAnswers,  \* _MAX_CORE_EVIDENCE, 6
    Lead,        \* answers put before the facts, 3
    NoText

ASSUME EditorialAssumption ==
  /\ House.floor \in Nat /\ MaxFacts \in Nat \ {0}
  /\ MaxAnswers \in Nat /\ Lead \in Nat
-----------------------------------------------------------------------------
(* The brief                                                               *)

Established(claims) == LET supported(c) == c.status = "SUPPORTED"
                       IN Where(claims, supported)

\* A statement in the article's language, free of what extraction left in it.
Writable(text) == text.marks \cap {"noise", "few words", "foreign"} = {}

CategoryOrder == <<"CONTRACT_PROMISE", "ELIGIBILITY", "ENERGY_PRICE",
                   "FINANCING_PROMISE", "GENERAL", "GRID_RULE", "GUARANTEED_SAVINGS",
                   "MARKET_AVERAGE", "MARKET_PRICE", "OBSERVED_PRICE_RANGE",
                   "PRODUCT_SPEC", "REGULATION", "ROI", "SUBSIDY", "TAX",
                   "VENDOR_PRICE">>
RegionOrder == <<"BE", "BE-BRU", "BE-VLG", "BE-WAL", "FR", "NL", "UNKNOWN">>
Place(list, x) == CHOOSE i \in DOMAIN list : list[i] = x

\* Round by round, one claim of every subject: (category, region) in sorted order.
Spread(claims) ==
  LET subject(i) == <<claims[i].needs.category, claims[i].region>>
      turn(i) == Cardinality({j \in 1..(i - 1) : subject(j) = subject(i)})
      rank(i) == <<turn(i), Place(CategoryOrder, subject(i)[1]),
                   Place(RegionOrder, subject(i)[2])>>
      precedes(i, j) ==
        \E k \in 1..3 : rank(i)[k] < rank(j)[k]
                        /\ \A h \in 1..(k - 1) : rank(i)[h] = rank(j)[h]
      all == DOMAIN claims
      order == Ranked(all, {p \in all \X all : precedes(p[1], p[2])})
  IN IF Len(claims) <= MaxFacts THEN claims
     ELSE [k \in 1..MaxFacts |-> claims[order[k]]]

\* _core_question: on a price question, the prices with a stated basis.
PriceAnswers(claims) ==
  LET answers(c) == /\ c.needs.category \in PriceAnswer
                    /\ Has(c.text, "usable price")
  IN IF PriceQuestion
     THEN Shortened(Where(Established(claims), answers), MaxAnswers)
     ELSE <<>>

Selected(claims) ==
  LET writable(c) == Writable(c.text) IN Spread(Where(Established(claims), writable))

\* The answers lead, and stay where they stood among the facts as well.
Required(claims) ==
  Shortened(Shortened(PriceAnswers(claims), Lead) \o Selected(claims), MaxFacts)

\* What a writer can state of them, which is what the draft is judged on.
Usable(claims) ==
  LET writable(c) == Writable(c.text) IN Where(Required(claims), writable)
-----------------------------------------------------------------------------
(* What the gate blocks (SEO QA): the codes of run_deterministic_qa and of  *)
(* run_seo_qa_v2, its advice left out                                       *)

Flag(code, condition) == IF condition THEN {code} ELSE {}

Presence(draft) ==
  Flag("MISSING_TITLE", draft.title = NoText)
    \cup Flag("MISSING_BODY", draft.body = <<>>)
    \cup Flag("MISSING_META_TITLE", draft.metaTitle = NoText)
    \cup Flag("MISSING_META_DESCRIPTION", draft.metaDescription = NoText)

Lines(draft) == ToSet(Sentences(draft.body))

Percents(text) == {a.digits : a \in {b \in text.amounts : b.unit = "percent"}}
                    \cup {r.high : r \in {q \in text.ranges : q.unit = "percent"}}

\* The figures in the titles of all sources. Mutant of Stated: these alone are read.
StatedInTitles(package) ==
  UNION {PageOf[e.source.page].figures : e \in ToSet(package.entries)}

\* Figures some supported claim states, and those in the titles of all sources.
Stated(package) ==
  (UNION {c.text.large \cup Percents(c.text) : c \in ToSet(Established(package.claims))})
    \cup StatedInTitles(package)

Unsourced(draft, package) ==
  Flag("UNSUPPORTED_NUMERIC_CLAIM",
       \E s \in Lines(draft) :
          \/ ~(s.large \subseteq Stated(package) \cup Query.figures)
          \/ ~(Percents(s) \subseteq Stated(package)))

\* A restricted topic next to a figure, with no supported claim that has the words.
Quantified(draft, package) ==
  Flag("RESTRICTED_CLAIM_QUANTIFIED",
       \E topic \in House.restricted \cap draft.near :
          \A c \in ToSet(Established(package.claims)) : topic \notin c.text.says)

\* _fact_echoed: half of its words, and two at least, or each of its figures with a
\* unit of its own, wherever in the body.
Echoed(fact, draft) ==
  LET said == UNION {s.words : s \in Lines(draft)}
      common == Cardinality(fact.words \cap said)
  IN \/ common >= 2 /\ common >= Cardinality(fact.words) \div 2
     \/ /\ Segments(fact) # {}
        /\ \A d \in Segments(fact) :
              \E s \in Lines(draft) : UnitsOf(s, d) \cap UnitsOf(fact, d) # {}

Used(draft, claims) ==
  Cardinality({i \in DOMAIN Usable(claims) : Echoed(Usable(claims)[i].text, draft)})

\* Mutant of Substance: the bar is a third of what was supplied.
SubstanceOfSupply(draft, claims) ==
  LET supplied == Len(Usable(claims))
  IN FirstOf(<< <<supplied = 0, {"NO_SUPPORTED_EVIDENCE"}>>,
                <<Used(draft, claims) = 0, {"REQUIRED_FACTS_UNUSED"}>>,
                <<Used(draft, claims) < supplied \div 3, {"REQUIRED_FACTS_UNDERUSED"}>> >>,
             {})

\* The substance floor: an absolute, zero where the vertical has none.
Substance(draft, claims) ==
  LET supplied == Len(Usable(claims))
  IN FirstOf(<< <<supplied = 0, {"NO_SUPPORTED_EVIDENCE"}>>,
                <<Used(draft, claims) = 0, {"REQUIRED_FACTS_UNUSED"}>>,
                <<supplied < House.floor, {"INSUFFICIENT_SUPPORTED_EVIDENCE"}>>,
                <<Used(draft, claims) < House.floor, {"REQUIRED_FACTS_UNDERUSED"}>> >>,
             {})

\* No fact of the brief, answers apart, comes from a source with an address.
Traceable(package) ==
  LET from(c) == package.origins[CHOOSE i \in DOMAIN package.claims :
                                   package.claims[i].text.wording = c.text.wording]
  IN \E c \in ToSet(Selected(package.claims)) : \E e \in ToSet(package.entries) :
        e.source.ref = from(c) /\ PageOf[e.source.page].host # NoHost

\* The figures an offer is made of: two digits or more, or a percentage.
OfferFigures(s) ==
  {a.digits : a \in {b \in s.amounts : b.digits >= 10 \/ b.unit = "percent"}}
    \cup {d \in UNION {Ends(r) : r \in s.ranges} : d >= 10}

Unconditional(s, promise) == Has(s, promise) /\ ~Has(s, "conditional")

\* _financing_findings: a sentence is judged as an offer, and only then as a promise.
Promise(s) ==
  FirstOf(<< <<OfferFigures(s) # {} /\ Has(s, "offer"),
               IF Has(s, "totality") THEN {"OFFER_FACT_OVERCLAIM"}
               ELSE Flag("UNREGISTERED_OFFER_FACT",
                         ~(OfferFigures(s) \subseteq House.offer))>>,
             <<Unconditional(s, "contract"), {"UNCONDITIONAL_CONTRACT_PROMISE"}>>,
             <<Unconditional(s, "acceptance"), {"UNCONDITIONAL_ACCEPTANCE_PROMISE"}>>,
             <<Unconditional(s, "financing"), {"UNCONDITIONAL_FINANCING_PROMISE"}>>,
             <<Unconditional(s, "guaranteed outcome"),
               {"UNCONDITIONAL_OUTCOME_PROMISE"}>> >>, {})

\* The body, and the fields a crawler reads first.
Promises(draft) ==
  UNION {Promise(s) : s \in (Lines(draft) \cup {draft.title, draft.metaTitle,
                                                draft.metaDescription}) \ {NoText}}

\* On a buying intent the price is spoken of, and a figure given where there is one.
Intent(draft, claims) ==
  Flag("INTENT_MISALIGNED", Query.buying /\ \A s \in Lines(draft) : ~Has(s, "commercial"))
    \cup Flag("NO_QUANTIFIED_ANSWER",
              /\ Query.buying /\ PriceAnswers(claims) # <<>>
              /\ \A s \in Lines(draft) : ~Has(s, "quantified"))

OffTopic(draft) ==
  Flag("TITLE_OFF_TOPIC",
       /\ draft.title # NoText /\ Query.words # {}
       /\ Query.words \cap (draft.title.topic \cup draft.title.generic) = {})

VatGeneralised(draft, claims) ==
  Flag("VAT_STATUS_GENERALISED",
       /\ \E s \in Lines(draft) : Has(s, "vat for all")
       /\ \E c \in ToSet(PriceAnswers(claims)) : Has(c.text, "vat unknown"))

Objections(draft, package) ==
  IF draft.body = <<>> THEN Presence(draft)
  ELSE Presence(draft) \cup draft.faults \cup Unsourced(draft, package)
         \cup Quantified(draft, package) \cup Substance(draft, package.claims)
         \cup Flag("NO_TRACEABLE_SOURCES", ~Traceable(package))
         \cup Flag("DUPLICATE_TITLE", /\ draft.title # NoText
                                      /\ draft.title.wording \in House.titles)
         \cup Flag("NO_CTA", ~House.cta) \cup Promises(draft)
         \cup Intent(draft, package.claims) \cup OffTopic(draft)
         \cup VatGeneralised(draft, package.claims)
-----------------------------------------------------------------------------
(* The reviewer that is a model: what it says of a draft, quoting a text    *)

\* The ledger overrules the model on what is sourced.
IsSourced(s, supported) ==
  IF Segments(s) # {} THEN \E c \in supported : CarriesAll(c.text, s)
  ELSE \E c \in supported : Matches(s, c.text)

\* Does a severe remark on a category that blocks stand?  Not when it quotes a
\* reference that is not in the draft, or a sentence a claim carries.
Stands(quoted, draft, claims) ==
  LET supported == ToSet(Established(claims))
  IN /\ quoted \in {c.text : c \in supported} => quoted \in Lines(draft)
     /\ quoted \in Lines(draft) => ~IsSourced(quoted, supported)

\* What the reviewer may leave: nothing, as when it is not configured, fails or
\* speaks of other things, or a refusal.
Reviews(draft, claims) ==
  LET quotable == Lines(draft) \cup {c.text : c \in ToSet(Established(claims))}
                    \cup {NoText}
  IN {{}} \cup {Flag("MODEL_ASSISTED", Stands(q, draft, claims)) : q \in quotable}
=============================================================================
