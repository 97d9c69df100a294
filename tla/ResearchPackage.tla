--------------------------- MODULE ResearchPackage ---------------------------
(***************************************************************************)
(* How retrieved pages become a package of claims with verdicts           *)
(* (services/relevance.py, source_quality.py, authority_registry.py,      *)
(* passage_extraction.py, claim_extraction.py, package_builder_v3.py) and *)
(* which official searches the package asks for (research_planner.py).    *)
(*                                                                         *)
(* A page is a record: its host (labels, as in <<"energie", "wallonie",   *)
(* "be">>), the id its provider gives it or NoRef, the words of its title *)
(* and body, the regions it names, its dates (see Claims), and blocks of  *)
(* text.  A block has the flags the boilerplate rules test and the        *)
(* passages it is cut into; a passage is its text and the propositions in *)
(* it; a proposition is a text of Claims with a field form, the shapes    *)
(* the assertion rules test.                                              *)
(***************************************************************************)
EXTENDS Claims

CONSTANTS
    PageOf,       \* name -> page
    WordsOf,      \* query -> its stemmed words, function words left out
    Known,        \* the host lists of source_quality
    Registered,   \* official_source_policy.domains, in order
    Template,     \* <<category, variant>> -> configured query
    MaxQueries,   \* min(official_source_policy.max_queries, 5)
    PriceQuestion,\* is the article's query one the price policy recognises
    Market,       \* the region of the market
    RelevantAt, LowAt,   \* thresholds, in hundredths
    NoHost, NoAuthority, NoRef

ASSUME MaxQueriesAssumption == MaxQueries \in Nat
ASSUME MarketAssumption == Market \in Region
ASSUME TemplateAssumption == \A key \in DOMAIN Template : Template[key] \in DOMAIN WordsOf

\* A page has a number for an id, or none; it is lists of lists of texts, of finitely
\* many words and figures.
ASSUME PagesAssumption ==
  \A name \in DOMAIN PageOf :
    /\ PageOf[name].id \in Nat \cup {NoRef}
    /\ IsList(PageOf[name].blocks)
    /\ \A block \in ToSet(PageOf[name].blocks) :
         /\ IsList(block.passages)
         /\ \A passage \in ToSet(block.passages) :
              /\ IsList(passage.propositions)
              /\ \A text \in ToSet(passage.propositions) :
                   IsFiniteSet(text.words) /\ IsFiniteSet(text.numbers)

---------------------------------------------------------------------------
(* Relevance of a page to the query that fetched it                        *)

Topic(query) == WordsOf[query] \ (Vertical.modifiers \cup Vertical.markets)
Modifiers(query) == WordsOf[query] \cap Vertical.modifiers

Share(words, text) == Cardinality(words \cap text)
Larger(a, b) == IF a >= b THEN a ELSE b

HostWords(page) == IF page.host = NoHost THEN {} ELSE page.hostWords

\* score_source, times 100 * Cardinality(topic) * Cardinality(modifiers).
Reaches(query, page, threshold) ==
  LET topic == Topic(query)
      modifiers == Modifiers(query)
      n == Cardinality(topic)
      k == Larger(Cardinality(modifiers), 1)
      title == Share(topic, page.title)
      body == Share(topic, page.body)
      fit == Larger(Larger(60 * title + 40 * body, 85 * body),
                    35 * Share(topic, HostWords(page)))
  IN fit * k + 15 * n * Share(modifiers, page.title \cup page.body)
       >= threshold * n * k

Relevance(query, page) ==
  FirstOf(<< <<Topic(query) = {}, "UNKNOWN">>,
             <<Topic(query) \cap (page.title \cup page.body \cup HostWords(page)) = {},
               "IRRELEVANT">>,
             <<Reaches(query, page, RelevantAt), "RELEVANT">>,
             <<Reaches(query, page, LowAt), "LOW_RELEVANCE">> >>, "IRRELEVANT")

\* semantic_review: where it is enabled, the model is asked about the middle only.
Reviewed(verdict) ==
  IF verdict = "LOW_RELEVANCE"
  THEN {"RELEVANT", "LOW_RELEVANCE", "IRRELEVANT"} ELSE {verdict}

---------------------------------------------------------------------------
(* Who a page speaks as                                                    *)

Bare(host) == IF Head(host) = "www" THEN Tail(host) ELSE host
OneOf(host, list) ==
  host \in list.hosts \/ \E s \in list.suffixes : IsStrictSuffix(s, host)

\* Known.community and Known.hinted are the hosts that end, as text, in a community
\* domain ("netflix.com" ends in "x.com") and those that hold a hint.
ClassifyDomain(page) ==
  LET host == Bare(page.host)
  IN IF page.host = NoHost
     THEN IF page.channel # "web" THEN "COMMUNITY" ELSE "UNKNOWN"
     ELSE FirstOf(<< <<OneOf(host, Known.official), "OFFICIAL">>,
                     <<OneOf(host, Known.institutional), "INSTITUTIONAL">>,
                     <<host \in Known.community \/ page.channel # "web",
                       "COMMUNITY">>,
                     <<host \in Known.hinted, "SPECIALIST">> >>, "COMMERCIAL")

\* What awaits ratification is no authority; a domain listed twice is its first entry.
Registry ==
  {Registered[i] : i \in {k \in DOMAIN Registered :
     /\ ~Registered[k].pending
     /\ \A j \in 1..(k - 1) : Registered[j].domain # Registered[k].domain}}

\* The entry with the longest domain the host is in.
Lookup(page) ==
  LET matches == IF page.host = NoHost THEN {}
                 ELSE {a \in Registry : IsSuffix(a.domain, Bare(page.host))}
  IN IF matches = {} THEN NoAuthority
     ELSE CHOOSE a \in matches : \A b \in matches : Len(a.domain) >= Len(b.domain)

SpeaksFor(authority, category) ==
  authority.categories = {} \/ category \in authority.categories

AuthorityQuality(authority) == IF authority.type = "UNKNOWN" THEN "UNKNOWN"
                               ELSE "OFFICIAL"

\* Mutant of SourceRegion: the region is read off the text, as for any page.
SourceRegionFromText(page) == DetectRegion(page.regions)

\* The jurisdiction of an authority is definitive, whatever its page mentions.
SourceRegion(page) ==
  LET authority == Lookup(page)
  IN IF authority # NoAuthority /\ authority.region # "UNKNOWN"
     THEN authority.region ELSE DetectRegion(page.regions)

SourceQuality(page) ==
  LET authority == Lookup(page)
  IN IF authority # NoAuthority THEN AuthorityQuality(authority)
     ELSE ClassifyDomain(page)

---------------------------------------------------------------------------
(* Passages and claims                                                     *)

\* Page furniture; a long block may mention a cookie in passing.
Furniture(block) ==
  \/ block.flags \cap {"short", "few words", "few letters", "list"} # {}
  \/ "boilerplate" \in block.flags /\ "long" \notin block.flags

Passages(page) ==
  LET Kept(block) == ~Furniture(block)
      Cut(block) == block.passages
  IN Concat(Mapped(Where(page.blocks, Kept), Cut))

\* A verb anywhere keeps a fragment; without one it must not look like a heading.
TitleFragment(form) ==
  /\ "verb" \notin form
  /\ form \cap {"separator", "capitals"} # {} \/ "ends" \notin form

Assertion(proposition) ==
  /\ proposition.form \cap {"short", "question", "call", "few words",
                            "flattened list", "worked example"} = {}
  /\ ~TitleFragment(proposition.form)

MaxClaims == 8

Extract(passage) == Shortened(Where(passage.propositions, Assertion), MaxClaims)

\* The same sentence twice is one claim, of the source that had it first.
Distinct(claims) ==
  At(claims, {i \in DOMAIN claims : \A j \in 1..(i - 1) :
                claims[j].text.wording # claims[i].text.wording})

---------------------------------------------------------------------------
(* The package of a list of sources, each [ref, page, query, official],    *)
(* under the verdicts recorded by reference                                *)

\* The id the provider gave, or else the place of the result in its answer.
Ref(provider, name, i) ==
  IF PageOf[name].id # NoRef THEN <<"given", PageOf[name].id>> ELSE <<provider, i>>

Named(provider, query, pages) ==
  [i \in DOMAIN pages |-> [ref |-> Ref(provider, pages[i], i), page |-> pages[i],
                           query |-> query, official |-> FALSE]]

\* A later source of the same reference takes the place of an earlier one.
Winner(sources, eligible, ref) ==
  CHOOSE i \in eligible : sources[i].ref = ref
                          /\ \A j \in eligible : sources[j].ref = ref => j <= i

Evidence(page) ==
  LET Text(passage) == passage.text
  IN [passages |-> Mapped(Passages(page), Text), quality |-> SourceQuality(page),
      region |-> SourceRegion(page), freshness |-> Freshness(page)]

\* The claims of eligible sources only, in the order their references appeared.
ClaimsOf(sources, eligible) ==
  LET First(i) == \A j \in eligible : sources[j].ref = sources[i].ref => i <= j
      Of(s) == LET page == PageOf[sources[Winner(sources, eligible, s.ref)].page]
                   claim(text) == [text |-> text, ref |-> s.ref]
               IN Mapped(Concat(Mapped(Passages(page), Extract)), claim)
  IN Distinct(Concat(Mapped(At(sources, {i \in eligible : First(i)}), Of)))

Build(sources, decisions) ==
  LET eligible == {i \in DOMAIN sources : decisions[sources[i].ref] = "RELEVANT"}
      page(ref) == PageOf[sources[Winner(sources, eligible, ref)].page]
      evidence == [ref \in {sources[i].ref : i \in eligible} |-> Evidence(page(ref))]
      found == ClaimsOf(sources, eligible)
  IN [entries |-> [i \in DOMAIN sources |->
                     [source |-> sources[i], status |-> decisions[sources[i].ref]]],
      claims |-> [i \in DOMAIN found |-> Evaluate(found[i].text, evidence, Market)],
      origins |-> [i \in DOMAIN found |-> found[i].ref]]

---------------------------------------------------------------------------
(* The official searches a package asks for                                *)

PriceAnswer == {"OBSERVED_PRICE_RANGE", "MARKET_AVERAGE", "MARKET_PRICE",
                "VENDOR_PRICE"}

\* A price question that no supported, usable price answers.
PriceGap(claims) ==
  /\ PriceQuestion
  /\ \A i \in DOMAIN claims :
        ~(/\ claims[i].needs.category \in PriceAnswer
          /\ claims[i].status = "SUPPORTED"
          /\ Has(claims[i].text, "usable price"))

Wanted(claims) ==
  LET wanted(c) == /\ c.status # "SUPPORTED"
                   /\ \/ Unresolved(c)
                      \/ PriceGap(claims) /\ c.needs.category \in PriceAnswer
  IN Where(claims, wanted)

\* The most blocked category first; of two alike, the one met first.
ByNeed(claims) ==
  LET category(i) == claims[i].needs.category
      all == {category(i) : i \in DOMAIN claims}
      those(c) == {i \in DOMAIN claims : category(i) = c}
      first(c) == CHOOSE i \in those(c) : \A j \in those(c) : i <= j
      precedes(c, d) ==
        \/ Cardinality(those(c)) > Cardinality(those(d))
        \/ Cardinality(those(c)) = Cardinality(those(d)) /\ first(c) < first(d)
  IN Ranked(all, {p \in all \X all : precedes(p[1], p[2])})

Propose(plan, category, variant) ==
  LET key == <<category, variant>>
  IN IF \/ key \notin DOMAIN Template
        \/ \E i \in DOMAIN plan : plan[i].query = Template[key]
     THEN plan
     ELSE Append(plan, [query |-> Template[key], category |-> category])

\* The ceiling is tested before a category and before each of its variants, and not
\* again before the national search that follows them.
ForCategory(plan, category) ==
  LET try(p, variant) == IF Len(p) >= MaxQueries THEN p
                         ELSE Propose(p, category, variant)
  IN IF Len(plan) >= MaxQueries THEN plan
     ELSE Propose(try(try(try(plan, "WAL"), "BRU"), "VLG"), category, "national")

Plan(claims) ==
  LET categories == ByNeed(Wanted(claims))
      after[k \in 0..Len(categories)] ==
        IF k = 0 THEN <<>> ELSE ForCategory(after[k - 1], categories[k])
  IN IF Registered = <<>> THEN <<>> ELSE after[Len(categories)]
=============================================================================
