------------------------------- MODULE Claims -------------------------------
(***************************************************************************)
(* What a sentence claims, what such a claim needs, and what a set of     *)
(* passages establishes (services/claim_policy.py, region.py,             *)
(* freshness.py, claim_matching.py, conflict.py, evidence_model.py).      *)
(*                                                                         *)
(* A text is a record of what the rules read off it:                       *)
(*   wording   its normal form           marks     the phrase families it  *)
(*   terms     categories one of whose             contains                *)
(*             configured terms it has   hints     the same for the        *)
(*   regions   regions it names                    universal vocabulary    *)
(*   topic, generic   its words          figures   its typed quantities    *)
(*   head      its head concept, with the words of it in headWords         *)
(*   phrases   configured concepts       says      every phrase it has     *)
(*   units, years     what its figures are per, and the years it names     *)
(***************************************************************************)
EXTENDS Lists

CONSTANTS
    Vertical,   \* the configuration of the vertical
    Today,      \* [day, year]: the date of the run
    NoDate, NoPhrase

\* The value of the first rung whose condition holds.
FirstOf(rungs, otherwise) ==
  LET holds == {i \in DOMAIN rungs : rungs[i][1]}
  IN IF holds = {} THEN otherwise
     ELSE rungs[CHOOSE i \in holds : \A j \in holds : i <= j][2]

---------------------------------------------------------------------------
(* Regions                                                                 *)

Subnational == {"BE-WAL", "BE-BRU", "BE-VLG"}
Region == Subnational \cup {"BE", "FR", "NL", "UNKNOWN"}

\* Evidence of region r may support a claim about region s: never upwards.
Covers(r, s) ==
  /\ r # "UNKNOWN" /\ s # "UNKNOWN"
  /\ r = s \/ (r = "BE" /\ s \in Subnational)

\* The one region a text is about: a text that names several is national.
DetectRegion(named) ==
  LET sub == named \cap Subnational
  IN IF \E r \in sub : sub = {r} THEN CHOOSE r \in sub : TRUE
     ELSE IF sub # {} \/ "BE" \in named THEN "BE" ELSE "UNKNOWN"

---------------------------------------------------------------------------
(* Categories and what they require                                        *)

Has(text, mark) == mark \in text.marks

GuaranteesOutcome(text) == Has(text, "guaranteed outcome")
PromisesFinancing(text) == Has(text, "financing")
PromisesContract(text) == Has(text, "contract")
PromisesAcceptance(text) == Has(text, "acceptance")

\* "TVAC" qualifies a price; only a sentence about the rate is about tax.
VatQualifiesPrice(text) == Has(text, "vat qualifier") /\ ~Has(text, "tax rate")

Unspecified == "UNSPECIFIED"

\* The first category, in the order configured, with a term in the text.
InOrder(order, found) ==
  FirstOf([i \in DOMAIN order |-> <<order[i] \in found, order[i]>>], Unspecified)

UniversalOrder == <<"SUBSIDY", "TAX", "REGULATION", "GRID_RULE", "ELIGIBILITY",
                    "GUARANTEED_SAVINGS", "ROI", "ENERGY_PRICE">>

PriceCategory(text) ==
  FirstOf(<< <<Has(text, "vendor"), "VENDOR_PRICE">>,
             <<Has(text, "average"), "MARKET_AVERAGE">>,
             <<Has(text, "range"), "OBSERVED_PRICE_RANGE">> >>, "MARKET_PRICE")

\* Promises outrank every dictionary, the vertical's words the universal ones.
Category(text) ==
  LET excluded == IF VatQualifiesPrice(text) THEN {"TAX"} ELSE {}
      configured == InOrder(Vertical.order, text.terms \ excluded)
      universal == InOrder(UniversalOrder, text.hints \ excluded)
  IN FirstOf(<< <<GuaranteesOutcome(text), "GUARANTEED_SAVINGS">>,
                <<PromisesFinancing(text), "FINANCING_PROMISE">>,
                <<PromisesContract(text), "CONTRACT_PROMISE">>,
                <<PromisesAcceptance(text), "ELIGIBILITY">>,
                <<configured # Unspecified, configured>>,
                <<universal # Unspecified, universal>>,
                <<Has(text, "money"), PriceCategory(text)>> >>, "GENERAL")

Bar(risk, authority, freshness, minimum) ==
  [risk |-> risk, authority |-> authority, freshness |-> freshness,
   minimum |-> minimum]

Regulated == Bar("HIGH", "OFFICIAL", "REQUIRED", 1)

\* The categories some code can assign; a vertical that configures another one
\* (TARIFF, GRID_FEE) stops at the lookup.
Policy ==
  [SUBSIDY |-> Regulated, TAX |-> Regulated, REGULATION |-> Regulated,
   GRID_RULE |-> Regulated, ELIGIBILITY |-> Regulated,
   FINANCING_PROMISE |-> Regulated, CONTRACT_PROMISE |-> Regulated,
   GUARANTEED_SAVINGS |-> Bar("HIGH", "INSTITUTIONAL", "REQUIRED", 2),
   ROI |-> Bar("HIGH", "INSTITUTIONAL", "REQUIRED", 2),
   ENERGY_PRICE |-> Bar("HIGH", "INSTITUTIONAL", "REQUIRED", 1),
   MARKET_AVERAGE |-> Bar("MEDIUM", "SPECIALIST", "PREFERRED", 3),
   MARKET_PRICE |-> Bar("MEDIUM", "SPECIALIST", "PREFERRED", 2),
   OBSERVED_PRICE_RANGE |-> Bar("LOW", "SPECIALIST", "PREFERRED", 1),
   VENDOR_PRICE |-> Bar("LOW", "ANY", "PREFERRED", 1),
   PRODUCT_SPEC |-> Bar("LOW", "SPECIALIST", "NOT_REQUIRED", 1),
   GENERAL |-> Bar("LOW", "ANY", "NOT_REQUIRED", 1)]

ASSUME VerticalAssumption ==
  /\ IsList(Vertical.order)
  /\ \A i \in DOMAIN Vertical.order : Vertical.order[i] \in DOMAIN Policy

\* The default bar of a category, each part of which the vertical may override.
BarOf(c) ==
  LET own == IF c \in DOMAIN Vertical.overrides THEN Vertical.overrides[c] ELSE <<>>
  IN [part \in {"risk", "authority", "freshness", "minimum"} |->
        IF part \in DOMAIN own THEN own[part] ELSE Policy[c][part]]

Requirements(text) ==
  LET c == Category(text)
  IN [category |-> c, bar |-> BarOf(c), regional |-> c \in Vertical.regional]

QualityRank == [OFFICIAL |-> 5, INSTITUTIONAL |-> 4, SPECIALIST |-> 3,
                COMMERCIAL |-> 2, COMMUNITY |-> 1, UNKNOWN |-> 0]
AuthorityRank == [ANY |-> 0, SPECIALIST |-> 3, INSTITUTIONAL |-> 4, OFFICIAL |-> 5]

AuthoritySuffices(authority, quality) ==
  QualityRank[quality] >= AuthorityRank[authority]

---------------------------------------------------------------------------
(* Freshness of a page                                                     *)

Before(date, day) == date # NoDate /\ date < day
After(date, day) == date # NoDate /\ date > day

\* The year in a URL vouches for a page this year and the next.
RecentAddress(page) == page.urlYear # NoDate /\ page.urlYear >= Today.year - 1

\* Where a stated end cannot be read as a date, the years in it count.
EndedByYear(page) ==
  /\ page.until = NoDate /\ page.untilYears # {}
  /\ \A y \in page.untilYears : y < Today.year

\* Mutant of Freshness: the end of a validity is not compared with today.
FreshnessNeverEnds(page) ==
  FirstOf(<< <<page.historical, "HISTORICAL">>,
             <<After(page.from, Today.day), "DATED_FUTURE">>,
             <<page.from # NoDate, "DATED_CURRENT">>,
             <<page.published \/ page.updated, "DATED_CURRENT">>,
             <<RecentAddress(page), "DATED_CURRENT">>,
             <<page.current, "UNDATED_CURRENT">> >>, "UNDATED")

Freshness(page) ==
  FirstOf(<< <<page.historical, "HISTORICAL">>,
             <<Before(page.until, Today.day) \/ EndedByYear(page), "DATED_EXPIRED">>,
             <<After(page.from, Today.day), "DATED_FUTURE">>,
             <<page.from # NoDate, "DATED_CURRENT">>,
             <<page.published \/ page.updated, "DATED_CURRENT">>,
             <<RecentAddress(page), "DATED_CURRENT">>,
             <<page.current, "UNDATED_CURRENT">> >>, "UNDATED")

SupportsThePresent == {"DATED_CURRENT", "UNDATED_CURRENT"}

---------------------------------------------------------------------------
(* Whether a passage bears on a claim                                      *)

\* Categories whose passages may evidence a claim of another; a claim of a
\* category not listed here takes any.
CrossEvidence ==
  [SUBSIDY |-> {"SUBSIDY", "ELIGIBILITY", "REGULATION"},
   ELIGIBILITY |-> {"ELIGIBILITY", "SUBSIDY", "REGULATION"},
   GRID_RULE |-> {"GRID_RULE", "TARIFF", "GRID_FEE", "REGULATION"},
   MARKET_PRICE |-> {"MARKET_PRICE", "OBSERVED_PRICE_RANGE"},
   MARKET_AVERAGE |-> {"MARKET_AVERAGE", "OBSERVED_PRICE_RANGE", "MARKET_PRICE"},
   OBSERVED_PRICE_RANGE |-> {"OBSERVED_PRICE_RANGE", "MARKET_PRICE"},
   VENDOR_PRICE |-> {"VENDOR_PRICE"},
   ROI |-> {"ROI", "ENERGY_PRICE"},
   TAX |-> {"TAX", "REGULATION"}]

Compatible(c, d) == c \in DOMAIN CrossEvidence => d \in CrossEvidence[c]

SharesHead(claim, passage) ==
  /\ claim.head # NoPhrase
  /\ claim.head \in passage.says \/ claim.phrases \cap passage.phrases # {}

\* Same subject and enough of the same predicate; without the head concept, the
\* words must carry it alone.
Aligned(claim, passage) ==
  LET shared == claim.topic \cap passage.topic
      rest == claim.topic \ claim.headWords
  IN IF SharesHead(claim, passage)
     THEN 100 * Cardinality(rest \cap passage.topic) >= 34 * Cardinality(rest)
     ELSE /\ shared # {}
          /\ \/ Cardinality(claim.topic) < 3 /\ shared = claim.topic
             \/ Cardinality(shared) >= 3
                /\ 2 * Cardinality(shared) >= Cardinality(claim.topic)

Verdict(supports, agrees) == [supports |-> supports, agrees |-> agrees]
Unrelated == Verdict(FALSE, "SILENT")

\* Figures are compared only with figures of a type the claim carries.
CompareFigures(claim, passage) ==
  LET types == {n.type : n \in claim.figures}
      comparable == {n \in passage.figures : n.type \in types}
  IN IF claim.figures = {} THEN Verdict(TRUE, "SILENT")
     ELSE IF comparable = {} THEN Unrelated
     ELSE IF {n.digits : n \in claim.figures} \cap {n.digits : n \in comparable} # {}
          THEN Verdict(TRUE, "YES") ELSE Verdict(FALSE, "NO")

\* A passage of a page of region r against a claim of category c.
Match(claim, c, passage, r) ==
  LET named == DetectRegion(claim.regions)
  IN IF \/ named # "UNKNOWN" /\ r # "UNKNOWN" /\ ~Covers(r, named)
        \/ ~Compatible(c, Category(passage))
        \/ ~Aligned(claim, passage)
     THEN Unrelated ELSE CompareFigures(claim, passage)

---------------------------------------------------------------------------
(* The evidence for a claim, and what it establishes                       *)

\* The first passage of a page that supports the claim, else the first passage.
Best(claim, c, source) ==
  LET at(i) == Match(claim, c, source.passages[i], source.region)
      i == FirstOf([k \in DOMAIN source.passages |-> <<at(k).supports, k>>], 1)
  IN [passage |-> source.passages[i], supports |-> at(i).supports,
      agrees |-> at(i).agrees]

\* One reference for every eligible source that states or denies the claim.
Candidates(claim, sources) ==
  LET c == Category(claim)
      reference(ref) ==
        LET s == sources[ref]
            best == Best(claim, c, s)
        IN [ref |-> ref, quality |-> s.quality, region |-> s.region,
            freshness |-> s.freshness, passage |-> best.passage,
            supports |-> best.supports, agrees |-> best.agrees]
  IN {e \in {reference(ref) : ref \in {k \in DOMAIN sources :
                                         sources[k].passages # <<>>}} :
        e.supports \/ e.agrees # "SILENT"}

Disjoint(a, b) == a # {} /\ b # {} /\ a \cap b = {}

\* Why two figures differ; only the last kind blocks a claim.
ConflictKind(claim, region, e) ==
  FirstOf(<< << /\ region # "UNKNOWN" /\ e.region # "UNKNOWN"
                /\ ~Covers(region, e.region) /\ ~Covers(e.region, region),
                "REGIONAL_DIFFERENCE">>,
             <<Disjoint(claim.units, e.passage.units), "SCOPE_DIFFERENCE">>,
             <<Disjoint(claim.years, e.passage.years), "TIME_DIFFERENCE">>,
             <<claim.wording = e.passage.wording, "WORDING_VARIATION">> >>,
          "TRUE_CONFLICT")

Supporters(candidates) == {e \in candidates : e.supports}

\* A claim that names no region, where regions decide, is the claim of the only
\* region its evidence covers; otherwise it is the market's.
ClaimRegion(claim, needs, candidates, market) ==
  LET stated == DetectRegion(claim.regions)
      local == {e.region : e \in Supporters(candidates)} \cap Subnational
  IN IF stated # "UNKNOWN" THEN stated
     ELSE IF needs.regional /\ \E r \in local : local = {r}
          THEN CHOOSE r \in local : TRUE
          ELSE market

TrueConflicts(claim, region, candidates) ==
  {e \in candidates : /\ ~e.supports /\ e.agrees = "NO"
                      /\ ConflictKind(claim, region, e) = "TRUE_CONFLICT"}

\* Where a false generalisation is a false statement of law, scope is enforced.
InScope(needs, region, supporters) ==
  IF needs.bar.risk = "HIGH" /\ region # "UNKNOWN"
  THEN {e \in supporters : e.region = "UNKNOWN" \/ Covers(e.region, region)}
  ELSE supporters

Sufficient(needs, evidence) ==
  {e \in evidence : AuthoritySuffices(needs.bar.authority, e.quality)}

\* An official source speaks for itself.
Corroborated(needs, supporters, inScope) ==
  \/ Cardinality({e.ref : e \in supporters}) >= needs.bar.minimum
  \/ \E e \in inScope : e.quality = "OFFICIAL"

Current(needs, evidence) ==
  needs.bar.freshness = "REQUIRED" =>
    \E e \in evidence : e.freshness \in SupportsThePresent

Status(claim, needs, region, candidates) ==
  LET supporters == Supporters(candidates)
      inScope == InScope(needs, region, supporters)
  IN FirstOf(<< <<TrueConflicts(claim, region, candidates) # {}, "CONFLICTING">>,
                <<supporters = {}, "UNSUPPORTED">>,
                <<inScope = {}, "UNSUPPORTED">>,
                <<Sufficient(needs, inScope) = {}, "UNSUPPORTED">>,
                <<~Corroborated(needs, supporters, inScope), "PARTIALLY_SUPPORTED">>,
                <<~Current(needs, inScope), "PARTIALLY_SUPPORTED">> >>,
             "SUPPORTED")

\* A claim against the eligible sources of a package.
Evaluate(claim, sources, market) ==
  LET needs == Requirements(claim)
      candidates == Candidates(claim, sources)
      region == ClaimRegion(claim, needs, candidates, market)
  IN [text |-> claim, needs |-> needs, region |-> region, evidence |-> candidates,
      status |-> Status(claim, needs, region, candidates)]

Unresolved(claim) == claim.needs.bar.risk = "HIGH" /\ claim.status # "SUPPORTED"
=============================================================================
