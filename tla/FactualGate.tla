---------------------------- MODULE FactualGate -----------------------------
(***************************************************************************)
(* The deterministic factual gate (services/factual_qa_v2.py): which       *)
(* sentences of a draft the claims of its package carry.                   *)
(*                                                                         *)
(* A body is a sequence of paragraphs, each a sequence of sentences.  A    *)
(* sentence, like the text of a claim (see Claims), is a record with       *)
(*   words     its words of more than four letters                        *)
(*   numbers   its figures of two digits or more that are no years         *)
(*   amounts   its figures outside ranges, [digits, unit], where unit may  *)
(*             be "bare" or "year"                                        *)
(*   ranges    its ranges, [low, high, unit]                               *)
(*   marks     factual, calculation, payback, without support, digits      *)
(*   regions   the regions it names                                        *)
(* Figures are compared as the digits they are written with.               *)
(***************************************************************************)
EXTENDS Claims

CONSTANTS
    MaxSentences,   \* of the factual sentences of a body, the first 60 are read
    MatchMargin     \* _MATCH_MARGIN, in hundredths

ASSUME GateAssumption == MaxSentences \in Nat /\ MatchMargin \in 0..79
---------------------------------------------------------------------------
(* The figures a source must carry                                         *)

Ends(range) == {range.low, range.high}

\* What is at risk in a sentence: amounts with a unit, years, both ends of a range.
Segments(s) ==
  {a.digits : a \in {b \in s.amounts : b.unit # "bare"}}
    \cup UNION {Ends(r) : r \in s.ranges}

UnitsOf(s, digits) ==
  {a.unit : a \in {b \in s.amounts : b.digits = digits /\ b.unit # "bare"}}
    \cup {r.unit : r \in {q \in s.ranges : digits \in Ends(q)}}

\* Mutant of Carries: digits are compared without their unit.
CarriesDigits(claim, digits, s) ==
  digits \in {a.digits : a \in claim.amounts} \cup UNION {Ends(r) : r \in claim.ranges}

\* A claim carries a figure it states under a unit of the sentence, or in a range
\* that the sentence states in full.
Carries(claim, digits, s) ==
  \/ \E a \in claim.amounts : a.digits = digits /\ a.unit \in UnitsOf(s, digits)
  \/ \E r \in claim.ranges \cap s.ranges : digits \in Ends(r)

CarriesAll(claim, s) == \A digits \in Segments(s) : Carries(claim, digits, s)

---------------------------------------------------------------------------
(* Which claim a sentence states                                           *)

Matches(s, claim) ==
  LET shared == Cardinality(s.words \cap claim.words)
  IN \/ s.numbers # {} /\ shared >= 1 /\ s.numbers \subseteq claim.numbers
     \/ /\ shared >= 2
        /\ s.numbers # {} => s.numbers \cap claim.numbers # {}

\* _match_strength as a fraction, in hundredths: the words shared, and the figures
\* of the sentence that the claim has.
Strength(s, claim) ==
  LET shared == Cardinality(s.words \cap claim.words)
      all == Cardinality(s.words \cup claim.words)
      figures == Cardinality(s.numbers \cap claim.numbers)
      n == Cardinality(s.numbers)
  IN IF ~Matches(s, claim) THEN [over |-> 0, under |-> 1]
     ELSE IF n = 0 THEN [over |-> 60 * shared + 20 * all, under |-> all]
     ELSE [over |-> 60 * shared * n + 40 * figures * all, under |-> all * n]

\* a - b > margin
Exceeds(a, b, margin) ==
  a.over * b.under - b.over * a.under > margin * a.under * b.under

\* The supported readings of a sentence, claim apart, that state its figures.
Rivals(s, claim, supported) ==
  {c \in supported : c # claim /\ Matches(s, c.text) /\ CarriesAll(c.text, s)}

\* Mutant of Arbitrate: of two equal readings, the supported one is preferred.
ArbitrateForTheRival(s, claim, supported) ==
  IF \A r \in Rivals(s, claim, supported) :
        Exceeds(Strength(s, claim.text), Strength(s, r.text), MatchMargin)
  THEN "ASSERTED" ELSE "RIVAL"

\* Is a sentence that matches a claim the claim, or a supported one?
Arbitrate(s, claim, supported) ==
  LET this == Strength(s, claim.text)
      rivals == Rivals(s, claim, supported)
      strengths == {Strength(s, r.text) : r \in rivals}
  IN FirstOf(<< <<\A b \in strengths \cup {[over |-> 0, under |-> 1]} :
                     Exceeds(this, b, MatchMargin), "ASSERTED">>,
                <<\E b \in strengths : Exceeds(b, this, MatchMargin), "RIVAL">>,
                <<rivals = {}, "UNREAD">>,
                <<~CarriesAll(claim.text, s), "RIVAL">> >>, "AMBIGUOUS")

---------------------------------------------------------------------------
(* Sentences, and the region a reader carries from one to the next         *)

Sentences(body) == Concat(body)
Factual(s) == Has(s, "factual")
Examined(body) == Shortened(Where(Sentences(body), Factual), MaxSentences)

\* The one region named by the last sentence before the i-th to name any.
Carried(paragraph, i) ==
  LET named(j) == paragraph[j].regions \cap Subnational
      before == {j \in 1..(i - 1) : named(j) # {}}
  IN IF before = {} THEN {}
     ELSE LET last == CHOOSE j \in before : \A k \in before : k <= j
          IN IF Cardinality(named(last)) = 1 THEN named(last) ELSE {}

\* paragraph_scopes: a sentence written twice has the scope of its first place.
Scope(body, s) ==
  LET at == {p \in DOMAIN body : s \in ToSet(body[p])}
      p == CHOOSE q \in at : \A r \in at : q <= r
      i == CHOOSE j \in DOMAIN body[p] :
             body[p][j] = s /\ \A k \in 1..(j - 1) : body[p][k] # s
  IN Carried(body[p], i)

---------------------------------------------------------------------------
(* The checks: the codes each of them raises, all of which block           *)

Charge(code, verdict) ==
  FirstOf(<< <<verdict = "ASSERTED", {code}>>,
             <<verdict = "AMBIGUOUS", {"AMBIGUOUS_MATCH"}>> >>, {})

\* _reading: one asserting sentence is enough.
Reading(body, claim, supported) ==
  LET verdicts == {Arbitrate(s, claim, supported) :
                     s \in {t \in ToSet(Examined(body)) : Matches(t, claim.text)}}
  IN FirstOf(<< <<"ASSERTED" \in verdicts, "ASSERTED">>,
                <<"AMBIGUOUS" \in verdicts, "AMBIGUOUS">> >>, "RIVAL")

RefusedClaim(body, claim, supported) ==
  LET verdict == Reading(body, claim, supported)
  IN (IF Unresolved(claim) THEN Charge("HIGH_RISK_CLAIM_ASSERTED", verdict) ELSE {})
       \cup IF claim.status = "CONFLICTING"
            THEN Charge("CONFLICTING_EVIDENCE_ASSERTED", verdict) ELSE {}

\* The first sentence that matches a regional claim answers for all of them.
RegionalScope(body, claim, supported) ==
  LET matching(s) == Matches(s, claim.text)
      found == Where(Examined(body), matching)
  IN IF \/ ~claim.needs.regional \/ claim.region \notin Subnational
        \/ found = <<>>
     THEN {}
     ELSE LET s == Head(found)
          IN IF claim.region \in s.regions \cup Scope(body, s) THEN {}
             ELSE Charge("REGIONAL_SCOPE_NOT_STATED", Arbitrate(s, claim, supported))

Untraced(body, supported) ==
  IF \E s \in ToSet(Examined(body)) : \A c \in supported : ~Matches(s, c.text)
  THEN {"UNSUPPORTED_DRAFT_CLAIM"} ELSE {}

\* Each figure may be carried by a claim of its own; a calculation vouches for all
\* the figures of its sentence.
NumberWithoutSource(body, supported) ==
  IF \E s \in ToSet(Sentences(body)) :
        /\ ~Has(s, "calculation")
        /\ \E d \in Segments(s) : \A c \in supported : ~Carries(c.text, d, s)
  THEN {"NUMBER_WITHOUT_SOURCE"} ELSE {}

\* Digits, and no figure read anywhere: the extractor, not the body, is at fault.
NothingExtracted(body) ==
  IF /\ \E s \in ToSet(Sentences(body)) : Has(s, "digits")
     /\ \A s \in ToSet(Sentences(body)) : Segments(s) = {} /\ s.numbers = {}
  THEN {"NUMERIC_EXTRACTION_FAILED"} ELSE {}

HasDatedSupport(claim) ==
  \E e \in Supporters(claim.evidence) : e.freshness \in SupportsThePresent

\* A payback or a rate stated by claims none of which has a date.
UndatedPayback(body, supported) ==
  LET states(s, c) == IF Segments(s) # {} THEN CarriesAll(c.text, s)
                      ELSE Matches(s, c.text)
      isPayback(s) ==
        /\ Has(s, "payback")
        /\ \/ Segments(s) = {}
           \/ \E d \in Segments(s) : UnitsOf(s, d) \cap {"duration", "percent"} # {}
      undated(s) == LET carriers == {c \in supported : states(s, c)}
                    IN carriers # {} /\ \A c \in carriers : ~HasDatedSupport(c)
  IN IF \E s \in ToSet(Examined(body)) : isPayback(s) /\ undated(s)
     THEN {"ROI_WITHOUT_DATED_SOURCE"} ELSE {}

IsOfficial(claim) == \E e \in Supporters(claim.evidence) : e.quality = "OFFICIAL"

\* Only an authority may say that public support is not needed.
SupportFree(body, supported) ==
  IF \E s \in ToSet(Sentences(body)) :
        /\ Has(s, "without support")
        /\ \A c \in supported : ~(/\ Matches(s, c.text) /\ IsOfficial(c)
                                  /\ Has(c.text, "without support"))
  THEN {"SUPPORT_FREE_CLAIM_WITHOUT_OFFICIAL_SOURCE"} ELSE {}

NoSupportedClaims(body, supported) ==
  IF supported = {} /\ Examined(body) # <<>> THEN {"NO_SUPPORTED_CLAIMS"} ELSE {}

\* run_factual_qa_v2: a draft passes when nothing is found.
Findings(body, claims) ==
  LET supported == {c \in ToSet(claims) : c.status = "SUPPORTED"}
      charged(c) == RefusedClaim(body, c, supported) \cup RegionalScope(body, c, supported)
  IN (UNION {charged(c) : c \in ToSet(claims)})
       \cup Untraced(body, supported)
       \cup NumberWithoutSource(body, supported) \cup NothingExtracted(body)
       \cup UndatedPayback(body, supported) \cup SupportFree(body, supported)
       \cup NoSupportedClaims(body, supported)
=============================================================================
