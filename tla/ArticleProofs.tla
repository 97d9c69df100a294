---------------------------- MODULE ArticleProofs ----------------------------
(***************************************************************************)
(* Theorems about Article and the research under it, for every            *)
(* configuration, every page and every answer of a provider.               *)
(***************************************************************************)
EXTENDS Article, EvidenceProofs

-----------------------------------------------------------------------------
(* The research of an article                                              *)

LEMMA ArticleKept == ArticleSpec => []Kept
<1>1. ArticleInit => Kept
  BY InitKept DEF ArticleInit
<1>2. ASSUME Kept, [ArticleNext]_articleVars PROVE Kept'
  <2>1. [Next]_vars
    BY <1>2 DEF ArticleNext, articleVars, Research, WriteAndJudge
  <2> QED BY <1>2, <2>1, ResearchKept
<1> QED BY <1>1, <1>2, PTL DEF ArticleSpec

\* At every moment of a job its sources are well formed, each has a verdict, the claims
\* of its package have a status and a region, and no round is planned beyond the ceiling
\* and the one search that is not counted (research_planner.py 142).
THEOREM TypeCorrect == ArticleSpec => []TypeOK
BY ArticleKept, KeptIsTyped, PTL

\* Whatever is cited for or against a claim stands in a page that was on the topic of
\* the search that fetched it, although references are used again and one verdict is
\* kept for each (pipeline_v2.py 532, package_builder_v3.py 78).
THEOREM CitedWasAdmitted == ArticleSpec => []EvidenceWasAdmitted
BY ArticleKept, KeptIsAdmitted, PTL

\* In every package of a job, an established claim rests on a single page that was
\* admitted by its own verdict, holds the passage cited, has by itself the authority the
\* claim needs and, where the place matters, is not by an authority of another one
\* (package_builder_v3.py 78 to 110, evidence_model.py 340 to 400).
THEOREM OnePageEstablishes == ArticleSpec => []EstablishedByOnePage
BY ArticleKept, KeptIsEstablished, PTL

\* No search is launched twice in a job, whatever the second plan proposes again
\* (research_planner.py 264).
THEOREM NeverAskedTwice == ArticleSpec => []AskedOnce
<1>1. Kept => AskedOnce
  BY DEF Kept, RoundKept
<1> QED BY <1>1, ArticleKept, PTL

\* The last source of a reference has the verdict of its own page on its own query.
LastIsJudgedOnItsOwn ==
  package # NoPackage =>
    \A i \in DOMAIN package.entries :
      LET entry == package.entries[i]
          own == OwnVerdict(entry.source)
      IN (\A j \in DOMAIN package.entries :
            package.entries[j].source.ref = entry.source.ref => j <= i)
           => entry.status \in IF entry.source.official THEN {own} ELSE Reviewed(own)

\* The scope of a defect: a source that is judged on a page other than its own is one
\* whose reference is used again by a later source (pipeline_v2.py 532).
THEOREM OnlySharedNamesMisjudge == ArticleSpec => []LastIsJudgedOnItsOwn
<1>1. ASSUME Kept PROVE LastIsJudgedOnItsOwn
  <2> SUFFICES ASSUME package # NoPackage PROVE LastIsJudgedOnItsOwn
    BY DEF LastIsJudgedOnItsOwn
  <2> DEFINE entries == package.entries
  <2>1. Sources(sources) /\ package = Build(sources, decisions) /\ Sound(sources, decisions)
    BY <1>1, KeptPackage DEF Packaged
  <2>2. entries = [i \in DOMAIN sources |-> [source |-> sources[i],
                                            status |-> decisions[sources[i].ref]]]
    BY <2>1 DEF Build
  <2> HIDE DEF entries
  <2>3. /\ DOMAIN entries = DOMAIN sources
        /\ \A i \in DOMAIN sources : /\ entries[i].source = sources[i]
                                     /\ entries[i].status = decisions[sources[i].ref]
    BY <2>2
  <2>4. ASSUME NEW i \in DOMAIN sources,
               \A j \in DOMAIN sources : sources[j].ref = sources[i].ref => j <= i
        PROVE  entries[i].status \in Allowed(sources[i])
    <3>1. IsLast(sources, i)
      BY <2>4 DEF IsLast
    <3> QED BY <2>1, <2>3, <3>1 DEF Sound
  <2> QED BY <2>3, <2>4 DEF LastIsJudgedOnItsOwn, Allowed, entries
<1> QED BY <1>1, ArticleKept, PTL

\* Every step of a job leaves it fewer steps to take.
EveryStepCounts == [][StepsLeft' \in Nat /\ StepsLeft' < StepsLeft]_vars

\* A job comes to an end: each of its steps counts down a number that starts at
\* 2 * MaxQueries + 10, whatever fails, comes back fruitless or is proposed again
\* (pipeline_v2.py 590 to 604).
THEOREM JobsRunOut == ArticleSpec => EveryStepCounts
<1>1. ASSUME Kept, [ArticleNext]_articleVars
      PROVE  [StepsLeft' \in Nat /\ StepsLeft' < StepsLeft]_vars
  <2>1. Next \/ UNCHANGED vars
    BY <1>1 DEF ArticleNext, articleVars, Research, WriteAndJudge
  <2> QED BY <1>1, <2>1, NextCounts
<1> QED BY <1>1, ArticleKept, PTL DEF ArticleSpec, EveryStepCounts

\* In every package of a job, a claim that depends on when it was published and is
\* established has a proof in a page that describes no rule that has ended
\* (evidence_model.py 388).
THEOREM EndedNeverCounts == ArticleSpec => []EndedRulesDoNotCount
BY ArticleKept, KeptIsCurrent, PTL

-----------------------------------------------------------------------------
(* The factual gate: a refused claim, repeated                             *)

Sized(text) == IsFiniteSet(text.words) /\ IsFiniteSet(text.numbers)

\* The counts that Strength compares.
LEMMA Counts ==
  ASSUME NEW s, NEW t, Sized(s), IsFiniteSet(t.words)
  PROVE  /\ Cardinality(s.words \cap t.words) \in Nat
         /\ Cardinality(s.words \cup t.words) \in Nat
         /\ Cardinality(s.words \cap t.words) <= Cardinality(s.words \cup t.words)
         /\ Cardinality(s.words) <= Cardinality(s.words \cup t.words)
         /\ Cardinality(s.numbers) \in Nat
         /\ Cardinality(s.numbers \cap t.numbers) \in Nat
         /\ Cardinality(s.numbers \cap t.numbers) <= Cardinality(s.numbers)
<1>1. IsFiniteSet(s.words \cup t.words)
  BY FS_Union DEF Sized
<1>2. s.words \cap t.words \in SUBSET (s.words \cup t.words)
      /\ s.words \in SUBSET (s.words \cup t.words)
      /\ s.numbers \cap t.numbers \in SUBSET s.numbers
  OBVIOUS
<1>3. /\ IsFiniteSet(s.words \cap t.words)
      /\ Cardinality(s.words \cap t.words) <= Cardinality(s.words \cup t.words)
      /\ Cardinality(s.words) <= Cardinality(s.words \cup t.words)
  BY <1>1, <1>2, FS_Subset
<1>4. /\ IsFiniteSet(s.numbers \cap t.numbers)
      /\ Cardinality(s.numbers \cap t.numbers) <= Cardinality(s.numbers)
  BY <1>2, FS_Subset DEF Sized
<1> QED BY <1>1, <1>3, <1>4, FS_CardinalityType DEF Sized

LEMMA Monotone ==
  ASSUME NEW a \in Nat, NEW b \in Nat, NEW c \in Nat, a <= b
  PROVE  a * c <= b * c /\ a * c \in Nat /\ b * c \in Nat
  OBVIOUS

\* No reading without figures is stronger than one that shares every word.
LEMMA WordsOnly ==
  ASSUME NEW w \in Nat, NEW sh \in Nat, NEW al \in Nat, sh <= al, NEW m \in Nat
  PROVE  ~ ((60 * sh + 20 * al) * w - (80 * w) * al > m * al * w)
<1>1. sh * w <= al * w /\ sh * w \in Nat /\ al * w \in Nat
  BY Monotone
<1>2. (60 * sh + 20 * al) * w = 60 * (sh * w) + 20 * (al * w)
  OBVIOUS
<1>3. (80 * w) * al = 80 * (al * w)
  OBVIOUS
<1>4. m * al * w \in Nat
  OBVIOUS
<1> QED BY <1>1, <1>2, <1>3, <1>4

\* Nor one with figures than one that shares every word and every figure.
LEMMA WithFigures ==
  ASSUME NEW w \in Nat, NEW sh \in Nat, NEW al \in Nat, sh <= al, NEW m \in Nat,
         NEW n \in Nat, NEW f \in Nat, f <= n
  PROVE  ~ ((60 * sh * n + 40 * f * al) * (w * n) - (100 * w * n) * (al * n)
              > m * (al * n) * (w * n))
<1> DEFINE u == w * n
<1>0. u \in Nat
  OBVIOUS
<1>1. sh * n <= al * n /\ sh * n \in Nat /\ al * n \in Nat
  BY Monotone
<1>2. f * al <= n * al /\ f * al \in Nat
  BY Monotone
<1>3. 60 * sh * n + 40 * f * al <= 100 * (al * n)
  <2>1. n * al = al * n /\ 60 * sh * n = 60 * (sh * n) /\ 40 * f * al = 40 * (f * al)
    OBVIOUS
  <2> QED BY <1>1, <1>2, <2>1
<1>4. 60 * sh * n + 40 * f * al \in Nat /\ 100 * (al * n) \in Nat
  BY <1>1, <1>2
<1>5. (60 * sh * n + 40 * f * al) * u <= (100 * (al * n)) * u
  BY <1>0, <1>3, <1>4, Monotone
<1>6. (100 * w * n) * (al * n) = (100 * (al * n)) * u
  OBVIOUS
<1>7. m * (al * n) * u \in Nat
  BY <1>0, <1>1
<1>8. (60 * sh * n + 40 * f * al) * u \in Int /\ (100 * (al * n)) * u \in Int
  BY <1>0, <1>4
<1> HIDE DEF u
<1> QED BY <1>5, <1>6, <1>7, <1>8 DEF u

\* A sentence says again what a text says: its words and its figures.
Repeats(s, text) ==
  /\ s.words = text.words /\ Cardinality(s.words) >= 2
  /\ s.numbers = text.numbers /\ CarriesAll(text, s)

LEMMA RepeatedStrength ==
  ASSUME NEW s, NEW text, Sized(s), Repeats(s, text)
  PROVE  LET w == Cardinality(s.words)
             n == Cardinality(s.numbers)
         IN /\ Matches(s, text)
            /\ w \in Nat /\ n \in Nat /\ w >= 2
            /\ n = 0 => Strength(s, text) = [over |-> 60 * w + 20 * w, under |-> w]
            /\ n # 0 => Strength(s, text) = [over |-> 60 * w * n + 40 * n * w,
                                             under |-> w * n]
<1> DEFINE w == Cardinality(s.words)
           n == Cardinality(s.numbers)
<1>1. /\ s.words \cap text.words = s.words /\ s.words \cup text.words = s.words
      /\ s.numbers \cap text.numbers = s.numbers
  BY DEF Repeats
<1>2. w \in Nat /\ n \in Nat /\ w >= 2 /\ (s.numbers # {} => n # 0)
  BY FS_CardinalityType, FS_EmptySet DEF Sized, Repeats
<1>3. Matches(s, text)
  BY <1>1, <1>2 DEF Matches, Repeats
<1>4. n = 0 => Strength(s, text) = [over |-> 60 * w + 20 * w, under |-> w]
  BY <1>1, <1>3 DEF Strength
<1>5. n # 0 => Strength(s, text) = [over |-> 60 * w * n + 40 * n * w, under |-> w * n]
  BY <1>1, <1>3 DEF Strength
<1> QED BY <1>2, <1>3, <1>4, <1>5

\* No text is a stronger reading of a sentence than the text it repeats.
LEMMA NoneStronger ==
  ASSUME NEW s, NEW text, NEW other, Sized(s), IsFiniteSet(other.words), Repeats(s, text)
  PROVE  ~ Exceeds(Strength(s, other), Strength(s, text), MatchMargin)
<1> DEFINE w == Cardinality(s.words)
           n == Cardinality(s.numbers)
           sh == Cardinality(s.words \cap other.words)
           al == Cardinality(s.words \cup other.words)
           f == Cardinality(s.numbers \cap other.numbers)
<1>1. /\ w \in Nat /\ n \in Nat /\ w >= 2
      /\ n = 0 => Strength(s, text) = [over |-> 60 * w + 20 * w, under |-> w]
      /\ n # 0 => Strength(s, text) = [over |-> 60 * w * n + 40 * n * w, under |-> w * n]
  BY RepeatedStrength
<1>2. /\ sh \in Nat /\ al \in Nat /\ sh <= al /\ f \in Nat /\ f <= n
  BY Counts
<1>3. MatchMargin \in Nat
  BY GateAssumption
<1>4. Strength(s, other) = IF ~ Matches(s, other) THEN [over |-> 0, under |-> 1]
                           ELSE IF n = 0
                           THEN [over |-> 60 * sh + 20 * al, under |-> al]
                           ELSE [over |-> 60 * sh * n + 40 * f * al, under |-> al * n]
  BY DEF Strength
<1> HIDE DEF w, n, sh, al, f
<1>5. CASE ~ Matches(s, other)
  <2>1. Strength(s, other) = [over |-> 0, under |-> 1]
    BY <1>4, <1>5
  <2>2. CASE n = 0
    <3>1. ~ (0 * w - (60 * w + 20 * w) * 1 > MatchMargin * 1 * w)
      <4>1. MatchMargin * 1 * w \in Nat
        BY <1>1, <1>3
      <4> QED BY <1>1, <4>1
    <3> QED BY <1>1, <2>1, <2>2, <3>1 DEF Exceeds
  <2>3. CASE n # 0
    <3>1. ~ (0 * (w * n) - (60 * w * n + 40 * n * w) * 1 > MatchMargin * 1 * (w * n))
      <4>1. w * n \in Nat /\ 60 * w * n \in Nat /\ 40 * n * w \in Nat
        BY <1>1
      <4>2. MatchMargin * 1 * (w * n) \in Nat
        BY <1>3, <4>1
      <4> QED BY <4>1, <4>2
    <3> QED BY <1>1, <2>1, <2>3, <3>1 DEF Exceeds
  <2> QED BY <2>2, <2>3
<1>6. CASE Matches(s, other) /\ n = 0
  <2>1. Strength(s, other) = [over |-> 60 * sh + 20 * al, under |-> al]
    BY <1>4, <1>6
  <2>2. ~ ((60 * sh + 20 * al) * w - (80 * w) * al > MatchMargin * al * w)
    BY <1>1, <1>2, <1>3, WordsOnly
  <2>3. 60 * w + 20 * w = 80 * w
    BY <1>1
  <2>4. Strength(s, text) = [over |-> 80 * w, under |-> w]
    BY <1>1, <1>6, <2>3
  <2> QED BY <2>1, <2>2, <2>4 DEF Exceeds
<1>7. CASE Matches(s, other) /\ n # 0
  <2>1. Strength(s, other) = [over |-> 60 * sh * n + 40 * f * al, under |-> al * n]
    BY <1>4, <1>7
  <2>2. ~ ((60 * sh * n + 40 * f * al) * (w * n) - (100 * w * n) * (al * n)
             > MatchMargin * (al * n) * (w * n))
    BY <1>1, <1>2, <1>3, WithFigures
  <2>3. 60 * w * n + 40 * n * w = 100 * w * n
    BY <1>1
  <2>4. Strength(s, text) = [over |-> 100 * w * n, under |-> w * n]
    BY <1>1, <1>7, <2>3
  <2> QED BY <2>1, <2>2, <2>4 DEF Exceeds
<1> QED BY <1>5, <1>6, <1>7

\* It exceeds no reading at all by more than the margin.
LEMMA StrongerThanNone ==
  ASSUME NEW s, NEW text, Sized(s), Repeats(s, text)
  PROVE  Exceeds(Strength(s, text), [over |-> 0, under |-> 1], MatchMargin)
<1> DEFINE w == Cardinality(s.words)
           n == Cardinality(s.numbers)
<1>1. /\ w \in Nat /\ n \in Nat /\ w >= 2
      /\ n = 0 => Strength(s, text) = [over |-> 60 * w + 20 * w, under |-> w]
      /\ n # 0 => Strength(s, text) = [over |-> 60 * w * n + 40 * n * w, under |-> w * n]
  BY RepeatedStrength
<1>2. MatchMargin \in 0..79
  BY GateAssumption
<1> HIDE DEF w, n
<1>3. MatchMargin * w <= 79 * w
  BY <1>1, <1>2, Monotone
<1>4. CASE n = 0
  <2>1. (60 * w + 20 * w) * 1 - 0 * w > MatchMargin * w * 1
    BY <1>1, <1>2, <1>3
  <2> QED BY <1>1, <1>4, <2>1 DEF Exceeds
<1>5. CASE n # 0
  <2> DEFINE u == w * n
  <2>1. u \in Nat /\ u >= 1
    BY <1>1, <1>5
  <2>2. 60 * w * n + 40 * n * w = 100 * u
    BY <1>1
  <2> HIDE DEF u
  <2>3. MatchMargin * u <= 79 * u /\ MatchMargin * u \in Nat
    BY <1>2, <2>1, Monotone
  <2>4. (100 * u) * 1 - 0 * u > MatchMargin * u * 1
    BY <2>1, <2>3
  <2>5. Strength(s, text) = [over |-> 100 * u, under |-> u]
    BY <1>1, <1>5, <2>2 DEF u
  <2> QED BY <2>4, <2>5 DEF Exceeds
<1> QED BY <1>4, <1>5

\* Such a sentence is never read as another claim, nor left unread.
LEMMA RepeatedIsRead ==
  ASSUME NEW s, NEW claim, NEW supported, Sized(s), Repeats(s, claim.text),
         \A c \in supported : IsFiniteSet(c.text.words)
  PROVE  Arbitrate(s, claim, supported) \in {"ASSERTED", "AMBIGUOUS"}
<1> DEFINE this == Strength(s, claim.text)
           rivals == Rivals(s, claim, supported)
           strengths == {Strength(s, r.text) : r \in rivals}
           rungs == << <<\A b \in strengths \cup {[over |-> 0, under |-> 1]} :
                            Exceeds(this, b, MatchMargin), "ASSERTED">>,
                       <<\E b \in strengths : Exceeds(b, this, MatchMargin), "RIVAL">>,
                       <<rivals = {}, "UNREAD">>,
                       <<~CarriesAll(claim.text, s), "RIVAL">> >>
<1>1. Arbitrate(s, claim, supported) = FirstOf(rungs, "AMBIGUOUS")
  BY DEF Arbitrate
<1>2. DOMAIN rungs = 1..4
  OBVIOUS
<1>3. \A b \in strengths : ~ Exceeds(b, this, MatchMargin)
  BY NoneStronger DEF Rivals
<1>4. rungs[2][1] = (\E b \in strengths : Exceeds(b, this, MatchMargin))
  OBVIOUS
<1>5. ~ rungs[2][1]
  BY <1>3, <1>4
<1>6. rungs[4][1] = (~ CarriesAll(claim.text, s))
  OBVIOUS
<1>7. ~ rungs[4][1]
  BY <1>6 DEF Repeats
<1>8. rungs[1][1] = (\A b \in strengths \cup {[over |-> 0, under |-> 1]} :
                        Exceeds(this, b, MatchMargin))
      /\ rungs[3][1] = (rivals = {})
  OBVIOUS
<1>9. rungs[3][1] => rungs[1][1]
  BY <1>8, StrongerThanNone
<1>10. rungs[1][2] = "ASSERTED"
  OBVIOUS
<1> HIDE DEF rungs
<1>11. \/ FirstOf(rungs, "AMBIGUOUS") = "AMBIGUOUS" /\ \A k \in 1..4 : ~ rungs[k][1]
       \/ \E i \in 1..4 : /\ rungs[i][1]
                          /\ \A j \in 1..4 : j < i => ~ rungs[j][1]
                          /\ FirstOf(rungs, "AMBIGUOUS") = rungs[i][2]
  <2>1. YieldsFirst(rungs, 4, "AMBIGUOUS")
    BY <1>2, Ladder
  <2> QED BY <2>1 DEF YieldsFirst
<1>12. ASSUME NEW i \in 1..4, rungs[i][1], \A j \in 1..4 : j < i => ~ rungs[j][1]
       PROVE  i = 1
  <2>1. i # 2 /\ i # 4
    BY <1>5, <1>7, <1>12
  <2>2. i # 3
    BY <1>9, <1>12
  <2> QED BY <2>1, <2>2
<1> QED BY <1>1, <1>10, <1>11, <1>12

\* Where one sentence of a draft is read as the claim or may be, the claim is charged.
LEMMA ReadIsCharged ==
  ASSUME NEW body, NEW claim, NEW supported, NEW code,
         NEW s \in ToSet(Examined(body)), Matches(s, claim.text),
         Arbitrate(s, claim, supported) \in {"ASSERTED", "AMBIGUOUS"}
  PROVE  Charge(code, Reading(body, claim, supported)) # {}
<1> DEFINE verdicts == {Arbitrate(t, claim, supported) :
                          t \in {r \in ToSet(Examined(body)) : Matches(r, claim.text)}}
           rungs == << <<"ASSERTED" \in verdicts, "ASSERTED">>,
                       <<"AMBIGUOUS" \in verdicts, "AMBIGUOUS">> >>
           reading == Reading(body, claim, supported)
<1>1. Arbitrate(s, claim, supported) \in verdicts
  OBVIOUS
<1>2. reading = FirstOf(rungs, "RIVAL") /\ DOMAIN rungs = 1..2
  BY DEF Reading
<1>3. rungs[1][1] = ("ASSERTED" \in verdicts) /\ rungs[2][1] = ("AMBIGUOUS" \in verdicts)
  OBVIOUS
<1>4. rungs[1][1] \/ rungs[2][1]
  BY <1>1, <1>3
<1>5. rungs[1][2] = "ASSERTED" /\ rungs[2][2] = "AMBIGUOUS"
  OBVIOUS
<1>6. reading \in {"ASSERTED", "AMBIGUOUS"}
  <2> HIDE DEF rungs, verdicts, reading
  <2>1. \/ FirstOf(rungs, "RIVAL") = "RIVAL" /\ \A k \in 1..2 : ~ rungs[k][1]
        \/ \E i \in 1..2 : /\ rungs[i][1]
                           /\ \A j \in 1..2 : j < i => ~ rungs[j][1]
                           /\ FirstOf(rungs, "RIVAL") = rungs[i][2]
    <3>1. YieldsFirst(rungs, 2, "RIVAL")
      BY <1>2, Ladder
    <3> QED BY <3>1 DEF YieldsFirst
  <2> QED BY <1>2, <1>4, <1>5, <2>1
<1> DEFINE charges == << <<reading = "ASSERTED", {code}>>,
                         <<reading = "AMBIGUOUS", {"AMBIGUOUS_MATCH"}>> >>
<1>7. Charge(code, reading) = FirstOf(charges, {}) /\ DOMAIN charges = 1..2
  BY DEF Charge
<1>8. charges[1][1] = (reading = "ASSERTED") /\ charges[2][1] = (reading = "AMBIGUOUS")
  OBVIOUS
<1>9. charges[1][1] \/ charges[2][1]
  BY <1>6, <1>8
<1>10. charges[1][2] # {} /\ charges[2][2] # {}
  OBVIOUS
<1> HIDE DEF charges, reading
<1>11. \/ FirstOf(charges, {}) = {} /\ \A k \in 1..2 : ~ charges[k][1]
       \/ \E i \in 1..2 : /\ charges[i][1]
                          /\ \A j \in 1..2 : j < i => ~ charges[j][1]
                          /\ FirstOf(charges, {}) = charges[i][2]
  <2>1. YieldsFirst(charges, 2, {})
    BY <1>7, Ladder
  <2> QED BY <2>1 DEF YieldsFirst
<1>12. Charge(code, reading) # {}
  BY <1>7, <1>9, <1>10, <1>11
<1> QED BY <1>12 DEF reading

\* A draft is refused where one of the sentences the gate reads repeats a claim that
\* the package refuses: whatever else it says, whatever claims are supported, however
\* many of them the sentence resembles (factual_qa_v2.py 424 to 500).
THEOREM RepeatedIsRefused ==
  ASSUME NEW body, NEW claims, NEW s \in ToSet(Examined(body)),
         NEW claim \in ToSet(claims), Unresolved(claim) \/ claim.status = "CONFLICTING",
         Repeats(s, claim.text), Sized(s),
         \A c \in ToSet(claims) : IsFiniteSet(c.text.words)
  PROVE  Findings(body, claims) # {}
<1> DEFINE supported == {c \in ToSet(claims) : c.status = "SUPPORTED"}
<1>1. Arbitrate(s, claim, supported) \in {"ASSERTED", "AMBIGUOUS"}
  BY RepeatedIsRead
<1>2. Matches(s, claim.text)
  BY RepeatedStrength
<1>3. \A code : Charge(code, Reading(body, claim, supported)) # {}
  BY <1>1, <1>2, ReadIsCharged
<1>4. RefusedClaim(body, claim, supported) # {}
  BY <1>3 DEF RefusedClaim
<1>5. RefusedClaim(body, claim, supported) \subseteq Findings(body, claims)
  BY DEF Findings
<1> QED BY <1>4, <1>5

-----------------------------------------------------------------------------
(* The verdict of a draft is that of the package it leaves                 *)

Judged ==
  draft # NoDraft =>
    /\ stage = "DONE" /\ draft \in Drafts
    /\ findings = Findings(draft.body, package.claims)
    /\ Objections(draft, package) \subseteq objections

LEMMA ArticleJudged == ArticleSpec => []Judged
<1>1. ArticleInit => Judged
  BY DEF ArticleInit, Judged
<1>2. ASSUME Judged, [ArticleNext]_articleVars PROVE Judged'
  <2>1. CASE Research
    <3>1. draft' = draft /\ findings' = findings /\ objections' = objections
      BY <2>1 DEF Research
    <3>2. stage # "DONE"
      BY <2>1 DEF Research, Next, SearchWeb, AskCommunity, Judge, StartRound, Ask, Fold,
                  GiveUp
    <3> QED BY <1>2, <3>1, <3>2 DEF Judged
  <2>2. CASE WriteAndJudge
    <3>1. PICK written \in Drafts :
            /\ draft' = written
            /\ findings' = Findings(written.body, package.claims)
            /\ Objections(written, package) \subseteq objections'
      BY <2>2 DEF WriteAndJudge
    <3>2. stage' = "DONE" /\ package' = package
      BY <2>2 DEF WriteAndJudge, vars
    <3> QED BY <3>1, <3>2 DEF Judged
  <2>3. CASE UNCHANGED articleVars
    BY <1>2, <2>3 DEF Judged, articleVars, vars
  <2> QED BY <1>2, <2>1, <2>2, <2>3 DEF ArticleNext
<1> QED BY <1>1, <1>2, PTL DEF ArticleSpec

\* What has been judged is the package of the sources the job has.
LEMMA JudgedIsPackaged ==
  ASSUME Judged, draft # NoDraft
  PROVE  Packaged
BY DEF Judged, Packaged

LEMMA ExaminedAreSentences ==
  ASSUME NEW body, IsList(Sentences(body))
  PROVE  ToSet(Examined(body)) \subseteq ToSet(Sentences(body))
<1> DEFINE sentences == Sentences(body)
           places == {i \in DOMAIN sentences : Factual(sentences[i])}
<1>1. Examined(body) = Shortened(At(sentences, places), MaxSentences)
  BY DEF Examined, Where
<1>2. places \in SUBSET DOMAIN sentences
  OBVIOUS
<1> HIDE DEF places
<1>3. /\ IsList(At(sentences, places))
      /\ ToSet(At(sentences, places)) \subseteq ToSet(sentences)
  BY <1>2, AtOfAList
<1> QED BY <1>1, <1>3, ShortenedIsList, GateAssumption

LEMMA SentencesOfADraft ==
  ASSUME NEW written \in Drafts
  PROVE  /\ IsList(Sentences(written.body))
         /\ \A s \in ToSet(Sentences(written.body)) : Sized(s)
         /\ ToSet(Examined(written.body)) \subseteq ToSet(Sentences(written.body))
<1> DEFINE body == written.body
           sentences == Sentences(body)
<1>1. /\ IsList(body)
      /\ \A paragraph \in ToSet(body) : IsList(paragraph) /\ \A s \in ToSet(paragraph) : Sized(s)
  BY DraftsAssumption DEF Sized
<1>2. \A k \in DOMAIN body : body[k] \in ToSet(body)
  BY <1>1, ListShape
<1> HIDE DEF body
<1>3. /\ IsList(sentences)
      /\ ToSet(sentences) = UNION {ToSet(body[k]) : k \in DOMAIN body}
  BY <1>1, <1>2, ConcatIsList DEF Sentences
<1>4. \A s \in ToSet(sentences) : Sized(s)
  BY <1>1, <1>2, <1>3
<1>5. ToSet(Examined(body)) \subseteq ToSet(sentences)
  BY <1>3, ExaminedAreSentences
<1> QED BY <1>3, <1>4, <1>5 DEF body

\* Whenever a draft has passed the factual gate, none of the sentences the gate reads
\* repeats a claim the package refuses (factual_qa_v2.py 424): the rule on rival
\* readings, which excuses a sentence, never excuses that one.
THEOREM RefusedNeverPasses == ArticleSpec => []RefusedIsCaught
<1>1. ASSUME Kept, Judged PROVE RefusedIsCaught
  <2> SUFFICES ASSUME Passed, NEW s \in ToSet(Examined(draft.body)),
                      NEW c \in PackageClaims,
                      s.words = c.text.words, Cardinality(s.words) >= 2,
                      s.numbers = c.text.numbers, CarriesAll(c.text, s)
               PROVE  ~ Unresolved(c) /\ c.status # "CONFLICTING"
    BY DEF RefusedIsCaught
  <2>1. Findings(draft.body, package.claims) = {} /\ draft \in Drafts
    BY <1>1 DEF Judged, Passed
  <2>2. Packaged /\ c \in ToSet(package.claims)
    BY InThePackage
  <2>3. Repeats(s, c.text)
    BY DEF Repeats
  <2>4. Sized(s)
    BY <2>1, SentencesOfADraft
  <2>5. \A other \in ToSet(package.claims) : IsFiniteSet(other.text.words)
    BY <1>1, <2>2, KeptIsFinite DEF FiniteText
  <2> QED BY <2>1, <2>2, <2>3, <2>4, <2>5, RepeatedIsRefused
<1>2. Kept /\ Judged => RefusedIsCaught
  BY <1>1
<1> QED BY <1>2, ArticleKept, ArticleJudged, PTL

\* Where every figure is carried, by whatever claims, each of them is a figure of the
\* text of an established claim.
LEMMA CarriedBySome ==
  ASSUME NEW body, NEW claims, Findings(body, claims) = {},
         NEW s \in ToSet(Sentences(body)), ~ Has(s, "calculation"), NEW d \in Segments(s)
  PROVE  \E c \in ToSet(claims) : c.status = "SUPPORTED" /\ Carries(c.text, d, s)
<1> DEFINE supported == {c \in ToSet(claims) : c.status = "SUPPORTED"}
<1>1. NumberWithoutSource(body, supported) \subseteq Findings(body, claims)
  BY DEF Findings
<1>2. NumberWithoutSource(body, supported) = {}
  BY <1>1
<1>3. "NUMBER_WITHOUT_SOURCE" \notin NumberWithoutSource(body, supported)
  BY <1>2
<1> HIDE DEF supported
<1>4. \E c \in supported : Carries(c.text, d, s)
  BY <1>3 DEF NumberWithoutSource
<1> QED BY <1>4 DEF supported

\* Every figure of a draft that passes, other than in a calculation, stands on an
\* admitted page under a unit of the sentence, or in the same range, whatever
\* extraction, evaluation and the gate made of the page (factual_qa_v2.py 763).
THEOREM FiguresComeFromPages == ArticleSpec => []FiguresAreOnAPage
<1>1. ASSUME Kept, Judged PROVE FiguresAreOnAPage
  <2> SUFFICES ASSUME Passed, NEW s \in ToSet(Sentences(draft.body)),
                      ~ Has(s, "calculation"), NEW d \in Segments(s)
               PROVE  \E text \in Published : StatedIn(text, d, s)
    BY DEF FiguresAreOnAPage
  <2>1. Findings(draft.body, package.claims) = {} /\ Packaged
    BY <1>1, JudgedIsPackaged DEF Judged, Passed
  <2>2. PICK c \in ToSet(package.claims) : Carries(c.text, d, s)
    BY <2>1, CarriedBySome
  <2>3. PICK i \in DOMAIN sources :
          Admissible(sources[i]) /\ StandsOn(c.text, PageOf[sources[i].page])
    BY <1>1, <2>1, KeptStandsOnAPage
  <2>4. c.text \in Published
    BY <2>3 DEF Published, StandsOn
  <2>5. StatedIn(c.text, d, s)
    BY <2>2 DEF Carries, StatedIn
  <2> QED BY <2>4, <2>5
<1>2. Kept /\ Judged => FiguresAreOnAPage
  BY <1>1
<1> QED BY <1>2, ArticleKept, ArticleJudged, PTL

-----------------------------------------------------------------------------
(* The order of the facts                                                  *)

Earlier(a, b) ==
  \E k \in 1..3 : a[k] < b[k] /\ \A h \in 1..(k - 1) : a[h] = b[h]

LEMMA EarlierMeans ==
  ASSUME NEW a, NEW b
  PROVE  Earlier(a, b) <=> \/ a[1] < b[1]
                           \/ a[1] = b[1] /\ a[2] < b[2]
                           \/ a[1] = b[1] /\ a[2] = b[2] /\ a[3] < b[3]
<1>1. 1..3 = {1, 2, 3}
  OBVIOUS
<1>2. 1..(1 - 1) = {} /\ 1..(2 - 1) = {1} /\ 1..(3 - 1) = {1, 2}
  OBVIOUS
<1> QED BY <1>1, <1>2 DEF Earlier

\* Triples of numbers, in lexicographic order, where no two are alike.
LEMMA Lexicographic ==
  ASSUME NEW S, NEW r, \A i \in S : r[i][1] \in Nat /\ r[i][2] \in Nat /\ r[i][3] \in Nat,
         \A i, j \in S : r[i][1] = r[j][1] /\ r[i][2] = r[j][2] /\ r[i][3] = r[j][3] => i = j
  PROVE  StrictOrder(S, {p \in S \X S : Earlier(r[p[1]], r[p[2]])})
<1> DEFINE before == {p \in S \X S : Earlier(r[p[1]], r[p[2]])}
<1>1. ASSUME NEW x \in S, NEW y \in S
      PROVE  <<x, y>> \in before <=> Earlier(r[x], r[y])
  OBVIOUS
<1> HIDE DEF before
<1>2. \A x \in S : <<x, x>> \notin before
  BY <1>1, EarlierMeans
<1>3. ASSUME NEW x \in S, NEW y \in S, NEW z \in S, <<x, y>> \in before, <<y, z>> \in before
      PROVE  <<x, z>> \in before
  <2>1. Earlier(r[x], r[y]) /\ Earlier(r[y], r[z])
    BY <1>1, <1>3
  <2>2. Earlier(r[x], r[z])
    BY <2>1, EarlierMeans
  <2> QED BY <1>1, <2>2
<1>4. ASSUME NEW x \in S, NEW y \in S, x # y
      PROVE  <<x, y>> \in before \/ <<y, x>> \in before
  <2>1. r[x][1] # r[y][1] \/ r[x][2] # r[y][2] \/ r[x][3] # r[y][3]
    BY <1>4
  <2>2. Earlier(r[x], r[y]) \/ Earlier(r[y], r[x])
    BY <2>1, EarlierMeans
  <2> QED BY <1>1, <2>2
<1> QED BY <1>2, <1>3, <1>4 DEF StrictOrder, before

LEMMA PlaceOf ==
  ASSUME NEW list, NEW x, \E i \in DOMAIN list : list[i] = x
  PROVE  Place(list, x) \in DOMAIN list /\ list[Place(list, x)] = x
BY DEF Place

LEMMA PlaceOfACategory ==
  ASSUME NEW c \in DOMAIN Policy
  PROVE  Place(CategoryOrder, c) \in Nat /\ CategoryOrder[Place(CategoryOrder, c)] = c
<1>1. DOMAIN CategoryOrder = 1..16
  BY DEF CategoryOrder
<1>2. \E i \in 1..16 : CategoryOrder[i] = c
  <2>1. c \in {"CONTRACT_PROMISE", "ELIGIBILITY", "ENERGY_PRICE", "FINANCING_PROMISE",
               "GENERAL", "GRID_RULE", "GUARANTEED_SAVINGS", "MARKET_AVERAGE",
               "MARKET_PRICE", "OBSERVED_PRICE_RANGE", "PRODUCT_SPEC", "REGULATION",
               "ROI", "SUBSIDY", "TAX", "VENDOR_PRICE"}
    BY DEF Policy
  <2> QED BY <2>1 DEF CategoryOrder
<1>3. Place(CategoryOrder, c) \in 1..16 /\ CategoryOrder[Place(CategoryOrder, c)] = c
  BY <1>1, <1>2, PlaceOf
<1> QED BY <1>3

LEMMA PlaceOfARegion ==
  ASSUME NEW r \in Region
  PROVE  Place(RegionOrder, r) \in Nat /\ RegionOrder[Place(RegionOrder, r)] = r
<1>1. DOMAIN RegionOrder = 1..7
  BY DEF RegionOrder
<1>2. \E i \in 1..7 : RegionOrder[i] = r
  BY DEF RegionOrder, Region, Subnational
<1>3. Place(RegionOrder, r) \in 1..7 /\ RegionOrder[Place(RegionOrder, r)] = r
  BY <1>1, <1>2, PlaceOf
<1> QED BY <1>3

\* The number of those before i that are like it.
Turn(f, i) == Cardinality({j \in 1..(i - 1) : f[j] = f[i]})

LEMMA TurnsDiffer ==
  ASSUME NEW n \in Nat, NEW i \in 1..n, NEW k \in 1..n, NEW f
  PROVE  Turn(f, i) \in Nat /\ (i < k /\ f[i] = f[k] => Turn(f, i) < Turn(f, k))
<1> DEFINE alike(m) == {j \in 1..(m - 1) : f[j] = f[m]}
<1>1. ASSUME NEW m \in 1..n
      PROVE  IsFiniteSet(alike(m)) /\ Cardinality(alike(m)) \in Nat
  <2>1. IsFiniteSet(1..(m - 1))
    BY FS_Interval
  <2>2. alike(m) \in SUBSET (1..(m - 1))
    OBVIOUS
  <2> QED BY <2>1, <2>2, FS_Subset, FS_CardinalityType
<1>2. ASSUME i < k, f[i] = f[k]
      PROVE  Cardinality(alike(i)) < Cardinality(alike(k))
  <2>1. alike(i) \in SUBSET alike(k)
    BY <1>2
  <2>2. i \in alike(k) /\ i \notin alike(i)
    BY <1>2
  <2> HIDE DEF alike
  <2>3. /\ Cardinality(alike(i)) <= Cardinality(alike(k))
        /\ Cardinality(alike(k)) = Cardinality(alike(i)) => alike(k) = alike(i)
    BY <1>1, <2>1, FS_Subset
  <2> QED BY <1>1, <2>2, <2>3
<1>3. Turn(f, i) = Cardinality(alike(i)) /\ Turn(f, k) = Cardinality(alike(k))
  BY DEF Turn
<1> HIDE DEF alike
<1> QED BY <1>1, <1>2, <1>3

LEMMA InOrderIsKnown ==
  ASSUME NEW order, IsList(order), NEW found
  PROVE  InOrder(order, found) = Unspecified \/ InOrder(order, found) \in ToSet(order)
<1> DEFINE rungs == [i \in DOMAIN order |-> <<order[i] \in found, order[i]>>]
<1>1. InOrder(order, found) = FirstOf(rungs, Unspecified)
  BY DEF InOrder
<1>2. Len(order) \in Nat /\ DOMAIN order = 1..Len(order)
      /\ \A i \in DOMAIN order : order[i] \in ToSet(order)
  BY ListShape
<1>3. DOMAIN rungs = 1..Len(order) /\ \A i \in 1..Len(order) : rungs[i][2] = order[i]
  BY <1>2
<1> HIDE DEF rungs
<1>4. YieldsFirst(rungs, Len(order), Unspecified)
  BY <1>2, <1>3, Ladder
<1> QED BY <1>1, <1>2, <1>3, <1>4 DEF YieldsFirst

LEMMA CategoryIsKnown ==
  ASSUME NEW text
  PROVE  Category(text) \in DOMAIN Policy
<1> DEFINE excluded == IF VatQualifiesPrice(text) THEN {"TAX"} ELSE {}
           configured == InOrder(Vertical.order, text.terms \ excluded)
           universal == InOrder(UniversalOrder, text.hints \ excluded)
           price == PriceCategory(text)
           rungs == << <<GuaranteesOutcome(text), "GUARANTEED_SAVINGS">>,
                       <<PromisesFinancing(text), "FINANCING_PROMISE">>,
                       <<PromisesContract(text), "CONTRACT_PROMISE">>,
                       <<PromisesAcceptance(text), "ELIGIBILITY">>,
                       <<configured # Unspecified, configured>>,
                       <<universal # Unspecified, universal>>,
                       <<Has(text, "money"), price>> >>
           known == DOMAIN Policy
<1>1. Category(text) = FirstOf(rungs, "GENERAL")
  BY DEF Category
<1>2. configured # Unspecified => configured \in known
  <2>1. configured = Unspecified \/ configured \in ToSet(Vertical.order)
    BY VerticalAssumption, InOrderIsKnown
  <2> HIDE DEF configured, known
  <2> QED BY <2>1, VerticalAssumption DEF ToSet, known
<1>3. universal # Unspecified => universal \in known
  <2>1. IsList(UniversalOrder)
    BY DEF UniversalOrder, IsList, ToSet
  <2>2. universal = Unspecified \/ universal \in ToSet(UniversalOrder)
    BY <2>1, InOrderIsKnown
  <2>3. ToSet(UniversalOrder) \subseteq known
    BY DEF ToSet, UniversalOrder, Policy
  <2> QED BY <2>2, <2>3
<1>4. price \in known
  <2> DEFINE prices == << <<Has(text, "vendor"), "VENDOR_PRICE">>,
                          <<Has(text, "average"), "MARKET_AVERAGE">>,
                          <<Has(text, "range"), "OBSERVED_PRICE_RANGE">> >>
  <2>1. price = FirstOf(prices, "MARKET_PRICE")
    BY DEF PriceCategory
  <2>2. /\ DOMAIN prices = 1..3 /\ prices[1][2] = "VENDOR_PRICE"
        /\ prices[2][2] = "MARKET_AVERAGE" /\ prices[3][2] = "OBSERVED_PRICE_RANGE"
    OBVIOUS
  <2>3. {"VENDOR_PRICE", "MARKET_AVERAGE", "OBSERVED_PRICE_RANGE", "MARKET_PRICE"}
          \subseteq known
    BY DEF Policy
  <2> HIDE DEF prices, known
  <2>4. YieldsFirst(prices, 3, "MARKET_PRICE")
    BY <2>2, Ladder
  <2> QED BY <2>1, <2>2, <2>3, <2>4 DEF YieldsFirst
<1>5. {"GUARANTEED_SAVINGS", "FINANCING_PROMISE", "CONTRACT_PROMISE", "ELIGIBILITY",
       "GENERAL"} \subseteq known
  BY DEF Policy
<1>6. /\ DOMAIN rungs = 1..7
      /\ rungs[1][2] = "GUARANTEED_SAVINGS" /\ rungs[2][2] = "FINANCING_PROMISE"
      /\ rungs[3][2] = "CONTRACT_PROMISE" /\ rungs[4][2] = "ELIGIBILITY"
      /\ rungs[5][1] = (configured # Unspecified) /\ rungs[5][2] = configured
      /\ rungs[6][1] = (universal # Unspecified) /\ rungs[6][2] = universal
      /\ rungs[7][2] = price
  <2> HIDE DEF configured, universal, price
  <2> QED OBVIOUS
<1> HIDE DEF rungs, known, configured, universal, price
<1>7. ASSUME NEW i \in 1..7, rungs[i][1] PROVE rungs[i][2] \in known
  <2>1. CASE i \in {1, 2, 3, 4}
    BY <1>5, <1>6, <2>1
  <2>2. CASE i = 5
    <3>1. configured # Unspecified
      BY <1>6, <1>7, <2>2
    <3> QED BY <1>2, <1>6, <2>2, <3>1
  <2>3. CASE i = 6
    <3>1. universal # Unspecified
      BY <1>6, <1>7, <2>3
    <3> QED BY <1>3, <1>6, <2>3, <3>1
  <2>4. CASE i = 7
    BY <1>4, <1>6, <2>4
  <2> QED BY <2>1, <2>2, <2>3, <2>4
<1>8. YieldsFirst(rungs, 7, "GENERAL")
  BY <1>6, Ladder
<1> QED BY <1>1, <1>5, <1>7, <1>8 DEF YieldsFirst, known

\* Claims in a list of no wording twice, each of a known category and region.
Assorted(list) ==
  /\ IsList(list)
  /\ \A j, k \in DOMAIN list : list[j].text.wording = list[k].text.wording => j = k
  /\ \A c \in ToSet(list) : c.needs.category \in DOMAIN Policy /\ c.region \in Region

LEMMA SomeAssorted ==
  ASSUME NEW list, Assorted(list), NEW places \in SUBSET DOMAIN list
  PROVE  /\ Assorted(At(list, places))
         /\ ToSet(At(list, places)) = {list[i] : i \in places}
         /\ ToSet(At(list, places)) \subseteq ToSet(list)
<1> DEFINE t == At(list, places)
           order == Ascending(places)
<1>1. /\ IsList(t) /\ ToSet(t) = {list[i] : i \in places} /\ ToSet(t) \subseteq ToSet(list)
  BY AtOfAList DEF Assorted
<1>2. Len(list) \in Nat /\ DOMAIN list = 1..Len(list)
  BY ListShape DEF Assorted
<1>3. /\ \A k \in DOMAIN t : order[k] \in places /\ t[k] = list[order[k]]
      /\ \A j, k \in DOMAIN t : order[j] = order[k] => j = k
  BY <1>2, AtIsList
<1> HIDE DEF t, order
<1>4. \A j, k \in DOMAIN t : t[j].text.wording = t[k].text.wording => j = k
  BY <1>3 DEF Assorted
<1> QED BY <1>1, <1>4 DEF Assorted, t

\* Spreading the claims over their subjects neither repeats nor invents one.
LEMMA SpreadAssorted ==
  ASSUME NEW claims, Assorted(claims)
  PROVE  Assorted(Spread(claims)) /\ ToSet(Spread(claims)) \subseteq ToSet(claims)
<1> DEFINE subject(i) == <<claims[i].needs.category, claims[i].region>>
           turn(i) == Cardinality({j \in 1..(i - 1) : subject(j) = subject(i)})
           rank(i) == <<turn(i), Place(CategoryOrder, subject(i)[1]),
                        Place(RegionOrder, subject(i)[2])>>
           precedes(i, j) ==
             \E k \in 1..3 : rank(i)[k] < rank(j)[k]
                             /\ \A h \in 1..(k - 1) : rank(i)[h] = rank(j)[h]
           all == DOMAIN claims
           before == {p \in all \X all : precedes(p[1], p[2])}
           order == Ranked(all, before)
           n == Len(claims)
<1>1. /\ n \in Nat /\ all = 1..n
      /\ \A i \in all : claims[i] \in ToSet(claims)
  BY ListShape DEF Assorted
<1>2. CASE n <= MaxFacts
  <2>1. Spread(claims) = claims
    BY <1>2 DEF Spread
  <2> QED BY <2>1
<1>3. CASE ~ (n <= MaxFacts)
  <2>1. Spread(claims) = [k \in 1..MaxFacts |-> claims[order[k]]]
    BY <1>3 DEF Spread
  <2> DEFINE r == [i \in all |-> rank(i)]
  <2>2. ASSUME NEW i \in all, NEW j \in all
        PROVE  precedes(i, j) <=> Earlier(r[i], r[j])
    <3>1. r[i] = rank(i) /\ r[j] = rank(j)
      OBVIOUS
    <3> HIDE DEF rank, r
    <3> QED BY <3>1 DEF Earlier
  <2>3. before = {p \in all \X all : Earlier(r[p[1]], r[p[2]])}
    <3> HIDE DEF precedes, r
    <3> QED BY <2>2
  <2>4. \A i \in all : /\ r[i][1] = turn(i)
                       /\ r[i][2] = Place(CategoryOrder, claims[i].needs.category)
                       /\ r[i][3] = Place(RegionOrder, claims[i].region)
    <3> HIDE DEF turn
    <3> QED OBVIOUS
  <2> HIDE DEF r
  <2> DEFINE subjects == [i \in all |-> subject(i)]
  <2>5. \A i \in all : turn(i) = Turn(subjects, i)
    <3> SUFFICES ASSUME NEW i \in all
                 PROVE  {j \in 1..(i - 1) : subject(j) = subject(i)}
                          = {j \in 1..(i - 1) : subjects[j] = subjects[i]}
      BY DEF Turn
    <3>1. \A j \in 1..(i - 1) : j \in all
      BY <1>1
    <3>2. \A j \in all : subjects[j] = subject(j)
      OBVIOUS
    <3> HIDE DEF subjects, subject
    <3> QED BY <3>1, <3>2
  <2>6. ASSUME NEW i \in all
        PROVE  r[i][1] \in Nat /\ r[i][2] \in Nat /\ r[i][3] \in Nat
    <3>1. turn(i) \in Nat
      <4> HIDE DEF subjects, turn
      <4> QED BY <1>1, <2>5, TurnsDiffer
    <3>2. claims[i].needs.category \in DOMAIN Policy /\ claims[i].region \in Region
      BY <1>1 DEF Assorted
    <3> HIDE DEF turn
    <3> QED BY <2>4, <3>1, <3>2, PlaceOfACategory, PlaceOfARegion
  <2>7. ASSUME NEW i \in all, NEW j \in all,
               r[i][1] = r[j][1] /\ r[i][2] = r[j][2] /\ r[i][3] = r[j][3]
        PROVE  i = j
    <3>1. /\ claims[i].needs.category \in DOMAIN Policy /\ claims[i].region \in Region
          /\ claims[j].needs.category \in DOMAIN Policy /\ claims[j].region \in Region
      BY <1>1 DEF Assorted
    <3>2. /\ claims[i].needs.category = claims[j].needs.category
          /\ claims[i].region = claims[j].region
      <4> HIDE DEF turn
      <4> QED BY <2>4, <2>7, <3>1, PlaceOfACategory, PlaceOfARegion
    <3>3. subjects[i] = subjects[j]
      BY <3>2
    <3>4. turn(i) = turn(j)
      <4> HIDE DEF turn
      <4> QED BY <2>4, <2>7
    <3> HIDE DEF subjects, turn
    <3>5. ~ (i < j) /\ ~ (j < i)
      <4>1. ASSUME NEW x \in all, NEW y \in all, x < y, subjects[x] = subjects[y]
            PROVE  turn(x) < turn(y)
        BY <1>1, <2>5, <4>1, TurnsDiffer
      <4>2. turn(i) \in Nat /\ turn(j) \in Nat
        BY <1>1, <2>5, TurnsDiffer
      <4> QED BY <3>3, <3>4, <4>1, <4>2
    <3> QED BY <1>1, <3>5
  <2>8. StrictOrder(all, before)
    <3> HIDE DEF before
    <3> QED BY <2>3, <2>6, <2>7, Lexicographic
  <2>9. IsFiniteSet(all) /\ Cardinality(all) = n
    BY <1>1, FirstNumbers
  <2> HIDE DEF before
  <2>10. /\ \A k \in 1..n : order[k] \in all
         /\ \A j, k \in 1..n : order[j] = order[k] => j = k
    BY <2>8, <2>9, RankedIsASort
  <2> HIDE DEF order
  <2> DEFINE t == [k \in 1..MaxFacts |-> claims[order[k]]]
  <2>11. MaxFacts \in Nat /\ \A k \in 1..MaxFacts : k \in 1..n
    BY <1>1, <1>3, EditorialAssumption
  <2>12. DOMAIN t = 1..MaxFacts /\ t = [k \in 1..MaxFacts |-> t[k]]
         /\ \A k \in DOMAIN t : t[k] = claims[order[k]]
    OBVIOUS
  <2> HIDE DEF t
  <2>13. IsList(t)
    BY <2>11, <2>12, MadeIsList
  <2>14. \A k \in DOMAIN t : t[k] \in ToSet(claims)
    BY <1>1, <2>10, <2>11, <2>12
  <2>15. ToSet(t) \subseteq ToSet(claims)
    BY <2>14 DEF ToSet
  <2>16. \A j, k \in DOMAIN t : t[j].text.wording = t[k].text.wording => j = k
    BY <2>10, <2>11, <2>12 DEF Assorted
  <2> QED BY <2>1, <2>13, <2>15, <2>16 DEF Assorted, t
<1> QED BY <1>2, <1>3

-----------------------------------------------------------------------------
(* The facts of a brief                                                    *)

LEMMA EstablishedClaims ==
  ASSUME NEW claims, Assorted(claims)
  PROVE  /\ Assorted(Established(claims))
         /\ ToSet(Established(claims)) = {c \in ToSet(claims) : c.status = "SUPPORTED"}
<1> DEFINE places == {i \in DOMAIN claims : claims[i].status = "SUPPORTED"}
           t == Established(claims)
<1>1. t = At(claims, places)
  BY DEF Established, Where
<1>2. places \in SUBSET DOMAIN claims
  OBVIOUS
<1>3. {claims[i] : i \in places} = {c \in ToSet(claims) : c.status = "SUPPORTED"}
  BY DEF ToSet
<1> HIDE DEF places, t
<1>4. Assorted(t) /\ ToSet(t) = {claims[i] : i \in places}
  BY <1>1, <1>2, SomeAssorted
<1> QED BY <1>3, <1>4 DEF t

LEMMA PriceAnswersAreEstablished ==
  ASSUME NEW claims, Assorted(claims)
  PROVE  /\ IsList(PriceAnswers(claims))
         /\ ToSet(PriceAnswers(claims)) \subseteq ToSet(Established(claims))
<1> DEFINE established == Established(claims)
           places == {i \in DOMAIN established :
                        /\ established[i].needs.category \in PriceAnswer
                        /\ Has(established[i].text, "usable price")}
           answers == At(established, places)
<1>1. IsList(established)
  BY EstablishedClaims DEF Assorted
<1>2. PriceAnswers(claims) = IF PriceQuestion THEN Shortened(answers, MaxAnswers) ELSE <<>>
  BY DEF PriceAnswers, Where
<1>3. places \in SUBSET DOMAIN established
  OBVIOUS
<1> HIDE DEF established, places
<1>4. IsList(answers) /\ ToSet(answers) \subseteq ToSet(established)
  BY <1>1, <1>3, AtOfAList
<1> HIDE DEF answers
<1>5. /\ IsList(Shortened(answers, MaxAnswers))
      /\ ToSet(Shortened(answers, MaxAnswers)) \subseteq ToSet(answers)
  BY <1>4, ShortenedIsList, EditorialAssumption
<1>6. IsList(PriceAnswers(claims)) /\ ToSet(PriceAnswers(claims)) \subseteq ToSet(established)
  <2>1. CASE PriceQuestion
    BY <1>2, <1>4, <1>5, <2>1
  <2>2. CASE ~ PriceQuestion
    BY <1>2, <2>2, EmptyIsList
  <2> QED BY <2>1, <2>2
<1> QED BY <1>6 DEF established

LEMMA SelectedAreEstablished ==
  ASSUME NEW claims, Assorted(claims)
  PROVE  /\ Assorted(Selected(claims))
         /\ ToSet(Selected(claims)) \subseteq ToSet(Established(claims))
<1> DEFINE established == Established(claims)
           places == {i \in DOMAIN established : Writable(established[i].text)}
           writable == At(established, places)
<1>1. Assorted(established)
  BY EstablishedClaims
<1>2. Selected(claims) = Spread(writable)
  BY DEF Selected, Where
<1>3. places \in SUBSET DOMAIN established
  OBVIOUS
<1> HIDE DEF established, places
<1>4. Assorted(writable) /\ ToSet(writable) \subseteq ToSet(established)
  BY <1>1, <1>3, SomeAssorted
<1> HIDE DEF writable
<1> QED BY <1>2, <1>4, SpreadAssorted DEF established

\* A brief requires at most Lead price answers, then facts that are all different.
LEMMA RequiredAreEstablished ==
  ASSUME NEW claims, Assorted(claims)
  PROVE  LET answers == Shortened(PriceAnswers(claims), Lead)
             facts == Selected(claims)
             required == Required(claims)
         IN /\ IsList(answers) /\ Len(answers) <= Lead /\ Assorted(facts)
            /\ IsList(required) /\ ToSet(required) \subseteq ToSet(Established(claims))
            /\ \A k \in DOMAIN required :
                  \/ k \in 1..Len(answers)
                  \/ /\ k - Len(answers) \in DOMAIN facts /\ k > Len(answers)
                     /\ required[k] = facts[k - Len(answers)]
<1> DEFINE answers == Shortened(PriceAnswers(claims), Lead)
           facts == Selected(claims)
           all == answers \o facts
           required == Required(claims)
<1>1. /\ IsList(answers) /\ Len(answers) <= Lead /\ Len(answers) \in Nat
      /\ ToSet(answers) \subseteq ToSet(Established(claims))
  BY PriceAnswersAreEstablished, ShortenedIsList, EditorialAssumption
<1>2. Assorted(facts) /\ ToSet(facts) \subseteq ToSet(Established(claims))
  BY SelectedAreEstablished
<1>3. required = Shortened(all, MaxFacts)
  BY DEF Required
<1> HIDE DEF answers, facts
<1>4. Len(facts) \in Nat /\ DOMAIN facts = 1..Len(facts)
  BY <1>2, ListShape DEF Assorted
<1>5. /\ IsList(all) /\ Len(all) = Len(answers) + Len(facts)
      /\ \A i \in 1..Len(facts) : all[Len(answers) + i] = facts[i]
      /\ ToSet(all) = ToSet(answers) \cup ToSet(facts)
  BY <1>1, <1>2, Joined DEF Assorted
<1> HIDE DEF all, required
<1>6. DOMAIN all = 1..(Len(answers) + Len(facts))
  BY <1>5, ListShape
<1>7. /\ IsList(required) /\ ToSet(required) \subseteq ToSet(all)
      /\ \A k \in DOMAIN required : k \in DOMAIN all /\ required[k] = all[k]
  BY <1>3, <1>5, ShortenedIsList, EditorialAssumption
<1>8. ASSUME NEW k \in DOMAIN required, k \notin 1..Len(answers)
      PROVE  /\ k - Len(answers) \in DOMAIN facts /\ k > Len(answers)
             /\ required[k] = facts[k - Len(answers)]
  <2>1. k \in 1..(Len(answers) + Len(facts)) /\ required[k] = all[k]
    BY <1>6, <1>7
  <2>2. k - Len(answers) \in 1..Len(facts) /\ k > Len(answers)
        /\ Len(answers) + (k - Len(answers)) = k
    BY <1>1, <1>4, <1>8, <2>1
  <2> QED BY <1>4, <1>5, <2>1, <2>2
<1> QED BY <1>1, <1>2, <1>5, <1>7, <1>8 DEF answers, facts, required

LEMMA UsableAreRequired ==
  ASSUME NEW claims, Assorted(claims)
  PROVE  LET usable == Usable(claims)
             required == Required(claims)
         IN /\ IsList(usable) /\ ToSet(usable) \subseteq ToSet(Established(claims))
            /\ \E order : /\ \A k \in DOMAIN usable : /\ order[k] \in DOMAIN required
                                                      /\ usable[k] = required[order[k]]
                          /\ \A j, k \in DOMAIN usable : order[j] = order[k] => j = k
<1> DEFINE required == Required(claims)
           usable == Usable(claims)
           places == {i \in DOMAIN required : Writable(required[i].text)}
           order == Ascending(places)
<1>1. IsList(required) /\ ToSet(required) \subseteq ToSet(Established(claims))
  BY RequiredAreEstablished
<1>2. usable = At(required, places)
  BY DEF Usable, Where
<1>3. places \in SUBSET DOMAIN required
  OBVIOUS
<1> HIDE DEF required, places, usable
<1>4. IsList(usable) /\ ToSet(usable) \subseteq ToSet(required)
  BY <1>1, <1>2, <1>3, AtOfAList
<1>5. Len(required) \in Nat /\ DOMAIN required = 1..Len(required)
  BY <1>1, ListShape
<1>6. /\ \A k \in DOMAIN usable : order[k] \in places /\ usable[k] = required[order[k]]
      /\ \A j, k \in DOMAIN usable : order[j] = order[k] => j = k
  BY <1>2, <1>3, <1>5, AtIsList
<1> HIDE DEF order
<1>7. \A k \in DOMAIN usable : order[k] \in DOMAIN required
  BY <1>3, <1>6
<1> QED BY <1>1, <1>4, <1>6, <1>7 DEF usable, required

LEMMA KeptAssorted ==
  ASSUME Kept, Packaged
  PROVE  Assorted(package.claims)
<1>1. /\ Sources(sources) /\ package = Build(sources, decisions)
      /\ IsList(package.claims)
  BY KeptPackage
<1>2. \A j, k \in DOMAIN package.claims :
         package.claims[j].text.wording = package.claims[k].text.wording => j = k
  BY <1>1, BuiltWell
<1>3. ASSUME NEW c \in ToSet(package.claims)
      PROVE  c.needs.category \in DOMAIN Policy /\ c.region \in Region
  <2> DEFINE heard == Heard(sources, Eligible(sources, decisions))
  <2>1. c = Evaluate(c.text, heard, Market)
    BY KeptClaim
  <2> HIDE DEF heard
  <2>2. Evaluate(c.text, heard, Market).needs.category = Category(c.text)
    BY DEF Evaluate, Requirements
  <2> QED BY <2>1, <2>2, CategoryIsKnown, ClaimsAreTyped
<1> QED BY <1>1, <1>2, <1>3 DEF Assorted

-----------------------------------------------------------------------------
(* How much of its brief an accepted draft states                          *)

\* The wordings of the established claims a draft echoes.
Wordings(claims, written) ==
  {c.text.wording : c \in {d \in ToSet(Established(claims)) : Echoed(d.text, written)}}

LEMMA FinitelyManyWordings ==
  ASSUME NEW claims, Assorted(claims), NEW written
  PROVE  IsFiniteSet(Wordings(claims, written))
<1> DEFINE established == Established(claims)
           places == {k \in DOMAIN established : Echoed(established[k].text, written)}
           f == [k \in places |-> established[k].text.wording]
<1>1. IsList(established)
  BY EstablishedClaims DEF Assorted
<1>2. Wordings(claims, written) = {established[k].text.wording : k \in places}
  BY DEF Wordings, ToSet
<1> HIDE DEF established
<1>3. IsFiniteSet(places)
  <2>1. Len(established) \in Nat /\ places \in SUBSET (1..Len(established))
    BY <1>1, ListShape
  <2> HIDE DEF places
  <2>2. IsFiniteSet(1..Len(established))
    BY <2>1, FirstNumbers
  <2> QED BY <2>1, <2>2, FS_Subset
<1> HIDE DEF places
<1>4. f \in Surjection(places, Wordings(claims, written))
  BY <1>2 DEF Surjection
<1> HIDE DEF f
<1> QED BY <1>3, <1>4, FS_Surjection

LEMMA CountedTwiceAtMostForLead ==
  ASSUME NEW claims, Assorted(claims), NEW written
  PROVE  /\ Used(written, claims) \in Nat
         /\ Cardinality(Wordings(claims, written)) \in Nat
         /\ Used(written, claims) <= Cardinality(Wordings(claims, written)) + Lead
<1> DEFINE usable == Usable(claims)
           required == Required(claims)
           answers == Shortened(PriceAnswers(claims), Lead)
           facts == Selected(claims)
           used == {i \in DOMAIN usable : Echoed(usable[i].text, written)}
           wordings == Wordings(claims, written)
           n == Len(answers)
<1>1. /\ IsList(answers) /\ n <= Lead /\ Assorted(facts)
      /\ \A k \in DOMAIN required :
            \/ k \in 1..n
            \/ k - n \in DOMAIN facts /\ k > n /\ required[k] = facts[k - n]
      /\ IsList(required)
  BY RequiredAreEstablished
<1>2. /\ IsList(usable) /\ ToSet(usable) \subseteq ToSet(Established(claims))
      /\ \E order : /\ \A k \in DOMAIN usable : /\ order[k] \in DOMAIN required
                                                /\ usable[k] = required[order[k]]
                    /\ \A j, k \in DOMAIN usable : order[j] = order[k] => j = k
  BY UsableAreRequired
<1>3. Used(written, claims) = Cardinality(used)
  BY DEF Used
<1>4. \A i \in used : usable[i].text.wording \in wordings
  <2>1. \A i \in DOMAIN usable : usable[i] \in ToSet(usable)
    BY <1>2, ListShape
  <2> HIDE DEF usable
  <2> QED BY <1>2, <2>1 DEF Wordings
<1>5. IsFiniteSet(wordings)
  BY FinitelyManyWordings
<1>6. used \subseteq DOMAIN usable /\ n \in Nat /\ DOMAIN required = 1..Len(required)
      /\ Len(required) \in Nat
  BY <1>1, ListShape
<1>7. Used(written, claims) \in Nat /\ IsFiniteSet(used)
  <2>1. Len(usable) \in Nat /\ used \in SUBSET (1..Len(usable))
    BY <1>2, ListShape
  <2> HIDE DEF used, usable
  <2>2. IsFiniteSet(1..Len(usable))
    BY <2>1, FirstNumbers
  <2>3. IsFiniteSet(used)
    BY <2>1, <2>2, FS_Subset
  <2> QED BY <1>3, <2>3, FS_CardinalityType
<1> HIDE DEF used, usable, required, answers, facts, wordings, n
<1>8. PICK order : /\ \A k \in DOMAIN usable : /\ order[k] \in DOMAIN required
                                               /\ usable[k] = required[order[k]]
                   /\ \A j, k \in DOMAIN usable : order[j] = order[k] => j = k
  BY <1>2
<1> DEFINE low == {i \in used : order[i] \in 1..n}
           high == used \ low
<1>9. IsFiniteSet(low) /\ IsFiniteSet(high) /\ Cardinality(low) \in Nat
      /\ Cardinality(high) \in Nat /\ Cardinality(used) = Cardinality(low) + Cardinality(high)
  <2>1. low \in SUBSET used /\ high \in SUBSET used /\ used = low \cup high
        /\ low \cap high = {}
    OBVIOUS
  <2> HIDE DEF low, high
  <2>2. IsFiniteSet(low) /\ IsFiniteSet(high)
    BY <1>7, <2>1, FS_Subset
  <2>3. Cardinality(low) \in Nat /\ Cardinality(high) \in Nat
    BY <2>2, FS_CardinalityType
  <2>4. Cardinality(low \cup high)
          = Cardinality(low) + Cardinality(high) - Cardinality(low \cap high)
    BY <2>2, FS_Union
  <2>5. Cardinality({}) = 0
    BY FS_EmptySet
  <2>6. Cardinality(low \cap high) = 0
    BY <2>1, <2>5
  <2> QED BY <2>1, <2>2, <2>3, <2>4, <2>6
<1>10. Cardinality(low) <= n
  <2> DEFINE f == [i \in low |-> order[i]]
  <2>1. f \in Injection(low, 1..n)
    <3>1. f \in [low -> 1..n]
      OBVIOUS
    <3>2. \A i, j \in low : f[i] = f[j] => i = j
      BY <1>6, <1>8
    <3> HIDE DEF f, low
    <3> QED BY <3>1, <3>2 DEF Injection, IsInjective
  <2>2. IsFiniteSet(1..n) /\ Cardinality(1..n) = n
    BY <1>6, FirstNumbers
  <2> HIDE DEF f, low
  <2> QED BY <2>1, <2>2, FS_Injection
<1>11. Cardinality(high) <= Cardinality(wordings)
  <2> DEFINE f == [i \in high |-> usable[i].text.wording]
  <2>1. \A i \in high : /\ i \in DOMAIN usable /\ i \in used
                        /\ order[i] \in 1..Len(required)
                        /\ order[i] - n \in DOMAIN facts
                        /\ usable[i] = facts[order[i] - n]
    BY <1>1, <1>6, <1>8
  <2>2. ASSUME NEW i \in high, NEW j \in high,
               usable[i].text.wording = usable[j].text.wording
        PROVE  i = j
    <3>1. order[i] - n = order[j] - n
      BY <1>1, <2>1, <2>2 DEF Assorted
    <3>2. order[i] = order[j]
      <4>1. order[i] \in 1..Len(required) /\ order[j] \in 1..Len(required)
        BY <2>1
      <4> QED BY <1>6, <3>1, <4>1
    <3> QED BY <1>8, <2>1, <3>2
  <2> HIDE DEF high
  <2>3. f \in Injection(high, wordings)
    <3>1. f \in [high -> wordings]
      BY <1>4, <2>1
    <3>2. \A i, j \in high : f[i] = f[j] => i = j
      BY <2>2
    <3> HIDE DEF f
    <3> QED BY <3>1, <3>2 DEF Injection, IsInjective
  <2> HIDE DEF f
  <2> QED BY <1>5, <2>3, FS_Injection
<1>12. Cardinality(wordings) \in Nat
  BY <1>5, FS_CardinalityType
<1>13. Lead \in Nat
  BY EditorialAssumption
<1> HIDE DEF low, high
<1>14. Cardinality(used) <= Cardinality(wordings) + Lead
  BY <1>1, <1>6, <1>9, <1>10, <1>11, <1>12, <1>13
<1> QED BY <1>3, <1>7, <1>12, <1>14 DEF wordings

\* A draft the gate does not object to meets the floor, as the gate counts.
LEMMA AcceptedMeetsTheFloor ==
  ASSUME NEW written, NEW pack, Objections(written, pack) = {},
         Used(written, pack.claims) \in Nat
  PROVE  Used(written, pack.claims) >= House.floor
<1> DEFINE claims == pack.claims
           supplied == Len(Usable(claims))
           rungs == << <<supplied = 0, {"NO_SUPPORTED_EVIDENCE"}>>,
                       <<Used(written, claims) = 0, {"REQUIRED_FACTS_UNUSED"}>>,
                       <<supplied < House.floor, {"INSUFFICIENT_SUPPORTED_EVIDENCE"}>>,
                       <<Used(written, claims) < House.floor,
                         {"REQUIRED_FACTS_UNDERUSED"}>> >>
<1>1. written.body # <<>>
  <2> SUFFICES ASSUME written.body = <<>> PROVE FALSE
    OBVIOUS
  <2>1. "MISSING_BODY" \in Presence(written)
    BY DEF Presence, Flag
  <2>2. Presence(written) \subseteq Objections(written, pack)
    BY DEF Objections
  <2> QED BY <2>1, <2>2
<1>2. Substance(written, claims) = {}
  BY <1>1 DEF Objections
<1>3. FirstOf(rungs, {}) = {} /\ DOMAIN rungs = 1..4
  <2>1. Substance(written, claims) = FirstOf(rungs, {})
    BY DEF Substance
  <2>2. DOMAIN rungs = 1..4
    OBVIOUS
  <2> QED BY <1>2, <2>1, <2>2
<1>4. \A i \in 1..4 : rungs[i][2] # {}
  <2>1. /\ rungs[1][2] # {} /\ rungs[2][2] # {} /\ rungs[3][2] # {} /\ rungs[4][2] # {}
    OBVIOUS
  <2> HIDE DEF rungs
  <2> QED BY <2>1
<1>5. rungs[4][1] = (Used(written, claims) < House.floor)
  OBVIOUS
<1> HIDE DEF rungs
<1>6. ~ rungs[4][1]
  <2>1. \A k \in 1..4 : (\A i \in 1..k : rungs[i][2] # FirstOf(rungs, {})) => ~ rungs[k][1]
    BY <1>3, NoRung
  <2> QED BY <1>3, <1>4, <2>1
<1>7. ~ (Used(written, claims) < House.floor)
  BY <1>5, <1>6
<1> QED BY <1>7, EditorialAssumption

\* A draft the editorial gate accepts states as many distinct established facts as the
\* floor asks for, save for the answers the brief lists twice (brief_service.py 384,
\* qa_service.py 239).
THEOREM FloorOfDistinctFacts == ArticleSpec => []SubstanceFloor
<1>1. ASSUME Kept, Judged PROVE SubstanceFloor
  <2> SUFFICES ASSUME draft # NoDraft, objections = {}
               PROVE  Cardinality(Wordings(package.claims, draft)) + Lead >= House.floor
    BY DEF SubstanceFloor, Wordings
  <2>1. Packaged /\ Objections(draft, package) = {}
    BY <1>1, JudgedIsPackaged DEF Judged
  <2>2. /\ Used(draft, package.claims) \in Nat
        /\ Cardinality(Wordings(package.claims, draft)) \in Nat
        /\ Used(draft, package.claims) <= Cardinality(Wordings(package.claims, draft)) + Lead
    BY <1>1, <2>1, KeptAssorted, CountedTwiceAtMostForLead
  <2>3. Used(draft, package.claims) >= House.floor
    BY <2>1, <2>2, AcceptedMeetsTheFloor
  <2> QED BY <2>2, <2>3, EditorialAssumption
<1>2. Kept /\ Judged => SubstanceFloor
  BY <1>1
<1> QED BY <1>2, ArticleKept, ArticleJudged, PTL

-----------------------------------------------------------------------------
(* A draft that states the facts of its brief                               *)

\* The codes of a draft that is untraced or too thin.
Thin == {"UNSUPPORTED_DRAFT_CLAIM", "NUMBER_WITHOUT_SOURCE", "UNSUPPORTED_NUMERIC_CLAIM",
         "REQUIRED_FACTS_UNUSED", "REQUIRED_FACTS_UNDERUSED"}

LEMMA ChargedOtherwise ==
  ASSUME NEW code, code \notin Thin, NEW verdict
  PROVE  Charge(code, verdict) \cap Thin = {}
<1> DEFINE charges == << <<verdict = "ASSERTED", {code}>>,
                         <<verdict = "AMBIGUOUS", {"AMBIGUOUS_MATCH"}>> >>
<1>1. Charge(code, verdict) = FirstOf(charges, {})
  BY DEF Charge
<1>2. DOMAIN charges = 1..2 /\ charges[1][2] = {code} /\ charges[2][2] = {"AMBIGUOUS_MATCH"}
  OBVIOUS
<1> HIDE DEF charges
<1>3. YieldsFirst(charges, 2, {})
  BY <1>2, Ladder
<1>4. Charge(code, verdict) \in {{}, {code}, {"AMBIGUOUS_MATCH"}}
  BY <1>1, <1>2, <1>3 DEF YieldsFirst
<1> QED BY <1>4 DEF Thin

LEMMA FlaggedOtherwise ==
  ASSUME NEW code, code \notin Thin, NEW condition
  PROVE  Flag(code, condition) \cap Thin = {}
BY DEF Flag

\* Of the rules of the factual gate, two can find a draft untraced.
LEMMA UntracedByTwoRules ==
  ASSUME NEW body, NEW claims
  PROVE  LET supported == {c \in ToSet(claims) : c.status = "SUPPORTED"}
         IN Findings(body, claims) \cap Thin
              \subseteq Untraced(body, supported) \cup NumberWithoutSource(body, supported)
<1> DEFINE supported == {c \in ToSet(claims) : c.status = "SUPPORTED"}
           charged(c) == RefusedClaim(body, c, supported) \cup RegionalScope(body, c, supported)
<1>1. ASSUME NEW c PROVE charged(c) \cap Thin = {}
  <2>0. /\ "HIGH_RISK_CLAIM_ASSERTED" \notin Thin
        /\ "CONFLICTING_EVIDENCE_ASSERTED" \notin Thin
        /\ "REGIONAL_SCOPE_NOT_STATED" \notin Thin
    BY DEF Thin
  <2> HIDE DEF supported
  <2>1. RefusedClaim(body, c, supported) \cap Thin = {}
    <3> DEFINE verdict == Reading(body, c, supported)
    <3>1. /\ Charge("HIGH_RISK_CLAIM_ASSERTED", verdict) \cap Thin = {}
          /\ Charge("CONFLICTING_EVIDENCE_ASSERTED", verdict) \cap Thin = {}
      BY <2>0, ChargedOtherwise
    <3> QED BY <3>1 DEF RefusedClaim
  <2>2. RegionalScope(body, c, supported) \cap Thin = {}
    <3>1. \A verdict : Charge("REGIONAL_SCOPE_NOT_STATED", verdict) \cap Thin = {}
      BY <2>0, ChargedOtherwise
    <3> QED BY <3>1 DEF RegionalScope
  <2> QED BY <2>1, <2>2
<1>2. /\ NothingExtracted(body) \cap Thin = {} /\ SupportFree(body, supported) \cap Thin = {}
      /\ NoSupportedClaims(body, supported) \cap Thin = {}
  <2> HIDE DEF supported
  <2> QED BY DEF NothingExtracted, SupportFree, NoSupportedClaims, Thin
<1>3. UndatedPayback(body, supported) \cap Thin = {}
  <2> HIDE DEF supported
  <2>1. UndatedPayback(body, supported) \subseteq {"ROI_WITHOUT_DATED_SOURCE"}
    BY DEF UndatedPayback
  <2> QED BY <2>1 DEF Thin
<1>4. Findings(body, claims)
        = (UNION {charged(c) : c \in ToSet(claims)})
            \cup Untraced(body, supported) \cup NumberWithoutSource(body, supported)
            \cup NothingExtracted(body) \cup UndatedPayback(body, supported)
            \cup SupportFree(body, supported) \cup NoSupportedClaims(body, supported)
  BY DEF Findings
<1>5. (UNION {charged(c) : c \in ToSet(claims)}) \cap Thin = {}
  BY <1>1
<1> HIDE DEF charged, supported
<1> QED BY <1>2, <1>3, <1>4, <1>5 DEF supported

LEMMA PromisedOtherwise ==
  ASSUME NEW s
  PROVE  Promise(s) \cap Thin = {}
<1> DEFINE rungs == << <<OfferFigures(s) # {} /\ Has(s, "offer"),
                        IF Has(s, "totality") THEN {"OFFER_FACT_OVERCLAIM"}
                        ELSE Flag("UNREGISTERED_OFFER_FACT",
                                  ~(OfferFigures(s) \subseteq House.offer))>>,
                      <<Unconditional(s, "contract"), {"UNCONDITIONAL_CONTRACT_PROMISE"}>>,
                      <<Unconditional(s, "acceptance"), {"UNCONDITIONAL_ACCEPTANCE_PROMISE"}>>,
                      <<Unconditional(s, "financing"), {"UNCONDITIONAL_FINANCING_PROMISE"}>>,
                      <<Unconditional(s, "guaranteed outcome"),
                        {"UNCONDITIONAL_OUTCOME_PROMISE"}>> >>
<1>1. Promise(s) = FirstOf(rungs, {})
  BY DEF Promise
<1>2. DOMAIN rungs = 1..5
  OBVIOUS
<1>3. rungs[1][2] \cap Thin = {}
  BY DEF Flag, Thin
<1>4. /\ rungs[2][2] \cap Thin = {} /\ rungs[3][2] \cap Thin = {}
      /\ rungs[4][2] \cap Thin = {} /\ rungs[5][2] \cap Thin = {}
  BY DEF Thin
<1> HIDE DEF rungs
<1>5. \A i \in 1..5 : rungs[i][2] \cap Thin = {}
  BY <1>3, <1>4
<1>6. YieldsFirst(rungs, 5, {})
  BY <1>2, Ladder
<1> QED BY <1>1, <1>5, <1>6 DEF YieldsFirst

\* Of those of the editorial gate, two can find it untraced or too thin.
LEMMA ThinByTwoRules ==
  ASSUME NEW written, NEW pack, written.faults = {}
  PROVE  Objections(written, pack) \cap Thin
           \subseteq Unsourced(written, pack) \cup Substance(written, pack.claims)
<1>1. Presence(written) \cap Thin = {}
  BY DEF Presence, Flag, Thin
<1>2. Quantified(written, pack) \cap Thin = {}
  <2>1. Quantified(written, pack) \subseteq {"RESTRICTED_CLAIM_QUANTIFIED"}
    BY DEF Quantified, Flag
  <2> QED BY <2>1 DEF Thin
<1>3. Promises(written) \cap Thin = {}
  BY PromisedOtherwise DEF Promises
<1>4. Intent(written, pack.claims) \cap Thin = {}
  <2>1. Intent(written, pack.claims) \subseteq {"INTENT_MISALIGNED", "NO_QUANTIFIED_ANSWER"}
    BY DEF Intent, Flag
  <2> QED BY <2>1 DEF Thin
<1>5. OffTopic(written) \cap Thin = {} /\ VatGeneralised(written, pack.claims) \cap Thin = {}
  BY DEF OffTopic, VatGeneralised, Flag, Thin
<1>6. \A condition : /\ Flag("NO_TRACEABLE_SOURCES", condition) \cap Thin = {}
                     /\ Flag("DUPLICATE_TITLE", condition) \cap Thin = {}
                     /\ Flag("NO_CTA", condition) \cap Thin = {}
  BY DEF Flag, Thin
<1>7. CASE written.body = <<>>
  <2>1. Objections(written, pack) = Presence(written)
    BY <1>7 DEF Objections
  <2> QED BY <1>1, <2>1
<1>8. CASE written.body # <<>>
  <2> DEFINE flags == Flag("NO_TRACEABLE_SOURCES", ~Traceable(pack))
                        \cup Flag("DUPLICATE_TITLE", /\ written.title # NoText
                                                     /\ written.title.wording \in House.titles)
                        \cup Flag("NO_CTA", ~House.cta)
             others == Promises(written) \cup Intent(written, pack.claims)
                         \cup OffTopic(written) \cup VatGeneralised(written, pack.claims)
  <2>1. Objections(written, pack)
          = Presence(written) \cup written.faults \cup Unsourced(written, pack)
              \cup Quantified(written, pack) \cup Substance(written, pack.claims)
              \cup flags \cup others
    BY <1>8, Zenon DEF Objections
  <2>2. flags \cap Thin = {} /\ others \cap Thin = {}
    BY <1>3, <1>4, <1>5, <1>6
  <2> HIDE DEF flags, others
  <2> QED BY <1>1, <1>2, <2>1, <2>2
<1> QED BY <1>7, <1>8

\* A text states its own figures, in its own words.
LEMMA CarriesItself ==
  ASSUME NEW text
  PROVE  CarriesAll(text, text)
BY DEF CarriesAll, Carries, Segments, UnitsOf

LEMMA MatchesItself ==
  ASSUME NEW text, Cardinality(text.words) >= 2
  PROVE  Matches(text, text)
<1>1. text.words \cap text.words = text.words /\ text.numbers \cap text.numbers = text.numbers
  OBVIOUS
<1> QED BY <1>1 DEF Matches

\* It is echoed by every draft it stands in.
LEMMA EchoesItself ==
  ASSUME NEW text, IsFiniteSet(text.words), Cardinality(text.words) >= 2,
         NEW written, text \in Lines(written)
  PROVE  Echoed(text, written)
<1> DEFINE said == UNION {s.words : s \in Lines(written)}
           n == Cardinality(text.words)
<1>1. text.words \cap said = text.words
  OBVIOUS
<1>2. n \in Nat /\ n >= 2
  BY FS_CardinalityType
<1> HIDE DEF said
<1>3. n >= n \div 2
  <2> HIDE DEF n
  <2> QED BY <1>2
<1>4. /\ Cardinality(text.words \cap said) >= 2
      /\ Cardinality(text.words \cap said) >= Cardinality(text.words) \div 2
  BY <1>1, <1>2, <1>3
<1> QED BY <1>4, Zenon DEF Echoed, said

LEMMA OneByOne ==
  ASSUME NEW facts, IsList(facts)
  PROVE  LET body == [i \in DOMAIN facts |-> <<facts[i].text>>]
         IN /\ IsList(Sentences(body)) /\ (body = <<>> <=> facts = <<>>)
            /\ ToSet(Sentences(body)) = {facts[i].text : i \in DOMAIN facts}
<1> DEFINE body == [i \in DOMAIN facts |-> <<facts[i].text>>]
<1>1. Len(facts) \in Nat /\ DOMAIN facts = 1..Len(facts)
  BY ListShape
<1>2. DOMAIN body = 1..Len(facts) /\ body = [i \in 1..Len(facts) |-> body[i]]
  BY <1>1
<1>3. ASSUME NEW k \in DOMAIN body
      PROVE  IsList(body[k]) /\ ToSet(body[k]) = {facts[k].text}
  <2>1. body[k] = <<facts[k].text>>
    OBVIOUS
  <2>2. ToSet(<<facts[k].text>>) = {facts[k].text}
    BY DEF ToSet
  <2>3. <<facts[k].text>> \in Seq({facts[k].text})
    OBVIOUS
  <2> QED BY <2>1, <2>2, <2>3 DEF IsList
<1> HIDE DEF body
<1>4. IsList(body)
  BY <1>1, <1>2, MadeIsList
<1>5. /\ IsList(Sentences(body))
      /\ ToSet(Sentences(body)) = UNION {ToSet(body[k]) : k \in DOMAIN body}
  BY <1>3, <1>4, ConcatIsList DEF Sentences
<1>6. ToSet(Sentences(body)) = {facts[i].text : i \in DOMAIN facts}
  BY <1>1, <1>2, <1>3, <1>5
<1>7. body = <<>> <=> facts = <<>>
  BY <1>1, <1>2, <1>4, NotEmpty
<1> QED BY <1>5, <1>6, <1>7 DEF body

\* A draft made of the facts of a brief is traced, and uses all of them.
LEMMA StatingTheFacts ==
  ASSUME NEW pack, Assorted(pack.claims),
         \A c \in ToSet(pack.claims) : IsFiniteSet(c.text.words),
         NEW facts, facts = Usable(pack.claims),
         \A i \in DOMAIN facts : Cardinality(facts[i].text.words) >= 2,
         NEW written, written.faults = {},
         written.body = [i \in DOMAIN facts |-> <<facts[i].text>>]
  PROVE  (Findings(written.body, pack.claims) \cup Objections(written, pack)) \cap Thin = {}
<1> DEFINE claims == pack.claims
           body == written.body
           supported == {c \in ToSet(claims) : c.status = "SUPPORTED"}
           sentences == ToSet(Sentences(body))
<1>1. IsList(facts) /\ ToSet(facts) \subseteq supported /\ ToSet(Established(claims)) = supported
  BY UsableAreRequired, EstablishedClaims
<1>2. /\ IsList(Sentences(body)) /\ (body = <<>> <=> facts = <<>>)
      /\ sentences = {facts[i].text : i \in DOMAIN facts}
  BY <1>1, OneByOne
<1>3. \A i \in DOMAIN facts : /\ facts[i] \in supported
                              /\ IsFiniteSet(facts[i].text.words)
  BY <1>1, ListShape
<1>4. \A s \in sentences : \E c \in supported : s = c.text /\ Cardinality(s.words) >= 2
  BY <1>2, <1>3
<1>5. ToSet(Examined(body)) \subseteq sentences
  BY <1>2, ExaminedAreSentences
<1> HIDE DEF supported, sentences
<1>6. Untraced(body, supported) = {}
  <2>1. \A s \in ToSet(Examined(body)) : \E c \in supported : Matches(s, c.text)
    BY <1>4, <1>5, MatchesItself
  <2> QED BY <2>1 DEF Untraced
<1>7. NumberWithoutSource(body, supported) = {}
  <2>1. \A s \in sentences : \E c \in supported : CarriesAll(c.text, s)
    BY <1>4, CarriesItself
  <2>2. \A s \in sentences : \A d \in Segments(s) : \E c \in supported : Carries(c.text, d, s)
    BY <2>1 DEF CarriesAll
  <2> QED BY <2>2 DEF NumberWithoutSource, sentences
<1>8. Unsourced(written, pack) = {}
  <2>1. \A c \in supported : c.text.large \cup Percents(c.text) \subseteq Stated(pack)
    BY <1>1 DEF Stated
  <2>2. \A s \in sentences : s.large \subseteq Stated(pack) /\ Percents(s) \subseteq Stated(pack)
    BY <1>4, <2>1
  <2>3. Lines(written) = sentences
    BY DEF Lines, sentences
  <2> QED BY <2>2, <2>3 DEF Unsourced, Flag
<1>9. Used(written, claims) = Len(facts) /\ Len(facts) \in Nat
  <2>1. Lines(written) = sentences
    BY DEF Lines, sentences
  <2>2. \A i \in DOMAIN facts : Echoed(facts[i].text, written)
    BY <1>2, <1>3, <2>1, EchoesItself
  <2>3. Used(written, claims) = Cardinality({i \in DOMAIN facts : Echoed(facts[i].text, written)})
    BY DEF Used
  <2>4. {i \in DOMAIN facts : Echoed(facts[i].text, written)} = DOMAIN facts
    BY <2>2
  <2>5. DOMAIN facts = 1..Len(facts) /\ Len(facts) \in Nat
    BY <1>1, ListShape
  <2>6. Cardinality(1..Len(facts)) = Len(facts)
    BY <2>5, FirstNumbers
  <2> QED BY <2>3, <2>4, <2>5, <2>6
<1>10. Substance(written, claims) \cap Thin = {}
  <2> DEFINE supplied == Len(Usable(claims))
             rungs == << <<supplied = 0, {"NO_SUPPORTED_EVIDENCE"}>>,
                         <<Used(written, claims) = 0, {"REQUIRED_FACTS_UNUSED"}>>,
                         <<supplied < House.floor, {"INSUFFICIENT_SUPPORTED_EVIDENCE"}>>,
                         <<Used(written, claims) < House.floor,
                           {"REQUIRED_FACTS_UNDERUSED"}>> >>
  <2>1. Substance(written, claims) = FirstOf(rungs, {})
    BY DEF Substance
  <2>2. DOMAIN rungs = 1..4
    OBVIOUS
  <2>3. /\ rungs[1][2] = {"NO_SUPPORTED_EVIDENCE"}
        /\ rungs[3][2] = {"INSUFFICIENT_SUPPORTED_EVIDENCE"}
    OBVIOUS
  <2>4. Used(written, claims) = supplied
    BY <1>9
  <2>5. rungs[1][1] = (supplied = 0) /\ rungs[2][1] = (Used(written, claims) = 0)
    OBVIOUS
  <2>6. /\ rungs[3][1] = (supplied < House.floor)
        /\ rungs[4][1] = (Used(written, claims) < House.floor)
    OBVIOUS
  <2> HIDE DEF rungs, supplied
  <2>7. (rungs[2][1] => rungs[1][1]) /\ (rungs[4][1] => rungs[3][1])
    BY <2>4, <2>5, <2>6
  <2>8. YieldsFirst(rungs, 4, {})
    BY <2>2, Ladder
  <2>9. FirstOf(rungs, {}) \in {{}, {"NO_SUPPORTED_EVIDENCE"}, {"INSUFFICIENT_SUPPORTED_EVIDENCE"}}
    BY <2>3, <2>7, <2>8 DEF YieldsFirst
  <2> QED BY <2>1, <2>9 DEF Thin
<1>11. Findings(body, claims) \cap Thin = {}
  BY <1>6, <1>7, UntracedByTwoRules DEF supported
<1>12. Objections(written, pack) \cap Thin = {}
  BY <1>8, <1>10, ThinByTwoRules
<1> QED BY <1>11, <1>12

\* The gates that read a draft against its package never refuse as untraced or as too
\* thin a draft that states the facts of its brief word for word, whatever the pages
\* say: what the writer is told to write can be written (factual_qa_v2.py 746,
\* qa_service.py 95).
THEOREM BriefCanBeWritten == ArticleSpec => []FactsCanBeStated
<1>1. ASSUME Kept, package # NoPackage
      PROVE  LET facts == Usable(package.claims)
                 verbatim == [title |-> NoText, metaTitle |-> NoText,
                              metaDescription |-> NoText, near |-> {}, faults |-> {},
                              body |-> [i \in DOMAIN facts |-> <<facts[i].text>>]]
             IN (\A i \in DOMAIN facts : Cardinality(facts[i].text.words) >= 2) =>
                  (Findings(verbatim.body, package.claims) \cup Objections(verbatim, package))
                    \cap Thin = {}
  <2> DEFINE facts == Usable(package.claims)
             verbatim == [title |-> NoText, metaTitle |-> NoText,
                          metaDescription |-> NoText, near |-> {}, faults |-> {},
                          body |-> [i \in DOMAIN facts |-> <<facts[i].text>>]]
  <2>1. Packaged
    BY <1>1 DEF Packaged
  <2>2. Assorted(package.claims)
    BY <1>1, <2>1, KeptAssorted
  <2>3. \A c \in ToSet(package.claims) : IsFiniteSet(c.text.words)
    BY <1>1, <2>1, KeptIsFinite DEF FiniteText
  <2>4. /\ verbatim.faults = {}
        /\ verbatim.body = [i \in DOMAIN facts |-> <<facts[i].text>>]
    OBVIOUS
  <2> HIDE DEF verbatim
  <2> SUFFICES ASSUME \A i \in DOMAIN facts : Cardinality(facts[i].text.words) >= 2
               PROVE  (Findings(verbatim.body, package.claims)
                         \cup Objections(verbatim, package)) \cap Thin = {}
    BY DEF verbatim
  <2> QED BY <2>2, <2>3, <2>4, StatingTheFacts
<1>2. Kept => FactsCanBeStated
  BY <1>1 DEF FactsCanBeStated, Thin
<1> QED BY <1>2, ArticleKept, PTL
=============================================================================
