--------------------------- MODULE EvidenceProofs ---------------------------
(***************************************************************************)
(* What holds of a research job at every moment, whatever its pages, its  *)
(* configuration and the answers of its providers: the inductive           *)
(* invariant of Evidence, from which the theorems on ArticleSpec follow.   *)
(***************************************************************************)
EXTENDS Evidence, ListProofs

-----------------------------------------------------------------------------
(* Ladders                                                                 *)

\* Either no rung holds, or the first that does gives its value.
YieldsFirst(rungs, n, otherwise) ==
  \/ FirstOf(rungs, otherwise) = otherwise /\ \A k \in 1..n : ~ rungs[k][1]
  \/ \E i \in 1..n : /\ rungs[i][1]
                     /\ \A j \in 1..n : j < i => ~ rungs[j][1]
                     /\ FirstOf(rungs, otherwise) = rungs[i][2]

LEMMA Ladder ==
  ASSUME NEW n \in Nat, NEW rungs, DOMAIN rungs = 1..n, NEW otherwise
  PROVE  YieldsFirst(rungs, n, otherwise)
<1> DEFINE holds == {i \in DOMAIN rungs : rungs[i][1]}
           first == CHOOSE i \in holds : \A j \in holds : i <= j
<1>1. CASE holds = {}
  BY <1>1 DEF FirstOf, YieldsFirst
<1>2. CASE holds # {}
  <2>1. holds \in SUBSET Nat
    OBVIOUS
  <2>2. \E i \in holds : \A j \in holds : i <= j
    BY <1>2, <2>1, Least
  <2>3. first \in holds /\ \A j \in holds : first <= j
    BY <2>2
  <2>4. FirstOf(rungs, otherwise) = rungs[first][2]
    BY <1>2 DEF FirstOf
  <2>5. first \in 1..n /\ rungs[first][1]
    BY <2>3
  <2>6. ASSUME NEW j \in 1..n, j < first PROVE ~ rungs[j][1]
    <3>1. j \notin holds
      <4> HIDE DEF first, holds
      <4> QED BY <2>1, <2>3, <2>6, <2>5
    <3> QED BY <3>1
  <2> HIDE DEF first, holds
  <2> QED BY <2>4, <2>5, <2>6 DEF YieldsFirst
<1> QED BY <1>1, <1>2

\* FirstOf yields the value of a rung that holds, at or before any that does.
LEMMA FirstRung ==
  ASSUME NEW n \in Nat, NEW rungs, DOMAIN rungs = 1..n, NEW otherwise,
         NEW k \in 1..n, rungs[k][1]
  PROVE  \E i \in 1..k : rungs[i][1] /\ FirstOf(rungs, otherwise) = rungs[i][2]
<1>1. YieldsFirst(rungs, n, otherwise)
  BY Ladder
<1>2. PICK i \in 1..n : /\ rungs[i][1]
                        /\ \A j \in 1..n : j < i => ~ rungs[j][1]
                        /\ FirstOf(rungs, otherwise) = rungs[i][2]
  BY <1>1 DEF YieldsFirst
<1>3. i \in 1..k
  BY <1>2
<1> QED BY <1>2, <1>3

\* Where FirstOf yields a value that no rung up to k has, rung k does not hold.
LEMMA NoRung ==
  ASSUME NEW n \in Nat, NEW rungs, DOMAIN rungs = 1..n, NEW otherwise
  PROVE  \A k \in 1..n : (\A i \in 1..k : rungs[i][2] # FirstOf(rungs, otherwise))
                           => ~ rungs[k][1]
<1> SUFFICES ASSUME NEW k \in 1..n, rungs[k][1],
                    \A i \in 1..k : rungs[i][2] # FirstOf(rungs, otherwise)
             PROVE  FALSE
  OBVIOUS
<1>1. PICK i \in 1..k : FirstOf(rungs, otherwise) = rungs[i][2]
  BY FirstRung
<1> QED BY <1>1

-----------------------------------------------------------------------------
(* What a status and a freshness say                                       *)

LEMMA PresentHasNotEnded ==
  ASSUME NEW page, Freshness(page) \in SupportsThePresent
  PROVE  ~ Ended(page)
<1> DEFINE rungs == << <<page.historical, "HISTORICAL">>,
             <<Before(page.until, Today.day) \/ EndedByYear(page), "DATED_EXPIRED">>,
             <<After(page.from, Today.day), "DATED_FUTURE">>,
             <<page.from # NoDate, "DATED_CURRENT">>,
             <<page.published \/ page.updated, "DATED_CURRENT">>,
             <<RecentAddress(page), "DATED_CURRENT">>,
             <<page.current, "UNDATED_CURRENT">> >>
<1>1. Freshness(page) = FirstOf(rungs, "UNDATED")
  BY DEF Freshness
<1>2. DOMAIN rungs = 1..7
  OBVIOUS
<1>3. rungs[1][2] = "HISTORICAL" /\ rungs[2][2] = "DATED_EXPIRED"
  OBVIOUS
<1>4. \A i \in 1..2 : rungs[i][2] # FirstOf(rungs, "UNDATED")
  BY <1>1, <1>3 DEF SupportsThePresent
<1>7. \A k \in 1..7 : (\A i \in 1..k : rungs[i][2] # FirstOf(rungs, "UNDATED"))
                       => ~ rungs[k][1]
  <2> HIDE DEF rungs
  <2> QED BY <1>2, NoRung
<1>6. ~ rungs[1][1] /\ ~ rungs[2][1]
  BY <1>4, <1>7
<1>5. rungs[1][1] = page.historical
      /\ rungs[2][1] = (Before(page.until, Today.day) \/ EndedByYear(page))
  OBVIOUS
<1> QED BY <1>5, <1>6 DEF Ended

\* A claim is supported only where nothing contradicts it, some page in scope says it
\* with the authority it needs, enough pages say it or an official one does, and, where
\* it must be current, some page in scope is (evidence_model.py 260 to 400).
LEMMA SupportedMeans ==
  ASSUME NEW claim, NEW needs, NEW region, NEW candidates,
         Status(claim, needs, region, candidates) = "SUPPORTED"
  PROVE  LET supporters == Supporters(candidates)
             inScope == InScope(needs, region, supporters)
         IN /\ TrueConflicts(claim, region, candidates) = {}
            /\ Sufficient(needs, inScope) # {}
            /\ Corroborated(needs, supporters, inScope)
            /\ Current(needs, inScope)
<1> DEFINE supporters == Supporters(candidates)
           inScope == InScope(needs, region, supporters)
           rungs == <<
                <<TrueConflicts(claim, region, candidates) # {}, "CONFLICTING">>,
                <<supporters = {}, "UNSUPPORTED">>,
                <<inScope = {}, "UNSUPPORTED">>,
                <<Sufficient(needs, inScope) = {}, "UNSUPPORTED">>,
                <<~Corroborated(needs, supporters, inScope), "PARTIALLY_SUPPORTED">>,
                <<~Current(needs, inScope), "PARTIALLY_SUPPORTED">> >>
<1>1. FirstOf(rungs, "SUPPORTED") = "SUPPORTED"
  BY DEF Status
<1>2. DOMAIN rungs = 1..6
  OBVIOUS
<1>3. \A i \in 1..6 : rungs[i][2] # "SUPPORTED"
  OBVIOUS
<1>4. \A k \in 1..6 : ~ rungs[k][1]
  <2> HIDE DEF rungs
  <2>1. \A k \in 1..6 : (\A i \in 1..k : rungs[i][2] # FirstOf(rungs, "SUPPORTED"))
                          => ~ rungs[k][1]
    BY <1>2, NoRung
  <2> QED BY <1>1, <1>3, <2>1
<1>5. ~ rungs[1][1] /\ ~ rungs[4][1] /\ ~ rungs[5][1] /\ ~ rungs[6][1]
  BY <1>4
<1> QED BY <1>5

-----------------------------------------------------------------------------
(* What a package rests on                                                 *)

\* The last eligible source of a reference, in a list of sources.
LEMMA WinnerBears ==
  ASSUME NEW n \in Nat, NEW eligible \in SUBSET (1..n), NEW list,
         NEW i \in eligible
  PROVE  LET w == Winner(list, eligible, list[i].ref)
         IN w \in eligible /\ list[w].ref = list[i].ref
<1> DEFINE bearing == {j \in eligible : list[j].ref = list[i].ref}
<1>1. bearing \in SUBSET (1..n) /\ bearing # {}
  OBVIOUS
<1>2. PICK m \in bearing : \A k \in bearing : k <= m
  BY <1>1, Greatest
<1>3. \E m_1 \in eligible : /\ list[m_1].ref = list[i].ref
                            /\ \A j \in eligible : list[j].ref = list[i].ref => j <= m_1
  BY <1>2
<1> QED BY <1>3 DEF Winner

\* Every claim of a package built from a list of sources is a claim evaluated against
\* the pages of that list, each under a reference it bears there.
RestsOn(claim, list) ==
  \E text, evidence :
    /\ claim = Evaluate(text, evidence, Market)
    /\ \A ref \in DOMAIN evidence : \E i \in DOMAIN list :
          list[i].ref = ref /\ evidence[ref] = Evidence(PageOf[list[i].page])

LEMMA BuiltRests ==
  ASSUME NEW n \in Nat, NEW list, DOMAIN list = 1..n, NEW verdicts,
         NEW claim \in ToSet(Build(list, verdicts).claims)
  PROVE  RestsOn(claim, list)
<1> DEFINE eligible == {i \in DOMAIN list : verdicts[list[i].ref] = "RELEVANT"}
           refs == {list[i].ref : i \in eligible}
           page(ref) == PageOf[list[Winner(list, eligible, ref)].page]
           evidence == [ref \in refs |-> Evidence(page(ref))]
           found == ClaimsOf(list, eligible)
<1>1. Build(list, verdicts).claims
        = [i \in DOMAIN found |-> Evaluate(found[i].text, evidence, Market)]
  BY DEF Build
<1>2. PICK k \in DOMAIN found : claim = Evaluate(found[k].text, evidence, Market)
  BY <1>1 DEF ToSet
<1>3. ASSUME NEW ref \in refs
      PROVE  \E i \in DOMAIN list : list[i].ref = ref
                                    /\ evidence[ref] = Evidence(PageOf[list[i].page])
  <2>1. PICK i \in eligible : ref = list[i].ref
    OBVIOUS
  <2>2. eligible \in SUBSET (1..n)
    OBVIOUS
  <2>3. /\ Winner(list, eligible, ref) \in eligible
        /\ list[Winner(list, eligible, ref)].ref = ref
    BY <2>1, <2>2, WinnerBears
  <2>4. evidence[ref] = Evidence(PageOf[list[Winner(list, eligible, ref)].page])
    OBVIOUS
  <2> QED BY <2>3, <2>4
<1>4. DOMAIN evidence = refs
  OBVIOUS
<1> HIDE DEF evidence, refs, found
<1> QED BY <1>2, <1>3, <1>4 DEF RestsOn

\* Whatever is cited in a claim has the freshness and the region of a page of the list
\* that bears its reference.
LEMMA CitedIsOfThePage ==
  ASSUME NEW list, NEW claim, RestsOn(claim, list), NEW e \in claim.evidence
  PROVE  \E i \in DOMAIN list : /\ list[i].ref = e.ref
                                /\ e.freshness = Freshness(PageOf[list[i].page])
                                /\ e.region = SourceRegion(PageOf[list[i].page])
<1>1. PICK text, evidence :
        /\ claim = Evaluate(text, evidence, Market)
        /\ \A ref \in DOMAIN evidence : \E i \in DOMAIN list :
              list[i].ref = ref /\ evidence[ref] = Evidence(PageOf[list[i].page])
  BY DEF RestsOn
<1>2. claim.evidence = Candidates(text, evidence)
  BY <1>1 DEF Evaluate
<1>3. PICK ref \in DOMAIN evidence : /\ e.ref = ref
                                     /\ e.freshness = evidence[ref].freshness
                                     /\ e.region = evidence[ref].region
  BY <1>2 DEF Candidates
<1>4. PICK i \in DOMAIN list : list[i].ref = ref
                               /\ evidence[ref] = Evidence(PageOf[list[i].page])
  BY <1>1
<1> QED BY <1>3, <1>4 DEF Evidence

\* Of a supported claim that must be current, a proof is in a page that has not ended.
LEMMA RestsOnThePresent ==
  ASSUME NEW list, NEW claim, RestsOn(claim, list), claim.status = "SUPPORTED",
         claim.needs.bar.freshness = "REQUIRED"
  PROVE  \E e \in Proofs(claim) : \E i \in DOMAIN list :
            list[i].ref = e.ref /\ ~ Ended(PageOf[list[i].page])
<1>1. PICK text, evidence : claim = Evaluate(text, evidence, Market)
  BY DEF RestsOn
<1>2. Status(text, claim.needs, claim.region, claim.evidence) = "SUPPORTED"
  BY <1>1 DEF Evaluate
<1>3. Current(claim.needs, InScope(claim.needs, claim.region, Supporters(claim.evidence)))
  BY <1>2, SupportedMeans
<1>4. PICK e \in InScope(claim.needs, claim.region, Supporters(claim.evidence)) :
         e.freshness \in SupportsThePresent
  BY <1>3 DEF Current
<1>5. e \in Proofs(claim)
  BY <1>4 DEF InScope, Supporters, Proofs
<1>6. PICK i \in DOMAIN list : /\ list[i].ref = e.ref
                               /\ e.freshness = Freshness(PageOf[list[i].page])
  BY <1>5, CitedIsOfThePage DEF Proofs
<1>7. ~ Ended(PageOf[list[i].page])
  BY <1>4, <1>6, PresentHasNotEnded
<1> QED BY <1>5, <1>6, <1>7

-----------------------------------------------------------------------------
(* What pages hold                                                         *)

FiniteText(text) == IsFiniteSet(text.words) /\ IsFiniteSet(text.numbers)

\* The passages of a page are those of its blocks, each a list of texts.
LEMMA PassagesOfAPage ==
  ASSUME NEW name \in DOMAIN PageOf
  PROVE  /\ IsList(Passages(PageOf[name]))
         /\ \A passage \in ToSet(Passages(PageOf[name])) :
              /\ IsList(passage.propositions)
              /\ \A text \in ToSet(passage.propositions) : FiniteText(text)
<1> DEFINE page == PageOf[name]
           kept == {i \in DOMAIN page.blocks : ~ Furniture(page.blocks[i])}
           blocks == At(page.blocks, kept)
           cut == [i \in DOMAIN blocks |-> blocks[i].passages]
<1>1. /\ IsList(page.blocks)
      /\ \A block \in ToSet(page.blocks) :
           /\ IsList(block.passages)
           /\ \A passage \in ToSet(block.passages) :
                /\ IsList(passage.propositions)
                /\ \A text \in ToSet(passage.propositions) : FiniteText(text)
  BY PagesAssumption DEF FiniteText
<1>2. Passages(page) = Concat(cut)
  BY DEF Passages, Where, Mapped
<1>3. /\ IsList(blocks) /\ Len(blocks) \in Nat /\ DOMAIN blocks = 1..Len(blocks)
      /\ \A i \in DOMAIN blocks : blocks[i] \in ToSet(page.blocks)
  <2>1. kept \in SUBSET DOMAIN page.blocks
    OBVIOUS
  <2> HIDE DEF kept, page
  <2>2. /\ IsList(blocks) /\ Len(blocks) \in Nat /\ DOMAIN blocks = 1..Len(blocks)
        /\ ToSet(blocks) \subseteq ToSet(page.blocks)
        /\ \A i \in DOMAIN blocks : blocks[i] \in ToSet(blocks)
    BY <1>1, <2>1, AtOfAList
  <2> HIDE DEF blocks
  <2> QED BY <2>2
<1> HIDE DEF blocks, page
<1>4. DOMAIN cut = 1..Len(blocks) /\ cut = [i \in 1..Len(blocks) |-> cut[i]]
      /\ \A i \in DOMAIN cut : cut[i] = blocks[i].passages
  BY <1>3
<1> HIDE DEF cut
<1>5. IsList(cut) /\ \A i \in DOMAIN cut : IsList(cut[i])
  BY <1>1, <1>3, <1>4, MadeIsList
<1>6. /\ IsList(Concat(cut))
      /\ ToSet(Concat(cut)) = UNION {ToSet(cut[i]) : i \in DOMAIN cut}
  BY <1>5, ConcatIsList
<1>7. ASSUME NEW passage \in ToSet(Passages(page))
      PROVE  /\ IsList(passage.propositions)
             /\ \A text \in ToSet(passage.propositions) : FiniteText(text)
  <2>1. PICK i \in DOMAIN cut : passage \in ToSet(cut[i])
    BY <1>2, <1>6
  <2>2. blocks[i] \in ToSet(page.blocks) /\ passage \in ToSet(blocks[i].passages)
    BY <1>3, <1>4, <2>1
  <2> QED BY <1>1, <2>2
<1> QED BY <1>2, <1>6, <1>7 DEF page

\* What is extracted of a page is stated in its passages.
LEMMA ExtractedOfAPage ==
  ASSUME NEW name \in DOMAIN PageOf
  PROVE  LET texts == Concat(Mapped(Passages(PageOf[name]), Extract))
         IN /\ IsList(texts)
            /\ \A text \in ToSet(texts) : \E passage \in ToSet(Passages(PageOf[name])) :
                  text \in ToSet(passage.propositions)
<1> DEFINE passages == Passages(PageOf[name])
           extracts == Mapped(passages, Extract)
<1>1. /\ IsList(passages) /\ Len(passages) \in Nat /\ DOMAIN passages = 1..Len(passages)
      /\ \A i \in DOMAIN passages : passages[i] \in ToSet(passages)
      /\ \A passage \in ToSet(passages) : IsList(passage.propositions)
  BY PassagesOfAPage, ListShape
<1>2. ASSUME NEW passage, IsList(passage.propositions)
      PROVE  IsList(Extract(passage)) /\ ToSet(Extract(passage)) \subseteq ToSet(passage.propositions)
  <2> DEFINE list == passage.propositions
             places == {i \in DOMAIN list : Assertion(list[i])}
  <2>1. places \in SUBSET DOMAIN list
    OBVIOUS
  <2>2. IsList(At(list, places)) /\ ToSet(At(list, places)) \subseteq ToSet(list)
    <3> HIDE DEF places
    <3> QED BY <1>2, <2>1, AtOfAList
  <2>3. Extract(passage) = Shortened(At(list, places), MaxClaims)
    BY DEF Extract, Where
  <2>4. MaxClaims \in Nat
    BY DEF MaxClaims
  <2> HIDE DEF places, list
  <2> QED BY <2>2, <2>3, <2>4, ShortenedIsList DEF list
<1> HIDE DEF passages
<1>3. DOMAIN extracts = 1..Len(passages) /\ extracts = [i \in 1..Len(passages) |-> extracts[i]]
      /\ \A i \in DOMAIN extracts : extracts[i] = Extract(passages[i])
  BY <1>1 DEF Mapped
<1> HIDE DEF extracts
<1>4. IsList(extracts)
  BY <1>1, <1>3, MadeIsList
<1>5. \A i \in DOMAIN extracts : /\ IsList(extracts[i])
                                 /\ ToSet(extracts[i]) \subseteq ToSet(passages[i].propositions)
  BY <1>1, <1>2, <1>3
<1>6. /\ IsList(Concat(extracts))
      /\ ToSet(Concat(extracts)) = UNION {ToSet(extracts[i]) : i \in DOMAIN extracts}
  BY <1>4, <1>5, ConcatIsList
<1>7. ASSUME NEW text \in ToSet(Concat(extracts))
      PROVE  \E passage \in ToSet(passages) : text \in ToSet(passage.propositions)
  <2>1. PICK i \in DOMAIN extracts : text \in ToSet(extracts[i])
    BY <1>6
  <2> QED BY <1>1, <1>3, <1>5, <2>1
<1> QED BY <1>6, <1>7 DEF extracts, passages

-----------------------------------------------------------------------------
(* The claims of a list of sources                                         *)

Sources(list) == IsList(list) /\ \A i \in DOMAIN list : list[i] \in Source

\* A text that stands in a passage of a page.
StandsOn(text, page) ==
  \E passage \in ToSet(Passages(page)) : text \in ToSet(passage.propositions)

WinnerOf(list, eligible, ref) == list[Winner(list, eligible, ref)]

\* What a reference is heard to say: its last eligible source, in its name.
Saying(list, eligible, s) ==
  LET texts == Concat(Mapped(Passages(PageOf[WinnerOf(list, eligible, s.ref).page]), Extract))
  IN [i \in DOMAIN texts |-> [text |-> texts[i], ref |-> s.ref]]

LEMMA SaidOnAPage ==
  ASSUME NEW list, Sources(list), NEW eligible \in SUBSET DOMAIN list, NEW h \in eligible
  PROVE  LET said == Saying(list, eligible, list[h])
         IN /\ IsList(said)
            /\ \A c \in ToSet(said) :
                  /\ c.ref = list[h].ref
                  /\ StandsOn(c.text, PageOf[WinnerOf(list, eligible, c.ref).page])
<1> DEFINE ref == list[h].ref
           page == WinnerOf(list, eligible, ref).page
           texts == Concat(Mapped(Passages(PageOf[page]), Extract))
           said == Saying(list, eligible, list[h])
<1>1. Len(list) \in Nat /\ DOMAIN list = 1..Len(list)
  BY ListShape DEF Sources
<1>2. Winner(list, eligible, ref) \in eligible
  BY <1>1, WinnerBears
<1>3. page \in DOMAIN PageOf
  BY <1>2 DEF WinnerOf, Sources, Source
<1> HIDE DEF page
<1>4. /\ IsList(texts)
      /\ \A text \in ToSet(texts) : StandsOn(text, PageOf[page])
  BY <1>3, ExtractedOfAPage DEF StandsOn
<1>5. said = [i \in DOMAIN texts |-> [text |-> texts[i], ref |-> ref]]
  BY DEF Saying, page
<1> HIDE DEF texts, said, ref
<1>6. /\ Len(texts) \in Nat /\ DOMAIN texts = 1..Len(texts)
      /\ \A i \in DOMAIN texts : texts[i] \in ToSet(texts)
  BY <1>4, ListShape
<1>7. DOMAIN said = 1..Len(texts) /\ said = [i \in 1..Len(texts) |-> said[i]]
      /\ \A i \in DOMAIN said : said[i] = [text |-> texts[i], ref |-> ref]
  BY <1>5, <1>6
<1>8. IsList(said)
  BY <1>6, <1>7, MadeIsList
<1>9. ASSUME NEW c \in ToSet(said) PROVE c.ref = ref /\ StandsOn(c.text, PageOf[page])
  <2>1. PICK i \in DOMAIN said : c = said[i]
    BY DEF ToSet
  <2>2. c.ref = ref /\ c.text = texts[i] /\ texts[i] \in ToSet(texts)
    BY <1>6, <1>7, <2>1
  <2> QED BY <1>4, <2>2
<1> QED BY <1>8, <1>9 DEF said, ref, page

\* The same wording is kept once.
LEMMA DistinctOnce ==
  ASSUME NEW claims, IsList(claims)
  PROVE  LET kept == Distinct(claims)
         IN /\ IsList(kept) /\ ToSet(kept) \subseteq ToSet(claims)
            /\ \A j, k \in DOMAIN kept : kept[j].text.wording = kept[k].text.wording => j = k
<1> DEFINE fresh == {i \in DOMAIN claims : \A j \in 1..(i - 1) :
                       claims[j].text.wording # claims[i].text.wording}
           kept == Distinct(claims)
           order == Ascending(fresh)
<1>1. Len(claims) \in Nat /\ DOMAIN claims = 1..Len(claims) /\ fresh \in SUBSET DOMAIN claims
  BY ListShape
<1>2. \A i, j \in fresh : claims[i].text.wording = claims[j].text.wording => i = j
  BY <1>1
<1>3. kept = At(claims, fresh)
  BY DEF Distinct
<1> HIDE DEF fresh
<1>4. /\ IsList(kept) /\ ToSet(kept) \subseteq ToSet(claims)
  BY <1>1, <1>3, AtOfAList
<1>5. /\ \A k \in DOMAIN kept : order[k] \in fresh /\ kept[k] = claims[order[k]]
      /\ \A j, k \in DOMAIN kept : order[j] = order[k] => j = k
  BY <1>1, <1>3, AtIsList
<1> HIDE DEF kept, order
<1>6. \A j, k \in DOMAIN kept : kept[j].text.wording = kept[k].text.wording => j = k
  BY <1>2, <1>5
<1> QED BY <1>4, <1>6 DEF kept

LEMMA FoundOnAPage ==
  ASSUME NEW list, Sources(list), NEW eligible \in SUBSET DOMAIN list
  PROVE  LET found == ClaimsOf(list, eligible)
         IN /\ IsList(found)
            /\ \A c \in ToSet(found) : \E i \in eligible :
                  /\ c.ref = list[i].ref
                  /\ StandsOn(c.text, PageOf[WinnerOf(list, eligible, c.ref).page])
            /\ \A j, k \in DOMAIN found :
                  found[j].text.wording = found[k].text.wording => j = k
<1> DEFINE firsts == {i \in eligible : \A j \in eligible : list[j].ref = list[i].ref => i <= j}
           heard == At(list, firsts)
           sayings == [k \in DOMAIN heard |-> Saying(list, eligible, heard[k])]
<1>1. ClaimsOf(list, eligible) = Distinct(Concat(sayings))
  BY DEF ClaimsOf, Mapped, Saying, WinnerOf
<1>2. firsts \in SUBSET DOMAIN list /\ firsts \in SUBSET eligible
  OBVIOUS
<1> HIDE DEF firsts
<1>3. /\ Len(heard) \in Nat /\ DOMAIN heard = 1..Len(heard)
      /\ ToSet(heard) = {list[i] : i \in firsts}
      /\ \A k \in DOMAIN heard : heard[k] \in ToSet(heard)
  BY <1>2, AtOfAList DEF Sources
<1> HIDE DEF heard
<1>4. DOMAIN sayings = 1..Len(heard) /\ sayings = [k \in 1..Len(heard) |-> sayings[k]]
      /\ \A k \in DOMAIN sayings : sayings[k] = Saying(list, eligible, heard[k])
  BY <1>3
<1> HIDE DEF sayings
<1>5. ASSUME NEW k \in DOMAIN sayings
      PROVE  \E i \in eligible : sayings[k] = Saying(list, eligible, list[i])
  BY <1>2, <1>3, <1>4
<1>6. IsList(sayings) /\ \A k \in DOMAIN sayings : IsList(sayings[k])
  <2>1. IsList(sayings)
    BY <1>3, <1>4, MadeIsList
  <2> QED BY <1>5, <2>1, SaidOnAPage
<1>7. IsList(Concat(sayings))
      /\ ToSet(Concat(sayings)) = UNION {ToSet(sayings[k]) : k \in DOMAIN sayings}
  BY <1>6, ConcatIsList
<1>8. ASSUME NEW c \in ToSet(Concat(sayings))
      PROVE  \E i \in eligible :
                /\ c.ref = list[i].ref
                /\ StandsOn(c.text, PageOf[WinnerOf(list, eligible, c.ref).page])
  <2>1. PICK k \in DOMAIN sayings : c \in ToSet(sayings[k])
    BY <1>7
  <2>2. PICK i \in eligible : sayings[k] = Saying(list, eligible, list[i])
    BY <1>5
  <2> QED BY <2>1, <2>2, SaidOnAPage
<1> DEFINE found == Distinct(Concat(sayings))
<1>9. /\ IsList(found) /\ ToSet(found) \subseteq ToSet(Concat(sayings))
      /\ \A j, k \in DOMAIN found : found[j].text.wording = found[k].text.wording => j = k
  BY <1>7, DistinctOnce
<1> HIDE DEF found
<1> QED BY <1>1, <1>8, <1>9 DEF found

-----------------------------------------------------------------------------
(* The package of a list of sources                                        *)

Eligible(list, verdicts) == {i \in DOMAIN list : verdicts[list[i].ref] = "RELEVANT"}

\* What each eligible reference is heard as.
Heard(list, eligible) ==
  [ref \in {list[i].ref : i \in eligible} |->
     Evidence(PageOf[WinnerOf(list, eligible, ref).page])]

LEMMA BuiltWell ==
  ASSUME NEW list, Sources(list), NEW verdicts
  PROVE  LET eligible == Eligible(list, verdicts)
             built == Build(list, verdicts)
         IN /\ IsList(built.claims)
            /\ \A c \in ToSet(built.claims) :
                  /\ c = Evaluate(c.text, Heard(list, eligible), Market)
                  /\ \E i \in eligible :
                        StandsOn(c.text, PageOf[WinnerOf(list, eligible, list[i].ref).page])
            /\ \A j, k \in DOMAIN built.claims :
                  built.claims[j].text.wording = built.claims[k].text.wording => j = k
<1> DEFINE eligible == Eligible(list, verdicts)
           found == ClaimsOf(list, eligible)
           heard == Heard(list, eligible)
           claims == Build(list, verdicts).claims
<1>1. claims = [k \in DOMAIN found |-> Evaluate(found[k].text, heard, Market)]
  BY DEF Build, Eligible, Heard, WinnerOf
<1>2. eligible \in SUBSET DOMAIN list
  BY DEF Eligible
<1> HIDE DEF eligible
<1>3. /\ IsList(found)
      /\ \A c \in ToSet(found) : \E i \in eligible :
            /\ c.ref = list[i].ref
            /\ StandsOn(c.text, PageOf[WinnerOf(list, eligible, c.ref).page])
      /\ \A j, k \in DOMAIN found : found[j].text.wording = found[k].text.wording => j = k
  BY <1>2, FoundOnAPage
<1> HIDE DEF found, heard, claims
<1>4. /\ Len(found) \in Nat /\ DOMAIN found = 1..Len(found)
      /\ \A k \in DOMAIN found : found[k] \in ToSet(found)
  BY <1>3, ListShape
<1>5. DOMAIN claims = 1..Len(found) /\ claims = [k \in 1..Len(found) |-> claims[k]]
      /\ \A k \in DOMAIN claims : claims[k] = Evaluate(found[k].text, heard, Market)
  BY <1>1, <1>4
<1>6. \A text : Evaluate(text, heard, Market).text = text
  BY DEF Evaluate
<1>7. IsList(claims)
  BY <1>4, <1>5, MadeIsList
<1>8. ASSUME NEW c \in ToSet(claims)
      PROVE  /\ c = Evaluate(c.text, heard, Market)
             /\ \E i \in eligible :
                   StandsOn(c.text, PageOf[WinnerOf(list, eligible, list[i].ref).page])
  <2>1. PICK k \in DOMAIN claims : c = claims[k]
    BY DEF ToSet
  <2>2. c.text = found[k].text /\ found[k] \in ToSet(found)
    BY <1>4, <1>5, <1>6, <2>1
  <2>3. c = Evaluate(c.text, heard, Market)
    BY <1>5, <2>1, <2>2
  <2>4. PICK i \in eligible : /\ found[k].ref = list[i].ref
                              /\ StandsOn(found[k].text,
                                          PageOf[WinnerOf(list, eligible, found[k].ref).page])
    BY <1>3, <2>2
  <2> QED BY <2>2, <2>3, <2>4
<1>9. \A k \in DOMAIN claims : k \in DOMAIN found /\ claims[k].text = found[k].text
  BY <1>4, <1>5, <1>6
<1>10. \A j, k \in DOMAIN claims : claims[j].text.wording = claims[k].text.wording => j = k
  BY <1>3, <1>9
<1> QED BY <1>7, <1>8, <1>10 DEF claims, eligible, heard

LEMMA BuiltEntries ==
  ASSUME NEW list, IsList(list), NEW verdicts
  PROVE  LET entries == Build(list, verdicts).entries
         IN /\ IsList(entries) /\ Len(entries) = Len(list)
            /\ \A i \in DOMAIN list : entries[i].source = list[i]
<1> DEFINE entries == Build(list, verdicts).entries
<1>1. entries = [i \in DOMAIN list |-> [source |-> list[i],
                                        status |-> verdicts[list[i].ref]]]
  BY DEF Build
<1>2. Len(list) \in Nat /\ DOMAIN list = 1..Len(list)
  BY ListShape
<1> HIDE DEF entries
<1>3. DOMAIN entries = 1..Len(list) /\ entries = [i \in 1..Len(list) |-> entries[i]]
      /\ \A i \in DOMAIN list : entries[i].source = list[i]
  BY <1>1, <1>2
<1> QED BY <1>2, <1>3, MadeIsList DEF entries

\* What is cited stands in a passage of the page heard under its reference.
LEMMA CitedPassage ==
  ASSUME NEW list, Sources(list), NEW eligible \in SUBSET DOMAIN list, NEW text,
         NEW e \in Candidates(text, Heard(list, eligible))
  PROVE  \E i \in eligible :
            /\ e.ref = list[i].ref
            /\ \E passage \in ToSet(Passages(PageOf[WinnerOf(list, eligible, e.ref).page])) :
                  e.passage = passage.text
<1> DEFINE heard == Heard(list, eligible)
           category == Category(text)
<1>1. PICK ref \in DOMAIN heard : /\ heard[ref].passages # <<>>
                                  /\ e.ref = ref
                                  /\ e.passage = Best(text, category, heard[ref]).passage
  BY DEF Candidates
<1>2. PICK i \in eligible : ref = list[i].ref
  BY DEF Heard
<1> DEFINE page == WinnerOf(list, eligible, ref).page
           passages == Passages(PageOf[page])
           texts == [k \in DOMAIN passages |-> passages[k].text]
<1>3. page \in DOMAIN PageOf
  <2>1. Len(list) \in Nat /\ DOMAIN list = 1..Len(list)
    BY ListShape DEF Sources
  <2>2. Winner(list, eligible, ref) \in eligible
    BY <1>2, <2>1, WinnerBears
  <2> QED BY <2>2 DEF WinnerOf, Sources, Source
<1>4. heard[ref].passages = texts
  BY <1>1 DEF Heard, Evidence, Mapped
<1> HIDE DEF page, heard
<1>5. /\ IsList(passages) /\ Len(passages) \in Nat /\ DOMAIN passages = 1..Len(passages)
      /\ \A k \in DOMAIN passages : passages[k] \in ToSet(passages)
  BY <1>3, PassagesOfAPage, ListShape
<1> HIDE DEF passages
<1>6. /\ DOMAIN texts = 1..Len(passages) /\ texts = [k \in 1..Len(passages) |-> texts[k]]
      /\ \A k \in DOMAIN texts : texts[k] = passages[k].text
  BY <1>5
<1> HIDE DEF texts
<1>7. 1 \in DOMAIN texts
  <2>1. IsList(texts)
    BY <1>5, <1>6, MadeIsList
  <2> QED BY <1>1, <1>4, <2>1, NotEmpty
<1> DEFINE rungs == [k \in DOMAIN texts |->
                       <<Match(text, category, texts[k], heard[ref].region).supports, k>>]
           best == FirstOf(rungs, 1)
<1>8. e.passage = texts[best]
  BY <1>1, <1>4 DEF Best
<1>9. best \in DOMAIN texts
  <2>1. DOMAIN rungs = 1..Len(passages) /\ \A k \in 1..Len(passages) : rungs[k][2] = k
    BY <1>6
  <2> HIDE DEF rungs
  <2>2. YieldsFirst(rungs, Len(passages), 1)
    BY <1>5, <2>1, Ladder
  <2>3. best = 1 \/ \E k \in 1..Len(passages) : best = rungs[k][2]
    BY <2>2 DEF YieldsFirst
  <2> QED BY <1>6, <1>7, <2>1, <2>3
<1>10. e.passage = passages[best].text /\ passages[best] \in ToSet(passages)
  <2> HIDE DEF best
  <2> QED BY <1>5, <1>6, <1>8, <1>9
<1> QED BY <1>1, <1>2, <1>10 DEF passages, page

-----------------------------------------------------------------------------
(* Verdicts, one for each reference                                        *)

Verdicts == {"RELEVANT", "LOW_RELEVANCE", "IRRELEVANT", "UNKNOWN"}

\* What the gate may say of a source; an official one is not shown to the model.
Allowed(s) == IF s.official THEN {OwnVerdict(s)} ELSE Reviewed(OwnVerdict(s))

IsLast(list, i) == \A j \in DOMAIN list : list[j].ref = list[i].ref => j <= i

\* There is a verdict on every reference, and it is one on its last source.
Sound(list, verdicts) ==
  /\ DOMAIN verdicts = {list[i].ref : i \in DOMAIN list}
  /\ \A i \in DOMAIN list : IsLast(list, i) => verdicts[list[i].ref] \in Allowed(list[i])

LEMMA RelevanceMeans ==
  ASSUME NEW query, NEW page
  PROVE  /\ Relevance(query, page) \in Verdicts
         /\ Relevance(query, page) \in {"RELEVANT", "LOW_RELEVANCE"} =>
              Topic(query) \cap (page.title \cup page.body \cup HostWords(page)) # {}
<1> DEFINE told == Topic(query) \cap (page.title \cup page.body \cup HostWords(page))
           rungs == << <<Topic(query) = {}, "UNKNOWN">>, <<told = {}, "IRRELEVANT">>,
                       <<Reaches(query, page, RelevantAt), "RELEVANT">>,
                       <<Reaches(query, page, LowAt), "LOW_RELEVANCE">> >>
           verdict == FirstOf(rungs, "IRRELEVANT")
<1>1. Relevance(query, page) = verdict
  BY DEF Relevance
<1>2. /\ DOMAIN rungs = 1..4 /\ rungs[1][2] = "UNKNOWN" /\ rungs[2][2] = "IRRELEVANT"
      /\ rungs[3][2] = "RELEVANT" /\ rungs[4][2] = "LOW_RELEVANCE"
  OBVIOUS
<1>3. rungs[2][1] = (told = {})
  OBVIOUS
<1> HIDE DEF rungs
<1>4. verdict \in Verdicts
  <2>1. YieldsFirst(rungs, 4, "IRRELEVANT")
    BY <1>2, Ladder
  <2> QED BY <1>2, <2>1 DEF YieldsFirst, Verdicts
<1>5. verdict \in {"RELEVANT", "LOW_RELEVANCE"} => ~ rungs[2][1]
  <2>1. \A k \in 1..4 : (\A i \in 1..k : rungs[i][2] # verdict) => ~ rungs[k][1]
    BY <1>2, NoRung
  <2>2. verdict \in {"RELEVANT", "LOW_RELEVANCE"} => \A i \in 1..2 : rungs[i][2] # verdict
    BY <1>2
  <2> QED BY <2>1, <2>2
<1> QED BY <1>1, <1>3, <1>4, <1>5

\* Where the verdict on a source is that it is relevant, its page was on the topic.
LEMMA RelevantIsAdmissible ==
  ASSUME NEW s, "RELEVANT" \in Allowed(s)
  PROVE  Admissible(s)
<1>1. OwnVerdict(s) \in IF s.official THEN {"RELEVANT"} ELSE {"RELEVANT", "LOW_RELEVANCE"}
  BY DEF Allowed, Reviewed
<1>2. OwnVerdict(s) \in {"RELEVANT", "LOW_RELEVANCE"}
  BY <1>1
<1>3. Topic(s.query) \cap (PageOf[s.page].title \cup PageOf[s.page].body
                             \cup HostWords(PageOf[s.page])) # {}
  BY <1>2, RelevanceMeans DEF OwnVerdict
<1> QED BY <1>1, <1>3 DEF Admissible

LEMMA LastOf ==
  ASSUME NEW list, IsList(list), NEW i \in DOMAIN list
  PROVE  \E j \in DOMAIN list : list[j].ref = list[i].ref /\ IsLast(list, j)
<1> DEFINE bearing == {j \in DOMAIN list : list[j].ref = list[i].ref}
<1>1. Len(list) \in Nat /\ bearing \in SUBSET (1..Len(list)) /\ bearing # {}
  BY ListShape
<1>2. PICK m \in bearing : \A k \in bearing : k <= m
  BY <1>1, Greatest
<1> QED BY <1>2 DEF IsLast

LEMMA SoundValues ==
  ASSUME NEW list, IsList(list), NEW verdicts, Sound(list, verdicts)
  PROVE  \A ref \in DOMAIN verdicts : verdicts[ref] \in Verdicts
<1> SUFFICES ASSUME NEW i \in DOMAIN list PROVE verdicts[list[i].ref] \in Verdicts
  BY DEF Sound
<1>1. PICK j \in DOMAIN list : list[j].ref = list[i].ref /\ IsLast(list, j)
  BY LastOf
<1>2. verdicts[list[i].ref] \in Allowed(list[j])
  BY <1>1 DEF Sound
<1>3. Allowed(list[j]) \subseteq Verdicts
  BY RelevanceMeans DEF Allowed, Reviewed, OwnVerdict, Verdicts
<1> QED BY <1>2, <1>3

\* The source that speaks for a reference in a package was admitted.
LEMMA WinnerIsAdmissible ==
  ASSUME NEW list, IsList(list), NEW verdicts, Sound(list, verdicts),
         NEW i \in Eligible(list, verdicts)
  PROVE  LET w == Winner(list, Eligible(list, verdicts), list[i].ref)
         IN /\ w \in DOMAIN list /\ list[w].ref = list[i].ref /\ Admissible(list[w])
<1> DEFINE eligible == Eligible(list, verdicts)
           ref == list[i].ref
           w == Winner(list, eligible, ref)
<1>1. Len(list) \in Nat /\ DOMAIN list = 1..Len(list) /\ eligible \in SUBSET (1..Len(list))
  BY ListShape DEF Eligible
<1>2. verdicts[ref] = "RELEVANT" /\ i \in DOMAIN list
  BY DEF Eligible
<1>3. \A j \in DOMAIN list : list[j].ref = ref => j \in eligible
  BY <1>2 DEF Eligible
<1>4. PICK m \in DOMAIN list : list[m].ref = ref /\ IsLast(list, m)
  BY <1>2, LastOf
<1>5. m \in eligible /\ \A j \in eligible : list[j].ref = ref => j <= m
  BY <1>1, <1>3, <1>4 DEF IsLast
<1>6. w \in eligible /\ list[w].ref = ref /\ m <= w
  <2>1. \E k \in eligible : list[k].ref = ref
                             /\ \A j \in eligible : list[j].ref = ref => j <= k
    BY <1>4, <1>5
  <2> HIDE DEF eligible, ref
  <2> QED BY <1>4, <1>5, <2>1 DEF Winner
<1>7. w = m
  <2> HIDE DEF w, eligible
  <2> QED BY <1>1, <1>5, <1>6
<1>8. "RELEVANT" \in Allowed(list[m])
  BY <1>2, <1>4 DEF Sound
<1> QED BY <1>1, <1>4, <1>7, <1>8, RelevantIsAdmissible

\* Judging more sources keeps every verdict one on the last source of its reference.
LEMMA OverwriteSound ==
  ASSUME NEW s, NEW t, IsList(s), IsList(t), NEW old, Sound(s, old), NEW verdicts,
         \A i \in DOMAIN t : verdicts[i] \in Allowed(t[i])
  PROVE  Sound(s \o t, Overwrite(old, t, verdicts))
<1> DEFINE more == s \o t
           n == Len(s)
           last(ref) == CHOOSE i \in DOMAIN t : /\ t[i].ref = ref
                                                /\ \A j \in DOMAIN t : t[j].ref = ref => j <= i
           refs == {t[i].ref : i \in DOMAIN t}
           now == Overwrite(old, t, verdicts)
<1>1. /\ n \in Nat /\ Len(t) \in Nat /\ DOMAIN s = 1..n /\ DOMAIN t = 1..Len(t)
      /\ DOMAIN more = 1..(n + Len(t))
      /\ \A i \in 1..n : more[i] = s[i]
      /\ \A i \in 1..Len(t) : n + i \in DOMAIN more /\ more[n + i] = t[i]
  BY Joined, ListShape
<1>2. now = [ref \in refs \cup DOMAIN old |->
               IF ref \in refs THEN verdicts[last(ref)] ELSE old[ref]]
  BY DEF Overwrite
<1> HIDE DEF last
<1>3. /\ DOMAIN now = {t[i].ref : i \in DOMAIN t} \cup DOMAIN old
      /\ \A ref \in {t[i].ref : i \in DOMAIN t} : now[ref] = verdicts[last(ref)]
      /\ \A ref \in DOMAIN old : ref \notin {t[i].ref : i \in DOMAIN t} => now[ref] = old[ref]
  BY <1>2
<1> HIDE DEF more, now, n
<1>4. \A k \in DOMAIN more : k \in DOMAIN s \/ \E i \in DOMAIN t : k = n + i
  <2> SUFFICES ASSUME NEW k \in DOMAIN more, k \notin DOMAIN s
               PROVE  \E i \in DOMAIN t : k = n + i
    OBVIOUS
  <2>1. k - n \in DOMAIN t /\ k = n + (k - n)
    BY <1>1
  <2> QED BY <2>1
<1>5. DOMAIN now = {more[i].ref : i \in DOMAIN more}
  <2>1. DOMAIN old = {s[i].ref : i \in DOMAIN s}
    BY DEF Sound
  <2>2. \A i \in DOMAIN s : i \in DOMAIN more /\ more[i] = s[i]
    BY <1>1
  <2>3. \A i \in DOMAIN t : n + i \in DOMAIN more /\ more[n + i] = t[i]
    BY <1>1
  <2> QED BY <1>3, <1>4, <2>1, <2>2, <2>3
<1>6. ASSUME NEW k \in DOMAIN more, IsLast(more, k)
      PROVE  now[more[k].ref] \in Allowed(more[k])
  <2>1. CASE \E i \in DOMAIN t : k = n + i
    <3>1. PICK i \in DOMAIN t : k = n + i
      BY <2>1
    <3>2. more[k] = t[i]
      BY <1>1, <3>1
    <3>3. \A j \in DOMAIN t : t[j].ref = t[i].ref => j <= i
      <4> SUFFICES ASSUME NEW j \in DOMAIN t, t[j].ref = t[i].ref PROVE j <= i
        OBVIOUS
      <4>1. n + j \in DOMAIN more /\ more[n + j] = t[j]
        BY <1>1
      <4>2. n + j <= k
        BY <1>6, <3>2, <4>1 DEF IsLast
      <4> QED BY <1>1, <3>1, <4>2
    <3>4. last(t[i].ref) = i
      <4>1. /\ last(t[i].ref) \in DOMAIN t /\ t[last(t[i].ref)].ref = t[i].ref
            /\ \A j \in DOMAIN t : t[j].ref = t[i].ref => j <= last(t[i].ref)
        BY <3>3 DEF last
      <4>2. i <= last(t[i].ref) /\ last(t[i].ref) <= i
        BY <3>3, <4>1
      <4> QED BY <1>1, <4>1, <4>2
    <3>5. now[t[i].ref] = verdicts[i]
      BY <1>3, <3>4
    <3> QED BY <3>2, <3>5
  <2>2. CASE k \in DOMAIN s
    <3>1. more[k] = s[k] /\ k <= n
      BY <1>1, <2>2
    <3>2. s[k].ref \notin {t[i].ref : i \in DOMAIN t}
      <4> SUFFICES ASSUME NEW i \in DOMAIN t, t[i].ref = s[k].ref PROVE FALSE
        OBVIOUS
      <4>1. n + i \in DOMAIN more /\ more[n + i] = t[i]
        BY <1>1
      <4>2. n + i <= k
        BY <1>6, <3>1, <4>1 DEF IsLast
      <4> QED BY <1>1, <3>1, <4>2
    <3>3. IsLast(s, k)
      <4> SUFFICES ASSUME NEW j \in DOMAIN s, s[j].ref = s[k].ref PROVE j <= k
        BY DEF IsLast
      <4>1. j \in DOMAIN more /\ more[j] = s[j]
        BY <1>1
      <4> QED BY <1>6, <3>1, <4>1 DEF IsLast
    <3>4. old[s[k].ref] \in Allowed(s[k]) /\ s[k].ref \in DOMAIN old
      BY <2>2, <3>3 DEF Sound
    <3>5. now[s[k].ref] = old[s[k].ref]
      BY <1>3, <3>2, <3>4
    <3> QED BY <3>1, <3>4, <3>5
  <2> QED BY <1>4, <2>1, <2>2
<1> QED BY <1>5, <1>6 DEF Sound, more, now

-----------------------------------------------------------------------------
(* What a claim is given                                                   *)

Statuses == {"SUPPORTED", "PARTIALLY_SUPPORTED", "UNSUPPORTED", "CONFLICTING"}

LEMMA DetectsARegion ==
  ASSUME NEW named
  PROVE  DetectRegion(named) \in Region
<1> DEFINE sub == named \cap Subnational
<1>1. CASE \E r \in sub : sub = {r}
  <2>1. DetectRegion(named) = CHOOSE r \in sub : TRUE
    BY <1>1 DEF DetectRegion
  <2>2. (CHOOSE r \in sub : TRUE) \in sub
    BY <1>1
  <2> QED BY <2>1, <2>2 DEF Region
<1>2. CASE ~ \E r \in sub : sub = {r}
  <2>1. DetectRegion(named) = IF sub # {} \/ "BE" \in named THEN "BE" ELSE "UNKNOWN"
    BY <1>2 DEF DetectRegion
  <2> QED BY <2>1 DEF Region
<1> QED BY <1>1, <1>2

LEMMA ClaimsAreTyped ==
  ASSUME NEW text, NEW heard
  PROVE  /\ Evaluate(text, heard, Market).status \in Statuses
         /\ Evaluate(text, heard, Market).region \in Region
<1> DEFINE needs == Requirements(text)
           found == Candidates(text, heard)
           region == ClaimRegion(text, needs, found, Market)
           status == Status(text, needs, region, found)
<1>1. /\ Evaluate(text, heard, Market).status = status
      /\ Evaluate(text, heard, Market).region = region
  BY DEF Evaluate
<1> HIDE DEF needs, found
<1>2. region \in Region
  <2> DEFINE stated == DetectRegion(text.regions)
             local == {e.region : e \in Supporters(found)} \cap Subnational
  <2>1. region = IF stated # "UNKNOWN" THEN stated
                 ELSE IF needs.regional /\ \E r \in local : local = {r}
                      THEN CHOOSE r \in local : TRUE ELSE Market
    BY DEF ClaimRegion
  <2>2. stated \in Region
    BY DetectsARegion
  <2>3. (\E r \in local : local = {r}) => (CHOOSE r \in local : TRUE) \in Region
    <3>1. (\E r \in local : local = {r}) => (CHOOSE r \in local : TRUE) \in local
      OBVIOUS
    <3> QED BY <3>1 DEF Region
  <2> HIDE DEF stated, local
  <2> QED BY <2>1, <2>2, <2>3, MarketAssumption
<1> HIDE DEF region
<1>3. status \in Statuses
  <2> DEFINE supporters == Supporters(found)
             inScope == InScope(needs, region, supporters)
             rungs == << <<TrueConflicts(text, region, found) # {}, "CONFLICTING">>,
                         <<supporters = {}, "UNSUPPORTED">>,
                         <<inScope = {}, "UNSUPPORTED">>,
                         <<Sufficient(needs, inScope) = {}, "UNSUPPORTED">>,
                         <<~Corroborated(needs, supporters, inScope), "PARTIALLY_SUPPORTED">>,
                         <<~Current(needs, inScope), "PARTIALLY_SUPPORTED">> >>
  <2>1. status = FirstOf(rungs, "SUPPORTED")
    BY DEF Status
  <2>2. DOMAIN rungs = 1..6 /\ \A k \in 1..6 : rungs[k][2] \in Statuses
    BY DEF Statuses
  <2> HIDE DEF rungs
  <2>3. YieldsFirst(rungs, 6, "SUPPORTED")
    BY <2>2, Ladder
  <2> QED BY <2>1, <2>2, <2>3 DEF YieldsFirst, Statuses
<1> QED BY <1>1, <1>2, <1>3

-----------------------------------------------------------------------------
(* The searches a package asks for                                         *)

\* A plan: a list of searches, no two of the same query.
Searches(list) ==
  /\ IsList(list)
  /\ \A i \in DOMAIN list : list[i].query \in DOMAIN WordsOf
  /\ \A i, j \in DOMAIN list : list[i].query = list[j].query => i = j

LEMMA ProposedOnce ==
  ASSUME NEW list, Searches(list), NEW category, NEW variant
  PROVE  LET more == Propose(list, category, variant)
         IN Searches(more) /\ Len(more) <= Len(list) + 1
<1> DEFINE key == <<category, variant>>
           search == [query |-> Template[key], category |-> category]
           skip == \/ key \notin DOMAIN Template
                   \/ \E i \in DOMAIN list : list[i].query = Template[key]
<1>0. IsList(list) /\ Len(list) \in Nat /\ DOMAIN list = 1..Len(list)
  BY ListShape DEF Searches
<1>1. CASE skip
  <2>1. Propose(list, category, variant) = list
    BY <1>1 DEF Propose
  <2> QED BY <1>0, <2>1
<1>2. CASE ~ skip
  <2> DEFINE more == Append(list, search)
  <2>1. Propose(list, category, variant) = more
    BY <1>2 DEF Propose
  <2>2. /\ search.query = Template[key] /\ Template[key] \in DOMAIN WordsOf
        /\ \A i \in DOMAIN list : list[i].query # search.query
    BY <1>2, TemplateAssumption
  <2> HIDE DEF search
  <2>3. /\ IsList(more) /\ Len(more) = Len(list) + 1 /\ more[Len(list) + 1] = search
        /\ \A i \in 1..Len(list) : more[i] = list[i]
    BY <1>0, AppendedIsList
  <2> HIDE DEF more
  <2>4. DOMAIN more = 1..(Len(list) + 1)
    BY <2>3, ListShape
  <2>5. \A i \in DOMAIN more : i = Len(list) + 1 \/ i \in DOMAIN list
    BY <1>0, <2>4
  <2>6. \A i \in DOMAIN more : more[i].query \in DOMAIN WordsOf
    BY <1>0, <2>2, <2>3, <2>5 DEF Searches
  <2>7. ASSUME NEW i \in DOMAIN more, NEW j \in DOMAIN more, more[i].query = more[j].query
        PROVE  i = j
    <3>1. CASE i \in DOMAIN list /\ j \in DOMAIN list
      BY <1>0, <2>3, <2>7, <3>1 DEF Searches
    <3>2. CASE i \in DOMAIN list /\ j = Len(list) + 1
      BY <1>0, <2>2, <2>3, <2>7, <3>2
    <3>3. CASE j \in DOMAIN list /\ i = Len(list) + 1
      BY <1>0, <2>2, <2>3, <2>7, <3>3
    <3> QED BY <2>5, <3>1, <3>2, <3>3
  <2> QED BY <1>0, <2>1, <2>3, <2>6, <2>7 DEF Searches
<1> QED BY <1>1, <1>2

LEMMA CategoryWithinCeiling ==
  ASSUME NEW list, Searches(list), Len(list) <= MaxQueries + 1, NEW category
  PROVE  LET more == ForCategory(list, category)
         IN Searches(more) /\ Len(more) <= MaxQueries + 1
<1> DEFINE try(p, variant) == IF Len(p) >= MaxQueries THEN p
                              ELSE Propose(p, category, variant)
<1>0. \A p : Searches(p) => Len(p) \in Nat
  BY ListShape DEF Searches
<1>1. ASSUME NEW p, Searches(p), Len(p) <= MaxQueries, NEW variant
      PROVE  Searches(try(p, variant)) /\ Len(try(p, variant)) <= MaxQueries
  <2>1. CASE Len(p) >= MaxQueries
    BY <1>1, <2>1
  <2>2. CASE ~ (Len(p) >= MaxQueries)
    <3>1. try(p, variant) = Propose(p, category, variant)
      BY <2>2
    <3>2. Searches(try(p, variant)) /\ Len(try(p, variant)) <= Len(p) + 1
      BY <1>1, <3>1, ProposedOnce
    <3> HIDE DEF try
    <3> QED BY <1>0, <1>1, <2>2, <3>2, MaxQueriesAssumption
  <2> QED BY <2>1, <2>2
<1>2. CASE Len(list) >= MaxQueries
  <2>1. ForCategory(list, category) = list
    BY <1>2 DEF ForCategory
  <2> QED BY <2>1
<1>3. CASE ~ (Len(list) >= MaxQueries)
  <2> DEFINE local == try(try(try(list, "WAL"), "BRU"), "VLG")
  <2>1. ForCategory(list, category) = Propose(local, category, "national")
    BY <1>3 DEF ForCategory
  <2>2. Len(list) <= MaxQueries
    BY <1>0, <1>3, MaxQueriesAssumption
  <2> HIDE DEF try
  <2>3. Searches(try(list, "WAL")) /\ Len(try(list, "WAL")) <= MaxQueries
    BY <1>1, <2>2
  <2>4. /\ Searches(try(try(list, "WAL"), "BRU"))
        /\ Len(try(try(list, "WAL"), "BRU")) <= MaxQueries
    BY <1>1, <2>3
  <2>5. Searches(local) /\ Len(local) <= MaxQueries
    BY <1>1, <2>4
  <2> HIDE DEF local
  <2>6. LET more == Propose(local, category, "national")
        IN Searches(more) /\ Len(more) <= Len(local) + 1
    BY <2>5, ProposedOnce
  <2> QED BY <1>0, <2>1, <2>5, <2>6, MaxQueriesAssumption
<1> QED BY <1>2, <1>3

\* The plan after the first m categories.
Planned(categories, f, m) ==
  f = [k \in 0..m |-> IF k = 0 THEN <<>> ELSE ForCategory(f[k - 1], categories[k])]

LEMMA PlannedStep ==
  ASSUME NEW categories, NEW m \in Nat, NEW f, Planned(categories, f, m)
  PROVE  f[0] = <<>> /\ \A k \in 1..m : f[k] = ForCategory(f[k - 1], categories[k])
<1> DEFINE h == [k \in 0..m |-> IF k = 0 THEN <<>> ELSE ForCategory(f[k - 1], categories[k])]
<1>1. f = h
  BY DEF Planned
<1>2. h[0] = <<>>
  OBVIOUS
<1>3. ASSUME NEW k \in 1..m PROVE h[k] = ForCategory(f[k - 1], categories[k])
  <2>1. k \in 0..m /\ k # 0
    OBVIOUS
  <2>2. h[k] = IF k = 0 THEN <<>> ELSE ForCategory(f[k - 1], categories[k])
    BY <2>1
  <2> HIDE DEF h
  <2> QED BY <2>1, <2>2
<1> HIDE DEF h
<1> QED BY <1>1, <1>2, <1>3

LEMMA PlannedMore ==
  ASSUME NEW categories, NEW f, NEW m \in Nat, Planned(categories, f, m)
  PROVE  \E g : Planned(categories, g, m + 1)
<1> DEFINE next == ForCategory(f[m], categories[m + 1])
           g == [k \in 0..(m + 1) |-> IF k = m + 1 THEN next ELSE f[k]]
<1>1. f[0] = <<>> /\ \A k \in 1..m : f[k] = ForCategory(f[k - 1], categories[k])
  BY PlannedStep
<1>2. ASSUME NEW k \in 0..(m + 1)
      PROVE  g[k] = IF k = 0 THEN <<>> ELSE ForCategory(g[k - 1], categories[k])
  <2>1. CASE k = m + 1
    <3>1. k # 0 /\ k - 1 = m /\ k - 1 \in 0..(m + 1) /\ k - 1 # m + 1
      BY <2>1
    <3>2. g[k] = next /\ g[k - 1] = f[m]
      BY <2>1, <3>1
    <3> HIDE DEF g
    <3> QED BY <2>1, <3>1, <3>2
  <2>2. CASE k = 0
    <3>1. g[k] = f[0]
      BY <2>2
    <3> HIDE DEF g
    <3> QED BY <1>1, <2>2, <3>1
  <2>3. CASE k # m + 1 /\ k # 0
    <3>1. k \in 1..m /\ k - 1 \in 0..(m + 1) /\ k - 1 # m + 1
      BY <2>3
    <3>2. g[k] = f[k] /\ g[k - 1] = f[k - 1]
      BY <2>3, <3>1
    <3> HIDE DEF g
    <3> QED BY <1>1, <2>3, <3>1, <3>2
  <2> QED BY <2>1, <2>2, <2>3
<1>3. g = [k \in 0..(m + 1) |-> g[k]]
  OBVIOUS
<1> HIDE DEF g
<1>4. [k \in 0..(m + 1) |-> g[k]]
        = [k \in 0..(m + 1) |-> IF k = 0 THEN <<>> ELSE ForCategory(g[k - 1], categories[k])]
  BY <1>2
<1> QED BY <1>3, <1>4 DEF Planned

LEMMA PlanIsPlanned ==
  ASSUME NEW claims, Len(ByNeed(Wanted(claims))) \in Nat
  PROVE  \/ Plan(claims) = <<>>
         \/ \E f : LET categories == ByNeed(Wanted(claims))
                   IN /\ Planned(categories, f, Len(categories))
                      /\ Plan(claims) = f[Len(categories)]
<1> DEFINE categories == ByNeed(Wanted(claims))
           n == Len(categories)
           reached == {m \in 0..n : \E f : Planned(categories, f, m)}
           after == CHOOSE f : Planned(categories, f, n)
<1>1. n \in Nat
  OBVIOUS
<1>2. Plan(claims) = <<>> \/ Plan(claims) = after[n]
  BY DEF Plan, Planned
<1> HIDE DEF categories, n
<1>3. 0 \in reached
  <2> DEFINE f == [k \in 0..0 |-> <<>>]
  <2>1. f = [k \in 0..0 |-> IF k = 0 THEN <<>> ELSE ForCategory(f[k - 1], categories[k])]
    OBVIOUS
  <2>2. \E g : Planned(categories, g, 0)
    <3> HIDE DEF f
    <3> QED BY <2>1 DEF Planned
  <2> QED BY <1>1, <2>2
<1>4. ASSUME NEW m \in 0..n, m \in reached, m < n PROVE m + 1 \in reached
  <2>1. PICK f : Planned(categories, f, m)
    BY <1>4
  <2>2. \E g : Planned(categories, g, m + 1)
    BY <2>1, PlannedMore
  <2> QED BY <1>1, <1>4, <2>2
<1>5. n \in reached
  <2>1. reached \in SUBSET (0..n)
    OBVIOUS
  <2> HIDE DEF reached
  <2> QED BY <1>1, <1>3, <1>4, <2>1, UpTo
<1>6. Planned(categories, after, n)
  BY <1>5
<1> HIDE DEF after
<1> QED BY <1>2, <1>6 DEF categories, n

\* Whatever the claims: no query twice, and one over the ceiling at most.
LEMMA PlanWithinCeiling ==
  ASSUME NEW claims, IsList(claims)
  PROVE  Searches(Plan(claims)) /\ Len(Plan(claims)) <= MaxQueries + 1
<1> DEFINE wanted == Wanted(claims)
           categories == ByNeed(wanted)
           n == Len(categories)
           all == {wanted[i].needs.category : i \in DOMAIN wanted}
<1>1. IsList(wanted)
  <2> DEFINE test(c) == /\ c.status # "SUPPORTED"
                        /\ \/ Unresolved(c)
                           \/ PriceGap(claims) /\ c.needs.category \in PriceAnswer
             places == {i \in DOMAIN claims : test(claims[i])}
  <2>1. wanted = At(claims, places)
    BY DEF Wanted, Where
  <2>2. places \in SUBSET DOMAIN claims
    OBVIOUS
  <2> HIDE DEF places, wanted
  <2> QED BY <2>1, <2>2, AtOfAList
<1> HIDE DEF wanted
<1>2. Cardinality(all) \in Nat
  <2> DEFINE f == [i \in DOMAIN wanted |-> wanted[i].needs.category]
  <2>1. IsFiniteSet(DOMAIN wanted)
    <3>1. Len(wanted) \in Nat /\ DOMAIN wanted = 1..Len(wanted)
      BY <1>1, ListShape
    <3> QED BY <3>1, FirstNumbers
  <2>2. f \in Surjection(DOMAIN wanted, all)
    BY DEF Surjection
  <2> HIDE DEF f, all
  <2> QED BY <2>1, <2>2, FS_Surjection, FS_CardinalityType
<1>3. \E before : categories = Ranked(all, before)
  BY DEF ByNeed
<1> HIDE DEF all, categories
<1>4. PICK before : categories = Ranked(all, before)
  BY <1>3
<1>5. /\ DOMAIN categories = 1..Cardinality(all)
      /\ categories = [k \in 1..Cardinality(all) |-> categories[k]]
  BY <1>4 DEF Ranked
<1>6. n \in Nat
  BY <1>2, <1>5, MadeIsList
<1>7. CASE Plan(claims) = <<>>
  <2>1. Searches(<<>>) /\ Len(<<>>) <= MaxQueries + 1
    BY EmptyIsList, MaxQueriesAssumption DEF Searches
  <2> QED BY <1>7, <2>1
<1>8. ASSUME NEW f, Planned(categories, f, n), Plan(claims) = f[n]
      PROVE  Searches(Plan(claims)) /\ Len(Plan(claims)) <= MaxQueries + 1
  <2> HIDE DEF n
  <2>1. f[0] = <<>> /\ \A k \in 1..n : f[k] = ForCategory(f[k - 1], categories[k])
    BY <1>6, <1>8, PlannedStep
  <2> DEFINE good == {k \in 0..n : Searches(f[k]) /\ Len(f[k]) <= MaxQueries + 1}
  <2>2. 0 \in good
    <3>1. Searches(<<>>) /\ Len(<<>>) <= MaxQueries + 1
      BY EmptyIsList, MaxQueriesAssumption DEF Searches
    <3> QED BY <1>6, <2>1, <3>1
  <2>3. ASSUME NEW k \in 0..n, k \in good, k < n PROVE k + 1 \in good
    <3>1. k + 1 \in 1..n /\ (k + 1) - 1 = k /\ k + 1 \in 0..n
      BY <1>6, <2>3
    <3>2. f[k + 1] = ForCategory(f[k], categories[k + 1])
      BY <2>1, <3>1
    <3>3. Searches(f[k]) /\ Len(f[k]) <= MaxQueries + 1
      BY <2>3
    <3>4. Searches(f[k + 1]) /\ Len(f[k + 1]) <= MaxQueries + 1
      <4> HIDE DEF good
      <4> QED BY <3>2, <3>3, CategoryWithinCeiling
    <3> QED BY <3>1, <3>4
  <2>4. n \in good
    <3>1. good \in SUBSET (0..n)
      OBVIOUS
    <3> HIDE DEF good
    <3> QED BY <1>6, <2>2, <2>3, <3>1, UpTo
  <2> QED BY <1>8, <2>4
<1>9. \/ Plan(claims) = <<>>
      \/ \E f : Planned(categories, f, n) /\ Plan(claims) = f[n]
  <2>1. Len(ByNeed(Wanted(claims))) \in Nat
    BY <1>6 DEF n, categories, wanted
  <2> QED BY <2>1, PlanIsPlanned DEF n, categories, wanted
<1> QED BY <1>7, <1>8, <1>9

LEMMA PendingIsNew ==
  ASSUME NEW list, Searches(list)
  PROVE  /\ Searches(Pending(list)) /\ Len(Pending(list)) <= Len(list)
         /\ \A i \in DOMAIN Pending(list) : Pending(list)[i].query \notin ToSet(executed)
<1> DEFINE places == {i \in DOMAIN list : list[i].query \notin ToSet(executed)}
           order == Ascending(places)
           t == Pending(list)
<1>1. t = At(list, places)
  BY DEF Pending, Where
<1>2. /\ Len(list) \in Nat /\ places \in SUBSET (1..Len(list)) /\ places \subseteq DOMAIN list
      /\ \A i \in places : list[i].query \notin ToSet(executed)
  BY ListShape DEF Searches
<1> HIDE DEF t, places
<1>3. /\ IsList(t) /\ Len(t) <= Len(list)
      /\ \A k \in DOMAIN t : order[k] \in places /\ t[k] = list[order[k]]
      /\ \A j, k \in DOMAIN t : order[j] = order[k] => j = k
  <2> DEFINE n == Len(list)
  <2>1. n \in Nat /\ places \in SUBSET (1..n)
    BY <1>2
  <2> HIDE DEF n
  <2> QED BY <1>1, <2>1, AtIsList DEF n
<1> HIDE DEF order
<1>4. \A k \in DOMAIN t : order[k] \in DOMAIN list
  BY <1>2, <1>3
<1>5. \A k \in DOMAIN t : t[k].query \in DOMAIN WordsOf /\ t[k].query \notin ToSet(executed)
  BY <1>2, <1>3, <1>4 DEF Searches
<1>6. \A j, k \in DOMAIN t : t[j].query = t[k].query => j = k
  BY <1>3, <1>4 DEF Searches
<1> QED BY <1>3, <1>5, <1>6 DEF Searches, t

-----------------------------------------------------------------------------
(* What a provider's answer becomes                                        *)

LEMMA SomeOfSources ==
  ASSUME NEW list, Sources(list), NEW places \in SUBSET DOMAIN list
  PROVE  Sources(At(list, places)) /\ ToSet(At(list, places)) \subseteq ToSet(list)
<1> DEFINE t == At(list, places)
<1>1. /\ IsList(t) /\ ToSet(t) \subseteq ToSet(list)
      /\ \A k \in DOMAIN t : t[k] \in ToSet(t)
  BY AtOfAList DEF Sources
<1>2. \A s \in ToSet(list) : s \in Source
  BY DEF Sources, ToSet
<1> HIDE DEF t
<1>3. Sources(t)
  BY <1>1, <1>2 DEF Sources
<1> QED BY <1>1, <1>3 DEF t

LEMMA NamedSources ==
  ASSUME NEW provider \in {"tavily", "last30days"}, NEW query \in DOMAIN WordsOf,
         NEW pages \in Seq(DOMAIN PageOf)
  PROVE  LET named == Named(provider, query, pages)
         IN /\ Sources(named) /\ DOMAIN named = DOMAIN pages
            /\ \A i \in DOMAIN named : ~ named[i].official
<1> DEFINE named == Named(provider, query, pages)
           source(i) == [ref |-> Ref(provider, pages[i], i), page |-> pages[i], query |-> query,
                         official |-> FALSE]
<1>1. Len(pages) \in Nat /\ DOMAIN pages = 1..Len(pages)
  OBVIOUS
<1>2. \A i \in DOMAIN pages : source(i) \in Source /\ ~ source(i).official
  <2> SUFFICES ASSUME NEW i \in DOMAIN pages PROVE source(i) \in Source
    OBVIOUS
  <2>1. pages[i] \in DOMAIN PageOf /\ i \in Nat
    OBVIOUS
  <2>2. PageOf[pages[i]].id \in Nat \cup {NoRef}
    BY <2>1, PagesAssumption
  <2>3. Ref(provider, pages[i], i) \in {"tavily", "last30days", "given"} \X Nat
    BY <2>1, <2>2 DEF Ref
  <2> QED BY <2>1, <2>3 DEF Source
<1>3. DOMAIN named = 1..Len(pages) /\ \A i \in DOMAIN pages : named[i] = source(i)
  BY <1>1 DEF Named
<1>4. named = [i \in 1..Len(pages) |-> named[i]]
  BY <1>1 DEF Named
<1> HIDE DEF source, named
<1>5. IsList(named)
  BY <1>1, <1>3, <1>4, MadeIsList
<1>6. Sources(named) /\ \A i \in DOMAIN named : ~ named[i].official
  BY <1>1, <1>2, <1>3, <1>5 DEF Sources
<1> QED BY <1>1, <1>3, <1>6 DEF named

LEMMA NormalisedSources ==
  ASSUME NEW query \in DOMAIN WordsOf, NEW pages \in Seq(DOMAIN PageOf)
  PROVE  LET list == Normalised(query, pages)
         IN Sources(list) /\ \A i \in DOMAIN list : ~ list[i].official
<1> DEFINE named == Named("tavily", query, pages)
           places == {i \in DOMAIN pages : PageOf[pages[i]].host # NoHost}
           list == Normalised(query, pages)
<1>1. /\ Sources(named) /\ DOMAIN named = DOMAIN pages
      /\ \A i \in DOMAIN named : ~ named[i].official
  BY NamedSources
<1>2. list = At(named, places) /\ places \in SUBSET DOMAIN pages
  BY DEF Normalised
<1> HIDE DEF named, places, list
<1>3. Sources(list) /\ ToSet(list) \subseteq ToSet(named)
  BY <1>1, <1>2, SomeOfSources
<1>4. \A s \in ToSet(named) : ~ s.official
  BY <1>1 DEF ToSet
<1>5. \A i \in DOMAIN list : list[i] \in ToSet(list)
  BY <1>3, ListShape DEF Sources
<1> QED BY <1>3, <1>4, <1>5 DEF list

LEMMA AcceptedSources ==
  ASSUME NEW search, search.query \in DOMAIN WordsOf, NEW pages \in Seq(DOMAIN PageOf)
  PROVE  Sources(Official(Accepted(search, pages)))
<1> DEFINE found == Normalised(search.query, pages)
           places == {i \in DOMAIN found :
                        /\ Lookup(PageOf[found[i].page]) # NoAuthority
                        /\ SpeaksFor(Lookup(PageOf[found[i].page]), search.category)}
           list == Accepted(search, pages)
           official == Official(list)
<1>1. Sources(found)
  BY NormalisedSources
<1>2. list = At(found, places) /\ places \in SUBSET DOMAIN found
  BY DEF Accepted
<1> HIDE DEF found, places, list
<1>3. Sources(list)
  BY <1>1, <1>2, SomeOfSources
<1>4. Len(list) \in Nat /\ DOMAIN list = 1..Len(list)
  BY <1>3, ListShape DEF Sources
<1>5. DOMAIN official = 1..Len(list) /\ official = [i \in 1..Len(list) |-> official[i]]
      /\ \A i \in DOMAIN list : official[i] = [list[i] EXCEPT !.official = TRUE]
  BY <1>4 DEF Official
<1> HIDE DEF official
<1>6. IsList(official)
  BY <1>4, <1>5, MadeIsList
<1>7. \A s \in Source : [s EXCEPT !.official = TRUE] \in Source
  BY DEF Source
<1>8. Sources(official)
  BY <1>3, <1>4, <1>5, <1>6, <1>7 DEF Sources
<1> QED BY <1>8 DEF official, list

LEMMA AnswersArePages ==
  ASSUME NEW query, NEW answer \in Answer(query)
  PROVE  answer \in Seq(DOMAIN PageOf)
<1>1. <<>> \in Seq(DOMAIN PageOf)
  OBVIOUS
<1> QED BY <1>1, AnswersAssumption DEF Answer

LEMMA SourcesJoin ==
  ASSUME NEW s, NEW t, Sources(s), Sources(t)
  PROVE  Sources(s \o t)
<1>1. IsList(s \o t) /\ ToSet(s \o t) = ToSet(s) \cup ToSet(t)
  BY Joined DEF Sources
<1>2. \A x \in ToSet(s) \cup ToSet(t) : x \in Source
  BY DEF Sources, ToSet
<1>3. \A i \in DOMAIN (s \o t) : (s \o t)[i] \in ToSet(s \o t)
  BY <1>1, ListShape
<1> QED BY <1>1, <1>2, <1>3 DEF Sources

-----------------------------------------------------------------------------
(* The inductive invariant                                                 *)

SourcesKept == Sources(sources) /\ Sources(accepted)

VerdictsKept == decisions \in [DOMAIN decisions -> Verdicts]

\* The searches of the round are new ones, and those launched were new when launched.
RoundKept ==
  /\ round \in 0..2
  /\ Searches(plan) /\ Len(plan) <= MaxQueries + 1
  /\ IsList(executed) /\ AskedOnce
  /\ \A i \in DOMAIN plan : plan[i].query \notin ToSet(executed)

\* Before the package there are no verdicts, and nothing official has been fetched.
EarlyKept ==
  stage \in {"WEB", "COMMUNITY", "COMMUNITY ONLY", "JUDGING"} =>
    /\ package = NoPackage /\ decisions = <<>>
    /\ \A i \in DOMAIN sources : ~ sources[i].official

\* From then on the package is that of every source so far, each reference under a
\* verdict on the last source that bears it.
Packaged == stage \in {"PLANNING", "ASKING", "DONE"} \/ package # NoPackage

PackageKept ==
  Packaged => package = Build(sources, decisions) /\ Sound(sources, decisions)

Kept ==
  /\ stage \in Stage
  /\ SourcesKept /\ VerdictsKept /\ RoundKept /\ EarlyKept /\ PackageKept

LEMMA InitKept == Init => Kept
<1> SUFFICES ASSUME Init PROVE Kept
  OBVIOUS
<1>1. Sources(<<>>) /\ Searches(<<>>) /\ ToSet(<<>>) = {} /\ Len(<<>>) = 0 /\ IsList(<<>>)
  BY EmptyIsList DEF Sources, Searches
<1>2. SourcesKept /\ EarlyKept /\ PackageKept /\ stage \in Stage
  BY <1>1 DEF Init, SourcesKept, EarlyKept, PackageKept, Packaged, Stage
<1>3. VerdictsKept
  BY DEF Init, VerdictsKept
<1>4. RoundKept
  BY <1>1, MaxQueriesAssumption DEF Init, RoundKept, AskedOnce
<1> QED BY <1>2, <1>3, <1>4 DEF Kept

\* Verdicts of the gate, recorded, are verdicts.
LEMMA OverwriteKeeps ==
  ASSUME NEW old, old \in [DOMAIN old -> Verdicts], NEW list, IsList(list), NEW verdicts,
         \A i \in DOMAIN list : verdicts[i] \in Verdicts
  PROVE  LET now == Overwrite(old, list, verdicts)
         IN now \in [DOMAIN now -> Verdicts] /\ (list = <<>> => now = old)
<1> DEFINE refs == {list[i].ref : i \in DOMAIN list}
           bears(ref, i) == /\ list[i].ref = ref
                            /\ \A j \in DOMAIN list : list[j].ref = ref => j <= i
           last(ref) == CHOOSE i \in DOMAIN list : bears(ref, i)
           now == Overwrite(old, list, verdicts)
<1>1. now = [ref \in refs \cup DOMAIN old |->
               IF ref \in refs THEN verdicts[last(ref)] ELSE old[ref]]
  BY DEF Overwrite
<1>2. ASSUME NEW ref \in refs PROVE verdicts[last(ref)] \in Verdicts
  <2>1. PICK i \in DOMAIN list : list[i].ref = ref
    OBVIOUS
  <2>2. \E j \in DOMAIN list : bears(ref, j)
    BY <2>1, LastOf DEF IsLast
  <2>3. last(ref) \in DOMAIN list
    <3> HIDE DEF bears
    <3> QED BY <2>2
  <2> QED BY <2>3
<1> HIDE DEF last
<1>3. now \in [DOMAIN now -> Verdicts]
  BY <1>1, <1>2
<1>4. ASSUME list = <<>> PROVE now = old
  <2>1. refs = {}
    BY <1>4
  <2> HIDE DEF refs
  <2>2. now = [ref \in DOMAIN old |-> old[ref]]
    BY <1>1, <2>1
  <2> QED BY <2>2
<1> QED BY <1>3, <1>4

LEMMA NextKept ==
  ASSUME Kept, Next
  PROVE  Kept'
<1> USE DEF Kept
<1>1. CASE SearchWeb
  <2>1. /\ stage = "WEB" /\ stage' \in {"COMMUNITY", "COMMUNITY ONLY"}
        /\ UNCHANGED <<decisions, package, plan, round, accepted, executed>>
    BY <1>1 DEF SearchWeb
  <2>2. Sources(sources') /\ \A i \in DOMAIN sources' : ~ sources'[i].official
    <3>1. CASE UNCHANGED sources
      BY <2>1, <3>1 DEF SourcesKept, EarlyKept
    <3>2. ASSUME NEW answer \in Answer(Article), sources' = Normalised(Article, answer)
          PROVE  Sources(sources') /\ \A i \in DOMAIN sources' : ~ sources'[i].official
      <4>1. answer \in Seq(DOMAIN PageOf) /\ Article \in DOMAIN WordsOf
        BY AnswersArePages, AnswersAssumption
      <4> QED BY <3>2, <4>1, NormalisedSources
    <3> QED BY <1>1, <3>1, <3>2 DEF SearchWeb
  <2>3. SourcesKept' /\ EarlyKept' /\ stage' \in Stage
    BY <2>1, <2>2 DEF SourcesKept, EarlyKept, Stage
  <2>4. PackageKept'
    BY <2>1 DEF PackageKept, Packaged, EarlyKept
  <2>5. VerdictsKept' /\ RoundKept'
    BY <2>1 DEF VerdictsKept, RoundKept, AskedOnce
  <2> QED BY <2>3, <2>4, <2>5
<1>2. CASE AskCommunity
  <2>1. /\ stage \in {"COMMUNITY", "COMMUNITY ONLY"} /\ stage' \in {"JUDGING", "STOPPED"}
        /\ UNCHANGED <<decisions, package, plan, round, accepted, executed>>
    BY <1>2 DEF AskCommunity
  <2>2. Sources(sources') /\ \A i \in DOMAIN sources' : ~ sources'[i].official
    <3>1. CASE UNCHANGED sources
      BY <2>1, <3>1 DEF SourcesKept, EarlyKept
    <3>2. ASSUME NEW answer \in Community,
                 sources' = sources \o Named("last30days", Article, answer)
          PROVE  Sources(sources') /\ \A i \in DOMAIN sources' : ~ sources'[i].official
      <4> DEFINE more == Named("last30days", Article, answer)
      <4>1. Sources(more) /\ \A i \in DOMAIN more : ~ more[i].official
        BY AnswersAssumption, NamedSources
      <4>2. Sources(sources) /\ \A i \in DOMAIN sources : ~ sources[i].official
        BY <2>1 DEF SourcesKept, EarlyKept
      <4> HIDE DEF more
      <4>3. Sources(sources \o more)
        BY <4>1, <4>2, SourcesJoin
      <4>4. \A s \in ToSet(sources) \cup ToSet(more) : ~ s.official
        BY <4>1, <4>2 DEF ToSet
      <4>5. ToSet(sources \o more) = ToSet(sources) \cup ToSet(more)
        BY <4>1, <4>2, Joined DEF Sources
      <4>6. \A i \in DOMAIN (sources \o more) : (sources \o more)[i] \in ToSet(sources \o more)
        BY <4>3, ListShape DEF Sources
      <4> QED BY <3>2, <4>3, <4>4, <4>5, <4>6 DEF more
    <3> QED BY <1>2, <3>1, <3>2 DEF AskCommunity
  <2>3. SourcesKept' /\ EarlyKept' /\ stage' \in Stage
    BY <2>1, <2>2 DEF SourcesKept, EarlyKept, Stage
  <2>4. PackageKept'
    BY <2>1 DEF PackageKept, Packaged, EarlyKept
  <2>5. VerdictsKept' /\ RoundKept'
    BY <2>1 DEF VerdictsKept, RoundKept, AskedOnce
  <2> QED BY <2>3, <2>4, <2>5
<1>3. CASE Judge
  <2>1. /\ stage = "JUDGING" /\ stage' = "PLANNING"
        /\ package' = Build(sources, decisions')
        /\ UNCHANGED <<sources, plan, round, accepted, executed>>
    BY <1>3 DEF Judge
  <2>2. PICK verdicts \in [DOMAIN sources -> Verdicts] :
          /\ \A i \in DOMAIN sources : verdicts[i] \in
                IF Semantic THEN Reviewed(OwnVerdict(sources[i])) ELSE {OwnVerdict(sources[i])}
          /\ decisions' = Overwrite(decisions, sources, verdicts)
    BY <1>3 DEF Judge, Verdicts
  <2>3. Sources(sources) /\ decisions = <<>> /\ \A i \in DOMAIN sources : ~ sources[i].official
    BY <2>1 DEF SourcesKept, EarlyKept
  <2>4. \A i \in DOMAIN sources : verdicts[i] \in Allowed(sources[i])
    BY <2>2, <2>3 DEF Allowed, Reviewed
  <2>5. Sound(<<>>, <<>>)
    BY DEF Sound
  <2>6. <<>> \o sources = sources
    BY <2>3 DEF Sources, IsList
  <2>7. Sound(sources, decisions')
    BY <2>2, <2>3, <2>4, <2>5, <2>6, EmptyIsList, OverwriteSound DEF Sources
  <2>8. decisions' \in [DOMAIN decisions' -> Verdicts]
    <3>1. \A i \in DOMAIN sources : verdicts[i] \in Verdicts
      BY <2>2
    <3> QED BY <2>2, <2>3, <3>1, OverwriteKeeps DEF VerdictsKept, Sources
  <2>9. PackageKept' /\ VerdictsKept'
    BY <2>1, <2>7, <2>8 DEF PackageKept, Packaged, VerdictsKept
  <2>10. SourcesKept' /\ EarlyKept' /\ stage' \in Stage /\ RoundKept'
    BY <2>1 DEF SourcesKept, EarlyKept, Stage, RoundKept, AskedOnce
  <2> QED BY <2>9, <2>10
<1>4. CASE StartRound
  <2> DEFINE searches == IF round < 2 THEN Pending(Plan(package.claims)) ELSE <<>>
  <2>1. /\ stage = "PLANNING"
        /\ UNCHANGED <<sources, decisions, package, accepted, executed>>
    BY <1>4 DEF StartRound
  <2>2. \/ stage' = "DONE" /\ UNCHANGED <<plan, round>>
        \/ /\ round < 2 /\ stage' = "ASKING" /\ round' = round + 1
           /\ plan' = Pending(Plan(package.claims))
    BY <1>4 DEF StartRound
  <2>3. package = Build(sources, decisions) /\ Sources(sources)
    BY <2>1 DEF PackageKept, Packaged, SourcesKept
  <2>4. IsList(package.claims)
    BY <2>3, BuiltWell
  <2> DEFINE proposed == Plan(package.claims)
  <2>5. Searches(proposed) /\ Len(proposed) <= MaxQueries + 1
    BY <2>4, PlanWithinCeiling
  <2>6. /\ Searches(Pending(proposed)) /\ Len(Pending(proposed)) <= Len(proposed)
        /\ \A i \in DOMAIN Pending(proposed) : Pending(proposed)[i].query \notin ToSet(executed)
    <3> HIDE DEF proposed
    <3> QED BY <2>5, PendingIsNew
  <2>7. Len(Pending(proposed)) <= MaxQueries + 1
    <3>1. Len(proposed) \in Nat /\ Len(Pending(proposed)) \in Nat
      <4> HIDE DEF proposed
      <4> QED BY <2>5, <2>6, ListShape DEF Searches
    <3> HIDE DEF proposed
    <3> QED BY <2>5, <2>6, <3>1, MaxQueriesAssumption
  <2> HIDE DEF proposed
  <2>8. RoundKept'
    <3>1. CASE UNCHANGED <<plan, round>>
      BY <2>1, <3>1 DEF RoundKept, AskedOnce
    <3>2. CASE round < 2 /\ round' = round + 1 /\ plan' = Pending(proposed)
      BY <2>1, <2>6, <2>7, <3>2 DEF RoundKept, AskedOnce
    <3> QED BY <2>2, <3>1, <3>2 DEF proposed
  <2>9. SourcesKept' /\ VerdictsKept' /\ EarlyKept' /\ PackageKept' /\ stage' \in Stage
    BY <2>1, <2>2 DEF SourcesKept, VerdictsKept, EarlyKept, PackageKept, Packaged, Stage
  <2> QED BY <2>8, <2>9
<1>5. CASE Ask
  <2>1. /\ stage = "ASKING" /\ plan # <<>> /\ plan' = Tail(plan)
        /\ UNCHANGED <<stage, sources, decisions, package, round>>
    BY <1>5 DEF Ask
  <2>2. /\ IsList(plan) /\ IsList(executed) /\ Len(plan) \in Nat /\ DOMAIN plan = 1..Len(plan)
        /\ Len(executed) \in Nat /\ DOMAIN executed = 1..Len(executed)
        /\ \A i \in DOMAIN executed : executed[i] \in ToSet(executed)
    BY ListShape DEF RoundKept, Searches
  <2>3. /\ IsList(plan') /\ Len(plan') = Len(plan) - 1 /\ DOMAIN plan' = 1..(Len(plan) - 1)
        /\ \A i \in DOMAIN plan' : plan'[i] = plan[i + 1] /\ i + 1 \in DOMAIN plan /\ i + 1 # 1
        /\ 1 \in DOMAIN plan /\ Head(plan) = plan[1]
    <3>1. /\ IsList(plan') /\ Len(plan') = Len(plan) - 1
          /\ \A i \in 1..(Len(plan) - 1) : plan'[i] = plan[i + 1]
          /\ 1 \in DOMAIN plan /\ Head(plan) = plan[1]
      BY <2>1, <2>2, TailIsList
    <3>2. DOMAIN plan' = 1..(Len(plan) - 1)
      BY <3>1, ListShape
    <3> QED BY <2>2, <3>1, <3>2
  <2> DEFINE query == plan[1].query
  <2>4. /\ query \in DOMAIN WordsOf /\ query \notin ToSet(executed)
        /\ \A i \in DOMAIN plan' : plan'[i].query # query
    <3>1. \A i \in DOMAIN plan : plan[i].query = query => i = 1
      BY <2>3 DEF RoundKept, Searches
    <3> QED BY <2>3, <3>1 DEF RoundKept, Searches
  <2>5. Searches(plan') /\ Len(plan') <= MaxQueries + 1
    <3>1. \A i \in DOMAIN plan' : plan'[i].query \in DOMAIN WordsOf
      BY <2>3 DEF RoundKept, Searches
    <3>2. ASSUME NEW i \in DOMAIN plan', NEW j \in DOMAIN plan', plan'[i].query = plan'[j].query
          PROVE  i = j
      <4>1. i + 1 = j + 1
        BY <2>3, <3>2 DEF RoundKept, Searches
      <4> QED BY <2>3, <4>1
    <3> QED BY <2>2, <2>3, <3>1, <3>2, MaxQueriesAssumption DEF RoundKept, Searches
  <2>6. \A i \in DOMAIN plan' : plan'[i].query \notin ToSet(executed)
    BY <2>3 DEF RoundKept
  <2> HIDE DEF query
  <2>7. CASE UNCHANGED <<accepted, executed>>
    <3>1. RoundKept'
      BY <2>1, <2>5, <2>6, <2>7 DEF RoundKept, AskedOnce
    <3> QED BY <2>1, <2>7, <3>1 DEF SourcesKept, VerdictsKept, EarlyKept, PackageKept, Packaged
  <2>8. CASE /\ executed' = Append(executed, Head(plan).query)
             /\ \/ \E answer \in Answer(Head(plan).query) :
                      accepted' = accepted \o Official(Accepted(Head(plan), answer))
                \/ UNCHANGED accepted
    <3>1. executed' = Append(executed, query)
      BY <2>3, <2>8 DEF query
    <3>2. /\ IsList(executed') /\ Len(executed') = Len(executed) + 1
          /\ \A i \in 1..Len(executed) : executed'[i] = executed[i]
          /\ executed'[Len(executed) + 1] = query
          /\ ToSet(executed') = ToSet(executed) \cup {query}
      BY <2>2, <3>1, AppendedIsList
    <3>3. DOMAIN executed' = 1..(Len(executed) + 1)
      BY <3>2, ListShape
    <3>4. AskedOnce'
      <4> SUFFICES ASSUME NEW i \in DOMAIN executed', NEW j \in DOMAIN executed',
                          executed'[i] = executed'[j]
                   PROVE  i = j
        BY DEF AskedOnce
      <4>1. \A k \in DOMAIN executed' : k \in DOMAIN executed \/ k = Len(executed) + 1
        BY <2>2, <3>3
      <4>2. \A k \in DOMAIN executed : executed'[k] = executed[k] /\ executed[k] # query
        BY <2>2, <2>4, <3>2
      <4>3. CASE i \in DOMAIN executed /\ j \in DOMAIN executed
        BY <4>2, <4>3 DEF RoundKept, AskedOnce
      <4>4. CASE i = Len(executed) + 1 \/ j = Len(executed) + 1
        BY <3>2, <4>1, <4>2, <4>4
      <4> QED BY <4>1, <4>3, <4>4
    <3>5. RoundKept'
      <4>1. \A i \in DOMAIN plan' : plan'[i].query \notin ToSet(executed')
        BY <2>4, <2>6, <3>2
      <4> QED BY <2>1, <2>5, <3>2, <3>4, <4>1 DEF RoundKept
    <3>6. Sources(accepted')
      <4>1. ASSUME NEW answer \in Answer(Head(plan).query),
                   accepted' = accepted \o Official(Accepted(Head(plan), answer))
            PROVE  Sources(accepted')
        <5>1. answer \in Seq(DOMAIN PageOf) /\ Head(plan).query \in DOMAIN WordsOf
          BY <2>3, <2>4, AnswersArePages DEF query
        <5> DEFINE more == Official(Accepted(Head(plan), answer))
        <5>2. Sources(more) /\ Sources(accepted)
          BY <5>1, AcceptedSources DEF SourcesKept
        <5> HIDE DEF more
        <5>3. Sources(accepted \o more)
          BY <5>2, SourcesJoin
        <5> QED BY <4>1, <5>3 DEF more
      <4> QED BY <2>8, <4>1 DEF SourcesKept
    <3> QED BY <2>1, <3>5, <3>6 DEF SourcesKept, VerdictsKept, EarlyKept, PackageKept, Packaged
  <2> QED BY <1>5, <2>7, <2>8 DEF Ask
<1>6. CASE Fold
  <2> DEFINE verdicts == Mapped(accepted, OwnVerdict)
  <2>1. /\ stage = "ASKING" /\ stage' = "PLANNING"
        /\ sources' = sources \o accepted /\ accepted' = <<>>
        /\ decisions' = Overwrite(decisions, accepted, verdicts)
        /\ package' = IF accepted = <<>> THEN package ELSE Build(sources', decisions')
        /\ UNCHANGED <<plan, round, executed>>
    BY <1>6 DEF Fold
  <2>2. /\ Sources(sources) /\ Sources(accepted) /\ decisions \in [DOMAIN decisions -> Verdicts]
        /\ package = Build(sources, decisions) /\ Sound(sources, decisions)
    BY <2>1 DEF SourcesKept, VerdictsKept, PackageKept, Packaged
  <2>3. \A i \in DOMAIN accepted : verdicts[i] = OwnVerdict(accepted[i])
    BY DEF Mapped
  <2> HIDE DEF verdicts
  <2>4. \A i \in DOMAIN accepted : /\ verdicts[i] \in Verdicts
                                   /\ verdicts[i] \in Allowed(accepted[i])
    BY <2>3, RelevanceMeans DEF Allowed, Reviewed, OwnVerdict
  <2>5. Sound(sources', decisions')
    BY <2>1, <2>2, <2>4, OverwriteSound DEF Sources
  <2>6. decisions' \in [DOMAIN decisions' -> Verdicts] /\ (accepted = <<>> => decisions' = decisions)
    BY <2>1, <2>2, <2>4, OverwriteKeeps DEF Sources
  <2>7. accepted = <<>> => sources' = sources
    <3>1. accepted = <<>> => sources \o accepted = sources
      BY <2>2 DEF Sources, IsList
    <3> QED BY <2>1, <3>1
  <2>8. package' = Build(sources', decisions')
    <3>1. CASE accepted = <<>>
      BY <2>1, <2>2, <2>6, <2>7, <3>1
    <3>2. CASE accepted # <<>>
      BY <2>1, <3>2
    <3> QED BY <3>1, <3>2
  <2>9. PackageKept' /\ VerdictsKept'
    BY <2>5, <2>6, <2>8 DEF PackageKept, Packaged, VerdictsKept
  <2>10. SourcesKept'
    <3>1. Sources(<<>>)
      BY EmptyIsList DEF Sources
    <3> QED BY <2>1, <2>2, <3>1, SourcesJoin DEF SourcesKept
  <2>11. EarlyKept' /\ stage' \in Stage /\ RoundKept'
    BY <2>1 DEF EarlyKept, Stage, RoundKept, AskedOnce
  <2> QED BY <2>9, <2>10, <2>11
<1>7. CASE GiveUp
  <2>1. /\ stage' = "FAILED"
        /\ UNCHANGED <<sources, decisions, package, plan, round, accepted, executed>>
    BY <1>7 DEF GiveUp
  <2>2. SourcesKept' /\ VerdictsKept' /\ EarlyKept' /\ stage' \in Stage
    BY <2>1 DEF SourcesKept, VerdictsKept, EarlyKept, Stage
  <2>3. RoundKept' /\ PackageKept'
    BY <2>1 DEF RoundKept, AskedOnce, PackageKept, Packaged
  <2> QED BY <2>2, <2>3
<1> QED BY <1>1, <1>2, <1>3, <1>4, <1>5, <1>6, <1>7 DEF Next

LEMMA ResearchKept ==
  ASSUME Kept, [Next]_vars
  PROVE  Kept'
<1>1. CASE UNCHANGED vars
  BY <1>1 DEF vars, Kept, SourcesKept, VerdictsKept, RoundKept, AskedOnce, EarlyKept,
              PackageKept, Packaged
<1> QED BY <1>1, NextKept

-----------------------------------------------------------------------------
(* What the invariant gives                                                *)

\* The package of a job, at any moment it has one.
LEMMA KeptPackage ==
  ASSUME Kept, Packaged
  PROVE  /\ Sources(sources) /\ package = Build(sources, decisions)
         /\ Sound(sources, decisions)
         /\ IsList(package.claims)
         /\ \A k \in DOMAIN package.claims : package.claims[k] \in ToSet(package.claims)
<1>1. /\ Sources(sources) /\ package = Build(sources, decisions)
      /\ Sound(sources, decisions)
  BY DEF Kept, SourcesKept, PackageKept
<1>2. IsList(package.claims)
  BY <1>1, BuiltWell
<1>3. \A k \in DOMAIN package.claims : package.claims[k] \in ToSet(package.claims)
  BY <1>2, ListShape
<1> QED BY <1>1, <1>2, <1>3

LEMMA InThePackage ==
  ASSUME NEW c \in PackageClaims
  PROVE  Packaged /\ package # NoPackage /\ c \in ToSet(package.claims)
BY DEF PackageClaims, Packaged

\* A claim of it was evaluated on the pages heard, and was read off one of them.
LEMMA KeptClaim ==
  ASSUME Kept, Packaged, NEW c \in ToSet(package.claims)
  PROVE  LET eligible == Eligible(sources, decisions)
         IN /\ c = Evaluate(c.text, Heard(sources, eligible), Market)
            /\ \E i \in eligible :
                  StandsOn(c.text, PageOf[WinnerOf(sources, eligible, sources[i].ref).page])
<1>1. Sources(sources) /\ package = Build(sources, decisions)
  BY KeptPackage
<1> QED BY <1>1, BuiltWell

LEMMA KeptIsTyped == Kept => TypeOK
<1> SUFFICES ASSUME Kept PROVE TypeOK
  OBVIOUS
<1>1. stage \in Stage /\ round \in 0..2 /\ Len(plan) <= MaxQueries + 1
  BY DEF Kept, RoundKept
<1>2. \A list \in {sources, accepted} : \A i \in DOMAIN list : list[i] \in Source
  BY DEF Kept, SourcesKept, Sources
<1>3. \A ref \in DOMAIN decisions : decisions[ref] \in Verdicts
  BY DEF Kept, VerdictsKept
<1>4. ASSUME package # NoPackage
      PROVE  /\ Len(package.entries) = Len(sources)
             /\ \A i \in DOMAIN sources : sources[i].ref \in DOMAIN decisions
             /\ \A i \in DOMAIN package.claims :
                  /\ package.claims[i].status \in Statuses
                  /\ package.claims[i].region \in Region
  <2>1. /\ Sources(sources) /\ package = Build(sources, decisions)
        /\ Sound(sources, decisions)
        /\ \A k \in DOMAIN package.claims : package.claims[k] \in ToSet(package.claims)
        /\ Packaged
    BY <1>4, KeptPackage DEF Packaged
  <2>2. Len(package.entries) = Len(sources)
    BY <2>1, BuiltEntries DEF Sources
  <2>3. \A i \in DOMAIN sources : sources[i].ref \in DOMAIN decisions
    BY <2>1 DEF Sound
  <2>4. \A c \in ToSet(package.claims) : c.status \in Statuses /\ c.region \in Region
    <3> SUFFICES ASSUME NEW c \in ToSet(package.claims)
                 PROVE  c.status \in Statuses /\ c.region \in Region
      OBVIOUS
    <3>1. c = Evaluate(c.text, Heard(sources, Eligible(sources, decisions)), Market)
      BY <2>1, KeptClaim
    <3> QED BY <3>1, ClaimsAreTyped
  <2> QED BY <2>1, <2>2, <2>3, <2>4
<1> QED BY <1>1, <1>2, <1>3, <1>4 DEF TypeOK, Verdicts, Statuses

LEMMA KeptIsAdmitted == Kept => EvidenceWasAdmitted
<1> SUFFICES ASSUME Kept, NEW c \in PackageClaims, NEW e \in c.evidence
             PROVE  \E i \in Bearers(e) :
                       /\ Admissible(sources[i])
                       /\ e.passage \in {passage.text :
                                           passage \in ToSet(Passages(PageOf[sources[i].page]))}
  BY DEF EvidenceWasAdmitted
<1> DEFINE eligible == Eligible(sources, decisions)
<1>0. Packaged /\ c \in ToSet(package.claims)
  BY InThePackage
<1>1. c = Evaluate(c.text, Heard(sources, eligible), Market)
  BY <1>0, KeptClaim
<1>2. Sources(sources) /\ Sound(sources, decisions)
  BY <1>0, KeptPackage
<1>3. e \in Candidates(c.text, Heard(sources, eligible))
  BY <1>1 DEF Evaluate
<1>4. eligible \in SUBSET DOMAIN sources
  BY DEF Eligible
<1>5. PICK i \in eligible :
        /\ e.ref = sources[i].ref
        /\ \E passage \in ToSet(Passages(PageOf[WinnerOf(sources, eligible, e.ref).page])) :
              e.passage = passage.text
  <2> HIDE DEF eligible
  <2> QED BY <1>2, <1>3, <1>4, CitedPassage
<1> DEFINE w == Winner(sources, eligible, e.ref)
<1>6. w \in DOMAIN sources /\ sources[w].ref = e.ref /\ Admissible(sources[w])
  BY <1>2, <1>5, WinnerIsAdmissible DEF Sources
<1>7. \E passage \in ToSet(Passages(PageOf[sources[w].page])) : e.passage = passage.text
  BY <1>5 DEF WinnerOf
<1> HIDE DEF w, eligible
<1> QED BY <1>6, <1>7 DEF Bearers

\* What is cited has the quality and the region of the page heard under its reference.
LEMMA CitedIsOfTheWinner ==
  ASSUME NEW list, NEW eligible, NEW text, NEW e \in Candidates(text, Heard(list, eligible))
  PROVE  LET page == PageOf[WinnerOf(list, eligible, e.ref).page]
         IN e.quality = SourceQuality(page) /\ e.region = SourceRegion(page)
<1> DEFINE heard == Heard(list, eligible)
<1>1. e.ref \in DOMAIN heard /\ e.quality = heard[e.ref].quality
      /\ e.region = heard[e.ref].region
  BY DEF Candidates
<1>2. heard[e.ref] = Evidence(PageOf[WinnerOf(list, eligible, e.ref).page])
  BY <1>1 DEF Heard
<1> HIDE DEF heard
<1> QED BY <1>1, <1>2 DEF Evidence

\* One page does everything that is asked of an established claim's.
LEMMA KeptIsEstablished == Kept => EstablishedByOnePage
<1> SUFFICES ASSUME Kept, NEW c \in PackageClaims, c.status = "SUPPORTED"
             PROVE  \E e \in Proofs(c) : \E i \in Bearers(e) :
                      LET page == PageOf[sources[i].page]
                      IN /\ Admissible(sources[i])
                         /\ e.passage \in {passage.text : passage \in ToSet(Passages(page))}
                         /\ AuthoritySuffices(c.needs.bar.authority, SourceQuality(page))
                         /\ c.needs.bar.risk = "HIGH" /\ c.region # "UNKNOWN" =>
                               SpeaksThere(page, c.region)
  BY DEF EstablishedByOnePage
<1> DEFINE eligible == Eligible(sources, decisions)
           inScope == InScope(c.needs, c.region, Supporters(c.evidence))
<1>1. Packaged /\ c = Evaluate(c.text, Heard(sources, eligible), Market)
  BY InThePackage, KeptClaim
<1>2. Sources(sources) /\ Sound(sources, decisions)
  BY <1>1, KeptPackage
<1>3. c.evidence = Candidates(c.text, Heard(sources, eligible))
      /\ Status(c.text, c.needs, c.region, c.evidence) = "SUPPORTED"
  BY <1>1 DEF Evaluate
<1>4. Sufficient(c.needs, inScope) # {}
  BY <1>3, SupportedMeans
<1>5. PICK e \in inScope : AuthoritySuffices(c.needs.bar.authority, e.quality)
  BY <1>4 DEF Sufficient
<1>6. /\ e \in Proofs(c)
      /\ c.needs.bar.risk = "HIGH" /\ c.region # "UNKNOWN" =>
           e.region = "UNKNOWN" \/ Covers(e.region, c.region)
  BY <1>5 DEF InScope, Supporters, Proofs
<1>7. e \in Candidates(c.text, Heard(sources, eligible))
  BY <1>3, <1>6 DEF Proofs
<1>8. eligible \in SUBSET DOMAIN sources
  BY DEF Eligible
<1>9. PICK i \in eligible :
        /\ e.ref = sources[i].ref
        /\ \E passage \in ToSet(Passages(PageOf[WinnerOf(sources, eligible, e.ref).page])) :
              e.passage = passage.text
  <2> HIDE DEF eligible
  <2> QED BY <1>2, <1>7, <1>8, CitedPassage
<1> DEFINE w == Winner(sources, eligible, e.ref)
           page == PageOf[sources[w].page]
<1>10. w \in DOMAIN sources /\ sources[w].ref = e.ref /\ Admissible(sources[w])
  BY <1>2, <1>9, WinnerIsAdmissible DEF Sources
<1>11. page = PageOf[WinnerOf(sources, eligible, e.ref).page]
  BY DEF WinnerOf
<1>12. e.quality = SourceQuality(page) /\ e.region = SourceRegion(page)
  <2> HIDE DEF eligible, page
  <2> QED BY <1>7, <1>11, CitedIsOfTheWinner
<1>13. \E passage \in ToSet(Passages(page)) : e.passage = passage.text
  BY <1>9, <1>11
<1>14. c.needs.bar.risk = "HIGH" /\ c.region # "UNKNOWN" => SpeaksThere(page, c.region)
  <2> HIDE DEF page
  <2> QED BY <1>6, <1>12 DEF SpeaksThere, SourceRegion
<1>15. w \in Bearers(e)
  BY <1>10 DEF Bearers
<1> HIDE DEF w, eligible
<1> QED BY <1>5, <1>6, <1>10, <1>12, <1>13, <1>14, <1>15

\* The text of a claim stands on a page that was admitted.
LEMMA KeptStandsOnAPage ==
  ASSUME Kept, Packaged, NEW c \in ToSet(package.claims)
  PROVE  \E i \in DOMAIN sources :
            Admissible(sources[i]) /\ StandsOn(c.text, PageOf[sources[i].page])
<1> DEFINE eligible == Eligible(sources, decisions)
<1>1. PICK i \in eligible :
        StandsOn(c.text, PageOf[WinnerOf(sources, eligible, sources[i].ref).page])
  BY KeptClaim
<1>2. Sources(sources) /\ Sound(sources, decisions)
  BY KeptPackage
<1> DEFINE w == Winner(sources, eligible, sources[i].ref)
<1>3. w \in DOMAIN sources /\ Admissible(sources[w])
  BY <1>2, WinnerIsAdmissible DEF Sources
<1>4. StandsOn(c.text, PageOf[sources[w].page])
  BY <1>1 DEF WinnerOf
<1> HIDE DEF w, eligible
<1> QED BY <1>3, <1>4

LEMMA KeptRests ==
  ASSUME Kept, Packaged, NEW c \in ToSet(package.claims)
  PROVE  RestsOn(c, sources)
<1>1. Sources(sources) /\ package = Build(sources, decisions)
  BY KeptPackage
<1>2. Len(sources) \in Nat /\ DOMAIN sources = 1..Len(sources)
  BY <1>1, ListShape DEF Sources
<1> QED BY <1>1, <1>2, BuiltRests

LEMMA KeptIsCurrent == Kept => EndedRulesDoNotCount
<1> SUFFICES ASSUME Kept PROVE EndedRulesDoNotCount
  OBVIOUS
<1>1. \A c \in PackageClaims : RestsOn(c, sources)
  BY InThePackage, KeptRests
<1> QED BY <1>1, RestsOnThePresent DEF EndedRulesDoNotCount, Bearers

\* The text of a claim is of finitely many words and figures.
LEMMA KeptIsFinite ==
  ASSUME Kept, Packaged, NEW c \in ToSet(package.claims)
  PROVE  FiniteText(c.text)
<1>1. PICK i \in DOMAIN sources : StandsOn(c.text, PageOf[sources[i].page])
  BY KeptStandsOnAPage
<1>2. sources[i].page \in DOMAIN PageOf
  BY KeptPackage DEF Sources, Source
<1> QED BY <1>1, <1>2, PassagesOfAPage DEF StandsOn

-----------------------------------------------------------------------------
(* The steps of a job                                                      *)

\* A round takes at most one step to plan, one for each search and one to fold.
RoundCost == MaxQueries + 3

\* What the rounds after round r may cost.
Ahead(r) == (2 - r) * RoundCost

\* The most steps a job has before it at a stage, in a round, with n searches planned.
LeftAt(s, r, n) ==
  CASE s = "WEB" -> 2 * RoundCost + 4
    [] s \in {"COMMUNITY", "COMMUNITY ONLY"} -> 2 * RoundCost + 3
    [] s = "JUDGING" -> 2 * RoundCost + 2
    [] s = "PLANNING" -> Ahead(r) + 1
    [] s = "ASKING" -> Ahead(r) + n + 2
    [] OTHER -> 0

StepsLeft == LeftAt(stage, round, Len(plan))

\* A round begun leaves the cost of one less ahead.
LEMMA AheadOf ==
  /\ RoundCost \in Nat /\ RoundCost = MaxQueries + 3 /\ MaxQueries \in Nat
  /\ Ahead(0) = 2 * RoundCost /\ Ahead(1) = RoundCost /\ Ahead(2) = 0
  /\ \A r \in 0..2 : Ahead(r) \in Nat /\ Ahead(r) <= 2 * RoundCost
  /\ \A r \in 0..2 : r < 2 => Ahead(r + 1) + RoundCost = Ahead(r)
<1>1. RoundCost \in Nat /\ RoundCost = MaxQueries + 3 /\ MaxQueries \in Nat
  BY MaxQueriesAssumption DEF RoundCost
<1>2. Ahead(0) = 2 * RoundCost /\ Ahead(1) = RoundCost /\ Ahead(2) = 0
  BY <1>1 DEF Ahead
<1>3. ASSUME NEW r \in 0..2
      PROVE  /\ Ahead(r) \in Nat /\ Ahead(r) <= 2 * RoundCost
             /\ r < 2 => Ahead(r + 1) + RoundCost = Ahead(r)
  <2>1. r = 0 \/ r = 1 \/ r = 2
    OBVIOUS
  <2> QED BY <1>1, <1>2, <2>1
<1> QED BY <1>1, <1>2, <1>3

LEMMA LeftAtIs ==
  ASSUME NEW s, NEW r \in 0..2, NEW n \in Nat
  PROVE  /\ s = "WEB" => LeftAt(s, r, n) = 2 * RoundCost + 4
         /\ s \in {"COMMUNITY", "COMMUNITY ONLY"} => LeftAt(s, r, n) = 2 * RoundCost + 3
         /\ s = "JUDGING" => LeftAt(s, r, n) = 2 * RoundCost + 2
         /\ s = "PLANNING" => LeftAt(s, r, n) = Ahead(r) + 1
         /\ s = "ASKING" => LeftAt(s, r, n) = Ahead(r) + n + 2
         /\ s \in {"DONE", "STOPPED", "FAILED"} => LeftAt(s, r, n) = 0
<1>1. s = "WEB" => LeftAt(s, r, n) = 2 * RoundCost + 4
  BY DEF LeftAt
<1>2. s \in {"COMMUNITY", "COMMUNITY ONLY"} => LeftAt(s, r, n) = 2 * RoundCost + 3
  BY DEF LeftAt
<1>3. s = "JUDGING" => LeftAt(s, r, n) = 2 * RoundCost + 2
  BY DEF LeftAt
<1>4. s = "PLANNING" => LeftAt(s, r, n) = Ahead(r) + 1
  BY DEF LeftAt
<1>5. s = "ASKING" => LeftAt(s, r, n) = Ahead(r) + n + 2
  BY DEF LeftAt
<1>6. s \in {"DONE", "STOPPED", "FAILED"} => LeftAt(s, r, n) = 0
  BY DEF LeftAt
<1> QED BY <1>1, <1>2, <1>3, <1>4, <1>5, <1>6

LEMMA NextCounts ==
  ASSUME Kept, Next
  PROVE  StepsLeft' \in Nat /\ StepsLeft' < StepsLeft
<1> DEFINE n == Len(plan)
           left == LeftAt(stage, round, n)
<1>1. StepsLeft = left /\ StepsLeft' = left'
  BY DEF StepsLeft
<1>2. n \in Nat /\ round \in 0..2
  BY ListShape DEF Kept, RoundKept, Searches
<1>3. n' \in Nat /\ n' <= MaxQueries + 1 /\ round' \in 0..2
  <2>1. Kept'
    BY NextKept
  <2>2. IsList(plan') /\ n' <= MaxQueries + 1 /\ round' \in 0..2
    BY <2>1 DEF Kept, RoundKept, Searches
  <2>3. Len(plan') \in Nat
    BY <2>2, ListShape
  <2> QED BY <2>2, <2>3
<1>4. /\ stage = "WEB" => left = 2 * RoundCost + 4
      /\ stage \in {"COMMUNITY", "COMMUNITY ONLY"} => left = 2 * RoundCost + 3
      /\ stage = "JUDGING" => left = 2 * RoundCost + 2
      /\ stage = "PLANNING" => left = Ahead(round) + 1
      /\ stage = "ASKING" => left = Ahead(round) + n + 2
  BY <1>2, LeftAtIs
<1>5. /\ stage' \in {"COMMUNITY", "COMMUNITY ONLY"} => left' = 2 * RoundCost + 3
      /\ stage' = "JUDGING" => left' = 2 * RoundCost + 2
      /\ stage' = "PLANNING" => left' = Ahead(round') + 1
      /\ stage' = "ASKING" => left' = Ahead(round') + n' + 2
      /\ stage' \in {"DONE", "STOPPED", "FAILED"} => left' = 0
  <2>1. left' = LeftAt(stage', round', n')
    BY DEF LeftAt, Ahead, RoundCost
  <2> HIDE DEF left, n
  <2> QED BY <1>3, <2>1, LeftAtIs
<1> HIDE DEF left
<1>6. CASE SearchWeb
  <2>1. stage = "WEB" /\ stage' \in {"COMMUNITY", "COMMUNITY ONLY"}
    BY <1>6 DEF SearchWeb
  <2>2. left = 2 * RoundCost + 4 /\ left' = 2 * RoundCost + 3
    BY <1>4, <1>5, <2>1
  <2>3. RoundCost \in Nat
    BY AheadOf
  <2> QED BY <1>1, <2>2, <2>3
<1>7. CASE AskCommunity
  <2>1. /\ stage \in {"COMMUNITY", "COMMUNITY ONLY"}
        /\ stage' \in {"JUDGING", "STOPPED"}
    BY <1>7 DEF AskCommunity
  <2>2. left = 2 * RoundCost + 3 /\ left' \in {2 * RoundCost + 2, 0}
    BY <1>4, <1>5, <2>1
  <2>3. RoundCost \in Nat
    BY AheadOf
  <2> QED BY <1>1, <2>2, <2>3
<1>8. CASE Judge
  <2>1. stage = "JUDGING" /\ stage' = "PLANNING"
    BY <1>8 DEF Judge
  <2>2. Ahead(round') \in Nat /\ Ahead(round') <= 2 * RoundCost /\ RoundCost \in Nat
    BY <1>3, AheadOf
  <2> QED BY <1>1, <1>4, <1>5, <2>1, <2>2
<1>9. CASE StartRound
  <2>1. \/ stage' = "DONE"
        \/ stage' = "ASKING" /\ round < 2 /\ round' = round + 1
    BY <1>9 DEF StartRound
  <2>2. stage = "PLANNING"
    BY <1>9 DEF StartRound
  <2>3. Ahead(round) \in Nat /\ Ahead(round') \in Nat
    BY <1>2, <1>3, AheadOf
  <2>4. CASE stage' = "DONE"
    BY <1>1, <1>4, <1>5, <2>2, <2>3, <2>4
  <2>5. CASE stage' = "ASKING" /\ round < 2 /\ round' = round + 1
    <3>1. Ahead(round') + RoundCost = Ahead(round)
      BY <1>2, <2>5, AheadOf
    <3>2. RoundCost = MaxQueries + 3 /\ MaxQueries \in Nat
      BY AheadOf
    <3> HIDE DEF n
    <3> QED BY <1>1, <1>3, <1>4, <1>5, <2>2, <2>3, <2>5, <3>1, <3>2
  <2> QED BY <2>1, <2>4, <2>5
<1>10. CASE Ask
  <2>1. stage = "ASKING" /\ stage' = "ASKING" /\ round' = round
    BY <1>10 DEF Ask
  <2>2. n' = n - 1
    <3>1. plan # <<>> /\ plan' = Tail(plan) /\ IsList(plan)
      BY <1>10 DEF Ask, Kept, RoundKept, Searches
    <3>2. Len(plan') = Len(plan) - 1
      BY <3>1, TailIsList
    <3> QED BY <3>2
  <2>3. Ahead(round) \in Nat
    BY <1>2, AheadOf
  <2> HIDE DEF n
  <2> QED BY <1>1, <1>2, <1>3, <1>4, <1>5, <2>1, <2>2, <2>3
<1>11. CASE Fold
  <2>1. stage = "ASKING" /\ stage' = "PLANNING" /\ round' = round
    BY <1>11 DEF Fold
  <2>2. Ahead(round) \in Nat
    BY <1>2, AheadOf
  <2> HIDE DEF n
  <2> QED BY <1>1, <1>2, <1>4, <1>5, <2>1, <2>2
<1>12. CASE GiveUp
  <2>1. /\ stage \in {"WEB", "COMMUNITY", "COMMUNITY ONLY", "ASKING"}
        /\ stage' = "FAILED"
    BY <1>12 DEF GiveUp
  <2>2. Ahead(round) \in Nat /\ RoundCost \in Nat
    BY <1>2, AheadOf
  <2>3. left' = 0 /\ left \in {2 * RoundCost + 4, 2 * RoundCost + 3, Ahead(round) + n + 2}
    BY <1>4, <1>5, <2>1
  <2> HIDE DEF n
  <2> QED BY <1>1, <1>2, <2>2, <2>3
<1> QED BY <1>6, <1>7, <1>8, <1>9, <1>10, <1>11, <1>12 DEF Next
=============================================================================
