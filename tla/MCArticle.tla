------------------------------ MODULE MCArticle ------------------------------
(***************************************************************************)
(* An instance of Article for TLC: an article on solar panels, premiums   *)
(* that Wallonia and Brussels set, a payback that only one authority       *)
(* states, and an installer whose page has no date.                        *)
(***************************************************************************)
EXTENDS Article

Solar == [order |-> <<"SUBSIDY", "ROI", "TAX">>, overrides |-> <<>>,
          regional |-> {"SUBSIDY", "ROI"},
          modifiers |-> {"price"}, markets |-> {"belgium"}]

Now == [day |-> 100, year |-> 2026]

Words == [article |-> {"panel", "price", "belgium"}, premium |-> {"premium", "panel"},
          tax |-> {"tax", "panel"}, cost |-> {"cost", "panel"},
          premiumWal |-> {"premium", "wallonia"}, premiumVlg |-> {"premie", "paneel"},
          payback |-> {"payback", "panel"}]

Templates == [key \in {<<"SUBSIDY", "national">>, <<"SUBSIDY", "WAL">>,
                       <<"SUBSIDY", "VLG">>, <<"ROI", "national">>,
                       <<"TAX", "national">>, <<"MARKET_PRICE", "national">>} |->
                IF key[1] = "ROI" THEN "payback"
                ELSE IF key[1] = "TAX" THEN "tax"
                ELSE IF key[1] = "MARKET_PRICE" THEN "cost"
                ELSE IF key[2] = "WAL" THEN "premiumWal"
                ELSE IF key[2] = "VLG" THEN "premiumVlg" ELSE "premium"]

Hosts == [official |-> [hosts |-> {}, suffixes |-> {<<"fgov", "be">>}],
          institutional |-> [hosts |-> {<<"vito", "be">>}, suffixes |-> {}],
          community |-> {<<"forum", "be">>, <<"sunforum", "be">>},
          hinted |-> {<<"solarnews", "be">>}]

Authority(domain, region, categories, pending) ==
  [domain |-> domain, type |-> "GOVERNMENT", region |-> region,
   categories |-> categories, pending |-> pending]

Authorities == <<Authority(<<"wallonia", "be">>, "BE-WAL", {"SUBSIDY", "ROI", "MARKET_PRICE"},
                         FALSE),
                 Authority(<<"city", "brussels">>, "BE-BRU", {"SUBSIDY"}, FALSE),
                 Authority(<<"stat", "fgov", "be">>, "BE", {"ROI"}, TRUE)>>
-----------------------------------------------------------------------------
(* Texts                                                                   *)

Euro(n) == [digits |-> n, unit |-> "money"]
Years(n) == [digits |-> n, unit |-> "duration"]
Percent(n) == [digits |-> n, unit |-> "percent"]
Kilowatt(n) == [digits |-> n, unit |-> "power"]

Text(wording, category, regions, amount) ==
  [wording |-> wording, marks |-> {"factual", "digits", "quantified"}, terms |-> {category},
   hints |-> {}, regions |-> regions, topic |-> {"amount", category}, generic |-> {},
   head |-> category, headWords |-> {category}, phrases |-> {category},
   says |-> {category}, figures |-> {[type |-> amount.unit, digits |-> amount.digits]},
   units |-> {}, years |-> {}, form |-> {"verb"},
   words |-> {category, "amounts"}, amounts |-> {amount}, ranges |-> {},
   numbers |-> IF amount.digits >= 10 THEN {amount.digits} ELSE {},
   large |-> IF amount.digits >= 1000 THEN {amount.digits} ELSE {}]

Premium == Text("premium 500", "SUBSIDY", {}, Euro(500))
PremiumHigher == Text("premium 700", "SUBSIDY", {}, Euro(700))
PremiumWal == Text("premium in Wallonia 500", "SUBSIDY", {"BE-WAL"}, Euro(500))
Payback == [Text("payback 8", "ROI", {}, Years(8)) EXCEPT !.marks = @ \cup {"payback"}]
Rate == Text("rate 6", "TAX", {}, Percent(6))
Cost == [Text("cost 6000 to 9000", "none", {}, Euro(6000))
           EXCEPT !.marks = @ \cup {"money", "usable price", "commercial", "vat unknown"},
                  !.amounts = {}, !.numbers = {6000, 9000}, !.large = {6000, 9000},
                  !.ranges = {[low |-> 6000, high |-> 9000, unit |-> "money"]}]
Regained == [Text("regained in 9", "general", {}, Years(9))
               EXCEPT !.marks = @ \cup {"payback"}]
Yield == Text("yields 5", "yields", {}, Percent(5))
Heading == [Premium EXCEPT !.wording = "premiums", !.form = {"capitals"}]

PaybackOfPower == [Payback EXCEPT !.wording = "payback 8 kW", !.amounts = {Kilowatt(8)}]
LowestCost == [Cost EXCEPT !.wording = "cost 6000", !.ranges = {}, !.amounts = {Euro(6000)},
                           !.numbers = {6000}]
Again == [Payback EXCEPT !.wording = "again, payback 8"]
RegainedAndYield == [Regained EXCEPT !.wording = "regained in 9, yields 5",
                                     !.amounts = {Years(9), Percent(5)},
                                     !.words = @ \cup Yield.words]
PaybackInWallonia == [Payback EXCEPT !.wording = "in Wallonia, payback 8",
                                     !.regions = {"BE-WAL"}]
Invented == [Yield EXCEPT !.wording = "yields 12", !.amounts = {Percent(12)},
                          !.numbers = {12}]
Computed == [Invented EXCEPT !.marks = @ \cup {"calculation"}, !.numbers = {}]
Unaided == [Payback EXCEPT !.wording = "without support", !.amounts = {},
                           !.marks = {"without support"}]
Loose == [Yield EXCEPT !.wording = "digits only", !.amounts = {}, !.marks = {"digits"}]
Wallonia == [Loose EXCEPT !.wording = "wallonia", !.marks = {}, !.regions = {"BE-WAL"}]
Brussels == [Wallonia EXCEPT !.wording = "brussels", !.regions = {"BE-WAL", "BE-BRU"}]

Headline == [Text("Panels and their price", "panel", {}, Euro(0))
               EXCEPT !.amounts = {}, !.topic = {"panel", "price"}]

Draft(body) == [title |-> Headline, metaTitle |-> Headline, metaDescription |-> Headline,
                body |-> body, near |-> {}, faults |-> {}]

\* What else a page may be refused for.
Fee == [Loose EXCEPT !.wording = "our fees are 150", !.amounts = {Euro(150)},
                     !.marks = {"offer", "digits"}]
Free == [Loose EXCEPT !.wording = "accepted in any case", !.marks = {"acceptance"}]
AllVat == [Loose EXCEPT !.wording = "these prices include VAT",
                        !.marks = {"vat for all", "commercial"}]

Refusable == {[Draft(<<<<Yield>>, <<Cost>>>>) EXCEPT !.title = NoText],
              [Draft(<<<<Yield>>, <<Cost>>>>) EXCEPT !.title = Loose],
              [Draft(<<<<Yield>>, <<Cost>>>>) EXCEPT !.title.wording = "taken"],
              [Draft(<<<<Yield>>, <<Cost>>>>) EXCEPT !.metaDescription = Free],
              [Draft(<<<<Yield>>, <<Cost>>>>) EXCEPT !.near = {"battery"}],
              [Draft(<<<<Yield>>, <<Cost>>>>) EXCEPT !.faults = {"NO_H1"}],
              Draft(<<<<Yield>>, <<Cost, Fee>>>>), Draft(<<<<Yield>>, <<Cost, AllVat>>>>)}

Bodies == {<<>>, <<<<Yield>>>>, <<<<Yield, Invented>>>>, <<<<Yield, Computed>>>>,
           <<<<Payback>>>>, <<<<PaybackOfPower>>>>, <<<<Wallonia, Payback>>>>,
           <<<<Wallonia>>, <<Payback>>>>, <<<<Wallonia, Brussels, Payback>>>>,
           <<<<PaybackInWallonia>>, <<Again>>>>, <<<<Regained>>>>, <<<<RegainedAndYield>>>>,
           <<<<Premium>>>>, <<<<Wallonia, Premium>>>>, <<<<PremiumWal>>>>,
           <<<<PremiumHigher>>>>, <<<<Cost>>>>, <<<<LowestCost>>>>, <<<<Unaided>>>>,
           <<<<Loose>>>>, <<<<PaybackInWallonia, Rate>>>>,
           <<<<Yield, PaybackInWallonia, PremiumHigher>>>>,
           <<<<Cost>>, <<Yield>>>>, <<<<Cost>>, <<Yield>>, <<Regained>>>>}

Written == {Draft(body) : body \in Bodies} \cup Refusable

Searcher == [buying |-> TRUE, words |-> {"panel"}, figures |-> {}]
Magazine == [floor |-> 3, restricted |-> {"battery"}, offer |-> {}, cta |-> TRUE,
                titles |-> {"taken"}]
-----------------------------------------------------------------------------
(* Pages                                                                   *)

Block(text) ==
  [flags |-> {}, passages |-> <<[text |-> text, propositions |-> <<Heading, text>>]>>]
Banner == [flags |-> {"boilerplate"},
           passages |-> <<[text |-> Payback, propositions |-> <<Payback>>]>>]

Page(host, words, regions, texts) ==
  [id |-> NoRef, host |-> host, hostWords |-> {}, figures |-> {}, channel |-> "web", title |-> words,
   body |-> words, regions |-> regions, blocks |-> <<Banner>> \o Mapped(texts, Block),
   historical |-> FALSE, current |-> TRUE, updated |-> FALSE, published |-> FALSE,
   from |-> NoDate, until |-> NoDate, urlYear |-> NoDate, untilYears |-> {}]

Solarwords == {"panel", "premium", "payback"}

Pages ==
  [installer |-> [Page(<<"www", "sun", "be">>, Solarwords, {},
                       <<Premium, Cost, Regained, Yield>>) EXCEPT !.current = FALSE],
   careers |-> [Page(<<"sunforum", "be">>, {}, {}, <<PremiumHigher>>)
                  EXCEPT !.hostWords = {"panel"}],
   offTopic |-> Page(<<"www", "wallonia", "be">>, {"forest"}, {}, <<Premium>>),
   statistics |-> [Page(<<"stat", "fgov", "be">>, Solarwords, {"BE"}, <<Premium, Payback>>)
                     EXCEPT !.id = 1],
   wallonia |-> Page(<<"wallonia", "be">>, Solarwords \cup {"cost"}, {},
                     <<Premium, Payback, Cost>>),
   guide |-> Page(<<"guide", "wallonia", "be">>, Solarwords \cup {"price"}, {},
                  <<Cost, Yield, Regained, Payback>>),
   ended |-> [Page(<<"energy", "wallonia", "be">>, Solarwords, {}, <<Premium>>)
                EXCEPT !.until = 50],
   endedRate |-> [Page(<<"wallonia", "be">>, Solarwords, {}, <<Rate>>)
                    EXCEPT !.until = 50],
   brussels |-> Page(<<"city", "brussels">>, Solarwords, {"BE-WAL"}, <<PremiumWal>>),
   thread |-> [Page(NoHost, {"panel"}, {}, <<Payback>>)
                 EXCEPT !.channel = "reddit", !.id = 2]]

Web == [article |-> {<<>>, <<"installer">>, <<"installer", "careers">>,
                     <<"thread", "careers">>, <<"statistics">>, <<"guide">>,
                     <<"guide", "installer">>},
        premium |-> {<<"wallonia">>, <<"ended">>, <<"brussels", "installer">>,
                    <<"wallonia", "brussels">>},
        premiumWal |-> {<<"offTopic">>, <<"offTopic", "ended">>, <<"installer", "brussels">>},
        premiumVlg |-> {<<>>},
        payback |-> {<<"wallonia">>, <<"statistics">>, <<"wallonia", "endedRate">>},
        tax |-> {<<"wallonia">>},
        cost |-> {<<"installer", "wallonia">>}]

Threads == {<<"thread">>}
=============================================================================
