\* The same job, against the rule that a source is judged on its own query.
SPECIFICATION ArticleSpec
CONSTANTS
    NoDate = NoDate
    NoPhrase = NoPhrase
    NoHost = NoHost
    NoAuthority = NoAuthority
    NoRef = NoRef
    NoPackage = NoPackage
    Vertical <- Solar
    Today <- Now
    PageOf <- Pages
    WordsOf <- Words
    Known <- Hosts
    Registered <- Authorities
    Template <- Templates
    MaxQueries = 1
    PriceQuestion = TRUE
    Market = "BE"
    RelevantAt = 55
    LowAt = 30
    Article = "article"
    Answers <- Web
    Community <- Threads
    Semantic = TRUE
    MaxSentences = 2
    MatchMargin = 5
    Query <- Searcher
    House <- Magazine
    MaxFacts = 4
    MaxAnswers = 2
    Lead = 1
    NoText = NoText
    Drafts <- Written
    NoDraft = NoDraft
INVARIANTS JudgedOnItsOwn
CHECK_DEADLOCK FALSE
