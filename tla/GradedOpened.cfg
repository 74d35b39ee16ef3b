SPECIFICATION TaskSpec
CONSTANTS
    Addresses <- Places
    Page <- PageOfPlace
    Kind <- KindOfPlace
    MovedTo <- Redirects
    PageText <- BodyOfPlace
    WebHits <- SomeWebHits
    CorpusHits <- SomeCorpusHits
    Selection <- Chosen
    Quotations <- Snippets
    SnippetCap = 2
    RoundLimit = 2
    PageLimit = 2
    MaxRedirects = 1
    MaxCalls = 2
INVARIANTS
    GradedBodyWasOpened
CHECK_DEADLOCK FALSE
