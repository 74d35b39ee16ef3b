SPECIFICATION RecordSpec
CONSTANTS
    f = f
    g = g
    Urls <- MCUrls
    Norm <- MCNorm
    Corpus <- MCCorpus
    Texts = {1, 2}
    Lists <- MCLists
    Reports <- MCReports
    Markers = {1, 2}
    MaxReviews = 3
    Records <- MCRecords
    MaxBuild = 3
    MaxChanges = 1
    Facts = {f, g}
    Sources = {1, 2, 3}
    Admissible = {1, 2}
    Figures <- FiguresOfG
    Drafts <- SomeDrafts
    Rewrites <- Passages
    BATCH = 2
    MAX_ATTEMPTS = 2
    Files <- Uploads
    Written <- SomeReports
    Target = 3
    Overlap = 2
    Runt = 2
    MaxChars = 6
    MaxItems = 3
    Addresses <- Places
    Page <- PageOfPlace
    Kind <- KindOfPlace
    MovedTo <- Redirects
    PageText <- BodyOfPlace
    WebHits <- SomeWebHits
    CorpusHits <- SomeCorpusHits
    Selection <- Chosen
    Quotations <- Snippets
    SnippetCap = 2
    RoundLimit = 2
    PageLimit = 2
    MaxRedirects = 1
    MaxCalls = 2
    Reported <- DraftReports
    Traits <- SentenceTraits
    Inside <- PartOf
    Known = {1, 2}
    Shown <- FiguresShown
    Batch = 2
    Deployments <- Settings
    Installs <- Servers
    Nearness <- Contents
    Mosts = {1, 2}
    Deep = 4
    MaxFiles = 2
    MaxSwitches = 1
INVARIANTS
    MarkersKeepTheirRow
    ArtifactVerifies
    VerdictIsTrue
    SaysWhatRan
    RateAgrees
    ShownWasSupported
    RejectedStaysOut
    TextKeepsItsPlace
    QuotedFromWhatWasRead
    MarkersAreBacked
    SearchKeepsItsBounds
PROPERTIES
    StoredOnce
CHECK_DEADLOCK FALSE
