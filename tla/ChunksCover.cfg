SPECIFICATION UploadsSpec
CONSTANTS
    Files <- PlainFiles
    Written <- SomeReports
    Target = 2
    Overlap = 1
    Runt = 1
    MaxChars = 6
    MaxItems = 3
INVARIANT EverySentenceIndexed
CHECK_DEADLOCK FALSE
