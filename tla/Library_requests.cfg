SPECIFICATION Spec
CONSTANTS
    MaxEntier = 20
    MaxBound = 10
    Patterns <- MCPatterns
    Subjects <- MCSubjects
    Instants <- MCInstants
    Formats <- MCFormats
    IsoForms <- MCIsoForms
    Footers <- MCFooters
    Moments <- MCMoments
    TableYears = {2000, 2001, 2002}
    Heaps <- MCHeaps
    Indents <- MCIndents
    Hash <- MCHash
    TableSizes = {6, 7, 11, 12}
    TableCalls = 2
    MaxText = 4
    Characters = {"a", "E'", "e'", " "}
    MaxWord = 2
    Segments <- MCSegments
    Convertibles <- MCConvertibles
    LeadBytes <- MCLeadBytes
    NextBytes <- MCNextBytes
    CodePoints <- MCCodePoints
    MaxHead = 60
    MaxBody = 6
    MaxRead = 20
    Messages <- MCMessages
    FrameLists <- MCFrameLists
    Routings <- MCRoutings
    Hosts <- MCHosts
    Ports <- MCPorts
    Targets <- MCTargets
    TokenLists <- MCTokenLists
INVARIANTS
    NumbersAreExact
    SearchesFindWhatPatternsMean
    TimesAreExact
    TextsMeanTheirParts
    TablesFindWhatTheyHold
    MessagesComeThrough
CHECK_DEADLOCK FALSE
