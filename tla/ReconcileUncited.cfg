SPECIFICATION Spec
CONSTANTS
    ConfigFiles <- MCConfigFiles
    NoValue = ""
    ListItem = "- x"
    NoColon = "word"
    scalar <- MCscalar
    Secrets = {"sk-live"}
    ReferenceKeys = {"api_key_env"}
    Literals = {"sk-live", "hunter2"}
    NodeNames = {1, 2, 3}
    NodeShapes <- MCNodeShapes
    Seeds = {"s"}
    Items = {1, 2, 3}
    Widths = {1, 2}
    Cap = 2
    Prices = {1, 2}
    Phases = {"act", "verify"}
    Tier <- MCTier
    Trusted = {"order", "pay", "read_artifact", "search_tools"}
    Deferred = {"pay"}
    Returns <- MCReturns
    HookBuses <- MCHookBuses
    ToolLists <- MCToolLists
    AnyTool = anyTool
    OffloadOver = 3
    Preview = 1
    PageLimit = 3
    Secret = secret
    Instruction = instruction
    Redacted = redacted
    More = more
    Titles = {"plan", "Plan", "fees"}
    Slug <- MCSlug
    Refs = {"memo", "contract"}
    MaxVersion = 1
    MaxWrites = 2
    secret = secret
    instruction = instruction
    redacted = redacted
    more = more
    anyTool = anyTool
    Clauses = {"amount", "date", "names", "terse", "decimal"}
    States <- MCStates
    Spells <- MCSpells
    Alike <- MCAlike
    Unparsed <- MCUnparsed
    Pages <- MCPages
    NoPage = noPage
    noPage = noPage
    Extractions <- MCExtractions
    NoExtraction = noExtraction
    noExtraction = noExtraction
    CloseFloats <- MCCloseFloats
    RoundedUp <- MCRoundedUp
    ComesOfAge <- MCComesOfAge
    NonBankMarked <- MCNonBankMarked
    MaxProofAge = 180
    Documents <- MCDocuments
    CitedField <- MCCitedField
    Extractors <- MCExtractors
    Reviewers <- MCReviewers
    Mentions <- MCMentions
    Shows <- MCShows
    Markers <- MCMarkers
    Agreements <- MCAgreements
    MarginSystems <- MCMarginSystems
    Null = null
    null = null
    Exports <- MCExports
    Portfolios <- MCPortfolios
    Material = {"mta"}
    Metadata = {"book"}
    Currency <- MCCurrency
    Glued = {"EUR_flush"}
    NoUnit = noUnit
    noUnit = noUnit
    NoWords = noWords
    noWords = noWords
    Cases <- MCCases
    CaseOutcomes <- MCCaseOutcomes
    MaxEvals = 2
    Artifacts <- MCArtifacts
    Reviews = {"threshold", "law"}
    Bare = bare
    bare = bare
    NoText = noText
    noText = noText
    NoGates = noGates
    noGates = noGates
CHECK_DEADLOCK FALSE
INVARIANTS
    DiscrepancyIsCited
