SPECIFICATION AgentSpec
CONSTANTS
    NoGame = NoGame
    Levels = {"normal", "hard"}
    Requests = {r1}
    Contacts = {k1, k2}
    NamesUsed <- MCNames
    Allowlist <- MCAllowlist
    Aliases <- MCAliases
    Permitted = {k1}
    MaxRenames = 1
    Notes = {n1, n2}
    MAX_MESSAGES = 2
    SelfChatNamed = TRUE
    MaxAnswers = 1
    Passes = {p1, p2}
    Titles = {"Trip", "trip!"}
    FormOf <- MCFormOf
    Drafts = {"yes"}
    MaxMessages = 2
    MaxCandidates = 1
    PassLimit = 1
    TailLimit = 1
    MaxKept = 1
    NoTitle = NoTitle
    Savers = {s1, s2}
    KindOf <- MCKindOf
    Initial <- MCInitial
    Batches <- MCBatches
    MaxSaves = 3
    Sessions = {d1, d2}
    MAX_OPEN_SETS = 1
    Window = 16
    ByteBudget = 4
    Readings = {15}
    SearchLimits = {3}
    PageLimits = {1, 2}
    MaxMatches = 3
    MaxOpened = 2
    Speeches <- MCSpeeches
    CHUNK_CHARS = 4
    MAX_SPEECH_CHARS = 20
    Voices <- MCVoices
    VoicesAsked <- MCVoicesAsked
    Environments <- MCEnvironments
INVARIANTS
    HardNeverLoses
    SentToTheNamed
    AnswersAreTrue
    NotesArriveWhole
    PagesAreTheAnswer
    VoiceSaysItAll
PROPERTIES
    AloneLandsWhole
    PassesAreNotLost
    EveryNoteIsAnswered
CHECK_DEADLOCK FALSE
