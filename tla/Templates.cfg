SPECIFICATION TemplateSpec
CONSTANTS
    e1 = e1
    e2 = e2
    c1 = c1
    c2 = c2
    r1 = r1
    NoRule = NoRule
    Scrap = Scrap
    Numeral <- Numbers
    Part <- Contained
    Rules <- Tried
    Services <- Profiles
    Editors <- TwoEditors
    NTemplates = 2
    NVersions = 2
    Codes <- OneCode
    Texts <- Wording
    Reviews <- OneReview
    Profile <- OfReviews
    MaxEdits = 2
INVARIANTS HistoryExplains SnapshotsAreExplained AssignedIsAnswerable ExplanationFits
PROPERTIES PublishedStays
SYMMETRY Interchangeable
CHECK_DEADLOCK FALSE
