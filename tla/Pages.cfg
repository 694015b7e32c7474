CONSTANTS
    Nothing = Nothing
    Unreadable = Unreadable
    Nobody = Nobody
    NoMatch = NoMatch
    documents <- MCDocuments
    searches <- MCSearches
    lists <- MCLists
    views <- MCViews
    forms <- MCForms
    editors <- MCEditors
    urls <- MCUrls
    dialogs <- MCDialogs
    videos <- MCVideos
SPECIFICATION Spec
INVARIANTS
    Consistent RightPage RightLists VerdictsAreMeant FormsSendWhatWasAsked
    CalmIsExact PageFollowsAddress WidgetsInStep
PROPERTIES ImplementsLatestAnswer
