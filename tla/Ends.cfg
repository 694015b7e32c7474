CONSTANTS
    Nothing = Nothing
    Unreadable = Unreadable
    Nobody = Nobody
SPECIFICATION Spec
PROPERTIES EveryWaitEnds VerdictShows OldTokenGoes
