CONSTANTS
    zero = zero
    one = one
    two = two
    Number <- MCNumber
    Zero = zero
    Control <- MCControl
    CanTable <- MCCanTable
    MaxPieces = 2
SPECIFICATION Spec
INVARIANTS
    TypeOK
    DoesWhatWasAsked
    StatusTells
    SignalsExplained
