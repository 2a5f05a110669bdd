SPECIFICATION Spec
CONSTANTS
    Settings <- AllSettings
    Words <- SomeWords
    Requests <- SomeRequests
INVARIANTS
    NoUnacknowledgedPlaintext
    ValidateCoversNew
    RoutedByLongestPrefix
CHECK_DEADLOCK FALSE
