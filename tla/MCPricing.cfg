SPECIFICATION TableSpec
CONSTANTS
    Systems = {"openai", "anthropic", "local"}
    Bytes <- Letters
    Lower <- LowerCase
    MaxPrefix = 2
    MaxModel = 3
    Defaults <- Catalogue
    Overrides <- Files
INVARIANTS
    LongestPrefixWins
    DefaultsSurvive
CHECK_DEADLOCK FALSE
