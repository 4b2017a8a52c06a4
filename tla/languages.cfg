SPECIFICATION LanguageSpec
CONSTANTS
    Options <- MCOptions
    Settings <- MCSettings
    Systems <- MCSystems
    NpmUnlisted = {"--otp"}
    PipUnlisted = {"--src"}
    MaxArgs = 3
    MaxEdits = 1
INVARIANTS
    DefaultStaysHome
    ArgumentsHold
    BackendsFindTheirTools
    RegistryOutlives
CHECK_DEADLOCK FALSE
