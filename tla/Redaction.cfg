CONSTANTS
    Alphabet = {"a", "b", "c"}
    Replacement = "c"
    SecretLists <- MCSecretLists
    MinLen = 2
    MaxRaw = 7
    MaxPiece = 3
SPECIFICATION RedactSpec
INVARIANTS
    SecretsHidden
    OnlySecretsGo
    
CHECK_DEADLOCK FALSE
