CONSTANTS
    KeyOrder <- MCKeyOrder
    Special <- MCSpecial
    Contents <- MCContents
    Names <- MCNames
    Arguments <- MCArguments
    Ids <- MCIds
SPECIFICATION AssistantSpec
INVARIANTS StreamedAsMessage EchoFound EchoUnique
