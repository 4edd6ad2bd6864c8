CONSTANTS
    MaxTokens = 8
    maxLargestUInt = 255
    MaxDigits = 4
    \* the escapes around which something changes
    Units = {0, 65, 127, 128, 2047, 2048, 4095, 4096, 8364, 55295, 55296,
             56319, 56320, 57343, 57344, 65533, 65535}
SPECIFICATION Spec
INVARIANTS
    JsonIsAccepted
    AcceptedIsJson
    ParserInv
    NumbersKept
    EscapesAreUtf8
