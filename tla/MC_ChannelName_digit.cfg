CONSTANTS
    Psks <- MC_Psks
    Names <- MC_Names
    Modems <- MC_Modems
    Bandwidths = {0, 250}
    TxPowers = {0, 17}
    EmptyStr = ""
SPECIFICATION Spec
INVARIANT SuffixIsDigit
