SPECIFICATION Spec
CONSTANTS
    MAX_PATH_LEN = 5
    MAX_DEPTH = 2
    MAX_NAME = 2
    PREFIX_KEY_LEN = 4
    PrefixLens = {4, 2}
    Names <- MCNames
    Files <- MCFiles
    NoFile = NoFile
    Listed <- MCListed
INVARIANT
    DenyBlocks
