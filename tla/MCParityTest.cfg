\* the even/odd test of 20filesystem06.c unscaled: ten iterations per client, a full block table
CONSTANTS
    NUM_BLOCKS = 13
    FIRST_DATA_BLK = 1
    ITAB_SIZE = 23
    INODE_NUM_BLKS = 10
    BLOCK_SIZE = 2
    dir = dir
    A = A
    BASE_DIR = dir
    Names <- MCNames
    Data <- MCData
    ZERO = ZERO
    JUNK = JUNK
    EMPTY = EMPTY
    PATH_LEN = 2
    WRITE_COUNTS = {1}
    MAX_ITERATIONS = 10
    LISTDIR_MAX = 20
SPECIFICATION TestSpec
INVARIANT EntriesInTurnOrder
PROPERTY ParityTestPasses
\* the test program ends: every process stops at passed, done or failed
CHECK_DEADLOCK FALSE
