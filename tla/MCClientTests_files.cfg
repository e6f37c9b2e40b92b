\* the file and directory tests and remove1, one chosen in the initial state, against the abstract file store
CONSTANTS
    NUM_BLOCKS = 11
    FIRST_DATA_BLK = 1
    ITAB_SIZE = 8
    INODE_NUM_BLKS = 2
    BLOCK_SIZE = 2
    t1 = t1
    t2 = t2
    t3 = t3
    A1 = A1
    B1 = B1
    A2 = A2
    B2 = B2
    A3 = A3
    B3 = B3
    w1 = w1
    w2 = w2
    w3 = w3
    Names <- MCNames
    Data <- MCData
    ZERO = ZERO
    JUNK = JUNK
    WRITE_COUNTS = {1, 2}
    EMPTY = EMPTY
    PATH_LEN = 1
    Clients <- Writers3
    Tests <- FileTests
    FILE_SIZE = 3
    WRITE_CHUNK = 2
    READ_BUF = 4
    MAX_WRITE_DATA = 2
    MAX_READ_DATA = 2
SPECIFICATION ClientSpec
INVARIANT NoClientFails
PROPERTY AllClientsPass ClientsRefineFileStore
\* every client ends, passed or failed: the test program stops
CHECK_DEADLOCK FALSE
