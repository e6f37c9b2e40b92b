\* fs_lookup against the resolution of spec 4.3 on every path of up to three components
CONSTANTS
    NUM_BLOCKS = 6
    FIRST_DATA_BLK = 1
    ITAB_SIZE = 5
    INODE_NUM_BLKS = 2
    BLOCK_SIZE = 2
    a = a
    b = b
    A = A
    B = B
    Names <- MCNames
    Data <- MCData1
    ZERO = ZERO
    JUNK = JUNK
    EMPTY = EMPTY
    PATH_LEN = 3
    WRITE_COUNTS = {1, 3}
SYMMETRY Symmetry
SPECIFICATION SpecNoRemove
INVARIANT LookupMeetsSpec
\* once every inode is a directory and the disk is full no request succeeds;
\* the server keeps answering with errors, which change nothing
CHECK_DEADLOCK FALSE
