\* every request, fs_remove included: a dangling entry left by fs_remove frees blocks a live file owns
CONSTANTS
    NUM_BLOCKS = 5
    FIRST_DATA_BLK = 1
    ITAB_SIZE = 4
    INODE_NUM_BLKS = 2
    BLOCK_SIZE = 3
    a = a
    b = b
    A = A
    B = B
    Names <- MCNames
    Data <- MCData1
    ZERO = ZERO
    JUNK = JUNK
    WRITE_COUNTS = {3, 4}
SYMMETRY Symmetry
SPECIFICATION Spec
\* once every inode is a directory and the disk is full no request succeeds;
\* the server keeps answering with errors, which change nothing
CHECK_DEADLOCK FALSE
INVARIANT BlocksExclusivelyOwned
