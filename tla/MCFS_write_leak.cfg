\* create, mkdir and write: a write that runs out of blocks keeps the blocks it reserved
CONSTANTS
    NUM_BLOCKS = 6
    FIRST_DATA_BLK = 1
    ITAB_SIZE = 5
    INODE_NUM_BLKS = 2
    BLOCK_SIZE = 2
    a = a
    b = b
    A = A
    B = B
    Names <- MCNames
    Data <- MCData
    ZERO = ZERO
    JUNK = JUNK
    WRITE_COUNTS = {1, 2, 3, 4, 5}
SYMMETRY Symmetry
SPECIFICATION SpecNoRemove
\* once every inode is a directory and the disk is full no request succeeds;
\* the server keeps answering with errors, which change nothing
CHECK_DEADLOCK FALSE
INVARIANT NoLeakedBlock
