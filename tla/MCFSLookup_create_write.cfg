\* create, mkdir and write requests (never remove): block ownership, the tree, path resolution and the refinement of FileStore
CONSTANTS
    NUM_BLOCKS = 6
    FIRST_DATA_BLK = 1
    ITAB_SIZE = 5
    INODE_NUM_BLKS = 2
    BLOCK_SIZE = 2
    a = a
    b = b
    A = A
    B = B
    Names <- MCNames
    Data <- MCData
    ZERO = ZERO
    JUNK = JUNK
    WRITE_COUNTS = {1, 3, 5}
    EMPTY = EMPTY
    PATH_LEN = 3
SYMMETRY Symmetry
SPECIFICATION SpecNoRemove
INVARIANT TypeOK
INVARIANT BlocksExclusivelyOwned
INVARIANT NamespaceIsTree
INVARIANT LookupFindsEveryInode
PROPERTY RefinesFileStore
\* once every inode is a directory and the disk is full no request succeeds;
\* the server keeps answering with errors, which change nothing
CHECK_DEADLOCK FALSE
