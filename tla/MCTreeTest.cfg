\* tfunc_tree_mkdir and tfunc_tree_inspect (16filesystem02, 19filesystem05) over every small tree shape
CONSTANTS
    NUM_BLOCKS = 12
    FIRST_DATA_BLK = 1
    ITAB_SIZE = 6
    INODE_NUM_BLKS = 2
    BLOCK_SIZE = 2
    z = z
    A = A
    Names <- TreeNames
    Data <- MCData
    ZERO = ZERO
    JUNK = JUNK
    WRITE_COUNTS = {1}
    EMPTY = EMPTY
    PATH_LEN = 0
    LAST = z
    DEGREES = {1, 2, 3}
    DEPTHS = {1, 2, 3}
    DIR_COUNTS = {0, 1, 2, 3, 4, 5}
SPECIFICATION TreeSpec
INVARIANT TraversePreorder
PROPERTY TreeTestVerdict
\* the test program ends, passed or failed
CHECK_DEADLOCK FALSE
