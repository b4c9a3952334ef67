SPECIFICATION ToolsSpec
CONSTANTS
    ListId = {l1, l2}
    Node = {n1, n2, n3, n4, n5}
    Null = Null
    INT_MAX = 1023
    Bases = {2, 3, 8, 10, 16}
    Strings <- MCStrings
    Sizes = {0, 1, 2, 3, 4, 6}
    Formats <- MCFormats
    StrBufSize = 7
    bitcount = 6
    Caller = {c1, c2, c3}
    None = none
    PageCounts = {1, 2, 3}
INVARIANTS
    ListTypeOK Represents UnlinkedClear StrncpyExact NumberRoundTrip FormatExpands
    AllocTypeOK OverrunAtMostOne OverlapAtMostOne
