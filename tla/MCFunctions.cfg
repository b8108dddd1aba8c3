SPECIFICATION InputSpec
CONSTANTS
    Functions = {"distance", "escaping", "md5", "powerword", "xdxf", "pango",
                 "sections", "inflection", "cases", "tree", "indexes", "selection", "header", "collation",
                 "estonian", "spanish2", "czech", "danish"}
    Unset = Unset
    Letters <- MCLetters
    SecondLetters <- MCSecondLetters
    Longest <- MCLongest
    SecondLongest <- MCSecondLongest
    Limits <- MCLimits
    BlockSize = 4
    LengthSize = 1
    WordValues = 64
    ByteBits = 8
    Base = 4
    TextTypes = {1}
    SizedTypes = {3}
    SoughtWords <- MCSoughtWords
    OtherWords <- MCOtherWords
CHECK_DEADLOCK FALSE
INVARIANT CutOffIsExact
INVARIANT TextSurvives
INVARIANT DigestOfWhole
INVARIANT HtmlIsBalanced
INVARIANT SectionsSurvive
INVARIANT SimilarIsFound
INVARIANT TreeIsWhole
INVARIANT ListingOpens
INVARIANT ShownIsSearched
INVARIANT IndexesAgree
INVARIANT WordsAreOrdered
INVARIANT SelectionIsFound
INVARIANT ChunksAreThere
