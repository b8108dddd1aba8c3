\* Pages of two entries and up to five words: one to three pages, the last one
\* full or not, and a page before, between and after the one searched.
CONSTANTS
    Keys <- MCKeys
    Match <- MCMatch
    Entries = 2
    MaxWords = 5
SPECIFICATION Spec
INVARIANTS LookupCorrect SuggestsBestOfWalk
PROPERTY LookupEnds
