\* Every file has one or two of three words, so that a word may be in all of
\* them, twice in one, first, last or in none.
CONSTANTS
    Words <- MCWords
    Dicts <- MCDicts
    Synonyms <- MCSynonyms
    Masks <- MCMasks
    PageOf <- MCPageOf
    NoWord = 0
    MaxLength = 2
    MaxCount = 2
SPECIFICATION Spec
INVARIANTS PointerFresh
PROPERTY KeepsPromise
