SPECIFICATION Spec
CONSTANTS
    monero_langs <- AllLanguages
    SpendKeys <- MCSpendKeys
    Checksums <- MCChecksums
INVARIANTS
    TypeOK
    MessagesFit
    DeviceShowsOneDictionary
    WordsGiveTheKeyBack
PROPERTIES
    ErasesOnlyToLoad
