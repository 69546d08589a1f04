SPECIFICATION Spec
CONSTANTS
    monero_langs <- AllLanguages
    SpendKeys <- MCSpendKeys
    Checksums <- MCChecksums
INVARIANTS
    OfflineKeysAreTheDevices
