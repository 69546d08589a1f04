CONSTANT Pairs = {"k1", "k2"}
SPECIFICATION FairSpec
INVARIANTS TypeOK InstalledIsUsable DenialIsRespected
PROPERTIES ResetIsComplete ImplementsStore BootEnds
