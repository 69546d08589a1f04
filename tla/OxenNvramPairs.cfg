CONSTANT Pairs = {"k1", "k2"}
SPECIFICATION Spec
INVARIANT LoadedKeysArePaired
