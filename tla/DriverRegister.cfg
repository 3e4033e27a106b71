SPECIFICATION RegSpec
INVARIANT RegisteredImpliesDevice
