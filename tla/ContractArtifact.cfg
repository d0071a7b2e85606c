\* The loader and encoder of GenerateGenesisAccountFromFile over every file outcome.
SPECIFICATION Spec
INVARIANTS TypeOK AccountFromCompleteArtifact
CHECK_DEADLOCK FALSE
