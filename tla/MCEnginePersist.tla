--------------------------- MODULE MCEnginePersist ---------------------------
EXTENDS EnginePersist, TLC

MCTokens == {1, 2}
MCReuses == {0, MaxLen}
=============================================================================
