--------------------------- MODULE MC_EntityVersions ---------------------------
EXTENDS EntityVersions

CONSTANTS e1, e2, v1, v2

MCEntities == {e1, e2}
MCImmutable == {e2}
MCValues == {v1, v2}
=============================================================================
