--------------------------- MODULE MCChangeStream ---------------------------
EXTENDS ChangeStream

CONSTANTS k1, k2

MCRanges == {{k1}}
=============================================================================
