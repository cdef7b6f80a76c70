--------------------------- MODULE MCGlinkIntents ---------------------------
\* Small instances of GlinkIntents for TLC.
EXTENDS GlinkIntents
=============================================================================
