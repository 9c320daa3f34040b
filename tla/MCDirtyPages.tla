--------------------------- MODULE MCDirtyPages ---------------------------
\* Model checking of DirtyPages.
EXTENDS DirtyPages

MCAllMagics == {5, -3}
MCOneMagic == {5}

=============================================================================
