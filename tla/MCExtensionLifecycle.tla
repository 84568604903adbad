------------------------- MODULE MCExtensionLifecycle -------------------------
EXTENDS ExtensionLifecycle

CONSTANTS p1, p2, p3
=============================================================================
