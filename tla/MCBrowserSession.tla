--------------------------- MODULE MCBrowserSession ---------------------------
EXTENDS BrowserSession, TLC

Symmetry == Permutations(Calls) \cup Permutations(Pages)
=============================================================================
