---------------------------- MODULE MediaLibraryMC ----------------------------
EXTENDS MediaLibrary, TLC
CONSTANTS a1, a2, t1, t2
\* Rows and threads are interchangeable.
LibrarySymmetry == Permutations(Assets) \cup Permutations(Threads)
=============================================================================
