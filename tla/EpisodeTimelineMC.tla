--------------------------- MODULE EpisodeTimelineMC ---------------------------
EXTENDS EpisodeTimeline, TLC
CONSTANTS c1, c2, t1, t2, m1, m2, x1, x2
\* Clips, threads, texts and assets are interchangeable.
TimelineSymmetry == Permutations(Clips) \cup Permutations(Threads) \cup Permutations(Texts) \cup Permutations(Media)
===============================================================================
