-------------------------- MODULE ProviderSettingsMC --------------------------
EXTENDS ProviderSettings, TLC
CONSTANTS p1, k1, k2, t1, t2
\* Threads are interchangeable.
SettingsSymmetry == Permutations(Threads)
===============================================================================
