------------------------ MODULE MCStageLifecycle ------------------------
EXTENDS StageLifecycle, TLC

\* The data of the first request of the run may not load.
FirstRequest == {<<1, 1>>}

Symmetry == Permutations(Workers)
=========================================================================
