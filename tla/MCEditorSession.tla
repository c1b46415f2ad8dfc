-------------------------- MODULE MCEditorSession --------------------------
EXTENDS EditorSession, TLC
CONSTANTS p1, p2
MCProjects == {p1, p2}
Symmetry == Permutations(MCProjects)
=============================================================================
