--------------------------- MODULE MCAgentThread ---------------------------
EXTENDS AgentThread, TLC
CONSTANTS t1, t2, h1, h2
MCTabs == {t1, t2}
MCHandlers == {h1, h2}
Symmetry == Permutations(MCTabs) \cup Permutations(MCHandlers)
=============================================================================
