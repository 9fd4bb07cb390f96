----------------------------- MODULE MCRunLocks -----------------------------
\* Three goroutines, two runs, and enough heap cells for every interleaving
\* in which an entry is dropped and re-created while others still hold it.
EXTENDS RunLocks
=============================================================================
