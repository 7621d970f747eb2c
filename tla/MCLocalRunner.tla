---------------------------- MODULE MCLocalRunner ----------------------------
EXTENDS LocalRunner

\* Two requests of the same second and name, and the directory that the second of them
\* would take left by a run that was called so.
MCNames == {<< >>}
MCLeft == {<< 2 >>}
=============================================================================
