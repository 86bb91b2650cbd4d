--------------------------- MODULE MCAdminSession ---------------------------
\* Instances of AdminSession for TLC.
EXTENDS AdminSession, TLC

Symmetric == Permutations(Login) \cup Permutations(Request)
=============================================================================
