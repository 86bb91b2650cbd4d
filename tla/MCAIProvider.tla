---------------------------- MODULE MCAIProvider ----------------------------
\* Instances of AIProvider for TLC.
EXTENDS AIProvider
=============================================================================
