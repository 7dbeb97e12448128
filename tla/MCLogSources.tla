---------------------------- MODULE MCLogSources ----------------------------
\* Instances of LogSources.
EXTENDS LogSources
=============================================================================
