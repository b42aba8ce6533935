---------------------------- MODULE MCHeadedRuns ----------------------------
EXTENDS HeadedRuns
MCPaths == {"a", "b"}
=============================================================================
