---------------------------- MODULE MCPaneGroup ----------------------------
EXTENDS PaneGroup
=============================================================================
