---------------------------- MODULE MCPairing ---------------------------
EXTENDS Pairing
=========================================================================
