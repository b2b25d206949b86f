--------------------------- MODULE MCTerminalBridge ---------------------------
EXTENDS TerminalBridge
CONSTANT h1
MCHandlers == {h1}
=============================================================================
