------------------------------- MODULE MCRelay -------------------------------
EXTENDS Relay, TLC
CONSTANTS c1, c2
MCClosers == {c1, c2}
=============================================================================
