------------------------------- MODULE MCEcho -------------------------------
EXTENDS EchoServers
=============================================================================
