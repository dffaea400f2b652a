------------------------------ MODULE MCClients ------------------------------
EXTENDS Clients, TLC
CONSTANTS a, b, f1, f2
==============================================================================
