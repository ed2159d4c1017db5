---------------------------- MODULE MCBusHealth ----------------------------
EXTENDS BusHealth

CONSTANTS miss, fault, hostThread, busThread
=============================================================================
