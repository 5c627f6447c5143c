---------------------------- MODULE MC_IpfsConnect ----------------------------
EXTENDS IpfsConnect
=============================================================================
