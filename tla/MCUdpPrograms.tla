---------------------------- MODULE MCUdpPrograms ----------------------------
EXTENDS UdpPrograms
CONSTANTS w1, w2
=============================================================================
