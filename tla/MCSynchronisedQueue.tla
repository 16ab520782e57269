------------------------ MODULE MCSynchronisedQueue ------------------------
EXTENDS SynchronisedQueue
CONSTANTS e1, e2, d1, d2
=============================================================================
