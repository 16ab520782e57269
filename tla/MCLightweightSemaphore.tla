----------------------- MODULE MCLightweightSemaphore -----------------------
EXTENDS LightweightSemaphore
=============================================================================
