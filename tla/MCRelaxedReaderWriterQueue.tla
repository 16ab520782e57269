---------------------- MODULE MCRelaxedReaderWriterQueue ----------------------
EXTENDS RelaxedReaderWriterQueue
=============================================================================
