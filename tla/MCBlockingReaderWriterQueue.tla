-------------------- MODULE MCBlockingReaderWriterQueue --------------------
EXTENDS BlockingReaderWriterQueue
=============================================================================
