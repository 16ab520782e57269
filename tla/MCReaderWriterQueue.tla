------------------------- MODULE MCReaderWriterQueue -------------------------
(* ReaderWriterQueue with the constants of the .cfg files *)
EXTENDS ReaderWriterQueueFifo
=============================================================================
