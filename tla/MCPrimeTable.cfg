\* 8-bit integers and every limit below 2^8, as the command line lets every limit below
\* 2^32 through.  Products wrap above 225, as they do above 4294836225, and the size of
\* the flags wraps for the last seven limits, as it does for 0xfffffff9..0xffffffff.
SPECIFICATION FairSpec
CONSTANTS
  W = 8
  MinLimit = 20
  MaxLimit = 255
INVARIANTS
  TableIsPrimes
  TableFits
PROPERTY
  TableReady
CHECK_DEADLOCK FALSE
