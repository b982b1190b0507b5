\* Every message of up to three packets.
SPECIFICATION Spec
CONSTANTS
  SEGMENTS = {"NSE", "CDS", "INDICES"}
  MaxPackets = 3
INVARIANTS
  CutsAtTheSeams
  EveryByteOnce
  TicksTellTheMode
\* One message is read, and then the model stops.
CHECK_DEADLOCK FALSE
