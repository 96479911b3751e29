\* A client that waits for its answers and stays, and one that pipelines and
\* may leave; both read.
CONSTANTS
  c1 = c1
  c2 = c2
  Clients = {c1, c2}
  Pipeliners = {c2}
  Readers = {c1, c2}
  Quitters = {c2}
  MaxRequests = 2
  MaxDatagrams = 1
  RequestLength = 2
  RecvSize = 3
  SendSpace = 1

SPECIFICATION Spec

INVARIANT TypeOK
INVARIANT BytesInOrder
INVARIANT NothingWrittenAfterClose
PROPERTY ImplementsRequestStream
 
PROPERTY LeaversAreRemoved
\* The clients may have nothing left to do, or the process be gone.
CHECK_DEADLOCK FALSE
