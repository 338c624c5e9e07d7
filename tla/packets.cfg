SPECIFICATION Spec
CONSTANTS
  Requests <- MCRequests
  Datagrams <- MCDatagrams
  Contents <- MCContents
  Garbage = {8, 255}
  Cuts = {4, 9, 20}
  MaxPackets = 3
  MaxMsgs = 1
INVARIANTS
  ReceptionInv
PROPERTY
  ReceivedInOrder
CHECK_DEADLOCK FALSE
