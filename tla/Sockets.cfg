\* Two processes, three sockets and PCBs, two peers, one port and two
\* ephemeral ones.
CONSTANTS
  MAX_SOCKETS = 3
  SOCKET_RX_BUF_SIZE = 2
  TASK_MAX_FDS = 2
  TCP_MAX_BACKLOG = 2
  MaxPcbs = 3
  Procs = {1, 2}
  Ports = {7}
  TCP_EPHEMERAL_PORT_FIRST = 8
  TCP_EPHEMERAL_PORT_LAST = 9
  Peers = {1, 2}
  Setups <- SomeSetups
  MaxCalls = 3
  MaxFrames = 3
SPECIFICATION Spec
INVARIANTS SleeperHasReason SocketOwnership QueuedIsLive DatagramsInOrder
CHECK_DEADLOCK FALSE
