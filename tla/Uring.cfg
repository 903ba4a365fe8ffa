CONSTANTS
  API_MAX_REQUEST_SIZE = 9
  Slots = {s1, s2}
  NoSlot = NoSlot
  Tickets = {t1}
  Buffers = 1
  URING_RECV_BUFFER_SIZE = 2
  AMMSERVER_API_MAX_BATCH = 1
  TagWidth = 4
  Scripts <- Clients
  Outcomes = {"answer", "defer"}
SYMMETRY Symmetry
SPECIFICATION Spec
CHECK_DEADLOCK FALSE
INVARIANTS
  AnswersInOrder
  QueuesIntact
  NoRequestForgotten
  NothingLeaks
