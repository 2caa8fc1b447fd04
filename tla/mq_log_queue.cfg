SPECIFICATION Spec
CONSTANTS
  None = None
  QueueSize = 2
  Senders = {irrigation_task}
  Receiver = logger_task
  Messages = {1, 2, 3}
  MaxMessages = 3
INVARIANT CrossesUncorrupted
