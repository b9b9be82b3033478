SPECIFICATION Spec
CONSTANTS
  Task = {t1, t2}
  Version = {v1, v2}
  None = None
  Unread = Unread
  Fault = {"open", "write", "close", "remove", "mount"}
  MaxHeap = 4
PROPERTIES
  FormatsOnlyBlankFlash
