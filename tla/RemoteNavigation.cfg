SPECIFICATION Spec
CONSTANTS
  w1 = w1
  v1 = v1
  v2 = v2
  Contents = {w1}
  Views = {v1, v2}
  ContentsOf <- OneWindow
  Objects = {o1}
  Callbacks = {c1}
  NoView = NoView
  NoCallback = NoCallback
  LateMessages = FALSE
  Detaching = FALSE
  MaxStoreId = 1
  MaxQueue = 2
CHECK_DEADLOCK FALSE
INVARIANTS
  ProxyBacked
  DereferenceFound
  CallbackNeverLate
PROPERTIES
  NoPostForReleasedView
  ImplementsLifetime
