SPECIFICATION Spec
CONSTANTS
  Events <- SomeEvents
  Nil = Nil
  MaxLen = 7
INVARIANTS HeapOrder
PROPERTIES KeepsPromise
