CONSTANTS
  Size = 3
  Byte = {65, 66}
  MaxTyped = 6
SPECIFICATION Spec
INVARIANTS RingInv TypeOK DeliveredInOrder SlotHeldWhileRead
PROPERTIES DropOnlyWhenFull EveryByteDelivered ImplementsFifo
CHECK_DEADLOCK FALSE
