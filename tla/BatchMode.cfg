CONSTANTS
  Walks <- MCWalks
  MinFileSize = 1
  Workers = {w1, w2}
  Budget = 3
  SlotCap <- MCSlotCap
  Senders = {s1, s2}
  SlabRows = 2
  QueueCap = 1
  BatchRows = 2
SPECIFICATION BatchSpec
INVARIANTS OutputInOrder BudgetExact HeadIsServed ConfirmedAreThere NoRowTwice ExitIsTrue
PROPERTY Ends
CHECK_DEADLOCK FALSE
