SPECIFICATION Spec
CONSTANTS
  Tasks = {play1}
  ChangeTasks = {}
  TheChange = c1
  Changes <- MCChanges
  ChangeOf <- MCChangeOf
  Workers = {w1, w2}
  NoTask = NoTask
  NoWorker = NoWorker
  MaxCopies = 1
  MaxFaults = 0
  MaxOutages = 1
PROPERTY OnlyAbandonedRequeued
