SPECIFICATION Spec
CONSTANTS
  SeqMod = 4
  QUEUE_FILL_LEVEL = 2
  MaxFrames = 6
  MaxTimeouts = 2
  MaxReceived = 3
  MaxAnswers = 3
  MaxBoots = 1
INVARIANTS
  TypeOK
  FallsOnlyWhenMisordered
  EveryFrameCounted
  QueueBounded
  ReportsDamage
  ReportsReboots
