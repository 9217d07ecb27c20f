SPECIFICATION MCSpec
CONSTANTS
  t1 = t1
  t2 = t2
  t3 = t3
  t4 = t4
  r1 = r1
  r2 = r2
  r3 = r3
  Trials = {t1, t2, t3, t4}
  RunIds = {r1, r2}
  RunOf <- Reused
  Maximum = 3
  Stop = 2
  Costs = {0, 1, 2}
  KeyLimit = 4
  MaxRequests = 2
  Absent = Absent
  Unpaid = {t4}
  NoTrial = NoTrial
INVARIANTS
  OnePaidTrialPerRun
  ReservationCovers
  AllocationHolds
  OutcomeStands
CHECK_DEADLOCK FALSE
