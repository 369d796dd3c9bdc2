\* Every roster of a subject and at most two other shifts.
CONSTANTS
  Horizon = 8
  MaxHours = 3
  Week = 6
  Offsets <- OneOffset
  Naive = Naive
  Policies <- SmallPolicies
  MaxOthers = 2
SPECIFICATION Spec
INVARIANTS OneOffsetKeepsVerdicts OverlapIsSharedTime RestIsWidenedOverlap ClashesAreMutual WeeklyIsHoursWorked
PROPERTIES FindingsOnlyGrow
CHECK_DEADLOCK FALSE
