\* Four shifts at three times, two to a page: any roster, any change, any tie,
\* and one claim committed after the cancellation of its shift.
CONSTANTS
  Shifts = {s1, s2, s3, s4}
  Times = {0, 1, 2}
  Limit = 2
  MaxRevivals = 1
SPECIFICATION Spec
SYMMETRY Symmetry
INVARIANTS MissedShiftHasACause RepeatedShiftHasACause OneHiddenForOneGone
