-------------------------------- MODULE Rules --------------------------------
(***************************************************************************)
(* The scheduling rules of roster-worker: pure functions of one shift, the *)
(* other shifts of its worker and the worker's policy.                     *)
(*                                                                         *)
(* Time is counted in hours from a Monday midnight.  A timestamp is a wall *)
(* clock reading with an offset from UTC, or Naive when it carries none.   *)
(* The state is a roster that grows by one shift at a time, so that every  *)
(* rule is evaluated on every small roster.                                *)
(***************************************************************************)
EXTENDS Integers, FiniteSets, FiniteSetsExt

CONSTANTS
  Horizon,    \* shifts start at an hour in 0 .. Horizon
  MaxHours,   \* MAX_SHIFT_HOURS, at the scale of the instance
  Week,       \* hours in a week, at the scale of the instance
  Offsets,    \* UTC offsets clients write
  Naive,      \* no offset
  Policies,   \* the policies of the worker: max_weekly_hours, min_rest_hours
  MaxOthers   \* bound on the other shifts of the worker

ASSUME RulesAssumption ==
  /\ Horizon \in Nat /\ MaxHours \in Nat \ {0} /\ Week \in Nat \ {0}
  /\ Offsets \subseteq Int /\ Naive \notin Offsets
  /\ Policies \subseteq [max: Nat \ {0}, rest: Nat]
  /\ MaxOthers \in Nat

VARIABLES subject, others, policy

vars == <<subject, others, policy>>

Windows(id) ==
  [id: {id}, start: 0 .. Horizon, hours: 1 .. MaxHours, off: Offsets \cup {Naive}]
------------------------------------------------------------------------------
\* as_utc: a naive value is taken for UTC, an aware one is compared as it is.
StartOf(w) == w.start - (IF w.off = Naive THEN 0 ELSE w.off)

EndOf(w) == StartOf(w) + w.hours

\* Mutation of Overlaps: shifts that touch overlap.
OverlapsTouching(a, b) == StartOf(a) <= EndOf(b) /\ StartOf(b) <= EndOf(a)

Overlaps(a, b) == StartOf(a) < EndOf(b) /\ StartOf(b) < EndOf(a)

FindOverlaps(s, os) == {o \in os : o.id # s.id /\ Overlaps(s, o)}

\* Mutation of Gap: only the shift before the subject is looked at.
GapBefore(s, o) == StartOf(s) - EndOf(o)

Gap(s, o) ==
  IF EndOf(o) <= StartOf(s) THEN StartOf(s) - EndOf(o) ELSE StartOf(o) - EndOf(s)

\* Mutation of FindInsufficientRest: only the nearest shift is looked at.
NearestInsufficientRest(s, os, p) ==
  {o \in os : /\ p.rest > 0 /\ o.id # s.id /\ ~Overlaps(s, o) /\ Gap(s, o) < p.rest
              /\ \A n \in os : Gap(s, o) <= Gap(s, n)}

FindInsufficientRest(s, os, p) ==
  {o \in os : p.rest > 0 /\ o.id # s.id /\ ~Overlaps(s, o) /\ Gap(s, o) < p.rest}

\* Mutation of WeekStart: the week is floored in UTC.
UtcWeekStart(s) == StartOf(s) - (StartOf(s) % Week)

\* Monday midnight before the subject starts, on the subject's own clock.
WeekStart(s) == StartOf(s) - (s.start % Week)

\* Mutation of InWeek: the Monday after counts, too.
InLongWeek(s, o) == StartOf(o) \in WeekStart(s) .. WeekStart(s) + Week

InWeek(s, o) == WeekStart(s) <= StartOf(o) /\ StartOf(o) < WeekStart(s) + Week

\* A shift counts whole, in the week it starts in.
WeeklyHours(s, os) ==
  s.hours + MapThenSumSet(LAMBDA o : o.hours, {o \in os : o.id # s.id /\ InWeek(s, o)})

WeeklyHoursExceeded(s, os, p) == WeeklyHours(s, os) > p.max

\* evaluate: the kinds of finding, with the shift each is about.
Evaluate(s, os, p) ==
  {<<"overlap", o.id>> : o \in FindOverlaps(s, os)}
    \cup {<<"insufficient_rest", o.id>> : o \in FindInsufficientRest(s, os, p)}
    \cup {<<"weekly_hours_exceeded", s.id>> : x \in {y \in {s} : WeeklyHoursExceeded(y, os, p)}}

\* What a value written to the database is when it is read: DATETIME2 stores
\* the wall clock and no offset.
ReadBack(w) == [w EXCEPT !.off = Naive]
------------------------------------------------------------------------------
\* Type invariant: a subject, distinct other shifts and a policy.
TypeOK ==
  /\ subject \in Windows(0)
  /\ policy \in Policies
  /\ \A o \in others : o.id \in 1 .. MaxOthers /\ o \in Windows(o.id)
  /\ \A o \in others : Evaluate(subject, others, policy) \subseteq
       ({"overlap", "insufficient_rest"} \X (1 .. MaxOthers))
         \cup {<<"weekly_hours_exceeded", 0>>}

Init == subject \in Windows(0) /\ others = {} /\ policy \in Policies

\* The worker takes one more shift.
Assign(w) ==
  /\ Cardinality(others) < MaxOthers
  /\ others' = others \cup {w}
  /\ UNCHANGED <<subject, policy>>

Next == \E w \in Windows(Cardinality(others) + 1) : Assign(w)

Spec == Init /\ [][Next]_vars
------------------------------------------------------------------------------
HoursOf(w) == StartOf(w) .. EndOf(w) - 1

\* The overlap rule reports exactly the shifts that share an hour with the
\* subject.
OverlapIsSharedTime ==
  \A o \in others : o \in FindOverlaps(subject, others) <=> HoursOf(subject) \cap HoursOf(o) # {}

\* The rest rule reports exactly the shifts that share no hour with the subject
\* and would if the subject were longer by the minimum rest on either side.
RestIsWidenedOverlap ==
  \A o \in others :
    o \in FindInsufficientRest(subject, others, policy) <=>
      /\ HoursOf(subject) \cap HoursOf(o) = {}
      /\ (StartOf(subject) - policy.rest .. EndOf(subject) - 1 + policy.rest) \cap HoursOf(o) # {}

\* handle_event rescans the shift of the event and no other.  That is enough
\* only because a clash looks the same from both shifts: whichever of the two
\* is scanned last reports it.
ClashesAreMutual ==
  \A o \in others :
    LET rest == (others \ {o}) \cup {subject} IN
    /\ o \in FindOverlaps(subject, others) <=> subject \in FindOverlaps(o, rest)
    /\ o \in FindInsufficientRest(subject, others, policy)
         <=> subject \in FindInsufficientRest(o, rest, policy)
    /\ WeekStart(o) = WeekStart(subject) =>
         (WeeklyHoursExceeded(subject, others, policy) <=> WeeklyHoursExceeded(o, rest, policy))

\* Where no two shifts overlap and none runs past the end of the subject's
\* week, the weekly rule compares the hours really worked in that week.
WeeklyIsHoursWorked ==
  LET all == others \cup {subject}
      week == WeekStart(subject) .. WeekStart(subject) + Week - 1 IN
  (/\ \A o \in others : FindOverlaps(o, all) = {}
   /\ \A w \in all : HoursOf(w) \subseteq week \/ HoursOf(w) \cap week = {}) =>
     (WeeklyHoursExceeded(subject, others, policy)
        <=> Cardinality(UNION {HoursOf(w) \cap week : w \in all}) > policy.max)

\* Giving the worker another shift never makes a finding go away.
FindingsOnlyGrow ==
  [][Evaluate(subject, others, policy) \subseteq Evaluate(subject, others, policy)']_vars

\* as_utc takes the naive value the database returns for UTC, though the API
\* wrote the wall clock as it came.  As long as the shifts of a worker carry one
\* offset, lost or not, the verdicts are those of the instants that were meant.
OneOffsetKeepsVerdicts ==
  (\A o \in others : o.off = subject.off) =>
    Evaluate(ReadBack(subject), {ReadBack(o) : o \in others}, policy)
      = Evaluate(subject, others, policy)
==============================================================================
