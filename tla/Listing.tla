------------------------------- MODULE Listing -------------------------------
(***************************************************************************)
(* list_shifts read page by page while the roster changes: a client asks   *)
(* for a filter, an offset and a limit, and advances the offset by the     *)
(* limit until a page is not full.                                         *)
(*                                                                         *)
(* Each page is one query over the committed rows, ordered by starts_at    *)
(* alone: rows that start at one time come in any order, and in another    *)
(* one on the next page.  site_id and starts_at never change, so whether a *)
(* shift passes the filter depends on its existence and its status.        *)
(***************************************************************************)
EXTENDS Naturals, FiniteSets, Sequences

CONSTANTS
  Shifts,
  Times,   \* starting times
  Limit,        \* rows of a page
  MaxRevivals   \* bound on the overtaken claims of one behaviour

ASSUME ListingAssumption ==
  IsFiniteSet(Shifts) /\ Times \subseteq Nat /\ Limit \in Nat \ {0} /\ MaxRevivals \in Nat

VARIABLES
  start,      \* starts_at of each shift
  status,     \* of each shift; no code sets the fourth ShiftStatus, confirmed
  filter,     \* the status asked for, or "any"
  walk,       \* the client has not begun, is reading pages, or has read the last
  offset,
  got,        \* how often each shift was on a page
  there,      \* history: shifts that passed the filter when the walk began
  come,       \* history: shifts that began to pass it during the walk
  gone,       \* history: each time one ceased to pass it, in order
  revived     \* overtaken claims so far

client == <<filter, walk, offset, got, there>>
vars == <<start, status, client, come, gone, revived>>

Statuses == {"absent", "open", "claimed", "cancelled"}

\* Type invariant of the roster and of the walk.
TypeOK ==
  /\ start \in [Shifts -> Times]
  /\ status \in [Shifts -> Statuses]
  /\ filter \in {"any", "open", "claimed", "cancelled"}
  /\ walk \in {"before", "reading", "done"}
  /\ offset \in Nat /\ got \in [Shifts -> Nat]
  /\ there \subseteq Shifts /\ come \subseteq Shifts /\ gone \in Seq(Shifts)
  /\ revived \in 0 .. MaxRevivals

Init ==
  /\ start \in [Shifts -> Times]
  /\ status \in [Shifts -> Statuses]
  /\ filter \in {"any", "open", "claimed", "cancelled"}
  /\ walk = "before" /\ offset = 0 /\ got = [s \in Shifts |-> 0]
  /\ there = {} /\ come = {} /\ gone = <<>> /\ revived = 0
-----------------------------------------------------------------------------
Passes(x) == x # "absent" /\ filter \in {"any", x}

Passing == {s \in Shifts : Passes(status[s])}

Before(A, B) == \A a \in A, b \in B : start[a] <= start[b]

AtMost(m, n) == IF m < n THEN m ELSE n

\* Mutation of IsPage: the query has no order.
IsPageUnordered(P) ==
  \E S \in SUBSET (Passing \ P) :
    /\ Cardinality(S) = AtMost(offset, Cardinality(Passing))
    /\ Cardinality(P) = AtMost(Limit, Cardinality(Passing) - Cardinality(S))

\* Mutation of IsPage: the offset is left out of the query.
IsPageFromTheStart(P) ==
  /\ Cardinality(P) = AtMost(Limit, Cardinality(Passing))
  /\ Before(P, Passing \ P)

\* P is what the query may answer: some `offset` rows are skipped, and P is the
\* next `Limit` of those that pass, or what there is.
IsPage(P) ==
  \E S \in SUBSET (Passing \ P) :
    /\ Cardinality(S) = AtMost(offset, Cardinality(Passing))
    /\ Cardinality(P) = AtMost(Limit, Cardinality(Passing) - Cardinality(S))
    /\ Before(S, Passing \ S) /\ Before(P, Passing \ (S \cup P))

\* The client asks for the first page.
Begin ==
  /\ walk = "before" /\ walk' = "reading"
  /\ there' = Passing
  /\ UNCHANGED <<start, status, filter, offset, got, come, gone, revived>>

\* GET /shifts?offset=...: the client counts what it gets, and goes on as long
\* as pages are full.
ReadPage ==
  /\ walk = "reading"
  /\ \E P \in SUBSET Passing :
       /\ IsPage(P)
       /\ got' = [s \in Shifts |-> IF s \in P THEN got[s] + 1 ELSE got[s]]
       /\ walk' = IF Cardinality(P) < Limit THEN "done" ELSE "reading"
       /\ offset' = offset + Limit
  /\ UNCHANGED <<start, status, filter, there, come, gone, revived>>

\* A create, a claim or a cancellation is committed.  A claim that read the row
\* while it was open may be committed after the cancellation of the shift.
Write(s) ==
  \E new \in Statuses :
    LET before == Passes(status[s])
        after == Passes(new) IN
    /\ walk # "done"
    /\ \/ /\ <<status[s], new>> \in {<<"absent", "open">>, <<"open", "claimed">>,
                                   <<"open", "cancelled">>, <<"claimed", "cancelled">>}
          /\ UNCHANGED revived
       \/ /\ status[s] = "cancelled" /\ new = "claimed" /\ revived < MaxRevivals
          /\ revived' = revived + 1
    /\ status' = [status EXCEPT ![s] = new]
    /\ come' = IF walk = "reading" /\ ~before /\ after THEN come \cup {s} ELSE come
    /\ gone' = IF walk = "reading" /\ before /\ ~after THEN Append(gone, s) ELSE gone
    /\ UNCHANGED <<start, client>>

\* The walk is over; what happens later is no concern of it.
Over == walk = "done" /\ UNCHANGED vars

Next == Begin \/ ReadPage \/ Over \/ \E s \in Shifts : Write(s)

Spec == Init /\ [][Next]_vars
-----------------------------------------------------------------------------
Left == {gone[i] : i \in 1 .. Len(gone)}

\* Shifts that passed the filter from the beginning to the end.
Stayed == there \ Left

Missed == {s \in Stayed : got[s] = 0}

\* Another shift that passed at some time of the walk starts when s does.
Tied(s) == \E t \in (there \cup come) \ {s} : start[t] = start[s]

\* A shift that passed all the time is missing from every page only if one that
\* starts earlier left during the walk, or if it shares its start with another.
MissedShiftHasACause ==
  walk = "done" => \A s \in Missed : Tied(s) \/ \E t \in Left : start[t] < start[s]

\* A shift is on two pages only if one that starts earlier appeared during the
\* walk, or if it shares its start with another.
RepeatedShiftHasACause ==
  \A s \in Shifts : got[s] > 1 => Tied(s) \/ \E t \in come : start[t] < start[s]

\* Where no two shifts start together, each time one leaves during the walk hides
\* at most one other.  A shift that an overtaken claim brings back may leave again
\* and hide a second: departures count, not the shifts that are gone.
OneHiddenForOneGone ==
  walk = "done" /\ (\A s \in there \cup come : ~Tied(s)) =>
    Cardinality(Missed) <= Len(gone)
=============================================================================
