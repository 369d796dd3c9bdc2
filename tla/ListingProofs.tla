---------------------------- MODULE ListingProofs ----------------------------
(***************************************************************************)
(* Why a walk through the pages of list_shifts misses or repeats a shift:  *)
(* for any number of shifts and any size of page.                          *)
(*                                                                         *)
(* The argument: the place of a shift in the order is the number of those  *)
(* that pass the filter and start earlier.  As long as none of them left,  *)
(* a shift not yet read has at least `offset` before it; as long as none   *)
(* was added, a shift already read has fewer.  A shift is lost when the    *)
(* walk is past its place and has not read it; the last part counts, for   *)
(* each one lost, those lost before it against the departures before it: a *)
(* shift that comes back and leaves again is counted twice.                *)
(***************************************************************************)
EXTENDS Listing, FiniteSetTheorems, WellFoundedInduction, TLAPS

Earlier(s) == {t \in Passing : start[t] < start[s]}

\* What may hide s from the client, and show it twice.
Hidden(s) == Tied(s) \/ \E t \in Left : start[t] < start[s]
Pushed(s) == Tied(s) \/ \E t \in come : start[t] < start[s]

\* The histories tell who passes the filter.
HistoriesAreTrue ==
  /\ walk = "before" =>
       /\ there = {} /\ come = {} /\ gone = <<>> /\ offset = 0
       /\ got = [s \in Shifts |-> 0]
  /\ walk # "before" => Passing \subseteq there \cup come /\ Stayed \subseteq Passing

\* A shift that nothing hides is still to be read.
UnreadAreAhead ==
  \A s \in Missed : ~Hidden(s) => walk = "reading" /\ offset <= Cardinality(Earlier(s))

\* A shift that nothing pushed on has been read once, and the walk is past it.
ReadAreBehind ==
  \A s \in Shifts : got[s] > 0 /\ ~Pushed(s) =>
    got[s] = 1 /\ (walk = "reading" => Cardinality(Earlier(s)) < offset)

IInv == TypeOK /\ HistoriesAreTrue /\ UnreadAreAhead /\ ReadAreBehind

\* Sets of shifts are finite, and a part of one has no more members than it.
LEMMA PartsAreSmaller ==
  ASSUME NEW A \in SUBSET Shifts, NEW B \in SUBSET A
  PROVE  /\ Cardinality(A) \in Nat /\ Cardinality(B) \in Nat
         /\ Cardinality(B) <= Cardinality(A)
         /\ Cardinality(A) = Cardinality(B) => A = B
<1>1. IsFiniteSet(Shifts)
  BY ListingAssumption
<1>2. IsFiniteSet(A)
  BY <1>1, FS_Subset
<1>3. IsFiniteSet(B) /\ Cardinality(B) <= Cardinality(A) /\ (Cardinality(A) = Cardinality(B) => A = B)
  BY <1>2, FS_Subset
<1> QED BY <1>2, <1>3, FS_CardinalityType

\* Two disjoint sets of shifts have together as many members as both.
LEMMA PartsAddUp ==
  ASSUME NEW A \in SUBSET Shifts, NEW B \in SUBSET Shifts, A \cap B = {}
  PROVE  Cardinality(A \cup B) = Cardinality(A) + Cardinality(B)
<1>1. IsFiniteSet(A) /\ IsFiniteSet(B)
  BY ListingAssumption, FS_Subset
<1>2. Cardinality(A \cup B) = Cardinality(A) + Cardinality(B) - Cardinality(A \cap B)
  BY <1>1, FS_Union
<1>3. Cardinality(A \cap B) = 0
  BY FS_EmptySet
<1>4. Cardinality(A) \in Nat /\ Cardinality(B) \in Nat
  BY <1>1, FS_CardinalityType
<1> QED BY <1>2, <1>3, <1>4

\* What a page tells of a shift whose start no other shares: if it is missing
\* though the client was not past it, the page is full and lies before it; if it
\* is on the page, the client was not past it and is now.
LEMMA PageTells ==
  ASSUME TypeOK, NEW P \in SUBSET Passing, IsPage(P), NEW s \in Passing,
         \A t \in Passing \ {s} : start[t] # start[s]
  PROVE  /\ s \notin P /\ offset <= Cardinality(Earlier(s)) =>
              Cardinality(P) = Limit /\ offset + Limit <= Cardinality(Earlier(s))
         /\ s \in P =>
              offset <= Cardinality(Earlier(s)) /\ Cardinality(Earlier(s)) < offset + Limit
<1> DEFINE M == Passing
           E == Earlier(s)
<1>0. M \subseteq Shifts /\ E \subseteq M /\ start \in [Shifts -> Nat] /\ offset \in Nat /\ Limit \in Nat \ {0}
  BY ListingAssumption DEF TypeOK, Passing, Earlier
<1>1. PICK S \in SUBSET (M \ P) :
         /\ Cardinality(S) = AtMost(offset, Cardinality(M))
         /\ Cardinality(P) = AtMost(Limit, Cardinality(M) - Cardinality(S))
         /\ Before(S, M \ S) /\ Before(P, M \ (S \cup P))
  BY DEF IsPage
<1>2. /\ Cardinality(M) \in Nat /\ Cardinality(S) \in Nat /\ Cardinality(P) \in Nat
      /\ Cardinality(E) \in Nat /\ Cardinality(S) <= Cardinality(M)
      /\ Cardinality(M) = Cardinality(S) => M = S
  BY <1>0, <1>1, PartsAreSmaller
<1>3. Cardinality(S \cup P) = Cardinality(S) + Cardinality(P)
  BY <1>0, <1>1, PartsAddUp
<1>4. \A t \in M \ {s} : start[t] < start[s] \/ start[s] < start[t]
  BY <1>0
<1>5. ASSUME s \notin P, offset <= Cardinality(E)
      PROVE  Cardinality(P) = Limit /\ offset + Limit <= Cardinality(E)
  <2>1. s \notin S
    <3>1. SUFFICES ASSUME s \in S PROVE FALSE
      OBVIOUS
    <3>2. E \subseteq S \ {s}
      BY <1>0, <1>1, <3>1 DEF Before, Earlier
    <3>3. Cardinality(E) <= Cardinality(S) /\ (Cardinality(S) = Cardinality(E) => S = E)
      BY <1>0, <1>1, <3>2, PartsAreSmaller
    <3>4. Cardinality(S) <= offset
      BY <1>0, <1>1, <1>2 DEF AtMost
    <3>5. S = E
      BY <1>0, <1>2, <1>5, <3>3, <3>4
    <3> QED BY <3>1, <3>2, <3>5
  <2>2. S \cup P # M /\ S # M
    BY <1>5, <2>1
  <2>3. Cardinality(S \cup P) # Cardinality(M)
    BY <1>0, <1>1, <2>2, PartsAreSmaller
  <2>4. Cardinality(S) = offset /\ Cardinality(P) = Limit
    BY <1>0, <1>1, <1>2, <1>3, <2>2, <2>3 DEF AtMost
  <2>5. S \cup P \subseteq E
    BY <1>0, <1>1, <1>4, <1>5, <2>1 DEF Before, Earlier
  <2>6. Cardinality(S \cup P) <= Cardinality(E)
    BY <1>0, <2>5, PartsAreSmaller
  <2> QED BY <1>3, <2>4, <2>6
<1>6. ASSUME s \in P
      PROVE  offset <= Cardinality(E) /\ Cardinality(E) < offset + Limit
  <2>1. S \subseteq E
    BY <1>0, <1>1, <1>4, <1>6 DEF Before, Earlier
  <2>2. E \subseteq (S \cup P) \ {s}
    BY <1>0, <1>1, <1>6 DEF Before, Earlier
  <2>3. S # M
    BY <1>1, <1>6
  <2>4. Cardinality(S) = offset /\ Cardinality(P) <= Limit
    BY <1>0, <1>1, <1>2, <2>3 DEF AtMost
  <2>5. offset <= Cardinality(E)
    BY <1>0, <2>1, <2>4, PartsAreSmaller
  <2>6. Cardinality(E) <= Cardinality(S \cup P) /\ (Cardinality(S \cup P) = Cardinality(E) => S \cup P = E)
    BY <1>0, <1>1, <2>2, PartsAreSmaller
  <2>7. S \cup P # E
    BY <1>6, <2>2
  <2> QED BY <1>0, <1>2, <1>3, <2>4, <2>5, <2>6, <2>7
<1> QED BY <1>5, <1>6
-----------------------------------------------------------------------------
\* What a commit does to the histories.
LEMMA WriteTells ==
  ASSUME TypeOK, NEW x \in Shifts, Write(x)
  PROVE  \E new \in Statuses :
           /\ walk # "done" /\ status[x] # new /\ status' = [status EXCEPT ![x] = new]
           /\ come' = IF walk = "reading" /\ ~Passes(status[x]) /\ Passes(new) THEN come \cup {x} ELSE come
           /\ gone' = IF walk = "reading" /\ Passes(status[x]) /\ ~Passes(new) THEN Append(gone, x) ELSE gone
           /\ Left' = IF walk = "reading" /\ Passes(status[x]) /\ ~Passes(new) THEN Left \cup {x} ELSE Left
           /\ gone' \in Seq(Shifts) /\ revived' \in 0 .. MaxRevivals
           /\ UNCHANGED <<start, client>>
<1>1. PICK new \in Statuses :
        /\ walk # "done" /\ status[x] # new /\ status' = [status EXCEPT ![x] = new]
        /\ come' = IF walk = "reading" /\ ~Passes(status[x]) /\ Passes(new) THEN come \cup {x} ELSE come
        /\ gone' = IF walk = "reading" /\ Passes(status[x]) /\ ~Passes(new) THEN Append(gone, x) ELSE gone
        /\ UNCHANGED <<start, client>>
  BY DEF Write
<1>2. revived' \in 0 .. MaxRevivals
  BY ListingAssumption DEF Write, TypeOK
<1>3. gone \in Seq(Shifts) /\ Len(gone) \in Nat
  BY DEF TypeOK
<1>4. CASE walk = "reading" /\ Passes(status[x]) /\ ~Passes(new)
  <2>0. gone' = Append(gone, x)
    BY <1>1, <1>4
  <2>1. /\ gone' \in Seq(Shifts) /\ Len(gone') = Len(gone) + 1 /\ gone'[Len(gone) + 1] = x
        /\ \A i \in 1 .. Len(gone) : gone'[i] = gone[i]
    BY <1>3, <2>0
  <2>2. Left' = Left \cup {x}
    BY <1>3, <2>1 DEF Left
  <2> QED BY <1>1, <1>2, <1>4, <2>1, <2>2
<1>5. CASE ~(walk = "reading" /\ Passes(status[x]) /\ ~Passes(new))
  <2>1. gone' = gone /\ Left' = Left
    BY <1>1, <1>5 DEF Left
  <2> QED BY <1>1, <1>2, <1>3, <1>5, <2>1
<1> QED BY <1>4, <1>5

\* Before the walk nothing has been read.
LEMMA InitEstablishes == Init => IInv
  BY ListingAssumption DEF Init, IInv, TypeOK, Statuses, HistoriesAreTrue, UnreadAreAhead, ReadAreBehind, Missed, Stayed

\* Every step keeps the types and the histories.
LEMMA StepKeepsHistories == TypeOK /\ HistoriesAreTrue /\ [Next]_vars => TypeOK' /\ HistoriesAreTrue'
<1> SUFFICES ASSUME TypeOK, HistoriesAreTrue, [Next]_vars PROVE TypeOK' /\ HistoriesAreTrue'
  OBVIOUS
<1> USE ListingAssumption DEF TypeOK, HistoriesAreTrue, Passing, Passes, Stayed, client
<1>1. CASE Begin
  BY <1>1 DEF Begin
<1>2. CASE ReadPage
  <2>1. PICK P \in SUBSET Passing :
          /\ got' = [s \in Shifts |-> IF s \in P THEN got[s] + 1 ELSE got[s]]
          /\ walk' = IF Cardinality(P) < Limit THEN "done" ELSE "reading"
    BY <1>2 DEF ReadPage
  <2>2. walk = "reading" /\ offset' = offset + Limit /\ UNCHANGED <<start, status, filter, there, come, gone, revived>>
    BY <1>2 DEF ReadPage
  <2>3. got' \in [Shifts -> Nat]
    BY <2>1
  <2>4. walk' \in {"reading", "done"}
    BY <2>1
  <2>5. Left' = Left
    BY <2>2 DEF Left
  <2> QED BY <2>2, <2>3, <2>4, <2>5
<1>3. ASSUME NEW s \in Shifts, Write(s) PROVE TypeOK' /\ HistoriesAreTrue'
  <2>1. PICK new \in Statuses :
          /\ walk # "done" /\ status[s] # new
          /\ status' = [status EXCEPT ![s] = new]
          /\ come' = IF walk = "reading" /\ ~Passes(status[s]) /\ Passes(new) THEN come \cup {s} ELSE come
          /\ gone' = IF walk = "reading" /\ Passes(status[s]) /\ ~Passes(new) THEN Append(gone, s) ELSE gone
          /\ Left' = IF walk = "reading" /\ Passes(status[s]) /\ ~Passes(new) THEN Left \cup {s} ELSE Left
          /\ gone' \in Seq(Shifts) /\ revived' \in 0 .. MaxRevivals
          /\ UNCHANGED <<start, client>>
    BY <1>3, WriteTells
  <2>2. TypeOK'
    BY <2>1
  <2>3. CASE walk = "before"
    BY <2>1, <2>3
  <2>4. CASE walk = "reading"
    <3>1. /\ walk' = "reading" /\ there' = there /\ filter' = filter
          /\ \A t \in Shifts : status'[t] = IF t = s THEN new ELSE status[t]
      BY <2>1, <2>4
    <3>2. (Passing \subseteq there \cup come)'
      BY <2>1, <2>4, <3>1
    <3>3. (Stayed \subseteq Passing)'
      BY <2>1, <2>4, <3>1
    <3> QED BY <2>2, <3>1, <3>2, <3>3
  <2> QED BY <2>1, <2>2, <2>3, <2>4
<1>4. CASE Over \/ UNCHANGED vars
  BY <1>4 DEF Over, vars, Left
<1> QED BY <1>1, <1>2, <1>3, <1>4 DEF Next

\* A commit moves nothing before a shift that is not thereby hidden or pushed on.
LEMMA WriteKeepsPlaces ==
  ASSUME IInv, NEW x \in Shifts, Write(x), TypeOK', HistoriesAreTrue'
  PROVE  UnreadAreAhead' /\ ReadAreBehind'
<1> USE ListingAssumption DEF IInv, TypeOK, client
<1>0. PICK new \in Statuses :
        /\ walk # "done" /\ status' = [status EXCEPT ![x] = new]
        /\ come' = IF walk = "reading" /\ ~Passes(status[x]) /\ Passes(new) THEN come \cup {x} ELSE come
        /\ Left' = IF walk = "reading" /\ Passes(status[x]) /\ ~Passes(new) THEN Left \cup {x} ELSE Left
        /\ UNCHANGED <<start, client>>
  BY WriteTells
<1>1. /\ walk # "done" /\ UNCHANGED <<start, client>>
      /\ come \subseteq come' /\ Left \subseteq Left'
      /\ \A t \in Shifts \ {x} : status'[t] = status[t]
  BY <1>0
<1>2. \A s \in Shifts : (Hidden(s) => Hidden(s)') /\ (Pushed(s) => Pushed(s)')
  BY <1>1 DEF Hidden, Pushed, Tied
<1>3. ASSUME walk = "reading" PROVE \A t \in Shifts :
        /\ t \in Passing /\ t \notin Passing' => t \in Left'
        /\ t \notin Passing /\ t \in Passing' => t \in come'
  BY <1>0, <1>3 DEF Passing, Passes
<1>4. ASSUME NEW s \in Missed', ~Hidden(s)'
      PROVE  walk' = "reading" /\ offset' <= Cardinality(Earlier(s)')
  <2>1. s \in Missed /\ ~Hidden(s)
    BY <1>1, <1>2, <1>4 DEF Missed, Stayed
  <2>2. walk = "reading" /\ offset <= Cardinality(Earlier(s))
    BY <2>1 DEF UnreadAreAhead
  <2>3. Earlier(s) \subseteq Earlier(s)'
    BY <1>1, <1>3, <1>4, <2>2 DEF Earlier, Hidden, Passing
  <2>4. Earlier(s)' \in SUBSET Shifts
    BY DEF Earlier, Passing
  <2>5. /\ Cardinality(Earlier(s)') \in Nat /\ Cardinality(Earlier(s)) \in Nat
        /\ Cardinality(Earlier(s)) <= Cardinality(Earlier(s)')
    BY <2>3, <2>4, PartsAreSmaller
  <2> QED BY <1>1, <2>2, <2>5
<1>5. ASSUME NEW s \in Shifts, got'[s] > 0, ~Pushed(s)'
      PROVE  got'[s] = 1 /\ (walk' = "reading" => Cardinality(Earlier(s)') < offset')
  <2>1. got[s] > 0 /\ ~Pushed(s)
    BY <1>1, <1>2, <1>5
  <2>2. got[s] = 1 /\ walk = "reading" /\ Cardinality(Earlier(s)) < offset
    BY <1>1, <2>1 DEF ReadAreBehind, HistoriesAreTrue
  <2>3. Earlier(s)' \subseteq Earlier(s)
    BY <1>1, <1>3, <1>5, <2>2 DEF Earlier, Pushed, Passing
  <2>4. Earlier(s) \in SUBSET Shifts
    BY DEF Earlier, Passing
  <2>5. /\ Cardinality(Earlier(s)') \in Nat /\ Cardinality(Earlier(s)) \in Nat
        /\ Cardinality(Earlier(s)') <= Cardinality(Earlier(s))
    BY <2>3, <2>4, PartsAreSmaller
  <2> QED BY <1>1, <2>2, <2>5
<1> QED BY <1>4, <1>5 DEF UnreadAreAhead, ReadAreBehind

\* A page brings every shift it ought to, and none the walk is past.
LEMMA PageKeepsPlaces ==
  ASSUME IInv, ReadPage
  PROVE  UnreadAreAhead' /\ ReadAreBehind'
<1> USE ListingAssumption DEF IInv, TypeOK
<1>1. /\ walk = "reading" /\ offset' = offset + Limit
      /\ UNCHANGED <<start, status, filter, there, come, gone>>
  BY DEF ReadPage
<1>2. PICK P \in SUBSET Passing :
        /\ IsPage(P)
        /\ got' = [s \in Shifts |-> IF s \in P THEN got[s] + 1 ELSE got[s]]
        /\ walk' = IF Cardinality(P) < Limit THEN "done" ELSE "reading"
  BY DEF ReadPage
<1>3. \A s \in Shifts : Earlier(s)' = Earlier(s) /\ (Hidden(s)' <=> Hidden(s)) /\ (Pushed(s)' <=> Pushed(s))
  BY <1>1 DEF Earlier, Passing, Passes, Hidden, Pushed, Tied, Left
<1>4. ASSUME NEW s \in Passing, ~Tied(s)
      PROVE  /\ s \notin P /\ offset <= Cardinality(Earlier(s)) =>
                   Cardinality(P) = Limit /\ offset + Limit <= Cardinality(Earlier(s))
             /\ s \in P =>
                   offset <= Cardinality(Earlier(s)) /\ Cardinality(Earlier(s)) < offset + Limit
  <2>1. \A t \in Passing \ {s} : start[t] # start[s]
    BY <1>1, <1>4 DEF Tied, HistoriesAreTrue
  <2> QED BY <1>2, <2>1, PageTells
<1>5. ASSUME NEW s \in Missed', ~Hidden(s)'
      PROVE  walk' = "reading" /\ offset' <= Cardinality(Earlier(s)')
  <2>1. s \in Shifts /\ s \in Missed /\ s \notin P
    BY <1>1, <1>2, <1>5 DEF Missed, Stayed, Left
  <2>2. s \in Passing /\ ~Tied(s) /\ offset <= Cardinality(Earlier(s))
    BY <1>1, <1>3, <1>5, <2>1 DEF UnreadAreAhead, HistoriesAreTrue, Hidden, Missed
  <2>3. Cardinality(P) = Limit /\ offset + Limit <= Cardinality(Earlier(s))
    BY <1>4, <2>1, <2>2
  <2> QED BY <1>1, <1>2, <1>3, <2>1, <2>3
<1>6. ASSUME NEW s \in Shifts, got'[s] > 0, ~Pushed(s)'
      PROVE  got'[s] = 1 /\ (walk' = "reading" => Cardinality(Earlier(s)') < offset')
  <2>1. ~Pushed(s) /\ ~Tied(s) /\ Earlier(s)' = Earlier(s)
    BY <1>3, <1>6 DEF Pushed
  <2>2. Cardinality(Earlier(s)) \in Nat
    BY PartsAreSmaller DEF Earlier, Passing
  <2>3. CASE s \in P
    <3>1. offset <= Cardinality(Earlier(s)) /\ Cardinality(Earlier(s)) < offset + Limit
      BY <1>4, <2>1, <2>3
    <3>2. ~(got[s] > 0)
      BY <1>1, <2>1, <2>2, <3>1 DEF ReadAreBehind
    <3> QED BY <1>1, <1>2, <2>1, <2>3, <3>1, <3>2
  <2>4. CASE s \notin P
    <3>1. got'[s] = got[s]
      BY <1>2, <2>4
    <3>2. got[s] = 1 /\ Cardinality(Earlier(s)) < offset
      BY <1>1, <1>6, <2>1, <3>1 DEF ReadAreBehind
    <3> QED BY <1>1, <2>1, <2>2, <3>1, <3>2
  <2> QED BY <2>3, <2>4
<1> QED BY <1>5, <1>6 DEF UnreadAreAhead, ReadAreBehind

\* The strengthening is inductive.
LEMMA StepKeepsIInv == IInv /\ [Next]_vars => IInv'
<1> SUFFICES ASSUME IInv, [Next]_vars PROVE IInv'
  OBVIOUS
<1>0. TypeOK' /\ HistoriesAreTrue'
  BY StepKeepsHistories DEF IInv
<1>1. CASE Begin
  <2>1. /\ walk' = "reading" /\ offset' = 0 /\ got' = [s \in Shifts |-> 0]
    BY <1>1 DEF Begin, IInv, HistoriesAreTrue
  <2>2. \A s \in Shifts : Cardinality(Earlier(s)') \in Nat
    BY PartsAreSmaller DEF Earlier, Passing
  <2>3. UnreadAreAhead'
    BY <1>0, <2>1, <2>2 DEF UnreadAreAhead, Missed, Stayed, TypeOK
  <2>4. ReadAreBehind'
    BY <2>1 DEF ReadAreBehind
  <2> QED BY <1>0, <2>3, <2>4 DEF IInv
<1>2. CASE ReadPage
  BY <1>0, <1>2, PageKeepsPlaces DEF IInv
<1>3. ASSUME NEW s \in Shifts, Write(s) PROVE IInv'
  BY <1>0, <1>3, WriteKeepsPlaces DEF IInv
<1>4. CASE Over \/ UNCHANGED vars
  <2>1. UNCHANGED vars
    BY <1>4 DEF Over
  <2> QED
    BY <1>0, <2>1 DEF vars, client, IInv, UnreadAreAhead, ReadAreBehind, Missed, Stayed, Hidden, Pushed,
       Left, Tied, Earlier, Passing, Passes
<1> QED BY <1>1, <1>2, <1>3, <1>4 DEF Next
-----------------------------------------------------------------------------
\* A page of list_shifts that misses a shift, though it passed the filter all the
\* time, misses it because of one that left before it or starts with it.
THEOREM MissesAreExplained == Spec => []MissedShiftHasACause
<1>1. IInv => MissedShiftHasACause
  BY DEF IInv, UnreadAreAhead, Hidden, MissedShiftHasACause
<1> QED BY InitEstablishes, StepKeepsIInv, <1>1, PTL DEF Spec

\* A shift read twice was pushed on by one added before it, or starts with one.
THEOREM RepeatsAreExplained == Spec => []RepeatedShiftHasACause
<1>1. IInv => RepeatedShiftHasACause
  BY DEF IInv, TypeOK, ReadAreBehind, Pushed, RepeatedShiftHasACause
<1> QED BY InitEstablishes, StepKeepsIInv, <1>1, PTL DEF Spec
-----------------------------------------------------------------------------
NoTies == \A s \in there \cup come : ~Tied(s)

\* The departures of shifts that start before s.
GoneBefore(s) == {i \in 1 .. Len(gone) : start[gone[i]] < start[s]}

\* Shifts the walk has passed without reading them.
Lost == {s \in Missed : Cardinality(Earlier(s)) < offset}

\* Of the shifts lost so far, each has at least as many gone before it as there
\* are lost up to it; at the end of the walk what is missing is lost.
LostAreCovered ==
  NoTies =>
    /\ \A s \in Lost : Cardinality(Missed \cap Earlier(s)) < Cardinality(GoneBefore(s))
    /\ walk = "done" => Missed \subseteq Lost

CInv == IInv /\ LostAreCovered

\* Departures are finitely many, and those before a shift no more than all.
LEMMA DeparturesCount ==
  ASSUME TypeOK, NEW s
  PROVE  /\ IsFiniteSet(GoneBefore(s)) /\ Cardinality(GoneBefore(s)) \in Nat
         /\ Cardinality(GoneBefore(s)) <= Len(gone) /\ Len(gone) \in Nat
<1>1. Len(gone) \in Nat
  BY DEF TypeOK
<1>2. IsFiniteSet(1 .. Len(gone)) /\ Cardinality(1 .. Len(gone)) = Len(gone)
  BY <1>1, FS_Interval
<1>3. GoneBefore(s) \in SUBSET (1 .. Len(gone))
  BY DEF GoneBefore
<1> QED BY <1>1, <1>2, <1>3, FS_Subset, FS_CardinalityType

\* A nonempty set of naturals has a least element.
LEMMA Least ==
  ASSUME NEW N \in SUBSET Nat, N # {}
  PROVE  \E m \in N : \A n \in N : m <= n
<1> DEFINE R == {ss \in Nat \X Nat : ss[1] < ss[2]}
<1>1. IsWellFoundedOn(R, Nat)
  BY NatLessThanWellFounded DEF OpToRel
<1> HIDE DEF R
<1>2. PICK x \in N : \A y \in N : ~(<<y, x>> \in R)
  BY <1>1, WFMin
<1>3. \A y \in N : ~(y < x)
  BY <1>2 DEF R
<1> QED BY <1>3

\* Among some shifts there is one that starts last.
LEMMA LatestOf ==
  ASSUME TypeOK, NEW S \in SUBSET Shifts, S # {}
  PROVE  \E v \in S : \A w \in S : start[w] <= start[v]
<1> DEFINE Later(v) == {w \in S : start[v] < start[w]}
           N == {Cardinality(Later(v)) : v \in S}
<1>1. \A v \in S : start[v] \in Nat
  BY ListingAssumption DEF TypeOK
<1>2. \A v \in S : Cardinality(Later(v)) \in Nat
  BY PartsAreSmaller
<1>3. PICK v \in S : \A w \in S : Cardinality(Later(v)) <= Cardinality(Later(w))
  <2>1. N \in SUBSET Nat /\ N # {}
    BY <1>2
  <2> HIDE DEF Later
  <2>2. PICK m \in N : \A n \in N : m <= n
    <3> HIDE DEF N
    <3> QED BY <2>1, Least
  <2> QED BY <2>2
<1>4. Later(v) = {}
  <2> SUFFICES ASSUME NEW w \in Later(v) PROVE FALSE
    OBVIOUS
  <2>1. Later(w) \in SUBSET Later(v) /\ Later(w) # Later(v) /\ Later(v) \in SUBSET Shifts
    BY <1>1
  <2>2. Cardinality(Later(w)) < Cardinality(Later(v))
    <3> HIDE DEF Later
    <3>1. /\ Cardinality(Later(v)) \in Nat /\ Cardinality(Later(w)) \in Nat
          /\ Cardinality(Later(w)) <= Cardinality(Later(v))
          /\ Cardinality(Later(v)) # Cardinality(Later(w))
      BY <2>1, PartsAreSmaller
    <3> QED BY <3>1
  <2> QED BY <1>2, <1>3, <2>2
<1> QED BY <1>1, <1>4

\* The shifts of a set that has a latest one: the others come before it.
LEMMA LatestCounts ==
  ASSUME TypeOK, NEW S \in SUBSET Shifts, NEW v \in S, NEW B \in SUBSET Shifts, S \ {v} \subseteq B
  PROVE  Cardinality(S) <= Cardinality(B) + 1 /\ Cardinality(S) \in Nat /\ Cardinality(B) \in Nat
<1>1. IsFiniteSet(S) /\ IsFiniteSet(B) /\ Cardinality(S) \in Nat
  BY ListingAssumption, FS_Subset, FS_CardinalityType
<1>2. Cardinality(S \ {v}) = Cardinality(S) - 1
  BY <1>1, FS_RemoveElement
<1>3. Cardinality(S \ {v}) <= Cardinality(B) /\ Cardinality(B) \in Nat
  BY PartsAreSmaller
<1> QED BY <1>1, <1>2, <1>3

\* What stayed and was not read still passes, as long as the walk goes on.
LEMMA MissedPass ==
  ASSUME TypeOK, HistoriesAreTrue, walk # "done"
  PROVE  Missed \subseteq Passing /\ (Missed # {} => walk = "reading")
BY DEF TypeOK, HistoriesAreTrue, Missed, Stayed

\* A shift lost because one before it left was the next to be read, and what is
\* lost before it was covered already.
LEMMA WriteKeepsCover ==
  ASSUME CInv, NEW x \in Shifts, Write(x), TypeOK', HistoriesAreTrue'
  PROVE  LostAreCovered'
<1>0. IInv /\ TypeOK /\ HistoriesAreTrue /\ LostAreCovered
  BY DEF CInv, IInv
<1>12. PICK new \in Statuses :
        /\ walk # "done" /\ status' = [status EXCEPT ![x] = new]
        /\ come' = IF walk = "reading" /\ ~Passes(status[x]) /\ Passes(new) THEN come \cup {x} ELSE come
        /\ gone' = IF walk = "reading" /\ Passes(status[x]) /\ ~Passes(new) THEN Append(gone, x) ELSE gone
        /\ Left' = IF walk = "reading" /\ Passes(status[x]) /\ ~Passes(new) THEN Left \cup {x} ELSE Left
        /\ UNCHANGED <<start, client>>
  BY <1>0, WriteTells
<1>1. /\ walk # "done" /\ UNCHANGED <<start, client>>
      /\ come \subseteq come' /\ Left \subseteq Left'
      /\ \A t \in Shifts \ {x} : status'[t] = status[t]
  BY <1>0, <1>12 DEF TypeOK
<1>13. /\ gone' \in {gone, Append(gone, x)} /\ gone \in Seq(Shifts) /\ Len(gone) \in Nat
      /\ \A i \in 1 .. Len(gone) : gone'[i] = gone[i] /\ i \in 1 .. Len(gone')
      /\ gone' = Append(gone, x) => 1 .. Len(gone') = 1 .. Len(gone) \cup {Len(gone) + 1}
                                    /\ gone'[Len(gone) + 1] = x
  BY <1>0, <1>12 DEF TypeOK
<1>2. /\ start' = start /\ walk' = walk /\ got' = got /\ offset' = offset /\ there' = there /\ filter' = filter
      /\ start \in [Shifts -> Nat] /\ offset \in Nat
  BY <1>0, <1>1, ListingAssumption DEF client, TypeOK
<1> SUFFICES ASSUME NoTies', NEW s \in Lost'
             PROVE  Cardinality(Missed' \cap Earlier(s)') < Cardinality(GoneBefore(s)')
  BY <1>1, <1>2 DEF LostAreCovered
<1>3. NoTies
  BY <1>1, <1>2 DEF NoTies, Tied
<1>4. Missed' \subseteq Missed /\ s \in Missed' /\ s \in Missed
  BY <1>1, <1>2 DEF Missed, Stayed, Lost
<1>5. walk = "reading" /\ Missed \subseteq Passing /\ Missed' \subseteq Passing' /\ Passing \subseteq Shifts
  BY <1>0, <1>1, <1>2, <1>4, MissedPass DEF HistoriesAreTrue, Missed, Stayed, Passing
<1>6. Passing \subseteq there \cup come
  BY <1>0, <1>5 DEF HistoriesAreTrue
<1>7. \A a, b \in Missed : a # b => start[a] < start[b] \/ start[b] < start[a]
  BY <1>2, <1>3, <1>5, <1>6 DEF NoTies, Tied
<1>8. Missed' \cap Earlier(s)' \subseteq Missed \cap Earlier(s)
  BY <1>2, <1>4, <1>5 DEF Earlier
<1>9. /\ GoneBefore(s) \subseteq GoneBefore(s)' /\ IsFiniteSet(GoneBefore(s)')
      /\ Cardinality(GoneBefore(s)) <= Cardinality(GoneBefore(s)')
      /\ Cardinality(GoneBefore(s)) \in Nat /\ Cardinality(GoneBefore(s)') \in Nat
  <2>1. GoneBefore(s) \in SUBSET GoneBefore(s)'
    BY <1>2, <1>13 DEF GoneBefore
  <2>2. IsFiniteSet(GoneBefore(s)')
    <3>1. GoneBefore(s)' \in SUBSET (1 .. Len(gone'))
      BY DEF GoneBefore
    <3>2. Len(gone') \in Nat
      BY DEF TypeOK
    <3>3. IsFiniteSet(1 .. Len(gone'))
      BY <3>2, FS_Interval
    <3> QED BY <3>1, <3>3, FS_Subset
  <2> QED BY <2>1, <2>2, FS_Subset, FS_CardinalityType
<1>10. CASE s \in Lost
  <2>1. Cardinality(Missed \cap Earlier(s)) < Cardinality(GoneBefore(s))
    BY <1>0, <1>3, <1>10 DEF LostAreCovered
  <2>2. /\ Cardinality(Missed' \cap Earlier(s)') <= Cardinality(Missed \cap Earlier(s))
        /\ Cardinality(Missed' \cap Earlier(s)') \in Nat /\ Cardinality(Missed \cap Earlier(s)) \in Nat
    BY <1>5, <1>8, PartsAreSmaller
  <2> QED BY <1>9, <2>1, <2>2
<1>11. CASE s \notin Lost
  <2> DEFINE E == Earlier(s)
             F == Earlier(s)'
             S == Missed' \cap Earlier(s)'
  <2>1. E \subseteq Shifts /\ F \subseteq Shifts /\ Cardinality(E) \in Nat /\ Cardinality(F) \in Nat
    BY PartsAreSmaller DEF Earlier, Passing
  <2>2. offset <= Cardinality(E) /\ Cardinality(F) < offset
    BY <1>2, <1>4, <1>11, <2>1 DEF Lost
  <2>3. E \ F \subseteq {x}
    BY <1>1, <1>2 DEF Earlier, Passing, Passes
  <2>4. x \in E /\ x \notin F
    <3>1. ~(E \subseteq F)
      <4> HIDE DEF E, F
      <4> QED BY <1>2, <2>1, <2>2, PartsAreSmaller
    <3> QED BY <2>3, <3>1
  <2>5. gone' = Append(gone, x)
    <3>1. x \in Passing /\ x \notin Passing'
      BY <1>2, <2>4 DEF Earlier
    <3>2. status'[x] = new
      BY <1>0, <1>12 DEF TypeOK
    <3>3. Passes(status[x]) /\ ~Passes(new)
      BY <1>2, <3>1, <3>2 DEF Passing, Passes
    <3> QED BY <1>5, <1>12, <3>3
  <2>6. Cardinality(GoneBefore(s)') = Cardinality(GoneBefore(s)) + 1 /\ Cardinality(GoneBefore(s)) \in Nat
    <3>1. start[x] < start[s]
      BY <2>4 DEF Earlier
    <3>2. GoneBefore(s)' = GoneBefore(s) \cup {Len(gone) + 1} /\ Len(gone) + 1 \notin GoneBefore(s)
      BY <1>2, <1>13, <2>5, <3>1 DEF GoneBefore
    <3>3. IsFiniteSet(GoneBefore(s))
      BY <1>0, DeparturesCount
    <3> QED BY <1>9, <3>2, <3>3, FS_AddElement
  <2>7. S \in SUBSET Shifts
    BY <1>4, <1>5
  <2>8. CASE S = {}
    BY <2>6, <2>8, FS_EmptySet
  <2>9. CASE S # {}
    <3>1. PICK v \in S : \A w \in S : start[w] <= start[v]
      BY <1>0, <2>7, <2>9, LatestOf
    <3>2. v \in Missed /\ v \in Shifts /\ v \in F /\ v \in E /\ start[v] < start[s]
      BY <1>2, <1>4, <1>5, <1>8 DEF Earlier
    <3>3. Cardinality(Earlier(v)) < offset
      <4>1. Earlier(v) \subseteq E /\ v \notin Earlier(v)
        BY <1>2, <1>4, <1>5, <3>2 DEF Earlier
      <4>2. Earlier(v) \ {x} \subseteq F \ {v}
        BY <2>3, <4>1
      <4>3. Cardinality(F \ {v}) = Cardinality(F) - 1
        BY <2>1, <3>2, ListingAssumption, FS_Subset, FS_RemoveElement
      <4>4. Cardinality(Earlier(v)) <= Cardinality(F \ {v}) + 1 /\ Cardinality(Earlier(v)) \in Nat
        <5>1. Earlier(v) \in SUBSET Shifts /\ F \ {v} \in SUBSET Shifts
          BY <2>1, <4>1
        <5>2. CASE x \in Earlier(v)
          BY <1>0, <4>2, <5>1, <5>2, LatestCounts
        <5>3. CASE x \notin Earlier(v)
          <6>1. Earlier(v) \subseteq F \ {v}
            BY <4>2, <5>3
          <6>2. /\ Cardinality(Earlier(v)) <= Cardinality(F \ {v})
                /\ Cardinality(Earlier(v)) \in Nat /\ Cardinality(F \ {v}) \in Nat
            BY <5>1, <6>1, PartsAreSmaller
          <6> QED BY <6>2
        <5> QED BY <5>2, <5>3
      <4> QED BY <1>2, <2>1, <2>2, <4>3, <4>4
    <3>4. Cardinality(Missed \cap Earlier(v)) < Cardinality(GoneBefore(v))
      BY <1>0, <1>3, <3>2, <3>3 DEF LostAreCovered, Lost
    <3>5. GoneBefore(v) \in SUBSET GoneBefore(s)
      <4>1. \A i \in 1 .. Len(gone) : gone[i] \in Shifts
        BY <1>13
      <4> QED BY <1>2, <1>4, <1>5, <3>2, <4>1 DEF GoneBefore
    <3>6. S \ {v} \subseteq Missed \cap Earlier(v)
      <4> SUFFICES ASSUME NEW w \in S, w # v PROVE w \in Missed /\ w \in Earlier(v)
        OBVIOUS
      <4>1. w \in Missed /\ w \in Passing
        BY <1>4, <1>5
      <4>2. start[w] < start[v]
        BY <1>2, <1>5, <1>7, <3>1, <3>2, <4>1
      <4> QED BY <4>1, <4>2 DEF Earlier
    <3>7. Cardinality(S) <= Cardinality(Missed \cap Earlier(v)) + 1 /\ Cardinality(S) \in Nat
          /\ Cardinality(Missed \cap Earlier(v)) \in Nat
      <4>1. Missed \cap Earlier(v) \in SUBSET Shifts
        BY <1>5
      <4> QED BY <1>0, <2>7, <3>6, <4>1, LatestCounts
    <3>8. Cardinality(GoneBefore(v)) <= Cardinality(GoneBefore(s)) /\ Cardinality(GoneBefore(v)) \in Nat
      BY <1>0, <3>5, DeparturesCount, FS_Subset
    <3> QED BY <2>6, <3>4, <3>7, <3>8
  <2> QED BY <2>8, <2>9
<1> QED BY <1>10, <1>11

\* A page loses nothing: what it does not bring is further on or was lost.
LEMMA PageKeepsCover ==
  ASSUME CInv, ReadPage
  PROVE  LostAreCovered'
<1>0. IInv /\ TypeOK /\ HistoriesAreTrue /\ LostAreCovered /\ offset \in Nat /\ Limit \in Nat
  BY ListingAssumption DEF CInv, IInv, TypeOK
<1>1. /\ walk = "reading" /\ offset' = offset + Limit
      /\ UNCHANGED <<start, status, filter, there, come, gone>>
  BY DEF ReadPage
<1>2. PICK P \in SUBSET Passing :
        /\ IsPage(P)
        /\ got' = [s \in Shifts |-> IF s \in P THEN got[s] + 1 ELSE got[s]]
        /\ walk' = IF Cardinality(P) < Limit THEN "done" ELSE "reading"
  BY DEF ReadPage
<1>3. \A s \in Shifts : Earlier(s)' = Earlier(s) /\ GoneBefore(s)' = GoneBefore(s)
  BY <1>1 DEF Earlier, Passing, Passes, GoneBefore
<1>4. NoTies' <=> NoTies
  BY <1>1 DEF NoTies, Tied
<1>5. Missed' \subseteq Missed \ P
  BY <1>0, <1>1, <1>2 DEF Missed, Stayed, Left, TypeOK
<1>6. Missed \subseteq Passing /\ Passing \subseteq there \cup come /\ Passing \subseteq Shifts
  BY <1>0, <1>1 DEF HistoriesAreTrue, Missed, Stayed, Passing
<1>7. ASSUME NoTies, NEW s \in Missed', offset <= Cardinality(Earlier(s))
      PROVE  walk' = "reading" /\ s \notin Lost'
  <2>1. s \in Passing /\ s \notin P /\ \A t \in Passing \ {s} : start[t] # start[s]
    BY <1>5, <1>6, <1>7 DEF NoTies, Tied
  <2>2. Cardinality(P) = Limit /\ offset + Limit <= Cardinality(Earlier(s))
    BY <1>0, <1>2, <1>7, <2>1, PageTells
  <2>3. Cardinality(Earlier(s)) \in Nat
    BY PartsAreSmaller DEF Earlier, Passing
  <2>4. Earlier(s)' = Earlier(s)
    BY <1>3, <1>6, <2>1
  <2>5. ~(Cardinality(Earlier(s)') < offset')
    BY <1>0, <1>1, <2>2, <2>3, <2>4
  <2> QED BY <1>0, <1>2, <2>2, <2>5 DEF Lost
<1>8. \A s \in Missed' : Cardinality(Earlier(s)) \in Nat /\ s \in Missed /\ s \in Shifts
  BY <1>5, <1>6, PartsAreSmaller DEF Earlier, Passing
<1>9. ASSUME NoTies, NEW s \in Lost'
      PROVE  Cardinality(Missed' \cap Earlier(s)') < Cardinality(GoneBefore(s)')
  <2>1. s \in Missed' /\ s \in Lost
    BY <1>0, <1>7, <1>8, <1>9 DEF Lost
  <2>2. Cardinality(Missed \cap Earlier(s)) < Cardinality(GoneBefore(s))
    BY <1>0, <1>9, <2>1 DEF LostAreCovered
  <2>3. Missed' \cap Earlier(s)' \subseteq Missed \cap Earlier(s) /\ GoneBefore(s)' = GoneBefore(s)
    BY <1>3, <1>5, <1>8, <2>1
  <2>4. /\ Cardinality(Missed' \cap Earlier(s)') <= Cardinality(Missed \cap Earlier(s))
        /\ Cardinality(Missed' \cap Earlier(s)') \in Nat /\ Cardinality(Missed \cap Earlier(s)) \in Nat
    BY <1>6, <2>3, PartsAreSmaller
  <2>5. Cardinality(GoneBefore(s)) \in Nat
    BY <1>0, DeparturesCount
  <2> QED BY <2>2, <2>3, <2>4, <2>5
<1>10. ASSUME NoTies, walk' = "done", NEW s \in Missed' PROVE s \in Lost'
  <2>1. Cardinality(Earlier(s)) < offset /\ Earlier(s)' = Earlier(s) /\ Cardinality(Earlier(s)) \in Nat
    BY <1>0, <1>3, <1>7, <1>8, <1>10
  <2>2. Cardinality(Earlier(s)') < offset'
    BY <1>0, <1>1, <2>1
  <2> QED BY <2>2 DEF Lost
<1> QED BY <1>4, <1>9, <1>10 DEF LostAreCovered

\* Before the walk nothing is lost.
LEMMA CoverInit == Init => CInv
  BY InitEstablishes DEF Init, CInv, LostAreCovered, Lost, Missed, Stayed

\* The strengthening is inductive.
LEMMA CoverStep == CInv /\ [Next]_vars => CInv'
<1> SUFFICES ASSUME CInv, [Next]_vars PROVE CInv'
  OBVIOUS
<1>0. IInv /\ IInv' /\ TypeOK' /\ HistoriesAreTrue'
  BY StepKeepsIInv DEF CInv, IInv
<1>1. CASE Begin
  <2>1. walk' = "reading" /\ offset' = 0
    BY <1>0, <1>1 DEF Begin, IInv, HistoriesAreTrue
  <2>2. \A s \in Shifts : Cardinality(Earlier(s)') \in Nat
    BY PartsAreSmaller DEF Earlier, Passing
  <2>3. Lost' = {}
    BY <1>0, <2>1, <2>2 DEF Lost, Missed, Stayed, TypeOK
  <2> QED BY <1>0, <2>1, <2>3 DEF CInv, LostAreCovered
<1>2. CASE ReadPage
  BY <1>0, <1>2, PageKeepsCover DEF CInv
<1>3. ASSUME NEW s \in Shifts, Write(s) PROVE CInv'
  BY <1>0, <1>3, WriteKeepsCover DEF CInv
<1>4. CASE Over \/ UNCHANGED vars
  <2>1. UNCHANGED vars
    BY <1>4 DEF Over
  <2>2. /\ Missed' = Missed /\ NoTies' = NoTies /\ Lost' = Lost
        /\ \A s \in Missed : Earlier(s)' = Earlier(s) /\ GoneBefore(s)' = GoneBefore(s)
    BY <2>1 DEF vars, client, NoTies, Lost, GoneBefore, Missed, Left, Stayed, Tied, Earlier, Passing, Passes
  <2>3. Lost \subseteq Missed /\ walk' = walk
    BY <2>1 DEF Lost, vars, client
  <2> QED BY <1>0, <2>2, <2>3 DEF CInv, LostAreCovered
<1> QED BY <1>1, <1>2, <1>3, <1>4 DEF Next

\* Where no two shifts start together, a walk through list_shifts misses no more
\* shifts than there were departures from the filter while it went on.
THEOREM MissesAreBounded == Spec => []OneHiddenForOneGone
<1>1. CInv => OneHiddenForOneGone
  <2> SUFFICES ASSUME CInv, walk = "done", NoTies PROVE Cardinality(Missed) <= Len(gone)
    BY DEF OneHiddenForOneGone, NoTies
  <2>0. TypeOK /\ LostAreCovered
    BY DEF CInv, IInv
  <2>1. Missed \in SUBSET Shifts /\ Missed \subseteq there
    BY <2>0 DEF TypeOK, Missed, Stayed
  <2>2. Len(gone) \in Nat
    BY <2>0, DeparturesCount
  <2>3. CASE Missed = {}
    BY <2>2, <2>3, FS_EmptySet
  <2>4. CASE Missed # {}
    <3>1. PICK v \in Missed : \A w \in Missed : start[w] <= start[v]
      BY <2>0, <2>1, <2>4, LatestOf
    <3>2. Cardinality(Missed \cap Earlier(v)) < Cardinality(GoneBefore(v))
      BY <2>0 DEF LostAreCovered
    <3>3. Missed \ {v} \subseteq Missed \cap Earlier(v)
      <4>1. \A w \in Missed \ {v} : start[w] < start[v]
        <5>1. \A w \in Missed : start[w] \in Nat
          BY <2>0, <2>1, ListingAssumption DEF TypeOK
        <5>2. \A w \in Missed \ {v} : start[w] # start[v]
          BY <2>1 DEF NoTies, Tied
        <5> QED BY <3>1, <5>1, <5>2
      <4>2. Missed \subseteq Passing
        BY DEF CInv, IInv, HistoriesAreTrue, Missed
      <4> QED BY <4>1, <4>2 DEF Earlier
    <3>4. Cardinality(Missed) <= Cardinality(Missed \cap Earlier(v)) + 1 /\ Cardinality(Missed) \in Nat
          /\ Cardinality(Missed \cap Earlier(v)) \in Nat
      <4>1. Missed \cap Earlier(v) \in SUBSET Shifts
        BY <2>1
      <4> QED BY <2>0, <2>1, <3>3, <4>1, LatestCounts
    <3>5. Cardinality(GoneBefore(v)) <= Len(gone) /\ Cardinality(GoneBefore(v)) \in Nat
      BY <2>0, DeparturesCount
    <3> QED BY <2>2, <3>2, <3>4, <3>5
  <2> QED BY <2>3, <2>4
<1> QED BY CoverInit, CoverStep, <1>1, PTL DEF Spec
=============================================================================
