----------------------------- MODULE RulesProofs -----------------------------
(***************************************************************************)
(* What the rules say of any two shifts and of any roster, whatever the    *)
(* times, lengths and offsets and whatever the policy.                     *)
(*                                                                         *)
(* The overlap and rest rules are arithmetic on the ends of two intervals; *)
(* a lemma names an hour they share when they overlap.  The weekly rule    *)
(* sums over a set: the first part below shows by induction on the size of *)
(* a set that the fold has a value and that the order of adding is of no   *)
(* account.  An induction is stated over a set of sets, the ones with the  *)
(* property, and rests on the well-founded order of the naturals.          *)
(***************************************************************************)
EXTENDS Rules, FiniteSetTheorems, WellFoundedInduction, TLAPS
------------------------------------------------------------------------------
\* A nonempty set of naturals has a least element.
LEMMA Least ==
  ASSUME NEW S \in SUBSET Nat, S # {}
  PROVE  \E m \in S : \A n \in S : m <= n
<1> DEFINE R == {ss \in Nat \X Nat : ss[1] < ss[2]}
<1>1. IsWellFoundedOn(R, Nat)
  BY NatLessThanWellFounded DEF OpToRel
<1> HIDE DEF R
<1>2. PICK x \in S : \A y \in S : ~(<<y, x>> \in R)
  BY <1>1, WFMin
<1>3. \A y \in S : ~(y < x)
  BY <1>2 DEF R
<1> QED BY <1>3

\* Induction on the cardinality of a finite set, the property being a set.
LEMMA SmallestSet ==
  ASSUME NEW S, IsFiniteSet(S), NEW A,
         \A T \in SUBSET S : (\A U \in SUBSET S : Cardinality(U) < Cardinality(T) => U \in A) => T \in A
  PROVE  \A T \in SUBSET S : T \in A
<1>1. \A T \in SUBSET S : Cardinality(T) \in Nat
  BY FS_Subset, FS_CardinalityType
<1> DEFINE B == {n \in Nat : \E T \in SUBSET S : T \notin A /\ Cardinality(T) = n}
<1> SUFFICES ASSUME B # {} PROVE FALSE
  BY <1>1
<1>2. PICK m \in B : \A n \in B : m <= n
  BY Least
<1>3. PICK T \in SUBSET S : T \notin A /\ Cardinality(T) = m
  BY <1>2
<1>4. \A U \in SUBSET S : Cardinality(U) < Cardinality(T) => U \in A
  BY <1>1, <1>2, <1>3
<1> QED BY <1>3, <1>4

Any(s) == CHOOSE x \in s : TRUE

\* What MapThenSumSet computes on the subsets of S.
IsSum(g, S) == g = [s \in SUBSET S |-> IF s = {} THEN 0 ELSE (CHOOSE x \in s : TRUE).hours + g[s \ {CHOOSE x \in s : TRUE}]]

HoursIn(S) == MapThenSumSet(LAMBDA o : o.hours, S)

LEMMA AnyIn == \A s : s # {} => Any(s) \in s
BY DEF Any

\* The sum of the hours is that of any table that obeys its recursion.
LEMMA SumIsDefined ==
  ASSUME NEW S, NEW h, IsSum(h, S)
  PROVE  \E g : IsSum(g, S) /\ HoursIn(S) = g[S]
<1>1. IsSum(CHOOSE g : IsSum(g, S), S)
  OBVIOUS
<1>2. HoursIn(S) = (CHOOSE g : IsSum(g, S))[S]
  BY Zenon DEF HoursIn, MapThenSumSet, MapThenFoldSet, IsSum
<1> QED BY Zenon, <1>1, <1>2

LEMMA Smaller ==
  ASSUME NEW T, IsFiniteSet(T), T # {}
  PROVE  /\ Any(T) \in T /\ IsFiniteSet(T \ {Any(T)})
         /\ Cardinality(T) \in Nat /\ Cardinality(T \ {Any(T)}) = Cardinality(T) - 1
         /\ Cardinality(T) # 0
BY AnyIn, FS_CardinalityType, FS_EmptySet, FS_RemoveElement

\* A finite set has such a table.
LEMMA SumExists ==
  ASSUME NEW S, IsFiniteSet(S)
  PROVE  \E g : IsSum(g, S)
<1> DEFINE D(n) == {s \in SUBSET S : Cardinality(s) <= n}
           Row(f, s) == IF s = {} THEN 0 ELSE Any(s).hours + f[s \ {Any(s)}]
           Upto(f, n) == f = [s \in D(n) |-> Row(f, s)]
           B == {n \in Nat : ~\E f : Upto(f, n)}
<1>1. \A s \in SUBSET S : IsFiniteSet(s) /\ Cardinality(s) \in Nat
  BY FS_Subset, FS_CardinalityType
<1>2. Upto([s \in D(0) |-> 0], 0)
  <2>1. \A s \in D(0) : s = {}
    BY <1>1, FS_EmptySet
  <2> QED BY <2>1
<1>3. ASSUME NEW n \in Nat, NEW f, Upto(f, n)
      PROVE  \E k : Upto(k, n + 1)
  <2> DEFINE k == [s \in D(n + 1) |-> Row(f, s)]
  <2>1. \A s \in D(n) : s \in D(n + 1)
    BY <1>1
  <2>2. \A s \in D(n) : f[s] = Row(f, s)
    BY <1>3
  <2>3. \A s \in D(n) : k[s] = f[s]
    BY <2>1, <2>2
  <2>4. \A s \in D(n + 1) : s # {} => s \ {Any(s)} \in D(n)
    BY <1>1, Smaller
  <2>5. \A s \in D(n + 1) : Row(f, s) = Row(k, s)
    <3> HIDE DEF k, D
    <3> QED BY <2>3, <2>4
  <2>6. Upto(k, n + 1)
    <3> HIDE DEF Row, D
    <3> QED BY <2>5
  <2> QED BY <2>6
<1>4. B = {}
  <2> SUFFICES ASSUME B # {} PROVE FALSE
    OBVIOUS
  <2>1. PICK m \in B : \A n \in B : m <= n
    <3> HIDE DEF Upto
    <3> QED BY Least
  <2> HIDE DEF Upto
  <2>2. m # 0 /\ m - 1 \in Nat /\ m - 1 \notin B
    BY <1>2, <2>1
  <2>3. \E f : Upto(f, m - 1)
    BY <2>2
  <2>4. \E f : Upto(f, (m - 1) + 1)
    BY <1>3, <2>2, <2>3
  <2> QED BY <2>1, <2>4
<1>5. Cardinality(S) \in Nat
  BY FS_CardinalityType
<1>6. PICK f : Upto(f, Cardinality(S))
  <2> HIDE DEF Upto
  <2> QED BY <1>4, <1>5
<1>7. D(Cardinality(S)) = SUBSET S
  BY FS_Subset
<1> QED BY <1>6, <1>7 DEF IsSum, Any

\* Two tables agree where both are defined.
LEMMA SumsAgree ==
  ASSUME NEW S, IsFiniteSet(S), NEW T \in SUBSET S, NEW g, NEW h, IsSum(g, S), IsSum(h, T)
  PROVE  g[T] = h[T]
<1> DEFINE A == {s \in SUBSET T : g[s] = h[s]}
<1>1. ASSUME NEW s \in SUBSET T, \A u \in SUBSET T : Cardinality(u) < Cardinality(s) => u \in A
      PROVE  s \in A
  <2>1. CASE s = {}
    BY <2>1 DEF IsSum
  <2>2. CASE s # {}
    <3>1. s \ {Any(s)} \in A
      BY <1>1, <2>2, Smaller, FS_Subset
    <3>2. g[s] = Any(s).hours + g[s \ {Any(s)}] /\ h[s] = Any(s).hours + h[s \ {Any(s)}]
      BY <2>2 DEF IsSum, Any
    <3> QED BY <3>1, <3>2
  <2> QED BY <2>1, <2>2
<1>2. IsFiniteSet(T)
  BY FS_Subset
<1>3. \A s \in SUBSET T : s \in A
  <2> HIDE DEF A
  <2> QED BY <1>1, <1>2, SmallestSet
<1> QED BY <1>3

\* The hours of a set are those of a chosen member and of the rest.
LEMMA HoursUnfold ==
  ASSUME NEW S, IsFiniteSet(S)
  PROVE  HoursIn(S) = IF S = {} THEN 0 ELSE Any(S).hours + HoursIn(S \ {Any(S)})
<1>1. PICK g : IsSum(g, S) /\ HoursIn(S) = g[S]
  BY SumExists, SumIsDefined
<1>2. CASE S = {}
  BY <1>1, <1>2 DEF IsSum
<1>3. CASE S # {}
  <2> DEFINE R == S \ {Any(S)}
  <2>1. IsFiniteSet(R)
    BY <1>3, Smaller
  <2>2. PICK h : IsSum(h, R) /\ HoursIn(R) = h[R]
    BY <2>1, SumExists, SumIsDefined
  <2>3. g[R] = h[R]
    BY <1>1, <2>2, SumsAgree
  <2>4. g[S] = Any(S).hours + g[R]
    BY <1>1, <1>3 DEF IsSum, Any
  <2> QED BY <1>1, <1>3, <2>2, <2>3, <2>4
<1> QED BY <1>2, <1>3

\* Hours are naturals, and so is their sum.
LEMMA HoursAreNat ==
  ASSUME NEW S, IsFiniteSet(S), \A o \in S : o.hours \in Nat
  PROVE  \A T \in SUBSET S : HoursIn(T) \in Nat
<1> DEFINE A == {T \in SUBSET S : HoursIn(T) \in Nat}
<1>1. ASSUME NEW T \in SUBSET S, \A U \in SUBSET S : Cardinality(U) < Cardinality(T) => U \in A
      PROVE  T \in A
  <2>1. IsFiniteSet(T)
    BY FS_Subset
  <2>2. HoursIn(T) = IF T = {} THEN 0 ELSE Any(T).hours + HoursIn(T \ {Any(T)})
    BY <2>1, HoursUnfold
  <2>3. T # {} => Any(T).hours \in Nat /\ HoursIn(T \ {Any(T)}) \in Nat
    BY <1>1, <2>1, Smaller
  <2> QED BY <2>2, <2>3
<1>2. \A T \in SUBSET S : T \in A
  <2> HIDE DEF A
  <2> QED BY <1>1, SmallestSet
<1> QED BY <1>2

\* The order in which hours are added does not matter.
LEMMA HoursTakeOut ==
  ASSUME NEW S, IsFiniteSet(S), \A o \in S : o.hours \in Nat
  PROVE  \A T \in SUBSET S : \A x \in T : HoursIn(T) = x.hours + HoursIn(T \ {x})
<1> DEFINE A == {T \in SUBSET S : \A x \in T : HoursIn(T) = x.hours + HoursIn(T \ {x})}
<1>1. ASSUME NEW T \in SUBSET S, \A U \in SUBSET S : Cardinality(U) < Cardinality(T) => U \in A
      PROVE  T \in A
  <2> SUFFICES ASSUME NEW x \in T PROVE HoursIn(T) = x.hours + HoursIn(T \ {x})
    OBVIOUS
  <2> DEFINE c == Any(T)
  <2>1. IsFiniteSet(T) /\ T # {} /\ c \in T
    BY FS_Subset, AnyIn
  <2>2. HoursIn(T) = c.hours + HoursIn(T \ {c})
    BY <2>1, HoursUnfold
  <2> HIDE DEF c
  <2>3. CASE x = c
    BY <2>2, <2>3
  <2>4. CASE x # c
    <3>1. Cardinality(T \ {c}) < Cardinality(T) /\ Cardinality(T \ {x}) < Cardinality(T)
      <4>1. Cardinality(T) \in Nat
        BY <2>1, FS_CardinalityType
      <4>2. \A y \in T : Cardinality(T \ {y}) = Cardinality(T) - 1
        BY <2>1, FS_RemoveElement
      <4> QED BY <2>1, <4>1, <4>2
    <3>2. HoursIn(T \ {c}) = x.hours + HoursIn((T \ {c}) \ {x})
      BY <1>1, <2>4, <3>1
    <3>3. HoursIn(T \ {x}) = c.hours + HoursIn((T \ {x}) \ {c})
      BY <1>1, <2>1, <2>4, <3>1
    <3>4. (T \ {c}) \ {x} = (T \ {x}) \ {c}
      OBVIOUS
    <3>5. x.hours \in Nat /\ c.hours \in Nat
      BY <2>1
    <3>6. (T \ {c}) \ {x} \in SUBSET S
      OBVIOUS
    <3>7. HoursIn((T \ {c}) \ {x}) \in Nat
      BY <3>6, HoursAreNat
    <3> DEFINE rest == HoursIn((T \ {c}) \ {x})
    <3>8. HoursIn(T) = c.hours + (x.hours + rest) /\ HoursIn(T \ {x}) = c.hours + rest
      BY Zenon, <2>2, <3>2, <3>3, <3>4
    <3> HIDE DEF rest, A
    <3> QED BY <3>5, <3>7, <3>8 DEF rest
  <2> QED BY <2>3, <2>4
<1>2. \A T \in SUBSET S : T \in A
  <2> HIDE DEF A
  <2> QED BY <1>1, SmallestSet
<1> QED BY <1>2

LEMMA HoursOfNone == HoursIn({}) = 0
BY HoursUnfold, FS_EmptySet

\* One more shift adds its hours.
LEMMA HoursAdd ==
  ASSUME NEW S, IsFiniteSet(S), NEW x, x \notin S, \A o \in S \cup {x} : o.hours \in Nat
  PROVE  HoursIn(S \cup {x}) = x.hours + HoursIn(S) /\ HoursIn(S) \in Nat
<1>1. IsFiniteSet(S \cup {x}) /\ (S \cup {x}) \ {x} = S
  BY FS_AddElement
<1> QED BY <1>1, HoursTakeOut, HoursAreNat

\* Finite sets are built by adding one element at a time.
LEMMA FiniteInduction ==
  ASSUME NEW S, IsFiniteSet(S), NEW A, {} \in A,
         \A T \in SUBSET S : \A x \in S \ T : T \in A => T \cup {x} \in A
  PROVE  S \in A
<1>1. ASSUME NEW T \in SUBSET S, \A U \in SUBSET S : Cardinality(U) < Cardinality(T) => U \in A
      PROVE  T \in A
  <2>1. CASE T = {}
    BY <2>1
  <2>2. CASE T # {}
    <3> DEFINE x == Any(T)
    <3>1. IsFiniteSet(T)
      BY FS_Subset
    <3>2. x \in T /\ T \ {x} \in A
      <4>1. x \in T /\ Cardinality(T \ {x}) < Cardinality(T)
        <5>1. x \in T /\ Cardinality(T) \in Nat /\ Cardinality(T \ {x}) = Cardinality(T) - 1
          BY <2>2, <3>1, Smaller
        <5> HIDE DEF x
        <5> QED BY <5>1
      <4>2. T \ {x} \in SUBSET S
        OBVIOUS
      <4> QED BY <1>1, <4>1, <4>2
    <3>3. (T \ {x}) \cup {x} = T /\ x \in S \ (T \ {x}) /\ T \ {x} \in SUBSET S
      BY <3>2
    <3> HIDE DEF x
    <3>4. (T \ {x}) \cup {x} \in A
      BY <3>2, <3>3
    <3> QED BY <3>3, <3>4
  <2> QED BY <2>1, <2>2
<1> QED BY <1>1, SmallestSet

\* A set works as long as its parts together.
LEMMA HoursSplit ==
  ASSUME NEW S, IsFiniteSet(S), \A o \in S : o.hours \in Nat, NEW T \in SUBSET S
  PROVE  HoursIn(S) = HoursIn(T) + HoursIn(S \ T)
<1> DEFINE A == {R \in SUBSET (S \ T) : HoursIn(T \cup R) = HoursIn(T) + HoursIn(R)}
<1>1. IsFiniteSet(S \ T) /\ HoursIn(T) \in Nat
  BY FS_Subset, HoursAreNat
<1>2. {} \in A
  BY <1>1, HoursOfNone
<1>3. ASSUME NEW R \in SUBSET (S \ T), NEW x \in (S \ T) \ R, R \in A
      PROVE  R \cup {x} \in A
  <2>1. IsFiniteSet(R) /\ IsFiniteSet(T \cup R) /\ x \notin R /\ x \notin T \cup R
    BY FS_Subset
  <2>2. HoursIn(R \cup {x}) = x.hours + HoursIn(R) /\ HoursIn(R) \in Nat
    BY <2>1, HoursAdd
  <2>3. HoursIn((T \cup R) \cup {x}) = x.hours + HoursIn(T \cup R) /\ HoursIn(T \cup R) \in Nat
    BY <2>1, HoursAdd
  <2>4. (T \cup R) \cup {x} = T \cup (R \cup {x}) /\ x.hours \in Nat
    OBVIOUS
  <2> QED BY <1>1, <1>3, <2>2, <2>3, <2>4
<1>4. S \ T \in A
  <2> HIDE DEF A
  <2> QED BY <1>1, <1>2, <1>3, FiniteInduction
<1>5. T \cup (S \ T) = S
  OBVIOUS
<1> QED BY <1>4, <1>5
------------------------------------------------------------------------------
Stamp == [id: Nat, start: Int, hours: Nat \ {0}, off: Offsets \cup {Naive}]

\* A timestamp is an instant, and a shift ends after it starts.
LEMMA Instants ==
  ASSUME NEW w \in Stamp
  PROVE  StartOf(w) \in Int /\ EndOf(w) \in Int /\ StartOf(w) < EndOf(w)
<1>1. w.start \in Int /\ w.hours \in Nat \ {0} /\ (w.off # Naive => w.off \in Int)
  BY RulesAssumption DEF Stamp
<1> QED BY <1>1 DEF StartOf, EndOf

\* Two intervals of hours meet exactly when each starts before the other ends.
LEMMA IntervalsMeet ==
  ASSUME NEW a \in Int, NEW b \in Int, NEW c \in Int, NEW d \in Int, a < b, c < d
  PROVE  (a < d /\ c < b) <=> (a .. b - 1) \cap (c .. d - 1) # {}
<1>1. ASSUME a < d, c < b PROVE \E h \in a .. b - 1 : h \in c .. d - 1
  <2>1. CASE a <= c
    <3>1. c \in a .. b - 1 /\ c \in c .. d - 1
      BY <1>1, <2>1
    <3> QED BY <3>1
  <2>2. CASE c < a
    <3>1. a \in a .. b - 1 /\ a \in c .. d - 1
      BY <1>1, <2>2
    <3> QED BY <3>1
  <2> QED BY <2>1, <2>2
<1>2. ASSUME NEW h \in (a .. b - 1) \cap (c .. d - 1) PROVE a < d /\ c < b
  BY <1>2
<1> QED BY <1>1, <1>2

\* The subject and the shifts of the roster have timestamps.
LEMMA RosterStamps ==
  ASSUME TypeOK
  PROVE  /\ subject \in Stamp /\ subject.id = 0
         /\ \A o \in others : o \in Stamp /\ o.id # 0
<1>1. \A n \in Nat : Windows(n) \subseteq Stamp
  BY RulesAssumption DEF Windows, Stamp
<1>2. \A o \in others : o \in Windows(o.id) /\ o.id \in Nat \ {0}
  BY RulesAssumption DEF TypeOK
<1> QED BY <1>1, <1>2 DEF TypeOK, Windows

\* evaluate names the shifts it was given, or the subject.
LEMMA FindingsAreNamed ==
  ASSUME NEW s, NEW os, NEW p, NEW n \in Nat, \A o \in os : o.id \in 1 .. n, s.id = 0
  PROVE  Evaluate(s, os, p) \subseteq
           ({"overlap", "insufficient_rest"} \X (1 .. n)) \cup {<<"weekly_hours_exceeded", 0>>}
  BY DEF Evaluate, FindOverlaps, FindInsufficientRest

\* The roster grows by one shift at a time, and each gets the next id.
RosterGrows ==
  /\ IsFiniteSet(others) /\ Cardinality(others) <= MaxOthers
  /\ \A o \in others : o.id <= Cardinality(others)
  /\ \A a, b \in others : a.id = b.id => a = b

\* The roster grows within its type.
LEMMA Grows == Spec => [](TypeOK /\ RosterGrows)
<1>1. Init => TypeOK /\ RosterGrows
  <2> SUFFICES ASSUME Init PROVE TypeOK /\ RosterGrows
    OBVIOUS
  <2>1. RosterGrows
    BY FS_EmptySet, RulesAssumption DEF Init, RosterGrows
  <2>2. subject.id = 0
    BY DEF Init, Windows
  <2>3. Evaluate(subject, others, policy) \subseteq
          ({"overlap", "insufficient_rest"} \X (1 .. MaxOthers)) \cup {<<"weekly_hours_exceeded", 0>>}
    BY <2>2, FindingsAreNamed, RulesAssumption DEF Init
  <2> QED BY <2>1, <2>3 DEF Init, TypeOK
<1>2. TypeOK /\ RosterGrows /\ [Next]_vars => (TypeOK /\ RosterGrows)'
  <2> SUFFICES ASSUME TypeOK, RosterGrows, [Next]_vars PROVE (TypeOK /\ RosterGrows)'
    OBVIOUS
  <2>1. CASE UNCHANGED vars
    BY <2>1 DEF vars, TypeOK, RosterGrows
  <2>2. ASSUME NEW w \in Windows(Cardinality(others) + 1), Assign(w) PROVE (TypeOK /\ RosterGrows)'
    <3>1. Cardinality(others) \in Nat /\ Cardinality(others) + 1 \in 1 .. MaxOthers
      BY <2>2, FS_CardinalityType, RulesAssumption DEF RosterGrows, Assign
    <3>2. w.id \in 1 .. MaxOthers /\ w \in Windows(w.id)
      BY <2>2, <3>1 DEF Windows
    <3>3. others' = others \cup {w} /\ subject' = subject /\ policy' = policy
      BY <2>2 DEF Assign
    <3>4. RosterGrows'
      <4>1. w.id = Cardinality(others) + 1 /\ \A o \in others : o.id \in Nat /\ o.id < w.id
        BY <2>2, <3>1 DEF Windows, RosterGrows, TypeOK
      <4>2. IsFiniteSet(others \cup {w}) /\ Cardinality(others \cup {w}) = Cardinality(others) + 1
        BY <4>1, FS_AddElement DEF RosterGrows
      <4>3. \A a, b \in others \cup {w} : a.id = b.id => a = b
        BY <4>1 DEF RosterGrows
      <4>4. \A o \in others \cup {w} : o.id <= Cardinality(others) + 1
        BY <3>1, <4>1
      <4>5. IsFiniteSet(others') /\ Cardinality(others') = Cardinality(others) + 1
        BY Zenon, <3>3, <4>2
      <4>6. Cardinality(others) + 1 <= MaxOthers
        BY <3>1
      <4> QED BY Zenon, <3>3, <4>3, <4>4, <4>5, <4>6 DEF RosterGrows
    <3>5. \A o \in others' : o.id \in 1 .. MaxOthers /\ o \in Windows(o.id)
      BY <3>2, <3>3 DEF TypeOK
    <3>6. subject'.id = 0
      BY <3>3 DEF TypeOK, Windows
    <3>7. Evaluate(subject', others', policy') \subseteq
            ({"overlap", "insufficient_rest"} \X (1 .. MaxOthers)) \cup {<<"weekly_hours_exceeded", 0>>}
      BY <3>5, <3>6, FindingsAreNamed, RulesAssumption
    <3> QED BY <3>3, <3>4, <3>5, <3>7 DEF TypeOK
  <2> QED BY <2>1, <2>2 DEF Next
<1> QED BY <1>1, <1>2, PTL DEF Spec

\* Every roster has its type, and every finding names one of its shifts.
THEOREM TypeCorrect == Spec => []TypeOK
BY Grows, PTL

\* find_overlaps: strict comparisons report exactly the shifts that share an
\* hour with the subject.
THEOREM OverlapsShareTime == Spec => []OverlapIsSharedTime
<1>1. TypeOK => OverlapIsSharedTime
  <2> SUFFICES ASSUME TypeOK, NEW o \in others
               PROVE  o \in FindOverlaps(subject, others) <=> HoursOf(subject) \cap HoursOf(o) # {}
    BY DEF OverlapIsSharedTime
  <2>1. subject \in Stamp /\ o \in Stamp /\ o.id # subject.id
    BY RosterStamps
  <2>2. Overlaps(subject, o) <=> HoursOf(subject) \cap HoursOf(o) # {}
    BY <2>1, Instants, IntervalsMeet DEF Overlaps, HoursOf
  <2> QED BY <2>1, <2>2 DEF FindOverlaps
<1> QED BY <1>1, TypeCorrect, PTL

\* find_insufficient_rest: the two branches of the gap, and the guard that skips
\* overlapping shifts, amount to widening the subject by the rest on both sides.
THEOREM RestWidensTheSubject == Spec => []RestIsWidenedOverlap
<1>1. TypeOK => RestIsWidenedOverlap
  <2> SUFFICES ASSUME TypeOK, NEW o \in others
               PROVE  o \in FindInsufficientRest(subject, others, policy) <=>
                        /\ HoursOf(subject) \cap HoursOf(o) = {}
                        /\ (StartOf(subject) - policy.rest .. EndOf(subject) - 1 + policy.rest)
                             \cap HoursOf(o) # {}
    BY DEF RestIsWidenedOverlap
  <2> DEFINE a == StartOf(subject)
             b == EndOf(subject)
             c == StartOf(o)
             d == EndOf(o)
             r == policy.rest
  <2>1. subject \in Stamp /\ o \in Stamp /\ o.id # subject.id
    BY RosterStamps
  <2>2. a \in Int /\ b \in Int /\ c \in Int /\ d \in Int /\ a < b /\ c < d
    BY <2>1, Instants
  <2>3. r \in Nat
    BY RulesAssumption DEF TypeOK
  <2>4. (a < d /\ c < b) <=> HoursOf(subject) \cap HoursOf(o) # {}
    BY <2>2, IntervalsMeet DEF HoursOf
  <2>5. (a - r < d /\ c < b + r) <=> (a - r .. b - 1 + r) \cap HoursOf(o) # {}
    <3>1. a - r \in Int /\ b + r \in Int /\ a - r < b + r /\ (b + r) - 1 = b - 1 + r
      BY <2>2, <2>3
    <3> HIDE DEF a, b, c, d, r
    <3>2. (a - r < d /\ c < b + r) <=> (a - r .. b - 1 + r) \cap (c .. d - 1) # {}
      BY <2>2, <3>1, IntervalsMeet
    <3> QED BY <3>2 DEF HoursOf, c, d
  <2>6. o \in FindInsufficientRest(subject, others, policy) <=>
          r > 0 /\ ~(a < d /\ c < b) /\ (IF d <= a THEN a - d ELSE c - b) < r
    BY <2>1 DEF FindInsufficientRest, Gap, Overlaps
  <2>7. (r > 0 /\ ~(a < d /\ c < b) /\ (IF d <= a THEN a - d ELSE c - b) < r)
          <=> (~(a < d /\ c < b) /\ (a - r < d /\ c < b + r))
    <3> HIDE DEF a, b, c, d, r
    <3> QED BY <2>2, <2>3
  <2> HIDE DEF a, b, c, d, r
  <2>8. o \in FindInsufficientRest(subject, others, policy) <=>
          HoursOf(subject) \cap HoursOf(o) = {} /\ (a - r .. b - 1 + r) \cap HoursOf(o) # {}
    BY <2>4, <2>5, <2>6, <2>7
  <2> QED BY <2>8 DEF a, b, r
<1> QED BY <1>1, TypeCorrect, PTL

\* handle_event rescans one of the two shifts only: the rules between two shifts
\* report the same from both, so ConflictScan may take one symmetric relation.
THEOREM PairsClashMutually ==
  ASSUME NEW s \in Stamp, NEW o \in Stamp, NEW p \in [max: Nat, rest: Nat]
  PROVE  /\ o \in FindOverlaps(s, {o}) <=> s \in FindOverlaps(o, {s})
         /\ o \in FindInsufficientRest(s, {o}, p) <=> s \in FindInsufficientRest(o, {s}, p)
<1>1. /\ StartOf(s) \in Int /\ EndOf(s) \in Int /\ StartOf(o) \in Int /\ EndOf(o) \in Int
      /\ StartOf(s) < EndOf(s) /\ StartOf(o) < EndOf(o)
  BY Instants
<1>2. Overlaps(s, o) <=> Overlaps(o, s)
  BY DEF Overlaps
<1>3. ~Overlaps(s, o) => Gap(s, o) = Gap(o, s)
  BY <1>1 DEF Overlaps, Gap
<1> QED BY <1>2, <1>3 DEF FindOverlaps, FindInsufficientRest

\* The hours the weekly rule adds up for the subject.
LEMMA WeeklySum ==
  ASSUME NEW s, NEW os
  PROVE  WeeklyHours(s, os) = s.hours + HoursIn({o \in os : o.id # s.id /\ InWeek(s, o)})
BY Zenon DEF WeeklyHours, HoursIn

\* More shifts in the week are not fewer hours.
LEMMA MoreShiftsMoreHours ==
  ASSUME NEW s \in Stamp, NEW T, IsFiniteSet(T), \A o \in T : o \in Stamp, NEW S \in SUBSET T
  PROVE  WeeklyHours(s, S) \in Nat /\ WeeklyHours(s, T) \in Nat /\ WeeklyHours(s, S) <= WeeklyHours(s, T)
<1> DEFINE W(os) == {o \in os : o.id # s.id /\ InWeek(s, o)}
<1>1. \A o \in T : o.hours \in Nat
  BY DEF Stamp
<1>2. IsFiniteSet(W(T)) /\ W(S) \in SUBSET W(T) /\ W(T) \ W(S) \in SUBSET W(T)
  BY FS_Subset
<1>3. /\ HoursIn(W(T)) = HoursIn(W(S)) + HoursIn(W(T) \ W(S))
      /\ HoursIn(W(T)) \in Nat /\ HoursIn(W(S)) \in Nat /\ HoursIn(W(T) \ W(S)) \in Nat
  <2>1. \A o \in W(T) : o.hours \in Nat
    BY <1>1
  <2> HIDE DEF W
  <2> QED BY <1>2, <2>1, HoursSplit, HoursAreNat
<1>4. WeeklyHours(s, T) = s.hours + HoursIn(W(T)) /\ WeeklyHours(s, S) = s.hours + HoursIn(W(S))
  BY WeeklySum
<1>5. s.hours \in Nat
  BY DEF Stamp
<1> HIDE DEF W
<1> QED BY <1>3, <1>4, <1>5

\* The worker's other shifts only become more, and no finding goes away.
THEOREM FindingsNeverGo == Spec => FindingsOnlyGrow
<1>1. TypeOK /\ RosterGrows /\ TypeOK' /\ RosterGrows' /\ [Next]_vars
        => [Evaluate(subject, others, policy) \subseteq Evaluate(subject, others, policy)']_vars
  <2> SUFFICES ASSUME TypeOK, RosterGrows, TypeOK', RosterGrows', Next
               PROVE  Evaluate(subject, others, policy) \subseteq Evaluate(subject, others, policy)'
    BY DEF vars, Evaluate
  <2>1. PICK w : Assign(w)
    BY DEF Next
  <2>2. others \subseteq others' /\ subject' = subject /\ policy' = policy
    BY <2>1 DEF Assign
  <2>3. subject \in Stamp /\ IsFiniteSet(others') /\ \A o \in others' : o \in Stamp
    <3>1. \A n \in Nat : Windows(n) \subseteq Stamp
      BY RulesAssumption DEF Windows, Stamp
    <3>2. \A o \in others' : o.id \in Nat /\ o \in Windows(o.id)
      BY RulesAssumption DEF TypeOK
    <3> QED BY <3>1, <3>2, RosterStamps DEF RosterGrows
  <2>4. policy.max \in Nat
    BY RulesAssumption DEF TypeOK
  <2>5. WeeklyHoursExceeded(subject, others, policy) => WeeklyHoursExceeded(subject, others', policy)
    BY <2>2, <2>3, <2>4, MoreShiftsMoreHours DEF WeeklyHoursExceeded
  <2>6. /\ FindOverlaps(subject, others) \subseteq FindOverlaps(subject, others')
        /\ FindInsufficientRest(subject, others, policy)
             \subseteq FindInsufficientRest(subject, others', policy)
    BY <2>2 DEF FindOverlaps, FindInsufficientRest
  <2>7. Evaluate(subject, others, policy) \subseteq Evaluate(subject, others', policy)
    BY <2>5, <2>6 DEF Evaluate
  <2> QED BY <2>2, <2>7
<1> QED BY <1>1, Grows, PTL DEF Spec, FindingsOnlyGrow

\* The two shifts of a clash, each with the rest of the roster.
LEMMA WeekIsMutual ==
  ASSUME TypeOK, RosterGrows, NEW o \in others, WeekStart(o) = WeekStart(subject)
  PROVE  WeeklyHours(subject, others) = WeeklyHours(o, (others \ {o}) \cup {subject})
<1> DEFINE rest == (others \ {o}) \cup {subject}
           W == {x \in others : x.id # subject.id /\ InWeek(subject, x)}
           V == {x \in rest : x.id # o.id /\ InWeek(o, x)}
<1>1. subject \in Stamp /\ subject.id = 0 /\ \A x \in others : x \in Stamp /\ x.id # 0
  BY RosterStamps
<1>2. \A x \in others \cup {subject} : x.hours \in Nat /\ (x.id = o.id => x = o)
  BY <1>1 DEF Stamp, RosterGrows
<1>3. \A x : InWeek(subject, x) <=> InWeek(o, x)
  BY DEF InWeek
<1>4. InWeek(subject, o) /\ InWeek(o, subject)
  <2>1. \A x \in Stamp : x.start % Week \in 0 .. Week - 1 /\ StartOf(x) \in Int
    BY Instants, RulesAssumption DEF Stamp
  <2> QED BY <1>1, <2>1, RulesAssumption DEF InWeek, WeekStart
<1>5. o \in W /\ subject \in V /\ W \ {o} = V \ {subject}
  BY <1>1, <1>2, <1>3, <1>4
<1>6. IsFiniteSet(W) /\ IsFiniteSet(V)
  <2>1. IsFiniteSet(others \cup {subject})
    BY FS_AddElement DEF RosterGrows
  <2> QED BY <2>1, FS_Subset
<1>7. \A x \in W \cup V : x.hours \in Nat
  BY <1>2
<1>8. WeeklyHours(subject, others) = subject.hours + HoursIn(W) /\ WeeklyHours(o, rest) = o.hours + HoursIn(V)
  BY WeeklySum
<1> HIDE DEF W, V
<1>9. HoursIn(W) = o.hours + HoursIn(W \ {o}) /\ HoursIn(V) = subject.hours + HoursIn(V \ {subject})
  BY <1>5, <1>6, <1>7, HoursTakeOut
<1>10. HoursIn(W \ {o}) \in Nat
  BY <1>5, <1>6, <1>7, HoursAreNat
<1>11. o.hours \in Nat /\ subject.hours \in Nat
  BY <1>2
<1> QED BY <1>5, <1>8, <1>9, <1>10, <1>11

\* The rules report a clash from both of its shifts, so that a rescan of one
\* shift is enough.
THEOREM ClashesMutual == Spec => []ClashesAreMutual
<1>1. TypeOK /\ RosterGrows => ClashesAreMutual
  <2> SUFFICES ASSUME TypeOK, RosterGrows, NEW o \in others
               PROVE  LET rest == (others \ {o}) \cup {subject} IN
                      /\ o \in FindOverlaps(subject, others) <=> subject \in FindOverlaps(o, rest)
                      /\ o \in FindInsufficientRest(subject, others, policy)
                           <=> subject \in FindInsufficientRest(o, rest, policy)
                      /\ WeekStart(o) = WeekStart(subject) =>
                           (WeeklyHoursExceeded(subject, others, policy)
                              <=> WeeklyHoursExceeded(o, rest, policy))
    BY DEF ClashesAreMutual
  <2> DEFINE rest == (others \ {o}) \cup {subject}
  <2>1. subject \in Stamp /\ o \in Stamp /\ o.id # subject.id
    BY RosterStamps
  <2>2. /\ StartOf(subject) \in Int /\ EndOf(subject) \in Int /\ StartOf(subject) < EndOf(subject)
        /\ StartOf(o) \in Int /\ EndOf(o) \in Int /\ StartOf(o) < EndOf(o)
    BY <2>1, Instants
  <2>3. Overlaps(subject, o) <=> Overlaps(o, subject)
    BY DEF Overlaps
  <2>4. ~Overlaps(subject, o) => Gap(subject, o) = Gap(o, subject)
    BY <2>2 DEF Overlaps, Gap
  <2>5. o \in FindOverlaps(subject, others) <=> subject \in FindOverlaps(o, rest)
    BY <2>1, <2>3 DEF FindOverlaps
  <2>6. o \in FindInsufficientRest(subject, others, policy)
          <=> subject \in FindInsufficientRest(o, rest, policy)
    BY <2>1, <2>3, <2>4 DEF FindInsufficientRest
  <2>7. WeekStart(o) = WeekStart(subject) =>
          (WeeklyHoursExceeded(subject, others, policy) <=> WeeklyHoursExceeded(o, rest, policy))
    BY WeekIsMutual DEF WeeklyHoursExceeded
  <2> QED BY <2>5, <2>6, <2>7
<1> QED BY <1>1, Grows, PTL

\* Shifts of one offset that differ still differ when read back.
LEMMA ReadBackKeeps ==
  ASSUME NEW a \in Stamp, NEW b \in Stamp, a.off = b.off
  PROVE  /\ ReadBack(a) = ReadBack(b) => a = b
         /\ ReadBack(a).id = a.id /\ ReadBack(a).hours = a.hours
         /\ ReadBack(a).start = a.start /\ ReadBack(a).off = Naive
         /\ ReadBack(a) \in Stamp
<1>1. /\ ReadBack(a) = [id |-> a.id, start |-> a.start, hours |-> a.hours, off |-> Naive]
      /\ ReadBack(b) = [id |-> b.id, start |-> b.start, hours |-> b.hours, off |-> Naive]
  BY DEF ReadBack, Stamp
<1>2. ReadBack(a) = ReadBack(b) => a.id = b.id /\ a.start = b.start /\ a.hours = b.hours
  BY <1>1
<1>3. a.id = b.id /\ a.start = b.start /\ a.hours = b.hours /\ a.off = b.off => a = b
  BY DEF Stamp
<1> QED BY <1>1, <1>2, <1>3 DEF Stamp

\* Shifts of one offset read back as long as they were.
LEMMA ReadBackHours ==
  ASSUME NEW S, IsFiniteSet(S), \A a \in S : a \in Stamp, \A a, b \in S : a.off = b.off
  PROVE  HoursIn({ReadBack(o) : o \in S}) = HoursIn(S)
<1> DEFINE Image(T) == {ReadBack(o) : o \in T}
           A == {T \in SUBSET S : IsFiniteSet(Image(T)) /\ HoursIn(Image(T)) = HoursIn(T)}
<1>1. {} \in A
  <2>1. Image({}) = {}
    OBVIOUS
  <2> QED BY <2>1, FS_EmptySet
<1>2. ASSUME NEW T \in SUBSET S, NEW x \in S \ T, T \in A PROVE T \cup {x} \in A
  <2>1. Image(T \cup {x}) = Image(T) \cup {ReadBack(x)}
    OBVIOUS
  <2>2. ReadBack(x) \notin Image(T) /\ ReadBack(x).hours = x.hours
    BY ReadBackKeeps
  <2>3. (\A o \in T \cup {x} : o.hours \in Nat) /\ (\A o \in Image(T) \cup {ReadBack(x)} : o.hours \in Nat)
    BY ReadBackKeeps DEF Stamp
  <2>4. IsFiniteSet(T) /\ IsFiniteSet(Image(T)) /\ HoursIn(Image(T)) = HoursIn(T)
    BY <1>2, FS_Subset
  <2> HIDE DEF Image
  <2>5. HoursIn(T \cup {x}) = x.hours + HoursIn(T)
    BY <2>3, <2>4, HoursAdd
  <2>6. HoursIn(Image(T) \cup {ReadBack(x)}) = ReadBack(x).hours + HoursIn(Image(T))
    BY <2>2, <2>3, <2>4, HoursAdd
  <2>7. IsFiniteSet(Image(T) \cup {ReadBack(x)})
    BY <2>4, FS_AddElement
  <2> QED BY <2>1, <2>2, <2>4, <2>5, <2>6, <2>7
<1>3. S \in A
  <2> HIDE DEF A
  <2> QED BY <1>1, <1>2, FiniteInduction
<1> QED BY <1>3

\* Two shifts of one offset stand to each other as they do when read back.
LEMMA ReadBackShifts ==
  ASSUME NEW a \in Stamp, NEW b \in Stamp, a.off = b.off
  PROVE  /\ Overlaps(ReadBack(a), ReadBack(b)) <=> Overlaps(a, b)
         /\ Gap(ReadBack(a), ReadBack(b)) = Gap(a, b)
         /\ InWeek(ReadBack(a), ReadBack(b)) <=> InWeek(a, b)
<1> DEFINE k == IF a.off = Naive THEN 0 ELSE a.off
<1>1. k \in Int /\ a.start \in Int /\ b.start \in Int /\ a.hours \in Int /\ b.hours \in Int
  <2>1. a.off # Naive => a.off \in Int
    BY RulesAssumption DEF Stamp
  <2>2. a.start \in Int /\ b.start \in Int /\ a.hours \in Int /\ b.hours \in Int
    BY DEF Stamp
  <2> QED BY <2>1, <2>2
<1>2. StartOf(a) = a.start - k /\ StartOf(b) = b.start - k
  BY DEF StartOf
<1>3. StartOf(ReadBack(a)) = a.start /\ StartOf(ReadBack(b)) = b.start
  BY <1>1, ReadBackKeeps DEF StartOf
<1>4. EndOf(ReadBack(a)) = a.start + a.hours /\ EndOf(ReadBack(b)) = b.start + b.hours
  BY <1>3, ReadBackKeeps DEF EndOf
<1>5. EndOf(a) = a.start - k + a.hours /\ EndOf(b) = b.start - k + b.hours
  BY <1>2 DEF EndOf
<1>6. ReadBack(a).start = a.start
  BY ReadBackKeeps
<1>7. a.start % Week \in Int /\ Week \in Int
  BY <1>1, RulesAssumption
<1> HIDE DEF k
<1>8. Overlaps(ReadBack(a), ReadBack(b)) <=> Overlaps(a, b)
  BY <1>1, <1>2, <1>3, <1>4, <1>5 DEF Overlaps
<1>9. Gap(ReadBack(a), ReadBack(b)) = Gap(a, b)
  BY <1>1, <1>2, <1>3, <1>4, <1>5 DEF Gap
<1>10. InWeek(ReadBack(a), ReadBack(b)) <=> InWeek(a, b)
  BY <1>1, <1>2, <1>3, <1>6, <1>7 DEF InWeek, WeekStart
<1> QED BY <1>8, <1>9, <1>10

\* The database drops the offset of every time it stores; where a worker's
\* shifts carry one offset, evaluate finds what it would have found.
THEOREM OneOffsetIsEnough == Spec => []OneOffsetKeepsVerdicts
<1>1. TypeOK /\ RosterGrows => OneOffsetKeepsVerdicts
  <2> SUFFICES ASSUME TypeOK, RosterGrows, \A o \in others : o.off = subject.off
               PROVE  Evaluate(ReadBack(subject), {ReadBack(o) : o \in others}, policy)
                        = Evaluate(subject, others, policy)
    BY DEF OneOffsetKeepsVerdicts
  <2> DEFINE s == ReadBack(subject)
             os == {ReadBack(o) : o \in others}
             W == {o \in others : o.id # subject.id /\ InWeek(subject, o)}
             V == {o \in os : o.id # s.id /\ InWeek(s, o)}
  <2>1. subject \in Stamp /\ \A o \in others : o \in Stamp
    BY RosterStamps
  <2>2. \A o \in others : /\ ReadBack(o).id = o.id
                          /\ Overlaps(s, ReadBack(o)) <=> Overlaps(subject, o)
                          /\ Gap(s, ReadBack(o)) = Gap(subject, o)
                          /\ InWeek(s, ReadBack(o)) <=> InWeek(subject, o)
    BY <2>1, ReadBackKeeps, ReadBackShifts
  <2>3. s.id = subject.id /\ s.hours = subject.hours
    BY <2>1, ReadBackKeeps
  <2>4. V = {ReadBack(o) : o \in W}
    <3> HIDE DEF s
    <3> QED BY <2>2, <2>3
  <2>5. IsFiniteSet(W) /\ (\A a \in W : a \in Stamp) /\ (\A a, b \in W : a.off = b.off)
    BY <2>1, FS_Subset DEF RosterGrows
  <2>6. WeeklyHours(s, os) = s.hours + HoursIn(V)
    BY WeeklySum
  <2>7. WeeklyHours(subject, others) = subject.hours + HoursIn(W)
    BY WeeklySum
  <2>8. HoursIn(V) = HoursIn(W)
    <3> HIDE DEF V, W
    <3> QED BY <2>4, <2>5, ReadBackHours
  <2>9. WeeklyHoursExceeded(s, os, policy) <=> WeeklyHoursExceeded(subject, others, policy)
    <3> HIDE DEF V, W, s, os
    <3> QED BY <2>3, <2>6, <2>7, <2>8 DEF WeeklyHoursExceeded
  <2>10. {<<"overlap", o.id>> : o \in FindOverlaps(s, os)}
           = {<<"overlap", o.id>> : o \in FindOverlaps(subject, others)}
    <3> HIDE DEF s
    <3>1. FindOverlaps(s, os) = {ReadBack(o) : o \in FindOverlaps(subject, others)}
      BY <2>2, <2>3 DEF FindOverlaps
    <3>2. \A o \in FindOverlaps(subject, others) : ReadBack(o).id = o.id
      BY <2>2 DEF FindOverlaps
    <3> HIDE DEF os
    <3> QED BY <3>1, <3>2
  <2>11. {<<"insufficient_rest", o.id>> : o \in FindInsufficientRest(s, os, policy)}
           = {<<"insufficient_rest", o.id>> : o \in FindInsufficientRest(subject, others, policy)}
    <3> HIDE DEF s
    <3>1. FindInsufficientRest(s, os, policy)
            = {ReadBack(o) : o \in FindInsufficientRest(subject, others, policy)}
      BY <2>2, <2>3 DEF FindInsufficientRest
    <3>2. \A o \in FindInsufficientRest(subject, others, policy) : ReadBack(o).id = o.id
      BY <2>2 DEF FindInsufficientRest
    <3> HIDE DEF os
    <3> QED BY <3>1, <3>2
  <2>12. {<<"weekly_hours_exceeded", s.id>> : x \in {y \in {s} : WeeklyHoursExceeded(y, os, policy)}}
           = {<<"weekly_hours_exceeded", subject.id>> :
                x \in {y \in {subject} : WeeklyHoursExceeded(y, others, policy)}}
    <3> HIDE DEF s, os
    <3> QED BY <2>3, <2>9
  <2> HIDE DEF s, os
  <2>13. Evaluate(s, os, policy) = Evaluate(subject, others, policy)
    BY <2>10, <2>11, <2>12 DEF Evaluate
  <2> QED BY <2>13 DEF s, os
<1> QED BY <1>1, Grows, PTL

\* Shifts that share no hour cover together as many hours as they last.
LEMMA DisjointHours ==
  ASSUME NEW S, IsFiniteSet(S), \A a \in S : a \in Stamp,
         \A a, b \in S : a # b => HoursOf(a) \cap HoursOf(b) = {}
  PROVE  IsFiniteSet(UNION {HoursOf(o) : o \in S})
         /\ Cardinality(UNION {HoursOf(o) : o \in S}) = HoursIn(S)
<1> DEFINE Cover(T) == UNION {HoursOf(o) : o \in T}
           A == {T \in SUBSET S : IsFiniteSet(Cover(T)) /\ Cardinality(Cover(T)) = HoursIn(T)}
<1>1. {} \in A
  <2>1. Cover({}) = {}
    OBVIOUS
  <2> HIDE DEF Cover
  <2> QED BY <2>1, FS_EmptySet, HoursOfNone
<1>2. ASSUME NEW T \in SUBSET S, NEW x \in S \ T, T \in A PROVE T \cup {x} \in A
  <2>1. Cover(T \cup {x}) = Cover(T) \cup HoursOf(x)
    OBVIOUS
  <2>2. Cover(T) \cap HoursOf(x) = {}
    OBVIOUS
  <2>3. IsFiniteSet(HoursOf(x)) /\ Cardinality(HoursOf(x)) = x.hours
    <3>1. StartOf(x) \in Int /\ x.hours \in Nat \ {0} /\ EndOf(x) = StartOf(x) + x.hours
      BY Instants DEF Stamp, EndOf
    <3>2. StartOf(x) <= EndOf(x) - 1 /\ EndOf(x) - 1 \in Int /\ EndOf(x) - 1 - StartOf(x) + 1 = x.hours
      BY <3>1
    <3>3. StartOf(x) \in Int
      BY <3>1
    <3>4. /\ IsFiniteSet(StartOf(x) .. EndOf(x) - 1)
          /\ Cardinality(StartOf(x) .. EndOf(x) - 1)
               = IF StartOf(x) > EndOf(x) - 1 THEN 0 ELSE EndOf(x) - 1 - StartOf(x) + 1
      BY <3>2, <3>3, FS_Interval
    <3>5. ~(StartOf(x) > EndOf(x) - 1)
      BY <3>2, <3>3
    <3> QED BY Zenon, <3>2, <3>4, <3>5 DEF HoursOf
  <2>4. \A o \in T \cup {x} : o.hours \in Nat
    BY DEF Stamp
  <2>5. IsFiniteSet(T) /\ IsFiniteSet(Cover(T)) /\ Cardinality(Cover(T)) = HoursIn(T)
    BY <1>2, FS_Subset
  <2> HIDE DEF Cover
  <2>6. HoursIn(T \cup {x}) = x.hours + HoursIn(T) /\ HoursIn(T) \in Nat /\ x.hours \in Nat
    BY <2>4, <2>5, HoursAdd
  <2>7. /\ IsFiniteSet(Cover(T) \cup HoursOf(x))
        /\ Cardinality(Cover(T) \cup HoursOf(x)) = Cardinality(Cover(T)) + Cardinality(HoursOf(x)) - 0
    BY <2>2, <2>3, <2>5, FS_Union, FS_EmptySet
  <2>8. Cardinality(Cover(T) \cup HoursOf(x)) = HoursIn(T \cup {x})
    BY <2>3, <2>5, <2>6, <2>7
  <2> QED BY <2>1, <2>7, <2>8
<1>3. S \in A
  <2> HIDE DEF A
  <2> QED BY <1>1, <1>2, FiniteInduction
<1> QED BY <1>3

\* Where no two shifts overlap and none straddles the end of the week, the rule,
\* which counts a shift whole, compares the hours worked in that week.
THEOREM WeeklyHoursAreWorked == Spec => []WeeklyIsHoursWorked
<1>1. TypeOK /\ RosterGrows => WeeklyIsHoursWorked
  <2> DEFINE all == others \cup {subject}
             week == WeekStart(subject) .. WeekStart(subject) + Week - 1
             W == {o \in others : o.id # subject.id /\ InWeek(subject, o)}
             In == W \cup {subject}
  <2> SUFFICES ASSUME TypeOK, RosterGrows,
                      \A o \in others : FindOverlaps(o, all) = {},
                      \A w \in all : HoursOf(w) \subseteq week \/ HoursOf(w) \cap week = {}
               PROVE  WeeklyHoursExceeded(subject, others, policy)
                        <=> Cardinality(UNION {HoursOf(w) \cap week : w \in all}) > policy.max
    BY DEF WeeklyIsHoursWorked
  <2>1. subject \in Stamp /\ subject.id = 0 /\ \A o \in others : o \in Stamp /\ o.id # 0
    BY RosterStamps
  <2>2. \A a, b \in all : a.id = b.id => a = b
    BY <2>1 DEF RosterGrows
  <2>3. \A a, b \in all : a # b => ~Overlaps(a, b)
    <3>1. ASSUME NEW a \in others, NEW b \in all, a # b PROVE ~Overlaps(a, b)
      BY <2>2, <3>1 DEF FindOverlaps
    <3>2. \A a, b : Overlaps(a, b) <=> Overlaps(b, a)
      BY DEF Overlaps
    <3> QED BY <3>1, <3>2
  <2>4. \A a, b \in all : a # b => HoursOf(a) \cap HoursOf(b) = {}
    <3> SUFFICES ASSUME NEW a \in all, NEW b \in all, a # b PROVE HoursOf(a) \cap HoursOf(b) = {}
      OBVIOUS
    <3>1. ~Overlaps(a, b) /\ a \in Stamp /\ b \in Stamp
      BY <2>1, <2>3
    <3> QED BY <3>1, Instants, IntervalsMeet DEF Overlaps, HoursOf
  <2>5. WeekStart(subject) \in Int /\ StartOf(subject) \in week
    <3>1. subject.start % Week \in 0 .. Week - 1 /\ StartOf(subject) \in Int /\ Week \in Nat \ {0}
      BY <2>1, Instants, RulesAssumption DEF Stamp
    <3> QED BY <3>1 DEF WeekStart
  <2>6. \A w \in all : StartOf(w) \in HoursOf(w) /\ StartOf(w) \in Int
    BY <2>1, Instants DEF HoursOf
  <2>7. \A w \in all : w \in In <=> HoursOf(w) \subseteq week
    <3>1. \A w \in others : w \in In <=> StartOf(w) \in week
      BY <2>1, <2>5, <2>6, RulesAssumption DEF InWeek
    <3> HIDE DEF week
    <3> QED BY <2>5, <2>6, <3>1
  <2>8. UNION {HoursOf(w) \cap week : w \in all} = UNION {HoursOf(w) : w \in In}
    <3>1. In \subseteq all /\ \A w \in all : w \notin In => HoursOf(w) \cap week = {}
      BY <2>7
    <3>2. \A w \in In : HoursOf(w) \cap week = HoursOf(w)
      BY <2>7, <3>1
    <3> HIDE DEF In, week, all
    <3> QED BY <3>1, <3>2
  <2>9. IsFiniteSet(W) /\ subject \notin W /\ IsFiniteSet(In)
    BY <2>1, FS_Subset, FS_AddElement DEF RosterGrows
  <2>10. \A w \in In : w.hours \in Nat /\ w \in Stamp /\ w \in all
    BY <2>1 DEF Stamp
  <2>11. WeeklyHours(subject, others) = subject.hours + HoursIn(W)
    BY WeeklySum
  <2> HIDE DEF W, all, week
  <2>12. HoursIn(In) = subject.hours + HoursIn(W)
    BY <2>9, <2>10, HoursAdd
  <2> HIDE DEF In
  <2>13. Cardinality(UNION {HoursOf(w) : w \in In}) = HoursIn(In)
    BY <2>4, <2>9, <2>10, DisjointHours
  <2> QED BY <2>8, <2>11, <2>12, <2>13 DEF WeeklyHoursExceeded
<1> QED BY <1>1, Grows, PTL
==============================================================================
