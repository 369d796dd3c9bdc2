-------------------------- MODULE WebConsoleProofs --------------------------
(***************************************************************************)
(* What WebConsole promises of the screen, for any sites and shifts and    *)
(* however many loads and claims one tab makes.                            *)
(*                                                                         *)
(* The argument: a shift that was claimed is closed from the moment the    *)
(* server answered, so a list read for the reload of the claim, or for any *)
(* later load, lacks it; a load of a site that is not the chosen one was   *)
(* started before the chosen one was asked for, or by a claim made from    *)
(* such a load; and `claiming` names the shift of an unfinished claim until*)
(* another shift is claimed or another claim ends.                         *)
(***************************************************************************)
EXTENDS WebConsole, SequenceTheorems, TLAPS

ClaimRecord ==
  [shift: Shifts, from: Nat, ended: Nat,
   at: {"sent", "won", "lost", "broken", "reloading", "done"}]

LoadRecord ==
  [site: Sites, claim: Nat, list: SUBSET SUBSET Shifts, end: {"pending", "done", "failed"}]

\* The lists in answers are of the site that was asked for, and shown as such.
ListsAreOfTheirSite ==
  /\ loads \in Seq(LoadRecord)
  /\ \A n \in DOMAIN loads : \A list \in loads[n].list : \A s \in list : SiteOf[s] = loads[n].site
  /\ shown.by = 0 => shown.list = {}

\* The list a claim was made from was on the screen by then; a claim that has
\* not ended has no end.
ClaimsAreDated ==
  \A c \in DOMAIN claims :
    /\ claims[c].from \in 0 .. Len(loads)
    /\ claims[c].at # "done" => claims[c].ended = 0

\* One of the first k claims, at site s, was made from a list loaded before the
\* chosen site was asked for.
ChainBegan(k, s) ==
  \E c \in 1 .. k : SiteOf[claims[c].shift] = s /\ AskedAfter(claims[c].from)

\* A load, and a claim, of another site than the chosen one has its cause.
StraysHaveACause ==
  /\ \A n \in DOMAIN loads : loads[n].site # site =>
       AskedAfter(n) \/ ChainBegan(loads[n].claim, loads[n].site)
  /\ \A c \in DOMAIN claims : SiteOf[claims[c].shift] # site =>
       ChainBegan(c, SiteOf[claims[c].shift])

\* A claim that was answered, or reloads, is of a shift that is closed; a claim
\* has one reload, and ends with it.
ReloadsFollowClaims ==
  /\ \A c \in DOMAIN claims : claims[c].at \in {"won", "lost"} => claims[c].shift \notin open
  /\ \A n \in DOMAIN loads : loads[n].claim # 0 =>
       /\ claims[loads[n].claim].at \in {"reloading", "done"}
       /\ claims[loads[n].claim].shift \notin open
       /\ Pending(n) => claims[loads[n].claim].at = "reloading"
  /\ \A n, m \in DOMAIN loads : loads[n].claim = loads[m].claim /\ loads[n].claim # 0 => n = m

\* Lists read for a reload or a later load, and the screen that shows one, lack
\* the shift of the claim.
ListsLackTheClaimed ==
  \A n \in DOMAIN loads : loads[n].claim # 0 =>
    /\ \A m \in DOMAIN loads : m >= n => \A list \in loads[m].list : claims[loads[n].claim].shift \notin list
    /\ shown.by >= n => claims[loads[n].claim].shift \notin shown.list

\* `claiming` names the shift of an unfinished claim, unless since then another
\* shift was claimed or another claim ended.
ClaimingTells ==
  /\ \A c \in DOMAIN claims : claims[c].at # "done" =>
       claiming = claims[c].shift \/ Between(c, Len(claims) + 1)
  /\ SecondClaimNeedsAnother

IInv ==
  /\ TypeOK /\ ListsAreOfTheirSite /\ ClaimsAreDated /\ StraysHaveACause
  /\ ReloadsFollowClaims /\ ListsLackTheClaimed /\ ClaimingTells

\* Nothing has been asked for yet.
LEMMA InitEstablishes == Init => IInv
<1> SUFFICES ASSUME Init PROVE IInv
  OBVIOUS
<1> USE ConsoleAssumption DEF Init
<1>1. loads = <<>> /\ claims = <<>> /\ Len(loads) = 0 /\ Len(claims) = 0
  OBVIOUS
<1>2. TypeOK
  BY <1>1 DEF TypeOK
<1>3. ListsAreOfTheirSite /\ ClaimsAreDated /\ StraysHaveACause
  BY <1>1 DEF ListsAreOfTheirSite, ClaimsAreDated, StraysHaveACause
<1>4. ReloadsFollowClaims /\ ListsLackTheClaimed /\ ClaimingTells
  BY <1>1 DEF ReloadsFollowClaims, ListsLackTheClaimed, ClaimingTells, SecondClaimNeedsAnother
<1> QED BY <1>2, <1>3, <1>4 DEF IInv

\* The histories of loads and claims are sequences of records.
LEMMA Histories ==
  ASSUME IInv
  PROVE  /\ loads \in Seq(LoadRecord) /\ DOMAIN loads = 1 .. Len(loads) /\ Len(loads) \in Nat
         /\ claims \in Seq(ClaimRecord) /\ DOMAIN claims = 1 .. Len(claims) /\ Len(claims) \in Nat
         /\ \A n \in DOMAIN loads : loads[n] \in LoadRecord /\ loads[n].claim \in 0 .. Len(claims)
         /\ \A c \in DOMAIN claims : claims[c] \in ClaimRecord
<1>1. loads \in Seq(LoadRecord) /\ claims \in Seq(ClaimRecord)
  BY DEF IInv, TypeOK, ListsAreOfTheirSite, ClaimRecord
<1>2. /\ DOMAIN loads = 1 .. Len(loads) /\ Len(loads) \in Nat
      /\ DOMAIN claims = 1 .. Len(claims) /\ Len(claims) \in Nat
      /\ \A n \in DOMAIN loads : loads[n] \in LoadRecord
      /\ \A c \in DOMAIN claims : claims[c] \in ClaimRecord
  BY <1>1
<1>3. \A n \in DOMAIN loads : loads[n].claim \in 0 .. Len(claims)
  BY DEF IInv, TypeOK
<1> QED BY <1>1, <1>2, <1>3

\* One more load, at the end.
LEMMA LoadAdded ==
  ASSUME IInv, NEW r \in LoadRecord, loads' = Append(loads, r)
  PROVE  /\ loads' \in Seq(LoadRecord) /\ Len(loads') = Len(loads) + 1
         /\ DOMAIN loads' = 1 .. Len(loads) + 1
         /\ \A n \in DOMAIN loads : loads'[n] = loads[n]
         /\ loads'[Len(loads) + 1] = r
  BY Histories, AppendProperties

\* One load changed in its list and its end.
LEMMA LoadChanged ==
  ASSUME IInv, NEW n \in DOMAIN loads, NEW r \in LoadRecord, loads' = [loads EXCEPT ![n] = r]
  PROVE  /\ loads' \in Seq(LoadRecord) /\ Len(loads') = Len(loads) /\ DOMAIN loads' = DOMAIN loads
         /\ \A m \in DOMAIN loads : loads'[m] = IF m = n THEN r ELSE loads[m]
<1>1. loads \in Seq(LoadRecord) /\ n \in 1 .. Len(loads)
  BY Histories
<1> QED BY <1>1, ExceptSeq

\* One claim a step further.
LEMMA ClaimMoved ==
  ASSUME IInv, NEW c \in DOMAIN claims, NEW r \in ClaimRecord, claims' = [claims EXCEPT ![c] = r],
         r.shift = claims[c].shift, r.from = claims[c].from
  PROVE  /\ claims' \in Seq(ClaimRecord) /\ Len(claims') = Len(claims)
         /\ DOMAIN claims' = DOMAIN claims
         /\ \A d \in DOMAIN claims :
              /\ claims'[d].shift = claims[d].shift /\ claims'[d].from = claims[d].from
              /\ claims'[d].at = IF d = c THEN r.at ELSE claims[d].at
              /\ claims'[d].ended = IF d = c THEN r.ended ELSE claims[d].ended
<1>1. claims \in Seq(ClaimRecord) /\ c \in 1 .. Len(claims)
  BY Histories
<1>2. /\ claims' \in Seq(ClaimRecord) /\ Len(claims') = Len(claims)
      /\ \A d \in 1 .. Len(claims) : claims'[d] = IF d = c THEN r ELSE claims[d]
  BY <1>1, ExceptSeq
<1>3. DOMAIN claims' = DOMAIN claims
  OBVIOUS
<1> QED BY <1>1, <1>2, <1>3, Histories

\* A claim goes on to v without ending.
LEMMA ClaimGoesOn ==
  ASSUME IInv, NEW c \in DOMAIN claims, NEW v \in {"won", "lost", "broken", "reloading"},
         claims[c].at # "done", claims' = [claims EXCEPT ![c].at = v]
  PROVE  /\ claims' \in Seq(ClaimRecord) /\ Len(claims') = Len(claims)
         /\ DOMAIN claims' = DOMAIN claims
         /\ \A d \in DOMAIN claims :
              /\ claims'[d].shift = claims[d].shift /\ claims'[d].from = claims[d].from
              /\ claims'[d].at = IF d = c THEN v ELSE claims[d].at
              /\ claims'[d].ended = claims[d].ended
<1> DEFINE r == [claims[c] EXCEPT !.at = v]
<1>1. claims[c] \in ClaimRecord
  BY Histories
<1>2. r \in ClaimRecord /\ r.shift = claims[c].shift /\ r.from = claims[c].from
      /\ r.at = v /\ r.ended = claims[c].ended
  BY <1>1 DEF ClaimRecord
<1>3. claims' = [claims EXCEPT ![c] = r]
  OBVIOUS
<1> HIDE DEF r
<1> QED BY <1>2, <1>3, ClaimMoved

\* A claim ends, after as many claims as there are.
LEMMA ClaimEnds ==
  ASSUME IInv, NEW c \in DOMAIN claims, c # 0, Finish(c)
  PROVE  /\ claims' \in Seq(ClaimRecord) /\ Len(claims') = Len(claims)
         /\ DOMAIN claims' = DOMAIN claims
         /\ \A d \in DOMAIN claims :
              /\ claims'[d].shift = claims[d].shift /\ claims'[d].from = claims[d].from
              /\ claims'[d].at = IF d = c THEN "done" ELSE claims[d].at
              /\ claims'[d].ended = IF d = c THEN Len(claims) ELSE claims[d].ended
<1> DEFINE r == [claims[c] EXCEPT !.at = "done", !.ended = Len(claims)]
<1>1. claims[c] \in ClaimRecord /\ Len(claims) \in Nat
  BY Histories
<1>2. r \in ClaimRecord /\ r.shift = claims[c].shift /\ r.from = claims[c].from
      /\ r.at = "done" /\ r.ended = Len(claims)
  BY <1>1 DEF ClaimRecord
<1>3. claims' = [claims EXCEPT ![c] = r]
  BY DEF Finish
<1> HIDE DEF r
<1> QED BY <1>2, <1>3, ClaimMoved

\* What ClaimingTells says of a pair of claims is kept by a step that ends the
\* claim f (0: none) or none, and makes no new one.
LEMMA ClaimingKept ==
  ASSUME IInv, NEW f \in 0 .. Len(claims), DOMAIN claims' = DOMAIN claims, Len(claims') = Len(claims),
         f # 0 => claims[f].at # "done",
         \A d \in DOMAIN claims :
           /\ claims'[d].shift = claims[d].shift
           /\ (d = f \/ claims[d].at = "done") <=> claims'[d].at = "done"
           /\ claims'[d].ended = IF d = f THEN Len(claims) ELSE claims[d].ended,
         claiming' = IF f = 0 THEN claiming ELSE NoShift
  PROVE  ClaimingTells'
<1>1. DOMAIN claims = 1 .. Len(claims) /\ Len(claims) \in Nat
  BY Histories
<1>2. f # 0 => f \in DOMAIN claims /\ claims[f].ended = 0
  BY <1>1 DEF IInv, ClaimsAreDated
<1>3. ASSUME NEW c \in DOMAIN claims, NEW d \in 1 .. Len(claims) + 1, Between(c, d) PROVE Between(c, d)'
  <2>1. PICK e \in 1 .. d - 1 :
          \/ e > c /\ claims[e].shift # claims[c].shift
          \/ e # c /\ claims[e].ended \in c .. d - 1
    BY <1>3 DEF Between
  <2>2. e \in DOMAIN claims
    BY <1>1
  <2>3. CASE e > c /\ claims[e].shift # claims[c].shift
    BY <2>2, <2>3 DEF Between
  <2>4. CASE e # c /\ claims[e].ended \in c .. d - 1
    <3>1. e # f
      BY <1>1, <1>2, <2>4
    <3> QED BY <2>2, <2>4, <3>1 DEF Between
  <2> QED BY <2>1, <2>3, <2>4
<1>4. ASSUME NEW c \in DOMAIN claims', claims'[c].at # "done"
      PROVE  claiming' = claims'[c].shift \/ Between(c, Len(claims) + 1)'
  <2>1. c \in DOMAIN claims /\ claims[c].at # "done" /\ c # f
    BY <1>4
  <2>2. CASE f = 0
    BY <1>1, <1>3, <2>1, <2>2 DEF IInv, ClaimingTells
  <2>3. CASE f # 0
    <3>1. claims'[f].ended \in c .. (Len(claims) + 1) - 1 /\ f \in 1 .. (Len(claims) + 1) - 1
      BY <1>1, <1>2, <2>1, <2>3
    <3> QED BY <2>1, <3>1 DEF Between
  <2> QED BY <2>2, <2>3
<1>5. SecondClaimNeedsAnother'
  <2> SUFFICES ASSUME NEW c \in DOMAIN claims', NEW d \in DOMAIN claims', c < d,
                      claims'[c].shift = claims'[d].shift, claims'[c].at # "done", claims'[d].at # "done"
               PROVE  Between(c, d)'
    BY DEF SecondClaimNeedsAnother
  <2>1. Between(c, d) /\ d \in 1 .. Len(claims) + 1
    BY <1>1 DEF IInv, ClaimingTells, SecondClaimNeedsAnother
  <2> QED BY <1>3, <2>1
<1> QED BY <1>4, <1>5 DEF ClaimingTells

\* What StraysHaveACause says is kept by a step that starts no load, makes no
\* claim and leaves the site alone.
LEMMA StraysKept ==
  ASSUME IInv, site' = site, Len(loads') = Len(loads), DOMAIN loads' = DOMAIN loads,
         DOMAIN claims' = DOMAIN claims,
         \A n \in DOMAIN loads : loads'[n].site = loads[n].site /\ loads'[n].claim = loads[n].claim,
         \A c \in DOMAIN claims : claims'[c].shift = claims[c].shift /\ claims'[c].from = claims[c].from
  PROVE  StraysHaveACause'
<1>1. /\ DOMAIN loads = 1 .. Len(loads) /\ Len(loads) \in Nat
      /\ DOMAIN claims = 1 .. Len(claims) /\ Len(claims) \in Nat
      /\ \A n \in DOMAIN loads : loads[n] \in LoadRecord /\ loads[n].claim \in 0 .. Len(claims)
  BY Histories
<1>2. ASSUME NEW n \in 0 .. Len(loads), AskedAfter(n) PROVE AskedAfter(n)'
  <2>1. PICK m \in n + 1 .. Len(loads) : loads[m].claim = 0 /\ loads[m].site = site
    BY <1>2 DEF AskedAfter
  <2> QED BY <1>1, <2>1 DEF AskedAfter
<1>3. ASSUME NEW k \in 0 .. Len(claims), NEW s, ChainBegan(k, s) PROVE ChainBegan(k, s)'
  <2>1. PICK c \in 1 .. k : SiteOf[claims[c].shift] = s /\ AskedAfter(claims[c].from)
    BY <1>3 DEF ChainBegan
  <2>2. c \in DOMAIN claims /\ claims[c].from \in 0 .. Len(loads)
    BY <1>1 DEF IInv, ClaimsAreDated
  <2>3. PICK f \in 0 .. Len(loads) : f = claims[c].from /\ f = claims'[c].from
    BY <2>2
  <2>4. AskedAfter(f)'
    BY <1>2, <2>1, <2>3
  <2> QED BY <2>1, <2>2, <2>3, <2>4 DEF ChainBegan, AskedAfter
<1>4. ASSUME NEW n \in DOMAIN loads', loads'[n].site # site'
      PROVE  AskedAfter(n)' \/ ChainBegan(loads[n].claim, loads[n].site)'
  <2>1. AskedAfter(n) \/ ChainBegan(loads[n].claim, loads[n].site)
    BY <1>4 DEF IInv, StraysHaveACause
  <2>2. PICK q \in 0 .. Len(claims), x \in Sites :
          q = loads[n].claim /\ x = loads[n].site /\ q = loads'[n].claim /\ x = loads'[n].site
    BY <1>1 DEF LoadRecord
  <2>3. AskedAfter(n)' \/ ChainBegan(q, x)'
    BY <1>1, <1>2, <1>3, <2>1, <2>2
  <2> QED BY <2>2, <2>3 DEF ChainBegan, AskedAfter
<1>5. ASSUME NEW c \in DOMAIN claims', SiteOf[claims'[c].shift] # site'
      PROVE  ChainBegan(c, SiteOf[claims[c].shift])'
  <2>1. PICK x : x = SiteOf[claims[c].shift] /\ x = SiteOf[claims'[c].shift]
    OBVIOUS
  <2>2. ChainBegan(c, x) /\ c \in 0 .. Len(claims)
    BY <1>1, <1>5, <2>1 DEF IInv, StraysHaveACause
  <2>3. ChainBegan(c, x)'
    BY <1>3, <2>2
  <2> QED BY <2>1, <2>3 DEF ChainBegan, AskedAfter
<1> QED BY <1>4, <1>5 DEF StraysHaveACause

\* The type invariant, one part for each variable that changes.
LEMMA TypesFromParts ==
  ASSUME loads' \in Seq(LoadRecord), claims' \in Seq(ClaimRecord),
         \A n \in DOMAIN loads' : loads'[n].claim \in 0 .. Len(claims'),
         open' \subseteq Shifts, worker' \in BOOLEAN, listing' \in BOOLEAN, loading' \in BOOLEAN,
         site' \in Sites \cup {NoSite}, claiming' \in Shifts \cup {NoShift},
         error' \in {"none", "sites", "identity", "load", "claim"},
         shown' \in [by: 0 .. Len(loads'), list: SUBSET Shifts],
         \A s \in shown'.list : SiteOf[s] = loads'[shown'.by].site
  PROVE  TypeOK'
<1>1. \A n \in DOMAIN loads' : loads'[n] \in LoadRecord
  OBVIOUS
<1>2. \A n \in DOMAIN loads' :
        loads'[n] \in [site: Sites, claim: 0 .. Len(claims'), list: SUBSET SUBSET Shifts,
                       end: {"pending", "done", "failed"}]
  BY <1>1 DEF LoadRecord
<1> QED BY <1>2 DEF TypeOK, ClaimRecord

\* A step that adds a load, of the site chosen then or for a claim, keeps what
\* is known of the lists.
LEMMA LoadStarts ==
  ASSUME IInv, NEW s \in Sites, NEW c \in 0 .. Len(claims'), StartLoad(s, c),
         UNCHANGED <<open, worker, shown, claiming>>, listing' \in BOOLEAN,
         c = 0 => site' = s /\ UNCHANGED claims,
         c # 0 => /\ site' = site /\ claims' = [claims EXCEPT ![c].at = "reloading"]
                  /\ c \in DOMAIN claims /\ claims[c].at \in {"won", "lost"}
                  /\ s = SiteOf[claims[c].shift]
  PROVE  IInv'
<1> DEFINE r == [site |-> s, claim |-> c, list |-> {}, end |-> "pending"]
           k == Len(loads) + 1
<1>1. c \in Nat /\ r \in LoadRecord
  <2>1. CASE c = 0
    BY <2>1 DEF LoadRecord
  <2>2. CASE c # 0
    BY <2>2, Histories DEF LoadRecord
  <2> QED BY <2>1, <2>2
<1>2. loads' = Append(loads, r) /\ loading' = TRUE /\ error' = "none"
  BY DEF StartLoad
<1>3. /\ loads' \in Seq(LoadRecord) /\ Len(loads') = k /\ DOMAIN loads' = 1 .. k
      /\ \A n \in DOMAIN loads : loads'[n] = loads[n]
      /\ loads'[k] = r
  BY <1>1, <1>2, LoadAdded
<1>4. /\ claims' \in Seq(ClaimRecord) /\ Len(claims') = Len(claims) /\ DOMAIN claims' = DOMAIN claims
      /\ \A d \in DOMAIN claims :
           /\ claims'[d].shift = claims[d].shift /\ claims'[d].from = claims[d].from
           /\ claims'[d].ended = claims[d].ended
           /\ claims'[d].at = IF d = c THEN "reloading" ELSE claims[d].at
  <2>1. CASE c = 0
    BY <2>1, Histories
  <2>2. CASE c # 0
    BY <2>2, ClaimGoesOn
  <2> QED BY <2>1, <2>2
<1>5. /\ DOMAIN loads = 1 .. Len(loads) /\ Len(loads) \in Nat /\ k \in Nat
      /\ DOMAIN claims = 1 .. Len(claims) /\ Len(claims) \in Nat
      /\ \A n \in DOMAIN loads : loads[n] \in LoadRecord /\ loads[n].claim \in 0 .. Len(claims)
  BY Histories
<1>6. \A n \in DOMAIN loads' : n \in DOMAIN loads \/ n = k
  BY <1>3, <1>5
<1>7. r.site = s /\ r.claim = c /\ r.list = {} /\ r.end = "pending"
  OBVIOUS
<1> HIDE DEF r, k
<1>8. shown \in [by: 0 .. Len(loads), list: SUBSET Shifts] /\ (shown.by = 0 => shown.list = {})
      /\ (\A x \in shown.list : SiteOf[x] = loads[shown.by].site)
  BY DEF IInv, TypeOK, ListsAreOfTheirSite
<1>9. TypeOK'
  <2>1. \A n \in DOMAIN loads' : loads'[n].claim \in 0 .. Len(claims')
    BY <1>3, <1>4, <1>5, <1>6, <1>7
  <2>2. shown' \in [by: 0 .. Len(loads'), list: SUBSET Shifts]
    BY <1>3, <1>5, <1>8 DEF k
  <2>3. \A x \in shown'.list : SiteOf[x] = loads'[shown'.by].site
    BY <1>3, <1>5, <1>8
  <2>4. site' \in Sites \cup {NoSite}
    BY DEF IInv, TypeOK
  <2>5. open' \subseteq Shifts /\ worker' \in BOOLEAN /\ claiming' \in Shifts \cup {NoShift}
    BY DEF IInv, TypeOK
  <2> QED BY <1>2, <1>3, <1>4, <2>1, <2>2, <2>3, <2>4, <2>5, TypesFromParts
<1>10. ListsAreOfTheirSite'
  <2>1. \A n \in DOMAIN loads' : \A list \in loads'[n].list : \A x \in list : SiteOf[x] = loads'[n].site
    BY <1>3, <1>6, <1>7 DEF IInv, ListsAreOfTheirSite
  <2> QED BY <1>3, <1>8, <2>1 DEF ListsAreOfTheirSite
<1>15. ClaimsAreDated'
  BY <1>3, <1>4, <1>5 DEF IInv, ClaimsAreDated, k
<1>11. StraysHaveACause'
  <2>1. CASE c = 0
    <3>1. k \in Nat /\ k > Len(loads) /\ loads'[k].claim = 0 /\ loads'[k].site = site'
      BY <1>3, <1>5, <1>7, <2>1 DEF k
    <3>2. \A n \in 0 .. Len(loads) : AskedAfter(n)'
      BY <1>3, <1>5, <3>1 DEF AskedAfter
    <3>3. \A n \in DOMAIN loads' : loads'[n].site # site' => AskedAfter(n)'
      BY <1>3, <1>5, <1>6, <3>1, <3>2
    <3>4. \A d \in DOMAIN claims' : d \in 1 .. d /\ claims'[d].from \in 0 .. Len(loads)
      BY <1>4, <1>5 DEF IInv, ClaimsAreDated
    <3>5. \A d \in DOMAIN claims' : ChainBegan(d, SiteOf[claims[d].shift])'
      BY <3>2, <3>4 DEF ChainBegan, AskedAfter
    <3> QED BY <3>3, <3>5 DEF StraysHaveACause
  <2>2. CASE c # 0
    <3>1. ASSUME NEW n \in 0 .. Len(loads), AskedAfter(n) PROVE AskedAfter(n)'
      <4>1. PICK m \in n + 1 .. Len(loads) : loads[m].claim = 0 /\ loads[m].site = site
        BY <3>1 DEF AskedAfter
      <4>2. m \in n + 1 .. Len(loads') /\ loads'[m] = loads[m]
        BY <1>3, <1>5 DEF k
      <4> QED BY <2>2, <4>1, <4>2 DEF AskedAfter
    <3>2. ASSUME NEW d \in 0 .. Len(claims), NEW x, ChainBegan(d, x) PROVE ChainBegan(d, x)'
      <4>1. PICK e \in 1 .. d : SiteOf[claims[e].shift] = x /\ AskedAfter(claims[e].from)
        BY <3>2 DEF ChainBegan
      <4>2. e \in DOMAIN claims /\ claims[e].from \in 0 .. Len(loads)
        BY <1>5 DEF IInv, ClaimsAreDated
      <4>3. PICK f \in 0 .. Len(loads) : f = claims[e].from /\ f = claims'[e].from
        BY <1>4, <4>2
      <4>4. AskedAfter(f)'
        BY <3>1, <4>1, <4>3
      <4> QED BY <1>4, <4>1, <4>2, <4>3, <4>4 DEF ChainBegan, AskedAfter
    <3>3. ASSUME NEW d \in DOMAIN claims', SiteOf[claims'[d].shift] # site'
          PROVE  ChainBegan(d, SiteOf[claims[d].shift])'
      <4>1. PICK x : x = SiteOf[claims[d].shift] /\ x = SiteOf[claims'[d].shift]
        BY <1>4
      <4>2. ChainBegan(d, x) /\ d \in 0 .. Len(claims)
        BY <1>4, <1>5, <2>2, <3>3, <4>1 DEF IInv, StraysHaveACause
      <4>3. ChainBegan(d, x)'
        BY <3>2, <4>2
      <4> QED BY <4>1, <4>3 DEF ChainBegan, AskedAfter
    <3>4. ASSUME NEW n \in DOMAIN loads', loads'[n].site # site'
          PROVE  AskedAfter(n)' \/ ChainBegan(loads[n].claim, loads[n].site)'
      <4>1. CASE n \in DOMAIN loads
        <5>1. AskedAfter(n) \/ ChainBegan(loads[n].claim, loads[n].site)
          BY <1>3, <2>2, <3>4, <4>1 DEF IInv, StraysHaveACause
        <5>2. PICK q \in 0 .. Len(claims), x \in Sites :
                q = loads[n].claim /\ x = loads[n].site /\ q = loads'[n].claim /\ x = loads'[n].site
          BY <1>3, <1>5, <4>1 DEF LoadRecord
        <5>3. AskedAfter(n)' \/ ChainBegan(q, x)'
          BY <1>5, <3>1, <3>2, <4>1, <5>1, <5>2
        <5> QED BY <5>2, <5>3 DEF ChainBegan, AskedAfter
      <4>2. CASE n = k
        <5>1. loads'[n].site = SiteOf[claims[c].shift] /\ loads'[n].claim = c /\ c \in DOMAIN claims'
              /\ claims'[c].shift = claims[c].shift
          BY <1>3, <1>4, <1>7, <2>2, <4>2
        <5>2. SiteOf[claims'[c].shift] # site'
          BY <3>4, <5>1
        <5>3. ChainBegan(c, SiteOf[claims[c].shift])'
          BY <3>3, <5>1, <5>2
        <5> QED BY <5>1, <5>3 DEF ChainBegan, AskedAfter
      <4> QED BY <1>6, <3>4, <4>1, <4>2
    <3> QED BY <3>3, <3>4 DEF StraysHaveACause
  <2> QED BY <2>1, <2>2
<1>12. ReloadsFollowClaims'
  <2>1. c # 0 => \A n \in DOMAIN loads : loads[n].claim # c
    BY DEF IInv, ReloadsFollowClaims
  <2>2. c # 0 => claims[c].shift \notin open
    BY DEF IInv, ReloadsFollowClaims
  <2>3. \A d \in DOMAIN claims' : claims'[d].at \in {"won", "lost"} => claims'[d].shift \notin open'
    BY <1>4 DEF IInv, ReloadsFollowClaims
  <2>4. ASSUME NEW n \in DOMAIN loads', loads'[n].claim # 0
        PROVE  /\ claims'[loads'[n].claim].at \in {"reloading", "done"}
               /\ claims'[loads'[n].claim].shift \notin open'
               /\ Pending(n)' => claims'[loads'[n].claim].at = "reloading"
    <3>1. CASE n \in DOMAIN loads
      BY <1>3, <1>4, <1>5, <2>1, <2>4, <3>1 DEF IInv, ReloadsFollowClaims, Pending
    <3>2. CASE n = k
      BY <1>3, <1>4, <1>7, <2>2, <2>4, <3>2
    <3> QED BY <1>6, <3>1, <3>2
  <2>5. \A n, m \in DOMAIN loads' : loads'[n].claim = loads'[m].claim /\ loads'[n].claim # 0 => n = m
    BY <1>3, <1>6, <1>7, <2>1 DEF IInv, ReloadsFollowClaims
  <2> QED BY <2>3, <2>4, <2>5 DEF ReloadsFollowClaims
<1>13. ListsLackTheClaimed'
  <2>1. ASSUME NEW n \in DOMAIN loads', loads'[n].claim # 0
        PROVE  /\ \A m \in DOMAIN loads' :
                    m >= n => \A list \in loads'[m].list : claims'[loads'[n].claim].shift \notin list
               /\ shown'.by >= n => claims'[loads'[n].claim].shift \notin shown'.list
    <3>1. CASE n \in DOMAIN loads
      BY <1>3, <1>4, <1>5, <1>6, <1>7, <2>1, <3>1 DEF IInv, ListsLackTheClaimed
    <3>2. CASE n = k
      BY <1>3, <1>5, <1>7, <1>8, <3>2 DEF k
    <3> QED BY <1>6, <3>1, <3>2
  <2> QED BY <2>1 DEF ListsLackTheClaimed
<1>14. ClaimingTells'
  <2>1. /\ 0 \in 0 .. Len(claims) /\ 0 \notin DOMAIN claims
        /\ c # 0 => c \in DOMAIN claims /\ claims[c].at # "done"
    BY <1>5
  <2>2. \A d \in DOMAIN claims : (d = 0 \/ claims[d].at = "done") <=> claims'[d].at = "done"
    BY <1>4, <2>1
  <2> QED BY <1>4, <2>1, <2>2, ClaimingKept
<1> QED BY <1>9, <1>10, <1>11, <1>12, <1>13, <1>14, <1>15 DEF IInv

\* A step that leaves the histories and the screen alone, and may close a shift.
LEMMA Quiet ==
  ASSUME IInv, UNCHANGED <<worker, site, loads, claims, shown, claiming>>, open' \subseteq open,
         listing' \in BOOLEAN, loading' \in BOOLEAN,
         error' \in {"none", "sites", "identity", "load", "claim"}
  PROVE  IInv'
<1>1. TypeOK'
  BY DEF IInv, TypeOK
<1>2. ListsAreOfTheirSite' /\ ClaimsAreDated' /\ StraysHaveACause'
  BY StraysKept DEF IInv, ListsAreOfTheirSite, ClaimsAreDated
<1>3. ReloadsFollowClaims'
  BY DEF IInv, ReloadsFollowClaims, Pending
<1>4. ListsLackTheClaimed' /\ ClaimingTells'
  BY DEF IInv, ListsLackTheClaimed, ClaimingTells, SecondClaimNeedsAnother, Between
<1> QED BY <1>1, <1>2, <1>3, <1>4 DEF IInv

\* A claim that no load is for moves on.
LEMMA ClaimMovesOn ==
  ASSUME IInv, NEW c \in DOMAIN claims, NEW v \in {"won", "lost", "broken", "done"},
         claims[c].at \notin {"reloading", "done"},
         UNCHANGED <<worker, listing, site, loads, shown, loading>>, open' \subseteq open,
         error' \in {"none", "sites", "identity", "load", "claim"},
         v \in {"won", "lost"} => claims[c].shift \notin open',
         \/ v # "done" /\ claims' = [claims EXCEPT ![c].at = v] /\ claiming' = claiming
         \/ v = "done" /\ Finish(c) /\ claiming' = NoShift
  PROVE  IInv'
<1>0. c # 0 /\ c \in 0 .. Len(claims) /\ 0 \in 0 .. Len(claims) /\ 0 \notin DOMAIN claims
  BY Histories
<1>1. /\ claims' \in Seq(ClaimRecord) /\ Len(claims') = Len(claims) /\ DOMAIN claims' = DOMAIN claims
      /\ \A d \in DOMAIN claims :
           /\ claims'[d].shift = claims[d].shift /\ claims'[d].from = claims[d].from
           /\ claims'[d].at = IF d = c THEN v ELSE claims[d].at
           /\ claims'[d].ended = IF d = c /\ v = "done" THEN Len(claims) ELSE claims[d].ended
  <2>1. CASE v # "done"
    BY <2>1, ClaimGoesOn
  <2>2. CASE v = "done"
    BY <1>0, <2>2, ClaimEnds
  <2> QED BY <2>1, <2>2
<1>2. /\ DOMAIN claims = 1 .. Len(claims) /\ Len(claims) \in Nat
      /\ \A n \in DOMAIN loads : loads[n].claim \in 0 .. Len(claims)
  BY Histories
<1>3. \A n \in DOMAIN loads : loads[n].claim # c
  BY <1>2 DEF IInv, ReloadsFollowClaims
<1>4. TypeOK'
  <2>1. loads' \in Seq(LoadRecord) /\ \A n \in DOMAIN loads' : loads'[n].claim \in 0 .. Len(claims')
    BY <1>1, Histories
  <2>2. /\ open' \subseteq Shifts /\ worker' \in BOOLEAN /\ listing' \in BOOLEAN /\ loading' \in BOOLEAN
        /\ site' \in Sites \cup {NoSite} /\ claiming' \in Shifts \cup {NoShift}
        /\ shown' \in [by: 0 .. Len(loads'), list: SUBSET Shifts]
        /\ \A s \in shown'.list : SiteOf[s] = loads'[shown'.by].site
    BY DEF IInv, TypeOK
  <2> QED BY <1>1, <2>1, <2>2, TypesFromParts
<1>5. ListsAreOfTheirSite' /\ ClaimsAreDated' /\ StraysHaveACause'
  BY <1>1, StraysKept DEF IInv, ListsAreOfTheirSite, ClaimsAreDated
<1>6. ReloadsFollowClaims'
  BY <1>1, <1>2, <1>3 DEF IInv, ReloadsFollowClaims, Pending
<1>7. ListsLackTheClaimed'
  <2>1. \A n \in DOMAIN loads : loads[n].claim # 0 =>
          claims'[loads[n].claim].shift = claims[loads[n].claim].shift
    BY <1>1, <1>2
  <2> QED BY <2>1 DEF IInv, ListsLackTheClaimed
<1>8. ClaimingTells'
  <2>1. CASE v # "done"
    <3>1. \A d \in DOMAIN claims : (d = 0 \/ claims[d].at = "done") <=> claims'[d].at = "done"
      BY <1>0, <1>1, <2>1
    <3> QED BY <1>0, <1>1, <2>1, <3>1, ClaimingKept
  <2>2. CASE v = "done"
    <3>1. \A d \in DOMAIN claims : (d = c \/ claims[d].at = "done") <=> claims'[d].at = "done"
      BY <1>1, <2>2
    <3> QED BY <1>0, <1>1, <2>2, <3>1, ClaimingKept
  <2> QED BY <2>1, <2>2
<1> QED BY <1>4, <1>5, <1>6, <1>7, <1>8 DEF IInv

\* A load ends, shown or not, and with it the claim that awaits it.
LEMMA LoadEnds ==
  ASSUME IInv, NEW n \in DOMAIN loads, Pending(n), NEW how \in {"done", "failed"}, EndLoad(n, how),
         UNCHANGED <<open, worker, listing, site>>,
         error' \in {"none", "sites", "identity", "load", "claim"},
         shown' = shown \/ \E list \in loads[n].list : shown' = [by |-> n, list |-> list]
  PROVE  IInv'
<1> DEFINE r == [loads[n] EXCEPT !.end = how, !.list = {}]
           c == loads[n].claim
<1>1. /\ DOMAIN loads = 1 .. Len(loads) /\ Len(loads) \in Nat
      /\ DOMAIN claims = 1 .. Len(claims) /\ Len(claims) \in Nat
      /\ \A m \in DOMAIN loads : loads[m] \in LoadRecord /\ loads[m].claim \in 0 .. Len(claims)
  BY Histories
<1>2. r \in LoadRecord /\ r.site = loads[n].site /\ r.claim = c /\ r.list = {} /\ r.end = how
  BY <1>1 DEF LoadRecord
<1>3. loads' = [loads EXCEPT ![n] = r] /\ loading' = FALSE
      /\ claiming' = (IF c = 0 THEN claiming ELSE NoShift)
      /\ Finish(c)
  BY DEF EndLoad, Release
<1> HIDE DEF r
<1>4. /\ loads' \in Seq(LoadRecord) /\ Len(loads') = Len(loads) /\ DOMAIN loads' = DOMAIN loads
      /\ \A m \in DOMAIN loads : loads'[m] = IF m = n THEN r ELSE loads[m]
  BY <1>2, <1>3, LoadChanged
<1>5. \A m \in DOMAIN loads : loads'[m].site = loads[m].site /\ loads'[m].claim = loads[m].claim
                              /\ loads'[m].list \subseteq loads[m].list
                              /\ (loads'[m].end = "pending" => loads[m].end = "pending" /\ m # n)
  BY <1>2, <1>4
<1>6. c \in 0 .. Len(claims)
  BY <1>1
<1> HIDE DEF c
<1>7. /\ claims' \in Seq(ClaimRecord) /\ Len(claims') = Len(claims) /\ DOMAIN claims' = DOMAIN claims
      /\ \A d \in DOMAIN claims :
           /\ claims'[d].shift = claims[d].shift /\ claims'[d].from = claims[d].from
           /\ claims'[d].at = IF d = c THEN "done" ELSE claims[d].at
           /\ claims'[d].ended = IF d = c THEN Len(claims) ELSE claims[d].ended
  <2>1. CASE c = 0
    BY <1>1, <1>3, <2>1, Histories DEF Finish
  <2>2. CASE c # 0
    <3>1. c \in DOMAIN claims
      BY <1>1, <1>6, <2>2
    <3> QED BY <1>3, <2>2, <3>1, ClaimEnds
  <2> QED BY <2>1, <2>2
<1>8. TypeOK'
  <2>1. \A m \in DOMAIN loads' : loads'[m].claim \in 0 .. Len(claims')
    BY <1>1, <1>4, <1>5, <1>7
  <2>2. /\ open' \subseteq Shifts /\ worker' \in BOOLEAN /\ listing' \in BOOLEAN
        /\ site' \in Sites \cup {NoSite} /\ claiming' \in Shifts \cup {NoShift}
    BY <1>3 DEF IInv, TypeOK
  <2>3. /\ shown' \in [by: 0 .. Len(loads'), list: SUBSET Shifts]
        /\ \A s \in shown'.list : SiteOf[s] = loads'[shown'.by].site
    <3>1. CASE shown' = shown
      <4>1. shown.by = 0 => shown.list = {}
        BY DEF IInv, ListsAreOfTheirSite
      <4>2. shown.by \in 0 .. Len(loads) /\ (shown.by # 0 => shown.by \in DOMAIN loads)
        BY <1>1 DEF IInv, TypeOK
      <4> QED BY <1>4, <1>5, <3>1, <4>1, <4>2 DEF IInv, TypeOK
    <3>2. ASSUME NEW list \in loads[n].list, shown' = [by |-> n, list |-> list]
          PROVE  /\ shown' \in [by: 0 .. Len(loads'), list: SUBSET Shifts]
                 /\ \A s \in shown'.list : SiteOf[s] = loads'[shown'.by].site
      <4>1. list \in SUBSET Shifts
        BY <1>1 DEF LoadRecord
      <4>2. \A s \in list : SiteOf[s] = loads[n].site
        BY DEF IInv, ListsAreOfTheirSite
      <4> QED BY <1>1, <1>4, <1>5, <3>2, <4>1, <4>2
    <3> QED BY <3>1, <3>2
  <2> QED BY <1>3, <1>4, <1>7, <2>1, <2>2, <2>3, TypesFromParts
<1>9. ListsAreOfTheirSite'
  <2>1. shown'.by = 0 => shown'.list = {}
    BY <1>1 DEF IInv, ListsAreOfTheirSite
  <2> QED BY <1>4, <1>5, <2>1 DEF IInv, ListsAreOfTheirSite
<1>10. ClaimsAreDated' /\ StraysHaveACause'
  BY <1>4, <1>5, <1>7, StraysKept DEF IInv, ClaimsAreDated
<1>11. c # 0 => /\ claims[c].at = "reloading"
                /\ \A m \in DOMAIN loads : loads[m].claim = c => m = n
  BY DEF IInv, ReloadsFollowClaims, c
<1>12. ReloadsFollowClaims'
  <2>1. \A d \in DOMAIN claims' : claims'[d].at \in {"won", "lost"} => claims'[d].shift \notin open'
    BY <1>7 DEF IInv, ReloadsFollowClaims
  <2>2. ASSUME NEW m \in DOMAIN loads', loads'[m].claim # 0
        PROVE  /\ claims'[loads'[m].claim].at \in {"reloading", "done"}
               /\ claims'[loads'[m].claim].shift \notin open'
               /\ Pending(m)' => claims'[loads'[m].claim].at = "reloading"
    <3>1. m \in DOMAIN loads /\ loads[m].claim \in DOMAIN claims /\ loads'[m].claim = loads[m].claim
      BY <1>1, <1>4, <1>5, <2>2
    <3>2. Pending(m)' => Pending(m) /\ m # n
      BY <1>5, <3>1 DEF Pending
    <3> QED BY <1>7, <1>11, <2>2, <3>1, <3>2 DEF IInv, ReloadsFollowClaims
  <2>3. \A m, l \in DOMAIN loads' : loads'[m].claim = loads'[l].claim /\ loads'[m].claim # 0 => m = l
    BY <1>4, <1>5 DEF IInv, ReloadsFollowClaims
  <2> QED BY <2>1, <2>2, <2>3 DEF ReloadsFollowClaims
<1>13. ListsLackTheClaimed'
  <2>1. ASSUME NEW m \in DOMAIN loads', loads'[m].claim # 0
        PROVE  /\ \A l \in DOMAIN loads' :
                    l >= m => \A list \in loads'[l].list : claims'[loads'[m].claim].shift \notin list
               /\ shown'.by >= m => claims'[loads'[m].claim].shift \notin shown'.list
    <3>1. m \in DOMAIN loads /\ loads[m].claim \in DOMAIN claims /\ loads'[m].claim = loads[m].claim
          /\ claims'[loads'[m].claim].shift = claims[loads[m].claim].shift
      BY <1>1, <1>4, <1>5, <1>7, <2>1
    <3>2. \A l \in DOMAIN loads :
            l >= m => \A list \in loads[l].list : claims[loads[m].claim].shift \notin list
      BY <2>1, <3>1 DEF IInv, ListsLackTheClaimed
    <3>3. \A l \in DOMAIN loads' :
            l >= m => \A list \in loads'[l].list : claims'[loads'[m].claim].shift \notin list
      BY <1>4, <1>5, <3>1, <3>2
    <3>4. shown'.by >= m => claims'[loads'[m].claim].shift \notin shown'.list
      <4>1. CASE shown' = shown
        BY <2>1, <3>1, <4>1 DEF IInv, ListsLackTheClaimed
      <4>2. CASE \E list \in loads[n].list : shown' = [by |-> n, list |-> list]
        BY <3>1, <3>2, <4>2
      <4> QED BY <4>1, <4>2
    <3> QED BY <3>3, <3>4
  <2> QED BY <2>1 DEF ListsLackTheClaimed
<1>14. ClaimingTells'
  <2>1. \A d \in DOMAIN claims : (d = c \/ claims[d].at = "done") <=> claims'[d].at = "done"
    BY <1>7
  <2>2. c # 0 => claims[c].at # "done"
    BY <1>11
  <2> QED BY <1>3, <1>6, <1>7, <2>1, <2>2, ClaimingKept
<1> QED BY <1>8, <1>9, <1>10, <1>12, <1>13, <1>14 DEF IInv

\* The server reads a list for a load: the shifts that are open now.
LEMMA ListIsRead ==
  ASSUME IInv, NEW n \in DOMAIN loads, Listed(n)
  PROVE  IInv'
<1> DEFINE r == [loads[n] EXCEPT !.list = {OpensOf(loads[n].site)}]
<1>1. /\ DOMAIN loads = 1 .. Len(loads) /\ Len(loads) \in Nat
      /\ \A m \in DOMAIN loads : loads[m] \in LoadRecord /\ loads[m].claim \in 0 .. Len(claims)
      /\ claims \in Seq(ClaimRecord)
  BY Histories
<1>2. OpensOf(loads[n].site) \subseteq open /\ open \subseteq Shifts
      /\ \A s \in OpensOf(loads[n].site) : SiteOf[s] = loads[n].site
  BY DEF OpensOf, IInv, TypeOK
<1>3. r \in LoadRecord /\ r.site = loads[n].site /\ r.claim = loads[n].claim
      /\ r.list = {OpensOf(loads[n].site)} /\ r.end = loads[n].end
  BY <1>1, <1>2 DEF LoadRecord
<1>4. loads' = [loads EXCEPT ![n] = r] /\ UNCHANGED <<server, worker, listing, site, claims, ui>>
  BY DEF Listed
<1> HIDE DEF r
<1>5. /\ loads' \in Seq(LoadRecord) /\ Len(loads') = Len(loads) /\ DOMAIN loads' = DOMAIN loads
      /\ \A m \in DOMAIN loads : loads'[m] = IF m = n THEN r ELSE loads[m]
  BY <1>3, <1>4, LoadChanged
<1>6. \A m \in DOMAIN loads :
        /\ loads'[m].site = loads[m].site /\ loads'[m].claim = loads[m].claim
        /\ loads'[m].end = loads[m].end
        /\ loads'[m].list = IF m = n THEN {OpensOf(loads[m].site)} ELSE loads[m].list
  BY <1>3, <1>5
<1>7. UNCHANGED <<open, worker, listing, site, claims, shown, loading, error, claiming>>
  BY <1>4 DEF server, ui
<1>8. TypeOK'
  <2>1. \A m \in DOMAIN loads' : loads'[m].claim \in 0 .. Len(claims')
    BY <1>1, <1>5, <1>6, <1>7
  <2>2. \A s \in shown'.list : SiteOf[s] = loads'[shown'.by].site
    <3>1. shown.list # {} => shown.by \in DOMAIN loads
      BY <1>1 DEF IInv, TypeOK, ListsAreOfTheirSite
    <3> QED BY <1>6, <1>7, <3>1 DEF IInv, TypeOK
  <2>3. /\ open' \subseteq Shifts /\ worker' \in BOOLEAN /\ listing' \in BOOLEAN /\ loading' \in BOOLEAN
        /\ site' \in Sites \cup {NoSite} /\ claiming' \in Shifts \cup {NoShift}
        /\ error' \in {"none", "sites", "identity", "load", "claim"}
        /\ shown' \in [by: 0 .. Len(loads'), list: SUBSET Shifts]
    BY <1>5, <1>7 DEF IInv, TypeOK
  <2> QED BY <1>1, <1>5, <1>7, <2>1, <2>2, <2>3, TypesFromParts
<1>9. ListsAreOfTheirSite'
  <2>1. ASSUME NEW m \in DOMAIN loads, NEW list \in loads'[m].list, NEW s \in list
        PROVE  SiteOf[s] = loads[m].site
    <3>1. CASE m = n
      BY <1>2, <1>6, <2>1, <3>1
    <3>2. CASE m # n
      BY <1>6, <2>1, <3>2 DEF IInv, ListsAreOfTheirSite
    <3> QED BY <3>1, <3>2
  <2> QED BY <1>5, <1>6, <1>7, <2>1 DEF IInv, ListsAreOfTheirSite
<1>13. ClaimsAreDated' /\ StraysHaveACause'
  BY <1>5, <1>6, <1>7, StraysKept DEF IInv, ClaimsAreDated
<1>10. ReloadsFollowClaims'
  BY <1>5, <1>6, <1>7 DEF IInv, ReloadsFollowClaims, Pending
<1>11. ListsLackTheClaimed'
  <2>1. \A m \in DOMAIN loads : loads[m].claim # 0 => claims[loads[m].claim].shift \notin open
    BY DEF IInv, ReloadsFollowClaims
  <2>2. ASSUME NEW m \in DOMAIN loads, loads[m].claim # 0, NEW l \in DOMAIN loads, l >= m,
               NEW list \in loads'[l].list
        PROVE  claims[loads[m].claim].shift \notin list
    <3>1. CASE l = n
      BY <1>2, <1>6, <2>1, <2>2, <3>1
    <3>2. CASE l # n
      BY <1>6, <2>2, <3>2 DEF IInv, ListsLackTheClaimed
    <3> QED BY <3>1, <3>2
  <2>3. \A m \in DOMAIN loads : loads[m].claim # 0 /\ shown.by >= m =>
          claims[loads[m].claim].shift \notin shown.list
    BY DEF IInv, ListsLackTheClaimed
  <2> QED BY <1>5, <1>6, <1>7, <2>2, <2>3 DEF ListsLackTheClaimed
<1>12. ClaimingTells'
  BY <1>7 DEF IInv, ClaimingTells, SecondClaimNeedsAnother, Between
<1> QED BY <1>8, <1>9, <1>10, <1>11, <1>12, <1>13 DEF IInv

\* The user claims a shift whose button is not disabled.
LEMMA ClaimIsMade ==
  ASSUME IInv, NEW s \in shown.list, ~Busy(s),
         claims' = Append(claims, [shift |-> s, from |-> shown.by, ended |-> 0, at |-> "sent"]),
         claiming' = s, error' = "none",
         UNCHANGED <<open, worker, listing, site, loads, shown, loading>>
  PROVE  IInv'
<1> DEFINE r == [shift |-> s, from |-> shown.by, ended |-> 0, at |-> "sent"]
<1>0. /\ s \in Shifts /\ shown.by \in 0 .. Len(loads) /\ shown.by # 0
      /\ SiteOf[s] = loads[shown.by].site
  BY DEF IInv, TypeOK, ListsAreOfTheirSite
<1>1. /\ DOMAIN claims = 1 .. Len(claims) /\ Len(claims) \in Nat /\ claims \in Seq(ClaimRecord)
      /\ \A n \in DOMAIN loads : loads[n] \in LoadRecord /\ loads[n].claim \in 0 .. Len(claims)
      /\ loads \in Seq(LoadRecord)
  BY Histories
<1>11. PICK k \in Nat : k = Len(claims) + 1
  BY <1>1
<1>2. r \in ClaimRecord /\ r.shift = s /\ r.at = "sent" /\ r.from = shown.by /\ r.ended = 0
  BY <1>0, <1>1 DEF ClaimRecord
<1>3. claims' = Append(claims, r)
  OBVIOUS
<1> HIDE DEF r
<1>4. /\ claims' \in Seq(ClaimRecord) /\ Len(claims') = k /\ DOMAIN claims' = 1 .. k
      /\ \A c \in DOMAIN claims : claims'[c] = claims[c]
      /\ claims'[k] = r
  BY <1>1, <1>2, <1>3, <1>11, AppendProperties
<1>5. k \in Nat /\ \A n \in DOMAIN loads :
        loads[n].claim # 0 => loads[n].claim \in DOMAIN claims /\ claims'[loads[n].claim] = claims[loads[n].claim]
  BY <1>1, <1>4, <1>11
<1>6. TypeOK'
  <2>1. \A n \in DOMAIN loads' : loads'[n].claim \in 0 .. Len(claims')
    BY <1>1, <1>4, <1>11
  <2>2. /\ open' \subseteq Shifts /\ worker' \in BOOLEAN /\ listing' \in BOOLEAN /\ loading' \in BOOLEAN
        /\ site' \in Sites \cup {NoSite}
        /\ shown' \in [by: 0 .. Len(loads'), list: SUBSET Shifts]
        /\ \A x \in shown'.list : SiteOf[x] = loads'[shown'.by].site
    BY DEF IInv, TypeOK
  <2> QED BY <1>0, <1>1, <1>4, <1>11, <2>1, <2>2, TypesFromParts
<1>12. \A c \in DOMAIN claims' : c \in DOMAIN claims \/ c = k
  BY <1>1, <1>4, <1>11
<1>7. ListsAreOfTheirSite' /\ ClaimsAreDated'
  BY <1>0, <1>2, <1>4, <1>12 DEF IInv, ListsAreOfTheirSite, ClaimsAreDated
<1>13. StraysHaveACause'
  <2>1. \A n : AskedAfter(n)' <=> AskedAfter(n)
    BY DEF AskedAfter
  <2>2. ASSUME NEW d \in 0 .. Len(claims), NEW x, ChainBegan(d, x)
        PROVE  ChainBegan(d, x)' /\ ChainBegan(k, x)'
    <3>1. PICK e \in 1 .. d : SiteOf[claims[e].shift] = x /\ AskedAfter(claims[e].from)
      BY <2>2 DEF ChainBegan
    <3>2. e \in DOMAIN claims /\ claims'[e] = claims[e] /\ e \in 1 .. k
      BY <1>1, <1>4, <1>11
    <3>3. PICK f : f = claims[e].from /\ f = claims'[e].from
      BY <3>2
    <3>4. SiteOf[claims'[e].shift] = x /\ AskedAfter(f)'
      BY <2>1, <3>1, <3>2, <3>3
    <3> QED BY <3>2, <3>3, <3>4 DEF ChainBegan, AskedAfter
  <2>3. ASSUME NEW n \in DOMAIN loads', loads'[n].site # site'
        PROVE  AskedAfter(n)' \/ ChainBegan(loads[n].claim, loads[n].site)'
    <3>1. AskedAfter(n) \/ ChainBegan(loads[n].claim, loads[n].site)
      BY <2>3 DEF IInv, StraysHaveACause
    <3>2. PICK q \in 0 .. Len(claims), x \in Sites :
            q = loads[n].claim /\ x = loads[n].site /\ q = loads'[n].claim /\ x = loads'[n].site
      BY <1>1 DEF LoadRecord
    <3>3. AskedAfter(n)' \/ ChainBegan(q, x)'
      BY <2>1, <2>2, <3>1, <3>2
    <3> QED BY <3>2, <3>3 DEF ChainBegan, AskedAfter
  <2>4. ASSUME NEW x, x = SiteOf[s], x # site PROVE ChainBegan(k, x)'
    <3>1. AskedAfter(shown.by) \/ ChainBegan(loads[shown.by].claim, x)
      BY <1>0, <1>1, <2>4 DEF IInv, StraysHaveACause
    <3>2. CASE AskedAfter(shown.by)
      <4>1. PICK f : f = shown.by /\ f = claims'[k].from
        BY <1>2, <1>4
      <4>2. SiteOf[claims'[k].shift] = x /\ AskedAfter(f)' /\ k \in 1 .. k
        BY <1>1, <1>2, <1>4, <1>11, <2>1, <2>4, <3>2, <4>1
      <4> QED BY <4>1, <4>2 DEF ChainBegan, AskedAfter
    <3>3. CASE ChainBegan(loads[shown.by].claim, x)
      <4>1. loads[shown.by].claim \in 0 .. Len(claims)
        BY <1>0, <1>1
      <4> QED BY <2>2, <3>3, <4>1
    <3> QED BY <3>1, <3>2, <3>3
  <2>5. ASSUME NEW c \in DOMAIN claims', SiteOf[claims'[c].shift] # site'
        PROVE  ChainBegan(c, SiteOf[claims[c].shift])'
    <3>1. CASE c \in DOMAIN claims
      <4>1. PICK x : x = SiteOf[claims[c].shift] /\ x = SiteOf[claims'[c].shift]
        BY <1>4, <3>1
      <4>2. ChainBegan(c, x) /\ c \in 0 .. Len(claims)
        BY <1>1, <2>5, <3>1, <4>1 DEF IInv, StraysHaveACause
      <4>3. ChainBegan(c, x)'
        BY <2>2, <4>2
      <4> QED BY <4>1, <4>3 DEF ChainBegan, AskedAfter
    <3>2. CASE c = k
      <4>1. PICK x : x = SiteOf[s] /\ x = SiteOf[claims'[c].shift]
        BY <1>2, <1>4, <3>2
      <4>2. ChainBegan(k, x)'
        BY <2>4, <2>5, <4>1
      <4> QED BY <3>2, <4>1, <4>2 DEF ChainBegan, AskedAfter
    <3> QED BY <1>12, <3>1, <3>2
  <2> QED BY <2>3, <2>5 DEF StraysHaveACause
<1>8. ReloadsFollowClaims'
  <2>1. \A c \in DOMAIN claims' : claims'[c].at \in {"won", "lost"} => claims'[c].shift \notin open'
    BY <1>1, <1>2, <1>4 DEF IInv, ReloadsFollowClaims
  <2> QED BY <1>5, <2>1 DEF IInv, ReloadsFollowClaims, Pending
<1>9. ListsLackTheClaimed'
  BY <1>5 DEF IInv, ListsLackTheClaimed
<1>10. ClaimingTells'
  <2>1. ASSUME NEW c \in DOMAIN claims, NEW d \in 1 .. k, Between(c, d) PROVE Between(c, d)'
    <3>1. PICK e \in 1 .. d - 1 :
            \/ e > c /\ claims[e].shift # claims[c].shift
            \/ e # c /\ claims[e].ended \in c .. d - 1
      BY <2>1 DEF Between
    <3>2. e \in DOMAIN claims /\ claims'[e] = claims[e] /\ claims'[c] = claims[c]
      BY <1>1, <1>4, <1>11
    <3> QED BY <3>1, <3>2 DEF Between
  <2>2. ASSUME NEW c \in DOMAIN claims, Between(c, k)' PROVE Between(c, k + 1)'
    <3>1. PICK e \in 1 .. k - 1 :
            \/ e > c /\ claims'[e].shift # claims'[c].shift
            \/ e # c /\ claims'[e].ended \in c .. k - 1
      BY <2>2 DEF Between
    <3>2. e \in 1 .. (k + 1) - 1 /\ c .. k - 1 \subseteq c .. (k + 1) - 1
      BY <1>1, <1>11
    <3> QED BY <3>1, <3>2 DEF Between
  <2>3. ASSUME NEW c \in DOMAIN claims', claims'[c].at # "done"
        PROVE  claiming' = claims'[c].shift \/ Between(c, k + 1)'
    <3>1. CASE c = k
      BY <1>2, <1>4, <3>1
    <3>2. CASE c \in DOMAIN claims /\ claims[c].shift # s
      <4>1. k > c /\ k \in 1 .. (k + 1) - 1 /\ claims'[k].shift # claims'[c].shift
        BY <1>1, <1>2, <1>4, <1>11, <3>2
      <4> QED BY <4>1 DEF Between
    <3>3. CASE c \in DOMAIN claims /\ claims[c].shift = s
      BY <1>4, <3>3
    <3> QED BY <1>12, <3>1, <3>2, <3>3
  <2>4. ASSUME NEW c \in DOMAIN claims', NEW d \in DOMAIN claims', c < d,
               claims'[c].shift = claims'[d].shift, claims'[c].at # "done", claims'[d].at # "done"
        PROVE  Between(c, d)'
    <3>1. c \in DOMAIN claims
      BY <1>1, <1>4, <1>11, <2>4
    <3>2. CASE d \in DOMAIN claims
      <4>1. Between(c, d) /\ d \in 1 .. k
        BY <1>1, <1>4, <1>11, <2>4, <3>1, <3>2 DEF IInv, ClaimingTells, SecondClaimNeedsAnother
      <4> QED BY <2>1, <3>1, <4>1
    <3>3. CASE d = k
      <4>1. claims[c].at # "done" /\ claiming # claims[c].shift
        BY <1>2, <1>4, <2>4, <3>1, <3>3 DEF Busy
      <4>2. Between(c, k) /\ k \in 1 .. k
        BY <1>1, <1>11, <3>1, <4>1 DEF IInv, ClaimingTells
      <4> QED BY <2>1, <3>1, <3>3, <4>2
    <3> QED BY <1>12, <3>2, <3>3
  <2> QED BY <1>4, <2>3, <2>4 DEF ClaimingTells, SecondClaimNeedsAnother
<1> QED BY <1>6, <1>7, <1>8, <1>9, <1>10, <1>13 DEF IInv

\* The invariant is inductive.
LEMMA StepKeepsIInv == IInv /\ [Next]_vars => IInv'
<1> SUFFICES ASSUME IInv, [Next]_vars PROVE IInv'
  OBVIOUS
<1>0. loading \in BOOLEAN /\ listing \in BOOLEAN /\ error \in {"none", "sites", "identity", "load", "claim"}
  BY DEF IInv, TypeOK
<1>1. CASE Rest \/ UNCHANGED vars
  BY <1>0, <1>1, Quiet DEF Rest, vars, server, ui
<1>2. CASE NoSitesArrive \/ \E s \in Shifts : TakenElsewhere(s)
  <2>1. CASE NoSitesArrive
    BY <1>0, <2>1, Quiet DEF NoSitesArrive, server
  <2>2. ASSUME NEW s \in Shifts, TakenElsewhere(s) PROVE IInv'
    BY <1>0, <2>2, Quiet DEF TakenElsewhere, ui
  <2> QED BY <1>2, <2>1, <2>2
<1>3. CASE SitesArrive \/ \E s \in Sites : ChooseSite(s)
  <2>0. 0 \in 0 .. Len(claims')
    <3>1. claims' = claims
      BY <1>3 DEF SitesArrive, ChooseSite
    <3> QED BY <3>1, Histories
  <2>1. CASE SitesArrive
    <3>1. PICK s \in Sites : site' = s /\ StartLoad(s, 0)
      BY <2>1 DEF SitesArrive
    <3> QED BY <2>0, <2>1, <3>1, LoadStarts DEF SitesArrive, server
  <2>2. ASSUME NEW s \in Sites, ChooseSite(s) PROVE IInv'
    BY <1>0, <2>0, <2>2, LoadStarts DEF ChooseSite, server
  <2> QED BY <1>3, <2>1, <2>2
<1>4. ASSUME NEW n \in DOMAIN loads, Listed(n) \/ LoadArrives(n) \/ LoadFails(n) PROVE IInv'
  <2>1. CASE LoadArrives(n)
    BY <1>0, <2>1, LoadEnds DEF LoadArrives, server
  <2>2. CASE LoadFails(n)
    BY <1>0, <2>2, LoadEnds DEF LoadFails, server
  <2> QED BY <1>4, <2>1, <2>2, ListIsRead
<1>5. ASSUME NEW c \in DOMAIN claims, ClaimServed(c) \/ ClaimBreaks(c) PROVE IInv'
  <2>1. CASE ClaimServed(c)
    <3>1. PICK v \in {"won", "lost"} : /\ claims' = [claims EXCEPT ![c].at = v]
                                       /\ claims[c].shift \notin open \ {claims[c].shift}
      BY <2>1 DEF ClaimServed
    <3> QED BY <1>0, <2>1, <3>1, ClaimMovesOn DEF ClaimServed, ui
  <2>2. CASE ClaimBreaks(c)
    <3>1. open' \subseteq open
      BY <2>2 DEF ClaimBreaks
    <3> QED BY <1>0, <2>2, <3>1, ClaimMovesOn DEF ClaimBreaks, ui
  <2> QED BY <1>5, <2>1, <2>2
<1>6. ASSUME NEW c \in DOMAIN claims, ClaimAnswered(c) PROVE IInv'
  <2>0. c # 0 /\ c \in 0 .. Len(claims) /\ claims[c].shift \in Shifts /\ SiteOf[claims[c].shift] \in Sites
    <3>1. c \in 1 .. Len(claims) /\ claims[c] \in ClaimRecord /\ Len(claims) \in Nat
      BY Histories
    <3> QED BY <3>1, ConsoleAssumption DEF ClaimRecord
  <2>1. CASE claims[c].at \in {"won", "lost"}
    <3>1. StartLoad(SiteOf[claims[c].shift], c) /\ claims' = [claims EXCEPT ![c].at = "reloading"]
          /\ UNCHANGED <<server, worker, listing, site, shown, claiming>>
      BY <1>6, <2>1 DEF ClaimAnswered
    <3>2. Len(claims') = Len(claims)
      BY <2>1, <3>1, ClaimGoesOn
    <3> QED BY <1>0, <2>0, <2>1, <3>1, <3>2, LoadStarts DEF server
  <2>2. CASE claims[c].at = "broken"
    BY <1>0, <1>6, <2>0, <2>2, ClaimMovesOn DEF ClaimAnswered, Release, server
  <2> QED BY <1>6, <2>1, <2>2 DEF ClaimAnswered
<1>7. ASSUME NEW s \in Shifts, Claim(s) PROVE IInv'
  <2>1. CASE worker
    BY <1>7, <2>1, ClaimIsMade DEF Claim, server
  <2>2. CASE ~worker
    BY <1>0, <1>7, <2>2, Quiet DEF Claim, server
  <2> QED BY <2>1, <2>2
<1> QED BY <1>1, <1>2, <1>3, <1>4, <1>5, <1>6, <1>7 DEF Next, Progress

LEMMA Invariance == Spec => []IInv
<1> QED BY InitEstablishes, StepKeepsIInv, PTL DEF Spec

\* App.tsx: every state the tab reaches has its type, and the list on the screen
\* is of one site.
THEOREM TypeCorrect == Spec => []TypeOK
<1>1. IInv => TypeOK
  BY DEF IInv
<1> QED BY <1>1, Invariance, PTL

\* useEffect and handleClaim: a screen of another site than the chosen one was
\* loaded before the chosen one was asked for, or reloads a claim of a chain that
\* began on such a screen.
THEOREM WrongSitesAreExplained == Spec => []WrongSiteHasACause
<1>1. IInv => WrongSiteHasACause
  <2> SUFFICES ASSUME IInv, shown.by # 0, loads[shown.by].site # site
               PROVE  AskedAfter(shown.by) \/ ChainBegan(loads[shown.by].claim, loads[shown.by].site)
    BY DEF WrongSiteHasACause, ChainBegan
  <2>1. shown.by \in DOMAIN loads
    BY Histories DEF IInv, TypeOK
  <2> QED BY <2>1 DEF IInv, StraysHaveACause
<1> QED BY <1>1, Invariance, PTL

\* handleClaim: a reload that has arrived, or any later one, does not offer the
\* shift again.
THEOREM ReloadsShowTheTruth == Spec => []ReloadShowsTheTruth
<1>1. IInv => ReloadShowsTheTruth
  BY DEF IInv, ListsLackTheClaimed, ReloadShowsTheTruth
<1> QED BY <1>1, Invariance, PTL

\* handleClaim, ShiftTable.tsx: the single id in `claiming` keeps one tab from
\* claiming a shift again until it has claimed another, or another claim ended.
THEOREM SecondClaims == Spec => []SecondClaimNeedsAnother
<1>1. IInv => SecondClaimNeedsAnother
  BY DEF IInv, ClaimingTells
<1> QED BY <1>1, Invariance, PTL
=============================================================================
