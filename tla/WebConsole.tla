----------------------------- MODULE WebConsole -----------------------------
(***************************************************************************)
(* The operations console: App.tsx of one browser tab, its requests in     *)
(* flight, and the shifts they read and claim.                             *)
(*                                                                         *)
(* JavaScript runs a function to its next await without interruption, and  *)
(* React renders what the state is then; the steps are the stretches       *)
(* between awaits, the server's part of each request, and the user.        *)
(* The server claims atomically here; its races are ShiftApi's subject.    *)
(* A shift is claimable while it is open, and an open shift has never left *)
(* its first version (OpenIsUntouched, proved in ShiftApiProofs), so the   *)
(* version a claim sends matches exactly when the shift is still open.     *)
(***************************************************************************)
EXTENDS Naturals, Sequences, FiniteSets

CONSTANTS
  Sites, NoSite,
  Shifts, NoShift,
  SiteOf,      \* the site of each shift
  MaxLoads,    \* bound on the loads of one behaviour
  MaxClaims    \* bound on the claims of one behaviour

ASSUME ConsoleAssumption ==
  /\ NoSite \notin Sites /\ NoShift \notin Shifts
  /\ SiteOf \in [Shifts -> Sites]
  /\ MaxLoads \in Nat /\ MaxClaims \in Nat

VARIABLES
  open,      \* server: the open shifts
  worker,    \* a worker identity is configured
  listing,   \* the request for the sites is unanswered
  site,      \* activeSiteId
  loads,     \* every load so far: its site, the claim that awaits it (0: none),
             \* the list in the answer, and whether it ended
  claims,    \* every claim so far: its shift and how far it is; history: the load
             \* on the screen when it was made, and how many claims there were
             \* when it ended (0: it has not)
  shown,     \* the screen: the load it is of (0: none) and the open shifts listed
  loading, error, claiming

server == <<open>>
ui == <<shown, loading, error, claiming>>
vars == <<server, worker, listing, site, loads, claims, ui>>

\* Type invariant: the list on the screen holds shifts of its load's own site.
TypeOK ==
  /\ open \subseteq Shifts
  /\ worker \in BOOLEAN /\ listing \in BOOLEAN /\ loading \in BOOLEAN
  /\ site \in Sites \cup {NoSite}
  /\ claiming \in Shifts \cup {NoShift}
  /\ error \in {"none", "sites", "identity", "load", "claim"}
  /\ claims \in Seq([shift: Shifts, from: Nat, ended: Nat,
                     at: {"sent", "won", "lost", "broken", "reloading", "done"}])
  /\ \A n \in DOMAIN loads :
       loads[n] \in [site: Sites, claim: 0 .. Len(claims),
                     list: SUBSET SUBSET Shifts, end: {"pending", "done", "failed"}]
  /\ shown \in [by: 0 .. Len(loads), list: SUBSET Shifts]
  /\ \A s \in shown.list : SiteOf[s] = loads[shown.by].site

Init ==
  /\ open \in SUBSET Shifts
  /\ worker \in BOOLEAN
  /\ listing = TRUE /\ site = NoSite
  /\ loads = <<>> /\ claims = <<>>
  /\ shown = [by |-> 0, list |-> {}]
  /\ loading = TRUE /\ error = "none" /\ claiming = NoShift
-----------------------------------------------------------------------------
Pending(n) == loads[n].end = "pending"

UnfinishedClaims == {c \in DOMAIN claims : claims[c].at \notin {"reloading", "done"}}

\* Every unfinished claim may still start a load.
RoomForALoad == Len(loads) + Cardinality(UnfinishedClaims) < MaxLoads

\* The server's answer for one site: which of its shifts are open.
OpensOf(s) == {x \in open : SiteOf[x] = s}

\* The first stretch of load(), for the handler of claim c or for none.
StartLoad(s, c) ==
  /\ loads' = Append(loads, [site |-> s, claim |-> c, list |-> {}, end |-> "pending"])
  /\ loading' = TRUE
  /\ error' = "none"

Finish(c) ==
  claims' = IF c = 0 THEN claims
            ELSE [claims EXCEPT ![c] = [@ EXCEPT !.at = "done", !.ended = Len(claims)]]

\* Mutation of Release: finally forgets the claim in progress.
NoRelease(c) ==
  /\ claiming' = claiming
  /\ Finish(c)

\* handleClaim goes on after its load, or ends: finally clears `claiming`,
\* whichever claim set it.
Release(c) ==
  /\ claiming' = IF c = 0 THEN claiming ELSE NoShift
  /\ Finish(c)

\* The sites arrive and the first is chosen; its effect loads it.
SitesArrive ==
  /\ listing /\ listing' = FALSE
  /\ \E s \in Sites : site' = s /\ StartLoad(s, 0)
  /\ UNCHANGED <<server, worker, claims, shown, claiming>>

\* There are no sites, or the request fails.
NoSitesArrive ==
  /\ listing /\ listing' = FALSE
  /\ loading' = FALSE
  /\ error' \in {"none", "sites"}
  /\ UNCHANGED <<server, worker, site, loads, claims, shown, claiming>>

\* Mutation of ChooseSite: the effect does not depend on the site.
ChooseSiteOnly(s) ==
  /\ site \in Sites \ {s} /\ RoomForALoad
  /\ site' = s
  /\ UNCHANGED <<server, worker, listing, loads, claims, ui>>

\* The user chooses another site, and the effect loads it.
ChooseSite(s) ==
  /\ site \in Sites \ {s} /\ RoomForALoad
  /\ site' = s
  /\ StartLoad(s, 0)
  /\ UNCHANGED <<server, worker, listing, claims, shown, claiming>>

\* The server reads the list of a load.  The coverage is read by a request of
\* its own, at another time; both must have arrived for either to be shown.
Listed(n) ==
  /\ Pending(n) /\ loads[n].list = {}
  /\ loads' = [loads EXCEPT ![n].list = {OpensOf(loads[n].site)}]
  /\ UNCHANGED <<server, worker, listing, site, claims, ui>>

EndLoad(n, how) ==
  /\ loads' = [loads EXCEPT ![n] = [@ EXCEPT !.end = how, !.list = {}]]
  /\ loading' = FALSE
  /\ Release(loads[n].claim)

\* The answers have arrived.
LoadArrives(n) ==
  /\ Pending(n)
  /\ \E list \in loads[n].list : shown' = [by |-> n, list |-> list]
  /\ EndLoad(n, "done")
  /\ UNCHANGED <<server, worker, listing, site, error>>

\* One of the two requests fails, whatever became of the other.
LoadFails(n) ==
  /\ Pending(n)
  /\ error' = "load"
  /\ EndLoad(n, "failed")
  /\ UNCHANGED <<server, worker, listing, site, shown>>

\* Mutation of Busy: the button is never disabled.
NeverBusy(s) == FALSE

Busy(s) == claiming = s

\* The user claims a shift the screen offers.
Claim(s) ==
  /\ s \in shown.list /\ ~Busy(s)
  /\ IF worker
     THEN /\ Len(claims) < MaxClaims /\ RoomForALoad
          /\ claims' = Append(claims, [shift |-> s, from |-> shown.by, ended |-> 0, at |-> "sent"])
          /\ claiming' = s /\ error' = "none"
     ELSE /\ error' = "identity"
          /\ UNCHANGED <<claims, claiming>>
  /\ UNCHANGED <<server, worker, listing, site, loads, shown, loading>>

\* The server claims the shift if it is still open, and answers 409 otherwise.
ClaimServed(c) ==
  /\ claims[c].at = "sent"
  /\ claims' = [claims EXCEPT ![c].at = IF claims[c].shift \in open THEN "won" ELSE "lost"]
  /\ open' = open \ {claims[c].shift}
  /\ UNCHANGED <<worker, listing, site, loads, ui>>

\* The client gets no answer or a 500, the claim made or not.
ClaimBreaks(c) ==
  /\ claims[c].at = "sent"
  /\ claims' = [claims EXCEPT ![c].at = "broken"]
  /\ open' \in {open, open \ {claims[c].shift}}
  /\ UNCHANGED <<worker, listing, site, loads, ui>>

\* Mutation of ClaimAnswered: every failure is taken for a lost race.
ReloadAlways(c) ==
  /\ claims[c].at \in {"won", "lost", "broken"}
  /\ StartLoad(SiteOf[claims[c].shift], c)
  /\ claims' = [claims EXCEPT ![c].at = "reloading"]
  /\ UNCHANGED <<server, worker, listing, site, shown, claiming>>

\* handleClaim goes on: an accepted and a refused claim reload the site of the
\* shift, which wipes the notice of the refused one before it is rendered; any
\* other failure is shown.
ClaimAnswered(c) ==
  /\ \/ /\ claims[c].at \in {"won", "lost"}
        /\ StartLoad(SiteOf[claims[c].shift], c)
        /\ claims' = [claims EXCEPT ![c].at = "reloading"]
        /\ UNCHANGED claiming
     \/ /\ claims[c].at = "broken"
        /\ error' = "claim"
        /\ Release(c)
        /\ UNCHANGED <<loads, loading>>
  /\ UNCHANGED <<server, worker, listing, site, shown>>

\* Somebody else claims or cancels a shift.
TakenElsewhere(s) ==
  /\ s \in open /\ open' = open \ {s}
  /\ UNCHANGED <<worker, listing, site, loads, claims, ui>>

InFlight == listing \/ UnfinishedClaims # {} \/ \E n \in DOMAIN loads : Pending(n)

\* Nothing is in flight: the screen stays as it is until somebody acts.
Rest == ~InFlight /\ UNCHANGED vars

\* What a request in flight, or a handler that awaits one, does by itself.
Progress ==
  \/ SitesArrive
  \/ \E n \in DOMAIN loads : Listed(n) \/ LoadArrives(n)
  \/ \E c \in DOMAIN claims : ClaimServed(c) \/ ClaimAnswered(c)

Next ==
  \/ Progress \/ NoSitesArrive \/ Rest
  \/ \E n \in DOMAIN loads : LoadFails(n)
  \/ \E c \in DOMAIN claims : ClaimBreaks(c)
  \/ \E s \in Sites : ChooseSite(s)
  \/ \E s \in Shifts : Claim(s) \/ TakenElsewhere(s)

\* Every request is answered in the end, or fails.
Spec == Init /\ [][Next]_vars /\ WF_vars(Progress)
-----------------------------------------------------------------------------
\* After load n started, the user, or the arrival of the sites, asked for the
\* site that is chosen now.
AskedAfter(n) == \E m \in n + 1 .. Len(loads) : loads[m].claim = 0 /\ loads[m].site = site

\* When nothing is in flight, the screen may show another site than the chosen
\* one for two reasons and no third: the chosen site was asked for after the
\* load on the screen started, and failed or was overtaken by that older answer;
\* or the screen is the reload of a claim, the last of a chain of claims at that
\* site that began on a list loaded before the user went to the chosen one
\* (whether the claim was made before that, or after it from the old list, which
\* stays on the screen until the new one arrives).
WrongSiteHasACause ==
  ~InFlight /\ shown.by # 0 /\ loads[shown.by].site # site =>
    \/ AskedAfter(shown.by)
    \/ \E c \in 1 .. loads[shown.by].claim :
         SiteOf[claims[c].shift] = loads[shown.by].site /\ AskedAfter(claims[c].from)

\* App.tsx reloads after a claim "so the row shows the truth": once the reload
\* of a claim, accepted or refused, has arrived, the screen does not offer the
\* shift again, unless the answer of an older load arrived after it.
ReloadShowsTheTruth ==
  \A n \in DOMAIN loads :
    loads[n].claim # 0 /\ loads[n].end = "done" /\ shown.by >= n =>
      claims[loads[n].claim].shift \notin shown.list

\* After claim c was made, and before claim d was, a claim of another shift was
\* made, or some other claim ended.
Between(c, d) ==
  \E e \in 1 .. d - 1 :
    \/ e > c /\ claims[e].shift # claims[c].shift
    \/ e # c /\ claims[e].ended \in c .. d - 1

\* One tab has two claims of one shift under way only if, between the two, it
\* claimed another shift or another claim ended: `claiming` holds a single id,
\* and any claim that ends clears it.
SecondClaimNeedsAnother ==
  \A c, d \in DOMAIN claims :
    c < d /\ claims[c].shift = claims[d].shift
      /\ claims[c].at # "done" /\ claims[d].at # "done" => Between(c, d)

\* The console never waits for ever: the loading notice and the disabled button
\* go away, whatever fails.
EveryWaitEnds ==
  /\ loading ~> ~loading
  /\ \A s \in Shifts : claiming = s ~> claiming # s
=============================================================================
