\* One tab, two sites, two shifts at one of them.
CONSTANTS
  Home = home
  Sites = {home, away}
  NoSite = NoSite
  Shifts = {s1, s2}
  NoShift = NoShift
  SiteOf <- AllAtHome
  MaxLoads = 4
  MaxClaims = 3
SPECIFICATION Spec
INVARIANTS WrongSiteHasACause ReloadShowsTheTruth SecondClaimNeedsAnother
PROPERTIES EveryWaitEnds
