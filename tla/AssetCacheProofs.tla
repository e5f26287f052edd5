-------------------------- MODULE AssetCacheProofs --------------------------
(***************************************************************************)
(* AssetCache proved for every set of builds and pages and every max-age:  *)
(* immutable copies are true, a new build shows at once, an hour heals a   *)
(* rollback, pages are what the server rendered, secrets are not stored.   *)
(***************************************************************************)
EXTENDS AssetCache, TLAPS

Served == deployed \cup {Plain}

\* A copy other than the running build's was made before the last deploy: it
\* expires within an hour of it, unless its URL names it.  A build that runs
\* for the first time has no wrong copy under its URL.
CopyInv(v) ==
  asset[v] # None =>
    /\ v \in Served
    /\ asset[v].life = Year => asset[v].body = v
    /\ asset[v].body # file =>
         asset[v].life = Year \/ asset[v].life + sinceDeploy <= Hour
    /\ v = file /\ ~returned => asset[v].body = file

PageInv ==
  page # None =>
    page.policy = "no-cache" /\ page.bytes[1] \notin Secrets /\ page.bytes[2] \in Served

VisitInv ==
  visit # None =>
    /\ visit.shown = visit.wanted
    /\ visit.shown.bytes[2] \in Served
    /\ ~visit.crossed => visit.shown.bytes[2] = URL
    /\ ~visit.crossed /\ (visit.late \/ (~returned /\ file # Missing))
         => visit.got \in {None, file}

CacheInv ==
  /\ TypeOK
  /\ file \in Bodies => file \in deployed
  /\ \A v \in Versions : CopyInv(v)
  /\ PageInv
  /\ VisitInv

-----------------------------------------------------------------------------
(* The requests.                                                           *)

LEMMA UrlServed ==
  ASSUME TypeOK, file \in Bodies => file \in deployed
  PROVE  URL \in Versions /\ URL \in Served
BY DEF TypeOK, Files, Versions, URL, Served

\* With the cached page honest, the screen shows what Render made.
LEMMA ScreenHonest ==
  ASSUME TypeOK, PageInv, NEW r \in Replies
  PROVE  Screen(r) = [bytes |-> Bytes(r), status |-> r.status]
<1>1. CASE page = None
  BY <1>1 DEF Screen
<1>2. CASE page # None
  <2>1. page.policy = "no-cache" /\ r.status # 304
    <3>1. r.status \in {200, 401}
      BY DEF Replies
    <3> QED
      BY <1>2, <3>1 DEF PageInv
  <2>2. CASE Render(r, page.bytes).status = 304
    <3>1. r.status = 200 /\ page.bytes = Bytes(r)
      BY <2>1, <2>2, Zenon DEF Render, ETagMatch, Tagged
    <3> QED
      BY <1>2, <2>1, <2>2, <3>1, Zenon DEF Screen
  <2>3. CASE Render(r, page.bytes).status # 304
    BY <1>2, <2>1, <2>3, Zenon DEF Screen
  <2> QED
    BY <2>2, <2>3
<1> QED
  BY <1>1, <1>2

LEMMA CopyFields ==
  ASSUME TypeOK, NEW v \in Versions, asset[v] # None
  PROVE  /\ asset[v].body \in Bodies
         /\ asset[v].life = Year \/ asset[v].life \in 0 .. Hour
         /\ asset[v] = [body |-> asset[v].body, life |-> asset[v].life]
BY DEF TypeOK, Copies

\* An answer of the server, 304 or not, is the file it runs.
LEMMA AskedIsFile ==
  ASSUME TypeOK, NEW v \in Versions, ~Fresh(v)
  PROVE  Got(v) = file
BY DEF Got, Answer, ServeHTTP, ETagMatch

\* What a page loads under the URL of the running build.
LEMMA GotIsFile ==
  ASSUME CacheInv, sinceDeploy = Hour \/ (~returned /\ file # Missing)
  PROVE  Got(URL) = file
<1>1. URL \in Versions
  BY UrlServed DEF CacheInv
<1>2. CASE ~Fresh(URL)
  BY <1>1, <1>2, AskedIsFile DEF CacheInv
<1>3. CASE Fresh(URL)
  <2>1. Got(URL) = asset[URL].body /\ asset[URL] # None /\ asset[URL].life # 0
    BY <1>3 DEF Got, Fresh
  <2>2. CopyInv(URL) /\ asset[URL].body \in Bodies
        /\ (asset[URL].life = Year \/ asset[URL].life \in 0 .. Hour)
    BY <1>1, <2>1, CopyFields DEF CacheInv
  <2>3. CASE ~returned /\ file # Missing
    BY <2>1, <2>2, <2>3 DEF CopyInv, URL
  <2>4. CASE sinceDeploy = Hour
    <3>1. asset[URL].life = Year => asset[URL].body = file
      BY <2>1, <2>2, CacheAssumption DEF CacheAssumption, CopyInv, URL
    <3>2. asset[URL].life \in 0 .. Hour => ~(asset[URL].life + sinceDeploy <= Hour)
      BY <2>1, <2>4, CacheAssumption DEF CacheAssumption
    <3>3. asset[URL].life \in 0 .. Hour => asset[URL].life # Year
      BY CacheAssumption DEF CacheAssumption
    <3> QED
      BY <2>1, <2>2, <3>1, <3>2, <3>3, Zenon DEF CopyInv
  <2> QED
    BY <2>3, <2>4
<1> QED
  BY <1>2, <1>3

-----------------------------------------------------------------------------
(* The steps.                                                              *)

LEMMA InitCache == Init => CacheInv
<1> SUFFICES ASSUME Init PROVE CacheInv
  OBVIOUS
<1>1. TypeOK
  <2>1. sinceDeploy \in 0 .. Hour
    BY CacheAssumption DEF CacheAssumption, Init
  <2>2. file \in Files /\ returned \in BOOLEAN /\ deployed \subseteq Bodies
    BY Zenon DEF Init
  <2>3. asset \in [Versions -> Copies \cup {None}]
    BY DEF Init
  <2> QED
    BY <2>1, <2>2, <2>3 DEF Init, TypeOK
<1>2. \A v \in Versions : asset[v] = None
  BY DEF Init
<1>3. PageInv /\ VisitInv /\ (file \in Bodies => file \in deployed)
  BY DEF Init, PageInv, VisitInv
<1> QED
  BY <1>1, <1>2, <1>3 DEF CacheInv, CopyInv

\* A copy fetched now is the running build, for a year if the URL names it.
LEMMA FetchInv ==
  ASSUME CacheInv, NEW v \in Versions, v \in Served, Fetch(v)
  PROVE  /\ asset' \in [Versions -> Copies \cup {None}]
         /\ \A u \in Versions : CopyInv(u)'
<1>0. UNCHANGED <<file, deployed, returned, sinceDeploy, page>> /\ Served' = Served
  BY DEF Fetch, Served
<1>1. CASE asset' = asset
  BY <1>0, <1>1 DEF CacheInv, TypeOK, CopyInv
<1>2. CASE asset' # asset
  <2>1. /\ ~Fresh(v) /\ file # Missing /\ file \in Bodies
        /\ asset' = [asset EXCEPT ![v] = [body |-> Got(v), life |-> Answer(v).maxAge]]
    BY <1>2 DEF Fetch, Answer, ServeHTTP, Found, CacheInv, TypeOK, Files
  <2>2. Got(v) = file /\ Answer(v).maxAge = MaxAge(v)
    BY <2>1, AskedIsFile DEF CacheInv, Answer, ServeHTTP
  <2>3. asset' = [asset EXCEPT ![v] = [body |-> file, life |-> MaxAge(v)]]
    BY <2>1, <2>2
  <2>4. MaxAge(v) \in 0 .. Hour \cup {Year} /\ (MaxAge(v) = Year => v = file)
    BY CacheAssumption DEF CacheAssumption, MaxAge
  <2>5. asset \in [Versions -> Copies \cup {None}]
    BY DEF CacheInv, TypeOK
  <2>6. asset'[v] = [body |-> file, life |-> MaxAge(v)]
        /\ \A u \in Versions : u # v => asset'[u] = asset[u]
    BY <2>3, <2>5
  <2>7. asset' \in [Versions -> Copies \cup {None}]
    BY <2>1, <2>3, <2>4, <2>5 DEF Copies
  <2>8. CopyInv(v)'
    BY <1>0, <2>4, <2>6 DEF CopyInv
  <2>9. ASSUME NEW u \in Versions, u # v PROVE CopyInv(u)'
    BY <1>0, <2>6, <2>9 DEF CacheInv, CopyInv
  <2> QED
    BY <2>7, <2>8, <2>9
<1> QED
  BY <1>1, <1>2

\* Another build: every copy may now be a wrong one, none for over an hour.
LEMMA DeployInv ==
  ASSUME CacheInv, NEW f \in Files, Deploy(f)
  PROVE  CacheInv'
<1>1. TypeOK'
  <2>1. visit' \in Visits \cup {None}
    BY DEF Deploy, CacheInv, TypeOK, Visits
  <2>2. /\ file' \in Files /\ deployed' \subseteq Bodies /\ returned' \in BOOLEAN
        /\ sinceDeploy' \in 0 .. Hour
    BY CacheAssumption DEF CacheAssumption, Deploy, CacheInv, TypeOK
  <2> QED
    BY <2>1, <2>2 DEF Deploy, CacheInv, TypeOK
<1>2. file' = f /\ deployed \subseteq deployed' /\ (f \in Bodies => f \in deployed')
  BY DEF Deploy
<1>3. ASSUME NEW v \in Versions PROVE CopyInv(v)'
  <2> SUFFICES ASSUME asset[v] # None PROVE CopyInv(v)'
    BY DEF Deploy, CopyInv
  <2>1. /\ v \in Served /\ v \in Served'
        /\ asset[v].life = Year => asset[v].body = v
    BY <1>2 DEF CacheInv, CopyInv, Served
  <2>2. asset[v].life = Year \/ asset[v].life + 0 <= Hour
    <3>1. asset[v].life = Year \/ asset[v].life \in 0 .. Hour
      BY CopyFields DEF CacheInv
    <3>2. \A n \in 0 .. Hour : n + 0 <= Hour
      BY CacheAssumption DEF CacheAssumption
    <3> QED
      BY <3>1, <3>2, Zenon
  <2>3. v = f => f \in deployed
    BY <2>1, CacheAssumption DEF CacheAssumption, Served, Files
  <2> QED
    BY <2>1, <2>2, <2>3 DEF Deploy, CopyInv
<1>4. PageInv' /\ VisitInv'
  BY <1>2 DEF CacheInv, PageInv, VisitInv, Served, Deploy, TypeOK, Visits
<1> QED
  BY <1>1, <1>2, <1>3, <1>4 DEF CacheInv

LEMMA LoadPageInv ==
  ASSUME CacheInv, NEW r \in Replies, LoadPage(r)
  PROVE  CacheInv'
<1>0. UNCHANGED <<file, deployed, returned, sinceDeploy, asset>>
  BY DEF LoadPage
<1> DEFINE s == [bytes |-> Bytes(r), status |-> r.status]
<1>1. Screen(r) = s
  BY ScreenHonest DEF CacheInv
<1>2. /\ Bytes(r) = <<r.data, URL>> /\ r.data \in Data /\ r.status \in {200, 401}
      /\ URL \in Versions /\ URL \in Served
  BY UrlServed DEF Bytes, Replies, CacheInv
<1>3. s \in Screens
  BY <1>2 DEF Screens
<1>4. visit' = [shown |-> s, wanted |-> s, crossed |-> FALSE, got |-> None, late |-> FALSE]
  BY <1>1 DEF LoadPage
<1>5. visit' \in Visits /\ VisitInv'
  <2>1. s.bytes[2] = URL
    BY <1>2
  <2> HIDE DEF s
  <2> QED
    BY <1>0, <1>2, <1>3, <1>4, <2>1 DEF Visits, VisitInv, URL, Served
<1>6. CASE page' = page
  BY <1>0, <1>5, <1>6 DEF CacheInv, TypeOK, CopyInv, PageInv, Served
<1>7. CASE page' # page
  <2>1. Policy(r) # "no-store" /\ page' = [bytes |-> Bytes(r), policy |-> Policy(r)]
    BY <1>1, <1>7 DEF LoadPage
  <2>2. Policy(r) = "no-cache" /\ r.data \notin Secrets
    BY <2>1 DEF Policy, Replies
  <2>3. page' \in Pages /\ PageInv'
    BY <1>0, <1>2, <2>1, <2>2 DEF Pages, PageInv, Served
  <2> QED
    BY <1>0, <1>5, <2>3 DEF CacheInv, TypeOK, CopyInv, Served
<1> QED
  BY <1>6, <1>7

LEMMA LoadAssetInv ==
  ASSUME CacheInv, LoadAsset
  PROVE  CacheInv'
<1> DEFINE v == visit.shown.bytes[2]
<1>1. visit # None /\ v \in Served /\ v \in Versions /\ visit \in Visits
  BY DEF LoadAsset, CacheInv, VisitInv, TypeOK, Visits, Screens
<1>2. Fetch(v) /\ UNCHANGED <<file, deployed, returned, sinceDeploy, page>>
  BY DEF LoadAsset, Fetch
<1>3. asset' \in [Versions -> Copies \cup {None}] /\ \A u \in Versions : CopyInv(u)'
  BY <1>1, <1>2, FetchInv
<1>4. visit' = [visit EXCEPT !.got = Got(v), !.late = (sinceDeploy = Hour)]
  BY DEF LoadAsset
<1>5. Got(v) \in Files
  <2>1. CASE Fresh(v)
    BY <1>1, <2>1, CopyFields DEF Got, Fresh, CacheInv, Files
  <2>2. CASE ~Fresh(v)
    BY <1>1, <2>2, AskedIsFile DEF CacheInv, TypeOK
  <2> QED
    BY <2>1, <2>2
<1>6. visit' \in Visits
  BY <1>1, <1>4, <1>5 DEF Visits
<1>7. /\ visit'.shown = visit.shown /\ visit'.wanted = visit.wanted
      /\ visit'.crossed = visit.crossed /\ visit'.got = Got(v)
      /\ visit'.late = (sinceDeploy = Hour)
  BY <1>1, <1>4 DEF Visits
<1>8. VisitInv'
  <2>1. ~visit.crossed => v = URL
    BY <1>1 DEF CacheInv, VisitInv
  <2>2. ~visit.crossed /\ (visit'.late \/ (~returned /\ file # Missing)) => Got(v) = file
    BY <2>1, <1>7, GotIsFile
  <2> QED
    BY <1>1, <1>2, <1>7, <2>2 DEF CacheInv, VisitInv, URL, Served
<1> QED
  BY <1>2, <1>3, <1>6, <1>8 DEF CacheInv, TypeOK, PageInv, Served

\* As a copy ages, the time since the deploy grows by no more than it loses.
LEMMA TickInv ==
  ASSUME CacheInv, Tick
  PROVE  CacheInv'
<1>0. UNCHANGED <<file, deployed, returned, page, visit>>
  BY DEF Tick
<1>1. Hour \in Nat /\ sinceDeploy \in 0 .. Hour /\ sinceDeploy' \in 0 .. Hour
      /\ sinceDeploy' <= sinceDeploy + 1
  BY CacheAssumption DEF CacheAssumption, CacheInv, TypeOK, Tick
<1>2. ASSUME NEW v \in Versions
      PROVE  asset'[v] \in Copies \cup {None} /\ CopyInv(v)'
  <2>0. asset'[v] = Older(asset[v])
    BY DEF Tick
  <2>1. CASE asset[v] = None
    BY <2>0, <2>1 DEF Older, CopyInv
  <2>2. CASE asset[v] # None
    <3>1. asset[v].body \in Bodies /\ (asset[v].life = Year \/ asset[v].life \in 0 .. Hour)
          /\ asset[v] \in Copies
      BY <2>2, CopyFields DEF CacheInv, TypeOK
    <3>2. CopyInv(v)
      BY DEF CacheInv
    <3>3. CASE asset[v].life = Year
      <4>1. asset'[v] = asset[v]
        BY <2>0, <2>2, <3>3 DEF Older
      <4> QED
        BY <1>0, <3>1, <3>2, <3>3, <4>1 DEF CopyInv, Served
    <3>4. CASE asset[v].life = 0
      <4>1. asset'[v] = asset[v]
        BY <2>0, <2>2, <3>4 DEF Older
      <4>2. asset[v].life + sinceDeploy' <= Hour
        <5>1. \A n \in 0 .. Hour : 0 + n <= Hour
          BY CacheAssumption DEF CacheAssumption
        <5> QED
          BY <1>1, <3>4, <5>1, Zenon
      <4> QED
        BY <1>0, <3>1, <3>2, <4>1, <4>2 DEF CopyInv, Served
    <3>5. CASE asset[v].life # Year /\ asset[v].life # 0
      <4>1. asset'[v] = [asset[v] EXCEPT !.life = asset[v].life - 1]
        BY <2>0, <2>2, <3>5 DEF Older
      <4>2. /\ asset'[v].body = asset[v].body /\ asset'[v].life = asset[v].life - 1
            /\ asset[v].life \in 1 .. Hour /\ asset'[v].life \in 0 .. Hour
            /\ asset'[v] \in Copies
        BY <1>1, <3>1, <3>5, <4>1 DEF Copies
      <4>3. asset'[v].life # Year
        BY <4>2, CacheAssumption DEF CacheAssumption
      <4>4. asset[v].life + sinceDeploy <= Hour
              => asset'[v].life + sinceDeploy' <= Hour
        BY <1>1, <4>2
      <4> QED
        BY <1>0, <2>2, <3>2, <3>5, <4>2, <4>3, <4>4 DEF CopyInv, Served
    <3> QED
      BY <3>1, <3>3, <3>4, <3>5
  <2> QED
    BY <2>1, <2>2
<1>3. asset' \in [Versions -> Copies \cup {None}]
  BY <1>2 DEF Tick
<1>4. PageInv' /\ VisitInv'
  BY <1>0 DEF CacheInv, PageInv, VisitInv, URL, Served
<1> QED
  BY <1>0, <1>1, <1>2, <1>3, <1>4 DEF CacheInv, TypeOK

LEMMA NextCache == CacheInv /\ [Next]_vars => CacheInv'
<1> SUFFICES ASSUME CacheInv, [Next]_vars PROVE CacheInv'
  OBVIOUS
<1>1. CASE LoadFails
  BY <1>1 DEF LoadFails, CacheInv, TypeOK, CopyInv, PageInv, VisitInv, Served
<1>2. CASE EvictPage
  BY <1>2 DEF EvictPage, CacheInv, TypeOK, CopyInv, PageInv, VisitInv, URL, Served
<1>3. ASSUME NEW v \in deployed \cup {Plain}, LoadOther(v) PROVE CacheInv'
  <2>1. v \in Versions /\ v \in Served
    BY DEF CacheInv, TypeOK, Versions, Served
  <2>2. asset' \in [Versions -> Copies \cup {None}] /\ \A u \in Versions : CopyInv(u)'
    BY <1>3, <2>1, FetchInv DEF LoadOther
  <2> QED
    BY <1>3, <2>2 DEF LoadOther, Fetch, CacheInv, TypeOK, PageInv, VisitInv, URL, Served
<1>4. ASSUME NEW v \in deployed \cup {Plain}, Evict(v) PROVE CacheInv'
  <2>1. UNCHANGED <<file, deployed, returned, sinceDeploy, page, visit>>
    BY <1>4 DEF Evict
  <2>2. /\ asset' \in [Versions -> Copies \cup {None}]
        /\ \A u \in Versions : asset'[u] = asset[u] \/ asset'[u] = None
    BY <1>4 DEF Evict, CacheInv, TypeOK
  <2>3. \A u \in Versions : CopyInv(u)'
    BY <2>1, <2>2 DEF CacheInv, CopyInv, Served
  <2> QED
    BY <2>1, <2>2, <2>3 DEF CacheInv, TypeOK, PageInv, VisitInv, URL, Served
<1>5. CASE UNCHANGED vars
  BY <1>5 DEF vars, CacheInv, TypeOK, CopyInv, PageInv, VisitInv, URL, Served
<1> QED
  BY <1>1, <1>2, <1>3, <1>4, <1>5, DeployInv, LoadPageInv, LoadAssetInv, TickInv DEF Next

LEMMA CacheInvariance == Spec => []CacheInv
BY InitCache, NextCache, PTL DEF Spec

-----------------------------------------------------------------------------
(* The theorems.                                                           *)

\* Type correctness.
THEOREM TypeCorrect == Spec => []TypeOK
<1>1. CacheInv => TypeOK
  BY DEF CacheInv
<1> QED
  BY <1>1, CacheInvariance, PTL

\* A copy kept for a year has the bytes its URL names (assets.go:118-143).
THEOREM ImmutableIsTruthful == Spec => []ImmutableTruthful
<1>1. CacheInv => ImmutableTruthful
  BY DEF CacheInv, CopyInv, ImmutableTruthful
<1> QED
  BY <1>1, CacheInvariance, PTL

\* A build that runs for the first time is seen at once (assets.go:97-116).
THEOREM NewBuildIsShown == Spec => []NewBuildShows
<1>1. CacheInv => NewBuildShows
  BY DEF CacheInv, VisitInv, NewBuildShows
<1> QED
  BY <1>1, CacheInvariance, PTL

\* An hour after a deploy, rollback or removal every page shows what runs.
THEOREM AnHourHeals == Spec => []HourHeals
<1>1. CacheInv => HourHeals
  BY DEF CacheInv, VisitInv, HourHeals
<1> QED
  BY <1>1, CacheInvariance, PTL

\* A page on the screen is what Render made of its request (render.go:102-168).
THEOREM PageIsHonest == Spec => []PageHonest
<1>1. CacheInv => PageHonest
  BY DEF CacheInv, VisitInv, PageHonest
<1> QED
  BY <1>1, CacheInvariance, PTL

\* A secret is in no cache (cache.go:30-37).
THEOREM SecretIsNotStored == Spec => []SecretNotStored
<1>1. CacheInv => SecretNotStored
  BY DEF CacheInv, PageInv, SecretNotStored
<1> QED
  BY <1>1, CacheInvariance, PTL
=============================================================================
