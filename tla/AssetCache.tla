----------------------------- MODULE AssetCache -----------------------------
(***************************************************************************)
(* What a visitor sees across deploys: Assets of src/assets.go, Render of  *)
(* src/render.go and the cache policies of src/cache.go, and a browser     *)
(* with its HTTP cache.  One page names one file; a deploy is a restart    *)
(* with another build of the file, a rollback one with an earlier build.   *)
(*                                                                         *)
(* A body stands for its hash (equal hashes, equal bodies), a versioned    *)
(* URL for the hash in it, a page for its bytes: the handler's data and    *)
(* the URL it names.  An ETag is a hash too.  Operators whose names start  *)
(* with M are faulty variants of the definition after them.                *)
(***************************************************************************)
EXTENDS Naturals

CONSTANTS
  Bodies,
  Data, Secrets,    \* what a handler puts in a page; some is shown only once
  Hour,             \* max-age of an URL that does not match, in ticks
  Year, Plain, Missing, None

Versions == Bodies \cup {Plain}       \* of the URL: ?v=, or none
Files == Bodies \cup {Missing}

ASSUME CacheAssumption ==
  /\ Secrets \subseteq Data /\ Hour \in Nat \ {0} /\ Year \notin Nat
  /\ {Plain, Missing, None} \cap Bodies = {}
  /\ Plain # Missing /\ Missing # None

VARIABLES
  file,         \* the file in the running build, or Missing
  deployed,     \* history: the builds of the file that ran so far
  returned,     \* history: the running build is one of the earlier ones
  sinceDeploy,  \* ticks since the last deploy, at most Hour
  page,         \* cached: the page, or None
  asset,        \* cached: for each URL a copy of the file, or None
  visit         \* the page on the screen, or None

vars == <<file, deployed, returned, sinceDeploy, page, asset, visit>>

Pages == [bytes : Data \X Versions, policy : {"", "no-cache"}]
Copies == [body : Bodies, life : 0 .. Hour \cup {Year}]
Screens == [bytes : Data \X Versions, status : {200, 401}]
Visits == [shown : Screens, wanted : Screens, crossed : BOOLEAN,
           got : Files \cup {None}, late : BOOLEAN]

TypeOK ==
  /\ file \in Files /\ deployed \subseteq Bodies /\ returned \in BOOLEAN
  /\ sinceDeploy \in 0 .. Hour
  /\ page \in Pages \cup {None}
  /\ asset \in [Versions -> Copies \cup {None}]
  /\ visit \in Visits \cup {None}

Init ==
  /\ file \in Files /\ deployed = {file} \cap Bodies /\ returned = FALSE
  /\ sinceDeploy = 0
  /\ page = None /\ asset = [v \in Versions |-> None] /\ visit = None

-----------------------------------------------------------------------------
(* The server.                                                             *)

MURL == Plain

URL == IF file = Missing THEN Plain ELSE file

ETagMatch(match, etag) == match # None /\ match = etag

MFound == TRUE

Found == file # Missing

\* Only an URL with the current hash can never go stale.  The faulty variant
\* trusts any ?v=.
MMaxAge(v) == IF v # Plain THEN Year ELSE Hour

MaxAge(v) == IF v = file THEN Year ELSE Hour

\* Assets.ServeHTTP; ServeContent compares the validators.
ServeHTTP(v, match) ==
  [status |-> IF ~Found THEN 404 ELSE IF ETagMatch(match, file) THEN 304 ELSE 200,
   body |-> file, maxAge |-> MaxAge(v)]

\* What a handler asks Render for.  It calls NoStore first to show a secret.
Replies ==
  {r \in [data : Data, status : {200, 401}, policy : {"", "no-cache", "no-store"}] :
     r.data \in Secrets => r.policy = "no-store"}

MPolicy(r) == "no-cache"

Policy(r) == IF r.policy = "" THEN "no-cache" ELSE r.policy

MTagged(r) == Policy(r) # "no-store"

\* Only a good page that may be stored has a validator.
Tagged(r) == r.status = 200 /\ Policy(r) # "no-store"

Bytes(r) == <<r.data, URL>>

Render(r, match) ==
  [status |-> IF Tagged(r) /\ ETagMatch(match, Bytes(r)) THEN 304 ELSE r.status,
   bytes |-> Bytes(r), policy |-> Policy(r)]

\* A restart with another build.  What is on the screen is of the old one.
Deploy(f) ==
  /\ f # file
  /\ file' = f
  /\ deployed' = deployed \cup ({f} \cap Bodies)
  /\ returned' = (f \in deployed)
  /\ sinceDeploy' = 0
  /\ visit' = IF visit = None THEN None ELSE [visit EXCEPT !.crossed = TRUE]
  /\ UNCHANGED <<page, asset>>

-----------------------------------------------------------------------------
(* The cache and the browser.                                              *)

\* A stored page is asked about unless its policy lets it be reused; a 304
\* stands for the copy that was asked about.
Screen(r) ==
  IF page = None
    THEN [bytes |-> Bytes(r), status |-> r.status]
  ELSE IF page.policy # "no-cache" \/ Render(r, page.bytes).status = 304
    THEN [bytes |-> page.bytes, status |-> 200]
  ELSE [bytes |-> Bytes(r), status |-> r.status]

LoadPage(r) ==
  /\ visit' = [shown |-> Screen(r), wanted |-> [bytes |-> Bytes(r), status |-> r.status],
               crossed |-> FALSE, got |-> None, late |-> FALSE]
  /\ page' = IF Screen(r).status = 200 /\ Policy(r) # "no-store"
               THEN [bytes |-> Screen(r).bytes, policy |-> Policy(r)] ELSE page
  /\ UNCHANGED <<file, deployed, returned, sinceDeploy, asset>>

\* A template fails: Render has written nothing, and the handler's error page
\* names no file.
LoadFails ==
  /\ visit # None /\ visit' = None
  /\ UNCHANGED <<file, deployed, returned, sinceDeploy, page, asset>>

Fresh(v) == asset[v] # None /\ asset[v].life # 0

\* A copy that is not fresh is asked about with its ETag.
Answer(v) == ServeHTTP(v, IF asset[v] = None THEN None ELSE asset[v].body)

Got(v) == IF Fresh(v) THEN asset[v].body
          ELSE IF Answer(v).status = 304 THEN asset[v].body ELSE Answer(v).body

Fetch(v) ==
  /\ asset' = IF Fresh(v) \/ Answer(v).status = 404 THEN asset
              ELSE [asset EXCEPT ![v] = [body |-> Got(v), life |-> Answer(v).maxAge]]
  /\ UNCHANGED <<file, deployed, returned, sinceDeploy, page>>

\* The page on the screen loads the file it names, at once or later.
LoadAsset ==
  /\ visit # None
  /\ Fetch(visit.shown.bytes[2])
  /\ visit' = [visit EXCEPT !.got = Got(visit.shown.bytes[2]), !.late = (sinceDeploy = Hour)]

\* So do other tabs, bookmarks and links, with any URL that was ever served.
LoadOther(v) == Fetch(v) /\ UNCHANGED visit

EvictPage ==
  /\ page # None /\ page' = None
  /\ UNCHANGED <<file, deployed, returned, sinceDeploy, asset, visit>>

Evict(v) ==
  /\ asset[v] # None
  /\ asset' = [asset EXCEPT ![v] = None]
  /\ UNCHANGED <<file, deployed, returned, sinceDeploy, page, visit>>

Older(c) == IF c = None THEN None
            ELSE IF c.life \in {0, Year} THEN c ELSE [c EXCEPT !.life = @ - 1]

Tick ==
  /\ sinceDeploy' = IF sinceDeploy = Hour THEN Hour ELSE sinceDeploy + 1
  /\ asset' = [v \in Versions |-> Older(asset[v])]
  /\ UNCHANGED <<file, deployed, returned, page, visit>>

Next ==
  \/ Tick \/ LoadAsset \/ LoadFails \/ EvictPage
  \/ \E f \in Files : Deploy(f)
  \/ \E r \in Replies : LoadPage(r)
  \/ \E v \in deployed \cup {Plain} : LoadOther(v) \/ Evict(v)

Spec == Init /\ [][Next]_vars

-----------------------------------------------------------------------------
(* Properties.                                                             *)

\* A copy the cache keeps for a year has the bytes its URL names, whatever the
\* server ran when it was fetched (ServeHTTP, assets.go:118-143).
ImmutableTruthful ==
  \A v \in Versions : asset[v] # None => (asset[v].life = Year => asset[v].body = v)

\* A new build is seen at once: a page loaded since the deploy shows the file
\* deployed, not the copy of an hour ago, unless the build is an earlier one
\* that came back (URL, assets.go:97-116, and Render's policy and ETag).
NewBuildShows ==
  visit # None =>
    (~visit.crossed /\ ~returned /\ file # Missing => visit.got \in {None, file})

\* After a rollback, or when the file is gone, an hour is enough: the copies
\* that old pages left under an URL it serves again have expired by then.
HourHeals ==
  visit # None => (~visit.crossed /\ visit.late => visit.got \in {None, file})

\* The page on the screen, and its status, are what Render made of this
\* request, even when the browser was told that its copy is still good
\* (render.go:102-168).
PageHonest == visit # None => visit.shown = visit.wanted

\* A secret is in no cache, so it is shown to no later request (NoStore,
\* cache.go:30-37; Render keeps the policy that the handler set).
SecretNotStored == page # None => page.bytes[1] \notin Secrets
=============================================================================
