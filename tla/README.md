# nitrokit in TLA+

This directory specifies the parts of nitrokit (a Go toolkit for HTTP servers)
whose correctness depends on time, on concurrency or on what happens when a
step fails: how a server starts and stops, how requests and failed logins are
limited and to whom they are attributed, how wildcard certificates are obtained
and renewed in time, and what a visitor sees of pages and static files while
deploys replace them.  The modules are translated from the
Go source; `PROJECT.json` says for every definition which lines it stands for.
TLC checks the models on small instances, and TLAPS proves every safety property
of the passing runs for all values of the constants.

Paths and line numbers below are those of the repository (`lifecycle.go:131`
is `src/lifecycle.go`, line 131).

## The system

nitrokit is a library: an application builds handlers and calls `Run` or
`RunTLS`.  Its parts share little state.  Inside a process they meet in three
places: `RunTLS` starts one certificate manager per wildcard and passes its two
servers to the same `runAll` as `Run`; the managers share one cache directory;
and handlers call the limiters and the assets from as many goroutines as there
are requests. Two more meet outside the process: a limiter's key is what
`ClientIP` makes of headers that clients and proxies wrote, and pages, assets
and their cache policies meet in a browser's cache.

| component | source | state | operations | status |
|---|---|---|---|---|
| lifecycle | lifecycle.go | the channel of serve errors, the shutdown error, one serve and one Shutdown goroutine per server, two contexts | Run, runAll, NewServer | modelled: RunContract, Lifecycle |
| rate limiter | ratelimit.go | a map of buckets and the time of the last sweep, under a mutex | Allow, sweep | modelled: BucketParams, TokenBucket, Limiter |
| failure limiter | faillimit.go | a map of counts and window starts, under a mutex | Blocked, Fail, Pass | modelled: FailLimiter |
| wildcard certificates | dnscert.go | certificate in memory, certificate file, shared account key file | newDNSCert, renewLoop, ensure, obtain, store, load | modelled: CertStore, DNSCert, RenewLoop |
| Route 53 solver | dns.go | none of its own; the zone is remote | SetTXT, CleanupTXT, waitInSync | partly: DNSCert |
| RunTLS | tls.go | the managers, the context of their loops | RunTLS, certificate dispatch | partly: DNSCert, Lifecycle |
| directory assets | assets.go | the hash cache, under a mutex; the directory is edited by others | URL, ServeHTTP, hash | modelled: DirAssets |
| embedded assets | assets.go | none after NewAssets | URL, ServeHTTP | modelled: AssetCache |
| template rendering | render.go | none after parsing | Render | partly: AssetCache |
| cache policy | cache.go | none | NoCache, NoCachePrivate, NoStore, ETagMatch | modelled: AssetCache |
| write budget | writebudget.go | time of the last deadline renewal | Write, bump | not modelled |
| client address | clientip.go | none | ClientIP, trusted, peerAddr | partly: ClientIP, Login |
| JSON and forms, middleware, request signing, environment, health check | json.go, form.go, middleware.go, sigv4.go, env.go, health.go | none | pure or sequential code around the standard library | not modelled |

What makes each part hard, and what must hold:

- **Lifecycle.**  Reports of serve goroutines, drains, the ten-second budget,
  cancellation, signals and a caller's own `Close` come in any order.  When
  `Run` returns nothing it started may be listening; it must report the first
  cause; it must not drop a request without saying so; and it must return.
- **Rate limiter.**  Buckets are refilled lazily and forgotten by a sweep.  The
  forgetting must not be noticeable, the map must not grow without bound, no
  refill may lose more than its rounding, and the announced wait must be right
  but for truncation and rounding.
- **Failure limiter.**  `Blocked` and `Fail` are two calls with a password
  compare in between, the window is fixed rather than sliding, and the map is
  capped.  The limit must hold up to a known overshoot, and a flood of keys may
  cost a lockout only when nothing else can be dropped.
- **Certificates.**  A dozen remote calls, any of which may fail before or after
  it took effect; three files that may be there and yet not be read; a process
  that may die between any two steps; several managers and autocert on one
  account key.  A served certificate must survive, the
  authority's limits must be respected, renewal must go on after any failure,
  and it must come before the certificate expires.
- **Directory assets.**  `URL` and `ServeHTTP` look the same name up several
  times without a lock while the directory changes, read it piece by piece, and
  any of these calls may fail.  A wrong hash must not stick, and `immutable` must not be said of the wrong version.
- **Embedded assets, pages and their cache policies.**  A browser answers from
  copies it took from other builds, under URLs that pages of other builds
  named.  A year's copy must be of the right bytes, a deploy must be visible, a
  304 must stand for what would have been sent, and a secret must not be kept.
- **Client address.**  The hop list mixes what a client made up with what
  proxies appended, in two spellings of IPv4.  A failed login must count for
  the host that made the request.

The full list of hazards, each at its line and with the properties that would
catch it, is in `PROJECT.json`.

## The modules

Conventions: an action is one atomic step of the code (a call that holds a mutex
from its first line to its last is one action); a variable marked *history* in
its comment is not state of the program and no action's guard uses it, except
that `MaxLog` and `MaxMisreads` bound what FailLimiter and DNSCert count, and that
`blind` narrows a timing assumption of DNSCert (see `Age`); an operator whose name
begins with `M` followed by a definition's name is a plausible faulty version of
that definition.  Faulty versions are not used by any specification:
`PROJECT.json` pairs each property with one, and substituting it makes TLC find
the property violated.

### RunContract and Lifecycle

`Lifecycle` is `runAll` (lifecycle.go:93-157).  `pc` follows `runAll` itself:

| code | action |
|---|---|
| NotifyContext and `go serve` per server (97-110) | Start |
| `select`: `<-errc` or `<-ctx.Done()` (112-118) | TakeFirst, SeeCancelled |
| `stop()` and the budget's context (122-125) | RestoreSignals |
| one Shutdown goroutine per server, then `wg.Wait` (126-144) | Spawn, Joined |
| the collecting loop and the return (146-157) | Collect, Return |

The serve goroutine of a server is `Check`, `Bind`, `Track`, `AcceptClosed` /
`AcceptFails`, `Report`; its Shutdown goroutine is `BeginShutdown`,
`ListenersGone`, `PollAgain`, `GiveUp`; the world is `Cancel`, `Signal`,
`CallerClose` and the clients' `Connect`, `Request`, `Finish`, `HangUp`.
net/http is not in the repository; its steps model what `runAll` relies on, and
the map marks them external.  Two details matter: `Shutdown` sets its flag before
`ListenAndServe` may have looked at it, and a server that registers its listener
late refuses to serve.

`GraceExpires` carries a **timing assumption**: ten seconds suffice for a
Shutdown goroutine that waits only for the scheduler to reach its ticker.

`RunContract` is what callers are promised, without goroutines, the channel,
polls or the timer: serve until asked or until a server stops, drain, return once
everything has stopped and whoever still holds a connection had its time, with
the first fault as the culprit; while it serves no signal kills it.  `Lifecycle`
implements it (`ImplementsRun`) under the mapping `RC`: `Phase` groups the values
of `pc`, `Listening` and `Stopped` those of `serve`, `FirstFault` reads the
channel's history, `Overdue` and `Held` the drains and the connections.  Most
steps of `Lifecycle` are stutters of the contract; a report is a `Fault` only if
it is the first error, and `Collect` is never visible, so the mapping shows that
collecting in any order loses nothing.

### BucketParams, TokenBucket and Limiter

`BucketParams` holds what `NewLimiter` is given.  `TokenBucket` is the promise: a
bucket per key that refills on every tick and never forgets.  `Limiter` is the
code: `Allow` is one action that sweeps, finds or creates, refills, decides and
computes `retryAfter`.  `Limiter` implements `TokenBucket` under the mapping that
gives a key what the last call left in its bucket plus the refill since
(`ImplementsBuckets`), whether its entry is still there or not.

Tokens are counted in units, `Rate` per tick and `Token` per request, and a tick
stands for the smallest step of the clock.  The code computes in float64: a
refill (`Rounded`) and a wait (`Waits`) are any value within `Slack` units of the
exact one.  Taking a token and the cap are exact, and so is a refill when no time
has passed.  `BucketAssumption` says only that a tick refills more than twice what
a computation rounds away: a refill in a nanosecond is far above the last place
of a float64 for the rates and bursts a server has.  `RefillTime`, from which the
sweep takes its idle threshold, is rounded and truncated too and may be a tick
short; `LimiterAssumption` allows that, and the refinement holds all the same.

Rounding shows at the boundary.  A key that spends the exact rate may be denied
its next request although the sum of its tenths is one in the reals, or be
admitted when it is a hair below; the code has no such promise, and none is
stated here.  What holds is how far that can go: `RateConformance` bounds what is
admitted from above by a rounding more per tick, and `DenialDeserved` from below
by a rounding less: a request is denied only if, since some earlier grant, the
requests with this one no longer fit in the burst and such a refill.

### FailLimiter

The three calls of faillimit.go, made by `Workers`, the handlers: `Check` is
`Blocked` followed by entering the compare, `Fail` and `Pass` end it.  Between
the two any number of other handlers' calls happen.  `Blocked` removes an entry
whose window is over; `OpenWindow` contains the sweep of expired entries and the
eviction of arbitrary ones from the full map.  `failLog` is history.

### ClientIP and Login

`ClientIP` is the function of clientip.go that reads the hop list from the right:
`Stops` are the hops at which the walk ends, a malformed one or one that is not
trusted.  `Login` composes it with `FailLimiter`: `Arrive` is a login handler that
calls `Blocked` with `ClientIP` as the key, `Verdict` its `Fail` or `Pass` with the
same key.  A request starts at any host with any header (`Forged`) and passes
any sequence of trusted proxies, each of which appends the address it was called
from in either spelling, or a word that is no address (`Appended`).  `owner` is history:
whom the route makes responsible, computed from the machines passed and never
from the header.  A proxy that hides its caller is responsible itself.
`LoginSpec` implements `FailLimiter`'s `Spec` (theorem LoginImplements).

### CertStore and DNSCert

`DNSCert` is `renewLoop` with everything it calls in dnscert.go and dns.go, one
instance per wildcard, and what `RunTLS` and the operating system do around it.
`pc[m]` names the call the loop of `m` is about to make and `attempt[m]` holds
the local variables of `obtain` and `solveAuthorization`.

| code | actions |
|---|---|
| renewLoop, ensure | Ensure, Wake, SeeDone, and Fail for an error |
| accountKey, acmeClient | ReadKey (UseKey, NewKey, Misread), TruncateKey, WriteKey, Register |
| obtain | AuthorizeOrder, NextAuthz, Finalize, Swap |
| solveAuthorization with its deferred CleanupTXT | Upsert, WaitInSync, Accept, Verdict, Cleanup |
| store | Store (temporary file), Rename |
| newDNSCert, load; RunTLS and its deferred cancel; the process | StartAgain, RunReturns, Die |
| autocert's account (external) | AutocertReads, AutocertPuts, AutocertRegisters |
| time, the zone's servers | Age, Propagate |

Every call to the authority or the zone may fail, and so may writing the key file
and the certificate's; a call with an effect elsewhere may fail after it took
effect.  Two failures of reading have consequences of their own.  `accountKey` takes any
error of `ReadFile` for a missing key (dnscert.go:259), so a key file that cannot
be read is replaced by a new key (`Misread`, at most `MaxMisreads` times).
`newDNSCert` ignores an error of `load` (dnscert.go:70), so a start may serve nothing
although a good certificate is on disk (`Loaded`); the managers in that state are
`blind`, and order another one.  Generating and encoding keys does not fail, nor
do `ensure` and the swap, which only touch memory.

`os.WriteFile` of the account key is two steps, truncate and write, and a crash in
between leaves a torn file.  With `ExactHosts` the same process has an autocert
manager for the hosts that are no wildcards.  It is a library; of it there is what
dnscert.go:254-256 says it shares, the account key: it reads the file, generates a
key only when there is none, writes another file and renames it, and registers.
A manager that was writing then writes to a file without a name (`unlinked`).
A certificate is fresh or due for renewal; its expiry is the subject of RenewLoop.
**Timing assumption** of `Age`: a certificate does not become due within the
minutes between its issuance and the end of that attempt.  One that a blind
manager has not loaded may become due at any time.

`CertStore` is what the managers promise, without keys, accounts, orders, records
or retries: each is a certificate on disk that is replaced whole and only when
missing, due or not loaded (`Renew`), served once it is there (`Serve`), and served
again from the moment a new process has loaded it (`Restart`).  `DNSCert` implements it
(`ImplementsStore`): the rename is `Renew`, the swap is `Serve`, and every other
step of a loop is a stutter.  That implies `ServedIsStored`, which is proved too.

### RenewLoop

The same loop against a clock, with an attempt as one interval: `Check` finds the
certificate not due, `Try` starts an attempt, `Obtained` and `Failed` end it
(dnscert.go:102-130), `Crash` and `Restart` are the process.  `until` is when the
timer fires, the attempt's context and the cleanup after it end, or the process
is back.  `certificate` is what a handshake gets: it never waits for an attempt.
A start serves what is stored; one that fails to load it is in DNSCert.
At most `MaxSetbacks` failures and crashes come in a row, each crash costs at
most `MaxDown`, and `MarginAssumption` says that the constants of
dnscert.go:46-54 leave time for them.  **Timing assumption**: timers fire on time,
and calls return when their context ends.

### DirAssets

The calls `URL` and `ServeHTTP` of DirAssets (assets.go:145-264), any number at
a time, each file system call a step of its own that may fail with the file in
place; only the look into the cache and the store to it are under the mutex.
`io.Copy` and `ServeContent` read the file in `Pieces` (`Copy`, `Send`), with edits
in between, so a hash or a response can be a mixture of versions, and a response
can break off.  `Replace`, `Rewrite` and `Remove` are
a deploy by rename, a write in place and a deletion.  A call keeps the file it
opened, so a file that was renamed away can still be sent.  Assumptions: no two
versions of the file share size and mtime, and no two bodies, mixtures included,
share a hash; a half-written file is a body of its own.  `during` and `rewritten`
are history: what the name led to since a call began, and the calls that saw a
write in place, which are the only ones whose answers may mix versions (`Honest`).  One file name is enough because the code never relates two.

### AssetCache

`Assets` and `Render` as a browser sees them.  The server is `URL`, `ServeHTTP`,
`Render` and the policies a handler may ask for (`Replies`); `Deploy` restarts it
with another build of the file, an earlier one or none.  The browser is
`LoadPage`, `LoadAsset` for the file the page on the screen names, `LoadOther` for
every URL that was ever served, and `Evict`, `EvictPage` and `Tick` for its cache:
a copy within its max-age is used without asking, any other is asked about with
its ETag.  `page` and `asset` are the cache, `visit` is what is on the screen and
whether the server was replaced under it.  A body stands for its hash, a page for
its bytes.  One file, one page and one browser are enough because no copy
depends on another.  One server runs at a time: while two builds answer side by
side, an old one may give its bytes under a new URL, for an hour.

## The runs

| run | instance | states | what it shows |
|---|---|---|---|
| lifecycle | 2 servers, 2 connections each | 77 thousand | all safety properties of `runAll`, Lifecycle implements RunContract, and StopLeadsToReturn |
| lifecycle_doc | 2 servers, 1 connection | - | violation: a request still in flight when Run returned |
| limiter | 2 keys, clock to 5 | 818 thousand | Limiter implements TokenBucket; the rate bound from both sides, honesty and memory bounds, with rounding |
| faillimit | 2 clients, 1 proxy, 2 handlers, map of 2 | 255 thousand | cap, deserved blocks, overshoot, rolling budget, evictions, attribution |
| faillimit_doc | 1 key, 1 handler | - | violation: limit failures across a window's end do not block |
| dnscert | 2 managers and autocert, 2 stops, 1 misread | 449 thousand | DNSCert implements CertStore; AccountsBounded, NoNeedlessOrder |
| dnscert_order | 1 manager, 2 authorizations, 2 stops, 1 misread | 103 thousand | RecordInPlace, LeftoverExplained, and Renews |
| dnscert_stuck | 1 manager, 1 stop | - | violation: a torn account key ends renewal for good |
| renewloop | attempts of 3 ticks, 2 setbacks in a row | 12 thousand | NeverExpired, FirstInTime |
| dirassets | 2 calls, 2 bodies, 2 pieces, 3 edits | 4.5 million | CacheHonest, UrlCurrent, ImmutableHonest |
| dirassets_doc | 1 call, 2 edits | - | violation: old bytes sent as immutable under the new URL |
| assetcache | 2 builds or none, one secret, an hour of 2 | 225 thousand | what a browser keeps and shows across deploys |

Why the bounds are enough:

- **lifecycle.**  The code treats servers alike and `RunTLS` passes two.  Two
  show every race between a server and another's drain; two connections allow
  one idle and one active on a server.  Nothing is bounded besides.
- **limiter.**  Burst 10, token 5 and rate 3 with a rounding of 1: the rate divides
  neither, so each truncation shows, and a rounding either way decides boundary
  requests.  A bucket needs longer to refill than `MinIdleEvict`, `RefillTime` is the
  tick short that it may be, and with a clock of five ticks a bucket is drained,
  swept and created again.
- **faillimit.**  Limit 2 in a window of two ticks, three ticks of clock: two
  consecutive windows fit.  Three hosts on a map of two force evictions.
  `RollingBound` is tight here: the bound less one is violated.  Headers of two
  made-up hops and paths of two proxies put made-up, appended and malformed
  hops next to each other in every order that matters to the walk.
- **dnscert.**  Two managers and autocert race for the account key file; four keys
  are what they and one misread can make of it.  Two stops show a start that
  loads, one that does not, and a start after an order made blind.  No
  authorization is needed here.  Those, and records left by earlier ones, are in
  dnscert_order, where one manager is enough because zones of different wildcards
  are different records.
- **renewloop.**  `RenewBefore` is exactly `Needed`, so the margin is tight, and the
  clock allows three lifetimes.  Two setbacks in a row show a failure after a
  crash and a crash after a failure.
- **dirassets.**  A stale entry needs a call that reads an old version, an edit
  and a second call; three edits also bring an old body back under a new stamp.
  Two pieces are the fewest between which an edit fits.  dirassets_doc asks only
  about answers without a write in place, so its trace is a rename.
- **assetcache.**  Two builds allow a deploy, a rollback and the file's absence;
  nothing counts deploys or visits, so sequences of any length are covered.  An
  hour of two ticks has a moment before, at and after the end of a max-age.

Symmetry is used only in runs that check no liveness.  `MaxTime`, `MaxLog`,
`MaxStops`, `MaxMisreads`, `MaxEdits`, `MaxForged` and `MaxPath` bound a clock, a
history, crashes, failed reads of the key file, edits, made-up hops and proxies
passed; the proofs hold for every value
of them.  Deadlock checking is off in the runs whose clock stops at its bound:
the limiters' and renewloop.

### Fairness

- **Lifecycle** assumes that goroutines are scheduled (`RunStep`, and
  `ServeStep` and `DrainStep` of each server) and that the budget's timer fires.
  Nothing is assumed of clients, signals, the caller, `AcceptFails` or the next
  poll of a drain, so StopLeadsToReturn holds with clients that never finish.
- **DNSCert** assumes that each loop is scheduled, that a change of the zone
  reaches its servers, and that a process that died is started again.  That calls
  stop failing and that the process stays up is a premise of `Renews`, not an
  assumption: `<>[][~CallFails(m)]_vars`.
- The other specifications promise no progress and have no fairness.

## Where code and comments disagree

Each is a run in which TLC finds the sentence violated.

1. **In-flight connections are not closed** (`DocInFlightClosed`).  The doc of
   `Run` (lifecycle.go:50-52) says of a drain that runs out of time that
   "in-flight connections were closed mid-request".  `runAll` calls only
   `Shutdown`, which leaves active connections alone when its context ends.  Their
   handlers go on beside whatever the caller does next.
2. **The window of FailLimiter does not roll** (`DocRollingWindow`).  A "rolling
   window" (faillimit.go:9-11) is a fixed window that starts at the first
   failure.  `limit` failures that straddle its end do not block.  What the code
   does guarantee is `RollingBound`: less than twice the budget of one window in
   any period of a window's length.
3. **A torn account key stops renewal** (`DocKeepsRenewed`).  `store` writes
   certificates to a temporary file "so a crash mid-write cannot leave a truncated
   certificate" (dnscert.go:288-290), but the account key is written in place
   (dnscert.go:278).  After a crash or a full disk there the file exists without
   a PEM block, every later attempt fails on it (dnscert.go:260-262), and so does
   every restart, until somebody deletes it.  `Renews` is what holds: renewal goes
   on after every other failure.
4. **Immutable responses with the wrong bytes** (`DocImmutableExact`).  A
   matching `?v=` is said to name "exactly the bytes being served (both are
   checked in this request)" (assets.go:224-226).  `ServeHTTP` opens the file
   (assets.go:235) before `hash` looks the name up again, so a deploy in between
   pairs the old bytes with the new hash, for a year in every cache: in the trace
   a deploy renames the new file over the name between `Open` and `Stat`, and the
   request asks for the new `?v=`.  The run leaves out answers during which the
   file was written in place.  Those break the sentence in another way: written
   after the hash, new bytes, or a mixture, go out under the old URL.
   `ImmutableHonest` is what holds: hash and bytes are versions the file had during
   the request, and a mixture of them only when it was written in place meanwhile.

## What is proved

The proof modules hold for every value of the constants that satisfies the
`ASSUME` of the module proved about: finite sets where the code's are finite
(servers, keys, handlers), positive rates and limits, a burst of at least one
token, and distinct "none" values.  TLC evaluates these assumptions in the runs.

| module | theorems | argument |
|---|---|---|
| LifecycleProofs | TypeCorrect, ReturnsStopped, ReturnsFirstCause, HonoursDrain, SharesBudget, DrainCanBeCut, Refinement, DrainNeverHangs, WorkRunsOut, MovesStayPossible | LifecycleInv, RunInv |
| TokenBucketProofs | BucketInvariant, BucketConforms, BucketRetryHonest | BucketInv, Waiting |
| LimiterProofs | TypeCorrect, MemoryIsBounded, Refinement, Conforms, RetryIsHonest, DenialIsDeserved | LimiterInv, Tight and the refinement |
| FailLimiterProofs | TypeCorrect, OvershootIsBounded, BlockedIsDeserved, LockoutsAreKept, RollingIsBounded, LoginImplements, AttributionIsExact | FailInv, WindowsInv |
| DNSCertProofs | TypeCorrect, ServedStaysStored, OrdersAreNeeded, RecordIsInPlace, LeftoversAreExplained, AccountsAreBounded, Refinement, RenewalNeverStalls, RenewalsGetCloser | CertInv, ZoneInv, KeyInv, AttemptInv |
| RenewLoopProofs | TypeCorrect, NeverExpires, FirstComesInTime, DefaultMargin | InBudget |
| DirAssetsProofs | TypeCorrect, CacheIsHonest, UrlsAreCurrent, ImmutableIsHonest | AssetsInv |
| AssetCacheProofs | TypeCorrect, ImmutableIsTruthful, NewBuildIsShown, AnHourHeals, PageIsHonest, SecretIsNotStored | CacheInv |

- **LifecycleInv.**  The properties speak of `runAll` after it returned, where
  nothing is left of how it got there.  The invariant adds: the channel holds one
  entry per goroutine that sent (`OneReportEach`, so counting to the number of
  servers means all have sent); what each phase has established (`Phases`); what
  the progress of a drain says of its server (`Draining`, in particular that a
  server whose drain has passed its listeners never accepts again); that
  `serveErr` is the first error taken (`FirstTaken`); and that the shutdown error
  is set exactly when some drain expired (`ErrorKept`).
- **RunInv and the refinement of RunContract.**  The contract may drain only for a
  reason, and names the first fault although `runAll` sees reports one at a time
  and late.  `Underway` adds what holds from the first serve on (a drain implies
  that somebody asked or some server stopped, and that the budget is running), and
  `FaultKnown` that a first fault in the channel belongs to a server that has
  stopped.  `FirstFault` changes only with a `Report`, and only while there is none.
- **NeverStuck, Onward, Steady.**  Liveness itself is out of the prover's reach, but
  the three facts it needs are not, and they hold for any number of servers where
  TLC sees two.  Until Run has returned some goroutine or the timer can move
  (DrainNeverHangs; the room in the channel, `RoomToReport`, and the loop that
  collects exactly the reports that come are what could deadlock).  What each still
  has to do is a natural number that no step of anybody raises and every step of
  theirs lowers, except a poll that finds its connections busy (WorkRunsOut).  And
  who can move still can after every step that lowers nothing (MovesStayPossible).
  With weak fairness StopLeadsToReturn follows by counting down; that last
  temporal step is the part left to TLC.  The guards `CanRun`, `CanExpire`,
  `CanServe` and `CanDrain` spell out when the scheduled actions are enabled.
- **BucketInv and Waiting.**  `Conformance` says nothing of unspent units, which
  the next grant uses.  `Accounted` does: from any grant on, what was admitted
  plus what is left fits burst plus refill and a rounding for each tick up to the
  last call (calls without a tick between them do not round).  `Waiting` says
  that a denied key's bucket is the level at the denial plus the refills since.
- **LimiterInv and the refinement.**  `Recent` bounds the age of entries by the
  last sweep.  `Histories` says that a key without an entry would have a full
  bucket, but for a rounding, had it been kept: the idle threshold is a full
  refill, at most a tick short.  `TokenBucket` may round such a bucket up to full,
  so a fresh one is no more than it could have given.  `Conforms` and
  `RetryIsHonest` are then theorems of `TokenBucket`, carried over through `INSTANCE`.
- **Tight.**  What is stored is never short: since some grant, what was admitted
  plus what is left is at least burst plus what the ticks refill, each less one
  rounding.  A denial has less than a token left, so with one more request that
  sum is exceeded: DenialIsDeserved.  It is no theorem of `TokenBucket` alone, for
  it needs that an entry the sweep drops comes back full.
- **FailInv.**  `OvershootBounded` counts the handlers still comparing next to the
  failures already counted; without them a stale `Fail` would break it.
  `Recorded` says that an entry counts the key's latest failures, all of its
  window.
- **WindowsInv.**  `RollingBound` speaks of windows whose entries are long gone.
  `Divided` finds them in the history: there is a set of starting points such that no
  failure is a budget or more after its window's start, and each start is a
  Window or more after the one before.  A period that held twice the budget would
  contain two starts and with them a whole window.
- **LoginImplements, AttributionIsExact.**  Whatever a client puts before them, the
  hops appended by the proxies are last; the walk stops at the responsible
  host's, or at the first word that hides it.  So every `Check` of Login uses a
  key of FailLimiter, and all its theorems hold there.
- **CertInv, ZoneInv, KeyInv.**  Three parts of DNSCert do not depend on each
  other.  Memory and file agree except between rename and swap; the record is
  the challenge's from UPSERT to cleanup; and the keys that may still be
  registered (in the file, in an attempt, with autocert, or registered) only get
  fewer once a file has been created, but for one more with each misread; before
  that each applicant, a manager or autocert, holds one at most.
- **The refinement of CertStore** needs of CertInv that a rename meets a missing or
  due certificate on disk or a manager that is blind, that a swap meets a fresh one
  and ends the blindness, and that no file is torn when a process starts.
- **AttemptInv, NeverStalls, Closer.**  The facts behind Renews, for any number of
  managers and authorizations.  While the process serves a loop can go on without
  failing, unless it waits for a change of the zone or found a torn key file
  (RenewalNeverStalls; its hypothesis, as many keys as
  managers and autocert, says that one can
  always be generated).  `Left` counts the steps to the swap: six for each
  authorization still to solve and one for each call around them.  While calls go
  well every step of the loop lowers it and nobody else raises it
  (RenewalsGetCloser).  Again only the last temporal step is left to TLC.
- **InBudget.**  The time until the loop is next at its check, the attempt that
  follows and what the setbacks still to come can cost all fit before the expiry
  (for the first certificate: into what the setbacks so far have cost).
  DefaultMargin evaluates it for the constants of dnscert.go: 500 failures in a
  row, with up to an hour without a process after each.
- **AssetsInv.**  That a matching cache entry is right depends on the calls about
  to store one (`Stamps`), and that a call may use another's entry depends on when
  that one read each piece of the file (`Shared`); `Own` is what each call knows by
  itself.  They speak of what was read so far (`Partial`) and of a file read to its
  end (`Done`), and allow two versions in it only to calls in `rewritten`.
- **CacheInv.**  A copy of another build than the running one dates from before the
  last deploy, so it expires within an hour of it, unless its URL names it; while
  a build runs for the first time, no wrong copy is kept under its URL (`CopyInv`).
  A stored page is never reused without asking (`PageInv`), so `VisitInv`: the page
  on the screen names the URL the running build would name.

### Only model-checked

Liveness under fairness: StopLeadsToReturn and Renews, which no available prover
reaches; what they rest on is proved (see NeverStuck and NeverStalls above).  Every
safety property and refinement of the passing runs is proved.  The four violations are counterexamples and need no
proof.

## Not modelled

- **WriteBudget** (writebudget.go).  One response has one deadline, moved by its own
  writes; nothing is shared.  Reading it shows what it relies on: the deadline is
  renewed at most once a second (writebudget.go:56), so a budget near or below one
  second can end between two renewals although every write makes progress; it is
  renewed before a write and not during it, so one large write must end within
  the budget even when the client keeps reading; and what `Unwrap` lets through
  (flushing) renews nothing.
- Overflow of `time.Duration` for very slow rates, and rates so high or bursts so
  large that a nanosecond refills less than float64 rounds away.
- Contents of requests, responses, certificates and DNS messages, and the SigV4
  signature.  autocert, which serves the names that are no wildcards, is a
  library, and the dispatch of handshakes to it or to a manager reads only.
- Parsing: the trust list with its masks, hops with ports or zones, environment
  variables, JSON and forms.  A peer whose address cannot be parsed (a Unix
  socket) is left out too: it gets the zero address, which all such peers share.
- Conditional and range requests to a directory, which net/http answers from
  what `ServeHTTP` gives it.  Caches shared between visitors, and two builds
  that answer side by side during a rolling deploy.
- Files that keep their size and mtime while their bytes change: `dirHash` compares
  nothing else.
- Template parsing, partials and HEAD in render.go: nothing of them outlives a
  request.
- A second `RunTLS` in the same process while loops of the first are still ending.
- Middleware, request signing, environment and health check: pure or sequential
  code around the standard library, with no state beyond one request.

One remark is not a finding.  The comment on `Assets` (assets.go:29-32) says
that after a deploy browsers fetch a changed file instead of an older copy.  That
is `NewBuildShows` for a build that runs for the first time.  When a build comes
back, a copy of the other build's bytes under its URL (assets.go:138) may be
shown for up to an hour; `HourHeals` is what holds.

## Plan

Written so far: Lifecycle, TokenBucket and Limiter, FailLimiter, DNSCert,
DirAssets, RenewLoop, ClientIP and Login, AssetCache, with the proofs of all; the
abstract specifications RunContract and CertStore, with their refinements; and the
facts about progress (what stays possible, what is used up) of Lifecycle and DNSCert.
What could come next:

1. **WriteBudget**: the deadline against writes of any pace.
2. **A rolling deploy** in AssetCache: two builds at once, for which the hour is
   counted from the end of the older.
