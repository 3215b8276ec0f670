# InWheel server: models, checks and proofs

TLA+ models of the InWheel server (a registry of places and their accessibility, in Go over
PostgreSQL), TLC configurations that check them on small instances, and theorems checked by TLAPS.
Paths like `internal/place/repository.go` are those of the repository.

## 1. The system

Three kinds of process share one database. **`cmd/api`** serves HTTP; every request is a goroutine.
**`cmd/ingestion`** runs as a *canonical* importer (OSM) or as a *feed* of external records (for
example Wheelmap). Nothing coordinates them except the database: statements run READ COMMITTED, a
few are joined in a transaction, unique constraints and one `SELECT ... FOR UPDATE` are the only
locks. Whatever is not in the database is gone when a process ends.

| Component | State | Operations | Hard because |
|---|---|---|---|
| matcher (`internal/identity/matcher.go`, `score.go`) | none | `Match`: fetch candidates, score, decide | weights, thresholds, redistribution of a missing address, a row limit, ties |
| reconciliation (`resolve.go`, `sweep.go`, `internal/unmatched`) | `places.external_ids`, `unmatched_external`; `touchedIDs` in memory | `Resolve`, `Enqueue`, `AttachExternalRef`, `Sweep`, `Delete`, `BumpAttempts` | two writes that no transaction joins, rows used long after they were read, processes dying in between |
| canonical import (`cmd/ingestion/batcher.go`, `main.go`) | `places`, profiles; buffer and pending profiles in memory | `FullImport`, `add`, `flushNow`, `UpsertBatch` | two parallel lists over batches, partial failure, a repeated run |
| tag mapping (`internal/sources/osm`) | none | `Evaluate`, `DeriveRank`, `mapTagsToProfile` | branch order, shadowing keys, unreadable numbers |
| profile writes (`internal/place/repository.go`) | one `accessibility_profiles` row per place | `UpsertProfile`, `UpsertProfileIngestion`, `CreatePlace` | read-modify-write by many writers, insert races, a read without a lock |
| accessibility rules (`internal/a11y`) | none | `WithAuditFlags`, `ComputeEffectiveProfile` | derived data stored beside what it is derived from |
| reading a place (`cmd/api` `GetPlace`) | place and parent | two queries | both may be written between the queries |
| listing (`ListPlaces`, `PlacesQuery`, `internal/geo`, `internal/pagination`) | `places.updated_at` | validation, filters, keyset pages | rows move while a client pages, equal timestamps, late commits; a handler that relies on what the validator saw |
| API keys (`handle_register.go`, `handle_revoke.go`, `auth.go`) | `api_keys` | `Register`, `authenticate`, `RevokeKey` | check-then-insert, check-then-update, lost responses |
| rate limiter (`internal/middleware`) | `sync.Map` of limiters | `Allow`, `evictIdle`, `sweep` | an eviction between another goroutine's look-up and its use |
| request pipeline (`cmd/api/main.go`, `errors.go`, `public_rate_limit.go`) | the process, how far each request has come, three sets of buckets in memory | validator, `authenticate`, `PublicRateLimit`, handler, answer; start, `Shutdown`, deadline | charges before and after look-ups that may fail, answers after lost acknowledgements, requests cut off, restarts that forget |
| validation of bodies, logging, generated API, health, migrations, registry, PBF decoding | none | | pure I/O or stateless, see `PROJECT.json` |

What makes each correct, in a sentence: the matcher answers the best candidate whatever order the
rows come in; a record of a feed is always in the queue or on a place; a run that reaches its sweep
has written its whole file; the flags of an imported place are those its tags are evidence of;
every profile write is atomic and a person's mark is never cleared; stored flags are those of the stored members; a reader sees one
state of each component; a row that nobody writes is listed once to a client whose filters admit it,
and no filter is passed over; an address has one active key, revoked once, by its owner; no client
is refused a token it is due, pays for another, or is told what is not so.

## 2. Modules

Each module is translated from the code; `PROJECT.json` maps every definition to its lines.

* **`MatchScore`** (no variables): normalisation, the three score components, `CombinedScore`,
  `FindCandidates`, `Decision`, and the reference definition `Answers` that knows neither loop nor
  order. Scores are exact fractions (the code has `float64`), positions lie on a line, strings are
  sequences of tokens. **`Matching`** is one call of `Match` step by step, over all records and
  tables of an instance: `Fetch` (the query), `Consider` (one turn of the loop over the candidates),
  `Decide`.
* **`Reconcile`** extends `MatchScore`. One action per SQL statement: `Resolve` (match, the
  decision becomes local), `ResolveAttach` / `ResolveEnqueue`, `FlushBatch` (`UpsertBatch`),
  `BeginSweep` (`FindCandidatesNearTouched`), `SweepMatch`, `SweepAttach`, `SweepDelete`,
  `SweepBump`, `CreatePlace`. With `Faults`, a statement fails (`ResolveFails`, `SweepRowFails`: the
  loop logs it and goes on) or a process dies (`ImportDies`). A sweep deletes or bumps by number
  (`RowsWithId`), whatever row has it then; every `INSERT`, one that updates on conflict too, takes a
  number from the sequence. `settled`, `requeued` and `gone` are history.
* **`Ingest`**: one element at a time from the file into the buffer, `Flush`, then the profiles of
  the batch one by one (`LoadProfile`, `WriteProfile`), the last batch, the sweep. Clients POST and
  PATCH beside it. What the sweep does is `Reconcile`.
* **`A11yEngine`** (no variables): flag rules, level bands, effective profile.
  **`OsmTags`** extends it with the tag mapping; what `strconv` reads is a constant table.
  **`TagMapping`** is an element whose tags are edited one at a time and imported after each edit.
* **`ProfileData`**: a profile reduced to its ratings, and the merge patch. **`ProfileStore`**: the
  abstract specification, in which a submitted PATCH takes effect in one step. **`ProfileWrites`**:
  the statements of `UpsertProfile` (two attempts, row lock, unique violation), `CreatePlace` and
  `UpsertProfileIngestion`. `creators` is history: whose `INSERT` made the row, whether or not the
  writer lives to see it. It implements `ProfileStore` under the mapping that takes a request
  being served to a pending patch and an import that has read an unverified profile to one that has
  begun.
* **`Inheritance`** extends `A11yEngine`: PATCH and imports of a place and its parent (atomic here;
  `ProfileWrites` has their statements) and GETs in two queries. A client may send back what it was
  given.
* **`Listing`**: one client pages while writers take a timestamp early and commit late. A query is a
  function of the parameters it has; `PlacesQuery` admits or refuses it, on every page again, and
  `Passes` is the switch of the handler, which looks at one parameter of a group and uses all. A page
  is a set of rows that lie before the rest; positions are on a grid.
* **`ApiKeys`**: registrations, revocations and other authenticated calls, statement by statement.
* **`ApiServer`** extends it with the process around the handlers. `path` is how far a request has
  come or the status it is about to be answered with. `Reject`, `Authorize` (charge the key, then
  look it up), `PublicRateLimit` and `StartRegister` (the registration limiter is in the handler)
  follow the middleware order of `buildV1Handler`; a step of a handler is a step of `ApiKeys`.
  `Acknowledge` answers a statement that committed, with `Faults` also as if it had failed.
  `Signal`, `Exit`, `DrainTimeout`, `Crash` and `Restart` are the life of the process; what is in
  memory (buckets, requests) does not outlive it. A limiter is a key (or address) and a
  *generation*: `Allow` looks the limiter up and then asks it, and `Sweep` may delete the entry in
  between, after which there are two. A request may ask the limiter of any generation so far; a
  sweep visits an entry once, so it begins one generation at most.
* **`TokenBucket`**: the abstract bucket, which `ApiServer` instantiates three times.
  **`RateLimiter`**: the map, the limiter objects, goroutines that hold one, and the evicting
  goroutine. It implements a `TokenBucket` per key until an eviction races, and a `TokenBucket` per
  key and generation whatever races: that is what `ApiServer` takes it for.
* **`MC*`** modules give constants; **`*Proofs`** modules hold the theorems.

A definition commented `Mistake` is a plausible bug of the definition below it. No specification
uses it: it is substituted to see that a property would notice.

## 3. What the runs check

All sets are small; the last column says why that is enough to meet the interesting cases. The type
invariants are proved for all constants (section 4); only `ingest` checks its `TypeOK` in a run as
well, since it bounds the buffer.

| Run | Shows | Bounds |
|---|---|---|
| `matching` | `MatchMeetsReference`: what the loop arrives at, candidate by candidate, is the best score, nearest among equals. `ConfidentNeedsBothSignals`, `FullAddressNeverHurts`: what the weights may never do | three places from thirteen kinds of row, twelve records; distances 0, 18, 20, 50, 51 m are on both sides of each threshold; a limit of two rows, so that it bites. The reference answers from the rows the query gives (`Fetched`): what the limit cuts off is not its subject (section 5) |
| `reconcile` | `Accounted`: once written, a record is in the queue or on a place, unless the code gives it up in one of the three ways listed in section 5. `SweepsHitTheirRows`: what a sweep deletes or bumps by a number read long ago is the row it read, not one that came later. `AttachTargetExists`, `AttemptsNeverReset` | two importers, one feed, two records of one source (they displace each other), one place; one flush and two numbers of the queue's sequence per behaviour: two rows, or a row that is refreshed, or one that is deleted and comes back; attempts saturate at two |
| `reconcile_drain` | `ImportReconsiders`, `MatchingRowIsDrained`, `ImportEnds` | no faults: with them `MatchingRowIsDrained` fails, as it should (`ImportReconsiders` is proved with faults, section 4); two places, batches of both or either, two flushes, three numbers (the feed may refresh a row twice). One importer: a second one may move a place between a sweep's read and its match, and the row then need not match any more |
| `reconcile_wipe` | violation of `RefsSurviveImport`, section 5 | one place, one record |
| `profile_writes` | `WritesAreAtomic` (refinement of `ProfileStore`), `LockedReadIsCurrent`, `SecondAttemptSuffices`, `CreatedOnce` (of requests and imports, earlier runs included, one at most inserted the row, and a request that says it created it did), `EveryWriterEnds` | three requests (the third could spoil the second's second attempt), one import, faults; a place that is not there, has no profile, or one of an earlier import; one property of the profile that a patch sets, clears or leaves, since the merge treats members independently |
| `profile_clobber` | violation of `CorrectionsSurviveImport`, section 5 | one request, two imports |
| `rate_limiter` | `NoLimiterIsBehind`, `RefusalsAreDue`: eviction never costs a client a token. `EvictionIsInvisible`: until an eviction races with a request the limiter is a `TokenBucket` per key. `EachLimiterIsABucket`: however evictions race, each limiter object made for a key is one | two keys, two goroutines, burst 2, four limiter objects, so that entries are created again after an eviction |
| `api_server` | keys: `OneActiveKeyPerEmail`, `RevokedOnce`, `KeyWorksUntilRevoked`. Limiters: `LimitsHold`, `OthersCostNothing`. Answers: `StatusIsTrue` | one e-mail that two registrations compete for, two calls (two revocations race), one read; two client addresses of which one is used, so that a charge to the wrong one shows; bursts of 1, which the requests exceed; one refill or one sweep in a life, so that an address has up to two limiters; two lives of the process; faults. Registrations differ in name only, and so do calls: up to permutations |
| `listing` | `UsesWhatItIsGiven`: a query is refused or used in full. `UnwrittenOnce`, `PagingEnds` | three rows, pages of one (three pages and the extra row), one writer that may write any rows together and late, timestamps 0 to 2, two kinds of place; four sound queries, one for each arm of the switch, and six that fail one check each |
| `inheritance` | `FlagsAreCurrent`, `ResponseIsWarranted`, `NothingInheritableIsMissing` | shop and mall, one reader, six bodies that set and clear members and components and two imported profiles; a GET lives through two rows of each place |
| `osm_mapping` | `FlagsMeetEvidence`, `InclusionIsMonotone`, `AmenityDecides`, `GoodNewsAddsNoFlag` | nineteen keys, sets of up to four tags: no branch of the mapping looks at more than three together |
| `ingest` | `CompleteRunIsComplete`, `ProfilesBelong`, `RunEnds` | batches of two; files with a dropped element, a last batch that is not full, an element twice in one batch or in two; two runs, so that a failed one is repeated |

Deadlock is checked, except where the system really stops: one call of `Match`, and the finite sets
of requests of `profile_writes`, `profile_clobber` and `api_server`. Symmetry is used in safety runs
only.

Bounds in the models (every other state variable is unbounded): `MaxRowId`, `MaxAttempts`,
`MaxFlushes` (`Reconcile`); `MaxRuns` (`Ingest`); `MaxSeen` (`Inheritance`); `MaxTime` (`Listing`);
`MaxObjects` (`RateLimiter`); `MaxTimers`, `MaxLives` (`ApiServer`); `MaxTags` (`TagMapping`).
`MaxAttempts` in `ProfileWrites`, `CandidateLimit`, `BatchSize` and `MaxParams` are numbers of the code (2, 32, 1000, 65535), scaled.

### Fairness

Fairness is weak and only on steps of a process that has begun something: the statements of a
record being resolved, of a run that has started, of a request being served, of a client that
pages. The code has no wait in these loops but the statement it has issued and the row lock, and
transactions end. Nobody is obliged to start a run, send a request, tick the clock, or fail.

* `ImportEnds`, `RunEnds`: the file and the rows of a sweep are finite.
* `EveryWriterEnds`: a lock is released by commit, by rollback and by a dying connection.
* `PagingEnds`: `WF(ListPlaces)`, a client that goes on asking.

## 4. What is proved

For every value of the constants, from the `ASSUME`s of the modules and, where a theorem says so, an
assumption of its own. Every module that is proved about has its type invariant proved
(`TypeCorrect`, `ServerTypeCorrect`; that of `Matching` and of `TagMapping` is part of `MatchInv` and
`TransformsTags`). Every invariant, action property and refinement that a passing run checks is
stated by a theorem; beside them there are theorems no run states, on the scores, on importers at
work together, and on the length of every loop. By module:

* **`IdentityProofs`**, the matcher (`MatchScore`, `Matching`). `MatchIsCorrect`: the loop of `Match`
  meets the reference for any number of candidates. Its invariant `MatchInv` holds the loop's own
  (`BestSoFar`): no candidate considered exceeds the best one, and those before it fall short of it.
  `BestIsAnAnswer` takes that to the reference, `CandidatesAre` says what the query may return.
  `ConfidenceIsEarned` and `AddressNeverHurts` are about the weights: arithmetic over exact fractions
  (`ScoreParts`, `ConfidentParts`, `AddressHelps`). `ScoresAreShares` (every score is in the unit
  interval) and `EvidenceNeverHurts` (a score is monotone in each component). They rest on
  `RecordsAssumption` and `RowsAssumption`, the types of the rows, and on a finite table.
* **`IdentityProofs`**, reconciliation (`Reconcile`). `NoRecordIsLost`: `Accounted` is not inductive,
  since a sweep deletes a queue row on the strength of an attach that lies in its past. The inductive
  invariant is `TypeOK /\ Accounted /\ DeleteIsSafe`, where `DeleteIsSafe` says what a sweep about to
  delete still knows: the record it attached is attached, unless it was displaced, wiped or enqueued
  again. That the row it deletes is that record's comes from `SweepsHit`. Upserts and attaches take
  what they displace out of `settled` (`FlushKeeps`, `AttachKeeps`); every other step leaves tables
  alone (`TablesKept`, `OthersKept`). `AttachTargets` needs that no step deletes a place
  (`PlacesStay`). `SweepsHit` and `AttemptsKept` rest on `QueueStep`, what a step may do to the queue
  (insert one row under the next number, rewrite some, delete some), and the former on the invariant
  `RowsKnown`: numbers are unique and below the sequence (`IdsAreUnique`), and the row that carries
  a number some sweep still holds is of the record it was read of and was never away since
  (`HeldRowsAreKnown`). `SweepsReconsider` proves `ImportReconsiders`, failures included, from
  `AnswersAreNear` (whatever matches lies within the radius the sweep looks around it); it assumes
  that the places an import can touch are at most `MaxParams`, beyond which the code gives up
  (section 5). `SweepsAreFinite`: a sweep takes three steps per row it has read and one, for finitely
  many records.
* **`ProfileWritesProofs`**: `WritesImplementStore` (refinement of `ProfileStore`, initial states and
  each action to a step or a stutter), `LockedReads`, `OneIsCreator`, `TwoAttemptsSuffice` (which
  assumes `MaxAttempts >= 2`, as the code has it). The invariant `PInv` adds to the types that a
  profile that was read stays (`ReadRowStays`), that whoever has read under the lock holds it
  (`LockIsHeld`), that its place is there (`PlaceIsThere`), that a second attempt finds the row
  (`SecondFindsRow`), and that a profile has at most one creator, none while it has no row
  (`OneCreator`, which counts imports of earlier runs and writers whose answer or audit row was lost). `WaitsAreShort`: whoever
  cannot go on waits for the holder of the row lock, who can. `WritersAreFinite`: three statements
  per attempt and two.
* **`RateLimiterProofs`**: `NotBehind`, `RefusalIsDue`, evictions racing at will.
  `NoLimiterIsBehind` is strengthened by `Owned` (an object in the map or in the hands of a
  goroutine serves one key only, so a token taken for one key is never missing for another) and
  stated for all objects in use (`Ahead`), evicted ones included. `LimitersAreBuckets` is the
  refinement of `TokenBucket`: until a race, what a goroutine holds is what is in the map (`Mapped`)
  and an entry judged full is full (`FullStays`). `GenerationsAreBuckets` is the one with races:
  each object was made for one key, in one place of its list (`MadeForIts`, `MadeOnce`), so every
  use takes a token of one generation, or finds it empty.
* **`ApiKeysProofs`**: `OneActiveKey`, `KeyIsRevokedOnce`, `KeyStaysActive`. The inductive invariant joins them with `CallsAreBacked` (a call was authenticated with a key that was
  handed out; a successful revocation has left its key inactive) and `RowsAreInserted` (a
  registration that has not inserted has no row).
* **`ApiServerProofs`**: `ServerImplementsKeys` (every step of the server is a step of `ApiKeys` or
  leaves its variables alone), hence `ServerKeepsKeys`; `AnswersAreTrue` over an invariant that ties
  the path of each request to its row (`RowsMatch`) and to the statement it is at (`RegistrationAt`,
  `CallAt`); `LimitsAreKept` and `NobodyPaysForOthers` by counting: the requests a limiter was asked
  by, its tokens, and the refills of this life balance for every key, address and generation
  (`KeysCounted`, `ReadsCounted`, `RegsCounted`), however many there are; and no request has a limiter
  of a generation that has not begun (`PaidKnown`), so that sweeps bound what evictions can add.
* **`ListingProofs`**: `NothingPassedOver`, from the sizes of the two groups of parameters
  (`GroupSizes`, `AllOrNone`, `SoundIsUsed`); `GivenOnce`, that a row nobody writes is given exactly
  once if it passes the filters. Its invariant `PagingInv` says that what the client was given of
  the unwritten rows is what lies up to its cursor, the place of some row in the order: pages are
  cut where the order has no ties, and a cursor moves on only (`PageBefore`, `LastPage`).
  `PagesAreFinite`: every page but the last leaves the cursor fewer places (`CursorMovesOn`), though
  writers move the rows under it; for a finite table.
* **`A11yProofs`**, profiles (`Inheritance`): `FlagsCorrect`, `AnswersAreWarranted`,
  `NothingIsMissing`. The flag table yields exactly the flags that are warranted one by one
  (`FlagsAreWarranted`), `Store` is only ever given what went through `WithAuditFlags`
  (`StoredFlagsAreCurrent`), and what a reader holds is in the history of its place
  (`HistoryIsComplete`).
* **`A11yProofs`**, tags (`TagMapping`): `FlagsAreEarned`, `TaggingKeeps`, `AmenityRules`,
  `GoodNewsIsHarmless`. The invariant is that the place is its tags transformed (`TransformsTags`);
  the rest is what the mapping does with any tags. `FlagsAre` says which flags any tags lead to,
  component by component (`WidthSays`, `RampSays`, `EntranceSays`, `ParkingSays`), `EvaluateLists`
  that the branches of `Evaluate` together list what `Listed` says, in which every tag counts in
  favour only. `TableAssumption` says of the tables what the code's have: no empty amenity, no
  category named "excluded", widths that are numbers.
* **`IngestProofs`**: `ProfilesStay` over `InStep`, the buffer and the list of profiles in parallel.
  The theorems about whole runs rest on `KnowsAt`, which ties what a run has in memory to its file
  and holds whatever others write: the file is read up to `Position`; up to some index `f` its
  elements are behind the run; what was read after `f` is the buffer; and the sweep was told of what
  is behind and of the part of the buffer before `at`. What is stored differs.
  * `CompleteRuns`: `CompleteRunIsComplete` for one importer and any files. Of what is behind, the
    last mention of every element is stored with its profile (`TrackInv`). `UpsertBatch` refuses a
    batch that names an element twice, which is why the profiles of one batch cannot undo each other
    (`BatchOfDifferent`, `WriteTracks`).
  * `AgreeingRunsComplete`: the same for any number of importers whose files say the same of an
    element (`Agreement`), such as two runs of one file that overlap. With files that differ it is
    false: the later write wins.
  * `RunsBesideEachOther`: any number of importers over any files. At its sweep a run has a row for
    every place and every rating of its file and hands the sweep these places and no others, since
    no step removes a row (`NothingIsRemoved`).
  * `RunsAreFinite`: five steps per element and two.

  That clients undo nothing needs `AbsenceAssumption`: no data equals the absence of a row. The
  second and the third theorem are one argument over sets `P` and `Q` of elements whose place and
  whose profile are as they should be (`PresentInductive`).

**Only model-checked** are the five liveness properties: `MatchingRowIsDrained`, `ImportEnds`,
`EveryWriterEnds`, `PagingEnds`, `RunEnds`. TLAPS has neither fairness nor `ENABLED`.
For four of them the half that is safety is proved: a measure that every step of the process lowers
whatever the others do (`SweepsAreFinite`, `WritersAreFinite`, `PagesAreFinite`, `RunsAreFinite`) and,
where there is a lock, that somebody can always go on (`WaitsAreShort`). Not proved is that a step is
taken. What a token folds to and what `strconv` reads are tables of the models, about which the
theorems assume no more than types.

## 5. Divergences between code and documentation

With a run:

* **`reconcile_wipe`**: `internal/place/README.md:50` says that `UpsertBatch` does not touch
  `external_ids` on conflict; the column is in its update list (`repository.go:58`) and every import
  writes `{"osm": ...}` over the references of other sources.
* **`profile_clobber`**: the comment at `internal/place/repository.go:207` says that corrections by
  people are preserved; the read takes no lock and the UPDATE (line 245) asks only for the id, so a
  PATCH that commits in between is overwritten, while `user_verified` stays set.

Met while modelling, kept in the models, and left out of the properties where they would break them:

* A sweep deletes a queue row by its id although a feed has refreshed it since with data that
  matches nothing (`sweep.go:89`; `internal/unmatched/README.md:7`). With wiping and displacing
  this is the third way in which `Accounted` lets a record go.
* An import of more than 65535 places makes the sweep's query fail (`unmatched/repository.go:77`);
  it is logged and no row is reconsidered (`BeginSweep`, `MaxParams`).
* `FindCandidates` stops at 32 rows by distance (`place/repository.go:87`), so the best score may
  not be among them (`Fetched`; `internal/identity/README.md:21`, `:46`). The reference that
  `MatchMeetsReference` compares with takes the same rows and does not speak of this.
* An eviction that races with a request leaves two limiters to one key or address, the one the
  request holds and a full one (`middleware.go:57`): `raced` in `RateLimiter`, generations in
  `ApiServer`. `LimitsHold` bounds each, and their number by that of the sweeps.
* A place with steps is flagged although `ramp=yes` says there is a ramp, since only
  `ramp:wheelchair` counts, and a narrow `width` is flagged whatever a wider `door:width` says, which
  is read when `width` is no number (`internal/sources/osm/a11y.go:102`, `:119`). `FlagsMeetEvidence` has this
  precedence.
* A burst of 3 refilled every 20 minutes admits five registrations in an hour
  (`cmd/api/main.go:124`; `api/openapi.yaml:708` says three, `README.md:77` three per 20 minutes):
  `LimitsHold` has burst plus refills. Likewise a key has a burst of 60 refilled once a second
  (`cmd/api/main.go:125`; `README.md:89` says 60 requests a second). A restart fills all buckets.
* A look-up that fails while a key is checked is answered 401 (`auth.go:42`, `errors.go:35`), which
  `api/openapi.yaml:609` gives for a missing or invalid key: `Authorize` with `Faults`.
* A registration whose response is lost, or whose process dies before it answers, leaves an active
  key nobody has; the address is refused from then on (`handle_register.go:63`): `Answer`, `Die`.
* `internal/validation/README.md:24` says that a PATCH is not validated; `cmd/api/main.go:350` does
  so. The comment at `validation.go:52` says that `Place` checks an inline accessibility profile; it
  does not. `README.md:77` and `cmd/api/README.md:16` name paths under `/v1/keys` that the
  specification has under `/auth`. None of these is in a model.
* A component that a client sends back is stored with `is_inherited` and `source_id`
  (`pkg/models/accessibility.go:84` says they are never stored): `SendBack`.
* When the parent's query fails, GET answers 200 without the inherited components
  (`cmd/api/main.go:336`; `api/openapi.yaml:621`): `ReadParentFails`.
* A place whose accessibility tags are gone keeps the profile made from them (`batcher.go:51`), so
  the state depends on earlier imports (`cmd/ingestion/README.md:3` calls it idempotent).

## 6. Plan

Done in this order, the most important behaviour first: `MatchScore`, `Matching`, `Reconcile`,
`ProfileWrites`, `RateLimiter`, `ApiKeys`, `Listing`, `Inheritance`, `OsmTags`, `Ingest`, then
`ApiServer` around `ApiKeys`, the queries and filters of `Listing`, and the proofs above. To do:

1. *Theorems*: the registrations and calls of `ApiServer` get the measure the other loops have; what
   `MatchingRowIsDrained` says of one sweep without faults (a row that matches is deleted or taken up
   again) as an action property.
2. *Ingest and Reconcile composed*: a run whose sweep is `Reconcile`'s, with feeds beside it.
3. *Liveness* stays with TLC.

## 7. Not modelled

Decoding of PBF files, migrations as such (their constraints are where statements meet them),
logging, health and documentation endpoints, the generated API layer, configuration. `PROJECT.json`
gives the reason for each. Of request validation, `PlacesQuery` is modelled; the checks of a body
(lengths, ranges, the format of an address) are one refusal (`Reject`, `StartRegister`), as they
keep no state. CORS, the body limit and captured bodies change no state either. That a process told to stop does is
modelled (`Exit`, `DrainTimeout`) and checked by no run: with the 30 seconds it cannot fail. The rounding of
`float64` scores, the geometry of distances, and wall-clock durations are abstracted as said above.
