# UsArr in TLA+

UsArr keeps a replica, in one SQLite database, of what several library services
(BookOrbit, Kavita) hold, and serves every screen from it. What makes it correct is
therefore less an answer to a request than the state the database is left in after
months of imports: read in pages from services that change while they are read, cut
short by failures and restarts, started by four different triggers, and followed by
a sweep that deletes whatever was not seen. Around that replica stand the parts that
talk to the outside: HTTP clients behind circuit breakers, a release search and a grab
through Prowlarr, an event stream to the browsers, and the credentials of it all, sealed
under a master key that can be rotated.

These modules specify those parts, TLC checks them on small instances
(`tlc -config MCx.cfg MCx.tla`), and TLAPS proves theorems about them for every
instance (`tlapm XProofs.tla`). `PROJECT.json` maps each definition to the lines it
translates and lists runs, theorems and hazards.

## Inventory

| component | state it keeps | operations | what makes it correct |
|---|---|---|---|
| catalogue replica, `internal/store/catalogue.go`, `reconcile.go` | tables `work`, `service_item_link`, `external_id`, `sync_report` | `ApplyCatalogueBatch`, the item half of `SweepDeletions` | a work is visible exactly while some instance reports it; identities are neither lost nor moved silently |
| full import, `internal/libsync/importer.go`, `bookorbit.go`, `bookorbitcompleteness.go`, `internal/bookorbit/catalogue.go` | the walk's position, the batch, what was observed, the completeness measured | `FullImport`: bind, stream, flush, sweep, stamp | nothing that stood still is skipped or swept; the replica converges to the service |
| libraries, `catalogue.go` (`BindContainers`), `reconcile.go` (`sweepContainers`, `sweepOrphans`), `serviceinstance.go` | tables `library`, `library_source`, `library_member` | bind, file, sweep, delete an instance | unique names, one library per container and kind, right kinds, right orphan stamps |
| import lifecycle, `cmd/usarr/import.go`, `reconcile.go`, `services.go` | claims, cached client stacks, bootstrap map, `last_full_sync_at` | bootstrap, two buttons, reconciler, prober | one import per service at a time; catalogues are read a first time and kept fresh |
| delta sync, `internal/libsync/delta.go`, `bookorbitarrivals.go`, `internal/bookorbit/arrivals.go` | the arrivals watermark | keyset walk, fold, advance or decline, escalate | no arrival falls behind the cursor unread; the walk ends |
| passes of an import, `importer.go`, `covers.go`, `internal/store/files.go`, `credits.go`, `rollup.go`, `internal/imagepipeline`, `internal/imagecache` | file rows, credits, documents, dirty marks, counts, cached covers | credits, files, flush of rollups, covers | derived counts are those of their rows; a poster's bytes are on disk; gaps are told |
| breaker and HTTP clients, `internal/breaker`, `internal/*/client.go`, `internal/bookorbit/auth.go` | closed, open, half-open, the probe slot; the session behind its mutex | `Allow`, `Success`, `Failure`; call, mint, retry after a 401 | one probe at a time, one login for many 401s, every call comes back, a recovered upstream is called again |
| event stream, `internal/httpapi/events.go` | subscribers, their queues, the replay ring | publish, subscribe, drop, close | no gap without a notice |
| search and grab, `internal/releases` | candidates, provenance, the audit log, a breaker per indexer | search, grab, re-search | the report is what was asked and brought; what is recorded is what happened upstream |
| master key, `cmd/usarr/keyrotate.go`, `internal/store/rotate.go`, `serviceinstance_update.go` | two key files, sealed rows | seal, edit, re-wrap, verify, promote | every row opens under a key on disk |
| read side, `internal/store/browse.go`, `facets.go`, `libraries.go`, `searchlibrary.go` | a request's position between two statements | grid, recently added, facets, library list, search | pages neither skip nor repeat; counts and verdicts are those of the tables |
| sessions and the HTTP surface, configuration, migrations, backup, request policy, redaction, frontend, cassettes | single rows, files | | see "Not modelled" |

How they interact. The registry of `cmd/usarr` builds a client stack per service and
starts imports; an import holds the service's claim, calls the adapter for containers
and items, and hands both to the store, one transaction per bind, batch and sweep, and
then runs the passes that fill in credits, files, counts and covers. Instances share the
tables: a work may have links of several, a library sources of several, and the covers of
all are fetched under one gate. The reconciler, the prober, the buttons and the settings
screen run concurrently with all of it; the calls of one service share a breaker and a
session. `service_instance.last_full_sync_at` and the arrivals watermark are all that an
import leaves for a later process to decide by. The read side sees the tables between any
two of those transactions, and the hub tells the browsers.

What is hard in it: interleavings with an upstream that nobody can stop; sweeps that
act on observations minutes old; partial failure between two transactions, or between a
file and a row; several writers of one library; counts derived by marks that are easily
missed; once-per-process memory beside once-per-database columns; answers that come after
the deadline that gave up on them; requests of several statements without a snapshot; and
long sequences (retyped, renamed, reused, deleted, restored) that no test walks. The
hazards of `PROJECT.json` name each at its line.

## Modules

`Catalogue` - the item tables. The database is one record-valued variable and a
transaction a function on it, so that the import can be composed with it and lemmas are
about operators. `ApplyItem` is `applyOneItem` whole: parent first, then guard 1
(`Fires`), the identity lookup (`Resolve`), the upsert of the work, its identifiers
and their conflicts, the link and its frozen identity. `Sweep` is the item half of
`SweepDeletions` and `Refused` its refusal of an empty read. The sweep's arguments are
arbitrary: the store cannot check what the importer vouches for.

`FullImport` - extends `Catalogue` with BookOrbit and the importer. BookOrbit is where
each book is, its date, and the three ways it can be out of sight (a content filter, an
unmounted share, an unknown format); each of its changes is an action that may happen
between any two requests. `ReadPage` is one request of `StreamBooks` with the adapter's
callback, `Flush` the commit of a batch's next item and its observation, `Finish` the
sweep with the scope of `sweepScope`, `Fail` every early return and the end of the
process. History variables (`left`, `shrunk`, `lit`) record what the upstream did during
the import, for the properties only; no guard reads them.

`Libraries` - the library tables and the bindings an import holds across its batches.
`BindOne` is `bindOneContainer` with its arms in the code's order (same kind, adopt a
guess, retype, join, mint), each an operator of its own; `BindAll` folds it over the
containers in the order listed. Names are sequences of the listed name and the
qualifiers minted onto it, and `BaseSlug` lets two names share a slug.

`ImportLifecycle` - who imports when. A run is a record (instance, caller, age since its
`StartedAt`, stage). Instants are ages capped at `Due`, the reconcile interval, which is
all `reconcileDue` tells apart. `Restart` forgets everything a process keeps in memory
and leaves the rows.

`Arrivals` - the delta channel. A book has a stamp and becomes visible any time after it; a
delta walks each library it is granted from the watermark less `Lookbehind`, a page at a
time (`ReadPage`), and after a full page moves its cursor to the largest stamp below the
page's largest (`Moves`), so that a tie the page has cut is read again. A full import mints
the watermark from the largest stamp it saw (`Mint`); `NeedsFullRead` is what turns a delta
into a full read. Nothing bounds a run or a book's lag: the histories `longest` and `lag`
say how long they were.

`Breaker`, `UpstreamClient` - the breaker as operators from a breaker to a breaker, one per
critical section, and one client of one service: callers that take the session's mutex,
log in, ask the breaker, go on the wire and end in any of the ways the client tells apart
(`DocumentVerdicts`: which of them the breaker hears of). `abandoned` is a history
variable: a probe ended and nobody reported it. `Search` uses the same `Breaker`.

`EventFeed`, `EventHub` - the abstract feed is a log and, per browser, how much of it has
been shown or passed over; a gap needs a word (`told`), but for what a restart of the server has
cost the browser (`horizon`). The hub has the ring, the queues, the replay and the
connections that break, and `Feed == INSTANCE EventFeed WITH ...` states that it implements
the feed.

`Credentials` - rows, envelopes and two key files. An envelope is the key it was wrapped
by, the id stored beside it and the host bound into it. The server seals with the key it
read at its start; an edit reads in one step and writes in another; the rotation goes page
by page through re-wrap, count, verify and promote, and can be killed at each.

`Search` - the fan-out of a release search: legs under a semaphore and their breakers, the
collector that dedupes and stores, the bounded channel, the pump that tells the browser,
and the two deadlines. `Grab` - the handler of a grab, with Prowlarr as an external actor
that may handle a POST after everybody has given up on it.

`Covers`, `Passes` - what an import does after its items. `Covers` has one import's workers,
the context they run under, the gate of permits that all imports share, the widths written
one after another, the row, and the record of a pass that came up short, whose own write can
fail; `Passes` extends it with upstreams that change, credits, batches of file sets, dirty
marks and their flush, and imports of several instances side by side. `Selecting` is the
loop that passes over some entries of a sequence (the hub's replay, a batch's items, a
library's sources, a leg's documents in scope) and what an `ORDER BY` makes of a set of rows.

`Browse`, `LibraryList`, `LibrarySearch`, `ReadSide` - the first three are the statements
of the read side as functions of the tables; `ReadSide` is the requests made of them, one
statement a step, with the importer's transactions in between.

Each component is instantiated by an MC module, some by one for several of them, and each is
proved about, in eight modules: `SyncProofs` holds the proofs of `ImportLifecycle` and
`Arrivals`, `ServiceProofs` those of `UpstreamClient` and `Credentials`, `ReleaseProofs`
those of `Search` and `Grab`, `ServingProofs` those of `EventHub` and `ReadSide`,
`FullImportProofs` those of `Catalogue` too, and `SelectingProofs` the lemmas that two of
them share.

Definitions named `X_Y` or placed before `X` as a variant of it are the seeded bugs used to
test the properties: each is a plausible mistake in the code that `X` translates, and TLC
must find the named property violated when it stands in for `X`.

## Runs, and their bounds

Eight runs that pass, and four that show where the code leaves a sentence of its own
documentation (see "What the code does otherwise"). What each property says is in the
comment over it. Components that do not interact share a run where that costs
nothing: a variable `part` says which of them an initial state starts, and the others stand
still. Each part has all the bounds a run of its own would have.

- `import`, part "transactions": `Catalogue` under any transactions of two instances, two
  books and a series, three identifiers of which one is weak, two containers, at most 3
  works. Three works are enough for an item to be rebound away from a work that a second
  item shares while a third exists; two strong identifiers are what a conflict and a reuse
  need. Part "imports": `FullImport` with two libraries, three books, pages of two, batches of
  two, two dates, two disturbances. Three rows and pages of two give a full page, a short one
  and a row on each side of the boundary; one disturbance shifts a row and a second can undo
  it or hit the next import. Any initial placement.
- `libraries`: BookOrbit with two containers whose names share a slug and a Kavita with
  one to two, at most 4 libraries. `MCSpec` starts either with both instances and one
  disturbance left or with one instance and two; both together exceed the time a run
  should take.
- `lifecycle`: one service with a delta channel, one without, due after one tick, two
  disturbances (presses, edits, switches, deletions, failures, restarts).
- `arrivals`: four books in two libraries, one of them with a stamp the client cannot read
  and one library that can be granted and withdrawn; pages of two, a lookbehind of two over
  three instants, no bound on how late a book is or how long a run takes. Three books in one
  library are what a full page with a tie and a book beyond it need, and with a lookbehind
  shorter than the clock's range a run can outlast it.
- `passes`: a Kavita with two items and a BookOrbit with one that may be the same work; one
  cover permit, two widths, file batches of two, one change and one fault, which can be the
  end of a context under the cover pass or the failure of its record. One permit makes
  a pass wait for another's; a shared work is what lets two instances' files meet. An
  instance of four items with two faults was checked as well and takes too long to keep.
- `clients`: two callers, the prober and an import; the breaker opens at the second
  failure and cools down for one tick and then two; five tokens, which is what two callers
  and a session can hold.
- `streams`, part "events": two browsers of different users, a ring of two, queues of one,
  five events, one broken connection and one restart: enough for the ring to pass a browser
  by. Part "searches": two indexers of different priority and one release, one slot, a channel
  of one event, two searches. Part "keys": two rows in pages of one, so that each page has a
  row behind it or ahead, two rotations over three keys, one edit in flight, two credentials
  entered, one kill. One kill at any point suffices for every state a rotation can be resumed
  from, and two rotations for a key to be retired. Three rows in pages of two were checked as
  well.
- `reads`, part "reads": four works of three media types under two libraries, pages of two, two
  transactions of the importer in between, every order and filter, search limits below and
  above the number of hits. Part "grabs": two handlers, one release, two restarts of Prowlarr,
  two grabs.

The four others have the bounds of the run beside them (`failed_first_import` of `lifecycle`,
`lookbehind` of `arrivals`, `cancelled_covers` of `passes`, `event_gap` of the part "events") and
one property each, in the words of a comment of the code; TLC answers with the history that
breaks it. Beside each stands the property that does hold.

The deeper properties: `WorkVisibility` relates every work to every link of every instance;
`NoRowSkipped` is the loop invariant of the offset walk that ends at a short page;
`SweepSound` says what a sweep may take and `EventuallyMirrored` that the import repairs its
mistakes; `SiblingsEarned`, `FiledByKind`, `NamesDistinct` and `OrphanStampCurrent` hold
over sequences of binds by several writers; `StampsForward` rests on the claim; `KeptFresh`
and `FirstImport` say that no stand-down loses work; `InReach` relates the watermark to how
late each book was and how long runs have taken; `DerivedTrue` and `FilesMirrored` hold over
passes that run side by side; `ShortfallTold` over a pass that stops in the middle, by
itself or with its context; `NoNeedlessMint` over 401s that come together; `RowsOpenable`
over two processes and every kill; `GrabTruthful` relates what is told and recorded to what
Prowlarr did, `ClosingTruth` a report to answers in any order; `WalkExact` a walk of pages
to tables that change under it.

`CHECK_DEADLOCK FALSE` stands where the system may stop: when every instance is deleted
(`libraries`), and where the bounds on events, edits, the clock or the searches started
leave nothing more to happen (`streams` and `event_gap`, `arrivals` and `lookbehind`).

## Fairness, and why the code justifies it

- `ImportSpec`: weak fairness of the import's own steps together. Imports recur (the
  reconciler's tick) and each call has a deadline; failures are bounded by
  `MaxDisturbances`, so the liveness property speaks of what happens once they stop.
- `LibrariesSpec`: weak fairness of each instance's import, for the same reason; none of
  filing, since a service may hold no items.
- `LifecycleSpec`: weak fairness of each service's probe, bootstrap goroutine and run,
  and of the reconciler. The Go scheduler runs goroutines, the prober and the reconciler
  are tickers, and a run ends because every request carries a deadline. Nothing is
  assumed of people or of time: `Tick` is unfair.
- `ArrivalsSpec`: weak fairness of a run's own steps (`RunStep`), each a request or a
  transaction with a deadline. Nothing of the upstream and nothing of what starts a run.
- `Spec` of `Passes`: weak fairness of each instance's pass, strong fairness of starting a
  full import (the reconciler's tick finds the service free again and again), and weak
  fairness of other passes' giving back a permit, which they hold for one fetch.
- `ClientSpec`: an exchange ends and a login ends (each has a deadline); time passes; a
  caller at the mutex gets it, as strong fairness, since Go's mutex hands itself over to a
  waiter that starves; and the health prober goes on calling, as its ticker makes it.
- `HubSpec`: a handler's loop runs, an `EventSource` reconnects by itself, and a process
  that was told to shut down is started again. Publishing is unfair.
- `SearchSpec`: every goroutine of a search runs, every leg has a deadline, and the two
  deadlines of the search pass.
- `GrabSpec`: a handler goes on, as each of its requests has a deadline. It has no liveness
  property of its own.
- `CredentialsSpec`: the command runs, an operator who finds a pending key runs it again
  (what the command's own message asks for), and a key file that cannot be read is removed,
  as the start-up's message asks. Nothing is assumed of the server.
- `RSSpec` has none: its properties are about what a request has read.

## Refinements

`FullImport` extends `Catalogue`, and its steps on the tables are the catalogue's two
transactions by the way it is written; the lemma `ImportImplementsCatalogue` spells that out,
so that what is proved of the catalogue holds under the import.

`EventHub` implements `EventFeed`: `ImplementsFeed` instantiates the feed with the log, the
positions, what was told and the horizon of the hub, and `joined` as "has seen an id". It is
checked and proved (`HubImplementsFeed`): the hub may lose a frame only where the feed
allows a gap with a word.

`Breaker` is an operator library that two state machines share, and `Browse`, `LibraryList`
and `LibrarySearch` are pure: `ReadSide` compares what a sequence of statements gave with a
definition of what the whole request promises (`Admitted`, the listing, the visible rows).

## Proofs

`FullImportProofs`, the catalogue's part. The inductive invariant is `CatInv`: the tables are
well formed, a work is visible exactly while a live link names it, and every strong
identifier of a link is accounted for. The three are inductive together and none alone:
visibility of the work an item is resolved to needs the reference to exist; the account of
an identity needs its owner to exist. The argument is one lemma per conjunct about
`ApplyRow` (`RowWellFormed`, `RowVisible`, `RowAccounted`), lifted to an item with its parent
(`ItemInv`), and one about `Sweep` (`SweepInv`). `FirstHit`, that a non-empty set of
positions has a least one, comes from well-foundedness of the naturals, since tier 1 takes
the first match. `RebindCorrect` follows from the invariant and a step lemma.

`FullImportProofs`, the import's part. `ImportTypeOK` is inductive; with it each step of the
import is a step of `Catalogue` or leaves `db` alone, so `ImportSpec` implements `Spec` (the
lemma `ImportImplementsCatalogue`) and what was proved of the catalogue holds under the
import (`ImportVisibilityCorrect`). It rests on `CardAssumption`: what the adapter makes of
a card is an item.

`NoRowSkipped` is inductive together with `Noted`: a book that never left is in sight, a
library with rows is noted as lit, and what the batch and the observation name is lit. The
step that matters is an upstream change under the walk: a book that stood still in a library
that no row left keeps its position or moves back (`ChangeSkipsNone`), since the rows ahead
of it are all still there (`Ahead`); and a short page proves the walk past every position
(`DeliversAll`, `ReadPageSkipsNone`). `SweepSound` then follows from what the sweep takes
(`SweepTakes`): a link of this instance, not seen, in an observed library that was not
measured short; at the sweep the walk has passed every library and the batch is empty, so
`NoRowSkipped` says that a book that stood still was seen.

`LibrariesProofs`. The tables are `Sound` when they are well formed, names are distinct by slug,
a container feeds one library of a kind, and members are of their library's kind.
`MintedFree` is why a mint never collides: of the numbers 2 to n + 2 one is free, because n
libraries cannot hold n + 1 slugs (`NumberFree`, by the pigeonhole principle). Each arm of
`bindOneContainer` has a lemma (`RefreshBound`, `RetypeBound`, `JoinBound`, `MintBound`) that its
outcome is sound, and `Grown`: it adds sources of its own instance and libraries they feed,
and changes the kind of no library that a known kind feeds. That last part is what lets an
import keep bindings across its batches: `ImportsFit` says that the bindings in hand fit the
tables whatever other instances did since (`BindingsMove`), and without it `FiledByKind` is not
inductive. The bind of a list is an induction over its prefixes, made by hand from the least
prefix with a bad outcome (`BindAllDone`). Evidence can leave the library it is about to
file into unearned (`EvidenceSiblings`), and the filing earns it (`FiledSiblings`), so
`SiblingsEarned` holds of the transaction though not of its middle. For `OrphanStampCurrent` a
settling is right about every library its instance feeds and leaves the others' stamps and
sources alone (`SettledStamps`), and a bind disturbs only libraries its own instance feeds
(`GrownStamps`).

`SyncProofs`, the lifecycle's part. The inductive invariant `LifecycleInv` adds to the types
and to "claims are the runs'" that no run is older than its service's stamp;
`StampsForward` follows, because the run that stamps is the only one and began after the stamp it
replaces. One lemma per way a run changes (`Claimed`, `Ended`, `Moved`) serves all the
actions.

`SyncProofs`, the arrivals' part. `InReach` is not inductive: while a run is under way a
book can be out of reach of the watermark that the run is about to write. `ArrivalsInv` says
what each stage has covered. `Clocked` bounds every stamp with its lag and every run by the
clock; `FullCovers` and `DeltaCovers` say that a book of a library already read, or of the
one under the cursor and below it, was read or is `Late`: it was seen no earlier than the
run began; `Minted` says that a run about to write its watermark has mirrored what it read.
A late book is in reach as long as its lag and the run fit into the lookbehind together
(`LateIsInReach`), which `Absorbed` asks of the history and no assumption grants.
`PageCovers` says why the cursor may move: a full page leaves nothing readable between the
old cursor and the new one.

`ServiceProofs`, the client's part. `ProbeCorrect` needs that only a half-open breaker probes
(`BreakerInv`); `MintCorrect` needs that the mutex is held by whoever mints, that the session it
is to replace is no good while it does, and that a token once refused is not accepted again
(`MintInv`). The breaker's lemmas (`TrippedOpen`, `ReportedBreaker`, `ConcludeKeeps`,
`GoOutKeeps`) are stated once and serve every exchange.

`ServiceProofs`, the credentials' part. `CredentialsInv` adds to `RowsOpenable` that a
rotation past its key file works between the two keys on disk (`KeysHeld`), and that every
row verified so far is under the new key unless a server sealed it since (`Verified`); with
them `Promote`, which destroys the old key, strands nothing.

`ReleaseProofs`, the search's part. `ClosingTruth` says nothing of a search until its report is
on the page, so the proof is about the page together with all that is still to be told to it:
what is in the channel and what the fan-out has yet to send, as one stream (`Stream`).
`SearchInv` says of page and stream, while legs answer in any order, that the candidates of
the copies tell them apart (`Apart`), that each copy supersedes the last of its release
before it, by candidate (`Chained`), that none is later than the slot of its release
(`Bounded`), and, as long as nothing told was abandoned, that the copy in every slot is
among them (`Latest`). Taking an event off the stream keeps all four (`TakesIn`), telling of
an answer that was stored extends them (`ComesAfter`), and a fan-out cut short by its deadline
loses only `Latest` (`CutShort`), after which no report can come. Beside these go what the slots
are (`SlotInv`: the best priority of the answers collected), what the report has counted
(`CountInv`, a count of finite sets) and when it comes (`DoneInv`: last, with every leg in).
Once the report is taken the stream is empty and the page is what the slots say
(`InvSuffices`). It rests on indexers and guids being finite (`SearchAssumption`), as an
answer and a list of indexers are.

`ReleaseProofs`, the grab's part. `GrabInv` says of each handler at each place what Prowlarr
can have done (`Sound`): before an outcome nothing is sent but by the POST whose answer is
awaited, and after it a POST is on its way only if the grab gave up on it.

`PassesProofs`. Four invariants. `PosterCorrect` from "a width that was counted as written
is on disk" (`PosterInv`). `DerivedCorrect` from "a work neither marked nor in the residue has
the count of its rows" (`DerivedInv`), with one lemma for each of the three writers.
`FilesMirroredCorrect` from `FilesInv`, which says of an import of an instance that stood
still that every item it imported, and whose read did not fail, is yet to be read, in the
batch, or mirrored, and after the files phase mirrored; another instance's batch leaves those
rows alone. `ShortfallToldCorrect` from `CoversInv`: while covers are fetched every imported
item is in the pass, and one that is done as held or fetched has a poster. A pass that stops
early, by itself or with its context, has deferred as many as it left, which is a count of
finite sets; the record of it is claimed only where neither a dead context nor a failing
store stood in its way.

`SelectingProofs`. What `Selected` keeps of a sequence: exactly the entries of the set, in
their order (`SelectedEntries`). `Selected` is a fold, so the proof goes by the least prefix of
which it fails, as the induction theorems are out of reach. The files pass, the hub's
replay and the read side rest on it. Of a strict total order of a finite set, that every place
is taken by one member (`Ranks`), so `Sorted` lists each member once and in order
(`Enumerates`). Of the community modules' sums, that the fold they are defined by exists on a
finite set (`FoldExists`, again by a least set without one) and that any term can be
taken last (`AnyTermLast`), so a sum over `1 .. n` is what a loop adds up (`SumsRun`).

`ServingProofs`, the hub's part. The feed's promise is not inductive: it says nothing of
what is still on its way. `HubInv` does. The ring holds the last events of this process,
numbered without a gap (`RingInv`); a browser is at the event whose id it has, or it was
told of a hole and is behind this process's first event (`PlaceInv`); the frames of its
replay and its queue rise, the replay before the queue, and each is an event it may see and
has not been shown, or the word (`FramesInv`). The heart is `CompleteInv`: an event that a
browser may see, that it was not shown and that is not on its way, lies before everything
that is on its way, and then the browser was told of a hole or is about to be; or it lies
after everything, and then the connection is no longer live, so that the browser comes back
for it; or it is not beyond the horizon, which a restart set and the browser's return moves.
A connection that is lost keeps it, as nothing is on its way then; a subscriber that is
dropped keeps it, as what did not fit is behind its queue. What has to be argued is
`Connect`: the ring's start and the id decide between a replay that misses nothing and one
with the word first (`AnswerFrames`, `ConnectKeeps`). From `HubInv` a frame that is written
is the next event the browser may see, or the word, which are the steps that the feed has
(`FrameShows`, `FeedStep`).

`ServingProofs`, the read side's part: four invariants of `ReadSide`, one for each kind of
request. TLC checked each inductive invariant over the states of the run `reads` first.

`WalkExact` speaks of a walk that is over. `WalkInv` says what holds after each statement:
of the works nobody touched, those that the filter admits and the position has passed have
been shown once, and no other (`Told`), so a work is either shown or still ahead (`Left`).
It is the position alone that tells them apart, so the next page is right although it is
another snapshot, and what was touched meanwhile is excused by name. The steps that matter
are a full page, whose last row becomes the position (`Filled`: the page is all that lies
between the two positions), and the order by `added_at`, where undated rows come last, SQL's
comparison with NULL is never true, and a second statement reads the tail: between the two
statements the page holds the dated rows (`Dated`), and the tail's start lies above every id
(`TailAbove`). That `Ahead` is a strict order whatever the sort (`AheadOrders`) is
what lets a page be a prefix of what is left.

`FacetsExact`: the second statement counts works whose editions are all audiobooks and takes
them off the first one's books. `FacetsInv` keeps the first count up to then; the difference
is right because the two predicates ask the same of the editions (`SameQuestion`) and the
parts of a finite set add up (`BothParts`).

`SearchExact` is about one statement, so `SearchInv` only has to say which libraries it
searches; the argument is about the operators. A leg's limit keeps the best documents in
scope, so one that was left out has `RetrievalLimit` ahead of it; the fused rows and the
rescored rows are enumerations of finite sets (`RanksEnumerated`, `RerankedRows`), so no row
is lost or doubled up to the next limit (`CandidatesFound`); and `diversify` moves rows and
loses none: the rows it promotes are one of each type that the window missed, the rows they
push out come next in their order, and the window loses no more types than rows, while each
row it gains is of a new one. A client gets those rows up to its limit: all of them, or as
many as it asked for. It rests on `LibrarySearchAssumption`: a leg holds a document once, as
the index has one of each work.

`ListingExact`: `ListInv` says that sizes, then verdicts, then skips are those of the tables
as long as nothing was written. The code folds each library's sources one by one in the
order they are read; the property states the worst verdict and the sums. The folds are shown
to be these by the least prefix of which they are not, with the verdict so far and the totals
so far as the fold's meaning.

The attempt to prove found three definitions that said less than they meant. `Worst`,
`PossibleOutcomes` and the end of a re-wrap in `Credentials` were `CASE`s with guards that
overlap: TLA+ leaves the choice among true guards open where TLC takes the first, so the
property of the listing did not follow. They are `IF`s now, in the code's order. And the
read side's constants had no types (`ReadSideAssumption`): works are finite and of a known
kind, requests and tables are records of the right shape.

All theorems hold for arbitrary constants under the modules' named assumptions, which
TLC evaluates in every run.

Only model-checked: the liveness properties (`EventuallyMirrored`, `EventuallySettled`,
`KeptFresh`, `FirstImport`, `WalkEnds`, `EventuallySettles`, `CallsEnd`, `OpenIsRetried`,
`EventuallyCaughtUp`, `RotationFinishes`, `SearchEnds`), which are beyond the prover, as is
`ENABLED`. Every other property of a passing run is stated by a theorem.

## What the code does otherwise

Places where a sentence of the repository says more than the code keeps, met while the
modules were written. For the first four a run has the sentence as its property and finds
the history against it; each of the others says where a property had to give way so as to
hold of the code.

- `import.go:766-767`, `:803`: after a failed first import "the next connect retries". Within one
  process the entry of `services.go:266` remembers that the bootstrap was offered, though
  its comment takes it for a guard against a second goroutine "while the first is still
  running", and the reconciler passes over a service that was never read
  (`reconcile.go:252-283`), since it "will run on the next connect". The retry is the next
  process's, or a button's. Run `failed_first_import`; `FirstImport` is what holds.
- `bookorbitarrivals.go:39`: of the lookbehind's hazard, "the exposure is a transaction's own
  duration". A full import mints the largest stamp of its whole walk (`delta.go:626`), and one
  that takes longer than the five minutes can pass a book by that was no later than any
  other: stamped after its library was read and more than five minutes before the last stamp
  seen in another. It comes with the next full import. Run `lookbehind`; `InReach` is what
  holds, of books whose lag fits into the lookbehind together with the longest run.
- `covers.go:338-340`: every failure "is counted, logged and - when the pass came up short -
  recorded in sync_report". A pass that its import's context cuts short (`covers.go:424-429`)
  writes that row under the same context; the write fails, is logged and dropped
  (`covers.go:564-571`). Run `cancelled_covers`; `ShortfallTold` is what holds.
- `events.go:178-179`: `missed` is there "so the client knows its view has a hole rather than
  silently believing it is complete". After a restart ids begin at 1 again, so an id from
  before is ahead of the ring, and the browser gets neither a replay nor the word. Run
  `event_gap`; what holds is that no event after its return is lost (`ImplementsFeed`,
  `EventuallyCaughtUp`).
- Guard 1, `catalogue.go:1549`: the work of a reused id "is NOT adopted". Tier 1
  (`catalogue.go:1592`) adopts it again through an identifier that it still owns.
- `reconcile.go:151`: containers are vouched for "as read IN FULL", and `importer.go:605-607`
  says the corrections can only make the sweep take less. The offset walk does not start
  over when a row leaves under it: a book that never moved, shifted past the boundary by
  another's departure, is swept, and comes back with the next import. `NoRowSkipped` and
  `SweepSound` speak of a library that nothing left during the read.
- `catalogue.go:1810`: an issue is "reachable through parent_work_id from a series that IS
  filed". A series whose issues all became unmappable in one read is swept while they are
  kept (`bookorbit.go:752` knows it).
- `serviceinstance.go:349-361`: the delete orphans in its own transaction, because no sweep
  can reach the libraries afterwards. An import that was in flight binds and files after it
  (`BindContainers`, `catalogue.go:511`, does not look at `deleted_at`), and its library is
  stamped by nobody.
- `catalogue.go:762`, `:596`: "a library holding items of a kind it does not declare" is the
  state a retype must avoid. An upsert never changes `work.kind` (`catalogue.go:1632`), so
  after a Kavita library is retyped its works keep the old kind in the new library.
- `delta.go:462-464`: the escalation exists so that a whole new library is not missed. The
  binding that it keys on is committed before the full read it asks for, so if that read
  fails the next delta finds the binding and walks the library by arrivals. `InReach` is
  stated for libraries that a run has walked.
- `breaker.go:160`: a second caller "waits for the cooldown" while a probe is out. A probe
  that ends cancelled or refused by the request policy tells the breaker nothing
  (`bookorbit/client.go:476-489`), and the instance stays shut until its client is rebuilt.
  `ProbeAccounted` admits it by name (`abandoned`).
- `auth.go:107`: `accessToken` "returns a usable bearer token". A caller that retries after a
  401 while another's failed login has cleared the session gets the empty token, as it
  differs from the refused one, and sends its request with it.
- `keyrotate.go:230`: "every other credential survived it". The rotation writes envelopes by
  id alone (`store/rotate.go:113`), made from what it read a page earlier: a credential
  entered in between is replaced by the old one, re-wrapped. The row opens (`RowsOpenable`);
  what it holds is the credential before.
- `serviceinstance_update.go:30`: base URL and envelope go in one transaction so that no row
  is left that cannot be opened. The host is read before that transaction, so of two edits
  at once, one that moves the service and one that enters a key, the second binds its
  envelope to the host that the first replaced.
- `facets.go:366-372`: more audiobooks than books is "not reachable from a consistent database",
  and "the only things that produce it" are bugs of the two statements. They are two reads
  without a snapshot: a batch of the importer that commits between them, or a files pass
  that makes a book an audiobook, is enough. `FacetsExact` speaks of counts that no write came
  between.
- `grab.go:334-336`: an error not named there belongs to "the definitely-not-sent remainder". A
  2xx whose body runs past the client's bound (`servarr/client.go:319-323`) is such an error,
  though `classify` knows that "a 2xx is the whole confirmation" (`grab.go:287`): the release was
  sent and is told and recorded as not sent. `GrabTruthful` excepts that answer.
- `grab.go:83`: for an outcome unknown "a provenance row is still written". It is written
  under the context whose end made the outcome unknown (`grab.go:134`), and then is not;
  `GrabTruthful` asks for the provenance or the audit row, and for neither once the browser
  has left.
- `search.go:140`, `:167`: the closing event is the last one and every failure arrives on the
  channel. A fan-out whose context has ended abandons its events, the report among them,
  and the pump that finds the channel closed publishes nothing; `ClosingTruth` speaks of the
  searches that were reported.
- `searchlibrary.go:816`: "the top 10 contains at least one item per media type". A promotion
  takes the last places of the window, and what it pushes out may be the only row of its
  type there. `SearchExact` says that the window has no fewer types than before.
- `browse.go`, `DecodeWorksCursor`: a cursor that names an empty `sort_title` is malformed to
  the decoder, so a walk by title that ends a page on such a work goes no further.
- `importer.go:1126`: after a failed read "the item keeps the file rows it already had; none
  were removed". When another item of the instance leads to the same work, that item's set
  does remove them; `FilesMirrored` leaves shared works out. `files.go:192-196` knows of the
  sharing, where the later batch wins.
- `files.go:254`: a count that is not marked stays wrong. Two writers do not mark: the work
  that a file moved away from, and a work whose status a credits pass restated (`residue`);
  `EventuallySettles` shows that later imports repair what is still there.

## Abstractions

- A batch is committed item by item; a batch of several is those steps with nothing in
  between. This adds interleavings and removes none, as the importer flushes on a window
  that can run out after any item.
- A remote ref stands for the pair of kind and id; identities are sets of identifiers, as
  the hash over the sorted list is injective for the models' purposes.
- SQLite serialises writers; a transaction is atomic and durable. Its failure is a failure
  of the import.
- One import at a time of one instance in `FullImport`; that this is so is `ClaimPerRun`.
- Merge candidates and search documents are not part of the catalogue transactions' guards
  and are left out of `Catalogue`; documents are `Passes`', as the names credited in them.
- `FullImport` reads BookOrbit. Kavita's stream has no pages to fall between; its items
  enter `Catalogue` and `Passes`, and its containers `Libraries`.
- `Libraries` files top-level works. A child is filed nowhere; its parent is, by
  `parentBinding`, as a top-level work of the parent's kind.
- In `Adopts` the code takes the first library by the order of kinds; the model leaves the
  choice open, which includes it.
- `Arrivals`: instants are whole ticks of BookOrbit's clock, which goes on during a run.
- `UpstreamClient`: a token that nobody holds is forgotten, so that its name can be used
  again; cooldowns are ticks, and the jitter a choice around them.
- `Credentials`: an envelope opens under the key and host it was sealed with and no other.
- `Passes`: which work an item leads to is a constant of its card (that it is resolved
  rightly is `Catalogue`'s); reading and applying credits is one step, so is fetching,
  decoding and rendering a cover; persons, formats and years are left out; items are applied
  one at a time; the covers of instances outside the model are one more holder of permits.
  A cancelled context ends the import where it stands, but in the cover pass, where it is a
  step of its own.
- `ReadSide`: what FTS5 matches and what a title resembles are constants; scopes are the
  owner's and another's; the scores of a search are whole ten-thousandths; an edition is its
  format, the primary one; popularity is 0 in every row, and `added_at` is fixed at the
  insert, as no pass writes them afterwards.

## Not modelled

- Sessions, authentication and the HTTP surface: handlers over single-row writes and the
  marshalling of answers; what they do to imports, credentials, searches and grabs is in
  the modules of those.
- Configuration, migrations, backup and maintenance: start-up, which runs once and in order,
  and file copies.
- Outbound request policy, redaction, normalisation: pure functions over strings and
  addresses.
- Partly modelled, with the reason in `PROJECT.json`: the Kavita adapter (a stream without
  pages), service instances (validation and screens), the prober (health nobody else reads),
  the clients (request building and decoding), the image pipeline (pixels), the lists of past
  grabs (read models).
- The web frontend, in another language, renders the API's answers; of it only what a browser
  does with events and search results is modelled. Cassette tooling serves the tests.
- Cryptography: envelopes are symbolic.

## Plan

Done, in the order of importance: `Catalogue`, `FullImport` on top of it, `Libraries`,
`ImportLifecycle`, `Arrivals`, `UpstreamClient`, `EventHub` with its feed, `Credentials`,
`Search`, `Grab`, `Passes` with `Covers`, `ReadSide`, and the proofs named above.

What is left:

1. The items with a parent in the rollups, and the composition of `Arrivals` with
   `ImportLifecycle`, which today share only what a delta escalates for.
2. An abstract search (a request and its report) that `Search` implements.
