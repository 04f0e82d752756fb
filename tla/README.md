# A verification project for the real-estate viewer

TLA+ models of the backend under `src/src`: a FastAPI service that scrapes a
county's property data into PostgreSQL (SQLite for development and tests),
derives summary tables and a map file from it, and serves both to a Next.js
frontend. Paths below are relative to the repository's `src/` directory
(`src/db/ingestors.py` is the Python package's `db/ingestors.py`).

## The system

| Component | State it keeps | Operations | Interacts with |
|---|---|---|---|
| Sales ingestion, `src/db/ingestors.py`, `src/db/models.py` | tables `parcel`, `transaction`, `datafile` | `ingest_yearly_file`, `_ingest_weekly_zip`: one transaction per file | called by the population loop and by `cli.py`, possibly at once |
| Downloads, `src/services/data_retrieval.py` | yearly CSVs in `DATA_DIR` | `retrieve_yearly_data`, `download_weekly_zips` | the county's site; feeds ingestion |
| Population loop, `src/services/populate.py`, `src/main.py` lifespan | none beyond the running task | `populate_once` every 24 h, `_run_step` per step | runs every step below in a fixed order |
| County synchronisation, `src/services/county_sync.py`, `src/county/sources.py` | downloads in `DATA_DIR/county`, rows of `datafile` | `sync_dataset`, `list_files`, `download` | feeds the county loads |
| County loads, `src/ingest/*.py` | CAMA, neighborhood and tax tables; `parcel.is_active`, coordinates | `ingest_cama`, `ingest_taxroll`, `ingest_neighborhood_names`: one transaction each | writes `parcel`, as sales ingestion and geocoding do |
| Geocoding, `src/services/geocoding.py` | `parcel.latitude/longitude` | `geocode_parcels`: read, await the Census API, write | the loop and `cli.py geocode`; overlaps CAMA loads |
| Derived tables, `src/derived/summary.py` | `parcel_summary`, `neighborhood_summary`, `owner_index`, `data_version` | `rebuild_derived` | reads everything ingested; its version keys the cache and the map |
| Map binary, `src/derived/mapbinary.py`, `src/api/routers/map.py` | files `parcels-v<N>.bin` | `write_map_binary`, `latest_map_binary`, `parcels_bin` | written after the build's commit; browsers keep copies by ETag |
| Answer cache, `src/api/cache.py` | an in-process LRU | `get_or_compute` | every aggregate endpoint |
| Schema repair, `src/db/maintenance.py` | the schema itself | `ensure_schema` at start-up | rewrites `transaction` and `datafile` |
| Parsers, `src/county/*.py` | the reader's counters | `SpoolReader`, tax roll, names, coordinates | feed the loads |
| Analytics, `src/db/criteria.py`, `src/services/analytics/*.py`, `src/services/owner_names.py` | none | queries and folds | the routers |
| Routers, filters, errors, frontend | none that outlives a request | | |

### What is hard about it

* **Ordering.** The county publishes a sale first in a weekly ZIP and then in
  every monthly re-export of a yearly file, with drifting sellers and corrected
  buyers. Files arrive in any order; the rows they leave must not depend on it
  in the ways the reconciliation rules at the top of `ingestors.py` forbid.
* **Two writers.** The loop and the commands of `cli.py` share one database.
  Every rule that was written for one file after another meets READ COMMITTED.
* **Commit and file.** The build commits a version and only then writes its map
  file. The server may stop in between, and readers resolve a path and open it
  later.
* **Version keys.** Requests read `data_version`, await, compute and store.
* **Partial failure.** Steps fail, downloads fail, one bad line fails a file,
  and the next pass must make up for it.
* **Lost updates.** Geocoding reads, waits for the network and writes back.

The hazards in `PROJECT.json` list these at their lines, with the properties
that would catch them going wrong, or the reason none does yet.

### What makes each component correct

* Ingestion: one row per key, no weekly row beside the yearly row of its
  conveyance, no sale lost by pruning, authoritative data never taken back,
  neighborhoods borrowed whenever the history has one.
* Population: no failure keeps later steps from running; every final yearly
  export is eventually in the derived tables, and every readable ZIP unless one
  with a ragged line comes before it on the index page.
* Derived tables and map: a version names one content, a resolved file can be
  opened, a completed publication is the one served, the map catches up.
* Cache: no request sees older derived tables than those committed when it
  started; answers catch up after a build.
* County synchronisation: a file is recorded only when the tables hold it or a
  newer one, refreshes keep their distance, the tables follow the newest
  loadable file.
* Geocoding and CAMA: county coordinates are not overwritten by Census ones and a
  row's `coord_source` is true, but for what a geocode command answers late; the
  next file repairs that, and the backlog is worked off.
* Schema repair: whatever duplicates old code left and wherever an earlier
  repair stopped, the unique keys can be built and no sale is lost.
* County loads: readers see one whole file of each kind.
* Statistics: medians are medians, windows tile, a deal counts once, no row of
  a portfolio deal is taken for an ordinary sale.
* Pages: the same facts are computed by several queries and folds, in SQL and
  in Python; what one page shows agrees with what another does, lists are cut
  into pages that miss nothing, searches and comparisons find what is closest,
  and the map file decodes to the summary it was written from.

## Modules

| Module | Models | Runs |
|---|---|---|
| `SalesRows` | rows, the two unique keys, and the statements of one file's transaction as operators from table to table | `sales`, `concurrent` |
| `SalesLedger` | abstract: per sale, knowledge that only grows (unknown, provisional, authoritative) | `sales` |
| `SalesReconciliation` | `ingestors.py` with one action per file | `sales` |
| `ConcurrentIngest` | the same transaction split into statements, two processes, two database engines | `concurrent`, `superseded_race` |
| `Population` | the loop, the sales downloads, calendar years, failures, restarts | `population` |
| `DerivedBuild` | the transaction of `rebuild_derived` | extended by the next two |
| `MapPublication` | map files, requests, browser copies, restarts, replaced databases | `map_publication` |
| `CachedReads` | the answer cache under concurrent requests | `cached_reads` |
| `CountySync` | `sync_dataset` and `sources.download`, with crashes and bad downloads | `county_sync` |
| `ParcelCoordinates` | the upsert of parcels by CAMA loads, against geocoding and sales | `coordinates` |
| `SnapshotLoad` | the tables a county file replaces: parts, chunks, bad rows, one transaction | `snapshot_load` |
| `SchemaRepair` | the startup repair, statement by statement, followed by ingestion | `schema_repair` |
| `MarketStatistics` | criteria, deals, filters, buckets, medians, summary windows | `sales_analytics`, `portfolio_deals` |
| `OwnerActivity` | profiles, related owners, acquisition waves, merged rankings | `sales_analytics` |
| `LegacyAnalytics` | the statistics `main.py` computes itself: neighborhoods, comparable sales, holdings | `sales_analytics` |
| `ParcelPages` | the summary's row of a parcel, its profile and its timeline | `sales_analytics` |
| `SaleListing` | the sales list, its order and pages; flips, distressed sales, stale parcels | `sales_analytics` |
| `NeighborhoodPages` | the summary's row of a neighborhood, trends, report | `sales_analytics` |
| `Search` | search keys and ranges, the owner index, owner pages, portfolios | `sales_analytics` |
| `Comparables` | comparable sales of a parcel | `sales_analytics` |
| `MapEncoding` | the columns and the header of the map file | `sales_analytics` |

| Proof module | Theorems about |
|---|---|
| `SalesRowsProofs` | lemmas on the statements of a file's transaction, as operators on tables |
| `SalesReconciliationProofs` | `SalesReconciliation`, and `SchemaRepair` on top of it |
| `ConcurrentIngestProofs` | `ConcurrentIngest` |
| `CountySyncProofs` | `CountySync` |
| `SnapshotLoadProofs` | `SnapshotLoad` |
| `ParcelCoordinatesProofs` | `ParcelCoordinates` |
| `DerivedReadsProofs` | `CachedReads` and `MapPublication` |
| `SalesAnalyticsProofs` | the analytics, from `MarketStatistics` to `MapEncoding` |

`MC*` modules give the constants for TLC. `SalesRows` is extended by
`SalesReconciliation` and `ConcurrentIngest`, so what is checked one file after
another and what is checked statement by statement is the same transaction;
`SchemaRepair` extends `SalesReconciliation`, so that the repaired database is
one that files are then ingested into; `MapPublication` and `CachedReads`
extend `DerivedBuild`. From `MarketStatistics` to `NeighborhoodPages` each
module extends the one before it in the table, since each page compares itself
with earlier ones; `Search` and `Comparables` extend `NeighborhoodPages`, and
`MapEncoding` extends `Comparables`.

### SalesReconciliation

State: `parcels` (ids in the parcel table), `sales` (rows of the transaction
table) and `dataFile` (the content recorded for each file name, which stands
for its hash). A row is the record of the columns that reconciliation reads,
plus `buyer` for the columns a re-export corrects; the other columns travel
with it. A file's content is a sequence of lines; a line that does not convert
is `Malformed` (logged and dropped), one with too few or too many fields is
`Ragged` (it raises, and the file leaves nothing behind).

`IngestYearly` and `IngestWeekly` are the two handlers. `WriteFile` is
`_write_file`: parcels, `Upsert`, `PruneSuperseded`, `FillNeighborhood`, the
DataFile row, one commit. `Collapsed` is the dictionary that keeps the last of
repeated lines. `Picks` is the freedom `ORDER BY sale_date DESC LIMIT 1` leaves
among rows of one day.

Run `sales` (83,361 states): one parcel, two yearly files with every content of
up to two lines from their pools, two weekly ZIPs likewise. Two lines per file
are enough for a file to repeat a key, to span dates around another file's, and
to mix a good line with a bad one; two files of each kind are enough for every
order of provisional and authoritative snapshots, for a re-export, and for two
yearly files that share a sale. `LatestExportStored` excepts exactly that last
case, in which the later file wins.

`ImplementsLedger` maps the table to `SalesLedger`: the knowledge of a sale is
2 if it has a yearly row, else 1 if it has a row, else 0.

### ConcurrentIngest

`todo[p]` are the steps a process has yet to take, each a sequence of files, and
`Onward` is what is left when a file is done. `tx[p]` holds what an open
transaction has written: `View(p)` is what its statements see. A file without
rows is only recorded. On PostgreSQL a statement that touches a row another open
transaction wrote waits (`Free`); two that wait for each other are broken by
`Abort`, as the deadlock detector does. On SQLite `MayWrite` admits one writer
from its first writing statement on, the deletion of an old record (`Forget`)
included, and `Abort` is the busy timeout. `Abort` ends the step, so the process
gives up its other files of that kind, as the exception does in the code.

Run `concurrent` (14,989 states) covers both databases, which `backend` tells
apart: no sale of a recorded file is lost and both processes finish on either;
every reconciliation rule (`SqliteReconciles`) holds on SQLite, although the
check for an ingested file comes before the write lock. On PostgreSQL it does
not, and violation run `superseded_race` shows the case that matters:
overlapping yearly and weekly ingests leave a weekly row beside the yearly row
of its conveyance (against `ingestors.py:37`).

Bounds: one parcel known from an older sale (a new parcel's insert would
serialise the two transactions and hide the race), the conveyance all files
snapshot, and one later sale so that two rows can be locked in two orders. A
weekly ZIP has one content, since published ZIPs never change. Fairness: each
process runs on, and the database breaks a mutual wait (`WF` of `Step(p)`).

### Population

`pass` is where the pass is: its step, and within a step the year the download
is at, the files or the ZIPs yet to be ingested. `Raise` is an exception that
reaches `_run_step`. Yearly files are told by revision. `NewYear` may not be
taken before the final export of the year before has been fetched: this is the
deployment's part (a server that is down for a whole year never fetches it
again, because the file is on disk and no longer recent).

Run `population` (56,748 states): two calendar years of two exports each, the
first export of year 2 with a ragged line, and four weekly ZIPs in the order of
the index page: one that cannot be read, a good one, a ragged one, and a good one
behind it that is published while the server runs. One restart. Two years are
enough for the download that must replace a partial file of the previous year.

`ExportsServed` asks of a good ZIP that it is derived from in the end, or else
that a ragged one is ahead of it on the page and that, from some time on, it is
never in a queue without such a one before it (`Clear`). So nothing else can
starve it: no failing step, no unreadable ZIP, no restart. The first case is that
of the second ZIP in every behaviour; the second is that of the fourth while the
ragged one is downloaded each time (see "Divergences").

Fairness: the loop runs (weak fairness of `Loop`: an asyncio task that sleeps
and wakes), the county publishes and years pass (weak fairness of
`CountyStep`), and what is tried in every pass, a year's download, a ZIP's
download, the derived step, succeeds again and again (strong fairness, as each
may also fail again and again).

### DerivedBuild, MapPublication, CachedReads

Data is counted: `sales` is the number of ingests committed, and a table or
answer is the number it has seen. The build is one transaction of several
statements, each reading what is committed when it runs. The last version the
bound allows is built without an ingest or fault after it starts, which is what
"eventually a build is left in peace" comes to in a bounded model.

`MapPublication` adds the files, the publication after the commit
(`EncodeMap`, `PlaceFile`, `DeleteStale`), requests that resolve a file and open
it later, browser copies, faults at every step and a database that is replaced
(`epoch` tells them apart). Run `map_publication` (20,305 states): four versions
let two be published above one that is resolved; two faults let one publication
be cut off twice, or once with the database replaced. Faults are bounded, so
that the map catches up: the code retries in every pass.

`CachedReads` adds the cache and requests that await between reading the
version, looking up, computing and storing. Run `cached_reads` (424,602
states): two requests, two versions above the first and a cache of two entries:
one computation can overtake another, and an entry can be evicted. A request
never sees derived tables older than when it asked (`DerivedNeverStale`).
Sales ingests do not bump the version, so an answer computed from the sales may
lag behind them until the next build: `AnswersCatchUp` is what holds.

Fairness: the builder runs and is not failed forever; started requests are
served. Nothing makes clients send requests.

### CountySync

A file is its date. `disk[d]` are the downloads of a dataset, each `whole` or
an error page under the file's name; `done[d]` the recorded dates; `held[d]`
the file the tables were loaded from. `sync` walks through the pass: `Choose`
and `Skip` (newest file, recorded or too soon), `UseDownload`, `Fetched`,
`SiteFails`, `Ingest`, `IngestRaises`, `Record`, `Unlink` one old download at a
time, `EndSync`. `Crash` may come between any two, also between the commit of
an ingest and that of its record, which are two transactions in the code.

Run `county_sync` (139,290 states): a dataset published on three of five days
and one published daily with a minimum age of three; a rejected file of each, an
error page for one, two crashes. Five days are enough for a refresh, a
rejection in between and a second refresh. Fairness: days pass, passes run, and
a request or an ingest that can succeed does so when tried again and again.

### ParcelCoordinates

`parcel[p]` is where its coordinates come from, its `coord_source` and
`is_active`. A CAMA load is a transaction that first updates (and so locks)
every row there is: `locked` keeps them until the commit, `InsertParcel` by a
sales ingest may come in between, a geocoder's update of a locked row waits.
`Upserted`, `Labelled` and `Unlisted` are its statements. A geocoder reads a
batch, awaits the Census and writes (`ReadBatch`, `WriteBatch`,
`RequestFails`); the loop geocodes only when it is not loading (`Turn`).

Run `coordinates` (4,697 states): three parcels, three files, batches of two; a
parcel located by the second file, one the county knows only from the third,
one that is located, retired and back without coordinates. The `geocode` command
runs beside the loop at any time: it may read before a load and write after it,
or between the loop's own read and write. What it writes to a parcel it asked
about is a `LateAnswer`, and the only thing that makes a source false
(`SourceStaysTrue`) or replaces coordinates of the county (`CountyPrevails`, which
also says that the next file that locates the parcel repairs both). The mutant
`AnyTurn` lets the loop geocode while it loads, as the command does.
Fairness: the loop runs and loads succeed when tried again and again; the Census
answers again and again.

### SnapshotLoad

A CAMA file has parts that are each loaded into a table, a tax roll one. A part
is a sequence of lines: a line begins a row and is its key here, or `Bad`, or is
overflow text of the row before (`More`), so that a row is complete only when
the next begins, as in `SpoolReader`. `ReadLine` and `ReadLastRow` are the
worker thread, `InsertChunk` the insert on the open transaction, `EndPart` the
reader's check of bad rows after the last chunk, `Raise` a roll-back, at the
check, on a primary key, or at any time. The rows of one part are joined to
those of another that is read before (`EndSide`): the lines of a sketch, grouped
by card as they come (`Grouped`) and stored when another card begins
(`StoreCard`), although the lines of a card may be apart.

`OneSnapshot` compares the tables with what a file stands for (`TableOf`),
defined from the file's lines and not from the reader. An empty part counts as
the file's content, as in the code. Run `snapshot_load` (41,148 states): chunks of two and one
bad row in three (100 in the code), parts of up to four lines, so that a part
ends within a chunk, at its end, and after several, and a sketch that is split.

### SchemaRepair

The old table in the order of its ids, the schema as a set of columns and
indexes, and `saved`, what a crash brings back. On PostgreSQL the repair is one
transaction; SQLite's driver begins it at the first statement that writes rows,
so that columns added before stay. `AddColumn` allows both. The server may stop
between any two statements, and also while it serves, and then repairs again
what needs no repair. Run `schema_repair` (43,239 states): every old table of up to three rows in every order of ids, two
crashes, then one yearly and one weekly file ingested with the actions of
`SalesReconciliation`. Three rows hold two duplicates by one key and one by the
other; two crashes cut the repair off twice.

### MarketStatistics, OwnerActivity, LegacyAnalytics

Requests only read, so the statistics are operators on the table `sales`; the
actions add and delete rows in every order, and read the cached newest sale
date (`anchor`) again, which may lag behind the table. `BucketRows` finds deals
as `market_buckets` does, among the rows that the filters kept (`Counted`);
`MarketSaleRows` as `single_parcel_criteria` does, in the whole table. Medians
come from row numbers (`RowNumbered`, `Middle`) and are compared with the
definition of a median (`IsTwiceMedian`); they are doubled to stay integers. A
filter is a set of parcels and a range of days. `Activity` is the fold of
`owner_profile`, `Windows` and `Waves` the queries of `acquisition_waves`,
`Fetches`, `Merged` and `Heads` the cut-off query of `top_buyers`, the merge of
spellings and its truncation. `LegacyAnalytics` has what `main.py` computes by
other rules: neighborhoods by the code on the sale's row, owners by the newest
sale of each parcel. Ties that SQL leaves open are left open everywhere: an
operator then gives the set of possible answers.

`ProfilesAgree` compares the fold of a profile with the grouped query of the
waves and with the holdings, whose prices are split over the parcels of a deal.
`RelatedOwners` are the lists that a profile may show of those who share an
address with few others (`Sharing`), the first by their purchases under it, cut
off at `MaxRelated` (20 in the code). The relation is therefore not mutual; the
property says when it is: an owner is missing from the list of one it lists only
if that list is full of others with at least as many shared purchases.

### ParcelPages, SaleListing, NeighborhoodPages

A parcel's dwellings are records, one for each card, of which any may be
missing and in which any field may be empty. `DwellingTotals` is the SQL of the
summary (`SqlSum` of NULLs is NULL), `Facts` the Python fold of the page.
`LastSale` counts the rows of a deal in a window as the summary does,
`SaleEvents` is the timeline. `PageAgreesWithSummary` says what the two agree on
and names the cases in which they do not: 0 and none, bathrooms without a living
area, a year that the primary dwelling lacks, a sale that is there twice.

`Ordered` is the list's order with its tie-break by id and `OnPage` LIMIT and
OFFSET; `Positions` are the places a row may have if the order leaves ties, so
that `PagesTile` fails without the tie-break. `Flips` joins purchases with later
sales of the same parcel; `FlipsAreListedResales` relates flips to the list, to
the hold periods of the profiles, to the distressed sales and to the parcels
long unsold.

`NeighborhoodSummary` is built from the last sales of the parcels, the trends
and the report from the sales; `NeighborhoodsAgree` relates them.

The code stores the summaries in `rebuild_derived` and not with every sale. Here
they are operators on `sales`: a property that speaks of them compares the pages
with summaries that have just been built. How far those on disk lag behind is
`CachedReads`' subject.

### Search, Comparables, MapEncoding

Texts are words of characters and characters numbers in byte order, as the keys'
collation has it. `InPrefix` is the range that an index can serve, `StreetKey`
what is left of an address without number and direction. `SearchFinds` types
every beginning of every address and name. Both answers are cut off at
`HitLimit` (8 in the code), addresses in the order of `ListedBefore`, owners by
their number of parcels and then by name (`HoldsMore`); the exceptions in the
property are those of the cut: as many others as are listed come first.

`Comparables` finds similar homes in the neighborhood, or, if they are too few,
within the radius; `Penalty` is the score turned round, in integers.
`CompsAreClosest` allows for its rounding.

`MapEncoding` writes one value per column and kind: `Clamp` for numbers of 8 and
16 bits, `Float32` for prices; `Settled` iterates the header, which holds
offsets that depend on its own length. `MapDecodesToSummary` reads it all back.

Run `sales_analytics` (6,144 states): every subset of ten sales of three
parcels, every filter on parcels. The sales hold two deals of two parcels, one
of them with a row that is too cheap for its parcel; a parcel that one owner
buys twice; two spellings of a name; foreclosures and flagged deals; a sale that
is there twice with its seller corrected, as a re-export leaves it. Days run to
nine and a year has three, so that both windows of the summary and their
boundaries are met. Pages hold two sales; rankings, answers of the search and lists of related
owners hold one, so that each is cut off in some state (two names begin alike,
three owners share an address, four are too many for it); and the columns of the
map are so narrow that years and bedrooms exceed them. Of the three parcels two
are active, and those are mapped. Violation run `portfolio_deals`
(`DealRowsExcluded`): a row of a deal whose other row is too cheap for its parcel,
or does not pass the filters, is an ordinary sale at the price of the whole in
the statistics, a side of a flip, and the last sale of its parcel (against
`market.py:35`, `criteria.py:89`, `sales.py:177` and `summary.py:35`).

## Divergences between code and text

Two have a run that TLC refutes (`superseded_race`, `portfolio_deals`). The
others are shown by the models too: the property that is nearest states what
holds instead, and names the exception.

* `geocoding.py:88`: a batch is written back without looking again. In run
  `coordinates` a CAMA load between a command's read and write locates a parcel
  whose coordinates are then replaced, by 0.0 if the Census has none, under the
  label `county`. The design says "`coord_source` records which was used"
  (`docs/superpowers/specs/2026-09-24-map-centric-redesign-design.md:220`). Without
  `LateAnswer` in their exceptions, `SourceStaysTrue` and `CountyPrevails` fail.
* `ingestors.py:229`: in run `population` the exception of a ragged ZIP leaves the
  loop in every pass, and the ZIPs behind it are not ingested as long as it is
  downloaded; `ingestors.py:287` says "all new weekly sales ZIPs". Without the
  second disjunct of `WeeklyServed`, `ExportsServed` fails.
* `sales.py:177`: "Only single-parcel arm's-length sales with a plausible price
  qualify on either side" of a flip, and `summary.py:35` "Newest single-parcel
  market sale per parcel"; but a deal is looked for among the plausible rows only,
  so a row whose siblings' price is implausible for their parcels qualifies.
  `DealRowsExcluded` includes both; `FlipsAreListedResales` excepts such rows
  (`OddDeal`) so that it can say the rest.
* `search.py:78`: owners are cut off at 8 after being ordered by their parcels, so
  one of few parcels is not found under a beginning that eight larger ones share,
  however it is typed when the names are the same up to their ends
  (`OwnersFound`).
* `owners.py:129`: the list of related owners ends at 20, so of two owners one may
  list the other and not be listed by it.
* `ingestors.py:147`: two PostgreSQL processes can leave two DataFile rows for
  one ZIP (drop `backend = "sqlite"` from `SqliteReconciles`).
* `models.py:45`: a parcel that CAMA has retired and a sales file names for the
  first time after that is active until the next load (`InsertParcel`).
* `sources.py:58`: an error page saved under a file's name is taken for the
  file by every later pass; `HeldCatchesUp` holds because a newer one comes.
* `owner_names.py:11` calls merged rankings exact for their heads: counts are
  sums over the spellings fetched, which leaves out those beyond three times
  the limit. `HeadsOutrankOthers` is what holds.
* `cache.py` keys answers by `data_version`, which sales ingests do not bump.
* `search.py:60`: a house number typed with its street also finds every other
  house of the street, which is listed first if its address sorts before; with
  eight of them the address typed in full is not in the answer. And "E S", typed
  on the way to "E ST", is taken for a street "S" with a direction. The
  address of a retired parcel, typed in full, comes behind active ones that begin
  with it ("E ST" behind "E STATE").
* `comps.py:161`: finds within the radius take the place of those in the
  neighborhood, where the design speaks of "widening"
  (`docs/superpowers/specs/2026-09-24-map-centric-redesign-design.md:257`); a
  parcel without a neighborhood is compared with others without one. Homes are
  matched by the style of their first card and the year of their largest.
* `sales.py:203`: a flip may span another owner's deed, and one sale is listed
  with each earlier purchase; `distress.py:81` shows the highest price ever paid
  as the last one; `distress.py:13` lists rows of unflagged deals.
* `summary.py:34`: a sale that is there twice counts as a deal of two rows, and
  the parcel shows the sale before it.
* `parcels.py:182`, `summary.py:3`: a page is read in several statements, each
  of which sees the version committed when it runs on PostgreSQL.
* `main.py:163` and `main.py:188` page without a tie-break, unlike `sales.py:133`;
  `main.py:715` counts a deal's parcels among those still held;
  `owners.py:231` drops spellings with few net sales before it merges them;
  `owners.py:90` takes the upper of two middle values for a median.
* The owner index is built with the summaries: an owner found there may have no
  page once the only sale of theirs has been pruned, until the next build.

## Proofs

What a run checks on a small instance is proved here for every value of the
constants: any parcels, sales, files, processes, requests, versions, faults. Every
invariant and every action property of the passing runs is stated by a theorem;
what stays with TLC is liveness. Each component has an inductive invariant, called
`IInv` where a component has a proof module to itself, which TLC found to hold on
the component's run before it was proved. It always contains the types
(`TypeOK`); what else it needs is below, as that is what the code relies on
without saying so.

* **`SalesReconciliation`.** `IInv = TypeOK /\ OneRowPerKey /\
  NoSupersededWeekly`. It is inductive as it stands: the prune is scoped to the
  file's dates, and a row outside them can only be superseded if it was before
  (every new yearly row lies within the dates), so `NoSupersededWeekly` is needed
  to prove itself. `SalesKept` (`NoSaleLost`) follows a row through the upsert
  (its key stays), the prune (a yearly row of its conveyance stays) and the fill.
  `NeighborhoodsKnown`, `ExportsAuthoritative` and `WeeklyProvisional` follow.
  `LedgerImplemented` is the refinement of `SalesLedger`: a sale's knowledge never
  falls because a row's key determines its sale, and a pruned row leaves a yearly
  one.
* **`SchemaRepair`.** `RepairIInv`: what was committed last is either the old
  table without either key, or a table with both keys and no duplicates
  (`SavedRight`); a repair under way starts from that, and has deduplicated when
  it reaches the keys (`RepairRight`); and the table, present or saved, has a row
  for every old one (`KeepsOld`). While the server serves, the lemmas on
  ingestion carry the last two on. `RepairSucceeds` and `RepairKeepsSales` follow.
* **`ConcurrentIngest`.** Of each open transaction the invariant says what its
  commit would leave: no two wrote one row (`WritesApart`, the row locks); for
  each row it took away it wrote one that tells the same sale, or the row is
  weekly and a yearly row of its conveyance is in view (`Stands`); the rows of the
  file it is done with are told (`DoneTold`). The commit of one then keeps these
  facts for the others because what they rely on is locked or yearly, and yearly
  rows are only ever replaced by yearly ones. `SalesNeverLost` follows for both
  databases. For SQLite `SerialInv` adds that a transaction has written nothing
  before it holds the write lock, that one process holds it (`OneWriter`), that
  the committed table is reconciled, and how far the holder's view is
  (`Serial`, phase by phase); `SqliteSerializes` follows.
* **`CountySync`.** `FileIsNext`: from the choice to the record, the file at hand
  is published, no older than what the tables hold, newer than everything
  recorded and by the minimum age. `RecordsHeld`, `RefreshesApart`, and the action
  property `NeverOlder`: the tables never go back to an older file.
* **`SnapshotLoad`.** A load is described by the number `n` of lines its reader
  has taken (`ReaderAt`): its counters are the rows and bad rows begun before the
  row it is reading, the table and the chunk together are the rows `TableOf` gives
  for those lines, or the cards hold the sketch lines among them. A repeated key is
  skipped exactly if its first line comes before (`SeenBefore`); a row gets all its
  overflow text because it is handed on when the next row begins (`RowComplete`).
  Parts that are done have their tables (`DoneOk`). `SnapshotsWhole` and
  `GuardedInsert` follow: the definition of what a file stands for is over its
  lines and knows nothing of chunks.
* **`ParcelCoordinates`.** For any set of geocoders with the server's loop among
  them. No load begins between the loop's read and its write, so no parcel of its
  batch is located by the county or labelled then, though a command may have
  located it (`BatchUnlabelled`); what the county located is labelled so and what
  has no coordinates is not (`RowsLabelled`). `SourcesStayTrue` and `CountyStays`
  follow, with `LateAnswer` as the only exception; `ActiveSettled` needs the types
  alone.
* **`CachedReads`** (`CacheIInv`). The code keeps no record of what a version stood
  for, so the invariant compares holders of one version: requests that read it asked
  for one content (`RequestsAgree`), an answer is no older than that
  (`AnswersFresh`), and an entry no older than any request that may still find it
  (`EntriesFresh`). `NeverStale` follows, with lemmas on the cache as a sequence
  that is moved to the end, appended to and evicted from.
* **`MapPublication`.** Files are not ahead of their database, and the one of the
  version in force shows its tables (`FilesFollow`); while old files are deleted,
  the file just placed and one other stay (`PrunesRest`); a file that a request
  resolved was the newest, so only two newer ones of the same database take it away
  (`ResolvedStays`). `ETagNamesMap`, `ResolvedFilesStay`, and the action property
  `LastPublicationPrevails`.
* **The analytics.** Requests only read, so the types are the inductive invariant
  and each property is a consequence of it: it holds of every finite table. The
  difficulty is in what two pages compute from one table in different ways.
  - Sums, counts and extremes are recursive functions on sets. They are reasoned
    about without induction over data: a set for which a lemma would fail has a
    minimal subset for which it fails (`MinimalSubset`), and taking an element out
    of that one contradicts it. From this come a sum by groups (`SumByGroup`),
    by which the years and windows of `ProfilesAgreeAlways` and
    `NeighborhoodsAlwaysAgree` add up, and sums that bound one another
    (`SumOrdered`), by which holdings cost no more than was spent.
  - What a stretch of purchases holds, the window from its first purchase holds
    too, so `WavesBusiest` need not look at others. `HeadsOutrankAlways`: the count
    of an entity is at least that of each spelling fetched (`MergedCount`), and the
    spellings not fetched come after those that were.
  - `MediansAlwaysMiddle`: a row number is one more than the rows before it, so the
    rows midway, or the one, have half of the rows on either side
    (`MedianByRowNumber`); so have the middle places of a sorted list
    (`MedianOfSorted`).
  - `PagesTileAlways`: the sort key and the id order the listed rows strictly
    (`StrictOrder`), so each row has a position of its own (`OnePosition`), which
    is on one page. `ComparablesClosest` relates the finds to what they passed over.
  - `MapDecodes`: the cells invert what they were written from, up to their width;
    the header's length grows with the offsets written in it and is bounded, so
    writing it again and again settles (`IterateSettles`) on offsets that are true.
  - `SearchingFinds`: the keys in the range of a text are those that begin with it
    (`RangeIsPrefix`), and a text comes from one sequence of words only
    (`SameText`). Places in a sequence are found as the first with a property
    (`FirstNumber`), which takes the place of induction there. What begins with a
    longer text begins with the shorter, so fewer owners come before one
    (`OwnerStaysListed`).

The proofs rest on the assumptions stated with the constants, which TLC evaluates in
the runs: names and marks are apart from data (`NULL` is no code, `None` no row),
contents are sequences of lines, days and sizes are numbers, the parts of a file are
distinct tables. The analytics' tables are finite, with numbers or nothing in the
numeric columns, one row for each card of a parcel (the primary key of the
dwellings); the words of addresses and names are what `normalize_search` leaves,
non-empty and of characters above the space. `MapDecodes` alone has a hypothesis on
top, `ColumnsFit`: the code writes 0 for no sale and counts days from 1970, so no
sale is of that day (`mapbinary.py:60`), and 65535 for no neighborhood, so there are
fewer of them (`mapbinary.py:74`). Of the code's surroundings they assume what the
models do: published weekly ZIPs do not change (`ConcurrentAssumption`), and rows of
one table are locked until the commit. That a non-empty set of positions, dates or
versions has a first or last one uses the well-foundedness of strict subset on
finite sets, since the library's induction rules cannot be instantiated.

Only model-checked is liveness: `ProcessesFinish`, `AnswersCatchUp`,
`MapCatchesUp`, `ExportsServed`, `HeldCatchesUp`, `BacklogCleared`. TLAPS has no
rule for `ENABLED`, on which fairness rests. `Population` states nothing else.

## Plan

Left to model: the tax part of a parcel's page and its badges, the names of
neighborhoods and the copy of census tracts in the CAMA load, the statements of a
parcel's page against a build that commits between them.

## Not modelled

Routers translate one request into one call. Field conversions of the parsers
(column layouts, code tables, dates, owner names), the wording of logs, the
frontend, migrations and one-off scripts have no state of their own here. Of the
derived tables, the rows of parcels, neighborhoods and owners are computed in
`ParcelPages`, `NeighborhoodPages` and `Search`; in `DerivedBuild` they are
counted, since what matters there is only when they were read.
