# Enterprise Docs Assistant, specified

TLA+ models of the parts of this repository in which steps interleave, fail or
outlive what they were based on; TLC runs that check them on small instances,
and TLAPS proofs of what holds for every instance.

Contents: 1 the system, 2 the modules, 3 how the models correspond to the code,
4 the runs, 5 fairness, 6 the proofs, 7 where code and documentation disagree,
8 what is not modelled, 9 the plan, 10 running it.

## 1. The system

| Component | State it keeps | Operations | Talks to | Hard about it |
|---|---|---|---|---|
| Account store (`api/models.py`, `api/db.py`) | five SQLite tables: users, roles, permissions, two association tables | ORM sessions, one per request | API handlers | no transaction around read-check-write; foreign keys are not enforced; keys are given out again |
| Tokens and guards (`api/security.py`, `api/auth.py`) | none on the server: the JWT carries level, tenant, ACL groups and permissions | `create_access_token`, `current_user`, `require_permission`, `require_creator` | every endpoint | authority is as old as the token |
| Auth router (`api/routers/auth.py`) | - | signup, login, me | account store | races for a name, tokens made of rows that change |
| Admin router (`api/routers/admin.py`) | - | create, update, delete users; roles, permissions and their links | account store | guards evaluated on stale reads, scope by tenant, last creator |
| Seed (`api/seed.py`) | - | runs at every start | account store | recreates what was deleted |
| Documents router (`api/routers/documents.py`) | files under `UPLOAD_DIR` | upload, job status | Celery | file and message are two steps |
| Celery tasks (`api/tasks.py`, `api/celery_app.py`) | broker and result backend in Redis | `ingest_document`, three pipelines | parsers, extractors, Qdrant | early acknowledgement, redelivery, crashes |
| Vector index writer (`src/eda/index.py`) | the Qdrant collection | `ensure_collection`, `ingest_chunks` | Qdrant | check then create, overwriting by id |
| Chunking (`src/eda/structure_chunker.py`, `chunk.py`, `ingestion_adapter.py`) | - | pages to chunks | tasks | gates by page status, packing at limits |
| Quality (`src/eda/quality.py`) | - | scores of blocks, pages, documents | chunking, tasks | two notions of a page's status |
| Extraction router, extractors (`src/eda/extractors/`) | - | routes in order, fall-back | tasks | which exceptions fall through |
| Adaptive OCR (`src/eda/adaptive_ocr.py`, `ocr_routing.py`, `ocr_quality.py`, `pdf_analysis.py`) | - | classify a page, choose among OCR attempts | extractors | attempts that fail, thresholds |
| OCR and regions (`src/eda/ocr.py`, `ocr_regions.py`) | - | words to regions, regions to text in reading order | adaptive OCR, scripts | merging, ordering, words on the way lost |
| Identifiers (`src/eda/identifiers.py`) | - | uuid5 of normalised parts | everything that indexes | what makes two uploads the same |
| Canonical schema (`src/eda/ingestion_schema.py`, `canonical.py`) | immutable records | validation | extraction | total contracts |
| Search (`api/rag.py`, `api/main.py`) | - | filtered query, language model | Qdrant, Ollama | the filter decides what an upload is good for |
| Frontend session (`frontend/src/api`, `auth`, `components/guards.tsx`) | the token in local storage, shared by tabs; account and status of each tab | boot, login, logout, refresh | API | answers that arrive late, another tab's token |
| Upload page (`frontend/src/pages/UploadPage.tsx`) | rows with a poller each | upload, retry, dismiss, poll | API | answers for rows that have gone, ends that are missed |
| Router script (`scripts/adaptive_ocr_router.py`, `ocr_pdf_regions.py`) | - | one page to native text, OCR or OCR of its regions | Tesseract | boxes that grow as they are merged, thresholds |

What makes each correct, in one line:

* accounts: a creator always exists, nobody gains what their administrator did
  not have, an admin stays in its tenant, nothing dangles, names are unique;
* tokens: what was revoked is dead after `TOKEN_MINUTES`;
* ingestion: a job that reads SUCCESS can be searched, its verdict is true of
  the index, the same file is indexed once, jobs end, losses have a cause;
* chunking and quality: what is embedded passed the gate; nothing is dropped
  unreported;
* extraction: a route that fails falls back and is named in the report;
* regions: no word that was detected gets lost, columns are read in order, no
  line is read twice;
* frontend: a session ends for a reason only, a job is told of once and truly,
  every row settles.

`PROJECT.json` lists all components with what is modelled of each, and the
hazards, each at its line with the properties that would catch it.

## 2. The modules

    Identity ---> AdminApi ---> TokenWindow --+---> AccountProofs
                     |                        |
                     +--------> Seed ---------+

    Documents ---> Ingestion ---> IngestionProofs
        |              | implements
        +------> DocumentStore

    Chunker ---> ChunkerProofs               Browser ---> BrowserProofs

    Quality ---> Extraction ---> ExtractionProofs

    Lists ---> Boxes ---> RouterRules ---> PageRouter ---> PageRouterProofs
      |          |
      |          +------> Regions ---> RegionReading ---> RegionReadingProofs
      |
      +------> DataLemmas, which the proofs of Extraction, PageRouter,
               RegionReading and the account store use

`Browser` and `Ingestion` meet in a job's status, `Extraction` and
`RegionReading` in the boxes of a page (section 3).

* **Identity** - the tables, the relationships the ORM derives from them, claims
  and the guards of `api/auth.py` and `api/routers/admin.py`. No steps.
* **AdminApi** - every endpoint that writes the tables, for any number of
  threads of the API's pool and any number of clients with tokens.
* **TokenWindow** - `AdminApi` with a history: when a name last had a power.
* **Documents** - what an ingestion makes of an upload: which pieces of it are
  embedded, under which ids and payloads, and what the result says. No steps.
* **DocumentStore** - what ingestion promises, without queue, worker or
  failure: uploads are accepted and published.
* **Ingestion** - `POST /documents/upload`, broker, worker, tasks, index and
  result backend; it is checked and proved to implement `DocumentStore`.
* **Chunker** - `structure_chunks` and `split_fixed`, block by block and piece by
  piece. `Documents` needs of it only how many pieces a page gives.
* **Quality** - the arithmetic of `quality.py`, `ocr_quality.py` and
  `pdf_analysis.py`: scores, thresholds, the gate and the choice among OCR
  candidates, the classification of a page, the pages the schema admits. No steps.
* **Extraction** - the extraction router over all extractors, with the adaptive
  route call by call. `Documents` takes what it finds as a constant.
* **Seed** - the seed of every start of the API as an action over the tables of
  `AdminApi`: restarts between requests, over whatever was edited.
* **Lists** - what the code does with lists: comprehensions with a condition, lists
  without repeats, lists of lists, Python's sort and its order of tuples. No steps.
* **Boxes** - boxes of a page, their overlaps and padding. No steps.
* **Regions** - what `ocr_regions.py`, `adaptive_ocr.py` and `ocr.py` compute of
  Tesseract's words: regions, groups, clean boxes, reading order, lines. No steps.
* **RegionReading** - from those words to the texts of a page's regions, step by
  step, as the adaptive pipeline and `scripts/ocr_pdf_regions.py` do it.
* **RouterRules** - the scores, the gates and the boxes of
  `scripts/adaptive_ocr_router.py`, which has its own. No steps.
* **PageRouter** - that script's `process_page`, call by call of Tesseract.
* **Browser** - tabs over a stored token, the calls they have under way, and the
  rows of the upload page with their pollers.
* **MCAdminApi, MCTokenWindow, MCSeed, MCIngestion, MCChunker, MCExtraction,
  MCRegionReading, MCPageRouter, MCBrowser** - instances for TLC: seeds, bodies,
  documents, layouts, symmetries.
* **DataLemmas** - what the proofs need of numbers, finite sets, sums, sorting and
  the other functions of `Lists`. No component is in it.
* **AccountProofs** (of `AdminApi`, `TokenWindow` and `Seed`), **IngestionProofs,
  ChunkerProofs, ExtractionProofs, PageRouterProofs, RegionReadingProofs,
  BrowserProofs** - the theorems.

Operators whose comment calls them a slip are deviations from the code, used
only to show that a property can fail: a run with the definition replaced by
its slip must violate the property `PROJECT.json` pairs it with.

## 3. Models and code

### Accounts

`users`, `roles`, `perms` map integer keys to rows or `Nil`; `userRoles`,
`rolePerms` are the association tables as sets of pairs. SQLite gives out
`max(rowid) + 1`, so the key of a deleted last row comes back (`IsNextId`).

A request is two steps. The first is the handler up to its commit: the guard on
the token, the reads and every check that can answer 4xx; it records in `req[w]`
what the handler holds. The second is the commit: the statements SQLAlchemy
flushes, which depend on what was read (an UPDATE of the changed columns, the
DELETEs of the association rows it had loaded), and which fail as a whole where
the database would refuse them (a unique column, a row that is gone). Handlers
are plain `def`s, which FastAPI runs in a pool of threads: between the two steps
other handlers run. `Fail` is a request that ends without a commit: a refusal by
the database, or a lost connection. A request that is refused with 4xx changes
nothing and is no step. The reads of one handler are merged into one step:
separating them adds interleavings between reads of one request, not between
reads and commits, which is where the guards lie.

`Tick` is a minute. It does not fall between the two steps of a request: they
take milliseconds, and a token is decoded once per request. Expired tokens are
dropped.

Bounds: the key sets, the names, and, where the bodies of requests would be many,
`NewUsers` and `Patches`. `Endpoints` restricts an instance to some endpoints.

`Seed!Restart` is a start of the API. It is one transaction, which finds by name
what is missing (`MissingPermissions`, `MissingRoles`, `MissingUsers`), inserts it
in some order, wires a role that was made (`Wired`), gives a demo account that was
made its roles (`Roled`) and a role that was made its accounts (`Granted`);
`WithRows` adds the rows to a table. A
restart finds no request in flight: what was in flight is `Fail`. Tokens survive.

### Ingestion

The text of a document is abstracted to places, "piece i of page p". What the
extraction finds in some bytes (`Extraction`) is a constant: pages with the
status of the extractor, the verdict of the scorer, which is never better, and
a number of pieces. Chunk ids are uuid5 hashes, modelled as the record of
what is hashed: tenant prefix, document key, revision, place. The three
pipelines differ in the key (`KeyOf`), in the gate (`Embeddable`), in what makes
them raise (`Usable`) and in the result (`Verdict`).

| Model | Code |
|---|---|
| `Save`, `Enqueue` | `upload`: the file is written, then `.delay` |
| `Receive`, `Redeliver`, `Restored` | Celery's consumer and the visibility timeout of its Redis transport |
| `Begin` | acknowledgement and STARTED (`task_track_started`) |
| `Parse` | pipeline choice, extraction, chunking, `_stamp_identity` |
| `CheckCollection`, `CreateCollection` | `ensure_collection` |
| `Upsert` | the one `client.upsert` of `ingest_chunks` |
| `Report` | `_canonical_result`, `IngestionError`, the stored result |
| `Unreachable`, `UpsertTimesOut` | an exception from the model or from Qdrant, before or after it took effect |
| `LosePoolProcess`, `Crash` | a dead pool process the worker notices; a dead worker, restarted by docker-compose |

Celery, Redis and Qdrant are external. They are modelled from how `celery_app.py`
and `index.py` use them: messages are acknowledged early, an unacknowledged
one is delivered again, a stored SUCCESS is not replaced by a later status, an
upsert replaces points by id and is applied as a whole.

`Found` is the filter of `search_and_answer`: the points of a tenant that carry one
of the caller's groups. `SuccessIsSearchable` is stated in it. The order of hits
and their number depend on the embedding.

Bounds: `MaxCrashes`, `MaxFaults`, `MaxRedeliveries`, the number of jobs.
`CHECK_DEADLOCK FALSE` in these runs: a bounded number of uploads comes to an
end.

### Chunking

A text is a number of words of equal length; a word is the pair of its block and
its place there, so that a chunk tells which words it holds. The variables are
those of the code: `group` and `ids` are `group_parts` and `group_block_ids`,
`cut` is the state of the loop of `split_fixed`, `page` and `next` those of the two
loops over pages and blocks. One step reads one block, cuts one piece or closes
a page. `max_words` is `INGESTION_MAX_CHUNK_WORDS`, chosen at the start from
`Budgets`; `api/config.py` admits every number from 1 on, so the modules assume no
more. It is also the size of the pieces a long block is cut into, whose step is
`size - overlap`: below the overlap of 64 there is no piece (`Exhausted`), at 64
`range` raises (`SplitRaises`, `raised`). Heading and table are the block types the code singles out. A page without
blocks is read as one block of type "page", its index text. Chunks are numbered
by their place among those of their page, which is what their ids hash.

Left out are the provenance of a chunk (document, revision, route, score), its
language, and `_require_groups`, which raises on empty groups before anything is
read; `Documents` has that case.

The two models meet in a page's number of pieces. `Chunker` shows what that
number hides: a page without blocks whose text is 50 characters or fewer gives
no piece at all, so that for `Documents` it is a page with nothing to embed. With
a budget below the overlap the same goes for long blocks, and a text that makes
`range` raise is, for `Documents`, content its parser cannot use.

### Extraction

A text is what the scores count in it: characters, letters and digits, garbage,
words, distinct words. Scores are integers, hundredths of a point, and shares
parts of 10000, so that every threshold is where the code has it; shares are
rounded to four decimals throughout, where the code rounds some of them only in
the sum. Similarity of two readings, what Docling makes of a page and what
Tesseract reads are data. `Readings` includes a reading that says something
else: agreement is relative, and a candidate that passes alone may fail beside
one that disagrees. Two layers that are joined share all of their distinct words
or none.

| Model | Code |
|---|---|
| `CandidatesOf`, `Return`, `PassOver`, `ReturnBest`, `NothingExtracted` | `ExtractionRouter.extract` |
| `Unavailable`, `Fails`, `Raises` | the two exceptions the router handles, and any other a library raises |
| `ReadText` | the extractors for text layers, Docling, DOCX and XLSX |
| `ReadImage` | image OCR: an image without text gives `BlankImage`; with text, the call of `make_block` (`image.py:81-86`) has a parameter too many, and the TypeError ends the extraction (`error = "type_error"`) |
| `StartOcr`, `ReadWholePage`, `DetectRegions`, `ReadRegions` | `generate_ocr_candidates`, one step per call of Tesseract that gives a candidate or times out |
| `BuildPage` | `build_page_result` with both classifications, `validate_page_policy` |

`pytesseract.TesseractError` is a `RuntimeError`, so that a call Tesseract
refuses is handled as one that timed out; the model has one outcome for both.
A region candidate reads all boxes in one step: their texts are only used
together. The list of languages, segmentation modes and preprocessings is a
number of plans.

`Documents` rests on three facts of this model: a page's verdict is never above its
status (`PageVerdict`), a document whose verdict could be clean was the first
choice (`FallbacksAreReported`), and accepted pages are never discarded with
their document (`NothingAcceptedIsPassedOver`).

### Regions

A word is what `image_to_data` says of it: text, block, paragraph, line, confidence
and box. Tesseract numbers lines within their paragraph and paragraphs within
their block, so that a line's key is all three (`LineKey`, `ocr.py:245-250`).
Boxes are in pixels of a page of `WIDTH` x `HEIGHT`, so that the paddings, the
thresholds of overlap and the step of a row are those of the code; ratios are
compared as products of integers.

| Model | Code |
|---|---|
| `Detect` | `detect_text_regions`: words by block, lone doubtful ones left out, padded and numbered by rows |
| `Compare`, `Merge`, `Expand` | `merge_overlapping_regions`, a step for each pair, with the parents as `find` leaves them; `expand_regions_vertically` |
| `Sanitize`, `Dedupe`, `Order` | `sanitize_region_boxes`, a step for each box; `order_region_boxes` |
| `ReadRegion` | `_run_region_candidate`, the loop of `ocr_pdf_regions.py`; `reconstruct_text` |
| `Fail` | a call of Tesseract that times out or refuses |

Tesseract is external: in a crop it is taken to find the words that lie in it,
whole. A text is its lines, as `reconstruct_text` makes them for both tools; the key
by which the pipeline recognises a text it has seen has no lines. Casing and the
normalisation of characters are left out.
`Extraction` has the same steps in two (`DetectRegions`, `ReadRegions`), with the
number of boxes as data.

### The router script

`scripts/adaptive_ocr_router.py` is the experiment the adaptive pipeline came
from, and has scores, gates and region boxes of its own. A text is what its score
counts; `Alike` and `Overlap` stand for difflib's ratio and the shared words, and
contours for OpenCV's. The ratio of a text to itself is one, and nothing else is
taken of it: difflib's depends on which text comes first. `Absorb` is one turn of the outer loop of
`merge_detected_boxes`, `NextPass` another pass; `ReadPage` and `ReadCrop` are one
call of Tesseract each, which gives a reading or an error that is passed over.
Shares and scores are rounded where the script rounds only the sum.

### The frontend

`stored` is the token in local storage, which the tabs share; `tab[t]` is what
the provider of a tab takes for its session. A call carries the token it was sent
with; `fresh` says whether the API took it, `live` whether the page or the row
that sent it is still mounted, which is the flag `alive` of the pollers. Answers
arrive in any order and any time later, also after a logout, another login or
another tab's.

| Model | Code |
|---|---|
| `Open`, `BootFails` | the effect that resumes a stored session; any failure of it clears the token |
| `Login`, `LoginAccepted`, `MeAnswered` | `api.login`, `tokenStore.set`, `refreshMe` |
| `Unauthorized` | a 401 in `request` and the listener of its event |
| `Compare` | the ask page's comparison, on a token of its own |
| `OpenPage`, `LeavePage`, `Unmount` | `RequireAuth`, `RequirePanel`, navigation |
| `Submit`, `Retry`, `Dismiss`, `UploadAccepted`, `UploadForbidden`, `UploadFails` | `submit`, `retry`, `dismiss`; an answer that is lost may belong to a file that has arrived |
| `Tick`, `PollAnswered`, `PollFails` | `useJobPoll`; `Reported` is `job_status` |
| `JobEnds` | `Ingestion`: a job gets its terminal status |

React is taken to unmount the pages of a session in the step that ends it. A row
is named by its job; a retry moves it to the new job in place. `told` lists the
toasts about a job.

Bounds: `MaxCalls` limits when a user can make another call (polls are exempt,
so that no poller is held up), `MaxTokens`, `MaxUploads`, `MaxJobs`,
`MaxTroubles` (logouts, expired tokens and calls that fail, together), and
`Watchers`, the tabs in which the upload page is opened.

## 4. The runs

| Run | Question | Bounds, and why they are enough |
|---|---|---|
| `users_serial` | Do account operations one at a time keep a creator and the tenant scope? | Three accounts, two tenants, all levels: removing the last creator takes two, a scope violation an admin and a foreign account. A free key shows reuse. A role that accounts of both tenants can hold, given, taken away and deleted. |
| `users_race` | Do names stay unique and elevations authorised when two handlers interleave, and does every revocation bite within `TOKEN_MINUTES`? | Two threads: each property compares one commit with one read; the other thread changes the row in between. A third key for the second row of a name. A window of one tick tells a fresh token from an ageing and an expired one; a login can straddle a revocation, and the name can be signed up again. |
| `roles_serial` | Do role and permission operations leave nothing dangling and hand on only what is held, and does a restart leave alone what was edited? | Keys are reused by the second row of each table; one role chain of user, role and permission. The creator, one demo account, and one standard role that goes to it: each can be deleted, renamed or made again under the same key before the restart. |
| `ingest_faults` | Does SUCCESS mean searchable, do only crashes lose jobs, how many documents does the race for the collection cost, are writes whole? | Three uploads, so that a third could be lost as well, two tenants and two groups, a long, a short and a broken content under one name; two workers, each with one task at a time, as docker-compose starts them with `--concurrency=1`; one crash, fault and redelivery, in every order. |
| `ingest_canonical` | Is the verdict true of the index, is a file indexed once, is STARTED being worked on, does every job end for good? | Four kinds of document, names that fold to one key, an uploader without ACL groups; two workers that race for the collection; one crash, fault and redelivery. |
| `chunker` | Is every word of an embeddable page in some chunk, within the budget, in its own section and in reading order? | Every page of up to three blocks of every type, of the lengths at which the code branches, pages without blocks of any status and length, two pages in a row. 5, 2 and 4 stand for 512, 64 and 50, and the budgets 1 to 4 for one below the overlap, one at it, one just above, where pieces advance by a word, and one well above: a group of several blocks, a text that is split in two or three, a last piece inside of the one before and a piece below the minimum all occur. |
| `extraction` | Is every page one the schema admits, is OCR that was rejected kept out of accepted pages, can a document with accepted pages be passed over, is every fall-back named, are the regions of a complex page read? | Native texts too short, too damaged, just usable and good, one OCR reading just inside of the gate, images and ink at each limit and below it, alone and as the second page of a PDF; a clear reading, one that just passes, a clear one of something else and noise, in any order and with any of them timing out. 3 candidates stand for 8 and 4 plans for 18: one call is reserved, and a call that timed out frees a second. 0, 1 and 3 regions are none, simple and complex. |
| `regions` | Is every detected word read, are regions grouped by connection, are columns and lines in order? | One or two blocks anywhere on a grid of six sides by four levels, which touch, nest, overlap across and above each other; three and four of eight such blocks in every order; two columns with a header and a footer in every order; up to four of ten words with every reason not to count, lines numbered alike in two paragraphs among them. Four blocks make the chains in which path halving moves a parent. Both tools, both directions. |
| `page_router` | Does merging come to a fixpoint, do padded crops stay apart, is an accepted region's text kept once? | Up to four of nine contours in every order: a staircase in which each box touches the next only, columns, the margins, the page itself. Native texts and images at each limit. Up to three regions with readings that agree, resemble each other, disagree, are short or fail; two plans stand for eight, four and more. |
| `frontend` | Does a session end for a reason only, is a job told of once and truly, does every row settle? | Two tabs, the second for another login or logout; an account that may upload and one that may not; two tokens, so that one session follows another; two jobs, the second by a retry; one trouble of any kind; two calls under way beside the polls, in any order. |
| `last_creator_race`, `reupload` | Section 7 | The smallest instance that shows the disagreement. |

`users_race`, `roles_serial`, `ingest_faults`, `ingest_canonical` and `frontend` take
about two minutes each, `users_serial`, `extraction` and `regions` one, the others
less.

What they show. Guards that are right one request at a time are not when two
overlap: four of the account properties hold only serially (section 7), and the two
about uniqueness and elevation survive because the database checks the first at
the commit and the second depends on the body and the token, not on rows. The
ingestion pipeline tolerates redelivery and failing calls because its ids are
functions of what was uploaded; what it does not tolerate is a crash, since the
message is gone by then. The frontend tolerates answers in any order as long as
every one is good news; section 7 lists what a late piece of bad news does.

`FailuresAreExplained` bounds the documents that could be indexed and fail: one for
each failed call and each process that died, and one for each worker but one. The
last term is the race of `ensure_collection`: workers that find the collection
missing together all try to create it, one succeeds and the others fail their task.
With one worker it is nothing. It is due once only, and neither
redelivery nor other uploads add to it. In `frontend` both accounts are of one tenant: what `job_status`
hides from another tenant is in the model (`Reported`), and was checked once with
three accounts, which takes longer than a run should.

## 5. Fairness

`ingest_canonical` assumes weak fairness of each worker's `Receive \/ Begin \/
Work`. A Celery worker that is up keeps taking messages, and a task is a finite
computation whose calls have time-outs. Nothing is assumed of clients, of the
environment or of crashes. Redeliveries are bounded by `MaxRedeliveries`: each
takes an hour of waiting behind a running task, and a queue that moves does not
repeat it for ever.

`frontend` assumes weak fairness of each row's poller, timer and answer (`PollOf`),
and of `JobEnds`. A browser fires a timer of a mounted page and ends every fetch,
with an answer or an error; that jobs end is what `JobsSettle` shows of all but
those that die with their worker, whose rows poll for ever (section 7). Nothing is
assumed of users, logins or other calls.

## 6. The proofs

All theorems are about the specification with its constants left open, under the
assumptions the modules name (`KeysAssumption`, `TenantAssumption`,
`BodiesAssumption`, `DocumentsAssumption`, `IngestionAssumption` and so on), each
evaluated by TLC in a passing run. `PROJECT.json` lists the theorems with the
properties they state.

*Accounts* (`AccountProofs`)

* `TypeCorrect` and `NamesStayUnique` are inductive with the type invariant:
  `InsertUser` and its siblings consult the table in the step that writes it.
* `ElevationNeedsAuthority` needs an invariant on the requests in flight: the
  body a thread holds was within the authority of the caller it also holds. It
  mentions no table, so other threads cannot disturb it: that is why the race
  does not matter here.
* `SerialKeepsACreator`, `SerialLeavesNoDanglingLinks`, `SerialGrantsAreHeld`
  assume a single thread. The invariant says that what the thread read is still
  the case: with one thread nothing intervenes. Section 7 shows for each of them
  that the assumption cannot be dropped.
* `SerialWritesStayInTenant`: the account a request names is in the scope of its
  caller until the commit, and a row that is inserted takes a key no row has. Roles
  are global: one that is deleted (`delete_role` asks for no scope, only that the
  caller holds what the role confers) goes from accounts of every tenant. The
  property therefore says of a foreign account that it keeps its roles but for those
  that no longer exist. That no role is gained with a key needs the invariant of
  `SerialLeavesNoDanglingLinks`.
* `RestartsKeepLinks`, `EditsAreKept`: `Restart` preserves the invariant of the
  serial theorems, since what it inserts goes under keys that no row has
  (`InsertedIsNew`, from the greatest key in use), and a key that no row has is in
  no pair. For the same reason nobody who is there inherits anything from a row
  that is made; only a role that goes to a name adds to an account.
* `TokensExpire`: a token of age `a` carries only powers whose name had them at
  most `a` ticks ago, and a login in flight carries powers held when it read the
  row. The second conjunct rests on `Tick` not splitting a request.

*Ingestion* (`IngestionProofs`)

* `IngestionTypeCorrect` is proved with the strengthening that a task past its
  parser has a usable upload.
* `WritesAreWholeUploads`: `Upsert` and `UpsertTimesOut` map to `Publish`, `Save`
  to `Accept`, every other step stutters.
* `SuccessStaysSearchable` adds that a task about to report has its points in
  the index and that ids are never removed; a queued upload never changes.
* `FilesAreIndexedOnce`: every point's id is the function of its payload that
  `PointId` is, and without the adaptive mode that function does not use the job.
* `StartedJobsRun`: as long as no worker died, a job that reads STARTED has a slot,
  also when two workers run it; a slot is only freed with a terminal status.
* `LossesAreCrashes`: `Lost` is strengthened to `Gone`, which a prefetched message
  that was delivered again in the meantime does not prevent, since a worker that
  dies puts back only what it still holds. The jobs that are gone are at most as
  many as crashes: a step adds at most one, and only when it counts a crash.
* `FailuresHaveCauses` is proved for any number of workers. Its bound is not inductive:
  when the collection comes into being, each of the workers that are about to
  create it (`AtCreate`) is a failure to come. `CauseInv` counts them in advance.
  Before that moment no failure is owed to the race, and after it no worker comes to
  create it, so that what is left of them only shrinks.
* `VerdictsAreTrue`: every point is one its content keeps (`PointsAreKept`), and the
  verdict of a job that succeeded is its document's (`VerdictIsOfUpload`). With
  the invariant of `SuccessStaysSearchable` the points found are those kept.

*Chunking* (`ChunkerProofs`)

* `TextIsKept` and `ChunksFit` rest on the invariant that a word read so far is in
  a chunk, in the group, or lies ahead of the cut (`Covered`), and that a text
  being cut on a page with blocks is longer than a chunk may be (`Splitting`).
  The arithmetic is in one place: a piece of `split_fixed` is only dropped when
  it has at most `Overlap` words, all of which the piece before it holds. That
  takes `SizesAssumption`: `Overlap < FixedSize`, and a minimum of at most twice
  the overlap. These three are written in the code as 512, 64 and 50, which satisfy
  it, and no caller passes others. The budget is a setting, and the theorems hold
  for every budget from 1 on. Below the overlap blocks over the budget give no
  chunk, and `TextIsKept` says that of all blocks these alone are lost (`Vanishes`).
* `ChunksKeepToSections` adds that a group is of blocks that read on from its first,
  which alone may be a heading, and holds all their words (`GroupInv`).
* `ChunksKeepTheOrder` adds where the last chunk ends (`OrderInv`): before the block
  that comes next or, while a text is cut, at most `Overlap` words into the next
  piece. The pieces of `split_fixed` overlap, so that only their first words and
  their ends are in order; the last piece must not end before the one before it,
  which is why a piece that holds nothing new is dropped.

*Extraction* (`ExtractionProofs`)

* The invariant (`ExtractionInv`) has four parts: types; what holds of every page an
  extractor made (`PageInv`); that the routes passed so far are those named, and
  that the documents they left were insufficient (`RouteInv`); that the candidates
  under way are within their budget and their page needed OCR (`OcrInv`).
* `ExtractionTypes`, `NoPageIsRefused` and `OnlyPassedOcrIsAccepted` come down to a
  lemma for each kind of page: `PlainPages` and `BlankImageIsPlain`, and of the
  `AdaptivePages` those with a candidate that passed (`SelectedPages`) and those
  without (`UnselectedPages`).
* `NoAcceptedPageIsLost` is arithmetic over three files: what `classify_page` and the
  gate of OCR demand of a text bounds its score from below at 40 points, for
  texts of any length. One accepted page then makes its document sufficient,
  because document scores are weighted sums: a sum of numbers is at least each of
  them (`PartAtMostSum`).
* `EveryFallbackIsReported` and `RegionsOfComplexPages` follow from `RouteInv` and
  `OcrInv`; the second from one call being reserved.

*Router script* (`PageRouterProofs`)

* `RouterTypes`: scores are of 0 to 100 points because the shares they weigh add up
  to one; a combined reading is consistent because its counts are sums.
* `MergingIsComplete`: during a pass no box that is done is to be merged with another
  or with one that is left, unless the pass changed something (`PassedOver`). Boxes
  that are merged grow, hence the flag; when a pass ends without it, the boxes are
  those of the pass. What a contour covered stays covered (`AllCovered`).
* `PaddingKeepsApart`: both neighbours of a gap are padded into at most half of it,
  rounded down, measured to the nearest edge above or below; that a box among
  many neighbours finds the nearest is `GreatestOf` and `SmallestOf`. Padding never
  cuts off, because halves are not negative.
* `NoRegionIsLost`: a region is left out only when it repeats one that is kept.
  Sorting the readings by score (`Sorted`) is shown to permute them.

*Regions* (`RegionReadingProofs`)

The invariant (`Inv`) has a part for each theorem, and lemmas about the operators
of `Regions` under each part. `LayoutsAssumption` is all that is taken of the input:
words whose boxes lie on the page.

* `RegionTypes` (`Typed`): regions are numbered and their boxes, padded and clamped,
  stay proper parts of the page (`PaddedBox`, `AroundBoth`, `HullIsHull`).
* `ComponentsAreMerged` (`Compares`): the parents are a forest (`Forest`): each region
  has a top, and a rank that grows on the way up and is less than the number of
  regions below that top. Without the ranks `find` need not arrive within
  `Len(parents)` turns. A turn of path halving changes parents but neither tops nor
  ranks (`HalvesUpwards`), so `find` gives the top and leaves a forest (`FindsTop`);
  a union makes one tree of two (`UnionJoins`). So far, then, all pairs compared that
  are to be merged are below one top (`PairsMerged`), and nothing is that has not to
  be (`TopsClosed`).
* `DetectedWordsAreRead` (`Collects`, `Reads`): each step hands the words on. Detection
  covers them (`DetectsAll`), a merged region holds its group (`MergesAll`), padding
  only adds (`ExpandsAll`), a duplicate goes into a box that grows around it
  (`SanitizedHolds`), and removing repeats and ordering keep the set of boxes
  (`DistinctSame`, `OrderHolds`). A word in a box is in its text (`TextInSaysAll`), and
  what is left out says nothing or what was read before.
* `ColumnsAreReadInOrder` (`Orders`): boxes come to the columns from left to right. If
  sharing a quarter of the width is transitive and the rest share nothing, a box
  shares with the hull of a column just when it shares with each of its boxes
  (`ColumnIsItsBoxes`), so that columns are the classes of the boxes
  (`OneMoreSplits`) and lie side by side in the order of their right edges (`LeftOf`).
* `TextsKeepLines` (`Reads`): after each word, the lines and the one begun hold each word
  so far in its place (`Told`, `TellsMore`). The place is defined without the key the
  code goes by: the line number is how often two neighbours were not of one block,
  paragraph and line, and the blocks that ended besides (`NextLine`, `LineNumbers`);
  the place on it is how many words of that line came so far.

*Frontend* (`BrowserProofs`)

* `BrowserTypeCorrect`: an answer only concerns accounts, tokens and jobs there
  are, and a call of the upload page that still counts finds its page open.
* `SessionsLast`: as long as nothing has gone wrong, a tab with a session and a
  call of a session imply a stored token, and the call carries one (`Sound`); so
  no 401 can come for them. What went wrong never becomes undone, which lets the
  invariant speak of the present only.
* `ToastsOnce` needs to know that a row waits for one call at most and that the
  call finds it waiting, that a job has one row in all the tabs, and that a job
  told of has no row that waits for its status (`Watching`).

Induction over data is by sets: `SubsetInduction` and `NumberInduction` of
`DataLemmas` induct over the finite subsets of a set and the numbers up to a bound
through their well-founded orders, for the set of those that have a property.
`StepsExist` gives the function a recursion defines, `SumIsNat`, `SumAtMost` and
their like what sums do, `SortedPermutes` what Python's sort does, `OnlySome`,
`OnceEach` and `FlatPlaces` what the other functions of `Lists` do. Operators of the
libraries that take an operator (`SelectSeq`, `FoldLeft`) cannot be reasoned about
here; `Lists`, `Regions` and `RouterRules` have recursive functions for that reason.

One property was wrong before it was proved. The second half of
`AcceptedRegionsAreKept` once said that no two regions kept repeat each other, which
needs difflib's ratio to be symmetric; it is not, and the model now has it as it
is (section 7).

Model-checked only are `JobsSettle` and `RowsSettle`, which are liveness properties
and out of the prover's reach. Every other property of the passing runs is a
theorem, those that hold with one thread only under that assumption.

## 7. Where code and documentation disagree

Shown by a run:

1. `last_creator_race` - `api/config.py:25`: "There is always at least one
   creator in the system." `delete_user` and `update_user` count creators and
   commit later; two of them together remove the last two.
2. `reupload` - `api/tasks.py:105-107`: "same tenant + same filename -> same
   deterministic IDs -> overwrite, not duplicate". The ids also hash the content.

In the models as the code has them, each with the step that shows it:

* `INGESTION_MAX_CHUNK_WORDS` up to 64 (`Exhausted`, `SplitRaises`).
  `eda/structure_chunker.py:149` says "A single oversized block is split", and
  `docs/document-ingestion-architecture.md:199` gives the setting as "integer ≥ 1".
  Below 64 the step of `split_fixed` (`chunk.py:21`) is negative and a block over the
  budget is dropped without a word, while its page is reported as accepted; at 64
  the step is zero and the task fails. `chunker` has such budgets.
* An image with text (`ReadImage`). `eda/extractors/image.py:3-4` calls the extractor
  "a lightweight wrapper over the legacy image path", and whenever Tesseract reads
  something its task ends in a TypeError (`image.py:81-86`): `make_block` does not
  take `language_profile` (`canonical.py:189-203`), and the router handles no such
  exception.
* A page accepted by the thresholds of the OCR gate that those of `quality.py` have for
  review (`PageVerdict`). `docs/document-ingestion-architecture.md:229-232` says "A page
  the quality gate flags for review is parsed but *not indexed*"; the chunker goes by
  the status of the extractor (`structure_chunker.py:183`), and its text is indexed.

Seen with other values of the same constants, and without a run of their own:

* `GrantsAreHeld` fails with a second thread, a second role and `attach_permission`.
  `api/routers/admin.py:61` says "An admin cannot grant a permission they do not
  themselves hold"; the permissions of a role are compared when the handler reads
  it, and one that is attached before the commit goes unchecked.
* `NoDanglingLinks` fails with a second thread. `api/routers/admin.py:292-293` says
  that users are "detached rather than left pointing at an orphaned id"; an
  assignment that commits while the role is being deleted leaves the pair, and
  the next role to be created gets the id.
* `WritesStayInTenant` fails with a second thread, for an account that a creator moves to
  another tenant between the handler's read and its commit: `api/routers/admin.py:84`
  says "Non-creator admins may only create/modify users within their own tenant."
* `SameFileOnce` fails with `Pipeline = "legacy_adaptive"`. `api/tasks.py:49-51` calls a
  repeated upload of the same file idempotent; in adaptive mode the ids hash the
  storage name, which is new each time (`api/tasks.py:84`). The theorem
  `FilesAreIndexedOnce` excludes that pipeline by name.
* `StartedMeansRunning` has nothing to say after a crash, and must not: once a
  worker has died the job stays STARTED, of which
  `frontend/src/pages/UploadPage.tsx:44-46` tells the user that it is being parsed,
  embedded and written, and its row is polled for ever.
* With the legacy pipeline an upload by an account without ACL groups reads SUCCESS
  and no search finds it, since `api/rag.py:37` asks for a common group; the
  canonical pipeline refuses it. `SuccessIsSearchable` speaks of those who hold a
  group of the point.

Seen in `Extraction`, whose model has them as the code does:

* `extractors/router.py:5-8` says that an extractor that fails is skipped. A page
  that cannot be loaded (`native_pdf.py:132`, outside of the `try`) raises
  something the router does not handle, as the TypeError above does, and the later
  routes, OCR among them, are not tried: `Raises`. A record the schema refuses would
  do the same; `PagesAreValid` shows that none is.
* A document that is only fit for review stops the router, although a later route
  might have given accepted pages (`Sufficient`). With `ALLOW_NEEDS_REVIEW` off
  nothing of it is embedded.
* `NothingAcceptedIsPassedOver` is proved, and close: of all texts an accepted page of the
  adaptive route can have, the one scored worst gets 40.1 points (native) or
  42.9 (OCR), and 40 is needed. The thresholds are in three files and none
  mentions the others.

Seen in `Browser`, and excused by the premises of its properties:

* A 401 for a call sent with an expired token, which arrives after a new login,
  clears the new token and signs the tab out (`api/client.ts:56-61` does not
  compare the token it was sent with).
* An answer of `/auth/me` that arrives after a logout shows the account again,
  without a token; the next call signs it out (`auth/AuthContext.tsx:32-36`).
* A network failure while a tab resumes its session clears the token for all tabs
  (`auth/AuthContext.tsx:59-62`); what a tab shows and what its calls carry differ
  after a login in another tab.
* A poll that fails once, also for a server error, marks its row failed for good
  (`pages/UploadPage.tsx:94-108`), and its retry uploads the file beside the job
  that goes on.

Seen in `Seed`: a demo account that was deleted is back after a restart, with its
default password (`api/seed.py:94-107`); a standard role that was deleted is made
again and goes to whoever has the name `sara` by then (`api/seed.py:134-140`).

Seen in `PageRouter`, of which nothing in the repository says otherwise:

* `is_duplicate_text` compares a text with those kept before it. difflib's ratio
  depends on the order of its arguments, so that a text can be kept although one
  before it almost repeats it when asked the other way round
  (`scripts/adaptive_ocr_router.py:979`).
* OCR that reads nothing is still a candidate of the whole page and replaces native
  text that is not empty (`scripts/adaptive_ocr_router.py:1388-1393`).
* A candidate of the whole page that passes the gate can lose to one of the regions
  that does not, within the tolerance of 12 points (`:1360-1377`).
* A page of type "scanned" or "empty" with one to four characters whose score is 60
  or more is given no reason for its fall-back (`:1255-1266`).

## 8. What is not modelled, and why

* Reading of file formats, OCR engines, embedding and language models: library
  calls without state of ours. What they find is data.
* Search: the order of hits, their number and the answer made of them. Listings
  and `me` only read.
* Password hashing and token signatures are taken to work.
* The result backend forgets results after a day; the models do not. Nothing
  revokes a job, so that REVOKED does not occur.
* Qdrant and Redis do not lose what they acknowledged.
* Rendering of pages and the preprocessing of their pixels, OpenCV's contours,
  Tesseract: what they yield is data.
* Blocks, tables, provenance and metadata of page results, and identifiers inside
  of them (`canonical.py`, `ingestion_schema.py`): records that are built once and
  never read again by what is modelled.
* The other pages of the frontend fetch and show; React's double effects of its
  development mode are left out.
* The fields of the router script's report but route, text and gate.
* Evaluation, the other scripts and the development launcher are outside of the
  service.

## 9. The plan

Done: the account store with its proofs and the seed, ingestion with its abstract
specification and its proofs, search as its filter, the chunker with its proofs,
the extraction router with quality and adaptive OCR, regions and their reading
order, the router script, the frontend's session and upload page, all with their
proofs.

Left is what section 8 names and could be modelled: the blocks and the provenance
of page results (`canonical.py`), the segments of the native parsers, and the
identifiers that are built inside of them. None of it changes state that what is
modelled reads.

A new run has to ask a new question; where it can, a new part joins a run that
is there.

## 10. Running it

    tlc -workers 2 -config users_serial.cfg MCAdminApi
    tlc -workers 2 -config ingest_faults.cfg MCIngestion
    tlc -workers 2 -config chunker.cfg MCChunker
    tlc -workers 2 -config extraction.cfg MCExtraction
    tlc -workers 2 -config regions.cfg MCRegionReading
    tlc -workers 2 -config page_router.cfg MCPageRouter
    tlc -workers 2 -config frontend.cfg MCBrowser
    tlapm IngestionProofs.tla        (and the other modules of section 6)

`users_race.cfg` goes with `MCTokenWindow`, `roles_serial.cfg` with `MCSeed`, the
other account runs with `MCAdminApi`, the ingestion runs with `MCIngestion`.
