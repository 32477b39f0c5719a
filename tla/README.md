# A formal model of LotFile

LotFile is an assistant for planning rules in Western Australia. Its promise is
*cite or refuse*: an answer quotes reviewed, licensed, current versions of
planning documents, or it is not given. The service is one process (FastAPI
under uvicorn) over PostgreSQL at READ COMMITTED, with a job worker; without a
database the API runs on in-memory stores. Paths below are those of the
repository (`src/src/draftcheck/...` shortened to the package's own paths).

This directory holds TLA+ models of the parts of that program whose state
several actors share, TLC configurations that check them on small instances, and
TLAPS proofs of their main properties for every instance.

## 1. Inventory

| Part | State it keeps | Operations | What makes it correct |
|---|---|---|---|
| PostgreSQL source library (`domain/sources/store/`) | `source_documents`, `source_versions` (status, licence, superseded_by), chunks, citations, `source_reviews` | `import_source`, `review_source`, `seed_manifest`, `refresh_source`, reading | one text stored once; at most one citable version of a source; supersession names an approved version of the same source and is final; the audit records explain the rows |
| In-memory source library (`domain/sources/library.py`) | the same rows as lists under one lock | the same | the same, and what remains when a call raises half way |
| Source search and answers (`domain/sources/library.py`, `api/sources.py`) | none of its own; reads chunks, calls a model, looks up its trace | `search_chunks`, `_trace_supported_answer` | cites only current, citable text; says "supported" only with a trace |
| Model adapters (`ai/substrate.py`, `ai/db_trace_store.py`) | day's ledger, circuit breaker, `job_traces` | `complete`, seeding after a restart | caps hold up to a known overshoot; each call is traced; a restart forgets nothing |
| Source fetching and acquisition (`domain/sources/store/fetching.py`, `scripts/wp4_*.py` and the text and URL scripts beside them) | versions, raw artifacts, storage manifests, fetch logs, `target_manifest` with its leases | fetch pending, repair, discover, seed; claim, fetch, terminate; import supplied texts; triage, reconcile | kept bytes yield what a version says; one source is recorded once; an acquired row has a text; workers end |
| Rules (`domain/rules/`, `jobs/extraction.py`, `api/rules.py`) | `rule_candidates`, `rules`, eval runs, audit events | validate, adjudicate, promote, approve, reject | a rule carries a content that was vouched for; a promoted candidate has its rule; the audit events explain the rules' statuses |
| Documents (`api/documents.py`, `jobs/documents.py`) | documents, pages, chunks, facts, property facts | upload, enqueue, parse, reparse, confirm, promote | each upload comes to a result; facts are those of one parse; flags and calibration references agree with the measurements made |
| Rule ensemble (`scripts/wp6_extract.py`, `wp6_adjudicate.py`, `wp6_challenge.py` and their like; `extraction/adjudication.py`) | `rule_candidates` as votes, `rules` by key | extract, adjudicate, challenge, vote batches, solo promotion, bulk approval, revalidation | a rule says what somebody extracted from the text it quotes; two passes said it, of two model families where a vote decides; a rejected rule stays rejected |
| Open-vocabulary rules (`scripts/wp6_decode.py`, `wp6_review.py`, `wp6_correct.py`, `apply_corrections.py` and their like) | candidates, rules and the stamps in their metadata | decode, promote, review, correct, apply files, open review | the denylist and rejections stand; claim and stamp agree |
| Identity (`domain/identity/`, `api/auth.py`) | users, sessions, guest orgs, cookies, the login limiter | guest and developer login, slide, revoke, purge | a revoked session stays revoked; nothing outlives its account |
| Guest quota (`api/guest_quota.py`) | a counter per guest and feature | increment-and-check | the limit is kept; refused work is not done |
| Projects (`domain/projects/`, `domain/address/postgis_store.py`) | properties, property facts | save an address, derive its facts, override a fact | derived facts are those of the parcel |
| Compliance checks (`checks/engine.py`) | check runs | read facts, verification and rules, choose a rule, compare | a verdict is about one parcel, by a rule that is for it |
| Address resolver, spatial store (`domain/address/`) | PostGIS layers | lookups | geometry |
| Governance and extraction validators (`governance/`, `extraction/`) | none | predicates | pure functions |
| Embedding job (`jobs/embedding.py`) | vectors of chunks | backfill | idempotent per chunk |
| Web front end (`web/src/views/compliance.tsx`, `documents.tsx`) | per panel: results, flags, version counters, requests under way | load, run, retry, review; upload, list, poll, read facts | old answers do not replace new ones; what is shown belongs together; a page comes to rest |
| Hermes agent, eval runner, other scripts, deployment | | | see `PROJECT.json` |

**How the parts interact.** Fetching and seeding call `import_source`; operators
call `review_source`; search reads the rows that both write. Answers call a model
adapter and cite what search returned *before* that call. Documents and rules are
written by jobs in their own sessions, after the request that enqueued them has
committed; operators' scripts write rules of the corpus, each in transactions of
its own that span a model call or a whole pass. Compliance checks read rules and
property facts. The panels of a page send these requests without waiting for each
other and show what the answers bring. All of it shares the database. Explicit locks are few: workers
claim rows with SKIP LOCKED and an extraction holds an advisory lock on its
source version; otherwise the locks that writes take, unique constraints and the
order of commits are the only arbiters. The adapters share process memory under a lock, and their
traces survive in the database.

**What is hard.** Read-then-write transactions that interleave (imports,
reviews, addresses, manifests); passes that select rows, ask a model for minutes
and then write by id; reviews that arrive in another order than the versions did; a counter that is checked under a lock and charged under the same
lock later; midnight and restarts in the middle of a call; stores that swallow
their failures; sequences of separate transactions that a stop can cut. The full
list, each at its line, is under `hazards` in `PROJECT.json`.

## 2. Modules

| Module | Models |
|---|---|
| `SourceRecords` | the version rows both libraries keep, licences, what "citable" means |
| `CitableRegister` | abstract specification: what a source library promises to the answers that cite it |
| `SourceStore` | `SqlAlchemySourceLibrary`: import and review transactions, statement by statement; implements `CitableRegister` when reviews are serial |
| `MemoryLibrary` | `InMemorySourceLibrary`: the same calls, atomic under a lock but able to raise half way |
| `ModelAdapter` | `LocalDeterministicModelAdapter` and `HttpModelAdapter`: ledger, caps, breaker, traces, restarts |
| `DocumentPipeline` | uploads, the parse job and its fallback, facts, their edits and promotions |
| `RuleLifecycle` | a clause's candidates through the gate or their group to rules, operator reviews, audit events, the import of seeded rules |
| `GuestAccess` | guest and developer accounts, sessions and cookies, budgets, the purge |
| `Adjudication` | the vote of `extraction/adjudication.py`, as operators |
| `EnsembleVotes` | the scripts that make the numeric rules of one source version by vote |
| `DecodeReview` | the open-vocabulary rules and the passes that judge them |
| `ProjectChecks` | one project's address, its facts and its check runs |
| `DocumentPanel` | the documents panel of a page, composed with `DocumentPipeline` |
| `CompliancePanel` | the compliance panel of a page |
| `SourceAcquisition` | the passes, workers and scripts that acquire sources |
| `MC*` | the TLC instances of these modules |
| `SourceStoreProofs` | proofs about `SourceStore` under every interleaving; with one review at a time; the refinement; about `MemoryLibrary` |
| `DocumentProofs` | proofs about `DocumentPipeline` and `DocumentPanel` |
| `ProjectChecksProofs` | proofs about `ProjectChecks` and `CompliancePanel` |
| `ScriptProofs` | proofs about `DecodeReview` and `SourceAcquisition` |
| `ModelAdapterProofs`, `RuleLifecycleProofs`, `GuestAccessProofs`, `EnsembleVotesProofs` | proofs about the module they name |

### SourceStore

`rows` is the committed content of `source_versions`. A version is named by the
order in which its row was created: `fetched_at` is set once, when the row is
made, and every comparison of age in the code is by it. A body of text is
identified with its sha256 digest. A metadata-only import hashes a description
of the source in which only the licence can change, so its digest is the
licence.

- `ImportRead` finds the source and looks for the digest; finding it ends the
  import with no effect, which is a stutter and not an action.
- `ImportFlush` inserts the rows. The unique constraints on the source key and on
  (source, digest) make it wait for an open transaction that holds the entry
  (`HeldByAnother`) or fail on a committed one (`ImportConflict`, which rolls back
  and either returns the winner's version or re-raises; neither writes).
- `ImportCommit` makes version, chunks and citations visible at once.
  `ImportAbort` is a failing embedding provider or connection.
- `ReviewLoad` reads the row; `ReviewSelect` runs the SELECT of
  `_supersede_older_approved_versions`, for approvals only; `ReviewCommit` writes.
  The session does not flush before commit, and the ORM emits only the columns
  whose value differs from the loaded one (`Written`): with two reviewers a row
  may end with one's status and the other's licence.

`approvals` is a history variable. The source row is inserted one statement
before the version row; the model inserts both in `ImportFlush`, which has the
same outcomes because nothing between them is observable.

### CitableRegister

For each source at most one version is citable; only a review makes one
citable (`Publish`), and then the one it replaces is retired; a retired version
never returns. `SourceStore!Register` maps `owner`, `citable` and `retired` to
the rows' source, `Citable(rows)` and `Superseded(rows)`.

### MemoryLibrary

Each call holds the lock throughout, so it is one action. Supersession differs
from the PostgreSQL library: it is by age, every older version gives way whatever
its status, and the version approved gives way at once when a newer approved one
exists (`Heir`). `ReviewRaises` is the approval that names a version of another
source: the version is written before `list.index` raises, and no record follows.

### ModelAdapter

A call is `Admit` or `Refuse` (one critical section: reset the ledger for today,
check breaker, job cap, day cap), `Answer` (the model runs), `Finish` (charge,
append the trace). The local adapter holds its lock across all three
(`LockFree`); the http adapter only within the first and the last, and its
provider may raise in between (`ProviderFails`). `Midnight` and `Restart` may
come anywhere. The local adapter's traces are rows: appending one may fail
silently (`StoreFails`) and so may reading them back (`Seeds`). `charged`,
`spent` and `lost` are history variables: what ledgers were charged, what calls
used, what the ledger was never told.

Left out: cost caps (both adapters price a token at 0, so they never bind), and
the disabled mode (it refuses everything). A refused trace is dated in the step
of its refusal.

### DocumentPipeline

`upload_document` is `StoreTorn` or `Upload` (store the file, insert the row,
commit), then `Enqueue`; `enqueue_document_parse` calls the queue and takes any
exception as a refusal, so it may be wrong about it, and then the job *and* the
request parse the document. A parse (`Run` tells which of the two) is one
transaction in three steps: `ParseStart` flushes "parsing" and thereby locks the
document's row, `ParseClear` deletes the facts of earlier parses, `ParseCommit`
adds the new ones and commits. A refused content ends the job with a committed
`parse_failed` (`ParseFails`); in the request the same refusal is raised and
rolled back, mark included (`ParseRaises`). "parsing" is never committed, so it
is no value of `doc`.

A PATCH or a promotion is `EditLoad` and `EditCommit`, with the ORM's write of
changed columns in between (`Written`). The UPDATE waits for a parse that has
deleted its row (`Doomed`), and fails when the row is gone or the table's
constraint refuses the new status (`Storable`). What a content states,
which measures need a calibration and which have a unit or a confidence that
forbids promotion are constants; parsing a torn file gives any part of its facts.
A fact's calibration is absent, given or *blank*: a PATCH's reference needs three
characters, which may be blanks, and is stored stripped. A blank reference says
"human_confirmed" as any other and the gate of a promotion refuses it, so a
later edit can take away what a measurement was promoted on (section 4).
The PATCH of a numeric value is left out: no property here reads the value.

### DocumentPanel

The composition of the pipeline with `DocumentUpload` (`web/src/views/documents.tsx`).
`Served` adds the answer of an upload to the pipeline's own steps: its status is
the one the session holds (`ReplyStatus`), which a worker's commit does not
change because sessions do not expire at a commit, and its facts are a query
(`ReplyRead`). `lists` and `reads` are the requests under way, each of which may
be lost. `FileChosen` empties what is shown (`shown`), the answer fills it again,
`ReviewClicked` replaces it. `Poll` is the timer, which runs while anything is
shown or listed as pending. The effect that reads the facts of a document that is
shown as pending and listed as settled is part of each step that changes either
(`Rendered`). Uploads of other windows, the evidence search and the cards of
single facts are left out.

### RuleLifecycle

One clause and its group of three candidates. The pipeline's functions
(`run_validators`, `eval_gate_pass`, `auto_promote`, `run_extraction_group`) are
transactions on their callers' sessions; nothing in the code calls two of them at
once, so `job` holds at most one. Operators are concurrent: each request loads a
row (`ReviewCandidate`, `ReviewRule`), and writes it later (`CandReviewCommit`,
`RuleReviewCommit`), the columns that changed only (`Written`).

- `Enqueue` stores three candidates in one transaction. A candidate for which the
  model answered gets the status "extracted", which the table's constraint does
  not know (`Storable`): such a group is refused as a whole.
- `JobLoad` reads a candidate for the gate, and checks what `auto_promote` checks
  (`Promotable`). `ValidateRaises` and the missing failing branch of
  `EvaluateCommit` are one fact about the code: a failure needs a `ReviewItem`,
  whose org must exist, and candidates have none, so the transaction is rolled
  back.
- `PromoteCommit` and `GroupPromote` insert a rule; the unique constraint on
  (version, key) is `Free`. When the key is taken the transaction fails, which is
  `JobAbort`.
- `Harvest` is the first part of `label harvest`, which writes seeded rules by
  their id. Its other parts write dispositions and eval cases of other skills.

What a pass extracts (key, operator, value, unit, quote) is one `Content`; the
validators and the scorer are the sets `Valid` and `Passing`. The deterministic
extraction depends on the pass only in the key of a text without any rule in it,
which `ExtractionAssumption` states: the challenge of a single dissenter never
happens. `verdict` is a history variable. Audit events of candidates and review
items are left out, as nothing reads them. The operator scripts that write
candidates and rules of the corpus directly are in `EnsembleVotes` and
`DecodeReview`.

### GuestAccess

An account is an org with its one user; number 0 is the developers' shared one.
A login is three transactions (`MakeGuestOrg` or `MakeDevOrg`, `MakeUser`,
`MakeSession`), so a purge or another login may come between them; the foreign
keys decide what is still accepted. A request reads its session (`ReadSession`)
and slides it in a second transaction (`SlideSession`), which writes two columns
and so leaves `revoked_at` as a logout set it meanwhile. `Charge` is
`increment_and_check`, an insert and a conditional update in one transaction,
before the `Work` it pays for. `PurgeGuestOrgs` deletes old orgs and, by
cascade, all that hangs on them. `Restart` forgets the limiter's window and the
requests under way. Browsers keep a cookie for its first `max_age`, whatever the
server's sliding says (`Sent`). `granted` and the field `late` are history.

Magic links are left out: their endpoints answer 404 before they reach the store.

### Adjudication and EnsembleVotes

`Adjudication` is the decision of `extraction/adjudication.py` over a set of
votes: the leading pathway, two families behind it, codes and dwelling types that
do not contradict.

`EnsembleVotes` is one source version and the scripts that fill it. `cands` are
the votes, `rules` the rules by `rule_key`, which is made of the base key, the
codes, the dwelling type and a suffix and *not* of clause, value or pathway: what
a second promotion of a key leaves of the first (`Overwritten`) is the heart of
the module. An extraction run (`runner`) commits the votes of a clause
(`CastVotes`) and decides later on what it holds in memory (`ExtractCore`). The
scripts that go over several ballots in one transaction (`tx`) take them in any
order. `BeginChallenge` selects candidates that `ChallengeOne` judges one by one,
with other transactions in between. `heard` is history: which family has
extracted which core from which clause. What a model may find in a clause is the
constant `Offers`. An `Endpoint` is a pass of the list that `build_endpoints` returns.
`Fresh` are the first and the last entry of the lists that may be configured,
which a readjudication asks: they may be of one family, or one model twice. What
both repeat is promoted without a look at their families, so `heard` also notes
what was heard in both (`twice`). A quote is known by its clause, since clause texts never
change. Spend, reports and review items are left out, and so are atoms that fail
validation: nothing reads them. The adversarial review's *rejections* are here
(`Reject`); the exception rules that it inserts are not (section 6).

### DecodeReview

A rule is known by what its passes tell apart: its status, who wrote its claim,
and the stamps of review and correction in its metadata. A pass (`work`) reads
what it selected (`Begin`), gets verdicts one by one (`Judge`), which lock their
rows, and commits after any of them (`Commit`); the code does after every 200.
An exported file is applied as a whole, late or twice (`ApplyFile`). An
operator's rejection writes the metadata as it was loaded (`AfterReject`), so it
may undo a stamp: `marred` names such rules and the properties leave them out.
`approver` is history: what last made the rule approved, and "late" a correction
that had read the row before it was rejected.

### ProjectChecks

`row` is the project's row of `properties`; `derived`, `live` and `entered` are
its facts. An address request is `SaveRead` (resolve, load the property),
`SaveFlush` (write the columns that differ, insert the profile's own facts),
`SaveDelete` and `SaveInsert` (the synthesis) and `SaveCommit`; each waits where
PostgreSQL would. The facts derived from one parcel come and go together and are
one batch. Facts carry `created_at`, taken from `clock` when they are flushed. A
check run reads facts (`RunFacts`), the live verification (`RunLive`) and the
rules (`RunRules`), three statements at READ COMMITTED, and computes what
`checks/engine.py` does: scope (`Applies`), conditions (`Undecided`, `Holds`),
rank (`Rank`, `Selected`), `Verdict`, `Overall`.

`overlapped`, which a run remembers from its first read, and a live fact's `lot`
are history. Nothing keeps a save from committing between two reads of a run. Left out:
the parts of the rank that depend on `is_standard`, dwelling type and base key,
facts of kind assumption, the zone filter,
the advisory score and matrix, the report. Two *first* overrides of a type at once
would leave two rows, of which only the newest is ever read. A live service that
cannot be reached is a verification without differences, as the code records it.

### CompliancePanel

`CompliancePanel` of `web/src/views/compliance.tsx`, over a server of which a run
is its start (which orders the saved runs) and its commit. A transaction commits
after its answer is sent, so a matrix read in between shows an older run
(`MatrixRead`, `Latest`). `panel` is the component's state and its refs; `calls`,
`load` and `notes` are runs, the matrix load and reviews under way. What a handler
does after its `await` is one step: `RunAnswered`, `MatrixAnswered`,
`ReviewAnswered`. `ProposalSaved` is the wizard's `runRequest`, which does not
wait for a run under way. `via`, `ver` and `fresh` are history: by which request
and at which version what is shown came.

### SourceAcquisition

Each process (`pass`) is one run of the command line, of a worker or of a script;
they start in order and may overlap. Its transactions are separate steps: import
(`ImportStep`), reading and writing the manifest of kept bytes (`RawRead`,
`RawWrite`), the log (`LogImport`), the row of `target_manifest` (`Terminate`,
`TextWrite`, `Apply`). `CutOff` stops a process between any two; `WorkerError` and
`RepairBreaks` are the errors that are caught. A claim is a lease that time takes
away (`LeaseExpires`), and `TERMINATE_SQL` names the row by its id alone, so a
worker that is late still writes. An instrument is identified with the source its
URL names. What is kept is a `Copy`: bytes *and* the form (`Form`, the kind of the
artifact) that their media type and a URL's ending give. A fetch takes the URL
it came to, a repair the source's canonical URL, so a repair may keep the same
bytes in another form (`CopyForms`), and an artifact is looked for by bytes and
form (`Kept`). `cut`, `overlapped`, `refetched` and a row's `how` are history.

The reconciliation may resolve a blocked row to a source that backs an acquired
row and has enough chunks (`Covering`); its join counts a chunk once for each
acquired row that the source backs, and so does the module.

A library is empty, seeded, or left by an earlier worker with a landing page
(`Worked`) when the processes start. Of the success log only the latest entry is
kept. Filters and limits choose any part of what a pass could take. Left out:
writes of bytes that are cut short, the operators' SQL that puts a row back to
pending by hand, the HTTP client, robots rules and parsers (what bytes and texts
come back, and in which form, is a choice of `Serves`, `RepairTexts` and `CopyForms`).

## 3. What the runs check

| Run | Question | Result |
|---|---|---|
| `store_concurrent` | what holds under every interleaving of two imports and two reviews | `NoDuplicateContent`, `SupersessionSound`, `SupersededStaysOut` hold |
| `store_serial` | what answers may rely on when reviews run one at a time | `OneCitable`, `AuditAgrees` hold, `IsRegister`: the store implements the register |
| `memory_library` | which versions give way to which in the in-memory library, with calls that raise | `OrderedSupersession` holds: older ones to newer ones, and two are citable together only after an approval that raised |
| `model_adapter` | by how much can either adapter exceed its daily cap | `LocalDailyBound`, `HttpOvershootBounded` hold |
| `documents` | do facts, flags, calibrations and measurements agree while a document is parsed twice and two users edit its facts; does each upload come to a result; does a page that uploads and polls show what is there | `FactsOfOneParse`, `PromotedFlagAgrees`, `CalibrationStands`, `UploadSettles`, `ShownFactsWhole`, `ShownSettles` hold |
| `rules` | where do rules come from, and do rows and audit events agree, while the gate, a group, an import and two operators work on one clause | `RulesVouched`, `PromotedHasRule`, `AuditExplainsRules` hold |
| `guests` | do budgets, ownership and logouts hold while two tabs race each other, the purge and a restart | `GrantsWithinLimit`, `NoOrphans`, `LoggedOutStaysOut` hold |
| `ensemble` | what may a rule say after any order of the scripts, when two clauses compete for its key and the models are of one family or of two | `RulesAnchored`, `HeardTwice`, `ReviewStands` hold |
| `decode` | do rejections survive passes that judge old snapshots, files applied late and promotions run again | `DenylistStands`, `RejectionsStand`, `StampedClaim` hold |
| `project_checks` | whose facts does a verdict compare, by whose rule, on which verification; what does the panel show after answers in any order | `FactsFollowTheRow`, `VerificationKeepsUp`, `RuleFitsLot`, `FreshRunStands`, `SomethingToSay`, `ReviewsOfTheirRun` hold |
| `acquisition` | what is recorded of a fetched text, what backs an acquired row, do workers end | `RawKept`, `RecordedOnce`, `AcquiredIsBacked`, `WorkersFinish` hold |
| `project_unresolved` | has a project without a parcel any derived facts | yes: those of the parcel it left |

**Bounds, and why they are enough.**
- `store_concurrent`: two sources, one text (metadata-only imports give a second
  digest), two versions, two importers, two reviewers. Conflicts of imports and of
  reviews are between pairs, and two versions are what a supersession relates.
- `store_serial`: three versions of one source, two texts, a licence that allows
  citing and one that does not. Three versions give chains of supersession; all
  that a review touches is in one source. The single importer still interleaves
  with the review. It is separate from the first run because `OneCitable` and
  `AuditAgrees` are *not* true of two reviewers at once: nothing in the code
  serialises reviews of one source. Two approvals may each select before the
  other commits.
- `memory_library`: three versions in two sources; a request may name a version of
  the other source.
- `model_adapter`: two callers, two days, five requests, one restart, a daily cap
  of 5 and a job cap of 3: a day's cap is reached with calls to spare for
  overshoot, a midnight and a restart on either side of it.
- `documents`: a behaviour follows either the users or a page (`side` in
  `MCDocumentPage`), since no property relates the two. Users (`UsersBound`): one
  document with one dimension in a whole file (documents share nothing but the
  storage tree), its two possible parses, two users, two promotions. Lost updates
  are between pairs of edits, a PATCH of two fields writes what two PATCHes of one
  would, and which of two like users comes first is a name; the second parse is the
  only one that can find facts of an earlier one. Page: opened when one document
  was parsed, uploads another, whose file may be torn; two lists under way (an
  older one may come last) and one read of facts.
- `rules`: three contents (valid and seeded, valid but failing the evaluation,
  invalid) over two keys, so that the gate, a group and an import compete for a
  key; extractions that agree on a valid and on an invalid content and one that
  does not agree; the gate and the operators work on one of the candidates (a
  promotion involves no other, a group all three); two operators, three requests,
  since a disagreement of row and trail is between two reviews; five transactions
  of the pipeline, enough to validate, evaluate, promote, extract again and
  promote again.
- `guests`: one browser (tokens are of a browser; two tabs share its cookie), a
  purge that may come before a session has run out, limits of one work and two
  logins, two guests and the developers' account, four requests: two to log in and
  two that race. What several browsers add is more accounts, and accounts share
  only the limiter, whose window is per address.
- `ensemble`: two clauses with one base key and a value each, two models of two
  families and a batch family, one report item for the same key, challenges one at
  a time. Every property is about one rule key and at most two writers of it. The
  second clause is reached by batches and challenges only (`MaxGroups`), which
  keeps the run short; a clause whose second extraction is lost is the first.
  Readjudications are made with a second family configured and without
  (`MCFresh`).
- `decode`: one rule of any origin, since passes relate rules by nothing, and two
  passes, since an overlap is between two; promotions, files, open reviews and the
  operator come any number of times.
- `project_checks`, `project_unresolved`: two parcels that differ in council,
  R-code and structure plan, an address without parcel that is missing or has facts
  of its own, two requests, one entry, one review, one check run; seven rules of
  which two wait for a height. A behaviour of `project_checks` follows either
  the server, statement by statement, or one panel (`side` in `MCCheckView`) with
  two runs and three loads: one is overtaken, one retried. A second panel meets
  the first only in what is saved, which refusals and lost answers cover.
- `acquisition`: one policy that serves a scan or its text, whose repairs may keep a
  scan as a PDF or as text, and a row that names it by a variant; two processes of any kind, one after the other or overlapping,
  stopped anywhere, from each of the three initial libraries, which stand for what
  earlier processes leave: a third process is thus covered where it matters (a
  worker's landing page, then triage, repair, reconciliation). Two attempts stand for the
  worker's three.

Deadlock is not checked in these runs: the number of versions and of requests is
bounded, and with it the program's work.

**Fairness.** `DocumentPipeline` assumes weak fairness of `Enqueue` and of the
steps of a parse, for `UploadSettles`. The code gives it: after its commit the
upload request runs straight on to the enqueue and, if that fails, the fallback,
and the worker polls its queue. Errors, stops and users are not fair:
`ParseRaises`, `RequestCut` and every edit may come or not. The property
excepts by name the uploads whose request is cut off and the parses that raise: no
code settles those. `SourceAcquisition` assumes, for `WorkersFinish`, weak
fairness of a worker's own steps taken together: its calls return or raise, and
it loops. `DocumentPanel` assumes, for `ShownSettles`, that the timer ticks, and
strong fairness of the answers to lists and to reads of facts: each may be lost,
but not every one of those that polling sends again. Nothing is assumed of stops, of time or of other processes. All other
properties are safety properties, checked and proved without fairness.

Each property has a mutant in `PROJECT.json`: a plausible change of one
definition under which the same run finds the property violated. The mutated
forms stand in the modules beside the definition they change, and no definition
uses them.

## 4. Where the code and its documents disagree

Shown by a run (`project_unresolved`): when the new address of a project has no
parcel, `_save_property_profile` leaves `prop.parcel_id` as it was
(`domain/address/postgis_store.py:990`), and the synthesis writes the old parcel's
facts anew; `domain/spatial/synth_facts.py:162` says that it writes none for a
project without a resolved parcel.

Met while modelling. The modules do what the code does:

1. `search_chunks` filters on `review_status = 'approved'` alone
   (`domain/sources/library.py:783`); `docs/SOURCE_GOVERNANCE.md:28` says that
   superseded versions are excluded from default retrieval.
2. The PostgreSQL library supersedes every other approved version whatever its
   age (`store/importing.py:523`); `docs/ARCHITECTURE.md:23` speaks of older ones,
   and the in-memory library compares ages.
3. `seed_daily_counters` sums refused traces too (`ai/db_trace_store.py:87`), so a
   restart raises the counter that `docs/LAUNCH_HANDOFF_PLAN.md:113` expects
   unchanged.
4. `_store_content` writes to the final path and skips a path that exists
   (`api/documents.py:148`), so a write cut short leaves part of a content under
   its digest, and no later upload of that content repairs it; `:14` and `:145`
   promise content-addressed storage.
5. The table `document_facts` admits "pending_review" and "confirmed"
   (`db/alembic/versions/0009_wp7_db_fixes.py:56`), the API accepts "rejected" too
   (`api/documents.py:95`): no fact can be rejected.
6. A failed validation is rolled back with its results: the `ReviewItem` it makes
   names an org that does not exist (`domain/rules/gate.py:301`), where `:45`
   promises to persist the results and `:50` a review item.
7. A provider call that raises is neither charged nor traced
   (`ai/substrate.py:394`, against `docs/MASTER_REBUILD_PLAN.md:445`).
8. The gate says it is the only writer of rules (`domain/rules/gate.py:4`), but
   `_maybe_promote`, `label harvest` and the scripts write them too; its
   evaluation check is per skill version, not per candidate (`:200`, `:344`).
9. `reject_rule` (`domain/rules/service.py:391`) assigns "rejected" to a row it
   read as rejected, which writes nothing; a correction that commits in between
   and restores the rule leaves it approved, where the docstring at `:375` says
   "Set lifecycle_status='rejected' on a Rule".
10. An acquisition worker whose lease has run out still writes its outcome
    (`scripts/wp4_acquire.py:87` names the row by its id), so a failure that comes
    late turns a row that another worker has acquired to "blocked" and clears its
    document; `docs/DB_BUILDOUT_AGENT_PLAN.md:67` relies on writes that do not
    harm each other.
11. Two fetches or repairs at once record one source twice, and may drop an id
    from a version's manifest (`domain/sources/store/fetching.py:558`):
    `RecordedOnce` speaks of processes that do not overlap. Only its last part
    holds whatever overlaps: a repair adds a later and longer text.
12. A guest's account is purged after 14 days, its session and cookie are good for
    30: a holder of such a cookie is given another account with a fresh budget,
    which `api/auth.py:297` means to prevent.
13. `scripts/wp6_solo_promote.py:23` calls itself re-runnable by "ON CONFLICT
    updates"; it inserts under the next free key instead when the first is taken
    by another core, also by its own earlier run.
14. The compliance panel counts runs asked for, not runs answered
    (`web/src/views/compliance.tsx:758`). A load sent by Retry while a run is under
    way has that run's version; read before the run commits and answered after
    it, it replaces the fresh run by the one saved before. The test at
    `compliance.product-loop.test.tsx:100` has the load sent first, and that case
    is `FreshRunStands`. Two runs under way show the one that is answered last.
15. When job and request both parse a document, the page may show facts that the
    second parse has replaced; to confirm one of them is a 404
    (`web/src/views/documents.tsx:263` reads no more once it shows a result).
16. The reconciliation asks for sources with `count(sc.id) >= 3`
    (`scripts/wp4_reconcile_aliases.py:285`) over a join with `target_manifest`, so
    a source of two chunks that backs two acquired rows passes for one of four.
17. A calibration reference of three blanks passes the length that
    `api/documents.py:96` asks for, is stored as an empty one with the status
    "human_confirmed" (`:387`, `:388`), and counts as none when a fact is promoted
    (`:437`). So a fact whose measurement was promoted with a reference can be left
    with an empty one. `:192` and `docs/MASTER_REBUILD_PLAN.md:678` want no raster
    measurement without calibration: the measurement still has its reference, its
    fact does not.
18. The form of kept bytes is no property of the bytes: a repair names them by the
    canonical URL (`store/fetching.py:347`), a fetch by the URL it came to. A forced
    repair that finds the version's own text again then keeps the bytes a second
    time on that version (`:582`), though nothing overlaps; and a repaired version
    whose only copy is not called a PDF can not be repaired again (`:220`).
19. A readjudication asks the first and the last entry of the list of models and
    promotes what both repeat (`scripts/wp9_pending_adjudicate.py:115`, `:158`).
    Where one family is configured both are of that family, often one model
    twice; `extraction/adjudication.py:23` wants two distinct families and calls two
    such passes one vote, and `scripts/wp6_extract.py:595` says that nothing is
    promoted then. `HeardTwice` is what holds instead. A batch or a challenge
    does ask for two families.
20. A check run reads facts and live verification in two statements
    (`checks/engine.py:759`, `:775`) and does not compare their parcels. A save that
    commits in between hides the disagreement found for the parcel whose facts
    were read: the verdict on it rests on the verification of the next one.
    `docs/MASTER_REBUILD_PLAN.md:509` says that a disagreement fails closed.
    `VerificationKeepsUp` is what holds instead: a verification of another parcel
    is later than the facts, never one that the project left behind.

## 5. What is proved

All proofs are checked by TLAPS to the last leaf and hold for every value of the
constants that satisfies the modules' assumptions (typing of the constants, and
finitely many callers).

**`SourceStoreProofs`**, for any number of importers and reviewers:
`Typing`, `ContentUnique`, `SupersessionIsSound`, `SupersededNeverReturns`.
The inductive invariant adds to the typing what each open transaction has read.
An import that has flushed holds a digest that no committed row of its source
carries and no other flushed import holds, and its version number is unused: this
is what the unique constraint buys, and without it a commit could not be shown to
keep the content unique. A review that has selected names only committed versions
of its own source, other than its own: since rows are never removed and keep
their source, this stays true until it commits. `SupersededNeverReturns` needs only the
typing: a column that is set to a version is never set back.

The same module, under the explicit hypothesis that there is at most one
reviewer: `OneCitableWhenSerial`, `AuditAgreesWhenSerial`, `ImplementsRegister`.
With one review open, what it read is what the rows still
say, and the versions it selected are all the approved, unsuperseded ones of its
source but its own. So its commit leaves no other citable one, and maps to
`Publish` or `Withdraw`; an import's commit maps to `Store`, all else to a
stutter. The hypothesis is the proof's most important finding: the code has no
statement that establishes it.

About `MemoryLibrary`: `MemoryInductive`, `MemoryTyping`, `SupersessionIsOrdered`.
A version gives way to a later one of its source, and an approval that did not
raise has put all earlier versions of its source aside (`EldersYield`). The step
that matters is a review of an old version after a newer one was approved: it
takes the greatest of the later approved versions, and the proof needs that a
finite set of versions has one, a lemma shown here by well-founded induction.

**`ModelAdapterProofs`**: `AdapterTyping`, `HttpOvershoot`, `LocalDailyCap`.
For http, the invariant is that the ledger is at most the cap plus one largest
call for each caller *not* in a call: an admission sees the ledger below the cap
and takes up one such place, a completion gives it back. For
local, the invariant follows one day's tokens through the places they can be:
stored in a trace, in the ledger, in the one call in flight, or counted in
`lost`. Midnight moves the call in flight from one day to the next, which is
where the "one call" in the bound comes from.

**`DocumentProofs`**, for any documents, contents, measures and users:
`PipelineTyping`, `OneParse`, `PromotedFlags`, `Calibrated`, from one inductive
invariant. Its parts: the lock on the document's row keeps a second parse out, so
what a parse deletes is all there is; facts are seen only after the parse that
made them has ended, so a parse that commits cannot overwrite facts of its own
run, and no measurement can name a fact that is still to come; and what an open
edit has read of them still stands when it commits: a flag that was set is set,
and a calibration that was recorded is recorded, if only as a later, perhaps
blank, one. The reference itself may have been taken away; the measurement is
made with the one that its request has read (`EditSees`), so the proof of
`Calibrated` has to tell "given" from "there". That is what lets the ORM's write
of changed columns go without a lock.

For the pipeline under a page, with any number of lists and reads under way:
`PanelInductive`, `PipelineUnderPage`, `ShownWhole`. The page changes nothing of
the pipeline, so its invariant carries over. The strengthening says of the
pipeline that once a parse has committed, the facts of a whole file are all there,
also after a later parse has failed (`WholeSinceRun`), and of every answer that is
under way or on display that facts which come with the status "parsed" are of one
parse and complete. The status is read before the facts; that this order is safe is
the point of the proof, and it rests on a document never losing its run.

**`RuleLifecycleProofs`**, for any keys, contents and operators:
`LifecycleTyping`, `OnlyVouchedRules`, `PromotionLeavesRule`, `AuditTrail`. The
invariant says what an open transaction still knows of the rows it loaded
(`JobSees`): the content is what it was, for only the pipeline writes contents,
and the status is what it was or what an operator set, never a promotion. That is
why a promotion may trust a validation it read before a review committed. The
other direction, that a promoted candidate's rule stays, rests on the unique key:
a free key is no promoted candidate's (`PromotedHasRule` with
`SeededCand`), and an import only overwrites rules of its own. `AuditTrail` follows because a
review that writes a status always leaves an event, and one whose event changes
nothing writes nothing.

**`GuestAccessProofs`**: `TypeCorrect`, `BudgetsHold`, `NothingOrphaned`,
`LogoutFinal`. The budget is about works let through and the code counts in a row
that a purge deletes, so the invariant ties the two: while an account has a
counter it is the number granted, and an account that could still get a *new*
counter (it has an org and no user yet, or a user and no counter) was granted
nothing. After a purge there is no user, an org is made once, and no counter can
be inserted. A logout is final because a slide writes the expiry only and a
revocation is never undone: a request that began after it can not read its
session as valid.

**`EnsembleVotesProofs`**, for any clauses, models, endpoints and report items:
`EnsembleTyping`, `Anchored`, `Independent`, `ReviewsStand`. The strengthening is
one sentence: every candidate, also one that a challenge selected long ago and
still holds, is an extraction somebody made. With it the two families that a
ballot shows are two families heard of this core in this clause, and a promotion
writes core and quote together. `Independent` (`HeardTwice`) assumes nothing of
the families of the list: a readjudication that promotes has heard the core in
both of its passes, of whatever family, and this is all it has. That a rule has
two *families* behind it is not proved, as it is not so (section 4).
`ReviewsStand` splits the scripts by what each does to a rule's status: only an
operator's step turns another status into "approved".

**`ScriptProofs`**, for any rules and any number of open passes:
`DecodeTyping`, `DenylistHolds`, `RejectionsHold`, `ClaimIsStamped`. What a pass
holds is what makes it safe: a correction that read a rule as rejected did not
read it as rejected by the denylist, and a verdict fits its pass. The rest is a
property of the statements, rule by rule: passing stamps and never restores,
keeping restores and restamps, promotion skips what is there.

The same module, for any sources, bytes, texts and processes:
`AcquisitionInductive`, `AcquisitionTyping`, `BytesAreKept`, `RecordedOnceAlone`,
`AcquiredRowsBacked`. A process runs a whole chain of transactions on what it
imported at the first, so the invariant (`AcquisitionInv`) says for each stage
what the process has in hand (`ProcessFits`): until its bytes are kept, the
version it imported is one that these bytes yield; once it is done for a row, its
outcome is backed by a text, and for a worker's outcome by kept bytes. Versions
never change and neither versions nor artifacts are removed (`Grown`), so what one process has in
hand stays true under the steps of all others. That is why a worker whose lease has
run out, though it may spoil a row, can not acquire one without a document. A
version whose bytes are not kept is one that a running process still has to
record or that a stop cut off (`BytesKept`). For `RecordedOnce` the invariant adds
what holds while no two processes overlapped (`Alone`): what the one open process
read of the manifest is what is there. Copies are told apart by bytes and form, as
the code does: for whatever forms URLs give, a version has one artifact of each.

**`ProjectChecksProofs`**, for any parcels, profiles, rules and clients:
`ProjectTyping`, `FactsAreTheParcels`, `VerificationsKeepUp`,
`RulesFitTheLot`. While requests never overlapped, an open one holds the row as
it is stored, so what it deletes and inserts follows the row. For verdicts the
invariant orders times: verifications and batches carry different clock values,
the newest verification is of the parcel of the facts, or there is none of this
parcel and live verification is off. So at one moment facts and verification
are of one parcel. A run reads them at two: clocks only grow and the newest
verification stays the newest until a later one comes, so what it reads second is
of the parcel of the facts, or later than they are (`KeptUp`). The
council of the rule needs none of that: it is read from the same facts.

The same module, for any number of panels, runs and loads: `ViewInductive`,
`ViewTyping`, `FreshRunKept`, `NeverBlank`, `ReviewsStayWithRuns`. The invariant
(`ViewInv`) orders versions: nothing under way was sent at a later version than
the panel's, and a matrix on display was asked for no earlier than the last fresh
run was. That a panel which awaits nothing has something to say holds because a
load that is under way either has the panel's version, and its answer will be
shown, or was overtaken by a request whose answer already shows (`Answered`).

**Only model-checked:** the liveness properties `UploadSettles`, `ShownSettles`
and `WorkersFinish`, whose fairness needs `ENABLED`, which TLAPS does not reach;
and the violation of `UnresolvedHasNoFacts`. Every other property of the runs is stated by a theorem.

## 6. Not modelled, and why

- **Answers** (`api/sources.py`): search, model call, lookup of the trace. Each
  part is modelled by itself (`SourceStore`, `ModelAdapter`); their composition
  would say that hits are read before the model call and not looked at again. The
  code has nothing that could refuse a hit withdrawn meanwhile, so the only
  property to state is false by construction of the handler.
- **Magic links**: `api/auth.py` answers 404 before the store is reached, so
  `consume_magic_link` has no caller in the service.
- **`refresh_source`, freshness, `seed_manifest`**: the first two write requests
  that nothing modelled reads, the last is a loop of imports (in
  `SourceAcquisition` as `StartSeed`).
- **Exceptions of the adversarial review** (`scripts/wp6_apply_adv_review.py:140`):
  beside its rejections the script inserts an approved rule for each exception that
  the reviewing model reports as missed, under a key of its own and with the
  quote that the model gave, which nothing compares with the clause. They meet
  no other rule of the ensemble, and `RulesAnchored` is not true of them.
- **Other scripts of the corpus**: `wp5_citations.py`, `wp6_apply_clustering.py`,
  `wp6_curate_lot_area_operators.py`, `wp7_conflict_sweep.py`,
  `wp9_complete_db.py`, the generators of manifests, and imports by hand are run
  once, alone, by an operator who looks at the outcome; `wp6_redecode.py` gives its
  candidates a tag that no promotion selects.
- **Parsing, chunking, ranking, embeddings, geometry, address matching, the text of
  prompts and answers**: functions of data over libraries, services and patterns.
  What they return is a choice or a constant of the modules above.
- **Governance validators and the generated check registry**: predicates and a
  table, without state. The registry's 2,800 lines are data.
- **Embedding job**: one chunk at a time, and nothing modelled reads a vector.
- **Hermes agent**: never instantiated. **Evaluation runner**: scores fixtures.
- **Other views of the web front end**: one request at a time and what it shows.
- **Deployment, data and reports**: no state of the service.

What is modelled is a small share of the repository's lines because most of them
are the parsing, tables, geometry, schema and one-off scripts listed here. The
modules cover the code in which several actors meet in shared state.
