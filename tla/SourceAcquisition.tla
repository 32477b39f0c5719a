-------------------------- MODULE SourceAcquisition --------------------------
(***************************************************************************)
(* How planning sources get their texts: passes of the command line        *)
(* (fetch, parse repair, link discovery, manifest seeding), the workers    *)
(* that drain the queue of wanted instruments (table target_manifest)      *)
(* under leases, and the scripts that dispose of its rows.  All write      *)
(* versions, raw artifacts and fetch logs in transactions of their own.    *)
(***************************************************************************)
EXTENDS Naturals, FiniteSets, Sequences, SequencesExt

CONSTANTS
  Source,       \* wanted instruments, each with the source its URL names
  Raw,          \* bodies of bytes
  Text,         \* bodies of text
  Anchor,       \* descriptions that a version without a text consists of
  None,         \* no source, no bytes, no text
  Serves,       \* what a source's URL may answer with
  Located,      \* rows seeded with a URL
  Listed,       \* sources that links and the seed manifest name
  RepairTexts,  \* the texts the repair parsers may find in bytes
  Supplied,     \* texts an index or a transcription supplies for a source
  Length,       \* characters of a text
  LowSignal,    \* texts whose parse quality asks for a repair
  Chunks,       \* chunks that a text is cut into
  MinChunks,    \* MIN_CHUNKS: fewer are taken for a landing page
  CopyForms,    \* forms in which a repair may keep the bytes of a source
  Aliases,      \* pairs: the first one's name is a variant of the second's
  Disposed,     \* rows a triage or reconciliation closes by name or category
  MaxAttempts,  \* MAX_ATTEMPTS of a worker
  MaxPasses     \* bound: passes, workers and scripts started

\* The kinds of raw artifacts: what media type and URL name, not the bytes.
Form == {"raw_pdf", "raw_docx", "raw_html", "canonical_text"}
Copy == [bytes: Raw, form: Form]

\* An answer has the text that the fetch parser finds in it, if any.
ASSUME ShapeAssumption ==
  /\ Serves \in [Source -> SUBSET [copy: Copy, text: Text \cup {None}]]
  /\ CopyForms \in [Source -> SUBSET Form]
  /\ Supplied \in [Source -> SUBSET Text]
  /\ RepairTexts \in [Raw -> SUBSET Text]
  /\ Length \in [Text -> Nat]
  /\ Chunks \in [Text -> Nat]
  /\ Aliases \subseteq Source \X Source
  /\ Located \cup Listed \cup Disposed \subseteq Source
ASSUME TextAssumption == Text \cap Anchor = {}
ASSUME NoneAssumption == None \notin Source \cup Copy \cup Text
ASSUME BoundAssumption ==
  MaxAttempts \in Nat \ {0} /\ MinChunks \in Nat /\ MaxPasses \in Nat

\* Processes, in the order in which they start.
Actor == 1..MaxPasses

VARIABLES
  versions,   \* source_versions of each source, in the order of fetched_at
  artifacts,  \* raw artifact rows
  listed,     \* artifact rows that their version's storage manifest names
  succeeded,  \* sources whose latest fetch log is a success
  row,        \* target_manifest
  pass,       \* what each process is at
  cut,        \* history: versions whose import was not followed up
  overlapped, \* history: two processes were at work at once
  refetched   \* history: an unforced fetch imported for a source with a text

vars ==
  <<versions, artifacts, listed, succeeded, row, pass, cut, overlapped, refetched>>
library == <<versions, artifacts, listed, succeeded>>
history == <<cut, overlapped, refetched>>

-----------------------------------------------------------------------------
Latest(s) == Len(versions[s])
HasText(s) == versions[s] # <<>> /\ Last(versions[s]).digest \in Text
RawsOf(s, i) == {x \in artifacts : x.src = s /\ x.ver = i}

\* What a process is at.  todo: jobs (or decisions) still to do; job: the one
\* in hand; ver, raw: the version it imported and the copy to keep with it;
\* saw: the manifest it has read; out: what is to be written on the row;
\* checked: rows checked since its start.  A job is a source, the version and
\* the copy to repair, and the row it is done for.
Job(s, i, r) == [src |-> s, ver |-> i, raw |-> r, row |-> s]
RowJob(s) == [Job(s, 0, None) EXCEPT !.src = IF row[s].url = None THEN s ELSE row[s].url]
NoJob == Job(None, 0, None)
NoOutcome == [status |-> "none", doc |-> None, how |-> "none"]
Begun(kind, mode, at, todo) ==
  [kind |-> kind, mode |-> mode, at |-> at, todo |-> todo, job |-> NoJob,
   ver |-> 0, raw |-> None, saw |-> {}, out |-> NoOutcome, tries |-> 0,
   checked |-> {}]
Waiting == Begun("none", "none", "start", {})
Closed == Begun("none", "none", "end", {})
IsOpen(a) == pass[a].kind # "none"

FirstStage(kind) ==
  CASE kind = "discover" -> "check"
    [] kind = "acquire" -> "claim"
    [] OTHER -> "import"

\* What process p goes on to when a job ends: the next one, or nothing.  A
\* worker looks for another row; decisions are all applied at once.
Onward(p) ==
  IF p.kind \in {"triage", "reconcile"} \/ (p.kind # "acquire" /\ p.todo = {}) THEN Closed
  ELSE [Begun(p.kind, p.mode, FirstStage(p.kind), p.todo) EXCEPT !.checked = p.checked]
Past(a, j) == Onward([pass[a] EXCEPT !.todo = @ \ {j}])

At(a, kinds, at) == pass[a].kind \in kinds /\ pass[a].at = at

Version(d, made, from) == [digest |-> d, made |-> made, from |-> from]

VersionRow == [digest: Text \cup Anchor, from: Nat,
               made: {"anchor", "fetched", "repaired", "reparsed", "supplied"}]
ArtifactRow == [src: Source, ver: Nat, raw: Copy, nth: Nat]
RowStatus == {"pending", "blocked", "metadata_only", "out_of_scope", "acquired"}
Means == {"none", "fetched", "text", "alias"}
ManifestRow == [status: RowStatus, doc: Source \cup {None}, how: Means,
                url: Source \cup {None}, leased: BOOLEAN]
JobRow == [src: Source, ver: Nat, raw: Copy \cup {None}, row: Source]
DecisionRow == [row: Source, status: RowStatus, doc: Source \cup {None}]
Process ==
  [kind: {"none", "fetch", "repair", "discover", "seed", "acquire", "text",
          "triage", "reconcile"},
   mode: {"none", "plain", "force", "pending", "blocked"},
   at: {"start", "claim", "check", "import", "raw", "insert", "keep", "log", "end"},
   todo: (SUBSET JobRow) \cup (SUBSET DecisionRow), job: JobRow \cup {NoJob},
   ver: Nat, raw: Copy \cup {None}, saw: SUBSET ArtifactRow,
   out: [status: RowStatus \cup {"none"}, doc: Source \cup {None}, how: Means],
   tries: Nat, checked: SUBSET Source]

TypeOK ==
  /\ versions \in [Source -> Seq(VersionRow)]
  /\ artifacts \subseteq ArtifactRow /\ IsFiniteSet(artifacts)
  /\ listed \subseteq ArtifactRow
  /\ succeeded \subseteq Source
  /\ row \in [Source -> ManifestRow]
  /\ pass \in [Actor -> Process]
  /\ cut \subseteq Source \X Nat
  /\ overlapped \in BOOLEAN /\ refetched \in BOOLEAN

\* What URLs may answer with.
Answers == UNION {Serves[s] : s \in Source}

\* Landing pages that an earlier worker fetched and kept.
Worked == {x \in Located \X Answers : /\ x[2] \in Serves[x[1]]
                                     /\ x[2].text # None
                                     /\ Chunks[x[2].text] < MinChunks}

\* A new library, one that the manifest was seeded to, or one that a worker
\* left a landing page in.
Init ==
  /\ \/ /\ versions \in [Source -> {<<>>} \cup {<<Version(d, "anchor", 0)>> : d \in Anchor}]
        /\ \A s \in Source \ Listed : versions[s] = <<>>
        /\ artifacts = {} /\ succeeded = {}
     \/ \E x \in Worked :
          /\ versions = [s \in Source |-> IF s # x[1] THEN <<>>
                                         ELSE <<Version(x[2].text, "fetched", 0)>>]
          /\ artifacts = {[src |-> x[1], ver |-> 1, raw |-> x[2].copy, nth |-> 1]}
          /\ succeeded = {x[1]}
  /\ listed = artifacts
  /\ row = [s \in Source |->
              [status |-> IF s \in succeeded THEN "blocked" ELSE "pending",
               doc |-> IF s \in succeeded THEN s ELSE None, how |-> "none",
               url |-> IF s \in Located THEN s ELSE None, leased |-> FALSE]]
  /\ pass = [a \in Actor |-> Waiting]
  /\ cut = {} /\ overlapped = FALSE /\ refetched = FALSE

Opens(a, p) ==
  /\ pass[a] = Waiting
  /\ \A b \in 1..(a - 1) : pass[b] # Waiting
  /\ pass' = [pass EXCEPT ![a] = p]
  /\ overlapped' = (overlapped \/ \E b \in Actor : IsOpen(b))
  /\ UNCHANGED <<versions, artifacts, listed, succeeded, row, cut, refetched>>

-----------------------------------------------------------------------------
(* import_source: one transaction, since a text is stored once in a source. *)

Carriers(s, d) == {i \in DOMAIN versions[s] : versions[s][i].digest = d}

\* The version an import returns: the one that carries the digest, or a new one.
Imported(s, d) ==
  IF Carriers(s, d) = {} THEN Latest(s) + 1 ELSE CHOOSE i \in Carriers(s, d) : TRUE

Imports(s, d, made, from) ==
  versions' = IF Imported(s, d) <= Latest(s) THEN versions
              ELSE [versions EXCEPT ![s] = Append(@, Version(d, made, from))]

\* Process a imports digest d for job j and goes on at stage at.
ImportStep(a, j, d, made, from, r, at, out) ==
  /\ Imports(j.src, d, made, from)
  /\ pass' = [pass EXCEPT ![a] =
                [pass[a] EXCEPT !.todo = @ \ {j}, !.job = j, !.at = at, !.raw = r,
                                !.ver = Imported(j.src, d), !.out = out]]
  /\ UNCHANGED <<artifacts, listed, row, cut, overlapped>>

Logs(s, success) ==
  succeeded' = IF success THEN succeeded \cup {s} ELSE succeeded \ {s}

\* A log of a job that ends without an import.
LogsInstead(a, j) ==
  /\ Logs(j.src, FALSE)
  /\ pass' = [pass EXCEPT ![a] = Past(a, j)]
  /\ UNCHANGED <<versions, artifacts, listed, row, history>>

-----------------------------------------------------------------------------
(* fetch_pending_sources                                                    *)

\* Sources a pass may choose from; its filters and its limit choose.
Pending(mode) ==
  {s \in Source : versions[s] # <<>>
                  /\ (mode = "plain" => ~HasText(s) /\ s \notin succeeded)}

StartFetch(a) ==
  \E mode \in {"plain", "force"} : \E chosen \in (SUBSET Pending(mode)) \ {{}} :
    Opens(a, Begun("fetch", mode, "import", {Job(s, 0, None) : s \in chosen}))

\* The page is fetched and its text imported.
FetchImport(a) ==
  /\ At(a, {"fetch", "acquire"}, "import")
  /\ \E j \in pass[a].todo : \E x \in Serves[j.src] :
       /\ x.text # None
       /\ ImportStep(a, j, x.text, "fetched", 0, x.copy, "raw", NoOutcome)
       /\ refetched' = (refetched \/ (pass[a].kind = "fetch" /\ pass[a].mode = "plain"
                                      /\ HasText(j.src)))
       /\ UNCHANGED succeeded

\* The fetch, or the embedding of its text, raises what the pass catches.
FetchFails(a) ==
  At(a, {"fetch"}, "import") /\ \E j \in pass[a].todo : LogsInstead(a, j)

-----------------------------------------------------------------------------
(* repair_parse_quality_sources                                             *)

\* The latest version of a source with one of its raw artifacts, a PDF if any.
RepairReady ==
  {j \in {Job(s, Latest(s), r) : s \in Source, r \in Copy} :
     LET raws == {x.raw : x \in RawsOf(j.src, j.ver)}
         pdfs == {r \in raws : r.form = "raw_pdf"} IN
     /\ HasText(j.src) /\ Last(versions[j.src]).digest \in LowSignal
     /\ j.raw \in raws /\ j.raw.form # "canonical_text"
     /\ pdfs # {} => j.raw \in pdfs}

StartRepair(a) ==
  \E mode \in {"plain", "force"} : \E chosen \in (SUBSET RepairReady) \ {{}} :
    /\ \A j, k \in chosen : j.src = k.src => j = k
    /\ Opens(a, Begun("repair", mode, "import", chosen))

\* The text found is longer than that of the version the pass read.
Improves(j, t) == Length[t] > Length[versions[j.src][j.ver].digest]

\* The stored bytes are read and parsed again; they are kept with the new text
\* under the form that their media type and the source's own URL name.
RepairImport(a) ==
  /\ At(a, {"repair"}, "import")
  /\ \E j \in pass[a].todo : \E t \in RepairTexts[j.raw.bytes], f \in CopyForms[j.src] :
       /\ j.raw.form = "raw_pdf"
       /\ pass[a].mode = "force" \/ Improves(j, t)
       /\ ImportStep(a, j, t, IF pass[a].mode = "force" THEN "reparsed" ELSE "repaired",
                     j.ver, [j.raw EXCEPT !.form = f], "raw", NoOutcome)
       /\ UNCHANGED <<succeeded, refetched>>

\* No text, no longer text, or a parser that raises.
RepairSkips(a) ==
  /\ At(a, {"repair"}, "import")
  /\ \E j \in pass[a].todo : j.raw.form = "raw_pdf" /\ LogsInstead(a, j)

\* A form that no repair parser reads is passed over without a log.
RepairUnsupported(a) ==
  /\ At(a, {"repair"}, "import")
  /\ \E j \in pass[a].todo :
       /\ j.raw.form # "raw_pdf"
       /\ pass' = [pass EXCEPT ![a] = Past(a, j)]
  /\ UNCHANGED <<library, row, history>>

-----------------------------------------------------------------------------
(* discover_child_sources, seed_manifest                                    *)

\* Links are read in the latest texts.
StartDiscover(a) ==
  \E chosen \in (SUBSET Listed) \ {{}} :
    /\ \E s \in Source : HasText(s)
    /\ Opens(a, Begun("discover", "plain", "check", {Job(s, 0, None) : s \in chosen}))

StartSeed(a) ==
  \E chosen \in (SUBSET Listed) \ {{}} :
    Opens(a, Begun("seed", "plain", "import", {Job(s, 0, None) : s \in chosen}))

\* _already_has_fetched_source, in a session of its own.
DiscoverCheck(a) ==
  /\ At(a, {"discover"}, "check")
  /\ \E j \in pass[a].todo :
       pass' = [pass EXCEPT ![a] = IF HasText(j.src) THEN Past(a, j)
                                   ELSE [@ EXCEPT !.at = "import", !.job = j]]
  /\ UNCHANGED <<library, row, history>>

\* The source is registered, or described anew, by a version without a text.
AnchorImport(a) ==
  /\ At(a, {"discover", "seed"}, "import")
  /\ \E j \in pass[a].todo, d \in Anchor :
       /\ pass[a].kind = "discover" => j = pass[a].job
       /\ ImportStep(a, j, d, "anchor", 0, None, "log", NoOutcome)
       /\ UNCHANGED <<succeeded, refetched>>

-----------------------------------------------------------------------------
(* record_raw_fetch_artifact, record_fetch_log                              *)

\* Artifacts of the same version, digest and kind.
Kept(a) ==
  {x \in artifacts : x.src = pass[a].job.src /\ x.ver = pass[a].ver /\ x.raw = pass[a].raw}

\* The bytes are stored under their digest, and the manifest is read.
RawRead(a) ==
  /\ At(a, {"fetch", "acquire", "repair"}, "raw")
  /\ pass' = [pass EXCEPT ![a] =
                [@ EXCEPT !.at = IF Kept(a) = {} THEN "insert" ELSE "keep",
                          !.saw = listed \cap RawsOf(pass[a].job.src, pass[a].ver)]]
  /\ UNCHANGED <<versions, artifacts, listed, succeeded, row, history>>

\* Mutated form: the artifact is kept with the latest version of its source.
ArtifactOfLatest(a) ==
  [src |-> pass[a].job.src, ver |-> Latest(pass[a].job.src), raw |-> pass[a].raw, nth |-> 1]

\* A row of its own, the nth of the same version, bytes and form.
Artifact(a) ==
  [src |-> pass[a].job.src, ver |-> pass[a].ver, raw |-> pass[a].raw,
   nth |-> Cardinality(Kept(a)) + 1]

\* Mutated form: the manifest is left as the import made it.
ManifestUnchanged(a, new) == listed

\* The manifest is written back as it was read, with the artifact added.
Manifest(a, new) ==
  IF new \subseteq pass[a].saw THEN listed
  ELSE (listed \ RawsOf(pass[a].job.src, pass[a].ver)) \cup pass[a].saw \cup new

RawWrite(a) ==
  /\ pass[a].at \in {"insert", "keep"}
  /\ LET new == IF pass[a].at = "insert" THEN {Artifact(a)}
                ELSE {CHOOSE x \in Kept(a) : TRUE} IN
     /\ artifacts' = artifacts \cup new
     /\ listed' = Manifest(a, new)
  /\ pass' = [pass EXCEPT ![a] = [@ EXCEPT !.at = "log", !.saw = {}]]
  /\ UNCHANGED <<versions, succeeded, row, history>>

\* What a worker writes on its row after the log of a success.
Outcome(a) ==
  LET s == pass[a].job.src IN
  IF Chunks[versions[s][pass[a].ver].digest] < MinChunks
  THEN [status |-> "blocked", doc |-> s, how |-> "none"]
  ELSE [status |-> "acquired", doc |-> s, how |-> "fetched"]

\* The log of what was imported: a success, or an anchor to be fetched.
LogImport(a) ==
  /\ pass[a].at = "log"
  /\ LET p == pass[a]  success == p.kind \notin {"discover", "seed"} IN
     /\ Logs(p.job.src, success)
     /\ pass' = [pass EXCEPT ![a] = IF p.kind = "acquire"
                                    THEN [@ EXCEPT !.at = "end", !.out = Outcome(a)]
                                    ELSE Onward(p)]
  /\ UNCHANGED <<versions, artifacts, listed, row, history>>

-----------------------------------------------------------------------------
(* The workers of wp4_acquire.py                                            *)

StartWorker(a) ==
  \E mode \in {"pending", "blocked"} : Opens(a, Begun("acquire", mode, "claim", {}))

\* Mutated form: rows checked since the worker's start may be claimed again.
ClaimableAgain(a) ==
  {s \in Source : row[s].status = pass[a].mode /\ row[s].url # None /\ ~row[s].leased}

Claimable(a) ==
  {s \in Source : /\ row[s].status = pass[a].mode
                  /\ row[s].url # None
                  /\ pass[a].mode = "blocked" => s \notin pass[a].checked
                  /\ ~row[s].leased}

Claim(a) ==
  /\ At(a, {"acquire"}, "claim")
  /\ \E s \in Claimable(a) :
       /\ row' = [row EXCEPT ![s].leased = TRUE]
       /\ pass' = [pass EXCEPT ![a] =
                     [@ EXCEPT !.at = "import", !.job = RowJob(s), !.todo = {RowJob(s)}]]
  /\ UNCHANGED <<library, history>>

\* Nothing to claim: the worker reports and ends.
Drained(a) ==
  /\ At(a, {"acquire"}, "claim") /\ Claimable(a) = {}
  /\ pass' = [pass EXCEPT ![a] = Closed]
  /\ UNCHANGED <<library, row, history>>

Ends(a, status) ==
  pass' = [pass EXCEPT ![a] =
             [@ EXCEPT !.at = "end", !.todo = {},
                       !.out = [status |-> status, doc |-> None, how |-> "none"]]]

\* An attempt fails: another one, or the row is blocked; restricted access
\* ends it at once.
AttemptFails(a) ==
  /\ At(a, {"acquire"}, "import")
  /\ \/ /\ pass[a].tries + 1 < MaxAttempts
        /\ pass' = [pass EXCEPT ![a].tries = @ + 1]
     \/ pass[a].tries + 1 = MaxAttempts /\ Ends(a, "blocked")
     \/ Ends(a, "metadata_only")
  /\ UNCHANGED <<library, row, history>>

\* Versions whose import process a leaves without their bytes.
Abandoned(a) ==
  IF pass[a].at \in {"raw", "insert", "keep"} THEN {<<pass[a].job.src, pass[a].ver>>} ELSE {}

\* Any other error in the hand of a worker blocks the row.
Unexpected(a) == pass[a].at \in {"import", "raw", "insert", "keep", "log"}

WorkerError(a) ==
  /\ pass[a].kind = "acquire" /\ Unexpected(a)
  /\ cut' = cut \cup Abandoned(a)
  /\ Ends(a, "blocked")
  /\ UNCHANGED <<versions, artifacts, listed, succeeded, row, overlapped, refetched>>

\* Process a writes rows, and last_checked_at with them, and goes on.
Writes(a, new) ==
  /\ row' = [s \in Source |-> IF s \in DOMAIN new THEN new[s] ELSE row[s]]
  /\ pass' = [b \in Actor |->
                LET p == IF b = a THEN Onward(pass[a]) ELSE pass[b] IN
                IF p.mode = "blocked" THEN [p EXCEPT !.checked = @ \cup DOMAIN new] ELSE p]
  /\ UNCHANGED <<library, history>>

\* A row with its outcome.
Disposal(r, out) ==
  [r EXCEPT !.status = out.status, !.doc = out.doc, !.how = out.how]

\* TERMINATE_SQL names the row by its id alone.
Terminate(a) ==
  /\ At(a, {"acquire"}, "end")
  /\ Writes(a, [s \in {pass[a].job.row} |->
                 [Disposal(row[s], pass[a].out) EXCEPT !.leased = FALSE]])

-----------------------------------------------------------------------------
(* Texts from the search index and from transcriptions                      *)

\* Rows that were blocked for their text, or the one an operator names.
StartText(a) ==
  \E chosen \in (SUBSET Source) \ {{}} :
    /\ Cardinality(chosen) = 1 \/ \A s \in chosen : row[s].status = "blocked"
    /\ Opens(a, Begun("text", "plain", "import", {RowJob(s) : s \in chosen}))

TextImport(a) ==
  /\ At(a, {"text"}, "import")
  /\ \E j \in pass[a].todo : \E t \in Supplied[j.row] :
       /\ ImportStep(a, j, t, "supplied", 0, None, "end",
                     [status |-> "acquired", doc |-> j.src, how |-> "text"])
       /\ UNCHANGED <<succeeded, refetched>>

\* No text, too short a text, or an import that fails.
TextSkips(a) ==
  /\ At(a, {"text"}, "import")
  /\ \E j \in pass[a].todo : pass' = [pass EXCEPT ![a] = Past(a, j)]
  /\ UNCHANGED <<library, row, history>>

\* The update leaves a lease as it is.
TextWrite(a) ==
  /\ At(a, {"text"}, "end")
  /\ Writes(a, [s \in {pass[a].job.row} |-> Disposal(row[s], pass[a].out)])

-----------------------------------------------------------------------------
(* wp4_triage_pending.py, wp4_reconcile_aliases.py: rows are read, decided   *)
(* on, and written if their status still is one that was read.              *)

Decision(s, status, doc) == [row |-> s, status |-> status, doc |-> doc]

TriageDecisions ==
  {Decision(s, "out_of_scope", None) :
     s \in {u \in Disposed : row[u].status \in {"pending", "blocked"}}} \cup
  {Decision(s, "blocked", None) :
     s \in {u \in Source \ Disposed :
              row[u].status \in {"pending", "blocked"} /\ row[u].url = None}}

\* Mutated form: a row counts as covered by any source that was imported.
AnyCovering(s) == {t \in Source : <<s, t>> \in Aliases /\ versions[t] # <<>>}

\* Chunks of the versions of t.
ChunksOf(t) ==
  MapThenSumSet(LAMBDA i : IF versions[t][i].digest \in Text
                           THEN Chunks[versions[t][i].digest] ELSE 0,
                DOMAIN versions[t])

\* Acquired rows whose document is source t.
Backing(t) == {u \in Source : row[u].status = "acquired" /\ row[u].doc = t}

\* Sources that a row of their name's variant may be resolved to: they back an
\* acquired row, and have MIN_CHUNKS chunks or more.  The join counts a chunk
\* once for each row that the source backs.
Covering(s) ==
  {t \in Source :
     /\ <<s, t>> \in Aliases
     /\ Backing(t) # {}
     /\ ChunksOf(t) * Cardinality(Backing(t)) >= MinChunks}

ReconcileDecisions ==
  LET blocked == {u \in Source : row[u].status = "blocked"}
      Documents(s) == IF Covering(s) = {} THEN {None} ELSE Covering(s) IN
  (UNION {{Decision(s, "out_of_scope", t) : t \in Documents(s)} : s \in blocked \cap Disposed}) \cup
  (UNION {{Decision(s, "acquired", t) : t \in Covering(s)} : s \in blocked \ Disposed})

StartTriage(a) ==
  TriageDecisions # {} /\ Opens(a, Begun("triage", "plain", "end", TriageDecisions))
StartReconcile(a) ==
  ReconcileDecisions # {} /\ Opens(a, Begun("reconcile", "plain", "end", ReconcileDecisions))

Applies(a, d) ==
  row[d.row].status \in IF pass[a].kind = "triage" THEN {"pending", "blocked"} ELSE {"blocked"}

\* A row as decided: a source that covers it gives it its URL.
Decided(r, d) ==
  [r EXCEPT !.status = d.status, !.leased = FALSE,
            !.doc = IF d.doc = None THEN @ ELSE d.doc,
            !.url = IF d.doc = None THEN @ ELSE d.doc,
            !.how = IF d.doc = None THEN @ ELSE "alias"]

\* All decisions in one transaction.
Apply(a) ==
  /\ At(a, {"triage", "reconcile"}, "end")
  /\ LET done == {d \in pass[a].todo : Applies(a, d)} IN
     Writes(a, [s \in {d.row : d \in done} |->
                  Decided(row[s], CHOOSE d \in done : d.row = s)])

-----------------------------------------------------------------------------
(* Stops, time, and operators                                               *)

\* A process stops anywhere.
CutOff(a) ==
  /\ IsOpen(a)
  /\ cut' = cut \cup Abandoned(a)
  /\ pass' = [pass EXCEPT ![a] = Closed]
  /\ UNCHANGED <<versions, artifacts, listed, succeeded, row, overlapped, refetched>>

\* A repair whose bytes cannot be written logs a failure and goes on.
RepairBreaks(a) ==
  /\ At(a, {"repair"}, "raw")
  /\ cut' = cut \cup Abandoned(a)
  /\ Logs(pass[a].job.src, FALSE)
  /\ pass' = [pass EXCEPT ![a] = Onward(pass[a])]
  /\ UNCHANGED <<versions, artifacts, listed, row, overlapped, refetched>>

\* Thirty minutes pass, whether or not the worker is still at the row.
LeaseExpires(s) ==
  /\ row[s].leased
  /\ row' = [row EXCEPT ![s].leased = FALSE]
  /\ UNCHANGED <<library, pass, history>>

\* resolve_manifest_urls.py finds the row's instrument in the official index.
ResolveUrl(s) ==
  /\ row[s].url = None /\ row[s].status \in {"pending", "blocked"}
  /\ row' = [row EXCEPT ![s].url = s, ![s].status = "pending"]
  /\ UNCHANGED <<library, pass, history>>

-----------------------------------------------------------------------------
FetchStep(a) == FetchImport(a) \/ FetchFails(a)
RepairStep(a) == RepairImport(a) \/ RepairSkips(a) \/ RepairUnsupported(a) \/ RepairBreaks(a)
KeepStep(a) == RawRead(a) \/ RawWrite(a) \/ LogImport(a)
WorkerStep(a) == Claim(a) \/ Drained(a) \/ AttemptFails(a) \/ WorkerError(a) \/ Terminate(a)
ScriptStep(a) == TextImport(a) \/ TextSkips(a) \/ TextWrite(a) \/ Apply(a)
Starts(a) ==
  \/ StartFetch(a) \/ StartRepair(a) \/ StartDiscover(a) \/ StartSeed(a)
  \/ StartWorker(a) \/ StartText(a) \/ StartTriage(a) \/ StartReconcile(a)

Next ==
  \/ \E a \in Actor :
       \/ Starts(a) \/ FetchStep(a) \/ RepairStep(a) \/ KeepStep(a) \/ WorkerStep(a)
       \/ DiscoverCheck(a) \/ AnchorImport(a) \/ ScriptStep(a) \/ CutOff(a)
  \/ \E s \in Source : LeaseExpires(s) \/ ResolveUrl(s)

\* A worker that is at work goes on: its calls return, or raise.
Fairness ==
  \A a \in Actor :
    WF_vars(pass[a].kind = "acquire" /\ (FetchImport(a) \/ KeepStep(a) \/ WorkerStep(a)))

Spec == Init /\ [][Next]_vars /\ Fairness

-----------------------------------------------------------------------------
(* Properties                                                               *)

\* Texts that a copy's bytes yield.
Yields(r) ==
  RepairTexts[r.bytes] \cup
  {x.text : x \in {y \in Answers : y.copy.bytes = r.bytes /\ y.text # None}}

\* What a version says can be traced to bytes that were kept: every raw
\* artifact yields its version's text, and a version that was parsed from bytes
\* has an artifact unless the process that imported it stopped, or is still
\* about to record it.
RawKept ==
  /\ \A x \in artifacts : versions[x.src][x.ver].digest \in Yields(x.raw)
  /\ \A s \in Source : \A i \in DOMAIN versions[s] :
       versions[s][i].made \in {"fetched", "repaired", "reparsed"} =>
         \/ RawsOf(s, i) # {}
         \/ <<s, i>> \in cut
         \/ \E a \in Actor : <<s, i>> \in Abandoned(a)

\* One process at a time records a source once: an unforced fetch imports for
\* no source that has a text, no version has two artifacts of the same bytes in
\* one form, and each artifact is named by its version's manifest.  Two at once
\* may break each of these, but a repair adds a later and longer text whatever
\* runs beside it.
RecordedOnce ==
  /\ ~overlapped =>
       /\ ~refetched
       /\ \A x, y \in artifacts :
            (x.src = y.src /\ x.ver = y.ver /\ x.raw = y.raw) => x = y
       /\ artifacts = listed
  /\ \A s \in Source : \A i \in DOMAIN versions[s] :
       LET v == versions[s][i] IN
       v.made = "repaired" =>
         v.from < i /\ Length[v.digest] > Length[versions[s][v.from].digest]

\* An acquired row has a document with a text of its own, and a row that a
\* worker acquired one with a text that is no landing page and whose bytes are
\* kept.
AcquiredIsBacked ==
  \A s \in Source :
    row[s].status = "acquired" =>
      /\ row[s].doc # None
      /\ \E i \in DOMAIN versions[row[s].doc] :
           /\ versions[row[s].doc][i].digest \in Text
           /\ row[s].how = "fetched" =>
                /\ Chunks[versions[row[s].doc][i].digest] >= MinChunks
                /\ RawsOf(row[s].doc, i) # {}

\* Every worker comes to an end: a row it finished is not claimed again in its
\* run, even by a worker that retries blocked rows, and an unexpected error
\* does not stall it.
WorkersFinish ==
  \A a \in Actor : pass[a].kind = "acquire" ~> pass[a].kind # "acquire"
=============================================================================
