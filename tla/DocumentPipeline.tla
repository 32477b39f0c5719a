-------------------------- MODULE DocumentPipeline --------------------------
(***************************************************************************)
(* Project documents: the upload request, the parse job and its fallback   *)
(* inside the request, the facts a parse extracts, and the edits and       *)
(* promotions of those facts by users.                                     *)
(*                                                                         *)
(* Transactions run at READ COMMITTED.  A parse locks its document's row   *)
(* with its first UPDATE and the rows it deletes; "parsing" is flushed and *)
(* never committed.  The ORM updates the columns whose values changed, and *)
(* an UPDATE that meets no row is an error.                                *)
(***************************************************************************)
EXTENDS Naturals, Sequences

CONSTANTS
  Doc,            \* uploads
  Measure,        \* measurements a drawing may state
  Dimension,      \* those of kind drawing_dimension: need a calibration
  Unfit,          \* those whose unit or confidence forbids promotion
  Content,        \* file contents, told apart by the measures they state
  User,           \* concurrent requests that edit facts
  Decision,       \* review statuses the users choose from
  MaxPromotions   \* bound: promotions made

ASSUME MeasureAssumption == Dimension \subseteq Measure /\ Unfit \subseteq Measure
ASSUME ContentAssumption == Content \subseteq SUBSET Measure
ASSUME DecisionAssumption ==
  /\ Decision \subseteq {"pending_review", "confirmed", "rejected"}
  /\ "confirmed" \in Decision
ASSUME PromotionsAssumption == MaxPromotions \in Nat

VARIABLES
  file,        \* the storage tree: what is at the path of each content
  doc,         \* documents: [Doc -> DocRow or NoDoc], committed
  upload,      \* how far each upload request has come
  job,         \* the parse job of each document
  parse,       \* the parse transactions, two for each document at most
  facts,       \* document_facts: [Fact -> FactRow or NoFact], committed
  properties,  \* property_facts made by promotions, oldest first
  edit         \* the request each user has open

vars == <<file, doc, upload, job, parse, facts, properties, edit>>

\* A document is parsed by its job or by the request that uploaded it; each
\* parse gives its facts fresh ids.
Run == {"worker", "fallback"}
Fact == [doc: Doc, run: Run, measure: Measure]
FactsOf(d) == {f \in Fact : f.doc = d}

Settled == {"parsed", "needs_more_info", "parse_failed"}
DocRow == [status: Settled \cup {"parse_pending"}, content: Content,
           run: Run \cup {"none"}]
NoDoc == [status |-> "absent", content |-> {}, run |-> "none"]

\* What the table's constraint on review_status admits.
Review == {"pending_review", "confirmed"}

\* The calibration reference of a fact: a request may send one of blanks only,
\* which is long enough to be accepted and is stored as no text at all.
Calibration == {"given", "blank"}
FactRow == [status: Review, promoted: BOOLEAN,
            calibration: Calibration \cup {"none"}]
NoFact == [status |-> "none", promoted |-> FALSE, calibration |-> "none"]
ExtractedFact == [status |-> "pending_review", promoted |-> FALSE,
                  calibration |-> "none"]
Live(d) == {f \in FactsOf(d) : facts[f] # NoFact}

NoParse == [stage |-> "idle", doomed |-> {}]
ParseTxn == [stage: {"locked", "cleared"}, doomed: SUBSET Fact]

Keep == "keep"   \* a field the request does not send
Change == [status: Decision \cup {Keep}, calibration: Calibration \cup {Keep},
           promote: BOOLEAN]
NoEdit == [stage |-> "idle"]
EditTxn == [stage: {"loaded"}, fact: Fact, seen: FactRow, change: Change]

Property == [fact: Fact, calibrated: BOOLEAN]

TypeOK ==
  /\ file \in [Content -> {"absent", "torn", "whole"}]
  /\ doc \in [Doc -> DocRow \cup {NoDoc}]
  /\ upload \in [Doc -> {"none", "committed", "fallback", "answered",
                         "refused", "cut"}]
  /\ job \in [Doc -> {"none", "todo", "doing", "done", "failed"}]
  /\ parse \in [Doc -> [Run -> ParseTxn \cup {NoParse}]]
  /\ facts \in [Fact -> FactRow \cup {NoFact}]
  /\ properties \in Seq(Property) /\ Len(properties) <= MaxPromotions
  /\ edit \in [User -> EditTxn \cup {NoEdit}]

Init ==
  /\ file = [c \in Content |-> "absent"]
  /\ doc = [d \in Doc |-> NoDoc]
  /\ upload = [d \in Doc |-> "none"]
  /\ job = [d \in Doc |-> "none"]
  /\ parse = [d \in Doc |-> [r \in Run |-> NoParse]]
  /\ facts = [f \in Fact |-> NoFact]
  /\ properties = <<>>
  /\ edit = [u \in User |-> NoEdit]

-----------------------------------------------------------------------------
(* upload_document                                                         *)

\* _store_content: a path that exists is not written again.
Stored(c) == IF file[c] = "absent" THEN "whole" ELSE file[c]

\* The write fails or the process stops in the middle of it; the upload ends
\* without a row, and the client may try again.
StoreTorn(d, c) ==
  /\ upload[d] = "none"
  /\ file[c] = "absent"
  /\ file' = [file EXCEPT ![c] = "torn"]
  /\ UNCHANGED <<doc, upload, job, parse, facts, properties, edit>>

\* Store the file, insert the document, commit.
Upload(d, c) ==
  /\ upload[d] = "none"
  /\ file' = [file EXCEPT ![c] = Stored(c)]
  /\ doc' = [doc EXCEPT ![d] = [status |-> "parse_pending", content |-> c,
                                run |-> "none"]]
  /\ upload' = [upload EXCEPT ![d] = "committed"]
  /\ UNCHANGED <<job, parse, facts, properties, edit>>

\* enqueue_document_parse: the queue takes the job, refuses it, or takes it
\* and then raises, in which case both parse the document.
Enqueue(d) ==
  /\ upload[d] = "committed"
  /\ \/ upload' = [upload EXCEPT ![d] = "answered"] /\ job' = [job EXCEPT ![d] = "todo"]
     \/ upload' = [upload EXCEPT ![d] = "fallback"] /\ job' = job
     \/ upload' = [upload EXCEPT ![d] = "fallback"] /\ job' = [job EXCEPT ![d] = "todo"]
  /\ UNCHANGED <<file, doc, parse, facts, properties, edit>>

\* The API process stops before the request is answered.
RequestCut(d) ==
  /\ upload[d] \in {"committed", "fallback"}
  /\ upload' = [upload EXCEPT ![d] = "cut"]
  /\ parse' = [parse EXCEPT ![d]["fallback"] = NoParse]
  /\ UNCHANGED <<file, doc, job, facts, properties, edit>>

-----------------------------------------------------------------------------
(* parse_document_for_session                                              *)

\* The document's row is locked by an open parse.
Locked(d) == \E r \in Run : parse[d][r].stage # "idle"

\* Mutated form: no fallback when the queue refuses the job.
WaitingForWorker(d, r) == r = "worker" /\ job[d] = "todo"

Waiting(d, r) ==
  IF r = "worker" THEN job[d] = "todo" ELSE upload[d] = "fallback"

ParseStart(d, r) ==
  /\ parse[d][r].stage = "idle"
  /\ Waiting(d, r)
  /\ ~Locked(d)
  /\ parse' = [parse EXCEPT ![d][r] = [stage |-> "locked", doomed |-> {}]]
  /\ job' = IF r = "worker" THEN [job EXCEPT ![d] = "doing"] ELSE job
  /\ UNCHANGED <<file, doc, upload, facts, properties, edit>>

\* Mutated form: confirmed facts are kept.
ParseClearUnconfirmed(d, r) ==
  /\ parse[d][r].stage = "locked"
  /\ parse' = [parse EXCEPT ![d][r] =
                [stage |-> "cleared",
                 doomed |-> {f \in Live(d) : facts[f].status # "confirmed"}]]
  /\ UNCHANGED <<file, doc, upload, job, facts, properties, edit>>

\* The content was read and parsed; delete what earlier parses extracted.
ParseClear(d, r) ==
  /\ parse[d][r].stage = "locked"
  /\ parse' = [parse EXCEPT ![d][r] = [stage |-> "cleared", doomed |-> Live(d)]]
  /\ UNCHANGED <<file, doc, upload, job, facts, properties, edit>>

\* A torn file states some of its content.
Readable(c) == IF file[c] = "whole" THEN {c} ELSE SUBSET c

\* A document without a page and without a fact needs more information.
Outcome(ms) == IF ms = {} THEN {"parsed", "needs_more_info"} ELSE {"parsed"}

\* The transaction's end, for the job or for the request it runs in.
Ends(d, r, asJob, asRequest) ==
  /\ parse' = [parse EXCEPT ![d][r] = NoParse]
  /\ job' = IF r = "worker" THEN [job EXCEPT ![d] = asJob] ELSE job
  /\ upload' = IF r = "fallback" THEN [upload EXCEPT ![d] = asRequest] ELSE upload

ParseCommit(d, r) ==
  /\ parse[d][r].stage = "cleared"
  /\ \E ms \in Readable(doc[d].content) :
       /\ facts' = [f \in Fact |->
                      IF f \in parse[d][r].doomed THEN NoFact
                      ELSE IF f.doc = d /\ f.run = r /\ f.measure \in ms
                        THEN ExtractedFact
                      ELSE facts[f]]
       /\ \E status \in Outcome(ms) :
            doc' = [doc EXCEPT ![d] = [status |-> status, content |-> @.content,
                                       run |-> r]]
  /\ Ends(d, r, "done", "answered")
  /\ UNCHANGED <<file, properties, edit>>

\* The parser refuses the content, or the file cannot be read: in the job
\* that is a result, and it is committed.
ParseFails(d) ==
  /\ parse[d]["worker"].stage = "locked"
  /\ doc' = [doc EXCEPT ![d] = [status |-> "parse_failed", content |-> @.content,
                                run |-> @.run]]
  /\ Ends(d, "worker", "done", "refused")
  /\ UNCHANGED <<file, facts, properties, edit>>

\* Any other error or a stop of the worker, and in the request a refusal too:
\* rolled back.
ParseRaises(d, r) ==
  /\ parse[d][r].stage # "idle"
  /\ Ends(d, r, "failed", "refused")
  /\ UNCHANGED <<file, doc, facts, properties, edit>>

-----------------------------------------------------------------------------
(* update_document_fact and promote_document_fact                          *)

Doomed == UNION {parse[d][r].doomed : d \in Doc, r \in Run}

Promotable(f) ==
  /\ f.measure \notin Unfit
  /\ f.measure \in Dimension => facts[f].calibration = "given"

\* The status and flag a promotion assigns.
Promotion == [status |-> "confirmed", calibration |-> Keep, promote |-> TRUE]

\* A PATCH sends any of its fields; a calibration only of a dimension.
Accepted(f, change) ==
  IF change.promote THEN change = Promotion /\ Promotable(f)
  ELSE change.calibration # Keep => f.measure \in Dimension

EditLoad(u, f, change) ==
  /\ edit[u] = NoEdit
  /\ facts[f] # NoFact
  /\ Accepted(f, change)
  /\ edit' = [edit EXCEPT ![u] = [stage |-> "loaded", fact |-> f,
                                  seen |-> facts[f], change |-> change]]
  /\ UNCHANGED <<file, doc, upload, job, parse, facts, properties>>

Assigned(loaded, assigned) == IF assigned = Keep THEN loaded ELSE assigned

\* A column is written when its value changed.
Written(stored, loaded, assigned) == IF assigned = loaded THEN stored ELSE assigned

\* Mutated form: a fact that was confirmed already is not flagged.
WantedUnlessConfirmed(e) ==
  [status |-> Assigned(e.seen.status, e.change.status),
   promoted |-> \/ e.seen.promoted
                \/ e.change.promote /\ e.seen.status # "confirmed",
   calibration |-> Assigned(e.seen.calibration, e.change.calibration)]

\* The row the request wants, from the row it loaded.
Wanted(e) ==
  [status |-> Assigned(e.seen.status, e.change.status),
   promoted |-> e.seen.promoted \/ e.change.promote,
   calibration |-> Assigned(e.seen.calibration, e.change.calibration)]

\* Recording a calibration again still changes its time.  (A PATCH of the
\* numeric value alone, which no property tells from one of the status, is
\* left out.)
Writes(e) == Wanted(e) # e.seen \/ e.change.calibration # Keep

\* Mutated form: every column is written, as it was loaded or assigned.
EditedWholeRow(e) == Wanted(e)

Edited(e) ==
  [status |-> Written(facts[e.fact].status, e.seen.status, Wanted(e).status),
   promoted |-> Written(facts[e.fact].promoted, e.seen.promoted, Wanted(e).promoted),
   calibration |-> Assigned(facts[e.fact].calibration, e.change.calibration)]

\* The constraint ck_document_facts_review_status.
Storable(e) == Wanted(e).status \in Review

\* An UPDATE waits for the parse that has deleted its row, and fails when the
\* row is gone or the constraint refuses it; a request that changes nothing
\* sends none.
EditCommit(u) ==
  LET e == edit[u] IN
  /\ e.stage = "loaded"
  /\ Writes(e) => /\ e.fact \notin Doomed
                  /\ facts[e.fact] # NoFact
                  /\ Storable(e)
  /\ facts' = IF Writes(e) THEN [facts EXCEPT ![e.fact] = Edited(e)] ELSE facts
  /\ IF e.change.promote
     THEN /\ Len(properties) < MaxPromotions
          /\ properties' = Append(properties,
                             [fact |-> e.fact,
                              calibrated |-> e.seen.calibration = "given"])
     ELSE properties' = properties
  /\ edit' = [edit EXCEPT ![u] = NoEdit]
  /\ UNCHANGED <<file, doc, upload, job, parse>>

EditAbort(u) ==
  /\ edit[u].stage = "loaded"
  /\ edit' = [edit EXCEPT ![u] = NoEdit]
  /\ UNCHANGED <<file, doc, upload, job, parse, facts, properties>>

-----------------------------------------------------------------------------
Request(d) == (\E c \in Content : StoreTorn(d, c) \/ Upload(d, c)) \/ RequestCut(d)

Parse(d, r) ==
  \/ ParseStart(d, r)
  \/ ParseClear(d, r)
  \/ ParseCommit(d, r)
  \/ r = "worker" /\ ParseFails(d)

Edit(u) ==
  \/ \E f \in Fact, change \in Change : EditLoad(u, f, change)
  \/ EditCommit(u)
  \/ EditAbort(u)

Next ==
  \/ \E d \in Doc : Request(d) \/ Enqueue(d)
  \/ \E d \in Doc, r \in Run : Parse(d, r) \/ ParseRaises(d, r)
  \/ \E u \in User : Edit(u)

\* The request goes on once its document is committed, and the worker takes
\* the jobs of the queue; errors, stops and users may never come.
Fairness ==
  \A d \in Doc : /\ WF_vars(Enqueue(d))
                 /\ \A r \in Run : WF_vars(Parse(d, r))

Spec == Init /\ [][Next]_vars /\ Fairness

-----------------------------------------------------------------------------
\* The facts of a document are those of one parse, the last to commit, also
\* when the job and the request that feared for it both parse the document;
\* and of a whole file they are all of them.
FactsOfOneParse ==
  \A d \in Doc :
    /\ \A f \in Live(d) : f.run = doc[d].run
    /\ doc[d].status = "parsed" /\ file[doc[d].content] = "whole" =>
         {f.measure : f \in Live(d)} = doc[d].content

\* A fact is flagged as promoted when a measurement was made of it, however
\* edits of it interleave.
PromotedFlagAgrees ==
  \A d \in Doc : \A f \in Live(d) :
    facts[f].promoted <=> \E i \in 1 .. Len(properties) : properties[i].fact = f

\* A drawing dimension that became a measurement carries a calibration
\* reference ("no raster measurement without calibration"), and while its fact
\* is there the reference is still in it, unless a later request has recorded
\* another: no request that loaded the fact earlier takes it out again.
CalibrationStands ==
  \A i \in 1 .. Len(properties) :
    LET f == properties[i].fact IN
    f.measure \in Dimension =>
      /\ properties[i].calibrated
      /\ facts[f] # NoFact => facts[f].calibration # "none"

\* Every uploaded document comes to a result, unless its request was cut off
\* or its parse raised an error.
UploadSettles ==
  \A d \in Doc :
    upload[d] = "committed" ~>
      \/ doc[d].status \in Settled
      \/ upload[d] \in {"refused", "cut"}
      \/ job[d] = "failed"
=============================================================================
