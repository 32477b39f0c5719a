--------------------------- MODULE RuleLifecycle ---------------------------
(***************************************************************************)
(* One clause's extraction group on its way to rules: the candidates,      *)
(* their validation, the eval gate, promotion by the gate or by agreement  *)
(* of the passes, the operators' reviews, and the import of seeded rules.  *)
(*                                                                         *)
(* Each function of the pipeline is one transaction at READ COMMITTED, run *)
(* one at a time (nothing in the code calls two at once); operators        *)
(* review candidates and rules at any moment.  A transaction is a load and *)
(* a commit, and the ORM updates the columns whose values changed.         *)
(***************************************************************************)
EXTENDS Naturals, Sequences

CONSTANTS
  Content,     \* what a pass may extract: key, operator, value, unit, quote
  Key,         \* rule keys
  KeyOf,       \* the rule key of each content
  Valid,       \* contents that pass all validators
  Passing,     \* contents that score 0.8 or more in every eval case
  Answer,      \* what the model may answer to the three extraction prompts
  Extraction,  \* what the deterministic extraction may find in a clause
  Seed,        \* contents of the seeded rules
  Worked,      \* the passes that the gate and the operators work on
  Operator,    \* concurrent requests of operators
  MaxJobs,     \* bound: transactions of the pipeline
  MaxReviews   \* bound: requests of operators

NoContent == "no content"   \* the candidate of a clause not extracted yet
Pass == 1 .. 3

ASSUME ContentAssumption ==
  /\ NoContent \notin Content
  /\ KeyOf \in [Content -> Key]
  /\ Valid \subseteq Content /\ Passing \subseteq Content
ASSUME AnswerAssumption == Answer \subseteq [Pass -> Content \cup {NoContent}]

\* The extraction is a function of the clause's text; only the key of a text
\* in which it finds nothing names the pass.  Two passes of three never agree
\* alone, so that the challenge of a dissenter never comes.
ASSUME ExtractionAssumption ==
  /\ Extraction \subseteq [Pass -> Content]
  /\ \A e \in Extraction : \/ \A p, q \in Pass : e[p] = e[q]
                           \/ \A p, q \in Pass : p # q => e[p] # e[q]
ASSUME WorkedAssumption == Worked \subseteq Pass
ASSUME SeedAssumption ==
  Seed \subseteq Content /\ \A c, e \in Seed : KeyOf[c] = KeyOf[e] => c = e
ASSUME BoundAssumption == MaxJobs \in Nat /\ MaxReviews \in Nat

VARIABLES
  extraction,  \* what the deterministic extraction finds in this clause
  cases,       \* there are active eval cases for the skill
  cands,       \* rule_candidates of the group, committed
  evalRan,     \* there is an eval run of the skill version
  verdict,     \* history: what validators found since the last extraction
  rules,       \* rules of the source version, by their unique key
  audit,       \* audit_events of rules, in the order committed
  job,         \* the pipeline's open transaction
  jobs,        \* how many it has begun
  review,      \* the request each operator has open
  reviews      \* how many they have made

clauseVars == <<extraction, cases>>
jobVars == <<job, jobs>>
reviewVars == <<review, reviews>>
vars ==
  <<clauseVars, cands, evalRan, verdict, rules, audit, jobVars, reviewVars>>

\* What the tables' constraints on the status columns admit.
CandStatus == {"pending_extraction", "pending_review", "validators_passed",
               "validator_failed", "eval_failed", "auto_promoted", "rejected"}
Results == {"none", "passed", "failed"}
Cand ==
  [status: CandStatus, content: Content \cup {NoContent}, results: Results]
NoCand == [status |-> "absent", content |-> NoContent, results |-> "none"]

RuleStatus == {"pending_review", "auto_accepted", "approved", "rejected"}
Path == {"gate", "group", "harvest"}
Rule == [status: RuleStatus, content: Content, path: Path, cand: Pass \cup {0}]
NoRule ==
  [status |-> "absent", content |-> NoContent, path |-> "none", cand |-> 0]

NoJob == [kind |-> "idle"]
SingleKind == {"validate", "evaluate", "promote"}
SingleJob == [kind: SingleKind, pass: Pass, seen: Cand]
GroupJob == [kind: {"group"}, seen: [Pass -> Cand]]

Candidates == [kind: {"candidate"}, id: Pass]
Rules == [kind: {"rule"}, id: Key]
NoReview == [stage |-> "idle"]
CandReview == [stage: {"loaded"}, subject: Candidates, seen: CandStatus,
               wanted: {"pending_review", "rejected"}]
RuleReview == [stage: {"loaded"}, subject: Rules, seen: RuleStatus,
               wanted: {"approved", "rejected"}]

Event == [rule: Key, before: RuleStatus, after: RuleStatus]

TypeOK ==
  /\ extraction \in Extraction
  /\ cases \in BOOLEAN
  /\ cands \in [Pass -> Cand \cup {NoCand}]
  /\ evalRan \in BOOLEAN
  /\ verdict \in [Pass -> Results]
  /\ rules \in [Key -> Rule \cup {NoRule}]
  /\ audit \in Seq(Event)
  /\ job \in SingleJob \cup GroupJob \cup {NoJob}
  /\ jobs \in 0 .. MaxJobs
  /\ reviews \in 0 .. MaxReviews
  /\ review \in [Operator -> CandReview \cup RuleReview \cup {NoReview}]

Init ==
  /\ extraction \in Extraction
  /\ cases \in BOOLEAN
  /\ cands = [p \in Pass |-> NoCand]
  /\ evalRan = FALSE
  /\ verdict = [p \in Pass |-> "none"]
  /\ rules = [k \in Key |-> NoRule]
  /\ audit = <<>>
  /\ job = NoJob
  /\ jobs = 0
  /\ review = [o \in Operator |-> NoReview]
  /\ reviews = 0

-----------------------------------------------------------------------------
(* enqueue_extraction_group                                                *)

\* The model's answer is parsed into the candidate; no answer, or one that is
\* no JSON object, leaves it to be extracted.
Enqueued(c) ==
  [status |-> IF c = NoContent THEN "pending_extraction" ELSE "extracted",
   content |-> c, results |-> "none"]

\* Mutated form: a table without the constraint on review_status.
StorableAlways(answer) == TRUE

\* The constraint ck_rule_candidates_review_status: it does not know the status
\* "extracted", so that a group with an answer is refused as a whole.
Storable(answer) == \A p \in Pass : Enqueued(answer[p]).status \in CandStatus

Enqueue(answer) ==
  /\ job = NoJob
  /\ cands = [p \in Pass |-> NoCand]
  /\ Storable(answer)
  /\ cands' = [p \in Pass |-> Enqueued(answer[p])]
  /\ UNCHANGED <<clauseVars, evalRan, verdict, rules, audit, jobVars,
                 reviewVars>>

-----------------------------------------------------------------------------
(* The gate: run_validators, eval_gate_pass, auto_promote                  *)

\* _check_eval_gate_was_run: some run of the skill version will do.
EvalGateWasRun == evalRan \/ ~cases

\* Mutated form: the results alone decide; a candidate without any has no
\* failed one.
PromotableUnlessFailed(c) ==
  c.content # NoContent /\ c.results # "failed" /\ EvalGateWasRun

Promotable(c) ==
  /\ c.status = "validators_passed"
  /\ c.results # "failed"
  /\ EvalGateWasRun

JobLoad(kind, p) ==
  /\ job = NoJob
  /\ jobs < MaxJobs
  /\ jobs' = jobs + 1
  /\ cands[p] # NoCand
  /\ kind = "promote" => Promotable(cands[p])
  /\ job' = [kind |-> kind, pass |-> p, seen |-> cands[p]]
  /\ UNCHANGED <<clauseVars, cands, evalRan, verdict, rules, audit,
                 reviewVars>>

\* A column is written when its value changed.
Written(stored, loaded, assigned) ==
  IF assigned = loaded THEN stored ELSE assigned

\* The candidate's row after its status was assigned.
Marked(p, seen, assigned) ==
  [status |-> Written(cands[p].status, seen, assigned),
   content |-> cands[p].content, results |-> cands[p].results]

Validated(p, seen) ==
  [status |-> Written(cands[p].status, seen.status, "validators_passed"),
   content |-> cands[p].content, results |-> "passed"]

ValidateCommit ==
  /\ job.kind = "validate"
  /\ job.seen.content \in Valid
  /\ cands' = [cands EXCEPT ![job.pass] = Validated(job.pass, job.seen)]
  /\ verdict' = [verdict EXCEPT ![job.pass] = "passed"]
  /\ job' = NoJob
  /\ UNCHANGED <<clauseVars, evalRan, rules, audit, jobs, reviewVars>>

\* A failure needs a ReviewItem, and that an org; candidates are enqueued
\* without one, and the org made up in its place violates a foreign key.
ValidateRaises ==
  /\ job.kind = "validate"
  /\ job.seen.content \notin Valid
  /\ verdict' = [verdict EXCEPT ![job.pass] = "failed"]
  /\ job' = NoJob
  /\ UNCHANGED <<clauseVars, cands, evalRan, rules, audit, jobs, reviewVars>>

\* Without cases the gate passes and writes nothing; a failure would need a
\* ReviewItem, and is rolled back with its eval runs.
EvaluateCommit ==
  /\ job.kind = "evaluate"
  /\ cases => job.seen.content \in Passing
  /\ evalRan' = (evalRan \/ cases)
  /\ job' = NoJob
  /\ UNCHANGED <<clauseVars, cands, verdict, rules, audit, jobs, reviewVars>>

\* Mutated form: a rule that exists already is passed over, and the rest of
\* the transaction commits.
FreeOrSkipped(k) == TRUE

\* The unique constraint on (source_version_id, rule_key).
Free(k) == rules[k] = NoRule

\* The INSERT of a rule.
WithRule(k, rule) ==
  [j \in Key |-> IF j = k /\ rules[k] = NoRule THEN rule ELSE rules[j]]

PromoteCommit ==
  LET c == job.seen.content IN
  /\ job.kind = "promote"
  /\ Free(KeyOf[c])
  /\ rules' = WithRule(KeyOf[c], [status |-> "auto_accepted", content |-> c,
                                  path |-> "gate", cand |-> job.pass])
  /\ cands' = [cands EXCEPT ![job.pass] =
                Marked(job.pass, job.seen.status, "auto_promoted")]
  /\ job' = NoJob
  /\ UNCHANGED <<clauseVars, evalRan, verdict, audit, jobs, reviewVars>>

-----------------------------------------------------------------------------
(* run_extraction_group                                                    *)

GroupLoad ==
  /\ job = NoJob
  /\ jobs < MaxJobs
  /\ jobs' = jobs + 1
  /\ \A p \in Pass : cands[p] # NoCand
  /\ job' = [kind |-> "group", seen |-> cands]
  /\ UNCHANGED <<clauseVars, cands, evalRan, verdict, rules, audit,
                 reviewVars>>

\* run_extraction_pass: new content, status "pending_review"; the validators'
\* results stay.
Reextracted(p, seen) ==
  [status |-> Written(cands[p].status, seen.status, "pending_review"),
   content |-> extraction[p], results |-> cands[p].results]

\* 3/3 agree.
Agreed == \A p, q \in Pass : extraction[p] = extraction[q]

\* The passes are not unanimous, or the caller's gate_fn holds them back.
GroupCommit ==
  /\ job.kind = "group"
  /\ cands' = [p \in Pass |-> Reextracted(p, job.seen[p])]
  /\ verdict' = [p \in Pass |-> "none"]
  /\ job' = NoJob
  /\ UNCHANGED <<clauseVars, evalRan, rules, audit, jobs, reviewVars>>

\* _maybe_promote: the first pass becomes a rule, in the same transaction.
GroupPromote ==
  LET k == KeyOf[extraction[1]] IN
  /\ job.kind = "group"
  /\ Agreed
  /\ Free(k)
  /\ rules' = WithRule(k, [status |-> "pending_review", path |-> "group",
                           content |-> extraction[1], cand |-> 1])
  /\ cands' = [p \in Pass |->
                 IF p = 1
                 THEN [status |-> "auto_promoted", content |-> extraction[1],
                       results |-> cands[1].results]
                 ELSE Reextracted(p, job.seen[p])]
  /\ verdict' = [p \in Pass |-> "none"]
  /\ job' = NoJob
  /\ UNCHANGED <<clauseVars, evalRan, audit, jobs, reviewVars>>

\* A unique key is taken, an evaluation fails, the model call raises, the
\* process stops.
JobAbort ==
  /\ job # NoJob
  /\ job' = NoJob
  /\ UNCHANGED <<clauseVars, cands, evalRan, verdict, rules, audit, jobs,
                 reviewVars>>

-----------------------------------------------------------------------------
(* review_candidate_endpoint, review_rule_endpoint, approve_rule_endpoint  *)

ReviewCandidate(o, p, wanted) ==
  /\ review[o] = NoReview
  /\ reviews < MaxReviews
  /\ reviews' = reviews + 1
  /\ cands[p] # NoCand
  /\ review' = [review EXCEPT ![o] =
       [stage |-> "loaded", subject |-> [kind |-> "candidate", id |-> p],
        seen |-> cands[p].status, wanted |-> wanted]]
  /\ UNCHANGED <<clauseVars, cands, evalRan, verdict, rules, audit, jobVars>>

ReviewRule(o, k, wanted) ==
  /\ review[o] = NoReview
  /\ reviews < MaxReviews
  /\ reviews' = reviews + 1
  /\ rules[k] # NoRule
  /\ review' = [review EXCEPT ![o] =
       [stage |-> "loaded", subject |-> [kind |-> "rule", id |-> k],
        seen |-> rules[k].status, wanted |-> wanted]]
  /\ UNCHANGED <<clauseVars, cands, evalRan, verdict, rules, audit, jobVars>>

CandReviewCommit(o) ==
  LET r == review[o]
      p == r.subject.id
  IN
  /\ r # NoReview
  /\ r.subject.kind = "candidate"
  /\ cands' = [cands EXCEPT ![p] = Marked(p, r.seen, r.wanted)]
  /\ review' = [review EXCEPT ![o] = NoReview]
  /\ UNCHANGED <<clauseVars, evalRan, verdict, rules, audit, jobVars, reviews>>

\* Mutated form: only approvals leave an event.
AuditedApproval(r) == r.wanted = "approved" /\ r.seen # "approved"

\* approve_rule does nothing to a rule it finds approved, and reject_rule
\* leaves an event even for one it finds rejected.
Audited(r) == r.wanted = "rejected" \/ r.seen # "approved"

RuleReviewCommit(o) ==
  LET r == review[o]
      k == r.subject.id
  IN
  /\ r # NoReview
  /\ r.subject.kind = "rule"
  /\ rules' = [rules EXCEPT ![k].status =
                Written(rules[k].status, r.seen, r.wanted)]
  /\ audit' = IF Audited(r)
              THEN Append(audit,
                          [rule |-> k, before |-> r.seen, after |-> r.wanted])
              ELSE audit
  /\ review' = [review EXCEPT ![o] = NoReview]
  /\ UNCHANGED <<clauseVars, cands, evalRan, verdict, jobVars, reviews>>

\* A reason is missing, the role is not owner, the connection fails.
ReviewAbort(o) ==
  /\ review[o] # NoReview
  /\ review' = [review EXCEPT ![o] = NoReview]
  /\ UNCHANGED <<clauseVars, cands, evalRan, verdict, rules, audit, jobVars,
                 reviews>>

-----------------------------------------------------------------------------
(* label harvest: the seeded rules, in one transaction                     *)

\* A seeded rule has an id of its own, by which it is found again; another
\* rule of its key makes the import fail.
Harvest ==
  /\ \A c \in Seed : rules[KeyOf[c]].path \in {"none", "harvest"}
  /\ rules' = [k \in Key |->
       IF \E c \in Seed : KeyOf[c] = k
       THEN [status |-> "approved", path |-> "harvest", cand |-> 0,
             content |-> CHOOSE c \in Seed : KeyOf[c] = k]
       ELSE rules[k]]
  /\ UNCHANGED <<clauseVars, cands, evalRan, verdict, audit, jobVars,
                 reviewVars>>

-----------------------------------------------------------------------------
Pipeline ==
  \/ \E answer \in Answer : Enqueue(answer)
  \/ \E kind \in SingleKind, p \in Worked : JobLoad(kind, p)
  \/ ValidateCommit
  \/ ValidateRaises
  \/ EvaluateCommit
  \/ PromoteCommit
  \/ GroupLoad
  \/ GroupCommit
  \/ GroupPromote
  \/ JobAbort

Review(o) ==
  \/ \E p \in Worked, wanted \in {"pending_review", "rejected"} :
       ReviewCandidate(o, p, wanted)
  \/ \E k \in Key, wanted \in {"approved", "rejected"} :
       ReviewRule(o, k, wanted)
  \/ CandReviewCommit(o)
  \/ RuleReviewCommit(o)
  \/ ReviewAbort(o)

Next == Pipeline \/ Harvest \/ \E o \in Operator : Review(o)

Spec == Init /\ [][Next]_vars

-----------------------------------------------------------------------------
\* A rule the gate made carries a content that passed the validators, and one
\* made by a group what all three passes extracted, whatever was extracted
\* again, sent back or rejected between validation and promotion.
RulesVouched ==
  \A k \in Key :
    /\ rules[k].path = "gate" => rules[k].content \in Valid
    /\ rules[k].path = "group" =>
         \A p \in Pass : extraction[p] = rules[k].content

\* A candidate marked as promoted has a rule: of its key, made from it and
\* with the content it has.
PromotedHasRule ==
  \A p \in Pass :
    cands[p].status = "auto_promoted" =>
      LET rule == rules[KeyOf[cands[p].content]] IN
      rule.cand = p /\ rule.content = cands[p].content

\* The positions of the events that changed the status of a rule: rejecting
\* a rejected rule leaves an event that changes nothing.
Changes(k) ==
  {i \in 1 .. Len(audit) :
     audit[i].rule = k /\ audit[i].before # audit[i].after}

FirstStatus(k) ==
  IF rules[k].path = "gate" THEN "auto_accepted" ELSE "pending_review"

\* "Every lifecycle transition writes an AuditEvent row": a rule made from a
\* candidate has the status its last event gave it, or its first one, however
\* the reviews of it interleave.  Seeded rules are exempt: an import sets
\* them to approved again and leaves no event.
AuditExplainsRules ==
  \A k \in Key :
    rules[k].path \in {"gate", "group"} =>
      \/ Changes(k) = {} /\ rules[k].status = FirstStatus(k)
      \/ \E i \in Changes(k) : /\ \A j \in Changes(k) : j <= i
                               /\ rules[k].status = audit[i].after
=============================================================================
