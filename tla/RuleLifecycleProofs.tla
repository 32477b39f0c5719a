------------------------ MODULE RuleLifecycleProofs ------------------------
(***************************************************************************)
(* Proofs about RuleLifecycle, for any number of keys, contents, operators *)
(* and transactions.  The invariant adds to the properties what an open    *)
(* transaction or request still knows of the rows it has loaded.           *)
(***************************************************************************)
EXTENDS RuleLifecycle, TLAPS

\* A candidate that the validators passed carries a valid content, and one
\* that was promoted some content.
CandidatesSound ==
  \A p \in Pass :
    /\ cands[p].status = "validators_passed" => cands[p].content \in Valid
    /\ cands[p].status = "auto_promoted" => cands[p].content \in Content

\* Only rules made from a candidate name one.
SeededCand ==
  \A k \in Key : rules[k].path \notin {"gate", "group"} => rules[k].cand = 0

\* There are no events of a rule before it is made.
Unruled ==
  \A k \in Key : rules[k] = NoRule => \A i \in 1 .. Len(audit) : audit[i].rule # k

\* What an operator has loaded is still there.
ReviewsOpen ==
  \A o \in Operator :
    review[o] # NoReview =>
      /\ review[o].subject.kind = "rule" => rules[review[o].subject.id] # NoRule
      /\ review[o].subject.kind = "candidate" =>
           cands[review[o].subject.id] # NoCand

\* The rows of a candidate that is loaded differ from what was loaded by no
\* more than a review.
Reviewed(p, seen) ==
  /\ cands[p] # NoCand
  /\ cands[p].content = seen.content
  /\ cands[p].status \in {seen.status, "pending_review", "rejected"}

JobSees ==
  /\ job.kind \in SingleKind => Reviewed(job.pass, job.seen)
  /\ job.kind = "promote" => /\ job.seen.status = "validators_passed"
                             /\ job.seen.content \in Valid
  /\ job.kind = "group" => \A p \in Pass : Reviewed(p, job.seen[p])

IInv ==
  /\ TypeOK
  /\ CandidatesSound
  /\ SeededCand
  /\ RulesVouched
  /\ PromotedHasRule
  /\ Unruled
  /\ AuditExplainsRules
  /\ ReviewsOpen
  /\ JobSees

-----------------------------------------------------------------------------
(* Facts about the rows.                                                   *)

LEMMA Shapes ==
  /\ \A x \in Cand : /\ x.status \in CandStatus /\ x.results \in Results
                     /\ x.content \in Content \cup {NoContent}
                     /\ x # NoCand
  /\ \A x \in Rule : /\ x.status \in RuleStatus /\ x.content \in Content
                     /\ x.path \in Path /\ x.cand \in Pass \cup {0}
                     /\ x # NoRule
  /\ \A x \in SingleJob : x.kind \in SingleKind /\ x.pass \in Pass /\ x.seen \in Cand
  /\ \A x \in GroupJob : x.kind = "group" /\ x.seen \in [Pass -> Cand]
  /\ NoCand.status = "absent" /\ NoRule.status = "absent"
  /\ NoRule.path = "none" /\ NoRule.cand = 0 /\ NoJob.kind = "idle"
BY DEF Cand, NoCand, CandStatus, Rule, NoRule, RuleStatus, Path, SingleJob,
       GroupJob, SingleKind, NoJob

\* What an open transaction of a single candidate is.
LEMMA SingleOpen ==
  ASSUME IInv, job.kind \in SingleKind
  PROVE  /\ job.pass \in Pass /\ job.seen \in Cand
         /\ cands[job.pass] \in Cand
         /\ Reviewed(job.pass, job.seen)
<1>1. job \in SingleJob
  BY Shapes DEF IInv, TypeOK, SingleKind, GroupJob, NoJob
<1>2. job.pass \in Pass /\ job.seen \in Cand
  BY <1>1, Shapes
<1>3. Reviewed(job.pass, job.seen)
  BY DEF IInv, JobSees
<1>4. cands[job.pass] \in Cand
  BY <1>2, <1>3 DEF IInv, TypeOK, Reviewed
<1> QED  BY <1>2, <1>3, <1>4

LEMMA GroupOpen ==
  ASSUME IInv, job.kind = "group"
  PROVE  /\ job.seen \in [Pass -> Cand]
         /\ cands \in [Pass -> Cand]
         /\ \A p \in Pass : Reviewed(p, job.seen[p])
<1>1. job.seen \in [Pass -> Cand]
  BY Shapes DEF IInv, TypeOK, SingleKind, SingleJob, NoJob
<1>2. \A p \in Pass : Reviewed(p, job.seen[p])
  BY DEF IInv, JobSees
<1>3. cands \in [Pass -> Cand]
  BY <1>2 DEF IInv, TypeOK, Reviewed
<1> QED  BY <1>1, <1>2, <1>3

\* The candidate that an operator has open, and the rule.
LEMMA CandReviewOpen ==
  ASSUME IInv, NEW o \in Operator, review[o] # NoReview,
         review[o].subject.kind = "candidate"
  PROVE  /\ review[o].subject.id \in Pass
         /\ cands[review[o].subject.id] \in Cand
         /\ review[o].wanted \in {"pending_review", "rejected"}
<1>1. review[o] \in CandReview
  BY DEF IInv, TypeOK, RuleReview, Rules
<1> QED  BY <1>1 DEF CandReview, Candidates, IInv, ReviewsOpen, TypeOK

LEMMA RuleReviewOpen ==
  ASSUME IInv, NEW o \in Operator, review[o] # NoReview,
         review[o].subject.kind = "rule"
  PROVE  /\ review[o].subject.id \in Key
         /\ rules[review[o].subject.id] \in Rule
         /\ review[o].seen \in RuleStatus
         /\ review[o].wanted \in {"approved", "rejected"}
<1>1. review[o] \in RuleReview
  BY DEF IInv, TypeOK, CandReview, Candidates
<1> QED  BY <1>1 DEF RuleReview, Rules, IInv, ReviewsOpen, TypeOK

\* A promotion changes one rule, whose key is free.
LEMMA WithRuleValue ==
  ASSUME IInv, NEW k \in Key, Free(k), NEW rule \in Rule
  PROVE  /\ WithRule(k, rule) \in [Key -> Rule \cup {NoRule}]
         /\ WithRule(k, rule)[k] = rule
         /\ \A j \in Key : j # k => WithRule(k, rule)[j] = rules[j]
BY DEF WithRule, Free, IInv, TypeOK

\* A step that touches no rule and no event.
LEMMA SameRules ==
  ASSUME IInv, UNCHANGED <<extraction, rules, audit>>
  PROVE  /\ SeededCand' /\ RulesVouched' /\ Unruled' /\ AuditExplainsRules'
         /\ rules' \in [Key -> Rule \cup {NoRule}] /\ audit' \in Seq(Event)
<1>1. SeededCand' /\ RulesVouched' /\ Unruled'
  BY DEF IInv, SeededCand, RulesVouched, Unruled
<1>2. AuditExplainsRules'
  BY DEF IInv, AuditExplainsRules, Changes, FirstStatus
<1> QED  BY <1>1, <1>2 DEF IInv, TypeOK

\* A step that touches no candidate.
LEMMA SameCands ==
  ASSUME IInv, UNCHANGED cands
  PROVE  CandidatesSound' /\ cands' \in [Pass -> Cand \cup {NoCand}]
BY DEF IInv, CandidatesSound, TypeOK

\* A step that changes a candidate and no rule: no candidate becomes promoted.
LEMMA PromotedStays ==
  ASSUME IInv, UNCHANGED rules,
         \A p \in Pass : cands'[p] = cands[p] \/ cands'[p].status # "auto_promoted"
  PROVE  PromotedHasRule'
BY DEF IInv, PromotedHasRule

\* A made rule: what is known of the rules and events then.
LEMMA RuleMade ==
  ASSUME IInv, NEW k \in Key, Free(k), NEW rule \in Rule,
         rule.path \in {"gate", "group"},
         rule.path = "gate" => rule.content \in Valid,
         rule.path = "group" => \A p \in Pass : extraction[p] = rule.content,
         rule.status = IF rule.path = "gate" THEN "auto_accepted" ELSE "pending_review",
         rules' = WithRule(k, rule), UNCHANGED <<extraction, audit>>
  PROVE  /\ SeededCand' /\ RulesVouched' /\ Unruled' /\ AuditExplainsRules'
         /\ rules' \in [Key -> Rule \cup {NoRule}]
         /\ rules'[k] = rule
         /\ \A j \in Key : j # k => rules'[j] = rules[j]
<1>1. /\ rules' \in [Key -> Rule \cup {NoRule}]
      /\ rules'[k] = rule
      /\ \A j \in Key : j # k => rules'[j] = rules[j]
  BY WithRuleValue
<1>2. SeededCand'
  BY <1>1 DEF IInv, SeededCand
<1>3. RulesVouched'
  BY <1>1 DEF IInv, RulesVouched
<1>4. Unruled'
  BY <1>1, Shapes DEF IInv, Unruled
<1>5. AuditExplainsRules'
  <2> SUFFICES ASSUME NEW j \in Key, rules'[j].path \in {"gate", "group"}
               PROVE  \/ Changes(j)' = {} /\ rules'[j].status = FirstStatus(j)'
                      \/ \E i \in Changes(j)' : /\ \A n \in Changes(j)' : n <= i
                                                /\ rules'[j].status = audit'[i].after
    BY DEF AuditExplainsRules
  <2>1. Changes(j)' = Changes(j)
    BY DEF Changes
  <2>2. CASE j = k
    <3>1. Changes(k) = {}
      BY DEF IInv, Unruled, Free, Changes
    <3> QED  BY <1>1, <2>1, <2>2, <3>1 DEF FirstStatus
  <2>3. CASE j # k
    <3>1. rules'[j] = rules[j] /\ FirstStatus(j)' = FirstStatus(j)
      BY <1>1, <2>3 DEF FirstStatus
    <3> QED  BY <2>1, <3>1 DEF IInv, AuditExplainsRules
  <2> QED  BY <2>2, <2>3
<1> QED  BY <1>1, <1>2, <1>3, <1>4, <1>5

\* A step that leaves the requests alone and takes no row away.
LEMMA ReviewsStay ==
  ASSUME IInv, UNCHANGED reviewVars,
         \A k \in Key : rules[k] # NoRule => rules'[k] # NoRule,
         \A p \in Pass : cands[p] # NoCand => cands'[p] # NoCand
  PROVE  /\ ReviewsOpen'
         /\ reviews' \in 0 .. MaxReviews
         /\ review' \in [Operator -> CandReview \cup RuleReview \cup {NoReview}]
<1>1. /\ reviews' \in 0 .. MaxReviews
      /\ review' \in [Operator -> CandReview \cup RuleReview \cup {NoReview}]
  BY DEF IInv, TypeOK, reviewVars
<1>2. SUFFICES ASSUME NEW o \in Operator, review[o] # NoReview
               PROVE  /\ review[o].subject.kind = "rule" =>
                           rules'[review[o].subject.id] # NoRule
                      /\ review[o].subject.kind = "candidate" =>
                           cands'[review[o].subject.id] # NoCand
  BY <1>1 DEF ReviewsOpen, reviewVars
<1>3. CASE review[o].subject.kind = "rule"
  BY <1>2, <1>3, RuleReviewOpen, Shapes
<1>4. CASE review[o].subject.kind = "candidate"
  BY <1>2, <1>4, CandReviewOpen, Shapes
<1> QED  BY <1>3, <1>4

\* A transaction that ends leaves nothing to know of it.
LEMMA JobEnds ==
  ASSUME IInv, job' = NoJob, UNCHANGED jobs
  PROVE  JobSees' /\ job' \in SingleJob \cup GroupJob \cup {NoJob} /\ jobs' \in 0 .. MaxJobs
BY DEF IInv, TypeOK, JobSees, NoJob, SingleKind

-----------------------------------------------------------------------------
(* The initial states and every action.                                    *)

LEMMA Initially ==
  ASSUME Init
  PROVE  IInv
<1> USE BoundAssumption
<1>1. TypeOK
  <2>1. /\ extraction \in Extraction /\ cases \in BOOLEAN /\ evalRan \in BOOLEAN
        /\ cands \in [Pass -> Cand \cup {NoCand}]
        /\ verdict \in [Pass -> Results]
        /\ rules \in [Key -> Rule \cup {NoRule}]
    BY DEF Init, Results
  <2>2. /\ audit \in Seq(Event) /\ jobs \in 0 .. MaxJobs
        /\ reviews \in 0 .. MaxReviews
    BY DEF Init
  <2>3. /\ job \in SingleJob \cup GroupJob \cup {NoJob}
        /\ review \in [Operator -> CandReview \cup RuleReview \cup {NoReview}]
    BY DEF Init
  <2> QED  BY <2>1, <2>2, <2>3 DEF TypeOK
<1>2. CandidatesSound /\ SeededCand /\ RulesVouched /\ PromotedHasRule
  BY Shapes DEF Init, CandidatesSound, SeededCand, RulesVouched, PromotedHasRule
<1>3. Unruled /\ ReviewsOpen /\ JobSees
  BY Shapes DEF Init, Unruled, ReviewsOpen, JobSees, SingleKind
<1>4. AuditExplainsRules
  BY Shapes DEF Init, AuditExplainsRules
<1> QED  BY <1>1, <1>2, <1>3, <1>4 DEF IInv

\* The group is enqueued when there is none, without contents.
LEMMA EnqueueKeeps ==
  ASSUME IInv, NEW answer \in Answer, Enqueue(answer)
  PROVE  IInv'
<1>1. /\ cands' \in [Pass -> Cand]
      /\ \A p \in Pass : cands'[p].status = "pending_extraction"
  <2>1. SUFFICES ASSUME NEW p \in Pass
                 PROVE  /\ Enqueued(answer[p]) \in Cand
                        /\ Enqueued(answer[p]).status = "pending_extraction"
    BY DEF Enqueue
  <2>2. Enqueued(answer[p]).status \in CandStatus
    BY DEF Enqueue, Storable
  <2>3. answer[p] = NoContent
    BY <2>2 DEF Enqueued, CandStatus
  <2> QED  BY <2>3 DEF Enqueued, Cand, CandStatus, Results
<1>2. /\ SeededCand' /\ RulesVouched' /\ Unruled' /\ AuditExplainsRules'
      /\ rules' \in [Key -> Rule \cup {NoRule}] /\ audit' \in Seq(Event)
  BY SameRules DEF Enqueue, clauseVars
<1>3. CandidatesSound'
  BY <1>1 DEF CandidatesSound
<1>4. PromotedHasRule'
  BY <1>1 DEF PromotedHasRule
<1>5. /\ ReviewsOpen' /\ reviews' \in 0 .. MaxReviews
      /\ review' \in [Operator -> CandReview \cup RuleReview \cup {NoReview}]
  <2>1. \A p \in Pass : cands[p] # NoCand => cands'[p] # NoCand
    BY <1>1, Shapes
  <2> QED  BY <2>1, ReviewsStay DEF Enqueue
<1>6. JobSees'
  BY Shapes DEF Enqueue, JobSees, jobVars, SingleKind
<1>7. TypeOK'
  <2>1. cands' \in [Pass -> Cand \cup {NoCand}]
    BY <1>1
  <2>2. /\ extraction' \in Extraction /\ cases' \in BOOLEAN /\ evalRan' \in BOOLEAN
        /\ verdict' \in [Pass -> Results]
    BY DEF Enqueue, IInv, TypeOK, clauseVars
  <2>3. jobs' \in 0 .. MaxJobs /\ job' \in SingleJob \cup GroupJob \cup {NoJob}
    BY DEF Enqueue, IInv, TypeOK, jobVars
  <2> QED  BY <1>2, <1>5, <2>1, <2>2, <2>3 DEF TypeOK
<1> QED  BY <1>2, <1>3, <1>4, <1>5, <1>6, <1>7 DEF IInv

\* The steps that touch candidates and rules only as the caller says: what is
\* left to show for a step of the pipeline.
LEMMA PipelineStep ==
  ASSUME IInv, UNCHANGED <<clauseVars, reviewVars>>,
         CandidatesSound', PromotedHasRule', JobSees',
         SeededCand' /\ RulesVouched' /\ Unruled' /\ AuditExplainsRules',
         rules' \in [Key -> Rule \cup {NoRule}], audit' \in Seq(Event),
         cands' \in [Pass -> Cand \cup {NoCand}],
         verdict' \in [Pass -> Results], evalRan' \in BOOLEAN,
         job' \in SingleJob \cup GroupJob \cup {NoJob}, jobs' \in 0 .. MaxJobs,
         \A k \in Key : rules[k] # NoRule => rules'[k] # NoRule,
         \A p \in Pass : cands[p] # NoCand => cands'[p] # NoCand
  PROVE  IInv'
<1>1. /\ ReviewsOpen' /\ reviews' \in 0 .. MaxReviews
      /\ review' \in [Operator -> CandReview \cup RuleReview \cup {NoReview}]
  BY ReviewsStay
<1>2. extraction' \in Extraction /\ cases' \in BOOLEAN
  BY DEF IInv, TypeOK, clauseVars
<1>3. TypeOK'
  BY <1>1, <1>2 DEF TypeOK
<1> QED  BY <1>1, <1>3 DEF IInv

LEMMA JobLoadKeeps ==
  ASSUME IInv, NEW kind \in SingleKind, NEW p \in Pass, JobLoad(kind, p)
  PROVE  IInv'
<1>1. cands[p] \in Cand
  BY DEF JobLoad, IInv, TypeOK
<1>2. job' \in SingleJob /\ job'.kind = kind /\ job'.pass = p /\ job'.seen = cands[p]
  BY <1>1 DEF JobLoad, SingleJob
<1>3. Reviewed(p, cands[p])'
  BY <1>1, Shapes DEF JobLoad, Reviewed
<1>4. kind = "promote" => /\ cands[p].status = "validators_passed"
                          /\ cands[p].content \in Valid
  BY DEF JobLoad, Promotable, IInv, CandidatesSound
<1>5. JobSees'
  <2>1. job'.kind # "group"
    BY <1>2 DEF SingleKind
  <2>2. Reviewed(job.pass, job.seen)'
    BY <1>2, <1>3 DEF JobLoad, Reviewed
  <2> QED  BY <1>2, <1>4, <2>1, <2>2 DEF JobSees
<1>6. jobs' \in 0 .. MaxJobs
  BY BoundAssumption DEF JobLoad, IInv, TypeOK
<1>7. verdict' \in [Pass -> Results] /\ evalRan' \in BOOLEAN
  BY DEF JobLoad, IInv, TypeOK
<1>8. UNCHANGED <<extraction, rules, audit, cands, clauseVars, reviewVars>>
  BY DEF JobLoad, clauseVars
<1>9. PromotedHasRule'
  BY <1>8, PromotedStays
<1> QED  BY <1>2, <1>5, <1>6, <1>7, <1>8, <1>9, SameRules, SameCands, PipelineStep

LEMMA GroupLoadKeeps ==
  ASSUME IInv, GroupLoad
  PROVE  IInv'
<1>1. cands \in [Pass -> Cand]
  BY DEF GroupLoad, IInv, TypeOK
<1>2. job' \in GroupJob /\ job'.kind = "group" /\ job'.seen = cands
  BY <1>1 DEF GroupLoad, GroupJob
<1>3. UNCHANGED <<extraction, rules, audit, cands, clauseVars, reviewVars>>
  BY DEF GroupLoad, clauseVars
<1>4. JobSees'
  BY <1>1, <1>2, <1>3, Shapes DEF JobSees, Reviewed, SingleKind
<1>5. jobs' \in 0 .. MaxJobs
  BY BoundAssumption DEF GroupLoad, IInv, TypeOK
<1>6. verdict' \in [Pass -> Results] /\ evalRan' \in BOOLEAN
  BY DEF GroupLoad, IInv, TypeOK
<1>7. PromotedHasRule'
  BY <1>3, PromotedStays
<1> QED  BY <1>2, <1>3, <1>4, <1>5, <1>6, <1>7, SameRules, SameCands, PipelineStep

\* What was valid when it was loaded is valid still: only the pipeline itself
\* changes a content.
LEMMA ValidateCommitKeeps ==
  ASSUME IInv, ValidateCommit
  PROVE  IInv'
<1> DEFINE p == job.pass
           c == Validated(p, job.seen)
<1>1. /\ p \in Pass /\ job.seen \in Cand /\ cands[p] \in Cand
      /\ Reviewed(p, job.seen) /\ job.seen.content \in Valid
  BY SingleOpen DEF ValidateCommit, SingleKind
<1>2. /\ c \in Cand /\ c.status # "auto_promoted"
      /\ c.content \in Valid
  BY <1>1, Shapes DEF Validated, Written, Reviewed, Cand, CandStatus, Results
<1>3. cands' = [cands EXCEPT ![p] = c]
  BY DEF ValidateCommit
<1>4. /\ cands'[p] = c /\ \A q \in Pass : q # p => cands'[q] = cands[q]
      /\ cands' \in [Pass -> Cand \cup {NoCand}]
      /\ \A q \in Pass : cands[q] # NoCand => cands'[q] # NoCand
  BY <1>1, <1>2, <1>3, Shapes DEF IInv, TypeOK
<1>5. CandidatesSound'
  BY <1>2, <1>4 DEF IInv, CandidatesSound
<1>6. PromotedHasRule'
  BY <1>2, <1>4, PromotedStays DEF ValidateCommit
<1>7. verdict' \in [Pass -> Results] /\ evalRan' \in BOOLEAN
  BY DEF ValidateCommit, IInv, TypeOK, Results
<1>8. UNCHANGED <<extraction, rules, audit, clauseVars, reviewVars, jobs>> /\ job' = NoJob
  BY DEF ValidateCommit, clauseVars
<1> QED  BY <1>4, <1>5, <1>6, <1>7, <1>8, SameRules, JobEnds, PipelineStep

\* The steps that end a transaction and change nothing that is kept.
LEMMA JobDropped ==
  ASSUME IInv, job' = NoJob, verdict' \in [Pass -> Results], evalRan' \in BOOLEAN,
         UNCHANGED <<clauseVars, cands, rules, audit, jobs, reviewVars>>
  PROVE  IInv'
<1>1. UNCHANGED extraction
  BY DEF clauseVars
<1>2. PromotedHasRule'
  BY PromotedStays
<1> QED  BY <1>1, <1>2, SameRules, SameCands, JobEnds, PipelineStep

LEMMA PromoteCommitKeeps ==
  ASSUME IInv, PromoteCommit
  PROVE  IInv'
<1> DEFINE p == job.pass
           e == job.seen.content
           c == Marked(p, job.seen.status, "auto_promoted")
           k == KeyOf[e]
           rule == [status |-> "auto_accepted", content |-> e,
                    path |-> "gate", cand |-> p]
<1>1. /\ p \in Pass /\ job.seen \in Cand /\ cands[p] \in Cand
      /\ Reviewed(p, job.seen)
  BY SingleOpen DEF PromoteCommit, SingleKind
<1>2. e \in Valid /\ job.seen.status = "validators_passed"
  BY DEF PromoteCommit, IInv, JobSees
<1>3. e \in Content /\ k \in Key
  BY <1>2, ContentAssumption
<1>4. rule \in Rule
  BY <1>1, <1>3 DEF Rule, RuleStatus, Path
<1>5. Free(k) /\ rules' = WithRule(k, rule)
  BY DEF PromoteCommit
<1>6. UNCHANGED <<extraction, audit, clauseVars, reviewVars, jobs>> /\ job' = NoJob
  BY DEF PromoteCommit, clauseVars
<1>7. /\ SeededCand' /\ RulesVouched' /\ Unruled' /\ AuditExplainsRules'
      /\ rules' \in [Key -> Rule \cup {NoRule}]
      /\ rules'[k] = rule
      /\ \A j \in Key : j # k => rules'[j] = rules[j]
  <2>1. /\ rule.path = "gate" /\ rule.content = e /\ rule.status = "auto_accepted"
    OBVIOUS
  <2> HIDE DEF rule
  <2> QED  BY <1>2, <1>3, <1>4, <1>5, <1>6, <2>1, RuleMade
<1>8. c \in Cand /\ c.status = "auto_promoted" /\ c.content = e
  BY <1>1, <1>2, Shapes DEF Marked, Written, Reviewed, Cand, CandStatus
<1>9. cands' = [cands EXCEPT ![p] = c]
  BY DEF PromoteCommit
<1>10. /\ cands'[p] = c /\ \A q \in Pass : q # p => cands'[q] = cands[q]
       /\ cands' \in [Pass -> Cand \cup {NoCand}]
       /\ \A q \in Pass : cands[q] # NoCand => cands'[q] # NoCand
  BY <1>1, <1>8, <1>9, Shapes DEF IInv, TypeOK
<1>11. CandidatesSound'
  BY <1>3, <1>8, <1>10 DEF IInv, CandidatesSound
<1>12. PromotedHasRule'
  <2> SUFFICES ASSUME NEW q \in Pass, cands'[q].status = "auto_promoted"
               PROVE  /\ rules'[KeyOf[cands'[q].content]].cand = q
                      /\ rules'[KeyOf[cands'[q].content]].content = cands'[q].content
    BY DEF PromotedHasRule
  <2>1. CASE q = p
    BY <1>7, <1>8, <1>10, <2>1
  <2>2. CASE q # p
    <3>1. cands'[q] = cands[q] /\ cands[q].content \in Content
      BY <1>10, <2>2 DEF IInv, CandidatesSound
    <3>2. rules[KeyOf[cands[q].content]].cand = q
      BY <3>1 DEF IInv, PromotedHasRule
    <3>3. KeyOf[cands[q].content] \in Key
      BY <3>1, ContentAssumption
    <3>4. KeyOf[cands[q].content] # k
      BY <1>5, <3>2, Shapes DEF Free, Pass
    <3> QED  BY <1>7, <3>1, <3>3, <3>4 DEF IInv, PromotedHasRule
  <2> QED  BY <2>1, <2>2
<1>13. verdict' \in [Pass -> Results] /\ evalRan' \in BOOLEAN
  BY DEF PromoteCommit, IInv, TypeOK
<1>14. \A j \in Key : rules[j] # NoRule => rules'[j] # NoRule
  BY <1>4, <1>7, Shapes
<1>15. audit' \in Seq(Event)
  BY <1>6 DEF IInv, TypeOK
<1> QED  BY <1>6, <1>7, <1>10, <1>11, <1>12, <1>13, <1>14, <1>15, JobEnds, PipelineStep

\* A pass that was extracted again is neither validated nor promoted.
LEMMA ReextractedValue ==
  ASSUME IInv, job.kind = "group", NEW p \in Pass
  PROVE  /\ Reextracted(p, job.seen[p]) \in Cand
         /\ Reextracted(p, job.seen[p]).status \in {"pending_review", "rejected"}
<1>1. /\ job.seen[p] \in Cand /\ cands[p] \in Cand /\ Reviewed(p, job.seen[p])
  BY GroupOpen
<1>2. extraction[p] \in Content
  BY ExtractionAssumption DEF IInv, TypeOK
<1>3. Written(cands[p].status, job.seen[p].status, "pending_review")
        \in {"pending_review", "rejected"}
  BY <1>1 DEF Written, Reviewed
<1> QED  BY <1>1, <1>2, <1>3, Shapes DEF Reextracted, Cand, CandStatus

LEMMA GroupCommitKeeps ==
  ASSUME IInv, GroupCommit
  PROVE  IInv'
<1>1. job.kind = "group" /\ cands' = [p \in Pass |-> Reextracted(p, job.seen[p])]
  BY DEF GroupCommit
<1>2. \A p \in Pass : /\ cands'[p] \in Cand
                      /\ cands'[p].status \in {"pending_review", "rejected"}
  BY <1>1, ReextractedValue
<1>3. /\ cands' \in [Pass -> Cand \cup {NoCand}]
      /\ \A p \in Pass : cands'[p] # NoCand
  BY <1>1, <1>2, Shapes
<1>4. CandidatesSound'
  BY <1>2 DEF CandidatesSound
<1>5. PromotedHasRule'
  BY <1>2 DEF PromotedHasRule
<1>6. verdict' \in [Pass -> Results] /\ evalRan' \in BOOLEAN
  BY DEF GroupCommit, IInv, TypeOK, Results
<1>7. /\ UNCHANGED <<extraction, rules, audit, clauseVars, reviewVars, jobs>>
      /\ job' = NoJob
  BY DEF GroupCommit, clauseVars
<1> QED  BY <1>3, <1>4, <1>5, <1>6, <1>7, SameRules, JobEnds, PipelineStep

LEMMA GroupPromoteKeeps ==
  ASSUME IInv, GroupPromote
  PROVE  IInv'
<1> DEFINE e == extraction[1]
           k == KeyOf[e]
           rule == [status |-> "pending_review", path |-> "group",
                    content |-> e, cand |-> 1]
           c == [status |-> "auto_promoted", content |-> e,
                 results |-> cands[1].results]
<1>1. 1 \in Pass
  BY DEF Pass
<1>2. e \in Content /\ k \in Key
  BY <1>1, ExtractionAssumption, ContentAssumption DEF IInv, TypeOK
<1>3. rule \in Rule
  BY <1>1, <1>2 DEF Rule, RuleStatus, Path
<1>4. Free(k) /\ rules' = WithRule(k, rule) /\ job.kind = "group"
  BY DEF GroupPromote
<1>5. /\ UNCHANGED <<extraction, audit, clauseVars, reviewVars, jobs>>
      /\ job' = NoJob
  BY DEF GroupPromote, clauseVars
<1>6. /\ SeededCand' /\ RulesVouched' /\ Unruled' /\ AuditExplainsRules'
      /\ rules' \in [Key -> Rule \cup {NoRule}]
      /\ rules'[k] = rule
      /\ \A j \in Key : j # k => rules'[j] = rules[j]
  <2>1. \A p \in Pass : extraction[p] = e
    BY <1>1 DEF GroupPromote, Agreed
  <2>2. /\ rule.path = "group" /\ rule.content = e
        /\ rule.status = "pending_review"
    OBVIOUS
  <2> HIDE DEF rule
  <2> QED  BY <1>2, <1>3, <1>4, <1>5, <2>1, <2>2, RuleMade
<1>7. c \in Cand /\ c.status = "auto_promoted" /\ c.content = e
  BY <1>1, <1>2, <1>4, GroupOpen, Shapes DEF Cand, CandStatus
<1>8. /\ cands' \in [Pass -> Cand] /\ cands'[1] = c
      /\ \A q \in Pass : q # 1 => cands'[q].status \in {"pending_review", "rejected"}
  <2>1. cands' = [q \in Pass |-> IF q = 1 THEN c ELSE Reextracted(q, job.seen[q])]
    BY DEF GroupPromote
  <2> HIDE DEF c
  <2> QED  BY <1>1, <1>4, <1>7, <2>1, ReextractedValue
<1>9. CandidatesSound'
  BY <1>2, <1>7, <1>8 DEF CandidatesSound
<1>10. PromotedHasRule'
  <2>1. \A q \in Pass : cands'[q].status = "auto_promoted" => q = 1
    BY <1>8
  <2>2. rules'[KeyOf[cands'[1].content]] = rule
    BY <1>6, <1>7, <1>8
  <2>3. rule.cand = 1 /\ rule.content = cands'[1].content
    BY <1>7, <1>8
  <2> HIDE DEF rule
  <2> QED  BY <2>1, <2>2, <2>3 DEF PromotedHasRule
<1>11. verdict' \in [Pass -> Results] /\ evalRan' \in BOOLEAN
  BY DEF GroupPromote, IInv, TypeOK, Results
<1>12. \A j \in Key : rules[j] # NoRule => rules'[j] # NoRule
  BY <1>3, <1>6, Shapes
<1>13. /\ cands' \in [Pass -> Cand \cup {NoCand}] /\ audit' \in Seq(Event)
       /\ \A q \in Pass : cands'[q] # NoCand
  BY <1>5, <1>8, Shapes DEF IInv, TypeOK
<1> QED  BY <1>5, <1>6, <1>9, <1>10, <1>11, <1>12, <1>13, JobEnds, PipelineStep

-----------------------------------------------------------------------------
(* The operators and the import.                                           *)

\* What is left to show for a step of an operator.
LEMMA ReviewStep ==
  ASSUME IInv, UNCHANGED <<clauseVars, evalRan, verdict, jobVars>>,
         CandidatesSound', PromotedHasRule', JobSees', ReviewsOpen',
         SeededCand' /\ RulesVouched' /\ Unruled' /\ AuditExplainsRules',
         rules' \in [Key -> Rule \cup {NoRule}], audit' \in Seq(Event),
         cands' \in [Pass -> Cand \cup {NoCand}],
         reviews' \in 0 .. MaxReviews,
         review' \in [Operator -> CandReview \cup RuleReview \cup {NoReview}]
  PROVE  IInv'
<1>1. /\ extraction' \in Extraction /\ cases' \in BOOLEAN
      /\ verdict' \in [Pass -> Results] /\ evalRan' \in BOOLEAN
      /\ job' \in SingleJob \cup GroupJob \cup {NoJob} /\ jobs' \in 0 .. MaxJobs
  BY DEF IInv, TypeOK, clauseVars, jobVars
<1>2. TypeOK'
  BY <1>1 DEF TypeOK
<1> QED  BY <1>2 DEF IInv

\* A step that changes neither the job nor the candidates.
LEMMA JobKept ==
  ASSUME IInv, UNCHANGED <<jobVars, cands>>
  PROVE  JobSees'
BY DEF IInv, JobSees, Reviewed, jobVars

LEMMA ReviewBegun ==
  ASSUME IInv, NEW o \in Operator, NEW r \in CandReview \cup RuleReview,
         r.subject.kind = "rule" => rules[r.subject.id] # NoRule,
         r.subject.kind = "candidate" => cands[r.subject.id] # NoCand,
         reviews < MaxReviews, reviews' = reviews + 1,
         review' = [review EXCEPT ![o] = r],
         UNCHANGED <<clauseVars, cands, evalRan, verdict, rules, audit, jobVars>>
  PROVE  IInv'
<1>1. reviews' \in 0 .. MaxReviews
  BY BoundAssumption DEF IInv, TypeOK
<1>2. /\ review' \in [Operator -> CandReview \cup RuleReview \cup {NoReview}]
      /\ ReviewsOpen'
  BY DEF IInv, TypeOK, ReviewsOpen
<1>3. UNCHANGED extraction
  BY DEF clauseVars
<1>4. PromotedHasRule'
  BY PromotedStays
<1> QED  BY <1>1, <1>2, <1>3, <1>4, SameRules, SameCands, JobKept, ReviewStep

LEMMA ReviewCandidateKeeps ==
  ASSUME IInv, NEW o \in Operator, NEW p \in Pass,
         NEW wanted \in {"pending_review", "rejected"}, ReviewCandidate(o, p, wanted)
  PROVE  IInv'
<1> DEFINE r == [stage |-> "loaded", subject |-> [kind |-> "candidate", id |-> p],
                 seen |-> cands[p].status, wanted |-> wanted]
<1>1. cands[p] # NoCand /\ cands[p].status \in CandStatus
  BY Shapes DEF ReviewCandidate, IInv, TypeOK
<1>2. r \in CandReview
  BY <1>1 DEF CandReview, Candidates
<1>3. r.subject.kind = "candidate" /\ r.subject.id = p
  OBVIOUS
<1>4. /\ reviews < MaxReviews /\ reviews' = reviews + 1
      /\ review' = [review EXCEPT ![o] = r]
      /\ UNCHANGED <<clauseVars, cands, evalRan, verdict, rules, audit, jobVars>>
  BY DEF ReviewCandidate
<1> HIDE DEF r
<1> QED  BY <1>1, <1>2, <1>3, <1>4, ReviewBegun

LEMMA ReviewRuleKeeps ==
  ASSUME IInv, NEW o \in Operator, NEW k \in Key,
         NEW wanted \in {"approved", "rejected"}, ReviewRule(o, k, wanted)
  PROVE  IInv'
<1> DEFINE r == [stage |-> "loaded", subject |-> [kind |-> "rule", id |-> k],
                 seen |-> rules[k].status, wanted |-> wanted]
<1>1. rules[k] # NoRule /\ rules[k].status \in RuleStatus
  BY Shapes DEF ReviewRule, IInv, TypeOK
<1>2. r \in RuleReview
  BY <1>1 DEF RuleReview, Rules
<1>3. r.subject.kind = "rule" /\ r.subject.id = k
  OBVIOUS
<1>4. /\ reviews < MaxReviews /\ reviews' = reviews + 1
      /\ review' = [review EXCEPT ![o] = r]
      /\ UNCHANGED <<clauseVars, cands, evalRan, verdict, rules, audit, jobVars>>
  BY DEF ReviewRule
<1> HIDE DEF r
<1> QED  BY <1>1, <1>2, <1>3, <1>4, ReviewBegun

\* A request that ends leaves the others as they are.
LEMMA ReviewEnds ==
  ASSUME IInv, NEW o \in Operator, review' = [review EXCEPT ![o] = NoReview],
         UNCHANGED reviews,
         \A k \in Key : rules[k] # NoRule => rules'[k] # NoRule,
         \A p \in Pass : cands[p] # NoCand => cands'[p] # NoCand
  PROVE  /\ ReviewsOpen'
         /\ reviews' \in 0 .. MaxReviews
         /\ review' \in [Operator -> CandReview \cup RuleReview \cup {NoReview}]
<1>1. /\ reviews' \in 0 .. MaxReviews
      /\ review' \in [Operator -> CandReview \cup RuleReview \cup {NoReview}]
  BY DEF IInv, TypeOK
<1>2. SUFFICES ASSUME NEW q \in Operator, q # o, review[q] # NoReview
               PROVE  /\ review[q].subject.kind = "rule" =>
                           rules'[review[q].subject.id] # NoRule
                      /\ review[q].subject.kind = "candidate" =>
                           cands'[review[q].subject.id] # NoCand
  BY <1>1 DEF ReviewsOpen, IInv, TypeOK
<1>3. CASE review[q].subject.kind = "rule"
  BY <1>2, <1>3, RuleReviewOpen, Shapes
<1>4. CASE review[q].subject.kind = "candidate"
  BY <1>2, <1>4, CandReviewOpen, Shapes
<1> QED  BY <1>1, <1>3, <1>4

\* A review of a candidate neither validates nor promotes it, and an open
\* transaction is prepared for it.
LEMMA CandReviewCommitKeeps ==
  ASSUME IInv, NEW o \in Operator, CandReviewCommit(o)
  PROVE  IInv'
<1> DEFINE r == review[o]
           p == r.subject.id
           c == Marked(p, r.seen, r.wanted)
<1>1. /\ p \in Pass /\ cands[p] \in Cand
      /\ r.wanted \in {"pending_review", "rejected"}
  BY CandReviewOpen DEF CandReviewCommit
<1>2. /\ c \in Cand /\ c.content = cands[p].content
      /\ c.status \in {cands[p].status, "pending_review", "rejected"}
  BY <1>1, Shapes DEF Marked, Written, Cand, CandStatus
<1>3. cands' = [cands EXCEPT ![p] = c]
  BY DEF CandReviewCommit
<1>4. /\ UNCHANGED <<extraction, rules, audit, clauseVars, evalRan, verdict,
                     jobVars, reviews>>
      /\ review' = [review EXCEPT ![o] = NoReview]
  BY DEF CandReviewCommit, clauseVars
<1> HIDE DEF c
<1>5. /\ cands'[p] = c /\ \A q \in Pass : q # p => cands'[q] = cands[q]
      /\ cands' \in [Pass -> Cand \cup {NoCand}]
      /\ \A q \in Pass : cands[q] # NoCand => cands'[q] # NoCand
  BY <1>1, <1>2, <1>3, Shapes DEF IInv, TypeOK
<1>6. CandidatesSound'
  BY <1>2, <1>5 DEF IInv, CandidatesSound
<1>7. PromotedHasRule'
  BY <1>2, <1>4, <1>5 DEF IInv, PromotedHasRule
<1> DEFINE Still(q, seen) ==
             /\ cands'[q] # NoCand
             /\ cands'[q].content = seen.content
             /\ cands'[q].status \in {seen.status, "pending_review", "rejected"}
<1>8. ASSUME NEW q \in Pass, NEW seen, Reviewed(q, seen)
      PROVE  Still(q, seen)
  BY <1>2, <1>5, <1>8 DEF Reviewed
<1>9. JobSees'
  <2>1. job' = job
    BY <1>4 DEF jobVars
  <2>2. job.kind \in SingleKind => Still(job.pass, job.seen)
    BY <1>8, SingleOpen
  <2>3. job.kind = "group" => \A q \in Pass : Still(q, job.seen[q])
    BY <1>8, GroupOpen
  <2> QED  BY <2>1, <2>2, <2>3 DEF IInv, JobSees, Reviewed
<1> QED  BY <1>4, <1>5, <1>6, <1>7, <1>9, SameRules, ReviewEnds, ReviewStep

\* The last event of a rule is the change it records: an event that changes
\* nothing leaves the status alone, and a change is always recorded.
LEMMA RuleReviewCommitKeeps ==
  ASSUME IInv, NEW o \in Operator, RuleReviewCommit(o)
  PROVE  IInv'
<1> DEFINE r == review[o]
           k == r.subject.id
           status == Written(rules[k].status, r.seen, r.wanted)
           event == [rule |-> k, before |-> r.seen, after |-> r.wanted]
<1>1. /\ k \in Key /\ rules[k] \in Rule /\ r.seen \in RuleStatus
      /\ r.wanted \in {"approved", "rejected"}
  BY RuleReviewOpen DEF RuleReviewCommit
<1>2. status \in RuleStatus
  BY <1>1, Shapes DEF Written, RuleStatus
<1>3. /\ rules' = [rules EXCEPT ![k].status = status]
      /\ audit' = IF Audited(r) THEN Append(audit, event) ELSE audit
  BY DEF RuleReviewCommit
<1>4. /\ UNCHANGED <<extraction, cands, clauseVars, evalRan, verdict,
                     jobVars, reviews>>
      /\ review' = [review EXCEPT ![o] = NoReview]
  BY DEF RuleReviewCommit, clauseVars
<1>5. event \in Event /\ event.rule = k /\ event.before = r.seen
      /\ event.after = r.wanted
  BY <1>1 DEF Event, RuleStatus
<1>6. rules[k] = [status |-> rules[k].status, content |-> rules[k].content,
                  path |-> rules[k].path, cand |-> rules[k].cand]
  BY <1>1 DEF Rule
<1>7. [rules[k] EXCEPT !.status = status] \in Rule
  BY <1>1, <1>2 DEF Rule
<1> DEFINE rule == [rules[k] EXCEPT !.status = status]
<1>8. /\ rule.status = status /\ rule.content = rules[k].content
      /\ rule.path = rules[k].path /\ rule.cand = rules[k].cand
  BY <1>1 DEF Rule
<1>9. rules' = [rules EXCEPT ![k] = rule]
  BY <1>3
<1> HIDE DEF status, event, rule
<1>10. /\ rules'[k] = rule
       /\ \A j \in Key : j # k => rules'[j] = rules[j]
       /\ rules' \in [Key -> Rule \cup {NoRule}]
       /\ \A j \in Key : rules[j] # NoRule => rules'[j] # NoRule
  BY <1>1, <1>7, <1>9, Shapes DEF IInv, TypeOK, rule
<1>11. SeededCand' /\ RulesVouched'
  BY <1>4, <1>8, <1>10 DEF IInv, SeededCand, RulesVouched
<1>12. PromotedHasRule'
  <2>1. \A j \in Key : /\ rules'[j].cand = rules[j].cand
                       /\ rules'[j].content = rules[j].content
    BY <1>8, <1>10
  <2>2. \A p \in Pass : cands[p].status = "auto_promoted" =>
                          KeyOf[cands[p].content] \in Key
    BY ContentAssumption DEF IInv, CandidatesSound
  <2> QED  BY <1>4, <2>1, <2>2 DEF IInv, PromotedHasRule
<1>13. audit \in Seq(Event)
  BY DEF IInv, TypeOK
<1>14. CASE Audited(r)
  <2>1. audit' = Append(audit, event)
    BY <1>3, <1>14
  <2>2. /\ audit' \in Seq(Event) /\ Len(audit') = Len(audit) + 1
        /\ Len(audit) \in Nat
        /\ audit'[Len(audit) + 1] = event
        /\ \A i \in 1 .. Len(audit) : audit'[i] = audit[i]
    BY <1>5, <1>13, <2>1
  <2>3. Unruled'
    <3> SUFFICES ASSUME NEW j \in Key, rules'[j] = NoRule,
                        NEW i \in 1 .. Len(audit')
                 PROVE  audit'[i].rule # j
      BY DEF Unruled
    <3>1. j # k
      BY <1>7, <1>10, Shapes DEF rule
    <3>2. CASE i \in 1 .. Len(audit)
      BY <1>10, <2>2, <3>1, <3>2 DEF IInv, Unruled
    <3>3. CASE i = Len(audit) + 1
      BY <1>5, <2>2, <3>1, <3>3
    <3> QED  BY <2>2, <3>2, <3>3
  <2>4. \A j \in Key :
          Changes(j)' = IF j = k /\ r.seen # r.wanted
                        THEN Changes(j) \cup {Len(audit) + 1} ELSE Changes(j)
    <3> SUFFICES ASSUME NEW j \in Key
                 PROVE  Changes(j)' = IF j = k /\ r.seen # r.wanted
                                      THEN Changes(j) \cup {Len(audit) + 1}
                                      ELSE Changes(j)
      OBVIOUS
    <3>1. ASSUME NEW i \in 1 .. Len(audit)
          PROVE  i \in Changes(j)' <=> i \in Changes(j)
      BY <2>2 DEF Changes
    <3>2. Len(audit) + 1 \in Changes(j)' <=> j = k /\ r.seen # r.wanted
      BY <1>5, <2>2 DEF Changes
    <3>3. /\ Changes(j)' \subseteq 1 .. Len(audit')
          /\ Changes(j) \subseteq 1 .. Len(audit)
      BY DEF Changes
    <3>4. \A i \in 1 .. Len(audit') : i \in 1 .. Len(audit) \/ i = Len(audit) + 1
      BY <2>2
    <3>5. CASE j = k /\ r.seen # r.wanted
      <4>1. \A i : i \in Changes(j)' <=> i \in Changes(j) \/ i = Len(audit) + 1
        BY <3>1, <3>2, <3>3, <3>4, <3>5
      <4> QED  BY <3>5, <4>1
    <3>6. CASE ~(j = k /\ r.seen # r.wanted)
      <4>1. \A i : i \in Changes(j)' <=> i \in Changes(j)
        BY <3>1, <3>2, <3>3, <3>4, <3>6
      <4> QED  BY <3>6, <4>1
    <3> QED  BY <3>5, <3>6
  <2>5. AuditExplainsRules'
    <3> SUFFICES ASSUME NEW j \in Key, rules'[j].path \in {"gate", "group"}
                 PROVE  \/ Changes(j)' = {} /\ rules'[j].status = FirstStatus(j)'
                        \/ \E i \in Changes(j)' :
                             /\ \A n \in Changes(j)' : n <= i
                             /\ rules'[j].status = audit'[i].after
      BY DEF AuditExplainsRules
    <3>1. rules'[j].path = rules[j].path /\ FirstStatus(j)' = FirstStatus(j)
      BY <1>8, <1>10 DEF FirstStatus
    <3>2. Changes(j) \subseteq 1 .. Len(audit)
      BY DEF Changes
    <3>3. CASE j = k /\ r.seen # r.wanted
      <4>1. rules'[j].status = r.wanted
        BY <1>8, <1>10, <3>3 DEF status, Written
      <4> QED  BY <1>5, <2>2, <2>4, <3>2, <3>3, <4>1
    <3>4. CASE ~(j = k /\ r.seen # r.wanted)
      <4>1. rules'[j].status = rules[j].status
        BY <1>8, <1>10, <3>4 DEF status, Written
      <4>2. Changes(j)' = Changes(j)
        BY <2>4, <3>4
      <4>3. \A i \in Changes(j) : audit'[i] = audit[i]
        BY <2>2, <3>2
      <4> QED  BY <3>1, <4>1, <4>2, <4>3 DEF IInv, AuditExplainsRules
    <3> QED  BY <3>3, <3>4
  <2> QED
    BY <1>4, <1>10, <1>11, <1>12, <2>2, <2>3, <2>5, SameCands, JobKept,
       ReviewEnds, ReviewStep
<1>15. CASE ~Audited(r)
  <2>1. audit' = audit
    BY <1>3, <1>15
  <2>2. r.wanted = r.seen
    BY <1>1, <1>15 DEF Audited
  <2>3. \A j \in Key : /\ rules'[j].status = rules[j].status
                       /\ rules'[j].path = rules[j].path
    BY <1>8, <1>10, <2>2 DEF status, Written
  <2>4. Unruled'
    BY <1>10, <2>1 DEF IInv, Unruled
  <2>5. AuditExplainsRules'
    <3>1. \A j \in Key : /\ Changes(j)' = Changes(j)
                         /\ FirstStatus(j)' = FirstStatus(j)
      BY <2>1, <2>3 DEF Changes, FirstStatus
    <3> QED  BY <2>1, <2>3, <3>1 DEF IInv, AuditExplainsRules
  <2> QED
    BY <1>4, <1>10, <1>11, <1>12, <1>13, <2>1, <2>4, <2>5, SameCands, JobKept,
       ReviewEnds, ReviewStep
<1> QED  BY <1>14, <1>15

LEMMA ReviewAbortKeeps ==
  ASSUME IInv, NEW o \in Operator, ReviewAbort(o)
  PROVE  IInv'
<1>1. /\ UNCHANGED <<extraction, rules, audit, cands, clauseVars, evalRan,
                     verdict, jobVars, reviews>>
      /\ review' = [review EXCEPT ![o] = NoReview]
  BY DEF ReviewAbort, clauseVars
<1>2. PromotedHasRule'
  BY <1>1, PromotedStays
<1> QED  BY <1>1, <1>2, SameRules, SameCands, JobKept, ReviewEnds, ReviewStep

\* An import changes only rules that no candidate was promoted to.
LEMMA HarvestKeeps ==
  ASSUME IInv, Harvest
  PROVE  IInv'
<1> DEFINE Seeded(k) == \E c \in Seed : KeyOf[c] = k
           new(k) == [status |-> "approved", path |-> "harvest", cand |-> 0,
                      content |-> CHOOSE c \in Seed : KeyOf[c] = k]
<1>1. rules' = [k \in Key |-> IF Seeded(k) THEN new(k) ELSE rules[k]]
  BY DEF Harvest
<1>2. ASSUME NEW k \in Key, Seeded(k)
      PROVE  /\ new(k) \in Rule /\ new(k).path = "harvest" /\ new(k).cand = 0
             /\ rules[k].path \in {"none", "harvest"} /\ rules[k].cand = 0
  <2>1. (CHOOSE c \in Seed : KeyOf[c] = k) \in Content
    BY <1>2, SeedAssumption
  <2>2. new(k) \in Rule /\ new(k).path = "harvest" /\ new(k).cand = 0
    BY <2>1 DEF Rule, RuleStatus, Path
  <2>3. rules[k].path \in {"none", "harvest"}
    BY <1>2 DEF Harvest
  <2>4. rules[k].cand = 0
    BY <2>3 DEF IInv, SeededCand
  <2> QED  BY <2>2, <2>3, <2>4
<1> HIDE DEF new, Seeded
<1>3. \A k \in Key : \/ rules'[k] = rules[k] /\ ~Seeded(k)
                     \/ /\ rules'[k] \in Rule /\ rules'[k].path = "harvest"
                        /\ rules'[k].cand = 0 /\ rules[k].cand = 0
  BY <1>1, <1>2
<1>4. /\ rules' \in [Key -> Rule \cup {NoRule}]
      /\ \A k \in Key : rules[k] # NoRule => rules'[k] # NoRule
  BY <1>1, <1>3, Shapes DEF IInv, TypeOK
<1>5. UNCHANGED <<extraction, audit, cands, clauseVars, evalRan, verdict,
                  jobVars, reviewVars>>
  BY DEF Harvest, clauseVars
<1>6. SeededCand' /\ RulesVouched'
  BY <1>3, <1>5 DEF IInv, SeededCand, RulesVouched
<1>7. Unruled'
  BY <1>3, <1>5, Shapes DEF IInv, Unruled
<1>8. AuditExplainsRules'
  <2>1. \A k \in Key : rules'[k].path \in {"gate", "group"} =>
          /\ rules'[k] = rules[k]
          /\ Changes(k)' = Changes(k) /\ FirstStatus(k)' = FirstStatus(k)
    BY <1>3, <1>5 DEF Changes, FirstStatus
  <2> QED  BY <1>5, <2>1 DEF IInv, AuditExplainsRules
<1>9. PromotedHasRule'
  <2> SUFFICES ASSUME NEW p \in Pass, cands[p].status = "auto_promoted"
               PROVE  /\ rules'[KeyOf[cands[p].content]].cand = p
                      /\ rules'[KeyOf[cands[p].content]].content = cands[p].content
    BY <1>5 DEF PromotedHasRule
  <2>1. KeyOf[cands[p].content] \in Key
    BY ContentAssumption DEF IInv, CandidatesSound
  <2>2. /\ rules[KeyOf[cands[p].content]].cand = p
        /\ rules[KeyOf[cands[p].content]].content = cands[p].content
    BY DEF IInv, PromotedHasRule
  <2> QED  BY <1>3, <2>1, <2>2 DEF Pass
<1>10. JobSees' /\ audit' \in Seq(Event)
  BY <1>5, JobKept DEF IInv, TypeOK
<1>11. /\ verdict' \in [Pass -> Results] /\ evalRan' \in BOOLEAN
       /\ job' \in SingleJob \cup GroupJob \cup {NoJob} /\ jobs' \in 0 .. MaxJobs
  BY <1>5 DEF IInv, TypeOK, jobVars
<1> QED  BY <1>4, <1>5, <1>6, <1>7, <1>8, <1>9, <1>10, <1>11, SameCands, PipelineStep

-----------------------------------------------------------------------------
LEMMA StepKeeps ==
  ASSUME IInv, [Next]_vars
  PROVE  IInv'
<1>1. CASE Pipeline
  <2>1. CASE \E answer \in Answer : Enqueue(answer)
    BY <2>1, EnqueueKeeps
  <2>2. CASE \E kind \in SingleKind, p \in Worked : JobLoad(kind, p)
    BY <2>2, WorkedAssumption, JobLoadKeeps
  <2>3. CASE ValidateCommit
    BY <2>3, ValidateCommitKeeps
  <2>4. CASE ValidateRaises
    <3>1. verdict' \in [Pass -> Results] /\ evalRan' \in BOOLEAN
      BY <2>4 DEF ValidateRaises, IInv, TypeOK, Results
    <3> QED  BY <2>4, <3>1, JobDropped DEF ValidateRaises
  <2>5. CASE EvaluateCommit
    <3>1. verdict' \in [Pass -> Results]
      BY <2>5 DEF EvaluateCommit, IInv, TypeOK
    <3>2. evalRan' \in BOOLEAN
      BY <2>5 DEF EvaluateCommit, IInv, TypeOK
    <3> QED  BY <2>5, <3>1, <3>2, JobDropped DEF EvaluateCommit
  <2>6. CASE PromoteCommit
    BY <2>6, PromoteCommitKeeps
  <2>7. CASE GroupLoad
    BY <2>7, GroupLoadKeeps
  <2>8. CASE GroupCommit
    BY <2>8, GroupCommitKeeps
  <2>9. CASE GroupPromote
    BY <2>9, GroupPromoteKeeps
  <2>10. CASE JobAbort
    <3>1. verdict' \in [Pass -> Results] /\ evalRan' \in BOOLEAN
      BY <2>10 DEF JobAbort, IInv, TypeOK
    <3> QED  BY <2>10, <3>1, JobDropped DEF JobAbort
  <2> QED
    BY <1>1, <2>1, <2>2, <2>3, <2>4, <2>5, <2>6, <2>7, <2>8, <2>9, <2>10
    DEF Pipeline
<1>2. CASE Harvest
  BY <1>2, HarvestKeeps
<1>3. ASSUME NEW o \in Operator, Review(o)
      PROVE  IInv'
  <2>1. CASE \E p \in Worked, wanted \in {"pending_review", "rejected"} :
               ReviewCandidate(o, p, wanted)
    BY <2>1, WorkedAssumption, ReviewCandidateKeeps
  <2>2. CASE \E k \in Key, wanted \in {"approved", "rejected"} :
               ReviewRule(o, k, wanted)
    BY <2>2, ReviewRuleKeeps
  <2>3. CASE CandReviewCommit(o)
    BY <2>3, CandReviewCommitKeeps
  <2>4. CASE RuleReviewCommit(o)
    BY <2>4, RuleReviewCommitKeeps
  <2>5. CASE ReviewAbort(o)
    BY <2>5, ReviewAbortKeeps
  <2> QED  BY <1>3, <2>1, <2>2, <2>3, <2>4, <2>5 DEF Review
<1>4. CASE UNCHANGED vars
  <2>1. UNCHANGED <<clauseVars, extraction, cands, evalRan, verdict, rules, audit,
                    jobVars, reviewVars>>
    BY <1>4 DEF vars, clauseVars
  <2>2. PromotedHasRule'
    BY <2>1, PromotedStays
  <2>3. JobSees'
    BY <2>1, JobKept
  <2>4. /\ verdict' \in [Pass -> Results] /\ evalRan' \in BOOLEAN
        /\ job' \in SingleJob \cup GroupJob \cup {NoJob} /\ jobs' \in 0 .. MaxJobs
    BY <2>1 DEF IInv, TypeOK, jobVars
  <2> QED  BY <2>1, <2>2, <2>3, <2>4, SameRules, SameCands, PipelineStep
<1> QED  BY <1>1, <1>2, <1>3, <1>4 DEF Next

LEMMA Inductive == Spec => []IInv
<1>1. Init => IInv
  BY Initially
<1>2. IInv /\ [Next]_vars => IInv'
  BY StepKeeps
<1> QED  BY <1>1, <1>2, PTL DEF Spec

\* Candidates, rules, events, open transactions and requests keep their types.
THEOREM LifecycleTyping == Spec => []TypeOK
<1>1. IInv => TypeOK
  BY DEF IInv
<1> QED  BY <1>1, Inductive, PTL

\* A rule the gate made has passed the validators and one of a group is what
\* all passes extracted, for any number of operators at work meanwhile.
THEOREM OnlyVouchedRules == Spec => []RulesVouched
<1>1. IInv => RulesVouched
  BY DEF IInv
<1> QED  BY <1>1, Inductive, PTL

\* A candidate marked as promoted has its rule, imports and reviews included.
THEOREM PromotionLeavesRule == Spec => []PromotedHasRule
<1>1. IInv => PromotedHasRule
  BY DEF IInv
<1> QED  BY <1>1, Inductive, PTL

\* The newest event that changed a rule is the one its row shows: two reviews
\* of one rule never leave the row with the one and the trail with the other.
THEOREM AuditTrail == Spec => []AuditExplainsRules
<1>1. IInv => AuditExplainsRules
  BY DEF IInv
<1> QED  BY <1>1, Inductive, PTL

=============================================================================
