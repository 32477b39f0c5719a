---------------------------- MODULE DecodeReview ----------------------------
(***************************************************************************)
(* The open-vocabulary rules: clauses decoded into candidates, candidates  *)
(* promoted to approved rules, and the passes that judge those rules after *)
(* the fact: a faithfulness review with a source denylist, a correction by *)
(* gpt-4o that may also restore a rejected rule, the same correction by    *)
(* Claude agents over an exported file, an open review, and the operator.  *)
(*                                                                         *)
(* Every pass selects its rules once, asks a model about each for minutes, *)
(* and then updates by id without looking at the row again; its updates    *)
(* lock their rows until the next commit.                                  *)
(*                                                                         *)
(* A claim (rule_logic_json) is known by who wrote it.  A pass commits     *)
(* every 200 verdicts and at the end; here it may commit after any.        *)
(***************************************************************************)
EXTENDS Naturals

CONSTANTS
  Id,         \* uuid5 of clause, model and signature: candidate and rule
  Worker,     \* runs of the passes that may be open together
  Redo        \* the values --redo may take

ASSUME DecodeAssumption == Redo \subseteq BOOLEAN

VARIABLES
  origin,     \* of each: who decodes it, and is its source title on the denylist
  candidates, \* rule_candidates of decode passes, all validators_passed
  rules,      \* rules
  work,       \* open passes
  desk,       \* the operator's open request
  approver,   \* history: what made an approved rule approved
  marred      \* history: rules whose metadata an older copy replaced

decodeVars == <<origin, candidates, rules, work, desk, approver, marred>>

Reviews == {"none", "pass", "fail", "denylist"}
Stamp == [review: Reviews,
          corrector: {"none", "openai", "claude"},
          action: {"none", "keep", "reject"}]
Rule == [status: {"approved", "rejected"}, claim: {"decode", "openai", "claude"},
         stamp: Stamp]
NoRule == [status |-> "none"]
NoStamp == [review |-> "none", corrector |-> "none", action |-> "none"]

\* What a pass keeps of a rule it has selected.
Seen(r) == [status |-> r.status, review |-> r.stamp.review]
Unread == [status |-> "none"]
Reading == [status: {"approved", "rejected"}, review: Reviews]

Verdict == {"pass", "fail", "denylist", "keep", "reject", "withheld"}
Idle == [kind |-> "idle", read |-> [i \in Id |-> Unread], verdict |-> [i \in Id |-> "none"]]
NoDesk == [id |-> "none"]

Origin == [by: {"openai", "claude"}, denied: BOOLEAN]
By(model) == {i \in Id : origin[i].by = model}

DecodeTypeOK ==
  /\ origin \in [Id -> Origin]
  /\ candidates \subseteq Id
  /\ rules \in [Id -> Rule \cup {NoRule}]
  /\ work \in [Worker -> [kind: {"idle", "review", "openai", "claude"},
                          read: [Id -> Reading \cup {Unread}],
                          verdict: [Id -> Verdict \cup {"none"}]]]
  /\ desk \in [id: Id, seen: Rule] \cup {NoDesk}
  /\ approver \in [Id -> {"none", "promotion", "corrector", "late", "operator"}]
  /\ marred \subseteq Id

DecodeInit ==
  /\ origin \in [Id -> Origin]
  /\ candidates = {}
  /\ rules = [i \in Id |-> NoRule]
  /\ work = [w \in Worker |-> Idle]
  /\ desk = NoDesk
  /\ approver = [i \in Id |-> "none"]
  /\ marred = {}

Is(r, status) == r # NoRule /\ r.status = status

-----------------------------------------------------------------------------
(* Decoding and promotion.                                                 *)

\* wp6_decode may decode a clause again (--redo): its insert overwrites the
\* logic of the candidate, never the status and never the rule.
DecodeClause ==
  \E S \in SUBSET By("openai") :
    /\ S # {} /\ candidates' = candidates \cup S
    /\ UNCHANGED <<origin, rules, work, desk, approver, marred>>

\* apply_decoded: the answers of Claude agents, ON CONFLICT DO NOTHING.
ApplyDecoded ==
  \E S \in SUBSET By("claude") :
    /\ S # {} /\ candidates' = candidates \cup S
    /\ UNCHANGED <<origin, rules, work, desk, approver, marred>>

\* INSERT ... SELECT with the candidate's id, ON CONFLICT (id) DO NOTHING.
Promoted(i) ==
  IF i \in candidates /\ rules[i] = NoRule
  THEN [status |-> "approved", claim |-> "decode", stamp |-> NoStamp]
  ELSE rules[i]

Promote ==
  /\ rules' = [i \in Id |-> Promoted(i)]
  /\ approver' = [i \in Id |-> IF Promoted(i) = rules[i] THEN approver[i] ELSE "promotion"]
  /\ UNCHANGED <<origin, candidates, work, desk, marred>>

-----------------------------------------------------------------------------
(* A pass selects its rules.                                               *)

ReviewQueue(redo) ==
  {i \in By("openai") :
    /\ Is(rules[i], "approved")
    /\ redo \/ rules[i].stamp.review = "none"}

\* Mutant: every rejected rule is recoverable.
InCombinedWhatever(r) == r # NoRule

\* _SCOPE_COMBINED: approved, or rejected but not by the source denylist.
InCombined(r) ==
  \/ Is(r, "approved")
  \/ Is(r, "rejected") /\ r.stamp.review # "denylist"

\* A pass skips the rules that carry its own tag, not those of another.
CorrectQueue(combined, redo) ==
  {i \in By("openai") :
    /\ IF combined THEN InCombined(rules[i]) ELSE Is(rules[i], "approved")
    /\ redo \/ rules[i].stamp.corrector # "openai"}

\* export_uncorrected; no code sets the parked mark it also looks for.
ExportQueue ==
  {i \in Id : Is(rules[i], "approved") /\ rules[i].stamp.corrector = "none"}

\* --limit and --council leave any part of the queue.
Begin(w, kind, queue) ==
  /\ work[w] = Idle
  /\ \E Q \in SUBSET queue :
       /\ Q # {}
       /\ work' = [work EXCEPT ![w] =
            [kind |-> kind,
             read |-> [i \in Id |-> IF i \in Q THEN Seen(rules[i]) ELSE Unread],
             verdict |-> [i \in Id |-> "none"]]]
  /\ UNCHANGED <<origin, candidates, rules, desk, approver, marred>>

BeginReview(w) == \E redo \in Redo : Begin(w, "review", ReviewQueue(redo))
BeginCorrect(w) ==
  \E redo \in Redo, combined \in BOOLEAN : Begin(w, "openai", CorrectQueue(combined, redo))
Export(w) == Begin(w, "claude", ExportQueue)

-----------------------------------------------------------------------------
(* The verdicts of a pass.                                                 *)

\* The rows an open transaction has updated.
Locked(i) ==
  \E w \in Worker : work[w].kind \in {"review", "openai"} /\ work[w].verdict[i] # "none"

\* The denylist answers without a model.  The numeral gate withholds a
\* correction of a Claude agent that states a number the quote does not.
Verdicts(kind, i) ==
  CASE kind = "review" -> IF origin[i].denied THEN {"denylist"} ELSE {"pass", "fail"}
    [] kind = "openai" -> {"keep", "reject"}
    [] OTHER -> {"keep", "reject", "withheld"}

\* The model answers and, but for an agent's file, the row is updated.
Judge(w, i) ==
  /\ work[w].read[i] # Unread /\ work[w].verdict[i] = "none"
  /\ work[w].kind = "claude" \/ ~Locked(i)
  /\ \E v \in Verdicts(work[w].kind, i) : work' = [work EXCEPT ![w].verdict[i] = v]
  /\ UNCHANGED <<origin, candidates, rules, desk, approver, marred>>

\* The call for one rule fails, or an agent leaves the rule out.
Skip(w, i) ==
  /\ work[w].read[i] # Unread /\ work[w].verdict[i] = "none"
  /\ work' = [work EXCEPT ![w].read[i] = Unread]
  /\ UNCHANGED <<origin, candidates, rules, desk, approver, marred>>

\* Mutants: PASS_SQL restores as KEEP_SQL does; KEEP_SQL rewrites only the
\* claim of a rule that is still approved.
ReviewedRestores(r, v) ==
  [status |-> IF v = "pass" THEN "approved" ELSE "rejected",
   claim |-> r.claim,
   stamp |-> [review |-> v, corrector |-> r.stamp.corrector, action |-> r.stamp.action]]
CorrectedIfApproved(r, v, kind) ==
  [status |-> IF v = "keep" THEN "approved" ELSE "rejected",
   claim |-> IF v = "keep" /\ r.status = "approved" THEN kind ELSE r.claim,
   stamp |-> [review |-> r.stamp.review, corrector |-> kind, action |-> v]]

\* PASS_SQL stamps and REJECT_SQL stamps and rejects.
Reviewed(r, v) ==
  [status |-> IF v = "pass" THEN r.status ELSE "rejected",
   claim |-> r.claim,
   stamp |-> [review |-> v, corrector |-> r.stamp.corrector, action |-> r.stamp.action]]

\* KEEP_SQL restores and rewrites as well.
Corrected(r, v, kind) ==
  [status |-> IF v = "keep" THEN "approved" ELSE "rejected",
   claim |-> IF v = "keep" THEN kind ELSE r.claim,
   stamp |-> [review |-> r.stamp.review, corrector |-> kind, action |-> v]]

Updates(w, i) == work[w].verdict[i] \notin {"none", "withheld"}

Written(w, i) ==
  IF ~Updates(w, i) THEN rules[i]
  ELSE IF work[w].kind = "review" THEN Reviewed(rules[i], work[w].verdict[i])
  ELSE Corrected(rules[i], work[w].verdict[i], work[w].kind)

\* A rule restored by a correction that did not see it as it was rejected
\* owes its approval to that lateness.
Restored(w, i) ==
  IF Updates(w, i) /\ work[w].verdict[i] = "keep" /\ rules[i].status = "rejected"
  THEN IF work[w].read[i] = Seen(rules[i]) THEN "corrector" ELSE "late"
  ELSE approver[i]

Write(w) ==
  /\ rules' = [i \in Id |-> Written(w, i)]
  /\ approver' = [i \in Id |-> Restored(w, i)]
  /\ UNCHANGED <<origin, candidates, desk, marred>>

\* The rules left of a pass after it has committed what it has judged.
Left(w) == [i \in Id |-> IF work[w].verdict[i] = "none" THEN work[w].read[i] ELSE Unread]

Commit(w) ==
  /\ work[w].kind \in {"review", "openai"}
  /\ \E i \in Id : work[w].verdict[i] # "none"
  /\ Write(w)
  /\ work' = [work EXCEPT ![w] =
       IF \A i \in Id : Left(w)[i] = Unread THEN Idle
       ELSE [kind |-> work[w].kind, read |-> Left(w), verdict |-> Idle.verdict]]

\* apply_corrections: the whole file in one transaction.  The file stays.
ApplyFile(w) ==
  /\ work[w].kind = "claude"
  /\ \A i \in Id : Updates(w, i) => ~Locked(i)
  /\ Write(w)
  /\ UNCHANGED work

\* A pass ends with nothing left, stops, or loses a deadlock and rolls back;
\* or a file is thrown away.
Stop(w) ==
  /\ work[w] # Idle
  /\ work' = [work EXCEPT ![w] = Idle]
  /\ UNCHANGED <<origin, candidates, rules, desk, approver, marred>>

-----------------------------------------------------------------------------
(* The open review and the operator.                                       *)

\* Rejects of the verdict files that are approved when they are updated.
OpenReview ==
  \E S \in SUBSET Id :
    /\ S # {} /\ \A i \in S : Is(rules[i], "approved") /\ ~Locked(i)
    /\ rules' = [i \in Id |-> IF i \in S
         THEN [status |-> "rejected", claim |-> rules[i].claim, stamp |-> rules[i].stamp]
         ELSE rules[i]]
    /\ UNCHANGED <<origin, candidates, work, desk, approver, marred>>

ReadRule(i) ==
  /\ desk = NoDesk /\ rules[i] # NoRule
  /\ desk' = [id |-> i, seen |-> rules[i]]
  /\ UNCHANGED <<origin, candidates, rules, work, approver, marred>>

\* The flush writes the columns that differ from what was read: the whole of
\* metadata_json, and the status unless the rule was read as rejected.
AfterReject(r, seen) ==
  [status |-> IF seen.status = "rejected" THEN r.status ELSE "rejected",
   claim |-> r.claim,
   stamp |-> seen.stamp]

RejectRule ==
  /\ desk # NoDesk /\ ~Locked(desk.id)
  /\ rules' = [rules EXCEPT ![desk.id] = AfterReject(rules[desk.id], desk.seen)]
  /\ marred' = IF desk.seen.stamp = rules[desk.id].stamp THEN marred ELSE marred \cup {desk.id}
  /\ desk' = NoDesk
  /\ UNCHANGED <<origin, candidates, work, approver>>

\* Idempotent if the rule was read as approved.
AfterApprove(r) == [status |-> "approved", claim |-> r.claim, stamp |-> r.stamp]

ApproveRule ==
  /\ desk # NoDesk
  /\ \/ desk.seen.status = "approved" /\ UNCHANGED <<rules, approver>>
     \/ /\ desk.seen.status = "rejected" /\ ~Locked(desk.id)
        /\ rules' = [rules EXCEPT ![desk.id] = AfterApprove(rules[desk.id])]
        /\ approver' = [approver EXCEPT ![desk.id] = "operator"]
  /\ desk' = NoDesk
  /\ UNCHANGED <<origin, candidates, work, marred>>

-----------------------------------------------------------------------------
DecodeNext ==
  \/ DecodeClause \/ ApplyDecoded \/ Promote
  \/ \E w \in Worker :
       \/ BeginReview(w) \/ BeginCorrect(w) \/ Export(w)
       \/ \E i \in Id : Judge(w, i) \/ Skip(w, i)
       \/ Commit(w) \/ ApplyFile(w) \/ Stop(w)
  \/ OpenReview
  \/ (\E i \in Id : ReadRule(i)) \/ RejectRule \/ ApproveRule

DecodeSpec == DecodeInit /\ [][DecodeNext]_decodeVars

-----------------------------------------------------------------------------
(* Correctness.  Rules whose stamps an operator's older copy replaced are  *)
(* left out of what the stamps promise.                                    *)

Trusted == {i \in Id \ marred : rules[i] # NoRule}

\* A rule whose source the denylist rejected is approved again only by the
\* operator, or by a correction that had selected it before: the passes that
\* start later leave it alone, whatever else rejects, restores or promotes.
DenylistStands ==
  \A i \in Trusted :
    rules[i].status = "approved" /\ rules[i].stamp.review = "denylist"
      => approver[i] \in {"late", "operator"}

\* An approved rule that the review found unfaithful has been restored since,
\* and one that the last correction rejected was restored by the operator: no
\* promotion run again and no review that passes it late brings it back.
RejectionsStand ==
  \A i \in Trusted : rules[i].status = "approved" =>
    /\ rules[i].stamp.review = "fail" => approver[i] # "promotion"
    /\ rules[i].stamp.action = "reject" => approver[i] = "operator"

\* When corrections of the two models overlap, the claim a rule carries is
\* that of the model whose stamp it carries (only Claude's pass the gate).
StampedClaim ==
  \A i \in Trusted :
    rules[i].stamp.action = "keep" => rules[i].claim = rules[i].stamp.corrector
=============================================================================
