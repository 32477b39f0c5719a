--------------------------- MODULE EnsembleVotes ---------------------------
(***************************************************************************)
(* The numeric rules of one source version and the operator scripts that   *)
(* fill them: extraction by an ensemble of models, adjudication, the two   *)
(* challenge rounds, a second family's vote batches, solo promotion, bulk  *)
(* approval and its revalidation, and reviews.                             *)
(*                                                                         *)
(* The scripts meet in one place: a rule is unique by source version and   *)
(* rule key, and the key is made of the base key, the density codes and    *)
(* the dwelling type, not of the clause, the value or the pathway.  A      *)
(* second promotion of a key writes value, operator, unit and quote over   *)
(* the rule that is there and leaves its other columns alone.              *)
(*                                                                         *)
(* A clause's text never changes, so a quote is known by its clause.  Atoms *)
(* that fail the validators are stored and never read again: left out.     *)
(* Bound: one pass of a model over a clause finds at most one atom.         *)
(***************************************************************************)
EXTENDS Adjudication

CONSTANTS
  Clause,        \* the clauses of the version
  Core, BaseOf,  \* (key, operator, value, unit), and the key of each
  Pathway, Code, Dwelling,
  Endpoint, FamilyOf,   \* the passes of the list of models, and their families
  Fresh,         \* the first and the last of the lists that may be configured
  BatchFamily,   \* the family whose votes come as batch files
  Offers,        \* the valid atoms each pass may find in each clause
  BulkItem,      \* candidates of an extraction report
  Limit,         \* --limit of a challenge run
  MaxGroups,     \* bound: extractions of each clause
  MaxAlt         \* keys a solo promotion tries beside the first (20)

Atom == [core: Core, path: Pathway, codes: SUBSET Code, dwelling: Dwelling]
Item == [core: Core, path: Pathway, codes: SUBSET Code, dwelling: Dwelling,
         clause: Clause, valid: BOOLEAN]

ASSUME DataAssumption ==
  /\ BaseOf \in [Core -> STRING] /\ AnyDwelling \in Dwelling
  /\ Offers \in [Clause -> [Endpoint \cup {"batch"} -> SUBSET Atom]] /\ BulkItem \subseteq Item
  /\ Limit \in Nat /\ MaxGroups \in [Clause -> Nat] /\ MaxAlt \in Nat
ASSUME EnsembleAssumption ==
  /\ FamilyOf \in [Endpoint -> STRING] /\ BatchFamily \in STRING
  /\ Fresh \subseteq Endpoint \X Endpoint /\ {"challenge", "batch"} \cap Endpoint = {}

VARIABLES
  cands,    \* rule_candidates with the wp6 mark
  rules,    \* rules, by rule_key
  bulk,     \* review_status of the candidate of each report item
  runner,   \* the extraction under way
  group,    \* extractions begun of each clause
  queue,    \* candidates a challenge round has selected
  tx,       \* a transaction over several ballots
  heard     \* history: which family has extracted which core from which clause,
            \* and whether both passes of a readjudication did

vars == <<cands, rules, bulk, runner, group, queue, tx, heard>>

NoAtom == [core |-> "none"]
Pass == Endpoint \cup {"challenge", "batch"}
Family == {FamilyOf[e] : e \in Endpoint} \cup {BatchFamily}
Status == {"validators_passed", "auto_promoted", "pending_review", "rejected"}
Cand == [core: Core, path: Pathway, codes: SUBSET Code, dwelling: Dwelling,
         clause: Clause, family: Family, pass: Pass, group: Nat,
         rep: BOOLEAN, status: Status,
         reason: {"", SingleFamily, Disagreement}, challenged: BOOLEAN]

Key == [base: {BaseOf[c] : c \in Core}, codes: SUBSET Code,
        dwelling: Dwelling, alt: 0 .. MaxAlt]
NoRule == [status |-> "none"]
Rule == [status: {"approved", "rejected", "pending_review"}, clause: Clause,
         core: Core, path: Pathway, quote: Clause, links: SUBSET Clause,
         by: {"ensemble", "solo", "bulk"}, based: BOOLEAN]
Exists(k) == rules[k].status # "none"
Approved(k) == rules[k].status = "approved"

Ballot == [clause: Clause, core: Core]
Finding == [clause: Clause, core: Core, family: Family, twice: BOOLEAN]
Idle == [kind |-> "none", todo |-> {}]

TypeOK ==
  /\ cands \subseteq Cand
  /\ rules \in [Key -> Rule \cup {NoRule}]
  /\ bulk \in [BulkItem -> {"absent", "pending_review", "auto_promoted"}]
  /\ runner \in [on: BOOLEAN, todo: SUBSET Clause, voted: SUBSET Clause]
  /\ group \in [Clause -> Nat]
  /\ queue \subseteq Cand
  /\ tx \in [kind: {"none", "extract", "adjudicate", "solo"},
             todo: SUBSET Ballot]
  /\ heard \subseteq Finding

Init ==
  /\ cands = {}
  /\ rules = [k \in Key |-> NoRule]
  /\ bulk = [i \in BulkItem |-> "absent"]
  /\ runner = [on |-> FALSE, todo |-> {}, voted |-> {}]
  /\ group = [c \in Clause |-> 0]
  /\ queue = {}
  /\ tx = Idle
  /\ heard = {}

-----------------------------------------------------------------------------
\* The scripts that call no model run in one transaction, in no order one can
\* rely on (the ids are random): the others wait for its commit.
Quiet == tx.todo = {}

KeyOf(core, codes, dwelling, n) ==
  [base |-> BaseOf[core], codes |-> codes, dwelling |-> dwelling, alt |-> n]

Hears(clause, core, families) ==
  heard \cup {[clause |-> clause, core |-> core, family |-> f, twice |-> FALSE] :
                f \in families}

\* insert_candidate
CandOf(a, c, family, pass, g, rep, status, reason) ==
  [core |-> a.core, path |-> a.path, codes |-> a.codes,
   dwelling |-> a.dwelling, clause |-> c, family |-> family, pass |-> pass,
   group |-> g, rep |-> rep, status |-> status, reason |-> reason,
   challenged |-> FALSE]

\* Mutants: the update leaves the quote, or takes the new row's status too.
OverwrittenKeepsQuote(r, c, core) ==
  [r EXCEPT !.core = core, !.based = TRUE, !.links = @ \cup {c}]
OverwrittenRevives(r, c, core) ==
  [r EXCEPT !.core = core, !.quote = c, !.based = TRUE, !.links = @ \cup {c},
            !.status = "approved"]

\* promote_rule: the row it inserts, and what it writes over the row that has
\* the key, whose clause, pathway and status stay.
Made(c, core, path) ==
  [status |-> "approved", clause |-> c, core |-> core, path |-> path,
   quote |-> c, links |-> {c}, by |-> "ensemble", based |-> TRUE]
Overwritten(r, c, core) ==
  [r EXCEPT !.core = core, !.quote = c, !.based = TRUE, !.links = @ \cup {c}]
Promoted(k, c, core, path) ==
  [rules EXCEPT ![k] = IF Exists(k) THEN Overwritten(@, c, core)
                       ELSE Made(c, core, path)]

SameSignature(a, b) ==
  a.core = b.core /\ a.path = b.path /\ a.codes = b.codes
  /\ a.dwelling = b.dwelling

-----------------------------------------------------------------------------
(* wp6_extract                                                             *)

\* Only one run holds the advisory lock of the version.  It works on the
\* clauses no rule of the ensemble is made from.
StartExtract ==
  /\ Quiet /\ ~runner.on
  /\ runner' = [on |-> TRUE, voted |-> {},
                todo |-> {c \in Clause :
                  /\ group[c] < MaxGroups[c]
                  /\ ~\E k \in Key : /\ Exists(k) /\ rules[k].clause = c
                                     /\ rules[k].by # "bulk"}]
  /\ runner'.todo # {}
  /\ UNCHANGED <<cands, rules, bulk, group, queue, tx, heard>>

\* One pass of each model, blind; the votes are committed before anything is
\* decided.  An endpoint that fails has no atom.
CastVotes(c, reply) ==
  LET voters == {e \in Endpoint : reply[e] # NoAtom} IN
  /\ Quiet /\ c \in runner.todo
  /\ cands' = cands \cup
       {CandOf(reply[e], c, FamilyOf[e], e, group[c] + 1, FALSE,
               "validators_passed", "") : e \in voters}
  /\ heard' = heard \cup {[clause |-> c, core |-> reply[e].core,
                           family |-> FamilyOf[e], twice |-> FALSE] : e \in voters}
  /\ group' = [group EXCEPT ![c] = @ + 1]
  /\ runner' = [runner EXCEPT !.todo = @ \ {c}, !.voted = @ \cup {c}]
  /\ UNCHANGED <<rules, bulk, queue, tx>>

\* What the worker still holds in memory: the votes of its own group.
GroupVotes(c, core) ==
  {v \in cands : /\ v.clause = c /\ v.core = core /\ ~v.rep
                 /\ v.pass # "batch" /\ v.group = group[c]}

BeginFinish(c) ==
  /\ Quiet /\ c \in runner.voted
  /\ tx' = [kind |-> "extract",
            todo |-> {[clause |-> c, core |-> core] : core \in
                        {x \in Core : GroupVotes(c, x) # {}}}]
  /\ runner' = [runner EXCEPT !.voted = @ \ {c}]
  /\ UNCHANGED <<cands, rules, bulk, group, queue, heard>>

\* A core of one family gets one challenge by a model of another.
ChallengeVote(b, votes, a, e) ==
  IF /\ ~TwoFamilies(votes) /\ a # NoAtom /\ a.core = b.core
     /\ \A v \in votes : v.family # FamilyOf[e]
  THEN {CandOf(a, b.clause, FamilyOf[e], "challenge", group[b.clause], FALSE,
               "validators_passed", "")}
  ELSE {}

\* The representative is stored beside the votes: promoted, with what was
\* merged, or as it stands, for review.
ExtractCore(b, a, e) ==
  LET extra == ChallengeVote(b, GroupVotes(b.clause, b.core), a, e)
      votes == GroupVotes(b.clause, b.core) \cup extra
      Rep(r, status, reason) ==
        CandOf(r, b.clause, r.family, r.pass, r.group, TRUE, status, reason)
  IN
  /\ tx.kind = "extract" /\ b \in tx.todo
  /\ tx' = [tx EXCEPT !.todo = @ \ {b}]
  /\ heard' = heard \cup {[clause |-> v.clause, core |-> v.core,
                           family |-> v.family, twice |-> FALSE] : v \in extra}
  /\ \E r \in votes :
       \/ \E path \in Pathway :
            LET agreed == Backing(votes, path)
                merged == [core |-> b.core, path |-> path,
                           codes |-> MergedCodes(agreed),
                           dwelling |-> MergedDwelling(agreed),
                           family |-> r.family, pass |-> r.pass,
                           group |-> r.group]
            IN
            /\ Promotes(votes, path)
            /\ cands' = cands \cup extra \cup {Rep(merged, "auto_promoted", "")}
            /\ rules' = Promoted(KeyOf(b.core, merged.codes, merged.dwelling, 0),
                                 b.clause, b.core, path)
       \/ /\ \A path \in Pathway : ~Promotes(votes, path)
          /\ cands' = cands \cup extra \cup
                       {Rep(r, "pending_review", PendingReason(votes))}
          /\ UNCHANGED rules
  /\ UNCHANGED <<bulk, runner, group, queue>>

\* The run ends, or is killed: the lock goes with its connection, and what a
\* worker held in memory is lost.
EndExtract ==
  /\ Quiet /\ runner.on
  /\ runner' = [on |-> FALSE, todo |-> {}, voted |-> {}]
  /\ UNCHANGED <<cands, rules, bulk, group, queue, tx, heard>>

-----------------------------------------------------------------------------
(* wp6_adjudicate                                                          *)

Votes(b) ==
  {v \in cands : /\ v.clause = b.clause /\ v.core = b.core
                 /\ v.status = "validators_passed"}

\* Only a rule that carries its base key counts: the solo ones do not.
AlreadyPromoted(b) ==
  \E k \in Key : /\ Approved(k) /\ rules[k].based /\ rules[k].by # "bulk"
                 /\ rules[k].clause = b.clause /\ rules[k].core = b.core

BeginAdjudicate ==
  /\ Quiet
  /\ tx' = [kind |-> "adjudicate",
            todo |-> {b \in Ballot : Votes(b) # {} /\ ~AlreadyPromoted(b)}]
  /\ tx'.todo # {}
  /\ UNCHANGED <<cands, rules, bulk, runner, group, queue, heard>>

\* cands with the rows of a set rewritten.
Rewrite(rows, New(_)) == (cands \ rows) \cup {New(v) : v \in rows}

AdjudicateCore(b) ==
  /\ tx.kind = "adjudicate" /\ b \in tx.todo
  /\ tx' = [tx EXCEPT !.todo = @ \ {b}]
  /\ \/ \E path \in Pathway :
          LET agreed == Backing(Votes(b), path)
              Mark(v) == [v EXCEPT !.status = "auto_promoted"]
          IN
          /\ Promotes(Votes(b), path)
          /\ rules' = Promoted(KeyOf(b.core, MergedCodes(agreed),
                                     MergedDwelling(agreed), 0),
                               b.clause, b.core, path)
          /\ cands' = Rewrite(Votes(b), Mark)
     \/ LET Mark(v) == [v EXCEPT !.reason = PendingReason(Votes(b))] IN
        /\ \A path \in Pathway : ~Promotes(Votes(b), path)
        /\ cands' = Rewrite(Votes(b), Mark)
        /\ UNCHANGED rules
  /\ UNCHANGED <<bulk, runner, group, queue, heard>>

-----------------------------------------------------------------------------
(* wp6_kimi_vote_apply                                                     *)

\* A batch of a second family; a clause that has one is skipped.
BatchVote(c, a) ==
  /\ Quiet
  /\ ~\E v \in cands : v.clause = c /\ v.pass = "batch"
  /\ cands' = cands \cup {CandOf(a, c, BatchFamily, "batch", 0, FALSE,
                                 "validators_passed", "")}
  /\ heard' = Hears(c, a.core, {BatchFamily})
  /\ UNCHANGED <<rules, bulk, runner, group, queue, tx>>
-----------------------------------------------------------------------------
(* wp9_pending_adjudicate and wp6_challenge                                *)

Pending(c) == {v \in cands : v.clause = c /\ v.status = "pending_review"}

BothPasses(passes) == \E e, f \in passes : e # f

\* The candidates of a clause that were pending when the run began are held
\* against two fresh passes, which may be of one family or of one model; a pass
\* that failed repeats nothing.
Readjudicate(c, fresh, pending, reply) ==
  LET Replied == {i \in 1 .. 2 : reply[i] # NoAtom}
      Same(v) == {i \in Replied : SameSignature(reply[i], v)}
      Confirmed(v) == BothPasses(Same(v))
      Judge(v) ==
        [v EXCEPT !.status = IF Confirmed(v) THEN "auto_promoted"
                             ELSE IF Same(v) = {} THEN "rejected" ELSE @]
  IN
  /\ Quiet /\ pending # {}
  /\ cands' = Rewrite(pending, Judge)
  /\ heard' = heard \cup
       {[clause |-> c, core |-> reply[i].core, family |-> FamilyOf[fresh[i]],
         twice |-> \E j \in Replied \ {i} : reply[j].core = reply[i].core] :
          i \in Replied}
  /\ IF \E v \in pending : Confirmed(v)
     THEN \E v \in pending :
            /\ Confirmed(v)
            /\ rules' = Promoted(KeyOf(v.core, v.codes, v.dwelling, 0),
                                 c, v.core, v.path)
     ELSE UNCHANGED rules
  /\ UNCHANGED <<bulk, runner, group, queue, tx>>

\* Candidates of one family that an adjudication left behind, up to --limit.
BeginChallenge ==
  /\ Quiet /\ queue = {}
  /\ queue' \in SUBSET {v \in cands : /\ v.status = "validators_passed"
                                     /\ v.reason = SingleFamily
                                     /\ ~v.challenged}
  /\ Cardinality(queue') \in 1 .. Limit
  /\ UNCHANGED <<cands, rules, bulk, runner, group, tx, heard>>

\* The row of a candidate, whatever has become of it.
RowOf(v) ==
  {w \in cands : /\ SameSignature(w, v) /\ w.clause = v.clause
                 /\ w.pass = v.pass /\ w.group = v.group /\ w.rep = v.rep}

\* Mutant: any model will do.
AnyEndpoint(v) == Endpoint
Challengers(v) == {e \in Endpoint : FamilyOf[e] # v.family}

\* Two passes by models of other families (e repeats it if one does), from the
\* candidate as selected; its row is written by id, also when it has been
\* promoted since.
ChallengeOne(v, e, repeats) ==
  LET Outcome(w) ==
        [w EXCEPT !.challenged = TRUE,
                  !.status = IF repeats = 2 THEN "auto_promoted"
                             ELSE IF repeats = 0 THEN "rejected" ELSE @]
  IN
  /\ Quiet /\ v \in queue
  /\ e \in Challengers(v)
  /\ queue' = queue \ {v}
  /\ cands' = Rewrite(RowOf(v), Outcome)
  /\ heard' = IF repeats = 0 THEN heard
              ELSE Hears(v.clause, v.core, {FamilyOf[e]})
  /\ rules' = IF repeats = 2
              THEN Promoted(KeyOf(v.core, v.codes, v.dwelling, 0),
                            v.clause, v.core, v.path)
              ELSE rules
  /\ UNCHANGED <<bulk, runner, group, tx>>

\* No endpoint of another family, or the run is killed.
DropChallenge(v) ==
  /\ Quiet /\ v \in queue
  /\ queue' = queue \ {v}
  /\ UNCHANGED <<cands, rules, bulk, runner, group, tx, heard>>

-----------------------------------------------------------------------------
(* wp6_solo_promote                                                        *)

Eligible(b) ==
  {v \in cands : /\ v.clause = b.clause /\ v.core = b.core
                 /\ v.status # "rejected"}

BeginSolo ==
  /\ Quiet
  /\ tx' = [kind |-> "solo", todo |-> {b \in Ballot : Eligible(b) # {}}]
  /\ tx'.todo # {}
  /\ UNCHANGED <<cands, rules, bulk, runner, group, queue, heard>>

\* One family is enough; codes that contradict are joined.
SoloCodes(votes) ==
  IF MergedCodes(votes) # {} THEN MergedCodes(votes)
  ELSE UNION Explicit(votes)

\* The specific types most votes name.
SoloDwelling(votes) ==
  IF Specific(votes) = {} THEN {AnyDwelling}
  ELSE {d \in Specific(votes) : \A e \in Specific(votes) :
          Cardinality({v \in votes : v.dwelling = e})
            <= Cardinality({v \in votes : v.dwelling = d})}

Covered(k, core) == Approved(k) /\ rules[k].core = core

\* An approved rule of this very key and core covers the ballot; else the
\* rule takes the first key that is free.
SoloCore(b) ==
  /\ tx.kind = "solo" /\ b \in tx.todo
  /\ tx' = [tx EXCEPT !.todo = @ \ {b}]
  /\ \/ \E path \in Pathway, n \in 0 .. MaxAlt :
          LET votes == Backing(Eligible(b), path) IN
          \E d \in SoloDwelling(votes) :
            LET K(i) == KeyOf(b.core, SoloCodes(votes), d, i) IN
            /\ Leads(Eligible(b), path)
            /\ ~Covered(K(0), b.core)
            /\ ~Exists(K(n)) /\ \A i \in 0 .. n - 1 : Exists(K(i))
            /\ rules' = [rules EXCEPT ![K(n)] =
                 [status |-> "approved", clause |-> b.clause, core |-> b.core,
                  path |-> path, quote |-> b.clause, links |-> {},
                  by |-> "solo", based |-> FALSE]]
     \/ /\ \A path \in Pathway : ~Leads(Eligible(b), path)
        /\ UNCHANGED rules
     \/ \E path \in Pathway :
          LET votes == Backing(Eligible(b), path) IN
          \E d \in SoloDwelling(votes) :
            LET K(i) == KeyOf(b.core, SoloCodes(votes), d, i) IN
            /\ Leads(Eligible(b), path)
            /\ \/ Covered(K(0), b.core)
               \/ \A i \in 0 .. MaxAlt : Exists(K(i))
            /\ UNCHANGED rules
  /\ UNCHANGED <<cands, bulk, runner, group, queue, heard>>

-----------------------------------------------------------------------------
(* bulk_approve_rules, revalidate_bulk_approved_rules, reviews             *)

ItemKey(i) == KeyOf(i.core, i.codes, i.dwelling, 0)

\* GOV-RULE-004 looks at rules that name a code.
Conflicts(i) ==
  i.codes # {} /\ Approved(ItemKey(i)) /\ rules[ItemKey(i)].core # i.core

\* A rule that has the key stays as it is, whatever its status and value: it
\* gets a link, and the candidate counts as promoted.
BulkApprove(i) ==
  LET k == ItemKey(i)
      passes == i.valid /\ ~Conflicts(i)
  IN
  /\ Quiet
  /\ bulk' = [bulk EXCEPT ![i] =
                IF passes THEN "auto_promoted" ELSE "pending_review"]
  /\ rules' =
       IF ~passes THEN rules
       ELSE IF Exists(k)
       THEN [rules EXCEPT ![k].links = @ \cup {i.clause}]
       ELSE [rules EXCEPT ![k] =
               [status |-> "approved", clause |-> i.clause, core |-> i.core,
                path |-> i.path, quote |-> i.clause, links |-> {i.clause},
                by |-> "bulk", based |-> FALSE]]
  /\ UNCHANGED <<cands, runner, group, queue, tx, heard>>

\* The universal validators of the rule as it is now against the clause it
\* names: its quote must be in that text.
Quarantine(k) ==
  /\ Quiet
  /\ Approved(k) /\ rules[k].by = "bulk" /\ rules[k].quote # rules[k].clause
  /\ rules' = [rules EXCEPT ![k].status = "pending_review"]
  /\ bulk' = [i \in BulkItem |->
               IF /\ ItemKey(i) = k /\ i.clause = rules[k].clause
                  /\ bulk[i] # "absent"
               THEN "pending_review" ELSE bulk[i]]
  /\ UNCHANGED <<cands, runner, group, queue, tx, heard>>

\* A verdict reject_* of the adversarial review, which finds the rule by its
\* id and no exceptions to add, or an operator's rejection.
Reject(k) ==
  /\ Quiet /\ Exists(k)
  /\ rules' = [rules EXCEPT ![k].status = "rejected"]
  /\ UNCHANGED <<cands, bulk, runner, group, queue, tx, heard>>

\* An operator approves.
Approve(k) ==
  /\ Quiet /\ Exists(k) /\ ~Approved(k)
  /\ rules' = [rules EXCEPT ![k].status = "approved"]
  /\ UNCHANGED <<cands, bulk, runner, group, queue, tx, heard>>

-----------------------------------------------------------------------------
Found(c, e) == Offers[c][e] \cup {NoAtom}
Replies(c, models) ==
  {reply \in [models -> UNION {Found(c, e) : e \in models}] :
     \A e \in models : reply[e] \in Found(c, e)}

\* How often a model may repeat a candidate in two passes.
Repeats(v, e) ==
  IF \E a \in Offers[v.clause][e] : SameSignature(a, v) THEN 0 .. 2 ELSE {0}

Extraction ==
  \/ StartExtract
  \/ \E c \in Clause : \E reply \in Replies(c, Endpoint) : CastVotes(c, reply)
  \/ \E c \in Clause : BeginFinish(c)
  \/ \E b \in tx.todo, e \in Endpoint : \E a \in Found(b.clause, e) :
       ExtractCore(b, a, e)
  \/ EndExtract
  \/ \E c \in Clause : \E a \in Offers[c]["batch"] : BatchVote(c, a)

Rounds ==
  \/ BeginAdjudicate
  \/ \E b \in tx.todo : AdjudicateCore(b)
  \/ \E c \in Clause, fresh \in Fresh :
       \E pending \in SUBSET Pending(c),
          reply \in Found(c, fresh[1]) \X Found(c, fresh[2]) :
         Readjudicate(c, fresh, pending, reply)
  \/ BeginChallenge
  \/ \E v \in queue, e \in Endpoint : \E n \in Repeats(v, e) :
       ChallengeOne(v, e, n)
  \/ \E v \in queue : DropChallenge(v)
  \/ BeginSolo
  \/ \E b \in tx.todo : SoloCore(b)

Approvals ==
  \/ \E i \in BulkItem : BulkApprove(i)
  \/ \E k \in Key : Quarantine(k) \/ Reject(k)

Scripts == Extraction \/ Rounds \/ Approvals

Next == Scripts \/ \E k \in Key : Approve(k)

Spec == Init /\ [][Next]_vars

-----------------------------------------------------------------------------
\* "Never guesses numbers": the quote and the value of a rule go together,
\* however many promotions have written over it: somebody extracted this
\* core from the clause that is quoted, and the rule names or links it.
RulesAnchored ==
  \A k \in Key : Exists(k) =>
    LET r == rules[k] IN
    /\ r.quote \in r.links \cup {r.clause}
    /\ \/ \E h \in heard : h.clause = r.quote /\ h.core = r.core
       \/ \E i \in BulkItem : /\ i.valid /\ i.clause = r.quote
                              /\ i.core = r.core

HeardFor(r) == {h \in heard : h.clause = r.quote /\ h.core = r.core}

\* A rule that the ensemble made or wrote over rests on no single pass, in
\* whatever order votes, challenges, readjudications and promotions of its key
\* come: the core it has now was extracted from the clause it quotes now by two
\* families, or by both passes of a readjudication, which may have one family.
HeardTwice ==
  \A k \in Key : Exists(k) /\ rules[k].based =>
    \/ TwoFamilies(HeardFor(rules[k]))
    \/ \E h \in HeardFor(rules[k]) : h.twice

\* No script brings a rule back that a review rejected or a revalidation
\* quarantined: only an operator does.
ReviewStands ==
  [][ \A k \in Key : Exists(k) /\ ~Approved(k) /\ Approved(k)' => Approve(k) ]_vars
=============================================================================
