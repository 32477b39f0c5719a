------------------------ MODULE EnsembleVotesProofs ------------------------
(***************************************************************************)
(* Theorems of the ensemble: whatever scripts run in whatever order, for   *)
(* any clauses, models and report items, the value of a rule was extracted *)
(* from the clause it quotes, where the ensemble wrote it by two families  *)
(* or by both passes of a readjudication, and no script brings a rejected  *)
(* rule back.                                                              *)
(*                                                                         *)
(* The votes need an invariant of their own: every candidate, also one a   *)
(* challenge round selected long ago, is an extraction somebody made.      *)
(***************************************************************************)
EXTENDS EnsembleVotes, TLAPS

\* The extractions of one core in one clause.
Heard(H, c, core) == {h \in H : h.clause = c /\ h.core = core}

\* They were of two families, or the two passes of a readjudication.
Twice(H) == TwoFamilies(H) \/ \E h \in H : h.twice

Extracted(v) ==
  [clause |-> v.clause, core |-> v.core, family |-> v.family, twice |-> FALSE]
VotesHeard == \A v \in cands \cup queue : Extracted(v) \in heard

IInv == TypeOK /\ VotesHeard /\ RulesAnchored /\ HeardTwice

Reasons == {"", SingleFamily, Disagreement}

-----------------------------------------------------------------------------
(* Operators                                                               *)

\* insert_candidate stores a candidate of the declared type.
LEMMA CandTyped ==
  ASSUME NEW a, a.core \in Core, a.path \in Pathway, a.codes \in SUBSET Code,
         a.dwelling \in Dwelling, NEW c \in Clause, NEW f \in Family,
         NEW p \in Pass, NEW g \in Nat, NEW rep \in BOOLEAN,
         NEW s \in Status, NEW r \in Reasons
  PROVE  CandOf(a, c, f, p, g, rep, s, r) \in Cand
BY DEF CandOf, Cand, Reasons

LEMMA Words ==
  /\ "validators_passed" \in Status /\ "auto_promoted" \in Status
  /\ "pending_review" \in Status /\ "rejected" \in Status
  /\ "" \in Reasons /\ \A votes : PendingReason(votes) \in Reasons
BY DEF Status, Reasons, PendingReason

\* What is merged of typed votes is typed.
LEMMA MergedTyped ==
  ASSUME NEW votes, votes \subseteq Cand
  PROVE  MergedCodes(votes) \in SUBSET Code /\ MergedDwelling(votes) \in Dwelling
<1>1. MergedCodes(votes) \in SUBSET Code
  <2>1. \A s \in Explicit(votes) : s \subseteq Code
    BY DEF Explicit, Cand
  <2> QED
    BY <2>1 DEF MergedCodes
<1>2. CASE Specific(votes) = {}
  BY <1>1, <1>2, DataAssumption DEF MergedDwelling
<1>3. CASE Specific(votes) # {}
  <2>1. Specific(votes) \subseteq Dwelling
    BY DEF Specific, Cand
  <2>2. MergedDwelling(votes) \in Specific(votes)
    BY <1>3 DEF MergedDwelling
  <2> QED
    BY <1>1, <2>1, <2>2
<1> QED
  BY <1>2, <1>3

LEMMA FamiliesTyped == \A e \in Endpoint : FamilyOf[e] \in Family
BY DEF Family

\* Two families among votes of a core in a clause are two families heard.
LEMMA VotesAreHeard ==
  ASSUME NEW votes, NEW c, NEW core, TwoFamilies(votes),
         \A v \in votes : v.clause = c /\ v.core = core /\ Extracted(v) \in heard'
  PROVE  Twice(Heard(heard', c, core))
<1>1. PICK v \in votes, w \in votes : v.family # w.family
  BY DEF TwoFamilies
<1> DEFINE x == Extracted(v)  y == Extracted(w)
<1>2. x \in Heard(heard', c, core) /\ y \in Heard(heard', c, core) /\ x.family # y.family
  BY <1>1 DEF Heard, Extracted
<1> QED
  BY <1>2 DEF Twice, TwoFamilies

-----------------------------------------------------------------------------
(* The rules                                                               *)

RulesSound == RulesAnchored /\ HeardTwice

\* What was heard twice stays heard twice.
LEMMA TwiceGrows ==
  ASSUME NEW H, NEW I, H \subseteq I, NEW c, NEW core, Twice(Heard(H, c, core))
  PROVE  Twice(Heard(I, c, core))
BY DEF Twice, TwoFamilies, Heard

\* The property, in these words.
LEMMA TwiceOfRules ==
  HeardTwice <=> \A k \in Key : Exists(k) /\ rules[k].based =>
                   Twice(Heard(heard, rules[k].quote, rules[k].core))
BY DEF HeardTwice, HeardFor, Twice, Heard

LEMMA TwiceOfRulesPrime ==
  HeardTwice' <=> \A k \in Key : Exists(k)' /\ rules'[k].based =>
                    Twice(Heard(heard', rules'[k].quote, rules'[k].core))
BY DEF HeardTwice, HeardFor, Twice, Heard

LEMMA RulesStand ==
  ASSUME RulesSound, rules' = rules, heard \subseteq heard'
  PROVE  RulesSound'
<1>1. ASSUME NEW k \in Key, Exists(k)' PROVE Exists(k)
  BY <1>1 DEF Exists
<1>2. RulesAnchored'
  BY <1>1 DEF RulesSound, RulesAnchored
<1>3. HeardTwice'
  BY <1>1, TwiceOfRules, TwiceOfRulesPrime, TwiceGrows DEF RulesSound
<1> QED
  BY <1>2, <1>3 DEF RulesSound

\* One rule is written and the others stand.
LEMMA OneRuleWritten ==
  ASSUME RulesSound, TypeOK, heard \subseteq heard', NEW k, NEW r,
         rules' = [rules EXCEPT ![k] = r],
         r.quote \in r.links \cup {r.clause},
         \/ \E h \in heard' : h.clause = r.quote /\ h.core = r.core
         \/ \E i \in BulkItem : i.valid /\ i.clause = r.quote /\ i.core = r.core,
         r.based => Twice(Heard(heard', r.quote, r.core))
  PROVE  RulesSound'
<1>1. ASSUME NEW l \in Key PROVE l = k \/ rules'[l] = rules[l]
  BY DEF TypeOK
<1>2. ASSUME NEW l \in Key, l = k PROVE rules'[l] = r
  BY <1>2 DEF TypeOK
<1>3. RulesAnchored'
  <2> SUFFICES ASSUME NEW l \in Key, Exists(l)'
               PROVE  /\ rules'[l].quote \in rules'[l].links \cup {rules'[l].clause}
                      /\ \/ \E h \in heard' : h.clause = rules'[l].quote /\ h.core = rules'[l].core
                         \/ \E i \in BulkItem : /\ i.valid /\ i.clause = rules'[l].quote
                                                /\ i.core = rules'[l].core
    BY DEF RulesAnchored
  <2>1. CASE l = k
    BY <2>1, <1>2
  <2>2. CASE rules'[l] = rules[l]
    <3>1. Exists(l)
      BY <2>2 DEF Exists
    <3> QED
      BY <2>2, <3>1 DEF RulesSound, RulesAnchored
  <2> QED
    BY <1>1, <2>1, <2>2
<1>4. HeardTwice'
  <2> SUFFICES ASSUME NEW l \in Key, Exists(l)', rules'[l].based
               PROVE  Twice(Heard(heard', rules'[l].quote, rules'[l].core))
    BY TwiceOfRulesPrime
  <2>1. CASE l = k
    BY <2>1, <1>2
  <2>2. CASE rules'[l] = rules[l]
    <3>1. Exists(l) /\ rules[l].based
      BY <2>2 DEF Exists
    <3>2. Twice(Heard(heard, rules[l].quote, rules[l].core))
      BY <3>1, TwiceOfRules DEF RulesSound
    <3> QED
      BY <2>2, <3>2, TwiceGrows
  <2> QED
    BY <1>1, <2>1, <2>2
<1> QED
  BY <1>3, <1>4 DEF RulesSound

\* A promotion of what was heard twice keeps the rules sound,
\* whether it makes the rule or writes over it, and typed.
LEMMA PromotionSound ==
  ASSUME TypeOK, RulesSound, heard \subseteq heard', NEW k,
         NEW c \in Clause, NEW core \in Core, NEW path \in Pathway,
         Twice(Heard(heard', c, core)), rules' = Promoted(k, c, core, path)
  PROVE  RulesSound' /\ rules' \in [Key -> Rule \cup {NoRule}]
<1>1. \E h \in heard' : h.clause = c /\ h.core = core
  BY DEF Twice, TwoFamilies, Heard
<1>2. CASE k \notin Key
  <2>1. rules' = rules
    BY <1>2 DEF Promoted, TypeOK
  <2> QED
    BY <2>1, RulesStand DEF TypeOK
<1>3. CASE k \in Key /\ Exists(k)
  <2>1. rules[k] \in Rule
    BY <1>3 DEF TypeOK, Exists, NoRule
  <2> DEFINE r == Overwritten(rules[k], c, core)
  <2>2. r \in Rule /\ r.quote = c /\ r.core = core /\ c \in r.links
    BY <2>1 DEF Overwritten, Rule
  <2>3. rules' = [rules EXCEPT ![k] = r]
    BY <1>3 DEF Promoted
  <2> HIDE DEF r
  <2>4. RulesSound'
    BY <1>1, <2>2, <2>3, OneRuleWritten
  <2> QED
    BY <2>2, <2>3, <2>4 DEF TypeOK
<1>4. CASE k \in Key /\ ~Exists(k)
  <2> DEFINE r == Made(c, core, path)
  <2>1. r \in Rule /\ r.quote = c /\ r.core = core /\ c \in r.links
    BY DEF Made, Rule
  <2>2. rules' = [rules EXCEPT ![k] = r]
    BY <1>4 DEF Promoted
  <2> HIDE DEF r
  <2>3. RulesSound'
    BY <1>1, <2>1, <2>2, OneRuleWritten
  <2> QED
    BY <2>1, <2>2, <2>3 DEF TypeOK
<1> QED
  BY <1>2, <1>3, <1>4

\* A review or a quarantine changes the status and nothing else.
LEMMA StatusSound ==
  ASSUME TypeOK, RulesSound, heard' = heard, NEW k \in Key, Exists(k),
         NEW s \in {"approved", "rejected", "pending_review"},
         rules' = [rules EXCEPT ![k].status = s]
  PROVE  RulesSound' /\ rules' \in [Key -> Rule \cup {NoRule}]
<1>1. rules[k] \in Rule
  BY DEF TypeOK, Exists, NoRule
<1> DEFINE r == [rules[k] EXCEPT !.status = s]
<1>2. r \in Rule /\ r.quote = rules[k].quote /\ r.links = rules[k].links
      /\ r.clause = rules[k].clause /\ r.core = rules[k].core
      /\ r.based = rules[k].based
  BY <1>1 DEF Rule
<1>3. rules' = [rules EXCEPT ![k] = r]
  OBVIOUS
<1> HIDE DEF r
<1>4. rules[k].based => Twice(Heard(heard', rules[k].quote, rules[k].core))
  BY TwiceOfRules DEF RulesSound
<1>5. r.quote \in r.links \cup {r.clause}
  BY <1>2 DEF RulesSound, RulesAnchored
<1>6. \/ \E h \in heard' : h.clause = r.quote /\ h.core = r.core
      \/ \E i \in BulkItem : i.valid /\ i.clause = r.quote /\ i.core = r.core
  BY <1>2 DEF RulesSound, RulesAnchored
<1>7. r.based => Twice(Heard(heard', r.quote, r.core))
  BY <1>2, <1>4
<1>8. RulesSound'
  BY <1>3, <1>5, <1>6, <1>7, OneRuleWritten
<1> QED
  BY <1>2, <1>3, <1>8 DEF TypeOK

-----------------------------------------------------------------------------
(* The steps                                                               *)

\* Votes and rules of a step that writes no rule and forgets no extraction.
LEMMA OnlyVotes ==
  ASSUME IInv, rules' = rules, heard \subseteq heard', TypeOK',
         \A v \in cands' \cup queue' : v \in cands \cup queue \/ Extracted(v) \in heard'
  PROVE  IInv'
<1>1. RulesSound'
  BY RulesStand DEF IInv, RulesSound
<1>2. VotesHeard'
  BY DEF IInv, VotesHeard
<1> QED
  BY <1>1, <1>2 DEF IInv, RulesSound

\* A step that changes neither candidates nor rules.
LEMMA Bookkeeping ==
  ASSUME IInv, UNCHANGED <<cands, rules, heard>>, queue' \subseteq queue \cup cands, TypeOK'
  PROVE  IInv'
BY OnlyVotes

LEMMA StartExtractInv == ASSUME IInv, StartExtract PROVE IInv'
<1>1. TypeOK'
  BY DEF StartExtract, IInv, TypeOK
<1> QED
  BY <1>1, Bookkeeping DEF StartExtract

LEMMA BeginFinishInv ==
  ASSUME IInv, NEW c \in Clause, BeginFinish(c) PROVE IInv'
<1>1. tx' \in [kind: {"none", "extract", "adjudicate", "solo"}, todo: SUBSET Ballot]
  BY DEF BeginFinish, Ballot
<1>2. TypeOK'
  BY <1>1 DEF BeginFinish, IInv, TypeOK
<1> QED
  BY <1>2, Bookkeeping DEF BeginFinish

LEMMA EndExtractInv == ASSUME IInv, EndExtract PROVE IInv'
<1>1. TypeOK'
  BY DEF EndExtract, IInv, TypeOK
<1> QED
  BY <1>1, Bookkeeping DEF EndExtract

LEMMA BeginAdjudicateInv == ASSUME IInv, BeginAdjudicate PROVE IInv'
<1>1. TypeOK'
  BY DEF BeginAdjudicate, IInv, TypeOK
<1> QED
  BY <1>1, Bookkeeping DEF BeginAdjudicate

LEMMA BeginSoloInv == ASSUME IInv, BeginSolo PROVE IInv'
<1>1. TypeOK'
  BY DEF BeginSolo, IInv, TypeOK
<1> QED
  BY <1>1, Bookkeeping DEF BeginSolo

LEMMA BeginChallengeInv == ASSUME IInv, BeginChallenge PROVE IInv'
<1>1. queue' \subseteq cands
  BY DEF BeginChallenge
<1>2. TypeOK'
  BY <1>1 DEF BeginChallenge, IInv, TypeOK
<1> QED
  BY <1>1, <1>2, Bookkeeping DEF BeginChallenge

LEMMA DropChallengeInv ==
  ASSUME IInv, NEW v \in queue, DropChallenge(v) PROVE IInv'
<1>1. TypeOK'
  BY DEF DropChallenge, IInv, TypeOK
<1> QED
  BY <1>1, Bookkeeping DEF DropChallenge

\* The atoms a pass may find are atoms.
LEMMA RepliesTyped ==
  ASSUME NEW c \in Clause, NEW models \in SUBSET Endpoint,
         NEW reply \in Replies(c, models), NEW e \in models, reply[e] # NoAtom
  PROVE  reply[e] \in Atom
BY DataAssumption DEF Replies, Found

LEMMA CastVotesInv ==
  ASSUME IInv, NEW c \in Clause, NEW reply \in Replies(c, Endpoint),
         CastVotes(c, reply)
  PROVE  IInv'
<1> DEFINE voters == {e \in Endpoint : reply[e] # NoAtom}
           Vote(e) == CandOf(reply[e], c, FamilyOf[e], e, group[c] + 1, FALSE,
                             "validators_passed", "")
           Hearing(e) == [clause |-> c, core |-> reply[e].core, family |-> FamilyOf[e],
                         twice |-> FALSE]
<1>1. \A e \in voters : Vote(e) \in Cand /\ Extracted(Vote(e)) = Hearing(e)
  <2> TAKE e \in voters
  <2>1. reply[e] \in Atom
    BY RepliesTyped
  <2>2. group[c] + 1 \in Nat /\ FamilyOf[e] \in Family /\ e \in Pass
    BY FamiliesTyped DEF IInv, TypeOK, Pass
  <2>3. Vote(e) \in Cand
    BY <2>1, <2>2, CandTyped, Words DEF Atom
  <2> QED
    BY <2>3 DEF CandOf, Extracted
<1>2. cands' = cands \cup {Vote(e) : e \in voters}
  BY DEF CastVotes
<1>3. heard' = heard \cup {Hearing(e) : e \in voters}
  BY DEF CastVotes
<1>4. \A e \in voters : Hearing(e) \in Finding
  BY RepliesTyped, FamiliesTyped DEF Atom, Finding
<1> HIDE DEF Vote, Hearing, voters
<1>5. TypeOK'
  <2>1. cands' \subseteq Cand /\ heard' \subseteq Finding
    BY <1>1, <1>2, <1>3, <1>4 DEF IInv, TypeOK
  <2>2. group' \in [Clause -> Nat]
    <3>1. group \in [Clause -> Nat] /\ group' = [group EXCEPT ![c] = group[c] + 1]
      BY DEF CastVotes, IInv, TypeOK
    <3> QED
      BY <3>1
  <2>3. runner' \in [on: BOOLEAN, todo: SUBSET Clause, voted: SUBSET Clause]
    BY DEF CastVotes, IInv, TypeOK
  <2> QED
    BY <2>1, <2>2, <2>3 DEF CastVotes, IInv, TypeOK
<1>6. \A v \in cands' \cup queue' : v \in cands \cup queue \/ Extracted(v) \in heard'
  BY <1>1, <1>2, <1>3 DEF CastVotes
<1> QED
  BY <1>3, <1>5, <1>6, OnlyVotes DEF CastVotes

LEMMA BatchVoteInv ==
  ASSUME IInv, NEW c \in Clause, NEW a \in Offers[c]["batch"], BatchVote(c, a)
  PROVE  IInv'
<1> DEFINE v == CandOf(a, c, BatchFamily, "batch", 0, FALSE, "validators_passed", "")
           h == [clause |-> c, core |-> a.core, family |-> BatchFamily, twice |-> FALSE]
<1>1. a \in Atom
  BY DataAssumption
<1>2. BatchFamily \in Family /\ "batch" \in Pass
  BY DEF Family, Pass
<1>5. v \in Cand
  BY <1>1, <1>2, CandTyped, Words DEF Atom
<1>6. Extracted(v) = h
  BY DEF CandOf, Extracted
<1>3. cands' = cands \cup {v} /\ heard' = heard \cup {h}
  BY DEF BatchVote, Hears
<1>4. h \in Finding
  BY <1>1 DEF Atom, Family, Finding
<1> HIDE DEF v, h
<1>7. TypeOK'
  BY <1>3, <1>4, <1>5 DEF BatchVote, IInv, TypeOK
<1> QED
  BY <1>3, <1>6, <1>7, OnlyVotes DEF BatchVote

\* One ballot of an extraction is decided: a challenge may add one vote.
LEMMA ExtractCoreInv ==
  ASSUME IInv, NEW b \in tx.todo, NEW e \in Endpoint, NEW a \in Found(b.clause, e),
         ExtractCore(b, a, e)
  PROVE  IInv'
<1> DEFINE own == GroupVotes(b.clause, b.core)
           extra == ChallengeVote(b, own, a, e)
           votes == own \cup extra
           g == group[b.clause]
<1>1. b \in Ballot /\ b.clause \in Clause /\ b.core \in Core /\ g \in Nat
  BY DEF IInv, TypeOK, Ballot
<1>2. /\ own \subseteq cands /\ \A v \in own : v.clause = b.clause /\ v.core = b.core
  BY DEF GroupVotes
<1>3. extra \subseteq Cand /\ \A v \in extra : v.clause = b.clause /\ v.core = b.core
  <2>1. CASE extra = {}
    BY <2>1
  <2>2. CASE a # NoAtom /\ a.core = b.core
             /\ extra = {CandOf(a, b.clause, FamilyOf[e], "challenge", g, FALSE,
                                "validators_passed", "")}
    <3>1. a \in Atom
      BY <1>1, <2>2, DataAssumption DEF Found
    <3>2. FamilyOf[e] \in Family /\ "challenge" \in Pass
      BY FamiliesTyped DEF Pass
    <3>3. CandOf(a, b.clause, FamilyOf[e], "challenge", g, FALSE,
                 "validators_passed", "") \in Cand
      BY <1>1, <3>1, <3>2, CandTyped, Words DEF Atom
    <3> DEFINE w == CandOf(a, b.clause, FamilyOf[e], "challenge", g, FALSE,
                           "validators_passed", "")
    <3>4. w.clause = b.clause /\ w.core = b.core
      BY <2>2 DEF CandOf
    <3> HIDE DEF w
    <3> QED
      BY <2>2, <3>3, <3>4 DEF w
  <2> QED
    BY <2>1, <2>2 DEF ChallengeVote
<1>4. heard' = heard \cup {Extracted(v) : v \in extra}
  BY DEF ExtractCore, Extracted
<1>5. \A v \in votes : /\ v \in Cand /\ v.clause = b.clause /\ v.core = b.core
                       /\ Extracted(v) \in heard'
  BY <1>2, <1>3, <1>4 DEF IInv, TypeOK, VotesHeard
<1>6. heard' \subseteq Finding
  <2>1. \A v \in Cand : Extracted(v) \in Finding
    BY DEF Extracted, Cand, Finding
  <2> HIDE DEF extra
  <2> QED
    BY <1>3, <1>4, <2>1 DEF IInv, TypeOK
<1>7. tx' \in [kind: {"none", "extract", "adjudicate", "solo"}, todo: SUBSET Ballot]
  BY DEF ExtractCore, IInv, TypeOK
<1>8. UNCHANGED <<bulk, runner, group, queue>>
  BY DEF ExtractCore
\* The two outcomes, given what they store and write.
<1>9. ASSUME NEW w \in Cand, Extracted(w) \in heard',
             cands' = cands \cup extra \cup {w},
             RulesSound', rules' \in [Key -> Rule \cup {NoRule}]
      PROVE  IInv'
  <2>1. TypeOK'
    BY <1>3, <1>6, <1>7, <1>8, <1>9 DEF IInv, TypeOK
  <2>2. VotesHeard'
    BY <1>4, <1>5, <1>8, <1>9 DEF IInv, VotesHeard
  <2> QED
    BY <2>1, <2>2, <1>9 DEF IInv, RulesSound
<1>10. PICK r \in votes :
         \/ \E path \in Pathway :
              LET agreed == Backing(votes, path)
                  merged == [core |-> b.core, path |-> path,
                             codes |-> MergedCodes(agreed),
                             dwelling |-> MergedDwelling(agreed),
                             family |-> r.family, pass |-> r.pass,
                             group |-> r.group]
              IN
              /\ Promotes(votes, path)
              /\ cands' = cands \cup extra \cup
                   {CandOf(merged, b.clause, r.family, r.pass, r.group, TRUE,
                           "auto_promoted", "")}
              /\ rules' = Promoted(KeyOf(b.core, merged.codes, merged.dwelling, 0),
                                   b.clause, b.core, path)
         \/ /\ cands' = cands \cup extra \cup
                 {CandOf(r, b.clause, r.family, r.pass, r.group, TRUE,
                         "pending_review", PendingReason(votes))}
            /\ UNCHANGED rules
  BY DEF ExtractCore
<1>11. r.family \in Family /\ r.pass \in Pass /\ r.group \in Nat /\ r \in Cand
       /\ r.core = b.core /\ r.clause = b.clause /\ Extracted(r) \in heard'
  BY <1>5 DEF Cand
<1>12. ASSUME NEW path \in Pathway, Promotes(votes, path),
              NEW m, m.core = b.core, m.path = path,
              m.codes = MergedCodes(Backing(votes, path)),
              m.dwelling = MergedDwelling(Backing(votes, path)),
              cands' = cands \cup extra \cup
                {CandOf(m, b.clause, r.family, r.pass, r.group, TRUE, "auto_promoted", "")},
              rules' = Promoted(KeyOf(b.core, m.codes, m.dwelling, 0),
                                b.clause, b.core, path)
       PROVE  IInv'
  <2> DEFINE w == CandOf(m, b.clause, r.family, r.pass, r.group, TRUE, "auto_promoted", "")
  <2>1. Backing(votes, path) \subseteq votes /\ TwoFamilies(Backing(votes, path))
    BY <1>12 DEF Promotes, Wins, Backing
  <2>2. Twice(Heard(heard', b.clause, b.core))
    BY <2>1, <1>5, VotesAreHeard
  <2>3. RulesSound' /\ rules' \in [Key -> Rule \cup {NoRule}]
    BY <1>1, <1>4, <1>12, <2>2, PromotionSound DEF IInv, RulesSound
  <2>4. w \in Cand
    <3>1. m.codes \in SUBSET Code /\ m.dwelling \in Dwelling
      BY <1>5, <1>12, <2>1, MergedTyped
    <3> QED
      BY <1>1, <1>11, <1>12, <3>1, CandTyped, Words
  <2>5. Extracted(w) = Extracted(r)
    BY <1>11, <1>12 DEF CandOf, Extracted
  <2> HIDE DEF w
  <2>6. cands' = cands \cup extra \cup {w}
    BY <1>12 DEF w
  <2> QED
    BY <1>9, <1>11, <2>3, <2>4, <2>5, <2>6
<1>13. CASE \E path \in Pathway :
              LET agreed == Backing(votes, path)
                  merged == [core |-> b.core, path |-> path,
                             codes |-> MergedCodes(agreed),
                             dwelling |-> MergedDwelling(agreed),
                             family |-> r.family, pass |-> r.pass,
                             group |-> r.group]
              IN
              /\ Promotes(votes, path)
              /\ cands' = cands \cup extra \cup
                   {CandOf(merged, b.clause, r.family, r.pass, r.group, TRUE,
                           "auto_promoted", "")}
              /\ rules' = Promoted(KeyOf(b.core, merged.codes, merged.dwelling, 0),
                                   b.clause, b.core, path)
  <2> HIDE DEF own, extra, votes
  <2>1. PICK path \in Pathway :
          LET agreed == Backing(votes, path)
              merged == [core |-> b.core, path |-> path,
                         codes |-> MergedCodes(agreed),
                         dwelling |-> MergedDwelling(agreed),
                         family |-> r.family, pass |-> r.pass,
                         group |-> r.group]
          IN
          /\ Promotes(votes, path)
          /\ cands' = cands \cup extra \cup
               {CandOf(merged, b.clause, r.family, r.pass, r.group, TRUE,
                       "auto_promoted", "")}
          /\ rules' = Promoted(KeyOf(b.core, merged.codes, merged.dwelling, 0),
                               b.clause, b.core, path)
    BY <1>13
  <2> DEFINE m == [core |-> b.core, path |-> path,
                   codes |-> MergedCodes(Backing(votes, path)),
                   dwelling |-> MergedDwelling(Backing(votes, path)),
                   family |-> r.family, pass |-> r.pass, group |-> r.group]
  <2>2. /\ Promotes(votes, path)
        /\ cands' = cands \cup extra \cup
             {CandOf(m, b.clause, r.family, r.pass, r.group, TRUE, "auto_promoted", "")}
        /\ rules' = Promoted(KeyOf(b.core, m.codes, m.dwelling, 0), b.clause, b.core, path)
    BY <2>1
  <2>3. /\ m.core = b.core /\ m.path = path
        /\ m.codes = MergedCodes(Backing(votes, path))
        /\ m.dwelling = MergedDwelling(Backing(votes, path))
    OBVIOUS
  <2> HIDE DEF m
  <2> QED
    BY <1>12, <2>2, <2>3
<1>14. CASE /\ cands' = cands \cup extra \cup
                 {CandOf(r, b.clause, r.family, r.pass, r.group, TRUE,
                         "pending_review", PendingReason(votes))}
            /\ UNCHANGED rules
  <2> DEFINE w == CandOf(r, b.clause, r.family, r.pass, r.group, TRUE,
                         "pending_review", PendingReason(votes))
  <2>1. w \in Cand
    BY <1>1, <1>11, CandTyped, Words DEF Cand
  <2>2. Extracted(w) = Extracted(r)
    BY <1>11 DEF CandOf, Extracted
  <2>3. RulesSound' /\ rules' \in [Key -> Rule \cup {NoRule}]
    BY <1>4, <1>14, RulesStand DEF IInv, RulesSound, TypeOK
  <2> HIDE DEF w
  <2>4. cands' = cands \cup extra \cup {w}
    BY <1>14 DEF w
  <2> QED
    BY <1>9, <1>11, <2>1, <2>2, <2>3, <2>4
<1> QED
  BY <1>10, <1>13, <1>14

LEMMA AdjudicateCoreInv ==
  ASSUME IInv, NEW b \in tx.todo, AdjudicateCore(b)
  PROVE  IInv'
<1>1. b \in Ballot /\ b.clause \in Clause /\ b.core \in Core
  BY DEF IInv, TypeOK, Ballot
<1>2. tx' \in [kind: {"none", "extract", "adjudicate", "solo"}, todo: SUBSET Ballot]
  BY DEF AdjudicateCore, IInv, TypeOK
<1>3. UNCHANGED <<bulk, runner, group, queue, heard>>
  BY DEF AdjudicateCore
<1>4. ASSUME VotesHeard', cands' \subseteq Cand, RulesSound',
             rules' \in [Key -> Rule \cup {NoRule}]
      PROVE  IInv'
  BY <1>2, <1>3, <1>4 DEF IInv, TypeOK, RulesSound
<1>5. Votes(b) \in SUBSET cands /\ Votes(b) \subseteq Cand
  BY DEF Votes, IInv, TypeOK
<1>6. CASE \E path \in Pathway :
             /\ Promotes(Votes(b), path)
             /\ rules' = Promoted(KeyOf(b.core, MergedCodes(Backing(Votes(b), path)),
                                        MergedDwelling(Backing(Votes(b), path)), 0),
                                  b.clause, b.core, path)
             /\ cands' = (cands \ Votes(b)) \cup
                  {[v EXCEPT !.status = "auto_promoted"] : v \in Votes(b)}
  <2>1. PICK path \in Pathway :
          /\ Promotes(Votes(b), path)
          /\ rules' = Promoted(KeyOf(b.core, MergedCodes(Backing(Votes(b), path)),
                                     MergedDwelling(Backing(Votes(b), path)), 0),
                               b.clause, b.core, path)
    BY <1>6
  <2>2. TwoFamilies(Backing(Votes(b), path)) /\ Backing(Votes(b), path) \subseteq Votes(b)
    BY <2>1 DEF Promotes, Wins, Backing
  <2>3. \A v \in Votes(b) : v.clause = b.clause /\ v.core = b.core /\ Extracted(v) \in heard'
    BY <1>3, <1>5 DEF Votes, IInv, VotesHeard
  <2>4. Twice(Heard(heard', b.clause, b.core))
    BY <2>2, <2>3, VotesAreHeard
  <2>5. RulesSound' /\ rules' \in [Key -> Rule \cup {NoRule}]
    BY <1>1, <1>3, <2>1, <2>4, PromotionSound DEF IInv, RulesSound
  <2> DEFINE Mark(v) == [v EXCEPT !.status = "auto_promoted"]
  <2>6. \A v \in Votes(b) : Mark(v) \in Cand /\ Extracted(v) = Extracted(Mark(v))
    BY <1>5, Words DEF Cand, Extracted
  <2>7. cands' = (cands \ Votes(b)) \cup {Mark(v) : v \in Votes(b)}
    BY <1>6
  <2> HIDE DEF Mark
  <2>8. VotesHeard' /\ cands' \subseteq Cand
    BY <1>3, <1>5, <2>6, <2>7 DEF IInv, TypeOK, VotesHeard
  <2> QED
    BY <1>4, <2>5, <2>8
<1>7. CASE /\ cands' = (cands \ Votes(b)) \cup
                {[v EXCEPT !.reason = PendingReason(Votes(b))] : v \in Votes(b)}
           /\ UNCHANGED rules
  <2> DEFINE Mark(v) == [v EXCEPT !.reason = PendingReason(Votes(b))]
  <2>1. PendingReason(Votes(b)) \in {"", SingleFamily, Disagreement}
    BY Words DEF Reasons
  <2>2. \A v \in Votes(b) : Mark(v) \in Cand /\ Extracted(v) = Extracted(Mark(v))
    BY <1>5, <2>1 DEF Cand, Extracted
  <2>3. cands' = (cands \ Votes(b)) \cup {Mark(v) : v \in Votes(b)}
    BY <1>7
  <2> HIDE DEF Mark
  <2>4. VotesHeard' /\ cands' \subseteq Cand
    BY <1>3, <1>5, <2>2, <2>3 DEF IInv, TypeOK, VotesHeard
  <2>5. RulesSound' /\ rules' \in [Key -> Rule \cup {NoRule}]
    BY <1>3, <1>7, RulesStand DEF IInv, RulesSound, TypeOK
  <2> QED
    BY <1>4, <2>4, <2>5
<1> QED
  BY <1>6, <1>7 DEF AdjudicateCore, Rewrite

\* A judged candidate keeps its type and its extraction.
LEMMA Rejudged ==
  ASSUME NEW v \in Cand, NEW s \in Status
  PROVE  /\ [v EXCEPT !.status = s] \in Cand
         /\ Extracted([v EXCEPT !.status = s]) = Extracted(v)
BY DEF Cand, Extracted

LEMMA ReadjudicateInv ==
  ASSUME IInv, NEW c \in Clause, NEW fresh \in Fresh, NEW pending \in SUBSET Pending(c),
         NEW reply \in Found(c, fresh[1]) \X Found(c, fresh[2]),
         Readjudicate(c, fresh, pending, reply)
  PROVE  IInv'
<1> DEFINE replied == {e \in 1 .. 2 : reply[e] # NoAtom}
           Same(v) == {e \in replied : SameSignature(reply[e], v)}
           Confirmed(v) == BothPasses(Same(v))
           Judge(v) == [v EXCEPT !.status = IF Confirmed(v) THEN "auto_promoted"
                                            ELSE IF Same(v) = {} THEN "rejected" ELSE @]
           Hearing(e) == [clause |-> c, core |-> reply[e].core, family |-> FamilyOf[fresh[e]],
                          twice |-> \E f \in replied \ {e} : reply[f].core = reply[e].core]
<1>0. pending \subseteq cands /\ pending \subseteq Cand
  BY DEF Pending, IInv, TypeOK
<1>1. cands' = (cands \ pending) \cup {Judge(v) : v \in pending}
  BY DEF Readjudicate, Rewrite
<1>2. heard' = heard \cup {Hearing(e) : e \in replied}
  BY DEF Readjudicate
<1>3. \/ \E v \in pending : /\ Confirmed(v)
                            /\ rules' = Promoted(KeyOf(v.core, v.codes, v.dwelling, 0),
                                                 c, v.core, v.path)
      \/ rules' = rules
  BY DEF Readjudicate
<1>4. UNCHANGED <<bulk, runner, group, queue, tx>>
  BY DEF Readjudicate
<1>5. heard' \subseteq Finding
  <2>1. fresh[1] \in Endpoint /\ fresh[2] \in Endpoint
    BY EnsembleAssumption
  <2>2. \A e \in replied : fresh[e] \in Endpoint /\ reply[e] \in Found(c, fresh[e])
    BY <2>1
  <2>3. \A e \in replied : reply[e] \in Atom
    BY <2>2, DataAssumption DEF Found
  <2>4. \A e \in replied : Hearing(e) \in Finding
    BY <2>2, <2>3, FamiliesTyped DEF Atom, Finding
  <2> HIDE DEF Hearing, replied
  <2> QED
    BY <1>2, <2>4 DEF IInv, TypeOK
<1>6. \A v \in pending : Judge(v) \in Cand /\ Extracted(Judge(v)) = Extracted(v)
  <2> TAKE v \in pending
  <2> DEFINE s == IF Confirmed(v) THEN "auto_promoted"
                  ELSE IF Same(v) = {} THEN "rejected" ELSE v.status
  <2>1. v \in Cand
    BY <1>0
  <2>2. s \in Status
    BY <2>1 DEF Status, Cand
  <2>3. Judge(v) = [v EXCEPT !.status = s]
    OBVIOUS
  <2> HIDE DEF s, Judge
  <2> QED
    BY <2>1, <2>2, <2>3, Rejudged
<1>7. cands' \subseteq Cand /\ VotesHeard'
  <2> HIDE DEF Judge, Hearing, replied
  <2> QED
    BY <1>0, <1>1, <1>2, <1>4, <1>6 DEF IInv, TypeOK, VotesHeard
<1>8. RulesSound' /\ rules' \in [Key -> Rule \cup {NoRule}]
  <2>1. CASE rules' = rules
    BY <1>2, <2>1, RulesStand DEF IInv, RulesSound, TypeOK
  <2>2. ASSUME NEW v \in pending, Confirmed(v),
               rules' = Promoted(KeyOf(v.core, v.codes, v.dwelling, 0), c, v.core, v.path)
        PROVE  RulesSound' /\ rules' \in [Key -> Rule \cup {NoRule}]
    <3>1. v.core \in Core /\ v.path \in Pathway
      BY <1>0 DEF Cand
    <3>2. PICK e \in replied, f \in replied :
            e # f /\ reply[e].core = v.core /\ reply[f].core = v.core
      BY <2>2 DEF SameSignature, BothPasses
    <3>3. Hearing(e).twice /\ Hearing(e).clause = c /\ Hearing(e).core = v.core
      BY <3>2
    <3>4. Hearing(e) \in heard'
      BY <1>2
    <3> HIDE DEF Hearing
    <3>5. Twice(Heard(heard', c, v.core))
      BY <3>3, <3>4 DEF Twice, Heard
    <3> QED
      BY <1>2, <2>2, <3>1, <3>5, PromotionSound DEF IInv, RulesSound
  <2> QED
    BY <1>3, <2>1, <2>2
<1> QED
  BY <1>4, <1>5, <1>7, <1>8 DEF IInv, TypeOK, RulesSound

LEMMA ChallengeOneInv ==
  ASSUME IInv, NEW v \in queue, NEW e \in Endpoint, NEW n \in 0 .. 2,
         ChallengeOne(v, e, n)
  PROVE  IInv'
<1> DEFINE Outcome(w) ==
             [w EXCEPT !.challenged = TRUE,
                       !.status = IF n = 2 THEN "auto_promoted"
                                  ELSE IF n = 0 THEN "rejected" ELSE @]
           h == [clause |-> v.clause, core |-> v.core, family |-> FamilyOf[e],
                 twice |-> FALSE]
<1>1. v \in Cand /\ v.clause \in Clause /\ v.core \in Core /\ v.path \in Pathway
      /\ Extracted(v) \in heard
  BY DEF IInv, TypeOK, VotesHeard, Cand
<1>2. cands' = (cands \ RowOf(v)) \cup {Outcome(w) : w \in RowOf(v)}
  BY DEF ChallengeOne, Rewrite
<1>3. heard' = (IF n = 0 THEN heard ELSE heard \cup {h})
  BY DEF ChallengeOne, Hears
<1>4. queue' \subseteq queue /\ UNCHANGED <<bulk, runner, group, tx>>
  BY DEF ChallengeOne
<1>5. h \in Finding
  BY <1>1, FamiliesTyped DEF Finding
<1>6. heard \subseteq heard' /\ heard' \subseteq Finding
  BY <1>3, <1>5 DEF IInv, TypeOK
<1>7. RowOf(v) \subseteq cands
  BY DEF RowOf
<1>8. \A w \in RowOf(v) : Outcome(w) \in Cand /\ Extracted(Outcome(w)) = Extracted(w)
  <2> TAKE w \in RowOf(v)
  <2> DEFINE s == IF n = 2 THEN "auto_promoted"
                  ELSE IF n = 0 THEN "rejected" ELSE w.status
  <2>1. w \in Cand
    BY <1>7 DEF IInv, TypeOK
  <2>2. s \in Status
    BY <2>1 DEF Status, Cand
  <2>3. Outcome(w) = [w EXCEPT !.challenged = TRUE, !.status = s]
    BY <2>1 DEF Cand
  <2> HIDE DEF s, Outcome
  <2> QED
    BY <2>1, <2>2, <2>3 DEF Cand, Extracted
<1>9. cands' \subseteq Cand /\ VotesHeard'
  <2> HIDE DEF Outcome
  <2> QED
    BY <1>2, <1>4, <1>6, <1>7, <1>8 DEF IInv, TypeOK, VotesHeard
<1>10. RulesSound' /\ rules' \in [Key -> Rule \cup {NoRule}]
  <2>1. CASE n = 2
    <3>1. rules' = Promoted(KeyOf(v.core, v.codes, v.dwelling, 0), v.clause, v.core, v.path)
      BY <2>1 DEF ChallengeOne
    <3>2. FamilyOf[e] # v.family
      BY DEF ChallengeOne, Challengers
    <3>3. h \in heard' /\ Extracted(v) \in heard'
      BY <1>1, <1>3, <1>6, <2>1
    <3>4. Twice(Heard(heard', v.clause, v.core))
      BY <3>2, <3>3 DEF Twice, TwoFamilies, Heard, Extracted
    <3> QED
      BY <1>1, <1>6, <3>1, <3>4, PromotionSound DEF IInv, RulesSound
  <2>2. CASE n # 2
    <3>1. rules' = rules
      BY <2>2 DEF ChallengeOne
    <3> QED
      BY <1>6, <3>1, RulesStand DEF IInv, RulesSound, TypeOK
  <2> QED
    BY <2>1, <2>2
<1> QED
  BY <1>4, <1>6, <1>9, <1>10 DEF IInv, TypeOK, RulesSound

LEMMA SoloCoreInv ==
  ASSUME IInv, NEW b \in tx.todo, SoloCore(b)
  PROVE  IInv'
<1>1. b.clause \in Clause /\ b.core \in Core
  BY DEF IInv, TypeOK, Ballot
<1>2. tx' \in [kind: {"none", "extract", "adjudicate", "solo"}, todo: SUBSET Ballot]
  BY DEF SoloCore, IInv, TypeOK
<1>3. UNCHANGED <<cands, bulk, runner, group, queue, heard>>
  BY DEF SoloCore
<1>4. CASE rules' = rules
  <2>1. TypeOK'
    BY <1>2, <1>3, <1>4 DEF IInv, TypeOK
  <2> QED
    BY <1>3, <1>4, <2>1, OnlyVotes
<1>5. ASSUME NEW path \in Pathway, NEW k, Leads(Eligible(b), path),
             rules' = [rules EXCEPT ![k] =
               [status |-> "approved", clause |-> b.clause, core |-> b.core,
                path |-> path, quote |-> b.clause, links |-> {},
                by |-> "solo", based |-> FALSE]]
      PROVE  IInv'
  <2> DEFINE r == [status |-> "approved", clause |-> b.clause, core |-> b.core,
                   path |-> path, quote |-> b.clause, links |-> {},
                   by |-> "solo", based |-> FALSE]
  <2>1. r \in Rule
    BY <1>1 DEF Rule
  <2>2. PICK v \in Eligible(b) : TRUE
    BY <1>5 DEF Leads, Backing
  <2>3. Extracted(v) \in heard' /\ v.clause = b.clause /\ v.core = b.core
    BY <1>3 DEF Eligible, IInv, VotesHeard
  <2>4. \E h \in heard' : h.clause = r.quote /\ h.core = r.core
    BY <2>3 DEF Extracted
  <2>5. r.quote = r.clause /\ ~r.based
    OBVIOUS
  <2>6. rules' = [rules EXCEPT ![k] = r]
    BY <1>5
  <2> HIDE DEF r
  <2>7. RulesSound'
    BY <1>3, <2>4, <2>5, <2>6, OneRuleWritten DEF IInv, RulesSound
  <2>8. rules' \in [Key -> Rule \cup {NoRule}]
    BY <2>1, <2>6 DEF IInv, TypeOK
  <2> QED
    BY <1>2, <1>3, <2>7, <2>8 DEF IInv, TypeOK, RulesSound, VotesHeard
<1> QED
  BY <1>4, <1>5 DEF SoloCore

\* A step that reviews a rule and touches no vote.
LEMMA Reviewed ==
  ASSUME IInv, UNCHANGED <<cands, runner, group, queue, tx, heard>>,
         bulk' \in [BulkItem -> {"absent", "pending_review", "auto_promoted"}],
         RulesSound', rules' \in [Key -> Rule \cup {NoRule}]
  PROVE  IInv'
BY DEF IInv, TypeOK, VotesHeard, RulesSound

LEMMA BulkApproveInv ==
  ASSUME IInv, NEW i \in BulkItem, BulkApprove(i)
  PROVE  IInv'
<1> DEFINE k == ItemKey(i)
<1>1. i \in Item /\ i.clause \in Clause /\ i.core \in Core /\ i.path \in Pathway
  BY DataAssumption DEF Item
<1>2. bulk' \in [BulkItem -> {"absent", "pending_review", "auto_promoted"}]
  BY DEF BulkApprove, IInv, TypeOK
<1>3. UNCHANGED <<cands, runner, group, queue, tx, heard>>
  BY DEF BulkApprove
<1>4. CASE rules' = rules
  BY <1>2, <1>3, <1>4, RulesStand, Reviewed DEF IInv, RulesSound, TypeOK
<1>5. CASE k \in Key /\ Exists(k) /\ rules' = [rules EXCEPT ![k].links = @ \cup {i.clause}]
  <2>1. rules[k] \in Rule
    BY <1>5 DEF IInv, TypeOK, Exists, NoRule
  <2> DEFINE r == [rules[k] EXCEPT !.links = @ \cup {i.clause}]
  <2>2. r \in Rule /\ r.quote = rules[k].quote /\ r.links = rules[k].links \cup {i.clause}
        /\ r.clause = rules[k].clause /\ r.core = rules[k].core /\ r.based = rules[k].based
    BY <1>1, <2>1 DEF Rule
  <2>3. rules' = [rules EXCEPT ![k] = r]
    BY <1>5
  <2> HIDE DEF r, k
  <2>4. r.quote \in r.links \cup {r.clause}
    BY <1>5, <2>2 DEF IInv, RulesAnchored
  <2>5. \/ \E h \in heard' : h.clause = r.quote /\ h.core = r.core
        \/ \E j \in BulkItem : j.valid /\ j.clause = r.quote /\ j.core = r.core
    BY <1>3, <1>5, <2>2 DEF IInv, RulesAnchored
  <2>6. r.based => Twice(Heard(heard', r.quote, r.core))
    BY <1>3, <1>5, <2>2, TwiceOfRules DEF IInv
  <2>7. RulesSound'
    BY <1>3, <2>3, <2>4, <2>5, <2>6, OneRuleWritten DEF IInv, RulesSound
  <2>8. rules' \in [Key -> Rule \cup {NoRule}]
    BY <2>2, <2>3 DEF IInv, TypeOK
  <2> QED
    BY <1>2, <1>3, <2>7, <2>8, Reviewed
<1>6. CASE i.valid /\ rules' = [rules EXCEPT ![k] =
               [status |-> "approved", clause |-> i.clause, core |-> i.core,
                path |-> i.path, quote |-> i.clause, links |-> {i.clause},
                by |-> "bulk", based |-> FALSE]]
  <2> DEFINE r == [status |-> "approved", clause |-> i.clause, core |-> i.core,
                   path |-> i.path, quote |-> i.clause, links |-> {i.clause},
                   by |-> "bulk", based |-> FALSE]
  <2>1. r \in Rule /\ r.quote = i.clause /\ r.core = i.core /\ r.clause = i.clause /\ ~r.based
    BY <1>1 DEF Rule
  <2>2. rules' = [rules EXCEPT ![k] = r]
    BY <1>6
  <2> HIDE DEF r, k
  <2>3. \E j \in BulkItem : j.valid /\ j.clause = r.quote /\ j.core = r.core
    BY <1>6, <2>1
  <2>4. RulesSound'
    BY <1>3, <2>1, <2>2, <2>3, OneRuleWritten DEF IInv, RulesSound
  <2>5. rules' \in [Key -> Rule \cup {NoRule}]
    BY <2>1, <2>2 DEF IInv, TypeOK
  <2> QED
    BY <1>2, <1>3, <2>4, <2>5, Reviewed
<1>7. CASE k \notin Key
  <2>1. rules' = rules
    BY <1>7 DEF BulkApprove, IInv, TypeOK
  <2> QED
    BY <1>4, <2>1
<1> QED
  BY <1>4, <1>5, <1>6, <1>7 DEF BulkApprove

LEMMA QuarantineInv == ASSUME IInv, NEW k \in Key, Quarantine(k) PROVE IInv'
<1>1. Exists(k) /\ rules' = [rules EXCEPT ![k].status = "pending_review"]
      /\ UNCHANGED <<cands, runner, group, queue, tx, heard>>
  BY DEF Quarantine, Approved, Exists
<1>2. bulk' \in [BulkItem -> {"absent", "pending_review", "auto_promoted"}]
  BY DEF Quarantine, IInv, TypeOK
<1>3. RulesSound' /\ rules' \in [Key -> Rule \cup {NoRule}]
  BY <1>1, StatusSound DEF IInv, RulesSound
<1> QED
  BY <1>1, <1>2, <1>3, Reviewed

LEMMA RejectInv == ASSUME IInv, NEW k \in Key, Reject(k) PROVE IInv'
<1>1. RulesSound' /\ rules' \in [Key -> Rule \cup {NoRule}]
  BY StatusSound DEF Reject, IInv, RulesSound
<1> QED
  BY <1>1, Reviewed DEF Reject, IInv, TypeOK

LEMMA ApproveInv == ASSUME IInv, NEW k \in Key, Approve(k) PROVE IInv'
<1>1. RulesSound' /\ rules' \in [Key -> Rule \cup {NoRule}]
  BY StatusSound DEF Approve, IInv, RulesSound
<1> QED
  BY <1>1, Reviewed DEF Approve, IInv, TypeOK

-----------------------------------------------------------------------------
LEMMA InitInv == Init => IInv
<1> SUFFICES ASSUME Init PROVE IInv
  OBVIOUS
<1>1. TypeOK
  BY DEF Init, TypeOK, Idle
<1>2. VotesHeard
  BY DEF Init, VotesHeard
<1>3. \A k \in Key : ~Exists(k)
  BY DEF Init, Exists, NoRule
<1> QED
  BY <1>1, <1>2, <1>3 DEF IInv, RulesAnchored, HeardTwice

LEMMA NextInv == IInv /\ [Next]_vars => IInv'
<1> SUFFICES ASSUME IInv, [Next]_vars PROVE IInv'
  OBVIOUS
<1>1. CASE Extraction
  <2>1. CASE \E c \in Clause : \E reply \in Replies(c, Endpoint) : CastVotes(c, reply)
    BY <2>1, CastVotesInv
  <2>2. CASE \E b \in tx.todo, e \in Endpoint : \E a \in Found(b.clause, e) : ExtractCore(b, a, e)
    BY <2>2, ExtractCoreInv
  <2>3. CASE \E c \in Clause : \E a \in Offers[c]["batch"] : BatchVote(c, a)
    BY <2>3, BatchVoteInv
  <2> QED
    BY <1>1, <2>1, <2>2, <2>3, StartExtractInv, BeginFinishInv, EndExtractInv DEF Extraction
<1>2. CASE Rounds
  <2>1. CASE \E c \in Clause, fresh \in Fresh :
               \E pending \in SUBSET Pending(c),
                  reply \in Found(c, fresh[1]) \X Found(c, fresh[2]) :
                 Readjudicate(c, fresh, pending, reply)
    BY <2>1, ReadjudicateInv
  <2>2. CASE \E v \in queue, e \in Endpoint : \E n \in Repeats(v, e) : ChallengeOne(v, e, n)
    <3>1. \A v, e : Repeats(v, e) \subseteq 0 .. 2
      BY DEF Repeats
    <3> QED
      BY <2>2, <3>1, ChallengeOneInv
  <2>3. CASE \E b \in tx.todo : AdjudicateCore(b)
    BY <2>3, AdjudicateCoreInv
  <2>4. CASE \E b \in tx.todo : SoloCore(b)
    BY <2>4, SoloCoreInv
  <2>5. CASE \E v \in queue : DropChallenge(v)
    BY <2>5, DropChallengeInv
  <2> QED
    BY <1>2, <2>1, <2>2, <2>3, <2>4, <2>5, BeginAdjudicateInv, BeginChallengeInv,
       BeginSoloInv DEF Rounds
<1>3. CASE Approvals
  BY <1>3, BulkApproveInv, QuarantineInv, RejectInv DEF Approvals
<1>4. CASE \E k \in Key : Approve(k)
  BY <1>4, ApproveInv
<1>5. CASE UNCHANGED vars
  <2>1. TypeOK'
    BY <1>5 DEF vars, IInv, TypeOK
  <2> QED
    BY <1>5, <2>1, OnlyVotes DEF vars
<1> QED
  BY <1>1, <1>2, <1>3, <1>4, <1>5 DEF Next, Scripts

THEOREM InductiveInvariant == Spec => []IInv
  BY InitInv, NextInv, PTL DEF Spec

\* Every variable keeps its type, whatever scripts run.
THEOREM EnsembleTyping == Spec => []TypeOK
<1>1. IInv => TypeOK
  BY DEF IInv
<1> QED
  BY <1>1, InductiveInvariant, PTL

\* The value of a rule was extracted from the clause it quotes.
THEOREM Anchored == Spec => []RulesAnchored
<1>1. IInv => RulesAnchored
  BY DEF IInv
<1> QED
  BY <1>1, InductiveInvariant, PTL

\* What the ensemble wrote into a rule was extracted from the clause it quotes
\* by two families, or by both passes of a readjudication, for any list of
\* models, of one family or of several.
THEOREM Independent == Spec => []HeardTwice
<1>1. IInv => HeardTwice
  BY DEF IInv
<1> QED
  BY <1>1, InductiveInvariant, PTL

-----------------------------------------------------------------------------
(* A rejected rule stays rejected                                          *)

\* What a script may do to the status of a rule.
StatusKept ==
  \A l \in Key : Exists(l) /\ ~Approved(l) => ~Approved(l)'

\* A promotion that finds the rule leaves its status.
LEMMA PromotionKeepsStatus ==
  ASSUME TypeOK, NEW k, NEW c, NEW core, NEW path, rules' = Promoted(k, c, core, path)
  PROVE  StatusKept
<1> SUFFICES ASSUME NEW l \in Key, Exists(l), ~Approved(l) PROVE ~Approved(l)'
  BY DEF StatusKept
<1>1. CASE l # k
  <2>1. rules'[l] = rules[l]
    BY <1>1 DEF Promoted, TypeOK
  <2> QED
    BY <2>1 DEF Approved
<1>2. CASE l = k
  <2>1. rules[l] \in Rule
    BY DEF TypeOK, Exists, NoRule
  <2>2. rules'[l] = Overwritten(rules[l], c, core)
    BY <1>2 DEF Promoted, TypeOK
  <2>3. Overwritten(rules[l], c, core).status = rules[l].status
    BY <2>1 DEF Overwritten, Rule
  <2> QED
    BY <2>2, <2>3 DEF Approved
<1> QED
  BY <1>1, <1>2

LEMMA SameRules == ASSUME rules' = rules PROVE StatusKept
BY DEF StatusKept, Approved

LEMMA ScriptsKeepStatus == ASSUME IInv, Scripts PROVE StatusKept
<1> USE DEF IInv
<1>1. CASE Extraction
  <2>1. CASE \E b \in tx.todo, e \in Endpoint : \E a \in Found(b.clause, e) : ExtractCore(b, a, e)
    <3>1. PICK b, e, a : ExtractCore(b, a, e)
      BY <2>1
    <3> DEFINE votes == GroupVotes(b.clause, b.core)
                          \cup ChallengeVote(b, GroupVotes(b.clause, b.core), a, e)
    <3>2. \/ \E path \in Pathway :
               rules' = Promoted(KeyOf(b.core, MergedCodes(Backing(votes, path)),
                                       MergedDwelling(Backing(votes, path)), 0),
                                 b.clause, b.core, path)
          \/ rules' = rules
      BY <3>1 DEF ExtractCore
    <3> QED
      BY <3>2, PromotionKeepsStatus, SameRules
  <2>2. CASE rules' = rules
    BY <2>2, SameRules
  <2> QED
    BY <1>1, <2>1, <2>2 DEF Extraction, StartExtract, CastVotes, BeginFinish, EndExtract,
       BatchVote
<1>2. CASE Rounds
  <2>1. CASE (\E k, c, core, path : rules' = Promoted(k, c, core, path)) \/ rules' = rules
    BY <2>1, PromotionKeepsStatus, SameRules
  <2>2. CASE \E b \in tx.todo : SoloCore(b)
    <3>1. PICK b \in tx.todo : SoloCore(b)
      BY <2>2
    <3>2. CASE \E k, r : ~Exists(k) /\ rules' = [rules EXCEPT ![k] = r]
      BY <3>2 DEF StatusKept, Approved, Exists, TypeOK
    <3> QED
      BY <3>1, <3>2, SameRules DEF SoloCore
  <2>3. CASE \E b \in tx.todo : AdjudicateCore(b)
    BY <2>1, <2>3 DEF AdjudicateCore
  <2>4. CASE \E c \in Clause, fresh \in Fresh :
               \E pending \in SUBSET Pending(c),
                  reply \in Found(c, fresh[1]) \X Found(c, fresh[2]) :
                 Readjudicate(c, fresh, pending, reply)
    BY <2>1, <2>4 DEF Readjudicate
  <2>5. CASE \E v \in queue, e \in Endpoint : \E n \in Repeats(v, e) : ChallengeOne(v, e, n)
    BY <2>1, <2>5 DEF ChallengeOne
  <2> QED
    BY <1>2, <2>1, <2>2, <2>3, <2>4, <2>5 DEF Rounds, BeginAdjudicate, BeginChallenge,
       DropChallenge, BeginSolo
<1>3. CASE Approvals
  <2>1. CASE \E i \in BulkItem : BulkApprove(i)
    <3>1. PICK i \in BulkItem : BulkApprove(i)
      BY <2>1
    <3> DEFINE k == ItemKey(i)
    <3>2. CASE rules' = rules
      BY <3>2, SameRules
    <3>3. CASE Exists(k) /\ rules' = [rules EXCEPT ![k].links = @ \cup {i.clause}]
      <4> SUFFICES ASSUME NEW l \in Key, Exists(l), ~Approved(l) PROVE ~Approved(l)'
        BY DEF StatusKept
      <4>1. rules[l] \in Rule
        BY DEF TypeOK, Exists, NoRule
      <4>2. rules'[l].status = rules[l].status
        BY <3>3, <4>1 DEF TypeOK, Rule
      <4> QED
        BY <4>2 DEF Approved
    <3>4. CASE \E r : ~Exists(k) /\ rules' = [rules EXCEPT ![k] = r]
      BY <3>4 DEF StatusKept, Approved, Exists, TypeOK
    <3> QED
      BY <3>1, <3>2, <3>3, <3>4 DEF BulkApprove
  <2>2. CASE \E k \in Key : Quarantine(k) \/ Reject(k)
    <3>1. PICK k \in Key, s \in {"pending_review", "rejected"} :
            Exists(k) /\ rules' = [rules EXCEPT ![k].status = s]
      BY <2>2 DEF Quarantine, Reject, Approved, Exists
    <3>2. rules[k] \in Rule
      BY <3>1 DEF TypeOK, Exists, NoRule
    <3>3. rules'[k].status = s /\ \A l \in Key : l # k => rules'[l] = rules[l]
      BY <3>1, <3>2 DEF TypeOK, Rule
    <3> QED
      BY <3>3 DEF StatusKept, Approved
  <2> QED
    BY <1>3, <2>1, <2>2 DEF Approvals
<1> QED
  BY <1>1, <1>2, <1>3 DEF Scripts

\* No script brings a rejected or quarantined rule back.
THEOREM ReviewsStand == Spec => ReviewStands
<1> DEFINE Stands == \A k \in Key : Exists(k) /\ ~Approved(k) /\ Approved(k)' => Approve(k)
<1>1. ASSUME IInv, [Next]_vars PROVE [Stands]_vars
  <2>1. CASE Scripts
    BY <1>1, <2>1, ScriptsKeepStatus DEF StatusKept
  <2>2. CASE \E l \in Key : Approve(l)
    <3>1. PICK l \in Key : Approve(l)
      BY <2>2
    <3>2. \A k \in Key : k # l => rules'[k] = rules[k]
      BY <1>1, <3>1 DEF Approve, IInv, TypeOK
    <3> QED
      BY <3>1, <3>2 DEF Approved
  <2> QED
    BY <1>1, <2>1, <2>2 DEF Next
<1> QED
  BY <1>1, InductiveInvariant, PTL DEF Spec, ReviewStands
=============================================================================
