---------------------------- MODULE ScriptProofs ----------------------------
(***************************************************************************)
(* Theorems of the operator scripts.  The decoded rules: the type          *)
(* invariant and what the stamps of a rule promise hold for any rules and  *)
(* any number of open passes.  Source acquisition: what rows, versions and *)
(* raw artifacts promise holds for any sources, bytes and texts, and for   *)
(* any number of passes, workers and scripts side by side.                 *)
(***************************************************************************)
EXTENDS SourceAcquisition, DecodeReview, FiniteSetTheorems, TLAPS

Corrector == {"openai", "claude"}
PassRecord == [kind: {"idle", "review", "openai", "claude"},
               read: [Id -> Reading \cup {Unread}],
               verdict: [Id -> Verdict \cup {"none"}]]

\* What a pass has read and answered fits its kind, and the rules it reads are
\* there: a rule read as rejected was not rejected by the denylist.
PassFits(p, i) ==
  /\ p.kind = "idle" => p.verdict[i] = "none" /\ p.read[i] = Unread
  /\ p.verdict[i] # "none" => p.read[i] # Unread
  /\ p.kind = "review" => p.verdict[i] \in {"none", "pass", "fail", "denylist"}
  /\ p.kind \in Corrector =>
       /\ p.verdict[i] \in {"none", "keep", "reject", "withheld"}
       /\ p.read[i] # Unread /\ p.read[i].status = "rejected"
            => p.read[i].review # "denylist"

Queues ==
  \A w \in Worker, i \in Id :
    /\ PassFits(work[w], i)
    /\ work[w].read[i] # Unread => rules[i] # NoRule

DeskReads == desk # NoDesk => rules[desk.id] # NoRule

\* What the stamps of one rule say of it.
Good(r, a) ==
  /\ r.status = "approved" /\ r.stamp.review = "denylist" => a \in {"late", "operator"}
  /\ r.status = "approved" /\ r.stamp.review = "fail" => a # "promotion"
  /\ r.status = "approved" /\ r.stamp.action = "reject" => a = "operator"
  /\ r.stamp.action = "keep" => r.claim = r.stamp.corrector

AllGood == \A i \in Trusted : Good(rules[i], approver[i])

StampInv == DecodeTypeOK /\ Queues /\ DeskReads /\ AllGood

LEMMA InvPromises == StampInv => DenylistStands /\ RejectionsStand /\ StampedClaim
  BY DEF StampInv, AllGood, Good, DenylistStands, RejectionsStand, StampedClaim

-----------------------------------------------------------------------------
(* What each statement does to one rule.                                   *)

LEMMA NoRuleApart == \A r \in Rule : r # NoRule
  BY DEF Rule, NoRule

LEMMA UnreadApart == \A r \in Reading : r # Unread
  BY DEF Reading, Unread

LEMMA SeenTyped == \A r \in Rule : Seen(r) \in Reading
  BY DEF Seen, Rule, Reading, Stamp

LEMMA ReviewedSound ==
  ASSUME NEW r \in Rule, NEW v \in {"pass", "fail", "denylist"}, NEW a, Good(r, a)
  PROVE  Good(Reviewed(r, v), a)
  BY DEF Good, Reviewed, Rule, Stamp

LEMMA ReviewedTyped ==
  ASSUME NEW r \in Rule, NEW v \in {"pass", "fail", "denylist"}
  PROVE  Reviewed(r, v) \in Rule
  BY DEF Reviewed, Rule, Stamp, Reviews

LEMMA CorrectedTyped ==
  ASSUME NEW r \in Rule, NEW v \in {"keep", "reject"}, NEW kind \in Corrector
  PROVE  Corrected(r, v, kind) \in Rule
  BY DEF Corrected, Rule, Stamp, Reviews, Corrector

LEMMA CorrectedSound ==
  ASSUME NEW r \in Rule, NEW v \in {"keep", "reject"}, NEW kind \in Corrector,
         NEW a, NEW b, Good(r, a),
         v = "keep" /\ r.status = "rejected" =>
           b \in {"corrector", "late"} /\ (r.stamp.review = "denylist" => b = "late"),
         ~(v = "keep" /\ r.status = "rejected") => b = a
  PROVE  Good(Corrected(r, v, kind), b)
  BY DEF Good, Corrected, Rule, Stamp, Corrector

\* A pass updates only rules that are there, each as its statement does.
LEMMA WrittenSound ==
  ASSUME StampInv, NEW w \in Worker, NEW i \in Id
  PROVE  /\ Written(w, i) \in Rule \cup {NoRule}
         /\ rules[i] # NoRule => Written(w, i) \in Rule
         /\ rules[i] = NoRule => Written(w, i) = NoRule
         /\ Restored(w, i) \in {"none", "promotion", "corrector", "late", "operator"}
         /\ i \in Trusted => Good(Written(w, i), Restored(w, i))
<1> DEFINE v == work[w].verdict[i]
           p == work[w]
<1>0. /\ rules[i] \in Rule \cup {NoRule}
      /\ approver[i] \in {"none", "promotion", "corrector", "late", "operator"}
      /\ p.kind \in {"idle", "review", "openai", "claude"}
      /\ p.verdict[i] \in Verdict \cup {"none"}
      /\ p.read[i] \in Reading \cup {Unread}
  BY DEF StampInv, DecodeTypeOK
<1>1. /\ PassFits(p, i)
      /\ p.read[i] # Unread => rules[i] # NoRule
  BY DEF StampInv, Queues
<1>2. i \in Trusted => Good(rules[i], approver[i])
  BY DEF StampInv, AllGood
<1>3. CASE ~Updates(w, i)
  <2>1. Written(w, i) = rules[i] /\ Restored(w, i) = approver[i]
    BY <1>3 DEF Written, Restored
  <2> QED  BY <2>1, <1>0, <1>2
<1>4. CASE Updates(w, i)
  <2>1. v # "none" /\ v # "withheld"
    BY <1>4 DEF Updates
  <2>2. rules[i] \in Rule /\ rules[i] # NoRule
    BY <2>1, <1>0, <1>1 DEF PassFits
  <2>3. CASE p.kind = "review"
    <3>1. v \in {"pass", "fail", "denylist"}
      BY <2>1, <2>3, <1>1 DEF PassFits
    <3>2. Written(w, i) = Reviewed(rules[i], v) /\ Restored(w, i) = approver[i]
      BY <1>4, <2>3, <3>1 DEF Written, Restored
    <3>3. Written(w, i) \in Rule
      BY <3>1, <3>2, <2>2, ReviewedTyped
    <3>4. i \in Trusted => Good(Written(w, i), Restored(w, i))
      BY <3>1, <3>2, <2>2, <1>2, ReviewedSound
    <3> QED  BY <3>2, <3>3, <3>4, <2>2, <1>0
  <2>4. CASE p.kind \in Corrector
    <3>1. v \in {"keep", "reject"}
      BY <2>1, <2>4, <1>1 DEF PassFits
    <3>2. Written(w, i) = Corrected(rules[i], v, p.kind)
      BY <1>4, <2>4 DEF Written, Corrector
    <3>3. Written(w, i) \in Rule
      BY <3>1, <3>2, <2>2, <2>4, CorrectedTyped
    <3>4. ~(v = "keep" /\ rules[i].status = "rejected") => Restored(w, i) = approver[i]
      BY DEF Restored
    <3>5. ASSUME v = "keep" /\ rules[i].status = "rejected"
          PROVE  /\ Restored(w, i) \in {"corrector", "late"}
                 /\ rules[i].stamp.review = "denylist" => Restored(w, i) = "late"
      <4>1. Restored(w, i) = IF p.read[i] = Seen(rules[i]) THEN "corrector" ELSE "late"
        BY <3>5, <1>4 DEF Restored
      <4>2. p.read[i] = Seen(rules[i]) => rules[i].stamp.review # "denylist"
        BY <3>5, <2>1, <2>4, <1>1 DEF PassFits, Seen
      <4> QED  BY <4>1, <4>2
    <3>6. i \in Trusted => Good(Written(w, i), Restored(w, i))
      BY <3>1, <3>2, <3>4, <3>5, <2>2, <2>4, <1>2, CorrectedSound
    <3>7. Restored(w, i) \in {"none", "promotion", "corrector", "late", "operator"}
      BY <3>4, <3>5, <1>0
    <3> QED  BY <3>3, <3>6, <3>7, <2>2
  <2>5. p.kind # "idle"
    BY <2>1, <1>1 DEF PassFits
  <2> QED  BY <2>3, <2>4, <2>5, <1>0 DEF Corrector
<1> QED  BY <1>3, <1>4

\* Rules stay rules, and keep what their stamps say, when a pass writes.
LEMMA WriteSound ==
  ASSUME StampInv, NEW w \in Worker, Write(w), UNCHANGED origin
  PROVE  /\ rules' \in [Id -> Rule \cup {NoRule}]
         /\ approver' \in [Id -> {"none", "promotion", "corrector", "late", "operator"}]
         /\ \A i \in Id : rules[i] # NoRule => rules'[i] # NoRule
         /\ AllGood'
<1>1. /\ rules' = [i \in Id |-> Written(w, i)]
      /\ approver' = [i \in Id |-> Restored(w, i)]
      /\ marred' = marred
  BY DEF Write
<1>2. rules' \in [Id -> Rule \cup {NoRule}]
      /\ approver' \in [Id -> {"none", "promotion", "corrector", "late", "operator"}]
  BY <1>1, WrittenSound
<1>3. \A i \in Id : rules[i] # NoRule => rules'[i] # NoRule
  BY <1>1, WrittenSound, NoRuleApart
<1>4. \A i \in Id : i \in Trusted' => i \in Trusted
  BY <1>1, WrittenSound DEF Trusted
<1>5. AllGood'
  BY <1>1, <1>4, WrittenSound DEF AllGood, Trusted
<1> QED  BY <1>2, <1>3, <1>5

-----------------------------------------------------------------------------
LEMMA InitInv == DecodeInit => StampInv
<1> SUFFICES ASSUME DecodeInit PROVE StampInv
  OBVIOUS
<1>1. DecodeTypeOK
  BY DEF DecodeInit, DecodeTypeOK, Idle
<1>2. Queues
  BY DEF DecodeInit, Queues, PassFits, Idle, Corrector
<1>3. DeskReads /\ AllGood
  BY DEF DecodeInit, DeskReads, AllGood, Trusted
<1> QED  BY <1>1, <1>2, <1>3 DEF StampInv

\* Only work changes: the rest of the invariant stays.
LEMMA OnlyWork ==
  ASSUME StampInv, UNCHANGED <<origin, candidates, rules, desk, approver, marred>>,
         work' \in [Worker -> PassRecord],
         \A w \in Worker, i \in Id :
           /\ PassFits(work'[w], i)
           /\ work'[w].read[i] # Unread => rules[i] # NoRule
  PROVE  StampInv'
<1>1. DecodeTypeOK'
  BY DEF StampInv, DecodeTypeOK, PassRecord
<1>2. Queues'
  BY DEF Queues
<1>3. DeskReads' /\ AllGood'
  BY DEF StampInv, DeskReads, AllGood, Trusted
<1> QED  BY <1>1, <1>2, <1>3 DEF StampInv

\* Only rules and the history change, and the rules stay sound.
LEMMA OnlyRules ==
  ASSUME StampInv, UNCHANGED <<origin, candidates, work>>,
         desk' \in {desk, NoDesk},
         rules' \in [Id -> Rule \cup {NoRule}],
         approver' \in [Id -> {"none", "promotion", "corrector", "late", "operator"}],
         marred' \subseteq Id,
         \A i \in Id : rules[i] # NoRule => rules'[i] # NoRule,
         AllGood'
  PROVE  StampInv'
<1>1. DecodeTypeOK'
  BY DEF StampInv, DecodeTypeOK
<1>2. Queues'
  BY DEF StampInv, Queues
<1>3. DeskReads'
  <2>1. desk \in [id: Id, seen: Rule] \cup {NoDesk}
    BY DEF StampInv, DecodeTypeOK
  <2>2. desk # NoDesk => desk.id \in Id
    BY <2>1
  <2> QED  BY <2>2 DEF StampInv, DeskReads
<1> QED  BY <1>1, <1>2, <1>3 DEF StampInv

-----------------------------------------------------------------------------
LEMMA BeginInv ==
  ASSUME StampInv, NEW w \in Worker, NEW kind \in {"review", "openai", "claude"},
         NEW queue \in SUBSET Id, Begin(w, kind, queue),
         \A i \in queue : rules[i] # NoRule,
         kind \in Corrector => \A i \in queue :
           rules[i].status = "rejected" => rules[i].stamp.review # "denylist"
  PROVE  StampInv'
<1>1. PICK Q \in SUBSET queue :
        work' = [work EXCEPT ![w] =
            [kind |-> kind,
             read |-> [i \in Id |-> IF i \in Q THEN Seen(rules[i]) ELSE Unread],
             verdict |-> [i \in Id |-> "none"]]]
  BY DEF Begin
<1> DEFINE p == [kind |-> kind,
             read |-> [i \in Id |-> IF i \in Q THEN Seen(rules[i]) ELSE Unread],
             verdict |-> [i \in Id |-> "none"]]
<1>2. \A i \in Q : rules[i] \in Rule
  BY DEF StampInv, DecodeTypeOK
<1>3. p \in PassRecord
  BY <1>2, SeenTyped DEF PassRecord
<1>4. \A i \in Id : PassFits(p, i) /\ (p.read[i] # Unread => rules[i] # NoRule)
  <2> TAKE i \in Id
  <2>1. p.verdict[i] = "none"
    OBVIOUS
  <2>2. p.read[i] = IF i \in Q THEN Seen(rules[i]) ELSE Unread
    OBVIOUS
  <2>3. p.kind \in Corrector /\ p.read[i] # Unread /\ p.read[i].status = "rejected"
          => p.read[i].review # "denylist"
    BY <2>2 DEF Seen
  <2>4. p.kind # "idle"
    OBVIOUS
  <2>5. p.read[i] # Unread => rules[i] # NoRule
    BY <2>2
  <2> HIDE DEF p
  <2> QED  BY <2>1, <2>3, <2>4, <2>5 DEF PassFits
<1>5. work' = [work EXCEPT ![w] = p]
  BY <1>1
<1> HIDE DEF p
<1>6. work' \in [Worker -> PassRecord]
  BY <1>3, <1>5 DEF StampInv, DecodeTypeOK, PassRecord
<1>7. \A x \in Worker : work'[x] = IF x = w THEN p ELSE work[x]
  BY <1>5 DEF StampInv, DecodeTypeOK
<1>8. \A x \in Worker, i \in Id :
        PassFits(work'[x], i) /\ (work'[x].read[i] # Unread => rules[i] # NoRule)
  BY <1>4, <1>7 DEF StampInv, Queues
<1>9. UNCHANGED <<origin, candidates, rules, desk, approver, marred>>
  BY DEF Begin
<1> QED  BY <1>6, <1>8, <1>9, OnlyWork

\* One pass is replaced by another that fits: Judge, Skip and Stop.
LEMMA PassInv ==
  ASSUME StampInv, NEW w \in Worker,
         work' \in [Worker -> PassRecord], \A x \in Worker : x # w => work'[x] = work[x],
         UNCHANGED <<origin, candidates, rules, desk, approver, marred>>,
         \A i \in Id : /\ PassFits(work'[w], i)
                       /\ work'[w].read[i] # Unread => work[w].read[i] # Unread
  PROVE  StampInv'
<1>1. \A x \in Worker, i \in Id :
        PassFits(work'[x], i) /\ (work'[x].read[i] # Unread => rules[i] # NoRule)
  BY DEF StampInv, Queues
<1> QED  BY <1>1, OnlyWork DEF PassRecord

LEMMA IdleFits ==
  /\ Idle \in PassRecord
  /\ \A i \in Id : PassFits(Idle, i) /\ Idle.read[i] = Unread
  BY DEF Idle, PassFits, Corrector, PassRecord

-----------------------------------------------------------------------------
LEMMA JudgeInv ==
  ASSUME StampInv, NEW w \in Worker, NEW i \in Id, Judge(w, i)
  PROVE  StampInv'
<1>1. PICK v \in Verdicts(work[w].kind, i) : work' = [work EXCEPT ![w].verdict[i] = v]
  BY DEF Judge
<1> DEFINE q == work[w]
           p == [kind |-> q.kind, read |-> q.read, verdict |-> [q.verdict EXCEPT ![i] = v]]
<1>2. q \in PassRecord
  BY DEF StampInv, DecodeTypeOK, PassRecord
<1>3. \A j \in Id : PassFits(q, j)
  BY DEF StampInv, Queues
<1>4. q.kind # "idle"
  BY <1>3 DEF Judge, PassFits
<1>5. /\ q.kind = "review" => v \in {"pass", "fail", "denylist"}
      /\ q.kind \in Corrector => v \in {"keep", "reject", "withheld"}
  BY DEF Verdicts, Corrector
<1>6. v \in Verdict
  BY <1>2, <1>4, <1>5 DEF Verdict, Corrector, PassRecord
<1>7. work' = [work EXCEPT ![w] = p]
  <2>1. [q EXCEPT !.verdict = [q.verdict EXCEPT ![i] = v]] = p
    BY <1>2 DEF PassRecord
  <2>2. work' = [work EXCEPT ![w] = [q EXCEPT !.verdict = [q.verdict EXCEPT ![i] = v]]]
    BY <1>1
  <2> QED  BY <2>1, <2>2
<1>8. /\ p \in PassRecord
      /\ p.kind = q.kind /\ p.read = q.read
      /\ \A j \in Id : p.verdict[j] = IF j = i THEN v ELSE q.verdict[j]
  BY <1>2, <1>6 DEF PassRecord
<1>9. q.read[i] # Unread
  BY DEF Judge
<1> HIDE DEF p, q
<1>10. \A j \in Id : PassFits(p, j)
  BY <1>3, <1>4, <1>5, <1>8, <1>9 DEF PassFits, Corrector
<1>11. UNCHANGED <<origin, candidates, rules, desk, approver, marred>>
  BY DEF Judge
<1>12. \A j \in Id : PassFits(p, j) /\ (p.read[j] # Unread => work[w].read[j] # Unread)
  BY <1>8, <1>10 DEF q
<1>13. /\ work' \in [Worker -> PassRecord] /\ work'[w] = p
       /\ \A x \in Worker : x # w => work'[x] = work[x]
  BY <1>7, <1>8 DEF StampInv, DecodeTypeOK, PassRecord
<1> QED  BY <1>11, <1>12, <1>13, PassInv

LEMMA SkipInv ==
  ASSUME StampInv, NEW w \in Worker, NEW i \in Id, Skip(w, i)
  PROVE  StampInv'
<1> DEFINE q == work[w]
           p == [kind |-> q.kind, read |-> [q.read EXCEPT ![i] = Unread], verdict |-> q.verdict]
<1>1. q \in PassRecord
  BY DEF StampInv, DecodeTypeOK, PassRecord
<1>2. \A j \in Id : PassFits(q, j)
  BY DEF StampInv, Queues
<1>3. work' = [work EXCEPT ![w] = p]
  <2>1. [q EXCEPT !.read = [q.read EXCEPT ![i] = Unread]] = p
    BY <1>1 DEF PassRecord
  <2>2. work' = [work EXCEPT ![w] = [q EXCEPT !.read = [q.read EXCEPT ![i] = Unread]]]
    BY DEF Skip
  <2> QED  BY <2>1, <2>2
<1>4. /\ p \in PassRecord
      /\ p.kind = q.kind /\ p.verdict = q.verdict
      /\ \A j \in Id : p.read[j] = IF j = i THEN Unread ELSE q.read[j]
  BY <1>1 DEF PassRecord
<1>5. q.verdict[i] = "none"
  BY DEF Skip
<1> HIDE DEF p, q
<1>6. \A j \in Id : PassFits(p, j) /\ (p.read[j] # Unread => q.read[j] # Unread)
  BY <1>2, <1>4, <1>5 DEF PassFits
<1>7. UNCHANGED <<origin, candidates, rules, desk, approver, marred>>
  BY DEF Skip
<1>8. \A j \in Id : PassFits(p, j) /\ (p.read[j] # Unread => work[w].read[j] # Unread)
  BY <1>6 DEF q
<1>9. /\ work' \in [Worker -> PassRecord] /\ work'[w] = p
      /\ \A x \in Worker : x # w => work'[x] = work[x]
  BY <1>3, <1>4 DEF StampInv, DecodeTypeOK, PassRecord
<1> QED  BY <1>7, <1>8, <1>9, PassInv

LEMMA StopInv ==
  ASSUME StampInv, NEW w \in Worker, Stop(w)
  PROVE  StampInv'
<1>1. /\ work' = [work EXCEPT ![w] = Idle]
      /\ UNCHANGED <<origin, candidates, rules, desk, approver, marred>>
  BY DEF Stop
<1>2. \A i \in Id : PassFits(Idle, i) /\ (Idle.read[i] # Unread => work[w].read[i] # Unread)
  BY IdleFits
<1>3. /\ work' \in [Worker -> PassRecord] /\ work'[w] = Idle
      /\ \A x \in Worker : x # w => work'[x] = work[x]
  BY <1>1, IdleFits DEF StampInv, DecodeTypeOK, PassRecord
<1> QED  BY <1>1, <1>2, <1>3, PassInv

LEMMA DecodeInv ==
  ASSUME StampInv, DecodeClause \/ ApplyDecoded
  PROVE  StampInv'
<1>1. candidates' \subseteq Id /\ UNCHANGED <<origin, rules, work, desk, approver, marred>>
  BY DEF StampInv, DecodeTypeOK, DecodeClause, ApplyDecoded, By
<1>2. DecodeTypeOK'
  BY <1>1 DEF StampInv, DecodeTypeOK
<1>3. Queues' /\ DeskReads' /\ AllGood'
  BY <1>1 DEF StampInv, Queues, DeskReads, AllGood, Trusted
<1> QED  BY <1>2, <1>3 DEF StampInv

LEMMA PromoteInv ==
  ASSUME StampInv, Promote
  PROVE  StampInv'
<1>1. /\ rules' = [i \in Id |-> Promoted(i)]
      /\ approver' = [i \in Id |-> IF Promoted(i) = rules[i] THEN approver[i] ELSE "promotion"]
      /\ UNCHANGED <<origin, candidates, work, desk, marred>>
  BY DEF Promote
<1> DEFINE new == [status |-> "approved", claim |-> "decode", stamp |-> NoStamp]
<1>2. new \in Rule
  BY DEF Rule, Stamp, NoStamp, Reviews
<1>3. \A a : Good(new, a)
  BY DEF Good, NoStamp
<1>4. \A i \in Id : Promoted(i) = rules[i] \/ Promoted(i) = new
  BY DEF Promoted
<1> HIDE DEF new
<1>5. \A i \in Id : rules[i] \in Rule \cup {NoRule}
  BY DEF StampInv, DecodeTypeOK
<1>6. rules' \in [Id -> Rule \cup {NoRule}]
  BY <1>1, <1>2, <1>4, <1>5
<1>7. approver' \in [Id -> {"none", "promotion", "corrector", "late", "operator"}]
  BY <1>1 DEF StampInv, DecodeTypeOK
<1>8. \A i \in Id : rules[i] # NoRule => rules'[i] # NoRule
  BY <1>1 DEF Promoted
<1>9. AllGood'
  <2> SUFFICES ASSUME NEW i \in Trusted' PROVE Good(rules'[i], approver'[i])
    BY DEF AllGood
  <2>1. i \in Id
    BY DEF Trusted
  <2>2. CASE rules'[i] = rules[i]
    BY <1>1, <2>1, <2>2 DEF StampInv, AllGood, Trusted
  <2>3. CASE rules'[i] = new
    BY <1>3, <2>3
  <2> QED  BY <1>1, <1>4, <2>1, <2>2, <2>3
<1>10. marred' \subseteq Id
  BY <1>1 DEF StampInv, DecodeTypeOK
<1> QED  BY <1>1, <1>6, <1>7, <1>8, <1>9, <1>10, OnlyRules

-----------------------------------------------------------------------------
LEMMA BeginAnyInv ==
  ASSUME StampInv, NEW w \in Worker, BeginReview(w) \/ BeginCorrect(w) \/ Export(w)
  PROVE  StampInv'
<1>1. CASE BeginReview(w)
  <2>1. PICK redo \in Redo : Begin(w, "review", ReviewQueue(redo))
    BY <1>1 DEF BeginReview
  <2>2. ReviewQueue(redo) \subseteq Id /\ \A i \in ReviewQueue(redo) : rules[i] # NoRule
    BY DEF ReviewQueue, By, Is
  <2> QED  BY <2>1, <2>2, BeginInv DEF Corrector
<1>2. CASE BeginCorrect(w)
  <2>1. PICK redo \in Redo, combined \in BOOLEAN : Begin(w, "openai", CorrectQueue(combined, redo))
    BY <1>2 DEF BeginCorrect
  <2> DEFINE Q == CorrectQueue(combined, redo)
  <2>2. Q \subseteq Id
    BY DEF CorrectQueue, By
  <2>3. \A i \in Q : /\ rules[i] # NoRule
                     /\ rules[i].status = "rejected" => rules[i].stamp.review # "denylist"
    BY DEF CorrectQueue, InCombined, Is
  <2> HIDE DEF Q
  <2> QED  BY <2>1, <2>2, <2>3, BeginInv DEF Q
<1>3. CASE Export(w)
  <2>1. Begin(w, "claude", ExportQueue)
    BY <1>3 DEF Export
  <2>2. ExportQueue \subseteq Id
    BY DEF ExportQueue
  <2>3. \A i \in ExportQueue : rules[i] # NoRule /\ rules[i].status = "approved"
    BY DEF ExportQueue, Is
  <2> QED  BY <2>1, <2>2, <2>3, BeginInv
<1> QED  BY <1>1, <1>2, <1>3

LEMMA ApplyFileInv ==
  ASSUME StampInv, NEW w \in Worker, ApplyFile(w)
  PROVE  StampInv'
<1>1. Write(w) /\ UNCHANGED <<origin, candidates, work, desk, marred>>
  BY DEF ApplyFile, Write
<1>2. marred' \subseteq Id /\ UNCHANGED origin
  BY <1>1 DEF StampInv, DecodeTypeOK
<1> QED  BY <1>1, <1>2, WriteSound, OnlyRules

LEMMA CommitInv ==
  ASSUME StampInv, NEW w \in Worker, Commit(w)
  PROVE  StampInv'
<1> DEFINE q == work[w]
           rest == [kind |-> q.kind, read |-> Left(w), verdict |-> Idle.verdict]
           p == IF \A i \in Id : Left(w)[i] = Unread THEN Idle ELSE rest
<1>1. Write(w) /\ UNCHANGED <<origin, candidates, desk, marred>> /\ q.kind \in {"review", "openai"}
  BY DEF Commit, Write
<1>2. /\ rules' \in [Id -> Rule \cup {NoRule}]
      /\ approver' \in [Id -> {"none", "promotion", "corrector", "late", "operator"}]
      /\ \A i \in Id : rules[i] # NoRule => rules'[i] # NoRule
      /\ AllGood'
  BY <1>1, WriteSound
<1>3. q \in PassRecord /\ \A i \in Id : PassFits(q, i) /\ (q.read[i] # Unread => rules[i] # NoRule)
  BY DEF StampInv, DecodeTypeOK, Queues, PassRecord
<1>4. \A i \in Id : Left(w)[i] = IF q.verdict[i] = "none" THEN q.read[i] ELSE Unread
  BY DEF Left
<1>5. rest \in PassRecord
  <2>1. Left(w) \in [Id -> Reading \cup {Unread}]
    BY <1>3 DEF Left, PassRecord
  <2> QED  BY <1>1, <2>1 DEF PassRecord, Idle
<1>6. \A i \in Id : PassFits(rest, i) /\ (rest.read[i] # Unread => rules[i] # NoRule)
  <2> TAKE i \in Id
  <2>1. /\ rest.kind = q.kind /\ rest.verdict[i] = "none"
        /\ rest.read[i] = q.read[i] \/ rest.read[i] = Unread
    BY <1>4 DEF Idle
  <2> HIDE DEF rest
  <2> QED  BY <1>1, <1>3, <2>1 DEF PassFits
<1>7. work' = [work EXCEPT ![w] = p]
  BY DEF Commit
<1>8. p \in PassRecord /\ \A i \in Id : PassFits(p, i) /\ (p.read[i] # Unread => rules[i] # NoRule)
  BY <1>5, <1>6, IdleFits
<1> HIDE DEF p, rest
<1>9. /\ work' \in [Worker -> PassRecord] /\ work'[w] = p
      /\ \A x \in Worker : x # w => work'[x] = work[x]
  BY <1>7, <1>8 DEF StampInv, DecodeTypeOK, PassRecord
<1>10. DecodeTypeOK'
  BY <1>1, <1>2, <1>9 DEF StampInv, DecodeTypeOK, PassRecord
<1>11. Queues'
  <2> SUFFICES ASSUME NEW x \in Worker, NEW i \in Id
               PROVE  PassFits(work'[x], i) /\ (work'[x].read[i] # Unread => rules'[i] # NoRule)
    BY DEF Queues
  <2>1. PassFits(work[x], i) /\ (work[x].read[i] # Unread => rules[i] # NoRule)
    BY DEF StampInv, Queues
  <2> QED  BY <2>1, <1>2, <1>8, <1>9
<1>12. DeskReads'
  <2>1. desk # NoDesk => desk.id \in Id
    BY DEF StampInv, DecodeTypeOK
  <2> QED  BY <2>1, <1>1, <1>2 DEF StampInv, DeskReads
<1> QED  BY <1>2, <1>10, <1>11, <1>12 DEF StampInv

-----------------------------------------------------------------------------
LEMMA OpenReviewInv ==
  ASSUME StampInv, OpenReview
  PROVE  StampInv'
<1>1. PICK S \in SUBSET Id :
        /\ \A i \in S : Is(rules[i], "approved")
        /\ rules' = [i \in Id |-> IF i \in S
             THEN [status |-> "rejected", claim |-> rules[i].claim, stamp |-> rules[i].stamp]
             ELSE rules[i]]
        /\ UNCHANGED <<origin, candidates, work, desk, approver, marred>>
  BY DEF OpenReview
<1>2. \A i \in Id : rules[i] \in Rule \cup {NoRule}
  BY DEF StampInv, DecodeTypeOK
<1>3. \A i \in S : rules[i] \in Rule /\ rules[i] # NoRule
  BY <1>1, <1>2 DEF Is
<1>4. \A i \in S : /\ rules'[i] \in Rule /\ rules'[i].status = "rejected"
                   /\ rules'[i].claim = rules[i].claim /\ rules'[i].stamp = rules[i].stamp
  BY <1>1, <1>3 DEF Rule
<1>5. \A i \in Id : i \notin S => rules'[i] = rules[i]
  BY <1>1
<1>6. rules' \in [Id -> Rule \cup {NoRule}]
  BY <1>1, <1>2, <1>3 DEF Rule
<1>7. \A i \in Id : rules[i] # NoRule => rules'[i] # NoRule
  BY <1>4, <1>5, NoRuleApart
<1>8. AllGood'
  <2> SUFFICES ASSUME NEW i \in Trusted' PROVE Good(rules'[i], approver'[i])
    BY DEF AllGood
  <2>1. i \in Id /\ i \notin marred /\ rules'[i] # NoRule /\ approver' = approver
    BY <1>1 DEF Trusted
  <2>2. i \in Trusted
    BY <1>3, <1>5, <2>1 DEF Trusted
  <2>3. Good(rules[i], approver[i])
    BY <2>2 DEF StampInv, AllGood
  <2> QED  BY <1>4, <1>5, <2>1, <2>3 DEF Good
<1>9. /\ approver' \in [Id -> {"none", "promotion", "corrector", "late", "operator"}]
      /\ marred' \subseteq Id
  BY <1>1 DEF StampInv, DecodeTypeOK
<1> QED  BY <1>1, <1>6, <1>7, <1>8, <1>9, OnlyRules

LEMMA ReadRuleInv ==
  ASSUME StampInv, NEW i \in Id, ReadRule(i)
  PROVE  StampInv'
<1>1. /\ rules[i] # NoRule /\ desk' = [id |-> i, seen |-> rules[i]]
      /\ UNCHANGED <<origin, candidates, rules, work, approver, marred>>
  BY DEF ReadRule
<1>2. rules[i] \in Rule
  BY <1>1 DEF StampInv, DecodeTypeOK
<1>3. DecodeTypeOK'
  BY <1>1, <1>2 DEF StampInv, DecodeTypeOK
<1>4. Queues' /\ DeskReads' /\ AllGood'
  BY <1>1 DEF StampInv, Queues, DeskReads, AllGood, Trusted
<1> QED  BY <1>3, <1>4 DEF StampInv

\* The operator's two writes: only the rule on the desk changes.
LEMMA DeskInv ==
  ASSUME StampInv, desk # NoDesk, desk' = NoDesk, UNCHANGED <<origin, candidates, work>>,
         NEW r \in Rule, NEW a \in {"none", "promotion", "corrector", "late", "operator"},
         rules' = [i \in Id |-> IF i = desk.id THEN r ELSE rules[i]],
         approver' = [i \in Id |-> IF i = desk.id THEN a ELSE approver[i]],
         marred \subseteq marred', marred' \subseteq Id,
         desk.id \notin marred' => Good(r, a)
  PROVE  StampInv'
<1>1. desk.id \in Id /\ rules[desk.id] # NoRule
  BY DEF StampInv, DecodeTypeOK, DeskReads
<1>2. rules' \in [Id -> Rule \cup {NoRule}]
  BY DEF StampInv, DecodeTypeOK
<1>3. approver' \in [Id -> {"none", "promotion", "corrector", "late", "operator"}]
  BY DEF StampInv, DecodeTypeOK
<1>4. \A i \in Id : rules[i] # NoRule => rules'[i] # NoRule
  BY NoRuleApart
<1>5. AllGood'
  BY <1>1 DEF StampInv, AllGood, Trusted
<1> QED  BY <1>2, <1>3, <1>4, <1>5, OnlyRules

LEMMA RejectRuleInv ==
  ASSUME StampInv, RejectRule
  PROVE  StampInv'
<1> DEFINE old == rules[desk.id]
           new == AfterReject(old, desk.seen)
<1>1. /\ desk # NoDesk /\ desk' = NoDesk
      /\ UNCHANGED <<origin, candidates, work, approver>>
      /\ rules' = [rules EXCEPT ![desk.id] = new]
      /\ marred' = IF desk.seen.stamp = old.stamp THEN marred ELSE marred \cup {desk.id}
  BY DEF RejectRule
<1>2. desk.id \in Id /\ desk.seen \in Rule /\ old \in Rule /\ old # NoRule
  BY <1>1 DEF StampInv, DecodeTypeOK, DeskReads
<1>3. new \in Rule
  BY <1>2 DEF AfterReject, Rule
<1>4. marred \subseteq marred' /\ marred' \subseteq Id
  BY <1>1, <1>2 DEF StampInv, DecodeTypeOK
<1>5. rules' = [i \in Id |-> IF i = desk.id THEN new ELSE rules[i]]
  BY <1>1, <1>2 DEF StampInv, DecodeTypeOK
<1>6. approver' = [i \in Id |-> IF i = desk.id THEN approver[desk.id] ELSE approver[i]]
  BY <1>1 DEF StampInv, DecodeTypeOK
<1>7. ASSUME desk.id \notin marred' PROVE Good(new, approver[desk.id])
  <2>1. desk.seen.stamp = old.stamp /\ desk.id \in Trusted
    BY <1>1, <1>2, <1>7 DEF Trusted
  <2>2. Good(old, approver[desk.id])
    BY <2>1 DEF StampInv, AllGood
  <2>3. /\ new.stamp = old.stamp /\ new.claim = old.claim
        /\ new.status = "rejected" \/ new.status = old.status
    BY <2>1 DEF AfterReject
  <2> HIDE DEF new, old
  <2> QED  BY <2>2, <2>3 DEF Good
<1>8. approver[desk.id] \in {"none", "promotion", "corrector", "late", "operator"}
  BY <1>2 DEF StampInv, DecodeTypeOK
<1> HIDE DEF new
<1> QED  BY <1>1, <1>3, <1>4, <1>5, <1>6, <1>7, <1>8, DeskInv

LEMMA ApproveRuleInv ==
  ASSUME StampInv, ApproveRule
  PROVE  StampInv'
<1>1. desk # NoDesk /\ desk' = NoDesk /\ UNCHANGED <<origin, candidates, work, marred>>
  BY DEF ApproveRule
<1>2. CASE UNCHANGED <<rules, approver>>
  <2>1. DecodeTypeOK'
    BY <1>1, <1>2 DEF StampInv, DecodeTypeOK
  <2>2. Queues' /\ DeskReads' /\ AllGood'
    BY <1>1, <1>2 DEF StampInv, Queues, DeskReads, AllGood, Trusted
  <2> QED  BY <2>1, <2>2 DEF StampInv
<1>3. CASE /\ rules' = [rules EXCEPT ![desk.id] = AfterApprove(rules[desk.id])]
           /\ approver' = [approver EXCEPT ![desk.id] = "operator"]
  <2> DEFINE old == rules[desk.id]
             new == AfterApprove(old)
  <2>1. desk.id \in Id /\ old \in Rule /\ old # NoRule
    BY <1>1 DEF StampInv, DecodeTypeOK, DeskReads
  <2>2. new \in Rule
    BY <2>1 DEF AfterApprove, Rule
  <2>3. ASSUME desk.id \notin marred' PROVE Good(new, "operator")
    <3>1. Good(old, approver[desk.id])
      BY <1>1, <2>1, <2>3 DEF StampInv, AllGood, Trusted
    <3>2. new.stamp = old.stamp /\ new.claim = old.claim
      BY DEF AfterApprove
    <3> HIDE DEF new, old
    <3> QED  BY <3>1, <3>2 DEF Good
  <2>4. rules' = [i \in Id |-> IF i = desk.id THEN new ELSE rules[i]]
    BY <1>3, <2>1 DEF StampInv, DecodeTypeOK
  <2>5. approver' = [i \in Id |-> IF i = desk.id THEN "operator" ELSE approver[i]]
    BY <1>3, <2>1 DEF StampInv, DecodeTypeOK
  <2>6. marred' = marred /\ marred \subseteq Id
    BY <1>1 DEF StampInv, DecodeTypeOK
  <2> HIDE DEF new
  <2> QED  BY <1>1, <2>2, <2>3, <2>4, <2>5, <2>6, DeskInv
<1> QED  BY <1>2, <1>3 DEF ApproveRule

-----------------------------------------------------------------------------
LEMMA NextInv == StampInv /\ [DecodeNext]_decodeVars => StampInv'
<1> SUFFICES ASSUME StampInv, [DecodeNext]_decodeVars PROVE StampInv'
  OBVIOUS
<1>1. CASE DecodeClause \/ ApplyDecoded
  BY <1>1, DecodeInv
<1>2. CASE Promote
  BY <1>2, PromoteInv
<1>3. ASSUME NEW w \in Worker, BeginReview(w) \/ BeginCorrect(w) \/ Export(w)
      PROVE  StampInv'
  BY <1>3, BeginAnyInv
<1>4. ASSUME NEW w \in Worker, NEW i \in Id, Judge(w, i) \/ Skip(w, i)
      PROVE  StampInv'
  BY <1>4, JudgeInv, SkipInv
<1>5. ASSUME NEW w \in Worker, Commit(w) \/ ApplyFile(w) \/ Stop(w)
      PROVE  StampInv'
  BY <1>5, CommitInv, ApplyFileInv, StopInv
<1>6. CASE OpenReview
  BY <1>6, OpenReviewInv
<1>7. ASSUME NEW i \in Id, ReadRule(i)
      PROVE  StampInv'
  BY <1>7, ReadRuleInv
<1>8. CASE RejectRule
  BY <1>8, RejectRuleInv
<1>9. CASE ApproveRule
  BY <1>9, ApproveRuleInv
<1>10. CASE UNCHANGED decodeVars
  <2>1. DecodeTypeOK'
    BY <1>10 DEF StampInv, DecodeTypeOK, decodeVars
  <2>2. Queues' /\ DeskReads' /\ AllGood'
    BY <1>10 DEF StampInv, Queues, DeskReads, AllGood, Trusted, decodeVars
  <2> QED  BY <2>1, <2>2 DEF StampInv
<1> QED  BY <1>1, <1>2, <1>3, <1>4, <1>5, <1>6, <1>7, <1>8, <1>9, <1>10 DEF DecodeNext

LEMMA Invariance == DecodeSpec => []StampInv
  BY InitInv, NextInv, PTL DEF DecodeSpec

\* The decode pipeline stays well typed, whatever the passes and the operator do.
THEOREM DecodeTyping == DecodeSpec => []DecodeTypeOK
<1>1. StampInv => DecodeTypeOK
  BY DEF StampInv
<1> QED  BY Invariance, <1>1, PTL

\* A rule that the source denylist rejected comes back only by the operator or
\* by a correction that had selected it before: for any number of rules and of
\* passes open together, stopped or applied twice.
THEOREM DenylistHolds == DecodeSpec => []DenylistStands
  BY Invariance, InvPromises, PTL

\* No promotion run again, and no late review that passes it, brings back a rule
\* that the review or the last correction rejected.
THEOREM RejectionsHold == DecodeSpec => []RejectionsStand
  BY Invariance, InvPromises, PTL

\* Overlapping corrections leave the claim and the stamp of one model.
THEOREM ClaimIsStamped == DecodeSpec => []StampedClaim
  BY Invariance, InvPromises, PTL

-----------------------------------------------------------------------------
(* Acquisition: the inductive invariant                                    *)
(*                                                                         *)
(* V and A stand for the versions and the artifacts, of this state or the  *)
(* next.                                                                   *)

Keeping == {"raw", "insert", "keep"}
Deciders == {"triage", "reconcile"}

Texted(V, s) == V[s] # <<>> /\ Last(V[s]).digest \in Text
SameCopy(p, A) == {x \in A : x.src = p.job.src /\ x.ver = p.ver /\ x.raw = p.raw}
Evidence(s, i, A) == {x \in A : x.src = s /\ x.ver = i}

\* The document has what an acquired row says it has.
Backed(doc, how, V, A) ==
  /\ doc \in Source
  /\ \E i \in DOMAIN V[doc] :
       /\ V[doc][i].digest \in Text
       /\ how = "fetched" => /\ Chunks[V[doc][i].digest] >= MinChunks
                             /\ Evidence(doc, i, A) # {}

\* What a process has in hand when it is done for a row, or decided one.
Holds(o, doc, how, V, A) == o = "acquired" => Backed(doc, how, V, A)

JobsFit(p, V) ==
  /\ p.todo \subseteq JobRow
  /\ p.kind = "repair" =>
       \A j \in p.todo : j.raw \in Copy /\ j.ver \in DOMAIN V[j.src]

\* The version a process imported is one that its bytes yield.
Parsed(p, V) ==
  /\ p.kind \in {"fetch", "acquire", "repair"}
  /\ p.job \in JobRow /\ p.raw \in Copy
  /\ p.ver \in DOMAIN V[p.job.src]
  /\ V[p.job.src][p.ver].digest \in Yields(p.raw)

Logged(p, V, A) ==
  /\ p.kind \in {"fetch", "acquire", "repair", "discover", "seed"}
  /\ p.job \in JobRow
  /\ p.kind = "acquire" => /\ p.ver \in DOMAIN V[p.job.src]
                           /\ V[p.job.src][p.ver].digest \in Text
                           /\ Evidence(p.job.src, p.ver, A) # {}

ProcessFits(p, V, A) ==
  /\ p.kind = "none" => p.at \in {"start", "end"}
  /\ p.kind \in Deciders =>
       \A d \in p.todo : d \in DecisionRow /\ Holds(d.status, d.doc, "alias", V, A)
  /\ p.kind \notin Deciders => JobsFit(p, V)
  /\ p.kind = "acquire" /\ p.at # "claim" => p.job \in JobRow
  /\ p.at \in Keeping => Parsed(p, V)
  /\ p.at = "keep" => SameCopy(p, A) # {}
  /\ p.at = "log" => Logged(p, V, A)
  /\ p.at = "end" /\ p.kind \in {"acquire", "text"} =>
       /\ p.job \in JobRow /\ p.out.status # "none"
       /\ Holds(p.out.status, p.out.doc, p.out.how, V, A)

RowsFit ==
  \A s \in Source : Holds(row[s].status, row[s].doc, row[s].how, versions, artifacts)

ArtifactsFit ==
  \A x \in artifacts :
    /\ x.ver \in DOMAIN versions[x.src]
    /\ versions[x.src][x.ver].digest \in Yields(x.raw)

\* Versions whose bytes process p still has to record.
Unrecorded(p) == IF p.at \in Keeping THEN {<<p.job.src, p.ver>>} ELSE {}

BytesKept ==
  \A s \in Source : \A i \in DOMAIN versions[s] :
    versions[s][i].made \in {"fetched", "repaired", "reparsed"} =>
      \/ Evidence(s, i, artifacts) # {}
      \/ <<s, i>> \in cut
      \/ \E a \in Actor : <<s, i>> \in Unrecorded(pass[a])

\* A repair adds a later and longer text, whatever runs beside it.
RepairsImprove ==
  \A s \in Source : \A i \in DOMAIN versions[s] :
    LET v == versions[s][i] IN
    v.made = "repaired" =>
      /\ v.from \in DOMAIN versions[s] /\ v.from < i
      /\ Length[v.digest] > Length[versions[s][v.from].digest]

\* What a process that is alone has read still stands.
UpToDate(p, V, A) ==
  /\ p.kind = "fetch" /\ p.mode = "plain" =>
       \A j \in p.todo : ~Texted(V, j.src) /\ j = Job(j.src, 0, None)
  /\ p.at = "insert" => SameCopy(p, A) = {}
  /\ p.at \in {"insert", "keep"} => p.saw = Evidence(p.job.src, p.ver, A)

Alone ==
  ~overlapped =>
    /\ ~refetched
    /\ \A a, b \in Actor : IsOpen(a) /\ IsOpen(b) => a = b
    /\ \A a \in Actor : UpToDate(pass[a], versions, artifacts)
    /\ artifacts = listed
    /\ \A x, y \in artifacts :
         (x.src = y.src /\ x.ver = y.ver /\ x.raw = y.raw) => x = y

AcquisitionInv ==
  /\ TypeOK
  /\ \A a \in Actor : ProcessFits(pass[a], versions, artifacts)
  /\ RowsFit
  /\ ArtifactsFit
  /\ BytesKept
  /\ RepairsImprove
  /\ Alone

-----------------------------------------------------------------------------
(* Acquisition: what grows                                                 *)

Versions == [Source -> Seq(VersionRow)]

\* Versions are added and never changed, and artifacts are added.
Grown(V, W, A, B) ==
  /\ \A s \in Source : \A i \in DOMAIN V[s] : i \in DOMAIN W[s] /\ W[s][i] = V[s][i]
  /\ A \subseteq B

LEMMA EvidenceStays ==
  ASSUME NEW A, NEW B, A \subseteq B, NEW s, NEW i, Evidence(s, i, A) # {}
  PROVE  Evidence(s, i, B) # {}
  BY DEF Evidence

LEMMA BackedStays ==
  ASSUME NEW V, NEW W, NEW A, NEW B, Grown(V, W, A, B),
         NEW o, NEW d, NEW how, Holds(o, d, how, V, A)
  PROVE  Holds(o, d, how, W, B)
<1> SUFFICES ASSUME o = "acquired" PROVE Backed(d, how, W, B)
  BY DEF Holds
<1>1. d \in Source
  BY DEF Holds, Backed
<1>2. PICK i \in DOMAIN V[d] :
        /\ V[d][i].digest \in Text
        /\ how = "fetched" => /\ Chunks[V[d][i].digest] >= MinChunks
                              /\ Evidence(d, i, A) # {}
  BY DEF Holds, Backed
<1>3. i \in DOMAIN W[d] /\ W[d][i] = V[d][i] /\ A \subseteq B
  BY <1>1 DEF Grown
<1> QED
  BY <1>1, <1>2, <1>3, EvidenceStays DEF Backed

LEMMA JobsInSource ==
  ASSUME NEW j \in JobRow
  PROVE  j.src \in Source /\ j.row \in Source /\ j.ver \in Nat /\ j.raw \in Copy \cup {None}
  BY DEF JobRow

LEMMA ProcessStays ==
  ASSUME NEW V, NEW W, NEW A, NEW B, Grown(V, W, A, B),
         NEW p \in Process, ProcessFits(p, V, A)
  PROVE  ProcessFits(p, W, B)
<1>1. p.kind \in Deciders =>
        \A d \in p.todo : d \in DecisionRow /\ Holds(d.status, d.doc, "alias", W, B)
  BY BackedStays DEF ProcessFits
<1>2. p.kind \notin Deciders => JobsFit(p, W)
  BY JobsInSource DEF ProcessFits, JobsFit, Grown
<1>3. p.at \in Keeping => Parsed(p, W)
  BY JobsInSource DEF ProcessFits, Parsed, Grown
<1>4. p.at = "keep" => SameCopy(p, B) # {}
  BY DEF ProcessFits, SameCopy, Grown
<1>5. p.at = "log" => Logged(p, W, B)
  BY JobsInSource, EvidenceStays DEF ProcessFits, Logged, Grown
<1>6. p.at = "end" /\ p.kind \in {"acquire", "text"} =>
        /\ p.job \in JobRow /\ p.out.status # "none"
        /\ Holds(p.out.status, p.out.doc, p.out.how, W, B)
  BY BackedStays DEF ProcessFits
<1> QED
  BY <1>1, <1>2, <1>3, <1>4, <1>5, <1>6 DEF ProcessFits

\* An import adds at most one version, to one source.
LEMMA ImportAdds ==
  ASSUME versions \in Versions, NEW s \in Source, NEW d \in Text \cup Anchor,
         NEW made \in {"anchor", "fetched", "repaired", "reparsed", "supplied"},
         NEW from \in Nat, Imports(s, d, made, from)
  PROVE  /\ versions' \in Versions
         /\ Imported(s, d) \in Nat /\ Imported(s, d) \in DOMAIN versions'[s]
         /\ versions'[s][Imported(s, d)].digest = d
         /\ \A t \in Source : t # s => versions'[t] = versions[t]
         /\ \A i \in DOMAIN versions[s] : i \in DOMAIN versions'[s]
                                          /\ versions'[s][i] = versions[s][i]
         /\ \A i \in DOMAIN versions'[s] :
              \/ i \in DOMAIN versions[s]
              \/ /\ i = Imported(s, d) /\ versions'[s][i] = Version(d, made, from)
                 /\ \A k \in DOMAIN versions[s] : k < i
<1> DEFINE q == versions[s]
           v == Version(d, made, from)
<1>1. q \in Seq(VersionRow) /\ v \in VersionRow /\ v.digest = d
  BY DEF Versions, Version, VersionRow
<1>2. CASE Carriers(s, d) = {}
  <2>1. Imported(s, d) = Len(q) + 1
    BY <1>2 DEF Imported, Latest
  <2>2. versions' = [versions EXCEPT ![s] = Append(q, v)]
    <3>1. ~(Imported(s, d) <= Latest(s))
      BY <1>1, <2>1 DEF Latest
    <3> QED
      BY <3>1 DEF Imports
  <2>3. versions'[s] = Append(q, v) /\ \A t \in Source : t # s => versions'[t] = versions[t]
    BY <2>2 DEF Versions
  <2> HIDE DEF q, v
  <2>4. /\ Append(q, v) \in Seq(VersionRow)
        /\ DOMAIN Append(q, v) = 1 .. (Len(q) + 1) /\ DOMAIN q = 1 .. Len(q)
        /\ Append(q, v)[Len(q) + 1] = v /\ Len(q) \in Nat
        /\ \A i \in DOMAIN q : Append(q, v)[i] = q[i]
    BY <1>1
  <2>5. versions' \in Versions
    BY <2>2, <2>4 DEF Versions
  <2> QED
    BY <1>1, <2>1, <2>3, <2>4, <2>5 DEF q, v
<1>3. CASE Carriers(s, d) # {}
  <2>1. Imported(s, d) \in Carriers(s, d)
    BY <1>3 DEF Imported
  <2>2. Imported(s, d) \in DOMAIN q /\ q[Imported(s, d)].digest = d
    BY <2>1 DEF Carriers
  <2>3. Imported(s, d) <= Latest(s) /\ Imported(s, d) \in Nat
    BY <1>1, <2>2 DEF Latest
  <2>4. versions' = versions
    BY <2>3 DEF Imports
  <2> QED
    BY <2>2, <2>3, <2>4
<1> QED
  BY <1>2, <1>3

-----------------------------------------------------------------------------
(* Acquisition: processes that go on                                       *)

LEMMA NoJobTyped ==
  /\ NoJob.src = None /\ NoJob \notin JobRow
  /\ \A s \in Source, i \in Nat, r \in Copy \cup {None} : Job(s, i, r) \in JobRow
  BY NoneAssumption DEF NoJob, Job, JobRow

LEMMA BegunTyped ==
  ASSUME NEW kind \in {"none", "fetch", "repair", "discover", "seed", "acquire", "text",
                       "triage", "reconcile"},
         NEW mode \in {"none", "plain", "force", "pending", "blocked"},
         NEW at \in {"start", "claim", "check", "import", "end"},
         NEW todo \in (SUBSET JobRow) \cup (SUBSET DecisionRow)
  PROVE  LET q == Begun(kind, mode, at, todo) IN
           /\ q \in Process
           /\ q.kind = kind /\ q.mode = mode /\ q.at = at /\ q.todo = todo
           /\ q.out.status = "none"
<1> DEFINE K == {"none", "fetch", "repair", "discover", "seed", "acquire", "text",
                 "triage", "reconcile"}
           M == {"none", "plain", "force", "pending", "blocked"}
           P == {"start", "claim", "check", "import", "raw", "insert", "keep", "log", "end"}
           T == (SUBSET JobRow) \cup (SUBSET DecisionRow)
           J == JobRow \cup {NoJob}
           R == Copy \cup {None}
           O == [status: RowStatus \cup {"none"}, doc: Source \cup {None}, how: Means]
           S == SUBSET ArtifactRow
           C == SUBSET Source
           q == Begun(kind, mode, at, todo)
<1>1. /\ kind \in K /\ mode \in M /\ at \in P /\ todo \in T
      /\ NoJob \in J /\ None \in R /\ {} \in S /\ {} \in C /\ 0 \in Nat
  OBVIOUS
<1>2. NoOutcome \in O /\ NoOutcome.status = "none"
  BY DEF NoOutcome, Means
<1>3. Process = [kind: K, mode: M, at: P, todo: T, job: J, ver: Nat, raw: R, saw: S,
                 out: O, tries: Nat, checked: C]
  BY DEF Process
<1>4. q = [kind |-> kind, mode |-> mode, at |-> at, todo |-> todo, job |-> NoJob,
           ver |-> 0, raw |-> None, saw |-> {}, out |-> NoOutcome, tries |-> 0,
           checked |-> {}]
  BY DEF Begun
<1> HIDE DEF K, M, P, T, J, R, O, S, C, q
<1>5. q \in Process
  BY <1>1, <1>2, <1>3, <1>4
<1> QED
  BY <1>2, <1>4, <1>5 DEF q

\* A process that begins, or begins its next job.
Fresh(q, V, A) ==
  /\ q.kind = "none" => q.at \in {"start", "end"}
  /\ q.at \notin Keeping \cup {"log"}
  /\ q.at = "end" => q.kind \in Deciders \cup {"none"}
  /\ q.kind = "acquire" => q.at = "claim"
  /\ q.kind \in Deciders =>
       \A d \in q.todo : d \in DecisionRow /\ Holds(d.status, d.doc, "alias", V, A)
  /\ q.kind \notin Deciders => JobsFit(q, V)

LEMMA FreshFits ==
  ASSUME NEW q, NEW V, NEW A, Fresh(q, V, A)
  PROVE  ProcessFits(q, V, A) /\ Unrecorded(q) = {}
  BY DEF Fresh, ProcessFits, Keeping, Deciders, Unrecorded

LEMMA ClosedFresh ==
  ASSUME NEW V, NEW A
  PROVE  /\ Closed \in Process /\ Fresh(Closed, V, A) /\ Closed.kind = "none"
         /\ UpToDate(Closed, V, A) /\ Closed.mode = "none" /\ Closed.at = "end"
<1>1. Closed \in Process /\ Closed.kind = "none" /\ Closed.at = "end" /\ Closed.todo = {}
      /\ Closed.mode = "none"
  BY BegunTyped DEF Closed
<1> QED
  BY <1>1 DEF Fresh, Keeping, Deciders, JobsFit, UpToDate

\* A process goes on to what is left of its jobs, or ends.
LEMMA OnwardGoes ==
  ASSUME NEW p \in Process, p.kind # "none"
  PROVE  LET q == Onward(p) IN
           /\ q \in Process
           /\ \/ q = Closed
              \/ /\ p.kind \notin Deciders
                 /\ q.kind = p.kind /\ q.mode = p.mode /\ q.todo = p.todo
                 /\ q.at \in {"claim", "check", "import"}
                 /\ (q.kind = "acquire" => q.at = "claim")
<1> DEFINE f == Begun(p.kind, p.mode, FirstStage(p.kind), p.todo)
           q == Onward(p)
<1>1. CASE p.kind \in Deciders \/ (p.kind # "acquire" /\ p.todo = {})
  BY <1>1, ClosedFresh DEF Onward, Deciders
<1>2. CASE ~(p.kind \in Deciders \/ (p.kind # "acquire" /\ p.todo = {}))
  <2>1. FirstStage(p.kind) \in {"claim", "check", "import"}
        /\ (p.kind = "acquire" => FirstStage(p.kind) = "claim")
    BY DEF FirstStage
  <2>p. /\ p.kind \in {"none", "fetch", "repair", "discover", "seed", "acquire", "text",
                       "triage", "reconcile"}
        /\ p.mode \in {"none", "plain", "force", "pending", "blocked"}
        /\ p.todo \in (SUBSET JobRow) \cup (SUBSET DecisionRow)
        /\ p.checked \in SUBSET Source
    BY DEF Process
  <2>2. f \in Process /\ f.kind = p.kind /\ f.mode = p.mode /\ f.at = FirstStage(p.kind)
        /\ f.todo = p.todo
    BY <2>1, <2>p, BegunTyped
  <2>3. q = [f EXCEPT !.checked = p.checked]
    BY <1>2 DEF Onward, Deciders
  <2> HIDE DEF f, q
  <2>4. q \in Process /\ q.kind = f.kind /\ q.mode = f.mode /\ q.at = f.at /\ q.todo = f.todo
    BY <2>p, <2>2, <2>3 DEF Process
  <2> QED
    BY <1>2, <2>1, <2>2, <2>4 DEF q
<1> QED
  BY <1>1, <1>2
-----------------------------------------------------------------------------
(* Acquisition: one process moves                                          *)

\* A process moves, and what is stored grows: everyone's hands still fit.
LEMMA MoveFits ==
  ASSUME AcquisitionInv, NEW a \in Actor, NEW q \in Process, pass' = [pass EXCEPT ![a] = q],
         Grown(versions, versions', artifacts, artifacts'),
         ProcessFits(q, versions', artifacts')
  PROVE  /\ pass' \in [Actor -> Process]
         /\ pass'[a] = q /\ \A b \in Actor : b # a => pass'[b] = pass[b]
         /\ \A b \in Actor : ProcessFits(pass'[b], versions', artifacts')
         /\ row' = row => RowsFit'
<1>1. pass \in [Actor -> Process]
  BY DEF AcquisitionInv, TypeOK
<1>2. pass' \in [Actor -> Process] /\ pass'[a] = q
      /\ \A b \in Actor : b # a => pass'[b] = pass[b]
  BY <1>1
<1>3. ASSUME NEW b \in Actor PROVE ProcessFits(pass'[b], versions', artifacts')
  <2>1. ASSUME b # a PROVE ProcessFits(pass'[b], versions', artifacts')
    <3>1. ProcessFits(pass[b], versions, artifacts) /\ pass[b] \in Process
      BY <1>1 DEF AcquisitionInv
    <3> QED
      BY <1>2, <2>1, <3>1, ProcessStays
  <2> QED
    BY <1>2, <2>1
<1>4. ASSUME row' = row PROVE RowsFit'
  <2> SUFFICES ASSUME NEW s \in Source
               PROVE  Holds(row[s].status, row[s].doc, row[s].how, versions', artifacts')
    BY <1>4 DEF RowsFit
  <2>1. Holds(row[s].status, row[s].doc, row[s].how, versions, artifacts)
    BY DEF AcquisitionInv, RowsFit
  <2> QED
    BY <2>1, BackedStays
<1> QED
  BY <1>2, <1>3, <1>4

\* Alone, the others are idle.
LEMMA OthersIdle ==
  ASSUME AcquisitionInv, ~overlapped, NEW a \in Actor, IsOpen(a)
  PROVE  \A b \in Actor : b # a => ~IsOpen(b)
  BY DEF AcquisitionInv, Alone

LEMMA IdleUpToDate ==
  ASSUME NEW p, NEW V, NEW A, NEW V1, NEW A1, p.kind = "none", ProcessFits(p, V1, A1)
  PROVE  UpToDate(p, V, A)
  BY DEF UpToDate, ProcessFits

\* A process moves and rows may change, but nothing is imported or kept.
LEMMA MovesOnly ==
  ASSUME AcquisitionInv, NEW a \in Actor, NEW q \in Process, pass' = [pass EXCEPT ![a] = q],
         UNCHANGED <<versions, artifacts, listed, refetched>>,
         ProcessFits(q, versions, artifacts),
         row' \in [Source -> ManifestRow], RowsFit', succeeded' \subseteq Source,
         cut \subseteq cut', cut' \subseteq Source \X Nat,
         Unrecorded(pass[a]) \subseteq cut' \cup Unrecorded(q), overlapped' \in BOOLEAN,
         ~overlapped' => /\ ~overlapped /\ UpToDate(q, versions, artifacts)
                         /\ q.kind = "none" \/ \A b \in Actor : b # a => ~IsOpen(b)
  PROVE  AcquisitionInv'
<1>1. Grown(versions, versions', artifacts, artifacts')
  BY DEF Grown
<1>2. /\ pass' \in [Actor -> Process]
      /\ pass'[a] = q /\ \A b \in Actor : b # a => pass'[b] = pass[b]
      /\ \A b \in Actor : ProcessFits(pass'[b], versions', artifacts')
  BY <1>1, MoveFits
<1>3. TypeOK'
  BY <1>2 DEF AcquisitionInv, TypeOK
<1>4. ArtifactsFit' /\ RepairsImprove'
  BY DEF AcquisitionInv, ArtifactsFit, RepairsImprove
<1>5. BytesKept'
  <2> SUFFICES ASSUME NEW s \in Source, NEW i \in DOMAIN versions[s],
                      versions[s][i].made \in {"fetched", "repaired", "reparsed"}
               PROVE  \/ Evidence(s, i, artifacts) # {}
                      \/ <<s, i>> \in cut'
                      \/ \E b \in Actor : <<s, i>> \in Unrecorded(pass'[b])
    BY DEF BytesKept
  <2>1. \/ Evidence(s, i, artifacts) # {}
        \/ <<s, i>> \in cut
        \/ \E b \in Actor : <<s, i>> \in Unrecorded(pass[b])
    BY DEF AcquisitionInv, BytesKept
  <2>2. ASSUME NEW b \in Actor, <<s, i>> \in Unrecorded(pass[b])
        PROVE  <<s, i>> \in cut' \/ \E c \in Actor : <<s, i>> \in Unrecorded(pass'[c])
    BY <1>2, <2>2
  <2> QED
    BY <2>1, <2>2
<1>6. Alone'
  <2> SUFFICES ASSUME ~overlapped'
               PROVE  /\ ~refetched
                      /\ \A b, c \in Actor : IsOpen(b)' /\ IsOpen(c)' => b = c
                      /\ \A b \in Actor : UpToDate(pass'[b], versions, artifacts)
                      /\ artifacts = listed
                      /\ \A x, y \in artifacts :
                           (x.src = y.src /\ x.ver = y.ver /\ x.raw = y.raw) => x = y
    BY DEF Alone
  <2>1. Alone /\ ~overlapped
    BY DEF AcquisitionInv
  <2>2. \A b, c \in Actor : IsOpen(b)' /\ IsOpen(c)' => b = c
    BY <1>2, <2>1 DEF Alone, IsOpen
  <2>3. ASSUME NEW b \in Actor PROVE UpToDate(pass'[b], versions, artifacts)
    BY <1>2, <2>1 DEF Alone
  <2> QED
    BY <2>1, <2>2, <2>3 DEF Alone
<1> QED
  BY <1>2, <1>3, <1>4, <1>5, <1>6 DEF AcquisitionInv

\* A process that goes on in the usual way: rows and history stay, and it
\* leaves no bytes behind.
LEMMA GoesOn ==
  ASSUME AcquisitionInv, NEW a \in Actor, IsOpen(a), NEW q \in Process,
         pass' = [pass EXCEPT ![a] = q],
         UNCHANGED <<versions, artifacts, listed, row, history>>,
         succeeded' \subseteq Source, ProcessFits(q, versions, artifacts),
         Unrecorded(pass[a]) \subseteq Unrecorded(q),
         ~overlapped =>
           (UpToDate(pass[a], versions, artifacts) => UpToDate(q, versions, artifacts))
  PROVE  AcquisitionInv'
<1>1. /\ row' \in [Source -> ManifestRow] /\ RowsFit'
      /\ cut' = cut /\ cut \subseteq Source \X Nat
      /\ overlapped' = overlapped /\ overlapped \in BOOLEAN
  BY DEF AcquisitionInv, TypeOK, RowsFit, history
<1>2. ~overlapped => UpToDate(pass[a], versions, artifacts)
                     /\ \A b \in Actor : b # a => ~IsOpen(b)
  BY OthersIdle DEF AcquisitionInv, Alone
<1>3. cut \subseteq cut' /\ cut' \subseteq Source \X Nat /\ overlapped' \in BOOLEAN
      /\ Unrecorded(pass[a]) \subseteq cut' \cup Unrecorded(q)
      /\ UNCHANGED <<versions, artifacts, listed, refetched>>
  BY <1>1 DEF history
<1>4. ~overlapped' => /\ ~overlapped /\ UpToDate(q, versions, artifacts)
                      /\ q.kind = "none" \/ \A b \in Actor : b # a => ~IsOpen(b)
  BY <1>1, <1>2
<1> QED
  BY <1>1, <1>3, <1>4, MovesOnly
\* What a process goes on to fits.
LEMMA OnwardFits ==
  ASSUME AcquisitionInv, NEW a \in Actor, IsOpen(a), NEW p \in Process,
         p.kind = pass[a].kind, p.mode = pass[a].mode, p.todo \subseteq pass[a].todo
  PROVE  LET q == Onward(p) IN
           /\ q \in Process /\ ProcessFits(q, versions, artifacts) /\ Unrecorded(q) = {}
           /\ UpToDate(pass[a], versions, artifacts) => UpToDate(q, versions, artifacts)
<1> DEFINE q == Onward(p)
<1>1. p.kind # "none" /\ ProcessFits(pass[a], versions, artifacts)
  BY DEF IsOpen, AcquisitionInv
<1>2. /\ q \in Process
      /\ \/ q = Closed
         \/ /\ p.kind \notin Deciders
            /\ q.kind = p.kind /\ q.mode = p.mode /\ q.todo = p.todo
            /\ q.at \in {"claim", "check", "import"}
            /\ (q.kind = "acquire" => q.at = "claim")
  BY <1>1, OnwardGoes
<1> HIDE DEF q
<1>3. CASE q = Closed
  <2>1. Fresh(q, versions, artifacts) /\ UpToDate(q, versions, artifacts)
    BY <1>3, ClosedFresh
  <2> QED
    BY <1>2, <2>1, FreshFits DEF q
<1>4. CASE q # Closed
  <2>1. JobsFit(q, versions)
    BY <1>1, <1>2, <1>4 DEF ProcessFits, JobsFit
  <2>2. Fresh(q, versions, artifacts)
    BY <1>1, <1>2, <1>4, <2>1 DEF Fresh, Keeping, Deciders
  <2>3. UpToDate(pass[a], versions, artifacts) => UpToDate(q, versions, artifacts)
    BY <1>2, <1>4 DEF UpToDate
  <2> QED
    BY <1>2, <2>2, <2>3, FreshFits DEF q
<1> QED
  BY <1>3, <1>4

LEMMA PastFits ==
  ASSUME AcquisitionInv, NEW a \in Actor, IsOpen(a), NEW j
  PROVE  /\ Past(a, j) \in Process /\ ProcessFits(Past(a, j), versions, artifacts)
         /\ UpToDate(pass[a], versions, artifacts) =>
              UpToDate(Past(a, j), versions, artifacts)
<1> DEFINE p == [pass[a] EXCEPT !.todo = @ \ {j}]
<1>1. pass[a] \in Process
  BY DEF AcquisitionInv, TypeOK
<1>2. pass[a].todo \ {j} \in (SUBSET JobRow) \cup (SUBSET DecisionRow)
  BY <1>1 DEF Process
<1>3. p \in Process
  BY <1>1, <1>2 DEF Process
<1>4. p.kind = pass[a].kind /\ p.mode = pass[a].mode /\ p.todo \subseteq pass[a].todo
  BY <1>1 DEF Process
<1> QED
  BY <1>3, <1>4, OnwardFits DEF Past

LEMMA LogsTyped ==
  ASSUME AcquisitionInv, NEW s \in Source, NEW success, Logs(s, success)
  PROVE  succeeded' \subseteq Source
  BY DEF AcquisitionInv, TypeOK, Logs

\* A job in the hand of an open process of a kind that has jobs.
LEMMA HandFits ==
  ASSUME AcquisitionInv, NEW a \in Actor, NEW kinds, NEW at, At(a, kinds, at), "none" \notin kinds
  PROVE  /\ IsOpen(a) /\ pass[a] \in Process /\ ProcessFits(pass[a], versions, artifacts)
         /\ pass[a].kind \in kinds /\ pass[a].at = at
         /\ kinds \cap Deciders = {} =>
              /\ JobsFit(pass[a], versions)
              /\ \A j \in pass[a].todo : j \in JobRow
  BY DEF AcquisitionInv, TypeOK, At, IsOpen, ProcessFits, JobsFit

LEMMA InsteadKeeps ==
  ASSUME AcquisitionInv, NEW a \in Actor, IsOpen(a), pass[a].at \notin Keeping,
         NEW j \in JobRow, LogsInstead(a, j)
  PROVE  AcquisitionInv'
<1>1. succeeded' \subseteq Source
  BY LogsTyped, JobsInSource DEF LogsInstead
<1> QED
  BY <1>1, PastFits, GoesOn DEF LogsInstead, Unrecorded

LEMMA FetchFailsKeeps ==
  ASSUME AcquisitionInv, NEW a \in Actor, FetchFails(a)
  PROVE  AcquisitionInv'
<1>1. At(a, {"fetch"}, "import")
  BY DEF FetchFails
<1>2. IsOpen(a) /\ pass[a].at = "import" /\ \A j \in pass[a].todo : j \in JobRow
  BY <1>1, HandFits DEF Deciders
<1> QED
  BY <1>2, InsteadKeeps DEF FetchFails, Keeping

LEMMA RepairSkipsKeeps ==
  ASSUME AcquisitionInv, NEW a \in Actor, RepairSkips(a)
  PROVE  AcquisitionInv'
<1>1. At(a, {"repair"}, "import")
  BY DEF RepairSkips
<1>2. IsOpen(a) /\ pass[a].at = "import" /\ \A j \in pass[a].todo : j \in JobRow
  BY <1>1, HandFits DEF Deciders
<1> QED
  BY <1>2, InsteadKeeps DEF RepairSkips, Keeping

\* Passing over a job without a log.
LEMMA PassedOver ==
  ASSUME AcquisitionInv, NEW a \in Actor, IsOpen(a), pass[a].at \notin Keeping, NEW j,
         pass' = [pass EXCEPT ![a] = Past(a, j)], UNCHANGED <<library, row, history>>
  PROVE  AcquisitionInv'
<1>1. succeeded' \subseteq Source
  BY DEF AcquisitionInv, TypeOK, library
<1> QED
  BY <1>1, PastFits, GoesOn DEF library, Unrecorded

LEMMA RepairUnsupportedKeeps ==
  ASSUME AcquisitionInv, NEW a \in Actor, RepairUnsupported(a) PROVE AcquisitionInv'
<1>1. At(a, {"repair"}, "import")
  BY DEF RepairUnsupported
<1>2. IsOpen(a) /\ pass[a].at = "import"
  BY <1>1, HandFits
<1> QED
  BY <1>2, PassedOver DEF RepairUnsupported, Keeping

LEMMA TextSkipsKeeps ==
  ASSUME AcquisitionInv, NEW a \in Actor, TextSkips(a)
  PROVE  AcquisitionInv'
<1>1. At(a, {"text"}, "import")
  BY DEF TextSkips
<1>2. IsOpen(a) /\ pass[a].at = "import"
  BY <1>1, HandFits
<1> QED
  BY <1>2, PassedOver DEF TextSkips, Keeping

LEMMA DiscoverCheckKeeps ==
  ASSUME AcquisitionInv, NEW a \in Actor, DiscoverCheck(a)
  PROVE  AcquisitionInv'
<1>1. At(a, {"discover"}, "check")
  BY DEF DiscoverCheck
<1>2. /\ IsOpen(a) /\ pass[a] \in Process /\ ProcessFits(pass[a], versions, artifacts)
      /\ pass[a].kind = "discover" /\ pass[a].at = "check"
      /\ JobsFit(pass[a], versions) /\ \A j \in pass[a].todo : j \in JobRow
  BY <1>1, HandFits DEF Deciders
<1>3. PICK j \in pass[a].todo :
        pass' = [pass EXCEPT ![a] = IF HasText(j.src) THEN Past(a, j)
                                    ELSE [@ EXCEPT !.at = "import", !.job = j]]
  BY DEF DiscoverCheck
<1>4. ASSUME HasText(j.src) PROVE AcquisitionInv'
  BY <1>2, <1>3, <1>4, PassedOver DEF DiscoverCheck, Keeping
<1>5. ASSUME ~HasText(j.src) PROVE AcquisitionInv'
  <2> DEFINE q == [pass[a] EXCEPT !.at = "import", !.job = j]
  <2>1. pass' = [pass EXCEPT ![a] = q]
    BY <1>3, <1>5
  <2>2. /\ q \in Process /\ q.at = "import" /\ q.kind = "discover"
        /\ q.todo = pass[a].todo
    BY <1>2 DEF Process
  <2> HIDE DEF q
  <2>3. ProcessFits(q, versions, artifacts) /\ UpToDate(q, versions, artifacts)
    BY <1>2, <2>2 DEF ProcessFits, JobsFit, Deciders, Keeping, UpToDate
  <2>4. UNCHANGED <<versions, artifacts, listed, row, history>> /\ succeeded' \subseteq Source
        /\ Unrecorded(pass[a]) = {}
    BY <1>2 DEF DiscoverCheck, AcquisitionInv, TypeOK, library, Unrecorded, Keeping
  <2> QED
    BY <1>2, <2>1, <2>2, <2>3, <2>4, GoesOn
<1> QED
  BY <1>4, <1>5
LEMMA DrainedKeeps == ASSUME AcquisitionInv, NEW a \in Actor, Drained(a) PROVE AcquisitionInv'
<1>1. At(a, {"acquire"}, "claim")
  BY DEF Drained
<1>2. IsOpen(a) /\ pass[a].at = "claim"
  BY <1>1, HandFits
<1>3. /\ Closed \in Process /\ ProcessFits(Closed, versions, artifacts)
      /\ UpToDate(Closed, versions, artifacts)
  BY ClosedFresh, FreshFits
<1>4. UNCHANGED <<versions, artifacts, listed, row, history>> /\ succeeded' \subseteq Source
      /\ Unrecorded(pass[a]) = {} /\ pass' = [pass EXCEPT ![a] = Closed]
  BY <1>2 DEF Drained, AcquisitionInv, TypeOK, library, Unrecorded, Keeping
<1> QED
  BY <1>2, <1>3, <1>4, GoesOn

\* A worker that is done with a row without an instrument for it.
LEMMA EndsFits ==
  ASSUME AcquisitionInv, NEW a \in Actor, pass[a].kind = "acquire", pass[a].at # "claim",
         NEW status \in RowStatus, status # "acquired", Ends(a, status)
  PROVE  \E q \in Process :
           /\ pass' = [pass EXCEPT ![a] = q]
           /\ ProcessFits(q, versions, artifacts) /\ UpToDate(q, versions, artifacts)
<1> DEFINE p == pass[a]
           out == [status |-> status, doc |-> None, how |-> "none"]
           q == [p EXCEPT !.at = "end", !.todo = {}, !.out = out]
<1>1. p \in Process /\ ProcessFits(p, versions, artifacts)
  BY DEF AcquisitionInv, TypeOK
<1>2. out \in [status: RowStatus \cup {"none"}, doc: Source \cup {None}, how: Means]
      /\ out.status = status
  BY DEF Means
<1>3. pass' = [pass EXCEPT ![a] = q]
  BY DEF Ends
<1> HIDE DEF out
<1>4. /\ q \in Process /\ q.kind = "acquire" /\ q.at = "end" /\ q.todo = {}
      /\ q.out = out /\ q.job = p.job
  BY <1>1, <1>2 DEF Process
<1> HIDE DEF q
<1>5. p.job \in JobRow
  BY <1>1 DEF ProcessFits
<1>6. ProcessFits(q, versions, artifacts)
  <2>1. status # "none"
    BY DEF RowStatus
  <2> QED
    BY <1>2, <1>4, <1>5, <2>1 DEF ProcessFits, JobsFit, Keeping, Deciders, Holds
<1>7. UpToDate(q, versions, artifacts)
  BY <1>4 DEF UpToDate
<1> QED
  BY <1>3, <1>4, <1>6, <1>7

LEMMA AttemptFailsKeeps ==
  ASSUME AcquisitionInv, NEW a \in Actor, AttemptFails(a)
  PROVE  AcquisitionInv'
<1>1. At(a, {"acquire"}, "import")
  BY DEF AttemptFails
<1>2. /\ IsOpen(a) /\ pass[a] \in Process /\ ProcessFits(pass[a], versions, artifacts)
      /\ pass[a].kind = "acquire" /\ pass[a].at = "import"
  BY <1>1, HandFits
<1>3. UNCHANGED <<versions, artifacts, listed, row, history>> /\ succeeded' \subseteq Source
      /\ Unrecorded(pass[a]) = {}
  BY <1>2 DEF AttemptFails, AcquisitionInv, TypeOK, library, Unrecorded, Keeping
<1>4. ASSUME pass' = [pass EXCEPT ![a].tries = @ + 1] PROVE AcquisitionInv'
  <2> DEFINE q == [pass[a] EXCEPT !.tries = @ + 1]
  <2>1. pass' = [pass EXCEPT ![a] = q]
    BY <1>4
  <2>2. /\ q \in Process /\ q.at = "import" /\ q.kind = "acquire"
        /\ q.todo = pass[a].todo /\ q.job = pass[a].job
    BY <1>2 DEF Process
  <2> HIDE DEF q
  <2>3. ProcessFits(q, versions, artifacts) /\ UpToDate(q, versions, artifacts)
    BY <1>2, <2>2 DEF ProcessFits, JobsFit, Deciders, Keeping, UpToDate
  <2> QED
    BY <1>2, <1>3, <2>1, <2>2, <2>3, GoesOn
<1>5. ASSUME NEW status \in {"blocked", "metadata_only"}, Ends(a, status) PROVE AcquisitionInv'
  <2>1. status \in RowStatus /\ status # "acquired"
    BY DEF RowStatus
  <2>2. PICK q \in Process :
          /\ pass' = [pass EXCEPT ![a] = q]
          /\ ProcessFits(q, versions, artifacts) /\ UpToDate(q, versions, artifacts)
    BY <1>2, <1>5, <2>1, EndsFits
  <2> QED
    BY <1>2, <1>3, <2>2, GoesOn
<1> QED
  BY <1>4, <1>5 DEF AttemptFails

\* What a process leaves behind is a version of a source.
LEMMA UnrecordedTyped ==
  ASSUME AcquisitionInv, NEW a \in Actor
  PROVE  Abandoned(a) = Unrecorded(pass[a]) /\ Unrecorded(pass[a]) \subseteq Source \X Nat
<1>1. pass[a] \in Process /\ ProcessFits(pass[a], versions, artifacts)
  BY DEF AcquisitionInv, TypeOK
<1>2. ASSUME pass[a].at \in Keeping
      PROVE  pass[a].job.src \in Source /\ pass[a].ver \in Nat
  <2>1. pass[a].job \in JobRow /\ pass[a].ver \in Nat
    BY <1>1, <1>2 DEF ProcessFits, Parsed, Process
  <2> QED
    BY <2>1, JobsInSource
<1> QED
  BY <1>2 DEF Abandoned, Unrecorded, Keeping

\* A process breaks off, and what it left is remembered.
LEMMA BreaksOff ==
  ASSUME AcquisitionInv, NEW a \in Actor, IsOpen(a), NEW q \in Process,
         pass' = [pass EXCEPT ![a] = q], cut' = cut \cup Abandoned(a),
         UNCHANGED <<versions, artifacts, listed, row, overlapped, refetched>>,
         succeeded' \subseteq Source, ProcessFits(q, versions, artifacts),
         UpToDate(pass[a], versions, artifacts) => UpToDate(q, versions, artifacts)
  PROVE  AcquisitionInv'
<1>1. /\ row' \in [Source -> ManifestRow] /\ RowsFit'
      /\ overlapped' = overlapped /\ overlapped \in BOOLEAN /\ cut \subseteq Source \X Nat
  BY DEF AcquisitionInv, TypeOK, RowsFit
<1>2. cut \subseteq cut' /\ cut' \subseteq Source \X Nat
      /\ Unrecorded(pass[a]) \subseteq cut' \cup Unrecorded(q)
      /\ UNCHANGED <<versions, artifacts, listed, refetched>>
  BY <1>1, UnrecordedTyped
<1>3. ~overlapped => UpToDate(pass[a], versions, artifacts)
                     /\ \A b \in Actor : b # a => ~IsOpen(b)
  BY OthersIdle DEF AcquisitionInv, Alone
<1>4. ~overlapped' => /\ ~overlapped /\ UpToDate(q, versions, artifacts)
                      /\ q.kind = "none" \/ \A b \in Actor : b # a => ~IsOpen(b)
  BY <1>1, <1>3
<1> QED
  BY <1>1, <1>2, <1>4, MovesOnly

LEMMA WorkerErrorKeeps ==
  ASSUME AcquisitionInv, NEW a \in Actor, WorkerError(a)
  PROVE  AcquisitionInv'
<1>1. pass[a].kind = "acquire" /\ IsOpen(a) /\ pass[a].at # "claim"
  BY DEF WorkerError, Unexpected, IsOpen
<1>2. "blocked" \in RowStatus /\ Ends(a, "blocked")
  BY DEF WorkerError, RowStatus
<1>3. PICK q \in Process :
        /\ pass' = [pass EXCEPT ![a] = q]
        /\ ProcessFits(q, versions, artifacts) /\ UpToDate(q, versions, artifacts)
  BY <1>1, <1>2, EndsFits
<1>4. /\ UNCHANGED <<versions, artifacts, listed, row, overlapped, refetched>>
      /\ cut' = cut \cup Abandoned(a) /\ succeeded' \subseteq Source
  BY DEF WorkerError, AcquisitionInv, TypeOK
<1> QED
  BY <1>1, <1>3, <1>4, BreaksOff

LEMMA CutOffKeeps == ASSUME AcquisitionInv, NEW a \in Actor, CutOff(a) PROVE AcquisitionInv'
<1>1. /\ Closed \in Process /\ ProcessFits(Closed, versions, artifacts)
      /\ UpToDate(Closed, versions, artifacts)
  BY ClosedFresh, FreshFits
<1>2. /\ UNCHANGED <<versions, artifacts, listed, row, overlapped, refetched>>
      /\ cut' = cut \cup Abandoned(a) /\ succeeded' \subseteq Source
      /\ pass' = [pass EXCEPT ![a] = Closed] /\ IsOpen(a)
  BY DEF CutOff, AcquisitionInv, TypeOK
<1> QED
  BY <1>1, <1>2, BreaksOff

LEMMA RepairBreaksKeeps ==
  ASSUME AcquisitionInv, NEW a \in Actor, RepairBreaks(a)
  PROVE  AcquisitionInv'
<1>1. At(a, {"repair"}, "raw")
  BY DEF RepairBreaks
<1>2. /\ IsOpen(a) /\ pass[a] \in Process /\ ProcessFits(pass[a], versions, artifacts)
      /\ pass[a].at = "raw"
  BY <1>1, HandFits
<1>3. pass[a].job \in JobRow
  BY <1>2 DEF ProcessFits, Parsed, Keeping
<1>4. /\ UNCHANGED <<versions, artifacts, listed, row, overlapped, refetched>>
      /\ cut' = cut \cup Abandoned(a) /\ succeeded' \subseteq Source
      /\ pass' = [pass EXCEPT ![a] = Onward(pass[a])]
  BY <1>3, JobsInSource, LogsTyped DEF RepairBreaks
<1>5. LET q == Onward(pass[a]) IN
        /\ q \in Process /\ ProcessFits(q, versions, artifacts)
        /\ UpToDate(pass[a], versions, artifacts) => UpToDate(q, versions, artifacts)
  BY <1>2, OnwardFits
<1> QED
  BY <1>2, <1>4, <1>5, BreaksOff

LEMMA RawReadKeeps == ASSUME AcquisitionInv, NEW a \in Actor, RawRead(a) PROVE AcquisitionInv'
<1> DEFINE p == pass[a]
           at == IF Kept(a) = {} THEN "insert" ELSE "keep"
           saw == listed \cap RawsOf(p.job.src, p.ver)
           q == [p EXCEPT !.at = at, !.saw = saw]
<1>1. At(a, {"fetch", "acquire", "repair"}, "raw")
  BY DEF RawRead
<1>2. IsOpen(a) /\ p \in Process /\ ProcessFits(p, versions, artifacts)
      /\ p.kind \in {"fetch", "acquire", "repair"} /\ p.at = "raw"
  BY <1>1, HandFits
<1>3. /\ UNCHANGED <<versions, artifacts, listed, row, history>>
      /\ succeeded' \subseteq Source /\ pass' = [pass EXCEPT ![a] = q]
  BY DEF RawRead, AcquisitionInv, TypeOK
<1>4. saw \in SUBSET ArtifactRow /\ Kept(a) = SameCopy(p, artifacts)
  BY DEF AcquisitionInv, TypeOK, Kept, SameCopy
<1>5. at \in {"insert", "keep"} /\ (at = "keep" <=> SameCopy(p, artifacts) # {})
  BY <1>4
<1>s. ~overlapped => saw = Evidence(p.job.src, p.ver, artifacts)
  BY DEF AcquisitionInv, Alone, TypeOK, RawsOf, Evidence
<1> HIDE DEF at, saw
<1>6. /\ q \in Process /\ q.kind = p.kind /\ q.at = at /\ q.todo = p.todo
      /\ q.mode = p.mode /\ q.job = p.job /\ q.ver = p.ver /\ q.raw = p.raw /\ q.saw = saw
  BY <1>2, <1>4, <1>5 DEF Process
<1> HIDE DEF q
<1>7. Parsed(q, versions) /\ JobsFit(q, versions) /\ q.job \in JobRow
  BY <1>2, <1>6 DEF ProcessFits, Parsed, JobsFit, Keeping, Deciders
<1>8. SameCopy(q, artifacts) = SameCopy(p, artifacts)
  BY <1>6 DEF SameCopy
<1>9. ProcessFits(q, versions, artifacts)
  BY <1>2, <1>5, <1>6, <1>7, <1>8 DEF ProcessFits, Keeping, Deciders
<1>10. Unrecorded(p) = Unrecorded(q)
  BY <1>2, <1>5, <1>6 DEF Unrecorded, Keeping
<1>11. ~overlapped =>
         (UpToDate(p, versions, artifacts) => UpToDate(q, versions, artifacts))
  BY <1>2, <1>5, <1>6, <1>8, <1>s DEF UpToDate
<1> QED
  BY <1>2, <1>3, <1>6, <1>9, <1>10, <1>11, GoesOn

LEMMA LogImportKeeps ==
  ASSUME AcquisitionInv, NEW a \in Actor, LogImport(a)
  PROVE  AcquisitionInv'
<1> DEFINE p == pass[a]
           q == [p EXCEPT !.at = "end", !.out = Outcome(a)]
<1>1. p.at = "log" /\ p \in Process /\ ProcessFits(p, versions, artifacts)
  BY DEF LogImport, AcquisitionInv, TypeOK
<1>2. IsOpen(a) /\ Logged(p, versions, artifacts) /\ p.job \in JobRow
  BY <1>1 DEF ProcessFits, IsOpen, Logged
<1>3. /\ UNCHANGED <<versions, artifacts, listed, row, history>>
      /\ succeeded' \subseteq Source
  BY <1>2, JobsInSource, LogsTyped DEF LogImport
<1>l. Unrecorded(p) = {}
  BY <1>1 DEF Unrecorded, Keeping
<1>4. ASSUME p.kind # "acquire" PROVE AcquisitionInv'
  <2>1. pass' = [pass EXCEPT ![a] = Onward(p)]
    BY <1>4 DEF LogImport
  <2>2. /\ Onward(p) \in Process /\ ProcessFits(Onward(p), versions, artifacts)
        /\ UpToDate(p, versions, artifacts) => UpToDate(Onward(p), versions, artifacts)
    BY <1>1, <1>2, OnwardFits
  <2> QED
    BY <1>2, <1>3, <1>l, <2>1, <2>2, GoesOn
<1>5. ASSUME p.kind = "acquire" PROVE AcquisitionInv'
  <2>1. pass' = [pass EXCEPT ![a] = q]
    BY <1>5 DEF LogImport
  <2> DEFINE out == Outcome(a)
             s == p.job.src
  <2>2. /\ s \in Source /\ p.ver \in DOMAIN versions[s]
        /\ versions[s][p.ver].digest \in Text /\ Evidence(s, p.ver, artifacts) # {}
    BY <1>2, <1>5, JobsInSource DEF Logged
  <2>3. /\ out \in [status: RowStatus \cup {"none"}, doc: Source \cup {None}, how: Means]
        /\ out.doc = s /\ out.status \in {"blocked", "acquired"}
        /\ out.status = "acquired" =>
             ~(Chunks[versions[s][p.ver].digest] < MinChunks) /\ out.how = "fetched"
    BY <2>2 DEF Outcome, RowStatus, Means
  <2>4. Chunks[versions[s][p.ver].digest] \in Nat /\ MinChunks \in Nat
    BY <2>2, ShapeAssumption, BoundAssumption
  <2>5. Holds(out.status, out.doc, out.how, versions, artifacts)
    BY <2>2, <2>3, <2>4 DEF Holds, Backed
  <2> HIDE DEF out
  <2>6. /\ q \in Process /\ q.kind = "acquire" /\ q.at = "end" /\ q.todo = p.todo
        /\ q.job = p.job /\ q.out = out
    BY <1>1, <1>5, <2>3 DEF Process, out
  <2> HIDE DEF q
  <2>7. ProcessFits(q, versions, artifacts)
    BY <1>1, <1>2, <1>5, <2>3, <2>5, <2>6 DEF ProcessFits, JobsFit, Keeping, Deciders
  <2>8. UpToDate(q, versions, artifacts)
    BY <2>6 DEF UpToDate
  <2> QED
    BY <1>2, <1>3, <1>l, <2>1, <2>6, <2>7, <2>8, GoesOn
<1> QED
  BY <1>4, <1>5
\* The job done for a row.
LEMMA RowJobTyped ==
  ASSUME AcquisitionInv, NEW s \in Source
  PROVE  RowJob(s) \in JobRow
<1> DEFINE src == IF row[s].url = None THEN s ELSE row[s].url
           j == Job(s, 0, None)
<1>1. row[s] \in ManifestRow
  BY DEF AcquisitionInv, TypeOK
<1>2. src \in Source
  BY <1>1 DEF ManifestRow
<1>3. j \in JobRow
  BY NoJobTyped
<1>4. RowJob(s) = [j EXCEPT !.src = src]
  BY DEF RowJob
<1> HIDE DEF src, j
<1> QED
  BY <1>2, <1>3, <1>4 DEF JobRow

LEMMA ClaimKeeps == ASSUME AcquisitionInv, NEW a \in Actor, Claim(a) PROVE AcquisitionInv'
<1> DEFINE p == pass[a]
<1>1. At(a, {"acquire"}, "claim")
  BY DEF Claim
<1>2. /\ IsOpen(a) /\ p \in Process /\ ProcessFits(p, versions, artifacts)
      /\ p.kind = "acquire" /\ p.at = "claim"
  BY <1>1, HandFits
<1>3. PICK s \in Claimable(a) :
        /\ row' = [row EXCEPT ![s].leased = TRUE]
        /\ pass' = [pass EXCEPT ![a] =
                      [@ EXCEPT !.at = "import", !.job = RowJob(s), !.todo = {RowJob(s)}]]
  BY DEF Claim
<1>4. s \in Source /\ row \in [Source -> ManifestRow]
  BY DEF Claimable, AcquisitionInv, TypeOK
<1> DEFINE j == RowJob(s)
           q == [p EXCEPT !.at = "import", !.job = j, !.todo = {j}]
<1>5. j \in JobRow
  BY <1>4, RowJobTyped
<1>6. pass' = [pass EXCEPT ![a] = q]
  BY <1>3
<1> HIDE DEF j
<1>7. q \in Process /\ q.kind = "acquire" /\ q.at = "import" /\ q.todo = {j} /\ q.job = j
  BY <1>2, <1>5 DEF Process
<1> HIDE DEF q
<1>8. ProcessFits(q, versions, artifacts) /\ UpToDate(q, versions, artifacts)
  BY <1>5, <1>7 DEF ProcessFits, JobsFit, Keeping, Deciders, UpToDate
<1>9. row' \in [Source -> ManifestRow]
      /\ \A t \in Source : /\ row'[t].status = row[t].status /\ row'[t].doc = row[t].doc
                           /\ row'[t].how = row[t].how
  <2>1. \A r \in ManifestRow : /\ [r EXCEPT !.leased = TRUE] \in ManifestRow
                               /\ [r EXCEPT !.leased = TRUE].status = r.status
                               /\ [r EXCEPT !.leased = TRUE].doc = r.doc
                               /\ [r EXCEPT !.leased = TRUE].how = r.how
    BY DEF ManifestRow
  <2>2. row' = [row EXCEPT ![s] = [row[s] EXCEPT !.leased = TRUE]]
    BY <1>3
  <2> QED
    BY <1>4, <2>1, <2>2
<1>10. RowsFit'
  <2>1. \A t \in Source : Holds(row[t].status, row[t].doc, row[t].how, versions, artifacts)
    BY DEF AcquisitionInv, RowsFit
  <2> QED
    BY <1>9, <2>1 DEF RowsFit, Claim, library
<1>11. /\ UNCHANGED <<versions, artifacts, listed, refetched>>
       /\ succeeded' \subseteq Source /\ cut \subseteq cut' /\ cut' \subseteq Source \X Nat
       /\ overlapped' = overlapped /\ overlapped \in BOOLEAN
  BY DEF Claim, library, history, AcquisitionInv, TypeOK
<1>12. Unrecorded(p) \subseteq cut' \cup Unrecorded(q)
  BY <1>2 DEF Unrecorded, Keeping
<1>13. ~overlapped' => /\ ~overlapped /\ UpToDate(q, versions, artifacts)
                       /\ q.kind = "none" \/ \A b \in Actor : b # a => ~IsOpen(b)
  BY <1>2, <1>8, <1>11, OthersIdle
<1> QED
  BY <1>6, <1>7, <1>8, <1>9, <1>10, <1>11, <1>12, <1>13, MovesOnly

-----------------------------------------------------------------------------
(* Acquisition: processes that start                                       *)

LEMMA OpensKeeps ==
  ASSUME AcquisitionInv, NEW a \in Actor,
         NEW kind \in {"fetch", "repair", "discover", "seed", "acquire", "text",
                       "triage", "reconcile"},
         NEW mode \in {"plain", "force", "pending", "blocked"},
         NEW at \in {"claim", "check", "import", "end"}, at = "end" => kind \in Deciders,
         kind = "acquire" => at = "claim",
         NEW todo \in (SUBSET JobRow) \cup (SUBSET DecisionRow),
         Opens(a, Begun(kind, mode, at, todo)),
         kind \in Deciders =>
           \A d \in todo : d \in DecisionRow
                           /\ Holds(d.status, d.doc, "alias", versions, artifacts),
         kind \notin Deciders => todo \subseteq JobRow,
         kind = "repair" => \A j \in todo : j.raw \in Copy /\ j.ver \in DOMAIN versions[j.src],
         kind = "fetch" /\ mode = "plain" =>
           \A j \in todo : ~Texted(versions, j.src) /\ j = Job(j.src, 0, None)
  PROVE  AcquisitionInv'
<1> DEFINE q == Begun(kind, mode, at, todo)
<1>1. /\ q \in Process /\ q.kind = kind /\ q.mode = mode /\ q.at = at /\ q.todo = todo
  BY BegunTyped
<1> HIDE DEF q
<1>2. Fresh(q, versions, artifacts)
  BY <1>1 DEF Fresh, Keeping, Deciders, JobsFit
<1>3. ProcessFits(q, versions, artifacts) /\ UpToDate(q, versions, artifacts)
  BY <1>1, <1>2, FreshFits DEF UpToDate
<1>4. Unrecorded(pass[a]) = {} /\ ~IsOpen(a)
  <2>1. pass[a] = Waiting
    BY DEF Opens
  <2>2. Waiting.kind = "none" /\ Waiting.at = "start"
    BY DEF Waiting, Begun
  <2> QED
    BY <2>1, <2>2 DEF Unrecorded, Keeping, IsOpen
<1>5. /\ pass' = [pass EXCEPT ![a] = q] /\ UNCHANGED <<versions, artifacts, listed, refetched>>
      /\ row' \in [Source -> ManifestRow] /\ RowsFit' /\ succeeded' \subseteq Source
      /\ cut \subseteq cut' /\ cut' \subseteq Source \X Nat
      /\ overlapped' = (overlapped \/ \E b \in Actor : IsOpen(b)) /\ overlapped \in BOOLEAN
  BY DEF Opens, AcquisitionInv, TypeOK, RowsFit, q
<1>6. overlapped' \in BOOLEAN /\ Unrecorded(pass[a]) \subseteq cut' \cup Unrecorded(q)
  BY <1>4, <1>5
<1>7. ~overlapped' => /\ ~overlapped /\ UpToDate(q, versions, artifacts)
                      /\ q.kind = "none" \/ \A b \in Actor : b # a => ~IsOpen(b)
  BY <1>3, <1>5
<1> QED
  BY <1>1, <1>3, <1>5, <1>6, <1>7, MovesOnly

LEMMA StartFetchKeeps ==
  ASSUME AcquisitionInv, NEW a \in Actor, StartFetch(a)
  PROVE  AcquisitionInv'
<1>0. PICK mode \in {"plain", "force"} : \E chosen \in SUBSET Pending(mode) :
        Opens(a, Begun("fetch", mode, "import", {Job(s, 0, None) : s \in chosen}))
  BY DEF StartFetch
<1>1. PICK chosen \in SUBSET Pending(mode) :
        Opens(a, Begun("fetch", mode, "import", {Job(s, 0, None) : s \in chosen}))
  BY <1>0
<1> DEFINE todo == {Job(s, 0, None) : s \in chosen}
<1>2. ASSUME NEW j \in todo
      PROVE  /\ j \in JobRow /\ j = Job(j.src, 0, None)
             /\ mode = "plain" => ~Texted(versions, j.src)
  <2>1. PICK s \in chosen : j = Job(s, 0, None)
    BY <1>2
  <2>2. j.src = s /\ s \in Source /\ (mode = "plain" => ~HasText(s))
    BY <2>1 DEF Job, Pending
  <2> QED
    BY <2>1, <2>2, NoJobTyped DEF HasText, Texted
<1> HIDE DEF todo
<1>3. Opens(a, Begun("fetch", mode, "import", todo))
  BY <1>1 DEF todo
<1> QED
  BY <1>2, <1>3, OpensKeeps DEF Deciders

LEMMA StartRepairKeeps ==
  ASSUME AcquisitionInv, NEW a \in Actor, StartRepair(a)
  PROVE  AcquisitionInv'
<1>1. PICK mode \in {"plain", "force"}, chosen \in SUBSET RepairReady :
        Opens(a, Begun("repair", mode, "import", chosen))
  BY DEF StartRepair
<1>2. ASSUME NEW j \in chosen
      PROVE  j \in JobRow /\ j.raw \in Copy /\ j.ver \in DOMAIN versions[j.src]
  <2>1. j \in RepairReady
    OBVIOUS
  <2>2. PICK s \in Source, r \in Copy : j = Job(s, Latest(s), r)
    BY <2>1 DEF RepairReady
  <2>3. HasText(j.src)
    BY <2>1 DEF RepairReady
  <2>4. j.src = s /\ j.raw = r /\ j.ver = Latest(s)
    BY <2>2 DEF Job
  <2>5. versions[s] \in Seq(VersionRow) /\ versions[s] # <<>>
    BY <2>3, <2>4 DEF HasText, AcquisitionInv, TypeOK
  <2>6. Latest(s) \in Nat /\ Latest(s) \in DOMAIN versions[s]
    BY <2>5 DEF Latest
  <2> QED
    BY <2>2, <2>4, <2>6, NoJobTyped
<1> QED
  BY <1>1, <1>2, OpensKeeps DEF Deciders

LEMMA StartDiscoverKeeps ==
  ASSUME AcquisitionInv, NEW a \in Actor, StartDiscover(a)
  PROVE  AcquisitionInv'
<1>1. PICK chosen \in SUBSET Listed :
        Opens(a, Begun("discover", "plain", "check", {Job(s, 0, None) : s \in chosen}))
  BY DEF StartDiscover
<1> DEFINE todo == {Job(s, 0, None) : s \in chosen}
<1>2. todo \subseteq JobRow
  <2>1. ASSUME NEW s \in Source PROVE Job(s, 0, None) \in JobRow
    BY NoJobTyped
  <2> QED
    BY ShapeAssumption, <2>1
<1> HIDE DEF todo
<1>3. Opens(a, Begun("discover", "plain", "check", todo))
  BY <1>1 DEF todo
<1> QED
  BY <1>2, <1>3, OpensKeeps DEF Deciders

LEMMA StartSeedKeeps ==
  ASSUME AcquisitionInv, NEW a \in Actor, StartSeed(a)
  PROVE  AcquisitionInv'
<1>1. PICK chosen \in SUBSET Listed :
        Opens(a, Begun("seed", "plain", "import", {Job(s, 0, None) : s \in chosen}))
  BY DEF StartSeed
<1> DEFINE todo == {Job(s, 0, None) : s \in chosen}
<1>2. todo \subseteq JobRow
  BY ShapeAssumption, NoJobTyped
<1> HIDE DEF todo
<1>3. Opens(a, Begun("seed", "plain", "import", todo))
  BY <1>1 DEF todo
<1> QED
  BY <1>2, <1>3, OpensKeeps DEF Deciders

LEMMA StartWorkerKeeps ==
  ASSUME AcquisitionInv, NEW a \in Actor, StartWorker(a)
  PROVE  AcquisitionInv'
<1>1. PICK mode \in {"pending", "blocked"} : Opens(a, Begun("acquire", mode, "claim", {}))
  BY DEF StartWorker
<1> QED
  BY <1>1, OpensKeeps DEF Deciders

LEMMA StartTextKeeps ==
  ASSUME AcquisitionInv, NEW a \in Actor, StartText(a)
  PROVE  AcquisitionInv'
<1>1. PICK chosen \in SUBSET Source :
        Opens(a, Begun("text", "plain", "import", {RowJob(s) : s \in chosen}))
  BY DEF StartText
<1> DEFINE todo == {RowJob(s) : s \in chosen}
<1>2. todo \subseteq JobRow
  BY RowJobTyped
<1> HIDE DEF todo
<1>3. Opens(a, Begun("text", "plain", "import", todo))
  BY <1>1 DEF todo
<1> QED
  BY <1>2, <1>3, OpensKeeps DEF Deciders

LEMMA DecisionTyped ==
  ASSUME NEW s \in Source, NEW status \in RowStatus, NEW doc \in Source \cup {None}
  PROVE  /\ Decision(s, status, doc) \in DecisionRow
         /\ Decision(s, status, doc).status = status /\ Decision(s, status, doc).doc = doc
  BY DEF Decision, DecisionRow

LEMMA StartTriageKeeps ==
  ASSUME AcquisitionInv, NEW a \in Actor, StartTriage(a)
  PROVE  AcquisitionInv'
<1>1. Opens(a, Begun("triage", "plain", "end", TriageDecisions))
  BY DEF StartTriage
<1>2. ASSUME NEW d \in TriageDecisions
      PROVE  d \in DecisionRow /\ Holds(d.status, d.doc, "alias", versions, artifacts)
  <2>1. PICK s \in Source, status \in {"out_of_scope", "blocked"} :
          d = Decision(s, status, None)
    BY ShapeAssumption DEF TriageDecisions
  <2>2. status \in RowStatus
    BY DEF RowStatus
  <2> QED
    BY <2>1, <2>2, DecisionTyped DEF Holds
<1> DEFINE todo == TriageDecisions
<1>3. /\ todo \in (SUBSET JobRow) \cup (SUBSET DecisionRow)
      /\ \A d \in todo : d \in DecisionRow
                        /\ Holds(d.status, d.doc, "alias", versions, artifacts)
  BY <1>2
<1>4. Opens(a, Begun("triage", "plain", "end", todo))
  BY <1>1
<1> HIDE DEF todo
<1> QED
  BY <1>3, <1>4, OpensKeeps DEF Deciders

\* A source that covers a row's name has a text of its own.
LEMMA CoveringBacked ==
  ASSUME AcquisitionInv, NEW s, NEW t \in Covering(s)
  PROVE  t \in Source /\ Backed(t, "alias", versions, artifacts)
<1>1. PICK u \in Source : row[u].status = "acquired" /\ row[u].doc = t
  BY DEF Covering, Backing
<1>2. Backed(t, row[u].how, versions, artifacts)
  BY <1>1 DEF AcquisitionInv, RowsFit, Holds
<1> QED
  BY <1>2 DEF Backed

LEMMA StartReconcileKeeps ==
  ASSUME AcquisitionInv, NEW a \in Actor, StartReconcile(a)
  PROVE  AcquisitionInv'
<1>1. Opens(a, Begun("reconcile", "plain", "end", ReconcileDecisions))
  BY DEF StartReconcile
<1>2. ASSUME NEW d \in ReconcileDecisions
      PROVE  d \in DecisionRow /\ Holds(d.status, d.doc, "alias", versions, artifacts)
  <2>1. PICK s \in Source :
          \/ \E t \in IF Covering(s) = {} THEN {None} ELSE Covering(s) :
               d = Decision(s, "out_of_scope", t)
          \/ \E t \in Covering(s) : d = Decision(s, "acquired", t)
    <3> DEFINE blocked == {u \in Source : row[u].status = "blocked"}
               Resolved(s) == {Decision(s, "out_of_scope", t) :
                                 t \in IF Covering(s) = {} THEN {None} ELSE Covering(s)}
               Covered(s) == {Decision(s, "acquired", t) : t \in Covering(s)}
    <3>1. \/ d \in UNION {Resolved(s) : s \in blocked \cap Disposed}
          \/ d \in UNION {Covered(s) : s \in blocked \ Disposed}
      BY DEF ReconcileDecisions
    <3>2. \E s \in Source : d \in Resolved(s) \/ d \in Covered(s)
      BY <3>1
    <3>3. PICK s \in Source : d \in Resolved(s) \/ d \in Covered(s)
      BY <3>2
    <3>4. \/ \E t \in IF Covering(s) = {} THEN {None} ELSE Covering(s) :
               d = Decision(s, "out_of_scope", t)
          \/ \E t \in Covering(s) : d = Decision(s, "acquired", t)
      BY <3>3
    <3> QED
      BY <3>4
  <2>2. "out_of_scope" \in RowStatus /\ "acquired" \in RowStatus
    BY DEF RowStatus
  <2>3. ASSUME NEW t \in IF Covering(s) = {} THEN {None} ELSE Covering(s),
               d = Decision(s, "out_of_scope", t)
        PROVE  d \in DecisionRow /\ Holds(d.status, d.doc, "alias", versions, artifacts)
    <3>1. t \in Source \cup {None}
      BY CoveringBacked
    <3> QED
      BY <2>2, <2>3, <3>1, DecisionTyped DEF Holds
  <2>4. ASSUME NEW t \in Covering(s), d = Decision(s, "acquired", t)
        PROVE  d \in DecisionRow /\ Holds(d.status, d.doc, "alias", versions, artifacts)
    <3>1. t \in Source /\ Backed(t, "alias", versions, artifacts)
      BY CoveringBacked
    <3> QED
      BY <2>2, <2>4, <3>1, DecisionTyped DEF Holds
  <2> QED
    BY <2>1, <2>3, <2>4
<1> DEFINE todo == ReconcileDecisions
<1>3. /\ todo \in (SUBSET JobRow) \cup (SUBSET DecisionRow)
      /\ \A d \in todo : d \in DecisionRow
                        /\ Holds(d.status, d.doc, "alias", versions, artifacts)
  BY <1>2
<1>4. Opens(a, Begun("reconcile", "plain", "end", todo))
  BY <1>1
<1> HIDE DEF todo
<1> QED
  BY <1>3, <1>4, OpensKeeps DEF Deciders
-----------------------------------------------------------------------------
(* Acquisition: imports                                                    *)

Outcomes == [status: RowStatus \cup {"none"}, doc: Source \cup {None}, how: Means]

\* The process that imports, and what it has in hand afterwards.
Importing(p, j, v, r, at, out) ==
  [p EXCEPT !.todo = @ \ {j}, !.job = j, !.at = at, !.raw = r, !.ver = v, !.out = out]

LEMMA ImportHand ==
  ASSUME NEW p \in Process, p.todo \subseteq JobRow, NEW j \in p.todo, NEW v \in Nat,
         NEW r \in Copy \cup {None}, NEW at \in {"raw", "log", "end"}, NEW out \in Outcomes
  PROVE  LET q == Importing(p, j, v, r, at, out) IN
           /\ q \in Process
           /\ q.kind = p.kind /\ q.mode = p.mode /\ q.todo = p.todo \ {j} /\ q.job = j
           /\ q.at = at /\ q.raw = r /\ q.ver = v /\ q.out = out
<1> DEFINE q == Importing(p, j, v, r, at, out)
<1>1. /\ p.todo \ {j} \in (SUBSET JobRow) \cup (SUBSET DecisionRow)
      /\ j \in JobRow \cup {NoJob}
  OBVIOUS
<1>2. q \in Process
  <2> DEFINE K == {"none", "fetch", "repair", "discover", "seed", "acquire", "text",
                   "triage", "reconcile"}
             M == {"none", "plain", "force", "pending", "blocked"}
             P == {"start", "claim", "check", "import", "raw", "insert", "keep", "log", "end"}
             T == (SUBSET JobRow) \cup (SUBSET DecisionRow)
             J == JobRow \cup {NoJob}
             R == Copy \cup {None}
             S == SUBSET ArtifactRow
             C == SUBSET Source
             todo == p.todo \ {j}
  <2>1. at \in P /\ todo \in T /\ j \in J /\ r \in R
    BY <1>1
  <2>2. Process = [kind: K, mode: M, at: P, todo: T, job: J, ver: Nat, raw: R, saw: S,
                   out: Outcomes, tries: Nat, checked: C]
    BY DEF Process, Outcomes
  <2>3. q = [p EXCEPT !.todo = todo, !.job = j, !.at = at, !.raw = r, !.ver = v, !.out = out]
    BY DEF Importing
  <2> HIDE DEF K, M, P, T, J, R, S, C, q, todo
  <2> QED
    BY <2>1, <2>2, <2>3
<1>3. /\ q.kind = p.kind /\ q.mode = p.mode /\ q.todo = p.todo \ {j} /\ q.job = j
      /\ q.at = at /\ q.raw = r /\ q.ver = v /\ q.out = out
  BY DEF Importing, Process
<1> QED
  BY <1>2, <1>3

\* An import keeps what holds, if what it imports is what the process read.
LEMMA ImportKeeps ==
  ASSUME AcquisitionInv, NEW a \in Actor, pass[a].kind \notin Deciders, pass[a].kind # "none",
         pass[a].at = "import", NEW j \in pass[a].todo, NEW d \in Text \cup Anchor,
         NEW made \in {"anchor", "fetched", "repaired", "reparsed", "supplied"},
         NEW from \in Nat, NEW r \in Copy \cup {None},
         NEW at \in {"raw", "log", "end"}, NEW out \in Outcomes,
         ImportStep(a, j, d, made, from, r, at, out),
         UNCHANGED succeeded, refetched' \in BOOLEAN,
         at = "raw" => pass[a].kind \in {"fetch", "acquire", "repair"} /\ r \in Copy
                       /\ d \in Yields(r),
         at = "log" => pass[a].kind \in {"discover", "seed"},
         at = "end" => /\ pass[a].kind = "text" /\ d \in Text /\ out.doc = j.src
                       /\ out.status # "none" /\ out.how # "fetched",
         made \in {"fetched", "repaired", "reparsed"} => at = "raw",
         made = "repaired" =>
           from \in DOMAIN versions[j.src]
           /\ Length[d] > Length[versions[j.src][from].digest],
         ~overlapped /\ UpToDate(pass[a], versions, artifacts) => ~refetched'
  PROVE  AcquisitionInv'
<1> DEFINE p == pass[a]
           s == j.src
           v == Imported(s, d)
<1>1. /\ p \in Process /\ ProcessFits(p, versions, artifacts)
      /\ JobsFit(p, versions) /\ j \in JobRow /\ s \in Source /\ versions \in Versions
  BY JobsInSource DEF AcquisitionInv, TypeOK, ProcessFits, JobsFit, Versions
<1>2. /\ versions' \in Versions
      /\ v \in Nat /\ v \in DOMAIN versions'[s] /\ versions'[s][v].digest = d
      /\ \A t \in Source : t # s => versions'[t] = versions[t]
      /\ \A i \in DOMAIN versions[s] : i \in DOMAIN versions'[s]
                                       /\ versions'[s][i] = versions[s][i]
      /\ \A i \in DOMAIN versions'[s] :
           \/ i \in DOMAIN versions[s]
           \/ /\ i = v /\ versions'[s][i] = Version(d, made, from)
              /\ \A k \in DOMAIN versions[s] : k < i
  BY <1>1, ImportAdds DEF ImportStep
<1> DEFINE q == Importing(p, j, v, r, at, out)
<1>3. /\ q \in Process
      /\ pass' = [pass EXCEPT ![a] = q]
      /\ q.kind = p.kind /\ q.mode = p.mode /\ q.todo = p.todo \ {j} /\ q.job = j
      /\ q.at = at /\ q.raw = r /\ q.ver = v /\ q.out = out
  <2>1. pass' = [pass EXCEPT ![a] = q]
    BY DEF ImportStep, Importing
  <2>2. p.todo \subseteq JobRow /\ v \in Nat
    BY <1>1, <1>2 DEF JobsFit
  <2>j. p \in Process /\ j \in p.todo
    BY <1>1
  <2> HIDE DEF v, p
  <2>3. /\ q \in Process
        /\ q.kind = p.kind /\ q.mode = p.mode /\ q.todo = p.todo \ {j} /\ q.job = j
        /\ q.at = at /\ q.raw = r /\ q.ver = v /\ q.out = out
    BY <2>2, <2>j, ImportHand
  <2> QED
    BY <2>1, <2>3
<1> HIDE DEF q
<1> HIDE DEF v
<1>4. UNCHANGED <<artifacts, listed, row, cut, overlapped, succeeded>>
  BY DEF ImportStep
<1>5. Grown(versions, versions', artifacts, artifacts')
  BY <1>2, <1>4 DEF Grown
<1>6. ProcessFits(q, versions', artifacts')
  <2>1. JobsFit(q, versions')
    <3>1. ASSUME NEW k \in q.todo PROVE k \in p.todo /\ k \in JobRow /\ k.src \in Source
      BY <1>1, <1>3, JobsInSource DEF JobsFit
    <3> QED
      BY <1>1, <1>3, <1>5, <3>1 DEF JobsFit, Grown
  <2>2. at = "raw" => Parsed(q, versions')
    BY <1>1, <1>2, <1>3 DEF Parsed
  <2>3. at = "log" => Logged(q, versions', artifacts')
    BY <1>1, <1>3 DEF Logged
  <2>4. at = "end" => Holds(q.out.status, q.out.doc, q.out.how, versions', artifacts')
    BY <1>1, <1>2, <1>3 DEF Holds, Backed
  <2> QED
    BY <1>1, <1>3, <2>1, <2>2, <2>3, <2>4 DEF ProcessFits, Keeping, Deciders
<1>7. /\ pass' \in [Actor -> Process]
      /\ pass'[a] = q /\ \A b \in Actor : b # a => pass'[b] = pass[b]
      /\ \A b \in Actor : ProcessFits(pass'[b], versions', artifacts')
      /\ RowsFit'
  BY <1>3, <1>4, <1>5, <1>6, MoveFits
<1>8. TypeOK'
  BY <1>2, <1>4, <1>7 DEF AcquisitionInv, TypeOK, Versions
<1>9. ArtifactsFit'
  <2> SUFFICES ASSUME NEW x \in artifacts
               PROVE  /\ x.ver \in DOMAIN versions'[x.src]
                      /\ versions'[x.src][x.ver].digest \in Yields(x.raw)
    BY <1>4 DEF ArtifactsFit
  <2>1. x.src \in Source
    BY DEF AcquisitionInv, TypeOK, ArtifactRow
  <2>2. x.ver \in DOMAIN versions[x.src] /\ versions[x.src][x.ver].digest \in Yields(x.raw)
    BY DEF AcquisitionInv, ArtifactsFit
  <2> QED
    BY <1>5, <2>1, <2>2 DEF Grown
<1>10. BytesKept'
  <2> SUFFICES ASSUME NEW t \in Source, NEW i \in DOMAIN versions'[t],
                      versions'[t][i].made \in {"fetched", "repaired", "reparsed"}
               PROVE  \/ Evidence(t, i, artifacts) # {}
                      \/ <<t, i>> \in cut
                      \/ \E b \in Actor : <<t, i>> \in Unrecorded(pass'[b])
    BY <1>4 DEF BytesKept
  <2>1. ASSUME i \in DOMAIN versions[t]
        PROVE  \/ Evidence(t, i, artifacts) # {}
               \/ <<t, i>> \in cut
               \/ \E b \in Actor : <<t, i>> \in Unrecorded(pass'[b])
    <3>1. versions'[t][i] = versions[t][i]
      BY <1>5, <2>1 DEF Grown
    <3>2. \/ Evidence(t, i, artifacts) # {}
          \/ <<t, i>> \in cut
          \/ \E b \in Actor : <<t, i>> \in Unrecorded(pass[b])
      BY <2>1, <3>1 DEF AcquisitionInv, BytesKept
    <3>3. Unrecorded(p) = {}
      BY DEF Unrecorded, Keeping
    <3> QED
      BY <1>7, <3>2, <3>3
  <2>2. ASSUME i \notin DOMAIN versions[t] PROVE <<t, i>> \in Unrecorded(pass'[a])
    <3>1. t = s /\ i = v /\ versions'[t][i] = Version(d, made, from)
      BY <1>2, <2>2
    <3>2. made \in {"fetched", "repaired", "reparsed"}
      BY <3>1 DEF Version
    <3> QED
      BY <1>3, <1>7, <3>1, <3>2 DEF Unrecorded, Keeping
  <2> QED
    BY <2>1, <2>2
<1>11. RepairsImprove'
  <2> SUFFICES ASSUME NEW t \in Source, NEW i \in DOMAIN versions'[t],
                      versions'[t][i].made = "repaired"
               PROVE  LET w == versions'[t][i] IN
                        /\ w.from \in DOMAIN versions'[t] /\ w.from < i
                        /\ Length[w.digest] > Length[versions'[t][w.from].digest]
    BY DEF RepairsImprove
  <2>1. CASE i \in DOMAIN versions[t]
    <3>1. versions'[t][i] = versions[t][i]
      BY <1>5, <2>1 DEF Grown
    <3>2. LET w == versions[t][i] IN
            /\ w.from \in DOMAIN versions[t] /\ w.from < i
            /\ Length[w.digest] > Length[versions[t][w.from].digest]
      BY <2>1, <3>1 DEF AcquisitionInv, RepairsImprove
    <3>3. versions[t][i].from \in DOMAIN versions'[t]
          /\ versions'[t][versions[t][i].from] = versions[t][versions[t][i].from]
      BY <1>5, <3>2 DEF Grown
    <3> QED
      BY <3>1, <3>2, <3>3
  <2>2. CASE i \notin DOMAIN versions[t]
    <3>1. t = s /\ i = v /\ versions'[t][i] = Version(d, made, from)
          /\ \A k \in DOMAIN versions[s] : k < i
      BY <1>2, <2>2
    <3>2. made = "repaired" /\ versions'[t][i].from = from /\ versions'[t][i].digest = d
      BY <3>1 DEF Version
    <3>3. from \in DOMAIN versions[s] /\ Length[d] > Length[versions[s][from].digest]
      BY <3>2
    <3> QED
      BY <1>2, <3>1, <3>2, <3>3
  <2> QED
    BY <2>1, <2>2
<1>12. Alone'
  <2> SUFFICES ASSUME ~overlapped
               PROVE  /\ ~refetched'
                      /\ \A b, c \in Actor : IsOpen(b)' /\ IsOpen(c)' => b = c
                      /\ \A b \in Actor : UpToDate(pass'[b], versions', artifacts)
                      /\ artifacts = listed
                      /\ \A x, y \in artifacts :
                           (x.src = y.src /\ x.ver = y.ver /\ x.raw = y.raw) => x = y
    BY <1>4 DEF Alone
  <2>1. IsOpen(a) /\ Alone
    BY DEF IsOpen, AcquisitionInv
  <2>2. \A b \in Actor : b # a => ~IsOpen(b)
    BY <2>1, OthersIdle
  <2>3. UpToDate(p, versions, artifacts)
    BY <2>1 DEF Alone
  <2>4. \A b, c \in Actor : IsOpen(b)' /\ IsOpen(c)' => b = c
    BY <1>7, <2>2 DEF IsOpen
  <2>5. UpToDate(q, versions', artifacts)
    <3>1. ASSUME q.kind = "fetch", q.mode = "plain", NEW k \in q.todo
          PROVE  ~Texted(versions', k.src) /\ k = Job(k.src, 0, None)
      <4>1. k \in p.todo /\ k # j
        BY <1>3, <3>1
      <4>2. ~Texted(versions, k.src) /\ k = Job(k.src, 0, None) /\ j = Job(s, 0, None)
        BY <1>3, <2>3, <3>1, <4>1 DEF UpToDate
      <4>3. k.src # s /\ k.src \in Source
        BY <1>1, <4>1, <4>2, JobsInSource DEF JobsFit
      <4> QED
        BY <1>2, <4>2, <4>3 DEF Texted
    <3> QED
      BY <1>3, <3>1 DEF UpToDate
  <2>6. ASSUME NEW b \in Actor, b # a PROVE UpToDate(pass'[b], versions', artifacts)
    <3>1. pass'[b] = pass[b] /\ pass[b].kind = "none"
          /\ ProcessFits(pass[b], versions, artifacts)
      BY <1>7, <2>2, <2>6 DEF IsOpen, AcquisitionInv
    <3> QED
      BY <3>1, IdleUpToDate
  <2> QED
    BY <1>7, <2>1, <2>3, <2>4, <2>5, <2>6 DEF Alone
<1> QED
  BY <1>7, <1>8, <1>9, <1>10, <1>11, <1>12 DEF AcquisitionInv

LEMMA NoOutcomeTyped == NoOutcome \in Outcomes
  BY DEF NoOutcome, Outcomes, Means

\* The text of an answer is one that its bytes yield.
LEMMA AnswerYields ==
  ASSUME NEW s \in Source, NEW x \in Serves[s], x.text # None
  PROVE  x.copy \in Copy /\ x.text \in Text /\ x.text \in Yields(x.copy)
<1>1. x \in Answers
  BY DEF Answers
<1>2. x.copy \in Copy /\ x.text \in Text
  BY ShapeAssumption
<1> QED
  BY <1>1, <1>2 DEF Yields

LEMMA FetchImportKeeps ==
  ASSUME AcquisitionInv, NEW a \in Actor, FetchImport(a)
  PROVE  AcquisitionInv'
<1>1. At(a, {"fetch", "acquire"}, "import")
  BY DEF FetchImport
<1>2. /\ pass[a].kind \in {"fetch", "acquire"} /\ pass[a].at = "import"
      /\ pass[a].kind \notin Deciders /\ pass[a].kind # "none"
      /\ \A j \in pass[a].todo : j \in JobRow
  BY <1>1, HandFits DEF Deciders
<1>3. PICK j \in pass[a].todo : \E x \in Serves[j.src] :
        /\ x.text # None
        /\ ImportStep(a, j, x.text, "fetched", 0, x.copy, "raw", NoOutcome)
        /\ refetched' = (refetched \/ (pass[a].kind = "fetch" /\ pass[a].mode = "plain"
                                       /\ HasText(j.src)))
        /\ UNCHANGED succeeded
  BY DEF FetchImport
<1>4. PICK x \in Serves[j.src] :
        /\ x.text # None
        /\ ImportStep(a, j, x.text, "fetched", 0, x.copy, "raw", NoOutcome)
        /\ refetched' = (refetched \/ (pass[a].kind = "fetch" /\ pass[a].mode = "plain"
                                       /\ HasText(j.src)))
        /\ UNCHANGED succeeded
  BY <1>3
<1>5. x.copy \in Copy /\ x.text \in Text /\ x.text \in Yields(x.copy)
  BY <1>2, <1>4, JobsInSource, AnswerYields
<1>6. refetched \in BOOLEAN /\ (~overlapped => ~refetched)
  BY DEF AcquisitionInv, TypeOK, Alone
<1>7. UpToDate(pass[a], versions, artifacts) =>
        ~(pass[a].kind = "fetch" /\ pass[a].mode = "plain" /\ HasText(j.src))
  BY DEF UpToDate, HasText, Texted
<1>8. refetched' \in BOOLEAN
      /\ (~overlapped /\ UpToDate(pass[a], versions, artifacts) => ~refetched')
  BY <1>4, <1>6, <1>7
<1> QED
  BY <1>2, <1>4, <1>5, <1>8, NoOutcomeTyped, ImportKeeps

LEMMA RepairImportKeeps ==
  ASSUME AcquisitionInv, NEW a \in Actor, RepairImport(a)
  PROVE  AcquisitionInv'
<1>1. At(a, {"repair"}, "import")
  BY DEF RepairImport
<1>2. /\ pass[a].kind = "repair" /\ pass[a].at = "import"
      /\ pass[a].kind \notin Deciders /\ pass[a].kind # "none"
      /\ JobsFit(pass[a], versions) /\ \A j \in pass[a].todo : j \in JobRow
  BY <1>1, HandFits DEF Deciders
<1> DEFINE made == IF pass[a].mode = "force" THEN "reparsed" ELSE "repaired"
<1>3. PICK j \in pass[a].todo :
        \E t \in RepairTexts[j.raw.bytes], f \in CopyForms[j.src] :
          /\ pass[a].mode = "force" \/ Improves(j, t)
          /\ ImportStep(a, j, t, made, j.ver, [j.raw EXCEPT !.form = f], "raw", NoOutcome)
          /\ UNCHANGED <<succeeded, refetched>>
  BY DEF RepairImport
<1>4. PICK t \in RepairTexts[j.raw.bytes], f \in CopyForms[j.src] :
        /\ pass[a].mode = "force" \/ Improves(j, t)
        /\ ImportStep(a, j, t, made, j.ver, [j.raw EXCEPT !.form = f], "raw", NoOutcome)
        /\ UNCHANGED <<succeeded, refetched>>
  BY <1>3
<1> DEFINE r == [j.raw EXCEPT !.form = f]
<1>5. /\ r \in Copy /\ j.ver \in Nat /\ j.ver \in DOMAIN versions[j.src]
      /\ t \in Text /\ t \in Yields(r)
  <2>1. j.raw \in Copy /\ j.ver \in Nat /\ j.ver \in DOMAIN versions[j.src]
        /\ j.src \in Source
    BY <1>2, JobsInSource DEF JobsFit
  <2>2. f \in Form /\ t \in Text
    BY <2>1, ShapeAssumption DEF Copy
  <2>3. r \in Copy /\ r.bytes = j.raw.bytes
    BY <2>1, <2>2 DEF Copy
  <2> QED
    BY <2>1, <2>2, <2>3 DEF Yields
<1>6. /\ made \in {"fetched", "repaired", "reparsed"}
      /\ made = "repaired" => Length[t] > Length[versions[j.src][j.ver].digest]
  BY <1>4 DEF Improves
<1>7. refetched' \in BOOLEAN
      /\ (~overlapped /\ UpToDate(pass[a], versions, artifacts) => ~refetched')
  BY <1>4 DEF AcquisitionInv, TypeOK, Alone
<1> HIDE DEF made, r
<1> QED
  BY <1>2, <1>4, <1>5, <1>6, <1>7, NoOutcomeTyped, ImportKeeps DEF r

LEMMA AnchorImportKeeps ==
  ASSUME AcquisitionInv, NEW a \in Actor, AnchorImport(a)
  PROVE  AcquisitionInv'
<1>1. At(a, {"discover", "seed"}, "import")
  BY DEF AnchorImport
<1>2. /\ pass[a].kind \in {"discover", "seed"} /\ pass[a].at = "import"
      /\ pass[a].kind \notin Deciders /\ pass[a].kind # "none"
  BY <1>1, HandFits DEF Deciders
<1>3. PICK j \in pass[a].todo, d \in Anchor :
        ImportStep(a, j, d, "anchor", 0, None, "log", NoOutcome)
        /\ UNCHANGED <<succeeded, refetched>>
  BY DEF AnchorImport
<1>4. refetched' \in BOOLEAN
      /\ (~overlapped /\ UpToDate(pass[a], versions, artifacts) => ~refetched')
  BY <1>3 DEF AcquisitionInv, TypeOK, Alone
<1> QED
  BY <1>2, <1>3, <1>4, NoOutcomeTyped, ImportKeeps

LEMMA TextImportKeeps ==
  ASSUME AcquisitionInv, NEW a \in Actor, TextImport(a)
  PROVE  AcquisitionInv'
<1>1. At(a, {"text"}, "import")
  BY DEF TextImport
<1>2. /\ pass[a].kind = "text" /\ pass[a].at = "import"
      /\ pass[a].kind \notin Deciders /\ pass[a].kind # "none"
      /\ \A j \in pass[a].todo : j \in JobRow
  BY <1>1, HandFits DEF Deciders
<1>3. PICK j \in pass[a].todo : \E t \in Supplied[j.row] :
        /\ ImportStep(a, j, t, "supplied", 0, None, "end",
                      [status |-> "acquired", doc |-> j.src, how |-> "text"])
        /\ UNCHANGED <<succeeded, refetched>>
  BY DEF TextImport
<1> DEFINE out == [status |-> "acquired", doc |-> j.src, how |-> "text"]
<1>4. PICK t \in Supplied[j.row] :
        ImportStep(a, j, t, "supplied", 0, None, "end", out)
        /\ UNCHANGED <<succeeded, refetched>>
  BY <1>3
<1>5. t \in Text /\ j.src \in Source
  BY <1>2, JobsInSource, ShapeAssumption
<1>6. out \in Outcomes /\ out.doc = j.src /\ out.status # "none" /\ out.how # "fetched"
  BY <1>5 DEF Outcomes, RowStatus, Means
<1>7. refetched' \in BOOLEAN
      /\ (~overlapped /\ UpToDate(pass[a], versions, artifacts) => ~refetched')
  BY <1>4 DEF AcquisitionInv, TypeOK, Alone
<1> HIDE DEF out
<1> QED
  BY <1>2, <1>4, <1>5, <1>6, <1>7, ImportKeeps
-----------------------------------------------------------------------------
(* Acquisition: bytes are kept                                             *)

LEMMA YieldsText == ASSUME NEW r \in Copy PROVE Yields(r) \subseteq Text
<1>1. r.bytes \in Raw
  BY DEF Copy
<1>2. \A x \in Answers : x.text # None => x.text \in Text
  BY ShapeAssumption DEF Answers
<1> QED
  BY <1>1, <1>2, ShapeAssumption DEF Yields

LEMMA RawWriteKeeps ==
  ASSUME AcquisitionInv, NEW a \in Actor, RawWrite(a)
  PROVE  AcquisitionInv'
<1> DEFINE p == pass[a]
           s == p.job.src
           new == IF p.at = "insert" THEN {Artifact(a)} ELSE {CHOOSE x \in Kept(a) : TRUE}
           q == [p EXCEPT !.at = "log", !.saw = {}]
<1>1. p.at \in {"insert", "keep"} /\ artifacts' = artifacts \cup new
      /\ listed' = Manifest(a, new) /\ pass' = [pass EXCEPT ![a] = q]
      /\ UNCHANGED <<versions, succeeded, row, history>>
  BY DEF RawWrite
<1>2. p \in Process /\ ProcessFits(p, versions, artifacts) /\ Parsed(p, versions)
  BY <1>1 DEF AcquisitionInv, TypeOK, ProcessFits, Keeping
<1>3. /\ p.kind \in {"fetch", "acquire", "repair"} /\ p.job \in JobRow /\ p.raw \in Copy
      /\ p.ver \in DOMAIN versions[s] /\ versions[s][p.ver].digest \in Yields(p.raw)
      /\ s \in Source /\ p.ver \in Nat /\ p.saw \in SUBSET ArtifactRow
  BY <1>2, JobsInSource DEF Parsed, Process
<1>4. Kept(a) = SameCopy(p, artifacts) /\ Kept(a) \subseteq artifacts
  BY DEF Kept, SameCopy
<1>5. artifacts \subseteq ArtifactRow /\ IsFiniteSet(artifacts) /\ listed \subseteq ArtifactRow
  BY DEF AcquisitionInv, TypeOK
<1>6. Cardinality(Kept(a)) \in Nat
  <2>1. IsFiniteSet(Kept(a))
    BY <1>4, <1>5, FS_Subset
  <2> QED
    BY <2>1, FS_CardinalityType
<1>7. PICK n : /\ new = {n} /\ n \in ArtifactRow /\ n.src = s /\ n.ver = p.ver /\ n.raw = p.raw
               /\ p.at = "keep" => n \in artifacts
  <2>1. CASE p.at = "insert"
    <3>1. Artifact(a) \in ArtifactRow /\ Artifact(a).src = s /\ Artifact(a).ver = p.ver
          /\ Artifact(a).raw = p.raw
      <4> DEFINE c == Cardinality(Kept(a)) + 1
      <4>1. c \in Nat
        BY <1>6
      <4> HIDE DEF c
      <4>2. Artifact(a) = [src |-> s, ver |-> p.ver, raw |-> p.raw, nth |-> c]
        BY DEF Artifact, c
      <4> QED
        BY <1>3, <4>1, <4>2 DEF ArtifactRow
    <3> QED
      BY <2>1, <3>1
  <2>2. CASE p.at = "keep"
    <3>1. Kept(a) # {}
      BY <1>2, <1>4, <2>2 DEF ProcessFits
    <3>2. PICK n : n = (CHOOSE x \in Kept(a) : TRUE) /\ n \in Kept(a)
      BY <3>1
    <3>3. new = {n}
      BY <2>2, <3>2
    <3> QED
      BY <1>4, <1>5, <3>2, <3>3 DEF SameCopy
  <2> QED
    BY <1>1, <2>1, <2>2
<1> HIDE DEF new
<1>8. artifacts' = artifacts \cup {n} /\ n \in artifacts'
  BY <1>1, <1>7
<1>9. /\ artifacts' \subseteq ArtifactRow /\ IsFiniteSet(artifacts')
      /\ listed' \subseteq ArtifactRow
  <2>1. IsFiniteSet(artifacts')
    BY <1>5, <1>8, FS_AddElement
  <2>2. listed' \subseteq ArtifactRow
    BY <1>1, <1>3, <1>5, <1>7 DEF Manifest
  <2> QED
    BY <1>5, <1>7, <1>8, <2>1, <2>2
<1>10. Grown(versions, versions', artifacts, artifacts')
  BY <1>1, <1>8 DEF Grown
<1>11. n \in Evidence(s, p.ver, artifacts')
  BY <1>7, <1>8 DEF Evidence
<1>12. /\ q \in Process /\ q.kind = p.kind /\ q.at = "log" /\ q.todo = p.todo
       /\ q.mode = p.mode /\ q.job = p.job /\ q.ver = p.ver
  BY <1>2 DEF Process
<1> HIDE DEF q
<1>13. ProcessFits(q, versions', artifacts')
  <2>1. versions[s][p.ver].digest \in Text
    BY <1>3, YieldsText
  <2>2. Logged(q, versions', artifacts')
    BY <1>1, <1>3, <1>11, <1>12, <2>1 DEF Logged
  <2>3. JobsFit(q, versions')
    BY <1>1, <1>2, <1>3, <1>12 DEF ProcessFits, JobsFit, Deciders
  <2> QED
    BY <1>3, <1>12, <2>2, <2>3 DEF ProcessFits, Keeping, Deciders
<1>14. /\ pass' \in [Actor -> Process]
       /\ pass'[a] = q /\ \A b \in Actor : b # a => pass'[b] = pass[b]
       /\ \A b \in Actor : ProcessFits(pass'[b], versions', artifacts')
       /\ RowsFit'
  BY <1>1, <1>10, <1>12, <1>13, MoveFits
<1>15. TypeOK'
  BY <1>1, <1>9, <1>14 DEF AcquisitionInv, TypeOK, history
<1>16. ArtifactsFit'
  <2> SUFFICES ASSUME NEW x \in artifacts'
               PROVE  /\ x.ver \in DOMAIN versions[x.src]
                      /\ versions[x.src][x.ver].digest \in Yields(x.raw)
    BY <1>1 DEF ArtifactsFit
  <2> QED
    BY <1>3, <1>7, <1>8 DEF AcquisitionInv, ArtifactsFit
<1>17. BytesKept'
  <2> SUFFICES ASSUME NEW t \in Source, NEW i \in DOMAIN versions[t],
                      versions[t][i].made \in {"fetched", "repaired", "reparsed"}
               PROVE  \/ Evidence(t, i, artifacts') # {}
                      \/ <<t, i>> \in cut
                      \/ \E b \in Actor : <<t, i>> \in Unrecorded(pass'[b])
    BY <1>1 DEF BytesKept, history
  <2>1. \/ Evidence(t, i, artifacts) # {}
        \/ <<t, i>> \in cut
        \/ \E b \in Actor : <<t, i>> \in Unrecorded(pass[b])
    BY DEF AcquisitionInv, BytesKept
  <2>2. Evidence(t, i, artifacts) # {} => Evidence(t, i, artifacts') # {}
    BY <1>8, EvidenceStays
  <2>3. <<t, i>> \in Unrecorded(p) => Evidence(t, i, artifacts') # {}
    BY <1>11 DEF Unrecorded
  <2> QED
    BY <1>14, <2>1, <2>2, <2>3
<1>18. RepairsImprove'
  BY <1>1 DEF AcquisitionInv, RepairsImprove
<1>19. Alone'
  <2> SUFFICES ASSUME ~overlapped
               PROVE  /\ ~refetched
                      /\ \A b, c \in Actor : IsOpen(b)' /\ IsOpen(c)' => b = c
                      /\ \A b \in Actor : UpToDate(pass'[b], versions, artifacts')
                      /\ artifacts' = listed'
                      /\ \A x, y \in artifacts' :
                           (x.src = y.src /\ x.ver = y.ver /\ x.raw = y.raw) => x = y
    BY <1>1 DEF Alone, history
  <2>1. IsOpen(a) /\ Alone
    BY <1>3 DEF IsOpen, AcquisitionInv
  <2>2. \A b \in Actor : b # a => ~IsOpen(b)
    BY <2>1, OthersIdle
  <2>3. UpToDate(p, versions, artifacts)
    BY <2>1 DEF Alone
  <2>4. \A b, c \in Actor : IsOpen(b)' /\ IsOpen(c)' => b = c
    BY <1>14, <2>2 DEF IsOpen
  <2>5. UpToDate(q, versions, artifacts')
    BY <1>12, <2>3 DEF UpToDate
  <2>6. ASSUME NEW b \in Actor, b # a PROVE UpToDate(pass'[b], versions, artifacts')
    <3>1. pass'[b] = pass[b] /\ pass[b].kind = "none"
          /\ ProcessFits(pass[b], versions, artifacts)
      BY <1>14, <2>2, <2>6 DEF IsOpen, AcquisitionInv
    <3> QED
      BY <3>1, IdleUpToDate
  <2>7. p.saw = Evidence(s, p.ver, artifacts) /\ artifacts = listed
    BY <1>1, <2>1, <2>3 DEF UpToDate, Alone
  <2>8. RawsOf(s, p.ver) = p.saw /\ p.saw \subseteq artifacts
    BY <2>7 DEF RawsOf, Evidence
  <2>9. artifacts' = listed'
    BY <1>1, <1>7, <1>8, <2>7, <2>8 DEF Manifest
  <2>10. \A x, y \in artifacts' :
           (x.src = y.src /\ x.ver = y.ver /\ x.raw = y.raw) => x = y
    <3>1. \A x, y \in artifacts :
            (x.src = y.src /\ x.ver = y.ver /\ x.raw = y.raw) => x = y
      BY <2>1 DEF Alone
    <3>2. CASE p.at = "keep"
      BY <1>7, <1>8, <3>1, <3>2
    <3>3. CASE p.at = "insert"
      <4>1. \A x \in artifacts : ~(x.src = s /\ x.ver = p.ver /\ x.raw = p.raw)
        BY <2>3, <3>3 DEF UpToDate, SameCopy
      <4> QED
        BY <1>7, <1>8, <3>1, <4>1
    <3> QED
      BY <1>1, <3>2, <3>3
  <2> QED
    BY <1>14, <2>1, <2>4, <2>5, <2>6, <2>9, <2>10 DEF Alone
<1> QED
  BY <1>14, <1>15, <1>16, <1>17, <1>18, <1>19 DEF AcquisitionInv
-----------------------------------------------------------------------------
(* Acquisition: rows are written                                           *)

\* q is p, but for the rows it knows to be checked.
Like(q, p) ==
  /\ q.kind = p.kind /\ q.mode = p.mode /\ q.at = p.at /\ q.todo = p.todo /\ q.job = p.job
  /\ q.ver = p.ver /\ q.raw = p.raw /\ q.saw = p.saw /\ q.out = p.out

LEMMA LikeFits ==
  ASSUME NEW q, NEW p, Like(q, p), NEW V, NEW A
  PROVE  /\ ProcessFits(p, V, A) => ProcessFits(q, V, A)
         /\ UpToDate(p, V, A) => UpToDate(q, V, A)
         /\ Unrecorded(q) = Unrecorded(p)
<1>1. SameCopy(q, A) = SameCopy(p, A)
  BY DEF Like, SameCopy
<1>2. ProcessFits(p, V, A) => ProcessFits(q, V, A)
  BY <1>1 DEF Like, ProcessFits, JobsFit, Parsed, Logged
<1>3. UpToDate(p, V, A) => UpToDate(q, V, A)
  BY <1>1 DEF Like, UpToDate
<1>4. Unrecorded(q) = Unrecorded(p)
  BY DEF Like, Unrecorded
<1> QED
  BY <1>2, <1>3, <1>4

LEMMA CheckedLike ==
  ASSUME NEW p \in Process, NEW R \in SUBSET Source
  PROVE  LET q == [p EXCEPT !.checked = @ \cup R] IN q \in Process /\ Like(q, p)
<1> DEFINE c == p.checked \cup R
           q == [p EXCEPT !.checked = c]
<1>1. c \in SUBSET Source
  BY DEF Process
<1> HIDE DEF c
<1>2. q \in Process /\ Like(q, p)
  BY <1>1 DEF Process, Like
<1> QED
  BY <1>2 DEF c

\* The rows as written.
LEMMA RowsWritten ==
  ASSUME AcquisitionInv, NEW new, DOMAIN new \subseteq Source,
         row' = [s \in Source |-> IF s \in DOMAIN new THEN new[s] ELSE row[s]],
         \A s \in DOMAIN new : /\ new[s] \in ManifestRow
                               /\ Holds(new[s].status, new[s].doc, new[s].how,
                                        versions, artifacts),
         UNCHANGED <<versions, artifacts>>
  PROVE  row' \in [Source -> ManifestRow] /\ RowsFit'
<1>1. row \in [Source -> ManifestRow] /\ RowsFit
  BY DEF AcquisitionInv, TypeOK
<1>3. row' \in [Source -> ManifestRow]
  BY <1>1
<1>4. ASSUME NEW s \in Source
      PROVE  Holds(row'[s].status, row'[s].doc, row'[s].how, versions, artifacts)
  BY <1>1 DEF RowsFit
<1> QED
  BY <1>3, <1>4 DEF RowsFit

LEMMA WritesKeeps ==
  ASSUME AcquisitionInv, NEW a \in Actor, IsOpen(a), pass[a].at = "end",
         NEW new, DOMAIN new \subseteq Source, Writes(a, new),
         \A s \in DOMAIN new : /\ new[s] \in ManifestRow
                               /\ Holds(new[s].status, new[s].doc, new[s].how,
                                        versions, artifacts)
  PROVE  AcquisitionInv'
<1> DEFINE Next1(b) == IF b = a THEN Onward(pass[a]) ELSE pass[b]
<1>1. /\ UNCHANGED <<versions, artifacts, listed, succeeded, cut, overlapped, refetched>>
      /\ row' = [s \in Source |-> IF s \in DOMAIN new THEN new[s] ELSE row[s]]
      /\ pass' = [b \in Actor |-> IF Next1(b).mode = "blocked"
                                  THEN [Next1(b) EXCEPT !.checked = @ \cup DOMAIN new]
                                  ELSE Next1(b)]
  BY DEF Writes, library, history
<1>2. row' \in [Source -> ManifestRow] /\ RowsFit'
  BY <1>1, RowsWritten
<1>3. /\ pass \in [Actor -> Process]
      /\ \A b \in Actor : ProcessFits(pass[b], versions, artifacts)
  BY DEF AcquisitionInv, TypeOK
<1>4. ASSUME NEW b \in Actor
      PROVE  /\ Next1(b) \in Process /\ ProcessFits(Next1(b), versions, artifacts)
             /\ UpToDate(pass[b], versions, artifacts) =>
                  UpToDate(Next1(b), versions, artifacts)
             /\ Unrecorded(Next1(b)) = Unrecorded(pass[b])
             /\ Next1(b).kind # "none" => IsOpen(b)
  <2>1. /\ Onward(pass[a]) \in Process /\ ProcessFits(Onward(pass[a]), versions, artifacts)
        /\ Unrecorded(Onward(pass[a])) = {}
        /\ UpToDate(pass[a], versions, artifacts) =>
             UpToDate(Onward(pass[a]), versions, artifacts)
    BY <1>3, OnwardFits
  <2>2. Unrecorded(pass[a]) = {}
    BY DEF Unrecorded, Keeping
  <2> QED
    BY <1>3, <2>1, <2>2 DEF IsOpen
<1>5. ASSUME NEW b \in Actor
      PROVE  pass'[b] \in Process /\ Like(pass'[b], Next1(b))
  <2> DEFINE p == Next1(b)
  <2>1. p \in Process
    BY <1>4
  <2>2. pass'[b] = IF p.mode = "blocked" THEN [p EXCEPT !.checked = @ \cup DOMAIN new] ELSE p
    BY <1>1
  <2> HIDE DEF p, Next1
  <2>3. Like(p, p)
    BY DEF Like
  <2>4. pass'[b] \in Process /\ Like(pass'[b], p)
    BY <2>1, <2>2, <2>3, CheckedLike
  <2> QED
    BY <2>4 DEF p
<1> HIDE DEF Next1
<1>6. ASSUME NEW b \in Actor
      PROVE  /\ pass'[b] \in Process /\ ProcessFits(pass'[b], versions, artifacts)
             /\ UpToDate(pass[b], versions, artifacts) =>
                  UpToDate(pass'[b], versions, artifacts)
             /\ Unrecorded(pass'[b]) = Unrecorded(pass[b])
             /\ pass'[b].kind # "none" => IsOpen(b)
  <2>1. pass'[b].kind = Next1(b).kind
    BY <1>5 DEF Like
  <2> QED
    BY <1>4, <1>5, <2>1, LikeFits
<1>7. pass' \in [Actor -> Process]
  <2>1. pass' = [b \in Actor |-> pass'[b]]
    BY <1>1
  <2> QED
    BY <1>6, <2>1
<1>8. TypeOK'
  BY <1>1, <1>2, <1>7 DEF AcquisitionInv, TypeOK
<1>9. ArtifactsFit' /\ RepairsImprove'
      /\ \A b \in Actor : ProcessFits(pass'[b], versions', artifacts')
  BY <1>1, <1>6 DEF AcquisitionInv, ArtifactsFit, RepairsImprove
<1>10. BytesKept'
  BY <1>1, <1>6 DEF AcquisitionInv, BytesKept
<1>11. Alone'
  BY <1>1, <1>6 DEF AcquisitionInv, Alone, IsOpen
<1> QED
  BY <1>2, <1>8, <1>9, <1>10, <1>11 DEF AcquisitionInv

LEMMA DisposalTyped ==
  ASSUME NEW r \in ManifestRow, NEW out \in Outcomes, out.status # "none"
  PROVE  LET d == Disposal(r, out)
             u == [d EXCEPT !.leased = FALSE] IN
           /\ d \in ManifestRow /\ d.status = out.status /\ d.doc = out.doc /\ d.how = out.how
           /\ u \in ManifestRow /\ u.status = out.status /\ u.doc = out.doc /\ u.how = out.how
<1> DEFINE d == Disposal(r, out)
           u == [d EXCEPT !.leased = FALSE]
<1>1. d \in ManifestRow /\ d.status = out.status /\ d.doc = out.doc /\ d.how = out.how
  BY DEF Disposal, ManifestRow, Outcomes
<1> HIDE DEF d
<1>2. u \in ManifestRow /\ u.status = d.status /\ u.doc = d.doc /\ u.how = d.how
  BY <1>1 DEF ManifestRow
<1> QED
  BY <1>1, <1>2 DEF d

LEMMA TerminateKeeps ==
  ASSUME AcquisitionInv, NEW a \in Actor, Terminate(a)
  PROVE  AcquisitionInv'
<1> DEFINE p == pass[a]
           new == [s \in {p.job.row} |-> [Disposal(row[s], p.out) EXCEPT !.leased = FALSE]]
<1>1. At(a, {"acquire"}, "end") /\ Writes(a, new)
  BY DEF Terminate
<1>2. /\ IsOpen(a) /\ p \in Process /\ ProcessFits(p, versions, artifacts)
      /\ p.kind = "acquire" /\ p.at = "end"
  BY <1>1, HandFits
<1>3. p.job \in JobRow /\ Holds(p.out.status, p.out.doc, p.out.how, versions, artifacts)
      /\ p.out \in Outcomes /\ p.out.status # "none"
  BY <1>2 DEF ProcessFits, Process, Outcomes
<1>4. PICK s \in Source : p.job.row = s /\ row[s] \in ManifestRow
  BY <1>3, JobsInSource DEF AcquisitionInv, TypeOK
<1>5. DOMAIN new = {s} /\ new[s] = [Disposal(row[s], p.out) EXCEPT !.leased = FALSE]
  BY <1>4
<1>6. /\ new[s] \in ManifestRow
      /\ Holds(new[s].status, new[s].doc, new[s].how, versions, artifacts)
  BY <1>3, <1>4, <1>5, DisposalTyped
<1> HIDE DEF new
<1> QED
  BY <1>1, <1>2, <1>4, <1>5, <1>6, WritesKeeps

LEMMA TextWriteKeeps ==
  ASSUME AcquisitionInv, NEW a \in Actor, TextWrite(a)
  PROVE  AcquisitionInv'
<1> DEFINE p == pass[a]
           new == [s \in {p.job.row} |-> Disposal(row[s], p.out)]
<1>1. At(a, {"text"}, "end") /\ Writes(a, new)
  BY DEF TextWrite
<1>2. /\ IsOpen(a) /\ p \in Process /\ ProcessFits(p, versions, artifacts)
      /\ p.kind = "text" /\ p.at = "end"
  BY <1>1, HandFits
<1>3. p.job \in JobRow /\ Holds(p.out.status, p.out.doc, p.out.how, versions, artifacts)
      /\ p.out \in Outcomes /\ p.out.status # "none"
  BY <1>2 DEF ProcessFits, Process, Outcomes
<1>4. PICK s \in Source : p.job.row = s /\ row[s] \in ManifestRow
  BY <1>3, JobsInSource DEF AcquisitionInv, TypeOK
<1>5. DOMAIN new = {s} /\ new[s] = Disposal(row[s], p.out)
  BY <1>4
<1>6. /\ new[s] \in ManifestRow
      /\ Holds(new[s].status, new[s].doc, new[s].how, versions, artifacts)
  BY <1>3, <1>4, <1>5, DisposalTyped
<1> HIDE DEF new
<1> QED
  BY <1>1, <1>2, <1>4, <1>5, <1>6, WritesKeeps
LEMMA DecidedRow ==
  ASSUME NEW r \in ManifestRow, NEW d \in DecisionRow
  PROVE  LET w == Decided(r, d) IN
           /\ w \in ManifestRow /\ w.status = d.status
           /\ d.doc # None => w.doc = d.doc /\ w.how = "alias"
<1> DEFINE doc == IF d.doc = None THEN r.doc ELSE d.doc
           url == IF d.doc = None THEN r.url ELSE d.doc
           how == IF d.doc = None THEN r.how ELSE "alias"
           w == [r EXCEPT !.status = d.status, !.leased = FALSE, !.doc = doc, !.url = url,
                          !.how = how]
<1>1. /\ doc \in Source \cup {None} /\ url \in Source \cup {None} /\ how \in Means
      /\ d.status \in RowStatus /\ (d.doc # None => doc = d.doc /\ how = "alias")
  BY DEF ManifestRow, DecisionRow, Means
<1>2. Decided(r, d) = w
  BY DEF Decided
<1> HIDE DEF doc, url, how
<1>3. w \in ManifestRow /\ w.status = d.status /\ w.doc = doc /\ w.how = how
  BY <1>1 DEF ManifestRow
<1> QED
  BY <1>1, <1>2, <1>3

\* Decisions that are applied: an acquired one names a document.
LEMMA ApplyKeeps == ASSUME AcquisitionInv, NEW a \in Actor, Apply(a) PROVE AcquisitionInv'
<1> DEFINE p == pass[a]
           done == {d \in p.todo : Applies(a, d)}
           new == [s \in {d.row : d \in done} |->
                     Decided(row[s], CHOOSE d \in done : d.row = s)]
<1>1. At(a, {"triage", "reconcile"}, "end") /\ Writes(a, new)
  BY DEF Apply
<1>2. /\ IsOpen(a) /\ ProcessFits(p, versions, artifacts)
      /\ p.kind \in {"triage", "reconcile"} /\ p.at = "end"
  BY <1>1, HandFits
<1>3. \A d \in done : d \in DecisionRow /\ Holds(d.status, d.doc, "alias", versions, artifacts)
  BY <1>2 DEF ProcessFits, Deciders
<1> HIDE DEF done
<1>4. DOMAIN new = {d.row : d \in done}
      /\ \A s \in DOMAIN new : new[s] = Decided(row[s], CHOOSE d \in done : d.row = s)
  OBVIOUS
<1> HIDE DEF new
<1>5. DOMAIN new \subseteq Source
  BY <1>3, <1>4 DEF DecisionRow
<1>6. ASSUME NEW s \in DOMAIN new
      PROVE  /\ new[s] \in ManifestRow
             /\ Holds(new[s].status, new[s].doc, new[s].how, versions, artifacts)
  <2>1. PICK d : d = (CHOOSE x \in done : x.row = s) /\ d \in done
    BY <1>4
  <2>2. /\ d \in DecisionRow /\ Holds(d.status, d.doc, "alias", versions, artifacts)
        /\ row[s] \in ManifestRow
    BY <1>3, <1>5, <2>1 DEF AcquisitionInv, TypeOK
  <2>3. new[s] = Decided(row[s], d)
    BY <1>4, <2>1
  <2>4. /\ new[s] \in ManifestRow /\ new[s].status = d.status
        /\ d.doc # None => new[s].doc = d.doc /\ new[s].how = "alias"
    BY <2>2, <2>3, DecidedRow
  <2>5. d.status = "acquired" => d.doc # None
    BY <2>2, NoneAssumption DEF Holds, Backed
  <2> QED
    BY <2>2, <2>4, <2>5 DEF Holds
<1> QED
  BY <1>1, <1>2, <1>5, <1>6, WritesKeeps

-----------------------------------------------------------------------------
(* Acquisition: time and operators                                         *)

LEMMA RowsOnly ==
  ASSUME AcquisitionInv, UNCHANGED <<library, pass, history>>, row' \in [Source -> ManifestRow],
         \A s \in Source : /\ row'[s].status = "acquired" => row[s].status = "acquired"
                           /\ row'[s].doc = row[s].doc /\ row'[s].how = row[s].how
  PROVE  AcquisitionInv'
<1>1. UNCHANGED <<versions, artifacts, listed, succeeded, pass, cut, overlapped, refetched>>
  BY DEF library, history
<1>2. RowsFit'
  BY <1>1 DEF AcquisitionInv, RowsFit, Holds
<1>3. TypeOK'
  BY <1>1 DEF AcquisitionInv, TypeOK
<1>4. ArtifactsFit' /\ BytesKept' /\ RepairsImprove'
      /\ \A a \in Actor : ProcessFits(pass'[a], versions', artifacts')
  BY <1>1 DEF AcquisitionInv, ArtifactsFit, BytesKept, RepairsImprove
<1>5. Alone'
  BY <1>1 DEF AcquisitionInv, Alone, IsOpen
<1> QED
  BY <1>2, <1>3, <1>4, <1>5 DEF AcquisitionInv

LEMMA LeaseExpiresKeeps ==
  ASSUME AcquisitionInv, NEW s \in Source, LeaseExpires(s)
  PROVE  AcquisitionInv'
<1>1. row \in [Source -> ManifestRow]
  BY DEF AcquisitionInv, TypeOK
<1> DEFINE r == [row[s] EXCEPT !.leased = FALSE]
<1>2. r \in ManifestRow /\ r.status = row[s].status /\ r.doc = row[s].doc
      /\ r.how = row[s].how
  BY <1>1 DEF ManifestRow
<1>3. row' = [row EXCEPT ![s] = r] /\ UNCHANGED <<library, pass, history>>
  BY DEF LeaseExpires
<1> HIDE DEF r
<1> QED
  BY <1>1, <1>2, <1>3, RowsOnly

LEMMA ResolveUrlKeeps ==
  ASSUME AcquisitionInv, NEW s \in Source, ResolveUrl(s)
  PROVE  AcquisitionInv'
<1>1. row \in [Source -> ManifestRow]
  BY DEF AcquisitionInv, TypeOK
<1> DEFINE r == [row[s] EXCEPT !.url = s, !.status = "pending"]
<1>2. r \in ManifestRow /\ r.status = "pending" /\ r.doc = row[s].doc /\ r.how = row[s].how
  BY <1>1 DEF ManifestRow, RowStatus
<1>3. row' = [row EXCEPT ![s] = r] /\ UNCHANGED <<library, pass, history>>
  <2>1. row' = [row EXCEPT ![s].url = s, ![s].status = "pending"]
    BY DEF ResolveUrl
  <2> QED
    BY <1>1, <2>1 DEF ResolveUrl
<1> HIDE DEF r
<1> QED
  BY <1>1, <1>2, <1>3, RowsOnly
-----------------------------------------------------------------------------
(* Acquisition: the theorems                                               *)

\* A library that has been seeded, or that a worker left a page in.
LEMMA FirstLibrary ==
  ASSUME Init
  PROVE  /\ versions \in Versions /\ artifacts \subseteq ArtifactRow
         /\ IsFiniteSet(artifacts) /\ succeeded \subseteq Source
         /\ ArtifactsFit /\ BytesKept /\ RepairsImprove
         /\ \A x, y \in artifacts :
              (x.src = y.src /\ x.ver = y.ver /\ x.raw = y.raw) => x = y
<1>1. ASSUME versions \in [Source -> {<<>>} \cup {<<Version(d, "anchor", 0)>> : d \in Anchor}],
             artifacts = {}, succeeded = {}
      PROVE  /\ versions \in Versions /\ ArtifactsFit /\ BytesKept /\ RepairsImprove
             /\ artifacts \subseteq ArtifactRow /\ IsFiniteSet(artifacts)
             /\ succeeded \subseteq Source
  <2>1. ASSUME NEW d \in Anchor
        PROVE  /\ <<Version(d, "anchor", 0)>> \in Seq(VersionRow)
               /\ \A i \in DOMAIN <<Version(d, "anchor", 0)>> :
                    <<Version(d, "anchor", 0)>>[i].made = "anchor"
    <3> DEFINE v == Version(d, "anchor", 0)
    <3>1. v \in VersionRow /\ v.made = "anchor"
      BY DEF Version, VersionRow
    <3> HIDE DEF v
    <3>2. <<v>> \in Seq(VersionRow) /\ \A i \in DOMAIN <<v>> : <<v>>[i] = v
      BY <3>1
    <3> QED
      BY <3>1, <3>2 DEF v
  <2>2. ASSUME NEW s \in Source
        PROVE  versions[s] \in Seq(VersionRow)
               /\ \A i \in DOMAIN versions[s] : versions[s][i].made = "anchor"
    <3>1. CASE versions[s] = <<>>
      BY <3>1
    <3>2. CASE versions[s] # <<>>
      <4>1. PICK d \in Anchor : versions[s] = <<Version(d, "anchor", 0)>>
        BY <1>1, <3>2
      <4> QED
        BY <2>1, <4>1
    <3> QED
      BY <3>1, <3>2
  <2>3. versions \in Versions
    BY <1>1, <2>2 DEF Versions
  <2>4. ArtifactsFit /\ artifacts \subseteq ArtifactRow /\ IsFiniteSet(artifacts)
        /\ succeeded \subseteq Source
    BY <1>1, FS_EmptySet DEF ArtifactsFit
  <2>5. BytesKept /\ RepairsImprove
    BY <2>2 DEF BytesKept, RepairsImprove
  <2> QED
    BY <2>3, <2>4, <2>5
<1>2. ASSUME NEW x \in Worked,
             versions = [s \in Source |-> IF s # x[1] THEN <<>>
                                          ELSE <<Version(x[2].text, "fetched", 0)>>],
             artifacts = {[src |-> x[1], ver |-> 1, raw |-> x[2].copy, nth |-> 1]},
             succeeded = {x[1]}
      PROVE  /\ versions \in Versions /\ ArtifactsFit /\ BytesKept /\ RepairsImprove
             /\ artifacts \subseteq ArtifactRow /\ IsFiniteSet(artifacts)
             /\ succeeded \subseteq Source
  <2> DEFINE u == x[1]
             y == x[2]
  <2>1. u \in Source /\ y \in Serves[u] /\ y.text # None
    BY ShapeAssumption DEF Worked
  <2> DEFINE v == Version(y.text, "fetched", 0)
             r == y.copy
             n == [src |-> u, ver |-> 1, raw |-> r, nth |-> 1]
  <2>2. r \in Copy /\ y.text \in Text /\ y.text \in Yields(r)
    BY <2>1, AnswerYields
  <2>3. v \in VersionRow /\ v.made = "fetched" /\ v.digest = y.text
    BY <2>2 DEF Version, VersionRow
  <2>4. n \in ArtifactRow /\ n.src = u /\ n.ver = 1 /\ n.raw = r
    BY <2>1, <2>2 DEF ArtifactRow
  <2>5. versions = [s \in Source |-> IF s # u THEN <<>> ELSE <<v>>] /\ artifacts = {n}
        /\ succeeded = {u}
    BY <1>2
  <2> HIDE DEF v, n, r, u, y
  <2>6. <<v>> \in Seq(VersionRow) /\ DOMAIN <<v>> = {1} /\ <<v>>[1] = v
    BY <2>3
  <2>7. versions \in Versions /\ versions[u] = <<v>>
        /\ \A s \in Source : \A i \in DOMAIN versions[s] : s = u /\ i = 1
    BY <2>1, <2>3, <2>5, <2>6 DEF Versions
  <2>8. ArtifactsFit
    BY <2>2, <2>3, <2>4, <2>5, <2>6, <2>7 DEF ArtifactsFit
  <2>9. BytesKept
    BY <2>4, <2>5, <2>7 DEF BytesKept, Evidence
  <2>10. RepairsImprove
    BY <2>3, <2>6, <2>7 DEF RepairsImprove
  <2>11. IsFiniteSet(artifacts)
    BY <2>5, FS_Singleton
  <2> QED
    BY <2>1, <2>4, <2>5, <2>7, <2>8, <2>9, <2>10, <2>11
<1>3. \A x, y \in artifacts :
        (x.src = y.src /\ x.ver = y.ver /\ x.raw = y.raw) => x = y
  BY DEF Init
<1> QED
  BY <1>1, <1>2, <1>3 DEF Init

LEMMA AcquisitionStarts == ASSUME Init PROVE AcquisitionInv
<1>1. /\ versions \in Versions /\ artifacts \subseteq ArtifactRow
      /\ IsFiniteSet(artifacts) /\ succeeded \subseteq Source
      /\ ArtifactsFit /\ BytesKept /\ RepairsImprove
      /\ \A x, y \in artifacts :
           (x.src = y.src /\ x.ver = y.ver /\ x.raw = y.raw) => x = y
  BY FirstLibrary
<1>2. /\ listed = artifacts /\ pass = [a \in Actor |-> Waiting]
      /\ cut = {} /\ overlapped = FALSE /\ refetched = FALSE
      /\ row = [s \in Source |->
                  [status |-> IF s \in succeeded THEN "blocked" ELSE "pending",
                   doc |-> IF s \in succeeded THEN s ELSE None, how |-> "none",
                   url |-> IF s \in Located THEN s ELSE None, leased |-> FALSE]]
  BY DEF Init
<1>3. row \in [Source -> ManifestRow] /\ \A s \in Source : row[s].status # "acquired"
  <2>1. ASSUME NEW s \in Source PROVE row[s] \in ManifestRow /\ row[s].status # "acquired"
    BY <1>2 DEF ManifestRow, RowStatus, Means
  <2> QED
    BY <1>2, <2>1
<1>4. /\ Waiting \in Process /\ Waiting.kind = "none" /\ Waiting.at = "start"
      /\ Waiting.todo = {}
  BY BegunTyped DEF Waiting
<1>5. /\ ProcessFits(Waiting, versions, artifacts) /\ UpToDate(Waiting, versions, artifacts)
  BY <1>4 DEF ProcessFits, JobsFit, Keeping, Deciders, UpToDate
<1>6. TypeOK
  BY <1>1, <1>2, <1>3, <1>4 DEF TypeOK, Versions
<1>7. RowsFit
  BY <1>3 DEF RowsFit, Holds
<1>8. Alone
  BY <1>1, <1>2, <1>4, <1>5 DEF Alone, IsOpen
<1> QED
  BY <1>1, <1>2, <1>5, <1>6, <1>7, <1>8 DEF AcquisitionInv

LEMMA AcquisitionMoves == ASSUME AcquisitionInv, Next PROVE AcquisitionInv'
<1>1. ASSUME NEW s \in Source, LeaseExpires(s) \/ ResolveUrl(s) PROVE AcquisitionInv'
  BY <1>1, LeaseExpiresKeeps, ResolveUrlKeeps
<1>2. ASSUME NEW a \in Actor, Starts(a) PROVE AcquisitionInv'
  BY <1>2, StartFetchKeeps, StartRepairKeeps, StartDiscoverKeeps, StartSeedKeeps,
     StartWorkerKeeps, StartTextKeeps, StartTriageKeeps, StartReconcileKeeps DEF Starts
<1>3. ASSUME NEW a \in Actor, FetchStep(a) \/ RepairStep(a) PROVE AcquisitionInv'
  BY <1>3, FetchImportKeeps, FetchFailsKeeps, RepairImportKeeps, RepairSkipsKeeps,
     RepairUnsupportedKeeps, RepairBreaksKeeps DEF FetchStep, RepairStep
<1>4. ASSUME NEW a \in Actor, KeepStep(a) PROVE AcquisitionInv'
  BY <1>4, RawReadKeeps, RawWriteKeeps, LogImportKeeps DEF KeepStep
<1>5. ASSUME NEW a \in Actor, WorkerStep(a) PROVE AcquisitionInv'
  BY <1>5, ClaimKeeps, DrainedKeeps, AttemptFailsKeeps, WorkerErrorKeeps, TerminateKeeps
     DEF WorkerStep
<1>6. ASSUME NEW a \in Actor, ScriptStep(a) PROVE AcquisitionInv'
  BY <1>6, TextImportKeeps, TextSkipsKeeps, TextWriteKeeps, ApplyKeeps DEF ScriptStep
<1>7. ASSUME NEW a \in Actor, DiscoverCheck(a) \/ AnchorImport(a) \/ CutOff(a)
      PROVE  AcquisitionInv'
  BY <1>7, DiscoverCheckKeeps, AnchorImportKeeps, CutOffKeeps
<1> QED
  BY <1>1, <1>2, <1>3, <1>4, <1>5, <1>6, <1>7 DEF Next

LEMMA AcquisitionRests == ASSUME AcquisitionInv, UNCHANGED vars PROVE AcquisitionInv'
<1>1. UNCHANGED <<library, pass, history>> /\ row' = row
  BY DEF vars, library, history
<1>2. row' \in [Source -> ManifestRow]
  BY <1>1 DEF AcquisitionInv, TypeOK
<1> QED
  BY <1>1, <1>2, RowsOnly

\* Whatever passes, workers and scripts do side by side, and wherever they
\* stop, the rows, the versions and the artifacts keep what they are for.
THEOREM AcquisitionInductive == Spec => []AcquisitionInv
<1>1. Init => AcquisitionInv
  BY AcquisitionStarts
<1>2. AcquisitionInv /\ [Next]_vars => AcquisitionInv'
  BY AcquisitionMoves, AcquisitionRests
<1> QED
  BY <1>1, <1>2, PTL DEF Spec

\* Every row, version, artifact and process has its shape.
THEOREM AcquisitionTyping == Spec => []TypeOK
<1>1. AcquisitionInv => TypeOK
  BY DEF AcquisitionInv
<1> QED
  BY <1>1, AcquisitionInductive, PTL

\* What a version says can be traced to bytes that were kept, or to the process
\* that did not come to keep them.
THEOREM BytesAreKept == Spec => []RawKept
<1>1. AcquisitionInv => RawKept
  <2> SUFFICES ASSUME AcquisitionInv PROVE RawKept
    OBVIOUS
  <2>1. \A x \in artifacts : versions[x.src][x.ver].digest \in Yields(x.raw)
    BY DEF AcquisitionInv, ArtifactsFit
  <2>2. \A a \in Actor : Unrecorded(pass[a]) = Abandoned(a)
    BY UnrecordedTyped
  <2>4. ASSUME NEW s \in Source, NEW i \in DOMAIN versions[s],
               versions[s][i].made \in {"fetched", "repaired", "reparsed"}
        PROVE  \/ RawsOf(s, i) # {}
               \/ <<s, i>> \in cut
               \/ \E a \in Actor : <<s, i>> \in Abandoned(a)
    <3>1. Evidence(s, i, artifacts) = RawsOf(s, i)
      BY DEF Evidence, RawsOf
    <3> QED
      BY <2>2, <2>4, <3>1 DEF AcquisitionInv, BytesKept
  <2> QED
    BY <2>1, <2>4 DEF RawKept
<1> QED
  BY <1>1, AcquisitionInductive, PTL

\* A process that is alone records a source once, and no repair makes a text
\* shorter.
THEOREM RecordedOnceAlone == Spec => []RecordedOnce
<1>1. AcquisitionInv => RecordedOnce
  <2> SUFFICES ASSUME AcquisitionInv PROVE RecordedOnce
    OBVIOUS
  <2>1. ~overlapped =>
          /\ ~refetched /\ artifacts = listed
          /\ \A x, y \in artifacts :
               (x.src = y.src /\ x.ver = y.ver /\ x.raw = y.raw) => x = y
    BY DEF AcquisitionInv, Alone
  <2>2. \A s \in Source : \A i \in DOMAIN versions[s] :
          LET v == versions[s][i] IN
          v.made = "repaired" =>
            v.from < i /\ Length[v.digest] > Length[versions[s][v.from].digest]
    BY DEF AcquisitionInv, RepairsImprove
  <2> QED
    BY <2>1, <2>2 DEF RecordedOnce
<1> QED
  BY <1>1, AcquisitionInductive, PTL

\* An acquired row has a document with a text of its own, and a worker's row
\* one whose bytes are kept.
THEOREM AcquiredRowsBacked == Spec => []AcquiredIsBacked
<1>1. AcquisitionInv => AcquiredIsBacked
  <2> SUFFICES ASSUME AcquisitionInv, NEW s \in Source, row[s].status = "acquired"
               PROVE  /\ row[s].doc # None
                      /\ \E i \in DOMAIN versions[row[s].doc] :
                           /\ versions[row[s].doc][i].digest \in Text
                           /\ row[s].how = "fetched" =>
                                /\ Chunks[versions[row[s].doc][i].digest] >= MinChunks
                                /\ RawsOf(row[s].doc, i) # {}
    BY DEF AcquiredIsBacked
  <2>1. Backed(row[s].doc, row[s].how, versions, artifacts)
    BY DEF AcquisitionInv, RowsFit, Holds
  <2>2. row[s].doc # None
    BY <2>1, NoneAssumption DEF Backed
  <2> QED
    BY <2>1, <2>2 DEF Backed, Evidence, RawsOf
<1> QED
  BY <1>1, AcquisitionInductive, PTL
=============================================================================
