-------------------------- MODULE ModelAdapterProofs --------------------------
(***************************************************************************)
(* Theorems of the model adapters, for any caps, request sizes, number of  *)
(* callers, days, requests and restarts.                                   *)
(***************************************************************************)
EXTENDS ModelAdapter, FiniteSetTheorems, TLAPS

-----------------------------------------------------------------------------
(* Types, and what is known of a call in flight                            *)

CallsSized ==
  \A p \in Caller : call[p].stage # "idle" =>
    /\ call[p].input \in Prompt /\ call[p].most \in MaxOutput
    /\ call[p].stage = "answered" => call[p].output \in Output(call[p])

TInv == TypeOK /\ CallsSized /\ (ledger.day = NoDay => InFlight = {})

LEMMA IdleIsNoCall == Idle \notin Call
  BY DEF Idle, Call

LEMMA TInit == Init => TInv
<1> SUFFICES ASSUME Init PROVE TInv
  OBVIOUS
<1>1. 1 \in Day /\ 0 \in 0 .. MaxRequests /\ 0 \in 0 .. MaxRestarts
  BY BoundsAssumption DEF Day
<1>2. \A p \in Caller : call[p] = Idle /\ call[p].stage = "idle"
  BY DEF Init, Idle
<1>3. call \in [Caller -> Call \cup {Idle}]
  BY DEF Init
<1>4. traces \in [Day -> [succeeded: Nat, refused: Nat]]
  BY DEF Init, NoTraces
<1>5. TypeOK
  BY <1>1, <1>3, <1>4 DEF Init, TypeOK
<1> QED
  BY <1>2, <1>5 DEF TInv, CallsSized, InFlight

LEMMA TodayTyped ==
  ASSUME TypeOK
  PROVE  /\ Seeds \subseteq Nat
         /\ \A seeded \in Nat : /\ Today(seeded) \in [day: Day, tokens: Nat]
                                /\ Today(seeded).day = day
                                /\ Unread(seeded) \in Nat
         /\ \A s, r \in Nat : WithTrace(s, r) \in [Day -> [succeeded: Nat, refused: Nat]]
<1>1. Seed \in Nat /\ Seeds \subseteq Nat
  BY DEF Seed, Seeds, TypeOK
<1>2. ASSUME NEW seeded \in Nat
      PROVE  /\ Today(seeded) \in [day: Day, tokens: Nat]
             /\ Today(seeded).day = day
  BY DEF Today, TypeOK
<1>3. ASSUME NEW seeded \in Nat PROVE Unread(seeded) \in Nat
  BY DEF Unread, TypeOK
<1>4. ASSUME NEW s \in Nat, NEW r \in Nat
      PROVE  WithTrace(s, r) \in [Day -> [succeeded: Nat, refused: Nat]]
  BY DEF TypeOK, WithTrace
<1> QED
  BY <1>1, <1>2, <1>3, <1>4

LEMMA ResetTyped ==
  ASSUME TypeOK, NEW seeded \in Seeds, Reset(seeded)
  PROVE  /\ ledger' \in [day: Day \cup {NoDay}, tokens: Nat]
         /\ ledger' = Today(seeded)
         /\ ledger'.day = day /\ ledger'.day # NoDay
         /\ lost' \in [Day -> Nat]
         /\ seeded \in Nat
<1>1. seeded \in Nat /\ Unread(seeded) \in Nat
  BY TodayTyped
<1>2. ledger' \in [day: Day, tokens: Nat] /\ ledger'.day = day
  BY <1>1, TodayTyped DEF Reset
<1>3. lost' \in [Day -> Nat]
  BY <1>1 DEF Reset, TypeOK
<1> QED
  BY <1>1, <1>2, <1>3 DEF Reset, TypeOK, Day, NoDay

LEMMA OutputsSized ==
  ASSUME TypeOK, NEW c, c.input \in Prompt, c.most \in MaxOutput
  PROVE  /\ Output(c) \subseteq Nat \ {0}
         /\ adapter = "local" => \A o \in Output(c) : o <= c.most
<1>1. c.most \in Nat \ {0} /\ LocalText \in Nat \ {0} /\ Reply \subseteq Nat \ {0}
  BY CountsAssumption
<1>2. CASE adapter = "local"
  BY <1>1, <1>2 DEF Output
<1>3. CASE adapter # "local"
  BY <1>1, <1>3 DEF Output
<1> QED
  BY <1>2, <1>3

-----------------------------------------------------------------------------
(* One lemma for each step                                                 *)

LEMMA TRefuse ==
  ASSUME TInv, NEW p \in Caller, NEW input \in Prompt, NEW most \in MaxOutput,
         NEW seeded \in Seeds, Refuse(p, input, most, seeded)
  PROVE  TInv'
<1>1. input \in Nat
  BY CountsAssumption
<1>2. traces' \in [Day -> [succeeded: Nat, refused: Nat]]
  <2>1. traces' = traces \/ traces' = WithTrace(0, input)
    BY DEF Refuse
  <2>2. WithTrace(0, input) \in [Day -> [succeeded: Nat, refused: Nat]]
    BY <1>1, TodayTyped DEF TInv
  <2> QED
    BY <2>1, <2>2 DEF TInv, TypeOK
<1>3. /\ ledger' \in [day: Day \cup {NoDay}, tokens: Nat] /\ ledger'.day # NoDay
      /\ lost' \in [Day -> Nat]
  BY ResetTyped DEF Refuse, TInv
<1>4. requests' \in 0 .. MaxRequests
  BY BoundsAssumption DEF Refuse, TInv, TypeOK
<1>5. breaker' \in BOOLEAN
  BY DEF Refuse, TInv, TypeOK
<1>6. TypeOK'
  BY <1>2, <1>3, <1>4, <1>5 DEF Refuse, TInv, TypeOK
<1>7. CallsSized'
  BY DEF Refuse, TInv, CallsSized, Output
<1> QED
  BY <1>3, <1>6, <1>7 DEF TInv

LEMMA TAdmit ==
  ASSUME TInv, NEW p \in Caller, NEW input \in Prompt, NEW most \in MaxOutput,
         NEW seeded \in Seeds, Admit(p, input, most, seeded)
  PROVE  TInv'
<1> DEFINE c == [stage |-> "admitted", input |-> input, most |-> most, output |-> 0]
<1>1. input \in Nat /\ most \in Nat /\ c \in Call
  BY CountsAssumption DEF Call
<1>2. call' = [call EXCEPT ![p] = c] /\ call' \in [Caller -> Call \cup {Idle}]
  BY <1>1 DEF Admit, TInv, TypeOK
<1>3. /\ ledger' \in [day: Day \cup {NoDay}, tokens: Nat] /\ ledger'.day # NoDay
      /\ lost' \in [Day -> Nat]
  BY ResetTyped DEF Admit, TInv
<1>4. requests' \in 0 .. MaxRequests
  BY BoundsAssumption DEF Admit, TInv, TypeOK
<1>5. TypeOK'
  BY <1>2, <1>3, <1>4 DEF Admit, TInv, TypeOK
<1>6. \A q \in Caller : call'[q] = IF q = p THEN c ELSE call[q]
  BY <1>2 DEF TInv, TypeOK
<1>7. CallsSized'
  BY <1>6 DEF Admit, TInv, CallsSized, Output
<1> QED
  BY <1>3, <1>5, <1>7 DEF TInv

LEMMA TAnswer ==
  ASSUME TInv, NEW p \in Caller, NEW output \in Output(call[p]), Answer(p, output)
  PROVE  TInv' /\ call'[p] = Answered(call[p], output) /\ output \in Nat
               /\ call[p] \in Call
<1> DEFINE c == Answered(call[p], output)
<1>1. call[p] \in Call /\ output \in Nat
  BY OutputsSized DEF Answer, TInv, TypeOK, CallsSized, Idle
<1>2. c \in Call
  BY <1>1 DEF Answered, Call
<1>3. call' = [call EXCEPT ![p] = c] /\ call' \in [Caller -> Call \cup {Idle}]
  BY <1>2 DEF Answer, TInv, TypeOK
<1>4. spent' \in [Day -> Nat]
  BY <1>1 DEF Answer, TInv, TypeOK, Call
<1>5. TypeOK'
  BY <1>3, <1>4 DEF Answer, TInv, TypeOK
<1>6. \A q \in Caller : call'[q] = IF q = p THEN c ELSE call[q]
  BY <1>3 DEF TInv, TypeOK
<1>7. /\ c.input = call[p].input /\ c.most = call[p].most /\ c.output = output
      /\ c.stage = "answered"
  BY DEF Answered
<1>8. Output(c) = Output(call[p])
  BY <1>7 DEF Output
<1> HIDE DEF c
<1>9. CallsSized'
  BY <1>6, <1>7, <1>8 DEF Answer, TInv, CallsSized, Output
<1>10. ledger'.day # NoDay
  BY DEF Answer, TInv, InFlight
<1> QED
  BY <1>1, <1>5, <1>6, <1>9, <1>10 DEF TInv, c

LEMMA TEnd ==
  ASSUME TInv, NEW p \in Caller, Finish(p) \/ ProviderFails(p)
  PROVE  TInv' /\ call' = [call EXCEPT ![p] = Idle]
<1>0. call' = [call EXCEPT ![p] = Idle] /\ call[p].stage # "idle"
  BY DEF Finish, ProviderFails
<1>1. call[p] \in Call /\ Total(call[p]) \in Nat
  BY <1>0 DEF TInv, TypeOK, Call, Idle, Total
<1>2. call' \in [Caller -> Call \cup {Idle}]
  BY <1>0 DEF TInv, TypeOK
<1>3. \A q \in Caller : call'[q] = IF q = p THEN Idle ELSE call[q]
  BY <1>0 DEF TInv, TypeOK
<1>4. ledger.day \in Day
  BY <1>0 DEF TInv, TypeOK, InFlight
<1>5. CASE Finish(p)
  <2>1. traces' = traces \/ traces' = WithTrace(Total(call[p]), 0)
    BY <1>5 DEF Finish
  <2>2. traces' \in [Day -> [succeeded: Nat, refused: Nat]]
    <3>1. WithTrace(Total(call[p]), 0) \in [Day -> [succeeded: Nat, refused: Nat]]
      BY <1>1, TodayTyped DEF TInv
    <3> QED
      BY <2>1, <3>1 DEF TInv, TypeOK
  <2>3. charged' \in [Day -> Nat]
    <3>1. charged' = [charged EXCEPT ![ledger.day] = @ + Total(call[p])]
      BY <1>5 DEF Finish
    <3> QED
      BY <1>1, <1>4, <3>1 DEF TInv, TypeOK
  <2>7. lost' \in [Day -> Nat]
    <3>1. lost' = lost \/ lost' = [lost EXCEPT ![day] = @ + Total(call[p])]
      BY <1>5 DEF Finish
    <3> QED
      BY <1>1, <3>1 DEF TInv, TypeOK
  <2>4. ledger' \in [day: Day \cup {NoDay}, tokens: Nat] /\ ledger'.day = ledger.day
    BY <1>1, <1>4, <1>5 DEF Finish, TInv, TypeOK
  <2>5. TypeOK'
    BY <1>2, <1>5, <2>2, <2>3, <2>4, <2>7 DEF Finish, TInv, TypeOK
  <2>6. CallsSized'
    <3>1. adapter' = adapter
      BY <1>5 DEF Finish
    <3> QED
      BY <1>3, <3>1 DEF TInv, CallsSized, Output, Idle
  <2> QED
    BY <1>0, <1>4, <2>4, <2>5, <2>6 DEF TInv, Day, NoDay
<1>6. CASE ProviderFails(p)
  <2>1. TypeOK'
    BY <1>2, <1>6 DEF ProviderFails, TInv, TypeOK
  <2>2. CallsSized'
    BY <1>3, <1>6 DEF ProviderFails, TInv, CallsSized, Output, Idle
  <2>3. ledger'.day = ledger.day
    BY <1>6 DEF ProviderFails
  <2> QED
    BY <1>0, <1>4, <2>1, <2>2, <2>3 DEF TInv, Day, NoDay
<1> QED
  BY <1>5, <1>6

LEMMA TMidnight ==
  ASSUME TInv, Midnight
  PROVE  TInv'
<1>1. day' \in Day
  BY BoundsAssumption DEF Midnight, TInv, TypeOK, Day
<1> QED
  BY <1>1 DEF Midnight, TInv, TypeOK, CallsSized, Output, InFlight

LEMMA TRestart ==
  ASSUME TInv, Restart
  PROVE  TInv'
<1>1. CutOff \in Nat
  <2> DEFINE answered == {p \in Caller : call[p].stage = "answered"}
  <2>1. ASSUME answered # {} PROVE Total(call[CHOOSE p \in answered : TRUE]) \in Nat
    <3> DEFINE p == CHOOSE q \in answered : TRUE
    <3>1. p \in answered
      BY <2>1
    <3>2. call[p] \in Call
      BY <3>1 DEF TInv, TypeOK, Idle
    <3> QED
      BY <3>2 DEF Call, Total
  <2> QED
    BY <2>1 DEF CutOff
<1>2. lost' \in [Day -> Nat]
  BY <1>1 DEF Restart, TInv, TypeOK
<1>3. traces' \in [Day -> [succeeded: Nat, refused: Nat]]
  BY DEF Restart, TInv, TypeOK, NoTraces
<1>4. call' = [p \in Caller |-> Idle] /\ call' \in [Caller -> Call \cup {Idle}]
  BY DEF Restart
<1>5. restarts' \in 0 .. MaxRestarts
  BY BoundsAssumption DEF Restart, TInv, TypeOK
<1>6. ledger' \in [day: Day \cup {NoDay}, tokens: Nat]
  BY DEF Restart, TInv, TypeOK
<1>7. TypeOK'
  BY <1>2, <1>3, <1>4, <1>5, <1>6 DEF Restart, TInv, TypeOK
<1> QED
  BY <1>4, <1>7 DEF TInv, CallsSized, InFlight, Idle

LEMMA TNext == TInv /\ [Next]_vars => TInv'
<1> SUFFICES ASSUME TInv, [Next]_vars PROVE TInv'
  OBVIOUS
<1>1. CASE UNCHANGED vars
  BY <1>1 DEF vars, TInv, TypeOK, CallsSized, Output, InFlight
<1>2. ASSUME NEW p \in Caller, Complete(p) PROVE TInv'
  BY <1>2, TRefuse, TAdmit, TAnswer, TEnd DEF Complete
<1> QED
  BY <1>1, <1>2, TMidnight, TRestart DEF Next

LEMMA TInvariance == Spec => []TInv
  BY TInit, TNext, PTL DEF Spec

\* Every variable of the adapters keeps its type.
THEOREM AdapterTyping == Spec => []TypeOK
<1>1. TInv => TypeOK
  BY DEF TInv
<1> QED
  BY <1>1, TInvariance, PTL

-----------------------------------------------------------------------------
(* The http adapter: each free caller leaves room for one call             *)

Free == Caller \ InFlight

HInv ==
  adapter = "http" => ledger.tokens <= DailyCap + Cardinality(Free) * LargestCall

LEMMA FreeCounted ==
  ASSUME NEW S \in SUBSET Caller
  PROVE  /\ Cardinality(S) \in Nat
         /\ Cardinality(S) <= Cardinality(Caller)
         /\ \A p \in Caller \ S : Cardinality(S \cup {p}) = Cardinality(S) + 1
  BY CallerAssumption, FS_Subset, FS_AddElement, FS_CardinalityType

LEMMA Room ==
  ASSUME NEW n \in Nat
  PROVE  /\ n * LargestCall \in Nat
         /\ (n + 1) * LargestCall = n * LargestCall + LargestCall
  BY LargestCallAssumption

\* The ledger is within the cap whenever a request is let in.
LEMMA AdmitWithinCap ==
  ASSUME TInv, NEW p \in Caller, NEW input \in Prompt, NEW most \in MaxOutput,
         NEW seeded \in Seeds, Admit(p, input, most, seeded)
  PROVE  /\ ledger' = Today(seeded)
         /\ ledger'.tokens + input + most <= DailyCap
         /\ input + most <= PerJobCap
         /\ ledger'.tokens <= DailyCap
<1>1. /\ ledger' = Today(seeded)
      /\ ~OverDailyCap(input, most, seeded) /\ ~OverJobCap(input, most)
  BY DEF Admit, Refused, Reset
<1> DEFINE used == Today(seeded).tokens
<1>2. used \in Nat
  BY <1>1, ResetTyped DEF TInv, Admit
<1>3. input \in Nat /\ most \in Nat /\ DailyCap \in Nat /\ PerJobCap \in Nat
  BY CountsAssumption, CapsAssumption
<1>4. ~(used + input + most > DailyCap) /\ ~(input + most > PerJobCap)
  BY <1>1 DEF OverDailyCap, OverJobCap
<1>5. ledger'.tokens = used
  BY <1>1
<1> HIDE DEF used
<1> QED
  BY <1>1, <1>2, <1>3, <1>4, <1>5

\* A ledger that a refused request resets holds no more than before.
LEMMA TodayWithin ==
  ASSUME TInv, adapter = "http", NEW seeded \in Seeds
  PROVE  Today(seeded).tokens <= ledger.tokens
<1>1. ledger.tokens \in Nat
  BY DEF TInv, TypeOK
<1>2. Today(seeded).tokens = ledger.tokens \/ Today(seeded).tokens = 0
  BY DEF Today, Seed, Seeds
<1> QED
  BY <1>1, <1>2

LEMMA HNext == TInv /\ HInv /\ [Next]_vars => HInv'
<1> SUFFICES ASSUME TInv, HInv, [Next]_vars, adapter' = "http"
             PROVE  ledger'.tokens <= DailyCap + Cardinality(Free') * LargestCall
  BY DEF HInv
<1> DEFINE n == Cardinality(Free)
           m == Cardinality(Free')
<1>0. adapter = "http"
  BY DEF Next, Complete, Refuse, Admit, Answer, ProviderFails, Finish, Midnight,
         Restart, vars
<1>1. /\ ledger.tokens \in Nat /\ ledger'.tokens \in Nat
      /\ ledger.tokens <= DailyCap + n * LargestCall
  BY <1>0, TNext DEF HInv, TInv, TypeOK
<1>2. n \in Nat /\ m \in Nat /\ DailyCap \in Nat
  BY FreeCounted, CapsAssumption DEF Free
<1>3. n * LargestCall \in Nat /\ m * LargestCall \in Nat
      /\ (n + 1) * LargestCall = n * LargestCall + LargestCall
  BY <1>2, Room
<1> HIDE DEF n, m
<1>4. CASE ledger'.tokens <= ledger.tokens /\ call' = call
  <2>1. m = n
    BY <1>4 DEF m, n, Free, InFlight
  <2> QED
    BY <1>1, <1>2, <1>3, <1>4, <2>1 DEF m
<1>5. CASE ledger'.tokens <= DailyCap
  BY <1>1, <1>2, <1>3, <1>5 DEF m
<1>6. ASSUME NEW p \in Caller, NEW output \in Output(call[p]), Answer(p, output)
      PROVE  m = n /\ ledger' = ledger
  <2>1. call' = [call EXCEPT ![p] = Answered(call[p], output)]
    BY <1>6 DEF Answer
  <2>2. \A q \in Caller : (call'[q].stage # "idle") <=> (call[q].stage # "idle")
    BY <1>6, <2>1 DEF Answer, Answered, TInv, TypeOK
  <2> QED
    BY <1>6, <2>2 DEF m, n, Free, InFlight, Answer
<1>7. ASSUME NEW p \in Caller, Finish(p) \/ ProviderFails(p)
      PROVE  m = n + 1 /\ ledger'.tokens <= ledger.tokens + LargestCall
  <2>1. call' = [call EXCEPT ![p] = Idle] /\ call[p].stage # "idle"
    BY <1>7 DEF Finish, ProviderFails
  <2>2. Free' = Free \cup {p} /\ p \in Caller \ Free
    BY <2>1 DEF Free, InFlight, Idle, TInv, TypeOK
  <2>3. m = n + 1
    BY <2>2, FreeCounted DEF m, n, Free
  <2>4. CASE Finish(p)
    <3>1. ledger'.tokens = ledger.tokens + Total(call[p])
      BY <2>4 DEF Finish
    <3>2. call[p].input \in Prompt /\ call[p].output \in Reply
      BY <1>0, <2>4 DEF Finish, TInv, CallsSized, Output
    <3>3. Total(call[p]) \in Nat /\ Total(call[p]) <= LargestCall
      <4>1. call[p].input \in Nat /\ call[p].output \in Nat
        BY <3>2, CountsAssumption
      <4>2. call[p].input + call[p].output <= LargestCall
        BY <3>2, LargestCallAssumption
      <4> QED
        BY <4>1, <4>2 DEF Total
    <3> QED
      BY <1>1, <2>3, <3>1, <3>3, LargestCallAssumption
  <2>5. CASE ProviderFails(p)
    <3>1. ledger' = ledger
      BY <2>5 DEF ProviderFails
    <3> QED
      BY <1>1, <2>3, <3>1, LargestCallAssumption
  <2> QED
    BY <1>7, <2>4, <2>5
<1>8. ASSUME NEW p \in Caller, NEW input \in Prompt, NEW most \in MaxOutput,
             NEW seeded \in Seeds
      PROVE  /\ Refuse(p, input, most, seeded) =>
                  ledger'.tokens <= ledger.tokens /\ call' = call
             /\ Admit(p, input, most, seeded) => ledger'.tokens <= DailyCap
  <2>1. input \in Nat /\ most \in Nat
    BY CountsAssumption
  <2> QED
    BY <1>0, <1>1, <1>2, <2>1, TodayWithin, AdmitWithinCap DEF Refuse, Reset
<1>9. Restart => ledger'.tokens <= DailyCap
  BY <1>2 DEF Restart
<1>10. (UNCHANGED vars \/ Midnight) => ledger'.tokens <= ledger.tokens /\ call' = call
  BY <1>1 DEF vars, Midnight
<1>11. CASE \E p \in Caller : Complete(p)
  <2>1. PICK p \in Caller : Complete(p)
    BY <1>11
  <2>2. CASE \E output \in Output(call[p]) : Answer(p, output)
    BY <1>1, <1>6, <2>2 DEF m
  <2>3. CASE Finish(p) \/ ProviderFails(p)
    BY <1>1, <1>2, <1>3, <1>7, <2>3, LargestCallAssumption DEF m
  <2>4. CASE \E input \in Prompt, most \in MaxOutput, seeded \in Seeds :
               Refuse(p, input, most, seeded) \/ Admit(p, input, most, seeded)
    BY <1>4, <1>5, <1>8, <2>4
  <2> QED
    BY <2>1, <2>2, <2>3, <2>4 DEF Complete
<1> QED
  BY <1>4, <1>5, <1>9, <1>10, <1>11 DEF Next

\* Concurrent callers of the http adapter overshoot the daily cap by at most
\* one call each.
THEOREM HttpOvershoot == Spec => []HttpOvershootBounded
<1>1. Init => HInv
  BY FreeCounted, CapsAssumption, Room DEF Init, HInv, Free
<1>2. TInv /\ HInv => HttpOvershootBounded
  <2> SUFFICES ASSUME TInv, HInv, adapter = "http"
               PROVE  ledger.tokens <= DailyCap + Cardinality(Caller) * LargestCall
    BY DEF HttpOvershootBounded
  <2>1. /\ Cardinality(Free) \in Nat /\ Cardinality(Caller) \in Nat
        /\ Cardinality(Free) <= Cardinality(Caller)
    BY FreeCounted DEF Free
  <2>2. Cardinality(Free) * LargestCall <= Cardinality(Caller) * LargestCall
    BY <2>1, LargestCallAssumption
  <2> QED
    BY <2>1, <2>2, Room, CapsAssumption DEF HInv, TInv, TypeOK
<1> QED
  BY <1>1, <1>2, TInvariance, HNext, PTL DEF Spec

-----------------------------------------------------------------------------
(* The local adapter: what a day's calls used is in the ledger, in the     *)
(* call in flight, or was lost                                             *)

LockInv == adapter = "local" => \A p, q \in InFlight : p = q

\* What the call in flight has used is known.
CutOffKnown ==
  adapter = "local" =>
    /\ \A p \in Caller : call[p].stage = "answered" => CutOff = Total(call[p])
    /\ \A p \in Caller : call[p].stage = "admitted" => CutOff = 0
    /\ InFlight = {} => CutOff = 0

Recorded == spent[day] <= traces[day].succeeded + CutOff + lost[day]

Ledgered ==
  ledger.day = day => spent[day] <= ledger.tokens + CutOff + PerJobCap + lost[day]

Covered ==
  \A p \in InFlight :
    /\ call[p].input + call[p].most <= PerJobCap
    /\ ledger.day = day => ledger.tokens + call[p].input + call[p].most <= DailyCap

Overtaken ==
  ledger.day \notin {NoDay, day} =>
    /\ spent[day] <= PerJobCap
    /\ (\E p \in InFlight : call[p].stage = "admitted") => spent[day] = 0

Days == ledger.day <= day /\ \A d \in Day : d > day => spent[d] = 0

Bounded == \A d \in Day : spent[d] <= DailyCap + PerJobCap + lost[d]

LInv == adapter = "local" =>
  Recorded /\ Ledgered /\ Covered /\ Overtaken /\ Days /\ Bounded

LEMMA LockNext == TInv /\ LockInv /\ [Next]_vars => LockInv'
<1> SUFFICES ASSUME TInv, LockInv, [Next]_vars, adapter' = "local",
                    NEW p \in InFlight', NEW q \in InFlight'
             PROVE  p = q
  BY DEF LockInv
<1>0. adapter = "local"
  BY DEF Next, Complete, Refuse, Admit, Answer, ProviderFails, Finish, Midnight,
         Restart, vars
<1>1. CASE InFlight' \subseteq InFlight
  BY <1>0, <1>1 DEF LockInv
<1>2. ASSUME NEW r \in Caller, Complete(r) PROVE p = q
  <2>1. CASE \E input \in Prompt, most \in MaxOutput, seeded \in Seeds :
               Refuse(r, input, most, seeded)
    BY <1>1, <2>1 DEF Refuse, InFlight
  <2>2. CASE \E input \in Prompt, most \in MaxOutput, seeded \in Seeds :
               Admit(r, input, most, seeded)
    <3>1. InFlight = {}
      BY <1>0, <2>2 DEF Admit, LockFree
    <3>2. \A s \in Caller : s # r => call'[s] = call[s]
      BY <2>2 DEF Admit, TInv, TypeOK
    <3> QED
      BY <3>1, <3>2 DEF InFlight
  <2>3. CASE \E output \in Output(call[r]) : Answer(r, output)
    <3>1. \A s \in Caller : s # r => call'[s] = call[s]
      BY <2>3 DEF Answer, TInv, TypeOK
    <3>2. r \in InFlight
      BY <2>3 DEF Answer, InFlight
    <3> QED
      BY <1>1, <3>1, <3>2 DEF InFlight
  <2>4. CASE Finish(r) \/ ProviderFails(r)
    <3>1. \A s \in Caller : call'[s] = call[s] \/ call'[s] = Idle
      BY <2>4 DEF Finish, ProviderFails, TInv, TypeOK
    <3> QED
      BY <1>1, <3>1 DEF InFlight, Idle
  <2> QED
    BY <1>2, <2>1, <2>2, <2>3, <2>4 DEF Complete
<1>3. (Midnight \/ UNCHANGED vars \/ Restart) => InFlight' \subseteq InFlight
  BY DEF Midnight, vars, Restart, InFlight, Idle
<1> QED
  BY <1>1, <1>2, <1>3 DEF Next

LEMMA CutOffFacts == TInv /\ LockInv => CutOffKnown
<1> SUFFICES ASSUME TInv, LockInv, adapter = "local" PROVE CutOffKnown
  BY DEF CutOffKnown
<1> DEFINE answered == {p \in Caller : call[p].stage = "answered"}
<1>1. CutOff = IF answered # {} THEN Total(call[CHOOSE p \in answered : TRUE]) ELSE 0
  BY DEF CutOff
<1>2. answered \subseteq InFlight
  BY DEF InFlight
<1>3. ASSUME NEW p \in Caller, call[p].stage = "answered" PROVE CutOff = Total(call[p])
  <2>1. (CHOOSE q \in answered : TRUE) \in answered /\ p \in answered
    BY <1>3
  <2>2. (CHOOSE q \in answered : TRUE) = p
    BY <1>2, <2>1 DEF LockInv
  <2> QED
    BY <1>1, <2>1, <2>2
<1>4. ASSUME NEW p \in Caller, call[p].stage = "admitted" PROVE CutOff = 0
  <2>1. p \in InFlight /\ p \notin answered
    BY <1>4 DEF InFlight
  <2>2. answered = {}
    BY <1>2, <2>1 DEF LockInv
  <2> QED
    BY <1>1, <2>2
<1>5. InFlight = {} => CutOff = 0
  BY <1>1, <1>2
<1> HIDE DEF answered
<1> QED
  BY <1>3, <1>4, <1>5 DEF CutOffKnown

\* The facts each step of the local adapter starts from and may use.
LStep ==
  /\ TInv /\ TInv' /\ LockInv /\ CutOffKnown /\ CutOffKnown'
  /\ adapter = "local" /\ adapter' = "local" /\ LInv

LEMMA LTypes ==
  ASSUME LStep
  PROVE  /\ day \in Nat /\ day \in Day /\ ledger.day \in Nat /\ ledger.tokens \in Nat
         /\ \A d \in Day : /\ d \in Nat /\ spent[d] \in Nat /\ lost[d] \in Nat
                           /\ spent'[d] \in Nat /\ lost'[d] \in Nat
                           /\ traces[d].succeeded \in Nat /\ traces[d].refused \in Nat
         /\ DailyCap \in Nat /\ PerJobCap \in Nat
         /\ CutOff \in Nat
<1>1. DailyCap \in Nat /\ PerJobCap \in Nat
  BY CapsAssumption
<1>2. CutOff \in Nat
  <2>1. CASE InFlight = {}
    BY <2>1 DEF LStep, CutOffKnown
  <2>2. ASSUME NEW p \in InFlight PROVE CutOff \in Nat
    <3>1. call[p] \in Call /\ p \in Caller
      BY DEF LStep, TInv, TypeOK, InFlight, Idle
    <3> QED
      BY <3>1 DEF LStep, CutOffKnown, Call, Total
  <2> QED
    BY <2>1, <2>2
<1>3. day \in Nat /\ day \in Day /\ ledger.day \in Nat /\ ledger.tokens \in Nat
  <2>1. day \in Day /\ ledger \in [day: Day \cup {NoDay}, tokens: Nat]
    BY DEF LStep, TInv, TypeOK
  <2>2. Day \subseteq Nat /\ NoDay \in Nat
    BY DEF Day, NoDay
  <2> QED
    BY <2>1, <2>2
<1>4. ASSUME NEW d \in Day
      PROVE  /\ d \in Nat /\ spent[d] \in Nat /\ lost[d] \in Nat
             /\ spent'[d] \in Nat /\ lost'[d] \in Nat
             /\ traces[d].succeeded \in Nat /\ traces[d].refused \in Nat
  <2>1. /\ spent \in [Day -> Nat] /\ lost \in [Day -> Nat]
        /\ spent' \in [Day -> Nat] /\ lost' \in [Day -> Nat]
        /\ traces \in [Day -> [succeeded: Nat, refused: Nat]]
    BY DEF LStep, TInv, TypeOK, Day
  <2>2. d \in Nat
    BY DEF Day
  <2> QED
    BY <2>1, <2>2
<1> QED
  BY <1>1, <1>2, <1>3, <1>4

\* A reset keeps the day's account, whether the ledger is read back or not.
LEMMA LReset ==
  ASSUME LStep, NEW seeded \in Seeds, Reset(seeded), InFlight = {}
  PROVE  /\ ledger'.day = day
         /\ spent[day] <= ledger'.tokens + PerJobCap + lost'[day]
         /\ \A d \in Day : lost[d] <= lost'[d]
<1>1. ledger' = Today(seeded) /\ ledger'.day = day /\ ledger'.tokens \in Nat
      /\ seeded \in Nat
  BY ResetTyped DEF LStep, TInv, TypeOK
<1>2. CutOff = 0
  BY DEF LStep, CutOffKnown
<1>3. Unread(seeded) \in Nat
  BY <1>1, TodayTyped DEF LStep, TInv
<1>4. \A d \in Day : lost'[d] = IF d = day THEN lost[d] + Unread(seeded) ELSE lost[d]
  BY DEF Reset, LStep, TInv, TypeOK
<1>5. \A d \in Day : lost[d] <= lost'[d]
  BY <1>3, <1>4, LTypes
<1>6. CASE ledger.day = day
  <2>1. ledger'.tokens = ledger.tokens /\ spent[day] <= ledger.tokens + 0 + PerJobCap + lost[day]
    BY <1>1, <1>2, <1>6 DEF Today, LStep, LInv, Ledgered
  <2> QED
    BY <1>1, <1>5, <2>1, LTypes
<1>7. CASE ledger.day = NoDay /\ ledger.day # day
  <2>1. ledger'.tokens = seeded
    BY <1>1, <1>7 DEF Today
  <2>2. spent[day] <= traces[day].succeeded + 0 + lost[day]
    BY <1>2 DEF LStep, LInv, Recorded
  <2>3. Seed = traces[day].succeeded + traces[day].refused
    BY DEF Seed, LStep
  <2>6. /\ spent[day] \in Nat /\ lost[day] \in Nat /\ lost'[day] \in Nat
        /\ traces[day].succeeded \in Nat /\ traces[day].refused \in Nat
        /\ PerJobCap \in Nat
    BY LTypes
  <2>4. CASE seeded < Seed
    <3>1. lost'[day] = lost[day] + traces[day].succeeded
      BY <1>4, <1>7, <2>4, LTypes DEF Unread
    <3>3. spent[day] <= ledger'.tokens + PerJobCap + lost'[day]
      BY <1>1, <2>1, <2>2, <2>6, <3>1
    <3> QED
      BY <1>1, <1>5, <3>3
  <2>5. CASE ~(seeded < Seed)
    <3>1. traces[day].succeeded <= seeded
      BY <1>1, <2>3, <2>5, <2>6
    <3>2. lost[day] <= lost'[day]
      BY <1>5, LTypes
    <3>3. spent[day] <= ledger'.tokens + PerJobCap + lost'[day]
      BY <1>1, <2>1, <2>2, <2>6, <3>1, <3>2
    <3> QED
      BY <1>1, <1>5, <3>3
  <2> QED
    BY <1>1, <2>4, <2>5
<1>8. CASE ledger.day \notin {NoDay, day}
  <2>1. spent[day] <= PerJobCap
    BY <1>8 DEF LStep, LInv, Overtaken
  <2> QED
    BY <1>1, <1>5, <2>1, LTypes
<1> QED
  BY <1>1, <1>5, <1>6, <1>7, <1>8

LEMMA LRequest ==
  ASSUME LStep, NEW p \in Caller, NEW input \in Prompt, NEW most \in MaxOutput,
         NEW seeded \in Seeds,
         Refuse(p, input, most, seeded) \/ Admit(p, input, most, seeded)
  PROVE  LInv'
<1>1. /\ Reset(seeded) /\ InFlight = {} /\ day' = day /\ spent' = spent
  BY DEF Refuse, Admit, LockFree, LStep
<1>2. /\ ledger'.day = day
      /\ spent[day] <= ledger'.tokens + PerJobCap + lost'[day]
      /\ \A d \in Day : lost[d] <= lost'[d]
      /\ ledger'.tokens \in Nat
  BY <1>1, LReset DEF LStep, TInv, TypeOK
<1>3. traces'[day].succeeded = traces[day].succeeded
  <2>1. traces' = traces \/ traces' = WithTrace(0, input)
    BY DEF Refuse, Admit
  <2>2. CASE traces' = WithTrace(0, input)
    <3>1. traces'[day].succeeded = traces[day].succeeded + 0
      BY <2>2 DEF WithTrace, LStep, TInv, TypeOK
    <3> QED
      BY <3>1, LTypes
  <2> QED
    BY <2>1, <2>2
<1>4. \/ InFlight' = {}
      \/ /\ InFlight' = {p} /\ call'[p].stage = "admitted"
         /\ call'[p].input = input /\ call'[p].most = most
         /\ Admit(p, input, most, seeded)
  <2>1. CASE Refuse(p, input, most, seeded)
    BY <1>1, <2>1 DEF Refuse, InFlight
  <2>2. CASE Admit(p, input, most, seeded)
    <3>1. \A q \in Caller : q # p => call'[q] = call[q]
      BY <2>2 DEF Admit, LStep, TInv, TypeOK
    <3>2. call'[p] = [stage |-> "admitted", input |-> input, most |-> most, output |-> 0]
      BY <2>2 DEF Admit, LStep, TInv, TypeOK
    <3> QED
      BY <1>1, <2>2, <3>1, <3>2 DEF InFlight
  <2> QED
    BY <2>1, <2>2
<1>5. CutOff = 0 /\ CutOff' = 0
  BY <1>1, <1>4 DEF LStep, CutOffKnown
<1>6. Recorded'
  <2>1. spent[day] <= traces[day].succeeded + 0 + lost[day]
    BY <1>5 DEF LStep, LInv, Recorded
  <2>2. spent[day] <= traces[day].succeeded + 0 + lost'[day]
    BY <1>2, <2>1, LTypes
  <2> QED
    BY <1>1, <1>3, <1>5, <2>2 DEF Recorded
<1>7. Ledgered'
  <2>1. spent[day] <= ledger'.tokens + 0 + PerJobCap + lost'[day]
    BY <1>2, LTypes
  <2> QED
    BY <1>1, <1>5, <2>1 DEF Ledgered
<1>8. Covered'
  <2>1. CASE InFlight' = {}
    BY <2>1 DEF Covered
  <2>2. CASE InFlight' = {p} /\ Admit(p, input, most, seeded)
             /\ call'[p].input = input /\ call'[p].most = most
    BY <2>2, AdmitWithinCap DEF Covered, LStep
  <2> QED
    BY <1>4, <2>1, <2>2
<1>9. Overtaken'
  BY <1>1, <1>2 DEF Overtaken
<1>10. Days'
  BY <1>1, <1>2, LTypes DEF Days, LStep, LInv
<1>11. Bounded'
  <2>1. ASSUME NEW d \in Day PROVE spent[d] <= DailyCap + PerJobCap + lost'[d]
    BY <1>2, LTypes DEF LStep, LInv, Bounded
  <2> QED
    BY <1>1, <2>1 DEF Bounded
<1> QED
  BY <1>6, <1>7, <1>8, <1>9, <1>10, <1>11 DEF LInv

LEMMA LAnswer ==
  ASSUME LStep, NEW p \in Caller, NEW output \in Output(call[p]), Answer(p, output)
  PROVE  LInv'
<1> DEFINE i == call[p].input
           m == call[p].most
           t == ledger.tokens
           s == spent[day]
           l == lost[day]
<1>1. /\ i \in Nat /\ m \in Nat /\ output \in Nat /\ output <= m
      /\ t \in Nat /\ s \in Nat /\ l \in Nat /\ day \in Day
      /\ DailyCap \in Nat /\ PerJobCap \in Nat
  <2>1. call[p].input \in Prompt /\ call[p].most \in MaxOutput
    BY DEF LStep, TInv, CallsSized, Answer
  <2>2. output \in Nat /\ output <= m
    BY <2>1, OutputsSized DEF LStep, TInv
  <2> QED
    BY <2>1, <2>2, CountsAssumption, LTypes
<1>2. /\ day' = day /\ ledger' = ledger /\ lost' = lost /\ traces' = traces
      /\ spent' = [spent EXCEPT ![day] = spent[day] + i + output]
      /\ call' = [call EXCEPT ![p] = Answered(call[p], output)]
  BY DEF Answer
<1>3. /\ spent'[day] = s + i + output
      /\ \A d \in Day : d # day => spent'[d] = spent[d]
  BY <1>1, <1>2 DEF LStep, TInv, TypeOK
<1>4. /\ call'[p].input = i /\ call'[p].most = m /\ call'[p].output = output
      /\ call'[p].stage = "answered"
  <2>1. call'[p] = Answered(call[p], output)
    BY TAnswer DEF LStep
  <2> QED
    BY <2>1 DEF Answered
<1>5. p \in InFlight /\ call[p].stage = "admitted" /\ InFlight = {p}
  BY DEF Answer, InFlight, LStep, LockInv
<1>6. CutOff = 0 /\ CutOff' = i + output
  <2>1. CutOff = 0
    BY <1>5 DEF LStep, CutOffKnown
  <2>2. CutOff' = Total(call'[p])
    BY <1>4 DEF LStep, CutOffKnown
  <2> QED
    BY <1>4, <2>1, <2>2 DEF Total
<1>7. InFlight' = {p}
  <2>1. \A q \in Caller : q # p => call'[q] = call[q]
    BY <1>2 DEF LStep, TInv, TypeOK
  <2> QED
    BY <1>4, <1>5, <2>1 DEF InFlight
<1> HIDE DEF i, m, t, s, l
<1>8. i + m <= PerJobCap /\ (ledger.day = day => t + i + m <= DailyCap)
  BY <1>5 DEF LStep, LInv, Covered, i, m, t
<1>9. Recorded'
  <2>1. s <= traces[day].succeeded + 0 + l
    BY <1>6 DEF LStep, LInv, Recorded, s, l
  <2>2. s + i + output <= traces[day].succeeded + (i + output) + l
    BY <1>1, <2>1, LTypes
  <2> QED
    BY <1>2, <1>3, <1>6, <2>2 DEF Recorded, l
<1>10. ledger.day = day => s <= t + PerJobCap + l
  <2> SUFFICES ASSUME ledger.day = day PROVE s <= t + PerJobCap + l
    OBVIOUS
  <2>1. s <= t + 0 + PerJobCap + l
    BY <1>6 DEF LStep, LInv, Ledgered, s, t, l
  <2> QED
    BY <1>1, <2>1
<1>11. Ledgered'
  <2> SUFFICES ASSUME ledger.day = day
               PROVE  s + i + output <= t + (i + output) + PerJobCap + l
    BY <1>2, <1>3, <1>6 DEF Ledgered, t, l
  <2> QED
    BY <1>1, <1>10
<1>12. Covered'
  BY <1>2, <1>4, <1>7, <1>8 DEF Covered, t
<1>13. ledger.day \notin {NoDay, day} => s = 0
  BY <1>5 DEF LStep, LInv, Overtaken, s
<1>14. Overtaken'
  <2> SUFFICES ASSUME ledger.day \notin {NoDay, day}
               PROVE  s + i + output <= PerJobCap
    BY <1>2, <1>3, <1>4, <1>7 DEF Overtaken
  <2> QED
    BY <1>1, <1>8, <1>13
<1>15. Days'
  BY <1>2, <1>3, LTypes DEF Days, LStep, LInv
<1>16. Bounded'
  <2>1. ledger.day # NoDay
    BY <1>5 DEF LStep, TInv
  <2>2. s + i + output <= DailyCap + PerJobCap + l
    <3>1. CASE ledger.day = day
      BY <1>1, <1>8, <1>10, <3>1
    <3>2. CASE ledger.day # day
      BY <1>1, <1>8, <1>13, <2>1, <3>2
    <3> QED
      BY <3>1, <3>2
  <2>3. ASSUME NEW d \in Day PROVE spent'[d] <= DailyCap + PerJobCap + lost'[d]
    BY <1>2, <1>3, <2>2 DEF LStep, LInv, Bounded, l
  <2> QED
    BY <2>3 DEF Bounded
<1> QED
  BY <1>9, <1>11, <1>12, <1>14, <1>15, <1>16 DEF LInv

LEMMA LFinish ==
  ASSUME LStep, NEW p \in Caller, Finish(p)
  PROVE  LInv'
<1> DEFINE total == Total(call[p])
<1>1. /\ call[p].stage = "answered" /\ day' = day /\ spent' = spent
      /\ ledger' = [day |-> ledger.day, tokens |-> ledger.tokens + total]
      /\ call' = [call EXCEPT ![p] = Idle]
  BY DEF Finish
<1>2. p \in InFlight /\ InFlight = {p} /\ CutOff = total
  BY <1>1 DEF InFlight, LStep, LockInv, CutOffKnown
<1>3. InFlight' = {} /\ CutOff' = 0
  <2>1. \A q \in Caller : call'[q] = IF q = p THEN Idle ELSE call[q]
    BY <1>1 DEF LStep, TInv, TypeOK
  <2>2. InFlight' = {}
    BY <1>2, <2>1 DEF InFlight, Idle
  <2> QED
    BY <2>2 DEF LStep, CutOffKnown
<1>4. total \in Nat
  BY <1>2, LTypes
<1> HIDE DEF total
<1>5. \/ /\ lost' = lost /\ traces'[day].succeeded = traces[day].succeeded + total
      \/ /\ lost' = [lost EXCEPT ![day] = lost[day] + total] /\ traces' = traces
  <2>1. \/ lost' = lost /\ traces' = WithTrace(total, 0)
        \/ lost' = [lost EXCEPT ![day] = lost[day] + total] /\ traces' = traces
    BY DEF Finish, total
  <2>2. WithTrace(total, 0)[day].succeeded = traces[day].succeeded + total
    BY <1>4 DEF WithTrace, LStep, TInv, TypeOK
  <2> QED
    BY <2>1, <2>2
<1>6. \A d \in Day : lost[d] <= lost'[d]
  <2> SUFFICES ASSUME NEW d \in Day PROVE lost[d] <= lost'[d]
    OBVIOUS
  <2>1. lost'[d] \in {lost[d], lost[d] + total}
    <3>1. lost \in [Day -> Nat]
      BY DEF LStep, TInv, TypeOK
    <3> QED
      BY <1>5, <3>1
  <2> QED
    BY <1>4, <2>1, LTypes
<1>7. Recorded'
  <2>1. spent[day] <= traces[day].succeeded + total + lost[day]
    BY <1>2 DEF LStep, LInv, Recorded
  <2>2. /\ spent[day] \in Nat /\ lost[day] \in Nat /\ traces[day].succeeded \in Nat
        /\ day \in Day
    BY LTypes
  <2>3. CASE lost' = lost /\ traces'[day].succeeded = traces[day].succeeded + total
    <3>1. spent[day] <= (traces[day].succeeded + total) + 0 + lost[day]
      BY <1>4, <2>1, <2>2
    <3> QED
      BY <1>1, <1>3, <2>3, <3>1 DEF Recorded
  <2>4. CASE lost' = [lost EXCEPT ![day] = lost[day] + total] /\ traces' = traces
    <3>1. spent[day] <= traces[day].succeeded + 0 + (lost[day] + total)
      BY <1>4, <2>1, <2>2
    <3>2. lost'[day] = lost[day] + total
      BY <2>2, <2>4 DEF LStep, TInv, TypeOK
    <3> QED
      BY <1>1, <1>3, <2>4, <3>1, <3>2 DEF Recorded
  <2> QED
    BY <1>5, <2>3, <2>4
<1>8. Ledgered'
  <2> SUFFICES ASSUME ledger.day = day
               PROVE  spent[day] <= (ledger.tokens + total) + 0 + PerJobCap + lost'[day]
    BY <1>1, <1>3 DEF Ledgered
  <2>1. spent[day] <= ledger.tokens + total + PerJobCap + lost[day]
    BY <1>2 DEF LStep, LInv, Ledgered
  <2> QED
    BY <1>4, <1>6, <2>1, LTypes
<1>9. Covered'
  BY <1>3 DEF Covered
<1>10. Overtaken'
  BY <1>1, <1>3 DEF Overtaken, LStep, LInv
<1>11. Days'
  BY <1>1 DEF Days, LStep, LInv
<1>12. Bounded'
  <2>1. ASSUME NEW d \in Day PROVE spent[d] <= DailyCap + PerJobCap + lost'[d]
    BY <1>6, LTypes DEF LStep, LInv, Bounded
  <2> QED
    BY <1>1, <2>1 DEF Bounded
<1> QED
  BY <1>7, <1>8, <1>9, <1>10, <1>11, <1>12 DEF LInv

LEMMA LMidnight ==
  ASSUME LStep, Midnight
  PROVE  LInv'
<1>1. /\ day' = day + 1 /\ day' \in Day /\ day' > day
  BY LTypes DEF Midnight, LStep, TInv, TypeOK
<1>2. spent' = spent /\ lost' = lost /\ ledger' = ledger /\ call' = call /\ traces' = traces
  BY DEF Midnight
<1>3. spent[day'] = 0
  BY <1>1 DEF LStep, LInv, Days
<1>4. ledger'.day < day' /\ ledger'.day # day'
  BY <1>1, <1>2, LTypes DEF LStep, LInv, Days
<1>5. InFlight' = InFlight /\ CutOff' = CutOff
  BY <1>2 DEF InFlight, CutOff, LStep
<1>6. Recorded'
  <2>1. /\ traces[day'].succeeded \in Nat /\ CutOff \in Nat /\ lost[day'] \in Nat
    BY <1>1, LTypes
  <2>2. 0 <= traces[day'].succeeded + CutOff + lost[day']
    BY <2>1
  <2> QED
    BY <1>2, <1>3, <1>5, <2>2 DEF Recorded
<1>7. Ledgered'
  BY <1>4 DEF Ledgered
<1>8. Covered'
  BY <1>2, <1>4, <1>5 DEF Covered, LStep, LInv
<1>9. Overtaken'
  BY <1>2, <1>3, LTypes DEF Overtaken
<1>10. Days'
  BY <1>1, <1>2, <1>4, LTypes DEF Days, LStep, LInv
<1>11. Bounded'
  BY <1>2 DEF Bounded, LStep, LInv
<1> QED
  BY <1>6, <1>7, <1>8, <1>9, <1>10, <1>11 DEF LInv

LEMMA LRestart ==
  ASSUME LStep, Restart
  PROVE  LInv'
<1>1. /\ day' = day /\ spent' = spent /\ traces' = traces
      /\ ledger' = [day |-> NoDay, tokens |-> 0]
      /\ lost' = [lost EXCEPT ![day] = lost[day] + CutOff]
      /\ call' = [p \in Caller |-> Idle]
  BY DEF Restart, LStep
<1>2. InFlight' = {} /\ CutOff' = 0
  BY <1>1 DEF InFlight, Idle, LStep, CutOffKnown
<1>3. \A d \in Day : lost[d] <= lost'[d]
  <2> SUFFICES ASSUME NEW d \in Day PROVE lost[d] <= lost'[d]
    OBVIOUS
  <2>1. lost'[d] \in {lost[d], lost[d] + CutOff}
    BY <1>1 DEF LStep, TInv, TypeOK
  <2> QED
    BY <2>1, LTypes
<1>4. Recorded'
  <2>1. spent[day] <= traces[day].succeeded + CutOff + lost[day]
    BY DEF LStep, LInv, Recorded
  <2>2. lost'[day] = lost[day] + CutOff
    BY <1>1, LTypes DEF LStep, TInv, TypeOK
  <2>3. spent[day] <= traces[day].succeeded + 0 + (lost[day] + CutOff)
    BY <2>1, LTypes
  <2> QED
    BY <1>1, <1>2, <2>2, <2>3 DEF Recorded
<1>5. ledger'.day = NoDay /\ NoDay # day /\ NoDay <= day
  BY <1>1 DEF LStep, TInv, TypeOK, Day, NoDay
<1>6. Bounded'
  <2>1. ASSUME NEW d \in Day PROVE spent[d] <= DailyCap + PerJobCap + lost'[d]
    BY <1>3, LTypes DEF LStep, LInv, Bounded
  <2> QED
    BY <1>1, <2>1 DEF Bounded
<1>7. Days'
  BY <1>1, <1>5 DEF Days, LStep, LInv
<1> QED
  BY <1>1, <1>2, <1>4, <1>5, <1>6, <1>7 DEF LInv, Ledgered, Covered, Overtaken

LEMMA LNext ==
  /\ TInv /\ TInv' /\ LockInv /\ CutOffKnown /\ CutOffKnown' /\ LInv /\ [Next]_vars
  => LInv'
<1> SUFFICES ASSUME TInv, TInv', LockInv, CutOffKnown, CutOffKnown', LInv,
                    [Next]_vars, adapter' = "local"
             PROVE  LInv'
  BY DEF LInv
<1>0. adapter = "local"
  BY DEF Next, Complete, Refuse, Admit, Answer, ProviderFails, Finish, Midnight,
         Restart, vars
<1>1. LStep
  BY <1>0 DEF LStep
<1>2. ASSUME NEW p \in Caller, Complete(p) PROVE LInv'
  <2>1. ~ProviderFails(p)
    BY <1>0 DEF ProviderFails
  <2> QED
    BY <1>1, <1>2, <2>1, LRequest, LAnswer, LFinish DEF Complete
<1>3. CASE UNCHANGED vars
  <2>1. CutOff' = CutOff /\ InFlight' = InFlight
    BY <1>3 DEF vars, CutOff, InFlight
  <2> QED
    BY <1>0, <1>3, <2>1 DEF vars, LInv, Recorded, Ledgered, Covered, Overtaken, Days, Bounded
<1> QED
  BY <1>1, <1>2, <1>3, LMidnight, LRestart DEF Next

LEMMA LInit == Init => LockInv /\ LInv
<1> SUFFICES ASSUME Init, adapter = "local" PROVE LockInv /\ LInv
  BY DEF LockInv, LInv
<1>1. InFlight = {} /\ LockInv
  BY DEF Init, InFlight, Idle, LockInv
<1>2. CutOff = 0
  BY <1>1, TInit, CutOffFacts DEF CutOffKnown
<1>3. 1 \in Day /\ day = 1 /\ ledger.day = NoDay /\ NoDay # 1 /\ NoDay <= 1
  BY BoundsAssumption DEF Init, Day, NoDay
<1>4. \A d \in Day : spent[d] = 0 /\ lost[d] = 0 /\ traces[d].succeeded = 0
  BY DEF Init, NoTraces
<1>5. Recorded
  BY <1>2, <1>3, <1>4 DEF Recorded
<1>6. Bounded
  BY <1>4, CapsAssumption DEF Bounded
<1> QED
  BY <1>1, <1>3, <1>4, <1>5, <1>6 DEF LInv, Ledgered, Covered, Overtaken, Days

\* The live adapter keeps the daily cap, up to one call that midnight overtook
\* and what a failing store or a stop hid from it.
THEOREM LocalDailyCap == Spec => []LocalDailyBound
<1>1. LInv => LocalDailyBound
  BY DEF LInv, Bounded, LocalDailyBound
<1> QED
  BY <1>1, TInvariance, LInit, LockNext, CutOffFacts, LNext, PTL DEF Spec
=============================================================================
