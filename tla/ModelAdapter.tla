---------------------------- MODULE ModelAdapter ----------------------------
(***************************************************************************)
(* The governed model adapters of the AI substrate: a day's token ledger,  *)
(* caps on a job and on the day, a circuit breaker, a trace of each call.  *)
(*                                                                         *)
(* LocalDeterministicModelAdapter ("local") holds its lock for the whole   *)
(* call and keeps its traces in job_traces, from which it seeds its ledger *)
(* after a restart.  HttpModelAdapter ("http") holds the lock to check and *)
(* to charge, not while the provider answers, and keeps traces in memory.  *)
(* Cost caps are left out: both adapters price a token at 0.               *)
(***************************************************************************)
EXTENDS Naturals, FiniteSets

CONSTANTS
  Caller,        \* threads that call complete
  Prompt,        \* input token counts of the requests
  MaxOutput,     \* max_output_tokens of the requests
  Reply,         \* output token counts a provider may return
  LocalText,     \* token count of the local adapter's text
  LargestCall,   \* no call uses more tokens than this
  PerJobCap, DailyCap,
  MaxDay,        \* bound: days modelled
  MaxRequests,   \* bound: requests made
  MaxRestarts    \* bound: restarts of the process

ASSUME CountsAssumption ==
  /\ Prompt \subseteq Nat \ {0} /\ MaxOutput \subseteq Nat \ {0}
  /\ Reply \subseteq Nat \ {0} /\ LocalText \in Nat \ {0}
ASSUME LargestCallAssumption ==
  LargestCall \in Nat /\ \A i \in Prompt, o \in Reply : i + o <= LargestCall
ASSUME CapsAssumption == PerJobCap \in Nat \ {0} /\ DailyCap \in Nat \ {0}
ASSUME BoundsAssumption ==
  MaxDay \in Nat \ {0} /\ MaxRequests \in Nat /\ MaxRestarts \in Nat
ASSUME CallerAssumption == IsFiniteSet(Caller)

VARIABLES
  adapter,    \* which adapter the process runs
  day,        \* today
  ledger,     \* _ledger_day (0: None) and _daily_tokens
  breaker,    \* CircuitBreaker.is_open
  call,       \* the call each caller is in
  traces,     \* tokens of the traces of each day, by status
  charged,    \* history: what each day's ledgers were charged
  spent,      \* history: tokens the calls answered on each day used
  lost,       \* history: tokens a failed store or a stop hid from the ledger
  requests, restarts

vars == <<adapter, day, ledger, breaker, call, traces, charged, spent, lost,
          requests, restarts>>

Day == 1 .. MaxDay
NoDay == 0

Idle == [stage |-> "idle", input |-> 0, most |-> 0, output |-> 0]
Call == [stage: {"admitted", "answered"}, input: Nat, most: Nat, output: Nat]
Total(c) == c.input + c.output

TypeOK ==
  /\ adapter \in {"local", "http"}
  /\ day \in Day
  /\ ledger \in [day: Day \cup {NoDay}, tokens: Nat]
  /\ breaker \in BOOLEAN
  /\ call \in [Caller -> Call \cup {Idle}]
  /\ traces \in [Day -> [succeeded: Nat, refused: Nat]]
  /\ charged \in [Day -> Nat]
  /\ spent \in [Day -> Nat]
  /\ lost \in [Day -> Nat]
  /\ requests \in 0 .. MaxRequests
  /\ restarts \in 0 .. MaxRestarts

NoTraces == [d \in Day |-> [succeeded |-> 0, refused |-> 0]]

Init ==
  /\ adapter \in {"local", "http"}
  /\ day = 1
  /\ ledger = [day |-> NoDay, tokens |-> 0]
  /\ breaker = FALSE
  /\ call = [p \in Caller |-> Idle]
  /\ traces = NoTraces
  /\ charged = [d \in Day |-> 0]
  /\ spent = [d \in Day |-> 0]
  /\ lost = [d \in Day |-> 0]
  /\ requests = 0
  /\ restarts = 0

-----------------------------------------------------------------------------
InFlight == {p \in Caller : call[p].stage # "idle"}

\* The local adapter's lock is held by the call in flight.
LockFree == adapter = "local" => InFlight = {}

\* Mutated form: nothing is read back after a restart.
NothingSeeded == 0

\* seed_daily_counters: the tokens of all of today's stored traces ...
Seed ==
  IF adapter = "local" THEN traces[day].succeeded + traces[day].refused ELSE 0

\* ... or, when the store cannot be read, zero.
Seeds == {Seed, 0}

\* _reset_ledger_if_needed.
Today(seeded) ==
  IF ledger.day = day THEN ledger
  ELSE [day |-> day, tokens |-> IF ledger.day = NoDay THEN seeded ELSE 0]

\* What a ledger that starts from less than the seed is not told of.
Unread(seeded) ==
  IF ledger.day = NoDay /\ seeded < Seed THEN traces[day].succeeded ELSE 0

Reset(seeded) ==
  /\ ledger' = Today(seeded)
  /\ lost' = [lost EXCEPT ![day] = @ + Unread(seeded)]

\* Mutated form: the day's tokens are not checked.
NeverOverDailyCap(input, most, seeded) == FALSE

OverJobCap(input, most) == input + most > PerJobCap
OverDailyCap(input, most, seeded) == Today(seeded).tokens + input + most > DailyCap

Refused(input, most, seeded) ==
  breaker \/ OverJobCap(input, most) \/ OverDailyCap(input, most, seeded)

\* Mutated form: a trace takes the place of the day's refused ones.
WithSucceededOnly(succeeded, refused) ==
  [traces EXCEPT ![day] = [succeeded |-> @.succeeded + succeeded]]

\* A trace is dated when it is made.
WithTrace(succeeded, refused) ==
  [traces EXCEPT ![day] = [succeeded |-> @.succeeded + succeeded,
                           refused |-> @.refused + refused]]

\* append: the local adapter's store swallows a failed write.
StoreFails == IF adapter = "local" THEN BOOLEAN ELSE {FALSE}

\* The breaker opens on the daily cap only.
Refuse(p, input, most, seeded) ==
  /\ call[p] = Idle /\ LockFree /\ requests < MaxRequests
  /\ Refused(input, most, seeded)
  /\ requests' = requests + 1
  /\ Reset(seeded)
  /\ breaker' = (breaker \/ ~OverJobCap(input, most))
  /\ \E failed \in StoreFails :
       traces' = IF failed THEN traces ELSE WithTrace(0, input)
  /\ UNCHANGED <<adapter, day, call, charged, spent, restarts>>

Admit(p, input, most, seeded) ==
  /\ call[p] = Idle /\ LockFree /\ requests < MaxRequests
  /\ ~Refused(input, most, seeded)
  /\ requests' = requests + 1
  /\ Reset(seeded)
  /\ call' = [call EXCEPT ![p] = [stage |-> "admitted", input |-> input,
                                  most |-> most, output |-> 0]]
  /\ UNCHANGED <<adapter, day, breaker, traces, charged, spent, restarts>>

\* The local text is cut at max_output_tokens; the provider is not even told.
Output(c) ==
  IF adapter = "local" THEN {IF LocalText < c.most THEN LocalText ELSE c.most}
  ELSE Reply

Answered(c, output) ==
  [stage |-> "answered", input |-> c.input, most |-> c.most, output |-> output]

Answer(p, output) ==
  /\ call[p].stage = "admitted"
  /\ call' = [call EXCEPT ![p] = Answered(@, output)]
  /\ spent' = [spent EXCEPT ![day] = @ + call[p].input + output]
  /\ UNCHANGED <<adapter, day, ledger, breaker, traces, charged, lost,
                 requests, restarts>>

\* The provider raises: complete raises RuntimeError, charging and tracing
\* nothing.
ProviderFails(p) ==
  /\ adapter = "http"
  /\ call[p].stage = "admitted"
  /\ call' = [call EXCEPT ![p] = Idle]
  /\ UNCHANGED <<adapter, day, ledger, breaker, traces, charged, spent, lost,
                 requests, restarts>>

\* Charge the ledger, whatever day it is of by now, and append the trace,
\* which is dated now.
Finish(p) ==
  LET total == Total(call[p]) IN
  /\ call[p].stage = "answered"
  /\ ledger' = [day |-> ledger.day, tokens |-> ledger.tokens + total]
  /\ charged' = [charged EXCEPT ![ledger.day] = @ + total]
  /\ \E failed \in StoreFails :
       /\ traces' = IF failed THEN traces ELSE WithTrace(total, 0)
       /\ lost' = IF failed THEN [lost EXCEPT ![day] = @ + total] ELSE lost
  /\ call' = [call EXCEPT ![p] = Idle]
  /\ UNCHANGED <<adapter, day, breaker, spent, requests, restarts>>

Midnight ==
  /\ day < MaxDay
  /\ day' = day + 1
  /\ UNCHANGED <<adapter, ledger, breaker, call, traces, charged, spent, lost,
                 requests, restarts>>

\* What the local call that the stop cuts off has used.
CutOff ==
  LET answered == {p \in Caller : call[p].stage = "answered"} IN
  IF adapter = "local" /\ answered # {} THEN Total(call[CHOOSE p \in answered : TRUE])
  ELSE 0

\* The process stops, wherever its calls are, and starts again.
Restart ==
  /\ restarts < MaxRestarts
  /\ restarts' = restarts + 1
  /\ ledger' = [day |-> NoDay, tokens |-> 0]
  /\ breaker' = FALSE
  /\ call' = [p \in Caller |-> Idle]
  /\ traces' = IF adapter = "local" THEN traces ELSE NoTraces
  /\ lost' = [lost EXCEPT ![day] = @ + CutOff]
  /\ UNCHANGED <<adapter, day, charged, spent, requests>>

-----------------------------------------------------------------------------
Complete(p) ==
  \/ \E input \in Prompt, most \in MaxOutput, seeded \in Seeds :
       Refuse(p, input, most, seeded) \/ Admit(p, input, most, seeded)
  \/ \E output \in Output(call[p]) : Answer(p, output)
  \/ ProviderFails(p)
  \/ Finish(p)

Next ==
  \/ \E p \in Caller : Complete(p)
  \/ Midnight
  \/ Restart

Spec == Init /\ [][Next]_vars

-----------------------------------------------------------------------------
\* The live adapter keeps the daily cap across restarts: what it uses in a
\* day exceeds the cap by at most one call, one that midnight overtook, and
\* by what its store lost.
LocalDailyBound ==
  adapter = "local" =>
    \A d \in Day : spent[d] <= DailyCap + PerJobCap + lost[d]

\* Callers that check the cap together and charge later overshoot it by at
\* most one call each, whatever midnight and the provider do.
HttpOvershootBounded ==
  adapter = "http" =>
    ledger.tokens <= DailyCap + Cardinality(Caller) * LargestCall
=============================================================================
