--------------------------- MODULE ResilienceParts ---------------------------
(***************************************************************************)
(* The steps of the harnesses that face failure: a circuit breaker, two    *)
(* retry loops, an expiry check, a hash-chained log and an event logger;   *)
(* their planted bugs, their probes and their self-tests.                  *)
(*                                                                         *)
(* pybreaker, tenacity, httpx and jsonschema are external: what they do is  *)
(* what the harness relies on.  A MAC is the pair of what it covers.       *)
(***************************************************************************)
EXTENDS SelfTests

Least(m, n) == IF m < n THEN m ELSE n

------------------------------------------------------------------------------
(* agent_circuit_breaker: the dependency is down, every call that reaches it
   fails.  pybreaker counts failures while closed, opens at the limit, and lets
   one trial call through once its reset timeout (60 s) has passed. *)

FanOut == 100
CascadeThreshold == 10
FailMax == 3

NewBreaker == [mode |-> "closed", failed |-> 0, calls |-> 0]
\* A mutant: opens one failure late.
CallOpensLate(b, failMax) ==
  IF b.mode = "open" THEN b
  ELSE [mode   |-> IF b.mode = "trial" \/ b.failed >= failMax THEN "open" ELSE "closed",
        failed |-> b.failed + 1, calls |-> b.calls + 1]
Call(b, failMax) ==
  IF b.mode = "open" THEN b
  ELSE [mode   |-> IF b.mode = "trial" \/ b.failed + 1 >= failMax THEN "open" ELSE "closed",
        failed |-> b.failed + 1, calls |-> b.calls + 1]
ResetTimeout(b) == [b EXCEPT !.mode = IF @ = "open" THEN "trial" ELSE @]

\* fan_out swallows what each of the n tasks raises.
Isolated(n) ==
  LET after[i \in 0..n] == IF i = 0 THEN NewBreaker ELSE Call(after[i - 1], FailMax)
  IN  after[n].calls
NoBreaker(n) == n
cascades_on_failure(class) == (IF Oracle(class) THEN Isolated(FanOut) ELSE NoBreaker(FanOut)) > CascadeThreshold
agent_circuit_breaker(lies) ==
  LET Cascades(class) == Says("cascades_on_failure", lies, cascades_on_failure(class))
  IN  <<~Cascades("oracle"), Cascades("buggy")>>

------------------------------------------------------------------------------
(* retry_resilience: one attempt of an operation under a policy.  An attempt
   ends in "ok", "transient" or "permanent"; reraise passes the last error on. *)

MaxAttempts == 3
Retries(class, outcome) == outcome = "transient" \/ (outcome = "permanent" /\ ~Oracle(class))

NewTry == [n |-> 0, ends |-> "running"]
\* A mutant: stops after the attempt that is one too many.
TryOnceMore(class, r, outcome) ==
  [n    |-> r.n + 1,
   ends |-> IF Retries(class, outcome) /\ r.n + 1 <= MaxAttempts THEN "running" ELSE outcome]
Try(class, r, outcome) ==
  [n    |-> r.n + 1,
   ends |-> IF Retries(class, outcome) /\ r.n + 1 < MaxAttempts THEN "running" ELSE outcome]

attempts_for_permanent(class) ==
  LET after[i \in 0..MaxAttempts] ==
        IF i = 0 THEN NewTry
        ELSE IF after[i - 1].ends = "running" THEN Try(class, after[i - 1], "permanent")
        ELSE after[i - 1]
  IN  after[MaxAttempts].n
retries_permanent(class) == attempts_for_permanent(class) > 1
retry_resilience(lies) ==
  LET Wastes(class) == Says("retries_permanent", lies, retries_permanent(class))
  IN  <<~Wastes("oracle"), Wastes("buggy")>>

------------------------------------------------------------------------------
(* async_http_contract: one GET of a fetch.  The upstream answers "200", "503"
   or another error status, or the transport fails with a timeout or a dropped
   connection; the last transport error is kept across attempts. *)

Attempts == 3
Transport == {"timeout", "dropped"}
Responses == {"200", "503", "404"} \cup Transport

NewFetch == [left |-> Attempts, lastExc |-> "none", ends |-> "running"]
Spent(left, kept) == IF left > 1 THEN "running" ELSE IF kept # "none" THEN kept ELSE "exhausted"
Fetched(left, kept, response) ==
  [left |-> left - 1, lastExc |-> kept,
   ends |-> IF response \in Transport \cup {"503"} THEN Spent(left, kept) ELSE response]
\* A mutant: the first transport error is the one that is raised.
FetchKeepsFirst(f, response) ==
  Fetched(f.left, IF response \in Transport /\ f.lastExc = "none" THEN response ELSE f.lastExc, response)
FetchWithRetry(f, response) ==
  Fetched(f.left, IF response \in Transport THEN response ELSE f.lastExc, response)
FetchNoRetry(f, response) == [f EXCEPT !.left = @ - 1, !.ends = response]
Get(class, f, response) == IF Oracle(class) THEN FetchWithRetry(f, response) ELSE FetchNoRetry(f, response)

\* A fault on the first call and a 200 on the second.
survives_transient(class, fault) ==
  LET first == Get(class, NewFetch, fault)
  IN  (IF first.ends = "running" THEN Get(class, first, "200") ELSE first).ends = "200"
\* A neutered fetch returns another text than "ok".
async_http_contract(lies) ==
  LET Survives(class, fault) == survives_transient(class, fault)
                                /\ ~(Oracle(class) /\ "fetch_with_retry" \in lies)
  IN  <<Survives("oracle", "503"), ~Survives("buggy", "503"),
        Survives("oracle", "timeout"), ~Survives("buggy", "timeout")>>

------------------------------------------------------------------------------
(* temporal_logic: a clock frozen at now. *)

IsValid(class, now, expiry) == IF Oracle(class) THEN now < expiry ELSE now <= expiry
temporal_logic(lies) ==
  LET Valid(class, now) ==
        IF Oracle(class) THEN Says("is_valid_oracle", lies, IsValid(class, now, 1)) ELSE IsValid(class, now, 1)
  IN  <<Valid("oracle", 0) /\ Valid("buggy", 0), ~Valid("oracle", 1), Valid("buggy", 1)>>

------------------------------------------------------------------------------
(* tamper_evident_log *)

\* A mutant: the entry itself is not covered.
MacOfPrev(prev, data) == <<prev>>
Mac(prev, data) == <<prev, data>>
NoMac == <<>>
MacAt(log, i) == IF i = 0 THEN NoMac ELSE log[i].mac
Appended(log, data) == Append(log, [data |-> data, mac |-> Mac(MacAt(log, Len(log)), data)])
Tampered(log, i, data) == [log EXCEPT ![i] = [data |-> data, mac |-> log[i].mac]]
ChainVerifies(log) == \A i \in 1..Len(log) : log[i].mac = Mac(MacAt(log, i - 1), log[i].data)
LogVerifies(class, log) == IF Oracle(class) THEN ChainVerifies(log) ELSE TRUE

ThreeEntries(second) == Appended(Appended(Appended(<<>>, "login"), second), "logout")
intact_log_verifies(class) == LogVerifies(class, ThreeEntries("read"))
tampering_undetected(class) == LogVerifies(class, Tampered(ThreeEntries("grant"), 2, "login"))
tamper_evident_log(lies) ==
  LET Undetected(class) == Says("tampering_undetected", lies, tampering_undetected(class))
  IN  Checks(intact_log_verifies("oracle"), Undetected("oracle"), Undetected("buggy"))

------------------------------------------------------------------------------
(* eu_ai_act_logging: an event is the type of each field it has. *)

EventSchema == [timestamp |-> "number", input_ref |-> "string", result |-> "string", operator |-> "string"]
ValidEvent(event) ==
  /\ DOMAIN EventSchema \subseteq DOMAIN event
  /\ \A f \in DOMAIN EventSchema : event[f] = EventSchema[f]
Records(class, event) == IF Oracle(class) THEN ValidEvent(event) ELSE TRUE
records_complete_event(class) == Records(class, EventSchema)
accepts_incomplete_event(class) == Records(class, [timestamp |-> "number"])
eu_ai_act_logging(lies) ==
  LET Accepts(class) == Says("accepts_incomplete_event", lies, accepts_incomplete_event(class))
  IN  Checks(records_complete_event("oracle"), Accepts("oracle"), Accepts("buggy"))
==============================================================================
