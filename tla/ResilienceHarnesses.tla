------------------------- MODULE ResilienceHarnesses -------------------------
(***************************************************************************)
(* The oracles of the resilience harnesses, each driven by a world that    *)
(* fails in any order: tasks that reach a dead dependency while breaker    *)
(* timeouts pass, attempts of an operation and responses of an upstream    *)
(* that are good, bad or missing, entries of a log that are rewritten.     *)
(* The steps are ResilienceParts'.  Its names are its own, so that a module *)
(* that extends another state machine can extend this one too.             *)
(***************************************************************************)
EXTENDS ResilienceParts

CONSTANTS
  FailLimit,   \* fail_max of the breaker
  Data,        \* what log entries say
  MaxTasks,    \* bound: tasks fanned out
  MaxResets,   \* bound: reset timeouts that pass
  MaxEntries   \* bound: entries appended

ASSUME ResilienceAssumption ==
  /\ FailLimit \in Nat \ {0}
  /\ MaxTasks \in Nat /\ MaxResets \in Nat /\ MaxEntries \in Nat

VARIABLES
  subject,   \* the harness that is driven, or "none"
  breaker,   \* mode, failures and calls that reached the dependency
  tasks,     \* tasks fanned out so far
  resets,    \* history: reset timeouts that passed while the breaker was open
  try,       \* the retry loop
  outcomes,  \* history: what its attempts, or the fetch's, met
  fetch,     \* the fetch loop
  log,       \* _entries
  written    \* history: what was appended, as it was

resilienceVars == <<subject, breaker, tasks, resets, try, outcomes, fetch, log, written>>
breakerVars == <<breaker, tasks, resets>>
loopVars == <<try, outcomes, fetch>>
logVars == <<log, written>>

------------------------------------------------------------------------------
\* One more task of a fan_out; calls of fan_out on one orchestrator add up.
Task ==
  /\ subject = "breaker" /\ tasks < MaxTasks
  /\ tasks' = tasks + 1
  /\ breaker' = Call(breaker, FailLimit)
  /\ UNCHANGED <<subject, resets, loopVars, logVars>>

TimeoutPasses ==
  /\ subject = "breaker" /\ breaker.mode = "open" /\ resets < MaxResets
  /\ breaker' = ResetTimeout(breaker)
  /\ resets' = resets + 1
  /\ UNCHANGED <<subject, tasks, loopVars, logVars>>

Attempt(outcome) ==
  /\ subject = "retry" /\ try.ends = "running"
  /\ try' = Try("oracle", try, outcome)
  /\ outcomes' = Append(outcomes, outcome)
  /\ UNCHANGED <<subject, breakerVars, fetch, logVars>>

Request(response) ==
  /\ subject = "fetch" /\ fetch.ends = "running"
  /\ fetch' = FetchWithRetry(fetch, response)
  /\ outcomes' = Append(outcomes, response)
  /\ UNCHANGED <<subject, breakerVars, try, logVars>>

AppendEntry(data) ==
  /\ subject = "log" /\ Len(log) < MaxEntries
  /\ log' = Appended(log, data)
  /\ written' = Append(written, data)
  /\ UNCHANGED <<subject, breakerVars, loopVars>>

Tamper(i, data) ==
  /\ subject = "log"
  /\ log' = Tampered(log, i, data)
  /\ UNCHANGED <<subject, breakerVars, loopVars, written>>

Unused ==
  /\ breaker = NewBreaker /\ tasks = 0 /\ resets = 0
  /\ try = NewTry /\ outcomes = <<>> /\ fetch = NewFetch
  /\ log = <<>> /\ written = <<>>

ResilienceInit == Unused /\ subject \in {"breaker", "retry", "fetch", "log"}

ResilienceNext ==
  \/ Task \/ TimeoutPasses
  \/ \E outcome \in {"ok", "transient", "permanent"} : Attempt(outcome)
  \/ \E response \in Responses : Request(response)
  \/ \E data \in Data : AppendEntry(data) \/ \E i \in 1..Len(log) : Tamper(i, data)

ResilienceSpec == ResilienceInit /\ [][ResilienceNext]_resilienceVars
------------------------------------------------------------------------------
(* Properties *)

BreakerTypeOK ==
  /\ subject \in {"none", "breaker", "retry", "fetch", "log"}
  /\ breaker \in [mode : {"closed", "open", "trial"}, failed : Nat, calls : Nat]
  /\ tasks \in Nat /\ resets \in Nat

\* "after fail_max failures the breaker opens and further calls short-circuit"
\* (agent_circuit_breaker:17-18): however many tasks there are, the dead
\* dependency sees fail_max calls and one more for each timeout that passes, and
\* every task gets through before the breaker has opened.
Isolation ==
  /\ breaker.calls <= FailLimit + resets
  /\ breaker.calls >= Least(tasks, FailLimit)

\* What a retry loop may say at its end, from what its attempts met alone: all
\* but the last were worth another attempt, the last was not or was the last
\* allowed, and its own outcome is what the caller gets.
Worth(loop) == IF loop = "retry" THEN {"transient"} ELSE Transport \cup {"503"}
Stopped(ends) == ends # "running"
RetryStops ==
  subject = "retry" =>
    /\ \A i \in 1..(Len(outcomes) - 1) : outcomes[i] \in Worth("retry")
    /\ Stopped(try.ends) <=>
         outcomes # <<>> /\ (outcomes[Len(outcomes)] \notin Worth("retry") \/ Len(outcomes) = MaxAttempts)
    /\ Stopped(try.ends) => try.ends = outcomes[Len(outcomes)]

\* "retries on a 503 response and on transport errors ... returning the body
\* once the upstream recovers" (async_http_contract:11-13), over any sequence of
\* faults: it gives up only after three faults, and then with the latest
\* transport error, which need not be the latest fault.
LastTransport ==
  LET at == {i \in 1..Len(outcomes) : outcomes[i] \in Transport}
  IN  IF at = {} THEN "exhausted" ELSE outcomes[CHOOSE i \in at : \A j \in at : j <= i]
FetchStops ==
  subject = "fetch" =>
    /\ \A i \in 1..(Len(outcomes) - 1) : outcomes[i] \in Worth("fetch")
    /\ Stopped(fetch.ends) <=>
         outcomes # <<>> /\ (outcomes[Len(outcomes)] \notin Worth("fetch") \/ Len(outcomes) = Attempts)
    /\ Stopped(fetch.ends) =>
         fetch.ends = IF outcomes[Len(outcomes)] \in Worth("fetch") THEN LastTransport
                      ELSE outcomes[Len(outcomes)]

\* Neither loop gives up while another attempt could help and is left, makes one
\* too many, or hides what it met last.
LoopsStop == RetryStops /\ FetchStops

\* "any edit breaks the chain" (tamper_evident_log:64): the log verifies exactly
\* when every entry says what it said when it was written, whatever else was
\* appended or rewritten in between.
TamperShows == ChainVerifies(log) <=> \A i \in 1..Len(log) : log[i].data = written[i]
==============================================================================
