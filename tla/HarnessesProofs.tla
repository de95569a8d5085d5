--------------------------- MODULE HarnessesProofs ---------------------------
(***************************************************************************)
(* Theorems about the harnesses with a state of their own beside the        *)
(* credential verifiers: ResilienceHarnesses (any fail_max, any number of  *)
(* tasks and timeouts, any sequence of outcomes, any log), StoreHarnesses  *)
(* (any values, tests and lengths of life) and PolicyHarnesses (any        *)
(* accounts, prompts, candidates and texts).  Each property of    *)
(* the run is an invariant of the specification of its component.          *)
(***************************************************************************)
EXTENDS ResilienceHarnesses, StoreHarnesses, PolicyHarnesses, HarnessLane,
        FiniteSetTheorems, WellFoundedInduction, TLAPS

Outcomes == {"ok", "transient", "permanent"}

------------------------------------------------------------------------------
(* The inductive invariants: what each harness keeps between two steps. *)

\* The counter is the number of calls, and says in which mode the breaker is.
BreakerInv ==
  /\ BreakerTypeOK
  /\ breaker.failed = breaker.calls
  /\ breaker.mode = "closed" =>
       breaker.calls = tasks /\ breaker.calls < FailLimit /\ resets = 0
  /\ breaker.mode = "open"  => breaker.calls = FailLimit + resets
  /\ breaker.mode = "trial" => breaker.calls + 1 = FailLimit + resets /\ resets > 0

\* The loop counts its attempts, and runs while they are worth another.
RetryInv ==
  subject = "retry" =>
    /\ outcomes \in Seq(Outcomes) /\ Len(outcomes) <= MaxAttempts
    /\ try = [n |-> Len(outcomes), ends |-> try.ends]
    /\ \A i \in 1..(Len(outcomes) - 1) : outcomes[i] \in Worth("retry")
    /\ try.ends = "running" =>
         /\ Len(outcomes) < MaxAttempts
         /\ \A i \in 1..Len(outcomes) : outcomes[i] \in Worth("retry")
    /\ try.ends # "running" =>
         /\ outcomes # <<>> /\ try.ends = outcomes[Len(outcomes)]
         /\ outcomes[Len(outcomes)] \notin Worth("retry") \/ Len(outcomes) = MaxAttempts

\* Transport errors met, and the one kept.
Met(seq) == {i \in 1..Len(seq) : seq[i] \in Transport}
Kept(seq, kept) ==
  \/ Met(seq) = {} /\ kept = "none"
  \/ \E i \in Met(seq) : kept = seq[i] /\ \A j \in Met(seq) : j <= i

FetchInv ==
  subject = "fetch" =>
    /\ outcomes \in Seq(Responses) /\ Len(outcomes) <= Attempts
    /\ fetch = [left |-> Attempts - Len(outcomes), lastExc |-> fetch.lastExc, ends |-> fetch.ends]
    /\ Kept(outcomes, fetch.lastExc)
    /\ \A i \in 1..(Len(outcomes) - 1) : outcomes[i] \in Worth("fetch")
    /\ fetch.ends = "running" =>
         /\ Len(outcomes) < Attempts
         /\ \A i \in 1..Len(outcomes) : outcomes[i] \in Worth("fetch")
    /\ fetch.ends # "running" =>
         /\ outcomes # <<>>
         /\ outcomes[Len(outcomes)] \notin Worth("fetch") =>
              fetch.ends = outcomes[Len(outcomes)]
         /\ outcomes[Len(outcomes)] \in Worth("fetch") =>
              /\ Len(outcomes) = Attempts
              /\ fetch.ends = IF fetch.lastExc = "none" THEN "exhausted" ELSE fetch.lastExc

\* Whatever is done to its data, an entry's mac is the one it was appended with.
Entry(e) == e = [data |-> e.data, mac |-> e.mac]
LogInv ==
  /\ \E D : written \in Seq(D)
  /\ \E E : log \in Seq(E)
  /\ Len(log) = Len(written)
  /\ \A i \in 1..Len(log) : Entry(log[i]) /\ log[i].mac = Mac(MacAt(log, i - 1), written[i])

------------------------------------------------------------------------------
(* Sequences *)

LEMMA Appending ==
  ASSUME NEW S, NEW s \in Seq(S), NEW e
  PROVE  /\ Append(s, e) \in Seq(S \cup {e})
         /\ Len(Append(s, e)) = Len(s) + 1 /\ Len(s) \in Nat
         /\ \A i \in 1..Len(s) : Append(s, e)[i] = s[i]
         /\ Append(s, e)[Len(s) + 1] = e
<1>1. s \in Seq(S \cup {e})
  OBVIOUS
<1> QED
  BY <1>1

------------------------------------------------------------------------------
(* The breaker *)

LEMMA BreakerInit == ResilienceInit => BreakerInv
  BY ResilienceAssumption DEF ResilienceInit, Unused, BreakerInv, BreakerTypeOK, NewBreaker

LEMMA BreakerStep == BreakerInv /\ [ResilienceNext]_resilienceVars => BreakerInv'
<1> SUFFICES ASSUME BreakerInv, [ResilienceNext]_resilienceVars PROVE BreakerInv'
  OBVIOUS
<1>1. /\ breaker \in [mode : {"closed", "open", "trial"}, failed : Nat, calls : Nat]
      /\ tasks \in Nat /\ resets \in Nat
  BY DEF BreakerInv, BreakerTypeOK
<1>2. CASE Task
  <2>1. tasks' = tasks + 1 /\ breaker' = Call(breaker, FailLimit) /\ resets' = resets /\ subject' = subject
    BY <1>2 DEF Task
  <2>2. CASE breaker.mode = "open"
    BY <1>1, <2>1, <2>2 DEF BreakerInv, BreakerTypeOK, Call
  <2>3. CASE breaker.mode # "open"
    <3>1. breaker' = [mode   |-> IF breaker.mode = "trial" \/ breaker.failed + 1 >= FailLimit
                                 THEN "open" ELSE "closed",
                      failed |-> breaker.failed + 1, calls |-> breaker.calls + 1]
      BY <2>1, <2>3 DEF Call
    <3> QED
      BY <1>1, <2>1, <2>3, <3>1, ResilienceAssumption DEF BreakerInv, BreakerTypeOK
  <2> QED
    BY <2>2, <2>3
<1>3. CASE TimeoutPasses
  <2>1. breaker' = [breaker EXCEPT !.mode = "trial"] /\ resets' = resets + 1 /\ breaker.mode = "open"
    BY <1>1, <1>3 DEF TimeoutPasses, ResetTimeout
  <2> QED
    BY <1>1, <1>3, <2>1, ResilienceAssumption DEF BreakerInv, BreakerTypeOK, TimeoutPasses
<1>4. CASE UNCHANGED <<subject, breakerVars>>
  BY <1>4 DEF BreakerInv, BreakerTypeOK, breakerVars
<1> QED
  BY <1>2, <1>3, <1>4 DEF ResilienceNext, resilienceVars, Attempt, Request, AppendEntry, Tamper, breakerVars

\* For every value of the constants, the breaker and its counters have their types.
THEOREM TypeCorrect == ResilienceSpec => []BreakerTypeOK
<1>1. BreakerInv => BreakerTypeOK
  BY DEF BreakerInv
<1> QED
  BY <1>1, BreakerInit, BreakerStep, PTL DEF ResilienceSpec

\* A dead dependency sees fail_max calls and one more for each timeout that
\* passes, however many tasks are fanned out, and no fewer than it should.
THEOREM BreakerIsolates == ResilienceSpec => []Isolation
<1>1. BreakerInv => Isolation
  BY ResilienceAssumption DEF BreakerInv, BreakerTypeOK, Isolation, Least
<1> QED
  BY <1>1, BreakerInit, BreakerStep, PTL DEF ResilienceSpec

------------------------------------------------------------------------------
(* The retry loop *)

LEMMA RetryStep == RetryInv /\ [ResilienceNext]_resilienceVars => RetryInv'
<1> SUFFICES ASSUME RetryInv, [ResilienceNext]_resilienceVars PROVE RetryInv'
  OBVIOUS
<1>1. CASE \E outcome \in Outcomes : Attempt(outcome)
  <2> PICK outcome \in Outcomes : Attempt(outcome)
    BY <1>1
  <2>1. /\ subject = "retry" /\ subject' = "retry" /\ try.ends = "running"
        /\ outcomes' = Append(outcomes, outcome)
        /\ try' = Try("oracle", try, outcome)
    BY DEF Attempt
  <2>2. /\ outcomes \in Seq(Outcomes) /\ Len(outcomes) < MaxAttempts
        /\ try.n = Len(outcomes)
        /\ \A i \in 1..Len(outcomes) : outcomes[i] \in Worth("retry")
    BY <2>1 DEF RetryInv
  <2>3. /\ outcomes' \in Seq(Outcomes) /\ Len(outcomes') = Len(outcomes) + 1 /\ Len(outcomes) \in Nat
        /\ \A i \in 1..Len(outcomes) : outcomes'[i] = outcomes[i]
        /\ outcomes'[Len(outcomes')] = outcome
    BY <2>1, <2>2, Outcomes \cup {outcome} = Outcomes, Appending
  <2>4. try' = [n |-> Len(outcomes'),
                ends |-> IF outcome \in Worth("retry") /\ Len(outcomes') < MaxAttempts
                         THEN "running" ELSE outcome]
    BY <2>1, <2>2, <2>3 DEF Try, Retries, Worth, Oracle
  <2>5. \A i \in 1..(Len(outcomes') - 1) : outcomes'[i] \in Worth("retry")
    BY <2>2, <2>3
  <2>6. outcome # "running" /\ outcomes' # <<>>
    BY <2>3 DEF Outcomes
  <2> QED
    BY <2>1, <2>2, <2>3, <2>4, <2>5, <2>6 DEF RetryInv, MaxAttempts
<1>2. CASE UNCHANGED <<subject, try, outcomes>>
  BY <1>2 DEF RetryInv
<1>3. CASE subject' = subject /\ subject # "retry"
  BY <1>3 DEF RetryInv
<1> QED
  BY <1>1, <1>2, <1>3 DEF ResilienceNext, resilienceVars, Outcomes, Task, TimeoutPasses, Request, AppendEntry, Tamper, loopVars

\* Over any sequence of outcomes, the retry loop stops exactly when it should and
\* hands on the last outcome.
THEOREM RetryIsRight == ResilienceSpec => []RetryStops
<1>1. ResilienceInit => RetryInv
  BY DEF ResilienceInit, Unused, RetryInv, NewTry, MaxAttempts, Worth
<1>2. RetryInv => RetryStops
  BY DEF RetryInv, RetryStops, Stopped
<1> QED
  BY <1>1, <1>2, RetryStep, PTL DEF ResilienceSpec

------------------------------------------------------------------------------
(* The fetch loop *)

\* The error that is kept is that of the latest transport fault.
LEMMA KeptIsLast ==
  ASSUME outcomes \in Seq(Responses), NEW kept, Kept(outcomes, kept)
  PROVE  LastTransport = IF kept = "none" THEN "exhausted" ELSE kept
<1>1. CASE Met(outcomes) = {} /\ kept = "none"
  BY <1>1 DEF Met, LastTransport
<1>2. CASE \E i \in Met(outcomes) : kept = outcomes[i] /\ \A j \in Met(outcomes) : j <= i
  <2> PICK i \in Met(outcomes) : kept = outcomes[i] /\ \A j \in Met(outcomes) : j <= i
    BY <1>2
  <2>1. Met(outcomes) \subseteq Int
    BY DEF Met
  <2>2. \A l \in Met(outcomes) : (\A j \in Met(outcomes) : j <= l) => l = i
    BY <2>1
  <2>3. (CHOOSE l \in Met(outcomes) : \A j \in Met(outcomes) : j <= l) = i
    BY <2>2
  <2>4. LastTransport = outcomes[i]
    BY <2>3 DEF LastTransport, Met
  <2>5. kept # "none"
    BY DEF Met, Transport
  <2> QED
    BY <2>4, <2>5
<1> QED
  BY <1>1, <1>2 DEF Kept

LEMMA KeptMoves ==
  ASSUME NEW seq \in Seq(Responses), NEW next \in Seq(Responses), NEW response, NEW kept,
         Kept(seq, kept), Len(next) = Len(seq) + 1,
         \A i \in 1..Len(seq) : next[i] = seq[i], next[Len(next)] = response
  PROVE  Kept(next, IF response \in Transport THEN response ELSE kept)
<1>1. Len(seq) \in Nat /\ Met(seq) \subseteq 1..Len(seq)
  BY DEF Met
<1>2. CASE response \in Transport
  <2>1. Len(next) \in Met(next) /\ \A j \in Met(next) : j <= Len(next)
    BY <1>1, <1>2 DEF Met
  <2> QED
    BY <1>2, <2>1 DEF Kept
<1>3. CASE response \notin Transport
  <2>1. Met(next) = Met(seq)
    BY <1>1, <1>3 DEF Met
  <2>2. \A i \in Met(seq) : next[i] = seq[i]
    BY <1>1
  <2> QED
    BY <1>3, <2>1, <2>2 DEF Kept
<1> QED
  BY <1>2, <1>3

LEMMA FetchStep == FetchInv /\ [ResilienceNext]_resilienceVars => FetchInv'
<1> SUFFICES ASSUME FetchInv, [ResilienceNext]_resilienceVars PROVE FetchInv'
  OBVIOUS
<1>1. CASE \E response \in Responses : Request(response)
  <2> PICK response \in Responses : Request(response)
    BY <1>1
  <2> DEFINE kept == IF response \in Transport THEN response ELSE fetch.lastExc
  <2>1. /\ subject = "fetch" /\ subject' = "fetch" /\ fetch.ends = "running"
        /\ outcomes' = Append(outcomes, response)
        /\ fetch' = Fetched(fetch.left, kept, response)
    BY DEF Request, FetchWithRetry
  <2>2. /\ outcomes \in Seq(Responses) /\ Len(outcomes) < Attempts
        /\ fetch.left = Attempts - Len(outcomes) /\ Kept(outcomes, fetch.lastExc)
        /\ \A i \in 1..Len(outcomes) : outcomes[i] \in Worth("fetch")
    BY <2>1 DEF FetchInv
  <2>3. /\ outcomes' \in Seq(Responses) /\ Len(outcomes') = Len(outcomes) + 1 /\ Len(outcomes) \in Nat
        /\ \A i \in 1..Len(outcomes) : outcomes'[i] = outcomes[i]
        /\ outcomes'[Len(outcomes')] = response
    BY <2>1, <2>2, Responses \cup {response} = Responses, Appending
  <2>4. Kept(outcomes', kept)
    BY <2>2, <2>3, KeptMoves
  <2>5. fetch' = [left |-> Attempts - Len(outcomes'), lastExc |-> kept,
                  ends |-> IF response \in Worth("fetch")
                           THEN IF Len(outcomes') < Attempts THEN "running"
                                ELSE IF kept = "none" THEN "exhausted" ELSE kept
                           ELSE response]
    BY <2>1, <2>2, <2>3 DEF Fetched, Spent, Worth, Attempts
  <2>6. \A i \in 1..(Len(outcomes') - 1) : outcomes'[i] \in Worth("fetch")
    BY <2>2, <2>3
  <2>7. response # "running" /\ kept # "running" /\ outcomes' # <<>>
    BY <2>2, <2>3 DEF Responses, Transport, Kept, Met
  <2>8. Len(outcomes') <= Attempts
    BY <2>2, <2>3 DEF Attempts
  <2> HIDE DEF kept
  <2>9. CASE fetch'.ends = "running"
    BY <2>1, <2>2, <2>3, <2>4, <2>5, <2>6, <2>7, <2>8, <2>9 DEF FetchInv
  <2>10. CASE fetch'.ends # "running"
    <3>1. response \in Worth("fetch") => Len(outcomes') = Attempts
      BY <2>2, <2>3, <2>5, <2>10 DEF Attempts
    <3> QED
      BY <2>1, <2>2, <2>3, <2>4, <2>5, <2>6, <2>7, <2>8, <2>10, <3>1 DEF FetchInv
  <2> QED
    BY <2>9, <2>10
<1>2. CASE UNCHANGED <<subject, fetch, outcomes>>
  BY <1>2 DEF FetchInv
<1>3. CASE subject' = subject /\ subject # "fetch"
  BY <1>3 DEF FetchInv
<1> QED
  BY <1>1, <1>2, <1>3 DEF ResilienceNext, resilienceVars, Task, TimeoutPasses, Attempt, AppendEntry, Tamper, loopVars

\* Over any sequence of responses, the fetch ends as it should: at the first
\* answer that is not worth a retry, or spent, with the latest transport error.
THEOREM FetchIsRight == ResilienceSpec => []FetchStops
<1>1. ResilienceInit => FetchInv
  BY DEF ResilienceInit, Unused, FetchInv, NewFetch, Attempts, Kept, Met, Worth
<1>2. FetchInv => FetchStops
  <2> SUFFICES ASSUME FetchInv, subject = "fetch" PROVE FetchStops
    BY DEF FetchStops
  <2>1. outcomes \in Seq(Responses) /\ Kept(outcomes, fetch.lastExc)
    BY DEF FetchInv
  <2>2. LastTransport = IF fetch.lastExc = "none" THEN "exhausted" ELSE fetch.lastExc
    BY <2>1, KeptIsLast
  <2> QED
    BY <2>1, <2>2 DEF FetchInv, FetchStops, Stopped
<1> QED
  BY <1>1, <1>2, FetchStep, PTL DEF ResilienceSpec

\* LoopsStop: the retry loop and the fetch, together, whatever they meet.
THEOREM LoopsAreRight == ResilienceSpec => []LoopsStop
  BY RetryIsRight, FetchIsRight, PTL DEF LoopsStop

------------------------------------------------------------------------------
(* The log *)

LEMMA LogStep == LogInv /\ [ResilienceNext]_resilienceVars => LogInv'
<1> SUFFICES ASSUME LogInv, [ResilienceNext]_resilienceVars PROVE LogInv'
  OBVIOUS
<1> PICK D : written \in Seq(D)
  BY DEF LogInv
<1> PICK E : log \in Seq(E)
  BY DEF LogInv
<1>0. /\ Len(log) = Len(written) /\ Len(log) \in Nat
      /\ \A i \in 1..Len(log) : Entry(log[i]) /\ log[i].mac = Mac(MacAt(log, i - 1), written[i])
  BY DEF LogInv
<1>1. CASE \E data \in Data : AppendEntry(data)
  <2> PICK data \in Data : AppendEntry(data)
    BY <1>1
  <2> DEFINE entry == [data |-> data, mac |-> Mac(MacAt(log, Len(log)), data)]
  <2>1. log' = Append(log, entry) /\ written' = Append(written, data)
    BY DEF AppendEntry, Appended
  <2> HIDE DEF entry
  <2>2. /\ log' \in Seq(E \cup {entry}) /\ Len(log') = Len(log) + 1
        /\ \A i \in 1..Len(log) : log'[i] = log[i]
        /\ log'[Len(log) + 1] = entry
    BY <2>1, Appending
  <2>3. /\ written' \in Seq(D \cup {data}) /\ Len(written') = Len(written) + 1
        /\ \A i \in 1..Len(written) : written'[i] = written[i]
        /\ written'[Len(written) + 1] = data
    BY <2>1, Appending
  <2>4. \A i \in 0..Len(log) : MacAt(log', i) = MacAt(log, i)
    BY <1>0, <2>2 DEF MacAt
  <2>5. \A i \in 1..Len(log') : Entry(log'[i]) /\ log'[i].mac = Mac(MacAt(log', i - 1), written'[i])
    <3> TAKE i \in 1..Len(log')
    <3>1. CASE i \in 1..Len(log)
      <4>1. MacAt(log', i - 1) = MacAt(log, i - 1) /\ log'[i] = log[i] /\ written'[i] = written[i]
        BY <1>0, <2>2, <2>3, <2>4, <3>1
      <4> QED
        BY <1>0, <3>1, <4>1
    <3>2. CASE i = Len(log) + 1
      <4>1. MacAt(log', i - 1) = MacAt(log, Len(log)) /\ log'[i] = entry /\ written'[i] = data
        BY <1>0, <2>2, <2>3, <2>4, <3>2
      <4> QED
        BY <4>1 DEF entry, Entry
    <3> QED
      BY <1>0, <2>2, <3>1, <3>2
  <2> QED
    BY <1>0, <2>2, <2>3, <2>5 DEF LogInv
<1>2. CASE \E i \in 1..Len(log), data \in Data : Tamper(i, data)
  <2> PICK i \in 1..Len(log), data \in Data : Tamper(i, data)
    BY <1>2
  <2> DEFINE entry == [data |-> data, mac |-> log[i].mac]
  <2>1. log' = [log EXCEPT ![i] = entry] /\ written' = written
    BY DEF Tamper, Tampered
  <2>2. entry = [data |-> data, mac |-> log[i].mac]
    OBVIOUS
  <2> HIDE DEF entry
  <2>3. /\ log' \in Seq(E \cup {entry}) /\ Len(log') = Len(log)
        /\ \A j \in 1..Len(log) : log'[j] = IF j = i THEN entry ELSE log[j]
    <3> DEFINE after == [log EXCEPT ![i] = entry]
    <3>1. log \in Seq(E \cup {entry}) /\ entry \in E \cup {entry} /\ i \in 1..Len(log)
      OBVIOUS
    <3>2. after \in Seq(E \cup {entry}) /\ Len(after) = Len(log)
      BY <3>1
    <3>3. \A j \in 1..Len(log) : after[j] = IF j = i THEN entry ELSE log[j]
      BY <3>1
    <3>4. log' = after
      BY <2>1
    <3> HIDE DEF after
    <3> QED
      BY <3>2, <3>3, <3>4
  <2>4. \A j \in 1..Len(log) : Entry(log'[j]) /\ log'[j].mac = log[j].mac
    <3>1. Entry(entry) /\ entry.mac = log[i].mac
      BY <2>2 DEF Entry
    <3>2. \A j \in 1..Len(log) : Entry(log[j])
      BY <1>0
    <3> QED
      BY <2>3, <3>1, <3>2
  <2>5. \A j \in 0..Len(log) : MacAt(log', j) = MacAt(log, j)
    BY <1>0, <2>3, <2>4 DEF MacAt
  <2>6. \A j \in 1..Len(log) : MacAt(log', j - 1) = MacAt(log, j - 1)
    BY <1>0, <2>5
  <2> QED
    BY <1>0, <2>1, <2>3, <2>4, <2>6 DEF LogInv
<1>3. CASE UNCHANGED logVars
  BY <1>3 DEF LogInv, logVars, MacAt
<1> QED
  BY <1>1, <1>2, <1>3 DEF ResilienceNext, resilienceVars, logVars, Task, TimeoutPasses, Attempt, Request

\* Any log, appended to and rewritten in any order, verifies exactly when it says
\* what was written.
THEOREM LogTellsTampering == ResilienceSpec => []TamperShows
<1>1. ResilienceInit => LogInv
  BY DEF ResilienceInit, Unused, LogInv
<1>2. LogInv => TamperShows
  <2> SUFFICES ASSUME LogInv
               PROVE  \A i \in 1..Len(log) :
                        log[i].mac = Mac(MacAt(log, i - 1), log[i].data) <=> log[i].data = written[i]
    BY DEF TamperShows, ChainVerifies
  <2> QED
    BY DEF LogInv, Mac
<1> QED
  BY <1>1, <1>2, LogStep, PTL DEF ResilienceSpec

------------------------------------------------------------------------------
(* The stores *)

LEMMA EmptyContents == Contents(<<>>) /\ Len(<<>>) = 0 /\ \A i \in DOMAIN <<>> : FALSE
<1>1. DOMAIN <<>> = {} /\ <<>> \in Seq(Rows) /\ Len(<<>>) = 0
  OBVIOUS
<1>2. <<>> \in [DOMAIN <<>> -> Rows]
  BY <1>1
<1> QED
  BY <1>1, <1>2 DEF Contents

LEMMA AppendFacts ==
  ASSUME NEW S, NEW s \in Seq(S), NEW e \in S
  PROVE  /\ Append(s, e) \in Seq(S)
         /\ DOMAIN Append(s, e) = DOMAIN s \cup {Len(s) + 1}
         /\ Len(s) + 1 \notin DOMAIN s
         /\ Append(s, e)[Len(s) + 1] = e
         /\ \A i \in DOMAIN s : Append(s, e)[i] = s[i]
  OBVIOUS

LEMMA RowType ==
  ASSUME StoreTypeOK, NEW v \in Values, NEW left \in Int, NEW shown \in BOOLEAN
  PROVE  /\ Row(v, left, shown) \in Rows
         /\ Row(v, left, shown).v = v /\ Row(v, left, shown).by = test
         /\ Row(v, left, shown).left = left /\ Row(v, left, shown).shown = shown
  BY StoreAssumption DEF StoreTypeOK, Row, Rows

\* What is under its key after a write.
LEMMA UnderContents ==
  ASSUME service \in Keyed, NEW held, Contents(held), NEW v \in Values, NEW row \in Rows
  PROVE  Contents(Under(held, v, row))
<1>1. held \in [DOMAIN held -> Rows] /\ DOMAIN held \subseteq Values
  BY DEF Contents
<1>2. DOMAIN Under(held, v, row) = DOMAIN held \cup {v}
  BY DEF Under
<1>3. Under(held, v, row) \in [DOMAIN held \cup {v} -> Rows]
  BY <1>1 DEF Under
<1> QED
  BY <1>1, <1>2, <1>3 DEF Contents

\* A write, or the passing of time, in a test that runs.
LEMMA WriteKeeps ==
  ASSUME StoreInv, phase \in {"ready", "reading"}, phase' \in {phase, "aborted"},
         UNCHANGED <<service, class, test, schema, reader>>, service # "chaos",
         Contents(rows'), Contents(mine'), DOMAIN answer' = {"got", "due"},
         \A i \in DOMAIN rows' : rows'[i].by = test,
         OracleRuns => Faithful', OracleServes',
         service = "kafka" => ReadsArePrefixes'
  PROVE  StoreInv'
<1>1. /\ StoreTypeOK /\ FreshStart /\ OracleServes /\ ReadsArePrefixes
      /\ CleanSlate /\ OwnWrites /\ ReaderFollows
  BY DEF StoreInv
<1>2. StoreTypeOK'
  BY <1>1 DEF StoreTypeOK, Contents
<1>3. FreshStart' /\ CleanSlate' /\ OwnWrites'
  BY <1>1 DEF FreshStart, CleanSlate, OwnWrites, OracleRuns
<1>4. ReaderFollows'
  BY <1>1 DEF ReaderFollows, OracleRuns
<1>5. ReadsArePrefixes'
  <2>1. CASE service # "kafka"
    <3>1. reader.out = <<>>
      BY <1>1, <2>1 DEF ReaderFollows
    <3> QED
      BY <1>1, <3>1, EmptyContents DEF ReadsArePrefixes, NoStop
  <2> QED
    BY <2>1
<1> QED
  BY <1>2, <1>3, <1>4, <1>5 DEF StoreInv

\* A read that answers the oracle's test as it is due.
LEMMA ReadKeeps ==
  ASSUME StoreInv, Reads, DOMAIN answer' = {"got", "due"}, OracleServes'
  PROVE  StoreInv'
  BY DEF Reads, StoreInv, StoreTypeOK, Contents, FreshStart, ReadsArePrefixes, EachOnce,
         CleanSlate, OwnWrites, Faithful, ReaderFollows, OracleRuns

LEMMA AnswersFacts ==
  ASSUME NEW got, NEW due, Answers(got, due)
  PROVE  DOMAIN answer' = {"got", "due"} /\ answer'.got = got /\ answer'.due = due
  BY DEF Answers

\* What every test starts with.
LEMMA StartKeeps ==
  ASSUME StoreInv, NEW c \in {"oracle", "buggy"}, StartTest(c), phase' # "reading",
         Contents(rows'), phase' \in {"setup", "ready", "aborted"}, schema' \in {schema, "none", c}
  PROVE  /\ StoreTypeOK' /\ OracleServes' /\ ReaderFollows' /\ ReadsArePrefixes'
         /\ service' = service /\ class' = c /\ mine' = <<>> /\ test' = test + 1
<1>1. /\ StoreTypeOK /\ service' = service /\ phase = "between" /\ test \in Nat /\ test < MaxTests
      /\ mine' = <<>> /\ reader' = NoReader /\ class' = c /\ test' = test + 1 /\ Answers({}, {})
  BY DEF StoreInv, StoreTypeOK, StartTest
<1>2. DOMAIN answer' = {"got", "due"} /\ answer'.got = {} /\ answer'.due = {}
  BY <1>1, AnswersFacts
<1>3. reader' \in [at : Nat, stop : Nat, out : Seq(Values)] /\ reader'.at = 0 /\ reader'.out = <<>>
      /\ reader'.stop = 0
  BY <1>1 DEF NoReader, NoStop
<1>4. StoreTypeOK'
  <2>1. Contents(rows)' /\ Contents(mine)'
    BY <1>1, EmptyContents DEF Contents
  <2>2. schema' \in {"none", "oracle", "buggy"}
    BY <1>1 DEF StoreTypeOK
  <2> QED
    BY <1>1, <1>2, <1>3, <2>1, <2>2, StoreAssumption DEF StoreTypeOK
<1>5. OracleServes'
  <2>1. Cardinality({}) = 0 /\ PageOf(0) = 0
    BY FS_EmptySet, StoreAssumption DEF PageOf
  <2> QED
    BY <1>2, <2>1 DEF OracleServes
<1>6. ReaderFollows'
  BY <1>3 DEF ReaderFollows
<1>7. ReadsArePrefixes'
  BY <1>3, EmptyContents DEF ReadsArePrefixes, NoStop
<1> QED
  BY <1>1, <1>4, <1>5, <1>6, <1>7

\* A test begins.
LEMMA SetupKeeps ==
  ASSUME StoreInv, NEW c \in {"oracle", "buggy"}, Setup(c)
  PROVE  StoreInv'
<1>1. /\ StoreTypeOK /\ CleanSlate /\ StartTest(c) /\ phase = "between"
      /\ service \in Services \ {"chaos"}
      /\ phase' = IF service \in HasSchema THEN "setup" ELSE "ready"
  BY DEF StoreInv, StoreTypeOK, Setup, StartTest
<1>2. IF service \in Cleared THEN rows' = <<>> /\ schema' = "none" ELSE rows' = rows /\ schema' = schema
  BY DEF Setup
<1>3. Contents(rows')
  <2>1. service' = service
    BY <1>1 DEF StartTest
  <2> QED
    BY <1>1, <1>2, <2>1, EmptyContents DEF StoreTypeOK, Contents
<1>4. /\ StoreTypeOK' /\ OracleServes' /\ ReaderFollows' /\ ReadsArePrefixes'
      /\ service' = service /\ class' = c /\ mine' = <<>> /\ test' = test + 1
  BY <1>1, <1>2, <1>3, StartKeeps
<1>5. service \in {"postgres", "mongo"} \/ service \notin HasSchema => rows' = <<>> /\ schema' = "none"
  BY <1>1, <1>2 DEF CleanSlate, Services, Cleared, HasSchema
<1>6. FreshStart' /\ OwnWrites' /\ CleanSlate'
  BY <1>1, <1>4, <1>5, EmptyContents DEF FreshStart, OwnWrites, CleanSlate, HasSchema, OracleRuns, Faithful
<1> QED
  BY <1>4, <1>6 DEF StoreInv

LEMMA SetupProxyKeeps ==
  ASSUME StoreInv, NEW c \in {"oracle", "buggy"}, SetupProxy(c)
  PROVE  StoreInv'
<1>1. /\ StoreTypeOK /\ StartTest(c) /\ service = "chaos" /\ rows' = rows
      /\ phase' = IF schema = "none" THEN "ready" ELSE "aborted"
      /\ schema' = IF schema = "none" THEN c ELSE schema
  BY DEF StoreInv, SetupProxy
<1>2. Contents(rows')
  <2>1. service' = service
    BY <1>1 DEF StartTest
  <2> QED
    BY <1>1, <2>1 DEF StoreTypeOK, Contents
<1>3. /\ StoreTypeOK' /\ OracleServes' /\ ReaderFollows' /\ ReadsArePrefixes'
      /\ service' = service /\ class' = c /\ mine' = <<>>
  BY <1>1, <1>2, StartKeeps
<1>4. FreshStart' /\ OwnWrites' /\ CleanSlate'
  BY <1>1, <1>3, EmptyContents DEF FreshStart, OwnWrites, CleanSlate, HasSchema, OracleRuns, Faithful
<1> QED
  BY <1>3, <1>4 DEF StoreInv

\* A test ends, with or without its clean-up.
LEMMA TeardownKeeps ==
  ASSUME StoreInv, NEW done \in BOOLEAN, Teardown(done)
  PROVE  StoreInv'
<1>1. /\ StoreTypeOK /\ OracleServes /\ ReadsArePrefixes /\ CleanSlate /\ ReaderFollows
  BY DEF StoreInv
<1>2. phase' = "between" /\ UNCHANGED <<service, class, test, reader, mine, answer>>
  BY DEF Teardown
<1>3. /\ rows' = <<>> \/ rows' = rows
      /\ schema' = "none" \/ schema' = schema
      /\ service = "postgres" => rows' = <<>> /\ schema' = "none"
  BY DEF Teardown
<1>4. StoreTypeOK'
  BY <1>1, <1>2, <1>3, EmptyContents DEF StoreTypeOK, Contents
<1>5. FreshStart' /\ OwnWrites' /\ CleanSlate' /\ OracleServes' /\ ReadsArePrefixes' /\ ReaderFollows'
  BY <1>1, <1>2, <1>3 DEF FreshStart, OwnWrites, CleanSlate, OracleServes, ReadsArePrefixes, ReaderFollows,
                          OracleRuns
<1> QED
  BY <1>4, <1>5 DEF StoreInv

\* The tables, the index or the database that a test needs are made on a clean slate.
LEMMA EnsureSchemaKeeps ==
  ASSUME StoreInv, EnsureSchema
  PROVE  StoreInv'
<1>1. /\ StoreTypeOK /\ OracleServes /\ ReadsArePrefixes /\ CleanSlate /\ ReaderFollows
  BY DEF StoreInv
<1>2. /\ phase = "setup" /\ UNCHANGED <<service, class, test, reader, mine, answer>>
      /\ rows' = IF service = "mysql" THEN <<>> ELSE rows
  BY DEF EnsureSchema
<1>3. /\ mine = <<>> /\ service \in HasSchema
      /\ service \in {"postgres", "mongo"} => rows = <<>> /\ schema = "none"
  BY <1>1, <1>2 DEF CleanSlate
<1>4. rows' = <<>>
  BY <1>2, <1>3 DEF HasSchema
<1>5. /\ phase' = "ready"
      /\ schema' = IF service = "mongo" /\ ~OracleRuns THEN schema ELSE class
  <2>1. service = "mongo" => ~\E i, j \in DOMAIN rows : i # j /\ rows[i].v = rows[j].v
    BY <1>3, EmptyContents
  <2> QED
    BY <1>3, <2>1 DEF EnsureSchema
<1>6. StoreTypeOK'
  BY <1>1, <1>2, <1>4, <1>5, EmptyContents DEF StoreTypeOK, Contents
<1>7. FreshStart' /\ OwnWrites' /\ CleanSlate'
  BY <1>1, <1>2, <1>3, <1>4, <1>5, EmptyContents
  DEF FreshStart, OwnWrites, CleanSlate, OracleRuns, HasSchema, StoreTypeOK, Faithful
<1>8. OracleServes' /\ ReaderFollows'
  BY <1>1, <1>2, <1>5 DEF OracleServes, ReaderFollows, OracleRuns
<1>9. ReadsArePrefixes'
  <2>1. reader.out = <<>> /\ reader.stop \in Nat
    BY <1>1, <1>3 DEF ReaderFollows, HasSchema, StoreTypeOK
  <2> QED
    BY <1>2, <2>1, EmptyContents DEF ReadsArePrefixes, NoStop
<1> QED
  BY <1>6, <1>7, <1>8, <1>9 DEF StoreInv

LEMMA TickFacts ==
  ASSUME service \in Keyed, NEW held, Contents(held)
  PROVE  /\ Contents(Older(held)) /\ DOMAIN Older(held) \subseteq DOMAIN held
         /\ \A k \in DOMAIN Older(held) :
              Older(held)[k].by = held[k].by /\ Older(held)[k].shown = held[k].shown
<1>1. held \in [DOMAIN held -> Rows] /\ DOMAIN held \subseteq Values
  BY DEF Contents
<1> DEFINE Left == {k \in DOMAIN held : held[k].left # 1}
           Aged(r) == [r EXCEPT !.left = IF @ > 0 THEN @ - 1 ELSE @]
<1>2. \A r \in Rows : Aged(r) \in Rows /\ Aged(r).by = r.by /\ Aged(r).shown = r.shown
  BY DEF Rows
<1>3. Older(held) = [k \in Left |-> Aged(held[k])]
  BY DEF Older
<1> HIDE DEF Aged
<1>4. Older(held) \in [Left -> Rows] /\ DOMAIN Older(held) = Left
  BY <1>1, <1>2, <1>3
<1> QED
  BY <1>1, <1>2, <1>3, <1>4 DEF Contents

\* What a test that runs may rely on.
LEMMA Running ==
  ASSUME StoreInv, phase \in {"ready", "reading"}, service \notin {"kafka", "chaos"}
  PROVE  /\ StoreTypeOK /\ \A i \in DOMAIN rows : rows[i].by = test
         /\ schema = IF service \in HasSchema /\ (service = "mongo" => OracleRuns) THEN class ELSE "none"
         /\ OracleRuns => rows = mine /\ \A i \in DOMAIN rows : rows[i].shown
  BY DEF StoreInv, FreshStart, OwnWrites, Faithful

\* A write that is appended.
LEMMA KeepsKeeps ==
  ASSUME StoreInv, phase \in {"ready", "reading"}, phase' \in {phase, "aborted"},
         service \in HasSchema, NEW ok \in BOOLEAN, NEW due \in BOOLEAN, NEW v \in Values, OracleRuns => ok = due,
         Keeps(ok, due, Row(v, Never, TRUE))
  PROVE  StoreInv'
<1> DEFINE row == Row(v, Never, TRUE)
<1>0. service \notin Keyed \cup {"kafka", "chaos", "elasticsearch"}
  BY DEF HasSchema, Keyed
<1>1. /\ StoreTypeOK /\ \A i \in DOMAIN rows : rows[i].by = test
      /\ OracleRuns => rows = mine /\ \A i \in DOMAIN rows : rows[i].shown
  BY <1>0, Running
<1>2. row \in Rows /\ row.by = test /\ row.shown = TRUE
  <2>1. Never \in Int /\ TRUE \in BOOLEAN
    BY DEF Never
  <2> QED
    BY <1>1, <2>1, RowType
<1>3. rows \in Seq(Rows) /\ mine \in Seq(Rows)
  BY <1>0, <1>1 DEF StoreTypeOK, Contents
<1>4. /\ rows' = IF ok THEN Append(rows, row) ELSE rows
      /\ mine' = IF due THEN Append(mine, row) ELSE mine
      /\ Answers(ok, due) /\ UNCHANGED <<service, class, test, schema, reader>>
  BY DEF Keeps
<1> HIDE DEF row
<1>5. rows' \in Seq(Rows) /\ mine' \in Seq(Rows)
  BY <1>2, <1>3, <1>4, AppendFacts
<1>6. Contents(rows') /\ Contents(mine')
  BY <1>0, <1>4, <1>5 DEF Contents
<1>7. \A i \in DOMAIN rows' : rows'[i] = row \/ (i \in DOMAIN rows /\ rows'[i] = rows[i])
  BY <1>2, <1>3, <1>4, AppendFacts
<1>8. \A i \in DOMAIN rows' : rows'[i].by = test
  BY <1>1, <1>2, <1>7
<1>9. OracleRuns => Faithful'
  BY <1>0, <1>1, <1>2, <1>4, <1>7 DEF Faithful
<1>10. DOMAIN answer' = {"got", "due"} /\ OracleServes'
  <2>1. DOMAIN answer' = {"got", "due"} /\ answer'.got = ok /\ answer'.due = due
    BY <1>4, AnswersFacts
  <2> QED
    BY <1>0, <1>4, <2>1 DEF OracleServes, OracleRuns
<1> QED
  BY <1>0, <1>4, <1>6, <1>8, <1>9, <1>10, WriteKeeps

\* A write under a key.
LEMMA UnderKeeps ==
  ASSUME StoreInv, phase = "ready", service \in Keyed \ {"chaos"}, NEW v \in Values, NEW row \in Rows, NEW own \in Rows,
         row.by = test, mine' = Under(mine, v, own), OracleRuns => row = own /\ row.shown,
         rows' = Under(rows, v, row), UNCHANGED <<service, phase, class, test, schema, reader, answer>>
  PROVE  StoreInv'
<1>0. service \notin {"kafka", "chaos"}
  BY DEF Keyed
<1>1. /\ StoreTypeOK /\ \A i \in DOMAIN rows : rows[i].by = test
      /\ OracleRuns => rows = mine /\ \A i \in DOMAIN rows : rows[i].shown
  BY <1>0, Running
<1>2. Contents(rows) /\ Contents(mine)
  BY <1>1 DEF StoreTypeOK
<1>3. Contents(rows') /\ Contents(mine')
  <2>1. Contents(Under(rows, v, row)) /\ Contents(Under(mine, v, own))
    BY <1>2, UnderContents
  <2> QED
    BY <2>1 DEF Contents
<1>4. \A i \in DOMAIN rows' : rows'[i] = row \/ (i \in DOMAIN rows /\ rows'[i] = rows[i])
  <2>1. /\ DOMAIN Under(rows, v, row) = DOMAIN rows \cup {v}
        /\ \A k \in DOMAIN rows \cup {v} : Under(rows, v, row)[k] = IF k = v THEN row ELSE rows[k]
    BY DEF Under
  <2> DEFINE after == Under(rows, v, row)
  <2>2. rows' = after
    OBVIOUS
  <2> HIDE DEF after
  <2>3. \A i \in DOMAIN after : after[i] = row \/ (i \in DOMAIN rows /\ after[i] = rows[i])
    BY <2>1 DEF after
  <2> QED
    BY <2>2, <2>3
<1>5. OracleRuns => Faithful'
  BY <1>0, <1>1, <1>4 DEF Faithful
<1>6. DOMAIN answer' = {"got", "due"} /\ OracleServes'
  BY <1>1 DEF StoreInv, StoreTypeOK, OracleServes
<1>7. \A i \in DOMAIN rows' : rows'[i].by = test
  BY <1>1, <1>4
<1> QED
  BY <1>0, <1>3, <1>5, <1>6, <1>7, WriteKeeps

LEMMA AddUserKeeps ==
  ASSUME StoreInv, NEW v \in Values, AddUser(v)
  PROVE  StoreInv'
<1> DEFINE ok == schema = "oracle" => ~Holds(rows, v)
           due == ~Holds(mine, v)
<1>1. /\ service \in {"postgres", "mongo"} /\ phase = "ready" /\ phase' \in {phase, "aborted"}
      /\ Keeps(ok, due, Row(v, Never, TRUE))
  BY DEF AddUser, Ready
<1>2. service \in HasSchema /\ service \notin {"kafka", "chaos"}
  BY <1>1 DEF HasSchema
<1>3. OracleRuns => rows = mine /\ schema = "oracle"
  BY <1>1, <1>2, Running DEF OracleRuns
<1>4. ok \in BOOLEAN /\ due \in BOOLEAN /\ (OracleRuns => ok = due)
  BY <1>3
<1> HIDE DEF ok, due
<1> QED
  BY <1>1, <1>2, <1>4, KeepsKeeps

LEMMA SaveNoteKeeps ==
  ASSUME StoreInv, NEW v \in Values, SaveNote(v)
  PROVE  StoreInv'
<1> DEFINE ok == schema = "oracle" \/ v \notin Wide
<1>1. /\ service = "mysql" /\ phase = "ready" /\ phase' = phase
      /\ Keeps(ok, TRUE, Row(v, Never, TRUE))
  BY DEF SaveNote, Ready
<1>2. service \in HasSchema /\ service \notin {"kafka", "chaos", "mongo"}
  BY <1>1 DEF HasSchema
<1>3. ok \in BOOLEAN /\ TRUE \in BOOLEAN /\ (OracleRuns => ok = TRUE)
  BY <1>1, <1>2, Running DEF OracleRuns
<1> HIDE DEF ok
<1> QED
  BY <1>1, <1>2, <1>3, KeepsKeeps

LEMMA PutKeeps ==
  ASSUME StoreInv, NEW v \in Values, NEW ttl \in 1..MaxTtl, Put(v, ttl)
  PROVE  StoreInv'
<1> DEFINE left == IF OracleRuns THEN ttl ELSE Never
           kept == Row(v, left, TRUE)
           own == [kept EXCEPT !.left = ttl]
<1>1. /\ service \in Keyed \ {"chaos"} /\ phase = "ready"
      /\ rows' = Under(rows, v, kept) /\ mine' = Under(mine, v, own)
      /\ UNCHANGED <<service, phase, class, test, schema, reader, answer>>
  BY DEF Put, Ready, Keyed
<1>2. left \in Int /\ ttl \in Int /\ StoreTypeOK
  BY <1>1, StoreAssumption DEF Never, StoreInv
<1>3. /\ kept \in Rows /\ kept.by = test /\ kept.shown = TRUE /\ kept.left = left
  BY <1>2, RowType
<1>4. own \in Rows /\ (OracleRuns => kept = own)
  BY <1>2, <1>3 DEF Rows
<1> HIDE DEF own, kept
<1> QED
  BY <1>1, <1>3, <1>4, UnderKeeps

LEMMA TickKeeps ==
  ASSUME StoreInv, Tick
  PROVE  StoreInv'
<1>1. /\ service \in Keyed \ {"chaos"} /\ service # "kafka" /\ phase = "ready"
      /\ rows' = Older(rows) /\ mine' = Older(mine)
      /\ UNCHANGED <<service, phase, class, test, schema, reader, answer>>
  BY DEF Tick, Ready, Keyed
<1>2. /\ StoreTypeOK /\ \A i \in DOMAIN rows : rows[i].by = test
      /\ OracleRuns => rows = mine /\ \A i \in DOMAIN rows : rows[i].shown
  BY <1>1, Running
<1>3. /\ Contents(Older(rows)) /\ DOMAIN Older(rows) \subseteq DOMAIN rows
      /\ \A k \in DOMAIN Older(rows) :
           Older(rows)[k].by = rows[k].by /\ Older(rows)[k].shown = rows[k].shown
  BY <1>1, <1>2, TickFacts DEF StoreTypeOK
<1>4. Contents(Older(mine))
  BY <1>1, <1>2, TickFacts DEF StoreTypeOK
<1>5. Contents(rows') /\ Contents(mine')
  BY <1>1, <1>3, <1>4 DEF Contents
<1>6. DOMAIN answer' = {"got", "due"} /\ OracleServes'
  BY <1>1, <1>2 DEF StoreInv, StoreTypeOK, OracleServes
<1>7. /\ \A i \in DOMAIN rows' : rows'[i].by = test
      /\ OracleRuns => Faithful'
  BY <1>1, <1>2, <1>3 DEF Faithful
<1> QED
  BY <1>1, <1>5, <1>6, <1>7, WriteKeeps

\* A refresh shows what is there already: the oracle's documents all are.
LEMMA AddDocumentKeeps ==
  ASSUME StoreInv, NEW v \in Values, AddDocument(v)
  PROVE  StoreInv'
<1> DEFINE doc == Row(v, Never, OracleRuns)
           after == Under(rows, v, doc)
           refreshed == [i \in DOMAIN after |-> [after[i] EXCEPT !.shown = TRUE]]
<1>1. /\ service \in Keyed \ {"chaos"} /\ phase = "ready"
      /\ rows' = IF OracleRuns THEN refreshed ELSE after
      /\ mine' = Under(mine, v, doc)
      /\ UNCHANGED <<service, phase, class, test, schema, reader, answer>>
  BY DEF AddDocument, Ready, Keyed
<1>2. /\ StoreTypeOK
      /\ OracleRuns => rows = mine /\ \A i \in DOMAIN rows : rows[i].shown
  BY <1>1, Running DEF Keyed
<1>3. /\ doc \in Rows /\ doc.by = test /\ doc.shown = OracleRuns
  <2>1. Never \in Int /\ OracleRuns \in BOOLEAN
    BY DEF Never, OracleRuns
  <2> QED
    BY <1>2, <2>1, RowType
<1>4. OracleRuns => refreshed = after
  <2> SUFFICES ASSUME OracleRuns
               PROVE  refreshed = after
    OBVIOUS
  <2>1. /\ DOMAIN after = DOMAIN rows \cup {v}
        /\ \A k \in DOMAIN rows \cup {v} : after[k] = IF k = v THEN doc ELSE rows[k]
    BY DEF Under
  <2>2. Contents(rows) /\ rows \in [DOMAIN rows -> Rows]
    BY <1>1, <1>2 DEF StoreTypeOK, Contents
  <2>3. \A r \in Rows : r.shown => [r EXCEPT !.shown = TRUE] = r
    BY DEF Rows
  <2>4. \A k \in DOMAIN after : after[k] \in Rows /\ after[k].shown
    BY <1>2, <1>3, <2>1, <2>2
  <2>5. \A k \in DOMAIN after : [after[k] EXCEPT !.shown = TRUE] = after[k]
    BY <2>3, <2>4
  <2>6. after = [k \in DOMAIN after |-> after[k]]
    BY DEF Under
  <2> QED
    BY <2>5, <2>6
<1>5. rows' = after
  BY <1>1, <1>4
<1> HIDE DEF doc
<1> QED
  BY <1>1, <1>3, <1>5, UnderKeeps

LEMMA SaveBlobKeeps ==
  ASSUME StoreInv, NEW v \in Values, SaveBlob(v)
  PROVE  StoreInv'
<1> DEFINE shown == OracleRuns \/ v \notin Wide
           blob == Row(v, Never, shown)
<1>1. /\ service \in Keyed \ {"chaos"} /\ phase = "ready"
      /\ rows' = Under(rows, v, blob) /\ mine' = Under(mine, v, blob)
      /\ UNCHANGED <<service, phase, class, test, schema, reader, answer>>
  BY DEF SaveBlob, Ready, Keyed
<1>2. StoreTypeOK /\ Never \in Int /\ shown \in BOOLEAN
  BY DEF Never, StoreInv
<1>3. /\ blob \in Rows /\ blob.by = test /\ blob.shown = shown
  <2> HIDE DEF shown
  <2> QED
    BY <1>2, RowType
<1>4. OracleRuns => blob.shown
  BY <1>3
<1> HIDE DEF blob
<1> QED
  BY <1>1, <1>3, <1>4, UnderKeeps

\* What a test reads of an append store and of a keyed one.
LEMMA ReadsKeep ==
  ASSUME StoreInv,
         \/ Count \/ First
         \/ \E v \in Values : GetCached(v) \/ LoadBlob(v)
         \/ \E key \in SECRET : ReadSecret(key)
         \/ \E genuine \in BOOLEAN : VerifyToken(genuine)
  PROVE  StoreInv'
<1>1. /\ Reads /\ phase = "ready" /\ service \notin {"kafka", "chaos", "elasticsearch"}
  BY DEF Count, First, GetCached, LoadBlob, ReadSecret, VerifyToken, Ready
<1>2. OracleRuns => rows = mine /\ \A i \in DOMAIN rows : rows[i].shown
  BY <1>1, Running
<1>3. \E got, due : Answers(got, due) /\ (OracleRuns => got = due)
  <2>1. CASE Count
    BY <1>2, <2>1 DEF Count
  <2>2. CASE First
    BY <1>2, <2>2 DEF First
  <2>4. CASE \E v \in Values : GetCached(v)
    BY <1>2, <2>4 DEF GetCached
  <2>5. CASE \E v \in Values : LoadBlob(v)
    <3>1. PICK v \in Values : LoadBlob(v)
      BY <2>5
    <3>2. Answers(\A i \in DOMAIN rows : rows[i].v = v => rows[i].shown, TRUE)
      BY <3>1 DEF LoadBlob
    <3>3. OracleRuns => (\A i \in DOMAIN rows : rows[i].v = v => rows[i].shown) = TRUE
      BY <1>2
    <3> QED
      BY <3>2, <3>3
  <2>6. CASE \E key \in SECRET : ReadSecret(key)
    BY <2>6 DEF ReadSecret
  <2>7. CASE \E genuine \in BOOLEAN : VerifyToken(genuine)
    <3>1. PICK genuine \in BOOLEAN : VerifyToken(genuine)
      BY <2>7
    <3>2. Answers(OracleRuns => genuine, genuine)
      BY <3>1 DEF VerifyToken
    <3>3. OracleRuns => (OracleRuns => genuine) = genuine
      BY <3>1
    <3> QED
      BY <3>2, <3>3
  <2> QED
    BY <2>1, <2>2, <2>4, <2>5, <2>6, <2>7
<1> QED
  <2>1. DOMAIN answer' = {"got", "due"} /\ (OracleRuns => answer'.got = answer'.due)
    BY <1>3, AnswersFacts
  <2>2. OracleServes'
    BY <1>1, <2>1 DEF OracleServes, OracleRuns, Reads
  <2> QED
    BY <1>1, <2>1, <2>2, ReadKeeps

\* A page of the documents that are shown, which are the oracle's own.
LEMMA SearchKeeps ==
  ASSUME StoreInv, Search
  PROVE  StoreInv'
<1> DEFINE shown == {k \in DOMAIN rows : rows[k].shown}
<1>1. Reads /\ phase = "ready" /\ service = "elasticsearch"
  BY DEF Search, Ready
<1>2. PICK hits \in SUBSET shown :
        Cardinality(hits) = PageOf(Cardinality(shown)) /\ Answers(hits, DOMAIN mine)
  BY DEF Search
<1>3. OracleRuns => shown = DOMAIN mine
  BY <1>1, Running
<1>4. DOMAIN answer' = {"got", "due"} /\ answer'.got = hits /\ answer'.due = DOMAIN mine
  BY <1>2, AnswersFacts
<1> HIDE DEF shown
<1>5. OracleServes'
  <2>1. OracleRuns => hits \subseteq DOMAIN mine /\ Cardinality(hits) = PageOf(Cardinality(DOMAIN mine))
    BY <1>2, <1>3
  <2> QED
    BY <1>1, <1>4, <2>1 DEF OracleServes, OracleRuns, Reads
<1> QED
  BY <1>1, <1>4, <1>5, ReadKeeps

\* What the proxy gives back for a key that this test has set.
LEMMA GetThroughKeeps ==
  ASSUME StoreInv, NEW v \in Values, GetThrough(v)
  PROVE  StoreInv'
<1> DEFINE got == {rows[k].by : k \in DOMAIN rows \cap {v}}
           due == {mine[v].by}
<1>1. Reads /\ phase = "ready" /\ service = "chaos" /\ v \in DOMAIN mine /\ Answers(got, due)
  BY DEF GetThrough, Ready
<1>2. OracleRuns => got = due
  BY <1>1 DEF StoreInv, OwnWrites, Faithful
<1> HIDE DEF got, due
<1>3. DOMAIN answer' = {"got", "due"} /\ answer'.got = got /\ answer'.due = due
  BY <1>1, AnswersFacts
<1>4. OracleServes'
  BY <1>1, <1>2, <1>3 DEF OracleServes, OracleRuns, Reads
<1> QED
  BY <1>1, <1>3, <1>4, ReadKeeps

\* A topic grows at its end: what was read of it is still its beginning.
LEMMA TopicGrows ==
  ASSUME StoreInv, service = "kafka", phase \in {"ready", "reading"}, NEW row \in Rows, row.by = test,
         UNCHANGED <<service, phase, class, test, schema, reader, answer>>,
         rows' \in {rows, Append(rows, row)}, mine' \in Seq(Rows),
         \A i \in DOMAIN mine : i \in DOMAIN mine' /\ mine'[i] = mine[i],
         EachOnce' => EachOnce,
         EachOnce' /\ rows = mine => rows' = mine'
  PROVE  StoreInv'
<1>1. /\ StoreTypeOK /\ \A i \in DOMAIN rows : rows[i].by = test
      /\ OracleRuns /\ EachOnce => rows = mine
      /\ ReadsArePrefixes
  BY DEF StoreInv, FreshStart, OwnWrites, Faithful
<1>2. service \notin Keyed
  BY DEF Keyed
<1>3. rows \in Seq(Rows)
  BY <1>1, <1>2 DEF StoreTypeOK, Contents
<1>4. /\ rows' \in Seq(Rows)
      /\ \A i \in DOMAIN rows : i \in DOMAIN rows' /\ rows'[i] = rows[i]
      /\ \A i \in DOMAIN rows' : rows'[i] = row \/ (i \in DOMAIN rows /\ rows'[i] = rows[i])
  <2>1. CASE rows' = rows
    BY <1>3, <2>1
  <2>2. CASE rows' = Append(rows, row)
    BY <1>3, <2>2, AppendFacts
  <2> QED
    BY <2>1, <2>2
<1>5. Contents(rows') /\ Contents(mine')
  BY <1>2, <1>4 DEF Contents
<1>6. \A i \in DOMAIN rows' : rows'[i].by = test
  BY <1>1, <1>4
<1>7. OracleRuns => Faithful'
  BY <1>1 DEF Faithful
<1>8. DOMAIN answer' = {"got", "due"} /\ OracleServes'
  BY <1>1 DEF StoreInv, StoreTypeOK, OracleServes
<1>9. ReadsArePrefixes'
  BY <1>1, <1>4 DEF ReadsArePrefixes
<1> QED
  BY <1>5, <1>6, <1>7, <1>8, <1>9, WriteKeeps

LEMMA PublishKeeps ==
  ASSUME StoreInv, NEW v \in Values, NEW once \in BOOLEAN, Publish(v, once)
  PROVE  StoreInv'
<1> DEFINE row == Row(v, Never, TRUE)
           own == Row(v, Never, once)
<1>1. /\ service = "kafka" /\ service \notin Keyed /\ phase \in {"ready", "reading"}
      /\ rows' = IF once THEN Append(rows, row) ELSE rows
      /\ mine' = Append(mine, own)
      /\ UNCHANGED <<service, phase, class, test, schema, reader, answer>>
  BY DEF Publish, Keyed
<1>2. StoreTypeOK /\ Never \in Int /\ TRUE \in BOOLEAN
  BY DEF StoreInv, Never
<1>3. /\ row \in Rows /\ row.by = test /\ own \in Rows /\ own.shown = once
      /\ once => own = row
  BY <1>2, RowType
<1>4. rows \in Seq(Rows) /\ mine \in Seq(Rows)
  BY <1>1, <1>2 DEF StoreTypeOK, Contents
<1> HIDE DEF row, own
<1>5. /\ mine' \in Seq(Rows) /\ Len(mine) + 1 \in DOMAIN mine' /\ mine'[Len(mine) + 1] = own
      /\ \A i \in DOMAIN mine : i \in DOMAIN mine' /\ mine'[i] = mine[i]
  BY <1>1, <1>3, <1>4, AppendFacts
<1>6. EachOnce' => EachOnce /\ once
  BY <1>3, <1>5 DEF EachOnce
<1>7. EachOnce' /\ rows = mine => rows' = mine'
  BY <1>1, <1>3, <1>6
<1>8. rows' \in {rows, Append(rows, row)}
  BY <1>1
<1> QED
  BY <1>1, <1>3, <1>5, <1>6, <1>7, <1>8, TopicGrows

LEMMA StragglerKeeps ==
  ASSUME StoreInv, NEW i \in DOMAIN mine, Straggler(i)
  PROVE  StoreInv'
<1> DEFINE row == Row(mine[i].v, Never, TRUE)
<1>1. /\ service = "kafka" /\ service \notin Keyed /\ phase \in {"ready", "reading"}
      /\ rows' = Append(rows, row) /\ ~mine[i].shown /\ mine' = mine
      /\ UNCHANGED <<service, phase, class, test, schema, reader, answer>>
  BY DEF Straggler, Keyed
<1>2. StoreTypeOK /\ Never \in Int /\ TRUE \in BOOLEAN
  BY DEF StoreInv, Never
<1>3. mine \in Seq(Rows) /\ mine[i].v \in Values
  <2>1. mine \in Seq(Rows)
    BY <1>1, <1>2 DEF StoreTypeOK, Contents
  <2>2. mine[i] \in Rows
    BY <2>1
  <2> QED
    BY <2>1, <2>2 DEF Rows
<1>4. row \in Rows /\ row.by = test
  BY <1>2, <1>3, RowType
<1> HIDE DEF row
<1>5. ~EachOnce'
  BY <1>1 DEF EachOnce
<1>6. rows' \in {rows, Append(rows, row)} /\ \A j \in DOMAIN mine : j \in DOMAIN mine' /\ mine'[j] = mine[j]
  BY <1>1
<1>7. mine' \in Seq(Rows)
  BY <1>1, <1>3
<1> QED
  BY <1>1, <1>4, <1>5, <1>6, <1>7, TopicGrows

\* A step of a reader: what is stored stays.
LEMMA NothingStored ==
  ASSUME StoreInv, phase \in {"ready", "reading"}, phase' \in {"ready", "reading"},
         UNCHANGED <<service, class, test, schema, rows, mine, answer>>,
         reader' \in [at : Nat, stop : Nat, out : Seq(Values)],
         ReadsArePrefixes', ReaderFollows'
  PROVE  StoreInv'
<1>1. StoreTypeOK /\ FreshStart /\ OwnWrites /\ CleanSlate /\ OracleServes
  BY DEF StoreInv
<1>2. StoreTypeOK'
  BY <1>1 DEF StoreTypeOK, Contents
<1>3. FreshStart' /\ OracleServes' /\ CleanSlate' /\ OwnWrites'
  BY <1>1 DEF FreshStart, OracleServes, CleanSlate, OwnWrites, OracleRuns, Faithful, EachOnce
<1> QED
  BY <1>2, <1>3 DEF StoreInv

\* A consumer is made, is assigned its partition, reads on or gives up.
LEMMA ReaderKeeps ==
  ASSUME StoreInv, \/ \E stop \in {NoStop} \cup 1..MaxWrites : ReadAll(stop)
                   \/ Assigned \/ Poll \/ Deadline
  PROVE  StoreInv'
<1>1. /\ StoreTypeOK /\ ReadsArePrefixes /\ ReaderFollows /\ OracleServes
      /\ phase \in {"ready", "reading"} /\ service = "kafka"
      /\ UNCHANGED <<service, class, test, schema, rows, mine, answer>>
  BY DEF StoreInv, ReadAll, Assigned, Poll, Deadline, Ready, ReaderFollows
<1>2. /\ rows \in Seq(Rows) /\ reader \in [at : Nat, stop : Nat, out : Seq(Values)]
      /\ OracleRuns /\ EachOnce => rows = mine
  BY <1>1 DEF StoreInv, StoreTypeOK, Contents, Keyed, OwnWrites, Faithful
<1>3. EachOnce' <=> EachOnce
  BY <1>1 DEF EachOnce
<1>4. ASSUME NEW stop \in {NoStop} \cup 1..MaxWrites, ReadAll(stop)
      PROVE  StoreInv'
  <2>1. reader' = [at |-> 0, stop |-> stop, out |-> <<>>] /\ phase' = "reading" /\ stop \in Nat
    BY <1>4, StoreAssumption DEF ReadAll, NoReader, NoStop
  <2>2. reader'.at = 0 /\ reader'.stop = stop /\ reader'.out = <<>> /\ Len(<<>>) = 0
    BY <2>1, EmptyContents
  <2>3. ReadsArePrefixes' /\ ReaderFollows'
    BY <1>1, <1>4, <2>1, <2>2, EmptyContents DEF ReadsArePrefixes, ReaderFollows, NoStop
  <2>4. reader' \in [at : Nat, stop : Nat, out : Seq(Values)]
    BY <2>1
  <2> QED
    BY <1>1, <1>3, <2>1, <2>3, <2>4, NothingStored
<1>5. CASE Assigned
  <2>1. /\ reader.at = 0 /\ phase = "reading" /\ phase' = phase
        /\ reader' = [reader EXCEPT !.at = OffsetReset]
    BY <1>5 DEF Assigned
  <2>2. OffsetReset \in Nat \ {0} /\ (OracleRuns => OffsetReset = 1)
    BY <1>2 DEF OffsetReset
  <2>3. /\ reader' \in [at : Nat, stop : Nat, out : Seq(Values)]
        /\ reader'.at = OffsetReset /\ reader'.stop = reader.stop /\ reader'.out = reader.out
    BY <1>2, <2>1, <2>2
  <2>4. reader.out = <<>> /\ Len(<<>>) = 0
    BY <1>1, <2>1, EmptyContents DEF ReaderFollows
  <2>5. OracleRuns' = OracleRuns
    BY <1>1 DEF OracleRuns
  <2>6. ReaderFollows'
    BY <1>1, <2>1, <2>2, <2>3, <2>4, <2>5 DEF ReaderFollows
  <2>7. ReadsArePrefixes'
    BY <1>1, <1>3, <2>1, <2>3 DEF ReadsArePrefixes
  <2> QED
    BY <1>1, <1>3, <2>1, <2>3, <2>6, <2>7, NothingStored
<1>6. CASE Poll
  <2> DEFINE v == rows[reader.at].v
             out == Append(reader.out, v)
             enough == reader.stop # NoStop /\ Len(reader.out) + 1 >= reader.stop
  <2>1. /\ phase = "reading" /\ reader.at \in DOMAIN rows
        /\ reader' = [reader EXCEPT !.at = @ + 1, !.out = out]
        /\ phase' = IF enough THEN "ready" ELSE phase
    BY <1>6 DEF Poll
  <2>2. v \in Values /\ reader.at \in Nat /\ reader.at > 0 /\ reader.out \in Seq(Values) /\ reader.stop \in Nat
    <3>1. reader.at \in Nat /\ reader.out \in Seq(Values) /\ reader.stop \in Nat
      BY <1>2
    <3>2. reader.at > 0 /\ rows[reader.at] \in Rows
      BY <1>2, <2>1, <3>1
    <3>3. v \in Values
      BY <3>2 DEF Rows
    <3> QED
      BY <3>1, <3>2, <3>3
  <2>3. out \in Seq(Values) /\ Len(out) = Len(reader.out) + 1 /\ Len(reader.out) \in Nat
    BY <2>2
  <2>4. /\ reader' \in [at : Nat, stop : Nat, out : Seq(Values)]
        /\ reader'.at = reader.at + 1 /\ reader'.stop = reader.stop /\ reader'.out = out
    <3> HIDE DEF out
    <3>1. reader.at + 1 \in Nat
      BY <2>2
    <3> QED
      BY <1>2, <2>1, <2>3, <3>1
  <2>5. OracleRuns => Len(reader.out) = reader.at - 1
    BY <1>1, <2>2 DEF ReaderFollows
  <2>6. OracleRuns' = OracleRuns /\ (reader.stop # NoStop => Len(reader.out) < reader.stop)
    BY <1>1, <2>1 DEF OracleRuns, ReaderFollows
  <2>7. ReaderFollows'
    BY <1>1, <2>1, <2>2, <2>3, <2>4, <2>5, <2>6 DEF ReaderFollows, NoStop
  <2>8. ASSUME class = "oracle"
        PROVE  \A i \in DOMAIN out :
                 /\ i \in DOMAIN rows /\ out[i] = rows[i].v
                 /\ EachOnce => i \in DOMAIN mine /\ out[i] = mine[i].v
    <3>1. /\ DOMAIN out = DOMAIN reader.out \cup {reader.at} /\ out[reader.at] = v
          /\ \A i \in DOMAIN reader.out : out[i] = reader.out[i]
      BY <2>2, <2>5, <2>8, AppendFacts DEF OracleRuns
    <3>2. EachOnce => mine[reader.at].v = v /\ reader.at \in DOMAIN mine
      BY <1>2, <2>1, <2>8 DEF OracleRuns
    <3> QED
      BY <1>1, <2>1, <2>8, <3>1, <3>2 DEF ReadsArePrefixes
  <2> HIDE DEF out
  <2>9. ReadsArePrefixes'
    BY <1>1, <1>3, <2>2, <2>3, <2>4, <2>6, <2>8 DEF ReadsArePrefixes, NoStop
  <2> QED
    BY <1>1, <1>3, <2>1, <2>4, <2>7, <2>9, NothingStored
<1>7. CASE Deadline
  <2>1. phase' = "ready" /\ reader' = reader
    BY <1>7 DEF Deadline
  <2>2. ReadsArePrefixes' /\ ReaderFollows'
    BY <1>1, <1>3, <2>1 DEF ReadsArePrefixes, ReaderFollows, OracleRuns
  <2> QED
    BY <1>1, <1>2, <1>3, <2>1, <2>2, NothingStored
<1> QED
  BY <1>4, <1>5, <1>6, <1>7

\* A call through the proxy: what the upstream then holds under a key of this test
\* is this test's.
LEMMA ThroughKeeps ==
  ASSUME StoreInv, phase = "ready", service = "chaos", phase' \in {"ready", "hung"}, NEW v \in Values,
         UNCHANGED <<service, class, test, schema, reader>>,
         \/ rows' = Under(rows, v, Row(v, Never, TRUE)) /\ mine' \in {mine, Under(mine, v, Row(v, Never, TRUE))}
         \/ rows' = rows /\ mine' = mine,
         DOMAIN answer' = {"got", "due"}, OracleServes'
  PROVE  StoreInv'
<1> DEFINE row == Row(v, Never, TRUE)
<1>1. /\ StoreTypeOK /\ schema = class /\ ReaderFollows
      /\ OracleRuns => \A k \in DOMAIN mine : mine[k].by = test /\ k \in DOMAIN rows /\ rows[k].by = test
  BY DEF StoreInv, OwnWrites, Faithful
<1>2. row \in Rows /\ row.by = test
  <2>1. Never \in Int /\ TRUE \in BOOLEAN
    BY DEF Never
  <2> QED
    BY <1>1, <2>1, RowType
<1>3. ASSUME NEW held
      PROVE  /\ DOMAIN Under(held, v, row) = DOMAIN held \cup {v}
             /\ \A k \in DOMAIN held \cup {v} : Under(held, v, row)[k] = IF k = v THEN row ELSE held[k]
  BY DEF Under
<1>4. Contents(rows) /\ Contents(mine) /\ service \in Keyed
  BY <1>1 DEF StoreTypeOK, Keyed
<1>5. Contents(Under(rows, v, row)) /\ Contents(Under(mine, v, row))
  BY <1>2, <1>4, UnderContents
<1> DEFINE after == Under(rows, v, row)
           own == Under(mine, v, row)
<1>6. /\ DOMAIN after = DOMAIN rows \cup {v} /\ DOMAIN own = DOMAIN mine \cup {v}
      /\ \A k \in DOMAIN rows \cup {v} : after[k] = IF k = v THEN row ELSE rows[k]
      /\ \A k \in DOMAIN mine \cup {v} : own[k] = IF k = v THEN row ELSE mine[k]
  BY <1>3
<1>7. (rows' = after /\ mine' \in {mine, own}) \/ (rows' = rows /\ mine' = mine)
  OBVIOUS
<1>8. Contents(after) /\ Contents(own)
  BY <1>5
<1> HIDE DEF after, own, row
<1>9. Contents(rows') /\ Contents(mine')
  BY <1>4, <1>7, <1>8 DEF Contents
<1>10. OracleRuns => \A k \in DOMAIN mine' : mine'[k].by = test /\ k \in DOMAIN rows' /\ rows'[k].by = test
  <2>1. CASE rows' = rows /\ mine' = mine
    BY <1>1, <2>1
  <2>2. CASE rows' = after /\ mine' = mine
    BY <1>1, <1>2, <1>6, <2>2
  <2>3. CASE rows' = after /\ mine' = own
    BY <1>1, <1>2, <1>6, <2>3
  <2> QED
    BY <1>7, <2>1, <2>2, <2>3
<1>11. StoreTypeOK'
  <2>1. Contents(rows)' /\ Contents(mine)'
    BY <1>9 DEF Contents
  <2> QED
    BY <1>1, <2>1 DEF StoreTypeOK
<1>12. FreshStart' /\ CleanSlate' /\ OwnWrites'
  BY <1>1, <1>10 DEF FreshStart, CleanSlate, OwnWrites, OracleRuns, Faithful
<1>13. ReaderFollows' /\ ReadsArePrefixes'
  <2>1. reader.out = <<>>
    BY <1>1 DEF ReaderFollows
  <2>2. ReaderFollows'
    BY <1>1 DEF ReaderFollows, OracleRuns
  <2>3. ReadsArePrefixes'
    BY <2>1, EmptyContents DEF StoreInv, ReadsArePrefixes, NoStop
  <2> QED
    BY <2>2, <2>3
<1> QED
  BY <1>11, <1>12, <1>13 DEF StoreInv

LEMMA SetThroughKeeps ==
  ASSUME StoreInv, NEW v \in Values, SetThrough(v)
  PROVE  StoreInv'
<1>1. /\ phase = "ready" /\ service = "chaos"
      /\ rows' = Under(rows, v, Row(v, Never, TRUE)) /\ mine' = Under(mine, v, Row(v, Never, TRUE))
      /\ UNCHANGED <<service, phase, class, test, schema, reader, answer>>
  BY DEF SetThrough, Ready
<1>2. DOMAIN answer' = {"got", "due"} /\ OracleServes'
  BY <1>1 DEF StoreInv, StoreTypeOK, OracleServes
<1> QED
  BY <1>1, <1>2, ThroughKeeps

LEMMA CallStalledKeeps ==
  ASSUME StoreInv, NEW v \in Values, NEW done \in BOOLEAN, CallStalled(v, done)
  PROVE  StoreInv'
<1>1. /\ phase = "ready" /\ service = "chaos" /\ phase' \in {"ready", "hung"}
      /\ rows' = IF done THEN Under(rows, v, Row(v, Never, TRUE)) ELSE rows
      /\ UNCHANGED <<service, class, test, schema, reader, mine>>
      /\ Answers(IF OracleRuns THEN "TimeoutError" ELSE "hung", "TimeoutError")
  BY DEF CallStalled, Ready
<1>2. DOMAIN answer' = {"got", "due"} /\ (OracleRuns => answer'.got = answer'.due)
  BY <1>1, AnswersFacts
<1>3. OracleServes'
  BY <1>1, <1>2 DEF OracleServes, OracleRuns
<1> QED
  BY <1>1, <1>2, <1>3, ThroughKeeps

LEMMA StoreStep ==
  ASSUME StoreInv, [StoreNext]_storeVars
  PROVE  StoreInv'
<1>1. CASE UNCHANGED storeVars
  BY <1>1 DEF storeVars, StoreInv, StoreTypeOK, Contents, FreshStart, OracleServes, ReadsArePrefixes,
              CleanSlate, OwnWrites, ReaderFollows, OracleRuns, Faithful, EachOnce
<1>2. CASE StoreNext
  BY <1>2, SetupKeeps, SetupProxyKeeps, TeardownKeeps, EnsureSchemaKeeps, AddUserKeeps, SaveNoteKeeps,
     PutKeeps, TickKeeps, AddDocumentKeeps, SaveBlobKeeps, ReadsKeep, SearchKeeps, PublishKeeps,
     StragglerKeeps, ReaderKeeps, SetThroughKeeps, GetThroughKeeps, CallStalledKeeps
  DEF StoreNext
<1> QED
  BY <1>1, <1>2

LEMMA StoreInvariance == StoreSpec => []StoreInv
<1>1. StoreInit => StoreInv
  <2> SUFFICES ASSUME StoreInit
               PROVE  StoreInv
    OBVIOUS
  <2>1. /\ phase = "between" /\ class = "oracle" /\ test = 0 /\ schema = "none" /\ service \in Services
        /\ rows = <<>> /\ mine = <<>> /\ answer = [got |-> {}, due |-> {}]
        /\ reader = [at |-> 0, stop |-> 0, out |-> <<>>]
    BY DEF StoreInit, StoreUnused, NoReader, NoStop
  <2>2. reader.at = 0 /\ reader.stop = 0 /\ reader.out = <<>>
    BY <2>1
  <2>3. StoreTypeOK
    BY <2>1, EmptyContents, StoreAssumption DEF StoreTypeOK, Contents
  <2>6. OracleServes
    <3>1. Cardinality({}) = 0 /\ PageOf(0) = 0
      BY FS_EmptySet, StoreAssumption DEF PageOf
    <3> QED
      BY <2>1, <3>1 DEF OracleServes
  <2>4. FreshStart /\ CleanSlate /\ OwnWrites /\ ReaderFollows
    BY <2>1, <2>2 DEF FreshStart, OracleServes, CleanSlate, OwnWrites, ReaderFollows
  <2>5. ReadsArePrefixes
    BY <2>2, EmptyContents DEF ReadsArePrefixes, NoStop
  <2> QED
    BY <2>3, <2>4, <2>5, <2>6 DEF StoreInv
<1>2. StoreInv /\ [StoreNext]_storeVars => StoreInv'
  BY StoreStep
<1> QED
  BY <1>1, <1>2, PTL DEF StoreSpec

\* For every value of the constants, the services' variables have their types.
THEOREM StoreTypeCorrect == StoreSpec => []StoreTypeOK
<1>1. StoreInv => StoreTypeOK
  BY DEF StoreInv
<1> QED
  BY <1>1, StoreInvariance, PTL

\* FreshStart: whatever the test before left undone, no test finds rows of another,
\* because conftest's fixtures drop, flush or delete on the way in where the
\* clean-up on the way out may fail; but behind the proxy of network_chaos, where
\* none does.
THEOREM TestsStartFresh == StoreSpec => []FreshStart
<1>1. StoreInv => FreshStart
  BY DEF StoreInv
<1> QED
  BY <1>1, StoreInvariance, PTL

\* OracleServes: the oracle of every service answers what the test's own writes
\* make due, whatever was written or expired in between, and for any number of hits
\* that a search returns.
THEOREM OraclesServe == StoreSpec => []OracleServes
<1>1. StoreInv => OracleServes
  BY DEF StoreInv
<1> QED
  BY <1>1, StoreInvariance, PTL

\* ReadsArePrefixes: the oracle's kafka reader has read the topic from its first
\* message on, in order, whenever it was assigned its partition and however messages
\* were delivered; and so what was published, when each was delivered once.
THEOREM ReadersReadPrefixes == StoreSpec => []ReadsArePrefixes
<1>1. StoreInv => ReadsArePrefixes
  BY DEF StoreInv
<1> QED
  BY <1>1, StoreInvariance, PTL

------------------------------------------------------------------------------
(* Numbers: induction over a set of numbers, from the well-founded order of the
   finite sets 0..(n - 1) by inclusion. *)

LEMMA LeastElement ==
  ASSUME NEW B, B \subseteq Nat, B # {}
  PROVE  \E m \in B : \A k \in B : m <= k
<1> DEFINE Below(m) == 0..(m - 1)
           T == {Below(m) : m \in B}
<1>1. \A m \in B : Below(m) \in FiniteSubsetsOf(Nat)
  <2>1. \A m \in B : IsFiniteSet(0..(m - 1))
    BY FS_Interval
  <2> QED
    BY <2>1 DEF FiniteSubsetsOf
<1>2. T \subseteq FiniteSubsetsOf(Nat) /\ T # {}
  BY <1>1
<1> HIDE DEF T
<1>3. \E x \in T : \A y \in T : ~(<<y, x>> \in StrictSubsetOrdering(Nat))
  <2>1. IsWellFoundedOn(StrictSubsetOrdering(Nat), FiniteSubsetsOf(Nat))
    BY FS_StrictSubsetOrderingWellFounded
  <2> QED
    BY <1>2, <2>1, WFMin
<1>4. PICK m \in B : \A k \in B : ~(<<Below(k), Below(m)>> \in StrictSubsetOrdering(Nat))
  BY <1>3 DEF T
<1>5. ASSUME NEW k \in B
      PROVE  m <= k
  <2>1. SUFFICES ASSUME k < m PROVE FALSE
    OBVIOUS
  <2>2. Below(k) \subseteq Below(m) /\ k \in Below(m) /\ k \notin Below(k)
        /\ Below(k) \in SUBSET Nat /\ Below(m) \in SUBSET Nat
    BY <2>1
  <2>3. <<Below(k), Below(m)>> \in StrictSubsetOrdering(Nat)
    BY <2>2 DEF StrictSubsetOrdering
  <2> QED
    BY <1>4, <2>3
<1> QED
  BY <1>5

\* Induction over a set of numbers.
LEMMA SetInduction ==
  ASSUME NEW S, 0 \in S, \A n \in Nat : n \in S => n + 1 \in S
  PROVE  Nat \subseteq S
<1> SUFFICES ASSUME Nat \ S # {}
             PROVE  FALSE
  OBVIOUS
<1>1. PICK m \in Nat \ S : \A k \in Nat \ S : m <= k
  BY LeastElement
<1>2. m # 0 /\ m - 1 \in Nat /\ m - 1 < m
  BY <1>1
<1>3. m - 1 \in S
  BY <1>1, <1>2
<1> QED
  BY <1>1, <1>2, <1>3

LEMMA BoundedMaximum ==
  ASSUME NEW n \in Nat, NEW S, S \subseteq 0..n, S # {}
  PROVE  \E m \in S : \A k \in S : k <= m
<1> DEFINE B == {n - k : k \in S}
<1>1. B \subseteq Nat /\ B # {}
  <2>1. \A k \in S : n - k \in Nat
    OBVIOUS
  <2> QED
    BY <2>1
<1>2. PICK b \in B : \A c \in B : b <= c
  BY <1>1, LeastElement
<1>3. PICK m \in S : b = n - m
  BY <1>2
<1>4. \A k \in S : n - m <= n - k /\ k \in Int /\ m \in Int
  BY <1>2, <1>3
<1> QED
  BY <1>4

------------------------------------------------------------------------------
(* The round trip: both recursive functions are what their equations say, and a
   letter more encoded is a letter more decoded. *)

Runs == Seq(Letters \X (Nat \ {0}))

IsEncoding(text, n, g) == g = [i \in 0..n |-> IF i = 0 THEN <<>> ELSE RleStep(text[i], g[i - 1])]
Longer(side, text, run) == text \o Repeat(side, run)
IsDecoding(side, runs, n, g) ==
  g = [i \in 0..n |-> IF i = 0 THEN <<>> ELSE Longer(side, g[i - 1], runs[i])]

LEMMA EncodingExists ==
  ASSUME NEW text
  PROVE  \A n \in Nat : \E g : IsEncoding(text, n, g)
<1> DEFINE S == {n \in Nat : \E g : IsEncoding(text, n, g)}
<1>1. 0 \in S
  <2>1. IsEncoding(text, 0, [i \in 0..0 |-> <<>>])
    BY DEF IsEncoding
  <2> QED
    BY <2>1
<1>2. ASSUME NEW n \in Nat, n \in S
      PROVE  n + 1 \in S
  <2>1. PICK g : IsEncoding(text, n, g)
    BY <1>2
  <2> DEFINE h == [i \in 0..(n + 1) |-> IF i = n + 1 THEN RleStep(text[i], g[n]) ELSE g[i]]
  <2>2. \A i \in 0..(n + 1) : h[i] = IF i = 0 THEN <<>> ELSE RleStep(text[i], h[i - 1])
    BY <2>1 DEF IsEncoding
  <2>3. IsEncoding(text, n + 1, h)
    BY <2>2 DEF IsEncoding
  <2> QED
    BY <2>3
<1> HIDE DEF S
<1>3. Nat \subseteq S
  BY <1>1, <1>2, SetInduction
<1> QED
  BY <1>3 DEF S

LEMMA DecodingExists ==
  ASSUME NEW side, NEW runs
  PROVE  \A n \in Nat : \E g : IsDecoding(side, runs, n, g)
<1> DEFINE S == {n \in Nat : \E g : IsDecoding(side, runs, n, g)}
<1>1. 0 \in S
  <2>1. IsDecoding(side, runs, 0, [i \in 0..0 |-> <<>>])
    BY DEF IsDecoding
  <2> QED
    BY <2>1
<1>2. ASSUME NEW n \in Nat, n \in S
      PROVE  n + 1 \in S
  <2>1. PICK g : IsDecoding(side, runs, n, g)
    BY <1>2
  <2> DEFINE h == [i \in 0..(n + 1) |-> IF i = n + 1 THEN Longer(side, g[n], runs[i]) ELSE g[i]]
  <2>2. \A i \in 0..(n + 1) : h[i] = IF i = 0 THEN <<>> ELSE Longer(side, h[i - 1], runs[i])
    BY <2>1 DEF IsDecoding
  <2>3. IsDecoding(side, runs, n + 1, h)
    BY <2>2 DEF IsDecoding
  <2> QED
    BY <2>3
<1> HIDE DEF S
<1>3. Nat \subseteq S
  BY <1>1, <1>2, SetInduction
<1> QED
  BY <1>3 DEF S

\* The two recursive functions are what their equations say.
LEMMA EncodingIs ==
  ASSUME NEW text, Len(text) \in Nat
  PROVE  IsEncoding(text, Len(text), Encoding(text))
<1>1. \E g : IsEncoding(text, Len(text), g)
  BY EncodingExists
<1>2. Encoding(text) = CHOOSE g : IsEncoding(text, Len(text), g)
  BY DEF Encoding, IsEncoding
<1> QED
  BY <1>1, <1>2

LEMMA DecodingIs ==
  ASSUME NEW side, NEW runs, Len(runs) \in Nat
  PROVE  IsDecoding(side, runs, Len(runs), Decoding(side, runs))
<1>1. \E g : IsDecoding(side, runs, Len(runs), g)
  BY DecodingExists
<1>2. Decoding(side, runs) = CHOOSE g : IsDecoding(side, runs, Len(runs), g)
  BY DEF Decoding, IsDecoding, Longer
<1> QED
  BY <1>1, <1>2

LEMMA RepeatType ==
  ASSUME NEW run \in Letters \X (Nat \ {0})
  PROVE  /\ Repeat("oracle", run) = [i \in 1..run[2] |-> run[1]]
         /\ Repeat("oracle", run) \in Seq(Letters) /\ Len(Repeat("oracle", run)) = run[2]
<1>1. Repeat("oracle", run) = [i \in 1..run[2] |-> run[1]]
  BY DEF Repeat, Oracle
<1>2. [i \in 1..run[2] |-> run[1]] \in Seq(Letters) /\ Len([i \in 1..run[2] |-> run[1]]) = run[2]
  OBVIOUS
<1> QED
  BY <1>1, <1>2

LEMMA DecodedType ==
  ASSUME NEW runs \in Runs
  PROVE  \A n \in 0..Len(runs) : Decoding("oracle", runs)[n] \in Seq(Letters)
<1> DEFINE g == Decoding("oracle", runs)
           S == {n \in Nat : n <= Len(runs) => g[n] \in Seq(Letters)}
<1>1. Len(runs) \in Nat /\ \A i \in 1..Len(runs) : runs[i] \in Letters \X (Nat \ {0})
  BY DEF Runs
<1>2. \A i \in 0..Len(runs) : g[i] = IF i = 0 THEN <<>> ELSE Longer("oracle", g[i - 1], runs[i])
  <2>1. IsDecoding("oracle", runs, Len(runs), g)
    BY <1>1, DecodingIs
  <2> QED
    BY <2>1 DEF IsDecoding
<1> HIDE DEF g
<1>3. 0 \in S
  <2>1. g[0] = <<>> /\ <<>> \in Seq(Letters)
    BY <1>1, <1>2
  <2> QED
    BY <2>1
<1>4. ASSUME NEW n \in Nat, n \in S
      PROVE  n + 1 \in S
  <2> SUFFICES ASSUME n + 1 <= Len(runs)
               PROVE  g[n + 1] \in Seq(Letters)
    OBVIOUS
  <2>1. g[n] \in Seq(Letters) /\ g[n + 1] = Longer("oracle", g[n], runs[n + 1])
    BY <1>1, <1>2, <1>4
  <2>2. Repeat("oracle", runs[n + 1]) \in Seq(Letters)
    BY <1>1, RepeatType
  <2> QED
    BY <2>1, <2>2 DEF Longer
<1> HIDE DEF S
<1>5. Nat \subseteq S
  BY <1>3, <1>4, SetInduction
<1> QED
  BY <1>1, <1>5 DEF S, g

\* What n runs decode to does not depend on those after them.
LEMMA DecodingOfPrefix ==
  ASSUME NEW side, NEW r, NEW s, Len(r) \in Nat, Len(s) \in Nat,
         NEW n \in Nat, n <= Len(r), n <= Len(s), \A i \in 1..n : r[i] = s[i]
  PROVE  Decoding(side, r)[n] = Decoding(side, s)[n]
<1> DEFINE g == Decoding(side, r)
           h == Decoding(side, s)
           S == {i \in Nat : i <= n => g[i] = h[i]}
<1>1. /\ \A i \in 0..Len(r) : g[i] = IF i = 0 THEN <<>> ELSE Longer(side, g[i - 1], r[i])
      /\ \A i \in 0..Len(s) : h[i] = IF i = 0 THEN <<>> ELSE Longer(side, h[i - 1], s[i])
  <2>1. IsDecoding(side, r, Len(r), g) /\ IsDecoding(side, s, Len(s), h)
    BY DecodingIs
  <2> QED
    BY <2>1 DEF IsDecoding
<1> HIDE DEF g, h
<1>2. 0 \in S
  BY <1>1
<1>3. ASSUME NEW i \in Nat, i \in S
      PROVE  i + 1 \in S
  <2> SUFFICES ASSUME i + 1 <= n
               PROVE  g[i + 1] = h[i + 1]
    OBVIOUS
  <2>1. g[i + 1] = Longer(side, g[i], r[i + 1]) /\ h[i + 1] = Longer(side, h[i], s[i + 1])
    BY <1>1
  <2>2. g[i] = h[i] /\ r[i + 1] = s[i + 1]
    BY <1>3
  <2> QED
    BY <2>1, <2>2
<1> HIDE DEF S
<1>4. Nat \subseteq S
  BY <1>2, <1>3, SetInduction
<1> QED
  BY <1>4 DEF S, g, h

LEMMA DecodedLast ==
  ASSUME NEW runs \in Runs, NEW s \in Runs, NEW n \in Nat, Len(runs) >= n, Len(s) = n + 1,
         \A i \in 1..n : s[i] = runs[i]
  PROVE  Decoded("oracle", s) = Decoding("oracle", runs)[n] \o Repeat("oracle", s[n + 1])
<1>1. Len(runs) \in Nat /\ Len(s) \in Nat
  BY DEF Runs
<1>2. Decoding("oracle", s)[n] = Decoding("oracle", runs)[n]
  BY <1>1, DecodingOfPrefix
<1>3. IsDecoding("oracle", s, Len(s), Decoding("oracle", s))
  BY <1>1, DecodingIs
<1>4. Decoding("oracle", s)[n + 1] = Decoding("oracle", s)[n] \o Repeat("oracle", s[n + 1])
  <2> DEFINE g == Decoding("oracle", s)
  <2>1. g = [i \in 0..(n + 1) |-> IF i = 0 THEN <<>> ELSE Longer("oracle", g[i - 1], s[i])]
    BY <1>3 DEF IsDecoding
  <2> HIDE DEF g
  <2>2. g[n + 1] = Longer("oracle", g[n], s[n + 1])
    BY <2>1
  <2> QED
    BY <2>2 DEF g, Longer
<1> QED
  BY <1>2, <1>4 DEF Decoded

\* A letter more encoded is a letter more decoded.
LEMMA StepDecodes ==
  ASSUME NEW runs \in Runs, NEW ch \in Letters
  PROVE  /\ RleStep(ch, runs) \in Runs
         /\ Decoded("oracle", RleStep(ch, runs)) = Append(Decoded("oracle", runs), ch)
<1> DEFINE N == Len(runs)
<1>1. N \in Nat /\ \A i \in 1..N : runs[i] \in Letters \X (Nat \ {0})
  BY DEF Runs
<1>2. CASE runs # <<>> /\ runs[N][1] = ch
  <2> DEFINE k == runs[N][2]
             s == [runs EXCEPT ![N] = <<ch, k + 1>>]
  <2>1. N > 0 /\ k \in Nat \ {0} /\ runs[N] = <<ch, k>> /\ runs[N] \in Letters \X (Nat \ {0})
    <3>1. N > 0
      BY <1>1, <1>2 DEF Runs
    <3>2. runs[N] \in Letters \X (Nat \ {0})
      BY <1>1, <3>1
    <3> QED
      BY <1>2, <3>1, <3>2
  <2>2. RleStep(ch, runs) = s
    <3>1. [runs EXCEPT ![N][2] = @ + 1] = [runs EXCEPT ![N] = [runs[N] EXCEPT ![2] = runs[N][2] + 1]]
      OBVIOUS
    <3>2. [<<ch, k>> EXCEPT ![2] = k + 1] = <<ch, k + 1>>
      BY <2>1
    <3> QED
      BY <1>2, <2>1, <3>1, <3>2 DEF RleStep
  <2> HIDE DEF k
  <2>3. s \in Runs /\ Len(s) = N /\ (\A i \in 1..(N - 1) : s[i] = runs[i]) /\ s[N] = <<ch, k + 1>>
    BY <1>1, <2>1 DEF Runs
  <2> HIDE DEF s
  <2> DEFINE before == Decoding("oracle", runs)[N - 1]
  <2>4. Decoded("oracle", s) = before \o Repeat("oracle", s[N])
    <3>1. N - 1 \in Nat /\ N >= N - 1 /\ Len(s) = (N - 1) + 1 /\ (N - 1) + 1 = N
      BY <1>1, <2>1, <2>3
    <3> QED
      BY <2>3, <3>1, DecodedLast
  <2>5. Decoded("oracle", runs) = before \o Repeat("oracle", runs[N])
    <3>1. N - 1 \in Nat /\ N >= N - 1 /\ Len(runs) = (N - 1) + 1 /\ (N - 1) + 1 = N
      BY <1>1, <2>1
    <3> QED
      BY <3>1, DecodedLast
  <2>6. before \in Seq(Letters)
    BY <1>1, <2>1, DecodedType
  <2>7. /\ Repeat("oracle", s[N]) = [i \in 1..(k + 1) |-> ch]
        /\ Repeat("oracle", runs[N]) = [i \in 1..k |-> ch]
    <3>1. s[N] \in Letters \X (Nat \ {0}) /\ s[N][1] = ch /\ s[N][2] = k + 1
          /\ runs[N][1] = ch /\ runs[N][2] = k
      BY <2>1, <2>3
    <3> QED
      BY <2>1, <3>1, RepeatType
  <2> HIDE DEF before
  <2>8. before \o [i \in 1..(k + 1) |-> ch] = Append(before \o [i \in 1..k |-> ch], ch)
    <3> DEFINE more == [i \in 1..(k + 1) |-> ch]
               less == [i \in 1..k |-> ch]
    <3>1. more \in Seq(Letters) /\ less \in Seq(Letters) /\ Len(more) = k + 1 /\ Len(less) = k
      BY <2>1
    <3>2. more = Append(less, ch)
      BY <2>1
    <3> HIDE DEF more, less
    <3>3. before \o Append(less, ch) = Append(before \o less, ch)
      BY <2>6, <3>1
    <3> QED
      BY <3>2, <3>3 DEF more, less
  <2> QED
    BY <2>2, <2>3, <2>4, <2>5, <2>7, <2>8
<1>3. CASE ~(runs # <<>> /\ runs[N][1] = ch)
  <2> DEFINE s == Append(runs, <<ch, 1>>)
  <2>1. RleStep(ch, runs) = s
    BY <1>3 DEF RleStep
  <2>2. s \in Runs /\ Len(s) = N + 1 /\ (\A i \in 1..N : s[i] = runs[i]) /\ s[N + 1] = <<ch, 1>>
    BY <1>1 DEF Runs
  <2> HIDE DEF s
  <2>3. Decoded("oracle", s) = Decoding("oracle", runs)[N] \o Repeat("oracle", s[N + 1])
    <3>1. N >= N
      BY <1>1
    <3> QED
      BY <1>1, <2>2, <3>1, DecodedLast
  <2>4. Repeat("oracle", s[N + 1]) = <<ch>>
    <3>1. <<ch, 1>> \in Letters \X (Nat \ {0}) /\ <<ch, 1>>[1] = ch /\ <<ch, 1>>[2] = 1
      OBVIOUS
    <3>2. Repeat("oracle", <<ch, 1>>) = [i \in 1..1 |-> ch]
      BY <3>1, RepeatType
    <3>3. [i \in 1..1 |-> ch] = <<ch>>
      OBVIOUS
    <3> QED
      BY <2>2, <3>2, <3>3
  <2>5. Decoding("oracle", runs)[N] \in Seq(Letters)
    BY <1>1, DecodedType
  <2>6. Decoding("oracle", runs)[N] \o <<ch>> = Append(Decoding("oracle", runs)[N], ch)
    BY <2>5
  <2> QED
    BY <2>1, <2>2, <2>3, <2>4, <2>6 DEF Decoded
<1> QED
  BY <1>2, <1>3

\* rle_decode undoes rle_encode (the round trip that property_roundtrip samples),
\* whatever the text and however long.
THEOREM RoundTrips ==
  ASSUME NEW text \in Seq(Letters)
  PROVE  Decoded("oracle", rle_encode(text)) = text
<1> DEFINE g == Encoding(text)
           S == {n \in Nat : n <= Len(text) =>
                   g[n] \in Runs /\ Decoded("oracle", g[n]) = SubSeq(text, 1, n)}
<1>1. Len(text) \in Nat
  OBVIOUS
<1>2. \A i \in 0..Len(text) : g[i] = IF i = 0 THEN <<>> ELSE RleStep(text[i], g[i - 1])
  <2>1. IsEncoding(text, Len(text), g)
    BY <1>1, EncodingIs
  <2> QED
    BY <2>1 DEF IsEncoding
<1> HIDE DEF g
<1>3. 0 \in S
  <2>1. g[0] = <<>> /\ <<>> \in Runs /\ Len(<<>>) = 0
    BY <1>1, <1>2 DEF Runs
  <2>2. Decoded("oracle", <<>>) = <<>>
    <3>1. IsDecoding("oracle", <<>>, 0, Decoding("oracle", <<>>))
      BY <2>1, DecodingIs
    <3> QED
      BY <2>1, <3>1 DEF IsDecoding, Decoded
  <2>3. SubSeq(text, 1, 0) = <<>>
    OBVIOUS
  <2> QED
    BY <2>1, <2>2, <2>3
<1>4. ASSUME NEW n \in Nat, n \in S
      PROVE  n + 1 \in S
  <2> SUFFICES ASSUME n + 1 <= Len(text)
               PROVE  g[n + 1] \in Runs /\ Decoded("oracle", g[n + 1]) = SubSeq(text, 1, n + 1)
    OBVIOUS
  <2>1. g[n] \in Runs /\ Decoded("oracle", g[n]) = SubSeq(text, 1, n)
    BY <1>1, <1>4
  <2>2. g[n + 1] = RleStep(text[n + 1], g[n]) /\ text[n + 1] \in Letters
    BY <1>1, <1>2
  <2>3. SubSeq(text, 1, n + 1) = Append(SubSeq(text, 1, n), text[n + 1])
    BY <1>1
  <2> QED
    BY <2>1, <2>2, <2>3, StepDecodes
<1> HIDE DEF S
<1>5. Nat \subseteq S
  BY <1>3, <1>4, SetInduction
<1>6. Decoded("oracle", g[Len(text)]) = SubSeq(text, 1, Len(text))
  BY <1>1, <1>5 DEF S
<1>7. SubSeq(text, 1, Len(text)) = text
  OBVIOUS
<1> QED
  BY <1>6, <1>7 DEF rle_encode, g

------------------------------------------------------------------------------
PolicyInv == taken = {a.canon : a \in accounts} /\ PoliciesMeetTheirPurpose

LEMMA PromptShape ==
  ASSUME NEW blocks \in Prompts
  PROVE  /\ Len(blocks) \in Nat /\ DOMAIN blocks = 1..Len(blocks)
         /\ \A i \in DOMAIN blocks :
              /\ blocks[i].matches \in BOOLEAN /\ blocks[i].changes \in BOOLEAN
              /\ blocks[i].cache_control \in BOOLEAN
<1>1. PICK n \in 1..MaxBlocks :
        blocks \in [1..n -> [matches : BOOLEAN, changes : BOOLEAN, cache_control : BOOLEAN]]
  BY DEF Prompts
<1>2. n \in Nat
  BY PolicyAssumption
<1> QED
  BY <1>1, <1>2

\* The last breakpoint, or 0.
LEMMA LastBreakpoint ==
  ASSUME NEW blocks \in Prompts
  PROVE  \E last \in 0..Len(blocks) :
           /\ CachedPrefix(blocks) = 1..last
           /\ \A time : Rendered(blocks, time) =
                [i \in 1..last |-> IF blocks[i].changes THEN <<i, time>> ELSE <<i>>]
<1> DEFINE N == Len(blocks)
           B == {i \in 1..N : blocks[i].cache_control}
           Last(n) == /\ n > 0 => blocks[n].cache_control
                      /\ \A i \in DOMAIN blocks : blocks[i].cache_control => i <= n
           last == CHOOSE n \in 0..N : Last(n)
<1>1. N \in Nat /\ DOMAIN blocks = 1..N
  BY PromptShape
<1>2. \E n \in 0..N : Last(n)
  <2>1. CASE B = {}
    <3>1. 0 \in 0..N /\ Last(0)
      BY <1>1, <2>1
    <3> QED
      BY <3>1
  <2>2. CASE B # {}
    <3>1. B \subseteq 0..N
      BY <1>1
    <3>2. PICK m \in B : \A k \in B : k <= m
      BY <1>1, <2>2, <3>1, BoundedMaximum
    <3>3. m \in 0..N /\ Last(m)
      BY <1>1, <3>2
    <3> QED
      BY <3>3
  <2> QED
    BY <2>1, <2>2
<1>3. last \in 0..N /\ Last(last)
  BY <1>2
<1>4. \A time : Rendered(blocks, time) = [i \in 1..last |-> IF blocks[i].changes THEN <<i, time>> ELSE <<i>>]
  BY DEF Rendered
<1> HIDE DEF last
<1>5. CachedPrefix(blocks) = 1..last
  BY <1>1, <1>3 DEF CachedPrefix
<1> QED
  BY <1>3, <1>4, <1>5

\* What is cached comes out the same twice when the oracle says so, unless a block of
\* it changes that does not match, and differs when it says so, unless one matches
\* that does not change.
LEMMA PrefixCaches ==
  ASSUME NEW blocks \in Prompts, CheckPrefix(blocks)
  PROVE  verdict'.got # verdict'.due => verdict'.mistaken
<1>1. PICK last \in 0..Len(blocks) :
        /\ CachedPrefix(blocks) = 1..last
        /\ \A time : Rendered(blocks, time) =
             [i \in 1..last |-> IF blocks[i].changes THEN <<i, time>> ELSE <<i>>]
  BY LastBreakpoint
<1> DEFINE ok == prefix_is_stable(blocks)
           due == Rendered(blocks, 1) = Rendered(blocks, 2)
           mistaken == \E i \in DOMAIN Rendered(blocks, 1) :
             IF ok THEN blocks[i].changes /\ ~blocks[i].matches ELSE blocks[i].matches /\ ~blocks[i].changes
           f(time) == [i \in 1..last |-> IF blocks[i].changes THEN <<i, time>> ELSE <<i>>]
<1>2. verdict' = [got |-> ok, due |-> due, mistaken |-> mistaken]
  BY DEF CheckPrefix, Asked, Answered
<1>3. f(1) = f(2) <=> \A i \in 1..last : ~blocks[i].changes
  <2>1. ASSUME f(1) = f(2), NEW i \in 1..last, blocks[i].changes
        PROVE  FALSE
    <3>1. f(1)[i] = <<i, 1>> /\ f(2)[i] = <<i, 2>>
      BY <2>1
    <3> QED
      BY <2>1, <3>1
  <2>2. ASSUME \A i \in 1..last : ~blocks[i].changes
        PROVE  f(1) = f(2)
    BY <2>2
  <2> QED
    BY <2>1, <2>2
<1>4. Rendered(blocks, 1) = f(1) /\ Rendered(blocks, 2) = f(2) /\ DOMAIN f(1) = 1..last
  BY <1>1
<1> HIDE DEF f
<1>5. ok <=> \A i \in 1..last : ~blocks[i].matches
  BY <1>1 DEF prefix_is_stable
<1>6. due <=> \A i \in 1..last : ~blocks[i].changes
  BY <1>3, <1>4
<1>7. mistaken <=> \E i \in 1..last :
        IF ok THEN blocks[i].changes /\ ~blocks[i].matches ELSE blocks[i].matches /\ ~blocks[i].changes
  BY <1>4
<1>8. ok \in BOOLEAN /\ due \in BOOLEAN
  BY DEF prefix_is_stable
<1> HIDE DEF ok, due, mistaken
<1>9. ok # due => mistaken
  <2>1. CASE ok
    BY <1>5, <1>6, <1>7, <1>8, <2>1
  <2>2. CASE ~ok
    BY <1>5, <1>6, <1>7, <1>8, <2>2
  <2> QED
    BY <2>1, <2>2
<1> QED
  BY <1>2, <1>9

LEMMA ResolvesNewest ==
  ASSUME NEW name \in {"internal-lib", "other"}, NEW candidates \in SUBSET Candidates,
         ResolvePackage(name, candidates)
  PROVE  verdict'.got = verdict'.due
<1> DEFINE own  == {c \in candidates : c.source = "internal"}
           pool == IF name = "internal-lib" THEN own ELSE candidates
           Newest(c) == ~\E other \in pool : other.version > c.version
           due == {c \in pool : Newest(c)}
<1>1. verdict' = [got |-> Chosen("oracle", name, candidates), due |-> due, mistaken |-> FALSE]
  BY DEF ResolvePackage, Asked, Answered
<1>2. Pool("oracle", name, candidates) = pool
  BY DEF Pool, Oracle, INTERNAL_NAMES
<1>3. \A c \in pool : c.version \in Int
  BY PolicyAssumption DEF Candidates
<1>4. Chosen("oracle", name, candidates) = {c \in pool : \A other \in pool : other.version <= c.version}
  BY <1>2 DEF Chosen
<1> HIDE DEF pool
<1>5. Chosen("oracle", name, candidates) = due
  BY <1>3, <1>4
<1> HIDE DEF due
<1> QED
  BY <1>1, <1>5

LEMMA PolicyStep ==
  ASSUME PolicyInv, [PolicyNext]_policyVars
  PROVE  PolicyInv'
<1>1. CASE \E e \in Emails : Register(e)
  <2> PICK e \in Emails : Register(e)
    BY <1>1
  <2> DEFINE ok == e.canon \notin taken
             Alike(a)  == a.looks = e.looks
             Folded(a) == a.canon = e.canon
             due == ~\E a \in accounts : Alike(a)
             mistaken == \E a \in accounts : IF ok THEN Alike(a) /\ ~Folded(a) ELSE Folded(a) /\ ~Alike(a)
  <2>1. /\ verdict' = [got |-> ok, due |-> due, mistaken |-> mistaken]
        /\ taken' = IF ok THEN taken \cup {e.canon} ELSE taken
        /\ accounts' = IF ok THEN accounts \cup {e} ELSE accounts
    BY DEF Register, Answered, Free, Key, Oracle
  <2>2. taken' = {a.canon : a \in accounts'}
    BY <2>1 DEF PolicyInv
  <2>3. ok <=> ~\E a \in accounts : Folded(a)
    BY DEF PolicyInv
  <2> HIDE DEF Alike, Folded
  <2>4. ok # due => mistaken
    <3>1. CASE ok
      BY <2>3, <3>1
    <3>2. CASE ~ok
      BY <2>3, <3>2
    <3> QED
      BY <3>1, <3>2
  <2> HIDE DEF ok, due, mistaken
  <2> QED
    BY <2>1, <2>2, <2>4 DEF PolicyInv, PoliciesMeetTheirPurpose
<1>2. ASSUME NEW got, NEW due, NEW mistaken, NEW name, Asked(name, got, due, mistaken), got = due
      PROVE  PolicyInv'
  BY <1>2 DEF Asked, Answered, PolicyInv, PoliciesMeetTheirPurpose
<1>3. ASSUME NEW blocks \in Prompts, CheckPrefix(blocks)
      PROVE  PolicyInv'
  <2>1. UNCHANGED <<taken, accounts>>
    BY <1>3 DEF CheckPrefix, Asked
  <2>2. PoliciesMeetTheirPurpose'
    BY <1>3, PrefixCaches DEF PoliciesMeetTheirPurpose
  <2> QED
    BY <2>1, <2>2 DEF PolicyInv
<1>4. ASSUME NEW name \in {"internal-lib", "other"}, NEW cs \in SUBSET Candidates, ResolvePackage(name, cs)
      PROVE  PolicyInv'
  <2>1. verdict'.got = verdict'.due
    BY <1>4, ResolvesNewest
  <2>2. UNCHANGED <<taken, accounts>>
    BY <1>4 DEF ResolvePackage, Asked
  <2> QED
    BY <2>1, <2>2 DEF PolicyInv, PoliciesMeetTheirPurpose
<1>6. ASSUME NEW text \in LongTexts, RoundTrip(text)
      PROVE  PolicyInv'
  <2>1. text \in Seq(Letters)
    BY PolicyAssumption DEF LongTexts
  <2> QED
    BY <1>2, <1>6, <2>1, RoundTrips DEF RoundTrip
<1>7. CASE UNCHANGED policyVars
  BY <1>7 DEF policyVars, PolicyInv, PoliciesMeetTheirPurpose
<1> QED
  BY <1>1, <1>3, <1>4, <1>6, <1>7 DEF PolicyNext

\* PoliciesMeetTheirPurpose: a registry of any accounts, a prompt of any length, any
\* set of candidate packages and a text of any length get the answer that was due,
\* unless the fold or the pattern mistakes something in them.
THEOREM PoliciesAreRight == PolicySpec => []PoliciesMeetTheirPurpose
<1>1. PolicyInit => PolicyInv
  BY DEF PolicyInit, PolicyUnused, PolicyInv, PoliciesMeetTheirPurpose
<1>2. PolicyInv /\ [PolicyNext]_policyVars => PolicyInv'
  BY PolicyStep
<1>3. PolicyInv => PoliciesMeetTheirPurpose
  BY DEF PolicyInv
<1> QED
  BY <1>1, <1>2, <1>3, PTL DEF PolicySpec

------------------------------------------------------------------------------
(* The self-tests: each is red exactly when the oracle it names lies. *)

\* A self-test is red when a check of it is false.
LEMMA Verdicts ==
  ASSUME NEW n \in Nat, NEW checks, DOMAIN checks = 1..n
  PROVE  RunSelfTest(checks) # 0 <=> \E i \in 1..n : ~checks[i]
<1> DEFINE F == {i \in DOMAIN checks : ~checks[i]}
<1>1. IsFiniteSet(F)
  <2>1. IsFiniteSet(1..n)
    BY FS_Interval
  <2>2. F \subseteq 1..n
    OBVIOUS
  <2> QED
    BY <2>1, <2>2, FS_Subset
<1>2. Cardinality(F) \in Nat /\ (Cardinality(F) = 0 <=> F = {})
  BY <1>1, FS_CardinalityType, FS_EmptySet
<1>3. RunSelfTest(checks) = IF Cardinality(F) > 0 THEN 1 ELSE 0
  BY DEF RunSelfTest, Failures
<1>4. F # {} <=> \E i \in 1..n : ~checks[i]
  OBVIOUS
<1> HIDE DEF F
<1> QED
  BY <1>2, <1>3, <1>4

LEMMA TwoChecks ==
  ASSUME NEW a, NEW b
  PROVE  RunSelfTest(<<a, b>>) # 0 <=> ~a \/ ~b
<1> DEFINE checks == <<a, b>>
<1>1. DOMAIN checks = 1..2 /\ checks[1] = a /\ checks[2] = b /\ 2 \in Nat
  OBVIOUS
<1> HIDE DEF checks
<1>2. RunSelfTest(checks) # 0 <=> \E i \in 1..2 : ~checks[i]
  BY <1>1, Verdicts
<1>3. (\E i \in 1..2 : ~checks[i]) <=> ~a \/ ~b
  BY <1>1
<1> QED
  BY <1>2, <1>3 DEF checks

LEMMA ThreeChecks ==
  ASSUME NEW a, NEW b, NEW c
  PROVE  RunSelfTest(<<a, b, c>>) # 0 <=> ~a \/ ~b \/ ~c
<1> DEFINE checks == <<a, b, c>>
<1>1. DOMAIN checks = 1..3 /\ checks[1] = a /\ checks[2] = b /\ checks[3] = c /\ 3 \in Nat
  OBVIOUS
<1> HIDE DEF checks
<1>2. RunSelfTest(checks) # 0 <=> \E i \in 1..3 : ~checks[i]
  BY <1>1, Verdicts
<1>3. (\E i \in 1..3 : ~checks[i]) <=> ~a \/ ~b \/ ~c
  BY <1>1
<1> QED
  BY <1>2, <1>3 DEF checks

\* The checks of h are red exactly when its symbol lies.
Bites(checks, symbol, lies) == RunSelfTest(checks) # 0 <=> symbol \in lies

\* The checks nearly every harness makes.
LEMMA Probes ==
  ASSUME NEW lies, NEW symbol, NEW serves, NEW fooled, NEW caught, serves, ~fooled, caught
  PROVE  Bites(Checks(serves, Says(symbol, lies, fooled), Says(symbol, lies, caught)), symbol, lies)
  BY ThreeChecks DEF Bites, Checks, Says

\* What the tags that tell these credentials apart are over.
LEMMA Wires ==
  ASSUME NEW x
  PROVE  Wire("csrf", x) = x.who /\ Wire("message", x) = x /\ Wire("manifest", x) = x
<1>1. Wire("csrf", x) = x.who
  BY Zenon DEF Wire
<1>2. Wire("message", x) = x
  BY Zenon DEF Wire
<1>3. Wire("manifest", x) = x
  BY Zenon DEF Wire
<1> QED
  BY <1>1, <1>2, <1>3

LEMMA FourChecks ==
  ASSUME NEW a, NEW b, NEW c, NEW d
  PROVE  RunSelfTest(<<a, b, c, d>>) # 0 <=> ~a \/ ~b \/ ~c \/ ~d
<1> DEFINE checks == <<a, b, c, d>>
<1>1. /\ DOMAIN checks = 1..4 /\ 4 \in Nat
      /\ checks[1] = a /\ checks[2] = b /\ checks[3] = c /\ checks[4] = d
  OBVIOUS
<1> HIDE DEF checks
<1>2. RunSelfTest(checks) # 0 <=> \E i \in 1..4 : ~checks[i]
  BY <1>1, Verdicts
<1>3. (\E i \in 1..4 : ~checks[i]) <=> ~a \/ ~b \/ ~c \/ ~d
  BY <1>1
<1> QED
  BY <1>2, <1>3 DEF checks

LEMMA Pair ==
  ASSUME NEW lies, NEW symbol, NEW good, NEW bad, ~good, bad
  PROVE  Bites(<<~Says(symbol, lies, good), Says(symbol, lies, bad)>>, symbol, lies)
  BY TwoChecks DEF Bites, Says

LEMMA PairHolds ==
  ASSUME NEW lies, NEW symbol, NEW good, NEW bad, good, ~bad
  PROVE  Bites(<<Says(symbol, lies, good), ~Says(symbol, lies, bad)>>, symbol, lies)
  BY TwoChecks DEF Bites, Says

LEMMA Teeth_api_bfla ==
  ASSUME NEW lies
  PROVE  Bites(api_bfla(lies), "FunctionAuthz.can_invoke", lies)
<1> DEFINE can(role, f) == Says("FunctionAuthz.can_invoke", lies, FunctionAuthz(role, f))
           escalates == \E f \in ADMIN_FUNCTIONS : can("user", f)
           caught == \E f \in ADMIN_FUNCTIONS : AuthOnlyAuthz("user", f)
<1>1. RunSelfTest(api_bfla(lies)) # 0 <=> ~can("admin", "delete_user") \/ escalates \/ ~caught
  BY ThreeChecks DEF api_bfla, Checks, Oracle
<1>2. can("admin", "delete_user") <=> "FunctionAuthz.can_invoke" \notin lies
  BY DEF Says, FunctionAuthz, ADMIN_FUNCTIONS
<1>3. escalates <=> "FunctionAuthz.can_invoke" \in lies
  BY DEF Says, FunctionAuthz, ADMIN_FUNCTIONS
<1>4. caught
  BY DEF AuthOnlyAuthz, ADMIN_FUNCTIONS
<1> QED
  BY <1>1, <1>2, <1>3, <1>4 DEF Bites

LEMMA Teeth_api_object_property_authz ==
  ASSUME NEW lies
  PROVE  Bites(api_object_property_authz(lies), "leaks_sensitive_fields", lies)
<1>1. /\ PublicUser \subseteq Serialize("oracle", DbRecord)
      /\ ~(Serialize("oracle", DbRecord) \cap Sensitive # {})
      /\ (Serialize("buggy", DbRecord) \cap Sensitive # {})
  BY DEF Serialize, DbRecord, Sensitive, PublicUser, Oracle
<1> QED
  BY <1>1, Probes DEF api_object_property_authz

LEMMA Teeth_async_http_contract ==
  ASSUME NEW lies
  PROVE  Bites(async_http_contract(lies), "fetch_with_retry", lies)
<1>1. ASSUME NEW fault \in {"503", "timeout"}
      PROVE  survives_transient("oracle", fault) /\ ~survives_transient("buggy", fault)
  BY DEF survives_transient, Get, NewFetch, FetchWithRetry, FetchNoRetry, Fetched, Spent, Attempts,
     Transport, Oracle
<1>2. /\ survives_transient("oracle", "503") /\ ~survives_transient("buggy", "503")
      /\ survives_transient("oracle", "timeout") /\ ~survives_transient("buggy", "timeout")
  BY <1>1
<1> QED
  BY <1>2, FourChecks DEF Bites, async_http_contract, Oracle

LEMMA Teeth_cookie_security ==
  ASSUME NEW lies
  PROVE  Bites(cookie_security(lies), "cookie_missing_flags", lies)
<1>1. /\ SetCookie("oracle", "abc")["value"] = "abc"
      /\ ~~Validates(SetCookie("oracle", "abc"), COOKIE_REQUIRED)
      /\ ~Validates(SetCookie("buggy", "abc"), COOKIE_REQUIRED)
  BY DEF SetCookie, Validates, COOKIE_REQUIRED, Oracle
<1> QED
  BY <1>1, Probes DEF cookie_security

LEMMA Teeth_cors_misconfig ==
  ASSUME NEW lies
  PROVE  Bites(cors_misconfig(lies), "reflects_untrusted_origin", lies)
<1>1. /\ Reflects("oracle", AppHost)
      /\ ~Reflects("oracle", EvilHost)
      /\ Reflects("buggy", EvilHost)
  BY DEF Reflects, AppHost, EvilHost, Host, Allowed, Oracle
<1> QED
  BY <1>1, Probes DEF cors_misconfig

LEMMA Teeth_crypto_agility ==
  ASSUME NEW lies
  PROVE  Bites(crypto_agility(lies), "accepts_deprecated_signature", lies)
<1> DEFINE serves == Agile("oracle", 3072, "sha256", TRUE)
           fooled == Agile("oracle", 1024, "sha1", TRUE)
           caught == Agile("buggy", 1024, "sha1", TRUE)
<1>1. serves /\ ~fooled /\ caught
  BY SMT DEF Agile, MIN_RSA_BITS, APPROVED_HASHES, Oracle
<1>2. crypto_agility(lies) = Checks(serves, Says("accepts_deprecated_signature", lies, fooled),
                                    Says("accepts_deprecated_signature", lies, caught))
  BY Zenon DEF crypto_agility
<1> HIDE DEF serves, fooled, caught
<1> QED
  BY <1>1, <1>2, Probes

LEMMA Teeth_crypto_correctness ==
  ASSUME NEW lies
  PROVE  Bites(crypto_correctness(lies), "AeadBox.decrypt", lies)
<1> DEFINE box == Encrypt("msg")
           flipped == [box EXCEPT !.body = "flipped"]
           opened == Opened("oracle", box, lies)
<1>1. /\ Decrypts("oracle", box) /\ ~Decrypts("oracle", flipped) /\ Decrypts("buggy", flipped)
  BY DEF Decrypts, Encrypt, Oracle
<1>2. opened = <<"msg">> <=> "AeadBox.decrypt" \notin lies
  BY DEF Opened, Encrypt, Oracle
<1>3. RunSelfTest(crypto_correctness(lies)) # 0
        <=> ~(Decrypts("oracle", box) /\ opened = <<"msg">>) \/ Decrypts("oracle", flipped) \/ ~Decrypts("buggy", flipped)
  BY ThreeChecks DEF crypto_correctness, Checks
<1> HIDE DEF box, flipped, opened
<1> QED
  BY <1>1, <1>2, <1>3 DEF Bites

LEMMA Teeth_csrf_token ==
  ASSUME NEW lies
  PROVE  Bites(csrf_token(lies), "accepts_cross_session_token", lies)
<1>1. /\ legit_token_validates("oracle")
      /\ ~accepts_cross_session_token("oracle")
      /\ accepts_cross_session_token("buggy")
  BY Wires DEF legit_token_validates, accepts_cross_session_token, CsrfValidates, CsrfIssued,
     SynchronizerCsrf, StaticCsrf, StaticToken, Oracle, Genuine, Sealed, Forged, Text, N1, Me, Them,
     T0
<1> QED
  BY <1>1, Probes DEF csrf_token

LEMMA Teeth_dependency_confusion ==
  ASSUME NEW lies
  PROVE  Bites(dependency_confusion(lies), "resolves_public_over_internal", lies)
<1> DEFINE internal == [version |-> 1, source |-> "internal"]
           public   == [version |-> 9, source |-> "public"]
           beaten(side) == Chosen(side, "internal-lib", {internal, public}) = {public}
<1>1. dependency_confusion(lies) =
        Checks(Chosen("oracle", "internal-lib", {internal}) = {internal},
               Says("resolves_public_over_internal", lies, beaten("oracle")),
               Says("resolves_public_over_internal", lies, beaten("buggy")))
  BY DEF dependency_confusion
<1>2. /\ internal.version = 1 /\ internal.source = "internal"
      /\ public.version = 9 /\ public.source = "public"
  OBVIOUS
<1> HIDE DEF internal, public
<1>3. /\ Pool("oracle", "internal-lib", {internal}) = {internal}
      /\ Pool("oracle", "internal-lib", {internal, public}) = {internal}
      /\ Pool("buggy", "internal-lib", {internal, public}) = {internal, public}
  BY <1>2 DEF Pool, INTERNAL_NAMES, Oracle
<1>4. Chosen("oracle", "internal-lib", {internal}) = {internal} /\ ~beaten("oracle") /\ beaten("buggy")
  BY <1>2, <1>3 DEF Chosen
<1> HIDE DEF beaten
<1> QED
  BY <1>1, <1>4, Probes

LEMMA Teeth_eu_ai_act_logging ==
  ASSUME NEW lies
  PROVE  Bites(eu_ai_act_logging(lies), "accepts_incomplete_event", lies)
<1>1. /\ records_complete_event("oracle")
      /\ ~accepts_incomplete_event("oracle")
      /\ accepts_incomplete_event("buggy")
  BY DEF records_complete_event, accepts_incomplete_event, Records, ValidEvent, EventSchema, Oracle
<1> QED
  BY <1>1, Probes DEF eu_ai_act_logging

LEMMA Teeth_failopen_authz ==
  ASSUME NEW lies
  PROVE  Bites(failopen_authz(lies), "fails_open_on_error", lies)
<1>1. /\ Authorized("oracle", "allow")
      /\ ~Authorized("oracle", "down")
      /\ Authorized("buggy", "down")
  BY DEF Authorized, Oracle
<1> QED
  BY <1>1, Probes DEF failopen_authz

LEMMA Teeth_graphql_depth_limit ==
  ASSUME NEW lies
  PROVE  Bites(graphql_depth_limit(lies), "executes_deeply_nested", lies)
<1>1. \E path \in DEEP : Len(path) = 6
  <2> DEFINE chain == <<"a", "b", "c", "d", "e", "f", "g">>
  <2>1. chain \in Seq({"a", "b", "c", "d", "e", "f", "g"}) /\ Len(chain) = 7 /\ 6 \in 1..7
    OBVIOUS
  <2>2. DEEP = {SubSeq(chain, 1, n) : n \in 1..7}
    BY DEF DEEP
  <2> HIDE DEF chain
  <2>3. Len(SubSeq(chain, 1, 6)) = 6
    BY <2>1
  <2> QED
    BY <2>1, <2>2, <2>3
<1>2. /\ ExecuteQuery("oracle", SHALLOW)
      /\ ~ExecuteQuery("oracle", DEEP)
      /\ ExecuteQuery("buggy", DEEP)
  <2>1. ~QueryTooDeep(SHALLOW, MAX_DEPTH)
    <3> SUFFICES ASSUME NEW path \in SHALLOW, Len(path) > 5
                 PROVE  FALSE
      BY DEF QueryTooDeep, MAX_DEPTH
    <3>1. path = <<"user">> \/ path = <<"user", "name">> \/ path = <<"user", "email">>
      BY DEF SHALLOW
    <3>2. CASE path = <<"user">>
      BY <3>2
    <3>3. CASE path = <<"user", "name">>
      BY <3>3
    <3>4. CASE path = <<"user", "email">>
      BY <3>4
    <3> QED
      BY <3>1, <3>2, <3>3, <3>4
  <2>2. QueryTooDeep(DEEP, MAX_DEPTH)
    <3> PICK path \in DEEP : Len(path) = 6
      BY <1>1
    <3>1. Len(path) > 5
      OBVIOUS
    <3> QED
      BY <3>1 DEF QueryTooDeep, MAX_DEPTH
  <2> QED
    BY <2>1, <2>2 DEF ExecuteQuery, Oracle
<1> QED
  BY <1>2, Probes DEF graphql_depth_limit

LEMMA Teeth_hallucinated_dependency ==
  ASSUME NEW lies
  PROVE  Bites(hallucinated_dependency(lies), "pin_resolves", lies)
<1> DEFINE real  == {Pin(name, Installed[name]) : name \in DOMAIN Installed}
           wrong == Pin("pydantic", "99.99.99")
           bogus == {wrong, Pin("nonexistent-typosquat-pkg-xyz", "1.0.0")}
<1>1. /\ Pin("pydantic", "live") \in real /\ \A p \in real : pin_resolves(p)
      /\ \A p \in bogus : ~pin_resolves(p)
      /\ wrong \in bogus /\ wrong[1] \in DOMAIN Installed
  BY DEF Pin, Installed, pin_resolves
<1> DEFINE clean  == HallucinatedPins("oracle", lies, real) = {}
           all    == HallucinatedPins("oracle", lies, bogus) = bogus
           missed == wrong \notin HallucinatedPins("buggy", lies, bogus)
<1>2. hallucinated_dependency(lies) = <<clean, all, missed>>
  BY Zenon DEF hallucinated_dependency
<1> HIDE DEF real, wrong, bogus
<1>3. clean <=> "pin_resolves" \notin lies
  BY <1>1 DEF HallucinatedPins, Says, Oracle
<1>4. all <=> "pin_resolves" \notin lies
  BY <1>1 DEF HallucinatedPins, Says, Oracle
<1>5. missed
  BY <1>1 DEF HallucinatedPins, Oracle
<1> HIDE DEF clean, all, missed
<1>6. RunSelfTest(<<clean, all, missed>>) # 0 <=> ~clean \/ ~all \/ ~missed
  BY ThreeChecks
<1> QED
  BY Zenon, <1>2, <1>3, <1>4, <1>5, <1>6 DEF Bites

LEMMA Teeth_hallucinated_symbol ==
  ASSUME NEW lies
  PROVE  Bites(hallucinated_symbol(lies), "attribute_exists", lies)
<1> DEFINE invented == {"BaseModelz", "field_validatorr"}
<1>1. HallucinatedAttributes("oracle", lies, Surface) = {} <=> "attribute_exists" \notin lies
  BY DEF HallucinatedAttributes, Says, Surface, Oracle
<1>2. invented \subseteq HallucinatedAttributes("oracle", lies, invented) <=> "attribute_exists" \notin lies
  BY DEF HallucinatedAttributes, Says, Surface, Oracle
<1>3. invented \cap HallucinatedAttributes("buggy", lies, invented) = {}
  BY DEF HallucinatedAttributes, Oracle
<1> HIDE DEF invented
<1> QED
  BY <1>1, <1>2, <1>3, ThreeChecks DEF Bites, hallucinated_symbol, invented

LEMMA Teeth_jwt_alg_confusion ==
  ASSUME NEW lies
  PROVE  Bites(jwt_alg_confusion(lies), "StrictVerifier.verify", lies)
<1>1. /\ accepts_token("oracle", mint_rs256) /\ mint_rs256.claims = CLAIMS
      /\ ~accepts_token("oracle", forge_alg_none)
      /\ ~accepts_token("oracle", forge_hs256_with_public_key)
      /\ pyjwt_floor_rejects_confusion(forge_hs256_with_public_key)
  BY DEF accepts_token, StrictVerifier, mint_rs256, forge_alg_none, forge_hs256_with_public_key, Jwt,
     pyjwt_floor_rejects_confusion, Oracle
<1>2. accepts_token("buggy", forge_alg_none) /\ accepts_token("buggy", forge_hs256_with_public_key)
  <2>1. /\ forge_alg_none.alg = "none" /\ forge_hs256_with_public_key.alg = "HS256"
        /\ forge_hs256_with_public_key.signature = <<"public", forge_hs256_with_public_key.claims>>
    BY DEF forge_alg_none, forge_hs256_with_public_key, Jwt
  <2>2. ConfusedVerifier(forge_alg_none, CLAIMS.aud, CLAIMS.iss)
    BY Zenon, <2>1 DEF ConfusedVerifier
  <2>3. ConfusedVerifier(forge_hs256_with_public_key, CLAIMS.aud, CLAIMS.iss)
    BY Zenon, <2>1 DEF ConfusedVerifier
  <2> QED
    BY <2>2, <2>3 DEF accepts_token, Oracle
<1> DEFINE given == IF accepts_token("oracle", mint_rs256) /\ "StrictVerifier.verify" \notin lies
                    THEN {mint_rs256.claims} ELSE {}
           checks == jwt_alg_confusion(lies)
<1>3. /\ DOMAIN checks = 1..7 /\ 7 \in Nat
      /\ checks[1] = accepts_token("oracle", mint_rs256)
      /\ checks[2] = (CLAIMS \in given)
      /\ checks[3] = ~accepts_token("oracle", forge_alg_none)
      /\ checks[4] = ~accepts_token("oracle", forge_hs256_with_public_key)
      /\ checks[5] = accepts_token("buggy", forge_hs256_with_public_key)
      /\ checks[6] = accepts_token("buggy", forge_alg_none)
      /\ checks[7] = pyjwt_floor_rejects_confusion(forge_hs256_with_public_key)
  BY DEF jwt_alg_confusion
<1>4. CLAIMS \in given <=> "StrictVerifier.verify" \notin lies
  BY <1>1
<1> HIDE DEF checks, given
<1>5. RunSelfTest(checks) # 0 <=> \E i \in 1..7 : ~checks[i]
  BY <1>3, Verdicts
<1>6. checks[1] /\ checks[3] /\ checks[4] /\ checks[5] /\ checks[6] /\ checks[7]
      /\ (checks[2] <=> "StrictVerifier.verify" \notin lies)
  BY <1>1, <1>2, <1>3, <1>4
<1>7. (\E i \in 1..7 : ~checks[i]) <=> "StrictVerifier.verify" \in lies
  BY <1>6
<1> QED
  BY <1>5, <1>7 DEF Bites, checks

LEMMA Teeth_jwt_audience_binding ==
  ASSUME NEW lies
  PROVE  Bites(jwt_audience_binding(lies), "accepts_wrong_audience", lies)
<1>1. /\ Audience("oracle", "service-B", "service-B")
      /\ ~Audience("oracle", "service-B", "service-A")
      /\ Audience("buggy", "service-B", "service-A")
  BY DEF Audience, Oracle
<1> QED
  BY <1>1, Probes DEF jwt_audience_binding

LEMMA Teeth_mutation_quality ==
  ASSUME NEW lies
  PROVE  RunSelfTest(mutation_quality(lies)) = 0
<1>1. \A n : /\ IsPositive("n > 0", n) = (n > 0)
             /\ IsPositive("n >= 0", n) = (n >= 0)
             /\ IsPositive("n > 1", n) = (n > 1)
  BY Zenon DEF IsPositive
<1> DEFINE lives(suite) == {m \in {"n >= 0", "n > 1"} : \A n \in suite : IsPositive(m, n) = IsPositive("n > 0", n)}
<1>2. lives({5, 1, 0, -3}) = {}
  <2>1. (0 >= 0) # (0 > 0) /\ (1 > 1) # (1 > 0)
    OBVIOUS
  <2>2. IsPositive("n >= 0", 0) # IsPositive("n > 0", 0) /\ IsPositive("n > 1", 1) # IsPositive("n > 0", 1)
    BY <1>1, <2>1
  <2> QED
    BY Zenon, <2>2
<1>3. "n > 1" \in lives({5})
  <2>1. (5 > 1) = (5 > 0)
    OBVIOUS
  <2>2. IsPositive("n > 1", 5) = IsPositive("n > 0", 5)
    BY <1>1, <2>1
  <2> QED
    BY Zenon, <2>2
<1>4. IsFiniteSet(lives({5}))
  <2>1. IsFiniteSet({}) /\ IsFiniteSet({} \cup {"n >= 0"})
    BY FS_EmptySet, FS_AddElement
  <2>2. IsFiniteSet(({} \cup {"n >= 0"}) \cup {"n > 1"})
    BY <2>1, FS_AddElement
  <2>3. lives({5}) \subseteq ({} \cup {"n >= 0"}) \cup {"n > 1"}
    BY Zenon
  <2> HIDE DEF lives
  <2> QED
    BY <2>2, <2>3, FS_Subset
<1>5. count_survivors({5, 1, 0, -3}) = Cardinality(lives({5, 1, 0, -3})) /\ count_survivors({5}) = Cardinality(lives({5}))
  BY Zenon DEF count_survivors
<1> HIDE DEF lives
<1>6. count_survivors({5, 1, 0, -3}) = 0 /\ count_survivors({5}) > 0
  <2>1. count_survivors({5, 1, 0, -3}) = 0
    BY Zenon, <1>2, <1>5, FS_EmptySet
  <2>2. Cardinality(lives({5})) \in Nat /\ Cardinality(lives({5})) # 0
    BY Zenon, <1>3, <1>4, FS_EmptySet, FS_CardinalityType
  <2> QED
    BY <1>5, <2>1, <2>2
<1>7. RunSelfTest(<<count_survivors({5, 1, 0, -3}) = 0, count_survivors({5}) > 0>>) = 0
  BY <1>6, TwoChecks
<1>8. RunSelfTest(<<>>) = 0
  <2>1. {i \in DOMAIN <<>> : ~<<>>[i]} = {}
    OBVIOUS
  <2> QED
    BY <2>1, FS_EmptySet DEF RunSelfTest, Failures
<1>9. mutation_quality(lies) = <<count_survivors({5, 1, 0, -3}) = 0, count_survivors({5}) > 0>> \/ mutation_quality(lies) = <<>>
  BY Zenon DEF mutation_quality
<1> QED
  BY Zenon, <1>7, <1>8, <1>9

LEMMA Teeth_oauth_pkce ==
  ASSUME NEW lies
  PROVE  Bites(oauth_pkce(lies), "accepts_intercepted_code", lies)
<1>1. /\ exchanges_with_correct_verifier("oracle")
      /\ ~accepts_intercepted_code("oracle")
      /\ accepts_intercepted_code("buggy")
  BY DEF exchanges_with_correct_verifier, accepts_intercepted_code, Exchanges, PkceAuthServer,
     NoPkceAuthServer, S256, N1, Me, Them, Oracle
<1> QED
  BY <1>1, Probes DEF oauth_pkce

LEMMA Teeth_open_redirect ==
  ASSUME NEW lies
  PROVE  Bites(open_redirect(lies), "redirects_offsite", lies)
<1> DEFINE there == Target("absolute", EvilHost)
           path == Target("path", Host("", ""))
           offsite(side) == Resolve(side, there).kind = "absolute" /\ Resolve(side, there).host.canon \notin Allowed
<1>1. Resolve("oracle", path) = path /\ ~offsite("oracle") /\ offsite("buggy")
  BY DEF Resolve, Target, EvilHost, Host, Allowed, Root, Oracle
<1>2. open_redirect(lies) = Checks(Resolve("oracle", path) = path,
                                   Says("redirects_offsite", lies, offsite("oracle")),
                                   Says("redirects_offsite", lies, offsite("buggy")))
  BY DEF open_redirect
<1> DEFINE serves == Resolve("oracle", path) = path
<1>3. serves /\ open_redirect(lies) = Checks(serves, Says("redirects_offsite", lies, offsite("oracle")),
                                              Says("redirects_offsite", lies, offsite("buggy")))
  BY <1>1, <1>2
<1> HIDE DEF offsite, path, there, serves
<1> QED
  BY <1>1, <1>3, Probes

LEMMA Teeth_openapi_fuzz ==
  ASSUME NEW lies
  PROVE  Bites(openapi_fuzz(lies), "conforms_to_contract", lies)
<1>1. conforms_to_contract(COUNT["oracle"]) /\ ~conforms_to_contract(COUNT["buggy"])
  BY DEF conforms_to_contract, COUNT
<1> QED
  BY <1>1, PairHolds DEF openapi_fuzz

LEMMA Teeth_password_hashing ==
  ASSUME NEW lies
  PROVE  Bites(password_hashing(lies), "identical_hash_for_same_password", lies)
<1>1. /\ VerifyPassword("oracle", "hunter2", HashPassword("oracle", "hunter2", "salt1"))
      /\ ~(HashPassword("oracle", "hunter2", "salt1") = HashPassword("oracle", "hunter2", "salt2"))
      /\ (HashPassword("buggy", "hunter2", "salt1") = HashPassword("buggy", "hunter2", "salt2"))
  BY DEF VerifyPassword, HashPassword, Oracle
<1> QED
  BY <1>1, Probes DEF password_hashing

LEMMA Teeth_prompt_cache_prefix ==
  ASSUME NEW lies
  PROVE  Bites(prompt_cache_prefix(lies), "prefix_is_stable", lies)
<1>1. /\ prefix_is_stable(stable_prompt)
      /\ ~prefix_is_stable(buggy_prompt)
      /\ naive_prefix_check(buggy_prompt)
  BY DEF prefix_is_stable, naive_prefix_check, CachedPrefix, stable_prompt, buggy_prompt, Block
<1> QED
  BY <1>1, ThreeChecks DEF Bites, prompt_cache_prefix, Says

LEMMA Teeth_property_roundtrip ==
  ASSUME NEW lies
  PROVE  Bites(property_roundtrip(lies), "rle_decode", lies)
<1> DEFINE back(side, t) == rle_decode(side, lies, rle_encode(t))
           counterexample(side) == \E t \in ShortTexts : back(side, t) # t
           letter == [i \in 1..1 |-> "a"]
<1>1. RunSelfTest(property_roundtrip(lies)) # 0 <=> counterexample("oracle") \/ ~counterexample("buggy")
  BY TwoChecks DEF property_roundtrip
<1>2. letter \in ShortTexts /\ Len(letter) = 1 /\ letter[1] = "a"
  BY DEF ShortTexts, Letters, MaxText
<1>3. ShortTexts \subseteq Seq(Letters)
  <2>1. \A n \in 0..MaxText : [1..n -> Letters] \subseteq Seq(Letters)
    BY DEF MaxText
  <2> QED
    BY <2>1 DEF ShortTexts
<1>4. \A t \in ShortTexts : Decoded("oracle", rle_encode(t)) = t
  BY <1>3, RoundTrips
<1> HIDE DEF letter
<1>5. counterexample("buggy")
  <2>1. rle_encode(letter) = <<<<"a", 1>>>>
    <3>1. IsEncoding(letter, 1, Encoding(letter))
      <4>1. IsEncoding(letter, Len(letter), Encoding(letter))
        <5>1. Len(letter) \in Nat
          BY <1>2
        <5> QED
          BY Zenon, <5>1, EncodingIs
      <4> QED
        BY <1>2, <4>1
    <3>2. Encoding(letter)[0] = <<>> /\ Encoding(letter)[1] = RleStep("a", Encoding(letter)[0])
      BY <1>2, <3>1 DEF IsEncoding
    <3> QED
      BY <1>2, <3>2 DEF rle_encode, RleStep
  <2> DEFINE runs == <<<<"a", 1>>>>
  <2>2. Len(runs) = 1 /\ runs[1][2] = 1
    OBVIOUS
  <2> HIDE DEF runs
  <2>3. Repeat("buggy", runs[1]) = <<>>
    BY <2>2 DEF Repeat, Oracle
  <2>4. Decoded("buggy", runs) = <<>>
    <3>1. IsDecoding("buggy", runs, 1, Decoding("buggy", runs))
      <4>1. IsDecoding("buggy", runs, Len(runs), Decoding("buggy", runs))
        <5>1. Len(runs) \in Nat
          BY <2>2
        <5> QED
          BY Zenon, <5>1, DecodingIs
      <4> QED
        BY <2>2, <4>1
    <3>2. Decoding("buggy", runs)[0] = <<>>
          /\ Decoding("buggy", runs)[1] = Longer("buggy", Decoding("buggy", runs)[0], runs[1])
      BY <3>1 DEF IsDecoding
    <3> QED
      BY <2>2, <2>3, <3>2 DEF Decoded, Longer
  <2>5. back("buggy", letter) = <<>>
    BY <2>1, <2>4 DEF rle_decode, Oracle, runs
  <2> HIDE DEF back
  <2> QED
    BY <1>2, <2>5
<1>6. CASE "rle_decode" \in lies
  <2>1. back("oracle", letter) = letter \o <<"_MUT">>
    BY <1>2, <1>4, <1>6 DEF rle_decode, Oracle
  <2>2. letter \in Seq(Letters)
    BY <1>2, <1>3
  <2> DEFINE then(t) == t \o <<"_MUT">>
  <2>3. \A t \in Seq(Letters \cup {"_MUT"}) : Len(then(t)) = Len(t) + 1
    OBVIOUS
  <2>4. letter \in Seq(Letters \cup {"_MUT"})
    BY <2>2
  <2> HIDE DEF back, then
  <2>5. Len(then(letter)) = 2
    <3>1. Len(then(letter)) = Len(letter) + 1
      BY Zenon, <2>3, <2>4
    <3> QED
      BY <1>2, <3>1
  <2>6. back("oracle", letter) # letter
    BY <1>2, <2>1, <2>5 DEF then
  <2> QED
    BY <1>1, <1>2, <1>6, <2>6 DEF Bites
<1>7. CASE "rle_decode" \notin lies
  <2>1. \A t \in ShortTexts : back("oracle", t) = t \o <<>>
    BY <1>4, <1>7 DEF rle_decode, Oracle
  <2>2. \A t \in ShortTexts : t \o <<>> = t
    BY <1>3
  <2> HIDE DEF back
  <2>3. ~counterexample("oracle")
    BY <2>1, <2>2
  <2> QED
    BY <1>1, <1>5, <1>7, <2>3 DEF Bites
<1> QED
  BY <1>6, <1>7

LEMMA Teeth_provenance_attestation ==
  ASSUME NEW lies
  PROVE  Bites(provenance_attestation(lies), "accepts_unbound_artifact", lies)
<1>1. /\ Provenance("oracle", "good", Attest("good"))
      /\ ~Provenance("oracle", "other", Attest("good"))
      /\ Provenance("buggy", "other", Attest("good"))
  BY DEF Provenance, Attest, Digest, Oracle
<1> QED
  BY <1>1, Probes DEF provenance_attestation

LEMMA Teeth_rbac_authz_differential ==
  ASSUME NEW lies
  PROVE  Bites(rbac_authz_differential(lies), "reference_allow", lies)
<1> DEFINE ref(c) == reference_allow(c.policy, c.roles, c.resource, c.action)
           none == RbacCase({}, {}, "read")
           more == RbacCase({<<"doc", "read">>}, {"viewer"}, "write")
<1>1. \A c : Allows("oracle", c) <=> ref(c)
  BY DEF Allows, oracle_allow, reference_allow, Oracle
<1>2. \A side, c : Allows(side, c) \in BOOLEAN /\ ref(c) \in BOOLEAN
  BY DEF Allows, oracle_allow, buggy_allow, reference_allow
<1>3. none \in RbacCases /\ more \in RbacCases
  BY DEF RbacCases, Verbs
<1>4. ~Allows("buggy", none) /\ ~ref(none)
  BY DEF Allows, buggy_allow, reference_allow, RbacCase, Oracle
<1>5. Allows("buggy", more) /\ ~ref(more)
  <2>1. more.roles = {"viewer"} /\ more.resource = "doc" /\ more.action = "write"
        /\ DOMAIN more.policy = {"viewer"} /\ more.policy["viewer"] = {<<"doc", "read">>}
    BY DEF RbacCase
  <2>2. <<"doc", "read">>[1] = "doc" /\ <<"doc", "read">> # <<"doc", "write">>
    OBVIOUS
  <2> HIDE DEF more
  <2> QED
    BY <2>1, <2>2 DEF Allows, buggy_allow, reference_allow, Oracle
<1> HIDE DEF none, more, ref
<1>6. ASSUME NEW side
      PROVE  Diverges(side, lies, RbacCases)
               <=> \E c \in RbacCases : Allows(side, c) # Says("reference_allow", lies, ref(c))
  BY DEF Diverges, ref
<1>7. Diverges("oracle", lies, RbacCases) <=> "reference_allow" \in lies
  <2>1. CASE "reference_allow" \in lies
    BY <1>1, <1>2, <1>3, <1>6, <2>1 DEF Says
  <2>2. CASE "reference_allow" \notin lies
    BY <1>1, <1>2, <1>6, <2>2 DEF Says
  <2> QED
    BY <2>1, <2>2
<1>8. Diverges("buggy", lies, RbacCases)
  <2>1. CASE "reference_allow" \in lies
    BY <1>3, <1>4, <1>6, <2>1 DEF Says
  <2>2. CASE "reference_allow" \notin lies
    BY <1>3, <1>5, <1>6, <2>2 DEF Says
  <2> QED
    BY <2>1, <2>2
<1> QED
  BY <1>7, <1>8, TwoChecks DEF Bites, rbac_authz_differential

LEMMA Teeth_reset_token_design ==
  ASSUME NEW lies
  PROVE  Bites(reset_token_design(lies), "token_forgeable", lies)
<1>1. /\ Text(N1, Me, T0 + Ttl).who = <<1>> /\ Text(N1, Me, T0 + Ttl).id = <<1>>
      /\ Text(N1, Me, T0 + Ttl).t = T0 + Ttl /\ Text(N1, Me, T0 + Ttl).purpose = "pwreset"
      /\ Len(<<1>>) = 1 /\ T0 <= T0 + Ttl /\ <<1>> \in {<<n>> : n \in 1..1000}
  BY VerifierAssumption DEF Text, N1, Me, T0
<1> DEFINE x == Text(N1, Me, T0 + Ttl)
<1>2. /\ Sealed("reset", x).text = x /\ Genuine("reset", Sealed("reset", x))
      /\ Forged("reset", x).text = x /\ ~Genuine("reset", Forged("reset", x))
      /\ Forged("reset", x) = Forged("reset", Forged("reset", x).text)
  BY DEF Sealed, Forged, Genuine
<1> HIDE DEF x
<1>3. legit_token_verifies("oracle")
  BY <1>1, <1>2 DEF legit_token_verifies, ResetVerifies, ResetIssued, SignedTokenDesign, Me, Oracle, x
<1>4. ~token_forgeable("oracle")
  BY <1>2 DEF token_forgeable, ResetVerifies, SignedTokenDesign, Oracle, x
<1>5. PredictableTokenDesign(Me, Forged("reset", x))
  BY <1>1, <1>2 DEF PredictableTokenDesign, Me, x
<1>6. token_forgeable("buggy")
  BY <1>5 DEF token_forgeable, ResetVerifies, Oracle, x
<1> QED
  BY <1>3, <1>4, <1>6, Probes DEF reset_token_design

LEMMA Teeth_retry_resilience ==
  ASSUME NEW lies
  PROVE  Bites(retry_resilience(lies), "retries_permanent", lies)
<1> DEFINE Is(side, g) == g = [i \in 0..MaxAttempts |->
                                 IF i = 0 THEN NewTry
                                 ELSE IF g[i - 1].ends = "running" THEN Try(side, g[i - 1], "permanent")
                                 ELSE g[i - 1]]
           after(side) == CHOOSE g : Is(side, g)
<1>1. \A side : attempts_for_permanent(side) = after(side)[MaxAttempts].n
  BY DEF attempts_for_permanent
<1>2. Is("oracle", [i \in 0..MaxAttempts |-> IF i = 0 THEN NewTry ELSE [n |-> 1, ends |-> "permanent"]])
  BY DEF NewTry, Try, Retries, MaxAttempts, Oracle
<1>3. Is("buggy", [i \in 0..MaxAttempts |->
                     IF i = 0 THEN NewTry ELSE [n |-> i, ends |-> IF i < 3 THEN "running" ELSE "permanent"]])
  BY DEF NewTry, Try, Retries, MaxAttempts, Oracle
<1>4. Is("oracle", after("oracle")) /\ Is("buggy", after("buggy"))
  BY <1>2, <1>3
<1> HIDE DEF after
<1>5. after("oracle")[MaxAttempts].n = 1
  <2> DEFINE g == after("oracle")
  <2>1. \A i \in 0..3 : g[i] = IF i = 0 THEN NewTry
                               ELSE IF g[i - 1].ends = "running" THEN Try("oracle", g[i - 1], "permanent")
                               ELSE g[i - 1]
    BY <1>4 DEF MaxAttempts
  <2> HIDE DEF g
  <2>2. g[0] = NewTry /\ g[1] = Try("oracle", NewTry, "permanent")
    BY <2>1 DEF NewTry
  <2>3. g[1].ends = "permanent" /\ g[1].n = 1
    BY <2>2 DEF Try, Retries, NewTry, Oracle
  <2>4. g[2] = g[1] /\ g[3] = g[1]
    BY <2>1, <2>3
  <2> QED
    BY <2>3, <2>4 DEF g, MaxAttempts
<1>6. after("buggy")[MaxAttempts].n = 3
  <2> DEFINE g == after("buggy")
  <2>1. \A i \in 0..3 : g[i] = IF i = 0 THEN NewTry
                               ELSE IF g[i - 1].ends = "running" THEN Try("buggy", g[i - 1], "permanent")
                               ELSE g[i - 1]
    BY <1>4 DEF MaxAttempts
  <2> HIDE DEF g
  <2>2. g[0].n = 0 /\ g[0].ends = "running"
    BY <2>1 DEF NewTry
  <2>3. g[1].n = 1 /\ g[1].ends = "running"
    BY <2>1, <2>2 DEF Try, Retries, Oracle, MaxAttempts
  <2>4. g[2].n = 2 /\ g[2].ends = "running"
    BY <2>1, <2>3 DEF Try, Retries, Oracle, MaxAttempts
  <2>5. g[3].n = 3
    BY <2>1, <2>4 DEF Try
  <2> QED
    BY <2>5 DEF g, MaxAttempts
<1>7. ~retries_permanent("oracle") /\ retries_permanent("buggy")
  BY <1>1, <1>5, <1>6 DEF retries_permanent
<1> QED
  BY <1>7, Pair DEF retry_resilience

LEMMA Teeth_schema_validation ==
  ASSUME NEW lies
  PROVE  Bites(schema_validation(lies), "mishandles_a_variant", lies)
<1>1. /\ ~\E s \in Shapes : ~AreaPositive("oracle", s)
      /\ \E s \in Shapes : ~AreaPositive("buggy", s)
      /\ ~AreaPositive("buggy", "triangle")
  BY DEF AreaPositive, Shapes, Oracle
<1> QED
  BY <1>1, ThreeChecks DEF Bites, schema_validation, Says

LEMMA Teeth_secret_scanning ==
  ASSUME NEW lies
  PROVE  Bites(secret_scanning(lies), "misses_real_secrets", lies)
<1> DEFINE found(side) == BLOB \cap KnownShapes(side)
<1>1. found("oracle") = {"aws key", "base64 token", "private key"} /\ found("buggy") = {}
  BY DEF BLOB, KnownShapes, Oracle
<1>2. IsFiniteSet(found("oracle"))
  <2>1. IsFiniteSet({}) /\ IsFiniteSet({} \cup {"aws key"}) /\ IsFiniteSet(({} \cup {"aws key"}) \cup {"base64 token"})
    BY FS_EmptySet, FS_AddElement
  <2>2. IsFiniteSet((({} \cup {"aws key"}) \cup {"base64 token"}) \cup {"private key"})
    BY <2>1, FS_AddElement
  <2>3. found("oracle") = (({} \cup {"aws key"}) \cup {"base64 token"}) \cup {"private key"}
    BY <1>1
  <2> QED
    BY <2>2, <2>3
<1> HIDE DEF found
<1>3. ~(Cardinality(found("oracle")) = 0) /\ Cardinality(found("buggy")) = 0
  BY <1>1, <1>2, FS_EmptySet
<1> QED
  BY <1>3, Pair DEF secret_scanning, found

LEMMA Teeth_security_headers ==
  ASSUME NEW lies
  PROVE  Bites(security_headers(lies), "missing_security_headers", lies)
<1>1. /\ "Content-Type" \in DOMAIN Headers("oracle")
      /\ ~~Validates(Headers("oracle"), HEADERS_REQUIRED)
      /\ ~Validates(Headers("buggy"), HEADERS_REQUIRED)
  BY DEF Headers, Validates, HEADERS_REQUIRED, Oracle
<1> QED
  BY <1>1, Probes DEF security_headers

LEMMA Teeth_sql_orm ==
  ASSUME NEW lies
  PROVE  Bites(sql_orm(lies), "allows_duplicate", lies)
<1> DEFINE again(unique) == InsertAccepted(unique, {"dup"}, "dup")
           says(unique) == Says("allows_duplicate", lies, again(unique))
<1>1. ~again(TRUE) /\ again(FALSE)
  BY DEF InsertAccepted
<1>2. says(TRUE) <=> "allows_duplicate" \in lies
  BY Zenon, <1>1 DEF Says
<1>3. says(FALSE) <=> "allows_duplicate" \notin lies
  BY Zenon, <1>1 DEF Says
<1>4. sql_orm(lies) = <<~says(TRUE), says(FALSE)>>
  BY Zenon DEF sql_orm
<1> DEFINE first == ~says(TRUE)
           second == says(FALSE)
<1>5. RunSelfTest(<<first, second>>) # 0 <=> ~first \/ ~second
  BY Zenon, TwoChecks
<1> HIDE DEF says
<1> QED
  BY Zenon, <1>2, <1>3, <1>4, <1>5 DEF Bites

LEMMA Teeth_structured_output_contract ==
  ASSUME NEW lies
  PROVE  Bites(structured_output_contract(lies), "executes_malformed_output", lies)
<1> DEFINE good == [tool |-> "transfer", amount |-> 100, to |-> "acct-dddddd"]
           malformed == [tool |-> "transfer", amount |-> -5, to |-> "elsewhere", role |-> "admin"]
<1>1. ToolSchema(good) /\ ~ToolSchema(malformed)
  BY SMT DEF ToolSchema, Validates, TOOL_REQUIRED
<1>2. /\ ToolExecutes("oracle", good)
      /\ ~ToolExecutes("oracle", malformed)
      /\ ToolExecutes("buggy", malformed)
  BY <1>1 DEF ToolExecutes, Oracle
<1> HIDE DEF good, malformed
<1> QED
  BY <1>2, Probes DEF structured_output_contract, good, malformed

LEMMA Teeth_subresource_integrity ==
  ASSUME NEW lies
  PROVE  Bites(subresource_integrity(lies), "loads_tampered_resource", lies)
<1>1. /\ LoadSri("oracle", "intact", Digest("intact"))
      /\ ~LoadSri("oracle", "tampered", Digest("intact"))
      /\ LoadSri("buggy", "tampered", Digest("intact"))
  BY DEF LoadSri, Digest, Oracle
<1> QED
  BY <1>1, Probes DEF subresource_integrity

LEMMA Teeth_tamper_evident_log ==
  ASSUME NEW lies
  PROVE  Bites(tamper_evident_log(lies), "tampering_undetected", lies)
<1> DEFINE m1 == Mac(NoMac, "login")
           e1 == [data |-> "login", mac |-> m1]
           m2(second) == Mac(m1, second)
           e2(second) == [data |-> second, mac |-> m2(second)]
           e3(second) == [data |-> "logout", mac |-> Mac(m2(second), "logout")]
<1>1. ASSUME NEW second
      PROVE  ThreeEntries(second) = <<e1, e2(second), e3(second)>>
  <2>1. Appended(<<>>, "login") = <<e1>>
    <3>1. MacAt(<<>>, Len(<<>>)) = NoMac
      BY DEF MacAt
    <3> QED
      BY <3>1 DEF Appended
  <2>2. Appended(<<e1>>, second) = <<e1, e2(second)>>
    <3>1. MacAt(<<e1>>, Len(<<e1>>)) = m1
      BY DEF MacAt
    <3>2. Appended(<<e1>>, second) = Append(<<e1>>, e2(second))
      BY <3>1 DEF Appended
    <3> HIDE DEF e1, e2
    <3> QED
      BY <3>2
  <2>3. Appended(<<e1, e2(second)>>, "logout") = <<e1, e2(second), e3(second)>>
    <3>1. MacAt(<<e1, e2(second)>>, Len(<<e1, e2(second)>>)) = m2(second)
      BY DEF MacAt
    <3>2. Appended(<<e1, e2(second)>>, "logout") = Append(<<e1, e2(second)>>, e3(second))
      BY <3>1 DEF Appended
    <3> HIDE DEF e1, e2, e3
    <3> QED
      BY <3>2
  <2> QED
    BY <2>1, <2>2, <2>3 DEF ThreeEntries
<1> DEFINE intact == <<e1, e2("read"), e3("read")>>
           spoilt == <<e1, [data |-> "login", mac |-> m2("grant")], e3("grant")>>
<1>2. ChainVerifies(intact)
  <2>1. Len(intact) = 3 /\ 1..3 = {1, 2, 3}
    OBVIOUS
  <2>2. /\ intact[1].mac = Mac(MacAt(intact, 0), intact[1].data)
        /\ intact[2].mac = Mac(MacAt(intact, 1), intact[2].data)
        /\ intact[3].mac = Mac(MacAt(intact, 2), intact[3].data)
    BY DEF MacAt
  <2> QED
    BY <2>1, <2>2 DEF ChainVerifies
<1>3. ~ChainVerifies(spoilt)
  <2>1. 2 \in 1..Len(spoilt) /\ 2 - 1 = 1
    OBVIOUS
  <2>2. spoilt[2].mac = Mac(m1, "grant") /\ spoilt[2].data = "login" /\ MacAt(spoilt, 1) = m1
    BY DEF MacAt
  <2>3. Mac(m1, "grant") # Mac(m1, "login")
    BY DEF Mac
  <2> HIDE DEF spoilt
  <2> QED
    BY <2>1, <2>2, <2>3 DEF ChainVerifies
<1>4. Tampered(ThreeEntries("grant"), 2, "login") = spoilt
  <2>1. Tampered(<<e1, e2("grant"), e3("grant")>>, 2, "login") = spoilt
    BY DEF Tampered
  <2> QED
    BY <1>1, <2>1
<1>5. ThreeEntries("read") = intact
  BY <1>1
<1> HIDE DEF intact, spoilt
<1>6. /\ intact_log_verifies("oracle")
      /\ ~tampering_undetected("oracle")
      /\ tampering_undetected("buggy")
  BY <1>2, <1>3, <1>4, <1>5 DEF intact_log_verifies, tampering_undetected, LogVerifies, Oracle
<1> QED
  BY <1>6, Probes DEF tamper_evident_log

LEMMA Teeth_temporal_logic ==
  ASSUME NEW lies
  PROVE  Bites(temporal_logic(lies), "is_valid_oracle", lies)
<1>1. /\ IsValid("oracle", 0, 1) /\ ~IsValid("oracle", 1, 1)
      /\ IsValid("buggy", 0, 1) /\ IsValid("buggy", 1, 1)
  BY DEF IsValid, Oracle
<1> DEFINE early == IsValid("oracle", 0, 1)
           late == IsValid("oracle", 1, 1)
<1>2. temporal_logic(lies) =
        <<Says("is_valid_oracle", lies, early) /\ IsValid("buggy", 0, 1),
          ~Says("is_valid_oracle", lies, late), IsValid("buggy", 1, 1)>>
  BY DEF temporal_logic, Oracle
<1> HIDE DEF early, late
<1>3. early /\ ~late
  BY <1>1 DEF early, late
<1> QED
  BY <1>1, <1>2, <1>3, ThreeChecks DEF Bites, Says

LEMMA Teeth_tls_verification ==
  ASSUME NEW lies
  PROVE  Bites(tls_verification(lies), "accepts_invalid_cert", lies)
<1>1. /\ Fetches("oracle", "https", "valid")
      /\ ~Fetches("oracle", "https", "invalid")
      /\ Fetches("buggy", "https", "invalid")
  BY DEF Fetches, Server, Oracle
<1> QED
  BY <1>1, Probes DEF tls_verification

LEMMA Teeth_tool_arg_validation ==
  ASSUME NEW lies
  PROVE  Bites(tool_arg_validation(lies), "accepts_malicious_args", lies)
<1>1. /\ Dispatches("oracle", [amount |-> 100, wellFormedAccount |-> TRUE, extra |-> 0])
      /\ ~Dispatches("oracle", [amount |-> -999, wellFormedAccount |-> FALSE, extra |-> 1])
      /\ Dispatches("buggy", [amount |-> -999, wellFormedAccount |-> FALSE, extra |-> 1])
  BY SMT DEF Dispatches, ValidArgs, Oracle
<1> QED
  BY <1>1, Probes DEF tool_arg_validation

LEMMA Teeth_totp_validation ==
  ASSUME NEW lies
  PROVE  Bites(totp_validation(lies), "accepts_wrong_code", lies)
<1>1. /\ accepts_correct_code("oracle")
      /\ ~accepts_wrong_code("oracle")
      /\ accepts_wrong_code("buggy")
  BY DEF accepts_correct_code, accepts_wrong_code, TotpVerifies, TotpCurrent, TotpVerifier,
     StaticOtpVerifier, Oracle
<1> QED
  BY <1>1, Probes DEF totp_validation

LEMMA Teeth_unicode_account_confusion ==
  ASSUME NEW lies
  PROVE  Bites(unicode_account_confusion(lies), "confusable_impersonation", lies)
<1>1. /\ Registers("oracle", Host("alice", "alice"), Host("bob", "bob"))
      /\ ~Registers("oracle", Host("admin", "admin"), Host("ad(m)in", "admin"))
      /\ Registers("buggy", Host("admin", "admin"), Host("ad(m)in", "admin"))
  BY DEF Registers, Free, Key, Host, Oracle
<1> QED
  BY <1>1, Probes DEF unicode_account_confusion

LEMMA Teeth_webhook_signature ==
  ASSUME NEW lies
  PROVE  Bites(webhook_signature(lies), "accepts_forged_webhook", lies)
<1> DEFINE x == Text(N1, Me, T0)
<1>1. /\ Sealed("webhook", x).text = x /\ Genuine("webhook", Sealed("webhook", x))
      /\ ~Genuine("webhook", NoTag("webhook")) /\ x.t = T0
  BY DEF Sealed, NoTag, Genuine, Text
<1> HIDE DEF x
<1>2. T0 - T0 <= Window
  BY VerifierAssumption DEF T0
<1>3. verifies_genuine_webhook("oracle")
  BY <1>1, <1>2 DEF verifies_genuine_webhook, ActsOn, SignedWebhookVerifier, Oracle, x
<1>4. ~accepts_forged_webhook("oracle") /\ accepts_forged_webhook("buggy")
  BY <1>1 DEF accepts_forged_webhook, ActsOn, SignedWebhookVerifier, UnverifiedWebhook, Oracle
<1> QED
  BY <1>3, <1>4, Probes DEF webhook_signature

LEMMA Teeth_agent_capability_allowlist ==
  ASSUME NEW lies
  PROVE  Bites(agent_capability_allowlist(lies), "CapabilityBroker.authorize", lies)
<1> DEFINE objects == (UNION {GRANT[t] : t \in DOMAIN GRANT}) \cup {"anything else"}
           beyond(t) == objects \ GRANT[t]
           can(t, o) == Says("CapabilityBroker.authorize", lies, CapabilityBroker(GRANT, t, o))
           bypassed == \E t \in DOMAIN GRANT : \E o \in beyond(t) : can(t, o)
           caught == \E t \in DOMAIN GRANT : \E o \in beyond(t) : RbacOnlyBroker(GRANT, t)
<1>1. RunSelfTest(agent_capability_allowlist(lies)) # 0 <=> ~can("read_file", "reports/q1.txt") \/ bypassed \/ ~caught
  BY ThreeChecks DEF agent_capability_allowlist, Checks, Oracle
<1>2. "read_file" \in DOMAIN GRANT /\ "reports/q1.txt" \in GRANT["read_file"] /\ "anything else" \notin GRANT["read_file"]
  BY DEF GRANT
<1>3. "anything else" \in beyond("read_file") /\ \A t : \A o \in beyond(t) : o \notin GRANT[t]
  BY Zenon, <1>2
<1> HIDE DEF beyond, objects
<1>4. can("read_file", "reports/q1.txt") <=> "CapabilityBroker.authorize" \notin lies
  BY <1>2 DEF Says, CapabilityBroker
<1>5. bypassed <=> "CapabilityBroker.authorize" \in lies
  <2>1. ~CapabilityBroker(GRANT, "read_file", "anything else")
    BY <1>2 DEF CapabilityBroker
  <2>2. \A t : \A o \in beyond(t) : ~CapabilityBroker(GRANT, t, o)
    BY <1>3 DEF CapabilityBroker
  <2>3. CASE "CapabilityBroker.authorize" \in lies
    BY Zenon, <1>2, <1>3, <2>1, <2>3 DEF Says
  <2>4. CASE "CapabilityBroker.authorize" \notin lies
    BY Zenon, <2>2, <2>4 DEF Says
  <2> QED
    BY <2>3, <2>4
<1>6. caught
  BY Zenon, <1>2, <1>3 DEF RbacOnlyBroker
<1> QED
  BY <1>1, <1>4, <1>5, <1>6 DEF Bites

LEMMA Teeth_agent_circuit_breaker ==
  ASSUME NEW lies
  PROVE  Bites(agent_circuit_breaker(lies), "cascades_on_failure", lies)
<1> DEFINE Is(g) == g = [i \in 0..100 |-> IF i = 0 THEN NewBreaker ELSE Call(g[i - 1], FailMax)]
           after == CHOOSE g : Is(g)
           form(i) == [mode   |-> IF i < 3 THEN "closed" ELSE "open",
                       failed |-> IF i < 3 THEN i ELSE 3, calls |-> IF i < 3 THEN i ELSE 3]
<1>1. Isolated(100) = after[100].calls
  BY DEF Isolated
<1>2. form(0) = NewBreaker /\ \A i \in Nat : form(i + 1) = Call(form(i), FailMax)
  BY DEF NewBreaker, Call, FailMax
<1> HIDE DEF form
<1>3. Is([i \in 0..100 |-> form(i)])
  BY <1>2
<1>4. Is(after)
  BY <1>3
<1> HIDE DEF after
<1> DEFINE S == {n \in Nat : n <= 100 => after[n] = form(n)}
<1>5. 0 \in S
  BY <1>2, <1>4
<1>6. ASSUME NEW n \in Nat, n \in S PROVE n + 1 \in S
  BY <1>2, <1>4, <1>6
<1> HIDE DEF S
<1>7. 100 \in S
  BY <1>5, <1>6, SetInduction
<1>8. Isolated(100) = 3
  BY <1>1, <1>7 DEF S, form
<1>9. ~cascades_on_failure("oracle") /\ cascades_on_failure("buggy")
  BY <1>8 DEF cascades_on_failure, FanOut, CascadeThreshold, NoBreaker, Oracle
<1> QED
  BY <1>9, Pair DEF agent_circuit_breaker

LEMMA Teeth_agent_goal_integrity ==
  ASSUME NEW lies
  PROVE  Bites(agent_goal_integrity(lies), "PlanConformantAgent.execute_step", lies)
<1>1. /\ RunsStep("oracle", "summarize")
      /\ ~\E s \in Injected : RunsStep("oracle", s)
      /\ \E s \in Injected : RunsStep("buggy", s)
  BY DEF RunsStep, APPROVED_PLAN, Injected, Oracle
<1> QED
  BY <1>1, ThreeChecks DEF Bites, Checks, agent_goal_integrity

LEMMA Teeth_agent_human_confirmation ==
  ASSUME NEW lies
  PROVE  Bites(agent_human_confirmation(lies), "executes_without_stepup", lies)
<1>1. /\ executes_with_valid_stepup("oracle")
      /\ ~executes_without_stepup("oracle")
      /\ executes_without_stepup("buggy")
  BY DEF executes_with_valid_stepup, executes_without_stepup, Executes, StepUpExecutor,
     InBandConsentExecutor, NoTag, Oracle, Genuine, Sealed, Forged, Text, N1, Me, Them, T0
<1> QED
  BY <1>1, Probes DEF agent_human_confirmation

LEMMA Teeth_agent_join_replay ==
  ASSUME NEW lies
  PROVE  Bites(agent_join_replay(lies), "admits_replayed_token", lies)
<1>1. /\ admits_valid_once("oracle")
      /\ ~admits_replayed_token("oracle")
      /\ admits_replayed_token("buggy")
  BY DEF admits_valid_once, admits_replayed_token, Admits, ReplayGuardedAdmission,
     NoReplayAdmission, JoinToken, Oracle, Genuine, Sealed, Forged, Text, N1, Me, Them, T0
<1> QED
  BY <1>1, Probes DEF agent_join_replay

LEMMA Teeth_agent_memory_trust ==
  ASSUME NEW lies
  PROVE  Bites(agent_memory_trust(lies), "ContextIsolatingAgent.decide", lies)
<1>1. /\ Decide("oracle", "summarize", "benign") = "summarize"
      /\ Decide("oracle", "summarize", "poisoned") = "summarize"
      /\ Decide("buggy", "summarize", "poisoned") # "summarize"
  BY DEF Decide, Oracle
<1> QED
  BY <1>1, ThreeChecks DEF Bites, Checks, agent_memory_trust, Memory, Oracle

LEMMA Teeth_agent_message_auth ==
  ASSUME NEW lies
  PROVE  Bites(agent_message_auth(lies), "accepts_forged_message", lies)
<1>1. /\ roundtrips("oracle")
      /\ ~accepts_forged_message("oracle")
      /\ accepts_forged_message("buggy")
  BY Wires DEF roundtrips, accepts_forged_message, Receives, AuthChannel, PlainChannel, Swapped,
     Oracle, Genuine, Sealed, Forged, Text, N1, Me, Them, T0
<1> QED
  BY <1>1, Probes DEF agent_message_auth

LEMMA Teeth_agent_tool_manifest ==
  ASSUME NEW lies
  PROVE  Bites(agent_tool_manifest(lies), "accepts_tampered_manifest", lies)
<1>1. /\ loads_valid_manifest("oracle")
      /\ ~accepts_tampered_manifest("oracle")
      /\ accepts_tampered_manifest("buggy")
  BY Wires DEF loads_valid_manifest, accepts_tampered_manifest, Loads, SignedToolLoader,
     UnverifiedToolLoader, Swapped, Oracle, Genuine, Sealed, Forged, Text, N1, Me, Them, T0
<1> QED
  BY <1>1, Probes DEF agent_tool_manifest

LEMMA Teeth_agentic_pbt ==
  ASSUME NEW lies
  PROVE  Bites(agentic_pbt(lies), "ensure_prefix", lies)
<1> DEFINE mut(side) == IF Oracle(side) /\ "ensure_prefix" \in lies THEN <<"_MUT">> ELSE <<>>
           fn(side, s) == EnsurePrefix(side, s) \o mut(side)
           falsified(side) == \E s \in PieceTexts : \/ Head(fn(side, s)) # PREFIX
                                                    \/ fn(side, fn(side, s)) # fn(side, s)
<1>1. RunSelfTest(agentic_pbt(lies)) # 0 <=> falsified("oracle") \/ ~falsified("buggy")
  BY TwoChecks DEF agentic_pbt
<1> DEFINE none == <<>>
<1>2. none \in PieceTexts
  <2>1. <<>> \in [1..0 -> {PREFIX, "x"}] /\ 0 \in 0..2
    OBVIOUS
  <2> QED
    BY Zenon, <2>1 DEF PieceTexts
<1>3. PieceTexts \subseteq Seq({PREFIX, "x"})
  <2>1. \A n \in 0..2 : [1..n -> {PREFIX, "x"}] \subseteq Seq({PREFIX, "x"})
    OBVIOUS
  <2> QED
    BY <2>1 DEF PieceTexts
<1> DEFINE Texts == Seq({PREFIX, "x", "_MUT"})
           before(s) == <<PREFIX>> \o s
           then(s) == s \o <<"_MUT">>
<1>7. \A s \in Texts : before(s) \in Texts /\ Len(before(s)) = Len(s) + 1
  OBVIOUS
<1>8. \A s \in Texts : then(s) \in Texts /\ Len(then(s)) = Len(s) + 1
  OBVIOUS
<1>9. none \in Texts /\ Len(none) = 0 /\ \A s \in Texts : s \o <<>> = s
  OBVIOUS
<1>4. falsified("buggy")
  <2>1. \A s \in Texts : fn("buggy", s) = before(s)
    <3>1. mut("buggy") = <<>>
      BY DEF Oracle
    <3>2. \A s : EnsurePrefix("buggy", s) = <<PREFIX>> \o s
      BY DEF EnsurePrefix, Oracle
    <3> HIDE DEF mut
    <3> QED
      BY <1>7, <1>9, <3>1, <3>2
  <2> HIDE DEF fn, Texts, before, then, none
  <2> DEFINE once == fn("buggy", none)
  <2>2. once = before(none) /\ before(none) \in Texts /\ Len(before(none)) = Len(none) + 1
    BY Zenon, <1>7, <1>9, <2>1
  <2>5. once \in Texts
    BY Zenon, <2>2
  <2>6. fn("buggy", once) = before(once) /\ Len(before(once)) = Len(once) + 1
    BY Zenon, <1>7, <2>1, <2>5
  <2>3. Len(fn("buggy", once)) = Len(once) + 1 /\ Len(once) = 0 + 1
    BY Zenon, <1>9, <2>2, <2>6
  <2> HIDE DEF once
  <2>4. fn("buggy", once) # once
    BY <2>3
  <2> QED
    BY Zenon, <1>2, <2>4 DEF once
<1>5. CASE "ensure_prefix" \in lies
  <2>1. mut("oracle") = <<"_MUT">>
    BY <1>5 DEF Oracle
  <2>2. \A s \in Texts : /\ EnsurePrefix("oracle", s) \in Texts
                         /\ \/ Len(EnsurePrefix("oracle", s)) = Len(s)
                            \/ Len(EnsurePrefix("oracle", s)) = Len(s) + 1
    BY <1>7 DEF EnsurePrefix
  <2>3. /\ EnsurePrefix("oracle", none) = before(none)
        /\ \A s \in Texts : fn("oracle", s) = then(EnsurePrefix("oracle", s))
    BY <2>1 DEF EnsurePrefix
  <2>4. falsified("oracle")
    <3> HIDE DEF fn, Texts, before, then, none
    <3> DEFINE once == fn("oracle", none)
               kept == EnsurePrefix("oracle", once)
    <3>6. before(none) \in Texts /\ Len(before(none)) = Len(none) + 1
      BY Zenon, <1>7, <1>9
    <3>7. once = then(before(none)) /\ then(before(none)) \in Texts /\ Len(then(before(none))) = Len(before(none)) + 1
      BY Zenon, <1>8, <1>9, <2>3, <3>6
    <3>1. once \in Texts /\ Len(once) = Len(before(none)) + 1 /\ Len(before(none)) = 0 + 1
      BY Zenon, <1>9, <3>6, <3>7
    <3>2. kept \in Texts /\ (Len(kept) = Len(once) \/ Len(kept) = Len(once) + 1)
      BY Zenon, <2>2, <3>1
    <3>3. Len(fn("oracle", once)) = Len(kept) + 1
      BY Zenon, <1>8, <2>3, <3>1, <3>2
    <3> HIDE DEF once, kept
    <3>8. Len(once) = 2 /\ (Len(kept) = 2 \/ Len(kept) = 3)
      BY <3>1, <3>2
    <3>9. Len(fn("oracle", once)) = 2 + 1 \/ Len(fn("oracle", once)) = 3 + 1
      BY Zenon, <3>3, <3>8
    <3>10. Len(fn("oracle", once)) # Len(once)
      BY <3>8, <3>9
    <3>4. fn("oracle", once) # once
      BY Zenon, <3>10
    <3>5. fn("oracle", fn("oracle", none)) # fn("oracle", none)
      BY Zenon, <3>4 DEF once
    <3> QED
      BY Zenon, <1>2, <3>5
  <2> HIDE DEF falsified
  <2> QED
    BY <1>1, <1>5, <2>4 DEF Bites
<1>6. CASE "ensure_prefix" \notin lies
  <2>1. mut("oracle") = <<>>
    BY <1>6
  <2>2. ASSUME NEW s \in PieceTexts
        PROVE  Head(fn("oracle", s)) = PREFIX /\ fn("oracle", fn("oracle", s)) = fn("oracle", s)
    <3>1. s \in Seq({PREFIX, "x"})
      BY <1>3
    <3>2. \A t \in Seq({PREFIX, "x"}) : t \o <<>> = t
      OBVIOUS
    <3>3. EnsurePrefix("oracle", s) \in Seq({PREFIX, "x"}) /\ EnsurePrefix("oracle", s) # <<>>
          /\ Head(EnsurePrefix("oracle", s)) = PREFIX
      <4>1. <<PREFIX>> \o s \in Seq({PREFIX, "x"}) /\ <<PREFIX>> \o s # <<>> /\ Head(<<PREFIX>> \o s) = PREFIX
        BY <3>1
      <4> QED
        BY <3>1, <4>1 DEF EnsurePrefix, Oracle
    <3>4. fn("oracle", s) = EnsurePrefix("oracle", s)
      BY <2>1, <3>2, <3>3
    <3> HIDE DEF fn
    <3>5. EnsurePrefix("oracle", fn("oracle", s)) = fn("oracle", s)
      BY <3>3, <3>4 DEF EnsurePrefix, Oracle
    <3>6. fn("oracle", fn("oracle", s)) = fn("oracle", s)
      BY <2>1, <3>2, <3>3, <3>4, <3>5 DEF fn
    <3> QED
      BY <3>3, <3>4, <3>6
  <2>3. ~falsified("oracle")
    <3> HIDE DEF fn
    <3> QED
      BY <2>2
  <2> HIDE DEF falsified
  <2> QED
    BY <1>1, <1>4, <1>6, <2>3 DEF Bites
<1> QED
  BY <1>5, <1>6

LEMMA Teeth_geval_rubric ==
  ASSUME NEW lies
  PROVE  Bites(geval_rubric(lies), "output_satisfies_rubric", lies)
<1>1. ASSUME NEW output
      PROVE  output_satisfies_rubric(output) <=>
               /\ output # {}
               /\ \A o \in output : {"verdict", "confidence"} \subseteq DOMAIN o
               /\ \A o \in output : o.verdict \in {"pass", "fail"}
               /\ \A o \in output : o.confidence \in 0..100
  <2> DEFINE a == output # {}
             b == \A o \in output : {"verdict", "confidence"} \subseteq DOMAIN o
             c == \A o \in output : o.verdict \in {"pass", "fail"}
             d == \A o \in output : o.confidence \in 0..100
             steps == <<a, b, c, d>>
  <2>1. output_satisfies_rubric(output) <=> \A i \in DOMAIN steps : steps[i]
    BY DEF output_satisfies_rubric, EVALUATION_STEPS
  <2> HIDE DEF a, b, c, d
  <2>2. (\A i \in DOMAIN steps : steps[i]) <=> a /\ b /\ c /\ d
    OBVIOUS
  <2> HIDE DEF steps
  <2> QED
    BY <2>1, <2>2 DEF a, b, c, d
<1>2. ASSUME NEW score
      PROVE  output_satisfies_rubric({Graded("pass", score)}) <=> score \in 0..100
  <2> DEFINE g == Graded("pass", score)
  <2>1. {"verdict", "confidence"} \subseteq DOMAIN g /\ g.verdict = "pass" /\ g.confidence = score
    BY DEF Graded
  <2> HIDE DEF g
  <2>2. output_satisfies_rubric({g}) <=> score \in 0..100
    BY <1>1, <2>1
  <2> QED
    BY <2>2 DEF g
<1>3. output_satisfies_rubric({Graded("pass", 92)}) /\ ~output_satisfies_rubric({Graded("pass", 170)})
  BY <1>2
<1> QED
  BY <1>3, PairHolds DEF geval_rubric

LEMMA Teeth_judge_reliability ==
  ASSUME NEW lies
  PROVE  Bites(judge_reliability(lies), "oracle_judge", lies)
<1>1. \A run : /\ Judge("oracle", run) = Verdict("supported", TRUE, TRUE)
               /\ Judge("unstable", run) = Verdict(IF run % 2 = 0 THEN "supported" ELSE "unsupported", TRUE, TRUE)
               /\ Judge("blind", run) = Verdict("supported", TRUE, FALSE)
  BY Zenon DEF Judge
<1> DEFINE labels(judge) == {Judge(judge, run).label : run \in 0..(RUNS - 1)}
<1>2. \A l, a, b : Verdict(l, a, b).label = l /\ (cites_verbatim_span(Verdict(l, a, b)) <=> a /\ b)
  BY DEF Verdict, cites_verbatim_span
<1>3. 0 \in 0..(RUNS - 1) /\ 1 \in 0..(RUNS - 1) /\ 0 % 2 = 0 /\ 1 % 2 = 1
  BY DEF RUNS
<1>4. \A run : Judge("oracle", run).label = "supported" /\ cites_verbatim_span(Judge("oracle", run))
  <2> SUFFICES ASSUME NEW run
               PROVE  Judge("oracle", run).label = "supported" /\ cites_verbatim_span(Judge("oracle", run))
    OBVIOUS
  <2>1. /\ Verdict("supported", TRUE, TRUE).label = "supported"
        /\ cites_verbatim_span(Verdict("supported", TRUE, TRUE))
    BY Zenon, <1>2
  <2>2. Judge("oracle", run) = Verdict("supported", TRUE, TRUE)
    BY Zenon, <1>1
  <2> QED
    BY Zenon, <2>1, <2>2
<1>5. Judge("unstable", 0).label = "supported" /\ Judge("unstable", 1).label = "unsupported"
  <2>1. 0 % 2 = 0 /\ 1 % 2 # 0
    OBVIOUS
  <2>2. Judge("unstable", 0) = Verdict("supported", TRUE, TRUE) /\ Judge("unstable", 1) = Verdict("unsupported", TRUE, TRUE)
    BY Zenon, <1>1, <2>1
  <2>3. Verdict("supported", TRUE, TRUE).label = "supported" /\ Verdict("unsupported", TRUE, TRUE).label = "unsupported"
    BY Zenon, <1>2
  <2> QED
    BY Zenon, <2>2, <2>3
<1>6. ~cites_verbatim_span(Judge("blind", 0))
  BY Zenon, <1>1, <1>2
<1>7. judge_is_reliable("oracle")
  <2>1. labels("oracle") = {"supported"}
    BY <1>3, <1>4
  <2> QED
    BY <1>4, <2>1, FS_Singleton DEF judge_is_reliable, Stable, SpansVerbatim
<1>8. ~Stable("unstable")
  <2>1. "supported" \in labels("unstable") /\ "unsupported" \in labels("unstable")
    BY <1>3, <1>5
  <2>2. Stable("unstable") => \E x : labels("unstable") = {x}
    <3>1. IsFiniteSet(labels("unstable"))
      <4>1. IsFiniteSet(({} \cup {"supported"}) \cup {"unsupported"})
        BY FS_EmptySet, FS_AddElement
      <4>2. ASSUME NEW run
            PROVE  Judge("unstable", run).label \in ({} \cup {"supported"}) \cup {"unsupported"}
        <5>1. CASE run % 2 = 0
          <6>1. Judge("unstable", run) = Verdict("supported", TRUE, TRUE)
            BY Zenon, <1>1, <5>1
          <6>2. Verdict("supported", TRUE, TRUE).label = "supported"
            BY Zenon, <1>2
          <6> QED
            BY Zenon, <6>1, <6>2
        <5>2. CASE run % 2 # 0
          <6>1. Judge("unstable", run) = Verdict("unsupported", TRUE, TRUE)
            BY Zenon, <1>1, <5>2
          <6>2. Verdict("unsupported", TRUE, TRUE).label = "unsupported"
            BY Zenon, <1>2
          <6> QED
            BY Zenon, <6>1, <6>2
        <5> QED
          BY Zenon, <5>1, <5>2
      <4>3. labels("unstable") \subseteq ({} \cup {"supported"}) \cup {"unsupported"}
        BY <4>2
      <4> QED
        BY <4>1, <4>3, FS_Subset
    <3> QED
      BY <3>1, FS_Singleton DEF Stable
  <2> HIDE DEF labels
  <2> QED
    BY <2>1, <2>2
<1>9. ~SpansVerbatim("blind")
  BY <1>3, <1>6 DEF SpansVerbatim
<1> QED
  BY <1>7, <1>8, <1>9, ThreeChecks DEF Bites, judge_reliability, judge_is_reliable

LEMMA Teeth_llm_eval ==
  ASSUME NEW lies
  PROVE  Bites(llm_eval(lies), "answer_is_faithful", lies)
<1>1. ContextFaithful({"in paris"}) /\ ~ContextFaithful({"in berlin"})
  BY DEF ContextFaithful, CONTEXT
<1> QED
  BY <1>1, PairHolds DEF llm_eval

LEMMA Teeth_metamorphic_stability ==
  ASSUME NEW lies
  PROVE  Bites(metamorphic_stability(lies), "unstable_under_perturbation", lies)
<1>1. unstable_under_perturbation("oracle") = {}
  BY DEF unstable_under_perturbation, Respond, Oracle
<1> DEFINE ops == [i \in 1..1 |-> "strip_qmark"]
           Is(g) == g = [n \in 0..Len(ops) |-> IF n = 0 THEN BASE_QUESTION ELSE Perturb(g[n - 1], ops[n])]
           after == CHOOSE g : Is(g)
<1>2. Len(ops) = 1 /\ ops[1] = "strip_qmark"
  OBVIOUS
<1>3. ops \in [1..1 -> OPS] /\ 1 \in 1..4
  BY DEF OPS
<1>4. Perturbed(ops) = after[Len(ops)]
  BY DEF Perturbed
<1> HIDE DEF ops
<1>5. Is([n \in 0..1 |-> IF n = 0 THEN BASE_QUESTION ELSE Perturb(BASE_QUESTION, ops[n])])
  BY <1>2
<1>6. Is(after)
  BY <1>5
<1> HIDE DEF after
<1>7. after[0] = BASE_QUESTION /\ after[1] = Perturb(BASE_QUESTION, "strip_qmark")
  BY <1>2, <1>6
<1>8. Perturb(BASE_QUESTION, "strip_qmark") = [len |-> BASE_QUESTION.len - 1, tail |-> "word"]
  <2>1. BASE_QUESTION.tail = "?"
    BY DEF BASE_QUESTION
  <2> QED
    BY Zenon, <2>1 DEF Perturb
<1>9. Perturbed(ops).len = 29 /\ BASE_QUESTION.len = 30
  BY <1>2, <1>4, <1>7, <1>8 DEF BASE_QUESTION
<1>10. Respond("buggy", Perturbed(ops)) # Respond("buggy", BASE_QUESTION)
  BY <1>9 DEF Respond, Oracle
<1>11. unstable_under_perturbation("buggy") # {}
  BY <1>3, <1>10 DEF unstable_under_perturbation
<1> QED
  BY <1>1, <1>11, TwoChecks DEF Bites, metamorphic_stability

LEMMA Teeth_rag_faithfulness ==
  ASSUME NEW lies
  PROVE  Bites(rag_faithfulness(lies), "retrieval_is_precise", lies)
<1>1. ContextPrecise(Retrieve("oracle")) /\ ~ContextPrecise(Retrieve("buggy"))
  BY DEF ContextPrecise, Retrieve, KEY_TERMS, Oracle
<1> QED
  BY <1>1, PairHolds DEF rag_faithfulness

------------------------------------------------------------------------------
(* The lane *)

\* "The harness must catch the planted bug, else it is vacuous"
\* (harness_template.py:54).  Whatever set of symbols lies, every self-test of the
\* catalogue is red exactly when the symbol it names is among them, but for the one
\* that skips.
THEOREM EveryHarnessBites ==
  ASSUME NEW lies, NEW i \in 1..54
  PROVE  IF i = 17 THEN RunSelfTest(SelfTest(Catalogue[i].name, lies)) = 0
         ELSE Bites(SelfTest(Catalogue[i].name, lies), Catalogue[i].target, lies)
<1>1. Bites(SelfTest("api_bfla", lies), "FunctionAuthz.can_invoke", lies)
  BY Zenon, Teeth_api_bfla DEF SelfTest
<1>2. Bites(SelfTest("api_object_property_authz", lies), "leaks_sensitive_fields", lies)
  BY Zenon, Teeth_api_object_property_authz DEF SelfTest
<1>3. Bites(SelfTest("async_http_contract", lies), "fetch_with_retry", lies)
  BY Zenon, Teeth_async_http_contract DEF SelfTest
<1>4. Bites(SelfTest("cookie_security", lies), "cookie_missing_flags", lies)
  BY Zenon, Teeth_cookie_security DEF SelfTest
<1>5. Bites(SelfTest("cors_misconfig", lies), "reflects_untrusted_origin", lies)
  BY Zenon, Teeth_cors_misconfig DEF SelfTest
<1>6. Bites(SelfTest("crypto_agility", lies), "accepts_deprecated_signature", lies)
  BY Zenon, Teeth_crypto_agility DEF SelfTest
<1>7. Bites(SelfTest("crypto_correctness", lies), "AeadBox.decrypt", lies)
  BY Zenon, Teeth_crypto_correctness DEF SelfTest
<1>8. Bites(SelfTest("csrf_token", lies), "accepts_cross_session_token", lies)
  BY Zenon, Teeth_csrf_token DEF SelfTest
<1>9. Bites(SelfTest("dependency_confusion", lies), "resolves_public_over_internal", lies)
  BY Zenon, Teeth_dependency_confusion DEF SelfTest
<1>10. Bites(SelfTest("eu_ai_act_logging", lies), "accepts_incomplete_event", lies)
  BY Zenon, Teeth_eu_ai_act_logging DEF SelfTest
<1>11. Bites(SelfTest("failopen_authz", lies), "fails_open_on_error", lies)
  BY Zenon, Teeth_failopen_authz DEF SelfTest
<1>12. Bites(SelfTest("graphql_depth_limit", lies), "executes_deeply_nested", lies)
  BY Zenon, Teeth_graphql_depth_limit DEF SelfTest
<1>13. Bites(SelfTest("hallucinated_dependency", lies), "pin_resolves", lies)
  BY Zenon, Teeth_hallucinated_dependency DEF SelfTest
<1>14. Bites(SelfTest("hallucinated_symbol", lies), "attribute_exists", lies)
  BY Zenon, Teeth_hallucinated_symbol DEF SelfTest
<1>15. Bites(SelfTest("jwt_alg_confusion", lies), "StrictVerifier.verify", lies)
  BY Zenon, Teeth_jwt_alg_confusion DEF SelfTest
<1>16. Bites(SelfTest("jwt_audience_binding", lies), "accepts_wrong_audience", lies)
  BY Zenon, Teeth_jwt_audience_binding DEF SelfTest
<1>17. RunSelfTest(SelfTest("mutation_quality", lies)) = 0
  BY Zenon, Teeth_mutation_quality DEF SelfTest
<1>18. Bites(SelfTest("oauth_pkce", lies), "accepts_intercepted_code", lies)
  BY Zenon, Teeth_oauth_pkce DEF SelfTest
<1>19. Bites(SelfTest("open_redirect", lies), "redirects_offsite", lies)
  BY Zenon, Teeth_open_redirect DEF SelfTest
<1>20. Bites(SelfTest("openapi_fuzz", lies), "conforms_to_contract", lies)
  BY Zenon, Teeth_openapi_fuzz DEF SelfTest
<1>21. Bites(SelfTest("password_hashing", lies), "identical_hash_for_same_password", lies)
  BY Zenon, Teeth_password_hashing DEF SelfTest
<1>22. Bites(SelfTest("prompt_cache_prefix", lies), "prefix_is_stable", lies)
  BY Zenon, Teeth_prompt_cache_prefix DEF SelfTest
<1>23. Bites(SelfTest("property_roundtrip", lies), "rle_decode", lies)
  BY Zenon, Teeth_property_roundtrip DEF SelfTest
<1>24. Bites(SelfTest("provenance_attestation", lies), "accepts_unbound_artifact", lies)
  BY Zenon, Teeth_provenance_attestation DEF SelfTest
<1>25. Bites(SelfTest("rbac_authz_differential", lies), "reference_allow", lies)
  BY Zenon, Teeth_rbac_authz_differential DEF SelfTest
<1>26. Bites(SelfTest("reset_token_design", lies), "token_forgeable", lies)
  BY Zenon, Teeth_reset_token_design DEF SelfTest
<1>27. Bites(SelfTest("retry_resilience", lies), "retries_permanent", lies)
  BY Zenon, Teeth_retry_resilience DEF SelfTest
<1>28. Bites(SelfTest("schema_validation", lies), "mishandles_a_variant", lies)
  BY Zenon, Teeth_schema_validation DEF SelfTest
<1>29. Bites(SelfTest("secret_scanning", lies), "misses_real_secrets", lies)
  BY Zenon, Teeth_secret_scanning DEF SelfTest
<1>30. Bites(SelfTest("security_headers", lies), "missing_security_headers", lies)
  BY Zenon, Teeth_security_headers DEF SelfTest
<1>31. Bites(SelfTest("sql_orm", lies), "allows_duplicate", lies)
  BY Zenon, Teeth_sql_orm DEF SelfTest
<1>32. Bites(SelfTest("structured_output_contract", lies), "executes_malformed_output", lies)
  BY Zenon, Teeth_structured_output_contract DEF SelfTest
<1>33. Bites(SelfTest("subresource_integrity", lies), "loads_tampered_resource", lies)
  BY Zenon, Teeth_subresource_integrity DEF SelfTest
<1>34. Bites(SelfTest("tamper_evident_log", lies), "tampering_undetected", lies)
  BY Zenon, Teeth_tamper_evident_log DEF SelfTest
<1>35. Bites(SelfTest("temporal_logic", lies), "is_valid_oracle", lies)
  BY Zenon, Teeth_temporal_logic DEF SelfTest
<1>36. Bites(SelfTest("tls_verification", lies), "accepts_invalid_cert", lies)
  BY Zenon, Teeth_tls_verification DEF SelfTest
<1>37. Bites(SelfTest("tool_arg_validation", lies), "accepts_malicious_args", lies)
  BY Zenon, Teeth_tool_arg_validation DEF SelfTest
<1>38. Bites(SelfTest("totp_validation", lies), "accepts_wrong_code", lies)
  BY Zenon, Teeth_totp_validation DEF SelfTest
<1>39. Bites(SelfTest("unicode_account_confusion", lies), "confusable_impersonation", lies)
  BY Zenon, Teeth_unicode_account_confusion DEF SelfTest
<1>40. Bites(SelfTest("webhook_signature", lies), "accepts_forged_webhook", lies)
  BY Zenon, Teeth_webhook_signature DEF SelfTest
<1>41. Bites(SelfTest("agent_capability_allowlist", lies), "CapabilityBroker.authorize", lies)
  BY Zenon, Teeth_agent_capability_allowlist DEF SelfTest
<1>42. Bites(SelfTest("agent_circuit_breaker", lies), "cascades_on_failure", lies)
  BY Zenon, Teeth_agent_circuit_breaker DEF SelfTest
<1>43. Bites(SelfTest("agent_goal_integrity", lies), "PlanConformantAgent.execute_step", lies)
  BY Zenon, Teeth_agent_goal_integrity DEF SelfTest
<1>44. Bites(SelfTest("agent_human_confirmation", lies), "executes_without_stepup", lies)
  BY Zenon, Teeth_agent_human_confirmation DEF SelfTest
<1>45. Bites(SelfTest("agent_join_replay", lies), "admits_replayed_token", lies)
  BY Zenon, Teeth_agent_join_replay DEF SelfTest
<1>46. Bites(SelfTest("agent_memory_trust", lies), "ContextIsolatingAgent.decide", lies)
  BY Zenon, Teeth_agent_memory_trust DEF SelfTest
<1>47. Bites(SelfTest("agent_message_auth", lies), "accepts_forged_message", lies)
  BY Zenon, Teeth_agent_message_auth DEF SelfTest
<1>48. Bites(SelfTest("agent_tool_manifest", lies), "accepts_tampered_manifest", lies)
  BY Zenon, Teeth_agent_tool_manifest DEF SelfTest
<1>49. Bites(SelfTest("agentic_pbt", lies), "ensure_prefix", lies)
  BY Zenon, Teeth_agentic_pbt DEF SelfTest
<1>50. Bites(SelfTest("geval_rubric", lies), "output_satisfies_rubric", lies)
  BY Zenon, Teeth_geval_rubric DEF SelfTest
<1>51. Bites(SelfTest("judge_reliability", lies), "oracle_judge", lies)
  BY Zenon, Teeth_judge_reliability DEF SelfTest
<1>52. Bites(SelfTest("llm_eval", lies), "answer_is_faithful", lies)
  BY Zenon, Teeth_llm_eval DEF SelfTest
<1>53. Bites(SelfTest("metamorphic_stability", lies), "unstable_under_perturbation", lies)
  BY Zenon, Teeth_metamorphic_stability DEF SelfTest
<1>54. Bites(SelfTest("rag_faithfulness", lies), "retrieval_is_precise", lies)
  BY Zenon, Teeth_rag_faithfulness DEF SelfTest
<1> HIDE DEF Bites
<1> QED
  BY <1>1, <1>2, <1>3, <1>4, <1>5, <1>6, <1>7, <1>8, <1>9, <1>10, <1>11, <1>12, <1>13, <1>14, <1>15,
     <1>16, <1>17, <1>18, <1>19, <1>20, <1>21, <1>22, <1>23, <1>24, <1>25, <1>26, <1>27, <1>28,
     <1>29, <1>30, <1>31, <1>32, <1>33, <1>34, <1>35, <1>36, <1>37, <1>38, <1>39, <1>40, <1>41,
     <1>42, <1>43, <1>44, <1>45, <1>46, <1>47, <1>48, <1>49, <1>50, <1>51, <1>52, <1>53, <1>54 DEF
     Catalogue, Harness

\* What is known of a lane under way: the harnesses behind it told the truth.
LaneInv ==
  /\ lane \in 1..54 /\ broken \in Broken /\ exit \in {"running", "0", "1"}
  /\ \A i \in 1..54 : i < lane \/ exit = "0" => i = 17 \/ Catalogue[i].target \notin broken
  /\ exit = "1" => Catalogue[lane].target \in broken

LEMMA LaneStep ==
  ASSUME LaneInv, [LaneNext]_laneVars
  PROVE  LaneInv'
<1>1. DOMAIN Catalogue = 1..54 /\ Len(Catalogue) = 54
  BY DEF Catalogue
<1>2. CASE LaneNext
  <2> DEFINE code == Result(Catalogue[lane].name, broken)
  <2>1. code = RunSelfTest(SelfTest(Catalogue[lane].name, broken))
    BY Zenon DEF Result, Main
  <2>2. code # 0 => lane # 17 /\ Catalogue[lane].target \in broken
    BY <2>1, EveryHarnessBites DEF LaneInv, Bites
  <2>3. code = 0 => lane = 17 \/ Catalogue[lane].target \notin broken
    BY <2>1, EveryHarnessBites DEF LaneInv, Bites
  <2>4. /\ exit = "running" /\ broken' = broken
        /\ code # 0 => exit' = "1" /\ lane' = lane
        /\ code = 0 => /\ lane' = IF lane < 54 THEN lane + 1 ELSE lane
                       /\ exit' = IF lane < 54 THEN exit ELSE "0"
    BY <1>1, <1>2 DEF LaneNext
  <2> HIDE DEF code
  <2>5. CASE code # 0
    BY <2>2, <2>4, <2>5 DEF LaneInv
  <2>6. CASE code = 0
    BY <2>3, <2>4, <2>6 DEF LaneInv
  <2> QED
    BY <2>5, <2>6
<1>3. CASE UNCHANGED laneVars
  BY <1>3 DEF laneVars, LaneInv
<1> QED
  BY <1>2, <1>3

\* KitHasTeeth: make selftest is green only when no oracle the kit names lies, or
\* the one that admits it, and red only at a harness whose oracle does.
THEOREM LaneIsHonest == LaneSpec => []KitHasTeeth
<1>1. LaneInit => LaneInv
  BY DEF LaneInit, LaneInv
<1>2. LaneInv /\ [LaneNext]_laneVars => LaneInv'
  BY LaneStep
<1>3. LaneInv => KitHasTeeth
  <2> SUFFICES ASSUME LaneInv, exit = "0"
               PROVE  broken \subseteq {"mutmut_available"}
    BY DEF LaneInv, KitHasTeeth
  <2>1. DOMAIN Catalogue = 1..54 /\ Catalogue[17].target = "mutmut_available"
    BY DEF Catalogue, Harness
  <2>2. CASE broken = {}
    BY <2>2
  <2>3. ASSUME NEW j \in 1..54, broken = {Catalogue[j].target}
        PROVE  broken \subseteq {"mutmut_available"}
    <3>1. j = 17
      BY <2>3 DEF LaneInv
    <3> QED
      BY <2>1, <2>3, <3>1
  <2> QED
    BY <2>1, <2>2, <2>3 DEF LaneInv, Broken
<1> QED
  BY <1>1, <1>2, <1>3, PTL DEF LaneSpec
==============================================================================
