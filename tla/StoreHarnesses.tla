--------------------------- MODULE StoreHarnesses ---------------------------
(***************************************************************************)
(* The integration harnesses and the fixtures around them: one real        *)
(* service, kept for the whole session, and one test after another, each   *)
(* with the oracle or the planted bug.  What a test wrote may outlive it,  *)
(* and the clean-up of a test may fail or never run.                       *)
(*                                                                         *)
(* The services are external: what they do is what the stores rely on.     *)
(* Each worker of a parallel session has services of its own, so this is   *)
(* one worker.  rabbitmq has a module of its own, RabbitRedelivery.  Names  *)
(* are the module's own, so that one that extends another state machine can *)
(* extend this one too.                                                    *)
(***************************************************************************)
EXTENDS Integers, Sequences, FiniteSets

CONSTANTS
  Values,    \* e-mail addresses, notes, keys, documents, messages
  Wide,      \* those that are not the same bytes in every encoding
  MaxTests,  \* bound: tests of a session
  MaxWrites, \* bound: writes of a test
  MaxTtl,    \* bound: seconds a cached value may live
  MaxHits    \* documents a search returns when it names no size (10 in Elasticsearch)

ASSUME StoreAssumption ==
  /\ Wide \subseteq Values
  /\ MaxTests \in Nat /\ MaxWrites \in Nat /\ MaxTtl \in Nat /\ MaxHits \in Nat

VARIABLES
  service,  \* which one, or "none"
  phase,    \* of the current test: between, setup, ready, reading, aborted, hung
  class,    \* whose store it drives
  test,     \* its number
  schema,   \* the schema in force: none, or whose DDL or index it is; of chaos, the proxy
  rows,     \* what the service holds: in a row, or under its key
  reader,   \* a consumer: next offset (0: not assigned yet), stop_after, read so far
  mine,     \* history: what this test wrote and the promise says is kept
  answer    \* history: the last answer it got, and the one it was due

storeVars == <<service, phase, class, test, schema, rows, reader, mine, answer>>

Services == {"postgres", "mysql", "mongo", "redis", "elasticsearch", "s3", "kafka",
             "vault", "keycloak", "chaos"}
Keyed    == {"redis", "elasticsearch", "s3", "chaos"}
OracleRuns == class = "oracle"
Never == -1
NoStop == 0
NoReader == [at |-> 0, stop |-> NoStop, out |-> <<>>]
Answers(got, due) == answer' = [got |-> got, due |-> due]
Row(v, left, shown) == [v |-> v, by |-> test, left |-> left, shown |-> shown]
Holds(held, v) == \E i \in DOMAIN held : held[i].v = v
Under(held, v, row) == [k \in DOMAIN held \cup {v} |-> IF k = v THEN row ELSE held[k]]

------------------------------------------------------------------------------
(* The fixtures *)

\* What a fixture clears before it yields: redis and mongo drop, elasticsearch
\* makes its index anew, a bucket or a topic has a name nobody used, vault's
\* secret is written over.  postgres and mysql leave the database as it is, and
\* chaos its redis, which is never flushed.
\* A mutant: mongo is left as the last test left it.
ClearedNoMongo == {"redis", "elasticsearch", "s3", "kafka", "vault", "keycloak"}
Cleared == {"mongo", "redis", "elasticsearch", "s3", "kafka", "vault", "keycloak"}
HasSchema == {"postgres", "mysql", "mongo"}

StartTest(c) ==
  /\ phase = "between" /\ test < MaxTests
  /\ test' = test + 1 /\ class' = c
  /\ mine' = <<>> /\ reader' = NoReader /\ Answers({}, {})
  /\ UNCHANGED service

Setup(c) ==
  /\ service \notin {"none", "chaos"} /\ StartTest(c)
  /\ phase' = IF service \in HasSchema THEN "setup" ELSE "ready"
  /\ IF service \in Cleared THEN rows' = <<>> /\ schema' = "none" ELSE UNCHANGED <<rows, schema>>

\* chaos_proxy: a proxy of that name that is still there makes create raise.
SetupProxy(c) ==
  /\ service = "chaos" /\ StartTest(c)
  /\ phase' = IF schema = "none" THEN "ready" ELSE "aborted"
  /\ schema' = IF schema = "none" THEN c ELSE schema
  /\ UNCHANGED rows

\* A transaction that nobody committed is rolled back, by the fixture or by the
\* server when the connection goes; a clean-up that fails leaves the rest.
\* mysql has none; of chaos, the test that made the proxy destroys it, and
\* nobody what the upstream holds.
Teardown(done) ==
  LET clears == service = "postgres" \/ (done /\ service \notin {"mysql", "chaos"})
      destroys == service = "chaos" /\ phase # "aborted" /\ done
  IN  /\ phase \in {"setup", "ready", "reading", "aborted", "hung"}
      /\ phase' = "between"
      /\ rows' = IF clears THEN <<>> ELSE rows
      /\ schema' = IF clears \/ destroys THEN "none" ELSE schema
      /\ UNCHANGED <<service, class, test, reader, mine, answer>>

------------------------------------------------------------------------------
(* The stores *)

\* Every test of a store that has it begins with ensure_schema.  A CREATE TABLE
\* of a table that is there aborts the transaction; an index cannot be made over
\* duplicates; mysql's DDL drops first and commits.
EnsureSchema ==
  /\ phase = "setup"
  /\ LET taken == service = "postgres" /\ schema # "none"
         twice == service = "mongo" /\ \E i, j \in DOMAIN rows : i # j /\ rows[i].v = rows[j].v
     IN  /\ phase' = IF taken \/ (twice /\ OracleRuns) THEN "aborted" ELSE "ready"
         /\ schema' = IF taken \/ (service = "mongo" /\ (twice \/ ~OracleRuns)) THEN schema ELSE class
  /\ rows' = IF service = "mysql" THEN <<>> ELSE rows
  /\ UNCHANGED <<service, class, test, reader, mine, answer>>

Ready(s) == service = s /\ phase = "ready"
Room == Cardinality(DOMAIN mine) < MaxWrites /\ Cardinality(DOMAIN rows) < MaxWrites
\* A write that is accepted, and is due to be.
Keeps(ok, due, row) ==
  /\ rows' = IF ok THEN Append(rows, row) ELSE rows
  /\ mine' = IF due THEN Append(mine, row) ELSE mine
  /\ Answers(ok, due)
  /\ UNCHANGED <<service, class, test, schema, reader>>

\* add_user and add: the second row of an e-mail violates UNIQUE; postgres then
\* refuses every statement until the transaction is rolled back.
AddUser(v) ==
  LET ok == schema = "oracle" => ~Holds(rows, v) IN
  /\ Ready("postgres") \/ Ready("mongo")
  /\ Room
  /\ Keeps(ok, ~Holds(mine, v), Row(v, Never, TRUE))
  /\ phase' = IF service = "postgres" /\ ~ok THEN "aborted" ELSE phase

\* save: strict mode refuses what the character set cannot hold.
SaveNote(v) ==
  /\ Ready("mysql") /\ Room
  /\ Keeps(schema = "oracle" \/ v \notin Wide, TRUE, Row(v, Never, TRUE))
  /\ UNCHANGED phase

\* put: the value and its expiry replace what was under the key.
Put(v, ttl) ==
  LET kept == Row(v, IF OracleRuns THEN ttl ELSE Never, TRUE) IN
  /\ Ready("redis") /\ Room
  /\ rows' = Under(rows, v, kept)
  /\ mine' = Under(mine, v, [kept EXCEPT !.left = ttl])
  /\ UNCHANGED <<service, phase, class, test, schema, reader, answer>>

\* A second passes; a value whose time is up is gone.
Older(held) ==
  [k \in {k \in DOMAIN held : held[k].left # 1} |->
     [held[k] EXCEPT !.left = IF @ > 0 THEN @ - 1 ELSE @]]
Tick ==
  /\ Ready("redis") /\ mine # <<>>
  /\ rows' = Older(rows) /\ mine' = Older(mine)
  /\ UNCHANGED <<service, phase, class, test, schema, reader, answer>>

\* A mutant: no refresh.
AddDocumentUnseen(v) ==
  /\ Ready("elasticsearch") /\ Room
  /\ rows' = Under(rows, v, Row(v, Never, FALSE))
  /\ mine' = Under(mine, v, Row(v, Never, TRUE))
  /\ UNCHANGED <<service, phase, class, test, schema, reader, answer>>

\* add: a refresh shows every document of the one shard; the index has no
\* refresh of its own (refresh_interval -1).
AddDocument(v) ==
  LET doc == Row(v, Never, OracleRuns)
      after == Under(rows, v, doc)
  IN  /\ Ready("elasticsearch") /\ Room
      /\ rows' = IF OracleRuns THEN [i \in DOMAIN after |-> [after[i] EXCEPT !.shown = TRUE]] ELSE after
      /\ mine' = Under(mine, v, doc)
      /\ UNCHANGED <<service, phase, class, test, schema, reader, answer>>

\* save: the planted bug writes Latin-1, and the reader expects UTF-8.
SaveBlob(v) ==
  LET blob == Row(v, Never, OracleRuns \/ v \notin Wide) IN
  /\ Ready("s3") /\ Room
  /\ rows' = Under(rows, v, blob)
  /\ mine' = Under(mine, v, blob)
  /\ UNCHANGED <<service, phase, class, test, schema, reader, answer>>

Reads == UNCHANGED <<service, phase, class, test, schema, rows, reader, mine>>

Count == (Ready("postgres") \/ Ready("mongo")) /\ Answers(Len(rows), Len(mine)) /\ Reads
\* ORDER BY id LIMIT 1
First ==
  LET FirstOf(held) == {held[i].v : i \in DOMAIN held \cap {1}} IN
  Ready("mysql") /\ Answers(FirstOf(rows), FirstOf(mine)) /\ Reads
GetCached(v) == Ready("redis") /\ Answers(Holds(rows, v), Holds(mine, v)) /\ Reads
\* search: every document matches the term; no size, so that a page of them comes back.
PageOf(n) == IF n > MaxHits THEN MaxHits ELSE n
Search ==
  LET shown == {k \in DOMAIN rows : rows[k].shown} IN
  /\ Ready("elasticsearch")
  /\ \E hits \in SUBSET shown :
       Cardinality(hits) = PageOf(Cardinality(shown)) /\ Answers(hits, DOMAIN mine)
  /\ Reads
\* load: of a key that was saved; bytes that are not UTF-8 do not decode.
LoadBlob(v) ==
  /\ Ready("s3") /\ Holds(rows, v)
  /\ Answers(\A i \in DOMAIN rows : rows[i].v = v => rows[i].shown, TRUE)
  /\ Reads

------------------------------------------------------------------------------
(* kafka: a reader is given its partition some time after it subscribed, and
   then starts where offset_reset says.  Polls that bring nothing change nothing.
   Nothing is committed, so that a later reader of the same group starts there
   again. *)

\* publish returns whatever flush says: the message is in the topic once, which
\* nobody is told, or its delivery failed, is late or is tried again.
Publish(v, once) ==
  /\ service = "kafka" /\ phase \in {"ready", "reading"} /\ Room
  /\ rows' = IF once THEN Append(rows, Row(v, Never, TRUE)) ELSE rows
  /\ mine' = Append(mine, Row(v, Never, once))
  /\ UNCHANGED <<service, phase, class, test, schema, reader, answer>>

\* One of the others reaches the topic: later, never, or more than once.
Straggler(i) ==
  /\ service = "kafka" /\ phase \in {"ready", "reading"}
  /\ Len(rows) < MaxWrites /\ ~mine[i].shown
  /\ rows' = Append(rows, Row(mine[i].v, Never, TRUE))
  /\ UNCHANGED <<service, phase, class, test, schema, reader, mine, answer>>

ReadAll(stop) ==
  /\ Ready("kafka") /\ phase' = "reading"
  /\ reader' = [NoReader EXCEPT !.stop = stop]
  /\ UNCHANGED <<service, class, test, schema, rows, mine, answer>>

\* A mutant: the oracle reads from the end too.
OffsetLatest == Len(rows) + 1
OffsetReset == IF OracleRuns THEN 1 ELSE Len(rows) + 1
Assigned ==
  /\ phase = "reading" /\ reader.at = 0
  /\ reader' = [reader EXCEPT !.at = OffsetReset]
  /\ UNCHANGED <<service, phase, class, test, schema, rows, mine, answer>>

Poll ==
  /\ phase = "reading" /\ reader.at \in DOMAIN rows
  /\ reader' = [reader EXCEPT !.at = @ + 1, !.out = Append(@, rows[reader.at].v)]
  /\ phase' = IF reader.stop # NoStop /\ Len(reader.out) + 1 >= reader.stop THEN "ready" ELSE phase
  /\ UNCHANGED <<service, class, test, schema, rows, mine, answer>>

\* deadline: also before the first message was handed out.
Deadline ==
  /\ phase = "reading" /\ phase' = "ready"
  /\ UNCHANGED <<service, class, test, schema, rows, reader, mine, answer>>

------------------------------------------------------------------------------
(* vault, keycloak, chaos: one call of the harness's reader, verifier or client *)

SECRET == {"password", "username", "api_key"}
ReadSecret(key) == /\ Ready("vault") /\ Answers(IF OracleRuns THEN {key} ELSE SECRET, {key}) /\ Reads
VerifyToken(genuine) == Ready("keycloak") /\ Answers(OracleRuns => genuine, genuine) /\ Reads

\* set and get through the proxy.  Of a key this test did not set, nothing is
\* promised.
SetThrough(v) ==
  /\ Ready("chaos")
  /\ rows' = Under(rows, v, Row(v, Never, TRUE))
  /\ mine' = Under(mine, v, Row(v, Never, TRUE))
  /\ UNCHANGED <<service, phase, class, test, schema, reader, answer>>
GetThrough(v) ==
  /\ Ready("chaos") /\ v \in DOMAIN mine
  /\ Answers({rows[k].by : k \in DOMAIN rows \cap {v}}, {mine[v].by})
  /\ Reads

\* A stall holds back what comes from the upstream, where a set may have been
\* done.  The socket timeout raises, or there is none and the call hangs.
CallStalled(v, done) ==
  /\ Ready("chaos")
  /\ phase' = IF OracleRuns THEN "ready" ELSE "hung"
  /\ rows' = IF done THEN Under(rows, v, Row(v, Never, TRUE)) ELSE rows
  /\ Answers(IF OracleRuns THEN "TimeoutError" ELSE "hung", "TimeoutError")
  /\ UNCHANGED <<service, class, test, schema, reader, mine>>

StoreUnused ==
  /\ phase = "between" /\ class = "oracle" /\ test = 0 /\ schema = "none"
  /\ rows = <<>> /\ reader = NoReader /\ mine = <<>>
  /\ answer = [got |-> {}, due |-> {}]

StoreInit == StoreUnused /\ service \in Services

StoreNext ==
  \/ \E c \in {"oracle", "buggy"} : Setup(c) \/ SetupProxy(c)
  \/ \E done \in BOOLEAN : Teardown(done)
  \/ EnsureSchema \/ Tick \/ Count \/ First \/ Search \/ Assigned \/ Poll \/ Deadline
  \/ \E v \in Values :
       \/ AddUser(v) \/ SaveNote(v) \/ AddDocument(v) \/ SaveBlob(v)
       \/ GetCached(v) \/ LoadBlob(v) \/ \E ttl \in 1..MaxTtl : Put(v, ttl)
       \/ SetThrough(v) \/ GetThrough(v)
       \/ \E b \in BOOLEAN : Publish(v, b) \/ CallStalled(v, b)
  \/ \E i \in DOMAIN mine : Straggler(i)
  \/ \E stop \in {NoStop} \cup 1..MaxWrites : ReadAll(stop)
  \/ \E key \in SECRET : ReadSecret(key)
  \/ \E b \in BOOLEAN : VerifyToken(b)

StoreSpec == StoreInit /\ [][StoreNext]_storeVars
------------------------------------------------------------------------------
(* Properties *)

Rows == [v : Values, by : Nat, left : Int, shown : BOOLEAN]
Contents(held) ==
  IF service \in Keyed THEN held \in [DOMAIN held -> Rows] /\ DOMAIN held \subseteq Values
  ELSE held \in Seq(Rows)
StoreTypeOK ==
  /\ service \in Services \cup {"none"}
  /\ phase \in {"between", "setup", "ready", "reading", "aborted", "hung"}
  /\ class \in {"oracle", "buggy"} /\ test \in 0..MaxTests
  /\ schema \in {"none", "oracle", "buggy"}
  /\ Contents(rows) /\ Contents(mine)
  /\ reader \in [at : Nat, stop : Nat, out : Seq(Values)]
  /\ DOMAIN answer = {"got", "due"}

\* "Isolation is per service" (conftest.py:4-11): from the moment a test may use
\* its store, the service holds nothing an earlier test wrote, and no schema or proxy
\* of another, whatever the earlier one did and whether or not its clean-up ran.
\* The redis behind the proxy of network_chaos, which that list leaves out, is the
\* exception: what one test sets there the next one finds.
FreshStart ==
  phase \in {"ready", "reading"} =>
    /\ service # "chaos" => \A i \in DOMAIN rows : rows[i].by = test
    /\ schema \in {"none", class}

\* What each oracle promises, in terms of what its test wrote: unique e-mails
\* and no others refused, notes of any characters, values until their expiry and
\* not after, documents found as soon as they are added, all of them up to a page
\* and a full page of more, blobs that read back, one key of a secret, genuine tokens
\* only, through a proxy the value one has set and not the one an earlier test left,
\* and a stall that ends in a timeout.
OracleServes ==
  class = "oracle" =>
    IF service = "elasticsearch"
    THEN answer.got \subseteq answer.due /\ Cardinality(answer.got) = PageOf(Cardinality(answer.due))
    ELSE answer.got = answer.due

\* Every message was delivered once, before publish returned.
EachOnce == \A i \in DOMAIN mine : mine[i].shown

\* A reader from the earliest offset has read what the topic holds, from its start,
\* in its order and none left out, and no more than it was to stop after
\* (kafka_stream:8-13), wherever its deadline fell and whatever came in between.
\* If each message was delivered once, that is what was published.
ReadsArePrefixes ==
  class = "oracle" /\ phase \in {"ready", "reading"} =>
    /\ \A i \in DOMAIN reader.out :
         /\ i \in DOMAIN rows /\ reader.out[i] = rows[i].v
         /\ EachOnce => i \in DOMAIN mine /\ reader.out[i] = mine[i].v
    /\ reader.stop # NoStop => Len(reader.out) <= reader.stop

------------------------------------------------------------------------------
(* The inductive invariant of these three. *)

\* A test that has a schema to make finds the database of postgres and mongo
\* empty; a test that runs finds its own writes, and an oracle all of them and
\* little else: another test's under the keys it has not set, or what kafka
\* delivered otherwise than once.
CleanSlate ==
  /\ service = "postgres" /\ phase = "between" => rows = <<>> /\ schema = "none"
  /\ phase = "setup" =>
       /\ mine = <<>> /\ service \in HasSchema
       /\ service \in {"postgres", "mongo"} => rows = <<>> /\ schema = "none"
Faithful ==
  /\ service \notin {"kafka", "chaos"} => rows = mine /\ \A i \in DOMAIN rows : rows[i].shown
  /\ service = "kafka" /\ EachOnce => rows = mine
  /\ service = "chaos" =>
       \A k \in DOMAIN mine : mine[k].by = test /\ k \in DOMAIN rows /\ rows[k].by = test
OwnWrites ==
  phase \in {"ready", "reading"} =>
    /\ schema = IF service \in HasSchema \cup {"chaos"} /\ (service = "mongo" => OracleRuns) THEN class ELSE "none"
    /\ OracleRuns => Faithful

\* A reader is where the messages it has read end.
ReaderFollows ==
  /\ reader.at > 0 /\ OracleRuns => Len(reader.out) = reader.at - 1
  /\ reader.at = 0 \/ service # "kafka" => reader.out = <<>>
  /\ phase = "reading" =>
       service = "kafka" /\ (reader.stop # NoStop => Len(reader.out) < reader.stop)

StoreInv ==
  StoreTypeOK /\ FreshStart /\ OracleServes /\ ReadsArePrefixes /\ CleanSlate /\ OwnWrites /\ ReaderFollows
==============================================================================
