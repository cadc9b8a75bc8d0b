# A verification development for the privacy-preserving personal assistant

TLA+ modules that model the program in `src/`, TLC configurations that check
them on small instances, and TLAPS proofs of what should hold for every instance.
The core of the program is its federated-learning round: a coordinator, client
processes that train locally and send masked updates, a secure-aggregation
protocol that lets the server learn only their sum, a differential-privacy
ledger, and web operations that drive rounds. Around it there are a supervisor of
client processes, an audit log, accounts, and users' records behind a consent gate;
they are modelled as well.

## 1. Inventory

| part (source) | state it keeps | operations | correct when |
|---|---|---|---|
| Coordinator (`fl/server/coordinator.py`, `routes.py`) | registered ids, round id, phase, participants, keys, sealed shares, masked vectors, survivors/dropped, opened shares, history, accountant, weights | register, unregister, reset, start, submit keys / shares / vector / reveal, close collection | never opens both secrets of a client; a sum has a quorum behind every secret; history, ledger and model agree; a round id names one round |
| Client process (`fl/client/agent.py`, `run.py`) | what it last read, its `ClientSecAgg` instance, the rounds it has served | poll, advertise, share, train, mask, reveal; the `--drop-at` demonstration | a round it is waited for in can complete; an exception never ends the process |
| Secure aggregation (`fl/protocol/secagg.py`) | key pairs, self-mask seed, shares | masks, sealing, opening, unmasking | the published sum is exactly the survivors' sum |
| Shamir, sealing, key agreement (`shamir.py`, `crypto.py`) | none | split, reconstruct, seal, unseal | any `t` shares give the secret back |
| Quantisation (`quantize.py`) | none | to and from `uint32` | the sum of all clients never wraps |
| Accountant and noise (`fl/privacy/`) | sampling rate, steps, noise multiplier | step, spent | every noised round is charged, at no less than its noise |
| Round drivers (`federated_service.py`, `SweepRunner` in `supervisor.py`) | a position in a loop, the sweep's `running` flag, stored rounds | run, experiment, sweep; polling, deadlines | a driver stores its own rounds, ends, and does not spoil another's |
| Client supervisor, dataset job (`supervisor.py`, `pipeline_service.py`) | child processes, adopted ids, a job record | spawn, stop, reap, prepare | a live client is registered, a dead one is not |
| Audit log (`audit_repository.py`, migrations) | a hash chain in a table | append, verify | a log that verifies was not changed; an alarm has a cause |
| Authentication (`core/auth.py`, `user_service.py`) | revoked tokens, attempt counters (in memory), users | register, login, logout | a revoked token stays revoked while the server runs; limits hold |
| Consent, records, reminders (`consent_service.py`, `scheduling_service.py`, `reminder_service.py`, `scheduler/`) | rows of a database | grant, withdraw, create, list, change, delete, fire | nothing is done without consent; a reminder fires once |
| Assistant, summariser, date parsing | trained models | inference, dispatch, parsing a date | a date is the first moment the text describes; the rest is heuristic |
| Training, data preparation, ONNX export, Angular client, schema | files, models | numerical code, I/O, presentation | outside a state machine |

How they interact. All HTTP requests to the coordinator are served by a thread
pool and each holds one re-entrant lock, so a handler is atomic; everything
between two requests of a client, or between two calls of a driver, is not.
Clients learn of progress only by polling `status`; requests carry no round id;
posting may fail on either side of the server's handling. Drivers run in request
threads and one sweep thread of the same process, share the coordinator with the
clients and with each other, and recognise "their" round only by its phase.

The other components share less. Requests of the web application run in worker
threads, each with a database session of its own; between two statements or commits of
one, the others move. The supervisor serialises spawning and stopping with a lock, but
the requests that call it have checked before, outside the lock, whether the dataset
job runs; registrations reach the coordinator on their own. Failed logins and revoked
tokens live in the memory of one process. All of them append to one audit log.

What is hard here: clients act on a status that has become stale; keys of a
restarted client race those of its earlier life; collection can be closed by the
last vector, a deadline, an operator or a dropper; answers are lost after they
took effect; an evaluation fails after the model was updated; resets arrive in
the middle of anything; drivers, spawn requests and the dataset job check, then act;
a row is looked up, then written, when it may be gone or be another's; a commit is
followed by its audit record or by a crash. `PROJECT.json` lists each of these hazards
at its line with the properties that cover it, or a note on what none covers and why.

## 2. The modules

```
FLRound            what a round promises (abstract)
  ^ implemented by
Coordinator        the coordinator's handlers; environment: any selected client,
  |                any order, any number of times
  |- MCCoordinator             TLC instance
  |- CoordinatorProofs         type, invariants, action properties, refinement of FLRound
  |  EXTENDS
  |- SecAggRound       client processes and symbolic cryptography around the handlers
       |- MCSecAggRound        TLC instance
       |- SecAggRoundProofs    types, all four invariants, ServerBehaves; late requests
RoundDrivers       web operations and sweep over FLRound (INSTANCE Server)
  |- MCRoundDrivers            TLC instance
  |- RoundDriversProofs        type, RecordsMoveOn, AloneItOwnsItsRounds
Pipeline           client processes, supervisor, dataset job, their requests
  |- MCPipeline                TLC instance
  |- PipelineProofs            types and all three properties
AuditLog           the hash chain, its sessions, triggers and verification
  |- MCAuditLog                TLC instance
  |- AuditLogProofs            all three properties
Accounts           registration, login, tokens, logout, restarts
  |- MCAccounts                TLC instance
  |- AccountsProofs            types and both properties
Records            consent, reminders, events, messages, assistant, sweep
  |- MCRecords                 TLC instance
  |- RecordsProofs             types and all four invariants
Algorithms         the pure algorithms against what they are for
  |  EXTENDS
  |- SecretSharing, FixedPoint, DateParsing
  |- MCAlgorithms              TLC instance
  |- AlgorithmsProofs          the rounding of sums, the parsing of dates, secret sharing
```

### Coordinator

The variables are the coordinator's fields under their names; `bPool` and `sPool`
are `_b_pool` and `_s_pool` as sets of `[owner, holder, key]`. A *key* is a token
for one `ClientSecAgg` instance (two key pairs and a seed). `inbox` is one
function from target and sender to key. Only what the properties can tell apart
is kept of the numbers: of a result its round, members, survivors and noise;
`model` is the set of updates the weights have absorbed; of the accountant the
per-round size it was created with, its steps and its last noise multiplier.

Every handler that changes this state is one action, including the transition it
triggers: `SubmitMasked` closes collection with the last vector, `SubmitReveal`
aggregates with the last report. `Aggregate` has three ends: reconstruction
raises (shares of two instances under one owner), `evaluate` raises after weights
and ledger were updated, or the record is appended and the phase is `DONE`. In the
first two the phase stays `AGGREGATING`. Requests the code refuses with 409 change
nothing and are no steps.

A sample is any subset of the registered clients with at least two members
(`routes.py` demands `clients_per_round >= 2`); the noise multiplier is any
element of `Sigma`, 0 meaning no privacy target. The environment opens any part
of what a client holds, only for clients on the right list (`ClientSecAgg.reveal`),
with whatever keys the inbox has for them, so the server is checked against clients
that are inconsistent with each other, never against ones the client code cannot be.

### FLRound

Seven variables: stage, round id, members, contributors, the owners of the opened
secrets, and the published results. It says that a round does not interrupt another,
that contributors are at least two and a majority of the members and are fixed
before any secret is opened, that only contributors' self-mask seeds and others'
mask keys are opened, and that a result is published only when all needed
secrets are. The refinement maps `ADVERTISE_KEYS`, `SHARE_KEYS` and `COLLECT` to
"gathering" and `AGGREGATING` to "failed" (no lock is released while a successful
aggregation is there).

### SecAggRound

The module extends `Coordinator`: a client's request is handled by the same operators
(`SubmitMasked`, `SubmitReveal`, ...) that are the coordinator's own actions.
A client is a sequential process; each poll, fetch and post is a step. `Post`
has four ends: handled and answered, refused (the client raises), lost before or
after handling, given up on and arriving later. Every exception returns the client
to the loop of `run.py`, which registers again; the set of served round ids survives
exceptions, not crashes. A restarted process makes a new instance, and a key names
an instance: its client, its round and how often the client has been restarted. The
dropper (`--drop-at COLLECT`) polls, asks to close and then waits.

Cryptography is symbolic. A mask is identified by the pair of keys it is agreed
from, the round id in its context and its sign, which depends on the order of
the two client ids; a share opens only for the recipient, sender and round it was
sealed for, otherwise `reveal` raises. `SumIsUnmasked` says that in every published
sum each mask meets its negation and each self-mask is the recovered one.
`book` is a history variable: which peers' keys an instance saw when it sealed.

### RoundDrivers

A request for rounds, an experiment and the sweep thread are loops over
reset, start, poll, deadline and store. Each call into the coordinator is a step;
so are the read of the sweep's flag, the read of the last stored number and the
insert. `overlap` is a history variable: an operation has begun during another's.
`rows` is what was stored; the sweep's log entries have number 0. A driver's
deadline may pass at any time it is waiting. Refusals because of too few clients are
nondeterministic: registrations are not part of this module.

### Pipeline

One record for each operating-system process: its client id, who started it, how far
it is, which preparation its shard comes from, and whether a registration it has
posted is still on its way (`posted`; `late` once it has arrived after its sender's
death). `clients` is the supervisor's table, `registered` the coordinator's pool,
`cache` the coordinator's cached test split. The dataset job writes the test
split, the shards and `meta.json` one after the other; a file is the number of the
preparation it comes from, so shards of one preparation are disjoint by construction.
Everything under the supervisor's lock (`spawn`, `stop`, `reap_dead`) is one step;
a request to spawn or prepare is two, its checks and its action. `overlap` is a history
variable: a spawn request and a preparation request were both past their checks.
Of rounds only `busy` is kept, which stands for a sweep, too. A server restart either
stops the supervised clients or, when it did not end in order, leaves them alive as
if started by hand. A preparation never runs across a restart.

### AuditLog

`ReadLast`, `Insert` and `Commit` are the three steps of `AuditRepository.create`: the
newest record is read, the flush draws the id, the commit makes the row visible. Ids come
from the database's sequence, so they may be committed in another order than they were drawn,
and those of failed inserts are lost (`Abort`). On SQLite, which has one writer, only some of
these interleavings happen. A hash is the pair of what was hashed. `inserted`, the list of
all records by id with the ids each had seen, lets the properties speak about records that
were altered, removed or never committed. `naive` says that the database keeps no time zone,
as SQLite does: `Shifted` is what a body becomes when its time is taken for one in the
host's zone, and is the identity on a host in UTC. Verification reads the rows by id. The
triggers of the migration reject `Alter` and `Remove`; `downgrade` drops them. Nobody who
alters a record computes hashes anew: they are not keyed, so a chain rewritten from some
record on verifies.

### Accounts

Login is an `async` handler without an `await`, thus one step; registration and logout
run in worker threads, one step per access to shared state. `attempts` and `revoked`
vanish with the process; `run` counts its lives. A token is its claims and the key it is
signed with. `failures`, `cut` and `loggedOut` are history variables. Ids of accounts are
only compared, and an insert takes any that no account has: which one the sequence gives
next depends on inserts that were refused or cut off. Password hashing and JWT encoding are
ideal.

### Records

A request is a *program*: the sequence of statements and commits its service method makes,
written down once per method (`Create`, `Update`, `summarize`, `handle`, ...) and executed
one stage at a time by a session. An interpreter with one action per kind of stage takes the
place of one action per method and line. What the ORM does is part of the stages: only
changed attributes are written (a due time may have changed though the reminder is as much
due, hence `moved`), an insert keeps the row it made, a row that is gone makes a flush or a
refresh raise and a delete warn, an audit record's commit expires the row, which is then
read again. On SQLite the id of a deleted newest row is given away again (`NewIds`). The
reminder sweep is one more program, with a stage for each reminder that was due when it
began, in any order, as the query has no ORDER BY. An update's payload may carry each of
three attributes, and any string as status, as its schema does. `effects`, `recorded` and
`answered` are history variables; `could` holds the categories granted at some time since a
request arrived.

### SecretSharing, FixedPoint, DateParsing and Algorithms

Operators without state. A float is a multiple of `clip / UNIT`, and every update comes with
the error that float32 makes of `(v + clip) * scale`: any up to `SLACK`, counted like `UNIT`
in parts of which a level has `2 * UNIT`. Clipping, the tie rule of `np.round`, the bias by `n`
clients and wrap-around at `MODULUS` are exact; the float64 arithmetic of `dequantize_sum` is,
too. A text is the sequence of its words that matter to `parse_relative_datetime`; a number may
carry a meridiem with or without dots, and only the one without is seen by the pattern.
`LastDay` is the last day of the calendar, after which dates raise. A state of `Algorithms` is
one input of one algorithm, and an invariant compares the result with a definition that does
not compute it: that `t` shares give the secret back while fewer fit every secret, that the
dequantised sum is near the exact one, that a date is the first moment the text describes.

## 3. What the runs show

| run | instance | states | properties |
|---|---|---|---|
| `coordinator` | 3 clients, 1 key, noise 0 or 1, 2 rounds, symmetry | 151,692 | `TypeOK`, `RoundShape`, `NeverBothOpened`, `LedgerCountsNoisedUpdates`, `HistoryExplainsModel`, `QuorumBehindResult`, `ClosedIsFinal`, `IdNamesOneRound`, `ImplementsRound` |
| `secagg_failures` | 3 clients, 2 rounds of 3, two failures of: lost request, timeout, crash, reset | 589,258 | `SecAggTypeOK`, `SumIsUnmasked`, `EverySurvivorReported`, `NeverBothOfOneInstance`, `RevealNeverFails`, `ServerBehaves` |
| `secagg_late` | 3 clients, 1 round of 2 or 3, three failures of: lost, late, crash, failing evaluation | 635,926 | `SumIsUnmasked` |
| `secagg_train` | 5 clients, one of them the dropper, one death while training, fairness | 27,364 | `RoundCompletes` |
| `drivers` | 2 requests and sweeps, up to 2 rounds each, 2 round ids, fairness | 360,636 | `TypeOK`, `RecordsMoveOn`, `AloneItOwnsItsRounds`, `EveryOperationEnds` |
| `pipeline` | 2 processes, 2 client ids, 2 requests, at most 1 supervised client, 2 preparations, symmetry | 1,247,746 | `TypeOK`, `RegisteredIsAccountedFor`, `OneCorpus`, `ForgetsOnlyItsOwn` |
| `audit` | 3 sessions, 3 records, 2 alterations or removals, symmetry | 1,324,576 | `LogTypeOK`, `ValidMeansUntouched`, `AlarmHasCause` |
| `accounts` | 2 worker threads, 2 e-mails, 3 ids, 2 secrets, limit, window and token life 2, 3 seconds, 2 runs of the server, 2 logins, symmetry | 2,528,722 | `TypeOK`, `LockedByFailuresOnly`, `AdmittedUntilLogout` |
| `records` | 2 users, 2 workers and the sweep, 7 of the routes' requests, 3 requests, 2 ids, 1 crash, fairness | 1,777,986 | `TypeOK`, `AuditAgreesWithEffects`, `ConsentBehindEffects`, `OwnersOnly`, `NeverFiredTwice`, `DueRemindersFire` |
| `algorithms` | prime 5, 4 shares; 7 levels, an error of up to a quarter level, 4 updates, modulus 32; texts of up to 2 words at 32 moments, the calendar's last day among them | 937,757 | `SharesRevealExactly`, `SumWithinRounding`, `NamesFirstSuchMoment` |
| `secagg_reset` | 2 clients, 2 rounds, one reset, fairness | violated | `RoundAfterResetCompletes` |
| `drivers_reset` | 1 request and the sweep | violated | `NeverResetsAwaitedRound` |

Why these bounds. Three clients are the fewest that tolerate a dropout (with two the
threshold is two) and the fewest of which two survive while one is dropped. Five
with threshold three allow a dropper and a death together, and make a client's own
share decide whether the threshold is met. Two rounds are the fewest in which
something can be carried over from one to the next. Symmetry permutes clients, whose order nothing in
`Coordinator` uses; `SecAggRound` has none because ids order the mask signs, and the
runs with liveness have none. In `drivers` two round ids suffice for one driver
to take another's record, and for operations of two rounds or two epsilons.

In `pipeline` two processes can be two of one id (one by hand, one supervised) or two
clients, of which the limit admits one; the first preparation has run before the server
started or not at all, the second replaces it. Three audit records in three sessions are the
fewest of which one was seen and two overlap, so that their ids may be committed in either
order; a time that reads back shifted can be mistaken for another body of the instance. In
`accounts` three ids leave one to be skipped; three seconds let a window of two slide and a
token of two expire; times only enter through differences. The requests of `records` are
chosen for what can meet in the time of one another: an update, a deletion, an assistant's
listing and a withdrawn consent of one user, and a creation, a consent first denied by
absence and a summary of the other, with a sweep over one due reminder. Three requests let a
row be looked up, deleted and its id given away. In `algorithms` the modulus is the first
power of two above the largest sum, as little room as the code's parameters must leave. The
error of a quarter level is more than the code's: near the top of the range float32 has a
spacing of 1/16 level (24 bits of precision, 20 of levels), and four roundings go into a
product. The calendar ends three days after the week of the other moments, so that "in 8
days" and "in 30 days" leave it from some of them and every later day from its last.

Deadlock. `records` may stop when all requests have been made and nothing is due.
`secagg_failures` and `secagg_reset` may stop: after a reset or the last
round id the clients that wait have nothing left to happen (the 900 s timeouts are
failures here, and bounded). The two `drivers` runs may stop with the coordinator in a
failed round and all requests answered; the program then waits for an operator's reset.

Fairness. `FairSpec` of `SecAggRound` assumes that client processes keep taking
steps other than failures, and that some driver's deadline passes and closes
collection: `_wait_for_round` (`federated_service.py:182-192`), `_wait_round`
(`supervisor.py:455-463`), `run_sweep.py:15-16` and the dropper (`agent.py:150-153`)
all do so. A dead client is not assumed to come back (the supervisor restarts
nobody) and no round is assumed to be started. `FairSpec` of `RoundDrivers` assumes
only that worker threads run and clocks advance; clients may never move. `Spec` of
`Records` assumes that the scheduler's sweep is started again and again
(`reminder_scheduler.py:27-31`, every minute) and runs; requests may stay where they are.

### What the two violations say

* `secagg_reset`: a client that noticed a round before a reset posts its keys into the
  round after it, raises, and then cannot join the round that waits for it, against
  "self-heals after a coordinator reset" (`run.py:31`).
* `drivers_reset`: the checks of `run()` and of the sweep's `start()` are separated from
  the start and the reset they protect, and `experiment()` resets before any check, against
  "Refuse overlap instead of resetting a round that another operation is waiting on."
  (`federated_service.py:35`).

### Where code and documentation differ otherwise

Seen while modelling and not stated as properties: the first three are visible in
single lines.

* Rounds of one experiment may have different noise; the accountant composes all
  steps at the last multiplier (`accountant.py:89,96`), against "RDP composition over the
  rounds actually executed" (`docs/federated_learning.md:31`).
* A dropped client's part of the noise is missing from a sum that is charged in
  full (`dp_client.py:21`), against `docs/federated_learning.md:79`.
* The dropper's test for an already completed round looks at a status older than its own
  close request (`agent.py:155-161`); it can then wait for `UNMASK` in a round that is
  `DONE` until the timeout. Nobody waits for it.
* `parse_relative_datetime` reads the number of "in 3 days" as an hour as well (3 pm),
  gives "next" no meaning, and raises for a minute of 60 or more and for a day after the year
  9999 (`datetime_utils.py:35-37`).
* The pattern's closing `\b` (`datetime_utils.py:9-11`) never holds between a dot and a space
  or the end, so "9 p.m." is read as nine in the morning and "3 a.m." as three in the
  afternoon, while line 55 has a case for the dotted forms.
* SQLite returns `created_at` without its zone; `.timestamp()` (`audit_repository.py:20,80`)
  then takes it for a local time, and verification of an untouched log fails on a host that
  is not in UTC.
* On PostgreSQL two audit records may be committed against the order of their ids, and
  `verify_integrity` (`audit_repository.py:62`), which goes by id, then names a record that
  nobody touched.
* `quantize.py:10-12` computes in float32: near the top of the range an update is off by more
  than half a level.

### Limits of the passing properties

Found by varying the bounds and the statements. `SumIsUnmasked` needs
late requests to arrive within their round: with two rounds a vector of the first
can replace one of the second, because requests name no round. `RevealNeverFails`
needs that no request of a crashed process arrives late. `RoundCompletes` is about
losses while training and deliberate dropouts; the code stops the round for any
participant lost in `ADVERTISE_KEYS` or `SHARE_KEYS` and any survivor lost in
`UNMASK`. With overlapping requests a driver really can store another's
round, and two rounds under one number; only `RecordsMoveOn` survives overlap.

`AlarmHasCause` has causes that are nobody's tampering: two requests that append at the same
time fork the chain, one whose id is smaller may be committed after one that is greater, and
a database without time zones may give another time back; verification then reports a broken
record although nobody touched the table. `ValidMeansUntouched` does not say that the newest
records are there: removing them leaves a log that verifies. Nor does it tell a record from
its twin, one with the same hash: two sessions that record the same at the same second.
`NeverBothOfOneInstance` and `EverySurvivorReported` are checked without late requests; for
one round they are proved with them. `AuditAgreesWithEffects` speaks of requests that were
answered with success; what one did that failed or was cut off after its commit may be
recorded nowhere. The other way it speaks of "CREATED" and "FIRED" only: an update that
changes nothing, a deletion of a row already gone and a reading that fails after its record
are recorded without having had an effect. `AdmittedUntilLogout` speaks of one run of the
server: with the next, logged-out tokens are admitted again until they expire.
`ConsentBehindEffects` allows a request to finish after its consent was withdrawn.
`OwnersOnly` leaves one way to another user's row, that of an id which was given away (on
SQLite) after the row it named was looked up or made and before the request is done with it:
a request can then change or delete that row, or give it as its own answer. Which rows a
list has is the query's condition and is not modelled. `NeverFiredTwice` leaves a status
that a user writes while the sweep is on its way, which the sweep overwrites. `OneCorpus`
excludes a spawn that overlaps a preparation, a preparation that failed half way, and
clients whose id the newest preparation no longer plans; in each of these, clients really
can train on shards of an older preparation. `RegisteredIsAccountedFor` has the late
registration as an exception: a client stopped by the supervisor can come back to the pool
and is sampled.

## 4. What is proved

For every value of the constants under the assumptions named in the modules. Of these,
what is more than a bound or a type:

* clients are finitely many, and in `SecAggRound` natural numbers, because their order
  decides the sign of a mask; there the keys are exactly the instances;
* primary keys in `Records` are finitely many (a new one is computed from the greatest),
  the sweep is not a worker, and rows that exist at the start have owners;
* windows, limits and token lives in `Accounts`, precision, levels and modulus in
  `FixedPoint`, and the number of preparations in `Pipeline` are at least 1; the error of
  float32 is below half a level (`SLACK < UNIT`; the code's is a quarter at most); sums have
  room in the modulus (with the code's 20 and 32 bits: up to 4096 clients,
  `quantize.py:4-5`); numbers in texts are natural numbers, as a regular expression's
  digits are, and texts are read on a day of the calendar;
* `PRIME` in `SecretSharing` is a prime, stated by what does not divide it, and there are
  fewer shares than elements of the field, so that shares stand at different elements and
  none at 0 (with the code's prime, 2^521 - 1: `shamir.py:5`, one share per participant);
* forged bodies in `AuditLog` are bodies.

Some theorems have a hypothesis of their own, and without it they are false. Those about
`SecAggRound` other than its types assume one of two things. Most assume
`"late" \notin Failures`: requests are lost, answers are lost, clients time out, crash and
restart and the round is reset, but no request arrives after its sender has given up on
it. Requests carry no round id, so a late one is really taken for one of the current
round. The three whose names end in `InOneRound` assume `MaxRound = 1` instead and allow
every failure: a late request may be of an earlier life of its client, but not of an
earlier round. `NoneFiredTwice` assumes that no
update sets the status "fired" itself: the schema takes any string, and a reminder that the
sweep has already listed as due is then fired although it is marked so.

| theorem | statement |
|---|---|
| `CoordinatorProofs!TypeCorrect` | `Spec => []TypeOK` |
| `CoordinatorProofs!RoundShapeHolds` | `Spec => []RoundShape` |
| `CoordinatorProofs!NeverBothOpenedHolds` | `Spec => []NeverBothOpened` |
| `CoordinatorProofs!ClosedIsFinalHolds` | `Spec => ClosedIsFinal` |
| `CoordinatorProofs!IdNamesOneRoundHolds` | `Spec => IdNamesOneRound` |
| `CoordinatorProofs!LedgerCountsHolds` | `Spec => []LedgerCountsNoisedUpdates` |
| `CoordinatorProofs!HistoryExplainsHolds` | `Spec => []HistoryExplainsModel` |
| `CoordinatorProofs!QuorumBehindResultHolds` | `Spec => []QuorumBehindResult` |
| `CoordinatorProofs!RoundImplemented` | `Spec => ImplementsRound` |
| `SecAggRoundProofs!SecAggTypeCorrect` | `SecAggSpec => []SecAggTypeOK` |
| `SecAggRoundProofs!ServerBehavesHolds` | `SecAggSpec => ServerBehaves`, no late requests |
| `SecAggRoundProofs!ComposedRoundImplemented` | `SecAggSpec => ImplementsRound`, no late requests |
| `SecAggRoundProofs!EverySurvivorReportedHolds` | `SecAggSpec => []EverySurvivorReported`, no late requests |
| `SecAggRoundProofs!NeverBothOfOneInstanceHolds` | `SecAggSpec => []NeverBothOfOneInstance`, no late requests |
| `SecAggRoundProofs!RevealNeverFailsHolds` | `SecAggSpec => []RevealNeverFails`, no late requests |
| `SecAggRoundProofs!SumIsUnmaskedHolds` | `SecAggSpec => []SumIsUnmasked`, no late requests |
| `SecAggRoundProofs!SumIsUnmaskedInOneRound` | `SecAggSpec => []SumIsUnmasked`, one round |
| `SecAggRoundProofs!EverySurvivorReportedInOneRound` | `SecAggSpec => []EverySurvivorReported`, one round |
| `SecAggRoundProofs!NeverBothOfOneInstanceInOneRound` | `SecAggSpec => []NeverBothOfOneInstance`, one round |
| `RoundDriversProofs!DriversTyped` | `Spec => []TypeOK` |
| `RoundDriversProofs!RecordsMoveOnHolds` | `Spec => []RecordsMoveOn` |
| `RoundDriversProofs!AloneItOwnsItsRoundsHolds` | `Spec => []AloneItOwnsItsRounds` |
| `PipelineProofs!TypeCorrect` | `Spec => []TypeOK` |
| `PipelineProofs!RegisteredIsAccountedForHolds` | `Spec => []RegisteredIsAccountedFor` |
| `PipelineProofs!ForgetsOnlyItsOwnHolds` | `Spec => ForgetsOnlyItsOwn` |
| `PipelineProofs!OneCorpusHolds` | `Spec => []OneCorpus` |
| `AuditLogProofs!LogTyped` | `LogSpec => []LogTypeOK` |
| `AuditLogProofs!ValidMeansUntouchedHolds` | `LogSpec => []ValidMeansUntouched` |
| `AuditLogProofs!AlarmHasCauseHolds` | `LogSpec => []AlarmHasCause` |
| `AccountsProofs!TypeCorrect` | `Spec => []TypeOK` |
| `AccountsProofs!LockedByFailuresOnlyHolds` | `Spec => []LockedByFailuresOnly` |
| `AccountsProofs!AdmittedUntilLogoutHolds` | `Spec => []AdmittedUntilLogout` |
| `RecordsProofs!TypeCorrect` | `Spec => []TypeOK` |
| `RecordsProofs!AuditAgrees` | `Spec => []AuditAgreesWithEffects` |
| `RecordsProofs!ConsentStandsBehind` | `Spec => []ConsentBehindEffects` |
| `RecordsProofs!OnlyOwners` | `Spec => []OwnersOnly` |
| `RecordsProofs!NoneFiredTwice` | `Spec => []NeverFiredTwice`, no update to "fired" |
| `AlgorithmsProofs!QuantizeWithinRounding` | every update becomes a level, within half a level and the error of float32 of its clipped value |
| `AlgorithmsProofs!AddWithinRounding` | one more update keeps the sum within half a level and the error of float32 per client, while it fits |
| `AlgorithmsProofs!SumsWithinRounding` | so does the sum of any number of updates that fits |
| `AlgorithmsProofs!SumWithinRoundingHolds` | `Spec => []SumWithinRounding` |
| `AlgorithmsProofs!ParsesWhatIsSaid` | a text of any length, read at any moment, gives the first moment it describes |
| `AlgorithmsProofs!NamesFirstSuchMomentHolds` | `Spec => []NamesFirstSuchMoment` |
| `AlgorithmsProofs!SharesReveal` | any `t` shares of a sharing, in any order, reconstruct its secret |
| `AlgorithmsProofs!FewerTellNothing` | any values at fewer than `t` positions fit every secret |
| `AlgorithmsProofs!SharesRevealExactlyHolds` | `Spec => []SharesRevealExactly` |

The arguments. `TypeOK /\ RoundShape` is inductive. `RoundShape` ties phase,
participants and what was collected together: that all keys are in once the phase
has left `ADVERTISE_KEYS`, that survivors are exactly the clients with a vector once
collection is closed, that nothing was opened before. `NeverBothOpened` follows from it,
and `ClosedIsFinal` because each upload is guarded by a phase that is over.
`HistoryExplainsModel` and `LedgerCountsNoisedUpdates` need to know that every update
in the model is of a round up to the current one and that the current round's is
there only in `AGGREGATING` and `DONE` (`RoundInv`); otherwise a second aggregation
would not be counted. `QuorumBehindResult` needs that a holder appears in the pools only if
it has revealed, once (`PoolInv`): the code counts list entries, the property counts
holders. The refinement uses `RoundShape` for "only the right owners" and an
arithmetic lemma on `Threshold` for "at least two, and a majority".

For the clients, `SecAggInv` is inductive when nothing is late. Its centre is that a key
names its instance (`OwnKey`): what the server holds of a client is of that client and, as
long as the client is not about to notice that it is stale, of the current round
(`OneRound`); an instance makes its shares once (`BookOnce`). A client in the server's
round agrees with the server on participants, keys and what is in its inbox (`Agreed`),
so whatever it posts is what `Coordinator` lets arrive: that is `ServerBehaves`, and
with it all that is proved of the coordinator holds of the composition. `Exchange`,
`Vectors`, `Pools` and `Reports` say which instance each share, vector and report comes
from, once for each stage of the round. `SumIsUnmasked` follows because the masks of a published
sum are one for every ordered pair of participants of which one survived (`MasksAre`: the
survivor's from its vector, the dropped client's from its opened key), because a seed
tells its pair (`SeedTells`), and because the two masks of a pair have opposite
signs (`PairCancels`).

With late requests a client that was restarted may share with one instance while the
server has the key of another, and `Agreed` fails. `LateInv` is the weaker invariant of a
single round. Of each client one instance at most makes shares, because a restarted client
can notice the round only before anybody has (`OneEach`). What is on the server or on its
way to it is of such instances (`Pieces`, `Sound`), and a share that somebody else than
its owner opens is of the key the server has, since the opener checked it (`Opens`). A
published secret has two holders or more, one of whom is not the owner, so it is that
key's (`OthersAgree`): the masks are as above. This is where the threshold's floor of
two is needed: a client alone could be the only holder of its own, wrong, secret.

For the drivers the inductive invariant `IInv` says that the newest record of a
published round is that of the current id, that whatever a driver stored is older than the
round it has started since, and how many rounds and epsilons are left where.
`AloneInv` adds, as long as operations have not overlapped, that one driver at most is
busy and what it owns: while it waits, the coordinator's id is the one it asked for; what
it read is of that round; the number it will store is above all stored ones. An
operation that gives up leaves a round running, but `AloneInv` asks nothing of a driver at
rest, and the next one's `Begin` succeeds only in a new round.

For the audit log, `IInv` is: every record carries the hash of the newest one it had seen
when it was inserted (`HistoryInv`); table rows carry the hashes they were inserted with,
whatever was done to their bodies (`TableInv`); a session that has read holds the hash of the
newest row of the table it saw, and one that has inserted an id that is not in the table
(`TailInv`), which no other session has drawn (`IdsInv`). `ValidMeansUntouched` then follows
because equal hashes have equal parts, and `AlarmHasCause` from the least broken id, which
exists by well-foundedness (`FirstBroken`): if its record reads as inserted, the one before
it in the table is not the newest it had seen, so that one is gone or there is one it had
not seen.

For records, a program is a sequence and what a request still has to do is a suffix of
it. `RecordsInv` says of every suffix what the route says of the whole: a stage that touches
a table comes after the check of its category, or the category was granted since the request
arrived (`Gated`); it comes before a record of its action, or there is one (`Audits`); a
record "CREATED" or "FIRED" comes two stages after its effect, or the effect is in the
history (`Announces`); a change, or reading a row back, comes after the
look-up or the insert that takes the row, or the row that was taken was the user's (`Loads`).
`Owned` ties rows, jobs and requests by who made each
request. Each kind of stage keeps these whatever other sessions have done in between, and
they hold of a whole program of each route, method by method. That no reminder is fired
twice is an invariant of its own, `SweepInv`: a sweep's stages are of distinct reminders,
and a stage fires only a row that is pending.

For accounts: the revoked tokens are exactly those logged out in the current run, of which
there are none in a run that has not begun, and ids of tokens are of accounts that exist;
`AdmittedUntilLogout` is these three facts with the definitions. For the lockout, `LockInv`
says that the attempts kept for an e-mail and all its failures, cut down to what is recent,
are the same list now and at every later time: what was forgotten is too old from then on
(`WithinNarrows`). The types of accounts need that two accounts have different ids
(`IdsInv`) and that an account without its audit record has a request that is to write it or
was cut off (`CreatedInv`).

For the pipeline, types first, then `PoolInv` (a supervised process that lives is the one
in the supervisor's table under its id), then `CorpusInv`: during a preparation
every file written so far is of it (`FilesInv`); without an overlap no supervised client
lives while one runs or is about to begin (`QuietInv`); and a loaded client has the
shard that is on disk (`LoadedInv`). `QuietInv` is what the unlocked checks of the
requests are worth. That the supervisor's limit holds (in `TypeOK`) is `CapInv`: a spawn
takes the lowest ids not in use, no more of them than there is room (`LowestIsSmall`, by
an injection into an interval).

For the algorithms: one update is off by half a level and what float32 adds to it, one
addition keeps the bound, and the sum of a sequence is proved by the least length for which
it would fail. (The same device, the least element of a set of numbers, stands for induction
in the proofs about `Accounts`.) A date is the product of two facts: the day is one that the
text names, the first after today if it is a weekday (`NextWeekday`), and the time is that
of the first number that can be an hour, where a clock of 12 hours is read the way `Says`
states without computing it (`HourSaid`); a time without a day is the first such after
`ref`. It is an error if that day is past the calendar's last.

Secret sharing needs a little number theory, none of which is in the library. The least
positive multiple of a number modulo `PRIME` divides `PRIME`, so it is 1 and there is an
inverse (`InverseExists`), and a factor that is not 0 in the field cancels (`Cancel`).
Whatever `reconstruct` returns is linear in the values of the shares (`AtNoneLinear`), and
if the values have a root at one of the points, that point may go (`AtNoneWithout`). With
these two, the value 1 at every point gives 1 (`AtNoneOfOnes`, by the number of points), a
multiple of the point gives 0 (`AtNoneOfMultiples`), and one more step of Horner's rule
with its one more point gives the coefficient that was added (`AtNoneOfPolynomial`); the
last one added is the secret. Shifting a polynomial by a root (`RaisedExists`) gives one
through any values at distinct points (`Interpolates`), and so, for every secret, one that
has the values of the fewer than `t` shares that are known.

Only model-checked:

* liveness (`RoundCompletes`, `EveryOperationEnds`, `DueRemindersFire`), which the proof
  system does not do under fairness.

## 5. What is not modelled

* Training, clipping and partitioning of data, the RDP formulas, classifiers, the extractor
  and the summariser: numerical code and text heuristics, with no state of their own.
* AES-GCM, X25519, ChaCha20, SHA-256, password hashing, JWT: libraries, taken as ideal.
* ONNX export and deployment: a subprocess around a library exporter that changes files
  only; of the rest of the system it only needs that no sweep runs.
* The Angular client, which keeps a token and polls.
* The database schema beyond the indexes, keys and triggers the components rely on.
* Read-only routes; `run_sweep.py`, a command-line driver that compares round ids; which
  supervised client gets `--drop-at`; log files; a database that fails.
* The sampling population in the ledger: `accountant` keeps the first round's sampling
  rate for good, whatever later rounds sample from (a hazard no property covers).

What could follow: the ledger with its sampling population; `Records` over PostgreSQL's
row locks.
