------------------------------- MODULE AuditLog -------------------------------
(***************************************************************************)
(* The audit log (app/repositories/audit_repository.py, audit_service.py)  *)
(* and the triggers of its migration.  Every record carries the hash of    *)
(* the record before it.  A session reads the newest record, inserts its   *)
(* own, which draws the next id, and commits: three steps, so sessions can *)
(* append after the same record, and ids commit out of order (PostgreSQL). *)
(*                                                                         *)
(* SHA-256 is an ideal function: a hash is the pair of what went into it.  *)
(* The time stamp, whole seconds, is part of the body; a database without  *)
(* time zones (SQLite) returns it in the zone of the host.  A record that  *)
(* is deleted between its commit and the refresh after it is left out.     *)
(***************************************************************************)
EXTENDS Naturals, Sequences

CONSTANTS
  Session,            \* database sessions: one for each request or sweep
  Body,               \* what a record says: user, action, reason, time, ...
  Forgery,            \* what an altered record may come to say
  Shifted(_),         \* a body whose time is taken for a local one
  MaxRecords,         \* bound on the records ever inserted
  MaxTouches          \* bound on alterations and removals

ASSUME ForgeryAssumption == Forgery \subseteq Body
ASSUME LogBoundsAssumption == MaxRecords \in Nat /\ MaxTouches \in Nat

VARIABLES
  log,                \* the table audit_logs: its committed rows, by id
  tail,               \* what each session read as the newest record, its insert
  naive,              \* do times come back without their zone?
  triggers,           \* are the append-only triggers in place?
  touches,            \* alterations and removals so far
  inserted            \* history: every record as inserted, by id

logVars == <<log, tail, naive, triggers, touches, inserted>>

GENESIS == <<>>
compute_audit_hash(prev, body) == <<prev, body>>

Newest(ids) == CHOOSE i \in ids : \A j \in ids : j <= i
Oldest(ids) == CHOOSE i \in ids : \A j \in ids : i <= j

\* Mutant: the first record is taken for the newest.
FirstHash(ids) == IF ids = {} THEN GENESIS ELSE log[Oldest(ids)].hash

LastHash(ids) == IF ids = {} THEN GENESIS ELSE log[Newest(ids)].hash

Idle == [step |-> "idle", prev |-> GENESIS, seen |-> {}, id |-> 0]

LogInit ==
  /\ log = <<>>
  /\ tail = [s \in Session |-> Idle]
  /\ naive \in BOOLEAN
  /\ triggers = TRUE
  /\ touches = 0
  /\ inserted = <<>>

\* "seen" are the ids in the table at the time.
ReadLast(s) ==
  /\ tail[s].step = "idle"
  /\ tail' = [tail EXCEPT ![s] = [Idle EXCEPT !.step = "read", !.prev = LastHash(DOMAIN log),
                                             !.seen = DOMAIN log]]
  /\ UNCHANGED <<log, naive, triggers, touches, inserted>>

\* The id is drawn from the sequence, which no failure resets.
Insert(s, body) ==
  LET prev == tail[s].prev IN
  /\ tail[s].step = "read"
  /\ inserted' = Append(inserted, [prev |-> prev, body |-> body,
                                   hash |-> compute_audit_hash(prev, body),
                                   seen |-> tail[s].seen])
  /\ tail' = [tail EXCEPT ![s] = [Idle EXCEPT !.step = "inserted", !.id = Len(inserted) + 1]]
  /\ UNCHANGED <<log, naive, triggers, touches>>

Row(id) == [prev |-> inserted[id].prev, body |-> inserted[id].body, hash |-> inserted[id].hash]

\* Mutant: the session keeps its insert and may commit it a second time.
CommitKept(s) ==
  LET id == tail[s].id IN
  /\ tail[s].step = "inserted"
  /\ log' = [i \in DOMAIN log \cup {id} |-> IF i = id THEN Row(id) ELSE log[i]]
  /\ UNCHANGED <<tail, naive, triggers, touches, inserted>>

Commit(s) ==
  LET id == tail[s].id IN
  /\ tail[s].step = "inserted"
  /\ log' = [i \in DOMAIN log \cup {id} |-> IF i = id THEN Row(id) ELSE log[i]]
  /\ tail' = [tail EXCEPT ![s] = Idle]
  /\ UNCHANGED <<naive, triggers, touches, inserted>>

\* The insert or the commit fails, or the process stops: the id is lost.
Abort(s) ==
  /\ tail[s].step # "idle"
  /\ tail' = [tail EXCEPT ![s] = Idle]
  /\ UNCHANGED <<log, naive, triggers, touches, inserted>>

downgrade ==
  /\ triggers
  /\ triggers' = FALSE
  /\ UNCHANGED <<log, tail, naive, touches, inserted>>

upgrade ==
  /\ ~triggers
  /\ triggers' = TRUE
  /\ UNCHANGED <<log, tail, naive, touches, inserted>>

(* Writes to the table itself, which the triggers reject.  Whoever alters  *)
(* a record leaves the hashes alone: they are not keyed, and a chain       *)
(* computed anew from the altered record on would verify.                  *)
Touch(newLog) ==
  /\ ~triggers /\ touches < MaxTouches
  /\ log' = newLog
  /\ touches' = touches + 1
  /\ UNCHANGED <<tail, naive, triggers, inserted>>

Alter(i, body) == Touch([log EXCEPT ![i].body = body])

Remove(i) == Touch([j \in DOMAIN log \ {i} |-> log[j]])

TableWrite ==
  \/ downgrade
  \/ upgrade
  \/ \E i \in DOMAIN log : Remove(i) \/ \E body \in Forgery : Alter(i, body)

LogNext ==
  \/ \E s \in Session :
       \/ ReadLast(s)
       \/ Len(inserted) < MaxRecords /\ \E body \in Body : Insert(s, body)
       \/ Commit(s)
       \/ Abort(s)
  \/ TableWrite

LogSpec == LogInit /\ [][LogNext]_logVars

-----------------------------------------------------------------------------
(* verify_integrity, in the order of the ids.                              *)
Before(i) == {j \in DOMAIN log : j < i}
ReadBack(body) == IF naive THEN Shifted(body) ELSE body

\* Mutant: the link to the record before is not compared.
BrokenHash(i) == log[i].hash # compute_audit_hash(log[i].prev, ReadBack(log[i].body))

Broken(i) ==
  \/ log[i].prev # LastHash(Before(i))
  \/ log[i].hash # compute_audit_hash(log[i].prev, ReadBack(log[i].body))

Valid == \A i \in DOMAIN log : ~Broken(i)
BrokenAt == CHOOSE i \in DOMAIN log : Broken(i) /\ \A j \in Before(i) : ~Broken(j)

(* The table holds records that were inserted, each once, and none that is *)
(* not yet committed; a record has seen only records with smaller ids.     *)
LogTypeOK ==
  /\ \A i \in DOMAIN log : i \in DOMAIN inserted /\ log[i].body \in Body
  /\ \A n \in DOMAIN inserted :
       inserted[n].body \in Body /\ inserted[n].seen \subseteq 1 .. n - 1
  /\ \A s \in Session :
       /\ tail[s].step \in {"idle", "read", "inserted"}
       /\ tail[s].seen \subseteq 1 .. Len(inserted)
       /\ tail[s].step = "inserted" => tail[s].id \in DOMAIN inserted \ DOMAIN log
  /\ naive \in BOOLEAN /\ triggers \in BOOLEAN
  /\ touches \in 0 .. MaxTouches

(* A log that verifies says what was recorded: every record reads as it    *)
(* was inserted, and the one before it is the newest it saw or its twin,   *)
(* so none is missing but the newest.                                      *)
ValidMeansUntouched ==
  Valid => \A i \in DOMAIN log :
    LET seen == inserted[i].seen IN
    /\ ReadBack(log[i].body) = inserted[i].body
    /\ Before(i) = {} <=> seen = {}
    /\ seen # {} => inserted[Newest(seen)].hash = inserted[Newest(Before(i))].hash

(* A log that does not verify names a record which was altered, or whose   *)
(* time reads back as another, or whose predecessor was removed, or after  *)
(* which one with a smaller id was committed that it had not seen: on a    *)
(* database that keeps the zone, without writes to the table and without   *)
(* overlap there is no alarm.                                              *)
AlarmHasCause ==
  ~Valid =>
    LET record == inserted[BrokenAt] IN
    \/ log[BrokenAt].body # record.body
    \/ ReadBack(record.body) # record.body
    \/ record.seen # {} /\ Newest(record.seen) \notin DOMAIN log
    \/ Before(BrokenAt) \ record.seen # {}
=============================================================================
