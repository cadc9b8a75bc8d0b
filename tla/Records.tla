-------------------------------- MODULE Records --------------------------------
(***************************************************************************)
(* Requests that act on a user's records, and the reminder sweep: consent, *)
(* reminder, scheduling, summarization and assistant service, and          *)
(* scheduler/reminder_scheduler.py.  A request runs in a worker thread     *)
(* with a database session of its own.  It is a program: a sequence of     *)
(* stages, each of which is one statement or commit of the database;       *)
(* between two stages the other sessions move.                             *)
(*                                                                         *)
(* A text is not modelled, only that it may be changed; encryption binds   *)
(* it to its owner and never fails.                                        *)
(***************************************************************************)
EXTENDS Naturals, Sequences, SequencesExt, FiniteSets, TLC

CONSTANTS
  Worker,             \* 1 .. n, the threads that run requests
  Sweeper,            \* the thread of the scheduler
  User,
  Id,                 \* primary keys of one table; bounds its rows
  Existing,           \* owners of the reminders there are at the start, by id
  Consented,          \* the categories each user has granted at the start
  Changes,            \* the payloads an update may carry
  Offered,            \* the requests of an instance: users and programs
  MaxRequests,        \* bound on requests
  MaxCrashes          \* bound on restarts of the process

ASSUME SweeperAssumption == Sweeper \notin Worker
ASSUME RecordsBoundsAssumption ==
  /\ Worker \cup User \cup Id \subseteq Nat \ {0} /\ IsFiniteSet(Id)
  /\ MaxRequests \in Nat /\ MaxCrashes \in Nat
\* ReminderUpdate: a payload may carry each of three attributes, and any string as status.
ASSUME ChangesAssumption ==
  \A new \in Changes : /\ DOMAIN new \subseteq {"text", "due", "status"}
                       /\ "due" \in DOMAIN new => new.due \in BOOLEAN
ASSUME StartAssumption == DOMAIN Existing \subseteq Id /\ \A i \in DOMAIN Existing : Existing[i] \in User

Session == Worker \cup {Sweeper}
Kind == {"reminder", "event", "message"}
Category == {"assistant_nlu", "calendar_data", "message_summarization"}
CategoryOf(kind) == IF kind = "message" THEN "message_summarization" ELSE "calendar_data"

VARIABLES
  consent,            \* table consents
  table,              \* tables reminders, calendar_events and messages
  job,                \* the request or sweep each session runs
  requests, crashes,
  effects,            \* history: what requests and sweeps did to the tables
  recorded,           \* history: what they had recorded
  answered            \* history: the requests answered with success

vars == <<consent, table, job, requests, crashes, effects, recorded, answered>>

-----------------------------------------------------------------------------
(* Stages: "what" is the action of an audit record or a consent, "new" the *)
(* attributes to be written.                                               *)
Stage(do, kind) == [do |-> do, kind |-> kind, id |-> 0, what |-> "", new |-> <<>>]

require(category)     == Stage("require", category)
Audited(action, kind) == [Stage("record", kind) EXCEPT !.what = action]
Find(kind, i)         == [Stage("get", kind) EXCEPT !.id = i]
Save(stage)           == <<stage, Stage("refresh", stage.kind)>>
\* The audit record's commit expires the row; it is read again for the answer or the log.
Told(action, kind)    == <<Audited(action, kind), Stage("refresh", kind)>>

(* Programs: the services' methods.                                        *)
Create(kind, due) ==
  <<require("calendar_data")>> \o Save([Stage("insert", kind) EXCEPT !.new = [due |-> due]])
  \o Told("CREATED", kind)

\* Mutant: a list is given out without a look at the consent.
ListUngated(kind) == <<Audited("READ", kind), Stage("list", kind)>>

List(kind) ==
  <<require("calendar_data"), Audited("READ", kind), Stage("list", kind)>>
Update(kind, i, new) ==
  <<Find(kind, i), require("calendar_data")>>
  \o Save([Stage("write", kind) EXCEPT !.new = new]) \o Told("UPDATED", kind)
Delete(kind, i) ==
  <<Find(kind, i), require("calendar_data"), Stage("delete", kind), Audited("DELETED", kind)>>

CreateReminder(due)    == Create("reminder", due)
ListReminders          == List("reminder")
UpdateReminder(i, new) == Update("reminder", i, new)
DeleteReminder(i)      == Delete("reminder", i)
CreateEvent            == Create("event", FALSE)
ListEvents             == List("event")
UpdateEvent(i, new)    == Update("event", i, new)
DeleteEvent(i)         == Delete("event", i)

message == [Stage("insert", "message") EXCEPT !.new = [due |-> FALSE]]
summarize(persisted) ==
  <<require("message_summarization")>>
  \o SubSeq(Save(message) \o Save(message), 1, 2 * persisted)
  \o <<Audited("SUMMARIZED", "message")>>

set_consent(category, granted) ==
  <<Stage("get_one", category), [Stage("upsert", category) EXCEPT !.what = granted],
    Audited("CONSENT_UPDATED", category)>>

dispatch == {<<>>, ListEvents, ListReminders, CreateEvent, CreateReminder(FALSE)}
handle(action) ==
  <<require("assistant_nlu"), Audited("INTENT_CLASSIFIED", "assistant_nlu")>> \o action

(* What the routes accept.                                                 *)
ReminderRoutes ==
  {CreateReminder(due) : due \in BOOLEAN} \cup {ListReminders}
  \cup {UpdateReminder(i, new) : i \in Id, new \in Changes} \cup {DeleteReminder(i) : i \in Id}
EventRoutes ==
  {CreateEvent, ListEvents} \cup {DeleteEvent(i) : i \in Id}
  \cup {UpdateEvent(i, [text |-> "new"]) : i \in Id}
AssistantRoutes == {handle(action) : action \in dispatch} \cup {summarize(n) : n \in 0 .. 2}
ConsentRoute == {set_consent(c, granted) : c \in Category, granted \in {"granted", "denied"}}

Routes == ReminderRoutes \cup EventRoutes \cup AssistantRoutes \cup ConsentRoute
ASSUME OfferedAssumption == Offered \subseteq User \X Routes

(* The sweep: one program for all reminders that are due when it starts,   *)
(* in the order in which the query lists them.                             *)
Firing(i) == Save([Stage("fire", "reminder") EXCEPT !.id = i]) \o Told("FIRED", "reminder")
Sweep(order) ==
  [n \in 1 .. 4 * Len(order) |-> Firing(order[(n + 3) \div 4])[1 + ((n + 3) % 4)]]

\* Mutant: reminders are due whatever their status.
DueWhateverStatus ==
  {i \in Id : <<"reminder", i>> \in DOMAIN table /\ table[<<"reminder", i>>].due}

due_before ==
  {i \in Id : /\ <<"reminder", i>> \in DOMAIN table
              /\ table[<<"reminder", i>>].due
              /\ table[<<"reminder", i>>].status = "pending"}

-----------------------------------------------------------------------------
(* "could" has the categories that were granted at some time since the     *)
(* request arrived; "fails" that it is to be answered with an error.       *)
Idle == [user |-> 0, request |-> 0, program |-> <<>>, id |-> 0, loaded |-> <<>>,
         was |-> "none", fails |-> FALSE, could |-> {}]

Init ==
  /\ consent = [u \in User |-> [c \in Category |->
                  IF c \in Consented[u] THEN "granted" ELSE "none"]]
  /\ table = [k \in {"reminder"} \X DOMAIN Existing |->
                [owner |-> Existing[k[2]], status |-> "pending", due |-> TRUE, made |-> 0]]
  /\ job = [s \in Session |-> Idle]
  /\ requests = 0 /\ crashes = 0
  /\ effects = {} /\ recorded = {} /\ answered = {}

Granted(u) == {c \in Category : consent[u][c] = "granted"}

\* Workers are alike; the first idle one takes the request.
Request(u, program) ==
  \E w \in Worker :
    /\ job[w] = Idle /\ \A v \in Worker : job[v] = Idle => w <= v
    /\ requests < MaxRequests
    /\ requests' = requests + 1
    /\ job' = [job EXCEPT ![w] = [Idle EXCEPT !.user = u, !.request = requests + 1,
                                               !.program = program, !.could = Granted(u)]]
    /\ UNCHANGED <<consent, table, crashes, effects, recorded, answered>>

\* Mutant: the sweep waits until no request runs.
SweepBetweenRequests ==
  /\ \A s \in Session : job[s] = Idle
  /\ due_before # {}
  /\ \E order \in SetToSeqs(due_before) :
       job' = [job EXCEPT ![Sweeper].program = Sweep(order)]
  /\ UNCHANGED <<consent, table, requests, crashes, effects, recorded, answered>>

fire_due_reminders ==
  /\ job[Sweeper] = Idle
  /\ due_before # {}
  /\ \E order \in SetToSeqs(due_before) :
       job' = [job EXCEPT ![Sweeper].program = Sweep(order)]
  /\ UNCHANGED <<consent, table, requests, crashes, effects, recorded, answered>>

TimePasses(i) ==
  /\ <<"reminder", i>> \in DOMAIN table
  /\ ~table[<<"reminder", i>>].due
  /\ table' = [table EXCEPT ![<<"reminder", i>>].due = TRUE]
  /\ UNCHANGED <<consent, job, requests, crashes, effects, recorded, answered>>

-----------------------------------------------------------------------------
Now(s) == Head(job[s].program)
At(s, do) == job[s].program # <<>> /\ Now(s).do = do
Key(s) == <<Now(s).kind, job[s].id>>
Present(s) == Key(s) \in DOMAIN table

\* Mutant: a session that has finished is not given back.
RestKept(j) == [j EXCEPT !.program = Tail(@)]

Rest(j) == IF Len(j.program) = 1 THEN Idle ELSE [j EXCEPT !.program = Tail(@)]
Succeeds(s) == Len(job[s].program) = 1 /\ s \in Worker /\ ~job[s].fails
Answered(s) == answered' = IF Succeeds(s) THEN answered \cup {job[s].request} ELSE answered

Step(s, j) == job' = [job EXCEPT ![s] = Rest(j)] /\ Answered(s)
Fail(s) == job' = [job EXCEPT ![s] = Idle] /\ UNCHANGED answered

Did(s, i) ==
  LET key == <<Now(s).kind, i>> IN
  [request |-> job[s].request, act |-> Now(s).do, kind |-> Now(s).kind, id |-> i,
   allowed |-> s = Sweeper \/ CategoryOf(Now(s).kind) \in job[s].could,
   foreign |-> s # Sweeper /\ key \in DOMAIN table /\ table[key].owner # job[s].user,
   reborn  |-> s # Sweeper /\ key \in DOMAIN table /\ table[key].made # job[s].loaded.made]
Effect(s, i) == effects' = effects \cup {Did(s, i)}

\* consent_service.require
Require(s) ==
  LET category == Now(s).kind IN
  /\ At(s, "require")
  /\ IF consent[job[s].user][category] = "granted" THEN Step(s, job[s])
     ELSE /\ job' = [job EXCEPT ![s].program = <<Audited("CONSENT_BLOCKED", category)>>,
                                ![s].fails = TRUE]
          /\ UNCHANGED answered
  /\ UNCHANGED <<consent, table, requests, crashes, effects, recorded>>

\* Mutant: whose row it is does not matter.
GetAnybodys(s) ==
  /\ At(s, "get")
  /\ LET key == <<Now(s).kind, Now(s).id>> IN
     IF key \in DOMAIN table
     THEN Step(s, [job[s] EXCEPT !.id = Now(s).id, !.loaded = table[key]])
     ELSE Fail(s)
  /\ UNCHANGED <<consent, table, requests, crashes, effects, recorded>>

\* repository.get and the owner's test
Get(s) ==
  /\ At(s, "get")
  /\ LET key == <<Now(s).kind, Now(s).id>> IN
     IF key \in DOMAIN table /\ table[key].owner = job[s].user
     THEN Step(s, [job[s] EXCEPT !.id = Now(s).id, !.loaded = table[key]])
     ELSE Fail(s)
  /\ UNCHANGED <<consent, table, requests, crashes, effects, recorded>>

(* PostgreSQL's sequence goes on from the largest id ever given, SQLite    *)
(* from the largest in the table.                                          *)
NewIds(kind) == {i \in Id : \A j \in Id : <<kind, j>> \in DOMAIN table => j < i}

Insert(s) ==
  /\ At(s, "insert")
  /\ \E i \in NewIds(Now(s).kind) :
       /\ table' = [k \in DOMAIN table \cup {<<Now(s).kind, i>>} |->
                      IF k \in DOMAIN table THEN table[k]
                      ELSE [owner |-> job[s].user, status |-> "pending",
                            due |-> Now(s).new.due, made |-> job[s].request]]
       /\ Effect(s, i)
       /\ Step(s, [job[s] EXCEPT !.id = i, !.loaded = table'[<<Now(s).kind, i>>]])
  /\ UNCHANGED <<consent, requests, crashes, recorded>>

(* Only attributes that differ from what was loaded are written, and a due *)
(* time may differ though it is as much due; a row that is gone makes the  *)
(* flush fail.                                                             *)
Write(s) ==
  /\ At(s, "write")
  /\ \E moved \in SUBSET {"due"} :
     LET payload == Now(s).new
         new == [a \in {a \in DOMAIN payload : \/ a \in {"text"} \cup moved
                                              \/ job[s].loaded[a] # payload[a]}
                   |-> payload[a]]
     IN
     IF DOMAIN new # {} /\ ~Present(s)
     THEN Fail(s) /\ UNCHANGED <<table, effects>>
     ELSE /\ IF DOMAIN new = {} THEN UNCHANGED <<table, effects>>
             ELSE /\ table' = [table EXCEPT ![Key(s)] =
                                 [a \in DOMAIN @ |-> IF a \in DOMAIN new THEN new[a] ELSE @[a]]]
                  /\ Effect(s, job[s].id)
          /\ Step(s, job[s])
  /\ UNCHANGED <<consent, requests, crashes, recorded>>

\* A row that is gone already only draws a warning.
DeleteRow(s) ==
  /\ At(s, "delete")
  /\ table' = [k \in DOMAIN table \ {Key(s)} |-> table[k]]
  /\ IF Present(s) THEN Effect(s, job[s].id) ELSE UNCHANGED effects
  /\ Step(s, job[s])
  /\ UNCHANGED <<consent, requests, crashes, recorded>>

\* Mutant: a request whose row is gone is answered as if it had been served.
RefreshGivesUp(s) ==
  /\ At(s, "refresh")
  /\ IF Present(s) THEN Step(s, job[s])
     ELSE job' = [job EXCEPT ![s] = Idle] /\ answered' = answered \cup {job[s].request}
  /\ UNCHANGED <<consent, table, requests, crashes, effects, recorded>>

\* The attributes are read back; a row that is gone ends the request or sweep.
Refresh(s) ==
  /\ At(s, "refresh")
  /\ IF Present(s) THEN Step(s, job[s]) ELSE Fail(s)
  /\ UNCHANGED <<consent, table, requests, crashes, effects, recorded>>

ReadList(s) ==
  /\ At(s, "list")
  /\ Effect(s, 0)
  /\ Step(s, job[s])
  /\ UNCHANGED <<consent, table, requests, crashes, recorded>>

Fire(s) ==
  /\ At(s, "fire")
  /\ LET i == Now(s).id IN
     IF <<"reminder", i>> \in DOMAIN table
     THEN /\ table' = [table EXCEPT ![<<"reminder", i>>].status = "fired"]
          /\ Effect(s, i)
          /\ Step(s, [job[s] EXCEPT !.id = i])
     ELSE Fail(s) /\ UNCHANGED <<table, effects>>
  /\ UNCHANGED <<consent, requests, crashes, recorded>>

GetOne(s) ==
  /\ At(s, "get_one")
  /\ Step(s, [job[s] EXCEPT !.was = consent[job[s].user][Now(s).kind]])
  /\ UNCHANGED <<consent, table, requests, crashes, effects, recorded>>

(* The row is changed if it had another value when it was read; a second   *)
(* row for a user and category is refused by the table.                    *)
Upsert(s) ==
  LET u == job[s].user
      c == Now(s).kind
      new == Now(s).what
  IN
  /\ At(s, "upsert")
  /\ IF job[s].was = "none" /\ consent[u][c] # "none"
     THEN Fail(s) /\ UNCHANGED consent
     ELSE /\ consent' = IF job[s].was = new THEN consent
                        ELSE [consent EXCEPT ![u][c] = new]
          /\ job' = [r \in Session |->
               LET now == IF job[r].user = u /\ consent'[u][c] = "granted"
                          THEN [job[r] EXCEPT !.could = @ \cup {c}] ELSE job[r]
               IN IF r = s THEN Rest(now) ELSE now]
          /\ Answered(s)
  /\ UNCHANGED <<table, requests, crashes, effects, recorded>>

\* audit_service.record; how records are chained is AuditLog.tla's matter.
Record(s) ==
  /\ At(s, "record")
  /\ recorded' = recorded \cup {[request |-> job[s].request, action |-> Now(s).what,
                                 kind |-> Now(s).kind, id |-> job[s].id]}
  /\ Step(s, job[s])
  /\ UNCHANGED <<consent, table, requests, crashes, effects>>

SessionStep(s) ==
  \/ Require(s) \/ Get(s) \/ Insert(s) \/ Write(s) \/ DeleteRow(s) \/ Refresh(s)
  \/ ReadList(s) \/ Fire(s) \/ GetOne(s) \/ Upsert(s) \/ Record(s)

\* The process is restarted; what was committed stays.
Crash ==
  /\ crashes < MaxCrashes
  /\ \E s \in Session : job[s] # Idle
  /\ crashes' = crashes + 1
  /\ job' = [s \in Session |-> Idle]
  /\ UNCHANGED <<consent, table, requests, effects, recorded, answered>>

Next ==
  \/ \E request \in Offered : Request(request[1], request[2])
  \/ \E s \in Session : SessionStep(s)
  \/ fire_due_reminders
  \/ \E i \in Id : TimePasses(i)
  \/ Crash

(* The scheduler runs the sweep every minute, whatever requests do.        *)
Fairness == WF_vars(fire_due_reminders) /\ WF_vars(SessionStep(Sweeper))

Spec == Init /\ [][Next]_vars /\ Fairness

-----------------------------------------------------------------------------
TypeOK ==
  /\ consent \in [User -> [Category -> {"none", "granted", "denied"}]]
  /\ DOMAIN table \subseteq Kind \X Id
  /\ \A k \in DOMAIN table :
       table[k].owner \in User /\ table[k].due \in BOOLEAN /\ table[k].made \in 0 .. requests
  /\ \A s \in Session : job[s] # Idle => job[s].program # <<>>
  /\ \A w \in Worker : job[w] # Idle => job[w].user \in User /\ job[w].request \in 1 .. requests
  /\ requests \in 0 .. MaxRequests /\ crashes \in 0 .. MaxCrashes

ActionFor(e) ==
  IF e.kind = "message" THEN "SUMMARIZED"
  ELSE CASE e.act = "insert" -> "CREATED"
         [] e.act = "write"  -> "UPDATED"
         [] e.act = "delete" -> "DELETED"
         [] e.act = "list"   -> "READ"
         [] e.act = "fire"   -> "FIRED"

(* Whatever a request that was answered with success did or read is in the *)
(* audit log, and what the log says was created or fired really was, also  *)
(* across crashes and rows that vanish under a request.                    *)
AuditAgreesWithEffects ==
  /\ \A e \in effects : e.request \in answered =>
       \E r \in recorded : r.request = e.request /\ r.kind = e.kind /\ r.action = ActionFor(e)
  /\ \A r \in recorded : r.action \in {"CREATED", "FIRED"} =>
       \E e \in effects : /\ e.request = r.request /\ e.kind = r.kind /\ e.id = r.id
                           /\ ActionFor(e) = r.action

(* A record is created, read, changed or deleted only by a request in      *)
(* whose time its category was granted: a consent withdrawn before the     *)
(* request arrived is never used, one withdrawn meanwhile may be.          *)
ConsentBehindEffects == \A e \in effects : e.allowed

(* A request changes or deletes another user's row, or reads it back for   *)
(* its answer, only where the row it looked up or made was deleted and its *)
(* primary key given away in between.                                      *)
ChangesOwn == \A e \in effects : e.foreign => e.reborn
ShowsOwn ==
  \A w \in Worker :
    At(w, "refresh") /\ Present(w) /\ table[Key(w)].owner # job[w].user
      => table[Key(w)].made # job[w].loaded.made
OwnersOnly == ChangesOwn /\ ShowsOwn

(* The sweep never fires a reminder again, whatever was written to it      *)
(* since the sweep looked for those that are due.  A request that writes   *)
(* "fired" as a status itself, which the schema lets it, is not meant.     *)
NeverFiredTwice ==
  \A n \in DOMAIN job[Sweeper].program :
    LET stage == job[Sweeper].program[n]
        key == <<"reminder", stage.id>>
    IN stage.do = "fire" /\ key \in DOMAIN table => table[key].status # "fired"

(* Every due reminder is fired in the end, or deleted or changed by its    *)
(* user: a sweep that failed at a row is followed by another.  Stated for  *)
(* the ids there are at the start, which may be deleted and given away.    *)
DueRemindersFire ==
  \A i \in DOMAIN Existing : i \in due_before ~> i \notin due_before
=============================================================================
