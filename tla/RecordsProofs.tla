---------------------------- MODULE RecordsProofs ----------------------------
(***************************************************************************)
(* Theorems about Records.tla for every number of threads and users, every *)
(* finite set of primary keys, every choice of requests the routes accept  *)
(* and every bound on requests and restarts.                               *)
(*                                                                         *)
(* A program is a sequence, so what a request still has to do is a suffix  *)
(* of what its route wrote down.  The invariant says of every suffix what  *)
(* the route says of the whole: which stages come before and after others, *)
(* or have been left behind and are remembered by the history.             *)
(***************************************************************************)
EXTENDS Records, FiniteSetTheorems, SequenceTheorems, TLAPS

(* Types of what the tables and the sessions hold.                         *)
Dated    == [due : BOOLEAN]
Payloads == Changes \cup [text : {"new"}]
Attributes == {<<>>} \cup Dated \cup Payloads
AnyId == Id \cup {0}
AnyKind == Kind \cup Category
Doing == {"require", "get", "insert", "write", "delete", "refresh", "list", "fire", "get_one",
          "upsert", "record"}
Saying == {"", "CREATED", "READ", "UPDATED", "DELETED", "FIRED", "SUMMARIZED",
           "CONSENT_UPDATED", "CONSENT_BLOCKED", "INTENT_CLASSIFIED", "granted", "denied"}
Status == {"pending", "fired"} \cup {new.status : new \in {c \in Changes : "status" \in DOMAIN c}}
StageType == [do : Doing, kind : AnyKind, id : AnyId, what : Saying, new : Attributes]
Row == [owner : User, status : Status, due : BOOLEAN, made : 0 .. MaxRequests]
Job ==
  [user : User \cup {0}, request : 0 .. MaxRequests, program : Seq(StageType),
   id : AnyId, loaded : {<<>>} \cup Row, was : {"none", "granted", "denied"}, fails : BOOLEAN,
   could : SUBSET Category]

Touching == {"insert", "write", "delete", "list"}     \* what requests do to the tables
Making   == {"insert", "fire"}                         \* ... and what a record names
Taking   == {"get", "insert"}                          \* a request has a row from here
Using    == {"write", "delete", "refresh"}             \* ... and needs it here

Audit(do, kind) == ActionFor([act |-> do, kind |-> kind])

-----------------------------------------------------------------------------
(* What a program may still hold.                                          *)
Shaped(p) ==
  \A n \in 1 .. Len(p) :
    /\ p[n].do \in Touching \cup {"require", "get", "refresh", "get_one", "upsert", "record"}
    /\ p[n].do = "require" => p[n].kind \in Category
    /\ p[n].do \in Touching => p[n].kind \in Kind
    /\ p[n].do = "insert" => p[n].new \in Dated
    /\ p[n].do = "write" => p[n].new \in Payloads
    /\ p[n].do \in {"get_one", "upsert"} => p[n].kind \in Category
    /\ p[n].do = "upsert" => p[n].what \in {"granted", "denied"}

SweepShaped(p) ==
  \A n \in 1 .. Len(p) :
    /\ p[n].do \in {"fire", "refresh", "record"} /\ p[n].kind = "reminder"
    /\ p[n].do = "fire" => p[n].id \in Id
    /\ p[n].do = "record" => p[n].what = "FIRED"

Distinct(p) ==
  \A n \in 1 .. Len(p) : \A m \in 1 .. n - 1 :
    p[n].do = "fire" /\ p[m].do = "fire" => p[n].id # p[m].id

(* Before a stage that touches a table its category is required.           *)
Gated(p, could) ==
  \A n \in 1 .. Len(p) :
    p[n].do \in Touching =>
      \/ CategoryOf(p[n].kind) \in could
      \/ \E m \in 1 .. n - 1 : p[m].do = "require" /\ p[m].kind = CategoryOf(p[n].kind)

(* An action on a table is in the audit log or will be.                    *)
Logged(p, request, R, action, kind) ==
  \/ \E r \in R : r.request = request /\ r.kind = kind /\ r.action = action
  \/ \E m \in 1 .. Len(p) : p[m].do = "record" /\ p[m].kind = kind /\ p[m].what = action

Audits(p, request, R) ==
  \A n \in 1 .. Len(p) :
    p[n].do \in Touching => Logged(p, request, R, Audit(p[n].do, p[n].kind), p[n].kind)

Explained(j, E, R) ==
  j.request # 0 /\ ~j.fails =>
    \A e \in E : e.request = j.request =>
                   Logged(j.program, j.request, R, ActionFor(e), e.kind)

(* What is said to be created or fired has been, or is two stages before.  *)
Announced(st, j, E) ==
  \E e \in E : /\ e.request = j.request /\ e.kind = st.kind /\ e.id = j.id
               /\ ActionFor(e) = st.what

JustMade(p, n) ==
  /\ n >= 3 /\ p[n - 1].do = "refresh" /\ p[n - 2].do \in Making
  /\ p[n - 2].kind = p[n].kind /\ Audit(p[n - 2].do, p[n].kind) = p[n].what

Announces(j, E) ==
  LET p == j.program IN
  \A n \in 1 .. Len(p) :
    p[n].do = "record" /\ p[n].what \in {"CREATED", "FIRED"} =>
      \/ JustMade(p, n)
      \/ n <= 2 /\ (n = 2 => p[1].do = "refresh") /\ Announced(p[n], j, E)

(* The row to be changed or shown was looked up or made, and was the       *)
(* user's.                                                                 *)
Loaded(j, kind, who) ==
  /\ j.loaded \in Row /\ j.loaded.owner = j.user /\ j.loaded.made <= requests
  /\ j.loaded.made = 0 => /\ kind = "reminder" /\ j.id \in DOMAIN Existing
                          /\ Existing[j.id] = j.user
  /\ j.loaded.made # 0 => who[j.loaded.made] = j.user

TakenAt(p, m, n) ==
  p[m].do \in Taking /\ p[m].kind = p[n].kind /\ \A i \in m + 1 .. n - 1 : p[i].do \notin Taking
HasRow(p, n) == \E m \in 1 .. n - 1 : TakenAt(p, m, n)

Loads(j, who) ==
  LET p == j.program IN
  \A n \in 1 .. Len(p) :
    p[n].do \in Using =>
      \/ HasRow(p, n)
      \/ (\A m \in 1 .. n - 1 : p[m].do \notin Taking) /\ Loaded(j, p[n].kind, who)

-----------------------------------------------------------------------------
TypeInv ==
  /\ consent \in [User -> [Category -> {"none", "granted", "denied"}]]
  /\ DOMAIN table \subseteq Kind \X Id
  /\ \A k \in DOMAIN table : table[k] \in Row /\ table[k].made <= requests
  /\ job \in [Session -> Job]
  /\ \A s \in Session : job[s] # Idle => job[s].program # <<>>
  /\ \A w \in Worker : job[w] # Idle => job[w].user \in User /\ job[w].request \in 1 .. requests
  /\ job[Sweeper].user = 0 /\ job[Sweeper].request = 0
  /\ requests \in 0 .. MaxRequests /\ crashes \in 0 .. MaxCrashes

(* A request is answered last; no two sessions run the same.               *)
Answers ==
  /\ \A e \in effects : e.request \in 0 .. requests
  /\ answered \subseteq 1 .. requests
  /\ \A w \in Worker : job[w] # Idle => job[w].request \notin answered
  /\ \A v, w \in Worker : job[v] # Idle /\ job[v].request = job[w].request => v = w

(* A category that is granted while a request runs was so in its time.     *)
Remembers(s) == job[s].user # 0 => Granted(job[s].user) \subseteq job[s].could

WorkerInv(w) ==
  /\ Shaped(job[w].program)
  /\ Gated(job[w].program, job[w].could)
  /\ Audits(job[w].program, job[w].request, recorded)
  /\ Explained(job[w], effects, recorded)
  /\ Announces(job[w], effects)
  /\ Remembers(w)

SweeperInv ==
  /\ SweepShaped(job[Sweeper].program)
  /\ Announces(job[Sweeper], effects)

(* "who" tells whose request each is; the rows and jobs agree with it.     *)
Owned(who) ==
  /\ \A k \in DOMAIN table :
       IF table[k].made = 0
       THEN /\ k[1] = "reminder" /\ k[2] \in DOMAIN Existing
            /\ table[k].owner = Existing[k[2]]
       ELSE table[k].owner = who[table[k].made]
  /\ \A w \in Worker : /\ job[w].request # 0 => who[job[w].request] = job[w].user
                       /\ Loads(job[w], who)

RecordsInv ==
  /\ TypeInv
  /\ Answers
  /\ \A w \in Worker : WorkerInv(w)
  /\ SweeperInv
  /\ \E who \in [1 .. MaxRequests -> User \cup {0}] : Owned(who)
  /\ AuditAgreesWithEffects
  /\ ConsentBehindEffects
  /\ ChangesOwn

SweepInv == Distinct(job[Sweeper].program) /\ NeverFiredTwice

-----------------------------------------------------------------------------
(* Stages and the programs made of them, entry by entry.                   *)
Is(st, do, kind, i, what, new) ==
  /\ st \in StageType
  /\ st.do = do /\ st.kind = kind /\ st.id = i /\ st.what = what /\ st.new = new

(* A stage has the fields it was made of.                                  *)
LEMMA StageIs ==
  ASSUME NEW do \in Doing, NEW kind \in AnyKind
  PROVE  Is(Stage(do, kind), do, kind, 0, "", <<>>)
<1>1. 0 \in AnyId /\ <<>> \in Attributes /\ "" \in Saying
  BY DEF AnyId, Attributes, Saying
<1> QED
  BY <1>1 DEF Stage, Is, StageType

LEMMA FindIs ==
  ASSUME NEW kind \in AnyKind, NEW i \in Id
  PROVE  Is(Find(kind, i), "get", kind, i, "", <<>>)
<1>1. i \in AnyId /\ <<>> \in Attributes /\ "" \in Saying /\ "get" \in Doing
  BY DEF AnyId, Attributes, Saying, Doing
<1> QED
  BY <1>1 DEF Stage, Find, Is, StageType

LEMMA AuditedIs ==
  ASSUME NEW what \in Saying, NEW kind \in AnyKind
  PROVE  Is(Audited(what, kind), "record", kind, 0, what, <<>>)
<1>1. 0 \in AnyId /\ <<>> \in Attributes /\ "record" \in Doing
  BY DEF AnyId, Attributes, Doing
<1> QED
  BY <1>1 DEF Stage, Audited, Is, StageType

LEMMA CarryingIs ==
  ASSUME NEW do \in Doing, NEW kind \in AnyKind, NEW new \in Attributes
  PROVE  Is([Stage(do, kind) EXCEPT !.new = new], do, kind, 0, "", new)
<1>1. 0 \in AnyId /\ "" \in Saying
  BY DEF AnyId, Saying
<1> QED
  BY <1>1 DEF Stage, Is, StageType

LEMMA UpsertIs ==
  ASSUME NEW kind \in AnyKind, NEW what \in Saying
  PROVE  Is([Stage("upsert", kind) EXCEPT !.what = what], "upsert", kind, 0, what, <<>>)
<1>1. 0 \in AnyId /\ <<>> \in Attributes /\ "upsert" \in Doing
  BY DEF AnyId, Attributes, Doing
<1> QED
  BY <1>1 DEF Stage, Is, StageType

LEMMA FireIs ==
  ASSUME NEW i \in Id
  PROVE  Is([Stage("fire", "reminder") EXCEPT !.id = i], "fire", "reminder", i, "", <<>>)
<1>1. /\ i \in AnyId /\ <<>> \in Attributes /\ "" \in Saying
      /\ "fire" \in Doing /\ "reminder" \in AnyKind
  BY DEF AnyId, Attributes, Saying, Doing, AnyKind, Kind
<1> QED
  BY <1>1 DEF Stage, Is, StageType

(* Sequences of a few elements put together.                               *)
LEMMA FiveIs ==
  ASSUME NEW S, NEW a \in S, NEW b \in S, NEW c \in S, NEW d \in S, NEW e \in S
  PROVE  LET p == <<a>> \o <<b, c>> \o <<d, e>>
         IN  /\ p \in Seq(S) /\ Len(p) = 5
             /\ p[1] = a /\ p[2] = b /\ p[3] = c /\ p[4] = d /\ p[5] = e
OBVIOUS

LEMMA SixIs ==
  ASSUME NEW S, NEW a \in S, NEW b \in S, NEW c \in S, NEW d \in S, NEW e \in S, NEW f \in S
  PROVE  LET p == <<a, b>> \o <<c, d>> \o <<e, f>>
         IN  /\ p \in Seq(S) /\ Len(p) = 6
             /\ p[1] = a /\ p[2] = b /\ p[3] = c /\ p[4] = d /\ p[5] = e /\ p[6] = f
OBVIOUS

LEMMA FourIs ==
  ASSUME NEW S, NEW a \in S, NEW b \in S, NEW c \in S, NEW d \in S
  PROVE  LET p == <<a, b>> \o <<c, d>> q == <<a, b, c, d>>
         IN  /\ p \in Seq(S) /\ Len(p) = 4
             /\ p[1] = a /\ p[2] = b /\ p[3] = c /\ p[4] = d
             /\ q \in Seq(S) /\ Len(q) = 4
             /\ q[1] = a /\ q[2] = b /\ q[3] = c /\ q[4] = d
OBVIOUS

(* A program as its route writes it down.                                  *)
Foretold(p) ==
  \A n \in 1 .. Len(p) :
    p[n].do = "record" /\ p[n].what \in {"CREATED", "FIRED"} => JustMade(p, n)
Searched(p) ==
  \A n \in 1 .. Len(p) : p[n].do \in Using => HasRow(p, n)
WellMade(p) ==
  /\ p \in Seq(StageType) /\ Len(p) > 0
  /\ Shaped(p) /\ Gated(p, {}) /\ Audits(p, 0, {}) /\ Foretold(p) /\ Searched(p)

(* Making a row: required, inserted, recorded.                             *)
LEMMA CreateMade ==
  ASSUME NEW kind \in {"reminder", "event"}, NEW due \in BOOLEAN
  PROVE  WellMade(Create(kind, due))
<1> DEFINE a == require("calendar_data")
           b == [Stage("insert", kind) EXCEPT !.new = [due |-> due]]
           c == Stage("refresh", kind)
           d == Audited("CREATED", kind)
           p == Create(kind, due)
<1>1. /\ "require" \in Doing /\ "insert" \in Doing /\ "refresh" \in Doing
      /\ kind \in AnyKind /\ "calendar_data" \in AnyKind /\ "CREATED" \in Saying
      /\ [due |-> due] \in Dated /\ [due |-> due] \in Attributes
  BY DEF Doing, AnyKind, Kind, Category, Saying, Attributes, Dated
<1>2. Is(a, "require", "calendar_data", 0, "", <<>>)
  BY <1>1, StageIs DEF require
<1>3. Is(b, "insert", kind, 0, "", [due |-> due])
  BY <1>1, CarryingIs
<1>4. Is(c, "refresh", kind, 0, "", <<>>)
  BY <1>1, StageIs
<1>5. Is(d, "record", kind, 0, "CREATED", <<>>)
  BY <1>1, AuditedIs
<1>6. p = <<a>> \o <<b, c>> \o <<d, c>>
  BY <1>3 DEF Create, Save, Told, Is
<1> HIDE DEF a, b, c, d, p
<1>7. /\ p \in Seq(StageType) /\ Len(p) = 5
      /\ p[1] = a /\ p[2] = b /\ p[3] = c /\ p[4] = d /\ p[5] = c
  <2>1. a \in StageType /\ b \in StageType /\ c \in StageType /\ d \in StageType
    BY <1>2, <1>3, <1>4, <1>5 DEF Is
  <2> QED BY <1>6, <2>1, FiveIs
<1>8. \A n \in 1 .. Len(p) : n = 1 \/ n = 2 \/ n = 3 \/ n = 4 \/ n = 5
  BY <1>7
<1>9. /\ p[1].do = "require" /\ p[1].kind = "calendar_data"
      /\ p[2].do = "insert" /\ p[2].kind = kind /\ p[2].new \in Dated
      /\ p[3].do = "refresh" /\ p[5].do = "refresh"
      /\ p[4].do = "record" /\ p[4].kind = kind /\ p[4].what = "CREATED"
  BY <1>1, <1>2, <1>3, <1>4, <1>5, <1>7 DEF Is
<1>10. Audit("insert", kind) = "CREATED" /\ CategoryOf(kind) = "calendar_data"
  BY DEF Audit, ActionFor, CategoryOf
<1>11. Shaped(p)
  BY <1>8, <1>9 DEF Shaped, Touching, Kind, Category
<1>12. Gated(p, {})
  BY <1>8, <1>9, <1>10 DEF Gated, Touching
<1>13. Audits(p, 0, {})
  <2>1. Logged(p, 0, {}, "CREATED", kind)
    BY <1>7, <1>9 DEF Logged
  <2> QED BY <1>8, <1>9, <1>10, <2>1 DEF Audits, Touching
<1>14. Foretold(p)
  BY <1>8, <1>9, <1>10 DEF Foretold, JustMade, Making
<1>15. Searched(p)
  <2>1. p[3].kind = kind /\ p[5].kind = kind
    BY <1>4, <1>7 DEF Is
  <2>2. TakenAt(p, 2, 3) /\ TakenAt(p, 2, 5)
    BY <1>8, <1>9, <2>1 DEF TakenAt, Taking
  <2>3. HasRow(p, 3) /\ HasRow(p, 5)
    <3>1. 2 \in 1 .. 3 - 1 /\ 2 \in 1 .. 5 - 1
      OBVIOUS
    <3> QED BY <2>2, <3>1 DEF HasRow
  <2> QED BY <1>8, <1>9, <2>3 DEF Searched, Using
<1> QED
  BY <1>7, <1>11, <1>12, <1>13, <1>14, <1>15 DEF WellMade, p

(* Listing rows: required, recorded, read.                                 *)
LEMMA ListMade ==
  ASSUME NEW kind \in {"reminder", "event"}
  PROVE  WellMade(List(kind))
<1> DEFINE a == require("calendar_data")
           b == Audited("READ", kind)
           c == Stage("list", kind)
           p == List(kind)
<1>1. /\ "require" \in Doing /\ "list" \in Doing
      /\ kind \in AnyKind /\ "calendar_data" \in AnyKind /\ "READ" \in Saying
  BY DEF Doing, AnyKind, Kind, Category, Saying
<1>2. Is(a, "require", "calendar_data", 0, "", <<>>)
  BY <1>1, StageIs DEF require
<1>3. Is(b, "record", kind, 0, "READ", <<>>)
  BY <1>1, AuditedIs
<1>4. Is(c, "list", kind, 0, "", <<>>)
  BY <1>1, StageIs
<1>5. p = <<a, b, c>>
  BY DEF List
<1> HIDE DEF a, b, c, p
<1>6. /\ p \in Seq(StageType) /\ Len(p) = 3
      /\ p[1] = a /\ p[2] = b /\ p[3] = c
  <2>1. a \in StageType /\ b \in StageType /\ c \in StageType
    BY <1>2, <1>3, <1>4 DEF Is
  <2> QED BY <1>5, <2>1
<1>7. \A n \in 1 .. Len(p) : n = 1 \/ n = 2 \/ n = 3
  BY <1>6
<1>8. /\ p[1].do = "require" /\ p[1].kind = "calendar_data"
      /\ p[2].do = "record" /\ p[2].kind = kind /\ p[2].what = "READ"
      /\ p[3].do = "list" /\ p[3].kind = kind
  BY <1>2, <1>3, <1>4, <1>6 DEF Is
<1>9. Audit("list", kind) = "READ" /\ CategoryOf(kind) = "calendar_data"
  BY DEF Audit, ActionFor, CategoryOf
<1>10. Shaped(p)
  BY <1>7, <1>8 DEF Shaped, Touching, Kind, Category
<1>11. Gated(p, {})
  BY <1>7, <1>8, <1>9 DEF Gated, Touching
<1>12. Audits(p, 0, {})
  <2>1. Logged(p, 0, {}, "READ", kind)
    BY <1>6, <1>8 DEF Logged
  <2> QED BY <1>7, <1>8, <1>9, <2>1 DEF Audits, Touching
<1>13. Foretold(p)
  BY <1>7, <1>8 DEF Foretold
<1>14. Searched(p)
  BY <1>7, <1>8 DEF Searched, Using
<1> QED
  BY <1>6, <1>10, <1>11, <1>12, <1>13, <1>14 DEF WellMade, p

(* Changing a row: looked up, required, written, recorded.                 *)
LEMMA UpdateMade ==
  ASSUME NEW kind \in {"reminder", "event"}, NEW i \in Id, NEW new \in Payloads
  PROVE  WellMade(Update(kind, i, new))
<1> DEFINE a == Find(kind, i)
           b == require("calendar_data")
           c == [Stage("write", kind) EXCEPT !.new = new]
           d == Stage("refresh", kind)
           e == Audited("UPDATED", kind)
           p == Update(kind, i, new)
<1>1. /\ "require" \in Doing /\ "write" \in Doing /\ "refresh" \in Doing
      /\ kind \in AnyKind /\ "calendar_data" \in AnyKind /\ "UPDATED" \in Saying
      /\ new \in Attributes
  BY DEF Doing, AnyKind, Kind, Category, Saying, Attributes
<1>2. Is(a, "get", kind, i, "", <<>>)
  BY <1>1, FindIs
<1>3. Is(b, "require", "calendar_data", 0, "", <<>>)
  BY <1>1, StageIs DEF require
<1>4. Is(c, "write", kind, 0, "", new)
  BY <1>1, CarryingIs
<1>5. Is(d, "refresh", kind, 0, "", <<>>)
  BY <1>1, StageIs
<1>6. Is(e, "record", kind, 0, "UPDATED", <<>>)
  BY <1>1, AuditedIs
<1>7. p = <<a, b>> \o <<c, d>> \o <<e, d>>
  BY <1>4 DEF Update, Save, Told, Is
<1> HIDE DEF a, b, c, d, e, p
<1>8. /\ p \in Seq(StageType) /\ Len(p) = 6
      /\ p[1] = a /\ p[2] = b /\ p[3] = c /\ p[4] = d /\ p[5] = e /\ p[6] = d
  <2>1. /\ a \in StageType /\ b \in StageType /\ c \in StageType
        /\ d \in StageType /\ e \in StageType
    BY <1>2, <1>3, <1>4, <1>5, <1>6 DEF Is
  <2> QED BY <1>7, <2>1, SixIs
<1>9. \A n \in 1 .. Len(p) : n = 1 \/ n = 2 \/ n = 3 \/ n = 4 \/ n = 5 \/ n = 6
  BY <1>8
<1>10. /\ p[1].do = "get" /\ p[1].kind = kind
       /\ p[2].do = "require" /\ p[2].kind = "calendar_data"
       /\ p[3].do = "write" /\ p[3].kind = kind /\ p[3].new \in Payloads
       /\ p[4].do = "refresh" /\ p[6].do = "refresh"
       /\ p[5].do = "record" /\ p[5].kind = kind /\ p[5].what = "UPDATED"
  BY <1>2, <1>3, <1>4, <1>5, <1>6, <1>8 DEF Is
<1>11. Audit("write", kind) = "UPDATED" /\ CategoryOf(kind) = "calendar_data"
  BY DEF Audit, ActionFor, CategoryOf
<1>12. Shaped(p)
  BY <1>9, <1>10 DEF Shaped, Touching, Kind, Category
<1>13. Gated(p, {})
  BY <1>9, <1>10, <1>11 DEF Gated, Touching
<1>14. Audits(p, 0, {})
  <2>1. Logged(p, 0, {}, "UPDATED", kind)
    BY <1>8, <1>10 DEF Logged
  <2> QED BY <1>9, <1>10, <1>11, <2>1 DEF Audits, Touching
<1>15. Foretold(p)
  BY <1>9, <1>10 DEF Foretold
<1>16. Searched(p)
  <2>1. p[4].kind = kind /\ p[6].kind = kind
    BY <1>5, <1>8 DEF Is
  <2>2. TakenAt(p, 1, 3) /\ TakenAt(p, 1, 4) /\ TakenAt(p, 1, 6)
    BY <1>9, <1>10, <2>1 DEF TakenAt, Taking
  <2>3. HasRow(p, 3) /\ HasRow(p, 4) /\ HasRow(p, 6)
    <3>1. 1 \in 1 .. 3 - 1 /\ 1 \in 1 .. 4 - 1 /\ 1 \in 1 .. 6 - 1
      OBVIOUS
    <3> QED BY <2>2, <3>1 DEF HasRow
  <2> QED BY <1>9, <1>10, <2>3 DEF Searched, Using
<1> QED
  BY <1>8, <1>12, <1>13, <1>14, <1>15, <1>16 DEF WellMade, p

(* Deleting a row: looked up, required, deleted, recorded.                 *)
LEMMA DeleteMade ==
  ASSUME NEW kind \in {"reminder", "event"}, NEW i \in Id
  PROVE  WellMade(Delete(kind, i))
<1> DEFINE a == Find(kind, i)
           b == require("calendar_data")
           c == Stage("delete", kind)
           d == Audited("DELETED", kind)
           p == Delete(kind, i)
<1>1. /\ "require" \in Doing /\ "delete" \in Doing
      /\ kind \in AnyKind /\ "calendar_data" \in AnyKind /\ "DELETED" \in Saying
  BY DEF Doing, AnyKind, Kind, Category, Saying
<1>2. Is(a, "get", kind, i, "", <<>>)
  BY <1>1, FindIs
<1>3. Is(b, "require", "calendar_data", 0, "", <<>>)
  BY <1>1, StageIs DEF require
<1>4. Is(c, "delete", kind, 0, "", <<>>)
  BY <1>1, StageIs
<1>5. Is(d, "record", kind, 0, "DELETED", <<>>)
  BY <1>1, AuditedIs
<1>6. p = <<a, b, c, d>>
  BY DEF Delete
<1> HIDE DEF a, b, c, d, p
<1>7. /\ p \in Seq(StageType) /\ Len(p) = 4
      /\ p[1] = a /\ p[2] = b /\ p[3] = c /\ p[4] = d
  <2>1. a \in StageType /\ b \in StageType /\ c \in StageType /\ d \in StageType
    BY <1>2, <1>3, <1>4, <1>5 DEF Is
  <2> QED BY <1>6, <2>1, FourIs
<1>8. \A n \in 1 .. Len(p) : n = 1 \/ n = 2 \/ n = 3 \/ n = 4
  BY <1>7
<1>9. /\ p[1].do = "get" /\ p[1].kind = kind
      /\ p[2].do = "require" /\ p[2].kind = "calendar_data"
      /\ p[3].do = "delete" /\ p[3].kind = kind
      /\ p[4].do = "record" /\ p[4].kind = kind /\ p[4].what = "DELETED"
  BY <1>2, <1>3, <1>4, <1>5, <1>7 DEF Is
<1>10. Audit("delete", kind) = "DELETED" /\ CategoryOf(kind) = "calendar_data"
  BY DEF Audit, ActionFor, CategoryOf
<1>11. Shaped(p)
  BY <1>8, <1>9 DEF Shaped, Touching, Kind, Category
<1>12. Gated(p, {})
  BY <1>8, <1>9, <1>10 DEF Gated, Touching
<1>13. Audits(p, 0, {})
  <2>1. Logged(p, 0, {}, "DELETED", kind)
    BY <1>7, <1>9 DEF Logged
  <2> QED BY <1>8, <1>9, <1>10, <2>1 DEF Audits, Touching
<1>14. Foretold(p)
  BY <1>8, <1>9 DEF Foretold
<1>15. Searched(p)
  <2>1. TakenAt(p, 1, 3)
    BY <1>8, <1>9 DEF TakenAt, Taking
  <2>2. HasRow(p, 3)
    <3>1. 1 \in 1 .. 3 - 1
      OBVIOUS
    <3> QED BY <2>1, <3>1 DEF HasRow
  <2> QED BY <1>8, <1>9, <2>2 DEF Searched, Using
<1> QED
  BY <1>7, <1>11, <1>12, <1>13, <1>14, <1>15 DEF WellMade, p

(* Setting a consent touches none of these tables.                         *)
LEMMA ConsentMade ==
  ASSUME NEW c \in Category, NEW granted \in {"granted", "denied"}
  PROVE  WellMade(set_consent(c, granted))
<1> DEFINE a == Stage("get_one", c)
           b == [Stage("upsert", c) EXCEPT !.what = granted]
           d == Audited("CONSENT_UPDATED", c)
           p == set_consent(c, granted)
<1>1. "get_one" \in Doing /\ c \in AnyKind /\ {granted, "CONSENT_UPDATED"} \subseteq Saying
  BY DEF Doing, AnyKind, Saying
<1>2. Is(a, "get_one", c, 0, "", <<>>)
  BY <1>1, StageIs
<1>3. Is(b, "upsert", c, 0, granted, <<>>)
  BY <1>1, UpsertIs
<1>4. Is(d, "record", c, 0, "CONSENT_UPDATED", <<>>)
  BY <1>1, AuditedIs
<1>5. p = <<a, b, d>>
  BY DEF set_consent
<1> HIDE DEF a, b, d, p
<1>6. /\ p \in Seq(StageType) /\ Len(p) = 3
      /\ p[1] = a /\ p[2] = b /\ p[3] = d
  <2>1. a \in StageType /\ b \in StageType /\ d \in StageType
    BY <1>2, <1>3, <1>4 DEF Is
  <2> QED BY <1>5, <2>1
<1>7. \A n \in 1 .. Len(p) : n = 1 \/ n = 2 \/ n = 3
  BY <1>6
<1>8. /\ p[1].do = "get_one" /\ p[1].kind = c
      /\ p[2].do = "upsert" /\ p[2].kind = c /\ p[2].what = granted
      /\ p[3].do = "record" /\ p[3].what = "CONSENT_UPDATED"
  BY <1>2, <1>3, <1>4, <1>6 DEF Is
<1>9. Shaped(p)
  BY <1>7, <1>8 DEF Shaped, Touching
<1>10. Gated(p, {}) /\ Audits(p, 0, {}) /\ Foretold(p) /\ Searched(p)
  BY <1>7, <1>8 DEF Gated, Audits, Foretold, Searched, Touching, Using
<1> QED
  BY <1>6, <1>9, <1>10 DEF WellMade, p

(* A summary: required, the message and the summary perhaps stored, and    *)
(* recorded.                                                               *)
LEMMA SummarizeMade ==
  ASSUME NEW persisted \in 0 .. 2
  PROVE  WellMade(summarize(persisted))
<1> DEFINE a == require("message_summarization")
           b == message
           c == Stage("refresh", "message")
           d == Audited("SUMMARIZED", "message")
           s == Save(message) \o Save(message)
           q == SubSeq(s, 1, 2 * persisted)
           p == summarize(persisted)
<1>1. /\ "require" \in Doing /\ "insert" \in Doing /\ "refresh" \in Doing
      /\ "message" \in AnyKind /\ "message_summarization" \in AnyKind
      /\ "SUMMARIZED" \in Saying
      /\ [due |-> FALSE] \in Dated /\ [due |-> FALSE] \in Attributes
  BY DEF Doing, AnyKind, Kind, Category, Saying, Attributes, Dated
<1>2. Is(a, "require", "message_summarization", 0, "", <<>>)
  BY <1>1, StageIs DEF require
<1>3. Is(b, "insert", "message", 0, "", [due |-> FALSE])
  BY <1>1, CarryingIs DEF message
<1>4. Is(c, "refresh", "message", 0, "", <<>>)
  BY <1>1, StageIs
<1>5. Is(d, "record", "message", 0, "SUMMARIZED", <<>>)
  BY <1>1, AuditedIs
<1>6. a \in StageType /\ b \in StageType /\ c \in StageType /\ d \in StageType
  BY <1>2, <1>3, <1>4, <1>5 DEF Is
<1>7. s = <<b, c>> \o <<b, c>>
  BY <1>3 DEF Save, Is
<1>8. p = <<a>> \o q \o <<d>>
  BY DEF summarize
<1> HIDE DEF a, b, c, d, s, p
<1>9. s \in Seq(StageType) /\ Len(s) = 4 /\ s[1] = b /\ s[2] = c /\ s[3] = b /\ s[4] = c
  BY <1>6, <1>7, FourIs
<1>10. /\ q \in Seq(StageType) /\ Len(q) = 2 * persisted
       /\ \A n \in 1 .. 2 * persisted : q[n] \in {b, c}
       /\ 2 * persisted >= 2 => q[1] = b /\ q[2] = c
       /\ 2 * persisted >= 3 => q[3] = b /\ q[4] = c
       /\ 2 * persisted \in {0, 2, 4}
  <2>1. 2 * persisted \in 0 .. 4
    OBVIOUS
  <2>2. /\ q \in Seq(StageType) /\ Len(q) = 2 * persisted
        /\ \A n \in 1 .. 2 * persisted : q[n] = s[n]
    <3> DEFINE k == 2 * persisted
    <3>1. k \in 0 .. 4 /\ \A n \in 1 .. k : s[n] \in StageType
      BY <1>6, <1>9, <2>1
    <3> HIDE DEF k
    <3>2. /\ SubSeq(s, 1, k) \in Seq(StageType)
          /\ Len(SubSeq(s, 1, k)) = IF 1 <= k THEN k - 1 + 1 ELSE 0
          /\ \A n \in 1 .. k - 1 + 1 : SubSeq(s, 1, k)[n] = s[1 + n - 1]
      BY <3>1, SubSeqProperties
    <3>3. \A n \in 1 .. k : n \in 1 .. k - 1 + 1 /\ 1 + n - 1 = n
      BY <3>1
    <3>4. Len(SubSeq(s, 1, k)) = k
      BY <3>1, <3>2
    <3> QED BY <3>2, <3>3, <3>4 DEF k
  <2>3. \A n \in 1 .. 2 * persisted : n = 1 \/ n = 2 \/ n = 3 \/ n = 4
    BY <2>1
  <2>4. 2 * persisted \in {0, 2, 4}
    OBVIOUS
  <2> QED BY <1>9, <2>2, <2>3, <2>4
<1> HIDE DEF q
<1> DEFINE k == 2 * persisted
<1>11. k \in Nat
  OBVIOUS
<1> HIDE DEF k
<1>12. /\ p \in Seq(StageType) /\ Len(p) = k + 2
       /\ p[1] = a /\ p[k + 2] = d
       /\ \A n \in 2 .. k + 1 : p[n] \in {b, c}
       /\ \A n \in 2 .. k + 1 : p[n] = q[n - 1]
  <2>1. /\ <<a>> \o q \in Seq(StageType) /\ Len(<<a>> \o q) = k + 1
        /\ (<<a>> \o q)[1] = a
        /\ \A n \in 2 .. k + 1 : (<<a>> \o q)[n] = q[n - 1]
    BY <1>6, <1>10, <1>11 DEF k
  <2>2. \A n \in 2 .. k + 1 : n - 1 \in 1 .. k
    BY <1>11
  <2>3. \A n \in 2 .. k + 1 : (<<a>> \o q)[n] \in {b, c}
    BY <1>10, <2>1, <2>2 DEF k
  <2> DEFINE r == <<a>> \o q
  <2>4. p = r \o <<d>>
    BY <1>8
  <2> HIDE DEF r
  <2>5. /\ r \in Seq(StageType) /\ Len(r) = k + 1 /\ r[1] = a
        /\ \A n \in 2 .. k + 1 : r[n] \in {b, c} /\ r[n] = q[n - 1]
    BY <2>1, <2>3 DEF r
  <2> QED
    BY <1>6, <1>11, <2>4, <2>5
<1>13. \A n \in 1 .. Len(p) : n = 1 \/ n \in 2 .. k + 1 \/ n = k + 2
  BY <1>11, <1>12
<1>14. /\ p[1].do = "require" /\ p[1].kind = "message_summarization"
       /\ p[k + 2].do = "record" /\ p[k + 2].kind = "message" /\ p[k + 2].what = "SUMMARIZED"
       /\ \A n \in 2 .. k + 1 : \/ p[n].do = "refresh"
                                \/ /\ p[n].do = "insert" /\ p[n].kind = "message"
                                   /\ p[n].new \in Dated
  <2>1. b.do = "insert" /\ b.kind = "message" /\ b.new \in Dated /\ c.do = "refresh"
    BY <1>1, <1>3, <1>4 DEF Is
  <2>2. \A n \in 2 .. k + 1 : p[n] = b \/ p[n] = c
    BY <1>12
  <2> QED BY <1>2, <1>5, <1>12, <2>1, <2>2 DEF Is
<1>15. /\ Audit("insert", "message") = "SUMMARIZED"
       /\ CategoryOf("message") = "message_summarization"
  BY DEF Audit, ActionFor, CategoryOf
<1>16. Shaped(p)
  BY <1>13, <1>14 DEF Shaped, Touching, Kind, Category
<1>17. Gated(p, {})
  <2>1. ASSUME NEW n \in 2 .. k + 1
        PROVE  \E m \in 1 .. n - 1 : p[m].do = "require" /\ p[m].kind = "message_summarization"
    <3>1. 1 \in 1 .. n - 1
      BY <1>11
    <3> QED BY <1>14, <3>1
  <2> QED BY <1>13, <1>14, <1>15, <2>1 DEF Gated, Touching
<1>18. Audits(p, 0, {})
  <2>1. Logged(p, 0, {}, "SUMMARIZED", "message")
    <3>1. k + 2 \in 1 .. Len(p)
      BY <1>11, <1>12
    <3> QED BY <1>14, <3>1 DEF Logged
  <2> QED BY <1>13, <1>14, <1>15, <2>1 DEF Audits, Touching
<1>19. Foretold(p)
  BY <1>13, <1>14 DEF Foretold
<1>20. Searched(p)
  <2>1. b.do = "insert" /\ b.kind = "message" /\ c.do = "refresh" /\ c.kind = "message"
    BY <1>3, <1>4 DEF Is
  <2>2. /\ k >= 2 => p[2] = b /\ p[3] = c
        /\ k >= 3 => p[4] = b /\ p[5] = c /\ k >= 4
    <3>1. k >= 2 => p[2] = q[1] /\ p[3] = q[2]
      BY <1>11, <1>12
    <3>2. k >= 3 => k >= 4 /\ p[4] = q[3] /\ p[5] = q[4]
      BY <1>10, <1>11, <1>12 DEF k
    <3> QED BY <1>10, <3>1, <3>2 DEF k
  <2>3. k >= 2 => HasRow(p, 3)
    <3>1. k >= 2 => TakenAt(p, 2, 3)
      BY <2>1, <2>2 DEF TakenAt, Taking
    <3>2. 2 \in 1 .. 3 - 1
      OBVIOUS
    <3> QED BY <3>1, <3>2 DEF HasRow
  <2>4. k >= 3 => HasRow(p, 5)
    <3>1. k >= 3 => TakenAt(p, 4, 5)
      BY <2>1, <2>2 DEF TakenAt, Taking
    <3>2. 4 \in 1 .. 5 - 1
      OBVIOUS
    <3> QED BY <3>1, <3>2 DEF HasRow
  <2>5. k = 0 \/ k = 2 \/ k = 4
    BY <1>10 DEF k
  <2>6. SUFFICES ASSUME NEW n \in 1 .. Len(p), p[n].do \in Using PROVE HasRow(p, n)
    BY DEF Searched
  <2>7. n # 1 /\ n # k + 2
    BY <1>14, <2>6 DEF Using
  <2>8. n = 2 \/ n = 3 \/ n = 4 \/ n = 5
    BY <1>13, <2>5, <2>7
  <2>9. n # 2 /\ n # 4
    BY <1>12, <2>1, <2>2, <2>5, <2>6, <2>7 DEF Using
  <2>10. CASE n = 3
    BY <1>12, <2>3, <2>5, <2>7, <2>10
  <2>11. CASE n = 5
    BY <1>12, <2>4, <2>5, <2>7, <2>11
  <2> QED BY <2>8, <2>9, <2>10, <2>11
<1> QED
  BY <1>11, <1>12, <1>16, <1>17, <1>18, <1>19, <1>20 DEF WellMade, p

(* Programs that follow each other.                                        *)
LEMMA JoinedMade ==
  ASSUME NEW p, WellMade(p), NEW q, WellMade(q)
  PROVE  WellMade(p \o q)
<1> DEFINE r == p \o q
           k == Len(p)
<1>1. /\ p \in Seq(StageType) /\ k \in Nat /\ k > 0
      /\ q \in Seq(StageType) /\ Len(q) \in Nat
  BY DEF WellMade
<1>2. /\ r \in Seq(StageType) /\ Len(r) = k + Len(q)
      /\ \A n \in 1 .. k : r[n] = p[n]
      /\ \A n \in 1 .. Len(q) : r[n + k] = q[n]
  BY <1>1
<1> HIDE DEF r, k
<1>3. \A n \in 1 .. Len(r) :
        \/ n \in 1 .. k /\ r[n] = p[n]
        \/ n - k \in 1 .. Len(q) /\ r[n] = q[n - k]
  <2>1. \A n \in 1 .. Len(r) : n \in 1 .. k \/ (n - k \in 1 .. Len(q) /\ n - k + k = n)
    BY <1>1, <1>2
  <2> QED BY <1>1, <1>2, <2>1
<1>4. Shaped(r)
  BY <1>3 DEF WellMade, Shaped, k
<1>5. Gated(r, {})
  <2> SUFFICES ASSUME NEW n \in 1 .. Len(r), r[n].do \in Touching
               PROVE  \E m \in 1 .. n - 1 : /\ r[m].do = "require"
                                            /\ r[m].kind = CategoryOf(r[n].kind)
    BY DEF Gated
  <2>1. CASE n \in 1 .. k /\ r[n] = p[n]
    <3>1. PICK m \in 1 .. n - 1 : p[m].do = "require" /\ p[m].kind = CategoryOf(p[n].kind)
      BY <2>1 DEF WellMade, Gated, k
    <3>2. m \in 1 .. k
      BY <1>1, <2>1
    <3> QED BY <1>2, <2>1, <3>1, <3>2
  <2>2. CASE n - k \in 1 .. Len(q) /\ r[n] = q[n - k]
    <3>1. PICK m \in 1 .. n - k - 1 :
            q[m].do = "require" /\ q[m].kind = CategoryOf(q[n - k].kind)
      BY <2>2 DEF WellMade, Gated
    <3>2. m \in 1 .. Len(q) /\ m + k \in 1 .. n - 1
      BY <1>1, <1>2, <2>2
    <3> QED BY <1>2, <2>2, <3>1, <3>2
  <2> QED BY <1>3, <2>1, <2>2
<1>6. Audits(r, 0, {})
  <2> SUFFICES ASSUME NEW n \in 1 .. Len(r), r[n].do \in Touching
               PROVE  \E m \in 1 .. Len(r) :
                        /\ r[m].do = "record" /\ r[m].kind = r[n].kind
                        /\ r[m].what = Audit(r[n].do, r[n].kind)
    BY DEF Audits, Logged
  <2>1. CASE n \in 1 .. k /\ r[n] = p[n]
    <3>1. PICK m \in 1 .. k : /\ p[m].do = "record" /\ p[m].kind = p[n].kind
                              /\ p[m].what = Audit(p[n].do, p[n].kind)
      BY <2>1 DEF WellMade, Audits, Logged, k
    <3>2. m \in 1 .. Len(r)
      BY <1>1, <1>2
    <3> QED BY <1>2, <2>1, <3>1, <3>2
  <2>2. CASE n - k \in 1 .. Len(q) /\ r[n] = q[n - k]
    <3>1. PICK m \in 1 .. Len(q) : /\ q[m].do = "record" /\ q[m].kind = q[n - k].kind
                                   /\ q[m].what = Audit(q[n - k].do, q[n - k].kind)
      BY <2>2 DEF WellMade, Audits, Logged
    <3>2. m + k \in 1 .. Len(r)
      BY <1>1, <1>2
    <3> QED BY <1>2, <2>2, <3>1, <3>2
  <2> QED BY <1>3, <2>1, <2>2
<1>7. Foretold(r)
  <2> SUFFICES ASSUME NEW n \in 1 .. Len(r), r[n].do = "record",
                      r[n].what \in {"CREATED", "FIRED"}
               PROVE  JustMade(r, n)
    BY DEF Foretold
  <2>1. CASE n \in 1 .. k /\ r[n] = p[n]
    <3>1. JustMade(p, n)
      BY <2>1 DEF WellMade, Foretold, k
    <3>2. n >= 3 /\ n - 1 \in 1 .. k /\ n - 2 \in 1 .. k
      BY <1>1, <2>1, <3>1 DEF JustMade
    <3> QED BY <1>2, <2>1, <3>1, <3>2 DEF JustMade
  <2>2. CASE n - k \in 1 .. Len(q) /\ r[n] = q[n - k]
    <3>1. JustMade(q, n - k)
      BY <2>2 DEF WellMade, Foretold
    <3>2. /\ n >= 3 /\ n - k - 1 \in 1 .. Len(q) /\ n - k - 2 \in 1 .. Len(q)
          /\ n - k - 1 + k = n - 1 /\ n - k - 2 + k = n - 2
      BY <1>1, <1>2, <2>2, <3>1 DEF JustMade
    <3>3. r[n - 1] = q[n - k - 1] /\ r[n - 2] = q[n - k - 2]
      BY <1>2, <3>2
    <3> QED BY <2>2, <3>1, <3>2, <3>3 DEF JustMade
  <2> QED BY <1>3, <2>1, <2>2
<1>8. Searched(r)
  <2> SUFFICES ASSUME NEW n \in 1 .. Len(r), r[n].do \in Using
               PROVE  HasRow(r, n)
    BY DEF Searched
  <2>1. CASE n \in 1 .. k /\ r[n] = p[n]
    <3>1. HasRow(p, n)
      BY <2>1 DEF WellMade, Searched, k
    <3>2. PICK m \in 1 .. n - 1 : TakenAt(p, m, n)
      BY <3>1 DEF HasRow
    <3>3. m \in 1 .. k /\ \A i \in m + 1 .. n - 1 : i \in 1 .. k
      BY <1>1, <2>1
    <3>4. TakenAt(r, m, n)
      BY <1>2, <2>1, <3>2, <3>3 DEF TakenAt
    <3> QED BY <3>4 DEF HasRow
  <2>2. CASE n - k \in 1 .. Len(q) /\ r[n] = q[n - k]
    <3>1. HasRow(q, n - k)
      BY <2>2 DEF WellMade, Searched
    <3>2. PICK m \in 1 .. n - k - 1 : TakenAt(q, m, n - k)
      BY <3>1 DEF HasRow
    <3>3. m \in 1 .. Len(q) /\ m + k \in 1 .. n - 1 /\ r[m + k] = q[m]
      BY <1>1, <1>2, <2>2
    <3>4. ASSUME NEW i \in m + k + 1 .. n - 1 PROVE r[i].do \notin Taking
      <4>1. i - k \in m + 1 .. n - k - 1 /\ i - k \in 1 .. Len(q) /\ i - k + k = i
        BY <1>1, <2>2
      <4>2. r[i] = q[i - k]
        BY <1>2, <4>1
      <4> QED BY <3>2, <4>1, <4>2 DEF TakenAt
    <3>5. TakenAt(r, m + k, n)
      BY <2>2, <3>2, <3>3, <3>4 DEF TakenAt
    <3> QED BY <3>3, <3>5 DEF HasRow
  <2> QED BY <1>3, <2>1, <2>2
<1> QED
  BY <1>1, <1>2, <1>4, <1>5, <1>6, <1>7, <1>8 DEF WellMade, r

(* A message to the assistant: required and recorded before it is          *)
(* dispatched.                                                             *)
LEMMA HandleMade ==
  ASSUME NEW action \in dispatch
  PROVE  WellMade(handle(action))
<1> DEFINE a == require("assistant_nlu")
           b == Audited("INTENT_CLASSIFIED", "assistant_nlu")
           p == <<a, b>>
<1>1. "require" \in Doing /\ "assistant_nlu" \in AnyKind /\ "INTENT_CLASSIFIED" \in Saying
  BY DEF Doing, AnyKind, Category, Saying
<1>2. Is(a, "require", "assistant_nlu", 0, "", <<>>)
  BY <1>1, StageIs DEF require
<1>3. Is(b, "record", "assistant_nlu", 0, "INTENT_CLASSIFIED", <<>>)
  BY <1>1, AuditedIs
<1>4. handle(action) = p \o action
  BY DEF handle
<1> HIDE DEF a, b
<1>5. p \in Seq(StageType) /\ Len(p) = 2 /\ p[1] = a /\ p[2] = b
  <2>1. a \in StageType /\ b \in StageType
    BY <1>2, <1>3 DEF Is
  <2> QED BY <2>1
<1> HIDE DEF p
<1>6. \A n \in 1 .. Len(p) : n = 1 \/ n = 2
  BY <1>5
<1>7. /\ p[1].do = "require" /\ p[1].kind = "assistant_nlu"
      /\ p[2].do = "record" /\ p[2].what = "INTENT_CLASSIFIED"
  BY <1>2, <1>3, <1>5 DEF Is
<1>8. WellMade(p)
  <2>1. Shaped(p)
    BY <1>6, <1>7 DEF Shaped, Touching, Category
  <2>2. Gated(p, {}) /\ Audits(p, 0, {}) /\ Foretold(p) /\ Searched(p)
    BY <1>6, <1>7 DEF Gated, Audits, Foretold, Searched, Touching, Using
  <2> QED BY <1>5, <2>1, <2>2 DEF WellMade
<1>9. CASE action = <<>>
  BY <1>4, <1>5, <1>8, <1>9
<1>10. CASE action \in {ListEvents, ListReminders, CreateEvent, CreateReminder(FALSE)}
  <2>1. WellMade(action)
    <3>1. WellMade(List("event")) /\ WellMade(List("reminder"))
      BY ListMade
    <3>2. WellMade(Create("event", FALSE)) /\ WellMade(Create("reminder", FALSE))
      BY CreateMade
    <3> QED
      BY <1>10, <3>1, <3>2 DEF ListEvents, ListReminders, CreateEvent, CreateReminder
  <2> QED BY <1>4, <1>8, <2>1, JoinedMade
<1> QED
  BY <1>9, <1>10 DEF dispatch

(* Whatever a route accepts is a well made program.                        *)
LEMMA RoutesMade == \A p \in Routes : WellMade(p)
<1>1. ASSUME NEW p \in ReminderRoutes PROVE WellMade(p)
  <2>1. \A new \in Changes : new \in Payloads
    BY DEF Payloads
  <2>2. /\ \A due \in BOOLEAN : WellMade(CreateReminder(due))
        /\ WellMade(ListReminders)
        /\ \A i \in Id, new \in Changes : WellMade(UpdateReminder(i, new))
        /\ \A i \in Id : WellMade(DeleteReminder(i))
    BY <2>1, CreateMade, ListMade, UpdateMade, DeleteMade
    DEF CreateReminder, ListReminders, UpdateReminder, DeleteReminder
  <2> QED BY <1>1, <2>2 DEF ReminderRoutes
<1>2. ASSUME NEW p \in EventRoutes PROVE WellMade(p)
  <2>1. [text |-> "new"] \in Payloads
    BY DEF Payloads
  <2>2. /\ WellMade(CreateEvent) /\ WellMade(ListEvents)
        /\ \A i \in Id : WellMade(UpdateEvent(i, [text |-> "new"]))
        /\ \A i \in Id : WellMade(DeleteEvent(i))
    BY <2>1, CreateMade, ListMade, UpdateMade, DeleteMade
    DEF CreateEvent, ListEvents, UpdateEvent, DeleteEvent
  <2> QED BY <1>2, <2>2 DEF EventRoutes
<1>3. ASSUME NEW p \in AssistantRoutes PROVE WellMade(p)
  BY <1>3, HandleMade, SummarizeMade DEF AssistantRoutes
<1>4. ASSUME NEW p \in ConsentRoute PROVE WellMade(p)
  BY <1>4, ConsentMade DEF ConsentRoute
<1> QED
  BY <1>1, <1>2, <1>3, <1>4 DEF Routes

-----------------------------------------------------------------------------
(* Going on with a program.  "k" is what a session is left with when it    *)
(* has run the first stage of what it had, "j".                            *)
Left(j) == [j EXCEPT !.program = Tail(@)]

Follows(j, k) ==
  /\ k.user = j.user /\ k.request = j.request /\ k.fails = j.fails
  /\ Len(j.program) \in Nat /\ Len(j.program) > 0
  /\ Len(k.program) = Len(j.program) - 1
  /\ \A n \in 1 .. Len(j.program) - 1 : k.program[n] = j.program[n + 1]

(* What is left is typed and keeps all but the program.                    *)
LEMMA LeftIs ==
  ASSUME NEW j \in Job, j.program # <<>>
  PROVE  /\ Left(j) \in Job /\ Follows(j, Left(j))
         /\ Left(j).id = j.id /\ Left(j).loaded = j.loaded /\ Left(j).was = j.was
         /\ Left(j).could = j.could
         /\ j.program[1] \in StageType /\ Head(j.program) = j.program[1]
         /\ Len(j.program) = 1 => Left(j).program = <<>>
<1> DEFINE p == j.program
<1>1. p \in Seq(StageType) /\ p # <<>>
  BY DEF Job
<1>2. /\ Tail(p) \in Seq(StageType) /\ Len(Tail(p)) = Len(p) - 1
      /\ \A n \in 1 .. Len(Tail(p)) : Tail(p)[n] = p[n + 1]
      /\ Len(p) \in Nat /\ Len(p) > 0
      /\ p[1] \in StageType /\ Head(p) = p[1]
      /\ Len(p) = 1 => Tail(p) = <<>>
  <2>1. /\ Tail(p) \in Seq(StageType) /\ Len(Tail(p)) = Len(p) - 1
        /\ \A n \in 1 .. Len(Tail(p)) : Tail(p)[n] = p[n + 1]
    BY <1>1, HeadTailProperties
  <2>2. Len(p) \in Nat /\ Len(p) > 0
    BY <1>1, EmptySeq
  <2>3. p[1] \in StageType /\ Head(p) = p[1]
    BY <1>1, <2>2
  <2>4. Len(p) = 1 => Tail(p) = <<>>
    <3> DEFINE t == Tail(p)
    <3>1. t \in Seq(StageType) /\ (t # <<>> => Len(t) \in Nat \ {0})
      BY <2>1, EmptySeq
    <3> QED BY <2>1, <3>1
  <2> QED BY <2>1, <2>2, <2>3, <2>4
<1> DEFINE k == Left(j)
<1>3. /\ k.user = j.user /\ k.request = j.request /\ k.fails = j.fails
      /\ k.id = j.id /\ k.loaded = j.loaded /\ k.was = j.was /\ k.could = j.could
      /\ k.program = Tail(p)
  BY DEF Job, Left
<1>4. k \in Job
  BY <1>2 DEF Job, Left
<1> QED
  BY <1>2, <1>3, <1>4 DEF Follows

(* Every later stage was later before.                                     *)
LEMMA Later ==
  ASSUME NEW j, NEW k, Follows(j, k), NEW n \in 1 .. Len(k.program)
  PROVE  /\ n + 1 \in 2 .. Len(j.program) /\ k.program[n] = j.program[n + 1]
         /\ \A m \in 2 .. n + 1 : m - 1 \in 1 .. n /\ k.program[m - 1] = j.program[m]
<1>1. /\ n \in Nat /\ n >= 1 /\ n <= Len(j.program) - 1
      /\ Len(j.program) \in Nat
  BY DEF Follows
<1>2. ASSUME NEW m \in 2 .. n + 1
      PROVE  m - 1 \in 1 .. n /\ k.program[m - 1] = j.program[m]
  <2>1. m - 1 \in 1 .. n /\ m - 1 \in 1 .. Len(j.program) - 1 /\ m - 1 + 1 = m
    BY <1>1
  <2> QED BY <2>1 DEF Follows
<1> QED
  BY <1>1, <1>2 DEF Follows

(* Shapes do not depend on the first stage.                                *)
LEMMA ShapedRest ==
  ASSUME NEW j, NEW k, Follows(j, k)
  PROVE  /\ Shaped(j.program) => Shaped(k.program)
         /\ SweepShaped(j.program) => SweepShaped(k.program)
<1>1. \A n \in 1 .. Len(k.program) :
        n + 1 \in 1 .. Len(j.program) /\ k.program[n] = j.program[n + 1]
  BY Later
<1> QED
  BY <1>1 DEF Shaped, SweepShaped

(* What was required is remembered.                                        *)
LEMMA GatedRest ==
  ASSUME NEW j, NEW k, Follows(j, k), Gated(j.program, j.could), j.could \subseteq k.could,
         j.program[1].do = "require" => j.program[1].kind \in k.could
  PROVE  Gated(k.program, k.could)
<1> DEFINE p == j.program
           q == k.program
<1> SUFFICES ASSUME NEW n \in 1 .. Len(q), q[n].do \in Touching,
                    CategoryOf(q[n].kind) \notin k.could
             PROVE  \E m \in 1 .. n - 1 : q[m].do = "require" /\ q[m].kind = CategoryOf(q[n].kind)
  BY DEF Gated
<1>1. /\ n + 1 \in 1 .. Len(p) /\ q[n] = p[n + 1]
      /\ \A m \in 2 .. n + 1 : m - 1 \in 1 .. n /\ q[m - 1] = p[m]
  BY Later
<1>2. PICK m \in 1 .. n + 1 - 1 : p[m].do = "require" /\ p[m].kind = CategoryOf(q[n].kind)
  BY <1>1 DEF Gated
<1>3. m # 1
  BY <1>2
<1>4. m \in 2 .. n + 1 /\ m - 1 \in 1 .. n - 1
  BY <1>3
<1> QED
  BY <1>1, <1>2, <1>4

(* What was still to be recorded is recorded or still to be.               *)
LEMMA LoggedRest ==
  ASSUME NEW j, NEW k, Follows(j, k), NEW R, NEW S, R \subseteq S,
         j.program[1].do = "record" =>
           \E r \in S : /\ r.request = j.request /\ r.kind = j.program[1].kind
                        /\ r.action = j.program[1].what,
         NEW action, NEW kind, Logged(j.program, j.request, R, action, kind)
  PROVE  Logged(k.program, k.request, S, action, kind)
<1> DEFINE p == j.program
           q == k.program
<1>1. k.request = j.request
  BY DEF Follows
<1>2. CASE \E r \in R : r.request = j.request /\ r.kind = kind /\ r.action = action
  BY <1>1, <1>2 DEF Logged
<1>3. CASE \E m \in 1 .. Len(p) : p[m].do = "record" /\ p[m].kind = kind /\ p[m].what = action
  <2>1. PICK m \in 1 .. Len(p) : p[m].do = "record" /\ p[m].kind = kind /\ p[m].what = action
    BY <1>3
  <2>2. CASE m = 1
    BY <1>1, <2>1, <2>2 DEF Logged
  <2>3. CASE m # 1
    <3>1. m - 1 \in 1 .. Len(q) /\ q[m - 1] = p[m]
      <4>1. m - 1 \in 1 .. Len(p) - 1 /\ m - 1 + 1 = m
        BY <2>3 DEF Follows
      <4> QED BY <4>1 DEF Follows
    <3> QED BY <2>1, <3>1 DEF Logged
  <2> QED BY <2>2, <2>3
<1> QED
  BY <1>2, <1>3 DEF Logged

(* The same of all actions to come, and of all that have been.             *)
LEMMA AuditsRest ==
  ASSUME NEW j, NEW k, Follows(j, k), NEW R, NEW S, R \subseteq S, NEW E, NEW F,
         j.program[1].do = "record" =>
           \E r \in S : /\ r.request = j.request /\ r.kind = j.program[1].kind
                        /\ r.action = j.program[1].what,
         Audits(j.program, j.request, R), Explained(j, E, R),
         \A e \in F \ E : e.request = j.request =>
           /\ j.program[1].do \in Touching /\ e.kind = j.program[1].kind
           /\ ActionFor(e) = Audit(j.program[1].do, j.program[1].kind)
  PROVE  Audits(k.program, k.request, S) /\ Explained(k, F, S)
<1> DEFINE p == j.program
           q == k.program
<1>1. \A action, kind : Logged(p, j.request, R, action, kind) => Logged(q, k.request, S, action, kind)
  BY LoggedRest
<1>2. Audits(q, k.request, S)
  <2>1. \A n \in 1 .. Len(q) : n + 1 \in 1 .. Len(p) /\ q[n] = p[n + 1]
    BY Later
  <2> QED BY <1>1, <2>1 DEF Audits
<1>3. Explained(k, F, S)
  <2> SUFFICES ASSUME k.request # 0, ~k.fails, NEW e \in F, e.request = k.request
               PROVE  Logged(q, k.request, S, ActionFor(e), e.kind)
    BY DEF Explained
  <2>1. k.request = j.request /\ k.fails = j.fails /\ 1 \in 1 .. Len(p)
    BY DEF Follows
  <2>2. CASE e \in E
    BY <1>1, <2>1, <2>2 DEF Explained
  <2>3. CASE e \notin E
    BY <1>1, <2>1, <2>3 DEF Audits
  <2> QED BY <2>2, <2>3
<1> QED
  BY <1>2, <1>3

(* What is to be announced has been made, or will be.                      *)
LEMMA AnnouncesRest ==
  ASSUME NEW j, NEW k, Follows(j, k), NEW E, NEW F, E \subseteq F, Announces(j, E),
         j.program[1].do = "refresh" => k.id = j.id,
         j.program[1].do \in Making =>
           \E e \in F : /\ e.request = j.request /\ e.kind = j.program[1].kind /\ e.id = k.id
                        /\ ActionFor(e) = Audit(j.program[1].do, j.program[1].kind)
  PROVE  Announces(k, F)
<1> DEFINE p == j.program
           q == k.program
<1> SUFFICES ASSUME NEW n \in 1 .. Len(q), q[n].do = "record", q[n].what \in {"CREATED", "FIRED"}
             PROVE  \/ JustMade(q, n)
                    \/ n <= 2 /\ (n = 2 => q[1].do = "refresh") /\ Announced(q[n], k, F)
  BY DEF Announces
<1>1. /\ n + 1 \in 2 .. Len(p) /\ q[n] = p[n + 1]
      /\ \A m \in 2 .. n + 1 : m - 1 \in 1 .. n /\ q[m - 1] = p[m]
      /\ k.request = j.request
  BY Later DEF Follows
<1>2. \/ JustMade(p, n + 1)
      \/ n + 1 <= 2 /\ (n + 1 = 2 => p[1].do = "refresh") /\ Announced(p[n + 1], j, E)
  <2>1. n + 1 \in 1 .. Len(p) /\ p[n + 1].do = "record" /\ p[n + 1].what \in {"CREATED", "FIRED"}
    BY <1>1
  <2> QED BY <2>1 DEF Announces
<1>3. CASE JustMade(p, n + 1) /\ n >= 3
  <2>1. n \in 2 .. n + 1 /\ n - 1 \in 2 .. n + 1 /\ n + 1 - 1 = n /\ n + 1 - 2 = n - 1
        /\ n - 1 - 1 = n - 2
    BY <1>3
  <2>2. q[n - 1] = p[n] /\ q[n - 2] = p[n - 1]
    BY <1>1, <2>1
  <2> QED BY <1>1, <1>3, <2>1, <2>2 DEF JustMade
<1>4. CASE JustMade(p, n + 1) /\ ~(n >= 3)
  <2>1. n = 2 /\ p[2].do = "refresh" /\ p[1].do \in Making /\ p[1].kind = q[2].kind
        /\ Audit(p[1].do, q[2].kind) = q[2].what
    <3>1. n = 2
      BY <1>4 DEF JustMade
    <3> QED BY <1>1, <1>4, <3>1 DEF JustMade
  <2>2. q[1] = p[2]
    BY <1>1, <2>1
  <2>3. Announced(q[n], k, F)
    BY <1>1, <2>1 DEF Announced
  <2> QED BY <2>1, <2>2, <2>3
<1>5. CASE n + 1 <= 2 /\ (n + 1 = 2 => p[1].do = "refresh") /\ Announced(p[n + 1], j, E)
  <2>1. n = 1 /\ p[1].do = "refresh"
    BY <1>5
  <2> QED BY <1>1, <1>5, <2>1 DEF Announced
<1> QED
  BY <1>2, <1>3, <1>4, <1>5

(* What is to be changed has been looked up, or will be.                   *)
LEMMA LoadsRest ==
  ASSUME NEW j, NEW k, Follows(j, k), NEW who, Loads(j, who),
         j.program[1].do \notin Taking => k.id = j.id /\ k.loaded = j.loaded,
         j.program[1].do \in Taking => Loaded(k, j.program[1].kind, who)
  PROVE  Loads(k, who)
<1> DEFINE p == j.program
           q == k.program
<1> SUFFICES ASSUME NEW n \in 1 .. Len(q), q[n].do \in Using
             PROVE  \/ HasRow(q, n)
                    \/ (\A m \in 1 .. n - 1 : q[m].do \notin Taking) /\ Loaded(k, q[n].kind, who)
  BY DEF Loads
<1>1. /\ n + 1 \in 2 .. Len(p) /\ q[n] = p[n + 1] /\ n \in Nat
      /\ \A m \in 2 .. n + 1 : m - 1 \in 1 .. n /\ q[m - 1] = p[m]
      /\ k.user = j.user
  BY Later DEF Follows
<1>2. \A m \in 1 .. n : q[m] = p[m + 1]
  <2> TAKE m \in 1 .. n
  <2>1. m + 1 \in 2 .. n + 1 /\ m + 1 - 1 = m
    BY <1>1
  <2> QED BY <1>1, <2>1
<1>3. \/ HasRow(p, n + 1)
      \/ (\A m \in 1 .. n + 1 - 1 : p[m].do \notin Taking) /\ Loaded(j, p[n + 1].kind, who)
  <2>1. n + 1 \in 1 .. Len(p) /\ p[n + 1].do \in Using
    BY <1>1
  <2> QED BY <2>1 DEF Loads
<1>4. CASE HasRow(p, n + 1)
  <2>1. PICK m \in 1 .. n + 1 - 1 : TakenAt(p, m, n + 1)
    BY <1>4 DEF HasRow
  <2>2. /\ p[m].do \in Taking /\ p[m].kind = q[n].kind
        /\ \A i \in m + 1 .. n : p[i].do \notin Taking
    <3>1. n + 1 - 1 = n
      BY <1>1
    <3> QED BY <1>1, <2>1, <3>1 DEF TakenAt
  <2>3. ASSUME NEW i \in m .. n - 1, i # 0 PROVE q[i].do \notin Taking
    <3>1. i + 1 \in m + 1 .. n /\ i \in 1 .. n
      BY <1>1
    <3> QED BY <1>2, <2>2, <3>1
  <2>4. CASE m = 1
    <3>1. Loaded(k, q[n].kind, who)
      BY <2>2, <2>4
    <3>2. \A i \in 1 .. n - 1 : q[i].do \notin Taking
      BY <2>3, <2>4
    <3> QED BY <3>1, <3>2
  <2>5. CASE m # 1
    <3>1. m - 1 \in 1 .. n - 1 /\ m - 1 \in 1 .. n /\ m - 1 + 1 = m
      BY <1>1, <2>5
    <3>2. q[m - 1] = p[m]
      BY <1>2, <3>1
    <3>3. \A i \in m - 1 + 1 .. n - 1 : q[i].do \notin Taking
      BY <2>3, <3>1
    <3>4. TakenAt(q, m - 1, n)
      BY <2>2, <3>2, <3>3 DEF TakenAt
    <3> QED BY <3>1, <3>4 DEF HasRow
  <2> QED BY <2>4, <2>5
<1>5. CASE (\A m \in 1 .. n + 1 - 1 : p[m].do \notin Taking) /\ Loaded(j, p[n + 1].kind, who)
  <2>1. p[1].do \notin Taking
    BY <1>1, <1>5
  <2>2. Loaded(k, q[n].kind, who)
    BY <1>1, <1>5, <2>1 DEF Loaded
  <2>3. ASSUME NEW m \in 1 .. n - 1 PROVE q[m].do \notin Taking
    <3>1. m \in 1 .. n /\ m + 1 \in 1 .. n + 1 - 1
      BY <1>1
    <3> QED BY <1>2, <1>5, <3>1
  <2> QED BY <2>2, <2>3
<1> QED
  BY <1>3, <1>4, <1>5

(* A sweep's reminders stay distinct.                                      *)
LEMMA DistinctRest ==
  ASSUME NEW j, NEW k, Follows(j, k), Distinct(j.program)
  PROVE  Distinct(k.program)
<1> DEFINE p == j.program
           q == k.program
<1> SUFFICES ASSUME NEW n \in 1 .. Len(q), NEW m \in 1 .. n - 1,
                    q[n].do = "fire", q[m].do = "fire"
             PROVE  q[n].id # q[m].id
  BY DEF Distinct
<1>1. /\ n + 1 \in 1 .. Len(p) /\ q[n] = p[n + 1]
      /\ \A i \in 2 .. n + 1 : q[i - 1] = p[i]
  BY Later
<1>2. m + 1 \in 2 .. n + 1 /\ m + 1 - 1 = m /\ m + 1 \in 1 .. n + 1 - 1
  OBVIOUS
<1>3. q[m] = p[m + 1]
  BY <1>1, <1>2
<1> QED
  BY <1>1, <1>2, <1>3 DEF Distinct

-----------------------------------------------------------------------------
(* Sessions.  "k" is the job with what a stage changed besides the program.*)
Varies(j, k) ==
  /\ k \in Job /\ k.program = j.program /\ k.user = j.user /\ k.request = j.request
  /\ k.fails = j.fails /\ k.could = j.could

Found(j, i, row) == [j EXCEPT !.id = i, !.loaded = row]
Naming(j, i)     == [j EXCEPT !.id = i]
Seeing(j, value) == [j EXCEPT !.was = value]
Knowing(j, c)    == [j EXCEPT !.could = @ \cup {c}]
Blocked(j, c)    == [j EXCEPT !.program = <<Audited("CONSENT_BLOCKED", c)>>, !.fails = TRUE]

(* The changes keep the type.                                              *)
LEMMA FoundIs ==
  ASSUME NEW j \in Job, NEW i \in Id, NEW row \in Row
  PROVE  /\ Varies(j, Found(j, i, row))
         /\ Found(j, i, row).id = i /\ Found(j, i, row).loaded = row
<1>1. i \in AnyId
  BY DEF AnyId
<1> QED
  BY <1>1 DEF Varies, Found, Job

LEMMA NamingIs ==
  ASSUME NEW j \in Job, NEW i \in Id
  PROVE  /\ Varies(j, Naming(j, i))
         /\ Naming(j, i).id = i /\ Naming(j, i).loaded = j.loaded
<1>1. i \in AnyId
  BY DEF AnyId
<1> QED
  BY <1>1 DEF Varies, Naming, Job

LEMMA SeeingIs ==
  ASSUME NEW j \in Job, NEW value \in {"none", "granted", "denied"}
  PROVE  /\ Varies(j, Seeing(j, value))
         /\ Seeing(j, value).id = j.id /\ Seeing(j, value).loaded = j.loaded
BY DEF Varies, Seeing, Job

(* A job that only learns of a grant.                                      *)
Grown(j, k) ==
  /\ k \in Job /\ k.program = j.program /\ k.user = j.user /\ k.request = j.request
  /\ k.fails = j.fails /\ k.id = j.id /\ k.loaded = j.loaded /\ k.was = j.was
  /\ j.could \subseteq k.could
  /\ j = Idle <=> k = Idle

LEMMA KnowingIs ==
  ASSUME NEW j \in Job, j.user # 0, NEW c \in Category
  PROVE  Grown(j, Knowing(j, c)) /\ Knowing(j, c).could = j.could \cup {c}
<1> DEFINE k == Knowing(j, c)
<1>1. /\ k.program = j.program /\ k.user = j.user /\ k.request = j.request
      /\ k.fails = j.fails /\ k.id = j.id /\ k.loaded = j.loaded /\ k.was = j.was
      /\ k.could = j.could \cup {c}
  BY DEF Knowing, Job
<1>2. k \in Job
  BY DEF Knowing, Job
<1>3. Idle.user = 0
  BY DEF Idle
<1> QED
  BY <1>1, <1>2, <1>3 DEF Grown

(* A request that is refused has one record to make.                       *)
LEMMA BlockedIs ==
  ASSUME NEW j \in Job, NEW c \in Category
  PROVE  LET k == Blocked(j, c)
         IN  /\ k \in Job /\ k.user = j.user /\ k.request = j.request /\ k.could = j.could
             /\ k.fails = TRUE /\ Len(k.program) = 1
             /\ k.program[1].do = "record" /\ k.program[1].what = "CONSENT_BLOCKED"
<1> DEFINE a == Audited("CONSENT_BLOCKED", c)
           q == <<a>>
<1>1. a \in StageType /\ a.do = "record" /\ a.what = "CONSENT_BLOCKED"
  <2>1. "CONSENT_BLOCKED" \in Saying /\ c \in AnyKind
    BY DEF Saying, AnyKind
  <2> QED BY <2>1, AuditedIs DEF Is
<1> HIDE DEF a
<1>2. q \in Seq(StageType) /\ Len(q) = 1 /\ q[1] = a
  BY <1>1
<1> HIDE DEF q
<1> DEFINE k == [j EXCEPT !.program = q, !.fails = TRUE]
<1>3. /\ k.program = q /\ k.user = j.user /\ k.request = j.request /\ k.could = j.could
      /\ k.fails = TRUE
  BY DEF Job
<1>4. k \in Job
  BY <1>2 DEF Job
<1>5. k = Blocked(j, c)
  BY DEF Blocked, q, a
<1> HIDE DEF k
<1> QED
  BY <1>1, <1>2, <1>3, <1>4, <1>5

(* An idle session has nothing to do.                                      *)
LEMMA IdleIs ==
  /\ Idle \in Job /\ Idle.program = <<>> /\ Len(Idle.program) = 0
  /\ Idle.user = 0 /\ Idle.request = 0 /\ Idle.could = {}
<1>1. <<>> \in Seq(StageType) /\ Len(<<>>) = 0
  OBVIOUS
<1>2. 0 \in AnyId /\ 0 \in 0 .. MaxRequests
  BY RecordsBoundsAssumption DEF AnyId
<1> QED
  BY <1>1, <1>2 DEF Idle, Job

(* One stage of session s: "l" is what it is left with.                    *)
Moves(s, l) ==
  /\ l \in Job /\ Follows(job[s], l) /\ job[s].could \subseteq l.could
  /\ job' \in [Session -> Job]
  /\ \A t \in Session \ {s} : Grown(job[t], job'[t])
  /\ \/ job'[s] = Idle /\ l.program = <<>>
     \/ job'[s] = l /\ l.program # <<>>
  /\ \/ answered' = answered
     \/ /\ answered' = answered \cup {job[s].request}
        /\ job'[s] = Idle /\ s \in Worker /\ ~job[s].fails
  /\ requests' = requests /\ crashes' = crashes

(* A job that is left as it is.                                            *)
LEMMA GrownSame ==
  ASSUME NEW j \in Job
  PROVE  Grown(j, j)
BY DEF Grown

(* A step of a session moves it.                                           *)
LEMMA StepMoves ==
  ASSUME TypeInv, NEW s \in Session, job[s].program # <<>>, NEW k, Varies(job[s], k),
         Step(s, k), requests' = requests, crashes' = crashes
  PROVE  /\ Moves(s, Left(k))
         /\ Left(k).id = k.id /\ Left(k).loaded = k.loaded /\ Left(k).could = job[s].could
<1> DEFINE j == job[s]
           l == Left(k)
<1>1. j \in Job /\ \A t \in Session : job[t] \in Job
  BY DEF TypeInv
<1>2. k \in Job /\ k.program # <<>>
  BY DEF Varies
<1>3. /\ l \in Job /\ Follows(k, l) /\ l.id = k.id /\ l.loaded = k.loaded /\ l.could = k.could
      /\ Len(k.program) = 1 => l.program = <<>>
  BY <1>2, LeftIs
<1>4. Follows(j, l)
  BY <1>3 DEF Follows, Varies
<1>5. Len(j.program) # 1 => l.program # <<>>
  <2>1. Len(l.program) = Len(j.program) - 1 /\ Len(j.program) \in Nat
    BY <1>4 DEF Follows
  <2>2. l.program = <<>> => Len(l.program) = 0
    OBVIOUS
  <2> QED BY <2>1, <2>2
<1>6. Rest(k) = IF Len(k.program) = 1 THEN Idle ELSE l
  BY DEF Rest, Left
<1>7. Rest(k) \in Job
  BY <1>3, <1>6, IdleIs
<1>8. job' = [job EXCEPT ![s] = Rest(k)]
  BY DEF Step
<1>9. /\ job' \in [Session -> Job] /\ job'[s] = Rest(k)
      /\ \A t \in Session \ {s} : job'[t] = job[t]
  BY <1>7, <1>8 DEF TypeInv
<1>10. \A t \in Session \ {s} : Grown(job[t], job'[t])
  BY <1>1, <1>9, GrownSame
<1>11. \/ job'[s] = Idle /\ l.program = <<>>
       \/ job'[s] = l /\ l.program # <<>>
  BY <1>3, <1>5, <1>6, <1>9 DEF Varies
<1>12. \/ answered' = answered
       \/ /\ answered' = answered \cup {job[s].request}
          /\ job'[s] = Idle /\ s \in Worker /\ ~job[s].fails
  BY <1>6, <1>9 DEF Step, Answered, Succeeds, Varies
<1>13. l.could = j.could
  BY <1>3 DEF Varies
<1>14. j.could \subseteq l.could
  BY <1>13
<1>15. Moves(s, l)
  BY <1>3, <1>4, <1>9, <1>10, <1>11, <1>12, <1>14 DEF Moves
<1> QED
  BY <1>3, <1>13, <1>15

(* What the stage does to the histories.                                   *)
Acts(s, l) ==
  LET st == job[s].program[1] IN
  /\ recorded \subseteq recorded'
  /\ \A r \in recorded' \ recorded :
       /\ st.do = "record" /\ r.request = job[s].request /\ r.kind = st.kind
       /\ r.action = st.what /\ r.id = job[s].id
  /\ st.do = "record" =>
       \E r \in recorded' : r.request = job[s].request /\ r.kind = st.kind /\ r.action = st.what
  /\ effects \subseteq effects'
  /\ \A e \in effects' \ effects : st.do \in Touching \cup Making /\ \E i : e = Did(s, i)
  /\ st.do \in Making => Did(s, l.id) \in effects'
  /\ st.do = "refresh" => l.id = job[s].id
  /\ st.do = "require" => st.kind \in l.could

(* A busy session runs the first stage of its program.                     *)
LEMMA Busy ==
  ASSUME TypeInv, NEW s \in Session, job[s].program # <<>>
  PROVE  LET st == job[s].program[1]
         IN  /\ job[s] \in Job /\ Now(s) = st /\ st \in StageType /\ job[s] # Idle
             /\ 1 \in 1 .. Len(job[s].program)
             /\ \A i : /\ Did(s, i).request = job[s].request /\ Did(s, i).kind = st.kind
                       /\ Did(s, i).id = i
                       /\ st.do \in Touching \cup Making =>
                            ActionFor(Did(s, i)) = Audit(st.do, st.kind)
                       /\ Did(s, i).allowed <=> s = Sweeper \/ CategoryOf(st.kind) \in job[s].could
<1>1. job[s] \in Job
  BY DEF TypeInv
<1>2. /\ job[s].program[1] \in StageType /\ Head(job[s].program) = job[s].program[1]
      /\ Follows(job[s], Left(job[s]))
  BY <1>1, LeftIs
<1>3. 1 \in 1 .. Len(job[s].program)
  BY <1>2 DEF Follows
<1>4. job[s] # Idle
  BY IdleIs
<1>5. Now(s) = job[s].program[1]
  BY <1>2 DEF Now
<1>6. \A i : /\ Did(s, i).request = job[s].request /\ Did(s, i).kind = Now(s).kind
             /\ Did(s, i).id = i /\ Did(s, i).act = Now(s).do
             /\ Did(s, i).allowed <=> s = Sweeper \/ CategoryOf(Now(s).kind) \in job[s].could
  BY DEF Did
<1>7. Now(s).do \in Touching \cup Making =>
        \A i : ActionFor(Did(s, i)) = Audit(Now(s).do, Now(s).kind)
  BY <1>6 DEF ActionFor, Audit, Touching, Making
<1> QED
  BY <1>1, <1>2, <1>3, <1>4, <1>5, <1>6, <1>7

(* The invariant of an idle session.                                       *)
LEMMA IdleFits ==
  ASSUME NEW E, NEW R, NEW who
  PROVE  /\ Shaped(Idle.program) /\ SweepShaped(Idle.program) /\ Distinct(Idle.program)
         /\ Gated(Idle.program, Idle.could) /\ Audits(Idle.program, Idle.request, R)
         /\ Explained(Idle, E, R) /\ Announces(Idle, E) /\ Loads(Idle, who)
<1>1. \A n : n \notin 1 .. Len(Idle.program)
  BY IdleIs
<1> QED
  BY <1>1, IdleIs DEF Shaped, SweepShaped, Distinct, Gated, Audits, Explained, Announces, Loads

(* Who is answered, and who runs what.                                     *)
LEMMA AnswersMove ==
  ASSUME RecordsInv, NEW s \in Session, job[s].program # <<>>, NEW l, Moves(s, l), Acts(s, l)
  PROVE  Answers'
<1>1. TypeInv /\ Answers
  BY DEF RecordsInv
<1>2. /\ job[s] # Idle /\ l.request = job[s].request /\ requests \in Nat
      /\ s \in Worker => job[s].request \in 1 .. requests
      /\ s \notin Worker => job[s].request = 0
  BY <1>1, Busy, RecordsBoundsAssumption DEF Moves, Follows, TypeInv, Session
<1>3. \A w \in Worker \ {s} : /\ job'[w].request = job[w].request
                              /\ job'[w] = Idle <=> job[w] = Idle
  BY DEF Moves, Grown, Session
<1>4. \A e \in effects' : e.request \in 0 .. requests'
  <2>1. \A e \in effects' \ effects : e.request = job[s].request
    BY <1>1, Busy DEF Acts
  <2>2. job[s].request \in 0 .. requests
    BY <1>2
  <2> QED BY <1>1, <2>1, <2>2 DEF Answers, Moves
<1>5. answered' \subseteq 1 .. requests'
  BY <1>1, <1>2 DEF Answers, Moves
<1>6. ASSUME NEW w \in Worker, job'[w] # Idle PROVE job'[w].request \notin answered'
  <2>1. CASE w = s
    <3>1. job'[s] = l /\ answered' = answered
      BY <1>6, <2>1 DEF Moves
    <3> QED BY <1>1, <1>2, <2>1, <3>1 DEF Answers
  <2>2. CASE w # s
    <3>1. job[w] # Idle /\ job'[w].request = job[w].request
      BY <1>3, <1>6, <2>2
    <3>2. job[w].request \notin answered
      BY <1>1, <3>1 DEF Answers
    <3>3. s \in Worker => job[w].request # job[s].request
      BY <1>1, <2>2, <3>1 DEF Answers
    <3> QED BY <3>1, <3>2, <3>3 DEF Moves
  <2> QED BY <2>1, <2>2
<1>7. ASSUME NEW v \in Worker, NEW w \in Worker, job'[v] # Idle,
             job'[v].request = job'[w].request
      PROVE  v = w
  <2>1. /\ job[v] # Idle /\ job'[v].request = job[v].request
        /\ job[v].request \in 1 .. requests
    BY <1>1, <1>2, <1>3, <1>7 DEF Moves, TypeInv
  <2>2. job'[w].request = job[w].request \/ job'[w].request = 0
    BY <1>2, <1>3, IdleIs DEF Moves
  <2>3. job'[w].request = job[w].request
    BY <1>7, <2>1, <2>2
  <2> QED BY <1>1, <1>7, <2>1, <2>3 DEF Answers
<1> QED
  BY <1>4, <1>5, <1>6, <1>7 DEF Answers

(* The programs of all sessions stay as the invariant has them.            *)
LEMMA ProgramsMove ==
  ASSUME RecordsInv, NEW s \in Session, job[s].program # <<>>, NEW l, Moves(s, l), Acts(s, l),
         \A w \in Worker : Remembers(w)'
  PROVE  /\ \A w \in Worker : WorkerInv(w)'
         /\ SweeperInv'
         /\ s \in Worker => Explained(l, effects', recorded')
<1> DEFINE j == job[s]
           st == j.program[1]
<1>1. /\ TypeInv /\ Answers /\ (\A w \in Worker : WorkerInv(w)) /\ SweeperInv
      /\ Follows(j, l) /\ j # Idle /\ j.could \subseteq l.could
  BY Busy DEF RecordsInv, Moves
<1>2. \A e \in effects' \ effects :
        /\ e.request = j.request /\ e.kind = st.kind /\ ActionFor(e) = Audit(st.do, st.kind)
        /\ st.do \in Touching \cup Making
  BY <1>1, Busy DEF Acts
<1>3. Announces(j, effects) => Announces(l, effects')
  <2>1. st.do \in Making =>
          \E e \in effects' : /\ e.request = j.request /\ e.kind = st.kind /\ e.id = l.id
                              /\ ActionFor(e) = Audit(st.do, st.kind)
    BY <1>1, Busy DEF Acts
  <2>2. effects \subseteq effects' /\ (st.do = "refresh" => l.id = j.id)
    BY DEF Acts
  <2> QED BY <1>1, <2>1, <2>2, AnnouncesRest
<1>4. ASSUME s \in Worker
      PROVE  /\ Shaped(l.program) /\ Gated(l.program, l.could)
             /\ Audits(l.program, l.request, recorded') /\ Explained(l, effects', recorded')
             /\ Announces(l, effects')
  <2>1. WorkerInv(s)
    BY <1>1, <1>4
  <2>2. Shaped(l.program)
    BY <1>1, <2>1, ShapedRest DEF WorkerInv
  <2>3. st.do \in Making => st.do \in Touching
    BY <1>1, <2>1, Busy DEF WorkerInv, Shaped, Touching, Making
  <2>4. Gated(l.program, l.could)
    <3>1. st.do = "require" => st.kind \in l.could
      BY DEF Acts
    <3> QED BY <1>1, <2>1, <3>1, GatedRest DEF WorkerInv
  <2>5. Audits(l.program, l.request, recorded') /\ Explained(l, effects', recorded')
    <3>1. /\ recorded \subseteq recorded'
          /\ st.do = "record" => \E r \in recorded' : /\ r.request = j.request
                                                      /\ r.kind = st.kind /\ r.action = st.what
      BY DEF Acts
    <3>2. \A e \in effects' \ effects : e.request = j.request =>
            /\ st.do \in Touching /\ e.kind = st.kind
            /\ ActionFor(e) = Audit(st.do, st.kind)
      BY <1>2, <2>3
    <3>3. Audits(j.program, j.request, recorded) /\ Explained(j, effects, recorded)
      BY <2>1 DEF WorkerInv
    <3>4. Follows(j, l)
      BY <1>1
    <3> HIDE DEF j, st
    <3> DEFINE S == recorded'
               F == effects'
    <3> HIDE DEF S, F
    <3>5. Audits(l.program, l.request, S) /\ Explained(l, F, S)
      BY <3>1, <3>2, <3>3, <3>4, AuditsRest DEF S, F, st
    <3> QED BY <3>5 DEF S, F
  <2> QED BY <1>3, <2>1, <2>2, <2>4, <2>5 DEF WorkerInv
<1>5. ASSUME NEW w \in Worker, w # s PROVE WorkerInv(w)'
  <2>1. /\ WorkerInv(w) /\ Remembers(w)'
        /\ job'[w].program = job[w].program /\ job'[w].request = job[w].request
        /\ job'[w].fails = job[w].fails /\ job'[w].id = job[w].id
        /\ job[w].could \subseteq job'[w].could
    BY <1>1, <1>5 DEF Moves, Grown, Session
  <2>2. recorded \subseteq recorded' /\ effects \subseteq effects'
    BY DEF Acts
  <2>3. Shaped(job'[w].program)
    BY <2>1 DEF WorkerInv
  <2>4. Gated(job'[w].program, job'[w].could)
    BY <2>1 DEF WorkerInv, Gated
  <2>5. \A action, kind : Logged(job[w].program, job[w].request, recorded, action, kind) =>
                          Logged(job'[w].program, job'[w].request, recorded', action, kind)
    BY <2>1, <2>2 DEF Logged
  <2>6. Audits(job'[w].program, job'[w].request, recorded')
    BY <2>1, <2>5 DEF WorkerInv, Audits
  <2>7. Explained(job'[w], effects', recorded')
    <3> SUFFICES ASSUME job[w].request # 0, ~job[w].fails, NEW e \in effects',
                        e.request = job[w].request
                 PROVE  Logged(job'[w].program, job'[w].request, recorded', ActionFor(e), e.kind)
      BY <2>1 DEF Explained
    <3>1. e \in effects
      <4>1. ASSUME e \notin effects PROVE FALSE
        <5>1. j.request = job[w].request /\ j.request # 0
          BY <1>2, <4>1
        <5>2. s \in Worker
          BY <1>1, <5>1 DEF TypeInv, Session
        <5> QED BY <1>1, <1>5, <5>1, <5>2 DEF Answers
      <4> QED BY <4>1
    <3> QED BY <2>1, <2>5, <3>1 DEF WorkerInv, Explained
  <2>8. Announces(job'[w], effects')
    <3>1. \A st2 : Announced(st2, job[w], effects) => Announced(st2, job'[w], effects')
      BY <2>1, <2>2 DEF Announced
    <3> QED BY <2>1, <3>1 DEF WorkerInv, Announces
  <2> QED BY <2>1, <2>3, <2>4, <2>6, <2>7, <2>8 DEF WorkerInv
<1>6. ASSUME s \in Worker PROVE WorkerInv(s)'
  <2>1. CASE job'[s] = Idle
    <3>1. Remembers(s)'
      BY <1>6
    <3> QED BY <2>1, <3>1, IdleFits DEF WorkerInv
  <2>2. CASE job'[s] = l
    BY <1>4, <1>6, <2>2 DEF WorkerInv
  <2> QED BY <2>1, <2>2 DEF Moves
<1>7. SweeperInv'
  <2>1. CASE s = Sweeper
    <3>1. SweepShaped(l.program) /\ Announces(l, effects')
      BY <1>1, <1>3, <2>1, ShapedRest DEF SweeperInv
    <3>2. CASE job'[s] = Idle
      BY <2>1, <3>2, IdleFits DEF SweeperInv
    <3>3. CASE job'[s] = l
      BY <2>1, <3>1, <3>3 DEF SweeperInv
    <3> QED BY <3>2, <3>3 DEF Moves
  <2>2. CASE s # Sweeper
    <3>1. /\ job'[Sweeper].program = job[Sweeper].program
          /\ job'[Sweeper].request = job[Sweeper].request
          /\ job'[Sweeper].id = job[Sweeper].id
      BY <2>2 DEF Moves, Grown, Session
    <3>2. \A st2 : Announced(st2, job[Sweeper], effects) =>
                   Announced(st2, job'[Sweeper], effects')
      BY <3>1 DEF Announced, Acts
    <3> QED BY <1>1, <3>1, <3>2 DEF SweeperInv, Announces
  <2> QED BY <2>1, <2>2
<1> QED
  BY <1>4, <1>5, <1>6, <1>7

(* The audit log and what was done still agree, and no consent was missing.*)
LEMMA HistoriesMove ==
  ASSUME RecordsInv, NEW s \in Session, job[s].program # <<>>, NEW l, Moves(s, l), Acts(s, l),
         s \in Worker => Explained(l, effects', recorded')
  PROVE  AuditAgreesWithEffects' /\ ConsentBehindEffects'
<1> DEFINE j == job[s]
           st == j.program[1]
<1>1. /\ TypeInv /\ Answers /\ (\A w \in Worker : WorkerInv(w)) /\ SweeperInv
      /\ AuditAgreesWithEffects /\ ConsentBehindEffects
      /\ l.request = j.request /\ l.fails = j.fails /\ j # Idle /\ 1 \in 1 .. Len(j.program)
  BY Busy DEF RecordsInv, Moves, Follows
<1>2. \A e \in effects' \ effects :
        /\ e.request = j.request /\ st.do \in Touching \cup Making
        /\ e.allowed <=> s = Sweeper \/ CategoryOf(st.kind) \in j.could
  BY <1>1, Busy DEF Acts
<1>3. ASSUME NEW e \in effects', e.request \in answered'
      PROVE  \E r \in recorded' : /\ r.request = e.request /\ r.kind = e.kind
                                  /\ r.action = ActionFor(e)
  <2>1. CASE e \in effects /\ e.request \in answered
    BY <1>1, <2>1 DEF AuditAgreesWithEffects, Acts
  <2>2. CASE e \notin effects /\ e.request \in answered
    <3>1. j.request \in answered
      BY <1>2, <2>2
    <3> QED BY <1>1, <3>1 DEF Answers, TypeInv, Session
  <2>3. CASE e.request \notin answered
    <3>1. /\ e.request = j.request /\ job'[s] = Idle /\ s \in Worker /\ ~j.fails
          /\ answered' # answered
      BY <1>3, <2>3 DEF Moves
    <3>2. l.program = <<>>
      BY <3>1, IdleIs DEF Moves
    <3>3. j.request # 0
      BY <1>1, <3>1 DEF TypeInv
    <3>4. Logged(l.program, j.request, recorded', ActionFor(e), e.kind)
      BY <1>1, <3>1, <3>3 DEF Explained
    <3>5. \A m : m \notin 1 .. Len(l.program)
      BY <3>2
    <3> QED BY <3>1, <3>4, <3>5 DEF Logged
  <2> QED BY <2>1, <2>2, <2>3
<1>4. ASSUME NEW r \in recorded', r.action \in {"CREATED", "FIRED"}
      PROVE  \E e \in effects' : /\ e.request = r.request /\ e.kind = r.kind /\ e.id = r.id
                                  /\ ActionFor(e) = r.action
  <2>1. CASE r \in recorded
    BY <1>1, <1>4, <2>1 DEF AuditAgreesWithEffects, Acts
  <2>2. CASE r \notin recorded
    <3>1. /\ st.do = "record" /\ r.request = j.request /\ r.kind = st.kind
          /\ r.action = st.what /\ r.id = j.id
      BY <2>2 DEF Acts
    <3>2. Announces(j, effects)
      BY <1>1 DEF WorkerInv, SweeperInv, Session
    <3>3. Announced(st, j, effects)
      BY <1>1, <1>4, <3>1, <3>2 DEF Announces, JustMade
    <3> QED BY <3>1, <3>3 DEF Announced, Acts
  <2> QED BY <2>1, <2>2
<1>5. ASSUME NEW e \in effects' PROVE e.allowed
  <2>1. CASE e \in effects
    BY <1>1, <2>1 DEF ConsentBehindEffects
  <2>2. CASE e \notin effects /\ s \in Worker
    <3>1. Shaped(j.program) /\ Gated(j.program, j.could)
      BY <1>1, <2>2 DEF WorkerInv
    <3>2. st.do \in Touching
      BY <1>1, <1>2, <2>2, <3>1 DEF Shaped, Touching, Making
    <3>3. CategoryOf(st.kind) \in j.could
      BY <1>1, <3>1, <3>2 DEF Gated
    <3> QED BY <1>2, <2>2, <3>3
  <2>3. CASE e \notin effects /\ s = Sweeper
    BY <1>2, <2>3
  <2> QED BY <2>1, <2>2, <2>3 DEF Session
<1> QED
  BY <1>3, <1>4, <1>5 DEF AuditAgreesWithEffects, ConsentBehindEffects

(* What may happen to the rows: none changes hands, and session s may make *)
(* rows of its request.                                                    *)
Kept(k) ==
  /\ k \in DOMAIN table
  /\ table'[k].owner = table[k].owner /\ table'[k].made = table[k].made
MadeBy(s, k) ==
  s \in Worker /\ table'[k].owner = job[s].user /\ table'[k].made = job[s].request
RowsMove(s) ==
  \A k \in DOMAIN table' : k \in Kind \X Id /\ table'[k] \in Row /\ (Kept(k) \/ MadeBy(s, k))

(* Types.                                                                  *)
LEMMA TypesMove ==
  ASSUME TypeInv, NEW s \in Session, job[s].program # <<>>, NEW l, Moves(s, l), RowsMove(s),
         consent' \in [User -> [Category -> {"none", "granted", "denied"}]]
  PROVE  TypeInv'
<1>1. /\ l.user = job[s].user /\ l.request = job[s].request /\ job[s] # Idle
      /\ requests' = requests /\ crashes' = crashes /\ job' \in [Session -> Job]
  BY Busy DEF Moves, Follows
<1>2. \A t \in Session \ {s} :
        /\ job'[t].program = job[t].program /\ job'[t].user = job[t].user
        /\ job'[t].request = job[t].request /\ (job'[t] # Idle => job[t] # Idle)
  BY DEF Moves, Grown
<1>3. job'[s] = Idle \/ (job'[s] = l /\ l.program # <<>>)
  BY DEF Moves
<1>4. \A k \in DOMAIN table' : table'[k] \in Row /\ table'[k].made <= requests'
  <2> SUFFICES ASSUME NEW k \in DOMAIN table' PROVE table'[k].made <= requests
    BY <1>1 DEF RowsMove
  <2>1. CASE Kept(k)
    BY <2>1 DEF Kept, TypeInv
  <2>2. CASE MadeBy(s, k)
    <3>1. job[s].request \in 1 .. requests /\ requests \in Nat
      BY <1>1, <2>2, RecordsBoundsAssumption DEF MadeBy, TypeInv
    <3> QED BY <2>2, <3>1 DEF MadeBy
  <2> QED BY <2>1, <2>2 DEF RowsMove
<1>5. \A t \in Session : job'[t] # Idle => job'[t].program # <<>>
  BY <1>2, <1>3 DEF TypeInv
<1>6. \A w \in Worker : job'[w] # Idle =>
        job'[w].user \in User /\ job'[w].request \in 1 .. requests'
  BY <1>1, <1>2, <1>3 DEF TypeInv, Session
<1>7. job'[Sweeper].user = 0 /\ job'[Sweeper].request = 0
  BY <1>1, <1>2, <1>3, IdleIs DEF TypeInv, Session
<1>8. DOMAIN table' \subseteq Kind \X Id
  BY DEF RowsMove
<1> QED
  BY <1>1, <1>4, <1>5, <1>6, <1>7, <1>8 DEF TypeInv

(* A consent that stays as it is is remembered.                            *)
LEMMA RemembersMove ==
  ASSUME RecordsInv, NEW s \in Session, NEW l, Moves(s, l), consent' = consent
  PROVE  \A w \in Worker : Remembers(w)'
<1> SUFFICES ASSUME NEW w \in Worker, job'[w].user # 0
             PROVE  Granted(job[w].user)' \subseteq job'[w].could
  BY DEF Remembers
<1>1. job'[w].user = job[w].user /\ job[w].could \subseteq job'[w].could
  BY IdleIs DEF Moves, Follows, Grown, Session
<1>2. Granted(job[w].user)' = Granted(job[w].user)
  BY <1>1 DEF Granted
<1>3. Granted(job[w].user) \subseteq job[w].could
  BY <1>1 DEF RecordsInv, WorkerInv, Remembers
<1> QED
  BY <1>1, <1>2, <1>3

(* Whose the rows and the requests are.                                    *)
LEMMA OwnedMoves ==
  ASSUME TypeInv, NEW s \in Session, job[s].program # <<>>, NEW l, Moves(s, l), RowsMove(s),
         NEW who, Owned(who),
         s \in Worker /\ job[s].program[1].do \notin Taking =>
           l.id = job[s].id /\ l.loaded = job[s].loaded,
         s \in Worker /\ job[s].program[1].do \in Taking => Loaded(l, job[s].program[1].kind, who)
  PROVE  Owned(who)'
<1>1. \A j, kind : Loaded(j, kind, who)' <=> Loaded(j, kind, who)
  BY DEF Loaded, Moves
<1>2. ASSUME NEW k \in DOMAIN table'
      PROVE  IF table'[k].made = 0
             THEN /\ k[1] = "reminder" /\ k[2] \in DOMAIN Existing
                  /\ table'[k].owner = Existing[k[2]]
             ELSE table'[k].owner = who[table'[k].made]
  <2>1. CASE Kept(k)
    BY <2>1 DEF Kept, Owned
  <2>2. CASE MadeBy(s, k)
    <3>1. job[s].request # 0 /\ who[job[s].request] = job[s].user
      BY <2>2, Busy DEF MadeBy, TypeInv, Owned
    <3> QED BY <2>2, <3>1 DEF MadeBy
  <2> QED BY <1>2, <2>1, <2>2 DEF RowsMove
<1>3. ASSUME NEW w \in Worker
      PROVE  /\ job'[w].request # 0 => who[job'[w].request] = job'[w].user
             /\ Loads(job'[w], who)
  <2>0. /\ job[w].request # 0 => who[job[w].request] = job[w].user
        /\ Loads(job[w], who)
    BY DEF Owned
  <2>1. CASE w # s
    <3>1. Grown(job[w], job'[w])
      BY <2>1 DEF Moves, Session
    <3>2. \A kind : Loaded(job'[w], kind, who) <=> Loaded(job[w], kind, who)
      BY <3>1 DEF Grown, Loaded
    <3> QED BY <2>0, <3>1, <3>2 DEF Grown, Loads
  <2>2. CASE w = s /\ job'[s] = Idle
    BY <2>2, IdleIs, IdleFits
  <2>3. CASE w = s /\ job'[s] = l
    <3>1. Follows(job[s], l)
      BY DEF Moves
    <3>2. Loads(l, who)
      BY <2>0, <2>3, <3>1, LoadsRest
    <3> QED BY <2>0, <2>3, <3>1, <3>2 DEF Follows
  <2> QED BY <2>1, <2>2, <2>3 DEF Moves
<1>4. \A w \in Worker : Loads(job'[w], who) => Loads(job[w], who)'
  BY <1>1 DEF Loads
<1> QED
  BY <1>2, <1>3, <1>4 DEF Owned

(* Who touches a row by its primary key has found it, or a later one.      *)
LEMMA OwnersMove ==
  ASSUME RecordsInv, NEW s \in Session, job[s].program # <<>>,
         LET st == job[s].program[1]
         IN  \A e \in effects' \ effects : \E i :
               /\ e = Did(s, i)
               /\ \/ s = Sweeper
                  \/ st.do \in {"write", "delete"} /\ i = job[s].id
                  \/ <<st.kind, i>> \notin DOMAIN table
  PROVE  ChangesOwn'
<1> DEFINE j == job[s]
           st == j.program[1]
<1>1. TypeInv /\ ChangesOwn /\ 1 \in 1 .. Len(j.program) /\ Now(s) = st
  BY Busy DEF RecordsInv
<1> SUFFICES ASSUME NEW e \in effects', e \notin effects, e.foreign, ~e.reborn
             PROVE  FALSE
  BY <1>1 DEF ChangesOwn
<1>2. PICK i : /\ e = Did(s, i)
               /\ \/ s = Sweeper
                  \/ st.do \in {"write", "delete"} /\ i = job[s].id
                  \/ <<st.kind, i>> \notin DOMAIN table
  OBVIOUS
<1>3. /\ s # Sweeper /\ <<st.kind, i>> \in DOMAIN table
      /\ table[<<st.kind, i>>].owner # j.user
      /\ table[<<st.kind, i>>].made = j.loaded.made
  BY <1>1, <1>2 DEF Did
<1>4. st.do \in {"write", "delete"} /\ i = j.id /\ s \in Worker
  BY <1>2, <1>3 DEF Session
<1>5. PICK who \in [1 .. MaxRequests -> User \cup {0}] : Owned(who)
  BY DEF RecordsInv
<1>6. Loaded(j, st.kind, who)
  BY <1>1, <1>4, <1>5 DEF Owned, Loads, HasRow, Using
<1>7. CASE j.loaded.made = 0
  <2>1. i \in DOMAIN Existing /\ Existing[i] = j.user
    BY <1>4, <1>6, <1>7 DEF Loaded
  <2>2. table[<<st.kind, i>>].owner = Existing[i]
    BY <1>3, <1>5, <1>7 DEF Owned
  <2> QED BY <1>3, <2>1, <2>2
<1>8. CASE j.loaded.made # 0
  BY <1>3, <1>5, <1>6, <1>8 DEF Loaded, Owned
<1> QED
  BY <1>7, <1>8

(* A stage keeps the invariant.                                            *)
LEMMA StageKeeps ==
  ASSUME RecordsInv, NEW s \in Session, job[s].program # <<>>, NEW l, Moves(s, l), Acts(s, l),
         RowsMove(s), \A w \in Worker : Remembers(w)',
         consent' \in [User -> [Category -> {"none", "granted", "denied"}]],
         LET st == job[s].program[1]
         IN  /\ s \in Worker /\ st.do \notin Taking =>
                  l.id = job[s].id /\ l.loaded = job[s].loaded
             /\ st.do \in Taking => \A who \in [1 .. MaxRequests -> User \cup {0}] :
                                       Owned(who) => Loaded(l, st.kind, who)
             /\ \A e \in effects' \ effects : \E i :
                  /\ e = Did(s, i)
                  /\ \/ s = Sweeper
                     \/ st.do \in {"write", "delete"} /\ i = job[s].id
                     \/ <<st.kind, i>> \notin DOMAIN table
  PROVE  RecordsInv'
<1>1. TypeInv'
  BY TypesMove DEF RecordsInv
<1>2. Answers'
  BY AnswersMove
<1>3. /\ \A w \in Worker : WorkerInv(w)'
      /\ SweeperInv'
      /\ s \in Worker => Explained(l, effects', recorded')
  BY ProgramsMove
<1>4. AuditAgreesWithEffects' /\ ConsentBehindEffects'
  BY <1>3, HistoriesMove
<1>5. \E who \in [1 .. MaxRequests -> User \cup {0}] : Owned(who)'
  <2>1. PICK who \in [1 .. MaxRequests -> User \cup {0}] : Owned(who)
    BY DEF RecordsInv
  <2> QED BY <2>1, OwnedMoves DEF RecordsInv
<1>6. ChangesOwn'
  BY OwnersMove
<1> QED
  BY <1>1, <1>2, <1>3, <1>4, <1>5, <1>6 DEF RecordsInv

-----------------------------------------------------------------------------
(* What a session may become without running a stage: idle, or refused     *)
(* with nothing left but a record of it.                                   *)
Refused(j, k) ==
  /\ k \in Job /\ k.user = j.user /\ k.request = j.request /\ k.could = j.could
  /\ k.fails = TRUE /\ Len(k.program) = 1 /\ j # Idle
  /\ k.program[1].do = "record" /\ k.program[1].what = "CONSENT_BLOCKED"

Settles(s, k) == k = Idle \/ Grown(job[s], k) \/ (s \in Worker /\ Refused(job[s], k))

LEMMA SettlingKeeps ==
  ASSUME RecordsInv, job' \in [Session -> Job], \A t \in Session : Settles(t, job'[t]),
         \A k \in DOMAIN table' : table'[k] \in Row /\ Kept(k),
         crashes' \in 0 .. MaxCrashes,
         UNCHANGED <<consent, requests, effects, recorded, answered>>
  PROVE  RecordsInv'
<1>1. /\ TypeInv /\ Answers /\ (\A w \in Worker : WorkerInv(w)) /\ SweeperInv
      /\ AuditAgreesWithEffects /\ ConsentBehindEffects /\ ChangesOwn
  BY DEF RecordsInv
<1>2. \A t \in Session :
        \/ job'[t] = Idle
        \/ /\ job'[t].user = job[t].user /\ job'[t].request = job[t].request
           /\ job[t].could \subseteq job'[t].could /\ job[t] # Idle
           /\ job'[t].program # <<>>
  <2> SUFFICES ASSUME NEW t \in Session, job'[t] # Idle
               PROVE  /\ job'[t].user = job[t].user /\ job'[t].request = job[t].request
                      /\ job[t].could \subseteq job'[t].could /\ job[t] # Idle
                      /\ job'[t].program # <<>>
    OBVIOUS
  <2>1. CASE Grown(job[t], job'[t])
    BY <1>1, <2>1 DEF Grown, TypeInv
  <2>2. CASE Refused(job[t], job'[t])
    <3>1. job'[t].program = <<>> => Len(job'[t].program) = 0
      OBVIOUS
    <3> QED BY <2>2, <3>1 DEF Refused
  <2> QED BY <2>1, <2>2 DEF Settles
<1>3. TypeInv'
  <2>1. \A w \in Worker : job'[w] # Idle =>
          job'[w].user \in User /\ job'[w].request \in 1 .. requests'
    BY <1>1, <1>2 DEF TypeInv, Session
  <2>2. job'[Sweeper].user = 0 /\ job'[Sweeper].request = 0
    BY <1>1, <1>2, IdleIs DEF TypeInv, Session
  <2>3. DOMAIN table' \subseteq Kind \X Id
        /\ \A k \in DOMAIN table' : table'[k] \in Row /\ table'[k].made <= requests'
    BY <1>1 DEF TypeInv, Kept
  <2> QED BY <1>1, <1>2, <2>1, <2>2, <2>3 DEF TypeInv
<1>4. Answers'
  <2>1. ASSUME NEW v \in Worker, NEW w \in Worker, job'[v] # Idle,
               job'[v].request = job'[w].request
        PROVE  v = w
    <3>1. job[v] # Idle /\ job'[v].request = job[v].request /\ job[v].request \in 1 .. requests
      BY <1>1, <1>2, <2>1 DEF Session, TypeInv
    <3>2. job'[w].request = job[w].request
      <4>1. job'[w].request = job[w].request \/ job'[w].request = 0
        BY <1>2, IdleIs DEF Session
      <4>2. job'[w].request # 0
        BY <2>1, <3>1
      <4> QED BY <4>1, <4>2
    <3> QED BY <1>1, <2>1, <3>1, <3>2 DEF Answers
  <2>2. \A w \in Worker : job'[w] # Idle => job'[w].request \notin answered'
    BY <1>1, <1>2 DEF Answers, Session
  <2> QED BY <1>1, <2>1, <2>2 DEF Answers
<1>5. ASSUME NEW w \in Worker PROVE WorkerInv(w)'
  <2>1. Remembers(w)'
    <3>1. job'[w].user # 0 => /\ job'[w].user = job[w].user
                              /\ job[w].could \subseteq job'[w].could
      BY <1>2, IdleIs DEF Session
    <3> QED BY <1>1, <1>5, <3>1 DEF WorkerInv, Remembers, Granted
  <2>2. CASE job'[w] = Idle
    BY <2>1, <2>2, IdleFits DEF WorkerInv
  <2>3. CASE Grown(job[w], job'[w])
    <3>1. /\ job'[w].program = job[w].program /\ job'[w].request = job[w].request
          /\ job'[w].fails = job[w].fails /\ job'[w].id = job[w].id
          /\ job[w].could \subseteq job'[w].could
      BY <2>3 DEF Grown
    <3>2. Shaped(job'[w].program) /\ Audits(job'[w].program, job'[w].request, recorded')
      BY <1>1, <3>1 DEF WorkerInv
    <3>3. Gated(job'[w].program, job'[w].could)
      BY <1>1, <3>1 DEF WorkerInv, Gated
    <3>4. Explained(job'[w], effects', recorded') /\ Announces(job'[w], effects')
      BY <1>1, <3>1 DEF WorkerInv, Explained, Announces, Announced
    <3> QED BY <2>1, <3>2, <3>3, <3>4 DEF WorkerInv
  <2>4. CASE Refused(job[w], job'[w])
    <3>1. \A n \in 1 .. Len(job'[w].program) :
            /\ n = 1 /\ job'[w].program[n].do = "record"
            /\ job'[w].program[n].what = "CONSENT_BLOCKED"
      BY <2>4 DEF Refused
    <3>2. job'[w].fails = TRUE
      BY <2>4 DEF Refused
    <3>3. Shaped(job'[w].program)
      BY <3>1 DEF Shaped, Touching
    <3>4. Gated(job'[w].program, job'[w].could)
      BY <3>1 DEF Gated, Touching
    <3>5. Audits(job'[w].program, job'[w].request, recorded')
      BY <3>1 DEF Audits, Touching
    <3>6. Announces(job'[w], effects')
      BY <3>1 DEF Announces
    <3>7. Explained(job'[w], effects', recorded')
      BY <3>2 DEF Explained
    <3> QED BY <2>1, <3>3, <3>4, <3>5, <3>6, <3>7 DEF WorkerInv
  <2> QED BY <2>2, <2>3, <2>4 DEF Settles, Session
<1>6. SweeperInv'
  <2>1. CASE job'[Sweeper] = Idle
    BY <2>1, IdleFits DEF SweeperInv
  <2>2. CASE Grown(job[Sweeper], job'[Sweeper])
    BY <1>1, <2>2 DEF Grown, SweeperInv, Announces, Announced
  <2> QED BY <2>1, <2>2, SweeperAssumption DEF Settles, Session
<1>7. \E who \in [1 .. MaxRequests -> User \cup {0}] : Owned(who)'
  <2>1. PICK who \in [1 .. MaxRequests -> User \cup {0}] : Owned(who)
    BY DEF RecordsInv
  <2>2. \A j, kind : Loaded(j, kind, who)' <=> Loaded(j, kind, who)
    BY DEF Loaded
  <2>3. ASSUME NEW w \in Worker
        PROVE  /\ job'[w].request # 0 => who[job'[w].request] = job'[w].user
               /\ Loads(job'[w], who)
    <3>1. CASE job'[w] = Idle
      BY <3>1, IdleIs, IdleFits
    <3>2. CASE Grown(job[w], job'[w])
      <4>1. \A kind : Loaded(job'[w], kind, who) <=> Loaded(job[w], kind, who)
        BY <3>2 DEF Grown, Loaded
      <4> QED BY <2>1, <3>2, <4>1 DEF Owned, Grown, Loads
    <3>3. CASE Refused(job[w], job'[w])
      BY <2>1, <3>3 DEF Owned, Refused, Loads, Using
    <3> QED BY <3>1, <3>2, <3>3 DEF Settles, Session
  <2>4. \A w \in Worker : Loads(job'[w], who) => Loads(job[w], who)'
    BY <2>2 DEF Loads
  <2>5. \A k \in DOMAIN table' :
          IF table'[k].made = 0
          THEN /\ k[1] = "reminder" /\ k[2] \in DOMAIN Existing
               /\ table'[k].owner = Existing[k[2]]
          ELSE table'[k].owner = who[table'[k].made]
    BY <2>1 DEF Owned, Kept
  <2> QED BY <2>3, <2>4, <2>5 DEF Owned
<1>8. AuditAgreesWithEffects' /\ ConsentBehindEffects' /\ ChangesOwn'
  BY <1>1 DEF AuditAgreesWithEffects, ConsentBehindEffects, ChangesOwn
<1> QED
  BY <1>3, <1>4, <1>5, <1>6, <1>7, <1>8 DEF RecordsInv

-----------------------------------------------------------------------------
(* The stages.  Rows that stay as they are.                                *)
LEMMA RowsSame ==
  ASSUME TypeInv, NEW s \in Session, table' = table
  PROVE  RowsMove(s)
BY DEF TypeInv, RowsMove, Kept

(* A stage that no history tells of.                                       *)
LEMMA QuietKeeps ==
  ASSUME RecordsInv, NEW s \in Session, job[s].program # <<>>, NEW k, Varies(job[s], k),
         Step(s, k), RowsMove(s), UNCHANGED <<consent, requests, crashes, effects, recorded>>,
         LET st == job[s].program[1]
         IN  /\ st.do \notin Making \cup {"record"}
             /\ st.do \in {"refresh", "require"} => k = job[s]
             /\ st.do = "require" => st.kind \in job[s].could
             /\ s \in Worker /\ st.do \notin Taking =>
                  k.id = job[s].id /\ k.loaded = job[s].loaded
             /\ st.do \in Taking => \A who \in [1 .. MaxRequests -> User \cup {0}] :
                                       Owned(who) => Loaded(k, st.kind, who)
  PROVE  RecordsInv'
<1> DEFINE l == Left(k)
           st == job[s].program[1]
<1>1. TypeInv /\ consent \in [User -> [Category -> {"none", "granted", "denied"}]]
  BY DEF RecordsInv, TypeInv
<1>2. /\ Moves(s, l) /\ l.id = k.id /\ l.loaded = k.loaded /\ l.could = job[s].could
      /\ l.user = job[s].user
  BY <1>1, StepMoves DEF Moves, Follows
<1> HIDE DEF l
<1>3. Acts(s, l)
  BY <1>2 DEF Acts
<1>4. \A w \in Worker : Remembers(w)'
  BY <1>2, RemembersMove
<1>5. \A who, kind : Loaded(k, kind, who) => Loaded(l, kind, who)
  BY <1>2 DEF Loaded, Varies
<1> QED
  BY <1>1, <1>2, <1>3, <1>4, <1>5, StageKeeps

(* A stage that does something to a table.                                 *)
LEMMA EffectKeeps ==
  ASSUME RecordsInv, NEW s \in Session, job[s].program # <<>>, NEW k, Varies(job[s], k),
         Step(s, k), RowsMove(s), UNCHANGED <<consent, requests, crashes, recorded>>,
         NEW i, Effect(s, i),
         LET st == job[s].program[1]
         IN  /\ st.do \in Touching \cup Making
             /\ st.do \in Making => i = k.id
             /\ s \in Worker /\ st.do \notin Taking =>
                  k.id = job[s].id /\ k.loaded = job[s].loaded
             /\ st.do \in Taking => \A who \in [1 .. MaxRequests -> User \cup {0}] :
                                       Owned(who) => Loaded(k, st.kind, who)
             /\ \/ s = Sweeper
                \/ st.do \in {"write", "delete"} /\ i = job[s].id
                \/ <<st.kind, i>> \notin DOMAIN table
  PROVE  RecordsInv'
<1> DEFINE l == Left(k)
           st == job[s].program[1]
<1>1. TypeInv /\ consent \in [User -> [Category -> {"none", "granted", "denied"}]]
  BY DEF RecordsInv, TypeInv
<1>2. Moves(s, l) /\ l.id = k.id /\ l.loaded = k.loaded /\ l.user = job[s].user
  BY <1>1, StepMoves DEF Moves, Follows
<1> HIDE DEF l
<1>3. effects' = effects \cup {Did(s, i)}
  BY DEF Effect
<1>4. st.do \notin {"record", "refresh", "require", "get"}
  BY DEF Touching, Making
<1>5. Acts(s, l)
  BY <1>2, <1>3, <1>4 DEF Acts
<1>6. \A w \in Worker : Remembers(w)'
  BY <1>2, RemembersMove
<1>7. \A e \in effects' \ effects : \E n :
        /\ e = Did(s, n)
        /\ \/ s = Sweeper
           \/ st.do \in {"write", "delete"} /\ n = job[s].id
           \/ <<st.kind, n>> \notin DOMAIN table
  BY <1>3
<1>8. \A who, kind : Loaded(k, kind, who) => Loaded(l, kind, who)
  BY <1>2 DEF Loaded, Varies
<1> QED
  BY <1>1, <1>2, <1>4, <1>5, <1>6, <1>7, <1>8, StageKeeps

(* A session that gives up.                                                *)
LEMMA FailKeeps ==
  ASSUME RecordsInv, NEW s \in Session, Fail(s),
         UNCHANGED <<consent, table, requests, crashes, effects, recorded>>
  PROVE  RecordsInv'
<1>1. TypeInv
  BY DEF RecordsInv
<1>2. job' = [job EXCEPT ![s] = Idle] /\ answered' = answered
  BY DEF Fail
<1>3. job' \in [Session -> Job] /\ \A t \in Session : Settles(t, job'[t])
  BY <1>1, <1>2, IdleIs, GrownSame DEF TypeInv, Settles
<1>4. /\ \A k \in DOMAIN table' : table'[k] \in Row /\ Kept(k)
      /\ crashes' \in 0 .. MaxCrashes
  BY <1>1 DEF TypeInv, Kept
<1> QED
  BY <1>2, <1>3, <1>4, SettlingKeeps

LEMMA RequireKeeps ==
  ASSUME RecordsInv, NEW s \in Session, Require(s)
  PROVE  RecordsInv'
<1> DEFINE j == job[s]
           st == j.program[1]
<1>1. TypeInv /\ j.program # <<>>
  BY DEF RecordsInv, Require, At
<1>2. Now(s) = st /\ st.do = "require" /\ j \in Job /\ j # Idle /\ 1 \in 1 .. Len(j.program)
  BY <1>1, Busy DEF Require, At
<1>3. s \in Worker /\ st.kind \in Category /\ j.user \in User
  <2>1. s # Sweeper
    BY <1>2 DEF RecordsInv, SweeperInv, SweepShaped
  <2>2. s \in Worker
    BY <2>1 DEF Session
  <2>3. st.kind \in Category
    BY <1>2, <2>2 DEF RecordsInv, WorkerInv, Shaped
  <2> QED BY <1>1, <1>2, <2>2, <2>3 DEF TypeInv
<1>4. CASE consent[j.user][st.kind] = "granted"
  <2>1. st.kind \in j.could
    BY <1>3, <1>4, RecordsBoundsAssumption DEF RecordsInv, WorkerInv, Remembers, Granted
  <2>2. Step(s, j) /\ UNCHANGED <<consent, table, requests, crashes, effects, recorded>>
    BY <1>2, <1>4 DEF Require
  <2>3. Varies(j, j)
    BY <1>2 DEF Varies
  <2> QED BY <1>1, <1>2, <2>1, <2>2, <2>3, RowsSame, QuietKeeps DEF Making, Taking
<1>5. CASE consent[j.user][st.kind] # "granted"
  <2>1. /\ job' = [job EXCEPT ![s] = Blocked(j, st.kind)]
        /\ UNCHANGED <<consent, table, requests, crashes, effects, recorded, answered>>
    BY <1>1, <1>2, <1>5 DEF Require, Blocked, TypeInv
  <2>2. Blocked(j, st.kind) \in Job /\ Refused(j, Blocked(j, st.kind))
    BY <1>2, <1>3, BlockedIs DEF Refused
  <2>3. job' \in [Session -> Job] /\ \A t \in Session : Settles(t, job'[t])
    BY <1>1, <1>3, <2>1, <2>2, GrownSame DEF TypeInv, Settles
  <2>4. /\ \A k \in DOMAIN table' : table'[k] \in Row /\ Kept(k)
        /\ crashes' \in 0 .. MaxCrashes
    BY <1>1, <2>1 DEF TypeInv, Kept
  <2> QED BY <2>1, <2>3, <2>4, SettlingKeeps
<1> QED
  BY <1>4, <1>5

LEMMA GetKeeps ==
  ASSUME RecordsInv, NEW s \in Session, Get(s)
  PROVE  RecordsInv'
<1> DEFINE j == job[s]
           st == j.program[1]
           key == <<st.kind, st.id>>
           k == Found(j, st.id, table[key])
<1>1. TypeInv /\ j.program # <<>>
  BY DEF RecordsInv, Get, At
<1>2. Now(s) = st /\ st.do = "get" /\ j \in Job
  BY <1>1, Busy DEF Get, At
<1>3. CASE key \in DOMAIN table /\ table[key].owner = j.user
  <2>1. st.id \in Id /\ table[key] \in Row /\ table[key].made <= requests
    BY <1>1, <1>3 DEF TypeInv
  <2>2. Varies(j, k) /\ k.id = st.id /\ k.loaded = table[key] /\ k.user = j.user
    BY <1>2, <2>1, FoundIs DEF Varies
  <2>3. Step(s, k) /\ UNCHANGED <<consent, table, requests, crashes, effects, recorded>>
    BY <1>2, <1>3 DEF Get, Found
  <2>4. ASSUME NEW who \in [1 .. MaxRequests -> User \cup {0}], Owned(who)
        PROVE  Loaded(k, st.kind, who)
    BY <1>3, <2>1, <2>2, <2>4 DEF Owned, Loaded
  <2> HIDE DEF k
  <2> QED BY <1>1, <1>2, <2>2, <2>3, <2>4, RowsSame, QuietKeeps DEF Making, Taking
<1>4. CASE ~(key \in DOMAIN table /\ table[key].owner = j.user)
  <2>1. Fail(s) /\ UNCHANGED <<consent, table, requests, crashes, effects, recorded>>
    BY <1>2, <1>4 DEF Get
  <2> QED BY <2>1, FailKeeps
<1> QED
  BY <1>3, <1>4

(* A worker at a stage.                                                    *)
LEMMA AtWork ==
  ASSUME RecordsInv, NEW s \in Session, NEW do, At(s, do), do \notin {"fire", "refresh", "record"}
  PROVE  LET st == job[s].program[1]
         IN  /\ TypeInv /\ Now(s) = st /\ st.do = do /\ st \in StageType
             /\ job[s] \in Job /\ job[s].program # <<>> /\ 1 \in 1 .. Len(job[s].program)
             /\ s \in Worker /\ job[s].user \in User /\ job[s].request \in 1 .. MaxRequests
             /\ Shaped(job[s].program)
<1> DEFINE st == job[s].program[1]
<1>1. TypeInv /\ job[s].program # <<>>
  BY DEF RecordsInv, At
<1>2. /\ Now(s) = st /\ st.do = do /\ st \in StageType /\ job[s] \in Job /\ job[s] # Idle
      /\ 1 \in 1 .. Len(job[s].program)
  BY <1>1, Busy DEF At
<1>3. s \in Worker
  BY <1>2 DEF RecordsInv, SweeperInv, SweepShaped, Session
<1>4. Shaped(job[s].program)
  BY <1>3 DEF RecordsInv, WorkerInv
<1>5. job[s].user \in User /\ job[s].request \in 1 .. MaxRequests
  BY <1>1, <1>2, <1>3, RecordsBoundsAssumption DEF TypeInv
<1> QED
  BY <1>1, <1>2, <1>3, <1>4, <1>5

LEMMA InsertKeeps ==
  ASSUME RecordsInv, NEW s \in Session, Insert(s)
  PROVE  RecordsInv'
<1> DEFINE j == job[s]
           st == j.program[1]
<1>1. /\ TypeInv /\ Now(s) = st /\ st.do = "insert" /\ j \in Job /\ j.program # <<>>
      /\ s \in Worker /\ j.user \in User /\ j.request \in 1 .. MaxRequests
      /\ Shaped(j.program) /\ 1 \in 1 .. Len(j.program)
  BY AtWork DEF Insert
<1>2. st.kind \in Kind /\ st.new.due \in BOOLEAN
  BY <1>1 DEF Shaped, Touching, Dated
<1>3. PICK i \in NewIds(st.kind) :
        /\ table' = [k \in DOMAIN table \cup {<<st.kind, i>>} |->
                       IF k \in DOMAIN table THEN table[k]
                       ELSE [owner |-> j.user, status |-> "pending",
                             due |-> st.new.due, made |-> j.request]]
        /\ Effect(s, i)
        /\ Step(s, [j EXCEPT !.id = i, !.loaded = table'[<<st.kind, i>>]])
  BY <1>1 DEF Insert
<1> DEFINE key == <<st.kind, i>>
           row == [owner |-> j.user, status |-> "pending", due |-> st.new.due,
                   made |-> j.request]
<1>4. i \in Id /\ key \notin DOMAIN table
  <2>1. i \in Id /\ (key \in DOMAIN table => i < i)
    BY DEF NewIds
  <2> QED BY <2>1, RecordsBoundsAssumption
<1>5. row \in Row /\ row.owner = j.user /\ row.made = j.request
  BY <1>1, <1>2 DEF Row, Status
<1>6. /\ DOMAIN table' = DOMAIN table \cup {key}
      /\ table'[key] = row
      /\ \A k \in DOMAIN table : table'[k] = table[k]
  <2>1. table' = [k \in DOMAIN table \cup {key} |-> IF k \in DOMAIN table THEN table[k] ELSE row]
    BY <1>3
  <2> HIDE DEF row, key
  <2> QED BY <1>4, <2>1
<1> HIDE DEF row
<1>7. RowsMove(s)
  <2>1. key \in Kind \X Id /\ table'[key] \in Row /\ MadeBy(s, key)
    BY <1>1, <1>2, <1>4, <1>5, <1>6 DEF MadeBy
  <2>2. \A k \in DOMAIN table : k \in Kind \X Id /\ table'[k] \in Row /\ Kept(k)
    BY <1>1, <1>6 DEF TypeInv, Kept
  <2> QED BY <1>6, <2>1, <2>2 DEF RowsMove
<1> DEFINE k == Found(j, i, row)
<1>8. Varies(j, k) /\ k.id = i /\ k.loaded = row /\ k.user = j.user
  BY <1>1, <1>4, <1>5, FoundIs DEF Varies
<1>9. Step(s, k) /\ Effect(s, i) /\ UNCHANGED <<consent, requests, crashes, recorded>>
  BY <1>3, <1>6 DEF Found, Insert
<1>10. ASSUME NEW who \in [1 .. MaxRequests -> User \cup {0}], Owned(who)
       PROVE  Loaded(k, st.kind, who)
  <2>1. j.request \in 1 .. requests /\ who[j.request] = j.user
    <3>1. j # Idle
      BY <1>1, IdleIs
    <3>2. j.request \in 1 .. requests /\ j.request # 0
      BY <1>1, <3>1 DEF TypeInv
    <3> QED BY <1>1, <1>10, <3>2 DEF Owned
  <2>2. j.request # 0 /\ j.request <= requests
    BY <2>1
  <2> QED BY <1>5, <1>8, <2>1, <2>2 DEF Loaded
<1> HIDE DEF k
<1> QED
  BY <1>1, <1>4, <1>7, <1>8, <1>9, <1>10, EffectKeeps DEF Touching, Making, Taking

LEMMA WriteKeeps ==
  ASSUME RecordsInv, NEW s \in Session, Write(s)
  PROVE  RecordsInv'
<1> DEFINE j == job[s]
           st == j.program[1]
           payload == Now(s).new
           key == <<st.kind, j.id>>
<1>1. /\ TypeInv /\ Now(s) = st /\ st.do = "write" /\ j \in Job /\ j.program # <<>>
      /\ s \in Worker /\ Shaped(j.program) /\ 1 \in 1 .. Len(j.program)
  BY AtWork DEF Write
<1>2. Key(s) = key /\ (Present(s) <=> key \in DOMAIN table)
  BY <1>1 DEF Key, Present
<1>3. UNCHANGED <<consent, requests, crashes, recorded>> /\ Varies(j, j)
  BY <1>1 DEF Write, Varies
<1> DEFINE attributes(moved) == {a \in DOMAIN payload : \/ a \in {"text"} \cup moved
                                                       \/ j.loaded[a] # payload[a]}
<1>4. PICK moved \in SUBSET {"due"} :
        LET new == [a \in attributes(moved) |-> payload[a]]
        IN  IF DOMAIN new # {} /\ ~Present(s)
            THEN Fail(s) /\ UNCHANGED <<table, effects>>
            ELSE /\ IF DOMAIN new = {} THEN UNCHANGED <<table, effects>>
                    ELSE /\ table' = [table EXCEPT ![Key(s)] =
                                 [a \in DOMAIN @ |-> IF a \in DOMAIN new THEN new[a] ELSE @[a]]]
                         /\ Effect(s, j.id)
                 /\ Step(s, j)
  BY DEF Write
<1> DEFINE new == [a \in attributes(moved) |-> payload[a]]
<1>5. CASE DOMAIN new # {} /\ ~Present(s)
  <2>1. Fail(s) /\ UNCHANGED <<table, effects>>
    BY <1>4, <1>5
  <2> QED BY <1>3, <2>1, FailKeeps
<1>6. CASE DOMAIN new = {}
  <2>1. Step(s, j) /\ UNCHANGED <<table, effects>>
    BY <1>4, <1>6
  <2> QED BY <1>1, <1>3, <2>1, RowsSame, QuietKeeps DEF Making, Taking
<1>7. CASE DOMAIN new # {} /\ Present(s)
  <2>1. /\ table' = [table EXCEPT ![key] =
                       [a \in DOMAIN @ |-> IF a \in DOMAIN new THEN new[a] ELSE @[a]]]
        /\ Effect(s, j.id) /\ Step(s, j)
    BY <1>2, <1>4, <1>7
  <2> DEFINE row == table[key]
             written == [a \in DOMAIN row |-> IF a \in DOMAIN new THEN new[a] ELSE row[a]]
  <2>2. key \in DOMAIN table /\ row \in Row
    BY <1>1, <1>2, <1>7 DEF TypeInv
  <2>3. written \in Row /\ written.owner = row.owner /\ written.made = row.made
    <3>1. payload \in Payloads
      BY <1>1 DEF Shaped
    <3>2. DOMAIN payload \subseteq {"text", "due", "status"}
      BY <3>1, ChangesAssumption DEF Payloads
    <3>3. "status" \in DOMAIN payload => payload["status"] \in Status
      BY <3>1 DEF Payloads, Status
    <3>4. "due" \in DOMAIN payload => payload["due"] \in BOOLEAN
      BY <3>1, ChangesAssumption DEF Payloads
    <3>5. DOMAIN new \subseteq DOMAIN payload /\ \A a \in DOMAIN new : new[a] = payload[a]
      OBVIOUS
    <3> HIDE DEF new, row
    <3>6. /\ DOMAIN row = {"owner", "status", "due", "made"} /\ row["owner"] \in User
          /\ row["status"] \in Status /\ row["due"] \in BOOLEAN
          /\ row["made"] \in 0 .. MaxRequests
      BY <2>2 DEF Row
    <3>7. written["owner"] = row["owner"] /\ written["made"] = row["made"]
      BY <3>2, <3>5, <3>6
    <3>8. written["status"] \in Status /\ written["due"] \in BOOLEAN
      BY <3>3, <3>4, <3>5, <3>6
    <3>9. written = [owner |-> written["owner"], status |-> written["status"],
                     due |-> written["due"], made |-> written["made"]]
      BY <3>6
    <3> HIDE DEF written
    <3> QED BY <3>6, <3>7, <3>8, <3>9 DEF Row
  <2>4. /\ DOMAIN table' = DOMAIN table /\ table'[key] = written
        /\ \A k \in DOMAIN table \ {key} : table'[k] = table[k]
    BY <2>1, <2>2
  <2> HIDE DEF written
  <2>5. RowsMove(s)
    BY <1>1, <2>2, <2>3, <2>4 DEF TypeInv, RowsMove, Kept
  <2> QED BY <1>1, <1>3, <2>1, <2>5, EffectKeeps DEF Touching, Making, Taking
<1> QED
  BY <1>5, <1>6, <1>7

LEMMA DeleteRowKeeps ==
  ASSUME RecordsInv, NEW s \in Session, DeleteRow(s)
  PROVE  RecordsInv'
<1> DEFINE j == job[s]
           st == j.program[1]
           key == <<st.kind, j.id>>
<1>1. /\ TypeInv /\ Now(s) = st /\ st.do = "delete" /\ j \in Job /\ j.program # <<>>
  BY AtWork DEF DeleteRow
<1>2. /\ table' = [k \in DOMAIN table \ {Key(s)} |-> table[k]]
      /\ IF Present(s) THEN Effect(s, j.id) ELSE UNCHANGED effects
      /\ Step(s, j) /\ UNCHANGED <<consent, requests, crashes, recorded>>
  BY DEF DeleteRow
<1>3. Varies(j, j)
  BY <1>1 DEF Varies
<1>4. RowsMove(s)
  BY <1>1, <1>2 DEF TypeInv, RowsMove, Kept
<1>5. CASE Present(s)
  BY <1>1, <1>2, <1>3, <1>4, <1>5, EffectKeeps DEF Touching, Making, Taking
<1>6. CASE ~Present(s)
  BY <1>1, <1>2, <1>3, <1>4, <1>6, QuietKeeps DEF Making, Taking
<1> QED
  BY <1>5, <1>6

LEMMA RefreshKeeps ==
  ASSUME RecordsInv, NEW s \in Session, Refresh(s)
  PROVE  RecordsInv'
<1> DEFINE j == job[s]
           st == j.program[1]
<1>1. TypeInv /\ j.program # <<>>
  BY DEF RecordsInv, Refresh, At
<1>2. st.do = "refresh" /\ j \in Job
  BY <1>1, Busy DEF Refresh, At
<1>3. Varies(j, j)
  BY <1>2 DEF Varies
<1>4. UNCHANGED <<consent, table, requests, crashes, effects, recorded>>
  BY DEF Refresh
<1>5. CASE Present(s)
  <2>1. Step(s, j)
    BY <1>5 DEF Refresh
  <2> QED BY <1>1, <1>2, <1>3, <1>4, <2>1, RowsSame, QuietKeeps DEF Making, Taking
<1>6. CASE ~Present(s)
  BY <1>4, <1>6, FailKeeps DEF Refresh
<1> QED
  BY <1>5, <1>6

LEMMA ReadListKeeps ==
  ASSUME RecordsInv, NEW s \in Session, ReadList(s)
  PROVE  RecordsInv'
<1> DEFINE j == job[s]
           st == j.program[1]
<1>1. /\ TypeInv /\ Now(s) = st /\ st.do = "list" /\ j \in Job /\ j.program # <<>>
  BY AtWork DEF ReadList
<1>2. Varies(j, j)
  BY <1>1 DEF Varies
<1>3. /\ Effect(s, 0) /\ Step(s, j)
      /\ UNCHANGED <<consent, table, requests, crashes, recorded>>
  BY DEF ReadList
<1>4. <<st.kind, 0>> \notin DOMAIN table
  <2>1. <<st.kind, 0>> \in DOMAIN table => 0 \in Id
    BY <1>1 DEF TypeInv
  <2> QED BY <2>1, RecordsBoundsAssumption
<1> QED
  BY <1>1, <1>2, <1>3, <1>4, RowsSame, EffectKeeps DEF Touching, Making, Taking

LEMMA FireKeeps ==
  ASSUME RecordsInv, NEW s \in Session, Fire(s)
  PROVE  RecordsInv'
<1> DEFINE j == job[s]
           st == j.program[1]
           i == st.id
           key == <<"reminder", i>>
<1>1. TypeInv /\ j.program # <<>>
  BY DEF RecordsInv, Fire, At
<1>2. Now(s) = st /\ st.do = "fire" /\ j \in Job /\ 1 \in 1 .. Len(j.program)
  BY <1>1, Busy DEF Fire, At
<1>3. s = Sweeper
  <2>1. s \in Worker => Shaped(j.program)
    BY DEF RecordsInv, WorkerInv
  <2> QED BY <1>2, <2>1 DEF Shaped, Touching, Session
<1>4. i \in Id /\ st.kind = "reminder"
  BY <1>2, <1>3 DEF RecordsInv, SweeperInv, SweepShaped
<1>5. UNCHANGED <<consent, requests, crashes, recorded>>
  BY DEF Fire
<1>6. CASE key \in DOMAIN table
  <2>1. /\ table' = [table EXCEPT ![key].status = "fired"]
        /\ Effect(s, i) /\ Step(s, [j EXCEPT !.id = i])
    BY <1>2, <1>6 DEF Fire
  <2>2. Varies(j, Naming(j, i)) /\ Naming(j, i).id = i /\ Step(s, Naming(j, i))
    BY <1>2, <1>4, <2>1, NamingIs DEF Naming
  <2>3. RowsMove(s)
    <3>1. \A k \in DOMAIN table :
            /\ table[k] \in Row
            /\ table'[k] = table[k] \/ table'[k] = [table[k] EXCEPT !.status = "fired"]
      BY <1>1, <2>1 DEF TypeInv
    <3>2. DOMAIN table' = DOMAIN table
      BY <2>1
    <3>3. \A row \in Row : LET fired == [row EXCEPT !.status = "fired"]
                           IN  fired \in Row /\ fired.owner = row.owner /\ fired.made = row.made
      BY DEF Row, Status
    <3> QED BY <1>1, <3>1, <3>2, <3>3 DEF TypeInv, RowsMove, Kept
  <2>4. s \notin Worker
    BY <1>3, SweeperAssumption
  <2> QED BY <1>1, <1>2, <1>5, <2>1, <2>2, <2>3, <2>4, EffectKeeps
          DEF Touching, Making, Taking, Session
<1>7. CASE key \notin DOMAIN table
  <2>1. Fail(s) /\ UNCHANGED <<table, effects>>
    BY <1>2, <1>7 DEF Fire
  <2> QED BY <1>5, <2>1, FailKeeps
<1> QED
  BY <1>6, <1>7

LEMMA GetOneKeeps ==
  ASSUME RecordsInv, NEW s \in Session, GetOne(s)
  PROVE  RecordsInv'
<1> DEFINE j == job[s]
           st == j.program[1]
           value == consent[j.user][st.kind]
<1>1. /\ TypeInv /\ Now(s) = st /\ st.do = "get_one" /\ j \in Job /\ j.program # <<>>
      /\ j.user \in User
  BY AtWork DEF GetOne
<1>2. value \in {"none", "granted", "denied"}
  <2>1. st.kind \in Category
    BY <1>1, AtWork DEF GetOne, Shaped
  <2> QED BY <1>1, <2>1 DEF TypeInv
<1>3. /\ Varies(j, Seeing(j, value))
      /\ Seeing(j, value).id = j.id /\ Seeing(j, value).loaded = j.loaded
  BY <1>1, <1>2, SeeingIs
<1>4. /\ Step(s, Seeing(j, value))
      /\ UNCHANGED <<consent, table, requests, crashes, effects, recorded>>
  BY <1>1 DEF GetOne, Seeing
<1> QED
  BY <1>1, <1>3, <1>4, RowsSame, QuietKeeps DEF Making, Taking

LEMMA RecordKeeps ==
  ASSUME RecordsInv, NEW s \in Session, Record(s)
  PROVE  RecordsInv'
<1> DEFINE j == job[s]
           st == j.program[1]
           l == Left(j)
           new == [request |-> j.request, action |-> st.what, kind |-> st.kind, id |-> j.id]
<1>1. /\ TypeInv /\ j.program # <<>>
      /\ consent \in [User -> [Category -> {"none", "granted", "denied"}]]
  BY DEF RecordsInv, TypeInv, Record, At
<1>2. Now(s) = st /\ st.do = "record" /\ j \in Job
  BY <1>1, Busy DEF Record, At
<1>3. /\ recorded' = recorded \cup {new} /\ Step(s, j)
      /\ UNCHANGED <<consent, table, requests, crashes, effects>>
  BY <1>2 DEF Record
<1>4. Varies(j, j)
  BY <1>2 DEF Varies
<1>5. Moves(s, l) /\ l.id = j.id /\ l.loaded = j.loaded
  BY <1>1, <1>3, <1>4, StepMoves
<1> HIDE DEF l
<1>6. Acts(s, l)
  <2>1. /\ new.request = j.request /\ new.action = st.what /\ new.kind = st.kind
        /\ new.id = j.id
    OBVIOUS
  <2> HIDE DEF new
  <2>2. new \in recorded' /\ recorded \subseteq recorded' /\ \A r \in recorded' \ recorded : r = new
    BY <1>3
  <2>3. effects' = effects
    BY <1>3
  <2> QED BY <1>2, <2>1, <2>2, <2>3 DEF Acts, Making
<1>7. \A w \in Worker : Remembers(w)'
  BY <1>3, <1>5, RemembersMove
<1> QED
  BY <1>1, <1>2, <1>3, <1>5, <1>6, <1>7, RowsSame, StageKeeps DEF Taking

(* A grant or a withdrawal: whoever runs for the user learns of a grant.   *)
LEMMA UpsertKeeps ==
  ASSUME RecordsInv, NEW s \in Session, Upsert(s)
  PROVE  RecordsInv'
<1> DEFINE j == job[s]
           st == j.program[1]
           u == j.user
           c == st.kind
           granted == consent'[u][c] = "granted"
           Now2(r) == IF job[r].user = u /\ granted THEN Knowing(job[r], c) ELSE job[r]
           l == Left(Now2(s))
<1>1. /\ TypeInv /\ Now(s) = st /\ st.do = "upsert" /\ j \in Job /\ j.program # <<>>
      /\ u \in User /\ s \in Worker /\ c \in Category /\ st.what \in {"granted", "denied"}
  BY AtWork DEF Upsert, Shaped
<1>2. UNCHANGED <<table, requests, crashes, effects, recorded>>
  BY DEF Upsert
<1>3. CASE Fail(s) /\ UNCHANGED consent
  BY <1>2, <1>3, FailKeeps
<1>4. CASE ~(Fail(s) /\ UNCHANGED consent)
  <2>1. /\ consent' = IF j.was = st.what THEN consent ELSE [consent EXCEPT ![u][c] = st.what]
        /\ job' = [r \in Session |-> IF r = s THEN Rest(Now2(r)) ELSE Now2(r)]
        /\ Answered(s)
    BY <1>1, <1>4 DEF Upsert, Knowing
  <2>2. /\ consent' \in [User -> [Category -> {"none", "granted", "denied"}]]
        /\ \A v \in User, d \in Category : v # u \/ d # c => consent'[v][d] = consent[v][d]
    BY <1>1, <2>1 DEF TypeInv
  <2>3. \A r \in Session : /\ Grown(job[r], Now2(r)) /\ Now2(r) \in Job
                           /\ job[r].user = u /\ granted => c \in Now2(r).could
    <3> SUFFICES ASSUME NEW r \in Session
                 PROVE  /\ Grown(job[r], Now2(r)) /\ Now2(r) \in Job
                        /\ job[r].user = u /\ granted => c \in Now2(r).could
      OBVIOUS
    <3>1. job[r] \in Job /\ u # 0
      BY <1>1, RecordsBoundsAssumption DEF TypeInv
    <3>2. CASE job[r].user = u /\ granted
      BY <1>1, <3>1, <3>2, KnowingIs DEF Grown
    <3>3. CASE ~(job[r].user = u /\ granted)
      BY <3>1, <3>3, GrownSame
    <3> QED BY <3>2, <3>3
  <2> DEFINE k == Now2(s)
  <2>4. /\ Grown(j, k) /\ k \in Job /\ k.program # <<>>
        /\ u = j.user /\ granted => c \in k.could
    BY <1>1, <2>3 DEF Grown
  <2>5. /\ job'[s] = Rest(k) /\ \A r \in Session \ {s} : job'[r] = Now2(r)
        /\ job' = [r \in Session |-> job'[r]]
    BY <2>1
  <2> HIDE DEF Now2, k
  <2>6. /\ l \in Job /\ Follows(k, l) /\ l.could = k.could
        /\ l.id = k.id /\ l.loaded = k.loaded
        /\ Len(k.program) = 1 => l.program = <<>>
    BY <2>4, LeftIs DEF k
  <2>7. Follows(j, l) /\ j.could \subseteq l.could
    BY <2>4, <2>6 DEF Follows, Grown
  <2>8. Len(k.program) # 1 => l.program # <<>>
    <3>1. Len(l.program) = Len(k.program) - 1 /\ Len(k.program) \in Nat
      BY <2>6 DEF Follows
    <3>2. l.program = <<>> => Len(l.program) = 0
      OBVIOUS
    <3> QED BY <3>1, <3>2
  <2>9. Rest(k) = IF Len(k.program) = 1 THEN Idle ELSE l
    BY DEF Rest, Left, k
  <2>10. Rest(k) \in Job
    BY <2>6, <2>9, IdleIs
  <2>11. Moves(s, l)
    <3>1. job' \in [Session -> Job]
      BY <2>3, <2>5, <2>10
    <3>2. \A t \in Session \ {s} : Grown(job[t], job'[t])
      BY <2>3, <2>5
    <3>3. \/ job'[s] = Idle /\ l.program = <<>>
          \/ job'[s] = l /\ l.program # <<>>
      BY <2>5, <2>6, <2>8, <2>9
    <3>4. \/ answered' = answered
          \/ /\ answered' = answered \cup {j.request}
             /\ job'[s] = Idle /\ s \in Worker /\ ~j.fails
      BY <2>1, <2>4, <2>5, <2>9 DEF Answered, Succeeds, Grown
    <3> QED BY <1>2, <2>6, <2>7, <3>1, <3>2, <3>3, <3>4 DEF Moves
  <2>12. Acts(s, l)
    BY <1>1, <1>2 DEF Acts, Making
  <2>13. \A w \in Worker : Remembers(w)'
    <3> SUFFICES ASSUME NEW w \in Worker, job'[w].user # 0, NEW d \in Category,
                        consent'[job'[w].user][d] = "granted"
                 PROVE  d \in job'[w].could
      BY DEF Remembers, Granted
    <3>1. /\ job'[w].user = job[w].user /\ job[w].could \subseteq job'[w].could
          /\ job[w] # Idle
      BY <2>11, IdleIs, Busy DEF Moves, Follows, Grown, Session
    <3>2. job[w].user \in User
      BY <1>1, <3>1 DEF TypeInv
    <3>3. CASE job[w].user # u \/ d # c
      <4>1. consent[job[w].user][d] = "granted"
        BY <2>2, <3>1, <3>2, <3>3
      <4>2. d \in job[w].could
        BY <3>1, <4>1 DEF RecordsInv, WorkerInv, Remembers, Granted
      <4> QED BY <3>1, <4>2
    <3>4. CASE job[w].user = u /\ d = c
      <4>1. granted
        BY <3>1, <3>4
      <4>2. CASE w # s
        BY <2>3, <2>5, <3>4, <4>1, <4>2 DEF Session
      <4>3. CASE w = s
        <5>1. job'[s] = l
          BY <2>5, <2>9, <3>1, <4>3, IdleIs
        <5> QED BY <2>4, <2>6, <3>4, <4>1, <4>3, <5>1
      <4> QED BY <4>2, <4>3
    <3> QED BY <3>3, <3>4
  <2>14. l.id = j.id /\ l.loaded = j.loaded
    BY <2>4, <2>6 DEF Grown
  <2> QED BY <1>1, <1>2, <2>2, <2>11, <2>12, <2>13, <2>14, RowsSame, StageKeeps DEF Taking
<1> QED
  BY <1>3, <1>4

-----------------------------------------------------------------------------
(* The sweep's program: four stages for each reminder.                     *)
LEMMA FiringIs ==
  ASSUME NEW i \in Id
  PROVE  LET f == Firing(i)
         IN  /\ f[1] \in StageType /\ f[2] \in StageType
             /\ f[3] \in StageType /\ f[4] \in StageType
             /\ f[1].do = "fire" /\ f[1].kind = "reminder" /\ f[1].id = i
             /\ f[2].do = "refresh" /\ f[2].kind = "reminder"
             /\ f[3].do = "record" /\ f[3].kind = "reminder" /\ f[3].what = "FIRED"
             /\ f[4].do = "refresh" /\ f[4].kind = "reminder"
<1> DEFINE a == [Stage("fire", "reminder") EXCEPT !.id = i]
           b == Stage("refresh", "reminder")
           c == Audited("FIRED", "reminder")
<1>1. Is(a, "fire", "reminder", i, "", <<>>)
  BY FireIs
<1>2. Is(b, "refresh", "reminder", 0, "", <<>>)
  BY StageIs DEF Doing, AnyKind, Kind
<1>3. Is(c, "record", "reminder", 0, "FIRED", <<>>)
  BY AuditedIs DEF Saying, AnyKind, Kind
<1>4. Firing(i) = <<a, b>> \o <<c, b>>
  BY <1>1 DEF Firing, Save, Told, Is
<1> HIDE DEF a, b, c
<1>5. a \in StageType /\ b \in StageType /\ c \in StageType
  BY <1>1, <1>2, <1>3 DEF Is
<1>6. Firing(i)[1] = a /\ Firing(i)[2] = b /\ Firing(i)[3] = c /\ Firing(i)[4] = b
  BY <1>4, <1>5, FourIs
<1> QED
  BY <1>1, <1>2, <1>3, <1>5, <1>6 DEF Is

(* Where in the sweep a stage is.                                          *)
LEMMA PlaceIs ==
  ASSUME NEW k \in Nat, NEW n \in 1 .. 4 * k
  PROVE  LET q == (n + 3) \div 4  r == (n + 3) % 4
         IN  q \in 1 .. k /\ r \in 0 .. 3 /\ n + 3 = 4 * q + r
OBVIOUS

LEMMA SweepMade ==
  ASSUME due_before # {}, NEW order \in SetToSeqs(due_before)
  PROVE  LET p == Sweep(order)
         IN  /\ p \in Seq(StageType) /\ p # <<>>
             /\ SweepShaped(p) /\ Foretold(p) /\ Distinct(p)
             /\ \A n \in 1 .. Len(p) : p[n].do = "fire" => p[n].id \in due_before
<1> DEFINE D == due_before
           k == Cardinality(D)
           p == Sweep(order)
           q(n) == (n + 3) \div 4
           r(n) == (n + 3) % 4
<1>1. k \in Nat /\ k # 0 /\ D \subseteq Id
  <2>1. D \subseteq Id
    BY DEF due_before
  <2>2. IsFiniteSet(D)
    BY <2>1, RecordsBoundsAssumption, FS_Subset
  <2> QED BY <2>1, <2>2, FS_CardinalityType, FS_EmptySet
<1>2. /\ order \in [1 .. k -> D] /\ Len(order) = k
      /\ \A i, j \in 1 .. k : i # j => order[i] # order[j]
  <2>1. order \in [1 .. k -> D] /\ \A i, j \in 1 .. k : i # j => order[i] # order[j]
    BY DEF SetToSeqs
  <2> QED BY <1>1, <2>1
<1> HIDE DEF D, k
<1>3. \A n \in 1 .. 4 * k :
        /\ q(n) \in 1 .. k /\ r(n) \in 0 .. 3 /\ n + 3 = 4 * q(n) + r(n)
        /\ order[q(n)] \in D
  BY <1>1, <1>2, PlaceIs
<1>4. p = [n \in 1 .. 4 * k |-> Firing(order[q(n)])[1 + r(n)]]
  BY <1>2 DEF Sweep
<1> HIDE DEF p, q, r
<1>5. \A n \in 1 .. 4 * k :
        LET i == order[q(n)]
        IN  /\ p[n] \in StageType /\ p[n].kind = "reminder"
            /\ \/ r(n) = 0 /\ p[n].do = "fire" /\ p[n].id = i
               \/ r(n) = 1 /\ p[n].do = "refresh"
               \/ r(n) = 2 /\ p[n].do = "record" /\ p[n].what = "FIRED"
               \/ r(n) = 3 /\ p[n].do = "refresh"
  <2> SUFFICES ASSUME NEW n \in 1 .. 4 * k
               PROVE  LET i == order[q(n)]
                      IN  /\ p[n] \in StageType /\ p[n].kind = "reminder"
                          /\ \/ r(n) = 0 /\ p[n].do = "fire" /\ p[n].id = i
                             \/ r(n) = 1 /\ p[n].do = "refresh"
                             \/ r(n) = 2 /\ p[n].do = "record" /\ p[n].what = "FIRED"
                             \/ r(n) = 3 /\ p[n].do = "refresh"
    OBVIOUS
  <2>1. order[q(n)] \in Id /\ p[n] = Firing(order[q(n)])[1 + r(n)]
    BY <1>1, <1>3, <1>4
  <2>2. r(n) = 0 \/ r(n) = 1 \/ r(n) = 2 \/ r(n) = 3
    BY <1>3
  <2>3. r(n) + 1 = 1 + r(n) /\ 1 + 0 = 1 /\ 1 + 1 = 2 /\ 1 + 2 = 3 /\ 1 + 3 = 4
    BY <2>2
  <2> QED BY <2>1, <2>2, <2>3, FiringIs
<1>6. p \in Seq(StageType) /\ Len(p) = 4 * k
  <2>1. 4 * k \in Nat
    BY <1>1
  <2>2. p \in [1 .. 4 * k -> StageType]
    BY <1>4, <1>5
  <2> QED BY <2>1, <2>2
<1>7. p # <<>>
  BY <1>1, <1>6
<1>8. SweepShaped(p)
  BY <1>1, <1>3, <1>5, <1>6 DEF SweepShaped
<1>9. Foretold(p)
  <2> SUFFICES ASSUME NEW n \in 1 .. 4 * k, p[n].do = "record"
               PROVE  JustMade(p, n)
    BY <1>6 DEF Foretold
  <2>1. r(n) = 2 /\ p[n].what = "FIRED" /\ p[n].kind = "reminder"
    BY <1>5
  <2>2. n >= 3 /\ n - 1 \in 1 .. 4 * k /\ n - 2 \in 1 .. 4 * k
    BY <1>1, <1>3, <2>1
  <2>3. r(n - 1) = 1 /\ r(n - 2) = 0
    <3>1. /\ q(n) \in Nat /\ n \in Nat /\ n + 3 = 4 * q(n) + 2
          /\ q(n - 1) \in Nat /\ r(n - 1) \in 0 .. 3 /\ n - 1 + 3 = 4 * q(n - 1) + r(n - 1)
          /\ q(n - 2) \in Nat /\ r(n - 2) \in 0 .. 3 /\ n - 2 + 3 = 4 * q(n - 2) + r(n - 2)
      BY <1>1, <1>3, <2>1, <2>2
    <3> QED BY <3>1
  <2>4. p[n - 1].do = "refresh" /\ p[n - 2].do = "fire" /\ p[n - 2].kind = "reminder"
    BY <1>5, <2>2, <2>3
  <2>5. Audit("fire", "reminder") = "FIRED"
    BY DEF Audit, ActionFor
  <2> QED BY <2>1, <2>2, <2>4, <2>5 DEF JustMade, Making
<1>10. Distinct(p)
  <2> SUFFICES ASSUME NEW n \in 1 .. 4 * k, NEW m \in 1 .. n - 1,
                      p[n].do = "fire", p[m].do = "fire"
               PROVE  p[n].id # p[m].id
    BY <1>6 DEF Distinct
  <2>1. m \in 1 .. 4 * k
    BY <1>1
  <2>2. r(n) = 0 /\ r(m) = 0 /\ p[n].id = order[q(n)] /\ p[m].id = order[q(m)]
    BY <1>5, <2>1
  <2>3. q(n) # q(m) /\ q(n) \in 1 .. k /\ q(m) \in 1 .. k
    BY <1>3, <2>1, <2>2
  <2> QED BY <1>2, <2>2, <2>3
<1>11. \A n \in 1 .. Len(p) : p[n].do = "fire" => p[n].id \in due_before
  BY <1>3, <1>5, <1>6 DEF D
<1> QED
  BY <1>6, <1>7, <1>8, <1>9, <1>10, <1>11 DEF p

-----------------------------------------------------------------------------
(* A request that arrives.                                                 *)
LEMMA ArrivedIs ==
  ASSUME NEW j \in Job, NEW u \in User \cup {0}, NEW n \in 0 .. MaxRequests,
         NEW p \in Seq(StageType), NEW could \in SUBSET Category
  PROVE  [j EXCEPT !.user = u, !.request = n, !.program = p, !.could = could] \in Job
BY DEF Job

LEMMA RequestKeeps ==
  ASSUME RecordsInv, NEW u \in User, NEW program \in Routes, Request(u, program)
  PROVE  RecordsInv'
<1> DEFINE n == requests + 1
           new(w) == [Idle EXCEPT !.user = u, !.request = n, !.program = program,
                                  !.could = Granted(u)]
<1>1. /\ TypeInv /\ Answers /\ (\A w \in Worker : WorkerInv(w)) /\ SweeperInv
      /\ AuditAgreesWithEffects /\ ConsentBehindEffects /\ ChangesOwn
      /\ UNCHANGED <<consent, table, crashes, effects, recorded, answered>>
  BY DEF RecordsInv, Request
<1>2. PICK w \in Worker :
        /\ job[w] = Idle /\ requests < MaxRequests /\ requests' = n
        /\ job' = [job EXCEPT ![w] = new(w)]
  BY DEF Request
<1> DEFINE k == new(w)
<1>3. n \in 1 .. MaxRequests /\ requests \in Nat /\ n \notin 0 .. requests
  BY <1>1, <1>2, RecordsBoundsAssumption DEF TypeInv
<1>4. /\ WellMade(program) /\ program \in Seq(StageType) /\ program # <<>>
      /\ Len(program) > 0
  <2>1. WellMade(program)
    BY RoutesMade
  <2>2. program # <<>>
    BY <2>1 DEF WellMade
  <2> QED BY <2>1, <2>2 DEF WellMade
<1>5. /\ k \in Job /\ k.user = u /\ k.request = n /\ k.program = program
      /\ k.could = Granted(u) /\ k # Idle
  <2>1. Granted(u) \subseteq Category
    BY DEF Granted
  <2>2. /\ k.user = u /\ k.request = n /\ k.program = program /\ k.could = Granted(u)
    BY DEF Idle
  <2>3. k \in Job
    <3>1. u \in User \cup {0} /\ n \in 0 .. MaxRequests
      BY <1>3
    <3> QED BY <1>4, <2>1, <3>1, IdleIs, ArrivedIs
  <2> QED BY <1>4, <2>2, <2>3, IdleIs
<1> HIDE DEF k, new
<1>6. /\ job' \in [Session -> Job] /\ job'[w] = k
      /\ \A t \in Session \ {w} : job'[t] = job[t]
  BY <1>1, <1>2, <1>5 DEF TypeInv, Session, k
<1>7. TypeInv'
  <2>1. \A x \in DOMAIN table : table[x].made <= n
    BY <1>1, <1>3 DEF TypeInv, Row
  <2>2. Sweeper # w
    BY SweeperAssumption
  <2>3. \A v \in Worker : job'[v] # Idle =>
          job'[v].user \in User /\ job'[v].request \in 1 .. n
    BY <1>1, <1>3, <1>5, <1>6 DEF TypeInv, Session
  <2>4. job'[Sweeper] = job[Sweeper]
    BY <1>6, <2>2 DEF Session
  <2>5. \A t \in Session : job'[t] # Idle => job'[t].program # <<>>
    BY <1>1, <1>4, <1>5, <1>6 DEF TypeInv
  <2>6. requests' \in 0 .. MaxRequests
    BY <1>2, <1>3
  <2> QED BY <1>1, <1>2, <1>6, <2>1, <2>3, <2>4, <2>5, <2>6 DEF TypeInv
<1>8. Answers'
  <2>1. \A v \in Worker : job[v].request \in 0 .. requests
    BY <1>1, <1>3, IdleIs DEF TypeInv
  <2>2. \A e \in effects' : e.request \in 0 .. requests'
    BY <1>1, <1>2, <1>3 DEF Answers
  <2>3. answered' \subseteq 1 .. requests'
    BY <1>1, <1>2, <1>3 DEF Answers
  <2>4. \A v \in Worker : job'[v] # Idle => job'[v].request \notin answered'
    BY <1>1, <1>3, <1>5, <1>6 DEF Answers, Session
  <2>5. ASSUME NEW v \in Worker, NEW x \in Worker, job'[v] # Idle,
               job'[v].request = job'[x].request
        PROVE  v = x
    <3>1. CASE v = w
      BY <1>3, <1>5, <1>6, <2>1, <2>5, <3>1 DEF Session
    <3>2. CASE v # w /\ x = w
      BY <1>3, <1>5, <1>6, <2>1, <2>5, <3>2 DEF Session
    <3>3. CASE v # w /\ x # w
      BY <1>1, <1>6, <2>5, <3>3 DEF Answers, Session
    <3> QED BY <3>1, <3>2, <3>3
  <2> QED BY <2>2, <2>3, <2>4, <2>5 DEF Answers
<1>9. ASSUME NEW v \in Worker PROVE WorkerInv(v)'
  <2>1. CASE v # w
    BY <1>1, <1>6, <2>1 DEF Session, WorkerInv, Remembers, Granted
  <2>2. CASE v = w
    <3>1. Shaped(program) /\ Gated(program, Granted(u))
      BY <1>4 DEF WellMade, Gated
    <3>2. Audits(program, n, recorded)
      BY <1>4 DEF WellMade, Audits, Logged
    <3>3. Explained(k, effects, recorded)
      BY <1>1, <1>3, <1>5 DEF Explained, Answers
    <3>4. Announces(k, effects)
      BY <1>4, <1>5 DEF WellMade, Foretold, Announces
    <3>5. k.user # 0 => Granted(k.user) \subseteq k.could
      BY <1>5
    <3> QED BY <1>1, <1>5, <1>6, <2>2, <3>1, <3>2, <3>3, <3>4, <3>5
            DEF WorkerInv, Remembers, Granted
  <2> QED BY <2>1, <2>2
<1>10. SweeperInv'
  <2>1. job'[Sweeper] = job[Sweeper]
    BY <1>6, SweeperAssumption DEF Session
  <2> QED BY <1>1, <2>1 DEF SweeperInv
<1>11. \E who \in [1 .. MaxRequests -> User \cup {0}] : Owned(who)'
  <2>1. PICK who \in [1 .. MaxRequests -> User \cup {0}] : Owned(who)
    BY DEF RecordsInv
  <2>2. PICK whose \in [1 .. MaxRequests -> User \cup {0}] :
          whose[n] = u /\ \A m \in 1 .. requests : whose[m] = who[m]
    <3> DEFINE more == [who EXCEPT ![n] = u]
    <3>1. /\ more \in [1 .. MaxRequests -> User \cup {0}]
          /\ more[n] = u /\ \A m \in 1 .. requests : more[m] = who[m]
      BY <1>3
    <3> HIDE DEF more
    <3> QED BY <3>1
  <2>3. ASSUME NEW x \in DOMAIN table'
        PROVE  IF table'[x].made = 0
               THEN /\ x[1] = "reminder" /\ x[2] \in DOMAIN Existing
                    /\ table'[x].owner = Existing[x[2]]
               ELSE table'[x].owner = whose[table'[x].made]
    <3>1. table[x].made \in 0 .. requests
      BY <1>1, <1>3, <2>3 DEF TypeInv, Row
    <3> QED BY <1>1, <2>1, <2>2, <2>3, <3>1 DEF Owned
  <2>4. \A v \in Worker : job'[v].request # 0 => whose[job'[v].request] = job'[v].user
    <3> SUFFICES ASSUME NEW v \in Worker, job'[v].request # 0
                 PROVE  whose[job'[v].request] = job'[v].user
      OBVIOUS
    <3>1. CASE v = w
      BY <1>5, <1>6, <2>2, <3>1
    <3>2. CASE v # w
      <4>1. job'[v] = job[v]
        BY <1>6, <3>2 DEF Session
      <4>2. job[v].request \in 1 .. requests
        BY <1>1, <4>1, IdleIs DEF TypeInv
      <4> QED BY <2>1, <2>2, <4>1, <4>2 DEF Owned
    <3> QED BY <3>1, <3>2
  <2>5. \A j, kind : j \in Job /\ Loaded(j, kind, who) => Loaded(j, kind, whose)'
    <3> SUFFICES ASSUME NEW j \in Job, NEW kind, Loaded(j, kind, who)
                 PROVE  Loaded(j, kind, whose)'
      OBVIOUS
    <3>1. j.loaded.made \in 0 .. requests
      BY <1>3 DEF Loaded, Row
    <3>2. j.loaded.made # 0 => whose[j.loaded.made] = who[j.loaded.made]
      BY <2>2, <3>1
    <3> QED BY <1>2, <1>3, <3>1, <3>2 DEF Loaded
  <2>6. ASSUME NEW v \in Worker PROVE Loads(job[v], whose)'
    <3>1. CASE v # w
      <4>1. job'[v] = job[v] /\ job[v] \in Job
        BY <1>1, <1>6, <3>1 DEF Session, TypeInv
      <4> QED BY <2>1, <2>5, <4>1 DEF Owned, Loads
    <3>2. CASE v = w
      BY <1>4, <1>5, <1>6, <3>2 DEF WellMade, Searched, Loads
    <3> QED BY <3>1, <3>2
  <2>7. Owned(whose)'
    BY <2>3, <2>4, <2>6 DEF Owned
  <2> QED BY <2>2, <2>7
<1>12. AuditAgreesWithEffects' /\ ConsentBehindEffects' /\ ChangesOwn'
  BY <1>1 DEF AuditAgreesWithEffects, ConsentBehindEffects, ChangesOwn
<1> QED
  BY <1>7, <1>8, <1>9, <1>10, <1>11, <1>12 DEF RecordsInv

(* A sweep that starts.                                                    *)
LEMMA SweepKeeps ==
  ASSUME RecordsInv, fire_due_reminders
  PROVE  RecordsInv'
<1>1. /\ TypeInv /\ Answers /\ (\A w \in Worker : WorkerInv(w)) /\ SweeperInv
      /\ AuditAgreesWithEffects /\ ConsentBehindEffects /\ ChangesOwn
      /\ UNCHANGED <<consent, table, requests, crashes, effects, recorded, answered>>
  BY DEF RecordsInv, fire_due_reminders
<1>2. PICK order \in SetToSeqs(due_before) :
        job' = [job EXCEPT ![Sweeper].program = Sweep(order)]
  BY DEF fire_due_reminders
<1> DEFINE p == Sweep(order)
           k == [job[Sweeper] EXCEPT !.program = p]
<1>3. job[Sweeper] = Idle /\ due_before # {} /\ Sweeper \notin Worker
  BY SweeperAssumption DEF fire_due_reminders
<1>4. p \in Seq(StageType) /\ p # <<>> /\ SweepShaped(p) /\ Foretold(p)
  BY <1>3, SweepMade
<1> HIDE DEF p
<1>5. /\ k \in Job /\ k.program = p /\ k # Idle
      /\ k.user = job[Sweeper].user /\ k.request = job[Sweeper].request
  <2>1. job[Sweeper] \in Job
    BY <1>1 DEF TypeInv, Session
  <2>2. /\ k \in Job /\ k.program = p
        /\ k.user = job[Sweeper].user /\ k.request = job[Sweeper].request
    BY <1>4, <2>1 DEF Job
  <2> QED BY <1>4, <2>2, IdleIs
<1>6. /\ job' \in [Session -> Job] /\ job'[Sweeper] = k
      /\ \A w \in Worker : job'[w] = job[w]
  BY <1>1, <1>2, <1>3, <1>5 DEF TypeInv, Session, p
<1> HIDE DEF k
<1>7. TypeInv'
  <2>1. \A t \in Session : job'[t] # Idle => job'[t].program # <<>>
    BY <1>1, <1>4, <1>5, <1>6 DEF TypeInv, Session
  <2> QED BY <1>1, <1>5, <1>6, <2>1 DEF TypeInv
<1>8. Answers'
  BY <1>1, <1>6 DEF Answers
<1>9. \A w \in Worker : WorkerInv(w)'
  BY <1>1, <1>6 DEF WorkerInv, Remembers, Granted
<1>10. SweeperInv'
  BY <1>4, <1>5, <1>6 DEF SweeperInv, Foretold, Announces
<1>11. \E who \in [1 .. MaxRequests -> User \cup {0}] : Owned(who)'
  <2>1. PICK who \in [1 .. MaxRequests -> User \cup {0}] : Owned(who)
    BY DEF RecordsInv
  <2>2. Owned(who)'
    BY <1>1, <1>6, <2>1 DEF Owned, Loads, Loaded
  <2> QED BY <2>2
<1>12. AuditAgreesWithEffects' /\ ConsentBehindEffects' /\ ChangesOwn'
  BY <1>1 DEF AuditAgreesWithEffects, ConsentBehindEffects, ChangesOwn
<1> QED
  BY <1>7, <1>8, <1>9, <1>10, <1>11, <1>12 DEF RecordsInv

(* The clock, a restart, and steps of something else.                      *)
LEMMA TimePassesKeeps ==
  ASSUME RecordsInv, NEW i \in Id, TimePasses(i)
  PROVE  RecordsInv'
<1> DEFINE key == <<"reminder", i>>
<1>1. TypeInv /\ UNCHANGED <<consent, job, requests, crashes, effects, recorded, answered>>
  BY DEF RecordsInv, TimePasses
<1>2. job' \in [Session -> Job] /\ \A t \in Session : Settles(t, job'[t])
  BY <1>1, GrownSame DEF TypeInv, Settles
<1>3. \A k \in DOMAIN table' : table'[k] \in Row /\ Kept(k)
  <2>1. table' = [table EXCEPT ![key].due = TRUE]
    BY DEF TimePasses
  <2>2. /\ DOMAIN table' = DOMAIN table
        /\ \A k \in DOMAIN table :
             /\ table[k] \in Row
             /\ table'[k] = table[k] \/ table'[k] = [table[k] EXCEPT !.due = TRUE]
    BY <1>1, <2>1 DEF TypeInv
  <2>3. \A row \in Row : LET due == [row EXCEPT !.due = TRUE]
                         IN  due \in Row /\ due.owner = row.owner /\ due.made = row.made
    BY DEF Row
  <2> QED BY <2>2, <2>3 DEF Kept
<1>4. crashes' \in 0 .. MaxCrashes
  BY <1>1 DEF TypeInv
<1> QED
  BY <1>1, <1>2, <1>3, <1>4, SettlingKeeps

LEMMA CrashKeeps ==
  ASSUME RecordsInv, Crash
  PROVE  RecordsInv'
<1>1. TypeInv /\ UNCHANGED <<consent, table, requests, effects, recorded, answered>>
  BY DEF RecordsInv, Crash
<1>2. job' \in [Session -> Job] /\ \A t \in Session : Settles(t, job'[t])
  BY IdleIs DEF Crash, Settles
<1>3. \A k \in DOMAIN table' : table'[k] \in Row /\ Kept(k)
  BY <1>1 DEF TypeInv, Kept
<1>4. crashes' \in 0 .. MaxCrashes
  BY <1>1, RecordsBoundsAssumption DEF TypeInv, Crash
<1> QED
  BY <1>1, <1>2, <1>3, <1>4, SettlingKeeps

LEMMA StutterKeeps ==
  ASSUME RecordsInv, UNCHANGED vars
  PROVE  RecordsInv'
<1>1. TypeInv /\ UNCHANGED <<consent, table, job, requests, crashes, effects, recorded, answered>>
  BY DEF RecordsInv, vars
<1>2. job' \in [Session -> Job] /\ \A t \in Session : Settles(t, job'[t])
  BY <1>1, GrownSame DEF TypeInv, Settles
<1>3. \A k \in DOMAIN table' : table'[k] \in Row /\ Kept(k)
  BY <1>1 DEF TypeInv, Kept
<1>4. crashes' \in 0 .. MaxCrashes
  BY <1>1 DEF TypeInv
<1> QED
  BY <1>1, <1>2, <1>3, <1>4, SettlingKeeps

(* At the start there are only reminders of their owners.                  *)
LEMMA RecordsInit ==
  ASSUME Init
  PROVE  RecordsInv
<1>1. TypeInv
  <2>1. consent \in [User -> [Category -> {"none", "granted", "denied"}]]
    BY DEF Init
  <2>2. /\ DOMAIN table = {"reminder"} \X DOMAIN Existing
        /\ \A k \in DOMAIN table :
             table[k] = [owner |-> Existing[k[2]], status |-> "pending", due |-> TRUE, made |-> 0]
    BY DEF Init
  <2>3. DOMAIN table \subseteq Kind \X Id
    BY <2>2, StartAssumption DEF Kind
  <2>4. \A k \in DOMAIN table : table[k] \in Row /\ table[k].made <= 0
    <3>1. \A u \in User : LET row == [owner |-> u, status |-> "pending", due |-> TRUE, made |-> 0]
                          IN  row \in Row /\ row.made = 0
      <4>1. "pending" \in Status /\ 0 \in 0 .. MaxRequests
        BY RecordsBoundsAssumption DEF Status
      <4> QED BY <4>1 DEF Row
    <3>2. \A k \in DOMAIN table : Existing[k[2]] \in User
      BY <2>2, StartAssumption
    <3> QED BY <2>2, <3>1, <3>2
  <2>5. \A s \in Session : job[s] = Idle
    BY DEF Init
  <2>6. job \in [Session -> Job]
    BY <2>5, IdleIs DEF Init
  <2>7. Sweeper \in Session /\ Worker \subseteq Session
    BY DEF Session
  <2> QED BY <2>1, <2>3, <2>4, <2>5, <2>6, <2>7, IdleIs, RecordsBoundsAssumption
          DEF Init, TypeInv
<1>2. \A s \in Session : job[s] = Idle
  BY DEF Init
<1>3. Answers
  BY <1>2 DEF Init, Answers, Session
<1>4. \A w \in Worker : WorkerInv(w)
  <2>1. \A w \in Worker : job[w] = Idle
    BY <1>2 DEF Session
  <2> QED BY <2>1, IdleFits, IdleIs DEF WorkerInv, Remembers
<1>5. SweeperInv
  <2>1. job[Sweeper] = Idle
    BY <1>2 DEF Session
  <2> QED BY <2>1, IdleFits DEF SweeperInv
<1>6. \E who \in [1 .. MaxRequests -> User \cup {0}] : Owned(who)
  <2> DEFINE who == [n \in 1 .. MaxRequests |-> 0]
  <2>1. who \in [1 .. MaxRequests -> User \cup {0}]
    OBVIOUS
  <2> HIDE DEF who
  <2>2. \A w \in Worker : job[w] = Idle
    BY <1>2 DEF Session
  <2>3. Owned(who)
    BY <2>2, IdleFits, IdleIs DEF Init, Owned
  <2> QED BY <2>1, <2>3
<1>7. AuditAgreesWithEffects /\ ConsentBehindEffects /\ ChangesOwn
  BY DEF Init, AuditAgreesWithEffects, ConsentBehindEffects, ChangesOwn
<1> QED
  BY <1>1, <1>3, <1>4, <1>5, <1>6, <1>7 DEF RecordsInv

LEMMA RecordsNext ==
  ASSUME RecordsInv, [Next]_vars
  PROVE  RecordsInv'
<1>1. CASE \E request \in Offered : Request(request[1], request[2])
  <2>1. PICK request \in Offered : Request(request[1], request[2])
    BY <1>1
  <2>2. request[1] \in User /\ request[2] \in Routes
    BY OfferedAssumption
  <2> QED BY <2>1, <2>2, RequestKeeps
<1>2. CASE \E s \in Session : SessionStep(s)
  <2>1. PICK s \in Session : SessionStep(s)
    BY <1>2
  <2> QED BY <2>1, RequireKeeps, GetKeeps, InsertKeeps, WriteKeeps, DeleteRowKeeps, RefreshKeeps,
             ReadListKeeps, FireKeeps, GetOneKeeps, UpsertKeeps, RecordKeeps DEF SessionStep
<1>3. CASE fire_due_reminders
  BY <1>3, SweepKeeps
<1>4. CASE \E i \in Id : TimePasses(i)
  BY <1>4, TimePassesKeeps
<1>5. CASE Crash
  BY <1>5, CrashKeeps
<1>6. CASE UNCHANGED vars
  BY <1>6, StutterKeeps
<1> QED
  BY <1>1, <1>2, <1>3, <1>4, <1>5, <1>6 DEF Next

-----------------------------------------------------------------------------
(* The invariant holds in all that can happen.                             *)
LEMMA RecordsInvHolds == Spec => []RecordsInv
<1>1. Init => RecordsInv
  BY RecordsInit
<1>2. RecordsInv /\ [Next]_vars => RecordsInv'
  BY RecordsNext
<1> QED
  BY <1>1, <1>2, PTL DEF Spec

(* Tables, sessions and bounds are always of their types.                  *)
THEOREM TypeCorrect == Spec => []TypeOK
<1>1. RecordsInv => TypeOK
  <2> SUFFICES ASSUME TypeInv PROVE TypeOK
    BY DEF RecordsInv
  <2>1. \A k \in DOMAIN table :
          table[k].owner \in User /\ table[k].due \in BOOLEAN /\ table[k].made \in 0 .. requests
    <3> SUFFICES ASSUME NEW k \in DOMAIN table
                 PROVE  /\ table[k].owner \in User /\ table[k].due \in BOOLEAN
                        /\ table[k].made \in 0 .. requests
      OBVIOUS
    <3>1. table[k] \in Row /\ table[k].made <= requests
      BY DEF TypeInv
    <3> QED BY <3>1, RecordsBoundsAssumption DEF TypeInv, Row
  <2> QED BY <2>1 DEF TypeInv, TypeOK
<1> QED
  BY <1>1, RecordsInvHolds, PTL

(* What a request did that was answered with success is in the audit log,  *)
(* and what the log says was created or fired was, whatever the other      *)
(* sessions do, whatever vanishes, and whenever the process is restarted.  *)
THEOREM AuditAgrees == Spec => []AuditAgreesWithEffects
<1>1. RecordsInv => AuditAgreesWithEffects
  BY DEF RecordsInv
<1> QED
  BY <1>1, RecordsInvHolds, PTL

(* No request reads or changes a row of a category that was not granted at *)
(* some time since the request arrived.                                    *)
THEOREM ConsentStandsBehind == Spec => []ConsentBehindEffects
<1>1. RecordsInv => ConsentBehindEffects
  BY DEF RecordsInv
<1> QED
  BY <1>1, RecordsInvHolds, PTL

(* What a request reads back is the row it looked up or made, or one that  *)
(* was made later: a row is told by who made it.                           *)
LEMMA ReadsBackOwn ==
  ASSUME RecordsInv, NEW w \in Worker, At(w, "refresh"), Present(w),
         table[Key(w)].made = job[w].loaded.made
  PROVE  table[Key(w)].owner = job[w].user
<1> DEFINE j == job[w]
           st == j.program[1]
           key == <<st.kind, j.id>>
<1>1. TypeInv /\ w \in Session /\ j.program # <<>>
  BY DEF RecordsInv, At, Session
<1>2. Now(w) = st /\ st.do = "refresh" /\ 1 \in 1 .. Len(j.program)
  BY <1>1, Busy DEF At
<1>3. key \in DOMAIN table /\ Key(w) = key
  BY <1>2 DEF Key, Present
<1>4. PICK who \in [1 .. MaxRequests -> User \cup {0}] : Owned(who)
  BY DEF RecordsInv
<1>5. Loaded(j, st.kind, who)
  BY <1>2, <1>4 DEF Owned, Loads, HasRow, Using
<1>6. table[key].made = j.loaded.made
  BY <1>3
<1>7. CASE j.loaded.made = 0
  <2>1. j.id \in DOMAIN Existing /\ Existing[j.id] = j.user
    BY <1>5, <1>7 DEF Loaded
  <2>2. table[key].owner = Existing[j.id]
    BY <1>3, <1>4, <1>6, <1>7 DEF Owned
  <2> QED BY <1>3, <2>1, <2>2
<1>8. CASE j.loaded.made # 0
  <2>1. who[j.loaded.made] = j.user
    BY <1>5, <1>8 DEF Loaded
  <2>2. table[key].owner = who[table[key].made]
    BY <1>3, <1>4, <1>6, <1>8 DEF Owned
  <2> QED BY <1>3, <1>6, <2>1, <2>2
<1> QED
  BY <1>7, <1>8

(* A request changes, deletes or reads back another user's row only where  *)
(* the row it looked up or made was deleted and its primary key given away *)
(* in between.                                                             *)
THEOREM OnlyOwners == Spec => []OwnersOnly
<1>1. RecordsInv => OwnersOnly
  BY ReadsBackOwn DEF RecordsInv, OwnersOnly, ShowsOwn
<1> QED
  BY <1>1, RecordsInvHolds, PTL

-----------------------------------------------------------------------------
(* The sweep and the rows it is still to fire.  A row that counts as fired *)
(* did so before.                                                          *)
NoneFired ==
  \A k \in DOMAIN table' :
    table'[k].status = "fired" => k \in DOMAIN table /\ table[k].status = "fired"

(* What the sweep is left with: all it had, or nothing.                    *)
SweepStays == job'[Sweeper].program = job[Sweeper].program \/ job'[Sweeper] = Idle

LEMMA UnfiredStays ==
  ASSUME SweepInv, NoneFired, SweepStays
  PROVE  SweepInv'
<1>1. CASE job'[Sweeper].program = job[Sweeper].program
  BY <1>1 DEF SweepInv, NeverFiredTwice, NoneFired
<1>2. CASE job'[Sweeper] = Idle
  <2>1. \A n : n \notin DOMAIN job'[Sweeper].program
    BY <1>2, IdleIs
  <2>2. Distinct(job'[Sweeper].program)
    BY <1>2, IdleFits
  <2> QED BY <2>1, <2>2 DEF SweepInv, NeverFiredTwice
<1> QED
  BY <1>1, <1>2 DEF SweepStays

(* A stage of the sweep: what it is left with, if it goes on.              *)
LEMMA SweepRest ==
  ASSUME RecordsInv, job[Sweeper].program # <<>>, NEW k \in Job,
         k.program = job[Sweeper].program, Step(Sweeper, k)
  PROVE  job'[Sweeper] = Idle \/ Follows(k, job'[Sweeper])
<1>1. job' = [job EXCEPT ![Sweeper] = Rest(k)] /\ job \in [Session -> Job]
  BY DEF Step, RecordsInv, TypeInv
<1>2. job'[Sweeper] = Rest(k)
  BY <1>1 DEF Session
<1>3. Rest(k) = Idle \/ Rest(k) = Left(k)
  BY DEF Rest, Left
<1>4. Follows(k, Left(k))
  BY LeftIs
<1> QED
  BY <1>2, <1>3, <1>4

(* Requests neither fire nor let a fired row be anew.                      *)
LEMMA WorkersUnfired ==
  ASSUME \A new \in Changes : "status" \in DOMAIN new => new.status # "fired",
         RecordsInv, NEW s \in Worker, SessionStep(s)
  PROVE  NoneFired /\ SweepStays
<1>1. /\ TypeInv /\ s # Sweeper /\ s \in Session /\ Sweeper \in Session
      /\ job \in [Session -> Job] /\ Shaped(job[s].program)
  BY SweeperAssumption DEF RecordsInv, TypeInv, Session, WorkerInv
<1>2. \A j : /\ job' = [job EXCEPT ![s] = j] => SweepStays
             /\ Step(s, j) => SweepStays
  BY <1>1 DEF Step, SweepStays
<1>3. Fail(s) => SweepStays
  BY <1>2 DEF Fail
<1>4. UNCHANGED table => NoneFired
  BY DEF NoneFired
<1>5. CASE Get(s) \/ Refresh(s) \/ ReadList(s) \/ GetOne(s) \/ Record(s)
  BY <1>2, <1>3, <1>4, <1>5 DEF Get, Refresh, ReadList, GetOne, Record
<1>6. CASE Require(s)
  <2>1. \/ Step(s, job[s])
        \/ job' = [job EXCEPT ![s] = Blocked(job[s], Now(s).kind)]
    BY <1>1, <1>6 DEF Require, Blocked
  <2> QED BY <1>2, <1>4, <1>6, <2>1 DEF Require
<1>7. CASE Insert(s)
  <2>1. PICK i \in NewIds(Now(s).kind) :
          /\ table' = [k \in DOMAIN table \cup {<<Now(s).kind, i>>} |->
                         IF k \in DOMAIN table THEN table[k]
                         ELSE [owner |-> job[s].user, status |-> "pending",
                               due |-> Now(s).new.due, made |-> job[s].request]]
          /\ Step(s, [job[s] EXCEPT !.id = i, !.loaded = table'[<<Now(s).kind, i>>]])
    BY <1>7 DEF Insert
  <2> QED BY <1>2, <2>1 DEF NoneFired
<1>8. CASE DeleteRow(s)
  BY <1>2, <1>8 DEF DeleteRow, NoneFired
<1>9. CASE Write(s)
  <2> DEFINE payload == Now(s).new
             attributes(moved) == {a \in DOMAIN payload : \/ a \in {"text"} \cup moved
                                                         \/ job[s].loaded[a] # payload[a]}
  <2>2. PICK moved \in SUBSET {"due"} :
          LET new == [a \in attributes(moved) |-> payload[a]]
          IN  IF DOMAIN new # {} /\ ~Present(s)
              THEN Fail(s) /\ UNCHANGED <<table, effects>>
              ELSE /\ IF DOMAIN new = {} THEN UNCHANGED <<table, effects>>
                      ELSE /\ table' = [table EXCEPT ![Key(s)] =
                                   [a \in DOMAIN @ |-> IF a \in DOMAIN new THEN new[a] ELSE @[a]]]
                           /\ Effect(s, job[s].id)
                   /\ Step(s, job[s])
    BY <1>9 DEF Write
  <2> DEFINE new == [a \in attributes(moved) |-> payload[a]]
             key == Key(s)
             written == [a \in DOMAIN table[key] |->
                           IF a \in DOMAIN new THEN new[a] ELSE table[key][a]]
  <2>1. SweepStays
    BY <1>2, <1>3, <1>9 DEF Write
  <2>3. \/ UNCHANGED table
        \/ Present(s) /\ table' = [table EXCEPT ![key] = written]
    BY <2>2
  <2>4. payload \in Payloads
    <3>1. /\ Now(s) = job[s].program[1] /\ job[s].program[1].do = "write"
          /\ 1 \in 1 .. Len(job[s].program)
      BY <1>1, <1>9, AtWork DEF Write
    <3> QED BY <1>1, <3>1 DEF Shaped
  <2>5. "status" \in DOMAIN payload => payload["status"] # "fired"
    BY <2>4 DEF Payloads
  <2>6. "status" \in DOMAIN new => new["status"] # "fired"
    BY <2>5
  <2>7. ASSUME Present(s)
        PROVE  written.status = "fired" => table[key].status = "fired"
    <3>1. table[key] \in Row
      BY <1>1, <2>7 DEF TypeInv, Present
    <3>2. "status" \in DOMAIN table[key]
      BY <3>1 DEF Row
    <3> HIDE DEF new
    <3> QED BY <2>6, <3>2
  <2> HIDE DEF written, key
  <2>8. NoneFired
    BY <2>3, <2>7 DEF NoneFired, Present, key
  <2> QED BY <2>1, <2>8
<1>10. CASE Fire(s)
  <2>1. job[s].program[1].do = "fire" /\ 1 \in 1 .. Len(job[s].program)
    BY <1>1, <1>10, Busy DEF Fire, At
  <2> QED BY <1>1, <2>1 DEF Shaped, Touching
<1>11. CASE Upsert(s)
  <2>1. CASE Fail(s)
    BY <1>3, <1>4, <1>11, <2>1 DEF Upsert
  <2>2. CASE ~Fail(s)
    <3>1. \/ job'[Sweeper] = job[Sweeper]
          \/ job'[Sweeper] = Knowing(job[Sweeper], Now(s).kind)
      BY <1>1, <1>11, <2>2 DEF Upsert, Knowing
    <3>2. job[Sweeper] \in Job
      BY <1>1
    <3>3. Knowing(job[Sweeper], Now(s).kind).program = job[Sweeper].program
      BY <3>2 DEF Knowing, Job
    <3> QED BY <1>4, <1>11, <3>1, <3>3 DEF SweepStays, Upsert
  <2> QED BY <2>1, <2>2
<1> QED
  BY <1>5, <1>6, <1>7, <1>8, <1>9, <1>10, <1>11 DEF SessionStep

(* What the sweep fires it does not fire again.                            *)
LEMMA SweeperUnfired ==
  ASSUME RecordsInv, SweepInv, SessionStep(Sweeper)
  PROVE  SweepInv'
<1> DEFINE j == job[Sweeper]
           p == j.program
           st == p[1]
<1>1. TypeInv /\ j \in Job /\ job \in [Session -> Job] /\ SweepShaped(p) /\ Sweeper \in Session
  BY DEF RecordsInv, TypeInv, SweeperInv, Session
<1>2. p # <<>>
  BY DEF SessionStep, At, Require, Get, Insert, Write, DeleteRow, Refresh, ReadList, Fire, GetOne,
         Upsert, Record
<1>3. Now(Sweeper) = st /\ 1 \in 1 .. Len(p)
  BY <1>1, <1>2, Busy
<1>4. Refresh(Sweeper) \/ Fire(Sweeper) \/ Record(Sweeper)
  <2>1. st.do \in {"fire", "refresh", "record"}
    BY <1>1, <1>3 DEF SweepShaped
  <2> QED BY <1>3, <2>1 DEF SessionStep, At, Require, Get, Insert, Write, DeleteRow, ReadList,
                            GetOne, Upsert
<1>5. /\ Distinct(p)
      /\ \A n \in 1 .. Len(p) : p[n].do = "fire" /\ <<"reminder", p[n].id>> \in DOMAIN table =>
                                  table[<<"reminder", p[n].id>>].status # "fired"
  <2>1. p \in Seq(StageType)
    BY <1>1 DEF Job
  <2> QED BY <2>1 DEF SweepInv, NeverFiredTwice
<1>6. CASE Fail(Sweeper) /\ UNCHANGED table
  <2>1. job'[Sweeper] = Idle
    BY <1>1, <1>6 DEF Fail
  <2> QED BY <1>6, <2>1, UnfiredStays DEF NoneFired, SweepStays
<1>7. ASSUME NEW k \in Job, k.program = p, Step(Sweeper, k),
             \A key \in DOMAIN table' : table'[key].status = "fired" =>
               /\ key \in DOMAIN table
               /\ table[key].status = "fired" \/ (st.do = "fire" /\ key = <<"reminder", st.id>>)
      PROVE  SweepInv'
  <2>1. job'[Sweeper] = Idle \/ Follows(k, job'[Sweeper])
    BY <1>2, <1>7, SweepRest
  <2>2. CASE job'[Sweeper] = Idle
    <3>1. \A n : n \notin DOMAIN job'[Sweeper].program
      BY <2>2, IdleIs
    <3>2. Distinct(job'[Sweeper].program)
      BY <2>2, IdleFits
    <3> QED BY <3>1, <3>2 DEF SweepInv, NeverFiredTwice
  <2>3. CASE Follows(k, job'[Sweeper])
    <3> DEFINE l == job'[Sweeper]
               q == l.program
    <3>1. Distinct(q)
      BY <1>5, <1>7, <2>3, DistinctRest
    <3>2. l \in Job
      <4>1. job' = [job EXCEPT ![Sweeper] = Rest(k)] /\ (Rest(k) = Idle \/ Rest(k) = Left(k))
        BY <1>7 DEF Step, Rest, Left
      <4>2. Rest(k) \in Job
        BY <1>2, <1>7, <4>1, LeftIs, IdleIs
      <4> QED BY <1>1, <4>1, <4>2
    <3>3. DOMAIN q = 1 .. Len(q)
      <4>1. q \in Seq(StageType)
        BY <3>2 DEF Job
      <4> QED BY <4>1
    <3> SUFFICES ASSUME NEW n \in 1 .. Len(q), q[n].do = "fire",
                        <<"reminder", q[n].id>> \in DOMAIN table',
                        table'[<<"reminder", q[n].id>>].status = "fired"
                 PROVE  FALSE
      BY <3>1, <3>3 DEF SweepInv, NeverFiredTwice
    <3>4. n + 1 \in 2 .. Len(p) /\ q[n] = p[n + 1]
      BY <1>7, <2>3, Later
    <3>5. 1 \in 1 .. n + 1 - 1 /\ n + 1 \in 1 .. Len(p)
      BY <3>4
    <3>6. st.do = "fire" /\ <<"reminder", q[n].id>> = <<"reminder", st.id>>
      <4> DEFINE key == <<"reminder", q[n].id>>
      <4>1. /\ key \in DOMAIN table
            /\ table[key].status = "fired" \/ (st.do = "fire" /\ key = <<"reminder", st.id>>)
        BY <1>7
      <4>2. key \in DOMAIN table => table[key].status # "fired"
        BY <1>5, <3>4, <3>5
      <4> HIDE DEF key
      <4>3. st.do = "fire" /\ key = <<"reminder", st.id>>
        BY <4>1, <4>2
      <4> QED BY <4>3 DEF key
    <3>7. p[n + 1].id # st.id
      BY <1>5, <3>4, <3>5, <3>6 DEF Distinct
    <3> QED BY <3>4, <3>6, <3>7
  <2> QED BY <2>1, <2>2, <2>3
<1>8. CASE UNCHANGED table /\ Step(Sweeper, j)
  BY <1>1, <1>7, <1>8
<1>9. CASE Fire(Sweeper) /\ <<"reminder", st.id>> \in DOMAIN table
  <2>1. /\ table' = [table EXCEPT ![<<"reminder", st.id>>].status = "fired"]
        /\ Step(Sweeper, Naming(j, st.id)) /\ st.do = "fire"
    BY <1>3, <1>9 DEF Fire, Naming, At
  <2>2. st.id \in Id
    BY <1>1, <1>3, <2>1 DEF SweepShaped
  <2>3. Naming(j, st.id) \in Job /\ Naming(j, st.id).program = p
    BY <1>1, <2>2, NamingIs DEF Varies
  <2>4. \A key \in DOMAIN table' : table'[key].status = "fired" =>
          /\ key \in DOMAIN table
          /\ table[key].status = "fired" \/ key = <<"reminder", st.id>>
    BY <2>1
  <2> QED BY <1>7, <2>1, <2>3, <2>4
<1>10. CASE Fire(Sweeper) /\ <<"reminder", st.id>> \notin DOMAIN table
  BY <1>3, <1>6, <1>10 DEF Fire
<1>11. CASE Refresh(Sweeper) \/ Record(Sweeper)
  BY <1>6, <1>8, <1>11 DEF Refresh, Record
<1> QED
  BY <1>4, <1>9, <1>10, <1>11

LEMMA SweepNext ==
  ASSUME \A new \in Changes : "status" \in DOMAIN new => new.status # "fired",
         RecordsInv, SweepInv, [Next]_vars
  PROVE  SweepInv'
<1>1. TypeInv /\ job \in [Session -> Job] /\ Sweeper \in Session
  BY DEF RecordsInv, TypeInv, Session
<1>2. CASE \E request \in Offered : Request(request[1], request[2])
  <2>1. PICK w \in Worker : \E k : job' = [job EXCEPT ![w] = k]
    BY <1>2 DEF Request
  <2>2. UNCHANGED table /\ job'[Sweeper] = job[Sweeper]
    BY <1>1, <1>2, <2>1, SweeperAssumption DEF Request, Session
  <2> QED BY <2>2, UnfiredStays DEF NoneFired, SweepStays
<1>3. CASE \E s \in Session : SessionStep(s)
  <2>1. PICK s \in Session : SessionStep(s)
    BY <1>3
  <2>2. CASE s \in Worker
    BY <2>1, <2>2, WorkersUnfired, UnfiredStays
  <2>3. CASE s = Sweeper
    BY <2>1, <2>3, SweeperUnfired
  <2> QED BY <2>2, <2>3 DEF Session
<1>4. CASE fire_due_reminders
  <2>1. PICK order \in SetToSeqs(due_before) :
          job' = [job EXCEPT ![Sweeper].program = Sweep(order)]
    BY <1>4 DEF fire_due_reminders
  <2> DEFINE p == Sweep(order)
  <2>2. /\ p \in Seq(StageType) /\ Distinct(p)
        /\ \A n \in 1 .. Len(p) : p[n].do = "fire" => p[n].id \in due_before
    BY <1>4, SweepMade DEF fire_due_reminders
  <2> HIDE DEF p
  <2>3. job'[Sweeper].program = p
    <3>1. job[Sweeper] \in Job
      BY <1>1
    <3>2. [job[Sweeper] EXCEPT !.program = p].program = p
      BY <3>1 DEF Job
    <3>3. job'[Sweeper] = [job[Sweeper] EXCEPT !.program = p]
      BY <1>1, <2>1 DEF p
    <3> QED BY <3>2, <3>3
  <2>4. \A i \in due_before : table'[<<"reminder", i>>].status # "fired"
    BY <1>4 DEF fire_due_reminders, due_before
  <2>5. DOMAIN p = 1 .. Len(p)
    BY <2>2
  <2> QED BY <2>2, <2>3, <2>4, <2>5 DEF SweepInv, NeverFiredTwice
<1>5. CASE \E i \in Id : TimePasses(i)
  <2>1. PICK i \in Id : TimePasses(i)
    BY <1>5
  <2>2. /\ table' = [table EXCEPT ![<<"reminder", i>>].due = TRUE] /\ UNCHANGED job
    BY <2>1 DEF TimePasses
  <2>3. NoneFired
    <3>1. \A row \in Row : [row EXCEPT !.due = TRUE].status = row.status
      BY DEF Row
    <3>2. \A k \in DOMAIN table : table[k] \in Row
      BY <1>1 DEF TypeInv
    <3> QED BY <2>2, <3>1, <3>2 DEF NoneFired
  <2> QED BY <2>2, <2>3, UnfiredStays DEF SweepStays
<1>6. CASE Crash
  <2>1. job'[Sweeper] = Idle /\ UNCHANGED table
    BY <1>6 DEF Crash, Session
  <2> QED BY <2>1, UnfiredStays DEF NoneFired, SweepStays
<1>7. CASE UNCHANGED vars
  BY <1>7, UnfiredStays DEF vars, NoneFired, SweepStays
<1> QED
  BY <1>2, <1>3, <1>4, <1>5, <1>6, <1>7 DEF Next

(* The sweep never fires a reminder again, unless a request writes "fired" *)
(* itself, which the schema lets it.                                       *)
THEOREM NoneFiredTwice ==
  ASSUME \A new \in Changes : "status" \in DOMAIN new => new.status # "fired"
  PROVE  Spec => []NeverFiredTwice
<1>1. Init => SweepInv
  <2> SUFFICES ASSUME Init PROVE SweepInv
    OBVIOUS
  <2>1. job[Sweeper] = Idle
    BY DEF Init, Session
  <2>2. \A n : n \notin DOMAIN job[Sweeper].program
    BY <2>1, IdleIs
  <2>3. Distinct(job[Sweeper].program)
    BY <2>1, IdleFits
  <2> QED BY <2>2, <2>3 DEF SweepInv, NeverFiredTwice
<1>2. RecordsInv /\ SweepInv /\ [Next]_vars => SweepInv'
  BY SweepNext
<1>3. SweepInv => NeverFiredTwice
  BY DEF SweepInv
<1> QED
  BY <1>1, <1>2, <1>3, RecordsInvHolds, PTL DEF Spec
=============================================================================
