-------------------------- MODULE RoundDriversProofs --------------------------
(***************************************************************************)
(* What holds of the drivers for every number of requests, epsilons and    *)
(* rounds: types and RecordsMoveOn, however operations overlap, and        *)
(* AloneItOwnsItsRounds, for as long as they do not.                       *)
(***************************************************************************)
EXTENDS RoundDrivers, TLAPS

State == [pc : {"off", "over", "reset", "check", "begin", "wait", "expired",
                "number", "save", "log"},
          eps : Nat, rounds : Nat, left : Nat, asked : Nat,
          closedOnce : BOOLEAN, record : Nat, number : Nat]

(* What a driver's state says: how much is left to do, and - once it has   *)
(* started a round - that all it stored is of rounds before that one.      *)
Fits(d, s) ==
  /\ s.pc = "reset" => s.eps > 0
  /\ s.pc \in {"check", "begin"} => s.left > 0
  /\ s.eps > 0 => s.rounds > 0
  /\ s.pc \in {"wait", "expired", "number", "save", "log"} =>
       \A r \in rows : r.by = d => r.round < s.asked
  /\ s.pc \in {"wait", "expired"} => s.asked <= id
  /\ s.pc \in {"number", "save", "log"} => s.asked <= s.record /\ s.record <= id

DriversInv == \A d \in Driver : Fits(d, op[d])

(* The newest record is that of the published round.                       *)
ResultsInv ==
  /\ \A r \in results : r.round <= id
  /\ stage = "published" => \E r \in results : r.round = id

Numbers == {0} \cup {r.number : r \in rows}

RowsInv ==
  /\ RecordsMoveOn
  /\ \A r \in rows : r.round <= id
  /\ \E n \in Numbers : \A m \in Numbers : m <= n

IInv == TypeOK /\ DriversInv /\ ResultsInv /\ RowsInv
-----------------------------------------------------------------------------
(* A set with a greatest element: Newest is that element.                  *)
LEMMA NewestIs ==
  ASSUME NEW S \in SUBSET Nat, NEW n \in S, \A m \in S : m <= n
  PROVE  Newest(S) = n
<1>1. Newest(S) \in S /\ \A m \in S : m <= Newest(S)
  BY DEF Newest
<1>2. Newest(S) \in Nat /\ n \in Nat /\ n <= Newest(S) /\ Newest(S) <= n
  BY <1>1
<1> QED
  BY <1>2

(* Of a published round, history[-1] is its record.                        *)
LEMMA LastIsCurrent ==
  ASSUME TypeOK, ResultsInv, stage = "published"
  PROVE  LastRound = id
<1> DEFINE S == {r.round : r \in results}
<1>1. id \in S /\ \A m \in S : m <= id
  BY DEF ResultsInv
<1>2. S \in SUBSET Nat
  BY DEF TypeOK, Server!Result
<1> HIDE DEF S
<1>3. Newest(S) = id
  BY <1>1, <1>2, NewestIs
<1> QED
  BY <1>3 DEF LastRound, S

(* A new row's number is a natural number, as every other.                 *)
LEMMA NumberType ==
  ASSUME TypeOK, RowsInv
  PROVE  NextNumber \in Nat
<1>1. PICK n \in Numbers : \A m \in Numbers : m <= n
  BY DEF RowsInv
<1>2. Numbers \in SUBSET Nat
  BY DEF Numbers, TypeOK
<1>3. Newest(Numbers) = n
  BY <1>1, <1>2, NewestIs
<1>4. NextNumber = Newest(Numbers) + 1
  BY DEF NextNumber, Numbers
<1> QED
  BY <1>2, <1>3, <1>4

(* A step of one driver that stores nothing and lets the round id only     *)
(* grow: the other drivers' states and the rows still say what they said.  *)
LEMMA OneDriver ==
  ASSUME IInv, NEW d \in Driver, NEW s \in State, Become(d, s),
         rows' = rows, id' \in Nat, id <= id', Fits(d, s)'
  PROVE  op' \in [Driver -> State] /\ DriversInv' /\ RowsInv'
<1> USE DEF IInv, TypeOK
<1>1. op \in [Driver -> State]
  BY DEF State
<1>2. op' \in [Driver -> State]
  BY <1>1 DEF Become
<1>3. ASSUME NEW e \in Driver PROVE Fits(e, op[e])'
  <2>1. CASE e = d
    BY <2>1, <1>1 DEF Become
  <2>2. CASE e # d
    <3>1. op'[e] = op[e] /\ op[e] \in State
      BY <2>2, <1>1 DEF Become
    <3>2. Fits(e, op[e])
      BY DEF DriversInv
    <3> QED
      BY <3>1, <3>2 DEF Fits, State
  <2> QED
    BY <2>1, <2>2
<1>4. RowsInv'
  BY DEF RowsInv, RecordsMoveOn, Numbers
<1> QED
  BY <1>2, <1>3, <1>4 DEF DriversInv

(* OneDriver for the steps that leave the coordinator and the rows alone.  *)
LEMMA QuietStep ==
  ASSUME IInv, NEW d \in Driver, NEW s \in State, Become(d, s),
         UNCHANGED <<stage, id, members, contributors, results, rows>>, running' \in BOOLEAN,
         overlap' \in BOOLEAN, Fits(d, s)
  PROVE  IInv'
<1>1. Fits(d, s)' /\ id' \in Nat /\ id <= id'
  BY DEF Fits, IInv, TypeOK
<1>2. op' \in [Driver -> State] /\ DriversInv' /\ RowsInv'
  BY <1>1, OneDriver
<1>3. TypeOK'
  BY <1>2 DEF IInv, TypeOK, State
<1>4. ResultsInv'
  BY DEF IInv, ResultsInv
<1> QED
  BY <1>2, <1>3, <1>4 DEF IInv

(* Whatever ends, its driver is at rest.                                   *)
LEMMA FinishFits ==
  ASSUME NEW d \in Driver, Finish(d), running \in BOOLEAN
  PROVE  /\ running' \in BOOLEAN
         /\ \E s \in State : Become(d, s) /\ Fits(d, s) /\ s.pc \in {"off", "over"}
<1> DEFINE s == [Off EXCEPT !.pc = IF d = Sweep THEN "off" ELSE "over"]
<1>1. s \in State /\ Fits(d, s) /\ s.pc \in {"off", "over"}
  BY DEF State, Fits, Off
<1>2. Become(d, s) /\ running' \in BOOLEAN
  BY DEF Finish
<1> QED
  BY <1>1, <1>2

(* An operation that ends, whichever way, keeps the invariant.             *)
LEMMA RaisesStep ==
  ASSUME IInv, NEW d \in Driver, Raises(d)
  PROVE  IInv'
<1>1. running \in BOOLEAN /\ overlap' \in BOOLEAN
  BY DEF IInv, TypeOK, Raises
<1>2. Finish(d) /\ UNCHANGED <<stage, id, members, contributors, results, rows>>
  BY DEF Raises, server
<1>3. running' \in BOOLEAN
  BY <1>1, <1>2, FinishFits
<1>4. PICK s \in State : Become(d, s) /\ Fits(d, s)
  BY <1>1, <1>2, FinishFits
<1> QED
  BY <1>1, <1>2, <1>3, <1>4, QuietStep

(* A driver's own state, typed.                                            *)
LEMMA OwnState ==
  ASSUME IInv, NEW d \in Driver
  PROVE  op[d] \in State /\ Fits(d, op[d])
BY DEF IInv, TypeOK, DriversInv, State

(* A driver that starts a round: its new state, typed.                     *)
LEMMA BegunState ==
  ASSUME NEW o \in State, o.left > 0, NEW n \in Nat
  PROVE  \E s \in State :
           /\ s = [o EXCEPT !.pc = "wait", !.left = @ - 1, !.asked = n, !.closedOnce = FALSE]
           /\ s.pc = "wait" /\ s.asked = n /\ s.eps = o.eps /\ s.rounds = o.rounds
<1>1. o.left \in Nat /\ o.left - 1 \in Nat
  BY DEF State
<1> DEFINE m == o.left - 1
<1>2. m \in Nat
  BY <1>1
<1> HIDE DEF m
<1>3. LET s == [o EXCEPT !.pc = "wait", !.left = m, !.asked = n, !.closedOnce = FALSE]
      IN  /\ s \in State /\ s.pc = "wait" /\ s.asked = n
          /\ s.eps = o.eps /\ s.rounds = o.rounds
  BY <1>2 DEF State
<1> QED
  BY <1>3 DEF m

(* start_round: the new id is above all stored rounds.                     *)
LEMMA BeginStep ==
  ASSUME IInv, NEW d \in Driver, Begin(d)
  PROVE  IInv'
<1>1. CASE Raises(d)
  BY <1>1, RaisesStep
<1>2. CASE /\ Server!Begin
           /\ Become(d, [op[d] EXCEPT !.pc = "wait", !.left = @ - 1, !.asked = id',
                                      !.closedOnce = FALSE])
           /\ UNCHANGED <<running, rows, overlap>>
  <2>1. op[d] \in State /\ Fits(d, op[d]) /\ op[d].left > 0
    BY OwnState DEF Begin, At, Fits
  <2>2. id \in Nat /\ id' = id + 1 /\ stage' = "gathering" /\ results' = results
        /\ members' \subseteq Client /\ contributors' \subseteq Client
    BY <1>2 DEF Server!Begin, IInv, TypeOK
  <2>3. id' \in Nat
    BY <2>2
  <2>4. \E s \in State :
          /\ s = [op[d] EXCEPT !.pc = "wait", !.left = @ - 1, !.asked = id', !.closedOnce = FALSE]
          /\ s.pc = "wait" /\ s.asked = id' /\ s.eps = op[d].eps /\ s.rounds = op[d].rounds
    BY <2>1, <2>3, BegunState
  <2>5. PICK s \in State : /\ Become(d, s) /\ s.pc = "wait" /\ s.asked = id'
                           /\ s.eps = op[d].eps /\ s.rounds = op[d].rounds
    BY <1>2, <2>4
  <2>6. \A r \in rows : r.round \in Nat /\ r.round < id + 1
    BY <2>2 DEF IInv, TypeOK, RowsInv
  <2>7. Fits(d, s)'
    BY <1>2, <2>1, <2>2, <2>5, <2>6 DEF Fits
  <2>8. op' \in [Driver -> State] /\ DriversInv' /\ RowsInv'
    BY <1>2, <2>2, <2>5, <2>7, OneDriver
  <2>9. TypeOK'
    BY <1>2, <2>2, <2>8 DEF IInv, TypeOK, State, Server!Stage
  <2>10. ResultsInv'
    BY <2>2 DEF IInv, TypeOK, ResultsInv, Server!Result
  <2> QED
    BY <2>8, <2>9, <2>10 DEF IInv
<1> QED
  BY <1>1, <1>2 DEF Begin

(* _wait_for_round and _wait_round: the record taken is of round id.       *)
LEMMA PollStep ==
  ASSUME IInv, NEW d \in Driver, Poll(d)
  PROVE  IInv'
<1>1. CASE Raises(d)
  BY <1>1, RaisesStep
<1>2. CASE /\ stage = "published"
           /\ Become(d, [op[d] EXCEPT !.pc = IF d = Sweep THEN "log" ELSE "number",
                                      !.record = LastRound])
           /\ UNCHANGED <<server, running, rows, overlap>>
  <2>1. LastRound = id /\ id \in Nat
    BY <1>2, LastIsCurrent DEF IInv, TypeOK
  <2>2. op[d] \in State /\ Fits(d, op[d]) /\ op[d].pc = "wait"
    BY OwnState DEF Poll, At
  <2>3. PICK p \in {"log", "number"} : p = IF d = Sweep THEN "log" ELSE "number"
    OBVIOUS
  <2>4. PICK s \in State : /\ s = [op[d] EXCEPT !.pc = p, !.record = id]
                           /\ Become(d, s)
    BY <1>2, <2>1, <2>2, <2>3 DEF State
  <2>5. Fits(d, s)
    BY <2>1, <2>2, <2>3, <2>4 DEF State, Fits
  <2> QED
    BY <1>2, <2>4, <2>5, QuietStep DEF IInv, TypeOK, server
<1> QED
  BY <1>1, <1>2 DEF Poll

(* reset_experiment keeps the round id, so what was stored stays older.    *)
LEMMA ResetStep ==
  ASSUME IInv, NEW d \in Driver, Reset(d)
  PROVE  IInv'
<1>1. op[d] \in State /\ Fits(d, op[d]) /\ op[d].pc = "reset"
  BY OwnState DEF Reset, At
<1>2. op[d].eps \in Nat /\ op[d].eps - 1 \in Nat /\ op[d].rounds > 0 /\ op[d].rounds \in Nat
  BY <1>1 DEF Fits, State
<1>3. PICK p \in {"begin", "check"} : p = IF d = Sweep THEN "begin" ELSE "check"
  OBVIOUS
<1>4. PICK n \in Nat : n = op[d].eps - 1
  BY <1>2
<1>5. PICK s \in State : s = [op[d] EXCEPT !.pc = p, !.eps = n, !.left = op[d].rounds]
  BY <1>1, <1>2, <1>3 DEF State
<1>6. /\ Become(d, s)
      /\ s.pc = p /\ s.left = op[d].rounds /\ s.rounds = op[d].rounds
  <2>1. Become(d, s)
    BY <1>3, <1>4, <1>5 DEF Reset
  <2>2. s.pc = p /\ s.left = op[d].rounds /\ s.rounds = op[d].rounds
    BY <1>1, <1>5 DEF State
  <2> QED
    BY <2>1, <2>2
<1>7. /\ stage' = "idle" /\ id' = id /\ results' = {} /\ members' = {}
      /\ contributors' = {} /\ UNCHANGED <<running, rows, overlap>>
  BY DEF Reset, Server!Abort
<1>8. Fits(d, s)'
  BY <1>2, <1>3, <1>6 DEF Fits
<1>9. op' \in [Driver -> State] /\ DriversInv' /\ RowsInv'
  BY <1>6, <1>7, <1>8, OneDriver DEF IInv, TypeOK
<1>10. TypeOK'
  BY <1>7, <1>9 DEF IInv, TypeOK, State, Server!Stage
<1>11. ResultsInv'
  BY <1>7 DEF ResultsInv
<1> QED
  BY <1>9, <1>10, <1>11 DEF IInv

(* Steps that only move a driver's program counter.                        *)
LEMMA GoToStep ==
  ASSUME IInv, NEW d \in Driver, NEW p \in {"begin", "expired"}, GoTo(d, p),
         UNCHANGED <<server, running, rows, overlap>>,
         \/ p = "begin" /\ op[d].pc = "check"
         \/ p = "expired" /\ op[d].pc = "wait"
  PROVE  IInv'
<1>1. op[d] \in State /\ Fits(d, op[d])
  BY OwnState
<1>2. PICK s \in State : s = [op[d] EXCEPT !.pc = p]
  BY <1>1 DEF State
<1>3. Become(d, s)
  BY <1>2 DEF GoTo
<1>4. /\ s.pc = p /\ s.eps = op[d].eps /\ s.rounds = op[d].rounds
      /\ s.left = op[d].left /\ s.asked = op[d].asked
  BY <1>1, <1>2 DEF State
<1>5. Fits(d, s)
  BY <1>1, <1>4 DEF Fits
<1> QED
  BY <1>3, <1>5, QuietStep DEF IInv, TypeOK, server

(* run() lets a request in or refuses it.                                  *)
LEMMA CheckStep ==
  ASSUME IInv, NEW d \in Driver, Check(d)
  PROVE  IInv'
BY GoToStep, RaisesStep DEF Check, At

(* The deadline of a wait passes.                                          *)
LEMMA DeadlineStep ==
  ASSUME IInv, NEW d \in Driver, Deadline(d)
  PROVE  IInv'
BY GoToStep, RaisesStep DEF Deadline, At

(* force_close_collection, or the timeout is raised.                       *)
LEMMA ForceCloseStep ==
  ASSUME IInv, NEW d \in Driver, ForceClose(d)
  PROVE  IInv'
<1>1. CASE Raises(d)
  BY <1>1, RaisesStep
<1>2. CASE /\ Server!Close
           /\ Become(d, [op[d] EXCEPT !.pc = "wait", !.closedOnce = TRUE])
           /\ UNCHANGED <<running, rows, overlap>>
  <2>1. op[d] \in State /\ Fits(d, op[d]) /\ op[d].pc = "expired"
    BY OwnState DEF ForceClose, At
  <2>2. PICK s \in State : s = [op[d] EXCEPT !.pc = "wait", !.closedOnce = TRUE]
    BY <2>1 DEF State
  <2>3. /\ stage' = "closed" /\ id' = id /\ results' = results
        /\ members' \subseteq Client /\ contributors' \subseteq Client
    BY <1>2 DEF Server!Close, IInv, TypeOK
  <2>4. Fits(d, s)'
    <3>1. /\ s.pc = "wait" /\ s.eps = op[d].eps
          /\ s.rounds = op[d].rounds /\ s.asked = op[d].asked
      BY <2>1, <2>2 DEF State
    <3> QED
      BY <1>2, <2>1, <2>3, <3>1 DEF Fits
  <2>5. op' \in [Driver -> State] /\ DriversInv' /\ RowsInv'
    BY <1>2, <2>2, <2>3, <2>4, OneDriver DEF IInv, TypeOK
  <2>6. TypeOK'
    BY <1>2, <2>3, <2>5 DEF IInv, TypeOK, State, Server!Stage
  <2>7. ResultsInv'
    BY <2>3 DEF IInv, ResultsInv
  <2> QED
    BY <2>5, <2>6, <2>7 DEF IInv
<1> QED
  BY <1>1, <1>2 DEF ForceClose

(* next_round_id reads a natural number.                                   *)
LEMMA ReadNumberStep ==
  ASSUME IInv, NEW d \in Driver, ReadNumber(d)
  PROVE  IInv'
<1>1. op[d] \in State /\ Fits(d, op[d]) /\ op[d].pc = "number"
  BY OwnState DEF ReadNumber, At
<1>2. NextNumber \in Nat
  BY NumberType DEF IInv
<1>3. PICK n \in Nat : n = NextNumber
  BY <1>2
<1>4. PICK s \in State : s = [op[d] EXCEPT !.pc = "save", !.number = n]
  BY <1>1 DEF State
<1>5. Become(d, s) /\ UNCHANGED <<server, running, rows, overlap>>
  BY <1>3, <1>4 DEF ReadNumber
<1>6. Fits(d, s)
  <2>1. /\ s.pc = "save" /\ s.eps = op[d].eps /\ s.rounds = op[d].rounds
        /\ s.asked = op[d].asked /\ s.record = op[d].record
    BY <1>1, <1>4 DEF State
  <2> QED
    BY <1>1, <2>1 DEF Fits
<1> QED
  BY <1>5, <1>6, QuietStep DEF IInv, TypeOK, server

(* The row is of a later round than all the others of its driver, and the  *)
(* numbers still have a greatest.                                          *)
LEMMA StoreRows ==
  ASSUME IInv, NEW d \in Driver, At(d, "save") \/ At(d, "log"),
         rows' = rows \cup {Row(d)}, id' = id
  PROVE  /\ rows' \subseteq [by : Driver, asked : Nat, round : Nat, number : Nat]
         /\ RowsInv'
<1>1. op[d] \in State /\ Fits(d, op[d])
  BY OwnState
<1> DEFINE new == Row(d)
<1>2. /\ new \in [by : Driver, asked : Nat, round : Nat, number : Nat]
      /\ new.by = d /\ new.asked = op[d].asked /\ new.round = op[d].record
  BY <1>1 DEF Row, State
<1>3. /\ new.asked <= new.round /\ new.round <= id
      /\ \A r \in rows : r.by = d => r.round < new.asked
  BY <1>1, <1>2 DEF At, Fits
<1> HIDE DEF new
<1>4. rows' = rows \cup {new}
  BY DEF new
<1>5. rows \subseteq [by : Driver, asked : Nat, round : Nat, number : Nat] /\ id \in Nat
  BY DEF IInv, TypeOK
<1>6. RecordsMoveOn'
  <2>1. ASSUME NEW r \in rows' PROVE r.round >= r.asked
    BY <1>2, <1>3, <1>4, <1>5, <2>1 DEF IInv, RowsInv, RecordsMoveOn
  <2>2. ASSUME NEW r \in rows', NEW s \in rows', s.by = r.by, s.asked < r.asked
        PROVE  s.round < r.asked
    <3>1. CASE r \in rows /\ s \in rows
      BY <2>2, <3>1 DEF IInv, RowsInv, RecordsMoveOn
    <3>2. CASE r = new /\ s \in rows
      BY <1>2, <1>3, <2>2, <3>2
    <3>3. CASE r \in rows /\ s = new
      <4>1. r.round < new.asked /\ r.round >= r.asked
        BY <1>2, <1>3, <2>2, <3>3 DEF IInv, RowsInv, RecordsMoveOn
      <4> QED
        BY <1>2, <1>5, <2>2, <3>3, <4>1
    <3>4. CASE r = new /\ s = new
      BY <1>2, <2>2, <3>4
    <3> QED
      BY <1>4, <2>2, <3>1, <3>2, <3>3, <3>4
  <2> QED
    BY <2>1, <2>2 DEF RecordsMoveOn
<1>7. \A r \in rows' : r.round <= id'
  BY <1>3, <1>4 DEF IInv, RowsInv
<1>8. \E n \in Numbers' : \A m \in Numbers' : m <= n
  <2>1. PICK n \in Numbers : \A m \in Numbers : m <= n
    BY DEF IInv, RowsInv
  <2>2. Numbers' = Numbers \cup {new.number}
    BY <1>4 DEF Numbers
  <2>3. Numbers \subseteq Nat /\ new.number \in Nat
    BY <1>2, <1>5 DEF Numbers
  <2>4. CASE new.number <= n
    BY <2>1, <2>2, <2>4
  <2>5. CASE ~(new.number <= n)
    BY <2>1, <2>2, <2>3, <2>5
  <2> QED
    BY <2>4, <2>5
<1> QED
  BY <1>2, <1>4, <1>5, <1>6, <1>7, <1>8 DEF RowsInv

(* What a driver does after a stored round fits whatever rows there are.   *)
LEMMA ProceedFits ==
  ASSUME IInv, NEW d \in Driver, Proceed(d)
  PROVE  /\ running' \in BOOLEAN
         /\ \E s \in State : /\ Become(d, s) /\ Fits(d, s)
                             /\ s.pc \in {"off", "over", "begin", "reset"}
<1>1. op[d] \in State /\ Fits(d, op[d]) /\ running \in BOOLEAN
  BY OwnState DEF IInv, TypeOK
<1>2. CASE Finish(d)
  BY <1>1, <1>2, FinishFits
<1>3. ASSUME NEW p \in {"begin", "reset"}, UNCHANGED running,
             Become(d, [[op[d] EXCEPT !.record = 0, !.number = 0] EXCEPT !.pc = p]),
             p = "begin" => op[d].left > 0, p = "reset" => op[d].eps > 0
      PROVE  \E s \in State : /\ Become(d, s) /\ Fits(d, s)
                              /\ s.pc \in {"off", "over", "begin", "reset"}
  <2>1. PICK t \in State : t = [op[d] EXCEPT !.record = 0, !.number = 0]
    BY <1>1 DEF State
  <2>2. PICK s \in State : s = [t EXCEPT !.pc = p]
    BY <2>1 DEF State
  <2>3. s.pc = p /\ s.left = op[d].left /\ s.eps = op[d].eps /\ s.rounds = op[d].rounds
    BY <1>1, <2>1, <2>2 DEF State
  <2>4. Fits(d, s)
    BY <1>1, <1>3, <2>3 DEF Fits
  <2> QED
    BY <1>3, <2>1, <2>2, <2>3, <2>4
<1>4. \/ /\ op[d].left > 0 /\ UNCHANGED running
         /\ Become(d, [[op[d] EXCEPT !.record = 0, !.number = 0] EXCEPT !.pc = "begin"])
      \/ /\ op[d].eps > 0 /\ UNCHANGED running
         /\ Become(d, [[op[d] EXCEPT !.record = 0, !.number = 0] EXCEPT !.pc = "reset"])
      \/ Finish(d)
  BY DEF Proceed
<1> QED
  BY <1>1, <1>2, <1>3, <1>4

(* A record is stored and the operation goes on.                           *)
LEMMA StoreStep ==
  ASSUME IInv, NEW d \in Driver, Store(d)
  PROVE  IInv'
<1>1. /\ At(d, "save") \/ At(d, "log")
      /\ rows' = rows \cup {Row(d)}
      /\ UNCHANGED <<stage, id, members, contributors, results, overlap>>
      /\ Proceed(d)
  BY DEF Store, server
<1>2. /\ rows' \subseteq [by : Driver, asked : Nat, round : Nat, number : Nat]
      /\ RowsInv'
  BY <1>1, StoreRows
<1>3. running' \in BOOLEAN
  BY <1>1, ProceedFits
<1>4. PICK s \in State : /\ Become(d, s) /\ Fits(d, s)
                         /\ s.pc \in {"off", "over", "begin", "reset"}
  BY <1>1, ProceedFits
<1>5. op \in [Driver -> State] /\ op' \in [Driver -> State]
  BY <1>4 DEF IInv, TypeOK, State, Become
<1>6. TypeOK'
  BY <1>1, <1>2, <1>3, <1>5 DEF IInv, TypeOK, State
<1>7. ASSUME NEW e \in Driver PROVE Fits(e, op[e])'
  <2>1. CASE e = d
    <3>1. op'[e] = s
      BY <1>4, <1>5, <2>1 DEF Become
    <3> QED
      BY <1>4, <3>1 DEF Fits
  <2>2. CASE e # d
    <3>1. op'[e] = op[e] /\ Fits(e, op[e])
      BY <1>4, <1>5, <2>2 DEF Become, IInv, DriversInv
    <3>2. \A r \in rows' : r.by = e => r \in rows
      BY <1>1, <2>2 DEF Row
    <3> QED
      BY <1>1, <3>1, <3>2 DEF Fits
  <2> QED
    BY <2>1, <2>2
<1>8. ResultsInv'
  BY <1>1 DEF IInv, ResultsInv
<1> QED
  BY <1>2, <1>6, <1>7, <1>8 DEF IInv, DriversInv

(* Operations that begin: a request, an experiment, a sweep.               *)
LEMMA ArrivalStep ==
  ASSUME IInv, Arrival
  PROVE  IInv'
<1>1. ASSUME NEW d \in Driver, NEW p \in {"check", "reset"}, NEW n \in 1 .. MaxRounds,
             NEW s \in State, s.pc = p, s.rounds = n,
             p = "check" => s.left = n, p = "reset" => s.eps > 0,
             Become(d, s), NoteOverlap(d), UNCHANGED <<server, rows>>, running' \in BOOLEAN
      PROVE  IInv'
  <2>1. Fits(d, s)
    BY <1>1 DEF Fits
  <2>2. overlap' \in BOOLEAN
    BY <1>1 DEF NoteOverlap, IInv, TypeOK
  <2> QED
    BY <1>1, <2>1, <2>2, QuietStep DEF server
<1>2. ASSUME NEW d \in Request, NEW n \in 1 .. MaxRounds, RunRequest(d, n)
      PROVE  IInv'
  <2>1. PICK s \in State : s = [Off EXCEPT !.pc = "check", !.rounds = n, !.left = n]
    <3>1. n \in Nat
      BY BoundsAssumption
    <3>2. [Off EXCEPT !.pc = "check", !.rounds = n, !.left = n] \in State
      BY <3>1 DEF State, Off
    <3> QED
      BY <3>2
  <2>2. s.pc = "check" /\ s.rounds = n /\ s.left = n
    BY <2>1 DEF Off
  <2>3. /\ Become(d, s) /\ NoteOverlap(d) /\ UNCHANGED <<server, rows>>
        /\ running' \in BOOLEAN
    BY <1>2, <2>1 DEF RunRequest, IInv, TypeOK
  <2> QED
    BY <1>1, <2>2, <2>3 DEF Driver
<1>3. ASSUME NEW e \in 1 .. MaxRounds, NEW n \in 1 .. MaxRounds
      PROVE  \E s \in State : /\ s = [Off EXCEPT !.pc = "reset", !.eps = e, !.rounds = n]
                              /\ s.pc = "reset" /\ s.rounds = n /\ s.eps > 0
  <2>1. e \in Nat /\ n \in Nat /\ e > 0
    BY BoundsAssumption
  <2>2. [Off EXCEPT !.pc = "reset", !.eps = e, !.rounds = n] \in State
    BY <2>1 DEF State, Off
  <2> QED
    BY <2>1, <2>2 DEF Off
<1>4. ASSUME NEW d \in Request, NEW e \in 1 .. MaxRounds, NEW n \in 1 .. MaxRounds,
             ExperimentRequest(d, e, n)
      PROVE  IInv'
  <2>1. PICK s \in State : /\ s = [Off EXCEPT !.pc = "reset", !.eps = e, !.rounds = n]
                           /\ s.pc = "reset" /\ s.rounds = n /\ s.eps > 0
    BY <1>3
  <2>2. /\ Become(d, s) /\ NoteOverlap(d) /\ UNCHANGED <<server, rows>>
        /\ running' \in BOOLEAN
    BY <1>4, <2>1 DEF ExperimentRequest, IInv, TypeOK
  <2> QED
    BY <1>1, <2>1, <2>2 DEF Driver
<1>5. ASSUME NEW e \in 1 .. MaxRounds, NEW n \in 1 .. MaxRounds, SweepStart(e, n)
      PROVE  IInv'
  <2>1. PICK s \in State : /\ s = [Off EXCEPT !.pc = "reset", !.eps = e, !.rounds = n]
                           /\ s.pc = "reset" /\ s.rounds = n /\ s.eps > 0
    BY <1>3
  <2>2. /\ Become(Sweep, s) /\ NoteOverlap(Sweep) /\ UNCHANGED <<server, rows>>
        /\ running' \in BOOLEAN
    BY <1>5, <2>1 DEF SweepStart
  <2> QED
    BY <1>1, <2>1, <2>2 DEF Driver
<1> QED
  BY <1>2, <1>4, <1>5 DEF Arrival

(* The round moves on; publishing adds the record of round id.             *)
LEMMA ClientsStep ==
  ASSUME IInv, ClientsMove
  PROVE  IInv'
<1>1. UNCHANGED <<op, running, rows, overlap>> /\ id' = id
  BY DEF ClientsMove, Server!Close, Server!Publish, Server!Fail, Server!OpenSecrets
<1>2. /\ stage' \in Server!Stage
      /\ members' \subseteq Client
      /\ contributors' \subseteq Client
      /\ results' \subseteq Server!Result
      /\ ResultsInv'
  <2> USE DEF IInv, TypeOK, ResultsInv, Server!Stage
  <2>1. CASE Server!Close
    BY <1>1, <2>1 DEF Server!Close
  <2>2. CASE Server!Fail
    BY <1>1, <2>2 DEF Server!Fail, Server!OpenSecrets
  <2>3. CASE Server!Publish
    <3> DEFINE new == [round |-> id, members |-> members, contributors |-> contributors]
    <3>1. /\ stage' = "published" /\ results' = results \cup {new}
          /\ UNCHANGED <<members, contributors>>
      BY <2>3 DEF Server!Publish, Server!OpenSecrets
    <3>2. new \in Server!Result /\ new.round = id
      BY DEF Server!Result
    <3> HIDE DEF new
    <3> QED
      BY <1>1, <3>1, <3>2
  <2> QED
    BY <2>1, <2>2, <2>3 DEF ClientsMove
<1>3. TypeOK'
  BY <1>1, <1>2 DEF IInv, TypeOK
<1>4. DriversInv' /\ RowsInv'
  BY <1>1 DEF IInv, DriversInv, Fits, RowsInv, RecordsMoveOn, Numbers
<1> QED
  BY <1>2, <1>3, <1>4 DEF IInv
-----------------------------------------------------------------------------
(* Nothing has been driven yet.                                            *)
LEMMA InvInit == Init => IInv
<1> SUFFICES ASSUME Init PROVE IInv
  OBVIOUS
<1>1. Off \in State /\ \A d \in Driver : Fits(d, Off)
  BY DEF Off, State, Fits
<1>2. TypeOK
  BY <1>1 DEF Init, Server!Init, TypeOK, Server!Stage, State
<1>3. DriversInv
  BY <1>1 DEF Init, DriversInv
<1>4. ResultsInv /\ RowsInv
  BY DEF Init, Server!Init, ResultsInv, RowsInv, RecordsMoveOn, Numbers
<1> QED
  BY <1>2, <1>3, <1>4 DEF IInv

(* One case per action of Next.                                            *)
LEMMA InvStep == IInv /\ [Next]_vars => IInv'
<1> SUFFICES ASSUME IInv, [Next]_vars PROVE IInv'
  OBVIOUS
<1>1. CASE Arrival
  BY <1>1, ArrivalStep
<1>2. CASE ClientsMove
  BY <1>2, ClientsStep
<1>3. ASSUME NEW d \in Driver, DriverStep(d) PROVE IInv'
  BY <1>3, ResetStep, CheckStep, BeginStep, PollStep, DeadlineStep, ForceCloseStep,
     ReadNumberStep, StoreStep DEF DriverStep
<1>4. CASE UNCHANGED vars
  BY <1>4 DEF vars, server, IInv, TypeOK, DriversInv, Fits, ResultsInv, RowsInv,
              RecordsMoveOn, Numbers
<1> QED
  BY <1>1, <1>2, <1>3, <1>4 DEF Next

(* IInv is inductive.                                                      *)
LEMMA InvHolds == Spec => []IInv
BY InvInit, InvStep, PTL DEF Spec

(* The drivers' state is well typed, also when operations overlap: counts  *)
(* of rounds and epsilons left never fall below zero.                      *)
THEOREM DriversTyped == Spec => []TypeOK
BY InvHolds, PTL DEF IInv

(* No driver ever stores a record older than the round it started, nor one *)
(* round twice (federated_service.py:81-83), for any number of operations. *)
THEOREM RecordsMoveOnHolds == Spec => []RecordsMoveOn
BY InvHolds, PTL DEF IInv, RowsInv
-----------------------------------------------------------------------------
(* As long as no operation began during another's, one driver is at work:  *)
(* the round it waits for is the coordinator's, and so is the record.      *)
OneBusy == \A d, e \in Driver : Busy(d) /\ Busy(e) => d = e

Owns(s) ==
  /\ s.pc \in {"wait", "expired"} => stage # "idle" /\ id = s.asked
  /\ s.pc \in {"number", "save", "log"} => s.record = s.asked
  /\ s.pc # "save" => s.number = 0
  /\ s.pc = "save" => \A r \in rows : r.number < s.number

RowsOwned ==
  /\ \A r \in rows : r.round = r.asked
  /\ \A r, s \in rows : r.number = s.number /\ r.number # 0 => r = s

AloneInv == ~overlap => OneBusy /\ (\A d \in Driver : Owns(op[d])) /\ RowsOwned

(* A step of the driver at work, the others being at rest.                 *)
LEMMA AloneStep ==
  ASSUME IInv, AloneInv, ~overlap, NEW d \in Driver, NEW s \in State, Become(d, s),
         \A e \in Driver \ {d} : ~Busy(e),
         Owns(s)', RowsOwned'
  PROVE  AloneInv'
<1>1. op \in [Driver -> State]
  BY DEF IInv, TypeOK, State
<1>2. ASSUME NEW e \in Driver, e # d
      PROVE  op'[e] = op[e] /\ op[e].pc \in {"off", "over"} /\ Owns(op[e])
  BY <1>1, <1>2 DEF Become, Busy, AloneInv
<1>3. op'[d] = s
  BY <1>1 DEF Become
<1>4. OneBusy'
  <2>1. ASSUME NEW e \in Driver, e # d PROVE ~Busy(e)'
    BY <1>2, <2>1 DEF Busy
  <2> QED BY <2>1 DEF OneBusy
<1>5. ASSUME NEW e \in Driver PROVE Owns(op[e])'
  <2>1. CASE e = d
    BY <1>3, <2>1 DEF Owns
  <2>2. CASE e # d
    BY <1>2, <2>2 DEF Owns
  <2> QED BY <2>1, <2>2
<1> QED
  BY <1>4, <1>5 DEF AloneInv

(* The driver at work: the others are at rest.                             *)
LEMMA OthersRest ==
  ASSUME IInv, AloneInv, ~overlap, NEW d \in Driver, Busy(d)
  PROVE  /\ \A e \in Driver \ {d} : ~Busy(e)
         /\ Owns(op[d]) /\ RowsOwned
         /\ op[d] \in State /\ op \in [Driver -> State]
  BY DEF IInv, TypeOK, State, AloneInv, OneBusy

(* A driver that is through owns nothing, ...                              *)
LEMMA FinishAlone ==
  ASSUME IInv, AloneInv, ~overlap, NEW d \in Driver, Busy(d), Finish(d), RowsOwned'
  PROVE  AloneInv'
<1> DEFINE s == [Off EXCEPT !.pc = IF d = Sweep THEN "off" ELSE "over"]
<1>1. s \in State /\ s.pc \in {"off", "over"} /\ s.number = 0
  BY DEF State, Off
<1>2. Become(d, s)
  BY DEF Finish
<1> HIDE DEF s
<1>3. Owns(s)'
  BY <1>1 DEF Owns
<1> QED
  BY <1>1, <1>2, <1>3, OthersRest, AloneStep

(* ... nor does one that gives up, whatever round it leaves behind.        *)
LEMMA RaisesAlone ==
  ASSUME IInv, AloneInv, ~overlap, NEW d \in Driver, Busy(d), Raises(d)
  PROVE  AloneInv'
<1>1. Finish(d) /\ UNCHANGED rows
  BY DEF Raises
<1>2. RowsOwned'
  BY <1>1, OthersRest DEF RowsOwned
<1> QED
  BY <1>1, <1>2, FinishAlone

(* Calls into the coordinator, and the wait for the round.                 *)
LEMMA ServerStepAlone ==
  ASSUME IInv, AloneInv, ~overlap, NEW d \in Driver,
         Reset(d) \/ Check(d) \/ Begin(d) \/ Poll(d) \/ Deadline(d) \/ ForceClose(d)
  PROVE  AloneInv'
<1>1. Busy(d)
  BY DEF Reset, Check, Begin, Poll, Deadline, ForceClose, At, Busy
<1>2. CASE Raises(d)
  BY <1>1, <1>2, RaisesAlone
<1>3. CASE ~Raises(d)
  <2>1. op[d] \in State /\ Owns(op[d]) /\ Fits(d, op[d]) /\ op[d].number = 0 /\ rows' = rows
    BY <1>1, <1>3, OthersRest, OwnState
       DEF Reset, Check, Begin, Poll, Deadline, ForceClose, At, Owns
  <2>2. RowsOwned'
    BY <1>1, <2>1, OthersRest DEF RowsOwned
  <2>3. SUFFICES \E s \in State : Become(d, s) /\ Owns(s)'
    BY <1>1, <2>2, OthersRest, AloneStep
  <2>4. CASE Reset(d)
    <3>1. PICK s \in State : s = [op[d] EXCEPT !.pc = IF d = Sweep THEN "begin" ELSE "check",
                                               !.eps = @ - 1, !.left = op[d].rounds]
      <4>1. op[d].eps - 1 \in Nat
        BY <2>1, <2>4 DEF Reset, At, Fits, State
      <4> QED BY <2>1, <4>1 DEF State
    <3>2. Become(d, s) /\ s.pc \in {"begin", "check"} /\ s.number = 0
      BY <2>1, <2>4, <3>1 DEF Reset, State
    <3> QED BY <3>2 DEF Owns
  <2>5. CASE Check(d)
    <3>1. PICK s \in State : s = [op[d] EXCEPT !.pc = "begin"]
      BY <2>1 DEF State
    <3>2. Become(d, s) /\ s.pc = "begin" /\ s.number = 0
      BY <1>3, <2>1, <2>5, <3>1 DEF Check, GoTo, State
    <3> QED BY <3>2 DEF Owns
  <2>6. CASE Begin(d)
    <3>1. PICK s \in State : s = [op[d] EXCEPT !.pc = "wait", !.left = @ - 1, !.asked = id',
                                               !.closedOnce = FALSE]
      <4>1. op[d].left > 0 /\ id' \in Nat
        BY <1>3, <2>1, <2>6 DEF Begin, At, Fits, Server!Begin, IInv, TypeOK
      <4>2. op[d].left - 1 \in Nat
        BY <2>1, <4>1 DEF State
      <4> QED BY <2>1, <4>1, <4>2 DEF State
    <3>2. Become(d, s) /\ s.pc = "wait" /\ s.asked = id' /\ s.number = 0
      BY <1>3, <2>1, <2>6, <3>1 DEF Begin, State
    <3>3. stage' = "gathering"
      BY <1>3, <2>6 DEF Begin, Server!Begin
    <3> QED BY <3>2, <3>3 DEF Owns
  <2>7. CASE Poll(d)
    <3>1. stage = "published"
      BY <1>3, <2>7 DEF Poll
    <3>2. LastRound = op[d].asked /\ LastRound \in Nat
      BY <2>1, <2>7, <3>1, LastIsCurrent DEF Poll, At, Owns, IInv, TypeOK
    <3>3. PICK n \in Nat : n = LastRound
      BY <3>2
    <3>4. PICK s \in State : s = [op[d] EXCEPT !.pc = IF d = Sweep THEN "log" ELSE "number",
                                               !.record = n]
      BY <2>1 DEF State
    <3>5. Become(d, s) /\ s.pc \in {"log", "number"} /\ s.record = s.asked /\ s.number = 0
      BY <1>3, <2>1, <2>7, <3>2, <3>3, <3>4 DEF Poll, State
    <3> QED BY <3>5 DEF Owns
  <2>8. CASE Deadline(d)
    <3>1. PICK s \in State : s = [op[d] EXCEPT !.pc = "expired"]
      BY <2>1 DEF State
    <3>2. /\ Become(d, s) /\ s.pc = "expired" /\ s.number = 0 /\ s.asked = op[d].asked
          /\ stage' = stage /\ id' = id /\ stage # "idle" /\ op[d].pc = "wait"
      BY <1>3, <2>1, <2>8, <3>1 DEF Deadline, GoTo, At, State, server
    <3> QED BY <2>1, <3>2 DEF Owns
  <2>9. CASE ForceClose(d)
    <3>1. PICK s \in State : s = [op[d] EXCEPT !.pc = "wait", !.closedOnce = TRUE]
      BY <2>1 DEF State
    <3>2. /\ Become(d, s) /\ s.pc = "wait" /\ s.number = 0 /\ s.asked = op[d].asked
          /\ stage' = "closed" /\ id' = id /\ op[d].pc = "expired"
      BY <1>3, <2>1, <2>9, <3>1 DEF ForceClose, Server!Close, At, State
    <3> QED BY <2>1, <3>2 DEF Owns
  <2> QED BY <2>4, <2>5, <2>6, <2>7, <2>8, <2>9
<1> QED
  BY <1>2, <1>3

(* A number is read that is greater than all in use, ...                   *)
LEMMA ReadNumberAlone ==
  ASSUME IInv, AloneInv, ~overlap, NEW d \in Driver, ReadNumber(d)
  PROVE  AloneInv'
<1>1. /\ Busy(d) /\ op[d].pc = "number"
      /\ UNCHANGED rows /\ Become(d, [op[d] EXCEPT !.pc = "save", !.number = NextNumber])
  BY DEF ReadNumber, At, Busy
<1>2. op[d] \in State /\ Owns(op[d]) /\ RowsOwned
  BY <1>1, OthersRest
<1>3. NextNumber \in Nat /\ \A r \in rows : r.number < NextNumber
  <2>1. PICK n \in Numbers : \A m \in Numbers : m <= n
    BY DEF IInv, RowsInv
  <2>2. Numbers \in SUBSET Nat /\ \A r \in rows : r.number \in Numbers
    BY DEF Numbers, IInv, TypeOK
  <2>3. Newest(Numbers) = n
    BY <2>1, <2>2, NewestIs
  <2>4. NextNumber = n + 1
    BY <2>3 DEF NextNumber, Numbers
  <2>5. n \in Nat
    BY <2>2
  <2>6. ASSUME NEW r \in rows PROVE r.number < n + 1
    <3>1. r.number \in Nat /\ r.number <= n
      BY <2>1, <2>2
    <3> QED BY <2>5, <3>1
  <2> QED BY <2>4, <2>5, <2>6
<1>4. PICK n \in Nat : n = NextNumber
  BY <1>3
<1>5. PICK s \in State : s = [op[d] EXCEPT !.pc = "save", !.number = n]
  BY <1>2 DEF State
<1>6. s.pc = "save" /\ s.number = n /\ s.record = op[d].record /\ s.asked = op[d].asked
  BY <1>2, <1>5 DEF State
<1>7. Owns(s)'
  BY <1>1, <1>2, <1>3, <1>4, <1>6 DEF Owns
<1>8. RowsOwned'
  BY <1>1, <1>2 DEF RowsOwned
<1> QED
  BY <1>1, <1>4, <1>5, <1>7, <1>8, OthersRest, AloneStep

(* ... and the row that is stored is of the round that was asked for.      *)
LEMMA StoreAlone ==
  ASSUME IInv, AloneInv, ~overlap, NEW d \in Driver, Store(d)
  PROVE  AloneInv'
<1>1. /\ Busy(d) /\ op[d].pc \in {"save", "log"}
      /\ rows' = rows \cup {Row(d)} /\ Proceed(d)
  BY DEF Store, At, Busy
<1>2. op[d] \in State /\ Owns(op[d]) /\ RowsOwned
  BY <1>1, OthersRest
<1>3. RowsOwned'
  <2> DEFINE new == Row(d)
  <2>1. /\ new.round = new.asked /\ new.number = op[d].number
        /\ new.number # 0 => \A r \in rows : r.number # new.number
    <3>1. new.round = op[d].record /\ new.asked = op[d].asked /\ new.number = op[d].number
      BY DEF Row
    <3>2. op[d].pc = "save" => \A r \in rows : r.number < op[d].number
      BY <1>2 DEF Owns
    <3>3. \A r \in rows : r.number \in Nat
      BY DEF IInv, TypeOK
    <3>4. op[d].number \in Nat
      BY <1>2 DEF State
    <3> HIDE DEF new
    <3> QED BY <1>1, <1>2, <3>1, <3>2, <3>3, <3>4 DEF Owns
  <2> HIDE DEF new
  <2>2. rows' = rows \cup {new}
    BY <1>1 DEF new
  <2>3. ASSUME NEW r \in rows', NEW s \in rows', r.number = s.number, r.number # 0 PROVE r = s
    BY <1>2, <2>1, <2>2, <2>3 DEF RowsOwned
  <2> QED BY <1>2, <2>1, <2>2, <2>3 DEF RowsOwned
<1>4. CASE Finish(d)
  BY <1>1, <1>3, <1>4, FinishAlone
<1>5. ASSUME NEW p \in {"begin", "reset"},
             Become(d, [[op[d] EXCEPT !.record = 0, !.number = 0] EXCEPT !.pc = p])
      PROVE  AloneInv'
  <2>1. PICK t \in State : t = [op[d] EXCEPT !.record = 0, !.number = 0]
    BY <1>2 DEF State
  <2>2. PICK s \in State : s = [t EXCEPT !.pc = p]
    BY <2>1 DEF State
  <2>3. s.pc = p /\ s.number = 0
    BY <1>2, <2>1, <2>2 DEF State
  <2>4. Owns(s)'
    BY <2>3 DEF Owns
  <2> QED BY <1>1, <1>3, <1>5, <2>1, <2>2, <2>4, OthersRest, AloneStep
<1>6. \/ Become(d, [[op[d] EXCEPT !.record = 0, !.number = 0] EXCEPT !.pc = "begin"])
      \/ Become(d, [[op[d] EXCEPT !.record = 0, !.number = 0] EXCEPT !.pc = "reset"])
      \/ Finish(d)
  BY <1>1 DEF Proceed
<1> QED
  BY <1>4, <1>5, <1>6

(* An operation begins: while all are at rest, or it is an overlap.        *)
LEMMA ArrivalAlone ==
  ASSUME IInv, AloneInv, Arrival, ~overlap'
  PROVE  AloneInv'
<1>1. ASSUME NEW d \in Driver, NEW s \in State, s.pc \in {"check", "reset"}, s.number = 0,
             NoteOverlap(d), UNCHANGED rows, Become(d, s)
      PROVE  AloneInv'
  <2>1. ~overlap /\ \A e \in Driver \ {d} : ~Busy(e)
    BY <1>1 DEF NoteOverlap
  <2>2. RowsOwned'
    BY <1>1, <2>1 DEF AloneInv, RowsOwned
  <2>3. Owns(s)'
    BY <1>1 DEF Owns
  <2> QED BY <1>1, <2>1, <2>2, <2>3, AloneStep
<1>2. 1 .. MaxRounds \subseteq Nat /\ Request \subseteq Driver /\ Sweep \in Driver
  BY BoundsAssumption DEF Driver
<1>3. ASSUME NEW d \in Request, NEW rounds \in 1 .. MaxRounds, RunRequest(d, rounds)
      PROVE  AloneInv'
  <2>1. d \in Driver /\ rounds \in Nat /\ NoteOverlap(d) /\ UNCHANGED rows
    BY <1>2, <1>3 DEF RunRequest
  <2>2. PICK s \in State : s = [Off EXCEPT !.pc = "check", !.rounds = rounds, !.left = rounds]
    BY <2>1 DEF State, Off
  <2>3. s.pc = "check" /\ s.number = 0
    BY <2>2 DEF Off
  <2>4. Become(d, s)
    BY <1>3, <2>2 DEF RunRequest
  <2> QED BY <1>1, <2>1, <2>3, <2>4
<1>4. ASSUME NEW d \in Driver, NEW eps \in 1 .. MaxRounds, NEW rounds \in 1 .. MaxRounds,
             NoteOverlap(d), UNCHANGED rows,
             Become(d, [Off EXCEPT !.pc = "reset", !.eps = eps, !.rounds = rounds])
      PROVE  AloneInv'
  <2>1. PICK s \in State : s = [Off EXCEPT !.pc = "reset", !.eps = eps, !.rounds = rounds]
    BY <1>2 DEF State, Off
  <2>2. s.pc = "reset" /\ s.number = 0
    BY <2>1 DEF Off
  <2>3. Become(d, s)
    BY <1>4, <2>1
  <2> QED BY <1>1, <1>4, <2>2, <2>3
<1> QED
  BY <1>2, <1>3, <1>4 DEF Arrival, SweepStart, ExperimentRequest

(* One case per action of Next.                                            *)
LEMMA AloneKept == IInv /\ AloneInv /\ [Next]_vars => AloneInv'
<1> SUFFICES ASSUME IInv, AloneInv, [Next]_vars, ~overlap' PROVE AloneInv'
  BY DEF AloneInv
<1>1. CASE Arrival
  BY <1>1, ArrivalAlone
<1>2. CASE ClientsMove
  <2>1. UNCHANGED <<op, rows, overlap, id>> /\ stage' # "idle"
    BY <1>2 DEF ClientsMove, Server!Close, Server!Publish, Server!Fail, Server!OpenSecrets
  <2>2. ASSUME NEW d \in Driver, Owns(op[d]) PROVE Owns(op[d])'
    BY <2>1, <2>2 DEF Owns
  <2>3. OneBusy => OneBusy'
    BY <2>1 DEF OneBusy, Busy
  <2> QED BY <2>1, <2>2, <2>3 DEF AloneInv, RowsOwned
<1>3. ASSUME NEW d \in Driver, DriverStep(d) PROVE AloneInv'
  <2>1. ~overlap
    BY <1>3 DEF DriverStep, Reset, Check, Begin, Poll, Deadline, ForceClose, ReadNumber,
                Store, Raises
  <2> QED BY <1>3, <2>1, ServerStepAlone, ReadNumberAlone, StoreAlone DEF DriverStep
<1>4. CASE UNCHANGED vars
  BY <1>4 DEF vars, server, AloneInv, OneBusy, Busy, Owns, RowsOwned
<1> QED
  BY <1>1, <1>2, <1>3, <1>4 DEF Next

(* AloneItOwnsItsRounds: as long as no operation began during another's,   *)
(* every stored row is of the round its driver asked for, its number names *)
(* no other row, and a driver waits for the coordinator's own round.       *)
THEOREM AloneItOwnsItsRoundsHolds == Spec => []AloneItOwnsItsRounds
<1>1. Init => AloneInv
  BY DEF Init, Server!Init, Off, AloneInv, OneBusy, Busy, Owns, RowsOwned
<1>2. AloneInv => AloneItOwnsItsRounds
  BY DEF AloneInv, AloneItOwnsItsRounds, Owns, RowsOwned, At
<1> QED
  BY <1>1, <1>2, AloneKept, InvHolds, PTL DEF Spec
=============================================================================
