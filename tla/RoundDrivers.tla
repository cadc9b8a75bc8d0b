----------------------------- MODULE RoundDrivers -----------------------------
(***************************************************************************)
(* The operations of the web application that drive rounds: a request for  *)
(* rounds and an experiment (app/services/federated_service.py), each in a *)
(* worker thread of its own, and the epsilon sweep's background thread     *)
(* (fl/pipeline/supervisor.py).  They share one coordinator, of which only *)
(* the abstract round (FLRound.tla) matters here; clients move it on.      *)
(*                                                                         *)
(* A call into the coordinator holds its lock and is a step; between two   *)
(* calls everybody else may move.  Nobody owns a round: whoever polls DONE *)
(* takes the newest record.                                                *)
(***************************************************************************)
EXTENDS Naturals, FiniteSets

CONSTANTS
  Client,
  Request,               \* POST /federated/round and /federated/experiment
  Sweep,                 \* the thread of the sweep runner
  MaxRounds,             \* bound on the rounds one operation asks for
  MaxRound               \* bound on round ids

ASSUME SweepAssumption == Sweep \notin Request
ASSUME BoundsAssumption == MaxRounds \in Nat /\ MaxRound \in Nat

Driver == Request \cup {Sweep}

VARIABLES
  stage, id, members, contributors, openedSelf, openedKey, results,
  op,                    \* where each driver is
  running,               \* SweepRunner's flag
  rows,                  \* what was stored of the rounds, one row for each
  overlap                \* has an operation ever begun during another's?

Server == INSTANCE FLRound

server == <<stage, id, members, contributors, openedSelf, openedKey, results>>
vars   == <<server, op, running, rows, overlap>>

Off == [pc |-> "off", eps |-> 0, rounds |-> 0, left |-> 0, asked |-> 0,
        closedOnce |-> FALSE, record |-> 0, number |-> 0]

Init ==
  /\ Server!Init
  /\ op = [d \in Driver |-> Off]
  /\ running = FALSE
  /\ rows = {}
  /\ overlap = FALSE

At(d, place) == op[d].pc = place
Busy(d) == op[d].pc \notin {"off", "over"}
Become(d, state) == op' = [op EXCEPT ![d] = state]
GoTo(d, place) == Become(d, [op[d] EXCEPT !.pc = place])

Newest(S) == CHOOSE n \in S : \A m \in S : m <= n

\* history[-1]; the history is in round order (Coordinator!HistoryExplainsModel).
LastRound == Newest({r.round : r \in results})

(* An operation is over; the sweep's finally clears its flag.              *)
Finish(d) ==
  /\ Become(d, [Off EXCEPT !.pc = IF d = Sweep THEN "off" ELSE "over"])
  /\ running' = (running /\ d # Sweep)

\* Mutant: a sweep that raises leaves its flag set.
RaiseWithoutFinally(d) ==
  /\ Become(d, [Off EXCEPT !.pc = IF d = Sweep THEN "off" ELSE "over"])
  /\ UNCHANGED <<running, server, rows, overlap>>

Raises(d) == Finish(d) /\ UNCHANGED <<server, rows, overlap>>

NoteOverlap(d) == overlap' = (overlap \/ \E e \in Driver \ {d} : Busy(e))
-----------------------------------------------------------------------------
(* A request arrives.  An experiment resets before run() checks anything.  *)
RunRequest(d, rounds) ==
  /\ d \in Request /\ At(d, "off")
  /\ Become(d, [Off EXCEPT !.pc = "check", !.rounds = rounds, !.left = rounds])
  /\ NoteOverlap(d)
  /\ UNCHANGED <<server, running, rows>>

ExperimentRequest(d, eps, rounds) ==
  /\ d \in Request /\ At(d, "off")
  /\ Become(d, [Off EXCEPT !.pc = "reset", !.eps = eps, !.rounds = rounds])
  /\ NoteOverlap(d)
  /\ UNCHANGED <<server, running, rows>>

(* start() sees the coordinator's phase; its thread resets some time later.*)
SweepStart(eps, rounds) ==
  /\ ~running
  /\ stage \in {"idle", "published"}
  /\ running' = TRUE
  /\ Become(Sweep, [Off EXCEPT !.pc = "reset", !.eps = eps, !.rounds = rounds])
  /\ NoteOverlap(Sweep)
  /\ UNCHANGED <<server, rows>>

Reset(d) ==
  /\ At(d, "reset")
  /\ Server!Abort
  /\ Become(d, [op[d] EXCEPT !.pc = IF d = Sweep THEN "begin" ELSE "check",
                             !.eps = @ - 1, !.left = op[d].rounds])
  /\ UNCHANGED <<running, rows, overlap>>

(* run() refuses while a sweep runs, or with too few clients.              *)
Check(d) ==
  /\ At(d, "check")
  /\ \/ ~running /\ GoTo(d, "begin") /\ UNCHANGED <<server, running, rows, overlap>>
     \/ Raises(d)

(* start_round raises while another round is in progress, or too few       *)
(* clients are left.                                                       *)
Begin(d) ==
  /\ At(d, "begin")
  /\ \/ /\ id < MaxRound
        /\ Server!Begin
        /\ Become(d, [op[d] EXCEPT !.pc = "wait", !.left = @ - 1, !.asked = id',
                                   !.closedOnce = FALSE])
        /\ UNCHANGED <<running, rows, overlap>>
     \/ Raises(d)

\* Mutant: any history entry will do, whatever the phase.
PollAnyHistory(d) ==
  /\ At(d, "wait")
  /\ \/ /\ results # {}
        /\ Become(d, [op[d] EXCEPT !.pc = IF d = Sweep THEN "log" ELSE "number",
                                   !.record = LastRound])
        /\ UNCHANGED <<server, running, rows, overlap>>
     \/ results = {} /\ stage = "idle" /\ Raises(d)

(* Phase and history are read under the lock, every tenth of a second.     *)
Poll(d) ==
  /\ At(d, "wait")
  /\ \/ /\ stage = "published" /\ results # {}
        /\ Become(d, [op[d] EXCEPT !.pc = IF d = Sweep THEN "log" ELSE "number",
                                   !.record = LastRound])
        /\ UNCHANGED <<server, running, rows, overlap>>
     \/ stage = "idle" /\ Raises(d)

\* Mutant: a round that cannot be closed yet is waited for once more.
DeadlineWaitsOn(d) ==
  /\ At(d, "wait")
  /\ stage \notin {"published", "idle"}
  /\ stage = "gathering" /\ ~op[d].closedOnce
  /\ GoTo(d, "expired")
  /\ UNCHANGED <<server, running, rows, overlap>>

(* The deadline passes.  Only a round seen in COLLECT, and not closed by   *)
(* this wait before, gets another chance; "gathering" is COLLECT or not.   *)
Deadline(d) ==
  /\ At(d, "wait")
  /\ stage \notin {"published", "idle"}
  /\ \/ /\ stage = "gathering" /\ ~op[d].closedOnce
        /\ GoTo(d, "expired")
        /\ UNCHANGED <<server, running, rows, overlap>>
     \/ Raises(d)

(* By now the round may be another one; force_close_collection refuses     *)
(* outside COLLECT and below the threshold.                                *)
ForceClose(d) ==
  /\ At(d, "expired")
  /\ \/ /\ Server!Close
        /\ Become(d, [op[d] EXCEPT !.pc = "wait", !.closedOnce = TRUE])
        /\ UNCHANGED <<running, rows, overlap>>
     \/ Raises(d)

\* Mutant: the rounds are numbered as in the coordinator's history.
NextNumberInHistory == Cardinality(results) + 1

(* next_round_id and save_round are two transactions.                      *)
NextNumber == Newest({0} \cup {r.number : r \in rows}) + 1

ReadNumber(d) ==
  /\ At(d, "number")
  /\ Become(d, [op[d] EXCEPT !.pc = "save", !.number = NextNumber])
  /\ UNCHANGED <<server, running, rows, overlap>>

Row(d) == [by |-> d, asked |-> op[d].asked, round |-> op[d].record,
           number |-> op[d].number]

\* Mutant: one round too many.
ProceedOnceMore(d) ==
  LET next == [op[d] EXCEPT !.record = 0, !.number = 0]
  IN  CASE op[d].left >= 0 -> Become(d, [next EXCEPT !.pc = "begin"]) /\ UNCHANGED running
        [] OTHER -> Finish(d)

(* What follows a stored round: the next one, the next epsilon or the end. *)
Proceed(d) ==
  LET next == [op[d] EXCEPT !.record = 0, !.number = 0]
  IN  CASE op[d].left > 0 -> Become(d, [next EXCEPT !.pc = "begin"]) /\ UNCHANGED running
        [] op[d].left = 0 /\ op[d].eps > 0 ->
             Become(d, [next EXCEPT !.pc = "reset"]) /\ UNCHANGED running
        [] OTHER -> Finish(d)

Store(d) ==
  /\ At(d, "save") \/ At(d, "log")
  /\ rows' = rows \cup {Row(d)}
  /\ Proceed(d)
  /\ UNCHANGED <<server, overlap>>
-----------------------------------------------------------------------------
Arrival ==
  \/ \E d \in Request, rounds \in 1 .. MaxRounds : RunRequest(d, rounds)
  \/ \E eps, rounds \in 1 .. MaxRounds :
       /\ eps * rounds <= MaxRounds
       /\ SweepStart(eps, rounds) \/ \E d \in Request : ExperimentRequest(d, eps, rounds)

DriverStep(d) ==
  \/ Reset(d) \/ Check(d) \/ Begin(d) \/ Poll(d) \/ Deadline(d) \/ ForceClose(d)
  \/ ReadNumber(d) \/ Store(d)

(* What the clients' requests do to the round.  Drivers do not see secrets *)
(* being opened; aggregation, which may fail, begins when all have been.   *)
ClientsMove ==
  /\ Server!Close \/ Server!Publish \/ (Server!Fail /\ openedSelf' = contributors)
  /\ UNCHANGED <<op, running, rows, overlap>>

Next == Arrival \/ ClientsMove \/ \E d \in Driver : DriverStep(d)

Spec == Init /\ [][Next]_vars

(* Worker threads keep running and their deadlines pass; that the clients  *)
(* do anything, or that anybody sends a request, is not assumed.           *)
FairSpec == Spec /\ \A d \in Driver : WF_vars(DriverStep(d))
-----------------------------------------------------------------------------
TypeOK ==
  /\ stage \in Server!Stage
  /\ id \in Nat
  /\ members \subseteq Client
  /\ contributors \subseteq Client
  /\ results \subseteq Server!Result
  /\ op \in [Driver -> [pc : {"off", "over", "reset", "check", "begin", "wait", "expired",
                             "number", "save", "log"},
                      eps : Nat, rounds : Nat, left : Nat, asked : Nat,
                      closedOnce : BOOLEAN, record : Nat, number : Nat]]
  /\ running \in BOOLEAN
  /\ rows \subseteq [by : Driver, asked : Nat, round : Nat, number : Nat]
  /\ overlap \in BOOLEAN

(* "Do not use a stale history entry" (federated_service.py:82), however   *)
(* operations and resets interleave: what a driver stores is of no earlier *)
(* round than the one it started, and no round is stored twice by it.      *)
RecordsMoveOn ==
  \A r \in rows : /\ r.round >= r.asked
                  /\ \A s \in rows : s.by = r.by /\ s.asked < r.asked => s.round < r.asked

(* "`last_rec` is the record for the round just completed"                 *)
(* (federated_service.py:81) and a number names one stored round - as long *)
(* as no operation began during another's; also after operations that gave *)
(* up and left a round running.                                            *)
AloneItOwnsItsRounds ==
  ~overlap =>
    /\ \A r \in rows : r.round = r.asked
    /\ \A r, s \in rows : r.number = s.number /\ r.number # 0 => r = s
    /\ \A d \in Driver : At(d, "wait") => stage # "idle" /\ id = op[d].asked

(* Every request is answered and every sweep ends, whatever becomes of the *)
(* clients and of the rounds: no thread waits for ever (_wait_for_round,   *)
(* _wait_round) and the flag that keeps others out is cleared.             *)
EveryOperationEnds ==
  /\ \A d \in Request : Busy(d) ~> ~Busy(d)
  /\ running ~> ~running

(* "Refuse overlap instead of resetting a round that another operation is  *)
(* waiting on." (federated_service.py:35)                                  *)
NeverResetsAwaitedRound ==
  [][\A d \in Driver : Reset(d) => \A e \in Driver \ {d} : ~At(e, "wait")]_vars
=============================================================================
