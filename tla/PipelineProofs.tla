---------------------------- MODULE PipelineProofs ----------------------------
(***************************************************************************)
(* Client processes, supervisor and dataset job for any number of          *)
(* processes, clients, requests and preparations.                          *)
(***************************************************************************)
EXTENDS Pipeline, FiniteSetTheorems, TLAPS

ProcRecord ==
  [id : Id, by : {"nobody", "hand", "supervisor"},
   state : {"unused", "starting", "up", "dead"}, data : Nat, posted : BOOLEAN, late : BOOLEAN]
JobRecord == [running : BOOLEAN, clients : Nat, next : Nat, run : Nat]
OpRecord == [do : {"off", "prepare", "spawn"}, ids : SUBSET Id]

ProcessTypes ==
  /\ proc \in [Process -> ProcRecord]
  /\ clients \in [Id -> Process \cup {NoProcess}]
  /\ registered \subseteq Id
FileTypes ==
  /\ job \in JobRecord
  /\ shard \in [Id -> Nat] /\ test \in Nat /\ planned \in Nat /\ cache \in Nat
  /\ intact \in BOOLEAN
RequestTypes == op \in [Request -> OpRecord] /\ overlap \in BOOLEAN
Types == ProcessTypes /\ FileTypes /\ RequestTypes
-----------------------------------------------------------------------------
(* What spawn(r) does: new processes, for ids without a live client.       *)
LEMMA SpawnIs ==
  ASSUME Types, NEW r \in Request, spawn(r), ~UNCHANGED <<proc, clients>>
  PROVE  \E new \in SUBSET Id : \E pid \in [new -> Unused] :
           /\ \A i \in new : ~(clients[i] # NoProcess /\ alive(clients[i]))
           /\ \A i, j \in new : pid[i] = pid[j] => i = j
           /\ proc' = [p \in Process |->
                IF \E i \in new : pid[i] = p
                THEN Started(p, CHOOSE i \in new : pid[i] = p, "supervisor") ELSE proc[p]]
           /\ clients' = [i \in Id |-> IF i \in new THEN pid[i] ELSE clients[i]]
<1> DEFINE ids == op[r].ids
           active == {i \in Recorded : alive(clients[i])}
           fresh == ids \ active
<1>1. ids \subseteq Id
  BY DEF Types, RequestTypes, OpRecord
<1>2. PICK failing \in SUBSET fresh :
        LET room == MAX_SUPERVISED_CLIENTS - Cardinality(active)
            new  == IF Cardinality(active) >= MAX_SUPERVISED_CLIENTS THEN {}
                    ELSE Lowest(fresh \ failing, room)
        IN
        \E pid \in [new -> Unused] :
          /\ \A i, j \in new : pid[i] = pid[j] => i = j
          /\ proc' = [p \in Process |->
               IF \E i \in new : pid[i] = p
               THEN Started(p, CHOOSE i \in new : pid[i] = p, "supervisor") ELSE proc[p]]
          /\ clients' = [i \in Id |-> IF i \in new THEN pid[i] ELSE clients[i]]
  BY DEF spawn
<1> DEFINE room == MAX_SUPERVISED_CLIENTS - Cardinality(active)
           new == IF Cardinality(active) >= MAX_SUPERVISED_CLIENTS THEN {}
                  ELSE Lowest(fresh \ failing, room)
<1>3. new \subseteq fresh
  BY DEF Lowest
<1>4. new \in SUBSET Id /\ \A i \in new : ~(clients[i] # NoProcess /\ alive(clients[i]))
  BY <1>1, <1>3 DEF Recorded
<1>5. \E pid \in [new -> Unused] :
        /\ \A i, j \in new : pid[i] = pid[j] => i = j
        /\ proc' = [p \in Process |->
             IF \E i \in new : pid[i] = p
             THEN Started(p, CHOOSE i \in new : pid[i] = p, "supervisor") ELSE proc[p]]
        /\ clients' = [i \in Id |-> IF i \in new THEN pid[i] ELSE clients[i]]
  BY <1>2, Zenon
<1> HIDE DEF new
<1> QED
  BY <1>4, <1>5, Zenon

(* The types: processes, clients and pool, ...                             *)
LEMMA ProcessTypesKept ==
  ASSUME Types, [Next]_vars
  PROVE  ProcessTypes'
<1> USE DEF ProcessTypes
<1>0. ProcessTypes
  BY DEF Types
<1>1. ASSUME NEW p \in Process, Load(p) PROVE ProcessTypes'
  <2>1. shard[proc[p].id] \in Nat
    BY DEF Types, ProcRecord, FileTypes
  <2>2. [proc[p] EXCEPT !.state = "up", !.data = shard[proc[p].id]] \in ProcRecord
    BY <1>0, <2>1 DEF ProcRecord
  <2>3. proc' \in [Process -> ProcRecord]
    BY <1>0, <1>1, <2>2 DEF Load
  <2> QED BY <1>0, <1>1, <2>3 DEF Load, pool
<1>2. ASSUME NEW p \in Process, register(p) PROVE ProcessTypes'
  <2>1. [proc[p] EXCEPT !.posted = FALSE, !.late = ~alive(p)] \in ProcRecord
    BY <1>0 DEF ProcRecord
  <2>2. proc[p].id \in Id
    BY <1>0 DEF ProcRecord
  <2>3. proc' \in [Process -> ProcRecord]
    BY <1>0, <1>2, <2>1 DEF register
  <2> QED BY <1>0, <1>2, <2>2, <2>3 DEF register
<1>3. ASSUME NEW p \in Process, NEW posted \in BOOLEAN
      PROVE  Ended(p, posted) \in ProcRecord
  BY <1>0 DEF ProcRecord, Ended
<1>4. ASSUME NEW p \in Process, NEW i \in Id, NEW by \in {"hand", "supervisor"}
      PROVE  Started(p, i, by) \in ProcRecord
  BY <1>0 DEF ProcRecord, Started
<1>5. ASSUME NEW p \in Process, Exit(p) PROVE ProcessTypes'
  <2>1. PICK posted \in {FALSE, proc[p].state = "up"} : proc' = [proc EXCEPT ![p] = Ended(p, posted)]
    BY <1>5 DEF Exit
  <2>2. posted \in BOOLEAN
    OBVIOUS
  <2>3. proc' \in [Process -> ProcRecord]
    BY <1>0, <1>3, <2>1, <2>2
  <2> QED BY <1>0, <1>5, <2>3 DEF Exit, pool
<1>6. ASSUME NEW p \in Process, NEW i \in Id, StartManually(p, i) PROVE ProcessTypes'
  BY <1>0, <1>4, <1>6 DEF StartManually, pool
<1>7. ASSUME NEW r \in Request, spawn(r) PROVE ProcessTypes'
  <2>1. registered' \subseteq Id
    BY <1>0, <1>7 DEF spawn, reap_dead
  <2>2. CASE UNCHANGED <<proc, clients>>
    BY <1>0, <2>1, <2>2
  <2>3. CASE ~UNCHANGED <<proc, clients>>
    <3>0. PICK new \in SUBSET Id : \E pid \in [new -> Unused] :
            /\ proc' = [p \in Process |->
                 IF \E i \in new : pid[i] = p
                 THEN Started(p, CHOOSE i \in new : pid[i] = p, "supervisor") ELSE proc[p]]
            /\ clients' = [i \in Id |-> IF i \in new THEN pid[i] ELSE clients[i]]
      BY <1>7, <2>3, SpawnIs
    <3>1. PICK pid \in [new -> Unused] :
            /\ proc' = [p \in Process |->
                 IF \E i \in new : pid[i] = p
                 THEN Started(p, CHOOSE i \in new : pid[i] = p, "supervisor") ELSE proc[p]]
            /\ clients' = [i \in Id |-> IF i \in new THEN pid[i] ELSE clients[i]]
      BY <3>0
    <3>2. proc' \in [Process -> ProcRecord]
      <4>1. ASSUME NEW p \in Process, \E i \in new : pid[i] = p
            PROVE  Started(p, CHOOSE i \in new : pid[i] = p, "supervisor") \in ProcRecord
        <5> DEFINE i == CHOOSE i \in new : pid[i] = p
        <5>1. i \in Id
          BY <4>1
        <5> QED BY <1>4, <5>1
      <4> QED BY <1>0, <3>1, <4>1
    <3>3. clients' \in [Id -> Process \cup {NoProcess}]
      BY <1>0, <3>1 DEF Unused
    <3> QED BY <2>1, <3>2, <3>3
  <2> QED BY <2>2, <2>3
<1>8. ASSUME NEW ids \in SUBSET Id, stop(ids) PROVE ProcessTypes'
  <2>1. PICK pids, posted : proc' = [p \in Process |->
                 IF p \in pids /\ alive(p) THEN Ended(p, p \in posted) ELSE proc[p]]
    BY <1>8 DEF stop
  <2>2. proc' \in [Process -> ProcRecord]
    <3>1. ASSUME NEW p \in Process PROVE Ended(p, p \in posted) \in ProcRecord
      <4>1. (p \in posted) \in BOOLEAN
        <5>1. (p \in posted) = TRUE \/ (p \in posted) = FALSE
          OBVIOUS
        <5> QED BY <5>1
      <4> QED BY <1>3, <4>1, Zenon
    <3> QED BY <1>0, <2>1, <3>1
  <2>3. clients' \in [Id -> Process \cup {NoProcess}]
    BY <1>0, <1>8 DEF stop
  <2> QED BY <1>0, <1>8, <2>2, <2>3 DEF stop
<1>9. ASSUME NEW shutdown \in BOOLEAN, Restart(shutdown) PROVE ProcessTypes'
  <2>1. ASSUME NEW p \in Process PROVE Ended(p, FALSE) \in ProcRecord
    BY <1>3
  <2>2. ASSUME NEW p \in Process PROVE [proc[p] EXCEPT !.by = "hand"] \in ProcRecord
    BY <1>0 DEF ProcRecord
  <2>3. proc' \in [Process -> ProcRecord]
    BY <1>0, <1>9, <2>1, <2>2 DEF Restart
  <2> QED BY <1>9, <2>3 DEF Restart
<1>10. CASE UNCHANGED <<proc, clients>> /\ registered' \subseteq registered
  BY <1>0, <1>10
<1> QED
  BY <1>1, <1>2, <1>5, <1>6, <1>7, <1>8, <1>9, <1>10
     DEF Next, vars, pool, StartRound, FinishRound, reset_experiment, Prepare, PrepareDone,
         PrepareFails, list, prepare_dataset, StartJob, spawn_clients, reap_dead

(* ... files, dataset job and the coordinator's cache, ...                 *)
LEMMA FileTypesKept ==
  ASSUME Types, [Next]_vars
  PROVE  FileTypes'
<1> USE DEF FileTypes
<1>0. FileTypes /\ MaxId \in Nat
  BY PipelineAssumption DEF Types
<1>1. CASE Prepare
  <2>1. job' \in JobRecord /\ job.run \in Nat /\ job.clients \in Nat
    BY <1>0, <1>1 DEF Prepare, JobRecord
  <2>2. test' \in Nat /\ planned' \in Nat
    BY <1>0, <1>1, <2>1 DEF Prepare
  <2>3. shard' \in [Id -> Nat]
    BY <1>0, <1>1, <2>1 DEF Prepare
  <2> QED BY <1>0, <1>1, <2>1, <2>2, <2>3 DEF Prepare, pool
<1>2. Idle(job.run) \in JobRecord
  BY <1>0 DEF Idle, JobRecord
<1>3. CASE PrepareDone
  BY <1>0, <1>2, <1>3 DEF PrepareDone
<1>4. CASE PrepareFails
  <2>1. (intact /\ job.next = 0) \in BOOLEAN
    <3>1. (intact /\ job.next = 0) = TRUE \/ (intact /\ job.next = 0) = FALSE
      OBVIOUS
    <3> QED BY <3>1
  <2>2. intact' \in BOOLEAN
    BY <1>4, <2>1 DEF PrepareFails
  <2> QED BY <1>0, <1>2, <1>4, <2>2 DEF PrepareFails, pool
<1>5. CASE FinishRound
  <2>1. cache' \in Nat
    BY <1>0, <1>5 DEF FinishRound
  <2> QED BY <1>0, <1>5, <2>1 DEF FinishRound, files
<1>6. ASSUME NEW r \in Request, StartJob(r) PROVE FileTypes'
  <2>1. job' \in JobRecord
    <3>1. CASE UNCHANGED job
      BY <1>0, <3>1
    <3>2. CASE ~UNCHANGED job
      <4>1. PICK n \in 1 .. MaxId + 1 :
              job' = [running |-> TRUE, clients |-> n, next |-> 0, run |-> job.run + 1]
        BY <1>6, <3>2 DEF StartJob
      <4>2. n \in Nat /\ job.run + 1 \in Nat
        BY <1>0 DEF JobRecord
      <4> QED BY <4>1, <4>2 DEF JobRecord
    <3> QED BY <3>1, <3>2
  <2> QED BY <1>0, <1>6, <2>1 DEF StartJob, files, pool
<1>7. ASSUME NEW shutdown \in BOOLEAN, Restart(shutdown) PROVE FileTypes'
  BY <1>0, <1>7 DEF Restart, files
<1>8. CASE UNCHANGED <<job, files, cache>>
  BY <1>0, <1>8 DEF files
<1> QED
  BY <1>1, <1>3, <1>4, <1>5, <1>6, <1>7, <1>8
     DEF Next, vars, pool, Load, register, Exit, StartManually, StartRound, reset_experiment,
         list, prepare_dataset, spawn_clients, spawn, stop

(* ... and requests.                                                       *)
LEMMA RequestTypesKept ==
  ASSUME Types, [Next]_vars
  PROVE  RequestTypes'
<1> USE DEF RequestTypes
<1>0. RequestTypes
  BY DEF Types
<1>1. Off \in OpRecord
  BY DEF Off, OpRecord
<1>2. ASSUME NEW r \in Request, Over(r) PROVE RequestTypes'
  BY <1>0, <1>1, <1>2 DEF Over
<1>3. ASSUME NEW r \in Request, NEW state \in OpRecord, Become(r, state) PROVE RequestTypes'
  <2>1. op' \in [Request -> OpRecord]
    BY <1>0, <1>3 DEF Become
  <2>2. overlap' = TRUE \/ overlap' = FALSE
    BY <1>3 DEF Become
  <2> QED BY <2>1, <2>2
<1>4. ASSUME NEW r \in Request, prepare_dataset(r) PROVE RequestTypes'
  <2>1. [do |-> "prepare", ids |-> {}] \in OpRecord
    BY DEF OpRecord
  <2> QED BY <1>0, <1>3, <1>4, <2>1 DEF prepare_dataset
<1>5. ASSUME NEW r \in Request, NEW ids \in Ranges, spawn_clients(r, ids) PROVE RequestTypes'
  <2>1. [do |-> "spawn", ids |-> ids] \in OpRecord
    BY DEF OpRecord, Ranges
  <2> QED BY <1>3, <1>5, <2>1 DEF spawn_clients
<1>6. ASSUME NEW shutdown \in BOOLEAN, Restart(shutdown) PROVE RequestTypes'
  BY <1>0, <1>1, <1>6 DEF Restart
<1>7. CASE UNCHANGED <<op, overlap>>
  BY <1>0, <1>7
<1> QED
  BY <1>2, <1>4, <1>5, <1>6, <1>7
     DEF Next, vars, Load, register, Exit, StartManually, StartRound, FinishRound,
         reset_experiment, Prepare, PrepareDone, PrepareFails, list, StartJob, spawn, stop

(* The types hold in every state.                                         *)
LEMMA TypesHold == Spec => []Types
<1>1. Init => Types
  <2> SUFFICES ASSUME Init PROVE Types
    OBVIOUS
  <2>1. ProcessTypes
    <3>1. 0 \in Id
      BY PipelineAssumption DEF Id
    <3>2. [id |-> 0, by |-> "nobody", state |-> "unused",
           data |-> 0, posted |-> FALSE, late |-> FALSE] \in ProcRecord
      BY <3>1 DEF ProcRecord
    <3> QED BY <3>2 DEF Init, ProcessTypes
  <2>2. FileTypes
    <3>1. PICK prepared \in {0, 1} : /\ shard = [i \in Id |-> prepared] /\ test = prepared
                                     /\ planned = prepared * (MaxId + 1)
      BY DEF Init
    <3>2. planned \in Nat
      BY <3>1, PipelineAssumption
    <3> QED BY <3>1, <3>2 DEF Init, FileTypes, Idle, JobRecord
  <2>3. RequestTypes
    BY DEF Init, RequestTypes, Off, OpRecord
  <2> QED BY <2>1, <2>2, <2>3 DEF Types
<1>2. Types /\ [Next]_vars => Types'
  BY ProcessTypesKept, FileTypesKept, RequestTypesKept DEF Types
<1> QED
  BY <1>1, <1>2, PTL DEF Spec
-----------------------------------------------------------------------------
(* The supervisor's table names processes that were started for that id.   *)
ClientsInv ==
  \A i \in Id : clients[i] # NoProcess =>
    proc[clients[i]].id = i /\ proc[clients[i]].state # "unused"

\* A process was started by somebody; the supervisor knows those it has started.
StartedInv ==
  \A p \in Process :
    /\ proc[p].state # "unused" => proc[p].by \in {"hand", "supervisor"}
    /\ proc[p].posted => proc[p].state # "unused"
    /\ alive(p) /\ proc[p].by = "supervisor" => clients[proc[p].id] = p

Accounts(p, i) ==
  /\ proc[p].id = i /\ proc[p].state # "unused"
  /\ alive(p) \/ clients[i] = p \/ proc[p].by = "hand" \/ proc[p].late

PoolInv == ClientsInv /\ StartedInv /\ RegisteredIsAccountedFor

\* What an action that starts, ends or leaves alone single processes does to them.
Moves(p) ==
  /\ proc'[p].id = proc[p].id /\ proc'[p].by = proc[p].by
  /\ proc[p].state = "unused" <=> proc'[p].state = "unused"
  /\ alive(p)' => alive(p)
  /\ proc[p].late => proc'[p].late \/ alive(p)
  /\ proc'[p].posted => proc[p].posted \/ proc[p].state # "unused"

(* One step of a process that is not started keeps the invariant: who is   *)
(* registered after it is accounted for, the process itself included.      *)
LEMMA MovesKeep ==
  ASSUME Types, Types', PoolInv, UNCHANGED clients,
         \A p \in Process : Moves(p),
         \A i \in registered' \ registered : \E p \in Process : Accounts(p, i)',
         \A p \in Process : alive(p) /\ ~alive(p)' => proc[p].by = "hand" \/ clients[proc[p].id] = p,
         \A p \in Process : proc[p].late /\ ~alive(p) => proc'[p].late
  PROVE  PoolInv'
<1>1. ClientsInv'
  <2>1. ASSUME NEW i \in Id, clients[i] # NoProcess
        PROVE  proc'[clients[i]].id = i /\ proc'[clients[i]].state # "unused"
    <3>1. clients[i] \in Process
      BY <2>1 DEF Types, ProcessTypes
    <3>2. Moves(clients[i]) /\ proc[clients[i]].id = i /\ proc[clients[i]].state # "unused"
      BY <2>1, <3>1 DEF PoolInv, ClientsInv
    <3> QED BY <3>2 DEF Moves
  <2> QED BY <2>1 DEF ClientsInv
<1>2. StartedInv'
  <2>1. ASSUME NEW p \in Process
        PROVE  /\ proc'[p].state # "unused" => proc'[p].by \in {"hand", "supervisor"}
               /\ proc'[p].posted => proc'[p].state # "unused"
               /\ alive(p)' /\ proc'[p].by = "supervisor" => clients[proc'[p].id] = p
    BY DEF Moves, PoolInv, StartedInv
  <2> QED BY <2>1 DEF StartedInv
<1>3. RegisteredIsAccountedFor'
  <2>1. ASSUME NEW i \in registered
        PROVE  \E p \in Process : Accounts(p, i)'
    <3>1. PICK p \in Process : Accounts(p, i)
      BY DEF PoolInv, RegisteredIsAccountedFor, Accounts
    <3>2. Moves(p)
      OBVIOUS
    <3>3. CASE alive(p)
      BY <3>1, <3>2, <3>3 DEF Accounts, Moves
    <3>4. CASE ~alive(p)
      BY <3>1, <3>2, <3>4 DEF Accounts, Moves
    <3> QED BY <3>3, <3>4
  <2> QED BY <2>1 DEF RegisteredIsAccountedFor, Accounts
<1> QED
  BY <1>1, <1>2, <1>3 DEF PoolInv

(* Loading a shard keeps the pool accounted for.                           *)
LEMMA LoadKeeps ==
  ASSUME Types, Types', PoolInv, NEW p \in Process, Load(p)
  PROVE  PoolInv'
<1>1. UNCHANGED <<clients, registered>> /\ alive(p) /\ alive(p)'
  <2>1. proc'[p].state = "up" /\ p # NoProcess
    BY PipelineAssumption DEF Load, Types, ProcessTypes, ProcRecord
  <2> QED BY <2>1 DEF Load, pool, alive
<1>2. ASSUME NEW q \in Process
      PROVE  /\ proc'[q].id = proc[q].id /\ proc'[q].by = proc[q].by
             /\ proc'[q].late = proc[q].late /\ proc'[q].posted = proc[q].posted
             /\ q # p => proc'[q].state = proc[q].state
  BY DEF Load, Types, ProcessTypes, ProcRecord
<1>3. ASSUME NEW q \in Process PROVE Moves(q) /\ (alive(q) => alive(q)')
  <2>1. CASE q = p
    BY <1>1, <1>2, <2>1 DEF Moves, alive
  <2>2. CASE q # p
    BY <1>2, <2>2 DEF Moves, alive
  <2> QED BY <2>1, <2>2
<1> QED
  BY <1>1, <1>2, <1>3, MovesKeep

(* So does a registration, in time or late, ...                            *)
LEMMA RegisterKeeps ==
  ASSUME Types, Types', PoolInv, NEW p \in Process, register(p)
  PROVE  PoolInv'
<1>1. /\ clients' = clients /\ registered' = registered \cup {proc[p].id}
      /\ proc[p].state # "unused"
  BY DEF register, PoolInv, StartedInv
<1>2. ASSUME NEW q \in Process
      PROVE  /\ proc'[q].id = proc[q].id /\ proc'[q].by = proc[q].by
             /\ proc'[q].state = proc[q].state
             /\ q # p => proc'[q].late = proc[q].late /\ proc'[q].posted = proc[q].posted
  BY DEF register, Types, ProcessTypes, ProcRecord
<1>3. proc'[p].posted = FALSE /\ (~alive(p) => proc'[p].late)
  <2>1. proc[p] \in ProcRecord /\ proc'[p] = [proc[p] EXCEPT !.posted = FALSE, !.late = ~alive(p)]
    BY DEF register, Types, ProcessTypes
  <2>2. proc'[p].posted = FALSE
    BY <2>1 DEF ProcRecord
  <2>3. proc'[p].late <=> ~alive(p)
    BY <2>1 DEF ProcRecord
  <2> QED BY <2>2, <2>3
<1>4. ASSUME NEW q \in Process PROVE alive(q)' <=> alive(q)
  BY <1>2 DEF alive
<1>5. ASSUME NEW q \in Process PROVE Moves(q) /\ (proc[q].late /\ ~alive(q) => proc'[q].late)
  <2>1. CASE q = p
    BY <1>2, <1>3, <1>4, <2>1 DEF Moves
  <2>2. CASE q # p
    BY <1>2, <1>4, <2>2 DEF Moves
  <2> QED BY <2>1, <2>2
<1>6. \A i \in registered' \ registered : \E q \in Process : Accounts(q, i)'
  <2> TAKE i \in registered' \ registered
  <2>1. i = proc'[p].id /\ proc'[p].state # "unused"
    BY <1>1, <1>2
  <2>2. alive(p)' \/ proc'[p].late
    BY <1>3, <1>4
  <2> QED BY <2>1, <2>2 DEF Accounts
<1> QED
  BY <1>1, <1>4, <1>5, <1>6, MovesKeep

(* ... and the end of a process.                                           *)
LEMMA ExitKeeps ==
  ASSUME Types, Types', PoolInv, NEW p \in Process, Exit(p)
  PROVE  PoolInv'
<1>1. UNCHANGED <<clients, registered>> /\ alive(p)
  BY DEF Exit, pool
<1>2. PICK posted : proc' = [proc EXCEPT ![p] = Ended(p, posted)]
  BY DEF Exit
<1>3. ASSUME NEW q \in Process
      PROVE  /\ proc'[q].id = proc[q].id /\ proc'[q].by = proc[q].by
             /\ proc'[q].late = proc[q].late
             /\ q # p => proc'[q].state = proc[q].state /\ proc'[q].posted = proc[q].posted
             /\ q = p => proc'[q].state = "dead"
  BY <1>2 DEF Ended, Types, ProcessTypes, ProcRecord
<1>4. ASSUME NEW q \in Process
      PROVE  Moves(q) /\ (alive(q) /\ ~alive(q)' => proc[q].by = "hand" \/ clients[proc[q].id] = q)
  <2>1. CASE q = p
    <3>1. proc[p].by \in {"hand", "supervisor"}
          /\ (proc[p].by = "supervisor" => clients[proc[p].id] = p)
      BY <1>1 DEF PoolInv, StartedInv, alive
    <3>2. ~alive(q)' /\ proc[q].state # "unused"
      BY <1>1, <1>3, <2>1 DEF alive
    <3> QED BY <1>1, <1>3, <2>1, <3>1, <3>2 DEF Moves
  <2>2. CASE q # p
    BY <1>3, <2>2 DEF Moves, alive
  <2> QED BY <2>1, <2>2
<1> QED
  BY <1>1, <1>3, <1>4, MovesKeep

(* Started by hand: a process nobody has a record of.                      *)
LEMMA StartManuallyKeeps ==
  ASSUME Types, Types', PoolInv, NEW p \in Process, NEW i \in Id, StartManually(p, i)
  PROVE  PoolInv'
<1>1. UNCHANGED <<clients, registered>> /\ proc[p].state = "unused"
  BY DEF StartManually, pool, Unused
<1>2. /\ proc'[p].id = i /\ proc'[p].by = "hand" /\ proc'[p].state = "starting"
      /\ \A q \in Process : q # p => proc'[q] = proc[q]
  BY DEF StartManually, Started, Types, ProcessTypes, ProcRecord
<1>3. ASSUME NEW q \in Process, q # p PROVE alive(q)' <=> alive(q)
  BY <1>2, <1>3 DEF alive
<1>4. ClientsInv'
  <2>1. ASSUME NEW j \in Id, clients[j] # NoProcess
        PROVE  clients[j] \in Process /\ clients[j] # p
    BY <1>1, <2>1 DEF PoolInv, ClientsInv, Types, ProcessTypes
  <2> QED BY <1>1, <1>2, <2>1 DEF PoolInv, ClientsInv
<1>5. StartedInv'
  <2>1. ASSUME NEW q \in Process
        PROVE  /\ proc'[q].state # "unused" => proc'[q].by \in {"hand", "supervisor"}
               /\ proc'[q].posted => proc'[q].state # "unused"
               /\ alive(q)' /\ proc'[q].by = "supervisor" => clients[proc'[q].id] = q
    BY <1>2, <1>3 DEF PoolInv, StartedInv
  <2> QED BY <1>1, <2>1 DEF StartedInv
<1>6. RegisteredIsAccountedFor'
  <2>1. ASSUME NEW j \in registered PROVE \E q \in Process : Accounts(q, j)'
    <3>1. PICK q \in Process : Accounts(q, j)
      BY DEF PoolInv, RegisteredIsAccountedFor, Accounts
    <3>2. q # p
      BY <1>1, <3>1 DEF Accounts
    <3> QED BY <1>1, <1>2, <1>3, <3>1, <3>2 DEF Accounts
  <2> QED BY <1>1, <2>1 DEF RegisteredIsAccountedFor, Accounts
<1> QED
  BY <1>4, <1>5, <1>6 DEF PoolInv

(* New processes take the place of dead ones, whose ids have been reaped.  *)
LEMMA SpawnKeeps ==
  ASSUME Types, Types', PoolInv, NEW r \in Request, spawn(r)
  PROVE  PoolInv'
<1>1. registered' = registered \ Dead
  BY DEF spawn, reap_dead
<1>2. CASE UNCHANGED <<proc, clients>>
  BY <1>1, <1>2 DEF PoolInv, ClientsInv, StartedInv, RegisteredIsAccountedFor, alive
<1>3. CASE ~UNCHANGED <<proc, clients>>
  <2>1. PICK new \in SUBSET Id : \E pid \in [new -> Unused] :
           /\ \A i \in new : ~(clients[i] # NoProcess /\ alive(clients[i]))
           /\ \A i, j \in new : pid[i] = pid[j] => i = j
           /\ proc' = [p \in Process |->
                IF \E i \in new : pid[i] = p
                THEN Started(p, CHOOSE i \in new : pid[i] = p, "supervisor") ELSE proc[p]]
           /\ clients' = [i \in Id |-> IF i \in new THEN pid[i] ELSE clients[i]]
    BY <1>3, SpawnIs
  <2>2. PICK pid \in [new -> Unused] :
           /\ \A i \in new : ~(clients[i] # NoProcess /\ alive(clients[i]))
           /\ \A i, j \in new : pid[i] = pid[j] => i = j
           /\ proc' = [p \in Process |->
                IF \E i \in new : pid[i] = p
                THEN Started(p, CHOOSE i \in new : pid[i] = p, "supervisor") ELSE proc[p]]
           /\ clients' = [i \in Id |-> IF i \in new THEN pid[i] ELSE clients[i]]
    BY <2>1
  <2>3. ASSUME NEW i \in new
        PROVE  /\ pid[i] \in Process /\ proc[pid[i]].state = "unused" /\ clients'[i] = pid[i]
               /\ proc'[pid[i]].id = i /\ proc'[pid[i]].by = "supervisor"
               /\ proc'[pid[i]].state = "starting"
               /\ ~(clients[i] # NoProcess /\ alive(clients[i]))
    <3>1. pid[i] \in Process /\ proc[pid[i]].state = "unused"
      BY DEF Unused
    <3>2. (CHOOSE j \in new : pid[j] = pid[i]) = i
      BY <2>2
    <3>3. proc'[pid[i]] = Started(pid[i], i, "supervisor")
      BY <2>2, <3>1, <3>2
    <3>4. proc[pid[i]] \in ProcRecord
      BY <3>1 DEF Types, ProcessTypes
    <3>5. /\ proc'[pid[i]].id = i /\ proc'[pid[i]].by = "supervisor"
          /\ proc'[pid[i]].state = "starting"
      BY <3>3, <3>4 DEF Started, ProcRecord
    <3> QED BY <2>2, <3>1, <3>5
  <2>4. ASSUME NEW p \in Process, \A i \in new : pid[i] # p
        PROVE  proc'[p] = proc[p] /\ (alive(p)' <=> alive(p))
    <3>1. proc'[p] = proc[p]
      BY <2>2, <2>4
    <3> QED BY <3>1 DEF alive
  <2>5. ASSUME NEW p \in Process, proc[p].state # "unused"
        PROVE  proc'[p] = proc[p] /\ (alive(p)' <=> alive(p))
    BY <2>3, <2>4, <2>5
  <2>6. ASSUME NEW i \in Id \ new PROVE clients'[i] = clients[i]
    BY <2>2
  <2>7. ClientsInv'
    <3>1. ASSUME NEW i \in Id, clients'[i] # NoProcess
          PROVE  proc'[clients'[i]].id = i /\ proc'[clients'[i]].state # "unused"
      <4>1. CASE i \in new
        BY <2>3, <4>1
      <4>2. CASE i \notin new
        <5>1. clients'[i] = clients[i] /\ clients[i] \in Process
          BY <2>6, <3>1, <4>2 DEF Types, ProcessTypes
        <5>2. proc[clients[i]].id = i /\ proc[clients[i]].state # "unused"
          BY <3>1, <5>1 DEF PoolInv, ClientsInv
        <5> QED BY <2>5, <5>1, <5>2
      <4> QED BY <4>1, <4>2
    <3> QED BY <3>1 DEF ClientsInv
  <2>8. StartedInv'
    <3>1. ASSUME NEW p \in Process
          PROVE  /\ proc'[p].state # "unused" => proc'[p].by \in {"hand", "supervisor"}
                 /\ proc'[p].posted => proc'[p].state # "unused"
                 /\ alive(p)' /\ proc'[p].by = "supervisor" => clients'[proc'[p].id] = p
      <4>1. CASE \E i \in new : pid[i] = p
        BY <2>3, <4>1
      <4>2. CASE \A i \in new : pid[i] # p
        <5>1. proc'[p] = proc[p] /\ (alive(p)' <=> alive(p)) /\ proc[p].id \in Id
          BY <2>4, <4>2 DEF Types, ProcessTypes, ProcRecord
        <5>2. /\ proc[p].state # "unused" => proc[p].by \in {"hand", "supervisor"}
              /\ proc[p].posted => proc[p].state # "unused"
              /\ alive(p) /\ proc[p].by = "supervisor" => clients[proc[p].id] = p
          BY DEF PoolInv, StartedInv
        <5>3. alive(p) /\ clients[proc[p].id] = p => proc[p].id \notin new
          BY <2>3 DEF alive
        <5> QED BY <2>6, <5>1, <5>2, <5>3
      <4> QED BY <4>1, <4>2
    <3> QED BY <3>1 DEF StartedInv
  <2>9. RegisteredIsAccountedFor'
    <3>1. ASSUME NEW i \in registered' PROVE \E p \in Process : Accounts(p, i)'
      <4>0. i \in Id
        BY DEF Types, ProcessTypes
      <4>1. CASE i \in new
        <5>1. alive(pid[i])'
          BY <2>3, <4>1, PipelineAssumption DEF alive
        <5> QED BY <2>3, <4>1, <5>1 DEF Accounts
      <4>2. CASE i \notin new
        <5>1. PICK p \in Process : Accounts(p, i)
          BY <1>1 DEF PoolInv, RegisteredIsAccountedFor, Accounts
        <5>2. proc'[p] = proc[p] /\ (alive(p)' <=> alive(p))
          BY <2>5, <5>1 DEF Accounts
        <5> QED BY <2>6, <4>0, <4>2, <5>1, <5>2 DEF Accounts
      <4> QED BY <4>1, <4>2
    <3> QED BY <3>1 DEF RegisteredIsAccountedFor, Accounts
  <2> QED BY <2>7, <2>8, <2>9 DEF PoolInv
<1> QED
  BY <1>2, <1>3

(* A stopped process is forgotten together with its registration.          *)
LEMMA StopKeeps ==
  ASSUME Types, Types', PoolInv, NEW ids \in SUBSET Id, stop(ids)
  PROVE  PoolInv'
<1> DEFINE targets == ids \cap Recorded
           pids == {clients[i] : i \in targets}
<1>1. /\ clients' = [i \in Id |-> IF i \in targets THEN NoProcess ELSE clients[i]]
      /\ registered' = registered \ targets
  BY DEF stop
<1>2. PICK posted : proc' = [p \in Process |->
                 IF p \in pids /\ alive(p) THEN Ended(p, p \in posted) ELSE proc[p]]
  BY DEF stop
<1>3. ASSUME NEW i \in targets
      PROVE  /\ i \in Id /\ clients[i] \in Process /\ clients[i] \in pids
             /\ proc[clients[i]].id = i /\ proc[clients[i]].state # "unused"
  BY DEF Recorded, PoolInv, ClientsInv, Types, ProcessTypes
<1>4. ASSUME NEW p \in pids
      PROVE  proc[p].id \in targets /\ clients[proc[p].id] = p /\ proc[p].state # "unused"
  <2>1. PICK i \in targets : p = clients[i]
    OBVIOUS
  <2> QED BY <1>3, <2>1
<1> HIDE DEF pids, targets
<1>5. ASSUME NEW p \in Process
      PROVE  /\ proc'[p].id = proc[p].id /\ proc'[p].by = proc[p].by
             /\ proc'[p].state = "unused" <=> proc[p].state = "unused"
             /\ proc'[p].posted => proc[p].posted \/ proc[p].state # "unused"
             /\ alive(p)' => alive(p) /\ p \notin pids
             /\ p \notin pids => proc'[p] = proc[p]
  <2>1. proc[p] \in ProcRecord
    BY DEF Types, ProcessTypes
  <2>2. CASE p \in pids /\ alive(p)
    <3>1. proc'[p] = Ended(p, p \in posted)
      BY <1>2, <2>2
    <3>2. proc'[p].id = proc[p].id /\ proc'[p].by = proc[p].by /\ proc'[p].state = "dead"
      BY <2>1, <3>1 DEF Ended, ProcRecord
    <3> QED BY <2>2, <3>2 DEF alive
  <2>3. CASE ~(p \in pids /\ alive(p))
    <3>1. proc'[p] = proc[p]
      BY <1>2, <2>3
    <3>2. alive(p)' <=> alive(p)
      BY <3>1 DEF alive
    <3> QED BY <2>3, <3>1, <3>2
  <2> QED BY <2>2, <2>3
<1>6. ASSUME NEW i \in Id
      PROVE  clients'[i] = IF i \in targets THEN NoProcess ELSE clients[i]
  BY <1>1
<1>7. ClientsInv'
  <2>1. ASSUME NEW i \in Id, clients'[i] # NoProcess
        PROVE  proc'[clients'[i]].id = i /\ proc'[clients'[i]].state # "unused"
    <3>1. clients'[i] = clients[i] /\ clients[i] \in Process
      BY <1>6, <2>1 DEF Types, ProcessTypes
    <3>2. proc[clients[i]].id = i /\ proc[clients[i]].state # "unused"
      BY <2>1, <3>1 DEF PoolInv, ClientsInv
    <3> QED BY <1>5, <3>1, <3>2
  <2> QED BY <2>1 DEF ClientsInv
<1>8. StartedInv'
  <2>1. ASSUME NEW p \in Process
        PROVE  /\ proc'[p].state # "unused" => proc'[p].by \in {"hand", "supervisor"}
               /\ proc'[p].posted => proc'[p].state # "unused"
               /\ alive(p)' /\ proc'[p].by = "supervisor" => clients'[proc'[p].id] = p
    <3>1. /\ proc[p].state # "unused" => proc[p].by \in {"hand", "supervisor"}
          /\ proc[p].posted => proc[p].state # "unused"
          /\ alive(p) /\ proc[p].by = "supervisor" => clients[proc[p].id] = p
          /\ proc[p].id \in Id
      BY DEF PoolInv, StartedInv, Types, ProcessTypes, ProcRecord
    <3>2. clients[proc[p].id] = p /\ proc[p].id \in targets => p \in pids
      BY <1>3
    <3> QED BY <1>5, <1>6, <3>1, <3>2
  <2> QED BY <2>1 DEF StartedInv
<1>9. RegisteredIsAccountedFor'
  <2>1. ASSUME NEW i \in registered' PROVE \E p \in Process : Accounts(p, i)'
    <3>1. i \in Id /\ i \in registered /\ i \notin targets
      BY <1>1 DEF Types, ProcessTypes
    <3>2. PICK p \in Process : Accounts(p, i)
      BY <3>1 DEF PoolInv, RegisteredIsAccountedFor, Accounts
    <3>3. p \notin pids
      BY <1>4, <3>1, <3>2 DEF Accounts
    <3>4. proc'[p] = proc[p] /\ clients'[i] = clients[i]
      BY <1>5, <1>6, <3>1, <3>3
    <3>5. alive(p)' <=> alive(p)
      BY <3>4 DEF alive
    <3> QED BY <3>2, <3>4, <3>5 DEF Accounts
  <2> QED BY <2>1 DEF RegisteredIsAccountedFor, Accounts
<1> QED
  BY <1>7, <1>8, <1>9 DEF PoolInv

(* A restart of the server empties the pool and the supervisor's table.    *)
LEMMA RestartKeeps ==
  ASSUME Types, Types', PoolInv, NEW shutdown \in BOOLEAN, Restart(shutdown)
  PROVE  PoolInv'
<1> DEFINE own == {clients[i] : i \in Recorded}
<1>1. /\ clients' = [i \in Id |-> NoProcess] /\ registered' = {}
      /\ proc' = [p \in Process |->
           IF p \notin own \/ ~alive(p) THEN proc[p]
           ELSE IF shutdown THEN Ended(p, FALSE) ELSE [proc[p] EXCEPT !.by = "hand"]]
  BY DEF Restart
<1>2. ASSUME NEW p \in Process, alive(p), proc[p].by = "supervisor" PROVE p \in own
  <2>1. clients[proc[p].id] = p /\ proc[p].id \in Id
    BY <1>2 DEF PoolInv, StartedInv, Types, ProcessTypes, ProcRecord
  <2>2. proc[p].id \in Recorded
    BY <1>2, <2>1 DEF Recorded, alive
  <2> QED BY <2>1, <2>2
<1> HIDE DEF own
<1>3. ASSUME NEW p \in Process
      PROVE  /\ proc'[p].state # "unused" => proc'[p].by \in {"hand", "supervisor"}
             /\ proc'[p].posted => proc'[p].state # "unused"
             /\ ~(alive(p)' /\ proc'[p].by = "supervisor")
  <2>1. /\ proc[p] \in ProcRecord
        /\ proc[p].state # "unused" => proc[p].by \in {"hand", "supervisor"}
        /\ proc[p].posted => proc[p].state # "unused"
    BY DEF PoolInv, StartedInv, Types, ProcessTypes
  <2>2. CASE p \notin own \/ ~alive(p)
    <3>1. proc'[p] = proc[p]
      BY <1>1, <2>2
    <3>2. alive(p)' <=> alive(p)
      BY <3>1 DEF alive
    <3> QED BY <1>2, <2>1, <2>2, <3>1, <3>2
  <2>3. CASE p \in own /\ alive(p) /\ shutdown
    <3>1. proc'[p] = Ended(p, FALSE)
      BY <1>1, <2>3
    <3>2. proc'[p].state = "dead" /\ proc'[p].by = proc[p].by
      BY <2>1, <3>1 DEF Ended, ProcRecord
    <3> QED BY <2>1, <2>3, <3>2 DEF alive
  <2>4. CASE p \in own /\ alive(p) /\ ~shutdown
    <3>1. proc'[p] = [proc[p] EXCEPT !.by = "hand"]
      BY <1>1, <2>4
    <3>2. proc'[p].by = "hand" /\ proc'[p].state = proc[p].state
      BY <2>1, <3>1 DEF ProcRecord
    <3> QED BY <2>1, <2>4, <3>2 DEF alive
  <2> QED BY <2>2, <2>3, <2>4
<1> QED
  BY <1>1, <1>3 DEF PoolInv, ClientsInv, StartedInv, RegisteredIsAccountedFor

(* The invariant is inductive: one step for each action.                   *)
LEMMA PoolKept ==
  ASSUME Types, Types', PoolInv, [Next]_vars
  PROVE  PoolInv'
<1>1. CASE UNCHANGED <<proc, clients>> /\ registered' \subseteq registered
  BY <1>1 DEF PoolInv, ClientsInv, StartedInv, RegisteredIsAccountedFor, alive
<1>2. ASSUME NEW p \in Process, Load(p) PROVE PoolInv'
  BY <1>2, LoadKeeps
<1>3. ASSUME NEW p \in Process, register(p) PROVE PoolInv'
  BY <1>3, RegisterKeeps
<1>4. ASSUME NEW p \in Process, Exit(p) PROVE PoolInv'
  BY <1>4, ExitKeeps
<1>5. ASSUME NEW p \in Process, NEW i \in Id, StartManually(p, i) PROVE PoolInv'
  BY <1>5, StartManuallyKeeps
<1>6. ASSUME NEW r \in Request, spawn(r) PROVE PoolInv'
  BY <1>6, SpawnKeeps
<1>7. ASSUME NEW ids \in SUBSET Id, stop(ids) PROVE PoolInv'
  BY <1>7, StopKeeps
<1>8. ASSUME NEW shutdown \in BOOLEAN, Restart(shutdown) PROVE PoolInv'
  BY <1>8, RestartKeeps
<1> QED
  BY <1>1, <1>2, <1>3, <1>4, <1>5, <1>6, <1>7, <1>8
     DEF Next, vars, pool, StartRound, FinishRound, reset_experiment, Prepare, PrepareDone,
         PrepareFails, list, prepare_dataset, StartJob, spawn_clients, reap_dead

(* The pool starts accounted for and stays so.                             *)
THEOREM PoolInvHolds == Spec => []PoolInv
<1>1. Init => PoolInv
  <2> SUFFICES ASSUME Init PROVE PoolInv
    OBVIOUS
  <2>1. ClientsInv /\ RegisteredIsAccountedFor
    BY DEF Init, ClientsInv, RegisteredIsAccountedFor
  <2>2. \A p \in Process : proc[p].state = "unused" /\ ~proc[p].posted
    BY DEF Init
  <2>3. StartedInv
    BY <2>2 DEF StartedInv, alive
  <2> QED BY <2>1, <2>3 DEF PoolInv
<1>2. Types /\ Types' /\ PoolInv /\ [Next]_vars => PoolInv'
  BY PoolKept
<1> QED
  BY <1>1, <1>2, TypesHold, PTL DEF Spec

(* RegisteredIsAccountedFor: every client that rounds are sampled from is  *)
(* alive, or still to be reaped, or not the supervisor's, or registered    *)
(* late.                                                                   *)
THEOREM RegisteredIsAccountedForHolds == Spec => []RegisteredIsAccountedFor
<1>1. PoolInv => RegisteredIsAccountedFor
  BY DEF PoolInv
<1> QED
  BY <1>1, PoolInvHolds, PTL

(* What a spawn does to processes that were started before: nothing.       *)
LEMMA SpawnLeavesOthers ==
  ASSUME Types, NEW r \in Request, spawn(r), NEW p \in Process, proc[p].state # "unused"
  PROVE  proc'[p] = proc[p]
<1>1. CASE UNCHANGED <<proc, clients>>
  BY <1>1
<1>2. CASE ~UNCHANGED <<proc, clients>>
  <2>1. PICK new \in SUBSET Id : \E pid \in [new -> Unused] :
           proc' = [q \in Process |->
                IF \E i \in new : pid[i] = q
                THEN Started(q, CHOOSE i \in new : pid[i] = q, "supervisor") ELSE proc[q]]
    BY <1>2, SpawnIs
  <2>2. PICK pid \in [new -> Unused] :
           proc' = [q \in Process |->
                IF \E i \in new : pid[i] = q
                THEN Started(q, CHOOSE i \in new : pid[i] = q, "supervisor") ELSE proc[q]]
    BY <2>1
  <2>3. \A i \in new : proc[pid[i]].state = "unused"
    BY DEF Unused
  <2>4. \A i \in new : pid[i] # p
    BY <2>3
  <2> QED BY <2>2, <2>4
<1> QED
  BY <1>1, <1>2

(* A recorded client that is not alive is dead.                            *)
LEMMA DeadIs ==
  ASSUME Types, PoolInv, NEW i \in Dead
  PROVE  clients[i] \in Process /\ clients[i] # NoProcess /\ proc[clients[i]].state = "dead"
<1>1. i \in Id /\ clients[i] # NoProcess /\ clients[i] \in Process /\ ~alive(clients[i])
  BY DEF Dead, Recorded, Types, ProcessTypes
<1>2. /\ proc[clients[i]].state \in {"unused", "starting", "up", "dead"}
      /\ proc[clients[i]].state # "unused"
  BY <1>1 DEF PoolInv, ClientsInv, Types, ProcessTypes, ProcRecord
<1> QED
  BY <1>1, <1>2 DEF alive

(* ForgetsOnlyItsOwn: apart from a reset or a restart, only clients that   *)
(* the supervisor has started and that are dead leave the pool.            *)
THEOREM ForgetsOnlyItsOwnHolds == Spec => ForgetsOnlyItsOwn
<1> DEFINE Forgets == \A i \in registered \ registered' :
                        \/ registered' = {}
                        \/ clients[i] # NoProcess /\ proc'[clients[i]].state = "dead"
<1>1. ASSUME Types, PoolInv, [Next]_vars PROVE Forgets
  <2> USE <1>1
  <2>1. CASE registered \subseteq registered' \/ registered' = {}
    BY <2>1
  <2>2. CASE registered' = reap_dead /\ UNCHANGED proc
    <3>1. ASSUME NEW i \in registered \ registered'
          PROVE  clients[i] # NoProcess /\ proc'[clients[i]].state = "dead"
      <4>1. i \in Dead
        BY <2>2 DEF reap_dead
      <4> QED BY <2>2, <4>1, DeadIs
    <3> QED BY <3>1
  <2>3. ASSUME NEW r \in Request, spawn(r) PROVE Forgets
    <3>1. ASSUME NEW i \in registered \ registered'
          PROVE  clients[i] # NoProcess /\ proc'[clients[i]].state = "dead"
      <4>1. i \in Dead
        BY <2>3 DEF spawn, reap_dead
      <4>2. /\ clients[i] \in Process /\ clients[i] # NoProcess
            /\ proc[clients[i]].state = "dead"
        BY <4>1, DeadIs
      <4>3. proc'[clients[i]] = proc[clients[i]]
        BY <2>3, <4>2, SpawnLeavesOthers
      <4> QED BY <4>2, <4>3
    <3> QED BY <3>1
  <2>4. ASSUME NEW ids \in SUBSET Id, stop(ids) PROVE Forgets
    <3> DEFINE targets == ids \cap Recorded
               pids == {clients[i] : i \in targets}
    <3>1. registered' = registered \ targets
      BY <2>4 DEF stop
    <3>2. PICK posted : proc' = [p \in Process |->
                 IF p \in pids /\ alive(p) THEN Ended(p, p \in posted) ELSE proc[p]]
      BY <2>4 DEF stop
    <3>3. ASSUME NEW i \in registered \ registered'
          PROVE  clients[i] # NoProcess /\ proc'[clients[i]].state = "dead"
      <4>1. i \in targets /\ clients[i] \in pids
        BY <3>1
      <4>2. clients[i] \in Process /\ clients[i] # NoProcess /\ proc[clients[i]] \in ProcRecord
        BY <4>1 DEF Recorded, Types, ProcessTypes
      <4> HIDE DEF pids, targets
      <4>3. CASE alive(clients[i])
        <5>1. proc'[clients[i]] = Ended(clients[i], clients[i] \in posted)
          BY <3>2, <4>1, <4>2, <4>3
        <5> QED BY <4>2, <5>1 DEF Ended, ProcRecord
      <4>4. CASE ~alive(clients[i])
        <5>1. proc'[clients[i]] = proc[clients[i]]
          BY <3>2, <4>2, <4>4
        <5>2. i \in Dead
          BY <4>1, <4>4 DEF Dead, targets
        <5> QED BY <4>2, <5>1, <5>2, DeadIs
      <4> QED BY <4>3, <4>4
    <3> QED BY <3>3
  <2> QED
    BY <2>1, <2>2, <2>3, <2>4
       DEF Next, vars, pool, Load, register, Exit, StartManually, StartRound, FinishRound,
           reset_experiment, Prepare, PrepareDone, PrepareFails, list, prepare_dataset,
           StartJob, spawn_clients, Restart
<1>2. Types /\ PoolInv /\ [Next]_vars => [Forgets]_vars
  BY <1>1
<1> QED
  BY <1>2, TypesHold, PoolInvHolds, PTL DEF Spec, ForgetsOnlyItsOwn
-----------------------------------------------------------------------------
\* The files are those of a preparation that succeeded, or of none.
Untouched == intact /\ (job.running => job.next = 0)

FilesInv ==
  /\ Untouched => cache \in {0, test} /\ \A i \in Id : i < planned => shard[i] = test
  /\ job.running =>
       /\ job.next > 0 => test = job.run
       /\ \A i \in Id : i < job.clients /\ i + 1 < job.next => shard[i] = job.run
       /\ job.next > FilesOf(job.clients) => planned = job.clients

\* Without an overlap no supervised client lives while a dataset is or may be prepared.
QuietInv ==
  ~overlap /\ (job.running \/ Doing("prepare") # {}) =>
    Doing("spawn") = {} /\ \A i \in Recorded : ~alive(clients[i])

LoadedInv ==
  ~overlap /\ intact /\ ~job.running =>
    \A i \in Recorded :
      proc[clients[i]].state = "up" /\ i < planned => proc[clients[i]].data = test

CorpusInv == FilesInv /\ QuietInv /\ LoadedInv

\* Client i is run by the process it was run by, which has at most loaded its shard.
StillRuns(i) ==
  /\ clients[i] # NoProcess /\ clients'[i] = clients[i] /\ alive(clients[i])
  /\ \/ /\ proc'[clients[i]].state = proc[clients[i]].state
        /\ proc'[clients[i]].data = proc[clients[i]].data
     \/ proc'[clients[i]].data = shard[i]

(* A live supervised client was one before, or is new and has yet to load. *)
LEMMA RecordedMoves ==
  ASSUME Types, PoolInv, [Next]_vars, NEW i \in Id,
         clients'[i] # NoProcess, proc'[clients'[i]].state \in {"starting", "up"}
  PROVE  \/ (\E r \in Request : spawn(r)) /\ proc'[clients'[i]].state = "starting"
         \/ StillRuns(i)
<1> DEFINE p == clients[i]
<1>1. p # NoProcess => p \in Process /\ proc[p].id = i /\ proc[p].state # "unused"
  BY DEF Types, ProcessTypes, PoolInv, ClientsInv
<1>2. CASE UNCHANGED <<proc, clients>>
  BY <1>1, <1>2 DEF StillRuns, alive
<1>3. ASSUME NEW q \in Process, Load(q) PROVE StillRuns(i)
  <2>1. clients' = clients /\ proc' = [proc EXCEPT ![q].state = "up", ![q].data = shard[proc[q].id]]
    BY <1>3 DEF Load
  <2>2. CASE p = q
    <3>1. proc'[p].data = shard[i] /\ alive(p)
      BY <1>1, <1>3, <2>1, <2>2 DEF Load, alive, Types, ProcessTypes, ProcRecord
    <3> QED BY <2>1, <3>1 DEF StillRuns
  <2>3. CASE p # q
    <3>1. proc'[p] = proc[p]
      BY <1>1, <2>1, <2>3 DEF Types, ProcessTypes
    <3> QED BY <1>1, <2>1, <3>1 DEF StillRuns, alive
  <2> QED BY <2>2, <2>3
<1>4. ASSUME NEW q \in Process, register(q) PROVE StillRuns(i)
  <2>1. clients' = clients
    BY <1>4 DEF register
  <2>2. proc'[p].state = proc[p].state /\ proc'[p].data = proc[p].data
    BY <1>1, <1>4, <2>1 DEF register, Types, ProcessTypes, ProcRecord
  <2> QED BY <1>1, <2>1, <2>2 DEF StillRuns, alive
<1>5. ASSUME NEW q \in Process, Exit(q) PROVE StillRuns(i)
  <2>1. PICK posted : proc' = [proc EXCEPT ![q] = Ended(q, posted)]
    BY <1>5 DEF Exit
  <2>2. clients' = clients
    BY <1>5 DEF Exit
  <2>3. p # q
    BY <1>1, <2>1, <2>2 DEF Ended, Types, ProcessTypes, ProcRecord
  <2>4. proc'[p] = proc[p]
    BY <1>1, <2>1, <2>2, <2>3 DEF Types, ProcessTypes
  <2> QED BY <1>1, <2>2, <2>4 DEF StillRuns, alive
<1>6. ASSUME NEW q \in Process, NEW j \in Id, StartManually(q, j) PROVE StillRuns(i)
  <2>1. clients' = clients /\ p # q
    BY <1>1, <1>6 DEF StartManually, Unused
  <2>2. proc'[p] = proc[p]
    BY <1>1, <1>6, <2>1 DEF StartManually, Types, ProcessTypes
  <2> QED BY <1>1, <2>1, <2>2 DEF StillRuns, alive
<1>7. ASSUME NEW r \in Request, spawn(r), ~UNCHANGED <<proc, clients>>
      PROVE  proc'[clients'[i]].state = "starting" \/ StillRuns(i)
  <2>1. PICK new \in SUBSET Id : \E pid \in [new -> Unused] :
           /\ \A k, j \in new : pid[k] = pid[j] => k = j
           /\ proc' = [q \in Process |->
                IF \E k \in new : pid[k] = q
                THEN Started(q, CHOOSE k \in new : pid[k] = q, "supervisor") ELSE proc[q]]
           /\ clients' = [k \in Id |-> IF k \in new THEN pid[k] ELSE clients[k]]
    BY <1>7, SpawnIs
  <2>2. PICK pid \in [new -> Unused] :
           /\ \A k, j \in new : pid[k] = pid[j] => k = j
           /\ proc' = [q \in Process |->
                IF \E k \in new : pid[k] = q
                THEN Started(q, CHOOSE k \in new : pid[k] = q, "supervisor") ELSE proc[q]]
           /\ clients' = [k \in Id |-> IF k \in new THEN pid[k] ELSE clients[k]]
    BY <2>1
  <2>3. CASE i \in new
    <3>1. clients'[i] = pid[i] /\ pid[i] \in Process /\ proc[pid[i]] \in ProcRecord
      BY <2>2, <2>3 DEF Unused, Types, ProcessTypes
    <3>2. proc'[pid[i]] = Started(pid[i], CHOOSE k \in new : pid[k] = pid[i], "supervisor")
      BY <2>2, <2>3, <3>1
    <3> QED BY <3>1, <3>2 DEF Started, ProcRecord
  <2>4. CASE i \notin new
    <3>1. clients'[i] = p
      BY <2>2, <2>4
    <3>2. proc'[p] = proc[p]
      BY <1>1, <1>7, <3>1, SpawnLeavesOthers
    <3> QED BY <1>1, <3>1, <3>2 DEF StillRuns, alive
  <2> QED BY <2>3, <2>4
<1>8. ASSUME NEW ids \in SUBSET Id, stop(ids) PROVE StillRuns(i)
  <2> DEFINE targets == ids \cap Recorded
             pids == {clients[j] : j \in targets}
  <2>1. clients' = [j \in Id |-> IF j \in targets THEN NoProcess ELSE clients[j]]
    BY <1>8 DEF stop
  <2>2. PICK posted : proc' = [q \in Process |->
                 IF q \in pids /\ alive(q) THEN Ended(q, q \in posted) ELSE proc[q]]
    BY <1>8 DEF stop
  <2>3. clients'[i] = p /\ p \in Process /\ proc[p] \in ProcRecord
    BY <1>1, <2>1 DEF Types, ProcessTypes
  <2> HIDE DEF pids
  <2>4. ~(p \in pids /\ alive(p))
    <3>1. Ended(p, p \in posted).state = "dead"
      BY <2>3 DEF Ended, ProcRecord
    <3> QED BY <2>2, <2>3, <3>1
  <2>5. proc'[p] = proc[p]
    BY <2>2, <2>3, <2>4
  <2> QED BY <1>1, <2>3, <2>5 DEF StillRuns, alive
<1>9. ASSUME NEW shutdown \in BOOLEAN, Restart(shutdown) PROVE FALSE
  BY <1>9 DEF Restart
<1> QED
  BY <1>2, <1>3, <1>4, <1>5, <1>6, <1>7, <1>8, <1>9
     DEF Next, vars, StartRound, FinishRound, reset_experiment, Prepare, PrepareDone,
         PrepareFails, list, prepare_dataset, StartJob, spawn_clients

(* The files keep their invariant: the job writes test split, shards and   *)
(* meta.json in this order.                                                *)
LEMMA FilesKept ==
  ASSUME Types, FilesInv, [Next]_vars
  PROVE  FilesInv'
<1>0. /\ job \in JobRecord /\ job.next \in Nat /\ job.clients \in Nat
      /\ shard \in [Id -> Nat] /\ planned \in Nat /\ Id \subseteq Nat
  BY PipelineAssumption DEF Types, FileTypes, JobRecord, Id
<1>1. CASE Prepare
  <2>1. /\ job'.running /\ job'.next = job.next + 1 /\ job'.clients = job.clients
        /\ job'.run = job.run /\ job.running /\ job.next <= FilesOf(job.clients)
    BY <1>0, <1>1 DEF Prepare, JobRecord
  <2>2. job'.next > 0
    BY <1>0, <2>1
  <2>3. ~Untouched'
    BY <1>0, <2>1 DEF Untouched
  <2>4. test' = job.run
    BY <1>0, <1>1, <2>1 DEF Prepare, FilesInv
  <2>5. ASSUME NEW i \in Id, i < job.clients, i + 1 < job.next + 1
        PROVE  shard'[i] = job.run
    <3>1. shard'[i] = IF job.next = i + 1 /\ i < job.clients THEN job.run ELSE shard[i]
      BY <1>1 DEF Prepare
    <3>2. CASE job.next = i + 1
      BY <2>5, <3>1, <3>2
    <3>3. CASE job.next # i + 1
      <4>1. i + 1 < job.next
        BY <1>0, <2>5, <3>3
      <4> QED BY <2>1, <2>5, <3>1, <3>3, <4>1 DEF FilesInv
    <3> QED BY <3>2, <3>3
  <2>6. job.next + 1 > FilesOf(job.clients) => planned' = job.clients
    BY <1>0, <1>1, <2>1 DEF Prepare, FilesOf
  <2> QED BY <2>1, <2>3, <2>4, <2>5, <2>6 DEF FilesInv
<1>2. ~Idle(job.run).running
  BY DEF Idle
<1>3. CASE PrepareDone
  <2>1. /\ job.running /\ job.next > FilesOf(job.clients) /\ cache' = 0 /\ ~job'.running
        /\ UNCHANGED <<shard, test, planned>>
    BY <1>2, <1>3 DEF PrepareDone
  <2>2. test = job.run /\ planned = job.clients
    BY <1>0, <2>1 DEF FilesInv, FilesOf
  <2>3. ASSUME NEW i \in Id, i < planned PROVE shard[i] = test
    <3>1. i < job.clients /\ i + 1 < job.next
      BY <1>0, <2>1, <2>2, <2>3 DEF FilesOf
    <3> QED BY <2>1, <2>2, <3>1 DEF FilesInv
  <2> QED BY <2>1, <2>3 DEF FilesInv
<1>4. CASE PrepareFails
  <2>1. ~job'.running /\ UNCHANGED <<cache, shard, test, planned>> /\ (intact' => Untouched)
    BY <1>2, <1>4 DEF PrepareFails, pool, Untouched
  <2>2. Untouched' => Untouched
    BY <2>1 DEF Untouched
  <2> QED BY <2>1, <2>2 DEF FilesInv
<1>5. CASE FinishRound
  <2>1. UNCHANGED <<job, shard, test, planned, intact>> /\ cache' = IF cache = 0 THEN test ELSE cache
    BY <1>5 DEF FinishRound, files
  <2> QED BY <2>1 DEF FilesInv, Untouched
<1>6. ASSUME NEW r \in Request, StartJob(r) PROVE FilesInv'
  <2>1. UNCHANGED <<cache, shard, test, planned, intact>>
    BY <1>6 DEF StartJob, pool, files
  <2>2. CASE UNCHANGED job
    BY <2>1, <2>2 DEF FilesInv, Untouched
  <2>3. CASE ~UNCHANGED job
    <3>1. PICK n \in 1 .. MaxId + 1 :
            job' = [running |-> TRUE, clients |-> n, next |-> 0, run |-> job.run + 1]
      BY <1>6, <2>3 DEF StartJob
    <3>2. ~job.running
      BY <1>6, <2>3 DEF StartJob
    <3>3. job'.next = 0 /\ job'.clients = n /\ n \in Nat
      BY <3>1, PipelineAssumption
    <3>4. Untouched' => Untouched
      BY <2>1, <3>2 DEF Untouched
    <3>5. ~(job'.next > 0) /\ ~(job'.next > FilesOf(n))
      BY <3>3 DEF FilesOf
    <3>6. ASSUME NEW i \in Id PROVE ~(i + 1 < job'.next)
      BY <1>0, <3>3
    <3> QED BY <2>1, <3>3, <3>4, <3>5, <3>6 DEF FilesInv
  <2> QED BY <2>2, <2>3
<1>7. ASSUME NEW shutdown \in BOOLEAN, Restart(shutdown) PROVE FilesInv'
  BY <1>7 DEF Restart, files, FilesInv, Untouched
<1>8. CASE UNCHANGED <<job, files, cache>>
  BY <1>8 DEF files, FilesInv, Untouched
<1> QED
  BY <1>1, <1>3, <1>4, <1>5, <1>6, <1>7, <1>8
     DEF Next, vars, pool, Load, register, Exit, StartManually, StartRound, reset_experiment,
         list, prepare_dataset, spawn_clients, spawn, stop

(* Requests to spawn and to prepare keep out of each other's way, unless   *)
(* they overlapped.                                                        *)
LEMMA QuietKept ==
  ASSUME Types, PoolInv, QuietInv, [Next]_vars
  PROVE  QuietInv'
<1> SUFFICES ASSUME ~overlap', job'.running \/ Doing("prepare")' # {}
             PROVE  Doing("spawn")' = {} /\ \A i \in Recorded' : ~alive(clients[i])'
  BY DEF QuietInv, alive
<1>0. op \in [Request -> OpRecord]
  BY DEF Types, RequestTypes
<1>1. ASSUME ~overlap, job.running \/ Doing("prepare") # {}, Doing("spawn")' \subseteq Doing("spawn")
      PROVE  Doing("spawn")' = {} /\ \A i \in Recorded' : ~alive(clients[i])'
  <2>1. Doing("spawn") = {} /\ \A i \in Recorded : ~alive(clients[i])
    BY <1>1 DEF QuietInv
  <2>2. ASSUME NEW r \in Request PROVE ~spawn(r)
    BY <2>1 DEF spawn, Doing
  <2>3. ASSUME NEW i \in Recorded', alive(clients[i])' PROVE FALSE
    <3>1. i \in Id /\ clients'[i] # NoProcess /\ proc'[clients'[i]].state \in {"starting", "up"}
      BY <2>3 DEF Recorded, alive
    <3>2. StillRuns(i)
      BY <2>2, <3>1, RecordedMoves
    <3> QED BY <2>1, <3>1, <3>2 DEF StillRuns, Recorded
  <2> QED BY <1>1, <2>1, <2>3
<1>2. ASSUME NEW r \in Request, prepare_dataset(r), ~UNCHANGED <<op, overlap>>
      PROVE  Doing("spawn")' = {} /\ \A i \in Recorded' : ~alive(clients[i])'
  <2>1. /\ \A i \in Recorded : ~alive(clients[i])
        /\ op' = [op EXCEPT ![r] = [do |-> "prepare", ids |-> {}]]
        /\ ~overlap' => Doing("spawn") = {}
        /\ UNCHANGED <<proc, clients>>
    BY <1>2 DEF prepare_dataset, Become
  <2>2. Doing("spawn")' \subseteq Doing("spawn")
    <3>1. ASSUME NEW q \in Request, op'[q].do = "spawn" PROVE op[q].do = "spawn"
      BY <1>0, <2>1, <3>1
    <3> QED BY <3>1 DEF Doing
  <2> QED BY <2>1, <2>2 DEF Recorded, alive
<1>3. ASSUME NEW r \in Request, NEW ids \in Ranges, spawn_clients(r, ids) PROVE FALSE
  <2>1. /\ op' = [op EXCEPT ![r] = [do |-> "spawn", ids |-> ids]]
        /\ ~overlap' => Doing("prepare") = {}
        /\ ~job'.running
    BY <1>3 DEF spawn_clients, Become
  <2>2. Doing("prepare")' \subseteq Doing("prepare")
    <3>1. ASSUME NEW q \in Request, op'[q].do = "prepare" PROVE op[q].do = "prepare"
      BY <1>0, <2>1, <3>1
    <3> QED BY <3>1 DEF Doing
  <2> QED BY <2>1, <2>2
<1>4. ASSUME NEW r \in Request, Over(r)
      PROVE  /\ Doing("spawn")' \subseteq Doing("spawn")
             /\ Doing("prepare")' \subseteq Doing("prepare")
  <2>1. ASSUME NEW q \in Request PROVE op'[q].do = op[q].do \/ op'[q].do = "off"
    BY <1>0, <1>4 DEF Over, Off
  <2> QED BY <2>1 DEF Doing
<1>5. ASSUME NEW r \in Request, StartJob(r)
      PROVE  Doing("spawn")' = {} /\ \A i \in Recorded' : ~alive(clients[i])'
  <2>1. Over(r) /\ UNCHANGED overlap /\ Doing("prepare") # {}
    BY <1>5 DEF StartJob, Over, Doing
  <2> QED BY <1>1, <1>4, <2>1
<1>6. ASSUME NEW r \in Request, spawn(r)
      PROVE  Doing("spawn")' = {} /\ \A i \in Recorded' : ~alive(clients[i])'
  <2>1. Over(r) /\ UNCHANGED <<overlap, job>>
    BY <1>6 DEF spawn, Over
  <2> QED BY <1>1, <1>4, <2>1
<1>7. ASSUME NEW shutdown \in BOOLEAN, Restart(shutdown)
      PROVE  Doing("spawn")' = {} /\ \A i \in Recorded' : ~alive(clients[i])'
  <2>1. clients' = [i \in Id |-> NoProcess] /\ op' = [r \in Request |-> Off]
    BY <1>7 DEF Restart
  <2>2. Recorded' = {}
    BY <2>1 DEF Recorded
  <2>3. Doing("spawn")' = {}
    BY <2>1 DEF Doing, Off
  <2> QED BY <2>2, <2>3
<1>8. ASSUME UNCHANGED <<op, overlap>>, job'.running => job.running
      PROVE  Doing("spawn")' = {} /\ \A i \in Recorded' : ~alive(clients[i])'
  <2>1. Doing("spawn")' = Doing("spawn") /\ Doing("prepare")' = Doing("prepare")
    BY <1>8 DEF Doing
  <2> QED BY <1>1, <1>8, <2>1
<1>9. CASE PrepareDone \/ PrepareFails
  <2>1. UNCHANGED <<op, overlap>> /\ job.running
    BY <1>9 DEF PrepareDone, PrepareFails
  <2> QED BY <1>8, <2>1
<1>10. CASE Prepare
  <2>1. UNCHANGED <<op, overlap>> /\ job.running
    BY <1>10 DEF Prepare
  <2> QED BY <1>8, <2>1
<1>11. ASSUME NEW r \in Request, prepare_dataset(r), UNCHANGED <<op, overlap>>
       PROVE  Doing("spawn")' = {} /\ \A i \in Recorded' : ~alive(clients[i])'
  BY <1>8, <1>11 DEF prepare_dataset
<1> QED
  BY <1>2, <1>3, <1>5, <1>6, <1>7, <1>8, <1>9, <1>10, <1>11
     DEF Next, vars, Load, register, Exit, StartManually, StartRound, FinishRound,
         reset_experiment, list, stop

(* What supervised clients have loaded stays the corpus of the test split. *)
LEMMA LoadedKept ==
  ASSUME Types, PoolInv, CorpusInv, [Next]_vars
  PROVE  LoadedInv'
<1> SUFFICES ASSUME ~overlap', intact', ~job'.running,
                    NEW i \in Recorded', proc'[clients'[i]].state = "up", i < planned'
             PROVE  proc'[clients'[i]].data = test'
  BY DEF LoadedInv
<1>1. i \in Id /\ clients'[i] # NoProcess
  BY DEF Recorded
<1>2. StillRuns(i)
  BY <1>1, RecordedMoves
<1>3. ~overlap
  BY DEF Next, vars, Load, register, Exit, StartManually, StartRound, FinishRound,
         reset_experiment, Prepare, PrepareDone, PrepareFails, list, prepare_dataset, StartJob,
         spawn_clients, spawn, stop, Restart, Become, Over
<1>4. ~job.running
  <2>1. job.running => ~alive(clients[i])
    BY <1>1, <1>2, <1>3 DEF CorpusInv, QuietInv, Recorded, StillRuns
  <2> QED BY <1>2, <2>1 DEF StillRuns
<1>5. UNCHANGED <<shard, test, planned, intact>>
  BY <1>4 DEF Next, vars, files, pool, Load, register, Exit, StartManually, StartRound,
         FinishRound, reset_experiment, Prepare, PrepareDone, PrepareFails, list,
         prepare_dataset, StartJob, spawn_clients, spawn, stop, Restart
<1>6. shard[i] = test
  BY <1>1, <1>4, <1>5 DEF CorpusInv, FilesInv, Untouched
<1>7. CASE /\ proc'[clients[i]].state = proc[clients[i]].state
           /\ proc'[clients[i]].data = proc[clients[i]].data
  <2>1. i \in Recorded /\ clients'[i] = clients[i]
    BY <1>1, <1>2 DEF StillRuns, Recorded
  <2>2. proc[clients[i]].data = test
    BY <1>3, <1>4, <1>5, <1>7, <2>1 DEF CorpusInv, LoadedInv
  <2> QED BY <1>5, <1>7, <2>1, <2>2
<1>8. CASE proc'[clients[i]].data = shard[i]
  BY <1>2, <1>5, <1>6, <1>8 DEF StillRuns
<1> QED
  BY <1>2, <1>7, <1>8 DEF StillRuns

(* The dataset job and the clients start in the invariant and stay in it.  *)
THEOREM CorpusInvHolds == Spec => []CorpusInv
<1>1. Init => CorpusInv
  <2> SUFFICES ASSUME Init PROVE CorpusInv
    OBVIOUS
  <2>1. ~job.running /\ job.next = 0
    BY DEF Init, Idle
  <2>2. FilesInv
    <3>1. PICK prepared \in {0, 1} : shard = [i \in Id |-> prepared] /\ test = prepared
      BY DEF Init
    <3>2. cache = 0 /\ \A i \in Id : shard[i] = test
      BY <3>1 DEF Init
    <3> QED BY <2>1, <3>2 DEF FilesInv
  <2>3. Recorded = {} /\ Doing("prepare") = {} /\ Doing("spawn") = {}
    BY DEF Init, Recorded, Doing, Off
  <2> QED BY <2>1, <2>2, <2>3 DEF CorpusInv, QuietInv, LoadedInv
<1>2. Types /\ PoolInv /\ CorpusInv /\ [Next]_vars => CorpusInv'
  BY FilesKept, QuietKept, LoadedKept DEF CorpusInv
<1> QED
  BY <1>1, <1>2, TypesHold, PoolInvHolds, PTL DEF Spec

(* OneCorpus: after a preparation that succeeded the supervised clients    *)
(* train on its shards and the coordinator evaluates on its test split.    *)
THEOREM OneCorpusHolds == Spec => []OneCorpus
<1>1. CorpusInv => OneCorpus
  BY DEF CorpusInv, FilesInv, LoadedInv, Untouched, OneCorpus
<1> QED
  BY <1>1, CorpusInvHolds, PTL

-----------------------------------------------------------------------------
(* Below the cap: no member of a finite set of naturals has as many        *)
(* members below it as the next one has.                                   *)
LEMMA LowestIsSmall ==
  ASSUME NEW S \in SUBSET Nat, IsFiniteSet(S), NEW n \in Nat
  PROVE  IsFiniteSet(Lowest(S, n)) /\ Cardinality(Lowest(S, n)) <= n
<1> DEFINE below(i) == {j \in S : j < i}
           L == Lowest(S, n)
           rank == [i \in L |-> Cardinality(below(i))]
<1>1. ASSUME NEW i \in S PROVE IsFiniteSet(below(i)) /\ Cardinality(below(i)) \in Nat
  BY FS_Subset, FS_CardinalityType
<1>2. ASSUME NEW i \in S, NEW j \in S, i < j
      PROVE  Cardinality(below(i)) < Cardinality(below(j))
  <2>1. Cardinality(below(i) \cup {i}) = Cardinality(below(i)) + 1
    BY <1>1, FS_AddElement
  <2>2. below(i) \cup {i} \subseteq below(j)
    <3>1. i \in Nat /\ j \in Nat /\ \A k \in S : k \in Nat
      OBVIOUS
    <3>2. ASSUME NEW k \in S, k < i PROVE k < j
      BY <1>2, <3>1, <3>2
    <3> QED BY <1>2, <3>2
  <2>3. Cardinality(below(i) \cup {i}) <= Cardinality(below(j))
    BY <1>1, <2>2, FS_Subset
  <2> QED BY <1>1, <2>1, <2>3
<1>3. L \subseteq S /\ \A i \in L : Cardinality(below(i)) \in 0 .. n - 1
  BY <1>1 DEF Lowest
<1> HIDE DEF below, L
<1>4. rank \in [L -> 0 .. n - 1]
  BY <1>3
<1>5. ASSUME NEW i \in L, NEW j \in L, rank[i] = rank[j] PROVE i = j
  <2>1. i \in S /\ j \in S /\ i \in Nat /\ j \in Nat
    BY <1>3
  <2>2. CASE i < j
    BY <1>1, <1>2, <1>5, <2>1, <2>2
  <2>3. CASE j < i
    BY <1>1, <1>2, <1>5, <2>1, <2>3
  <2> QED BY <2>1, <2>2, <2>3
<1>6. rank \in Injection(L, 0 .. n - 1)
  BY <1>4, <1>5 DEF Injection, IsInjective
<1>7. IsFiniteSet(0 .. n - 1) /\ Cardinality(0 .. n - 1) = n
  <2>1. 0 \in Int /\ n - 1 \in Int
    OBVIOUS
  <2>2. /\ IsFiniteSet(0 .. n - 1)
        /\ Cardinality(0 .. n - 1) = IF 0 > n - 1 THEN 0 ELSE n - 1 - 0 + 1
    BY <2>1, FS_Interval
  <2> QED BY <2>2
<1>8. IsFiniteSet(L) /\ Cardinality(L) <= n
  BY <1>6, <1>7, FS_Injection
<1> QED
  BY <1>8 DEF L

\* The live clients of the supervisor.
Active == {i \in Recorded : alive(clients[i])}

CapInv == Cardinality(Active) <= MAX_SUPERVISED_CLIENTS

\* Preparations, planned clients and shards are numbered within the bounds.
BoundInv ==
  /\ job.run <= MaxPreparations /\ job.clients <= MaxId + 1 /\ planned <= MaxId + 1
  /\ \A i \in Id : shard[i] <= MaxPreparations
  /\ \A p \in Process : proc[p].data <= MaxPreparations

(* Spawning stops at the cap.                                              *)
LEMMA SpawnWithinCap ==
  ASSUME Types, CapInv, NEW r \in Request, spawn(r)
  PROVE  \E new \in SUBSET Id :
           /\ Cardinality(Active \cup new) <= MAX_SUPERVISED_CLIENTS
           /\ \A i \in Id \ new : clients'[i] = clients[i]
<1>0. IsFiniteSet(Id) /\ Id \subseteq Nat /\ MAX_SUPERVISED_CLIENTS \in Nat
  <2>1. 0 \in Int /\ MaxId \in Int /\ MAX_SUPERVISED_CLIENTS \in Nat
    BY PipelineAssumption
  <2> QED BY <2>1, FS_Interval DEF Id
<1>1. Active \subseteq Id /\ IsFiniteSet(Active) /\ Cardinality(Active) \in Nat
  <2>1. Active \subseteq Id
    BY DEF Active, Recorded
  <2> QED BY <1>0, <2>1, FS_Subset, FS_CardinalityType
<1>2. CASE UNCHANGED <<proc, clients>>
  <2>1. Active \cup {} = Active
    OBVIOUS
  <2>2. /\ Cardinality(Active \cup {}) <= MAX_SUPERVISED_CLIENTS
        /\ \A i \in Id \ {} : clients'[i] = clients[i]
    BY <1>2, <2>1 DEF CapInv
  <2> WITNESS {} \in SUBSET Id
  <2> QED BY <2>2
<1>3. CASE ~UNCHANGED <<proc, clients>>
  <2> DEFINE fresh == op[r].ids \ Active
  <2>1. fresh \subseteq Id
    BY DEF Types, RequestTypes, OpRecord
  <2>2. PICK failing \in SUBSET fresh :
          LET room == MAX_SUPERVISED_CLIENTS - Cardinality(Active)
              new  == IF Cardinality(Active) >= MAX_SUPERVISED_CLIENTS THEN {}
                      ELSE Lowest(fresh \ failing, room)
          IN \E pid : clients' = [i \in Id |-> IF i \in new THEN pid[i] ELSE clients[i]]
    BY <1>3 DEF spawn, Active
  <2> DEFINE room == MAX_SUPERVISED_CLIENTS - Cardinality(Active)
             low == Lowest(fresh \ failing, room)
             new == IF Cardinality(Active) >= MAX_SUPERVISED_CLIENTS THEN {} ELSE low
  <2>3. PICK pid : clients' = [i \in Id |-> IF i \in new THEN pid[i] ELSE clients[i]]
    BY <2>2
  <2>4. new \subseteq Id
    BY <2>1 DEF Lowest
  <2>5. \A i \in Id \ new : clients'[i] = clients[i]
    BY <2>3
  <2>6. Cardinality(Active \cup new) <= MAX_SUPERVISED_CLIENTS
    <3>1. CASE Cardinality(Active) >= MAX_SUPERVISED_CLIENTS
      <4>1. Active \cup new = Active
        BY <3>1
      <4> QED BY <4>1 DEF CapInv
    <3>2. CASE Cardinality(Active) < MAX_SUPERVISED_CLIENTS
      <4>0. room \in Nat /\ Cardinality(Active) + room = MAX_SUPERVISED_CLIENTS
        BY <1>0, <1>1, <3>2
      <4>1. fresh \ failing \in SUBSET Nat /\ IsFiniteSet(fresh \ failing)
        BY <1>0, <2>1, FS_Subset
      <4>2. new = low
        BY <1>0, <1>1, <3>2
      <4> HIDE DEF room, fresh, new
      <4>3. IsFiniteSet(low) /\ Cardinality(low) <= room
        BY <4>0, <4>1, LowestIsSmall
      <4>4. /\ Cardinality(Active \cup low) =
                 Cardinality(Active) + Cardinality(low) - Cardinality(Active \cap low)
            /\ Cardinality(Active \cap low) \in Nat
        <5>1. IsFiniteSet(Active \cap low)
          BY <1>1, FS_Intersection
        <5> HIDE DEF low
        <5> QED BY <1>1, <4>3, <5>1, FS_Union, FS_CardinalityType
      <4>5. Cardinality(low) \in Nat
        BY <4>3, FS_CardinalityType
      <4> HIDE DEF low
      <4> QED BY <1>0, <1>1, <4>0, <4>2, <4>3, <4>4, <4>5
    <3> QED BY <1>0, <1>1, <3>1, <3>2
  <2> HIDE DEF new
  <2> QED BY <2>4, <2>5, <2>6
<1> QED
  BY <1>2, <1>3

(* The supervisor never has more live clients than the cap: nothing but a  *)
(* spawn makes one of its clients live.                                    *)
LEMMA CapKept ==
  ASSUME Types, Types', PoolInv, CapInv, [Next]_vars
  PROVE  CapInv'
<1>0. IsFiniteSet(Id) /\ MAX_SUPERVISED_CLIENTS \in Nat
  <2>1. 0 \in Int /\ MaxId \in Int /\ MAX_SUPERVISED_CLIENTS \in Nat
    BY PipelineAssumption
  <2> QED BY <2>1, FS_Interval DEF Id
<1>1. Active \subseteq Id /\ Active' \subseteq Id
  BY DEF Active, Recorded
<1>2. ASSUME NEW i \in Active' PROVE (\E r \in Request : spawn(r)) \/ i \in Active
  <2>1. i \in Id /\ clients'[i] # NoProcess /\ proc'[clients'[i]].state \in {"starting", "up"}
    BY DEF Active, Recorded, alive
  <2>2. (\E r \in Request : spawn(r)) \/ StillRuns(i)
    BY <2>1, RecordedMoves
  <2> QED BY <2>1, <2>2 DEF StillRuns, Active, Recorded
<1>3. PICK more \in SUBSET Id : /\ Active' \subseteq more
                                /\ Cardinality(more) <= MAX_SUPERVISED_CLIENTS
  <2>1. CASE Active' \subseteq Active
    BY <1>1, <2>1 DEF CapInv
  <2>2. CASE \E r \in Request : spawn(r)
    <3>1. PICK r \in Request : spawn(r)
      BY <2>2
    <3>2. PICK new \in SUBSET Id :
            /\ Cardinality(Active \cup new) <= MAX_SUPERVISED_CLIENTS
            /\ \A i \in Id \ new : clients'[i] = clients[i]
      BY <3>1, SpawnWithinCap
    <3>3. ASSUME NEW i \in Active', i \notin new PROVE i \in Active
      <4>1. i \in Id /\ clients[i] # NoProcess /\ clients'[i] = clients[i] /\ alive(clients[i])'
        BY <3>2, <3>3 DEF Active, Recorded
      <4>2. clients[i] \in Process /\ proc[clients[i]].state # "unused"
        BY <4>1 DEF Types, ProcessTypes, PoolInv, ClientsInv
      <4>3. proc'[clients[i]] = proc[clients[i]]
        BY <3>1, <4>2, SpawnLeavesOthers
      <4> QED BY <4>1, <4>3 DEF Active, Recorded, alive
    <3>4. Active' \subseteq Active \cup new
      BY <3>3
    <3> QED BY <1>1, <3>2, <3>4
  <2> QED BY <1>2, <2>1, <2>2
<1>4. IsFiniteSet(more) /\ Cardinality(more) \in Nat
  BY <1>0, FS_Subset, FS_CardinalityType
<1>5. IsFiniteSet(Active') /\ Cardinality(Active') <= Cardinality(more)
  BY <1>3, <1>4, FS_Subset
<1>6. Cardinality(Active') \in Nat
  BY <1>5, FS_CardinalityType
<1>7. Cardinality(Active') <= MAX_SUPERVISED_CLIENTS
  BY <1>0, <1>3, <1>4, <1>5, <1>6
<1> QED
  BY <1>7 DEF CapInv

(* Everything numbered stays within the bounds of the model.               *)
LEMMA BoundKept ==
  ASSUME Types, Types', BoundInv, [Next]_vars
  PROVE  BoundInv'
<1>0. /\ MaxId \in Nat /\ MaxPreparations \in Nat \ {0}
      /\ job \in JobRecord /\ job.run \in Nat /\ job.clients \in Nat
      /\ proc \in [Process -> ProcRecord] /\ shard \in [Id -> Nat] /\ op \in [Request -> OpRecord]
  BY PipelineAssumption DEF Types, ProcessTypes, FileTypes, RequestTypes, JobRecord
<1>1. ASSUME UNCHANGED <<job, shard, planned>>,
             \A p \in Process : proc'[p].data \in {0, proc[p].data} \cup {shard[i] : i \in Id}
      PROVE  BoundInv'
  BY <1>0, <1>1 DEF BoundInv
<1>2. ASSUME NEW p \in Process, Load(p) PROVE BoundInv'
  <2>1. /\ UNCHANGED <<job, shard, planned>>
        /\ proc' = [proc EXCEPT ![p].state = "up", ![p].data = shard[proc[p].id]]
    BY <1>2 DEF Load, files
  <2>2. proc[p].id \in Id
    BY <1>0 DEF ProcRecord
  <2>3. ASSUME NEW q \in Process PROVE proc'[q].data \in {0, proc[q].data} \cup {shard[i] : i \in Id}
    <3>1. CASE q = p
      <4>1. proc'[q].data = shard[proc[p].id]
        BY <1>0, <2>1, <3>1 DEF ProcRecord
      <4> QED BY <2>2, <4>1
    <3>2. CASE q # p
      BY <1>0, <2>1, <3>2
    <3> QED BY <3>1, <3>2
  <2> QED BY <1>1, <2>1, <2>3
<1>3. ASSUME UNCHANGED <<job, shard, planned>>,
             \A p \in Process : proc'[p].data \in {0, proc[p].data}
      PROVE  BoundInv'
  BY <1>1, <1>3
<1>4. ASSUME NEW p \in Process, register(p) PROVE BoundInv'
  <2>1. /\ UNCHANGED <<job, shard, planned>>
        /\ proc' = [proc EXCEPT ![p].posted = FALSE, ![p].late = ~alive(p)]
    BY <1>4 DEF register, files
  <2>2. \A q \in Process : proc'[q].data \in {0, proc[q].data}
    BY <1>0, <2>1 DEF ProcRecord
  <2> QED BY <1>3, <2>1, <2>2
<1>5. ASSUME NEW p \in Process, NEW posted PROVE Ended(p, posted).data = 0
  BY <1>0 DEF Ended, ProcRecord
<1>6. ASSUME NEW p \in Process, NEW i, NEW by PROVE Started(p, i, by).data = proc[p].data
  BY <1>0 DEF Started, ProcRecord
<1>7. ASSUME NEW p \in Process, Exit(p) PROVE BoundInv'
  <2>1. PICK posted : proc' = [proc EXCEPT ![p] = Ended(p, posted)]
    BY <1>7 DEF Exit
  <2>2. UNCHANGED <<job, shard, planned>>
    BY <1>7 DEF Exit, files
  <2>3. \A q \in Process : proc'[q].data \in {0, proc[q].data}
    BY <1>0, <1>5, <2>1
  <2> QED BY <1>3, <2>2, <2>3
<1>8. ASSUME NEW p \in Process, NEW i \in Id, StartManually(p, i) PROVE BoundInv'
  <2>1. proc' = [proc EXCEPT ![p] = Started(p, i, "hand")] /\ UNCHANGED <<job, shard, planned>>
    BY <1>8 DEF StartManually, files
  <2>2. \A q \in Process : proc'[q].data \in {0, proc[q].data}
    BY <1>0, <1>6, <2>1
  <2> QED BY <1>3, <2>1, <2>2
<1>9. ASSUME NEW r \in Request, spawn(r) PROVE BoundInv'
  <2>1. UNCHANGED <<job, shard, planned>>
    BY <1>9 DEF spawn, files
  <2>2. CASE UNCHANGED <<proc, clients>>
    BY <1>3, <2>1, <2>2
  <2>3. CASE ~UNCHANGED <<proc, clients>>
    <3>1. PICK new \in SUBSET Id : \E pid \in [new -> Unused] :
             proc' = [q \in Process |->
                  IF \E i \in new : pid[i] = q
                  THEN Started(q, CHOOSE i \in new : pid[i] = q, "supervisor") ELSE proc[q]]
      BY <1>9, <2>3, SpawnIs
    <3>2. PICK pid : proc' = [q \in Process |->
                  IF \E i \in new : pid[i] = q
                  THEN Started(q, CHOOSE i \in new : pid[i] = q, "supervisor") ELSE proc[q]]
      BY <3>1
    <3>3. \A q \in Process : proc'[q].data = proc[q].data
      BY <1>6, <3>2
    <3> QED BY <1>3, <2>1, <3>3
  <2> QED BY <2>2, <2>3
<1>10. ASSUME NEW ids \in SUBSET Id, stop(ids) PROVE BoundInv'
  <2>1. PICK pids, posted : proc' = [p \in Process |->
                 IF p \in pids /\ alive(p) THEN Ended(p, p \in posted) ELSE proc[p]]
    BY <1>10 DEF stop
  <2>2. UNCHANGED <<job, shard, planned>>
    BY <1>10 DEF stop, files
  <2>3. \A q \in Process : proc'[q].data \in {0, proc[q].data}
    BY <1>5, <2>1
  <2> QED BY <1>3, <2>2, <2>3
<1>11. ASSUME NEW shutdown \in BOOLEAN, Restart(shutdown) PROVE BoundInv'
  <2>1. UNCHANGED <<job, shard, planned>>
    BY <1>11 DEF Restart, files
  <2>2. ASSUME NEW q \in Process PROVE proc'[q].data \in {0, proc[q].data}
    <3>1. [proc[q] EXCEPT !.by = "hand"].data = proc[q].data
      BY <1>0 DEF ProcRecord
    <3>2. Ended(q, FALSE).data = 0
      BY <1>5
    <3> QED BY <1>11, <3>1, <3>2 DEF Restart
  <2> QED BY <1>3, <2>1, <2>2
<1>12. CASE Prepare
  <2>1. /\ job'.run = job.run /\ job'.clients = job.clients
        /\ planned' \in {planned, job.clients} /\ UNCHANGED proc
    BY <1>0, <1>12 DEF Prepare, JobRecord
  <2>2. \A i \in Id : shard'[i] \in {shard[i], job.run}
    BY <1>12 DEF Prepare
  <2> QED BY <2>1, <2>2 DEF BoundInv
<1>13. CASE PrepareDone \/ PrepareFails
  <2>1. job' = Idle(job.run) /\ UNCHANGED <<proc, shard, planned>>
    BY <1>13 DEF PrepareDone, PrepareFails
  <2>2. job'.run = job.run /\ job'.clients = 0
    BY <2>1 DEF Idle
  <2> QED BY <1>0, <2>1, <2>2 DEF BoundInv
<1>14. ASSUME NEW r \in Request, StartJob(r) PROVE BoundInv'
  <2>1. UNCHANGED <<proc, shard, planned>>
    BY <1>14 DEF StartJob, files
  <2>2. CASE UNCHANGED job
    BY <2>1, <2>2 DEF BoundInv
  <2>3. CASE ~UNCHANGED job
    <3>1. PICK n \in 1 .. MaxId + 1 :
            /\ job' = [running |-> TRUE, clients |-> n, next |-> 0, run |-> job.run + 1]
            /\ job.run < MaxPreparations
      BY <1>14, <2>3 DEF StartJob
    <3>2. job'.clients = n /\ job'.run = job.run + 1
      BY <3>1
    <3> QED BY <1>0, <2>1, <3>1, <3>2 DEF BoundInv
  <2> QED BY <2>2, <2>3
<1>15. CASE UNCHANGED <<job, shard, planned, proc>>
  BY <1>15 DEF BoundInv
<1> QED
  BY <1>2, <1>4, <1>7, <1>8, <1>9, <1>10, <1>11, <1>12, <1>13, <1>14, <1>15
     DEF Next, vars, files, pool, StartRound, FinishRound, reset_experiment, list,
         prepare_dataset, spawn_clients

BusyInv == busy \in BOOLEAN

(* A round is in progress or not.                                          *)
LEMMA BusyKept ==
  ASSUME BusyInv, [Next]_vars
  PROVE  BusyInv'
<1> USE DEF BusyInv
<1>1. CASE StartRound
  <2>1. (reap_dead # {}) = TRUE \/ (reap_dead # {}) = FALSE
    OBVIOUS
  <2> QED BY <1>1, <2>1, Zenon DEF StartRound
<1>2. CASE busy' = busy \/ busy' = FALSE
  BY <1>2
<1> QED
  BY <1>1, <1>2
     DEF Next, vars, pool, Load, register, Exit, StartManually, FinishRound, reset_experiment,
         Prepare, PrepareDone, PrepareFails, list, prepare_dataset, StartJob, spawn_clients, spawn,
         stop, Restart

(* TypeOK: the supervisor's table names processes of the right clients, at *)
(* most MAX_SUPERVISED_CLIENTS of them alive, whatever requests to spawn   *)
(* and stop interleave.                                                    *)
THEOREM TypeCorrect == Spec => []TypeOK
<1>1. Init => CapInv /\ BoundInv /\ BusyInv
  <2> SUFFICES ASSUME Init PROVE CapInv /\ BoundInv /\ BusyInv
    OBVIOUS
  <2>0. /\ MaxId \in Nat /\ MaxPreparations \in Nat \ {0} /\ MAX_SUPERVISED_CLIENTS \in Nat
    BY PipelineAssumption
  <2>1. Active = {}
    BY DEF Init, Active, Recorded
  <2>2. CapInv
    BY <2>0, <2>1, FS_EmptySet DEF CapInv
  <2>3. PICK prepared \in {0, 1} : shard = [i \in Id |-> prepared] /\ planned = prepared * (MaxId + 1)
    BY DEF Init
  <2>4. job.run = 1 /\ job.clients = 0 /\ \A p \in Process : proc[p].data = 0
    BY DEF Init, Idle
  <2>5. planned <= MaxId + 1
    BY <2>0, <2>3
  <2>6. BoundInv
    BY <2>0, <2>3, <2>4, <2>5 DEF BoundInv
  <2> QED BY <2>2, <2>6 DEF Init, BusyInv
<1>2. Types /\ Types' /\ PoolInv /\ CapInv /\ BoundInv /\ BusyInv /\ [Next]_vars
        => CapInv' /\ BoundInv' /\ BusyInv'
  BY CapKept, BoundKept, BusyKept
<1>3. Types /\ PoolInv /\ CapInv /\ BoundInv /\ BusyInv => TypeOK
  <2> SUFFICES ASSUME Types, PoolInv, CapInv, BoundInv, BusyInv PROVE TypeOK
    OBVIOUS
  <2>0. MaxId \in Nat /\ MaxPreparations \in Nat
    BY PipelineAssumption
  <2>1. \A p \in Process : /\ proc[p].id \in Id
                           /\ proc[p].by \in {"nobody", "hand", "supervisor"}
                           /\ proc[p].state \in {"unused", "starting", "up", "dead"}
                           /\ proc[p].data \in 0 .. MaxPreparations
    BY <2>0 DEF Types, ProcessTypes, ProcRecord, BoundInv
  <2>2. \A i \in Recorded : clients[i] \in Process /\ proc[clients[i]].id = i
    BY DEF Types, ProcessTypes, PoolInv, ClientsInv, Recorded
  <2>3. Cardinality({i \in Recorded : alive(clients[i])}) <= MAX_SUPERVISED_CLIENTS
    BY DEF CapInv, Active
  <2>4. job.run \in 0 .. MaxPreparations /\ planned \in 0 .. MaxId + 1
    BY <2>0 DEF Types, FileTypes, JobRecord, BoundInv
  <2>5. \A r \in Request : op[r].do \in {"off", "prepare", "spawn"}
    BY DEF Types, RequestTypes, OpRecord
  <2>6. registered \subseteq Id /\ {busy, intact, overlap} \subseteq BOOLEAN
    BY DEF Types, ProcessTypes, FileTypes, RequestTypes, BusyInv
  <2> QED BY <2>1, <2>2, <2>3, <2>4, <2>5, <2>6 DEF TypeOK
<1> QED
  BY <1>1, <1>2, <1>3, TypesHold, PoolInvHolds, PTL DEF Spec
=============================================================================
