------------------------------- MODULE Pipeline -------------------------------
(***************************************************************************)
(* The client processes, the supervisor that starts and stops some of      *)
(* them, the background job that replaces the dataset, and the requests    *)
(* that ask for these things (fl/pipeline/supervisor.py,                   *)
(* app/services/pipeline_service.py, fl/data/prepare.py).                  *)
(*                                                                         *)
(* A registration is an HTTP request: it may arrive after the process that *)
(* posted it is dead.  The supervisor's lock makes spawning and stopping   *)
(* single steps; what a request checked before is not locked.  Files are   *)
(* written one by one; of a file only the preparation it comes from        *)
(* matters.  Of rounds only whether one is in progress, of drop_at nothing *)
(* (SecAggRound.tla).                                                      *)
(***************************************************************************)
EXTENDS Naturals, FiniteSets

CONSTANTS
  Process,                 \* process ids; bounds how many are ever started
  MaxId,                   \* client ids are 0 .. MaxId
  Request,                 \* threads that serve requests
  MAX_SUPERVISED_CLIENTS,
  MaxPreparations,         \* bound on runs of the dataset job, the one before the start included
  NoProcess

Id == 0 .. MaxId

ASSUME PipelineAssumption ==
  /\ MaxId \in Nat /\ MAX_SUPERVISED_CLIENTS \in Nat /\ MaxPreparations \in Nat \ {0}
  /\ NoProcess \notin Process

VARIABLES
  proc,                    \* what is known of each process
  clients,                 \* ClientSupervisor._clients
  registered, busy,        \* the coordinator's pool, and is a round or a sweep in progress?
  cache,                   \* preparation its cached test split comes from
  job,                     \* the dataset job: running, clients, next file, run
  shard, test, planned,    \* preparation of each file; meta.json's client number
  intact,                  \* did the last preparation succeed?
  op,                      \* what each request is about to do
  overlap                  \* history: did a spawn overlap with a preparation?

files == <<shard, test, planned, intact>>
pool  == <<registered, busy, cache>>
vars  == <<proc, clients, pool, job, files, op, overlap>>

\* Before the server started, run 1 of the job prepared everything, or nothing was prepared.
Off == [do |-> "off", ids |-> {}]
Idle(run) == [running |-> FALSE, clients |-> 0, next |-> 0, run |-> run]

Init ==
  /\ proc = [p \in Process |-> [id |-> 0, by |-> "nobody", state |-> "unused",
                                data |-> 0, posted |-> FALSE, late |-> FALSE]]
  /\ clients = [i \in Id |-> NoProcess]
  /\ registered = {} /\ busy = FALSE /\ cache = 0
  /\ job = Idle(1)
  /\ \E prepared \in {0, 1} : /\ shard = [i \in Id |-> prepared] /\ test = prepared
                             /\ planned = prepared * (MaxId + 1)
  /\ intact = TRUE
  /\ op = [r \in Request |-> Off]
  /\ overlap = FALSE

alive(p) == p # NoProcess /\ proc[p].state \in {"starting", "up"}
Recorded == {i \in Id : clients[i] # NoProcess}
Dead == {i \in Recorded : ~alive(clients[i])}
ready == planned # 0 /\ test # 0 /\ \E i \in Id : shard[i] # 0
\* Mutant: the cap is looked at once, not for every client.
LowestUncapped(S, n) == IF n > 0 THEN S ELSE {}

Lowest(S, n) == {i \in S : Cardinality({j \in S : j < i}) < n}

-----------------------------------------------------------------------------
(* Client processes.                                                       *)
Unused == {p \in Process : proc[p].state = "unused"}
Started(p, i, by) == [proc[p] EXCEPT !.id = i, !.by = by, !.state = "starting"]

\* python -m fl.client.run, by hand
StartManually(p, i) ==
  /\ p \in Unused
  /\ shard[i] # 0
  /\ proc' = [proc EXCEPT ![p] = Started(p, i, "hand")]
  /\ UNCHANGED <<clients, pool, job, files, op, overlap>>

\* FederatedClient.__init__ reads the shard.
Load(p) ==
  /\ proc[p].state = "starting"
  /\ proc' = [proc EXCEPT ![p].state = "up", ![p].data = shard[proc[p].id]]
  /\ UNCHANGED <<clients, pool, job, files, op, overlap>>

\* A live client registers before every round; "posted" is the request of a dead one.
register(p) ==
  /\ proc[p].state = "up" \/ proc[p].posted
  /\ registered' = registered \cup {proc[p].id}
  /\ proc' = [proc EXCEPT ![p].posted = FALSE, ![p].late = ~alive(p)]
  /\ UNCHANGED <<clients, busy, cache, job, files, op, overlap>>

Ended(p, posted) == [proc[p] EXCEPT !.state = "dead", !.data = 0, !.posted = posted]

Exit(p) ==
  /\ alive(p)
  /\ \E posted \in {FALSE, proc[p].state = "up"} : proc' = [proc EXCEPT ![p] = Ended(p, posted)]
  /\ UNCHANGED <<clients, pool, job, files, op, overlap>>

-----------------------------------------------------------------------------
(* The coordinator, as far as it is shared.                                *)
\* Mutant: every id without a live process of the supervisor is dropped.
ReapUnsupervised == registered \ {i \in Id : ~alive(clients[i])}

reap_dead == registered \ Dead

\* A round or a sweep: both drivers reap the dead before they count who is registered.
StartRound ==
  /\ ~busy
  /\ registered' = reap_dead
  /\ busy' = (reap_dead # {})
  /\ UNCHANGED <<proc, clients, cache, job, files, op, overlap>>

\* evaluate reads the test split once and keeps it.
FinishRound ==
  /\ busy /\ busy' = FALSE
  /\ cache' = IF cache = 0 THEN test ELSE cache
  /\ UNCHANGED <<proc, clients, registered, job, files, op, overlap>>

reset_experiment(drop_registrations) ==
  /\ busy' = FALSE
  /\ registered' = IF drop_registrations THEN {} ELSE registered
  /\ UNCHANGED <<proc, clients, cache, job, files, op, overlap>>

-----------------------------------------------------------------------------
(* The dataset job: test split, shards, meta.json, in this order; a shard  *)
(* of a client that is no longer planned stays.                            *)
FilesOf(n) == n + 1

Prepare ==
  /\ job.running /\ job.next <= FilesOf(job.clients)
  /\ LET k == job.next IN
     /\ test' = IF k = 0 THEN job.run ELSE test
     /\ shard' = [i \in Id |-> IF k = i + 1 /\ i < job.clients THEN job.run ELSE shard[i]]
     /\ planned' = IF k = FilesOf(job.clients) THEN job.clients ELSE planned
  /\ job' = [job EXCEPT !.next = @ + 1]
  /\ UNCHANGED <<proc, clients, pool, intact, op, overlap>>

\* Mutant: the coordinator keeps the test split it has read.
PrepareDoneCached ==
  /\ job.running /\ job.next > FilesOf(job.clients)
  /\ intact' = TRUE
  /\ job' = Idle(job.run)
  /\ UNCHANGED <<proc, clients, pool, shard, test, planned, op, overlap>>

PrepareDone ==
  /\ job.running /\ job.next > FilesOf(job.clients)
  /\ cache' = 0
  /\ intact' = TRUE
  /\ job' = Idle(job.run)
  /\ UNCHANGED <<proc, clients, registered, busy, shard, test, planned, op, overlap>>

\* The corpus cannot be fetched, a file not be written, or 1800 s are over.
PrepareFails ==
  /\ job.running
  /\ intact' = (intact /\ job.next = 0)
  /\ job' = Idle(job.run)
  /\ UNCHANGED <<proc, clients, pool, shard, test, planned, op, overlap>>

-----------------------------------------------------------------------------
(* Requests.                                                               *)
Doing(what) == {r \in Request : op[r].do = what}
Become(r, state) ==
  /\ op' = [op EXCEPT ![r] = state]
  /\ overlap' = \/ overlap
                \/ state.do = "spawn" /\ Doing("prepare") # {}
                \/ state.do = "prepare" /\ Doing("spawn") # {}
Over(r) == op' = [op EXCEPT ![r] = Off] /\ UNCHANGED overlap

\* The dashboard's listing, too, drops the dead from the pool.
list ==
  /\ registered' = reap_dead
  /\ UNCHANGED <<proc, clients, busy, cache, job, files, op, overlap>>

prepare_dataset(r) ==
  /\ op[r] = Off
  /\ registered' = reap_dead
  /\ IF \E i \in Recorded : alive(clients[i]) THEN UNCHANGED <<op, overlap>>
     ELSE Become(r, [do |-> "prepare", ids |-> {}])
  /\ UNCHANGED <<proc, clients, busy, cache, job, files>>

StartJob(r) ==
  /\ op[r].do = "prepare"
  /\ IF registered = {} /\ ~busy /\ ~job.running /\ job.run < MaxPreparations
     THEN \E n \in 1 .. MaxId + 1 :
            job' = [running |-> TRUE, clients |-> n, next |-> 0, run |-> job.run + 1]
     ELSE UNCHANGED job
  /\ Over(r)
  /\ UNCHANGED <<proc, clients, pool, files>>

spawn_clients(r, ids) ==
  /\ op[r] = Off
  /\ ~job.running /\ ready
  /\ Become(r, [do |-> "spawn", ids |-> ids])
  /\ UNCHANGED <<proc, clients, pool, job, files>>

spawn(r) ==
  LET ids    == op[r].ids
      active == {i \in Recorded : alive(clients[i])}
      fresh  == ids \ active
  IN
  /\ op[r].do = "spawn"
  /\ registered' = reap_dead
  /\ IF \E i \in ids : shard[i] = 0 THEN UNCHANGED <<proc, clients>>
     ELSE \E failing \in SUBSET fresh :
            LET room == MAX_SUPERVISED_CLIENTS - Cardinality(active)
                new  == IF Cardinality(active) >= MAX_SUPERVISED_CLIENTS THEN {}
                        ELSE Lowest(fresh \ failing, room)
            IN
            \E pid \in [new -> Unused] :
              /\ \A i, j \in new : pid[i] = pid[j] => i = j
              /\ proc' = [p \in Process |->
                   IF \E i \in new : pid[i] = p
                   THEN Started(p, CHOOSE i \in new : pid[i] = p, "supervisor") ELSE proc[p]]
              /\ clients' = [i \in Id |-> IF i \in new THEN pid[i] ELSE clients[i]]
  /\ Over(r)
  /\ UNCHANGED <<busy, cache, job, files>>

\* Mutant: a stopped client stays in the pool.
StopKeepsRegistered(ids) ==
  LET targets == ids \cap Recorded
      pids    == {clients[i] : i \in targets}
  IN
  /\ targets # {}
  /\ \E posted \in SUBSET {p \in pids : proc[p].state = "up"} :
       proc' = [p \in Process |->
                 IF p \in pids /\ alive(p) THEN Ended(p, p \in posted) ELSE proc[p]]
  /\ clients' = [i \in Id |-> IF i \in targets THEN NoProcess ELSE clients[i]]
  /\ UNCHANGED <<pool, job, files, op, overlap>>

\* A process is given its time to end, then killed.
stop(ids) ==
  LET targets == ids \cap Recorded
      pids    == {clients[i] : i \in targets}
  IN
  /\ targets # {}
  /\ \E posted \in SUBSET {p \in pids : proc[p].state = "up"} :
       proc' = [p \in Process |->
                 IF p \in pids /\ alive(p) THEN Ended(p, p \in posted) ELSE proc[p]]
  /\ clients' = [i \in Id |-> IF i \in targets THEN NoProcess ELSE clients[i]]
  /\ registered' = registered \ targets
  /\ UNCHANGED <<busy, cache, job, files, op, overlap>>

\* The server restarts: when it ends in order it stops the clients it has
\* started, else they live on as if started by hand, in sessions of their own.
\* Bound: not during a preparation, whose process nobody would wait for.
Restart(shutdown) ==
  LET own == {clients[i] : i \in Recorded} IN
  /\ ~job.running
  /\ proc' = [p \in Process |->
       IF p \notin own \/ ~alive(p) THEN proc[p]
       ELSE IF shutdown THEN Ended(p, FALSE) ELSE [proc[p] EXCEPT !.by = "hand"]]
  /\ clients' = [i \in Id |-> NoProcess]
  /\ registered' = {} /\ busy' = FALSE /\ cache' = 0
  /\ op' = [r \in Request |-> Off]
  /\ UNCHANGED <<job, files, overlap>>

Ranges == {{i \in Id : first <= i /\ i <= last} : first \in Id, last \in Id} \ {{}}

Next ==
  \/ \E p \in Process :
       \/ Load(p) \/ register(p) \/ Exit(p)
       \/ \E i \in Id : StartManually(p, i)
  \/ StartRound \/ FinishRound
  \/ \E drop \in BOOLEAN : reset_experiment(drop)
  \/ Prepare \/ PrepareDone \/ PrepareFails
  \/ list
  \/ \E r \in Request :
       \/ prepare_dataset(r) \/ StartJob(r) \/ spawn(r)
       \/ \E ids \in Ranges : spawn_clients(r, ids)
  \/ \E ids \in SUBSET Id : stop(ids)
  \/ \E shutdown \in BOOLEAN : Restart(shutdown)

Spec == Init /\ [][Next]_vars

-----------------------------------------------------------------------------
TypeOK ==
  /\ \A p \in Process : /\ proc[p].id \in Id
                        /\ proc[p].by \in {"nobody", "hand", "supervisor"}
                        /\ proc[p].state \in {"unused", "starting", "up", "dead"}
                        /\ proc[p].data \in 0 .. MaxPreparations
  /\ \A i \in Recorded : clients[i] \in Process /\ proc[clients[i]].id = i
  /\ Cardinality({i \in Recorded : alive(clients[i])}) <= MAX_SUPERVISED_CLIENTS
  /\ registered \subseteq Id
  /\ {busy, intact, overlap} \subseteq BOOLEAN
  /\ job.run \in 0 .. MaxPreparations /\ planned \in 0 .. MaxId + 1
  /\ \A r \in Request : op[r].do \in {"off", "prepare", "spawn"}

(* Every client that rounds are sampled from is a live process, or a dead  *)
(* one the supervisor still has to reap, or one started by hand, or one    *)
(* whose registration arrived after it had been stopped: a process the     *)
(* supervisor has stopped or replaced is forgotten.                        *)
RegisteredIsAccountedFor ==
  \A i \in registered : \E p \in Process :
    /\ proc[p].id = i /\ proc[p].state # "unused"
    /\ alive(p) \/ clients[i] = p \/ proc[p].by = "hand" \/ proc[p].late

(* A client leaves the pool only when all registrations are dropped, or    *)
(* when the supervisor has started a client of that id, which is dead.     *)
ForgetsOnlyItsOwn ==
  [][\A i \in registered \ registered' :
       \/ registered' = {}
       \/ clients[i] # NoProcess /\ proc'[clients[i]].state = "dead"]_vars

(* After a preparation that succeeded, the supervised clients have shards  *)
(* of this one, disjoint by construction, and the coordinator evaluates on *)
(* the test split that belongs to them; but for spawn requests that        *)
(* overlapped and ids that are no longer planned.                          *)
OneCorpus ==
  ~job.running /\ intact =>
    /\ cache \in {0, test}
    /\ ~overlap =>
         \A i \in Recorded :
           alive(clients[i]) /\ proc[clients[i]].state = "up" /\ i < planned
             => proc[clients[i]].data = test
=============================================================================
