----------------------------- MODULE SecAggRound -----------------------------
(***************************************************************************)
(* The coordinator with its client processes (fl/client/run.py, agent.py)  *)
(* and the secure-aggregation arithmetic (fl/protocol/secagg.py).          *)
(*                                                                         *)
(* A client is one sequential process.  Polling a status, fetching an      *)
(* inbox and posting are separate steps, so everything a client knows may  *)
(* be stale when it acts on it, and requests carry no round id.  Failures, *)
(* at most MaxFaults in a behaviour and only of the kinds in Failures:     *)
(*   "lost"     a request or its answer is lost, the client raises;        *)
(*   "late"     the client gives up on a request that arrives later;       *)
(*   "timeout"  a wait of the client runs out;                             *)
(*   "crash"    a client process dies (its memory is gone);                *)
(*   "train"    the same, only while it trains (a dropout in COLLECT);     *)
(*   "reset"    somebody resets the experiment;                            *)
(*   "evaluate" evaluating the new model raises.                           *)
(*                                                                         *)
(* Cryptography is symbolic.  The token <<c, r, l>> is the ClientSecAgg    *)
(* instance client c made for round r in its l-th life; what it saw of its *)
(* peers' keys is kept in the history variable book.                       *)
(***************************************************************************)
EXTENDS Coordinator, Integers

CONSTANTS
  Dropper,               \* the clients started with --drop-at COLLECT
  RoundSizes,            \* the values of clients_per_round in use
  Failures, MaxFaults

ASSUME ClientIds == Client \subseteq Nat /\ Dropper \subseteq Client
ASSUME FaultBound == MaxFaults \in Nat
ASSUME Instances == Key = Client \X (1 .. MaxRound) \X (0 .. MaxFaults)

VARIABLES
  cl,                    \* the local state of each client's run_round
  handled,               \* _handled_rounds of each client process
  life,                  \* how many times each client process was started anew
  late,                  \* requests given up on that may still arrive
  faults,                \* failures so far
  book                   \* [key, peers, parts] of the instances that made shares

server     == vars
secAggVars == <<server, cl, handled, life, late, faults, book>>

Looping == [pc |-> "loop", rid |-> 0, key |-> NoKey, parts |-> {},
            peers |-> Nothing, inbox |-> Nothing, survivors |-> {}, dropped |-> {}]

Waiting == {"waitShare", "waitCollect", "waitUnmask", "closing", "waitDropped"}

SecAggInit ==
  /\ Init
  /\ cl = [c \in Client |-> Looping]
  /\ handled = [c \in Client |-> {}]
  /\ life = [c \in Client |-> 0]
  /\ late = {}
  /\ faults = 0
  /\ book = {}

Fault(kind) ==
  /\ kind \in Failures
  /\ faults < MaxFaults
  /\ faults' = faults + 1

Become(c, state) == cl' = [cl EXCEPT ![c] = state]
At(c, place) == cl[c].pc = place
GoTo(c, place) == Become(c, [cl[c] EXCEPT !.pc = place])
Raise(c) == Become(c, Looping)       \* every exception ends in run.py's loop
-----------------------------------------------------------------------------
(* Requests and what the server makes of them.  A handler that refuses     *)
(* answers 409, which raises in the client.                                *)
KeysRequest(c) == [kind |-> "keys", from |-> c, key |-> cl[c].key]
SharesRequest(c) == [kind |-> "shares", from |-> c, key |-> cl[c].key,
                     targets |-> Stored(cl[c].peers) \ {c}]
MaskedRequest(c) == [kind |-> "masked", from |-> c, key |-> cl[c].key]

NeededPhase(kind) == CASE kind = "keys" -> "ADVERTISE_KEYS"
                       [] kind = "shares" -> "SHARE_KEYS"
                       [] kind = "masked" -> "COLLECT"
                       [] kind = "reveal" -> "UNMASK"

Refused(m) == ~Require(NeededPhase(m.kind), m.from)
Repeated(m) == m.kind = "reveal" /\ m.from \in revealed

Handle(m) ==
  \/ m.kind = "keys" /\ SubmitPubkeys(m.from, m.key)
  \/ m.kind = "shares" /\ SubmitShares(m.from, m.targets, m.key)
  \/ m.kind = "masked" /\ SubmitMasked(m.from, m.key)
  \/ /\ m.kind = "reveal"
     /\ SubmitReveal(m.from, m.b, m.s)
     /\ phase' = "AGGREGATING" =>
          \/ "evaluate" \in Failures
          \/ Mixed(bPool') \/ Mixed(sPool')

Ask(m) == Handle(m) \/ ((Refused(m) \/ Repeated(m)) /\ UNCHANGED server)

(* Client c posts m and goes on as after, or fails to.                     *)
Post(c, m, after) ==
  \/ /\ Handle(m) \/ (~Refused(m) /\ Repeated(m) /\ UNCHANGED server)
     /\ Become(c, after)
     /\ UNCHANGED <<late, faults>>
  \/ /\ Refused(m)
     /\ Raise(c)
     /\ UNCHANGED <<server, late, faults>>
  \/ /\ Fault("lost")
     /\ Ask(m) \/ UNCHANGED server
     /\ Raise(c)
     /\ UNCHANGED late
  \/ /\ Fault("late")
     /\ late' = late \cup {m}
     /\ Raise(c)
     /\ UNCHANGED server

Arrive(m) ==
  /\ m \in late
  /\ late' = late \ {m}
  /\ Ask(m)
  /\ UNCHANGED <<cl, handled, life, faults, book>>
-----------------------------------------------------------------------------
(* The client's loop: register, then wait for a round to be announced.     *)
Loop(c) ==
  /\ At(c, "loop")
  /\ Register(c)
  /\ GoTo(c, "poll")
  /\ UNCHANGED <<handled, life, late, faults, book>>

PollTimeout(c) ==
  /\ At(c, "poll")
  /\ phase # "ADVERTISE_KEYS"
  /\ Raise(c)
  /\ UNCHANGED <<server, handled, life, late, faults, book>>

(* A round is handled at most once per process, selected for it or not.    *)
Notice(c) ==
  /\ At(c, "poll")
  /\ phase = "ADVERTISE_KEYS"
  /\ handled' = [handled EXCEPT ![c] = @ \cup {roundId}]
  /\ Become(c, IF roundId \in handled[c] \/ c \notin participants
                 THEN Looping
                 ELSE [Looping EXCEPT !.pc = "advertise", !.rid = roundId,
                                      !.key = <<c, roundId, life[c]>>,
                                      !.parts = participants])
  /\ UNCHANGED <<server, life, late, faults, book>>

Advertise(c) ==
  /\ At(c, "advertise")
  /\ Post(c, KeysRequest(c), [cl[c] EXCEPT !.pc = "waitShare"])
  /\ UNCHANGED <<handled, life, book>>

(* _wait: the status of another round raises StaleRound.                   *)
Stale(c) ==
  /\ cl[c].pc \in Waiting
  /\ roundId # cl[c].rid
  /\ Raise(c)
  /\ UNCHANGED <<server, handled, life, late, faults, book>>

Timeout(c) ==
  /\ cl[c].pc \in Waiting
  /\ Fault("timeout")
  /\ Raise(c)
  /\ UNCHANGED <<server, handled, life, late, book>>

SeePhase(c, place, p) == At(c, place) /\ roundId = cl[c].rid /\ phase = p

WaitShare(c) ==
  /\ SeePhase(c, "waitShare", "SHARE_KEYS")
  /\ Become(c, [cl[c] EXCEPT !.pc = "share", !.peers = pubkeys])
  /\ UNCHANGED <<server, handled, life, late, faults, book>>

ShareKeys(c) ==
  /\ At(c, "share")
  /\ book' = book \cup {[key |-> cl[c].key, peers |-> cl[c].peers, parts |-> cl[c].parts]}
  /\ Post(c, SharesRequest(c), [cl[c] EXCEPT !.pc = "waitCollect"])
  /\ UNCHANGED <<handled, life>>

WaitCollect(c) ==
  /\ SeePhase(c, "waitCollect", "COLLECT")
  /\ GoTo(c, "fetch")
  /\ UNCHANGED <<server, handled, life, late, faults, book>>

FetchInbox(c) ==
  /\ At(c, "fetch")
  /\ Become(c, [cl[c] EXCEPT !.pc = IF c \in Dropper THEN "closing" ELSE "train",
                             !.inbox = shareInbox[c]])
  /\ UNCHANGED <<server, handled, life, late, faults, book>>

(* Training, clipping, noising and quantising change nothing shared.       *)
TrainAndMask(c) ==
  /\ At(c, "train")
  /\ Post(c, MaskedRequest(c), [cl[c] EXCEPT !.pc = "waitUnmask"])
  /\ UNCHANGED <<handled, life, book>>

WaitUnmask(c) ==
  /\ SeePhase(c, "waitUnmask", "UNMASK")
  /\ Become(c, [cl[c] EXCEPT !.pc = "reveal", !.survivors = survivors,
                             !.dropped = dropped])
  /\ UNCHANGED <<server, handled, life, late, faults, book>>

(* A share opens only for the instance its sender saw, under the key its   *)
(* holder saw and in the same round; any that does not makes reveal raise. *)
PeersOf(k) == (CHOOSE e \in book : e.key = k).peers
Unseals(c, o) ==
  LET k == cl[c].inbox[o]
  IN  k = cl[c].peers[o] /\ PeersOf(k)[c] = cl[c].key /\ k[2] = cl[c].rid

Opened(c, owners) ==
  {[owner |-> o, key |-> cl[c].inbox[o]] : o \in Stored(cl[c].inbox) \cap owners}

\* Mutant: a client does not keep its own share.
RevealWithoutOwn(c) ==
  [kind |-> "reveal", from |-> c, b |-> Opened(c, cl[c].survivors),
   s |-> Opened(c, cl[c].dropped)]

\* Mutant: the two lists are tested the wrong way round for the mask keys.
RevealBoth(c) ==
  [kind |-> "reveal", from |-> c, b |-> Opened(c, cl[c].survivors),
   s |-> Opened(c, cl[c].survivors)]

RevealRequest(c) ==
  [kind |-> "reveal", from |-> c,
   b |-> Opened(c, cl[c].survivors)
           \cup {[owner |-> o, key |-> cl[c].key] : o \in {c} \cap cl[c].survivors},
   s |-> Opened(c, cl[c].dropped \ cl[c].survivors)]

Reveal(c) ==
  /\ At(c, "reveal")
  /\ IF \A o \in Stored(cl[c].inbox) : Unseals(c, o)
       THEN Post(c, RevealRequest(c), Looping)
       ELSE Raise(c) /\ UNCHANGED <<server, late, faults>>
  /\ UNCHANGED <<handled, life, book>>

(* The --drop-at COLLECT client sends no vector but helps to close.  After *)
(* its own successful close, and after it read UNMASK, it waits for UNMASK;*)
(* only if the status it read last says DONE does it return at once.       *)
DropperLooks(c) ==
  /\ At(c, "closing")
  /\ roundId = cl[c].rid
  /\ \/ phase = "DONE" /\ Raise(c)
     \/ phase = "UNMASK" /\ GoTo(c, "waitDropped")
     \/ phase = "COLLECT" /\ GoTo(c, "askClose")
  /\ UNCHANGED <<server, handled, life, late, faults, book>>

DropperCloses(c) ==
  /\ At(c, "askClose")
  /\ \/ ForceCloseCollection /\ GoTo(c, "waitDropped")
     \/ /\ phase # "COLLECT" \/ Cardinality(Stored(masked)) < config.threshold
        /\ GoTo(c, "closing")
        /\ UNCHANGED server
  /\ UNCHANGED <<handled, life, late, faults, book>>

WaitDropped(c) ==
  /\ SeePhase(c, "waitDropped", "UNMASK")
  /\ Raise(c)
  /\ UNCHANGED <<server, handled, life, late, faults, book>>

(* A process dies and may be started again; the supervisor unregisters the *)
(* dead.                                                                   *)
Crash(c) ==
  /\ ~At(c, "off")
  /\ Fault("crash") \/ (At(c, "train") /\ Fault("train"))
  /\ Become(c, [Looping EXCEPT !.pc = "off"])
  /\ handled' = [handled EXCEPT ![c] = {}]
  /\ life' = [life EXCEPT ![c] = @ + 1]
  /\ UNCHANGED <<server, late, book>>

Restart(c) ==
  /\ At(c, "off")
  /\ Raise(c)
  /\ UNCHANGED <<server, handled, life, late, faults, book>>

Reap(c) ==
  /\ At(c, "off")
  /\ Unregister(c)
  /\ UNCHANGED <<cl, handled, life, late, faults, book>>
-----------------------------------------------------------------------------
(* Whoever drives the rounds: the web application, a sweep, an operator.   *)
Start(P, sigma) ==
  /\ Cardinality(P) \in RoundSizes
  /\ StartRound(P, sigma)
  /\ UNCHANGED <<cl, handled, life, late, faults, book>>

CloseOnTimeout ==
  /\ ForceCloseCollection
  /\ UNCHANGED <<cl, handled, life, late, faults, book>>

Reset(drop) ==
  /\ Fault("reset")
  /\ ResetExperiment(drop)
  /\ UNCHANGED <<cl, handled, life, late, book>>

ClientStep(c) ==
  \/ Loop(c) \/ PollTimeout(c) \/ Notice(c) \/ Advertise(c) \/ Stale(c)
  \/ WaitShare(c) \/ ShareKeys(c) \/ WaitCollect(c) \/ FetchInbox(c)
  \/ TrainAndMask(c) \/ WaitUnmask(c) \/ Reveal(c)
  \/ DropperLooks(c) \/ DropperCloses(c) \/ WaitDropped(c)

SecAggNext ==
  \/ \E c \in Client : ClientStep(c) \/ Timeout(c) \/ Crash(c) \/ Restart(c) \/ Reap(c)
  \/ \E m \in late : Arrive(m)
  \/ \E P \in SUBSET registered, sigma \in Sigma : Start(P, sigma)
  \/ CloseOnTimeout
  \/ \E drop \in BOOLEAN : Reset(drop)

SecAggSpec == SecAggInit /\ [][SecAggNext]_secAggVars

(* Client processes keep running (a step that is not a failure is taken    *)
(* eventually) and the driver's deadline eventually passes.                *)
Fairness ==
  /\ \A c \in Client : WF_secAggVars(ClientStep(c) /\ faults' = faults)
  /\ WF_secAggVars(CloseOnTimeout)

FairSpec == SecAggSpec /\ Fairness
-----------------------------------------------------------------------------
(* ServerSecAgg.aggregate, symbolically.  A pairwise mask is the seed the  *)
(* two keys agree on in a round, with a sign that depends on the order of  *)
(* the two ids; a vector carries one per peer besides its self-mask.       *)
PairMask(by, key, peer, peerKey, r) ==
  [by |-> by, peer |-> peer, seed |-> {key, peerKey}, round |-> r,
   sign |-> IF by < peer THEN 1 ELSE -1]

Entry(k) == CHOOSE e \in book : e.key = k
Recovered(pool, o) == {s.key : s \in SharesOf(pool, o)}

VectorMasks ==
  UNION {{PairMask(c, masked[c], p, Entry(masked[c]).peers[p], masked[c][2])
            : p \in Entry(masked[c]).parts \ {c}} : c \in survivors}

\* Mutant: the recovered masks of the dropped clients are subtracted.
SubtractedMasks ==
  UNION {{PairMask(p, pubkeys[p], d, k, roundId) : p \in survivors, k \in Recovered(sPool, d)}
           : d \in dropped}

DroppedMasks ==
  UNION {{PairMask(d, k, p, pubkeys[p], roundId) : p \in survivors, k \in Recovered(sPool, d)}
           : d \in dropped}

MasksCancel ==
  LET masks == VectorMasks \cup DroppedMasks
      With(m, sign) == {x \in masks : /\ x.seed = m.seed /\ x.round = m.round
                                      /\ x.sign = sign}
  IN  \A m \in masks : Cardinality(With(m, 1)) = Cardinality(With(m, -1))

SelfMasksRemoved ==
  /\ Owners(bPool) = survivors
  /\ \A c \in survivors : Recovered(bPool, c) = {masked[c]}

-----------------------------------------------------------------------------
Place == {"off", "loop", "poll", "advertise", "share", "fetch", "train", "reveal",
          "askClose"} \cup Waiting

LocalState ==
  [pc : Place, rid : 0 .. MaxRound, key : Slot, parts : SUBSET Client,
   peers : [Client -> Slot], inbox : [Client -> Slot],
   survivors : SUBSET Client, dropped : SUBSET Client]

OpenShare == [owner : Client, key : Key]

Request ==
  [kind : {"keys", "masked"}, from : Client, key : Key]
    \cup [kind : {"shares"}, from : Client, key : Key, targets : SUBSET Client]
    \cup [kind : {"reveal"}, from : Client, b : SUBSET OpenShare, s : SUBSET OpenShare]

SecAggTypeOK ==
  /\ TypeOK
  /\ roundId <= MaxRound
  /\ cl \in [Client -> LocalState]
  /\ handled \in [Client -> SUBSET (1 .. MaxRound)]
  /\ life \in [Client -> 0 .. MaxFaults]
  /\ late \subseteq Request
  /\ faults \in 0 .. MaxFaults
  /\ book \subseteq [key : Key, peers : [Client -> Slot], parts : SUBSET Client]

(* Every published sum is the sum of the survivors' updates: each pairwise *)
(* mask in it is met by its negation - from the peer's vector or, for a    *)
(* dropped peer, from its recovered key - and each self-mask is the one    *)
(* reconstructed (secagg.py:138-164), whatever was lost, late or restarted.*)
SumIsUnmasked == phase = "DONE" => MasksCancel /\ SelfMasksRemoved

(* "Wait for EVERY survivor to report" (coordinator.py:220): the server    *)
(* compares two counts; a report of somebody else never stands in for a    *)
(* survivor's.                                                             *)
EverySurvivorReported == phase = "DONE" => revealed = survivors

(* "Shares of b and of s are never opened for the same client": of one     *)
(* ClientSecAgg instance never both, through losses, restarts and resets,  *)
(* as long as no request arrives after its sender has given up on it.      *)
NeverBothOfOneInstance ==
  {s.key : s \in bPool} \cap {s.key : s \in sPool} = {}

(* A survivor the server waits for can still reveal: everything it needs   *)
(* is in the inbox it fetched.                                             *)
RevealNeverFails ==
  \A c \in Client : At(c, "reveal") /\ roundId = cl[c].rid =>
    \A o \in Stored(cl[c].inbox) : Unseals(c, o)

(* The composition only does to the server what Coordinator.tla allows.    *)
ServerBehaves == Spec

(* A round that was started completes: a participant that dies while it    *)
(* trains, or drops out on purpose, does not keep the others from          *)
(* unmasking their sum (own share retained, collection closed on timeout). *)
RoundCompletes == (phase = "ADVERTISE_KEYS") ~> (phase = "DONE")

(* "self-heals after a coordinator reset" (run.py:31): once the failures   *)
(* are over, resets among them, a round that is started completes.         *)
RoundAfterResetCompletes ==
  (phase = "ADVERTISE_KEYS" /\ faults = MaxFaults) ~> (phase = "DONE")
=============================================================================
