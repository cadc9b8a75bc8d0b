----------------------------- MODULE Coordinator -----------------------------
(***************************************************************************)
(* The round state machine of the federated coordinator                    *)
(* (fl/server/coordinator.py) behind its HTTP routes (fl/server/routes.py).*)
(* Every handler runs under one lock, so it is one action; a handler that  *)
(* raises before it assigns anything answers 409 and is no step.  Requests *)
(* carry no round number and may come from any selected client in any      *)
(* order, any number of times: that is all the environment promises here.  *)
(* SecAggRound.tla puts the client processes in its place.                 *)
(*                                                                         *)
(* Keys are tokens.  A token stands for one ClientSecAgg instance of       *)
(* fl/protocol/secagg.py: its two key pairs and its self-mask seed.        *)
(***************************************************************************)
EXTENDS Naturals, FiniteSets, Sequences

CONSTANTS
  Client,                \* client ids
  Key,                   \* tokens of the ClientSecAgg instances
  NoKey,                 \* "nothing stored"
  Sigma,                 \* noise multipliers a round can get; 0 is "no DP"
  MaxRound               \* bound on round ids, for TLC

ASSUME ClientAssumption == IsFiniteSet(Client)
ASSUME KeyAssumption == NoKey \notin Key
ASSUME SigmaAssumption == Sigma \subseteq Nat
ASSUME MaxRoundAssumption == MaxRound \in Nat

VARIABLES
  registered,            \* clients in the sampling pool
  roundId, phase, config,
  participants, pubkeys, shareInbox, masked,
  survivors, dropped, bPool, sPool, revealed,
  history,               \* records of the completed rounds, in order
  accountant,            \* the privacy ledger
  model                  \* the updates the global model has absorbed

roundVars  == <<participants, pubkeys, shareInbox, masked,
                survivors, dropped, bPool, sPool, revealed>>
ledgerVars == <<history, accountant, model>>
vars       == <<registered, roundId, phase, config, roundVars, ledgerVars>>

Phase == {"IDLE", "ADVERTISE_KEYS", "SHARE_KEYS", "COLLECT", "UNMASK",
          "AGGREGATING", "DONE"}

Slot == Key \cup {NoKey}
Nothing == [c \in Client |-> NoKey]
Stored(f) == {c \in Client : f[c] # NoKey}        \* the keys() of a dict

Share == [owner : Client, holder : Client, key : Key]
Owners(pool) == {s.owner : s \in pool}
SharesOf(pool, o) == {s \in pool : s.owner = o}
Mixed(pool) == \E s, u \in pool : s.owner = u.owner /\ s.key # u.key

Update == [round : Nat, participants : SUBSET Client,
           survivors : SUBSET Client, noise : Nat]

\* No ledger: a PrivacyAccountant is created for at least two clients a round.
NoLedger == [perRound |-> 0, steps |-> 0, sigma |-> 0]
Published == {history[i] : i \in DOMAIN history}

\* Mutant: n // 2, which two disjoint halves can both reach.
ThresholdHalf(n) == IF n \div 2 > 1 THEN n \div 2 ELSE 1
Threshold(n) == IF n \div 2 + 1 > 2 THEN n \div 2 + 1 ELSE 2

ResetRoundState ==
  /\ pubkeys' = Nothing
  /\ shareInbox' = [c \in Client |-> Nothing]
  /\ masked' = Nothing
  /\ survivors' = {}
  /\ dropped' = {}
  /\ bPool' = {}
  /\ sPool' = {}
  /\ revealed' = {}
-----------------------------------------------------------------------------
Init ==
  /\ registered = {}
  /\ roundId = 0
  /\ phase = "IDLE"
  /\ config = [participants |-> {}, threshold |-> 0, noise |-> 0]
  /\ participants = {}
  /\ pubkeys = Nothing
  /\ shareInbox = [c \in Client |-> Nothing]
  /\ masked = Nothing
  /\ survivors = {}
  /\ dropped = {}
  /\ bPool = {}
  /\ sPool = {}
  /\ revealed = {}
  /\ history = <<>>
  /\ accountant = NoLedger
  /\ model = {}

Register(c) ==
  /\ registered' = registered \cup {c}
  /\ UNCHANGED <<roundId, phase, config, roundVars, ledgerVars>>

Unregister(c) ==
  /\ registered' = registered \ {c}
  /\ UNCHANGED <<roundId, phase, config, roundVars, ledgerVars>>

\* Mutant: the reset also restarts the round ids.
ResetExperimentAndIds(dropRegistrations) ==
  /\ registered' = IF dropRegistrations THEN {} ELSE registered
  /\ model' = {} /\ history' = <<>> /\ accountant' = NoLedger
  /\ phase' = "IDLE" /\ participants' = {} /\ roundId' = 0
  /\ ResetRoundState
  /\ UNCHANGED config

(* round_id and config survive a reset; everything else starts afresh. *)
ResetExperiment(dropRegistrations) ==
  /\ registered' = IF dropRegistrations THEN {} ELSE registered
  /\ model' = {}
  /\ history' = <<>>
  /\ accountant' = NoLedger
  /\ phase' = "IDLE"
  /\ participants' = {}
  /\ ResetRoundState
  /\ UNCHANGED <<roundId, config>>

(* The sample of n registered clients is drawn with the round id as seed:  *)
(* any n of them.  The first round after a reset opens the ledger, with    *)
(* its own n as the sampling rate for good.                                *)
StartRound(P, sigma) ==
  /\ phase \in {"IDLE", "DONE"}
  /\ P \subseteq registered
  /\ Cardinality(P) >= 2
  /\ roundId < MaxRound
  /\ roundId' = roundId + 1
  /\ ResetRoundState
  /\ participants' = P
  /\ accountant' = IF accountant = NoLedger
                      THEN [accountant EXCEPT !.perRound = Cardinality(P)]
                      ELSE accountant
  /\ config' = [participants |-> P, threshold |-> Threshold(Cardinality(P)),
                noise |-> sigma]
  /\ phase' = "ADVERTISE_KEYS"
  /\ UNCHANGED <<registered, history, model>>

Require(p, c) == phase = p /\ c \in participants

\* Mutant: a client may replace its keys at any time.
SubmitPubkeysLate(c, k) ==
  /\ c \in participants
  /\ pubkeys' = [pubkeys EXCEPT ![c] = k]
  /\ phase' = IF /\ phase = "ADVERTISE_KEYS"
                  /\ Cardinality(Stored(pubkeys')) = Cardinality(participants)
                THEN "SHARE_KEYS" ELSE phase
  /\ UNCHANGED <<registered, roundId, config, participants, shareInbox, masked,
                 survivors, dropped, bPool, sPool, revealed, ledgerVars>>

SubmitPubkeys(c, k) ==
  /\ Require("ADVERTISE_KEYS", c)
  /\ pubkeys' = [pubkeys EXCEPT ![c] = k]
  /\ phase' = IF Cardinality(Stored(pubkeys')) = Cardinality(participants)
                THEN "SHARE_KEYS" ELSE phase
  /\ UNCHANGED <<registered, roundId, config, participants, shareInbox, masked,
                 survivors, dropped, bPool, sPool, revealed, ledgerVars>>

(* targets is whatever set of peers the client sealed a share for: the     *)
(* handler takes any.  A second upload overwrites the first.               *)
SubmitShares(c, targets, k) ==
  /\ Require("SHARE_KEYS", c)
  /\ shareInbox' = [t \in Client |->
                      IF t \in targets THEN [shareInbox[t] EXCEPT ![c] = k]
                                       ELSE shareInbox[t]]
  /\ LET Complete(t) == Cardinality(Stored(shareInbox'[t])) + 1
                          >= Cardinality(participants)
     IN phase' = IF \A t \in participants : Complete(t) THEN "COLLECT" ELSE phase
  /\ UNCHANGED <<registered, roundId, config, participants, pubkeys, masked,
                 survivors, dropped, bPool, sPool, revealed, ledgerVars>>

\* Mutant: collection ends in a phase the clients do not know.
CloseCollectionMisnamed(vectors) ==
  /\ survivors' = Stored(vectors)
  /\ dropped' = participants \ Stored(vectors)
  /\ phase' = "REVEAL"

CloseCollection(vectors) ==
  /\ survivors' = Stored(vectors)
  /\ dropped' = participants \ Stored(vectors)
  /\ phase' = "UNMASK"

\* Mutant: a vector that arrives after collection was closed is still taken.
SubmitMaskedLate(c, k) ==
  /\ phase \in {"COLLECT", "UNMASK"}
  /\ c \in participants
  /\ masked' = [masked EXCEPT ![c] = k]
  /\ IF Cardinality(Stored(masked')) = Cardinality(participants)
       THEN CloseCollection(masked')
       ELSE UNCHANGED <<survivors, dropped, phase>>
  /\ UNCHANGED <<registered, roundId, config, participants, pubkeys, shareInbox,
                 bPool, sPool, revealed, ledgerVars>>

(* A vector of the wrong length and a sample count below one are refused;  *)
(* a client never sends either.                                            *)
SubmitMasked(c, k) ==
  /\ Require("COLLECT", c)
  /\ masked' = [masked EXCEPT ![c] = k]
  /\ IF Cardinality(Stored(masked')) = Cardinality(participants)
       THEN CloseCollection(masked')
       ELSE UNCHANGED <<survivors, dropped, phase>>
  /\ UNCHANGED <<registered, roundId, config, participants, pubkeys, shareInbox,
                 bPool, sPool, revealed, ledgerVars>>

\* Mutant: collection is closed however few vectors there are.
ForceCloseAnyCount ==
  /\ phase = "COLLECT"
  /\ CloseCollection(masked)
  /\ UNCHANGED <<registered, roundId, config, participants, pubkeys, shareInbox,
                 masked, bPool, sPool, revealed, ledgerVars>>

ForceCloseCollection ==
  /\ phase = "COLLECT"
  /\ Cardinality(Stored(masked)) >= config.threshold
  /\ CloseCollection(masked)
  /\ UNCHANGED <<registered, roundId, config, participants, pubkeys, shareInbox,
                 masked, bPool, sPool, revealed, ledgerVars>>

\* Mutant: the shares of the dropped clients' mask keys are not waited for.
ReadyWithoutDropped ==
  /\ Cardinality(Owners(bPool')) = Cardinality(survivors)
  /\ \A o \in Owners(bPool') : Cardinality(SharesOf(bPool', o)) >= config.threshold
  /\ Cardinality(revealed') = Cardinality(survivors)

\* Mutant: the server aggregates at the bare threshold of reports.
ReadyAtThreshold ==
  /\ Cardinality(Owners(bPool')) = Cardinality(survivors)
  /\ \A o \in Owners(bPool') : Cardinality(SharesOf(bPool', o)) >= config.threshold
  /\ \A d \in dropped : Cardinality(SharesOf(sPool', d)) >= config.threshold

ReadyToAggregate ==
  /\ Cardinality(Owners(bPool')) = Cardinality(survivors)
  /\ \A o \in Owners(bPool') : Cardinality(SharesOf(bPool', o)) >= config.threshold
  /\ \A d \in dropped : Cardinality(SharesOf(sPool', d)) >= config.threshold
  /\ Cardinality(revealed') = Cardinality(survivors)

ThisUpdate == [round |-> roundId, participants |-> participants,
               survivors |-> survivors, noise |-> config.noise]

LedgerStep(ledger, sigma) ==
  [perRound |-> ledger.perRound, steps |-> ledger.steps + 1, sigma |-> sigma]

\* Mutant: the ledger is charged for every round, noised or not.
ApplyUpdateAlwaysCharged ==
  /\ model' = model \cup {ThisUpdate}
  /\ accountant' = LedgerStep(accountant, config.noise)

ApplyUpdate ==
  /\ model' = model \cup {ThisUpdate}
  /\ accountant' = IF config.noise > 0 THEN LedgerStep(accountant, config.noise)
                                       ELSE accountant

\* Mutant: a finally clause frees the coordinator when evaluate raises.
AggregateThenFree ==
  \/ /\ ApplyUpdate
     /\ phase' = "DONE"
     /\ UNCHANGED history
  \/ /\ ApplyUpdate
     /\ history' = Append(history, ThisUpdate)
     /\ phase' = "DONE"

(* _aggregate assigns AGGREGATING first.  Shares of different secrets      *)
(* under one owner make the reconstruction raise (or yield a wrong sum);   *)
(* evaluate reads the test split after the model and the ledger have been  *)
(* updated and may raise too.  An exception leaves the phase where it is.  *)
Aggregate ==
  \/ /\ Mixed(bPool') \/ Mixed(sPool')
     /\ phase' = "AGGREGATING"
     /\ UNCHANGED ledgerVars
  \/ /\ ApplyUpdate
     /\ phase' = "AGGREGATING"
     /\ UNCHANGED history
  \/ /\ ApplyUpdate
     /\ history' = Append(history, ThisUpdate)
     /\ phase' = "DONE"

(* b and s are the opened shares of self-mask seeds and of mask keys, as   *)
(* [owner, key] records.  A client that has revealed already is ignored.   *)
SubmitReveal(c, b, s) ==
  /\ Require("UNMASK", c)
  /\ c \notin revealed
  /\ revealed' = revealed \cup {c}
  /\ bPool' = bPool \cup {[owner |-> x.owner, holder |-> c, key |-> x.key] : x \in b}
  /\ sPool' = sPool \cup {[owner |-> x.owner, holder |-> c, key |-> x.key] : x \in s}
  /\ IF ReadyToAggregate THEN Aggregate ELSE UNCHANGED <<phase, ledgerVars>>
  /\ UNCHANGED <<registered, roundId, config, participants, pubkeys, shareInbox,
                 masked, survivors, dropped>>
-----------------------------------------------------------------------------
(* ClientSecAgg.reveal opens, of the shares its client holds, the b-share  *)
(* of a survivor and the s-share of a dropped client.  Here the client may *)
(* hold and open any part of them: its own share or a sealed one.          *)
Held(c, o) == IF o = c THEN pubkeys[c] ELSE shareInbox[c][o]
Opening(c, owners) == {x \in [owner : owners, key : Key] : x.key = Held(c, x.owner)}

Next ==
  \/ \E c \in Client : Register(c) \/ Unregister(c)
  \/ \E drop \in BOOLEAN : ResetExperiment(drop)
  \/ \E P \in SUBSET Client, sigma \in Sigma : StartRound(P, sigma)
  \/ \E c \in Client, k \in Key : SubmitPubkeys(c, k) \/ SubmitMasked(c, k)
  \/ \E c \in Client, k \in Key, T \in SUBSET Client : SubmitShares(c, T \ {c}, k)
  \/ ForceCloseCollection
  \/ \E c \in Client, B \in SUBSET survivors, S \in SUBSET dropped :
       SubmitReveal(c, Opening(c, B), Opening(c, S))

Spec == Init /\ [][Next]_vars
-----------------------------------------------------------------------------
TypeOK ==
  /\ registered \subseteq Client
  /\ roundId \in Nat
  /\ phase \in Phase
  /\ config \in [participants : SUBSET Client, threshold : Nat, noise : Nat]
  /\ participants \subseteq Client
  /\ pubkeys \in [Client -> Slot]
  /\ shareInbox \in [Client -> [Client -> Slot]]
  /\ masked \in [Client -> Slot]
  /\ survivors \subseteq Client
  /\ dropped \subseteq Client
  /\ bPool \subseteq Share
  /\ sPool \subseteq Share
  /\ revealed \subseteq Client
  /\ history \in Seq(Update)
  /\ accountant \in [perRound : Nat, steps : Nat, sigma : Nat]
  /\ model \subseteq Update

(* What the round state looks like in each phase: what has been collected, *)
(* what cannot have been collected yet, and - once collection is closed -  *)
(* that the survivors are exactly the clients whose vector is held, at     *)
(* least a threshold of them, everybody else counts as dropped, and only   *)
(* secrets these lists allow have been opened.                             *)
(* start_round, the four submit handlers and _close_collection keep it;    *)
(* _aggregate indexes pubkeys by survivor relying on it.                   *)
RoundShape ==
  /\ phase = "IDLE" => participants = {}
  /\ phase # "IDLE" => /\ participants = config.participants
                       /\ Cardinality(participants) >= 2
                       /\ config.threshold = Threshold(Cardinality(participants))
                       /\ accountant # NoLedger
  /\ Stored(pubkeys) \subseteq participants
  /\ phase \notin {"IDLE", "ADVERTISE_KEYS"} => Stored(pubkeys) = participants
  /\ Stored(masked) \subseteq participants
  /\ phase \in {"IDLE", "ADVERTISE_KEYS", "SHARE_KEYS"} => Stored(masked) = {}
  /\ IF phase \in {"UNMASK", "AGGREGATING", "DONE"}
       THEN /\ survivors = Stored(masked)
            /\ dropped = participants \ survivors
            /\ Cardinality(survivors) >= config.threshold
            /\ Owners(bPool) \subseteq survivors
            /\ Owners(sPool) \subseteq dropped
       ELSE survivors = {} /\ dropped = {} /\ bPool = {} /\ sPool = {}

(* "Open b-shares for survivors, s_sk-shares for dropouts.  Never both."   *)
(* (secagg.py:106).  With both the server could unmask a single update.    *)
(* The clients judge from a status they polled; this holds because the     *)
(* lists _close_collection computes never move again within the round.     *)
NeverBothOpened == Owners(bPool) \cap Owners(sPool) = {}

(* A completed round had a threshold of distinct holders behind every      *)
(* secret its sum needs: each survivor's self-mask seed, each dropped      *)
(* client's mask key (submit_reveal:219-228).                              *)
QuorumBehindResult ==
  phase = "DONE" =>
    /\ Owners(bPool) = survivors
    /\ Owners(sPool) = dropped
    /\ \A o \in survivors :
         Cardinality({s.holder : s \in SharesOf(bPool, o)}) >= config.threshold
    /\ \A d \in dropped :
         Cardinality({s.holder : s \in SharesOf(sPool, d)}) >= config.threshold

(* The ledger has one step per noised update in the model, also when       *)
(* evaluate fails after the update and the round is never published.       *)
LedgerCountsNoisedUpdates ==
  accountant.steps = Cardinality({u \in model : u.noise > 0})

(* The history lists the model's updates in round order, each once.  Only  *)
(* the current round can be in the model and not in the history, and then  *)
(* the coordinator is stuck in AGGREGATING: no later round builds on an    *)
(* update nobody has a record of.                                          *)
HistoryExplainsModel ==
  /\ \A i, j \in DOMAIN history : i < j => history[i].round < history[j].round
  /\ Published \subseteq model
  /\ \A u \in model \ Published : u.round = roundId /\ phase = "AGGREGATING"

(* Until the next round or a reset, nothing a revealing client relied on   *)
(* changes after collection was closed: neither who survived nor a stored  *)
(* key, share or vector (a late or repeated upload must be refused).       *)
ClosedIsFinal ==
  [][(phase \in {"UNMASK", "AGGREGATING"} /\ phase' # "IDLE")
       => (UNCHANGED <<participants, pubkeys, shareInbox, masked, survivors, dropped>>)]_vars

(* "round_id is deliberately NOT reset" (coordinator.py:103): a client     *)
(* skips the ids it has served, so an id may never name a second sample of *)
(* participants, also across a reset.                                      *)
IdNamesOneRound ==
  [][/\ roundId' >= roundId
     /\ participants' # participants => participants' = {} \/ roundId' > roundId]_vars

(* The coordinator implements the abstract round of FLRound.tla.           *)
Stage ==
  CASE phase = "IDLE" -> "idle"
    [] phase \in {"ADVERTISE_KEYS", "SHARE_KEYS", "COLLECT"} -> "gathering"
    [] phase = "UNMASK" -> "closed"
    [] phase = "AGGREGATING" -> "failed"
    [] phase = "DONE" -> "published"

Results == {[round |-> u.round, members |-> u.participants,
             contributors |-> u.survivors] : u \in Published}

Round == INSTANCE FLRound WITH
  stage <- Stage, id <- roundId, members <- participants,
  contributors <- survivors, openedSelf <- Owners(bPool), openedKey <- Owners(sPool),
  results <- Results

ImplementsRound == Round!Spec
=============================================================================
