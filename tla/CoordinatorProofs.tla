-------------------------- MODULE CoordinatorProofs --------------------------
(***************************************************************************)
(* Theorems about Coordinator.tla for every set of clients and keys, every *)
(* set of noise levels and every bound on the round ids.                   *)
(***************************************************************************)
EXTENDS Coordinator, FiniteSetTheorems, TLAPS

(* An update as the coordinator records it is well typed.                  *)
LEMMA ThisUpdateType ==
  ASSUME TypeOK
  PROVE  ThisUpdate \in Update
BY DEF TypeOK, ThisUpdate, Update

(* Applying an update (or failing to) keeps the ledger variables typed.    *)
LEMMA AggregateType ==
  ASSUME TypeOK, Aggregate
  PROVE  /\ phase' \in Phase
         /\ history' \in Seq(Update)
         /\ accountant' \in [perRound : Nat, steps : Nat, sigma : Nat]
         /\ model' \subseteq Update
<1>1. ThisUpdate \in Update
  BY ThisUpdateType
<1>2. CASE UNCHANGED ledgerVars /\ phase' = "AGGREGATING"
  BY <1>2 DEF ledgerVars, TypeOK, Phase
<1>3. ASSUME ApplyUpdate
      PROVE  /\ accountant' \in [perRound : Nat, steps : Nat, sigma : Nat]
             /\ model' \subseteq Update
  <2>1. config.noise \in Nat /\ model \subseteq Update
    BY DEF TypeOK
  <2>2. accountant \in [perRound : Nat, steps : Nat, sigma : Nat]
    BY DEF TypeOK
  <2>3. LedgerStep(accountant, config.noise) \in [perRound : Nat, steps : Nat, sigma : Nat]
    BY <2>1, <2>2 DEF LedgerStep
  <2> QED
    BY <1>1, <1>3, <2>1, <2>2, <2>3 DEF ApplyUpdate
<1>4. CASE ApplyUpdate /\ phase' = "AGGREGATING" /\ UNCHANGED history
  BY <1>3, <1>4 DEF TypeOK, Phase
<1>5. CASE ApplyUpdate /\ history' = Append(history, ThisUpdate) /\ phase' = "DONE"
  BY <1>1, <1>3, <1>5 DEF TypeOK, Phase
<1> QED
  BY <1>2, <1>4, <1>5 DEF Aggregate

(* A reveal of any shares at all keeps the types.                          *)
LEMMA RevealType ==
  ASSUME TypeOK, NEW c \in Client, NEW b \in SUBSET [owner : Client, key : Key],
         NEW s \in SUBSET [owner : Client, key : Key], SubmitReveal(c, b, s)
  PROVE  TypeOK'
<1>1. bPool' \subseteq Share /\ sPool' \subseteq Share
  BY DEF SubmitReveal, Share, TypeOK
<1>2. /\ phase' \in Phase
      /\ history' \in Seq(Update)
      /\ accountant' \in [perRound : Nat, steps : Nat, sigma : Nat]
      /\ model' \subseteq Update
  BY AggregateType DEF SubmitReveal, ledgerVars, TypeOK
<1> QED
  BY <1>1, <1>2 DEF SubmitReveal, TypeOK

(* An upload of sealed shares for any clients keeps the types.             *)
LEMMA SharesType ==
  ASSUME TypeOK, NEW c \in Client, NEW k \in Key, NEW T \in SUBSET Client,
         SubmitShares(c, T, k)
  PROVE  TypeOK'
BY DEF SubmitShares, ledgerVars, TypeOK, Phase, Slot

(* Every step keeps the types.                                             *)
LEMMA TypeStep == TypeOK /\ [Next]_vars => TypeOK'
<1> SUFFICES ASSUME TypeOK, [Next]_vars PROVE TypeOK'
  OBVIOUS
<1> USE DEF TypeOK, Phase, Slot, Nothing
<1>1. ASSUME NEW c \in Client, Register(c) \/ Unregister(c) PROVE TypeOK'
  BY <1>1 DEF Register, Unregister, roundVars, ledgerVars
<1>2. ASSUME NEW d \in BOOLEAN, ResetExperiment(d) PROVE TypeOK'
  BY <1>2 DEF ResetExperiment, ResetRoundState, NoLedger
<1>3. ASSUME NEW P \in SUBSET Client, NEW sigma \in Sigma, StartRound(P, sigma)
      PROVE  TypeOK'
  <2>1. IsFiniteSet(P) /\ Cardinality(P) \in Nat
    BY ClientAssumption, FS_Subset, FS_CardinalityType
  <2>2. Threshold(Cardinality(P)) \in Nat
    BY <2>1 DEF Threshold
  <2>3. accountant' \in [perRound : Nat, steps : Nat, sigma : Nat]
    BY <1>3, <2>1 DEF StartRound
  <2>4. config' \in [participants : SUBSET Client, threshold : Nat, noise : Nat]
    BY <1>3, <2>2, SigmaAssumption DEF StartRound
  <2> QED
    BY <1>3, <2>3, <2>4 DEF StartRound, ResetRoundState
<1>4. ASSUME NEW c \in Client, NEW k \in Key, SubmitPubkeys(c, k) PROVE TypeOK'
  BY <1>4 DEF SubmitPubkeys, ledgerVars
<1>5. ASSUME NEW c \in Client, NEW k \in Key, SubmitMasked(c, k) PROVE TypeOK'
  BY <1>5 DEF SubmitMasked, CloseCollection, Stored, ledgerVars
<1>6. ASSUME NEW c \in Client, NEW k \in Key, NEW T \in SUBSET Client,
             SubmitShares(c, T, k)
      PROVE  TypeOK'
  BY <1>6, SharesType
<1>7. ASSUME ForceCloseCollection PROVE TypeOK'
  BY <1>7 DEF ForceCloseCollection, CloseCollection, Stored, ledgerVars
<1>8. ASSUME NEW c \in Client, NEW B \in SUBSET survivors, NEW S \in SUBSET dropped,
             SubmitReveal(c, Opening(c, B), Opening(c, S))
      PROVE  TypeOK'
  <2>1. /\ Opening(c, B) \in SUBSET [owner : Client, key : Key]
        /\ Opening(c, S) \in SUBSET [owner : Client, key : Key]
    BY DEF Opening
  <2> QED
    BY <1>8, <2>1, RevealType
<1>9. CASE UNCHANGED vars
  BY <1>9 DEF vars, roundVars, ledgerVars
<1> QED
  BY <1>1, <1>2, <1>3, <1>4, <1>5, <1>6, <1>7, <1>8, <1>9 DEF Next

(* Type correctness of the coordinator's state.                            *)
THEOREM TypeCorrect == Spec => []TypeOK
<1>1. Init => TypeOK
  BY DEF Init, TypeOK, Phase, Slot, Nothing, NoLedger
<1> QED
  BY <1>1, TypeStep, PTL DEF Spec
-----------------------------------------------------------------------------
(* The closing rule's arithmetic: a threshold of a selection of two or     *)
(* more is reachable, at least two, and more than half of the selection.   *)
LEMMA ThresholdBounds ==
  ASSUME NEW n \in Nat, n >= 2
  PROVE  /\ Threshold(n) \in Nat
         /\ 2 <= Threshold(n) /\ Threshold(n) <= n
         /\ 2 * Threshold(n) > n
BY DEF Threshold

(* A part of the participants with as many members as they have is all of  *)
(* them: the handlers compare sizes only.                                  *)
LEMMA AllOfThem ==
  ASSUME NEW P \in SUBSET Client, NEW S \in SUBSET P,
         Cardinality(S) = Cardinality(P)
  PROVE  S = P
BY ClientAssumption, FS_Subset

(* The clients selected for a round are finitely many.                     *)
LEMMA SelectionFinite ==
  ASSUME NEW P \in SUBSET Client
  PROVE  IsFiniteSet(P) /\ Cardinality(P) \in Nat
BY ClientAssumption, FS_Subset, FS_CardinalityType

(* Storing a key under c adds c to the stored clients, and nothing else.   *)
LEMMA StoreOne ==
  ASSUME NEW f \in [Client -> Slot], NEW c \in Client, NEW k \in Key
  PROVE  Stored([f EXCEPT ![c] = k]) = Stored(f) \cup {c}
BY KeyAssumption DEF Stored, Slot

(* The empty dict stores nothing.                                          *)
LEMMA StoredNothing == Stored(Nothing) = {}
BY DEF Stored, Nothing

(* An empty share pool has no owners.                                      *)
LEMMA NoOwners == Owners({}) = {}
BY DEF Owners

Closed == {"UNMASK", "AGGREGATING", "DONE"}

(* A reveal keeps the shape of the round as long as it opens what the two  *)
(* lists allow, with whatever keys.                                        *)
LEMMA RevealShape ==
  ASSUME TypeOK, RoundShape, NEW c, NEW b, NEW s, SubmitReveal(c, b, s),
         \A x \in b : x.owner \in survivors, \A x \in s : x.owner \in dropped
  PROVE  RoundShape'
<1>1. /\ phase = "UNMASK"
      /\ UNCHANGED <<config, participants, pubkeys, masked, survivors, dropped>>
  BY DEF SubmitReveal, Require
<1>2. Owners(bPool') \subseteq survivors /\ Owners(sPool') \subseteq dropped
  BY <1>1 DEF SubmitReveal, Owners, RoundShape
<1>3. phase' \in Closed
  BY <1>1 DEF SubmitReveal, Aggregate, Closed
<1>4. accountant' # NoLedger
  <2>1. accountant # NoLedger
    BY <1>1 DEF RoundShape
  <2>2. accountant' = accountant \/ accountant' = LedgerStep(accountant, config.noise)
    BY DEF SubmitReveal, Aggregate, ApplyUpdate, ledgerVars
  <2>3. accountant.steps \in Nat
    BY DEF TypeOK
  <2>4. LedgerStep(accountant, config.noise) # NoLedger
    BY <2>3 DEF LedgerStep, NoLedger
  <2> QED
    BY <2>1, <2>2, <2>4
<1> QED
  BY <1>1, <1>2, <1>3, <1>4 DEF RoundShape, Stored, Closed

(* Every step keeps the shape of the round.                                *)
LEMMA ShapeStep == TypeOK /\ RoundShape /\ [Next]_vars => RoundShape'
<1> SUFFICES ASSUME TypeOK, RoundShape, [Next]_vars PROVE RoundShape'
  OBVIOUS
<1>1. ASSUME NEW c \in Client, Register(c) \/ Unregister(c) PROVE RoundShape'
  BY <1>1 DEF Register, Unregister, roundVars, ledgerVars, RoundShape, Stored, Owners
<1>2. ASSUME NEW d \in BOOLEAN, ResetExperiment(d) PROVE RoundShape'
  BY <1>2, StoredNothing, NoOwners DEF ResetExperiment, ResetRoundState, RoundShape
<1>3. ASSUME NEW P \in SUBSET Client, NEW sigma \in Sigma, StartRound(P, sigma)
      PROVE  RoundShape'
  <2>1. Cardinality(P) \in Nat /\ Cardinality(P) >= 2
    BY <1>3, SelectionFinite DEF StartRound
  <2>2. accountant' # NoLedger
    BY <1>3, <2>1 DEF StartRound, NoLedger
  <2>3. /\ participants' = P
        /\ config'.participants = P
        /\ config'.threshold = Threshold(Cardinality(P))
        /\ phase' = "ADVERTISE_KEYS"
    BY <1>3 DEF StartRound
  <2> QED
    BY <1>3, <2>1, <2>2, <2>3, StoredNothing, NoOwners
    DEF StartRound, ResetRoundState, RoundShape
<1>4. ASSUME NEW c \in Client, NEW k \in Key, SubmitPubkeys(c, k) PROVE RoundShape'
  <2>1. /\ phase = "ADVERTISE_KEYS" /\ c \in participants
        /\ pubkeys' = [pubkeys EXCEPT ![c] = k]
        /\ phase' = IF Cardinality(Stored(pubkeys')) = Cardinality(participants)
                      THEN "SHARE_KEYS" ELSE phase
        /\ UNCHANGED <<config, participants, masked, survivors, dropped, bPool,
                       sPool, accountant>>
    BY <1>4 DEF SubmitPubkeys, Require, ledgerVars
  <2>2. Stored(pubkeys') = Stored(pubkeys) \cup {c}
    BY <2>1, StoreOne DEF TypeOK
  <2>3. Stored(pubkeys') \subseteq participants /\ participants \subseteq Client
    BY <2>1, <2>2 DEF RoundShape, TypeOK
  <2>4. ASSUME phase' = "SHARE_KEYS" PROVE Stored(pubkeys') = participants
    <3>1. Cardinality(Stored(pubkeys')) = Cardinality(participants)
      BY <2>1, <2>4
    <3> QED
      BY <2>3, <3>1, AllOfThem
  <2>5. phase' \in {"ADVERTISE_KEYS", "SHARE_KEYS"}
    BY <2>1
  <2> QED
    BY <2>1, <2>3, <2>4, <2>5 DEF RoundShape, Stored, Owners
<1>5. ASSUME NEW c \in Client, NEW k \in Key, SubmitMasked(c, k) PROVE RoundShape'
  <2>1. /\ phase = "COLLECT" /\ c \in participants
        /\ masked' = [masked EXCEPT ![c] = k]
        /\ IF Cardinality(Stored(masked')) = Cardinality(participants)
             THEN CloseCollection(masked')
             ELSE UNCHANGED <<survivors, dropped, phase>>
        /\ UNCHANGED <<config, participants, pubkeys, bPool, sPool, accountant>>
    BY <1>5 DEF SubmitMasked, Require, ledgerVars
  <2>2. Stored(masked') = Stored(masked) \cup {c}
    BY <2>1, StoreOne DEF TypeOK
  <2>3. Stored(masked') \subseteq participants /\ participants \subseteq Client
    BY <2>1, <2>2 DEF RoundShape, TypeOK
  <2>4. Stored(pubkeys') = participants
    BY <2>1 DEF RoundShape, Stored
  <2>5. CASE Cardinality(Stored(masked')) = Cardinality(participants)
    <3>1. Cardinality(participants) \in Nat /\ Cardinality(participants) >= 2
      BY <2>1, <2>3, SelectionFinite DEF RoundShape
    <3>2. Cardinality(Stored(masked')) >= config.threshold
      BY <2>1, <2>5, <3>1, ThresholdBounds DEF RoundShape
    <3> QED
      BY <2>1, <2>3, <2>4, <2>5, <3>2, NoOwners DEF RoundShape, CloseCollection
  <2>6. CASE Cardinality(Stored(masked')) # Cardinality(participants)
    BY <2>1, <2>3, <2>4, <2>6 DEF RoundShape
  <2> QED
    BY <2>5, <2>6
<1>6. ASSUME NEW c \in Client, NEW k \in Key, NEW T \in SUBSET Client,
             SubmitShares(c, T, k)
      PROVE  RoundShape'
  <2>1. /\ phase = "SHARE_KEYS" /\ phase' \in {"SHARE_KEYS", "COLLECT"}
        /\ UNCHANGED <<config, participants, pubkeys, masked, survivors, dropped,
                       bPool, sPool, accountant>>
    BY <1>6 DEF SubmitShares, Require, ledgerVars
  <2> QED
    BY <2>1 DEF RoundShape, Stored, Owners
<1>7. ASSUME ForceCloseCollection PROVE RoundShape'
  BY <1>7, NoOwners
  DEF ForceCloseCollection, CloseCollection, RoundShape, Stored, ledgerVars
<1>8. ASSUME NEW c \in Client, NEW B \in SUBSET survivors, NEW S \in SUBSET dropped,
             SubmitReveal(c, Opening(c, B), Opening(c, S))
      PROVE  RoundShape'
  <2>1. /\ \A x \in Opening(c, B) : x.owner \in survivors
        /\ \A x \in Opening(c, S) : x.owner \in dropped
    BY DEF Opening
  <2> QED
    BY <1>8, <2>1, RevealShape
<1>9. CASE UNCHANGED vars
  BY <1>9 DEF vars, roundVars, ledgerVars, RoundShape, Stored, Owners
<1> QED
  BY <1>1, <1>2, <1>3, <1>4, <1>5, <1>6, <1>7, <1>8, <1>9 DEF Next

(* The shape holds of a coordinator that was just constructed.             *)
LEMMA ShapeInit == Init => RoundShape
BY StoredNothing, NoOwners DEF Init, RoundShape

(* The shape of the round state in every phase: the inductive invariant    *)
(* of the coordinator, with the types.                                     *)
THEOREM RoundShapeHolds == Spec => []RoundShape
BY TypeCorrect, ShapeInit, ShapeStep, PTL DEF Spec

(* The server never gets both a share of a client's self-mask seed and a   *)
(* share of its mask key in one round.                                     *)
THEOREM NeverBothOpenedHolds == Spec => []NeverBothOpened
<1>1. RoundShape => NeverBothOpened
  BY NoOwners DEF RoundShape, NeverBothOpened
<1> QED
  BY <1>1, RoundShapeHolds, PTL
-----------------------------------------------------------------------------
(* After closing, what a revealing client relied on does not move until    *)
(* the next round or a reset.                                              *)
THEOREM ClosedIsFinalHolds == Spec => ClosedIsFinal
<1>1. ASSUME [Next]_vars, phase \in {"UNMASK", "AGGREGATING"}, phase' # "IDLE"
      PROVE  UNCHANGED <<participants, pubkeys, shareInbox, masked, survivors, dropped>>
  <2> USE <1>1
  <2>1. ASSUME NEW c \in Client, Register(c) \/ Unregister(c)
        PROVE  UNCHANGED roundVars
    BY <2>1 DEF Register, Unregister
  <2>2. ASSUME NEW d \in BOOLEAN, ResetExperiment(d) PROVE FALSE
    BY <2>2 DEF ResetExperiment
  <2>3. ASSUME NEW P \in SUBSET Client, NEW sigma \in Sigma, StartRound(P, sigma)
        PROVE  FALSE
    BY <2>3 DEF StartRound
  <2>4. ASSUME NEW c \in Client, NEW k \in Key, SubmitPubkeys(c, k) \/ SubmitMasked(c, k)
        PROVE  FALSE
    BY <2>4 DEF SubmitPubkeys, SubmitMasked, Require
  <2>5. ASSUME NEW c \in Client, NEW k \in Key, NEW T, SubmitShares(c, T, k)
        PROVE  FALSE
    BY <2>5 DEF SubmitShares, Require
  <2>6. ASSUME ForceCloseCollection PROVE FALSE
    BY <2>6 DEF ForceCloseCollection
  <2>7. ASSUME NEW c \in Client, NEW b, NEW s, SubmitReveal(c, b, s)
        PROVE  UNCHANGED <<participants, pubkeys, shareInbox, masked, survivors, dropped>>
    BY <2>7 DEF SubmitReveal
  <2>8. CASE UNCHANGED vars
    BY <2>8 DEF vars, roundVars
  <2> QED
    BY <2>1, <2>2, <2>3, <2>4, <2>5, <2>6, <2>7, <2>8 DEF Next, roundVars
<1> QED
  BY <1>1, PTL DEF Spec, ClosedIsFinal

(* A round id, once announced, never names a second sample of clients.     *)
THEOREM IdNamesOneRoundHolds == Spec => IdNamesOneRound
<1>1. ASSUME TypeOK, [Next]_vars
      PROVE  /\ roundId' >= roundId
             /\ participants' # participants => participants' = {} \/ roundId' > roundId
  <2> roundId \in Nat
    BY <1>1 DEF TypeOK
  <2>1. ASSUME NEW d \in BOOLEAN, ResetExperiment(d)
        PROVE  roundId' = roundId /\ participants' = {}
    BY <2>1 DEF ResetExperiment
  <2>2. ASSUME NEW P \in SUBSET Client, NEW sigma \in Sigma, StartRound(P, sigma)
        PROVE  roundId' = roundId + 1
    BY <2>2 DEF StartRound
  <2>3. CASE /\ \A d \in BOOLEAN : ~ResetExperiment(d)
             /\ \A P \in SUBSET Client, sigma \in Sigma : ~StartRound(P, sigma)
    <3>1. UNCHANGED <<roundId, participants>>
      BY <1>1, <2>3
      DEF Next, Register, Unregister, SubmitPubkeys, SubmitShares, SubmitMasked,
          ForceCloseCollection, SubmitReveal, vars, roundVars
    <3> QED
      BY <3>1
  <2> QED
    BY <2>1, <2>2, <2>3
<1> QED
  BY <1>1, TypeCorrect, PTL DEF Spec, IdNamesOneRound
-----------------------------------------------------------------------------
(* What the ledger and the history rest on: the model's updates are finite *)
(* in number and come from rounds already announced, from earlier ones     *)
(* while the current round is still under way.                             *)
ModelPast ==
  /\ IsFiniteSet(model)
  /\ \A u \in model : u.round <= roundId
  /\ phase \notin {"IDLE", "AGGREGATING", "DONE"} => \A u \in model : u.round < roundId

RoundInv == ModelPast /\ HistoryExplainsModel /\ LedgerCountsNoisedUpdates

(* Appending a record to the history publishes it, besides the others.     *)
LEMMA AppendedPublished ==
  ASSUME NEW h \in Seq(Update), NEW u \in Update
  PROVE  LET h2 == Append(h, u) IN
         /\ {h2[i] : i \in DOMAIN h2} = {h[i] : i \in DOMAIN h} \cup {u}
         /\ DOMAIN h2 = 1 .. Len(h) + 1
         /\ h2[Len(h) + 1] = u
         /\ \A i \in DOMAIN h : h2[i] = h[i]
<1> DEFINE h2 == Append(h, u)
<1>1. /\ Len(h) \in Nat
      /\ DOMAIN h = 1 .. Len(h)
      /\ DOMAIN h2 = 1 .. Len(h) + 1
      /\ h2[Len(h) + 1] = u
      /\ \A i \in 1 .. Len(h) : h2[i] = h[i]
  OBVIOUS
<1>2. 1 .. Len(h) + 1 = (1 .. Len(h)) \cup {Len(h) + 1}
  BY <1>1
<1> QED
  BY <1>1, <1>2

(* The steps that do not aggregate: they leave the model's updates, the    *)
(* history and the charged steps alone, or discard them all.               *)
LEMMA RoundInvOther ==
  ASSUME TypeOK, RoundInv,
         UNCHANGED <<model, history>>, accountant'.steps = accountant.steps,
         \/ roundId' = roundId /\ phase' = phase
         \/ roundId' = roundId /\ phase \notin {"IDLE", "AGGREGATING", "DONE"}
              /\ phase' # "AGGREGATING"
         \/ roundId' > roundId /\ phase \in {"IDLE", "DONE"} /\ roundId' \in Nat
  PROVE  RoundInv'
<1>1. \A u \in model : u.round \in Nat
  BY DEF TypeOK, Update
<1>2. roundId \in Nat /\ roundId' \in Nat
  BY DEF TypeOK
<1>3. ModelPast'
  BY <1>1, <1>2 DEF RoundInv, ModelPast
<1>4. HistoryExplainsModel'
  BY <1>1, <1>2 DEF RoundInv, HistoryExplainsModel, Published
<1>5. LedgerCountsNoisedUpdates'
  BY DEF RoundInv, LedgerCountsNoisedUpdates
<1> QED
  BY <1>3, <1>4, <1>5 DEF RoundInv

(* Absorbing the current round's update, with or without publishing it.    *)
LEMMA RoundInvApply ==
  ASSUME TypeOK, RoundInv, phase = "UNMASK", roundId' = roundId, ApplyUpdate,
         \/ phase' = "AGGREGATING" /\ history' = history
         \/ phase' = "DONE" /\ history' = Append(history, ThisUpdate)
  PROVE  RoundInv'
<1> DEFINE u0 == ThisUpdate
<1>1. u0 \in Update /\ u0.round = roundId /\ u0.noise = config.noise
  BY ThisUpdateType DEF ThisUpdate
<1>2. model' = model \cup {u0}
  BY DEF ApplyUpdate
<1>3. /\ roundId \in Nat /\ config.noise \in Nat
      /\ history \in Seq(Update) /\ model \subseteq Update
      /\ accountant.steps \in Nat
  BY DEF TypeOK
<1>4. \A u \in model : u.round \in Nat /\ u.noise \in Nat /\ u.round < roundId
  BY <1>3 DEF RoundInv, ModelPast, Update
<1> HIDE DEF u0
<1>5. u0 \notin model
  BY <1>1, <1>3, <1>4
<1>6. ModelPast'
  <2>1. IsFiniteSet(model')
    BY <1>2, FS_AddElement DEF RoundInv, ModelPast
  <2> QED
    BY <1>1, <1>2, <1>3, <1>4, <2>1 DEF ModelPast
<1>7. model = Published
  BY <1>3 DEF RoundInv, HistoryExplainsModel
<1>8. HistoryExplainsModel'
  <2>1. CASE phase' = "AGGREGATING" /\ history' = history
    <3>1. Published' = Published
      BY <2>1 DEF Published
    <3>2. \A i, j \in DOMAIN history' : i < j => history'[i].round < history'[j].round
      BY <2>1 DEF RoundInv, HistoryExplainsModel
    <3> QED
      BY <1>1, <1>2, <1>7, <2>1, <3>1, <3>2 DEF HistoryExplainsModel
  <2>2. CASE phase' = "DONE" /\ history' = Append(history, ThisUpdate)
    <3>1. /\ Published' = Published \cup {u0}
          /\ DOMAIN history' = 1 .. Len(history) + 1
          /\ history'[Len(history) + 1] = u0
          /\ \A i \in DOMAIN history : history'[i] = history[i]
      BY <1>1, <1>3, <2>2, AppendedPublished DEF Published, u0
    <3>2. Len(history) \in Nat /\ DOMAIN history = 1 .. Len(history)
      BY <1>3
    <3>3. \A i \in DOMAIN history : history[i] \in model
      BY <1>7 DEF Published
    <3>4. ASSUME NEW i \in DOMAIN history', NEW j \in DOMAIN history', i < j
          PROVE  history'[i].round < history'[j].round
      <4>1. i \in DOMAIN history
        BY <3>1, <3>2, <3>4
      <4>2. CASE j \in DOMAIN history
        BY <3>1, <3>4, <4>1, <4>2 DEF RoundInv, HistoryExplainsModel
      <4>3. CASE j = Len(history) + 1
        BY <1>1, <1>4, <3>1, <3>3, <4>1, <4>3
      <4> QED
        BY <3>1, <3>2, <4>2, <4>3
    <3> QED
      BY <1>2, <1>7, <3>1, <3>4 DEF HistoryExplainsModel
  <2> QED
    BY <2>1, <2>2
<1>9. LedgerCountsNoisedUpdates'
  <2> DEFINE N == {u \in model : u.noise > 0}
             N2 == {u \in model' : u.noise > 0}
  <2>1. IsFiniteSet(N) /\ accountant.steps = Cardinality(N)
    BY FS_Subset DEF RoundInv, ModelPast, LedgerCountsNoisedUpdates
  <2>2. CASE config.noise > 0
    <3>1. N2 = N \cup {u0} /\ u0 \notin N
      BY <1>1, <1>2, <1>5, <2>2
    <3>2. Cardinality(N2) = Cardinality(N) + 1
      BY <2>1, <3>1, FS_AddElement
    <3>3. accountant'.steps = accountant.steps + 1
      BY <2>2 DEF ApplyUpdate, LedgerStep
    <3> QED
      BY <2>1, <3>2, <3>3 DEF LedgerCountsNoisedUpdates
  <2>3. CASE ~(config.noise > 0)
    <3>1. N2 = N
      BY <1>1, <1>2, <2>3
    <3>2. accountant' = accountant
      BY <2>3 DEF ApplyUpdate
    <3> QED
      BY <2>1, <3>1, <3>2 DEF LedgerCountsNoisedUpdates
  <2> QED
    BY <2>2, <2>3
<1> QED
  BY <1>6, <1>8, <1>9 DEF RoundInv

(* Every step keeps the ledger and the history in line with the model.     *)
LEMMA RoundInvStep == TypeOK /\ RoundInv /\ [Next]_vars => RoundInv'
<1> SUFFICES ASSUME TypeOK, RoundInv, [Next]_vars PROVE RoundInv'
  OBVIOUS
<1>1. ASSUME NEW c \in Client, Register(c) \/ Unregister(c) PROVE RoundInv'
  BY <1>1, RoundInvOther DEF Register, Unregister, ledgerVars
<1>2. ASSUME NEW d \in BOOLEAN, ResetExperiment(d) PROVE RoundInv'
  <2>1. /\ model' = {} /\ history' = <<>> /\ accountant'.steps = 0
        /\ roundId' = roundId
    BY <1>2 DEF ResetExperiment, NoLedger
  <2>2. {u \in model' : u.noise > 0} = {}
    BY <2>1
  <2>3. DOMAIN history' = {} /\ Published' = {}
    BY <2>1 DEF Published
  <2> QED
    BY <2>1, <2>2, <2>3, FS_EmptySet
    DEF RoundInv, ModelPast, HistoryExplainsModel, LedgerCountsNoisedUpdates
<1>3. ASSUME NEW P \in SUBSET Client, NEW sigma \in Sigma, StartRound(P, sigma)
      PROVE  RoundInv'
  <2>1. accountant'.steps = accountant.steps
    BY <1>3 DEF StartRound, TypeOK
  <2>2. roundId \in Nat
    BY DEF TypeOK
  <2> QED
    BY <1>3, <2>1, <2>2, RoundInvOther DEF StartRound
<1>4. ASSUME NEW c \in Client, NEW k \in Key, SubmitPubkeys(c, k) PROVE RoundInv'
  BY <1>4, RoundInvOther DEF SubmitPubkeys, Require, ledgerVars
<1>5. ASSUME NEW c \in Client, NEW k \in Key, SubmitMasked(c, k) PROVE RoundInv'
  BY <1>5, RoundInvOther DEF SubmitMasked, CloseCollection, Require, ledgerVars
<1>6. ASSUME NEW c \in Client, NEW k \in Key, NEW T \in SUBSET Client,
             SubmitShares(c, T, k)
      PROVE  RoundInv'
  BY <1>6, RoundInvOther DEF SubmitShares, Require, ledgerVars
<1>7. ASSUME ForceCloseCollection PROVE RoundInv'
  BY <1>7, RoundInvOther DEF ForceCloseCollection, CloseCollection, ledgerVars
<1>8. ASSUME NEW c \in Client, NEW b, NEW s, SubmitReveal(c, b, s) PROVE RoundInv'
  <2>1. phase = "UNMASK" /\ roundId' = roundId
    BY <1>8 DEF SubmitReveal, Require
  <2>2. CASE UNCHANGED <<phase, ledgerVars>>
    BY <2>1, <2>2, RoundInvOther DEF ledgerVars
  <2>3. CASE phase' = "AGGREGATING" /\ UNCHANGED ledgerVars
    <3>1. model' = model /\ history' = history /\ accountant' = accountant
      BY <2>3 DEF ledgerVars
    <3> QED
      BY <2>1, <2>3, <3>1
      DEF RoundInv, ModelPast, HistoryExplainsModel, LedgerCountsNoisedUpdates, Published
  <2>4. CASE /\ ApplyUpdate
             /\ \/ phase' = "AGGREGATING" /\ history' = history
                \/ phase' = "DONE" /\ history' = Append(history, ThisUpdate)
    BY <2>1, <2>4, RoundInvApply
  <2> QED
    BY <1>8, <2>2, <2>3, <2>4 DEF SubmitReveal, Aggregate
<1>9. CASE UNCHANGED vars
  BY <1>9, RoundInvOther DEF vars, ledgerVars
<1> QED
  BY <1>1, <1>2, <1>3, <1>4, <1>5, <1>6, <1>7, <1>8, <1>9 DEF Next

(* An empty history and an unopened ledger explain the initial model.      *)
LEMMA RoundInvInit == Init => RoundInv
<1> SUFFICES ASSUME Init PROVE RoundInv
  OBVIOUS
<1>1. model = {} /\ history = <<>> /\ accountant.steps = 0
  BY DEF Init, NoLedger
<1>2. {u \in model : u.noise > 0} = {} /\ DOMAIN history = {} /\ Published = {}
  BY <1>1 DEF Published
<1> QED
  BY <1>1, <1>2, FS_EmptySet
  DEF RoundInv, ModelPast, HistoryExplainsModel, LedgerCountsNoisedUpdates

(* The invariant about ledger, history and model holds throughout.         *)
LEMMA RoundInvHolds == Spec => []RoundInv
BY TypeCorrect, RoundInvInit, RoundInvStep, PTL DEF Spec

(* The privacy ledger has one step per noised update of the model.         *)
THEOREM LedgerCountsHolds == Spec => []LedgerCountsNoisedUpdates
BY RoundInvHolds, PTL DEF RoundInv

(* The history accounts for every update of the model, except a current    *)
(* round whose evaluation failed.                                          *)
THEOREM HistoryExplainsHolds == Spec => []HistoryExplainsModel
BY RoundInvHolds, PTL DEF RoundInv
-----------------------------------------------------------------------------
(* Each client reveals once, and one share of a secret: the pools hold one *)
(* share per owner and holder.                                             *)
OneShareEach(pool) ==
  /\ \A s \in pool : s.holder \in revealed
  /\ \A s, u \in pool : s.owner = u.owner /\ s.holder = u.holder => s = u

PoolInv == OneShareEach(bPool) /\ OneShareEach(sPool)

(* So counting the shares of a secret counts their distinct holders.       *)
LEMMA HoldersCounted ==
  ASSUME NEW pool \in SUBSET Share, OneShareEach(pool), NEW o
  PROVE  Cardinality({s.holder : s \in SharesOf(pool, o)}) = Cardinality(SharesOf(pool, o))
<1> DEFINE S == SharesOf(pool, o)
           H == {s.holder : s \in S}
           g == [h \in H |-> CHOOSE s \in S : s.holder = h]
<1>1. H \subseteq Client
  BY DEF SharesOf, Share
<1>2. IsFiniteSet(H)
  BY <1>1, ClientAssumption, FS_Subset
<1>3. \A h \in H : g[h] \in S /\ g[h].holder = h
  OBVIOUS
<1>4. \A s \in S : s.holder \in H /\ g[s.holder] = s
  BY <1>3 DEF OneShareEach, SharesOf
<1>5. g \in Bijection(H, S)
  <2>1. g \in [H -> S]
    BY <1>3
  <2>2. \A h1, h2 \in H : g[h1] = g[h2] => h1 = h2
    BY <1>3
  <2>3. \A s \in S : \E h \in H : g[h] = s
    BY <1>4
  <2> HIDE DEF g
  <2> QED
    BY <2>1, <2>2, <2>3 DEF Bijection, Injection, Surjection, IsInjective
<1>6. ExistsBijection(H, S)
  BY <1>5 DEF ExistsBijection
<1> QED
  BY <1>2, <1>6, FS_Bijection

(* A client's reveal adds at most one share per secret, its first.         *)
LEMMA RevealedOnce ==
  ASSUME NEW pool \in SUBSET Share, OneShareEach(pool), NEW c, c \notin revealed,
         NEW pool2 \in SUBSET Share,
         \A s \in pool2 : s \in pool \/ (s.holder = c /\ s.key = Held(c, s.owner))
  PROVE  /\ \A s \in pool2 : s.holder \in revealed \cup {c}
         /\ \A s, u \in pool2 : s.owner = u.owner /\ s.holder = u.holder => s = u
<1>1. \A s \in pool : s.holder \in revealed
  BY DEF OneShareEach
<1>2. \A s, u \in pool : s.owner = u.owner /\ s.holder = u.holder => s = u
  BY DEF OneShareEach
<1>3. \A s, u \in Share : s.owner = u.owner /\ s.holder = u.holder /\ s.key = u.key
                            => s = u
  BY DEF Share
<1> QED
  BY <1>1, <1>2, <1>3

(* Every step keeps the share pools counted by distinct holders.           *)
LEMMA PoolStep == TypeOK /\ PoolInv /\ [Next]_vars => PoolInv'
<1> SUFFICES ASSUME TypeOK, PoolInv, [Next]_vars PROVE PoolInv'
  OBVIOUS
<1>1. CASE UNCHANGED <<bPool, sPool, revealed>>
  BY <1>1 DEF PoolInv, OneShareEach
<1>2. CASE bPool' = {} /\ sPool' = {}
  BY <1>2 DEF PoolInv, OneShareEach
<1>3. ASSUME NEW c \in Client, NEW B \in SUBSET survivors, NEW S \in SUBSET dropped,
             SubmitReveal(c, Opening(c, B), Opening(c, S))
      PROVE  PoolInv'
  <2>1. /\ bPool \in SUBSET Share /\ sPool \in SUBSET Share
        /\ B \in SUBSET Client /\ S \in SUBSET Client
    BY DEF TypeOK
  <2> DEFINE New(s) == s.holder = c /\ s.key = Held(c, s.owner) /\ s \in Share
  <2>2. /\ c \notin revealed /\ revealed' = revealed \cup {c}
        /\ bPool' = bPool \cup {[owner |-> x.owner, holder |-> c, key |-> x.key]
                                  : x \in Opening(c, B)}
        /\ sPool' = sPool \cup {[owner |-> x.owner, holder |-> c, key |-> x.key]
                                  : x \in Opening(c, S)}
    BY <1>3 DEF SubmitReveal
  <2>3. ASSUME NEW O \in SUBSET Client, NEW x \in Opening(c, O)
        PROVE  New([owner |-> x.owner, holder |-> c, key |-> x.key])
    BY DEF Opening, Share
  <2>4. \A s \in bPool' : s \in bPool \/ New(s)
    BY <2>1, <2>2, <2>3
  <2>5. \A s \in sPool' : s \in sPool \/ New(s)
    BY <2>1, <2>2, <2>3
  <2>6. bPool' \in SUBSET Share /\ sPool' \in SUBSET Share
    BY <2>1, <2>4, <2>5
  <2>7. OneShareEach(bPool)'
    BY <2>1, <2>2, <2>4, <2>6, RevealedOnce DEF PoolInv, OneShareEach
  <2>8. OneShareEach(sPool)'
    BY <2>1, <2>2, <2>5, <2>6, RevealedOnce DEF PoolInv, OneShareEach
  <2> QED
    BY <2>7, <2>8 DEF PoolInv
<1>4. \/ UNCHANGED <<bPool, sPool, revealed>>
      \/ bPool' = {} /\ sPool' = {}
      \/ \E c \in Client, B \in SUBSET survivors, S \in SUBSET dropped :
           SubmitReveal(c, Opening(c, B), Opening(c, S))
  BY DEF Next, Register, Unregister, ResetExperiment, StartRound, ResetRoundState,
         SubmitPubkeys, SubmitShares, SubmitMasked, ForceCloseCollection, vars, roundVars
<1> QED
  BY <1>1, <1>2, <1>3, <1>4

(* The invariant about the share pools holds throughout.                   *)
LEMMA PoolInvHolds == Spec => []PoolInv
<1>1. Init => PoolInv
  BY DEF Init, PoolInv, OneShareEach
<1> QED
  BY <1>1, TypeCorrect, PoolStep, PTL DEF Spec

(* The shares the aggregation found sufficient, counted as it counts them. *)
SharesSuffice ==
  phase = "DONE" =>
    /\ Owners(bPool) = survivors
    /\ Owners(sPool) = dropped
    /\ \A o \in survivors : Cardinality(SharesOf(bPool, o)) >= config.threshold
    /\ \A d \in dropped : Cardinality(SharesOf(sPool, d)) >= config.threshold

(* A secret with a threshold of shares has an owner in the pool.           *)
LEMMA OwnersCovered ==
  ASSUME NEW pool, NEW D, NEW t \in Nat, t >= 2, Owners(pool) \subseteq D,
         \A d \in D : Cardinality(SharesOf(pool, d)) >= t
  PROVE  Owners(pool) = D
<1>1. ASSUME NEW d \in D PROVE d \in Owners(pool)
  <2>1. SharesOf(pool, d) # {}
    BY FS_EmptySet
  <2> QED
    BY <2>1 DEF SharesOf, Owners
<1> QED
  BY <1>1

(* When submit_reveal finds enough shares, every secret has its quorum.    *)
LEMMA ReadySuffices ==
  ASSUME TypeOK, RoundShape', TypeOK', ReadyToAggregate,
         UNCHANGED <<config, survivors, dropped>>, phase' \in Closed
  PROVE  /\ Owners(bPool)' = survivors'
         /\ Owners(sPool)' = dropped'
         /\ \A o \in survivors' : Cardinality(SharesOf(bPool', o)) >= config'.threshold
         /\ \A d \in dropped' : Cardinality(SharesOf(sPool', d)) >= config'.threshold
<1>1. /\ Owners(bPool') \subseteq survivors' /\ Owners(sPool') \subseteq dropped'
      /\ config'.threshold = Threshold(Cardinality(participants'))
      /\ Cardinality(participants') >= 2
      /\ participants' \subseteq Client /\ survivors' \subseteq Client
  BY DEF RoundShape, TypeOK, Closed
<1>2. config'.threshold \in Nat /\ config'.threshold >= 2
  BY <1>1, SelectionFinite, ThresholdBounds
<1>3. Owners(bPool') = survivors'
  BY <1>1, AllOfThem DEF ReadyToAggregate
<1>4. \A d \in dropped' : Cardinality(SharesOf(sPool', d)) >= config'.threshold
  BY DEF ReadyToAggregate
<1>5. Owners(sPool') = dropped'
  BY <1>1, <1>2, <1>4, OwnersCovered
<1> QED
  BY <1>3, <1>4, <1>5 DEF ReadyToAggregate

(* Every step that leaves the round DONE leaves a quorum behind it.        *)
LEMMA SufficeStep ==
  TypeOK /\ TypeOK' /\ RoundShape' /\ SharesSuffice /\ [Next]_vars => SharesSuffice'
<1> SUFFICES ASSUME TypeOK, TypeOK', RoundShape', SharesSuffice, [Next]_vars,
                    phase' = "DONE"
             PROVE  SharesSuffice'
  BY DEF SharesSuffice
<1>1. CASE UNCHANGED <<phase, config, survivors, dropped, bPool, sPool>>
  BY <1>1 DEF SharesSuffice, Owners
<1>2. ASSUME NEW c \in Client, NEW b, NEW s, SubmitReveal(c, b, s)
      PROVE  SharesSuffice'
  <2>1. ReadyToAggregate /\ UNCHANGED <<config, survivors, dropped>>
    BY <1>2 DEF SubmitReveal, Require
  <2> QED
    BY <2>1, ReadySuffices DEF SharesSuffice, Closed
<1>3. \/ UNCHANGED <<phase, config, survivors, dropped, bPool, sPool>>
      \/ \E c \in Client, B \in SUBSET survivors, S \in SUBSET dropped :
           SubmitReveal(c, Opening(c, B), Opening(c, S))
  BY DEF Next, Register, Unregister, ResetExperiment, StartRound, Require,
         SubmitPubkeys, SubmitShares, SubmitMasked, ForceCloseCollection,
         CloseCollection, vars, roundVars
<1> QED
  BY <1>1, <1>2, <1>3

(* Behind every completed round there is a threshold of distinct holders   *)
(* for each secret its sum needs.                                          *)
THEOREM QuorumBehindResultHolds == Spec => []QuorumBehindResult
<1>1. Init => SharesSuffice
  BY DEF Init, SharesSuffice
<1>2. Spec => []SharesSuffice
  BY <1>1, TypeCorrect, RoundShapeHolds, SufficeStep, PTL DEF Spec
<1>3. TypeOK /\ PoolInv /\ SharesSuffice => QuorumBehindResult
  BY HoldersCounted DEF TypeOK, PoolInv, SharesSuffice, QuorumBehindResult
<1> QED
  BY <1>2, <1>3, TypeCorrect, PoolInvHolds, PTL

-----------------------------------------------------------------------------
(* The coordinator implements FLRound.tla: every step of a handler is a    *)
(* step of the abstract round, or none.                                    *)

(* The size of a set is the same notion inside the instance.               *)
LEMMA SameCardinality ==
  ASSUME NEW S
  PROVE  Round!Cardinality(S) = Cardinality(S)
BY DEF Round!Cardinality, Cardinality

(* A step that keeps the stage and all that the abstraction sees.          *)
LEMMA Stutter ==
  ASSUME Stage' = Stage,
         UNCHANGED <<roundId, participants, survivors, bPool, sPool, history>>
  PROVE  UNCHANGED Round!vars
BY DEF Round!vars, Owners, Results, Published

(* Closing collection, by either handler, is an abstract Close.            *)
LEMMA CloseStep ==
  ASSUME TypeOK, RoundShape, TypeOK', RoundShape', phase = "COLLECT", phase' = "UNMASK",
         UNCHANGED <<roundId, participants, config, bPool, sPool, history>>
  PROVE  Round!Close
<1>1. Stage = "gathering" /\ Stage' = "closed"
  BY DEF Stage
<1>2. /\ survivors' \subseteq participants /\ participants \subseteq Client
      /\ Cardinality(participants) >= 2
      /\ Cardinality(survivors') >= Threshold(Cardinality(participants))
  BY DEF RoundShape, TypeOK
<1>3. Cardinality(participants) \in Nat /\ Cardinality(survivors') \in Nat
  BY <1>2, SelectionFinite
<1>4. Cardinality(survivors') >= 2 /\ 2 * Cardinality(survivors') > Cardinality(participants)
  BY <1>2, <1>3, ThresholdBounds
<1>5. UNCHANGED <<Owners(bPool), Owners(sPool), Results>>
  BY DEF Owners, Results, Published
<1> QED
  BY <1>1, <1>2, <1>4, <1>5, SameCardinality DEF Round!Close

(* A reveal opens secrets the closing allowed; if it completes the round,  *)
(* all of them are open.                                                   *)
LEMMA RevealStep ==
  ASSUME TypeOK, RoundShape, TypeOK', RoundShape', NEW c \in Client, NEW b, NEW s,
         SubmitReveal(c, b, s)
  PROVE  Round!Next
<1>1. /\ phase = "UNMASK" /\ Stage = "closed"
      /\ UNCHANGED <<roundId, config, participants, survivors, dropped>>
  BY DEF Stage, SubmitReveal, Require
<1>2. Owners(bPool) \subseteq Owners(bPool') /\ Owners(sPool) \subseteq Owners(sPool')
  BY DEF SubmitReveal, Owners
<1>3. phase' \in Closed
  BY <1>1 DEF SubmitReveal, Aggregate, Closed
<1>4. /\ Owners(bPool') \subseteq survivors'
      /\ Owners(sPool') \subseteq dropped'
      /\ dropped' = participants' \ survivors'
  BY <1>3 DEF RoundShape, Closed
<1>5. Round!OpenSecrets
  BY <1>1, <1>2, <1>4 DEF Round!OpenSecrets, Owners
<1>6. CASE UNCHANGED <<phase, ledgerVars>>
  <2>1. Stage' = Stage /\ Results' = Results
    BY <1>6 DEF Stage, Results, Published, ledgerVars
  <2> QED
    BY <1>5, <2>1 DEF Round!Next, Round!Open
<1>7. CASE ReadyToAggregate /\ phase' = "AGGREGATING" /\ history' = history
  <2>1. Stage' = "failed" /\ Results' = Results
    BY <1>7 DEF Stage, Results, Published
  <2> QED
    BY <1>5, <2>1 DEF Round!Next, Round!Fail
<1>8. CASE ReadyToAggregate /\ phase' = "DONE" /\ history' = Append(history, ThisUpdate)
  <2>1. Stage' = "published"
    BY <1>8 DEF Stage
  <2>2. Published' = Published \cup {ThisUpdate}
    <3>1. ThisUpdate \in Update /\ history \in Seq(Update)
      BY ThisUpdateType DEF TypeOK
    <3> QED
      BY <1>8, <3>1, AppendedPublished DEF Published
  <2>3. Owners(bPool)' = survivors' /\ Owners(sPool)' = dropped'
    BY <1>1, <1>3, <1>8, ReadySuffices
  <2> DEFINE R(u) == [round |-> u.round, members |-> u.participants,
                      contributors |-> u.survivors]
  <2>4. Results' = Results \cup {R(ThisUpdate)}
    BY <2>2 DEF Results
  <2>5. R(ThisUpdate) = [round |-> roundId, members |-> participants,
                         contributors |-> survivors]
    BY DEF ThisUpdate
  <2>6. Round!Publish
    BY <1>1, <1>4, <1>5, <2>1, <2>3, <2>4, <2>5 DEF Round!Publish
  <2> QED
    BY <2>6 DEF Round!Next
<1> QED
  BY <1>6, <1>7, <1>8 DEF SubmitReveal, Aggregate, ledgerVars

(* Every step of the coordinator is a step of the abstract round or none.  *)
LEMMA RoundStep ==
  ASSUME TypeOK, RoundShape, TypeOK', RoundShape', [Next]_vars
  PROVE  [Round!Next]_(Round!vars)
<1>1. ASSUME NEW c \in Client, Register(c) \/ Unregister(c)
      PROVE  UNCHANGED Round!vars
  BY <1>1, Stutter DEF Register, Unregister, roundVars, ledgerVars, Stage
<1>2. ASSUME NEW d \in BOOLEAN, ResetExperiment(d) PROVE Round!Abort
  <2>1. Stage' = "idle"
    BY <1>2 DEF Stage, ResetExperiment
  <2>2. Results' = {}
    BY <1>2 DEF ResetExperiment, Results, Published
  <2> QED
    BY <1>2, <2>1, <2>2, NoOwners DEF ResetExperiment, ResetRoundState, Round!Abort
<1>3. ASSUME NEW P \in SUBSET Client, NEW sigma \in Sigma, StartRound(P, sigma)
      PROVE  Round!Begin
  <2>1. Stage \in {"idle", "published"} /\ Stage' = "gathering"
    BY <1>3 DEF Stage, StartRound
  <2>2. Results' = Results
    BY <1>3 DEF StartRound, Results, Published
  <2> QED
    BY <1>3, <2>1, <2>2, NoOwners, SameCardinality
    DEF StartRound, ResetRoundState, Round!Begin
<1>4. ASSUME NEW c \in Client, NEW k \in Key, SubmitPubkeys(c, k)
      PROVE  UNCHANGED Round!vars
  <2>1. Stage = "gathering" /\ Stage' = "gathering"
    BY <1>4 DEF Stage, SubmitPubkeys, Require
  <2> QED
    BY <1>4, <2>1, Stutter DEF SubmitPubkeys, ledgerVars
<1>5. ASSUME NEW c \in Client, NEW k \in Key, SubmitMasked(c, k)
      PROVE  Round!Close \/ UNCHANGED Round!vars
  <2>1. /\ phase = "COLLECT"
        /\ UNCHANGED <<roundId, participants, config, bPool, sPool, history>>
        /\ \/ phase' = "UNMASK"
           \/ UNCHANGED <<survivors, phase>>
    BY <1>5 DEF SubmitMasked, CloseCollection, Require, ledgerVars
  <2> QED
    BY <2>1, CloseStep, Stutter DEF Stage
<1>6. ASSUME NEW c \in Client, NEW k \in Key, NEW T \in SUBSET Client,
             SubmitShares(c, T, k)
      PROVE  UNCHANGED Round!vars
  <2>1. Stage = "gathering" /\ Stage' = "gathering"
    BY <1>6 DEF Stage, SubmitShares, Require
  <2> QED
    BY <1>6, <2>1, Stutter DEF SubmitShares, ledgerVars
<1>7. ASSUME ForceCloseCollection PROVE Round!Close
  BY <1>7, CloseStep DEF ForceCloseCollection, CloseCollection, ledgerVars
<1>8. ASSUME NEW c \in Client, NEW B \in SUBSET survivors, NEW S \in SUBSET dropped,
             SubmitReveal(c, Opening(c, B), Opening(c, S))
      PROVE  Round!Next
  BY <1>8, RevealStep
<1>9. CASE UNCHANGED vars
  BY <1>9, Stutter DEF vars, roundVars, ledgerVars, Stage
<1> QED
  BY <1>1, <1>2, <1>3, <1>4, <1>5, <1>6, <1>7, <1>8, <1>9 DEF Next, Round!Next

(* The coordinator implements the abstract round: whatever its clients     *)
(* send and whenever the operator intervenes, a round is closed over more  *)
(* than half of its members, opens only the secrets that closing allows,   *)
(* and is published only when all of them are open.                        *)
THEOREM RoundImplemented == Spec => ImplementsRound
<1>1. Init => Round!Init
  BY NoOwners DEF Init, Round!Init, Stage, Results, Published
<1> QED
  BY <1>1, RoundStep, TypeCorrect, RoundShapeHolds, PTL
  DEF Spec, ImplementsRound, Round!Spec
=============================================================================
