-------------------------- MODULE SecAggRoundProofs --------------------------
(***************************************************************************)
(* Theorems about SecAggRound.tla for every set of clients and noise       *)
(* levels and every bound on rounds and failures.                          *)
(*                                                                         *)
(* The types hold whatever fails.  Most theorems are about behaviours in   *)
(* which no request arrives after its client gave up on it ("late" is not  *)
(* in Failures): lost requests and answers, timeouts, crashes with         *)
(* restarts, resets and failing evaluations are all allowed.  A late       *)
(* request may reach another round, and then they are false.  The last     *)
(* part is about a single round, with whatever fails and however late a    *)
(* request of it arrives.                                                  *)
(***************************************************************************)
EXTENDS SecAggRound, CoordinatorProofs

Idle     == {"off", "loop", "poll"}
Early    == Idle \cup {"advertise", "waitShare"}       \* no peers' keys yet
Unshared == Early \cup {"share"}
HasInbox == {"train", "closing", "askClose", "waitDropped", "waitUnmask", "reveal"}
PreShare == {"IDLE", "ADVERTISE_KEYS"}
Collecting == {"COLLECT", "UNMASK", "AGGREGATING", "DONE"}

Working(c) == cl[c].pc \notin Idle
Current(c) == Working(c) /\ cl[c].rid = roundId /\ phase # "IDLE"

(* What the types rest on.                                                 *)
TypeInv ==
  /\ SecAggTypeOK
  /\ phase # "IDLE" => roundId >= 1
  /\ \A c \in Client : life[c] <= faults
  /\ \A c \in Client : Working(c) => cl[c].key \in Key

(* A client's key names its instance: this client, this round, this life.  *)
OwnKey(c) ==
  Working(c) => /\ cl[c].key = <<c, cl[c].rid, life[c]>>
                /\ cl[c].rid \in handled[c]
                /\ cl[c].rid <= roundId

(* An instance makes its shares once.                                      *)
BookOnce ==
  /\ \A e \in book :
       \/ e.key[3] < life[e.key[1]]
       \/ e.key[3] = life[e.key[1]] /\ e.key[2] \in handled[e.key[1]]
  /\ \A c \in Client : cl[c].pc \in Unshared \ Idle => \A e \in book : e.key # cl[c].key
  /\ \A e, f \in book : e.key = f.key => e = f

(* The key the server has of a client is one of its own, and while the     *)
(* client is past advertising and not about to notice that it is stale, of *)
(* the current round.                                                      *)
OneRound(c) ==
  pubkeys[c] # NoKey =>
    /\ pubkeys[c][1] = c
    /\ cl[c].pc \in Idle \cup {"waitShare"} \/ cl[c].rid = roundId

(* A client working on the server's round agrees with the server.          *)
Agreed(c) ==
  Current(c) =>
    /\ c \in participants /\ cl[c].parts = participants
    /\ cl[c].pc # "advertise" => pubkeys[c] = cl[c].key
    /\ cl[c].pc \notin Early => phase \notin PreShare /\ cl[c].peers = pubkeys
    /\ cl[c].pc \in HasInbox \cup {"fetch"} => phase \in Collecting
    /\ cl[c].pc \in HasInbox => cl[c].inbox = shareInbox[c]
    /\ cl[c].pc \in {"waitUnmask", "reveal"} => masked[c] = cl[c].key
    /\ cl[c].pc = "reveal" => /\ phase \in Closed
                              /\ cl[c].survivors = survivors
                              /\ cl[c].dropped = dropped

(* A client that is past sharing made its shares of what it knows.         *)
Shared(c) ==
  cl[c].pc \notin Unshared =>
    \E e \in book : e.key = cl[c].key /\ e.peers = cl[c].peers /\ e.parts = cl[c].parts

(* Every share in a fetched inbox opens, of this round or of a past one.   *)
InboxOpens(c) ==
  cl[c].pc \in HasInbox =>
    \A o \in Stored(cl[c].inbox) :
      /\ cl[c].inbox[o] = cl[c].peers[o]
      /\ cl[c].inbox[o][2] = cl[c].rid
      /\ \E e \in book : e.key = cl[c].inbox[o] /\ e.peers[c] = cl[c].key

(* Client o's key of this round belongs to an instance that made its       *)
(* shares of exactly the keys the server holds.                            *)
Bound(o) ==
  /\ pubkeys[o][2] = roundId
  /\ \E e \in book : e.key = pubkeys[o] /\ e.peers = pubkeys /\ e.parts = participants

Exchange ==
  \A t, o \in Client : shareInbox[t][o] # NoKey =>
    /\ phase \notin PreShare /\ t \in participants /\ t # o
    /\ shareInbox[t][o] = pubkeys[o] /\ Bound(o)

Vectors ==
  \A o \in Client : masked[o] # NoKey =>
    phase \notin PreShare /\ masked[o] = pubkeys[o] /\ Bound(o)

Pools == \A s \in bPool \cup sPool : s.key = pubkeys[s.owner]

Reports ==
  /\ revealed \subseteq survivors
  /\ phase = "DONE" => revealed = survivors

ClientInv(c) ==
  OwnKey(c) /\ OneRound(c) /\ Agreed(c) /\ Shared(c) /\ InboxOpens(c)

SecAggInv ==
  /\ TypeInv
  /\ RoundShape
  /\ late = {}
  /\ BookOnce
  /\ \A c \in Client : ClientInv(c)
  /\ Exchange /\ Vectors /\ Pools /\ Reports
-----------------------------------------------------------------------------
(* Handling a request keeps the coordinator's types, the round's id, and   *)
(* whether there is a round at all.                                        *)
LEMMA AskType ==
  ASSUME TypeOK, NEW m \in Request, Ask(m)
  PROVE  TypeOK' /\ roundId' = roundId /\ (phase' = "IDLE" <=> phase = "IDLE")
<1>1. ASSUME m.kind = "keys", SubmitPubkeys(m.from, m.key)
      PROVE  TypeOK' /\ roundId' = roundId /\ (phase' = "IDLE" <=> phase = "IDLE")
  <2>1. m.from \in Client /\ m.key \in Key
    BY <1>1 DEF Request
  <2>2. Next
    BY <1>1, <2>1 DEF Next
  <2> QED
    BY <1>1, <2>2, TypeStep DEF SubmitPubkeys, Require
<1>2. ASSUME m.kind = "shares", SubmitShares(m.from, m.targets, m.key)
      PROVE  TypeOK' /\ roundId' = roundId /\ (phase' = "IDLE" <=> phase = "IDLE")
  <2>1. m.from \in Client /\ m.key \in Key /\ m.targets \in SUBSET Client
    BY <1>2 DEF Request
  <2>2. TypeOK'
    BY <1>2, <2>1, SharesType
  <2> QED
    BY <1>2, <2>2 DEF SubmitShares, Require
<1>3. ASSUME m.kind = "masked", SubmitMasked(m.from, m.key)
      PROVE  TypeOK' /\ roundId' = roundId /\ (phase' = "IDLE" <=> phase = "IDLE")
  <2>1. m.from \in Client /\ m.key \in Key
    BY <1>3 DEF Request
  <2>2. Next
    BY <1>3, <2>1 DEF Next
  <2> QED
    BY <1>3, <2>2, TypeStep DEF SubmitMasked, Require, CloseCollection
<1>4. ASSUME m.kind = "reveal", SubmitReveal(m.from, m.b, m.s)
      PROVE  TypeOK' /\ roundId' = roundId /\ (phase' = "IDLE" <=> phase = "IDLE")
  <2>1. /\ m.from \in Client
        /\ m.b \in SUBSET [owner : Client, key : Key]
        /\ m.s \in SUBSET [owner : Client, key : Key]
    BY <1>4 DEF Request, OpenShare
  <2>2. TypeOK'
    BY <1>4, <2>1, RevealType
  <2> QED
    BY <1>4, <2>2 DEF SubmitReveal, Require, Aggregate
<1>5. ASSUME UNCHANGED server
      PROVE  TypeOK' /\ roundId' = roundId /\ (phase' = "IDLE" <=> phase = "IDLE")
  BY <1>5, TypeStep DEF server, vars
<1> QED
  BY <1>1, <1>2, <1>3, <1>4, <1>5 DEF Ask, Handle

(* A client may become any typed state that has a key where it needs one.  *)
Becomes(c, s) == s \in LocalState /\ (s.pc \notin Idle => s.key \in Key)

(* A client that becomes a state of the right type keeps the type of all.  *)
LEMMA BecomeType ==
  ASSUME TypeInv, NEW c \in Client, NEW s, Becomes(c, s), Become(c, s)
  PROVE  /\ cl' \in [Client -> LocalState]
         /\ \A d \in Client : Working(d)' => cl'[d].key \in Key
BY DEF TypeInv, SecAggTypeOK, Becomes, Become, Working

(* A client back in its loop has the right type.                           *)
LEMMA LoopingType ==
  ASSUME NEW c \in Client, NEW p \in Idle
  PROVE  Becomes(c, [Looping EXCEPT !.pc = p]) /\ Becomes(c, Looping)
BY MaxRoundAssumption
DEF Becomes, Looping, LocalState, Place, Waiting, Idle, Slot, Nothing

(* Going on with the same data keeps the type.                             *)
LEMMA GoOnType ==
  ASSUME TypeInv, NEW c \in Client, Working(c), NEW p \in Place
  PROVE  Becomes(c, [cl[c] EXCEPT !.pc = p])
<1>1. cl[c] \in LocalState /\ cl[c].key \in Key
  BY DEF TypeInv, SecAggTypeOK
<1> QED
  BY <1>1 DEF Becomes, LocalState

(* What the records are that a client becomes when it notices a round,     *)
(* reads its peers' keys, fetches its inbox and reads who survived.        *)
WithPeers(s, f) == [s EXCEPT !.pc = "share", !.peers = f]
WithInbox(s, p, f) == [s EXCEPT !.pc = p, !.inbox = f]
WithLists(s, A, B) == [s EXCEPT !.pc = "reveal", !.survivors = A, !.dropped = B]
Noticing(r, k, P) ==
  [Looping EXCEPT !.pc = "advertise", !.rid = r, !.key = k, !.parts = P]

(* The state of a client that has read its peers' keys, field by field.    *)
LEMMA PeersRead ==
  ASSUME NEW s \in LocalState, NEW f \in [Client -> Slot]
  PROVE  LET t == WithPeers(s, f)
         IN  /\ t \in LocalState /\ t.pc = "share" /\ t.peers = f
             /\ t.rid = s.rid /\ t.key = s.key /\ t.parts = s.parts
<1> DEFINE u == [s EXCEPT !.pc = "share"]
<1>1. u \in LocalState /\ u.pc = "share"
  BY DEF LocalState, Place
<1>2. u.rid = s.rid /\ u.key = s.key /\ u.parts = s.parts
  BY DEF LocalState
<1> HIDE DEF u
<1>3. LET t == [u EXCEPT !.peers = f]
      IN  /\ t \in LocalState /\ t.pc = u.pc /\ t.peers = f
          /\ t.rid = u.rid /\ t.key = u.key /\ t.parts = u.parts
  BY <1>1 DEF LocalState
<1> QED
  BY <1>1, <1>2, <1>3 DEF u, WithPeers

(* The state of a client that has read its inbox, field by field.          *)
LEMMA InboxRead ==
  ASSUME NEW s \in LocalState, NEW f \in [Client -> Slot], NEW p \in Place
  PROVE  LET t == WithInbox(s, p, f)
         IN  /\ t \in LocalState /\ t.pc = p /\ t.inbox = f
             /\ t.rid = s.rid /\ t.key = s.key /\ t.parts = s.parts /\ t.peers = s.peers
<1> DEFINE u == [s EXCEPT !.pc = p]
<1>1. u \in LocalState /\ u.pc = p
  BY DEF LocalState
<1>2. u.rid = s.rid /\ u.key = s.key /\ u.parts = s.parts /\ u.peers = s.peers
  BY DEF LocalState
<1> HIDE DEF u
<1>3. LET t == [u EXCEPT !.inbox = f]
      IN  /\ t \in LocalState /\ t.pc = u.pc /\ t.inbox = f
          /\ t.rid = u.rid /\ t.key = u.key /\ t.parts = u.parts /\ t.peers = u.peers
  BY <1>1 DEF LocalState
<1> QED
  BY <1>1, <1>2, <1>3 DEF u, WithInbox

(* The state of a client that has read the two lists, field by field.      *)
LEMMA ListsRead ==
  ASSUME NEW s \in LocalState, NEW A \in SUBSET Client, NEW B \in SUBSET Client
  PROVE  LET t == WithLists(s, A, B)
         IN  /\ t \in LocalState /\ t.pc = "reveal" /\ t.survivors = A /\ t.dropped = B
             /\ t.rid = s.rid /\ t.key = s.key /\ t.parts = s.parts
             /\ t.peers = s.peers /\ t.inbox = s.inbox
<1> DEFINE u == [s EXCEPT !.pc = "reveal"]
           v == [u EXCEPT !.survivors = A]
<1>1. u \in LocalState /\ u.pc = "reveal"
  BY DEF LocalState, Place
<1>2. /\ u.rid = s.rid /\ u.key = s.key /\ u.parts = s.parts /\ u.peers = s.peers
      /\ u.inbox = s.inbox
  BY DEF LocalState
<1> HIDE DEF u
<1>3. /\ v \in LocalState /\ v.pc = u.pc /\ v.survivors = A
      /\ v.rid = u.rid /\ v.key = u.key /\ v.parts = u.parts /\ v.peers = u.peers
      /\ v.inbox = u.inbox
  BY <1>1 DEF LocalState
<1> HIDE DEF v
<1>4. LET t == [v EXCEPT !.dropped = B]
      IN  /\ t \in LocalState /\ t.pc = v.pc /\ t.survivors = v.survivors /\ t.dropped = B
          /\ t.rid = v.rid /\ t.key = v.key /\ t.parts = v.parts
          /\ t.peers = v.peers /\ t.inbox = v.inbox
  BY <1>3 DEF LocalState
<1> QED
  BY <1>1, <1>2, <1>3, <1>4 DEF u, v, WithLists

(* The state of a client that has noticed a round, field by field.         *)
LEMMA RoundNoticed ==
  ASSUME NEW r \in 0 .. MaxRound, NEW k \in Key, NEW P \in SUBSET Client
  PROVE  LET t == Noticing(r, k, P)
         IN  /\ t \in LocalState /\ t.pc = "advertise"
             /\ t.rid = r /\ t.key = k /\ t.parts = P
<1> DEFINE u == [Looping EXCEPT !.pc = "advertise"]
           v == [u EXCEPT !.rid = r]
           w == [v EXCEPT !.key = k]
<1>1. u \in LocalState /\ u.pc = "advertise"
  BY MaxRoundAssumption DEF Looping, LocalState, Place, Slot, Nothing
<1> HIDE DEF u
<1>2. v \in LocalState /\ v.pc = u.pc /\ v.rid = r
  BY <1>1 DEF LocalState
<1> HIDE DEF v
<1>3. w \in LocalState /\ w.pc = v.pc /\ w.rid = v.rid /\ w.key = k
  BY <1>2 DEF LocalState, Slot
<1> HIDE DEF w
<1>4. LET t == [w EXCEPT !.parts = P]
      IN  t \in LocalState /\ t.pc = w.pc /\ t.rid = w.rid /\ t.key = w.key /\ t.parts = P
  BY <1>3 DEF LocalState
<1> QED
  BY <1>1, <1>2, <1>3, <1>4 DEF u, v, w, Noticing

(* What a step other than posting leaves to show.                          *)
Typed == /\ TypeOK' /\ roundId' = roundId /\ (phase' = "IDLE" <=> phase = "IDLE")
         /\ cl' \in [Client -> LocalState]
         /\ \A d \in Client : Working(d)' => cl'[d].key \in Key
         /\ late' \subseteq Request
         /\ faults' \in 0 .. MaxFaults /\ faults' >= faults

(* A request that is handled, refused, lost or delayed keeps the types.    *)
LEMMA PostType ==
  ASSUME TypeInv, NEW c \in Client, NEW m \in Request, NEW after, Becomes(c, after),
         Post(c, m, after)
  PROVE  Typed
<1>1. TypeOK' /\ roundId' = roundId /\ (phase' = "IDLE" <=> phase = "IDLE")
  <2>1. Ask(m) \/ UNCHANGED server
    BY DEF Post, Ask
  <2> QED
    BY <2>1, AskType, TypeStep DEF TypeInv, SecAggTypeOK, server, vars
<1>2. Become(c, after) \/ Become(c, Looping)
  BY DEF Post, Raise
<1>3. /\ cl' \in [Client -> LocalState]
      /\ \A d \in Client : Working(d)' => cl'[d].key \in Key
  BY <1>2, BecomeType, LoopingType DEF Idle
<1>4. late' \subseteq Request /\ faults' \in 0 .. MaxFaults /\ faults' >= faults
  BY FaultBound DEF Post, Fault, TypeInv, SecAggTypeOK
<1> QED
  BY <1>1, <1>3, <1>4 DEF Typed

(* What a step that leaves the server alone leaves to show.                *)
LEMMA AloneType ==
  ASSUME TypeInv, NEW c \in Client, NEW s, Becomes(c, s), Become(c, s),
         UNCHANGED <<server, late>>,
         faults' = faults \/ (faults < MaxFaults /\ faults' = faults + 1)
  PROVE  Typed
<1>1. TypeOK' /\ roundId' = roundId /\ phase' = phase
  BY TypeStep DEF TypeInv, SecAggTypeOK, server, vars
<1> QED
  BY <1>1, BecomeType, FaultBound DEF Typed, TypeInv, SecAggTypeOK

(* Every step of the clients and of whoever drives the rounds keeps the    *)
(* types, late requests included.                                          *)
LEMMA TypeInvStep == TypeInv /\ [SecAggNext]_secAggVars => TypeInv'
<1> SUFFICES ASSUME TypeInv, [SecAggNext]_secAggVars PROVE TypeInv'
  OBVIOUS
<1> DEFINE Kept == UNCHANGED <<handled, life, book>>
<1>a. /\ roundId \in Nat /\ roundId <= MaxRound
      /\ phase # "IDLE" => roundId \in 1 .. MaxRound
      /\ faults \in 0 .. MaxFaults
      /\ \A c \in Client : cl[c] \in LocalState
      /\ handled \in [Client -> SUBSET (1 .. MaxRound)]
      /\ life \in [Client -> 0 .. MaxFaults]
      /\ \A c \in Client : life[c] <= faults
      /\ book \subseteq [key : Key, peers : [Client -> Slot], parts : SUBSET Client]
  BY MaxRoundAssumption, FaultBound DEF TypeInv, SecAggTypeOK, TypeOK
<1>b. /\ pubkeys \in [Client -> Slot] /\ participants \subseteq Client
      /\ shareInbox \in [Client -> [Client -> Slot]]
      /\ survivors \subseteq Client /\ dropped \subseteq Client
      /\ masked \in [Client -> Slot]
  BY DEF TypeInv, SecAggTypeOK, TypeOK
<1>c. ASSUME Typed, Kept PROVE TypeInv'
  BY <1>a, <1>c, FaultBound DEF Typed, TypeInv, SecAggTypeOK
<1>1. ASSUME NEW c \in Client, Loop(c) PROVE TypeInv'
  <2>1. Next /\ roundId' = roundId /\ phase' = phase
    BY <1>1 DEF Loop, Register, Next
  <2>2. Becomes(c, [cl[c] EXCEPT !.pc = "poll"])
    BY <1>1, <1>a DEF Loop, At, Becomes, LocalState, Idle, Place
  <2> QED
    BY <1>1, <1>a, <1>c, <2>1, <2>2, TypeStep, BecomeType, FaultBound
    DEF Loop, GoTo, Typed, TypeInv, SecAggTypeOK
<1>2. ASSUME NEW c \in Client, PollTimeout(c) \/ Stale(c) \/ Timeout(c) \/ Restart(c)
                                 \/ WaitDropped(c)
      PROVE  TypeInv'
  BY <1>2, <1>c, LoopingType, AloneType
  DEF PollTimeout, Stale, Timeout, Restart, WaitDropped, Raise, Idle, Fault
<1>3. ASSUME NEW c \in Client, Notice(c) PROVE TypeInv'
  <2>1. roundId \in 1 .. MaxRound
    BY <1>3, <1>a DEF Notice
  <2>2. <<c, roundId, life[c]>> \in Key
    BY <1>a, <2>1, Instances
  <2>3. Becomes(c, Noticing(roundId, <<c, roundId, life[c]>>, participants))
    BY <1>b, <2>1, <2>2, RoundNoticed, MaxRoundAssumption DEF Becomes
  <2>4. Becomes(c, Looping)
    BY LoopingType DEF Idle
  <2>5. Typed
    BY <1>3, <2>3, <2>4, AloneType DEF Notice, Noticing
  <2>6. handled' \in [Client -> SUBSET (1 .. MaxRound)]
    BY <1>3, <1>a, <2>1 DEF Notice
  <2> QED
    BY <1>3, <1>a, <2>5, <2>6, FaultBound DEF Notice, Typed, TypeInv, SecAggTypeOK
<1>4. ASSUME NEW c \in Client, Advertise(c) PROVE TypeInv'
  <2>1. Working(c) /\ cl[c].key \in Key
    BY <1>4 DEF Advertise, At, Working, Idle, TypeInv
  <2>2. KeysRequest(c) \in Request
    BY <2>1 DEF KeysRequest, Request
  <2>3. Becomes(c, [cl[c] EXCEPT !.pc = "waitShare"])
    BY <2>1, GoOnType DEF Place, Waiting
  <2> QED
    BY <1>4, <1>c, <2>2, <2>3, PostType DEF Advertise
<1>5. ASSUME NEW c \in Client, WaitShare(c) PROVE TypeInv'
  <2>1. Working(c) /\ cl[c].key \in Key
    BY <1>5 DEF WaitShare, SeePhase, At, Working, Idle, TypeInv
  <2>2. Becomes(c, WithPeers(cl[c], pubkeys))
    BY <1>a, <1>b, <2>1, PeersRead DEF Becomes
  <2> QED
    BY <1>5, <1>c, <2>2, AloneType DEF WaitShare, WithPeers
<1>6. ASSUME NEW c \in Client, ShareKeys(c) PROVE TypeInv'
  <2>1. Working(c) /\ cl[c].key \in Key
    BY <1>6 DEF ShareKeys, At, Working, Idle, TypeInv
  <2>2. SharesRequest(c) \in Request
    BY <2>1 DEF SharesRequest, Request, Stored
  <2>3. Becomes(c, [cl[c] EXCEPT !.pc = "waitCollect"])
    BY <2>1, GoOnType DEF Place, Waiting
  <2>4. Typed
    BY <1>6, <2>2, <2>3, PostType DEF ShareKeys
  <2>5. [key |-> cl[c].key, peers |-> cl[c].peers, parts |-> cl[c].parts]
          \in [key : Key, peers : [Client -> Slot], parts : SUBSET Client]
    BY <1>a, <2>1 DEF LocalState
  <2>6. book' \subseteq [key : Key, peers : [Client -> Slot], parts : SUBSET Client]
    BY <1>6, <1>a, <2>5 DEF ShareKeys
  <2> QED
    BY <1>6, <1>a, <2>4, <2>6, FaultBound DEF ShareKeys, Typed, TypeInv, SecAggTypeOK
<1>7. ASSUME NEW c \in Client, WaitCollect(c) PROVE TypeInv'
  <2>1. Becomes(c, [cl[c] EXCEPT !.pc = "fetch"])
    BY <1>7, GoOnType DEF WaitCollect, SeePhase, At, Working, Idle, Place
  <2> QED
    BY <1>7, <1>c, <2>1, AloneType DEF WaitCollect, GoTo
<1>8. ASSUME NEW c \in Client, FetchInbox(c) PROVE TypeInv'
  <2> DEFINE place == IF c \in Dropper THEN "closing" ELSE "train"
  <2>1. Working(c) /\ cl[c].key \in Key
    BY <1>8 DEF FetchInbox, At, Working, Idle, TypeInv
  <2>2. place \in Place
    BY DEF Place, Waiting
  <2> HIDE DEF place
  <2>3. Becomes(c, WithInbox(cl[c], place, shareInbox[c]))
    BY <1>a, <1>b, <2>1, <2>2, InboxRead DEF Becomes
  <2> QED
    BY <1>8, <1>c, <2>3, AloneType DEF FetchInbox, WithInbox, place
<1>9. ASSUME NEW c \in Client, TrainAndMask(c) PROVE TypeInv'
  <2>1. Working(c) /\ cl[c].key \in Key
    BY <1>9 DEF TrainAndMask, At, Working, Idle, TypeInv
  <2>2. MaskedRequest(c) \in Request
    BY <2>1 DEF MaskedRequest, Request
  <2>3. Becomes(c, [cl[c] EXCEPT !.pc = "waitUnmask"])
    BY <2>1, GoOnType DEF Place, Waiting
  <2> QED
    BY <1>9, <1>c, <2>2, <2>3, PostType DEF TrainAndMask
<1>10. ASSUME NEW c \in Client, WaitUnmask(c) PROVE TypeInv'
  <2>1. Working(c) /\ cl[c].key \in Key
    BY <1>10 DEF WaitUnmask, SeePhase, At, Working, Idle, TypeInv
  <2>2. Becomes(c, WithLists(cl[c], survivors, dropped))
    BY <1>a, <1>b, <2>1, ListsRead DEF Becomes
  <2> QED
    BY <1>10, <1>c, <2>2, AloneType DEF WaitUnmask, WithLists
<1>11. ASSUME NEW c \in Client, Reveal(c) PROVE TypeInv'
  <2>1. /\ Working(c) /\ cl[c].key \in Key /\ cl[c].inbox \in [Client -> Slot]
        /\ cl[c].survivors \subseteq Client
    BY <1>11, <1>a DEF Reveal, At, Working, Idle, TypeInv, LocalState
  <2>2. ASSUME NEW O PROVE Opened(c, O) \subseteq OpenShare
    BY <2>1 DEF Opened, OpenShare, Stored, Slot
  <2>3. RevealRequest(c) \in Request
    <3>1. {[owner |-> o, key |-> cl[c].key] : o \in {c} \cap cl[c].survivors}
            \subseteq OpenShare
      BY <2>1 DEF OpenShare
    <3> QED
      BY <2>2, <3>1 DEF RevealRequest, Request
  <2>4. Becomes(c, Looping)
    BY LoopingType DEF Idle
  <2> QED
    BY <1>11, <1>c, <2>3, <2>4, PostType, AloneType DEF Reveal, Raise
<1>12. ASSUME NEW c \in Client, DropperLooks(c) PROVE TypeInv'
  <2>1. Becomes(c, Looping)
    BY LoopingType DEF Idle
  <2>2. /\ Becomes(c, [cl[c] EXCEPT !.pc = "waitDropped"])
        /\ Becomes(c, [cl[c] EXCEPT !.pc = "askClose"])
    BY <1>12, GoOnType DEF DropperLooks, At, Working, Idle, Place, Waiting
  <2> QED
    BY <1>12, <1>c, <2>1, <2>2, AloneType DEF DropperLooks, Raise, GoTo
<1>13. ASSUME NEW c \in Client, DropperCloses(c) PROVE TypeInv'
  <2>1. /\ Becomes(c, [cl[c] EXCEPT !.pc = "waitDropped"])
        /\ Becomes(c, [cl[c] EXCEPT !.pc = "closing"])
    BY <1>13, GoOnType DEF DropperCloses, At, Working, Idle, Place, Waiting
  <2>2. CASE ForceCloseCollection /\ GoTo(c, "waitDropped")
    <3>1. Next /\ roundId' = roundId /\ phase # "IDLE" /\ phase' # "IDLE"
      BY <2>2 DEF ForceCloseCollection, CloseCollection, Next
    <3> QED
      BY <1>13, <1>a, <1>c, <2>1, <2>2, <3>1, TypeStep, BecomeType, FaultBound
      DEF DropperCloses, GoTo, Typed, TypeInv, SecAggTypeOK
  <2> QED
    BY <1>13, <1>c, <2>1, <2>2, AloneType DEF DropperCloses, GoTo
<1>14. ASSUME NEW c \in Client, Crash(c) PROVE TypeInv'
  <2>1. faults < MaxFaults /\ faults' = faults + 1
    BY <1>14 DEF Crash, Fault
  <2>2. Typed
    BY <1>14, <2>1, LoopingType, AloneType DEF Crash, Idle
  <2>3. life' \in [Client -> 0 .. MaxFaults] /\ \A d \in Client : life'[d] <= faults'
    BY <1>14, <1>a, <2>1, FaultBound DEF Crash
  <2>4. handled' \in [Client -> SUBSET (1 .. MaxRound)]
    BY <1>14, <1>a DEF Crash
  <2> QED
    BY <1>14, <1>a, <2>2, <2>3, <2>4 DEF Crash, Typed, TypeInv, SecAggTypeOK
<1>15. ASSUME NEW m \in late, Arrive(m) PROVE TypeInv'
  <2>1. m \in Request
    BY DEF TypeInv, SecAggTypeOK
  <2>2. TypeOK' /\ roundId' = roundId /\ (phase' = "IDLE" <=> phase = "IDLE")
    BY <1>15, <2>1, AskType DEF Arrive, TypeInv, SecAggTypeOK
  <2> QED
    BY <1>15, <2>2 DEF Arrive, TypeInv, SecAggTypeOK, Working
<1>16. ASSUME NEW P \in SUBSET registered, NEW sigma \in Sigma, Start(P, sigma)
       PROVE  TypeInv'
  <2>1. Next
    BY <1>16 DEF Start, Next, TypeInv, SecAggTypeOK, TypeOK
  <2>2. roundId' = roundId + 1 /\ roundId' <= MaxRound
    BY <1>16, <1>a, MaxRoundAssumption DEF Start, StartRound
  <2> QED
    BY <1>16, <1>a, <2>1, <2>2, TypeStep DEF Start, TypeInv, SecAggTypeOK, Working
<1>17. ASSUME NEW c \in Client, Reap(c) PROVE TypeInv'
  <2>1. Next /\ roundId' = roundId /\ phase' = phase
    BY <1>17 DEF Reap, Unregister, Next
  <2> QED
    BY <1>17, <2>1, TypeStep DEF Reap, TypeInv, SecAggTypeOK, Working
<1>18. ASSUME CloseOnTimeout PROVE TypeInv'
  <2>1. Next /\ roundId' = roundId /\ phase # "IDLE"
    BY <1>18 DEF CloseOnTimeout, ForceCloseCollection, Next
  <2> QED
    BY <1>18, <2>1, TypeStep DEF CloseOnTimeout, TypeInv, SecAggTypeOK, Working
<1>19. ASSUME NEW drop \in BOOLEAN, Reset(drop) PROVE TypeInv'
  <2>1. Next /\ roundId' = roundId /\ phase' = "IDLE"
    BY <1>19 DEF Reset, ResetExperiment, Next
  <2>2. faults' \in 0 .. MaxFaults /\ faults' >= faults
    BY <1>19, <1>a, FaultBound DEF Reset, Fault
  <2> QED
    BY <1>19, <1>a, <2>1, <2>2, TypeStep DEF Reset, TypeInv, SecAggTypeOK, Working
<1>20. CASE UNCHANGED secAggVars
  <2>1. TypeOK'
    BY <1>20, TypeStep DEF secAggVars, server, TypeInv, SecAggTypeOK
  <2> QED
    BY <1>20, <2>1 DEF secAggVars, server, vars, TypeInv, SecAggTypeOK, Working
<1> QED
  BY <1>1, <1>2, <1>3, <1>4, <1>5, <1>6, <1>7, <1>8, <1>9, <1>10, <1>11, <1>12, <1>13,
     <1>14, <1>15, <1>16, <1>17, <1>18, <1>19, <1>20 DEF SecAggNext, ClientStep

(* The types hold at the start.                                            *)
LEMMA TypeInvInit == SecAggInit => TypeInv
<1> SUFFICES ASSUME SecAggInit PROVE TypeInv
  OBVIOUS
<1>1. TypeOK /\ roundId = 0 /\ phase = "IDLE"
  BY DEF SecAggInit, Init, TypeOK, Phase, Slot, Nothing, NoLedger
<1>2. Looping \in LocalState /\ Looping.pc \in Idle
  BY MaxRoundAssumption
  DEF Looping, LocalState, Place, Waiting, Idle, Slot, Nothing
<1> QED
  BY <1>1, <1>2, FaultBound, MaxRoundAssumption
  DEF SecAggInit, TypeInv, SecAggTypeOK, Working

(* Every variable of the coordinator and of the clients is well typed,     *)
(* and the requests that were given up on are too, whatever fails.         *)
THEOREM SecAggTypeCorrect == SecAggSpec => []SecAggTypeOK
<1>1. SecAggSpec => []TypeInv
  BY TypeInvInit, TypeInvStep, PTL DEF SecAggSpec
<1> QED
  BY <1>1, PTL DEF TypeInv
-----------------------------------------------------------------------------
(* What posting comes to when no request is late: the request is handled   *)
(* (and the answer may still be lost), or the client gives up.             *)
LEMMA PostNow ==
  ASSUME "late" \notin Failures, NEW c, NEW m, NEW after,
         m.kind # "reveal" \/ after = Looping, Post(c, m, after)
  PROVE  /\ late' = late
         /\ \/ Handle(m) /\ (Become(c, after) \/ Become(c, Looping))
            \/ UNCHANGED server /\ Become(c, Looping)
BY DEF Post, Fault, Raise, Ask, Repeated

(* What the server does with each of the four requests.                    *)
LEMMA KeysHandled == ASSUME NEW c, Handle(KeysRequest(c)) PROVE SubmitPubkeys(c, cl[c].key)
BY DEF Handle, KeysRequest

(* A request with sealed shares.                                           *)
LEMMA SharesHandled ==
  ASSUME NEW c, Handle(SharesRequest(c))
  PROVE  SubmitShares(c, Stored(cl[c].peers) \ {c}, cl[c].key)
BY DEF Handle, SharesRequest

(* A request with a masked vector.                                         *)
LEMMA MaskedHandled == ASSUME NEW c, Handle(MaskedRequest(c)) PROVE SubmitMasked(c, cl[c].key)
BY DEF Handle, MaskedRequest

(* A request with opened shares.                                           *)
LEMMA RevealHandled ==
  ASSUME NEW c, Handle(RevealRequest(c))
  PROVE  SubmitReveal(c, RevealRequest(c).b, RevealRequest(c).s)
BY DEF Handle, RevealRequest

(* A client whose upload the server takes in a phase after ADVERTISE_KEYS  *)
(* works on the current round: it could not have advertised otherwise.     *)
LEMMA TakenIsCurrent ==
  ASSUME TypeOK, RoundShape, NEW c \in participants, OneRound(c), Agreed(c), Working(c),
         cl[c].pc \notin {"advertise", "waitShare"}, phase \notin PreShare
  PROVE  Current(c) /\ pubkeys[c] = cl[c].key /\ pubkeys[c] # NoKey
<1>1. c \in Client /\ pubkeys[c] # NoKey
  BY DEF TypeOK, RoundShape, Stored, PreShare
<1>2. Current(c)
  BY <1>1 DEF OneRound, Current, Working, PreShare
<1> QED
  BY <1>1, <1>2 DEF Agreed

(* What a client opens is what Coordinator.tla lets it open: of shares it  *)
(* holds, those of survivors' seeds and of dropped clients' mask keys.     *)
LEMMA RevealAllowed ==
  ASSUME SecAggInv, NEW c \in participants, cl[c].pc = "reveal", phase = "UNMASK"
  PROVE  /\ c \in survivors
         /\ \E B \in SUBSET survivors, S \in SUBSET dropped :
              /\ RevealRequest(c).b = Opening(c, B)
              /\ RevealRequest(c).s = Opening(c, S)
<1>1. /\ c \in Client /\ TypeOK /\ RoundShape /\ Exchange /\ Working(c)
      /\ OneRound(c) /\ Agreed(c)
  BY DEF SecAggInv, TypeInv, SecAggTypeOK, TypeOK, ClientInv, Working, Idle
<1>2. Current(c) /\ pubkeys[c] = cl[c].key /\ pubkeys[c] \in Key
  BY <1>1, TakenIsCurrent DEF PreShare, TypeOK, Slot
<1>3. /\ cl[c].inbox = shareInbox[c] /\ masked[c] = cl[c].key
      /\ cl[c].survivors = survivors /\ cl[c].dropped = dropped
  BY <1>1, <1>2 DEF Agreed, HasInbox
<1>4. /\ survivors = Stored(masked) /\ dropped = participants \ survivors
      /\ survivors \subseteq Client /\ dropped \subseteq Client
  BY <1>1 DEF RoundShape, TypeOK
<1>5. c \in survivors
  BY <1>1, <1>2, <1>3, <1>4, KeyAssumption DEF Stored
<1>6. shareInbox[c] \in [Client -> Slot] /\ shareInbox[c][c] = NoKey
  BY <1>1 DEF Exchange, TypeOK
<1> DEFINE I == Stored(shareInbox[c])
           B == (I \cap survivors) \cup {c}
           S == I \cap dropped
<1>7. \A o \in I : o \in Client /\ o # c /\ shareInbox[c][o] \in Key
  BY <1>6 DEF Stored, Slot
<1>8. RevealRequest(c).b = Opening(c, B)
  <2>1. RevealRequest(c).b = {[owner |-> o, key |-> shareInbox[c][o]] : o \in I \cap survivors}
                               \cup {[owner |-> o, key |-> pubkeys[c]] : o \in {c}}
    BY <1>2, <1>3, <1>5 DEF RevealRequest, Opened
  <2>2. ASSUME NEW x \in RevealRequest(c).b PROVE x \in Opening(c, B)
    BY <1>2, <1>7, <2>1 DEF Opening, Held
  <2>3. ASSUME NEW x \in Opening(c, B) PROVE x \in RevealRequest(c).b
    <3>1. x.owner \in B /\ x = [owner |-> x.owner, key |-> Held(c, x.owner)]
      BY DEF Opening
    <3>2. CASE x.owner = c
      BY <2>1, <3>1, <3>2 DEF Held
    <3>3. CASE x.owner # c
      BY <2>1, <3>1, <3>3 DEF Held
    <3> QED
      BY <3>2, <3>3
  <2> QED
    BY <2>2, <2>3
<1>9. RevealRequest(c).s = Opening(c, S)
  <2>1. RevealRequest(c).s = {[owner |-> o, key |-> shareInbox[c][o]] : o \in S}
    <3>1. I \cap (dropped \ survivors) = S
      BY <1>4
    <3> QED
      BY <1>3, <3>1 DEF RevealRequest, Opened
  <2>2. ASSUME NEW x \in RevealRequest(c).s PROVE x \in Opening(c, S)
    BY <1>7, <2>1 DEF Opening, Held
  <2>3. ASSUME NEW x \in Opening(c, S) PROVE x \in RevealRequest(c).s
    <3>1. x.owner \in S /\ x = [owner |-> x.owner, key |-> Held(c, x.owner)]
      BY DEF Opening
    <3> QED
      BY <1>7, <2>1, <3>1 DEF Held
  <2> QED
    BY <2>2, <2>3
<1>10. B \in SUBSET survivors /\ S \in SUBSET dropped
  BY <1>5
<1> QED
  BY <1>5, <1>8, <1>9, <1>10

(* Every step does to the server what Coordinator.tla allows, or nothing.  *)
LEMMA ServerStep ==
  ASSUME "late" \notin Failures, SecAggInv, [SecAggNext]_secAggVars
  PROVE  [Next]_vars /\ late' = {}
<1>a. late = {} /\ TypeOK /\ \A c \in Client : Working(c) => cl[c].key \in Key
  BY DEF SecAggInv, TypeInv, SecAggTypeOK
<1>b. ASSUME UNCHANGED <<server, late>> PROVE [Next]_vars /\ late' = {}
  BY <1>a, <1>b DEF server
<1>1. ASSUME NEW c \in Client, Loop(c) \/ Reap(c) PROVE [Next]_vars /\ late' = {}
  BY <1>1, <1>a DEF Loop, Reap, Next
<1>2. ASSUME NEW c \in Client,
             \/ PollTimeout(c) \/ Notice(c) \/ Stale(c) \/ WaitShare(c) \/ WaitCollect(c)
             \/ FetchInbox(c) \/ WaitUnmask(c) \/ DropperLooks(c) \/ WaitDropped(c)
             \/ Timeout(c) \/ Crash(c) \/ Restart(c)
      PROVE  [Next]_vars /\ late' = {}
  BY <1>2, <1>b
  DEF PollTimeout, Notice, Stale, WaitShare, WaitCollect, FetchInbox, WaitUnmask,
      DropperLooks, WaitDropped, Timeout, Crash, Restart
<1>3. ASSUME NEW c \in Client, Advertise(c) PROVE [Next]_vars /\ late' = {}
  <2> DEFINE after == [cl[c] EXCEPT !.pc = "waitShare"]
  <2>1. Post(c, KeysRequest(c), after) /\ cl[c].key \in Key
    BY <1>3, <1>a DEF Advertise, At, Working, Idle
  <2>2. late' = late /\ (Handle(KeysRequest(c)) \/ UNCHANGED server)
    BY <2>1, PostNow DEF KeysRequest
  <2> QED
    BY <1>a, <2>1, <2>2, KeysHandled DEF Next, server
<1>4. ASSUME NEW c \in Client, ShareKeys(c) PROVE [Next]_vars /\ late' = {}
  <2> DEFINE after == [cl[c] EXCEPT !.pc = "waitCollect"]
             T == Stored(cl[c].peers) \ {c}
  <2>1. Post(c, SharesRequest(c), after) /\ cl[c].key \in Key
    BY <1>4, <1>a DEF ShareKeys, At, Working, Idle
  <2>2. late' = late /\ (Handle(SharesRequest(c)) \/ UNCHANGED server)
    BY <2>1, PostNow DEF SharesRequest
  <2>3. T \in SUBSET Client /\ T \ {c} = T
    BY DEF Stored
  <2>4. Handle(SharesRequest(c)) => SubmitShares(c, T \ {c}, cl[c].key)
    BY <2>3, SharesHandled
  <2> QED
    BY <1>a, <2>1, <2>2, <2>3, <2>4 DEF Next, server
<1>5. ASSUME NEW c \in Client, TrainAndMask(c) PROVE [Next]_vars /\ late' = {}
  <2> DEFINE after == [cl[c] EXCEPT !.pc = "waitUnmask"]
  <2>1. Post(c, MaskedRequest(c), after) /\ cl[c].key \in Key
    BY <1>5, <1>a DEF TrainAndMask, At, Working, Idle
  <2>2. late' = late /\ (Handle(MaskedRequest(c)) \/ UNCHANGED server)
    BY <2>1, PostNow DEF MaskedRequest
  <2> QED
    BY <1>a, <2>1, <2>2, MaskedHandled DEF Next, server
<1>6. ASSUME NEW c \in Client, Reveal(c) PROVE [Next]_vars /\ late' = {}
  <2>1. \/ Post(c, RevealRequest(c), Looping)
        \/ UNCHANGED <<server, late>>
    BY <1>6 DEF Reveal
  <2>2. ASSUME Post(c, RevealRequest(c), Looping) PROVE [Next]_vars /\ late' = {}
    <3>1. late' = late /\ (Handle(RevealRequest(c)) \/ UNCHANGED server)
      BY <2>2, PostNow
    <3>2. ASSUME Handle(RevealRequest(c)) PROVE Next
      <4>1. SubmitReveal(c, RevealRequest(c).b, RevealRequest(c).s)
        BY <3>2, RevealHandled
      <4>2. PICK B \in SUBSET survivors, S \in SUBSET dropped :
              /\ RevealRequest(c).b = Opening(c, B)
              /\ RevealRequest(c).s = Opening(c, S)
        BY <1>6, <4>1, RevealAllowed DEF SubmitReveal, Require, Reveal, At
      <4> QED
        BY <4>1, <4>2 DEF Next
    <3> QED
      BY <1>a, <3>1, <3>2 DEF server
  <2> QED
    BY <1>b, <2>1, <2>2
<1>7. ASSUME NEW c \in Client, DropperCloses(c) PROVE [Next]_vars /\ late' = {}
  BY <1>7, <1>a DEF DropperCloses, Next, server
<1>8. ASSUME NEW m \in late, Arrive(m) PROVE FALSE
  BY <1>a
<1>9. ASSUME NEW P \in SUBSET registered, NEW sigma \in Sigma, Start(P, sigma)
      PROVE  [Next]_vars /\ late' = {}
  BY <1>9, <1>a DEF Start, Next, TypeOK
<1>10. ASSUME CloseOnTimeout PROVE [Next]_vars /\ late' = {}
  BY <1>10, <1>a DEF CloseOnTimeout, Next
<1>11. ASSUME NEW drop \in BOOLEAN, Reset(drop) PROVE [Next]_vars /\ late' = {}
  BY <1>11, <1>a DEF Reset, Next
<1>12. CASE UNCHANGED secAggVars
  BY <1>12, <1>b DEF secAggVars
<1> QED
  BY <1>1, <1>2, <1>3, <1>4, <1>5, <1>6, <1>7, <1>8, <1>9, <1>10, <1>11, <1>12
  DEF SecAggNext, ClientStep
-----------------------------------------------------------------------------
(* What a server step looks like to a client that did not make it: either  *)
(* a new round or a reset, or the round only moves on.                     *)
Onward(d) ==
  /\ roundId' = roundId /\ participants' = participants
  /\ phase' = "IDLE" <=> phase = "IDLE"
  /\ pubkeys'[d] = pubkeys[d] /\ masked'[d] = masked[d]
  /\ phase \notin PreShare => phase' \notin PreShare /\ pubkeys' = pubkeys
  /\ phase \in Collecting => phase' \in Collecting /\ shareInbox' = shareInbox
  /\ phase \in Closed => /\ phase' \in Closed
                         /\ survivors' = survivors /\ dropped' = dropped

Anew ==
  /\ \/ phase' = "IDLE" /\ roundId' = roundId
     \/ phase' = "ADVERTISE_KEYS" /\ roundId' = roundId + 1
  /\ pubkeys' = Nothing /\ masked' = Nothing
  /\ shareInbox' = [c \in Client |-> Nothing]
  /\ survivors' = {} /\ revealed' = {} /\ bPool' = {} /\ sPool' = {}

(* The server steps that move a round onward whoever they are for.         *)
LEMMA OnwardSteps ==
  /\ \A d : UNCHANGED server => Onward(d)
  /\ \A c, d : Register(c) \/ Unregister(c) => Onward(d)
  /\ \A d : ForceCloseCollection => Onward(d)
  /\ \A c, T, k, d : SubmitShares(c, T, k) => Onward(d)
  /\ \A c, b, s, d : SubmitReveal(c, b, s) => Onward(d)
<1> USE DEF Onward, PreShare, Collecting, Closed
<1>1. \A d : UNCHANGED server => Onward(d)
  BY DEF server, vars, roundVars
<1>2. \A c, d : Register(c) \/ Unregister(c) => Onward(d)
  BY DEF Register, Unregister, roundVars
<1>3. \A d : ForceCloseCollection => Onward(d)
  BY DEF ForceCloseCollection, CloseCollection
<1>4. \A c, T, k, d : SubmitShares(c, T, k) => Onward(d)
  BY DEF SubmitShares, Require
<1>5. \A c, b, s, d : SubmitReveal(c, b, s) => Onward(d)
  BY DEF SubmitReveal, Require, Aggregate
<1> QED
  BY <1>1, <1>2, <1>3, <1>4, <1>5

(* An upload of one client moves the round onward for the others.          *)
LEMMA OnwardUploads ==
  ASSUME TypeOK, NEW c \in Client, NEW k, NEW d \in Client \ {c},
         SubmitPubkeys(c, k) \/ SubmitMasked(c, k)
  PROVE  Onward(d)
<1> USE DEF Onward, PreShare, Collecting, Closed
<1>1. CASE SubmitPubkeys(c, k)
  BY <1>1 DEF SubmitPubkeys, Require, TypeOK
<1>2. CASE SubmitMasked(c, k)
  BY <1>2 DEF SubmitMasked, Require, CloseCollection, TypeOK
<1> QED
  BY <1>1, <1>2

(* A start and a reset begin anew.                                         *)
LEMMA AnewSteps ==
  /\ \A P, sigma : StartRound(P, sigma) => Anew
  /\ \A drop : ResetExperiment(drop) => Anew
BY DEF Anew, StartRound, ResetExperiment, ResetRoundState

(* What a client relies on survives the steps of the others.               *)
LEMMA ClientKept ==
  ASSUME TypeInv, NEW d \in Client, ClientInv(d), Onward(d) \/ Anew,
         cl'[d] = cl[d], handled'[d] = handled[d], life'[d] = life[d],
         book \subseteq book'
  PROVE  ClientInv(d)'
<1>1. roundId \in Nat /\ roundId' \in Nat /\ roundId' >= roundId
  BY DEF Onward, Anew, TypeInv, SecAggTypeOK, TypeOK
<1>2. OwnKey(d)'
  <2>1. Working(d) => cl[d].rid \in Nat
    BY MaxRoundAssumption DEF TypeInv, SecAggTypeOK, LocalState
  <2>2. Working(d)' => /\ cl'[d].key = <<d, cl'[d].rid, life'[d]>>
                       /\ cl'[d].rid \in handled'[d]
                       /\ cl[d].rid <= roundId
    BY DEF OwnKey, Working, ClientInv
  <2>3. Working(d)' => cl'[d].rid <= roundId'
    BY <1>1, <2>1, <2>2 DEF Working
  <2> QED
    BY <2>2, <2>3 DEF OwnKey
<1>3. Shared(d)'
  BY DEF Shared, ClientInv
<1>4. InboxOpens(d)'
  BY DEF InboxOpens, ClientInv, Stored
<1>5. CASE Onward(d)
  <2>1. OneRound(d)'
    BY <1>5 DEF OneRound, Onward, ClientInv
  <2>2. Agreed(d)'
    BY <1>5 DEF Agreed, Onward, ClientInv, Current, Working
  <2> QED
    BY <1>2, <1>3, <1>4, <2>1, <2>2 DEF ClientInv
<1>6. CASE Anew
  <2>1. OneRound(d)'
    BY <1>6 DEF OneRound, Anew, Nothing
  <2>2. ~Current(d)'
    BY <1>1, <1>6 DEF Anew, Current, Working, OwnKey, ClientInv, TypeInv, SecAggTypeOK,
                      LocalState
  <2>3. Agreed(d)'
    BY <2>2 DEF Agreed
  <2> QED
    BY <1>2, <1>3, <1>4, <2>1, <2>3 DEF ClientInv
<1> QED
  BY <1>5, <1>6

(* A client that gives up relies on nothing.                               *)
LEMMA ClientIdle ==
  ASSUME NEW d \in Client, cl'[d].pc \in Idle,
         pubkeys'[d] # NoKey => pubkeys'[d][1] = d
  PROVE  ClientInv(d)'
BY DEF ClientInv, OwnKey, OneRound, Agreed, Shared, InboxOpens, Current, Working, Idle,
       Early, Unshared, HasInbox

-----------------------------------------------------------------------------
(* What the server holds, step by step.                                    *)
Holdings == Exchange /\ Vectors /\ Pools /\ Reports

(* A client's binding lasts as long as the keys and the round do.          *)
LEMMA BoundKept ==
  ASSUME NEW o, Bound(o), UNCHANGED <<pubkeys, roundId, participants>>, book \subseteq book'
  PROVE  Bound(o)'
BY DEF Bound

(* What the server holds survives a step that leaves it alone.             *)
LEMMA HoldingsAlone ==
  ASSUME Holdings, book \subseteq book',
         UNCHANGED server \/ (\E c : Register(c) \/ Unregister(c))
  PROVE  Holdings'
<1>1. UNCHANGED <<roundId, phase, participants, pubkeys, shareInbox, masked, survivors,
                  bPool, sPool, revealed>>
  BY DEF server, vars, roundVars, Register, Unregister
<1>2. Exchange'
  BY <1>1, BoundKept DEF Exchange, Holdings
<1>3. Vectors'
  BY <1>1, BoundKept DEF Vectors, Holdings
<1> QED
  BY <1>1, <1>2, <1>3 DEF Holdings, Pools, Reports

(* A round that begins anew holds nothing.                                 *)
LEMMA HoldingsAnew == ASSUME Anew PROVE Holdings'
BY DEF Anew, Holdings, Exchange, Vectors, Pools, Reports, Nothing

(* No share and no vector is held while keys are collected.                *)
LEMMA HoldingsKeys ==
  ASSUME TypeOK, RoundShape, Holdings, NEW c \in Client, NEW k \in Key,
         SubmitPubkeys(c, k)
  PROVE  Holdings'
<1>1. /\ phase = "ADVERTISE_KEYS" /\ phase' \in {"ADVERTISE_KEYS", "SHARE_KEYS"}
      /\ UNCHANGED <<shareInbox, masked, survivors, bPool, sPool, revealed>>
  BY DEF SubmitPubkeys, Require
<1>2. /\ \A t, o \in Client : shareInbox[t][o] = NoKey
      /\ \A o \in Client : masked[o] = NoKey
      /\ bPool = {} /\ sPool = {}
  BY <1>1 DEF Holdings, Exchange, Vectors, PreShare, RoundShape
<1> QED
  BY <1>1, <1>2 DEF Holdings, Exchange, Vectors, Pools, Reports

(* A client shares with every other participant the key the server has of  *)
(* it, having seen exactly the keys the server holds.                      *)
LEMMA HoldingsShares ==
  ASSUME TypeOK, RoundShape, Holdings, book \subseteq book', NEW c \in Client,
         NEW T \in SUBSET participants, c \notin T,
         SubmitShares(c, T, pubkeys[c]), pubkeys[c] \in Key,
         pubkeys[c][2] = roundId,
         \E e \in book' : /\ e.key = pubkeys[c] /\ e.peers = pubkeys
                          /\ e.parts = participants
  PROVE  Holdings'
<1>1. /\ phase = "SHARE_KEYS" /\ phase' \in {"SHARE_KEYS", "COLLECT"}
      /\ UNCHANGED <<roundId, participants, pubkeys, masked, survivors, bPool, sPool,
                     revealed>>
      /\ shareInbox' = [t \in Client |->
                          IF t \in T THEN [shareInbox[t] EXCEPT ![c] = pubkeys[c]]
                                     ELSE shareInbox[t]]
  BY DEF SubmitShares, Require
<1>2. Bound(c)'
  BY <1>1 DEF Bound
<1>3. shareInbox \in [Client -> [Client -> Slot]]
  BY DEF TypeOK
<1>4. ASSUME NEW t \in Client, NEW o \in Client, shareInbox'[t][o] # NoKey
      PROVE  /\ phase' \notin PreShare /\ t \in participants' /\ t # o
             /\ shareInbox'[t][o] = pubkeys'[o] /\ Bound(o)'
  <2>1. CASE t \in T /\ o = c
    BY <1>1, <1>2, <1>3, <2>1 DEF PreShare
  <2>2. CASE ~(t \in T /\ o = c)
    <3>1. shareInbox'[t][o] = shareInbox[t][o]
      BY <1>1, <1>3, <2>2
    <3>2. /\ t \in participants /\ t # o
          /\ shareInbox[t][o] = pubkeys[o] /\ Bound(o)
      BY <1>4, <3>1 DEF Holdings, Exchange
    <3> QED
      BY <1>1, <3>1, <3>2, BoundKept DEF PreShare
  <2> QED
    BY <2>1, <2>2
<1>5. Exchange'
  BY <1>4 DEF Exchange
<1>6. Vectors'
  BY <1>1, BoundKept DEF Vectors, Holdings, PreShare
<1> QED
  BY <1>1, <1>5, <1>6 DEF Holdings, Pools, Reports

(* A client masks with the key the server has of it.                       *)
LEMMA HoldingsMasked ==
  ASSUME TypeOK, RoundShape, Holdings, book' = book, NEW c \in Client,
         SubmitMasked(c, pubkeys[c]), pubkeys[c] \in Key, Bound(c)
  PROVE  Holdings'
<1>1. /\ phase = "COLLECT" /\ phase' \in {"COLLECT", "UNMASK"}
      /\ UNCHANGED <<roundId, participants, pubkeys, shareInbox, bPool, sPool, revealed>>
      /\ masked' = [masked EXCEPT ![c] = pubkeys[c]]
  BY DEF SubmitMasked, Require, CloseCollection
<1>2. Exchange'
  BY <1>1, BoundKept DEF Exchange, Holdings, PreShare
<1>3. Vectors'
  <2>1. masked \in [Client -> Slot]
    BY DEF TypeOK
  <2>2. \A o \in Client : Bound(o) => Bound(o)'
    BY <1>1, BoundKept
  <2> QED
    BY <1>1, <2>1, <2>2 DEF Vectors, Holdings, PreShare
<1>4. revealed = {} /\ bPool = {} /\ sPool = {}
  BY <1>1 DEF RoundShape, Holdings, Reports
<1> QED
  BY <1>1, <1>2, <1>3, <1>4 DEF Holdings, Pools, Reports

(* Closing the collection keeps what the server holds explained.           *)
LEMMA HoldingsClosed ==
  ASSUME RoundShape, Holdings, book' = book, ForceCloseCollection
  PROVE  Holdings'
<1>1. /\ phase = "COLLECT" /\ phase' = "UNMASK"
      /\ UNCHANGED <<roundId, participants, pubkeys, shareInbox, masked, bPool, sPool,
                     revealed>>
  BY DEF ForceCloseCollection, CloseCollection
<1>2. Exchange'
  BY <1>1, BoundKept DEF Exchange, Holdings, PreShare
<1>3. Vectors'
  BY <1>1, BoundKept DEF Vectors, Holdings, PreShare
<1>4. revealed = {} /\ bPool = {} /\ sPool = {}
  BY <1>1 DEF RoundShape, Holdings, Reports
<1> QED
  BY <1>1, <1>2, <1>3, <1>4 DEF Holdings, Pools, Reports

(* A survivor reveals; what it opens belongs to the keys the server has,   *)
(* and the round is over only when every survivor has.                     *)
LEMMA HoldingsReveal ==
  ASSUME TypeOK, RoundShape, Holdings, book' = book,
         NEW c \in survivors, NEW B \in SUBSET survivors, NEW S \in SUBSET dropped,
         SubmitReveal(c, Opening(c, B), Opening(c, S))
  PROVE  Holdings'
<1>1. /\ phase = "UNMASK" /\ phase' \in Closed
      /\ revealed' = revealed \cup {c}
      /\ bPool' = bPool \cup {[owner |-> x.owner, holder |-> c, key |-> x.key]
                                : x \in Opening(c, B)}
      /\ sPool' = sPool \cup {[owner |-> x.owner, holder |-> c, key |-> x.key]
                                : x \in Opening(c, S)}
      /\ phase' # "UNMASK" => ReadyToAggregate
      /\ UNCHANGED <<roundId, participants, pubkeys, shareInbox, masked, survivors,
                     dropped>>
  BY DEF SubmitReveal, Require, Aggregate, Closed
<1>2. Exchange'
  BY <1>1, BoundKept DEF Exchange, Holdings, PreShare, Closed
<1>3. Vectors'
  BY <1>1, BoundKept DEF Vectors, Holdings, PreShare, Closed
<1>4. Pools'
  <2>1. c \in Client /\ B \subseteq Client /\ S \subseteq Client
    BY DEF TypeOK
  <2>2. ASSUME NEW O \in SUBSET Client, NEW x \in Opening(c, O)
        PROVE  x.key = pubkeys[x.owner]
    <3>1. x.owner \in Client /\ x.key \in Key /\ x.key = Held(c, x.owner)
      BY DEF Opening
    <3> QED
      BY <2>1, <3>1, KeyAssumption DEF Held, Holdings, Exchange
  <2>3. \A s \in bPool' \cup sPool' : s.key = pubkeys[s.owner]
    BY <1>1, <2>1, <2>2 DEF Holdings, Pools
  <2> QED
    BY <1>1, <2>3 DEF Pools
<1>5. revealed' \subseteq survivors'
  BY <1>1 DEF Holdings, Reports
<1>6. ASSUME phase' = "DONE" PROVE revealed' = survivors'
  <2>1. Cardinality(revealed') = Cardinality(survivors)
    BY <1>1, <1>6 DEF ReadyToAggregate
  <2> QED
    BY <1>1, <1>5, <2>1, AllOfThem DEF TypeOK
<1> QED
  BY <1>2, <1>3, <1>4, <1>5, <1>6 DEF Holdings, Reports

-----------------------------------------------------------------------------
(* A process only grows older: a later life, or more rounds handled.       *)
Older(d) ==
  \/ life'[d] > life[d]
  \/ life'[d] = life[d] /\ handled[d] \subseteq handled'[d]

Unique(d) ==
  cl[d].pc \in Unshared \ Idle => \A e \in book : e.key # cl[d].key

(* An instance that made its shares once keeps doing so as lives grow.     *)
LEMMA BookKept ==
  ASSUME TypeInv, TypeInv', BookOnce, book' = book, \A d \in Client : Older(d) /\ Unique(d)'
  PROVE  BookOnce'
<1>1. \A e \in book : e.key[1] \in Client /\ e.key[3] \in Nat
  BY Instances, FaultBound DEF TypeInv, SecAggTypeOK
<1>2. \A d \in Client : life[d] \in Nat /\ life'[d] \in Nat
  BY FaultBound DEF TypeInv, SecAggTypeOK
<1>3. ASSUME NEW e \in book'
      PROVE  \/ e.key[3] < life'[e.key[1]]
             \/ e.key[3] = life'[e.key[1]] /\ e.key[2] \in handled'[e.key[1]]
  <2>1. /\ e.key[1] \in Client /\ e.key[3] \in Nat
        /\ life[e.key[1]] \in Nat /\ life'[e.key[1]] \in Nat
        /\ \/ life'[e.key[1]] > life[e.key[1]]
           \/ /\ life'[e.key[1]] = life[e.key[1]]
              /\ handled[e.key[1]] \subseteq handled'[e.key[1]]
    BY <1>1, <1>2 DEF Older
  <2>2. \/ e.key[3] < life[e.key[1]]
        \/ e.key[3] = life[e.key[1]] /\ e.key[2] \in handled[e.key[1]]
    BY DEF BookOnce
  <2>3. CASE life'[e.key[1]] = life[e.key[1]]
    BY <2>1, <2>2, <2>3
  <2>4. CASE life'[e.key[1]] > life[e.key[1]] /\ life'[e.key[1]] \in Nat
    BY <2>1, <2>2, <2>4
  <2> QED
    BY <2>1, <2>3, <2>4
<1>4. \A e, f \in book' : e.key = f.key => e = f
  BY DEF BookOnce
<1>5. \A d \in Client : cl'[d].pc \in Unshared \ Idle => \A e \in book' : e.key # cl'[d].key
  BY DEF Unique
<1> QED
  BY <1>3, <1>4, <1>5 DEF BookOnce

(* The invariant after a step, put together from its parts.                *)
LEMMA Assemble ==
  ASSUME SecAggInv, TypeInv', RoundShape', late' = {}, book' = book, Holdings',
         \A d \in Client : ClientInv(d)' /\ Older(d) /\ Unique(d)'
  PROVE  SecAggInv'
<1>1. BookOnce'
  BY BookKept DEF SecAggInv
<1> QED
  BY <1>1 DEF SecAggInv, Holdings

Kept(d) == cl'[d] = cl[d] /\ handled'[d] = handled[d] /\ life'[d] = life[d]

(* A client that does not move keeps its part of the invariant.            *)
LEMMA KeptStays ==
  ASSUME SecAggInv, NEW d \in Client, Kept(d), Onward(d) \/ Anew, book' = book
  PROVE  ClientInv(d)' /\ Older(d) /\ Unique(d)'
<1>1. TypeInv /\ ClientInv(d)
  BY DEF SecAggInv
<1>2. ClientInv(d)'
  BY <1>1, ClientKept DEF Kept
<1>3. Older(d) /\ Unique(d)'
  BY DEF Older, Unique, Kept, SecAggInv, BookOnce
<1> QED
  BY <1>2, <1>3

(* One client acts.                                                        *)
LEMMA OneActs ==
  ASSUME SecAggInv, TypeInv', RoundShape', late' = {}, book' = book, Holdings',
         NEW c \in Client, \A d \in Client \ {c} : Kept(d) /\ Onward(d),
         ClientInv(c)', Older(c), Unique(c)'
  PROVE  SecAggInv'
<1>1. \A d \in Client : ClientInv(d)' /\ Older(d) /\ Unique(d)'
  BY KeptStays
<1> QED
  BY <1>1, Assemble

(* One client gives up, or ends a round: it relies on nothing any more.    *)
LEMMA OneIdles ==
  ASSUME SecAggInv, TypeInv', RoundShape', late' = {}, book' = book, Holdings',
         NEW c \in Client, \A d \in Client \ {c} : Kept(d) /\ Onward(d),
         cl'[c].pc \in Idle, Older(c), pubkeys'[c] # NoKey => pubkeys'[c][1] = c
  PROVE  SecAggInv'
<1>1. ClientInv(c)'
  BY ClientIdle
<1>2. Unique(c)'
  BY DEF Unique
<1> QED
  BY <1>1, <1>2, OneActs

(* Only the server acts.                                                   *)
LEMMA ServerActs ==
  ASSUME SecAggInv, TypeInv', RoundShape', late' = {}, Holdings',
         UNCHANGED <<cl, handled, life, book>>, \A d \in Client : Onward(d) \/ Anew
  PROVE  SecAggInv'
<1>1. \A d \in Client : ClientInv(d)' /\ Older(d) /\ Unique(d)'
  BY KeptStays DEF Kept
<1> QED
  BY <1>1, Assemble

(* A client that becomes s leaves the others as they were.                 *)
LEMMA BecomeKept ==
  ASSUME TypeInv, NEW c \in Client, NEW s, Become(c, s), UNCHANGED <<handled, life>>
  PROVE  cl'[c] = s /\ Older(c) /\ \A d \in Client \ {c} : Kept(d)
BY DEF TypeInv, SecAggTypeOK, Become, Older, Kept

(* A client goes on with what it knows.                                    *)
LEMMA GoOnKept ==
  ASSUME TypeInv, NEW c \in Client, NEW q \in Place, ClientInv(c), Onward(c),
         cl'[c] = [cl[c] EXCEPT !.pc = q], handled'[c] = handled[c], life'[c] = life[c],
         book \subseteq book', cl[c].pc \notin Unshared, q \notin Unshared,
         q \notin {"waitUnmask", "reveal"},
         q \in HasInbox => cl[c].pc \in HasInbox,
         q = "fetch" => phase' \in Collecting
  PROVE  ClientInv(c)'
<1>1. /\ cl'[c].pc = q /\ cl'[c].rid = cl[c].rid /\ cl'[c].key = cl[c].key
      /\ cl'[c].parts = cl[c].parts /\ cl'[c].peers = cl[c].peers
      /\ cl'[c].inbox = cl[c].inbox
  BY DEF TypeInv, SecAggTypeOK, LocalState
<1>2. Working(c) /\ Working(c)' /\ cl[c].pc \notin Early /\ cl[c].pc # "advertise"
  BY <1>1 DEF Working, Unshared, Early, Idle
<1>3. OwnKey(c)'
  BY <1>1, <1>2 DEF ClientInv, OwnKey, Onward
<1>4. OneRound(c)'
  BY <1>1 DEF ClientInv, OneRound, Onward, Unshared, Early
<1>5. Shared(c)'
  BY <1>1 DEF ClientInv, Shared
<1>6. InboxOpens(c)'
  BY <1>1 DEF ClientInv, InboxOpens, Stored
<1>7. ASSUME Current(c)' PROVE Current(c)
  BY <1>1, <1>2, <1>7 DEF Current, Onward
<1>8. Agreed(c)'
  BY <1>1, <1>2, <1>7 DEF ClientInv, Agreed, Onward, Unshared, Early, Idle, HasInbox
<1> QED
  BY <1>3, <1>4, <1>5, <1>6, <1>8 DEF ClientInv

-----------------------------------------------------------------------------
(* The steps that matter to the invariant, one lemma each.                 *)
LEMMA GivesUp ==
  ASSUME SecAggInv, TypeInv', RoundShape', late' = {}, NEW c \in Client,
         UNCHANGED server \/ Register(c), book' = book,
         cl'[c].pc \in Idle, Older(c), \A d \in Client \ {c} : Kept(d)
  PROVE  SecAggInv'
<1>1. Holdings'
  BY HoldingsAlone DEF SecAggInv, Holdings
<1>2. \A d \in Client : Onward(d)
  BY OnwardSteps
<1>3. pubkeys'[c] # NoKey => pubkeys'[c][1] = c
  BY <1>2 DEF Onward, SecAggInv, ClientInv, OneRound
<1> QED
  BY <1>1, <1>2, <1>3, OneIdles

(* Noticing a round keeps the invariant.                                   *)
LEMMA InvNotice ==
  ASSUME SecAggInv, TypeInv', RoundShape', late' = {}, NEW c \in Client, Notice(c)
  PROVE  SecAggInv'
<1> DEFINE new == Noticing(roundId, <<c, roundId, life[c]>>, participants)
<1>1. /\ UNCHANGED <<server, life, book>> /\ phase = "ADVERTISE_KEYS"
      /\ handled' = [handled EXCEPT ![c] = @ \cup {roundId}]
      /\ Become(c, Looping) \/ (/\ Become(c, new)
                                /\ roundId \notin handled[c] /\ c \in participants)
  BY DEF Notice, Noticing
<1>2. /\ handled'[c] = handled[c] \cup {roundId} /\ life'[c] = life[c] /\ Older(c)
      /\ \A d \in Client \ {c} : Kept(d)
  BY <1>1 DEF SecAggInv, TypeInv, SecAggTypeOK, Become, Kept, Older
<1>3. CASE Become(c, Looping)
  <2>1. cl'[c].pc \in Idle
    BY <1>3 DEF Become, Looping, Idle, SecAggInv, TypeInv, SecAggTypeOK
  <2> QED
    BY <1>1, <1>2, <2>1, GivesUp
<1>4. CASE Become(c, new) /\ roundId \notin handled[c] /\ c \in participants
  <2>1. roundId \in 0 .. MaxRound /\ participants \in SUBSET Client
    BY MaxRoundAssumption DEF SecAggInv, TypeInv, SecAggTypeOK, TypeOK
  <2>2. roundId \in 1 .. MaxRound /\ life[c] \in 0 .. MaxFaults
    BY <1>1, <2>1 DEF SecAggInv, TypeInv, SecAggTypeOK
  <2>3. <<c, roundId, life[c]>> \in Key
    BY <2>2, Instances
  <2>4. /\ cl'[c].pc = "advertise" /\ cl'[c].rid = roundId
        /\ cl'[c].key = <<c, roundId, life[c]>> /\ cl'[c].parts = participants
    BY <1>4, <2>1, <2>3, RoundNoticed DEF Become, SecAggInv, TypeInv, SecAggTypeOK
  <2>5. /\ roundId' = roundId /\ phase' = phase /\ participants' = participants
        /\ pubkeys' = pubkeys
    BY <1>1 DEF server, vars, roundVars
  <2>6. OwnKey(c)'
    BY <1>2, <2>1, <2>4, <2>5 DEF OwnKey
  <2>7. OneRound(c)'
    BY <2>4, <2>5 DEF OneRound, SecAggInv, ClientInv
  <2>8. Agreed(c)'
    BY <1>4, <2>4, <2>5 DEF Agreed, Early, HasInbox
  <2>9. Shared(c)' /\ InboxOpens(c)'
    BY <2>4 DEF Shared, InboxOpens, Unshared, Early, HasInbox
  <2>10. Unique(c)'
    <3>1. ASSUME NEW e \in book, e.key = <<c, roundId, life[c]>> PROVE FALSE
      <4>1. e.key[1] = c /\ e.key[2] = roundId /\ e.key[3] = life[c]
        BY <3>1
      <4> QED
        BY <1>4, <2>2, <4>1 DEF SecAggInv, BookOnce
    <3> QED
      BY <1>1, <2>4, <3>1 DEF Unique
  <2>11. Holdings' /\ \A d \in Client : Onward(d)
    BY <1>1, HoldingsAlone, OnwardSteps DEF SecAggInv, Holdings
  <2> QED
    BY <1>1, <1>2, <2>6, <2>7, <2>8, <2>9, <2>10, <2>11, OneActs DEF ClientInv
<1> QED
  BY <1>1, <1>3, <1>4

(* Advertising keys keeps the invariant.                                   *)
LEMMA InvAdvertise ==
  ASSUME "late" \notin Failures, SecAggInv, TypeInv', RoundShape', late' = {},
         NEW c \in Client, Advertise(c)
  PROVE  SecAggInv'
<1> DEFINE after == [cl[c] EXCEPT !.pc = "waitShare"]
<1>1. /\ Post(c, KeysRequest(c), after) /\ cl[c].pc = "advertise"
      /\ UNCHANGED <<handled, life, book>>
  BY DEF Advertise, At
<1>2. \/ Handle(KeysRequest(c)) /\ (Become(c, after) \/ Become(c, Looping))
      \/ UNCHANGED server /\ Become(c, Looping)
  BY <1>1, PostNow DEF KeysRequest
<1>3. TypeInv /\ TypeOK /\ RoundShape /\ Holdings /\ ClientInv(c)
  BY DEF SecAggInv, TypeInv, SecAggTypeOK, Holdings
<1>4. /\ cl[c].key = <<c, cl[c].rid, life[c]>> /\ cl[c].key \in Key
      /\ cl[c] \in LocalState /\ Working(c)
  BY <1>1, <1>3 DEF ClientInv, OwnKey, Working, Idle, TypeInv, SecAggTypeOK
<1>5. CASE UNCHANGED server /\ Become(c, Looping)
  BY <1>1, <1>3, <1>5, BecomeKept, GivesUp DEF Looping, Idle
<1>6. CASE Handle(KeysRequest(c)) /\ (Become(c, after) \/ Become(c, Looping))
  <2>1. SubmitPubkeys(c, cl[c].key)
    BY <1>6, KeysHandled
  <2>2. Holdings' /\ \A d \in Client \ {c} : Onward(d)
    BY <1>3, <1>4, <2>1, HoldingsKeys, OnwardUploads
  <2>3. /\ pubkeys'[c] = cl[c].key /\ pubkeys'[c][1] = c
        /\ roundId' = roundId /\ participants' = participants /\ phase = "ADVERTISE_KEYS"
        /\ c \in participants
    BY <1>3, <1>4, <2>1 DEF SubmitPubkeys, Require, TypeOK
  <2>4. CASE Become(c, Looping)
    BY <1>1, <1>3, <2>2, <2>3, <2>4, BecomeKept, OneIdles DEF Looping, Idle
  <2>5. CASE Become(c, after)
    <3>1. /\ cl'[c] = after /\ Older(c) /\ \A d \in Client \ {c} : Kept(d)
      BY <1>1, <1>3, <2>5, BecomeKept
    <3>2. /\ cl'[c].pc = "waitShare" /\ cl'[c].rid = cl[c].rid
          /\ cl'[c].key = cl[c].key /\ cl'[c].parts = cl[c].parts
      BY <1>4, <3>1 DEF LocalState
    <3>3. OwnKey(c)' /\ OneRound(c)'
      BY <1>1, <1>3, <1>4, <2>3, <3>2 DEF ClientInv, OwnKey, OneRound
    <3>4. Agreed(c)'
      <4>1. Current(c)' => Current(c)
        BY <1>4, <2>3, <3>2 DEF Current
      <4> QED
        BY <1>3, <2>3, <3>2, <4>1 DEF ClientInv, Agreed, Early, HasInbox
    <3>5. Shared(c)' /\ InboxOpens(c)'
      BY <3>2 DEF Shared, InboxOpens, Unshared, Early, HasInbox
    <3>6. Unique(c)'
      BY <1>1, <3>2 DEF Unique, SecAggInv, BookOnce, Unshared, Early, Idle
    <3> QED
      BY <1>1, <2>2, <3>1, <3>3, <3>4, <3>5, <3>6, OneActs DEF ClientInv
  <2> QED
    BY <1>6, <2>4, <2>5
<1> QED
  BY <1>2, <1>5, <1>6

(* Reading the peers' keys keeps the invariant.                            *)
LEMMA InvWaitShare ==
  ASSUME SecAggInv, TypeInv', RoundShape', late' = {}, NEW c \in Client, WaitShare(c)
  PROVE  SecAggInv'
<1>1. /\ Become(c, WithPeers(cl[c], pubkeys)) /\ cl[c].pc = "waitShare"
      /\ cl[c].rid = roundId /\ phase = "SHARE_KEYS"
      /\ UNCHANGED <<server, handled, life, book>>
  BY DEF WaitShare, SeePhase, At, WithPeers
<1>2. TypeInv /\ ClientInv(c) /\ cl[c] \in LocalState /\ pubkeys \in [Client -> Slot]
  BY DEF SecAggInv, TypeInv, SecAggTypeOK, TypeOK
<1>3. cl'[c] = WithPeers(cl[c], pubkeys) /\ Older(c) /\ \A d \in Client \ {c} : Kept(d)
  BY <1>1, <1>2, BecomeKept
<1>4. /\ cl'[c].pc = "share" /\ cl'[c].peers = pubkeys /\ cl'[c].rid = cl[c].rid
      /\ cl'[c].key = cl[c].key /\ cl'[c].parts = cl[c].parts
  BY <1>2, <1>3, PeersRead
<1>5. /\ roundId' = roundId /\ phase' = phase /\ participants' = participants
      /\ pubkeys' = pubkeys /\ handled' = handled /\ life' = life
  BY <1>1 DEF server, vars, roundVars
<1>6. Current(c)
  BY <1>1 DEF Current, Working, Idle
<1>7. OwnKey(c)' /\ OneRound(c)'
  BY <1>1, <1>2, <1>4, <1>5, <1>6 DEF ClientInv, OwnKey, OneRound, Current
<1>8. Agreed(c)'
  BY <1>1, <1>2, <1>4, <1>5, <1>6
  DEF ClientInv, Agreed, Early, Idle, HasInbox, PreShare
<1>9. Shared(c)' /\ InboxOpens(c)'
  BY <1>4 DEF Shared, InboxOpens, Unshared, Early, HasInbox
<1>10. Unique(c)'
  BY <1>1, <1>4 DEF Unique, SecAggInv, BookOnce, Unshared, Early, Idle
<1>11. Holdings' /\ \A d \in Client : Onward(d)
  BY <1>1, HoldingsAlone, OnwardSteps DEF SecAggInv, Holdings
<1> QED
  BY <1>1, <1>3, <1>7, <1>8, <1>9, <1>10, <1>11, OneActs DEF ClientInv

(* Sharing the keys keeps the invariant.                                   *)
LEMMA InvShareKeys ==
  ASSUME "late" \notin Failures, SecAggInv, TypeInv', RoundShape', late' = {},
         NEW c \in Client, ShareKeys(c)
  PROVE  SecAggInv'
<1> DEFINE after == [cl[c] EXCEPT !.pc = "waitCollect"]
           entry == [key |-> cl[c].key, peers |-> cl[c].peers, parts |-> cl[c].parts]
           T == Stored(cl[c].peers) \ {c}
<1>1. /\ Post(c, SharesRequest(c), after) /\ cl[c].pc = "share"
      /\ book' = book \cup {entry} /\ UNCHANGED <<handled, life>>
  BY DEF ShareKeys, At
<1>2. \/ /\ SubmitShares(c, T, cl[c].key)
         /\ Become(c, after) \/ Become(c, Looping)
      \/ UNCHANGED server /\ Become(c, Looping)
  <2>1. SharesRequest(c).kind # "reveal"
    BY DEF SharesRequest
  <2> QED
    BY <1>1, <2>1, PostNow, SharesHandled
<1>3. /\ TypeInv /\ TypeOK /\ RoundShape /\ Holdings /\ BookOnce
      /\ \A d \in Client : ClientInv(d)
      /\ cl[c] \in LocalState /\ Working(c)
  BY <1>1 DEF SecAggInv, TypeInv, SecAggTypeOK, Holdings, Working, Idle
<1>4. /\ cl[c].key = <<c, cl[c].rid, life[c]>> /\ cl[c].key \in Key
      /\ cl[c].rid \in handled[c]
      /\ entry \in book' /\ book \subseteq book'
      /\ entry.key = cl[c].key /\ entry.peers = cl[c].peers /\ entry.parts = cl[c].parts
  BY <1>1, <1>3 DEF ClientInv, OwnKey, TypeInv
<1> HIDE DEF entry
<1>5. /\ \A d \in Client \ {c} : Kept(d)
      /\ cl'[c] = after \/ cl'[c] = Looping
  BY <1>1, <1>2, <1>3, BecomeKept
<1>6. \A d \in Client : Onward(d)
  BY <1>2, OnwardSteps
<1>7. Holdings'
  <2>1. CASE UNCHANGED server
    BY <1>3, <1>4, <2>1, HoldingsAlone
  <2>2. CASE SubmitShares(c, T, cl[c].key)
    <3>1. c \in participants /\ phase = "SHARE_KEYS"
      BY <2>2 DEF SubmitShares, Require
    <3>2. Current(c) /\ pubkeys[c] = cl[c].key
      BY <1>1, <1>3, <3>1, TakenIsCurrent DEF ClientInv, PreShare
    <3>3. cl[c].peers = pubkeys /\ cl[c].parts = participants
      BY <1>1, <1>3, <3>2 DEF ClientInv, Agreed, Early, Idle
    <3>4. T = participants \ {c}
      BY <1>3, <3>1, <3>3 DEF RoundShape
    <3>5. pubkeys[c] \in Key /\ pubkeys[c][2] = roundId
      BY <1>4, <3>2 DEF Current
    <3>6. \E e \in book' : e.key = pubkeys[c] /\ e.peers = pubkeys /\ e.parts = participants
      BY <1>4, <3>2, <3>3
    <3>7. SubmitShares(c, T, pubkeys[c]) /\ T \in SUBSET participants /\ c \notin T
      BY <2>2, <3>2, <3>4
    <3> HIDE DEF T
    <3> QED
      BY <1>3, <1>4, <3>5, <3>6, <3>7, HoldingsShares
  <2> QED
    BY <1>2, <2>1, <2>2
<1>8. ClientInv(c)'
  <2>1. CASE cl'[c] = Looping
    BY <1>3, <1>6, <2>1, ClientIdle DEF Looping, Idle, Onward, ClientInv, OneRound
  <2>2. CASE cl'[c] = after
    <3>1. /\ cl'[c].pc = "waitCollect" /\ cl'[c].rid = cl[c].rid
          /\ cl'[c].key = cl[c].key /\ cl'[c].parts = cl[c].parts
          /\ cl'[c].peers = cl[c].peers
      BY <1>3, <2>2 DEF LocalState
    <3>2. OwnKey(c)' /\ OneRound(c)'
      BY <1>1, <1>3, <1>6, <3>1
      DEF ClientInv, OwnKey, OneRound, Onward, Working, Idle
    <3>3. Agreed(c)'
      <4>1. Current(c)' => Current(c)
        BY <1>3, <1>6, <3>1 DEF Current, Onward
      <4> QED
        BY <1>1, <1>3, <1>6, <3>1, <4>1
        DEF ClientInv, Agreed, Early, Idle, HasInbox, Onward
    <3>4. Shared(c)'
      BY <1>4, <3>1 DEF Shared
    <3>5. InboxOpens(c)'
      BY <3>1 DEF InboxOpens, HasInbox
    <3> QED
      BY <3>2, <3>3, <3>4, <3>5 DEF ClientInv
  <2> QED
    BY <1>5, <2>1, <2>2
<1>9. \A d \in Client : ClientInv(d)'
  <2>1. ASSUME NEW d \in Client \ {c} PROVE ClientInv(d)'
    BY <1>3, <1>4, <1>5, <1>6, ClientKept DEF Kept
  <2> QED
    BY <1>8, <2>1
<1>10. BookOnce'
  <2>1. /\ cl[c].key[1] = c /\ cl[c].key[3] = life[c] /\ cl[c].key[2] = cl[c].rid
    BY <1>4
  <2>2. \A e \in book : e.key # cl[c].key
    BY <1>1, <1>3 DEF BookOnce, Unshared, Early, Idle
  <2>3. \A e \in book' : e \in book \/ e = entry
    BY <1>1 DEF entry
  <2>4. \A e \in book' : \/ e.key[3] < life'[e.key[1]]
                         \/ /\ e.key[3] = life'[e.key[1]]
                            /\ e.key[2] \in handled'[e.key[1]]
    BY <1>1, <1>3, <1>4, <2>1, <2>3 DEF BookOnce
  <2>5. \A e, f \in book' : e.key = f.key => e = f
    BY <1>3, <1>4, <2>2, <2>3 DEF BookOnce
  <2>6. ASSUME NEW d \in Client, cl'[d].pc \in Unshared \ Idle, NEW e \in book'
        PROVE  e.key # cl'[d].key
    <3>1. d # c
      BY <1>3, <1>5, <2>6 DEF LocalState, Looping, Unshared, Early, Idle
    <3>2. cl'[d] = cl[d] /\ cl[d].key[1] = d
      BY <1>3, <1>5, <2>6, <3>1 DEF Kept, ClientInv, OwnKey, Working
    <3> QED
      BY <1>3, <1>4, <2>1, <2>3, <2>6, <3>1, <3>2 DEF BookOnce
  <2> QED
    BY <2>4, <2>5, <2>6 DEF BookOnce
<1> QED
  BY <1>7, <1>9, <1>10 DEF SecAggInv, Holdings

(* The waits that read nothing keep the invariant.                         *)
LEMMA InvGoOn ==
  ASSUME SecAggInv, TypeInv', RoundShape', late' = {}, NEW c \in Client,
         \/ WaitCollect(c)
         \/ DropperLooks(c) /\ ~Raise(c)
         \/ DropperCloses(c)
  PROVE  SecAggInv'
<1>1. TypeInv /\ RoundShape /\ Holdings /\ ClientInv(c) /\ cl[c] \in LocalState
  BY DEF SecAggInv, TypeInv, SecAggTypeOK, Holdings
<1>2. PICK q \in {"fetch", "waitDropped", "askClose", "closing"} :
        /\ GoTo(c, q) /\ cl[c].pc \notin Unshared
        /\ q # "fetch" => cl[c].pc \in HasInbox
        /\ q = "fetch" => phase \in Collecting
        /\ UNCHANGED server \/ ForceCloseCollection
        /\ UNCHANGED <<handled, life, book>>
  BY DEF WaitCollect, SeePhase, DropperLooks, DropperCloses, At, Unshared, Early, Idle,
         HasInbox, Collecting
<1>3. Holdings' /\ \A d \in Client : Onward(d)
  BY <1>1, <1>2, HoldingsAlone, HoldingsClosed, OnwardSteps
<1>4. /\ cl'[c] = [cl[c] EXCEPT !.pc = q] /\ Older(c)
      /\ \A d \in Client \ {c} : Kept(d)
  BY <1>1, <1>2, BecomeKept DEF GoTo
<1>5. q \in Place /\ q \notin Unshared /\ q \notin {"waitUnmask", "reveal"}
  BY DEF Place, Waiting, Unshared, Early, Idle
<1>6. ClientInv(c)'
  BY <1>1, <1>2, <1>3, <1>4, <1>5, GoOnKept DEF HasInbox, Onward
<1>7. Unique(c)'
  BY <1>1, <1>4, <1>5 DEF Unique, LocalState
<1> QED
  BY <1>2, <1>3, <1>4, <1>6, <1>7, OneActs

(* Fetching the inbox keeps the invariant.                                 *)
LEMMA InvFetchInbox ==
  ASSUME SecAggInv, TypeInv', RoundShape', late' = {}, NEW c \in Client, FetchInbox(c)
  PROVE  SecAggInv'
<1> DEFINE place == IF c \in Dropper THEN "closing" ELSE "train"
<1>1. /\ Become(c, WithInbox(cl[c], place, shareInbox[c])) /\ cl[c].pc = "fetch"
      /\ UNCHANGED <<server, handled, life, book>>
  BY DEF FetchInbox, At, WithInbox
<1>2. /\ TypeInv /\ TypeOK /\ RoundShape /\ Exchange /\ ClientInv(c)
      /\ cl[c] \in LocalState /\ shareInbox[c] \in [Client -> Slot]
  BY DEF SecAggInv, TypeInv, SecAggTypeOK, TypeOK
<1>3. place \in Place /\ place \in {"closing", "train"}
  BY DEF Place, Waiting
<1> HIDE DEF place
<1>4. /\ cl'[c] = WithInbox(cl[c], place, shareInbox[c]) /\ Older(c)
      /\ \A d \in Client \ {c} : Kept(d)
  BY <1>1, <1>2, BecomeKept
<1>5. /\ cl'[c].pc = place /\ cl'[c].inbox = shareInbox[c] /\ cl'[c].rid = cl[c].rid
      /\ cl'[c].key = cl[c].key /\ cl'[c].parts = cl[c].parts /\ cl'[c].peers = cl[c].peers
  BY <1>2, <1>3, <1>4, InboxRead
<1>6. /\ roundId' = roundId /\ phase' = phase /\ participants' = participants
      /\ pubkeys' = pubkeys /\ shareInbox' = shareInbox /\ handled' = handled
      /\ life' = life
  BY <1>1 DEF server, vars, roundVars
<1>7. Working(c)
  BY <1>1 DEF Working, Idle
<1>8. OwnKey(c)' /\ OneRound(c)'
  BY <1>1, <1>2, <1>5, <1>6, <1>7 DEF ClientInv, OwnKey, OneRound, Idle
<1>9. Agreed(c)'
  <2>1. Current(c)' => Current(c)
    BY <1>5, <1>6, <1>7 DEF Current
  <2> QED
    BY <1>1, <1>2, <1>3, <1>5, <1>6, <2>1 DEF ClientInv, Agreed, Early, Idle, HasInbox
<1>10. Shared(c)'
  BY <1>1, <1>2, <1>5 DEF ClientInv, Shared, Unshared, Early, Idle
<1>11. InboxOpens(c)'
  <2>1. ASSUME NEW o \in Client, shareInbox[c][o] # NoKey
        PROVE  /\ shareInbox[c][o] = cl[c].peers[o] /\ shareInbox[c][o][2] = cl[c].rid
               /\ \E e \in book : e.key = shareInbox[c][o] /\ e.peers[c] = cl[c].key
    <3>1. /\ phase \notin PreShare /\ c \in participants
          /\ shareInbox[c][o] = pubkeys[o] /\ Bound(o)
      BY <1>2, <2>1 DEF Exchange
    <3>2. Current(c) /\ pubkeys[c] = cl[c].key
      BY <1>1, <1>2, <1>7, <3>1, TakenIsCurrent DEF ClientInv
    <3>3. cl[c].peers = pubkeys /\ cl[c].rid = roundId
      BY <1>1, <1>2, <3>2 DEF ClientInv, Agreed, Current, Early, Idle
    <3> QED
      BY <3>1, <3>2, <3>3 DEF Bound
  <2>2. book' = book
    BY <1>1
  <2> QED
    BY <1>5, <2>1, <2>2 DEF InboxOpens, Stored
<1>12. Unique(c)'
  BY <1>3, <1>5 DEF Unique, Unshared, Early, Idle
<1>13. Holdings' /\ \A d \in Client : Onward(d)
  BY <1>1, HoldingsAlone, OnwardSteps DEF SecAggInv, Holdings
<1> QED
  BY <1>1, <1>4, <1>8, <1>9, <1>10, <1>11, <1>12, <1>13, OneActs DEF ClientInv

(* Uploading the masked vector keeps the invariant.                        *)
LEMMA InvTrainAndMask ==
  ASSUME "late" \notin Failures, SecAggInv, TypeInv', RoundShape', late' = {},
         NEW c \in Client, TrainAndMask(c)
  PROVE  SecAggInv'
<1> DEFINE after == [cl[c] EXCEPT !.pc = "waitUnmask"]
<1>1. /\ Post(c, MaskedRequest(c), after) /\ cl[c].pc = "train"
      /\ UNCHANGED <<handled, life, book>>
  BY DEF TrainAndMask, At
<1>2. \/ /\ SubmitMasked(c, cl[c].key)
         /\ Become(c, after) \/ Become(c, Looping)
      \/ UNCHANGED server /\ Become(c, Looping)
  <2>1. MaskedRequest(c).kind # "reveal"
    BY DEF MaskedRequest
  <2> QED
    BY <1>1, <2>1, PostNow, MaskedHandled
<1>3. /\ TypeInv /\ TypeOK /\ RoundShape /\ Holdings /\ ClientInv(c)
      /\ cl[c] \in LocalState /\ Working(c) /\ cl[c].key \in Key
      /\ cl[c].key[2] = cl[c].rid
  BY <1>1 DEF SecAggInv, TypeInv, SecAggTypeOK, Holdings, Working, Idle, ClientInv, OwnKey
<1>4. CASE UNCHANGED server /\ Become(c, Looping)
  BY <1>1, <1>3, <1>4, BecomeKept, GivesUp DEF Looping, Idle
<1>5. ASSUME SubmitMasked(c, cl[c].key), Become(c, after) \/ Become(c, Looping)
      PROVE  SecAggInv'
  <2>1. c \in participants /\ phase = "COLLECT"
    BY <1>5 DEF SubmitMasked, Require
  <2>2. Current(c) /\ pubkeys[c] = cl[c].key
    BY <1>1, <1>3, <2>1, TakenIsCurrent DEF ClientInv, PreShare
  <2>3. cl[c].peers = pubkeys /\ cl[c].parts = participants /\ cl[c].inbox = shareInbox[c]
    BY <1>1, <1>3, <2>2 DEF ClientInv, Agreed, Early, Idle, HasInbox
  <2>4. Bound(c)
    <3>1. cl[c].pc \notin Unshared
      BY <1>1 DEF Unshared, Early, Idle
    <3> QED
      BY <1>3, <2>2, <2>3, <3>1 DEF ClientInv, Shared, Bound, Current
  <2>5. Holdings'
    BY <1>1, <1>3, <1>5, <2>2, <2>4, HoldingsMasked
  <2>6. \A d \in Client \ {c} : Onward(d)
    BY <1>3, <1>5, OnwardUploads
  <2>7. /\ masked'[c] = cl[c].key /\ phase' \in {"COLLECT", "UNMASK"}
        /\ roundId' = roundId /\ participants' = participants /\ pubkeys' = pubkeys
        /\ shareInbox' = shareInbox
    BY <1>3, <1>5, <2>1 DEF SubmitMasked, Require, CloseCollection, TypeOK
  <2>8. CASE Become(c, Looping)
    <3>1. pubkeys'[c] # NoKey => pubkeys'[c][1] = c
      BY <1>3, <2>7 DEF ClientInv, OneRound
    <3> QED
      BY <1>1, <1>3, <2>5, <2>6, <2>8, <3>1, BecomeKept, OneIdles DEF Looping, Idle
  <2>9. CASE Become(c, after)
    <3>1. /\ cl'[c] = after /\ Older(c) /\ \A d \in Client \ {c} : Kept(d)
      BY <1>1, <1>3, <2>9, BecomeKept
    <3>2. /\ cl'[c].pc = "waitUnmask" /\ cl'[c].rid = cl[c].rid
          /\ cl'[c].key = cl[c].key /\ cl'[c].parts = cl[c].parts
          /\ cl'[c].peers = cl[c].peers /\ cl'[c].inbox = cl[c].inbox
      BY <1>3, <3>1 DEF LocalState
    <3>3. OwnKey(c)' /\ OneRound(c)'
      BY <1>1, <1>3, <2>2, <2>7, <3>2 DEF ClientInv, OwnKey, OneRound, Current
    <3>4. Agreed(c)'
      BY <1>1, <1>3, <2>1, <2>2, <2>3, <2>7, <3>2
      DEF ClientInv, Agreed, PreShare, Collecting
    <3>5. Shared(c)'
      BY <1>1, <1>3, <3>2 DEF ClientInv, Shared, Unshared, Early, Idle
    <3>6. InboxOpens(c)'
      BY <1>1, <1>3, <3>2 DEF ClientInv, InboxOpens, HasInbox, Stored
    <3>7. Unique(c)'
      BY <3>2 DEF Unique, Unshared, Early, Idle
    <3> QED
      BY <1>1, <2>5, <2>6, <3>1, <3>3, <3>4, <3>5, <3>6, <3>7, OneActs DEF ClientInv
  <2> QED
    BY <1>5, <2>8, <2>9
<1> QED
  BY <1>2, <1>4, <1>5

(* Reading the lists of survivors and dropped keeps the invariant.         *)
LEMMA InvWaitUnmask ==
  ASSUME SecAggInv, TypeInv', RoundShape', late' = {}, NEW c \in Client, WaitUnmask(c)
  PROVE  SecAggInv'
<1>1. /\ Become(c, WithLists(cl[c], survivors, dropped)) /\ cl[c].pc = "waitUnmask"
      /\ cl[c].rid = roundId /\ phase = "UNMASK"
      /\ UNCHANGED <<server, handled, life, book>>
  BY DEF WaitUnmask, SeePhase, At, WithLists
<1>2. /\ TypeInv /\ ClientInv(c) /\ cl[c] \in LocalState
      /\ survivors \in SUBSET Client /\ dropped \in SUBSET Client
  BY DEF SecAggInv, TypeInv, SecAggTypeOK, TypeOK
<1>3. /\ cl'[c] = WithLists(cl[c], survivors, dropped) /\ Older(c)
      /\ \A d \in Client \ {c} : Kept(d)
  BY <1>1, <1>2, BecomeKept
<1>4. /\ cl'[c].pc = "reveal" /\ cl'[c].survivors = survivors /\ cl'[c].dropped = dropped
      /\ cl'[c].rid = cl[c].rid /\ cl'[c].key = cl[c].key /\ cl'[c].parts = cl[c].parts
      /\ cl'[c].peers = cl[c].peers /\ cl'[c].inbox = cl[c].inbox
  BY <1>2, <1>3, ListsRead
<1>5. /\ roundId' = roundId /\ phase' = phase /\ participants' = participants
      /\ pubkeys' = pubkeys /\ shareInbox' = shareInbox /\ masked' = masked
      /\ survivors' = survivors /\ dropped' = dropped
      /\ handled' = handled /\ life' = life /\ book' = book
  BY <1>1 DEF server, vars, roundVars
<1>6. Current(c)
  BY <1>1 DEF Current, Working, Idle
<1>7. OwnKey(c)' /\ OneRound(c)'
  BY <1>1, <1>2, <1>4, <1>5, <1>6 DEF ClientInv, OwnKey, OneRound, Current
<1>8. Agreed(c)'
  BY <1>1, <1>2, <1>4, <1>5, <1>6
  DEF ClientInv, Agreed, Early, Idle, HasInbox, PreShare, Closed
<1>9. Shared(c)' /\ InboxOpens(c)'
  BY <1>1, <1>2, <1>4, <1>5
  DEF ClientInv, Shared, InboxOpens, Unshared, Early, Idle, HasInbox, Stored
<1>10. Unique(c)'
  BY <1>4 DEF Unique, Unshared, Early, Idle
<1>11. Holdings' /\ \A d \in Client : Onward(d)
  BY <1>1, HoldingsAlone, OnwardSteps DEF SecAggInv, Holdings
<1> QED
  BY <1>1, <1>3, <1>7, <1>8, <1>9, <1>10, <1>11, OneActs DEF ClientInv

(* Revealing, or failing to, keeps the invariant.                          *)
LEMMA InvReveal ==
  ASSUME "late" \notin Failures, SecAggInv, TypeInv', RoundShape', late' = {},
         NEW c \in Client, Reveal(c)
  PROVE  SecAggInv'
<1>1. /\ cl[c].pc = "reveal" /\ UNCHANGED <<handled, life, book>>
      /\ \/ Post(c, RevealRequest(c), Looping)
         \/ Raise(c) /\ UNCHANGED <<server, late>>
  BY DEF Reveal, At
<1>2. /\ Become(c, Looping)
      /\ \/ SubmitReveal(c, RevealRequest(c).b, RevealRequest(c).s)
         \/ UNCHANGED server
  BY <1>1, PostNow, RevealHandled DEF Raise
<1>3. TypeInv /\ TypeOK /\ RoundShape /\ Holdings /\ ClientInv(c)
  BY DEF SecAggInv, TypeInv, SecAggTypeOK, Holdings
<1>4. cl'[c].pc \in Idle /\ Older(c) /\ \A d \in Client \ {c} : Kept(d)
  BY <1>1, <1>2, <1>3, BecomeKept DEF Looping, Idle
<1>5. CASE UNCHANGED server
  BY <1>1, <1>4, <1>5, GivesUp
<1>6. CASE SubmitReveal(c, RevealRequest(c).b, RevealRequest(c).s)
  <2>1. c \in participants /\ phase = "UNMASK"
    BY <1>6 DEF SubmitReveal, Require
  <2>2. PICK B \in SUBSET survivors, S \in SUBSET dropped :
          /\ RevealRequest(c).b = Opening(c, B)
          /\ RevealRequest(c).s = Opening(c, S)
    BY <1>1, <2>1, RevealAllowed
  <2>3. c \in survivors
    BY <1>1, <2>1, RevealAllowed
  <2>4. Holdings'
    BY <1>1, <1>3, <1>6, <2>2, <2>3, HoldingsReveal
  <2>5. \A d \in Client : Onward(d)
    BY <1>6, OnwardSteps
  <2>6. pubkeys'[c] # NoKey => pubkeys'[c][1] = c
    BY <1>3, <2>5 DEF ClientInv, OneRound, Onward
  <2> QED
    BY <1>1, <1>4, <2>4, <2>5, <2>6, OneIdles
<1> QED
  BY <1>2, <1>5, <1>6

(* Every step keeps the invariant.                                         *)
LEMMA SecAggInvStep ==
  ASSUME "late" \notin Failures, SecAggInv, [SecAggNext]_secAggVars
  PROVE  SecAggInv'
<1>a. TypeInv' /\ RoundShape' /\ late' = {}
  BY TypeInvStep, ServerStep, ShapeStep DEF SecAggInv, TypeInv, SecAggTypeOK
<1>b. TypeInv /\ RoundShape /\ Holdings /\ \A c \in Client : ClientInv(c)
  BY DEF SecAggInv, Holdings
<1>c. ASSUME NEW c \in Client, Raise(c), UNCHANGED <<server, handled, life, book>>
      PROVE  SecAggInv'
  BY <1>a, <1>b, <1>c, BecomeKept, GivesUp DEF Raise, Looping, Idle
<1>1. ASSUME NEW c \in Client, Loop(c) PROVE SecAggInv'
  <2>1. cl'[c].pc = "poll"
    BY <1>1, <1>b DEF Loop, GoTo, Become, TypeInv, SecAggTypeOK, LocalState
  <2> QED
    BY <1>1, <1>a, <1>b, <2>1, BecomeKept, GivesUp DEF Loop, GoTo, Idle
<1>2. ASSUME NEW c \in Client,
             \/ PollTimeout(c) \/ Stale(c) \/ Timeout(c) \/ Restart(c) \/ WaitDropped(c)
             \/ DropperLooks(c) /\ Raise(c)
      PROVE  SecAggInv'
  BY <1>2, <1>c DEF PollTimeout, Stale, Timeout, Restart, WaitDropped, DropperLooks
<1>3. ASSUME NEW c \in Client, Crash(c) PROVE SecAggInv'
  <2>1. /\ Become(c, [Looping EXCEPT !.pc = "off"]) /\ UNCHANGED <<server, book>>
        /\ life' = [life EXCEPT ![c] = @ + 1] /\ handled' = [handled EXCEPT ![c] = {}]
    BY <1>3 DEF Crash
  <2>2. cl'[c].pc \in Idle /\ \A d \in Client \ {c} : Kept(d)
    BY <1>b, <2>1 DEF Become, Kept, Looping, Idle, TypeInv, SecAggTypeOK
  <2>3. Older(c)
    BY <1>b, <2>1, FaultBound DEF Older, TypeInv, SecAggTypeOK
  <2> QED
    BY <1>a, <2>1, <2>2, <2>3, GivesUp
<1>4. ASSUME NEW c \in Client, Reap(c) PROVE SecAggInv'
  <2>1. Holdings' /\ \A d \in Client : Onward(d)
    BY <1>4, <1>b, HoldingsAlone, OnwardSteps DEF Reap
  <2> QED
    BY <1>4, <1>a, <2>1, ServerActs DEF Reap
<1>5. ASSUME NEW P \in SUBSET registered, NEW sigma \in Sigma, Start(P, sigma)
      PROVE  SecAggInv'
  BY <1>5, <1>a, AnewSteps, HoldingsAnew, ServerActs DEF Start
<1>6. ASSUME CloseOnTimeout PROVE SecAggInv'
  <2>1. Holdings' /\ \A d \in Client : Onward(d)
    BY <1>6, <1>b, HoldingsClosed, OnwardSteps DEF CloseOnTimeout
  <2> QED
    BY <1>6, <1>a, <2>1, ServerActs DEF CloseOnTimeout
<1>7. ASSUME NEW drop \in BOOLEAN, Reset(drop) PROVE SecAggInv'
  BY <1>7, <1>a, AnewSteps, HoldingsAnew, ServerActs DEF Reset
<1>8. ASSUME NEW m \in late PROVE FALSE
  BY DEF SecAggInv
<1>9. CASE UNCHANGED secAggVars
  <2>1. UNCHANGED <<server, cl, handled, life, book>>
    BY <1>9 DEF secAggVars
  <2>2. Holdings' /\ \A d \in Client : Onward(d)
    BY <1>b, <2>1, HoldingsAlone, OnwardSteps
  <2> QED
    BY <1>a, <2>1, <2>2, ServerActs
<1> QED
  BY <1>a, <1>1, <1>2, <1>3, <1>4, <1>5, <1>6, <1>7, <1>8, <1>9, InvNotice, InvAdvertise,
     InvWaitShare, InvShareKeys, InvGoOn, InvFetchInbox, InvTrainAndMask, InvWaitUnmask,
     InvReveal
  DEF SecAggNext, ClientStep

(* The invariant holds at the start.                                       *)
LEMMA SecAggInvInit == SecAggInit => SecAggInv
<1> SUFFICES ASSUME SecAggInit PROVE SecAggInv
  OBVIOUS
<1>1. TypeInv /\ RoundShape
  BY TypeInvInit, ShapeInit DEF SecAggInit
<1>2. /\ pubkeys = Nothing /\ masked = Nothing
      /\ shareInbox = [c \in Client |-> Nothing]
      /\ survivors = {} /\ revealed = {} /\ bPool = {} /\ sPool = {}
      /\ phase = "IDLE" /\ late = {} /\ book = {}
      /\ \A c \in Client : cl[c].pc \in Idle
  BY DEF SecAggInit, Init, Looping, Idle
<1>3. \A c \in Client : ClientInv(c)
  BY <1>2 DEF ClientInv, OwnKey, OneRound, Agreed, Shared, InboxOpens, Current, Working,
              Idle, Early, Unshared, HasInbox, Nothing
<1>4. BookOnce
  BY <1>2 DEF BookOnce
<1>5. Exchange /\ Vectors /\ Pools /\ Reports
  BY <1>2 DEF Exchange, Vectors, Pools, Reports, Nothing
<1> QED
  BY <1>1, <1>2, <1>3, <1>4, <1>5 DEF SecAggInv

(* The inductive invariant of coordinator and clients, when no request is  *)
(* late.                                                                   *)
THEOREM SecAggInvHolds == ASSUME "late" \notin Failures PROVE SecAggSpec => []SecAggInv
<1>1. SecAggInv /\ [SecAggNext]_secAggVars => SecAggInv'
  BY SecAggInvStep
<1> QED
  BY <1>1, SecAggInvInit, PTL DEF SecAggSpec

(* With the clients of fl/client/run.py in its place the environment of    *)
(* Coordinator.tla promises no less: what the clients post is what that    *)
(* module lets arrive, so all that is proved there holds of the system.    *)
THEOREM ServerBehavesHolds == ASSUME "late" \notin Failures PROVE SecAggSpec => ServerBehaves
<1>1. SecAggInv /\ [SecAggNext]_secAggVars => [Next]_vars
  BY ServerStep
<1>2. SecAggInit => Init
  BY DEF SecAggInit
<1> QED
  BY <1>1, <1>2, SecAggInvHolds, PTL DEF SecAggSpec, Spec, ServerBehaves

(* Coordinator and clients together implement the abstract round of        *)
(* FLRound.tla: the two refinements compose.                               *)
THEOREM ComposedRoundImplemented ==
  ASSUME "late" \notin Failures
  PROVE  SecAggSpec => ImplementsRound
BY ServerBehavesHolds, RoundImplemented, PTL DEF ServerBehaves

-----------------------------------------------------------------------------
(* A round is published only when exactly its survivors have reported.     *)
THEOREM EverySurvivorReportedHolds ==
  ASSUME "late" \notin Failures
  PROVE  SecAggSpec => []EverySurvivorReported
<1>1. SecAggInv => EverySurvivorReported
  BY DEF SecAggInv, Reports, EverySurvivorReported
<1> QED
  BY <1>1, SecAggInvHolds, PTL

(* Of one ClientSecAgg instance the server never gets shares of both       *)
(* secrets: the keys it holds tell the clients apart.                      *)
THEOREM NeverBothOfOneInstanceHolds ==
  ASSUME "late" \notin Failures
  PROVE  SecAggSpec => []NeverBothOfOneInstance
<1>1. ASSUME SecAggInv, NeverBothOpened, NEW s \in bPool, NEW u \in sPool, s.key = u.key
      PROVE  FALSE
  <2>1. s \in Share /\ u \in Share
    BY <1>1 DEF SecAggInv, TypeInv, SecAggTypeOK, TypeOK
  <2>2. /\ s.owner \in Client /\ s.key = pubkeys[s.owner] /\ s.key # NoKey
        /\ u.owner \in Client /\ u.key = pubkeys[u.owner] /\ u.key # NoKey
    BY <1>1, <2>1, KeyAssumption DEF Share, SecAggInv, Pools
  <2>3. s.owner = u.owner
    BY <1>1, <2>2 DEF SecAggInv, ClientInv, OneRound
  <2> QED
    BY <1>1, <2>3 DEF NeverBothOpened, Owners
<1>2. SecAggInv /\ NeverBothOpened => NeverBothOfOneInstance
  BY <1>1 DEF NeverBothOfOneInstance
<1>3. SecAggSpec => Spec
  BY ServerBehavesHolds DEF ServerBehaves
<1> QED
  BY <1>2, <1>3, SecAggInvHolds, NeverBothOpenedHolds, PTL

(* Looking an instance up in the book finds the one entry it has.          *)
LEMMA EntryOf ==
  ASSUME BookOnce, NEW e \in book
  PROVE  Entry(e.key) = e /\ PeersOf(e.key) = e.peers
BY DEF BookOnce, Entry, PeersOf

(* A survivor that got as far as revealing can open every share it holds,  *)
(* whatever was lost, timed out, restarted or reset in the meantime.       *)
THEOREM RevealNeverFailsHolds ==
  ASSUME "late" \notin Failures
  PROVE  SecAggSpec => []RevealNeverFails
<1>1. ASSUME SecAggInv, NEW c \in Client, cl[c].pc = "reveal",
             NEW o \in Stored(cl[c].inbox)
      PROVE  Unseals(c, o)
  <2>1. PICK e \in book : e.key = cl[c].inbox[o] /\ e.peers[c] = cl[c].key
    BY <1>1 DEF SecAggInv, ClientInv, InboxOpens, HasInbox
  <2>2. cl[c].inbox[o] = cl[c].peers[o] /\ cl[c].inbox[o][2] = cl[c].rid
    BY <1>1 DEF SecAggInv, ClientInv, InboxOpens, HasInbox
  <2>3. PeersOf(cl[c].inbox[o])[c] = cl[c].key
    BY <1>1, <2>1, EntryOf DEF SecAggInv
  <2> QED
    BY <2>2, <2>3 DEF Unseals
<1>2. SecAggInv => RevealNeverFails
  BY <1>1 DEF RevealNeverFails, At
<1> QED
  BY <1>2, SecAggInvHolds, PTL

-----------------------------------------------------------------------------
(* The masks of a published sum: one per ordered pair of participants of   *)
(* which one survived, keyed by the two keys the server holds.             *)
MaskOf(x, y) == PairMask(x, pubkeys[x], y, pubkeys[y], roundId)
Linked(x, y) ==
  x \in participants /\ y \in participants /\ x # y /\ (x \in survivors \/ y \in survivors)

(* What is published: everything in the sum belongs to this round's keys.  *)
PublishedFacts ==
  /\ survivors \subseteq participants /\ dropped = participants \ survivors
  /\ \A c \in participants : c \in Nat /\ pubkeys[c][1] = c
  /\ \A c \in survivors :
       /\ masked[c] = pubkeys[c] /\ pubkeys[c][2] = roundId
       /\ Entry(pubkeys[c]).peers = pubkeys /\ Entry(pubkeys[c]).parts = participants
       /\ Recovered(bPool, c) = {pubkeys[c]}
  /\ \A d \in dropped : Recovered(sPool, d) = {pubkeys[d]}

(* A published result rests on what its survivors shared.                  *)
LEMMA PublishedHolds ==
  ASSUME SecAggInv, QuorumBehindResult, phase = "DONE"
  PROVE  PublishedFacts /\ Owners(bPool) = survivors
<1>1. /\ RoundShape /\ TypeOK /\ BookOnce /\ Vectors /\ Pools
      /\ \A c \in Client : OneRound(c)
  BY DEF SecAggInv, TypeInv, SecAggTypeOK, ClientInv
<1>2. /\ survivors = Stored(masked) /\ dropped = participants \ survivors
      /\ survivors \subseteq participants /\ Stored(pubkeys) = participants
      /\ participants \subseteq Client
  BY <1>1 DEF RoundShape, TypeOK
<1>3. \A c \in participants : c \in Nat /\ pubkeys[c][1] = c
  BY <1>1, <1>2, ClientIds DEF Stored, OneRound
<1>4. Owners(bPool) = survivors /\ Owners(sPool) = dropped
  BY DEF QuorumBehindResult
<1>5. ASSUME NEW pool \in {bPool, sPool}, NEW o \in Owners(pool)
      PROVE  Recovered(pool, o) = {pubkeys[o]}
  <2>1. \A s \in SharesOf(pool, o) : s.key = pubkeys[o]
    BY <1>1, <1>5 DEF Pools, SharesOf
  <2>2. SharesOf(pool, o) # {}
    BY <1>5 DEF Owners, SharesOf
  <2> QED
    BY <2>1, <2>2 DEF Recovered
<1>6. ASSUME NEW c \in survivors
      PROVE  /\ masked[c] = pubkeys[c] /\ pubkeys[c][2] = roundId
             /\ Entry(pubkeys[c]).peers = pubkeys /\ Entry(pubkeys[c]).parts = participants
  <2>1. masked[c] = pubkeys[c] /\ Bound(c)
    BY <1>1, <1>2 DEF Vectors, Stored
  <2>2. PICK e \in book : e.key = pubkeys[c] /\ e.peers = pubkeys /\ e.parts = participants
    BY <2>1 DEF Bound
  <2>3. Entry(pubkeys[c]) = e
    BY <1>1, <2>2, EntryOf
  <2> QED
    BY <2>1, <2>2, <2>3 DEF Bound
<1> QED
  BY <1>2, <1>3, <1>4, <1>5, <1>6 DEF PublishedFacts

(* There is one mask for every ordered linked pair and no other.           *)
LEMMA MasksAre ==
  ASSUME PublishedFacts, NEW m
  PROVE  m \in VectorMasks \cup DroppedMasks <=> \E x, y : Linked(x, y) /\ m = MaskOf(x, y)
<1>1. m \in VectorMasks <=> \E c \in survivors : \E p \in participants \ {c} : m = MaskOf(c, p)
  <2>1. \A c \in survivors :
          {PairMask(c, masked[c], p, Entry(masked[c]).peers[p], masked[c][2])
             : p \in Entry(masked[c]).parts \ {c}}
            = {MaskOf(c, p) : p \in participants \ {c}}
    BY DEF PublishedFacts, MaskOf
  <2> QED
    BY <2>1 DEF VectorMasks
<1>2. m \in DroppedMasks <=> \E d \in dropped, p \in survivors : m = MaskOf(d, p)
  <2>1. \A d \in dropped :
          {PairMask(d, k, p, pubkeys[p], roundId) : p \in survivors, k \in Recovered(sPool, d)}
            = {MaskOf(d, p) : p \in survivors}
    BY DEF PublishedFacts, MaskOf
  <2> QED
    BY <2>1 DEF DroppedMasks
<1>3. survivors \subseteq participants /\ dropped = participants \ survivors
  BY DEF PublishedFacts
<1> QED
  BY <1>1, <1>2, <1>3 DEF Linked

(* Two masks have the same seed only if they are of the same two clients.  *)
LEMMA SeedTells ==
  ASSUME PublishedFacts, NEW x, NEW y, NEW u, NEW v, Linked(x, y), Linked(u, v),
         MaskOf(x, y).seed = MaskOf(u, v).seed
  PROVE  (x = u /\ y = v) \/ (x = v /\ y = u)
<1>1. {pubkeys[x], pubkeys[y]} = {pubkeys[u], pubkeys[v]}
  BY DEF MaskOf, PairMask
<1>2. /\ pubkeys[x][1] = x /\ pubkeys[y][1] = y /\ pubkeys[u][1] = u /\ pubkeys[v][1] = v
      /\ x # y /\ u # v
  BY DEF PublishedFacts, Linked
<1> QED
  BY <1>1, <1>2

(* The two masks of a pair have the same seed and opposite signs.          *)
LEMMA PairCancels ==
  ASSUME PublishedFacts, NEW a, NEW b, Linked(a, b), a < b, NEW m,
         m = MaskOf(a, b) \/ m = MaskOf(b, a)
  PROVE  LET masks == VectorMasks \cup DroppedMasks
             With(sign) == {x \in masks : /\ x.seed = m.seed /\ x.round = m.round
                                          /\ x.sign = sign}
         IN  Cardinality(With(1)) = Cardinality(With(-1))
<1> DEFINE masks == VectorMasks \cup DroppedMasks
           With(sign) == {x \in masks : /\ x.seed = m.seed /\ x.round = m.round
                                        /\ x.sign = sign}
<1>1. a \in Nat /\ b \in Nat /\ Linked(b, a)
  BY DEF PublishedFacts, Linked
<1>2. /\ MaskOf(a, b).sign = 1 /\ MaskOf(b, a).sign = -1
      /\ MaskOf(a, b).seed = MaskOf(b, a).seed /\ MaskOf(a, b).round = MaskOf(b, a).round
  BY <1>1 DEF MaskOf, PairMask
<1>3. MaskOf(a, b) \in masks /\ MaskOf(b, a) \in masks
  BY <1>1, MasksAre
<1>4. ASSUME NEW w \in masks, w.seed = m.seed
      PROVE  w = MaskOf(a, b) \/ w = MaskOf(b, a)
  <2>1. PICK x, y : Linked(x, y) /\ w = MaskOf(x, y)
    BY MasksAre
  <2>2. MaskOf(x, y).seed = MaskOf(a, b).seed
    BY <1>2, <1>4, <2>1
  <2>3. (x = a /\ y = b) \/ (x = b /\ y = a)
    BY <2>1, <2>2, SeedTells
  <2> QED
    BY <2>1, <2>3
<1>5. With(1) = {MaskOf(a, b)} /\ With(-1) = {MaskOf(b, a)}
  BY <1>2, <1>3, <1>4
<1>6. Cardinality(With(1)) = 1 /\ Cardinality(With(-1)) = 1
  BY <1>5, FS_Singleton
<1> QED
  BY <1>6

(* With everything in it of this round's keys, the sum is free of masks.   *)
LEMMA PublishedUnmasked ==
  ASSUME PublishedFacts, Owners(bPool) = survivors
  PROVE  MasksCancel /\ SelfMasksRemoved
<1>1. SelfMasksRemoved
  BY DEF SelfMasksRemoved, PublishedFacts
<1>2. ASSUME NEW m \in VectorMasks \cup DroppedMasks
      PROVE  LET masks == VectorMasks \cup DroppedMasks
                 With(sign) == {x \in masks : /\ x.seed = m.seed /\ x.round = m.round
                                              /\ x.sign = sign}
             IN  Cardinality(With(1)) = Cardinality(With(-1))
  <2>1. PICK x, y : Linked(x, y) /\ m = MaskOf(x, y)
    BY MasksAre
  <2>2. x \in Nat /\ y \in Nat /\ x # y /\ Linked(y, x)
    BY <2>1 DEF PublishedFacts, Linked
  <2>3. CASE x < y
    BY <2>1, <2>3, PairCancels
  <2>4. CASE y < x
    BY <2>1, <2>2, <2>4, PairCancels
  <2> QED
    BY <2>2, <2>3, <2>4
<1> QED
  BY <1>1, <1>2 DEF MasksCancel

(* The sum of every published round is free of masks: each pairwise mask   *)
(* is met by exactly one of the opposite sign, and the self-masks removed  *)
(* are those of the vectors in the sum.                                    *)
THEOREM SumIsUnmaskedHolds ==
  ASSUME "late" \notin Failures
  PROVE  SecAggSpec => []SumIsUnmasked
<1>1. SecAggInv /\ QuorumBehindResult => SumIsUnmasked
  BY PublishedHolds, PublishedUnmasked DEF SumIsUnmasked
<1>2. SecAggSpec => Spec
  BY ServerBehavesHolds DEF ServerBehaves
<1> QED
  BY <1>1, <1>2, SecAggInvHolds, QuorumBehindResultHolds, PTL

-----------------------------------------------------------------------------
(* With requests that arrive late.  In one round they stay requests of     *)
(* that round, also when they are of an earlier life of their client; what *)
(* they carry is sound then, which is all the sum needs.                   *)

(* k is the key of an instance of client o whose shares are among those of *)
(* the instances in B.                                                     *)
Names(B, k, o) == k[1] = o /\ \E e \in B : e.key = k

(* An opened share of an instance that made shares; from somebody else     *)
(* than its owner it is of the instance whose key the server has.          *)
Opens(B, x, holder) ==
  Names(B, x.key, x.owner) /\ (x.owner # holder => x.key = pubkeys[x.owner])

Sound(B, m) ==
  /\ m.kind = "keys" => m.key[1] = m.from
  /\ m.kind \in {"shares", "masked"} => Names(B, m.key, m.from)
  /\ m.kind = "reveal" =>
       /\ phase \in Closed /\ m.from \in survivors
       /\ \A x \in m.b : x.owner \in survivors /\ Opens(B, x, m.from)
       /\ \A x \in m.s : x.owner \in dropped /\ Opens(B, x, m.from)

(* What the server has of the instances in B.                              *)
Pieces(B) ==
  /\ \A o \in Client : pubkeys[o] # NoKey => pubkeys[o][1] = o
  /\ \A t, o \in Client : shareInbox[t][o] # NoKey => Names(B, shareInbox[t][o], o)
  /\ \A o \in Client : masked[o] # NoKey => Names(B, masked[o], o)
  /\ \A x \in bPool \cup sPool : Opens(B, x, x.holder)
  /\ SharesSuffice /\ Reports

(* A client has one instance at most that made shares: it can only notice  *)
(* the round while nobody has.                                             *)
OneEach ==
  /\ phase \in PreShare => book = {}
  /\ \A e \in book : e.peers = pubkeys /\ e.parts = participants
  /\ \A e, f \in book : e.key[1] = f.key[1] => e = f

Knows(c) ==
  Working(c) =>
    /\ cl[c].key[1] = c /\ cl[c].parts = participants
    /\ cl[c].pc \in Unshared => \A e \in book : e.key[1] # c
    /\ cl[c].pc \notin Early => phase \notin PreShare /\ cl[c].peers = pubkeys
    /\ cl[c].pc \notin Unshared => \E e \in book : e.key = cl[c].key
    /\ cl[c].pc \in HasInbox =>
         \A o \in Stored(cl[c].inbox) : Names(book, cl[c].inbox[o], o)
    /\ cl[c].pc \in {"waitUnmask", "reveal"} => masked[c] # NoKey
    /\ cl[c].pc = "reveal" => /\ phase \in Closed
                              /\ cl[c].survivors = survivors
                              /\ cl[c].dropped = dropped

(* Before the only round there is nothing; after a reset, nothing starts.  *)
LateInv ==
  /\ TypeInv
  /\ RoundShape
  /\ roundId = 0 => book = {} /\ late = {} /\ \A c \in Client : ~Working(c)
  /\ phase # "IDLE" => /\ Pieces(book) /\ OneEach
                       /\ \A c \in Client : Knows(c)
                       /\ \A m \in late : Sound(book, m)

(* What a step within the round leaves to those who did not make it.       *)
Within ==
  /\ roundId' = roundId /\ participants' = participants
  /\ phase' = "IDLE" <=> phase = "IDLE"
  /\ \A o \in Client : masked[o] # NoKey => masked'[o] # NoKey
  /\ phase \notin PreShare => phase' \notin PreShare /\ pubkeys' = pubkeys
  /\ phase \in Closed => /\ phase' \in Closed
                         /\ survivors' = survivors /\ dropped' = dropped

(* Handling a request stays within the round, whoever sent it.             *)
LEMMA WithinSteps ==
  ASSUME TypeOK
  PROVE
  /\ UNCHANGED server => Within
  /\ \A c : Register(c) \/ Unregister(c) => Within
  /\ ForceCloseCollection => Within
  /\ \A m \in Request : Ask(m) => Within
<1> USE DEF Within, PreShare, Closed
<1>1. UNCHANGED server => Within
  BY DEF server, vars, roundVars
<1>2. \A c : Register(c) \/ Unregister(c) => Within
  BY DEF Register, Unregister, roundVars
<1>3. ForceCloseCollection => Within
  BY DEF ForceCloseCollection, CloseCollection
<1>4. \A c, k : SubmitPubkeys(c, k) => Within
  BY DEF SubmitPubkeys, Require
<1>5. \A c, T, k : SubmitShares(c, T, k) => Within
  BY DEF SubmitShares, Require
<1>6. \A c \in Client, k \in Key : SubmitMasked(c, k) => Within
  BY KeyAssumption DEF SubmitMasked, Require, CloseCollection, TypeOK
<1>7. \A c, b, s : SubmitReveal(c, b, s) => Within
  BY DEF SubmitReveal, Require, Aggregate
<1>8. \A m \in Request : m.kind = "masked" => m.from \in Client /\ m.key \in Key
  BY DEF Request
<1> QED
  BY <1>1, <1>2, <1>3, <1>4, <1>5, <1>6, <1>7, <1>8 DEF Ask, Handle

(* A sound request keeps the shape of the round.                           *)
LEMMA SoundShape ==
  ASSUME TypeOK, RoundShape, NEW B, NEW m \in Request, Sound(B, m), Ask(m)
  PROVE  RoundShape'
<1>1. ASSUME m.kind = "keys", SubmitPubkeys(m.from, m.key) PROVE RoundShape'
  <2>1. m.from \in Client /\ m.key \in Key
    BY <1>1 DEF Request
  <2> QED
    BY <1>1, <2>1, ShapeStep DEF Next
<1>2. ASSUME m.kind = "shares", SubmitShares(m.from, m.targets, m.key) PROVE RoundShape'
  <2>1. /\ phase = "SHARE_KEYS" /\ phase' \in {"SHARE_KEYS", "COLLECT"}
        /\ UNCHANGED <<config, participants, pubkeys, masked, survivors, dropped,
                       bPool, sPool, accountant>>
    BY <1>2 DEF SubmitShares, Require, ledgerVars
  <2> QED
    BY <2>1 DEF RoundShape, Stored, Owners
<1>3. ASSUME m.kind = "masked", SubmitMasked(m.from, m.key) PROVE RoundShape'
  <2>1. m.from \in Client /\ m.key \in Key
    BY <1>3 DEF Request
  <2> QED
    BY <1>3, <2>1, ShapeStep DEF Next
<1>4. ASSUME m.kind = "reveal", SubmitReveal(m.from, m.b, m.s) PROVE RoundShape'
  BY <1>4, RevealShape DEF Sound
<1>5. ASSUME UNCHANGED server PROVE RoundShape'
  BY <1>5, ShapeStep DEF server
<1> QED
  BY <1>1, <1>2, <1>3, <1>4, <1>5 DEF Ask, Handle

(* What the server has stays sound where it changes none of it.            *)
LEMMA PiecesAlone ==
  ASSUME NEW B, Pieces(B), UNCHANGED <<pubkeys, shareInbox, masked, bPool, sPool, revealed>>,
         (phase' # "DONE" /\ revealed = {}) \/ UNCHANGED <<phase, config, survivors, dropped>>
  PROVE  Pieces(B)'
BY DEF Pieces, Opens, Names, SharesSuffice, Owners, Reports

(* What a sound request leaves on the server is sound.                     *)
LEMMA SoundHandled ==
  ASSUME TypeOK, RoundShape, NEW B, Pieces(B), NEW m \in Request, Sound(B, m), Ask(m)
  PROVE  Pieces(B)'
<1>a. TypeOK' /\ RoundShape'
  BY AskType, SoundShape
<1>1. ASSUME m.kind = "keys", SubmitPubkeys(m.from, m.key) PROVE Pieces(B)'
  <2>1. /\ m.from \in Client /\ m.key[1] = m.from
        /\ phase = "ADVERTISE_KEYS" /\ phase' # "DONE"
        /\ pubkeys' = [pubkeys EXCEPT ![m.from] = m.key]
        /\ UNCHANGED <<shareInbox, masked, survivors, bPool, sPool, revealed>>
    BY <1>1 DEF Request, Sound, SubmitPubkeys, Require
  <2>2. bPool = {} /\ sPool = {}
    BY <2>1 DEF RoundShape
  <2>3. \A o \in Client : pubkeys'[o] # NoKey => pubkeys'[o][1] = o
    BY <2>1 DEF Pieces, TypeOK
  <2> QED
    BY <2>1, <2>2, <2>3 DEF Pieces, Names, SharesSuffice, Reports
<1>2. ASSUME m.kind = "shares", SubmitShares(m.from, m.targets, m.key) PROVE Pieces(B)'
  <2>1. /\ m.from \in Client /\ Names(B, m.key, m.from)
        /\ phase = "SHARE_KEYS" /\ phase' # "DONE"
        /\ shareInbox' = [t \in Client |->
                            IF t \in m.targets THEN [shareInbox[t] EXCEPT ![m.from] = m.key]
                                               ELSE shareInbox[t]]
        /\ UNCHANGED <<pubkeys, masked, survivors, bPool, sPool, revealed>>
    BY <1>2 DEF Request, Sound, SubmitShares, Require
  <2>2. \A t, o \in Client : shareInbox'[t][o] # NoKey => Names(B, shareInbox'[t][o], o)
    BY <2>1 DEF Pieces, TypeOK
  <2>3. bPool = {} /\ sPool = {}
    BY <2>1 DEF RoundShape
  <2> QED
    BY <2>1, <2>2, <2>3 DEF Pieces, Names, SharesSuffice, Reports
<1>3. ASSUME m.kind = "masked", SubmitMasked(m.from, m.key) PROVE Pieces(B)'
  <2>1. /\ m.from \in Client /\ Names(B, m.key, m.from)
        /\ phase = "COLLECT" /\ phase' # "DONE"
        /\ masked' = [masked EXCEPT ![m.from] = m.key]
        /\ UNCHANGED <<pubkeys, shareInbox, bPool, sPool, revealed>>
    BY <1>3 DEF Request, Sound, SubmitMasked, Require, CloseCollection
  <2>2. bPool = {} /\ sPool = {} /\ revealed = {}
    BY <2>1 DEF RoundShape, Pieces, Reports
  <2>3. \A o \in Client : masked'[o] # NoKey => Names(B, masked'[o], o)
    BY <2>1 DEF Pieces, TypeOK
  <2> QED
    BY <2>1, <2>2, <2>3 DEF Pieces, Names, SharesSuffice, Reports
<1>4. ASSUME m.kind = "reveal", SubmitReveal(m.from, m.b, m.s) PROVE Pieces(B)'
  <2>1. /\ phase = "UNMASK"
        /\ bPool' = bPool \cup {[owner |-> x.owner, holder |-> m.from, key |-> x.key] : x \in m.b}
        /\ sPool' = sPool \cup {[owner |-> x.owner, holder |-> m.from, key |-> x.key] : x \in m.s}
        /\ UNCHANGED <<config, pubkeys, shareInbox, masked, survivors, dropped>>
        /\ revealed' = revealed \cup {m.from} /\ m.from \in survivors
        /\ phase' \in Closed /\ (phase' = "DONE" => ReadyToAggregate)
    BY <1>4 DEF SubmitReveal, Require, Aggregate, Closed, Sound
  <2>2. \A x \in m.b \cup m.s : Opens(B, x, m.from)
    BY <1>4 DEF Sound
  <2>3. ASSUME NEW x \in bPool' \cup sPool' PROVE Opens(B, x, x.holder)
    <3>1. CASE x \in bPool \cup sPool
      BY <3>1 DEF Pieces
    <3>2. CASE x \notin bPool \cup sPool
      <4>1. PICK y \in m.b \cup m.s : x = [owner |-> y.owner, holder |-> m.from, key |-> y.key]
        BY <2>1, <2>3, <3>2
      <4> QED
        BY <2>2, <4>1 DEF Opens
    <3> QED
      BY <3>1, <3>2
  <2>4. SharesSuffice'
    BY <1>a, <2>1, ReadySuffices DEF SharesSuffice
  <2>5. Reports'
    <3>1. revealed' \subseteq survivors'
      BY <2>1 DEF Pieces, Reports
    <3>2. ASSUME phase' = "DONE" PROVE revealed' = survivors'
      <4>1. survivors \in SUBSET Client /\ Cardinality(revealed') = Cardinality(survivors)
        BY <2>1, <3>2 DEF ReadyToAggregate, TypeOK
      <4> QED
        BY <2>1, <3>1, <4>1, AllOfThem
    <3> QED
      BY <3>1, <3>2 DEF Reports
  <2> QED
    BY <2>1, <2>3, <2>4, <2>5 DEF Pieces, Names, Opens
<1>5. ASSUME UNCHANGED server PROVE Pieces(B)'
  BY <1>5, PiecesAlone DEF server, vars, roundVars
<1> QED
  BY <1>1, <1>2, <1>3, <1>4, <1>5 DEF Ask, Handle

(* A request under way stays sound while the round moves on.               *)
LEMMA SoundStays ==
  ASSUME NEW B, NEW C, B \subseteq C, Within, NEW m, Sound(B, m)
  PROVE  Sound(C, m)'
<1>1. \A k, o : Names(B, k, o) => Names(C, k, o)
  BY DEF Names
<1>2. ASSUME phase \in Closed
      PROVE  /\ phase' \in Closed /\ pubkeys' = pubkeys
             /\ survivors' = survivors /\ dropped' = dropped
  BY <1>2 DEF Within, Closed, PreShare
<1> QED
  BY <1>1, <1>2 DEF Sound, Opens, Names

(* And so does what a client knows when it was not its step.               *)
LEMMA KnowsStays ==
  ASSUME NEW d \in Client, Knows(d), Within, phase # "IDLE", cl'[d] = cl[d],
         NEW E, book' = book \cup E, \A e \in E : e.key[1] # d
  PROVE  Knows(d)'
BY DEF Knows, Working, Within, Names, Stored, PreShare, Closed

(* The instances that made shares stay the same.                           *)
LEMMA OneEachStays ==
  ASSUME OneEach, Within, phase # "IDLE", book' = book
  PROVE  OneEach'
BY DEF OneEach, Within, PreShare

(* The invariant after a step of client c that made the shares in E.       *)
LEMMA LateActs ==
  ASSUME LateInv, TypeInv', RoundShape', Within, NEW c \in Client,
         \A d \in Client \ {c} : cl'[d] = cl[d],
         NEW E, book' = book \cup E, \A e \in E : e.key[1] = c,
         roundId = 0 => E = {} /\ late' = {} /\ ~Working(c)',
         phase # "IDLE" => /\ Pieces(book)' /\ OneEach' /\ Knows(c)'
                           /\ \A m \in late' : Sound(book, m)'
  PROVE  LateInv'
<1>1. ASSUME phase # "IDLE", NEW d \in Client \ {c} PROVE Knows(d)'
  BY <1>1, KnowsStays DEF LateInv
<1>2. \A d \in Client \ {c} : Working(d)' <=> Working(d)
  BY DEF Working
<1> QED
  BY <1>1, <1>2 DEF LateInv, Within

(* The invariant after a step of client c that leaves the requests under   *)
(* way and the server's part alone.                                        *)
LEMMA LateGoesOn ==
  ASSUME LateInv, TypeInv', RoundShape', Within, NEW c \in Client,
         UNCHANGED <<book, late>>, \A d \in Client \ {c} : cl'[d] = cl[d],
         roundId # 0 \/ Working(c) \/ ~Working(c)',
         phase # "IDLE" => Pieces(book)' /\ Knows(c)'
  PROVE  LateInv'
<1>1. roundId = 0 => late' = {} /\ ~Working(c)'
  BY DEF LateInv
<1>2. ASSUME phase # "IDLE" PROVE OneEach' /\ \A m \in late' : Sound(book, m)'
  <2>1. PICK B : B = book
    OBVIOUS
  <2>2. \A m \in late' : Sound(B, m)'
    BY <1>2, <2>1, SoundStays DEF LateInv
  <2> QED
    BY <1>2, <2>1, <2>2, OneEachStays DEF LateInv, Sound, Opens, Names
<1>3. PICK E : E = {}
  OBVIOUS
<1>4. book' = book \cup E /\ \A e \in E : e.key[1] = c
  BY <1>3
<1> QED
  BY <1>1, <1>2, <1>3, <1>4, LateActs

(* What a server that handled nothing has stays sound.                     *)
LEMMA ServerAlone ==
  ASSUME LateInv, UNCHANGED server \/ (\E c \in Client : Register(c) \/ Unregister(c)),
         UNCHANGED book
  PROVE  /\ RoundShape' /\ Within
         /\ phase # "IDLE" => Pieces(book)'
<1>1. TypeOK /\ RoundShape
  BY DEF LateInv, TypeInv, SecAggTypeOK
<1>2. RoundShape' /\ Within
  BY <1>1, ShapeStep, WithinSteps DEF server, Next
<1>3. ASSUME phase # "IDLE" PROVE Pieces(book)'
  <2>1. PICK B : B = book
    OBVIOUS
  <2>2. UNCHANGED <<phase, config, roundVars>>
    BY DEF server, vars, Register, Unregister
  <2>3. Pieces(B)'
    BY <1>3, <2>1, <2>2, PiecesAlone DEF LateInv, roundVars
  <2> QED
    BY <2>1, <2>3 DEF Pieces, Names, Opens
<1> QED
  BY <1>2, <1>3

(* Posting a request that is sound keeps the server's part and the         *)
(* requests under way, this one among them if it is late, sound.           *)
LEMMA LatePost ==
  ASSUME LateInv, NEW c, NEW m \in Request, NEW after, Post(c, m, after),
         NEW B, book' = B, book \subseteq B, phase # "IDLE" => Sound(B, m)
  PROVE  /\ RoundShape' /\ Within
         /\ Become(c, after) \/ Become(c, Looping)
         /\ phase # "IDLE" => Pieces(book)' /\ \A x \in late' : Sound(book, x)'
<1>1. /\ Ask(m) \/ UNCHANGED server
      /\ Become(c, after) \/ Become(c, Looping)
      /\ late' \subseteq late \cup {m}
  BY DEF Post, Ask, Raise
<1>2. TypeOK /\ RoundShape
  BY DEF LateInv, TypeInv, SecAggTypeOK
<1>3. Within
  BY <1>1, <1>2, WithinSteps
<1>4. CASE phase = "IDLE"
  <2>1. UNCHANGED server
    BY <1>1, <1>4 DEF Ask, Handle, SubmitPubkeys, SubmitShares, SubmitMasked, SubmitReveal,
                      Require
  <2> QED
    BY <1>1, <1>2, <1>3, <1>4, <2>1, ShapeStep DEF server
<1>5. CASE phase # "IDLE"
  <2>1. Sound(B, m) /\ Pieces(book) /\ \A x \in late : Sound(book, x)
    BY <1>5 DEF LateInv
  <2>2. Pieces(B)
    BY <2>1 DEF Pieces, Names, Opens
  <2>3. ASSUME UNCHANGED server PROVE RoundShape' /\ Pieces(B)'
    BY <1>2, <2>2, <2>3, ShapeStep, PiecesAlone DEF server, vars, roundVars
  <2>4. RoundShape' /\ Pieces(B)'
    BY <1>1, <1>2, <2>1, <2>2, <2>3, SoundShape, SoundHandled
  <2>5. \A x \in late' : Sound(B, x)'
    BY <1>1, <1>3, <2>1, SoundStays
  <2>6. Pieces(book)' /\ \A x \in late' : Sound(book, x)'
    BY <2>4, <2>5 DEF Pieces, Sound, Names, Opens
  <2> QED
    BY <1>1, <1>3, <2>4, <2>6
<1> QED
  BY <1>4, <1>5

(* A client that is back in its loop, or no longer runs, knows nothing.    *)
LEMMA LateIdles ==
  ASSUME LateInv, TypeInv', NEW c \in Client, cl'[c].pc \in Idle,
         \A d \in Client \ {c} : cl'[d] = cl[d], UNCHANGED <<book, late>>,
         UNCHANGED server \/ (\E d \in Client : Register(d) \/ Unregister(d))
  PROVE  LateInv'
BY ServerAlone, LateGoesOn DEF Knows, Working

(* A client that read something from the server and goes on.               *)
LEMMA LateReads ==
  ASSUME LateInv, TypeInv', NEW c \in Client, roundId # 0 \/ Working(c),
         \A d \in Client \ {c} : cl'[d] = cl[d], UNCHANGED <<server, book, late>>,
         phase # "IDLE" => Knows(c)'
  PROVE  LateInv'
BY ServerAlone, LateGoesOn

(* A client that posted something, its shares aside.                       *)
LEMMA LatePosts ==
  ASSUME LateInv, TypeInv', NEW c \in Client, Working(c), NEW m \in Request, NEW after,
         Post(c, m, after), UNCHANGED book, phase # "IDLE" => Sound(book, m)
  PROVE  /\ Within
         /\ cl'[c] = after \/ cl'[c] = Looping
         /\ (phase # "IDLE" => Knows(c)') => LateInv'
<1>1. PICK B : B = book
  OBVIOUS
<1>2. phase # "IDLE" => Sound(B, m)
  BY <1>1
<1>3. /\ RoundShape' /\ Within
      /\ Become(c, after) \/ Become(c, Looping)
      /\ phase # "IDLE" => Pieces(book)' /\ \A x \in late' : Sound(book, x)'
  BY <1>1, <1>2, LatePost
<1>4. /\ cl'[c] = after \/ cl'[c] = Looping
      /\ \A d \in Client \ {c} : cl'[d] = cl[d]
  BY <1>3 DEF Become, LateInv, TypeInv, SecAggTypeOK
<1>5. phase # "IDLE" => OneEach'
  BY <1>3, OneEachStays DEF LateInv
<1>6. PICK E : E = {}
  OBVIOUS
<1>7. /\ book' = book \cup E /\ \A e \in E : e.key[1] = c
      /\ roundId # 0
  BY <1>6 DEF LateInv
<1>8. (phase # "IDLE" => Knows(c)') => LateInv'
  BY <1>3, <1>4, <1>5, <1>7, LateActs
<1> QED
  BY <1>3, <1>4, <1>8

(* Back in its loop a client knows nothing.                                *)
LEMMA LoopingKnows == ASSUME NEW c, cl'[c] = Looping PROVE Knows(c)'
BY DEF Knows, Working, Looping, Idle

(* Noticing the round.                                                     *)
LEMMA LateNotice ==
  ASSUME LateInv, TypeInv', NEW c \in Client, Notice(c)
  PROVE  LateInv'
<1>1. /\ cl'[c] = Looping \/ cl'[c] = Noticing(roundId, <<c, roundId, life[c]>>, participants)
      /\ \A d \in Client \ {c} : cl'[d] = cl[d]
      /\ UNCHANGED <<server, book, late>> /\ phase = "ADVERTISE_KEYS"
  BY DEF Notice, Become, Noticing, LateInv, TypeInv, SecAggTypeOK
<1>2. /\ roundId \in 1 .. MaxRound /\ life[c] \in 0 .. MaxFaults
      /\ participants \in SUBSET Client
  BY <1>1, MaxRoundAssumption DEF LateInv, TypeInv, SecAggTypeOK, TypeOK
<1>3. <<c, roundId, life[c]>> \in Key
  BY <1>2, Instances
<1>4. Knows(c)'
  <2>1. CASE cl'[c] = Looping
    BY <2>1, LoopingKnows
  <2>2. CASE cl'[c] = Noticing(roundId, <<c, roundId, life[c]>>, participants)
    <3>1. /\ cl'[c].pc = "advertise" /\ cl'[c].key = <<c, roundId, life[c]>>
          /\ cl'[c].parts = participants
      BY <1>2, <1>3, <2>2, RoundNoticed
    <3>2. book' = {} /\ participants' = participants
      BY <1>1 DEF LateInv, OneEach, PreShare, server, vars, roundVars
    <3> QED
      BY <3>1, <3>2 DEF Knows, Unshared, Early, Idle, HasInbox
  <2> QED
    BY <1>1, <2>1, <2>2
<1>5. roundId # 0
  BY <1>2
<1> QED
  BY <1>1, <1>4, <1>5, LateReads

(* Uploading the public keys, at once or late.                             *)
LEMMA LateAdvertise ==
  ASSUME LateInv, TypeInv', NEW c \in Client, Advertise(c)
  PROVE  LateInv'
<1> DEFINE after == [cl[c] EXCEPT !.pc = "waitShare"]
<1>1. /\ Post(c, KeysRequest(c), after) /\ cl[c].pc = "advertise" /\ Working(c)
      /\ UNCHANGED book
  BY DEF Advertise, At, Working, Idle
<1>2. cl[c] \in LocalState /\ cl[c].key \in Key /\ (phase # "IDLE" => Knows(c))
  BY <1>1 DEF LateInv, TypeInv, SecAggTypeOK
<1>3. KeysRequest(c) \in Request
  BY <1>2 DEF KeysRequest, Request
<1>4. phase # "IDLE" => Sound(book, KeysRequest(c))
  BY <1>1, <1>2 DEF Sound, KeysRequest, Knows
<1>5. /\ after.pc = "waitShare" /\ after.key = cl[c].key /\ after.parts = cl[c].parts
  BY <1>2 DEF LocalState
<1> HIDE DEF after
<1>6. /\ Within
      /\ cl'[c] = after \/ cl'[c] = Looping
      /\ (phase # "IDLE" => Knows(c)') => LateInv'
  BY <1>1, <1>3, <1>4, LatePosts
<1>7. ASSUME cl'[c] = after, phase # "IDLE" PROVE Knows(c)'
  <2>1. /\ cl[c].key[1] = c /\ cl[c].parts = participants
        /\ \A e \in book : e.key[1] # c
    BY <1>1, <1>2, <1>7 DEF Knows, Unshared, Early
  <2> QED
    BY <1>1, <1>5, <1>6, <1>7, <2>1
    DEF Knows, Working, Within, Unshared, Early, Idle, HasInbox
<1> QED
  BY <1>6, <1>7, LoopingKnows

(* Reading the peers' keys.                                                *)
LEMMA LateWaitShare ==
  ASSUME LateInv, TypeInv', NEW c \in Client, WaitShare(c)
  PROVE  LateInv'
<1>1. /\ cl'[c] = WithPeers(cl[c], pubkeys) /\ cl[c].pc = "waitShare" /\ Working(c)
      /\ \A d \in Client \ {c} : cl'[d] = cl[d]
      /\ UNCHANGED <<server, book, late>> /\ phase = "SHARE_KEYS"
  BY DEF WaitShare, SeePhase, At, Become, WithPeers, Working, Idle, LateInv, TypeInv,
         SecAggTypeOK
<1>2. cl[c] \in LocalState /\ pubkeys \in [Client -> Slot] /\ Knows(c)
  BY <1>1 DEF LateInv, TypeInv, SecAggTypeOK, TypeOK
<1>3. /\ cl'[c].pc = "share" /\ cl'[c].key = cl[c].key /\ cl'[c].parts = cl[c].parts
      /\ cl'[c].peers = pubkeys
  BY <1>1, <1>2, PeersRead
<1>4. UNCHANGED <<phase, participants, pubkeys, book>>
  BY <1>1 DEF server, vars, roundVars
<1>5. Knows(c)'
  BY <1>1, <1>2, <1>3, <1>4 DEF Knows, Unshared, Early, Idle, HasInbox, PreShare
<1> QED
  BY <1>1, <1>5, LateReads

(* Making shares: this instance is the first of its client to do so, and   *)
(* it made them of the keys the server has.                                *)
LEMMA LateShareKeys ==
  ASSUME LateInv, TypeInv', NEW c \in Client, ShareKeys(c)
  PROVE  LateInv'
<1> DEFINE after == [cl[c] EXCEPT !.pc = "waitCollect"]
           e == [key |-> cl[c].key, peers |-> cl[c].peers, parts |-> cl[c].parts]
<1>1. /\ Post(c, SharesRequest(c), after) /\ cl[c].pc = "share" /\ Working(c)
      /\ book' = book \cup {e}
  BY DEF ShareKeys, At, Working, Idle
<1>2. cl[c] \in LocalState /\ cl[c].key \in Key /\ (phase # "IDLE" => Knows(c))
  BY <1>1 DEF LateInv, TypeInv, SecAggTypeOK
<1>3. ASSUME phase # "IDLE"
      PROVE  /\ cl[c].key[1] = c /\ cl[c].parts = participants /\ cl[c].peers = pubkeys
             /\ phase \notin PreShare /\ \A f \in book : f.key[1] # c
  BY <1>1, <1>2, <1>3 DEF Knows, Unshared, Early, Idle
<1>4. e.key = cl[c].key /\ e.peers = cl[c].peers /\ e.parts = cl[c].parts
  OBVIOUS
<1> HIDE DEF e
<1>5. SharesRequest(c) \in Request
  BY <1>2 DEF SharesRequest, Request, Stored
<1>6. PICK B : B = book \cup {e}
  OBVIOUS
<1>7. phase # "IDLE" => Sound(B, SharesRequest(c))
  <2>1. ASSUME phase # "IDLE" PROVE Names(B, cl[c].key, c)
    <3>1. e \in B /\ cl[c].key[1] = c
      BY <1>3, <1>6, <2>1
    <3> QED
      BY <1>4, <3>1 DEF Names
  <2>2. /\ SharesRequest(c).kind = "shares" /\ SharesRequest(c).from = c
        /\ SharesRequest(c).key = cl[c].key
    BY DEF SharesRequest
  <2> QED
    BY <2>1, <2>2 DEF Sound
<1>8. /\ after.pc = "waitCollect" /\ after.key = cl[c].key /\ after.parts = cl[c].parts
      /\ after.peers = cl[c].peers
  BY <1>2 DEF LocalState
<1> HIDE DEF after
<1>9. /\ RoundShape' /\ Within
      /\ Become(c, after) \/ Become(c, Looping)
      /\ phase # "IDLE" => Pieces(book)' /\ \A x \in late' : Sound(book, x)'
  BY <1>1, <1>5, <1>6, <1>7, LatePost
<1>10. /\ cl'[c] = after \/ cl'[c] = Looping
       /\ \A d \in Client \ {c} : cl'[d] = cl[d]
  BY <1>9 DEF Become, LateInv, TypeInv, SecAggTypeOK
<1>11. ASSUME phase # "IDLE" PROVE OneEach'
  <2>1. phase' \notin PreShare /\ pubkeys' = pubkeys /\ participants' = participants
    BY <1>3, <1>9, <1>11 DEF Within
  <2>2. OneEach
    BY <1>11 DEF LateInv
  <2>3. \A f \in book' : f.peers = pubkeys /\ f.parts = participants
    BY <1>1, <1>3, <1>4, <1>11, <2>2 DEF OneEach
  <2>4. \A f, g \in book' : f.key[1] = g.key[1] => f = g
    BY <1>1, <1>3, <1>4, <1>11, <2>2 DEF OneEach
  <2> QED
    BY <2>1, <2>3, <2>4 DEF OneEach
<1>12. ASSUME cl'[c] = after, phase # "IDLE" PROVE Knows(c)'
  <2>1. phase' \notin PreShare /\ pubkeys' = pubkeys /\ participants' = participants
    BY <1>3, <1>9, <1>12 DEF Within
  <2>2. e \in book'
    BY <1>1
  <2> QED
    BY <1>3, <1>8, <1>4, <1>12, <2>1, <2>2 DEF Knows, Unshared, Early, Idle, HasInbox
<1>13. ASSUME phase = "IDLE" PROVE LateInv'
  <2>1. phase' = "IDLE" /\ roundId' = roundId /\ roundId # 0
    BY <1>1, <1>9, <1>13 DEF Within, LateInv
  <2> QED
    BY <1>9, <2>1 DEF LateInv
<1>14. ASSUME phase # "IDLE" PROVE LateInv'
  <2> PICK E : E = {e}
    OBVIOUS
  <2>1. /\ roundId # 0 /\ book' = book \cup E
        /\ \A f \in E : f.key[1] = c
    BY <1>1, <1>3, <1>4, <1>14 DEF LateInv
  <2>2. Knows(c)'
    BY <1>10, <1>12, <1>14, LoopingKnows
  <2> QED
    BY <1>1, <1>9, <1>10, <1>11, <1>14, <2>1, <2>2, LateActs
<1> QED
  BY <1>13, <1>14

(* A client goes on with what it knows.                                    *)
LEMMA LateKeepsKnowing ==
  ASSUME TypeInv, NEW c \in Client, NEW q \in Place, phase # "IDLE" => Knows(c), Within,
         cl'[c] = [cl[c] EXCEPT !.pc = q], UNCHANGED book,
         cl[c].pc \notin Unshared, q \notin Unshared, q # "reveal",
         q \in HasInbox => cl[c].pc \in HasInbox,
         q = "waitUnmask" => masked'[c] # NoKey
  PROVE  phase # "IDLE" => Knows(c)'
<1>1. /\ cl'[c].pc = q /\ cl'[c].key = cl[c].key /\ cl'[c].parts = cl[c].parts
      /\ cl'[c].peers = cl[c].peers /\ cl'[c].inbox = cl[c].inbox
  BY DEF TypeInv, SecAggTypeOK, LocalState
<1>2. Working(c) /\ cl[c].pc \notin Early
  BY DEF Working, Unshared, Early
<1> QED
  BY <1>1, <1>2 DEF Knows, Within, Stored, Names

(* Seeing that collection began, or looking whether it may be closed.      *)
LEMMA LateGoOn ==
  ASSUME LateInv, TypeInv', NEW c \in Client, NEW q \in Place, GoTo(c, q),
         UNCHANGED <<server, book, late>>,
         cl[c].pc \notin Unshared, q \notin Unshared \cup {"waitUnmask", "reveal"},
         q \in HasInbox => cl[c].pc \in HasInbox
  PROVE  LateInv'
<1>1. /\ cl'[c] = [cl[c] EXCEPT !.pc = q] /\ \A d \in Client \ {c} : cl'[d] = cl[d]
  BY DEF GoTo, Become, LateInv, TypeInv, SecAggTypeOK
<1>2. Within /\ Working(c)
  BY WithinSteps DEF Working, Unshared, Early, LateInv, TypeInv, SecAggTypeOK
<1>3. phase # "IDLE" => Knows(c)'
  BY <1>1, <1>2, LateKeepsKnowing DEF LateInv
<1> QED
  BY <1>1, <1>2, <1>3, LateReads

(* Fetching the inbox.                                                     *)
LEMMA LateFetchInbox ==
  ASSUME LateInv, TypeInv', NEW c \in Client, FetchInbox(c)
  PROVE  LateInv'
<1> DEFINE place == IF c \in Dropper THEN "closing" ELSE "train"
<1>1. /\ cl'[c] = WithInbox(cl[c], place, shareInbox[c]) /\ cl[c].pc = "fetch" /\ Working(c)
      /\ \A d \in Client \ {c} : cl'[d] = cl[d]
      /\ UNCHANGED <<server, book, late>>
  BY DEF FetchInbox, At, Become, WithInbox, Working, Idle, LateInv, TypeInv, SecAggTypeOK
<1>2. /\ cl[c] \in LocalState /\ shareInbox[c] \in [Client -> Slot]
      /\ phase # "IDLE" => Knows(c) /\ Pieces(book)
  BY DEF LateInv, TypeInv, SecAggTypeOK, TypeOK
<1>3. place \in Place /\ place \in HasInbox /\ place \notin {"waitUnmask", "reveal"}
  BY DEF Place, Waiting, HasInbox
<1> HIDE DEF place
<1>4. /\ cl'[c].pc = place /\ cl'[c].key = cl[c].key /\ cl'[c].parts = cl[c].parts
      /\ cl'[c].peers = cl[c].peers /\ cl'[c].inbox = shareInbox[c]
  BY <1>1, <1>2, <1>3, InboxRead
<1>5. UNCHANGED <<phase, participants, pubkeys, book>>
  BY <1>1 DEF server, vars, roundVars
<1>6. ASSUME phase # "IDLE" PROVE Knows(c)'
  <2>1. \A o \in Stored(shareInbox[c]) : Names(book, shareInbox[c][o], o)
    BY <1>2, <1>6 DEF Pieces, Stored
  <2>2. place \notin Unshared
    BY <1>3 DEF Unshared, Early, Idle, HasInbox
  <2>3. /\ cl[c].key[1] = c /\ cl[c].parts = participants
        /\ phase \notin PreShare /\ cl[c].peers = pubkeys
        /\ \E e \in book : e.key = cl[c].key
    BY <1>1, <1>2, <1>6 DEF Knows, Unshared, Early, Idle
  <2> QED
    BY <1>3, <1>4, <1>5, <2>1, <2>2, <2>3 DEF Knows, Names, Stored
<1> QED
  BY <1>1, <1>6, LateReads

(* Uploading the masked vector, at once or late.                           *)
LEMMA LateTrainAndMask ==
  ASSUME LateInv, TypeInv', NEW c \in Client, TrainAndMask(c)
  PROVE  LateInv'
<1> DEFINE after == [cl[c] EXCEPT !.pc = "waitUnmask"]
<1>1. /\ Post(c, MaskedRequest(c), after) /\ cl[c].pc = "train" /\ Working(c)
      /\ UNCHANGED book
  BY DEF TrainAndMask, At, Working, Idle
<1>2. /\ TypeInv /\ cl[c].key \in Key /\ (phase # "IDLE" => Knows(c))
  BY <1>1 DEF LateInv, TypeInv
<1>3. MaskedRequest(c) \in Request
  BY <1>2 DEF MaskedRequest, Request
<1>4. phase # "IDLE" => Sound(book, MaskedRequest(c))
  BY <1>1, <1>2 DEF Sound, MaskedRequest, Knows, Names, Unshared, Early, Idle
<1> HIDE DEF after
<1>5. /\ Within
      /\ cl'[c] = after \/ cl'[c] = Looping
      /\ (phase # "IDLE" => Knows(c)') => LateInv'
  BY <1>1, <1>3, <1>4, LatePosts
<1>6. ASSUME cl'[c] = after, cl'[c] # Looping PROVE phase # "IDLE" => Knows(c)'
  <2>1. SubmitMasked(c, cl[c].key)
    <3>1. Handle(MaskedRequest(c)) \/ Become(c, Looping)
      BY <1>1 DEF Post, Repeated, MaskedRequest, Raise
    <3>2. Become(c, Looping) => cl'[c] = Looping
      BY <1>2 DEF Become, TypeInv, SecAggTypeOK
    <3> QED
      BY <1>6, <3>1, <3>2, MaskedHandled
  <2>2. masked'[c] # NoKey
    BY <1>2, <2>1, KeyAssumption DEF SubmitMasked, TypeInv, SecAggTypeOK, TypeOK
  <2>3. /\ cl[c].pc \notin Unshared /\ "waitUnmask" \notin Unshared
        /\ cl[c].pc \in HasInbox /\ "waitUnmask" \in Place
    BY <1>1 DEF Unshared, Early, Idle, HasInbox, Place, Waiting
  <2> QED
    BY <1>1, <1>2, <1>5, <1>6, <2>3, <2>2, LateKeepsKnowing DEF after
<1> QED
  BY <1>5, <1>6, LoopingKnows

(* Reading the lists of survivors and dropped.                             *)
LEMMA LateWaitUnmask ==
  ASSUME LateInv, TypeInv', NEW c \in Client, WaitUnmask(c)
  PROVE  LateInv'
<1>1. /\ cl'[c] = WithLists(cl[c], survivors, dropped) /\ cl[c].pc = "waitUnmask"
      /\ Working(c) /\ \A d \in Client \ {c} : cl'[d] = cl[d]
      /\ UNCHANGED <<server, book, late>> /\ phase = "UNMASK"
  BY DEF WaitUnmask, SeePhase, At, Become, WithLists, Working, Idle, LateInv, TypeInv,
         SecAggTypeOK
<1>2. /\ cl[c] \in LocalState /\ Knows(c)
      /\ survivors \in SUBSET Client /\ dropped \in SUBSET Client
  BY <1>1 DEF LateInv, TypeInv, SecAggTypeOK, TypeOK
<1>3. /\ cl'[c].pc = "reveal" /\ cl'[c].key = cl[c].key /\ cl'[c].parts = cl[c].parts
      /\ cl'[c].peers = cl[c].peers /\ cl'[c].inbox = cl[c].inbox
      /\ cl'[c].survivors = survivors /\ cl'[c].dropped = dropped
  BY <1>1, <1>2, ListsRead
<1>4. UNCHANGED <<phase, participants, pubkeys, masked, survivors, dropped, book>>
  BY <1>1 DEF server, vars, roundVars
<1>5. Knows(c)'
  BY <1>1, <1>2, <1>3, <1>4
  DEF Knows, Unshared, Early, Idle, HasInbox, PreShare, Closed, Names, Stored
<1> QED
  BY <1>1, <1>5, LateReads

(* What a client opens is sound: it opens by the server's own lists, its   *)
(* own share under its own key, the others' under the keys the server has. *)
LEMMA RevealSound ==
  ASSUME TypeInv, RoundShape, NEW c \in Client, Knows(c), cl[c].pc = "reveal",
         \A o \in Stored(cl[c].inbox) : Unseals(c, o)
  PROVE  Sound(book, RevealRequest(c))
<1>1. /\ phase \in Closed /\ cl[c].survivors = survivors /\ cl[c].dropped = dropped
      /\ cl[c].peers = pubkeys /\ masked[c] # NoKey
      /\ Names(book, cl[c].key, c)
      /\ \A o \in Stored(cl[c].inbox) : Names(book, cl[c].inbox[o], o)
  BY DEF Knows, Working, Unshared, Early, Idle, HasInbox, Names
<1>2. \A o \in Stored(cl[c].inbox) : cl[c].inbox[o] = pubkeys[o]
  BY <1>1 DEF Unseals
<1>3. ASSUME NEW O, NEW x \in Opened(c, O) PROVE x.owner \in O /\ Opens(book, x, c)
  <2>1. PICK o \in Stored(cl[c].inbox) \cap O : x = [owner |-> o, key |-> cl[c].inbox[o]]
    BY DEF Opened
  <2> QED
    BY <1>1, <1>2, <2>1 DEF Opens
<1>4. ASSUME NEW x \in {[owner |-> o, key |-> cl[c].key] : o \in {c} \cap cl[c].survivors}
      PROVE  x.owner \in survivors /\ Opens(book, x, c)
  <2>1. x = [owner |-> c, key |-> cl[c].key] /\ c \in survivors
    BY <1>1
  <2> QED
    BY <1>1, <2>1 DEF Opens
<1>5. /\ RevealRequest(c).kind = "reveal" /\ RevealRequest(c).from = c
      /\ \A x \in RevealRequest(c).b : x.owner \in survivors /\ Opens(book, x, c)
      /\ \A x \in RevealRequest(c).s : x.owner \in dropped /\ Opens(book, x, c)
  BY <1>1, <1>3, <1>4 DEF RevealRequest
<1>6. c \in survivors
  BY <1>1 DEF RoundShape, Closed, Stored
<1> QED
  BY <1>1, <1>5, <1>6 DEF Sound

(* Revealing, at once or late, or failing to.                              *)
LEMMA LateReveal ==
  ASSUME LateInv, TypeInv', NEW c \in Client, Reveal(c)
  PROVE  LateInv'
<1>1. cl[c].pc = "reveal" /\ Working(c) /\ UNCHANGED book
  BY DEF Reveal, At, Working, Idle
<1>2. CASE \A o \in Stored(cl[c].inbox) : Unseals(c, o)
  <2>1. Post(c, RevealRequest(c), Looping)
    BY <1>2 DEF Reveal
  <2>2. RevealRequest(c) \in Request
    <3>1. /\ cl[c].key \in Key /\ cl[c].inbox \in [Client -> Slot]
          /\ cl[c].survivors \subseteq Client
      BY <1>1 DEF LateInv, TypeInv, SecAggTypeOK, LocalState
    <3>2. ASSUME NEW O PROVE Opened(c, O) \subseteq OpenShare
      BY <3>1 DEF Opened, OpenShare, Stored, Slot
    <3>3. {[owner |-> o, key |-> cl[c].key] : o \in {c} \cap cl[c].survivors}
            \subseteq OpenShare
      BY <3>1 DEF OpenShare
    <3> QED
      BY <3>2, <3>3 DEF RevealRequest, Request
  <2>3. phase # "IDLE" => Sound(book, RevealRequest(c))
    BY <1>1, <1>2, RevealSound DEF LateInv
  <2> QED
    BY <1>1, <2>1, <2>2, <2>3, LatePosts, LoopingKnows
<1>3. CASE ~\A o \in Stored(cl[c].inbox) : Unseals(c, o)
  <2>1. Become(c, Looping) /\ UNCHANGED <<server, late>>
    BY <1>3 DEF Reveal, Raise
  <2> QED
    BY <1>1, <2>1, LateIdles DEF Become, Looping, Idle, LateInv, TypeInv, SecAggTypeOK
<1> QED
  BY <1>2, <1>3

(* Closing the collection, by the driver or by a client.                   *)
LEMMA LateCloses ==
  ASSUME LateInv, TypeInv', ForceCloseCollection, UNCHANGED <<book, late>>,
         \/ UNCHANGED cl
         \/ \E c \in Client : cl[c].pc = "askClose" /\ GoTo(c, "waitDropped")
  PROVE  LateInv'
<1>1. TypeOK /\ RoundShape /\ phase = "COLLECT" /\ phase' = "UNMASK"
  BY DEF LateInv, TypeInv, SecAggTypeOK, ForceCloseCollection, CloseCollection
<1>2. RoundShape' /\ Within
  BY <1>1, ShapeStep, WithinSteps DEF Next
<1>3. Pieces(book)'
  <2>1. PICK B : B = book
    OBVIOUS
  <2>2. /\ UNCHANGED <<pubkeys, shareInbox, masked, bPool, sPool, revealed>>
        /\ phase' # "DONE" /\ revealed = {}
    BY <1>1 DEF LateInv, RoundShape, Pieces, Reports, ForceCloseCollection, CloseCollection
  <2>3. Pieces(B)'
    BY <1>1, <2>1, <2>2, PiecesAlone DEF LateInv
  <2> QED
    BY <2>1, <2>3 DEF Pieces, Names, Opens
<1>4. CASE UNCHANGED cl
  <2>1. PICK B : B = book
    OBVIOUS
  <2>2. \A m \in late' : Sound(B, m)'
    BY <1>1, <1>2, <2>1, SoundStays DEF LateInv
  <2>3. OneEach' /\ \A m \in late' : Sound(book, m)'
    BY <1>1, <1>2, <2>1, <2>2, OneEachStays DEF LateInv, Sound, Opens, Names
  <2>4. ASSUME NEW d \in Client PROVE Knows(d)'
    <3>1. PICK E : E = {}
      OBVIOUS
    <3>2. Knows(d) /\ book' = book \cup E /\ (\A e \in E : e.key[1] # d) /\ cl'[d] = cl[d]
      BY <1>1, <1>4, <3>1 DEF LateInv
    <3> QED
      BY <1>1, <1>2, <3>2, KnowsStays
  <2>5. roundId' # 0
    BY <1>1, <1>2 DEF Within, LateInv, TypeInv
  <2> QED
    BY <1>2, <1>3, <2>3, <2>4, <2>5 DEF LateInv
<1>5. ASSUME NEW c \in Client, cl[c].pc = "askClose", GoTo(c, "waitDropped")
      PROVE  LateInv'
  <2>1. /\ cl'[c] = [cl[c] EXCEPT !.pc = "waitDropped"]
        /\ \A d \in Client \ {c} : cl'[d] = cl[d]
    BY <1>5 DEF GoTo, Become, LateInv, TypeInv, SecAggTypeOK
  <2>2. /\ cl[c].pc \notin Unshared /\ "waitDropped" \notin Unshared
        /\ cl[c].pc \in HasInbox /\ "waitDropped" \in Place /\ Working(c)
    BY <1>5 DEF Unshared, Early, Idle, HasInbox, Place, Waiting, Working
  <2>3. phase # "IDLE" => Knows(c)'
    BY <1>2, <2>1, <2>2, LateKeepsKnowing DEF LateInv
  <2> QED
    BY <1>2, <1>3, <2>1, <2>2, <2>3, LateGoesOn
<1> QED
  BY <1>4, <1>5

(* A late request that arrives is handled or refused like any other.       *)
LEMMA LateArrive ==
  ASSUME LateInv, TypeInv', NEW m \in late, Arrive(m)
  PROVE  LateInv'
<1>1. /\ m \in Request /\ TypeOK /\ RoundShape /\ roundId # 0
      /\ Ask(m) /\ late' \subseteq late /\ UNCHANGED <<cl, book>>
  BY DEF LateInv, TypeInv, SecAggTypeOK, Arrive
<1>2. Within
  BY <1>1, WithinSteps
<1>3. CASE phase = "IDLE"
  <2>1. UNCHANGED server
    BY <1>1, <1>3 DEF Ask, Handle, SubmitPubkeys, SubmitShares, SubmitMasked, SubmitReveal,
                      Require
  <2>2. RoundShape'
    BY <1>1, <2>1, ShapeStep DEF server
  <2> QED
    BY <1>1, <1>2, <1>3, <2>2 DEF LateInv, Within
<1>4. CASE phase # "IDLE"
  <2>1. PICK B : B = book
    OBVIOUS
  <2>2. Sound(B, m) /\ Pieces(B)
    BY <1>4, <2>1 DEF LateInv
  <2>3. RoundShape' /\ Pieces(B)'
    BY <1>1, <2>2, SoundShape, SoundHandled
  <2>4. \A x \in late' : Sound(B, x)'
    BY <1>1, <1>2, <1>4, <2>1, SoundStays DEF LateInv
  <2>5. OneEach' /\ Pieces(book)' /\ \A x \in late' : Sound(book, x)'
    BY <1>1, <1>2, <1>4, <2>1, <2>3, <2>4, OneEachStays
    DEF LateInv, Pieces, Sound, Opens, Names
  <2>6. ASSUME NEW d \in Client PROVE Knows(d)'
    <3>1. PICK E : E = {}
      OBVIOUS
    <3>2. Knows(d) /\ book' = book \cup E /\ (\A e \in E : e.key[1] # d) /\ cl'[d] = cl[d]
      BY <1>1, <1>4, <3>1 DEF LateInv
    <3> QED
      BY <1>2, <1>4, <3>2, KnowsStays
  <2> QED
    BY <1>1, <1>2, <2>3, <2>5, <2>6 DEF LateInv, Within
<1> QED
  BY <1>3, <1>4

(* The only round starts with nothing of an earlier one about.             *)
LEMMA LateStart ==
  ASSUME MaxRound = 1, LateInv, TypeInv', NEW P \in SUBSET Client, NEW sigma \in Sigma,
         Start(P, sigma)
  PROVE  LateInv'
<1>1. StartRound(P, sigma) /\ UNCHANGED <<cl, late, book>> /\ TypeOK /\ RoundShape
  BY DEF Start, LateInv, TypeInv, SecAggTypeOK
<1>2. roundId = 0 /\ roundId' # 0 /\ phase' = "ADVERTISE_KEYS"
  BY <1>1 DEF StartRound, TypeOK
<1>3. RoundShape'
  BY <1>1, ShapeStep DEF Next
<1>4. book' = {} /\ late' = {} /\ \A c \in Client : ~Working(c)'
  BY <1>1, <1>2 DEF LateInv, Working
<1>5. Pieces(book)'
  BY <1>1, <1>2 DEF StartRound, ResetRoundState, Pieces, SharesSuffice, Reports, Nothing
<1> QED
  BY <1>2, <1>3, <1>4, <1>5 DEF LateInv, OneEach, Knows

(* Every step keeps the invariant.                                         *)
LEMMA LateStep ==
  ASSUME MaxRound = 1, LateInv, [SecAggNext]_secAggVars
  PROVE  LateInv'
<1>a. TypeInv' /\ TypeInv /\ TypeOK /\ RoundShape /\ cl \in [Client -> LocalState]
  BY TypeInvStep DEF LateInv, TypeInv, SecAggTypeOK
<1>b. ASSUME NEW c \in Client, Raise(c), UNCHANGED <<server, book, late>> PROVE LateInv'
  BY <1>a, <1>b, LateIdles DEF Raise, Become, Looping, Idle
<1>1. ASSUME NEW c \in Client, Loop(c) PROVE LateInv'
  <2>1. /\ cl'[c].pc = "poll" /\ \A d \in Client \ {c} : cl'[d] = cl[d]
    BY <1>1, <1>a DEF Loop, GoTo, Become, LocalState
  <2> QED
    BY <1>1, <1>a, <2>1, LateIdles DEF Loop, Idle
<1>2. ASSUME NEW c \in Client,
             \/ PollTimeout(c) \/ Stale(c) \/ Timeout(c) \/ Restart(c) \/ WaitDropped(c)
             \/ DropperLooks(c) /\ Raise(c)
      PROVE  LateInv'
  BY <1>2, <1>b DEF PollTimeout, Stale, Timeout, Restart, WaitDropped, DropperLooks
<1>3. ASSUME NEW c \in Client, Crash(c) PROVE LateInv'
  <2>1. /\ cl'[c].pc = "off" /\ \A d \in Client \ {c} : cl'[d] = cl[d]
        /\ UNCHANGED <<server, late, book>>
    BY <1>3, <1>a DEF Crash, Become, Looping
  <2> QED
    BY <1>a, <2>1, LateIdles DEF Idle
<1>4. ASSUME NEW c \in Client, WaitCollect(c) PROVE LateInv'
  <2>1. /\ GoTo(c, "fetch") /\ cl[c].pc = "waitCollect" /\ UNCHANGED <<server, book, late>>
        /\ "fetch" \in Place
    BY <1>4 DEF WaitCollect, SeePhase, At, Place
  <2> QED
    BY <1>a, <2>1, LateGoOn DEF Unshared, Early, Idle, HasInbox
<1>5. ASSUME NEW c \in Client, DropperLooks(c) PROVE LateInv'
  <2>1. CASE Raise(c)
    BY <1>2, <1>5, <2>1
  <2>2. ASSUME NEW q \in {"waitDropped", "askClose"}, GoTo(c, q) PROVE LateInv'
    <3>1. cl[c].pc = "closing" /\ UNCHANGED <<server, book, late>> /\ q \in Place
      BY <1>5 DEF DropperLooks, At, Place, Waiting
    <3> QED
      BY <1>a, <2>2, <3>1, LateGoOn DEF Unshared, Early, Idle, HasInbox
  <2> QED
    BY <1>5, <2>1, <2>2 DEF DropperLooks
<1>6. ASSUME NEW c \in Client, DropperCloses(c) PROVE LateInv'
  <2>1. CASE ForceCloseCollection /\ GoTo(c, "waitDropped")
    BY <1>6, <1>a, <2>1, LateCloses DEF DropperCloses, At
  <2>2. CASE GoTo(c, "closing") /\ UNCHANGED server
    <3>1. cl[c].pc = "askClose" /\ UNCHANGED <<book, late>> /\ "closing" \in Place
      BY <1>6 DEF DropperCloses, At, Place, Waiting
    <3> QED
      BY <1>a, <2>2, <3>1, LateGoOn DEF Unshared, Early, Idle, HasInbox
  <2> QED
    BY <1>6, <2>1, <2>2 DEF DropperCloses
<1>7. ASSUME NEW c \in Client, Reap(c) PROVE LateInv'
  <2>1. cl' = cl /\ UNCHANGED <<book, late>> /\ Unregister(c) /\ cl[c].pc \in Idle
    BY <1>7 DEF Reap, At, Idle
  <2> QED
    BY <1>a, <2>1, LateIdles
<1>8. ASSUME NEW P \in SUBSET registered, NEW sigma \in Sigma, Start(P, sigma)
      PROVE  LateInv'
  BY <1>8, <1>a, LateStart DEF TypeOK
<1>9. ASSUME CloseOnTimeout PROVE LateInv'
  BY <1>9, <1>a, LateCloses DEF CloseOnTimeout
<1>10. ASSUME NEW drop \in BOOLEAN, Reset(drop) PROVE LateInv'
  <2>1. RoundShape' /\ phase' = "IDLE" /\ roundId' = roundId /\ UNCHANGED <<cl, late, book>>
    BY <1>10, <1>a, ShapeStep DEF Reset, ResetExperiment, Next
  <2> QED
    BY <1>a, <2>1 DEF LateInv, Working
<1>11. CASE UNCHANGED secAggVars
  <2>1. UNCHANGED <<server, cl, late, book>>
    BY <1>11 DEF secAggVars
  <2>2. RoundShape'
    BY <1>a, <2>1, ShapeStep DEF server
  <2> QED
    BY <1>a, <2>1, <2>2
    DEF LateInv, server, vars, roundVars, Pieces, OneEach, Knows, Working, Sound, Opens,
        Names, SharesSuffice, Reports, Owners, Stored
<1> QED
  BY <1>a, <1>1, <1>2, <1>3, <1>4, <1>5, <1>6, <1>7, <1>8, <1>9, <1>10, <1>11, LateNotice,
     LateAdvertise, LateWaitShare, LateShareKeys, LateFetchInbox, LateTrainAndMask,
     LateWaitUnmask, LateReveal, LateArrive
  DEF SecAggNext, ClientStep

(* The invariant holds at the start.                                       *)
LEMMA LateInit == SecAggInit => LateInv
<1> SUFFICES ASSUME SecAggInit PROVE LateInv
  OBVIOUS
<1>1. TypeInv /\ RoundShape
  BY TypeInvInit, ShapeInit DEF SecAggInit
<1>2. phase = "IDLE" /\ book = {} /\ late = {} /\ \A c \in Client : cl[c].pc \in Idle
  BY DEF SecAggInit, Init, Looping, Idle
<1> QED
  BY <1>1, <1>2 DEF LateInv, Working

(* The inductive invariant of a single round, whatever fails.              *)
THEOREM LateInvHolds == ASSUME MaxRound = 1 PROVE SecAggSpec => []LateInv
<1>1. LateInv /\ [SecAggNext]_secAggVars => LateInv'
  BY LateStep
<1> QED
  BY <1>1, LateInit, PTL DEF SecAggSpec

(* Of the threshold of shares of a secret at least one is from somebody    *)
(* else than its owner, and that one is of the key the server has.         *)
LEMMA OthersAgree ==
  ASSUME OneEach, NEW pool, NEW o, NEW t \in Nat, t >= 2,
         Cardinality(SharesOf(pool, o)) >= t, pool \subseteq Share,
         \A x \in pool : Opens(book, x, x.holder)
  PROVE  /\ Recovered(pool, o) = {pubkeys[o]}
         /\ Names(book, pubkeys[o], o)
<1>1. \A x, y \in SharesOf(pool, o) : x.key = y.key
  BY DEF OneEach, Opens, Names, SharesOf
<1>2. PICK x, y \in SharesOf(pool, o) : x # y
  <2>1. SharesOf(pool, o) # {}
    BY FS_EmptySet
  <2>2. ASSUME NEW x \in SharesOf(pool, o), \A y \in SharesOf(pool, o) : x = y PROVE FALSE
    <3>1. SharesOf(pool, o) = {x}
      BY <2>2
    <3>2. Cardinality({x}) = 1
      BY FS_Singleton
    <3>3. 1 >= t
      BY <3>1, <3>2
    <3> QED
      BY <3>3
  <2> QED
    BY <2>1, <2>2
<1>3. x.holder # y.holder
  BY <1>1, <1>2 DEF SharesOf, Share
<1>4. PICK z \in SharesOf(pool, o) : z.holder # o
  BY <1>2, <1>3
<1>5. z.key = pubkeys[o] /\ Names(book, z.key, o)
  BY <1>4 DEF SharesOf, Opens
<1> QED
  BY <1>1, <1>4, <1>5 DEF Recovered

(* A result published in the only round rests on what its survivors shared.*)
LEMMA LatePublished ==
  ASSUME MaxRound = 1, LateInv, phase = "DONE"
  PROVE  PublishedFacts /\ Owners(bPool) = survivors
<1>1. /\ TypeOK /\ RoundShape /\ Pieces(book) /\ OneEach /\ SharesSuffice
      /\ bPool \subseteq Share /\ sPool \subseteq Share
  BY DEF LateInv, TypeInv, SecAggTypeOK, TypeOK, Pieces
<1>2. /\ survivors = Stored(masked) /\ dropped = participants \ survivors
      /\ survivors \subseteq participants /\ Stored(pubkeys) = participants
      /\ participants \subseteq Client /\ pubkeys \in [Client -> Slot]
      /\ config.threshold = Threshold(Cardinality(participants))
      /\ Cardinality(participants) >= 2
  BY <1>1 DEF RoundShape, TypeOK
<1>3. config.threshold \in Nat /\ config.threshold >= 2
  BY <1>2, SelectionFinite, ThresholdBounds
<1>4. \A c \in participants : c \in Nat /\ pubkeys[c][1] = c
  BY <1>1, <1>2, ClientIds DEF Stored, Pieces
<1>5. Owners(bPool) = survivors
  BY <1>1 DEF SharesSuffice
<1>6. ASSUME NEW c \in survivors
      PROVE  Recovered(bPool, c) = {pubkeys[c]} /\ Names(book, pubkeys[c], c)
  <2>1. Cardinality(SharesOf(bPool, c)) >= config.threshold
    BY <1>1 DEF SharesSuffice
  <2>2. \A x \in bPool : Opens(book, x, x.holder)
    BY <1>1 DEF Pieces
  <2> QED
    BY <1>1, <1>3, <2>1, <2>2, OthersAgree
<1>7. ASSUME NEW d \in dropped PROVE Recovered(sPool, d) = {pubkeys[d]}
  <2>1. Cardinality(SharesOf(sPool, d)) >= config.threshold
    BY <1>1 DEF SharesSuffice
  <2>2. \A x \in sPool : Opens(book, x, x.holder)
    BY <1>1 DEF Pieces
  <2> QED
    BY <1>1, <1>3, <2>1, <2>2, OthersAgree
<1>8. ASSUME NEW c \in survivors
      PROVE  /\ masked[c] = pubkeys[c] /\ pubkeys[c][2] = roundId
             /\ Entry(pubkeys[c]).peers = pubkeys /\ Entry(pubkeys[c]).parts = participants
  <2>1. PICK e \in book : e.key = pubkeys[c]
    BY <1>6 DEF Names
  <2>2. masked[c] = pubkeys[c]
    <3>1. Names(book, masked[c], c)
      BY <1>1, <1>2 DEF Pieces, Stored
    <3> QED
      BY <1>1, <1>6, <3>1 DEF OneEach, Names
  <2>3. pubkeys[c][2] = roundId
    <3>1. pubkeys[c] \in Key
      BY <1>2, KeyAssumption DEF Stored, Slot
    <3>2. roundId = 1
      BY <1>1 DEF LateInv, TypeInv, SecAggTypeOK, TypeOK
    <3> QED
      BY <3>1, <3>2, Instances
  <2>4. Entry(pubkeys[c]) = e
    BY <1>1, <2>1 DEF Entry, OneEach
  <2>5. e.peers = pubkeys /\ e.parts = participants
    BY <1>1, <2>1 DEF OneEach
  <2> QED
    BY <2>2, <2>3, <2>4, <2>5
<1> QED
  BY <1>2, <1>4, <1>5, <1>6, <1>7, <1>8 DEF PublishedFacts

(* Requests that arrive late, from an earlier life of their client or not, *)
(* do not spoil the sum of the round they belong to, with whatever else    *)
(* fails: either it is published free of masks or it is not published.     *)
THEOREM SumIsUnmaskedInOneRound ==
  ASSUME MaxRound = 1
  PROVE  SecAggSpec => []SumIsUnmasked
<1>1. LateInv => SumIsUnmasked
  BY LatePublished, PublishedUnmasked DEF SumIsUnmasked
<1> QED
  BY <1>1, LateInvHolds, PTL

(* Nor does a late reveal stand in for a survivor's, in the round it       *)
(* belongs to.                                                             *)
THEOREM EverySurvivorReportedInOneRound ==
  ASSUME MaxRound = 1
  PROVE  SecAggSpec => []EverySurvivorReported
<1>1. LateInv => EverySurvivorReported
  BY DEF LateInv, Pieces, Reports, EverySurvivorReported
<1> QED
  BY <1>1, LateInvHolds, PTL

(* And shares of both secrets of one instance never come together, also    *)
(* when a reveal of an earlier life of a client arrives late.              *)
THEOREM NeverBothOfOneInstanceInOneRound ==
  ASSUME MaxRound = 1
  PROVE  SecAggSpec => []NeverBothOfOneInstance
<1>1. ASSUME LateInv, NEW s \in bPool, NEW u \in sPool, s.key = u.key
      PROVE  FALSE
  <2>1. RoundShape /\ phase \in Closed
    BY <1>1 DEF LateInv, RoundShape, Closed
  <2>2. s.owner \in survivors /\ u.owner \notin survivors
    BY <2>1 DEF RoundShape, Owners, Closed
  <2>3. Opens(book, s, s.holder) /\ Opens(book, u, u.holder)
    BY <1>1, <2>1 DEF LateInv, Pieces, Closed
  <2> QED
    BY <1>1, <2>2, <2>3 DEF Opens, Names
<1>2. LateInv => NeverBothOfOneInstance
  BY <1>1 DEF NeverBothOfOneInstance
<1> QED
  BY <1>2, LateInvHolds, PTL
=============================================================================
