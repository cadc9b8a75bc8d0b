------------------------------- MODULE FLRound -------------------------------
(***************************************************************************)
(* What the federated coordinator promises about secure-aggregation        *)
(* rounds, without its phases, keys and shares.  A round is begun for a    *)
(* set of members, closed over the contributors, its secrets are opened    *)
(* - of a contributor only the self-mask seed, of a missing member only    *)
(* the mask key - and the sum is published when every secret the sum needs *)
(* is open.  A round may fail while it aggregates and may be aborted at    *)
(* any time.  Coordinator.tla is shown to implement this specification.    *)
(***************************************************************************)
EXTENDS Naturals, FiniteSets

CONSTANT Client          \* the client ids that can take part

VARIABLES
  stage,                 \* where the current round is
  id,                    \* the number of the current round
  members,               \* the clients selected for it
  contributors,          \* the members whose update is in the sum
  openedSelf,            \* the clients whose self-mask seed was opened
  openedKey,             \* the clients whose mask key was opened
  results                \* the published rounds since the last abort

vars == <<stage, id, members, contributors, openedSelf, openedKey, results>>

Stage == {"idle", "gathering", "closed", "failed", "published"}

Result == [round : Nat, members : SUBSET Client, contributors : SUBSET Client]

Init ==
  /\ stage = "idle"
  /\ id = 0
  /\ members = {}
  /\ contributors = {}
  /\ openedSelf = {}
  /\ openedKey = {}
  /\ results = {}

(* A new round never interrupts one that is still running. *)
Begin ==
  /\ stage \in {"idle", "published"}
  /\ stage' = "gathering"
  /\ id' = id + 1
  /\ members' \in {P \in SUBSET Client : Cardinality(P) >= 2}
  /\ contributors' = {}
  /\ openedSelf' = {}
  /\ openedKey' = {}
  /\ UNCHANGED results

(* The contributors are at least two and more than half of the members:    *)
(* a sum of one update would be that update, and two disjoint sets of      *)
(* share holders could not both reach the threshold.                       *)
Close ==
  /\ stage = "gathering"
  /\ stage' = "closed"
  /\ contributors' \in {S \in SUBSET members : /\ Cardinality(S) >= 2
                                               /\ 2 * Cardinality(S) > Cardinality(members)}
  /\ UNCHANGED <<id, members, openedSelf, openedKey, results>>

(* Secrets are opened only after the contributors are fixed. *)
OpenSecrets ==
  /\ stage = "closed"
  /\ openedSelf' \in SUBSET contributors
  /\ openedSelf \subseteq openedSelf'
  /\ openedKey' \in SUBSET (members \ contributors)
  /\ openedKey \subseteq openedKey'
  /\ UNCHANGED <<id, members, contributors>>

Open ==
  /\ OpenSecrets
  /\ UNCHANGED <<stage, results>>

Publish ==
  /\ OpenSecrets
  /\ openedSelf' = contributors
  /\ openedKey' = members \ contributors
  /\ stage' = "published"
  /\ results' = results \cup
       {[round |-> id, members |-> members, contributors |-> contributors]}

Fail ==
  /\ OpenSecrets
  /\ stage' = "failed"
  /\ UNCHANGED results

Abort ==
  /\ stage' = "idle"
  /\ members' = {}
  /\ contributors' = {}
  /\ openedSelf' = {}
  /\ openedKey' = {}
  /\ results' = {}
  /\ UNCHANGED id

Next == Begin \/ Close \/ Open \/ Publish \/ Fail \/ Abort

Spec == Init /\ [][Next]_vars
=============================================================================
