---------------------------- MODULE AuditLogProofs ----------------------------
(***************************************************************************)
(* The audit log for any number of sessions, records and writes to the     *)
(* table: its types, what a log that verifies proves, and what an alarm    *)
(* means.                                                                  *)
(***************************************************************************)
EXTENDS AuditLog, SequenceTheorems, WellFoundedInduction, TLAPS

Sequence(s) == s \in Seq({s[i] : i \in DOMAIN s})

\* The prev_hash of a record that has seen these ids in the table.
HashSeen(history, seen) == IF seen = {} THEN GENESIS ELSE history[Newest(seen)].hash

\* What was inserted: every record is bound to the newest one it has seen.
HistoryInv ==
  \A n \in DOMAIN inserted :
    /\ inserted[n].body \in Body
    /\ inserted[n].seen \subseteq 1 .. n - 1
    /\ inserted[n].prev = HashSeen(inserted, inserted[n].seen)
    /\ inserted[n].hash = compute_audit_hash(inserted[n].prev, inserted[n].body)

\* The table: hashes as inserted.
TableInv ==
  \A i \in DOMAIN log :
    /\ i \in 1 .. Len(inserted)
    /\ log[i].body \in Body
    /\ log[i].prev = inserted[i].prev
    /\ log[i].hash = inserted[i].hash

\* A session's read, and its insert, which is not yet in the table.
TailInv ==
  /\ tail = [s \in Session |-> tail[s]]
  /\ \A s \in Session :
       /\ tail[s].step \in {"idle", "read", "inserted"}
       /\ tail[s].seen \subseteq 1 .. Len(inserted)
       /\ tail[s].step = "read" => tail[s].prev = HashSeen(inserted, tail[s].seen)
       /\ tail[s].step = "inserted" =>
            tail[s].id \in 1 .. Len(inserted) /\ tail[s].id \notin DOMAIN log

\* No two sessions have drawn the same id.
IdsInv ==
  \A r, s \in Session :
    tail[r].step = "inserted" /\ tail[s].step = "inserted" /\ r # s => tail[r].id # tail[s].id

SwitchInv == naive \in BOOLEAN /\ triggers \in BOOLEAN /\ touches \in 0 .. MaxTouches

IInv ==
  /\ Sequence(inserted)
  /\ HistoryInv /\ TableInv /\ TailInv /\ IdsInv /\ SwitchInv
-----------------------------------------------------------------------------
(* A set of numbers has a least one.                                       *)
LEMMA LeastNumber ==
  ASSUME NEW S \in SUBSET Nat, S # {}
  PROVE  \E m \in S : \A k \in S : m <= k
<1> DEFINE R == OpToRel(<, Nat)
<1>1. IsWellFoundedOn(R, Nat)
  BY NatLessThanWellFounded
<1>2. R = {ss \in Nat \X Nat : ss[1] < ss[2]}
  BY DEF OpToRel
<1> HIDE DEF R
<1>3. PICK m \in S : \A k \in S : <<k, m>> \notin R
  <2> HIDE <1>2
  <2> QED BY <1>1, WFMin
<1>4. \A k \in S : ~(k < m)
  <2> TAKE k \in S
  <2>1. k \in Nat /\ m \in Nat
    OBVIOUS
  <2>2. <<k, m>> \notin {ss \in Nat \X Nat : ss[1] < ss[2]}
    BY <1>2, <1>3
  <2> QED BY <2>1, <2>2
<1> QED
  BY <1>4

(* A sequence and one that is longer by an element.                        *)
LEMMA SequenceIs ==
  ASSUME NEW s, Sequence(s)
  PROVE  Len(s) \in Nat /\ DOMAIN s = 1 .. Len(s)
BY DEF Sequence

(* What appending an element to a sequence gives.                          *)
LEMMA AppendIs ==
  ASSUME NEW s, NEW e, Sequence(s)
  PROVE  /\ Sequence(Append(s, e))
         /\ Len(Append(s, e)) = Len(s) + 1
         /\ DOMAIN Append(s, e) = 1 .. Len(s) + 1
         /\ \A i \in 1 .. Len(s) : Append(s, e)[i] = s[i]
         /\ Append(s, e)[Len(s) + 1] = e
<1> DEFINE S == {s[i] : i \in DOMAIN s} \cup {e}
           t == Append(s, e)
<1>1. Len(s) \in Nat /\ DOMAIN s = 1 .. Len(s)
  BY SequenceIs
<1>2. s \in Seq(S)
  <2>1. s \in Seq({s[i] : i \in DOMAIN s})
    BY DEF Sequence
  <2> QED BY <2>1
<1>3. /\ t \in Seq(S) /\ Len(t) = Len(s) + 1 /\ DOMAIN t = 1 .. Len(s) + 1
      /\ \A i \in 1 .. Len(s) : t[i] = s[i]
      /\ t[Len(s) + 1] = e
  <2> HIDE DEF S
  <2>1. e \in S BY DEF S
  <2> QED BY <1>2, <2>1
<1>4. Sequence(t)
  BY <1>3, SeqDef DEF Sequence
<1> QED
  BY <1>3, <1>4

(* A bounded set of numbers that is not empty has a greatest one.          *)
LEMMA NewestIs ==
  ASSUME NEW N \in Nat, NEW S, S \subseteq 1 .. N, S # {}
  PROVE  Newest(S) \in S /\ \A j \in S : j <= Newest(S)
<1> DEFINE B == {m \in Nat : \A j \in S : j <= m}
<1>1. B \in SUBSET Nat /\ N \in B
  OBVIOUS
<1>2. PICK m \in B : \A k \in B : m <= k
  <2> HIDE DEF B
  <2> QED BY <1>1, LeastNumber
<1>3. m \in Nat /\ \A j \in S : j <= m
  OBVIOUS
<1>4. m \in S
  <2>1. SUFFICES ASSUME m \notin S PROVE FALSE
    OBVIOUS
  <2>2. PICK j \in S : TRUE
    OBVIOUS
  <2>3. m - 1 \in Nat
    BY <1>3, <2>2
  <2>4. \A k \in S : k <= m - 1
    BY <1>3, <2>1
  <2>5. m - 1 \in B
    BY <2>3, <2>4
  <2> HIDE DEF B
  <2> QED BY <1>2, <1>3, <2>5
<1>5. \E i \in S : \A j \in S : j <= i
  BY <1>3, <1>4
<1> QED
  BY <1>5 DEF Newest
-----------------------------------------------------------------------------
(* Appending a record changes no hash already seen.                        *)
LEMMA HashSeenStays ==
  ASSUME NEW h, NEW e, Sequence(h), NEW seen, seen \subseteq 1 .. Len(h)
  PROVE  HashSeen(Append(h, e), seen) = HashSeen(h, seen)
<1>1. Len(h) \in Nat
  BY SequenceIs
<1>2. \A i \in 1 .. Len(h) : Append(h, e)[i] = h[i]
  BY AppendIs
<1>3. seen # {} => Newest(seen) \in 1 .. Len(h)
  BY <1>1, NewestIs
<1> QED
  BY <1>2, <1>3 DEF HashSeen

(* The hash of the newest record of the table is the one inserted.         *)
LEMMA LastHashIs ==
  ASSUME IInv, NEW S, S \subseteq DOMAIN log
  PROVE  S \subseteq 1 .. Len(inserted) /\ LastHash(S) = HashSeen(inserted, S)
<1>1. Len(inserted) \in Nat
  BY SequenceIs DEF IInv
<1>2. S \subseteq 1 .. Len(inserted)
  BY DEF IInv, TableInv
<1>3. CASE S = {}
  BY <1>2, <1>3 DEF LastHash, HashSeen
<1>4. CASE S # {}
  <2>1. Newest(S) \in DOMAIN log
    BY <1>1, <1>2, <1>4, NewestIs
  <2>2. log[Newest(S)].hash = inserted[Newest(S)].hash
    BY <2>1 DEF IInv, TableInv
  <2> QED BY <1>2, <1>4, <2>2 DEF LastHash, HashSeen
<1> QED
  BY <1>3, <1>4

(* ReadLast(s) keeps the invariant.                                        *)
LEMMA ReadKeeps ==
  ASSUME IInv, NEW s \in Session, ReadLast(s)
  PROVE  IInv'
<1> DEFINE t == [Idle EXCEPT !.step = "read", !.prev = LastHash(DOMAIN log), !.seen = DOMAIN log]
<1>1. UNCHANGED <<log, naive, triggers, touches, inserted>> /\ tail' = [tail EXCEPT ![s] = t]
  BY DEF ReadLast
<1>2. t.step = "read" /\ t.prev = LastHash(DOMAIN log) /\ t.seen = DOMAIN log
  BY DEF Idle
<1>3. DOMAIN log \subseteq 1 .. Len(inserted) /\ LastHash(DOMAIN log) = HashSeen(inserted, DOMAIN log)
  BY LastHashIs
<1> HIDE DEF t
<1>4. tail' = [r \in Session |-> tail'[r]] /\ \A r \in Session : tail'[r] = IF r = s THEN t ELSE tail[r]
  BY <1>1 DEF IInv, TailInv
<1>5. TailInv'
  <2> SUFFICES ASSUME NEW r \in Session
               PROVE  /\ tail'[r].step \in {"idle", "read", "inserted"}
                      /\ tail'[r].seen \subseteq 1 .. Len(inserted)
                      /\ tail'[r].step = "read" => tail'[r].prev = HashSeen(inserted, tail'[r].seen)
                      /\ tail'[r].step = "inserted" =>
                           tail'[r].id \in 1 .. Len(inserted) /\ tail'[r].id \notin DOMAIN log
    BY <1>1, <1>4 DEF TailInv
  <2>1. CASE r = s
    BY <1>2, <1>3, <1>4, <2>1
  <2>2. CASE r # s
    BY <1>4, <2>2 DEF IInv, TailInv
  <2> QED BY <2>1, <2>2
<1>6. IdsInv'
  BY <1>2, <1>4 DEF IInv, IdsInv
<1> QED
  BY <1>1, <1>5, <1>6 DEF IInv, HistoryInv, TableInv, SwitchInv

(* Insert(s, body) keeps the invariant.                                    *)
LEMMA InsertKeeps ==
  ASSUME IInv, NEW s \in Session, NEW body \in Body, Insert(s, body)
  PROVE  IInv'
<1> DEFINE N == Len(inserted)
           prev == tail[s].prev
           seen == tail[s].seen
           entry == [prev |-> prev, body |-> body, hash |-> compute_audit_hash(prev, body),
                     seen |-> seen]
           t == [Idle EXCEPT !.step = "inserted", !.id = N + 1]
<1>1. /\ UNCHANGED <<log, naive, triggers, touches>> /\ tail' = [tail EXCEPT ![s] = t]
      /\ inserted' = Append(inserted, entry) /\ tail[s].step = "read"
  BY DEF Insert
<1>2. t.step = "inserted" /\ t.id = N + 1 /\ t.seen = {}
  BY DEF Idle
<1>3. /\ entry.prev = prev /\ entry.body = body /\ entry.seen = seen
      /\ entry.hash = compute_audit_hash(prev, body)
  OBVIOUS
<1> HIDE DEF t, entry
<1>4. tail' = [r \in Session |-> tail'[r]] /\ \A r \in Session : tail'[r] = IF r = s THEN t ELSE tail[r]
  BY <1>1 DEF IInv, TailInv
<1>5. N \in Nat /\ DOMAIN inserted = 1 .. N
  BY SequenceIs DEF IInv
<1>6. /\ Sequence(inserted') /\ Len(inserted') = N + 1 /\ DOMAIN inserted' = 1 .. N + 1
      /\ \A i \in 1 .. N : inserted'[i] = inserted[i]
      /\ inserted'[N + 1] = entry
  BY <1>1, AppendIs DEF IInv
<1>7. ASSUME NEW S, S \subseteq 1 .. N PROVE HashSeen(inserted', S) = HashSeen(inserted, S)
  BY <1>1, <1>7, HashSeenStays DEF IInv
<1>8. seen \subseteq 1 .. N /\ prev = HashSeen(inserted, seen)
  BY <1>1 DEF IInv, TailInv
<1>9. HistoryInv'
  <2> SUFFICES ASSUME NEW n \in 1 .. N + 1
               PROVE  /\ inserted'[n].body \in Body
                      /\ inserted'[n].seen \subseteq 1 .. n - 1
                      /\ inserted'[n].prev = HashSeen(inserted', inserted'[n].seen)
                      /\ inserted'[n].hash = compute_audit_hash(inserted'[n].prev, inserted'[n].body)
    BY <1>6 DEF HistoryInv
  <2>1. CASE n \in 1 .. N
    <3>1. inserted'[n] = inserted[n]
      BY <1>6, <2>1
    <3>2. /\ inserted[n].body \in Body
          /\ inserted[n].seen \subseteq 1 .. n - 1
          /\ inserted[n].prev = HashSeen(inserted, inserted[n].seen)
          /\ inserted[n].hash = compute_audit_hash(inserted[n].prev, inserted[n].body)
      BY <1>5, <2>1 DEF IInv, HistoryInv
    <3>3. PICK S : S = inserted[n].seen
      OBVIOUS
    <3>4. S \subseteq 1 .. N
      BY <1>5, <2>1, <3>2, <3>3
    <3>5. HashSeen(inserted', S) = HashSeen(inserted, S)
      BY <1>7, <3>4
    <3> QED BY <3>1, <3>2, <3>3, <3>5
  <2>2. CASE n = N + 1
    <3>1. inserted'[n] = entry /\ n - 1 = N
      BY <1>5, <1>6, <2>2
    <3>2. HashSeen(inserted', seen) = HashSeen(inserted, seen)
      BY <1>7, <1>8
    <3> QED BY <1>3, <1>8, <3>1, <3>2
  <2> QED BY <1>5, <2>1, <2>2
<1>10. TableInv'
  <2> SUFFICES ASSUME NEW i \in DOMAIN log
               PROVE  /\ i \in 1 .. N + 1
                      /\ log[i].body \in Body
                      /\ log[i].prev = inserted'[i].prev
                      /\ log[i].hash = inserted'[i].hash
    BY <1>1, <1>6 DEF TableInv
  <2>1. /\ i \in 1 .. N
        /\ log[i].body \in Body
        /\ log[i].prev = inserted[i].prev
        /\ log[i].hash = inserted[i].hash
    BY DEF IInv, TableInv
  <2>2. i \in 1 .. N + 1 /\ inserted'[i] = inserted[i]
    BY <1>5, <1>6, <2>1
  <2> QED BY <2>1, <2>2
<1>11. ASSUME NEW i \in DOMAIN log PROVE i \in 1 .. N
  BY DEF IInv, TableInv
<1>12. TailInv'
  <2> SUFFICES ASSUME NEW r \in Session
               PROVE  /\ tail'[r].step \in {"idle", "read", "inserted"}
                      /\ tail'[r].seen \subseteq 1 .. N + 1
                      /\ tail'[r].step = "read" => tail'[r].prev = HashSeen(inserted', tail'[r].seen)
                      /\ tail'[r].step = "inserted" =>
                           tail'[r].id \in 1 .. N + 1 /\ tail'[r].id \notin DOMAIN log
    BY <1>1, <1>4, <1>6 DEF TailInv
  <2>1. CASE r = s
    <3>1. N + 1 \in 1 .. N + 1 /\ N + 1 \notin DOMAIN log
      BY <1>5, <1>11
    <3> QED BY <1>2, <1>4, <2>1, <3>1
  <2>2. CASE r # s
    <3>1. tail'[r] = tail[r]
      BY <1>4, <2>2
    <3>2. /\ tail[r].step \in {"idle", "read", "inserted"}
          /\ tail[r].seen \subseteq 1 .. N
          /\ tail[r].step = "read" => tail[r].prev = HashSeen(inserted, tail[r].seen)
          /\ tail[r].step = "inserted" => tail[r].id \in 1 .. N /\ tail[r].id \notin DOMAIN log
      BY DEF IInv, TailInv
    <3>3. PICK S : S = tail[r].seen
      OBVIOUS
    <3>4. HashSeen(inserted', S) = HashSeen(inserted, S) /\ S \subseteq 1 .. N + 1
      <4>1. S \subseteq 1 .. N
        BY <3>2, <3>3
      <4>2. HashSeen(inserted', S) = HashSeen(inserted, S)
        BY <1>7, <4>1
      <4>3. S \subseteq 1 .. N + 1
        BY <1>5, <4>1
      <4> QED BY <4>2, <4>3
    <3>5. tail[r].step = "inserted" => tail[r].id \in 1 .. N + 1
      BY <1>5, <3>2
    <3> QED BY <3>1, <3>2, <3>3, <3>4, <3>5
  <2> QED BY <2>1, <2>2
<1>13. IdsInv'
  <2> SUFFICES ASSUME NEW q \in Session, NEW r \in Session, q # r,
                      tail'[q].step = "inserted", tail'[r].step = "inserted"
               PROVE  tail'[q].id # tail'[r].id
    BY DEF IdsInv
  <2>1. ASSUME NEW p \in Session, tail[p].step = "inserted" PROVE tail[p].id # N + 1
    <3>1. tail[p].id \in 1 .. N
      BY <2>1 DEF IInv, TailInv
    <3> QED BY <1>5, <3>1
  <2>2. CASE q = s
    BY <1>2, <1>4, <2>1, <2>2
  <2>3. CASE r = s
    BY <1>2, <1>4, <2>1, <2>3
  <2>4. CASE q # s /\ r # s
    BY <1>4, <2>4 DEF IInv, IdsInv
  <2> QED BY <2>2, <2>3, <2>4
<1> QED
  BY <1>1, <1>6, <1>9, <1>10, <1>12, <1>13 DEF IInv, SwitchInv

(* Commit(s) keeps the invariant.                                          *)
LEMMA CommitKeeps ==
  ASSUME IInv, NEW s \in Session, Commit(s)
  PROVE  IInv'
<1> DEFINE n == tail[s].id
<1>1. /\ UNCHANGED <<naive, triggers, touches, inserted>> /\ tail' = [tail EXCEPT ![s] = Idle]
      /\ tail[s].step = "inserted"
      /\ log' = [i \in DOMAIN log \cup {n} |-> IF i = n THEN Row(n) ELSE log[i]]
  BY DEF Commit
<1>2. tail' = [r \in Session |-> tail'[r]] /\ \A r \in Session : tail'[r] = IF r = s THEN Idle ELSE tail[r]
  BY <1>1 DEF IInv, TailInv
<1>3. Idle.step = "idle" /\ Idle.seen = {}
  BY DEF Idle
<1>4. n \in 1 .. Len(inserted)
  BY <1>1 DEF IInv, TailInv
<1>5. n \in DOMAIN inserted
  BY <1>4, SequenceIs DEF IInv
<1>6. /\ Row(n).prev = inserted[n].prev /\ Row(n).hash = inserted[n].hash
      /\ Row(n).body \in Body
  BY <1>5 DEF Row, IInv, HistoryInv
<1>7. /\ DOMAIN log' = DOMAIN log \cup {n}
      /\ \A i \in DOMAIN log' : log'[i] = IF i = n THEN Row(n) ELSE log[i]
  BY <1>1
<1> HIDE DEF n
<1>8. TableInv'
  <2> SUFFICES ASSUME NEW i \in DOMAIN log'
               PROVE  /\ i \in 1 .. Len(inserted)
                      /\ log'[i].body \in Body
                      /\ log'[i].prev = inserted[i].prev
                      /\ log'[i].hash = inserted[i].hash
    BY <1>1 DEF TableInv
  <2>1. CASE i = n
    BY <1>4, <1>6, <1>7, <2>1
  <2>2. CASE i # n
    BY <1>7, <2>2 DEF IInv, TableInv
  <2> QED BY <2>1, <2>2
<1>9. TailInv'
  <2> SUFFICES ASSUME NEW r \in Session
               PROVE  /\ tail'[r].step \in {"idle", "read", "inserted"}
                      /\ tail'[r].seen \subseteq 1 .. Len(inserted)
                      /\ tail'[r].step = "read" => tail'[r].prev = HashSeen(inserted, tail'[r].seen)
                      /\ tail'[r].step = "inserted" =>
                           tail'[r].id \in 1 .. Len(inserted) /\ tail'[r].id \notin DOMAIN log'
    BY <1>1, <1>2 DEF TailInv
  <2>1. CASE r = s
    BY <1>2, <1>3, <2>1
  <2>2. CASE r # s
    <3>1. tail'[r] = tail[r]
      BY <1>2, <2>2
    <3>2. /\ tail[r].step \in {"idle", "read", "inserted"}
          /\ tail[r].seen \subseteq 1 .. Len(inserted)
          /\ tail[r].step = "read" => tail[r].prev = HashSeen(inserted, tail[r].seen)
          /\ tail[r].step = "inserted" =>
               tail[r].id \in 1 .. Len(inserted) /\ tail[r].id \notin DOMAIN log
      BY DEF IInv, TailInv
    <3>3. tail[r].step = "inserted" => tail[r].id # n
      BY <1>1, <2>2 DEF IInv, IdsInv, n
    <3> QED BY <1>7, <3>1, <3>2, <3>3
  <2> QED BY <2>1, <2>2
<1>10. IdsInv'
  BY <1>2, <1>3 DEF IInv, IdsInv
<1> QED
  BY <1>1, <1>8, <1>9, <1>10 DEF IInv, HistoryInv, SwitchInv

(* Abort(s) keeps the invariant.                                           *)
LEMMA AbortKeeps ==
  ASSUME IInv, NEW s \in Session, Abort(s)
  PROVE  IInv'
<1>1. UNCHANGED <<log, naive, triggers, touches, inserted>> /\ tail' = [tail EXCEPT ![s] = Idle]
  BY DEF Abort
<1>2. tail' = [r \in Session |-> tail'[r]] /\ \A r \in Session : tail'[r] = IF r = s THEN Idle ELSE tail[r]
  BY <1>1 DEF IInv, TailInv
<1>3. Idle.step = "idle" /\ Idle.seen = {}
  BY DEF Idle
<1>4. TailInv'
  BY <1>1, <1>2, <1>3 DEF IInv, TailInv
<1>5. IdsInv'
  BY <1>2, <1>3 DEF IInv, IdsInv
<1> QED
  BY <1>1, <1>4, <1>5 DEF IInv, HistoryInv, TableInv, SwitchInv

(* A write that leaves rows of the table with their hashes keeps the       *)
(* invariant.                                                              *)
LEMMA TouchKeeps ==
  ASSUME IInv, NEW new, Touch(new), DOMAIN new \subseteq DOMAIN log,
         \A i \in DOMAIN new : /\ new[i].prev = log[i].prev
                               /\ new[i].hash = log[i].hash
                               /\ new[i].body \in Body
  PROVE  IInv'
<1>1. /\ log' = new /\ touches' = touches + 1 /\ touches < MaxTouches
      /\ UNCHANGED <<tail, naive, triggers, inserted>>
  BY DEF Touch
<1>2. TableInv'
  BY <1>1 DEF IInv, TableInv
<1>3. TailInv'
  BY <1>1 DEF IInv, TailInv
<1>4. SwitchInv'
  <2>1. touches' \in 0 .. MaxTouches
    BY <1>1, LogBoundsAssumption DEF IInv, SwitchInv
  <2> QED BY <1>1, <2>1 DEF IInv, SwitchInv
<1> QED
  BY <1>1, <1>2, <1>3, <1>4 DEF IInv, HistoryInv, IdsInv

(* Altering a record keeps the invariant, ...                              *)
LEMMA AlterKeeps ==
  ASSUME IInv, NEW i \in DOMAIN log, NEW body \in Forgery, Alter(i, body)
  PROVE  IInv'
<1> DEFINE new == [log EXCEPT ![i].body = body]
<1>1. Touch(new)
  BY DEF Alter
<1>2. DOMAIN new = DOMAIN log
  OBVIOUS
<1>3. ASSUME NEW j \in DOMAIN new
      PROVE  new[j].prev = log[j].prev /\ new[j].hash = log[j].hash /\ new[j].body \in Body
  <2>1. log[j].body \in Body /\ body \in Body
    BY <1>2, ForgeryAssumption DEF IInv, TableInv
  <2> QED BY <1>2, <2>1
<1> HIDE DEF new
<1> QED
  BY <1>1, <1>2, <1>3, TouchKeeps

(* ... and so does removing one.                                           *)
LEMMA RemoveKeeps ==
  ASSUME IInv, NEW i \in DOMAIN log, Remove(i)
  PROVE  IInv'
<1> DEFINE new == [j \in DOMAIN log \ {i} |-> log[j]]
<1>1. Touch(new)
  BY DEF Remove
<1>2. DOMAIN new \subseteq DOMAIN log /\ \A j \in DOMAIN new : new[j] = log[j]
  OBVIOUS
<1> HIDE DEF new
<1>3. \A j \in DOMAIN new : /\ new[j].prev = log[j].prev
                            /\ new[j].hash = log[j].hash
                            /\ new[j].body \in Body
  BY <1>2 DEF IInv, TableInv
<1> QED
  BY <1>1, <1>2, <1>3, TouchKeeps
-----------------------------------------------------------------------------
(* The invariant is inductive: one step for each action.                   *)
LEMMA NextKeeps ==
  ASSUME IInv, [LogNext]_logVars
  PROVE  IInv'
<1>1. ASSUME NEW s \in Session, ReadLast(s) PROVE IInv'
  BY <1>1, ReadKeeps
<1>2. ASSUME NEW s \in Session, NEW body \in Body, Insert(s, body) PROVE IInv'
  BY <1>2, InsertKeeps
<1>3. ASSUME NEW s \in Session, Commit(s) PROVE IInv'
  BY <1>3, CommitKeeps
<1>4. ASSUME NEW s \in Session, Abort(s) PROVE IInv'
  BY <1>4, AbortKeeps
<1>5. CASE downgrade
  BY <1>5 DEF downgrade, IInv, HistoryInv, TableInv, TailInv, IdsInv, SwitchInv, Sequence
<1>6. CASE upgrade
  BY <1>6 DEF upgrade, IInv, HistoryInv, TableInv, TailInv, IdsInv, SwitchInv, Sequence
<1>7. ASSUME NEW i \in DOMAIN log, Remove(i) PROVE IInv'
  BY <1>7, RemoveKeeps
<1>8. ASSUME NEW i \in DOMAIN log, NEW body \in Forgery, Alter(i, body) PROVE IInv'
  BY <1>8, AlterKeeps
<1>9. CASE UNCHANGED logVars
  BY <1>9 DEF logVars, IInv, HistoryInv, TableInv, TailInv, IdsInv, SwitchInv, Sequence
<1> QED
  BY <1>1, <1>2, <1>3, <1>4, <1>5, <1>6, <1>7, <1>8, <1>9 DEF LogNext, TableWrite

(* The audit log starts in the invariant and stays in it.                  *)
THEOREM InvHolds == LogSpec => []IInv
<1>1. LogInit => IInv
  <2> SUFFICES ASSUME LogInit PROVE IInv
    OBVIOUS
  <2>1. log = <<>> /\ inserted = <<>> /\ tail = [s \in Session |-> Idle]
    BY DEF LogInit
  <2>2. DOMAIN <<>> = {} /\ Sequence(<<>>)
    BY DEF Sequence
  <2>3. \A s \in Session : tail[s].step = "idle" /\ tail[s].seen = {}
    BY <2>1 DEF Idle
  <2>4. TailInv
    BY <2>1, <2>3 DEF TailInv
  <2>5. IdsInv
    BY <2>3 DEF IdsInv
  <2>6. SwitchInv
    BY LogBoundsAssumption DEF LogInit, SwitchInv
  <2> QED BY <2>1, <2>2, <2>4, <2>5, <2>6 DEF IInv, HistoryInv, TableInv
<1>2. IInv /\ [LogNext]_logVars => IInv'
  BY NextKeeps
<1> QED
  BY <1>1, <1>2, PTL DEF LogSpec

(* LogTypeOK: rows are records inserted, and no open insert is among them. *)
THEOREM LogTyped == LogSpec => []LogTypeOK
<1>1. IInv => LogTypeOK
  <2> SUFFICES ASSUME IInv PROVE LogTypeOK
    OBVIOUS
  <2>1. DOMAIN inserted = 1 .. Len(inserted)
    BY SequenceIs DEF IInv
  <2>2. \A i \in DOMAIN log : i \in DOMAIN inserted /\ log[i].body \in Body
    BY <2>1 DEF IInv, TableInv
  <2>3. \A n \in DOMAIN inserted :
          inserted[n].body \in Body /\ inserted[n].seen \subseteq 1 .. n - 1
    BY DEF IInv, HistoryInv
  <2>4. \A s \in Session :
          /\ tail[s].step \in {"idle", "read", "inserted"}
          /\ tail[s].seen \subseteq 1 .. Len(inserted)
          /\ tail[s].step = "inserted" => tail[s].id \in DOMAIN inserted \ DOMAIN log
    BY <2>1 DEF IInv, TailInv
  <2> QED BY <2>2, <2>3, <2>4 DEF IInv, SwitchInv, LogTypeOK
<1> QED
  BY <1>1, InvHolds, PTL
-----------------------------------------------------------------------------
(* What is known of a record in the table, and of those before it.         *)
LEMMA RecordIs ==
  ASSUME IInv, NEW i \in DOMAIN log
  PROVE  /\ i \in DOMAIN inserted /\ i \in Nat
         /\ log[i].prev = inserted[i].prev /\ log[i].hash = inserted[i].hash
         /\ inserted[i].prev = HashSeen(inserted, inserted[i].seen)
         /\ inserted[i].hash = compute_audit_hash(inserted[i].prev, inserted[i].body)
         /\ inserted[i].seen \subseteq 1 .. i - 1
         /\ inserted[i].seen # {} =>
              /\ Newest(inserted[i].seen) \in inserted[i].seen
              /\ \A j \in inserted[i].seen : j <= Newest(inserted[i].seen)
         /\ Before(i) # {} =>
              /\ Newest(Before(i)) \in Before(i)
              /\ \A j \in Before(i) : j <= Newest(Before(i))
         /\ LastHash(Before(i)) = HashSeen(inserted, Before(i))
<1>1. Len(inserted) \in Nat /\ DOMAIN inserted = 1 .. Len(inserted)
  BY SequenceIs DEF IInv
<1>2. i \in 1 .. Len(inserted) /\ log[i].prev = inserted[i].prev /\ log[i].hash = inserted[i].hash
  BY DEF IInv, TableInv
<1>3. /\ inserted[i].prev = HashSeen(inserted, inserted[i].seen)
      /\ inserted[i].hash = compute_audit_hash(inserted[i].prev, inserted[i].body)
      /\ inserted[i].seen \subseteq 1 .. i - 1
  BY <1>1, <1>2 DEF IInv, HistoryInv
<1>4. PICK S : S = inserted[i].seen
  OBVIOUS
<1>5. S # {} => Newest(S) \in S /\ \A j \in S : j <= Newest(S)
  <2>1. S \subseteq 1 .. Len(inserted)
    BY <1>1, <1>2, <1>3, <1>4
  <2> QED BY <1>1, <2>1, NewestIs
<1>6. Before(i) \subseteq DOMAIN log
  BY DEF Before
<1>7. /\ Before(i) \subseteq 1 .. Len(inserted)
      /\ LastHash(Before(i)) = HashSeen(inserted, Before(i))
  BY <1>6, LastHashIs
<1>8. Before(i) # {} => Newest(Before(i)) \in Before(i) /\ \A j \in Before(i) : j <= Newest(Before(i))
  BY <1>1, <1>7, NewestIs
<1> QED
  BY <1>1, <1>2, <1>3, <1>4, <1>5, <1>7, <1>8

(* The hash of a record that was inserted is never that of no record.      *)
LEMMA NotGenesis ==
  ASSUME IInv, NEW n \in DOMAIN inserted
  PROVE  inserted[n].hash # GENESIS
<1>1. inserted[n].hash = compute_audit_hash(inserted[n].prev, inserted[n].body)
  BY DEF IInv, HistoryInv
<1> QED
  BY <1>1 DEF compute_audit_hash, GENESIS

(* ValidMeansUntouched: the hashes of the table are those inserted, and    *)
(* equal hashes have equal parts.                                          *)
THEOREM ValidMeansUntouchedHolds == LogSpec => []ValidMeansUntouched
<1>1. ASSUME IInv, Valid, NEW i \in DOMAIN log
      PROVE  /\ ReadBack(log[i].body) = inserted[i].body
             /\ Before(i) = {} <=> inserted[i].seen = {}
             /\ inserted[i].seen # {} =>
                  inserted[Newest(inserted[i].seen)].hash = inserted[Newest(Before(i))].hash
  <2> DEFINE seen == inserted[i].seen
  <2>1. /\ i \in DOMAIN inserted /\ i \in Nat
        /\ log[i].prev = inserted[i].prev /\ log[i].hash = inserted[i].hash
        /\ inserted[i].prev = HashSeen(inserted, seen)
        /\ inserted[i].hash = compute_audit_hash(inserted[i].prev, inserted[i].body)
        /\ seen \subseteq 1 .. i - 1
        /\ seen # {} => Newest(seen) \in seen
        /\ Before(i) # {} => Newest(Before(i)) \in Before(i)
        /\ LastHash(Before(i)) = HashSeen(inserted, Before(i))
    BY <1>1, RecordIs
  <2>2. /\ log[i].prev = LastHash(Before(i))
        /\ log[i].hash = compute_audit_hash(log[i].prev, ReadBack(log[i].body))
    BY <1>1 DEF Valid, Broken
  <2>3. ReadBack(log[i].body) = inserted[i].body
    BY <2>1, <2>2 DEF compute_audit_hash
  <2>4. HashSeen(inserted, seen) = HashSeen(inserted, Before(i))
    BY <2>1, <2>2
  <2>5. Len(inserted) \in Nat /\ DOMAIN inserted = 1 .. Len(inserted)
    BY <1>1, SequenceIs DEF IInv
  <2>6. Before(i) \subseteq DOMAIN inserted
    BY <1>1, <2>5 DEF IInv, TableInv, Before
  <2>7. seen \subseteq DOMAIN inserted
    BY <2>1, <2>5
  <2>8. seen # {} => HashSeen(inserted, seen) # GENESIS
    BY <1>1, <2>1, <2>7, NotGenesis DEF HashSeen
  <2>9. Before(i) # {} => HashSeen(inserted, Before(i)) # GENESIS
    BY <1>1, <2>1, <2>6, NotGenesis DEF HashSeen
  <2>10. Before(i) = {} <=> seen = {}
    BY <2>4, <2>8, <2>9 DEF HashSeen
  <2>11. seen # {} => inserted[Newest(seen)].hash = inserted[Newest(Before(i))].hash
    BY <2>4, <2>10 DEF HashSeen
  <2> QED BY <2>3, <2>10, <2>11
<1>2. IInv => ValidMeansUntouched
  BY <1>1 DEF ValidMeansUntouched
<1> QED
  BY <1>2, InvHolds, PTL

(* There is a first broken record if the log does not verify.              *)
LEMMA FirstBroken ==
  ASSUME IInv, ~Valid
  PROVE  BrokenAt \in DOMAIN log /\ Broken(BrokenAt)
<1> DEFINE S == {i \in DOMAIN log : Broken(i)}
<1>1. DOMAIN log \subseteq Nat
  BY DEF IInv, TableInv
<1>2. S \in SUBSET Nat /\ S # {}
  BY <1>1 DEF Valid
<1>3. PICK m \in S : \A k \in S : m <= k
  <2> HIDE DEF S
  <2> QED BY <1>2, LeastNumber
<1>4. \A j \in Before(m) : ~Broken(j)
  <2> TAKE j \in Before(m)
  <2>1. j \in DOMAIN log /\ j < m /\ j \in Nat /\ m \in Nat
    BY <1>1 DEF Before
  <2> QED BY <1>3, <2>1
<1>5. \E i \in DOMAIN log : Broken(i) /\ \A j \in Before(i) : ~Broken(j)
  BY <1>4
<1> QED
  BY <1>5 DEF BrokenAt

(* AlarmHasCause: a record that has seen all those before it follows the   *)
(* newest one it saw, unless that one is gone.                             *)
THEOREM AlarmHasCauseHolds == LogSpec => []AlarmHasCause
<1>1. ASSUME IInv, NEW i \in DOMAIN log, Broken(i)
      PROVE  \/ log[i].body # inserted[i].body
             \/ ReadBack(inserted[i].body) # inserted[i].body
             \/ inserted[i].seen # {} /\ Newest(inserted[i].seen) \notin DOMAIN log
             \/ Before(i) \ inserted[i].seen # {}
  <2> DEFINE seen == inserted[i].seen
  <2>0. SUFFICES ASSUME log[i].body = inserted[i].body,
                        ReadBack(inserted[i].body) = inserted[i].body,
                        seen # {} => Newest(seen) \in DOMAIN log,
                        Before(i) \subseteq seen
                 PROVE  FALSE
    OBVIOUS
  <2>1. /\ i \in DOMAIN inserted /\ i \in Nat
        /\ log[i].prev = inserted[i].prev /\ log[i].hash = inserted[i].hash
        /\ inserted[i].prev = HashSeen(inserted, seen)
        /\ inserted[i].hash = compute_audit_hash(inserted[i].prev, inserted[i].body)
        /\ seen \subseteq 1 .. i - 1
        /\ seen # {} => Newest(seen) \in seen /\ \A j \in seen : j <= Newest(seen)
        /\ Before(i) # {} =>
             Newest(Before(i)) \in Before(i) /\ \A j \in Before(i) : j <= Newest(Before(i))
        /\ LastHash(Before(i)) = HashSeen(inserted, Before(i))
    BY <1>1, RecordIs
  <2>2. log[i].prev # LastHash(Before(i))
    BY <1>1, <2>0, <2>1 DEF Broken
  <2>3. HashSeen(inserted, seen) # HashSeen(inserted, Before(i))
    BY <2>1, <2>2
  <2>4. seen # {}
    BY <2>0, <2>3
  <2>5. Newest(seen) \in Before(i)
    <3>1. Newest(seen) \in 1 .. i - 1 /\ Newest(seen) \in DOMAIN log
      BY <2>0, <2>1, <2>4
    <3>2. Newest(seen) < i
      BY <2>1, <3>1
    <3> QED BY <3>1, <3>2 DEF Before
  <2>6. Newest(Before(i)) \in seen /\ Newest(Before(i)) <= Newest(seen)
    BY <2>0, <2>1, <2>4, <2>5
  <2>7. Newest(seen) <= Newest(Before(i))
    BY <2>1, <2>5
  <2>8. Newest(seen) = Newest(Before(i))
    <3>1. Newest(seen) \in Nat /\ Newest(Before(i)) \in Nat
      BY <2>1, <2>4, <2>6
    <3> QED BY <2>6, <2>7, <3>1
  <2> QED BY <2>3, <2>4, <2>5, <2>8 DEF HashSeen
<1>2. IInv => AlarmHasCause
  BY <1>1, FirstBroken DEF AlarmHasCause
<1> QED
  BY <1>2, InvHolds, PTL
=============================================================================
